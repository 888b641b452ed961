----------------------- MODULE KogitoBuildRefinement -----------------------
(***************************************************************************)
(* The KogitoBuild controller implements BuildPromise, for every set of    *)
(* specs and every value of the bounds: the initial states are initial     *)
(* states of the promise, and every step is one of its steps or a stutter. *)
(***************************************************************************)
EXTENDS KogitoBuildProofs

\* What a pass that applies its changes has checked: its spec is accepted,
\* it creates and updates what the spec asks for and deletes what it does not.
RequestInv ==
  At("apply") =>
    /\ pass.spec.valid
    /\ \A b \in pass.added \cup pass.updated :
         GetRequestedResources(pass.spec)[b] # NoBC
    /\ \A b \in pass.removed : GetRequestedResources(pass.spec)[b] = NoBC

\* A pass that goes on applying fewer of the changes it was allowed to.
LEMMA RequestApplying ==
  ASSUME NEW p \in PassType, pass' = Applying(p), p.spec.valid,
         \A b \in p.added \cup p.updated : GetRequestedResources(p.spec)[b] # NoBC,
         \A b \in p.removed : GetRequestedResources(p.spec)[b] = NoBC
  PROVE  RequestInv'
<1>1. CASE p.added \cup p.updated \cup p.removed # {}
  <2>1. /\ pass'.spec = p.spec /\ pass'.added = p.added
        /\ pass'.updated = p.updated /\ pass'.removed = p.removed
    BY <1>1 DEF Applying, PassType
  <2> QED
    BY <2>1 DEF RequestInv
<1>2. CASE p.added \cup p.updated \cup p.removed = {}
  <2>1. pass'.pc \in {"cancel", "status"}
    BY <1>2 DEF Applying, Returning, NewPass
  <2> QED
    BY <2>1 DEF RequestInv, At
<1> QED
  BY <1>1, <1>2

\* Every step keeps what a pass has checked.
LEMMA RequestStep == ASSUME TypeOK, RequestInv, [Next]_vars PROVE RequestInv'
<1>0. (Fail \/ Fault \/ Return \/ Requeue) => RequestInv'
  BY LeavingType DEF RequestInv, At
<1>1. CASE FetchKogitoBuildInstance \/ CreateRequiredKogitoImageStreams
  <2>1. FetchKogitoBuildInstance => pass'.pc = "imageStreams"
    BY DEF FetchKogitoBuildInstance, NewPass
  <2>2. Goto("delta") => pass'.pc = "delta"
    BY DEF Goto, TypeOK, PassType
  <2> QED
    BY <1>0, <1>1, <2>1, <2>2 DEF CreateRequiredKogitoImageStreams, RequestInv, At
<1>2. CASE ProcessDelta
  <2> DEFINE req == GetRequestedResources(pass.spec)
             both(b) == req[b] # NoBC /\ cachedBC[b] # NoBC
             upd == {b \in BuildConfigs : both(b) /\ cachedBC[b] # req[b]}
             p == [pass EXCEPT
                !.added = {b \in BuildConfigs : req[b] # NoBC /\ ~both(b)},
                !.updated = upd,
                !.removed = {b \in BuildConfigs : cachedBC[b] # NoBC /\ ~both(b)},
                !.changed = upd]
  <2>1. CASE pass' = Applying(p) /\ pass.spec.valid
    <3>1. /\ p \in PassType /\ p.updated = upd /\ p.spec = pass.spec
          /\ p.added = {b \in BuildConfigs : req[b] # NoBC /\ ~both(b)}
          /\ p.removed = {b \in BuildConfigs : cachedBC[b] # NoBC /\ ~both(b)}
      BY Zenon DEF TypeOK, PassType
    <3> HIDE DEF p
    <3> QED
      BY <2>1, <3>1, RequestApplying, Zenon
  <2> QED
    BY <1>0, <1>2, <2>1 DEF ProcessDelta
<1>3. CASE CreateResources \/ UpdateResources \/ DeleteResources
  <2>1. ASSUME NEW b \in BuildConfigs, At("apply"),
               NEW p \in {[pass EXCEPT !.added = @ \ {b}],
                          [pass EXCEPT !.updated = @ \ {b}],
                          [pass EXCEPT !.removed = @ \ {b}]},
               pass' = Applying(p)
        PROVE  RequestInv'
    <3>1. /\ p \in PassType /\ p.spec = pass.spec
          /\ p.added \subseteq pass.added /\ p.updated \subseteq pass.updated
          /\ p.removed \subseteq pass.removed
      BY DEF TypeOK, PassType
    <3> QED
      BY <2>1, <3>1, RequestApplying DEF RequestInv
  <2>2. pass.added \cup pass.updated \cup pass.removed \subseteq BuildConfigs
    BY DEF TypeOK, PassType
  <2>3. CASE CreateResources
    BY <1>0, <2>1, <2>2, <2>3, Zenon DEF CreateResources, Write
  <2>4. CASE UpdateResources
    BY <1>0, <2>1, <2>2, <2>4, Zenon DEF UpdateResources, Write
  <2>5. CASE DeleteResources
    BY <1>0, <2>1, <2>2, <2>5 DEF DeleteResources, Write
  <2> QED
    BY <1>3, <2>3, <2>4, <2>5
<1>4. CASE ListRunningBuilds \/ CancelBuild \/ WaitForCancelled
  <2>1. \/ Fault \/ Fail
        \/ pass'.pc \in {"trigger", "cancelUpdate", "cancelWait"}
    BY <1>4, Zenon DEF ListRunningBuilds, CancelBuild, WaitForCancelled, Goto, TypeOK, PassType
  <2> QED
    BY <1>0, <2>1, Zenon DEF RequestInv, At
<1>5. CASE TriggerBuild
  BY <1>0, <1>5 DEF TriggerBuild
<1>6. CASE HandleStatusChange \/ Restart
  BY <1>6, IdlePassType DEF HandleStatusChange, Restart, RequestInv, At
<1>7. CASE UNCHANGED pass
  BY <1>7 DEF RequestInv, At
<1> QED
  BY <1>1, <1>2, <1>3, <1>4, <1>5, <1>6, <1>7
  DEF Next, Reconcile, EditSpec, StartOtherBuild, FinishBuild, CollectBuild,
      SetPhase, SyncKogitoBuild, SyncBuildConfig, SyncBuilds, Resync, vars

\* RequestInv is an invariant of the controller.
LEMMA RequestInvariance == Spec => []RequestInv
<1>1. Init => RequestInv
  BY IdlePassType DEF Init, RequestInv, At
<1>2. BuildInv /\ RequestInv /\ [Next]_vars => RequestInv'
  BY RequestStep DEF BuildInv
<1> QED
  BY <1>1, <1>2, Invariance, PTL DEF Spec

-----------------------------------------------------------------------------
(* The refinement.                                                          *)

\* The initial states of the controller are initial states of the promise.
LEMMA InitRefines == Init => Promise!Init
BY DEF Init, Promise!Init, Promise!Configs, BuildConfigs, BuildIds, NoBuild

\* Steps that change no BuildConfig, start no build and do not touch what is
\* owed are stutters of the promise, whatever happens to the phases.
LEMMA Stutters ==
  ASSUME UNCHANGED <<bcs, rebuild, nbuilds>>,
         \A i \in BuildIds : /\ builds'[i].def = builds[i].def
                             /\ builds'[i].by = builds[i].by
  PROVE  UNCHANGED Promise!vars
BY DEF Promise!vars

\* A build that is made is one more of the promise's.
LEMMA StartRefines ==
  ASSUME TypeOK, NEW b \in BuildConfigs, NEW by \in {"operator", "other"},
         Instantiate(b, by), UNCHANGED bcs
  PROVE  Promise!Start(b, by)
<1> DEFINE view(B) == [i \in BuildIds |-> [def |-> B[i].def, by |-> B[i].by]]
<1>1. nbuilds + 1 \in BuildIds
  BY BoundsAssumption DEF Instantiate, TypeOK, BuildIds
<1>2. /\ \A i \in BuildIds : i # nbuilds + 1 => builds'[i] = builds[i]
      /\ builds'[nbuilds + 1].def = bcs[b] /\ builds'[nbuilds + 1].by = by
  BY <1>1 DEF Instantiate, TypeOK
<1>3. view(builds') = [view(builds) EXCEPT ![nbuilds + 1] = [def |-> bcs[b], by |-> by]]
  BY <1>1, <1>2, Zenon
<1> QED
  BY <1>3 DEF Promise!Start, Instantiate

\* A BuildConfig that is written with what an accepted spec asks for.
LEMMA WriteRefines ==
  ASSUME NEW b \in BuildConfigs, NEW s \in Specs, s.valid,
         LET r == GetRequestedResources(s)[b]
         IN  /\ r # bcs[b]
             /\ bcs' = [bcs EXCEPT ![b] = r]
             /\ rebuild' = IF b # "builder" \/ bcs[b] = NoBC THEN rebuild
                           ELSE IF r = NoBC THEN "none" ELSE "owed",
         UNCHANGED <<builds, nbuilds>>
  PROVE  Promise!Configure(b)
<1> DEFINE r == GetRequestedResources(s)
           due == IF rebuild \in {"owed", "other"} THEN "build" ELSE "nothing"
<1>1. r \in {GetRequestedResources(t) : t \in {x \in Specs : x.valid}}
  OBVIOUS
<1>2. r[b] # bcs[b] /\ bcs' = [bcs EXCEPT ![b] = r[b]]
  OBVIOUS
<1>3. due' = IF b # "builder" \/ bcs[b] = NoBC THEN due
             ELSE IF r[b] = NoBC THEN "nothing" ELSE "build"
  <2>1. CASE b # "builder" \/ bcs[b] = NoBC
    BY <2>1
  <2>2. CASE ~(b # "builder" \/ bcs[b] = NoBC) /\ r[b] = NoBC
    BY <2>2
  <2>3. CASE ~(b # "builder" \/ bcs[b] = NoBC) /\ r[b] # NoBC
    BY <2>3, Zenon
  <2> QED
    BY <2>1, <2>2, <2>3
<1> HIDE DEF r
<1> QED
  BY <1>1, <1>2, <1>3, Zenon DEF Promise!Configure

\* Every step of the controller and of what surrounds it is a step of the
\* promise or a stutter.
LEMMA NextRefines ==
  ASSUME BuildInv, RequestInv, [Next]_vars
  PROVE  [Promise!Next]_Promise!vars
<1> USE DEF BuildInv
<1> DEFINE req == GetRequestedResources(pass.spec)
<1>0. pass.spec \in Specs
      /\ pass.added \cup pass.updated \cup pass.removed \subseteq BuildConfigs
  BY DEF TypeOK, PassType
<1>1. CASE UNCHANGED <<bcs, builds, nbuilds, rebuild>>
  BY <1>1, Stutters
<1>2. CASE CreateResources
  <2>1. PICK b \in pass.added :
          \/ bcs[b] = NoBC /\ bcs' = [bcs EXCEPT ![b] = req[b]]
          \/ UNCHANGED bcs
    BY <1>2 DEF CreateResources, Write
  <2>2. UNCHANGED <<builds, nbuilds, rebuild>>
    BY <1>2 DEF CreateResources
  <2>3. req[b] # NoBC /\ pass.spec.valid
    BY <1>2 DEF CreateResources, RequestInv
  <2>4. CASE bcs[b] = NoBC /\ bcs' = [bcs EXCEPT ![b] = req[b]]
    BY <1>0, <2>2, <2>3, <2>4, WriteRefines, Zenon DEF Promise!Next, Promise!Configs, BuildConfigs
  <2> QED
    BY <1>1, <2>1, <2>2, <2>4
<1>3. CASE UpdateResources
  <2>1. PICK b \in pass.updated :
          \/ /\ UpdateAccepted(b)
             /\ bcs' = [bcs EXCEPT ![b] = req[b]]
             /\ rebuild' = IF b = "builder" /\ bcs[b] # req[b]
                             THEN "owed" ELSE rebuild
          \/ UNCHANGED <<bcs, rebuild>>
    BY <1>3 DEF UpdateResources, Write
  <2>2. UNCHANGED <<builds, nbuilds>>
    BY <1>3 DEF UpdateResources
  <2>3. req[b] # NoBC /\ pass.spec.valid
    BY <1>3 DEF UpdateResources, RequestInv
  <2>4. CASE /\ UpdateAccepted(b)
             /\ bcs' = [bcs EXCEPT ![b] = req[b]]
             /\ rebuild' = IF b = "builder" /\ bcs[b] # req[b]
                             THEN "owed" ELSE rebuild
    <3>1. bcs[b] # NoBC /\ bcs[b] # req[b]
      BY <1>3, <2>4 DEF UpdateAccepted, UpdateResources, At, PassInv
    <3> QED
      BY <1>0, <2>2, <2>3, <2>4, <3>1, WriteRefines, Zenon
      DEF Promise!Next, Promise!Configs, BuildConfigs
  <2> QED
    BY <1>1, <2>1, <2>2, <2>4
<1>4. CASE DeleteResources
  <2>1. PICK b \in pass.removed :
          \/ /\ bcs[b] # NoBC
             /\ bcs' = [bcs EXCEPT ![b] = NoBC]
             /\ rebuild' = IF b = "builder" THEN "none" ELSE rebuild
          \/ UNCHANGED <<bcs, rebuild>>
    BY <1>4 DEF DeleteResources, Write
  <2>2. UNCHANGED <<builds, nbuilds>>
    BY <1>4 DEF DeleteResources
  <2>3. req[b] = NoBC /\ pass.spec.valid
    BY <1>4 DEF DeleteResources, RequestInv
  <2>4. CASE /\ bcs[b] # NoBC
             /\ bcs' = [bcs EXCEPT ![b] = NoBC]
             /\ rebuild' = IF b = "builder" THEN "none" ELSE rebuild
    BY <1>0, <2>2, <2>3, <2>4, WriteRefines, Zenon DEF Promise!Next, Promise!Configs, BuildConfigs
  <2> QED
    BY <1>1, <2>1, <2>2, <2>4
<1>5. CASE CancelBuild
  <2>1. \A i \in BuildIds : builds'[i].def = builds[i].def /\ builds'[i].by = builds[i].by
    BY <1>5 DEF CancelBuild, TypeOK, BuildType
  <2> QED
    BY <1>5, <2>1, Stutters DEF CancelBuild
<1>6. CASE TriggerBuild
  <2>1. CASE Instantiate("builder", "operator") /\ rebuild' = "operator"
    <3>1. Promise!Start("builder", "operator")
      BY <1>6, <2>1, StartRefines DEF TriggerBuild, BuildConfigs
    <3>2. rebuild \in {"owed", "other"}
      BY <1>6 DEF TriggerBuild, At, PassInv
    <3> QED
      BY <2>1, <3>1, <3>2 DEF Promise!Next, Promise!OperatorStart
  <2>2. CASE UNCHANGED <<builds, nbuilds, rebuild>>
    BY <1>1, <1>6, <2>2 DEF TriggerBuild
  <2> QED
    BY <1>6, <2>1, <2>2 DEF TriggerBuild
<1>7. CASE StartOtherBuild
  <2>1. PICK b \in BuildConfigs :
          /\ Instantiate(b, "other")
          /\ rebuild' = IF b = "builder" /\ rebuild = "owed" THEN "other" ELSE rebuild
    BY <1>7 DEF StartOtherBuild
  <2>2. Promise!Start(b, "other")
    BY <1>7, <2>1, StartRefines DEF StartOtherBuild
  <2>3. (rebuild \in {"owed", "other"}) <=> (rebuild' \in {"owed", "other"})
    BY <2>1
  <2>4. Promise!OtherStart(b)
    BY <2>2, <2>3 DEF Promise!OtherStart
  <2> QED
    BY <2>4 DEF Promise!Next, Promise!Configs, BuildConfigs
<1>8. ASSUME NEW j \in BuildIds, FinishBuild(j) \/ CollectBuild(j)
      PROVE  [Promise!Next]_Promise!vars
  <2>1. PICK ph : SetPhase(j, ph)
    BY <1>8 DEF FinishBuild, CollectBuild
  <2>2. \A i \in BuildIds : builds'[i].def = builds[i].def /\ builds'[i].by = builds[i].by
    BY <2>1 DEF SetPhase, TypeOK, BuildType
  <2> QED
    BY <2>1, <2>2, Stutters DEF SetPhase
<1> QED
  BY <1>1, <1>2, <1>3, <1>4, <1>5, <1>6, <1>7, <1>8, ZenonT(30)
  DEF Next, Reconcile, FetchKogitoBuildInstance, CreateRequiredKogitoImageStreams,
      ProcessDelta, ListRunningBuilds, WaitForCancelled, HandleStatusChange, EditSpec,
      SyncKogitoBuild, SyncBuildConfig, SyncBuilds, Resync, Restart, vars, apiVars

\* The controller implements the promise: BuildConfigs change only to what an
\* accepted spec asks for and the operator's builds are one at most for each
\* change, whatever is stale, refused, lost, repeated or restarted.
THEOREM Refinement == Spec => PromiseKept
<1>1. BuildInv /\ RequestInv /\ [Next]_vars => [Promise!Next]_Promise!vars
  BY NextRefines
<1> QED
  BY <1>1, InitRefines, Invariance, RequestInvariance, PTL
  DEF Spec, PromiseKept, Promise!Spec
=============================================================================
