------------------------- MODULE KogitoBuildProofs -------------------------
(***************************************************************************)
(* Proofs about the KogitoBuild controller, for every set of specs and     *)
(* every value of the bounds.                                              *)
(***************************************************************************)
EXTENDS KogitoBuild, TLAPS

\* The BuildConfigs a spec requests are definitions or absent.
LEMMA RequestedType ==
  ASSUME NEW s \in Specs
  PROVE  GetRequestedResources(s) \in [BuildConfigs -> Definitions \cup {NoBC}]
BY SpecsAssumption, Zenon
DEF GetRequestedResources, Definitions, SpecType, BuildConfigs, BuildTypes, SourceTypes

\* A pass that starts, returns or applies changes is a pass.
LEMMA NewPassType ==
  ASSUME NEW s \in Specs
  PROVE  /\ NewPass(s) \in PassType
         /\ \A e, r \in BOOLEAN : Returning(s, e, r) \in PassType
BY Zenon DEF NewPass, Returning, PassType, PCs

\* The idle pass is a pass.
LEMMA IdlePassType == IdlePass \in PassType /\ IdlePass.pc = "idle"
<1>1. (CHOOSE s \in Specs : TRUE) \in Specs
  BY SpecsAssumption
<1> QED
  BY <1>1, NewPassType, ZenonT(30) DEF IdlePass, NewPass, PassType, PCs

\* A pass that applies the delta is a pass, at one of three places.
LEMMA ApplyingType ==
  ASSUME NEW p \in PassType
  PROVE  /\ Applying(p) \in PassType
         /\ Applying(p).pc \in {"apply", "cancel", "status"}
<1>1. p.spec \in Specs
  BY DEF PassType
<1>2. NewPass(p.spec) \in PassType /\ Returning(p.spec, FALSE, FALSE) \in PassType
  BY <1>1, NewPassType, Zenon
<1>3. Returning(p.spec, FALSE, FALSE).pc = "status"
  BY DEF Returning, NewPass
<1>4. [NewPass(p.spec) EXCEPT !.pc = "cancel"] \in PassType
      /\ [NewPass(p.spec) EXCEPT !.pc = "cancel"].pc = "cancel"
  BY <1>2 DEF PassType, PCs
<1>5. [p EXCEPT !.pc = "apply"] \in PassType /\ [p EXCEPT !.pc = "apply"].pc = "apply"
  BY DEF PassType, PCs
<1> QED
  BY <1>2, <1>3, <1>4, <1>5, Zenon DEF Applying

\* Every status the controller computes is a status.
LEMMA NewStatusType ==
  ASSUME NEW s \in Specs, NEW st \in StatusType, NEW e \in BOOLEAN,
         cachedPhase \in [BuildIds -> Phases]
  PROVE  NewStatus(s, st, e) \subseteq StatusType
<1>1. \A r \in Reasons : /\ SetRunningConditions(st, r) \in StatusType
                         /\ SetFailedConditions(st, r) \in StatusType
  BY Zenon DEF SetRunningConditions, SetFailedConditions, StatusType, ConditionStatus
<1>2. "NotYetStarted" \in Reasons /\ "OperatorFailure" \in Reasons
  BY DEF Reasons
<1>3. \A i \in BuildIds :
        AddCondition([st EXCEPT !.latest = i], cachedPhase[i]) \in StatusType
  <2> TAKE i \in BuildIds
  <2> DEFINE u == [st EXCEPT !.latest = i]
  <2>1. u \in StatusType
    BY DEF StatusType
  <2>2. \A r \in Reasons : /\ SetRunningConditions(u, r) \in StatusType
                           /\ SetSuccessfulConditions(u, r) \in StatusType
                           /\ SetFailedConditions(u, r) \in StatusType
    <3> HIDE DEF u
    <3> QED
      BY <2>1, Zenon DEF SetRunningConditions, SetSuccessfulConditions,
                  SetFailedConditions, StatusType, ConditionStatus
  <2>3. ActivePhases \cup FinalPhases \subseteq Reasons
    BY DEF Reasons
  <2> HIDE DEF u
  <2>4. AddCondition(u, cachedPhase[i]) \in StatusType
    BY <2>1, <2>2, <2>3 DEF AddCondition, ActivePhases, FinalPhases
  <2> QED
    BY <2>4 DEF u
<1>4. ListedBuilds(s) \subseteq BuildIds
  BY DEF ListedBuilds
<1> QED
  BY <1>1, <1>2, <1>3, <1>4, Zenon DEF NewStatus, HandleConditionTransition, Latest

-----------------------------------------------------------------------------
(* Typing: one step per action of the pass, one for the rest of Next.       *)

USE NoBCAssumption

\* The types hold initially.
LEMMA InitType == Init => TypeOK
<1> SUFFICES ASSUME Init PROVE TypeOK
  OBVIOUS
<1>1. NoStatus \in StatusType
  BY DEF NoStatus, StatusType, ConditionStatus, Reasons
<1>2. NoBuild \in BuildType
  BY DEF NoBuild, BuildType, BuildConfigs, Phases
<1>3. "None" \in Phases
  BY DEF Phases
<1>4. 0 \in 0 .. MaxBuilds
  BY BoundsAssumption
<1> QED
  BY <1>1, <1>2, <1>3, <1>4, IdlePassType DEF Init, TypeOK, BuildConfigs

\* What Fail, Fault, Return, Requeue and Goto do to the pass keeps its type.
LEMMA LeavingType ==
  ASSUME TypeOK
  PROVE  /\ Fail => pass' \in PassType /\ pass'.pc = "status"
         /\ Return => pass' \in PassType /\ pass'.pc = "status"
         /\ Requeue => pass' \in PassType /\ pass'.pc = "status"
         /\ Fault => /\ pass' \in PassType /\ pass'.pc = "status"
                     /\ used' \in [edits : Nat, other : Nat, faults : Nat, crashes : Nat]
<1>1. pass.spec \in Specs
  BY DEF TypeOK, PassType
<1>2. \A e, r \in BOOLEAN : /\ Returning(pass.spec, e, r) \in PassType
                            /\ Returning(pass.spec, e, r).pc = "status"
  <2>1. \A e, r \in BOOLEAN : Returning(pass.spec, e, r).pc = "status"
    BY DEF Returning, NewPass
  <2> QED
    BY <1>1, <2>1, NewPassType
<1>3. Fault => used' \in [edits : Nat, other : Nat, faults : Nat, crashes : Nat]
  BY DEF Fault, TypeOK
<1> QED
  BY <1>2, <1>3, Zenon DEF Fail, Return, Requeue, Fault

\* A write of a BuildConfig keeps the types of all it changes.
LEMMA WriteType ==
  ASSUME TypeOK, NEW b \in BuildConfigs, NEW d \in Definitions \cup {NoBC},
         NEW p \in PassType, Write(b, d, p)
  PROVE  /\ bcs' \in [BuildConfigs -> Definitions \cup {NoBC}]
         /\ cacheCurrent' \subseteq Objects /\ passCurrent' \subseteq Objects
         /\ pass' \in PassType
         /\ pass'.pc \in {"apply", "cancel", "status"}
         /\ used' \in [edits : Nat, other : Nat, faults : Nat, crashes : Nat]
<1>1. CASE pass' = Applying(p) /\ UNCHANGED used
  BY <1>1, ApplyingType DEF Write, Wrote, TypeOK
<1>2. CASE Fault
  BY <1>2, LeavingType DEF Write, Wrote, TypeOK
<1> QED
  BY <1>1, <1>2 DEF Write

\* So does the creation of a build.
LEMMA InstantiateType ==
  ASSUME TypeOK, NEW b \in BuildConfigs,
         NEW by \in {"operator", "other"}, Instantiate(b, by)
  PROVE  /\ builds' \in [BuildIds -> BuildType]
         /\ nbuilds' \in 0 .. MaxBuilds
         /\ cacheCurrent' \subseteq Objects /\ passCurrent' \subseteq Objects
<1>1. [bc |-> b, def |-> bcs[b], by |-> by, phase |-> "Running",
       cancelled |-> FALSE] \in BuildType
  BY DEF BuildType, TypeOK, Phases, ActivePhases
<1>2. builds' \in [BuildIds -> BuildType]
  <2> DEFINE r == [bc |-> b, def |-> bcs[b], by |-> by, phase |-> "Running",
       cancelled |-> FALSE]
  <2> HIDE DEF r
  <2>1. builds' = [builds EXCEPT ![nbuilds + 1] = r]
    BY DEF Instantiate, r
  <2> QED
    BY <1>1, <2>1, Zenon DEF TypeOK, r
<1>3. nbuilds' \in 0 .. MaxBuilds
  BY BoundsAssumption DEF Instantiate, TypeOK
<1> QED
  BY <1>2, <1>3 DEF Instantiate, Wrote, TypeOK

\* A build with the cancel mark is a build.
LEMMA CancelledType ==
  ASSUME NEW r \in BuildType
  PROVE  [r EXCEPT !.cancelled = TRUE] \in BuildType
BY Zenon DEF BuildType

\* So is one whose phase changes.
LEMMA PhaseType ==
  ASSUME TypeOK, NEW i \in BuildIds, NEW ph \in Phases, SetPhase(i, ph)
  PROVE  TypeOK'
<1>1. builds[i] \in BuildType
  BY DEF TypeOK
<1>2. [builds[i] EXCEPT !.phase = ph] \in BuildType
  BY <1>1 DEF BuildType
<1>3. builds' = [builds EXCEPT ![i] = [builds[i] EXCEPT !.phase = ph]]
  BY DEF SetPhase
<1>4. builds' \in [BuildIds -> BuildType]
  BY <1>2, <1>3 DEF TypeOK
<1> QED
  BY <1>4 DEF SetPhase, TypeOK, cacheVars, currentVars

\* Every step of a reconcile pass keeps the types.
LEMMA ReconcileType == ASSUME TypeOK, Reconcile PROVE TypeOK'
<1> USE LeavingType
<1>1. CASE FetchKogitoBuildInstance
  <2>1. pass' \in PassType /\ pass'.pc = "imageStreams"
    BY <1>1, NewPassType DEF FetchKogitoBuildInstance, TypeOK, NewPass
  <2> QED
    BY <1>1, <2>1, Zenon DEF FetchKogitoBuildInstance, TypeOK, apiVars, cacheVars
<1>2. CASE CreateRequiredKogitoImageStreams
  <2>1. streams' \subseteq Images
    BY <1>2, SpecsAssumption
    DEF CreateRequiredKogitoImageStreams, TypeOK, PassType, SpecType
  <2>2. Goto("delta") => pass' \in PassType /\ pass'.pc = "delta"
    BY DEF TypeOK, PassType, PCs, Goto
  <2> QED
    BY <1>2, <2>1, <2>2
    DEF CreateRequiredKogitoImageStreams, TypeOK, cacheVars, currentVars
<1>3. CASE ProcessDelta
  <2>1. pass' \in PassType /\ pass'.pc \in {"apply", "cancel", "status"}
    <3> DEFINE req == GetRequestedResources(pass.spec)
               both(b) == req[b] # NoBC /\ cachedBC[b] # NoBC
               upd == {b \in BuildConfigs : both(b) /\ cachedBC[b] # req[b]}
               p == [pass EXCEPT
                  !.added = {b \in BuildConfigs : req[b] # NoBC /\ ~both(b)},
                  !.updated = upd,
                  !.removed = {b \in BuildConfigs : cachedBC[b] # NoBC /\ ~both(b)},
                  !.changed = upd]
    <3>1. p \in PassType
      BY Zenon DEF TypeOK, PassType
    <3> HIDE DEF p
    <3>2. CASE pass' = Applying(p)
      BY <3>1, <3>2, ApplyingType
    <3>3. CASE Fail \/ Fault
      BY <3>3
    <3> QED
      BY <1>3, <3>2, <3>3, Zenon DEF ProcessDelta, p
  <2>2. passCurrent' \subseteq Objects
    BY <1>3 DEF ProcessDelta, TypeOK, Objects
  <2>3. used' \in [edits : Nat, other : Nat, faults : Nat, crashes : Nat]
    BY <1>3 DEF ProcessDelta, TypeOK
  <2> QED
    BY <1>3, <2>1, <2>2, <2>3 DEF ProcessDelta, TypeOK, apiVars, cacheVars
<1>4. CASE CreateResources
  <2> PICK b \in pass.added :
        \/ /\ bcs[b] = NoBC
           /\ Write(b, GetRequestedResources(pass.spec)[b],
                    [pass EXCEPT !.added = @ \ {b}])
        \/ bcs[b] # NoBC /\ Fail /\ UNCHANGED <<bcs, currentVars, used>>
        \/ Fault /\ UNCHANGED <<bcs, currentVars>>
    BY <1>4 DEF CreateResources
  <2>1. [pass EXCEPT !.added = @ \ {b}] \in PassType /\ b \in BuildConfigs
    BY DEF TypeOK, PassType
  <2>2. GetRequestedResources(pass.spec)[b] \in Definitions \cup {NoBC}
    BY <2>1, RequestedType DEF TypeOK, PassType
  <2> QED
    BY <1>4, <2>1, <2>2, WriteType DEF CreateResources, TypeOK, cacheVars, currentVars
<1>5. CASE UpdateResources
  <2> DEFINE req == GetRequestedResources(pass.spec)
  <2> PICK b \in pass.updated :
        \/ /\ Write(b, req[b], [pass EXCEPT !.updated = @ \ {b}])
           /\ rebuild' = IF b = "builder" /\ bcs[b] # req[b]
                           THEN "owed" ELSE rebuild
        \/ Fail /\ UNCHANGED <<bcs, currentVars, rebuild, used>>
        \/ Fault /\ UNCHANGED <<bcs, currentVars, rebuild>>
    BY <1>5, Zenon DEF UpdateResources
  <2>1. [pass EXCEPT !.updated = @ \ {b}] \in PassType /\ b \in BuildConfigs
    BY DEF TypeOK, PassType
  <2>2. req[b] \in Definitions \cup {NoBC}
    BY <2>1, RequestedType DEF TypeOK, PassType
  <2> HIDE DEF req
  <2> QED
    BY <1>5, <2>1, <2>2, WriteType
    DEF UpdateResources, TypeOK, cacheVars, currentVars
<1>6. CASE DeleteResources
  <2> PICK b \in pass.removed :
        \/ /\ Write(b, NoBC, [pass EXCEPT !.removed = @ \ {b}])
           /\ rebuild' = IF b = "builder" THEN "none" ELSE rebuild
        \/ Fail /\ UNCHANGED <<bcs, currentVars, rebuild, used>>
        \/ Fault /\ UNCHANGED <<bcs, currentVars, rebuild>>
    BY <1>6, ZenonT(30) DEF DeleteResources
  <2>1. [pass EXCEPT !.removed = @ \ {b}] \in PassType /\ b \in BuildConfigs
    BY DEF TypeOK, PassType
  <2> QED
    BY <1>6, <2>1, WriteType DEF DeleteResources, TypeOK, cacheVars, currentVars
<1>7. CASE ListRunningBuilds
  <2>1. /\ pass' \in PassType
        /\ pass'.pc \in {"cancelUpdate", "cancelWait"} => pass'.victim \in BuildIds
        /\ used' \in [edits : Nat, other : Nat, faults : Nat, crashes : Nat]
    <3> DEFINE running == {i \in BuildIds : /\ builds[i].bc = "builder"
                                            /\ builds[i].phase \in ActivePhases}
    <3>1. CASE Goto("trigger") /\ UNCHANGED used
      BY <3>1, Zenon DEF Goto, TypeOK, PassType, PCs
    <3>2. ASSUME NEW i \in running, UNCHANGED used,
                 pass' = [pass EXCEPT !.pc = "cancelUpdate", !.listed = running,
                                      !.victim = i]
          PROVE  <2>1
      BY <3>2, Zenon DEF TypeOK, PassType, PCs
    <3>3. CASE Fault
      BY <3>3
    <3> QED
      BY <1>7, <3>1, <3>2, <3>3, Zenon DEF ListRunningBuilds
  <2> QED
    BY <1>7, <2>1, Zenon DEF ListRunningBuilds, TypeOK, apiVars, cacheVars, currentVars
<1>8. CASE CancelBuild
  <2>1. builds' \in [BuildIds -> BuildType]
    <3>1. pass.victim \in BuildIds
      BY <1>8 DEF CancelBuild, At, TypeOK
    <3>2. [builds[pass.victim] EXCEPT !.cancelled = TRUE] \in BuildType
      BY <3>1, CancelledType DEF TypeOK
    <3>3. [builds EXCEPT ![pass.victim].cancelled = TRUE]
            = [builds EXCEPT ![pass.victim] = [builds[pass.victim] EXCEPT !.cancelled = TRUE]]
      OBVIOUS
    <3>4. [builds EXCEPT ![pass.victim].cancelled = TRUE] \in [BuildIds -> BuildType]
      BY <3>2, <3>3, Zenon DEF TypeOK
    <3> QED
      BY <1>8, <3>4 DEF CancelBuild, TypeOK
  <2>2. /\ pass' \in PassType
        /\ pass'.pc \in {"cancelUpdate", "cancelWait"} => pass'.victim \in BuildIds
    <3>1. CASE Goto("cancelWait")
      BY <1>8, <3>1 DEF CancelBuild, At, Goto, TypeOK, PassType, PCs
    <3> QED
      BY <1>8, <3>1 DEF CancelBuild
  <2>3. used' \in [edits : Nat, other : Nat, faults : Nat, crashes : Nat]
    BY <1>8 DEF CancelBuild, TypeOK
  <2> QED
    BY <1>8, <2>1, <2>2, <2>3 DEF CancelBuild, TypeOK, cacheVars, currentVars
<1>9. CASE WaitForCancelled
  <2>1. Goto("trigger") => pass' \in PassType /\ pass'.pc = "trigger"
    BY DEF Goto, TypeOK, PassType, PCs
  <2> QED
    BY <1>9, <2>1
    DEF WaitForCancelled, TypeOK, apiVars, cacheVars, currentVars
<1>10. CASE TriggerBuild
  <2>1. Instantiate("builder", "operator") =>
          /\ builds' \in [BuildIds -> BuildType] /\ nbuilds' \in 0 .. MaxBuilds
          /\ cacheCurrent' \subseteq Objects /\ passCurrent' \subseteq Objects
    BY InstantiateType DEF BuildConfigs
  <2> QED
    BY <1>10, <2>1 DEF TriggerBuild, TypeOK, cacheVars, currentVars
<1>11. CASE HandleStatusChange
  <2>1. status' \in StatusType
    <3>1. DeferredErr \in BOOLEAN /\ pass.spec \in Specs
      BY DEF DeferredErr, TypeOK, PassType
    <3>2. NewStatus(pass.spec, status, DeferredErr) \subseteq StatusType
      BY <3>1, NewStatusType DEF TypeOK
    <3> QED
      BY <1>11, <3>2 DEF HandleStatusChange, TypeOK
  <2>2. queue' \in BOOLEAN
    BY <1>11, Zenon DEF HandleStatusChange
  <2>3. used' \in [edits : Nat, other : Nat, faults : Nat, crashes : Nat]
    BY <1>11 DEF HandleStatusChange, TypeOK
  <2>4. cacheCurrent' \subseteq Objects /\ passCurrent' \subseteq Objects
    BY <1>11 DEF HandleStatusChange, TypeOK
  <2> QED
    BY <1>11, <2>1, <2>2, <2>3, <2>4, IdlePassType
    DEF HandleStatusChange, TypeOK, cacheVars
<1> QED
  BY <1>1, <1>2, <1>3, <1>4, <1>5, <1>6, <1>7, <1>8, <1>9, <1>10, <1>11 DEF Reconcile

\* Every step keeps the types.
LEMMA NextType == TypeOK /\ [Next]_vars => TypeOK'
<1> SUFFICES ASSUME TypeOK, [Next]_vars PROVE TypeOK'
  OBVIOUS
<1>1. CASE Reconcile
  BY <1>1, ReconcileType
<1>2. CASE EditSpec
  BY <1>2 DEF EditSpec, Wrote, TypeOK, cacheVars
<1>3. CASE StartOtherBuild
  BY <1>3, InstantiateType DEF StartOtherBuild, TypeOK, cacheVars
<1>4. ASSUME NEW i \in BuildIds, FinishBuild(i) \/ CollectBuild(i)
      PROVE  TypeOK'
  <2>1. \A ph \in Phases : SetPhase(i, ph) => TypeOK'
    BY PhaseType
  <2>2. Outcomes \subseteq Phases /\ {"Cancelled", "Deleted"} \subseteq Phases
    BY OutcomesAssumption DEF Phases, FinalPhases
  <2> QED
    BY <1>4, <2>1, <2>2 DEF FinishBuild, CollectBuild
<1>5. CASE SyncKogitoBuild
  BY <1>5 DEF SyncKogitoBuild, TypeOK, apiVars, Objects
<1>6. ASSUME NEW b \in BuildConfigs, SyncBuildConfig(b) PROVE TypeOK'
  BY <1>6 DEF SyncBuildConfig, TypeOK, apiVars, Objects
<1>7. CASE SyncBuilds
  BY <1>7 DEF SyncBuilds, TypeOK, BuildType, apiVars, currentVars
<1>8. CASE Resync
  BY <1>8 DEF Resync, TypeOK, apiVars, cacheVars, currentVars
<1>9. CASE Restart
  BY <1>9, IdlePassType DEF Restart, TypeOK, BuildType, apiVars
<1>10. CASE UNCHANGED vars
  BY <1>10 DEF TypeOK, vars, apiVars, cacheVars, currentVars
<1> QED
  BY <1>1, <1>2, <1>3, <1>4, <1>5, <1>6, <1>7, <1>8, <1>9, <1>10 DEF Next

\* The variables of the KogitoBuild controller keep their types.
THEOREM TypeCorrect == Spec => []TypeOK
BY InitType, NextType, PTL DEF Spec

-----------------------------------------------------------------------------
(* What the caches hold.                                                    *)

\* A step that touches neither objects, builds nor caches keeps CacheInv.
LEMMA CacheFrame ==
  ASSUME CacheInv, UNCHANGED <<bcs, builds, nbuilds, cachedBC, cachedPhase>>,
         cacheCurrent' \subseteq cacheCurrent
  PROVE  CacheInv'
BY DEF CacheInv

\* A BuildConfig that is written leaves the cache not current.
LEMMA CacheWrite ==
  ASSUME TypeOK, CacheInv, NEW b \in BuildConfigs, NEW d, NEW p, Write(b, d, p),
         UNCHANGED <<builds, nbuilds, cachedBC, cachedPhase>>
  PROVE  CacheInv'
BY DEF CacheInv, Write, Wrote, TypeOK

\* A new build is one the cache has not seen.
LEMMA CacheInstantiate ==
  ASSUME TypeOK, CacheInv, NEW b \in BuildConfigs,
         NEW by \in {"operator", "other"}, Instantiate(b, by),
         UNCHANGED <<bcs, cachedBC, cachedPhase>>
  PROVE  CacheInv'
<1>1. \A c \in BuildConfigs : c \in cacheCurrent' => cachedBC'[c] = bcs'[c]
  BY DEF CacheInv, Instantiate, Wrote
<1>2. nbuilds \in Nat /\ nbuilds + 1 \in BuildIds /\ nbuilds' = nbuilds + 1
  BY BoundsAssumption DEF TypeOK, Instantiate, BuildIds
<1>3. cachedPhase[nbuilds + 1] = "None"
  BY <1>2 DEF CacheInv
<1>4. \A i \in BuildIds : i # nbuilds + 1 => builds'[i] = builds[i]
  BY DEF Instantiate, TypeOK
<1>5. ASSUME NEW i \in BuildIds
      PROVE  /\ i > nbuilds' => builds'[i].phase = "None" /\ cachedPhase'[i] = "None"
             /\ cachedPhase'[i] = "Complete" => builds'[i].phase \in {"Complete", "Deleted"}
             /\ cachedPhase'[i] = "Error" => builds'[i].phase \in {"Error", "Deleted"}
  <2>1. CASE i = nbuilds + 1
    BY <1>2, <1>3, <2>1
  <2>2. CASE i # nbuilds + 1
    <3>1. i \in Nat
      BY DEF BuildIds
    <3> QED
      BY <1>2, <1>4, <2>2, <3>1 DEF CacheInv
  <2> QED
    BY <2>1, <2>2
<1> QED
  BY <1>1, <1>5 DEF CacheInv

\* A build changes its phase only while it is active, or is deleted.
LEMMA CacheSetPhase ==
  ASSUME TypeOK, CacheInv, NEW i \in BuildIds, NEW ph,
         builds[i].phase \in ActivePhases \/ (ph = "Deleted" /\ builds[i].phase # "None"),
         SetPhase(i, ph)
  PROVE  CacheInv'
<1>1. \A j \in BuildIds : j # i => builds'[j] = builds[j]
  BY DEF SetPhase, TypeOK
<1>2. builds'[i].phase = ph
  BY DEF SetPhase, TypeOK, BuildType
<1>3. i <= nbuilds
  BY BoundsAssumption DEF CacheInv, ActivePhases, TypeOK, BuildIds
<1>4. ASSUME NEW j \in BuildIds
      PROVE  /\ j > nbuilds' => builds'[j].phase = "None" /\ cachedPhase'[j] = "None"
             /\ cachedPhase'[j] = "Complete" => builds'[j].phase \in {"Complete", "Deleted"}
             /\ cachedPhase'[j] = "Error" => builds'[j].phase \in {"Error", "Deleted"}
  <2>1. UNCHANGED <<nbuilds, cachedPhase>>
    BY DEF SetPhase, cacheVars
  <2>2. CASE j = i
    <3>1. ~(i > nbuilds)
      BY <1>3, BoundsAssumption DEF TypeOK, BuildIds
    <3>2. cachedPhase[i] \in {"Complete", "Error"} => ph = "Deleted"
      BY DEF CacheInv, ActivePhases
    <3> QED
      BY <1>2, <2>1, <2>2, <3>1, <3>2
  <2>3. CASE j # i
    BY <1>1, <2>1, <2>3 DEF CacheInv
  <2> QED
    BY <2>2, <2>3
<1> QED
  BY <1>4 DEF CacheInv, SetPhase, cacheVars, currentVars

\* Every step keeps what the caches say true of some earlier state.
LEMMA CacheStep == ASSUME TypeOK, CacheInv, [Next]_vars PROVE CacheInv'
<1>1. CASE FetchKogitoBuildInstance \/ CreateRequiredKogitoImageStreams \/ ProcessDelta
           \/ ListRunningBuilds \/ WaitForCancelled \/ HandleStatusChange
           \/ EditSpec \/ Resync \/ UNCHANGED vars
  <2>1. /\ UNCHANGED <<bcs, builds, nbuilds, cachedBC, cachedPhase>>
        /\ cacheCurrent' \subseteq cacheCurrent
    BY <1>1, Zenon
    DEF FetchKogitoBuildInstance, CreateRequiredKogitoImageStreams, ProcessDelta,
        ListRunningBuilds, WaitForCancelled, HandleStatusChange, EditSpec, Wrote,
        Resync, vars, apiVars, cacheVars, currentVars
  <2> QED
    BY <2>1, CacheFrame, Zenon
<1>2. CASE CreateResources \/ UpdateResources \/ DeleteResources
  <2>1. UNCHANGED <<builds, nbuilds, cachedBC, cachedPhase>>
    BY <1>2 DEF CreateResources, UpdateResources, DeleteResources, cacheVars
  <2>2. CASE UNCHANGED <<bcs, currentVars>>
    BY <2>1, <2>2, CacheFrame DEF currentVars
  <2>3. CASE \E b \in BuildConfigs : \E d, p : Write(b, d, p)
    BY <2>1, <2>3, CacheWrite
  <2>4. pass.added \cup pass.updated \cup pass.removed \subseteq BuildConfigs
    BY DEF TypeOK, PassType
  <2> QED
    BY <1>2, <2>2, <2>3, <2>4, ZenonT(60)
    DEF CreateResources, UpdateResources, DeleteResources
<1>3. CASE CancelBuild
  <2>1. \A i \in BuildIds : builds'[i].phase = builds[i].phase
    BY <1>3 DEF CancelBuild, TypeOK, BuildType
  <2> QED
    BY <1>3, <2>1 DEF CancelBuild, CacheInv, cacheVars, currentVars
<1>4. CASE TriggerBuild
  <2>1. CASE Instantiate("builder", "operator")
    BY <1>4, <2>1, CacheInstantiate DEF TriggerBuild, cacheVars, BuildConfigs
  <2>2. CASE UNCHANGED <<builds, nbuilds, currentVars>>
    BY <1>4, <2>2, CacheFrame DEF TriggerBuild, cacheVars, currentVars
  <2> QED
    BY <1>4, <2>1, <2>2 DEF TriggerBuild
<1>5. CASE StartOtherBuild
  BY <1>5, CacheInstantiate DEF StartOtherBuild, cacheVars
<1>6. ASSUME NEW i \in BuildIds, FinishBuild(i) \/ CollectBuild(i) PROVE CacheInv'
  BY <1>6, CacheSetPhase DEF FinishBuild, CollectBuild
<1>7. CASE SyncKogitoBuild
  BY <1>7 DEF SyncKogitoBuild, CacheInv, apiVars, BuildConfigs
<1>8. ASSUME NEW b \in BuildConfigs, SyncBuildConfig(b) PROVE CacheInv'
  BY <1>8 DEF SyncBuildConfig, CacheInv, apiVars, TypeOK
<1>9. CASE SyncBuilds \/ Restart
  <2>1. \A i \in BuildIds : cachedPhase'[i] = builds[i].phase
    BY <1>9 DEF SyncBuilds, Restart
  <2>2. \A b \in BuildConfigs : b \in cacheCurrent' => cachedBC'[b] = bcs'[b]
    BY <1>9 DEF SyncBuilds, Restart, CacheInv, apiVars, currentVars
  <2>3. UNCHANGED <<builds, nbuilds>>
    BY <1>9 DEF SyncBuilds, Restart, apiVars
  <2> QED
    BY <2>1, <2>2, <2>3 DEF CacheInv
<1> QED
  BY <1>1, <1>2, <1>3, <1>4, <1>5, <1>6, <1>7, <1>8, <1>9 DEF Next, Reconcile

-----------------------------------------------------------------------------
(* What a pass may rely on.                                                 *)

CancelPCs == {"cancel", "cancelUpdate", "cancelWait", "trigger"}

\* A pass that applies nothing and starts nothing relies on nothing.
LEMMA PassElsewhere ==
  ASSUME pass'.pc \notin CancelPCs \cup {"apply"}
  PROVE  PassInv'
BY DEF PassInv, At, CancelPCs

\* A step of others: it may make copies of the pass stale and start builds.
LEMMA PassFrame ==
  ASSUME PassInv, UNCHANGED <<pass, bcs>>, passCurrent' \subseteq passCurrent,
         rebuild' = rebuild \/ rebuild' \in {"owed", "other"}
  PROVE  PassInv'
BY DEF PassInv, At

\* A step from one call of StartNewBuild to the next.
LEMMA PassCancel ==
  ASSUME PassInv, pass.pc \in CancelPCs, pass'.pc \in CancelPCs,
         UNCHANGED <<bcs, rebuild>>, pass'.spec = pass.spec
  PROVE  PassInv'
BY DEF PassInv, At, CancelPCs

\* A pass that goes on applying changes.
LEMMA PassApplying ==
  ASSUME NEW p \in PassType, pass' = Applying(p),
         \A b \in p.updated \cap passCurrent' :
           bcs'[b] # GetRequestedResources(p.spec)[b],
         "builder" \in p.changed =>
           /\ "builder" \notin p.added \cup p.removed
           /\ "builder" \notin p.updated =>
                /\ rebuild' \in {"owed", "other"}
                /\ bcs'["builder"] = GetRequestedResources(p.spec)["builder"]
  PROVE  PassInv'
<1>1. CASE p.added \cup p.updated \cup p.removed # {}
  <2>1. /\ pass'.pc = "apply" /\ pass'.spec = p.spec
        /\ pass'.added = p.added /\ pass'.updated = p.updated
        /\ pass'.removed = p.removed /\ pass'.changed = p.changed
    BY <1>1 DEF Applying, PassType
  <2> QED
    BY <2>1 DEF PassInv, At
<1>2. CASE p.added \cup p.updated \cup p.removed = {} /\ "builder" \in p.changed
  <2>1. pass'.pc = "cancel" /\ pass'.spec = p.spec
    BY <1>2 DEF Applying, NewPass
  <2>2. "builder" \notin p.updated
    BY <1>2
  <2> QED
    BY <1>2, <2>1, <2>2 DEF PassInv, At
<1>3. CASE p.added \cup p.updated \cup p.removed = {} /\ "builder" \notin p.changed
  <2>1. pass'.pc = "status"
    BY <1>3 DEF Applying, Returning, NewPass
  <2> QED
    BY <2>1, PassElsewhere DEF CancelPCs
<1> QED
  BY <1>1, <1>2, <1>3

\* Every step keeps what a pass relies on.
LEMMA PassStep ==
  ASSUME TypeOK, CacheInv, PassInv, [Next]_vars
  PROVE  PassInv'
<1> DEFINE req == GetRequestedResources(pass.spec)
<1>0. (Fail \/ Fault \/ Return \/ Requeue) => PassInv'
  BY LeavingType, PassElsewhere DEF CancelPCs
<1>1. CASE FetchKogitoBuildInstance \/ CreateRequiredKogitoImageStreams
  <2>1. FetchKogitoBuildInstance => pass'.pc = "imageStreams"
    BY DEF FetchKogitoBuildInstance, NewPass
  <2>2. Goto("delta") => pass'.pc = "delta"
    BY DEF Goto, TypeOK, PassType
  <2> QED
    BY <1>0, <1>1, <2>1, <2>2, PassElsewhere
    DEF CreateRequiredKogitoImageStreams, CancelPCs
<1>2. CASE ProcessDelta
  <2> DEFINE both(b) == req[b] # NoBC /\ cachedBC[b] # NoBC
             upd == {b \in BuildConfigs : both(b) /\ cachedBC[b] # req[b]}
             p == [pass EXCEPT
                !.added = {b \in BuildConfigs : req[b] # NoBC /\ ~both(b)},
                !.updated = upd,
                !.removed = {b \in BuildConfigs : cachedBC[b] # NoBC /\ ~both(b)},
                !.changed = upd]
  <2>1. CASE /\ pass' = Applying(p)
             /\ passCurrent' = (passCurrent \cap {"kogitobuild"})
                                 \cup (cacheCurrent \cap BuildConfigs)
    <3>1. /\ p \in PassType /\ p.updated = upd /\ p.changed = upd
          /\ p.spec = pass.spec
          /\ p.added = {b \in BuildConfigs : req[b] # NoBC /\ ~both(b)}
          /\ p.removed = {b \in BuildConfigs : cachedBC[b] # NoBC /\ ~both(b)}
      BY Zenon DEF TypeOK, PassType
    <3> HIDE DEF p
    <3>2. UNCHANGED bcs
      BY <1>2 DEF ProcessDelta, apiVars
    <3>3. \A b \in upd \cap passCurrent' : bcs'[b] # req[b]
      BY <2>1, <3>2 DEF CacheInv, BuildConfigs
    <3> QED
      BY <2>1, <3>1, <3>3, PassApplying, Zenon
  <2> QED
    BY <1>0, <1>2, <2>1 DEF ProcessDelta
<1>3. CASE CreateResources
  <2>1. PICK b \in pass.added :
        \/ /\ bcs[b] = NoBC
           /\ Write(b, req[b], [pass EXCEPT !.added = @ \ {b}])
        \/ Fail
        \/ Fault
    BY <1>3, Zenon DEF CreateResources
  <2>2. CASE Write(b, req[b], [pass EXCEPT !.added = @ \ {b}])
             /\ pass' = Applying([pass EXCEPT !.added = @ \ {b}])
    <3> DEFINE p == [pass EXCEPT !.added = @ \ {b}]
    <3>1. /\ p \in PassType /\ p.updated = pass.updated /\ p.changed = pass.changed
          /\ p.spec = pass.spec /\ p.added \subseteq pass.added
          /\ p.removed = pass.removed /\ b \in BuildConfigs
      BY DEF TypeOK, PassType
    <3> HIDE DEF p
    <3>2. bcs' = [bcs EXCEPT ![b] = req[b]] /\ passCurrent' = passCurrent \ {b}
          /\ pass' = Applying(p) /\ rebuild' = rebuild
      BY <1>3, <2>2 DEF CreateResources, Write, Wrote, p
    <3>3. "builder" \in p.changed => b # "builder"
      BY <1>3, <3>1 DEF CreateResources, At, PassInv
    <3>4. \A c \in BuildConfigs : c # b => bcs'[c] = bcs[c]
      BY <3>2 DEF TypeOK
    <3>5. p.updated \subseteq BuildConfigs /\ "builder" \in BuildConfigs
      BY <3>1 DEF PassType, BuildConfigs
    <3>6. \A c \in p.updated \cap passCurrent' : bcs'[c] # req[c]
      BY <1>3, <3>1, <3>2, <3>4, <3>5 DEF CreateResources, At, PassInv
    <3>7. "builder" \in p.changed =>
             /\ "builder" \notin p.added \cup p.removed
             /\ "builder" \notin p.updated =>
                  rebuild' \in {"owed", "other"} /\ bcs'["builder"] = req["builder"]
      BY <1>3, <3>1, <3>2, <3>3, <3>4, <3>5 DEF CreateResources, At, PassInv
    <3> QED
      BY <3>1, <3>2, <3>6, <3>7, PassApplying
  <2> QED
    BY <1>0, <2>1, <2>2 DEF Write
<1>4. CASE UpdateResources
  <2>1. PICK b \in pass.updated :
        \/ /\ UpdateAccepted(b)
           /\ Write(b, req[b], [pass EXCEPT !.updated = @ \ {b}])
           /\ rebuild' = IF b = "builder" /\ bcs[b] # req[b]
                           THEN "owed" ELSE rebuild
        \/ Fail
        \/ Fault
    BY <1>4, Zenon DEF UpdateResources
  <2>2. CASE /\ UpdateAccepted(b)
             /\ Write(b, req[b], [pass EXCEPT !.updated = @ \ {b}])
             /\ rebuild' = IF b = "builder" /\ bcs[b] # req[b]
                             THEN "owed" ELSE rebuild
             /\ pass' = Applying([pass EXCEPT !.updated = @ \ {b}])
    <3> DEFINE p == [pass EXCEPT !.updated = @ \ {b}]
    <3>1. /\ p \in PassType /\ p.updated = pass.updated \ {b}
          /\ p.changed = pass.changed /\ p.spec = pass.spec
          /\ p.added = pass.added /\ p.removed = pass.removed
          /\ b \in BuildConfigs
      BY DEF TypeOK, PassType
    <3> HIDE DEF p
    <3>2. bcs' = [bcs EXCEPT ![b] = req[b]] /\ passCurrent' = passCurrent \ {b}
          /\ pass' = Applying(p)
      BY <2>2 DEF Write, Wrote, p
    <3>3. bcs[b] # req[b]
      BY <1>4, <2>2, Zenon DEF UpdateResources, UpdateAccepted, At, PassInv
    <3>4. /\ \A c \in BuildConfigs : c # b => bcs'[c] = bcs[c]
          /\ bcs'[b] = req[b]
      BY <3>1, <3>2 DEF TypeOK
    <3>5. p.updated \subseteq BuildConfigs /\ "builder" \in BuildConfigs
      BY <3>1 DEF PassType, BuildConfigs
    <3>6. \A c \in p.updated \cap passCurrent' : bcs'[c] # req[c]
      BY <1>4, <3>1, <3>2, <3>4, <3>5 DEF UpdateResources, At, PassInv
    <3>7. "builder" \in p.changed =>
             /\ "builder" \notin p.added \cup p.removed
             /\ "builder" \notin p.updated =>
                  rebuild' \in {"owed", "other"} /\ bcs'["builder"] = req["builder"]
      <4>1. CASE b = "builder"
        BY <1>4, <2>2, <3>1, <3>3, <3>4, <4>1 DEF UpdateResources, At, PassInv
      <4>2. CASE b # "builder"
        BY <1>4, <2>2, <3>1, <3>4, <3>5, <4>2 DEF UpdateResources, At, PassInv
      <4> QED
        BY <4>1, <4>2
    <3> QED
      BY <3>1, <3>2, <3>6, <3>7, PassApplying
  <2> QED
    BY <1>0, <2>1, <2>2 DEF Write
<1>5. CASE DeleteResources
  <2>1. PICK b \in pass.removed :
        \/ /\ Write(b, NoBC, [pass EXCEPT !.removed = @ \ {b}])
           /\ rebuild' = IF b = "builder" THEN "none" ELSE rebuild
        \/ Fail
        \/ Fault
    BY <1>5, Zenon DEF DeleteResources
  <2>2. CASE /\ Write(b, NoBC, [pass EXCEPT !.removed = @ \ {b}])
             /\ rebuild' = IF b = "builder" THEN "none" ELSE rebuild
             /\ pass' = Applying([pass EXCEPT !.removed = @ \ {b}])
    <3> DEFINE p == [pass EXCEPT !.removed = @ \ {b}]
    <3>1. /\ p \in PassType /\ p.updated = {}
          /\ p.changed = pass.changed /\ p.spec = pass.spec
          /\ p.added = pass.added /\ p.removed \subseteq pass.removed
          /\ b \in BuildConfigs /\ pass.updated = {}
      BY <1>5 DEF DeleteResources, TypeOK, PassType
    <3> HIDE DEF p
    <3>2. bcs' = [bcs EXCEPT ![b] = NoBC] /\ pass' = Applying(p)
      BY <2>2 DEF Write, p
    <3>3. "builder" \in p.changed => b # "builder"
      BY <1>5, <3>1 DEF DeleteResources, At, PassInv
    <3>4. \A c \in BuildConfigs : c # b => bcs'[c] = bcs[c]
      BY <3>2 DEF TypeOK
    <3>5. "builder" \in p.changed =>
             /\ "builder" \notin p.added \cup p.removed
             /\ rebuild' \in {"owed", "other"} /\ bcs'["builder"] = req["builder"]
      BY <1>5, <2>2, <3>1, <3>3, <3>4 DEF DeleteResources, At, PassInv, BuildConfigs
    <3> QED
      BY <3>1, <3>2, <3>5, PassApplying
  <2> QED
    BY <1>0, <2>1, <2>2 DEF Write
<1>6. CASE ListRunningBuilds
  <2>1. pass.pc = "cancel" /\ UNCHANGED <<bcs, rebuild>>
    BY <1>6, ZenonT(30) DEF ListRunningBuilds, At, apiVars
  <2>2. Fault \/ (pass'.pc \in {"trigger", "cancelUpdate"} /\ pass'.spec = pass.spec)
    BY <1>6, ZenonT(30) DEF ListRunningBuilds, Goto, TypeOK, PassType
  <2> QED
    BY <1>0, <2>1, <2>2, PassCancel, Zenon DEF CancelPCs
<1>7. CASE CancelBuild
  <2>1. pass.pc = "cancelUpdate" /\ UNCHANGED <<bcs, rebuild>>
    BY <1>7 DEF CancelBuild, At
  <2>2. Fault \/ Fail \/ (pass'.pc = "cancelWait" /\ pass'.spec = pass.spec)
    BY <1>7 DEF CancelBuild, Goto, TypeOK, PassType
  <2> QED
    BY <1>0, <2>1, <2>2, PassCancel DEF CancelPCs
<1>8. CASE WaitForCancelled
  <2>1. pass.pc = "cancelWait" /\ UNCHANGED <<bcs, rebuild>>
    BY <1>8 DEF WaitForCancelled, At, apiVars
  <2>2. Fault \/ Fail \/ (pass'.pc = "trigger" /\ pass'.spec = pass.spec)
    BY <1>8 DEF WaitForCancelled, Goto, TypeOK, PassType
  <2> QED
    BY <1>0, <2>1, <2>2, PassCancel DEF CancelPCs
<1>9. CASE TriggerBuild
  BY <1>0, <1>9 DEF TriggerBuild
<1>10. CASE HandleStatusChange \/ Restart
  BY <1>10, IdlePassType, PassElsewhere DEF HandleStatusChange, Restart, CancelPCs
<1>11. CASE EditSpec \/ SyncKogitoBuild \/ SyncBuilds \/ Resync \/ UNCHANGED vars
            \/ (\E b \in BuildConfigs : SyncBuildConfig(b))
            \/ (\E i \in BuildIds : FinishBuild(i) \/ CollectBuild(i))
  <2>1. UNCHANGED <<pass, bcs, rebuild>> /\ passCurrent' \subseteq passCurrent
    BY <1>11
    DEF EditSpec, SyncKogitoBuild, SyncBuilds, Resync, SyncBuildConfig, FinishBuild,
        CollectBuild, SetPhase, Wrote, vars, apiVars, cacheVars, currentVars
  <2> QED
    BY <2>1, PassFrame, ZenonT(30)
<1>12. CASE StartOtherBuild
  <2>1. UNCHANGED <<pass, bcs>> /\ passCurrent' \subseteq passCurrent
        /\ (rebuild' = rebuild \/ rebuild' = "other")
    BY <1>12, Zenon DEF StartOtherBuild, Instantiate, Wrote
  <2> QED
    BY <2>1, PassFrame
<1> QED
  BY <1>1, <1>2, <1>3, <1>4, <1>5, <1>6, <1>7, <1>8, <1>9, <1>10, <1>11, <1>12
  DEF Next, Reconcile

-----------------------------------------------------------------------------
(* A success that is reported happened.                                     *)

\* A build that completed, erred or was deleted stays in these phases.
LEMMA SettledPhases ==
  ASSUME TypeOK, CacheInv, [Next]_vars, NEW i \in BuildIds,
         builds[i].phase \in {"Complete", "Error", "Deleted"}
  PROVE  builds'[i].phase \in {"Complete", "Error", "Deleted"}
<1>1. CASE UNCHANGED builds
  BY <1>1
<1>2. CASE CancelBuild
  BY <1>2, SMTT(30) DEF CancelBuild, TypeOK, BuildType
<1>3. ASSUME NEW b \in BuildConfigs,
         NEW by \in {"operator", "other"}, Instantiate(b, by)
      PROVE  builds'[i].phase = builds[i].phase
  <2>1. nbuilds + 1 \in BuildIds /\ nbuilds + 1 > nbuilds
    BY <1>3, BoundsAssumption DEF Instantiate, TypeOK, BuildIds
  <2>2. i # nbuilds + 1
    BY <2>1 DEF CacheInv
  <2> QED
    BY <1>3, <2>2 DEF Instantiate, TypeOK
<1>4. ASSUME NEW j \in BuildIds, FinishBuild(j) \/ CollectBuild(j)
      PROVE  builds'[i].phase \in {"Complete", "Error", "Deleted"}
  <2>1. \A ph : SetPhase(j, ph) =>
          builds'[i].phase = IF i = j THEN ph ELSE builds[i].phase
    BY DEF SetPhase, TypeOK, BuildType
  <2>2. FinishBuild(j) => i # j
    BY DEF FinishBuild, ActivePhases
  <2> QED
    BY <1>4, <2>1, <2>2 DEF FinishBuild, CollectBuild
<1>5. CASE StartOtherBuild
  BY <1>3, <1>5 DEF StartOtherBuild
<1>6. CASE TriggerBuild
  BY <1>3, <1>6, Zenon DEF TriggerBuild, BuildConfigs
<1> QED
  BY <1>1, <1>2, <1>4, <1>5, <1>6, Zenon
  DEF Next, Reconcile, FetchKogitoBuildInstance, CreateRequiredKogitoImageStreams,
      ProcessDelta, CreateResources, UpdateResources, DeleteResources,
      ListRunningBuilds, WaitForCancelled, HandleStatusChange, EditSpec,
      SyncKogitoBuild, SyncBuildConfig, SyncBuilds, Resync, Restart, vars, apiVars

\* Every step keeps a reported success backed by a build.
LEMMA SuccessStep ==
  ASSUME TypeOK, CacheInv, SuccessIsBacked, [Next]_vars
  PROVE  SuccessIsBacked'
<1>1. CASE UNCHANGED status
  BY <1>1, SettledPhases DEF SuccessIsBacked
<1>2. CASE HandleStatusChange /\ status' \in NewStatus(pass.spec, status, DeferredErr)
  <2>1. status' \in HandleConditionTransition(pass.spec, status)
    BY <1>2 DEF NewStatus, DeferredErr
  <2>2. UNCHANGED builds
    BY <1>2 DEF HandleStatusChange
  <2>3. CASE status' = SetRunningConditions(status, "NotYetStarted")
    BY <2>3 DEF SetRunningConditions, SuccessIsBacked, TypeOK, StatusType
  <2>4. ASSUME NEW i \in BuildIds, cachedPhase[i] \notin {"None", "Deleted"},
               status' = AddCondition([status EXCEPT !.latest = i], cachedPhase[i])
        PROVE  SuccessIsBacked'
    <3> DEFINE u == [status EXCEPT !.latest = i]
    <3>1. /\ u \in StatusType /\ u.latest = i
          /\ u.running = status.running /\ u.successful = status.successful
      BY DEF TypeOK, StatusType
    <3> HIDE DEF u
    <3>2. CASE cachedPhase[i] \in {"Failed", "Cancelled"}
      <4>1. status' = SetFailedConditions(u, cachedPhase[i])
        BY <2>4, <3>2 DEF AddCondition, ActivePhases, u
      <4> QED
        BY <3>1, <4>1 DEF SetFailedConditions, SuccessIsBacked, StatusType
    <3>3. CASE cachedPhase[i] = "Running"
      <4>1. status' = SetRunningConditions(u, cachedPhase[i])
        BY <2>4, <3>3 DEF AddCondition, ActivePhases, u
      <4> QED
        BY <3>1, <4>1 DEF SetRunningConditions, SuccessIsBacked, StatusType
    <3>4. CASE cachedPhase[i] = "Complete"
      <4>1. status' = SetSuccessfulConditions(u, cachedPhase[i])
        BY <2>4, <3>4 DEF AddCondition, ActivePhases, u
      <4>2. status'.latest = i /\ status'.running = "False"
        BY <3>1, <4>1 DEF SetSuccessfulConditions, StatusType
      <4> QED
        BY <2>2, <3>4, <4>2 DEF SuccessIsBacked, CacheInv
    <3>5. CASE cachedPhase[i] = "Error"
      <4>1. status' = u
        BY <2>4, <3>5 DEF AddCondition, ActivePhases, u
      <4> QED
        BY <2>2, <3>1, <3>5, <4>1 DEF SuccessIsBacked, CacheInv
    <3> QED
      BY <2>4, <3>2, <3>3, <3>4, <3>5 DEF TypeOK, Phases, ActivePhases, FinalPhases
  <2> QED
    BY <2>1, <2>3, <2>4, Zenon DEF HandleConditionTransition, Latest, ListedBuilds
<1> QED
  BY <1>1, <1>2, Zenon
  DEF Next, Reconcile, FetchKogitoBuildInstance, CreateRequiredKogitoImageStreams,
      ProcessDelta, CreateResources, UpdateResources, DeleteResources,
      ListRunningBuilds, CancelBuild, WaitForCancelled, TriggerBuild,
      HandleStatusChange, EditSpec, StartOtherBuild, FinishBuild, CollectBuild,
      SetPhase, SyncKogitoBuild, SyncBuildConfig, SyncBuilds, Resync, Restart,
      vars, apiVars

-----------------------------------------------------------------------------
(* The theorems.                                                            *)

\* The inductive invariant holds initially.
LEMMA InitInv == Init => BuildInv
<1> SUFFICES ASSUME Init PROVE BuildInv
  OBVIOUS
<1>1. CacheInv
  BY ZenonT(30) DEF Init, CacheInv, NoBuild
<1>2. PassInv
  BY IdlePassType DEF Init, PassInv, At
<1>3. SuccessIsBacked
  BY DEF Init, SuccessIsBacked, NoStatus
<1> QED
  BY <1>1, <1>2, <1>3, InitType DEF BuildInv

\* Every step keeps the inductive invariant.
LEMMA NextInv == BuildInv /\ [Next]_vars => BuildInv'
BY NextType, CacheStep, PassStep, SuccessStep DEF BuildInv

\* BuildInv is an invariant of the controller.
THEOREM Invariance == Spec => []BuildInv
BY InitInv, NextInv, PTL DEF Spec

\* Successful is reported only for a build that completed (status.go).
THEOREM SuccessBacked == Spec => []SuccessIsBacked
BY Invariance, PTL DEF BuildInv

\* The latest build of the status is in the cache, and stays there until it
\* is deleted: what the status was computed from is never unlearned.
LatestInv ==
  /\ \A i \in BuildIds :
       /\ cachedPhase[i] # "None" => builds[i].phase # "None"
       /\ cachedPhase[i] = "Deleted" => builds[i].phase = "Deleted"
  /\ status.latest # 0 => cachedPhase[status.latest] # "None"

\* A build that exists never becomes one that was not created, and a deleted
\* one stays deleted.
LEMMA CreatedPhases ==
  ASSUME TypeOK, CacheInv, [Next]_vars, NEW i \in BuildIds, builds[i].phase # "None"
  PROVE  /\ builds'[i].phase # "None"
         /\ builds[i].phase = "Deleted" => builds'[i].phase = "Deleted"
<1>1. CASE UNCHANGED builds
  BY <1>1
<1>2. CASE CancelBuild
  BY <1>2 DEF CancelBuild, TypeOK, BuildType
<1>3. ASSUME NEW b \in BuildConfigs, NEW by \in {"operator", "other"}, Instantiate(b, by)
      PROVE  builds'[i] = builds[i]
  <2>1. nbuilds + 1 \in BuildIds /\ nbuilds + 1 > nbuilds
    BY <1>3, BoundsAssumption DEF Instantiate, TypeOK, BuildIds
  <2>2. i # nbuilds + 1
    BY <2>1 DEF CacheInv
  <2> QED
    BY <1>3, <2>2 DEF Instantiate, TypeOK
<1>4. ASSUME NEW j \in BuildIds, FinishBuild(j) \/ CollectBuild(j)
      PROVE  /\ builds'[i].phase # "None"
             /\ builds[i].phase = "Deleted" => builds'[i].phase = "Deleted"
  <2>1. \A ph : SetPhase(j, ph) =>
          builds'[i].phase = IF i = j THEN ph ELSE builds[i].phase
    BY DEF SetPhase, TypeOK, BuildType
  <2>2. FinishBuild(j) /\ i = j =>
          builds'[i].phase # "None" /\ builds[i].phase # "Deleted"
    BY <2>1, OutcomesAssumption DEF FinishBuild, ActivePhases
  <2> QED
    BY <1>4, <2>1, <2>2 DEF FinishBuild, CollectBuild
<1>5. CASE StartOtherBuild
  BY <1>3, <1>5 DEF StartOtherBuild
<1>6. CASE TriggerBuild
  BY <1>3, <1>6 DEF TriggerBuild, BuildConfigs
<1> QED
  BY <1>1, <1>2, <1>4, <1>5, <1>6, ZenonT(30)
  DEF Next, Reconcile, FetchKogitoBuildInstance, CreateRequiredKogitoImageStreams,
      ProcessDelta, CreateResources, UpdateResources, DeleteResources,
      ListRunningBuilds, WaitForCancelled, HandleStatusChange, EditSpec,
      SyncKogitoBuild, SyncBuildConfig, SyncBuilds, Resync, Restart, vars, apiVars

\* A status that HandleStatusChange computes keeps its latest build or takes
\* the newest of the builds it lists.
LEMMA LatestOfStatus ==
  ASSUME TypeOK, NEW s \in Specs, NEW st \in NewStatus(s, status, DeferredErr)
  PROVE  st.latest = status.latest \/ st.latest \in Latest(ListedBuilds(s))
<1>1. st \in HandleConditionTransition(s, status)
  BY DEF NewStatus, DeferredErr
<1>2. CASE st = SetRunningConditions(status, "NotYetStarted")
  BY <1>2 DEF SetRunningConditions, TypeOK, StatusType
<1>3. ASSUME NEW i \in Latest(ListedBuilds(s)),
             st = AddCondition([status EXCEPT !.latest = i], cachedPhase[i])
      PROVE  st.latest = i
  <2> DEFINE u == [status EXCEPT !.latest = i]
  <2>1. i \in BuildIds
    BY DEF Latest, ListedBuilds
  <2>2. u \in StatusType /\ u.latest = i
    BY <2>1 DEF TypeOK, StatusType
  <2> HIDE DEF u
  <2>3. \A r : /\ SetRunningConditions(u, r).latest = i
               /\ SetSuccessfulConditions(u, r).latest = i
               /\ SetFailedConditions(u, r).latest = i
    BY <2>2 DEF SetRunningConditions, SetSuccessfulConditions,
                SetFailedConditions, StatusType
  <2>4. AddCondition(u, cachedPhase[i]).latest = i
    BY <2>2, <2>3 DEF AddCondition
  <2> QED
    BY <1>3, <2>4 DEF u
<1> QED
  BY <1>1, <1>2, <1>3, Zenon DEF HandleConditionTransition

\* In every step the status keeps its latest build or takes the newest of the
\* builds in the cache that have the type of the pass.
LEMMA LatestChoice ==
  ASSUME TypeOK, [Next]_vars
  PROVE  \/ status'.latest = status.latest
         \/ /\ status'.latest \in Latest(ListedBuilds(pass.spec))
            /\ UNCHANGED <<builds, cachedPhase>>
<1>1. CASE UNCHANGED status
  BY <1>1
<1>2. CASE HandleStatusChange /\ status' \in NewStatus(pass.spec, status, DeferredErr)
  <2>1. pass.spec \in Specs
    BY DEF TypeOK, PassType
  <2> QED
    BY <1>2, <2>1, LatestOfStatus DEF HandleStatusChange, cacheVars
<1> QED
  BY <1>1, <1>2, Zenon
  DEF Next, Reconcile, FetchKogitoBuildInstance, CreateRequiredKogitoImageStreams,
      ProcessDelta, CreateResources, UpdateResources, DeleteResources,
      ListRunningBuilds, CancelBuild, WaitForCancelled, TriggerBuild,
      HandleStatusChange, EditSpec, StartOtherBuild, FinishBuild, CollectBuild,
      SetPhase, SyncKogitoBuild, SyncBuildConfig, SyncBuilds, Resync, Restart,
      vars, apiVars

\* Every step keeps LatestInv.
LEMMA LatestStep ==
  ASSUME TypeOK, CacheInv, LatestInv, [Next]_vars
  PROVE  LatestInv'
<1>1. cachedPhase' = cachedPhase \/ cachedPhase' = [i \in BuildIds |-> builds[i].phase]
  BY Zenon DEF Next, Reconcile, FetchKogitoBuildInstance, CreateRequiredKogitoImageStreams,
      ProcessDelta, CreateResources, UpdateResources, DeleteResources,
      ListRunningBuilds, CancelBuild, WaitForCancelled, TriggerBuild,
      HandleStatusChange, EditSpec, StartOtherBuild, FinishBuild, CollectBuild,
      SetPhase, SyncKogitoBuild, SyncBuildConfig, SyncBuilds, Resync, Restart,
      vars, cacheVars
<1>2. ASSUME NEW i \in BuildIds
      PROVE  /\ cachedPhase'[i] # "None" => builds'[i].phase # "None"
             /\ cachedPhase'[i] = "Deleted" => builds'[i].phase = "Deleted"
             /\ cachedPhase[i] # "None" => cachedPhase'[i] # "None"
  BY <1>1, CreatedPhases DEF LatestInv
<1>3. ASSUME status'.latest # 0 PROVE cachedPhase'[status'.latest] # "None"
  <2>1. CASE status'.latest = status.latest
    BY <1>2, <1>3, <2>1 DEF LatestInv, TypeOK, StatusType
  <2>2. CASE status'.latest \in Latest(ListedBuilds(pass.spec)) /\ UNCHANGED cachedPhase
    BY <2>2 DEF Latest, ListedBuilds
  <2> QED
    BY <2>1, <2>2, LatestChoice, ZenonT(30)
<1> QED
  BY <1>2, <1>3, Zenon DEF LatestInv

\* LatestInv is an invariant of the controller.
LEMMA LatestInvariance == Spec => []LatestInv
<1>1. Init => LatestInv
  BY DEF Init, LatestInv, NoStatus
<1>2. BuildInv /\ LatestInv /\ [Next]_vars => LatestInv'
  BY LatestStep DEF BuildInv
<1> QED
  BY <1>1, <1>2, Invariance, PTL DEF Spec

\* LatestBuild goes back only past builds that are deleted or of another
\* type (status.go, HandleStatusChange over the cached builds).
THEOREM LatestNeverRegresses == Spec => LatestBuildNeverRegresses
<1>1. ASSUME BuildInv, LatestInv, [Next]_vars
      PROVE  [status'.latest < status.latest =>
                \/ builds[status.latest].phase = "Deleted"
                \/ builds[status'.latest].def.type
                     # builds[status.latest].def.type]_vars
  <2> SUFFICES ASSUME status'.latest < status.latest,
                      builds[status'.latest].def.type = builds[status.latest].def.type
               PROVE  builds[status.latest].phase = "Deleted"
    OBVIOUS
  <2>1. status.latest \in Nat /\ status'.latest # status.latest
    BY <1>1 DEF BuildInv, TypeOK, StatusType, BuildIds
  <2>2. status'.latest \in Latest(ListedBuilds(pass.spec))
    BY <1>1, <2>1, LatestChoice DEF BuildInv
  <2>3. status'.latest \in Nat
    BY <2>2 DEF Latest, ListedBuilds, BuildIds
  <2>4. status.latest \in BuildIds
    BY <1>1, <2>1, <2>3 DEF BuildInv, TypeOK, StatusType
  <2>5. status.latest \notin ListedBuilds(pass.spec)
    BY <2>1, <2>2, <2>3, SMTT(30) DEF Latest
  <2>6. cachedPhase[status.latest] \in {"None", "Deleted"}
    BY <2>2, <2>4, <2>5 DEF Latest, ListedBuilds
  <2> QED
    BY <1>1, <2>1, <2>3, <2>4, <2>6 DEF LatestInv
<1>2. BuildInv /\ LatestInv /\ [Next]_vars =>
        [status'.latest < status.latest =>
                \/ builds[status.latest].phase = "Deleted"
                \/ builds[status'.latest].def.type
                     # builds[status.latest].def.type]_vars
  BY <1>1
<1> QED
  BY <1>2, Invariance, LatestInvariance, PTL DEF Spec, LatestBuildNeverRegresses

\* The operator starts a build only when it owes one, and from the spec of the pass.
LEMMA StartStep ==
  ASSUME TypeOK, PassInv, [Next]_vars, OperatorStarts
  PROVE  /\ rebuild \in {"owed", "other"}
         /\ builds'[nbuilds'].def = GetRequestedResources(pass.spec)["builder"]
<1>1. TriggerBuild /\ Instantiate("builder", "operator")
  BY Zenon DEF OperatorStarts, At, Next, Reconcile, FetchKogitoBuildInstance,
      CreateRequiredKogitoImageStreams, ProcessDelta, CreateResources,
      UpdateResources, DeleteResources, ListRunningBuilds, CancelBuild,
      WaitForCancelled, TriggerBuild, HandleStatusChange, EditSpec,
      StartOtherBuild, FinishBuild, CollectBuild, SetPhase, SyncKogitoBuild,
      SyncBuildConfig, SyncBuilds, Resync, Restart, vars, apiVars
<1>2. /\ rebuild \in {"owed", "other"}
      /\ bcs["builder"] = GetRequestedResources(pass.spec)["builder"]
  BY Zenon DEF OperatorStarts, At, PassInv
<1>3. nbuilds + 1 \in BuildIds /\ nbuilds' = nbuilds + 1
  BY <1>1, BoundsAssumption DEF Instantiate, TypeOK, BuildIds
<1>4. builds'[nbuilds'].def = bcs["builder"]
  BY <1>1, <1>3 DEF Instantiate, TypeOK
<1> QED
  BY <1>2, <1>4, ZenonT(30)

\* The operator starts a build only for a change of the builder BuildConfig
\* for which it has not started one (ProcessDelta, StartNewBuild).
THEOREM OneBuild == Spec => OneBuildPerChange
<1>1. BuildInv /\ [Next]_vars =>
        [OperatorStarts => rebuild \in {"owed", "other"}]_vars
  BY StartStep DEF BuildInv
<1> QED
  BY <1>1, Invariance, PTL DEF Spec, OneBuildPerChange

\* The builds the operator starts are built from the spec of their pass.
THEOREM RequestedBuild == Spec => BuildIsAsRequested
<1>1. BuildInv /\ [Next]_vars =>
        [OperatorStarts =>
           builds'[nbuilds'].def = GetRequestedResources(pass.spec)["builder"]]_vars
  BY StartStep DEF BuildInv
<1> QED
  BY <1>1, Invariance, PTL DEF Spec, BuildIsAsRequested

=============================================================================
