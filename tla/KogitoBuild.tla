---------------------------- MODULE KogitoBuild ----------------------------
(***************************************************************************)
(* The KogitoBuild controller (controllers/common/build_controller.go and  *)
(* core/kogitobuild) for one KogitoBuild custom resource, next to the      *)
(* parts of OpenShift it talks to: the API server that keeps the custom    *)
(* resource and the BuildConfigs, the informer caches the manager's client *)
(* reads from, and the Builds OpenShift runs.                              *)
(*                                                                         *)
(* One reconcile pass is the record `pass', a program counter and the      *)
(* local variables of Reconcile; each call to the API server is one step,  *)
(* so the user, OpenShift, the caches and a restart of the operator        *)
(* interleave between any two of them.                                     *)
(*                                                                         *)
(* A resourceVersion is abstracted to what the code can learn from it: a   *)
(* copy of an object, in the cache or in the pass, is current until the    *)
(* object is written again, and a conditional write with a copy that is    *)
(* not current is a conflict.                                              *)
(***************************************************************************)
EXTENDS Naturals, FiniteSets

CONSTANTS
  Specs,        \* the KogitoBuild specs a user may write (records, see SpecType)
  Parts,        \* the contents a spec can give to one BuildConfig
  Images,       \* the tags of the Kogito base images
  Outcomes,     \* the phases in which builds end unless they are cancelled
  NoBC,         \* stands for a BuildConfig that does not exist
  MaxEdits,     \* bound: edits of the spec by the user
  MaxOther,     \* bound: builds started by others than the operator
  MaxBuilds,    \* bound: all builds; MaxEdits + MaxOther never stops the operator
  MaxFaults,    \* bound: failing API calls and timeouts
  MaxCrashes    \* bound: restarts of the operator

SourceTypes == {"RemoteSource", "LocalSource"}
BuildTypes == SourceTypes \cup {"Binary"}

\* What the controller tells apart in a spec: its type, whether sanityCheck
\* accepts it, the base image tag and what goes in each BuildConfig.
SpecType == [type : BuildTypes, valid : BOOLEAN, image : Images,
             builder : Parts, runtime : Parts]

\* The definition of a BuildConfig: its build type label and its content.
Definitions == [type : BuildTypes, part : Parts]

ASSUME SpecsAssumption == Specs \subseteq SpecType /\ Specs # {}
ASSUME OutcomesAssumption == Outcomes \subseteq {"Complete", "Failed", "Error"}
ASSUME NoBCAssumption == NoBC \notin Definitions
ASSUME BoundsAssumption ==
  /\ MaxEdits \in Nat /\ MaxOther \in Nat /\ MaxBuilds \in Nat
  /\ MaxFaults \in Nat /\ MaxCrashes \in Nat

BuildConfigs == {"builder", "runtime"}
Objects == BuildConfigs \cup {"kogitobuild"}
BuildIds == 1 .. MaxBuilds

\* New and Pending are handled as Running is; they differ in the reason only.
ActivePhases == {"Running"}
FinalPhases == {"Complete", "Failed", "Error", "Cancelled"}
Phases == ActivePhases \cup FinalPhases \cup {"None", "Deleted"}

ConditionStatus == {"Unset", "True", "False"}
Reasons == ActivePhases \cup FinalPhases
             \cup {"Unset", "NotYetStarted", "OperatorFailure"}

\* KogitoBuildStatus: the three conditions, the reason Running and Successful
\* share (they are always set together), that of Failed, and LatestBuild.
StatusType ==
  [running : ConditionStatus, successful : ConditionStatus, reason : Reasons,
   failed : ConditionStatus, failedReason : Reasons,
   latest : BuildIds \cup {0}]

VARIABLES
  spec,         \* the KogitoBuild in the API server: its spec
  status,       \*   and its status
  bcs,          \* the BuildConfigs in the API server, NoBC if absent
  builds,       \* the Builds, numbered by creation; phase None if not created
  nbuilds,      \* how many Builds were created
  streams,      \* the base image tags that exist in the namespace
  cachedSpec,   \* the informer caches: past values of spec,
  cachedBC,     \*   of bcs,
  cachedPhase,  \*   and of the phases of the Builds
  cacheCurrent, \* the objects whose copy in the cache is current
  passCurrent,  \* the objects whose copy in the pass is current
  queue,        \* the work queue holds the request for this KogitoBuild
  pass,         \* the reconcile pass being executed
  rebuild,      \* ghost: what was started since the builder BuildConfig changed
  used          \* how much of each bound was used

apiVars == <<spec, status, bcs, builds, nbuilds, streams>>
cacheVars == <<cachedSpec, cachedBC, cachedPhase>>
currentVars == <<cacheCurrent, passCurrent>>
vars == <<apiVars, cacheVars, currentVars, queue, pass, rebuild, used>>

NoStatus == [running |-> "Unset", successful |-> "Unset", reason |-> "Unset",
             failed |-> "Unset", failedReason |-> "Unset", latest |-> 0]
NoBuild == [bc |-> "builder", def |-> NoBC, by |-> "other", phase |-> "None",
            cancelled |-> FALSE]

PCs == {"idle", "imageStreams", "delta", "apply", "cancel", "cancelUpdate",
        "cancelWait", "trigger", "status"}

\* A pass that read this instance and has done nothing yet.  Of its status
\* no copy is kept: it is written back only while the copy is current.
NewPass(s) ==
  [pc |-> "imageStreams", spec |-> s,
   added |-> {}, updated |-> {}, removed |-> {}, changed |-> {},
   listed |-> {}, victim |-> 0, err |-> FALSE, requeue |-> FALSE]

\* Between passes no local variable exists; any values stand for that.
IdlePass == [NewPass(CHOOSE s \in Specs : TRUE) EXCEPT !.pc = "idle"]

\* A user created the KogitoBuild and the cache of the manager has seen it.
Init ==
  /\ spec \in Specs
  /\ status = NoStatus
  /\ bcs = [b \in BuildConfigs |-> NoBC]
  /\ builds = [i \in BuildIds |-> NoBuild]
  /\ nbuilds = 0
  /\ streams = {}
  /\ cachedSpec = spec
  /\ cachedBC = bcs
  /\ cachedPhase = [i \in BuildIds |-> "None"]
  /\ cacheCurrent = Objects
  /\ passCurrent = {}
  /\ queue = TRUE
  /\ pass = IdlePass
  /\ rebuild = "none"
  /\ used = [edits |-> 0, other |-> 0, faults |-> 0, crashes |-> 0]

\* An object is written: no copy of it is current any more.
Wrote(o) ==
  /\ cacheCurrent' = cacheCurrent \ {o}
  /\ passCurrent' = passCurrent \ {o}

-----------------------------------------------------------------------------
\* The resources a spec asks for.

\* newBuildConfig and its decorators: the labels and the content of one of
\* the two BuildConfigs; binary builds have no builder.
GetRequestedResources(s) ==
  [b \in BuildConfigs |->
     IF b = "builder"
       THEN IF s.type \in SourceTypes
              THEN [type |-> s.type, part |-> s.builder] ELSE NoBC
       ELSE [type |-> s.type, part |-> s.runtime]]

-----------------------------------------------------------------------------
\* The status the controller computes.

SetRunningConditions(st, r) ==
  [st EXCEPT !.running = "True", !.successful = "False", !.reason = r]

SetSuccessfulConditions(st, r) ==
  [st EXCEPT !.running = "False", !.successful = "True", !.reason = r]

\* Mutant: the other two conditions are not reset.
SetFailedConditionsOnly(st, r) ==
  [st EXCEPT !.failed = "True", !.failedReason = r]

SetFailedConditions(st, r) ==
  [st EXCEPT !.failed = "True", !.failedReason = r,
             !.running = "False", !.successful = "False", !.reason = r]

\* addCondition: a build in phase Error changes no condition.
AddCondition(st, phase) ==
  CASE phase \in {"Failed", "Cancelled"} -> SetFailedConditions(st, phase)
    [] phase \in ActivePhases            -> SetRunningConditions(st, phase)
    [] phase = "Complete"                -> SetSuccessfulConditions(st, phase)
    [] OTHER                             -> st

\* The builds in the cache that carry the labels of the instance.
ListedBuilds(s) ==
  {i \in BuildIds : /\ cachedPhase[i] \notin {"None", "Deleted"}
                    /\ builds[i].def.type = s.type}

\* Mutant: the list is left as it came.
LatestUnsorted(L) == L

\* The list sorted by creation, newest first: its first element.
Latest(L) == {i \in L : \A j \in L : j <= i}

HandleConditionTransition(s, st) ==
  LET L == ListedBuilds(s)
  IN  IF L = {}
        THEN {SetRunningConditions(st, "NotYetStarted")}
        ELSE {AddCondition([st EXCEPT !.latest = i], cachedPhase[i]) : i \in Latest(L)}

\* What HandleStatusChange makes of the status of the instance.
NewStatus(s, st, err) ==
  IF err THEN {SetFailedConditions(st, "OperatorFailure")}
         ELSE HandleConditionTransition(s, st)

-----------------------------------------------------------------------------
\* The reconcile pass, one action per call to the API server.

At(pc) == pass.pc = pc

\* Return from Reconcile, to its deferred HandleStatusChange; only the
\* instance, the error and the requeue result outlive the other locals.
Returning(s, err, requeue) ==
  [NewPass(s) EXCEPT !.pc = "status", !.err = err, !.requeue = requeue]
Return == pass' = Returning(pass.spec, FALSE, FALSE)
Requeue == pass' = Returning(pass.spec, FALSE, TRUE)
Fail == pass' = Returning(pass.spec, TRUE, FALSE)
Goto(pc) == pass' = [pass EXCEPT !.pc = pc]

\* An API call that fails for a reason of its own; a write may nevertheless
\* have been applied, when it is the reply that is lost.
Fault ==
  /\ used.faults < MaxFaults
  /\ used' = [used EXCEPT !.faults = @ + 1]
  /\ Fail

\* The controller takes the request and reads the instance from the cache.
FetchKogitoBuildInstance ==
  /\ At("idle") /\ queue
  /\ queue' = FALSE
  /\ pass' = NewPass(cachedSpec)
  /\ passCurrent' = cacheCurrent \cap {"kogitobuild"}
  /\ UNCHANGED <<apiVars, cacheVars, cacheCurrent, rebuild, used>>

\* A missing tag is created and the pass ends, to come back in 10 seconds.
CreateRequiredKogitoImageStreams ==
  /\ At("imageStreams")
  /\ \/ /\ pass.spec.image \in streams
        /\ Goto("delta")
        /\ UNCHANGED <<streams, used>>
     \/ /\ pass.spec.image \notin streams
        /\ streams' = streams \cup {pass.spec.image}
        /\ Requeue
        /\ UNCHANGED used
     \/ Fault /\ UNCHANGED streams
  /\ UNCHANGED <<spec, status, bcs, builds, nbuilds, cacheVars, currentVars,
                 queue, rebuild>>

\* Mutant: any updated BuildConfig starts the build.
ApplyingOnAnyChange(p) ==
  IF p.added \cup p.updated \cup p.removed # {} THEN [p EXCEPT !.pc = "apply"]
  ELSE IF p.changed # {} THEN [NewPass(p.spec) EXCEPT !.pc = "cancel"]
  ELSE Returning(p.spec, FALSE, FALSE)

\* Mutant: the cancellation does not look for a build first.
ApplyingUnlisted(p) ==
  IF p.added \cup p.updated \cup p.removed # {} THEN [p EXCEPT !.pc = "apply"]
  ELSE IF "builder" \in p.changed THEN [NewPass(p.spec) EXCEPT !.pc = "cancelUpdate"]
  ELSE Returning(p.spec, FALSE, FALSE)

\* Where a pass stands with these changes left to apply.  After the last,
\* onResourceChange: only an updated builder BuildConfig starts a build.
Applying(p) ==
  IF p.added \cup p.updated \cup p.removed # {} THEN [p EXCEPT !.pc = "apply"]
  ELSE IF "builder" \in p.changed THEN [NewPass(p.spec) EXCEPT !.pc = "cancel"]
  ELSE Returning(p.spec, FALSE, FALSE)

\* sanityCheck, then the comparison of what is deployed, as the cache shows
\* it, with what the spec requests.
ProcessDelta ==
  /\ At("delta")
  /\ LET req == GetRequestedResources(pass.spec)
         both(b) == req[b] # NoBC /\ cachedBC[b] # NoBC
         updated == {b \in BuildConfigs : both(b) /\ cachedBC[b] # req[b]}
     IN \/ /\ pass.spec.valid
           /\ pass' = Applying([pass EXCEPT
                !.added = {b \in BuildConfigs : req[b] # NoBC /\ ~both(b)},
                !.updated = updated,
                !.removed = {b \in BuildConfigs : cachedBC[b] # NoBC /\ ~both(b)},
                !.changed = updated])
           /\ passCurrent' = (passCurrent \cap {"kogitobuild"})
                               \cup (cacheCurrent \cap BuildConfigs)
           /\ UNCHANGED used
        \/ ~pass.spec.valid /\ Fail /\ UNCHANGED <<passCurrent, used>>
        \/ Fault /\ UNCHANGED passCurrent
  /\ UNCHANGED <<apiVars, cacheVars, cacheCurrent, queue, rebuild>>

\* A BuildConfig is written; the reply may be lost.
Write(b, def, p) ==
  /\ bcs' = [bcs EXCEPT ![b] = def]
  /\ Wrote(b)
  /\ \/ pass' = Applying(p) /\ UNCHANGED used
     \/ Fault

\* Mutant: an object that is there is replaced.
CreateOrReplaceResources ==
  /\ At("apply")
  /\ \E b \in pass.added :
       \/ Write(b, GetRequestedResources(pass.spec)[b],
                [pass EXCEPT !.added = @ \ {b}])
       \/ Fault /\ UNCHANGED <<bcs, currentVars>>
  /\ UNCHANGED <<spec, status, builds, nbuilds, streams, cacheVars, queue,
                 rebuild>>

\* Create fails when the object is there although the cache did not show it.
CreateResources ==
  /\ At("apply")
  /\ \E b \in pass.added :
       \/ /\ bcs[b] = NoBC
          /\ Write(b, GetRequestedResources(pass.spec)[b],
                   [pass EXCEPT !.added = @ \ {b}])
       \/ bcs[b] # NoBC /\ Fail /\ UNCHANGED <<bcs, currentVars, used>>
       \/ Fault /\ UNCHANGED <<bcs, currentVars>>
  /\ UNCHANGED <<spec, status, builds, nbuilds, streams, cacheVars, queue,
                 rebuild>>

\* Mutant: the update does not carry the version that was read.
UpdateUnversioned(b) == bcs[b] # NoBC

\* The API server accepts an update of the version it has, and no other.
UpdateAccepted(b) == bcs[b] # NoBC /\ b \in passCurrent

\* Mutant: an update that is refused is taken for done.
UpdateResourcesIgnoringConflict ==
  /\ At("apply") /\ pass.added = {}
  /\ LET req == GetRequestedResources(pass.spec)
     IN \E b \in pass.updated :
          \/ /\ UpdateAccepted(b)
             /\ Write(b, req[b], [pass EXCEPT !.updated = @ \ {b}])
             /\ rebuild' = IF b = "builder" /\ bcs[b] # req[b]
                             THEN "owed" ELSE rebuild
          \/ /\ ~UpdateAccepted(b)
             /\ pass' = Applying([pass EXCEPT !.updated = @ \ {b}])
             /\ UNCHANGED <<bcs, currentVars, rebuild, used>>
  /\ UNCHANGED <<spec, status, builds, nbuilds, streams, cacheVars, queue>>

UpdateResources ==
  /\ At("apply") /\ pass.added = {}
  /\ LET req == GetRequestedResources(pass.spec)
     IN \E b \in pass.updated :
          \/ /\ UpdateAccepted(b)
             /\ Write(b, req[b], [pass EXCEPT !.updated = @ \ {b}])
             /\ rebuild' = IF b = "builder" /\ bcs[b] # req[b]
                             THEN "owed" ELSE rebuild
          \/ /\ ~UpdateAccepted(b)
             /\ Fail
             /\ UNCHANGED <<bcs, currentVars, rebuild, used>>
          \/ Fault /\ UNCHANGED <<bcs, currentVars, rebuild>>
  /\ UNCHANGED <<spec, status, builds, nbuilds, streams, cacheVars, queue>>

DeleteResources ==
  /\ At("apply") /\ pass.added = {} /\ pass.updated = {}
  /\ \E b \in pass.removed :
       \/ /\ bcs[b] # NoBC
          /\ Write(b, NoBC, [pass EXCEPT !.removed = @ \ {b}])
          /\ rebuild' = IF b = "builder" THEN "none" ELSE rebuild
       \/ /\ bcs[b] = NoBC
          /\ Fail
          /\ UNCHANGED <<bcs, currentVars, rebuild, used>>
       \/ Fault /\ UNCHANGED <<bcs, currentVars, rebuild>>
  /\ UNCHANGED <<spec, status, builds, nbuilds, streams, cacheVars, queue>>

\* cancelRunningBuilds lists the builds of the builder BuildConfig and deals
\* with the first active one only.  The list is sorted by name, which is the
\* order of creation up to the ninth build and not beyond.
ListRunningBuilds ==
  /\ At("cancel")
  /\ LET running == {i \in BuildIds : /\ builds[i].bc = "builder"
                                      /\ builds[i].phase \in ActivePhases}
     IN \/ /\ running = {}
           /\ Goto("trigger")
           /\ UNCHANGED used
        \/ /\ \E i \in running :
                pass' = [pass EXCEPT !.pc = "cancelUpdate", !.listed = running,
                                     !.victim = i]
           /\ UNCHANGED used
        \/ Fault
  /\ UNCHANGED <<apiVars, cacheVars, currentVars, queue, rebuild>>

\* Status.Cancelled is set, over and over while someone else updates the
\* build; the poll gives up when the build is gone, on an error or after 30s.
CancelBuild ==
  /\ At("cancelUpdate")
  /\ \/ /\ builds[pass.victim].phase # "Deleted"
        /\ builds' = [builds EXCEPT ![pass.victim].cancelled = TRUE]
        /\ Goto("cancelWait")
        /\ UNCHANGED used
     \/ /\ builds[pass.victim].phase = "Deleted"
        /\ Fail
        /\ UNCHANGED <<builds, used>>
     \/ Fault /\ UNCHANGED builds
  /\ UNCHANGED <<spec, status, bcs, nbuilds, streams, cacheVars, currentVars,
                 queue, rebuild>>

\* The second poll: the phase must become Cancelled.  A build that reached
\* another final phase, or is gone, makes the poll fail.
WaitForCancelled ==
  /\ At("cancelWait")
  /\ \/ /\ builds[pass.victim].phase = "Cancelled"
        /\ Goto("trigger")
        /\ UNCHANGED used
     \/ /\ builds[pass.victim].phase \notin ActivePhases \cup {"Cancelled"}
        /\ Fail
        /\ UNCHANGED used
     \/ Fault
  /\ UNCHANGED <<apiVars, cacheVars, currentVars, queue, rebuild>>

\* OpenShift creates a build from what a BuildConfig holds now, marked with
\* who triggered it, and notes its number in the BuildConfig.
Instantiate(b, by) ==
  /\ bcs[b] # NoBC
  /\ nbuilds < MaxBuilds
  /\ nbuilds' = nbuilds + 1
  /\ builds' = [builds EXCEPT ![nbuilds + 1] =
       [bc |-> b, def |-> bcs[b], by |-> by, phase |-> "Running", cancelled |-> FALSE]]
  /\ Wrote(b)

\* TriggerBuild: a BuildConfig that is gone is not an error.
TriggerBuild ==
  /\ At("trigger")
  /\ \/ /\ Instantiate("builder", "operator")
        /\ rebuild' = "operator"
        /\ \/ Return /\ UNCHANGED used
           \/ Fault
     \/ /\ bcs["builder"] = NoBC
        /\ Return
        /\ UNCHANGED <<builds, nbuilds, currentVars, rebuild, used>>
     \/ Fault /\ UNCHANGED <<builds, nbuilds, currentVars, rebuild>>
  /\ UNCHANGED <<spec, status, bcs, streams, cacheVars, queue>>

\* The error HandleStatusChange is given: the deferred call evaluated its
\* arguments when the instance had just been fetched without one.
DeferredErr == FALSE

\* Mutant: an error does not bring the request back.
AgainOnRequeue == pass.requeue

\* controller-runtime's answer to what Reconcile returned.
Again == pass.err \/ pass.requeue

\* The deferred HandleStatusChange and the end of the pass.  A failing list
\* of the builds or a write of the status that fails, for a conflict too, is
\* only logged.
HandleStatusChange ==
  /\ At("status")
  /\ \/ /\ "kogitobuild" \in passCurrent
        /\ status' \in NewStatus(pass.spec, status, DeferredErr)
        /\ cacheCurrent' = IF status' = status THEN cacheCurrent
                           ELSE cacheCurrent \ {"kogitobuild"}
        /\ UNCHANGED used
     \/ /\ "kogitobuild" \notin passCurrent
        /\ UNCHANGED <<status, cacheCurrent, used>>
     \/ /\ used.faults < MaxFaults
        /\ used' = [used EXCEPT !.faults = @ + 1]
        /\ UNCHANGED <<status, cacheCurrent>>
  /\ pass' = IdlePass
  /\ passCurrent' = {}
  /\ queue' = (queue \/ Again)
  /\ UNCHANGED <<spec, bcs, builds, nbuilds, streams, cacheVars, rebuild>>

Reconcile ==
  \/ FetchKogitoBuildInstance
  \/ CreateRequiredKogitoImageStreams
  \/ ProcessDelta
  \/ CreateResources
  \/ UpdateResources
  \/ DeleteResources
  \/ ListRunningBuilds
  \/ CancelBuild
  \/ WaitForCancelled
  \/ TriggerBuild
  \/ HandleStatusChange

-----------------------------------------------------------------------------
\* What happens around the controller.

\* A user writes another spec.
EditSpec ==
  /\ used.edits < MaxEdits
  /\ spec' \in Specs \ {spec}
  /\ Wrote("kogitobuild")
  /\ used' = [used EXCEPT !.edits = @ + 1]
  /\ UNCHANGED <<status, bcs, builds, nbuilds, streams, cacheVars, queue, pass,
                 rebuild>>

\* An image change, a webhook or a user starts a build.
StartOtherBuild ==
  /\ used.other < MaxOther
  /\ \E b \in BuildConfigs :
       /\ Instantiate(b, "other")
       /\ rebuild' = IF b = "builder" /\ rebuild = "owed" THEN "other" ELSE rebuild
  /\ used' = [used EXCEPT !.other = @ + 1]
  /\ UNCHANGED <<spec, status, bcs, streams, cacheVars, queue, pass>>

SetPhase(i, phase) ==
  /\ builds' = [builds EXCEPT ![i].phase = phase]
  /\ UNCHANGED <<spec, status, bcs, nbuilds, streams, cacheVars, currentVars,
                 queue, pass, rebuild, used>>

\* A build ends; one whose cancellation was asked for may still end otherwise.
FinishBuild(i) ==
  /\ builds[i].phase \in ActivePhases
  /\ \/ \E ph \in Outcomes : SetPhase(i, ph)
     \/ builds[i].cancelled /\ SetPhase(i, "Cancelled")

\* The builds of a deleted BuildConfig are collected.
CollectBuild(i) ==
  /\ builds[i].phase \notin {"None", "Deleted"}
  /\ bcs[builds[i].bc] = NoBC
  /\ SetPhase(i, "Deleted")

\* The watches registered by SetupWithManager: the cache receives a new
\* KogitoBuild or owned BuildConfig and its event puts the request in the
\* queue.
SyncKogitoBuild ==
  /\ "kogitobuild" \notin cacheCurrent
  /\ cachedSpec' = spec
  /\ cacheCurrent' = cacheCurrent \cup {"kogitobuild"}
  /\ queue' = TRUE
  /\ UNCHANGED <<apiVars, cachedBC, cachedPhase, passCurrent, pass, rebuild, used>>

SyncBuildConfig(b) ==
  /\ b \notin cacheCurrent
  /\ cachedBC' = [cachedBC EXCEPT ![b] = bcs[b]]
  /\ cacheCurrent' = cacheCurrent \cup {b}
  /\ queue' = TRUE
  /\ UNCHANGED <<apiVars, cachedSpec, cachedPhase, passCurrent, pass, rebuild, used>>

\* Builds are read through a cache too, but no event of theirs is watched.
SyncBuilds ==
  /\ cachedPhase' = [i \in BuildIds |-> builds[i].phase]
  /\ cachedPhase' # cachedPhase
  /\ UNCHANGED <<apiVars, cachedSpec, cachedBC, currentVars, queue, pass,
                 rebuild, used>>

\* The periodic resync of the informers (controller-runtime's default, 10h).
Resync ==
  /\ ~queue
  /\ queue' = TRUE
  /\ UNCHANGED <<apiVars, cacheVars, currentVars, pass, rebuild, used>>

\* The operator restarts: the pass is lost, the caches are listed anew and
\* every object in them is an event.
Restart ==
  /\ used.crashes < MaxCrashes
  /\ used' = [used EXCEPT !.crashes = @ + 1]
  /\ pass' = IdlePass
  /\ passCurrent' = {}
  /\ cachedSpec' = spec
  /\ cachedBC' = bcs
  /\ cachedPhase' = [i \in BuildIds |-> builds[i].phase]
  /\ cacheCurrent' = Objects
  /\ queue' = TRUE
  /\ UNCHANGED <<apiVars, rebuild>>

Next ==
  \/ Reconcile
  \/ EditSpec
  \/ StartOtherBuild
  \/ \E i \in BuildIds : FinishBuild(i) \/ CollectBuild(i)
  \/ SyncKogitoBuild
  \/ \E b \in BuildConfigs : SyncBuildConfig(b)
  \/ SyncBuilds
  \/ Resync
  \/ Restart

\* The controller's worker, OpenShift's build controller and the watches keep
\* going; the periodic resync is so rare that it is assumed apart.
Fairness ==
  /\ WF_vars(Reconcile)
  /\ \A i \in BuildIds : WF_vars(FinishBuild(i)) /\ WF_vars(CollectBuild(i))
  /\ WF_vars(SyncKogitoBuild)
  /\ \A b \in BuildConfigs : WF_vars(SyncBuildConfig(b))
  /\ WF_vars(SyncBuilds)

Spec == Init /\ [][Next]_vars
FairSpec == Spec /\ Fairness

-----------------------------------------------------------------------------
\* Properties.

BuildType == [bc : BuildConfigs, def : Definitions \cup {NoBC},
              by : {"operator", "other"}, phase : Phases, cancelled : BOOLEAN]
PassType ==
  [pc : PCs, spec : Specs,
   added : SUBSET BuildConfigs, updated : SUBSET BuildConfigs,
   removed : SUBSET BuildConfigs, changed : SUBSET BuildConfigs, listed : SUBSET BuildIds,
   victim : BuildIds \cup {0}, err : BOOLEAN, requeue : BOOLEAN]

\* Every variable keeps its type, and a pass that cancels has chosen a build.
TypeOK ==
  /\ spec \in Specs
  /\ status \in StatusType
  /\ bcs \in [BuildConfigs -> Definitions \cup {NoBC}]
  /\ builds \in [BuildIds -> BuildType]
  /\ nbuilds \in 0 .. MaxBuilds
  /\ streams \subseteq Images
  /\ cachedSpec \in Specs
  /\ cachedBC \in [BuildConfigs -> Definitions \cup {NoBC}]
  /\ cachedPhase \in [BuildIds -> Phases]
  /\ cacheCurrent \subseteq Objects
  /\ passCurrent \subseteq Objects
  /\ queue \in BOOLEAN
  /\ pass \in PassType
  /\ rebuild \in {"none", "owed", "other", "operator"}
  /\ used \in [edits : Nat, other : Nat, faults : Nat, crashes : Nat]
  /\ pass.pc \in {"cancelUpdate", "cancelWait"} => pass.victim \in BuildIds

\* Successful is said of a build that did complete: the recorded latest
\* build is complete (or in phase Error, which leaves the conditions of the
\* build before it, or it was deleted since).
SuccessIsBacked ==
  status.successful = "True" =>
    /\ status.running = "False"
    /\ status.latest \in BuildIds
    /\ builds[status.latest].phase \in {"Complete", "Error", "Deleted"}

\* The inductive invariant behind the properties.  The caches hold what was
\* there: a current copy is the object, a cached final phase is final, and
\* builds not yet created are in no cache.
CacheInv ==
  /\ \A b \in BuildConfigs : b \in cacheCurrent => cachedBC[b] = bcs[b]
  /\ \A i \in BuildIds :
       /\ i > nbuilds => builds[i].phase = "None" /\ cachedPhase[i] = "None"
       /\ cachedPhase[i] = "Complete" => builds[i].phase \in {"Complete", "Deleted"}
       /\ cachedPhase[i] = "Error" => builds[i].phase \in {"Error", "Deleted"}

\* What a pass may rely on.  A BuildConfig it is about to update, and of
\* which it has the current version, differs from the request; from the
\* update of the builder to the start of its build, a build is owed for what
\* the builder BuildConfig holds, which is what the spec of the pass asks for.
PassInv ==
  LET req == GetRequestedResources(pass.spec)
      changed == /\ rebuild \in {"owed", "other"}
                 /\ bcs["builder"] = req["builder"]
  IN  /\ At("apply") =>
           /\ \A b \in pass.updated \cap passCurrent : bcs[b] # req[b]
           /\ "builder" \in pass.changed =>
                /\ "builder" \notin pass.added \cup pass.removed
                /\ "builder" \notin pass.updated => changed
      /\ pass.pc \in {"cancel", "cancelUpdate", "cancelWait", "trigger"} => changed

BuildInv == TypeOK /\ CacheInv /\ PassInv /\ SuccessIsBacked

\* The step in which the operator itself starts a build.
OperatorStarts == At("trigger") /\ nbuilds' # nbuilds /\ pass' # pass

\* The operator starts at most one build for each change it makes to the
\* builder BuildConfig, and none without one: no retry, stale cache, lost
\* reply or restart makes it start two.
OneBuildPerChange == [][OperatorStarts => rebuild \in {"owed", "other"}]_vars

\* A build the operator starts is built from what the spec of the pass that
\* started it asks for, although others act between the calls of the pass.
BuildIsAsRequested ==
  [][OperatorStarts =>
       builds'[nbuilds'].def = GetRequestedResources(pass.spec)["builder"]]_vars

\* LatestBuild never goes back to an older build of the same type that still
\* exists, however stale the cache the status was computed from.
LatestBuildNeverRegresses ==
  [][status'.latest < status.latest =>
       \/ builds[status.latest].phase = "Deleted"
       \/ builds[status'.latest].def.type # builds[status.latest].def.type]_vars

\* What the controller promises, and its state as the promise sees it: the
\* BuildConfigs, whether a change of the builder's is still to be built, and
\* of each build what it builds and who asked for it.
Promise == INSTANCE BuildPromise WITH
  Requests <- {GetRequestedResources(s) : s \in {x \in Specs : x.valid}},
  config <- bcs,
  due <- IF rebuild \in {"owed", "other"} THEN "build" ELSE "nothing",
  count <- nbuilds,
  made <- [i \in BuildIds |-> [def |-> builds[i].def, by |-> builds[i].by]]

\* The controller keeps the promise: through retries, stale caches, lost
\* replies, restarts and edits in the middle of a pass, the BuildConfigs
\* only ever become what some accepted spec asks for, and the builds it
\* starts are one at most for each such change, of what was asked for.
PromiseKept == Promise!Spec

\* Once the user stops editing, the BuildConfigs become those of the last
\* spec and stay so, whatever failed on the way and without any resync.
SpecIsApplied == <>[](spec.valid => bcs = GetRequestedResources(spec))

\* The status says of the newest build of the spec's type what its phase is;
\* Error has no condition of its own.
StatusIsTruthful ==
  \A i \in Latest({j \in BuildIds : /\ builds[j].phase \notin {"None", "Deleted"}
                                    /\ builds[j].def.type = spec.type}) :
    /\ status.latest = i
    /\ builds[i].phase = "Complete" => status.successful = "True"
    /\ builds[i].phase \in {"Failed", "Cancelled"} =>
         status.failed = "True" /\ status.running = "False"

\* Once builds and edits stop, the status becomes truthful and stays so,
\* although no event of a Build reaches the controller: it takes a resync.
StatusSettles == WF_vars(Resync) => <>[]StatusIsTruthful

-----------------------------------------------------------------------------
\* What comments of the code say, and the code does not do.

\* onBuildConfigChange "triggers when a build config changes": a change of
\* the builder BuildConfig is followed by a build, or undone.
ChangeIsBuilt == rebuild = "owed" ~> rebuild # "owed"
=============================================================================
