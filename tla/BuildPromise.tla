--------------------------- MODULE BuildPromise ---------------------------
(***************************************************************************)
(* What the KogitoBuild controller promises, without passes, caches,       *)
(* queues, retries or restarts: each BuildConfig is always the one an      *)
(* accepted spec asks for, and a build in the operator's name is started   *)
(* only when the builder's definition was changed and that change was not  *)
(* built in its name yet.  KogitoBuild is shown to implement it.           *)
(***************************************************************************)
EXTENDS Naturals

CONSTANTS
  Requests,   \* what the specs that pass the checks ask for
  NoBC,       \* a BuildConfig that is not there
  MaxBuilds   \* bound: the builds ever made

VARIABLES
  config,     \* the BuildConfigs
  due,        \* "build" from a change of the builder to the operator's build
  count,      \* the number of builds made
  made        \* what each build builds and in whose name

vars == <<config, due, count, made>>

Configs == {"builder", "runtime"}

Init ==
  /\ config = [b \in Configs |-> NoBC]
  /\ due = "nothing"
  /\ count = 0
  /\ made = [i \in 1 .. MaxBuilds |-> [def |-> NoBC, by |-> "other"]]

\* One BuildConfig becomes what some request asks for.
Configure(b) ==
  \E r \in Requests :
    /\ r[b] # config[b]
    /\ config' = [config EXCEPT ![b] = r[b]]
    /\ due' = IF b # "builder" \/ config[b] = NoBC THEN due
              ELSE IF r[b] = NoBC THEN "nothing" ELSE "build"
    /\ UNCHANGED <<count, made>>

\* A build is made of what the BuildConfig holds.
Start(b, by) ==
  /\ config[b] # NoBC
  /\ count < MaxBuilds
  /\ count' = count + 1
  /\ made' = [made EXCEPT ![count + 1] = [def |-> config[b], by |-> by]]
  /\ UNCHANGED config

\* The operator starts the build a change calls for.
OperatorStart ==
  /\ due = "build"
  /\ Start("builder", "operator")
  /\ due' = "nothing"

\* Others start builds when they like.
OtherStart(b) == Start(b, "other") /\ UNCHANGED due

Next == OperatorStart \/ \E b \in Configs : Configure(b) \/ OtherStart(b)

Spec == Init /\ [][Next]_vars
=============================================================================
