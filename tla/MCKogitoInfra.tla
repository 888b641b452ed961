--------------------------- MODULE MCKogitoInfra ---------------------------
(***************************************************************************)
(* Instances of KogitoInfra for TLC.                                       *)
(***************************************************************************)
EXTENDS KogitoInfra, TLC

CONSTANTS i1, i2, r1, r2, r3, c1, c2, u1

Of(kind, resource, props, refs) ==
  [kind |-> kind, resource |-> resource, props |-> props, refs |-> refs]

Ready(data, security) ==
  [state |-> "ready", data |-> data, parts |-> {"address", "secret", "user"},
   security |-> security]

\* A KogitoInfra for a Kafka whose address changes, with infra properties
\* or without.
KafkaSpecs == i1 :> {Of("Kafka", r1, None, {}), Of("Kafka", r1, c1, {})}
KafkaBackings == r1 :> {Ready(c1, {}), Ready(c2, {})}

\* Every kind, the wrong kind and no resource; a name or the infra properties
\* may be missing, and references be there or not.
AllSpecs ==
  i1 :> {Of("Kafka", r1, None, {}), Of("MongoDB", r1, c1, {}),
         Of("MongoDB", r1, None, {}), Of("Infinispan", r2, None, {}),
         Of("Infinispan", r3, None, {}), Of("Keycloak", r1, None, {}),
         Of("Broker", None, None, {}), Of("Unsupported", r1, None, {}),
         Of("NoResource", None, c1, {None}), Of("NoResource", None, c1, {u1})}

\* The resource is not ready for some time, or lacks the user and the Secret;
\* one Infinispan has endpoint authentication, the other encryption.
AllBackings ==
  r1 :> {Ready(c1, {}), [Ready(c1, {}) EXCEPT !.state = "notReady"],
         [Ready(c1, {}) EXCEPT !.parts = {"address"}]}
    @@ r2 :> {Ready(c1, {"auth"})} @@ r3 :> {Ready(c1, {"cert"})}

\* Nothing is used up.
FreshInit == Init /\ \A what \in DOMAIN used : used[what] = 0
FreshSpec == FreshInit /\ [][Next]_vars

\* One fault or one restart, not both.
OneDisturbance == used.faults + used.crashes <= 1

\* A second KogitoInfra, for a Keycloak.
TwoSpecs == AllSpecs @@ i2 :> {Of("Keycloak", r1, None, {})}

\* What the KogitoInfra i1 needs that is not there yet.
Lacking ==
  (UsedKinds \ apis) \cup {r \in {r1} : backing[r] # Ready(c1, {})}

\* Either one KogitoInfra of any kind, around which the cluster changes, with
\* at most one of the CRD and the resource that it needs, and the objects it
\* refers to, still to come: an Infinispan is there unless its CRD is missing,
\* and then nothing changes; or one for a Kafka that is deleted; or one of
\* properties and references only next to the second, and one of them is deleted.
AllInit ==
  /\ Init
  /\ \/ /\ exists = {i1}
        /\ used.deletes = MaxDeletes
        /\ used.changes =
             IF spec[i1].kind = "Infinispan" /\ Lacking = {} THEN MaxChanges ELSE 0
        /\ Lacking \in {{}, {spec[i1].kind}, {spec[i1].resource}}
        /\ spec[i1].refs = {} => userObjects = {}
     \/ /\ exists \in {{i1}, Infras}
        /\ used.changes = MaxChanges /\ used.deletes = 0
        /\ Lacking = {}
        /\ IF exists = Infras THEN spec[i1].refs = {u1} /\ userObjects = {u1}
                              ELSE spec[i1].kind = "Kafka" /\ userObjects = {}
AllSpec == AllInit /\ [][Next]_vars /\ Fairness
=============================================================================
