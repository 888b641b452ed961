-------------------------- MODULE MCKogitoService --------------------------
\* Instances of KogitoService for TLC.
EXTENDS KogitoService

\* One pod, a Route and one variable, and variations of it.
Base == [replicas |-> 1, config |-> "v", env |-> "v", props |-> None, trust |-> None,
         infra |-> << >>, route |-> TRUE]

\* With a KogitoInfra, a ConfigMap and a Secret of the user.
FullSpecs == {[Base EXCEPT !.infra = <<"i">>, !.props = "o", !.trust = "o"]}

FullInit ==
  /\ Init /\ ~stream.exists
  /\ \A o \in UserObjects : user[o] = "present"
  /\ \A i \in Infras : InfraReady(i)
FullSpec == FullInit /\ [][Next]_vars

\* Any informer may lag until the first disturbance, or none.
LagFirst == [n \in 0 .. MaxTotal |-> IF n = 0 THEN 1 ELSE 0]
NoLag == [n \in 0 .. MaxTotal |-> 0]

\* Bound to a KogitoInfra; with other properties, and scaled to zero.
BoundSpecs ==
  LET bound == [Base EXCEPT !.infra = <<"i">>, !.trust = "o"]
  IN {bound, [bound EXCEPT !.config = "w", !.replicas = 0]}
BoundInit ==
  /\ Init /\ spec.config = "v" /\ user["o"] = "present"
  /\ tag = CHOOSE image \in Images : TRUE
BoundSpec == BoundInit /\ [][Next]_vars /\ Fairness

NotReady == [exists |-> TRUE, configured |-> FALSE, refs |-> {}]
ReadyInfra == [exists |-> TRUE, configured |-> TRUE, refs |-> {"v"}]
Gone == [exists |-> FALSE, configured |-> FALSE, refs |-> {}]
InfraLife == [i \in Infras |-> {Gone, NotReady, ReadyInfra}]
AllKafka == [i \in Infras |-> "Kafka"]
AllBroker == [i \in Infras |-> "Broker"]

=============================================================================
