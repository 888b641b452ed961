--------------------------- MODULE MCKogitoBuild ---------------------------
(***************************************************************************)
(* Instances of KogitoBuild for TLC.                                       *)
(***************************************************************************)
EXTENDS KogitoBuild

CONSTANTS p1, p2, img

\* Two source specs that differ in both BuildConfigs.
SourceSpecs ==
  {[type |-> "RemoteSource", valid |-> TRUE, image |-> img,
    builder |-> p, runtime |-> p] : p \in {p1, p2}}

\* The same, and a binary spec, which has fewer BuildConfigs.
TypedSpecs ==
  SourceSpecs \cup
    {[type |-> "Binary", valid |-> TRUE, image |-> img,
      builder |-> p1, runtime |-> p1]}

\* The same, and a spec without the Git URL its type requires.
CheckedSpecs ==
  TypedSpecs \cup
    {[type |-> "RemoteSource", valid |-> FALSE, image |-> img,
      builder |-> p1, runtime |-> p1]}

\* The specs of SourceSpecs mirror each other: it is enough to start from one.
MirroredInit == Init /\ spec.builder = p1
MirroredSpec == MirroredInit /\ [][Next]_vars /\ Fairness

\* A KogitoBuild that is accepted at first and not the mirrored one, and is
\* edited to any spec; and one fault or one restart, not both.
AcceptedInit == Init /\ spec.valid /\ spec.builder = p1
AcceptedSpec == AcceptedInit /\ [][Next]_vars
OneDisturbance == used.faults + used.crashes <= 1
=============================================================================
