--------------------------- MODULE CachedObjects ---------------------------
(***************************************************************************)
(* The memory of the objects that the controllers of one operator share.   *)
(*                                                                         *)
(* The manager's cache holds the objects as the API server last sent them. *)
(* A pass gets a deep copy and changes it in place, through what the       *)
(* accessors hand out: the overriding of environment variables, the        *)
(* conditions, labels and lists of builds do so, and several controllers   *)
(* read the same objects at the same time.                                 *)
(*                                                                         *)
(* A cell is what a reference refers to, named by the path of fields that  *)
(* leads to it; the object itself is at the empty path.                    *)
(***************************************************************************)
EXTENDS Naturals, Sequences, FiniteSets

CONSTANTS
  Passes,      \* passes of the controllers at the same time
  MaxVersions, \* bound: versions of an object
  MaxChanges   \* bound: changes of a pass to its copy

ASSUME BoundsAssumption == MaxVersions \in Nat /\ MaxChanges \in Nat

App == INSTANCE AppTypes
Rhpam == INSTANCE RhpamTypes
Groups == {"app", "rhpam"}
Kinds == {"KogitoBuild", "KogitoRuntime", "KogitoInfra", "KogitoSupportingService"}

-----------------------------------------------------------------------------
(***************************************************************************)
(* Paths.                                                                  *)
(***************************************************************************)

\* Types of the Kubernetes API that the structs hold.
Library ==
  LET holding(fields) == App!Struct([f \in fields |-> App!Ref("Text")], fields)
  IN  [Text |-> holding({}), Condition |-> holding({}), EnvVar |-> holding({"ValueFrom"}),
       ResourceRequirements |-> holding({"Limits", "Requests"}), Probe |-> holding({"Handler"}),
       ObjectMeta |-> holding({"Labels", "Annotations", "OwnerReferences", "Finalizers"})]
LibraryIntos ==
  [type \in DOMAIN Library |-> App!Copies(DOMAIN Library[type].fields, {}, {})]

Types(group) == IF group = "app" THEN App!Structs ELSE Rhpam!Structs
Intos(group) == IF group = "app" THEN App!Intos ELSE Rhpam!Intos
StructOf(group, type) == IF type \in DOMAIN Library THEN Library[type] ELSE Types(group)[type]
IntoOf(group, type) == IF type \in DOMAIN LibraryIntos THEN LibraryIntos[type] ELSE Intos(group)[type]

Under(f, paths) == {<<f>> \o p : p \in paths}

\* The references in a value of a type, with at most depth steps to them.
Cells[depth \in Nat, group \in Groups, type \in STRING] ==
  LET s == StructOf(group, type)
  IN  IF depth = 0 THEN {}
      ELSE UNION {(IF s.fields[f].ref THEN {<<f>>} ELSE {})
                  \cup Under(f, Cells[depth - 1, group, s.fields[f].of]) : f \in DOMAIN s.fields}

\* Those that an accessor gives access to.
Given[depth \in Nat, group \in Groups, type \in STRING] ==
  LET s == StructOf(group, type)
  IN  IF depth = 0 THEN {}
      ELSE UNION {(IF s.fields[f].ref /\ f \in s.gives THEN {<<f>>} ELSE {})
                  \cup Under(f, Given[depth - 1, group, s.fields[f].of]) : f \in DOMAIN s.fields}

\* Those that a copy made by DeepCopyInto has in common with its original.
Shared[depth \in Nat, group \in Groups, type \in STRING] ==
  LET s == StructOf(group, type)
      copies == IntoOf(group, type)
  IN  IF depth = 0 THEN {}
      ELSE UNION {LET of == s.fields[f].of
                  IN  IF f \in copies.each \cup copies.into
                      THEN Under(f, Shared[depth - 1, group, of])
                      ELSE (IF s.fields[f].ref /\ f \notin copies.fresh THEN {<<f>>} ELSE {})
                           \cup Under(f, Cells[depth - 1, group, of]) : f \in DOMAIN s.fields}

Depth == 6
GivenOf == [g \in Groups |-> [k \in Kinds |-> Given[Depth, g, k]]]
SharedOf == [g \in Groups |-> [k \in Kinds |-> Shared[Depth, g, k]]]

-----------------------------------------------------------------------------
(***************************************************************************)
(* The cache and the passes.                                               *)
(***************************************************************************)

VARIABLES
  group,    \* the API group of the operator
  kind,     \* the kind of the object
  server,   \* the version of the object at the API server
  cached,   \*   and in the cache
  changed,  \* changes in place to what the cache holds or held
  pass      \* the passes: the version each got, and the cells of its own it changed

vars == <<group, kind, server, cached, changed, pass>>

NoCopy == [version |-> 0, own |-> {}, done |-> 0]

Init ==
  /\ group \in Groups /\ kind \in Kinds
  /\ server = 1 /\ cached = 1
  /\ changed = {}
  /\ pass = [w \in Passes |-> NoCopy]

\* The reader of the cache makes a deep copy.
Get(w) ==
  /\ pass[w] = NoCopy
  /\ pass' = [pass EXCEPT ![w] = [NoCopy EXCEPT !.version = cached]]
  /\ UNCHANGED <<group, kind, server, cached, changed>>

\* A pass changes a cell of its copy, its own or one that it shares.
Change(w, path) ==
  /\ pass[w].version # 0 /\ pass[w].done < MaxChanges
  /\ IF path \in SharedOf[group][kind]
     THEN /\ changed' = changed \cup {[version |-> pass[w].version, path |-> path, by |-> w]}
          /\ pass' = [pass EXCEPT ![w].done = @ + 1]
     ELSE /\ pass' = [pass EXCEPT ![w].own = @ \cup {path}, ![w].done = @ + 1]
          /\ UNCHANGED changed
  /\ UNCHANGED <<group, kind, server, cached>>

\* A pass sends its copy, which is rejected unless it is current, and ends.
Update(w) ==
  /\ pass[w].version # 0
  /\ server' = IF pass[w].version = server /\ server < MaxVersions THEN server + 1 ELSE server
  /\ pass' = [pass EXCEPT ![w] = NoCopy]
  /\ UNCHANGED <<group, kind, cached, changed>>

\* The watch brings a new object; copies of the old one stay as they are.
Deliver ==
  /\ cached < server
  /\ cached' = cached + 1
  /\ UNCHANGED <<group, kind, server, changed, pass>>

Next ==
  \/ \E w \in Passes : \/ Get(w) \/ Update(w)
                       \/ \E path \in GivenOf[group][kind] \cup {<<>>} : Change(w, path)
  \/ Deliver

Spec == Init /\ [][Next]_vars

-----------------------------------------------------------------------------
\* Whoever changed a cell that a pass can read.
ReadBy(w) ==
  (IF pass[w].own = {} THEN {} ELSE {w})
  \cup {c.by : c \in {d \in changed : d.version = pass[w].version /\ d.path \in SharedOf[group][kind]}}

\* The passes do not share memory: the cache holds what the API server sent,
\* whatever passes do in place to the objects they got, and a pass reads what
\* it got and what it changed itself, never what another one did
\* (zz_generated.deepcopy.go and the accessors of both API groups).
CopiesAreApart ==
  /\ \A c \in changed : c.version # cached
  /\ \A w \in Passes : pass[w].version # 0 => ReadBy(w) \subseteq {w}
=============================================================================
