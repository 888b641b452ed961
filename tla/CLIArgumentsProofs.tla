------------------------ MODULE CLIArgumentsProofs ------------------------
(***************************************************************************)
(* What the command line makes of the items of its flags is what they      *)
(* mean, for flags of any length.  The variables of a flag are the last    *)
(* items of their keys, so that numbers have to have a least one.          *)
(***************************************************************************)
EXTENDS CLIArguments, WellFoundedInduction, TLAPS

\* Every set of numbers that is not empty has a least one.
LEMMA LeastNumber ==
  ASSUME NEW T \in SUBSET Nat, T # {}
  PROVE  \E x \in T : \A y \in T : x <= y
<1> DEFINE R == OpToRel(<, Nat)
<1>1. IsWellFoundedOn(R, Nat)
  BY NatLessThanWellFounded, Zenon
<1>2. ASSUME NEW x \in Nat, NEW y \in Nat, x < y PROVE <<x, y>> \in R
  BY <1>2 DEF OpToRel
<1> HIDE DEF R
<1>3. \E x \in T : \A y \in T : ~(<<y, x>> \in R)
  BY <1>1, WFMin, Zenon
<1>4. PICK x \in T : \A y \in T : ~(<<y, x>> \in R)
  BY <1>3
<1>5. ASSUME NEW y \in T PROVE x <= y
  <2>1. x \in Nat /\ y \in Nat
    OBVIOUS
  <2>2. ~(y < x)
    BY <1>2, <1>4, <2>1, Zenon
  <2> QED
    BY <2>1, <2>2
<1> QED
  BY <1>5

\* The items of a key have a last one.
LEMMA LastItem ==
  ASSUME NEW items \in Seq(Items), NEW i \in DOMAIN items
  PROVE  \E j \in DOMAIN items : /\ items[j].key = items[i].key
                                 /\ \A l \in DOMAIN items : items[l].key = items[i].key => l <= j
<1> DEFINE n == Len(items)
           S == {j \in DOMAIN items : items[j].key = items[i].key}
           T == {n - j : j \in S}
<1>1. n \in Nat /\ DOMAIN items = 1 .. n
  OBVIOUS
<1> HIDE DEF n
<1>2. T \in SUBSET Nat /\ n - i \in T
  BY <1>1
<1>3. PICK x \in T : \A y \in T : x <= y
  BY <1>2, LeastNumber, Zenon
<1>4. PICK j \in S : x = n - j
  BY <1>3
<1>5. ASSUME NEW l \in S PROVE l <= j
  <2>1. n - l \in T
    BY <1>5
  <2>2. n - j <= n - l
    BY <1>3, <1>4, <2>1
  <2>3. l \in Nat /\ j \in Nat
    BY <1>1
  <2> QED
    BY <1>1, <2>2, <2>3
<1> QED
  BY <1>4, <1>5

\* With a key in every item, all of them are converted, and each key gets the
\* value of its last item.
LEMMA MapIsMeant ==
  ASSUME NEW items \in Seq(Items), CheckKeyPair(items)
  PROVE  LET map == FromStringsKeyPairToMap(items)
         IN  Meant(items) = {[name |-> k, text |-> map[k]] : k \in DOMAIN map}
<1> DEFINE map == FromStringsKeyPairToMap(items)
           IsLast(i, k) == /\ i \in DOMAIN items /\ items[i].key = k
                           /\ \A j \in DOMAIN items : items[j].key = k => j <= i
<1>1. DOMAIN items \in SUBSET Nat /\ \A i \in DOMAIN items : 1 .. i \subseteq DOMAIN items
  OBVIOUS
<1>2. Converted(items) = DOMAIN items
  BY <1>1, Zenon DEF Converted, CheckKeyPair
<1>3. DOMAIN map = {items[i].key : i \in DOMAIN items}
  BY <1>2 DEF FromStringsKeyPairToMap
<1>4. ASSUME NEW k \in DOMAIN map
      PROVE  \E i : IsLast(i, k) /\ map[k] = items[i].value
  <2> DEFINE Counts(i) == /\ items[i].key = k
                          /\ \A j \in Converted(items) : items[j].key = k => j <= i
             last == CHOOSE i \in Converted(items) : Counts(i)
  <2>1. PICK i \in DOMAIN items : items[i].key = k
    BY <1>3, <1>4
  <2>2. \E j \in DOMAIN items : /\ items[j].key = k
                                /\ \A l \in DOMAIN items : items[l].key = k => l <= j
    BY <2>1, LastItem, Zenon
  <2>3. IsLast(last, k)
    <3>1. \E j \in Converted(items) : Counts(j)
      BY <1>2, <2>2, Zenon
    <3>2. last \in Converted(items) /\ Counts(last)
      BY ONLY <3>1, Zenon
    <3> QED
      BY <1>2, <3>2, Zenon
  <2>4. map[k] = IF items[last].value = Absent THEN "" ELSE items[last].value
    <3>1. k \in {items[j].key : j \in Converted(items)}
      BY <1>2, <2>1, Zenon
    <3> QED
      BY ONLY <3>1, Zenon DEF FromStringsKeyPairToMap
  <2> HIDE DEF last
  <2>5. items[last].value # Absent
    BY <2>3, Zenon DEF CheckKeyPair
  <2> HIDE DEF map
  <2> QED
    BY <2>3, <2>4, <2>5
<1> HIDE DEF map
<1>5. ASSUME NEW i, NEW j, NEW k, IsLast(i, k), IsLast(j, k) PROVE i = j
  BY <1>1, <1>5
<1>6. ASSUME NEW i \in DOMAIN items, \A l \in DOMAIN items : items[l].key = items[i].key => l <= i
      PROVE  items[i].key \in DOMAIN map /\ map[items[i].key] = items[i].value
  <2> DEFINE k == items[i].key
  <2>1. IsLast(i, k)
    BY <1>6
  <2>2. k \in DOMAIN map
    BY <1>3
  <2>3. PICK j : IsLast(j, k) /\ map[k] = items[j].value
    BY <1>4, <2>2
  <2>4. i = j
    BY <1>5, <2>1, <2>3
  <2> QED
    BY <2>2, <2>3, <2>4
<1>7. ASSUME NEW v \in Meant(items) PROVE \E k \in DOMAIN map : v = [name |-> k, text |-> map[k]]
  BY <1>6, <1>7 DEF Meant
<1>8. ASSUME NEW k \in DOMAIN map PROVE [name |-> k, text |-> map[k]] \in Meant(items)
  <2>1. PICK i : IsLast(i, k) /\ map[k] = items[i].value
    BY <1>4
  <2> QED
    BY <2>1, Zenon DEF Meant
<1>9. Meant(items) = {[name |-> k, text |-> map[k]] : k \in DOMAIN map}
  BY <1>7, <1>8
<1> QED
  BY <1>9 DEF map

\* Names and texts that come from a map, variables made of names and texts,
\* and variables made of a map directly.
Pairs(map) == {[name |-> k, text |-> map[k]] : k \in DOMAIN map}
Tagged(M, from) == {[name |-> v.name, from |-> from, text |-> v.text] : v \in M}
Typed(map, from) == {[name |-> k, from |-> from, text |-> map[k]] : k \in DOMAIN map}

LEMMA FromMap == ASSUME NEW map, NEW from PROVE Tagged(Pairs(map), from) = Typed(map, from)
<1> DEFINE Pair(k) == [name |-> k, text |-> map[k]]
           Var(v) == [name |-> v.name, from |-> from, text |-> v.text]
           Made(k) == [name |-> k, from |-> from, text |-> map[k]]
           D == DOMAIN map
           M == {Pair(k) : k \in D}
<1>1. ASSUME NEW k PROVE Var(Pair(k)) = Made(k)
  OBVIOUS
<1> HIDE DEF Pair, Var, Made, D
<1>2. ASSUME NEW v \in M PROVE Var(v) \in {Made(k) : k \in D}
  BY <1>1, Zenon
<1>3. ASSUME NEW k \in D PROVE Made(k) \in {Var(v) : v \in M}
  <2>1. Pair(k) \in M
    BY Zenon
  <2> QED
    BY <1>1, <2>1, Zenon
<1>4. {Var(v) : v \in M} = {Made(k) : k \in D}
  BY <1>2, <1>3, Zenon
<1> QED
  BY ONLY <1>4, Zenon DEF Pair, Var, Made, D, Pairs, Tagged, Typed

\* The variables made of well-formed items are those they mean
\* (envvar_converter.go, key_pair_converter.go).
THEOREM EnvsAreMeant ==
  ASSUME NEW e \in Variables, CheckEnvVarArgs(e), CheckKeyPair(e.secretEnv)
  PROVE  FromStringArrayToEnvs(e) = MeantEnvs(e)
<1> DEFINE plain == FromStringsKeyPairToMap(e.env)
           secret == FromStringsKeyPairToMap(e.secretEnv)
           known == {j \in DOMAIN secret : secret[j] \in Secrets}
<1>1. e.env \in Seq(Items) /\ e.secretEnv \in Seq(Items)
  BY DEF Variables
<1>2. CheckKeyPair(e.env) /\ \A k \in DOMAIN secret : secret[k] \in Secrets
  BY Zenon DEF CheckEnvVarArgs, CheckSecretKeyPair
<1>3. Meant(e.env) = Pairs(plain) /\ Meant(e.secretEnv) = Pairs(secret)
  BY <1>1, <1>2, MapIsMeant, Zenon DEF Pairs
<1>4. FromStringArrayToEnvs(e) =
        Typed(plain, "value")
        \cup {[name |-> k, from |-> "secret", text |-> secret[k]] : k \in known}
  BY Zenon DEF FromStringArrayToEnvs, Typed
<1>5. MeantEnvs(e) = Tagged(Meant(e.env), "value") \cup Tagged(Meant(e.secretEnv), "secret")
  BY Zenon DEF MeantEnvs, Tagged
<1>6. known = DOMAIN secret
  BY <1>2, Zenon
<1> HIDE DEF plain, secret, known
<1>7. {[name |-> k, from |-> "secret", text |-> secret[k]] : k \in known} = Typed(secret, "secret")
  BY <1>6, Zenon DEF Typed
<1>8. /\ Tagged(Meant(e.env), "value") = Typed(plain, "value")
      /\ Tagged(Meant(e.secretEnv), "secret") = Typed(secret, "secret")
  BY <1>3, FromMap, Zenon
<1> QED
  BY ONLY <1>4, <1>5, <1>7, <1>8, Zenon
===========================================================================
