----------------------------- MODULE UpsertsProofs -----------------------------
(***************************************************************************)
(* Lemmas about the steps of Upserts that the proofs of the reconcilers    *)
(* rest on: they keep the type, and a write to a name changes that name    *)
(* alone; and about what is made of a map in the order of its keys.        *)
(***************************************************************************)
EXTENDS Upserts, TLAPS, FiniteSetTheorems

\* Where a pass is at a name.
AtName == {"create", "update", "recreate", "createAgain", "delete", "pods"}

\* There is an object or None at every name, and a call is about a name.
Places ==
  /\ DOMAIN live = Names
  /\ pc \in AtName => at \in Names

\* The informer gets to see what is stored: what it shows, or is to show last.
Informed ==
  \A n \in Names :
    live[n] = IF pending[n] = <<>> THEN cached[n] ELSE pending[n][Len(pending[n])]

-----------------------------------------------------------------------------
Less == {p \in Nat \X Nat : p[1] < p[2]}

LEMMA LessWellFounded == IsWellFoundedOn(Less, Nat)
BY NatLessThanWellFounded DEF OpToRel, Less

LEMMA MinExists ==
  ASSUME NEW S \in SUBSET Nat, S # {}
  PROVE  Min(S) \in S /\ \A x \in S : Min(S) <= x
<1>1. PICK x \in S : \A y \in S : <<y, x>> \notin Less
  BY WFMin, LessWellFounded
<1>2. \A y \in S : x <= y
  <2> SUFFICES ASSUME NEW y \in S, y < x PROVE FALSE
    OBVIOUS
  <2>1. <<y, x>> \in Nat \X Nat /\ <<y, x>>[1] < <<y, x>>[2]
    OBVIOUS
  <2> QED BY <1>1, <2>1 DEF Less
<1> QED BY <1>1, <1>2 DEF Min

Ascending(S, keys) ==
  /\ keys \in [1 .. Cardinality(S) -> S]
  /\ \A i, j \in 1 .. Cardinality(S) : i < j => keys[i] < keys[j]

\* The least of the numbers, and behind it all others in ascending order.
LEMMA AscendingFromLeast ==
  ASSUME NEW S \in SUBSET Nat, IsFiniteSet(S), S # {},
         NEW rest, Ascending(S \ {Min(S)}, rest)
  PROVE  \E keys : Ascending(S, keys)
<1> DEFINE m == Min(S)
           n == Cardinality(S)
           keys == [i \in 1 .. n |-> IF i = 1 THEN m ELSE rest[i - 1]]
<1>1. m \in S /\ \A x \in S : m <= x
  BY MinExists
<1>2. n \in Nat /\ Cardinality(S \ {m}) = n - 1
  BY <1>1, FS_CardinalityType, FS_RemoveElement
<1>3. /\ \A i \in 1 .. n - 1 : rest[i] \in S \ {m}
      /\ \A i, j \in 1 .. n - 1 : i < j => rest[i] < rest[j]
  BY <1>2 DEF Ascending
<1> HIDE DEF m, n
<1>4. \A i \in 1 .. n : i # 1 => i - 1 \in 1 .. n - 1
  BY <1>2
<1>5. keys \in [1 .. n -> S]
  BY <1>1, <1>3, <1>4
<1>6. ASSUME NEW i \in 1 .. n, NEW j \in 1 .. n, i < j
      PROVE  keys[i] < keys[j]
  <2>1. j # 1 /\ keys[j] = rest[j - 1] /\ rest[j - 1] \in S \ {m}
    BY <1>2, <1>3, <1>4, <1>6
  <2>2. CASE i = 1
    <3>1. keys[i] = m
      BY <2>2
    <3>2. m \in Nat /\ rest[j - 1] \in Nat /\ m <= rest[j - 1] /\ m # rest[j - 1]
      BY <1>1, <2>1
    <3> HIDE DEF keys
    <3> QED BY <2>1, <3>1, <3>2
  <2>3. CASE i # 1
    BY <1>2, <1>3, <1>4, <1>6, <2>1, <2>3
  <2> QED BY <2>2, <2>3
<1> QED BY <1>5, <1>6 DEF Ascending, n

\* By the least size that a counterexample would have.
LEMMA AscendingExists ==
  ASSUME NEW S \in SUBSET Nat, IsFiniteSet(S)
  PROVE  \E keys : Ascending(S, keys)
<1> DEFINE Without(T) == /\ T \in SUBSET Nat /\ IsFiniteSet(T)
                         /\ ~ \E keys : Ascending(T, keys)
           Counts == {n \in Nat : \E T \in SUBSET Nat : Without(T) /\ Cardinality(T) = n}
<1>1. ASSUME Counts # {} PROVE FALSE
  <2>1. Min(Counts) \in Counts /\ \A n \in Counts : Min(Counts) <= n
    BY <1>1, MinExists
  <2>2. PICK T \in SUBSET Nat : Without(T) /\ Cardinality(T) = Min(Counts)
    BY <2>1
  <2>3. T # {}
    <3> SUFFICES ASSUME T = {} PROVE FALSE
      OBVIOUS
    <3> DEFINE none == [i \in {} |-> i]
    <3>1. Cardinality(T) = 0 /\ 1 .. 0 = {}
      BY FS_EmptySet
    <3>2. none \in [1 .. Cardinality(T) -> T]
      BY <3>1
    <3> QED BY <2>2, <3>1, <3>2 DEF Ascending
  <2> DEFINE R == T \ {Min(T)}
  <2>4. /\ IsFiniteSet(R) /\ R \in SUBSET Nat
        /\ Cardinality(R) \in Nat /\ Cardinality(R) < Cardinality(T)
    <3>1. Min(T) \in T
      BY <2>3, MinExists
    <3>2. /\ Cardinality(T) \in Nat
          /\ IsFiniteSet(R) /\ Cardinality(R) = Cardinality(T) - 1
      BY <2>2, <3>1, FS_CardinalityType, FS_RemoveElement
    <3>3. Cardinality(R) \in Nat
      BY <3>2, FS_CardinalityType
    <3> HIDE DEF R
    <3>4. Cardinality(R) < Cardinality(T)
      BY <3>2, <3>3
    <3> QED BY <3>2, <3>3, <3>4 DEF R
  <2> HIDE DEF R, Counts
  <2>5. Cardinality(R) \notin Counts
    <3>1. Cardinality(T) \in Nat /\ Cardinality(T) <= Cardinality(R) => FALSE
      BY <2>4, <2>1, <2>2, FS_CardinalityType
    <3> QED BY <2>1, <2>2, <2>4, <3>1, FS_CardinalityType
  <2> USE DEF R, Counts
  <2>6. PICK rest : Ascending(R, rest)
    BY <2>4, <2>5
  <2> QED BY <2>2, <2>3, <2>6, AscendingFromLeast
<1>2. Without(S) => Cardinality(S) \in Counts
  BY FS_CardinalityType
<1> QED BY <1>1, <1>2

LEMMA SortedKeys ==
  ASSUME NEW K \in SUBSET Nat, NEW V, NEW map \in MapsTo(K, V)
  PROVE  /\ DOMAIN map \in SUBSET K /\ IsFiniteSet(DOMAIN map)
         /\ map \in [DOMAIN map -> V]
         /\ Ascending(DOMAIN map, getSortedKeys(map))
<1>1. PICK D \in SUBSET K : IsFiniteSet(D) /\ map \in [D -> V]
  BY DEF MapsTo
<1>2. DOMAIN map = D
  BY <1>1
<1>3. \E keys : Ascending(D, keys)
  BY <1>1, AscendingExists
<1>4. \E keys \in [1 .. Cardinality(D) -> D] :
        \A i, j \in DOMAIN keys : i < j => keys[i] < keys[j]
  BY <1>3 DEF Ascending
<1>5. /\ getSortedKeys(map) \in [1 .. Cardinality(D) -> D]
      /\ \A i, j \in DOMAIN getSortedKeys(map) :
           i < j => getSortedKeys(map)[i] < getSortedKeys(map)[j]
  BY <1>2, <1>4 DEF getSortedKeys
<1> QED BY <1>1, <1>2, <1>5 DEF Ascending

\* A list in ascending order that is as long as its set is large has them all.
LEMMA AscendingHasAll ==
  ASSUME NEW S \in SUBSET Nat, IsFiniteSet(S), NEW keys, Ascending(S, keys)
  PROVE  \A x \in S : \E i \in 1 .. Cardinality(S) : keys[i] = x
<1> DEFINE n == Cardinality(S)
<1>1. n \in Nat
  BY FS_CardinalityType
<1>2. keys \in [1 .. n -> S] /\ \A i, j \in 1 .. n : i < j => keys[i] < keys[j]
  BY DEF Ascending
<1> HIDE DEF n
<1>3. \A i, j \in 1 .. n : keys[i] = keys[j] => i = j
  <2> SUFFICES ASSUME NEW i \in 1 .. n, NEW j \in 1 .. n, keys[i] = keys[j], i < j
               PROVE  FALSE
    BY <1>1
  <2>1. keys[i] \in Nat /\ keys[i] < keys[j]
    BY <1>2
  <2> QED BY <2>1
<1>4. keys \in Injection(1 .. n, S)
  BY <1>2, <1>3 DEF Injection, IsInjective
<1>5. Cardinality(1 .. n) = n
  BY <1>1, FS_Interval
<1>6. keys \in Surjection(1 .. n, S)
  BY <1>4, <1>5, FS_Injection DEF n
<1> QED BY <1>6 DEF Surjection, n

(***************************************************************************)
(* What the loop over getSortedKeys (helpers.go) makes of a map is a list  *)
(* of all its keys with their values and of nothing else, each key once,   *)
(* in ascending order: for any map, so that two passes make the same list. *)
(***************************************************************************)
THEOREM SortedByKey ==
  ASSUME NEW K \in SUBSET Nat, NEW V, NEW map \in MapsTo(K, V)
  PROVE  /\ Sorted(map) \in Seq(K \X V)
         /\ ToSet(Sorted(map)) = {<<k, map[k]>> : k \in DOMAIN map}
         /\ \A i, j \in DOMAIN Sorted(map) : i < j => Sorted(map)[i][1] < Sorted(map)[j][1]
<1> DEFINE n == Cardinality(DOMAIN map)
           keys == getSortedKeys(map)
<1>1. n \in Nat
  BY SortedKeys, FS_CardinalityType
<1>2. /\ keys \in [1 .. n -> DOMAIN map]
      /\ \A i, j \in 1 .. n : i < j => keys[i] < keys[j]
  BY SortedKeys DEF Ascending
<1>3. \A k \in DOMAIN map : \E i \in 1 .. n : keys[i] = k
  <2>1. DOMAIN map \in SUBSET Nat
    BY SortedKeys
  <2> QED BY <2>1, SortedKeys, AscendingHasAll
<1>4. Sorted(map) = [i \in 1 .. n |-> <<keys[i], map[keys[i]]>>]
  BY <1>2 DEF Sorted
<1>5. DOMAIN map \subseteq K /\ \A k \in DOMAIN map : map[k] \in V
  BY SortedKeys
<1> HIDE DEF n, keys
<1>6. Sorted(map) \in [1 .. n -> K \X V]
  BY <1>2, <1>4, <1>5
<1>7. ToSet(Sorted(map)) = {<<k, map[k]>> : k \in DOMAIN map}
  <2>1. ToSet(Sorted(map)) = {<<keys[i], map[keys[i]]>> : i \in 1 .. n}
    BY <1>4 DEF ToSet
  <2> QED BY <1>2, <1>3, <2>1
<1>8. Sorted(map) \in Seq(K \X V)
  BY <1>1, <1>6
<1>9. \A i, j \in DOMAIN Sorted(map) : i < j => Sorted(map)[i][1] < Sorted(map)[j][1]
  BY <1>2, <1>4
<1> QED BY <1>7, <1>8, <1>9

-----------------------------------------------------------------------------

LEMMA LaggingType ==
  ASSUME NEW T, NEW changes \in Seq(T), Len(changes) <= MaxLag + 1
  PROVE  Lagging(changes) \in Seq(T) /\ Len(Lagging(changes)) <= MaxLag
<1>1. CASE Len(changes) <= MaxLag
  BY <1>1, LagAssumption DEF Lagging
<1>2. CASE Len(changes) = MaxLag + 1
  BY <1>2, LagAssumption DEF Lagging
<1> QED BY <1>1, <1>2, LagAssumption

\* A write changes its name alone.
LEMMA PutElsewhere ==
  ASSUME DOMAIN live = Names, NEW n \in Names, NEW o, Put(n, o)
  PROVE  /\ DOMAIN live' = Names
         /\ live'[n] = o
         /\ \A m \in Names : m # n => live'[m] = live[m]
BY DEF Put

\* What the informer has still to see of a name ends with what is written.
LEMMA PutPending ==
  ASSUME NEW T, NEW n \in Names, DOMAIN pending = Names,
         pending[n] \in Seq(T), Len(pending[n]) <= MaxLag,
         NEW o \in T, Put(n, o)
  PROVE  /\ pending'[n] \in Seq(T)
         /\ o # live[n] => pending'[n] # <<>> /\ pending'[n][Len(pending'[n])] = o
         /\ o = live[n] => pending' = pending
         /\ DOMAIN pending' = Names
         /\ \A m \in Names : m # n => pending'[m] = pending[m]
<1> DEFINE changes == Append(pending[n], o)
<1>1. /\ Len(pending[n]) \in Nat
      /\ changes \in Seq(T)
      /\ Len(changes) = Len(pending[n]) + 1
      /\ changes[Len(changes)] = o
      /\ changes # <<>>
  OBVIOUS
<1> HIDE DEF changes
<1>2. Lagging(changes) \in Seq(T)
  <2>1. Len(changes) <= MaxLag + 1
    BY <1>1, LagAssumption
  <2> QED BY <1>1, <2>1, LaggingType
<1>3. Lagging(changes) # <<>> /\ Lagging(changes)[Len(Lagging(changes))] = o
  <2>1. CASE Len(changes) <= MaxLag
    BY <1>1, <2>1, LagAssumption DEF Lagging
  <2>2. CASE Len(changes) > MaxLag
    <3>1. Lagging(changes) = Tail(changes) /\ Len(changes) >= 2
      BY <1>1, <2>2, LagAssumption DEF Lagging
    <3>2. /\ Len(Tail(changes)) = Len(changes) - 1
          /\ \A i \in 1 .. Len(changes) - 1 : Tail(changes)[i] = changes[i + 1]
      BY <1>1, <3>1
    <3>3. Tail(changes)[Len(changes) - 1] = o
      BY <1>1, <3>1, <3>2
    <3> QED BY <1>1, <3>1, <3>2, <3>3
  <2> QED BY <1>1, <2>1, <2>2, LagAssumption
<1> QED BY <1>2, <1>3 DEF Put, changes

LEMMA PutInformed ==
  ASSUME NEW T, Informed, DOMAIN live = Names, DOMAIN pending = Names,
         NEW n \in Names, pending[n] \in Seq(T), Len(pending[n]) <= MaxLag,
         NEW o \in T, Put(n, o), UNCHANGED cached
  PROVE  Informed'
BY PutPending, PutElsewhere DEF Informed

LEMMA WatchInformed ==
  ASSUME NEW T, Informed, DOMAIN cached = Names, DOMAIN pending = Names,
         NEW n \in Names, pending[n] \in Seq(T), Watch(n)
  PROVE  /\ Informed'
         /\ cached'[n] \in T
         /\ pending'[n] \in Seq(T)
         /\ \A m \in Names : m # n => UNCHANGED <<cached[m], pending[m]>>
<1>1. /\ pending[n] # <<>>
      /\ cached'[n] = pending[n][1] /\ pending'[n] = Tail(pending[n])
      /\ \A m \in Names : m # n => UNCHANGED <<cached[m], pending[m]>>
      /\ live' = live
  BY DEF Watch
<1>2. /\ Len(pending[n]) \in Nat \ {0}
      /\ pending[n][1] \in T
      /\ Tail(pending[n]) \in Seq(T)
      /\ Len(Tail(pending[n])) = Len(pending[n]) - 1
      /\ \A i \in 1 .. Len(pending[n]) - 1 : Tail(pending[n])[i] = pending[n][i + 1]
  BY <1>1
<1>3. live[n] = pending[n][Len(pending[n])]
  BY <1>1 DEF Informed
<1>4. live[n] = IF Tail(pending[n]) = <<>> THEN pending[n][1]
                ELSE Tail(pending[n])[Len(Tail(pending[n]))]
  <2> DEFINE rest == Tail(pending[n])
  <2>0. rest = <<>> <=> Len(rest) = 0
    BY <1>2
  <2> HIDE DEF rest
  <2>1. CASE Len(pending[n]) = 1
    BY <1>2, <1>3, <2>0, <2>1 DEF rest
  <2>2. CASE Len(pending[n]) > 1
    BY <1>2, <1>3, <2>0, <2>2 DEF rest
  <2> QED BY <1>2, <2>1, <2>2
<1> QED BY <1>1, <1>2, <1>4 DEF Informed

\* What is stored, and what the informer has still to see, keeps its type.
LEMMA PutType ==
  ASSUME NEW T, live \in [Names -> T], pending \in [Names -> Seq(T)],
         \A m \in Names : Len(pending[m]) <= MaxLag,
         NEW n \in Names, NEW o \in T, Put(n, o)
  PROVE  /\ live' \in [Names -> T]
         /\ pending' \in [Names -> Seq(T)]
         /\ \A m \in Names : Len(pending'[m]) <= MaxLag
<1>1. live' \in [Names -> T]
  BY DEF Put
<1> DEFINE changes == Append(pending[n], o)
<1>2. changes \in Seq(T) /\ Len(changes) <= MaxLag + 1
  <2>1. Len(changes) = Len(pending[n]) + 1
    OBVIOUS
  <2>2. Len(pending[n]) \in Nat
    OBVIOUS
  <2> QED BY <2>1, <2>2, LagAssumption
<1>3. Lagging(changes) \in Seq(T) /\ Len(Lagging(changes)) <= MaxLag
  BY <1>2, LaggingType
<1>4. pending' = pending \/ pending' = [pending EXCEPT ![n] = Lagging(changes)]
  BY DEF Put
<1> HIDE DEF changes
<1> QED BY <1>1, <1>3, <1>4

\* A call writes to one name, or not, and the pass goes on or ends.
LEMMA CallWrites ==
  ASSUME DOMAIN live = Names, NEW n \in Names, NEW o, NEW taken, NEW then,
         Call(taken, n, o, then)
  PROVE  /\ DOMAIN live' = Names
         /\ \A m \in Names : live'[m] \in {live[m], o} /\ (m # n => live'[m] = live[m])
         /\ ~taken => UNCHANGED <<live, pending>> /\ pc' = "backoff"
         /\ \/ pc' = then /\ (then \notin Between => UNCHANGED <<at, new>>)
            \/ pc' = "backoff"
BY PutElsewhere DEF Call, Goto, Between

\* A call at the name of the pass goes on there, or the pass ends.
LEMMA CallPlaces ==
  ASSUME Places, pc \in AtName, NEW o, NEW taken, NEW then,
         Call(taken, at, o, then)
  PROVE  /\ Places'
         /\ pc' \in {then, "backoff"}
         /\ pc' \notin Between => UNCHANGED <<at, new>> /\ live'[at] = o
<1>1. at \in Names /\ DOMAIN live = Names
  BY DEF Places
<1>2. DOMAIN live' = Names
  BY <1>1, PutElsewhere DEF Call
<1>3. pc' \in {then, "backoff"}
  BY DEF Call, Goto
<1>4. pc' \notin Between => UNCHANGED <<at, new>>
  BY DEF Call, Goto
<1>5. pc' \notin Between => live'[at] = o
  BY <1>1, PutElsewhere DEF Call, Goto, Between
<1> QED BY <1>1, <1>2, <1>3, <1>4, <1>5 DEF Places, AtName, Between

-----------------------------------------------------------------------------

\* A pass that goes to a step keeps the name and the object it is about.
LEMMA GotoType ==
  ASSUME NEW B, NEW O, NEW S, UpsertTypeOK(B, O, S),
         NEW step \in UpsertSteps \cup S, Goto(step)
  PROVE  /\ pc' \in UpsertSteps \cup S
         /\ at' \in Names \cup {None}
         /\ new' \in O \cup {None}
BY DEF UpsertTypeOK, Goto

LEMMA CallType ==
  ASSUME NEW B, NEW O, NEW S, UpsertTypeOK(B, O, S),
         NEW n \in Names, NEW o \in O \cup {None}, NEW taken,
         NEW then \in UpsertSteps \cup S,
         Call(taken, n, o, then), UNCHANGED <<userVars, cached, crashes>>
  PROVE  UpsertTypeOK(B, O, S)'
<1>1. /\ live' \in [Names -> O \cup {None}]
      /\ pending' \in [Names -> Seq(O \cup {None})]
      /\ \A m \in Names : Len(pending'[m]) <= MaxLag
  <2>1. UNCHANGED <<live, pending>> \/ Put(n, o)
    BY DEF Call
  <2>2. CASE Put(n, o)
    BY <2>2, PutType DEF UpsertTypeOK
  <2> QED BY <2>1, <2>2 DEF UpsertTypeOK
<1>2. Goto(then) \/ Goto("backoff")
  BY DEF Call
<1>3. /\ pc' \in UpsertSteps \cup S
      /\ at' \in Names \cup {None}
      /\ new' \in O \cup {None}
  BY <1>2, GotoType DEF UpsertSteps, Between
<1>4. faults' \in Nat
  BY DEF Call, Fault, UpsertTypeOK
<1> QED BY <1>1, <1>3, <1>4 DEF UpsertTypeOK, userVars

\* The steps of UpsertResource, and of Delete, keep the type.
LEMMA UpsertStepType ==
  ASSUME NEW B, NEW O, NEW S, UpsertTypeOK(B, O, S), Places,
         NEW then \in UpsertSteps \cup S, NEW valid,
         Create(then) \/ Update(valid, then) \/ DeleteRefused \/ CreateAgain
           \/ Delete(then)
  PROVE  UpsertTypeOK(B, O, S)'
<1>1. at \in Names
  BY DEF Create, Update, DeleteRefused, CreateAgain, Delete, Places, AtName
<1>2. new \in O \cup {None}
  BY DEF UpsertTypeOK
<1>3. {"backoff", "createAgain"} \subseteq UpsertSteps \cup S
  BY DEF UpsertSteps, Between
<1>4. UNCHANGED <<userVars, cached, crashes>>
  BY DEF Create, Update, DeleteRefused, CreateAgain, Delete
<1>5. CASE Create(then)
  BY <1>1, <1>2, <1>4, <1>5, CallType DEF Create
<1>6. CASE Update(valid, then)
  BY <1>1, <1>2, <1>4, <1>6, CallType DEF Update
<1>7. CASE DeleteRefused
  BY <1>1, <1>3, <1>4, <1>7, CallType DEF DeleteRefused
<1>8. CASE CreateAgain
  BY <1>1, <1>2, <1>3, <1>4, <1>8, CallType DEF CreateAgain
<1>9. CASE Delete(then)
  BY <1>1, <1>4, <1>9, CallType DEF Delete
<1> QED BY <1>5, <1>6, <1>7, <1>8, <1>9

\* They keep the informer informed.
LEMMA CallInformed ==
  ASSUME NEW B, NEW O, NEW S, UpsertTypeOK(B, O, S), Informed,
         NEW n \in Names, NEW o \in O \cup {None}, NEW taken, NEW then,
         Call(taken, n, o, then), UNCHANGED cached
  PROVE  Informed'
<1>1. UNCHANGED <<live, pending>> \/ Put(n, o)
  BY DEF Call
<1>2. CASE UNCHANGED <<live, pending>>
  BY <1>2 DEF Informed
<1>3. CASE Put(n, o)
  BY <1>3, PutInformed DEF UpsertTypeOK
<1> QED BY <1>1, <1>2, <1>3

LEMMA UpsertStepInformed ==
  ASSUME NEW B, NEW O, NEW S, UpsertTypeOK(B, O, S), Places, Informed,
         NEW then, NEW valid,
         Create(then) \/ Update(valid, then) \/ DeleteRefused \/ CreateAgain
           \/ Delete(then)
  PROVE  Informed'
<1>1. at \in Names /\ UNCHANGED cached
  BY DEF Create, Update, DeleteRefused, CreateAgain, Delete, Places, AtName
<1>2. new \in O \cup {None} /\ None \in O \cup {None}
  BY DEF UpsertTypeOK
<1>3. CASE Create(then)
  BY <1>1, <1>2, <1>3, CallInformed DEF Create
<1>4. CASE Update(valid, then)
  BY <1>1, <1>2, <1>4, CallInformed DEF Update
<1>5. CASE DeleteRefused \/ Delete(then)
  BY <1>1, <1>2, <1>5, CallInformed DEF DeleteRefused, Delete
<1>6. CASE CreateAgain
  BY <1>1, <1>2, <1>6, CallInformed DEF CreateAgain
<1> QED BY <1>3, <1>4, <1>5, <1>6

LEMMA EditType ==
  ASSUME NEW B, NEW O, NEW S, UpsertTypeOK(B, O, S), Written \subseteq B, Edit
  PROVE  UpsertTypeOK(B, O, S)'
BY DEF Edit, UserStep, apiVars, passVars, UpsertTypeOK

LEMMA DriftType ==
  ASSUME NEW B, NEW O, NEW S, UpsertTypeOK(B, O, S), NEW n \in Names, Drift(n)
  PROVE  UpsertTypeOK(B, O, S)'
<1>1. /\ live' \in [Names -> O \cup {None}]
      /\ pending' \in [Names -> Seq(O \cup {None})]
      /\ \A m \in Names : Len(pending'[m]) <= MaxLag
  BY PutType DEF Drift, UpsertTypeOK
<1> QED BY <1>1 DEF Drift, UserStep, UpsertTypeOK, passVars

LEMMA WatchType ==
  ASSUME NEW B, NEW O, NEW S, UpsertTypeOK(B, O, S), NEW n \in Names, Watch(n)
  PROVE  UpsertTypeOK(B, O, S)'
<1> DEFINE T == O \cup {None}
<1>1. pending[n] \in Seq(T) /\ pending[n] # <<>> /\ Len(pending[n]) <= MaxLag
  BY DEF UpsertTypeOK, Watch
<1>2. /\ Head(pending[n]) \in T
      /\ Tail(pending[n]) \in Seq(T)
      /\ Len(Tail(pending[n])) <= MaxLag
  <2>1. Len(Tail(pending[n])) = Len(pending[n]) - 1 /\ Len(pending[n]) \in Nat
    BY <1>1
  <2> QED BY <1>1, <2>1, LagAssumption
<1>3. cached' \in [Names -> T]
  BY <1>2 DEF UpsertTypeOK, Watch
<1>4. pending' \in [Names -> Seq(T)] /\ \A m \in Names : Len(pending'[m]) <= MaxLag
  BY <1>2 DEF UpsertTypeOK, Watch
<1> QED BY <1>3, <1>4 DEF UpsertTypeOK, Watch, userVars, passVars

LEMMA RestartType ==
  ASSUME NEW B, NEW O, NEW S, UpsertTypeOK(B, O, S), Restart
  PROVE  UpsertTypeOK(B, O, S)'
<1>1. /\ pc' \in UpsertSteps \cup S
      /\ at' \in Names \cup {None}
      /\ new' \in O \cup {None}
  BY GotoType DEF Restart, UpsertSteps, Between
<1>2. /\ pending' \in [Names -> Seq(O \cup {None})]
      /\ \A m \in Names : Len(pending'[m]) <= MaxLag
  BY LagAssumption DEF Restart
<1>3. cached' \in [Names -> O \cup {None}] /\ crashes' \in Nat
  BY DEF Restart, UpsertTypeOK
<1> QED BY <1>1, <1>2, <1>3 DEF UpsertTypeOK, Restart, userVars
=============================================================================
