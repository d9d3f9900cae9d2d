------------------------- MODULE ExternalSecretsProofs -------------------------
(***************************************************************************)
(* Proofs that what a pass makes of a bundle is an ExternalSecret, in      *)
(* whatever order the configs are gone through, that nothing else is ever  *)
(* created, and that what settles stays, for all bundles, lags and bounds. *)
(***************************************************************************)
EXTENDS ExternalSecrets, UpsertsProofs

Steps == {"delete", "deleteFirst"}

\* A pass that writes nothing, or is to delete, has no object in hand; one
\* that deletes first has the name to go on with.
InHand ==
  /\ pc \in Between \cup {"delete"} => new = None
  /\ pc = "deleteFirst" => at \in Names

IInv == TypeOK /\ Places /\ Informed /\ InHand

-----------------------------------------------------------------------------
(***************************************************************************)
(* What a pass makes of a bundle.                                          *)
(***************************************************************************)

\* Of finitely many places in an order one is the last.
LEMMA LastExists ==
  ASSUME NEW S, S # {}, NEW most \in Nat, NEW place, \A c \in S : place[c] \in 1 .. most
  PROVE  \E c \in S : \A d \in S : place[d] <= place[c]
<1> DEFINE Behind == {i \in Nat : \E c \in S : i = most - place[c]}
<1>1. \A c \in S : most - place[c] \in Behind
  OBVIOUS
<1>2. Behind # {} /\ Behind \in SUBSET Nat
  BY <1>1
<1>3. Min(Behind) \in Behind /\ \A i \in Behind : Min(Behind) <= i
  BY <1>2, MinExists
<1>4. PICK c \in S : Min(Behind) = most - place[c]
  BY <1>3
<1>5. \A d \in S : most - place[c] <= most - place[d]
  BY <1>1, <1>3, <1>4
<1> HIDE DEF Behind
<1> QED BY <1>5

LEMMA ConfigsType ==
  ASSUME NEW b \in Bundles
  PROVE  /\ IsFiniteSet(DOMAIN b.configs)
         /\ \A c \in DOMAIN b.configs :
              /\ b.configs[c] \in MapsTo(Keys, Refs)
              /\ IsFiniteSet(DOMAIN b.configs[c])
              /\ DOMAIN b.configs[c] \subseteq Keys
              /\ \A k \in DOMAIN b.configs[c] : b.configs[c][k] \in Refs
<1>1. b.configs \in MapsTo(Configs, MapsTo(Keys, Refs))
  BY DEF Bundles
<1>2. PICK D \in SUBSET Configs : IsFiniteSet(D) /\ b.configs \in [D -> MapsTo(Keys, Refs)]
  BY <1>1 DEF MapsTo
<1>3. ASSUME NEW map \in MapsTo(Keys, Refs)
      PROVE  /\ IsFiniteSet(DOMAIN map) /\ DOMAIN map \subseteq Keys
             /\ \A k \in DOMAIN map : map[k] \in Refs
  BY DEF MapsTo
<1> QED BY <1>2, <1>3

LEMMA EnvsType ==
  ASSUME NEW b \in Bundles
  PROVE  /\ IsFiniteSet(DOMAIN b.envs) /\ DOMAIN b.envs \subseteq Keys
         /\ \A k \in DOMAIN b.envs : b.envs[k] \in Refs
<1>1. b.envs \in MapsTo(Keys, Refs)
  BY DEF Bundles
<1> QED BY <1>1 DEF MapsTo

\* Finitely many secrets are needed.
LEMMA NeededFinite ==
  ASSUME NEW b \in Bundles
  PROVE  IsFiniteSet(Needed(b)) /\ Needed(b) \subseteq Keys
<1> DEFINE Lists     == {DOMAIN b.configs[c] : c \in DOMAIN b.configs}
           ByConfigs == UNION Lists
<1>1. IsFiniteSet(Lists)
  <2> DEFINE list == [c \in DOMAIN b.configs |-> DOMAIN b.configs[c]]
  <2>1. list \in Surjection(DOMAIN b.configs, Lists)
    BY DEF Surjection
  <2> QED BY <2>1, ConfigsType, FS_Surjection
<1>2. IsFiniteSet(ByConfigs)
  <2>1. \A list \in Lists : IsFiniteSet(list)
    BY ConfigsType
  <2> HIDE DEF Lists
  <2> QED BY <1>1, <2>1, FS_UNION
<1>3. IsFiniteSet(DOMAIN b.envs \cup ByConfigs)
  BY <1>2, EnvsType, FS_Union
<1>4. Needed(b) = DOMAIN b.envs \cup ByConfigs
  BY ConfigsType DEF Needed, UsersOf
<1>5. DOMAIN b.envs \cup ByConfigs \subseteq Keys
  BY ConfigsType, EnvsType
<1> QED BY <1>3, <1>4, <1>5

\* A reference that b gives the secret k.
GivenBy(b, k, r) ==
  IF UsersOf(k, b) = {} THEN r = b.envs[k] ELSE \E c \in UsersOf(k, b) : r = b.configs[c][k]

\* In every order each secret that is needed has a reference that b gives it.
LEMMA SecretOf ==
  ASSUME NEW b \in Bundles, NEW place \in RangeOrders(b), NEW k \in Needed(b)
  PROVE  LET r == SecretsToGet(b, place)[k] IN r \in Refs /\ GivenBy(b, k, r)
<1> DEFINE most == Cardinality(DOMAIN b.configs)
<1>1. most \in Nat /\ \A c \in DOMAIN b.configs : place[c] \in 1 .. most
  BY ConfigsType, FS_CardinalityType DEF RangeOrders
<1> HIDE DEF most
<1>2. CASE UsersOf(k, b) = {}
  <2>1. k \in DOMAIN b.envs
    BY <1>2 DEF Needed
  <2> QED BY <1>2, <2>1, EnvsType DEF SecretsToGet, GivenBy
<1>3. CASE UsersOf(k, b) # {}
  <2> DEFINE last == CHOOSE c \in UsersOf(k, b) :
                       \A d \in UsersOf(k, b) : place[d] <= place[c]
  <2>1. \A c \in UsersOf(k, b) : place[c] \in 1 .. most
    BY <1>1 DEF UsersOf
  <2>2. \E c \in UsersOf(k, b) : \A d \in UsersOf(k, b) : place[d] <= place[c]
    BY <1>1, <1>3, <2>1, LastExists
  <2>3. last \in UsersOf(k, b)
    BY <2>2
  <2>4. SecretsToGet(b, place)[k] = b.configs[last][k]
    BY <1>3 DEF SecretsToGet
  <2> HIDE DEF last
  <2>5. b.configs[last][k] \in Refs
    BY <2>3, ConfigsType DEF UsersOf
  <2> QED BY <1>3, <2>3, <2>4, <2>5 DEF GivenBy
<1> QED BY <1>2, <1>3

\* In every order they make a map from secrets to references.
LEMMA SecretsToGetType ==
  ASSUME NEW b \in Bundles, NEW place \in RangeOrders(b)
  PROVE  SecretsToGet(b, place) \in MapsTo(Keys, Refs)
<1>1. \A k \in Needed(b) : SecretsToGet(b, place)[k] \in Refs
  BY SecretOf
<1>2. SecretsToGet(b, place) \in [Needed(b) -> Refs]
  BY <1>1 DEF SecretsToGet
<1> QED BY <1>2, NeededFinite DEF MapsTo

LEMMA ExpectedType ==
  ASSUME NEW b \in Bundles, b.store # None, NEW o \in CreateExpectedExternalSecret(b)
  PROVE  o \in ExternalSecretSpecs
<1>1. PICK place \in RangeOrders(b) :
        o = [data |-> Sorted(SecretsToGet(b, place)), store |-> b.store]
  BY DEF CreateExpectedExternalSecret
<1> DEFINE secrets == SecretsToGet(b, place)
<1>2. secrets \in MapsTo(Keys, Refs)
  BY SecretsToGetType
<1> HIDE DEF secrets
<1>3. Sorted(secrets) \in Seq(Keys \X Refs)
  BY <1>2, SortedByKey, ExternalSecretsAssumption
<1>4. b.store \in Stores
  BY DEF Bundles
<1> QED BY <1>1, <1>3, <1>4 DEF ExternalSecretSpecs, secrets

(***************************************************************************)
(* What CreateExpectedExternalSecret (secrets.go) makes of a bundle has    *)
(* every secret that its envs and configs need, each with a reference that *)
(* the bundle gives it, in whatever order Go goes through the configs.     *)
(***************************************************************************)
THEOREM ExpectedProvides ==
  ASSUME NEW b \in Bundles, NEW o \in MaySay(b)
  PROVE  Provides(o, b)
<1>1. CASE Needed(b) = {}
  BY <1>1 DEF MaySay, Provides
<1>2. CASE Needed(b) # {}
  <2>1. b.store # None /\ o \in CreateExpectedExternalSecret(b)
    BY <1>2 DEF MaySay
  <2>2. o # None
    BY <2>1, ExpectedType, ExternalSecretsAssumption
  <2>3. PICK place \in RangeOrders(b) :
          o = [data |-> Sorted(SecretsToGet(b, place)), store |-> b.store]
    BY <2>1 DEF CreateExpectedExternalSecret
  <2> DEFINE secrets == SecretsToGet(b, place)
  <2>4. DOMAIN secrets = Needed(b)
    BY DEF SecretsToGet
  <2>5. \A k \in Needed(b) : secrets[k] \in Refs /\ GivenBy(b, k, secrets[k])
    BY SecretOf
  <2>6. secrets \in MapsTo(Keys, Refs)
    BY SecretsToGetType
  <2> HIDE DEF secrets
  <2>7. ToSet(Sorted(secrets)) = {<<k, secrets[k]>> : k \in DOMAIN secrets}
    BY <2>6, SortedByKey, ExternalSecretsAssumption
  <2>8. o.data = Sorted(secrets) /\ o.store = b.store
    BY <2>3 DEF secrets
  <2>9. \A k \in Needed(b) :
          \E r \in Refs : <<k, r>> \in ToSet(o.data) /\ GivenBy(b, k, r)
    BY <2>4, <2>5, <2>7, <2>8
  <2> QED BY <1>2, <2>2, <2>8, <2>9 DEF Provides, GivenBy
<1> QED BY <1>1, <1>2

(***************************************************************************)
(* Where no two configs give a secret different references the order in    *)
(* which Go goes through the configs (secrets.go) makes no difference.     *)
(***************************************************************************)
THEOREM OrderIrrelevant ==
  ASSUME NEW b \in Bundles, Unambiguous(b), NEW o1 \in MaySay(b), NEW o2 \in MaySay(b)
  PROVE  o1 = o2
<1>1. CASE Needed(b) = {}
  BY <1>1 DEF MaySay
<1>2. CASE Needed(b) # {}
  <2>1. /\ o1 \in CreateExpectedExternalSecret(b)
        /\ o2 \in CreateExpectedExternalSecret(b)
    BY <1>2 DEF MaySay
  <2>2. PICK p1 \in RangeOrders(b) :
          o1 = [data |-> Sorted(SecretsToGet(b, p1)), store |-> b.store]
    BY <2>1 DEF CreateExpectedExternalSecret
  <2>3. PICK p2 \in RangeOrders(b) :
          o2 = [data |-> Sorted(SecretsToGet(b, p2)), store |-> b.store]
    BY <2>1 DEF CreateExpectedExternalSecret
  <2>4. ASSUME NEW k \in Needed(b)
        PROVE  SecretsToGet(b, p1)[k] = SecretsToGet(b, p2)[k]
    <3>1. /\ GivenBy(b, k, SecretsToGet(b, p1)[k])
          /\ GivenBy(b, k, SecretsToGet(b, p2)[k])
      BY SecretOf
    <3>2. k \in Keys
      BY NeededFinite
    <3> QED BY <3>1, <3>2 DEF GivenBy, Unambiguous
  <2>5. /\ SecretsToGet(b, p1) = [k \in Needed(b) |-> SecretsToGet(b, p1)[k]]
        /\ SecretsToGet(b, p2) = [k \in Needed(b) |-> SecretsToGet(b, p2)[k]]
    BY DEF SecretsToGet
  <2>6. SecretsToGet(b, p1) = SecretsToGet(b, p2)
    BY <2>4, <2>5
  <2> QED BY <2>2, <2>3, <2>6
<1> QED BY <1>1, <1>2

-----------------------------------------------------------------------------
(***************************************************************************)
(* What a pass decides, and what it does then.                             *)
(***************************************************************************)

LEMMA DiffersDecides ==
  ASSUME TypeOK, NEW n \in Names, NEW current, Differs(n, current)
  PROVE  /\ pc' = "deleteFirst" /\ at' = n
         /\ new' \in ExternalSecretSpecs /\ new' \in MaySay(bundle)
<1>1. bundle \in Bundles
  BY DEF TypeOK, UpsertTypeOK
<1>2. /\ Needed(bundle) # {} /\ bundle.store # None
      /\ new' \in CreateExpectedExternalSecret(bundle)
      /\ pc' = "deleteFirst" /\ at' = n
  BY DEF Differs
<1> QED BY <1>1, <1>2, ExpectedType DEF MaySay

\* Either way of deciding.
Decides(n) == Reconcile(n) \/ ReconcileUnread(n)

LEMMA DecidesStep ==
  ASSUME TypeOK, InHand, NEW n \in Names, Decides(n)
  PROVE  /\ pc \in Between /\ pc' \in Steps /\ at' = n
         /\ new' \in ExternalSecretSpecs \cup {None} /\ new' \in MaySay(bundle)
         /\ pc' = "delete" => new' = None
         /\ UNCHANGED <<userVars, live, cached, pending, crashes>>
         /\ UNCHANGED faults \/ Fault
         /\ er' \in {"nil", "notFound", "error"}
<1>1. CASE Needed(bundle) = {} /\ pc' = "delete" /\ at' = n /\ UNCHANGED new /\ Reconcile(n)
  BY <1>1 DEF Reconcile, InHand, MaySay, Steps, apiVars
<1>2. CASE Differs(n, cached[n]) /\ Reconcile(n)
  BY <1>2, DiffersDecides DEF Reconcile, Steps, apiVars
<1>3. CASE ReconcileUnread(n)
  BY <1>3, DiffersDecides DEF ReconcileUnread, Steps
<1> QED BY <1>1, <1>2, <1>3 DEF Decides, Reconcile

\* The Delete that comes first is a call that the server always takes.
LEMMA DeleteFirstCalls ==
  ASSUME TypeOK, DeleteFirst
  PROVE  /\ pc = "deleteFirst"
         /\ Call(TRUE, at, None, UpsertStep)
         /\ UpsertStep \in {"update", "create", "backoff"}
         /\ UNCHANGED <<userVars, cached, crashes, er>>
<1>1. UpsertStep \in {"update", "create", "backoff"}
  BY DEF TypeOK, UpsertStep
<1>2. Call(TRUE, at, None, UpsertStep)
  BY DEF DeleteFirst, Call
<1> QED BY <1>1, <1>2 DEF DeleteFirst

\* The steps of a pass that has decided.
Acts == DeleteFirst \/ UpsertResource

(***************************************************************************)
(* They write what is in hand to the name of the pass, or None; and a pass *)
(* that goes on has the same in hand.                                      *)
(***************************************************************************)
LEMMA ActsWrites ==
  ASSUME TypeOK, InHand, Places, Acts
  PROVE  /\ pc \notin Between /\ at \in Names
         /\ pc' \in {"idle", "backoff", "create", "update"}
         /\ pc' \in Between => new' = None
         /\ pc' \notin Between => UNCHANGED <<at, new>>
         /\ DOMAIN live' = Names
         /\ UNCHANGED userVars
         /\ \/ UNCHANGED live
            \/ live' = [live EXCEPT ![at] = new]
            \/ live' = [live EXCEPT ![at] = None]
<1>1. CASE DeleteFirst
  <2>1. /\ pc = "deleteFirst"
        /\ Call(TRUE, at, None, UpsertStep)
        /\ UpsertStep \in {"update", "create", "backoff"}
        /\ UNCHANGED userVars
    BY <1>1, DeleteFirstCalls
  <2>2. UNCHANGED live \/ live' = [live EXCEPT ![at] = None]
    BY <2>1 DEF Call, Put
  <2>3. Goto(UpsertStep) \/ Goto("backoff")
    BY <2>1 DEF Call
  <2>4. /\ pc' \in {"create", "update", "backoff"}
        /\ pc' \in Between => new' = None
        /\ pc' \notin Between => UNCHANGED <<at, new>>
    BY <2>1, <2>3 DEF Goto, Between
  <2>5. pc \notin Between /\ at \in Names
    BY <2>1 DEF InHand, Between
  <2> QED BY <2>1, <2>2, <2>4, <2>5 DEF Places
<1>2. CASE UpsertResource
  <2>1. /\ pc \in {"create", "update", "delete"}
        /\ Goto("idle") \/ Goto("backoff")
        /\ UNCHANGED userVars
        /\ \/ UNCHANGED live
           \/ live' = [live EXCEPT ![at] = new]
           \/ live' = [live EXCEPT ![at] = None]
    BY <1>2 DEF UpsertResource, Create, Update, Delete, Call, Put
  <2> QED BY <2>1 DEF Goto, Between, Places, AtName
<1> QED BY <1>1, <1>2 DEF Acts

-----------------------------------------------------------------------------
LEMMA InitIInv == Init => IInv
<1> SUFFICES ASSUME Init PROVE IInv
  OBVIOUS
<1>1. bundle \in Bundles /\ live \in [Names -> ExternalSecretSpecs \cup {None}]
  BY ExternalSecretsAssumption DEF Init
<1>2. TypeOK
  BY <1>1, LagAssumption
  DEF Init, UpsertInit, TypeOK, UpsertTypeOK, UpsertSteps, Between
<1> QED
  BY <1>1, <1>2 DEF Init, UpsertInit, IInv, Places, Informed, InHand, Between, AtName

LEMMA ActsType ==
  ASSUME TypeOK, InHand, Places, Acts
  PROVE  TypeOK'
<1>0. UpsertTypeOK(Bundles, ExternalSecretSpecs, Steps)
  BY DEF TypeOK, Steps
<1>1. {"idle", "create", "update", "backoff"} \subseteq UpsertSteps \cup Steps
  BY DEF UpsertSteps, Between
<1>2. CASE DeleteFirst
  <2>1. at \in Names
    BY <1>2 DEF DeleteFirst, InHand
  <2>2. UpsertStep \in UpsertSteps \cup Steps
    BY <1>1, <1>2, DeleteFirstCalls
  <2>3. UpsertTypeOK(Bundles, ExternalSecretSpecs, Steps)'
    BY <1>0, <1>2, <2>1, <2>2, DeleteFirstCalls, CallType
  <2> QED BY <1>2, <2>3, DeleteFirstCalls DEF TypeOK, Steps
<1>3. CASE UpsertResource
  <2>1. UpsertTypeOK(Bundles, ExternalSecretSpecs, Steps)'
    BY <1>0, <1>1, <1>3, UpsertStepType DEF UpsertResource
  <2> QED BY <1>3, <2>1 DEF UpsertResource, TypeOK, Steps
<1> QED BY <1>2, <1>3 DEF Acts

LEMMA NextTyped ==
  ASSUME IInv, [Next]_vars
  PROVE  TypeOK' /\ Places' /\ InHand'
<1>0. /\ UpsertTypeOK(Bundles, ExternalSecretSpecs, Steps)
      /\ TypeOK /\ Places /\ InHand
  BY DEF IInv, TypeOK, Steps
<1>1. CASE Edit /\ UNCHANGED er
  <2>1. TypeOK'
    BY <1>0, <1>1, EditType, ExternalSecretsAssumption DEF TypeOK, Steps
  <2> QED BY <1>0, <1>1, <2>1 DEF Edit, apiVars, passVars, Places, InHand
<1>2. ASSUME NEW n \in Names, Drift(n), UNCHANGED er PROVE TypeOK' /\ Places' /\ InHand'
  <2>1. Put(n, None) /\ UNCHANGED passVars
    BY <1>2 DEF Drift
  <2>2. TypeOK'
    BY <1>0, <1>2, DriftType DEF TypeOK, Steps
  <2>3. DOMAIN live' = Names
    BY <1>0, <2>1, PutElsewhere DEF Places
  <2> QED BY <1>0, <2>1, <2>2, <2>3 DEF passVars, Places, InHand
<1>3. ASSUME NEW n \in Names, WatchExternalSecret(n) PROVE TypeOK' /\ Places' /\ InHand'
  <2>1. TypeOK'
    BY <1>0, <1>3, WatchType DEF WatchExternalSecret, TypeOK, Steps
  <2> QED
    BY <1>0, <1>3, <2>1 DEF WatchExternalSecret, Watch, passVars, Places, InHand
<1>4. ASSUME NEW n \in Names, Decides(n) PROVE TypeOK' /\ Places' /\ InHand'
  <2>1. /\ pc' \in Steps /\ at' = n
        /\ new' \in ExternalSecretSpecs \cup {None}
        /\ pc' = "delete" => new' = None
        /\ UNCHANGED <<userVars, live, cached, pending, crashes>>
        /\ UNCHANGED faults \/ Fault
        /\ er' \in {"nil", "notFound", "error"}
    BY <1>0, <1>4, DecidesStep
  <2>2. faults' \in Nat
    BY <1>0, <2>1 DEF Fault, UpsertTypeOK
  <2>3. TypeOK'
    BY <1>0, <2>1, <2>2 DEF userVars, TypeOK, UpsertTypeOK, Steps
  <2> QED
    BY <1>0, <2>1, <2>3 DEF Steps, Between, Places, AtName, InHand
<1>5. CASE Acts
  <2>1. /\ pc' \in {"idle", "backoff", "create", "update"}
        /\ pc' \in Between => new' = None
        /\ pc' \notin Between => at' = at /\ at \in Names
        /\ DOMAIN live' = Names
    BY <1>0, <1>5, ActsWrites
  <2>2. TypeOK'
    BY <1>0, <1>5, ActsType
  <2> QED BY <2>1, <2>2 DEF Places, AtName, InHand, Between
<1>6. CASE Restart /\ UNCHANGED er
  <2>1. TypeOK'
    BY <1>0, <1>6, RestartType DEF TypeOK, Steps
  <2> QED
    BY <1>0, <1>6, <2>1 DEF Restart, Goto, Between, Places, AtName, InHand
<1>7. CASE UNCHANGED vars
  BY <1>0, <1>7
  DEF vars, upsertVars, userVars, apiVars, passVars, TypeOK, UpsertTypeOK,
      Places, InHand
<1> QED
  BY <1>1, <1>2, <1>3, <1>4, <1>5, <1>6, <1>7
  DEF Next, ReconcileExternalSecret, Decides, Acts

LEMMA NextInformed ==
  ASSUME IInv, [Next]_vars
  PROVE  Informed'
<1>0. /\ UpsertTypeOK(Bundles, ExternalSecretSpecs, Steps)
      /\ TypeOK /\ Places /\ Informed /\ InHand
  BY DEF IInv, TypeOK, Steps
<1>1. CASE UNCHANGED <<live, cached, pending>>
  BY <1>0, <1>1 DEF Informed
<1>2. CASE Edit \/ UNCHANGED vars
  BY <1>1, <1>2 DEF Edit, vars, upsertVars, apiVars
<1>3. ASSUME NEW n \in Names, Drift(n) PROVE Informed'
  BY <1>0, <1>3, PutInformed DEF Drift, UpsertTypeOK
<1>4. ASSUME NEW n \in Names, WatchExternalSecret(n) PROVE Informed'
  BY <1>0, <1>4, WatchInformed DEF WatchExternalSecret, UpsertTypeOK
<1>5. ASSUME NEW n \in Names, Decides(n) PROVE Informed'
  BY <1>0, <1>1, <1>5, DecidesStep
<1>6. CASE DeleteFirst
  <2>1. at \in Names
    BY <1>0, <1>6 DEF DeleteFirst, InHand
  <2> QED BY <1>0, <1>6, <2>1, DeleteFirstCalls, CallInformed
<1>7. CASE UpsertResource
  BY <1>0, <1>7, UpsertStepInformed DEF UpsertResource
<1>8. CASE Restart
  BY <1>8 DEF Restart, Informed
<1> QED
  BY <1>2, <1>3, <1>4, <1>5, <1>6, <1>7, <1>8
  DEF Next, ReconcileExternalSecret, Decides

LEMMA Inductive == Spec => []IInv
<1>1. IInv /\ [Next]_vars => IInv'
  BY NextTyped, NextInformed DEF IInv
<1> QED BY <1>1, InitIInv, PTL DEF Spec

(***************************************************************************)
(* Bundles, ExternalSecrets, caches and what passes have in hand keep      *)
(* their types, whatever the order in which Go goes through a map.         *)
(***************************************************************************)
THEOREM TypeCorrect == Spec => []TypeOK
<1>1. IInv => TypeOK
  BY DEF IInv
<1> QED BY <1>1, Inductive, PTL

-----------------------------------------------------------------------------
\* What is as expected does not differ.
LEMMA SameDerives ==
  ASSUME NEW o \in ExternalSecretSpecs
  PROVE  DeepDerivative(o, o)
<1>1. o # None
  BY ExternalSecretsAssumption
<1>2. o.data \in Seq(Keys \X Refs)
  BY DEF ExternalSecretSpecs
<1>3. IsPrefix(o.data, o.data)
  BY <1>2 DEF IsPrefix
<1> QED BY <1>1, <1>3 DEF DeepDerivative

\* A pass finds nothing to do where the bundle says one thing and that is there.
LEMMA NothingDiffers ==
  ASSUME TypeOK, NEW n \in Names, MaySay(bundle) = {cached[n]}
  PROVE  ~Reconcile(n)
<1>0. bundle \in Bundles
  BY DEF TypeOK, UpsertTypeOK
<1>1. CASE Needed(bundle) = {}
  BY <1>1 DEF MaySay, Reconcile, Differs
<1>2. CASE Needed(bundle) # {} /\ bundle.store = None
  BY <1>2 DEF Reconcile, Differs
<1>3. CASE Needed(bundle) # {} /\ bundle.store # None
  <2>1. CreateExpectedExternalSecret(bundle) = {cached[n]}
    BY <1>3 DEF MaySay
  <2>2. cached[n] \in ExternalSecretSpecs
    BY <1>0, <1>3, <2>1, ExpectedType
  <2>3. \A expected \in CreateExpectedExternalSecret(bundle) : DeepDerivative(expected, cached[n])
    BY <2>1, <2>2, SameDerives
  <2> QED BY <1>3, <2>3 DEF Reconcile, Differs
<1> QED BY <1>1, <1>2, <1>3

\* No step but a user's is one that disturbs what has settled.
LEMMA SettledStep ==
  ASSUME IInv, Settled, Next, UNCHANGED <<bundle, edits>>
  PROVE  Settled' /\ UNCHANGED live
<1>0. /\ TypeOK /\ edits \in Nat /\ faults \in Nat /\ MaySay(bundle') = MaySay(bundle)
      /\ pc \in Between /\ faults = MaxFaults
      /\ \A n \in Names : /\ pending[n] = <<>> /\ cached[n] = live[n]
                           /\ MaySay(bundle) = {live[n]}
  BY DEF IInv, TypeOK, UpsertTypeOK, Settled, Informed
<1>1. CASE Edit \/ \E n \in Names : Drift(n)
  <2>1. edits' = edits + 1
    BY <1>1 DEF Edit, Drift, UserStep
  <2> QED BY <1>0, <2>1
<1>2. ASSUME NEW n \in Names, WatchExternalSecret(n) PROVE FALSE
  BY <1>0, <1>2 DEF WatchExternalSecret, Watch
<1>3. ASSUME NEW n \in Names, Reconcile(n) PROVE FALSE
  BY <1>0, <1>3, NothingDiffers
<1>4. ASSUME NEW n \in Names, ReconcileUnread(n) PROVE FALSE
  BY <1>0, <1>4 DEF ReconcileUnread, Fault
<1>5. CASE Acts
  BY <1>0, <1>5 DEF Acts, DeleteFirst, UpsertResource, Create, Update, Delete, Between
<1>6. CASE Restart
  BY <1>0, <1>6 DEF Restart, Goto, Between, Settled
<1> QED
  BY <1>1, <1>2, <1>3, <1>4, <1>5, <1>6 DEF Next, ReconcileExternalSecret, Acts

\* Every step is one of FollowedBundle, or none.
LEMMA Follows ==
  ASSUME IInv, [Next]_vars
  PROVE  [Following!Next]_(Following!vars)
<1>0. TypeOK /\ Places /\ InHand
  BY DEF IInv
<1>1. ASSUME Next, UNCHANGED <<bundle, edits>>,
             \/ Following!Take \/ Following!Finish
             \/ \E n \in Names : Following!Write(n) \/ Following!Replace(n)
      PROVE  Following!Next
  <2>1. MaySay(bundle') = MaySay(bundle)
    BY <1>1
  <2> QED BY <1>1, <2>1, SettledStep DEF Following!Operator, Following!Next
<1>2. CASE Edit
  BY <1>2 DEF Edit, UserStep, apiVars, passVars, Following!User, Following!Next
<1>3. ASSUME NEW n \in Names, Drift(n) PROVE Following!Next
  BY <1>3 DEF Drift, UserStep, Put, passVars, Following!User, Following!Next
<1>4. ASSUME Next, NEW n \in Names, Decides(n) PROVE Following!Next
  <2>1. /\ pc \in Between /\ pc' \notin Between
        /\ new' \in MaySay(bundle)
        /\ UNCHANGED <<bundle, edits, live>>
    BY <1>0, <1>4, DecidesStep DEF userVars, Steps, Between
  <2>2. Following!Take
    BY <2>1 DEF Following!Take
  <2> QED BY <1>1, <1>4, <2>1, <2>2
<1>5. CASE Next /\ Acts
  <2>1. /\ pc \notin Between /\ at \in Names
        /\ pc' \notin Between => new' = new
        /\ UNCHANGED <<bundle, edits>>
        /\ \/ UNCHANGED live
           \/ live' = [live EXCEPT ![at] = new]
           \/ live' = [live EXCEPT ![at] = None]
    BY <1>0, <1>5, ActsWrites DEF userVars
  <2>2. CASE UNCHANGED live
    <3>1. Following!Finish
      BY <2>1, <2>2 DEF Following!Finish
    <3> QED BY <1>1, <1>5, <2>1, <3>1
  <2>3. CASE live' = [live EXCEPT ![at] = new]
    <3>1. Following!Write(at)
      BY <2>1, <2>3 DEF Following!Write
    <3> QED BY <1>1, <1>5, <2>1, <3>1
  <2>4. CASE live' = [live EXCEPT ![at] = None]
    <3>1. Following!Replace(at)
      BY <2>1, <2>4 DEF Following!Replace
    <3> QED BY <1>1, <1>5, <2>1, <3>1
  <2> QED BY <2>1, <2>2, <2>3, <2>4
<1>6. CASE Next /\ ((\E n \in Names : WatchExternalSecret(n)) \/ Restart)
  <2>1. Following!Finish /\ UNCHANGED <<bundle, edits>>
    BY <1>6
    DEF WatchExternalSecret, Watch, Restart, Goto, Between, userVars, passVars,
        Following!Finish
  <2> QED BY <1>1, <1>6, <2>1
<1>7. CASE UNCHANGED vars
  BY <1>7
  DEF vars, upsertVars, userVars, apiVars, passVars, Settled, Following!vars
<1> QED
  BY <1>2, <1>3, <1>4, <1>5, <1>6, <1>7
  DEF Next, ReconcileExternalSecret, Decides, Acts

(***************************************************************************)
(* ReconcileExternalSecret implements FollowedBundle: what it creates is   *)
(* what the pass took the bundle to say, with a Delete, lost answers and   *)
(* edits in between, and in whatever order the configs were gone through;  *)
(* and what is there as the bundle says, in the one way it can be read, is *)
(* not deleted to be created anew when no call fails.                      *)
(***************************************************************************)
THEOREM ImplementsFollowedBundle == Spec => FollowsBundle
<1>1. Init => Following!Init
  BY DEF Init, UpsertInit, Between, Following!Init
<1>2. IInv /\ [Next]_vars => [Following!Next]_(Following!vars)
  BY Follows
<1> QED
  BY <1>1, <1>2, Inductive, PTL DEF Spec, FollowsBundle, Following!Spec
=============================================================================
