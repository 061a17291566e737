---------------------------- MODULE ApiKeysProofs ----------------------------
(***************************************************************************)
(* Theorems about ApiKeys, for any number of keys, saves, failures and     *)
(* crashes, and either store.                                              *)
(*                                                                         *)
(* What operators are told holds where saves do not overlap (limit = 1):   *)
(* then the save under way, if there is one, carries the registry as it is *)
(* now, so that the store is either as it was or what verify() says.       *)
(***************************************************************************)
EXTENDS ApiKeys, FiniteSetTheorems, TLAPS

-----------------------------------------------------------------------------
(* Stored registries *)

LEMMA StoredType ==
    /\ \A S \in SUBSET Keys : \A f \in [S -> BOOLEAN] : f \in Stored
    /\ \A f \in Stored : DOMAIN f \subseteq Keys /\ f \in [DOMAIN f -> BOOLEAN]
    /\ NoKeys \in Stored /\ DOMAIN NoKeys = {}
  BY DEF Stored, NoKeys

\* nothing refers to a key or a save that is not there yet
Past ==
    /\ \A n \in 0 .. MaxSaves : DOMAIN files[n].keys \subseteq 1 .. issued
    /\ \A r \in rows : r.key <= issued
    /\ \A s \in saves : /\ s.key <= issued
                        /\ s.keys \subseteq 1 .. issued
                        /\ DOMAIN s.data \subseteq 1 .. issued
                        /\ s.at = "inserted" => DOMAIN s.data = s.keys
    /\ \A k \in Keys : told[k] # "unsure" => k <= issued
    /\ temp <= saved /\ path <= saved
    /\ \A s \in saves : s.id <= saved

\* transactions that have inserted their rows have no key in common with each
\* other or with rows they leave in the table
Apart ==
    \A s \in saves : s.at = "inserted" =>
        /\ Clash(s) = {}
        /\ \A t \in saves : t.at = "inserted" /\ t.keys \cap s.keys # {} => t = s

Typed ==
    /\ TypeOK
    /\ IsFiniteSet(saves)
    /\ Past
    /\ Apart

LEMMA LoadableType ==
    ASSUME Typed
    PROVE  Loadable \in Stored /\ DOMAIN Loadable \subseteq 1 .. issued
  <1>1. FileKeys \in Stored /\ DOMAIN FileKeys \subseteq 1 .. issued
    <2>1. CASE path # 0 /\ files[path].state = "whole"
      <3>1. files[path] \in Content
        BY DEF Typed, TypeOK
      <3> QED
        BY <2>1, <3>1 DEF FileKeys, Content, Typed, TypeOK, Past
    <2>2. CASE ~(path # 0 /\ files[path].state = "whole")
      BY <2>2, StoredType DEF FileKeys
    <2> QED
      BY <2>1, <2>2
  <1>2. TableKeys \in Stored /\ DOMAIN TableKeys \subseteq 1 .. issued
    <2> DEFINE S == {r.key : r \in rows}
    <2>1. S \in SUBSET Keys /\ S \subseteq 1 .. issued
      BY DEF Typed, TypeOK, Row, Past, Keys
    <2>2. TableKeys \in [S -> BOOLEAN]
      BY DEF TableKeys
    <2> QED
      BY <2>1, <2>2, StoredType
  <1> QED
    BY <1>1, <1>2 DEF Loadable

LEMMA FieldsType ==
    ASSUME Typed, NEW s \in saves
    PROVE  Fields(s) \in Stored /\ DOMAIN Fields(s) = s.keys
  <1>1. s.keys \in SUBSET Keys /\ admin \in [Keys -> BOOLEAN]
    BY DEF Typed, TypeOK, Save
  <1>2. Fields(s) \in [s.keys -> BOOLEAN]
    BY <1>1 DEF Fields
  <1> QED
    BY <1>1, <1>2, StoredType

LEMMA StatusType ==
    ASSUME NEW keys \in Stored, NEW k
    PROVE  StatusIn(keys, k) \in Status
  BY StoredType DEF StatusIn, Status

LEMMA VerifiedType ==
    ASSUME Typed, NEW k
    PROVE  Verified(k) \in Status
  BY DEF Verified, StatusIn, Status

-----------------------------------------------------------------------------
(* How the set of saves changes *)

LEMMA BegunType ==
    ASSUME Typed, NEW who \in {"operator", "usage", "boot"}, NEW k \in 0 .. MaxKeys,
           Begun(who, k), records' \subseteq 1 .. issued', issued' \in 0 .. MaxKeys,
           issued <= issued', k <= issued', phase' # "down",
           \A j \in Keys : told'[j] # "unsure" => told[j] # "unsure",
           UNCHANGED <<store, limit>>
    PROVE  /\ saves' \subseteq Save
           /\ IsFiniteSet(saves')
           /\ Cardinality(saves') <= limit'
           /\ saved' \in 0 .. MaxSaves
           /\ Past'
           /\ Apart'
  <1> DEFINE new == [id |-> saved + 1, by |-> who, key |-> k, keys |-> Listed,
                     at |-> "begun", data |-> NoKeys, file |-> 0, hold |-> {}]
  <1>1. saves' = saves \cup {new} /\ saved' = saved + 1 /\ MayBegin
    BY DEF Begun
  <1>2. saved \in 0 .. MaxSaves /\ MaxSaves \in Nat /\ issued \in Nat /\ limit \in Nat
    BY BoundsAreNumbers, LimitsAreNumbers DEF Typed, TypeOK
  <1>3. saved' \in 0 .. MaxSaves /\ new.id \in 1 .. MaxSaves
    BY <1>1, <1>2 DEF MayBegin
  <1>4. Listed \in SUBSET Keys
    BY <1>2, BoundsAreNumbers DEF Listed, Keys
  <1>5. new \in Save
    <2>1. {} \in SUBSET Row /\ 0 \in 0 .. MaxSaves
      BY <1>2
    <2> QED
      BY <1>3, <1>4, <2>1, StoredType DEF Save
  <1>6. IsFiniteSet(saves') /\ Cardinality(saves') <= limit'
    <2>1. IsFiniteSet(saves) /\ Cardinality(saves) \in Nat /\ Cardinality(saves) < limit
      BY <1>1, FS_CardinalityType DEF Typed, MayBegin
    <2> HIDE DEF new
    <2>2. IsFiniteSet(saves \cup {new})
          /\ Cardinality(saves \cup {new}) \in {Cardinality(saves), Cardinality(saves) + 1}
      BY <2>1, FS_AddElement
    <2> QED
      BY <1>1, <1>2, <2>1, <2>2
  <1>7. /\ new.key = k /\ new.keys = records' /\ new.at = "begun" /\ DOMAIN new.data = {}
        /\ new.id = saved + 1
    BY StoredType DEF Listed
  <1> HIDE DEF new
  <1>8. Past'
    <2>0. files' = files /\ rows' = rows /\ temp' = temp /\ path' = path
      BY DEF store
    <2>1. \A n \in 0 .. MaxSaves : DOMAIN files'[n].keys \subseteq 1 .. issued'
      BY <1>2 DEF Typed, Past, store
    <2>2. \A r \in rows' : r.key <= issued'
      BY <1>2 DEF Typed, TypeOK, Row, Keys, Past, store
    <2>3. \A s \in saves : /\ s.key <= issued'
                           /\ s.keys \subseteq 1 .. issued'
                           /\ DOMAIN s.data \subseteq 1 .. issued'
                           /\ s.id <= saved + 1
      BY <1>2 DEF Typed, TypeOK, Save, Past
    <2>4. \A j \in Keys : told'[j] # "unsure" => j <= issued'
      BY <1>2 DEF Typed, Past, Keys
    <2>5. temp' <= saved' /\ path' <= saved'
      BY <1>1, <1>2 DEF Typed, TypeOK, Past, store
    <2>6. ASSUME NEW s \in saves'
          PROVE  /\ s.key <= issued'
                 /\ s.keys \subseteq 1 .. issued'
                 /\ DOMAIN s.data \subseteq 1 .. issued'
                 /\ s.at = "inserted" => DOMAIN s.data = s.keys
                 /\ s.id <= saved'
      <3>1. CASE s \in saves
        BY <1>1, <2>3, <3>1 DEF Typed, Past
      <3>2. CASE s = new
        <4>1. s.key <= issued' /\ s.keys \subseteq 1 .. issued' /\ s.at # "inserted"
          BY <1>7, <3>2
        <4>2. DOMAIN s.data = {}
          BY <1>7, <3>2
        <4>3. s.id <= saved'
          BY <1>1, <1>2, <1>7, <3>2
        <4> QED
          BY <4>1, <4>2, <4>3
      <3> QED
        BY <1>1, <3>1, <3>2
    <2> QED
      BY <2>1, <2>2, <2>4, <2>5, <2>6 DEF Past
  <1>9. Apart'
    BY <1>1, <1>7 DEF Typed, Apart, Clash, store
  <1> QED
    BY <1>1, <1>3, <1>5, <1>6, <1>8, <1>9 DEF Typed, TypeOK

LEMMA EndedType ==
    ASSUME Typed, NEW s \in saves, Ended(s), saved' = saved
    PROVE  /\ saves' \subseteq saves
           /\ IsFiniteSet(saves')
           /\ Cardinality(saves') <= limit'
  <1>1. saves' = saves \ {s} /\ limit' = limit
    BY DEF Ended
  <1>2. IsFiniteSet(saves) /\ Cardinality(saves) \in Nat /\ limit \in Nat
    BY FS_CardinalityType, LimitsAreNumbers DEF Typed, TypeOK
  <1>3. IsFiniteSet(saves \ {s}) /\ Cardinality(saves \ {s}) <= Cardinality(saves)
    <2>1. saves \ {s} \in SUBSET saves
      OBVIOUS
    <2> QED
      BY <1>2, <2>1, FS_Subset
  <1>4. Cardinality(saves \ {s}) \in Nat
    BY <1>3, FS_CardinalityType
  <1> QED
    BY <1>1, <1>2, <1>3, <1>4 DEF Typed, TypeOK

LEMMA MovedType ==
    ASSUME Typed, NEW s \in saves, NEW t \in Save, Moved(s, t)
    PROVE  /\ saves' \subseteq Save
           /\ IsFiniteSet(saves')
           /\ Cardinality(saves') <= limit'
  <1>1. saves' = (saves \ {s}) \cup {t} /\ limit' = limit
    BY DEF Moved
  <1>2. IsFiniteSet(saves) /\ Cardinality(saves) \in Nat /\ limit \in Nat
        /\ Cardinality(saves) <= limit /\ saves \subseteq Save
    BY FS_CardinalityType, LimitsAreNumbers DEF Typed, TypeOK
  <1>3. IsFiniteSet(saves \ {s}) /\ Cardinality(saves \ {s}) = Cardinality(saves) - 1
    BY <1>2, FS_RemoveElement
  <1>4. IsFiniteSet((saves \ {s}) \cup {t})
        /\ Cardinality((saves \ {s}) \cup {t}) \in {Cardinality(saves) - 1, Cardinality(saves)}
    <2> DEFINE rest == saves \ {s}
    <2>1. IsFiniteSet(rest) /\ Cardinality(rest) = Cardinality(saves) - 1
      BY <1>3
    <2> HIDE DEF rest
    <2>2. IsFiniteSet(rest \cup {t})
          /\ Cardinality(rest \cup {t}) \in {Cardinality(rest), Cardinality(rest) + 1}
      BY <2>1, FS_AddElement
    <2>3. Cardinality(rest) + 1 = Cardinality(saves)
      BY <1>2, <2>1
    <2>4. Cardinality(rest \cup {t}) \in {Cardinality(saves) - 1, Cardinality(saves)}
      BY <2>1, <2>2, <2>3
    <2> QED
      BY <2>2, <2>4 DEF rest
  <1> QED
    BY <1>1, <1>2, <1>4

-----------------------------------------------------------------------------
(* Every step keeps the types *)

LEMMA InitTyped == Init => Typed
  <1> SUFFICES ASSUME Init PROVE Typed
    OBVIOUS
  <1>1. Truncated \in Content /\ DOMAIN Truncated.keys = {}
    BY StoredType DEF Truncated, Content
  <1>2. IsFiniteSet(saves) /\ Cardinality(saves) = 0
    BY FS_EmptySet DEF Init
  <1>3. files \in [0 .. MaxSaves -> Content]
    BY <1>1 DEF Init
  <1>4. told \in [Keys -> Status] /\ admin \in [Keys -> BOOLEAN]
    BY DEF Init, Status
  <1>5. limit \in Limits /\ Cardinality(saves) <= limit
    BY <1>2, LimitsAreNumbers DEF Init
  <1>6. TypeOK
    <2>1. /\ backend \in Backends /\ phase \in {"down", "seeding", "up"}
          /\ records = {} /\ issued = 0 /\ saves = {} /\ saved = 0 /\ temp = 0 /\ path = 0
          /\ rows = {} /\ blind \in BOOLEAN
      BY DEF Init
    <2> QED
      BY <1>3, <1>4, <1>5, <2>1, BoundsAreNumbers DEF TypeOK
  <1>7. Past
    BY <1>1, BoundsAreNumbers DEF Init, Past
  <1>8. Apart
    BY DEF Init, Apart
  <1> QED
    BY <1>2, <1>6, <1>7, <1>8 DEF Typed

LEMMA AskedTyped ==
    ASSUME Typed, NEW k \in Keys, Asked(k), phase = "up",
           records' \subseteq 1 .. issued', issued' \in 0 .. MaxKeys,
           issued <= issued', k <= issued', admin' \in [Keys -> BOOLEAN]
    PROVE  Typed'
  <1>1. k \in 0 .. MaxKeys /\ phase' = "up" /\ UNCHANGED <<store, limit>> /\ Begun("operator", k)
    BY BoundsAreNumbers DEF Asked, Keys
  <1>2. told \in [Keys -> Status] /\ told' = [told EXCEPT ![k] = "unsure"]
    BY DEF Typed, TypeOK, Asked
  <1>3. told' \in [Keys -> Status] /\ \A j \in Keys : told'[j] # "unsure" => told[j] # "unsure"
    BY <1>2 DEF Status
  <1>4. /\ saves' \subseteq Save
        /\ IsFiniteSet(saves')
        /\ Cardinality(saves') <= limit'
        /\ saved' \in 0 .. MaxSaves
        /\ Past'
        /\ Apart'
    BY <1>1, <1>3, BegunType
  <1> QED
    BY <1>1, <1>3, <1>4 DEF Typed, TypeOK, Asked, store

LEMMA RequestTyped ==
    ASSUME Typed, Request
    PROVE  Typed'
  <1>1. records \subseteq 1 .. issued /\ issued \in 0 .. MaxKeys /\ MaxKeys \in Nat
        /\ admin \in [Keys -> BOOLEAN] /\ phase = "up"
    BY BoundsAreNumbers DEF Typed, TypeOK, Request
  <1>2. ASSUME NEW isAdmin \in BOOLEAN, Create(isAdmin) PROVE Typed'
    <2>1. PICK k \in Keys : k = issued + 1 /\ issued' = k /\ Asked(k)
      BY <1>1, <1>2 DEF Create, Keys
    <2>2. records' \subseteq 1 .. issued' /\ admin' \in [Keys -> BOOLEAN]
      BY <1>1, <1>2, <2>1 DEF Create
    <2>3. issued' \in 0 .. MaxKeys /\ issued <= issued' /\ k <= issued'
      BY <1>1, <2>1 DEF Keys
    <2> QED
      BY <1>1, <2>1, <2>2, <2>3, AskedTyped
  <1>3. ASSUME NEW k \in Keys, NEW isAdmin \in BOOLEAN, Update(k, isAdmin) PROVE Typed'
    <2>1. issued' = issued /\ records' = records /\ k <= issued /\ Asked(k)
      BY <1>1, <1>3 DEF Update
    <2>2. admin' \in [Keys -> BOOLEAN]
      BY <1>1, <1>3 DEF Update
    <2> QED
      BY <1>1, <2>1, <2>2, AskedTyped
  <1>4. ASSUME NEW k \in Keys, Revoke(k) PROVE Typed'
    <2>1. issued' = issued /\ records' \subseteq records /\ k <= issued /\ Asked(k) /\ admin' = admin
      BY <1>1, <1>4 DEF Revoke
    <2> QED
      BY <1>1, <2>1, AskedTyped
  <1> QED
    BY <1>2, <1>3, <1>4 DEF Request

LEMMA BootTyped ==
    ASSUME Typed, BootLoads \/ BootSeeds \/ BootBlind \/ Restart \/ KeyUsed
    PROVE  Typed'
  <1>1. issued \in 0 .. MaxKeys /\ MaxKeys \in Nat /\ admin \in [Keys -> BOOLEAN]
        /\ records \subseteq 1 .. issued
    BY BoundsAreNumbers DEF Typed, TypeOK
  <1>2. CASE BootLoads
    <2>1. DOMAIN Loadable \subseteq 1 .. issued /\ \A k \in DOMAIN Loadable : Loadable[k] \in BOOLEAN
      BY LoadableType, StoredType
    <2>2. admin' \in [Keys -> BOOLEAN]
      BY <1>2, <2>1 DEF BootLoads
    <2>3. TypeOK'
      BY <1>2, <2>1, <2>2 DEF Typed, TypeOK, BootLoads, store
    <2>4. Past' /\ Apart' /\ IsFiniteSet(saves')
      BY <1>2 DEF Typed, Past, Apart, Clash, BootLoads, store
    <2> QED
      BY <2>3, <2>4 DEF Typed
  <1>3. CASE BootSeeds
    <2>1. /\ issued' = issued + 1 /\ records' = {issued + 1} /\ issued + 1 \in Keys
          /\ phase' = "seeding" /\ Begun("boot", 0)
          /\ UNCHANGED <<backend, limit, store, told, blind>>
      BY <1>1, <1>3 DEF BootSeeds, Keys
    <2>2. admin' \in [Keys -> BOOLEAN] /\ records' \subseteq 1 .. issued' /\ issued' \in 0 .. MaxKeys
          /\ issued <= issued' /\ 0 \in 0 .. MaxKeys /\ 0 <= issued'
      BY <1>1, <1>3, <2>1 DEF BootSeeds, Keys
    <2>3. /\ saves' \subseteq Save
          /\ IsFiniteSet(saves')
          /\ Cardinality(saves') <= limit'
          /\ saved' \in 0 .. MaxSaves
          /\ Past'
          /\ Apart'
      BY <2>1, <2>2, BegunType
    <2>4. TypeOK'
      BY <2>1, <2>2, <2>3 DEF Typed, TypeOK, store
    <2> QED
      BY <2>3, <2>4 DEF Typed
  <1>4. CASE BootBlind
    <2>1. TypeOK'
      BY <1>4 DEF Typed, TypeOK, BootBlind, registry, store
    <2>2. Past' /\ Apart' /\ IsFiniteSet(saves')
      BY <1>4 DEF Typed, Past, Apart, Clash, BootBlind, registry, store
    <2> QED
      BY <2>1, <2>2 DEF Typed
  <1>5. CASE Restart
    <2>1. IsFiniteSet({}) /\ Cardinality({}) = 0
      BY FS_EmptySet
    <2>2. limit \in Nat
      BY LimitsAreNumbers DEF Typed, TypeOK
    <2>3. TypeOK'
      BY <1>5, <2>1, <2>2 DEF Typed, TypeOK, Restart, store
    <2>4. Past' /\ Apart' /\ IsFiniteSet(saves')
      BY <1>5, <2>1 DEF Typed, Past, Apart, Clash, Restart, store
    <2> QED
      BY <2>3, <2>4 DEF Typed
  <1>6. CASE KeyUsed
    <2>1. UNCHANGED <<registry, store, backend, limit, phase, told, blind>> /\ phase = "up"
          /\ Begun("usage", 0)
      BY <1>6 DEF KeyUsed
    <2>2. records' \subseteq 1 .. issued' /\ issued' \in 0 .. MaxKeys /\ issued <= issued'
          /\ 0 \in 0 .. MaxKeys /\ 0 <= issued' /\ phase' # "down"
          /\ UNCHANGED <<store, limit, told>>
      BY <1>1, <2>1 DEF registry
    <2>3. /\ saves' \subseteq Save
          /\ IsFiniteSet(saves')
          /\ Cardinality(saves') <= limit'
          /\ saved' \in 0 .. MaxSaves
          /\ Past'
          /\ Apart'
      BY <2>1, <2>2, BegunType
    <2>4. TypeOK'
      BY <2>1, <2>2, <2>3 DEF Typed, TypeOK, registry, store
    <2> QED
      BY <2>3, <2>4 DEF Typed
  <1> QED
    BY <1>2, <1>3, <1>4, <1>5, <1>6

\* The step of a save that goes on.
LEMMA MoveTyped ==
    ASSUME Typed, NEW s \in saves, NEW t \in Save, Moved(s, t),
           t.id = s.id, t.key = s.key, t.keys = s.keys,
           DOMAIN t.data \subseteq 1 .. issued,
           t.at = "inserted" => /\ DOMAIN t.data = t.keys
                                /\ Clash(t) = {}
                                /\ \A r \in saves \ {s} : r.at = "inserted" => r.keys \cap t.keys = {},
           files' \in [0 .. MaxSaves -> Content],
           \A n \in 0 .. MaxSaves : DOMAIN files'[n].keys \subseteq 1 .. issued,
           temp' \in 0 .. MaxSaves, temp' <= saved, UNCHANGED <<path, rows>>
    PROVE  Typed'
  <1>1. /\ saves' = (saves \ {s}) \cup {t}
        /\ UNCHANGED <<backend, limit, phase, registry, saved, told, blind, faults, restarts>>
    BY DEF Moved
  <1>2. phase # "down"
    BY DEF Typed, TypeOK
  <1>3. /\ saves' \subseteq Save
        /\ IsFiniteSet(saves')
        /\ Cardinality(saves') <= limit'
    BY MovedType
  <1>4. TypeOK'
    BY <1>1, <1>2, <1>3 DEF Typed, TypeOK, registry
  <1>5. ASSUME NEW r \in saves'
        PROVE  /\ r.key <= issued
               /\ r.keys \subseteq 1 .. issued
               /\ DOMAIN r.data \subseteq 1 .. issued
               /\ r.at = "inserted" => DOMAIN r.data = r.keys
               /\ r.id <= saved
    BY <1>1, <1>5 DEF Typed, Past
  <1>6. Past'
    BY <1>1, <1>5 DEF Typed, Past, registry
  <1>7. ASSUME NEW r \in saves', r.at = "inserted"
        PROVE  /\ Clash(r) = {}
               /\ \A q \in saves' : q.at = "inserted" /\ q.keys \cap r.keys # {} => q = r
    BY <1>1, <1>7 DEF Typed, Apart
  <1>8. Apart'
    BY <1>7 DEF Apart, Clash
  <1> QED
    BY <1>3, <1>4, <1>6, <1>8 DEF Typed

\* The end of a save that leaves the table alone.
LEMMA EndTyped ==
    ASSUME Typed, NEW s \in saves, Ended(s),
           told' \in [Keys -> Status],
           \A k \in Keys : told'[k] # "unsure" => k <= issued,
           files' \in [0 .. MaxSaves -> Content],
           \A n \in 0 .. MaxSaves : DOMAIN files'[n].keys \subseteq 1 .. issued,
           temp' \in 0 .. MaxSaves, temp' <= saved,
           path' \in 0 .. MaxSaves, path' <= saved, UNCHANGED rows
    PROVE  Typed'
  <1>1. /\ saves' = saves \ {s} /\ phase' = "up"
        /\ UNCHANGED <<backend, limit, registry, saved, blind, restarts>>
    BY DEF Ended
  <1>2. /\ saves' \subseteq saves
        /\ IsFiniteSet(saves')
        /\ Cardinality(saves') <= limit'
    BY <1>1, EndedType
  <1>3. TypeOK'
    BY <1>1, <1>2 DEF Typed, TypeOK, registry
  <1>4. Past'
    BY <1>1 DEF Typed, Past, registry
  <1>5. Apart'
    BY <1>1 DEF Typed, Apart, Clash
  <1> QED
    BY <1>2, <1>3, <1>4, <1>5 DEF Typed

LEMMA AnswerType ==
    ASSUME Typed, NEW s \in saves, Answer(s)
    PROVE  /\ told' \in [Keys -> Status]
           /\ \A k \in Keys : told'[k] # "unsure" => k <= issued
  <1> DEFINE heard == IF s.by = "operator" THEN {s.key} ELSE IF s.by = "boot" THEN s.keys ELSE {}
  <1> DEFINE clear == heard \ {t.key : t \in saves \ {s}}
  <1>1. told' = [k \in Keys |-> IF k \in clear THEN Verified(k) ELSE told[k]]
    BY DEF Answer
  <1>2. s.key <= issued /\ s.keys \subseteq 1 .. issued /\ issued \in Nat
    BY DEF Typed, TypeOK, Past
  <1>3. \A k \in heard : k <= issued
    BY <1>2
  <1>4. \A k \in clear : k <= issued
    BY <1>3
  <1> HIDE DEF clear
  <1>5. told \in [Keys -> Status] /\ \A k \in Keys : told[k] # "unsure" => k <= issued
    BY DEF Typed, TypeOK, Past
  <1> QED
    BY <1>1, <1>4, <1>5, VerifiedType

LEMMA RejectedTyped ==
    ASSUME Typed, NEW s \in saves, Rejected(s)
    PROVE  Typed'
  <1>1. Ended(s) /\ UNCHANGED <<files, temp, path, rows, told>>
    BY DEF Rejected, store
  <1>2. /\ told \in [Keys -> Status] /\ files \in [0 .. MaxSaves -> Content]
        /\ temp \in 0 .. MaxSaves /\ path \in 0 .. MaxSaves
    BY DEF Typed, TypeOK
  <1>3. /\ \A k \in Keys : told[k] # "unsure" => k <= issued
        /\ \A n \in 0 .. MaxSaves : DOMAIN files[n].keys \subseteq 1 .. issued
        /\ temp <= saved /\ path <= saved
    BY DEF Typed, Past
  <1> QED
    BY <1>1, <1>2, <1>3, EndTyped

LEMMA FileStepTyped ==
    ASSUME Typed, NEW s \in saves,
           OpenTemp(s) \/ WriteTemp(s) \/ RenameTemp(s) \/ NothingToRename(s)
    PROVE  Typed'
  <1>1. /\ s \in Save /\ files \in [0 .. MaxSaves -> Content]
        /\ temp \in 0 .. MaxSaves /\ path \in 0 .. MaxSaves /\ MaxSaves \in Nat
        /\ \A n \in 0 .. MaxSaves : DOMAIN files[n].keys \subseteq 1 .. issued
        /\ temp <= saved /\ path <= saved /\ s.id <= saved
        /\ DOMAIN s.data \subseteq 1 .. issued /\ s.keys \subseteq 1 .. issued
    BY BoundsAreNumbers DEF Typed, TypeOK, Past
  <1>2. /\ Truncated \in Content /\ DOMAIN Truncated.keys = {}
        /\ Mixed \in Content /\ DOMAIN Mixed.keys = {}
    BY StoredType DEF Truncated, Mixed, Content
  <1>3. s.id \in 0 .. MaxSaves /\ s.file \in 0 .. MaxSaves /\ s.data \in Stored
    BY <1>1 DEF Save
  <1>4. CASE OpenTemp(s)
    <2> DEFINE t == [s EXCEPT !.at = "opened", !.data = Fields(s), !.file = Opens(s)]
    <2>1. Opens(s) \in 0 .. MaxSaves /\ Opens(s) <= saved
      BY <1>1, <1>3 DEF Opens
    <2>2. Fields(s) \in Stored /\ DOMAIN Fields(s) = s.keys
      BY FieldsType
    <2>3. t \in Save
      BY <1>1, <2>1, <2>2 DEF Save
    <2>4. t.id = s.id /\ t.key = s.key /\ t.keys = s.keys /\ t.data = Fields(s) /\ t.at = "opened"
      BY <1>1 DEF Save
    <2>5. Moved(s, t)
      BY <1>4 DEF OpenTemp
    <2>6. files' \in [0 .. MaxSaves -> Content]
          /\ \A n \in 0 .. MaxSaves : DOMAIN files'[n].keys \subseteq 1 .. issued
      BY <1>1, <1>2, <1>4, <2>1 DEF OpenTemp
    <2>7. temp' \in 0 .. MaxSaves /\ temp' <= saved /\ UNCHANGED <<path, rows>>
      BY <1>4, <2>1 DEF OpenTemp
    <2>8. PICK q \in Save : q = t
      BY <2>3
    <2>9. /\ Moved(s, q) /\ q.id = s.id /\ q.key = s.key /\ q.keys = s.keys
          /\ DOMAIN q.data \subseteq 1 .. issued /\ q.at = "opened"
      BY <1>1, <2>2, <2>4, <2>5, <2>8
    <2> HIDE DEF t
    <2> QED
      BY <2>6, <2>7, <2>9, MoveTyped
  <1>5. CASE WriteTemp(s)
    <2> DEFINE t == [s EXCEPT !.at = "written"]
    <2>1. t \in Save /\ t.id = s.id /\ t.key = s.key /\ t.keys = s.keys /\ t.data = s.data
          /\ t.at = "written"
      BY <1>1 DEF Save
    <2>2. Moved(s, t) /\ UNCHANGED <<temp, path, rows>>
      BY <1>5 DEF WriteTemp
    <2>3. Whole(s.data) \in Content /\ Whole(s.data).keys = s.data
      BY <1>3 DEF Whole, Content
    <2>4. PICK content \in Content : /\ DOMAIN content.keys \subseteq 1 .. issued
                                     /\ files' = [files EXCEPT ![s.file] = content]
      BY <1>1, <1>2, <1>5, <2>3 DEF WriteTemp, Overwritten
    <2>5. files' \in [0 .. MaxSaves -> Content]
          /\ \A n \in 0 .. MaxSaves : DOMAIN files'[n].keys \subseteq 1 .. issued
      BY <1>1, <2>4
    <2> HIDE DEF t
    <2> QED
      BY <1>1, <2>1, <2>2, <2>5, MoveTyped
  <1>6. CASE RenameTemp(s)
    <2>1. Ended(s) /\ Answer(s) /\ path' = temp /\ temp' = 0 /\ UNCHANGED rows
          /\ files' = Unlinked(s, path)
      BY <1>6 DEF RenameTemp, Resolved
    <2>2. files' = files \/ files' = [files EXCEPT ![path] = Truncated]
      BY <2>1 DEF Unlinked
    <2>3. files' \in [0 .. MaxSaves -> Content]
          /\ \A n \in 0 .. MaxSaves : DOMAIN files'[n].keys \subseteq 1 .. issued
      BY <1>1, <1>2, <2>2
    <2>4. 0 \in 0 .. MaxSaves /\ 0 <= saved
      BY <1>1 DEF Typed, TypeOK
    <2> QED
      BY <1>1, <2>1, <2>3, <2>4, AnswerType, EndTyped
  <1>7. CASE NothingToRename(s)
    BY <1>7, RejectedTyped DEF NothingToRename
  <1> QED
    BY <1>4, <1>5, <1>6, <1>7

LEMMA TableStepTyped ==
    ASSUME Typed, NEW s \in saves,
           IssueDelete(s) \/ Delete(s) \/ Insert(s) \/ InsertFails(s) \/ Commit(s)
    PROVE  Typed'
  <1>1. /\ s \in Save /\ files \in [0 .. MaxSaves -> Content]
        /\ temp \in 0 .. MaxSaves /\ path \in 0 .. MaxSaves
        /\ \A n \in 0 .. MaxSaves : DOMAIN files[n].keys \subseteq 1 .. issued
        /\ temp <= saved /\ path <= saved
        /\ DOMAIN s.data \subseteq 1 .. issued /\ s.keys \subseteq 1 .. issued
        /\ rows \subseteq Row
    BY DEF Typed, TypeOK, Past
  <1>2. ASSUME NEW t \in Save, Moved(s, t), UNCHANGED store,
               t.id = s.id, t.key = s.key, t.keys = s.keys,
               DOMAIN t.data \subseteq 1 .. issued,
               t.at = "inserted" => /\ DOMAIN t.data = t.keys
                                    /\ Clash(t) = {}
                                    /\ \A r \in saves \ {s} : r.at = "inserted" => r.keys \cap t.keys = {}
        PROVE  Typed'
    <2>1. UNCHANGED <<files, temp, path, rows>>
      BY <1>2 DEF store
    <2> QED
      BY <1>1, <1>2, <2>1, MoveTyped
  <1>3. CASE IssueDelete(s)
    <2> DEFINE t == [s EXCEPT !.at = "deleting", !.hold = rows]
    <2>1. t \in Save /\ t.id = s.id /\ t.key = s.key /\ t.keys = s.keys /\ t.data = s.data
          /\ t.at = "deleting"
      BY <1>1 DEF Save
    <2>2. Moved(s, t) /\ UNCHANGED store
      BY <1>3 DEF IssueDelete
    <2>3. PICK q \in Save : q = t
      BY <2>1
    <2> HIDE DEF t
    <2> QED
      BY <1>1, <1>2, <2>1, <2>2, <2>3
  <1>4. CASE Delete(s)
    <2> DEFINE t == [s EXCEPT !.at = "deleted", !.hold = s.hold \cap rows]
    <2>1. t \in Save /\ t.id = s.id /\ t.key = s.key /\ t.keys = s.keys /\ t.data = s.data
          /\ t.at = "deleted"
      BY <1>1 DEF Save
    <2>2. Moved(s, t) /\ UNCHANGED store
      BY <1>4 DEF Delete
    <2>3. PICK q \in Save : q = t
      BY <2>1
    <2> HIDE DEF t
    <2> QED
      BY <1>1, <1>2, <2>1, <2>2, <2>3
  <1>5. CASE Insert(s)
    <2> DEFINE t == [s EXCEPT !.at = "inserted", !.data = Fields(s)]
    <2>1. Fields(s) \in Stored /\ DOMAIN Fields(s) = s.keys
      BY FieldsType
    <2>2. t \in Save /\ t.id = s.id /\ t.key = s.key /\ t.keys = s.keys /\ t.data = Fields(s)
          /\ t.at = "inserted" /\ t.hold = s.hold
      BY <1>1, <2>1 DEF Save
    <2>3. Moved(s, t) /\ UNCHANGED store
      BY <1>5 DEF Insert
    <2>4. PICK q \in Save : q = t
      BY <2>2
    <2>5. Clash(q) = {}
      BY <1>5, <2>2, <2>4 DEF Insert, Clash
    <2>6. \A r \in saves \ {s} : r.at = "inserted" => r.keys \cap q.keys = {}
      BY <1>5, <2>2, <2>4 DEF Insert, Undecided, Locking, Others
    <2> HIDE DEF t
    <2> QED
      BY <1>1, <1>2, <2>1, <2>2, <2>3, <2>4, <2>5, <2>6
  <1>6. CASE InsertFails(s)
    BY <1>6, RejectedTyped DEF InsertFails
  <1>7. CASE Commit(s)
    <2> DEFINE new == {[key |-> k, admin |-> s.data[k], by |-> s.id, of |-> s.keys] : k \in s.keys}
    <2>1. /\ s.at = "inserted" /\ rows' = (rows \ s.hold) \cup new
          /\ Ended(s) /\ Answer(s) /\ UNCHANGED <<files, temp, path>>
      BY <1>7 DEF Commit, Resolved, Inserted
    <2>2. DOMAIN s.data = s.keys /\ Clash(s) = {}
      BY <2>1 DEF Typed, Past, Apart
    <2>3. s.data \in [s.keys -> BOOLEAN] /\ s.keys \subseteq Keys /\ s.id \in 1 .. MaxSaves
      BY <1>1, <2>2, StoredType DEF Save
    <2>4. new \subseteq Row /\ \A r \in new : r.key \in s.keys
      BY <2>3 DEF Row
    <2>5. \A r, q \in new : r.key = q.key => r = q
      OBVIOUS
    <2> HIDE DEF new
    <2>6. \A r \in rows \ s.hold : r.key \notin s.keys
      BY <2>2 DEF Clash
    <2>7. \A r, q \in rows' : r.key = q.key => r = q
      BY <2>1, <2>4, <2>5, <2>6 DEF Typed, TypeOK
    <2>8. /\ saves' = saves \ {s} /\ phase' = "up"
          /\ UNCHANGED <<backend, limit, registry, saved, blind, restarts>>
      BY <2>1 DEF Ended
    <2>9. /\ IsFiniteSet(saves')
          /\ Cardinality(saves') <= limit'
      BY <2>1, <2>8, EndedType
    <2>10. told' \in [Keys -> Status] /\ \A k \in Keys : told'[k] # "unsure" => k <= issued
      BY <2>1, AnswerType
    <2>11. TypeOK'
      BY <1>1, <2>1, <2>4, <2>7, <2>8, <2>9, <2>10 DEF Typed, TypeOK, registry
    <2>12. \A r \in rows' : r.key <= issued
      BY <1>1, <2>1, <2>4 DEF Typed, TypeOK, Past
    <2>13. Past'
      BY <2>1, <2>8, <2>10, <2>12 DEF Typed, Past, registry
    <2>14. ASSUME NEW t \in saves', t.at = "inserted"
           PROVE  Clash(t)' = {}
      <3>1. t \in saves /\ t # s /\ Clash(t) = {} /\ t.keys \cap s.keys = {}
        BY <2>1, <2>8, <2>14 DEF Typed, Apart
      <3> QED
        BY <2>1, <2>4, <3>1 DEF Clash
    <2>15. Apart'
      BY <2>8, <2>14 DEF Typed, Apart
    <2> QED
      BY <2>9, <2>11, <2>13, <2>15 DEF Typed
  <1> QED
    BY <1>3, <1>4, <1>5, <1>6, <1>7

LEMMA NextTyped == Typed /\ [Next]_vars => Typed'
  <1> SUFFICES ASSUME Typed, [Next]_vars PROVE Typed'
    OBVIOUS
  <1>1. CASE UNCHANGED vars
    BY <1>1 DEF vars, Typed, TypeOK, Past, Apart, Clash
  <1>2. ASSUME NEW s \in saves, SaveStep(s) \/ CallFails(s) PROVE Typed'
    BY <1>2, FileStepTyped, TableStepTyped, RejectedTyped DEF SaveStep, CallFails
  <1> QED
    BY <1>1, <1>2, RequestTyped, BootTyped DEF Next

\* The state keeps its types, and the table its primary key, however many saves
\* overlap: a transaction never commits a row that another has committed while
\* it inserted its own.
THEOREM KeysTypeCorrect == Spec => []TypeOK
  <1>1. Typed => TypeOK
    BY DEF Typed
  <1> QED
    BY <1>1, InitTyped, NextTyped, PTL DEF Spec

-----------------------------------------------------------------------------
(* The table, however many saves overlap *)

\* the keys that the save `n` has in the table
KeysBy(n) == {q.key : q \in {q \in rows : q.by = n}}

\* A transaction deletes all rows of an earlier one or none of them, because it
\* takes its rows from one look at the table; and no save has rows before it ends.
Wholesale ==
    /\ \A s, t \in saves : s.id = t.id => s = t
    /\ \A r \in rows : r.by <= saved /\ KeysBy(r.by) = r.of
    /\ \A s \in saves : \A r \in rows : r.by # s.id
    /\ \A s, t \in saves : \A r \in t.hold : r.by # s.id
    /\ \A s \in saves : \A r \in s.hold : r.by <= saved
    /\ \A s \in saves : \A r, q \in rows : r.by = q.by => (r \in s.hold <=> q \in s.hold)

TableInv == Typed /\ Wholesale

\* A save that begins has a name of its own and holds nothing.
LEMMA BegunWholesale ==
    ASSUME TableInv, NEW n, rows' = rows, saves' = saves \cup {n}, saved' = saved + 1,
           n.id = saved + 1, n.hold = {}
    PROVE  Wholesale'
  <1>1. saved \in Nat /\ \A s \in saves : s.id <= saved /\ s.id \in Nat
    BY BoundsAreNumbers DEF TableInv, Typed, TypeOK, Past, Save
  <1>2. \A r \in rows : r.by \in Nat
    BY DEF TableInv, Typed, TypeOK, Row
  <1>3. \A s \in saves : \A r \in s.hold : r.by \in Nat
    BY DEF TableInv, Typed, TypeOK, Save, Row
  <1>4. \A s, t \in saves' : s.id = t.id => s = t
    BY <1>1 DEF TableInv, Wholesale
  <1>5. \A r \in rows' : r.by <= saved' /\ KeysBy(r.by)' = r.of
    BY <1>1, <1>2 DEF TableInv, Wholesale, KeysBy
  <1>6. \A s \in saves' : \A r \in rows' : r.by # s.id
    BY <1>1, <1>2 DEF TableInv, Wholesale
  <1>7. \A s, t \in saves' : \A r \in t.hold : r.by # s.id
    BY <1>1, <1>3 DEF TableInv, Wholesale
  <1>8. \A s \in saves' : \A r \in s.hold : r.by <= saved'
    BY <1>1, <1>3 DEF TableInv, Wholesale
  <1>9. \A s \in saves' : \A r, q \in rows' : r.by = q.by => (r \in s.hold <=> q \in s.hold)
    BY DEF TableInv, Wholesale
  <1> QED
    BY <1>4, <1>5, <1>6, <1>7, <1>8, <1>9 DEF Wholesale

\* A save that moves on holds what it held, the rows it sees, or those that are left.
LEMMA MovedWholesale ==
    ASSUME Wholesale, NEW s \in saves, NEW t, rows' = rows, saved' = saved,
           saves' = (saves \ {s}) \cup {t}, t.id = s.id,
           t.hold \in {s.hold, rows, s.hold \cap rows}
    PROVE  Wholesale'
  <1>1. \A u, v \in saves' : u.id = v.id => u = v
    BY DEF Wholesale
  <1>2. \A r \in rows' : r.by <= saved' /\ KeysBy(r.by)' = r.of
    BY DEF Wholesale, KeysBy
  <1>3. \A u \in saves' : \E v \in saves : u.id = v.id
    OBVIOUS
  <1>4. \A u \in saves' : \A r \in rows' : r.by # u.id
    BY <1>3 DEF Wholesale
  <1>5. \A r \in t.hold : r \in rows \/ r \in s.hold
    OBVIOUS
  <1>6. \A u, v \in saves' : \A r \in v.hold : r.by # u.id
    BY <1>3, <1>4, <1>5 DEF Wholesale
  <1>7. \A u \in saves' : \A r \in u.hold : r.by <= saved'
    BY <1>5 DEF Wholesale
  <1>8. \A u \in saves' : \A r, q \in rows' : r.by = q.by => (r \in u.hold <=> q \in u.hold)
    BY DEF Wholesale
  <1> QED
    BY <1>1, <1>2, <1>4, <1>6, <1>7, <1>8 DEF Wholesale

\* A save that ends without a commit leaves nothing behind.
LEMMA FewerWholesale ==
    ASSUME Wholesale, saves' \subseteq saves, rows' = rows, saved' = saved
    PROVE  Wholesale'
  BY DEF Wholesale, KeysBy

\* A commit replaces whole lists by a whole list.
LEMMA CommitWholesale ==
    ASSUME TableInv, NEW s \in saves, Commit(s)
    PROVE  Wholesale'
  <1>1. rows' = (rows \ s.hold) \cup Inserted(s) /\ saves' = saves \ {s} /\ saved' = saved
    BY DEF Commit, Resolved, Ended
  <1>2. s.id <= saved
    BY DEF TableInv, Typed, Past
  <1>3. /\ \A r \in Inserted(s) : r.by = s.id /\ r.of = s.keys /\ r.key \in s.keys
        /\ \A k \in s.keys : \E r \in Inserted(s) : r.key = k
    <2> DEFINE row(k) == [key |-> k, admin |-> s.data[k], by |-> s.id, of |-> s.keys]
    <2>1. \A k : row(k).key = k /\ row(k).by = s.id /\ row(k).of = s.keys
      OBVIOUS
    <2>2. Inserted(s) = {row(k) : k \in s.keys}
      BY DEF Inserted
    <2> HIDE DEF row
    <2> QED
      BY <2>1, <2>2
  <1>4. ASSUME NEW r \in rows' PROVE r.by <= saved' /\ KeysBy(r.by)' = r.of
    <2>1. CASE r \in Inserted(s)
      <3>1. {q \in rows' : q.by = r.by} = Inserted(s)
        BY <1>1, <1>3, <2>1 DEF TableInv, Wholesale
      <3>2. {q.key : q \in Inserted(s)} = s.keys
        BY <1>3
      <3> QED
        BY <1>1, <1>2, <1>3, <2>1, <3>1, <3>2 DEF KeysBy
    <2>2. CASE r \in rows \ s.hold
      <3>1. {q \in rows' : q.by = r.by} = {q \in rows : q.by = r.by}
        BY <1>1, <1>3, <2>2 DEF TableInv, Wholesale
      <3> QED
        BY <1>1, <2>2, <3>1 DEF TableInv, Wholesale, KeysBy
    <2> QED
      BY <1>1, <2>1, <2>2
  <1>5. \A t \in saves' : \A r \in rows' : r.by # t.id
    BY <1>1, <1>3 DEF TableInv, Wholesale
  <1>6. ASSUME NEW t \in saves', NEW r \in rows', NEW q \in rows', r.by = q.by
        PROVE  r \in t.hold <=> q \in t.hold
    <2>1. t \in saves /\ \A p \in t.hold : p.by # s.id
      BY <1>1 DEF TableInv, Wholesale
    <2>2. CASE r.by = s.id
      BY <1>6, <2>1, <2>2
    <2>3. CASE r.by # s.id
      BY <1>1, <1>3, <1>6, <2>1, <2>3 DEF TableInv, Wholesale
    <2> QED
      BY <2>2, <2>3
  <1>7. /\ \A t, u \in saves' : t.id = u.id => t = u
        /\ \A t, u \in saves' : \A r \in u.hold : r.by # t.id
        /\ \A t \in saves' : \A r \in t.hold : r.by <= saved'
    BY <1>1 DEF TableInv, Wholesale
  <1> QED
    BY <1>4, <1>5, <1>6, <1>7 DEF Wholesale

LEMMA BegunRecord ==
    ASSUME NEW who, NEW k, Begun(who, k)
    PROVE  \E n : /\ saves' = saves \cup {n} /\ saved' = saved + 1
                  /\ n.id = saved + 1 /\ n.hold = {}
  <1> DEFINE new == [id |-> saved + 1, by |-> who, key |-> k, keys |-> Listed,
                     at |-> "begun", data |-> NoKeys, file |-> 0, hold |-> {}]
  <1>1. saves' = saves \cup {new} /\ saved' = saved + 1
    BY DEF Begun
  <1>2. new.id = saved + 1 /\ new.hold = {}
    OBVIOUS
  <1> QED
    BY <1>1, <1>2

\* Whatever a save does, but for a commit.
LEMMA SaveWholesale ==
    ASSUME TableInv, NEW s \in saves, SaveStep(s) \/ CallFails(s)
    PROVE  Wholesale'
  <1> DEFINE Ends == saves' = saves \ {s} /\ rows' = rows /\ saved' = saved
             Moves(t) == Moved(s, t) /\ rows' = rows
  <1>1. s \in Save
    BY DEF TableInv, Typed, TypeOK
  <1>2. ASSUME NEW t, Moves(t), t.id = s.id, t.hold \in {s.hold, rows, s.hold \cap rows}
        PROVE  Wholesale'
    BY <1>2, MovedWholesale DEF TableInv, Moved
  <1>3. ASSUME Ends PROVE Wholesale'
    BY <1>3, FewerWholesale DEF TableInv
  <1>4. CASE OpenTemp(s)
    <2> DEFINE t == [s EXCEPT !.at = "opened", !.data = Fields(s), !.file = Opens(s)]
    <2>1. Moves(t) /\ t.id = s.id /\ t.hold = s.hold
      BY <1>1, <1>4 DEF OpenTemp, Save
    <2> QED
      BY <1>2, <2>1
  <1>5. CASE WriteTemp(s)
    <2> DEFINE t == [s EXCEPT !.at = "written"]
    <2>1. Moves(t) /\ t.id = s.id /\ t.hold = s.hold
      BY <1>1, <1>5 DEF WriteTemp, Save
    <2> QED
      BY <1>2, <2>1
  <1>6. CASE IssueDelete(s)
    <2> DEFINE t == [s EXCEPT !.at = "deleting", !.hold = rows]
    <2>1. Moves(t) /\ t.id = s.id /\ t.hold = rows
      BY <1>1, <1>6 DEF IssueDelete, Save, store
    <2> QED
      BY <1>2, <2>1
  <1>7. CASE Delete(s)
    <2> DEFINE t == [s EXCEPT !.at = "deleted", !.hold = s.hold \cap rows]
    <2>1. Moves(t) /\ t.id = s.id /\ t.hold = s.hold \cap rows
      BY <1>1, <1>7 DEF Delete, Save, store
    <2> QED
      BY <1>2, <2>1
  <1>8. CASE Insert(s)
    <2> DEFINE t == [s EXCEPT !.at = "inserted", !.data = Fields(s)]
    <2>1. Moves(t) /\ t.id = s.id /\ t.hold = s.hold
      BY <1>1, <1>8 DEF Insert, Save, store
    <2> QED
      BY <1>2, <2>1
  <1>9. CASE RenameTemp(s) \/ NothingToRename(s) \/ InsertFails(s) \/ CallFails(s)
    <2>1. Ends
      BY <1>9 DEF RenameTemp, NothingToRename, InsertFails, CallFails, Resolved, Rejected,
                  Ended, store
    <2> QED
      BY <1>3, <2>1
  <1> QED
    BY <1>4, <1>5, <1>6, <1>7, <1>8, <1>9, CommitWholesale DEF SaveStep

LEMMA NextWholesale == TableInv /\ [Next]_vars => Wholesale'
  <1> SUFFICES ASSUME TableInv, [Next]_vars PROVE Wholesale'
    OBVIOUS
  <1>1. CASE UNCHANGED vars
    BY <1>1, FewerWholesale DEF TableInv, vars
  <1>2. CASE BootLoads \/ BootBlind \/ Restart
    <2>1. saves' \subseteq saves /\ rows' = rows /\ saved' = saved
      BY <1>2 DEF BootLoads, BootBlind, Restart, store
    <2> QED
      BY <2>1, FewerWholesale DEF TableInv
  <1>3. CASE BootSeeds \/ Request \/ KeyUsed
    <2>1. rows' = rows /\ \E who, k : Begun(who, k)
      BY <1>3 DEF BootSeeds, Request, KeyUsed, Create, Update, Revoke, Asked, store
    <2> QED
      BY <2>1, BegunRecord, BegunWholesale
  <1> QED
    BY <1>1, <1>2, <1>3, SaveWholesale DEF Next

\* However many saves overlap, fail or are cut off by a crash, the table never has
\* a part of a list, and two lists only if they have no key in common.
THEOREM TableIsNeverHalfApplied == Spec => []NeverHalfApplied
  <1>1. Init => TableInv
    <2>1. Init => Wholesale
      BY DEF Init, Wholesale
    <2> QED
      BY <2>1, InitTyped DEF TableInv
  <1>2. TableInv /\ [Next]_vars => TableInv'
    BY NextTyped, NextWholesale DEF TableInv
  <1>3. TableInv => NeverHalfApplied
    <2> SUFFICES ASSUME TableInv, NEW r \in rows
                 PROVE  /\ KeysBy(r.by) = r.of
                        /\ \A q \in rows : q.by # r.by => q.of \cap r.of = {}
      BY DEF NeverHalfApplied, KeysBy
    <2>1. \A q \in rows : KeysBy(q.by) = q.of
      BY DEF TableInv, Wholesale
    <2>2. \A n : \A k \in KeysBy(n) : \E q \in rows : q.by = n /\ q.key = k
      BY DEF KeysBy
    <2>3. \A p, q \in rows : p.key = q.key => p = q
      BY DEF TableInv, Typed, TypeOK
    <2>4. \A q \in rows : q.by # r.by => q.of \cap r.of = {}
      BY <2>1, <2>2, <2>3
    <2> QED
      BY <2>1, <2>4
  <1> QED
    BY <1>1, <1>2, <1>3, PTL DEF Spec

-----------------------------------------------------------------------------
(* What operators are told, where saves do not overlap *)

\* what verify() answers from
Registry == [k \in records |-> admin[k]]

Alone == \A s, t \in saves : s = t

\* the file under the temporary name is not the registry
Placed == temp # 0 => temp # path

\* the save under way carries the registry as it is, and nobody else touches
\* what it works on
Current(s) ==
    /\ s.keys = records
    /\ s.at \in {"opened", "written", "inserted"} => s.data = Registry
    /\ s.at = "begun" => temp # s.id /\ path # s.id
    /\ s.at \in {"opened", "written"} => backend = "file" /\ s.file = temp /\ temp # 0
    /\ s.at = "opened" => files[temp].state = "empty"
    /\ s.at = "written" => files[temp] = Whole(s.data)
    /\ s.at \in {"deleting", "deleted", "inserted"} => backend = "postgres" /\ s.hold = rows

\* what the next boot makes of a key
InStore(k) == StatusIn(Loadable, k)

\* the state of a key is one that its operator may rely on
Agrees(heard, status, failed) ==
    /\ heard = "gone" => status = "gone"
    /\ heard = "user" => status \in {"gone", "user"}
    /\ ~failed /\ heard \in {"user", "admin"} => status = heard

Promised(k) ==
    /\ Agrees(told[k], InStore(k), blind)
    /\ phase # "down" => Agrees(told[k], Verified(k), blind)

One ==
    /\ Alone
    /\ Placed
    /\ \A s \in saves : Current(s)
    /\ \A k \in Keys : Promised(k)

KInv == Typed /\ (limit = 1 => One)

LEMMA SameRegistry ==
    ASSUME UNCHANGED <<records, admin>>
    PROVE  Registry' = Registry /\ \A k \in Keys : Verified(k)' = Verified(k)
  BY DEF Registry, Verified, StatusIn

LEMMA SameStore ==
    ASSUME UNCHANGED <<backend, path, rows>>, path # 0 => files'[path] = files[path]
    PROVE  Loadable' = Loadable /\ \A k \in Keys : InStore(k)' = InStore(k)
  <1>1. FileKeys' = FileKeys
    BY DEF FileKeys
  <1>2. TableKeys' = TableKeys
    BY DEF TableKeys
  <1>3. Loadable' = Loadable
    BY <1>1, <1>2 DEF Loadable
  <1> QED
    BY <1>3 DEF InStore, StatusIn

\* a save that moves on changes neither the registry nor what a boot would load
LEMMA MoveKept ==
    ASSUME Typed, One, NEW s \in saves, NEW t \in Save, Moved(s, t),
           UNCHANGED <<path, rows>>, path # 0 => files'[path] = files[path],
           Placed', Current(t)'
    PROVE  One'
  <1>1. /\ saves' = (saves \ {s}) \cup {t}
        /\ UNCHANGED <<backend, limit, phase, records, admin, issued, saved, told, blind>>
    BY DEF Moved, registry
  <1>2. saves' = {t}
    BY <1>1 DEF One, Alone
  <1>3. \A k \in Keys : Promised(k)'
    BY <1>1, SameRegistry, SameStore DEF One, Promised
  <1>4. \A r \in saves' : Current(r)'
    BY <1>2
  <1> QED
    BY <1>2, <1>3, <1>4 DEF One, Alone

\* a save that landed: what a boot would load is the registry
LEMMA LandedKept ==
    ASSUME Typed, One, NEW s \in saves, Resolved(s), Placed', Loadable' = Registry
    PROVE  One'
  <1>1. /\ saves' = saves \ {s} /\ phase' = "up"
        /\ UNCHANGED <<records, admin, blind>>
    BY DEF Resolved, Ended, registry
  <1>2. saves' = {}
    BY <1>1 DEF One, Alone
  <1>3. phase # "down"
    BY DEF Typed, TypeOK
  <1>4. ASSUME NEW k \in Keys PROVE Promised(k)'
    <2>1. Verified(k)' = Verified(k)
      BY <1>1, SameRegistry
    <2>2. InStore(k)' = Verified(k)
      BY DEF InStore, Verified, Registry, StatusIn
    <2>3. told'[k] = told[k] \/ told'[k] = Verified(k)
      BY DEF Resolved, Answer
    <2>4. Agrees(told[k], Verified(k), blind)
      BY <1>3 DEF One, Promised
    <2>5. Agrees(told'[k], Verified(k), blind)
      BY <2>3, <2>4 DEF Agrees
    <2> QED
      BY <1>1, <2>1, <2>2, <2>5 DEF Promised
  <1> QED
    BY <1>2, <1>4 DEF One, Alone

LEMMA RejectedKept ==
    ASSUME Typed, One, NEW s \in saves, Rejected(s)
    PROVE  One'
  <1>1. /\ saves' = saves \ {s} /\ phase' = "up"
        /\ UNCHANGED <<backend, records, admin, blind, files, temp, path, rows, told>>
    BY DEF Rejected, Ended, registry, store
  <1>2. saves' = {} /\ Placed'
    BY <1>1 DEF One, Alone, Placed
  <1>3. phase # "down"
    BY DEF Typed, TypeOK
  <1>4. \A k \in Keys : Promised(k)'
    BY <1>1, <1>3, SameRegistry, SameStore DEF One, Promised
  <1> QED
    BY <1>2, <1>4 DEF One, Alone

LEMMA FileStepKept ==
    ASSUME Typed, One, NEW s \in saves,
           OpenTemp(s) \/ WriteTemp(s) \/ RenameTemp(s) \/ NothingToRename(s)
    PROVE  One'
  <1>1. /\ s \in Save /\ files \in [0 .. MaxSaves -> Content]
        /\ temp \in 0 .. MaxSaves /\ path \in 0 .. MaxSaves /\ MaxSaves \in Nat
        /\ Current(s) /\ Placed
    BY BoundsAreNumbers DEF Typed, TypeOK, One
  <1>2. s.id \in 0 .. MaxSaves /\ s.id # 0 /\ s.file \in 0 .. MaxSaves
    BY <1>1 DEF Save
  <1>3. CASE OpenTemp(s)
    <2>1. /\ s.at = "begun" /\ backend = "file" /\ temp' = Opens(s)
          /\ files' = [files EXCEPT ![Opens(s)] = Truncated] /\ UNCHANGED <<path, rows>>
          /\ Moved(s, [s EXCEPT !.at = "opened", !.data = Fields(s), !.file = Opens(s)])
      BY <1>3 DEF OpenTemp
    <2>2. Opens(s) \in 0 .. MaxSaves /\ Opens(s) # 0 /\ Opens(s) # path
      BY <1>1, <1>2, <2>1 DEF Opens, Current, Placed
    <2>3. Fields(s) = Registry /\ Fields(s) \in Stored
      BY <1>1, FieldsType DEF Fields, Registry, Current
    <2>4. PICK t \in Save : t = [s EXCEPT !.at = "opened", !.data = Fields(s), !.file = Opens(s)]
      BY <1>1, <2>2, <2>3 DEF Save
    <2>5. t.keys = s.keys /\ t.data = Registry /\ t.file = Opens(s) /\ t.at = "opened"
      BY <1>1, <2>3, <2>4 DEF Save
    <2>6. Moved(s, t)
      BY <2>1, <2>4
    <2>7. UNCHANGED <<backend, records, admin>>
      BY <2>6 DEF Moved, registry
    <2>8. Placed' /\ (path # 0 => files'[path] = files[path])
      BY <1>1, <2>1, <2>2 DEF Placed
    <2>9. files'[temp'].state = "empty"
      BY <1>1, <2>1, <2>2 DEF Truncated
    <2>10. Current(t)'
      BY <1>1, <2>1, <2>2, <2>5, <2>7, <2>9, SameRegistry DEF Current
    <2> QED
      BY <2>1, <2>6, <2>8, <2>10, MoveKept
  <1>4. CASE WriteTemp(s)
    <2>1. /\ s.at = "opened" /\ backend = "file" /\ s.file = temp /\ temp # 0
          /\ files[temp].state = "empty" /\ s.data = Registry
          /\ UNCHANGED <<temp, path, rows>>
          /\ Moved(s, [s EXCEPT !.at = "written"])
      BY <1>1, <1>4 DEF WriteTemp, Current
    <2>2. files' = [files EXCEPT ![temp] = Whole(s.data)]
      BY <1>4, <2>1 DEF WriteTemp, Overwritten
    <2>3. PICK t \in Save : t = [s EXCEPT !.at = "written"]
      BY <1>1 DEF Save
    <2>4. t.keys = s.keys /\ t.data = s.data /\ t.file = temp /\ t.at = "written"
      BY <1>1, <2>1, <2>3 DEF Save
    <2>5. Moved(s, t)
      BY <2>1, <2>3
    <2>6. UNCHANGED <<backend, records, admin>>
      BY <2>5 DEF Moved, registry
    <2>7. Placed' /\ (path # 0 => files'[path] = files[path])
      BY <1>1, <2>1, <2>2 DEF Placed
    <2>8. files'[temp'] = Whole(t.data)
      BY <1>1, <2>1, <2>2, <2>4
    <2>9. Current(t)'
      BY <1>1, <2>1, <2>4, <2>6, <2>8, SameRegistry DEF Current, Whole
    <2> QED
      BY <2>1, <2>5, <2>7, <2>9, MoveKept
  <1>5. CASE RenameTemp(s)
    <2>1. /\ s.at = "written" /\ backend = "file" /\ temp # 0 /\ path' = temp /\ temp' = 0
          /\ files[temp] = Whole(Registry)
          /\ files' = Unlinked(s, path) /\ Resolved(s)
      BY <1>1, <1>5 DEF RenameTemp, Current
    <2>2. files' = files \/ files' = [files EXCEPT ![path] = Truncated]
      BY <2>1 DEF Unlinked
    <2>3. files'[temp] = Whole(Registry)
      BY <1>1, <2>1, <2>2 DEF Placed
    <2>4. backend' = "file"
      BY <2>1 DEF Resolved, Ended
    <2>5. Loadable' = Registry
      BY <2>1, <2>3, <2>4 DEF Loadable, FileKeys, Whole
    <2>6. Placed'
      BY <2>1 DEF Placed
    <2> QED
      BY <2>1, <2>5, <2>6, LandedKept
  <1>6. CASE NothingToRename(s)
    BY <1>6, RejectedKept DEF NothingToRename
  <1> QED
    BY <1>3, <1>4, <1>5, <1>6

LEMMA TableStepKept ==
    ASSUME Typed, One, NEW s \in saves,
           IssueDelete(s) \/ Delete(s) \/ Insert(s) \/ InsertFails(s) \/ Commit(s)
    PROVE  One'
  <1>1. s \in Save /\ Current(s) /\ Placed /\ rows \subseteq Row
    BY DEF Typed, TypeOK, One
  <1>2. ASSUME NEW t \in Save, Moved(s, t), UNCHANGED store, backend = "postgres",
               t.keys = records, t.at \in {"deleting", "deleted", "inserted"},
               t.at = "inserted" => t.data = Registry, t.hold = rows
        PROVE  One'
    <2>1. UNCHANGED <<backend, records, admin, files, temp, path, rows>>
      BY <1>2 DEF Moved, registry, store
    <2>2. Current(t)'
      BY <1>2, <2>1, SameRegistry DEF Current
    <2>3. Placed'
      BY <1>1, <2>1 DEF Placed
    <2> QED
      BY <1>2, <2>1, <2>2, <2>3, MoveKept
  <1>3. CASE IssueDelete(s)
    <2>1. PICK t \in Save : t = [s EXCEPT !.at = "deleting", !.hold = rows]
      BY <1>1 DEF Save
    <2>2. t.keys = s.keys /\ t.at = "deleting" /\ t.hold = rows
      BY <1>1, <2>1 DEF Save
    <2>3. Moved(s, t) /\ UNCHANGED store /\ backend = "postgres"
      BY <1>3, <2>1 DEF IssueDelete
    <2> QED
      BY <1>1, <1>2, <2>2, <2>3 DEF Current
  <1>4. CASE Delete(s)
    <2>1. PICK t \in Save : t = [s EXCEPT !.at = "deleted", !.hold = s.hold \cap rows]
      BY <1>1 DEF Save
    <2>2. s.at = "deleting" /\ s.hold = rows /\ backend = "postgres"
      BY <1>1, <1>4 DEF Delete, Current
    <2>3. t.keys = s.keys /\ t.at = "deleted" /\ t.hold = rows
      BY <1>1, <2>1, <2>2 DEF Save
    <2>4. Moved(s, t) /\ UNCHANGED store
      BY <1>4, <2>1 DEF Delete
    <2> QED
      BY <1>1, <1>2, <2>2, <2>3, <2>4 DEF Current
  <1>5. CASE Insert(s)
    <2>1. Fields(s) = Registry /\ Fields(s) \in Stored
      BY <1>1, FieldsType DEF Fields, Registry, Current
    <2>2. PICK t \in Save : t = [s EXCEPT !.at = "inserted", !.data = Fields(s)]
      BY <1>1, <2>1 DEF Save
    <2>3. s.at = "deleted" /\ s.hold = rows /\ backend = "postgres"
      BY <1>1, <1>5 DEF Insert, Current
    <2>4. t.keys = s.keys /\ t.at = "inserted" /\ t.hold = rows /\ t.data = Registry
      BY <1>1, <2>1, <2>2, <2>3 DEF Save
    <2>5. Moved(s, t) /\ UNCHANGED store
      BY <1>5, <2>2 DEF Insert
    <2> QED
      BY <1>1, <1>2, <2>3, <2>4, <2>5 DEF Current
  <1>6. CASE InsertFails(s)
    BY <1>6, RejectedKept DEF InsertFails
  <1>7. CASE Commit(s)
    <2>1. /\ s.at = "inserted" /\ s.hold = rows /\ backend = "postgres" /\ s.keys = records
          /\ s.data = Registry /\ Resolved(s) /\ UNCHANGED <<files, temp, path>>
          /\ rows' = (rows \ s.hold)
                     \cup {[key |-> k, admin |-> s.data[k], by |-> s.id, of |-> s.keys] : k \in s.keys}
      BY <1>1, <1>7 DEF Commit, Current, Inserted
    <2>2. rows' = {[key |-> k, admin |-> Registry[k], by |-> s.id, of |-> records] : k \in records}
      BY <2>1
    <2>3. Registry \in [records -> BOOLEAN] /\ DOMAIN Registry = records
      <3>1. records \subseteq Keys /\ admin \in [Keys -> BOOLEAN]
        BY BoundsAreNumbers DEF Typed, TypeOK, Keys
      <3> QED
        BY <3>1 DEF Registry
    <2> DEFINE row(k) == [key |-> k, admin |-> Registry[k], by |-> s.id, of |-> records]
    <2>4. /\ \A k \in records : row(k) \in rows'
          /\ \A r \in rows' : \E k \in records : r = row(k)
      BY <2>2
    <2>5. \A k : row(k).key = k /\ row(k).admin = Registry[k]
      OBVIOUS
    <2> HIDE DEF row
    <2>6. TableKeys' = Registry
      <3>1. {r.key : r \in rows'} = records
        BY <2>4, <2>5
      <3>2. \A k \in records : (\E r \in rows' : r.key = k /\ r.admin) <=> Registry[k]
        BY <2>4, <2>5
      <3>3. TableKeys' = [k \in records |-> \E r \in rows' : r.key = k /\ r.admin]
        BY <3>1 DEF TableKeys
      <3>4. ASSUME NEW k \in records
            PROVE  (\E r \in rows' : r.key = k /\ r.admin) = Registry[k]
        BY <2>3, <3>2
      <3>5. TableKeys' = [k \in records |-> Registry[k]]
        BY <3>3, <3>4
      <3> QED
        BY <2>3, <3>5
    <2>7. backend' = "postgres"
      BY <2>1 DEF Resolved, Ended
    <2>8. Loadable' = Registry
      BY <2>6, <2>7 DEF Loadable
    <2>9. Placed'
      BY <1>1, <2>1 DEF Placed
    <2> QED
      BY <2>1, <2>8, <2>9, LandedKept
  <1> QED
    BY <1>3, <1>4, <1>5, <1>6, <1>7

\* A save begins only when there is none, so that its list is the registry until
\* it ends.
LEMMA BegunAlone ==
    ASSUME Typed, limit = 1, One, NEW who, NEW k, Begun(who, k),
           UNCHANGED <<files, temp, path, rows>>
    PROVE  Alone' /\ Placed' /\ saves = {} /\ \A s \in saves' : Current(s)'
  <1>1. saves = {}
    <2>1. IsFiniteSet(saves) /\ Cardinality(saves) \in Nat /\ Cardinality(saves) < 1
      BY FS_CardinalityType DEF Typed, Begun, MayBegin
    <2> QED
      BY <2>1, FS_EmptySet
  <1> DEFINE new == [id |-> saved + 1, by |-> who, key |-> k, keys |-> Listed,
                     at |-> "begun", data |-> NoKeys, file |-> 0, hold |-> {}]
  <1>2. saves' = {new}
    BY <1>1 DEF Begun
  <1>3. new.keys = records' /\ new.at = "begun" /\ new.id = saved + 1
    BY DEF Listed
  <1> HIDE DEF new
  <1>4. temp # saved + 1 /\ path # saved + 1
    BY DEF Typed, TypeOK, Past
  <1>5. ASSUME NEW s \in saves' PROVE Current(s)'
    <2>1. s.keys = records' /\ s.at = "begun" /\ s.id = saved + 1
      BY <1>2, <1>3
    <2> QED
      BY <1>4, <2>1 DEF Current
  <1> QED
    BY <1>1, <1>2, <1>5 DEF Alone, One, Placed

LEMMA AskedKept ==
    ASSUME Typed, limit = 1, One, NEW k \in Keys, Asked(k),
           \A j \in Keys \ {k} : told[j] # "unsure" => Verified(j)' = Verified(j)
    PROVE  One'
  <1>1. /\ UNCHANGED <<backend, phase, files, temp, path, rows, blind>>
        /\ Begun("operator", k) /\ told' = [told EXCEPT ![k] = "unsure"]
    BY DEF Asked, store
  <1>2. told \in [Keys -> Status]
    BY DEF Typed, TypeOK
  <1>3. ASSUME NEW j \in Keys PROVE Promised(j)'
    <2>1. CASE told'[j] = "unsure"
      BY <2>1 DEF Promised, Agrees
    <2>2. CASE told'[j] # "unsure"
      <3>1. told'[j] = told[j] /\ j # k
        BY <1>1, <1>2, <2>2
      <3>2. Verified(j)' = Verified(j) /\ InStore(j)' = InStore(j)
        BY <1>1, <2>2, <3>1, SameStore
      <3> QED
        BY <1>1, <3>1, <3>2 DEF One, Promised
    <2> QED
      BY <2>1, <2>2
  <1> QED
    BY <1>1, <1>3, BegunAlone DEF One

LEMMA RequestKept ==
    ASSUME Typed, limit = 1, One, Request
    PROVE  One'
  <1>1. records \subseteq 1 .. issued /\ issued \in Nat /\ admin \in [Keys -> BOOLEAN]
        /\ \A k \in Keys : told[k] # "unsure" => k <= issued
    BY DEF Typed, TypeOK, Past
  <1>2. ASSUME NEW isAdmin \in BOOLEAN, Create(isAdmin) PROVE One'
    <2>1. /\ Asked(issued + 1) /\ records' = records \cup {issued + 1}
          /\ admin' = [admin EXCEPT ![issued + 1] = isAdmin] /\ issued < MaxKeys
      BY <1>2 DEF Create
    <2>2. issued + 1 \in Keys
      BY <1>1, <2>1, BoundsAreNumbers DEF Keys
    <2>3. PICK k \in Keys : k = issued + 1
      BY <2>2
    <2>4. ASSUME NEW j \in Keys \ {k}, told[j] # "unsure" PROVE Verified(j)' = Verified(j)
      BY <1>1, <2>1, <2>3, <2>4 DEF Verified, StatusIn
    <2> QED
      BY <2>1, <2>3, <2>4, AskedKept
  <1>3. ASSUME NEW k \in Keys, NEW isAdmin \in BOOLEAN, Update(k, isAdmin) PROVE One'
    <2>1. Asked(k) /\ records' = records /\ admin' = [admin EXCEPT ![k] = isAdmin]
      BY <1>3 DEF Update
    <2>2. ASSUME NEW j \in Keys \ {k} PROVE Verified(j)' = Verified(j)
      BY <1>1, <2>1 DEF Verified, StatusIn
    <2> QED
      BY <2>1, <2>2, AskedKept
  <1>4. ASSUME NEW k \in Keys, Revoke(k) PROVE One'
    <2>1. Asked(k) /\ records' = records \ {k} /\ admin' = admin
      BY <1>4 DEF Revoke
    <2>2. ASSUME NEW j \in Keys \ {k} PROVE Verified(j)' = Verified(j)
      BY <1>1, <2>1 DEF Verified, StatusIn
    <2> QED
      BY <2>1, <2>2, AskedKept
  <1> QED
    BY <1>2, <1>3, <1>4 DEF Request

LEMMA BootKept ==
    ASSUME Typed, limit = 1, One, BootLoads \/ BootSeeds \/ BootBlind \/ Restart \/ KeyUsed
    PROVE  One'
  <1>1. phase = "down" => saves = {} /\ records = {}
    BY DEF Typed, TypeOK
  <1>2. \A k \in Keys : Agrees(told[k], InStore(k), blind)
    BY DEF One, Promised
  <1>3. CASE BootLoads
    <2>1. /\ saves' = {} /\ records' = DOMAIN Loadable
          /\ admin' = [k \in Keys |-> k \in DOMAIN Loadable /\ Loadable[k]]
          /\ UNCHANGED <<backend, files, temp, path, rows, told, blind>>
      BY <1>1, <1>3 DEF BootLoads, store
    <2>2. \A k \in DOMAIN Loadable : Loadable[k] \in BOOLEAN
      BY LoadableType, StoredType
    <2>3. ASSUME NEW k \in Keys PROVE Verified(k)' = InStore(k)
      BY <2>1, <2>2 DEF Verified, StatusIn, InStore
    <2>4. \A k \in Keys : InStore(k)' = InStore(k)
      BY <2>1, SameStore
    <2>5. \A k \in Keys : Promised(k)'
      BY <1>2, <2>1, <2>3, <2>4 DEF Promised
    <2> QED
      BY <2>1, <2>5 DEF One, Alone, Placed
  <1>4. CASE BootSeeds
    <2>1. /\ records' = {issued + 1} /\ Begun("boot", 0) /\ Loadable = NoKeys
          /\ UNCHANGED <<backend, files, temp, path, rows, told, blind>>
      BY <1>4 DEF BootSeeds, store
    <2>2. \A k \in Keys : InStore(k)' = InStore(k)
      BY <2>1, SameStore
    <2>3. ASSUME NEW k \in Keys PROVE Promised(k)'
      <3>1. told[k] = "unsure" \/ k # issued + 1
        BY DEF Typed, TypeOK, Past
      <3>2. CASE told[k] = "unsure"
        BY <2>1, <3>2 DEF Promised, Agrees
      <3>3. CASE k # issued + 1
        <4>1. Verified(k)' = "gone"
          BY <2>1, <3>3 DEF Verified, StatusIn
        <4>2. InStore(k) = "gone"
          BY <2>1 DEF InStore, StatusIn, NoKeys
        <4> QED
          BY <1>2, <2>1, <2>2, <4>1, <4>2 DEF Promised
      <3> QED
        BY <3>1, <3>2, <3>3
    <2> QED
      BY <2>1, <2>3, BegunAlone DEF One
  <1>5. CASE BootBlind
    <2>1. /\ saves' = {} /\ records' = {} /\ blind' = TRUE
          /\ UNCHANGED <<backend, files, temp, path, rows, told>>
      BY <1>1, <1>5 DEF BootBlind, registry, store
    <2>2. \A k \in Keys : Verified(k)' = "gone" /\ InStore(k)' = InStore(k)
      BY <2>1, SameStore DEF Verified, StatusIn
    <2>3. \A k \in Keys : Promised(k)'
      BY <1>2, <2>1, <2>2 DEF Promised, Agrees
    <2> QED
      BY <2>1, <2>3 DEF One, Alone, Placed
  <1>6. CASE Restart
    <2>1. /\ saves' = {} /\ phase' = "down"
          /\ UNCHANGED <<backend, files, temp, path, rows, told, blind>>
      BY <1>6 DEF Restart, store
    <2>2. \A k \in Keys : InStore(k)' = InStore(k)
      BY <2>1, SameStore
    <2>3. \A k \in Keys : Promised(k)'
      BY <1>2, <2>1, <2>2 DEF Promised
    <2> QED
      BY <2>1, <2>3 DEF One, Alone, Placed
  <1>7. CASE KeyUsed
    <2>1. /\ Begun("usage", 0)
          /\ UNCHANGED <<backend, phase, records, admin, files, temp, path, rows, told, blind>>
      BY <1>7 DEF KeyUsed, registry, store
    <2>2. \A k \in Keys : Promised(k)'
      BY <2>1, SameRegistry, SameStore DEF One, Promised
    <2> QED
      BY <2>1, <2>2, BegunAlone DEF One
  <1> QED
    BY <1>3, <1>4, <1>5, <1>6, <1>7

LEMMA InitKept == Init => One
  BY DEF Init, One, Alone, Placed, Promised, Agrees

LEMMA InitK == Init => KInv
  BY InitTyped, InitKept DEF KInv

LEMMA NextK == KInv /\ [Next]_vars => KInv'
  <1> SUFFICES ASSUME KInv, [Next]_vars PROVE KInv'
    OBVIOUS
  <1>1. Typed /\ Typed'
    BY NextTyped DEF KInv
  <1>2. CASE UNCHANGED vars
    <2>1. UNCHANGED <<backend, limit, phase, records, admin, saves, saved, files, temp, path, rows, told, blind>>
      BY <1>2 DEF vars
    <2>2. One => One'
      BY <2>1, SameRegistry, SameStore DEF One, Alone, Placed, Current, Promised
    <2> QED
      BY <1>1, <2>1, <2>2 DEF KInv
  <1>3. CASE Next
    <2>1. limit' = limit
      BY <1>3 DEF Next, BootLoads, BootSeeds, BootBlind, Restart, Request, Create, Revoke,
                  Update, Asked, KeyUsed, SaveStep, OpenTemp, WriteTemp, RenameTemp,
                  NothingToRename, IssueDelete, Delete, Insert, InsertFails, Commit,
                  CallFails, Moved, Ended, Resolved, Rejected
    <2>2. ASSUME limit = 1, One, NEW s \in saves, SaveStep(s) \/ CallFails(s) PROVE One'
      BY <1>1, <2>2, FileStepKept, TableStepKept, RejectedKept DEF SaveStep, CallFails
    <2>3. limit = 1 /\ One => One'
      BY <1>1, <1>3, <2>2, RequestKept, BootKept DEF Next
    <2> QED
      BY <1>1, <2>1, <2>3 DEF KInv
  <1> QED
    BY <1>2, <1>3

\* Where saves do not overlap, no step makes a revoked key good again or gives a
\* key the admin flag back, in the gateway or in what a boot would load: whatever
\* saves fail, wherever the process dies, and also after a boot that could not
\* read the registry.
THEOREM RevocationsAreKept == Spec => []RevocationsHold
  <1>1. KInv => RevocationsHold
    <2> SUFFICES ASSUME KInv PROVE RevocationsHold
      OBVIOUS
    <2>1. ASSUME limit = 1, NEW k \in Keys PROVE Promised(k)
      BY <2>1 DEF KInv, One
    <2> QED
      BY <2>1 DEF RevocationsHold, Honoured, Promised, Agrees, InStore
  <1> QED
    BY <1>1, InitK, NextK, PTL DEF Spec

\* Where saves do not overlap and every boot could read the registry, a key keeps
\* the rights its operator was told of, in the gateway and in what a boot would
\* load.
THEOREM IssuedKeysKeepWorking == Spec => []IssuedKeysWork
  <1>1. KInv => IssuedKeysWork
    <2> SUFFICES ASSUME KInv PROVE IssuedKeysWork
      OBVIOUS
    <2>1. ASSUME limit = 1, NEW k \in Keys PROVE Promised(k)
      BY <2>1 DEF KInv, One
    <2> QED
      BY <2>1 DEF IssuedKeysWork, Honoured, Promised, Agrees, InStore
  <1> QED
    BY <1>1, InitK, NextK, PTL DEF Spec

=============================================================================
