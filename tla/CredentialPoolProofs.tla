------------------------ MODULE CredentialPoolProofs ------------------------
(***************************************************************************)
(* Theorems about CredentialPool, for every wiring, any number of users,   *)
(* requests and operators, and any bounds: its types, whose turn it is,    *)
(* that no two accounts are of one user, and from that what the disk has   *)
(* when no save is under way; and the refreshes beside the requests.       *)
(***************************************************************************)
EXTENDS CredentialPool, SequenceTheorems, TLAPS

-----------------------------------------------------------------------------
(* The operators the model is built from *)

\* splice keeps the type of the list and shortens it by one.
LEMMA WithoutType ==
    ASSUME NEW S, NEW s \in Seq(S), NEW k \in 1 .. Len(s)
    PROVE  /\ Without(s, k) \in Seq(S)
           /\ Len(Without(s, k)) = Len(s) - 1
           /\ DOMAIN Without(s, k) = 1 .. (Len(s) - 1)
           /\ \A i \in 1 .. (Len(s) - 1) :
                Without(s, k)[i] = IF i < k THEN s[i] ELSE s[i + 1]
  <1>1. \A i \in 1 .. (Len(s) - 1) : (IF i < k THEN s[i] ELSE s[i + 1]) \in S
    OBVIOUS
  <1>2. Without(s, k) \in [1 .. (Len(s) - 1) -> S]
    BY <1>1 DEF Without
  <1>3. Len(s) - 1 \in Nat
    OBVIOUS
  <1>4. Without(s, k) \in Seq(S)
    BY <1>2, <1>3, SeqDef
  <1> QED
    BY <1>2, <1>3, <1>4 DEF Without

\* The cooldown of a failing account is positive, never above the cap, and
\* never shrinks as failures accumulate.
LEMMA CooldownBounds ==
    ASSUME NEW f \in Nat \ {0}
    PROVE  /\ Cooldown(f) \in Nat \ {0}
           /\ Cooldown(f) <= MaxCooldown
           /\ Cooldown(f) <= Cooldown(f + 1)
  <1> DEFINE step == IF f <= 10 THEN f ELSE 11
  <1> DEFINE step2 == IF f + 1 <= 10 THEN f + 1 ELSE 11
  <1>1. step \in 1 .. 11 /\ step2 \in 1 .. 11 /\ (step2 = step \/ step2 = step + 1)
    OBVIOUS
  <1>2. \A n \in 1 .. 11 : Doubling[n] \in Nat \ {0}
    BY DEF Doubling
  <1>3. \A n \in 1 .. 10 : Doubling[n] <= Doubling[n + 1]
    BY DEF Doubling
  <1>4. Doubling[step] \in Nat \ {0} /\ Doubling[step2] \in Nat \ {0}
        /\ Doubling[step] <= Doubling[step2]
    BY <1>1, <1>2, <1>3
  <1>5. ASSUME NEW a \in Nat \ {0}, NEW b \in Nat \ {0}, NEW c \in Nat \ {0}, a <= b
        PROVE  c * a \in Nat \ {0} /\ c * a <= c * b
    BY <1>5, SMT
  <1>6. BaseCooldown * Doubling[step] \in Nat \ {0}
        /\ BaseCooldown * Doubling[step2] \in Nat \ {0}
        /\ BaseCooldown * Doubling[step] <= BaseCooldown * Doubling[step2]
    BY <1>4, <1>5, CooldownsArePositive
  <1> QED
    BY <1>6, CooldownsArePositive DEF Cooldown

RosterEntry == [label : Nat, cred : Cred]

\* What snapshot() builds is a snapshot.
LEMMA RosterType ==
    ASSUME NEW s \in Seq(Account)
    PROVE  /\ Roster(s) \in Seq(RosterEntry)
           /\ Len(Roster(s)) = Len(s)
           /\ DOMAIN Roster(s) = 1 .. Len(s)
           /\ \A i \in 1 .. Len(s) :
                 Roster(s)[i] = [label |-> s[i].label, cred |-> s[i].cred]
  <1>1. Len(s) \in Nat /\ DOMAIN s = 1 .. Len(s)
    BY LenProperties
  <1>2. \A i \in 1 .. Len(s) : s[i] \in Account
    BY ElementOfSeq
  <1>3. Roster(s) \in [1 .. Len(s) -> RosterEntry]
    BY <1>1, <1>2 DEF Roster, RosterEntry, Account
  <1>4. Roster(s) \in Seq(RosterEntry)
    BY <1>1, <1>3, SeqDef
  <1> QED
    BY <1>1, <1>3, <1>4 DEF Roster

LEMMA PoolSnapshotType ==
    ASSUME NEW st \in Strategy, NEW n \in Nat, NEW s \in Seq(Account)
    PROVE  [strategy |-> st, nextLabel |-> n, accounts |-> Roster(s)] \in Snapshot
  BY RosterType DEF Snapshot, RosterEntry

\* What restore() builds is a list of healthy accounts with the same roster.
LEMMA RestoredType ==
    ASSUME NEW snap \in Snapshot
    PROVE  /\ Restored(snap) \in Seq(Account)
           /\ DOMAIN Restored(snap) = DOMAIN snap.accounts
           /\ Len(Restored(snap)) = Len(snap.accounts)
           /\ Roster(Restored(snap)) = snap.accounts
           /\ \A i \in DOMAIN snap.accounts : ~Restored(snap)[i].refreshing
  <1> DEFINE acc == snap.accounts
  <1>1. acc \in Seq(RosterEntry)
    BY DEF Snapshot, RosterEntry
  <1>2. Len(acc) \in Nat /\ DOMAIN acc = 1 .. Len(acc)
    BY <1>1, LenProperties
  <1>3. \A i \in 1 .. Len(acc) : acc[i] \in RosterEntry
    BY <1>1, ElementOfSeq
  <1>4. Restored(snap) \in [1 .. Len(acc) -> Account]
    BY <1>2, <1>3 DEF Restored, Healthy, Account, RosterEntry
  <1>5. Restored(snap) \in Seq(Account)
    BY <1>2, <1>4, SeqDef
  <1>6. \A i \in 1 .. Len(acc) :
            [label |-> acc[i].label, cred |-> acc[i].cred] = acc[i]
    BY <1>3 DEF RosterEntry
  <1>7. Roster(Restored(snap)) = [i \in 1 .. Len(acc) |-> acc[i]]
    BY <1>2, <1>4, <1>6 DEF Roster, Restored, Healthy
  <1>8. [i \in 1 .. Len(acc) |-> acc[i]] = acc
    BY <1>1, <1>2
  <1> QED
    BY <1>2, <1>4, <1>5, <1>7, <1>8 DEF Restored, Healthy

-----------------------------------------------------------------------------
(* Type correctness *)

\* The part of TypeOK about the pool itself, and the rest.
PoolTypeOK ==
    /\ states \in Seq(Account)
    /\ cursor \in Nat
    /\ cursor < Len(states) \/ cursor = 0
    /\ nextLabel \in Nat
    /\ strategy \in Strategy
    /\ epoch \in Nat

LEMMA InitType == Init => TypeOK
  BY EmptySeq DEF Init, TypeOK, Strategy, EmptySnapshot, Snapshot, NoOp, Op,
                  Caller, Idle

\* A save keeps the queue well typed.
LEMMA SavedType ==
    ASSUME TypeOK, PoolTypeOK', NEW owner \in Owner, Saved(owner)
    PROVE  writes' \in Seq(Write)
  <1>1. PoolSnapshot' \in Snapshot
    BY PoolSnapshotType DEF PoolTypeOK, PoolSnapshot
  <1>2. [snap |-> PoolSnapshot', owner |-> owner] \in Write
    BY <1>1 DEF Write
  <1> QED
    BY <1>2, AppendProperties DEF Saved, TypeOK

LEMMA EmitEventType ==
    ASSUME TypeOK, PoolTypeOK', EmitEvent
    PROVE  writes' \in Seq(Write)
  BY SavedType DEF EmitEvent, Owner, TypeOK

LEMMA PersistedType ==
    ASSUME TypeOK, PoolTypeOK', NEW o \in Operators,
           NEW kind \in {"roster", "strategy"}, Persisted(o, kind)
    PROVE  writes' \in Seq(Write) /\ ops' \in [Operators -> Op]
  <1>1. PoolSnapshot \in Snapshot
    BY PoolSnapshotType DEF TypeOK, PoolSnapshot
  <1>2. [kind |-> kind, before |-> PoolSnapshot] \in Op
    BY <1>1 DEF Op
  <1>3. CASE Wiring = "store"
    <2>1. <<"op", o>> \in Owner
      BY DEF Owner
    <2>2. Saved(<<"op", o>>)
          /\ ops' = [ops EXCEPT ![o] = [kind |-> kind, before |-> PoolSnapshot]]
      BY <1>3 DEF Persisted
    <2> QED
      BY <1>2, <2>1, <2>2, SavedType DEF TypeOK
  <1>4. CASE Wiring # "store"
    BY <1>4, EmitEventType DEF Persisted, TypeOK
  <1> QED
    BY <1>3, <1>4

\* Replacing one account by another keeps the pool well typed.
LEMMA ExceptType ==
    ASSUME TypeOK, NEW i \in Idx, NEW a \in Account,
           states' = [states EXCEPT ![i] = a],
           UNCHANGED <<nextLabel, strategy, epoch>>,
           cursor' \in Nat, cursor' < Len(states) \/ cursor' = 0
    PROVE  PoolTypeOK' /\ Len(states') = Len(states)
  <1>1. i \in 1 .. Len(states)
    BY LenProperties DEF TypeOK, Idx
  <1> QED
    BY <1>1, ExceptSeq DEF TypeOK, PoolTypeOK

LEMMA AccountAt ==
    ASSUME TypeOK, NEW i \in Idx
    PROVE  /\ states[i] \in Account
           /\ i \in 1 .. Len(states)
           /\ Len(states) \in Nat
           /\ StateId(i) \in Id
  <1>1. states \in Seq(Account) /\ epoch \in Nat
    BY DEF TypeOK
  <1>2. i \in 1 .. Len(states) /\ Len(states) \in Nat
    BY <1>1, LenProperties DEF Idx
  <1>3. states[i] \in Account
    BY <1>1, <1>2, ElementOfSeq
  <1> QED
    BY <1>1, <1>2, <1>3 DEF StateId, Id, Account

\* Operations of an operator.
LEMMA NewCredType ==
    ASSUME TypeOK, NEW u \in Users, NEW kind \in Kind
    PROVE  NewCred(u, kind) \in Cred
  BY DEF NewCred, Cred, TypeOK

LEMMA AddNewType ==
    ASSUME TypeOK, NEW o \in Operators, NEW u \in Users, NEW kind \in Kind,
           AddNew(o, u, kind)
    PROVE  TypeOK'
  <1>1. NewAccount(u, kind) \in Account
    BY NewCredType DEF NewAccount, Healthy, Account, TypeOK
  <1>2. states' \in Seq(Account) /\ Len(states') = Len(states) + 1
    BY <1>1, AppendProperties DEF AddNew, TypeOK
  <1>3. Len(states) \in Nat
    BY LenProperties DEF TypeOK
  <1>4. PoolTypeOK'
    BY <1>2, <1>3 DEF AddNew, TypeOK, PoolTypeOK
  <1>5. writes' \in Seq(Write) /\ ops' \in [Operators -> Op]
    BY <1>4, PersistedType DEF AddNew
  <1> QED
    BY <1>4, <1>5 DEF AddNew, TypeOK, PoolTypeOK

LEMMA AddAgainType ==
    ASSUME TypeOK, NEW o \in Operators, NEW i \in Idx, NEW kind \in Kind,
           AddAgain(o, i, kind) \/ AddSame(o, i)
    PROVE  TypeOK'
  <1>1. states[i] \in Account /\ states[i].cred \in Cred /\ states[i].cred.user \in Users
    BY AccountAt DEF Account, Cred
  <1>2. NewCred(states[i].cred.user, kind) \in Cred
    BY <1>1, NewCredType
  <1>3. PICK c \in Cred : states' = [states EXCEPT ![i] = Replaced(states[i], c)]
    BY <1>1, <1>2 DEF AddAgain, AddSame
  <1>4. Replaced(states[i], c) \in Account
    BY <1>1 DEF Replaced, Account
  <1>5. UNCHANGED <<cursor, nextLabel, strategy, epoch>>
    BY DEF AddAgain, AddSame
  <1>6. PoolTypeOK'
    BY <1>3, <1>4, <1>5, ExceptType DEF TypeOK
  <1>7. writes' \in Seq(Write) /\ ops' \in [Operators -> Op]
    BY <1>6, PersistedType DEF AddAgain, AddSame
  <1>8. issued' \in Nat
    BY DEF AddAgain, AddSame, TypeOK
  <1>9. UNCHANGED <<tasks, callers, disk, expiring, faults, restarts>>
    BY DEF AddAgain, AddSame
  <1> QED
    BY <1>6, <1>7, <1>8, <1>9 DEF TypeOK, PoolTypeOK

LEMMA RemoveType ==
    ASSUME TypeOK, NEW o \in Operators, NEW i \in Idx, Remove(o, i)
    PROVE  TypeOK'
  <1>1. i \in 1 .. Len(states) /\ Len(states) \in Nat
    BY AccountAt
  <1>2. states' \in Seq(Account) /\ Len(states') = Len(states) - 1
    BY <1>1, WithoutType DEF Remove, TypeOK
  <1>3. cursor' \in Nat /\ (cursor' < Len(states') \/ cursor' = 0)
    BY <1>1, <1>2 DEF Remove, TypeOK, CursorAfterRemove
  <1>4. PoolTypeOK'
    BY <1>2, <1>3 DEF Remove, TypeOK, PoolTypeOK
  <1>5. writes' \in Seq(Write) /\ ops' \in [Operators -> Op]
    BY <1>4, PersistedType DEF Remove
  <1> QED
    BY <1>4, <1>5 DEF Remove, TypeOK, PoolTypeOK

LEMMA OperateType ==
    ASSUME TypeOK, NEW o \in Operators, Operate(o)
    PROVE  TypeOK'
  <1>1. CASE \E s \in Strategy : SetStrategy(o, s)
    <2>1. PoolTypeOK'
      BY <1>1 DEF SetStrategy, TypeOK, PoolTypeOK
    <2>2. writes' \in Seq(Write) /\ ops' \in [Operators -> Op]
      BY <1>1, <2>1, PersistedType DEF SetStrategy
    <2> QED
      BY <1>1, <2>1, <2>2 DEF SetStrategy, TypeOK, PoolTypeOK
  <1>2. CASE \E i \in Idx : AddSame(o, i)
    BY <1>2, AddAgainType DEF Kind
  <1> QED
    BY <1>1, <1>2, AddNewType, AddAgainType, RemoveType DEF Operate, Add

\* Requests.
LEMMA CallerType ==
    /\ Idle \in Caller
    /\ \A id \in Id : Waiting(id) \in Caller
    /\ \A cred \in Cred : Holding(cred) \in Caller
  BY DEF Caller, Idle, Waiting, Holding

LEMMA FlagType ==
    ASSUME TypeOK, NEW i \in Idx
    PROVE  /\ [states[i] EXCEPT !.reauth = TRUE] \in Account
           /\ [states[i] EXCEPT !.refreshing = TRUE] \in Account
           /\ [states[i] EXCEPT !.refreshing = FALSE] \in Account
           /\ Penalised(states[i]) \in Account
  <1>1. states[i] \in Account
    BY AccountAt
  <1>2. states[i].failures + 1 \in Nat \ {0}
    BY <1>1 DEF Account
  <1>3. Cooldown(states[i].failures + 1) \in Nat
    BY <1>2, CooldownBounds
  <1> QED
    BY <1>1, <1>2, <1>3 DEF Account, Penalised

\* What refreshAccount and a hand-out leave behind.
RequestTypeOK ==
    /\ states' \in Seq(Account)
    /\ Len(states') = Len(states)
    /\ tasks' \subseteq Task
    /\ callers' \in [Callers -> Caller]

LEMMA ServeType ==
    ASSUME TypeOK, NEW c \in Callers, NEW i \in Idx,
           RefreshAccount(c, i) \/ HandOut(c, i)
    PROVE  RequestTypeOK
  <1>1. states[i] \in Account /\ i \in 1 .. Len(states) /\ StateId(i) \in Id
    BY AccountAt
  <1>2. states[i].cred \in Cred
    BY <1>1 DEF Account
  <1>3. CASE JoinRefresh(c, i)
    BY <1>1, <1>3, CallerType DEF JoinRefresh, TypeOK, RequestTypeOK
  <1>4. CASE CannotRefresh(c, i)
    <2> DEFINE a == [states[i] EXCEPT !.reauth = TRUE]
    <2>0. a \in Account
      BY FlagType
    <2>1. states' = [states EXCEPT ![i] = a]
      BY <1>4 DEF CannotRefresh
    <2> HIDE DEF a
    <2>2. states' \in Seq(Account) /\ Len(states') = Len(states)
      BY <1>1, <2>0, <2>1, ExceptSeq DEF TypeOK
    <2> QED
      BY <1>4, <2>2, CallerType DEF CannotRefresh, TypeOK, RequestTypeOK
  <1>5. CASE StartRefresh(c, i)
    <2> DEFINE a == [states[i] EXCEPT !.refreshing = TRUE]
    <2>0. a \in Account
      BY FlagType
    <2>1. states' = [states EXCEPT ![i] = a]
      BY <1>5 DEF StartRefresh
    <2> HIDE DEF a
    <2>2. states' \in Seq(Account) /\ Len(states') = Len(states)
      BY <1>1, <2>0, <2>1, ExceptSeq DEF TypeOK
    <2>3. [id |-> StateId(i), by |-> c, before |-> states[i].cred,
           fresh |-> states[i].cred, phase |-> "calling"] \in Task
      BY <1>1, <1>2 DEF Task
    <2>4. tasks' \subseteq Task
      BY <1>5, <2>3 DEF StartRefresh, TypeOK
    <2>5. callers' \in [Callers -> Caller]
      BY <1>1, <1>5, CallerType DEF StartRefresh, TypeOK
    <2> QED
      BY <2>2, <2>4, <2>5 DEF RequestTypeOK
  <1>6. CASE HandOut(c, i)
    BY <1>2, <1>6, CallerType DEF HandOut, TypeOK, RequestTypeOK
  <1> QED
    BY <1>3, <1>4, <1>5, <1>6 DEF RefreshAccount

LEMMA GetCredentialType ==
    ASSUME TypeOK, NEW c \in Callers, GetCredential(c)
    PROVE  TypeOK'
  <1>1. PICK i \in Idx : GetRoundRobin(c, i) \/ GetRandom(c, i)
    BY DEF GetCredential
  <1>2. i \in 1 .. Len(states) /\ Len(states) \in Nat
    BY AccountAt
  <1>3. RequestTypeOK
    BY <1>1, ServeType DEF GetRoundRobin, GetRandom, Serve
  <1>4. cursor' \in Nat /\ (cursor' < Len(states) \/ cursor' = 0)
    BY <1>1, <1>2 DEF GetRoundRobin, GetRandom, TypeOK
  <1> QED
    BY <1>1, <1>3, <1>4 DEF GetRoundRobin, GetRandom, RequestTypeOK, TypeOK,
                            storeVars

LEMMA RejectedType ==
    ASSUME TypeOK, NEW c \in Callers, RejectedByUpstream(c)
    PROVE  TypeOK'
  <1>1. RequestTypeOK
    <2>1. CASE \E i \in Carrying(callers[c].cred) : RefreshAccount(c, i)
      BY <2>1, ServeType DEF Carrying
    <2>2. CASE callers' = [callers EXCEPT ![c] = Idle] /\ UNCHANGED <<states, tasks>>
      BY <2>2, CallerType DEF TypeOK, RequestTypeOK
    <2> QED
      BY <2>1, <2>2 DEF RejectedByUpstream
  <1> QED
    BY <1>1 DEF RejectedByUpstream, RequestTypeOK, TypeOK, storeVars

LEMMA ReportType ==
    ASSUME TypeOK, NEW c \in Callers,
           ReportFailure(c) \/ ReportSuccess(c) \/ Finish(c)
    PROVE  TypeOK'
  <1>1. callers' \in [Callers -> Caller]
    BY CallerType DEF ReportFailure, ReportSuccess, Finish, TypeOK
  <1>2. PoolTypeOK'
    <2>1. CASE UNCHANGED poolVars
      BY <2>1 DEF poolVars, PoolTypeOK, TypeOK
    <2>2. CASE ReportFailure(c) /\ states' # states
      <3>1. PICK i \in Idx : states' = [states EXCEPT ![i] = Penalised(states[i])]
        BY <2>2 DEF ReportFailure, Carrying
      <3>2. UNCHANGED <<cursor, nextLabel, strategy, epoch>>
        BY <2>2 DEF ReportFailure
      <3> QED
        BY <3>1, <3>2, FlagType, ExceptType DEF TypeOK
    <2>3. CASE ReportSuccess(c)
      <3>1. PICK i \in Idx : states' = [states EXCEPT ![i] = Recovered(states[i])]
        BY <2>3 DEF ReportSuccess, Carrying
      <3>2. UNCHANGED <<cursor, nextLabel, strategy, epoch>>
        BY <2>3 DEF ReportSuccess
      <3>3. Recovered(states[i]) \in Account
        BY AccountAt DEF Account, Recovered
      <3> QED
        BY <3>1, <3>2, <3>3, ExceptType DEF TypeOK
    <2> QED
      BY <2>1, <2>2, <2>3 DEF ReportFailure, Finish, poolVars
  <1>3. writes' \in Seq(Write)
    BY <1>2, EmitEventType DEF ReportFailure, ReportSuccess, Finish, storeVars, TypeOK
  <1>4. UNCHANGED <<tasks, ops, disk, expiring, issued, faults, restarts>>
    BY DEF ReportFailure, ReportSuccess, Finish, storeVars
  <1> QED
    BY <1>1, <1>2, <1>3, <1>4 DEF PoolTypeOK, TypeOK

\* Answers of the refresher.
LEMMA SettleType ==
    ASSUME TypeOK, NEW t \in tasks, NEW outcome \in Caller, Settle(t, outcome)
    PROVE  tasks' \subseteq Task /\ callers' \in [Callers -> Caller]
  BY DEF Settle, TypeOK

\* A list rebuilt account by account.
LEMMA RebuiltType ==
    ASSUME TypeOK, NEW f, f = [i \in Idx |-> f[i]], \A i \in Idx : f[i] \in Account
    PROVE  f \in Seq(Account) /\ Len(f) = Len(states)
  <1>1. Idx = 1 .. Len(states) /\ Len(states) \in Nat
    BY LenProperties DEF Idx, TypeOK
  <1>2. f \in [1 .. Len(states) -> Account]
    BY <1>1
  <1> QED
    BY <1>1, <1>2, SeqDef

LEMMA AnsweredType ==
    ASSUME TypeOK, NEW t \in tasks, RefreshAnswered(t)
    PROVE  TypeOK'
  <1>1. \A i \in Located(t) : i \in Idx
    BY DEF Located
  <1>2. t \in Task
    BY DEF TypeOK
  <1>3. CASE RefreshOrphaned(t)
    BY <1>3, SettleType, CallerType DEF RefreshOrphaned, poolVars, storeVars, TypeOK
  <1>4. CASE RefreshOvertaken(t)
    <2>1. PICK i \in Idx : /\ states' = [states EXCEPT ![i].refreshing = FALSE]
                           /\ \E outcome \in {Holding(states[i].cred), Idle} :
                                 Settle(t, outcome)
      BY <1>1, <1>4 DEF RefreshOvertaken, OvertakenOutcomes
    <2>2. states[i].cred \in Cred
      BY AccountAt DEF Account
    <2>3. tasks' \subseteq Task /\ callers' \in [Callers -> Caller]
      BY <2>1, <2>2, SettleType, CallerType
    <2> DEFINE a == [states[i] EXCEPT !.refreshing = FALSE]
    <2>4. a \in Account
      BY FlagType
    <2>5. states' = [states EXCEPT ![i] = a]
      BY <2>1
    <2>6. UNCHANGED <<cursor, nextLabel, strategy, epoch, ops, storeVars, expiring,
                      issued, restarts>>
      BY <1>4 DEF RefreshOvertaken
    <2> HIDE DEF a
    <2>7. PoolTypeOK'
      BY <2>4, <2>5, <2>6, ExceptType DEF TypeOK
    <2> QED
      BY <2>3, <2>6, <2>7 DEF TypeOK, PoolTypeOK, storeVars
  <1>5. ASSUME NEW u \in Users, RefreshSucceeded(t, u)
        PROVE  TypeOK'
    <2> DEFINE fresh == NewCred(u, "renewable")
    <2>1. fresh \in Cred
      BY NewCredType DEF Kind
    <2>2. PICK i \in Idx : states' = [states EXCEPT ![i].cred = fresh,
                                            ![i].refreshing = (Wiring = "store")]
      BY <1>1, <1>5 DEF RefreshSucceeded
    <2> DEFINE a == [states[i] EXCEPT !.cred = fresh, !.refreshing = (Wiring = "store")]
    <2>3. states[i] \in Account /\ i \in 1 .. Len(states)
      BY AccountAt
    <2>4. a \in Account
      BY <2>1, <2>3 DEF Account
    <2>5. states' = [states EXCEPT ![i] = a]
      BY <2>2, <2>3 DEF TypeOK
    <2>6. UNCHANGED <<cursor, nextLabel, strategy, epoch, ops, disk, faults,
                      expiring, restarts>> /\ issued' = issued + 1
      BY <1>5 DEF RefreshSucceeded
    <2>7. PoolTypeOK'
      <3> HIDE DEF a
      <3> QED BY <2>4, <2>5, <2>6, ExceptType DEF TypeOK
    <2>8. tasks' \subseteq Task /\ callers' \in [Callers -> Caller]
          /\ writes' \in Seq(Write)
      <3>1. CASE Wiring = "store"
        <4>1. [t EXCEPT !.fresh = fresh, !.phase = "saving"] \in Task
          BY <1>2, <2>1 DEF Task
        <4>2. <<"task", t.id>> \in Owner
          BY <1>2 DEF Owner, Task
        <4>3. writes' \in Seq(Write)
          BY <1>5, <2>7, <3>1, <4>2, SavedType DEF RefreshSucceeded
        <4> QED
          BY <1>5, <3>1, <4>1, <4>3 DEF RefreshSucceeded, TypeOK
      <3>2. CASE Wiring # "store"
        <4>1. Settle(t, Holding(fresh)) /\ UNCHANGED writes
          BY <1>5, <3>2 DEF RefreshSucceeded
        <4> HIDE DEF fresh
        <4> QED
          BY <2>1, <4>1, SettleType, CallerType DEF TypeOK
      <3> QED
        BY <3>1, <3>2
    <2> QED
      BY <2>6, <2>7, <2>8 DEF TypeOK, PoolTypeOK
  <1>6. CASE RefreshRefused(t)
    <2>1. PICK i \in Idx : states' = [states EXCEPT ![i].reauth = TRUE,
                                                    ![i].refreshing = FALSE]
      BY <1>1, <1>6 DEF RefreshRefused
    <2> DEFINE a == [states[i] EXCEPT !.reauth = TRUE, !.refreshing = FALSE]
    <2>2. states[i] \in Account /\ i \in 1 .. Len(states)
      BY AccountAt
    <2>3. a \in Account
      BY <2>2 DEF Account
    <2>4. states' = [states EXCEPT ![i] = a]
      BY <2>1, <2>2 DEF TypeOK
    <2>5. UNCHANGED <<cursor, nextLabel, strategy, epoch, ops, storeVars, expiring,
                      issued, restarts>>
      BY <1>6 DEF RefreshRefused
    <2>6. PoolTypeOK'
      <3> HIDE DEF a
      <3> QED BY <2>3, <2>4, <2>5, ExceptType DEF TypeOK
    <2>7. tasks' \subseteq Task /\ callers' \in [Callers -> Caller]
      BY <1>6, SettleType, CallerType DEF RefreshRefused
    <2> QED
      BY <2>5, <2>6, <2>7 DEF TypeOK, PoolTypeOK, storeVars
  <1>7. CASE RefreshFailed(t)
    <2>1. PICK i \in Idx :
              states' = [states EXCEPT ![i] = [Penalised(@) EXCEPT !.refreshing = FALSE]]
      BY <1>1, <1>7 DEF RefreshFailed
    <2> DEFINE a == [Penalised(states[i]) EXCEPT !.refreshing = FALSE]
    <2>2. Penalised(states[i]) \in Account
      BY FlagType
    <2>3. a \in Account
      BY <2>2 DEF Account
    <2>4. states' = [states EXCEPT ![i] = a]
      BY <2>1
    <2>5. UNCHANGED <<cursor, nextLabel, strategy, epoch, ops, disk, faults,
                      expiring, issued, restarts>>
      BY <1>7 DEF RefreshFailed
    <2>6. PoolTypeOK'
      <3> HIDE DEF a
      <3> QED BY <2>3, <2>4, <2>5, ExceptType DEF TypeOK
    <2>7. tasks' \subseteq Task /\ callers' \in [Callers -> Caller]
      BY <1>7, SettleType, CallerType DEF RefreshFailed
    <2>8. writes' \in Seq(Write)
      BY <1>7, <2>6, EmitEventType DEF RefreshFailed
    <2> QED
      BY <2>5, <2>6, <2>7, <2>8 DEF TypeOK, PoolTypeOK
  <1> QED
    BY <1>3, <1>4, <1>5, <1>6, <1>7 DEF RefreshAnswered

\* Saves that end.
LEMMA SaveType ==
    ASSUME TypeOK, NEW k \in Due, NEW owner,
           SaveApplied(k, owner) \/ SaveFailed(k, owner)
    PROVE  /\ k \in 1 .. Len(writes)
           /\ writes[k] \in Write
           /\ writes' \in Seq(Write)
           /\ disk' \in Snapshot
           /\ faults' \in Nat
           /\ \/ disk' = disk
              \/ disk' = writes[k].snap
           /\ writes' = Without(writes, k)
  <1>1. k \in 1 .. Len(writes)
    BY LenProperties DEF Due, TypeOK
  <1>2. writes[k] \in Write
    BY <1>1, ElementOfSeq DEF TypeOK
  <1>3. writes' = Without(writes, k)
    BY DEF SaveApplied, SaveFailed
  <1>4. writes' \in Seq(Write)
    BY <1>1, <1>3, WithoutType DEF TypeOK
  <1>5. disk' = disk \/ disk' = writes[k].snap
    BY DEF SaveApplied, SaveFailed
  <1>6. disk' \in Snapshot
    BY <1>2, <1>5 DEF Write, TypeOK
  <1>7. faults' \in Nat
    BY DEF SaveApplied, SaveFailed, TypeOK
  <1> QED
    BY <1>1, <1>2, <1>3, <1>4, <1>5, <1>6, <1>7

LEMMA SaveEndsType ==
    ASSUME TypeOK, NEW k \in Due, SaveEnds(k)
    PROVE  TypeOK'
  <1>1. CASE SinkSaveEnds(k)
    BY <1>1, SaveType DEF SinkSaveEnds, TypeOK, poolVars
  <1>2. NoOp \in Op
    BY EmptySeq DEF NoOp, Op, EmptySnapshot, Snapshot, Strategy
  <1>3. ASSUME NEW o \in Operators, OpSaved(k, o)
        PROVE  TypeOK'
    BY <1>2, <1>3, SaveType DEF OpSaved, TypeOK, poolVars
  <1>4. ASSUME NEW o \in Operators, RosterRollback(k, o)
        PROVE  TypeOK'
    <2> DEFINE before == ops[o].before
    <2>1. before \in Snapshot
      BY DEF TypeOK, Op
    <2>2. states' = Restored(before) /\ strategy' = before.strategy
          /\ nextLabel' = before.nextLabel /\ cursor' = 0 /\ epoch' = epoch + 1
          /\ ops' = [ops EXCEPT ![o] = NoOp]
          /\ UNCHANGED <<tasks, callers, expiring, issued, restarts>>
      BY <1>4 DEF RosterRollback
    <2> HIDE DEF before
    <2>3. states' \in Seq(Account)
      BY <2>1, <2>2, RestoredType
    <2>4. strategy' \in Strategy /\ nextLabel' \in Nat
      BY <2>1, <2>2 DEF Snapshot
    <2>5. writes' \in Seq(Write) /\ disk' \in Snapshot /\ faults' \in Nat
      BY <1>4, SaveType DEF RosterRollback
    <2> QED
      BY <1>2, <2>2, <2>3, <2>4, <2>5 DEF TypeOK
  <1>5. ASSUME NEW o \in Operators, StrategyRollback(k, o)
        PROVE  TypeOK'
    <2>1. ops[o].before.strategy \in Strategy
      BY DEF TypeOK, Op, Snapshot
    <2>2. writes' \in Seq(Write) /\ disk' \in Snapshot /\ faults' \in Nat
      BY <1>5, SaveType DEF StrategyRollback
    <2> QED
      BY <1>2, <1>5, <2>1, <2>2 DEF StrategyRollback, TypeOK
  <1>6. ASSUME NEW t \in tasks, RefreshSaved(k, t)
        PROVE  TypeOK'
    <2> DEFINE f == [i \in Idx |-> IF i \in Located(t)
                                   THEN [states[i] EXCEPT !.refreshing = FALSE]
                                   ELSE states[i]]
    <2>1. \A i \in Idx : f[i] \in Account
      BY AccountAt, FlagType
    <2>2. states' = f
      BY <1>6 DEF RefreshSaved
    <2>3. states' \in Seq(Account) /\ Len(states') = Len(states)
      BY <2>1, <2>2, RebuiltType
    <2>4. t.fresh \in Cred
      BY DEF TypeOK, Task
    <2>5. tasks' \subseteq Task /\ callers' \in [Callers -> Caller]
      BY <1>6, <2>4, SettleType, CallerType DEF RefreshSaved
    <2>6. writes' \in Seq(Write) /\ disk' \in Snapshot /\ faults' \in Nat
      BY <1>6, SaveType DEF RefreshSaved
    <2> QED
      BY <1>6, <2>3, <2>5, <2>6 DEF RefreshSaved, TypeOK
  <1>7. ASSUME NEW t \in tasks, RefreshUnsaved(k, t)
        PROVE  TypeOK'
    <2> DEFINE f == [i \in Idx |->
          IF i \notin Located(t) THEN states[i]
          ELSE IF states[i].cred.id = t.fresh.id
               THEN Penalised([states[i] EXCEPT !.cred = t.before,
                                                !.refreshing = FALSE])
               ELSE [states[i] EXCEPT !.refreshing = FALSE]]
    <2>1. t.before \in Cred
      BY DEF TypeOK, Task
    <2>2. ASSUME NEW i \in Idx PROVE f[i] \in Account
      <3> DEFINE a == [states[i] EXCEPT !.cred = t.before, !.refreshing = FALSE]
      <3>1. states[i] \in Account
        BY AccountAt
      <3>2. a \in Account
        BY <2>1, <3>1 DEF Account
      <3>3. Penalised(a) \in Account
        <4> HIDE DEF a
        <4>1. a.failures + 1 \in Nat \ {0}
          BY <3>2 DEF Account
        <4>2. Cooldown(a.failures + 1) \in Nat
          BY <4>1, CooldownBounds
        <4> QED
          BY <3>2, <4>1, <4>2 DEF Account, Penalised
      <3>4. f[i] \in {states[i], Penalised(a), [states[i] EXCEPT !.refreshing = FALSE]}
        OBVIOUS
      <3> HIDE DEF f, a
      <3> QED
        BY <3>1, <3>3, <3>4, FlagType
    <2>3. states' = f
      BY <1>7 DEF RefreshUnsaved
    <2>4. states' \in Seq(Account) /\ Len(states') = Len(states)
      <3> HIDE DEF f
      <3>1. f = [i \in Idx |-> f[i]]
        BY DEF f
      <3> QED BY <2>2, <2>3, <3>1, RebuiltType
    <2>5. tasks' \subseteq Task /\ callers' \in [Callers -> Caller]
      BY <1>7, SettleType, CallerType DEF RefreshUnsaved
    <2>6. writes' \in Seq(Write) /\ disk' \in Snapshot /\ faults' \in Nat
      BY <1>7, SaveType DEF RefreshUnsaved
    <2> QED
      BY <1>7, <2>4, <2>5, <2>6 DEF RefreshUnsaved, TypeOK
  <1> QED
    BY <1>1, <1>3, <1>4, <1>5, <1>6, <1>7 DEF SaveEnds

LEMMA TickType ==
    ASSUME TypeOK, Tick
    PROVE  TypeOK'
  <1> DEFINE f == [i \in Idx |->
          [states[i] EXCEPT !.cooldown = IF @ > 0 THEN @ - 1 ELSE 0]]
  <1>1. \A i \in Idx : f[i] \in Account
    BY AccountAt DEF Account
  <1>2. states' = f
    BY DEF Tick
  <1>3. states' \in Seq(Account) /\ Len(states') = Len(states)
    BY <1>1, <1>2, RebuiltType
  <1> QED
    BY <1>3 DEF Tick, TypeOK, storeVars

LEMMA MarkType ==
    ASSUME TypeOK, NEW i \in Idx, MarkReauthRequired(i)
    PROVE  TypeOK'
  <1> DEFINE a == [states[i] EXCEPT !.reauth = TRUE]
  <1>1. a \in Account
    BY FlagType
  <1>2. states' = [states EXCEPT ![i] = a]
    BY DEF MarkReauthRequired
  <1>3. UNCHANGED <<cursor, nextLabel, strategy, epoch, tasks, callers, ops, disk,
                    faults, expiring, issued, restarts>>
    BY DEF MarkReauthRequired
  <1> HIDE DEF a
  <1>4. PoolTypeOK'
    BY <1>1, <1>2, <1>3, ExceptType DEF TypeOK
  <1>5. writes' \in Seq(Write)
    BY <1>4, EmitEventType DEF MarkReauthRequired
  <1> QED
    BY <1>3, <1>4, <1>5 DEF TypeOK, PoolTypeOK

LEMMA RestartType ==
    ASSUME TypeOK, Restart
    PROVE  TypeOK'
  <1>1. NoOp \in Op
    BY EmptySeq DEF NoOp, Op, EmptySnapshot, Snapshot, Strategy
  <1>2. Restored(disk) \in Seq(Account)
    BY RestoredType DEF TypeOK
  <1>3. disk.strategy \in Strategy /\ disk.nextLabel \in Nat
    BY DEF TypeOK, Snapshot
  <1> QED
    BY <1>1, <1>2, <1>3, CallerType, EmptySeq DEF Restart, TypeOK

LEMMA NextType == TypeOK /\ [Next]_vars => TypeOK'
  <1> SUFFICES ASSUME TypeOK, [Next]_vars PROVE TypeOK'
    OBVIOUS
  <1>1. CASE UNCHANGED vars
    BY <1>1 DEF vars, TypeOK
  <1>2. ASSUME NEW c \in Callers, Request(c) PROVE TypeOK'
    BY <1>2, GetCredentialType, RejectedType, ReportType DEF Request
  <1>3. ASSUME NEW i \in Idx, NearsExpiry(i) PROVE TypeOK'
    <2>1. states[i].cred.id \in Nat
      BY AccountAt DEF Account, Cred
    <2> QED
      BY <1>3, <2>1 DEF NearsExpiry, TypeOK, poolVars, storeVars
  <1> QED
    BY <1>1, <1>2, <1>3, OperateType, AnsweredType, SaveEndsType, TickType,
       MarkType, RestartType DEF Next

\* The types of the state hold in every reachable state: in particular the round
\* robin cursor always points into the list, whatever is added or removed.
THEOREM TypeCorrect == Spec => []TypeOK
  BY InitType, NextType, PTL DEF Spec

-----------------------------------------------------------------------------
(* Whose turn it is                                                        *)

\* A pick adds and removes no account.
LEMMA ServeKeepsLength ==
    ASSUME TypeOK, NEW c \in Callers, NEW i \in Idx,
           RefreshAccount(c, i) \/ HandOut(c, i)
    PROVE  Len(states') = Len(states)
  <1>1. states \in Seq(Account)
    BY DEF TypeOK
  <1> QED
    BY <1>1 DEF RefreshAccount, JoinRefresh, CannotRefresh, StartRefresh, HandOut

\* The list is looked at from the cursor on and the cursor goes behind the
\* account that was picked, so every other account that is available is nearer to its
\* turn than it was (credential-pool.ts:275-286), whatever the pick does to the
\* account and whoever else asks.
THEOREM NobodyIsStarved == Spec => PicksAdvanceTheTurn
  <1>1. ASSUME TypeOK, NEW c \in Callers, NEW i \in Idx, GetRoundRobin(c, i),
               NEW j \in Idx \ {i}, Available(j)
        PROVE  Ahead(j)' < Ahead(j)
    <2>1. /\ cursor \in Nat /\ Len(states) \in Nat
          /\ i \in 1 .. Len(states) /\ j \in 1 .. Len(states)
          /\ cursor < Len(states)
      BY <1>1, AccountAt DEF TypeOK
    <2>2. Len(states') = Len(states)
      BY <1>1, ServeKeepsLength DEF GetRoundRobin, Serve
    <2>3. cursor' = IF i = Len(states) THEN 0 ELSE i
      BY <1>1 DEF GetRoundRobin
    <2>4. Ahead(i) <= Ahead(j)
      BY <1>1 DEF GetRoundRobin, NextInTurn
    <2> QED
      BY <1>1, <2>1, <2>2, <2>3, <2>4 DEF Ahead
  <1>2. TypeOK => [\A c \in Callers, i \in Idx : GetRoundRobin(c, i) =>
                     \A j \in Idx \ {i} : Available(j) => Ahead(j)' < Ahead(j)]_vars
    BY <1>1
  <1> QED
    BY <1>2, TypeCorrect, PTL DEF PicksAdvanceTheTurn

\* Removing an account moves the cursor with the accounts behind it
\* (credential-pool.ts:155-157): whoever was up next still is, unless it was the
\* one removed, and then its successor is.
THEOREM RemovalKeepsTheTurn == Spec => RemoveKeepsTheTurn
  <1> DEFINE Next1(i) == IF i = cursor + 1
                         THEN IF i = Len(states) THEN 1 ELSE i + 1
                         ELSE cursor + 1
  <1>1. ASSUME TypeOK, NEW o \in Operators, NEW i \in Idx, Remove(o, i), Len(states) > 1
        PROVE  states'[cursor' + 1] = states[Next1(i)]
    <2>1. /\ cursor \in Nat /\ Len(states) \in Nat /\ states \in Seq(Account)
          /\ i \in 1 .. Len(states) /\ cursor < Len(states)
      BY <1>1, AccountAt DEF TypeOK
    <2>2. /\ states' = Without(states, i)
          /\ \A j \in 1 .. (Len(states) - 1) :
                Without(states, i)[j] = IF j < i THEN states[j] ELSE states[j + 1]
      BY <1>1, <2>1, WithoutType DEF Remove
    <2>3. cursor' = CursorAfterRemove(i)
      BY <1>1 DEF Remove
    <2>4. cursor' + 1 \in 1 .. (Len(states) - 1)
      BY <1>1, <2>1, <2>3 DEF CursorAfterRemove
    <2>5. states'[cursor' + 1] = IF cursor' + 1 < i THEN states[cursor' + 1]
                                 ELSE states[(cursor' + 1) + 1]
      BY <2>2, <2>4
    <2>6. CASE cursor' + 1 < i
      <3>1. cursor' + 1 = Next1(i)
        BY <1>1, <2>1, <2>3, <2>6 DEF CursorAfterRemove
      <3> QED
        BY <2>5, <2>6, <3>1
    <2>7. CASE ~(cursor' + 1 < i)
      <3>1. (cursor' + 1) + 1 = Next1(i)
        BY <1>1, <2>1, <2>3, <2>7 DEF CursorAfterRemove
      <3> QED
        BY <2>5, <2>7, <3>1
    <2> QED
      BY <2>6, <2>7
  <1>2. TypeOK => [\A o \in Operators, i \in Idx : Remove(o, i) /\ Len(states) > 1 =>
                     states'[cursor' + 1] = states[Next1(i)]]_vars
    BY <1>1
  <1> QED
    BY <1>2, TypeCorrect, PTL DEF RemoveKeepsTheTurn


-----------------------------------------------------------------------------
(* The roster: who has an account, in memory and on the disk               *)
(*                                                                         *)
(* DistinctAccounts is not inductive: a refresh writes the credential it   *)
(* obtained into the account it finds under the task's identity, so the    *)
(* invariant must also say that a task and the account it will find belong *)
(* to one user.  That holds because labels are never reused between two    *)
(* restores, and a restore leaves every running refresh without an         *)
(* account.                                                                *)

\* no two accounts share a label or a user, and label n is free
Distinct(sts, n) ==
    /\ \A i \in DOMAIN sts : sts[i].label < n
    /\ \A i, j \in DOMAIN sts :
          i # j => /\ sts[i].label # sts[j].label
                   /\ sts[i].cred.user # sts[j].cred.user

PoolDistinct == Distinct(states, nextLabel)

\* a refresh belongs to an account that exists or existed, and the account it
\* finds has the user it started with
Known(t) ==
    /\ t.fresh.user = t.before.user
    /\ t.id[1] <= epoch
    /\ t.id[1] = epoch => t.id[2] < nextLabel
    /\ \A i \in Idx : t.id = StateId(i) => states[i].cred.user = t.before.user

TasksKnown == \A t \in tasks : Known(t)

WritesDistinct == \A k \in DOMAIN writes : WellFormed(writes[k].snap)
OpsDistinct == \A o \in Operators : WellFormed(ops[o].before)

IInv ==
    /\ TypeOK
    /\ PoolDistinct
    /\ TasksKnown
    /\ WellFormed(disk)
    /\ WritesDistinct
    /\ OpsDistinct

LEMMA SnapshotDistinct ==
    ASSUME NEW sts, NEW n, NEW st
    PROVE  WellFormed([strategy |-> st, nextLabel |-> n, accounts |-> Roster(sts)])
              <=> Distinct(sts, n)
  <1> DEFINE snap == [strategy |-> st, nextLabel |-> n, accounts |-> Roster(sts)]
  <1>1. snap.accounts = Roster(sts) /\ snap.nextLabel = n
    OBVIOUS
  <1>2. /\ DOMAIN Roster(sts) = DOMAIN sts
        /\ \A i \in DOMAIN sts : /\ Roster(sts)[i].label = sts[i].label
                                 /\ Roster(sts)[i].cred = sts[i].cred
    BY DEF Roster
  <1> HIDE DEF snap
  <1>3. WellFormed(snap) <=> Distinct(sts, n)
    BY <1>1, <1>2 DEF WellFormed, Distinct
  <1> QED
    BY <1>3 DEF snap

LEMMA PoolSnapshotDistinct ==
    /\ PoolDistinct <=> WellFormed(PoolSnapshot)
    /\ PoolDistinct' <=> WellFormed(PoolSnapshot')
  BY SnapshotDistinct DEF PoolSnapshot, PoolDistinct

\* restore() brings back a list as distinct as the snapshot.
LEMMA RestoredDistinct ==
    ASSUME NEW snap \in Snapshot, WellFormed(snap)
    PROVE  Distinct(Restored(snap), snap.nextLabel)
  BY RestoredType DEF WellFormed, Distinct, Restored, Healthy

-----------------------------------------------------------------------------
(* Steps that keep every account in its place *)

SameMembers ==
    /\ DOMAIN states' = DOMAIN states
    /\ \A i \in DOMAIN states : /\ states'[i].label = states[i].label
                                /\ states'[i].cred.user = states[i].cred.user
    /\ nextLabel' = nextLabel
    /\ epoch' = epoch

\* where the tasks after a step come from: an old one, one started for an account
\* of the pool, or an old one that has its answer
TasksFrom ==
    \A t \in tasks' :
        \/ t \in tasks
        \/ \E i \in Idx : /\ t.id = StateId(i)
                          /\ t.before.user = states[i].cred.user
                          /\ t.fresh.user = t.before.user
        \/ \E s \in tasks : /\ t.id = s.id
                            /\ t.before = s.before
                            /\ t.fresh.user = s.before.user

LEMMA MembersKept ==
    ASSUME IInv, SameMembers, TasksFrom
    PROVE  PoolDistinct' /\ TasksKnown'
  <1>1. PoolDistinct'
    BY DEF IInv, SameMembers, PoolDistinct, Distinct
  <1>2. \A i \in Idx' : i \in Idx /\ StateId(i)' = StateId(i)
                        /\ states'[i].cred.user = states[i].cred.user
    BY DEF SameMembers, Idx, StateId
  <1>3. ASSUME NEW t \in tasks, Known(t) PROVE Known(t)'
    BY <1>2, <1>3 DEF Known, SameMembers
  <1>4. ASSUME NEW t \in tasks', NEW i \in Idx,
               t.id = StateId(i), t.before.user = states[i].cred.user,
               t.fresh.user = t.before.user
        PROVE  Known(t)'
    <2>1. states[i] \in Account /\ epoch \in Nat
      BY AccountAt DEF IInv, TypeOK
    <2>2. t.id[1] = epoch /\ t.id[2] = states[i].label /\ states[i].label < nextLabel
      BY <1>4 DEF StateId, IInv, PoolDistinct, Distinct, Idx
    <2>3. ASSUME NEW j \in Idx, t.id = StateId(j) PROVE j = i
      BY <1>4, <2>3 DEF StateId, IInv, PoolDistinct, Distinct, Idx
    <2> QED
      BY <1>2, <1>4, <2>1, <2>2, <2>3 DEF Known, SameMembers
  <1>5. ASSUME NEW t \in tasks', NEW s \in tasks, Known(s),
               t.id = s.id, t.before = s.before, t.fresh.user = s.before.user
        PROVE  Known(t)'
    BY <1>2, <1>5 DEF Known, SameMembers
  <1> QED
    BY <1>1, <1>3, <1>4, <1>5 DEF TasksFrom, TasksKnown, IInv

LEMMA ExceptMembers ==
    ASSUME TypeOK, NEW i \in Idx, NEW a,
           a.label = states[i].label, a.cred.user = states[i].cred.user,
           states' = [states EXCEPT ![i] = a],
           UNCHANGED <<nextLabel, epoch>>
    PROVE  SameMembers
  BY DEF SameMembers, Idx

-----------------------------------------------------------------------------
(* Saves keep what they carry *)

LEMMA SavedDistinct ==
    ASSUME IInv, PoolDistinct', NEW owner, Saved(owner)
    PROVE  WritesDistinct'
  <1> DEFINE w == [snap |-> PoolSnapshot', owner |-> owner]
  <1>1. writes' = Append(writes, w) /\ WellFormed(w.snap)
    BY PoolSnapshotDistinct DEF Saved
  <1> HIDE DEF w
  <1>2. writes \in Seq(Write)
    BY DEF IInv, TypeOK
  <1>3. DOMAIN writes' = 1 .. (Len(writes) + 1) /\ DOMAIN writes = 1 .. Len(writes)
    BY <1>1, <1>2
  <1>4. \A k \in 1 .. Len(writes) : writes'[k] = writes[k]
    BY <1>1, <1>2
  <1>5. writes'[Len(writes) + 1] = w
    BY <1>1, <1>2
  <1>6. Len(writes) \in Nat
    BY <1>2
  <1>7. ASSUME NEW k \in DOMAIN writes' PROVE WellFormed(writes'[k].snap)
    <2>1. CASE k \in 1 .. Len(writes)
      BY <1>3, <1>4, <2>1 DEF IInv, WritesDistinct
    <2>2. CASE k = Len(writes) + 1
      BY <1>1, <1>5, <2>2
    <2> QED
      BY <1>3, <1>6, <2>1, <2>2
  <1> QED
    BY <1>7 DEF WritesDistinct

LEMMA EmitEventDistinct ==
    ASSUME IInv, PoolDistinct', EmitEvent
    PROVE  WritesDistinct'
  BY SavedDistinct DEF EmitEvent, IInv, WritesDistinct

LEMMA PersistedDistinct ==
    ASSUME IInv, PoolDistinct', NEW o \in Operators, NEW kind, Persisted(o, kind)
    PROVE  WritesDistinct' /\ OpsDistinct'
  <1>1. CASE Wiring = "store"
    <2>1. ops' = [ops EXCEPT ![o] = [kind |-> kind, before |-> PoolSnapshot]]
          /\ Saved(<<"op", o>>)
      BY <1>1 DEF Persisted
    <2>2. WellFormed(PoolSnapshot)
      BY PoolSnapshotDistinct DEF IInv
    <2>3. ops \in [Operators -> Op]
      BY DEF IInv, TypeOK
    <2>4. OpsDistinct'
      BY <2>1, <2>2, <2>3 DEF IInv, OpsDistinct
    <2> QED
      BY <2>1, <2>4, SavedDistinct
  <1>2. CASE Wiring # "store"
    BY <1>2, EmitEventDistinct DEF Persisted, IInv, OpsDistinct
  <1> QED
    BY <1>1, <1>2

LEMMA SaveDistinct ==
    ASSUME IInv, NEW k \in Due, NEW owner,
           SaveApplied(k, owner) \/ SaveFailed(k, owner)
    PROVE  WellFormed(disk)' /\ WritesDistinct'
  <1>1. /\ k \in 1 .. Len(writes)
        /\ disk' = disk \/ disk' = writes[k].snap
        /\ writes' = Without(writes, k)
    BY SaveType DEF IInv
  <1>2. writes \in Seq(Write)
    BY DEF IInv, TypeOK
  <1>3. DOMAIN writes = 1 .. Len(writes) /\ Len(writes) \in Nat
    BY <1>2
  <1>4. /\ DOMAIN writes' = 1 .. (Len(writes) - 1)
        /\ \A i \in 1 .. (Len(writes) - 1) :
              writes'[i] = IF i < k THEN writes[i] ELSE writes[i + 1]
    BY <1>1, <1>2, WithoutType
  <1>5. WellFormed(disk')
    BY <1>1, <1>3 DEF IInv, WritesDistinct
  <1>6. ASSUME NEW i \in DOMAIN writes' PROVE WellFormed(writes'[i].snap)
    <2>1. i \in DOMAIN writes /\ i + 1 \in DOMAIN writes
      BY <1>3, <1>4
    <2>2. writes'[i] = writes[i] \/ writes'[i] = writes[i + 1]
      BY <1>4
    <2> QED
      BY <2>1, <2>2 DEF IInv, WritesDistinct
  <1>7. WritesDistinct'
    BY <1>6 DEF WritesDistinct
  <1> QED
    BY <1>5, <1>7 DEF WellFormed

\* An operation that ends forgets what it would have gone back to.
LEMMA NoOpDistinct == WellFormed(NoOp.before)
  BY DEF NoOp, EmptySnapshot, WellFormed

LEMMA EndedDistinct ==
    ASSUME IInv, NEW o \in Operators, ops' = [ops EXCEPT ![o] = NoOp]
    PROVE  OpsDistinct'
  BY NoOpDistinct DEF IInv, TypeOK, OpsDistinct

-----------------------------------------------------------------------------
(* The operators' steps *)

LEMMA InitDistinct == Init => IInv
  BY InitType, NoOpDistinct
     DEF Init, IInv, PoolDistinct, Distinct, TasksKnown, WritesDistinct, OpsDistinct,
         WellFormed, EmptySnapshot

LEMMA AddNewDistinct ==
    ASSUME IInv, NEW o \in Operators, NEW u \in Users, NEW kind \in Kind,
           AddNew(o, u, kind)
    PROVE  PoolDistinct' /\ TasksKnown'
  <1> DEFINE a == NewAccount(u, kind)
  <1>1. a.label = nextLabel /\ a.cred.user = u
    BY DEF NewAccount, Healthy, NewCred
  <1>2. states' = Append(states, a) /\ nextLabel' = nextLabel + 1
        /\ epoch' = epoch /\ tasks' = tasks
    BY DEF AddNew
  <1> HIDE DEF a
  <1>3. states \in Seq(Account) /\ nextLabel \in Nat /\ epoch \in Nat
    BY DEF IInv, TypeOK
  <1>4. DOMAIN states' = 1 .. (Len(states) + 1) /\ Idx = 1 .. Len(states)
        /\ Len(states) \in Nat
    BY <1>2, <1>3 DEF Idx
  <1>5. \A i \in Idx : states'[i] = states[i]
    BY <1>2, <1>3, <1>4
  <1>6. states'[Len(states) + 1] = a
    BY <1>2, <1>3
  <1>7. \A i \in Idx : /\ states[i].label \in Nat
                       /\ states[i].label < nextLabel
                       /\ states[i].cred.user # u
    <2>1. ~Pooled(u)
      BY DEF AddNew
    <2> QED
      BY <2>1, AccountAt DEF IInv, PoolDistinct, Distinct, Idx, Pooled, Account
  <1>8. \A i, j \in Idx : i # j => /\ states[i].label # states[j].label
                                   /\ states[i].cred.user # states[j].cred.user
    BY DEF IInv, PoolDistinct, Distinct, Idx
  <1>9. \A i \in DOMAIN states' : i \in Idx \/ i = Len(states) + 1
    BY <1>4
  <1>10. PoolDistinct'
    <2>1. \A i \in DOMAIN states' : states'[i].label < nextLabel'
      BY <1>1, <1>2, <1>3, <1>5, <1>6, <1>7, <1>9
    <2>2. ASSUME NEW i \in DOMAIN states', NEW j \in DOMAIN states', i # j
          PROVE  /\ states'[i].label # states'[j].label
                 /\ states'[i].cred.user # states'[j].cred.user
      <3>1. CASE i \in Idx /\ j \in Idx
        BY <1>5, <1>8, <2>2, <3>1
      <3>2. CASE i \in Idx /\ j = Len(states) + 1
        BY <1>1, <1>3, <1>5, <1>6, <1>7, <3>2
      <3>3. CASE i = Len(states) + 1 /\ j \in Idx
        BY <1>1, <1>3, <1>5, <1>6, <1>7, <3>3
      <3> QED
        BY <1>9, <2>2, <3>1, <3>2, <3>3
    <2> QED
      BY <2>1, <2>2 DEF PoolDistinct, Distinct
  <1>11. ASSUME NEW t \in tasks PROVE Known(t)'
    <2>1. Known(t) /\ t.id \in Id
      BY DEF IInv, TasksKnown, TypeOK, Task
    <2>2. \A i \in Idx : StateId(i)' = StateId(i)
      BY <1>2, <1>5 DEF StateId
    <2>3. ASSUME NEW i \in Idx', i = Len(states) + 1
          PROVE  StateId(i)' = <<epoch, nextLabel>>
      BY <1>1, <1>2, <1>6, <2>3 DEF StateId
    <2>4. t.id # <<epoch, nextLabel>>
      BY <1>3, <2>1 DEF Known, Id
    <2>5. \A i \in Idx' : t.id = StateId(i)' => states'[i].cred.user = t.before.user
      BY <1>5, <1>9, <2>1, <2>2, <2>3, <2>4 DEF Known, Idx
    <2>6. t.id[1] <= epoch /\ (t.id[1] = epoch => t.id[2] < nextLabel + 1)
      BY <1>3, <2>1 DEF Known, Id
    <2> QED
      BY <1>2, <2>1, <2>5, <2>6 DEF Known
  <1> QED
    BY <1>2, <1>10, <1>11 DEF TasksKnown

LEMMA RemoveDistinct ==
    ASSUME IInv, NEW o \in Operators, NEW k \in Idx, Remove(o, k)
    PROVE  PoolDistinct' /\ TasksKnown'
  <1>1. states \in Seq(Account) /\ k \in 1 .. Len(states) /\ Idx = 1 .. Len(states)
        /\ Len(states) \in Nat
    BY AccountAt DEF IInv, TypeOK, Idx
  <1>2. states' = Without(states, k) /\ nextLabel' = nextLabel /\ epoch' = epoch
        /\ tasks' = tasks
    BY DEF Remove
  <1> DEFINE from(i) == IF i < k THEN i ELSE i + 1
  <1>3. /\ DOMAIN states' = 1 .. (Len(states) - 1)
        /\ \A i \in DOMAIN states' : from(i) \in Idx /\ states'[i] = states[from(i)]
    <2>1. /\ DOMAIN Without(states, k) = 1 .. (Len(states) - 1)
          /\ \A i \in 1 .. (Len(states) - 1) :
                Without(states, k)[i] = IF i < k THEN states[i] ELSE states[i + 1]
      BY <1>1, WithoutType
    <2>2. /\ DOMAIN states' = 1 .. (Len(states) - 1)
          /\ \A i \in 1 .. (Len(states) - 1) :
                states'[i] = IF i < k THEN states[i] ELSE states[i + 1]
      BY <1>2, <2>1
    <2>3. ASSUME NEW i \in 1 .. (Len(states) - 1) PROVE from(i) \in Idx
      BY <1>1
    <2>4. ASSUME NEW i \in 1 .. (Len(states) - 1) PROVE states'[i] = states[from(i)]
      <3>1. states'[i] = IF i < k THEN states[i] ELSE states[i + 1]
        BY <2>2
      <3> QED
        BY <3>1
    <2> QED
      BY <2>2, <2>3, <2>4
  <1>4. \A i, j \in DOMAIN states' : i # j => from(i) # from(j)
    BY <1>1, <1>3
  <1>5. PoolDistinct'
    <2> HIDE DEF from
    <2> QED
      BY <1>2, <1>3, <1>4 DEF IInv, PoolDistinct, Distinct, Idx
  <1>6. ASSUME NEW t \in tasks PROVE Known(t)'
    <2> HIDE DEF from
    <2>1. \A i \in Idx' : /\ StateId(i)' = StateId(from(i))
                          /\ from(i) \in Idx
                          /\ states'[i].cred.user = states[from(i)].cred.user
      BY <1>2, <1>3 DEF StateId, Idx
    <2> QED
      BY <1>2, <2>1 DEF IInv, TasksKnown, Known
  <1> QED
    BY <1>2, <1>5, <1>6 DEF TasksKnown

LEMMA OperateDistinct ==
    ASSUME IInv, NEW o \in Operators, Operate(o)
    PROVE  IInv'
  <1>1. TypeOK'
    BY OperateType DEF IInv
  <1>2. ASSUME NEW i \in Idx, AddSame(o, i) \/ \E kind \in Kind : AddAgain(o, i, kind)
        PROVE  PoolDistinct' /\ TasksKnown'
    <2>1. PICK c : /\ states' = [states EXCEPT ![i] = Replaced(states[i], c)]
                   /\ c.user = states[i].cred.user
      <3>1. CASE AddSame(o, i)
        BY <3>1 DEF AddSame
      <3>2. ASSUME NEW kind \in Kind, AddAgain(o, i, kind)
            PROVE  \E c : /\ states' = [states EXCEPT ![i] = Replaced(states[i], c)]
                          /\ c.user = states[i].cred.user
        <4>1. NewCred(states[i].cred.user, kind).user = states[i].cred.user
          BY DEF NewCred
        <4>2. states' = [states EXCEPT ![i] = Replaced(states[i], NewCred(states[i].cred.user, kind))]
          BY <3>2 DEF AddAgain
        <4> QED
          BY <4>1, <4>2
      <3> QED
        BY <1>2, <3>1, <3>2
    <2>2. states[i] \in Account
      BY AccountAt DEF IInv
    <2>3. /\ Replaced(states[i], c).label = states[i].label
          /\ Replaced(states[i], c).cred.user = states[i].cred.user
      BY <2>1, <2>2 DEF Replaced, Account
    <2>4. UNCHANGED <<nextLabel, epoch, tasks>>
      BY <1>2 DEF AddSame, AddAgain
    <2>5. SameMembers
      BY <2>1, <2>3, <2>4, ExceptMembers DEF IInv
    <2> QED
      BY <2>4, <2>5, MembersKept DEF TasksFrom
  <1>3. ASSUME NEW s \in Strategy, SetStrategy(o, s)
        PROVE  PoolDistinct' /\ TasksKnown'
    BY <1>3, MembersKept DEF SetStrategy, SameMembers, TasksFrom
  <1>4. PoolDistinct' /\ TasksKnown'
    BY <1>2, <1>3, AddNewDistinct, RemoveDistinct DEF Operate, Add
  <1>5. disk' = disk /\ \E kind \in {"roster", "strategy"} : Persisted(o, kind)
    BY DEF Operate, Add, AddNew, AddSame, AddAgain, Remove, SetStrategy
  <1> QED
    BY <1>1, <1>4, <1>5, PersistedDistinct DEF IInv

-----------------------------------------------------------------------------
(* The requests' steps and the refresher's answers *)

\* A step that keeps every account in its place and at most saves the pool.
LEMMA Kept ==
    ASSUME IInv, TypeOK', SameMembers, TasksFrom, UNCHANGED <<disk, ops>>,
           UNCHANGED writes \/ EmitEvent \/ \E owner : Saved(owner)
    PROVE  IInv'
  <1>1. PoolDistinct' /\ TasksKnown'
    BY MembersKept
  <1>2. WritesDistinct'
    <2>1. CASE UNCHANGED writes
      BY <2>1 DEF IInv, WritesDistinct
    <2> QED
      BY <1>1, <2>1, SavedDistinct, EmitEventDistinct
  <1>3. WellFormed(disk)' /\ OpsDistinct'
    BY DEF IInv, OpsDistinct, WellFormed
  <1> QED
    BY <1>1, <1>2, <1>3 DEF IInv

LEMMA ServeDistinct ==
    ASSUME IInv, NEW c \in Callers, NEW i \in Idx,
           RefreshAccount(c, i) \/ HandOut(c, i),
           UNCHANGED <<nextLabel, epoch>>
    PROVE  SameMembers /\ TasksFrom
  <1>1. states[i] \in Account
    BY AccountAt DEF IInv
  <1>2. CASE UNCHANGED <<states, tasks>>
    BY <1>2 DEF SameMembers, TasksFrom
  <1>3. CASE CannotRefresh(c, i)
    <2> DEFINE a == [states[i] EXCEPT !.reauth = TRUE]
    <2>1. a.label = states[i].label /\ a.cred.user = states[i].cred.user
      BY <1>1 DEF Account
    <2>2. states' = [states EXCEPT ![i] = a] /\ tasks' = tasks
      BY <1>3 DEF CannotRefresh
    <2> HIDE DEF a
    <2> QED
      BY <2>1, <2>2, ExceptMembers DEF IInv, TasksFrom
  <1>4. CASE StartRefresh(c, i)
    <2> DEFINE a == [states[i] EXCEPT !.refreshing = TRUE]
    <2> DEFINE new == [id |-> StateId(i), by |-> c, before |-> states[i].cred,
                       fresh |-> states[i].cred, phase |-> "calling"]
    <2>1. a.label = states[i].label /\ a.cred.user = states[i].cred.user
      BY <1>1 DEF Account
    <2>2. states' = [states EXCEPT ![i] = a] /\ tasks' = tasks \cup {new}
      BY <1>4 DEF StartRefresh
    <2>3. /\ new.id = StateId(i)
          /\ new.before.user = states[i].cred.user
          /\ new.fresh.user = new.before.user
      OBVIOUS
    <2> HIDE DEF a, new
    <2> QED
      BY <2>1, <2>2, <2>3, ExceptMembers DEF IInv, TasksFrom
  <1> QED
    BY <1>2, <1>3, <1>4 DEF RefreshAccount, JoinRefresh, HandOut

LEMMA RequestDistinct ==
    ASSUME IInv, NEW c \in Callers, Request(c)
    PROVE  IInv'
  <1> TypeOK
    BY DEF IInv
  <1>1. TypeOK'
    BY GetCredentialType, RejectedType, ReportType DEF Request
  <1>2. CASE GetCredential(c)
    <2>1. PICK i \in Idx : GetRoundRobin(c, i) \/ GetRandom(c, i)
      BY <1>2 DEF GetCredential
    <2>2. SameMembers /\ TasksFrom
      BY <2>1, ServeDistinct DEF GetRoundRobin, GetRandom, Serve
    <2> QED
      BY <1>1, <2>1, <2>2, Kept DEF GetRoundRobin, GetRandom, storeVars
  <1>3. CASE RejectedByUpstream(c)
    <2>1. SameMembers /\ TasksFrom
      <3>1. CASE \E i \in Carrying(callers[c].cred) : RefreshAccount(c, i)
        BY <1>3, <3>1, ServeDistinct DEF RejectedByUpstream, Carrying
      <3>2. CASE UNCHANGED <<states, tasks>>
        BY <1>3, <3>2 DEF RejectedByUpstream, SameMembers, TasksFrom
      <3> QED
        BY <1>3, <3>1, <3>2 DEF RejectedByUpstream
    <2> QED
      BY <1>1, <1>3, <2>1, Kept DEF RejectedByUpstream, storeVars
  <1>4. CASE ReportFailure(c) \/ ReportSuccess(c) \/ Finish(c)
    <2>1. UNCHANGED <<nextLabel, epoch, tasks, disk, ops>>
          /\ (UNCHANGED writes \/ EmitEvent)
      BY <1>4 DEF ReportFailure, ReportSuccess, Finish, poolVars, storeVars
    <2>2. SameMembers
      <3>1. CASE UNCHANGED states
        BY <2>1, <3>1 DEF SameMembers
      <3>2. CASE states' # states
        <4>1. PICK i \in Idx : \E a \in {Penalised(states[i]), Recovered(states[i])} :
                                   states' = [states EXCEPT ![i] = a]
          BY <1>4, <3>2 DEF ReportFailure, ReportSuccess, Finish, Carrying, poolVars
        <4>2. \A a \in {Penalised(states[i]), Recovered(states[i])} :
                  a.label = states[i].label /\ a.cred = states[i].cred
          BY AccountAt DEF Penalised, Recovered, Account
        <4> QED
          BY <2>1, <4>1, <4>2, ExceptMembers
      <3> QED
        BY <3>1, <3>2
    <2> QED
      BY <1>1, <2>1, <2>2, Kept DEF TasksFrom
  <1> QED
    BY <1>2, <1>3, <1>4 DEF Request

LEMMA SettleFrom ==
    ASSUME NEW t, NEW outcome, Settle(t, outcome)
    PROVE  TasksFrom
  BY DEF Settle, TasksFrom

LEMMA AnsweredDistinct ==
    ASSUME IInv, NEW t \in tasks, RefreshAnswered(t)
    PROVE  IInv'
  <1> TypeOK
    BY DEF IInv
  <1>1. TypeOK'
    BY AnsweredType
  <1>2. \A i \in Located(t) : i \in Idx /\ t.id = StateId(i)
    BY DEF Located
  <1>3. CASE RefreshOrphaned(t)
    <2>1. SameMembers
      BY <1>3 DEF RefreshOrphaned, poolVars, SameMembers
    <2> QED
      BY <1>1, <1>3, <2>1, SettleFrom, Kept DEF RefreshOrphaned, storeVars
  <1>4. CASE RefreshOvertaken(t)
    <2>1. PICK i \in Idx : states' = [states EXCEPT ![i].refreshing = FALSE]
      BY <1>2, <1>4 DEF RefreshOvertaken
    <2> DEFINE a == [states[i] EXCEPT !.refreshing = FALSE]
    <2>2. a.label = states[i].label /\ a.cred.user = states[i].cred.user
      BY AccountAt DEF Account
    <2>3. states' = [states EXCEPT ![i] = a]
      BY <2>1
    <2> HIDE DEF a
    <2>4. SameMembers
      BY <1>4, <2>2, <2>3, ExceptMembers DEF RefreshOvertaken
    <2> QED
      BY <1>1, <1>4, <2>4, SettleFrom, Kept DEF RefreshOvertaken, storeVars
  <1>5. ASSUME NEW u \in Users, RefreshSucceeded(t, u)
        PROVE  IInv'
    <2> DEFINE fresh == NewCred(u, "renewable")
    <2>1. fresh.user = t.before.user
      BY <1>5 DEF RefreshSucceeded, SameIdentity
    <2>2. PICK i \in Located(t) :
              states' = [states EXCEPT ![i].cred = fresh,
                                       ![i].refreshing = (Wiring = "store")]
      BY <1>5 DEF RefreshSucceeded
    <2> DEFINE a == [states[i] EXCEPT !.cred = fresh, !.refreshing = (Wiring = "store")]
    <2>3. i \in Idx /\ states[i] \in Account /\ states \in Seq(Account)
      BY <1>2, <2>2, AccountAt DEF TypeOK
    <2>4. states' = [states EXCEPT ![i] = a]
      BY <2>2, <2>3
    <2>5. states[i].cred.user = t.before.user
      BY <1>2, <2>2, <2>3 DEF IInv, TasksKnown, Known
    <2>6. a.label = states[i].label /\ a.cred.user = states[i].cred.user
      BY <2>1, <2>3, <2>5 DEF Account
    <2>7. UNCHANGED <<nextLabel, epoch, disk, ops>>
      BY <1>5 DEF RefreshSucceeded
    <2>8. SameMembers
      <3> HIDE DEF a, fresh
      <3> QED BY <2>3, <2>4, <2>6, <2>7, ExceptMembers
    <2>9. TasksFrom /\ (UNCHANGED writes \/ \E owner : Saved(owner))
      <3>1. CASE Wiring = "store"
        <4> DEFINE new == [t EXCEPT !.fresh = fresh, !.phase = "saving"]
        <4>1. tasks' = (tasks \ {t}) \cup {new} /\ \E owner : Saved(owner)
          BY <1>5, <3>1 DEF RefreshSucceeded
        <4>2. t \in Task
          BY DEF TypeOK
        <4>3. new.id = t.id /\ new.before = t.before /\ new.fresh.user = t.before.user
          BY <2>1, <4>2 DEF Task
        <4> HIDE DEF new, fresh
        <4> QED
          BY <4>1, <4>3 DEF TasksFrom
      <3>2. CASE Wiring # "store"
        <4>1. Settle(t, Holding(fresh)) /\ UNCHANGED writes
          BY <1>5, <3>2 DEF RefreshSucceeded
        <4> QED
          BY <4>1, SettleFrom
      <3> QED
        BY <3>1, <3>2
    <2> QED
      BY <1>1, <2>7, <2>8, <2>9, Kept
  <1>6. CASE RefreshRefused(t) \/ RefreshFailed(t)
    <2>1. PICK i \in Idx : \/ states' = [states EXCEPT ![i].reauth = TRUE, ![i].refreshing = FALSE]
                           \/ states' = [states EXCEPT ![i] =
                                            [Penalised(@) EXCEPT !.refreshing = FALSE]]
      BY <1>2, <1>6 DEF RefreshRefused, RefreshFailed
    <2> DEFINE a == [states[i] EXCEPT !.reauth = TRUE, !.refreshing = FALSE]
    <2> DEFINE b == [Penalised(states[i]) EXCEPT !.refreshing = FALSE]
    <2>2. states[i] \in Account /\ Penalised(states[i]) \in Account /\ states \in Seq(Account)
      BY AccountAt, FlagType DEF TypeOK
    <2>3. a.label = states[i].label /\ a.cred = states[i].cred
      BY <2>2 DEF Account
    <2>4. b.label = states[i].label /\ b.cred = states[i].cred
      BY <2>2 DEF Account, Penalised
    <2>5. states' = [states EXCEPT ![i] = a] \/ states' = [states EXCEPT ![i] = b]
      BY <2>1, <2>2
    <2>6. UNCHANGED <<nextLabel, epoch, disk, ops>> /\ (UNCHANGED writes \/ EmitEvent)
          /\ Settle(t, Idle)
      BY <1>6 DEF RefreshRefused, RefreshFailed, storeVars
    <2> HIDE DEF a, b
    <2>7. SameMembers
      BY <2>3, <2>4, <2>5, <2>6, ExceptMembers
    <2> QED
      BY <1>1, <2>6, <2>7, SettleFrom, Kept
  <1> QED
    BY <1>3, <1>4, <1>5, <1>6 DEF RefreshAnswered

-----------------------------------------------------------------------------
(* Saves that end, rollbacks, time and crashes *)

\* An account rebuilt in place keeps its label and user.
LEMMA SaveEndsDistinct ==
    ASSUME IInv, NEW k \in Due, SaveEnds(k)
    PROVE  IInv'
  <1> TypeOK
    BY DEF IInv
  <1>1. TypeOK'
    BY SaveEndsType
  <1>2. \E owner : SaveApplied(k, owner) \/ SaveFailed(k, owner)
    BY DEF SaveEnds, SinkSaveEnds, OpSaved, RosterRollback, StrategyRollback,
           RefreshSaved, RefreshUnsaved
  <1>3. WellFormed(disk)' /\ WritesDistinct'
    BY <1>2, SaveDistinct
  <1>4. ASSUME SameMembers, TasksFrom,
               UNCHANGED ops \/ \E o \in Operators : ops' = [ops EXCEPT ![o] = NoOp]
        PROVE  IInv'
    <2>1. OpsDistinct'
      BY <1>4, EndedDistinct DEF IInv, OpsDistinct
    <2> QED
      BY <1>1, <1>3, <1>4, <2>1, MembersKept DEF IInv
  <1>5. CASE SinkSaveEnds(k)
    BY <1>4, <1>5 DEF SinkSaveEnds, poolVars, SameMembers, TasksFrom
  <1>6. ASSUME NEW o \in Operators, OpSaved(k, o) \/ StrategyRollback(k, o)
        PROVE  IInv'
    BY <1>4, <1>6 DEF OpSaved, StrategyRollback, poolVars, SameMembers, TasksFrom
  <1>7. ASSUME NEW o \in Operators, RosterRollback(k, o)
        PROVE  IInv'
    <2> DEFINE before == ops[o].before
    <2>1. before \in Snapshot /\ WellFormed(before)
      BY DEF IInv, TypeOK, Op, OpsDistinct
    <2>2. states' = Restored(before) /\ nextLabel' = before.nextLabel
          /\ epoch' = epoch + 1 /\ tasks' = tasks /\ ops' = [ops EXCEPT ![o] = NoOp]
      BY <1>7 DEF RosterRollback
    <2> HIDE DEF before
    <2>3. PoolDistinct'
      BY <2>1, <2>2, RestoredDistinct DEF PoolDistinct
    <2>4. ASSUME NEW t \in tasks PROVE Known(t)'
      <3>1. Known(t) /\ t.id \in Id /\ epoch \in Nat
        BY DEF IInv, TasksKnown, TypeOK, Task
      <3>2. t.id[1] < epoch + 1
        BY <3>1 DEF Known, Id
      <3>3. \A i \in Idx' : StateId(i)' = <<epoch + 1, states'[i].label>>
        BY <2>2 DEF StateId
      <3>4. \A i \in Idx' : t.id # StateId(i)'
        BY <3>1, <3>2, <3>3 DEF Id
      <3> QED
        BY <2>2, <3>1, <3>2, <3>4 DEF Known, Id
    <2>5. TasksKnown'
      BY <2>2, <2>4 DEF TasksKnown
    <2>6. OpsDistinct'
      BY <2>2, EndedDistinct
    <2> QED
      BY <1>1, <1>3, <2>3, <2>5, <2>6 DEF IInv
  <1>8. ASSUME NEW t \in tasks, RefreshSaved(k, t) \/ RefreshUnsaved(k, t)
        PROVE  IInv'
    <2>1. UNCHANGED <<nextLabel, epoch, ops>> /\ \E outcome : Settle(t, outcome)
      BY <1>8 DEF RefreshSaved, RefreshUnsaved
    <2>2. DOMAIN states' = Idx
      BY <1>8 DEF RefreshSaved, RefreshUnsaved
    <2>3. ASSUME NEW i \in Idx
          PROVE  /\ states'[i].label = states[i].label
                 /\ states'[i].cred.user = states[i].cred.user
      <3>1. states[i] \in Account
        BY AccountAt
      <3> DEFINE quiet == [states[i] EXCEPT !.refreshing = FALSE]
      <3> DEFINE back == [states[i] EXCEPT !.cred = t.before, !.refreshing = FALSE]
      <3>2. \/ states'[i] = states[i]
            \/ states'[i] = quiet
            \/ i \in Located(t) /\ states'[i] = Penalised(back)
        BY <1>8 DEF RefreshSaved, RefreshUnsaved
      <3>3. quiet.label = states[i].label /\ quiet.cred = states[i].cred
        BY <3>1 DEF Account
      <3>4. i \in Located(t) => t.before.user = states[i].cred.user
        BY DEF Located, IInv, TasksKnown, Known
      <3>5. Penalised(back).label = states[i].label /\ Penalised(back).cred = t.before
        BY <3>1 DEF Account, Penalised
      <3> HIDE DEF quiet, back
      <3> QED
        BY <3>2, <3>3, <3>4, <3>5
    <2>4. SameMembers
      BY <2>1, <2>2, <2>3 DEF SameMembers, Idx
    <2> QED
      BY <1>4, <2>1, <2>4, SettleFrom
  <1> QED
    BY <1>5, <1>6, <1>7, <1>8 DEF SaveEnds

LEMMA TimeDistinct ==
    ASSUME IInv, Tick \/ \E i \in Idx : NearsExpiry(i) \/ MarkReauthRequired(i)
    PROVE  IInv'
  <1> TypeOK
    BY DEF IInv
  <1>1. TypeOK'
    <2>1. [Next]_vars
      BY DEF Next
    <2> QED
      BY <2>1, NextType
  <1>2. CASE Tick
    <2>1. ASSUME NEW i \in Idx
          PROVE  states'[i].label = states[i].label /\ states'[i].cred = states[i].cred
      BY <1>2, AccountAt DEF Tick, Account
    <2>2. SameMembers
      BY <1>2, <2>1 DEF Tick, SameMembers, Idx
    <2> QED
      BY <1>1, <1>2, <2>2, Kept DEF Tick, TasksFrom, storeVars
  <1>3. ASSUME NEW i \in Idx, NearsExpiry(i)
        PROVE  IInv'
    <2>1. SameMembers
      BY <1>3 DEF NearsExpiry, poolVars, SameMembers
    <2> QED
      BY <1>1, <1>3, <2>1, Kept DEF NearsExpiry, TasksFrom, storeVars
  <1>4. ASSUME NEW i \in Idx, MarkReauthRequired(i)
        PROVE  IInv'
    <2> DEFINE a == [states[i] EXCEPT !.reauth = TRUE]
    <2>1. a.label = states[i].label /\ a.cred.user = states[i].cred.user
      BY AccountAt DEF Account
    <2>2. states' = [states EXCEPT ![i] = a]
      BY <1>4 DEF MarkReauthRequired
    <2> HIDE DEF a
    <2>3. SameMembers
      BY <1>4, <2>1, <2>2, ExceptMembers DEF MarkReauthRequired
    <2> QED
      BY <1>1, <1>4, <2>3, Kept DEF MarkReauthRequired, TasksFrom
  <1> QED
    BY <1>2, <1>3, <1>4

LEMMA RestartDistinct ==
    ASSUME IInv, Restart
    PROVE  IInv'
  <1>1. TypeOK'
    BY RestartType DEF IInv
  <1>2. disk \in Snapshot /\ WellFormed(disk)
    BY DEF IInv, TypeOK
  <1>3. states' = Restored(disk) /\ nextLabel' = disk.nextLabel /\ disk' = disk
        /\ tasks' = {} /\ writes' = <<>> /\ ops' = [o \in Operators |-> NoOp]
    BY DEF Restart
  <1>4. PoolDistinct'
    BY <1>2, <1>3, RestoredDistinct DEF PoolDistinct
  <1>5. WellFormed(disk)' /\ WritesDistinct' /\ TasksKnown'
    BY <1>2, <1>3 DEF WellFormed, WritesDistinct, TasksKnown
  <1>6. OpsDistinct'
    BY <1>3, NoOpDistinct DEF OpsDistinct
  <1> QED
    BY <1>1, <1>4, <1>5, <1>6 DEF IInv

LEMMA NextDistinct == IInv /\ [Next]_vars => IInv'
  <1> SUFFICES ASSUME IInv, [Next]_vars PROVE IInv'
    OBVIOUS
  <1>1. CASE UNCHANGED vars
    BY <1>1 DEF vars, IInv, TypeOK, PoolDistinct, TasksKnown, Known, Idx, StateId,
                WellFormed, WritesDistinct, OpsDistinct
  <1> QED
    BY <1>1, OperateDistinct, RequestDistinct, AnsweredDistinct, SaveEndsDistinct,
       TimeDistinct, RestartDistinct DEF Next

\* No two accounts of the pool share an identity or a label, in memory, in a
\* pending save, in what an operation would go back to, or on disk: add() may
\* rely on finding the one account of an identity (credential-pool.ts:127), and
\* remove() on finding the one account of a label.
THEOREM AccountsAreDistinct == Spec => []DistinctAccounts
  <1>1. IInv => DistinctAccounts
    BY PoolSnapshotDistinct DEF IInv, DistinctAccounts, WritesDistinct, OpsDistinct
  <1> QED
    BY <1>1, InitDistinct, NextDistinct, PTL DEF Spec
-----------------------------------------------------------------------------
(* What the saves under way leave on the disk                              *)
(*                                                                         *)
(* Saves are applied in order, so the pool is on its way to the disk if it *)
(* is what the last of them carries, or what the disk has if there is none.*)
(* A step that changes the roster hands over a save, except that of a      *)
(* refresh in a pool wired as main.ts does it: it changes a credential     *)
(* and no member.                                                          *)

Latest == IF writes = <<>> THEN disk ELSE writes[Len(writes)].snap

RosterOnItsWay == faults = 0 => Members(Latest) = Members(PoolSnapshot)
CredentialsOnTheirWay == faults = 0 => Latest = PoolSnapshot

SameSnapshot ==
    /\ UNCHANGED <<nextLabel, strategy>>
    /\ DOMAIN states' = DOMAIN states
    /\ \A i \in Idx : /\ states'[i].label = states[i].label
                      /\ states'[i].cred = states[i].cred

LEMMA SnapshotKept ==
    ASSUME SameSnapshot
    PROVE  PoolSnapshot' = PoolSnapshot
  BY DEF SameSnapshot, PoolSnapshot, Roster, Idx

LEMMA ExceptSnapshot ==
    ASSUME TypeOK, NEW i \in Idx, NEW a,
           a.label = states[i].label, a.cred = states[i].cred,
           states' = [states EXCEPT ![i] = a],
           UNCHANGED <<nextLabel, strategy>>
    PROVE  SameSnapshot
  BY DEF SameSnapshot, Idx

LEMMA MembersOfSame ==
    ASSUME SameMembers, UNCHANGED strategy
    PROVE  Members(PoolSnapshot') = Members(PoolSnapshot)
  <1> DEFINE member(sts, i) == [label |-> sts[i].label, user |-> sts[i].cred.user]
  <1>1. \A sts : /\ DOMAIN Roster(sts) = DOMAIN sts
                 /\ \A i \in DOMAIN sts : /\ Roster(sts)[i].label = sts[i].label
                                          /\ Roster(sts)[i].cred = sts[i].cred
    BY DEF Roster
  <1>2. /\ Members(PoolSnapshot) =
              [strategy |-> strategy, nextLabel |-> nextLabel,
               accounts |-> [i \in DOMAIN states |-> member(states, i)]]
        /\ Members(PoolSnapshot') =
              [strategy |-> strategy', nextLabel |-> nextLabel',
               accounts |-> [i \in DOMAIN states' |-> member(states', i)]]
    BY <1>1 DEF Members, PoolSnapshot
  <1>3. [i \in DOMAIN states' |-> member(states', i)] = [i \in DOMAIN states |-> member(states, i)]
    BY DEF SameMembers
  <1> QED
    BY <1>2, <1>3 DEF SameMembers

\* the ways a step treats roster and saves
HandsOver == UNCHANGED disk /\ \E owner : Saved(owner)
ChangesNone == UNCHANGED <<writes, disk>> /\ SameSnapshot
ChangesCredential == Wiring = "sink" /\ UNCHANGED <<writes, disk, strategy>> /\ SameMembers
Lands == SameSnapshot /\ \E k \in Due : \E owner : SaveApplied(k, owner)
Fails == faults' = faults + 1

Orderly == HandsOver \/ ChangesNone \/ ChangesCredential \/ Lands \/ Fails \/ Restart

LEMMA EventOrderly ==
    ASSUME UNCHANGED disk, EmitEvent, SameSnapshot
    PROVE  Orderly
  BY DEF EmitEvent, Orderly, HandsOver, ChangesNone

LEMMA OperateOrderly ==
    ASSUME Wiring # "memory", NEW o \in Operators, Operate(o)
    PROVE  Orderly
  <1>1. UNCHANGED disk /\ \E kind : Persisted(o, kind)
    BY DEF Operate, Add, AddNew, AddSame, AddAgain, Remove, SetStrategy
  <1>2. \E owner : Saved(owner)
    BY <1>1, WiringIsKnown DEF Persisted, EmitEvent
  <1> QED
    BY <1>1, <1>2 DEF Orderly, HandsOver

LEMMA ServeOrderly ==
    ASSUME TypeOK, NEW c \in Callers, NEW i \in Idx,
           RefreshAccount(c, i) \/ HandOut(c, i),
           UNCHANGED <<nextLabel, strategy>>
    PROVE  SameSnapshot
  <1>1. states[i] \in Account
    BY AccountAt
  <1>2. CASE UNCHANGED states
    BY <1>2 DEF SameSnapshot
  <1>3. CASE CannotRefresh(c, i) \/ StartRefresh(c, i)
    <2>1. PICK a \in Account : /\ states' = [states EXCEPT ![i] = a]
                               /\ a.label = states[i].label /\ a.cred = states[i].cred
      <3>1. \/ states' = [states EXCEPT ![i] = [states[i] EXCEPT !.reauth = TRUE]]
            \/ states' = [states EXCEPT ![i] = [states[i] EXCEPT !.refreshing = TRUE]]
        BY <1>3 DEF CannotRefresh, StartRefresh
      <3>2. \A a \in {[states[i] EXCEPT !.reauth = TRUE], [states[i] EXCEPT !.refreshing = TRUE]} :
                a \in Account /\ a.label = states[i].label /\ a.cred = states[i].cred
        BY <1>1 DEF Account
      <3> QED
        BY <3>1, <3>2
    <2> QED
      BY <2>1, ExceptSnapshot
  <1> QED
    BY <1>2, <1>3 DEF RefreshAccount, JoinRefresh, HandOut

LEMMA RequestOrderly ==
    ASSUME IInv, NEW c \in Callers, Request(c)
    PROVE  Orderly
  <1> TypeOK
    BY DEF IInv
  <1>1. CASE GetCredential(c)
    <2>1. PICK i \in Idx : GetRoundRobin(c, i) \/ GetRandom(c, i)
      BY <1>1 DEF GetCredential
    <2>2. SameSnapshot
      BY <2>1, ServeOrderly DEF GetRoundRobin, GetRandom, Serve
    <2> QED
      BY <2>1, <2>2 DEF GetRoundRobin, GetRandom, storeVars, Orderly, ChangesNone
  <1>2. CASE RejectedByUpstream(c)
    <2>1. UNCHANGED <<nextLabel, strategy, writes, disk>>
      BY <1>2 DEF RejectedByUpstream, storeVars
    <2>2. SameSnapshot
      <3>1. CASE \E i \in Carrying(callers[c].cred) : RefreshAccount(c, i)
        BY <2>1, <3>1, ServeOrderly DEF Carrying
      <3>2. CASE UNCHANGED <<states, tasks>>
        BY <2>1, <3>2 DEF SameSnapshot
      <3> QED
        BY <1>2, <3>1, <3>2 DEF RejectedByUpstream
    <2> QED
      BY <2>1, <2>2 DEF Orderly, ChangesNone
  <1>3. CASE ReportFailure(c) \/ ReportSuccess(c) \/ Finish(c)
    <2>1. UNCHANGED <<nextLabel, strategy, disk>> /\ (UNCHANGED writes \/ EmitEvent)
      BY <1>3 DEF ReportFailure, ReportSuccess, Finish, poolVars, storeVars
    <2>2. SameSnapshot
      <3>1. CASE UNCHANGED states
        BY <2>1, <3>1 DEF SameSnapshot
      <3>2. CASE states' # states
        <4>1. PICK i \in Idx : \E a \in {Penalised(states[i]), Recovered(states[i])} :
                                   states' = [states EXCEPT ![i] = a]
          BY <1>3, <3>2 DEF ReportFailure, ReportSuccess, Finish, Carrying, poolVars
        <4>2. \A a \in {Penalised(states[i]), Recovered(states[i])} :
                  a.label = states[i].label /\ a.cred = states[i].cred
          BY AccountAt DEF Penalised, Recovered, Account
        <4> QED
          BY <2>1, <4>1, <4>2, ExceptSnapshot
      <3> QED
        BY <3>1, <3>2
    <2> QED
      BY <2>1, <2>2, EventOrderly DEF Orderly, ChangesNone
  <1> QED
    BY <1>1, <1>2, <1>3 DEF Request

LEMMA AnsweredOrderly ==
    ASSUME Wiring # "memory", IInv, NEW t \in tasks, RefreshAnswered(t)
    PROVE  Orderly
  <1> TypeOK
    BY DEF IInv
  <1>1. \A i \in Located(t) : i \in Idx /\ t.id = StateId(i)
    BY DEF Located
  <1>2. CASE RefreshOrphaned(t)
    BY <1>2 DEF RefreshOrphaned, poolVars, storeVars, Orderly, ChangesNone, SameSnapshot
  <1>3. ASSUME NEW u \in Users, RefreshSucceeded(t, u)
        PROVE  Orderly
    <2> DEFINE fresh == NewCred(u, "renewable")
    <2>1. CASE Wiring = "store"
      BY <1>3, <2>1 DEF RefreshSucceeded, Orderly, HandsOver
    <2>2. CASE Wiring = "sink"
      <3>1. fresh.user = t.before.user /\ UNCHANGED <<nextLabel, epoch, strategy, disk>>
            /\ UNCHANGED writes
        BY <1>3, <2>2 DEF RefreshSucceeded, SameIdentity
      <3>2. PICK i \in Located(t) :
                states' = [states EXCEPT ![i].cred = fresh,
                                         ![i].refreshing = (Wiring = "store")]
        BY <1>3 DEF RefreshSucceeded
      <3> DEFINE a == [states[i] EXCEPT !.cred = fresh, !.refreshing = (Wiring = "store")]
      <3>3. i \in Idx /\ states[i] \in Account /\ states \in Seq(Account)
        BY <1>1, <3>2, AccountAt DEF TypeOK
      <3>4. states' = [states EXCEPT ![i] = a]
        BY <3>2, <3>3
      <3>5. states[i].cred.user = t.before.user
        BY <1>1, <3>2, <3>3 DEF IInv, TasksKnown, Known
      <3>6. a.label = states[i].label /\ a.cred.user = states[i].cred.user
        BY <3>1, <3>3, <3>5 DEF Account
      <3> HIDE DEF a, fresh
      <3>7. SameMembers
        BY <3>1, <3>3, <3>4, <3>6, ExceptMembers
      <3> QED
        BY <2>2, <3>1, <3>7 DEF Orderly, ChangesCredential
    <2> QED
      BY <2>1, <2>2, WiringIsKnown
  <1>4. CASE RefreshOvertaken(t) \/ RefreshRefused(t) \/ RefreshFailed(t)
    <2>1. UNCHANGED <<nextLabel, strategy, disk>> /\ (UNCHANGED writes \/ EmitEvent)
      BY <1>4 DEF RefreshOvertaken, RefreshRefused, RefreshFailed, storeVars
    <2>2. PICK i \in Idx : \/ states' = [states EXCEPT ![i].refreshing = FALSE]
                           \/ states' = [states EXCEPT ![i].reauth = TRUE, ![i].refreshing = FALSE]
                           \/ states' = [states EXCEPT ![i] =
                                            [Penalised(@) EXCEPT !.refreshing = FALSE]]
      BY <1>1, <1>4 DEF RefreshOvertaken, RefreshRefused, RefreshFailed
    <2>3. states[i] \in Account /\ Penalised(states[i]) \in Account /\ states \in Seq(Account)
      BY AccountAt, FlagType DEF TypeOK
    <2>4. PICK a : /\ states' = [states EXCEPT ![i] = a]
                   /\ a.label = states[i].label /\ a.cred = states[i].cred
      <3>1. CASE states' = [states EXCEPT ![i].refreshing = FALSE]
        <4> DEFINE a == [states[i] EXCEPT !.refreshing = FALSE]
        <4>1. states' = [states EXCEPT ![i] = a] /\ a.label = states[i].label /\ a.cred = states[i].cred
          BY <2>3, <3>1 DEF Account
        <4> QED
          BY <4>1
      <3>2. CASE states' = [states EXCEPT ![i].reauth = TRUE, ![i].refreshing = FALSE]
        <4> DEFINE a == [states[i] EXCEPT !.reauth = TRUE, !.refreshing = FALSE]
        <4>1. states' = [states EXCEPT ![i] = a] /\ a.label = states[i].label /\ a.cred = states[i].cred
          BY <2>3, <3>2 DEF Account
        <4> QED
          BY <4>1
      <3>3. CASE states' = [states EXCEPT ![i] = [Penalised(@) EXCEPT !.refreshing = FALSE]]
        <4> DEFINE a == [Penalised(states[i]) EXCEPT !.refreshing = FALSE]
        <4>1. states' = [states EXCEPT ![i] = a]
          BY <3>3
        <4>2. a.label = states[i].label /\ a.cred = states[i].cred
          BY <2>3 DEF Account, Penalised
        <4> QED
          BY <4>1, <4>2
      <3> QED
        BY <2>2, <3>1, <3>2, <3>3
    <2>5. SameSnapshot
      BY <2>1, <2>4, ExceptSnapshot
    <2> QED
      BY <2>1, <2>5, EventOrderly DEF Orderly, ChangesNone
  <1> QED
    BY <1>2, <1>3, <1>4 DEF RefreshAnswered

LEMMA SaveEndsOrderly ==
    ASSUME IInv, NEW k \in Due, SaveEnds(k)
    PROVE  Orderly
  <1>1. ASSUME NEW owner, SaveFailed(k, owner) PROVE Orderly
    BY <1>1 DEF SaveFailed, Orderly, Fails
  <1>2. ASSUME NEW owner, SaveApplied(k, owner), SameSnapshot PROVE Orderly
    BY <1>2 DEF Orderly, Lands
  <1>3. CASE SinkSaveEnds(k)
    BY <1>1, <1>2, <1>3 DEF SinkSaveEnds, poolVars, SameSnapshot
  <1>4. ASSUME NEW o \in Operators,
               OpSaved(k, o) \/ RosterRollback(k, o) \/ StrategyRollback(k, o)
        PROVE  Orderly
    BY <1>1, <1>2, <1>4 DEF OpSaved, RosterRollback, StrategyRollback, poolVars, SameSnapshot
  <1>5. ASSUME NEW t \in tasks, RefreshSaved(k, t) PROVE Orderly
    <2>1. ASSUME NEW i \in Idx
          PROVE  states'[i].label = states[i].label /\ states'[i].cred = states[i].cred
      <3>1. states[i] \in Account
        BY AccountAt DEF IInv
      <3>2. states'[i] = states[i] \/ states'[i] = [states[i] EXCEPT !.refreshing = FALSE]
        BY <1>5 DEF RefreshSaved
      <3> QED
        BY <3>1, <3>2 DEF Account
    <2>2. SameSnapshot
      BY <1>5, <2>1 DEF RefreshSaved, SameSnapshot, Idx
    <2> QED
      BY <1>2, <1>5, <2>2 DEF RefreshSaved
  <1>6. ASSUME NEW t \in tasks, RefreshUnsaved(k, t) PROVE Orderly
    BY <1>1, <1>6 DEF RefreshUnsaved
  <1> QED
    BY <1>3, <1>4, <1>5, <1>6 DEF SaveEnds

LEMMA TimeOrderly ==
    ASSUME IInv, Tick \/ \E i \in Idx : NearsExpiry(i) \/ MarkReauthRequired(i)
    PROVE  Orderly
  <1> TypeOK
    BY DEF IInv
  <1>1. CASE Tick
    <2>1. ASSUME NEW i \in Idx
          PROVE  states'[i].label = states[i].label /\ states'[i].cred = states[i].cred
      BY <1>1, AccountAt DEF Tick, Account
    <2> QED
      BY <1>1, <2>1 DEF Tick, storeVars, SameSnapshot, Idx, Orderly, ChangesNone
  <1>2. ASSUME NEW i \in Idx, NearsExpiry(i) PROVE Orderly
    BY <1>2 DEF NearsExpiry, poolVars, storeVars, SameSnapshot, Orderly, ChangesNone
  <1>3. ASSUME NEW i \in Idx, MarkReauthRequired(i) PROVE Orderly
    <2> DEFINE a == [states[i] EXCEPT !.reauth = TRUE]
    <2>1. a.label = states[i].label /\ a.cred = states[i].cred
      BY AccountAt DEF Account
    <2>2. states' = [states EXCEPT ![i] = a] /\ UNCHANGED <<nextLabel, strategy, disk>> /\ EmitEvent
      BY <1>3 DEF MarkReauthRequired
    <2> HIDE DEF a
    <2> QED
      BY <2>1, <2>2, ExceptSnapshot, EventOrderly
  <1> QED
    BY <1>1, <1>2, <1>3

LEMMA NextOrderly ==
    ASSUME Wiring # "memory", IInv, [Next]_vars
    PROVE  Orderly
  <1>1. CASE UNCHANGED vars
    BY <1>1 DEF vars, SameSnapshot, Orderly, ChangesNone
  <1>2. CASE Restart
    BY <1>2 DEF Orderly
  <1> QED
    BY <1>1, <1>2, OperateOrderly, RequestOrderly, AnsweredOrderly, SaveEndsOrderly,
       TimeOrderly DEF Next

LEMMA LatestHandedOver ==
    ASSUME TypeOK, NEW owner, Saved(owner)
    PROVE  Latest' = PoolSnapshot'
  <1> DEFINE w == [snap |-> PoolSnapshot', owner |-> owner]
  <1>1. writes' = Append(writes, w) /\ w.snap = PoolSnapshot'
    BY DEF Saved
  <1> HIDE DEF w
  <1>2. writes \in Seq(Write)
    BY DEF TypeOK
  <1>3. writes' # <<>> /\ writes'[Len(writes')] = w
    BY <1>1, <1>2
  <1> QED
    BY <1>1, <1>3 DEF Latest

LEMMA LatestLands ==
    ASSUME InOrder, TypeOK, NEW k \in Due, NEW owner, SaveApplied(k, owner)
    PROVE  Latest' = Latest
  <1>1. writes' = Without(writes, 1) /\ disk' = writes[1].snap /\ writes # <<>>
        /\ 1 \in 1 .. Len(writes) /\ k = 1
    BY DEF SaveApplied, Due, TypeOK
  <1>2. writes \in Seq(Write) /\ Len(writes) \in Nat
    BY DEF TypeOK
  <1>3. /\ Without(writes, 1) \in Seq(Write)
        /\ Len(Without(writes, 1)) = Len(writes) - 1
        /\ \A i \in 1 .. (Len(writes) - 1) :
             Without(writes, 1)[i] = IF i < 1 THEN writes[i] ELSE writes[i + 1]
    BY <1>1, <1>2, WithoutType
  <1>4. CASE Len(writes) = 1
    <2>1. writes' = <<>>
      BY <1>1, <1>3, <1>4
    <2> QED
      BY <1>1, <1>4, <2>1 DEF Latest
  <1>5. CASE Len(writes) # 1
    <2>1. Len(writes) - 1 \in 1 .. (Len(writes) - 1) /\ ~(Len(writes) - 1 < 1)
          /\ (Len(writes) - 1) + 1 = Len(writes)
      <3>1. PICK n \in Nat : n = Len(writes)
        BY <1>2
      <3>2. n >= 1 /\ n # 1
        BY <1>1, <1>5, <3>1
      <3>3. n - 1 \in 1 .. (n - 1) /\ ~(n - 1 < 1) /\ (n - 1) + 1 = n
        BY <3>2
      <3> QED
        BY <3>1, <3>3
    <2>2. Without(writes, 1)[Len(writes) - 1] = writes[Len(writes)]
      <3>1. PICK last \in 1 .. (Len(writes) - 1) :
                last = Len(writes) - 1 /\ ~(last < 1) /\ last + 1 = Len(writes)
        BY <2>1
      <3>2. Without(writes, 1)[last] = IF last < 1 THEN writes[last] ELSE writes[last + 1]
        BY <1>3
      <3>3. Without(writes, 1)[last] = writes[last + 1]
        BY <3>1, <3>2
      <3> QED
        BY <3>1, <3>3
    <2>3. writes' # <<>> /\ writes'[Len(writes')] = writes[Len(writes)]
      BY <1>1, <1>3, <2>1, <2>2
    <2> QED
      BY <1>1, <2>3 DEF Latest
  <1> QED
    BY <1>4, <1>5

LEMMA LatestRestored ==
    ASSUME TypeOK, Restart
    PROVE  Latest' = PoolSnapshot'
  <1>1. /\ disk' = disk /\ writes' = <<>> /\ states' = Restored(disk)
        /\ strategy' = disk.strategy /\ nextLabel' = disk.nextLabel
    BY DEF Restart
  <1>2. disk \in Snapshot /\ Roster(Restored(disk)) = disk.accounts
    BY RestoredType DEF TypeOK
  <1>3. disk = [strategy |-> disk.strategy, nextLabel |-> disk.nextLabel,
                accounts |-> disk.accounts]
    BY <1>2 DEF Snapshot
  <1> QED
    BY <1>1, <1>2, <1>3 DEF Latest, PoolSnapshot

LEMMA NextOnItsWay ==
    ASSUME Wiring # "memory", InOrder, IInv, [Next]_vars
    PROVE  /\ RosterOnItsWay => RosterOnItsWay'
           /\ Wiring = "store" /\ CredentialsOnTheirWay => CredentialsOnTheirWay'
  <1>1. TypeOK /\ faults \in Nat
    BY DEF IInv, TypeOK
  <1>2. ASSUME Latest' = PoolSnapshot'
        PROVE  RosterOnItsWay' /\ CredentialsOnTheirWay'
    BY <1>2 DEF RosterOnItsWay, CredentialsOnTheirWay, Members
  <1>3. CASE HandsOver \/ Restart
    BY <1>1, <1>2, <1>3, LatestHandedOver, LatestRestored DEF HandsOver
  <1>4. ASSUME Latest' = Latest, SameSnapshot, faults' = 0 => faults = 0
        PROVE  /\ RosterOnItsWay => RosterOnItsWay'
               /\ CredentialsOnTheirWay => CredentialsOnTheirWay'
    BY <1>4, SnapshotKept DEF RosterOnItsWay, CredentialsOnTheirWay, Members
  <1>5. faults' = 0 => faults = 0
    <2>1. faults' \in {faults, faults + 1}
      BY DEF Next, Operate, Add, AddNew, AddAgain, AddSame, Remove, SetStrategy, Request,
             GetCredential, GetRoundRobin, GetRandom, RejectedByUpstream, ReportFailure,
             Finish, ReportSuccess, RefreshAnswered, RefreshOrphaned, RefreshOvertaken,
             RefreshSucceeded, RefreshRefused, RefreshFailed, SaveEnds, SinkSaveEnds,
             OpSaved, RosterRollback, StrategyRollback, RefreshSaved, RefreshUnsaved,
             SaveApplied, SaveFailed, Tick, NearsExpiry, MarkReauthRequired, Restart,
             storeVars, vars
    <2> QED
      BY <1>1, <2>1
  <1>6. CASE ChangesNone
    BY <1>4, <1>5, <1>6 DEF ChangesNone, Latest
  <1>7. CASE Lands
    BY <1>1, <1>4, <1>5, <1>7, LatestLands DEF Lands
  <1>8. CASE Fails
    BY <1>1, <1>8 DEF Fails, RosterOnItsWay, CredentialsOnTheirWay
  <1>9. CASE ChangesCredential
    <2>1. Latest' = Latest /\ Members(PoolSnapshot') = Members(PoolSnapshot)
      BY <1>9, MembersOfSame DEF ChangesCredential, Latest
    <2> QED
      BY <1>5, <1>9, <2>1 DEF ChangesCredential, RosterOnItsWay, Members
  <1> QED
    BY <1>3, <1>6, <1>7, <1>8, <1>9, NextOrderly DEF Orderly

LEMMA InitOnItsWay == Init => RosterOnItsWay /\ CredentialsOnTheirWay
  BY DEF Init, RosterOnItsWay, CredentialsOnTheirWay, Latest, PoolSnapshot, Roster,
         Members, EmptySnapshot

\* With a file store, whichever way the pool is wired to it, the disk has the
\* pool's members once every save was applied: each event of main.ts's sink is
\* enough, and no operation, refresh or restart changes a member without one
\* (credential-pool.ts:127-165, main.ts:245-255).
THEOREM RosterReachesTheDisk ==
    ASSUME Wiring # "memory", InOrder
    PROVE  Spec => []RosterStored
  <1>1. IInv /\ RosterOnItsWay => RosterStored
    BY DEF RosterOnItsWay, RosterStored, Quiet, Latest
  <1>2. IInv /\ RosterOnItsWay /\ [Next]_vars => (IInv /\ RosterOnItsWay)'
    BY NextDistinct, NextOnItsWay
  <1> QED
    BY <1>1, <1>2, InitDistinct, InitOnItsWay, PTL DEF Spec

\* A pool with a file store of its own has its credentials on the disk, too, once
\* every save was applied: a restart goes on with what the pool was serving.
THEOREM CredentialsReachTheDisk ==
    ASSUME Wiring = "store", InOrder
    PROVE  Spec => []CredentialsStored
  <1>1. IInv /\ CredentialsOnTheirWay => CredentialsStored
    BY DEF CredentialsOnTheirWay, CredentialsStored, Quiet, Latest
  <1>2. IInv /\ CredentialsOnTheirWay /\ [Next]_vars => (IInv /\ CredentialsOnTheirWay)'
    BY NextDistinct, NextOnItsWay
  <1> QED
    BY <1>1, <1>2, InitDistinct, InitOnItsWay, PTL DEF Spec

-----------------------------------------------------------------------------
(* The refreshes: who owns one, what its end may touch, what those who wait *)
(* for it are given and which tokens are under way.  A flag is cleared and a*)
(* waiting request answered by the identity of the task, so the invariant   *)
(* must also say that two refreshes never run for one state object.  A new  *)
(* account takes a label no running refresh has, and a rollback opens a     *)
(* generation none of them belongs to: both are TasksKnown.                 *)


OneTaskPerState == \A t1, t2 \in tasks : t1.id = t2.id => t1 = t2

RInv ==
    /\ IInv
    /\ RefreshOwned
    /\ OneTaskPerState

\* two accounts of the pool are two state objects
LEMMA StateIdsDiffer ==
    ASSUME IInv, NEW i \in Idx, NEW j \in Idx, StateId(i) = StateId(j)
    PROVE  i = j
  BY DEF StateId, IInv, PoolDistinct, Distinct, Idx

-----------------------------------------------------------------------------
(* Three ways a step treats the refreshes                                  *)

SamePlaces ==
    /\ epoch' = epoch
    /\ DOMAIN states' = DOMAIN states
    /\ \A i \in Idx : states'[i].label = states[i].label

LEMMA PlacesKept ==
    ASSUME SamePlaces
    PROVE  Idx' = Idx /\ \A i \in Idx : StateId(i)' = StateId(i)
  BY DEF SamePlaces, Idx, StateId

\* a request waits only if it did before, or if it joins a running refresh
FewerWait ==
    \A c \in Callers :
        \/ callers'[c] = callers[c]
        \/ callers'[c].st # "waiting"
        \/ \E i \in Idx : states[i].refreshing /\ callers'[c] = Waiting(StateId(i))

\* No refresh starts or ends.
LEMMA RefreshesRunOn ==
    ASSUME RInv, SamePlaces, FewerWait, tasks' = tasks,
           \A i \in Idx : states'[i].refreshing <=> states[i].refreshing
    PROVE  RefreshOwned' /\ OneTaskPerState'
  <1>1. \A i \in Idx' : states'[i].refreshing <=> \E t \in tasks' : t.id = StateId(i)'
    BY PlacesKept DEF RInv, RefreshOwned
  <1>2. ASSUME NEW c \in Callers, callers'[c].st = "waiting"
        PROVE  \E t \in tasks' : t.id = callers'[c].id
    <2>1. CASE callers'[c] = callers[c]
      BY <1>2, <2>1 DEF RInv, RefreshOwned
    <2>2. ASSUME NEW i \in Idx, states[i].refreshing, callers'[c] = Waiting(StateId(i))
          PROVE  \E t \in tasks' : t.id = callers'[c].id
      <3>1. callers'[c].id = StateId(i)
        BY <2>2 DEF Waiting
      <3> QED
        BY <2>2, <3>1 DEF RInv, RefreshOwned
    <2> QED
      BY <1>2, <2>1, <2>2 DEF FewerWait
  <1>3. OneTaskPerState'
    BY DEF RInv, OneTaskPerState
  <1> QED
    BY <1>1, <1>2, <1>3 DEF RefreshOwned

\* A refresh starts for the account i, which had none.
LEMMA RefreshStarts ==
    ASSUME RInv, NEW c \in Callers, NEW i \in Idx, ~states[i].refreshing,
           StartRefresh(c, i), epoch' = epoch
    PROVE  RefreshOwned' /\ OneTaskPerState'
  <1> TypeOK
    BY DEF RInv, IInv
  <1> DEFINE new == [id |-> StateId(i), by |-> c, before |-> states[i].cred,
                     fresh |-> states[i].cred, phase |-> "calling"]
  <1>1. tasks' = tasks \cup {new} /\ new.id = StateId(i)
    BY DEF StartRefresh
  <1> HIDE DEF new
  <1>2. \A t \in tasks : t.id # StateId(i)
    BY DEF RInv, RefreshOwned
  <1>3. states' = [states EXCEPT ![i].refreshing = TRUE]
        /\ callers' = [callers EXCEPT ![c] = Waiting(StateId(i))]
    BY DEF StartRefresh
  <1>4. states \in Seq(Account) /\ callers \in [Callers -> Caller]
    BY DEF TypeOK
  <1>5. DOMAIN states' = Idx /\ \A j \in Idx \ {i} : states'[j] = states[j]
    BY <1>3, <1>4 DEF Idx
  <1>6. states'[i].label = states[i].label /\ states'[i].refreshing = TRUE
    BY <1>3, <1>4, AccountAt DEF Account, Idx
  <1>7. SamePlaces
    BY <1>5, <1>6 DEF SamePlaces, Idx
  <1>8. Idx' = Idx /\ \A j \in Idx : StateId(j)' = StateId(j)
    BY <1>7, PlacesKept
  <1>9. \A j \in Idx' : states'[j].refreshing <=> \E t \in tasks' : t.id = StateId(j)'
    <2>1. ASSUME NEW j \in Idx, j # i
          PROVE  states'[j].refreshing <=> \E t \in tasks' : t.id = StateId(j)'
      <3>1. StateId(j) # StateId(i)
        BY <2>1, StateIdsDiffer DEF RInv
      <3> QED
        BY <1>1, <1>5, <1>8, <2>1, <3>1 DEF RInv, RefreshOwned
    <2> QED
      BY <1>1, <1>6, <1>8, <2>1
  <1>10. ASSUME NEW d \in Callers, callers'[d].st = "waiting"
         PROVE  \E t \in tasks' : t.id = callers'[d].id
    <2>1. CASE d = c
      <3>1. callers'[d] = Waiting(StateId(i))
        BY <1>3, <1>4, <2>1
      <3> QED
        BY <1>1, <3>1 DEF Waiting
    <2>2. CASE d # c
      <3>1. callers'[d] = callers[d]
        BY <1>3, <1>4, <2>2
      <3> QED
        BY <1>1, <1>10, <3>1 DEF RInv, RefreshOwned
    <2> QED
      BY <2>1, <2>2
  <1>11. OneTaskPerState'
    BY <1>1, <1>2 DEF RInv, OneTaskPerState
  <1> QED
    BY <1>9, <1>10, <1>11 DEF RefreshOwned

\* A refresh ends: its account's flag is cleared and every request that waits
\* for it gets the outcome.
LEMMA RefreshEnds ==
    ASSUME RInv, SamePlaces, NEW t \in tasks, NEW outcome,
           outcome.st # "waiting", Settle(t, outcome),
           \A i \in Idx \ Located(t) : states'[i].refreshing <=> states[i].refreshing,
           \A i \in Located(t) : ~states'[i].refreshing
    PROVE  RefreshOwned' /\ OneTaskPerState'
  <1>1. tasks' = tasks \ {t}
        /\ \A c \in Callers :
              callers'[c] = IF callers[c] = Waiting(t.id) THEN outcome ELSE callers[c]
    BY DEF Settle
  <1>2. \A s \in tasks' : s \in tasks /\ s.id # t.id
    BY <1>1 DEF RInv, OneTaskPerState
  <1>3. \A s \in tasks : s.id # t.id => s \in tasks'
    BY <1>1
  <1>4. \A i \in Idx' : states'[i].refreshing <=> \E s \in tasks' : s.id = StateId(i)'
    <2>1. ASSUME NEW i \in Idx
          PROVE  states'[i].refreshing <=> \E s \in tasks' : s.id = StateId(i)
      <3>1. CASE t.id = StateId(i)
        <4>1. i \in Located(t)
          BY <3>1 DEF Located
        <4> QED
          BY <1>2, <3>1, <4>1
      <3>2. CASE t.id # StateId(i)
        <4>1. i \in Idx \ Located(t)
          BY <3>2 DEF Located
        <4>2. states[i].refreshing <=> \E s \in tasks : s.id = StateId(i)
          BY DEF RInv, RefreshOwned
        <4> QED
          BY <1>2, <1>3, <3>2, <4>1, <4>2
      <3> QED
        BY <3>1, <3>2
    <2> QED
      BY <2>1, PlacesKept
  <1>5. ASSUME NEW c \in Callers, callers'[c].st = "waiting"
        PROVE  \E s \in tasks' : s.id = callers'[c].id
    <2>1. callers'[c] = callers[c] /\ callers[c] # Waiting(t.id)
      BY <1>1, <1>5
    <2>2. callers[c] \in Caller
      BY DEF RInv, IInv, TypeOK
    <2>3. callers[c] = Waiting(callers[c].id)
      BY <1>5, <2>1, <2>2 DEF Caller, Idle, Waiting
    <2>4. PICK s \in tasks : s.id = callers[c].id
      BY <1>5, <2>1 DEF RInv, RefreshOwned
    <2>5. s.id # t.id
      BY <2>1, <2>3, <2>4
    <2> QED
      BY <1>3, <2>1, <2>4, <2>5
  <1>6. OneTaskPerState'
    BY <1>1 DEF RInv, OneTaskPerState
  <1> QED
    BY <1>4, <1>5, <1>6 DEF RefreshOwned

LEMMA NobodyWaitsForAnOutcome ==
    Idle.st # "waiting" /\ \A cred : Holding(cred).st # "waiting"
  BY DEF Idle, Holding

\* One account is replaced by another of its place.
LEMMA ExceptPlaces ==
    ASSUME TypeOK, NEW i \in Idx, NEW a, a.label = states[i].label,
           states' = [states EXCEPT ![i] = a], epoch' = epoch
    PROVE  SamePlaces /\ states'[i] = a /\ \A j \in Idx \ {i} : states'[j] = states[j]
  BY DEF SamePlaces, Idx

-----------------------------------------------------------------------------
(* The steps *)

LEMMA AddNewRefresh ==
    ASSUME RInv, NEW o \in Operators, NEW u \in Users, NEW kind \in Kind,
           AddNew(o, u, kind)
    PROVE  RefreshOwned' /\ OneTaskPerState'
  <1> TypeOK
    BY DEF RInv, IInv
  <1> DEFINE a == NewAccount(u, kind)
  <1>1. a.label = nextLabel /\ a.refreshing = FALSE
    BY DEF NewAccount, Healthy
  <1>2. states' = Append(states, a)
        /\ epoch' = epoch /\ tasks' = tasks /\ callers' = callers
    BY DEF AddNew
  <1> HIDE DEF a
  <1>3. states \in Seq(Account) /\ nextLabel \in Nat /\ epoch \in Nat
    BY DEF TypeOK
  <1>4. DOMAIN states' = 1 .. (Len(states) + 1) /\ Idx = 1 .. Len(states)
        /\ Len(states) \in Nat
    BY <1>2, <1>3 DEF Idx
  <1>5. \A i \in Idx : states'[i] = states[i]
    BY <1>2, <1>3, <1>4
  <1>6. states'[Len(states) + 1] = a
    BY <1>2, <1>3
  <1>7. ASSUME NEW t \in tasks PROVE t.id # <<epoch, nextLabel>>
    <2>1. Known(t) /\ t.id \in Id
      BY DEF RInv, IInv, TasksKnown, TypeOK, Task
    <2> QED
      BY <1>3, <2>1 DEF Known, Id
  <1>8. ASSUME NEW i \in Idx'
        PROVE  states'[i].refreshing <=> \E t \in tasks' : t.id = StateId(i)'
    <2>1. CASE i \in Idx
      <3>1. StateId(i)' = StateId(i)
        BY <1>2, <1>5, <2>1 DEF StateId
      <3> QED
        BY <1>2, <1>5, <2>1, <3>1 DEF RInv, RefreshOwned
    <2>2. CASE i = Len(states) + 1
      <3>1. StateId(i)' = <<epoch, nextLabel>>
        BY <1>1, <1>2, <1>6, <2>2 DEF StateId
      <3> QED
        BY <1>1, <1>2, <1>6, <1>7, <2>2, <3>1
    <2> QED
      BY <1>4, <2>1, <2>2 DEF Idx
  <1> QED
    BY <1>2, <1>8 DEF RInv, RefreshOwned, OneTaskPerState

LEMMA RemoveRefresh ==
    ASSUME RInv, NEW o \in Operators, NEW k \in Idx, Remove(o, k)
    PROVE  RefreshOwned' /\ OneTaskPerState'
  <1> TypeOK
    BY DEF RInv, IInv
  <1>1. states \in Seq(Account) /\ k \in 1 .. Len(states) /\ Idx = 1 .. Len(states)
        /\ Len(states) \in Nat
    BY AccountAt DEF TypeOK, Idx
  <1>2. states' = Without(states, k) /\ epoch' = epoch
        /\ tasks' = tasks /\ callers' = callers
    BY DEF Remove
  <1>3. ASSUME NEW i \in Idx'
        PROVE  \E j \in Idx : states'[i] = states[j]
    <2>1. /\ DOMAIN states' = 1 .. (Len(states) - 1)
          /\ \A n \in 1 .. (Len(states) - 1) :
                states'[n] = IF n < k THEN states[n] ELSE states[n + 1]
      BY <1>1, <1>2, WithoutType
    <2>2. i \in 1 .. (Len(states) - 1)
      BY <2>1 DEF Idx
    <2>3. i \in Idx /\ i + 1 \in Idx
      BY <1>1, <2>2
    <2> QED
      BY <2>1, <2>2, <2>3
  <1>4. ASSUME NEW i \in Idx'
        PROVE  states'[i].refreshing <=> \E t \in tasks' : t.id = StateId(i)'
    <2>1. PICK j \in Idx : states'[i] = states[j]
      BY <1>3
    <2>2. StateId(i)' = StateId(j)
      BY <1>2, <2>1 DEF StateId
    <2> QED
      BY <1>2, <2>1, <2>2 DEF RInv, RefreshOwned
  <1> QED
    BY <1>2, <1>4 DEF RInv, RefreshOwned, OneTaskPerState

LEMMA OperateRefresh ==
    ASSUME RInv, NEW o \in Operators, Operate(o)
    PROVE  RefreshOwned' /\ OneTaskPerState'
  <1> TypeOK
    BY DEF RInv, IInv
  <1>1. ASSUME NEW i \in Idx, AddSame(o, i) \/ \E kind \in Kind : AddAgain(o, i, kind)
        PROVE  RefreshOwned' /\ OneTaskPerState'
    <2>1. PICK cred : states' = [states EXCEPT ![i] = Replaced(states[i], cred)]
      BY <1>1 DEF AddSame, AddAgain
    <2>2. UNCHANGED <<epoch, tasks, callers>>
      BY <1>1 DEF AddSame, AddAgain
    <2>3. /\ Replaced(states[i], cred).label = states[i].label
          /\ Replaced(states[i], cred).refreshing = states[i].refreshing
      BY AccountAt DEF Replaced, Account
    <2>4. SamePlaces /\ states'[i].refreshing = states[i].refreshing
          /\ \A j \in Idx \ {i} : states'[j] = states[j]
      BY <2>1, <2>2, <2>3, ExceptPlaces
    <2> QED
      BY <2>2, <2>4, RefreshesRunOn DEF FewerWait
  <1>2. ASSUME NEW s \in Strategy, SetStrategy(o, s)
        PROVE  RefreshOwned' /\ OneTaskPerState'
    BY <1>2, RefreshesRunOn DEF SetStrategy, SamePlaces, FewerWait
  <1> QED
    BY <1>1, <1>2, AddNewRefresh, RemoveRefresh DEF Operate, Add

LEMMA ServeRefresh ==
    ASSUME RInv, NEW c \in Callers, NEW i \in Idx,
           RefreshAccount(c, i) \/ HandOut(c, i), epoch' = epoch
    PROVE  RefreshOwned' /\ OneTaskPerState'
  <1> TypeOK
    BY DEF RInv, IInv
  <1>1. callers \in [Callers -> Caller]
    BY DEF TypeOK
  <1>2. CASE StartRefresh(c, i) /\ ~states[i].refreshing
    BY <1>2, RefreshStarts
  <1>3. CASE JoinRefresh(c, i) /\ states[i].refreshing
    <2>1. UNCHANGED <<states, tasks>> /\ callers' = [callers EXCEPT ![c] = Waiting(StateId(i))]
      BY <1>3 DEF JoinRefresh
    <2>2. FewerWait
      BY <1>1, <1>3, <2>1 DEF FewerWait
    <2>3. SamePlaces
      BY <2>1 DEF SamePlaces
    <2> QED
      BY <2>1, <2>2, <2>3, RefreshesRunOn
  <1>4. CASE CannotRefresh(c, i)
    <2> DEFINE a == [states[i] EXCEPT !.reauth = TRUE]
    <2>1. a.label = states[i].label /\ a.refreshing = states[i].refreshing
      BY AccountAt DEF Account
    <2>2. /\ states' = [states EXCEPT ![i] = a]
          /\ callers' = [callers EXCEPT ![c] = Idle] /\ tasks' = tasks
      BY <1>4 DEF CannotRefresh
    <2> HIDE DEF a
    <2>3. FewerWait
      BY <1>1, <2>2, NobodyWaitsForAnOutcome DEF FewerWait
    <2>4. SamePlaces /\ states'[i] = a /\ \A j \in Idx \ {i} : states'[j] = states[j]
      BY <2>1, <2>2, ExceptPlaces
    <2> QED
      BY <2>1, <2>2, <2>3, <2>4, RefreshesRunOn
  <1>5. CASE HandOut(c, i)
    <2>1. UNCHANGED <<states, tasks>> /\ callers' = [callers EXCEPT ![c] = Holding(states[i].cred)]
      BY <1>5 DEF HandOut
    <2>2. FewerWait
      BY <1>1, <2>1, NobodyWaitsForAnOutcome DEF FewerWait
    <2>3. SamePlaces
      BY <2>1 DEF SamePlaces
    <2> QED
      BY <2>1, <2>2, <2>3, RefreshesRunOn
  <1> QED
    BY <1>2, <1>3, <1>4, <1>5 DEF RefreshAccount

LEMMA RequestRefresh ==
    ASSUME RInv, NEW c \in Callers, Request(c)
    PROVE  RefreshOwned' /\ OneTaskPerState'
  <1> TypeOK
    BY DEF RInv, IInv
  <1>1. callers \in [Callers -> Caller]
    BY DEF TypeOK
  <1>2. CASE GetCredential(c)
    BY <1>2, ServeRefresh DEF GetCredential, GetRoundRobin, GetRandom, Serve
  <1>3. CASE RejectedByUpstream(c)
    <2>1. CASE \E i \in Carrying(callers[c].cred) : RefreshAccount(c, i)
      BY <1>3, <2>1, ServeRefresh DEF RejectedByUpstream, Carrying
    <2>2. CASE callers' = [callers EXCEPT ![c] = Idle] /\ UNCHANGED <<states, tasks>>
      <3>1. FewerWait
        BY <1>1, <2>2, NobodyWaitsForAnOutcome DEF FewerWait
      <3>2. SamePlaces
        BY <1>3, <2>2 DEF RejectedByUpstream, SamePlaces
      <3> QED
        BY <2>2, <3>1, <3>2, RefreshesRunOn
    <2> QED
      BY <1>3, <2>1, <2>2 DEF RejectedByUpstream
  <1>4. CASE ReportFailure(c) \/ ReportSuccess(c) \/ Finish(c)
    <2>1. callers' = [callers EXCEPT ![c] = Idle] /\ UNCHANGED <<epoch, tasks>>
      BY <1>4 DEF ReportFailure, ReportSuccess, Finish, poolVars
    <2>2. FewerWait
      BY <1>1, <2>1, NobodyWaitsForAnOutcome DEF FewerWait
    <2>3. CASE UNCHANGED states
      <3>1. SamePlaces
        BY <2>1, <2>3 DEF SamePlaces
      <3> QED
        BY <2>1, <2>2, <2>3, <3>1, RefreshesRunOn
    <2>4. CASE states' # states
      <3>1. PICK i \in Idx : \E a \in {Penalised(states[i]), Recovered(states[i])} :
                               states' = [states EXCEPT ![i] = a]
        BY <1>4, <2>4 DEF ReportFailure, ReportSuccess, Finish, Carrying, poolVars
      <3>2. PICK a \in {Penalised(states[i]), Recovered(states[i])} :
                states' = [states EXCEPT ![i] = a]
        BY <3>1
      <3>3. a.label = states[i].label /\ a.refreshing = states[i].refreshing
        BY AccountAt DEF Penalised, Recovered, Account
      <3>4. SamePlaces /\ states'[i] = a /\ \A j \in Idx \ {i} : states'[j] = states[j]
        BY <2>1, <3>2, <3>3, ExceptPlaces
      <3> QED
        BY <2>1, <2>2, <3>3, <3>4, RefreshesRunOn
    <2> QED
      BY <2>3, <2>4
  <1> QED
    BY <1>2, <1>3, <1>4 DEF Request

LEMMA AnsweredRefresh ==
    ASSUME RInv, NEW t \in tasks, RefreshAnswered(t)
    PROVE  RefreshOwned' /\ OneTaskPerState'
  <1> TypeOK
    BY DEF RInv, IInv
  <1>1. \A i \in Located(t) : i \in Idx /\ t.id = StateId(i)
    BY DEF Located
  <1>2. \A i, j \in Located(t) : i = j
    BY <1>1, StateIdsDiffer DEF RInv
  \* the account of t is replaced by a, which has no refresh
  <1>3. ASSUME NEW i \in Located(t), NEW a, a.label = states[i].label,
               a.refreshing = FALSE, states' = [states EXCEPT ![i] = a],
               epoch' = epoch, NEW outcome, outcome.st # "waiting", Settle(t, outcome)
        PROVE  RefreshOwned' /\ OneTaskPerState'
    <2>1. SamePlaces /\ states'[i] = a /\ \A j \in Idx \ {i} : states'[j] = states[j]
      BY <1>1, <1>3, ExceptPlaces
    <2>2. \A j \in Located(t) : j = i
      BY <1>2
    <2>3. \A j \in Idx \ Located(t) : states'[j].refreshing <=> states[j].refreshing
      BY <2>1
    <2>4. \A j \in Located(t) : ~states'[j].refreshing
      BY <1>3, <2>1, <2>2
    <2> QED
      BY <1>3, <2>1, <2>3, <2>4, RefreshEnds
  <1>4. CASE RefreshOrphaned(t)
    <2>1. SamePlaces /\ Settle(t, Idle) /\ Located(t) = {} /\ states' = states
      BY <1>4 DEF RefreshOrphaned, poolVars, SamePlaces
    <2> QED
      BY <2>1, RefreshEnds, NobodyWaitsForAnOutcome
  <1>5. CASE RefreshOvertaken(t)
    <2>1. PICK i \in Located(t) :
              /\ states' = [states EXCEPT ![i].refreshing = FALSE]
              /\ \E outcome \in OvertakenOutcomes(t, i) : Settle(t, outcome)
      BY <1>5 DEF RefreshOvertaken
    <2>2. PICK outcome \in OvertakenOutcomes(t, i) : Settle(t, outcome)
      BY <2>1
    <2>3. outcome.st # "waiting"
      BY <2>2, NobodyWaitsForAnOutcome DEF OvertakenOutcomes
    <2> DEFINE a == [states[i] EXCEPT !.refreshing = FALSE]
    <2>4. a.label = states[i].label /\ a.refreshing = FALSE
      BY <1>1, AccountAt DEF Account
    <2>5. states' = [states EXCEPT ![i] = a] /\ epoch' = epoch
      BY <1>5, <2>1 DEF RefreshOvertaken
    <2> HIDE DEF a
    <2> QED
      BY <1>3, <2>2, <2>3, <2>4, <2>5
  <1>6. ASSUME NEW u \in Users, RefreshSucceeded(t, u)
        PROVE  RefreshOwned' /\ OneTaskPerState'
    <2> DEFINE fresh == NewCred(u, "renewable")
    <2>1. PICK i \in Located(t) :
              states' = [states EXCEPT ![i].cred = fresh,
                                       ![i].refreshing = (Wiring = "store")]
      BY <1>6 DEF RefreshSucceeded
    <2> DEFINE a == [states[i] EXCEPT !.cred = fresh, !.refreshing = (Wiring = "store")]
    <2>2. i \in Idx /\ states[i] \in Account /\ states \in Seq(Account)
      BY <1>1, AccountAt DEF TypeOK
    <2>3. states' = [states EXCEPT ![i] = a] /\ epoch' = epoch
      BY <1>6, <2>1, <2>2 DEF RefreshSucceeded
    <2>4. a.label = states[i].label /\ a.refreshing = (Wiring = "store")
      BY <2>2 DEF Account
    <2>5. CASE Wiring = "store"
      <3> DEFINE new == [t EXCEPT !.fresh = fresh, !.phase = "saving"]
      <3>1. tasks' = (tasks \ {t}) \cup {new} /\ callers' = callers
        BY <1>6, <2>5 DEF RefreshSucceeded
      <3>2. t \in Task
        BY DEF TypeOK
      <3>3. new.id = t.id
        BY <3>2 DEF Task
      <3> HIDE DEF a, new, fresh
      <3>4. SamePlaces /\ states'[i] = a /\ \A j \in Idx \ {i} : states'[j] = states[j]
        BY <2>2, <2>3, <2>4, ExceptPlaces
      <3>5. \A id : (\E s \in tasks' : s.id = id) <=> (\E s \in tasks : s.id = id)
        BY <3>1, <3>3
      <3>6. ASSUME NEW j \in Idx
            PROVE  states'[j].refreshing <=> \E s \in tasks' : s.id = StateId(j)
        <4>1. states[j].refreshing <=> \E s \in tasks : s.id = StateId(j)
          BY DEF RInv, RefreshOwned
        <4>2. CASE j = i
          BY <1>1, <2>4, <2>5, <3>4, <3>5, <4>2
        <4>3. CASE j # i
          BY <3>4, <3>5, <4>1, <4>3
        <4> QED
          BY <4>2, <4>3
      <3>7. OneTaskPerState'
        BY <3>1, <3>3 DEF RInv, OneTaskPerState
      <3>8. RefreshOwned'
        <4>1. Idx' = Idx /\ \A j \in Idx : StateId(j)' = StateId(j)
          BY <3>4, PlacesKept
        <4>2. \A d \in Callers : callers'[d].st = "waiting" =>
                  \E s \in tasks' : s.id = callers'[d].id
          BY <3>1, <3>5 DEF RInv, RefreshOwned
        <4> QED
          BY <3>6, <4>1, <4>2 DEF RefreshOwned
      <3> QED
        BY <3>7, <3>8
    <2>6. CASE Wiring # "store"
      <3>1. Settle(t, Holding(fresh)) /\ a.refreshing = FALSE
        BY <1>6, <2>4, <2>6 DEF RefreshSucceeded
      <3>2. Holding(fresh).st # "waiting"
        BY NobodyWaitsForAnOutcome
      <3> HIDE DEF a, fresh
      <3> QED
        BY <1>3, <2>3, <2>4, <3>1, <3>2
    <2> QED
      BY <2>5, <2>6
  <1>7. CASE RefreshRefused(t) \/ RefreshFailed(t)
    <2>1. PICK i \in Located(t) :
              \/ states' = [states EXCEPT ![i].reauth = TRUE, ![i].refreshing = FALSE]
              \/ states' = [states EXCEPT ![i] =
                               [Penalised(@) EXCEPT !.refreshing = FALSE]]
      BY <1>7 DEF RefreshRefused, RefreshFailed
    <2> DEFINE a == [states[i] EXCEPT !.reauth = TRUE, !.refreshing = FALSE]
    <2> DEFINE b == [Penalised(states[i]) EXCEPT !.refreshing = FALSE]
    <2>2. states[i] \in Account /\ i \in Idx /\ states \in Seq(Account)
      BY <1>1, AccountAt DEF TypeOK
    <2>3. a.label = states[i].label /\ a.refreshing = FALSE
      BY <2>2 DEF Account
    <2>4. b.label = states[i].label /\ b.refreshing = FALSE
      BY <2>2 DEF Account, Penalised
    <2>5. states' = [states EXCEPT ![i] = a] \/ states' = [states EXCEPT ![i] = b]
      BY <2>1, <2>2
    <2>6. epoch' = epoch /\ Settle(t, Idle)
      BY <1>7 DEF RefreshRefused, RefreshFailed
    <2> HIDE DEF a, b
    <2> QED
      BY <1>3, <2>3, <2>4, <2>5, <2>6, NobodyWaitsForAnOutcome
  <1> QED
    BY <1>4, <1>5, <1>6, <1>7 DEF RefreshAnswered

LEMMA SaveEndsRefresh ==
    ASSUME RInv, NEW k \in Due, SaveEnds(k)
    PROVE  RefreshOwned' /\ OneTaskPerState'
  <1> TypeOK
    BY DEF RInv, IInv
  <1>1. ASSUME UNCHANGED <<states, epoch, tasks, callers>>
        PROVE  RefreshOwned' /\ OneTaskPerState'
    BY <1>1, RefreshesRunOn DEF SamePlaces, FewerWait
  <1>2. CASE SinkSaveEnds(k)
    BY <1>1, <1>2 DEF SinkSaveEnds, poolVars
  <1>3. ASSUME NEW o \in Operators, OpSaved(k, o) \/ StrategyRollback(k, o)
        PROVE  RefreshOwned' /\ OneTaskPerState'
    BY <1>1, <1>3 DEF OpSaved, StrategyRollback, poolVars
  <1>4. ASSUME NEW o \in Operators, RosterRollback(k, o)
        PROVE  RefreshOwned' /\ OneTaskPerState'
    <2> DEFINE before == ops[o].before
    <2>1. before \in Snapshot
      BY DEF TypeOK, Op
    <2>2. states' = Restored(before) /\ epoch' = epoch + 1
          /\ tasks' = tasks /\ callers' = callers
      BY <1>4 DEF RosterRollback
    <2> HIDE DEF before
    <2>3. \A i \in Idx' : ~states'[i].refreshing
      BY <2>1, <2>2, RestoredType DEF Idx
    <2>4. ASSUME NEW t \in tasks, NEW i \in Idx' PROVE t.id # StateId(i)'
      <3>1. Known(t) /\ t.id \in Id /\ epoch \in Nat
        BY DEF RInv, IInv, TasksKnown, TypeOK, Task
      <3>2. t.id[1] < epoch + 1
        BY <3>1 DEF Known, Id
      <3>3. StateId(i)' = <<epoch + 1, states'[i].label>>
        BY <2>2 DEF StateId
      <3> QED
        BY <3>1, <3>2, <3>3 DEF Id
    <2> QED
      BY <2>2, <2>3, <2>4 DEF RInv, RefreshOwned, OneTaskPerState
  <1>5. ASSUME NEW t \in tasks, RefreshSaved(k, t) \/ RefreshUnsaved(k, t)
        PROVE  RefreshOwned' /\ OneTaskPerState'
    <2>1. epoch' = epoch /\ DOMAIN states' = Idx
      BY <1>5 DEF RefreshSaved, RefreshUnsaved
    <2>2. PICK outcome \in {Holding(t.fresh), Idle} : Settle(t, outcome)
      BY <1>5 DEF RefreshSaved, RefreshUnsaved
    <2>3. outcome.st # "waiting"
      BY <2>2, NobodyWaitsForAnOutcome
    <2>4. ASSUME NEW i \in Idx
          PROVE  /\ states'[i].label = states[i].label
                 /\ i \notin Located(t) => states'[i] = states[i]
                 /\ i \in Located(t) => ~states'[i].refreshing
      <3>1. states[i] \in Account
        BY AccountAt
      <3> DEFINE quiet == [states[i] EXCEPT !.refreshing = FALSE]
      <3> DEFINE back == [states[i] EXCEPT !.cred = t.before, !.refreshing = FALSE]
      <3>2. /\ i \notin Located(t) => states'[i] = states[i]
            /\ i \in Located(t) => states'[i] = quiet \/ states'[i] = Penalised(back)
        <4>1. CASE RefreshSaved(k, t)
          BY <4>1 DEF RefreshSaved
        <4>2. CASE RefreshUnsaved(k, t)
          BY <4>2 DEF RefreshUnsaved
        <4> QED
          BY <1>5, <4>1, <4>2
      <3>3. quiet.label = states[i].label /\ ~quiet.refreshing
        BY <3>1 DEF Account
      <3>4. Penalised(back).label = states[i].label /\ ~Penalised(back).refreshing
        BY <3>1 DEF Account, Penalised
      <3> HIDE DEF quiet, back
      <3> QED
        BY <3>2, <3>3, <3>4
    <2>5. SamePlaces
      BY <2>1, <2>4 DEF SamePlaces, Idx
    <2>6. \A i \in Idx \ Located(t) : states'[i].refreshing <=> states[i].refreshing
      BY <2>4
    <2>7. \A i \in Located(t) : ~states'[i].refreshing
      BY <2>4 DEF Located
    <2> QED
      BY <2>2, <2>3, <2>5, <2>6, <2>7, RefreshEnds
  <1> QED
    BY <1>2, <1>3, <1>4, <1>5 DEF SaveEnds

LEMMA TimeRefresh ==
    ASSUME RInv, Tick \/ \E i \in Idx : NearsExpiry(i) \/ MarkReauthRequired(i)
    PROVE  RefreshOwned' /\ OneTaskPerState'
  <1> TypeOK
    BY DEF RInv, IInv
  <1>1. UNCHANGED <<epoch, tasks, callers>> /\ FewerWait
    BY DEF Tick, NearsExpiry, MarkReauthRequired, poolVars, FewerWait
  <1>2. DOMAIN states' = Idx
    BY DEF Tick, NearsExpiry, MarkReauthRequired, poolVars, Idx
  <1>3. ASSUME NEW j \in Idx
        PROVE  states'[j].label = states[j].label
               /\ states'[j].refreshing = states[j].refreshing
    <2>1. states[j] \in Account /\ states \in Seq(Account)
      BY AccountAt DEF TypeOK
    <2>2. CASE Tick
      BY <2>1, <2>2 DEF Tick, Account
    <2>3. ASSUME NEW i \in Idx, NearsExpiry(i)
          PROVE  states'[j] = states[j]
      BY <2>3 DEF NearsExpiry, poolVars
    <2>4. ASSUME NEW i \in Idx, MarkReauthRequired(i)
          PROVE  states'[j].label = states[j].label
                 /\ states'[j].refreshing = states[j].refreshing
      BY <2>1, <2>4, AccountAt DEF MarkReauthRequired, Account, Idx
    <2> QED
      BY <2>2, <2>3, <2>4
  <1>4. SamePlaces
    BY <1>1, <1>2, <1>3 DEF SamePlaces, Idx
  <1> QED
    BY <1>1, <1>3, <1>4, RefreshesRunOn

LEMMA RestartRefresh ==
    ASSUME RInv, Restart
    PROVE  RefreshOwned' /\ OneTaskPerState'
  <1>1. states' = Restored(disk) /\ tasks' = {} /\ callers' = [c \in Callers |-> Idle]
        /\ disk \in Snapshot
    BY DEF Restart, RInv, IInv, TypeOK
  <1>2. \A i \in Idx' : ~states'[i].refreshing
    BY <1>1, RestoredType DEF Idx
  <1> QED
    BY <1>1, <1>2, NobodyWaitsForAnOutcome DEF RefreshOwned, OneTaskPerState

LEMMA InitRefresh == Init => RInv
  <1> SUFFICES ASSUME Init PROVE RefreshOwned /\ OneTaskPerState
    BY InitDistinct DEF RInv
  <1>1. Idx = {} /\ tasks = {} /\ callers = [c \in Callers |-> Idle]
    BY DEF Init, Idx
  <1> QED
    BY <1>1, NobodyWaitsForAnOutcome DEF RefreshOwned, OneTaskPerState

LEMMA NextRefresh == RInv /\ [Next]_vars => RInv'
  <1> SUFFICES ASSUME RInv, [Next]_vars PROVE RefreshOwned' /\ OneTaskPerState'
    BY NextDistinct DEF RInv
  <1>1. CASE UNCHANGED vars
    <2>1. SamePlaces /\ FewerWait /\ tasks' = tasks /\ states' = states
      BY <1>1 DEF vars, SamePlaces, FewerWait
    <2> QED
      BY <2>1, RefreshesRunOn
  <1> QED
    BY <1>1, OperateRefresh, RequestRefresh, AnsweredRefresh, SaveEndsRefresh,
       TimeRefresh, RestartRefresh DEF Next

\* A pooled account's promise is set exactly while its refresh runs, and no
\* request waits for a refresh that is over (credential-pool.ts:307-332),
\* whatever replaces, removes or rebuilds the account meanwhile.
THEOREM RefreshesAreOwned == Spec => []RefreshOwned
  <1>1. RInv => RefreshOwned
    BY DEF RInv
  <1> QED
    BY <1>1, InitRefresh, NextRefresh, PTL DEF Spec

\* There is never more than one refresh of one pooled account at a time: a
\* request that finds one joins it (credential-pool.ts:300).
THEOREM OneRefreshPerAccount == Spec => []OneTaskPerState
  <1>1. RInv => OneTaskPerState
    BY DEF RInv
  <1> QED
    BY <1>1, InitRefresh, NextRefresh, PTL DEF Spec

-----------------------------------------------------------------------------
(* What the end of a refresh does to the accounts and to those who wait    *)

\* A refresh that ends touches only the account it was started for, and only if
\* that account still has the credential the refresh started from or is saving:
\* the checks after each await (credential-pool.ts:310, 311, 318, 324) suffice
\* against every addition, removal, rollback and other refresh meanwhile.
THEOREM LateAnswersAreHarmless == Spec => LateRefreshIsHarmless
  <1> DEFINE Ends(t) == RefreshAnswered(t) \/ \E k \in Due : RefreshSaved(k, t) \/ RefreshUnsaved(k, t)
  <1> DEFINE Spared(t, i) ==
        \/ states'[i] = states[i]
        \/ i \in Located(t) /\ states[i].cred.id \in {t.before.id, t.fresh.id}
        \/ i \in Located(t) /\ states'[i] = [states[i] EXCEPT !.refreshing = FALSE]
  <1>1. ASSUME IInv, NEW t \in tasks, Ends(t)
        PROVE  DOMAIN states' = Idx /\ \A i \in Idx : Spared(t, i)
    <2>1. states \in Seq(Account)
      BY <1>1 DEF IInv, TypeOK
    <2>2. CASE RefreshOrphaned(t)
      BY <2>2 DEF RefreshOrphaned, poolVars, Idx
    <2>3. CASE RefreshOvertaken(t)
      <3>1. PICK j \in Located(t) : states' = [states EXCEPT ![j].refreshing = FALSE]
        BY <2>3 DEF RefreshOvertaken
      <3> QED
        BY <2>1, <3>1 DEF Idx
    <2>4. CASE (\E u \in Users : RefreshSucceeded(t, u)) \/ RefreshRefused(t) \/ RefreshFailed(t)
      <3>1. PICK j \in Located(t) : /\ Unreplaced(t, j)
                                    /\ DOMAIN states' = Idx
                                    /\ \A i \in Idx : i # j => states'[i] = states[i]
        BY <2>1, <2>4 DEF RefreshSucceeded, RefreshRefused, RefreshFailed, Idx
      <3> QED
        BY <3>1 DEF Unreplaced
    <2>5. ASSUME NEW k \in Due, RefreshSaved(k, t) PROVE DOMAIN states' = Idx /\ \A i \in Idx : Spared(t, i)
      BY <2>5 DEF RefreshSaved
    <2>6. ASSUME NEW k \in Due, RefreshUnsaved(k, t) PROVE DOMAIN states' = Idx /\ \A i \in Idx : Spared(t, i)
      BY <2>6 DEF RefreshUnsaved
    <2> QED
      BY <1>1, <2>2, <2>3, <2>4, <2>5, <2>6 DEF RefreshAnswered
  <1>2. IInv =>
          [\A t \in tasks : RefreshAnswered(t) \/ (\E k \in Due : RefreshSaved(k, t) \/ RefreshUnsaved(k, t)) =>
              /\ DOMAIN states' = Idx
              /\ \A i \in Idx :
                    \/ states'[i] = states[i]
                    \/ i \in Located(t) /\ states[i].cred.id \in {t.before.id, t.fresh.id}
                    \/ i \in Located(t) /\ states'[i] = [states[i] EXCEPT !.refreshing = FALSE]]_vars
    BY <1>1
  <1> QED
    BY <1>2, InitDistinct, NextDistinct, PTL DEF Spec, LateRefreshIsHarmless

\* without a store of its own the pool answers as soon as the refresher does
Calling == \A t \in tasks : t.phase = "calling"

\* A request that waits changes only when the refresh it waits for ends.
LEMMA WaiterIsAnswered ==
    ASSUME IInv, Calling, [Next]_vars, Wiring # "store", NEW c \in Callers,
           callers[c].st = "waiting", callers'[c].st = "holding"
    PROVE  \E i \in DOMAIN states' : states'[i].cred = callers'[c].cred
  <1> TypeOK
    BY DEF IInv
  <1>1. callers \in [Callers -> Caller]
    BY DEF TypeOK
  <1>2. callers'[c] # callers[c] /\ callers[c] # Idle
    BY DEF Idle
  <1>3. ASSUME NEW t \in tasks, Settle(t, Idle) PROVE FALSE
    BY <1>1, <1>2, <1>3 DEF Settle, Idle
  <1>4. ASSUME NEW t \in tasks, NEW cred, Settle(t, Holding(cred))
        PROVE  callers'[c].cred = cred
    BY <1>1, <1>2, <1>4 DEF Settle, Holding
  <1>5. ASSUME NEW t \in tasks, RefreshAnswered(t)
        PROVE  \E i \in DOMAIN states' : states'[i].cred = callers'[c].cred
    <2>1. RefreshOvertaken(t) \/ \E u \in Users : RefreshSucceeded(t, u)
      BY <1>3, <1>5 DEF RefreshAnswered, RefreshOrphaned, RefreshRefused, RefreshFailed
    <2>2. \A i \in Located(t) : i \in Idx /\ states[i] \in Account
      BY AccountAt DEF Located
    <2>3. CASE RefreshOvertaken(t)
      <3>1. PICK i \in Located(t) :
                /\ states' = [states EXCEPT ![i].refreshing = FALSE]
                /\ \E outcome \in OvertakenOutcomes(t, i) : Settle(t, outcome)
        BY <2>3 DEF RefreshOvertaken
      <3>2. callers'[c].cred = states[i].cred
        BY <1>3, <1>4, <3>1 DEF OvertakenOutcomes
      <3>3. i \in DOMAIN states' /\ states'[i].cred = states[i].cred
        BY <2>2, <3>1 DEF Account, Idx, TypeOK
      <3> QED
        BY <3>2, <3>3
    <2>4. ASSUME NEW u \in Users, RefreshSucceeded(t, u)
          PROVE  \E i \in DOMAIN states' : states'[i].cred = callers'[c].cred
      <3> DEFINE fresh == NewCred(u, "renewable")
      <3>1. PICK i \in Located(t) :
                states' = [states EXCEPT ![i].cred = fresh,
                                         ![i].refreshing = (Wiring = "store")]
        BY <2>4 DEF RefreshSucceeded
      <3>2. Settle(t, Holding(fresh))
        BY <2>4 DEF RefreshSucceeded
      <3> HIDE DEF fresh
      <3>3. callers'[c].cred = fresh
        BY <1>4, <3>2
      <3>4. i \in DOMAIN states' /\ states'[i].cred = fresh
        BY <2>2, <3>1 DEF Account, Idx, TypeOK
      <3> QED
        BY <3>3, <3>4
    <2> QED
      BY <2>1, <2>3, <2>4
  <1>6. ASSUME NEW d \in Callers, Request(d) PROVE FALSE
    <2>1. d # c
      BY <1>2, <1>6 DEF Request, GetCredential, GetRoundRobin, GetRandom,
                        RejectedByUpstream, ReportFailure, ReportSuccess, Finish
    <2>2. \E v : callers' = [callers EXCEPT ![d] = v]
      BY <1>6 DEF Request, GetCredential, GetRoundRobin, GetRandom, Serve, HandOut,
                  RefreshAccount, JoinRefresh, CannotRefresh, StartRefresh,
                  RejectedByUpstream, ReportFailure, ReportSuccess, Finish
    <2> QED
      BY <1>1, <1>2, <2>1, <2>2
  <1>7. ASSUME NEW k \in Due, SaveEnds(k) PROVE FALSE
    <2>1. \A t \in tasks : ~RefreshSaved(k, t) /\ ~RefreshUnsaved(k, t)
      BY DEF Calling, RefreshSaved, RefreshUnsaved
    <2>2. callers' = callers
      BY <1>7, <2>1 DEF SaveEnds, SinkSaveEnds, OpSaved, RosterRollback, StrategyRollback
    <2> QED
      BY <1>2, <2>2
  <1>8. ASSUME NEW o \in Operators, Operate(o) PROVE FALSE
    BY <1>2, <1>8 DEF Operate, Add, AddNew, AddSame, AddAgain, Remove, SetStrategy
  <1>9. CASE Tick \/ UNCHANGED vars \/ \E i \in Idx : NearsExpiry(i) \/ MarkReauthRequired(i)
    BY <1>2, <1>9 DEF Tick, vars, NearsExpiry, MarkReauthRequired
  <1>10. CASE Restart
    BY <1>10 DEF Restart, Idle
  <1> QED
    BY <1>5, <1>6, <1>7, <1>8, <1>9, <1>10 DEF Next

LEMMA CallingKept ==
    ASSUME IInv, Calling, [Next]_vars, Wiring # "store"
    PROVE  Calling'
  <1>1. ASSUME NEW t \in tasks, NEW outcome, Settle(t, outcome) PROVE Calling'
    BY <1>1 DEF Settle, Calling
  <1>2. ASSUME UNCHANGED tasks PROVE Calling'
    BY <1>2 DEF Calling
  <1>3. ASSUME NEW c \in Callers, Request(c) PROVE Calling'
    <2>1. UNCHANGED tasks \/ \E i \in Idx : StartRefresh(c, i)
      BY <1>3 DEF Request, GetCredential, GetRoundRobin, GetRandom, Serve, HandOut,
                  RefreshAccount, JoinRefresh, CannotRefresh, RejectedByUpstream,
                  ReportFailure, ReportSuccess, Finish, Carrying
    <2> QED
      BY <1>2, <2>1 DEF StartRefresh, Calling
  <1>4. ASSUME NEW t \in tasks, RefreshAnswered(t) PROVE Calling'
    BY <1>1, <1>4 DEF RefreshAnswered, RefreshOrphaned, RefreshOvertaken,
                      RefreshSucceeded, RefreshRefused, RefreshFailed
  <1>5. ASSUME NEW k \in Due, SaveEnds(k) PROVE Calling'
    BY <1>1, <1>2, <1>5 DEF SaveEnds, SinkSaveEnds, OpSaved, RosterRollback,
                            StrategyRollback, RefreshSaved, RefreshUnsaved
  <1>6. ASSUME NEW o \in Operators, Operate(o) PROVE Calling'
    BY <1>2, <1>6 DEF Operate, Add, AddNew, AddSame, AddAgain, Remove, SetStrategy
  <1>7. CASE Tick \/ UNCHANGED vars \/ \E i \in Idx : NearsExpiry(i) \/ MarkReauthRequired(i)
    BY <1>2, <1>7 DEF Tick, vars, NearsExpiry, MarkReauthRequired
  <1>8. CASE Restart
    BY <1>8 DEF Restart, Calling
  <1> QED
    BY <1>3, <1>4, <1>5, <1>6, <1>7, <1>8 DEF Next

\* In a pool without a store of its own (as main.ts wires it), whoever waits for
\* a refresh is given the credential that the account has when the refresh ends,
\* never that of a removed account or one that a newer login replaced
\* (credential-pool.ts:310-316).
THEOREM AnswersAreCurrent ==
    ASSUME Wiring # "store"
    PROVE  Spec => WaitersGetTheCurrentCredential
  <1>1. Init => IInv /\ Calling
    BY InitDistinct DEF Init, Calling
  <1>2. IInv /\ Calling /\ [Next]_vars => (IInv /\ Calling)'
    BY NextDistinct, CallingKept
  <1>3. IInv /\ Calling /\ [Next]_vars =>
          [\A c \in Callers :
              callers[c].st = "waiting" /\ callers'[c].st = "holding" =>
                  \E i \in DOMAIN states' : states'[i].cred = callers'[c].cred]_vars
    BY WaiterIsAnswered
  <1> QED
    BY <1>1, <1>2, <1>3, PTL DEF Spec, WaitersGetTheCurrentCredential

-----------------------------------------------------------------------------
(* No refresh token is in flight twice, as long as no operation is undone. *)
(* A rollback brings back credentials that a refresh may have spent        *)
(* already, so MaxEpochs is 0 here.  A credential belongs to one account,  *)
(* or to the refresh that took it from its account, and to no other.       *)

UniqueCreds(accts, n) ==
    /\ \A i \in DOMAIN accts : accts[i].cred.id <= n
    /\ \A i, j \in DOMAIN accts : i # j => accts[i].cred.id # accts[j].cred.id

Held(t) == {t.before.id, t.fresh.id}

Holds(t) ==
    /\ \A id \in Held(t) : id <= issued
    /\ \A i \in Idx : states[i].cred.id \in Held(t) => t.id = StateId(i)

TasksHold ==
    /\ \A t \in tasks : Holds(t)
    /\ \A s, t \in tasks : s # t => Held(s) \cap Held(t) = {}

SavesUnique == \A k \in DOMAIN writes : UniqueCreds(writes[k].snap.accounts, issued)

TInv ==
    /\ RInv
    /\ UniqueCreds(states, issued)
    /\ TasksHold
    /\ SavesUnique
    /\ UniqueCreds(disk.accounts, issued)

MayIssue == issued' \in {issued, issued + 1}

LEMMA IssuedIsNat == TInv => issued \in Nat /\ epoch \in Nat
  BY DEF TInv, RInv, IInv, TypeOK

LEMMA CredIds ==
    ASSUME TInv
    PROVE  /\ \A i \in Idx : states[i].cred.id \in Nat
           /\ \A t \in tasks : t.before.id \in Nat /\ t.fresh.id \in Nat
  <1>1. TypeOK
    BY DEF TInv, RInv, IInv
  <1>2. \A i \in Idx : states[i].cred.id \in Nat
    BY <1>1, AccountAt DEF Account, Cred
  <1>3. \A t \in tasks : t.before.id \in Nat /\ t.fresh.id \in Nat
    BY <1>1 DEF TypeOK, Task, Cred
  <1> QED
    BY <1>2, <1>3

LEMMA SnapshotIds ==
    ASSUME NEW snap \in Snapshot
    PROVE  \A i \in DOMAIN snap.accounts : snap.accounts[i].cred.id \in Nat
  <1>1. snap.accounts \in Seq([label : Nat, cred : Cred])
    BY DEF Snapshot
  <1>2. \A i \in DOMAIN snap.accounts : snap.accounts[i] \in [label : Nat, cred : Cred]
    <2> DEFINE Entry == [label : Nat, cred : Cred]
    <2>1. snap.accounts \in Seq(Entry)
      BY <1>1
    <2> HIDE DEF Entry
    <2>2. \A i \in DOMAIN snap.accounts : snap.accounts[i] \in Entry
      BY <2>1
    <2> QED
      BY <2>2 DEF Entry
  <1> QED
    BY <1>2 DEF Cred

LEMMA WrittenSnapshots ==
    ASSUME TInv, NEW k \in DOMAIN writes
    PROVE  writes[k].snap \in Snapshot
  <1>1. writes \in Seq(Write)
    BY DEF TInv, RInv, IInv, TypeOK
  <1>2. writes[k] \in Write
    BY <1>1
  <1> QED
    BY <1>2 DEF Write

LEMMA StillUnique ==
    ASSUME NEW snap \in Snapshot, NEW n \in Nat, NEW m \in Nat, n <= m,
           UniqueCreds(snap.accounts, n)
    PROVE  UniqueCreds(snap.accounts, m)
  BY SnapshotIds DEF UniqueCreds

-----------------------------------------------------------------------------
(* Ways a step treats the credentials                                      *)

\* No account changes its credential, and refreshes at most end.
LEMMA TokensKept ==
    ASSUME TInv, SamePlaces, tasks' \subseteq tasks, issued' = issued,
           \A i \in Idx : states'[i].cred.id = states[i].cred.id
    PROVE  UniqueCreds(states, issued)' /\ TasksHold'
  <1>1. Idx' = Idx /\ \A i \in Idx : StateId(i)' = StateId(i)
    BY PlacesKept
  <1>2. UniqueCreds(states, issued)'
    BY DEF TInv, UniqueCreds, SamePlaces, Idx
  <1>3. ASSUME NEW t \in tasks' PROVE Holds(t)'
    BY <1>1 DEF TInv, TasksHold, Holds
  <1> QED
    BY <1>2, <1>3 DEF TInv, TasksHold

\* One account gets a credential just issued, and refreshes at most end.
LEMMA TokenIssued ==
    ASSUME TInv, SamePlaces, tasks' \subseteq tasks, issued' = issued + 1,
           NEW i \in Idx, states'[i].cred.id = issued + 1,
           \A j \in Idx \ {i} : states'[j] = states[j]
    PROVE  UniqueCreds(states, issued)' /\ TasksHold'
  <1>1. Idx' = Idx /\ \A j \in Idx : StateId(j)' = StateId(j)
    BY PlacesKept
  <1>2. \A j \in Idx : states[j].cred.id <= issued /\ states[j].cred.id \in Nat
    BY CredIds DEF TInv, UniqueCreds, Idx
  <1>3. UniqueCreds(states, issued)'
    <2>1. \A j \in Idx : states'[j].cred.id <= issued + 1
      BY <1>2, IssuedIsNat
    <2>2. ASSUME NEW j \in Idx, NEW l \in Idx, j # l
          PROVE  states'[j].cred.id # states'[l].cred.id
      <3>1. CASE j # i /\ l # i
        BY <2>2, <3>1 DEF TInv, UniqueCreds, Idx
      <3>2. CASE j = i \/ l = i
        BY <1>2, <2>2, <3>2, IssuedIsNat
      <3> QED
        BY <3>1, <3>2
    <2>3. DOMAIN states' = Idx
      BY DEF SamePlaces, Idx
    <2> QED
      BY <2>1, <2>2, <2>3 DEF UniqueCreds
  <1>4. ASSUME NEW t \in tasks' PROVE Holds(t)'
    <2>1. Holds(t) /\ \A id \in Held(t) : id \in Nat
      BY CredIds DEF TInv, TasksHold, Held
    <2>2. \A id \in Held(t) : id <= issued + 1 /\ id # issued + 1
      BY <2>1, IssuedIsNat DEF Holds
    <2> QED
      BY <1>1, <2>1, <2>2 DEF Holds
  <1> QED
    BY <1>3, <1>4 DEF TInv, TasksHold

-----------------------------------------------------------------------------
(* Saves keep what they carry *)

LEMMA SavedUnique ==
    ASSUME TInv, TypeOK', MayIssue, UniqueCreds(states, issued)', NEW owner, Saved(owner)
    PROVE  SavesUnique'
  <1> DEFINE w == [snap |-> PoolSnapshot', owner |-> owner]
  <1>1. writes' = Append(writes, w) /\ w.snap.accounts = Roster(states')
    BY DEF Saved, PoolSnapshot
  <1> HIDE DEF w
  <1>2. writes \in Seq(Write) /\ issued \in Nat
    BY DEF TInv, RInv, IInv, TypeOK
  <1>3. UniqueCreds(Roster(states'), issued')
    BY DEF UniqueCreds, Roster
  <1>4. ASSUME NEW k \in DOMAIN writes' PROVE UniqueCreds(writes'[k].snap.accounts, issued')
    <2>1. CASE k \in DOMAIN writes
      <3>1. writes'[k] = writes[k] /\ writes[k].snap \in Snapshot
        BY <1>1, <1>2, <2>1, WrittenSnapshots
      <3>2. issued' \in Nat /\ issued <= issued'
        BY <1>2 DEF MayIssue
      <3> QED
        BY <1>2, <2>1, <3>1, <3>2, StillUnique DEF TInv, SavesUnique
    <2>2. CASE k \notin DOMAIN writes
      <3>1. writes'[k] = w
        BY <1>1, <1>2, <2>2
      <3> QED
        BY <1>1, <1>3, <3>1
    <2> QED
      BY <2>1, <2>2
  <1> QED
    BY <1>4 DEF SavesUnique

LEMMA WritesKeptUnique ==
    ASSUME TInv, TypeOK', MayIssue, UNCHANGED writes
    PROVE  SavesUnique'
  <1>1. ASSUME NEW k \in DOMAIN writes PROVE UniqueCreds(writes[k].snap.accounts, issued')
    <2>1. writes[k].snap \in Snapshot
      BY WrittenSnapshots
    <2>2. issued \in Nat /\ issued' \in Nat /\ issued <= issued'
      BY IssuedIsNat DEF MayIssue
    <2> QED
      BY <2>1, <2>2, StillUnique DEF TInv, SavesUnique
  <1> QED
    BY <1>1 DEF SavesUnique

LEMMA DiskKeptUnique ==
    ASSUME TInv, MayIssue, UNCHANGED disk
    PROVE  UniqueCreds(disk.accounts, issued)'
  <1>1. disk \in Snapshot
    BY DEF TInv, RInv, IInv, TypeOK
  <1>2. issued \in Nat /\ issued' \in Nat /\ issued <= issued'
    BY IssuedIsNat DEF MayIssue
  <1> QED
    BY <1>1, <1>2, StillUnique DEF TInv

\* A step that at most hands a save to the account store.
LEMMA StepUnique ==
    ASSUME TInv, RInv', MayIssue, UNCHANGED disk,
           UniqueCreds(states, issued)', TasksHold',
           UNCHANGED writes \/ EmitEvent \/ \E owner : Saved(owner)
    PROVE  TInv'
  <1>1. TypeOK'
    BY DEF RInv, IInv
  <1>2. SavesUnique'
    BY <1>1, SavedUnique, WritesKeptUnique DEF EmitEvent
  <1> QED
    BY <1>2, DiskKeptUnique DEF TInv

LEMMA SaveUnique ==
    ASSUME TInv, issued' = issued, NEW k \in Due, NEW owner,
           SaveApplied(k, owner) \/ SaveFailed(k, owner)
    PROVE  SavesUnique' /\ UniqueCreds(disk.accounts, issued)'
  <1>1. /\ k \in 1 .. Len(writes)
        /\ disk' = disk \/ disk' = writes[k].snap
        /\ writes' = Without(writes, k)
    BY SaveType DEF TInv, RInv, IInv
  <1>2. writes \in Seq(Write)
    BY DEF TInv, RInv, IInv, TypeOK
  <1>3. DOMAIN writes = 1 .. Len(writes) /\ Len(writes) \in Nat
    BY <1>2
  <1>4. /\ DOMAIN writes' = 1 .. (Len(writes) - 1)
        /\ \A i \in 1 .. (Len(writes) - 1) :
              writes'[i] = IF i < k THEN writes[i] ELSE writes[i + 1]
    BY <1>1, <1>2, WithoutType
  <1>5. UniqueCreds(disk'.accounts, issued)
    BY <1>1, <1>3 DEF TInv, SavesUnique
  <1>6. ASSUME NEW i \in DOMAIN writes' PROVE UniqueCreds(writes'[i].snap.accounts, issued)
    <2>1. i \in DOMAIN writes /\ i + 1 \in DOMAIN writes
      BY <1>3, <1>4
    <2>2. writes'[i] = writes[i] \/ writes'[i] = writes[i + 1]
      BY <1>4
    <2> QED
      BY <2>1, <2>2 DEF TInv, SavesUnique
  <1> QED
    BY <1>5, <1>6 DEF SavesUnique

-----------------------------------------------------------------------------
(* The steps.  What they say of the credentials, and that they hand at     *)
(* most one save over, gives TInv' by StepUnique.                          *)

TokensHold == UniqueCreds(states, issued) /\ TasksHold

LEMMA AddNewTokens ==
    ASSUME TInv, NEW o \in Operators, NEW u \in Users, NEW kind \in Kind,
           AddNew(o, u, kind)
    PROVE  TokensHold'
  <1> DEFINE a == NewAccount(u, kind)
  <1>1. a.cred.id = issued + 1
    BY DEF NewAccount, Healthy, NewCred
  <1>2. states' = Append(states, a) /\ issued' = issued + 1
        /\ epoch' = epoch /\ tasks' = tasks
    BY DEF AddNew
  <1> HIDE DEF a
  <1>3. states \in Seq(Account) /\ issued \in Nat
    BY DEF TInv, RInv, IInv, TypeOK
  <1>4. DOMAIN states' = 1 .. (Len(states) + 1) /\ Idx = 1 .. Len(states)
        /\ Len(states) \in Nat
    BY <1>2, <1>3 DEF Idx
  <1>5. \A i \in Idx : states'[i] = states[i]
    BY <1>2, <1>3, <1>4
  <1>6. states'[Len(states) + 1] = a
    BY <1>2, <1>3
  <1>7. \A i \in DOMAIN states' : i \in Idx \/ i = Len(states) + 1
    BY <1>4
  <1>8. \A i \in Idx : states[i].cred.id \in Nat /\ states[i].cred.id <= issued
    BY CredIds DEF TInv, UniqueCreds, Idx
  <1>9. \A i, j \in Idx : i # j => states[i].cred.id # states[j].cred.id
    BY DEF TInv, UniqueCreds, Idx
  <1>10. UniqueCreds(states, issued)'
    <2>1. ASSUME NEW i \in DOMAIN states' PROVE states'[i].cred.id <= issued + 1
      BY <1>1, <1>3, <1>5, <1>6, <1>7, <1>8
    <2>2. ASSUME NEW i \in DOMAIN states', NEW j \in DOMAIN states', i # j
          PROVE  states'[i].cred.id # states'[j].cred.id
      <3>1. CASE i \in Idx /\ j \in Idx
        BY <1>5, <1>9, <2>2, <3>1
      <3>2. CASE i \in Idx /\ j = Len(states) + 1
        BY <1>1, <1>3, <1>5, <1>6, <1>8, <3>2
      <3>3. CASE i = Len(states) + 1 /\ j \in Idx
        BY <1>1, <1>3, <1>5, <1>6, <1>8, <3>3
      <3> QED
        BY <1>7, <2>2, <3>1, <3>2, <3>3
    <2> QED
      BY <1>2, <2>1, <2>2 DEF UniqueCreds
  <1>11. ASSUME NEW t \in tasks PROVE Holds(t)'
    <2>1. Holds(t) /\ \A id \in Held(t) : id \in Nat
      BY CredIds DEF TInv, TasksHold, Held
    <2>2. \A id \in Held(t) : id <= issued + 1 /\ id # issued + 1
      BY <1>3, <2>1 DEF Holds
    <2>3. \A i \in Idx : StateId(i)' = StateId(i)
      BY <1>2, <1>5 DEF StateId
    <2>4. \A i \in Idx' : states'[i].cred.id \in Held(t) => t.id = StateId(i)'
      BY <1>1, <1>5, <1>6, <1>7, <2>1, <2>2, <2>3 DEF Holds, Idx
    <2> QED
      BY <1>2, <2>2, <2>4 DEF Holds
  <1> QED
    BY <1>2, <1>10, <1>11 DEF TokensHold, TInv, TasksHold

LEMMA RemoveTokens ==
    ASSUME TInv, NEW o \in Operators, NEW k \in Idx, Remove(o, k)
    PROVE  TokensHold'
  <1>1. states \in Seq(Account) /\ k \in 1 .. Len(states) /\ Idx = 1 .. Len(states)
        /\ Len(states) \in Nat
    BY AccountAt DEF TInv, RInv, IInv, TypeOK, Idx
  <1>2. states' = Without(states, k) /\ epoch' = epoch
        /\ tasks' = tasks /\ issued' = issued
    BY DEF Remove
  <1> DEFINE from(i) == IF i < k THEN i ELSE i + 1
  <1>3. /\ DOMAIN states' = 1 .. (Len(states) - 1)
        /\ \A i \in 1 .. (Len(states) - 1) :
              states'[i] = IF i < k THEN states[i] ELSE states[i + 1]
    BY <1>1, <1>2, WithoutType
  <1>4. \A i \in DOMAIN states' : from(i) \in Idx
    BY <1>1, <1>3
  <1>5. \A i, j \in DOMAIN states' : i # j => from(i) # from(j)
    BY <1>1, <1>3
  <1>6. ASSUME NEW i \in DOMAIN states' PROVE states'[i] = states[from(i)]
    <2>1. states'[i] = IF i < k THEN states[i] ELSE states[i + 1]
      BY <1>3
    <2> QED
      BY <2>1
  <1> HIDE DEF from
  <1>7. UniqueCreds(states, issued)'
    BY <1>2, <1>4, <1>5, <1>6 DEF TInv, UniqueCreds, Idx
  <1>8. ASSUME NEW t \in tasks PROVE Holds(t)'
    <2>1. \A i \in Idx' : from(i) \in Idx /\ states'[i] = states[from(i)]
                         /\ StateId(i)' = StateId(from(i))
      BY <1>2, <1>4, <1>6 DEF StateId, Idx
    <2> QED
      BY <1>2, <2>1 DEF TInv, TasksHold, Holds
  <1> QED
    BY <1>2, <1>7, <1>8 DEF TokensHold, TInv, TasksHold

LEMMA OperateTokens ==
    ASSUME TInv, RInv', NEW o \in Operators, Operate(o)
    PROVE  TInv'
  <1> TypeOK /\ issued \in Nat
    BY IssuedIsNat DEF TInv, RInv, IInv
  <1>1. ASSUME NEW i \in Idx, NEW kind \in Kind, AddAgain(o, i, kind)
        PROVE  TokensHold' /\ MayIssue
    <2> DEFINE a == Replaced(states[i], NewCred(states[i].cred.user, kind))
    <2>1. states' = [states EXCEPT ![i] = a] /\ issued' = issued + 1
          /\ epoch' = epoch /\ tasks' = tasks
      BY <1>1 DEF AddAgain
    <2>2. a.label = states[i].label /\ a.cred.id = issued + 1
      BY AccountAt DEF Replaced, Account, NewCred
    <2> HIDE DEF a
    <2>3. SamePlaces /\ states'[i] = a /\ \A j \in Idx \ {i} : states'[j] = states[j]
      BY <2>1, <2>2, ExceptPlaces
    <2> QED
      BY <2>1, <2>2, <2>3, TokenIssued DEF TokensHold, MayIssue
  <1>2. ASSUME NEW i \in Idx, AddSame(o, i)
        PROVE  TokensHold' /\ MayIssue
    <2> DEFINE a == Replaced(states[i], states[i].cred)
    <2>1. states' = [states EXCEPT ![i] = a] /\ issued' = issued
          /\ epoch' = epoch /\ tasks' = tasks
      BY <1>2 DEF AddSame
    <2>2. a.label = states[i].label /\ a.cred = states[i].cred
      BY AccountAt DEF Replaced, Account
    <2> HIDE DEF a
    <2>3. SamePlaces /\ states'[i] = a /\ \A j \in Idx \ {i} : states'[j] = states[j]
      BY <2>1, <2>2, ExceptPlaces
    <2> QED
      BY <2>1, <2>2, <2>3, TokensKept DEF TokensHold, MayIssue
  <1>3. ASSUME NEW s \in Strategy, SetStrategy(o, s)
        PROVE  TokensHold' /\ MayIssue
    BY <1>3, TokensKept DEF SetStrategy, SamePlaces, TokensHold, MayIssue
  <1>4. ASSUME NEW u \in Users, NEW kind \in Kind, AddNew(o, u, kind)
        PROVE  TokensHold' /\ MayIssue
    BY <1>4, AddNewTokens DEF AddNew, MayIssue
  <1>5. ASSUME NEW k \in Idx, Remove(o, k)
        PROVE  TokensHold' /\ MayIssue
    BY <1>5, RemoveTokens DEF Remove, MayIssue
  <1>6. TokensHold' /\ MayIssue
    BY <1>1, <1>2, <1>3, <1>4, <1>5 DEF Operate, Add
  <1>7. disk' = disk /\ \E kind \in {"roster", "strategy"} : Persisted(o, kind)
    BY DEF Operate, Add, AddNew, AddSame, AddAgain, Remove, SetStrategy
  <1>8. EmitEvent \/ \E owner : Saved(owner)
    BY <1>7 DEF Persisted
  <1> QED
    BY <1>6, <1>7, <1>8, StepUnique DEF TokensHold

LEMMA ServeTokens ==
    ASSUME TInv, NEW c \in Callers, NEW i \in Idx,
           RefreshAccount(c, i) \/ HandOut(c, i), UNCHANGED <<epoch, issued>>
    PROVE  TokensHold'
  <1> TypeOK
    BY DEF TInv, RInv, IInv
  <1>1. CASE UNCHANGED <<states, tasks>>
    BY <1>1, TokensKept DEF SamePlaces, TokensHold
  <1>2. CASE CannotRefresh(c, i)
    <2> DEFINE a == [states[i] EXCEPT !.reauth = TRUE]
    <2>1. a.label = states[i].label /\ a.cred = states[i].cred
      BY AccountAt DEF Account
    <2>2. states' = [states EXCEPT ![i] = a] /\ tasks' = tasks
      BY <1>2 DEF CannotRefresh
    <2> HIDE DEF a
    <2>3. SamePlaces /\ states'[i] = a /\ \A j \in Idx \ {i} : states'[j] = states[j]
      BY <2>1, <2>2, ExceptPlaces
    <2> QED
      BY <2>1, <2>2, <2>3, TokensKept DEF TokensHold
  <1>3. CASE StartRefresh(c, i) /\ ~states[i].refreshing
    <2> DEFINE a == [states[i] EXCEPT !.refreshing = TRUE]
    <2>1. a.label = states[i].label /\ a.cred = states[i].cred
      BY AccountAt DEF Account
    <2>2. states' = [states EXCEPT ![i] = a]
      BY <1>3 DEF StartRefresh
    <2>3. PICK new : /\ tasks' = tasks \cup {new}
                     /\ new.id = StateId(i)
                     /\ Held(new) = {states[i].cred.id}
      <3> DEFINE new == [id |-> StateId(i), by |-> c, before |-> states[i].cred,
                         fresh |-> states[i].cred, phase |-> "calling"]
      <3>1. tasks' = tasks \cup {new}
        BY <1>3 DEF StartRefresh
      <3>2. new.id = StateId(i) /\ Held(new) = {states[i].cred.id}
        BY DEF Held
      <3> HIDE DEF new
      <3> QED
        BY <3>1, <3>2
    <2> HIDE DEF a
    <2>4. SamePlaces /\ states'[i] = a /\ \A j \in Idx \ {i} : states'[j] = states[j]
      BY <2>1, <2>2, ExceptPlaces
    <2>5. Idx' = Idx /\ \A j \in Idx : StateId(j)' = StateId(j)
      BY <2>4, PlacesKept
    <2>6. \A j \in Idx : states'[j].cred = states[j].cred
      BY <2>1, <2>4
    <2>7. UniqueCreds(states, issued)'
      BY <2>4, <2>6 DEF TInv, UniqueCreds, SamePlaces, Idx
    <2>8. ASSUME NEW t \in tasks PROVE Holds(t)' /\ Held(t) \cap Held(new) = {}
      <3>1. Holds(t)
        BY DEF TInv, TasksHold
      <3>2. t.id # StateId(i)
        BY <1>3 DEF TInv, RInv, RefreshOwned
      <3> QED
        BY <2>3, <2>5, <2>6, <3>1, <3>2 DEF Holds
    <2>9. Holds(new)'
      <3>1. states[i].cred.id <= issued
        BY DEF TInv, UniqueCreds, Idx
      <3>2. \A j \in Idx : states[j].cred.id = states[i].cred.id => j = i
        BY DEF TInv, UniqueCreds, Idx
      <3> QED
        BY <2>3, <2>5, <2>6, <3>1, <3>2 DEF Holds
    <2> QED
      BY <2>3, <2>7, <2>8, <2>9 DEF TokensHold, TInv, TasksHold
  <1> QED
    BY <1>1, <1>2, <1>3 DEF RefreshAccount, JoinRefresh, HandOut

LEMMA RequestTokens ==
    ASSUME TInv, RInv', NEW c \in Callers, Request(c)
    PROVE  TInv'
  <1> TypeOK /\ issued \in Nat
    BY IssuedIsNat DEF TInv, RInv, IInv
  <1>1. CASE GetCredential(c)
    <2>1. UNCHANGED <<epoch, issued, disk, writes>>
      BY <1>1 DEF GetCredential, GetRoundRobin, GetRandom, storeVars
    <2>2. TokensHold'
      BY <1>1, <2>1, ServeTokens DEF GetCredential, GetRoundRobin, GetRandom, Serve
    <2> QED
      BY <2>1, <2>2, StepUnique DEF MayIssue, TokensHold
  <1>2. CASE RejectedByUpstream(c)
    <2>1. UNCHANGED <<epoch, issued, disk, writes>>
      BY <1>2 DEF RejectedByUpstream, storeVars
    <2>2. TokensHold'
      <3>1. CASE \E i \in Carrying(callers[c].cred) : RefreshAccount(c, i)
        BY <2>1, <3>1, ServeTokens DEF Carrying
      <3>2. CASE UNCHANGED <<states, tasks>>
        BY <2>1, <3>2, TokensKept DEF SamePlaces, TokensHold
      <3> QED
        BY <1>2, <3>1, <3>2 DEF RejectedByUpstream
    <2> QED
      BY <2>1, <2>2, StepUnique DEF MayIssue, TokensHold
  <1>3. CASE ReportFailure(c) \/ ReportSuccess(c) \/ Finish(c)
    <2>1. UNCHANGED <<epoch, issued, tasks, disk>> /\ (UNCHANGED writes \/ EmitEvent)
      BY <1>3 DEF ReportFailure, ReportSuccess, Finish, poolVars, storeVars
    <2>2. CASE UNCHANGED states
      <3>1. TokensHold'
        BY <2>1, <2>2, TokensKept DEF SamePlaces, TokensHold
      <3> QED
        BY <2>1, <3>1, StepUnique DEF MayIssue, TokensHold
    <2>3. CASE states' # states
      <3>1. PICK i \in Idx : \E a \in {Penalised(states[i]), Recovered(states[i])} :
                               states' = [states EXCEPT ![i] = a]
        BY <1>3, <2>3 DEF ReportFailure, ReportSuccess, Finish, Carrying, poolVars
      <3>2. PICK a \in {Penalised(states[i]), Recovered(states[i])} :
                states' = [states EXCEPT ![i] = a]
        BY <3>1
      <3>3. a.label = states[i].label /\ a.cred = states[i].cred
        BY AccountAt DEF Penalised, Recovered, Account
      <3>4. SamePlaces /\ states'[i] = a /\ \A j \in Idx \ {i} : states'[j] = states[j]
        BY <2>1, <3>2, <3>3, ExceptPlaces
      <3>5. TokensHold'
        BY <2>1, <3>3, <3>4, TokensKept DEF TokensHold
      <3> QED
        BY <2>1, <3>5, StepUnique DEF MayIssue, TokensHold
    <2> QED
      BY <2>2, <2>3
  <1> QED
    BY <1>1, <1>2, <1>3 DEF Request

\* the account keeps its credential until the pool has saved the new one
LEMMA SucceededTokens ==
    ASSUME TInv, NEW t \in tasks, NEW u \in Users, RefreshSucceeded(t, u)
    PROVE  TokensHold'
  <1> TypeOK /\ issued \in Nat
    BY IssuedIsNat DEF TInv, RInv, IInv
  <1> DEFINE fresh == NewCred(u, "renewable")
  <1>1. PICK i \in Located(t) :
            states' = [states EXCEPT ![i].cred = fresh,
                                     ![i].refreshing = (Wiring = "store")]
    BY DEF RefreshSucceeded
  <1>2. i \in Idx /\ t.id = StateId(i) /\ states[i] \in Account /\ states \in Seq(Account)
    BY AccountAt DEF Located, TypeOK
  <1> DEFINE a == [states[i] EXCEPT !.cred = fresh, !.refreshing = (Wiring = "store")]
  <1>3. states' = [states EXCEPT ![i] = a]
    BY <1>1, <1>2
  <1>4. a.label = states[i].label /\ a.cred.id = issued + 1
    BY <1>2 DEF Account, NewCred
  <1>5. epoch' = epoch /\ issued' = issued + 1
    BY DEF RefreshSucceeded
  <1>6. CASE Wiring # "store"
    <2>1. tasks' \subseteq tasks
      BY <1>6 DEF RefreshSucceeded, Settle
    <2> HIDE DEF a
    <2>2. SamePlaces /\ states'[i] = a /\ \A j \in Idx \ {i} : states'[j] = states[j]
      BY <1>2, <1>3, <1>4, <1>5, ExceptPlaces
    <2> QED
      BY <1>2, <1>4, <1>5, <2>1, <2>2, TokenIssued DEF TokensHold
  <1>7. CASE Wiring = "store"
    <2>1. PICK new : /\ tasks' = (tasks \ {t}) \cup {new}
                     /\ new.id = t.id
                     /\ Held(new) = {t.before.id, issued + 1}
      <3> DEFINE new == [t EXCEPT !.fresh = fresh, !.phase = "saving"]
      <3>1. tasks' = (tasks \ {t}) \cup {new}
        BY <1>7 DEF RefreshSucceeded
      <3>2. t \in Task
        BY DEF TypeOK
      <3>3. new.id = t.id /\ Held(new) = {t.before.id, issued + 1}
        BY <3>2 DEF Task, Held, NewCred
      <3> HIDE DEF new
      <3> QED
        BY <3>1, <3>3
    <2> HIDE DEF a, fresh
    <2>2. SamePlaces /\ states'[i] = a /\ \A j \in Idx \ {i} : states'[j] = states[j]
      BY <1>2, <1>3, <1>4, <1>5, ExceptPlaces
    <2>3. Idx' = Idx /\ \A j \in Idx : StateId(j)' = StateId(j)
      BY <2>2, PlacesKept
    <2>4. \A j \in Idx : states[j].cred.id <= issued /\ states[j].cred.id \in Nat
      BY CredIds DEF TInv, UniqueCreds, Idx
    <2>5. \A s \in tasks : Holds(s) /\ \A id \in Held(s) : id \in Nat /\ id <= issued
      BY CredIds DEF TInv, TasksHold, Holds, Held
    <2>6. UniqueCreds(states, issued)'
      <3>1. ASSUME NEW j \in Idx, NEW l \in Idx, j # l
            PROVE  states'[j].cred.id # states'[l].cred.id
        <4>1. CASE j # i /\ l # i
          BY <2>2, <3>1, <4>1 DEF TInv, UniqueCreds, Idx
        <4>2. CASE j = i \/ l = i
          BY <1>4, <2>2, <2>4, <3>1, <4>2
        <4> QED
          BY <4>1, <4>2
      <3>2. \A j \in Idx : states'[j].cred.id <= issued + 1
        BY <1>4, <2>2, <2>4
      <3>3. DOMAIN states' = Idx
        BY <2>3 DEF Idx
      <3> QED
        BY <1>5, <3>1, <3>2, <3>3 DEF UniqueCreds
    <2>7. ASSUME NEW s \in tasks \ {t} PROVE Holds(s)' /\ Held(s) \cap Held(new) = {}
      <3>1. Held(s) \cap Held(t) = {}
        BY <2>7 DEF TInv, TasksHold
      <3>2. issued + 1 \notin Held(s)
        BY <2>5, <2>7
      <3>3. \A id \in Held(s) : id <= issued + 1
        BY <2>5, <2>7
      <3>4. \A j \in Idx : states'[j].cred.id \in Held(s) => s.id = StateId(j)
        BY <1>4, <2>2, <2>5, <2>7, <3>2 DEF Holds
      <3> QED
        BY <1>5, <2>1, <2>3, <3>1, <3>2, <3>3, <3>4 DEF Holds, Held
    <2>8. Holds(new)'
      <3>1. \A id \in Held(new) : id <= issued + 1
        <4>1. t.before.id \in Nat /\ t.before.id <= issued
          BY <2>5 DEF Held
        <4> QED
          BY <2>1, <4>1
      <3>2. ASSUME NEW j \in Idx, states'[j].cred.id \in Held(new)
            PROVE  new.id = StateId(j)
        <4>1. CASE j = i
          BY <1>2, <2>1, <4>1
        <4>2. CASE j # i
          <5>1. states[j].cred.id = t.before.id
            BY <2>1, <2>2, <2>4, <3>2, <4>2
          <5> QED
            BY <2>1, <2>5, <5>1 DEF Holds, Held
        <4> QED
          BY <4>1, <4>2
      <3> QED
        BY <1>5, <2>3, <3>1, <3>2 DEF Holds
    <2>9. TasksHold'
      BY <2>1, <2>7, <2>8 DEF TasksHold, TInv
    <2> QED
      BY <2>6, <2>9 DEF TokensHold
  <1> QED
    BY <1>6, <1>7

LEMMA AnsweredTokens ==
    ASSUME TInv, RInv', NEW t \in tasks, RefreshAnswered(t)
    PROVE  TInv'
  <1> TypeOK /\ issued \in Nat
    BY IssuedIsNat DEF TInv, RInv, IInv
  <1>1. ASSUME NEW u \in Users, RefreshSucceeded(t, u)
        PROVE  TInv'
    <2>1. UNCHANGED disk /\ MayIssue /\ (UNCHANGED writes \/ \E owner : Saved(owner))
      BY <1>1 DEF RefreshSucceeded, MayIssue
    <2> QED
      BY <1>1, <2>1, SucceededTokens, StepUnique DEF TokensHold
  <1>2. CASE RefreshOrphaned(t) \/ RefreshOvertaken(t) \/ RefreshRefused(t) \/ RefreshFailed(t)
    <2>1. tasks' \subseteq tasks /\ UNCHANGED <<epoch, issued, disk>>
          /\ (UNCHANGED writes \/ EmitEvent)
      BY <1>2 DEF RefreshOrphaned, RefreshOvertaken, RefreshRefused, RefreshFailed,
                  Settle, poolVars, storeVars
    <2>2. DOMAIN states' = Idx
          /\ \A j \in Idx : states'[j].label = states[j].label /\ states'[j].cred = states[j].cred
      <3>1. CASE RefreshOrphaned(t)
        BY <3>1 DEF RefreshOrphaned, poolVars, Idx
      <3>2. CASE RefreshOvertaken(t) \/ RefreshRefused(t) \/ RefreshFailed(t)
        <4>1. PICK i \in Located(t) :
                  \/ states' = [states EXCEPT ![i].refreshing = FALSE]
                  \/ states' = [states EXCEPT ![i].reauth = TRUE, ![i].refreshing = FALSE]
                  \/ states' = [states EXCEPT ![i] = [Penalised(@) EXCEPT !.refreshing = FALSE]]
          BY <3>2 DEF RefreshOvertaken, RefreshRefused, RefreshFailed
        <4>2. i \in Idx /\ states[i] \in Account /\ states \in Seq(Account)
          BY AccountAt DEF Located, TypeOK
        <4>3. DOMAIN states' = Idx /\ \A j \in Idx \ {i} : states'[j] = states[j]
          BY <4>1, <4>2 DEF Idx
        <4>4. states'[i].label = states[i].label /\ states'[i].cred = states[i].cred
          BY <4>1, <4>2 DEF Account, Penalised, Idx
        <4> QED
          BY <4>3, <4>4
      <3> QED
        BY <1>2, <3>1, <3>2
    <2>3. SamePlaces
      BY <2>1, <2>2 DEF SamePlaces, Idx
    <2>4. TokensHold'
      BY <2>1, <2>2, <2>3, TokensKept DEF TokensHold
    <2> QED
      BY <2>1, <2>4, StepUnique DEF MayIssue, TokensHold
  <1> QED
    BY <1>1, <1>2 DEF RefreshAnswered

\* A credential that could not be saved is given up for the one it replaced,
\* which nobody else has.
LEMMA UnsavedTokens ==
    ASSUME TInv, NEW k \in Due, NEW t \in tasks, RefreshUnsaved(k, t)
    PROVE  TokensHold'
  <1> TypeOK /\ issued \in Nat
    BY IssuedIsNat DEF TInv, RInv, IInv
  <1>1. tasks' = tasks \ {t} /\ epoch' = epoch /\ issued' = issued
    BY DEF RefreshUnsaved, Settle
  <1>2. DOMAIN states' = Idx
    BY DEF RefreshUnsaved
  <1>3. ASSUME NEW i \in Idx
        PROVE  /\ states'[i].label = states[i].label
               /\ \/ states'[i].cred.id = states[i].cred.id
                  \/ i \in Located(t) /\ states'[i].cred.id = t.before.id
    <2>1. states[i] \in Account
      BY AccountAt
    <2> DEFINE quiet == [states[i] EXCEPT !.refreshing = FALSE]
    <2> DEFINE back == [states[i] EXCEPT !.cred = t.before, !.refreshing = FALSE]
    <2>2. \/ states'[i] = states[i]
          \/ states'[i] = quiet
          \/ i \in Located(t) /\ states'[i] = Penalised(back)
      BY DEF RefreshUnsaved
    <2>3. quiet.label = states[i].label /\ quiet.cred = states[i].cred
      BY <2>1 DEF Account
    <2>4. Penalised(back).label = states[i].label /\ Penalised(back).cred = t.before
      BY <2>1 DEF Account, Penalised
    <2> HIDE DEF quiet, back
    <2> QED
      BY <2>2, <2>3, <2>4
  <1>4. SamePlaces
    BY <1>1, <1>2, <1>3 DEF SamePlaces, Idx
  <1>5. Idx' = Idx /\ \A j \in Idx : StateId(j)' = StateId(j)
    BY <1>4, PlacesKept
  <1>6. \A i \in Located(t) : i \in Idx /\ t.id = StateId(i)
    BY DEF Located
  <1>7. \A i \in Idx : states[i].cred.id = t.before.id => i \in Located(t)
    BY DEF TInv, TasksHold, Holds, Held, Located
  <1>8. \A i, j \in Located(t) : i = j
    BY <1>6, StateIdsDiffer DEF TInv, RInv
  <1>9. UniqueCreds(states, issued)'
    <2>1. t.before.id <= issued
      BY DEF TInv, TasksHold, Holds, Held
    <2>2. \A i \in Idx : states'[i].cred.id <= issued
      BY <1>3, <2>1 DEF TInv, UniqueCreds, Idx
    <2>3. ASSUME NEW i \in Idx, NEW j \in Idx, i # j
          PROVE  states'[i].cred.id # states'[j].cred.id
      <3>1. states[i].cred.id # states[j].cred.id
        BY <2>3 DEF TInv, UniqueCreds, Idx
      <3>2. ~(i \in Located(t) /\ j \in Located(t))
        BY <1>8, <2>3
      <3> QED
        BY <1>3, <1>7, <3>1, <3>2
    <2> QED
      BY <1>1, <1>2, <2>2, <2>3 DEF UniqueCreds
  <1>10. ASSUME NEW s \in tasks \ {t} PROVE Holds(s)'
    <2>1. Holds(s) /\ t.before.id \notin Held(s)
      BY <1>10 DEF TInv, TasksHold, Held
    <2>2. \A i \in Idx : states'[i].cred.id \in Held(s) => s.id = StateId(i)
      BY <1>3, <2>1 DEF Holds
    <2> QED
      BY <1>1, <1>5, <2>1, <2>2 DEF Holds
  <1> QED
    BY <1>1, <1>9, <1>10 DEF TokensHold, TasksHold, TInv

LEMMA SaveEndsTokens ==
    ASSUME MaxEpochs = 0, TInv, RInv', NEW k \in Due, SaveEnds(k)
    PROVE  TInv'
  <1> TypeOK /\ issued \in Nat /\ epoch \in Nat
    BY IssuedIsNat DEF TInv, RInv, IInv
  <1>1. \A o \in Operators : ~RosterRollback(k, o)
    BY DEF RosterRollback
  <1>2. issued' = issued /\ \E owner : SaveApplied(k, owner) \/ SaveFailed(k, owner)
    BY <1>1 DEF SaveEnds, SinkSaveEnds, OpSaved, StrategyRollback, RefreshSaved,
                RefreshUnsaved
  <1>3. SavesUnique' /\ UniqueCreds(disk.accounts, issued)'
    BY <1>2, SaveUnique
  <1>4. ASSUME UNCHANGED <<states, epoch, tasks>> PROVE TokensHold'
    <2>1. SamePlaces /\ issued' = issued
      BY <1>2, <1>4 DEF SamePlaces
    <2> QED
      BY <1>4, <2>1, TokensKept DEF TokensHold
  <1>5. ASSUME SinkSaveEnds(k) \/ \E o \in Operators : OpSaved(k, o) \/ StrategyRollback(k, o)
        PROVE  TokensHold'
    BY <1>4, <1>5 DEF SinkSaveEnds, OpSaved, StrategyRollback, poolVars
  <1>6. ASSUME NEW t \in tasks, RefreshSaved(k, t)
        PROVE  TokensHold'
    <2>1. epoch' = epoch /\ DOMAIN states' = Idx /\ tasks' \subseteq tasks
      BY <1>6 DEF RefreshSaved, Settle
    <2>2. ASSUME NEW i \in Idx
          PROVE  states'[i].label = states[i].label /\ states'[i].cred = states[i].cred
      <3> DEFINE quiet == [states[i] EXCEPT !.refreshing = FALSE]
      <3>1. states'[i] = states[i] \/ states'[i] = quiet
        BY <1>6 DEF RefreshSaved
      <3>2. quiet.label = states[i].label /\ quiet.cred = states[i].cred
        BY AccountAt DEF Account
      <3> HIDE DEF quiet
      <3> QED
        BY <3>1, <3>2
    <2>3. SamePlaces
      BY <2>1, <2>2 DEF SamePlaces, Idx
    <2> QED
      BY <1>2, <2>1, <2>2, <2>3, TokensKept DEF TokensHold
  <1>7. TokensHold'
    BY <1>1, <1>5, <1>6, UnsavedTokens DEF SaveEnds
  <1> QED
    BY <1>3, <1>7 DEF TInv, TokensHold

LEMMA TimeTokens ==
    ASSUME TInv, RInv',
           Tick \/ (\E i \in Idx : NearsExpiry(i) \/ MarkReauthRequired(i)) \/ UNCHANGED vars
    PROVE  TInv'
  <1> TypeOK
    BY DEF TInv, RInv, IInv
  <1>1. UNCHANGED <<epoch, tasks, issued, disk>> /\ (UNCHANGED writes \/ EmitEvent)
    BY DEF Tick, NearsExpiry, MarkReauthRequired, poolVars, storeVars, vars
  <1>2. DOMAIN states' = Idx
    BY DEF Tick, NearsExpiry, MarkReauthRequired, poolVars, Idx, vars
  <1>3. ASSUME NEW j \in Idx
        PROVE  states'[j].label = states[j].label /\ states'[j].cred = states[j].cred
    <2>1. states[j] \in Account /\ states \in Seq(Account)
      BY AccountAt DEF TypeOK
    <2>2. CASE Tick
      BY <2>1, <2>2 DEF Tick, Account
    <2>3. CASE UNCHANGED vars \/ \E i \in Idx : NearsExpiry(i)
      BY <2>3 DEF NearsExpiry, poolVars, vars
    <2>4. ASSUME NEW i \in Idx, MarkReauthRequired(i)
          PROVE  states'[j].label = states[j].label /\ states'[j].cred = states[j].cred
      BY <2>1, <2>4, AccountAt DEF MarkReauthRequired, Account, Idx
    <2> QED
      BY <2>2, <2>3, <2>4
  <1>4. SamePlaces
    BY <1>1, <1>2, <1>3 DEF SamePlaces, Idx
  <1>5. TokensHold'
    BY <1>1, <1>3, <1>4, TokensKept DEF TokensHold
  <1> QED
    BY <1>1, <1>5, StepUnique DEF MayIssue, TokensHold

LEMMA RestartTokens ==
    ASSUME TInv, RInv', Restart
    PROVE  TInv'
  <1>1. states' = Restored(disk) /\ tasks' = {} /\ writes' = <<>>
        /\ disk' = disk /\ issued' = issued
    BY DEF Restart
  <1>2. UniqueCreds(Restored(disk), issued)
    BY DEF TInv, UniqueCreds, Restored, Healthy
  <1>3. UniqueCreds(states, issued)' /\ UniqueCreds(disk.accounts, issued)'
    BY <1>1, <1>2 DEF TInv, UniqueCreds
  <1>4. TasksHold' /\ SavesUnique'
    BY <1>1 DEF TasksHold, SavesUnique
  <1> QED
    BY <1>3, <1>4 DEF TInv

LEMMA InitTokens == Init => TInv
  <1> SUFFICES ASSUME Init PROVE TInv
    OBVIOUS
  <1>1. RInv
    BY InitRefresh
  <1>2. states = <<>> /\ tasks = {} /\ writes = <<>> /\ disk.accounts = <<>>
    BY DEF Init, EmptySnapshot
  <1>3. UniqueCreds(states, issued) /\ UniqueCreds(disk.accounts, issued)
    BY <1>2 DEF UniqueCreds
  <1>4. TasksHold /\ SavesUnique
    BY <1>2 DEF TasksHold, SavesUnique
  <1> QED
    BY <1>1, <1>3, <1>4 DEF TInv

LEMMA NextTokens ==
    ASSUME MaxEpochs = 0, TInv, [Next]_vars
    PROVE  TInv'
  <1>1. RInv'
    BY NextRefresh DEF TInv
  <1> QED
    BY <1>1, OperateTokens, RequestTokens, AnsweredTokens, SaveEndsTokens,
       TimeTokens, RestartTokens DEF Next

\* A refresh token is sent to the upstream by one refresh at a time, whatever is
\* added, replaced, removed or restored from the disk meanwhile, as long as no
\* operation is undone (credential-pool.ts:299-332 joins a refresh by account, not
\* by token).
THEOREM TokensAreSentOnce ==
    ASSUME MaxEpochs = 0
    PROVE  Spec => []TokenInFlightOnce
  <1>1. TInv => TokenInFlightOnce
    BY DEF TInv, TasksHold, Held, TokenInFlightOnce
  <1>2. TInv /\ [Next]_vars => TInv'
    BY NextTokens
  <1> QED
    BY <1>1, <1>2, InitTokens, PTL DEF Spec
=============================================================================
