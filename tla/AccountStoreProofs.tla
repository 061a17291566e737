------------------------- MODULE AccountStoreProofs -------------------------
(***************************************************************************)
(* Theorems about AccountStore, for any number of saves, failed calls,     *)
(* crashes and power failures.                                             *)
(*                                                                         *)
(* None of the properties is inductive by itself.  What carries them is    *)
(* that the queue is the saves not yet answered in the order they were     *)
(* asked for, that none of them is older than the store's file, and that   *)
(* write() has flushed its temporary file when it comes to the rename.     *)
(***************************************************************************)
EXTENDS AccountStore, TLAPS

\* the saves wait in the order they were asked for, behind what the file holds
Chained ==
    /\ \A i, j \in 1 .. Len(queue) : i < j => queue[i] < queue[j]
    /\ \A i \in 1 .. Len(queue) : file.save <= queue[i] /\ queue[i] <= saves
    /\ file.save <= saves
    /\ onDisk.save <= saves

\* how far write() is tells what is in its temporary file and in the store
WriterAt ==
    /\ step \in {"opened", "written", "synced"} => temp.save = current
    /\ step = "synced" => temp.state = "synced"
    /\ step = "renamed" => file.save = current

IInv == TypeOK /\ Chained /\ WriterAt /\ NeverTorn /\ AcknowledgedSurvives

\* Appending the next number and dropping the first keep the queue in order.
LEMMA AppendToQueue ==
    ASSUME NEW q \in Seq(Nat), NEW n \in Nat
    PROVE  /\ Append(q, n) \in Seq(Nat)
           /\ Append(q, n) # <<>>
           /\ Len(Append(q, n)) = Len(q) + 1
           /\ \A i \in 1 .. Len(q) : Append(q, n)[i] = q[i]
           /\ Append(q, n)[Len(q) + 1] = n
           /\ q # <<>> => Head(Append(q, n)) = Head(q)
  <1>1. /\ Append(q, n) \in Seq(Nat)
        /\ Append(q, n) # <<>>
        /\ Len(Append(q, n)) = Len(q) + 1
        /\ \A i \in 1 .. Len(q) : Append(q, n)[i] = q[i]
        /\ Append(q, n)[Len(q) + 1] = n
    OBVIOUS
  <1>2. q # <<>> => 1 \in 1 .. Len(q)
    OBVIOUS
  <1> QED
    BY <1>1, <1>2

LEMMA TailOfQueue ==
    ASSUME NEW q \in Seq(Nat), q # <<>>
    PROVE  /\ Tail(q) \in Seq(Nat)
           /\ Len(Tail(q)) = Len(q) - 1
           /\ \A i \in 1 .. (Len(q) - 1) : Tail(q)[i] = q[i + 1]
           /\ Head(q) = q[1]
           /\ Head(q) \in Nat
           /\ Len(q) \in Nat \ {0}
  OBVIOUS

LEMMA InitInvariant == Init => IInv
  <1> SUFFICES ASSUME Init PROVE IInv
    OBVIOUS
  <1>1. Nothing \in Content /\ Nothing.save = 0 /\ Nothing.state = "synced"
    BY DEF Nothing, Content
  <1>2. <<>> \in Seq(Nat) /\ Len(<<>>) = 0
    OBVIOUS
  <1> QED
    BY <1>1, <1>2 DEF Init, IInv, TypeOK, Step, Chained, WriterAt, NeverTorn, AcknowledgedSurvives

LEMMA SaveInvariant == IInv /\ Save => IInv'
  <1> SUFFICES ASSUME IInv, Save PROVE IInv'
    OBVIOUS
  <1> USE DEF IInv, TypeOK, Save
  <1>1. saves' = saves + 1 /\ saves \in Nat /\ queue' = Append(queue, saves + 1)
    OBVIOUS
  <1>2. /\ queue' \in Seq(Nat)
        /\ queue' # <<>>
        /\ Len(queue') = Len(queue) + 1
        /\ \A i \in 1 .. Len(queue) : queue'[i] = queue[i]
        /\ queue'[Len(queue) + 1] = saves + 1
        /\ queue # <<>> => Head(queue') = Head(queue)
    BY <1>1, AppendToQueue
  <1>3. TypeOK'
    BY <1>2
  <1>4. Chained'
    <2>1. file.save \in Nat /\ onDisk.save \in Nat /\ Len(queue) \in Nat
      BY DEF Content
    <2>2. \A i \in 1 .. Len(queue) : queue[i] \in Nat
      OBVIOUS
    <2> QED
      BY <1>1, <1>2, <2>1, <2>2 DEF Chained
  <1> QED
    BY <1>3, <1>4 DEF WriterAt, NeverTorn, AcknowledgedSurvives

\* Open, Write, Sync and a failing call touch neither the queue nor the store.
LEMMA WriterInvariant ==
    ASSUME IInv,
           \/ \E n \in UpNext : step = "idle" /\ (Open(n) \/ CallFails(n))
           \/ Write
           \/ Sync
           \/ step # "idle" /\ CallFails(current)
    PROVE  IInv'
  <1> USE DEF IInv, TypeOK, Step
  <1>1. ASSUME NEW n \in UpNext, step = "idle", Open(n) PROVE IInv'
    <2>1. queue # <<>> /\ n = Head(queue) /\ n \in Nat
      BY TailOfQueue DEF UpNext
    <2>2. Empty(n) \in Content /\ Empty(n).save = n
      BY <2>1 DEF Empty, Content
    <2> QED
      BY <1>1, <2>1, <2>2 DEF Open, Chained, WriterAt, NeverTorn, AcknowledgedSurvives
  <1>2. ASSUME NEW n \in UpNext, step = "idle", CallFails(n) PROVE IInv'
    <2>1. queue # <<>> /\ n = Head(queue) /\ n \in Nat
      BY TailOfQueue DEF UpNext
    <2> QED
      BY <1>2, <2>1 DEF CallFails, Chained, WriterAt, NeverTorn, AcknowledgedSurvives
  <1>3. ASSUME Write PROVE IInv'
    BY <1>3 DEF Write, Content, Chained, WriterAt, NeverTorn, AcknowledgedSurvives
  <1>4. ASSUME Sync PROVE IInv'
    BY <1>4 DEF Sync, Synced, Content, Chained, WriterAt, NeverTorn, AcknowledgedSurvives
  <1>5. ASSUME step # "idle", CallFails(current) PROVE IInv'
    BY <1>5 DEF CallFails, Chained, WriterAt, NeverTorn, AcknowledgedSurvives
  <1> QED
    BY <1>1, <1>2, <1>3, <1>4, <1>5

LEMMA RenameInvariant == IInv /\ Rename => IInv'
  <1> SUFFICES ASSUME IInv, Rename PROVE IInv'
    OBVIOUS
  <1> USE DEF IInv, TypeOK, Step, Rename, Renamed
  <1>1. queue # <<>> /\ current = queue[1] /\ Len(queue) \in Nat \ {0}
    BY TailOfQueue
  <1>2. file' = temp /\ temp.save = current /\ temp.state = "synced"
    BY DEF WriterAt
  <1>3. \A i \in 1 .. Len(queue) : current <= queue[i] /\ queue[i] \in Nat
    BY <1>1 DEF Chained
  <1>4. file.save <= current /\ current <= saves
    BY <1>1 DEF Chained
  <1>5. Nothing \in Content
    BY DEF Nothing, Content
  <1>6. TypeOK'
    BY <1>5
  <1>7. file.save \in Nat
    BY DEF Content
  <1>8. Chained'
    BY <1>2, <1>3, <1>4 DEF Chained
  <1>9. acked <= temp.save
    BY <1>2, <1>4, <1>7 DEF AcknowledgedSurvives
  <1> QED
    BY <1>2, <1>6, <1>8, <1>9 DEF WriterAt, NeverTorn, AcknowledgedSurvives

LEMMA AnswerInvariant == IInv /\ (Resolve \/ Reject) => IInv'
  <1> SUFFICES ASSUME IInv, Resolve \/ Reject PROVE IInv'
    OBVIOUS
  <1> USE DEF IInv, TypeOK, Step
  <1>1. step # "idle"
    BY DEF Resolve, Reject
  <1>2. queue # <<>>
    BY <1>1
  <1>3. queue' = Tail(queue) /\ file' = file /\ onDisk' = onDisk /\ saves' = saves
        /\ step' = "idle" /\ current' = 0
    BY DEF Resolve, Reject
  <1>4. /\ queue' \in Seq(Nat)
        /\ Len(queue') = Len(queue) - 1
        /\ \A i \in 1 .. (Len(queue) - 1) : queue'[i] = queue[i + 1]
        /\ Len(queue) \in Nat \ {0}
    BY <1>2, <1>3, TailOfQueue
  <1>5. Nothing \in Content
    BY DEF Nothing, Content
  <1>6. temp' \in Content /\ acked' \in Nat /\ faults' \in Nat /\ crashes' \in Nat
    BY <1>5 DEF Resolve, Reject
  <1>7. TypeOK'
    BY <1>3, <1>4, <1>6
  <1>8. Chained'
    BY <1>3, <1>4 DEF Chained
  <1>9. AcknowledgedSurvives'
    BY <1>3 DEF Resolve, Reject, WriterAt, Content, AcknowledgedSurvives
  <1> QED
    BY <1>3, <1>7, <1>8, <1>9 DEF WriterAt, NeverTorn

LEMMA StopInvariant == IInv /\ (WriteBack \/ Crash \/ PowerFailure) => IInv'
  <1> SUFFICES ASSUME IInv, WriteBack \/ Crash \/ PowerFailure PROVE IInv'
    OBVIOUS
  <1> USE DEF IInv, TypeOK, Step
  <1>1. Nothing \in Content
    BY DEF Nothing, Content
  <1>2. <<>> \in Seq(Nat) /\ Len(<<>>) = 0
    OBVIOUS
  <1>3. CASE WriteBack
    BY <1>3 DEF WriteBack, Chained, WriterAt, NeverTorn, AcknowledgedSurvives
  <1>4. CASE Crash
    BY <1>1, <1>2, <1>4 DEF Crash, Stopped, Chained, WriterAt, NeverTorn, AcknowledgedSurvives
  <1>5. CASE PowerFailure
    <2>1. file' \in {file, onDisk} /\ onDisk' = file' /\ acked' = file'.save
      BY <1>5 DEF PowerFailure, Survivors, NeverTorn
    <2>2. file'.save \in Nat /\ file'.save <= file'.save
      BY <2>1 DEF Content
    <2> QED
      BY <1>1, <1>2, <1>5, <2>1, <2>2
         DEF PowerFailure, Stopped, Chained, WriterAt, NeverTorn, AcknowledgedSurvives
  <1> QED
    BY <1>3, <1>4, <1>5

LEMMA StepInvariant == IInv /\ [Next]_vars => IInv'
  <1> SUFFICES ASSUME IInv, [Next]_vars PROVE IInv'
    OBVIOUS
  <1>1. CASE UNCHANGED vars
    BY <1>1 DEF vars, IInv, TypeOK, Chained, WriterAt, NeverTorn, AcknowledgedSurvives
  <1> QED
    BY <1>1, SaveInvariant, WriterInvariant, RenameInvariant, AnswerInvariant, StopInvariant DEF Next

LEMMA Invariance == Spec => []IInv
  BY InitInvariant, StepInvariant, PTL DEF Spec

\* Whatever crashes and whatever call fails, load() finds no snapshot or a whole
\* one (CredentialStore.write flushes before it renames).
THEOREM StoreIsWhole == Spec => []NeverTorn
  <1>1. IInv => NeverTorn
    BY DEF IInv
  <1> QED
    BY <1>1, Invariance, PTL

\* A save that was resolved outlives every crash of the process.
THEOREM ResolvedSurvives == Spec => []AcknowledgedSurvives
  <1>1. IInv => AcknowledgedSurvives
    BY DEF IInv
  <1> QED
    BY <1>1, Invariance, PTL

\* A save never overwrites a later one: the chain of promises keeps them in the
\* order they were asked for, whichever of them fail.
THEOREM StoreOnlyAdvances == Spec => NeverGoesBack
  <1>1. IInv /\ [Next]_vars => [PowerFailure \/ file.save <= file'.save]_vars
    <2> SUFFICES ASSUME IInv, Next PROVE PowerFailure \/ file.save <= file'.save
      OBVIOUS
    <2> USE DEF IInv, TypeOK
    <2>1. file.save \in Nat
      BY DEF Content
    <2>2. CASE Rename
      <3>1. queue # <<>> /\ current = queue[1] /\ Len(queue) \in Nat \ {0}
        BY <2>2, TailOfQueue DEF Rename
      <3>2. file' = temp /\ temp.save = current
        BY <2>2 DEF Rename, Renamed, WriterAt
      <3> QED
        BY <3>1, <3>2 DEF Chained
    <2>3. CASE file' = file
      BY <2>1, <2>3
    <2> QED
      BY <2>2, <2>3 DEF Next, Save, Open, Write, Sync, Resolve, CallFails, Reject, WriteBack, Crash
  <1> QED
    BY <1>1, Invariance, PTL DEF Spec, NeverGoesBack

\* The file on disk is the durable register of DurableRegister: every step of the
\* store is one of the register's, or none.
THEOREM StoreIsARegister == Spec => ImplementsRegister
  <1>1. Init => Register!Init
    BY DEF Init, Register!Init, Loaded, Nothing
  <1>2. IInv /\ IInv' /\ [Next]_vars => [Register!Next]_(Register!vars)
    <2> SUFFICES ASSUME IInv, IInv', [Next]_vars
                 PROVE  Register!Next \/ UNCHANGED Register!vars
      OBVIOUS
    <2> USE DEF IInv, TypeOK, Step
    <2>1. Loaded(file) = file.save /\ Loaded(onDisk) = onDisk.save
          /\ Loaded(file)' = file'.save /\ Loaded(onDisk)' = onDisk'.save
      BY DEF Loaded, NeverTorn
    <2>2. CASE Save
      BY <2>1, <2>2 DEF Save, Register!Next, Register!Ask
    <2>3. CASE \/ \E n \in UpNext : step = "idle" /\ (Open(n) \/ CallFails(n))
               \/ Write
               \/ Sync
               \/ step # "idle" /\ CallFails(current)
      BY <2>1, <2>3 DEF Open, Write, Sync, CallFails, Register!vars
    <2>4. CASE Rename
      BY <2>1, <2>4 DEF Rename, Renamed, WriterAt, Register!Next, Register!Take
    <2>5. CASE Resolve
      BY <2>1, <2>5 DEF Resolve, Register!Next, Register!Acknowledge
    <2>6. CASE Reject
      BY <2>1, <2>6 DEF Reject, Register!Next, Register!Refuse
    <2>7. CASE WriteBack
      BY <2>1, <2>7 DEF WriteBack, Register!Next, Register!Settle
    <2>8. CASE Crash
      BY <2>1, <2>8 DEF Crash, Stopped, Register!Next, Register!Crash
    <2>9. CASE PowerFailure
      <3>1. file' \in {file, onDisk} /\ onDisk' = file'
        BY <2>9 DEF PowerFailure, Survivors, NeverTorn
      <3> QED
        BY <2>1, <2>9, <3>1 DEF PowerFailure, Stopped, Register!Next, Register!PowerFailure
    <2>10. CASE UNCHANGED vars
      BY <2>1, <2>10 DEF vars, Register!vars
    <2> QED
      BY <2>2, <2>3, <2>4, <2>5, <2>6, <2>7, <2>8, <2>9, <2>10 DEF Next
  <1> QED
    BY <1>1, <1>2, Invariance, PTL DEF Spec, ImplementsRegister, Register!Spec
=============================================================================
