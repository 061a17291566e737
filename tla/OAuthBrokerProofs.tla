-------------------------- MODULE OAuthBrokerProofs --------------------------
(***************************************************************************)
(* Web logins, for any browsers, any number of sessions and any bound on   *)
(* them: one login per browser, the pool agrees with what the browsers are *)
(* shown, the first outcome stands and nothing enters the pool late.       *)
(*                                                                         *)
(* Every step but Start and Close moves one session.  The moves that do    *)
(* not touch the pool are alike for the invariant (Ordinary); the three    *)
(* that insert, save and undo are treated one by one.                      *)
(***************************************************************************)
EXTENDS OAuthBroker, TLAPS

\* the account list is awaited only once the account has been received
Listing(s) == s.at = "accounts" => s.status \in Terminal \cup {"account_received"}

\* a login that is shown as completed has no coroutine any more, and one whose
\* insertion is being saved is in a pool that has a store
Savings ==
    \A id \in Started :
        /\ sessions[id].status = "completed" => sessions[id].at = "ended"
        /\ sessions[id].at = "save" => waits /\ id \in pooled
        /\ Listing(sessions[id])

IInv == TypeOK /\ Savings /\ OneLoginPerOwner /\ PooledIffCompleted

\* session id becomes s: its owner stays, it is not taken back into the map, its
\* status is final once it is terminal
Advance(id, s) ==
    /\ id \in Started
    /\ s \in Session
    /\ s.owner = sessions[id].owner
    /\ s.kept => sessions[id].kept
    /\ s.at = "ended" => s.status \in Terminal
    /\ sessions[id].status \in Terminal => s.status = sessions[id].status
    /\ sessions' = [sessions EXCEPT ![id] = s]
    /\ UNCHANGED <<waits, closed>>

\* the same without the pool: nothing is completed, and no save begins or ends
Ordinary(id, s) ==
    /\ Advance(id, s)
    /\ s.status = "completed" <=> sessions[id].status = "completed"
    /\ sessions[id].at = "ended" => s.at = "ended"
    /\ s.at = "save" => sessions[id].at = "save"
    /\ Listing(s)
    /\ UNCHANGED <<pooled, stored>>

-----------------------------------------------------------------------------
\* A session in use is a record of type Session.
LEMMA StartedSessions ==
    ASSUME TypeOK, NEW id \in Started
    PROVE  id \in Ids /\ sessions[id] \in Session
  BY DEF TypeOK, Started

\* Finishing a session keeps its type, and gives the outcome only to an active one.
LEMMA FinishedSession ==
    ASSUME NEW s \in Session, NEW outcome \in Terminal
    PROVE  /\ Finished(s, outcome) \in Session
           /\ Ended(s, outcome) \in Session
           /\ Finished(s, outcome).status
                 = IF s.status \in Active THEN outcome ELSE s.status
           /\ Ended(s, outcome).status = Finished(s, outcome).status
           /\ Ended(s, outcome).at = "ended" /\ Finished(s, outcome).at = s.at
           /\ Ended(s, outcome).owner = s.owner /\ Finished(s, outcome).owner = s.owner
           /\ Ended(s, outcome).kept = s.kept /\ Finished(s, outcome).kept = s.kept
           /\ Ended(s, outcome).status \in Terminal
  BY DEF Finished, Ended, Session, Active, Terminal

\* What Continue does to a session that it moves to `next`.
LEMMA Continued ==
    ASSUME TypeOK, NEW id \in Started, NEW from, NEW next, Continue(id, from, next)
    PROVE  \E s :
              /\ sessions' = [sessions EXCEPT ![id] = s]
              /\ \/ Live(id) /\ s = next
                 \/ /\ ~Live(id)
                    /\ \E outcome \in {"expired", "failed"} : s = Ended(sessions[id], outcome)
  <1>1. sessions[id] \in Session /\ id \in Ids
    BY StartedSessions
  <1>2. CASE Live(id)
    <2>1. sessions' = [sessions EXCEPT ![id] = next]
      BY <1>2 DEF Continue
    <2> QED BY <1>2, <2>1
  <1>3. CASE ~Live(id)
    <2> DEFINE outcome == IF sessions[id].late THEN "expired" ELSE "failed"
    <2>1. sessions' = [sessions EXCEPT ![id] = Ended(sessions[id], outcome)]
      BY <1>3 DEF Continue
    <2>2. outcome \in {"expired", "failed"}
      OBVIOUS
    <2> HIDE DEF outcome
    <2> QED BY <1>3, <2>1, <2>2
  <1> QED BY <1>2, <1>3

\* A session whose coroutine ends without the pool having been asked makes an
\* ordinary step.
LEMMA EndingIsOrdinary ==
    ASSUME TypeOK, NEW id \in Started, NEW outcome \in {"expired", "failed"},
           sessions' = [sessions EXCEPT ![id] = Ended(sessions[id], outcome)],
           UNCHANGED <<waits, closed, pooled, stored>>
    PROVE  Ordinary(id, Ended(sessions[id], outcome))
  <1>1. sessions[id] \in Session
    BY StartedSessions
  <1>2. outcome \in Terminal /\ outcome # "completed"
    BY DEF Terminal
  <1>3. sessions[id].status \in Active \cup Terminal
    BY <1>1 DEF Session
  <1>4. Active \cap Terminal = {} /\ "completed" \in Terminal
    BY DEF Active, Terminal
  <1> DEFINE e == Ended(sessions[id], outcome)
  <1>5. /\ e \in Session /\ e.at = "ended" /\ e.status \in Terminal
        /\ e.owner = sessions[id].owner /\ e.kept = sessions[id].kept
        /\ e.status = IF sessions[id].status \in Active THEN outcome ELSE sessions[id].status
    BY <1>1, <1>2, FinishedSession
  <1>6. e.at # "save"
    BY <1>5
  <1>7. sessions[id].status \in Terminal => e.status = sessions[id].status
    BY <1>4, <1>5
  <1>8. e.status = "completed" <=> sessions[id].status = "completed"
    BY <1>2, <1>3, <1>4, <1>5
  <1> HIDE DEF e
  <1> QED BY <1>5, <1>6, <1>7, <1>8 DEF Ordinary, Advance, Listing, e

\* A step of the coroutine that moves a live session on is ordinary.
LEMMA GoingOnIsOrdinary ==
    ASSUME TypeOK, NEW id \in Started, Live(id),
           NEW status \in Active, NEW at \in Intervals \cup Requests,
           at = "accounts" => status = "account_received",
           NEW s, s = [sessions[id] EXCEPT !.status = status, !.at = at],
           sessions[id].at # "ended",
           sessions' = [sessions EXCEPT ![id] = s],
           UNCHANGED <<waits, closed, pooled, stored>>
    PROVE  Ordinary(id, s)
  <1>1. sessions[id] \in Session
    BY StartedSessions
  <1>2. sessions[id].status \in Active
    BY DEF Live, Open
  <1>3. s \in Session /\ s.owner = sessions[id].owner /\ s.kept = sessions[id].kept
        /\ s.status = status /\ s.at = at
    BY <1>1 DEF Session, Awaits
  <1>4. at \notin {"ended", "save"}
    BY DEF Intervals, Requests
  <1>5. status # "completed" /\ sessions[id].status # "completed"
        /\ sessions[id].status \notin Terminal
    BY <1>2 DEF Active, Terminal
  <1> QED BY <1>3, <1>4, <1>5 DEF Ordinary, Advance, Listing
\* An answer or an interval that is over, when the pool is not asked: an ordinary
\* step, whether ensureActive throws or not.
LEMMA ContinuingIsOrdinary ==
    ASSUME TypeOK, NEW id \in Started,
           NEW from \in Intervals \cup Requests, NEW next,
           NEW status \in Active, NEW at \in Intervals \cup Requests,
           at = "accounts" => status = "account_received",
           Live(id) => next = [sessions[id] EXCEPT !.status = status, !.at = at],
           Continue(id, from, next),
           UNCHANGED <<waits, closed, pooled, stored>>
    PROVE  \E s : Ordinary(id, s)
  <1>1. PICK s : /\ sessions' = [sessions EXCEPT ![id] = s]
                 /\ \/ Live(id) /\ s = next
                    \/ /\ ~Live(id)
                       /\ \E outcome \in {"expired", "failed"} :
                             s = Ended(sessions[id], outcome)
    BY Continued
  <1>2. sessions[id].at # "ended"
    BY DEF Continue, Intervals, Requests
  <1>3. CASE Live(id)
    BY <1>1, <1>2, <1>3, GoingOnIsOrdinary
  <1>4. CASE ~Live(id)
    <2>1. PICK outcome \in {"expired", "failed"} : s = Ended(sessions[id], outcome)
      BY <1>1, <1>4
    <2>2. sessions' = [sessions EXCEPT ![id] = Ended(sessions[id], outcome)]
      BY <1>1, <2>1
    <2> QED BY <2>2, EndingIsOrdinary
  <1> QED BY <1>3, <1>4

\* The same for a step that leaves the status alone.
LEMMA SameStatusIsOrdinary ==
    ASSUME TypeOK, NEW id \in Started,
           NEW from \in Intervals \cup Requests,
           NEW at \in (Intervals \cup Requests) \ {"accounts"},
           Continue(id, from, [sessions[id] EXCEPT !.at = at]),
           UNCHANGED <<waits, closed, pooled, stored>>
    PROVE  \E s : Ordinary(id, s)
  <1> DEFINE next == [sessions[id] EXCEPT !.at = at]
  <1>1. sessions[id] \in Session
    BY StartedSessions
  <1>2. CASE Live(id)
    <2>1. sessions[id].status \in Active
      BY <1>2 DEF Live, Open
    <2>2. next = [sessions[id] EXCEPT !.status = sessions[id].status, !.at = at]
      BY <1>1 DEF Session
    <2>3. Continue(id, from, next)
      OBVIOUS
    <2> HIDE DEF next
    <2> QED BY <2>1, <2>2, <2>3, ContinuingIsOrdinary
  <1>3. CASE ~Live(id)
    <2>1. "pending" \in Active
      BY DEF Active
    <2> QED BY <1>3, <2>1, ContinuingIsOrdinary
  <1> QED BY <1>2, <1>3

\* A session finished from outside its coroutine makes an ordinary step.
LEMMA FinishIsOrdinary ==
    ASSUME IInv, NEW id \in Started, NEW outcome \in {"cancelled", "expired"},
           Finish(id, outcome),
           UNCHANGED <<waits, closed, pooled, stored>>
    PROVE  \E s : Ordinary(id, s)
  <1> DEFINE f == Finished(sessions[id], outcome)
  <1>1. sessions[id] \in Session /\ TypeOK
    BY StartedSessions DEF IInv
  <1>2. outcome \in Terminal /\ outcome # "completed"
    BY DEF Terminal
  <1>3. sessions[id].status \in Active \cup Terminal
    BY <1>1 DEF Session
  <1>4. Active \cap Terminal = {} /\ "completed" \in Terminal
    BY DEF Active, Terminal
  <1>5. /\ f \in Session /\ f.at = sessions[id].at
        /\ f.owner = sessions[id].owner /\ f.kept = sessions[id].kept
        /\ f.status = IF sessions[id].status \in Active THEN outcome ELSE sessions[id].status
    BY <1>1, <1>2, FinishedSession
  <1>6. f.status \in Terminal
    BY <1>2, <1>3, <1>5
  <1>7. sessions' = [sessions EXCEPT ![id] = f]
    BY DEF Finish
  <1> HIDE DEF f
  <1>8. Ordinary(id, f)
    BY <1>2, <1>3, <1>4, <1>5, <1>6, <1>7 DEF Ordinary, Advance, Listing
  <1> QED BY <1>8

-----------------------------------------------------------------------------
\* What every move of one session keeps.
LEMMA AdvanceKeeps ==
    ASSUME IInv, NEW id \in Started, NEW s, Advance(id, s),
           pooled' \subseteq Started, stored' \subseteq Started
    PROVE  /\ Started' = Started
           /\ sessions'[id] = s
           /\ \A other \in Started : other # id => sessions'[other] = sessions[other]
           /\ TypeOK'
           /\ OneLoginPerOwner'
  <1>1. TypeOK /\ id \in Ids /\ sessions[id] \in Session
    BY StartedSessions DEF IInv
  <1>2. /\ sessions' = [sessions EXCEPT ![id] = s] /\ s \in Session
        /\ sessions \in [Ids -> Session \cup {Unused}]
    BY <1>1 DEF Advance, TypeOK
  <1>3. sessions' \in [Ids -> Session \cup {Unused}]
    BY <1>2
  <1>4. sessions'[id] = s /\ \A other \in Ids : other # id => sessions'[other] = sessions[other]
    BY <1>1, <1>2
  <1>5. s # Unused
    <2>1. s.status # "unused"
      BY <1>2 DEF Session, Active, Terminal
    <2> QED BY <2>1 DEF Unused
  <1>6. Started' = Started
    BY <1>1, <1>4, <1>5 DEF Started
  <1>7. Kept' \subseteq Kept
    BY <1>1, <1>4, <1>6 DEF Kept, Advance
  <1>8. s.status \in Active => sessions[id].status \in Active
    BY <1>1, <1>2 DEF Advance, Session, Active, Terminal
  <1>9. Open' \subseteq Open
    BY <1>4, <1>6, <1>8 DEF Open, Started
  <1>10. \A i \in Started : sessions'[i].owner = sessions[i].owner
    BY <1>4 DEF Advance, Started
  <1>11. OneLoginPerOwner'
    BY <1>7, <1>9, <1>10 DEF OneLoginPerOwner, IInv, Kept
  <1>12. \A i \in Started : sessions'[i].at = "ended" => sessions'[i].status \in Terminal
    BY <1>1, <1>4 DEF TypeOK, Advance, Started
  <1>13. waits' = waits /\ closed' = closed
    BY DEF Advance
  <1>14. TypeOK'
    BY <1>1, <1>3, <1>6, <1>7, <1>12, <1>13 DEF TypeOK
  <1> QED BY <1>4, <1>6, <1>11, <1>14 DEF Started

\* An ordinary step keeps the invariant.
LEMMA OrdinaryKeeps ==
    ASSUME IInv, NEW id \in Started, NEW s, Ordinary(id, s)
    PROVE  IInv'
  <1>1. Advance(id, s) /\ UNCHANGED <<waits, closed, pooled, stored>>
    BY DEF Ordinary, Advance
  <1>2. /\ Started' = Started /\ sessions'[id] = s /\ TypeOK' /\ OneLoginPerOwner'
        /\ \A other \in Started : other # id => sessions'[other] = sessions[other]
    BY <1>1, AdvanceKeeps DEF IInv, TypeOK
  <1>3. \A i \in Started : sessions'[i].status = "completed" <=> sessions[i].status = "completed"
    BY <1>2 DEF Ordinary
  <1>4. Savings'
    <2> SUFFICES ASSUME NEW i \in Started
                 PROVE  /\ sessions'[i].status = "completed" => sessions'[i].at = "ended"
                        /\ sessions'[i].at = "save" => waits /\ i \in pooled
                        /\ Listing(sessions'[i])
      BY <1>1, <1>2 DEF Savings, Listing
    <2>1. CASE i = id
      BY <1>2, <2>1 DEF Ordinary, Savings, IInv
    <2>2. CASE i # id
      BY <1>2, <2>2 DEF Savings, IInv
    <2> QED BY <2>1, <2>2
  <1>5. PooledIffCompleted'
    BY <1>1, <1>2, <1>3 DEF PooledIffCompleted, IInv
  <1> QED BY <1>2, <1>4, <1>5 DEF IInv

-----------------------------------------------------------------------------
(* The steps that are not ordinary *)

\* A login starts: an id never used, an owner without a login under way.
LEMMA StartKeeps ==
    ASSUME IInv, NEW o \in Owners, NEW id \in Ids, Start(o, id)
    PROVE  IInv'
  <1> DEFINE new == [owner |-> o, status |-> "starting", late |-> FALSE, kept |-> TRUE,
                     at |-> "state"]
  <1>1. new \in Session /\ new # Unused
    <2>1. new \in Session
      BY DEF Session, Active, Awaits, Requests
    <2>2. new.status # "unused"
      OBVIOUS
    <2> QED BY <2>1, <2>2 DEF Unused
  <1>2. /\ sessions' = [sessions EXCEPT ![id] = new]
        /\ sessions \in [Ids -> Session \cup {Unused}]
        /\ UNCHANGED <<waits, closed, pooled, stored>>
        /\ id \notin Started /\ ~closed /\ ~Pending(o)
    BY DEF Start, IInv, TypeOK
  <1> HIDE DEF new
  <1>3. /\ sessions' \in [Ids -> Session \cup {Unused}]
        /\ sessions'[id] = new
        /\ \A other \in Ids : other # id => sessions'[other] = sessions[other]
    BY <1>1, <1>2
  <1>4. Started' = Started \cup {id}
    BY <1>1, <1>3 DEF Started
  <1>5. new.at = "state" /\ new.status = "starting" /\ new.owner = o
    BY DEF new
  <1>6. TypeOK'
    BY <1>2, <1>3, <1>4, <1>5 DEF TypeOK, IInv, Started
  <1>7. Savings'
    <2> SUFFICES ASSUME NEW i \in Started \cup {id}
                 PROVE  /\ sessions'[i].status = "completed" => sessions'[i].at = "ended"
                        /\ sessions'[i].at = "save" => waits /\ i \in pooled
                        /\ Listing(sessions'[i])
      BY <1>2, <1>4 DEF Savings, Listing
    <2>1. CASE i = id
      BY <1>3, <1>5, <2>1 DEF Listing
    <2>2. CASE i # id
      BY <1>3, <2>2 DEF Savings, IInv, Started
    <2> QED BY <2>1, <2>2
  <1>8. OneLoginPerOwner'
    <2>1. (Kept \cap Open)' = (Kept \cap Open) \cup {id}
      <3>1. new.kept /\ new.status \in Active
        BY DEF new, Active
      <3> QED BY <1>3, <1>4, <3>1 DEF Kept, Open, Started
    <2>2. \A i \in Kept \cap Open : i # id /\ sessions[i].owner # o
      BY <1>2 DEF Pending, Kept
    <2>3. \A i \in Kept \cap Open : sessions'[i] = sessions[i]
      BY <1>3, <2>2 DEF Kept, Started
    <2> QED BY <1>3, <1>5, <2>1, <2>2, <2>3 DEF OneLoginPerOwner, IInv
  <1>9. PooledIffCompleted'
    <2>1. {i \in Started : sessions[i].status = "completed"}'
            = {i \in Started : sessions[i].status = "completed"}
      BY <1>2, <1>3, <1>4, <1>5 DEF Started
    <2> QED BY <1>2, <2>1 DEF PooledIffCompleted, IInv
  <1> QED BY <1>6, <1>7, <1>8, <1>9 DEF IInv

\* The account goes into the pool, and the login is completed at once or, in a pool
\* with a store, after the save; a login that is over adds nothing.
LEMMA AccountVerifiedKeeps ==
    ASSUME IInv, NEW id \in Started, AccountVerified(id)
    PROVE  IInv'
  <1>1. TypeOK /\ id \in Ids /\ sessions[id] \in Session
    BY StartedSessions DEF IInv
  <1>2. PICK s : /\ sessions' = [sessions EXCEPT ![id] = s]
                 /\ \/ Live(id) /\ s = Inserted(sessions[id])
                    \/ /\ ~Live(id)
                       /\ \E outcome \in {"expired", "failed"} :
                             s = Ended(sessions[id], outcome)
    BY <1>1, Continued DEF AccountVerified
  <1>3. UNCHANGED <<waits, closed, stored>> /\ sessions[id].at = "accounts"
    BY DEF AccountVerified, Continue
  <1>4. CASE ~Live(id)
    <2>1. PICK outcome \in {"expired", "failed"} : s = Ended(sessions[id], outcome)
      BY <1>2, <1>4
    <2>2. sessions' = [sessions EXCEPT ![id] = Ended(sessions[id], outcome)]
      BY <1>2, <2>1
    <2>3. UNCHANGED <<waits, closed, pooled, stored>>
      BY <1>3, <1>4 DEF AccountVerified
    <2> QED BY <1>1, <2>2, <2>3, EndingIsOrdinary, OrdinaryKeeps
  <1>5. CASE Live(id)
    <2>1. /\ sessions[id].status \in Active
          /\ sessions[id].status \notin Terminal
          /\ sessions[id].status # "completed"
      BY <1>5 DEF Live, Open, Active, Terminal
    <2>2. pooled' = pooled \cup {id}
      BY <1>5 DEF AccountVerified
    <2>3. s = Inserted(sessions[id])
      BY <1>2, <1>5
    <2>4. /\ s \in Session /\ s.owner = sessions[id].owner /\ s.kept = sessions[id].kept
          /\ waits => s.at = "save" /\ s.status = sessions[id].status
          /\ ~waits => s.at = "ended" /\ s.status = "completed"
      <3>1. CASE waits
        BY <1>1, <2>3, <3>1 DEF Inserted, Session, Awaits
      <3>2. CASE ~waits
        <4>1. s = Ended(sessions[id], "completed") /\ "completed" \in Terminal
          BY <2>3, <3>2 DEF Inserted, Terminal
        <4> QED BY <1>1, <2>1, <3>2, <4>1, FinishedSession
      <3> QED BY <3>1, <3>2
    <2>5. Advance(id, s)
      BY <1>2, <1>3, <2>1, <2>4 DEF Advance, Terminal
    <2>6. /\ Started' = Started /\ sessions'[id] = s /\ TypeOK' /\ OneLoginPerOwner'
          /\ \A other \in Started : other # id => sessions'[other] = sessions[other]
      BY <1>1, <1>3, <2>2, <2>5, AdvanceKeeps DEF TypeOK
    <2>7. Savings'
      <3> SUFFICES ASSUME NEW i \in Started
                   PROVE  /\ sessions'[i].status = "completed" => sessions'[i].at = "ended"
                          /\ sessions'[i].at = "save" => waits /\ i \in pooled'
                          /\ Listing(sessions'[i])
        BY <1>3, <2>6 DEF Savings, Listing
      <3>1. CASE i = id
        BY <2>1, <2>2, <2>4, <2>6, <3>1 DEF Listing
      <3>2. CASE i # id
        BY <2>2, <2>6, <3>2 DEF Savings, IInv
      <3> QED BY <3>1, <3>2
    <2>8. PooledIffCompleted'
      <3> DEFINE completed == {i \in Started : sessions[i].status = "completed"}
      <3>1. waits => completed' = completed
        BY <2>1, <2>4, <2>6
      <3>2. ~waits => completed' = completed \cup {id}
        BY <2>4, <2>6
      <3>3. IF waits THEN completed \subseteq pooled \cap stored ELSE pooled = completed
        BY DEF IInv, PooledIffCompleted
      <3>4. IF waits' THEN completed' \subseteq pooled' \cap stored' ELSE pooled' = completed'
        <4> HIDE DEF completed
        <4> QED BY <1>3, <2>2, <3>1, <3>2, <3>3
      <3> QED BY <3>4 DEF PooledIffCompleted
    <2> QED BY <2>6, <2>7, <2>8 DEF IInv
  <1> QED BY <1>4, <1>5

\* A save that ends: the session is not completed before, its coroutine ends, and
\* no other session moves.
LEMMA SaveEnds ==
    ASSUME IInv, NEW id \in Started, NEW outcome \in {"completed", "failed"},
           sessions[id].at = "save",
           sessions' = [sessions EXCEPT ![id] = Ended(sessions[id], outcome)],
           UNCHANGED <<waits, closed>>,
           pooled' \subseteq Started, stored' \subseteq Started,
           pooled \subseteq pooled' \cup {id}
    PROVE  /\ Started' = Started /\ TypeOK' /\ OneLoginPerOwner' /\ Savings'
           /\ waits /\ waits' /\ id \in pooled
           /\ \A i \in Started : sessions'[i].status = "completed" =>
                 \/ i # id /\ sessions[i].status = "completed"
                 \/ i = id /\ outcome = "completed"
  <1> DEFINE e == Ended(sessions[id], outcome)
  <1>1. sessions[id] \in Session /\ TypeOK
    BY StartedSessions DEF IInv
  <1>2. outcome \in Terminal /\ Active \cap Terminal = {}
    BY DEF Active, Terminal
  <1>3. sessions[id].status # "completed" /\ waits /\ id \in pooled
    BY DEF IInv, Savings
  <1>4. /\ e \in Session /\ e.at = "ended" /\ e.status \in Terminal
        /\ e.owner = sessions[id].owner /\ e.kept = sessions[id].kept
        /\ e.status = IF sessions[id].status \in Active THEN outcome ELSE sessions[id].status
    BY <1>1, <1>2, FinishedSession
  <1> HIDE DEF e
  <1>5. Advance(id, e)
    BY <1>2, <1>4 DEF Advance, e
  <1>6. /\ Started' = Started /\ sessions'[id] = e /\ TypeOK' /\ OneLoginPerOwner'
        /\ \A other \in Started : other # id => sessions'[other] = sessions[other]
    BY <1>5, AdvanceKeeps
  <1>7. Savings'
    <2> SUFFICES ASSUME NEW i \in Started
                 PROVE  /\ sessions'[i].status = "completed" => sessions'[i].at = "ended"
                        /\ sessions'[i].at = "save" => waits /\ i \in pooled'
                        /\ Listing(sessions'[i])
      BY <1>3, <1>6 DEF Savings, Listing
    <2>1. CASE i = id
      BY <1>4, <1>6, <2>1 DEF Listing
    <2>2. CASE i # id
      BY <1>6, <2>2 DEF Savings, IInv
    <2> QED BY <2>1, <2>2
  <1> QED BY <1>3, <1>4, <1>6, <1>7

\* A login is completed when its account is saved, or when it was before.
LEMMA InsertionSavedKeeps ==
    ASSUME IInv, NEW id \in Started, InsertionSaved(id)
    PROVE  IInv'
  <1>1. /\ Started' = Started /\ TypeOK' /\ OneLoginPerOwner' /\ Savings'
        /\ waits /\ waits' /\ id \in pooled
        /\ \A i \in Started : sessions'[i].status = "completed" =>
              \/ i # id /\ sessions[i].status = "completed"
              \/ i = id
    BY SaveEnds DEF InsertionSaved, IInv, TypeOK
  <1>2. PooledIffCompleted'
    BY <1>1 DEF PooledIffCompleted, IInv, InsertionSaved
  <1> QED BY <1>1, <1>2 DEF IInv

\* An insertion that is undone belongs to a login that is not completed.
LEMMA InsertionFailedKeeps ==
    ASSUME IInv, NEW id \in Started, InsertionFailed(id)
    PROVE  IInv'
  <1>1. /\ Started' = Started /\ TypeOK' /\ OneLoginPerOwner' /\ Savings'
        /\ waits /\ waits' /\ id \in pooled
        /\ \A i \in Started : sessions'[i].status = "completed" =>
              i # id /\ sessions[i].status = "completed"
    BY SaveEnds DEF InsertionFailed, IInv, TypeOK
  <1>2. PooledIffCompleted'
    BY <1>1 DEF PooledIffCompleted, IInv, InsertionFailed
  <1> QED BY <1>1, <1>2 DEF IInv

\* The shutdown forgets every session and ends none.
LEMMA CloseKeeps ==
    ASSUME IInv, Close
    PROVE  IInv'
  <1>1. /\ TypeOK /\ closed' = TRUE /\ UNCHANGED <<waits, pooled, stored>>
        /\ sessions' = [id \in Ids |->
              IF id \in Started THEN [sessions[id] EXCEPT !.kept = FALSE] ELSE sessions[id]]
    BY DEF Close, IInv
  <1>2. \A id \in Started :
           /\ id \in Ids /\ sessions'[id] \in Session
           /\ sessions'[id].at = sessions[id].at
           /\ sessions'[id].status = sessions[id].status
           /\ ~sessions'[id].kept
    <2> SUFFICES ASSUME NEW id \in Started
                 PROVE  /\ id \in Ids /\ sessions'[id] \in Session
                        /\ sessions'[id].at = sessions[id].at
                        /\ sessions'[id].status = sessions[id].status
                        /\ ~sessions'[id].kept
      OBVIOUS
    <2>1. sessions[id] \in Session /\ id \in Ids
      BY <1>1, StartedSessions
    <2> QED BY <1>1, <2>1 DEF Session
  <1>3. Unused \notin Session
    <2>1. \A s \in Session : s.status # "unused"
      BY DEF Session, Active, Terminal
    <2> QED BY <2>1 DEF Unused
  <1>4. Started' = Started
    BY <1>1, <1>2, <1>3 DEF Started
  <1>5. Kept' = {}
    BY <1>2, <1>4 DEF Kept
  <1>6. TypeOK'
    <2>1. sessions' \in [Ids -> Session \cup {Unused}]
      BY <1>1, <1>2 DEF TypeOK
    <2> QED BY <1>1, <1>2, <1>4, <1>5, <2>1 DEF TypeOK
  <1>7. Savings'
    BY <1>1, <1>2, <1>4 DEF Savings, Listing, IInv
  <1>8. OneLoginPerOwner'
    BY <1>5 DEF OneLoginPerOwner
  <1>9. PooledIffCompleted'
    BY <1>1, <1>2, <1>4 DEF PooledIffCompleted, IInv
  <1> QED BY <1>6, <1>7, <1>8, <1>9 DEF IInv

-----------------------------------------------------------------------------
(* The theorems *)

\* Every other step is an ordinary one of one session.
LEMMA OrdinarySteps ==
    ASSUME IInv, NEW id \in Started,
           \/ StateIssued(id) \/ AskToken(id) \/ NoTokenYet(id) \/ TokenReceived(id)
           \/ AskAccount(id) \/ NoAccountYet(id) \/ AccountReceived(id) \/ Fails(id)
           \/ DeadlinePasses(id) \/ ExpiryTimer(id) \/ Forget(id)
           \/ \E o \in Owners : Cancel(o, id) \/ AskStatus(o, id)
    PROVE  \E s : Ordinary(id, s)
  <1>1. TypeOK /\ Savings /\ id \in Ids /\ sessions[id] \in Session
    BY StartedSessions DEF IInv
  <1>2. /\ {"state", "token", "account", "accounts"} \subseteq Intervals \cup Requests
        /\ {"token delay", "account delay"} \subseteq Intervals \cup Requests
        /\ {"pending", "token_received", "account_received"} \subseteq Active
    BY DEF Intervals, Requests, Active
  <1>3. \A at \in {"token delay", "account delay", "token", "account"} :
           /\ at \in Intervals \cup Requests
           /\ at \in (Intervals \cup Requests) \ {"accounts"}
    BY DEF Intervals, Requests
  <1>4. CASE StateIssued(id)
    BY <1>1, <1>2, <1>4, ContinuingIsOrdinary DEF StateIssued
  <1>5. CASE AskToken(id)
    <2>1. /\ Continue(id, "token delay", [sessions[id] EXCEPT !.at = "token"])
          /\ UNCHANGED <<waits, closed, pooled, stored>>
      BY <1>5 DEF AskToken
    <2> QED BY <1>1, <1>3, <2>1, SameStatusIsOrdinary
  <1>6. CASE NoTokenYet(id)
    <2>1. /\ Continue(id, "token", [sessions[id] EXCEPT !.at = "token delay"])
          /\ UNCHANGED <<waits, closed, pooled, stored>>
      BY <1>6 DEF NoTokenYet
    <2> QED BY <1>1, <1>3, <2>1, SameStatusIsOrdinary
  <1>7. CASE TokenReceived(id)
    BY <1>1, <1>2, <1>7, ContinuingIsOrdinary DEF TokenReceived
  <1>8. CASE AskAccount(id)
    <2>1. /\ Continue(id, "account delay", [sessions[id] EXCEPT !.at = "account"])
          /\ UNCHANGED <<waits, closed, pooled, stored>>
      BY <1>8 DEF AskAccount
    <2> QED BY <1>1, <1>3, <2>1, SameStatusIsOrdinary
  <1>9. CASE NoAccountYet(id)
    <2>1. /\ Continue(id, "account", [sessions[id] EXCEPT !.at = "account delay"])
          /\ UNCHANGED <<waits, closed, pooled, stored>>
      BY <1>9 DEF NoAccountYet
    <2> QED BY <1>1, <1>3, <2>1, SameStatusIsOrdinary
  <1>10. CASE AccountReceived(id)
    BY <1>1, <1>2, <1>10, ContinuingIsOrdinary DEF AccountReceived
  <1>11. CASE Fails(id)
    BY <1>1, <1>11, EndingIsOrdinary DEF Fails
  <1>12. CASE DeadlinePasses(id)
    <2> DEFINE s == [sessions[id] EXCEPT !.late = TRUE]
    <2>1. /\ s \in Session /\ s.owner = sessions[id].owner /\ s.kept = sessions[id].kept
          /\ s.status = sessions[id].status /\ s.at = sessions[id].at
      BY <1>1 DEF Session
    <2>2. sessions' = [sessions EXCEPT ![id] = s]
      BY <1>12 DEF DeadlinePasses
    <2> HIDE DEF s
    <2>3. Ordinary(id, s)
      BY <1>1, <1>12, <2>1, <2>2 DEF DeadlinePasses, Ordinary, Advance, TypeOK, Savings, Listing
    <2> QED BY <2>3
  <1>13. CASE Forget(id)
    <2> DEFINE s == [sessions[id] EXCEPT !.kept = FALSE]
    <2>1. /\ s \in Session /\ s.owner = sessions[id].owner /\ ~s.kept
          /\ s.status = sessions[id].status /\ s.at = sessions[id].at
      BY <1>1 DEF Session
    <2>2. sessions' = [sessions EXCEPT ![id] = s]
      BY <1>13 DEF Forget
    <2> HIDE DEF s
    <2>3. Ordinary(id, s)
      BY <1>1, <1>13, <2>1, <2>2 DEF Forget, Ordinary, Advance, TypeOK, Savings, Listing
    <2> QED BY <2>3
  <1>14. CASE ExpiryTimer(id) \/ \E o \in Owners : AskStatus(o, id)
    <2>1. Finish(id, "expired") /\ UNCHANGED <<waits, closed, pooled, stored>>
      BY <1>14 DEF ExpiryTimer, AskStatus
    <2> QED BY <2>1, FinishIsOrdinary
  <1>15. CASE \E o \in Owners : Cancel(o, id)
    <2>1. Finish(id, "cancelled") /\ UNCHANGED <<waits, closed, pooled, stored>>
      BY <1>15 DEF Cancel
    <2> QED BY <2>1, FinishIsOrdinary
  <1> QED BY <1>4, <1>5, <1>6, <1>7, <1>8, <1>9, <1>10, <1>11, <1>12, <1>13, <1>14, <1>15

LEMMA InitialInvariant == Init => IInv
  <1> SUFFICES ASSUME Init PROVE IInv
    OBVIOUS
  <1>1. Started = {}
    BY DEF Init, Started
  <1>2. Kept = {}
    BY <1>1 DEF Kept
  <1> QED BY <1>1, <1>2 DEF Init, IInv, TypeOK, Savings, OneLoginPerOwner, PooledIffCompleted

LEMMA InvariantIsKept == IInv /\ [Next]_vars => IInv'
  <1> SUFFICES ASSUME IInv, [Next]_vars PROVE IInv'
    OBVIOUS
  <1>1. ASSUME NEW o \in Owners, NEW id \in Ids, Start(o, id) PROVE IInv'
    BY <1>1, StartKeeps
  <1>2. ASSUME NEW o \in Owners, NEW id \in Ids, Cancel(o, id) \/ AskStatus(o, id)
        PROVE IInv'
    <2>1. id \in Started
      BY <1>2 DEF Cancel, AskStatus, Kept
    <2> QED BY <1>2, <2>1, OrdinarySteps, OrdinaryKeeps
  <1>3. ASSUME NEW id \in Started,
               DeadlinePasses(id) \/ ExpiryTimer(id) \/ Forget(id)
        PROVE IInv'
    BY <1>3, OrdinarySteps, OrdinaryKeeps
  <1>4. ASSUME NEW id \in Started, Proceed(id) PROVE IInv'
    <2>1. CASE AccountVerified(id)
      BY <2>1, AccountVerifiedKeeps
    <2>2. CASE InsertionSaved(id)
      BY <2>2, InsertionSavedKeeps
    <2>3. CASE InsertionFailed(id)
      BY <2>3, InsertionFailedKeeps
    <2>4. CASE ~AccountVerified(id) /\ ~InsertionSaved(id) /\ ~InsertionFailed(id)
      BY <1>4, <2>4, OrdinarySteps, OrdinaryKeeps DEF Proceed
    <2> QED BY <2>1, <2>2, <2>3, <2>4
  <1>5. CASE Close
    BY <1>5, CloseKeeps
  <1>6. CASE UNCHANGED vars
    BY <1>6 DEF vars, IInv, TypeOK, Savings, Listing, OneLoginPerOwner, PooledIffCompleted,
                Started, Kept, Open
  <1> QED BY <1>1, <1>2, <1>3, <1>4, <1>5, <1>6 DEF Next

\* The invariant holds in every behaviour.
THEOREM InvariantHolds == Spec => []IInv
  BY InitialInvariant, InvariantIsKept, PTL DEF Spec

\* A browser has one login under way at most (start's 409, oauth-broker.ts).
THEOREM OneLogin == Spec => []OneLoginPerOwner
  <1>1. IInv => OneLoginPerOwner
    BY DEF IInv
  <1> QED BY <1>1, InvariantHolds, PTL

\* What the browsers are shown as completed is in the pool and, where the pool has
\* a store, saved; without one the pool has nothing else.
THEOREM PoolAgreesWithBrowsers == Spec => []PooledIffCompleted
  <1>1. IInv => PooledIffCompleted
    BY DEF IInv
  <1> QED BY <1>1, InvariantHolds, PTL

\* A session whose status is terminal keeps it in every step.
LEMMA StepKeepsOutcomes ==
    ASSUME IInv, [Next]_vars, NEW id \in Started, sessions[id].status \in Terminal
    PROVE  sessions'[id].status = sessions[id].status
  <1>1. TypeOK /\ id \in Ids /\ sessions[id] \in Session
    BY StartedSessions DEF IInv
  <1>2. ASSUME NEW i \in Started, NEW s, Ordinary(i, s)
        PROVE  sessions'[id].status = sessions[id].status
    BY <1>1, <1>2 DEF Ordinary, Advance, TypeOK
  <1>3. ASSUME NEW i \in Started, NEW outcome \in Terminal,
               sessions' = [sessions EXCEPT ![i] = Ended(sessions[i], outcome)]
        PROVE  sessions'[id].status = sessions[id].status
    <2>1. CASE i = id
      <3>1. sessions'[id] = Ended(sessions[id], outcome)
        BY <1>1, <1>3, <2>1 DEF TypeOK
      <3>2. sessions[id].status \notin Active
        BY DEF Active, Terminal
      <3> QED BY <1>1, <3>1, <3>2, FinishedSession
    <2>2. CASE i # id
      BY <1>1, <1>3, <2>2 DEF TypeOK
    <2> QED BY <2>1, <2>2
  <1>4. ASSUME NEW o \in Owners, NEW i \in Ids, Start(o, i)
        PROVE  sessions'[id].status = sessions[id].status
    <2>1. i # id
      BY <1>4 DEF Start
    <2> QED BY <1>1, <1>4, <2>1 DEF Start, TypeOK
  <1>5. ASSUME NEW o \in Owners, NEW i \in Ids, Cancel(o, i) \/ AskStatus(o, i)
        PROVE  sessions'[id].status = sessions[id].status
    <2>1. i \in Started
      BY <1>5 DEF Cancel, AskStatus, Kept
    <2> QED BY <1>2, <1>5, <2>1, OrdinarySteps
  <1>6. ASSUME NEW i \in Started, DeadlinePasses(i) \/ ExpiryTimer(i) \/ Forget(i)
        PROVE  sessions'[id].status = sessions[id].status
    BY <1>2, <1>6, OrdinarySteps
  <1>7. ASSUME NEW i \in Started, AccountVerified(i)
        PROVE  sessions'[id].status = sessions[id].status
    <2>1. CASE i = id
      <3>1. ~Live(id)
        BY DEF Live, Open, Active, Terminal
      <3>2. PICK outcome \in {"expired", "failed"} :
               sessions' = [sessions EXCEPT ![id] = Ended(sessions[id], outcome)]
        BY <1>1, <1>7, <2>1, <3>1, Continued DEF AccountVerified
      <3>3. outcome \in Terminal
        BY DEF Terminal
      <3> QED BY <1>3, <3>2, <3>3
    <2>2. CASE i # id
      BY <1>1, <1>7, <2>2 DEF AccountVerified, Continue, TypeOK
    <2> QED BY <2>1, <2>2
  <1>8. ASSUME NEW i \in Started, InsertionSaved(i) \/ InsertionFailed(i)
        PROVE  sessions'[id].status = sessions[id].status
    BY <1>3, <1>8 DEF InsertionSaved, InsertionFailed, Terminal
  <1>9. CASE Close
    BY <1>1, <1>9 DEF Close, Session
  <1>10. CASE UNCHANGED vars
    BY <1>10 DEF vars
  <1>11. ASSUME NEW i \in Started, Proceed(i)
         PROVE  sessions'[id].status = sessions[id].status
    <2>1. CASE AccountVerified(i) \/ InsertionSaved(i) \/ InsertionFailed(i)
      BY <1>7, <1>8, <2>1
    <2>2. CASE ~(AccountVerified(i) \/ InsertionSaved(i) \/ InsertionFailed(i))
      BY <1>2, <1>11, <2>2, OrdinarySteps DEF Proceed
    <2> QED BY <2>1, <2>2
  <1> QED BY <1>4, <1>5, <1>6, <1>9, <1>10, <1>11 DEF Next

\* Cancel, the deadline, the coroutine and the shutdown race for a login: the first
\* outcome stands (finish, oauth-broker.ts).
THEOREM FirstOutcomeStands == Spec => OutcomeIsFinal
  <1>1. IInv /\ [Next]_vars =>
           [\A id \in Started :
               sessions[id].status \in Terminal => sessions'[id].status = sessions[id].status]_vars
    BY StepKeepsOutcomes
  <1> QED BY <1>1, InvariantHolds, PTL DEF Spec, OutcomeIsFinal

\* An account enters the pool only while its login is live (ensureActive before
\* onComplete, oauth-broker.ts).
LEMMA StepInsertsInTime ==
    ASSUME IInv, [Next]_vars, NEW id \in pooled' \ pooled
    PROVE  sessions[id].status = "account_received" /\ ~sessions[id].late /\ ~closed
  <1>1. ASSUME pooled' = pooled PROVE FALSE
    BY <1>1
  <1>2. ASSUME NEW i \in Started, AccountVerified(i)
        PROVE  sessions[id].status = "account_received" /\ ~sessions[id].late /\ ~closed
    <2>1. Live(i) /\ id = i
      BY <1>2 DEF AccountVerified
    <2>2. sessions[i].at = "accounts" /\ sessions[i].status \in Active
      BY <1>2, <2>1 DEF AccountVerified, Continue, Live, Open
    <2>3. sessions[i].status = "account_received"
      BY <2>2 DEF IInv, Savings, Listing, Active, Terminal
    <2> QED BY <2>1, <2>3 DEF Live
  <1>3. ASSUME NEW i \in Started, InsertionFailed(i) PROVE FALSE
    BY <1>3 DEF InsertionFailed
  <1>4. ASSUME NEW i \in Started, Proceed(i), ~AccountVerified(i), ~InsertionFailed(i)
        PROVE  pooled' = pooled
    BY <1>4 DEF Proceed, StateIssued, AskToken, NoTokenYet, TokenReceived, AskAccount,
                NoAccountYet, AccountReceived, InsertionSaved, Fails
  <1>5. ASSUME NEW i \in Started, DeadlinePasses(i) \/ ExpiryTimer(i) \/ Forget(i)
        PROVE  pooled' = pooled
    BY <1>5 DEF DeadlinePasses, ExpiryTimer, Forget
  <1>6. ASSUME NEW o \in Owners, NEW i \in Ids,
               Start(o, i) \/ Cancel(o, i) \/ AskStatus(o, i)
        PROVE  pooled' = pooled
    BY <1>6 DEF Start, Cancel, AskStatus
  <1>7. CASE Close
    BY <1>1, <1>7 DEF Close
  <1>8. CASE UNCHANGED vars
    BY <1>1, <1>8 DEF vars
  <1> QED BY <1>1, <1>2, <1>3, <1>4, <1>5, <1>6, <1>7, <1>8 DEF Next

\* A browser that cancelled, a login past its deadline or a broker shut down adds
\* nothing to the pool, however late the upstream answers.
THEOREM InsertionInTime == Spec => NoLateInsertion
  <1>1. IInv /\ [Next]_vars =>
           [\A id \in pooled' \ pooled :
               /\ sessions[id].status = "account_received"
               /\ ~sessions[id].late
               /\ ~closed]_vars
    BY StepInsertsInTime
  <1> QED BY <1>1, InvariantHolds, PTL DEF Spec, NoLateInsertion
=============================================================================
