----------------------------- MODULE OAuthBroker -----------------------------
(***************************************************************************)
(* Web logins (workbuddy/oauth-broker.ts): a browser starts a login, the   *)
(* broker polls the upstream until the user has signed in there, checks    *)
(* the account and puts the credential into the pool.                      *)
(*                                                                         *)
(* A login is driven by one coroutine (start, then poll) that awaits the   *)
(* upstream, and it can meanwhile be cancelled by its browser, expire, or  *)
(* be ended by the shutdown of the broker.  A step is what the code runs   *)
(* between two awaits: an answer arrives, ensureActive is asked, the       *)
(* status moves on and the next request leaves.  Aborting a request is a   *)
(* hint, so an answer may still arrive for a login that is over.           *)
(*                                                                         *)
(* A definition marked "slip" is no part of the model: it is a mistake     *)
(* that could be made in the definition it stands before, and PROJECT.json *)
(* names the property that must catch it.                                  *)
(***************************************************************************)
EXTENDS Naturals, FiniteSets

CONSTANTS
    Owners,       \* browsers, by their cookie
    Ids,          \* session ids: random, so never used twice
    MaxSessions,  \* sessions kept at a time (32)
    PoolsWait     \* the pools to consider: TRUE for one with a store that add() awaits

ASSUME BoundsAreSane ==
    /\ MaxSessions \in Nat \ {0}
    /\ PoolsWait \subseteq BOOLEAN

VARIABLES
    waits,      \* the pool has a store of its own and add() awaits it
    sessions,   \* the login of each id
    closed,     \* the broker is shut down
    pooled,     \* logins whose credential is in the pool
    stored      \* logins whose credential the pool's store has saved

vars == <<waits, sessions, closed, pooled, stored>>

-----------------------------------------------------------------------------
(* Types *)

Active == {"starting", "pending", "token_received", "account_received"}
Terminal == {"completed", "failed", "cancelled", "expired"}

\* what the coroutine awaits: a poll interval or an answer of the upstream, or
\* the pool's save
Intervals == {"token delay", "account delay"}
Requests == {"state", "token", "account", "accounts"}
Awaits == Intervals \cup Requests \cup {"save"}

\* kept: still in the broker's map.  late: its deadline has passed.
Session == [owner : Owners, status : Active \cup Terminal, late : BOOLEAN,
            kept : BOOLEAN, at : Awaits \cup {"ended"}]

Unused == [status |-> "unused"]

-----------------------------------------------------------------------------
(* Helpers *)

Started == {id \in Ids : sessions[id] # Unused}
Kept == {id \in Started : sessions[id].kept}
Open == {id \in Started : sessions[id].status \in Active}
Running == {id \in Started : sessions[id].at # "ended"}

\* the login's AbortController has fired: finish() and close() do that
Aborted(id) == id \notin Open \/ closed

\* slip: the status is not asked
LiveUntilDeadline(id) == ~sessions[id].late /\ ~closed
\* slip: the deadline is not asked
LiveWhileActive(id) == id \in Open /\ ~closed
\* slip: no check after the await
AlwaysLive(id) == TRUE
\* ensureActive does not throw
Live(id) == id \in Open /\ ~sessions[id].late /\ ~closed

\* slip: the last one to finish wins
FinishedAgain(s, outcome) == [s EXCEPT !.status = outcome]
\* finish(): only the first outcome counts
Finished(s, outcome) ==
    IF s.status \in Active THEN [s EXCEPT !.status = outcome] ELSE s

Finish(id, outcome) ==
    sessions' = [sessions EXCEPT ![id] = Finished(@, outcome)]

\* the coroutine ends: finish() in start's or poll's last lines
Ended(s, outcome) == [Finished(s, outcome) EXCEPT !.at = "ended"]

\* the code after an await: go on if the login is live, else ensureActive throws
Continue(id, from, next) ==
    /\ sessions[id].at = from
    /\ sessions' = [sessions EXCEPT ![id] =
          IF Live(id) THEN next
          ELSE Ended(@, IF sessions[id].late THEN "expired" ELSE "failed")]

-----------------------------------------------------------------------------

Init ==
    /\ waits \in PoolsWait
    /\ sessions = [id \in Ids |-> Unused]
    /\ closed = FALSE
    /\ pooled = {}
    /\ stored = {}

-----------------------------------------------------------------------------
(* What a browser asks for *)

\* slip: a login whose first request is under way does not count
Polling(o) ==
    \E id \in Kept : sessions[id].owner = o /\ sessions[id].status \in Active \ {"starting"}
\* the owner has a login under way
Pending(o) == \E id \in Kept \cap Open : sessions[id].owner = o

\* start(): 503, 409 and 429 change nothing
Start(o, id) ==
    /\ id \notin Started
    /\ ~closed
    /\ ~Pending(o)
    /\ Cardinality(Kept) < MaxSessions
    /\ sessions' = [sessions EXCEPT ![id] =
          [owner |-> o, status |-> "starting", late |-> FALSE, kept |-> TRUE,
           at |-> "state"]]
    /\ UNCHANGED <<waits, closed, pooled, stored>>

\* a browser can ask about a session it owns; it learns the id from start's answer
Knows(o, id) == sessions[id].owner = o /\ sessions[id].status # "starting"

\* cancel(): 404 unless the browser owns the session
Cancel(o, id) ==
    /\ id \in Kept \cap Open
    /\ Knows(o, id)
    /\ Finish(id, "cancelled")
    /\ UNCHANGED <<waits, closed, pooled, stored>>

\* status() expires a session whose timer has not fired yet
AskStatus(o, id) ==
    /\ id \in Kept \cap Open
    /\ Knows(o, id)
    /\ sessions[id].late
    /\ Finish(id, "expired")
    /\ UNCHANGED <<waits, closed, pooled, stored>>

-----------------------------------------------------------------------------
(* The coroutine *)

\* the upstream has issued a state: the login page is handed out, polling starts
StateIssued(id) ==
    /\ Continue(id, "state",
                [sessions[id] EXCEPT !.status = "pending", !.at = "token delay"])
    /\ UNCHANGED <<waits, closed, pooled, stored>>

\* a poll interval is over: ask again.  An abort ends the interval early.
AskToken(id) ==
    /\ ~Aborted(id)
    /\ Continue(id, "token delay", [sessions[id] EXCEPT !.at = "token"])
    /\ UNCHANGED <<waits, closed, pooled, stored>>

AskAccount(id) ==
    /\ ~Aborted(id)
    /\ Continue(id, "account delay", [sessions[id] EXCEPT !.at = "account"])
    /\ UNCHANGED <<waits, closed, pooled, stored>>

\* the upstream answers 11217 or 12151, or no data: wait for the next interval
NoTokenYet(id) ==
    /\ Continue(id, "token", [sessions[id] EXCEPT !.at = "token delay"])
    /\ UNCHANGED <<waits, closed, pooled, stored>>

NoAccountYet(id) ==
    /\ Continue(id, "account", [sessions[id] EXCEPT !.at = "account delay"])
    /\ UNCHANGED <<waits, closed, pooled, stored>>

TokenReceived(id) ==
    /\ Continue(id, "token",
                [sessions[id] EXCEPT !.status = "token_received", !.at = "account delay"])
    /\ UNCHANGED <<waits, closed, pooled, stored>>

AccountReceived(id) ==
    /\ Continue(id, "account",
                [sessions[id] EXCEPT !.status = "account_received", !.at = "accounts"])
    /\ UNCHANGED <<waits, closed, pooled, stored>>

\* slip: marked completed when the save has only been started
CompletedEarly(s) ==
    [Finished(s, "completed") EXCEPT !.at = IF waits THEN "save" ELSE "ended"]
\* after pool.add: at once if nothing has to be awaited
Inserted(s) ==
    IF waits THEN [s EXCEPT !.at = "save"] ELSE Ended(s, "completed")

\* the account list has the account: onComplete puts the credential in the pool
AccountVerified(id) ==
    /\ Continue(id, "accounts", Inserted(sessions[id]))
    /\ pooled' = IF Live(id) THEN pooled \cup {id} ELSE pooled
    /\ UNCHANGED <<waits, closed, stored>>

\* the pool's store has saved the account
InsertionSaved(id) ==
    /\ sessions[id].at = "save"
    /\ sessions' = [sessions EXCEPT ![id] = Ended(@, "completed")]
    /\ stored' = stored \cup {id}
    /\ UNCHANGED <<waits, closed, pooled>>

\* or failed to, and add() has undone the insertion
InsertionFailed(id) ==
    /\ sessions[id].at = "save"
    /\ sessions' = [sessions EXCEPT ![id] = Ended(@, "failed")]
    /\ pooled' = pooled \ {id}
    /\ UNCHANGED <<waits, closed, stored>>

\* a refused, malformed, mismatching or missing answer, a timeout, or an abort
Fails(id) ==
    /\ \/ sessions[id].at \in Requests
       \/ sessions[id].at \in Intervals /\ Aborted(id)
    /\ sessions' = [sessions EXCEPT ![id] = Ended(@, "failed")]
    /\ UNCHANGED <<waits, closed, pooled, stored>>

Proceed(id) ==
    \/ StateIssued(id)
    \/ AskToken(id)
    \/ NoTokenYet(id)
    \/ TokenReceived(id)
    \/ AskAccount(id)
    \/ NoAccountYet(id)
    \/ AccountReceived(id)
    \/ AccountVerified(id)
    \/ InsertionSaved(id)
    \/ InsertionFailed(id)
    \/ Fails(id)

-----------------------------------------------------------------------------
(* Time and shutdown *)

\* Date.now() reaches expires_at, at or before the timer set for it
DeadlinePasses(id) ==
    /\ ~sessions[id].late
    /\ sessions[id].status \in Active
    /\ sessions' = [sessions EXCEPT ![id].late = TRUE]
    /\ UNCHANGED <<waits, closed, pooled, stored>>

ExpiryTimer(id) ==
    /\ id \in Kept \cap Open
    /\ sessions[id].late
    /\ Finish(id, "expired")
    /\ UNCHANGED <<waits, closed, pooled, stored>>

\* finish() has set the cleanup timer
Over(s) == s.status \in Terminal

\* 60 s after its end a session leaves the map
Forget(id) ==
    /\ id \in Kept
    /\ Over(sessions[id])
    /\ sessions' = [sessions EXCEPT ![id].kept = FALSE]
    /\ UNCHANGED <<waits, closed, pooled, stored>>

\* close(): every session is aborted and forgotten, timers are cleared
Close ==
    /\ ~closed
    /\ closed' = TRUE
    /\ sessions' = [id \in Ids |->
          IF id \in Started THEN [sessions[id] EXCEPT !.kept = FALSE]
          ELSE sessions[id]]
    /\ UNCHANGED <<waits, pooled, stored>>

Next ==
    \/ \E o \in Owners, id \in Ids : Start(o, id) \/ Cancel(o, id) \/ AskStatus(o, id)
    \/ \E id \in Started :
          Proceed(id) \/ DeadlinePasses(id) \/ ExpiryTimer(id) \/ Forget(id)
    \/ Close

Spec == Init /\ [][Next]_vars

(* Every request carries AbortSignal.timeout, intervals and deadlines are  *)
(* timers, a save is finite I/O.  Browsers are free, nobody has to close.  *)
Fairness ==
    \A id \in Ids :
        /\ WF_vars(id \in Started /\ Proceed(id))
        /\ WF_vars(id \in Started /\ DeadlinePasses(id))
        /\ WF_vars(ExpiryTimer(id))
        /\ WF_vars(Forget(id))
FairSpec == Spec /\ Fairness

-----------------------------------------------------------------------------
(* Invariants *)

\* The types; a coroutine that has ended has left an outcome, and a closed broker
\* keeps no session.
TypeOK ==
    /\ waits \in PoolsWait
    /\ sessions \in [Ids -> Session \cup {Unused}]
    /\ closed \in BOOLEAN
    /\ pooled \subseteq Started
    /\ stored \subseteq Started
    /\ \A id \in Started : sessions[id].at = "ended" => sessions[id].status \in Terminal
    /\ closed => Kept = {}

\* A browser has one login under way at most, from the moment its first request
\* leaves (start's 409): two logins of one browser would race for one account.
OneLoginPerOwner ==
    \A id1, id2 \in Kept \cap Open :
        sessions[id1].owner = sessions[id2].owner => id1 = id2

\* The pool and what a browser is shown agree.  With main.ts's wiring, where add()
\* awaits nothing, the pool has the account of exactly the logins that are shown
\* as completed, whatever cancellation, deadline or shutdown came in between.
\* Where the pool has a store of its own "completion includes durable pool
\* insertion before the login is marked complete" (oauth-broker.ts:145).
PooledIffCompleted ==
    LET completed == {id \in Started : sessions[id].status = "completed"}
    IN  IF waits THEN completed \subseteq pooled \cap stored ELSE pooled = completed

-----------------------------------------------------------------------------
(* Action properties *)

\* The first outcome of a login is its only one: cancel, the deadline, the
\* coroutine and the shutdown race, and the losers change nothing.
OutcomeIsFinal ==
    [][\A id \in Started :
          sessions[id].status \in Terminal => sessions'[id].status = sessions[id].status]_vars

\* An account enters the pool only while its login is live: a browser that
\* cancelled, a login past its deadline or a broker shut down adds nothing,
\* however late the upstream answers (tests/oauth-broker.test.ts:95, :106).
NoLateInsertion ==
    [][\A id \in pooled' \ pooled :
          /\ sessions[id].status = "account_received"
          /\ ~sessions[id].late
          /\ ~closed]_vars

-----------------------------------------------------------------------------
(* Liveness *)

\* Every coroutine ends: nothing polls the upstream for ever.
LoginsEnd == \A id \in Ids : id \in Running ~> id \notin Running

=============================================================================
