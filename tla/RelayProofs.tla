----------------------------- MODULE RelayProofs -----------------------------
(***************************************************************************)
(* What Relay promises, for every set of routes and any number of frames.  *)
(* The invariant says where in its life a request may have been recorded,  *)
(* charged or answered, and how many attempts each reason for one leaves.  *)
(***************************************************************************)
EXTENDS Relay, TLAPS

ChatStream == route = "chat" /\ stream

\* attempts made when the last one had this reason
Nth == [reason \in {"first", "html", "fresh", "gateway"} |->
          CASE reason = "first" -> 1 [] reason = "html" -> 2
            [] reason = "fresh" -> 3 [] OTHER -> 4]

\* the recorder counts one too many, and an attempt after the client left
Counting ==
    /\ sent < counted
    /\ at \in {"arrived", "credential"} => try = "first" /\ counted = 1
    /\ at \in {"headers", "reason", "frame", "drain", "closing", "farewell", "over"}
        => counted <= Nth[try] + 1
    /\ at = "pause" => counted <= Nth[try]
    /\ at = "refresh" => try \in {"first", "html"} /\ counted <= Nth[try] + 1

\* what a request may have had at each point of its life
Progress ==
    /\ body = "open" => at \in {"reason", "frame", "drain"}
    /\ at \in {"arrived", "credential", "headers", "pause", "refresh", "reason"}
        => frames = 0 /\ ~usage
    /\ at \in {"drain", "closing", "farewell"} => route = "messages"
    /\ at = "closing" => finished
    /\ at = "arrived" => ~gone

Outcome ==
    /\ at = "over" => record # "none"
    /\ at = "farewell" => record \in {"failed", "aborted"}
    /\ at \notin {"over", "farewell"} => record = IF ChatStream /\ usage THEN "ok" ELSE "none"
    /\ record = "ok" => ChatStream \/ (reply = "complete" /\ (route = "chat" \/ finished))
    /\ record = "aborted" => gone
    /\ reply = "complete" => record = "ok" /\ at = "over"
    /\ at = "over" /\ ~gone => reply \in {"complete", "error"}
    /\ charged = IF usage /\ record = "ok" THEN 1 ELSE 0
    /\ ChatStream /\ usage => record = "ok"

IInv == TypeOK /\ Counting /\ Progress /\ Outcome

-----------------------------------------------------------------------------

LEMMA InitIInv == Init => IInv
  <1> SUFFICES ASSUME Init PROVE IInv
    OBVIOUS
  <1>1. TypeOK
    <2>1. sent \in 0 .. 4 /\ counted \in 1 .. 5 /\ frames \in 0 .. MaxFrames /\ charged \in Nat
      BY FramesAreCounted DEF Init
    <2>2. stream \in BOOLEAN /\ usage \in BOOLEAN /\ finished \in BOOLEAN /\ gone \in BOOLEAN
      BY DEF Init
    <2> QED BY <2>1, <2>2 DEF Init, TypeOK
  <1>2. Counting
    BY DEF Init, Counting
  <1>3. Progress
    BY DEF Init, Progress
  <1>4. Outcome
    BY DEF Init, Outcome, ChatStream
  <1> QED BY <1>1, <1>2, <1>3, <1>4 DEF IInv

\* The catch block, whatever it was entered for.
LEMMA ThrowKeeps ==
  ASSUME IInv, NEW error, error \in {"account", "abort", "budget", "idle", "network",
                                     "protocol", "refused", "edge"},
         at \notin {"arrived", "over", "farewell"},
         error = "abort" => gone,
         Fails(error)
  PROVE  IInv'
  <1>1. TypeOK'
    BY DEF IInv, TypeOK, Fails, Throw, Recorded, StatusOf, Farewell, Apologised, asked, attempts, answer
  <1>2. Counting'
    BY DEF IInv, TypeOK, Counting, Fails, Throw, Farewell, Apologised, asked, attempts, Nth
  <1>3. Progress'
    BY DEF IInv, TypeOK, Progress, Fails, Throw, Farewell, Apologised, asked, attempts, answer
  <1>4. Outcome'
    BY DEF IInv, TypeOK, Outcome, Progress, ChatStream, Fails, Throw, Recorded, StatusOf,
           Farewell, Apologised, asked, attempts, answer
  <1> QED BY <1>1, <1>2, <1>3, <1>4 DEF IInv

\* The same for the errors that do more than fail.
LEMMA ArrivalKeeps ==
  ASSUME IInv, Reject \/ Accept \/ Leave
  PROVE  IInv'
  <1>1. TypeOK'
    <2>1. CASE Reject
      BY <2>1 DEF IInv, TypeOK, Reject, Recorded, asked, attempts, answer
    <2>2. CASE Accept
      BY <2>2 DEF IInv, TypeOK, Accept, asked, attempts, answer
    <2>3. CASE Leave
      BY <2>3 DEF IInv, TypeOK, Leave, asked, attempts, answer
    <2> QED BY <2>1, <2>2, <2>3
  <1>2. Counting'
    BY DEF IInv, TypeOK, Counting, Reject, Accept, Leave, asked, attempts, answer, Nth
  <1>3. Progress'
    BY DEF IInv, TypeOK, Progress, Reject, Accept, Leave, asked, attempts, answer
  <1>4. Outcome'
    BY DEF IInv, TypeOK, Outcome, Progress, ChatStream, Reject, Accept, Leave, Recorded,
           asked, attempts, answer
  <1> QED BY <1>1, <1>2, <1>3, <1>4 DEF IInv

\* The next attempt: the reasons leave room for four.
LEMMA AttemptKeeps ==
  ASSUME IInv, NEW reason \in {"first", "html", "fresh", "gateway"},
         at \in {"credential", "pause", "refresh"},
         counted <= Nth[reason],
         Attempt(reason)
  PROVE  IInv'
  <1>1. TypeOK'
    BY DEF IInv, TypeOK, Attempt, Counting, Nth, asked, answer
  <1>2. Counting'
    BY DEF IInv, TypeOK, Counting, Attempt, Nth, asked, answer
  <1>3. Progress'
    BY DEF IInv, TypeOK, Progress, Attempt, asked, answer
  <1>4. Outcome'
    BY DEF IInv, TypeOK, Outcome, Progress, ChatStream, Attempt, asked, answer
  <1> QED BY <1>1, <1>2, <1>3, <1>4 DEF IInv

\* An answer that is thrown away, and one whose text is read.
LEMMA CancelKeeps ==
  ASSUME IInv, at = "headers",
         NEW next, NEW reason \in {"first", "html", "fresh", "gateway"},
         \/ next = "pause" /\ counted <= Nth[reason]
         \/ next = "refresh" /\ reason \in {"first", "html"} /\ counted <= Nth[reason] + 1,
         CancelledFor(next, reason)
  PROVE  IInv'
  <1>1. TypeOK'
    BY DEF IInv, TypeOK, CancelledFor, asked, answer
  <1>2. Counting'
    BY DEF IInv, TypeOK, Counting, CancelledFor, Nth, asked, answer
  <1>3. Progress'
    BY DEF IInv, TypeOK, Progress, CancelledFor, asked, answer
  <1>4. Outcome'
    BY DEF IInv, TypeOK, Outcome, Progress, ChatStream, CancelledFor, asked, answer
  <1> QED BY <1>1, <1>2, <1>3, <1>4 DEF IInv

LEMMA RefusedKeeps ==
  ASSUME IInv, at = "headers", NEW reported \in {"nothing", "token", "html"},
         Refused(reported) \/ Opened
  PROVE  IInv'
  <1>1. TypeOK'
    BY DEF IInv, TypeOK, Refused, Opened, asked, attempts, answer
  <1>2. Counting'
    BY DEF IInv, TypeOK, Counting, Refused, Opened, asked, attempts, answer
  <1>3. Progress'
    BY DEF IInv, TypeOK, Progress, Refused, Opened, asked, attempts, answer
  <1>4. Outcome'
    BY DEF IInv, TypeOK, Outcome, Progress, ChatStream, Refused, Opened, asked, attempts, answer
  <1> QED BY <1>1, <1>2, <1>3, <1>4 DEF IInv

LEMMA AnsweredKeeps ==
  ASSUME IInv, Answered
  PROVE  IInv'
  <1> USE DEF IInv
  <1>1. at = "headers" /\ counted <= Nth[try] + 1 /\ counted \in Nat
        /\ try \in {"first", "html", "fresh", "gateway"}
        /\ blamed \in {"nothing", "token", "html"}
    BY DEF Answered, Counting, TypeOK
  <1>2. ASSUME EdgePage PROVE IInv'
    <2>1. CASE try = "first" /\ CancelledFor("pause", "html")
      <3>1. counted <= Nth["html"]
        BY <1>1, <2>1 DEF Nth
      <3> QED BY <1>1, <2>1, <3>1, CancelKeeps
    <2>2. CASE Fails("edge")
      BY <1>1, <2>2, ThrowKeeps
    <2>3. CASE Refused("html") \/ Refused(blamed)
      BY <1>1, <2>3, RefusedKeeps
    <2> QED BY <1>2, <2>1, <2>2, <2>3 DEF EdgePage
  <1>3. ASSUME Unauthorized PROVE IInv'
    <2>1. CASE try \in {"first", "html"} /\ CancelledFor("refresh", try)
      BY <1>1, <2>1, CancelKeeps
    <2>2. CASE Refused("token") \/ Refused(blamed)
      BY <1>1, <2>2, RefusedKeeps
    <2> QED BY <1>3, <2>1, <2>2 DEF Unauthorized
  <1>4. ASSUME GatewayError PROVE IInv'
    <2>1. CASE try # "gateway" /\ CancelledFor("pause", "gateway")
      <3>1. counted <= Nth["gateway"]
        BY <1>1, <2>1 DEF Nth
      <3> QED BY <1>1, <2>1, <3>1, CancelKeeps
    <2>2. CASE Refused(blamed)
      BY <1>1, <2>2, RefusedKeeps
    <2> QED BY <1>4, <2>1, <2>2 DEF GatewayError
  <1>5. ASSUME Forbidden \/ OtherError \/ Opened PROVE IInv'
    BY <1>1, <1>5, RefusedKeeps DEF Forbidden, OtherError
  <1> QED BY <1>2, <1>3, <1>4, <1>5 DEF Answered

\* Frames, and what is flushed after the client left.
LEMMA FrameKeeps ==
  ASSUME IInv, NEW counts \in BOOLEAN, Frame(counts)
  PROVE  IInv'
  <1>1. TypeOK'
    BY FramesAreCounted DEF IInv, TypeOK, Frame, ChatCharge, Recorded, asked, attempts
  <1>2. Counting'
    BY DEF IInv, TypeOK, Counting, Frame, asked, attempts
  <1>3. Progress'
    BY DEF IInv, TypeOK, Progress, Frame, asked, attempts
  <1>4. Outcome'
    BY DEF IInv, TypeOK, Outcome, ChatStream, Frame, ChatCharge, Recorded, asked, attempts
  <1> QED BY <1>1, <1>2, <1>3, <1>4 DEF IInv

LEMMA FlushedKeeps ==
  ASSUME IInv, at = "frame", gone, Flushed
  PROVE  IInv'
  <1>1. TypeOK'
    <2>1. usage' \in BOOLEAN /\ charged' \in Nat
      BY DEF IInv, TypeOK, Flushed
    <2>2. record' \in {"none", "rejected", "ok", "failed", "aborted"}
      BY DEF IInv, TypeOK, Flushed, Recorded
    <2> QED BY <2>1, <2>2 DEF IInv, TypeOK, Flushed, asked, attempts
  <1>2. Counting'
    BY DEF IInv, TypeOK, Counting, Flushed, asked, attempts
  <1>3. Progress'
    BY DEF IInv, TypeOK, Progress, Flushed, asked, attempts
  <1>4. Outcome'
    <2>1. CASE ChatStream
      BY <2>1 DEF IInv, TypeOK, Outcome, ChatStream, Flushed, Recorded, asked
    <2>2. CASE ~ChatStream
      BY <2>2 DEF IInv, TypeOK, Outcome, ChatStream, Flushed, Recorded, asked
    <2> QED BY <2>1, <2>2
  <1> QED BY <1>1, <1>2, <1>3, <1>4 DEF IInv

\* The end of a stream that was read to its end.
LEMMA ConcludedKeeps ==
  ASSUME IInv, at = "frame", ~gone, Concluded,
         UNCHANGED <<frames, usage>>, finished' \in BOOLEAN,
         route = "chat" \/ finished'
  PROVE  IInv'
  <1>1. TypeOK'
    BY DEF IInv, TypeOK, Concluded, Throw, Completed, ChargedAtEnd, Recorded, StatusOf, Farewell,
           Apologised, asked, attempts
  <1>2. Counting'
    BY DEF IInv, TypeOK, Counting, Concluded, Throw, Completed, Farewell, Apologised, asked, attempts
  <1>3. Progress'
    BY DEF IInv, TypeOK, Progress, Concluded, Throw, Completed, Farewell, Apologised, asked, attempts
  <1>4. Outcome'
    <2>1. CASE Completed
      BY <2>1 DEF IInv, TypeOK, Outcome, ChatStream, Concluded, Throw, Completed, ChargedAtEnd,
             Recorded, asked, attempts
    <2>2. CASE ~Completed
      BY <2>2 DEF IInv, TypeOK, Outcome, ChatStream, Concluded, Throw, Recorded,
             StatusOf, Farewell, Apologised, asked, attempts
    <2> QED BY <2>1, <2>2
  <1> QED BY <1>1, <1>2, <1>3, <1>4 DEF IInv

LEMMA StreamEndKeeps ==
  ASSUME IInv, Done \/ EndOfBody
  PROVE  IInv'
  <1>1. CASE Done
    BY <1>1, ConcludedKeeps DEF Done
  <1>2. CASE EndOfBody
    BY <1>2, ConcludedKeeps, ThrowKeeps DEF EndOfBody, answer, IInv, TypeOK
  <1> QED BY <1>1, <1>2

\* Waiting for the client.
LEMMA WaitKeeps ==
  ASSUME IInv, Drained \/ (DrainAborted /\ at = "farewell")
  PROVE  IInv'
  <1>1. TypeOK'
    BY DEF IInv, TypeOK, Drained, DrainAborted, Completed, ChargedAtEnd, Recorded, Apologised,
           asked, attempts, answer
  <1>2. Counting'
    BY DEF IInv, TypeOK, Counting, Drained, DrainAborted, Completed, Apologised, asked, attempts, answer
  <1>3. Progress'
    BY DEF IInv, TypeOK, Progress, Drained, DrainAborted, Completed, Apologised, asked, attempts, answer
  <1>4. Outcome'
    BY DEF IInv, TypeOK, Outcome, Progress, ChatStream, Drained, DrainAborted, Completed,
           ChargedAtEnd, Recorded, Apologised, asked, attempts, answer
  <1> QED BY <1>1, <1>2, <1>3, <1>4 DEF IInv

-----------------------------------------------------------------------------

LEMMA StepIInv == IInv /\ [Next]_vars => IInv'
  <1> SUFFICES ASSUME IInv, [Next]_vars PROVE IInv'
    OBVIOUS
  <1>1. CASE Reject \/ Accept \/ Leave
    BY <1>1, ArrivalKeeps
  <1>2. CASE Lent
    <2>1. at = "credential" /\ counted <= Nth["first"]
      BY <1>2 DEF Lent, IInv, Counting, Nth
    <2> QED BY <1>2, <2>1, AttemptKeeps DEF Lent
  <1>3. CASE NoAccount \/ Unanswered \/ RefreshFails \/ ReasonRead \/ Broken \/ Garbage
    BY <1>3, ThrowKeeps DEF NoAccount, Unanswered, RefreshFails, ReasonRead, Broken, Garbage
  <1>4. CASE Answered
    BY <1>4, AnsweredKeeps
  <1>5. CASE PauseEnds
    <2>1. at = "pause" /\ counted <= Nth[try] /\ try \in {"first", "html", "fresh", "gateway"}
      BY <1>5 DEF PauseEnds, IInv, Counting, TypeOK
    <2> QED BY <1>5, <2>1, AttemptKeeps, ThrowKeeps DEF PauseEnds
  <1>6. CASE Refreshed
    <2>1. at = "refresh" /\ counted <= Nth["fresh"]
      BY <1>6 DEF Refreshed, IInv, Counting, Nth, TypeOK
    <2> QED BY <1>6, <2>1, AttemptKeeps DEF Refreshed
  <1>7. CASE \E counts \in BOOLEAN : Frame(counts)
    BY <1>7, FrameKeeps
  <1>8. CASE ReadCancelled
    BY <1>8, ThrowKeeps, FlushedKeeps DEF ReadCancelled
  <1>9. CASE Done \/ EndOfBody
    BY <1>9, StreamEndKeeps
  <1>10. CASE Drained \/ DrainAborted
    <2>1. CASE DrainAborted /\ at # "farewell"
      <3>1. at \in {"drain", "closing"} /\ gone /\ Fails("abort")
        BY <2>1 DEF DrainAborted
      <3> QED BY <3>1, ThrowKeeps
    <2> QED BY <1>10, <2>1, WaitKeeps
  <1>11. CASE UNCHANGED vars
    BY <1>11 DEF vars, asked, attempts, answer, IInv, TypeOK, Counting, Progress, Outcome, ChatStream
  <1> QED
    BY <1>1, <1>2, <1>3, <1>4, <1>5, <1>6, <1>7, <1>8, <1>9, <1>10, <1>11 DEF Next, Gateway

THEOREM Invariant == Spec => []IInv
  BY InitIInv, StepIInv, PTL DEF Spec

\* Types, and at most four requests to the upstream.
THEOREM TypeCorrect == Spec => []TypeOK
  <1>1. IInv => TypeOK
    BY DEF IInv
  <1> QED BY <1>1, Invariant, PTL

\* Every request that is over is recorded, and messages and responses truthfully.
THEOREM RecordIsTrue == Spec => []RecordTellsTheOutcome
  <1>1. IInv => RecordTellsTheOutcome
    BY DEF IInv, Outcome, ChatStream, RecordTellsTheOutcome
  <1> QED BY <1>1, Invariant, PTL

\* No answer of the upstream is left open by the next attempt or by the end.
THEOREM ConnectionsReleased == Spec => []ConnectionsAreReleased
  <1>1. IInv => ConnectionsAreReleased
    BY DEF IInv, Progress, ConnectionsAreReleased
  <1> QED BY <1>1, Invariant, PTL

\* Tokens are charged once, when they were delivered.
THEOREM OneCharge == Spec => []ChargedOnce
  <1>1. IInv => ChargedOnce
    BY DEF IInv, Outcome, ChargedOnce
  <1> QED BY <1>1, Invariant, PTL

\* A client that stayed is told how its request ended.
THEOREM ClientIsTold == Spec => []ClientLearns
  <1>1. IInv => ClientLearns
    BY DEF IInv, Outcome, ClientLearns
  <1> QED BY <1>1, Invariant, PTL

\* Nothing is sent upstream again after a stream was opened.
THEOREM NoReplay == Spec => NothingIsReplayed
  <1>1. IInv /\ [Next]_vars => [sent' # sent => at # "frame" /\ frames = 0]_vars
    <2> SUFFICES ASSUME IInv, Next, sent' # sent
                 PROVE  at # "frame" /\ frames = 0
      BY DEF vars
    <2>1. at \in {"credential", "pause", "refresh"}
      BY DEF Next, Gateway, Reject, Accept, Leave, Lent, NoAccount, Unanswered, Answered, EdgePage,
             Unauthorized, Forbidden, GatewayError, OtherError, Opened, Refused, CancelledFor,
             PauseEnds, Refreshed, RefreshFails, ReasonRead, Broken, Garbage, Frame, ReadCancelled,
             Flushed, Done, EndOfBody, Concluded, Completed, Drained, DrainAborted, Apologised, Fails, Throw,
             attempts
    <2> QED BY <2>1 DEF IInv, Progress
  <1> QED BY <1>1, Invariant, PTL DEF NothingIsReplayed, Spec

\* A client that left is never recorded as a failure by messages and responses.
THEOREM LeavingNoFailure == Spec => LeavingIsNoFailure
  <1>1. IInv /\ [Next]_vars
        => [gone /\ record = "none" /\ record' # "none" /\ route # "chat"
              => record' = "aborted"]_vars
    <2> SUFFICES ASSUME IInv, Next, gone, record = "none", record' # "none", route # "chat"
                 PROVE  record' = "aborted"
      BY DEF vars
    <2>1. at # "arrived"
      BY DEF IInv, Progress
    <2>2. ASSUME NEW error, Throw(error) PROVE record' = "aborted"
      BY <2>2 DEF Throw, Recorded, StatusOf
    <2> QED
      BY <2>1, <2>2 DEF Next, Gateway, Reject, Accept, Leave, Lent, NoAccount, Unanswered, Answered,
             EdgePage, Unauthorized, Forbidden, GatewayError, OtherError, Opened, Refused,
             CancelledFor, Attempt, PauseEnds, Refreshed, RefreshFails, ReasonRead, Broken, Garbage,
             Frame, ChatCharge, ReadCancelled, Flushed, Recorded, Done, EndOfBody, Drained,
             DrainAborted, Fails
  <1> QED BY <1>1, Invariant, PTL DEF LeavingIsNoFailure, Spec

=============================================================================
