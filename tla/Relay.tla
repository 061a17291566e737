-------------------------------- MODULE Relay --------------------------------
(***************************************************************************)
(* One request of a client, from its arrival to its record: the hook of    *)
(* app.ts, one of the three protocol routes (routes/chat-completions.ts,   *)
(* messages.ts, responses.ts), the upstream client with its retries        *)
(* (workbuddy/client.ts) and the recorder (routes/request-context.ts).     *)
(* The client may leave at any moment.  The pool is what CredentialPool    *)
(* promises: it lends or refuses an account.                               *)
(*                                                                         *)
(* Requests share nothing here but the pool, so one of them is enough.     *)
(*                                                                         *)
(* A definition marked "slip" is no part of the model: it is a mistake     *)
(* that could be made in the definition it stands before.                  *)
(***************************************************************************)
EXTENDS Naturals

CONSTANTS
    Routes,      \* the routes to consider, "chat", "messages" and "responses"
    MaxFrames    \* bound: frames the upstream sends in one answer

ASSUME RoutesAreKnown == Routes \subseteq {"chat", "messages", "responses"}
ASSUME FramesAreCounted == MaxFrames \in Nat

VARIABLES
    route,     \* which route the request is for
    stream,    \* whether the client asked for a stream
    at,        \* what the handler awaits
    try,       \* the reason of the last attempt
    sent,      \* requests really sent to the upstream
    counted,   \* recorder.attempts.attempts
    body,      \* whether an answer of the upstream holds its connection
    frames,    \* frames read from the answer
    usage,     \* whether one of them had the token counts
    finished,  \* whether [DONE] was read
    reply,     \* what the client has been sent
    gone,      \* whether the client has left, which aborts the request
    record,    \* the outcome in the request log
    charged,   \* how often token counts were charged to the key
    blamed,    \* what the account was reported to the pool for
    cause      \* the error that ended the request

asked == <<route, stream>>
attempts == <<try, sent, counted>>
answer == <<frames, usage, finished>>
vars == <<asked, at, attempts, body, answer, reply, gone, record, charged, blamed, cause>>

-----------------------------------------------------------------------------
(* Recording, failing *)

\* finish(): "later calls are ignored"
Recorded(status) == record' = IF record = "none" THEN status ELSE record

\* slip: nobody asks whether the client has left
StatusByError(error) == IF error = "abort" THEN "aborted" ELSE "failed"
\* the status of an error: the chat route maps the error itself, the others ask
\* whether the client has left
StatusOf(error) ==
    IF error = "abort" \/ (gone /\ route # "chat") THEN "aborted" ELSE "failed"

\* An error event after a commitment waits for the client to take it in messages.ts.
Farewell ==
    /\ route = "messages" /\ reply = "open" /\ ~gone
    /\ at' = "farewell"
    /\ UNCHANGED reply

\* slip: no error event in a reply that has begun
Silent ==
    /\ at' = "over"
    /\ reply' = IF gone \/ reply = "open" THEN reply ELSE "error"
Apologised ==
    /\ at' = "over"
    /\ reply' = IF gone THEN reply ELSE "error"

\* The route's catch block.  The generator of parseStream has been closed by then,
\* or never started, and has cancelled the body.
Throw(error) ==
    /\ cause' = error
    /\ body' = "none"
    /\ Recorded(StatusOf(error))
    /\ Farewell \/ Apologised
    /\ UNCHANGED <<asked, attempts, gone>>

Fails(error) == Throw(error) /\ UNCHANGED <<answer, charged, blamed>>

-----------------------------------------------------------------------------
(* The arrival *)

Init ==
    /\ route \in Routes
    /\ stream \in BOOLEAN
    /\ at = "arrived"
    /\ try = "first" /\ sent = 0 /\ counted = 1
    /\ body = "none"
    /\ frames = 0 /\ usage = FALSE /\ finished = FALSE
    /\ reply = "none"
    /\ gone = FALSE
    /\ record = "none"
    /\ charged = 0
    /\ blamed = "nothing"
    /\ cause = "none"

\* A bad key or one over its limits (the hook), an invalid body, an unknown model.
\* (A body that is not JSON never gets to the route, and leaves no record.)
Reject ==
    /\ at = "arrived"
    /\ Recorded("rejected")
    /\ reply' = "error"
    /\ at' = "over"
    /\ UNCHANGED <<asked, attempts, body, answer, gone, charged, blamed, cause>>

\* a chat stream has its status before anything is known of the upstream
Accept ==
    /\ at = "arrived"
    /\ at' = "credential"
    /\ reply' = IF route = "chat" /\ stream THEN "open" ELSE reply
    /\ UNCHANGED <<asked, attempts, body, answer, gone, record, charged, blamed, cause>>

\* reply.raw closes before it was ended
Leave ==
    /\ at \notin {"arrived", "over"}
    /\ ~gone
    /\ gone' = TRUE
    /\ UNCHANGED <<asked, at, attempts, body, answer, reply, record, charged, blamed, cause>>

-----------------------------------------------------------------------------
(* Attempts *)

\* attempt(): with an aborted signal nothing is sent
Attempt(reason) ==
    /\ at' = "headers"
    /\ try' = reason
    /\ sent' = IF gone THEN sent ELSE sent + 1
    /\ counted' = counted + 1
    /\ UNCHANGED <<asked, body, answer, reply, gone, record, charged, blamed, cause>>

Lent == at = "credential" /\ Attempt("first")
NoAccount == at = "credential" /\ Fails("account")

\* the fetch is rejected
Unanswered ==
    /\ at = "headers"
    /\ IF gone THEN Fails("abort") ELSE Fails("budget") \/ Fails("network")

\* slip: the answer is not cancelled
HeldFor(next, reason) ==
    /\ at' = next
    /\ try' = reason
    /\ body' = "open"
    /\ UNCHANGED <<asked, sent, counted, answer, reply, gone, record, charged, blamed, cause>>
\* an answer that is cancelled before the next attempt
CancelledFor(next, reason) ==
    /\ at' = next
    /\ try' = reason
    /\ body' = "none"
    /\ UNCHANGED <<asked, sent, counted, answer, reply, gone, record, charged, blamed, cause>>

\* the answer is an error whose text is read
Refused(reported) ==
    /\ at' = "reason"
    /\ body' = "open"
    /\ blamed' = reported
    /\ UNCHANGED <<asked, attempts, answer, reply, gone, record, charged, cause>>

\* a 401 or 403 with an HTML page, then the same again
EdgePage ==
    \/ try = "first" /\ CancelledFor("pause", "html")
    \/ try = "html" /\ Fails("edge")
    \/ try = "fresh" /\ Refused("html")
    \/ try = "gateway" /\ Refused(blamed)

Unauthorized ==
    \/ try \in {"first", "html"} /\ CancelledFor("refresh", try)
    \/ try = "fresh" /\ Refused("token")
    \/ try = "gateway" /\ Refused(blamed)

Forbidden == IF try = "gateway" THEN Refused(blamed) ELSE Refused("token")

\* 502, 503 or 504
GatewayError ==
    \/ try # "gateway" /\ CancelledFor("pause", "gateway")
    \/ try = "gateway" /\ Refused(blamed)

OtherError == Refused(blamed)

\* a 200; the listener for the abort is added and the first read begins
Opened ==
    /\ at' = "frame"
    /\ body' = "open"
    /\ UNCHANGED <<asked, attempts, answer, reply, gone, record, charged, blamed, cause>>

Answered ==
    /\ at = "headers" /\ ~gone
    /\ EdgePage \/ Unauthorized \/ Forbidden \/ GatewayError \/ OtherError \/ Opened

\* abortableDelay
PauseEnds ==
    /\ at = "pause"
    /\ IF gone THEN Fails("abort") ELSE Attempt(try)

Refreshed == at = "refresh" /\ Attempt("fresh")
RefreshFails == at = "refresh" /\ Fails("refused")

\* res.text(), which may fail as well as end
ReasonRead == at = "reason" /\ Fails("refused")

-----------------------------------------------------------------------------
(* The stream *)

\* slip: one more attempt when the stream breaks
Reopened ==
    /\ at = "frame" /\ ~gone
    /\ Attempt("gateway")
\* The read is rejected: silence for too long, a broken connection, or the signal
\* of the attempt, which goes on bounding the body.
Broken ==
    /\ at = "frame" /\ ~gone
    /\ Fails("idle") \/ Fails("network") \/ Fails("budget")

\* a frame that is not JSON, or that the route's builder refuses
Garbage == at = "frame" /\ ~gone /\ Fails("protocol")

\* a chat stream charges and records when it sees the counts
ChatCharge(counts) ==
    IF counts /\ route = "chat" /\ stream
    THEN charged' = charged + 1 /\ Recorded("ok")
    ELSE UNCHANGED <<charged, record>>

\* A frame is handed to the route, which writes what it makes of it; messages.ts
\* waits when the client does not take it.  The counts come in one frame.
Frame(counts) ==
    /\ at = "frame" /\ ~gone
    /\ frames < MaxFrames
    /\ counts => ~usage
    /\ frames' = frames + 1
    /\ usage' = (usage \/ counts)
    /\ ChatCharge(counts)
    /\ reply' = IF stream THEN "open" ELSE reply
    /\ \/ at' = "frame"
       \/ route = "messages" /\ stream /\ at' = "drain"
    /\ UNCHANGED <<asked, attempts, body, finished, gone, blamed, cause>>

\* counts that were left in the parser's buffer
Flushed ==
    /\ ~usage
    /\ usage' = TRUE
    /\ charged' = IF route = "chat" /\ stream THEN charged + 1 ELSE charged
    /\ Recorded(IF route = "chat" /\ stream THEN "ok" ELSE "aborted")
    /\ cause' = "abort"
    /\ body' = "none"
    /\ at' = "over"
    /\ UNCHANGED <<asked, attempts, frames, finished, reply, gone, blamed>>

\* The listener has cancelled the reader.  What is left in the buffer is handed to
\* the route before the abort is noticed; it may not be JSON.
ReadCancelled ==
    /\ at = "frame" /\ gone
    /\ Fails("abort") \/ Fails("protocol") \/ Flushed

-----------------------------------------------------------------------------
(* The end *)

\* slip: charged whatever was charged before
ChargedAgain == IF usage THEN charged + 1 ELSE charged
\* the counts are charged when the answer is complete, except in a chat stream
ChargedAtEnd ==
    IF usage /\ ~(route = "chat" /\ stream) THEN charged + 1 ELSE charged

Completed ==
    /\ charged' = ChargedAtEnd
    /\ Recorded("ok")
    /\ reply' = "complete"
    /\ at' = "over"

\* the builder has what it needs for an answer
Buildable ==
    CASE route = "messages" -> usage
      [] route = "chat" /\ stream -> TRUE
      [] OTHER -> frames > 0

\* The generator has returned.  The builder may find a tool call incomplete.
\* messages.ts may have to wait for the client before it has written the last event.
Concluded ==
    \/ Throw("protocol") /\ ~(route = "chat" /\ stream) /\ UNCHANGED <<charged, blamed>>
    \/ /\ Buildable
       /\ body' = "none"
       /\ \/ Completed
          \/ /\ route = "messages" /\ stream
             /\ at' = "closing"
             /\ UNCHANGED <<reply, record, charged>>
       /\ UNCHANGED <<asked, attempts, gone, blamed, cause>>

Done ==
    /\ at = "frame" /\ ~gone
    /\ finished' = TRUE
    /\ UNCHANGED <<frames, usage>>
    /\ Concluded

\* slip: every route takes the end of the body for the end of the answer
EndTolerated ==
    /\ at = "frame" /\ ~gone
    /\ UNCHANGED answer
    /\ Concluded
\* the body ends without [DONE]
EndOfBody ==
    /\ at = "frame" /\ ~gone
    /\ IF route = "chat" THEN UNCHANGED answer /\ Concluded ELSE Fails("protocol")

-----------------------------------------------------------------------------
(* Waiting for the client: once(reply.raw, 'drain') *)

Waiting == at \in {"drain", "closing", "farewell"}

Drained ==
    /\ ~gone
    /\ \/ /\ at = "drain"
          /\ at' = "frame"
          /\ UNCHANGED <<reply, record, charged>>
       \/ at = "closing" /\ Completed
       \/ at = "farewell" /\ Apologised /\ UNCHANGED <<record, charged>>
    /\ UNCHANGED <<asked, attempts, body, answer, gone, blamed, cause>>

\* slip: the wait does not listen to the signal
WaitsOn == FALSE
\* the wait is aborted
DrainAborted ==
    /\ gone
    /\ \/ at \in {"drain", "closing"} /\ Fails("abort")
       \/ /\ at = "farewell"
          /\ at' = "over"
          /\ UNCHANGED <<asked, attempts, body, answer, reply, gone, record, charged, blamed, cause>>

-----------------------------------------------------------------------------

Gateway ==
    \/ Reject \/ Accept
    \/ Lent \/ NoAccount \/ Unanswered \/ Answered
    \/ PauseEnds \/ Refreshed \/ RefreshFails \/ ReasonRead
    \/ Broken \/ Garbage \/ (\E counts \in BOOLEAN : Frame(counts)) \/ ReadCancelled
    \/ Done \/ EndOfBody \/ DrainAborted

Next == Gateway \/ Leave \/ Drained

Spec == Init /\ [][Next]_vars

\* Each wait for the upstream has a timeout, the pool answers, timers fire.
FairSpec == Spec /\ WF_vars(Gateway)

-----------------------------------------------------------------------------
(* Properties *)

\* The types.  A request is sent upstream at most four times.
TypeOK ==
    /\ route \in Routes
    /\ stream \in BOOLEAN
    /\ at \in {"arrived", "credential", "headers", "pause", "refresh", "reason",
               "frame", "drain", "closing", "farewell", "over"}
    /\ try \in {"first", "html", "fresh", "gateway"}
    /\ sent \in 0 .. 4
    /\ counted \in 1 .. 5
    /\ body \in {"none", "open"}
    /\ frames \in 0 .. MaxFrames
    /\ usage \in BOOLEAN /\ finished \in BOOLEAN
    /\ reply \in {"none", "open", "complete", "error"}
    /\ gone \in BOOLEAN
    /\ record \in {"none", "rejected", "ok", "failed", "aborted"}
    /\ charged \in Nat
    /\ blamed \in {"nothing", "token", "html"}
    /\ cause \in {"none", "account", "abort", "budget", "idle", "network",
                  "protocol", "refused", "edge"}

\* No request leaves without its row in the log ("a single place that decides what
\* a request record looks like"), and the row of messages.ts and responses.ts says
\* what happened: success only after [DONE], with everything delivered to a client
\* that was there; that the client left only if it did.
RecordTellsTheOutcome ==
    /\ at = "over" => record # "none"
    /\ record = "ok" /\ route # "chat" => finished /\ reply = "complete"
    /\ record = "aborted" => gone
    /\ reply = "complete" => record = "ok"

\* A client that left is never counted as a failure of the upstream by messages.ts
\* and responses.ts, whatever the request was waiting for.
LeavingIsNoFailure ==
    [][gone /\ record = "none" /\ record' # "none" /\ route # "chat"
        => record' = "aborted"]_vars

\* Whatever the path through four attempts, the answer of one is let go before the
\* next begins, and none holds its connection when the request is over.
ConnectionsAreReleased ==
    body = "open" => at \in {"reason", "frame", "drain"}

\* "Never retry a 200 response": nothing is sent again once a stream was opened,
\* for the client or for an answer put together here.
NothingIsReplayed ==
    [][sent' # sent => at # "frame" /\ frames = 0]_vars

\* The tokens of an answer are charged once, whatever way the routes keep that, and
\* a request recorded as anything but a success is not charged.
ChargedOnce ==
    at = "over" => charged = IF usage /\ record = "ok" THEN 1 ELSE 0

\* A client that stays is told how its request ended.
ClientLearns == at = "over" /\ ~gone => reply \in {"complete", "error"}

\* Every request ends, or waits for its client to read or to leave.
RequestsEnd == <>[](at = "over" \/ (Waiting /\ ~gone))

\* "Connect+first-byte budget for the upstream request" (client.ts:49).
BudgetEndsWithFirstByte == cause = "budget" => frames = 0

\* "if HTML persists, surface it as a transient upstream gateway failure and never
\* quarantine the account" (client.ts:125-126).
HtmlNeverBlames == blamed # "html"

\* "Upstream HTTP attempts made (including retries)" (client.ts:39).
AttemptsAreCounted == at = "over" /\ ~gone /\ sent > 0 => counted = sent

=============================================================================
