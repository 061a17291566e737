----------------------------- MODULE SseParser -----------------------------
(***************************************************************************)
(* The answer of the upstream as text (src/src/workbuddy/stream-parser.ts):*)
(* the network cuts it anywhere, the parser makes frames of it.  A text is *)
(* a sequence of tokens: "data" is `data:`, "colon" `:`, "done" `[DONE]`,  *)
(* and the two halves of a line end.  Inside a line the tokens are text    *)
(* like any other.                                                         *)
(***************************************************************************)
EXTENDS Naturals, Sequences, SequencesExt

VARIABLES
    coming,     \* what the network has and has not handed over
    received,   \* ghost: the text handed over
    buffer,     \* this.buffer
    frames,     \* the frames the parser has returned
    closed      \* the stream has ended

parserVars == <<coming, received, buffer, frames, closed>>

LineEnds == {"cr", "lf"}
Tokens == {"data", "colon", "done"} \cup LineEnds

ParserInit ==
    /\ coming = <<>> /\ received = <<>> /\ buffer = <<>>
    /\ frames = <<>> /\ closed = FALSE

-----------------------------------------------------------------------------
(* push, flush *)

\* the texts that frameBoundary looks for; the earliest wins, of two the shorter
Blanks == {<<"lf", "lf">>, <<"cr", "lf", "cr", "lf">>, <<"lf", "cr">>,
           <<"cr", "lf", "lf">>, <<"lf", "cr", "lf">>}
Boundaries(s) ==
    {b \in (1 .. Len(s)) \X (2 .. 4) :
        /\ b[1] + b[2] <= Len(s) + 1
        /\ SubSeq(s, b[1], b[1] + b[2] - 1) \in Blanks}

\* slip: the first in the order of the candidates, unsorted
AnyBoundary(s) ==
    IF \E b \in Boundaries(s) : SubSeq(s, b[1], b[1] + b[2] - 1) = <<"lf", "lf">>
    THEN CHOOSE b \in Boundaries(s) : SubSeq(s, b[1], b[1] + b[2] - 1) = <<"lf", "lf">>
    ELSE CHOOSE b \in Boundaries(s) : TRUE
FrameBoundary(s) ==
    CHOOSE b \in Boundaries(s) :
        \A c \in Boundaries(s) : b[1] < c[1] \/ (b[1] = c[1] /\ b[2] <= c[2])

\* a line feed and a carriage return each end a line; of both that leaves an empty
\* line more, which counts for nothing
Cut(lines, t) ==
    IF t \in LineEnds THEN Append(lines, <<>>)
    ELSE [lines EXCEPT ![Len(lines)] = Append(@, t)]
Lines(block) == FoldLeft(Cut, << <<>> >>, block)

\* what the data lines say, and these joined by line feeds
TakeData(data, line) ==
    IF line # <<>> /\ Head(line) = "data" THEN Append(data, Tail(line)) ELSE data
DataOf(lines) == FoldLeft(TakeData, <<>>, lines)
Join(data) ==
    FoldLeft(LAMBDA text, line : text \o <<"lf">> \o line, Head(data), Tail(data))
Frame(payload) == IF payload = <<"done">> THEN [kind |-> "done", json |-> <<>>]
                  ELSE [kind |-> "data", json |-> payload]

\* at most one frame of a block; the text of a comment has no reader
Comment == [kind |-> "comment", json |-> <<>>]
ParseBlock(block) ==
    LET lines == Lines(block)
    IN  IF DataOf(lines) # <<>> THEN <<Frame(Join(DataOf(lines)))>>
        ELSE IF \E i \in DOMAIN lines : lines[i] # <<>> /\ Head(lines[i]) = "colon"
        THEN <<Comment>>
        ELSE <<>>

\* the loop of push: a frame takes two tokens or more, so every token may be one turn
NextFrame(p) ==
    LET b == FrameBoundary(p.rest)
    IN  IF Boundaries(p.rest) = {} THEN p
        ELSE [rest |-> SubSeq(p.rest, b[1] + b[2], Len(p.rest)),
              frames |-> p.frames \o ParseBlock(SubSeq(p.rest, 1, b[1] - 1))]
Parsed(s) ==
    FoldLeft(LAMBDA p, t : NextFrame(p), [rest |-> s, frames |-> <<>>], s)

\* push
Push ==
    /\ coming # <<>>
    /\ LET p == Parsed(buffer \o coming)
       IN  buffer' = p.rest /\ frames' = frames \o p.frames
    /\ received' = received \o coming
    /\ coming' = <<>>
    /\ UNCHANGED closed

\* flush, at the end of the body; a block of line ends is nothing
Flush ==
    /\ ~closed /\ coming = <<>> /\ received # <<>>
    /\ closed' = TRUE
    /\ frames' = frames \o ParseBlock(buffer)
    /\ buffer' = <<>>
    /\ UNCHANGED <<coming, received>>

\* the upstream sends some more.  A carriage return alone ends a line, but two
\* of them are no boundary for the parser, and are not sent.
Send(t) ==
    /\ ~closed
    /\ ~(t = "cr" /\ received \o coming # <<>> /\ Last(received \o coming) = "cr")
    /\ coming' = Append(coming, t)
    /\ UNCHANGED <<received, buffer, frames, closed>>

-----------------------------------------------------------------------------
(* Property *)

\* The events of a text as the standard has them, token by token: a line ends at
\* a line feed, a carriage return or both, and an empty line dispatches the data
\* lines before it.
Start == [line |-> <<>>, data |-> <<>>, cr |-> FALSE, events |-> <<>>]
EndOfLine(s) ==
    IF s.line # <<>> THEN [s EXCEPT !.line = <<>>, !.data = TakeData(@, s.line)]
    ELSE [s EXCEPT !.data = <<>>,
                   !.events = IF s.data = <<>> THEN @ ELSE Append(@, Frame(Join(s.data)))]
Dispatch(s, t) ==
    IF t \notin LineEnds THEN [s EXCEPT !.line = Append(@, t), !.cr = FALSE]
    ELSE IF t = "lf" /\ s.cr THEN [s EXCEPT !.cr = FALSE]
    ELSE [EndOfLine(s) EXCEPT !.cr = (t = "cr")]
Events(s) == FoldLeft(Dispatch, Start, s).events
\* at the end what is left is an event too, with or without its line end
EventsAtEnd(s) ==
    LET end == FoldLeft(Dispatch, Start, s)
        whole == IF end.line = <<>> THEN end ELSE EndOfLine(end)
    IN  EndOfLine(whole).events

\* comments are for nobody
Said(fs) ==
    FoldLeft(LAMBDA said, f : IF f = Comment THEN said ELSE Append(said, f), <<>>, fs)

\* "The parser is independent of network chunk sizes" (stream-parser.ts:3): after
\* every chunk, wherever the text was cut, within a line end or a run of them, the
\* frames are the events of the text so far, none is missing, doubled, glued to
\* another, or held back until the next chunk.
FramesAreTheEvents ==
    Said(frames)
        = IF closed THEN EventsAtEnd(received) ELSE Events(received)
=============================================================================
