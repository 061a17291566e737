------------------------------ MODULE Builders ------------------------------
(***************************************************************************)
(* An answer of the upstream, chunk by chunk, in the three dialects of the *)
(* clients: chat completions (openai/response-builder.ts, tool-calls.ts),  *)
(* messages (anthropic/response-builder.ts) and responses                  *)
(* (openai/responses-builder.ts, routes/responses.ts), each both streamed  *)
(* and in one piece.                                                       *)
(*                                                                         *)
(* A chunk is [text, calls, finish, usage]: text a sequence of at most one *)
(* piece, calls a sequence of frames [index, id, name, args], a frame a    *)
(* part of one tool call, its id "" and its pieces <<>> where it has none. *)
(* A piece of arguments is "{", "}" or "1".  A builder is a record; an     *)
(* error of the upstream's protocol sets its field `failed`.               *)
(***************************************************************************)
EXTENDS Integers, Sequences, SequencesExt

MaxToolIndex == 1024
ValidIndex(i) == i \in 0 .. MaxToolIndex    \* normalizeIndex

Stops == {"stop", "length", "tool_calls", "content_filter"}

\* JSON.parse of the pieces of the arguments
IsObject(args) == args = <<"{", "}">>
IsJson(args) == IsObject(args) \/ args = <<"1">>
\* arguments that never came are an empty object
OrEmpty(args) == IF args = <<>> THEN <<"{", "}">> ELSE args

Shell(f) == f.id = "" /\ f.name = <<>> /\ f.args = <<>>

Fail(b) == [b EXCEPT !.failed = TRUE]

(* Maps from index to tool call are sequences in the order of insertion. *)
NoCall == [index |-> -1, id |-> "", name |-> <<>>, args |-> <<>>, block |-> 0]
Has(calls, i) == \E k \in DOMAIN calls : calls[k].index = i
Get(calls, i) ==
    IF Has(calls, i) THEN calls[CHOOSE k \in DOMAIN calls : calls[k].index = i]
    ELSE [NoCall EXCEPT !.index = i]
Put(calls, c) ==
    IF Has(calls, c.index)
    THEN [k \in DOMAIN calls |-> IF calls[k].index = c.index THEN c ELSE calls[k]]
    ELSE Append(calls, c)
\* by their indices, which differ
Rank(calls, k) == Cardinality({j \in DOMAIN calls : calls[j].index <= calls[k].index})
Sorted(calls) ==
    [n \in DOMAIN calls |-> calls[CHOOSE k \in DOMAIN calls : Rank(calls, k) = n]]
Ids(calls) == {calls[k].id : k \in DOMAIN calls}
\* slip: nobody looks at the ids
MayRepeat(calls) == TRUE
Distinct(calls) == Cardinality(Ids(calls)) = Len(calls)
Call(c) == [id |-> c.id, name |-> c.name, args |-> c.args]
Answer(text, calls, stop) ==
    [text |-> text, calls |-> [k \in DOMAIN calls |-> Call(calls[k])], stop |-> stop]

-----------------------------------------------------------------------------
(* Chat completions *)

\* b: the CompletionAggregator; its fields with an s are what a streaming client
\* has put together
ChatStart ==
    [text |-> <<>>, calls |-> <<>>, finish |-> "", failed |-> FALSE,
     sText |-> <<>>, sCalls |-> <<>>, sFinish |-> ""]

SameId(c, f) == f.id = "" \/ c.id \in {"", f.id}

\* ToolAccumulator.push, for one frame.  A name that comes after arguments have
\* begun is dropped, also when there is none yet.
Accumulate(b, f) ==
    LET c == Get(b.calls, f.index)
    IN  IF b.failed \/ ~ValidIndex(f.index) \/ ~SameId(c, f) THEN Fail(b)
        ELSE [b EXCEPT !.calls = Put(@,
                 [c EXCEPT !.id = IF f.id = "" THEN @ ELSE f.id,
                           !.name = IF c.args = <<>> THEN @ \o f.name ELSE @,
                           !.args = @ \o f.args])]

\* slip: a frame with an id goes out without its arguments, as in deltasFor
NoArguments(f) == IF f.id # "" THEN [f EXCEPT !.args = <<>>] ELSE [f EXCEPT !.name = <<>>]
\* openAiToolCallDeltas: a frame with an id goes out whole, of another one only
\* the arguments; shells are dropped
Delta(f) == IF f.id # "" THEN f ELSE [f EXCEPT !.name = <<>>]
\* the client: a call begins with its first delta and grows with the others
Received(calls, f) ==
    LET c == Get(calls, f.index)
        d == Delta(f)
    IN  IF Shell(f) THEN calls
        ELSE Put(calls, [c EXCEPT !.id = IF d.id = "" THEN @ ELSE d.id,
                                  !.name = @ \o d.name, !.args = @ \o d.args])

ChatPush(b, c) ==
    LET done == FoldLeft(Accumulate, [b EXCEPT !.text = @ \o c.text], c.calls)
        sent == [done EXCEPT !.sText = @ \o c.text,
                             !.sCalls = FoldLeft(Received, @, c.calls)]
    IN  IF c.finish \notin Stops \cup {""} THEN Fail(b)
        ELSE IF c.finish = "" THEN sent
        ELSE [sent EXCEPT !.finish = c.finish, !.sFinish = c.finish]

\* assembled
Assembles(b) ==
    /\ \A k \in DOMAIN b.calls :
          b.calls[k].id # "" /\ b.calls[k].name # <<>> /\ IsObject(OrEmpty(b.calls[k].args))
    /\ Distinct(b.calls)
ChatSucceeds(b) == ~b.failed /\ Assembles(b)
\* build; where the upstream sent none it invents a stop reason, and empty arguments
ChatAnswer(b) ==
    LET calls == [k \in DOMAIN b.calls |-> [b.calls[k] EXCEPT !.args = OrEmpty(@)]]
        stop == IF b.finish # "" THEN b.finish
                ELSE IF calls # <<>> THEN "tool_calls" ELSE "stop"
    IN  Answer(b.text, Sorted(calls), stop)
\* what a streaming client has: what the upstream sent, and nothing made up
ChatStreamed(b) == Answer(b.sText, Sorted(b.sCalls), b.sFinish)

-----------------------------------------------------------------------------
(* Messages *)

\* b: the MessagesResponseBuilder, block numbers from 1 and 0 for none; `view`
\* is what a streaming client has made of the events, FALSE in `sane` if an event
\* made no sense
MessagesStart ==
    [blocks |-> <<>>, calls |-> <<>>, textBlock |-> 0, reason |-> "", tokens |-> FALSE,
     failed |-> FALSE, finished |-> FALSE, view |-> <<>>, sane |-> TRUE]

Block(id, name, data) == [id |-> id, name |-> name, data |-> data]
\* block n of a list with more data
More(blocks, n, data) == [blocks EXCEPT ![n] = Block(@.id, @.name, @.data \o data)]

\* content_block_start, content_block_delta and all the content_block_stop
StartBlock(b, block) ==
    [b EXCEPT !.blocks = Append(@, block), !.view = Append(@, [block EXCEPT !.data = <<>>])]
SendDelta(b, n, data) ==
    IF n \in DOMAIN b.view THEN [b EXCEPT !.view = More(@, n, data)]
    ELSE [b EXCEPT !.sane = FALSE]

\* the text of a chunk goes to the one text block
MessagesText(b, c) ==
    LET opened == IF b.textBlock # 0 THEN b
                  ELSE [StartBlock(b, Block("", <<>>, <<>>)) EXCEPT !.textBlock = Len(b.blocks) + 1]
        n == opened.textBlock
    IN  IF c.text = <<>> THEN b
        ELSE IF b.reason # "" THEN Fail(b)
        ELSE SendDelta([opened EXCEPT !.blocks = More(@, n, c.text)], n, c.text)

\* slip: only the arguments of this frame
LastDelta(call, f) == f.args
\* the first delta of a block has all the arguments so far
SoFar(call, f) == call.args

\* one frame: the block of a call starts with the first arguments after its id
\* and name are known
MessagesCall(b, f) ==
    LET old == Get(b.calls, f.index)
        named == [old EXCEPT !.id = IF f.id = "" THEN @ ELSE f.id,
                             !.name = IF old.block = 0 THEN @ \o f.name ELSE @,
                             !.args = @ \o f.args]
        starts == old.block = 0 /\ named.id # "" /\ named.name # <<>> /\ f.args # <<>>
        call == IF starts THEN [named EXCEPT !.block = Len(b.blocks) + 1] ELSE named
        kept == [b EXCEPT !.calls = Put(@, call)]
    IN  IF b.failed \/ ~ValidIndex(f.index) THEN Fail(b)
        ELSE IF Shell(f) THEN b
        ELSE IF ~SameId(old, f) \/ (old.block # 0 /\ f.name \notin {<<>>, old.name}) THEN Fail(b)
        ELSE IF starts
        THEN SendDelta(StartBlock(kept, Block(call.id, call.name, <<>>)), call.block, SoFar(call, f))
        ELSE IF call.block # 0 THEN SendDelta(kept, call.block, f.args)
        ELSE kept

MessagesPush(b, c) ==
    LET done == FoldLeft(MessagesCall, MessagesText(b, c), c.calls)
    IN  IF c.usage = "bad" \/ c.finish \notin Stops \cup {""} \/ done.failed THEN Fail(b)
        ELSE [done EXCEPT !.reason = IF c.finish = "" THEN @ ELSE c.finish,
                          !.tokens = @ \/ c.usage = "ok"]

\* a call that has no block yet gets one at the end
Conclude(b, call) ==
    LET n == IF call.block = 0 THEN Len(b.blocks) + 1 ELSE call.block
        begun == IF call.block # 0 THEN b
                 ELSE SendDelta(StartBlock(b, Block(call.id, call.name, <<>>)), n, OrEmpty(call.args))
        filled == [begun.blocks EXCEPT ![n] = Block(@.id, @.name, OrEmpty(call.args))]
    IN  [begun EXCEPT !.blocks = filled]

\* finish
MessagesSucceeds(b) ==
    /\ ~b.failed /\ b.reason # "" /\ b.tokens
    /\ b.reason = "tool_calls" => b.calls # <<>>
    /\ Assembles(b)
MessagesFinish(b) == [FoldLeft(Conclude, b, b.calls) EXCEPT !.finished = TRUE]

-----------------------------------------------------------------------------
(* Responses *)

\* b: the ResponsesBuilder; `opened` the map toolIds of the stream with its flag
\* textStarted; `items` what a client has put together, which appends an item when
\* it is added and finds it by its output index
ResponsesStart ==
    [text |-> <<>>, calls |-> <<>>, finish |-> "", failed |-> FALSE,
     textStarted |-> FALSE, opened |-> <<>>, items |-> <<>>, sane |-> TRUE]

AddItem(b, out, item) ==
    IF out = Len(b.items) THEN [b EXCEPT !.items = Append(@, item)]
    ELSE [b EXCEPT !.sane = FALSE]
Extend(b, out, id, data) ==
    IF out + 1 \in DOMAIN b.items /\ b.items[out + 1].id = id
    THEN [b EXCEPT !.items = More(@, out + 1, data)]
    ELSE [b EXCEPT !.sane = FALSE]

ResponsesText(b, c) ==
    LET begun == IF b.textStarted THEN b
                 ELSE [AddItem(b, 0, Block("", <<>>, <<>>)) EXCEPT !.textStarted = TRUE]
    IN  IF c.text = <<>> THEN b
        ELSE Extend([begun EXCEPT !.text = @ \o c.text], 0, "", c.text)

OutputIndex(b, f) == (IF b.textStarted THEN 1 ELSE 0) + f.index

\* builder.push and emitChunk, for one frame; the item keeps the id it began with
ResponsesCall(b, f) ==
    LET c == Get(b.calls, f.index)
        known == [c EXCEPT !.id = IF f.id = "" THEN @ ELSE f.id,
                           !.name = @ \o f.name, !.args = @ \o f.args]
        o == Get(b.opened, f.index)
        kept == [b EXCEPT !.calls = Put(@, known)]
        open == IF Has(b.opened, f.index) THEN kept
                ELSE AddItem([kept EXCEPT !.opened = Put(@, [o EXCEPT !.id = f.id])],
                             OutputIndex(b, f), Block(f.id, f.name, <<>>))
    IN  IF f.args = <<>> THEN open
        ELSE Extend(open, OutputIndex(b, f), Get(open.opened, f.index).id, f.args)

ResponsesPush(b, c) ==
    LET done == FoldLeft(ResponsesCall, ResponsesText(b, c), c.calls)
    IN  IF c.finish = "" THEN done ELSE [done EXCEPT !.finish = c.finish]

\* build; ids may repeat, and arguments must have come
ResponsesSucceeds(b) ==
    /\ b.finish # ""
    /\ \A k \in DOMAIN b.calls :
          b.calls[k].id # "" /\ b.calls[k].name # <<>> /\ IsJson(b.calls[k].args)
=============================================================================
