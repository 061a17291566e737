------------------------------ MODULE Exchange ------------------------------
(***************************************************************************)
(* Exchanges of a client and the upstream, as the gateway translates them: *)
(* the conversation goes up through the mapper of the route, the answer    *)
(* comes back chunk by chunk through its builder, and the client returns   *)
(* it with the results of its tool calls in the next request.  Beside that *)
(* the parser makes frames of a text; a data frame is the JSON of a chunk. *)
(*                                                                         *)
(* The three parts are long in different ways, so a run takes one of the   *)
(* bounds of Bounds: a long text, a long answer or a long conversation.    *)
(***************************************************************************)
EXTENDS SseParser, Builders, Mappers

CONSTANTS
    CallIds,    \* ids of tool calls
    Chunks,     \* what the upstream may send, see Builders
    Bounds      \* bounds: records of routes, text, tokens, chunks,
                \* messages, parts, roles and words

Routes == {"chat", "messages", "responses"}

\* what the upstream may send, see Builders
AnyId == CallIds \cup {""}
CallFrame == [index : Int, id : AnyId, name : Seq(STRING), args : Seq({"{", "}", "1"})]
UpstreamChunk ==
    [text : Seq(STRING), calls : Seq(CallFrame),
     finish : Stops \cup {"", "error"}, usage : {"", "ok", "bad"}]

ASSUME IdsAreIds == "" \notin CallIds
ASSUME ChunksAreChunks == Chunks \subseteq UpstreamChunk

VARIABLES
    bound,
    route,
    phase,          \* "asking", "answering", "answered", "failed", "refused"
    conversation,   \* of the client, see Mappers
    answer,         \* the builder, see Builders
    sent,           \* chunks of this answer
    tidy,           \* ghost: no frame but the first of a call had an id or a name
    orderly         \* ghost: the text began before the calls, these came in order

exchangeVars == <<bound, route, phase, conversation, answer, sent, tidy, orderly>>
vars == <<parserVars, exchangeVars>>

-----------------------------------------------------------------------------
(* What the client says *)

Part(kind, id) == [kind |-> kind, id |-> id]
Text == Part("text", "")
Image == Part("image", "")
Uses == {Part("use", id) : id \in CallIds}
Results == {Part("result", id) : id \in CallIds}
Message(role, parts) == [role |-> role, parts |-> parts]
OneOf(S) == {<<p>> : p \in S}
Upto(n, S) == UNION {[1 .. k -> S] : k \in 1 .. n}

ASSUME BoundsAreKnown ==
    \A b \in Bounds :
        /\ b.routes \subseteq Routes /\ b.parts \in Nat
        /\ b.words \subseteq {Text, Image} /\ b.tokens \subseteq STRING

\* the messages that the schemas let pass
MessagesSchema ==
    [role : {"user", "assistant"}, parts : Upto(bound.parts, bound.words \cup Uses \cup Results)]
ResponsesSchema ==
    [role : {"user", "assistant", "system", "developer"}, parts : OneOf(bound.words)]
    \cup [role : {"item"}, parts : OneOf(Uses \cup Results)]
ChatSchema ==
    [role : {"user", "system", "developer"}, parts : OneOf(bound.words)]
    \cup [role : {"assistant"}, parts : Upto(bound.parts, bound.words \cup Uses)]
    \cup [role : {"tool"}, parts : OneOf(Results)]
PossibleMessages ==
    CASE route = "messages" -> MessagesSchema
      [] route = "responses" -> ResponsesSchema
      [] route = "chat" -> ChatSchema
ClientMessages == {m \in PossibleMessages : m.role \in bound.roles}

Mapped(c) ==
    CASE route = "messages" -> MapMessages(c)
      [] route = "responses" -> MapItems(c)
      [] route = "chat" -> MapChat(c)

\* refused whatever may follow
Hopeless(c) ==
    CASE route = "messages" -> FoldLeft(MapMessage, MessagesBegin, c).refused
      [] route = "responses" -> FoldLeft(MapItem, MessagesBegin, c).refused
      [] route = "chat" -> FALSE

Builder ==
    CASE route = "messages" -> MessagesStart
      [] route = "responses" -> ResponsesStart
      [] route = "chat" -> ChatStart

Init ==
    /\ ParserInit
    /\ bound \in Bounds /\ route \in bound.routes
    /\ phase = "asking" /\ conversation = <<>>
    /\ answer = Builder /\ sent = 0 /\ tidy = TRUE /\ orderly = TRUE

-----------------------------------------------------------------------------
(* Actions *)

\* the client adds a message, unless the conversation can never be accepted
Say ==
    /\ phase = "asking"
    /\ Len(conversation) < bound.messages
    /\ ~Hopeless(conversation)
    /\ \E m \in ClientMessages : conversation' = Append(conversation, m)
    /\ UNCHANGED <<parserVars, bound, route, phase, answer, sent, tidy, orderly>>

\* the request is mapped and sent
Ask ==
    /\ phase = "asking" /\ bound.chunks > 0
    /\ Len(conversation) <= bound.messages
    /\ ~Mapped(conversation).refused
    /\ phase' = "answering"
    /\ answer' = Builder /\ sent' = 0 /\ tidy' = TRUE /\ orderly' = TRUE
    /\ UNCHANGED <<parserVars, bound, route, conversation>>

\* the calls that have begun before frame k of a chunk
Begun(c, k) ==
    {answer.calls[j].index : j \in DOMAIN answer.calls} \cup {c.calls[j].index : j \in 1 .. k - 1}
FirstFramesTell(c) ==
    \A k \in DOMAIN c.calls :
        c.calls[k].index \in Begun(c, k) => c.calls[k].id = "" /\ c.calls[k].name = <<>>
InOrder(c) ==
    /\ c.text # <<>> => answer.calls = <<>> \/ answer.text # <<>>
    /\ \A k \in DOMAIN c.calls :
          c.calls[k].index \in Begun(c, k) \cup {Cardinality(Begun(c, k))}

\* a chunk arrives; after an error the builder gets no more
Chunk(c) ==
    /\ phase = "answering" /\ sent < bound.chunks
    /\ ~answer.failed
    /\ sent' = sent + 1
    /\ answer' = CASE route = "messages" -> MessagesPush(answer, c)
                   [] route = "responses" -> ResponsesPush(answer, c)
                   [] route = "chat" -> ChatPush(answer, c)
    /\ tidy' = (tidy /\ (route = "messages" \/ FirstFramesTell(c)))
    /\ orderly' = (orderly /\ (route = "responses" => InOrder(c)))
    /\ UNCHANGED <<parserVars, bound, route, phase, conversation>>

Succeeds ==
    CASE route = "messages" -> MessagesSucceeds(answer)
      [] route = "responses" -> ResponsesSucceeds(answer)
      [] route = "chat" -> sent > 0 /\ ChatSucceeds(answer)

\* the stream ends: the builder makes the answer of it, or an error
End ==
    /\ phase = "answering" /\ sent > 0
    /\ phase' = IF Succeeds THEN "answered" ELSE "failed"
    /\ answer' = IF Succeeds /\ route = "messages" THEN MessagesFinish(answer) ELSE answer
    /\ UNCHANGED <<parserVars, bound, route, conversation, sent, tidy, orderly>>

\* the parts of the answer, as the client reads them
AnswerParts ==
    LET calls == [k \in DOMAIN answer.calls |-> Part("use", Sorted(answer.calls)[k].id)]
    IN  IF route = "messages"
        THEN [n \in DOMAIN answer.blocks |->
                IF answer.blocks[n].id = "" THEN Text ELSE Part("use", answer.blocks[n].id)]
        ELSE (IF answer.text = <<>> THEN <<>> ELSE <<Text>>) \o calls

\* the next turn: the answer and what its calls returned, or something new
NextTurn ==
    LET uses == OfKind(AnswerParts, "use")
        results == [k \in DOMAIN uses |-> Part("result", uses[k].id)]
        each(role, parts) == [k \in DOMAIN parts |-> Message(role, <<parts[k]>>)]
        said == Message("assistant", AnswerParts)
    IN  CASE route = "messages" ->
                <<said, Message("user", IF results = <<>> THEN <<Text>> ELSE results)>>
          [] route = "responses" -> each("assistant", AnswerParts) \o each("item", results)
          [] route = "chat" -> <<said>> \o each("tool", results)

\* The answer as given is history that the schema of its route takes, extra
\* fields and all.  Those of responses are strict and know neither id, status,
\* annotations nor logprobs, which the builder puts on its items.
TakesAsGiven == route \in {"messages", "chat"}

\* The client returns an answer that has something in it, and whose calls have
\* ids of their own: between the turns the upstream has to see to that, within
\* an answer the builders of chat and messages do.  Of responses it makes the
\* items anew, with nothing on them but what the request names.
Return ==
    LET ids == IdsOf(OfKind(AnswerParts, "use"))
    IN  /\ phase = "answered"
        /\ AnswerParts # <<>>
        /\ ToSet(ids) \cap Mapped(conversation).known = {}
        /\ route = "responses" => Cardinality(ToSet(ids)) = Len(ids)
        /\ conversation' = conversation \o NextTurn
        /\ phase' = "asking"
        /\ answer' = Builder /\ sent' = 0 /\ tidy' = TRUE /\ orderly' = TRUE
        /\ UNCHANGED <<parserVars, bound, route>>

\* it returns the items of responses as they came, and gets a 400
ReturnAsGiven ==
    /\ phase = "answered" /\ ~TakesAsGiven
    /\ AnswerParts # <<>>
    /\ phase' = "refused"
    /\ UNCHANGED <<parserVars, bound, route, conversation, answer, sent, tidy, orderly>>

\* the network, beside
Wire ==
    /\ \/ \E t \in bound.tokens : Len(received \o coming) < bound.text /\ Send(t)
       \/ Push \/ Flush
    /\ UNCHANGED exchangeVars

Next ==
    \/ \E c \in Chunks : Chunk(c)
    \/ Say \/ Ask \/ End \/ Return \/ ReturnAsGiven \/ Wire

Spec == Init /\ [][Next]_vars

-----------------------------------------------------------------------------
(* Properties *)

\* Streamed or not, the client gets the same answer, whenever the builder would
\* make one of the chunks so far ("the streaming and non-stream paths cannot drift
\* apart", openai/response-builder.ts:132).  Of messages this holds for whatever
\* the upstream sends, of responses if "upstream never repeats metadata for an
\* index after its first frame" (line 97), the text comes first and the calls in
\* order.  Of chat, under the first of these, the stream gives just what the
\* upstream sent ("Never invent ... a fallback "{}" value", line 94), and so the
\* same as the aggregate where this has nothing to invent: no stop reason and no
\* arguments.  Where it has, the two differ: ToolCallsNeverDrift.
Complete(b) == b.finish # "" /\ \A k \in DOMAIN b.calls : b.calls[k].args # <<>>
ChatAgrees ==
    tidy /\ ChatSucceeds(answer) =>
        /\ ChatStreamed(answer) = Answer(answer.text, Sorted(answer.calls), answer.finish)
        /\ Complete(answer) => ChatStreamed(answer) = ChatAnswer(answer)
MessagesAgree ==
    MessagesSucceeds(answer) =>
        LET done == IF answer.finished THEN answer ELSE MessagesFinish(answer)
        IN  done.sane /\ done.view = done.blocks
ResponsesAgree ==
    tidy /\ orderly /\ ResponsesSucceeds(answer) =>
        /\ answer.sane
        /\ answer.items =
              (IF answer.text = <<>> THEN <<>> ELSE <<Block("", <<>>, answer.text)>>)
              \o [k \in DOMAIN answer.calls |->
                    LET c == Sorted(answer.calls)[k] IN Block(c.id, c.name, c.args)]
StreamsAgree ==
    CASE route = "messages" -> MessagesAgree
      [] route = "responses" -> ResponsesAgree
      [] route = "chat" -> ChatAgrees

\* An accepted request is one the upstream can take: a system message leads it
\* (the upstream answers 11128 otherwise), of messages and responses a result names
\* a call made before it, and of messages every call is answered, once, before
\* anything else is said.
\* The upstream's rule is stated on the mapped messages, the code checks the
\* client's, parts and all.
Take(s, m) ==
    IF m.answers # ""
    THEN [ok |-> s.ok /\ m.answers \in s.made,
          made |-> s.made,
          prompt |-> s.prompt /\ m.answers \in s.open, open |-> s.open \ {m.answers}]
    ELSE [ok |-> s.ok, made |-> s.made \cup ToSet(m.calls),
          prompt |-> s.prompt /\ s.open = {}, open |-> ToSet(m.calls)]
Taken(out) ==
    FoldLeft(Take, [ok |-> TRUE, made |-> {}, prompt |-> TRUE, open |-> {}], out)
RequestsAreSound ==
    LET request == Mapped(conversation)
        taken == Taken(request.out)
    IN  ~request.refused =>
           /\ Head(request.out).role = "system"
           /\ route # "chat" => taken.ok
           /\ route = "messages" => taken.prompt /\ taken.open = {}

\* The gateway's answers are history that it, and the upstream, can take: once the
\* client has returned one with the results of all of its calls, in any number and
\* order of blocks, the next request is not refused.  The mapper of chat refuses
\* nothing, so there the turn must be one the upstream takes: every call has an id
\* of its own, and its one result.  Of messages and chat this is the answer as it
\* was given (of chat in one piece: nobody looks at the ids of a stream), of
\* responses only what the client makes of it, see Return.
TurnIsSound ==
    LET taken == Taken(Mapped(NextTurn).out)
    IN  taken.ok /\ taken.prompt /\ taken.open = {}
AnswersCanBeReturned ==
    [][Return => IF route = "chat" THEN TurnIsSound ELSE ~Mapped(conversation').refused]_vars

\* Not so: "Keeping one accumulator and one emitted shape, and asserting in tests
\* that streaming and aggregation agree, makes that class of drift impossible"
\* (openai/tool-calls.ts:18-20).  The tool calls of a chat answer that has ended are
\* not the same streamed and not if one has no arguments: the aggregate gives it the
\* arguments {} (line 127), the stream none.
ToolCallsNeverDrift ==
    route = "chat" /\ phase = "answered" /\ tidy =>
        ChatStreamed(answer).calls = ChatAnswer(answer).calls
=============================================================================
