------------------------------ MODULE Mappers ------------------------------
(***************************************************************************)
(* The conversation of a client as the upstream gets it: from messages     *)
(* (src/src/anthropic/request-mapper.ts), responses                        *)
(* (src/src/openai/responses-request-mapper.ts) and chat completions       *)
(* (src/src/workbuddy/request-mapper.ts).                                  *)
(*                                                                         *)
(* A message of a client is [role, parts], a part [kind, id] with a kind   *)
(* of "text", "image", "use" (a tool call) or "result"; the id is that of  *)
(* the call.  In responses an item is a message of one part, and in chat   *)
(* the parts of a message are its tool calls, or the call it answers.  A   *)
(* message to the upstream is [role, calls, answers]: the ids of the calls *)
(* it makes, and the id of the call it answers or "".  What the parts say, *)
(* and the scalar parameters, are copied.                                  *)
(***************************************************************************)
EXTENDS Naturals, Sequences, SequencesExt, FiniteSetsExt

ToUpstream(role, calls, answers) == [role |-> role, calls |-> calls, answers |-> answers]
System == ToUpstream("system", <<>>, "")

OfKind(parts, kind) ==
    FoldLeft(LAMBDA s, p : IF p.kind = kind THEN Append(s, p) ELSE s, <<>>, parts)
IdsOf(parts) == [k \in DOMAIN parts |-> parts[k].id]

\* slip: the number of results counts, whichever they are
AnyResults(s, m) ==
    Len(OfKind(m.parts, "result")) = Cardinality(s.pending)

-----------------------------------------------------------------------------
(* toWorkBuddyMessageRequest.  The loop carries the calls ever made, those *)
(* without a result, and the messages so far.                              *)

MessagesBegin == [refused |-> FALSE, known |-> {}, pending |-> {}, out |-> <<System>>]

\* the results answer the pending calls, each once
AnswersPending(s, m) ==
    LET ids == IdsOf(OfKind(m.parts, "result"))
    IN  Len(ids) = Cardinality(s.pending) /\ ToSet(ids) = s.pending
\* and come before the other parts of a message of the user
ResultsFirst(m) ==
    \A j, k \in DOMAIN m.parts :
        m.parts[k].kind = "result" /\ j < k => m.parts[j].kind = "result"
\* only the assistant calls tools, each call with an id of its own
CallsAreNew(s, m) ==
    LET ids == IdsOf(OfKind(m.parts, "use"))
    IN  ToSet(ids) \cap s.known = {} /\ Cardinality(ToSet(ids)) = Len(ids)

MessageAccepted(s, m) ==
    LET has(kind) == OfKind(m.parts, kind) # <<>>
    IN  /\ m.parts # <<>>
        /\ AnswersPending(s, m)
        /\ has("result") => m.role = "user" /\ ResultsFirst(m)
        /\ has("image") => m.role = "user"
        /\ has("use") => m.role = "assistant" /\ CallsAreNew(s, m)

MapMessage(s, m) ==
    LET calls == IdsOf(OfKind(m.parts, "use"))
        results == IdsOf(OfKind(m.parts, "result"))
        tools == [k \in DOMAIN results |-> ToUpstream("tool", <<>>, results[k])]
        rest == IF Len(results) = Len(m.parts) THEN <<>>
                ELSE <<ToUpstream(m.role, calls, "")>>
    IN  IF s.refused \/ ~MessageAccepted(s, m) THEN [s EXCEPT !.refused = TRUE]
        ELSE [s EXCEPT !.known = @ \cup ToSet(calls), !.pending = ToSet(calls),
                       !.out = @ \o tools \o rest]

MapMessages(conversation) ==
    LET s == FoldLeft(MapMessage, MessagesBegin, conversation)
    IN  [s EXCEPT !.refused =
            \/ @ \/ s.pending # {} \/ conversation = <<>>
            \/ Head(conversation).role # "user" \/ Last(conversation).role # "user"]

-----------------------------------------------------------------------------
(* toWorkBuddyResponseRequest: a call is a message of the assistant, and a *)
(* result must name an earlier call                                        *)

ToSystem(role) == IF role = "developer" THEN "system" ELSE role

MapItem(s, m) ==
    LET part == m.parts[1]
        made == CASE part.kind = "use" -> ToUpstream("assistant", <<part.id>>, "")
                  [] part.kind = "result" -> ToUpstream("tool", <<>>, part.id)
                  [] OTHER -> ToUpstream(ToSystem(m.role), <<>>, "")
        refused == \/ part.kind = "use" /\ part.id \in s.known
                   \/ part.kind = "result" /\ part.id \notin s.known
    IN  IF s.refused \/ refused THEN [s EXCEPT !.refused = TRUE]
        ELSE [s EXCEPT !.known = @ \cup ToSet(made.calls), !.out = Append(@, made)]

MapItems(conversation) ==
    LET s == FoldLeft(MapItem, MessagesBegin, conversation)
    IN  [s EXCEPT !.refused = @ \/ conversation = <<>>]

-----------------------------------------------------------------------------
(* normalizeMessages: the upstream wants a system message first *)

MapChat(conversation) ==
    LET out == [k \in DOMAIN conversation |->
                  LET m == conversation[k]
                      results == IdsOf(OfKind(m.parts, "result"))
                  IN  ToUpstream(ToSystem(m.role), IdsOf(OfKind(m.parts, "use")),
                                 IF results = <<>> THEN "" ELSE results[1])]
    IN  [MessagesBegin EXCEPT
            !.refused = (conversation = <<>>),
            !.out = IF conversation # <<>> /\ Head(out).role = "system" THEN out ELSE <<System>> \o out]
=============================================================================
