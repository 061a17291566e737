----------------------------- MODULE MCExchange -----------------------------
(* A small instance of Exchange for TLC. *)
EXTENDS Exchange

NoChunk == [text |-> <<>>, calls |-> <<>>, finish |-> "", usage |-> ""]
NoFrame == [index |-> 0, id |-> "", name |-> <<>>, args |-> <<>>]
\* a first call in pieces, a second one whole or begun; both may have the same id
Frames ==
    [index : {0}, id : {"", "a"}, name : {<<>>, <<"f">>}, args : {<<>>, <<"{">>, <<"}">>}]
    \cup [index : {1}, id : {"a", "b"}, name : {<<"f">>}, args : {<<>>, <<"{", "}">>}]
    \cup {[NoFrame EXCEPT !.id = "b"], [NoFrame EXCEPT !.args = <<"1">>],
          [NoFrame EXCEPT !.index = 1, !.args = <<"{", "}">>], [NoFrame EXCEPT !.index = -1]}
SmallChunks ==
    {[NoChunk EXCEPT !.text = <<"t">>], [NoChunk EXCEPT !.usage = "bad"],
     [NoChunk EXCEPT !.finish = "error"]}
    \cup {[NoChunk EXCEPT !.finish = f, !.usage = "ok"] : f \in {"stop", "tool_calls"}}
    \cup {[NoChunk EXCEPT !.calls = <<f>>] : f \in Frames}

NoBound == [routes |-> Routes, text |-> 0, tokens |-> {}, chunks |-> 0, messages |-> 0,
            parts |-> 1, roles |-> {"user"}, words |-> {Text}]
SmallBounds ==
    {[NoBound EXCEPT !.routes = {"chat"}, !.text = 6, !.tokens = Tokens],
     [NoBound EXCEPT !.routes = {"chat"}, !.text = 9, !.tokens = {"data", "cr", "lf"}],
     [NoBound EXCEPT !.messages = 1, !.chunks = 5],
     [NoBound EXCEPT !.messages = 3, !.chunks = 2],
     [NoBound EXCEPT !.messages = 4, !.parts = 2, !.words = {Text, Image},
                     !.routes = {"messages", "responses"},
                     !.roles = {"user", "assistant", "developer", "item"}],
     [NoBound EXCEPT !.messages = 2, !.parts = 2, !.routes = {"chat"},
                     !.roles = {"user", "assistant", "developer", "system", "tool"}]}
=============================================================================
