--------------------------- MODULE ExchangeProofs ---------------------------
EXTENDS Exchange, SseParserProofs

-----------------------------------------------------------------------------
(* The parts of a message *)

Parts == [kind : {"text", "image"}, id : {""}]
         \cup [kind : {"use", "result"}, id : CallIds]

FilterStep(kind) ==
    [q \in Seq(Parts) \X Parts |-> IF q[2].kind = kind THEN Append(q[1], q[2]) ELSE q[1]]

LEMMA FilterIsStep ==
    ASSUME NEW kind
    PROVE  FilterStep(kind) \in Steps(Seq(Parts), Parts)
  BY DEF FilterStep, Steps

LEMMA OfKindIsFold ==
    ASSUME NEW kind, NEW parts \in Seq(Parts)
    PROVE  OfKind(parts, kind) = Fold(FilterStep(kind), <<>>, parts)
  <1> DEFINE Filters(g) ==
        g = [t \in SUBSET DOMAIN parts |->
                IF t = {} THEN <<>>
                ELSE IF parts[Max(t)].kind = kind
                     THEN Append(g[t \ {Max(t)}], parts[Max(t)])
                     ELSE g[t \ {Max(t)}]]
  <1>1. PICK g \in [SUBSET DOMAIN parts -> Seq(Parts)] :
            IsFold(g, FilterStep(kind), <<>>, parts)
    BY FilterIsStep, EmptySeq, TableExists
  <1>2. Filters(g)
    <2>1. ASSUME NEW t \in SUBSET DOMAIN parts, t # {}
          PROVE  FilterStep(kind)[<<g[t \ {Max(t)}], parts[Max(t)]>>]
                    = IF parts[Max(t)].kind = kind
                      THEN Append(g[t \ {Max(t)}], parts[Max(t)])
                      ELSE g[t \ {Max(t)}]
      <3>1. parts[Max(t)] \in Parts /\ g[t \ {Max(t)}] \in Seq(Parts)
        BY <1>1, <2>1, ElementOfTable
      <3> QED BY <3>1 DEF FilterStep
    <2> QED BY <1>1, <2>1 DEF IsFold
  <1> DEFINE h == CHOOSE h : Filters(h)
  <1>3. Filters(h)
    BY <1>2
  <1>4. OfKind(parts, kind) = h[DOMAIN parts]
    BY DEF OfKind, FoldLeft, MapThenFoldSet
  <1> HIDE DEF h
  <1>5. h[{}] = <<>>
    BY <1>3
  <1>6. ASSUME NEW t \in SUBSET DOMAIN parts, t # {}, h[t \ {Max(t)}] \in Seq(Parts)
        PROVE  h[t] = FilterStep(kind)[<<h[t \ {Max(t)}], parts[Max(t)]>>]
    <2>1. parts[Max(t)] \in Parts
      BY <1>6, ElementOfTable
    <2>2. h[t] = IF parts[Max(t)].kind = kind
                 THEN Append(h[t \ {Max(t)}], parts[Max(t)]) ELSE h[t \ {Max(t)}]
      BY <1>3, <1>6
    <2> QED BY <1>6, <2>1, <2>2 DEF FilterStep
  <1> DEFINE A == Seq(Parts)
             step == FilterStep(kind)
             base == <<>>
  <1>7. step \in Steps(A, Parts) /\ base \in A
    BY FilterIsStep, EmptySeq
  <1> HIDE DEF step, base, A, Filters
  <1>8. h[DOMAIN parts] = Fold(step, base, parts)
    <2>1. Computes(h, A, step, base, parts)
      BY <1>5, <1>6 DEF step, base, A, Computes
    <2> QED BY <1>7, <2>1, FoldLink
  <1> QED BY <1>4, <1>8 DEF step, base

LEMMA OfKindSteps ==
    ASSUME NEW kind, NEW parts \in Seq(Parts)
    PROVE  /\ OfKind(parts, kind) \in Seq(Parts)
           /\ OfKind(<<>>, kind) = <<>>
           /\ \A p \in Parts : OfKind(Append(parts, p), kind) =
                 IF p.kind = kind THEN Append(OfKind(parts, kind), p) ELSE OfKind(parts, kind)
  <1> DEFINE A == Seq(Parts)
             step == FilterStep(kind)
             base == <<>>
             F(s) == Fold(step, base, s)
  <1>1. step \in Steps(A, Parts) /\ base \in A
    BY FilterIsStep, EmptySeq
  <1>2. \A s \in Seq(Parts) : OfKind(s, kind) = F(s)
    BY OfKindIsFold
  <1>0. <<>> \in Seq(Parts)
    BY EmptySeq
  <1> HIDE DEF base, step, A
  <1>3. F(parts) \in A /\ F(<<>>) = base /\ \A e \in Parts : F(Append(parts, e)) = step[<<F(parts), e>>]
    BY <1>1, FoldSteps
  <1> HIDE DEF F
  <1>4. OfKind(parts, kind) \in A /\ OfKind(<<>>, kind) = base
    BY <1>0, <1>2, <1>3
  <1>5. ASSUME NEW p \in Parts
        PROVE  OfKind(Append(parts, p), kind) =
                  IF p.kind = kind THEN Append(OfKind(parts, kind), p) ELSE OfKind(parts, kind)
    <2>1. Append(parts, p) \in Seq(Parts)
      BY AppendProperties
    <2>2. OfKind(Append(parts, p), kind) = step[<<OfKind(parts, kind), p>>]
      BY <1>2, <1>3, <2>1
    <2> QED BY <1>4, <2>2 DEF FilterStep, step, A
  <1> QED BY <1>4, <1>5 DEF A, base

LEMMA OfKindOfNone == \A kind : OfKind(<<>>, kind) = <<>>
  <1>1. <<>> \in Seq(Parts)
    BY EmptySeq
  <1> QED BY <1>1, OfKindSteps

LEMMA FunctionIsList ==
    ASSUME NEW n \in Nat, NEW S, NEW f \in [1 .. n -> S]
    PROVE  f \in Seq(S) /\ Len(f) = n /\ DOMAIN f = 1 .. n
  <1>1. f \in Seq(S)
    BY SeqDef
  <1>2. DOMAIN f = 1 .. n /\ Len(f) \in Nat /\ DOMAIN f = 1 .. Len(f)
    BY <1>1, LenProperties
  <1>3. Len(f) = n
    BY <1>2
  <1> QED BY <1>1, <1>2, <1>3

\* the ids of the parts of a kind
LEMMA IdsOfKind ==
    ASSUME NEW kind \in {"use", "result"}, NEW parts \in Seq(Parts)
    PROVE  /\ OfKind(parts, kind) \in Seq(Parts)
           /\ IdsOf(OfKind(parts, kind)) \in Seq(CallIds)
           /\ Len(IdsOf(OfKind(parts, kind))) = Len(OfKind(parts, kind))
           /\ DOMAIN IdsOf(OfKind(parts, kind)) = 1 .. Len(OfKind(parts, kind))
  <1> DEFINE Good(s) == \A i \in 1 .. Len(s) : s[i].kind = kind
             G == {u \in Seq(Parts) : Good(OfKind(u, kind))}
  <1>1. <<>> \in G
    BY OfKindOfNone, EmptySeq
  <1>2. ASSUME NEW u \in Seq(Parts), NEW p \in Parts, u \in G PROVE Append(u, p) \in G
    <2>1. OfKind(u, kind) \in Seq(Parts) /\ Good(OfKind(u, kind)) /\ Append(u, p) \in Seq(Parts)
      BY <1>2, OfKindSteps
    <2>2. OfKind(Append(u, p), kind) =
             IF p.kind = kind THEN Append(OfKind(u, kind), p) ELSE OfKind(u, kind)
      BY OfKindSteps
    <2>3. CASE p.kind = kind
      <3> DEFINE s == OfKind(u, kind)
      <3>1. Len(s) \in Nat /\ Len(Append(s, p)) = Len(s) + 1 /\ Append(s, p)[Len(s) + 1] = p
            /\ \A i \in 1 .. Len(s) : Append(s, p)[i] = s[i]
        BY <2>1, AppendProperties, LenProperties
      <3> HIDE DEF s
      <3>2. Good(Append(s, p))
        <4> SUFFICES ASSUME NEW i \in 1 .. Len(s) + 1 PROVE Append(s, p)[i].kind = kind
          BY <3>1
        <4>1. i \in 1 .. Len(s) \/ i = Len(s) + 1
          BY <3>1
        <4> QED BY <2>1, <2>3, <3>1, <4>1 DEF s
      <3> QED BY <2>1, <2>2, <2>3, <3>2 DEF s
    <2> QED BY <2>1, <2>2, <2>3
  <1> HIDE DEF G
  <1>3. parts \in G
    BY <1>1, <1>2, SeqInduction
  <1> DEFINE s == OfKind(parts, kind)
  <1>4. s \in Seq(Parts) /\ Good(s)
    BY <1>3, OfKindSteps DEF G
  <1>5. Len(s) \in Nat /\ DOMAIN s = 1 .. Len(s) /\ \A i \in 1 .. Len(s) : s[i] \in Parts
    BY <1>4, LenProperties, ElementOfSeq
  <1> HIDE DEF s
  <1>6. \A i \in 1 .. Len(s) : s[i].id \in CallIds
    BY <1>4, <1>5 DEF Parts
  <1>7. IdsOf(s) \in [1 .. Len(s) -> CallIds]
    BY <1>5, <1>6 DEF IdsOf
  <1>8. /\ IdsOf(s) \in Seq(CallIds) /\ DOMAIN IdsOf(s) = 1 .. Len(s)
        /\ Len(IdsOf(s)) = Len(s)
    BY <1>5, <1>7, FunctionIsList
  <1> QED BY <1>4, <1>8 DEF s

\* parts of two kinds are no more than all the parts
LEMMA TwoKinds ==
    ASSUME NEW kind, NEW other, kind # other, NEW parts \in Seq(Parts)
    PROVE  Len(OfKind(parts, kind)) + Len(OfKind(parts, other)) <= Len(parts)
  <1> DEFINE Fits(u) == Len(OfKind(u, kind)) + Len(OfKind(u, other)) <= Len(u)
             G == {u \in Seq(Parts) : Fits(u)}
  <1>1. <<>> \in G
    BY OfKindOfNone, EmptySeq
  <1>2. ASSUME NEW u \in Seq(Parts), NEW p \in Parts, u \in G PROVE Append(u, p) \in G
    <2>1. /\ OfKind(u, kind) \in Seq(Parts) /\ OfKind(u, other) \in Seq(Parts)
          /\ Append(u, p) \in Seq(Parts)
      BY OfKindSteps
    <2>2. /\ OfKind(Append(u, p), kind) =
                IF p.kind = kind THEN Append(OfKind(u, kind), p) ELSE OfKind(u, kind)
          /\ OfKind(Append(u, p), other) =
                IF p.kind = other THEN Append(OfKind(u, other), p) ELSE OfKind(u, other)
      BY OfKindSteps
    <2>3. /\ Len(OfKind(u, kind)) \in Nat /\ Len(OfKind(u, other)) \in Nat /\ Len(u) \in Nat
          /\ Len(Append(u, p)) = Len(u) + 1
          /\ Len(Append(OfKind(u, kind), p)) = Len(OfKind(u, kind)) + 1
          /\ Len(Append(OfKind(u, other), p)) = Len(OfKind(u, other)) + 1
      BY <2>1, LenProperties, AppendProperties
    <2>4. Fits(u)
      BY <1>2
    <2>5. Fits(Append(u, p))
      <3>1. CASE p.kind = kind
        BY <2>2, <2>3, <2>4, <3>1
      <3>2. CASE p.kind # kind
        BY <2>2, <2>3, <2>4, <3>2
      <3> QED BY <3>1, <3>2
    <2> QED BY <2>1, <2>5
  <1> HIDE DEF G
  <1>3. parts \in G
    BY <1>1, <1>2, SeqInduction
  <1> QED BY <1>3 DEF G

LEMMA ListOfAppend ==
    ASSUME NEW S, NEW s \in Seq(S), NEW e \in S
    PROVE  /\ ToSet(Append(s, e)) = ToSet(s) \cup {e}
           /\ IsInjective(Append(s, e)) <=> IsInjective(s) /\ e \notin ToSet(s)
  <1>1. /\ DOMAIN s = 1 .. Len(s) /\ Len(s) \in Nat
        /\ DOMAIN Append(s, e) = 1 .. Len(s) + 1
        /\ \A i \in 1 .. Len(s) : Append(s, e)[i] = s[i]
        /\ Append(s, e)[Len(s) + 1] = e
    BY LenProperties, AppendProperties
  <1>2. /\ \A i \in 1 .. Len(s) + 1 : i = Len(s) + 1 \/ i \in 1 .. Len(s)
        /\ \A i \in 1 .. Len(s) : i \in 1 .. Len(s) + 1 /\ i # Len(s) + 1
        /\ Len(s) + 1 \in 1 .. Len(s) + 1
    BY <1>1
  <1>3. ToSet(Append(s, e)) = ToSet(s) \cup {e}
    BY <1>1, <1>2 DEF ToSet
  <1>4. ASSUME IsInjective(s), e \notin ToSet(s) PROVE IsInjective(Append(s, e))
    <2>1. \A k \in 1 .. Len(s) : s[k] # e
      BY <1>1, <1>4 DEF ToSet
    <2> QED BY <1>1, <1>2, <1>4, <2>1 DEF IsInjective
  <1>5. ASSUME IsInjective(Append(s, e)) PROVE IsInjective(s) /\ e \notin ToSet(s)
    <2>1. \A i, j \in 1 .. Len(s) + 1 : Append(s, e)[i] = Append(s, e)[j] => i = j
      BY <1>1, <1>5 DEF IsInjective
    <2>2. \A i, j \in 1 .. Len(s) : s[i] = s[j] => i = j
      BY <1>1, <1>2, <2>1
    <2>3. \A i \in 1 .. Len(s) : s[i] # e
      BY <1>1, <1>2, <2>1
    <2> QED BY <1>1, <2>2, <2>3 DEF IsInjective, ToSet
  <1> QED BY <1>3, <1>4, <1>5

\* the elements of a list, and when they differ
LEMMA ElementsOfList ==
    ASSUME NEW S, NEW s \in Seq(S)
    PROVE  /\ IsFiniteSet(ToSet(s)) /\ ToSet(s) \subseteq S
           /\ Cardinality(ToSet(s)) <= Len(s)
           /\ Cardinality(ToSet(s)) = Len(s) <=> IsInjective(s)
           /\ s = <<>> <=> ToSet(s) = {}
  <1>1. Len(s) \in Nat /\ DOMAIN s = 1 .. Len(s) /\ \A i \in 1 .. Len(s) : s[i] \in S
        /\ s \in [1 .. Len(s) -> S]
    BY LenProperties, ElementOfSeq
  <1>2. IsFiniteSet(1 .. Len(s)) /\ Cardinality(1 .. Len(s)) = Len(s)
    <2> DEFINE n == Len(s)
    <2>1. n \in Nat /\ n \in Int /\ 1 \in Int
      BY <1>1
    <2> HIDE DEF n
    <2>2. IsFiniteSet(1 .. n) /\ Cardinality(1 .. n) = IF 1 > n THEN 0 ELSE n - 1 + 1
      BY <2>1, FS_Interval
    <2>3. Cardinality(1 .. n) = n
      BY <2>1, <2>2
    <2> QED BY <2>2, <2>3 DEF n
  <1>3. s \in Surjection(1 .. Len(s), ToSet(s))
    <2>1. s \in [1 .. Len(s) -> ToSet(s)]
      BY <1>1 DEF ToSet
    <2>2. \A t \in ToSet(s) : \E i \in 1 .. Len(s) : s[i] = t
      BY <1>1 DEF ToSet
    <2> QED BY <2>1, <2>2 DEF Surjection
  <1>4. /\ IsFiniteSet(ToSet(s)) /\ Cardinality(ToSet(s)) <= Len(s)
        /\ Cardinality(ToSet(s)) = Len(s) <=> s \in Injection(1 .. Len(s), ToSet(s))
    BY <1>2, <1>3, FS_Surjection
  <1>5. s \in Injection(1 .. Len(s), ToSet(s)) <=> IsInjective(s)
    BY <1>1, <1>3 DEF Injection, Surjection, IsInjective
  <1>6. s = <<>> <=> ToSet(s) = {}
    <2>1. s = <<>> <=> Len(s) = 0
      OBVIOUS
    <2>2. Len(s) # 0 => s[1] \in ToSet(s)
      BY <1>1 DEF ToSet
    <2>3. Len(s) = 0 => ToSet(s) = {}
      BY <1>1 DEF ToSet
    <2> QED BY <2>1, <2>2, <2>3
  <1> QED BY <1>1, <1>4, <1>5, <1>6 DEF ToSet

-----------------------------------------------------------------------------
(* The mappers and the upstream's rule, as folds *)

Roles == {"user", "assistant", "system", "developer", "item", "tool"}
Msg == [role : Roles, parts : Seq(Parts) \ {<<>>}]
UpMsg == [role : Roles, calls : Seq(CallIds), answers : AnyId]
MapState == [refused : BOOLEAN, known : SUBSET CallIds, pending : SUBSET CallIds, out : Seq(UpMsg)]
TakeState == [ok : BOOLEAN, made : SUBSET CallIds, prompt : BOOLEAN, open : SUBSET CallIds]

ItemStep == [q \in MapState \X Msg |-> MapItem(q[1], q[2])]
MessageStep == [q \in MapState \X Msg |-> MapMessage(q[1], q[2])]
TakeStep == [q \in TakeState \X UpMsg |-> Take(q[1], q[2])]

ToolsOf(ids) == [k \in DOMAIN ids |-> ToUpstream("tool", <<>>, ids[k])]

LEMMA UpstreamTyped ==
    ASSUME NEW role \in Roles, NEW calls \in Seq(CallIds), NEW answers \in AnyId
    PROVE  ToUpstream(role, calls, answers) \in UpMsg
  BY DEF ToUpstream, UpMsg

LEMMA ToolTyped == \A id \in AnyId : ToUpstream("tool", <<>>, id) \in UpMsg
  <1> DEFINE none == <<>>
             tool == "tool"
  <1>1. none \in Seq(CallIds) /\ tool \in Roles
    BY EmptySeq DEF Roles
  <1> HIDE DEF none, tool
  <1>2. \A id \in AnyId : ToUpstream(tool, none, id) \in UpMsg
    BY <1>1, UpstreamTyped
  <1> QED BY <1>2 DEF none, tool

LEMMA SayTyped ==
    ASSUME NEW role \in Roles, NEW calls \in Seq(CallIds)
    PROVE  ToUpstream(role, calls, "") \in UpMsg
  <1> DEFINE nothing == ""
  <1>1. nothing \in AnyId
    BY DEF AnyId
  <1> HIDE DEF nothing
  <1>2. ToUpstream(role, calls, nothing) \in UpMsg
    BY <1>1, UpstreamTyped
  <1> QED BY <1>2 DEF nothing

LEMMA PlainTyped == \A role \in Roles : ToUpstream(role, <<>>, "") \in UpMsg
  <1> DEFINE none == <<>>
  <1>1. none \in Seq(CallIds)
    BY EmptySeq
  <1> HIDE DEF none
  <1>2. \A role \in Roles : ToUpstream(role, none, "") \in UpMsg
    BY <1>1, SayTyped
  <1> QED BY <1>2 DEF none

\* the first part of a message, which is there
LEMMA FirstPart == \A m \in Msg : m.parts \in Seq(Parts) /\ m.parts[1] \in Parts
  <1> SUFFICES ASSUME NEW m \in Msg PROVE m.parts \in Seq(Parts) /\ m.parts[1] \in Parts
    OBVIOUS
  <1>1. m.parts \in Seq(Parts) /\ m.parts # <<>>
    BY DEF Msg
  <1>2. 1 \in 1 .. Len(m.parts)
    BY <1>1, EmptySeq, LenProperties
  <1> QED BY <1>1, <1>2, ElementOfSeq

LEMMA OneIsList ==
    ASSUME NEW S, NEW e \in S
    PROVE  <<e>> \in Seq(S) /\ Append(<<>>, e) = <<e>> /\ Len(<<e>>) = 1
  OBVIOUS

LEMMA ToolsTyped ==
    ASSUME NEW ids \in Seq(CallIds)
    PROVE  ToolsOf(ids) \in Seq(UpMsg) /\ Len(ToolsOf(ids)) = Len(ids)
  <1>1. /\ Len(ids) \in Nat /\ DOMAIN ids = 1 .. Len(ids)
        /\ \A i \in 1 .. Len(ids) : ids[i] \in CallIds
    BY LenProperties, ElementOfSeq
  <1>2. ASSUME NEW i \in 1 .. Len(ids) PROVE ToUpstream("tool", <<>>, ids[i]) \in UpMsg
    BY <1>1, ToolTyped DEF AnyId
  <1>3. ToolsOf(ids) \in [1 .. Len(ids) -> UpMsg]
    BY <1>1, <1>2 DEF ToolsOf
  <1> QED BY <1>1, <1>3, FunctionIsList

LEMMA TakeIsStep == TakeStep \in Steps(TakeState, UpMsg)
  <1>1. ASSUME NEW x \in TakeState, NEW m \in UpMsg PROVE Take(x, m) \in TakeState
    <2>1. ToSet(m.calls) \subseteq CallIds
      BY ElementsOfList DEF UpMsg
    <2> QED BY <2>1 DEF Take, TakeState, UpMsg
  <1> QED BY <1>1 DEF TakeStep, Steps

LEMMA TakenIsFold ==
    ASSUME NEW base \in TakeState, NEW s \in Seq(UpMsg)
    PROVE  FoldLeft(Take, base, s) = Fold(TakeStep, base, s)
  <1> DEFINE Maps(g) ==
        g = [t \in SUBSET DOMAIN s |->
                IF t = {} THEN base ELSE Take(g[t \ {Max(t)}], s[Max(t)])]
  <1>1. PICK g \in [SUBSET DOMAIN s -> TakeState] : IsFold(g, TakeStep, base, s)
    BY TakeIsStep, TableExists
  <1>2. Maps(g)
    <2>1. ASSUME NEW t \in SUBSET DOMAIN s, t # {}
          PROVE  TakeStep[<<g[t \ {Max(t)}], s[Max(t)]>>]
                    = Take(g[t \ {Max(t)}], s[Max(t)])
      <3>1. s[Max(t)] \in UpMsg /\ g[t \ {Max(t)}] \in TakeState
        BY <1>1, <2>1, ElementOfTable
      <3> QED BY <3>1 DEF TakeStep
    <2> QED BY <1>1, <2>1 DEF IsFold
  <1> DEFINE h == CHOOSE h : Maps(h)
  <1>3. Maps(h)
    BY <1>2
  <1>4. FoldLeft(Take, base, s) = h[DOMAIN s]
    BY DEF FoldLeft, MapThenFoldSet
  <1> HIDE DEF h
  <1>5. Computes(h, TakeState, TakeStep, base, s)
    <2>1. ASSUME NEW t \in SUBSET DOMAIN s, t # {}, h[t \ {Max(t)}] \in TakeState
          PROVE  h[t] = TakeStep[<<h[t \ {Max(t)}], s[Max(t)]>>]
      <3>1. s[Max(t)] \in UpMsg
        BY <2>1, ElementOfTable
      <3>2. h[t] = Take(h[t \ {Max(t)}], s[Max(t)])
        BY <1>3, <2>1
      <3> QED BY <2>1, <3>1, <3>2 DEF TakeStep
    <2>2. h[{}] = base
      BY <1>3
    <2> QED BY <2>1, <2>2 DEF Computes
  <1> QED BY <1>4, <1>5, TakeIsStep, FoldLink

LEMMA MessageIsTyped ==
    ASSUME NEW s \in MapState, NEW m \in Msg
    PROVE  MapMessage(s, m) \in MapState
  <1> DEFINE calls == IdsOf(OfKind(m.parts, "use"))
             results == IdsOf(OfKind(m.parts, "result"))
             rest == IF Len(results) = Len(m.parts) THEN <<>>
                     ELSE <<ToUpstream(m.role, calls, "")>>
  <1>1. m.parts \in Seq(Parts) /\ m.role \in Roles
    BY DEF Msg
  <1>2. calls \in Seq(CallIds) /\ results \in Seq(CallIds)
    BY <1>1, IdsOfKind
  <1>4. ToSet(calls) \subseteq CallIds
    BY <1>2, ElementsOfList
  <1>5. ToolsOf(results) \in Seq(UpMsg) /\ rest \in Seq(UpMsg)
    <2>1. ToolsOf(results) \in Seq(UpMsg)
      BY <1>2, ToolsTyped
    <2>2. ToUpstream(m.role, calls, "") \in UpMsg
      BY <1>1, <1>2, SayTyped
    <2>3. <<ToUpstream(m.role, calls, "")>> \in Seq(UpMsg)
      BY <2>2, OneIsList
    <2> QED BY <2>1, <2>3, EmptySeq
  <1>6. MapMessage(s, m) =
            IF s.refused \/ ~MessageAccepted(s, m) THEN [s EXCEPT !.refused = TRUE]
            ELSE [s EXCEPT !.known = @ \cup ToSet(calls), !.pending = ToSet(calls),
                           !.out = @ \o ToolsOf(results) \o rest]
    BY DEF MapMessage, ToolsOf
  <1>7. s.out \o ToolsOf(results) \o rest \in Seq(UpMsg)
    BY <1>5, ConcatProperties DEF MapState
  <1> HIDE DEF calls, results, rest
  <1> QED BY <1>4, <1>6, <1>7 DEF MapState

LEMMA MessageIsStep == MessageStep \in Steps(MapState, Msg)
  BY MessageIsTyped DEF MessageStep, Steps

LEMMA MessagesAreFold ==
    ASSUME NEW base \in MapState, NEW s \in Seq(Msg)
    PROVE  FoldLeft(MapMessage, base, s) = Fold(MessageStep, base, s)
  <1> DEFINE Maps(g) ==
        g = [t \in SUBSET DOMAIN s |->
                IF t = {} THEN base ELSE MapMessage(g[t \ {Max(t)}], s[Max(t)])]
  <1>1. PICK g \in [SUBSET DOMAIN s -> MapState] : IsFold(g, MessageStep, base, s)
    BY MessageIsStep, TableExists
  <1>2. Maps(g)
    <2>1. ASSUME NEW t \in SUBSET DOMAIN s, t # {}
          PROVE  MessageStep[<<g[t \ {Max(t)}], s[Max(t)]>>]
                    = MapMessage(g[t \ {Max(t)}], s[Max(t)])
      <3>1. s[Max(t)] \in Msg /\ g[t \ {Max(t)}] \in MapState
        BY <1>1, <2>1, ElementOfTable
      <3> QED BY <3>1 DEF MessageStep
    <2> QED BY <1>1, <2>1 DEF IsFold
  <1> DEFINE h == CHOOSE h : Maps(h)
  <1>3. Maps(h)
    BY <1>2
  <1>4. FoldLeft(MapMessage, base, s) = h[DOMAIN s]
    BY DEF FoldLeft, MapThenFoldSet
  <1> HIDE DEF h
  <1>5. Computes(h, MapState, MessageStep, base, s)
    <2>1. ASSUME NEW t \in SUBSET DOMAIN s, t # {}, h[t \ {Max(t)}] \in MapState
          PROVE  h[t] = MessageStep[<<h[t \ {Max(t)}], s[Max(t)]>>]
      <3>1. s[Max(t)] \in Msg
        BY <2>1, ElementOfTable
      <3>2. h[t] = MapMessage(h[t \ {Max(t)}], s[Max(t)])
        BY <1>3, <2>1
      <3> QED BY <2>1, <3>1, <3>2 DEF MessageStep
    <2>2. h[{}] = base
      BY <1>3
    <2> QED BY <2>1, <2>2 DEF Computes
  <1> QED BY <1>4, <1>5, MessageIsStep, FoldLink

LEMMA ItemIsTyped ==
    ASSUME NEW s \in MapState, NEW m \in Msg
    PROVE  MapItem(s, m) \in MapState
  <1> DEFINE part == m.parts[1]
             made == CASE part.kind = "use" -> ToUpstream("assistant", <<part.id>>, "")
                       [] part.kind = "result" -> ToUpstream("tool", <<>>, part.id)
                       [] OTHER -> ToUpstream(ToSystem(m.role), <<>>, "")
             refused == \/ part.kind = "use" /\ part.id \in s.known
                        \/ part.kind = "result" /\ part.id \notin s.known
  <1>1. part \in Parts /\ m.role \in Roles
    BY FirstPart DEF Msg
  <1>2. made \in UpMsg
    <2>1. CASE part.kind = "use"
      <3>1. part.id \in CallIds /\ "assistant" \in Roles
        BY <1>1, <2>1 DEF Parts, Roles
      <3>2. <<part.id>> \in Seq(CallIds)
        BY <3>1, OneIsList
      <3>3. ToUpstream("assistant", <<part.id>>, "") \in UpMsg
        BY <3>1, <3>2, SayTyped
      <3> QED BY <2>1, <3>3
    <2>2. CASE part.kind = "result"
      <3>1. part.id \in AnyId
        BY <1>1, <2>2 DEF Parts, AnyId
      <3> QED BY <2>2, <3>1, ToolTyped
    <2>3. CASE part.kind \notin {"use", "result"}
      <3>1. ToSystem(m.role) \in Roles
        BY <1>1 DEF ToSystem, Roles
      <3>2. ToUpstream(ToSystem(m.role), <<>>, "") \in UpMsg
        BY <3>1, PlainTyped
      <3> QED BY <2>3, <3>2
    <2> QED BY <2>1, <2>2, <2>3
  <1>3. MapItem(s, m) =
            IF s.refused \/ refused THEN [s EXCEPT !.refused = TRUE]
            ELSE [s EXCEPT !.known = @ \cup ToSet(made.calls), !.out = Append(@, made)]
    BY DEF MapItem
  <1> HIDE DEF made, refused
  <1>4. ToSet(made.calls) \subseteq CallIds
    BY <1>2, ElementsOfList DEF UpMsg
  <1>5. Append(s.out, made) \in Seq(UpMsg)
    BY <1>2, AppendProperties DEF MapState
  <1> QED BY <1>3, <1>4, <1>5 DEF MapState

LEMMA ItemIsStep == ItemStep \in Steps(MapState, Msg)
  BY ItemIsTyped DEF ItemStep, Steps

LEMMA ItemsAreFold ==
    ASSUME NEW base \in MapState, NEW s \in Seq(Msg)
    PROVE  FoldLeft(MapItem, base, s) = Fold(ItemStep, base, s)
  <1> DEFINE Maps(g) ==
        g = [t \in SUBSET DOMAIN s |->
                IF t = {} THEN base ELSE MapItem(g[t \ {Max(t)}], s[Max(t)])]
  <1>1. PICK g \in [SUBSET DOMAIN s -> MapState] : IsFold(g, ItemStep, base, s)
    BY ItemIsStep, TableExists
  <1>2. Maps(g)
    <2>1. ASSUME NEW t \in SUBSET DOMAIN s, t # {}
          PROVE  ItemStep[<<g[t \ {Max(t)}], s[Max(t)]>>]
                    = MapItem(g[t \ {Max(t)}], s[Max(t)])
      <3>1. s[Max(t)] \in Msg /\ g[t \ {Max(t)}] \in MapState
        BY <1>1, <2>1, ElementOfTable
      <3> QED BY <3>1 DEF ItemStep
    <2> QED BY <1>1, <2>1 DEF IsFold
  <1> DEFINE h == CHOOSE h : Maps(h)
  <1>3. Maps(h)
    BY <1>2
  <1>4. FoldLeft(MapItem, base, s) = h[DOMAIN s]
    BY DEF FoldLeft, MapThenFoldSet
  <1> HIDE DEF h
  <1>5. Computes(h, MapState, ItemStep, base, s)
    <2>1. ASSUME NEW t \in SUBSET DOMAIN s, t # {}, h[t \ {Max(t)}] \in MapState
          PROVE  h[t] = ItemStep[<<h[t \ {Max(t)}], s[Max(t)]>>]
      <3>1. s[Max(t)] \in Msg
        BY <2>1, ElementOfTable
      <3>2. h[t] = MapItem(h[t \ {Max(t)}], s[Max(t)])
        BY <1>3, <2>1
      <3> QED BY <2>1, <3>1, <3>2 DEF ItemStep
    <2>2. h[{}] = base
      BY <1>3
    <2> QED BY <2>1, <2>2 DEF Computes
  <1> QED BY <1>4, <1>5, ItemIsStep, FoldLink

-----------------------------------------------------------------------------
(* An accepted conversation is one that the upstream can take *)

TakeStart == [ok |-> TRUE, made |-> {}, prompt |-> TRUE, open |-> {}]
TakenOf(out) == Fold(TakeStep, TakeStart, out)

LEMMA StartsTyped == TakeStart \in TakeState /\ MessagesBegin \in MapState
  <1>1. TakeStart \in TakeState
    BY DEF TakeStart, TakeState
  <1>2. System \in UpMsg
    BY PlainTyped DEF System, Roles
  <1>3. <<System>> \in Seq(UpMsg)
    BY <1>2, OneIsList
  <1> QED BY <1>1, <1>3 DEF MessagesBegin, MapState

LEMMA TakenIsTakenOf ==
    ASSUME NEW out \in Seq(UpMsg)
    PROVE  Taken(out) = TakenOf(out) /\ TakenOf(out) \in TakeState
  <1>1. Taken(out) = FoldLeft(Take, TakeStart, out)
    BY DEF Taken, TakeStart
  <1> QED BY <1>1, StartsTyped, TakenIsFold, TakeIsStep, FoldSteps DEF TakenOf

\* one message more
LEMMA TakenOfAppend ==
    ASSUME NEW out \in Seq(UpMsg), NEW m \in UpMsg
    PROVE  TakenOf(Append(out, m)) = Take(TakenOf(out), m)
  <1>1. TakenOf(Append(out, m)) = TakeStep[<<TakenOf(out), m>>]
    BY StartsTyped, TakeIsStep, FoldSteps DEF TakenOf
  <1> QED BY <1>1, TakenIsTakenOf DEF TakeStep

LEMMA ToolsOfAppend ==
    ASSUME NEW ids \in Seq(CallIds), NEW id \in CallIds
    PROVE  ToolsOf(Append(ids, id)) = Append(ToolsOf(ids), ToUpstream("tool", <<>>, id))
  <1> DEFINE m == ToUpstream("tool", <<>>, id)
             n == Len(ids)
             f == ToolsOf(Append(ids, id))
             g == Append(ToolsOf(ids), m)
  <1>1. /\ n \in Nat /\ DOMAIN ids = 1 .. n
        /\ DOMAIN Append(ids, id) = 1 .. n + 1
        /\ Append(ids, id)[n + 1] = id
        /\ \A i \in 1 .. n : Append(ids, id)[i] = ids[i]
    BY LenProperties, AppendProperties
  <1>2. ToolsOf(ids) \in Seq(UpMsg) /\ Len(ToolsOf(ids)) = n /\ m \in UpMsg
    BY ToolsTyped, ToolTyped DEF AnyId
  <1> HIDE DEF m
  <1>3. /\ g \in Seq(UpMsg) /\ Len(g) = n + 1
        /\ g[n + 1] = m
        /\ \A i \in 1 .. n : g[i] = ToolsOf(ids)[i]
    BY <1>2, AppendProperties
  <1>4. \A i \in 1 .. n : ToolsOf(ids)[i] = ToUpstream("tool", <<>>, ids[i])
    BY <1>1 DEF ToolsOf
  <1>5. Append(ids, id) \in Seq(CallIds) /\ Len(Append(ids, id)) = n + 1
    BY AppendProperties
  <1>6. f \in Seq(UpMsg) /\ Len(f) = n + 1
    BY <1>5, ToolsTyped
  <1>7. \A i \in 1 .. n + 1 : f[i] = ToUpstream("tool", <<>>, Append(ids, id)[i])
    BY <1>1 DEF ToolsOf
  <1>8. \A i \in 1 .. n + 1 : i \in 1 .. n \/ i = n + 1
    BY <1>1
  <1>9. \A i \in 1 .. n + 1 : f[i] = g[i]
    BY <1>1, <1>3, <1>4, <1>7, <1>8 DEF m
  <1> HIDE DEF f, g
  <1>10. f = g
    BY <1>3, <1>6, <1>9, SeqEqual
  <1> QED BY <1>10 DEF f, g, m

\* results of open calls, each once, close these calls
LEMMA ToolsTaken ==
    ASSUME NEW out \in Seq(UpMsg), NEW ids \in Seq(CallIds), IsInjective(ids),
           TakenOf(out).ok, TakenOf(out).prompt,
           TakenOf(out).open \subseteq TakenOf(out).made, ToSet(ids) \subseteq TakenOf(out).open
    PROVE  LET y == TakenOf(out \o ToolsOf(ids))
           IN  /\ y.ok /\ y.prompt /\ y.made = TakenOf(out).made
               /\ y.open = TakenOf(out).open \ ToSet(ids)
  <1> DEFINE x == TakenOf(out)
             Closed(y, u) == y.ok /\ y.prompt /\ y.made = x.made /\ y.open = x.open \ ToSet(u)
             Taken1(u) == IsInjective(u) /\ ToSet(u) \subseteq x.open =>
                             Closed(TakenOf(out \o ToolsOf(u)), u)
             G == {u \in Seq(CallIds) : Taken1(u)}
  <1>1. x \in TakeState
    BY TakenIsTakenOf
  <1>2. <<>> \in G
    <2> DEFINE none == <<>>
    <2>1. none \in Seq(CallIds)
      BY EmptySeq
    <2>2. ToolsOf(none) = <<>> /\ ToSet(none) = {}
      BY DEF ToolsOf, ToSet
    <2>3. out \o <<>> = out
      BY ConcatEmptySeq
    <2> HIDE DEF none, x
    <2>5. Taken1(none)
      BY <2>2, <2>3 DEF x
    <2> HIDE DEF Taken1
    <2> QED BY <2>1, <2>5 DEF none
  <1>3. ASSUME NEW u \in Seq(CallIds), NEW id \in CallIds, u \in G PROVE Append(u, id) \in G
    <2> DEFINE m == ToUpstream("tool", <<>>, id)
               y == TakenOf(out \o ToolsOf(u))
    <2>1. Append(u, id) \in Seq(CallIds)
      BY AppendProperties
    <2> SUFFICES ASSUME IsInjective(Append(u, id)), ToSet(Append(u, id)) \subseteq x.open
                 PROVE  Closed(TakenOf(out \o ToolsOf(Append(u, id))), Append(u, id))
      BY <2>1
    <2>2. IsInjective(u) /\ id \notin ToSet(u) /\ ToSet(u) \subseteq x.open /\ id \in x.open
          /\ ToSet(Append(u, id)) = ToSet(u) \cup {id}
      BY ListOfAppend
    <2>3. Closed(y, u)
      BY <1>3, <2>2
    <2>4. ToolsOf(u) \in Seq(UpMsg) /\ m \in UpMsg
      BY ToolsTyped, ToolTyped DEF AnyId
    <2>5. out \o ToolsOf(Append(u, id)) = Append(out \o ToolsOf(u), m)
          /\ out \o ToolsOf(u) \in Seq(UpMsg)
      <3>1. ToolsOf(Append(u, id)) = Append(ToolsOf(u), m)
        BY ToolsOfAppend
      <3> HIDE DEF m
      <3> QED BY <2>4, <3>1, ConcatAppend
    <2>6. TakenOf(out \o ToolsOf(Append(u, id))) = Take(y, m)
      <3> DEFINE v == out \o ToolsOf(u)
      <3> HIDE DEF m, v
      <3>1. v \in Seq(UpMsg)
        BY <2>5 DEF v
      <3>2. TakenOf(Append(v, m)) = Take(TakenOf(v), m)
        BY <2>4, <3>1, TakenOfAppend
      <3> QED BY <2>5, <3>2 DEF v
    <2>7. m.answers = id /\ id # ""
      BY IdsAreIds DEF ToUpstream
    <2>8. Take(y, m) = [ok |-> y.ok /\ id \in y.made, made |-> y.made,
                        prompt |-> y.prompt /\ id \in y.open, open |-> y.open \ {id}]
      BY <2>7 DEF Take
    <2> HIDE DEF x, y, m
    <2>9. /\ Take(y, m).ok = (y.ok /\ id \in y.made) /\ Take(y, m).made = y.made
          /\ Take(y, m).prompt = (y.prompt /\ id \in y.open) /\ Take(y, m).open = y.open \ {id}
      BY <2>8
    <2>10. id \in y.open /\ id \in y.made
      BY <2>2, <2>3 DEF x
    <2>11. Closed(Take(y, m), Append(u, id))
      BY <2>2, <2>3, <2>9, <2>10
    <2> QED BY <2>6, <2>11
  <1> HIDE DEF G
  <1>4. ids \in G
    BY <1>2, <1>3, SeqInduction
  <1> QED BY <1>4 DEF G

\* What the loop of toWorkBuddyMessageRequest carries is what the upstream's rule
\* makes of the messages so far.
Leads(out) == out # <<>> /\ out[1] = System
Agrees(q) ==
    LET y == TakenOf(q.out)
    IN  /\ Leads(q.out)
        /\ y.ok /\ y.prompt /\ y.made = q.known /\ y.open = q.pending
        /\ q.pending \subseteq q.known

LEMMA LeadsOn ==
    ASSUME NEW out \in Seq(UpMsg), Leads(out), NEW more \in Seq(UpMsg)
    PROVE  Leads(out \o more) /\ out \o more \in Seq(UpMsg)
  <1>1. Len(out) \in Nat /\ Len(out) # 0 /\ Len(more) \in Nat
    BY EmptySeq, LenProperties DEF Leads
  <1>2. (out \o more)[1] = out[1] /\ Len(out \o more) = Len(out) + Len(more)
        /\ out \o more \in Seq(UpMsg)
    BY <1>1, ConcatProperties
  <1>3. out \o more # <<>>
    BY <1>1, <1>2, EmptySeq
  <1> QED BY <1>2, <1>3 DEF Leads

LEMMA BeginAgrees == Agrees(MessagesBegin)
  <1> DEFINE none == <<>>
             y == Take(TakeStart, System)
  <1>1. none \in Seq(UpMsg) /\ TakenOf(none) = TakeStart
    <2>1. none \in Seq(UpMsg)
      BY EmptySeq
    <2> HIDE DEF none
    <2>2. Fold(TakeStep, TakeStart, <<>>) = TakeStart
      BY <2>1, StartsTyped, TakeIsStep, FoldSteps
    <2> QED BY <2>1, <2>2 DEF none, TakenOf
  <1>2. System \in UpMsg
    BY PlainTyped DEF System, Roles
  <1>3. TakenOf(Append(none, System)) = y
    <2> HIDE DEF none
    <2> QED BY <1>1, <1>2, TakenOfAppend
  <1>4. <<System>> = Append(none, System)
    BY <1>2, OneIsList
  <1>5. System.answers = "" /\ ToSet(System.calls) = {}
    BY DEF System, ToUpstream, ToSet
  <1>6. y = [ok |-> TRUE, made |-> {}, prompt |-> TRUE, open |-> {}]
    BY <1>5 DEF Take, TakeStart
  <1>7. MessagesBegin.out = <<System>> /\ MessagesBegin.known = {} /\ MessagesBegin.pending = {}
    BY DEF MessagesBegin
  <1>8. Leads(<<System>>)
    BY DEF Leads
  <1> HIDE DEF y
  <1> QED BY <1>3, <1>4, <1>6, <1>7, <1>8 DEF Agrees

LEMMA MessageAgrees ==
    ASSUME NEW s \in MapState, Agrees(s), NEW m \in Msg, ~MapMessage(s, m).refused
    PROVE  Agrees(MapMessage(s, m))
  <1> DEFINE calls == IdsOf(OfKind(m.parts, "use"))
             results == IdsOf(OfKind(m.parts, "result"))
             say == ToUpstream(m.role, calls, "")
             rest == IF Len(results) = Len(m.parts) THEN <<>> ELSE <<say>>
             q == MapMessage(s, m)
             x == TakenOf(s.out)
             y == TakenOf(s.out \o ToolsOf(results))
  <1>1. m.parts \in Seq(Parts) /\ m.role \in Roles
    BY DEF Msg
  <1>2. calls \in Seq(CallIds) /\ results \in Seq(CallIds)
        /\ Len(calls) = Len(OfKind(m.parts, "use"))
        /\ Len(results) = Len(OfKind(m.parts, "result"))
    BY <1>1, IdsOfKind
  <1>3. ~s.refused /\ MessageAccepted(s, m)
    BY DEF MapMessage, MapState
  <1>4. q = [s EXCEPT !.known = @ \cup ToSet(calls), !.pending = ToSet(calls),
                      !.out = @ \o ToolsOf(results) \o rest]
    BY <1>3 DEF MapMessage, ToolsOf
  <1>5. Len(results) = Cardinality(s.pending) /\ ToSet(results) = s.pending
    BY <1>3 DEF MessageAccepted, AnswersPending
  <1>6. q.known = s.known \cup ToSet(calls) /\ q.pending = ToSet(calls)
        /\ q.out = s.out \o ToolsOf(results) \o rest
    BY <1>4 DEF MapState
  <1> HIDE DEF calls, results, q
  <1>7. IsInjective(results)
    BY <1>2, <1>5, ElementsOfList
  <1>8. s.out \in Seq(UpMsg) /\ x \in TakeState
    BY TakenIsTakenOf DEF MapState
  <1>9. x.ok /\ x.prompt /\ x.made = s.known /\ x.open = s.pending /\ s.pending \subseteq s.known
        /\ Leads(s.out)
    BY DEF Agrees
  <1>10. y.ok /\ y.prompt /\ y.made = s.known /\ y.open = {}
    <2> DEFINE out == s.out
    <2> HIDE DEF out
    <2>1. out \in Seq(UpMsg) /\ TakenOf(out).ok /\ TakenOf(out).prompt
          /\ TakenOf(out).open \subseteq TakenOf(out).made
          /\ ToSet(results) \subseteq TakenOf(out).open
      BY <1>5, <1>8, <1>9 DEF out
    <2>2. LET z == TakenOf(out \o ToolsOf(results))
          IN  /\ z.ok /\ z.prompt /\ z.made = TakenOf(out).made
              /\ z.open = TakenOf(out).open \ ToSet(results)
      BY <1>2, <1>7, <2>1, ToolsTaken
    <2>3. TakenOf(out).open \ ToSet(results) = {}
      BY <1>5, <1>9 DEF out
    <2> QED BY <1>9, <2>2, <2>3 DEF out
  <1>11. ToolsOf(results) \in Seq(UpMsg) /\ say \in UpMsg
    BY <1>1, <1>2, ToolsTyped, SayTyped
  <1>12. s.out \o ToolsOf(results) \in Seq(UpMsg) /\ Leads(s.out \o ToolsOf(results))
    BY <1>8, <1>9, <1>11, LeadsOn
  <1>14. CASE Len(results) = Len(m.parts)
    <2>1. Len(OfKind(m.parts, "result")) + Len(OfKind(m.parts, "use")) <= Len(m.parts)
      BY <1>1, TwoKinds
    <2>2. Len(calls) \in Nat /\ Len(results) \in Nat
      BY <1>2, LenProperties
    <2>3. Len(calls) = 0
      BY <1>2, <1>14, <2>1, <2>2
    <2>4. ToSet(calls) = {}
      BY <1>2, <2>3, EmptySeq, ElementsOfList
    <2>5. q.out = s.out \o ToolsOf(results)
      BY <1>6, <1>12, <1>14, ConcatEmptySeq
    <2> HIDE DEF y
    <2>6. TakenOf(q.out) = y
      BY <2>5 DEF y
    <2> QED BY <1>6, <1>9, <1>12, <1>10, <2>4, <2>5, <2>6 DEF Agrees, q
  <1>15. CASE Len(results) # Len(m.parts)
    <2> DEFINE out == s.out \o ToolsOf(results)
    <2>1. q.out = Append(out, say) /\ q.out = out \o <<say>>
      BY <1>6, <1>11, <1>12, <1>15, AppendIsConcat
    <2>2. <<say>> \in Seq(UpMsg)
      BY <1>11, OneIsList
    <2> HIDE DEF out
    <2>3. out \in Seq(UpMsg) /\ Leads(out)
      BY <1>12 DEF out
    <2>4. Leads(q.out)
      BY <2>1, <2>2, <2>3, LeadsOn
    <2>5. TakenOf(q.out) = Take(TakenOf(out), say)
      BY <1>11, <2>1, <2>3, TakenOfAppend
    <2>6. TakenOf(out) = y
      BY DEF out
    <2>7. say.answers = "" /\ say.calls = calls
      BY DEF ToUpstream
    <2> HIDE DEF y, say
    <2>8. TakenOf(q.out) = [ok |-> y.ok, made |-> s.known \cup ToSet(calls),
                            prompt |-> y.prompt /\ y.open = {}, open |-> ToSet(calls)]
      BY <1>10, <2>5, <2>6, <2>7 DEF Take
    <2>9. /\ TakenOf(q.out).ok = y.ok /\ TakenOf(q.out).prompt = (y.prompt /\ y.open = {})
          /\ TakenOf(q.out).made = q.known /\ TakenOf(q.out).open = q.pending
      BY <1>6, <2>8
    <2>10. y.ok /\ y.prompt /\ y.open = {}
      BY <1>10
    <2>11. q.pending \subseteq q.known
      BY <1>6
    <2>12. Agrees(q)
      BY <2>4, <2>9, <2>10, <2>11 DEF Agrees
    <2> QED BY <2>12 DEF q
  <1> QED BY <1>14, <1>15

LEMMA MessagesAgreeWithTaken ==
    ASSUME NEW s \in Seq(Msg)
    PROVE  LET q == FoldLeft(MapMessage, MessagesBegin, s)
           IN  q \in MapState /\ (~q.refused => Agrees(q))
  <1> DEFINE F(u) == Fold(MessageStep, MessagesBegin, u)
             Good(q) == q \in MapState /\ (~q.refused => Agrees(q))
             G == {u \in Seq(Msg) : Good(F(u))}
  <1>1. /\ \A u \in Seq(Msg) : F(u) \in MapState
        /\ F(<<>>) = MessagesBegin
        /\ \A u \in Seq(Msg), m \in Msg : F(Append(u, m)) = MessageStep[<<F(u), m>>]
    BY StartsTyped, MessageIsStep, FoldSteps
  <1> HIDE DEF F
  <1>2. <<>> \in G
    BY <1>1, StartsTyped, BeginAgrees, EmptySeq
  <1>3. ASSUME NEW u \in Seq(Msg), NEW m \in Msg, u \in G PROVE Append(u, m) \in G
    <2>1. F(u) \in MapState /\ F(Append(u, m)) = MapMessage(F(u), m)
      BY <1>1 DEF MessageStep
    <2>2. Append(u, m) \in Seq(Msg) /\ F(Append(u, m)) \in MapState
      BY <1>1, AppendProperties
    <2>3. ASSUME ~F(Append(u, m)).refused PROVE Agrees(F(Append(u, m)))
      <3>1. ~F(u).refused
        BY <2>1, <2>3 DEF MapMessage, MapState
      <3> QED BY <1>3, <2>1, <2>3, <3>1, MessageAgrees
    <2> QED BY <2>2, <2>3
  <1> HIDE DEF G
  <1>4. s \in G
    BY <1>2, <1>3, SeqInduction
  <1>5. FoldLeft(MapMessage, MessagesBegin, s) = F(s)
    BY StartsTyped, MessagesAreFold DEF F
  <1> QED BY <1>4, <1>5 DEF G

\* and of toWorkBuddyResponseRequest, but for the order of calls and results
AgreesOnCalls(q) ==
    LET y == TakenOf(q.out) IN Leads(q.out) /\ y.ok /\ y.made = q.known

LEMMA ItemAgrees ==
    ASSUME NEW s \in MapState, AgreesOnCalls(s), NEW m \in Msg, ~MapItem(s, m).refused
    PROVE  AgreesOnCalls(MapItem(s, m))
  <1> DEFINE part == m.parts[1]
             made == CASE part.kind = "use" -> ToUpstream("assistant", <<part.id>>, "")
                       [] part.kind = "result" -> ToUpstream("tool", <<>>, part.id)
                       [] OTHER -> ToUpstream(ToSystem(m.role), <<>>, "")
             refused == \/ part.kind = "use" /\ part.id \in s.known
                        \/ part.kind = "result" /\ part.id \notin s.known
             q == MapItem(s, m)
             x == TakenOf(s.out)
  <1>1. part \in Parts
    BY FirstPart
  <1>2. ~s.refused /\ ~refused
    BY DEF MapItem, MapState
  <1>3. q = [s EXCEPT !.known = @ \cup ToSet(made.calls), !.out = Append(@, made)]
    BY <1>2 DEF MapItem
  <1>4. q.known = s.known \cup ToSet(made.calls) /\ q.out = Append(s.out, made)
    BY <1>3 DEF MapState
  <1>5. s.out \in Seq(UpMsg) /\ x \in TakeState /\ Leads(s.out) /\ x.ok /\ x.made = s.known
    BY TakenIsTakenOf DEF MapState, AgreesOnCalls
  <1>6. made \in UpMsg /\ (made.answers # "" => made.answers \in s.known /\ ToSet(made.calls) = {})
    <2>1. CASE part.kind = "use"
      <3>1. part.id \in CallIds /\ "assistant" \in Roles
        BY <1>1, <2>1 DEF Parts, Roles
      <3>2. <<part.id>> \in Seq(CallIds)
        BY <3>1, OneIsList
      <3>3. ToUpstream("assistant", <<part.id>>, "") \in UpMsg
        BY <3>1, <3>2, SayTyped
      <3>4. made = ToUpstream("assistant", <<part.id>>, "")
        BY <2>1
      <3>5. made.answers = ""
        BY <3>4 DEF ToUpstream
      <3> QED BY <3>3, <3>4, <3>5
    <2>2. CASE part.kind = "result"
      <3>1. part.id \in AnyId
        BY <1>1, <2>2 DEF Parts, AnyId
      <3>2. made = ToUpstream("tool", <<>>, part.id)
        BY <2>2
      <3>3. made.answers = part.id /\ made.calls = <<>>
        BY <3>2 DEF ToUpstream
      <3>4. ToSet(<<>>) = {}
        BY DEF ToSet
      <3> HIDE DEF made
      <3>5. ToSet(made.calls) = {}
        BY <3>3, <3>4
      <3>6. made.answers \in s.known
        BY <1>2, <2>2, <3>3
      <3> QED BY <3>1, <3>2, <3>5, <3>6, ToolTyped
    <2>3. CASE part.kind \notin {"use", "result"}
      <3>1. ToSystem(m.role) \in Roles
        BY DEF ToSystem, Roles, Msg
      <3>2. ToUpstream(ToSystem(m.role), <<>>, "") \in UpMsg
        BY <3>1, PlainTyped
      <3>3. made = ToUpstream(ToSystem(m.role), <<>>, "")
        BY <2>3
      <3>4. made.answers = ""
        BY <3>3 DEF ToUpstream
      <3> QED BY <3>2, <3>3, <3>4
    <2> QED BY <2>1, <2>2, <2>3
  <1> HIDE DEF made, q
  <1>7. TakenOf(q.out) = Take(x, made)
    BY <1>4, <1>5, <1>6, TakenOfAppend
  <1>8. Leads(q.out)
    <2>1. <<made>> \in Seq(UpMsg) /\ q.out = s.out \o <<made>>
      <3> DEFINE out == s.out
      <3> HIDE DEF out
      <3>1. out \in Seq(UpMsg) /\ made \in UpMsg
        BY <1>5, <1>6 DEF out
      <3>2. <<made>> \in Seq(UpMsg) /\ Append(out, made) = out \o <<made>>
        BY <3>1, OneIsList, AppendIsConcat
      <3> QED BY <1>4, <3>2 DEF out
    <2> QED BY <1>5, <2>1, LeadsOn
  <1> HIDE DEF x
  <1>9. Take(x, made).ok /\ Take(x, made).made = s.known \cup ToSet(made.calls)
    <2>1. CASE made.answers # ""
      <3>1. Take(x, made).ok = (x.ok /\ made.answers \in x.made) /\ Take(x, made).made = x.made
        BY <2>1 DEF Take
      <3> QED BY <1>5, <1>6, <2>1, <3>1
    <2>2. CASE made.answers = ""
      <3>1. Take(x, made).ok = x.ok /\ Take(x, made).made = x.made \cup ToSet(made.calls)
        BY <2>2 DEF Take
      <3> QED BY <1>5, <3>1
    <2> QED BY <2>1, <2>2
  <1>10. AgreesOnCalls(q)
    BY <1>4, <1>7, <1>8, <1>9 DEF AgreesOnCalls
  <1> QED BY <1>10 DEF q

LEMMA ItemsAgreeWithTaken ==
    ASSUME NEW s \in Seq(Msg)
    PROVE  LET q == FoldLeft(MapItem, MessagesBegin, s)
           IN  q \in MapState /\ (~q.refused => AgreesOnCalls(q))
  <1> DEFINE F(u) == Fold(ItemStep, MessagesBegin, u)
             Good(q) == q \in MapState /\ (~q.refused => AgreesOnCalls(q))
             G == {u \in Seq(Msg) : Good(F(u))}
  <1>1. /\ \A u \in Seq(Msg) : F(u) \in MapState
        /\ F(<<>>) = MessagesBegin
        /\ \A u \in Seq(Msg), m \in Msg : F(Append(u, m)) = ItemStep[<<F(u), m>>]
    BY StartsTyped, ItemIsStep, FoldSteps
  <1> HIDE DEF F
  <1>2. <<>> \in G
    <2>1. AgreesOnCalls(MessagesBegin)
      BY BeginAgrees DEF Agrees, AgreesOnCalls
    <2> QED BY <1>1, <2>1, StartsTyped, EmptySeq
  <1>3. ASSUME NEW u \in Seq(Msg), NEW m \in Msg, u \in G PROVE Append(u, m) \in G
    <2>1. F(u) \in MapState /\ F(Append(u, m)) = MapItem(F(u), m)
      BY <1>1 DEF ItemStep
    <2>2. Append(u, m) \in Seq(Msg) /\ F(Append(u, m)) \in MapState
      BY <1>1, AppendProperties
    <2>3. ASSUME ~F(Append(u, m)).refused PROVE AgreesOnCalls(F(Append(u, m)))
      <3>1. ~F(u).refused
        BY <2>1, <2>3 DEF MapItem, MapState
      <3> QED BY <1>3, <2>1, <2>3, <3>1, ItemAgrees
    <2> QED BY <2>2, <2>3
  <1> HIDE DEF G
  <1>4. s \in G
    BY <1>2, <1>3, SeqInduction
  <1>5. FoldLeft(MapItem, MessagesBegin, s) = F(s)
    BY StartsTyped, ItemsAreFold DEF F
  <1> QED BY <1>4, <1>5 DEF G

LEMMA ChatLeads ==
    ASSUME NEW s \in Seq(Msg), ~MapChat(s).refused
    PROVE  Head(MapChat(s).out).role = "system"
  <1> DEFINE E(k) == ToUpstream(ToSystem(s[k].role), IdsOf(OfKind(s[k].parts, "use")),
                        IF IdsOf(OfKind(s[k].parts, "result")) = <<>> THEN ""
                        ELSE IdsOf(OfKind(s[k].parts, "result"))[1])
             out == [k \in DOMAIN s |-> E(k)]
             S == {out[k] : k \in DOMAIN s} \cup {System}
  <1>1. MapChat(s).out = IF s # <<>> /\ Head(out).role = "system" THEN out ELSE <<System>> \o out
    BY DEF MapChat, MessagesBegin
  <1>2. Len(s) \in Nat /\ DOMAIN s = 1 .. Len(s)
    BY LenProperties
  <1>3. out \in [1 .. Len(s) -> S]
    BY <1>2
  <1> HIDE DEF out, S
  <1>4. out \in Seq(S)
    BY <1>2, <1>3, FunctionIsList
  <1>5. <<System>> \in Seq(S) /\ Len(<<System>>) = 1 /\ <<System>>[1] = System
    BY OneIsList DEF S
  <1>6. (<<System>> \o out)[1] = System /\ <<System>> \o out # <<>>
        /\ <<System>> \o out \in Seq(S)
    <2> DEFINE one == <<System>>
    <2> HIDE DEF one
    <2>1. one \in Seq(S) /\ Len(one) = 1 /\ one[1] = System
      BY <1>5 DEF one
    <2>2. Len(out) \in Nat
      BY <1>4, LenProperties
    <2>3. one \o out \in Seq(S) /\ Len(one \o out) = 1 + Len(out)
      BY <1>4, <2>1, ConcatProperties
    <2>5. (one \o out)[1] = one[1]
      <3>1. 1 \in 1 .. Len(one) + Len(out) /\ 1 <= Len(one)
        BY <2>1, <2>2
      <3> QED BY <1>4, <2>1, <3>1, ConcatProperties
    <2>4. one \o out # <<>>
      BY <2>2, <2>3, EmptySeq
    <2> QED BY <2>1, <2>3, <2>4, <2>5 DEF one
  <1>7. Head(<<System>> \o out) = System
    BY <1>6
  <1>8. System.role = "system"
    BY DEF System, ToUpstream
  <1> QED BY <1>1, <1>7, <1>8

LEMMA HeadOfSeq == \A s : Head(s) = s[1]
  OBVIOUS

LEMMA SoundRequests ==
    ASSUME route \in Routes, conversation \in Seq(Msg)
    PROVE  RequestsAreSound
  <1> DEFINE request == Mapped(conversation)
             taken == Taken(request.out)
  <1> SUFFICES ASSUME ~request.refused
               PROVE  /\ Head(request.out).role = "system"
                      /\ route # "chat" => taken.ok
                      /\ route = "messages" => taken.prompt /\ taken.open = {}
    BY DEF RequestsAreSound
  <1>0. System.role = "system"
    BY DEF System, ToUpstream
  <1>1. CASE route = "messages"
    <2> DEFINE q == FoldLeft(MapMessage, MessagesBegin, conversation)
    <2>1. q \in MapState /\ (~q.refused => Agrees(q))
      BY MessagesAgreeWithTaken
    <2>2. request = [q EXCEPT !.refused =
              \/ @ \/ q.pending # {} \/ conversation = <<>>
              \/ Head(conversation).role # "user" \/ Last(conversation).role # "user"]
      BY <1>1 DEF Mapped, MapMessages
    <2> HIDE DEF q, request
    <2>3. ~q.refused /\ q.pending = {} /\ request.out = q.out
      BY <2>1, <2>2 DEF MapState
    <2>4. Taken(request.out) = TakenOf(q.out)
      BY <2>1, <2>3, TakenIsTakenOf DEF MapState
    <2>5. Agrees(q)
      BY <2>1, <2>3
    <2>6. Head(request.out) = System
      BY <2>3, <2>5, HeadOfSeq DEF Agrees, Leads
    <2> QED BY <1>0, <1>1, <2>3, <2>4, <2>5, <2>6 DEF Agrees
  <1>2. CASE route = "responses"
    <2> DEFINE q == FoldLeft(MapItem, MessagesBegin, conversation)
    <2>1. q \in MapState /\ (~q.refused => AgreesOnCalls(q))
      BY ItemsAgreeWithTaken
    <2>2. request = [q EXCEPT !.refused = @ \/ conversation = <<>>]
      BY <1>2 DEF Mapped, MapItems
    <2> HIDE DEF q, request
    <2>3. ~q.refused /\ request.out = q.out
      BY <2>1, <2>2 DEF MapState
    <2>4. Taken(request.out) = TakenOf(q.out)
      BY <2>1, <2>3, TakenIsTakenOf DEF MapState
    <2>5. AgreesOnCalls(q)
      BY <2>1, <2>3
    <2>6. Head(request.out) = System
      BY <2>3, <2>5, HeadOfSeq DEF AgreesOnCalls, Leads
    <2> QED BY <1>0, <1>2, <2>3, <2>4, <2>5, <2>6 DEF AgreesOnCalls
  <1>3. CASE route = "chat"
    <2>1. request = MapChat(conversation)
      BY <1>3 DEF Mapped
    <2>2. Head(request.out).role = "system"
      BY <2>1, ChatLeads
    <2> QED BY <1>3, <2>2
  <1> QED BY <1>1, <1>2, <1>3 DEF Routes

-----------------------------------------------------------------------------
(* What the client says is typed *)

LEMMA WordsAreParts ==
    /\ Text \in Parts /\ Image \in Parts
    /\ \A id \in CallIds : Part("use", id) \in Parts /\ Part("result", id) \in Parts
  BY DEF Parts, Part, Text, Image

LEMMA UptoIsSeq ==
    ASSUME NEW n \in Nat, NEW S, S \subseteq Parts, NEW f \in Upto(n, S)
    PROVE  f \in Seq(Parts) \ {<<>>}
  <1>1. PICK k \in 1 .. n : f \in [1 .. k -> S]
    BY DEF Upto
  <1>2. f \in Seq(S) /\ Len(f) = k
    BY <1>1, FunctionIsList
  <1>3. f \in Seq(Parts)
    BY <1>2, SeqMonotonic
  <1>4. Len(f) # 0
    BY <1>1, <1>2
  <1> QED BY <1>3, <1>4, EmptySeq

LEMMA MessageTyped ==
    ASSUME NEW r \in Roles, NEW p \in Seq(Parts) \ {<<>>}
    PROVE  Message(r, p) \in Msg
  BY DEF Message, Msg

LEMMA OnePartTyped ==
    ASSUME NEW r \in Roles, NEW p \in Parts
    PROVE  Message(r, <<p>>) \in Msg
  <1> DEFINE one == <<p>>
  <1>1. one \in Seq(Parts) /\ one # <<>>
    BY OneIsList
  <1> HIDE DEF one
  <1>2. Message(r, one) \in Msg
    BY <1>1, MessageTyped
  <1> QED BY <1>2 DEF one

LEMMA ClientIsTyped ==
    ASSUME bound \in Bounds, route \in Routes, NEW m \in ClientMessages
    PROVE  m \in Msg
  <1>1. bound.parts \in Nat /\ bound.words \subseteq Parts
    BY BoundsAreKnown, WordsAreParts
  <1>2. Uses \subseteq Parts /\ Results \subseteq Parts
    BY WordsAreParts DEF Uses, Results
  <1>3. bound.words \cup Uses \cup Results \subseteq Parts /\ bound.words \cup Uses \subseteq Parts
    BY <1>1, <1>2
  <1>4. /\ OneOf(bound.words) \subseteq Seq(Parts) \ {<<>>}
        /\ OneOf(Uses \cup Results) \subseteq Seq(Parts) \ {<<>>}
        /\ OneOf(Results) \subseteq Seq(Parts) \ {<<>>}
        /\ Upto(bound.parts, bound.words \cup Uses \cup Results) \subseteq Seq(Parts) \ {<<>>}
        /\ Upto(bound.parts, bound.words \cup Uses) \subseteq Seq(Parts) \ {<<>>}
    <2>1. \A S \in SUBSET Parts : OneOf(S) \subseteq Seq(Parts) \ {<<>>}
      <3>1. ASSUME NEW p \in Parts PROVE <<p>> \in Seq(Parts) \ {<<>>}
        BY OneIsList
      <3> QED BY <3>1 DEF OneOf
    <2> QED BY <1>1, <1>2, <1>3, <2>1, UptoIsSeq
  <1>5. m \in PossibleMessages
    BY DEF ClientMessages
  <1>6. CASE route = "messages"
    BY <1>4, <1>5, <1>6 DEF PossibleMessages, MessagesSchema, Msg, Roles
  <1>7. CASE route = "responses"
    BY <1>4, <1>5, <1>7 DEF PossibleMessages, ResponsesSchema, Msg, Roles
  <1>8. CASE route = "chat"
    BY <1>4, <1>5, <1>8 DEF PossibleMessages, ChatSchema, Msg, Roles
  <1> QED BY <1>6, <1>7, <1>8 DEF Routes

-----------------------------------------------------------------------------
(* Tool calls by their indices *)

Pieces == {"{", "}", "1"}
Words == STRING \cup Pieces
Reasons == Stops \cup {"", "error"}
CallRec == [index : Int, id : AnyId, name : Seq(STRING), args : Seq(Pieces), block : Nat]
Indexed(calls) == \A j, k \in DOMAIN calls : calls[j].index = calls[k].index => j = k
Calls == {s \in Seq(CallRec) : Indexed(s)}

LEMMA CallsAreSeq ==
    ASSUME NEW calls \in Calls
    PROVE  /\ calls \in Seq(CallRec) /\ Len(calls) \in Nat /\ DOMAIN calls = 1 .. Len(calls)
           /\ \A k \in DOMAIN calls : calls[k] \in CallRec
           /\ \A j, k \in DOMAIN calls : calls[j].index = calls[k].index => j = k
  BY LenProperties, ElementOfSeq DEF Calls, Indexed

LEMMA OneFurther ==
    ASSUME NEW calls \in Calls
    PROVE  /\ Len(calls) + 1 \in 1 .. Len(calls) + 1
           /\ \A k \in DOMAIN calls : k \in 1 .. Len(calls) + 1 /\ k # Len(calls) + 1
           /\ \A k \in 1 .. Len(calls) + 1 : k \in DOMAIN calls \/ k = Len(calls) + 1
  <1>1. Len(calls) \in Nat /\ DOMAIN calls = 1 .. Len(calls)
    BY CallsAreSeq
  <1> QED BY <1>1

LEMMA NoCalls == <<>> \in Calls
  BY EmptySeq DEF Calls, Indexed

LEMMA NoCallTyped ==
    /\ NoCall \in CallRec
    /\ NoCall.id = "" /\ NoCall.name = <<>> /\ NoCall.args = <<>> /\ NoCall.block = 0
  <1> DEFINE none == <<>>
  <1>1. none \in Seq(STRING) /\ none \in Seq(Pieces) /\ "" \in AnyId /\ 0 \in Nat /\ -1 \in Int
    BY EmptySeq DEF AnyId
  <1>2. NoCall = [index |-> -1, id |-> "", name |-> none, args |-> none, block |-> 0]
    BY DEF NoCall
  <1> HIDE DEF none
  <1>3. NoCall \in CallRec
    BY <1>1, <1>2 DEF CallRec
  <1>4. NoCall.id = "" /\ NoCall.name = none /\ NoCall.args = none /\ NoCall.block = 0
    BY <1>2
  <1> QED BY <1>3, <1>4 DEF none

\* a call of which nothing is known yet
New(i) == [NoCall EXCEPT !.index = i]

LEMMA NewCall ==
    ASSUME NEW i \in Int
    PROVE  /\ New(i) \in CallRec /\ New(i).index = i
           /\ New(i).id = "" /\ New(i).name = <<>> /\ New(i).args = <<>> /\ New(i).block = 0
  BY NoCallTyped DEF New, CallRec

LEMMA GetIsCall ==
    ASSUME NEW calls \in Calls, NEW i \in Int
    PROVE  /\ Get(calls, i) \in CallRec /\ Get(calls, i).index = i
           /\ Has(calls, i) => \E k \in DOMAIN calls : calls[k] = Get(calls, i)
           /\ ~Has(calls, i) => Get(calls, i) = New(i)
           /\ \A k \in DOMAIN calls : calls[k].index = i => calls[k] = Get(calls, i)
  <1>1. CASE Has(calls, i)
    <2> DEFINE c == CHOOSE k \in DOMAIN calls : calls[k].index = i
    <2>1. c \in DOMAIN calls /\ calls[c].index = i
      BY <1>1 DEF Has
    <2>2. Get(calls, i) = calls[c]
      BY <1>1 DEF Get
    <2> HIDE DEF c
    <2> QED BY <1>1, <2>1, <2>2, CallsAreSeq
  <1>2. CASE ~Has(calls, i)
    <2>1. Get(calls, i) = New(i)
      BY <1>2 DEF Get, New
    <2> QED BY <1>2, <2>1, NewCall DEF Has
  <1> QED BY <1>1, <1>2

LEMMA PutIsCalls ==
    ASSUME NEW calls \in Calls, NEW c \in CallRec
    PROVE  /\ Put(calls, c) \in Calls
           /\ Has(calls, c.index) =>
                 /\ Len(Put(calls, c)) = Len(calls) /\ DOMAIN Put(calls, c) = DOMAIN calls
                 /\ \A k \in DOMAIN calls :
                       Put(calls, c)[k] = IF calls[k].index = c.index THEN c ELSE calls[k]
           /\ ~Has(calls, c.index) =>
                 /\ Put(calls, c) = Append(calls, c)
                 /\ DOMAIN Put(calls, c) = 1 .. Len(calls) + 1 /\ Len(Put(calls, c)) = Len(calls) + 1
                 /\ \A k \in DOMAIN calls : Put(calls, c)[k] = calls[k]
                 /\ Put(calls, c)[Len(calls) + 1] = c
  <1>0. /\ Len(calls) \in Nat /\ DOMAIN calls = 1 .. Len(calls) /\ calls \in Seq(CallRec)
        /\ \A k \in DOMAIN calls : calls[k] \in CallRec
        /\ \A j, k \in DOMAIN calls : calls[j].index = calls[k].index => j = k
    BY CallsAreSeq
  <1>1. CASE Has(calls, c.index)
    <2> DEFINE f == [k \in DOMAIN calls |-> IF calls[k].index = c.index THEN c ELSE calls[k]]
    <2>1. Put(calls, c) = f
      BY <1>1 DEF Put
    <2>2. f \in [1 .. Len(calls) -> CallRec]
      BY <1>0
    <2>3. \A k \in DOMAIN calls : f[k] = IF calls[k].index = c.index THEN c ELSE calls[k]
      OBVIOUS
    <2> HIDE DEF f
    <2>4. f \in Seq(CallRec) /\ Len(f) = Len(calls) /\ DOMAIN f = DOMAIN calls
      BY <1>0, <2>2, FunctionIsList
    <2>5. Indexed(f)
      BY <1>0, <2>3, <2>4 DEF Indexed
    <2> QED BY <1>1, <2>1, <2>3, <2>4, <2>5 DEF Calls
  <1>2. CASE ~Has(calls, c.index)
    <2> DEFINE f == Append(calls, c)
    <2>1. Put(calls, c) = f
      BY <1>2 DEF Put
    <2>2. /\ f \in Seq(CallRec) /\ Len(f) = Len(calls) + 1 /\ DOMAIN f = 1 .. Len(calls) + 1
          /\ \A k \in DOMAIN calls : f[k] = calls[k]
          /\ f[Len(calls) + 1] = c
      BY <1>0, AppendProperties, LenProperties
    <2> HIDE DEF f
    <2>3. \A k \in 1 .. Len(calls) + 1 : k \in DOMAIN calls \/ k = Len(calls) + 1
      BY <1>0
    <2>4. \A k \in DOMAIN calls : calls[k].index # c.index
      BY <1>2 DEF Has
    <2>5. Indexed(f)
      BY <1>0, <2>2, <2>3, <2>4 DEF Indexed
    <2> QED BY <1>2, <2>1, <2>2, <2>5 DEF Calls, f
  <1> QED BY <1>1, <1>2

\* the next state of a call
LEMMA CallTyped ==
    ASSUME NEW c \in CallRec, NEW id \in AnyId, NEW name \in Seq(STRING), NEW args \in Seq(Pieces)
    PROVE  LET d == [c EXCEPT !.id = id, !.name = name, !.args = args]
           IN  /\ d \in CallRec /\ d.index = c.index /\ d.block = c.block
               /\ d.id = id /\ d.name = name /\ d.args = args
  BY DEF CallRec

-----------------------------------------------------------------------------
(* Chat completions: what the aggregator has, and what a streaming client has *)

ChatType ==
    [text : Seq(STRING), calls : Calls, finish : Reasons, failed : BOOLEAN,
     sText : Seq(STRING), sCalls : Calls, sFinish : Reasons]
AccumulateStep == [q \in ChatType \X CallFrame |-> Accumulate(q[1], q[2])]
ReceivedStep == [q \in Calls \X CallFrame |-> Received(q[1], q[2])]

FrameFields(f) == f.index \in Int /\ f.id \in AnyId /\ f.name \in Seq(STRING) /\ f.args \in Seq(Pieces)

LEMMA FrameTyped == \A f \in CallFrame : FrameFields(f)
  BY DEF CallFrame, FrameFields, Pieces

\* the call as the aggregator knows it after a frame, and as a client does
Gathered(c, f) ==
    [c EXCEPT !.id = IF f.id = "" THEN @ ELSE f.id,
              !.name = IF c.args = <<>> THEN @ \o f.name ELSE @,
              !.args = @ \o f.args]
Seen(c, f) ==
    [c EXCEPT !.id = IF f.id = "" THEN @ ELSE f.id,
              !.name = @ \o f.name, !.args = @ \o f.args]

LEMMA GatheredTyped ==
    ASSUME NEW c \in CallRec, NEW f, FrameFields(f)
    PROVE  /\ Gathered(c, f) \in CallRec /\ Gathered(c, f).index = c.index
           /\ Gathered(c, f).id = IF f.id = "" THEN c.id ELSE f.id
           /\ Seen(c, f) \in CallRec /\ Seen(c, f).index = c.index
  <1> DEFINE id == IF f.id = "" THEN c.id ELSE f.id
             name == IF c.args = <<>> THEN c.name \o f.name ELSE c.name
             args == c.args \o f.args
             name2 == c.name \o f.name
  <1>1. id \in AnyId /\ name \in Seq(STRING) /\ args \in Seq(Pieces) /\ name2 \in Seq(STRING)
    BY ConcatProperties DEF CallRec, FrameFields
  <1>2. /\ Gathered(c, f) = [c EXCEPT !.id = id, !.name = name, !.args = args]
        /\ Seen(c, f) = [c EXCEPT !.id = id, !.name = name2, !.args = args]
    BY DEF Gathered, Seen
  <1> HIDE DEF id, name, args, name2
  <1>3. LET g == [c EXCEPT !.id = id, !.name = name, !.args = args]
        IN  g \in CallRec /\ g.index = c.index /\ g.id = id
    BY <1>1 DEF CallRec
  <1>4. LET g == [c EXCEPT !.id = id, !.name = name2, !.args = args]
        IN  g \in CallRec /\ g.index = c.index
    BY <1>1 DEF CallRec
  <1> QED BY <1>2, <1>3, <1>4 DEF id

LEMMA AccumulateTyped ==
    ASSUME NEW b \in ChatType, NEW f \in CallFrame
    PROVE  /\ Accumulate(b, f) \in ChatType
           /\ ~Accumulate(b, f).failed =>
                 /\ ~b.failed
                 /\ Accumulate(b, f) =
                       [b EXCEPT !.calls = Put(@, Gathered(Get(b.calls, f.index), f))]
  <1> DEFINE c == Get(b.calls, f.index)
             more == Put(b.calls, Gathered(c, f))
  <1>1. FrameFields(f)
    BY FrameTyped
  <1>2. c \in CallRec /\ Gathered(c, f) \in CallRec
    BY <1>1, GetIsCall, GatheredTyped DEF ChatType, FrameFields
  <1>3. more \in Calls
    BY <1>2, PutIsCalls DEF ChatType
  <1>4. Accumulate(b, f) = IF b.failed \/ ~ValidIndex(f.index) \/ ~SameId(c, f) THEN Fail(b)
                           ELSE [b EXCEPT !.calls = more]
    BY DEF Accumulate, Gathered
  <1> HIDE DEF more
  <1>5. Fail(b) \in ChatType /\ Fail(b).failed
    BY DEF Fail, ChatType
  <1>6. [b EXCEPT !.calls = more] \in ChatType /\ [b EXCEPT !.calls = more].failed = b.failed
    BY <1>3 DEF ChatType
  <1> QED BY <1>4, <1>5, <1>6 DEF more

LEMMA AccumulateIsStep == AccumulateStep \in Steps(ChatType, CallFrame)
  BY AccumulateTyped DEF AccumulateStep, Steps

LEMMA DeltaTyped ==
    ASSUME NEW f \in CallFrame
    PROVE  FrameFields(Delta(f)) /\ Delta(f).index = f.index /\ Delta(f).id = f.id
           /\ Delta(f).args = f.args /\ Delta(f).name = IF f.id # "" THEN f.name ELSE <<>>
  BY EmptySeq DEF Delta, CallFrame, FrameFields, Pieces

LEMMA ReceivedTyped ==
    ASSUME NEW calls \in Calls, NEW f \in CallFrame
    PROVE  /\ Received(calls, f) \in Calls
           /\ Received(calls, f) = IF Shell(f) THEN calls
                                   ELSE Put(calls, Seen(Get(calls, f.index), Delta(f)))
  <1> DEFINE c == Get(calls, f.index)
  <1>1. FrameFields(f) /\ FrameFields(Delta(f))
    BY FrameTyped, DeltaTyped
  <1>2. c \in CallRec /\ Seen(c, Delta(f)) \in CallRec
    BY <1>1, GetIsCall, GatheredTyped DEF FrameFields
  <1>3. Put(calls, Seen(c, Delta(f))) \in Calls
    BY <1>2, PutIsCalls
  <1>4. Received(calls, f) = IF Shell(f) THEN calls ELSE Put(calls, Seen(c, Delta(f)))
    BY DEF Received, Seen
  <1> QED BY <1>3, <1>4

LEMMA ReceivedIsStep == ReceivedStep \in Steps(Calls, CallFrame)
  BY ReceivedTyped DEF ReceivedStep, Steps

LEMMA AccumulateIsFold ==
    ASSUME NEW base \in ChatType, NEW s \in Seq(CallFrame)
    PROVE  FoldLeft(Accumulate, base, s) = Fold(AccumulateStep, base, s)
  <1> DEFINE Maps(g) ==
        g = [t \in SUBSET DOMAIN s |->
                IF t = {} THEN base ELSE Accumulate(g[t \ {Max(t)}], s[Max(t)])]
  <1>1. PICK g \in [SUBSET DOMAIN s -> ChatType] : IsFold(g, AccumulateStep, base, s)
    BY AccumulateIsStep, TableExists
  <1>2. Maps(g)
    <2>1. ASSUME NEW t \in SUBSET DOMAIN s, t # {}
          PROVE  AccumulateStep[<<g[t \ {Max(t)}], s[Max(t)]>>]
                    = Accumulate(g[t \ {Max(t)}], s[Max(t)])
      <3>1. s[Max(t)] \in CallFrame /\ g[t \ {Max(t)}] \in ChatType
        BY <1>1, <2>1, ElementOfTable
      <3> QED BY <3>1 DEF AccumulateStep
    <2> QED BY <1>1, <2>1 DEF IsFold
  <1> DEFINE h == CHOOSE h : Maps(h)
  <1>3. Maps(h)
    BY <1>2
  <1>4. FoldLeft(Accumulate, base, s) = h[DOMAIN s]
    BY DEF FoldLeft, MapThenFoldSet
  <1> HIDE DEF h
  <1>5. Computes(h, ChatType, AccumulateStep, base, s)
    <2>1. ASSUME NEW t \in SUBSET DOMAIN s, t # {}, h[t \ {Max(t)}] \in ChatType
          PROVE  h[t] = AccumulateStep[<<h[t \ {Max(t)}], s[Max(t)]>>]
      <3>1. s[Max(t)] \in CallFrame
        BY <2>1, ElementOfTable
      <3>2. h[t] = Accumulate(h[t \ {Max(t)}], s[Max(t)])
        BY <1>3, <2>1
      <3> QED BY <2>1, <3>1, <3>2 DEF AccumulateStep
    <2>2. h[{}] = base
      BY <1>3
    <2> QED BY <2>1, <2>2 DEF Computes
  <1> QED BY <1>4, <1>5, AccumulateIsStep, FoldLink

LEMMA ReceivedIsFold ==
    ASSUME NEW base \in Calls, NEW s \in Seq(CallFrame)
    PROVE  FoldLeft(Received, base, s) = Fold(ReceivedStep, base, s)
  <1> DEFINE Maps(g) ==
        g = [t \in SUBSET DOMAIN s |->
                IF t = {} THEN base ELSE Received(g[t \ {Max(t)}], s[Max(t)])]
  <1>1. PICK g \in [SUBSET DOMAIN s -> Calls] : IsFold(g, ReceivedStep, base, s)
    BY ReceivedIsStep, TableExists
  <1>2. Maps(g)
    <2>1. ASSUME NEW t \in SUBSET DOMAIN s, t # {}
          PROVE  ReceivedStep[<<g[t \ {Max(t)}], s[Max(t)]>>]
                    = Received(g[t \ {Max(t)}], s[Max(t)])
      <3>1. s[Max(t)] \in CallFrame /\ g[t \ {Max(t)}] \in Calls
        BY <1>1, <2>1, ElementOfTable
      <3> QED BY <3>1 DEF ReceivedStep
    <2> QED BY <1>1, <2>1 DEF IsFold
  <1> DEFINE h == CHOOSE h : Maps(h)
  <1>3. Maps(h)
    BY <1>2
  <1>4. FoldLeft(Received, base, s) = h[DOMAIN s]
    BY DEF FoldLeft, MapThenFoldSet
  <1> HIDE DEF h
  <1>5. Computes(h, Calls, ReceivedStep, base, s)
    <2>1. ASSUME NEW t \in SUBSET DOMAIN s, t # {}, h[t \ {Max(t)}] \in Calls
          PROVE  h[t] = ReceivedStep[<<h[t \ {Max(t)}], s[Max(t)]>>]
      <3>1. s[Max(t)] \in CallFrame
        BY <2>1, ElementOfTable
      <3>2. h[t] = Received(h[t \ {Max(t)}], s[Max(t)])
        BY <1>3, <2>1
      <3> QED BY <2>1, <3>1, <3>2 DEF ReceivedStep
    <2>2. h[{}] = base
      BY <1>3
    <2> QED BY <2>1, <2>2 DEF Computes
  <1> QED BY <1>4, <1>5, ReceivedIsStep, FoldLink

IndexSet(s) == {s[k].index : k \in DOMAIN s}
\* no frame but the first of a call has an id or a name, the calls of `old` having begun
Tells(old, s) ==
    \A k \in DOMAIN s :
        s[k].index \in old \cup {s[j].index : j \in 1 .. k - 1} => s[k].id = "" /\ s[k].name = <<>>
\* a client has the same calls, if all have their ids
Mirrors(calls, sCalls) == (\A k \in DOMAIN calls : calls[k].id # "") => sCalls = calls

LEMMA IndexSetOfAppend ==
    ASSUME NEW S, NEW s \in Seq(S), NEW e \in S
    PROVE  IndexSet(Append(s, e)) = IndexSet(s) \cup {e.index}
  <1>1. /\ DOMAIN s = 1 .. Len(s) /\ Len(s) \in Nat
        /\ DOMAIN Append(s, e) = 1 .. Len(s) + 1
        /\ \A i \in 1 .. Len(s) : Append(s, e)[i] = s[i]
        /\ Append(s, e)[Len(s) + 1] = e
    BY LenProperties, AppendProperties
  <1>2. /\ \A i \in 1 .. Len(s) + 1 : i = Len(s) + 1 \/ i \in 1 .. Len(s)
        /\ \A i \in 1 .. Len(s) : i \in 1 .. Len(s) + 1
        /\ Len(s) + 1 \in 1 .. Len(s) + 1
    BY <1>1
  <1> QED BY <1>1, <1>2 DEF IndexSet

LEMMA TellsOfAppend ==
    ASSUME NEW S, NEW s \in Seq(S), NEW e \in S, NEW old, Tells(old, Append(s, e))
    PROVE  Tells(old, s) /\ (e.index \in old \cup IndexSet(s) => e.id = "" /\ e.name = <<>>)
  <1>1. /\ DOMAIN s = 1 .. Len(s) /\ Len(s) \in Nat
        /\ DOMAIN Append(s, e) = 1 .. Len(s) + 1
        /\ \A i \in 1 .. Len(s) : Append(s, e)[i] = s[i]
        /\ Append(s, e)[Len(s) + 1] = e
    BY LenProperties, AppendProperties
  <1>2. /\ \A i \in 1 .. Len(s) : i \in 1 .. Len(s) + 1 /\ \A j \in 1 .. i - 1 : j \in 1 .. Len(s)
        /\ Len(s) + 1 \in 1 .. Len(s) + 1
        /\ 1 .. (Len(s) + 1) - 1 = 1 .. Len(s)
    BY <1>1
  <1>3. Tells(old, s)
    <2> SUFFICES ASSUME NEW k \in 1 .. Len(s),
                        s[k].index \in old \cup {s[j].index : j \in 1 .. k - 1}
                 PROVE  s[k].id = "" /\ s[k].name = <<>>
      BY <1>1 DEF Tells
    <2>1. {s[j].index : j \in 1 .. k - 1} = {Append(s, e)[j].index : j \in 1 .. k - 1}
      BY <1>1, <1>2
    <2> QED BY <1>1, <1>2, <2>1 DEF Tells
  <1>4. ASSUME e.index \in old \cup IndexSet(s) PROVE e.id = "" /\ e.name = <<>>
    <2> DEFINE n == Len(s) + 1
    <2>1. {Append(s, e)[j].index : j \in 1 .. n - 1} = IndexSet(s)
      BY <1>1, <1>2 DEF IndexSet
    <2>2. n \in DOMAIN Append(s, e) /\ Append(s, e)[n] = e
      BY <1>1, <1>2
    <2> HIDE DEF n
    <2> QED BY <1>4, <2>1, <2>2 DEF Tells
  <1> QED BY <1>3, <1>4

\* a call that is there is put in its own place
LEMMA PutSame ==
    ASSUME NEW calls \in Calls, NEW c \in CallRec, NEW k \in DOMAIN calls, calls[k] = c
    PROVE  Put(calls, c) = calls
  <1>1. Has(calls, c.index)
    BY DEF Has
  <1>2. /\ Put(calls, c) \in Calls /\ Len(Put(calls, c)) = Len(calls)
        /\ \A j \in DOMAIN calls : Put(calls, c)[j] = IF calls[j].index = c.index THEN c ELSE calls[j]
    BY <1>1, PutIsCalls
  <1>3. \A j \in DOMAIN calls : Put(calls, c)[j] = calls[j]
    BY <1>2, CallsAreSeq
  <1> QED BY <1>2, <1>3, SeqEqual, CallsAreSeq

LEMMA IndicesOfPut ==
    ASSUME NEW calls \in Calls, NEW c \in CallRec
    PROVE  /\ IndexSet(Put(calls, c)) = IndexSet(calls) \cup {c.index}
           /\ Has(calls, c.index) <=> c.index \in IndexSet(calls)
  <1>1. Has(calls, c.index) <=> c.index \in IndexSet(calls)
    BY DEF Has, IndexSet
  <1>2. CASE Has(calls, c.index)
    <2>1. /\ DOMAIN Put(calls, c) = DOMAIN calls
          /\ \A k \in DOMAIN calls : Put(calls, c)[k].index = calls[k].index
      BY <1>2, PutIsCalls
    <2>2. IndexSet(Put(calls, c)) = IndexSet(calls)
      BY <2>1 DEF IndexSet
    <2> QED BY <1>1, <1>2, <2>2
  <1>3. CASE ~Has(calls, c.index)
    <2>1. Put(calls, c) = Append(calls, c)
      BY <1>3, PutIsCalls
    <2> QED BY <1>1, <2>1, IndexSetOfAppend, CallsAreSeq
  <1> QED BY <1>2, <1>3

LEMMA NothingMore == \A S : \A s \in Seq(S) : s \o <<>> = s /\ <<>> \o s = s
  BY ConcatEmptySeq

\* what both make of a frame
LEMMA FrameMirrors ==
    ASSUME NEW calls \in Calls, NEW sCalls \in Calls, NEW f \in CallFrame,
           Mirrors(calls, sCalls), f.index \in IndexSet(calls) => f.id = "" /\ f.name = <<>>
    PROVE  Mirrors(Put(calls, Gathered(Get(calls, f.index), f)), Received(sCalls, f))
  <1> DEFINE c == Get(calls, f.index)
             d == Gathered(c, f)
             more == Put(calls, d)
  <1> SUFFICES ASSUME \A k \in DOMAIN more : more[k].id # ""
               PROVE  Received(sCalls, f) = more
    BY DEF Mirrors
  <1>1. FrameFields(f) /\ FrameFields(Delta(f))
    BY FrameTyped, DeltaTyped
  <1>2. c \in CallRec /\ c.index = f.index
    BY <1>1, GetIsCall DEF FrameFields
  <1>3. d \in CallRec /\ d.index = f.index /\ d.id = IF f.id = "" THEN c.id ELSE f.id
    BY <1>1, <1>2, GatheredTyped
  <1>4. c.name \in Seq(STRING) /\ c.args \in Seq(Pieces) /\ f.name \in Seq(STRING) /\ f.args \in Seq(Pieces)
    BY <1>1, <1>2 DEF FrameFields, CallRec
  <1>5. Received(sCalls, f) = IF Shell(f) THEN sCalls
                              ELSE Put(sCalls, Seen(Get(sCalls, f.index), Delta(f)))
    BY ReceivedTyped
  <1>6. CASE f.index \in IndexSet(calls)
    <2>1. f.id = "" /\ f.name = <<>> /\ Has(calls, d.index)
      BY <1>3, <1>6, IndicesOfPut
    <2>2. DOMAIN more = DOMAIN calls
          /\ \A k \in DOMAIN calls : more[k] = IF calls[k].index = d.index THEN d ELSE calls[k]
      BY <1>3, <2>1, PutIsCalls
    <2>3. PICK n \in DOMAIN calls : calls[n] = c
      BY <1>1, <1>3, <2>1, GetIsCall DEF FrameFields
    <2>4. ASSUME NEW k \in DOMAIN calls PROVE calls[k].id # ""
      <3>1. CASE calls[k].index = d.index
        <4> HIDE DEF more, d
        <4>1. calls[k] = c
          <5>1. f.index \in Int /\ calls[k].index = f.index
            BY <1>1, <1>3, <3>1 DEF FrameFields
          <5> QED BY <5>1, GetIsCall
        <4>2. more[k] = d
          BY <2>2, <3>1
        <4> HIDE DEF c
        <4> QED BY <1>3, <2>1, <2>2, <4>1, <4>2
      <3>2. CASE calls[k].index # d.index
        <4> HIDE DEF more, d, c
        <4> QED BY <2>2, <3>2
      <3> QED BY <3>1, <3>2
    <2>5. sCalls = calls
      BY <2>4 DEF Mirrors
    <2>6. c.name \o <<>> = c.name /\ c.args \o <<>> = c.args
      BY <1>4, NothingMore
    <2>7. Gathered(c, f) = [c EXCEPT !.id = c.id, !.name = c.name, !.args = c.args \o f.args]
      BY <2>1, <2>6 DEF Gathered
    <2>8. CASE Shell(f)
      <3>1. f.args = <<>>
        BY <2>8 DEF Shell
      <3>2. [c EXCEPT !.id = c.id, !.name = c.name, !.args = c.args] = c
        BY <1>2 DEF CallRec
      <3>3. d = c
        BY <2>6, <2>7, <3>1, <3>2
      <3> HIDE DEF c, d
      <3> QED BY <1>2, <1>5, <2>3, <2>5, <2>8, <3>3, PutSame
    <2>9. CASE ~Shell(f)
      <3>1. Delta(f).id = "" /\ Delta(f).name = <<>> /\ Delta(f).args = f.args
        BY <2>1, DeltaTyped
      <3>2. Seen(c, Delta(f)) = [c EXCEPT !.id = c.id, !.name = c.name, !.args = c.args \o f.args]
        BY <2>6, <3>1 DEF Seen
      <3>3. Seen(c, Delta(f)) = d
        BY <2>7, <3>2
      <3> QED BY <1>5, <2>5, <2>9, <3>3
    <2> QED BY <2>8, <2>9
  <1>7. CASE f.index \notin IndexSet(calls)
    <2>1. ~Has(calls, d.index)
      BY <1>3, <1>7, IndicesOfPut
    <2>2. c = New(f.index)
      BY <1>1, <1>3, <2>1, GetIsCall DEF FrameFields
    <2>3. c.id = "" /\ c.name = <<>> /\ c.args = <<>>
      BY <1>1, <2>2, NewCall DEF FrameFields
    <2>4. /\ DOMAIN more = 1 .. Len(calls) + 1 /\ more[Len(calls) + 1] = d
          /\ \A k \in DOMAIN calls : more[k] = calls[k]
      BY <1>3, <2>1, PutIsCalls
    <2> HIDE DEF more, c, d
    <2>5. Len(calls) + 1 \in 1 .. Len(calls) + 1 /\ \A k \in DOMAIN calls : k \in 1 .. Len(calls) + 1
      BY OneFurther
    <2>6. f.id # ""
      BY <1>3, <2>3, <2>4, <2>5
    <2>7. \A k \in DOMAIN calls : calls[k].id # ""
      BY <2>4, <2>5
    <2>8. sCalls = calls
      BY <2>7 DEF Mirrors
    <2>9. ~Shell(f) /\ Delta(f) = f
      BY <2>6 DEF Shell, Delta
    <2>10. Seen(c, f) = d
      BY <2>3 DEF Seen, Gathered, d
    <2> QED BY <1>5, <2>8, <2>9, <2>10 DEF more, c
  <1> QED BY <1>6, <1>7

\* and of the frames of a chunk
LEMMA ChatFrames ==
    ASSUME NEW b \in ChatType, NEW sc \in Calls, NEW s \in Seq(CallFrame)
    PROVE  LET q == FoldLeft(Accumulate, b, s)
               r == FoldLeft(Received, sc, s)
           IN  /\ q \in ChatType /\ r \in Calls
               /\ ~q.failed =>
                     /\ q.text = b.text /\ q.finish = b.finish
                     /\ q.sText = b.sText /\ q.sFinish = b.sFinish /\ q.sCalls = b.sCalls
                     /\ Mirrors(b.calls, sc) /\ Tells(IndexSet(b.calls), s) => Mirrors(q.calls, r)
  <1> DEFINE Q(u) == Fold(AccumulateStep, b, u)
             R(u) == Fold(ReceivedStep, sc, u)
             Same(q) == /\ q.text = b.text /\ q.finish = b.finish
                        /\ q.sText = b.sText /\ q.sFinish = b.sFinish /\ q.sCalls = b.sCalls
             Good(u) == ~Q(u).failed =>
                           /\ Same(Q(u))
                           /\ IndexSet(Q(u).calls) = IndexSet(b.calls) \cup IndexSet(u)
                           /\ Mirrors(b.calls, sc) /\ Tells(IndexSet(b.calls), u)
                                => Mirrors(Q(u).calls, R(u))
             G == {u \in Seq(CallFrame) : Good(u)}
  <1>1. /\ \A u \in Seq(CallFrame) : Q(u) \in ChatType
        /\ Q(<<>>) = b
        /\ \A u \in Seq(CallFrame), f \in CallFrame : Q(Append(u, f)) = AccumulateStep[<<Q(u), f>>]
    BY AccumulateIsStep, FoldSteps
  <1>2. /\ \A u \in Seq(CallFrame) : R(u) \in Calls
        /\ R(<<>>) = sc
        /\ \A u \in Seq(CallFrame), f \in CallFrame : R(Append(u, f)) = ReceivedStep[<<R(u), f>>]
    BY ReceivedIsStep, FoldSteps
  <1> HIDE DEF Q, R
  <1>3. <<>> \in G
    <2>1. IndexSet(<<>>) = {}
      BY DEF IndexSet
    <2>2. Good(<<>>)
      BY <1>1, <1>2, <2>1
    <2> HIDE DEF Good
    <2> QED BY <2>2, EmptySeq
  <1>4. ASSUME NEW u \in Seq(CallFrame), NEW f \in CallFrame, u \in G PROVE Append(u, f) \in G
    <2> DEFINE q == Q(u)
               c == Get(q.calls, f.index)
               more == Put(q.calls, Gathered(c, f))
    <2>1. q \in ChatType /\ R(u) \in Calls /\ Append(u, f) \in Seq(CallFrame)
      BY <1>1, <1>2, AppendProperties
    <2>2. Q(Append(u, f)) = Accumulate(q, f) /\ R(Append(u, f)) = Received(R(u), f)
      BY <1>1, <1>2, <2>1 DEF AccumulateStep, ReceivedStep
    <2> SUFFICES ASSUME ~Accumulate(q, f).failed PROVE Good(Append(u, f))
      BY <2>1, <2>2
    <2>3. ~q.failed /\ Accumulate(q, f) = [q EXCEPT !.calls = more]
      BY <2>1, AccumulateTyped
    <2>4. Good(u)
      BY <1>4
    <2> HIDE DEF more, q
    <2>5. Q(Append(u, f)).calls = more /\ (Same(q) => Same(Q(Append(u, f))))
      BY <2>1, <2>2, <2>3 DEF ChatType
    <2>6. Same(q) /\ IndexSet(q.calls) = IndexSet(b.calls) \cup IndexSet(u)
      BY <2>3, <2>4 DEF q
    <2>7. c \in CallRec /\ c.index = f.index /\ Gathered(c, f) \in CallRec
          /\ Gathered(c, f).index = f.index
      <3>1. FrameFields(f) /\ q.calls \in Calls /\ f.index \in Int
        BY <2>1, FrameTyped DEF ChatType, FrameFields
      <3>2. c \in CallRec /\ c.index = f.index
        BY <3>1, GetIsCall
      <3> HIDE DEF c
      <3> QED BY <3>1, <3>2, GatheredTyped
    <2>8. IndexSet(more) = IndexSet(b.calls) \cup IndexSet(Append(u, f))
      <3>1. IndexSet(more) = IndexSet(q.calls) \cup {f.index}
        BY <2>1, <2>7, IndicesOfPut DEF more, ChatType
      <3> QED BY <2>6, <3>1, IndexSetOfAppend
    <2>9. ASSUME Mirrors(b.calls, sc), Tells(IndexSet(b.calls), Append(u, f))
          PROVE  Mirrors(more, Received(R(u), f))
      <3>1. Tells(IndexSet(b.calls), u)
            /\ (f.index \in IndexSet(b.calls) \cup IndexSet(u) => f.id = "" /\ f.name = <<>>)
        BY <2>9, TellsOfAppend
      <3>2. Mirrors(q.calls, R(u))
        BY <2>3, <2>4, <2>9, <3>1 DEF q
      <3>3. q.calls \in Calls
        BY <2>1 DEF ChatType
      <3> QED BY <2>1, <2>6, <3>1, <3>2, <3>3, FrameMirrors DEF more
    <2> QED BY <2>2, <2>5, <2>6, <2>8, <2>9
  <1> HIDE DEF G
  <1>5. s \in G
    BY <1>3, <1>4, SeqInduction
  <1>6. FoldLeft(Accumulate, b, s) = Q(s) /\ FoldLeft(Received, sc, s) = R(s)
    BY AccumulateIsFold, ReceivedIsFold DEF Q, R
  <1> QED BY <1>1, <1>2, <1>5, <1>6 DEF G

\* The invariant of the aggregator and of its streaming client, if the upstream is
\* tidy in what it sends.
ChatHolds(b, told) ==
    /\ b \in ChatType
    /\ ~b.failed => /\ b.sText = b.text /\ b.sFinish = b.finish
                    /\ told => Mirrors(b.calls, b.sCalls)

LEMMA ChatStartHolds == ChatHolds(ChatStart, TRUE)
  <1> DEFINE none == <<>>
  <1>1. none \in Seq(STRING) /\ none \in Calls /\ "" \in Reasons
    BY EmptySeq, NoCalls DEF Reasons
  <1>2. ChatStart = [text |-> none, calls |-> none, finish |-> "", failed |-> FALSE,
                     sText |-> none, sCalls |-> none, sFinish |-> ""]
    BY DEF ChatStart
  <1> HIDE DEF none
  <1>3. ChatStart \in ChatType
    BY <1>1, <1>2 DEF ChatType
  <1> QED BY <1>2, <1>3 DEF ChatHolds, Mirrors

LEMMA ChunkFields ==
    ASSUME NEW c \in UpstreamChunk
    PROVE  c.text \in Seq(STRING) /\ c.calls \in Seq(CallFrame) /\ c.finish \in Reasons
  BY DEF UpstreamChunk, Reasons

LEMMA ChatPushHolds ==
    ASSUME NEW b, NEW told \in BOOLEAN, ChatHolds(b, told), ~b.failed, NEW c \in UpstreamChunk
    PROVE  ChatHolds(ChatPush(b, c), told /\ Tells(IndexSet(b.calls), c.calls))
  <1> DEFINE b1 == [b EXCEPT !.text = @ \o c.text]
             q == FoldLeft(Accumulate, b1, c.calls)
             r == FoldLeft(Received, b.sCalls, c.calls)
             st == [q EXCEPT !.sText = @ \o c.text, !.sCalls = FoldLeft(Received, @, c.calls)]
             st2 == [st EXCEPT !.finish = c.finish, !.sFinish = c.finish]
  <1>1. c.text \in Seq(STRING) /\ c.calls \in Seq(CallFrame) /\ c.finish \in Reasons
    BY ChunkFields
  <1>2. b \in ChatType
    BY DEF ChatHolds
  <1>3. b1 \in ChatType /\ b1.calls = b.calls /\ b1.text = b.text \o c.text
        /\ b1.finish = b.finish /\ b1.sText = b.sText /\ b1.sFinish = b.sFinish /\ b1.sCalls = b.sCalls
        /\ b1.failed = b.failed
    <2> DEFINE text == b.text \o c.text
    <2>1. text \in Seq(STRING)
      BY <1>1, <1>2, ConcatProperties DEF ChatType
    <2>2. b1 = [b EXCEPT !.text = text]
      OBVIOUS
    <2> HIDE DEF text
    <2>3. [b EXCEPT !.text = text] \in ChatType
      BY <1>2, <2>1 DEF ChatType
    <2> QED BY <1>2, <2>2, <2>3 DEF ChatType, text
  <1>4. ChatPush(b, c) = IF c.finish \notin Stops \cup {""} THEN Fail(b)
                         ELSE IF c.finish = "" THEN st ELSE st2
    BY DEF ChatPush
  <1> HIDE DEF b1, q
  <1>5. b.sCalls \in Calls
    BY <1>2 DEF ChatType
  <1>6. /\ q \in ChatType /\ r \in Calls
        /\ ~q.failed =>
              /\ q.text = b1.text /\ q.finish = b1.finish
              /\ q.sText = b1.sText /\ q.sFinish = b1.sFinish /\ q.sCalls = b1.sCalls
              /\ Mirrors(b1.calls, b.sCalls) /\ Tells(IndexSet(b1.calls), c.calls)
                    => Mirrors(q.calls, r)
    BY <1>1, <1>3, <1>5, ChatFrames DEF q
  <1>7. Fail(b) \in ChatType /\ Fail(b).failed
    BY <1>2 DEF Fail, ChatType
  <1> DEFINE r0 == FoldLeft(Received, q.sCalls, c.calls)
  <1>8. r0 \in Calls
    <2>1. q.sCalls \in Calls
      BY <1>6 DEF ChatType
    <2> QED BY <1>1, <1>3, <2>1, ChatFrames
  <1>9. ~q.failed => r0 = r
    BY <1>3, <1>6
  <1> HIDE DEF r, r0
  <1>10. /\ st \in ChatType /\ st.failed = q.failed /\ st.text = q.text /\ st.calls = q.calls
         /\ st.finish = q.finish /\ st.sFinish = q.sFinish
         /\ st.sText = q.sText \o c.text /\ st.sCalls = r0
    <2> DEFINE text == q.sText \o c.text
    <2>1. text \in Seq(STRING)
      BY <1>1, <1>6, ConcatProperties DEF ChatType
    <2>2. st = [q EXCEPT !.sText = text, !.sCalls = r0]
      BY DEF r0
    <2> HIDE DEF text, st
    <2>3. [q EXCEPT !.sText = text, !.sCalls = r0] \in ChatType
      BY <1>6, <1>8, <2>1 DEF ChatType
    <2> QED BY <1>6, <2>2, <2>3 DEF ChatType, text
  <1> HIDE DEF st
  <1>11. /\ st2 \in ChatType /\ st2.failed = q.failed /\ st2.text = q.text /\ st2.calls = q.calls
         /\ st2.finish = c.finish /\ st2.sFinish = c.finish
         /\ st2.sText = st.sText /\ st2.sCalls = st.sCalls
    BY <1>1, <1>10 DEF ChatType
  <1> HIDE DEF st2
  <1>12. ASSUME ~q.failed
         PROVE  /\ st.sText = st.text /\ q.sFinish = q.finish
                /\ told /\ Tells(IndexSet(b.calls), c.calls) => Mirrors(q.calls, st.sCalls)
    <2>1. b.sText = b.text /\ b.sFinish = b.finish /\ (told => Mirrors(b.calls, b.sCalls))
      BY DEF ChatHolds
    <2> QED BY <1>3, <1>6, <1>9, <1>10, <1>12, <2>1
  <1>13. ChatHolds(st, told /\ Tells(IndexSet(b.calls), c.calls))
         /\ ChatHolds(st2, told /\ Tells(IndexSet(b.calls), c.calls))
    BY <1>10, <1>11, <1>12 DEF ChatHolds
  <1>14. ChatHolds(Fail(b), told /\ Tells(IndexSet(b.calls), c.calls))
    BY <1>7 DEF ChatHolds
  <1> QED BY <1>4, <1>13, <1>14

\* the streaming client has what the builder gathered, and where nothing is made up
\* the answer that the builder makes of it
LEMMA ChatAgree ==
    ASSUME NEW b, NEW told, ChatHolds(b, told), told, ChatSucceeds(b)
    PROVE  /\ ChatStreamed(b) = Answer(b.text, Sorted(b.calls), b.finish)
           /\ Complete(b) => ChatStreamed(b) = ChatAnswer(b)
  <1>1. b.sText = b.text /\ b.sFinish = b.finish /\ Mirrors(b.calls, b.sCalls)
        /\ b.calls \in Calls
    BY DEF ChatHolds, ChatType, ChatSucceeds
  <1>2. b.sCalls = b.calls
    BY <1>1 DEF Mirrors, ChatSucceeds, Assembles
  <1>3. ChatStreamed(b) = Answer(b.text, Sorted(b.calls), b.finish)
    BY <1>1, <1>2 DEF ChatStreamed
  <1>4. ASSUME Complete(b) PROVE ChatAnswer(b) = Answer(b.text, Sorted(b.calls), b.finish)
    <2> DEFINE calls == [k \in DOMAIN b.calls |-> [b.calls[k] EXCEPT !.args = OrEmpty(@)]]
               stop == IF b.finish # "" THEN b.finish
                       ELSE IF calls # <<>> THEN "tool_calls" ELSE "stop"
    <2>1. ChatAnswer(b) = Answer(b.text, Sorted(calls), stop)
      BY DEF ChatAnswer
    <2>2. stop = b.finish
      BY <1>4 DEF Complete
    <2>3. ASSUME NEW k \in DOMAIN b.calls PROVE [b.calls[k] EXCEPT !.args = OrEmpty(@)] = b.calls[k]
      <3>1. b.calls[k] \in CallRec /\ b.calls[k].args # <<>>
        BY <1>1, <1>4, CallsAreSeq DEF Complete
      <3>2. OrEmpty(b.calls[k].args) = b.calls[k].args
        BY <3>1 DEF OrEmpty
      <3> QED BY <3>1, <3>2 DEF CallRec
    <2>4. b.calls = [k \in DOMAIN b.calls |-> b.calls[k]]
      <3>1. b.calls \in Seq(CallRec)
        BY <1>1, CallsAreSeq
      <3> QED BY <3>1
    <2>5. calls = b.calls
      BY <2>3, <2>4
    <2> HIDE DEF calls, stop
    <2> QED BY <2>1, <2>2, <2>5
  <1> QED BY <1>3, <1>4

-----------------------------------------------------------------------------
(* Messages: the blocks of the builder, and those of a streaming client *)

BlockRec == [id : AnyId, name : Seq(STRING), data : Seq(Words)]
MessagesType ==
    [blocks : Seq(BlockRec), calls : Calls, textBlock : Nat, reason : Reasons, tokens : BOOLEAN,
     failed : BOOLEAN, finished : BOOLEAN, view : Seq(BlockRec), sane : BOOLEAN]

LEMMA BlockTyped ==
    ASSUME NEW id \in AnyId, NEW name \in Seq(STRING), NEW data \in Seq(Words)
    PROVE  /\ Block(id, name, data) \in BlockRec
           /\ Block(id, name, data).id = id /\ Block(id, name, data).name = name
           /\ Block(id, name, data).data = data
  BY DEF Block, BlockRec

LEMMA BlockFields ==
    ASSUME NEW e \in BlockRec
    PROVE  /\ e.id \in AnyId /\ e.name \in Seq(STRING) /\ e.data \in Seq(Words)
           /\ e = Block(e.id, e.name, e.data)
           /\ \A data : [e EXCEPT !.data = data] = Block(e.id, e.name, data)
  BY DEF Block, BlockRec

LEMMA MoreTyped ==
    ASSUME NEW view \in Seq(BlockRec), NEW n \in DOMAIN view, NEW data \in Seq(Words)
    PROVE  /\ More(view, n, data) \in Seq(BlockRec) /\ Len(More(view, n, data)) = Len(view)
           /\ More(view, n, data)[n] = Block(view[n].id, view[n].name, view[n].data \o data)
           /\ \A m \in DOMAIN view : m # n => More(view, n, data)[m] = view[m]
  <1> DEFINE e == Block(view[n].id, view[n].name, view[n].data \o data)
  <1>1. /\ Len(view) \in Nat /\ DOMAIN view = 1 .. Len(view)
        /\ \A m \in 1 .. Len(view) : view[m] \in BlockRec
    BY LenProperties, ElementOfSeq
  <1>2. view[n] \in BlockRec
    BY <1>1
  <1>3. e \in BlockRec
    <2>1. view[n].data \o data \in Seq(Words)
      BY <1>2, BlockFields, ConcatProperties
    <2> QED BY <1>2, <2>1, BlockFields, BlockTyped
  <1>4. More(view, n, data) = [view EXCEPT ![n] = e]
    BY DEF More
  <1> HIDE DEF e
  <1>5. [view EXCEPT ![n] = e] \in [1 .. Len(view) -> BlockRec]
    BY <1>1, <1>3
  <1>6. [view EXCEPT ![n] = e][n] = e /\ \A m \in DOMAIN view : m # n => [view EXCEPT ![n] = e][m] = view[m]
    OBVIOUS
  <1>7. [view EXCEPT ![n] = e] \in Seq(BlockRec) /\ Len([view EXCEPT ![n] = e]) = Len(view)
    BY <1>1, <1>5, FunctionIsList
  <1> QED BY <1>4, <1>6, <1>7 DEF e

LEMMA PiecesAreWords == \A s \in Seq(Pieces) : s \in Seq(Words)
  BY SeqMonotonic DEF Words

LEMMA TextIsWords == \A s \in Seq(STRING) : s \in Seq(Words)
  BY SeqMonotonic DEF Words

\* the fields that frames leave alone
Rest(b, q) ==
    /\ q.textBlock = b.textBlock /\ q.reason = b.reason /\ q.tokens = b.tokens
    /\ q.failed = b.failed /\ q.finished = b.finished /\ q.sane = b.sane

LEMMA SendDeltaEffect ==
    ASSUME NEW b \in MessagesType, NEW n \in DOMAIN b.view, NEW data \in Seq(Words)
    PROVE  LET q == SendDelta(b, n, data)
           IN  /\ q \in MessagesType /\ Rest(b, q) /\ q.blocks = b.blocks /\ q.calls = b.calls
               /\ q.view = More(b.view, n, data)
  <1> DEFINE v == b.view
             v1 == More(v, n, data)
  <1>1. SendDelta(b, n, data) = [b EXCEPT !.view = v1]
    BY DEF SendDelta
  <1>2. v \in Seq(BlockRec) /\ n \in DOMAIN v
    BY DEF MessagesType
  <1>3. v1 \in Seq(BlockRec)
    <2> HIDE DEF v
    <2> QED BY <1>2, MoreTyped
  <1> HIDE DEF v1
  <1>4. [b EXCEPT !.view = v1] \in MessagesType
    BY <1>3 DEF MessagesType
  <1>5. LET q == [b EXCEPT !.view = v1]
        IN  Rest(b, q) /\ q.blocks = b.blocks /\ q.calls = b.calls /\ q.view = v1
    BY DEF Rest, MessagesType
  <1> QED BY <1>1, <1>4, <1>5 DEF v1

LEMMA StartBlockEffect ==
    ASSUME NEW b \in MessagesType, NEW e \in BlockRec, e.data = <<>>
    PROVE  LET q == StartBlock(b, e)
           IN  /\ q \in MessagesType /\ Rest(b, q) /\ q.calls = b.calls
               /\ q.blocks = Append(b.blocks, e) /\ q.view = Append(b.view, e)
  <1> DEFINE bs == Append(b.blocks, e)
             vs == Append(b.view, e)
  <1>1. [e EXCEPT !.data = <<>>] = e
    <2> DEFINE none == <<>>
    <2>1. e.data = none
      OBVIOUS
    <2> HIDE DEF none
    <2>2. [e EXCEPT !.data = none] = e
      BY <2>1 DEF BlockRec
    <2> QED BY <2>2 DEF none
  <1>2. StartBlock(b, e) = [b EXCEPT !.blocks = bs, !.view = vs]
    BY <1>1 DEF StartBlock
  <1>3. bs \in Seq(BlockRec) /\ vs \in Seq(BlockRec)
    BY AppendProperties DEF MessagesType
  <1> HIDE DEF bs, vs
  <1>4. [b EXCEPT !.blocks = bs, !.view = vs] \in MessagesType
    BY <1>3 DEF MessagesType
  <1>5. LET q == [b EXCEPT !.blocks = bs, !.view = vs]
        IN  Rest(b, q) /\ q.calls = b.calls /\ q.blocks = bs /\ q.view = vs
    BY DEF Rest, MessagesType
  <1> QED BY <1>2, <1>4, <1>5 DEF bs, vs

\* Every block is the text's or a call's.  A client has of a call's what has come,
\* while the builder fills it in at the end.
CallShown(b, c) ==
    /\ c.block \in 1 .. Len(b.blocks) /\ c.block # b.textBlock
    /\ c.id # "" /\ c.args # <<>>
    /\ b.blocks[c.block] = Block(c.id, c.name, <<>>)
    /\ b.view[c.block] = Block(c.id, c.name, c.args)
Shown(b) ==
    /\ b.sane /\ ~b.finished /\ Len(b.view) = Len(b.blocks)
    /\ b.textBlock \in 0 .. Len(b.blocks)
    /\ b.textBlock # 0 =>
          b.view[b.textBlock] = b.blocks[b.textBlock] /\ b.blocks[b.textBlock].id = ""
    /\ \A c \in ToSet(b.calls) : c.block # 0 => CallShown(b, c)
    /\ \A c, d \in ToSet(b.calls) : c.block = d.block /\ c.block # 0 => c = d
    /\ \A n \in 1 .. Len(b.blocks) : n = b.textBlock \/ \E c \in ToSet(b.calls) : c.block = n
MessagesState == {b \in MessagesType : b.failed \/ Shown(b)}

\* the calls after one of them is put
LEMMA SetOfPut ==
    ASSUME NEW calls \in Calls, NEW c \in CallRec
    PROVE  ToSet(Put(calls, c)) = {d \in ToSet(calls) : d.index # c.index} \cup {c}
  <1>1. CASE Has(calls, c.index)
    <2>1. /\ DOMAIN Put(calls, c) = DOMAIN calls
          /\ \A k \in DOMAIN calls : Put(calls, c)[k] = IF calls[k].index = c.index THEN c ELSE calls[k]
      BY <1>1, PutIsCalls
    <2> QED BY <1>1, <2>1 DEF ToSet, Has
  <1>2. CASE ~Has(calls, c.index)
    <2>1. Put(calls, c) = Append(calls, c)
      BY <1>2, PutIsCalls
    <2>2. ToSet(Append(calls, c)) = ToSet(calls) \cup {c}
      BY CallsAreSeq, ListOfAppend
    <2>3. \A d \in ToSet(calls) : d.index # c.index
      BY <1>2 DEF ToSet, Has
    <2> QED BY <2>1, <2>2, <2>3
  <1> QED BY <1>1, <1>2

LEMMA GetOfSet ==
    ASSUME NEW calls \in Calls, NEW i \in Int
    PROVE  /\ ToSet(calls) \subseteq CallRec
           /\ \A d \in ToSet(calls) : d.index = i => d = Get(calls, i)
           /\ Get(calls, i) \in ToSet(calls) \/ Get(calls, i) = New(i)
  <1>1. ToSet(calls) \subseteq CallRec
    BY CallsAreSeq DEF ToSet
  <1>2. \A d \in ToSet(calls) : d.index = i => d = Get(calls, i)
    BY GetIsCall DEF ToSet
  <1>3. Get(calls, i) \in ToSet(calls) \/ Get(calls, i) = New(i)
    BY GetIsCall DEF ToSet
  <1> QED BY <1>1, <1>2, <1>3

\* a frame of a call that has no block yet
LEMMA ShownWaits ==
    ASSUME NEW b \in MessagesType, Shown(b), NEW q \in MessagesType, Rest(b, q),
           NEW call \in CallRec, Get(b.calls, call.index).block = 0, call.block = 0,
           q.blocks = b.blocks, q.view = b.view, q.calls = Put(b.calls, call)
    PROVE  Shown(q)
  <1> DEFINE E == ToSet(b.calls)
  <1>1. b.calls \in Calls /\ call.index \in Int
    BY DEF MessagesType, CallRec
  <1>2. ToSet(q.calls) = {d \in E : d.index # call.index} \cup {call}
    BY <1>1, SetOfPut
  <1>3. \A d \in E : d.block # 0 => d \in ToSet(q.calls)
    BY <1>1, <1>2, GetOfSet
  <1>4. \A d \in ToSet(q.calls) : d.block # 0 => d \in E
    BY <1>2
  <1>5. \A d \in E : d.block # 0 => CallShown(b, d)
    BY DEF Shown
  <1>6. \A d : CallShown(b, d) <=> CallShown(q, d)
    BY DEF CallShown, Rest
  <1>7. \A n \in 1 .. Len(q.blocks) : n = q.textBlock \/ \E c \in ToSet(q.calls) : c.block = n
    <2> SUFFICES ASSUME NEW n \in 1 .. Len(b.blocks), n # b.textBlock
                 PROVE  \E c \in ToSet(q.calls) : c.block = n
      BY DEF Rest
    <2>1. PICK c \in E : c.block = n
      BY DEF Shown
    <2> QED BY <1>3, <2>1
  <1>8. \A c \in ToSet(q.calls) : c.block # 0 => CallShown(q, c)
    BY <1>4, <1>5, <1>6
  <1>9. \A c, d \in ToSet(q.calls) : c.block = d.block /\ c.block # 0 => c = d
    BY <1>4 DEF Shown
  <1> HIDE DEF E
  <1> QED BY <1>7, <1>8, <1>9 DEF Shown, Rest

\* more arguments for a block
LEMMA ShownGrows ==
    ASSUME NEW b \in MessagesType, Shown(b), NEW q \in MessagesType, Rest(b, q),
           NEW old \in ToSet(b.calls), old.block # 0, NEW data \in Seq(Pieces),
           NEW call \in CallRec, call.index = old.index, call.block = old.block,
           call.id = old.id, call.name = old.name, call.args = old.args \o data,
           q.blocks = b.blocks, q.view = More(b.view, old.block, data),
           q.calls = Put(b.calls, call)
    PROVE  Shown(q)
  <1> DEFINE E == ToSet(b.calls)
             n == old.block
  <1>1. b.calls \in Calls /\ old \in CallRec /\ call.index \in Int
    BY GetOfSet DEF MessagesType, CallRec
  <1>2. ToSet(q.calls) = {d \in E : d.index # old.index} \cup {call}
    BY <1>1, SetOfPut
  <1>3. CallShown(b, old)
    BY DEF Shown
  <1>4. b.view \in Seq(BlockRec) /\ n \in DOMAIN b.view /\ data \in Seq(Words)
    <2>1. b.view \in Seq(BlockRec)
      BY DEF MessagesType
    <2>2. DOMAIN b.view = 1 .. Len(b.view)
      BY <2>1, LenProperties
    <2>3. Len(b.view) = Len(b.blocks)
      BY DEF Shown
    <2>4. n \in DOMAIN b.view
      BY <1>3, <2>2, <2>3 DEF CallShown
    <2> QED BY <2>1, <2>4, PiecesAreWords
  <1>5. /\ Len(q.view) = Len(b.view)
        /\ q.view[n] = Block(b.view[n].id, b.view[n].name, b.view[n].data \o data)
        /\ \A m \in DOMAIN b.view : m # n => q.view[m] = b.view[m]
    BY <1>4, MoreTyped
  <1>6. \A m \in 1 .. Len(b.blocks) : m \in DOMAIN b.view
    <2>1. DOMAIN b.view = 1 .. Len(b.view)
      BY <1>4, LenProperties
    <2>2. Len(b.view) = Len(b.blocks)
      BY DEF Shown
    <2> QED BY <2>1, <2>2
  <1>7. CallShown(q, call)
    <2>1. b.view[n] = Block(old.id, old.name, old.args)
      BY <1>3 DEF CallShown
    <2>2. q.view[n] = Block(call.id, call.name, call.args)
      BY <1>5, <2>1 DEF Block
    <2>3. call.args # <<>>
      <3>1. old.args # <<>> /\ old.args \in Seq(Pieces)
        BY <1>1, <1>3 DEF CallShown, CallRec
      <3> QED BY <3>1, ConcatEqualIffEmpty
    <2> QED BY <1>3, <2>2, <2>3 DEF CallShown, Rest
  <1>8. ASSUME NEW d \in E, d.index # old.index, d.block # 0 PROVE CallShown(q, d) /\ d.block # n
    <2>1. d # old /\ d.block # n
      BY <1>8 DEF Shown
    <2>2. CallShown(b, d)
      BY <1>8 DEF Shown
    <2>3. q.view[d.block] = b.view[d.block]
      BY <1>5, <1>6, <2>1, <2>2 DEF CallShown
    <2> QED BY <2>1, <2>2, <2>3 DEF CallShown, Rest
  <1>9. \A c \in ToSet(q.calls) : c.block # 0 => CallShown(q, c)
    BY <1>2, <1>7, <1>8
  <1>10. \A c, d \in ToSet(q.calls) : c.block = d.block /\ c.block # 0 => c = d
    <2>1. \A c, d \in E : c.block = d.block /\ c.block # 0 => c = d
      BY DEF Shown
    <2>2. \A c \in ToSet(q.calls) : c = call \/ (c \in E /\ c.index # old.index)
      BY <1>2
    <2> HIDE DEF E
    <2> QED BY <1>8, <2>1, <2>2
  <1>11. \A m \in 1 .. Len(q.blocks) : m = q.textBlock \/ \E c \in ToSet(q.calls) : c.block = m
    <2> SUFFICES ASSUME NEW m \in 1 .. Len(b.blocks), m # b.textBlock
                 PROVE  \E c \in ToSet(q.calls) : c.block = m
      BY DEF Rest
    <2>1. PICK c \in E : c.block = m
      BY DEF Shown
    <2>2. c.index = old.index => c = old
      BY <1>1, GetOfSet
    <2> QED BY <1>2, <2>1, <2>2
  <1>12. q.textBlock # 0 => q.view[q.textBlock] = b.view[q.textBlock]
    <2> SUFFICES ASSUME q.textBlock # 0 PROVE q.view[q.textBlock] = b.view[q.textBlock]
      OBVIOUS
    <2>1. q.textBlock = b.textBlock /\ b.textBlock \in 0 .. Len(b.blocks) /\ b.textBlock # n
      BY <1>3 DEF Rest, Shown, CallShown
    <2>2. Len(b.blocks) \in Nat
      BY LenProperties DEF MessagesType
    <2>3. b.textBlock \in 1 .. Len(b.blocks)
      BY <2>1, <2>2
    <2> QED BY <1>5, <1>6, <2>1, <2>3
  <1> HIDE DEF E, n
  <1> QED BY <1>5, <1>9, <1>10, <1>11, <1>12 DEF Shown, Rest

\* the block of a call starts
StartsBlock(b, q, call) ==
    /\ call.block = Len(b.blocks) + 1 /\ call.id # "" /\ call.args # <<>>
    /\ q.blocks = Append(b.blocks, Block(call.id, call.name, <<>>))
    /\ q.view = Append(b.view, Block(call.id, call.name, call.args))
    /\ q.calls = Put(b.calls, call)

LEMMA ShownStarts ==
    ASSUME NEW b \in MessagesType, Shown(b), NEW q \in MessagesType, Rest(b, q),
           NEW call \in CallRec, Get(b.calls, call.index).block = 0,
           StartsBlock(b, q, call)
    PROVE  Shown(q)
  <1> DEFINE E == ToSet(b.calls)
             N == Len(b.blocks)
             none == <<>>
  <1>1. b.calls \in Calls /\ call.index \in Int /\ b.blocks \in Seq(BlockRec) /\ b.view \in Seq(BlockRec)
        /\ N \in Nat /\ Len(b.view) = N
    BY LenProperties DEF MessagesType, CallRec, Shown
  <1> HIDE DEF N
  <1>2. ToSet(q.calls) = {d \in E : d.index # call.index} \cup {call}
    BY <1>1, SetOfPut DEF StartsBlock
  <1>3. call.id \in AnyId /\ call.name \in Seq(STRING) /\ call.args \in Seq(Words)
    BY PiecesAreWords DEF CallRec
  <1>4. Block(call.id, call.name, <<>>) \in BlockRec /\ Block(call.id, call.name, call.args) \in BlockRec
    <2>1. none \in Seq(Words)
      BY EmptySeq
    <2> HIDE DEF none
    <2>2. Block(call.id, call.name, none) \in BlockRec
      BY <1>3, <2>1, BlockTyped
    <2> QED BY <1>3, <2>2, BlockTyped DEF none
  <1> DEFINE e == Block(call.id, call.name, <<>>)
             v == Block(call.id, call.name, call.args)
  <1> HIDE DEF e, v
  <1>5. /\ Len(q.blocks) = N + 1 /\ Len(q.view) = N + 1
        /\ q.blocks[N + 1] = e /\ q.view[N + 1] = v
        /\ \A m \in 1 .. N : q.blocks[m] = b.blocks[m] /\ q.view[m] = b.view[m]
    <2>1. q.blocks = Append(b.blocks, e) /\ q.view = Append(b.view, v) /\ e \in BlockRec /\ v \in BlockRec
      BY <1>4 DEF e, v, StartsBlock
    <2>2. /\ Len(Append(b.blocks, e)) = N + 1 /\ Append(b.blocks, e)[N + 1] = e
          /\ \A m \in 1 .. N : Append(b.blocks, e)[m] = b.blocks[m]
      <3>1. Len(b.blocks) = N
        BY DEF N
      <3> QED BY <1>1, <2>1, <3>1, AppendedTo
    <2>3. /\ Len(Append(b.view, v)) = N + 1 /\ Append(b.view, v)[N + 1] = v
          /\ \A m \in 1 .. N : Append(b.view, v)[m] = b.view[m]
      BY <1>1, <2>1, AppendedTo
    <2> QED BY <2>1, <2>2, <2>3
  <1>6. \A m \in 1 .. N + 1 : m \in 1 .. N \/ m = N + 1
    BY <1>1
  <1>7. N + 1 \in 1 .. N + 1 /\ \A m \in 1 .. N : m \in 1 .. N + 1 /\ m # N + 1 /\ m # 0
    BY <1>1
  <1>8. b.textBlock \in 0 .. N /\ q.textBlock = b.textBlock /\ b.textBlock # N + 1
        /\ b.textBlock \in 0 .. N + 1 /\ (b.textBlock # 0 => b.textBlock \in 1 .. N)
    <2>1. b.textBlock \in 0 .. N /\ q.textBlock = b.textBlock
      BY DEF Shown, Rest, N
    <2> QED BY <1>1, <2>1
  <1>9. CallShown(q, call)
    BY <1>5, <1>7, <1>8 DEF CallShown, e, v, N, StartsBlock
  <1>10. ASSUME NEW d \in E, d.block # 0 PROVE CallShown(q, d) /\ d.block # N + 1 /\ d.index # call.index
    <2>1. CallShown(b, d) /\ d.block \in 1 .. N
      BY <1>10 DEF Shown, CallShown, N
    <2>2. q.blocks[d.block] = b.blocks[d.block] /\ q.view[d.block] = b.view[d.block]
      BY <1>5, <2>1
    <2>3. d.index # call.index
      BY <1>1, <1>10, GetOfSet
    <2> QED BY <1>5, <1>7, <1>8, <2>1, <2>2, <2>3 DEF CallShown
  <1>11. \A c \in ToSet(q.calls) : c.block # 0 => CallShown(q, c)
    BY <1>2, <1>9, <1>10
  <1>12. \A c, d \in ToSet(q.calls) : c.block = d.block /\ c.block # 0 => c = d
    <2>1. call.block = N + 1
      BY DEF N, StartsBlock
    <2>2. \A c, d \in E : c.block = d.block /\ c.block # 0 => c = d
      BY DEF Shown
    <2> QED BY <1>2, <1>10, <2>1, <2>2
  <1>13. \A m \in 1 .. N + 1 : m = q.textBlock \/ \E c \in ToSet(q.calls) : c.block = m
    <2> SUFFICES ASSUME NEW m \in 1 .. N, m # b.textBlock
                 PROVE  \E c \in ToSet(q.calls) : c.block = m
      BY <1>2, <1>6, <1>8 DEF N, StartsBlock
    <2>1. PICK c \in E : c.block = m
      BY DEF Shown, N
    <2>2. c \in ToSet(q.calls)
      BY <1>2, <1>7, <1>10, <2>1
    <2> QED BY <2>1, <2>2
  <1>14. q.textBlock # 0 =>
            q.view[q.textBlock] = q.blocks[q.textBlock] /\ q.blocks[q.textBlock].id = ""
    BY <1>5, <1>8 DEF Shown
  <1> HIDE DEF E
  <1> QED BY <1>5, <1>8, <1>11, <1>12, <1>13, <1>14 DEF Shown, Rest

LEMMA FailedIsState ==
    ASSUME NEW b \in MessagesType
    PROVE  Fail(b) \in MessagesState /\ Fail(b).failed
  BY DEF Fail, MessagesState, MessagesType

\* the call after a frame, before it gets a block
Named(old, f) ==
    [old EXCEPT !.id = IF f.id = "" THEN @ ELSE f.id,
                !.name = IF old.block = 0 THEN @ \o f.name ELSE @,
                !.args = @ \o f.args]

LEMMA NamedTyped ==
    ASSUME NEW old \in CallRec, NEW f, FrameFields(f)
    PROVE  /\ Named(old, f) \in CallRec /\ Named(old, f).index = old.index
           /\ Named(old, f).block = old.block /\ Named(old, f).args = old.args \o f.args
           /\ Named(old, f).id = IF f.id = "" THEN old.id ELSE f.id
           /\ old.block # 0 => Named(old, f).name = old.name
           /\ \A n \in Nat : [Named(old, f) EXCEPT !.block = n] \in CallRec
  <1> DEFINE id == IF f.id = "" THEN old.id ELSE f.id
             name == IF old.block = 0 THEN old.name \o f.name ELSE old.name
             args == old.args \o f.args
             d == [old EXCEPT !.id = id, !.name = name, !.args = args]
  <1>1. id \in AnyId /\ name \in Seq(STRING) /\ args \in Seq(Pieces)
    BY ConcatProperties DEF CallRec, FrameFields
  <1>2. Named(old, f) = d
    BY DEF Named
  <1>3. old.block # 0 => name = old.name
    OBVIOUS
  <1> HIDE DEF id, name, args
  <1>4. /\ d \in CallRec /\ d.index = old.index /\ d.block = old.block
        /\ d.id = id /\ d.name = name /\ d.args = args
    BY <1>1 DEF CallRec
  <1> HIDE DEF d
  <1>5. \A n \in Nat : [d EXCEPT !.block = n] \in CallRec
    BY <1>4 DEF CallRec
  <1> QED BY <1>2, <1>3, <1>4, <1>5 DEF id, args

\* the fields of a call that gets a block
LEMMA WithBlock ==
    ASSUME NEW c \in CallRec, NEW n \in Nat
    PROVE  LET d == [c EXCEPT !.block = n]
           IN  d \in CallRec /\ d.index = c.index /\ d.block = n /\ d.id = c.id
               /\ d.name = c.name /\ d.args = c.args
  BY DEF CallRec

LEMMA KeptTyped ==
    ASSUME NEW b \in MessagesType, NEW call \in CallRec
    PROVE  LET q == [b EXCEPT !.calls = Put(@, call)]
           IN  /\ q \in MessagesType /\ Rest(b, q) /\ q.blocks = b.blocks /\ q.view = b.view
               /\ q.calls = Put(b.calls, call)
  <1> DEFINE more == Put(b.calls, call)
  <1>1. more \in Calls
    BY PutIsCalls DEF MessagesType
  <1> HIDE DEF more
  <1>2. LET q == [b EXCEPT !.calls = more]
        IN  q \in MessagesType /\ Rest(b, q) /\ q.blocks = b.blocks /\ q.view = b.view
            /\ q.calls = more
    BY <1>1 DEF MessagesType, Rest
  <1> QED BY <1>2 DEF more

LEMMA RestIsTransitive ==
    ASSUME NEW b, NEW q, NEW r, Rest(b, q), Rest(q, r)
    PROVE  Rest(b, r)
  BY DEF Rest

LEMMA MoreOfAppend ==
    ASSUME NEW view \in Seq(BlockRec), NEW e \in BlockRec, NEW data \in Seq(Words)
    PROVE  /\ Len(view) + 1 \in DOMAIN Append(view, e)
           /\ More(Append(view, e), Len(view) + 1, data)
                 = Append(view, Block(e.id, e.name, e.data \o data))
  <1> DEFINE n == Len(view)
             v == Block(e.id, e.name, e.data \o data)
             w == Append(view, e)
             x == More(w, n + 1, data)
  <1>1. v \in BlockRec
    <2>1. e.data \o data \in Seq(Words)
      BY BlockFields, ConcatProperties
    <2> QED BY <2>1, BlockFields, BlockTyped
  <1>2. n \in Nat
    BY LenProperties
  <1> HIDE DEF n
  <1>3. w \in Seq(BlockRec) /\ Len(w) = n + 1 /\ w[n + 1] = e /\ \A m \in 1 .. n : w[m] = view[m]
    BY AppendedTo DEF n
  <1>4. n + 1 \in 1 .. n + 1 /\ \A m \in 1 .. n + 1 : m = n + 1 \/ (m \in 1 .. n /\ m # n + 1)
    BY <1>2
  <1> HIDE DEF w
  <1>5. DOMAIN w = 1 .. n + 1
    BY <1>3, LenProperties
  <1>6. n + 1 \in DOMAIN w
    BY <1>4, <1>5
  <1>7. /\ x \in Seq(BlockRec) /\ Len(x) = n + 1 /\ x[n + 1] = v
        /\ \A m \in DOMAIN w : m # n + 1 => x[m] = w[m]
    <2>1. /\ x \in Seq(BlockRec) /\ Len(x) = Len(w)
          /\ x[n + 1] = Block(w[n + 1].id, w[n + 1].name, w[n + 1].data \o data)
          /\ \A m \in DOMAIN w : m # n + 1 => x[m] = w[m]
      BY <1>3, <1>6, MoreTyped
    <2> QED BY <1>3, <2>1
  <1> HIDE DEF x, v
  <1>8. /\ Append(view, v) \in Seq(BlockRec) /\ Len(Append(view, v)) = n + 1
        /\ Append(view, v)[n + 1] = v
        /\ \A m \in 1 .. n : Append(view, v)[m] = view[m]
    BY <1>1, AppendedTo DEF n
  <1>9. \A m \in 1 .. n + 1 : x[m] = Append(view, v)[m]
    BY <1>3, <1>4, <1>5, <1>7, <1>8
  <1>10. x = Append(view, v)
    BY <1>7, <1>8, <1>9, SeqEqual
  <1> QED BY <1>6, <1>10 DEF x, w, v, n

\* the block that starts, with the first arguments
Ready(b, call) == call.block = Len(b.blocks) + 1 /\ call.id # "" /\ call.args # <<>>

LEMMA StartedBlock ==
    ASSUME NEW b \in MessagesType, Shown(b), NEW call \in CallRec, Ready(b, call)
    PROVE  LET kept == [b EXCEPT !.calls = Put(@, call)]
               q == SendDelta(StartBlock(kept, Block(call.id, call.name, <<>>)), call.block, call.args)
           IN  q \in MessagesType /\ Rest(b, q) /\ StartsBlock(b, q, call)
  <1> DEFINE kept == [b EXCEPT !.calls = Put(@, call)]
             none == <<>>
             e == Block(call.id, call.name, none)
             st == StartBlock(kept, e)
             q == SendDelta(st, call.block, call.args)
             n == Len(b.blocks)
  <1>1. /\ kept \in MessagesType /\ Rest(b, kept) /\ kept.blocks = b.blocks /\ kept.view = b.view
        /\ kept.calls = Put(b.calls, call)
    BY KeptTyped
  <1>2. call.id \in AnyId /\ call.name \in Seq(STRING) /\ call.args \in Seq(Words)
        /\ none \in Seq(Words)
    BY PiecesAreWords, EmptySeq DEF CallRec
  <1> HIDE DEF none, kept
  <1>3. e \in BlockRec /\ e.data = none /\ e.id = call.id /\ e.name = call.name
    BY <1>2, BlockTyped
  <1>4. e.data = <<>>
    BY <1>3 DEF none
  <1> HIDE DEF e
  <1>5. /\ st \in MessagesType /\ Rest(kept, st) /\ st.calls = kept.calls
        /\ st.blocks = Append(kept.blocks, e) /\ st.view = Append(kept.view, e)
    BY <1>1, <1>3, <1>4, StartBlockEffect
  <1> HIDE DEF st
  <1>6. b.view \in Seq(BlockRec) /\ Len(b.view) = n /\ st.view = Append(b.view, e)
    BY <1>1, <1>5 DEF MessagesType, Shown
  <1>7. call.block = n + 1
    BY DEF Ready
  <1> HIDE DEF n
  <1>8. /\ n + 1 \in DOMAIN st.view
        /\ More(st.view, n + 1, call.args) = Append(b.view, Block(e.id, e.name, e.data \o call.args))
    <2> DEFINE view == b.view
               data == call.args
    <2> HIDE DEF view, data
    <2>1. view \in Seq(BlockRec) /\ data \in Seq(Words)
      BY <1>2, <1>6 DEF view, data
    <2>2. /\ Len(view) + 1 \in DOMAIN Append(view, e)
          /\ More(Append(view, e), Len(view) + 1, data) = Append(view, Block(e.id, e.name, e.data \o data))
      BY <1>3, <2>1, MoreOfAppend
    <2> QED BY <1>6, <2>2 DEF view, data
  <1>9. /\ q \in MessagesType /\ Rest(st, q) /\ q.blocks = st.blocks /\ q.calls = st.calls
        /\ q.view = More(st.view, n + 1, call.args)
    <2> DEFINE k == n + 1
               data == call.args
    <2>1. st \in MessagesType /\ data \in Seq(Words) /\ k \in DOMAIN st.view
      BY <1>2, <1>5, <1>8
    <2>2. q = SendDelta(st, k, data)
      BY <1>7
    <2> HIDE DEF q, k, data
    <2>3. LET r == SendDelta(st, k, data)
          IN  r \in MessagesType /\ Rest(st, r) /\ r.blocks = st.blocks /\ r.calls = st.calls
              /\ r.view = More(st.view, k, data)
      BY <2>1, SendDeltaEffect
    <2> QED BY <2>2, <2>3 DEF k, data
  <1>10. e.data \o call.args = call.args
    BY <1>2, <1>3, NothingMore DEF none
  <1> HIDE DEF q
  <1>11. q.view = Append(b.view, Block(call.id, call.name, call.args))
    BY <1>3, <1>8, <1>9, <1>10
  <1>12. Rest(b, q)
    BY <1>1, <1>5, <1>9, RestIsTransitive
  <1>13. q.blocks = Append(b.blocks, Block(call.id, call.name, <<>>))
    BY <1>1, <1>5, <1>9 DEF e, none
  <1>14. q.calls = Put(b.calls, call)
    BY <1>1, <1>5, <1>9
  <1>15. StartsBlock(b, q, call)
    BY <1>11, <1>13, <1>14 DEF StartsBlock, Ready
  <1> QED BY <1>9, <1>12, <1>15 DEF q, st, kept, e, none

\* more is not nothing
LEMMA NonEmptyConcat ==
    ASSUME NEW S, NEW s \in Seq(S), NEW t \in Seq(S), s # <<>> \/ t # <<>>
    PROVE  s \o t # <<>>
  <1>1. Len(s \o t) = Len(s) + Len(t) /\ Len(s) \in Nat /\ Len(t) \in Nat
    BY ConcatProperties, LenProperties
  <1>2. Len(s) # 0 \/ Len(t) # 0
    BY EmptySeq
  <1>3. Len(s \o t) # 0
    BY <1>1, <1>2
  <1>4. Len(<<>>) = 0
    BY EmptySeq
  <1> QED BY <1>3, <1>4

LEMMA MessagesCallTyped ==
    ASSUME NEW b \in MessagesState, NEW f \in CallFrame
    PROVE  MessagesCall(b, f) \in MessagesState
  <1> DEFINE old == Get(b.calls, f.index)
             named == Named(old, f)
             starts == old.block = 0 /\ named.id # "" /\ named.name # <<>> /\ f.args # <<>>
             call == IF starts THEN [named EXCEPT !.block = Len(b.blocks) + 1] ELSE named
             kept == [b EXCEPT !.calls = Put(@, call)]
             begun == SendDelta(StartBlock(kept, Block(call.id, call.name, <<>>)), call.block,
                                SoFar(call, f))
             grown == SendDelta(kept, call.block, f.args)
             bad == ~SameId(old, f) \/ (old.block # 0 /\ f.name \notin {<<>>, old.name})
  <1>1. MessagesCall(b, f) =
            IF b.failed \/ ~ValidIndex(f.index) THEN Fail(b)
            ELSE IF Shell(f) THEN b
            ELSE IF bad THEN Fail(b)
            ELSE IF starts THEN begun ELSE IF call.block # 0 THEN grown ELSE kept
    BY DEF MessagesCall, Named
  <1>2. b \in MessagesType /\ Fail(b) \in MessagesState /\ FrameFields(f)
    BY FailedIsState, FrameTyped DEF MessagesState
  <1>3. f.index \in Int /\ f.args \in Seq(Pieces) /\ b.calls \in Calls /\ Len(b.blocks) \in Nat
    BY <1>2, LenProperties DEF FrameFields, MessagesType
  <1>4. old \in CallRec /\ old.index = f.index /\ (old \in ToSet(b.calls) \/ old = New(f.index))
    BY <1>3, GetIsCall, GetOfSet
  <1> HIDE DEF old
  <1>5. /\ named \in CallRec /\ named.index = f.index
        /\ named.block = old.block /\ named.args = old.args \o f.args
        /\ named.id = IF f.id = "" THEN old.id ELSE f.id
        /\ old.block # 0 => named.name = old.name
    BY <1>2, <1>4, NamedTyped
  <1> HIDE DEF named
  <1> SUFFICES ASSUME ~b.failed, ~bad PROVE (IF starts THEN begun ELSE IF call.block # 0 THEN grown ELSE kept)
                                               \in MessagesState
    BY <1>1, <1>2
  <1>6. Shown(b)
    BY DEF MessagesState
  <1>7. CASE starts
    <2> DEFINE c == [named EXCEPT !.block = Len(b.blocks) + 1]
    <2>1. /\ c \in CallRec /\ c.index = f.index /\ c.block = Len(b.blocks) + 1 /\ c.id = named.id
          /\ c.args = named.args
      <3> DEFINE n == Len(b.blocks) + 1
      <3>1. n \in Nat
        BY <1>3
      <3> HIDE DEF n
      <3>2. LET d == [named EXCEPT !.block = n]
            IN  d \in CallRec /\ d.index = named.index /\ d.block = n /\ d.id = named.id
                /\ d.name = named.name /\ d.args = named.args
        BY <1>5, <3>1, WithBlock
      <3> QED BY <1>5, <3>2 DEF n
    <2>2. call = c
      BY <1>7
    <2> HIDE DEF c
    <2>3. Ready(b, c)
      <3>1. old.args \in Seq(Pieces)
        BY <1>4 DEF CallRec
      <3>2. f.args # <<>> /\ named.id # ""
        BY <1>7
      <3> HIDE DEF starts, call
      <3> DEFINE s == old.args
                 t == f.args
      <3>3. s \in Seq(Pieces) /\ t \in Seq(Pieces) /\ t # <<>>
        BY <1>3, <3>1, <3>2
      <3> HIDE DEF s, t
      <3>4. s \o t # <<>>
        BY <3>3, NonEmptyConcat
      <3>5. old.args \o f.args # <<>>
        BY <3>4 DEF s, t
      <3> QED BY <1>5, <2>1, <3>2, <3>5 DEF Ready
    <2> DEFINE k == [b EXCEPT !.calls = Put(@, c)]
               q == SendDelta(StartBlock(k, Block(c.id, c.name, <<>>)), c.block, c.args)
    <2>4. q \in MessagesType /\ Rest(b, q) /\ StartsBlock(b, q, c)
      BY <1>2, <1>6, <2>1, <2>3, StartedBlock
    <2>5. begun = q
      BY <2>2 DEF SoFar
    <2> HIDE DEF q
    <2>6. Get(b.calls, c.index).block = 0
      BY <1>7, <2>1 DEF old
    <2>7. Shown(q)
      BY <1>2, <1>6, <2>1, <2>4, <2>6, ShownStarts
    <2> QED BY <1>7, <2>4, <2>5, <2>7 DEF MessagesState
  <1>8. CASE ~starts /\ old.block # 0
    <2> DEFINE k == [b EXCEPT !.calls = Put(@, named)]
               q == SendDelta(k, old.block, f.args)
    <2>1. /\ k \in MessagesType /\ Rest(b, k) /\ k.blocks = b.blocks /\ k.view = b.view
          /\ k.calls = Put(b.calls, named)
      BY <1>2, <1>5, KeptTyped
    <2>2. grown = q /\ call.block # 0
      BY <1>5, <1>8
    <2> HIDE DEF k
    <2>3. old \in ToSet(b.calls)
      BY <1>3, <1>4, <1>8, NewCall
    <2>4. CallShown(b, old)
      BY <1>6, <1>8, <2>3 DEF Shown
    <2>5. old.block \in DOMAIN k.view /\ f.args \in Seq(Words)
      <3>1. Len(b.view) = Len(b.blocks) /\ b.view \in Seq(BlockRec)
        BY <1>2, <1>6 DEF Shown, MessagesType
      <3>2. old.block \in 1 .. Len(b.view)
        BY <2>4, <3>1 DEF CallShown
      <3> QED BY <1>3, <2>1, <3>1, <3>2, LenProperties, PiecesAreWords
    <2>6. /\ q \in MessagesType /\ Rest(k, q) /\ q.blocks = k.blocks /\ q.calls = k.calls
          /\ q.view = More(k.view, old.block, f.args)
      BY <2>1, <2>5, SendDeltaEffect
    <2> HIDE DEF q
    <2>7. Rest(b, q) /\ q.blocks = b.blocks /\ q.calls = Put(b.calls, named)
          /\ q.view = More(b.view, old.block, f.args)
      BY <2>1, <2>6, RestIsTransitive
    <2>8. named.id = old.id /\ named.name = old.name
      BY <1>5, <1>8, <2>4 DEF SameId, CallShown
    <2>9. Shown(q)
      BY <1>2, <1>3, <1>4, <1>5, <1>6, <1>8, <2>3, <2>6, <2>7, <2>8, ShownGrows
    <2> QED BY <1>8, <2>2, <2>6, <2>9 DEF MessagesState
  <1>9. CASE ~starts /\ old.block = 0
    <2> DEFINE q == [b EXCEPT !.calls = Put(@, named)]
    <2>1. /\ q \in MessagesType /\ Rest(b, q) /\ q.blocks = b.blocks /\ q.view = b.view
          /\ q.calls = Put(b.calls, named)
      BY <1>2, <1>5, KeptTyped
    <2>2. kept = q /\ call.block = 0
      BY <1>5, <1>9
    <2> HIDE DEF q
    <2>3. Get(b.calls, named.index).block = 0
      BY <1>5, <1>9 DEF old
    <2>4. Shown(q)
      BY <1>2, <1>5, <1>6, <1>9, <2>1, <2>3, ShownWaits
    <2> QED BY <1>9, <2>1, <2>2, <2>4 DEF MessagesState
  <1> QED BY <1>7, <1>8, <1>9

MessagesCallStep == [q \in MessagesState \X CallFrame |-> MessagesCall(q[1], q[2])]
LEMMA MessagesCallIsStep == MessagesCallStep \in Steps(MessagesState, CallFrame)
  BY MessagesCallTyped DEF MessagesCallStep, Steps

LEMMA MessagesCallIsFold ==
    ASSUME NEW base \in MessagesState, NEW s \in Seq(CallFrame)
    PROVE  FoldLeft(MessagesCall, base, s) = Fold(MessagesCallStep, base, s)
  <1> DEFINE Maps(g) ==
        g = [t \in SUBSET DOMAIN s |->
                IF t = {} THEN base ELSE MessagesCall(g[t \ {Max(t)}], s[Max(t)])]
  <1>1. PICK g \in [SUBSET DOMAIN s -> MessagesState] : IsFold(g, MessagesCallStep, base, s)
    BY MessagesCallIsStep, TableExists
  <1>2. Maps(g)
    <2>1. ASSUME NEW t \in SUBSET DOMAIN s, t # {}
          PROVE  MessagesCallStep[<<g[t \ {Max(t)}], s[Max(t)]>>]
                    = MessagesCall(g[t \ {Max(t)}], s[Max(t)])
      <3>1. s[Max(t)] \in CallFrame /\ g[t \ {Max(t)}] \in MessagesState
        BY <1>1, <2>1, ElementOfTable
      <3> QED BY <3>1 DEF MessagesCallStep
    <2> QED BY <1>1, <2>1 DEF IsFold
  <1> DEFINE h == CHOOSE h : Maps(h)
  <1>3. Maps(h)
    BY <1>2
  <1>4. FoldLeft(MessagesCall, base, s) = h[DOMAIN s]
    BY DEF FoldLeft, MapThenFoldSet
  <1> HIDE DEF h
  <1>5. Computes(h, MessagesState, MessagesCallStep, base, s)
    <2>1. ASSUME NEW t \in SUBSET DOMAIN s, t # {}, h[t \ {Max(t)}] \in MessagesState
          PROVE  h[t] = MessagesCallStep[<<h[t \ {Max(t)}], s[Max(t)]>>]
      <3>1. s[Max(t)] \in CallFrame
        BY <2>1, ElementOfTable
      <3>2. h[t] = MessagesCall(h[t \ {Max(t)}], s[Max(t)])
        BY <1>3, <2>1
      <3> QED BY <2>1, <3>1, <3>2 DEF MessagesCallStep
    <2>2. h[{}] = base
      BY <1>3
    <2> QED BY <2>1, <2>2 DEF Computes
  <1> QED BY <1>4, <1>5, MessagesCallIsStep, FoldLink

\* the numbers of blocks
LEMMA BlockNumbers == \A N \in Nat : \A n : n \in 1 .. N <=> n \in 0 .. N /\ n # 0
  OBVIOUS

\* more of the text
LEMMA ShownText ==
    ASSUME NEW b \in MessagesType, Shown(b), b.textBlock # 0, NEW data \in Seq(Words),
           NEW q \in MessagesType, Rest(b, q), q.calls = b.calls,
           q.blocks = More(b.blocks, b.textBlock, data),
           q.view = More(b.view, b.textBlock, data)
    PROVE  Shown(q)
  <1> DEFINE n == b.textBlock
             N == Len(b.blocks)
  <1>1. b.blocks \in Seq(BlockRec) /\ b.view \in Seq(BlockRec) /\ N \in Nat /\ Len(b.view) = N
    BY LenProperties DEF MessagesType, Shown
  <1>2. n \in 1 .. N /\ b.view[n] = b.blocks[n] /\ b.blocks[n].id = "" /\ q.textBlock = n
    <2>1. n \in 0 .. N /\ n # 0 /\ q.textBlock = n /\ b.view[n] = b.blocks[n] /\ b.blocks[n].id = ""
      BY DEF Shown, Rest
    <2>2. N \in Nat
      BY <1>1
    <2> HIDE DEF n, N
    <2>3. n \in 1 .. N
      BY ONLY <2>1, <2>2, BlockNumbers
    <2> QED BY <2>1, <2>3
  <1> HIDE DEF n, N
  <1>3. DOMAIN b.blocks = 1 .. N /\ DOMAIN b.view = 1 .. N
    BY <1>1, LenProperties DEF N
  <1>4. /\ Len(q.blocks) = N
        /\ q.blocks[n] = Block(b.blocks[n].id, b.blocks[n].name, b.blocks[n].data \o data)
        /\ \A m \in 1 .. N : m # n => q.blocks[m] = b.blocks[m]
    <2>1. q.blocks = More(b.blocks, n, data) /\ n \in DOMAIN b.blocks
      BY <1>2, <1>3 DEF n
    <2> QED BY <1>1, <1>3, <2>1, MoreTyped DEF N
  <1>5. /\ Len(q.view) = N
        /\ q.view[n] = Block(b.view[n].id, b.view[n].name, b.view[n].data \o data)
        /\ \A m \in 1 .. N : m # n => q.view[m] = b.view[m]
    <2>1. q.view = More(b.view, n, data) /\ n \in DOMAIN b.view
      BY <1>2, <1>3 DEF n
    <2> QED BY <1>1, <1>3, <2>1, MoreTyped DEF N
  <1>6. q.view[n] = q.blocks[n] /\ q.blocks[n].id = ""
    <2> DEFINE x == b.blocks[n].data \o data
    <2>1. q.blocks[n] = Block(b.blocks[n].id, b.blocks[n].name, x)
      BY <1>4
    <2>2. q.view[n] = Block(b.blocks[n].id, b.blocks[n].name, x)
      BY <1>2, <1>5
    <2> HIDE DEF x
    <2>3. q.blocks[n].id = b.blocks[n].id
      BY <2>1 DEF Block
    <2> QED BY <1>2, <2>1, <2>2, <2>3
  <1>7. ASSUME NEW c \in ToSet(q.calls), c.block # 0 PROVE CallShown(q, c)
    <2>1. CallShown(b, c)
      BY <1>7 DEF Shown
    <2>2. c.block \in 1 .. N /\ c.block # n
      BY <2>1 DEF CallShown, n, N
    <2>3. q.blocks[c.block] = b.blocks[c.block] /\ q.view[c.block] = b.view[c.block]
      BY <1>4, <1>5, <2>2
    <2> QED BY <1>2, <1>4, <2>1, <2>2, <2>3 DEF CallShown
  <1>8. \A c, d \in ToSet(q.calls) : c.block = d.block /\ c.block # 0 => c = d
    BY DEF Shown
  <1>9. \A m \in 1 .. N : m = n \/ \E c \in ToSet(q.calls) : c.block = m
    BY DEF Shown, n, N
  <1>10. q.sane /\ ~q.finished
    BY DEF Shown, Rest
  <1>11. n \in 0 .. N /\ n # 0
    BY ONLY <1>1, <1>2, BlockNumbers
  <1> QED BY <1>2, <1>4, <1>5, <1>6, <1>7, <1>8, <1>9, <1>10, <1>11 DEF Shown

\* the text begins
OpensText(b, q, e) ==
    /\ e = Block("", <<>>, <<>>)
    /\ q.textBlock = Len(b.blocks) + 1
    /\ q.blocks = Append(b.blocks, e) /\ q.view = Append(b.view, e) /\ q.calls = b.calls
    /\ q.sane = b.sane /\ q.finished = b.finished

LEMMA ShownOpens ==
    ASSUME NEW b \in MessagesType, Shown(b), b.textBlock = 0, NEW e \in BlockRec,
           NEW q \in MessagesType, OpensText(b, q, e)
    PROVE  Shown(q)
  <1> DEFINE N == Len(b.blocks)
  <1>1. b.blocks \in Seq(BlockRec) /\ b.view \in Seq(BlockRec) /\ N \in Nat /\ Len(b.view) = N
    BY LenProperties DEF MessagesType, Shown
  <1>2. /\ Len(q.blocks) = N + 1 /\ q.blocks[N + 1] = e
        /\ \A m \in 1 .. N : q.blocks[m] = b.blocks[m]
    <2>1. q.blocks = Append(b.blocks, e)
      BY DEF OpensText
    <2> QED BY <1>1, <2>1, AppendedTo
  <1>3. /\ Len(q.view) = N + 1 /\ q.view[N + 1] = e
        /\ \A m \in 1 .. N : q.view[m] = b.view[m]
    <2>1. q.view = Append(b.view, e)
      BY DEF OpensText
    <2> QED BY <1>1, <2>1, AppendedTo
  <1>4. q.textBlock = N + 1 /\ q.calls = b.calls /\ q.sane /\ ~q.finished
    BY DEF OpensText, Shown
  <1>5. e.id = ""
    BY DEF OpensText, Block
  <1> HIDE DEF N
  <1>6. ASSUME NEW c \in ToSet(q.calls), c.block # 0 PROVE CallShown(q, c)
    <2>1. CallShown(b, c)
      BY <1>4, <1>6 DEF Shown
    <2>2. c.block \in 1 .. N /\ c.block \in 1 .. N + 1 /\ c.block # N + 1
      <3> DEFINE k == c.block
      <3>1. k \in 1 .. N
        BY <2>1 DEF CallShown, N
      <3> HIDE DEF k
      <3>2. N \in Nat
        BY <1>1
      <3>3. k \in 1 .. N + 1 /\ k # N + 1
        BY <3>1, <3>2
      <3> QED BY <3>1, <3>3 DEF k
    <2>3. q.blocks[c.block] = b.blocks[c.block] /\ q.view[c.block] = b.view[c.block]
      BY <1>2, <1>3, <2>2
    <2> QED BY <1>2, <1>4, <2>1, <2>2, <2>3 DEF CallShown
  <1>7. \A c, d \in ToSet(q.calls) : c.block = d.block /\ c.block # 0 => c = d
    BY <1>4 DEF Shown
  <1>8. ASSUME NEW m \in 1 .. N + 1, m # N + 1 PROVE \E c \in ToSet(q.calls) : c.block = m
    <2>1. m \in 1 .. N /\ m # 0
      BY <1>1, <1>8
    <2> QED BY <1>4, <2>1 DEF Shown, N
  <1>9. N + 1 \in 0 .. N + 1 /\ N + 1 # 0
    BY <1>1
  <1> QED BY <1>2, <1>3, <1>4, <1>5, <1>6, <1>7, <1>8, <1>9 DEF Shown

LEMMA FilledTyped ==
    ASSUME NEW b \in MessagesType, NEW blocks \in Seq(BlockRec)
    PROVE  LET q == [b EXCEPT !.blocks = blocks]
           IN  /\ q \in MessagesType /\ Rest(b, q) /\ q.blocks = blocks /\ q.view = b.view
               /\ q.calls = b.calls
  BY DEF MessagesType, Rest

\* a text, more of it
LEMMA TextGrows ==
    ASSUME NEW b \in MessagesType, Shown(b), b.textBlock # 0, NEW data \in Seq(Words)
    PROVE  LET q == SendDelta([b EXCEPT !.blocks = More(@, b.textBlock, data)], b.textBlock, data)
           IN  q \in MessagesType /\ Shown(q)
  <1> DEFINE n == b.textBlock
             blocks == More(b.blocks, n, data)
             k == [b EXCEPT !.blocks = blocks]
             q == SendDelta(k, n, data)
  <1>1. b.blocks \in Seq(BlockRec) /\ b.view \in Seq(BlockRec) /\ Len(b.view) = Len(b.blocks)
        /\ Len(b.blocks) \in Nat
    BY LenProperties DEF MessagesType, Shown
  <1>2. n \in DOMAIN b.blocks /\ n \in DOMAIN b.view
    <2> DEFINE N == Len(b.blocks)
    <2>1. n \in 0 .. N /\ n # 0 /\ N \in Nat
      BY <1>1 DEF Shown
    <2> HIDE DEF n, N
    <2>2. n \in 1 .. N
      BY <2>1
    <2>3. DOMAIN b.blocks = 1 .. N /\ DOMAIN b.view = 1 .. N
      BY <1>1, LenProperties DEF N
    <2> QED BY <2>2, <2>3
  <1>3. blocks \in Seq(BlockRec)
    <2> HIDE DEF n
    <2> QED BY <1>1, <1>2, MoreTyped
  <1> HIDE DEF blocks
  <1>4. k \in MessagesType /\ Rest(b, k) /\ k.blocks = blocks /\ k.view = b.view /\ k.calls = b.calls
    BY <1>3, FilledTyped
  <1> HIDE DEF k, n
  <1>5. n \in DOMAIN k.view
    BY <1>2, <1>4
  <1>6. q \in MessagesType /\ Rest(k, q) /\ q.blocks = k.blocks /\ q.calls = k.calls
        /\ q.view = More(k.view, n, data)
    BY <1>4, <1>5, SendDeltaEffect
  <1> HIDE DEF q
  <1>7. /\ Rest(b, q) /\ q.calls = b.calls /\ q.blocks = More(b.blocks, b.textBlock, data)
        /\ q.view = More(b.view, b.textBlock, data)
    BY <1>4, <1>6, RestIsTransitive DEF n, blocks
  <1>8. Shown(q)
    BY <1>6, <1>7, ShownText
  <1> QED BY <1>6, <1>8 DEF q, k, n, blocks

LEMMA TextOpens ==
    ASSUME NEW b \in MessagesType, Shown(b), b.textBlock = 0
    PROVE  LET q == [StartBlock(b, Block("", <<>>, <<>>)) EXCEPT !.textBlock = Len(b.blocks) + 1]
           IN  q \in MessagesType /\ Shown(q) /\ q.textBlock # 0 /\ q.textBlock = Len(b.blocks) + 1
  <1> DEFINE none == <<>>
             e == Block("", none, none)
             st == StartBlock(b, e)
             n == Len(b.blocks) + 1
             q == [st EXCEPT !.textBlock = n]
  <1>1. n \in Nat /\ n # 0
    <2>1. Len(b.blocks) \in Nat
      BY LenProperties DEF MessagesType
    <2> QED BY <2>1
  <1>2. none \in Seq(STRING) /\ none \in Seq(Words)
    BY EmptySeq
  <1> HIDE DEF none, n
  <1>3. e \in BlockRec /\ e.data = none
    <2> DEFINE id == ""
    <2>1. id \in AnyId
      BY DEF AnyId
    <2> HIDE DEF id
    <2>2. Block(id, none, none) \in BlockRec /\ Block(id, none, none).data = none
      BY <1>2, <2>1, BlockTyped
    <2> QED BY <2>2 DEF id
  <1> HIDE DEF e
  <1>4. e.data = <<>>
    BY <1>3 DEF none
  <1>5. /\ st \in MessagesType /\ Rest(b, st) /\ st.calls = b.calls
        /\ st.blocks = Append(b.blocks, e) /\ st.view = Append(b.view, e)
    BY <1>3, <1>4, StartBlockEffect
  <1> HIDE DEF st
  <1>6. /\ q \in MessagesType /\ q.textBlock = n /\ q.blocks = st.blocks /\ q.view = st.view
        /\ q.calls = st.calls /\ q.sane = st.sane /\ q.finished = st.finished
    BY <1>1, <1>5 DEF MessagesType
  <1> HIDE DEF q
  <1>7. OpensText(b, q, e)
    BY <1>5, <1>6 DEF OpensText, Rest, n, e, none
  <1>8. Shown(q)
    BY <1>3, <1>6, <1>7, ShownOpens
  <1> QED BY <1>1, <1>6, <1>8 DEF q, st, e, none, n

LEMMA MessagesTextTyped ==
    ASSUME NEW b \in MessagesState, ~b.failed, NEW c \in UpstreamChunk
    PROVE  MessagesText(b, c) \in MessagesState
  <1> DEFINE open == [StartBlock(b, Block("", <<>>, <<>>)) EXCEPT !.textBlock = Len(b.blocks) + 1]
             opened == IF b.textBlock # 0 THEN b ELSE open
             q == SendDelta([opened EXCEPT !.blocks = More(@, opened.textBlock, c.text)],
                            opened.textBlock, c.text)
  <1>1. MessagesText(b, c) = IF c.text = <<>> THEN b ELSE IF b.reason # "" THEN Fail(b) ELSE q
    BY DEF MessagesText
  <1>2. b \in MessagesType /\ Shown(b)
    BY DEF MessagesState
  <1>3. Fail(b) \in MessagesState
    BY <1>2, FailedIsState
  <1>4. opened \in MessagesType /\ Shown(opened) /\ opened.textBlock # 0
    <2>1. CASE b.textBlock # 0
      BY <1>2, <2>1
    <2>2. CASE b.textBlock = 0
      <3>1. open \in MessagesType /\ Shown(open) /\ open.textBlock # 0
        BY <1>2, <2>2, TextOpens
      <3> HIDE DEF open
      <3> QED BY <2>2, <3>1
    <2> QED BY <2>1, <2>2
  <1>5. c.text \in Seq(Words)
    BY ChunkFields, TextIsWords
  <1> HIDE DEF opened
  <1>6. q \in MessagesState
    <2> DEFINE data == c.text
    <2>1. data \in Seq(Words)
      BY <1>5
    <2> HIDE DEF data
    <2>2. LET r == SendDelta([opened EXCEPT !.blocks = More(@, opened.textBlock, data)],
                             opened.textBlock, data)
          IN  r \in MessagesType /\ Shown(r)
      BY <1>4, <2>1, TextGrows
    <2> QED BY <2>2 DEF data, MessagesState
  <1> HIDE DEF q
  <1> QED BY <1>1, <1>3, <1>6

LEMMA MessagesStartTyped == MessagesStart \in MessagesType /\ Shown(MessagesStart)
  <1> DEFINE none == <<>>
  <1>1. none \in Seq(BlockRec) /\ none \in Calls /\ Len(none) = 0 /\ DOMAIN none = {}
    BY EmptySeq, NoCalls
  <1>2. ToSet(none) = {}
    BY <1>1 DEF ToSet
  <1> HIDE DEF none
  <1>3. MessagesStart =
            [blocks |-> none, calls |-> none, textBlock |-> 0, reason |-> "", tokens |-> FALSE,
             failed |-> FALSE, finished |-> FALSE, view |-> none, sane |-> TRUE]
    BY DEF MessagesStart, none
  <1>4. MessagesStart \in MessagesType
    BY <1>1, <1>3 DEF MessagesType, Reasons
  <1>5. \A n \in 1 .. 0 : FALSE
    OBVIOUS
  <1> DEFINE b == MessagesStart
  <1>6. b.blocks = none /\ b.view = none /\ b.calls = none /\ b.textBlock = 0 /\ b.sane /\ ~b.finished
    BY <1>3
  <1> HIDE DEF b
  <1>7. 0 \in 0 .. 0
    OBVIOUS
  <1>8. Shown(b)
    BY <1>1, <1>2, <1>5, <1>6, <1>7 DEF Shown
  <1> QED BY <1>4, <1>8 DEF b

\* a chunk
LEMMA MessagesPushTyped ==
    ASSUME NEW b \in MessagesState, ~b.failed, NEW c \in UpstreamChunk
    PROVE  MessagesPush(b, c) \in MessagesState
  <1> DEFINE text == MessagesText(b, c)
             done == FoldLeft(MessagesCall, text, c.calls)
             reason == IF c.finish = "" THEN done.reason ELSE c.finish
             q == [done EXCEPT !.reason = reason, !.tokens = @ \/ c.usage = "ok"]
  <1>1. text \in MessagesState
    BY MessagesTextTyped
  <1> HIDE DEF text
  <1>2. done = Fold(MessagesCallStep, text, c.calls)
    BY <1>1, ChunkFields, MessagesCallIsFold
  <1>3. done \in MessagesState
    BY <1>1, <1>2, ChunkFields, MessagesCallIsStep, FoldSteps
  <1>4. b \in MessagesType /\ Fail(b) \in MessagesState
    BY FailedIsState DEF MessagesState
  <1>5. MessagesPush(b, c) =
            IF c.usage = "bad" \/ c.finish \notin Stops \cup {""} \/ done.failed THEN Fail(b) ELSE q
    BY DEF MessagesPush, text
  <1> HIDE DEF done
  <1>6. ASSUME ~done.failed PROVE q \in MessagesState
    <2>1. done \in MessagesType /\ Shown(done)
      BY <1>3, <1>6 DEF MessagesState
    <2>2. reason \in Reasons
      BY <2>1, ChunkFields DEF MessagesType
    <2> DEFINE tokens == done.tokens \/ c.usage = "ok"
    <2>3. tokens \in BOOLEAN
      BY <2>1 DEF MessagesType
    <2> HIDE DEF reason, tokens
    <2> DEFINE r == [done EXCEPT !.reason = reason, !.tokens = tokens]
    <2>4. /\ r \in MessagesType /\ r.blocks = done.blocks /\ r.view = done.view /\ r.calls = done.calls
          /\ r.textBlock = done.textBlock /\ r.sane = done.sane /\ r.finished = done.finished
      BY <2>1, <2>2, <2>3 DEF MessagesType
    <2> HIDE DEF r
    <2>5. \A d : CallShown(done, d) => CallShown(r, d)
      BY <2>4 DEF CallShown
    <2>6. Shown(r)
      BY <2>1, <2>4, <2>5 DEF Shown
    <2>7. q = r
      BY DEF r, tokens
    <2> HIDE DEF q
    <2> QED BY <2>4, <2>6, <2>7 DEF MessagesState
  <1> HIDE DEF q
  <1> QED BY <1>4, <1>5, <1>6

(* The end of an answer in messages: what the calls have left is filled in *)

LEMMA ArgumentsTyped ==
    ASSUME NEW args \in Seq(Pieces)
    PROVE  OrEmpty(args) \in Seq(Words)
  <1>1. <<"{", "}">> \in Seq(Pieces)
    <2> DEFINE p == "{"
               q == "}"
    <2>1. p \in Pieces /\ q \in Pieces
      BY DEF Pieces
    <2> HIDE DEF p, q
    <2>2. <<p, q>> \in Seq(Pieces)
      BY <2>1
    <2> QED BY <2>2 DEF p, q
  <1> DEFINE both == <<"{", "}">>
  <1> HIDE DEF both
  <1>2. OrEmpty(args) = IF args = <<>> THEN both ELSE args
    BY DEF OrEmpty, both
  <1>3. OrEmpty(args) \in Seq(Pieces)
    BY <1>1, <1>2 DEF both
  <1> QED BY <1>3, PiecesAreWords

\* a list with one of its blocks filled
Filled(blocks, n, data) == [blocks EXCEPT ![n] = Block(@.id, @.name, data)]

LEMMA FilledIn ==
    ASSUME NEW blocks \in Seq(BlockRec), NEW n \in Nat, NEW data \in Seq(Words)
    PROVE  /\ Filled(blocks, n, data) \in Seq(BlockRec)
           /\ Len(Filled(blocks, n, data)) = Len(blocks)
           /\ n \in DOMAIN blocks =>
                Filled(blocks, n, data)[n] = Block(blocks[n].id, blocks[n].name, data)
           /\ \A m \in DOMAIN blocks : m # n => Filled(blocks, n, data)[m] = blocks[m]
  <1> DEFINE e == Block(blocks[n].id, blocks[n].name, data)
             q == [blocks EXCEPT ![n] = e]
  <1>1. /\ Len(blocks) \in Nat /\ DOMAIN blocks = 1 .. Len(blocks)
        /\ \A m \in 1 .. Len(blocks) : blocks[m] \in BlockRec
    BY LenProperties, ElementOfSeq
  <1>2. n \in DOMAIN blocks => e \in BlockRec
    BY <1>1, BlockFields, BlockTyped
  <1>3. Filled(blocks, n, data) = q
    BY DEF Filled
  <1> HIDE DEF e
  <1>4. q \in [1 .. Len(blocks) -> BlockRec]
    <2>1. blocks \in [1 .. Len(blocks) -> BlockRec]
      BY <1>1
    <2> QED BY <1>1, <1>2, <2>1
  <1>5. /\ n \in DOMAIN blocks => q[n] = e
        /\ \A m \in DOMAIN blocks : m # n => q[m] = blocks[m]
    OBVIOUS
  <1> HIDE DEF q
  <1>6. q \in Seq(BlockRec) /\ Len(q) = Len(blocks)
    BY <1>1, <1>4, FunctionIsList
  <1> QED BY <1>3, <1>5, <1>6 DEF e

\* a call that has no block gets one
BlockAtEnd(b, q, e) ==
    q.blocks = Append(b.blocks, e) /\ q.view = Append(b.view, e)

LEMMA ConcludeNew ==
    ASSUME NEW b \in MessagesType, Len(b.view) = Len(b.blocks),
           NEW call \in CallRec, call.block = 0
    PROVE  LET q == Conclude(b, call)
           IN  /\ q \in MessagesType /\ Rest(b, q) /\ q.calls = b.calls
               /\ BlockAtEnd(b, q, Block(call.id, call.name, OrEmpty(call.args)))
  <1> DEFINE none == <<>>
             e == Block(call.id, call.name, none)
             N == Len(b.blocks)
             n == N + 1
             data == OrEmpty(call.args)
             st == StartBlock(b, e)
             begun == SendDelta(st, n, data)
             filled == Filled(begun.blocks, n, data)
             q == [begun EXCEPT !.blocks = filled]
             v == Block(call.id, call.name, data)
  <1>1. Conclude(b, call) = q
    BY DEF Conclude, Filled
  <1>2. call.id \in AnyId /\ call.name \in Seq(STRING) /\ none \in Seq(Words) /\ data \in Seq(Words)
    BY EmptySeq, ArgumentsTyped DEF CallRec
  <1> HIDE DEF none, data
  <1>3. /\ e \in BlockRec /\ e.data = none /\ e.id = call.id /\ e.name = call.name
        /\ v \in BlockRec /\ v = Block(e.id, e.name, data)
    BY <1>2, BlockTyped
  <1>4. e.data = <<>>
    BY <1>3 DEF none
  <1> HIDE DEF e, v
  <1>5. /\ st \in MessagesType /\ Rest(b, st) /\ st.calls = b.calls
        /\ st.blocks = Append(b.blocks, e) /\ st.view = Append(b.view, e)
    BY <1>3, <1>4, StartBlockEffect
  <1>6. b.blocks \in Seq(BlockRec) /\ b.view \in Seq(BlockRec) /\ Len(b.view) = N /\ N \in Nat
    BY LenProperties DEF MessagesType
  <1> HIDE DEF st
  <1>7. n \in DOMAIN st.view /\ More(st.view, n, data) = Append(b.view, v)
    <2> DEFINE view == b.view
    <2> HIDE DEF view
    <2>1. /\ Len(view) + 1 \in DOMAIN Append(view, e)
          /\ More(Append(view, e), Len(view) + 1, data) = Append(view, Block(e.id, e.name, e.data \o data))
      <3>1. view \in Seq(BlockRec)
        BY <1>6 DEF view
      <3> QED BY <1>2, <1>3, <3>1, MoreOfAppend
    <2>2. e.data \o data = data
      BY <1>2, <1>3, NothingMore DEF none
    <2>3. Len(view) + 1 = n /\ st.view = Append(view, e)
      BY <1>5, <1>6 DEF view
    <2> QED BY <1>3, <2>1, <2>2, <2>3 DEF view
  <1>8. n \in Nat /\ \A m \in 1 .. n : m = n \/ (m \in 1 .. N /\ m # n)
    BY <1>6
  <1> HIDE DEF n
  <1>9. /\ begun \in MessagesType /\ Rest(st, begun) /\ begun.blocks = st.blocks
        /\ begun.calls = st.calls /\ begun.view = Append(b.view, v)
    BY <1>2, <1>5, <1>7, SendDeltaEffect
  <1> HIDE DEF begun
  <1>10. begun.blocks \in Seq(BlockRec)
    BY <1>9 DEF MessagesType
  <1>11. filled \in Seq(BlockRec) /\ filled = Append(b.blocks, v)
    <2> DEFINE w == begun.blocks
    <2>1. /\ w \in Seq(BlockRec) /\ Len(w) = n /\ w[n] = e /\ \A m \in 1 .. N : w[m] = b.blocks[m]
      <3>1. w = Append(b.blocks, e)
        BY <1>5, <1>9
      <3> QED BY <1>3, <1>6, <3>1, AppendedTo DEF n
    <2>2. /\ Append(b.blocks, v) \in Seq(BlockRec) /\ Len(Append(b.blocks, v)) = n
          /\ Append(b.blocks, v)[n] = v /\ \A m \in 1 .. N : Append(b.blocks, v)[m] = b.blocks[m]
      BY <1>3, <1>6, AppendedTo DEF n
    <2> HIDE DEF w
    <2>3. DOMAIN w = 1 .. n /\ n \in 1 .. n /\ \A m \in 1 .. n : m \in DOMAIN w
      <3>1. DOMAIN w = 1 .. n
        BY <2>1, LenProperties
      <3>2. n \in 1 .. n
        BY <1>6 DEF n
      <3> QED BY <3>1, <3>2
    <2>4. /\ filled \in Seq(BlockRec) /\ Len(filled) = n
          /\ filled[n] = v
          /\ \A m \in DOMAIN w : m # n => filled[m] = w[m]
      <3>1. LET x == Filled(w, n, data)
            IN  /\ x \in Seq(BlockRec) /\ Len(x) = Len(w)
                /\ n \in DOMAIN w => x[n] = Block(w[n].id, w[n].name, data)
                /\ \A m \in DOMAIN w : m # n => x[m] = w[m]
        BY <1>2, <1>8, <2>1, FilledIn
      <3> QED BY <1>3, <2>1, <2>3, <3>1 DEF w
    <2> HIDE DEF filled
    <2>5. \A m \in 1 .. n : filled[m] = Append(b.blocks, v)[m]
      BY <1>8, <2>1, <2>2, <2>3, <2>4
    <2>6. filled = Append(b.blocks, v)
      BY <2>2, <2>4, <2>5, SeqEqual
    <2> QED BY <2>4, <2>6
  <1> HIDE DEF filled
  <1>12. q \in MessagesType /\ Rest(begun, q) /\ q.blocks = filled /\ q.view = begun.view
         /\ q.calls = begun.calls
    BY <1>9, <1>11, FilledTyped
  <1> HIDE DEF q
  <1>13. Rest(b, q)
    BY <1>5, <1>9, <1>12, RestIsTransitive
  <1>14. q.calls = b.calls /\ q.blocks = Append(b.blocks, v) /\ q.view = Append(b.view, v)
    BY <1>5, <1>9, <1>11, <1>12
  <1>15. v = Block(call.id, call.name, OrEmpty(call.args))
    BY DEF v, data
  <1> QED BY <1>1, <1>12, <1>13, <1>14, <1>15 DEF BlockAtEnd

LEMMA ConcludeOld ==
    ASSUME NEW b \in MessagesType, NEW call \in CallRec, call.block # 0
    PROVE  LET q == Conclude(b, call)
           IN  /\ q \in MessagesType /\ Rest(b, q) /\ q.calls = b.calls /\ q.view = b.view
               /\ q.blocks = Filled(b.blocks, call.block, OrEmpty(call.args))
  <1> DEFINE data == OrEmpty(call.args)
             blocks == Filled(b.blocks, call.block, data)
  <1>1. Conclude(b, call) = [b EXCEPT !.blocks = blocks]
    BY DEF Conclude, Filled
  <1>2. call.block \in Nat /\ data \in Seq(Words) /\ b.blocks \in Seq(BlockRec)
    BY ArgumentsTyped DEF CallRec, MessagesType
  <1> HIDE DEF data
  <1>3. blocks \in Seq(BlockRec)
    BY <1>2, FilledIn
  <1> HIDE DEF blocks
  <1> QED BY <1>1, <1>3, FilledTyped DEF blocks, data

\* While calls D of b are concluded: a block that the client does not have in full
\* is of a call to come, and the ids are the calls'.
OwnIds(E) == \A c \in E : c.id # "" /\ \A d \in E : c.id = d.id => c = d
OwnBlocks(blocks) ==
    \A m, n \in DOMAIN blocks : blocks[m].id = blocks[n].id /\ blocks[n].id # "" => m = n
Even == {q \in MessagesType : Len(q.view) = Len(q.blocks)}
Concluding(b, q, D) ==
    LET E == ToSet(b.calls)
    IN  /\ q \in Even /\ Rest(b, q) /\ q.calls = b.calls
        /\ \A n \in 1 .. Len(q.blocks) : q.view[n] = q.blocks[n] \/ \E c \in E \ D : c.block = n
        /\ \A c \in E \ D : c.block # 0 => CallShown(q, c)
        /\ \A n \in 1 .. Len(q.blocks) :
              q.blocks[n].id # "" => \E c \in E : c.id = q.blocks[n].id /\ (c \in D \/ c.block = n)
        /\ \A m, n \in 1 .. Len(q.blocks) : q.blocks[m].id = q.blocks[n].id /\ q.blocks[n].id # "" => m = n

LEMMA ConcludeStart ==
    ASSUME NEW b \in MessagesType, Shown(b), OwnIds(ToSet(b.calls))
    PROVE  Concluding(b, b, {})
  <1> DEFINE E == ToSet(b.calls)
             N == Len(b.blocks)
  <1>1. b \in Even /\ Rest(b, b) /\ N \in Nat
    BY LenProperties DEF Even, Shown, Rest, MessagesType
  <1>2. /\ b.textBlock # 0 => b.view[b.textBlock] = b.blocks[b.textBlock] /\ b.blocks[b.textBlock].id = ""
        /\ \A c \in E : c.block # 0 => CallShown(b, c)
        /\ \A n \in 1 .. N : n = b.textBlock \/ \E c \in E : c.block = n
    BY DEF Shown
  <1>3. \A n \in 1 .. N : n # 0
    BY <1>1
  <1> HIDE DEF E, N
  <1>4. \A n \in 1 .. N : b.view[n] = b.blocks[n] \/ \E c \in E \ {} : c.block = n
    BY <1>2, <1>3
  <1>5. ASSUME NEW n \in 1 .. N, NEW c \in E, c.block = n PROVE b.blocks[n].id = c.id
    <2>1. CallShown(b, c)
      BY <1>2, <1>3, <1>5
    <2>2. b.blocks[n] = Block(c.id, c.name, <<>>)
      BY <1>5, <2>1 DEF CallShown
    <2> QED BY <2>2 DEF Block
  <1>6. \A n \in 1 .. N :
            b.blocks[n].id # "" => \E c \in E : c.id = b.blocks[n].id /\ (c \in {} \/ c.block = n)
    BY <1>2, <1>3, <1>5
  <1>7. ASSUME NEW m \in 1 .. N, NEW n \in 1 .. N, b.blocks[m].id = b.blocks[n].id, b.blocks[n].id # ""
        PROVE  m = n
    <2>1. PICK c \in E : c.id = b.blocks[m].id /\ c.block = m
      BY <1>6, <1>7
    <2>2. PICK d \in E : d.id = b.blocks[n].id /\ d.block = n
      BY <1>6, <1>7
    <2>3. c = d
      BY <1>7, <2>1, <2>2 DEF OwnIds, E
    <2> QED BY <2>1, <2>2, <2>3
  <1> QED BY <1>1, <1>2, <1>4, <1>6, <1>7 DEF Concluding, E, N

LEMMA ConcludeStep ==
    ASSUME NEW b \in MessagesType, Shown(b), OwnIds(ToSet(b.calls)),
           NEW D \in SUBSET ToSet(b.calls), NEW q, Concluding(b, q, D),
           NEW c \in ToSet(b.calls) \ D
    PROVE  Concluding(b, Conclude(q, c), D \cup {c})
  <1> DEFINE E == ToSet(b.calls)
             D1 == D \cup {c}
             r == Conclude(q, c)
             N == Len(q.blocks)
             data == OrEmpty(c.args)
  <1>1. q \in MessagesType /\ Len(q.view) = N /\ Rest(b, q) /\ q.calls = b.calls /\ N \in Nat
        /\ q.blocks \in Seq(BlockRec) /\ q.view \in Seq(BlockRec)
    BY LenProperties DEF Concluding, Even, MessagesType
  <1>2. E \subseteq CallRec /\ c \in CallRec
    <2>1. b.calls \in Calls
      BY DEF MessagesType
    <2> QED BY <2>1, CallsAreSeq, ElementsOfList
  <1>3. /\ \A n \in 1 .. N : q.view[n] = q.blocks[n] \/ \E d \in E \ D : d.block = n
        /\ \A d \in E \ D : d.block # 0 => CallShown(q, d)
        /\ \A n \in 1 .. N :
              q.blocks[n].id # "" => \E d \in E : d.id = q.blocks[n].id /\ (d \in D \/ d.block = n)
        /\ \A m, n \in 1 .. N : q.blocks[m].id = q.blocks[n].id /\ q.blocks[n].id # "" => m = n
    BY DEF Concluding
  <1>4. \A d \in E : d.block = c.block /\ c.block # 0 => d = c
    BY DEF Shown
  <1>5. c.id # "" /\ \A d \in E : d.id = c.id => d = c
    BY DEF OwnIds
  <1>6. CASE c.block # 0
    <2> DEFINE n == c.block
    <2>1. /\ r \in MessagesType /\ Rest(q, r) /\ r.calls = q.calls /\ r.view = q.view
          /\ r.blocks = Filled(q.blocks, n, data)
      BY <1>1, <1>2, <1>6, ConcludeOld
    <2>2. CallShown(q, c)
      BY <1>3, <1>6
    <2>3. n \in 1 .. N /\ q.blocks[n] = Block(c.id, c.name, <<>>) /\ q.view[n] = Block(c.id, c.name, c.args)
          /\ data = c.args
      BY <2>2 DEF CallShown, OrEmpty
    <2>4. data \in Seq(Words) /\ n \in Nat
      BY <1>2, ArgumentsTyped DEF CallRec
    <2>5. DOMAIN q.blocks = 1 .. N
      BY <1>1, LenProperties
    <2> HIDE DEF E, data, N, r, n
    <2>6. /\ Len(r.blocks) = N /\ r.blocks[n] = Block(q.blocks[n].id, q.blocks[n].name, data)
          /\ \A m \in 1 .. N : m # n => r.blocks[m] = q.blocks[m]
      <3>1. LET x == Filled(q.blocks, n, data)
            IN  /\ Len(x) = Len(q.blocks)
                /\ n \in DOMAIN q.blocks => x[n] = Block(q.blocks[n].id, q.blocks[n].name, data)
                /\ \A m \in DOMAIN q.blocks : m # n => x[m] = q.blocks[m]
        BY <1>1, <2>4, FilledIn
      <3> QED BY <2>1, <2>3, <2>5, <3>1 DEF N
    <2>7. q.blocks[n].id = c.id /\ q.blocks[n].name = c.name
      BY <2>3 DEF Block
    <2>8. r.blocks[n] = r.view[n] /\ r.blocks[n].id = q.blocks[n].id
      BY <2>1, <2>3, <2>6, <2>7 DEF Block
    <2>9. \A m \in 1 .. N : r.blocks[m].id = q.blocks[m].id
      BY <2>6, <2>8
    <2>10. \A m \in 1 .. N : r.view[m] = r.blocks[m] \/ \E d \in E \ D1 : d.block = m
      <3> SUFFICES ASSUME NEW m \in 1 .. N, m # n PROVE r.view[m] = r.blocks[m] \/ \E d \in E \ D1 : d.block = m
        BY <2>8
      <3>1. r.view[m] = q.view[m] /\ r.blocks[m] = q.blocks[m]
        BY <2>1, <2>6
      <3>2. CASE q.view[m] = q.blocks[m]
        BY <3>1, <3>2
      <3>3. CASE \E d \in E \ D : d.block = m
        <4>1. PICK d \in E \ D : d.block = m
          BY <3>3
        <4>2. d # c
          BY <4>1 DEF n
        <4> QED BY <4>1, <4>2
      <3> QED BY <1>3, <3>2, <3>3
    <2>11. ASSUME NEW d \in E \ D1, d.block # 0 PROVE CallShown(r, d)
      <3>1. d \in E \ D /\ d # c
        BY <2>11
      <3>2. CallShown(q, d) /\ d.block # n
        BY <1>3, <1>4, <1>6, <2>11, <3>1 DEF n, E
      <3>3. d.block \in 1 .. N
        BY <3>2 DEF CallShown, N
      <3>4. r.blocks[d.block] = q.blocks[d.block] /\ r.view[d.block] = q.view[d.block]
        BY <2>1, <2>6, <3>2, <3>3
      <3> QED BY <2>1, <2>6, <3>2, <3>3, <3>4 DEF CallShown, Rest
    <2>12. \A m \in 1 .. N :
              r.blocks[m].id # "" => \E d \in E : d.id = r.blocks[m].id /\ (d \in D1 \/ d.block = m)
      BY <1>3, <2>9
    <2>13. \A l, m \in 1 .. N : r.blocks[l].id = r.blocks[m].id /\ r.blocks[m].id # "" => l = m
      BY <1>3, <2>9
    <2>14. r \in Even /\ Rest(b, r) /\ r.calls = b.calls
      BY <1>1, <2>1, <2>6, RestIsTransitive DEF Even
    <2> QED BY <2>6, <2>10, <2>11, <2>12, <2>13, <2>14 DEF Concluding, E, r
  <1>7. CASE c.block = 0
    <2> DEFINE v == Block(c.id, c.name, data)
    <2>1. /\ r \in MessagesType /\ Rest(q, r) /\ r.calls = q.calls /\ BlockAtEnd(q, r, v)
      BY <1>1, <1>2, <1>7, ConcludeNew
    <2>2. v \in BlockRec /\ v.id = c.id
      <3>1. c.id \in AnyId /\ c.name \in Seq(STRING) /\ data \in Seq(Words)
        BY <1>2, ArgumentsTyped DEF CallRec
      <3> HIDE DEF data
      <3> QED BY <3>1, BlockTyped
    <2> HIDE DEF v, r
    <2>3. /\ Len(r.blocks) = N + 1 /\ r.blocks[N + 1] = v
          /\ \A m \in 1 .. N : r.blocks[m] = q.blocks[m]
      <3>1. r.blocks = Append(q.blocks, v)
        BY <2>1 DEF BlockAtEnd
      <3> QED BY <1>1, <2>2, <3>1, AppendedTo
    <2>4. /\ Len(r.view) = N + 1 /\ r.view[N + 1] = v
          /\ \A m \in 1 .. N : r.view[m] = q.view[m]
      <3>1. r.view = Append(q.view, v)
        BY <2>1 DEF BlockAtEnd
      <3> QED BY <1>1, <2>2, <3>1, AppendedTo
    <2> HIDE DEF E, N
    <2>5. \A m \in 1 .. N + 1 : m = N + 1 \/ m \in 1 .. N
      BY <1>1
    <2>6. \A m \in 1 .. N : m \in 1 .. N + 1 /\ m # N + 1 /\ m # 0
      BY <1>1
    <2>7. ASSUME NEW m \in 1 .. N PROVE r.view[m] = r.blocks[m] \/ \E d \in E \ D1 : d.block = m
      <3>1. r.view[m] = q.view[m] /\ r.blocks[m] = q.blocks[m]
        BY <2>3, <2>4
      <3>2. CASE \E d \in E \ D : d.block = m
        <4>1. PICK d \in E \ D : d.block = m
          BY <3>2
        <4>2. d # c
          BY <1>7, <2>6, <4>1
        <4> QED BY <4>1, <4>2
      <3> QED BY <1>3, <3>1, <3>2
    <2>8. \A m \in 1 .. N + 1 : r.view[m] = r.blocks[m] \/ \E d \in E \ D1 : d.block = m
      BY <2>3, <2>4, <2>5, <2>7
    <2>9. ASSUME NEW d \in E \ D1, d.block # 0 PROVE CallShown(r, d)
      <3>1. CallShown(q, d)
        BY <1>3, <2>9
      <3>2. d.block \in 1 .. N
        BY <3>1 DEF CallShown, N
      <3>3. r.blocks[d.block] = q.blocks[d.block] /\ r.view[d.block] = q.view[d.block]
            /\ d.block \in 1 .. N + 1
        BY <2>3, <2>4, <2>6, <3>2
      <3> QED BY <2>1, <2>3, <3>1, <3>3 DEF CallShown, Rest
    <2>10. \A m \in 1 .. N :
              r.blocks[m].id # "" => \E d \in E : d.id = r.blocks[m].id /\ (d \in D1 \/ d.block = m)
      BY <1>3, <2>3
    <2>11. r.blocks[N + 1].id = c.id /\ c \in D1 /\ c \in E
      BY <2>2, <2>3 DEF E
    <2>12. \A m \in 1 .. N + 1 :
              r.blocks[m].id # "" => \E d \in E : d.id = r.blocks[m].id /\ (d \in D1 \/ d.block = m)
      BY <2>5, <2>10, <2>11
    <2>13. ASSUME NEW m \in 1 .. N PROVE r.blocks[m].id # c.id
      <3> SUFFICES ASSUME r.blocks[m].id = c.id PROVE FALSE
        OBVIOUS
      <3>1. q.blocks[m].id = c.id
        BY <2>3
      <3>2. PICK d \in E : d.id = q.blocks[m].id /\ (d \in D \/ d.block = m)
        BY <1>3, <1>5, <3>1
      <3>3. d = c
        BY <1>5, <3>1, <3>2 DEF E
      <3> QED BY <1>7, <2>6, <3>2, <3>3
    <2>14. \A l, m \in 1 .. N : r.blocks[l].id = r.blocks[m].id /\ r.blocks[m].id # "" => l = m
      BY <1>3, <2>3
    <2>15. \A l, m \in 1 .. N + 1 : r.blocks[l].id = r.blocks[m].id /\ r.blocks[m].id # "" => l = m
      BY <2>5, <2>11, <2>13, <2>14
    <2>16. r \in Even /\ Rest(b, r) /\ r.calls = b.calls
      BY <1>1, <2>1, <2>3, <2>4, RestIsTransitive DEF Even
    <2> QED BY <2>3, <2>8, <2>9, <2>12, <2>15, <2>16 DEF Concluding, E, r
  <1> QED BY <1>6, <1>7

ConcludeCallStep == [q \in Even \X CallRec |-> Conclude(q[1], q[2])]
LEMMA ConcludeIsStep == ConcludeCallStep \in Steps(Even, CallRec)
  <1>1. ASSUME NEW b \in Even, NEW c \in CallRec PROVE Conclude(b, c) \in Even
    <2> DEFINE q == Conclude(b, c)
               v == Block(c.id, c.name, OrEmpty(c.args))
    <2>1. b \in MessagesType /\ Len(b.view) = Len(b.blocks) /\ b.blocks \in Seq(BlockRec)
          /\ b.view \in Seq(BlockRec)
      BY DEF Even, MessagesType
    <2>2. OrEmpty(c.args) \in Seq(Words) /\ c.block \in Nat /\ v \in BlockRec
      <3>1. OrEmpty(c.args) \in Seq(Words)
        BY ArgumentsTyped DEF CallRec
      <3> DEFINE data == OrEmpty(c.args)
      <3> HIDE DEF data
      <3>2. data \in Seq(Words) /\ c.id \in AnyId /\ c.name \in Seq(STRING) /\ c.block \in Nat
        BY <3>1 DEF data, CallRec
      <3>3. Block(c.id, c.name, data) \in BlockRec
        BY <3>2, BlockTyped
      <3> QED BY <3>2, <3>3 DEF data
    <2> HIDE DEF q, v
    <2>3. CASE c.block # 0
      <3>1. q \in MessagesType /\ q.view = b.view /\ q.blocks = Filled(b.blocks, c.block, OrEmpty(c.args))
        BY <2>1, <2>3, ConcludeOld DEF q
      <3>2. Len(q.blocks) = Len(b.blocks)
        BY <2>1, <2>2, <3>1, FilledIn
      <3> QED BY <2>1, <3>1, <3>2 DEF Even, q
    <2>4. CASE c.block = 0
      <3>1. q \in MessagesType /\ BlockAtEnd(b, q, v)
        BY <2>1, <2>4, ConcludeNew DEF q, v
      <3>2. Len(q.blocks) = Len(b.blocks) + 1 /\ Len(q.view) = Len(b.view) + 1
        BY <2>1, <2>2, <3>1, AppendedTo DEF BlockAtEnd
      <3> QED BY <2>1, <3>1, <3>2 DEF Even, q
    <2> QED BY <2>3, <2>4
  <1> QED BY <1>1 DEF ConcludeCallStep, Steps

LEMMA ConcludeIsFold ==
    ASSUME NEW base \in Even, NEW s \in Seq(CallRec)
    PROVE  FoldLeft(Conclude, base, s) = Fold(ConcludeCallStep, base, s)
  <1> DEFINE Maps(g) ==
        g = [t \in SUBSET DOMAIN s |->
                IF t = {} THEN base ELSE Conclude(g[t \ {Max(t)}], s[Max(t)])]
  <1>1. PICK g \in [SUBSET DOMAIN s -> Even] : IsFold(g, ConcludeCallStep, base, s)
    BY ConcludeIsStep, TableExists
  <1>2. Maps(g)
    <2>1. ASSUME NEW t \in SUBSET DOMAIN s, t # {}
          PROVE  ConcludeCallStep[<<g[t \ {Max(t)}], s[Max(t)]>>]
                    = Conclude(g[t \ {Max(t)}], s[Max(t)])
      <3>1. s[Max(t)] \in CallRec /\ g[t \ {Max(t)}] \in Even
        BY <1>1, <2>1, ElementOfTable
      <3> QED BY <3>1 DEF ConcludeCallStep
    <2> QED BY <1>1, <2>1 DEF IsFold
  <1> DEFINE h == CHOOSE h : Maps(h)
  <1>3. Maps(h)
    BY <1>2
  <1>4. FoldLeft(Conclude, base, s) = h[DOMAIN s]
    BY DEF FoldLeft, MapThenFoldSet
  <1> HIDE DEF h
  <1>5. Computes(h, Even, ConcludeCallStep, base, s)
    <2>1. ASSUME NEW t \in SUBSET DOMAIN s, t # {}, h[t \ {Max(t)}] \in Even
          PROVE  h[t] = ConcludeCallStep[<<h[t \ {Max(t)}], s[Max(t)]>>]
      <3>1. s[Max(t)] \in CallRec
        BY <2>1, ElementOfTable
      <3>2. h[t] = Conclude(h[t \ {Max(t)}], s[Max(t)])
        BY <1>3, <2>1
      <3> QED BY <2>1, <3>1, <3>2 DEF ConcludeCallStep
    <2>2. h[{}] = base
      BY <1>3
    <2> QED BY <2>1, <2>2 DEF Computes
  <1> QED BY <1>4, <1>5, ConcludeIsStep, FoldLink



LEMMA AllConcluded ==
    ASSUME NEW b \in MessagesType, Shown(b), OwnIds(ToSet(b.calls))
    PROVE  Concluding(b, FoldLeft(Conclude, b, b.calls), ToSet(b.calls))
  <1> DEFINE F(u) == Fold(ConcludeCallStep, b, u)
             CallParts(u) == ToSet(u) \subseteq ToSet(b.calls) /\ IsInjective(u)
             G == {u \in Seq(CallRec) : CallParts(u) => Concluding(b, F(u), ToSet(u))}
  <1>1. b \in Even /\ b.calls \in Seq(CallRec)
    <2>1. b.calls \in Calls
      BY DEF MessagesType
    <2> QED BY <2>1, CallsAreSeq DEF Even, Shown
  <1>2. /\ \A u \in Seq(CallRec) : F(u) \in Even
        /\ F(<<>>) = b
        /\ \A u \in Seq(CallRec), c \in CallRec : F(Append(u, c)) = ConcludeCallStep[<<F(u), c>>]
    BY <1>1, ConcludeIsStep, FoldSteps
  <1> HIDE DEF F
  <1>3. <<>> \in G
    <2>1. ToSet(<<>>) = {}
      BY EmptySeq, ElementsOfList
    <2>2. Concluding(b, F(<<>>), ToSet(<<>>))
      BY <1>2, <2>1, ConcludeStart
    <2> QED BY <2>2, EmptySeq
  <1>4. ASSUME NEW u \in Seq(CallRec), NEW c \in CallRec, u \in G PROVE Append(u, c) \in G
    <2> DEFINE w == Append(u, c)
    <2>1. w \in Seq(CallRec) /\ ToSet(w) = ToSet(u) \cup {c}
          /\ (IsInjective(w) <=> IsInjective(u) /\ c \notin ToSet(u))
      BY AppendProperties, ListOfAppend
    <2>2. F(w) = Conclude(F(u), c)
      BY <1>2 DEF ConcludeCallStep
    <2> HIDE DEF w
    <2>3. ASSUME CallParts(w) PROVE Concluding(b, F(w), ToSet(w))
      <3>1. CallParts(u) /\ c \in ToSet(b.calls) \ ToSet(u)
        BY <2>1, <2>3
      <3>2. Concluding(b, F(u), ToSet(u))
        BY <1>4, <3>1
      <3> QED BY <2>1, <2>2, <3>1, <3>2, ConcludeStep
    <2>4. w \in G
      BY <2>1, <2>3
    <2> QED BY <2>4 DEF w
  <1>5. CallParts(b.calls)
    <2>1. Indexed(b.calls)
      BY DEF MessagesType, Calls
    <2> QED BY <2>1 DEF Indexed, IsInjective
  <1> HIDE DEF G
  <1>6. b.calls \in G
    BY <1>1, <1>3, <1>4, SeqInduction
  <1>7. FoldLeft(Conclude, b, b.calls) = F(b.calls)
    BY <1>1, ConcludeIsFold DEF F
  <1> QED BY <1>5, <1>6, <1>7 DEF G

\* calls that assemble have ids of their own
LEMMA AssembledIds ==
    ASSUME NEW b, b.calls \in Calls, Assembles(b)
    PROVE  OwnIds(ToSet(b.calls))
  <1> DEFINE s == b.calls
             ids == [k \in DOMAIN s |-> s[k].id]
  <1>1. s \in Seq(CallRec) /\ Len(s) \in Nat /\ DOMAIN s = 1 .. Len(s)
        /\ \A k \in 1 .. Len(s) : s[k] \in CallRec
    BY CallsAreSeq, LenProperties, ElementOfSeq
  <1>2. ids \in Seq(AnyId) /\ Len(ids) = Len(s) /\ DOMAIN ids = DOMAIN s
    <2>1. \A k \in 1 .. Len(s) : s[k].id \in AnyId
      BY <1>1 DEF CallRec
    <2>2. ids \in [1 .. Len(s) -> AnyId]
      BY <1>1, <2>1
    <2> HIDE DEF ids
    <2> QED BY <1>1, <2>2, FunctionIsList
  <1>3. ToSet(ids) = Ids(s)
    BY <1>2 DEF ToSet, Ids
  <1>4. Cardinality(ToSet(ids)) = Len(ids)
    BY <1>2, <1>3 DEF Assembles, Distinct
  <1>5. IsInjective(ids)
    <2> HIDE DEF ids
    <2> QED BY <1>2, <1>4, ElementsOfList
  <1>6. \A j, k \in DOMAIN s : s[j].id = s[k].id => j = k
    BY <1>2, <1>5 DEF IsInjective
  <1>7. \A k \in DOMAIN s : s[k].id # ""
    BY DEF Assembles
  <1> HIDE DEF s, ids
  <1>8. OwnIds(ToSet(s))
    BY <1>6, <1>7 DEF OwnIds, ToSet
  <1> QED BY <1>8 DEF s

\* the finished answer
LEMMA FinishedAgrees ==
    ASSUME NEW b \in MessagesType, Shown(b), Assembles(b)
    PROVE  LET q == MessagesFinish(b)
           IN  /\ q \in MessagesType /\ q.finished /\ q.sane /\ q.view = q.blocks
               /\ OwnBlocks(q.blocks) /\ q.calls = b.calls /\ q.failed = b.failed
  <1> DEFINE d == FoldLeft(Conclude, b, b.calls)
             q == [d EXCEPT !.finished = TRUE]
             E == ToSet(b.calls)
  <1>1. b.calls \in Calls
    BY DEF MessagesType
  <1>2. Concluding(b, d, E)
    BY <1>1, AssembledIds, AllConcluded
  <1> HIDE DEF d
  <1>3. d \in MessagesType /\ Len(d.view) = Len(d.blocks) /\ d.sane /\ d.failed = b.failed
        /\ d.calls = b.calls
    BY <1>2 DEF Concluding, Even, Rest, Shown
  <1>4. \A n \in 1 .. Len(d.blocks) : d.view[n] = d.blocks[n]
    BY <1>2 DEF Concluding, E
  <1>5. d.view = d.blocks
    <2>1. d.view \in Seq(BlockRec) /\ d.blocks \in Seq(BlockRec)
      BY <1>3 DEF MessagesType
    <2> QED BY <1>3, <1>4, <2>1, SeqEqual
  <1>6. OwnBlocks(d.blocks)
    <2>1. DOMAIN d.blocks = 1 .. Len(d.blocks)
      BY <1>3, LenProperties DEF MessagesType
    <2>2. \A m, n \in 1 .. Len(d.blocks) : d.blocks[m].id = d.blocks[n].id /\ d.blocks[n].id # "" => m = n
      BY <1>2 DEF Concluding
    <2> QED BY <2>1, <2>2 DEF OwnBlocks
  <1>7. /\ q \in MessagesType /\ q.finished /\ q.sane = d.sane /\ q.view = d.view /\ q.blocks = d.blocks
        /\ q.calls = d.calls /\ q.failed = d.failed
    BY <1>3 DEF MessagesType
  <1>8. MessagesFinish(b) = q
    BY DEF MessagesFinish, d
  <1> HIDE DEF q
  <1> QED BY <1>3, <1>5, <1>6, <1>7, <1>8

-----------------------------------------------------------------------------
(* Responses: the calls of the builder, and the items of a streaming client *)

ResponsesType ==
    [text : Seq(STRING), calls : Calls, finish : Reasons, failed : BOOLEAN,
     textStarted : BOOLEAN, opened : Calls, items : Seq(BlockRec), sane : BOOLEAN]
\* the fields that items leave alone
Kept(b, q) ==
    /\ q.text = b.text /\ q.calls = b.calls /\ q.finish = b.finish /\ q.failed = b.failed
    /\ q.textStarted = b.textStarted /\ q.opened = b.opened

LEMMA AddItemEffect ==
    ASSUME NEW b \in ResponsesType, NEW out \in Int, NEW item \in BlockRec
    PROVE  LET q == AddItem(b, out, item)
           IN  /\ q \in ResponsesType /\ Kept(b, q)
               /\ out = Len(b.items) => q.sane = b.sane /\ q.items = Append(b.items, item)
  <1> DEFINE items == Append(b.items, item)
             q == [b EXCEPT !.items = items]
             r == [b EXCEPT !.sane = FALSE]
  <1>1. AddItem(b, out, item) = IF out = Len(b.items) THEN q ELSE r
    BY DEF AddItem
  <1>2. items \in Seq(BlockRec)
    BY AppendProperties DEF ResponsesType
  <1> HIDE DEF items
  <1>3. q \in ResponsesType /\ Kept(b, q) /\ q.sane = b.sane /\ q.items = items
    BY <1>2 DEF ResponsesType, Kept
  <1>4. r \in ResponsesType /\ Kept(b, r)
    BY DEF ResponsesType, Kept
  <1> HIDE DEF q, r
  <1> QED BY <1>1, <1>3, <1>4 DEF items

LEMMA ExtendEffect ==
    ASSUME NEW b \in ResponsesType, NEW out \in Int, NEW id, NEW data \in Seq(Words)
    PROVE  LET q == Extend(b, out, id, data)
           IN  /\ q \in ResponsesType /\ Kept(b, q)
               /\ out + 1 \in DOMAIN b.items /\ b.items[out + 1].id = id
                    => q.sane = b.sane /\ q.items = More(b.items, out + 1, data)
  <1> DEFINE n == out + 1
             fits == n \in DOMAIN b.items /\ b.items[n].id = id
             items == More(b.items, n, data)
             q == [b EXCEPT !.items = items]
             r == [b EXCEPT !.sane = FALSE]
  <1>1. Extend(b, out, id, data) = IF fits THEN q ELSE r
    BY DEF Extend
  <1>2. ASSUME fits PROVE items \in Seq(BlockRec)
    <2>1. b.items \in Seq(BlockRec) /\ n \in DOMAIN b.items
      BY <1>2 DEF ResponsesType
    <2> HIDE DEF n
    <2> QED BY <2>1, MoreTyped
  <1> HIDE DEF items
  <1>3. ASSUME fits PROVE q \in ResponsesType /\ Kept(b, q) /\ q.sane = b.sane /\ q.items = items
    <2>1. items \in Seq(BlockRec)
      BY <1>2, <1>3
    <2> QED BY <2>1 DEF ResponsesType, Kept
  <1>4. r \in ResponsesType /\ Kept(b, r)
    BY DEF ResponsesType, Kept
  <1> HIDE DEF q, r, fits
  <1>5. fits <=> out + 1 \in DOMAIN b.items /\ b.items[out + 1].id = id
    BY DEF fits
  <1> HIDE DEF n
  <1>6. items = More(b.items, out + 1, data)
    BY DEF items, n
  <1> QED BY <1>1, <1>3, <1>4, <1>5, <1>6

\* the call and its item, as a frame leaves them
Known(c, f) ==
    [c EXCEPT !.id = IF f.id = "" THEN @ ELSE f.id, !.name = @ \o f.name, !.args = @ \o f.args]
Opened(calls, f) == Put(calls, [Get(calls, f.index) EXCEPT !.id = f.id])

LEMMA KnownTyped ==
    ASSUME NEW c \in CallRec, NEW f, FrameFields(f)
    PROVE  /\ Known(c, f) \in CallRec /\ Known(c, f).index = c.index
           /\ Known(c, f).id = IF f.id = "" THEN c.id ELSE f.id
           /\ Known(c, f).name = c.name \o f.name /\ Known(c, f).args = c.args \o f.args
  <1> DEFINE id == IF f.id = "" THEN c.id ELSE f.id
             name == c.name \o f.name
             args == c.args \o f.args
             d == [c EXCEPT !.id = id, !.name = name, !.args = args]
  <1>1. id \in AnyId /\ name \in Seq(STRING) /\ args \in Seq(Pieces)
    BY ConcatProperties DEF CallRec, FrameFields
  <1>2. Known(c, f) = d
    BY DEF Known
  <1> HIDE DEF id, name, args
  <1>3. d \in CallRec /\ d.index = c.index /\ d.id = id /\ d.name = name /\ d.args = args
    BY <1>1 DEF CallRec
  <1> HIDE DEF d
  <1> QED BY <1>2, <1>3 DEF id, name, args

LEMMA WithId ==
    ASSUME NEW c \in CallRec, NEW id \in AnyId
    PROVE  LET d == [c EXCEPT !.id = id]
           IN  d \in CallRec /\ d.index = c.index /\ d.id = id
  BY DEF CallRec

LEMMA FrameItemTyped ==
    ASSUME NEW f, FrameFields(f)
    PROVE  /\ Block(f.id, f.name, <<>>) \in BlockRec
           /\ Block(f.id, f.name, <<>>).id = f.id /\ Block(f.id, f.name, <<>>).name = f.name
           /\ Block(f.id, f.name, <<>>).data = <<>>
           /\ f.args \in Seq(Words)
  <1> DEFINE none == <<>>
  <1>1. f.id \in AnyId /\ f.name \in Seq(STRING) /\ f.args \in Seq(Words) /\ none \in Seq(Words)
    BY PiecesAreWords, EmptySeq DEF FrameFields
  <1> HIDE DEF none
  <1>2. /\ Block(f.id, f.name, none) \in BlockRec
        /\ Block(f.id, f.name, none).id = f.id /\ Block(f.id, f.name, none).name = f.name
        /\ Block(f.id, f.name, none).data = none
    BY <1>1, BlockTyped
  <1> QED BY <1>1, <1>2 DEF none

LEMMA ResponsesCallTyped ==
    ASSUME NEW b \in ResponsesType, NEW f \in CallFrame
    PROVE  LET q == ResponsesCall(b, f)
           IN  /\ q \in ResponsesType /\ q.text = b.text /\ q.textStarted = b.textStarted
               /\ q.calls = Put(b.calls, Known(Get(b.calls, f.index), f)) /\ q.failed = b.failed
  <1> DEFINE known == Known(Get(b.calls, f.index), f)
             more == Put(b.calls, known)
             kept == [b EXCEPT !.calls = more]
             opened == Opened(b.opened, f)
             item == Block(f.id, f.name, <<>>)
             begun == [kept EXCEPT !.opened = opened]
             out == OutputIndex(b, f)
             open == IF Has(b.opened, f.index) THEN kept ELSE AddItem(begun, out, item)
             id == Get(open.opened, f.index).id
  <1>1. ResponsesCall(b, f) = IF f.args = <<>> THEN open ELSE Extend(open, out, id, f.args)
    BY DEF ResponsesCall, Known, Opened
  <1>2. FrameFields(f) /\ b.calls \in Calls /\ b.opened \in Calls /\ f.index \in Int /\ f.id \in AnyId
        /\ f.args \in Seq(Words) /\ item \in BlockRec
    BY FrameTyped, FrameItemTyped DEF ResponsesType, FrameFields
  <1>3. more \in Calls
    <2>1. known \in CallRec
      BY <1>2, GetIsCall, KnownTyped
    <2> HIDE DEF known
    <2> QED BY <1>2, <2>1, PutIsCalls
  <1>4. opened \in Calls
    <2> DEFINE c == Get(b.opened, f.index)
    <2>1. c \in CallRec
      BY <1>2, GetIsCall
    <2> HIDE DEF c
    <2> DEFINE d == [c EXCEPT !.id = f.id]
    <2>2. d \in CallRec
      BY <1>2, <2>1, WithId
    <2> HIDE DEF d
    <2>3. Put(b.opened, d) \in Calls
      BY <1>2, <2>2, PutIsCalls
    <2> QED BY <2>3 DEF Opened, c, d
  <1> HIDE DEF more, opened, item
  <1>5. /\ kept \in ResponsesType /\ begun \in ResponsesType
        /\ kept.text = b.text /\ kept.textStarted = b.textStarted /\ kept.calls = more
        /\ kept.failed = b.failed
        /\ begun.text = b.text /\ begun.textStarted = b.textStarted /\ begun.calls = more
        /\ begun.failed = b.failed
    <2> HIDE DEF known, item, out, open, id
    <2>1. kept \in ResponsesType /\ kept.opened = b.opened /\ kept.text = b.text
          /\ kept.textStarted = b.textStarted /\ kept.calls = more /\ kept.failed = b.failed
      BY <1>3 DEF ResponsesType
    <2> HIDE DEF kept
    <2>2. begun \in ResponsesType /\ begun.text = kept.text
          /\ begun.textStarted = kept.textStarted /\ begun.calls = kept.calls
          /\ begun.failed = kept.failed
      BY <1>4, <2>1 DEF ResponsesType
    <2> HIDE DEF begun
    <2> QED BY <2>1, <2>2
  <1> HIDE DEF kept, begun
  <1>6. out \in Int
    <2>1. (IF b.textStarted THEN 1 ELSE 0) \in Int
      OBVIOUS
    <2> QED BY <1>2, <2>1 DEF OutputIndex
  <1> HIDE DEF out
  <1>7. /\ open \in ResponsesType /\ open.text = b.text /\ open.textStarted = b.textStarted
        /\ open.calls = more /\ open.failed = b.failed
    <2> DEFINE added == AddItem(begun, out, item)
    <2>1. added \in ResponsesType /\ Kept(begun, added)
      BY <1>2, <1>5, <1>6, AddItemEffect
    <2> HIDE DEF added
    <2>2. open = IF Has(b.opened, f.index) THEN kept ELSE added
      BY DEF added
    <2> HIDE DEF open
    <2> QED BY <1>5, <2>1, <2>2 DEF Kept
  <1> HIDE DEF open, id
  <1> DEFINE longer == Extend(open, out, id, f.args)
  <1>8. longer \in ResponsesType /\ Kept(open, longer)
    BY <1>2, <1>6, <1>7, ExtendEffect
  <1> HIDE DEF longer
  <1>9. ResponsesCall(b, f) = IF f.args = <<>> THEN open ELSE longer
    BY <1>1 DEF longer
  <1>10. more = Put(b.calls, Known(Get(b.calls, f.index), f))
    BY DEF more
  <1> QED BY <1>7, <1>8, <1>9, <1>10 DEF Kept

ResponsesCallStep == [q \in ResponsesType \X CallFrame |-> ResponsesCall(q[1], q[2])]
LEMMA ResponsesCallIsStep == ResponsesCallStep \in Steps(ResponsesType, CallFrame)
  BY ResponsesCallTyped DEF ResponsesCallStep, Steps

LEMMA ResponsesCallIsFold ==
    ASSUME NEW base \in ResponsesType, NEW s \in Seq(CallFrame)
    PROVE  FoldLeft(ResponsesCall, base, s) = Fold(ResponsesCallStep, base, s)
  <1> DEFINE Maps(g) ==
        g = [t \in SUBSET DOMAIN s |->
                IF t = {} THEN base ELSE ResponsesCall(g[t \ {Max(t)}], s[Max(t)])]
  <1>1. PICK g \in [SUBSET DOMAIN s -> ResponsesType] : IsFold(g, ResponsesCallStep, base, s)
    BY ResponsesCallIsStep, TableExists
  <1>2. Maps(g)
    <2>1. ASSUME NEW t \in SUBSET DOMAIN s, t # {}
          PROVE  ResponsesCallStep[<<g[t \ {Max(t)}], s[Max(t)]>>]
                    = ResponsesCall(g[t \ {Max(t)}], s[Max(t)])
      <3>1. s[Max(t)] \in CallFrame /\ g[t \ {Max(t)}] \in ResponsesType
        BY <1>1, <2>1, ElementOfTable
      <3> QED BY <3>1 DEF ResponsesCallStep
    <2> QED BY <1>1, <2>1 DEF IsFold
  <1> DEFINE h == CHOOSE h : Maps(h)
  <1>3. Maps(h)
    BY <1>2
  <1>4. FoldLeft(ResponsesCall, base, s) = h[DOMAIN s]
    BY DEF FoldLeft, MapThenFoldSet
  <1> HIDE DEF h
  <1>5. Computes(h, ResponsesType, ResponsesCallStep, base, s)
    <2>1. ASSUME NEW t \in SUBSET DOMAIN s, t # {}, h[t \ {Max(t)}] \in ResponsesType
          PROVE  h[t] = ResponsesCallStep[<<h[t \ {Max(t)}], s[Max(t)]>>]
      <3>1. s[Max(t)] \in CallFrame
        BY <2>1, ElementOfTable
      <3>2. h[t] = ResponsesCall(h[t \ {Max(t)}], s[Max(t)])
        BY <1>3, <2>1
      <3> QED BY <2>1, <3>1, <3>2 DEF ResponsesCallStep
    <2>2. h[{}] = base
      BY <1>3
    <2> QED BY <2>1, <2>2 DEF Computes
  <1> QED BY <1>4, <1>5, ResponsesCallIsStep, FoldLink

\* calls that came in the order of their indices
Numbered(calls) == \A k \in DOMAIN calls : calls[k].index = k - 1

LEMMA NumberedCalls ==
    ASSUME NEW calls \in Calls, Numbered(calls)
    PROVE  /\ IndexSet(calls) = 0 .. Len(calls) - 1
           /\ Cardinality(IndexSet(calls)) = Len(calls)
           /\ \A i \in Int : Has(calls, i) <=> i \in 0 .. Len(calls) - 1
  <1> DEFINE N == Len(calls)
  <1>1. N \in Nat /\ DOMAIN calls = 1 .. N
    BY CallsAreSeq
  <1> HIDE DEF N
  <1>2. \A k \in 1 .. N : calls[k].index = k - 1
    BY <1>1 DEF Numbered
  <1>3. \A i \in 0 .. N - 1 : i + 1 \in 1 .. N /\ (i + 1) - 1 = i
    BY <1>1
  <1>4. \A k \in 1 .. N : k - 1 \in 0 .. N - 1
    BY <1>1
  <1>5. IndexSet(calls) = 0 .. N - 1
    <2>1. ASSUME NEW x \in IndexSet(calls) PROVE x \in 0 .. N - 1
      <3>1. PICK k \in 1 .. N : x = calls[k].index
        BY <1>1 DEF IndexSet
      <3> QED BY <1>2, <1>4, <3>1
    <2>2. ASSUME NEW x \in 0 .. N - 1 PROVE x \in IndexSet(calls)
      <3>1. x + 1 \in 1 .. N /\ calls[x + 1].index = x
        BY <1>2, <1>3
      <3> QED BY <1>1, <3>1 DEF IndexSet
    <2> QED BY <2>1, <2>2
  <1>6. Cardinality(0 .. N - 1) = N
    <2>1. 0 \in Int /\ N - 1 \in Int
      BY <1>1
    <2>2. Cardinality(0 .. N - 1) = IF 0 > N - 1 THEN 0 ELSE (N - 1) - 0 + 1
      BY <2>1, FS_Interval
    <2> QED BY <1>1, <2>2
  <1>7. \A i \in Int : Has(calls, i) <=> i \in IndexSet(calls)
    BY DEF Has, IndexSet
  <1> QED BY <1>5, <1>6, <1>7 DEF N

\* the next frame of a call
LEMMA NumberedOld ==
    ASSUME NEW calls \in Calls, Numbered(calls), NEW k \in 1 .. Len(calls),
           NEW c \in CallRec, c.index = k - 1
    PROVE  /\ Get(calls, c.index) = calls[k]
           /\ Put(calls, c) \in Calls /\ Len(Put(calls, c)) = Len(calls) /\ Put(calls, c)[k] = c
           /\ \A j \in 1 .. Len(calls) : j # k => Put(calls, c)[j] = calls[j]
           /\ Numbered(Put(calls, c))
  <1> DEFINE N == Len(calls)
             i == c.index
  <1>1. N \in Nat /\ DOMAIN calls = 1 .. N /\ k \in DOMAIN calls /\ k \in Int /\ i \in Int
    BY CallsAreSeq DEF CallRec
  <1>2. calls[k].index = i
    BY <1>1 DEF Numbered
  <1>3. Has(calls, i) /\ Get(calls, i) = calls[k]
    BY <1>1, <1>2, GetIsCall DEF Has
  <1>4. /\ Put(calls, c) \in Calls /\ Len(Put(calls, c)) = N /\ DOMAIN Put(calls, c) = 1 .. N
        /\ \A j \in 1 .. N : Put(calls, c)[j] = IF calls[j].index = i THEN c ELSE calls[j]
    BY <1>1, <1>3, PutIsCalls
  <1>5. \A j \in 1 .. N : calls[j].index = j - 1 /\ j \in Int
    BY <1>1 DEF Numbered
  <1> HIDE DEF N
  <1>6. i = k - 1
    OBVIOUS
  <1> HIDE DEF i
  <1>7. \A j \in 1 .. N : calls[j].index = i <=> j = k
    BY ONLY <1>1, <1>5, <1>6
  <1>8. \A j \in 1 .. N : Put(calls, c)[j].index = j - 1
    BY <1>4, <1>5, <1>6, <1>7 DEF i
  <1>9. Numbered(Put(calls, c))
    BY <1>4, <1>8 DEF Numbered
  <1> QED BY <1>1, <1>3, <1>4, <1>7, <1>9 DEF N, i

\* a new call
LEMMA NumberedNew ==
    ASSUME NEW calls \in Calls, Numbered(calls), NEW c \in CallRec, c.index = Len(calls)
    PROVE  /\ ~Has(calls, c.index) /\ Get(calls, c.index) = New(c.index)
           /\ Put(calls, c) \in Calls /\ Len(Put(calls, c)) = Len(calls) + 1
           /\ Put(calls, c)[Len(calls) + 1] = c
           /\ \A j \in 1 .. Len(calls) : Put(calls, c)[j] = calls[j]
           /\ Numbered(Put(calls, c))
  <1> DEFINE N == Len(calls)
             w == Put(calls, c)
  <1>1. N \in Nat /\ DOMAIN calls = 1 .. N /\ c.index = N /\ N \in Int
    BY CallsAreSeq
  <1>2. ~Has(calls, c.index)
    <2>1. N \notin 0 .. N - 1
      BY <1>1
    <2> QED BY <1>1, <2>1, NumberedCalls
  <1>3. Get(calls, c.index) = New(c.index)
    BY <1>1, <1>2, GetIsCall
  <1>4. /\ w \in Calls /\ DOMAIN w = 1 .. N + 1 /\ Len(w) = N + 1 /\ w[N + 1] = c
        /\ \A k \in 1 .. N : w[k] = calls[k]
    BY <1>1, <1>2, PutIsCalls
  <1>5. \A k \in 1 .. N : calls[k].index = k - 1
    BY <1>1 DEF Numbered
  <1> HIDE DEF N, w
  <1>6. \A k \in 1 .. N + 1 : k \in 1 .. N \/ k = N + 1
    BY <1>1
  <1>7. c.index = (N + 1) - 1
    BY <1>1
  <1>8. \A k \in 1 .. N + 1 : w[k].index = k - 1
    BY <1>4, <1>5, <1>6, <1>7
  <1>9. Numbered(w)
    BY <1>4, <1>8 DEF Numbered
  <1> QED BY <1>2, <1>3, <1>4, <1>9 DEF N, w

\* What a streaming client has is what the builder has, while the text comes first
\* and the calls in order.
Shift(b) == IF b.textStarted THEN 1 ELSE 0
ItemOf(c) == Block(c.id, c.name, c.args)
Ordered(b) ==
    /\ b.sane /\ (b.textStarted <=> b.text # <<>>)
    /\ Numbered(b.calls) /\ Numbered(b.opened) /\ Len(b.opened) = Len(b.calls)
    /\ \A k \in 1 .. Len(b.calls) : b.opened[k].id = b.calls[k].id
    /\ Len(b.items) = Shift(b) + Len(b.calls)
    /\ b.textStarted => b.items[1] = Block("", <<>>, b.text)
    /\ \A k \in 1 .. Len(b.calls) : b.items[Shift(b) + k] = ItemOf(b.calls[k])

LEMMA OrderedTyped ==
    ASSUME NEW b \in ResponsesType, Ordered(b)
    PROVE  /\ b.calls \in Calls /\ b.opened \in Calls /\ b.items \in Seq(BlockRec)
           /\ Len(b.calls) \in Nat /\ Len(b.items) \in Nat /\ Shift(b) \in {0, 1}
           /\ DOMAIN b.items = 1 .. Shift(b) + Len(b.calls)
           /\ \A k \in 1 .. Len(b.calls) : b.calls[k] \in CallRec
  <1>1. b.calls \in Calls /\ b.opened \in Calls /\ b.items \in Seq(BlockRec)
    BY DEF ResponsesType
  <1> QED BY <1>1, CallsAreSeq, LenProperties DEF Ordered, Shift

\* a frame of a call that has begun
LEMMA OrderedGrows ==
    ASSUME NEW b \in ResponsesType, Ordered(b), NEW q \in ResponsesType,
           q.sane = b.sane, q.text = b.text, q.textStarted = b.textStarted, q.opened = b.opened,
           NEW k \in 1 .. Len(b.calls), NEW c \in CallRec, c.index = k - 1,
           c.id = b.calls[k].id, q.calls = Put(b.calls, c),
           Len(q.items) = Len(b.items), q.items[Shift(b) + k] = ItemOf(c),
           \A m \in DOMAIN b.items : m # Shift(b) + k => q.items[m] = b.items[m]
    PROVE  Ordered(q)
  <1> DEFINE N == Len(b.calls)
             t == Shift(b)
  <1>1. /\ b.calls \in Calls /\ b.opened \in Calls /\ N \in Nat /\ t \in {0, 1} /\ Shift(q) = t
        /\ DOMAIN b.items = 1 .. t + N
    BY OrderedTyped DEF Shift
  <1>2. /\ Len(q.calls) = N /\ q.calls[k] = c /\ Numbered(q.calls)
        /\ \A j \in 1 .. N : j # k => q.calls[j] = b.calls[j]
    <2> DEFINE w == Put(b.calls, c)
    <2>1. Numbered(b.calls) /\ b.calls \in Calls
      BY <1>1 DEF Ordered
    <2>2. /\ Len(w) = N /\ w[k] = c /\ Numbered(w)
          /\ \A j \in 1 .. N : j # k => w[j] = b.calls[j]
      BY <2>1, NumberedOld
    <2>3. q.calls = w
      OBVIOUS
    <2> HIDE DEF w
    <2> QED BY <2>2, <2>3
  <1> HIDE DEF N, t
  <1>3. /\ \A j \in 1 .. N : t + j \in 1 .. t + N /\ (j # k => t + j # t + k)
        /\ k \in 1 .. N /\ k \in Int
    <2>1. k \in 1 .. N
      BY DEF N
    <2>2. \A j \in 1 .. N : t + j \in 1 .. t + N /\ (j # k => t + j # t + k)
      BY ONLY <1>1, <2>1
    <2> QED BY <2>1, <2>2
  <1>4. \A j \in 1 .. N : q.items[t + j] = ItemOf(q.calls[j])
    <2> SUFFICES ASSUME NEW j \in 1 .. N, j # k PROVE q.items[t + j] = ItemOf(q.calls[j])
      BY <1>2 DEF t
    <2>1. q.items[t + j] = b.items[t + j]
      BY <1>1, <1>3 DEF t
    <2>2. b.items[t + j] = ItemOf(b.calls[j])
      BY DEF Ordered, N, t
    <2> QED BY <1>2, <2>1, <2>2
  <1>5. \A j \in 1 .. N : q.opened[j].id = q.calls[j].id
    <2>1. \A j \in 1 .. N : b.opened[j].id = b.calls[j].id
      BY DEF Ordered, N
    <2> QED BY <1>2, <2>1
  <1>6. ASSUME q.textStarted PROVE q.items[1] = Block("", <<>>, q.text)
    <2>1. t = 1
      BY <1>6 DEF t, Shift
    <2>2. 1 \in 1 .. t + N /\ 1 # t + k
      <3>1. k \in 1 .. N /\ N \in Nat
        BY <1>1, <1>3
      <3> QED BY ONLY <2>1, <3>1
    <2>3. q.items[1] = b.items[1]
      BY <1>1, <2>2 DEF t
    <2> QED BY <1>6, <2>3 DEF Ordered
  <1>7. Len(q.items) = t + N /\ Len(q.opened) = N /\ Numbered(q.opened) /\ q.sane
        /\ (q.textStarted <=> q.text # <<>>)
    BY DEF Ordered, N, t
  <1> QED BY <1>1, <1>2, <1>4, <1>5, <1>6, <1>7 DEF Ordered

\* the first frame of one
LEMMA OrderedBegins ==
    ASSUME NEW b \in ResponsesType, Ordered(b), NEW q \in ResponsesType,
           q.sane = b.sane, q.text = b.text, q.textStarted = b.textStarted,
           NEW c \in CallRec, NEW o \in CallRec, c.index = Len(b.calls), o.index = Len(b.calls),
           o.id = c.id, q.calls = Put(b.calls, c), q.opened = Put(b.opened, o),
           NEW e \in BlockRec, e = ItemOf(c), q.items = Append(b.items, e)
    PROVE  Ordered(q)
  <1> DEFINE N == Len(b.calls)
             t == Shift(b)
  <1>1. /\ b.calls \in Calls /\ b.opened \in Calls /\ N \in Nat /\ t \in {0, 1} /\ Shift(q) = t
        /\ b.items \in Seq(BlockRec) /\ Len(b.items) = t + N /\ Len(b.opened) = N
    BY OrderedTyped DEF Shift, Ordered
  <1>2. /\ Len(q.calls) = N + 1 /\ q.calls[N + 1] = c /\ Numbered(q.calls)
        /\ \A j \in 1 .. N : q.calls[j] = b.calls[j]
    <2> DEFINE w == Put(b.calls, c)
    <2>1. Numbered(b.calls) /\ b.calls \in Calls /\ Len(b.calls) = N /\ c.index = Len(b.calls)
      BY <1>1 DEF Ordered
    <2>2. /\ Len(w) = Len(b.calls) + 1 /\ w[Len(b.calls) + 1] = c /\ Numbered(w)
          /\ \A j \in 1 .. Len(b.calls) : w[j] = b.calls[j]
      BY <2>1, NumberedNew
    <2>3. q.calls = w
      OBVIOUS
    <2> HIDE DEF w, N
    <2> QED BY <2>1, <2>2, <2>3
  <1>3. /\ Len(q.opened) = N + 1 /\ q.opened[N + 1] = o /\ Numbered(q.opened)
        /\ \A j \in 1 .. N : q.opened[j] = b.opened[j]
    <2> DEFINE w == Put(b.opened, o)
    <2>1. Numbered(b.opened) /\ b.opened \in Calls /\ Len(b.opened) = N /\ o.index = Len(b.opened)
      BY <1>1 DEF Ordered
    <2>2. /\ Len(w) = Len(b.opened) + 1 /\ w[Len(b.opened) + 1] = o /\ Numbered(w)
          /\ \A j \in 1 .. Len(b.opened) : w[j] = b.opened[j]
      BY <2>1, NumberedNew
    <2>3. q.opened = w
      OBVIOUS
    <2> HIDE DEF w, N
    <2> QED BY <2>1, <2>2, <2>3
  <1>4. /\ Len(q.items) = t + N + 1 /\ q.items[t + N + 1] = e
        /\ \A j \in 1 .. t + N : q.items[j] = b.items[j]
    BY <1>1, AppendedTo
  <1> HIDE DEF N, t
  <1>5. /\ \A j \in 1 .. N + 1 : j \in 1 .. N \/ j = N + 1
        /\ \A j \in 1 .. N : t + j \in 1 .. t + N
        /\ t + N + 1 = t + (N + 1)
    BY ONLY <1>1
  <1>6. ASSUME NEW j \in 1 .. N PROVE q.items[t + j] = ItemOf(q.calls[j]) /\ q.opened[j].id = q.calls[j].id
    <2>1. b.items[t + j] = ItemOf(b.calls[j]) /\ b.opened[j].id = b.calls[j].id
      BY DEF Ordered, N, t
    <2> QED BY <1>2, <1>3, <1>4, <1>5, <2>1
  <1>7. q.items[t + (N + 1)] = ItemOf(q.calls[N + 1]) /\ q.opened[N + 1].id = q.calls[N + 1].id
    BY <1>2, <1>3, <1>4, <1>5
  <1>8. ASSUME q.textStarted PROVE q.items[1] = Block("", <<>>, q.text)
    <2>1. t = 1
      BY <1>8 DEF t, Shift
    <2>2. 1 \in 1 .. t + N
      BY ONLY <1>1, <2>1
    <2> QED BY <1>4, <1>8, <2>2 DEF Ordered
  <1>9. q.sane /\ (q.textStarted <=> q.text # <<>>)
    BY DEF Ordered
  <1>10. \A j \in 1 .. N + 1 : q.items[t + j] = ItemOf(q.calls[j]) /\ q.opened[j].id = q.calls[j].id
    BY <1>5, <1>6, <1>7
  <1>11. Len(q.items) = t + (N + 1)
    BY <1>4, <1>5
  <1> QED BY <1>1, <1>2, <1>3, <1>8, <1>9, <1>10, <1>11 DEF Ordered

\* a frame that comes in its turn
InTurn(b, f) ==
    /\ f.index \in IndexSet(b.calls) \cup {Cardinality(IndexSet(b.calls))}
    /\ f.index \in IndexSet(b.calls) => f.id = "" /\ f.name = <<>>

\* the builder while it handles the frame: `open` before its arguments
FrameOpens(b, f, open) ==
    LET begun == [[b EXCEPT !.calls = Put(@, Known(Get(b.calls, f.index), f))]
                     EXCEPT !.opened = Opened(b.opened, f)]
    IN  open = IF Has(b.opened, f.index) THEN [b EXCEPT !.calls = Put(@, Known(Get(b.calls, f.index), f))]
               ELSE AddItem(begun, OutputIndex(b, f), Block(f.id, f.name, <<>>))

LEMMA FrameInTwo ==
    ASSUME NEW b, NEW f
    PROVE  \E open : /\ FrameOpens(b, f, open)
                     /\ ResponsesCall(b, f) =
                            IF f.args = <<>> THEN open
                            ELSE Extend(open, OutputIndex(b, f), Get(open.opened, f.index).id, f.args)
  <1> DEFINE open == IF Has(b.opened, f.index) THEN [b EXCEPT !.calls = Put(@, Known(Get(b.calls, f.index), f))]
                     ELSE AddItem([[b EXCEPT !.calls = Put(@, Known(Get(b.calls, f.index), f))]
                                     EXCEPT !.opened = Opened(b.opened, f)],
                                  OutputIndex(b, f), Block(f.id, f.name, <<>>))
  <1>1. ResponsesCall(b, f) =
            IF f.args = <<>> THEN open
            ELSE Extend(open, OutputIndex(b, f), Get(open.opened, f.index).id, f.args)
    BY DEF ResponsesCall, Known, Opened
  <1>2. FrameOpens(b, f, open)
    BY DEF FrameOpens
  <1> HIDE DEF open
  <1> QED BY <1>1, <1>2

LEMMA OldFrameOrdered ==
    ASSUME NEW b \in ResponsesType, Ordered(b), NEW f \in CallFrame, InTurn(b, f),
           f.index \in IndexSet(b.calls)
    PROVE  Ordered(ResponsesCall(b, f))
  <1> DEFINE N == Len(b.calls)
             t == Shift(b)
             k == f.index + 1
             old == b.calls[k]
             c == Known(old, f)
             more == Put(b.calls, c)
             q == ResponsesCall(b, f)
             out == OutputIndex(b, f)
  <1>1. /\ b.calls \in Calls /\ b.opened \in Calls /\ N \in Nat /\ t \in {0, 1}
        /\ DOMAIN b.items = 1 .. t + N /\ Len(b.items) = t + N /\ b.items \in Seq(BlockRec)
        /\ \A j \in 1 .. N : b.calls[j] \in CallRec
    BY OrderedTyped DEF Ordered
  <1>2. FrameFields(f) /\ f.index \in Int /\ f.args \in Seq(Pieces) /\ f.args \in Seq(Words)
        /\ f.id = "" /\ f.name = <<>>
    BY FrameTyped, PiecesAreWords DEF FrameFields, InTurn
  <1>3. Numbered(b.calls) /\ Numbered(b.opened) /\ Len(b.opened) = N
    BY DEF Ordered
  <1>4. f.index \in 0 .. N - 1
    BY <1>1, <1>3, NumberedCalls
  <1>5. k \in 1 .. N /\ f.index = k - 1 /\ t + k \in 1 .. t + N /\ k \in Int
    <2> DEFINE i == f.index
    <2>1. i \in 0 .. N - 1 /\ N \in Nat /\ t \in {0, 1} /\ k = i + 1
      BY <1>1, <1>4
    <2> HIDE DEF i, k, N, t
    <2>2. k \in 1 .. N /\ i = k - 1 /\ t + k \in 1 .. t + N /\ k \in Int
      BY ONLY <2>1
    <2> QED BY <2>2 DEF i
  <1>6. q \in ResponsesType /\ q.text = b.text /\ q.textStarted = b.textStarted
    BY ResponsesCallTyped
  <1>7. Get(b.calls, f.index) = old /\ old \in CallRec /\ old.index = f.index
    <2>1. old \in CallRec /\ k \in DOMAIN b.calls
      BY <1>1, <1>5, CallsAreSeq
    <2>2. old.index = f.index
      BY <1>3, <1>5, <2>1 DEF Numbered
    <2> QED BY <1>1, <1>2, <2>1, <2>2, GetIsCall
  <1>8. /\ Get(b.opened, f.index).id = old.id /\ Has(b.opened, f.index)
    <2>1. b.opened[k].index = f.index /\ k \in DOMAIN b.opened /\ b.opened[k].id = old.id
      <3>1. k \in DOMAIN b.opened
        BY <1>1, <1>3, <1>5, CallsAreSeq
      <3> QED BY <1>3, <1>5, <3>1 DEF Numbered, Ordered
    <2>2. b.opened[k] = Get(b.opened, f.index)
      BY <1>1, <1>2, <2>1, GetIsCall
    <2> QED BY <2>1, <2>2 DEF Has
  <1> HIDE DEF N, t, k, old, q, out
  <1>9. /\ c \in CallRec /\ c.index = k - 1 /\ c.id = old.id
        /\ c.name = old.name /\ c.args = old.args \o f.args
    <2>1. /\ c \in CallRec /\ c.index = old.index
          /\ c.id = IF f.id = "" THEN old.id ELSE f.id
          /\ c.name = old.name \o f.name /\ c.args = old.args \o f.args
      BY <1>2, <1>7, KnownTyped
    <2>2. old.name \o f.name = old.name
      BY <1>2, <1>7, NothingMore DEF CallRec
    <2> HIDE DEF c
    <2> QED BY <1>2, <1>5, <1>7, <2>1, <2>2
  <1> HIDE DEF c
  <1>10. PICK open : /\ FrameOpens(b, f, open)
                     /\ q = IF f.args = <<>> THEN open
                            ELSE Extend(open, out, Get(open.opened, f.index).id, f.args)
    BY FrameInTwo DEF q, out
  <1>11. more \in Calls
    BY <1>1, <1>9, PutIsCalls
  <1>12. open = [b EXCEPT !.calls = more]
    BY <1>7, <1>8, <1>10 DEF FrameOpens, c
  <1> HIDE DEF more
  <1>13. /\ open \in ResponsesType /\ open.items = b.items /\ open.opened = b.opened
         /\ open.calls = more /\ open.sane = b.sane
    BY <1>11, <1>12 DEF ResponsesType
  <1>14. out \in Int /\ out + 1 = t + k
    <2> DEFINE i == f.index
    <2>1. out = t + i /\ k = i + 1 /\ i \in Int /\ t \in {0, 1}
      BY <1>1, <1>2 DEF out, OutputIndex, t, Shift, k
    <2> HIDE DEF i
    <2> QED BY ONLY <2>1
  <1>15. b.items[t + k] = ItemOf(old)
    BY <1>5 DEF Ordered, N, t, old
  <1>16. /\ q.sane = b.sane /\ q.opened = b.opened /\ q.calls = more
         /\ Len(q.items) = Len(b.items) /\ q.items[t + k] = ItemOf(c)
         /\ \A m \in DOMAIN b.items : m # t + k => q.items[m] = b.items[m]
    <2>1. CASE f.args = <<>>
      <3>1. c.args = old.args
        <4>1. old.args \o f.args = old.args
          BY <1>7, <2>1, NothingMore DEF CallRec
        <4> QED BY <1>9, <4>1
      <3>2. ItemOf(c) = ItemOf(old)
        BY <1>9, <3>1 DEF ItemOf
      <3>3. q = open
        BY <1>10, <2>1
      <3> QED BY <1>13, <1>15, <3>2, <3>3
    <2>2. CASE f.args # <<>>
      <3> DEFINE data == f.args
      <3>1. q = Extend(open, out, old.id, data)
        BY <1>8, <1>10, <1>13, <2>2
      <3>2. out + 1 \in DOMAIN open.items /\ open.items[out + 1].id = old.id
        <4>1. ItemOf(old).id = old.id
          BY DEF ItemOf, Block
        <4> QED BY <1>1, <1>5, <1>13, <1>14, <1>15, <4>1
      <3>3. data \in Seq(Words)
        BY <1>2
      <3> HIDE DEF data
      <3>4. /\ Kept(open, q) /\ q.sane = open.sane /\ q.items = More(open.items, out + 1, data)
        BY <1>13, <1>14, <3>1, <3>2, <3>3, ExtendEffect
      <3>5. q.items = More(b.items, t + k, data)
        BY <1>13, <1>14, <3>4
      <3>6. /\ Len(q.items) = Len(b.items)
            /\ q.items[t + k] = Block(b.items[t + k].id, b.items[t + k].name, b.items[t + k].data \o data)
            /\ \A m \in DOMAIN b.items : m # t + k => q.items[m] = b.items[m]
        <4> DEFINE n == t + k
                   items == b.items
        <4>1. n \in DOMAIN items /\ items \in Seq(BlockRec)
          BY <1>1, <1>5
        <4> HIDE DEF n, items
        <4>2. /\ Len(More(items, n, data)) = Len(items)
              /\ More(items, n, data)[n] = Block(items[n].id, items[n].name, items[n].data \o data)
              /\ \A m \in DOMAIN items : m # n => More(items, n, data)[m] = items[m]
          BY <3>3, <4>1, MoreTyped
        <4> QED BY <3>5, <4>2 DEF n, items
      <3>7. Block(b.items[t + k].id, b.items[t + k].name, b.items[t + k].data \o data) = ItemOf(c)
        <4>1. ItemOf(old).id = old.id /\ ItemOf(old).name = old.name /\ ItemOf(old).data = old.args
          BY DEF ItemOf, Block
        <4>2. c.args = old.args \o data
          BY <1>9 DEF data
        <4> QED BY <1>9, <1>15, <4>1, <4>2 DEF ItemOf
      <3> QED BY <1>13, <3>4, <3>6, <3>7 DEF Kept
    <2> QED BY <2>1, <2>2
  <1>17. q.calls = Put(b.calls, c) /\ c.id = b.calls[k].id /\ k \in 1 .. Len(b.calls)
    BY <1>5, <1>9, <1>16 DEF more, old, N
  <1>18. Ordered(q)
    BY <1>6, <1>9, <1>16, <1>17, OrderedGrows DEF t
  <1> QED BY <1>18 DEF q

LEMMA NewFrameOrdered ==
    ASSUME NEW b \in ResponsesType, Ordered(b), NEW f \in CallFrame, f.index = Len(b.calls)
    PROVE  Ordered(ResponsesCall(b, f))
  <1> DEFINE N == Len(b.calls)
             t == Shift(b)
             i == f.index
             none == <<>>
             c == Known(New(i), f)
             o == [New(i) EXCEPT !.id = f.id]
             item == Block(f.id, f.name, none)
             e == ItemOf(c)
             q == ResponsesCall(b, f)
             out == OutputIndex(b, f)
             more == Put(b.calls, c)
             opened == Put(b.opened, o)
             mid == [b EXCEPT !.calls = more]
             begun == [mid EXCEPT !.opened = opened]
             open == AddItem(begun, out, item)
             id == Get(open.opened, i).id
             data == f.args
  <1>1. /\ b.calls \in Calls /\ b.opened \in Calls /\ N \in Nat /\ t \in {0, 1}
        /\ Len(b.items) = t + N /\ b.items \in Seq(BlockRec)
    BY OrderedTyped DEF Ordered
  <1>2. FrameFields(f) /\ i \in Int /\ data \in Seq(Pieces) /\ data \in Seq(Words)
        /\ f.id \in AnyId /\ f.name \in Seq(STRING)
    BY FrameTyped, PiecesAreWords DEF FrameFields
  <1>3. Numbered(b.calls) /\ Numbered(b.opened) /\ Len(b.opened) = N /\ i = N
    BY DEF Ordered
  <1>4. q \in ResponsesType /\ q.text = b.text /\ q.textStarted = b.textStarted
    BY ResponsesCallTyped
  <1>5. /\ item \in BlockRec /\ item.id = f.id /\ item.name = f.name /\ item.data = none
    BY <1>2, FrameItemTyped
  <1>6. /\ New(i) \in CallRec /\ New(i).index = i /\ New(i).id = "" /\ New(i).name = none
        /\ New(i).args = none
    BY <1>2, NewCall
  <1> HIDE DEF none
  <1>7. /\ c \in CallRec /\ c.index = i /\ c.id = f.id /\ c.name = f.name /\ c.args = data
    <2>1. /\ c \in CallRec /\ c.index = i /\ c.id = IF f.id = "" THEN New(i).id ELSE f.id
          /\ c.name = none \o f.name /\ c.args = none \o data
      BY <1>2, <1>6, KnownTyped
    <2>2. none \o f.name = f.name /\ none \o data = data
      BY <1>2, NothingMore DEF none
    <2> HIDE DEF c, data
    <2> QED BY <1>6, <2>1, <2>2
  <1>8. o \in CallRec /\ o.index = i /\ o.id = f.id
    <2> DEFINE w == New(i)
    <2>1. w \in CallRec /\ w.index = i
      BY <1>6
    <2> HIDE DEF w
    <2>2. LET d == [w EXCEPT !.id = f.id]
          IN  d \in CallRec /\ d.index = w.index /\ d.id = f.id
      BY <1>2, <2>1, WithId
    <2> QED BY <2>1, <2>2 DEF w
  <1>9. e \in BlockRec /\ e = Block(f.id, f.name, data)
    <2>1. e = Block(f.id, f.name, data)
      BY <1>7 DEF ItemOf
    <2>2. Block(f.id, f.name, data) \in BlockRec
      <3> HIDE DEF data
      <3> QED BY <1>2, BlockTyped
    <2> QED BY <2>1, <2>2
  <1>10. Get(b.calls, i) = New(i) /\ ~Has(b.opened, i) /\ Get(b.opened, i) = New(i)
    <2> HIDE DEF i, c, o, N
    <2>1. c.index = Len(b.calls) /\ o.index = Len(b.opened)
      BY <1>3, <1>7, <1>8 DEF N
    <2>2. Get(b.calls, c.index) = New(c.index)
      BY <1>1, <1>3, <1>7, <2>1, NumberedNew
    <2>3. ~Has(b.opened, o.index) /\ Get(b.opened, o.index) = New(o.index)
      BY <1>1, <1>3, <1>8, <2>1, NumberedNew
    <2> QED BY <1>7, <1>8, <2>2, <2>3
  <1>11. q = IF data = <<>> THEN open ELSE Extend(open, out, id, data)
    <2>1. PICK x : /\ FrameOpens(b, f, x)
                   /\ q = IF f.args = <<>> THEN x
                          ELSE Extend(x, out, Get(x.opened, f.index).id, f.args)
      BY FrameInTwo
    <2>2. x = open
      BY <1>10, <2>1 DEF FrameOpens, Opened, none
    <2> HIDE DEF open, q, out
    <2> QED BY <2>1, <2>2
  <1>12. more \in Calls /\ opened \in Calls
    <2> HIDE DEF c, o
    <2> QED BY <1>1, <1>7, <1>8, PutIsCalls
  <1>13. Get(opened, i) = o
    <2> HIDE DEF o
    <2>1. /\ ~Has(b.opened, o.index)
      BY <1>8, <1>10
    <2>2. /\ opened[Len(b.opened) + 1] = o /\ DOMAIN opened = 1 .. Len(b.opened) + 1
      BY <1>1, <1>8, <2>1, PutIsCalls
    <2> HIDE DEF opened, N
    <2>3. Len(b.opened) + 1 \in 1 .. Len(b.opened) + 1
      BY <1>1, <1>3
    <2>4. Len(b.opened) + 1 \in DOMAIN opened /\ opened[Len(b.opened) + 1].index = i
      BY <1>8, <2>2, <2>3
    <2> QED BY <1>2, <1>12, <2>2, <2>4, GetIsCall
  <1> HIDE DEF more, opened, item, c, o, e, q
  <1>14. /\ begun \in ResponsesType /\ begun.calls = more /\ begun.opened = opened
         /\ begun.items = b.items /\ begun.sane = b.sane
    <2> HIDE DEF out, open, id, i, N, t
    <2>1. mid \in ResponsesType /\ mid.items = b.items /\ mid.sane = b.sane /\ mid.calls = more
      BY <1>12 DEF ResponsesType
    <2> HIDE DEF mid
    <2>2. begun \in ResponsesType /\ begun.calls = mid.calls /\ begun.items = mid.items
          /\ begun.sane = mid.sane /\ begun.opened = opened
      BY <1>12, <2>1 DEF ResponsesType
    <2> QED BY <2>1, <2>2
  <1>15. out \in Int /\ out = Len(b.items)
    <2>1. out = t + i
      BY DEF OutputIndex, Shift
    <2> HIDE DEF out, t, i, N
    <2> QED BY <1>1, <1>2, <1>3, <2>1
  <1> HIDE DEF begun, out, mid
  <1>16. /\ open \in ResponsesType /\ open.sane = b.sane /\ open.items = Append(b.items, item)
         /\ open.calls = more /\ open.opened = opened
    <2>1. open \in ResponsesType /\ Kept(begun, open) /\ open.sane = begun.sane
          /\ open.items = Append(begun.items, item)
      BY <1>5, <1>14, <1>15, AddItemEffect
    <2> HIDE DEF open
    <2> QED BY <1>14, <2>1 DEF Kept
  <1>17. id = f.id
    BY <1>8, <1>13, <1>16
  <1> HIDE DEF open, id
  <1>18. /\ q.sane = b.sane /\ q.calls = more /\ q.opened = opened /\ q.items = Append(b.items, e)
    <2>1. CASE data = <<>>
      <3>1. q = open
        BY <1>11, <2>1
      <3>2. e = item
        BY <1>9, <2>1 DEF item, none
      <3> QED BY <1>16, <3>1, <3>2
    <2>2. CASE data # <<>>
      <3> HIDE DEF data
      <3> DEFINE items == b.items
      <3>1. q = Extend(open, out, id, data)
        BY <1>11, <2>2
      <3>2. items \in Seq(BlockRec) /\ out = Len(items)
        BY <1>1, <1>15
      <3> HIDE DEF items
      <3>3. /\ Len(items) + 1 \in DOMAIN Append(items, item)
            /\ More(Append(items, item), Len(items) + 1, data)
                  = Append(items, Block(item.id, item.name, item.data \o data))
        BY <1>2, <1>5, <3>2, MoreOfAppend
      <3>4. Append(items, item)[Len(items) + 1] = item
        BY <1>5, <3>2, AppendedTo
      <3>5. open.items = Append(items, item)
        BY <1>16 DEF items
      <3>6. out + 1 \in DOMAIN open.items /\ open.items[out + 1].id = id
        BY <1>5, <1>17, <3>2, <3>3, <3>4, <3>5
      <3>7. Kept(open, q) /\ q.sane = open.sane /\ q.items = More(open.items, out + 1, data)
        <4>1. data \in Seq(Words) /\ out \in Int /\ open \in ResponsesType
          BY <1>2, <1>15, <1>16
        <4>2. LET r == Extend(open, out, id, data)
              IN  Kept(open, r) /\ r.sane = open.sane /\ r.items = More(open.items, out + 1, data)
          BY ONLY <3>6, <4>1, ExtendEffect
        <4> QED BY <3>1, <4>2
      <3>8. item.data \o data = data
        BY <1>2, <1>5, NothingMore DEF none
      <3>9. q.items = Append(b.items, e)
        BY <1>5, <1>9, <3>2, <3>3, <3>5, <3>7, <3>8 DEF items
      <3> QED BY <1>16, <3>7, <3>9 DEF Kept
    <2> QED BY <2>1, <2>2
  <1>19. /\ c.index = Len(b.calls) /\ o.index = Len(b.calls) /\ o.id = c.id
         /\ q.calls = Put(b.calls, c) /\ q.opened = Put(b.opened, o)
    BY <1>3, <1>7, <1>8, <1>18 DEF more, opened
  <1> HIDE DEF N, t, i, data
  <1>20. q.sane = b.sane /\ q.items = Append(b.items, e) /\ e = ItemOf(c)
    BY <1>18 DEF e
  <1>21. Ordered(q)
    BY <1>4, <1>7, <1>8, <1>9, <1>19, <1>20, OrderedBegins
  <1> QED BY <1>21 DEF q

LEMMA FrameOrdered ==
    ASSUME NEW b \in ResponsesType, Ordered(b), NEW f \in CallFrame, InTurn(b, f)
    PROVE  Ordered(ResponsesCall(b, f))
  <1>1. Cardinality(IndexSet(b.calls)) = Len(b.calls)
    BY OrderedTyped, NumberedCalls DEF Ordered
  <1>2. f.index \in IndexSet(b.calls) \/ f.index = Len(b.calls)
    BY <1>1 DEF InTurn
  <1> QED BY <1>2, OldFrameOrdered, NewFrameOrdered

LEMMA ResponsesTextTyped ==
    ASSUME NEW b \in ResponsesType, NEW c \in UpstreamChunk
    PROVE  LET q == ResponsesText(b, c)
           IN  /\ q \in ResponsesType /\ q.calls = b.calls
               /\ Ordered(b) /\ (c.text # <<>> => b.calls = <<>> \/ b.text # <<>>) => Ordered(q)
  <1> DEFINE none == <<>>
             no == ""
             e == Block(no, none, none)
             data == c.text
             text == b.text \o data
             added == AddItem(b, 0, e)
             begun == IF b.textStarted THEN b ELSE [added EXCEPT !.textStarted = TRUE]
             kept == [begun EXCEPT !.text = @ \o data]
             q == Extend(kept, 0, no, data)
  <1>1. ResponsesText(b, c) = IF data = <<>> THEN b ELSE q
    BY DEF ResponsesText
  <1>2. data \in Seq(STRING) /\ data \in Seq(Words) /\ none \in Seq(STRING) /\ none \in Seq(Words)
        /\ no \in AnyId
    BY ChunkFields, TextIsWords, EmptySeq DEF AnyId
  <1>3. b.items \in Seq(BlockRec) /\ b.text \in Seq(STRING) /\ b.calls \in Calls
    BY DEF ResponsesType
  <1>4. text \in Seq(STRING)
    BY <1>2, <1>3, ConcatProperties
  <1> HIDE DEF none, no, data, text
  <1>5. e \in BlockRec /\ e.id = no /\ e.name = none /\ e.data = none
    BY <1>2, BlockTyped
  <1> HIDE DEF e
  <1>6. /\ added \in ResponsesType /\ Kept(b, added)
        /\ 0 = Len(b.items) => added.sane = b.sane /\ added.items = Append(b.items, e)
    BY <1>5, AddItemEffect
  <1> HIDE DEF added
  <1>7. /\ begun \in ResponsesType /\ begun.calls = b.calls /\ begun.opened = b.opened
        /\ begun.text = b.text /\ begun.textStarted
        /\ b.textStarted => begun.sane = b.sane /\ begun.items = b.items
        /\ ~b.textStarted /\ 0 = Len(b.items) => begun.sane = b.sane /\ begun.items = Append(b.items, e)
    BY <1>6 DEF ResponsesType, Kept
  <1> HIDE DEF begun
  <1>8. /\ kept \in ResponsesType /\ kept.calls = b.calls /\ kept.opened = b.opened
        /\ kept.text = text /\ kept.textStarted = begun.textStarted
        /\ kept.sane = begun.sane /\ kept.items = begun.items
    <2>1. kept = [begun EXCEPT !.text = text]
      BY <1>7 DEF text
    <2> HIDE DEF kept
    <2> QED BY <1>4, <1>7, <2>1 DEF ResponsesType
  <1> HIDE DEF kept
  <1>9. /\ q \in ResponsesType /\ Kept(kept, q)
        /\ 0 + 1 \in DOMAIN kept.items /\ kept.items[0 + 1].id = no
              => q.sane = kept.sane /\ q.items = More(kept.items, 0 + 1, data)
    BY <1>2, <1>8, ExtendEffect
  <1> HIDE DEF q
  <1>10. ASSUME Ordered(b), data # none, b.calls = none \/ b.text # none PROVE Ordered(q)
    <2> DEFINE N == Len(b.calls)
               items == kept.items
    <2>1. N \in Nat /\ Len(b.items) = Shift(b) + N /\ (b.textStarted <=> b.text # none) /\ b.sane
          /\ DOMAIN b.items = 1 .. Shift(b) + N
      BY <1>10, OrderedTyped DEF Ordered, none
    <2>2. b.calls = none => N = 0
      BY EmptySeq DEF none
    <2>3. /\ items \in Seq(BlockRec) /\ Len(items) = 1 + N /\ kept.sane
          /\ items[1] = Block(no, none, b.text)
          /\ \A k \in 1 .. N : items[1 + k] = ItemOf(b.calls[k])
      <3>1. CASE b.textStarted
        <4>1. items = b.items /\ Shift(b) = 1
          BY <1>7, <1>8, <3>1 DEF Shift
        <4>2. items[1] = Block(no, none, b.text)
          BY <1>10, <3>1, <4>1 DEF Ordered, no, none
        <4>3. \A k \in 1 .. N : items[1 + k] = ItemOf(b.calls[k])
          BY <1>10, <4>1 DEF Ordered
        <4> QED BY <1>3, <1>7, <1>8, <2>1, <3>1, <4>1, <4>2, <4>3
      <3>2. CASE ~b.textStarted
        <4>1. N = 0 /\ Len(b.items) = 0
          <5>1. N = 0 /\ Shift(b) = 0
            BY <1>10, <2>1, <2>2, <3>2 DEF Shift
          <5> QED BY <2>1, <5>1
        <4>2. items = Append(b.items, e) /\ kept.sane
          BY <1>7, <1>8, <2>1, <3>2, <4>1
        <4>3. items \in Seq(BlockRec) /\ Len(items) = 0 + 1 /\ items[0 + 1] = e
          <5> HIDE DEF items
          <5> QED BY <1>3, <1>5, <4>1, <4>2, AppendedTo
        <4>4. b.text = none
          BY <2>1, <3>2
        <4>5. e = Block(no, none, b.text)
          BY <4>4 DEF e
        <4> HIDE DEF items, N
        <4>6. \A k \in 1 .. N : FALSE
          BY <4>1
        <4> QED BY <4>1, <4>2, <4>3, <4>5, <4>6
      <3> QED BY <3>1, <3>2
    <2> HIDE DEF N, items
    <2>4. DOMAIN items = 1 .. 1 + N /\ 1 \in 1 .. 1 + N /\ \A k \in 1 .. N : 1 + k \in 1 .. 1 + N /\ 1 + k # 1
      <3>1. DOMAIN items = 1 .. 1 + N
        BY <2>3, LenProperties
      <3>2. 1 \in 1 .. 1 + N /\ \A k \in 1 .. N : 1 + k \in 1 .. 1 + N /\ 1 + k # 1
        BY ONLY <2>1
      <3> QED BY <3>1, <3>2
    <2>5. Block(no, none, b.text).id = no /\ Block(no, none, b.text).name = none
          /\ Block(no, none, b.text).data = b.text
      BY DEF Block
    <2>6. q.sane /\ q.items = More(items, 1, data)
      <3>1. 1 \in DOMAIN kept.items /\ kept.items[1].id = no
              => q.sane = kept.sane /\ q.items = More(kept.items, 1, data)
        <4>1. 0 + 1 = 1
          OBVIOUS
        <4> QED BY ONLY <1>9, <4>1
      <3>2. 1 \in DOMAIN items /\ items[1].id = no
        BY <2>3, <2>4, <2>5
      <3> QED BY <2>3, <3>1, <3>2 DEF items
    <2>7. /\ Len(q.items) = 1 + N
          /\ q.items[1] = Block(no, none, text)
          /\ \A m \in 1 .. 1 + N : m # 1 => q.items[m] = items[m]
      <3>1. /\ Len(More(items, 1, data)) = Len(items)
            /\ More(items, 1, data)[1] = Block(items[1].id, items[1].name, items[1].data \o data)
            /\ \A m \in DOMAIN items : m # 1 => More(items, 1, data)[m] = items[m]
        <4>1. data \in Seq(Words) /\ items \in Seq(BlockRec) /\ 1 \in DOMAIN items
          BY <1>2, <2>3, <2>4
        <4> QED BY ONLY <4>1, MoreTyped
      <3> QED BY <2>3, <2>4, <2>5, <2>6, <3>1 DEF text
    <2>8. \A k \in 1 .. N : q.items[1 + k] = ItemOf(b.calls[k])
      BY <2>3, <2>4, <2>7
    <2>9. q.textStarted /\ Shift(q) = 1 /\ q.calls = b.calls /\ q.opened = b.opened /\ q.text = text
      BY <1>7, <1>8, <1>9 DEF Kept, Shift
    <2>10. q.text # none
      <3>1. text # <<>>
        BY <1>2, <1>3, <1>10, NonEmptyConcat DEF text, none
      <3> QED BY <2>9, <3>1 DEF none
    <2>11. q.items[1] = Block("", <<>>, q.text)
      BY <2>7, <2>9 DEF no, none
    <2>12. /\ Numbered(b.calls) /\ Numbered(b.opened) /\ Len(b.opened) = N
           /\ \A k \in 1 .. N : b.opened[k].id = b.calls[k].id
      BY <1>10 DEF Ordered, N
    <2> QED BY <2>6, <2>7, <2>8, <2>9, <2>10, <2>11, <2>12 DEF Ordered, N, none
  <1>11. q.calls = b.calls
    BY <1>8, <1>9 DEF Kept
  <1> QED BY <1>1, <1>9, <1>10, <1>11 DEF none, data

\* the frames of a chunk come in their turn, the calls of `old` having begun
Turns(old, s) ==
    \A k \in DOMAIN s :
        s[k].index \in (old \cup {s[j].index : j \in 1 .. k - 1})
                       \cup {Cardinality(old \cup {s[j].index : j \in 1 .. k - 1})}

LEMMA TurnsOfAppend ==
    ASSUME NEW S, NEW s \in Seq(S), NEW e \in S, NEW old, Turns(old, Append(s, e))
    PROVE  Turns(old, s)
           /\ e.index \in (old \cup IndexSet(s)) \cup {Cardinality(old \cup IndexSet(s))}
  <1> DEFINE w == Append(s, e)
             n == Len(s) + 1
  <1>1. /\ DOMAIN s = 1 .. Len(s) /\ Len(s) \in Nat
        /\ DOMAIN w = 1 .. n /\ \A i \in 1 .. Len(s) : w[i] = s[i]
        /\ w[n] = e
    BY LenProperties, AppendProperties
  <1>2. /\ \A i \in 1 .. Len(s) : i \in 1 .. n /\ \A j \in 1 .. i - 1 : j \in 1 .. Len(s)
        /\ n \in 1 .. n
        /\ 1 .. n - 1 = 1 .. Len(s)
    BY <1>1
  <1>3. Turns(old, w)
    OBVIOUS
  <1> HIDE DEF w, n
  <1>4. ASSUME NEW k \in 1 .. Len(s)
        PROVE  s[k].index \in (old \cup {s[j].index : j \in 1 .. k - 1})
                       \cup {Cardinality(old \cup {s[j].index : j \in 1 .. k - 1})}
    <2>1. {s[j].index : j \in 1 .. k - 1} = {w[j].index : j \in 1 .. k - 1}
      BY <1>1, <1>2
    <2>2. k \in DOMAIN w /\ w[k] = s[k]
      BY <1>1, <1>2
    <2> QED BY <1>3, <2>1, <2>2 DEF Turns
  <1>5. {w[j].index : j \in 1 .. n - 1} = IndexSet(s)
    BY <1>1, <1>2 DEF IndexSet
  <1>6. n \in DOMAIN w /\ w[n] = e
    BY <1>1, <1>2
  <1>7. e.index \in (old \cup IndexSet(s)) \cup {Cardinality(old \cup IndexSet(s))}
    BY <1>3, <1>5, <1>6 DEF Turns
  <1> QED BY <1>1, <1>4, <1>7 DEF Turns

LEMMA ResponsesFrames ==
    ASSUME NEW b \in ResponsesType, NEW s \in Seq(CallFrame)
    PROVE  LET q == FoldLeft(ResponsesCall, b, s)
           IN  /\ q \in ResponsesType
               /\ Ordered(b) /\ Tells(IndexSet(b.calls), s) /\ Turns(IndexSet(b.calls), s) => Ordered(q)
  <1> DEFINE Q(u) == Fold(ResponsesCallStep, b, u)
             Good(u) == /\ IndexSet(Q(u).calls) = IndexSet(b.calls) \cup IndexSet(u)
                        /\ Ordered(b) /\ Tells(IndexSet(b.calls), u) /\ Turns(IndexSet(b.calls), u)
                              => Ordered(Q(u))
             G == {u \in Seq(CallFrame) : Good(u)}
  <1>1. /\ \A u \in Seq(CallFrame) : Q(u) \in ResponsesType
        /\ Q(<<>>) = b
        /\ \A u \in Seq(CallFrame), f \in CallFrame : Q(Append(u, f)) = ResponsesCallStep[<<Q(u), f>>]
    BY ResponsesCallIsStep, FoldSteps
  <1> HIDE DEF Q
  <1>2. <<>> \in G
    <2>1. IndexSet(<<>>) = {}
      BY DEF IndexSet
    <2>2. Good(<<>>)
      BY <1>1, <2>1
    <2> HIDE DEF Good
    <2> QED BY <2>2, EmptySeq
  <1>3. ASSUME NEW u \in Seq(CallFrame), NEW f \in CallFrame, u \in G PROVE Append(u, f) \in G
    <2> DEFINE w == Append(u, f)
               q == Q(u)
    <2>1. q \in ResponsesType /\ w \in Seq(CallFrame) /\ Q(w) = ResponsesCall(q, f) /\ Q(w) \in ResponsesType
      BY <1>1, AppendProperties DEF ResponsesCallStep
    <2>2. IndexSet(w) = IndexSet(u) \cup {f.index}
      BY IndexSetOfAppend
    <2>3. Turns(IndexSet(b.calls), w) =>
             /\ Turns(IndexSet(b.calls), u)
             /\ f.index \in (IndexSet(b.calls) \cup IndexSet(u))
                            \cup {Cardinality(IndexSet(b.calls) \cup IndexSet(u))}
      BY TurnsOfAppend
    <2>4. Tells(IndexSet(b.calls), w) =>
             /\ Tells(IndexSet(b.calls), u)
             /\ f.index \in IndexSet(b.calls) \cup IndexSet(u) => f.id = "" /\ f.name = <<>>
      BY TellsOfAppend
    <2> HIDE DEF w, q
    <2>5. Good(u)
      BY <1>3
    <2>6. IndexSet(q.calls) = IndexSet(b.calls) \cup IndexSet(u)
      BY <2>5 DEF q
    <2>7. IndexSet(Q(w).calls) = IndexSet(b.calls) \cup IndexSet(w)
      <3> DEFINE c == Known(Get(q.calls, f.index), f)
      <3>1. Q(w).calls = Put(q.calls, c)
        BY <2>1, ResponsesCallTyped
      <3>2. c \in CallRec /\ c.index = f.index /\ q.calls \in Calls
        <4>1. FrameFields(f) /\ q.calls \in Calls /\ f.index \in Int
          BY <2>1, FrameTyped DEF ResponsesType, FrameFields
        <4>2. Get(q.calls, f.index) \in CallRec /\ Get(q.calls, f.index).index = f.index
          BY <4>1, GetIsCall
        <4> QED BY <4>1, <4>2, KnownTyped
      <3> HIDE DEF c
      <3>3. IndexSet(Q(w).calls) = IndexSet(q.calls) \cup {f.index}
        BY <3>1, <3>2, IndicesOfPut
      <3> QED BY <2>2, <2>6, <3>3
    <2>8. ASSUME Ordered(b), Tells(IndexSet(b.calls), w), Turns(IndexSet(b.calls), w) PROVE Ordered(Q(w))
      <3>1. Ordered(q)
        BY <2>3, <2>4, <2>5, <2>8 DEF q
      <3>2. InTurn(q, f)
        BY <2>3, <2>4, <2>6, <2>8 DEF InTurn
      <3> QED BY <2>1, <3>1, <3>2, FrameOrdered
    <2>9. Good(w)
      BY <2>7, <2>8
    <2> HIDE DEF Good
    <2> QED BY <2>1, <2>9 DEF w
  <1> HIDE DEF G
  <1>4. s \in G
    BY <1>2, <1>3, SeqInduction
  <1>5. FoldLeft(ResponsesCall, b, s) = Q(s)
    BY ResponsesCallIsFold DEF Q
  <1> QED BY <1>1, <1>4, <1>5 DEF G

\* The invariant of the builder and of its streaming client.
ResponsesHolds(b, told) == b \in ResponsesType /\ (told => Ordered(b))
ComesInOrder(b, c) ==
    /\ Tells(IndexSet(b.calls), c.calls) /\ Turns(IndexSet(b.calls), c.calls)
    /\ c.text # <<>> => b.calls = <<>> \/ b.text # <<>>

LEMMA ResponsesStartHolds == ResponsesHolds(ResponsesStart, TRUE)
  <1> DEFINE none == <<>>
             b == ResponsesStart
  <1>1. none \in Calls /\ none \in Seq(STRING) /\ none \in Seq(BlockRec) /\ Len(none) = 0
        /\ DOMAIN none = {}
    BY NoCalls, EmptySeq
  <1> HIDE DEF none
  <1>2. b = [text |-> none, calls |-> none, finish |-> "", failed |-> FALSE,
             textStarted |-> FALSE, opened |-> none, items |-> none, sane |-> TRUE]
    BY DEF ResponsesStart, none
  <1> HIDE DEF b
  <1>3. b \in ResponsesType
    BY <1>1, <1>2 DEF ResponsesType, Reasons
  <1>4. b.sane /\ ~b.textStarted /\ b.text = none /\ b.calls = none /\ b.opened = none /\ b.items = none
        /\ Shift(b) = 0
    BY <1>2 DEF Shift
  <1>5. \A k \in 1 .. 0 : FALSE
    OBVIOUS
  <1>6. Numbered(none)
    BY <1>1 DEF Numbered
  <1>7. Ordered(b)
    <2>1. Len(b.calls) = 0 /\ Len(b.opened) = Len(b.calls) /\ Len(b.items) = Shift(b) + Len(b.calls)
          /\ Numbered(b.calls) /\ Numbered(b.opened) /\ \A k \in 1 .. Len(b.calls) : FALSE
      BY <1>1, <1>4, <1>5, <1>6
    <2>2. b.text = <<>>
      BY <1>4 DEF none
    <2> QED BY <1>4, <2>1, <2>2 DEF Ordered
  <1> QED BY <1>3, <1>7 DEF ResponsesHolds, b

LEMMA ResponsesPushHolds ==
    ASSUME NEW b, NEW told \in BOOLEAN, ResponsesHolds(b, told), NEW c \in UpstreamChunk
    PROVE  ResponsesHolds(ResponsesPush(b, c), told /\ ComesInOrder(b, c))
  <1> DEFINE text == ResponsesText(b, c)
             done == FoldLeft(ResponsesCall, text, c.calls)
             q == [done EXCEPT !.finish = c.finish]
  <1>1. b \in ResponsesType /\ (told => Ordered(b))
    BY DEF ResponsesHolds
  <1>2. /\ text \in ResponsesType /\ text.calls = b.calls
        /\ told /\ ComesInOrder(b, c) => Ordered(text)
    BY <1>1, ResponsesTextTyped DEF ComesInOrder
  <1>3. c.calls \in Seq(CallFrame) /\ c.finish \in Reasons
    BY ChunkFields
  <1>4. ResponsesPush(b, c) = IF c.finish = "" THEN done ELSE q
    BY DEF ResponsesPush
  <1> HIDE DEF text
  <1>5. done \in ResponsesType /\ (told /\ ComesInOrder(b, c) => Ordered(done))
    BY <1>2, <1>3, ResponsesFrames DEF ComesInOrder
  <1> HIDE DEF done
  <1>6. /\ q \in ResponsesType /\ q.sane = done.sane /\ q.text = done.text
        /\ q.textStarted = done.textStarted /\ q.calls = done.calls /\ q.opened = done.opened
        /\ q.items = done.items
    BY <1>3, <1>5 DEF ResponsesType
  <1> HIDE DEF q
  <1>7. Ordered(done) => Ordered(q)
    BY <1>6 DEF Ordered, Shift
  <1> QED BY <1>4, <1>5, <1>6, <1>7 DEF ResponsesHolds

\* the order of the indices
LEMMA RanksDiffer ==
    ASSUME NEW calls \in Calls
    PROVE  /\ \A k \in DOMAIN calls : Rank(calls, k) \in DOMAIN calls
           /\ \A j, k \in DOMAIN calls : Rank(calls, j) = Rank(calls, k) => j = k
           /\ \A n \in DOMAIN calls : \E k \in DOMAIN calls : Rank(calls, k) = n
  <1> DEFINE N == Len(calls)
             UpToRank(k) == {j \in DOMAIN calls : calls[j].index <= calls[k].index}
             f == [k \in 1 .. N |-> Rank(calls, k)]
  <1>1. /\ N \in Nat /\ DOMAIN calls = 1 .. N /\ IsFiniteSet(1 .. N) /\ Cardinality(1 .. N) = N
        /\ \A k \in 1 .. N : calls[k].index \in Int
        /\ \A j, k \in 1 .. N : calls[j].index = calls[k].index => j = k
    <2>1. N \in Nat /\ DOMAIN calls = 1 .. N /\ \A k \in 1 .. N : calls[k] \in CallRec
      BY CallsAreSeq
    <2>2. IsFiniteSet(1 .. N) /\ Cardinality(1 .. N) = N
      <3>1. 1 \in Int /\ N \in Int
        BY <2>1
      <3>2. IsFiniteSet(1 .. N) /\ Cardinality(1 .. N) = IF 1 > N THEN 0 ELSE N - 1 + 1
        BY <3>1, FS_Interval
      <3> QED BY <2>1, <3>2
    <2> QED BY <2>1, <2>2, CallsAreSeq DEF CallRec
  <1>2. \A k : Rank(calls, k) = Cardinality(UpToRank(k))
    BY DEF Rank
  <1>3. \A k \in 1 .. N : k \in UpToRank(k) /\ UpToRank(k) \subseteq 1 .. N
    BY <1>1
  <1>4. ASSUME NEW j \in 1 .. N, NEW k \in 1 .. N, calls[j].index < calls[k].index
        PROVE  Rank(calls, j) # Rank(calls, k)
    <2>1. UpToRank(j) \subseteq UpToRank(k) /\ k \in UpToRank(k) /\ k \notin UpToRank(j)
      BY <1>1, <1>4
    <2> HIDE DEF UpToRank
    <2>2. IsFiniteSet(UpToRank(k))
      BY <1>1, <1>3, FS_Subset
    <2>3. Cardinality(UpToRank(k)) = Cardinality(UpToRank(j)) => UpToRank(k) = UpToRank(j)
      BY <2>1, <2>2, FS_Subset
    <2> QED BY <1>2, <2>1, <2>3
  <1> HIDE DEF N
  <1>5. ASSUME NEW j \in 1 .. N, NEW k \in 1 .. N, Rank(calls, j) = Rank(calls, k) PROVE j = k
    <2>1. calls[j].index \in Int /\ calls[k].index \in Int
      BY <1>1
    <2>2. ~(calls[j].index < calls[k].index) /\ ~(calls[k].index < calls[j].index)
      BY <1>4, <1>5
    <2>3. calls[j].index = calls[k].index
      BY <2>1, <2>2
    <2> QED BY <1>1, <2>3
  <1>6. ASSUME NEW k \in 1 .. N PROVE Rank(calls, k) \in 1 .. N
    <2> HIDE DEF UpToRank
    <2>1. IsFiniteSet(UpToRank(k)) /\ Cardinality(UpToRank(k)) <= N /\ UpToRank(k) # {}
      BY <1>1, <1>3, <1>6, FS_Subset
    <2>2. Cardinality(UpToRank(k)) \in Nat /\ Cardinality(UpToRank(k)) # 0
      BY <2>1, FS_CardinalityType, FS_EmptySet
    <2> QED BY <1>1, <1>2, <2>1, <2>2
  <1>7. f \in [1 .. N -> 1 .. N] /\ \A k \in 1 .. N : f[k] = Rank(calls, k)
    BY <1>6
  <1> HIDE DEF f
  <1>8. f \in Injection(1 .. N, 1 .. N)
    BY <1>5, <1>7 DEF Injection, IsInjective
  <1>9. f \in Surjection(1 .. N, 1 .. N)
    BY <1>1, <1>8, FS_Injection
  <1>10. \A n \in 1 .. N : \E k \in 1 .. N : Rank(calls, k) = n
    BY <1>7, <1>9 DEF Surjection
  <1> QED BY <1>1, <1>5, <1>6, <1>10

LEMMA SortedCalls ==
    ASSUME NEW calls \in Calls
    PROVE  /\ Sorted(calls) \in Seq(CallRec) /\ Len(Sorted(calls)) = Len(calls)
           /\ DOMAIN Sorted(calls) = DOMAIN calls
           /\ \A n \in DOMAIN calls :
                 \E k \in DOMAIN calls : Sorted(calls)[n] = calls[k] /\ Rank(calls, k) = n
  <1> DEFINE At(n) == CHOOSE k \in DOMAIN calls : Rank(calls, k) = n
  <1>1. \A n \in DOMAIN calls : At(n) \in DOMAIN calls /\ Rank(calls, At(n)) = n
    BY RanksDiffer
  <1>2. Sorted(calls) = [n \in DOMAIN calls |-> calls[At(n)]]
    BY DEF Sorted
  <1> HIDE DEF At
  <1>3. Len(calls) \in Nat /\ DOMAIN calls = 1 .. Len(calls) /\ \A k \in DOMAIN calls : calls[k] \in CallRec
    BY CallsAreSeq
  <1>4. Sorted(calls) \in [1 .. Len(calls) -> CallRec]
    BY <1>1, <1>2, <1>3
  <1>5. \A n \in DOMAIN calls : Sorted(calls)[n] = calls[At(n)]
    BY <1>2
  <1> QED BY <1>1, <1>3, <1>4, <1>5, FunctionIsList

\* in order they stay as they are
LEMMA SortedNumbered ==
    ASSUME NEW calls \in Calls, Numbered(calls)
    PROVE  Sorted(calls) = calls
  <1> DEFINE N == Len(calls)
  <1>1. N \in Nat /\ DOMAIN calls = 1 .. N /\ calls \in Seq(CallRec)
    BY CallsAreSeq
  <1>2. \A k \in 1 .. N : calls[k].index = k - 1
    BY <1>1 DEF Numbered
  <1> HIDE DEF N
  <1>3. ASSUME NEW k \in 1 .. N PROVE Rank(calls, k) = k
    <2>1. {j \in 1 .. N : calls[j].index <= calls[k].index} = 1 .. k
      BY <1>1, <1>2
    <2>2. Cardinality(1 .. k) = k
      <3>1. 1 \in Int /\ k \in Int /\ k >= 1
        BY <1>1
      <3>2. Cardinality(1 .. k) = IF 1 > k THEN 0 ELSE k - 1 + 1
        BY <3>1, FS_Interval
      <3> QED BY <3>1, <3>2
    <2> QED BY <1>1, <2>1, <2>2 DEF Rank
  <1>4. \A n \in 1 .. N : Sorted(calls)[n] = calls[n]
    BY <1>1, <1>3, SortedCalls
  <1>5. Sorted(calls) \in Seq(CallRec) /\ Len(Sorted(calls)) = N
    BY SortedCalls DEF N
  <1> QED BY <1>1, <1>4, <1>5, SeqEqual DEF N

\* the list of items of an answer
LEMMA ResponsesAgrees ==
    ASSUME NEW b, ResponsesHolds(b, TRUE)
    PROVE  /\ b.sane
           /\ b.items =
                 (IF b.text = <<>> THEN <<>> ELSE <<Block("", <<>>, b.text)>>)
                 \o [k \in DOMAIN b.calls |->
                       LET c == Sorted(b.calls)[k] IN Block(c.id, c.name, c.args)]
  <1> DEFINE none == <<>>
             text == Block("", none, b.text)
             head == IF b.text = none THEN none ELSE <<text>>
             N == Len(b.calls)
             t == Shift(b)
             tail == [k \in DOMAIN b.calls |-> ItemOf(b.calls[k])]
             items == b.items
  <1>1. b \in ResponsesType /\ Ordered(b)
    BY DEF ResponsesHolds
  <1>2. /\ b.calls \in Calls /\ items \in Seq(BlockRec) /\ N \in Nat
        /\ DOMAIN b.calls = 1 .. N /\ \A k \in 1 .. N : b.calls[k] \in CallRec
    BY <1>1, OrderedTyped, CallsAreSeq
  <1>3. Sorted(b.calls) = b.calls
    BY <1>1, <1>2, SortedNumbered DEF Ordered
  <1>4. [k \in DOMAIN b.calls |-> LET c == Sorted(b.calls)[k] IN Block(c.id, c.name, c.args)] = tail
    BY <1>3 DEF ItemOf
  <1>5. tail \in Seq(BlockRec) /\ Len(tail) = N /\ \A k \in 1 .. N : tail[k] = ItemOf(b.calls[k])
    <2>1. ASSUME NEW k \in 1 .. N PROVE ItemOf(b.calls[k]) \in BlockRec
      <3> DEFINE c == b.calls[k]
      <3>1. c \in CallRec
        BY <1>2
      <3> HIDE DEF c
      <3>2. c.id \in AnyId /\ c.name \in Seq(STRING) /\ c.args \in Seq(Words)
        BY <3>1, PiecesAreWords DEF CallRec
      <3>3. ItemOf(c) \in BlockRec
        BY <3>2, BlockTyped DEF ItemOf
      <3> QED BY <3>3 DEF c
    <2>2. tail \in [1 .. N -> BlockRec]
      BY <1>2, <2>1
    <2>3. \A k \in 1 .. N : tail[k] = ItemOf(b.calls[k])
      BY <1>2
    <2> HIDE DEF tail, N
    <2> QED BY <1>2, <2>2, <2>3, FunctionIsList
  <1>6. b.sane /\ (t = 1 \/ t = 0) /\ (t = 1 <=> b.text # none) /\ Len(items) = t + N
        /\ (t = 1 => items[1] = text)
        /\ \A k \in 1 .. N : items[t + k] = ItemOf(b.calls[k])
    <2>1. (t = 1 \/ t = 0) /\ (t = 1 <=> b.textStarted)
      <3>1. t = IF b.textStarted THEN 1 ELSE 0
        BY DEF Shift
      <3> QED BY ONLY <3>1
    <2>2. b.sane /\ (b.textStarted <=> b.text # none) /\ Len(items) = t + N
          /\ \A k \in 1 .. N : items[t + k] = ItemOf(b.calls[k])
      BY <1>1 DEF Ordered
    <2>3. b.textStarted => items[1] = text
      BY <1>1 DEF Ordered
    <2> HIDE DEF t, N, none, items, text
    <2> QED BY <2>1, <2>2, <2>3
  <1>7. text \in BlockRec
    <2> DEFINE no == ""
    <2>1. no \in AnyId /\ none \in Seq(STRING) /\ b.text \in Seq(Words)
      BY <1>1, EmptySeq, TextIsWords DEF AnyId, ResponsesType
    <2> HIDE DEF no, none
    <2>2. Block(no, none, b.text) \in BlockRec
      BY <2>1, BlockTyped
    <2> QED BY <2>2 DEF no
  <1> HIDE DEF tail, text, N, t, items
  <1>8. head \in Seq(BlockRec) /\ Len(head) = t /\ (t = 1 => head[1] = text)
    <2>1. none \in Seq(BlockRec) /\ Len(none) = 0
      BY EmptySeq
    <2>2. <<text>> \in Seq(BlockRec) /\ Len(<<text>>) = 1 /\ <<text>>[1] = text
      BY <1>7
    <2> HIDE DEF none
    <2> QED BY <1>6, <2>1, <2>2
  <1> HIDE DEF head
  <1>9. /\ head \o tail \in Seq(BlockRec) /\ Len(head \o tail) = t + N
        /\ \A i \in 1 .. Len(head) + Len(tail) :
              (head \o tail)[i] = IF i <= Len(head) THEN head[i] ELSE tail[i - Len(head)]
    BY <1>5, <1>8, ConcatProperties
  <1>10. ASSUME NEW i \in 1 .. t + N PROVE (head \o tail)[i] = items[i]
    <2>1. (head \o tail)[i] = IF i <= t THEN head[i] ELSE tail[i - t]
      BY <1>5, <1>8, <1>9
    <2>2. CASE i <= t
      <3>1. t = 1 /\ i = 1
        <4>1. i \in 1 .. t + N /\ N \in Nat /\ (t = 1 \/ t = 0) /\ i <= t
          BY <1>2, <1>6, <2>2
        <4> QED BY ONLY <4>1
      <3> QED BY <1>6, <1>8, <2>1, <2>2, <3>1
    <2>3. CASE ~(i <= t)
      <3>1. i - t \in 1 .. N /\ t + (i - t) = i
        <4>1. i \in 1 .. t + N /\ N \in Nat /\ (t = 1 \/ t = 0) /\ ~(i <= t)
          BY <1>2, <1>6, <2>3
        <4> QED BY ONLY <4>1
      <3>2. tail[i - t] = ItemOf(b.calls[i - t]) /\ items[t + (i - t)] = ItemOf(b.calls[i - t])
        BY <1>5, <1>6, <3>1
      <3> QED BY <2>1, <2>3, <3>1, <3>2
    <2> QED BY <2>2, <2>3
  <1>11. items = head \o tail
    BY <1>2, <1>6, <1>9, <1>10, SeqEqual
  <1> QED BY <1>4, <1>6, <1>11 DEF items, head, text, none

-----------------------------------------------------------------------------
(* The next turn of a client *)

\* parts that are all of a kind, or none of them
LEMMA AllOfKind ==
    ASSUME NEW kind, NEW parts \in Seq(Parts)
    PROVE  /\ (\A i \in 1 .. Len(parts) : parts[i].kind = kind) => OfKind(parts, kind) = parts
           /\ (\A i \in 1 .. Len(parts) : parts[i].kind # kind) => OfKind(parts, kind) = <<>>
  <1> DEFINE Good(u) ==
                /\ (\A i \in 1 .. Len(u) : u[i].kind = kind) => OfKind(u, kind) = u
                /\ (\A i \in 1 .. Len(u) : u[i].kind # kind) => OfKind(u, kind) = <<>>
             G == {u \in Seq(Parts) : Good(u)}
  <1>1. <<>> \in G
    BY OfKindOfNone, EmptySeq
  <1>2. ASSUME NEW u \in Seq(Parts), NEW p \in Parts, u \in G PROVE Append(u, p) \in G
    <2> DEFINE v == Append(u, p)
    <2>1. /\ v \in Seq(Parts) /\ Len(u) \in Nat /\ Len(v) = Len(u) + 1 /\ v[Len(u) + 1] = p
          /\ \A i \in 1 .. Len(u) : v[i] = u[i]
      BY LenProperties, AppendProperties
    <2>2. OfKind(v, kind) = IF p.kind = kind THEN Append(OfKind(u, kind), p) ELSE OfKind(u, kind)
      BY OfKindSteps
    <2>3. \A i \in 1 .. Len(u) : i \in 1 .. Len(u) + 1
      BY <2>1
    <2>4. Len(u) + 1 \in 1 .. Len(u) + 1
      BY <2>1
    <2>5. Good(u)
      BY <1>2
    <2>6. v = Append(u, p)
      OBVIOUS
    <2> HIDE DEF v
    <2>7. ASSUME \A i \in 1 .. Len(v) : v[i].kind = kind PROVE OfKind(v, kind) = v
      <3>1. p.kind = kind /\ \A i \in 1 .. Len(u) : u[i].kind = kind
        BY <2>1, <2>3, <2>4, <2>7
      <3>2. OfKind(u, kind) = u
        BY <2>5, <3>1
      <3> QED BY <2>2, <2>6, <3>1, <3>2
    <2>8. ASSUME \A i \in 1 .. Len(v) : v[i].kind # kind PROVE OfKind(v, kind) = <<>>
      <3>1. p.kind # kind /\ \A i \in 1 .. Len(u) : u[i].kind # kind
        BY <2>1, <2>3, <2>4, <2>8
      <3> QED BY <2>2, <2>5, <3>1
    <2> QED BY <2>1, <2>6, <2>7, <2>8
  <1> HIDE DEF G
  <1>3. parts \in G
    BY <1>1, <1>2, SeqInduction
  <1> QED BY <1>3 DEF G

UseIds(parts) == IdsOf(OfKind(parts, "use"))
\* of calls with ids of their own
OwnUses(parts) ==
    \A i, j \in 1 .. Len(parts) : parts[i].kind = "use" /\ parts[j] = parts[i] => i = j

LEMMA UseIdsOfAppend ==
    ASSUME NEW parts \in Seq(Parts), NEW p \in Parts
    PROVE  /\ p.kind = "use" => p.id \in CallIds /\ UseIds(Append(parts, p)) = Append(UseIds(parts), p.id)
           /\ p.kind # "use" => UseIds(Append(parts, p)) = UseIds(parts)
  <1> DEFINE s == OfKind(parts, "use")
             v == Append(parts, p)
  <1>1. s \in Seq(Parts)
    BY OfKindSteps
  <1>2. OfKind(v, "use") = IF p.kind = "use" THEN Append(s, p) ELSE s
    BY OfKindSteps
  <1>3. p.kind = "use" => p.id \in CallIds
    BY DEF Parts
  <1>4. IdsOf(Append(s, p)) = Append(IdsOf(s), p.id)
    <2> HIDE DEF s
    <2> QED BY <1>1 DEF IdsOf
  <1> QED BY <1>2, <1>3, <1>4 DEF UseIds

LEMMA UseIdsTyped ==
    ASSUME NEW parts \in Seq(Parts)
    PROVE  /\ UseIds(parts) \in Seq(CallIds)
           /\ \A id \in ToSet(UseIds(parts)) : \E i \in 1 .. Len(parts) : parts[i] = Part("use", id)
  <1> DEFINE Good(u) == \A id \in ToSet(UseIds(u)) : \E i \in 1 .. Len(u) : u[i] = Part("use", id)
             G == {u \in Seq(Parts) : Good(u)}
  <1>0. \A u \in Seq(Parts) : UseIds(u) \in Seq(CallIds)
    BY IdsOfKind DEF UseIds
  <1>1. <<>> \in G
    <2>1. OfKind(<<>>, "use") = <<>>
      BY OfKindOfNone
    <2>2. ToSet(UseIds(<<>>)) = {}
      BY <2>1 DEF UseIds, IdsOf, ToSet
    <2> QED BY <2>2, EmptySeq
  <1>2. ASSUME NEW u \in Seq(Parts), NEW p \in Parts, u \in G PROVE Append(u, p) \in G
    <2> DEFINE v == Append(u, p)
    <2>1. /\ v \in Seq(Parts) /\ Len(u) \in Nat /\ Len(v) = Len(u) + 1 /\ v[Len(u) + 1] = p
          /\ \A i \in 1 .. Len(u) : v[i] = u[i]
      BY LenProperties, AppendProperties
    <2>2. \A i \in 1 .. Len(u) : i \in 1 .. Len(u) + 1
      BY <2>1
    <2>3. Len(u) + 1 \in 1 .. Len(u) + 1
      BY <2>1
    <2>4. Good(u)
      BY <1>2
    <2>5. /\ p.kind = "use" => p.id \in CallIds /\ UseIds(v) = Append(UseIds(u), p.id)
          /\ p.kind # "use" => UseIds(v) = UseIds(u)
      BY UseIdsOfAppend
    <2> HIDE DEF v
    <2>6. ASSUME NEW id \in ToSet(UseIds(v)) PROVE \E i \in 1 .. Len(v) : v[i] = Part("use", id)
      <3>1. CASE id \in ToSet(UseIds(u))
        BY <2>1, <2>2, <2>4, <3>1
      <3>2. CASE id \notin ToSet(UseIds(u))
        <4>1. p.kind = "use" /\ p.id \in CallIds /\ UseIds(v) = Append(UseIds(u), p.id)
          BY <2>5, <2>6, <3>2
        <4>2. ToSet(UseIds(v)) = ToSet(UseIds(u)) \cup {p.id}
          BY <1>0, <4>1, ListOfAppend
        <4>3. p.id = id
          BY <2>6, <3>2, <4>2
        <4>4. p = Part("use", id)
          BY <4>1, <4>3 DEF Parts, Part
        <4> QED BY <2>1, <2>3, <4>4
      <3> QED BY <3>1, <3>2
    <2> QED BY <2>1, <2>6 DEF v
  <1> HIDE DEF G
  <1>3. parts \in G
    BY <1>1, <1>2, SeqInduction
  <1> QED BY <1>0, <1>3 DEF G

LEMMA OwnUsesDiffer ==
    ASSUME NEW parts \in Seq(Parts), OwnUses(parts)
    PROVE  IsInjective(UseIds(parts))
  <1> DEFINE Good(u) == OwnUses(u) => IsInjective(UseIds(u))
             G == {u \in Seq(Parts) : Good(u)}
  <1>1. <<>> \in G
    <2>1. OfKind(<<>>, "use") = <<>>
      BY OfKindOfNone
    <2>2. IsInjective(UseIds(<<>>))
      BY <2>1 DEF UseIds, IdsOf, IsInjective
    <2> QED BY <2>2, EmptySeq
  <1>2. ASSUME NEW u \in Seq(Parts), NEW p \in Parts, u \in G PROVE Append(u, p) \in G
    <2> DEFINE v == Append(u, p)
    <2>1. /\ v \in Seq(Parts) /\ Len(u) \in Nat /\ Len(v) = Len(u) + 1 /\ v[Len(u) + 1] = p
          /\ \A i \in 1 .. Len(u) : v[i] = u[i]
      BY LenProperties, AppendProperties
    <2>2. \A i \in 1 .. Len(u) : i \in 1 .. Len(u) + 1 /\ i # Len(u) + 1
      BY <2>1
    <2>3. Len(u) + 1 \in 1 .. Len(u) + 1
      BY <2>1
    <2>4. Good(u)
      BY <1>2
    <2>5. /\ p.kind = "use" => p.id \in CallIds /\ UseIds(v) = Append(UseIds(u), p.id)
          /\ p.kind # "use" => UseIds(v) = UseIds(u)
      BY UseIdsOfAppend
    <2> HIDE DEF v
    <2>6. ASSUME OwnUses(v) PROVE IsInjective(UseIds(v))
      <3>1. OwnUses(u)
        BY <2>1, <2>2, <2>6 DEF OwnUses
      <3>2. IsInjective(UseIds(u))
        BY <2>4, <3>1
      <3>3. CASE p.kind # "use"
        BY <2>5, <3>2, <3>3
      <3>4. CASE p.kind = "use"
        <4>1. p.id \notin ToSet(UseIds(u))
          <5> SUFFICES ASSUME p.id \in ToSet(UseIds(u)) PROVE FALSE
            OBVIOUS
          <5>1. PICK i \in 1 .. Len(u) : u[i] = Part("use", p.id)
            BY UseIdsTyped
          <5>2. p = Part("use", p.id)
            BY <3>4 DEF Parts, Part
          <5>3. v[i] = v[Len(u) + 1] /\ i \in 1 .. Len(v) /\ Len(u) + 1 \in 1 .. Len(v) /\ i # Len(u) + 1
            BY <2>1, <2>2, <2>3, <5>1, <5>2
          <5>4. v[Len(u) + 1].kind = "use"
            BY <2>1, <3>4
          <5> QED BY <2>6, <5>3, <5>4 DEF OwnUses
        <4>2. UseIds(u) \in Seq(CallIds)
          BY UseIdsTyped
        <4>3. p.id \in CallIds /\ UseIds(v) = Append(UseIds(u), p.id)
          BY <2>5, <3>4
        <4>4. IsInjective(Append(UseIds(u), p.id))
          BY ONLY <3>2, <4>1, <4>2, <4>3, ListOfAppend
        <4> QED BY <4>3, <4>4
      <3> QED BY <3>3, <3>4
    <2> QED BY <2>1, <2>6 DEF v
  <1> HIDE DEF G
  <1>3. parts \in G
    BY <1>1, <1>2, SeqInduction
  <1> QED BY <1>3 DEF G

\* what a client returns for the calls
ResultParts(ids) == [k \in DOMAIN ids |-> Part("result", ids[k])]

LEMMA ResultsTyped ==
    ASSUME NEW ids \in Seq(CallIds)
    PROVE  LET parts == ResultParts(ids)
           IN  /\ parts \in Seq(Parts) /\ Len(parts) = Len(ids) /\ (parts = <<>> <=> ids = <<>>)
               /\ \A i \in 1 .. Len(parts) : parts[i] = Part("result", ids[i]) /\ parts[i].kind = "result"
               /\ OfKind(parts, "result") = parts /\ OfKind(parts, "use") = <<>>
               /\ OfKind(parts, "image") = <<>> /\ IdsOf(parts) = ids
  <1> DEFINE parts == ResultParts(ids)
             N == Len(ids)
  <1>1. N \in Nat /\ DOMAIN ids = 1 .. N /\ \A i \in 1 .. N : ids[i] \in CallIds
    BY LenProperties, ElementOfSeq
  <1>2. \A i \in 1 .. N : Part("result", ids[i]) \in Parts
    BY <1>1, WordsAreParts
  <1>3. parts \in [1 .. N -> Parts] /\ \A i \in 1 .. N : parts[i] = Part("result", ids[i])
    <2> HIDE DEF N
    <2> QED BY <1>1, <1>2 DEF ResultParts
  <1> HIDE DEF parts
  <1>4. parts \in Seq(Parts) /\ Len(parts) = N /\ DOMAIN parts = 1 .. N
    <2> HIDE DEF N
    <2> QED BY <1>1, <1>3, FunctionIsList
  <1>5. parts = <<>> <=> ids = <<>>
    BY <1>4, EmptySeq
  <1>6. \A i \in 1 .. N : parts[i].kind = "result"
    BY <1>3 DEF Part
  <1>7. OfKind(parts, "result") = parts
    BY <1>4, <1>6, AllOfKind
  <1>8. OfKind(parts, "use") = <<>> /\ OfKind(parts, "image") = <<>>
    <2>1. \A i \in 1 .. Len(parts) : parts[i].kind # "use" /\ parts[i].kind # "image"
      BY <1>4, <1>6
    <2> QED BY <1>4, <2>1, AllOfKind
  <1>9. IdsOf(parts) = ids
    <2>1. \A i \in 1 .. N : parts[i].id = ids[i]
      BY <1>3 DEF Part
    <2>2. IdsOf(parts) = [i \in 1 .. N |-> ids[i]]
      BY <1>4, <2>1 DEF IdsOf
    <2>3. ids = [i \in 1 .. N |-> ids[i]]
      <3>1. ids \in [1 .. N -> CallIds]
        BY LenProperties
      <3> HIDE DEF N
      <3> QED BY <3>1
    <2> QED BY <2>2, <2>3
  <1> QED BY <1>3, <1>4, <1>5, <1>6, <1>7, <1>8, <1>9 DEF parts, N

\* what an answer may say: words and calls
IsSaid(parts) ==
    parts \in Seq(Parts) /\ parts # <<>> /\ \A i \in 1 .. Len(parts) : parts[i].kind \in {"text", "use"}

LEMMA SaidKinds ==
    ASSUME NEW parts, IsSaid(parts)
    PROVE  OfKind(parts, "result") = <<>> /\ OfKind(parts, "image") = <<>>
  <1>1. parts \in Seq(Parts)
        /\ \A i \in 1 .. Len(parts) : parts[i].kind # "result" /\ parts[i].kind # "image"
    BY DEF IsSaid
  <1> QED BY <1>1, AllOfKind

LEMMA NoIds == /\ IdsOf(<<>>) = <<>> /\ ToSet(<<>>) = {} /\ Len(<<>>) = 0 /\ Cardinality({}) = 0
  BY FS_EmptySet DEF IdsOf, ToSet

\* toWorkBuddyMessageRequest takes the answer, and then waits for its calls
LEMMA SaidAccepted ==
    ASSUME NEW s \in MapState, ~s.refused, s.pending = {}, NEW parts, IsSaid(parts),
           IsInjective(UseIds(parts)), ToSet(UseIds(parts)) \cap s.known = {}
    PROVE  LET q == MapMessage(s, Message("assistant", parts))
           IN  q \in MapState /\ ~q.refused /\ q.pending = ToSet(UseIds(parts))
  <1> DEFINE m == Message("assistant", parts)
  <1>1. parts \in Seq(Parts) /\ parts # <<>> /\ "assistant" \in Roles
    BY DEF IsSaid, Roles
  <1>2. m \in Msg /\ m.parts = parts /\ m.role = "assistant"
    <2>1. m \in Msg
      BY <1>1, MessageTyped
    <2> QED BY <2>1 DEF Message
  <1> HIDE DEF m
  <1>3. OfKind(parts, "result") = <<>> /\ OfKind(parts, "image") = <<>>
    BY SaidKinds
  <1>4. AnswersPending(s, m)
    BY <1>2, <1>3, NoIds DEF AnswersPending
  <1>5. CallsAreNew(s, m)
    <2>1. Cardinality(ToSet(UseIds(parts))) = Len(UseIds(parts))
      BY <1>1, UseIdsTyped, ElementsOfList
    <2> QED BY <1>2, <2>1 DEF CallsAreNew, UseIds
  <1>6. MessageAccepted(s, m)
    BY <1>1, <1>2, <1>3, <1>4, <1>5 DEF MessageAccepted
  <1>7. MapMessage(s, m) \in MapState
    BY <1>2, MessageIsTyped
  <1> DEFINE results == IdsOf(OfKind(m.parts, "result"))
             tools == [k \in DOMAIN results |-> ToUpstream("tool", <<>>, results[k])]
             rest == IF Len(results) = Len(m.parts) THEN <<>>
                     ELSE <<ToUpstream(m.role, UseIds(parts), "")>>
             out == s.out \o tools \o rest
  <1>8. MapMessage(s, m) = [s EXCEPT !.known = @ \cup ToSet(UseIds(parts)),
                                     !.pending = ToSet(UseIds(parts)), !.out = out]
    BY <1>2, <1>6 DEF MapMessage, UseIds
  <1> HIDE DEF out
  <1> QED BY <1>7, <1>8 DEF MapState, m

\* and takes the results of all of them, or something new when there are none
LEMMA ResultsAccepted ==
    ASSUME NEW s \in MapState, ~s.refused, NEW ids \in Seq(CallIds), IsInjective(ids),
           s.pending = ToSet(ids)
    PROVE  LET parts == IF ids = <<>> THEN <<Text>> ELSE ResultParts(ids)
               m == Message("user", parts)
               q == MapMessage(s, m)
           IN  m \in Msg /\ q \in MapState /\ ~q.refused /\ q.pending = {}
  <1> DEFINE parts == IF ids = <<>> THEN <<Text>> ELSE ResultParts(ids)
             m == Message("user", parts)
  <1>1. /\ parts \in Seq(Parts) /\ parts # <<>>
        /\ OfKind(parts, "use") = <<>> /\ OfKind(parts, "image") = <<>>
        /\ IdsOf(OfKind(parts, "result")) = ids
        /\ OfKind(parts, "result") # <<>> => \A i \in 1 .. Len(parts) : parts[i].kind = "result"
    <2>1. CASE ids = <<>>
      <3> DEFINE one == <<Text>>
      <3>1. one \in Seq(Parts) /\ one # <<>> /\ \A i \in 1 .. Len(one) : one[i].kind = "text"
        <4>1. Text \in Parts /\ Text.kind = "text"
          BY WordsAreParts DEF Text, Part
        <4> HIDE DEF one
        <4>2. one \in Seq(Parts) /\ Len(one) = 1 /\ one[1] = Text /\ one # <<>>
          <5>1. Text \in Parts
            BY <4>1
          <5> QED BY ONLY <5>1 DEF one
        <4>3. \A i \in 1 .. 1 : i = 1
          OBVIOUS
        <4> QED BY <4>1, <4>2, <4>3
      <3>2. parts = one
        BY <2>1
      <3> HIDE DEF one
      <3>3. \A i \in 1 .. Len(one) : one[i].kind # "use" /\ one[i].kind # "image" /\ one[i].kind # "result"
        BY <3>1
      <3>4. OfKind(one, "use") = <<>> /\ OfKind(one, "image") = <<>> /\ OfKind(one, "result") = <<>>
        BY <3>1, <3>3, AllOfKind
      <3> QED BY <2>1, <3>1, <3>2, <3>4, NoIds
    <2>2. CASE ids # <<>>
      <3>1. parts = ResultParts(ids)
        BY <2>2
      <3> QED BY <2>2, <3>1, ResultsTyped
    <2> QED BY <2>1, <2>2
  <1> HIDE DEF parts
  <1>2. m \in Msg /\ m.parts = parts /\ m.role = "user"
    <2>1. "user" \in Roles
      BY DEF Roles
    <2>2. m \in Msg
      BY <1>1, <2>1, MessageTyped
    <2> QED BY <2>2 DEF Message
  <1> HIDE DEF m
  <1>3. AnswersPending(s, m)
    <2>1. Cardinality(ToSet(ids)) = Len(ids)
      BY ElementsOfList
    <2> QED BY <1>1, <1>2, <2>1 DEF AnswersPending
  <1>4. OfKind(parts, "result") # <<>> => ResultsFirst(m)
    <2>1. DOMAIN parts = 1 .. Len(parts)
      BY <1>1, LenProperties
    <2> QED BY <1>1, <1>2, <2>1 DEF ResultsFirst
  <1>5. MessageAccepted(s, m)
    BY <1>1, <1>2, <1>3, <1>4 DEF MessageAccepted
  <1>6. MapMessage(s, m) \in MapState
    BY <1>2, MessageIsTyped
  <1> DEFINE calls == IdsOf(OfKind(m.parts, "use"))
             results == IdsOf(OfKind(m.parts, "result"))
             tools == [k \in DOMAIN results |-> ToUpstream("tool", <<>>, results[k])]
             rest == IF Len(results) = Len(m.parts) THEN <<>>
                     ELSE <<ToUpstream(m.role, calls, "")>>
             out == s.out \o tools \o rest
  <1>7. MapMessage(s, m) = [s EXCEPT !.known = @ \cup ToSet(calls), !.pending = ToSet(calls), !.out = out]
    BY <1>5 DEF MapMessage
  <1>8. ToSet(calls) = {}
    BY <1>1, <1>2, NoIds
  <1> HIDE DEF out, calls
  <1> QED BY <1>2, <1>6, <1>7, <1>8 DEF MapState, m, parts

LEMMA FoldOfNone ==
    ASSUME NEW A, NEW B, NEW step \in Steps(A, B), NEW base \in A
    PROVE  Fold(step, base, <<>>) = base
  <1> DEFINE none == <<>>
  <1>1. none \in Seq(B)
    BY EmptySeq
  <1> HIDE DEF none
  <1> QED BY <1>1, FoldSteps

\* messages of one part each
Each(role, parts) == [k \in DOMAIN parts |-> Message(role, <<parts[k]>>)]

LEMMA EachTyped ==
    ASSUME NEW role \in Roles, NEW parts \in Seq(Parts)
    PROVE  /\ Each(role, parts) \in Seq(Msg) /\ Len(Each(role, parts)) = Len(parts)
           /\ Each(role, <<>>) = <<>>
           /\ \A p \in Parts : Each(role, Append(parts, p)) = Append(Each(role, parts), Message(role, <<p>>))
  <1> DEFINE N == Len(parts)
             s == Each(role, parts)
  <1>1. N \in Nat /\ DOMAIN parts = 1 .. N /\ \A i \in 1 .. N : parts[i] \in Parts
    BY LenProperties, ElementOfSeq
  <1> HIDE DEF N
  <1>2. \A i \in 1 .. N : Message(role, <<parts[i]>>) \in Msg
    BY <1>1, OnePartTyped
  <1>3. s \in [1 .. N -> Msg] /\ \A i \in 1 .. N : s[i] = Message(role, <<parts[i]>>)
    BY <1>1, <1>2 DEF Each
  <1>4. s \in Seq(Msg) /\ Len(s) = N
    <2> HIDE DEF s
    <2> QED BY <1>1, <1>3, FunctionIsList
  <1>5. Each(role, <<>>) = <<>>
    BY DEF Each
  <1>6. ASSUME NEW p \in Parts
        PROVE  Each(role, Append(parts, p)) = Append(s, Message(role, <<p>>))
    <2> DEFINE v == Append(parts, p)
               e == Message(role, <<p>>)
               t == Each(role, v)
    <2>1. v \in Seq(Parts) /\ Len(v) = N + 1 /\ DOMAIN v = 1 .. N + 1 /\ v[N + 1] = p
          /\ \A i \in 1 .. N : v[i] = parts[i]
      BY <1>1, AppendProperties DEF N
    <2>2. \A i \in 1 .. N + 1 : v[i] \in Parts
      BY <2>1, ElementOfSeq
    <2> HIDE DEF v
    <2>3. \A i \in 1 .. N + 1 : Message(role, <<v[i]>>) \in Msg
      BY <2>2, OnePartTyped
    <2>4. t \in [1 .. N + 1 -> Msg] /\ \A i \in 1 .. N + 1 : t[i] = Message(role, <<v[i]>>)
      BY <2>1, <2>3 DEF Each
    <2>5. t \in Seq(Msg) /\ Len(t) = N + 1
      <3>1. N + 1 \in Nat
        BY <1>1
      <3> HIDE DEF t
      <3> QED BY <2>4, <3>1, FunctionIsList
    <2>6. e \in Msg
      BY OnePartTyped
    <2> HIDE DEF t, e, s
    <2>7. /\ Append(s, e) \in Seq(Msg) /\ Len(Append(s, e)) = N + 1 /\ Append(s, e)[N + 1] = e
          /\ \A i \in 1 .. N : Append(s, e)[i] = s[i]
      BY <1>4, <2>6, AppendedTo
    <2>8. ASSUME NEW i \in 1 .. N + 1 PROVE t[i] = Append(s, e)[i]
      <3>1. i \in 1 .. N \/ i = N + 1
        BY <1>1
      <3>2. t[i] = Message(role, <<v[i]>>)
        BY <2>4
      <3>3. CASE i \in 1 .. N
        BY <1>3, <2>1, <2>7, <3>2, <3>3
      <3>4. CASE i = N + 1
        BY <2>1, <2>7, <3>2, <3>4 DEF e
      <3> QED BY <3>1, <3>3, <3>4
    <2>9. t = Append(s, e)
      BY <2>5, <2>7, <2>8, SeqEqual
    <2> QED BY <2>9 DEF t, e, v, s
  <1> QED BY <1>4, <1>5, <1>6 DEF N, s

\* toWorkBuddyResponseRequest, one item
LEMMA ItemOfPart ==
    ASSUME NEW s \in MapState, ~s.refused, NEW role \in Roles, NEW p \in Parts
    PROVE  LET q == MapItem(s, Message(role, <<p>>))
           IN  /\ p.kind = "text" => ~q.refused /\ q.known = s.known
               /\ p.kind = "use" /\ p.id \notin s.known => ~q.refused /\ q.known = s.known \cup {p.id}
               /\ p.kind = "result" /\ p.id \in s.known => ~q.refused /\ q.known = s.known
  <1> DEFINE m == Message(role, <<p>>)
             made == CASE p.kind = "use" -> ToUpstream("assistant", <<p.id>>, "")
                       [] p.kind = "result" -> ToUpstream("tool", <<>>, p.id)
                       [] OTHER -> ToUpstream(ToSystem(m.role), <<>>, "")
             refused == \/ p.kind = "use" /\ p.id \in s.known
                        \/ p.kind = "result" /\ p.id \notin s.known
             q == MapItem(s, m)
             out == Append(s.out, made)
  <1>1. m.parts[1] = p
    BY DEF Message
  <1>2. q = IF refused THEN [s EXCEPT !.refused = TRUE]
            ELSE [s EXCEPT !.known = @ \cup ToSet(made.calls), !.out = out]
    BY <1>1 DEF MapItem
  <1>3. /\ p.kind = "use" => ToSet(made.calls) = {p.id}
        /\ p.kind = "text" => ToSet(made.calls) = {}
        /\ p.kind = "result" => ToSet(made.calls) = {}
    <2>1. ToSet(<<p.id>>) = {p.id}
      BY DEF ToSet
    <2>2. p.kind = "use" => made.calls = <<p.id>>
      BY DEF ToUpstream
    <2>3. p.kind \in {"text", "result"} => made.calls = <<>>
      BY DEF ToUpstream
    <2> QED BY <2>1, <2>2, <2>3, NoIds
  <1> HIDE DEF out, made
  <1>4. ~refused => ~q.refused /\ q.known = s.known \cup ToSet(made.calls)
    BY <1>2 DEF MapState
  <1> HIDE DEF q
  <1>5. CASE p.kind = "text"
    BY <1>3, <1>4, <1>5 DEF q, m
  <1>6. CASE p.kind = "use"
    BY <1>3, <1>4, <1>6 DEF q, m
  <1>7. CASE p.kind = "result"
    BY <1>3, <1>4, <1>7 DEF q, m
  <1> QED BY <1>5, <1>6, <1>7 DEF q, m

\* an answer, item by item
LEMMA ItemsSaid ==
    ASSUME NEW s \in MapState, ~s.refused, NEW parts \in Seq(Parts),
           \A i \in 1 .. Len(parts) : parts[i].kind \in {"text", "use"},
           IsInjective(UseIds(parts)), ToSet(UseIds(parts)) \cap s.known = {}
    PROVE  LET q == Fold(ItemStep, s, Each("assistant", parts))
           IN  q \in MapState /\ ~q.refused /\ q.known = s.known \cup ToSet(UseIds(parts))
  <1> DEFINE F(u) == Fold(ItemStep, s, Each("assistant", u))
             Fits(u) == /\ \A i \in 1 .. Len(u) : u[i].kind \in {"text", "use"}
                        /\ IsInjective(UseIds(u)) /\ ToSet(UseIds(u)) \cap s.known = {}
             Good(u) == Fits(u) => ~F(u).refused /\ F(u).known = s.known \cup ToSet(UseIds(u))
             G == {u \in Seq(Parts) : Good(u)}
  <1>a. "assistant" \in Roles
    BY DEF Roles
  <1>0. \A u \in Seq(Parts) : Each("assistant", u) \in Seq(Msg) /\ F(u) \in MapState
    BY <1>a, EachTyped, ItemIsStep, FoldSteps
  <1>1. <<>> \in G
    <2>1. <<>> \in Seq(Parts) /\ UseIds(<<>>) = <<>>
      BY EmptySeq, OfKindOfNone, NoIds DEF UseIds
    <2>2. Each("assistant", <<>>) = <<>> /\ <<>> \in Seq(Msg)
      BY <1>a, <2>1, EachTyped, EmptySeq
    <2>3. F(<<>>) = s
      <3>1. Fold(ItemStep, s, <<>>) = s
        BY ItemIsStep, FoldOfNone
      <3> QED BY <2>2, <3>1
    <2> HIDE DEF F
    <2> QED BY <2>1, <2>3, NoIds
  <1>2. ASSUME NEW u \in Seq(Parts), NEW p \in Parts, u \in G PROVE Append(u, p) \in G
    <2> DEFINE v == Append(u, p)
    <2>1. /\ v \in Seq(Parts) /\ Len(u) \in Nat /\ Len(v) = Len(u) + 1 /\ v[Len(u) + 1] = p
          /\ \A i \in 1 .. Len(u) : v[i] = u[i]
      BY LenProperties, AppendProperties
    <2>2. \A i \in 1 .. Len(u) : i \in 1 .. Len(u) + 1 /\ i # Len(u) + 1
      BY <2>1
    <2>3. Len(u) + 1 \in 1 .. Len(u) + 1
      BY <2>1
    <2>4. Good(u)
      BY <1>2
    <2>5. /\ p.kind = "use" => p.id \in CallIds /\ UseIds(v) = Append(UseIds(u), p.id)
          /\ p.kind # "use" => UseIds(v) = UseIds(u)
      BY UseIdsOfAppend
    <2> DEFINE m == Message("assistant", <<p>>)
    <2>6. m \in Msg
      BY <1>a, OnePartTyped
    <2>7. Each("assistant", v) = Append(Each("assistant", u), m)
      BY <1>a, EachTyped
    <2> HIDE DEF m
    <2>8. F(v) = ItemStep[<<F(u), m>>]
      <3> DEFINE t == Each("assistant", u)
      <3>1. t \in Seq(Msg)
        BY <1>0
      <3>2. Fold(ItemStep, s, Append(t, m)) = ItemStep[<<Fold(ItemStep, s, t), m>>]
        <4> HIDE DEF t
        <4> QED BY <2>6, <3>1, ItemIsStep, FoldSteps
      <3> QED BY <2>7, <3>2
    <2> HIDE DEF F, v
    <2>9. F(v) = MapItem(F(u), m)
      BY <1>0, <2>6, <2>8 DEF ItemStep
    <2>10. ASSUME Fits(v) PROVE ~F(v).refused /\ F(v).known = s.known \cup ToSet(UseIds(v))
      <3>0. UseIds(u) \in Seq(CallIds)
        BY UseIdsTyped
      <3>1. p.kind \in {"text", "use"} /\ \A i \in 1 .. Len(u) : u[i].kind \in {"text", "use"}
        BY <2>1, <2>2, <2>3, <2>10
      <3>2. CASE p.kind # "use"
        <4>1. UseIds(v) = UseIds(u)
          BY <2>5, <3>2
        <4>2. Fits(u)
          BY <2>10, <3>1, <4>1
        <4>3. ~F(u).refused /\ F(u).known = s.known \cup ToSet(UseIds(u))
          BY <2>4, <4>2
        <4>4. F(u) \in MapState
          BY <1>0
        <4>5. p.kind = "text"
          BY <3>1, <3>2
        <4>6. ~MapItem(F(u), m).refused /\ MapItem(F(u), m).known = F(u).known
          BY <1>a, <4>3, <4>4, <4>5, ItemOfPart DEF m
        <4> QED BY <2>9, <4>1, <4>3, <4>6
      <3>3. CASE p.kind = "use"
        <4>1. UseIds(v) = Append(UseIds(u), p.id) /\ p.id \in CallIds
          BY <2>5, <3>3
        <4>2. /\ ToSet(UseIds(v)) = ToSet(UseIds(u)) \cup {p.id}
              /\ IsInjective(UseIds(v)) <=> IsInjective(UseIds(u)) /\ p.id \notin ToSet(UseIds(u))
          BY <3>0, <4>1, ListOfAppend
        <4>3. Fits(u) /\ p.id \notin ToSet(UseIds(u)) /\ p.id \notin s.known
          BY <2>10, <3>1, <4>2
        <4>4. ~F(u).refused /\ F(u).known = s.known \cup ToSet(UseIds(u))
          BY <2>4, <4>3
        <4>5. F(u) \in MapState /\ p.id \notin F(u).known
          BY <1>0, <4>3, <4>4
        <4>6. ~MapItem(F(u), m).refused /\ MapItem(F(u), m).known = F(u).known \cup {p.id}
          BY <1>a, <3>3, <4>4, <4>5, ItemOfPart DEF m
        <4> QED BY <2>9, <4>2, <4>4, <4>6
      <3> QED BY <3>2, <3>3
    <2> QED BY <2>1, <2>10 DEF v
  <1> HIDE DEF G, F
  <1>3. parts \in G
    BY <1>1, <1>2, SeqInduction
  <1>4. Good(parts)
    BY <1>3 DEF G
  <1>5. F(parts) \in MapState
    BY <1>0
  <1>6. Fits(parts)
    OBVIOUS
  <1> QED BY <1>4, <1>5, <1>6 DEF F

\* and the results of calls that were made
LEMMA ItemsReturned ==
    ASSUME NEW s \in MapState, ~s.refused, NEW parts \in Seq(Parts),
           \A i \in 1 .. Len(parts) : parts[i].kind = "result" /\ parts[i].id \in s.known
    PROVE  LET q == Fold(ItemStep, s, Each("item", parts)) IN q \in MapState /\ ~q.refused
  <1> DEFINE F(u) == Fold(ItemStep, s, Each("item", u))
             Fits(u) == \A i \in 1 .. Len(u) : u[i].kind = "result" /\ u[i].id \in s.known
             Good(u) == Fits(u) => ~F(u).refused /\ F(u).known = s.known
             G == {u \in Seq(Parts) : Good(u)}
  <1>a. "item" \in Roles
    BY DEF Roles
  <1>0. \A u \in Seq(Parts) : Each("item", u) \in Seq(Msg) /\ F(u) \in MapState
    BY <1>a, EachTyped, ItemIsStep, FoldSteps
  <1>1. <<>> \in G
    <2>1. <<>> \in Seq(Parts)
      BY EmptySeq
    <2>2. Each("item", <<>>) = <<>> /\ <<>> \in Seq(Msg)
      BY <1>a, <2>1, EachTyped, EmptySeq
    <2>3. F(<<>>) = s
      <3>1. Fold(ItemStep, s, <<>>) = s
        BY ItemIsStep, FoldOfNone
      <3> QED BY <2>2, <3>1
    <2> HIDE DEF F
    <2> QED BY <2>1, <2>3
  <1>2. ASSUME NEW u \in Seq(Parts), NEW p \in Parts, u \in G PROVE Append(u, p) \in G
    <2> DEFINE v == Append(u, p)
    <2>1. /\ v \in Seq(Parts) /\ Len(u) \in Nat /\ Len(v) = Len(u) + 1 /\ v[Len(u) + 1] = p
          /\ \A i \in 1 .. Len(u) : v[i] = u[i]
      BY LenProperties, AppendProperties
    <2>2. \A i \in 1 .. Len(u) : i \in 1 .. Len(u) + 1 /\ i # Len(u) + 1
      BY <2>1
    <2>3. Len(u) + 1 \in 1 .. Len(u) + 1
      BY <2>1
    <2>4. Good(u)
      BY <1>2
    <2> DEFINE m == Message("item", <<p>>)
    <2>6. m \in Msg
      BY <1>a, OnePartTyped
    <2>7. Each("item", v) = Append(Each("item", u), m)
      BY <1>a, EachTyped
    <2> HIDE DEF m
    <2>8. F(v) = ItemStep[<<F(u), m>>]
      <3> DEFINE t == Each("item", u)
      <3>1. t \in Seq(Msg)
        BY <1>0
      <3>2. Fold(ItemStep, s, Append(t, m)) = ItemStep[<<Fold(ItemStep, s, t), m>>]
        <4> HIDE DEF t
        <4> QED BY <2>6, <3>1, ItemIsStep, FoldSteps
      <3> QED BY <2>7, <3>2
    <2> HIDE DEF F, v
    <2>9. F(v) = MapItem(F(u), m)
      BY <1>0, <2>6, <2>8 DEF ItemStep
    <2>10. ASSUME Fits(v) PROVE ~F(v).refused /\ F(v).known = s.known
      <3>1. p.kind = "result" /\ p.id \in s.known /\ Fits(u)
        BY <2>1, <2>2, <2>3, <2>10
      <3>2. ~F(u).refused /\ F(u).known = s.known
        BY <2>4, <3>1
      <3>3. F(u) \in MapState
        BY <1>0
      <3>4. ~MapItem(F(u), m).refused /\ MapItem(F(u), m).known = F(u).known
        BY <1>a, <3>1, <3>2, <3>3, ItemOfPart DEF m
      <3> QED BY <2>9, <3>2, <3>4
    <2> QED BY <2>1, <2>10 DEF v
  <1> HIDE DEF G, F
  <1>3. parts \in G
    BY <1>1, <1>2, SeqInduction
  <1>4. Good(parts)
    BY <1>3 DEF G
  <1>5. F(parts) \in MapState
    BY <1>0
  <1>6. Fits(parts)
    OBVIOUS
  <1> QED BY <1>4, <1>5, <1>6 DEF F

-----------------------------------------------------------------------------
(* The invariant *)

FinishedMessages(b) ==
    /\ b \in MessagesType /\ b.finished /\ b.sane /\ b.view = b.blocks
    /\ OwnBlocks(b.blocks)
AnswerHolds ==
    /\ route = "chat" => ChatHolds(answer, tidy)
    /\ route = "responses" => ResponsesHolds(answer, tidy /\ orderly)
    /\ route = "messages" =>
          IF phase = "answered" THEN FinishedMessages(answer) ELSE answer \in MessagesState
AnsweredHolds ==
    phase = "answered" => /\ route = "chat" => ChatSucceeds(answer)
                          /\ route = "responses" => ResponsesSucceeds(answer)
RequestHolds ==
    phase \in {"answering", "answered"} => ~Mapped(conversation).refused
ExchangeTyped ==
    /\ bound \in Bounds /\ route \in Routes
    /\ phase \in {"asking", "answering", "answered", "failed", "refused"}
    /\ conversation \in Seq(Msg)
    /\ tidy \in BOOLEAN /\ orderly \in BOOLEAN
ExchangeInv == ExchangeTyped /\ AnswerHolds /\ AnsweredHolds /\ RequestHolds

\* the parts of an answer are words and calls; of messages the calls have ids of their own
LEMMA BlocksAreSaid ==
    ASSUME route = "messages", FinishedMessages(answer), AnswerParts # <<>>
    PROVE  IsSaid(AnswerParts) /\ OwnUses(AnswerParts)
  <1> DEFINE blocks == answer.blocks
             N == Len(blocks)
             part(n) == IF blocks[n].id = "" THEN Text ELSE Part("use", blocks[n].id)
             parts == AnswerParts
  <1>1. /\ blocks \in Seq(BlockRec) /\ N \in Nat /\ DOMAIN blocks = 1 .. N
        /\ \A n \in 1 .. N : blocks[n] \in BlockRec
    <2>1. blocks \in Seq(BlockRec)
      BY DEF FinishedMessages, MessagesType
    <2> QED BY <2>1, LenProperties, ElementOfSeq
  <1>2. parts = [n \in 1 .. N |-> part(n)]
    BY <1>1 DEF AnswerParts
  <1>3. \A m, n \in 1 .. N : blocks[m].id = blocks[n].id /\ blocks[n].id # "" => m = n
    BY <1>1 DEF FinishedMessages, OwnBlocks
  <1> HIDE DEF N, blocks, parts
  <1>4. \A n \in 1 .. N : part(n) \in Parts /\ part(n).kind \in {"text", "use"}
    <2> SUFFICES ASSUME NEW n \in 1 .. N PROVE part(n) \in Parts /\ part(n).kind \in {"text", "use"}
      OBVIOUS
    <2>1. blocks[n].id \in AnyId
      BY <1>1 DEF BlockRec
    <2>2. CASE blocks[n].id = ""
      BY <2>2, WordsAreParts DEF Text, Part
    <2>3. CASE blocks[n].id # ""
      <3>1. blocks[n].id \in CallIds
        BY <2>1, <2>3 DEF AnyId
      <3> QED BY <2>3, <3>1, WordsAreParts DEF Part
    <2> QED BY <2>2, <2>3
  <1>5. parts \in Seq(Parts) /\ Len(parts) = N
    <2>1. parts \in [1 .. N -> Parts]
      BY <1>2, <1>4
    <2> QED BY <1>1, <2>1, FunctionIsList
  <1>6. \A n \in 1 .. N : parts[n] = part(n)
    BY <1>2
  <1>7. ASSUME NEW i \in 1 .. N, NEW j \in 1 .. N, parts[i].kind = "use", parts[j] = parts[i]
        PROVE  i = j
    <2>1. part(i).kind = "use" /\ part(j) = part(i)
      BY <1>6, <1>7
    <2>2. Text.kind # "use"
      BY DEF Text, Part
    <2>3. blocks[i].id # "" /\ blocks[j].id # ""
      BY <2>1, <2>2
    <2>4. blocks[j].id = blocks[i].id
      BY <2>1, <2>3 DEF Part
    <2> QED BY <1>3, <2>3, <2>4
  <1>8. IsSaid(parts)
    BY <1>4, <1>5, <1>6 DEF IsSaid, parts
  <1>9. OwnUses(parts)
    BY <1>5, <1>7 DEF OwnUses
  <1> QED BY <1>8, <1>9 DEF parts

LEMMA SortedIds ==
    ASSUME NEW calls \in Calls, \A k \in DOMAIN calls : calls[k].id # ""
    PROVE  \A n \in DOMAIN calls : Sorted(calls)[n].id \in CallIds
  <1> SUFFICES ASSUME NEW n \in DOMAIN calls PROVE Sorted(calls)[n].id \in CallIds
    OBVIOUS
  <1>1. PICK j \in DOMAIN calls : Sorted(calls)[n] = calls[j]
    BY SortedCalls
  <1>2. calls[j] \in CallRec /\ calls[j].id # ""
    BY CallsAreSeq
  <1>3. calls[j].id \in AnyId
    BY <1>2 DEF CallRec
  <1> QED BY <1>1, <1>2, <1>3 DEF AnyId

LEMMA CallsAreSaid ==
    ASSUME route # "messages", answer.calls \in Calls,
           \A k \in DOMAIN answer.calls : answer.calls[k].id # "",
           AnswerParts # <<>>
    PROVE  /\ IsSaid(AnswerParts)
           /\ OwnIds(ToSet(answer.calls)) => OwnUses(AnswerParts)
  <1> DEFINE calls == answer.calls
             N == Len(calls)
             tail == [k \in DOMAIN calls |-> Part("use", Sorted(calls)[k].id)]
             head == IF answer.text = <<>> THEN <<>> ELSE <<Text>>
             parts == AnswerParts
  <1>1. N \in Nat /\ DOMAIN calls = 1 .. N /\ \A k \in 1 .. N : calls[k] \in CallRec
    BY CallsAreSeq
  <1>2. parts = head \o tail
    BY DEF AnswerParts
  <1>3. ASSUME NEW k \in 1 .. N PROVE Sorted(calls)[k].id \in CallIds
    <2>1. calls \in Calls /\ \A j \in DOMAIN calls : calls[j].id # ""
      OBVIOUS
    <2>2. k \in DOMAIN calls
      BY <1>1, <1>3
    <2> HIDE DEF N, calls
    <2> QED BY <2>1, <2>2, SortedIds
  <1> HIDE DEF N, calls
  <1>4. /\ tail \in Seq(Parts) /\ Len(tail) = N
        /\ \A k \in 1 .. N : tail[k] \in Parts /\ tail[k].kind = "use"
    <2>1. \A k \in 1 .. N : Part("use", Sorted(calls)[k].id) \in Parts
      BY <1>3, WordsAreParts
    <2>2. tail \in [1 .. N -> Parts] /\ \A k \in 1 .. N : tail[k] = Part("use", Sorted(calls)[k].id)
      BY <1>1, <2>1
    <2>3. \A k \in 1 .. N : tail[k].kind = "use"
      BY <2>2 DEF Part
    <2> HIDE DEF tail
    <2> QED BY <1>1, <2>2, <2>3, FunctionIsList
  <1>5. head \in Seq(Parts) /\ Len(head) \in {0, 1} /\ \A i \in 1 .. Len(head) : head[i].kind = "text"
    <2>1. Text \in Parts /\ Text.kind = "text"
      BY WordsAreParts DEF Text, Part
    <2> DEFINE one == <<Text>>
               none == <<>>
    <2>2. one \in Seq(Parts) /\ Len(one) = 1 /\ one[1] = Text
      <3>1. Text \in Parts
        BY <2>1
      <3> QED BY ONLY <3>1 DEF one
    <2>3. none \in Seq(Parts) /\ Len(none) = 0
      BY EmptySeq
    <2>4. head = one \/ head = none
      OBVIOUS
    <2> HIDE DEF one, none, head
    <2>5. (\A i \in 1 .. 1 : i = 1) /\ \A i \in 1 .. 0 : FALSE
      BY ONLY TRUE
    <2> QED BY <2>1, <2>2, <2>3, <2>4, <2>5
  <1> HIDE DEF head, tail, parts
  <1>6. /\ parts \in Seq(Parts) /\ Len(parts) = Len(head) + N
        /\ \A i \in 1 .. Len(head) + Len(tail) :
              parts[i] = IF i <= Len(head) THEN head[i] ELSE tail[i - Len(head)]
    BY <1>2, <1>4, <1>5, ConcatProperties
  <1>7. ASSUME NEW i \in 1 .. Len(parts) PROVE parts[i].kind \in {"text", "use"}
    <2> DEFINE t == Len(head)
    <2>0. t \in Nat /\ i \in 1 .. t + N /\ N \in Nat
      BY ONLY <1>1, <1>5, <1>6, <1>7 DEF t
    <2>1. parts[i] = IF i <= t THEN head[i] ELSE tail[i - t]
      BY <1>4, <1>6, <2>0
    <2>2. \A j \in 1 .. t : head[j].kind = "text"
      BY <1>5
    <2> HIDE DEF t
    <2>3. CASE i <= t
      <3>1. i \in 1 .. t
        BY ONLY <2>0, <2>3
      <3> QED BY <2>1, <2>2, <2>3, <3>1
    <2>4. CASE ~(i <= t)
      <3>1. i - t \in 1 .. N
        BY ONLY <2>0, <2>4
      <3> QED BY <1>4, <2>1, <2>4, <3>1
    <2> QED BY <2>3, <2>4
  <1>8. ASSUME OwnIds(ToSet(calls)) PROVE OwnUses(parts)
    <2> DEFINE t == Len(head)
               id(k) == Sorted(calls)[k].id
    <2>1. t \in Nat /\ N \in Nat /\ Len(parts) = t + N
      BY ONLY <1>1, <1>5, <1>6 DEF t
    <2>2. calls \in Calls
      BY DEF calls
    <2>3. ASSUME NEW j \in 1 .. N, NEW k \in 1 .. N, id(j) = id(k) PROVE j = k
      <3>1. \A n \in 1 .. N : \E i \in 1 .. N : Sorted(calls)[n] = calls[i] /\ Rank(calls, i) = n
        BY <1>1, <2>2, SortedCalls
      <3>2. PICK x \in 1 .. N : Sorted(calls)[j] = calls[x] /\ Rank(calls, x) = j
        BY <3>1
      <3>3. PICK y \in 1 .. N : Sorted(calls)[k] = calls[y] /\ Rank(calls, y) = k
        BY <3>1
      <3>4. calls[x] \in ToSet(calls) /\ calls[y] \in ToSet(calls) /\ calls[x].id = calls[y].id
        BY <1>1, <2>3, <3>2, <3>3 DEF ToSet
      <3>5. calls[x] = calls[y]
        BY <1>8, <3>4 DEF OwnIds
      <3>6. x = y
        BY <1>1, <2>2, <3>5, CallsAreSeq
      <3> QED BY <3>2, <3>3, <3>6
    <2>4. \A i \in 1 .. t + N : parts[i] = IF i <= t THEN head[i] ELSE tail[i - t]
      BY <1>4, <1>6
    <2>5. \A i \in 1 .. t : head[i].kind # "use"
      BY <1>5
    <2>6. \A k \in 1 .. N : tail[k].id = id(k)
      BY <1>1 DEF tail, Part
    <2> HIDE DEF t, id
    <2>7. ASSUME NEW i \in 1 .. t + N, NEW j \in 1 .. t + N, parts[i].kind = "use", parts[j] = parts[i]
          PROVE  i = j
      <3>0. t \in Nat /\ N \in Nat /\ parts[i].kind = "use" /\ parts[j].kind = "use"
        BY <2>1, <2>7
      <3>1. ~(i <= t) /\ ~(j <= t)
        <4>1. ASSUME NEW k \in 1 .. t + N, parts[k].kind = "use", k <= t PROVE FALSE
          <5>1. k \in 1 .. t
            BY ONLY <3>0, <4>1
          <5>2. parts[k] = head[k] /\ head[k].kind # "use"
            BY <2>4, <2>5, <4>1, <5>1
          <5> QED BY <4>1, <5>2
        <4> QED BY <3>0, <4>1
      <3>2. i - t \in 1 .. N /\ j - t \in 1 .. N
        BY ONLY <2>1, <2>7, <3>1
      <3>3. tail[i - t] = tail[j - t]
        BY <2>4, <2>7, <3>1
      <3>4. i - t = j - t
        BY <2>3, <2>6, <3>2, <3>3
      <3> QED BY ONLY <2>1, <2>7, <3>4
    <2> QED BY <2>1, <2>7 DEF OwnUses
  <1> QED BY <1>6, <1>7, <1>8 DEF IsSaid, parts, calls

LEMMA AnswerIsSaid ==
    ASSUME ExchangeInv, phase = "answered", AnswerParts # <<>>
    PROVE  IsSaid(AnswerParts) /\ (route # "responses" => OwnUses(AnswerParts))
  <1>1. CASE route = "messages"
    BY <1>1, BlocksAreSaid DEF ExchangeInv, AnswerHolds
  <1>2. CASE route = "chat"
    <2>1. answer.calls \in Calls
      BY <1>2 DEF ExchangeInv, AnswerHolds, ChatHolds, ChatType
    <2>2. \A k \in DOMAIN answer.calls : answer.calls[k].id # ""
      BY <1>2 DEF ExchangeInv, AnsweredHolds, ChatSucceeds, Assembles
    <2>3. route # "messages"
      BY <1>2
    <2>4. OwnIds(ToSet(answer.calls))
      BY <1>2, <2>1, AssembledIds DEF ExchangeInv, AnsweredHolds, ChatSucceeds
    <2> QED BY <2>1, <2>2, <2>3, <2>4, CallsAreSaid
  <1>3. CASE route = "responses"
    <2>1. answer.calls \in Calls
      BY <1>3 DEF ExchangeInv, AnswerHolds, ResponsesHolds, ResponsesType
    <2>2. \A k \in DOMAIN answer.calls : answer.calls[k].id # ""
      BY <1>3 DEF ExchangeInv, AnsweredHolds, ResponsesSucceeds
    <2>3. route # "messages"
      BY <1>3
    <2> QED BY <1>3, <2>1, <2>2, <2>3, CallsAreSaid
  <1> QED BY <1>1, <1>2, <1>3 DEF ExchangeInv, ExchangeTyped, Routes

-----------------------------------------------------------------------------
(* An answer that is returned *)

LEMMA ResultsOfUses ==
    ASSUME NEW parts \in Seq(Parts)
    PROVE  LET uses == OfKind(parts, "use")
           IN  [k \in DOMAIN uses |-> Part("result", uses[k].id)] = ResultParts(UseIds(parts))
  BY DEF ResultParts, UseIds, IdsOf

\* the next turn, by the route
MessagesTurn(parts) ==
    LET ids == UseIds(parts)
    IN  <<Message("assistant", parts),
          Message("user", IF ids = <<>> THEN <<Text>> ELSE ResultParts(ids))>>
ResponsesTurn(parts) == Each("assistant", parts) \o Each("item", ResultParts(UseIds(parts)))
ChatTurn(parts) == <<Message("assistant", parts)>> \o Each("tool", ResultParts(UseIds(parts)))

LEMMA NextTurnByRoute ==
    ASSUME AnswerParts \in Seq(Parts)
    PROVE  /\ route = "messages" => NextTurn = MessagesTurn(AnswerParts)
           /\ route = "responses" => NextTurn = ResponsesTurn(AnswerParts)
           /\ route = "chat" => NextTurn = ChatTurn(AnswerParts)
  <1> DEFINE parts == AnswerParts
             uses == OfKind(parts, "use")
             results == [k \in DOMAIN uses |-> Part("result", uses[k].id)]
             ids == UseIds(parts)
  <1>1. results = ResultParts(ids)
    BY ResultsOfUses
  <1>2. ids \in Seq(CallIds)
    BY UseIdsTyped
  <1> HIDE DEF ids
  <1>3. ResultParts(ids) = <<>> <=> ids = <<>>
    BY <1>2, ResultsTyped
  <1> HIDE DEF results
  <1>4. NextTurn =
          CASE route = "messages" ->
                 <<Message("assistant", parts),
                   Message("user", IF results = <<>> THEN <<Text>> ELSE results)>>
            [] route = "responses" -> Each("assistant", parts) \o Each("item", results)
            [] route = "chat" -> <<Message("assistant", parts)>> \o Each("tool", results)
    BY DEF NextTurn, Each, results
  <1> HIDE DEF parts
  <1>5. CASE route = "messages"
    BY <1>1, <1>3, <1>4, <1>5 DEF MessagesTurn, ids, parts
  <1>6. CASE route = "responses"
    BY <1>1, <1>4, <1>6 DEF ResponsesTurn, ids, parts
  <1>7. CASE route = "chat"
    BY <1>1, <1>4, <1>7 DEF ChatTurn, ids, parts
  <1> QED BY <1>5, <1>6, <1>7

LEMMA PairOfMessages ==
    ASSUME NEW S, NEW s \in Seq(S), NEW a \in S, NEW b \in S
    PROVE  /\ s \o <<a, b>> = Append(Append(s, a), b) /\ Append(s, a) \in Seq(S)
           /\ s \o <<a, b>> \in Seq(S) /\ s \o <<a, b>> # <<>>
           /\ (s \o <<a, b>>)[Len(s \o <<a, b>>)] = b
           /\ s # <<>> => (s \o <<a, b>>)[1] = s[1]
  OBVIOUS

LEMMA MessagesReturned ==
    ASSUME NEW c \in Seq(Msg), ~MapMessages(c).refused, NEW parts, IsSaid(parts), OwnUses(parts),
           ToSet(UseIds(parts)) \cap MapMessages(c).known = {}
    PROVE  c \o MessagesTurn(parts) \in Seq(Msg) /\ ~MapMessages(c \o MessagesTurn(parts)).refused
  <1> DEFINE ids == UseIds(parts)
             F(u) == FoldLeft(MapMessage, MessagesBegin, u)
             s == F(c)
             a == Message("assistant", parts)
             answers == IF ids = <<>> THEN <<Text>> ELSE ResultParts(ids)
             b == Message("user", answers)
             d == c \o <<a, b>>
             q == MapMessage(s, a)
             r == MapMessage(q, b)
             Ends(u, t) == [t EXCEPT !.refused = \/ @ \/ t.pending # {} \/ u = <<>>
                                                 \/ Head(u).role # "user" \/ Last(u).role # "user"]
  <1>1. parts \in Seq(Parts) /\ parts # <<>>
    BY DEF IsSaid
  <1>2. ids \in Seq(CallIds) /\ IsInjective(ids)
    BY <1>1, UseIdsTyped, OwnUsesDiffer
  <1>3. \A u : MapMessages(u) = Ends(u, F(u))
    BY DEF MapMessages
  <1>4. \A u \in Seq(Msg) : F(u) = Fold(MessageStep, MessagesBegin, u)
    BY StartsTyped, MessagesAreFold
  <1>5. \A u \in Seq(Msg) : F(u) \in MapState
    BY <1>4, StartsTyped, MessageIsStep, FoldSteps
  <1>6. \A u \in Seq(Msg), m \in Msg : F(Append(u, m)) = MapMessage(F(u), m)
    <2> SUFFICES ASSUME NEW u \in Seq(Msg), NEW m \in Msg PROVE F(Append(u, m)) = MapMessage(F(u), m)
      OBVIOUS
    <2>1. Append(u, m) \in Seq(Msg)
      BY AppendProperties
    <2>2. Fold(MessageStep, MessagesBegin, Append(u, m)) = MessageStep[<<Fold(MessageStep, MessagesBegin, u), m>>]
      BY StartsTyped, MessageIsStep, FoldSteps
    <2> HIDE DEF F
    <2>3. F(Append(u, m)) = MessageStep[<<F(u), m>>] /\ F(u) \in MapState
      BY <1>4, <1>5, <2>1, <2>2
    <2> QED BY <2>3 DEF MessageStep
  <1> HIDE DEF F
  <1>7. s \in MapState /\ ~s.refused /\ s.pending = {} /\ c # <<>> /\ Head(c).role = "user"
        /\ MapMessages(c).known = s.known
    <2>1. s \in MapState
      BY <1>5
    <2>2. MapMessages(c) = Ends(c, s)
      BY <1>3
    <2> HIDE DEF s
    <2> QED BY <2>1, <2>2 DEF MapState
  <1>8. q \in MapState /\ ~q.refused /\ q.pending = ToSet(ids) /\ a \in Msg
    <2>1. ToSet(UseIds(parts)) \cap s.known = {} /\ IsInjective(UseIds(parts))
      BY <1>2, <1>7
    <2> HIDE DEF s, ids
    <2>2. q \in MapState /\ ~q.refused /\ q.pending = ToSet(UseIds(parts))
      BY <1>7, <2>1, SaidAccepted
    <2>3. "assistant" \in Roles
      BY DEF Roles
    <2>4. a \in Msg
      BY <1>1, <2>3, MessageTyped
    <2> QED BY <2>2, <2>4 DEF ids
  <1>9. b \in Msg /\ r \in MapState /\ ~r.refused /\ r.pending = {}
    <2> HIDE DEF q, ids
    <2> QED BY <1>2, <1>8, ResultsAccepted
  <1>10. b.role = "user"
    BY DEF Message
  <1> HIDE DEF a, b, answers, q, r
  <1>11. /\ d = Append(Append(c, a), b) /\ Append(c, a) \in Seq(Msg) /\ d \in Seq(Msg) /\ d # <<>>
         /\ d[Len(d)] = b /\ d[1] = c[1]
    BY <1>7, <1>8, <1>9, PairOfMessages
  <1> HIDE DEF d
  <1>12. F(d) = r
    <2>1. F(d) = MapMessage(F(Append(c, a)), b)
      BY <1>6, <1>9, <1>11
    <2>2. F(Append(c, a)) = MapMessage(s, a)
      BY <1>6, <1>8
    <2> QED BY <2>1, <2>2 DEF q, r
  <1>13. MapMessages(d) = Ends(d, r)
    BY <1>3, <1>12
  <1>14. Head(d).role = "user" /\ Last(d).role = "user"
    BY <1>7, <1>10, <1>11, HeadOfSeq DEF Last
  <1>15. ~MapMessages(d).refused
    BY <1>9, <1>11, <1>13, <1>14 DEF MapState
  <1>16. c \o MessagesTurn(parts) = d
    BY DEF MessagesTurn, d, a, b, answers, ids
  <1> QED BY <1>11, <1>15, <1>16

LEMMA ItemsAreReturned ==
    ASSUME NEW c \in Seq(Msg), ~MapItems(c).refused, NEW parts, IsSaid(parts),
           IsInjective(UseIds(parts)), ToSet(UseIds(parts)) \cap MapItems(c).known = {}
    PROVE  c \o ResponsesTurn(parts) \in Seq(Msg) /\ ~MapItems(c \o ResponsesTurn(parts)).refused
  <1> DEFINE ids == UseIds(parts)
             results == ResultParts(ids)
             F(u) == FoldLeft(MapItem, MessagesBegin, u)
             Ends(u, t) == [t EXCEPT !.refused = @ \/ u = <<>>]
             s == F(c)
             a == Each("assistant", parts)
             b == Each("item", results)
             q == Fold(ItemStep, s, a)
             r == Fold(ItemStep, q, b)
             d == c \o (a \o b)
  <1>1. parts \in Seq(Parts) /\ \A i \in 1 .. Len(parts) : parts[i].kind \in {"text", "use"}
    BY DEF IsSaid
  <1>2. ids \in Seq(CallIds) /\ "assistant" \in Roles /\ "item" \in Roles
    BY <1>1, UseIdsTyped DEF Roles
  <1>3. results \in Seq(Parts) /\ Len(results) = Len(ids)
        /\ \A i \in 1 .. Len(results) : results[i] = Part("result", ids[i])
    BY <1>2, ResultsTyped
  <1>b. \A i \in 1 .. Len(results) : results[i].kind = "result" /\ results[i].id = ids[i]
    <2> SUFFICES ASSUME NEW i \in 1 .. Len(results)
                 PROVE  results[i].kind = "result" /\ results[i].id = ids[i]
      OBVIOUS
    <2>1. results[i] = Part("result", ids[i])
      BY <1>3
    <2> QED BY ONLY <2>1 DEF Part
  <1>4. \A u : MapItems(u) = Ends(u, F(u))
    BY DEF MapItems
  <1>5. \A u \in Seq(Msg) : F(u) = Fold(ItemStep, MessagesBegin, u)
    BY StartsTyped, ItemsAreFold
  <1>6. \A u \in Seq(Msg) : F(u) \in MapState
    BY <1>5, StartsTyped, ItemIsStep, FoldSteps
  <1> HIDE DEF F
  <1>7. s \in MapState /\ ~s.refused /\ c # <<>> /\ MapItems(c).known = s.known
    <2>1. s \in MapState
      BY <1>6
    <2>2. MapItems(c) = Ends(c, s)
      BY <1>4
    <2> HIDE DEF s
    <2> QED BY <2>1, <2>2 DEF MapState
  <1>8. q \in MapState /\ ~q.refused /\ q.known = s.known \cup ToSet(ids)
    <2> HIDE DEF s
    <2> QED BY <1>1, <1>7, ItemsSaid
  <1>9. r \in MapState /\ ~r.refused
    <2>1. \A i \in 1 .. Len(results) : results[i].kind = "result" /\ results[i].id \in q.known
      <3> SUFFICES ASSUME NEW i \in 1 .. Len(results)
                   PROVE  results[i].kind = "result" /\ results[i].id \in q.known
        OBVIOUS
      <3>1. results[i].kind = "result" /\ results[i].id = ids[i]
        BY <1>b
      <3>2. ids[i] \in ToSet(ids)
        <4>1. DOMAIN ids = 1 .. Len(ids) /\ i \in 1 .. Len(ids)
          BY <1>2, <1>3, LenProperties
        <4> HIDE DEF ids
        <4> QED BY <4>1 DEF ToSet
      <3> QED BY <1>8, <3>1, <3>2
    <2> HIDE DEF q, results
    <2> QED BY <1>3, <1>8, <2>1, ItemsReturned
  <1>10. a \in Seq(Msg) /\ b \in Seq(Msg)
    BY <1>1, <1>2, <1>3, EachTyped
  <1> HIDE DEF a, b
  <1>11. a \o b \in Seq(Msg) /\ d \in Seq(Msg) /\ Len(d) = Len(c) + Len(a \o b)
    BY <1>10, ConcatProperties
  <1>12. d # <<>>
    <2>1. Len(c) \in Nat /\ Len(c) # 0 /\ Len(a \o b) \in Nat
      BY <1>7, <1>11, EmptySeq, LenProperties
    <2>2. Len(d) # 0
      BY <1>11, <2>1
    <2> QED BY <1>11, <2>2, EmptySeq
  <1>13. F(d) = r
    <2>1. Fold(ItemStep, MessagesBegin, d) = Fold(ItemStep, Fold(ItemStep, MessagesBegin, c), a \o b)
      <3> DEFINE e == a \o b
      <3>1. MessagesBegin \in MapState /\ ItemStep \in Steps(MapState, Msg) /\ e \in Seq(Msg)
        BY <1>11, StartsTyped, ItemIsStep
      <3>2. c \in Seq(Msg)
        OBVIOUS
      <3> HIDE DEF e
      <3>3. Fold(ItemStep, MessagesBegin, c \o e) = Fold(ItemStep, Fold(ItemStep, MessagesBegin, c), e)
        BY ONLY <3>1, <3>2, FoldOfConcat
      <3> QED BY <3>3 DEF e
    <2>2. Fold(ItemStep, MessagesBegin, c) = s /\ F(d) = Fold(ItemStep, MessagesBegin, d)
      <3> HIDE DEF d
      <3> QED BY <1>5, <1>11
    <2>3. Fold(ItemStep, s, a \o b) = Fold(ItemStep, Fold(ItemStep, s, a), b)
      <3> HIDE DEF s
      <3> QED BY <1>7, <1>10, ItemIsStep, FoldOfConcat
    <2> HIDE DEF d, s
    <2> QED BY <2>1, <2>2, <2>3
  <1> HIDE DEF d, r
  <1>14. MapItems(d) = Ends(d, r)
    BY <1>4, <1>13
  <1>15. ~MapItems(d).refused
    BY <1>9, <1>12, <1>14 DEF MapState
  <1>16. c \o ResponsesTurn(parts) = d
    BY DEF ResponsesTurn, d, a, b, results, ids
  <1> QED BY <1>11, <1>15, <1>16

LEMMA OneBefore ==
    ASSUME NEW S, NEW e \in S, NEW s \in Seq(S), NEW n \in Nat, Len(s) = n
    PROVE  LET t == <<e>> \o s
           IN  /\ t \in Seq(S) /\ Len(t) = 1 + n /\ t[1] = e
               /\ \A i \in 1 .. n : t[1 + i] = s[i]
  OBVIOUS

LEMMA OneBetween ==
    ASSUME NEW S, NEW s \in Seq(S), NEW e \in S, NEW t \in Seq(S)
    PROVE  s \o (<<e>> \o t) = Append(s, e) \o t /\ Append(s, e) \in Seq(S)
  OBVIOUS

LEMMA ChatReturned ==
    ASSUME NEW c \in Seq(Msg), NEW parts, IsSaid(parts)
    PROVE  c \o ChatTurn(parts) \in Seq(Msg) /\ ~MapChat(c \o ChatTurn(parts)).refused
  <1> DEFINE ids == UseIds(parts)
             results == ResultParts(ids)
             a == Message("assistant", parts)
             one == <<a>>
             b == Each("tool", results)
             d == c \o (one \o b)
  <1>1. parts \in Seq(Parts) /\ parts # <<>> /\ "assistant" \in Roles /\ "tool" \in Roles
    BY DEF IsSaid, Roles
  <1>2. results \in Seq(Parts)
    BY <1>1, UseIdsTyped, ResultsTyped
  <1>3. a \in Msg
    BY <1>1, MessageTyped
  <1>4. b \in Seq(Msg)
    BY <1>1, <1>2, EachTyped
  <1> HIDE DEF a, b
  <1>5. one \in Seq(Msg) /\ Len(one) = 1
    BY <1>3, OneIsList
  <1> HIDE DEF one
  <1>6. one \o b \in Seq(Msg) /\ Len(one \o b) = 1 + Len(b) /\ d \in Seq(Msg)
        /\ Len(d) = Len(c) + Len(one \o b)
    <2> DEFINE e == one \o b
    <2>1. e \in Seq(Msg) /\ Len(e) = Len(one) + Len(b)
      BY ONLY <1>4, <1>5, ConcatProperties
    <2>2. c \in Seq(Msg)
      OBVIOUS
    <2> HIDE DEF e
    <2>3. c \o e \in Seq(Msg) /\ Len(c \o e) = Len(c) + Len(e)
      BY ONLY <2>1, <2>2, ConcatProperties
    <2>4. Len(e) = 1 + Len(b)
      BY <1>5, <2>1
    <2> QED BY <2>1, <2>3, <2>4 DEF e
  <1>7. d # <<>>
    <2>1. Len(c) \in Nat /\ Len(b) \in Nat
      BY <1>4, LenProperties
    <2>2. Len(d) = Len(c) + (1 + Len(b))
      BY <1>6
    <2>3. Len(d) # 0
      BY ONLY <2>1, <2>2
    <2> QED BY <1>6, <2>3, EmptySeq
  <1> HIDE DEF d
  <1>8. ~MapChat(d).refused
    BY <1>7 DEF MapChat, MessagesBegin
  <1>9. c \o ChatTurn(parts) = d
    BY DEF ChatTurn, d, one, a, b, results, ids
  <1> QED BY <1>6, <1>8, <1>9

\* the messages that normalizeMessages makes of the turn of chat
LEMMA ChatTurnMapped ==
    ASSUME NEW parts, IsSaid(parts)
    PROVE  LET ids == UseIds(parts)
           IN  MapChat(ChatTurn(parts)).out =
                  <<System>> \o (<<ToUpstream("assistant", ids, "")>> \o ToolsOf(ids))
  <1> DEFINE ids == UseIds(parts)
             results == ResultParts(ids)
             N == Len(ids)
             a == Message("assistant", parts)
             b == Each("tool", results)
             say == ToUpstream("assistant", ids, "")
             turn == <<a>> \o b
             E(m) == ToUpstream(ToSystem(m.role), IdsOf(OfKind(m.parts, "use")),
                        IF IdsOf(OfKind(m.parts, "result")) = <<>> THEN ""
                        ELSE IdsOf(OfKind(m.parts, "result"))[1])
             out == [k \in DOMAIN turn |-> E(turn[k])]
             want == <<say>> \o ToolsOf(ids)
  <1>1. parts \in Seq(Parts) /\ parts # <<>> /\ "assistant" \in Roles /\ "tool" \in Roles
    BY DEF IsSaid, Roles
  <1>2. ids \in Seq(CallIds) /\ N \in Nat /\ DOMAIN ids = 1 .. N /\ \A i \in 1 .. N : ids[i] \in CallIds
    BY <1>1, UseIdsTyped, LenProperties, ElementOfSeq
  <1>3. OfKind(parts, "result") = <<>>
    BY SaidKinds
  <1>4. IdsOf(OfKind(parts, "use")) = ids
    BY DEF UseIds
  <1> HIDE DEF ids, N
  <1>5. results \in Seq(Parts) /\ Len(results) = N /\ DOMAIN results = 1 .. N
        /\ \A i \in 1 .. N : results[i] = Part("result", ids[i])
    <2>1. results \in Seq(Parts) /\ Len(results) = N
          /\ \A i \in 1 .. Len(results) : results[i] = Part("result", ids[i])
      BY <1>2, ResultsTyped DEF N
    <2> HIDE DEF results
    <2> QED BY <2>1, LenProperties
  <1> HIDE DEF results
  <1>6. b \in Seq(Msg) /\ Len(b) = N /\ \A i \in 1 .. N : b[i] = Message("tool", <<results[i]>>)
    <2>1. b \in Seq(Msg) /\ Len(b) = N
      BY <1>1, <1>5, EachTyped
    <2> QED BY <1>5, <2>1 DEF Each
  <1>7. a \in Msg /\ a.role = "assistant" /\ a.parts = parts
    BY <1>1, MessageTyped DEF Message
  <1>8. E(a) = say
    BY <1>3, <1>4, <1>7, NoIds DEF ToSystem
  <1>9. ASSUME NEW i \in 1 .. N PROVE E(b[i]) = ToUpstream("tool", <<>>, ids[i])
    <2> DEFINE p == Part("result", ids[i])
               one == <<p>>
    <2>1. p \in Parts /\ p.kind = "result" /\ p.id = ids[i]
      BY <1>2, WordsAreParts DEF Part
    <2>2. b[i].role = "tool" /\ b[i].parts = one
      <3>1. results[i] = p /\ b[i] = Message("tool", <<results[i]>>)
        BY <1>5, <1>6
      <3>2. b[i] = Message("tool", one)
        BY <3>1
      <3> HIDE DEF one, b
      <3> QED BY <3>2 DEF Message
    <2>3. one \in Seq(Parts) /\ Len(one) = 1 /\ one[1] = p /\ DOMAIN one = 1 .. 1
      BY <2>1
    <2> HIDE DEF one, p
    <2>4. \A n \in 1 .. 1 : n = 1
      OBVIOUS
    <2>5. OfKind(one, "result") = one
      BY <2>1, <2>3, <2>4, AllOfKind
    <2>6. OfKind(one, "use") = <<>>
      <3>1. \A n \in 1 .. Len(one) : one[n].kind # "use"
        BY <2>1, <2>3, <2>4
      <3> QED BY <2>3, <3>1, AllOfKind
    <2>7. IdsOf(one) # <<>> /\ IdsOf(one)[1] = ids[i]
      <3>1. IdsOf(one) = [n \in 1 .. 1 |-> one[n].id]
        BY <2>3 DEF IdsOf
      <3>2. 1 \in 1 .. 1 /\ IdsOf(one)[1] = ids[i]
        BY <2>1, <2>3, <3>1
      <3>3. DOMAIN IdsOf(one) # {}
        BY <3>1, <3>2
      <3>4. \A f : DOMAIN f # {} => f # <<>>
        OBVIOUS
      <3> QED BY <3>2, <3>3, <3>4
    <2> QED BY <2>2, <2>5, <2>6, <2>7, NoIds DEF ToSystem
  <1> HIDE DEF a, b, E, say
  <1>10. say \in UpMsg /\ ToolsOf(ids) \in Seq(UpMsg) /\ Len(ToolsOf(ids)) = N
         /\ \A i \in 1 .. N : ToolsOf(ids)[i] = ToUpstream("tool", <<>>, ids[i])
    <2>1. say \in UpMsg
      BY <1>1, <1>2, SayTyped DEF say
    <2>2. \A i \in 1 .. N : ToolsOf(ids)[i] = ToUpstream("tool", <<>>, ids[i])
      BY <1>2 DEF ToolsOf
    <2> QED BY <1>2, <2>1, <2>2, ToolsTyped DEF N
  <1>11. /\ turn \in Seq(Msg) /\ Len(turn) = 1 + N /\ turn[1] = a
         /\ \A i \in 1 .. N : turn[1 + i] = b[i]
    BY <1>2, <1>6, <1>7, OneBefore
  <1>12. /\ want \in Seq(UpMsg) /\ Len(want) = 1 + N /\ want[1] = say
         /\ \A i \in 1 .. N : want[1 + i] = ToUpstream("tool", <<>>, ids[i])
    <2> DEFINE tools == ToolsOf(ids)
    <2>1. tools \in Seq(UpMsg) /\ Len(tools) = N /\ \A i \in 1 .. N : tools[i] = ToUpstream("tool", <<>>, ids[i])
      BY <1>10
    <2> HIDE DEF tools
    <2>2. LET w == <<say>> \o tools
          IN  /\ w \in Seq(UpMsg) /\ Len(w) = 1 + N /\ w[1] = say
              /\ \A i \in 1 .. N : w[1 + i] = tools[i]
      BY <1>2, <1>10, <2>1, OneBefore
    <2> QED BY <2>1, <2>2 DEF tools
  <1> HIDE DEF turn, want
  <1>13. DOMAIN turn = 1 .. 1 + N /\ DOMAIN want = 1 .. 1 + N
    <2>1. \A S : \A s \in Seq(S) : DOMAIN s = 1 .. Len(s)
      BY LenProperties
    <2> QED BY <1>11, <1>12, <2>1
  <1>14. \A k \in 1 .. 1 + N : E(turn[k]) = want[k]
    <2> SUFFICES ASSUME NEW k \in 1 .. 1 + N PROVE E(turn[k]) = want[k]
      OBVIOUS
    <2>1. CASE k = 1
      BY <1>8, <1>11, <1>12, <2>1
    <2>2. CASE k # 1
      <3>1. k - 1 \in 1 .. N /\ 1 + (k - 1) = k
        BY <1>2, <2>2
      <3> QED BY <1>9, <1>11, <1>12, <3>1
    <2> QED BY <2>1, <2>2
  <1>15. want = [k \in 1 .. 1 + N |-> want[k]]
    <2>1. want \in [1 .. Len(want) -> UpMsg]
      BY <1>12, LenProperties
    <2> QED BY <1>12, <2>1
  <1>16. out = want
    BY <1>13, <1>14, <1>15
  <1>17. MapChat(turn).out =
           IF turn # <<>> /\ Head(out).role = "system" THEN out ELSE <<System>> \o out
    BY DEF MapChat, MessagesBegin, E
  <1>18. Head(want).role = "assistant"
    <2>1. say.role = "assistant"
      BY DEF say, ToUpstream
    <2> QED BY <1>12, <2>1, HeadOfSeq
  <1>19. MapChat(turn).out = <<System>> \o want
    <2> HIDE DEF out
    <2> QED BY <1>16, <1>17, <1>18
  <1>20. ChatTurn(parts) = turn
    BY DEF ChatTurn, turn, a, b, results, ids
  <1> QED BY <1>19, <1>20 DEF want, say, ids

\* it is one that the upstream takes
LEMMA ChatTurnTaken ==
    ASSUME NEW parts, IsSaid(parts), IsInjective(UseIds(parts))
    PROVE  LET y == Taken(MapChat(ChatTurn(parts)).out) IN y.ok /\ y.prompt /\ y.open = {}
  <1> DEFINE ids == UseIds(parts)
             say == ToUpstream("assistant", ids, "")
             begun == Append(<<System>>, say)
             tools == ToolsOf(ids)
             out == MapChat(ChatTurn(parts)).out
             x == TakenOf(<<System>>)
  <1>1. ids \in Seq(CallIds) /\ IsInjective(ids)
    BY UseIdsTyped DEF IsSaid
  <1>2. out = <<System>> \o (<<say>> \o tools)
    BY ChatTurnMapped
  <1> HIDE DEF ids, out
  <1>3. System \in UpMsg /\ say \in UpMsg /\ tools \in Seq(UpMsg)
    BY <1>1, PlainTyped, SayTyped, ToolsTyped DEF System, Roles
  <1>4. <<System>> \in Seq(UpMsg) /\ x.ok /\ x.prompt /\ x.made = {} /\ x.open = {}
    <2>1. <<System>> \in Seq(UpMsg)
      BY <1>3, OneIsList
    <2> QED BY <2>1, BeginAgrees DEF Agrees, MessagesBegin
  <1>5. TakenOf(begun) = Take(x, say)
    BY <1>3, <1>4, TakenOfAppend
  <1>6. say.answers = "" /\ say.calls = ids
    BY DEF ToUpstream
  <1> HIDE DEF say, tools, x
  <1>7. LET y == TakenOf(begun) IN y.ok /\ y.prompt /\ y.made = ToSet(ids) /\ y.open = ToSet(ids)
    <2>1. Take(x, say) = [ok |-> x.ok, made |-> x.made \cup ToSet(say.calls),
                          prompt |-> x.prompt /\ x.open = {}, open |-> ToSet(say.calls)]
      BY <1>6 DEF Take
    <2> DEFINE y == Take(x, say)
    <2>2. y.ok = x.ok /\ y.prompt = (x.prompt /\ x.open = {})
          /\ y.made = x.made \cup ToSet(say.calls) /\ y.open = ToSet(say.calls)
      BY <2>1
    <2> HIDE DEF y
    <2>3. y.ok /\ y.prompt /\ y.made = ToSet(ids) /\ y.open = ToSet(ids)
      BY <1>4, <1>6, <2>2
    <2> QED BY <1>5, <2>3 DEF y
  <1>8. out = begun \o tools /\ begun \in Seq(UpMsg)
    <2> DEFINE one == <<System>>
    <2>1. one \in Seq(UpMsg)
      BY <1>4
    <2> HIDE DEF one
    <2>2. one \o (<<say>> \o tools) = Append(one, say) \o tools /\ Append(one, say) \in Seq(UpMsg)
      BY <1>3, <2>1, OneBetween
    <2> QED BY <1>2, <2>2 DEF one
  <1> HIDE DEF begun
  <1>9. LET y == TakenOf(begun \o tools) IN y.ok /\ y.prompt /\ y.open = {}
    BY <1>1, <1>7, <1>8, ToolsTaken DEF tools
  <1>10. out \in Seq(UpMsg)
    BY <1>3, <1>8, ConcatProperties
  <1>11. Taken(out) = TakenOf(out)
    BY <1>10, TakenIsTakenOf
  <1> QED BY <1>8, <1>9, <1>11 DEF out

-----------------------------------------------------------------------------
(* Every step keeps the invariant *)

\* a builder that has just started, in the phase "asking" or "answering"
LEMMA BuilderHolds ==
    ASSUME route \in Routes
    PROVE  /\ route = "chat" => ChatHolds(Builder, TRUE)
           /\ route = "responses" => ResponsesHolds(Builder, TRUE)
           /\ route = "messages" => Builder \in MessagesState
  <1>1. CASE route = "chat"
    BY <1>1, ChatStartHolds DEF Builder
  <1>2. CASE route = "responses"
    BY <1>2, ResponsesStartHolds DEF Builder
  <1>3. CASE route = "messages"
    BY <1>3, MessagesStartTyped DEF Builder, MessagesState
  <1> QED BY <1>1, <1>2, <1>3 DEF Routes

LEMMA NoFirstFrames == ASSUME NEW c PROVE FirstFramesTell(c) <=> Tells(IndexSet(answer.calls), c.calls)
  BY DEF FirstFramesTell, Tells, Begun, IndexSet

LEMMA InOrderIsInOrder ==
    ASSUME NEW c
    PROVE  FirstFramesTell(c) /\ InOrder(c) <=> ComesInOrder(answer, c)
  BY DEF InOrder, FirstFramesTell, Tells, Turns, Begun, IndexSet, ComesInOrder

LEMMA InitHolds == Init => ExchangeInv
  <1> SUFFICES ASSUME Init PROVE ExchangeInv
    OBVIOUS
  <1>1. bound \in Bounds /\ route \in Routes
    BY BoundsAreKnown DEF Init
  <1>2. ExchangeTyped
    BY <1>1, EmptySeq DEF Init, ExchangeTyped
  <1>3. AnswerHolds
    BY <1>1, BuilderHolds DEF Init, AnswerHolds
  <1> QED BY <1>2, <1>3 DEF ExchangeInv, AnsweredHolds, RequestHolds, Init

LEMMA SayHolds ==
    ASSUME ExchangeInv, Say
    PROVE  ExchangeInv'
  <1>0. PICK m \in ClientMessages : conversation' = Append(conversation, m)
    BY DEF Say
  <1>1. m \in Msg
    BY ClientIsTyped DEF ExchangeInv, ExchangeTyped
  <1>2. ExchangeTyped'
    BY <1>0, <1>1, AppendProperties DEF Say, ExchangeInv, ExchangeTyped
  <1>3. AnswerHolds'
    BY DEF Say, ExchangeInv, AnswerHolds
  <1> QED BY <1>2, <1>3 DEF Say, ExchangeInv, AnsweredHolds, RequestHolds

LEMMA AskHolds ==
    ASSUME ExchangeInv, Ask
    PROVE  ExchangeInv'
  <1>1. ExchangeTyped'
    BY DEF Ask, ExchangeInv, ExchangeTyped
  <1>2. answer' = Builder /\ tidy' = TRUE /\ orderly' = TRUE /\ phase' = "answering" /\ route' = route
    BY DEF Ask
  <1>3. AnswerHolds'
    BY <1>2, BuilderHolds DEF ExchangeInv, ExchangeTyped, AnswerHolds
  <1>4. RequestHolds'
    BY DEF Ask, RequestHolds, Mapped
  <1> QED BY <1>1, <1>2, <1>3, <1>4 DEF ExchangeInv, AnsweredHolds

LEMMA ChunkHolds ==
    ASSUME ExchangeInv, NEW c \in Chunks, Chunk(c)
    PROVE  ExchangeInv'
  <1>1. c \in UpstreamChunk
    BY ChunksAreChunks
  <1>2. phase = "answering" /\ phase' = phase /\ route' = route /\ conversation' = conversation
        /\ bound' = bound /\ ~answer.failed
        /\ tidy' = (tidy /\ (route = "messages" \/ FirstFramesTell(c)))
        /\ orderly' = (orderly /\ (route = "responses" => InOrder(c)))
    BY DEF Chunk
  <1>3. ExchangeTyped'
    BY <1>2 DEF ExchangeInv, ExchangeTyped
  <1>4. route = "chat" => ChatHolds(answer', tidy')
    <2> SUFFICES ASSUME route = "chat" PROVE ChatHolds(answer', tidy')
      OBVIOUS
    <2>1. answer' = ChatPush(answer, c)
      BY DEF Chunk
    <2>2. ChatHolds(answer, tidy) /\ tidy \in BOOLEAN
      BY DEF ExchangeInv, AnswerHolds, ExchangeTyped
    <2>3. ChatHolds(ChatPush(answer, c), tidy /\ Tells(IndexSet(answer.calls), c.calls))
      BY <1>1, <1>2, <2>2, ChatPushHolds
    <2>4. tidy' = (tidy /\ Tells(IndexSet(answer.calls), c.calls))
      BY <1>2, NoFirstFrames
    <2> QED BY <2>1, <2>3, <2>4
  <1>5. route = "responses" => ResponsesHolds(answer', tidy' /\ orderly')
    <2> SUFFICES ASSUME route = "responses" PROVE ResponsesHolds(answer', tidy' /\ orderly')
      OBVIOUS
    <2>1. answer' = ResponsesPush(answer, c)
      BY DEF Chunk
    <2> DEFINE told == tidy /\ orderly
    <2>2. ResponsesHolds(answer, told) /\ told \in BOOLEAN
      BY DEF ExchangeInv, AnswerHolds, ExchangeTyped
    <2>3. (tidy' /\ orderly') = (told /\ ComesInOrder(answer, c))
      BY <1>2, InOrderIsInOrder
    <2> HIDE DEF told
    <2>4. ResponsesHolds(ResponsesPush(answer, c), told /\ ComesInOrder(answer, c))
      BY <1>1, <2>2, ResponsesPushHolds
    <2> QED BY <2>1, <2>3, <2>4
  <1>6. route = "messages" => answer' \in MessagesState
    <2> SUFFICES ASSUME route = "messages" PROVE answer' \in MessagesState
      OBVIOUS
    <2>1. answer' = MessagesPush(answer, c)
      BY DEF Chunk
    <2>2. answer \in MessagesState
      BY <1>2 DEF ExchangeInv, AnswerHolds
    <2> QED BY <1>1, <1>2, <2>1, <2>2, MessagesPushTyped
  <1>7. AnswerHolds'
    BY <1>2, <1>4, <1>5, <1>6 DEF AnswerHolds
  <1>8. RequestHolds'
    BY <1>2 DEF ExchangeInv, RequestHolds, Mapped
  <1> QED BY <1>2, <1>3, <1>7, <1>8 DEF ExchangeInv, AnsweredHolds

LEMMA EndHolds ==
    ASSUME ExchangeInv, End
    PROVE  ExchangeInv'
  <1>1. phase = "answering" /\ route' = route /\ conversation' = conversation
        /\ bound' = bound /\ tidy' = tidy /\ orderly' = orderly
        /\ phase' = (IF Succeeds THEN "answered" ELSE "failed")
        /\ answer' = (IF Succeeds /\ route = "messages" THEN MessagesFinish(answer) ELSE answer)
    BY DEF End
  <1>2. ExchangeTyped'
    BY <1>1 DEF ExchangeInv, ExchangeTyped
  <1>3. AnswerHolds'
    <2>1. CASE route = "messages" /\ Succeeds
      <3>1. MessagesSucceeds(answer) /\ answer \in MessagesState
        BY <1>1, <2>1 DEF Succeeds, ExchangeInv, AnswerHolds
      <3>2. answer \in MessagesType /\ Shown(answer) /\ Assembles(answer)
        BY <3>1 DEF MessagesState, MessagesSucceeds
      <3>3. FinishedMessages(MessagesFinish(answer))
        BY <3>2, FinishedAgrees DEF FinishedMessages
      <3>4. answer' = MessagesFinish(answer) /\ phase' = "answered" /\ route' = "messages"
        BY <1>1, <2>1
      <3> QED BY <3>3, <3>4 DEF AnswerHolds, FinishedMessages
    <2>2. CASE ~(route = "messages" /\ Succeeds)
      <3>1. answer' = answer
        BY <1>1, <2>2
      <3>2. route = "messages" => phase' = "failed"
        BY <1>1, <2>2
      <3> QED BY <1>1, <3>1, <3>2 DEF ExchangeInv, AnswerHolds
    <2> QED BY <2>1, <2>2
  <1>4. AnsweredHolds'
    <2> SUFFICES ASSUME phase' = "answered", route # "messages"
                 PROVE  /\ route = "chat" => ChatSucceeds(answer)
                        /\ route = "responses" => ResponsesSucceeds(answer)
      BY <1>1 DEF AnsweredHolds
    <2>1. Succeeds
      BY <1>1
    <2> QED BY <2>1 DEF Succeeds
  <1>5. RequestHolds'
    BY <1>1 DEF ExchangeInv, RequestHolds, Mapped
  <1> QED BY <1>2, <1>3, <1>4, <1>5 DEF ExchangeInv

\* the request that returns an answer is well formed and accepted
LEMMA TurnAccepted ==
    ASSUME ExchangeInv, Return
    PROVE  conversation \o NextTurn \in Seq(Msg) /\ ~Mapped(conversation \o NextTurn).refused
  <1> DEFINE parts == AnswerParts
             ids == IdsOf(OfKind(AnswerParts, "use"))
  <1>1. phase = "answered" /\ AnswerParts # <<>>
        /\ ToSet(ids) \cap Mapped(conversation).known = {}
        /\ (route = "responses" => Cardinality(ToSet(ids)) = Len(ids))
    BY DEF Return
  <1>2. IsSaid(parts) /\ (route = "messages" => OwnUses(parts))
    BY <1>1, AnswerIsSaid
  <1>3. ids = UseIds(parts)
    BY DEF UseIds
  <1>4. conversation \in Seq(Msg) /\ ~Mapped(conversation).refused
    BY <1>1 DEF ExchangeInv, ExchangeTyped, RequestHolds
  <1>5. /\ route = "messages" => NextTurn = MessagesTurn(parts)
        /\ route = "responses" => NextTurn = ResponsesTurn(parts)
        /\ route = "chat" => NextTurn = ChatTurn(parts)
    BY <1>2, NextTurnByRoute DEF IsSaid
  <1> HIDE DEF parts, ids
  <1>6. CASE route = "messages"
    <2>1. \A c : Mapped(c) = MapMessages(c)
      BY <1>6 DEF Mapped
    <2>2. ~MapMessages(conversation).refused /\ OwnUses(parts)
          /\ ToSet(UseIds(parts)) \cap MapMessages(conversation).known = {}
      BY <1>1, <1>2, <1>3, <1>4, <1>6, <2>1
    <2>3. conversation \o MessagesTurn(parts) \in Seq(Msg)
          /\ ~MapMessages(conversation \o MessagesTurn(parts)).refused
      BY <1>2, <1>4, <2>2, MessagesReturned
    <2> QED BY <1>5, <1>6, <2>1, <2>3
  <1>7. CASE route = "responses"
    <2>1. \A c : Mapped(c) = MapItems(c)
      BY <1>7 DEF Mapped
    <2>2. UseIds(parts) \in Seq(CallIds)
      BY <1>2, UseIdsTyped DEF IsSaid
    <2>3. ~MapItems(conversation).refused /\ IsInjective(UseIds(parts))
          /\ ToSet(UseIds(parts)) \cap MapItems(conversation).known = {}
      BY <1>1, <1>3, <1>4, <1>7, <2>1, <2>2, ElementsOfList
    <2>4. conversation \o ResponsesTurn(parts) \in Seq(Msg)
          /\ ~MapItems(conversation \o ResponsesTurn(parts)).refused
      BY <1>2, <1>4, <2>3, ItemsAreReturned
    <2> QED BY <1>5, <1>7, <2>1, <2>4
  <1>8. CASE route = "chat"
    <2>1. \A c : Mapped(c) = MapChat(c)
      BY <1>8 DEF Mapped
    <2>2. conversation \o ChatTurn(parts) \in Seq(Msg)
          /\ ~MapChat(conversation \o ChatTurn(parts)).refused
      BY <1>2, <1>4, ChatReturned
    <2> QED BY <1>5, <1>8, <2>1, <2>2
  <1> QED BY <1>6, <1>7, <1>8 DEF ExchangeInv, ExchangeTyped, Routes

\* and the turn of chat one that the upstream takes
LEMMA ChatTurnIsSound ==
    ASSUME ExchangeInv, Return, route = "chat"
    PROVE  TurnIsSound
  <1>1. phase = "answered" /\ AnswerParts # <<>>
    BY DEF Return
  <1>2. IsSaid(AnswerParts) /\ OwnUses(AnswerParts)
    BY <1>1, AnswerIsSaid
  <1>3. AnswerParts \in Seq(Parts)
    BY <1>2 DEF IsSaid
  <1>4. NextTurn = ChatTurn(AnswerParts) /\ IsInjective(UseIds(AnswerParts))
    BY <1>2, <1>3, NextTurnByRoute, OwnUsesDiffer
  <1>5. Mapped(NextTurn) = MapChat(ChatTurn(AnswerParts))
    BY <1>4 DEF Mapped
  <1> QED BY <1>2, <1>4, <1>5, ChatTurnTaken DEF TurnIsSound

LEMMA ReturnHolds ==
    ASSUME ExchangeInv, Return
    PROVE  ExchangeInv'
  <1> DEFINE c == conversation \o NextTurn
  <1>1. c \in Seq(Msg)
    BY TurnAccepted
  <1>2. conversation' = c /\ phase' = "asking" /\ route' = route /\ bound' = bound
        /\ answer' = Builder /\ tidy' = TRUE /\ orderly' = TRUE
    BY DEF Return
  <1> HIDE DEF c
  <1>3. ExchangeTyped'
    BY <1>1, <1>2 DEF ExchangeInv, ExchangeTyped
  <1>4. AnswerHolds'
    BY <1>2, BuilderHolds DEF ExchangeInv, ExchangeTyped, AnswerHolds
  <1>5. RequestHolds'
    BY <1>2 DEF RequestHolds
  <1> QED BY <1>2, <1>3, <1>4, <1>5 DEF ExchangeInv, AnsweredHolds

LEMMA ReturnAsGivenHolds ==
    ASSUME ExchangeInv, ReturnAsGiven
    PROVE  ExchangeInv'
  <1>1. phase' = "refused" /\ ~TakesAsGiven /\ UNCHANGED <<bound, route, conversation, answer, tidy, orderly>>
    BY DEF ReturnAsGiven
  <1>2. ExchangeTyped'
    BY <1>1 DEF ExchangeInv, ExchangeTyped
  <1>3. AnswerHolds'
    BY <1>1 DEF ExchangeInv, AnswerHolds, TakesAsGiven
  <1> QED BY <1>1, <1>2, <1>3 DEF ExchangeInv, AnsweredHolds, RequestHolds

LEMMA SameHolds ==
    ASSUME ExchangeInv, UNCHANGED exchangeVars
    PROVE  ExchangeInv'
  BY DEF exchangeVars, ExchangeInv, ExchangeTyped, AnswerHolds, AnsweredHolds, RequestHolds, Mapped

LEMMA StepHolds == ExchangeInv /\ [Next]_vars => ExchangeInv'
  <1> SUFFICES ASSUME ExchangeInv, [Next]_vars PROVE ExchangeInv'
    OBVIOUS
  <1>1. CASE Say
    BY <1>1, SayHolds
  <1>2. ASSUME NEW c \in Chunks, Chunk(c) PROVE ExchangeInv'
    BY <1>2, ChunkHolds
  <1>3. CASE Ask
    BY <1>3, AskHolds
  <1>4. CASE End
    BY <1>4, EndHolds
  <1>5. CASE Return
    BY <1>5, ReturnHolds
  <1>6. CASE ReturnAsGiven
    BY <1>6, ReturnAsGivenHolds
  <1>7. CASE Wire
    BY <1>7, SameHolds DEF Wire
  <1>8. CASE UNCHANGED vars
    BY <1>8, SameHolds DEF vars
  <1> QED BY <1>1, <1>2, <1>3, <1>4, <1>5, <1>6, <1>7, <1>8 DEF Next

\* The conversation is a list of messages that the schemas let pass, the builder is
\* one the chunks so far make of its start, an answer that is given has all a call
\* needs, and a request under way was accepted (routes/*.ts).
THEOREM ExchangeInvariant == Spec => []ExchangeInv
  <1>1. Init => ExchangeInv
    BY InitHolds
  <1>2. ExchangeInv /\ [Next]_vars => ExchangeInv'
    BY StepHolds
  <1> QED BY <1>1, <1>2, PTL DEF Spec

LEMMA InvMeansStreamsAgree == ExchangeInv => StreamsAgree
  <1> SUFFICES ASSUME ExchangeInv PROVE StreamsAgree
    OBVIOUS
  <1>1. CASE route = "chat"
    <2>1. ChatHolds(answer, tidy)
      BY <1>1 DEF ExchangeInv, AnswerHolds
    <2>2. ASSUME tidy, ChatSucceeds(answer)
          PROVE  /\ ChatStreamed(answer) = Answer(answer.text, Sorted(answer.calls), answer.finish)
                 /\ Complete(answer) => ChatStreamed(answer) = ChatAnswer(answer)
      BY <2>1, <2>2, ChatAgree
    <2> QED BY <1>1, <2>2 DEF StreamsAgree, ChatAgrees
  <1>2. CASE route = "responses"
    <2>1. ResponsesHolds(answer, tidy /\ orderly)
      BY <1>2 DEF ExchangeInv, AnswerHolds
    <2>2. ASSUME tidy /\ orderly PROVE ResponsesHolds(answer, TRUE)
      BY <2>1, <2>2 DEF ResponsesHolds
    <2>3. ResponsesAgree
      BY <2>2, ResponsesAgrees DEF ResponsesAgree
    <2> QED BY <1>2, <2>3 DEF StreamsAgree
  <1>3. CASE route = "messages"
    <2> SUFFICES ASSUME MessagesSucceeds(answer)
                 PROVE  LET done == IF answer.finished THEN answer ELSE MessagesFinish(answer)
                        IN  done.sane /\ done.view = done.blocks
      BY <1>3 DEF StreamsAgree, MessagesAgree
    <2>1. CASE phase = "answered"
      BY <1>3, <2>1 DEF ExchangeInv, AnswerHolds, FinishedMessages
    <2>2. CASE phase # "answered"
      <3>1. answer \in MessagesType /\ Shown(answer) /\ Assembles(answer)
        BY <1>3, <2>2 DEF ExchangeInv, AnswerHolds, MessagesState, MessagesSucceeds
      <3>2. ~answer.finished
        BY <3>1 DEF Shown
      <3> QED BY <3>1, <3>2, FinishedAgrees
    <2> QED BY <2>1, <2>2
  <1> QED BY <1>1, <1>2, <1>3 DEF ExchangeInv, ExchangeTyped, Routes

\* Whatever the upstream sends, streamed or not the client gets the same answer: of
\* messages always, of responses under what the builders say of the frames.  Of chat,
\* under the same, a stream has exactly what the upstream sent, and so the aggregated
\* answer if the upstream sent the stop reason and the arguments of every call
\* (openai/response-builder.ts, anthropic/response-builder.ts,
\* openai/responses-builder.ts with routes/responses.ts).
THEOREM StreamedOrNot == Spec => []StreamsAgree
  <1>1. ExchangeInv => StreamsAgree
    BY InvMeansStreamsAgree
  <1> QED BY <1>1, ExchangeInvariant, PTL

\* Whatever the client says, a request that the mapper of its route accepts keeps
\* the upstream's rules: a system message leads it, a result names an earlier call,
\* and of messages every call is answered at once (the three request mappers).
THEOREM AcceptedIsSound == Spec => []RequestsAreSound
  <1>1. ExchangeInv => RequestsAreSound
    BY SoundRequests DEF ExchangeInv, ExchangeTyped
  <1> QED BY <1>1, ExchangeInvariant, PTL

\* An answer that a builder gave can be returned with the results of its calls,
\* however many turns there were before: the mappers of messages and responses accept
\* the conversation (of responses with the items that the client makes of it), and
\* what the mapper of chat makes of the turn is a list of messages that the upstream
\* takes, for the aggregated tool calls have ids of their own (openai/tool-calls.ts).
THEOREM AnswersAreHistory == Spec => AnswersCanBeReturned
  <1>1. ASSUME ExchangeInv, Return
        PROVE  IF route = "chat" THEN TurnIsSound ELSE ~Mapped(conversation').refused
    <2>1. conversation' = conversation \o NextTurn /\ route' = route
      BY <1>1 DEF Return
    <2>2. ~Mapped(conversation').refused
      BY <1>1, <2>1, TurnAccepted
    <2>3. ASSUME route = "chat" PROVE TurnIsSound
      BY <1>1, <2>3, ChatTurnIsSound
    <2> QED BY <2>2, <2>3
  <1>2. ExchangeInv /\ [Next]_vars =>
          [Return => IF route = "chat" THEN TurnIsSound ELSE ~Mapped(conversation').refused]_vars
    BY <1>1
  <1> QED BY <1>2, ExchangeInvariant, PTL DEF Spec, AnswersCanBeReturned

\* the parser takes its steps beside an exchange
ParserAndExchange == ParserInv /\ ExchangeInv

LEMMA WireKeeps ==
    ASSUME ParserInv, ExchangeInv, Wire
    PROVE  ParserInv'
  <1>1. CASE \E t \in bound.tokens : Len(received \o coming) < bound.text /\ Send(t)
    <2>1. PICK t \in bound.tokens : Send(t)
      BY <1>1
    <2>2. t \in STRING
      BY BoundsAreKnown DEF ExchangeInv, ExchangeTyped
    <2> QED BY <2>1, <2>2, SendKeeps
  <1> QED BY <1>1, PushKeeps, FlushKeeps DEF Wire

LEMMA ParserStep == ParserAndExchange /\ [Next]_vars => ParserAndExchange'
  <1> SUFFICES ASSUME ParserInv, ExchangeInv, [Next]_vars PROVE ParserInv'
    BY StepHolds DEF ParserAndExchange
  <1>1. CASE Wire
    BY <1>1, WireKeeps
  <1>2. CASE UNCHANGED parserVars
    BY <1>2, NoCallKeeps
  <1>3. Wire \/ UNCHANGED parserVars
    BY DEF Next, Chunk, Say, Ask, End, Return, ReturnAsGiven, vars
  <1> QED BY <1>1, <1>2, <1>3

\* However the network cuts the upstream's text, whatever the text is, after every
\* chunk the frames that the parser has made are the events of the text so far, and
\* after the flush those of all of it (workbuddy/stream-parser.ts).
THEOREM TextBecomesEvents == Spec => []FramesAreTheEvents
  <1>1. Init => ParserAndExchange
    BY ParserStarts, InitHolds DEF Init, ParserAndExchange
  <1>2. ParserAndExchange /\ [Next]_vars => ParserAndExchange'
    BY ParserStep
  <1>3. ParserAndExchange => FramesAreTheEvents
    BY ParserInvSays DEF ParserAndExchange
  <1> QED BY <1>1, <1>2, <1>3, PTL DEF Spec

=============================================================================
