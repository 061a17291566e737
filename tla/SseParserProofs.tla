-------------------------- MODULE SseParserProofs --------------------------
(***************************************************************************)
(* Folds over sequences, in the steps that they take, and with them the    *)
(* invariant of SseParser: wherever the network cuts a text, the frames    *)
(* are the events of it.                                                   *)
(***************************************************************************)
EXTENDS SseParser, SequenceTheorems, FiniteSetTheorems, WellFoundedInduction, TLAPS

-----------------------------------------------------------------------------
(* Folds over sequences *)

\* induction, over a set of numbers
LEMMA Induction ==
    ASSUME NEW S, 0 \in S, \A n \in Nat : n \in S => n + 1 \in S
    PROVE  Nat \subseteq S
  <1> DEFINE R == Nat \ S
  <1> SUFFICES ASSUME R # {} PROVE FALSE
    OBVIOUS
  <1>1. PICK m \in R : \A y \in R : ~(<<y, m>> \in OpToRel(<, Nat))
    <2>1. R \subseteq Nat
      OBVIOUS
    <2> QED BY <2>1, NatLessThanWellFounded, WFMin
  <1>2. m \in Nat /\ m \notin S /\ m # 0
    OBVIOUS
  <1>3. m - 1 \in Nat /\ m - 1 + 1 = m
    BY <1>2
  <1>4. m - 1 \notin R
    <2>1. m - 1 < m
      BY <1>2
    <2>2. m - 1 \in R => <<m - 1, m>> \in OpToRel(<, Nat)
      BY <1>2, <1>3, <2>1 DEF OpToRel
    <2> QED BY <1>1, <2>2
  <1>5. m - 1 \in S
    BY <1>3, <1>4
  <1> QED BY <1>2, <1>3, <1>5

\* and over a set of sequences
LEMMA SeqInduction ==
    ASSUME NEW B, NEW G, <<>> \in G,
           \A s \in Seq(B), e \in B : s \in G => Append(s, e) \in G
    PROVE  Seq(B) \subseteq G
  <1> DEFINE N == {n \in Nat : \A s \in Seq(B) : Len(s) = n => s \in G}
  <1>1. 0 \in N
    <2>1. ASSUME NEW s \in Seq(B), Len(s) = 0 PROVE s \in G
      <3>1. s = <<>>
        BY <2>1, EmptySeq
      <3> QED BY <3>1
    <2> QED BY <2>1
  <1>2. ASSUME NEW n \in Nat, n \in N PROVE n + 1 \in N
    <2> SUFFICES ASSUME NEW s \in Seq(B), Len(s) = n + 1 PROVE s \in G
      OBVIOUS
    <2>1. s # <<>>
      BY EmptySeq
    <2>2. PICK t \in Seq(B), e \in B : s = Append(t, e)
      BY <2>1, SequenceEmptyOrAppend
    <2>3. Len(t) = n
      BY <2>2, AppendProperties, LenProperties
    <2> QED BY <1>2, <2>2, <2>3
  <1> HIDE DEF N
  <1>3. Nat \subseteq N
    BY <1>1, <1>2, Induction
  <1>4. ASSUME NEW s \in Seq(B) PROVE s \in G
    BY <1>3, LenProperties DEF N
  <1> QED BY <1>4

\* the fold of a function of two arguments, and the table it is computed by
Steps(A, B) == [A \X B -> A]
Fold(step, base, s) == FoldLeft(LAMBDA y, x : step[<<y, x>>], base, s)
IsFold(g, step, base, s) ==
    g = [t \in SUBSET DOMAIN s |->
            IF t = {} THEN base ELSE step[<<g[t \ {Max(t)}], s[Max(t)]>>]]

LEMMA FoldByTable ==
    ASSUME NEW step, NEW base, NEW s
    PROVE  Fold(step, base, s) = (CHOOSE g : IsFold(g, step, base, s))[DOMAIN s]
  BY DEF Fold, FoldLeft, MapThenFoldSet, IsFold

LEMMA MaxIsElement ==
    ASSUME NEW n \in Nat, NEW t \in SUBSET (1 .. n), t # {}
    PROVE  Max(t) \in t /\ \A x \in t : x <= Max(t)
  <1> DEFINE N == {k \in Nat : \A u \in SUBSET (1 .. k) :
                                  u # {} => \E m \in u : \A x \in u : x <= m}
  <1>1. 0 \in N
    <2>1. \A u \in SUBSET (1 .. 0) : u = {}
      OBVIOUS
    <2> QED BY <2>1
  <1>2. ASSUME NEW k \in Nat, k \in N PROVE k + 1 \in N
    <2> SUFFICES ASSUME NEW u \in SUBSET (1 .. k + 1), u # {}
                 PROVE  \E m \in u : \A x \in u : x <= m
      OBVIOUS
    <2>1. CASE k + 1 \in u
      BY <2>1
    <2>2. CASE k + 1 \notin u
      <3>1. u \in SUBSET (1 .. k)
        BY <2>2
      <3> QED BY <1>2, <3>1
    <2> QED BY <2>1, <2>2
  <1> HIDE DEF N
  <1>3. n \in N
    BY <1>1, <1>2, Induction
  <1>4. \E m \in t : \A x \in t : x <= m
    BY <1>3 DEF N
  <1>5. \E m \in t : \A x \in t : m >= x
    BY <1>4
  <1>6. Max(t) \in t /\ \A x \in t : Max(t) >= x
    BY <1>5 DEF Max
  <1> QED BY <1>6

\* a set without its greatest number reaches less far
LEMMA WithoutMax ==
    ASSUME NEW n \in Nat, NEW t \in SUBSET (1 .. n + 1), t # {}
    PROVE  /\ Max(t) \in 1 .. n + 1
           /\ t \ {Max(t)} \in SUBSET (1 .. n)
  <1>0. n + 1 \in Nat
    OBVIOUS
  <1>1. Max(t) \in t /\ \A x \in t : x <= Max(t)
    BY <1>0, MaxIsElement
  <1>2. ASSUME NEW x \in t, x # Max(t) PROVE x \in 1 .. n
    <2>1. x \in 1 .. n + 1 /\ Max(t) \in 1 .. n + 1 /\ x <= Max(t)
      BY <1>1, <1>2
    <2> QED BY <1>2, <2>1
  <1> QED BY <1>1, <1>2

LEMMA LastOfMany ==
    ASSUME NEW n \in Nat
    PROVE  (1 .. n + 1) \ {n + 1} = 1 .. n /\ Max(1 .. n + 1) = n + 1
  <1>1. n + 1 \in Nat /\ n + 1 \in 1 .. n + 1
    OBVIOUS
  <1>2. /\ Max(1 .. n + 1) \in 1 .. n + 1
        /\ \A x \in 1 .. n + 1 : x <= Max(1 .. n + 1)
    BY <1>1, MaxIsElement, Zenon
  <1>3. ASSUME NEW x PROVE x \in (1 .. n + 1) \ {n + 1} <=> x \in 1 .. n
    OBVIOUS
  <1> QED BY <1>1, <1>2, <1>3

LEMMA TableExists ==
    ASSUME NEW A, NEW B, NEW step \in Steps(A, B), NEW base \in A, NEW s \in Seq(B)
    PROVE  \E g \in [SUBSET DOMAIN s -> A] : IsFold(g, step, base, s)
  <1> DEFINE Next1(g, t) == IF t = {} THEN base ELSE step[<<g[t \ {Max(t)}], s[Max(t)]>>]
             Fits(g, n) == \A t \in SUBSET (1 .. n) : g[t] = Next1(g, t)
             Exists(n) == \E g \in [SUBSET (1 .. n) -> A] : Fits(g, n)
             N == {n \in Nat : n <= Len(s) => Exists(n)}
  <1>1. Len(s) \in Nat /\ DOMAIN s = 1 .. Len(s) /\ \A i \in 1 .. Len(s) : s[i] \in B
    BY LenProperties, ElementOfSeq
  <1>2. 0 \in N
    <2> DEFINE g == [t \in SUBSET (1 .. 0) |-> base]
    <2>1. g \in [SUBSET (1 .. 0) -> A] /\ Fits(g, 0)
      OBVIOUS
    <2> QED BY <2>1
  <1>3. ASSUME NEW n \in Nat, n \in N PROVE n + 1 \in N
    <2> SUFFICES ASSUME n + 1 <= Len(s)
                 PROVE Exists(n + 1)
      <3> HIDE DEF Exists
      <3> QED OBVIOUS
    <2>0. n <= Len(s) /\ n + 1 \in Nat
      BY <1>1
    <2>1. PICK g \in [SUBSET (1 .. n) -> A] : Fits(g, n)
      <3>1. Exists(n)
        <4> HIDE DEF Exists
        <4> QED BY <1>3, <2>0
      <3> QED BY <3>1
    <2> DEFINE h == [t \in SUBSET (1 .. n + 1) |-> Next1(g, t)]
    <2>2. ASSUME NEW t \in SUBSET (1 .. n + 1), t # {}
          PROVE  t \ {Max(t)} \in SUBSET (1 .. n) /\ s[Max(t)] \in B
      <3>1. Max(t) \in 1 .. n + 1 /\ t \ {Max(t)} \in SUBSET (1 .. n)
        BY <2>2, WithoutMax
      <3>2. Max(t) \in 1 .. Len(s)
        BY <1>1, <3>1
      <3> QED BY <1>1, <3>1, <3>2
    <2>3. h \in [SUBSET (1 .. n + 1) -> A]
      <3> SUFFICES ASSUME NEW t \in SUBSET (1 .. n + 1) PROVE Next1(g, t) \in A
        OBVIOUS
      <3>1. CASE t # {}
        <4>1. g[t \ {Max(t)}] \in A /\ s[Max(t)] \in B
          BY <2>1, <2>2, <3>1
        <4> QED BY <3>1, <4>1 DEF Steps
      <3> QED BY <3>1
    <2>4. ASSUME NEW t \in SUBSET (1 .. n) PROVE h[t] = g[t]
      <3>1. t \in SUBSET (1 .. n + 1)
        OBVIOUS
      <3> QED BY <2>1, <3>1
    <2>5. Fits(h, n + 1)
      <3> SUFFICES ASSUME NEW t \in SUBSET (1 .. n + 1) PROVE h[t] = Next1(h, t)
        OBVIOUS
      <3>1. CASE t # {}
        <4>1. h[t \ {Max(t)}] = g[t \ {Max(t)}]
          BY <2>2, <2>4, <3>1
        <4>2. h[t] = Next1(g, t)
          OBVIOUS
        <4> HIDE DEF h
        <4> QED BY <3>1, <4>1, <4>2
      <3> QED BY <3>1
    <2> HIDE DEF h, Fits
    <2> QED BY <2>3, <2>5
  <1> HIDE DEF N
  <1>4. Len(s) \in N
    BY <1>1, <1>2, <1>3, Induction
  <1>5. PICK g \in [SUBSET (1 .. Len(s)) -> A] : Fits(g, Len(s))
    <2>1. Exists(Len(s))
      <3> HIDE DEF Exists
      <3> QED BY <1>1, <1>4 DEF N
    <2> QED BY <2>1
  <1>6. g = [t \in SUBSET DOMAIN s |-> g[t]]
    BY <1>1, <1>5
  <1>7. \A t \in SUBSET DOMAIN s : g[t] = Next1(g, t)
    BY <1>1, <1>5
  <1> QED BY <1>1, <1>5, <1>6, <1>7 DEF IsFold

\* two tables agree if every step makes them agree
StepsAgree(n, g, h) ==
    /\ g[{}] = h[{}]
    /\ \A t \in SUBSET (1 .. n) :
          t # {} /\ g[t \ {Max(t)}] = h[t \ {Max(t)}] => g[t] = h[t]

LEMMA TablesAgree ==
    ASSUME NEW n \in Nat, NEW g, NEW h, StepsAgree(n, g, h)
    PROVE  g[1 .. n] = h[1 .. n]
  <1> DEFINE N == {k \in Nat : k <= n => \A t \in SUBSET (1 .. k) : g[t] = h[t]}
  <1> USE DEF StepsAgree
  <1>1. 0 \in N
    <2>1. \A u \in SUBSET (1 .. 0) : u = {}
      OBVIOUS
    <2> QED BY <2>1
  <1>2. ASSUME NEW k \in Nat, k \in N PROVE k + 1 \in N
    <2> SUFFICES ASSUME k + 1 <= n, NEW t \in SUBSET (1 .. k + 1) PROVE g[t] = h[t]
      OBVIOUS
    <2>1. CASE t # {}
      <3>1. t \ {Max(t)} \in SUBSET (1 .. k)
        BY <2>1, WithoutMax
      <3>2. g[t \ {Max(t)}] = h[t \ {Max(t)}]
        BY <1>2, <3>1
      <3>3. t \in SUBSET (1 .. n)
        OBVIOUS
      <3> QED BY <2>1, <3>2, <3>3
    <2> QED BY <2>1
  <1> HIDE DEF N
  <1>3. n \in N
    BY <1>1, <1>2, Induction
  <1> QED BY <1>3 DEF N

\* the table of a fold, of which any solution is one
LEMMA FoldOfTable ==
    ASSUME NEW A, NEW B, NEW step \in Steps(A, B), NEW base \in A, NEW s \in Seq(B),
           NEW g, IsFold(g, step, base, s)
    PROVE  Fold(step, base, s) = g[DOMAIN s]
  <1> DEFINE h == CHOOSE h : IsFold(h, step, base, s)
  <1>1. IsFold(h, step, base, s)
    OBVIOUS
  <1> HIDE DEF h
  <1>2. Len(s) \in Nat /\ DOMAIN s = 1 .. Len(s)
    BY LenProperties
  <1>3. \A t \in SUBSET DOMAIN s :
           /\ g[t] = IF t = {} THEN base ELSE step[<<g[t \ {Max(t)}], s[Max(t)]>>]
           /\ h[t] = IF t = {} THEN base ELSE step[<<h[t \ {Max(t)}], s[Max(t)]>>]
    BY <1>1 DEF IsFold
  <1>4. StepsAgree(Len(s), h, g)
    BY <1>2, <1>3 DEF StepsAgree
  <1>5. h[DOMAIN s] = g[DOMAIN s]
    BY <1>2, <1>4, TablesAgree
  <1> QED BY <1>5, FoldByTable DEF h

\* what a fold computes
LEMMA FoldSteps ==
    ASSUME NEW A, NEW B, NEW step \in Steps(A, B), NEW base \in A, NEW s \in Seq(B)
    PROVE  /\ Fold(step, base, s) \in A
           /\ Fold(step, base, <<>>) = base
           /\ \A e \in B : Fold(step, base, Append(s, e)) = step[<<Fold(step, base, s), e>>]
  <1>1. Len(s) \in Nat /\ DOMAIN s = 1 .. Len(s)
    BY LenProperties
  <1>2. Fold(step, base, s) \in A
    <2>1. PICK g \in [SUBSET DOMAIN s -> A] : IsFold(g, step, base, s)
      BY TableExists
    <2>2. Fold(step, base, s) = g[DOMAIN s]
      BY <2>1, FoldOfTable
    <2> QED BY <2>2
  <1>3. Fold(step, base, <<>>) = base
    <2>1. <<>> \in Seq(B) /\ DOMAIN <<>> = {}
      BY EmptySeq
    <2> DEFINE none == <<>>
    <2> HIDE DEF none
    <2>2. none \in Seq(B)
      BY <2>1 DEF none
    <2>3. PICK g \in [SUBSET DOMAIN none -> A] : IsFold(g, step, base, none)
      BY <2>2, TableExists
    <2>4. Fold(step, base, none) = g[DOMAIN none]
      BY <2>2, <2>3, FoldOfTable
    <2>5. DOMAIN none = {}
      BY <2>1 DEF none
    <2>6. g[DOMAIN none] = base
      BY <2>3, <2>5 DEF IsFold
    <2> QED BY <2>4, <2>6 DEF none
  <1>4. ASSUME NEW e \in B
        PROVE  Fold(step, base, Append(s, e)) = step[<<Fold(step, base, s), e>>]
    <2> DEFINE s1 == Append(s, e)
               n == Len(s)
    <2>1. /\ s1 \in Seq(B) /\ DOMAIN s1 = 1 .. n + 1 /\ s1[n + 1] = e
          /\ \A i \in 1 .. n : s1[i] = s[i]
      BY <1>1, AppendProperties, LenProperties
    <2> HIDE DEF s1
    <2>2. PICK g \in [SUBSET DOMAIN s1 -> A] : IsFold(g, step, base, s1)
      BY <2>1, TableExists
    <2>3. Fold(step, base, s1) = g[1 .. n + 1]
      BY <2>1, <2>2, FoldOfTable
    <2>4. \A t \in SUBSET (1 .. n + 1) :
             g[t] = IF t = {} THEN base ELSE step[<<g[t \ {Max(t)}], s1[Max(t)]>>]
      BY <2>1, <2>2 DEF IsFold
    <2>5. /\ Max(1 .. n + 1) = n + 1 /\ (1 .. n + 1) \ {n + 1} = 1 .. n
          /\ 1 .. n + 1 # {}
      <3>1. n \in Nat
        BY <1>1
      <3> HIDE DEF n
      <3>2. n + 1 \in 1 .. n + 1
        BY <3>1
      <3> QED BY <3>1, <3>2, LastOfMany
    <2>6. g[1 .. n + 1] = step[<<g[1 .. n], e>>]
      BY <2>1, <2>4, <2>5
    <2>7. Fold(step, base, s) = g[1 .. n]
      <3> DEFINE h == [t \in SUBSET DOMAIN s |-> g[t]]
      <3>1. ASSUME NEW t \in SUBSET DOMAIN s
            PROVE  h[t] = IF t = {} THEN base ELSE step[<<h[t \ {Max(t)}], s[Max(t)]>>]
        <4>1. t \in SUBSET (1 .. n + 1) /\ t \ {Max(t)} \in SUBSET DOMAIN s
          BY <1>1
        <4>2. t # {} => Max(t) \in 1 .. n
          BY <1>1, MaxIsElement
        <4> QED BY <2>1, <2>4, <4>1, <4>2
      <3>2. IsFold(h, step, base, s)
        <4>1. h = [t \in SUBSET DOMAIN s |-> h[t]]
          OBVIOUS
        <4> HIDE DEF h
        <4> QED BY <3>1, <4>1 DEF IsFold
      <3>3. Fold(step, base, s) = h[DOMAIN s]
        BY <3>2, FoldOfTable
      <3> QED BY <1>1, <3>3
    <2> QED BY <2>3, <2>6, <2>7 DEF s1
  <1> QED BY <1>2, <1>3, <1>4

LEMMA ConcatAppend ==
    ASSUME NEW B, NEW s \in Seq(B), NEW t \in Seq(B), NEW e \in B
    PROVE  s \o Append(t, e)
              = Append(s \o t, e) /\ s \o t \in Seq(B) /\ Append(t, e) \in Seq(B)
  OBVIOUS

LEMMA AppendedTo ==
    ASSUME NEW B, NEW s \in Seq(B), NEW e \in B, NEW n, Len(s) = n
    PROVE  /\ Append(s, e) \in Seq(B) /\ Len(Append(s, e))
              = n + 1 /\ Append(s, e)[n + 1] = e
           /\ \A m \in 1 .. n : Append(s, e)[m] = s[m]
  BY AppendProperties, LenProperties

LEMMA FoldOfConcat ==
    ASSUME NEW A, NEW B, NEW step \in Steps(A, B), NEW base \in A,
           NEW s \in Seq(B), NEW t \in Seq(B)
    PROVE  Fold(step, base, s \o t) = Fold(step, Fold(step, base, s), t)
  <1> DEFINE y == Fold(step, base, s)
             G == {u \in Seq(B) : Fold(step, base, s \o u) = Fold(step, y, u)}
  <1>1. y \in A
    BY FoldSteps
  <1>2. <<>> \in G
    <2>1. Fold(step, y, <<>>) = y /\ s \o <<>> = s /\ <<>> \in Seq(B)
      BY <1>1, FoldSteps, ConcatEmptySeq, EmptySeq
    <2> QED BY <2>1
  <1>3. ASSUME NEW u \in Seq(B), NEW e \in B, u \in G PROVE Append(u, e) \in G
    <2>1. s \o Append(u, e) = Append(s \o u, e) /\ s \o u \in Seq(B) /\ Append(u, e) \in Seq(B)
      BY ConcatAppend
    <2>2. Fold(step, base, Append(s \o u, e)) = step[<<Fold(step, base, s \o u), e>>]
      <3> DEFINE v == s \o u
      <3>1. v \in Seq(B)
        BY <2>1
      <3> HIDE DEF v
      <3>2. Fold(step, base, Append(v, e)) = step[<<Fold(step, base, v), e>>]
        BY <3>1, FoldSteps
      <3> QED BY <3>2 DEF v
    <2>3. Fold(step, y, Append(u, e)) = step[<<Fold(step, y, u), e>>]
      BY <1>1, FoldSteps
    <2> QED BY <1>3, <2>1, <2>2, <2>3
  <1> HIDE DEF G
  <1>4. t \in G
    BY <1>2, <1>3, SeqInduction
  <1> QED BY <1>4 DEF G

\* how a fold of the community modules is told to be the fold of a function: its
\* table, whatever it is elsewhere, takes the same steps
LEMMA ElementOfTable ==
    ASSUME NEW B, NEW s \in Seq(B), NEW t \in SUBSET DOMAIN s, t # {}
    PROVE  /\ Max(t) \in DOMAIN s /\ s[Max(t)] \in B
           /\ t \ {Max(t)} \in SUBSET DOMAIN s
  <1>1. Len(s) \in Nat /\ DOMAIN s = 1 .. Len(s) /\ \A i \in 1 .. Len(s) : s[i] \in B
    BY LenProperties, ElementOfSeq
  <1>2. Max(t) \in t
    BY <1>1, MaxIsElement
  <1> QED BY <1>1, <1>2

Computes(h, A, step, base, s) ==
    /\ h[{}] = base
    /\ \A t \in SUBSET DOMAIN s :
          t # {} /\ h[t \ {Max(t)}] \in A => h[t] = step[<<h[t \ {Max(t)}], s[Max(t)]>>]

LEMMA FoldLink ==
    ASSUME NEW A, NEW B, NEW step \in Steps(A, B), NEW base \in A, NEW s \in Seq(B),
           NEW h, Computes(h, A, step, base, s)
    PROVE  h[DOMAIN s] = Fold(step, base, s)
  <1>1. PICK g \in [SUBSET DOMAIN s -> A] : IsFold(g, step, base, s)
    BY TableExists
  <1>2. Len(s) \in Nat /\ DOMAIN s = 1 .. Len(s)
    BY LenProperties
  <1>3. g[DOMAIN s] = Fold(step, base, s)
    BY <1>1, FoldOfTable
  <1>4. g[{}] = base
    BY <1>1 DEF IsFold
  <1>5. ASSUME NEW t \in SUBSET DOMAIN s, t # {}, h[t \ {Max(t)}] = g[t \ {Max(t)}]
        PROVE  h[t] = g[t]
    <2>1. t \ {Max(t)} \in SUBSET DOMAIN s
      BY <1>5, ElementOfTable
    <2>2. g[t \ {Max(t)}] \in A
      BY <1>1, <2>1
    <2>3. h[t] = step[<<h[t \ {Max(t)}], s[Max(t)]>>]
      BY <1>5, <2>2 DEF Computes
    <2>4. g[t] = step[<<g[t \ {Max(t)}], s[Max(t)]>>]
      BY <1>1, <1>5 DEF IsFold
    <2> QED BY <1>5, <2>3, <2>4
  <1>6. StepsAgree(Len(s), h, g)
    BY <1>2, <1>4, <1>5 DEF StepsAgree, Computes
  <1>7. h[1 .. Len(s)] = g[1 .. Len(s)]
    BY <1>2, <1>6, TablesAgree
  <1> QED BY <1>2, <1>3, <1>7

-----------------------------------------------------------------------------
(* The folds of the parser *)

Token == STRING \cup LineEnds
Line == Seq(Token)
Cuts == Seq(Line) \ {<<>>}
Datagrams == {Frame(Join(data)) : data \in Seq(Line)}
Frames == Datagrams \cup {Comment}
Reading == [line : Line, data : Seq(Line), cr : BOOLEAN, events : Seq(Datagrams)]

CutStep == [q \in Cuts \X Token |-> Cut(q[1], q[2])]
DataStep == [q \in Seq(Line) \X Line |-> TakeData(q[1], q[2])]
SaidStep ==
    [q \in Seq(Datagrams) \X Frames |-> IF q[2] = Comment THEN q[1] ELSE Append(q[1], q[2])]
DispatchStep == [q \in Reading \X Token |-> Dispatch(q[1], q[2])]

LEMMA CutTyped ==
    ASSUME NEW lines \in Cuts, NEW t \in Token
    PROVE  Cut(lines, t) \in Cuts
  <1>1. lines \in Seq(Line) /\ lines # <<>> /\ Len(lines) \in Nat /\ Len(lines) # 0
    BY EmptySeq DEF Cuts
  <1>2. Append(lines, <<>>) \in Cuts
    <2>1. <<>> \in Line
      BY EmptySeq DEF Line
    <2> QED BY <1>1, <2>1, AppendProperties DEF Cuts
  <1>3. [lines EXCEPT ![Len(lines)] = Append(@, t)] \in Cuts
    <2>1. Len(lines) \in 1 .. Len(lines)
      BY <1>1
    <2>2. lines[Len(lines)] \in Line
      BY <1>1, <2>1, ElementOfSeq
    <2> DEFINE e == Append(lines[Len(lines)], t)
    <2>3. e \in Line
      BY <2>2, AppendProperties DEF Line
    <2> HIDE DEF e
    <2>4. /\ [lines EXCEPT ![Len(lines)] = e] \in Seq(Line)
          /\ Len([lines EXCEPT ![Len(lines)] = e]) = Len(lines)
      BY <1>1, <2>1, <2>3, ExceptSeq
    <2>5. [lines EXCEPT ![Len(lines)] = e] # <<>>
      BY <1>1, <2>4, EmptySeq
    <2> QED BY <2>4, <2>5 DEF Cuts, e
  <1> QED BY <1>2, <1>3 DEF Cut

LEMMA CutStepIsTyped == CutStep \in Steps(Cuts, Token)
  BY CutTyped DEF CutStep, Steps

LEMMA TakeDataTyped ==
    ASSUME NEW data \in Seq(Line), NEW line \in Line
    PROVE  TakeData(data, line) \in Seq(Line)
  <1>1. ASSUME line # <<>> PROVE Append(data, Tail(line)) \in Seq(Line)
    BY <1>1, HeadTailProperties, AppendProperties DEF Line
  <1> QED BY <1>1 DEF TakeData

LEMMA DataStepIsTyped == DataStep \in Steps(Seq(Line), Line)
  BY TakeDataTyped DEF DataStep, Steps

LEMMA SaidStepIsTyped == SaidStep \in Steps(Seq(Datagrams), Frames)
  <1>1. ASSUME NEW said \in Seq(Datagrams), NEW f \in Frames, f # Comment
        PROVE  Append(said, f) \in Seq(Datagrams)
    BY <1>1, AppendProperties DEF Frames
  <1> QED BY <1>1 DEF SaidStep, Steps

LEMMA DispatchTyped ==
    ASSUME NEW q \in Reading, NEW t \in Token
    PROVE  Dispatch(q, t) \in Reading /\ EndOfLine(q) \in Reading
  <1>1. /\ q.line \in Line /\ q.data \in Seq(Line) /\ q.cr \in BOOLEAN
        /\ q.events \in Seq(Datagrams)
    BY DEF Reading
  <1>2. Append(q.line, t) \in Line /\ <<>> \in Line /\ <<>> \in Seq(Line)
    BY <1>1, AppendProperties, EmptySeq DEF Line
  <1>3. TakeData(q.data, q.line) \in Seq(Line)
    BY <1>1, TakeDataTyped
  <1>4. Append(q.events, Frame(Join(q.data))) \in Seq(Datagrams)
    BY <1>1, AppendProperties DEF Datagrams
  <1>5. EndOfLine(q) \in Reading
    BY <1>1, <1>2, <1>3, <1>4 DEF EndOfLine, Reading
  <1>6. [EndOfLine(q) EXCEPT !.cr = (t = "cr")] \in Reading
    BY <1>5 DEF Reading
  <1> QED BY <1>1, <1>2, <1>5, <1>6 DEF Dispatch, Reading

LEMMA DispatchStepIsTyped == DispatchStep \in Steps(Reading, Token)
  BY DispatchTyped DEF DispatchStep, Steps

\* a text is one line, to begin with
LEMMA OneLine == << <<>> >> \in Cuts
  <1>1. <<>> \in Line
    BY EmptySeq DEF Line
  <1>2. << <<>> >> \in Seq(Line) /\ << <<>> >> # <<>>
    BY <1>1
  <1> QED BY <1>2 DEF Cuts

LEMMA LinesAreFold ==
    ASSUME NEW base \in Cuts, NEW s \in Seq(Token)
    PROVE  FoldLeft(Cut, base, s) = Fold(CutStep, base, s)
  <1> DEFINE Runs(g) ==
        g = [t \in SUBSET DOMAIN s |->
                IF t = {} THEN base ELSE Cut(g[t \ {Max(t)}], s[Max(t)])]
  <1>1. PICK g \in [SUBSET DOMAIN s -> Cuts] : IsFold(g, CutStep, base, s)
    BY CutStepIsTyped, TableExists
  <1>2. Runs(g)
    <2>1. ASSUME NEW t \in SUBSET DOMAIN s, t # {}
          PROVE  CutStep[<<g[t \ {Max(t)}], s[Max(t)]>>] = Cut(g[t \ {Max(t)}], s[Max(t)])
      <3>1. s[Max(t)] \in Token /\ g[t \ {Max(t)}] \in Cuts
        BY <1>1, <2>1, ElementOfTable
      <3> QED BY <3>1 DEF CutStep
    <2> QED BY <1>1, <2>1 DEF IsFold
  <1> DEFINE h == CHOOSE h : Runs(h)
  <1>3. Runs(h)
    BY <1>2
  <1>4. FoldLeft(Cut, base, s) = h[DOMAIN s]
    BY DEF FoldLeft, MapThenFoldSet
  <1> HIDE DEF h
  <1>5. Computes(h, Cuts, CutStep, base, s)
    <2>1. ASSUME NEW t \in SUBSET DOMAIN s, t # {}, h[t \ {Max(t)}] \in Cuts
          PROVE  h[t] = CutStep[<<h[t \ {Max(t)}], s[Max(t)]>>]
      <3>1. s[Max(t)] \in Token
        BY <2>1, ElementOfTable
      <3>2. h[t] = Cut(h[t \ {Max(t)}], s[Max(t)])
        BY <1>3, <2>1
      <3> QED BY <2>1, <3>1, <3>2 DEF CutStep
    <2>2. h[{}] = base
      BY <1>3
    <2> QED BY <2>1, <2>2 DEF Computes
  <1> QED BY <1>4, <1>5, CutStepIsTyped, FoldLink

LEMMA LinesSteps ==
    ASSUME NEW s \in Seq(Token)
    PROVE  /\ Lines(s) \in Cuts
           /\ Lines(<<>>) = << <<>> >>
           /\ \A e \in Token : Lines(Append(s, e)) = Cut(Lines(s), e)
  <1>0. << <<>> >> \in Cuts
    BY OneLine
  <1> DEFINE base == << <<>> >>
  <1>1. base \in Cuts
    BY <1>0
  <1> HIDE DEF base
  <1>2. \A u \in Seq(Token) : Lines(u) = Fold(CutStep, base, u)
    BY <1>0, LinesAreFold DEF base, Lines
  <1>3. /\ Fold(CutStep, base, s) \in Cuts /\ Fold(CutStep, base, <<>>) = base
        /\ \A e \in Token : Fold(CutStep, base, Append(s, e))
              = CutStep[<<Fold(CutStep, base, s), e>>]
    BY <1>1, CutStepIsTyped, FoldSteps
  <1>4. <<>> \in Seq(Token) /\ \A e \in Token : Append(s, e) \in Seq(Token)
    BY EmptySeq, AppendProperties
  <1>5. Lines(s) \in Cuts /\ Lines(<<>>) = base
    BY <1>2, <1>3, <1>4
  <1>6. ASSUME NEW e \in Token PROVE Lines(Append(s, e)) = Cut(Lines(s), e)
    <2>1. Lines(Append(s, e)) = CutStep[<<Lines(s), e>>]
      BY <1>2, <1>3, <1>4
    <2> QED BY <1>5, <2>1 DEF CutStep
  <1> QED BY <1>5, <1>6 DEF base

LEMMA DataIsFold ==
    ASSUME NEW base \in Seq(Line), NEW s \in Seq(Line)
    PROVE  FoldLeft(TakeData, base, s) = Fold(DataStep, base, s)
  <1> DEFINE Runs(g) ==
        g = [t \in SUBSET DOMAIN s |->
                IF t = {} THEN base ELSE TakeData(g[t \ {Max(t)}], s[Max(t)])]
  <1>1. PICK g \in [SUBSET DOMAIN s -> Seq(Line)] : IsFold(g, DataStep, base, s)
    BY DataStepIsTyped, TableExists
  <1>2. Runs(g)
    <2>1. ASSUME NEW t \in SUBSET DOMAIN s, t # {}
          PROVE  DataStep[<<g[t \ {Max(t)}], s[Max(t)]>>]
                    = TakeData(g[t \ {Max(t)}], s[Max(t)])
      <3>1. s[Max(t)] \in Line /\ g[t \ {Max(t)}] \in Seq(Line)
        BY <1>1, <2>1, ElementOfTable
      <3> QED BY <3>1 DEF DataStep
    <2> QED BY <1>1, <2>1 DEF IsFold
  <1> DEFINE h == CHOOSE h : Runs(h)
  <1>3. Runs(h)
    BY <1>2
  <1>4. FoldLeft(TakeData, base, s) = h[DOMAIN s]
    BY DEF FoldLeft, MapThenFoldSet
  <1> HIDE DEF h
  <1>5. Computes(h, Seq(Line), DataStep, base, s)
    <2>1. ASSUME NEW t \in SUBSET DOMAIN s, t # {}, h[t \ {Max(t)}] \in Seq(Line)
          PROVE  h[t] = DataStep[<<h[t \ {Max(t)}], s[Max(t)]>>]
      <3>1. s[Max(t)] \in Line
        BY <2>1, ElementOfTable
      <3>2. h[t] = TakeData(h[t \ {Max(t)}], s[Max(t)])
        BY <1>3, <2>1
      <3> QED BY <2>1, <3>1, <3>2 DEF DataStep
    <2>2. h[{}] = base
      BY <1>3
    <2> QED BY <2>1, <2>2 DEF Computes
  <1> QED BY <1>4, <1>5, DataStepIsTyped, FoldLink

LEMMA DataSteps ==
    ASSUME NEW s \in Seq(Line)
    PROVE  /\ DataOf(s) \in Seq(Line)
           /\ DataOf(<<>>) = <<>>
           /\ \A e \in Line : DataOf(Append(s, e)) = TakeData(DataOf(s), e)
  <1>0. <<>> \in Seq(Line)
    BY EmptySeq
  <1> DEFINE base == <<>>
  <1>1. base \in Seq(Line)
    BY <1>0
  <1> HIDE DEF base
  <1>2. \A u \in Seq(Line) : DataOf(u) = Fold(DataStep, base, u)
    BY <1>0, DataIsFold DEF base, DataOf
  <1>3. /\ Fold(DataStep, base, s) \in Seq(Line) /\ Fold(DataStep, base, <<>>) = base
        /\ \A e \in Line : Fold(DataStep, base, Append(s, e))
              = DataStep[<<Fold(DataStep, base, s), e>>]
    BY <1>1, DataStepIsTyped, FoldSteps
  <1>4. <<>> \in Seq(Line) /\ \A e \in Line : Append(s, e) \in Seq(Line)
    BY EmptySeq, AppendProperties
  <1>5. DataOf(s) \in Seq(Line) /\ DataOf(<<>>) = base
    BY <1>2, <1>3, <1>4
  <1>6. ASSUME NEW e \in Line PROVE DataOf(Append(s, e)) = TakeData(DataOf(s), e)
    <2>1. DataOf(Append(s, e)) = DataStep[<<DataOf(s), e>>]
      BY <1>2, <1>3, <1>4
    <2> QED BY <1>5, <2>1 DEF DataStep
  <1> QED BY <1>5, <1>6 DEF base

LEMMA SaidIsFold ==
    ASSUME NEW s \in Seq(Frames)
    PROVE  Said(s) = Fold(SaidStep, <<>>, s)
  <1>0. <<>> \in Seq(Datagrams)
    BY EmptySeq
  <1> DEFINE Runs(g) ==
        g = [t \in SUBSET DOMAIN s |->
                IF t = {} THEN <<>>
                ELSE (IF s[Max(t)] = Comment THEN g[t \ {Max(t)}] ELSE Append(g[t \ {Max(t)}], s[Max(t)]))]
  <1>1. PICK g \in [SUBSET DOMAIN s -> Seq(Datagrams)] : IsFold(g, SaidStep, <<>>, s)
    BY <1>0, SaidStepIsTyped, TableExists
  <1>2. Runs(g)
    <2>1. ASSUME NEW t \in SUBSET DOMAIN s, t # {}
          PROVE  SaidStep[<<g[t \ {Max(t)}], s[Max(t)]>>]
                    = (IF s[Max(t)] = Comment THEN g[t \ {Max(t)}] ELSE Append(g[t \ {Max(t)}], s[Max(t)]))
      <3>1. s[Max(t)] \in Frames /\ g[t \ {Max(t)}] \in Seq(Datagrams)
        BY <1>1, <2>1, ElementOfTable
      <3> QED BY <3>1 DEF SaidStep
    <2> QED BY <1>1, <2>1 DEF IsFold
  <1> DEFINE h == CHOOSE h : Runs(h)
  <1>3. Runs(h)
    BY <1>2
  <1>4. Said(s) = h[DOMAIN s]
    BY DEF Said, FoldLeft, MapThenFoldSet
  <1> HIDE DEF h
  <1>5. Computes(h, Seq(Datagrams), SaidStep, <<>>, s)
    <2>1. ASSUME NEW t \in SUBSET DOMAIN s, t # {}, h[t \ {Max(t)}] \in Seq(Datagrams)
          PROVE  h[t] = SaidStep[<<h[t \ {Max(t)}], s[Max(t)]>>]
      <3>1. s[Max(t)] \in Frames
        BY <2>1, ElementOfTable
      <3>2. h[t]
                = (IF s[Max(t)] = Comment THEN h[t \ {Max(t)}] ELSE Append(h[t \ {Max(t)}], s[Max(t)]))
        BY <1>3, <2>1
      <3> QED BY <2>1, <3>1, <3>2 DEF SaidStep
    <2>2. h[{}] = <<>>
      BY <1>3
    <2> QED BY <2>1, <2>2 DEF Computes
  <1> DEFINE base == <<>>
  <1>6. base \in Seq(Datagrams) /\ Computes(h, Seq(Datagrams), SaidStep, base, s)
    BY <1>0, <1>5
  <1> HIDE DEF base
  <1>7. h[DOMAIN s] = Fold(SaidStep, base, s)
    BY <1>6, SaidStepIsTyped, FoldLink
  <1> QED BY <1>4, <1>7 DEF base

LEMMA SaidSteps ==
    ASSUME NEW s \in Seq(Frames)
    PROVE  /\ Said(s) \in Seq(Datagrams)
           /\ Said(<<>>) = <<>>
           /\ \A e \in Frames : Said(Append(s, e))
                     = (IF e = Comment THEN Said(s) ELSE Append(Said(s), e))
  <1>0. <<>> \in Seq(Datagrams)
    BY EmptySeq
  <1> DEFINE base == <<>>
  <1>1. base \in Seq(Datagrams)
    BY <1>0
  <1> HIDE DEF base
  <1>2. \A u \in Seq(Frames) : Said(u) = Fold(SaidStep, base, u)
    BY <1>0, SaidIsFold DEF base
  <1>3. /\ Fold(SaidStep, base, s) \in Seq(Datagrams) /\ Fold(SaidStep, base, <<>>) = base
        /\ \A e \in Frames : Fold(SaidStep, base, Append(s, e))
              = SaidStep[<<Fold(SaidStep, base, s), e>>]
    BY <1>1, SaidStepIsTyped, FoldSteps
  <1>4. <<>> \in Seq(Frames) /\ \A e \in Frames : Append(s, e) \in Seq(Frames)
    BY EmptySeq, AppendProperties
  <1>5. Said(s) \in Seq(Datagrams) /\ Said(<<>>) = base
    BY <1>2, <1>3, <1>4
  <1>6. ASSUME NEW e \in Frames
        PROVE Said(Append(s, e)) = (IF e = Comment THEN Said(s) ELSE Append(Said(s), e))
    <2>1. Said(Append(s, e)) = SaidStep[<<Said(s), e>>]
      BY <1>2, <1>3, <1>4
    <2> QED BY <1>5, <2>1 DEF SaidStep
  <1> QED BY <1>5, <1>6 DEF base

\* what is read of a text from somewhere on
Read(q, s) == FoldLeft(Dispatch, q, s)

LEMMA ReadIsFold ==
    ASSUME NEW base \in Reading, NEW s \in Seq(Token)
    PROVE  Read(base, s) = Fold(DispatchStep, base, s)
  <1> DEFINE Runs(g) ==
        g = [t \in SUBSET DOMAIN s |->
                IF t = {} THEN base ELSE Dispatch(g[t \ {Max(t)}], s[Max(t)])]
  <1>1. PICK g \in [SUBSET DOMAIN s -> Reading] : IsFold(g, DispatchStep, base, s)
    BY DispatchStepIsTyped, TableExists
  <1>2. Runs(g)
    <2>1. ASSUME NEW t \in SUBSET DOMAIN s, t # {}
          PROVE  DispatchStep[<<g[t \ {Max(t)}], s[Max(t)]>>]
                    = Dispatch(g[t \ {Max(t)}], s[Max(t)])
      <3>1. s[Max(t)] \in Token /\ g[t \ {Max(t)}] \in Reading
        BY <1>1, <2>1, ElementOfTable
      <3> QED BY <3>1 DEF DispatchStep
    <2> QED BY <1>1, <2>1 DEF IsFold
  <1> DEFINE h == CHOOSE h : Runs(h)
  <1>3. Runs(h)
    BY <1>2
  <1>4. Read(base, s) = h[DOMAIN s]
    BY DEF Read, FoldLeft, MapThenFoldSet
  <1> HIDE DEF h
  <1>5. Computes(h, Reading, DispatchStep, base, s)
    <2>1. ASSUME NEW t \in SUBSET DOMAIN s, t # {}, h[t \ {Max(t)}] \in Reading
          PROVE  h[t] = DispatchStep[<<h[t \ {Max(t)}], s[Max(t)]>>]
      <3>1. s[Max(t)] \in Token
        BY <2>1, ElementOfTable
      <3>2. h[t] = Dispatch(h[t \ {Max(t)}], s[Max(t)])
        BY <1>3, <2>1
      <3> QED BY <2>1, <3>1, <3>2 DEF DispatchStep
    <2>2. h[{}] = base
      BY <1>3
    <2> QED BY <2>1, <2>2 DEF Computes
  <1> QED BY <1>4, <1>5, DispatchStepIsTyped, FoldLink

LEMMA ReadSteps ==
    ASSUME NEW base \in Reading, NEW s \in Seq(Token)
    PROVE  /\ Read(base, s) \in Reading
           /\ Read(base, <<>>) = base
           /\ \A e \in Token : Read(base, Append(s, e)) = Dispatch(Read(base, s), e)
  <1>2. \A u \in Seq(Token) : Read(base, u) = Fold(DispatchStep, base, u)
    BY ReadIsFold
  <1>3. /\ Fold(DispatchStep, base, s) \in Reading /\ Fold(DispatchStep, base, <<>>) = base
        /\ \A e \in Token : Fold(DispatchStep, base, Append(s, e))
              = DispatchStep[<<Fold(DispatchStep, base, s), e>>]
    BY DispatchStepIsTyped, FoldSteps
  <1>4. <<>> \in Seq(Token) /\ \A e \in Token : Append(s, e) \in Seq(Token)
    BY EmptySeq, AppendProperties
  <1>5. Read(base, s) \in Reading /\ Read(base, <<>>) = base
    BY <1>2, <1>3, <1>4
  <1>6. ASSUME NEW e \in Token PROVE Read(base, Append(s, e)) = Dispatch(Read(base, s), e)
    <2>1. Read(base, Append(s, e)) = DispatchStep[<<Read(base, s), e>>]
      BY <1>2, <1>3, <1>4
    <2> QED BY <1>5, <2>1 DEF DispatchStep
  <1> QED BY <1>5, <1>6

-----------------------------------------------------------------------------
(* The boundary of a frame *)

LEMMA LeastNumber ==
    ASSUME NEW T, T \subseteq Nat, T # {}
    PROVE  \E m \in T : \A n \in T : m <= n
  <1>1. PICK m \in T : \A y \in T : ~(<<y, m>> \in OpToRel(<, Nat))
    BY NatLessThanWellFounded, WFMin
  <1>2. ASSUME NEW n \in T PROVE m <= n
    <2>1. m \in Nat /\ n \in Nat
      OBVIOUS
    <2>2. n < m => <<n, m>> \in OpToRel(<, Nat)
      BY <2>1 DEF OpToRel
    <2>3. ~(<<n, m>> \in OpToRel(<, Nat))
      BY <1>1
    <2>4. ~(n < m)
      BY <2>2, <2>3
    <2> QED BY <2>1, <2>4
  <1> QED BY <1>2

LEMMA LineFields ==
    ASSUME NEW s \in Line
    PROVE  /\ Len(s) \in Nat /\ DOMAIN s = 1 .. Len(s)
           /\ \A i \in 1 .. Len(s) : s[i] \in Token
  BY LenProperties, ElementOfSeq DEF Line

LEMMA BlanksTyped == Blanks \subseteq Line
  <1>1. "lf" \in Token /\ "cr" \in Token
    BY DEF Token, LineEnds
  <1> QED BY <1>1 DEF Blanks, Line

LEMMA BoundaryFields ==
    ASSUME NEW s \in Line, NEW b \in Boundaries(s)
    PROVE  /\ b[1] \in 1 .. Len(s) /\ b[2] \in 2 .. 4 /\ b[1] + b[2] <= Len(s) + 1
           /\ b = <<b[1], b[2]>>
           /\ SubSeq(s, b[1], b[1] + b[2] - 1) \in Blanks
  BY DEF Boundaries

\* there is a first boundary, and it is the one that the parser takes
LEMMA FirstBoundary ==
    ASSUME NEW s \in Line, Boundaries(s) # {}
    PROVE  /\ FrameBoundary(s) \in Boundaries(s)
           /\ \A c \in Boundaries(s) : FrameBoundary(s)[1] <= c[1]
  <1> DEFINE T == {b[1] : b \in Boundaries(s)}
  <1>1. T \subseteq Nat /\ T # {}
    BY BoundaryFields
  <1>2. PICK m \in T : \A n \in T : m <= n
    BY <1>1, LeastNumber
  <1> DEFINE U == {b[2] : b \in {c \in Boundaries(s) : c[1] = m}}
  <1>3. U \subseteq Nat /\ U # {}
    BY BoundaryFields
  <1>4. PICK k \in U : \A n \in U : k <= n
    BY <1>3, LeastNumber
  <1>5. PICK b \in Boundaries(s) : b[1] = m /\ b[2] = k
    BY <1>4
  <1>6. ASSUME NEW c \in Boundaries(s)
        PROVE  b[1] < c[1] \/ (b[1] = c[1] /\ b[2] <= c[2])
    <2>1. m \in Nat /\ c[1] \in Nat /\ m <= c[1]
      BY <1>1, <1>2
    <2>2. CASE c[1] = m
      BY <1>4, <1>5, <2>2
    <2>3. CASE c[1] # m
      BY <1>5, <2>1, <2>3
    <2> QED BY <2>2, <2>3
  <1>7. /\ FrameBoundary(s) \in Boundaries(s)
        /\ \A c \in Boundaries(s) :
              FrameBoundary(s)[1] < c[1]
              \/ (FrameBoundary(s)[1] = c[1] /\ FrameBoundary(s)[2] <= c[2])
    BY <1>6 DEF FrameBoundary
  <1>8. \A c \in Boundaries(s) : c[1] \in Nat
    BY BoundaryFields
  <1> QED BY <1>7, <1>8

\* no line feed is followed by a line end
Calm(s) == \A i \in 1 .. Len(s) - 1 : s[i] = "lf" => s[i + 1] \notin LineEnds
\* as the upstream sends it
NoTwoReturns(s) == \A i \in 1 .. Len(s) - 1 : ~(s[i] = "cr" /\ s[i + 1] = "cr")

LEMMA PairIsBoundary ==
    ASSUME NEW s \in Line, NEW i \in 1 .. Len(s) - 1, s[i] = "lf", s[i + 1] \in LineEnds
    PROVE  <<i, 2>> \in Boundaries(s)
  <1>1. Len(s) \in Nat /\ DOMAIN s = 1 .. Len(s) /\ i \in 1 .. Len(s) /\ i + 1 \in 1 .. Len(s)
        /\ i + 2 <= Len(s) + 1
    BY LineFields
  <1>2. SubSeq(s, i, i + 1) = <<s[i], s[i + 1]>>
    <2>1. \A k \in i .. i + 1 : s[k] \in Token
      BY <1>1, LineFields
    <2>2. /\ SubSeq(s, i, i + 1) \in Seq(Token) /\ Len(SubSeq(s, i, i + 1)) = 2
          /\ \A k \in 1 .. 2 : SubSeq(s, i, i + 1)[k] = s[i + k - 1]
      BY <1>1, <2>1, SubSeqProperties
    <2>3. SubSeq(s, i, i + 1)[1] = s[i] /\ SubSeq(s, i, i + 1)[2] = s[i + 1]
      BY <1>1, <2>2
    <2>4. s[i] \in Token /\ s[i + 1] \in Token
      BY <1>1, LineFields
    <2> DEFINE u == SubSeq(s, i, i + 1)
               v == <<s[i], s[i + 1]>>
    <2>5. v \in Seq(Token) /\ Len(v) = 2 /\ v[1] = s[i] /\ v[2] = s[i + 1]
      BY <2>4
    <2>6. \A k \in 1 .. Len(u) : u[k] = v[k]
      BY <2>2, <2>3, <2>5
    <2> HIDE DEF u, v
    <2>7. u = v
      BY <2>2, <2>5, <2>6, SeqEqual DEF u
    <2> QED BY <2>7 DEF u, v
  <1>3. <<s[i], s[i + 1]>> \in Blanks
    BY DEF Blanks, LineEnds
  <1> DEFINE b == <<i, 2>>
  <1>4. b \in (1 .. Len(s)) \X (2 .. 4) /\ b[1] = i /\ b[2] = 2 /\ b[1] + b[2] - 1 = i + 1
        /\ b[1] + b[2] <= Len(s) + 1
    BY <1>1
  <1>5. SubSeq(s, b[1], b[1] + b[2] - 1) \in Blanks
    BY <1>2, <1>3, <1>4
  <1> HIDE DEF b
  <1>6. b \in Boundaries(s)
    BY <1>4, <1>5 DEF Boundaries
  <1> QED BY <1>6 DEF b

LEMMA NoneIsCalm ==
    ASSUME NEW s \in Line, Boundaries(s) = {}
    PROVE  Calm(s)
  BY PairIsBoundary DEF Calm

\* a text up to its first boundary, and behind it
Before(s) == SubSeq(s, 1, FrameBoundary(s)[1] - 1)
Blank(s) == SubSeq(s, FrameBoundary(s)[1], FrameBoundary(s)[1] + FrameBoundary(s)[2] - 1)
After(s) == SubSeq(s, FrameBoundary(s)[1] + FrameBoundary(s)[2], Len(s))

LEMMA InThree ==
    ASSUME NEW s \in Line, Boundaries(s) # {}
    PROVE  /\ Before(s) \in Line /\ Blank(s) \in Blanks /\ After(s) \in Line
           /\ s = (Before(s) \o Blank(s)) \o After(s)
           /\ Len(After(s)) < Len(s)
           /\ Calm(Before(s))
  <1> DEFINE p == FrameBoundary(s)[1]
             n == FrameBoundary(s)[2]
  <1>1. /\ p \in 1 .. Len(s) /\ n \in 2 .. 4 /\ p + n <= Len(s) + 1
        /\ SubSeq(s, p, p + n - 1) \in Blanks
        /\ \A c \in Boundaries(s) : p <= c[1]
    BY FirstBoundary, BoundaryFields
  <1>2. Len(s) \in Nat /\ \A i \in 1 .. Len(s) : s[i] \in Token
    BY LineFields
  <1> HIDE DEF p, n
  <1>3. /\ SubSeq(s, 1, p - 1) \in Line /\ Len(SubSeq(s, 1, p - 1)) = p - 1
        /\ \A i \in 1 .. p - 1 : SubSeq(s, 1, p - 1)[i] = s[i]
    <2>1. p - 1 \in Int /\ \A i \in 1 .. p - 1 : s[i] \in Token
      BY <1>1, <1>2
    <2>2. /\ SubSeq(s, 1, p - 1) \in Seq(Token)
          /\ Len(SubSeq(s, 1, p - 1)) = IF 1 <= p - 1 THEN p - 1 - 1 + 1 ELSE 0
          /\ \A i \in 1 .. p - 1 - 1 + 1 : SubSeq(s, 1, p - 1)[i] = s[1 + i - 1]
      BY <2>1, SubSeqProperties
    <2>3. (IF 1 <= p - 1 THEN p - 1 - 1 + 1 ELSE 0) = p - 1
      BY <1>1
    <2>4. \A i \in 1 .. p - 1 : 1 + i - 1 = i /\ i \in 1 .. p - 1 - 1 + 1
      BY <1>1
    <2> QED BY <2>2, <2>3, <2>4 DEF Line
  <1>4. /\ SubSeq(s, p + n, Len(s)) \in Line
        /\ Len(SubSeq(s, p + n, Len(s))) = Len(s) - (p + n) + 1
    <2>1. p + n \in Int /\ Len(s) \in Int /\ \A i \in p + n .. Len(s) : s[i] \in Token
      BY <1>1, <1>2
    <2>2. /\ SubSeq(s, p + n, Len(s)) \in Seq(Token)
          /\ Len(SubSeq(s, p + n, Len(s)))
                = IF p + n <= Len(s) THEN Len(s) - (p + n) + 1 ELSE 0
      BY <2>1, SubSeqProperties
    <2>3. (IF p + n <= Len(s) THEN Len(s) - (p + n) + 1 ELSE 0) = Len(s) - (p + n) + 1
      BY <1>1, <1>2
    <2> QED BY <2>2, <2>3 DEF Line
  <1>5. SubSeq(s, 1, p - 1) \o SubSeq(s, p, p + n - 1) = SubSeq(s, 1, p + n - 1)
    <2>1. /\ 1 \in 1 .. Len(s) + 1 /\ p - 1 \in 1 - 1 .. Len(s) /\ p + n - 1 \in p - 1 .. Len(s)
          /\ p - 1 + 1 = p
      BY <1>1, <1>2
    <2>2. SubSeq(s, 1, p - 1) \o SubSeq(s, p - 1 + 1, p + n - 1) = SubSeq(s, 1, p + n - 1)
      BY <2>1, ConcatAdjacentSubSeq DEF Line
    <2> QED BY <2>1, <2>2
  <1>6. SubSeq(s, 1, p + n - 1) \o SubSeq(s, p + n, Len(s)) = s
    <2>1. /\ 1 \in 1 .. Len(s) + 1 /\ p + n - 1 \in 1 - 1 .. Len(s)
          /\ Len(s) \in p + n - 1 .. Len(s) /\ p + n - 1 + 1 = p + n
      BY <1>1, <1>2
    <2>2. SubSeq(s, 1, p + n - 1) \o SubSeq(s, p + n - 1 + 1, Len(s)) = SubSeq(s, 1, Len(s))
      BY <2>1, ConcatAdjacentSubSeq DEF Line
    <2>3. SubSeq(s, 1, Len(s)) = s
      BY SubSeqFull DEF Line
    <2> QED BY <2>1, <2>2, <2>3
  <1>7. ASSUME NEW i \in 1 .. p - 1 - 1, s[i] = "lf", s[i + 1] \in LineEnds PROVE FALSE
    <2>1. i \in 1 .. Len(s) - 1
      BY <1>1, <1>2
    <2>2. p <= <<i, 2>>[1]
      BY <1>1, <1>7, <2>1, PairIsBoundary
    <2> QED BY <1>1, <2>2
  <1>8. Calm(SubSeq(s, 1, p - 1))
    <2> SUFFICES ASSUME NEW i \in 1 .. p - 1 - 1
                 PROVE  SubSeq(s, 1, p - 1)[i]
                           = "lf" => SubSeq(s, 1, p - 1)[i + 1] \notin LineEnds
      BY <1>3 DEF Calm
    <2>1. i \in 1 .. p - 1 /\ i + 1 \in 1 .. p - 1
      BY <1>1
    <2> QED BY <1>3, <1>7, <2>1
  <1>9. Len(s) - (p + n) + 1 < Len(s)
    BY <1>1, <1>2
  <1> QED BY <1>1, <1>3, <1>4, <1>5, <1>6, <1>8, <1>9 DEF Before, Blank, After, p, n

-----------------------------------------------------------------------------
(* A block and its frame *)

Event(data) == IF data = <<>> THEN <<>> ELSE <<Frame(Join(data))>>

LEMMA BlockData ==
    ASSUME NEW s \in Line
    PROVE  DataOf(Lines(s)) \in Seq(Line)
  <1>1. Lines(s) \in Seq(Line)
    BY LinesSteps DEF Line, Cuts
  <1> QED BY <1>1, DataSteps

LEMMA FrameIsNoComment ==
    ASSUME NEW data \in Seq(Line)
    PROVE  Frame(Join(data)) \in Datagrams /\ Frame(Join(data)) # Comment
  <1>1. Frame(Join(data)).kind \in {"done", "data"} /\ Comment.kind = "comment"
    BY DEF Frame, Comment
  <1>2. Frame(Join(data)) # Comment
    BY <1>1
  <1> QED BY <1>2 DEF Datagrams

\* a block says what its data lines say
LEMMA BlockSaid ==
    ASSUME NEW s \in Line, NEW fs \in Seq(Frames)
    PROVE  /\ ParseBlock(s) \in Seq(Frames)
           /\ fs \o ParseBlock(s) \in Seq(Frames)
           /\ Said(fs \o ParseBlock(s)) = Said(fs) \o Event(DataOf(Lines(s)))
  <1> DEFINE d == DataOf(Lines(s))
  <1>1. d \in Seq(Line)
    BY BlockData
  <1> HIDE DEF d
  <1>2. Said(fs) \in Seq(Datagrams)
    BY SaidSteps
  <1>3. ASSUME NEW f \in Frames
        PROVE  /\ <<f>> \in Seq(Frames) /\ fs \o <<f>> \in Seq(Frames)
               /\ Said(fs \o <<f>>) = IF f = Comment THEN Said(fs) ELSE Append(Said(fs), f)
    <2>1. Append(fs, f) = fs \o <<f>> /\ Append(fs, f) \in Seq(Frames)
      BY AppendIsConcat, AppendProperties
    <2>2. <<f>> \in Seq(Frames)
      OBVIOUS
    <2>3. Said(Append(fs, f)) = IF f = Comment THEN Said(fs) ELSE Append(Said(fs), f)
      BY SaidSteps
    <2> QED BY <2>1, <2>2, <2>3
  <1>4. /\ <<>> \in Seq(Frames) /\ fs \o <<>> = fs /\ Said(fs) \o <<>> = Said(fs)
    BY <1>2, EmptySeq, ConcatEmptySeq
  <1>5. CASE d # <<>>
    <2> DEFINE f == Frame(Join(d))
    <2>1. ParseBlock(s) = <<f>> /\ Event(d) = <<f>>
      BY <1>5 DEF ParseBlock, Event, d
    <2>2. f \in Datagrams /\ f \in Frames /\ f # Comment
      BY <1>1, FrameIsNoComment DEF Frames
    <2> HIDE DEF f
    <2>3. Append(Said(fs), f) = Said(fs) \o <<f>>
      BY <1>2, <2>2, AppendIsConcat
    <2> QED BY <1>3, <2>1, <2>2, <2>3 DEF d
  <1>6. CASE d = <<>>
    <2>1. Event(d) = <<>>
      BY <1>6 DEF Event
    <2>2. ParseBlock(s) = <<Comment>> \/ ParseBlock(s) = <<>>
      BY <1>6 DEF ParseBlock, d
    <2>3. Comment \in Frames
      BY DEF Frames
    <2>4. CASE ParseBlock(s) = <<Comment>>
      BY <1>3, <1>4, <2>1, <2>3, <2>4 DEF d
    <2>5. CASE ParseBlock(s) = <<>>
      BY <1>4, <2>1, <2>5 DEF d
    <2> QED BY <2>2, <2>4, <2>5
  <1> QED BY <1>5, <1>6

-----------------------------------------------------------------------------
(* What the standard reads *)

\* between two events
Idle == {q \in Reading : q.line = <<>> /\ q.data = <<>>}

LEMMA ReadingFields ==
    ASSUME NEW q \in Reading
    PROVE  /\ q.line \in Line /\ q.data \in Seq(Line) /\ q.cr \in BOOLEAN
           /\ q.events \in Seq(Datagrams)
  BY DEF Reading

\* the ends of a line, in its four cases
LEMMA EndsLine ==
    ASSUME NEW q \in Reading, NEW t \in LineEnds, q.line # <<>>, ~q.cr
    PROVE  LET d == Dispatch(q, t)
           IN  /\ d \in Reading /\ d.line = <<>> /\ d.data = TakeData(q.data, q.line)
               /\ d.cr = (t = "cr") /\ d.events = q.events
  <1>1. TakeData(q.data, q.line) \in Seq(Line) /\ <<>> \in Line
    BY ReadingFields, TakeDataTyped, EmptySeq DEF Line
  <1>2. t \in Token
    BY DEF Token
  <1>3. Dispatch(q, t) \in Reading
    BY <1>2, DispatchTyped
  <1>4. EndOfLine(q) = [q EXCEPT !.line = <<>>, !.data = TakeData(@, q.line)]
    BY DEF EndOfLine
  <1>5. Dispatch(q, t) = [EndOfLine(q) EXCEPT !.cr = (t = "cr")]
    BY DEF Dispatch
  <1> QED BY <1>3, <1>4, <1>5 DEF Reading

LEMMA EndsEvent ==
    ASSUME NEW q \in Reading, NEW t \in LineEnds, q.line = <<>>, ~(t = "lf" /\ q.cr)
    PROVE  LET d == Dispatch(q, t)
           IN  d \in Idle /\ d.cr = (t = "cr") /\ d.events = q.events \o Event(q.data)
  <1>1. t \in Token
    BY DEF Token
  <1>2. Dispatch(q, t) \in Reading
    BY <1>1, DispatchTyped
  <1> DEFINE events == IF q.data = <<>> THEN q.events
                       ELSE Append(q.events, Frame(Join(q.data)))
  <1>3. EndOfLine(q) = [q EXCEPT !.data = <<>>, !.events = events]
    BY DEF EndOfLine
  <1>4. events = q.events \o Event(q.data)
    <2>1. q.events \in Seq(Datagrams) /\ Frame(Join(q.data)) \in Datagrams
      BY ReadingFields, FrameIsNoComment
    <2>2. q.events \o <<>> = q.events
      BY <2>1, ConcatEmptySeq
    <2>3. Append(q.events, Frame(Join(q.data))) = q.events \o <<Frame(Join(q.data))>>
      BY <2>1, AppendIsConcat
    <2> QED BY <2>2, <2>3 DEF Event
  <1> HIDE DEF events
  <1>5. Dispatch(q, t) = [EndOfLine(q) EXCEPT !.cr = (t = "cr")]
    BY DEF Dispatch
  <1>6. /\ Dispatch(q, t).line = <<>> /\ Dispatch(q, t).data = <<>>
        /\ Dispatch(q, t).cr = (t = "cr") /\ Dispatch(q, t).events = events
    BY <1>3, <1>5 DEF Reading
  <1> QED BY <1>2, <1>4, <1>6 DEF Idle

LEMMA EndsNothing ==
    ASSUME NEW q \in Reading, NEW t \in LineEnds, t = "lf", q.line = <<>>, q.cr
    PROVE  LET d == Dispatch(q, t)
           IN  /\ d \in Reading /\ d.line = <<>> /\ d.data = q.data
               /\ ~d.cr /\ d.events = q.events
  <1>1. Dispatch(q, t) = [q EXCEPT !.cr = FALSE]
    BY DEF Dispatch
  <1> QED BY <1>1 DEF Reading

LEMMA StaysIdle ==
    ASSUME NEW q \in Idle, NEW t \in LineEnds
    PROVE  Dispatch(q, t) \in Idle /\ Dispatch(q, t).events = q.events
  <1>1. q \in Reading /\ q.line = <<>> /\ q.data = <<>> /\ q.cr \in BOOLEAN
        /\ q.events \o <<>> = q.events
    <2>1. q \in Reading
      BY DEF Idle
    <2>2. q.events \in Seq(Datagrams)
      BY <2>1, ReadingFields
    <2> QED BY <2>1, <2>2, ReadingFields, ConcatEmptySeq DEF Idle
  <1>2. CASE t = "lf" /\ q.cr
    BY <1>1, <1>2, EndsNothing DEF Idle
  <1>3. CASE ~(t = "lf" /\ q.cr)
    BY <1>1, <1>3, EndsEvent DEF Event
  <1> QED BY <1>2, <1>3

\* an empty line after a block makes its event, however it is written
Ended(q, d) == d \in Idle /\ d.events = q.events \o Event(TakeData(q.data, q.line))

LEMMA FirstEnd ==
    ASSUME NEW q \in Reading, q.line # <<>> => ~q.cr, NEW t \in LineEnds
    PROVE  LET d == Dispatch(q, t)
           IN  \/ Ended(q, d)
               \/ /\ d \in Reading /\ d.line = <<>> /\ d.data = TakeData(q.data, q.line)
                  /\ d.events = q.events
                  /\ d.cr <=> t = "cr"
  <1>1. q.cr \in BOOLEAN
    BY ReadingFields
  <1>2. CASE q.line # <<>>
    BY <1>2, EndsLine
  <1>3. CASE q.line = <<>>
    <2>1. TakeData(q.data, q.line) = q.data
      BY <1>3 DEF TakeData
    <2>2. CASE t = "lf" /\ q.cr
      BY <1>3, <2>1, <2>2, EndsNothing
    <2>3. CASE ~(t = "lf" /\ q.cr)
      BY <1>3, <2>1, <2>3, EndsEvent DEF Ended
    <2> QED BY <2>2, <2>3
  <1> QED BY <1>2, <1>3

LEMMA SecondEnd ==
    ASSUME NEW q \in Reading, NEW d \in Reading, NEW t \in LineEnds,
           d.line = <<>>, d.data = TakeData(q.data, q.line), d.events = q.events,
           ~(t = "lf" /\ d.cr)
    PROVE  Ended(q, Dispatch(d, t))
  BY EndsEvent DEF Ended

LEMMA EndsAgain ==
    ASSUME NEW q \in Reading, NEW d, Ended(q, d), NEW t \in LineEnds
    PROVE  Ended(q, Dispatch(d, t))
  BY StaysIdle DEF Ended

LEMMA AppendTwo ==
    ASSUME NEW T, NEW x \in T, NEW y \in T
    PROVE  Append(<<x>>, y) = <<x, y>> /\ <<x>> \in Seq(T)
  <1> DEFINE u == <<x>>
             v == <<x, y>>
             w == Append(u, y)
  <1>1. u \in Seq(T) /\ Len(u) = 1 /\ u[1] = x
    OBVIOUS
  <1>2. v \in Seq(T) /\ Len(v) = 2 /\ v[1] = x /\ v[2] = y
    OBVIOUS
  <1> HIDE DEF u, v
  <1>0. u \in Seq(T) /\ y \in T
    BY <1>1
  <1>3. /\ w \in Seq(T) /\ Len(w) = Len(u) + 1 /\ w[Len(u) + 1] = y
        /\ \A m \in 1 .. Len(u) : w[m] = u[m]
    BY <1>0, AppendProperties
  <1> HIDE DEF w
  <1>4. \A m \in 1 .. Len(w) : w[m] = v[m]
    BY <1>1, <1>2, <1>3
  <1>5. v \in Seq(T) /\ w \in Seq(T) /\ Len(w) = Len(v)
    BY <1>1, <1>2, <1>3
  <1>6. w = v
    BY <1>4, <1>5, SeqEqual
  <1> QED BY <1>1, <1>6 DEF u, v, w

LEMMA AppendThree ==
    ASSUME NEW T, NEW x \in T, NEW y \in T, NEW z \in T
    PROVE  Append(<<x, y>>, z) = <<x, y, z>> /\ <<x, y>> \in Seq(T)
  <1> DEFINE u == <<x, y>>
             v == <<x, y, z>>
             w == Append(u, z)
  <1>1. u \in Seq(T) /\ Len(u) = 2 /\ u[1] = x /\ u[2] = y
    OBVIOUS
  <1>2. v \in Seq(T) /\ Len(v) = 3 /\ v[1] = x /\ v[2] = y /\ v[3] = z
    OBVIOUS
  <1> HIDE DEF u, v
  <1>0. u \in Seq(T) /\ z \in T
    BY <1>1
  <1>3. /\ w \in Seq(T) /\ Len(w) = Len(u) + 1 /\ w[Len(u) + 1] = z
        /\ \A m \in 1 .. Len(u) : w[m] = u[m]
    BY <1>0, AppendProperties
  <1> HIDE DEF w
  <1>4. \A m \in 1 .. Len(w) : w[m] = v[m]
    BY <1>1, <1>2, <1>3
  <1>5. v \in Seq(T) /\ w \in Seq(T) /\ Len(w) = Len(v)
    BY <1>1, <1>2, <1>3
  <1>6. w = v
    BY <1>4, <1>5, SeqEqual
  <1> QED BY <1>1, <1>6 DEF u, v, w

LEMMA AppendFour ==
    ASSUME NEW T, NEW x \in T, NEW y \in T, NEW z \in T, NEW e \in T
    PROVE  Append(<<x, y, z>>, e) = <<x, y, z, e>> /\ <<x, y, z>> \in Seq(T)
  <1> DEFINE u == <<x, y, z>>
             v == <<x, y, z, e>>
             w == Append(u, e)
  <1>1. u \in Seq(T) /\ Len(u) = 3 /\ u[1] = x /\ u[2] = y /\ u[3] = z
    OBVIOUS
  <1>2. v \in Seq(T) /\ Len(v) = 4 /\ v[1] = x /\ v[2] = y /\ v[3] = z /\ v[4] = e
    OBVIOUS
  <1> HIDE DEF u, v
  <1>0. u \in Seq(T) /\ e \in T
    BY <1>1
  <1>3. /\ w \in Seq(T) /\ Len(w) = Len(u) + 1 /\ w[Len(u) + 1] = e
        /\ \A m \in 1 .. Len(u) : w[m] = u[m]
    BY <1>0, AppendProperties
  <1> HIDE DEF w
  <1>4. \A m \in 1 .. Len(w) : w[m] = v[m]
    BY <1>1, <1>2, <1>3
  <1>5. v \in Seq(T) /\ w \in Seq(T) /\ Len(w) = Len(v)
    BY <1>1, <1>2, <1>3
  <1>6. w = v
    BY <1>4, <1>5, SeqEqual
  <1> QED BY <1>1, <1>6 DEF u, v, w

LEMMA ReadTwo ==
    ASSUME NEW q \in Reading, NEW x \in Token, NEW y \in Token
    PROVE  Read(q, <<x, y>>) = Dispatch(Dispatch(q, x), y)
  <1>1. /\ <<>> \in Seq(Token) /\ Append(<<>>, x) = <<x>>
        /\ <<x>> \in Seq(Token) /\ Append(<<x>>, y) = <<x, y>>
    BY EmptySeq, AppendTwo
  <1>2. Read(q, <<>>) = q /\ Read(q, Append(<<>>, x)) = Dispatch(Read(q, <<>>), x)
    BY <1>1, ReadSteps
  <1>3. Read(q, Append(<<x>>, y)) = Dispatch(Read(q, <<x>>), y)
    BY <1>1, ReadSteps
  <1> QED BY <1>1, <1>2, <1>3

LEMMA ReadMore ==
    ASSUME NEW q \in Reading, NEW x \in Token, NEW y \in Token, NEW z \in Token, NEW e \in Token
    PROVE  /\ Read(q, <<x, y, z>>) = Dispatch(Read(q, <<x, y>>), z)
           /\ Read(q, <<x, y, z, e>>) = Dispatch(Read(q, <<x, y, z>>), e)
  <1>1. /\ <<x, y>> \in Seq(Token) /\ Append(<<x, y>>, z) = <<x, y, z>>
    BY AppendThree
  <1>2. /\ <<x, y, z>> \in Seq(Token) /\ Append(<<x, y, z>>, e) = <<x, y, z, e>>
    BY AppendFour
  <1>3. Read(q, Append(<<x, y>>, z)) = Dispatch(Read(q, <<x, y>>), z)
    BY <1>1, ReadSteps
  <1>4. Read(q, Append(<<x, y, z>>, e)) = Dispatch(Read(q, <<x, y, z>>), e)
    BY <1>2, ReadSteps
  <1> QED BY <1>1, <1>2, <1>3, <1>4

LEMMA BlankEnds ==
    ASSUME NEW q \in Reading, q.line # <<>> => ~q.cr, NEW mid \in Blanks
    PROVE  Ended(q, Read(q, mid))
  <1>1. /\ "lf" \in LineEnds /\ "cr" \in LineEnds /\ "lf" \in Token /\ "cr" \in Token
        /\ "lf" # "cr"
    BY DEF LineEnds, Token
  <1>0. LineEnds \subseteq Token
    BY DEF Token
  <1>2. ASSUME NEW x \in LineEnds, NEW y \in LineEnds, ~(x = "cr" /\ y = "lf")
        PROVE  Ended(q, Read(q, <<x, y>>))
    <2> DEFINE d == Dispatch(q, x)
    <2>1. Read(q, <<x, y>>) = Dispatch(d, y)
      BY <1>0, ReadTwo
    <2>2. CASE Ended(q, d)
      BY <2>1, <2>2, EndsAgain
    <2>3. CASE /\ d \in Reading /\ d.line = <<>> /\ d.data = TakeData(q.data, q.line)
               /\ d.events = q.events /\ (d.cr <=> x = "cr")
      BY <1>2, <2>1, <2>3, SecondEnd
    <2> QED BY <2>2, <2>3, FirstEnd
  <1>3. /\ Read(q, <<"cr", "lf">>) \in Reading
        /\ \/ Ended(q, Read(q, <<"cr", "lf">>))
           \/ LET d == Read(q, <<"cr", "lf">>)
              IN  /\ d.line = <<>> /\ d.data = TakeData(q.data, q.line)
                  /\ d.events = q.events /\ ~d.cr
    <2> DEFINE d == Dispatch(q, "cr")
               e == Read(q, <<"cr", "lf">>)
    <2>1. e = Dispatch(d, "lf")
      BY <1>1, ReadTwo
    <2> HIDE DEF d
    <2>2. CASE Ended(q, d)
      <3>1. Ended(q, e)
        BY <1>1, <2>1, <2>2, EndsAgain
      <3> QED BY <3>1 DEF Ended, Idle
    <2>3. CASE /\ d \in Reading /\ d.line = <<>> /\ d.data = TakeData(q.data, q.line)
               /\ d.events = q.events /\ d.cr
      BY <1>1, <2>1, <2>3, EndsNothing
    <2> QED BY <1>1, <2>2, <2>3, FirstEnd DEF d
  <1>4. ASSUME NEW x \in LineEnds PROVE Ended(q, Read(q, <<"cr", "lf", x>>))
    <2> DEFINE d == Read(q, <<"cr", "lf">>)
    <2>1. Read(q, <<"cr", "lf", x>>) = Dispatch(d, x)
      BY <1>0, <1>1, ReadMore
    <2>2. CASE Ended(q, d)
      BY <2>1, <2>2, EndsAgain
    <2>3. CASE /\ d.line = <<>> /\ d.data = TakeData(q.data, q.line)
               /\ d.events = q.events /\ ~d.cr
      BY <1>3, <2>1, <2>3, SecondEnd
    <2> QED BY <1>3, <2>2, <2>3
  <1>5. Ended(q, Read(q, <<"cr", "lf", "cr", "lf">>))
    <2>1. Read(q, <<"cr", "lf", "cr", "lf">>) = Dispatch(Read(q, <<"cr", "lf", "cr">>), "lf")
      BY <1>1, ReadMore
    <2> QED BY <1>1, <1>4, <2>1, EndsAgain
  <1>6. Ended(q, Read(q, <<"lf", "cr", "lf">>))
    <2>1. Read(q, <<"lf", "cr", "lf">>) = Dispatch(Read(q, <<"lf", "cr">>), "lf")
      BY <1>1, ReadMore
    <2> QED BY <1>1, <1>2, <2>1, EndsAgain
  <1> QED BY <1>1, <1>2, <1>4, <1>5, <1>6 DEF Blanks

-----------------------------------------------------------------------------
(* A text without a boundary: its lines *)

LEMMA CutEnd ==
    ASSUME NEW f \in Seq(Line), NEW line \in Line, NEW t \in Token
    PROVE  Cut(Append(f, line), t) =
              IF t \in LineEnds THEN Append(Append(f, line), <<>>) ELSE Append(f, Append(line, t))
  <1> DEFINE u == Append(f, line)
             more == Append(line, t)
             v == [u EXCEPT ![Len(u)] = more]
             w == Append(f, more)
  <1>1. more \in Line
    BY AppendProperties DEF Line
  <1>2. u \in Seq(Line) /\ Len(u) = Len(f) + 1 /\ u[Len(f) + 1] = line
        /\ \A i \in 1 .. Len(f) : u[i] = f[i]
    BY AppendProperties
  <1>3. Len(f) \in Nat
    BY LenProperties
  <1>4. v = [u EXCEPT ![Len(u)] = Append(@, t)]
    BY <1>2
  <1> HIDE DEF u, more
  <1>5. w \in Seq(Line) /\ Len(w) = Len(f) + 1 /\ w[Len(f) + 1] = more
        /\ \A i \in 1 .. Len(f) : w[i] = f[i]
    BY <1>1, AppendProperties
  <1>6. Len(u) \in 1 .. Len(u)
    BY <1>2, <1>3
  <1>7. /\ v \in Seq(Line) /\ Len(v) = Len(u)
        /\ \A j \in 1 .. Len(u) : v[j] = IF j = Len(u) THEN more ELSE u[j]
    BY <1>1, <1>2, <1>6, ExceptSeq
  <1> HIDE DEF v, w
  <1>8. \A j \in 1 .. Len(v) : v[j] = w[j]
    <2> SUFFICES ASSUME NEW j \in 1 .. Len(f) + 1 PROVE v[j] = w[j]
      BY <1>2, <1>7
    <2>1. j = Len(f) + 1 \/ (j \in 1 .. Len(f) /\ j # Len(f) + 1)
      BY <1>3
    <2> QED BY <1>2, <1>5, <1>7, <2>1
  <1>9. v \in Seq(Line) /\ w \in Seq(Line) /\ Len(v) = Len(w)
    BY <1>2, <1>5, <1>7
  <1>10. v = w
    BY <1>8, <1>9, SeqEqual
  <1> QED BY <1>4, <1>10 DEF Cut, u, more, w

\* what has been read of a text that began between two events
Follows(q, u, d) ==
    /\ \E f \in Seq(Line) : Lines(u) = Append(f, d.line) /\ DataOf(f) = d.data
    /\ d.events = q.events
    /\ d.line # <<>> => ~d.cr
    /\ u = <<>> => d = q
    /\ u # <<>> => /\ d.line = <<>> <=> u[Len(u)] \in LineEnds
                   /\ d.cr <=> u[Len(u)] = "cr"

LEMMA FollowsNothing ==
    ASSUME NEW q \in Idle
    PROVE  Follows(q, <<>>, q)
  <1>1. q \in Reading /\ q.line = <<>> /\ q.data = <<>>
    BY DEF Idle
  <1>2. <<>> \in Seq(Token) /\ <<>> \in Seq(Line) /\ <<>> \in Line
    BY EmptySeq DEF Line
  <1>3. Lines(<<>>) = << <<>> >> /\ DataOf(<<>>) = <<>>
    BY <1>2, LinesSteps, DataSteps
  <1>4. Append(<<>>, <<>>) = << <<>> >>
    BY <1>2
  <1> QED BY <1>1, <1>2, <1>3, <1>4 DEF Follows

LEMMA FollowsNext ==
    ASSUME NEW q \in Idle, NEW u \in Line, NEW t \in Token, NEW d \in Reading, Follows(q, u, d),
           u # <<>> => /\ ~(u[Len(u)] = "lf" /\ t \in LineEnds)
                       /\ ~(u[Len(u)] = "cr" /\ t = "cr")
    PROVE  Follows(q, Append(u, t), Dispatch(d, t))
  <1> DEFINE e == Dispatch(d, t)
             v == Append(u, t)
  <1>1. v # <<>> /\ v[Len(v)] = t /\ Lines(v) = Cut(Lines(u), t)
    <2>1. Len(v) = Len(u) + 1 /\ v[Len(u) + 1] = t /\ v # <<>>
      BY AppendProperties DEF Line
    <2> QED BY <2>1, LinesSteps DEF Line
  <1>2. PICK f \in Seq(Line) : Lines(u) = Append(f, d.line) /\ DataOf(f) = d.data
    BY DEF Follows
  <1>3. d.line \in Line /\ d.cr \in BOOLEAN /\ d.data \in Seq(Line)
    BY ReadingFields
  <1>4. Lines(v) = IF t \in LineEnds THEN Append(Append(f, d.line), <<>>)
                   ELSE Append(f, Append(d.line, t))
    <2>1. Cut(Append(f, d.line), t) = IF t \in LineEnds THEN Append(Append(f, d.line), <<>>)
                                      ELSE Append(f, Append(d.line, t))
      <3> HIDE DEF v, e
      <3> QED BY <1>2, <1>3, CutEnd
    <2> QED BY <1>1, <1>2, <2>1
  <1>5. Append(f, d.line) \in Seq(Line) /\ DataOf(Append(f, d.line)) = TakeData(d.data, d.line)
    BY <1>2, <1>3, AppendProperties, DataSteps
  <1> HIDE DEF v, e
  <1>6. CASE t \notin LineEnds
    <2>1. e = [d EXCEPT !.line = Append(@, t), !.cr = FALSE]
      BY <1>6 DEF Dispatch, e
    <2>2. e.line = Append(d.line, t) /\ e.data = d.data /\ ~e.cr /\ e.events = d.events
      BY <2>1 DEF Reading
    <2>3. e.line # <<>>
      <3>1. Append(d.line, t) # <<>>
        BY <1>3, AppendProperties DEF Line
      <3> QED BY <2>2, <3>1
    <2>4. t # "cr"
      BY <1>6 DEF LineEnds
    <2>5. Lines(v) = Append(f, e.line) /\ DataOf(f) = e.data
      BY <1>2, <1>4, <1>6, <2>2
    <2>6. e.events = q.events
      BY <2>2 DEF Follows
    <2>7. Follows(q, v, e)
      BY <1>1, <1>6, <2>2, <2>3, <2>4, <2>5, <2>6 DEF Follows
    <2> QED BY <2>7 DEF v, e
  <1>7. ASSUME t \in LineEnds, e.line = <<>>, e.data = TakeData(d.data, d.line),
               e.events = q.events, e.cr <=> t = "cr"
        PROVE  Follows(q, v, e)
    <2>1. Lines(v) = Append(Append(f, d.line), e.line) /\ DataOf(Append(f, d.line)) = e.data
      BY <1>4, <1>5, <1>7
    <2>2. \E g \in Seq(Line) : Lines(v) = Append(g, e.line) /\ DataOf(g) = e.data
      BY <1>5, <2>1
    <2> QED BY <1>1, <1>7, <2>2 DEF Follows
  <1>8. d.events = q.events /\ (d.line # <<>> => ~d.cr)
    BY DEF Follows
  <1>9. CASE t \in LineEnds /\ d.line # <<>>
    <2>1. /\ e.line = <<>> /\ e.data = TakeData(d.data, d.line)
          /\ e.cr = (t = "cr") /\ e.events = d.events
      BY <1>8, <1>9, EndsLine DEF e
    <2>2. e.cr <=> t = "cr"
      BY <2>1
    <2> QED BY <1>7, <1>8, <1>9, <2>1, <2>2 DEF v, e
  <1>10. CASE t \in LineEnds /\ d.line = <<>>
    <2>1. TakeData(d.data, d.line) = d.data
      BY <1>10 DEF TakeData
    <2>2. CASE t = "lf" /\ d.cr
      <3>1. e.line = <<>> /\ e.data = d.data /\ ~e.cr /\ e.events = d.events
        BY <1>10, <2>2, EndsNothing DEF e
      <3>2. e.cr <=> t = "cr"
        BY <2>2, <3>1
      <3> QED BY <1>7, <1>8, <1>10, <2>1, <3>1, <3>2 DEF v, e
    <2>3. CASE ~(t = "lf" /\ d.cr)
      <3>1. u = <<>>
        <4> SUFFICES ASSUME u # <<>> PROVE FALSE
          OBVIOUS
        <4>1. u[Len(u)] \in LineEnds /\ (d.cr <=> u[Len(u)] = "cr")
          BY <1>10 DEF Follows
        <4>2. u[Len(u)] = "cr" /\ t = "lf"
          BY <1>10, <4>1 DEF LineEnds
        <4> QED BY <2>3, <4>1, <4>2
      <3>2. d = q /\ d.data = <<>>
        BY <3>1 DEF Follows, Idle
      <3>3. e \in Idle /\ e.cr = (t = "cr") /\ e.events = d.events \o Event(d.data)
        BY <1>10, <2>3, EndsEvent DEF e
      <3>4. d.events \o <<>> = d.events
        BY ReadingFields, ConcatEmptySeq
      <3>5. e.line = <<>> /\ e.data = <<>> /\ e.events = d.events
        BY <3>2, <3>3, <3>4 DEF Idle, Event
      <3>6. e.cr <=> t = "cr"
        BY <3>3
      <3> QED BY <1>7, <1>8, <1>10, <2>1, <3>2, <3>5, <3>6 DEF v, e
    <2> QED BY <2>2, <2>3
  <1> QED BY <1>6, <1>9, <1>10

LEMMA ReadCalm ==
    ASSUME NEW q \in Idle, NEW s \in Line, Calm(s), NoTwoReturns(s)
    PROVE  Read(q, s) \in Reading /\ Follows(q, s, Read(q, s))
  <1> DEFINE Quiet(u) == Calm(u) /\ NoTwoReturns(u)
             G == {u \in Line : Quiet(u) => Follows(q, u, Read(q, u))}
  <1>1. q \in Reading
    BY DEF Idle
  <1>2. <<>> \in Line
    BY EmptySeq DEF Line
  <1>3. <<>> \in G
    <2>1. Read(q, <<>>) = q
      BY <1>1, <1>2, ReadSteps DEF Line
    <2> QED BY <1>2, <2>1, FollowsNothing
  <1>4. ASSUME NEW u \in Line, NEW t \in Token, u \in G PROVE Append(u, t) \in G
    <2> DEFINE v == Append(u, t)
    <2>1. /\ v \in Line /\ Len(v) = Len(u) + 1 /\ v[Len(u) + 1] = t
          /\ \A i \in 1 .. Len(u) : v[i] = u[i]
      BY AppendProperties DEF Line
    <2>2. Len(u) \in Nat /\ (u # <<>> => Len(u) # 0)
      BY EmptySeq, LineFields DEF Line
    <2>3. Read(q, u) \in Reading /\ Read(q, v) = Dispatch(Read(q, u), t)
      BY <1>1, ReadSteps DEF Line
    <2> HIDE DEF v
    <2> SUFFICES ASSUME Quiet(v) PROVE Follows(q, v, Read(q, v))
      BY <2>1 DEF v
    <2>4. \A i \in 1 .. Len(u) : /\ v[i] = "lf" => v[i + 1] \notin LineEnds
                                 /\ ~(v[i] = "cr" /\ v[i + 1] = "cr")
      BY <2>1, <2>2 DEF Calm, NoTwoReturns
    <2>5. Quiet(u)
      <3> SUFFICES ASSUME NEW i \in 1 .. Len(u) - 1
                   PROVE  /\ u[i] = "lf" => u[i + 1] \notin LineEnds
                          /\ ~(u[i] = "cr" /\ u[i + 1] = "cr")
        BY DEF Calm, NoTwoReturns
      <3>1. i \in 1 .. Len(u) /\ i + 1 \in 1 .. Len(u)
        BY <2>2
      <3> QED BY <2>1, <2>4, <3>1
    <2>6. Follows(q, u, Read(q, u))
      BY <1>4, <2>5
    <2>7. ASSUME u # <<>>
          PROVE  ~(u[Len(u)] = "lf" /\ t \in LineEnds) /\ ~(u[Len(u)] = "cr" /\ t = "cr")
      <3>1. Len(u) \in 1 .. Len(u)
        BY <2>2, <2>7
      <3> QED BY <2>1, <2>4, <3>1
    <2>8. Follows(q, v, Dispatch(Read(q, u), t))
      BY <2>3, <2>6, <2>7, FollowsNext DEF v
    <2> QED BY <2>3, <2>8
  <1> HIDE DEF G
  <1>5. s \in G
    BY <1>2, <1>3, <1>4, SeqInduction DEF Line
  <1> QED BY <1>1, <1>5, ReadSteps DEF G, Line

\* that is, its data lines have been read, the last of them perhaps not to its end
LEMMA ReadBlock ==
    ASSUME NEW q \in Idle, NEW s \in Line, Calm(s), NoTwoReturns(s)
    PROVE  LET d == Read(q, s)
           IN  /\ d \in Reading /\ d.events = q.events /\ (d.line # <<>> => ~d.cr)
               /\ TakeData(d.data, d.line) = DataOf(Lines(s))
  <1> DEFINE d == Read(q, s)
  <1>1. d \in Reading /\ Follows(q, s, d)
    BY ReadCalm
  <1> HIDE DEF d
  <1>2. PICK f \in Seq(Line) : Lines(s) = Append(f, d.line) /\ DataOf(f) = d.data
    BY <1>1 DEF Follows
  <1>3. DataOf(Append(f, d.line)) = TakeData(DataOf(f), d.line)
    BY <1>1, ReadingFields, DataSteps
  <1>4. d.events = q.events /\ (d.line # <<>> => ~d.cr)
    BY <1>1 DEF Follows
  <1> QED BY <1>1, <1>2, <1>3, <1>4 DEF d

-----------------------------------------------------------------------------
(* The loop of push *)

LEMMA ReturnsOfConcat ==
    ASSUME NEW x \in Line, NEW y \in Line, NoTwoReturns(x \o y)
    PROVE  NoTwoReturns(x) /\ NoTwoReturns(y)
  <1> DEFINE s == x \o y
  <1>1. /\ Len(s) = Len(x) + Len(y)
        /\ \A i \in 1 .. Len(x) + Len(y) : s[i] = IF i <= Len(x) THEN x[i] ELSE y[i - Len(x)]
    BY ConcatProperties DEF Line
  <1>2. Len(x) \in Nat /\ Len(y) \in Nat
    BY LineFields
  <1>0. NoTwoReturns(s)
    OBVIOUS
  <1> HIDE DEF s
  <1>3. \A i \in 1 .. Len(x) + Len(y) - 1 : ~(s[i] = "cr" /\ s[i + 1] = "cr")
    BY <1>0, <1>1 DEF NoTwoReturns
  <1>4. ASSUME NEW i \in 1 .. Len(x) - 1 PROVE ~(x[i] = "cr" /\ x[i + 1] = "cr")
    <2>1. /\ i \in 1 .. Len(x) + Len(y) - 1 /\ i \in 1 .. Len(x) + Len(y)
          /\ i + 1 \in 1 .. Len(x) + Len(y) /\ i <= Len(x) /\ i + 1 <= Len(x)
      BY <1>2
    <2> QED BY <1>1, <1>3, <2>1
  <1>5. ASSUME NEW i \in 1 .. Len(y) - 1 PROVE ~(y[i] = "cr" /\ y[i + 1] = "cr")
    <2> DEFINE k == Len(x) + i
    <2>1. /\ k \in 1 .. Len(x) + Len(y) - 1 /\ k \in 1 .. Len(x) + Len(y)
          /\ k + 1 \in 1 .. Len(x) + Len(y) /\ ~(k <= Len(x)) /\ ~(k + 1 <= Len(x))
          /\ k - Len(x) = i /\ k + 1 - Len(x) = i + 1
      BY <1>2
    <2> HIDE DEF k
    <2>2. s[k] = y[i] /\ s[k + 1] = y[i + 1]
      BY <1>1, <2>1
    <2> QED BY <1>3, <2>1, <2>2
  <1> QED BY <1>4, <1>5 DEF NoTwoReturns

LEMMA ReadConcat ==
    ASSUME NEW q \in Reading, NEW x \in Line, NEW y \in Line
    PROVE  /\ Read(q, x) \in Reading
           /\ Read(q, x \o y) = Read(Read(q, x), y)
           /\ Read(q, <<>>) = q
  <1>1. Read(q, x) \in Reading
    BY ReadSteps DEF Line
  <1>2. x \o y \in Line /\ <<>> \in Line
    BY ConcatProperties, EmptySeq DEF Line
  <1>3. /\ Read(q, x) = Fold(DispatchStep, q, x)
        /\ Read(q, x \o y) = Fold(DispatchStep, q, x \o y)
        /\ Read(Read(q, x), y) = Fold(DispatchStep, Read(q, x), y)
    BY <1>1, <1>2, ReadIsFold DEF Line
  <1>4. Fold(DispatchStep, q, x \o y) = Fold(DispatchStep, Fold(DispatchStep, q, x), y)
    BY DispatchStepIsTyped, FoldOfConcat DEF Line
  <1>5. Read(q, <<>>) = q
    BY <1>2, ReadSteps DEF Line
  <1> QED BY <1>1, <1>3, <1>4, <1>5

LEMMA EventTyped ==
    ASSUME NEW s \in Line
    PROVE  Event(DataOf(Lines(s))) \in Seq(Datagrams)
  <1>1. DataOf(Lines(s)) \in Seq(Line)
    BY BlockData
  <1>2. <<Frame(Join(DataOf(Lines(s))))>> \in Seq(Datagrams)
    BY <1>1, FrameIsNoComment
  <1> QED BY <1>2, EmptySeq DEF Event

\* up to its first boundary a text is one event
LEMMA NextReads ==
    ASSUME NEW q \in Idle, NEW s \in Line, NoTwoReturns(s), Boundaries(s) # {}
    PROVE  /\ NoTwoReturns(After(s))
           /\ \E x \in Line :
                 /\ s = x \o After(s) /\ Read(q, x) \in Idle
                 /\ Read(q, x).events = q.events \o Event(DataOf(Lines(Before(s))))
  <1> DEFINE x == Before(s) \o Blank(s)
             d == Read(q, Before(s))
  <1>1. /\ Before(s) \in Line /\ Blank(s) \in Line /\ Blank(s) \in Blanks /\ After(s) \in Line
        /\ s = x \o After(s) /\ Calm(Before(s))
    BY InThree, BlanksTyped
  <1>2. x \in Line
    BY <1>1, ConcatProperties DEF Line
  <1>3. NoTwoReturns(After(s)) /\ NoTwoReturns(Before(s))
    <2>1. NoTwoReturns(x) /\ NoTwoReturns(After(s))
      <3> HIDE DEF x
      <3> QED BY <1>1, <1>2, ReturnsOfConcat
    <2> QED BY <1>1, <2>1, ReturnsOfConcat
  <1>4. /\ d \in Reading /\ d.events = q.events /\ (d.line # <<>> => ~d.cr)
        /\ TakeData(d.data, d.line) = DataOf(Lines(Before(s)))
    BY <1>1, <1>3, ReadBlock
  <1>5. Read(q, x) = Read(d, Blank(s))
    BY <1>1, ReadConcat DEF Idle
  <1>6. Ended(d, Read(d, Blank(s)))
    <2> HIDE DEF d
    <2> QED BY <1>1, <1>4, BlankEnds
  <1>7. Read(q, x) \in Idle /\ Read(q, x).events = q.events \o Event(DataOf(Lines(Before(s))))
    BY <1>4, <1>5, <1>6 DEF Ended
  <1> HIDE DEF x
  <1> QED BY <1>1, <1>2, <1>3, <1>7

Parses == [rest : Line, frames : Seq(Frames)]
ParseStep == [q \in Parses \X Token |-> NextFrame(q[1])]

LEMMA NextFrameIs ==
    ASSUME NEW p \in Parses
    PROVE  NextFrame(p) = IF Boundaries(p.rest) = {} THEN p
                          ELSE [rest |-> After(p.rest),
                                frames |-> p.frames \o ParseBlock(Before(p.rest))]
  BY DEF NextFrame, After, Before

LEMMA NextFrameTyped ==
    ASSUME NEW p \in Parses
    PROVE  NextFrame(p) \in Parses
  <1>1. p.rest \in Line /\ p.frames \in Seq(Frames)
    BY DEF Parses
  <1>2. ASSUME Boundaries(p.rest) # {}
        PROVE  NextFrame(p) \in Parses
    <2> DEFINE rest == After(p.rest)
               fs == p.frames \o ParseBlock(Before(p.rest))
    <2>1. rest \in Line /\ fs \in Seq(Frames)
      BY <1>1, <1>2, InThree, BlockSaid
    <2>2. NextFrame(p) = [rest |-> rest, frames |-> fs]
      BY <1>2, NextFrameIs
    <2> HIDE DEF rest, fs
    <2> QED BY <2>1, <2>2 DEF Parses
  <1>3. ASSUME Boundaries(p.rest) = {} PROVE NextFrame(p) \in Parses
    BY <1>3, NextFrameIs
  <1> QED BY <1>2, <1>3

LEMMA ParseStepIsTyped == ParseStep \in Steps(Parses, Token)
  BY NextFrameTyped DEF ParseStep, Steps

LEMMA ParsedIsFold ==
    ASSUME NEW base \in Parses, NEW s \in Seq(Token)
    PROVE  FoldLeft(LAMBDA p, t : NextFrame(p), base, s) = Fold(ParseStep, base, s)
  <1> DEFINE Runs(g) ==
        g = [t \in SUBSET DOMAIN s |->
                IF t = {} THEN base ELSE NextFrame(g[t \ {Max(t)}])]
  <1>1. PICK g \in [SUBSET DOMAIN s -> Parses] : IsFold(g, ParseStep, base, s)
    BY ParseStepIsTyped, TableExists
  <1>2. Runs(g)
    <2>1. ASSUME NEW t \in SUBSET DOMAIN s, t # {}
          PROVE  ParseStep[<<g[t \ {Max(t)}], s[Max(t)]>>] = NextFrame(g[t \ {Max(t)}])
      <3>1. s[Max(t)] \in Token /\ g[t \ {Max(t)}] \in Parses
        BY <1>1, <2>1, ElementOfTable
      <3> QED BY <3>1 DEF ParseStep
    <2> QED BY <1>1, <2>1 DEF IsFold
  <1> DEFINE h == CHOOSE h : Runs(h)
  <1>3. Runs(h)
    BY <1>2
  <1>4. FoldLeft(LAMBDA p, t : NextFrame(p), base, s) = h[DOMAIN s]
    BY DEF FoldLeft, MapThenFoldSet
  <1> HIDE DEF h
  <1>5. Computes(h, Parses, ParseStep, base, s)
    <2>1. ASSUME NEW t \in SUBSET DOMAIN s, t # {}, h[t \ {Max(t)}] \in Parses
          PROVE  h[t] = ParseStep[<<h[t \ {Max(t)}], s[Max(t)]>>]
      <3>1. s[Max(t)] \in Token
        BY <2>1, ElementOfTable
      <3>2. h[t] = NextFrame(h[t \ {Max(t)}])
        BY <1>3, <2>1
      <3> QED BY <2>1, <3>1, <3>2 DEF ParseStep
    <2>2. h[{}] = base
      BY <1>3
    <2> QED BY <2>1, <2>2 DEF Computes
  <1>6. h[DOMAIN s] = Fold(ParseStep, base, s)
    BY <1>5, ParseStepIsTyped, FoldLink
  <1> QED BY <1>4, <1>6

\* after n turns of the loop
Loop(q, s, n, p) ==
    /\ NoTwoReturns(p.rest)
    /\ Boundaries(p.rest) = {} \/ Len(p.rest) + n <= Len(s)
    /\ \E x \in Line : /\ s = x \o p.rest /\ Read(q, x) \in Idle
                       /\ Read(q, x).events = q.events \o Said(p.frames)

LEMMA LoopStarts ==
    ASSUME NEW q \in Idle, NEW s \in Line, NoTwoReturns(s)
    PROVE  Loop(q, s, 0, [rest |-> s, frames |-> <<>>])
  <1>1. <<>> \in Line /\ <<>> \o s = s /\ Len(s) \in Nat
    BY EmptySeq, ConcatEmptySeq, LineFields DEF Line
  <1>2. q \in Reading
    BY DEF Idle
  <1>3. Read(q, <<>>) = q
    BY <1>1, <1>2, ReadConcat
  <1>4. <<>> \in Seq(Frames)
    BY EmptySeq
  <1>5. Said(<<>>) = <<>> /\ q.events \o <<>> = q.events
    BY <1>2, <1>4, SaidSteps, ReadingFields, ConcatEmptySeq
  <1> DEFINE p == [rest |-> s, frames |-> <<>>]
  <1>6. p.rest = s /\ p.frames = <<>>
    OBVIOUS
  <1> HIDE DEF p
  <1>7. Len(p.rest) + 0 <= Len(s)
    BY <1>1, <1>6
  <1>8. Loop(q, s, 0, p)
    BY <1>1, <1>3, <1>5, <1>6, <1>7 DEF Loop
  <1> QED BY <1>8 DEF p

LEMMA LoopTurns ==
    ASSUME NEW q \in Idle, NEW s \in Line, NEW n \in Nat, NEW p \in Parses, Loop(q, s, n, p)
    PROVE  Loop(q, s, n + 1, NextFrame(p))
  <1>1. p.rest \in Line /\ p.frames \in Seq(Frames)
    BY DEF Parses
  <1>2. PICK x \in Line : /\ s = x \o p.rest /\ Read(q, x) \in Idle
                          /\ Read(q, x).events = q.events \o Said(p.frames)
    BY DEF Loop
  <1>3. CASE Boundaries(p.rest) = {}
    BY <1>3, NextFrameIs DEF Loop
  <1>4. CASE Boundaries(p.rest) # {}
    <2> DEFINE e == Read(q, x)
               more == Event(DataOf(Lines(Before(p.rest))))
               fs == p.frames \o ParseBlock(Before(p.rest))
    <2>1. NoTwoReturns(p.rest)
      BY DEF Loop
    <2>2. PICK y \in Line : /\ p.rest = y \o After(p.rest) /\ Read(e, y) \in Idle
                            /\ Read(e, y).events = e.events \o more
      BY <1>1, <1>2, <1>4, <2>1, NextReads
    <2>3. NoTwoReturns(After(p.rest))
      BY <1>1, <1>2, <1>4, <2>1, NextReads
    <2>4. After(p.rest) \in Line /\ Before(p.rest) \in Line /\ Len(After(p.rest)) < Len(p.rest)
      BY <1>1, <1>4, InThree
    <2>5. s = (x \o y) \o After(p.rest) /\ x \o y \in Line
      <3> DEFINE z == After(p.rest)
      <3>1. z \in Line /\ s = x \o (y \o z)
        BY <1>2, <2>2, <2>4
      <3> HIDE DEF e, more, fs, z
      <3>2. x \o y \in Line
        BY ConcatProperties DEF Line
      <3>3. x \in Seq(Token) /\ y \in Seq(Token) /\ z \in Seq(Token)
        BY <3>1 DEF Line
      <3>4. x \o (y \o z) = (x \o y) \o z
        BY <3>3, ConcatAssociative
      <3> QED BY <3>1, <3>2, <3>4 DEF z
    <2>6. q \in Reading /\ Read(q, x \o y) = Read(e, y)
      BY <1>2, <2>2, ReadConcat DEF Idle
    <2>7. /\ fs \in Seq(Frames) /\ Said(fs) = Said(p.frames) \o more
          /\ more \in Seq(Datagrams) /\ Said(p.frames) \in Seq(Datagrams)
      BY <1>1, <2>4, BlockSaid, EventTyped, SaidSteps
    <2>8. q.events \in Seq(Datagrams)
      BY <2>6, ReadingFields
    <2>9. (q.events \o Said(p.frames)) \o more = q.events \o (Said(p.frames) \o more)
      <3> DEFINE a == q.events
                 b == Said(p.frames)
      <3>1. a \in Seq(Datagrams) /\ b \in Seq(Datagrams) /\ more \in Seq(Datagrams)
        BY <2>7, <2>8
      <3> HIDE DEF e, more, fs, a, b
      <3>2. (a \o b) \o more = a \o (b \o more)
        BY <3>1, ConcatAssociative
      <3> QED BY <3>2 DEF a, b
    <2>10. Read(q, x \o y) \in Idle /\ Read(q, x \o y).events = q.events \o Said(fs)
      BY <1>2, <2>2, <2>6, <2>7, <2>9
    <2>11. Len(After(p.rest)) + (n + 1) <= Len(s)
      <3>1. Len(p.rest) + n <= Len(s)
        BY <1>4 DEF Loop
      <3>2. Len(p.rest) \in Nat /\ Len(After(p.rest)) \in Nat /\ Len(s) \in Nat
        BY <1>1, <2>4, LineFields
      <3> QED BY <2>4, <3>1, <3>2
    <2>12. NextFrame(p) = [rest |-> After(p.rest), frames |-> fs]
      BY <1>4, NextFrameIs
    <2> DEFINE z == NextFrame(p)
    <2> HIDE DEF fs
    <2>13. z.rest = After(p.rest) /\ z.frames = fs
      BY <2>12
    <2> HIDE DEF z
    <2> QED BY <2>3, <2>5, <2>10, <2>11, <2>13 DEF Loop, z
  <1> QED BY <1>3, <1>4

LEMMA LoopEnds ==
    ASSUME NEW q \in Idle, NEW s \in Line, NoTwoReturns(s)
    PROVE  /\ Parsed(s) \in Parses
           /\ Boundaries(Parsed(s).rest) = {}
           /\ Loop(q, s, Len(s), Parsed(s))
  <1> DEFINE base == [rest |-> s, frames |-> <<>>]
             F(u) == Fold(ParseStep, base, u)
             G == {u \in Line : Loop(q, s, Len(u), F(u))}
  <1>1. base \in Parses
    BY EmptySeq DEF Parses
  <1>2. <<>> \in Line /\ Len(<<>>) = 0
    BY EmptySeq DEF Line
  <1>3. Loop(q, s, 0, base)
    BY LoopStarts
  <1> HIDE DEF base
  <1>4. /\ F(<<>>) = base
        /\ \A u \in Line : F(u) \in Parses
        /\ \A u \in Line, t \in Token : F(Append(u, t)) = ParseStep[<<F(u), t>>]
    BY <1>1, <1>2, ParseStepIsTyped, FoldSteps DEF Line
  <1> HIDE DEF F
  <1>5. <<>> \in G
    BY <1>2, <1>3, <1>4
  <1>6. ASSUME NEW u \in Line, NEW t \in Token, u \in G PROVE Append(u, t) \in G
    <2>1. Append(u, t) \in Line /\ Len(Append(u, t)) = Len(u) + 1 /\ Len(u) \in Nat
      BY AppendProperties, LineFields DEF Line
    <2>2. F(Append(u, t)) = NextFrame(F(u)) /\ F(u) \in Parses
      BY <1>4 DEF ParseStep
    <2>3. Loop(q, s, Len(u) + 1, NextFrame(F(u)))
      BY <1>6, <2>1, <2>2, LoopTurns
    <2> QED BY <2>1, <2>2, <2>3
  <1> HIDE DEF G
  <1>7. s \in G
    BY <1>2, <1>5, <1>6, SeqInduction DEF Line
  <1>8. Parsed(s) = F(s)
    <2>1. FoldLeft(LAMBDA p, t : NextFrame(p), base, s) = Fold(ParseStep, base, s)
      BY <1>1, ParsedIsFold DEF Line
    <2> QED BY <2>1 DEF Parsed, F, base
  <1>9. F(s) \in Parses /\ Loop(q, s, Len(s), F(s))
    BY <1>4, <1>7 DEF G
  <1>10. Boundaries(F(s).rest) = {}
    <2>1. F(s).rest \in Line
      BY <1>9 DEF Parses
    <2>2. Len(F(s).rest) \in Nat /\ Len(s) \in Nat
      BY <2>1, LineFields
    <2>3. CASE Len(F(s).rest) + Len(s) <= Len(s)
      <3>1. Len(F(s).rest) = 0
        BY <2>2, <2>3
      <3> QED BY <3>1 DEF Boundaries
    <2> QED BY <1>9, <2>3 DEF Loop
  <1> QED BY <1>8, <1>9, <1>10

-----------------------------------------------------------------------------
(* The frames are the events *)

LEMMA NothingSaid == <<>> \in Seq(Frames) /\ Said(<<>>) = <<>>
  BY EmptySeq, SaidSteps

LEMMA SaidOfConcat ==
    ASSUME NEW fs \in Seq(Frames), NEW gs \in Seq(Frames)
    PROVE  fs \o gs \in Seq(Frames) /\ Said(fs \o gs) = Said(fs) \o Said(gs)
  <1> DEFINE G == {u \in Seq(Frames) : fs \o u \in Seq(Frames)
                                       /\ Said(fs \o u) = Said(fs) \o Said(u)}
  <1>1. Said(fs) \in Seq(Datagrams) /\ \A u \in Seq(Frames) : Said(u) \in Seq(Datagrams)
    BY SaidSteps
  <1>2. <<>> \in G
    <2>1. fs \o <<>> = fs /\ Said(fs) \o <<>> = Said(fs)
      BY <1>1, ConcatEmptySeq
    <2> QED BY <2>1, NothingSaid
  <1>3. ASSUME NEW u \in Seq(Frames), NEW f \in Frames, u \in G PROVE Append(u, f) \in G
    <2>1. /\ Append(u, f) \in Seq(Frames) /\ fs \o Append(u, f) = Append(fs \o u, f)
          /\ Append(fs \o u, f) \in Seq(Frames)
      <3>1. fs \o u \in Seq(Frames)
        BY <1>3
      <3>2. Append(u, f) \in Seq(Frames) /\ Append(fs \o u, f) \in Seq(Frames)
        BY <3>1, AppendProperties
      <3>3. fs \o Append(u, f) = Append(fs \o u, f)
        BY ConcatAppend
      <3> QED BY <3>2, <3>3
    <2>2. Said(fs \o Append(u, f))
             = IF f = Comment THEN Said(fs \o u) ELSE Append(Said(fs \o u), f)
      BY <1>3, <2>1, SaidSteps
    <2>3. Said(Append(u, f)) = IF f = Comment THEN Said(u) ELSE Append(Said(u), f)
      BY SaidSteps
    <2>4. ASSUME f # Comment PROVE Append(Said(fs) \o Said(u), f) = Said(fs) \o Append(Said(u), f)
      <3>1. f \in Datagrams /\ Said(u) \in Seq(Datagrams)
        BY <1>1, <2>4 DEF Frames
      <3>2. \A x, y \in Seq(Datagrams), e \in Datagrams :
               x \o Append(y, e) = Append(x \o y, e)
        BY ConcatAppend
      <3> QED BY <1>1, <3>1, <3>2
    <2>5. Said(fs \o Append(u, f)) = Said(fs) \o Said(Append(u, f))
      BY <1>3, <2>2, <2>3, <2>4
    <2> QED BY <2>1, <2>5
  <1> HIDE DEF G
  <1>4. gs \in G
    BY <1>2, <1>3, SeqInduction
  <1> QED BY <1>4 DEF G

LEMMA StartIsIdle == Start \in Idle /\ Start.events = <<>>
  <1>1. <<>> \in Line /\ <<>> \in Seq(Line) /\ <<>> \in Seq(Datagrams)
    BY EmptySeq DEF Line
  <1> QED BY <1>1 DEF Start, Idle, Reading

LEMMA AtEnd ==
    ASSUME NEW s \in Line, NEW d \in Reading, d = Read(Start, s)
    PROVE  EventsAtEnd(s) = d.events \o Event(TakeData(d.data, d.line))
  <1> DEFINE whole == IF d.line = <<>> THEN d ELSE EndOfLine(d)
  <1>1. EventsAtEnd(s) = EndOfLine(whole).events
    BY DEF EventsAtEnd, Read
  <1>2. whole \in Reading /\ whole.line = <<>> /\ whole.events = d.events
        /\ whole.data = TakeData(d.data, d.line)
    <2>1. CASE d.line = <<>>
      BY <2>1 DEF TakeData
    <2>2. CASE d.line # <<>>
      <3>1. "lf" \in Token
        BY DEF Token, LineEnds
      <3>2. EndOfLine(d) \in Reading
        BY <3>1, DispatchTyped
      <3>3. EndOfLine(d) = [d EXCEPT !.line = <<>>, !.data = TakeData(@, d.line)]
        BY <2>2 DEF EndOfLine
      <3> QED BY <2>2, <3>2, <3>3 DEF Reading
    <2> QED BY <2>1, <2>2
  <1> HIDE DEF whole
  <1>3. EndOfLine(whole).events = whole.events \o Event(whole.data)
    <2> DEFINE events == IF whole.data = <<>> THEN whole.events
                         ELSE Append(whole.events, Frame(Join(whole.data)))
    <2>1. EndOfLine(whole) = [whole EXCEPT !.data = <<>>, !.events = events]
      BY <1>2 DEF EndOfLine
    <2>2. EndOfLine(whole).events = events
      <3> HIDE DEF events
      <3> QED BY <1>2, <2>1 DEF Reading
    <2>3. whole.events \in Seq(Datagrams) /\ Frame(Join(whole.data)) \in Datagrams
      BY <1>2, ReadingFields, FrameIsNoComment
    <2>4. whole.events \o <<>> = whole.events
      BY <2>3, ConcatEmptySeq
    <2>5. Append(whole.events, Frame(Join(whole.data)))
             = whole.events \o <<Frame(Join(whole.data))>>
      BY <2>3, AppendIsConcat
    <2> QED BY <2>2, <2>4, <2>5 DEF Event
  <1> QED BY <1>1, <1>2, <1>3

\* what a text says up to an event, with the rest of it in the buffer
Says(text, rest, fs) ==
    /\ Boundaries(rest) = {}
    /\ \E r \in Line : /\ text = r \o rest /\ Read(Start, r) \in Idle
                       /\ Read(Start, r).events = Said(fs)

\* nothing of the rest is an event yet, and at the end it is what its block says
LEMMA RestIsRead ==
    ASSUME NEW text \in Line, NEW rest \in Line, NEW fs \in Seq(Frames),
           Says(text, rest, fs), NoTwoReturns(text)
    PROVE  /\ Events(text) = Said(fs)
           /\ EventsAtEnd(text) = Said(fs \o ParseBlock(rest))
           /\ fs \o ParseBlock(rest) \in Seq(Frames)
  <1>1. PICK r \in Line : /\ text = r \o rest /\ Read(Start, r) \in Idle
                          /\ Read(Start, r).events = Said(fs)
    BY DEF Says
  <1> DEFINE q == Read(Start, r)
             d == Read(q, rest)
  <1>2. Calm(rest)
    BY NoneIsCalm DEF Says
  <1>3. NoTwoReturns(rest)
    BY <1>1, ReturnsOfConcat
  <1>4. Read(Start, text) = d
    BY <1>1, StartIsIdle, ReadConcat DEF Idle
  <1>5. /\ d \in Reading /\ d.events = q.events
        /\ TakeData(d.data, d.line) = DataOf(Lines(rest))
    <2> HIDE DEF q
    <2>1. q \in Idle
      BY <1>1 DEF q
    <2> QED BY <1>2, <1>3, <2>1, ReadBlock
  <1>6. Events(text) = d.events
    BY <1>4 DEF Events, Read
  <1> HIDE DEF d
  <1>7. EventsAtEnd(text) = d.events \o Event(DataOf(Lines(rest)))
    BY <1>4, <1>5, AtEnd
  <1>8. Said(fs \o ParseBlock(rest)) = Said(fs) \o Event(DataOf(Lines(rest)))
        /\ fs \o ParseBlock(rest) \in Seq(Frames)
    BY BlockSaid
  <1> QED BY <1>1, <1>5, <1>6, <1>7, <1>8

\* push, for any text that comes
LEMMA PushSays ==
    ASSUME NEW text \in Line, NEW rest \in Line, NEW fs \in Seq(Frames), NEW chunk \in Line,
           Says(text, rest, fs), NoTwoReturns(text \o chunk)
    PROVE  LET p == Parsed(rest \o chunk)
           IN  /\ p.rest \in Line /\ fs \o p.frames \in Seq(Frames)
               /\ Says(text \o chunk, p.rest, fs \o p.frames)
  <1> DEFINE s == rest \o chunk
             p == Parsed(s)
  <1>1. PICK r \in Line : /\ text = r \o rest /\ Read(Start, r) \in Idle
                          /\ Read(Start, r).events = Said(fs)
    BY DEF Says
  <1> DEFINE q == Read(Start, r)
  <1>2. s \in Line /\ text \o chunk = r \o s
    <2>1. /\ r \in Seq(Token) /\ rest \in Seq(Token) /\ chunk \in Seq(Token)
      BY DEF Line
    <2>2. (r \o rest) \o chunk = r \o (rest \o chunk)
      BY <2>1, ConcatAssociative
    <2>3. s \in Line
      BY ConcatProperties DEF Line
    <2> QED BY <1>1, <2>2, <2>3
  <1> HIDE DEF s
  <1>3. NoTwoReturns(s)
    BY <1>2, ReturnsOfConcat
  <1>4. /\ p \in Parses /\ Boundaries(p.rest) = {} /\ Loop(q, s, Len(s), p)
    <2> HIDE DEF q
    <2>1. q \in Idle
      BY <1>1 DEF q
    <2> QED BY <1>2, <1>3, <2>1, LoopEnds
  <1> HIDE DEF p
  <1>5. p.rest \in Line /\ p.frames \in Seq(Frames)
    BY <1>4 DEF Parses
  <1>6. PICK x \in Line : /\ s = x \o p.rest /\ Read(q, x) \in Idle
                          /\ Read(q, x).events = q.events \o Said(p.frames)
    BY <1>4 DEF Loop
  <1> DEFINE y == r \o x
             rest2 == p.rest
  <1>7. y \in Line /\ text \o chunk = y \o p.rest
    <2>1. /\ r \in Seq(Token) /\ x \in Seq(Token) /\ rest2 \in Seq(Token)
      BY <1>5 DEF Line
    <2>4. s = x \o rest2
      BY <1>6
    <2> HIDE DEF rest2
    <2>2. (r \o x) \o rest2 = r \o (x \o rest2)
      BY <2>1, ConcatAssociative
    <2>3. y \in Line
      BY ConcatProperties DEF Line
    <2> QED BY <1>2, <2>2, <2>3, <2>4 DEF rest2
  <1>8. Read(Start, y) = Read(q, x)
    BY StartIsIdle, ReadConcat DEF Idle
  <1>9. fs \o p.frames \in Seq(Frames) /\ Said(fs \o p.frames) = Said(fs) \o Said(p.frames)
    BY <1>5, SaidOfConcat
  <1>10. Read(Start, y) \in Idle /\ Read(Start, y).events = Said(fs \o p.frames)
    BY <1>1, <1>6, <1>8, <1>9
  <1> HIDE DEF y
  <1>11. Says(text \o chunk, p.rest, fs \o p.frames)
    BY <1>4, <1>7, <1>10 DEF Says
  <1> QED BY <1>5, <1>9, <1>11 DEF p, s

\* no token sent makes a carriage return follow another
LEMMA SentReturns ==
    ASSUME NEW s \in Line, NEW t \in Token, NoTwoReturns(s),
           ~(t = "cr" /\ s # <<>> /\ s[Len(s)] = "cr")
    PROVE  Append(s, t) \in Line /\ NoTwoReturns(Append(s, t))
  <1> DEFINE v == Append(s, t)
  <1>1. /\ v \in Line /\ Len(v) = Len(s) + 1 /\ v[Len(s) + 1] = t
        /\ \A i \in 1 .. Len(s) : v[i] = s[i]
    BY AppendProperties DEF Line
  <1>2. Len(s) \in Nat /\ (Len(s) # 0 => s # <<>>)
    BY LineFields
  <1> HIDE DEF v
  <1>3. ASSUME NEW i \in 1 .. Len(s), v[i] = "cr", v[i + 1] = "cr" PROVE FALSE
    <2>1. CASE i = Len(s)
      BY <1>1, <1>2, <1>3, <2>1
    <2>2. CASE i # Len(s)
      <3>1. i \in 1 .. Len(s) - 1 /\ i + 1 \in 1 .. Len(s)
        BY <1>2, <2>2
      <3> QED BY <1>1, <1>3, <3>1 DEF NoTwoReturns
    <2> QED BY <2>1, <2>2
  <1>4. NoTwoReturns(v)
    BY <1>1, <1>2, <1>3 DEF NoTwoReturns
  <1> QED BY <1>1, <1>4 DEF v

\* The invariant of the parser: what has been handed over is a text that ends an
\* event, which the frames have said, and the buffer, which has no boundary.
ParserTyped ==
    coming \in Line /\ received \in Line /\ buffer \in Line
    /\ frames \in Seq(Frames) /\ closed \in BOOLEAN
ParserInv ==
    /\ ParserTyped
    /\ NoTwoReturns(received \o coming)
    /\ ~closed => Says(received, buffer, frames)
    /\ closed => coming = <<>> /\ Said(frames) = EventsAtEnd(received)

LEMMA ParserStarts == ParserInit => ParserInv
  <1> SUFFICES ASSUME ParserInit PROVE ParserInv
    OBVIOUS
  <1>1. /\ coming = <<>> /\ received = <<>> /\ buffer = <<>> /\ frames = <<>> /\ closed = FALSE
    BY DEF ParserInit
  <1>2. <<>> \in Line /\ <<>> \o <<>> = <<>> /\ Len(<<>>) = 0
    BY EmptySeq, ConcatEmptySeq DEF Line
  <1>3. NoTwoReturns(<<>>) /\ Boundaries(<<>>) = {}
    BY <1>2 DEF NoTwoReturns, Boundaries
  <1>4. Read(Start, <<>>) = Start
    BY <1>2, StartIsIdle, ReadConcat DEF Idle
  <1>5. Says(<<>>, <<>>, <<>>)
    BY <1>2, <1>3, <1>4, StartIsIdle, NothingSaid DEF Says
  <1> QED BY <1>1, <1>2, <1>3, <1>5, NothingSaid DEF ParserInv, ParserTyped

LEMMA SendKeeps ==
    ASSUME ParserInv, NEW t \in STRING, Send(t)
    PROVE  ParserInv'
  <1>1. /\ ParserTyped /\ NoTwoReturns(received \o coming) /\ ~closed
        /\ Says(received, buffer, frames)
    BY DEF ParserInv, Send
  <1>2. /\ coming' = Append(coming, t) /\ received' = received /\ buffer' = buffer
        /\ frames' = frames /\ closed' = closed
    BY DEF Send
  <1>3. t \in Token
    BY DEF Token
  <1> DEFINE s == received \o coming
  <1>4. s \in Line /\ received \o Append(coming, t) = Append(s, t) /\ Append(coming, t) \in Line
    <2>1. received \in Seq(Token) /\ coming \in Seq(Token)
      BY <1>1 DEF ParserTyped, Line
    <2>2. received \o coming \in Seq(Token) /\ Append(coming, t) \in Seq(Token)
      BY <1>3, <2>1, ConcatProperties, AppendProperties
    <2>3. received \o Append(coming, t) = Append(received \o coming, t)
      <3>1. \A x, y \in Seq(Token), e \in Token : x \o Append(y, e) = Append(x \o y, e)
        BY ConcatAppend
      <3> QED BY <1>3, <2>1, <3>1
    <2> QED BY <2>2, <2>3 DEF Line
  <1>5. ~(t = "cr" /\ s # <<>> /\ s[Len(s)] = "cr")
    BY DEF Send, Last
  <1>6. NoTwoReturns(s)
    BY <1>1
  <1> HIDE DEF s
  <1>7. NoTwoReturns(Append(s, t))
    BY <1>3, <1>4, <1>5, <1>6, SentReturns
  <1> QED BY <1>1, <1>2, <1>4, <1>7 DEF ParserInv, ParserTyped

LEMMA PushKeeps == ParserInv /\ Push => ParserInv'
  <1> SUFFICES ASSUME ParserInv, Push PROVE ParserInv'
    OBVIOUS
  <1> DEFINE p == Parsed(buffer \o coming)
  <1>1. /\ coming # <<>> /\ buffer' = p.rest /\ frames' = frames \o p.frames
        /\ received' = received \o coming /\ coming' = <<>> /\ closed' = closed
    BY DEF Push
  <1>2. /\ ParserTyped /\ NoTwoReturns(received \o coming) /\ ~closed
        /\ Says(received, buffer, frames)
    BY <1>1 DEF ParserInv
  <1>3. /\ p.rest \in Line /\ frames \o p.frames \in Seq(Frames)
        /\ Says(received \o coming, p.rest, frames \o p.frames)
    BY <1>2, PushSays DEF ParserTyped
  <1> HIDE DEF p
  <1>4. received \o coming \in Line /\ <<>> \in Line
    BY <1>2, ConcatProperties, EmptySeq DEF ParserTyped, Line
  <1>5. received' \o coming' = received'
    BY <1>1, <1>4, ConcatEmptySeq DEF Line
  <1> QED BY <1>1, <1>2, <1>3, <1>4, <1>5 DEF ParserInv, ParserTyped

LEMMA FlushKeeps == ParserInv /\ Flush => ParserInv'
  <1> SUFFICES ASSUME ParserInv, Flush PROVE ParserInv'
    OBVIOUS
  <1>1. /\ ~closed /\ coming = <<>> /\ closed' = TRUE
        /\ frames' = frames \o ParseBlock(buffer) /\ buffer' = <<>>
        /\ coming' = coming /\ received' = received
    BY DEF Flush
  <1>2. /\ ParserTyped /\ NoTwoReturns(received \o coming)
        /\ Says(received, buffer, frames)
    BY <1>1 DEF ParserInv
  <1>3. received \o coming = received /\ <<>> \in Line
    BY <1>1, <1>2, ConcatEmptySeq, EmptySeq DEF ParserTyped, Line
  <1>4. /\ EventsAtEnd(received) = Said(frames \o ParseBlock(buffer))
        /\ frames \o ParseBlock(buffer) \in Seq(Frames)
    BY <1>2, <1>3, RestIsRead DEF ParserTyped
  <1> QED BY <1>1, <1>2, <1>3, <1>4 DEF ParserInv, ParserTyped

LEMMA NoCallKeeps == ParserInv /\ UNCHANGED parserVars => ParserInv'
  BY DEF ParserInv, ParserTyped, parserVars

LEMMA ParserInvSays == ParserInv => FramesAreTheEvents
  <1> SUFFICES ASSUME ParserInv, ~closed PROVE Said(frames) = Events(received)
    BY DEF ParserInv, FramesAreTheEvents
  <1>1. /\ ParserTyped /\ NoTwoReturns(received \o coming) /\ Says(received, buffer, frames)
    BY DEF ParserInv
  <1>2. NoTwoReturns(received)
    BY <1>1, ReturnsOfConcat DEF ParserTyped
  <1> QED BY <1>1, <1>2, RestIsRead DEF ParserTyped

=============================================================================
