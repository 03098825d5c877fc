------------------------ MODULE ConversationsProofs ------------------------
(***************************************************************************)
(* Proofs about Conversations, for any shapes of requests and any number   *)
(* of turns, of turns at a time and of faults.                             *)
(*                                                                         *)
(* What a conversation is, is defined by recursion along the turns.  The   *)
(* inductions are proved from the least number of a set.                   *)
(***************************************************************************)
EXTENDS Conversations, SequenceTheorems, WellFoundedInduction, TLAPS

-----------------------------------------------------------------------------
(* Induction.                                                              *)

\* Every set of numbers that is not empty has a least one.
LEMMA LeastNumber ==
  ASSUME NEW T \in SUBSET Nat, T # {}
  PROVE  \E n \in T : \A m \in T : n <= m
<1> DEFINE R == {ss \in Nat \X Nat : ss[1] < ss[2]}
<1>1. IsWellFoundedOn(R, Nat)
  BY NatLessThanWellFounded, Zenon DEF OpToRel
<1>2. PICK n \in T : \A m \in T : <<m, n>> \notin R
  <2> HIDE DEF R
  <2> QED BY <1>1, WFMin, Zenon
<1>3. \A m \in T : ~(m < n)
  BY <1>2
<1> QED BY <1>3

\* Induction over 1 .. n: T holds a number if it holds all that are smaller.
LEMMA Ascending ==
  ASSUME NEW n \in Nat, NEW T,
         \A i \in 1 .. n : (\A j \in 1 .. i - 1 : j \in T) => i \in T
  PROVE  1 .. n \subseteq T
<1> DEFINE Missing == (1 .. n) \ T
<1> SUFFICES ASSUME Missing # {} PROVE FALSE
  OBVIOUS
<1>1. Missing \in SUBSET Nat
  OBVIOUS
<1>2. PICK i \in Missing : \A m \in Missing : i <= m
  <2> HIDE DEF Missing
  <2> QED BY <1>1, LeastNumber
<1>3. \A j \in 1 .. i - 1 : j \in T
  BY <1>2
<1> QED BY <1>2, <1>3

-----------------------------------------------------------------------------
(* Sequences.                                                              *)

Items == {"in", "out"} \X Nat

\* What s was put behind has s as its suffix.
LEMMA SuffixOf ==
  ASSUME NEW u \in Seq(Items), NEW s \in Seq(Items)
  PROVE  IsSuffix(s, u \o s)
<1> DEFINE w == u \o s
<1>1. /\ w \in Seq(Items) /\ Len(w) = Len(u) + Len(s)
      /\ \A i \in 1 .. Len(u) + Len(s) : w[i] = IF i <= Len(u) THEN u[i] ELSE s[i - Len(u)]
  BY ConcatProperties
<1>2. Len(u) \in Nat /\ Len(s) \in Nat
  BY LenProperties
<1> HIDE DEF w
<1> DEFINE rs == Reverse(s)
           rw == Reverse(w)
           front == SubSeq(rs, 1, Len(s))
           long == SubSeq(rw, 1, Len(s))
<1>3. /\ Len(rs) = Len(s) /\ \A i \in 1 .. Len(s) : rs[i] = s[Len(s) - i + 1]
      /\ Len(rw) = Len(w) /\ \A i \in 1 .. Len(w) : rw[i] = w[Len(w) - i + 1]
  BY <1>1, <1>2 DEF Reverse
<1>4. \A i \in 1 .. Len(s) : rs[i] = rw[i] /\ rs[i] \in Items
  <2> SUFFICES ASSUME NEW i \in 1 .. Len(s) PROVE rs[i] = rw[i] /\ rs[i] \in Items
    OBVIOUS
  <2>1. rs[i] = s[Len(s) - i + 1] /\ rw[i] = w[Len(w) - i + 1]
    BY <1>1, <1>2, <1>3
  <2>2. w[Len(w) - i + 1] = s[Len(w) - i + 1 - Len(u)]
    BY <1>1, <1>2
  <2>3. Len(w) - i + 1 - Len(u) = Len(s) - i + 1
    BY <1>1, <1>2
  <2>4. s[Len(s) - i + 1] \in Items
    BY <1>2, ElementOfSeq
  <2> QED BY <2>1, <2>2, <2>3, <2>4
<1> HIDE DEF rs, rw
<1>5. /\ front \in Seq(Items) /\ Len(front) = Len(s)
      /\ \A i \in 1 .. Len(s) : front[i] = rs[i]
  <2>1. \A i \in 1 .. Len(s) : rs[i] \in Items
    BY <1>4
  <2> QED BY <1>2, <2>1, SubSeqProperties
<1>6. /\ long \in Seq(Items) /\ Len(long) = Len(s)
      /\ \A i \in 1 .. Len(s) : long[i] = rw[i]
  <2>1. \A i \in 1 .. Len(s) : rw[i] \in Items
    BY <1>4
  <2> QED BY <1>2, <2>1, SubSeqProperties
<1>7. front = long
  <2> HIDE DEF front, long
  <2> QED BY <1>4, <1>5, <1>6, SeqEqual
<1>8. IsPrefix(rs, rw)
  BY <1>1, <1>2, <1>3, <1>7 DEF IsPrefix
<1> QED BY <1>8 DEF IsSuffix, rs, rw, w

-----------------------------------------------------------------------------
(* Types.                                                                  *)

Turn ==
  [shape : Shapes, prev : Nat, asks : Nat, body : Seq(Items), handled : BOOLEAN,
   pc : {"load", "call", "save_tell", "tell_save", "tell", "save", "over", "killed"},
   dest : {"none", "chat", "native", "router"}, seen : Seq(Items),
   outcome : {"none", "completed", "failed", "incomplete", "silent", "refused"},
   told : BOOLEAN, save : {"none", "ok", "failed"}, conn : Nat]

TypeOK ==
  /\ turn \in Seq(Turn) /\ Len(turn) <= MaxTurns
  /\ stored \in [Turns -> [expires : Int, acc : Seq(Items),
                           cred : {"none", "chat", "native", "router"}]]
  /\ conn \in [number : Nat \ {0}, open : BOOLEAN, turn : Nat]
  /\ local \subseteq Nat
  /\ clock \in Nat /\ faults \in Nat

LEMMA AskedAre ==
  ASSUME TypeOK
  PROVE  /\ Len(turn) \in Nat /\ Asked = 1 .. Len(turn) /\ Asked \subseteq Turns
         /\ \A t \in Asked : t \in Nat \ {0} /\ turn[t] \in Turn
<1>1. Len(turn) \in Nat /\ Asked = 1 .. Len(turn)
  BY LenProperties DEF TypeOK, Asked
<1>2. \A t \in Asked : turn[t] \in Turn
  BY <1>1, ElementOfSeq DEF TypeOK
<1> QED BY <1>1, <1>2, BoundsAssumption DEF TypeOK, Turns

LEMMA ItemsAre ==
  ASSUME NEW t \in Nat
  PROVE  In(t) \in Items /\ Out(t) \in Items
BY DEF In, Out, Items

LEMMA PairIs ==
  ASSUME NEW p \in Nat, NEW t \in Nat
  PROVE  /\ << Out(p) >> \in Seq(Items) /\ << In(t) >> \in Seq(Items)
         /\ << Out(p) >> \o << In(t) >> = << Out(p), In(t) >>
<1>1. Out(p) \in Items /\ In(t) \in Items
  BY ItemsAre
<1> HIDE DEF Items
<1> DEFINE a == << Out(p) >>
           b == << In(t) >>
           c == << Out(p), In(t) >>
<1>2. /\ a \in Seq(Items) /\ b \in Seq(Items) /\ c \in Seq(Items)
      /\ Len(a) = 1 /\ Len(b) = 1 /\ Len(c) = 2
      /\ a[1] = Out(p) /\ b[1] = In(t) /\ c[1] = Out(p) /\ c[2] = In(t)
  BY <1>1
<1> HIDE DEF a, b, c
<1>3. /\ a \o b \in Seq(Items) /\ Len(a \o b) = 2
      /\ (a \o b)[1] = a[1] /\ (a \o b)[2] = b[1]
  BY <1>2, ConcatProperties, SMTT(20)
<1>4. a \o b = c
  BY <1>2, <1>3, SeqEqual
<1> QED BY <1>2, <1>4 DEF a, b, c

-----------------------------------------------------------------------------
(* A request continues a response of an earlier one that its client was    *)
(* told of.                                                                *)

Chain ==
  \A t \in Asked : turn[t].prev # 0 => turn[t].prev \in 1 .. t - 1 /\ turn[turn[t].prev].told

\* The recursive definition of a history has the solution that it asks for.
LEMMA HistoryIs ==
  ASSUME TypeOK, Chain
  PROVE  \A t \in Asked :
           History[t] = IF turn[t].prev = 0 THEN << In(t) >>
                        ELSE History[turn[t].prev] \o << Out(turn[t].prev), In(t) >>
<1> DEFINE e(f, t) == IF turn[t].prev = 0 THEN << In(t) >>
                      ELSE f[turn[t].prev] \o << Out(turn[t].prev), In(t) >>
           Solves(f, n) == f = [t \in 1 .. n |-> e(f, t)]
           Solved == {n \in 0 .. Len(turn) : \E f : Solves(f, n)}
<1>1. Len(turn) \in Nat /\ Asked = 1 .. Len(turn)
  BY AskedAre
<1>2. 0 \in Solved
  <2> DEFINE z == [t \in 1 .. 0 |-> 0]
  <2>1. Solves(z, 0)
    <3>1. 1 .. 0 = {}
      OBVIOUS
    <3> HIDE DEF e
    <3> QED BY <3>1
  <2> HIDE DEF Solves, z
  <2> QED BY <1>1, <2>1
<1>3. ASSUME NEW n \in 1 .. Len(turn), n - 1 \in Solved
      PROVE  n \in Solved
  <2>1. PICK f : Solves(f, n - 1)
    BY <1>3
  <2> DEFINE g == [t \in 1 .. n |-> e(f, t)]
  <2>2. \A t \in 1 .. n : e(g, t) = e(f, t)
    <3> TAKE t \in 1 .. n
    <3> DEFINE p == turn[t].prev
    <3>1. ASSUME p # 0
          PROVE  g[p] = f[p]
      <4>1. p \in 1 .. n - 1 /\ p \in 1 .. n
        BY <1>1, <3>1 DEF Chain
      <4> HIDE DEF e, p
      <4>2. f[p] = e(f, p)
        BY <2>1, <4>1, Zenon
      <4>3. g[p] = e(f, p)
        BY <4>1, Zenon
      <4> QED BY <4>2, <4>3
    <3> HIDE DEF g
    <3> QED BY <3>1
  <2>3. Solves(g, n)
    <3> HIDE DEF e
    <3> QED BY <2>2, Zenon
  <2> QED
    <3> HIDE DEF Solves
    <3> QED BY <2>3
<1>4. Len(turn) \in Solved
  <2> HIDE DEF Solved
  <2> DEFINE T == {n \in Nat : n \in Solved}
  <2>1. CASE Len(turn) = 0
    BY <1>2, <2>1
  <2>2. CASE Len(turn) # 0
    <3>1. \A i \in 1 .. Len(turn) : (\A j \in 1 .. i - 1 : j \in T) => i \in T
      <4> SUFFICES ASSUME NEW i \in 1 .. Len(turn), \A j \in 1 .. i - 1 : j \in T
                   PROVE  i \in T
        OBVIOUS
      <4>1. i - 1 \in Solved
        BY <1>2
      <4> QED BY <1>3, <4>1
    <3>2. 1 .. Len(turn) \subseteq T
      <4> HIDE DEF T
      <4> QED BY <1>1, <3>1, Ascending
    <3> QED BY <1>1, <2>2, <3>2
  <2> QED BY <2>1, <2>2
<1>5. \E f : f = [t \in Asked |-> e(f, t)]
  <2> HIDE DEF e
  <2> QED BY <1>1, <1>4, Zenon
<1>6. History = [t \in Asked |-> e(History, t)]
  BY <1>5, Zenon DEF History
<1> QED BY <1>6, Zenon

\* So has that of a chain that the store knew.
LEMMA LinkedIs ==
  ASSUME TypeOK, Chain
  PROVE  \A t \in Asked :
           Linked[t] = (turn[t].prev = 0
                        \/ (turn[t].asks # 0 /\ turn[t].handled /\ Linked[turn[t].prev]))
<1> DEFINE e(f, t) == turn[t].prev = 0 \/ (turn[t].asks # 0 /\ turn[t].handled /\ f[turn[t].prev])
           Solves(f, n) == f = [t \in 1 .. n |-> e(f, t)]
           Solved == {n \in 0 .. Len(turn) : \E f : Solves(f, n)}
<1>1. Len(turn) \in Nat /\ Asked = 1 .. Len(turn)
  BY AskedAre
<1>2. 0 \in Solved
  <2> DEFINE z == [t \in 1 .. 0 |-> 0]
  <2>1. Solves(z, 0)
    <3>1. 1 .. 0 = {}
      OBVIOUS
    <3> HIDE DEF e
    <3> QED BY <3>1
  <2> HIDE DEF Solves, z
  <2> QED BY <1>1, <2>1
<1>3. ASSUME NEW n \in 1 .. Len(turn), n - 1 \in Solved
      PROVE  n \in Solved
  <2>1. PICK f : Solves(f, n - 1)
    BY <1>3
  <2> DEFINE g == [t \in 1 .. n |-> e(f, t)]
  <2>2. \A t \in 1 .. n : e(g, t) = e(f, t)
    <3> TAKE t \in 1 .. n
    <3> DEFINE p == turn[t].prev
    <3>1. ASSUME p # 0
          PROVE  g[p] = f[p]
      <4>1. p \in 1 .. n - 1 /\ p \in 1 .. n
        BY <1>1, <3>1 DEF Chain
      <4> HIDE DEF e, p
      <4>2. f[p] = e(f, p)
        BY <2>1, <4>1, Zenon
      <4>3. g[p] = e(f, p)
        BY <4>1, Zenon
      <4> QED BY <4>2, <4>3
    <3> HIDE DEF g
    <3> QED BY <3>1
  <2>3. Solves(g, n)
    <3> HIDE DEF e
    <3> QED BY <2>2, Zenon
  <2> QED
    <3> HIDE DEF Solves
    <3> QED BY <2>3
<1>4. Len(turn) \in Solved
  <2> HIDE DEF Solved
  <2> DEFINE T == {n \in Nat : n \in Solved}
  <2>1. CASE Len(turn) = 0
    BY <1>2, <2>1
  <2>2. CASE Len(turn) # 0
    <3>1. \A i \in 1 .. Len(turn) : (\A j \in 1 .. i - 1 : j \in T) => i \in T
      <4> SUFFICES ASSUME NEW i \in 1 .. Len(turn), \A j \in 1 .. i - 1 : j \in T
                   PROVE  i \in T
        OBVIOUS
      <4>1. i - 1 \in Solved
        BY <1>2
      <4> QED BY <1>3, <4>1
    <3>2. 1 .. Len(turn) \subseteq T
      <4> HIDE DEF T
      <4> QED BY <1>1, <3>1, Ascending
    <3> QED BY <1>1, <2>2, <3>2
  <2> QED BY <2>1, <2>2
<1>5. \E f : f = [t \in Asked |-> e(f, t)]
  <2> HIDE DEF e
  <2> QED BY <1>1, <1>4, Zenon
<1>6. Linked = [t \in Asked |-> e(Linked, t)]
  BY <1>5, Zenon DEF Linked
<1> QED BY <1>6, Zenon

-----------------------------------------------------------------------------
(* What a request carries and what is seen of it.                          *)

\* The input of a request: as it came (also of one that was rejected), with
\* the output that the connection had kept, or with the history that was found.
AsItCame(t) ==
  /\ ~turn[t].handled /\ turn[t].body = << In(t) >>
  /\ \/ turn[t].asks = turn[t].prev
     \/ turn[t].asks = 0 /\ turn[t].pc = "over" /\ turn[t].seen = << >>

FromConnection(t) ==
  /\ ~turn[t].handled /\ turn[t].body = << Out(turn[t].prev), In(t) >>
  /\ turn[t].asks = 0 /\ turn[t].prev # 0

FromStore(t) ==
  /\ turn[t].handled /\ turn[t].asks = turn[t].prev /\ turn[t].prev # 0
  /\ turn[t].body = turn[turn[t].prev].body \o << Out(turn[t].prev), In(t) >>
  /\ turn[turn[t].prev].dest # "router"

Bodies == \A t \in Asked : AsItCame(t) \/ FromConnection(t) \/ FromStore(t)

\* Who answers sees the input; or behind it what he remembers of the earlier
\* turn, but never both the history from the store and his own.
Seens ==
  \A t \in Asked :
    \/ turn[t].seen \in {<< >>, turn[t].body}
    \/ /\ AsItCame(t) /\ turn[t].prev # 0
       /\ turn[t].seen = turn[turn[t].prev].seen \o << Out(turn[t].prev), In(t) >>

\* The last part of a longer sequence, as a sequence in front of it.
Ends(s, w) == \E u \in Seq(Items) : w = u \o s

LEMMA LongerEnds ==
  ASSUME NEW s \in Seq(Items), NEW w \in Seq(Items), NEW x \in Seq(Items), Ends(s, w)
  PROVE  Ends(s \o x, w \o x)
<1>1. PICK u \in Seq(Items) : w = u \o s
  BY DEF Ends
<1>2. (u \o s) \o x = u \o (s \o x)
  BY ConcatAssociative, SMTT(30)
<1>3. w \o x = u \o (s \o x)
  BY <1>1, <1>2
<1> HIDE DEF Items
<1> QED BY <1>3, Zenon DEF Ends

LEMMA WholeEnds ==
  ASSUME NEW s \in Seq(Items)
  PROVE  Ends(s, s) /\ Ends(<< >>, s)
<1>1. << >> \in Seq(Items) /\ << >> \o s = s /\ s \o << >> = s
  BY EmptySeq, ConcatEmptySeq
<1> QED BY <1>1 DEF Ends

LEMMA BehindEnds ==
  ASSUME NEW s \in Seq(Items), NEW u \in Seq(Items)
  PROVE  Ends(s, u \o s)
BY DEF Ends

LEMMA ContextFollows ==
  TypeOK /\ Chain /\ Bodies /\ Seens => ContextIsHistory
<1> SUFFICES ASSUME TypeOK, Chain, Bodies, Seens
             PROVE  ContextIsHistory
  OBVIOUS
<1> DEFINE Follows(t) ==
      /\ History[t] \in Seq(Items)
      /\ Ends(turn[t].body, History[t]) /\ Ends(turn[t].seen, History[t])
      /\ Linked[t] => /\ turn[t].body = History[t]
                      /\ turn[t].seen \in {<< >>, History[t]}
    T == {t \in Asked : Follows(t)}
<1>1. /\ Len(turn) \in Nat /\ Asked = 1 .. Len(turn)
      /\ \A t \in Asked : t \in Nat \ {0} /\ turn[t] \in Turn
  BY AskedAre
<1>2. ASSUME NEW t \in Asked, \A r \in 1 .. t - 1 : r \in T
      PROVE  Follows(t)
  <2> DEFINE p == turn[t].prev
             H == History[t]
             both == << Out(p), In(t) >>
  <2>1. /\ t \in Nat /\ p \in Nat /\ turn[t].body \in Seq(Items) /\ turn[t].seen \in Seq(Items)
        /\ turn[t].handled \in BOOLEAN
    BY <1>1 DEF Turn
  <2>2. /\ << In(t) >> \in Seq(Items) /\ << Out(p) >> \in Seq(Items) /\ both \in Seq(Items)
        /\ both = << Out(p) >> \o << In(t) >>
    BY <2>1, ItemsAre
  <2>3. CASE p = 0
    <3>1. H = << In(t) >>
      BY <2>3, HistoryIs
    <3>2. turn[t].body = << In(t) >>
      BY <2>3 DEF Bodies, AsItCame, FromConnection, FromStore
    <3>3. turn[t].seen \in {<< >>, << In(t) >>}
      BY <2>3, <3>2 DEF Seens
    <3> HIDE DEF H
    <3> QED BY <2>2, <3>1, <3>2, <3>3, WholeEnds DEF H
  <2>4. CASE p # 0
    <3>1. p \in Asked /\ Follows(p)
      BY <1>1, <1>2, <2>4 DEF Chain
    <3> DEFINE G == History[p]
               pb == turn[p].body
               ps == turn[p].seen
    <3>2. /\ G \in Seq(Items) /\ pb \in Seq(Items) /\ ps \in Seq(Items)
          /\ Ends(pb, G) /\ Ends(ps, G) /\ (Linked[p] => pb = G)
      BY <1>1, <3>1 DEF Turn
    <3>3. H = G \o both
      BY <2>4, HistoryIs
    <3>4. Linked[t] => turn[t].asks # 0 /\ turn[t].handled /\ Linked[p]
      <4> HIDE DEF p
      <4>1. Linked[t] = (p = 0 \/ (turn[t].asks # 0 /\ turn[t].handled /\ Linked[p]))
        BY LinkedIs DEF p
      <4> QED BY <2>4, <4>1
    <3>5. /\ turn[t].body \in {<< In(t) >>, both, pb \o both}
          /\ turn[t].seen \in {<< >>, turn[t].body, ps \o both}
          /\ turn[t].handled => /\ turn[t].body = pb \o both
                                /\ turn[t].seen \in {<< >>, turn[t].body}
      BY DEF Bodies, Seens, AsItCame, FromConnection, FromStore
    <3> HIDE DEF p, H, both, G, pb, ps
    <3>6. H \in Seq(Items) /\ G \o << Out(p) >> \in Seq(Items)
      BY <2>2, <3>2, <3>3, ConcatProperties
    <3>7. H = (G \o << Out(p) >>) \o << In(t) >>
      BY <2>2, <3>2, <3>3, ConcatAssociative
    <3>8. /\ Ends(<< In(t) >>, H) /\ Ends(both, H) /\ Ends(pb \o both, H) /\ Ends(ps \o both, H)
          /\ Ends(<< >>, H)
      <4>1. Ends(<< In(t) >>, H)
        BY <2>2, <3>6, <3>7, BehindEnds
      <4>2. Ends(both, H)
        BY <2>2, <3>2, <3>3, BehindEnds
      <4>3. Ends(pb \o both, H) /\ Ends(ps \o both, H)
        BY <2>2, <3>2, <3>3, LongerEnds
      <4> QED BY <3>6, <4>1, <4>2, <4>3, WholeEnds
    <3>9. Ends(turn[t].body, H) /\ Ends(turn[t].seen, H)
      BY <3>5, <3>8
    <3>10. Linked[t] => turn[t].body = H /\ turn[t].seen \in {<< >>, H}
      BY <3>2, <3>3, <3>4, <3>5
    <3> QED BY <3>6, <3>9, <3>10 DEF H
  <2> QED BY <2>3, <2>4
<1>3. Asked \subseteq T
  <2>1. \A i \in 1 .. Len(turn) : (\A j \in 1 .. i - 1 : j \in T) => i \in T
    <3> HIDE DEF Follows
    <3> QED BY <1>1, <1>2
  <2> HIDE DEF T
  <2> QED BY <1>1, <2>1, Ascending
<1> SUFFICES ASSUME NEW t \in Asked, turn[t].seen # << >>
             PROVE  /\ IsSuffix(turn[t].seen, History[t])
                    /\ Linked[t] => turn[t].seen = History[t]
  BY DEF ContextIsHistory
<1>4. Follows(t) /\ turn[t].seen \in Seq(Items)
  BY <1>1, <1>3 DEF Turn
<1>5. PICK u \in Seq(Items) : History[t] = u \o turn[t].seen
  BY <1>4 DEF Ends
<1>6. IsSuffix(turn[t].seen, History[t])
  BY <1>4, <1>5, SuffixOf
<1> QED BY <1>4, <1>6

-----------------------------------------------------------------------------
(* The steps, as what they make of one turn.                               *)

Becomes(t, y) == turn' = [turn EXCEPT ![t] = y]

\* The request stays what it was.
SameRequest(x, y) ==
  y.shape = x.shape /\ y.prev = x.prev /\ y.asks = x.asks /\ y.conn = x.conn

\* So does what is seen of it.
SameContext(x, y) ==
  /\ SameRequest(x, y)
  /\ y.body = x.body /\ y.handled = x.handled /\ y.dest = x.dest /\ y.seen = x.seen

\* It is sent off.
Sent(x, y) ==
  /\ SameRequest(x, y)
  /\ y.pc = "call" /\ y.told = x.told /\ y.save = x.save /\ y.outcome = x.outcome
  /\ y.dest # "none" /\ y.seen \in Seen(y.dest, y.body, PreviousID(y.dest, y))

LEMMA TurnChanges ==
  ASSUME TypeOK, NEW t \in Asked, NEW y \in Turn, Becomes(t, y)
  PROVE  /\ turn' \in Seq(Turn) /\ Len(turn') = Len(turn) /\ Asked' = Asked
         /\ turn'[t] = y /\ \A u \in Asked : u # t => turn'[u] = turn[u]
<1>1. t \in 1 .. Len(turn) /\ Asked = 1 .. Len(turn) /\ turn \in Seq(Turn)
  BY AskedAre DEF TypeOK
<1>2. /\ turn' \in Seq(Turn) /\ Len(turn') = Len(turn)
      /\ \A u \in 1 .. Len(turn) : turn'[u] = IF u = t THEN y ELSE turn[u]
  BY <1>1, ExceptSeq DEF Becomes
<1>3. DOMAIN turn' = 1 .. Len(turn')
  BY <1>2, LenProperties
<1> QED BY <1>1, <1>2, <1>3 DEF Asked

LEMMA TurnComes ==
  ASSUME TypeOK, NEW y \in Turn, Room, turn' = Append(turn, y)
  PROVE  /\ turn' \in Seq(Turn) /\ Len(turn') = Len(turn) + 1 /\ Len(turn') <= MaxTurns
         /\ Asked' = Asked \cup {Len(turn) + 1} /\ Len(turn) + 1 \notin Asked
         /\ turn'[Len(turn) + 1] = y /\ \A u \in Asked : turn'[u] = turn[u]
<1>1. Len(turn) \in Nat /\ Asked = 1 .. Len(turn) /\ turn \in Seq(Turn)
  BY AskedAre DEF TypeOK
<1>2. /\ turn' \in Seq(Turn) /\ Len(turn') = Len(turn) + 1
      /\ turn'[Len(turn) + 1] = y /\ \A u \in 1 .. Len(turn) : turn'[u] = turn[u]
  BY <1>1, AppendProperties
<1>3. DOMAIN turn' = 1 .. Len(turn')
  BY <1>2, LenProperties
<1> QED BY <1>1, <1>2, <1>3, BoundsAssumption DEF Asked, Room

\* What a destination sees is a sequence of items.
LEMMA SeenType ==
  ASSUME TypeOK, NEW dest, NEW id \in Nat, NEW body \in Seq(Items), id # 0 => id \in Asked
  PROVE  Seen(dest, body, id) \subseteq Seq(Items)
<1>1. CASE MayResolve(dest, id)
  <2>1. id \in Asked /\ turn[id].seen \in Seq(Items) /\ << Out(id) >> \in Seq(Items)
    BY <1>1, AskedAre, ItemsAre DEF MayResolve, Turn
  <2>2. turn[id].seen \o << Out(id) >> \in Seq(Items)
    BY <2>1, ConcatProperties
  <2> HIDE DEF Items
  <2>3. (turn[id].seen \o << Out(id) >>) \o body \in Seq(Items)
    BY <2>2, ConcatProperties
  <2>4. turn[id].seen \o << Out(id) >> \o body = (turn[id].seen \o << Out(id) >>) \o body
    BY <2>1, ConcatAssociative
  <2> QED BY <1>1, <2>3, <2>4 DEF Seen
<1> QED BY <1>1 DEF Seen

Off(w) == [w EXCEPT !.pc = "call"]

LEMMA PreparedType ==
  ASSUME TypeOK, NEW x \in Turn, x.asks # 0 => x.asks \in Asked,
         NEW dest \in {"chat", "native", "router"},
         NEW w \in Prepared(x, dest), NEW y, y = Off(w)
  PROVE  /\ w \in Turn /\ w.pc = x.pc
         /\ y \in Turn /\ Sent(x, y) /\ y.body = x.body /\ y.handled = x.handled /\ y.dest = dest
<1>1. PreviousID(dest, x) \in {0, x.asks} /\ x.asks \in Nat /\ x.body \in Seq(Items)
  BY DEF PreviousID, PrepareCodexPassthrough, Turn
<1>2. Seen(dest, x.body, PreviousID(dest, x)) \subseteq Seq(Items)
  BY <1>1, SeenType
<1>3. PICK z \in Seen(dest, x.body, PreviousID(dest, x)) : w = [x EXCEPT !.dest = dest, !.seen = z]
  BY DEF Prepared
<1>4. z \in Seq(Items)
  BY <1>2
<1>5. PreviousID(dest, y) = PreviousID(dest, x)
  <2>1. y.asks = x.asks /\ y.handled = x.handled
    BY <1>3 DEF Turn, Off
  <2> QED BY <2>1 DEF PreviousID, PrepareCodexPassthrough
<1>6. y.seen = z /\ y.body = x.body /\ y.dest = dest
  BY <1>3 DEF Turn, Off
<1>7. y.seen \in Seen(y.dest, y.body, PreviousID(y.dest, y))
  BY <1>5, <1>6
<1>8. /\ w \in Turn /\ w.pc = x.pc /\ y \in Turn /\ SameRequest(x, y)
      /\ y.pc = "call" /\ y.told = x.told /\ y.save = x.save /\ y.outcome = x.outcome
      /\ y.handled = x.handled
  BY <1>3, <1>4, ZenonT(30) DEF Turn, SameRequest, Off
<1>9. y.dest # "none"
  BY <1>6
<1>10. Sent(x, y)
  BY <1>7, <1>8, <1>9, Zenon DEF Sent
<1> QED BY <1>6, <1>8, <1>10, Zenon

-----------------------------------------------------------------------------
(* Where a turn is, and what has been done for it there.                   *)

\* Its end is told before it is saved.
ToldFirst(x) == x.shape.stream /\ x.dest = "chat"

Placed(x) ==
  /\ x.pc \in {"load", "call"} => x.save = "none" /\ x.outcome = "none"
  /\ x.pc = "load" => ~x.handled /\ x.dest = "none" /\ x.seen = << >>
  /\ x.pc = "save_tell" => Saves(x) /\ ~ToldFirst(x) /\ x.save = "none"
  /\ x.pc = "tell_save" => Saves(x) /\ ToldFirst(x) /\ x.save = "none"
  /\ x.pc = "tell" => x.outcome \notin {"none", "refused"} /\ (Saves(x) => x.save # "none")
  /\ x.pc = "save" => Saves(x) /\ ToldFirst(x) /\ x.told /\ x.save = "none"
  /\ x.pc = "over" => /\ Saves(x) => x.save # "none"
                      /\ x.outcome = "refused" \/ (x.told /\ x.outcome # "none")
  /\ x.pc = "killed" => (x.told => ToldFirst(x))
  /\ x.told => x.pc \in {"over", "save", "killed"} /\ x.outcome \notin {"none", "refused"}
  /\ x.save = "ok" => Saves(x)

Control == \A t \in Asked : Placed(turn[t])

\* The turn that a continuation asks for is one.
LEMMA AsksEarlier ==
  ASSUME TypeOK, Chain, Bodies, NEW t \in Asked
  PROVE  /\ turn[t].asks \in {0, turn[t].prev}
         /\ turn[t].prev # 0 => turn[t].prev \in Asked /\ turn[t].prev < t
         /\ turn[t].asks # 0 => turn[t].asks \in Asked
<1>1. t \in Nat /\ Len(turn) \in Nat /\ Asked = 1 .. Len(turn)
  BY AskedAre
<1>2. turn[t].asks \in {0, turn[t].prev}
  BY DEF Bodies, AsItCame, FromConnection, FromStore
<1>3. turn[t].prev # 0 => turn[t].prev \in 1 .. t - 1
  BY DEF Chain
<1> QED BY <1>1, <1>2, <1>3

\* A new request: its shape, what it continues and what its input is.
LEMMA NewType ==
  ASSUME TypeOK, NEW shape \in Shapes, NEW prev \in Nat, NEW asks \in Nat, NEW items \in Seq(Items),
         NEW y, y = NewTurn(shape, prev, [asks |-> asks, items |-> items])
  PROVE  /\ y \in Turn /\ Placed(y) /\ y.body = items /\ y.asks = asks /\ y.prev = prev
         /\ y.shape = shape /\ ~y.handled /\ y.seen = << >> /\ ~y.told
         /\ y.pc = "load" /\ y.save = "none"
         /\ y.conn = IF shape.via = "ws" THEN conn.number ELSE 0
<1>1. << >> \in Seq(Items) /\ conn.number \in Nat
  BY EmptySeq DEF TypeOK
<1>2. y \in Turn
  BY <1>1 DEF NewTurn, Turn
<1>3. /\ y.body = items /\ y.asks = asks /\ y.prev = prev
      /\ y.shape = shape /\ ~y.handled /\ y.seen = << >> /\ ~y.told
      /\ y.pc = "load" /\ y.save = "none" /\ y.outcome = "none" /\ y.dest = "none"
      /\ y.conn = IF shape.via = "ws" THEN conn.number ELSE 0
  BY DEF NewTurn
<1>4. Placed(y)
  BY <1>3 DEF Placed
<1> QED BY <1>2, <1>3, <1>4

\* A new request is as it came, or has the output that the connection kept.
Request(y) ==
  LET t == Len(turn) + 1 IN
  /\ y \in Turn /\ Placed(y) /\ ~y.handled /\ y.seen = << >> /\ ~y.told /\ y.save = "none"
  /\ y.prev \in Known /\ y.outcome # "completed"
  /\ \/ y.body = << In(t) >>
     \/ y.body = << Out(y.prev), In(t) >> /\ y.asks = 0 /\ y.prev # 0
  /\ y.asks \in {0, y.prev}

NewRequest(y) ==
  /\ Request(y)
  /\ y.asks = y.prev \/ y.pc = "over" \/ y.body = << Out(y.prev), In(Len(turn) + 1) >>

LEMMA KnownAre ==
  ASSUME TypeOK, NEW p \in Known
  PROVE  p \in Nat /\ (p # 0 => p \in Asked /\ turn[p].told)
BY AskedAre DEF Known

LEMMA AskIs ==
  ASSUME TypeOK, NEW shape \in Shapes, Ask(shape)
  PROVE  /\ Room /\ UNCHANGED <<stored, conn, local, clock, faults>>
         /\ \E y : /\ NewRequest(y) /\ turn' = Append(turn, y)
                   /\ y.conn = 0 /\ y.pc = "load" /\ y.shape = shape
<1>1. PICK prev \in Known :
        turn' = Append(turn, NewTurn(shape, prev, [asks |-> prev, items |-> << In(Len(turn) + 1) >>]))
  BY DEF Ask
<1>2. prev \in Nat /\ Len(turn) + 1 \in Nat
  BY AskedAre, KnownAre
<1>3. << In(Len(turn) + 1) >> \in Seq(Items)
  BY <1>2, ItemsAre
<1> DEFINE items == << In(Len(turn) + 1) >>
           y == NewTurn(shape, prev, [asks |-> prev, items |-> items])
<1>0. items \in Seq(Items) /\ y = NewTurn(shape, prev, [asks |-> prev, items |-> items])
  BY <1>3
<1> HIDE DEF items, y
<1>4. /\ y \in Turn /\ Placed(y) /\ y.body = items /\ y.asks = prev /\ y.prev = prev
      /\ y.shape = shape /\ ~y.handled /\ y.seen = << >> /\ ~y.told
      /\ y.pc = "load" /\ y.save = "none"
      /\ y.conn = IF shape.via = "ws" THEN conn.number ELSE 0
  BY <1>0, <1>2, NewType
<1>5. y.outcome = "none"
  BY <1>4 DEF Placed
<1>6. NewRequest(y)
  BY <1>2, <1>4, <1>5 DEF NewRequest, Request, items
<1>7. turn' = Append(turn, y)
  BY <1>1 DEF y, items
<1> QED BY <1>4, <1>6, <1>7 DEF Ask

LEMMA AskWebSocketIs ==
  ASSUME TypeOK, NEW shape \in Shapes, AskWebSocket(shape)
  PROVE  /\ Room /\ conn.open /\ conn.turn = 0 /\ UNCHANGED <<stored, clock, faults>>
         /\ \E y : /\ NewRequest(y) /\ turn' = Append(turn, y)
                   /\ y.conn = conn.number /\ y.shape = shape
                   /\ \/ /\ y.pc = "load" /\ conn' = [conn EXCEPT !.turn = Len(turn) + 1]
                         /\ UNCHANGED local
                      \/ /\ y.pc = "over" /\ y.outcome = "refused" /\ shape.store = "false"
                         /\ local' = local \ {y.prev} /\ UNCHANGED conn
<1> DEFINE t == Len(turn) + 1
<1>1. PICK prev \in Known :
         LET cached == shape.store = "false" /\ prev # 0
         IN  \/ /\ ~cached
                /\ turn' = Append(turn, NewTurn(shape, prev, [asks |-> prev, items |-> << In(t) >>]))
                /\ conn' = [conn EXCEPT !.turn = t]
                /\ UNCHANGED local
             \/ /\ cached /\ prev \in local
                /\ turn' = Append(turn, NewTurn(shape, prev, PrependOutputToInput(prev, t)))
                /\ conn' = [conn EXCEPT !.turn = t]
                /\ UNCHANGED local
             \/ /\ cached
                /\ turn' = Append(turn, Rejected(t, shape, prev))
                /\ local' = local \ {prev}
                /\ UNCHANGED conn
  BY DEF AskWebSocket
<1>2. /\ Room /\ conn.open /\ conn.turn = 0 /\ shape.via = "ws" /\ UNCHANGED <<stored, clock, faults>>
  BY DEF AskWebSocket
<1>3. prev \in Nat /\ t \in Nat
  BY AskedAre, KnownAre
<1>4. << In(t) >> \in Seq(Items) /\ << Out(prev), In(t) >> \in Seq(Items)
  BY <1>3, ItemsAre
<1> HIDE DEF t
<1>5. ASSUME NEW asks \in {0, prev}, NEW items \in Seq(Items),
             \/ items = << In(t) >>
             \/ items = << Out(prev), In(t) >> /\ asks = 0 /\ prev # 0
      PROVE  LET y == NewTurn(shape, prev, [asks |-> asks, items |-> items]) IN
             /\ Request(y) /\ y.prev = prev /\ y.asks = asks /\ y.body = items
             /\ y.conn = conn.number /\ y.shape = shape /\ y.pc = "load"
  <2> DEFINE y == NewTurn(shape, prev, [asks |-> asks, items |-> items])
  <2>1. asks \in Nat /\ y = NewTurn(shape, prev, [asks |-> asks, items |-> items])
    BY <1>3
  <2> HIDE DEF y
  <2>2. /\ y \in Turn /\ Placed(y) /\ y.body = items /\ y.asks = asks /\ y.prev = prev
        /\ y.shape = shape /\ ~y.handled /\ y.seen = << >> /\ ~y.told
        /\ y.pc = "load" /\ y.save = "none"
        /\ y.conn = IF shape.via = "ws" THEN conn.number ELSE 0
    BY <1>3, <2>1, NewType
  <2>3. y.outcome = "none"
    BY <2>2 DEF Placed
  <2>4. Request(y)
    BY <1>5, <2>2, <2>3 DEF Request, t
  <2> QED BY <1>2, <2>2, <2>4 DEF y
<1>6. CASE /\ turn' = Append(turn, NewTurn(shape, prev, [asks |-> prev, items |-> << In(t) >>]))
           /\ conn' = [conn EXCEPT !.turn = t]
           /\ UNCHANGED local
  <2> DEFINE items == << In(t) >>
             y == NewTurn(shape, prev, [asks |-> prev, items |-> items])
  <2>0. /\ Request(y) /\ y.prev = prev /\ y.asks = prev
        /\ y.conn = conn.number /\ y.shape = shape /\ y.pc = "load"
    BY <1>4, <1>5
  <2>1. NewRequest(y)
    <3> HIDE DEF y
    <3> QED BY <2>0 DEF NewRequest
  <2>2. turn' = Append(turn, y)
    BY <1>6
  <2> HIDE DEF y
  <2> QED BY <1>2, <1>6, <2>0, <2>1, <2>2 DEF t
<1>7. CASE /\ prev # 0
           /\ turn' = Append(turn, NewTurn(shape, prev, PrependOutputToInput(prev, t)))
           /\ conn' = [conn EXCEPT !.turn = t]
           /\ UNCHANGED local
  <2> DEFINE items == << Out(prev), In(t) >>
             y == NewTurn(shape, prev, [asks |-> 0, items |-> items])
  <2>0. /\ Request(y) /\ y.prev = prev /\ y.body = items
        /\ y.conn = conn.number /\ y.shape = shape /\ y.pc = "load"
    BY <1>4, <1>5, <1>7
  <2>1. NewRequest(y)
    <3> HIDE DEF y
    <3> QED BY <2>0 DEF NewRequest, t
  <2>2. turn' = Append(turn, y)
    BY <1>7 DEF PrependOutputToInput
  <2> HIDE DEF y
  <2> QED BY <1>2, <1>7, <2>0, <2>1, <2>2 DEF t
<1>8. CASE /\ shape.store = "false"
           /\ turn' = Append(turn, Rejected(t, shape, prev))
           /\ local' = local \ {prev}
           /\ UNCHANGED conn
  <2> DEFINE items == << In(t) >>
             z == NewTurn(shape, prev, [asks |-> 0, items |-> items])
             y == [z EXCEPT !.pc = "over", !.outcome = "refused"]
  <2>1. /\ Request(z) /\ z.prev = prev /\ z.conn = conn.number /\ z.shape = shape /\ z.pc = "load"
    BY <1>4, <1>5
  <2>2. turn' = Append(turn, y)
    BY <1>8 DEF Rejected
  <2> HIDE DEF z
  <2>3. /\ y \in Turn /\ y.pc = "over" /\ y.outcome = "refused" /\ y.prev = prev
        /\ y.shape = shape /\ y.conn = conn.number
        /\ y.told = z.told /\ y.save = z.save /\ y.handled = z.handled /\ y.seen = z.seen
        /\ y.body = z.body /\ y.asks = z.asks /\ y.dest = z.dest
    BY <2>1 DEF Request, Turn
  <2> HIDE DEF y
  <2>4. ~Saves(y)
    BY <2>3 DEF Saves
  <2>5. Placed(y)
    BY <2>1, <2>3, <2>4 DEF Placed, Request
  <2>6. NewRequest(y)
    BY <2>1, <2>3, <2>5 DEF NewRequest, Request
  <2> QED BY <1>2, <1>8, <2>2, <2>3, <2>6
<1> QED BY <1>1, <1>2, <1>6, <1>7, <1>8

LEMMA SentPlaced ==
  ASSUME NEW x \in Turn, NEW y \in Turn, Placed(x), x.pc \in {"load", "call"}, Sent(x, y)
  PROVE  Placed(y)
<1>1. y.pc = "call" /\ y.save = "none" /\ y.outcome = "none" /\ ~y.told
  BY DEF Sent, Placed
<1> QED BY <1>1 DEF Placed

\* The history that was found.
Prepended(x, y) ==
  /\ x.asks # 0 /\ Found(x.asks) /\ ~x.handled /\ y.handled
  /\ y.body = stored[x.asks].acc \o << Out(x.asks) >> \o x.body

LEMMA LoadIs ==
  ASSUME TypeOK, Chain, Bodies, Control, NEW t \in Asked, Load(t)
  PROVE  /\ turn[t].pc = "load" /\ UNCHANGED <<stored, conn, local, clock>>
         /\ \E y \in Turn : /\ Becomes(t, y) /\ Sent(turn[t], y) /\ Placed(y)
                            /\ \/ y.handled = turn[t].handled /\ y.body = turn[t].body
                               \/ Prepended(turn[t], y)
<1> DEFINE id == turn[t].asks
           full == PrependHistoryToInput(id, turn[t].body)
<1>1. PICK loaded \in BOOLEAN, dest \in {"chat", "native"} :
        LET x == IF loaded THEN [turn[t] EXCEPT !.body = full, !.handled = TRUE] ELSE turn[t]
        IN  /\ loaded => id # 0 /\ Found(id)
            /\ \E w \in Prepared(x, dest) : turn' = [turn EXCEPT ![t] = Off(w)]
  BY DEF Load, Off
<1>2. /\ turn[t] \in Turn /\ turn[t].pc = "load" /\ UNCHANGED <<stored, conn, local, clock>>
      /\ Placed(turn[t]) /\ (id # 0 => id \in Asked /\ id \in Turns)
  BY AskedAre, AsksEarlier DEF Load, Control
<1>3. ASSUME id # 0
      PROVE  full \in Seq(Items) /\ full = stored[id].acc \o << Out(id) >> \o turn[t].body
  <2>1. /\ stored[id].acc \in Seq(Items) /\ << Out(id) >> \in Seq(Items)
        /\ turn[t].body \in Seq(Items)
    <3> HIDE DEF id
    <3>1. stored[id].acc \in Seq(Items)
      BY <1>2, <1>3 DEF TypeOK
    <3>2. << Out(id) >> \in Seq(Items)
      BY <1>2, <1>3, AskedAre, ItemsAre
    <3>3. turn[t].body \in Seq(Items)
      BY <1>2 DEF Turn
    <3> QED BY <3>1, <3>2, <3>3
  <2> HIDE DEF Items, id
  <2>2. (stored[id].acc \o << Out(id) >>) \o turn[t].body \in Seq(Items)
    BY <2>1, ConcatProperties
  <2> QED BY <2>1, <2>2, ConcatAssociative DEF PrependHistoryToInput
<1>4. CASE loaded
  <2> DEFINE x == [turn[t] EXCEPT !.body = full, !.handled = TRUE]
  <2>1. /\ x \in Turn /\ SameRequest(turn[t], x) /\ x.handled /\ x.body = full
        /\ x.told = turn[t].told /\ x.save = turn[t].save /\ x.outcome = turn[t].outcome
    <3> HIDE DEF full
    <3> QED BY <1>1, <1>2, <1>3, <1>4 DEF Turn, SameRequest
  <2>2. PICK w \in Prepared(x, dest) : turn' = [turn EXCEPT ![t] = Off(w)]
    BY <1>1, <1>4
  <2> DEFINE y == Off(w)
  <2> HIDE DEF x
  <2>3. x.asks # 0 => x.asks \in Asked
    BY <1>2, <2>1 DEF SameRequest
  <2>4. y \in Turn /\ Sent(x, y) /\ y.body = full /\ y.handled
    BY <1>1, <2>1, <2>2, <2>3, PreparedType
  <2> HIDE DEF y
  <2>5. Sent(turn[t], y)
    BY <2>1, <2>4 DEF Sent, SameRequest
  <2>6. Placed(y)
    BY <1>2, <2>4, <2>5, SentPlaced
  <2>7. Prepended(turn[t], y)
    BY <1>1, <1>2, <1>3, <1>4, <2>4 DEF Prepended, Placed
  <2> QED BY <1>2, <2>2, <2>4, <2>5, <2>6, <2>7 DEF Becomes, y
<1>5. CASE ~loaded
  <2> DEFINE x == turn[t]
  <2>1. PICK w \in Prepared(x, dest) : turn' = [turn EXCEPT ![t] = Off(w)]
    BY <1>1, <1>5
  <2> DEFINE y == Off(w)
  <2>4. x \in Turn /\ (x.asks # 0 => x.asks \in Asked)
    BY <1>2
  <2> HIDE DEF x
  <2>2. y \in Turn /\ Sent(x, y) /\ y.body = x.body /\ y.handled = x.handled
    BY <1>1, <2>1, <2>4, PreparedType
  <2> HIDE DEF y
  <2>3. Placed(y)
    BY <1>2, <2>2, SentPlaced DEF x
  <2> QED BY <1>2, <2>1, <2>2, <2>3 DEF Becomes, x, y
<1> QED BY <1>4, <1>5

LEMMA RetryIs ==
  ASSUME TypeOK, Chain, Bodies, Control, NEW t \in Asked, Retry(t)
  PROVE  /\ turn[t].pc = "call" /\ UNCHANGED <<stored, conn, local, clock>>
         /\ \E y \in Turn : /\ Becomes(t, y) /\ Sent(turn[t], y) /\ Placed(y)
                            /\ y.handled = turn[t].handled /\ y.body = turn[t].body
<1> DEFINE x == turn[t]
<1>6. PICK dest \in {"chat", "native", "router"} :
        \E w \in Prepared(x, dest) : turn' = [turn EXCEPT ![t] = w]
  BY DEF Retry
<1>1. PICK w \in Prepared(x, dest) : turn' = [turn EXCEPT ![t] = w]
  BY <1>6
<1>2. /\ x \in Turn /\ x.pc = "call" /\ UNCHANGED <<stored, conn, local, clock>>
      /\ Placed(x) /\ (x.asks # 0 => x.asks \in Asked)
  BY AskedAre, AsksEarlier DEF Retry, Control
<1> DEFINE y == Off(w)
<1> HIDE DEF x
<1>3. /\ y \in Turn /\ Sent(x, y) /\ y.body = x.body /\ y.handled = x.handled
      /\ w \in Turn /\ w.pc = "call"
  BY <1>2, PreparedType
<1>4. y = w
  BY <1>3 DEF Turn, Off
<1> HIDE DEF y
<1>5. Placed(y)
  BY <1>2, <1>3, SentPlaced
<1> QED BY <1>1, <1>2, <1>3, <1>4, <1>5 DEF Becomes, x

LEMMA RefuseIs ==
  ASSUME TypeOK, Control, NEW t \in Asked, Refuse(t)
  PROVE  /\ turn[t].pc = "call" /\ UNCHANGED <<stored, conn, local, clock>>
         /\ \E y \in Turn : /\ Becomes(t, y) /\ SameContext(turn[t], y) /\ Placed(y)
                            /\ y.pc = "over" /\ y.outcome = "refused"
                            /\ y.told = turn[t].told /\ y.save = turn[t].save
<1> DEFINE x == turn[t]
           y == [x EXCEPT !.pc = "over", !.outcome = "refused"]
<1>1. x \in Turn /\ x.pc = "call" /\ Placed(x)
  BY AskedAre DEF Refuse, Control
<1>2. turn' = [turn EXCEPT ![t] = y] /\ UNCHANGED <<stored, conn, local, clock>>
  BY DEF Refuse
<1> HIDE DEF x
<1>3. /\ y \in Turn /\ SameContext(x, y) /\ y.pc = "over" /\ y.outcome = "refused"
      /\ y.told = x.told /\ y.save = x.save
  BY <1>1 DEF Turn, SameContext, SameRequest
<1> HIDE DEF y
<1>4. ~Saves(y) /\ ~y.told /\ y.save = "none"
  BY <1>1, <1>3 DEF Saves, Placed, Turn
<1>5. Placed(y)
  BY <1>3, <1>4 DEF Placed
<1> QED BY <1>1, <1>2, <1>3, <1>5 DEF Becomes, x

LEMMA AnswerIs ==
  ASSUME TypeOK, Control, NEW t \in Asked, Answer(t)
  PROVE  /\ turn[t].pc = "call" /\ UNCHANGED <<stored, conn, local, clock>>
         /\ \E y \in Turn : /\ Becomes(t, y) /\ SameContext(turn[t], y) /\ Placed(y)
                            /\ y.pc \in {"tell", "tell_save", "save_tell"}
                            /\ y.told = turn[t].told /\ y.save = turn[t].save
<1> DEFINE x == turn[t]
<1>1. x \in Turn /\ x.pc = "call" /\ Placed(x) /\ UNCHANGED <<stored, conn, local, clock>>
  BY AskedAre DEF Answer, Control
<1>2. PICK outcome \in Outcomes(x) :
        turn' = [turn EXCEPT ![t] = [[x EXCEPT !.outcome = outcome] EXCEPT
                   !.pc = FirstStep([x EXCEPT !.outcome = outcome])]]
  BY DEF Answer
<1>3. outcome \in {"completed", "failed", "incomplete", "silent"}
  BY <1>2 DEF Outcomes
<1> DEFINE z == [x EXCEPT !.outcome = outcome]
           step == FirstStep(z)
           y == [z EXCEPT !.pc = step]
<1>4. turn' = [turn EXCEPT ![t] = y]
  BY <1>2
<1> HIDE DEF x
<1>5. /\ z \in Turn /\ SameContext(x, z) /\ z.outcome = outcome /\ z.told = x.told
      /\ z.save = x.save
  BY <1>1, <1>3 DEF Turn, SameContext, SameRequest
<1> HIDE DEF z
<1>6. /\ step \in {"tell", "tell_save", "save_tell"}
      /\ step = "save_tell" => Saves(z) /\ ~ToldFirst(z)
      /\ step = "tell_save" => Saves(z) /\ ToldFirst(z)
      /\ step = "tell" => ~Saves(z)
  BY <1>5 DEF FirstStep, ToldFirst, Turn
<1> HIDE DEF step
<1>7. /\ y \in Turn /\ SameContext(z, y) /\ y.pc = step /\ y.outcome = z.outcome
      /\ y.told = z.told /\ y.save = z.save
  BY <1>5, <1>6 DEF Turn, SameContext, SameRequest
<1> HIDE DEF y
<1>8. Saves(y) = Saves(z) /\ ToldFirst(y) = ToldFirst(z)
  BY <1>7 DEF Saves, ToldFirst, SameContext, SameRequest
<1>9. ~y.told /\ y.save = "none" /\ SameContext(x, y)
  BY <1>1, <1>5, <1>7 DEF Placed, Turn, SameContext, SameRequest
<1>10. Placed(y)
  BY <1>3, <1>5, <1>6, <1>7, <1>8, <1>9 DEF Placed
<1> QED BY <1>1, <1>4, <1>5, <1>6, <1>7, <1>9, <1>10 DEF Becomes, x

LEMMA SaveIs ==
  ASSUME TypeOK, Control, NEW t \in Asked, SaveResponse(t)
  PROVE  /\ turn[t].pc \in {"save_tell", "save"} /\ turn[t].save = "none"
         /\ UNCHANGED <<conn, local, clock>>
         /\ \E y \in Turn : /\ Becomes(t, y) /\ SameContext(turn[t], y) /\ Placed(y)
                            /\ y.pc = IF turn[t].pc = "save" THEN "over" ELSE "tell"
                            /\ y.told = turn[t].told /\ y.outcome = turn[t].outcome
                            /\ \/ y.save = "ok" /\ stored' = [stored EXCEPT ![t] = Entry(turn[t])]
                               \/ y.save = "failed" /\ UNCHANGED stored
<1> DEFINE x == turn[t]
<1>1. /\ x \in Turn /\ x.pc \in {"save_tell", "save"} /\ Placed(x) /\ UNCHANGED <<conn, local, clock>>
  BY AskedAre DEF SaveResponse, Control
<1>2. PICK ok \in BOOLEAN :
        /\ stored' = IF ok THEN [stored EXCEPT ![t] = Entry(x)] ELSE stored
        /\ turn' = [turn EXCEPT ![t].save = IF ok THEN "ok" ELSE "failed",
                                ![t].pc = IF @ = "save_tell" THEN "tell" ELSE "over"]
  BY DEF SaveResponse
<1> DEFINE save == IF ok THEN "ok" ELSE "failed"
           pc == IF x.pc = "save" THEN "over" ELSE "tell"
           y == [x EXCEPT !.save = save, !.pc = pc]
<1>3. turn' = [turn EXCEPT ![t] = y]
  BY <1>1, <1>2 DEF Turn
<1>4. save \in {"ok", "failed"} /\ pc \in {"over", "tell"}
  OBVIOUS
<1>5. (save = "ok" /\ stored' = [stored EXCEPT ![t] = Entry(x)]) \/ (save = "failed" /\ UNCHANGED stored)
  BY <1>2
<1>6. (pc = "over" /\ x.pc = "save") \/ (pc = "tell" /\ x.pc = "save_tell")
  BY <1>1
<1> HIDE DEF x, save, pc
<1>7. /\ y \in Turn /\ SameContext(x, y) /\ y.pc = pc /\ y.outcome = x.outcome
      /\ y.told = x.told /\ y.save = save
  BY <1>1, <1>4 DEF Turn, SameContext, SameRequest
<1> HIDE DEF y
<1>8. Saves(y) = Saves(x) /\ ToldFirst(y) = ToldFirst(x)
  BY <1>7 DEF Saves, ToldFirst, SameContext, SameRequest
<1>9. Saves(x) /\ x.outcome = "completed" /\ x.save = "none" /\ (x.pc = "save" <=> x.told)
  BY <1>1 DEF Placed, Saves, Turn
<1>10. Placed(y)
  BY <1>4, <1>6, <1>7, <1>8, <1>9 DEF Placed
<1> QED BY <1>1, <1>3, <1>5, <1>6, <1>7, <1>9, <1>10 DEF Becomes, x

LEMMA TellIs ==
  ASSUME TypeOK, Control, NEW t \in Asked, Tell(t)
  PROVE  /\ turn[t].pc \in {"tell", "tell_save"} /\ UNCHANGED <<stored, conn, local, clock>>
         /\ \E y \in Turn : /\ Becomes(t, y) /\ SameContext(turn[t], y) /\ Placed(y) /\ y.told
                            /\ y.pc \in {"over", "save"}
                            /\ y.save = turn[t].save /\ y.outcome = turn[t].outcome
<1> DEFINE x == turn[t]
           pc == IF x.pc = "tell_save" THEN "save" ELSE "over"
           y == [x EXCEPT !.told = TRUE, !.pc = pc]
<1>1. /\ x \in Turn /\ x.pc \in {"tell", "tell_save"} /\ Placed(x)
      /\ UNCHANGED <<stored, conn, local, clock>>
  BY AskedAre DEF Tell, Control
<1>2. turn' = [turn EXCEPT ![t] = y]
  BY <1>1 DEF Tell, Turn
<1>3. (pc = "save" /\ x.pc = "tell_save") \/ (pc = "over" /\ x.pc = "tell")
  BY <1>1
<1> HIDE DEF x, pc
<1>4. /\ y \in Turn /\ SameContext(x, y) /\ y.pc = pc /\ y.outcome = x.outcome
      /\ y.told /\ y.save = x.save
  BY <1>1, <1>3 DEF Turn, SameContext, SameRequest
<1> HIDE DEF y
<1>5. Saves(y) = Saves(x) /\ ToldFirst(y) = ToldFirst(x)
  BY <1>4 DEF Saves, ToldFirst, SameContext, SameRequest
<1>6. x.outcome \notin {"none", "refused"} /\ (pc = "save" => Saves(x) /\ ToldFirst(x) /\ x.save = "none")
      /\ (pc = "over" => (Saves(x) => x.save # "none")) /\ (x.save = "ok" => Saves(x))
  BY <1>1, <1>3 DEF Placed, Saves
<1>7. Placed(y)
  BY <1>3, <1>4, <1>5, <1>6 DEF Placed
<1> QED BY <1>1, <1>2, <1>3, <1>4, <1>7 DEF Becomes, x

\* A crash keeps everything of a turn but where it was.
LEMMA CrashIs ==
  ASSUME TypeOK, Control, Crash
  PROVE  /\ UNCHANGED <<stored, clock>> /\ ~conn'.open /\ local' = {}
         /\ turn' \in Seq(Turn) /\ Len(turn') = Len(turn) /\ Asked' = Asked
         /\ \A t \in Asked :
              /\ SameContext(turn[t], turn'[t]) /\ Placed(turn'[t])
              /\ turn'[t].told = turn[t].told /\ turn'[t].save = turn[t].save
              /\ turn'[t].outcome = turn[t].outcome
              /\ turn'[t].pc = IF turn[t].pc = "over" THEN "over" ELSE "killed"
<1> DEFINE y(t) == IF turn[t].pc = "over" THEN turn[t] ELSE [turn[t] EXCEPT !.pc = "killed"]
<1>1. Len(turn) \in Nat /\ Asked = 1 .. Len(turn) /\ \A t \in Asked : turn[t] \in Turn
  BY AskedAre
<1>2. turn' = [t \in Asked |-> y(t)]
  BY DEF Crash
<1>3. ASSUME NEW t \in Asked
      PROVE  /\ y(t) \in Turn /\ SameContext(turn[t], y(t)) /\ Placed(y(t))
             /\ y(t).told = turn[t].told /\ y(t).save = turn[t].save
             /\ y(t).outcome = turn[t].outcome
             /\ y(t).pc = IF turn[t].pc = "over" THEN "over" ELSE "killed"
  <2>1. turn[t] \in Turn /\ Placed(turn[t])
    BY <1>1 DEF Control
  <2>2. CASE turn[t].pc = "over"
    BY <2>1, <2>2 DEF SameContext, SameRequest
  <2>3. CASE turn[t].pc # "over"
    <3> DEFINE x == turn[t]
               z == [x EXCEPT !.pc = "killed"]
    <3>1. y(t) = z
      BY <2>3
    <3> HIDE DEF x
    <3>2. x \in Turn /\ Placed(x) /\ x.pc # "over"
      BY <2>1, <2>3 DEF x
    <3>3. /\ z \in Turn /\ SameContext(x, z) /\ z.pc = "killed" /\ z.outcome = x.outcome
          /\ z.told = x.told /\ z.save = x.save
      BY <3>2 DEF Turn, SameContext, SameRequest
    <3> HIDE DEF z
    <3>4. Saves(z) = Saves(x) /\ ToldFirst(z) = ToldFirst(x)
      BY <3>3 DEF Saves, ToldFirst, SameContext, SameRequest
    <3>5. Placed(z)
      BY <3>2, <3>3, <3>4 DEF Placed
    <3> HIDE DEF y
    <3> QED BY <2>3, <3>1, <3>3, <3>5 DEF x
  <2> QED BY <2>2, <2>3
<1> HIDE DEF y
<1>4. turn' \in [1 .. Len(turn) -> Turn]
  BY <1>1, <1>2, <1>3
<1>5. turn' \in Seq(Turn) /\ DOMAIN turn' = 1 .. Len(turn)
  BY <1>1, <1>4, SeqDef
<1>6. Len(turn') = Len(turn)
  BY <1>1, <1>5, LenProperties
<1>7. \A t \in Asked : turn'[t] = y(t)
  BY <1>2
<1>8. UNCHANGED <<stored, clock>> /\ ~conn'.open /\ local' = {}
  BY DEF Crash, TypeOK
<1> QED BY <1>1, <1>3, <1>5, <1>6, <1>7, <1>8 DEF Asked

-----------------------------------------------------------------------------
(* A step adds a request, sends one off, or leaves what requests are and   *)
(* what is seen of them.                                                   *)

Comes ==
  \E y : NewRequest(y) /\ Room /\ turn' = Append(turn, y) /\ UNCHANGED stored

GoesOff ==
  \E t \in Asked, y \in Turn :
    /\ Becomes(t, y) /\ Sent(turn[t], y) /\ Placed(y)
    /\ turn[t].pc \in {"load", "call"} /\ UNCHANGED stored
    /\ (y.handled = turn[t].handled /\ y.body = turn[t].body) \/ Prepended(turn[t], y)

\* An entry of the store stays, goes, or is made of a turn that is saved.
Keeping(t) ==
  \/ stored'[t] \in {stored[t], NoEntry}
  \/ t \in Asked /\ stored'[t] = Entry(turn[t]) /\ turn'[t].save = "ok"

GoesOn ==
  /\ turn' \in Seq(Turn) /\ Len(turn') = Len(turn) /\ Asked' = Asked
  /\ \A t \in Asked :
       /\ SameContext(turn[t], turn'[t]) /\ Placed(turn'[t])
       /\ turn[t].told => turn'[t].told
       /\ turn[t].pc = "over" => turn'[t].pc = "over"
       /\ turn[t].save = "ok" => turn'[t].save = "ok"
  /\ \A t \in Turns : Keeping(t)

LEMMA OneGoesOn ==
  ASSUME TypeOK, Control, NEW t \in Asked, NEW y \in Turn, Becomes(t, y), SameContext(turn[t], y),
         Placed(y), turn[t].told => y.told, turn[t].save = "ok" => y.save = "ok",
         turn[t].pc # "over",
         \A u \in Turns : Keeping(u)
  PROVE  GoesOn
<1>1. /\ turn' \in Seq(Turn) /\ Len(turn') = Len(turn) /\ Asked' = Asked
      /\ turn'[t] = y /\ \A u \in Asked : u # t => turn'[u] = turn[u]
  BY TurnChanges
<1>2. \A u \in Asked : Placed(turn[u]) /\ SameContext(turn[u], turn[u])
  BY DEF Control, SameContext, SameRequest
<1> QED BY <1>1, <1>2 DEF GoesOn

LEMMA NothingMoves ==
  ASSUME TypeOK, Control, UNCHANGED turn, \A t \in Turns : stored'[t] \in {stored[t], NoEntry}
  PROVE  GoesOn
<1>1. \A u \in Asked : Placed(turn[u]) /\ SameContext(turn[u], turn[u])
  BY DEF Control, SameContext, SameRequest
<1> QED BY <1>1 DEF GoesOn, TypeOK, Asked, Keeping

LEMMA Steps ==
  ASSUME TypeOK, Control, Chain, Bodies, [Next]_vars
  PROVE  Comes \/ GoesOff \/ GoesOn
<1>1. ASSUME UNCHANGED stored PROVE \A t \in Turns : Keeping(t)
  BY <1>1 DEF Keeping
<1>2. CASE \E shape \in Shapes : Ask(shape) \/ AskWebSocket(shape)
  BY <1>2, AskIs, AskWebSocketIs DEF Comes
<1>3. CASE \E t \in Asked : Load(t) \/ Retry(t)
  BY <1>3, LoadIs, RetryIs DEF GoesOff
<1>4. CASE \E t \in Asked : Refuse(t)
  <2> PICK t \in Asked : Refuse(t)
    BY <1>4
  <2>1. PICK y \in Turn : /\ Becomes(t, y) /\ SameContext(turn[t], y) /\ Placed(y)
                          /\ y.told = turn[t].told /\ y.save = turn[t].save
    BY RefuseIs
  <2>2. UNCHANGED stored /\ turn[t].pc # "over"
    BY RefuseIs
  <2> QED BY <1>1, <2>1, <2>2, OneGoesOn
<1>5. CASE \E t \in Asked : Answer(t)
  <2> PICK t \in Asked : Answer(t)
    BY <1>5
  <2>1. PICK y \in Turn : /\ Becomes(t, y) /\ SameContext(turn[t], y) /\ Placed(y)
                          /\ y.told = turn[t].told /\ y.save = turn[t].save
    BY AnswerIs
  <2>2. UNCHANGED stored /\ turn[t].pc # "over"
    BY AnswerIs
  <2> QED BY <1>1, <2>1, <2>2, OneGoesOn
<1>6. CASE \E t \in Asked : SaveResponse(t)
  <2> PICK t \in Asked : SaveResponse(t)
    BY <1>6
  <2>1. PICK y \in Turn : /\ Becomes(t, y) /\ SameContext(turn[t], y) /\ Placed(y)
                          /\ y.told = turn[t].told
                          /\ \/ y.save = "ok" /\ stored' = [stored EXCEPT ![t] = Entry(turn[t])]
                             \/ y.save = "failed" /\ UNCHANGED stored
    BY SaveIs
  <2>2. turn[t].save = "none" /\ turn[t].pc # "over"
    BY SaveIs
  <2>3. turn'[t] = y
    BY <2>1, TurnChanges
  <2>4. \A u \in Turns : Keeping(u)
    <3> SUFFICES ASSUME NEW u \in Turns PROVE Keeping(u)
      OBVIOUS
    <3>1. CASE UNCHANGED stored
      BY <1>1, <3>1
    <3>2. CASE y.save = "ok" /\ stored' = [stored EXCEPT ![t] = Entry(turn[t])]
      BY <2>3, <3>2 DEF Keeping, TypeOK
    <3> QED BY <2>1, <3>1, <3>2
  <2> QED BY <2>1, <2>2, <2>4, OneGoesOn
<1>7. CASE \E t \in Asked : Tell(t)
  <2> PICK t \in Asked : Tell(t)
    BY <1>7
  <2>1. PICK y \in Turn : /\ Becomes(t, y) /\ SameContext(turn[t], y) /\ Placed(y) /\ y.told
                          /\ y.save = turn[t].save
    BY TellIs
  <2>2. UNCHANGED stored /\ turn[t].pc # "over"
    BY TellIs
  <2> QED BY <1>1, <2>1, <2>2, OneGoesOn
<1>8. CASE Crash
  BY <1>1, <1>8, CrashIs DEF GoesOn
<1>9. CASE EndTurn \/ Disconnect \/ Connect \/ Tick
  <2>1. UNCHANGED <<turn, stored>>
    BY <1>9 DEF EndTurn, Disconnect, Connect, Tick
  <2> QED BY <2>1, NothingMoves
<1>10. CASE CleanupExpired
  <2>1. UNCHANGED turn /\ \A t \in Turns : stored'[t] \in {stored[t], NoEntry}
    BY <1>10 DEF CleanupExpired
  <2> QED BY <2>1, NothingMoves
<1>11. CASE UNCHANGED vars
  <2>1. UNCHANGED <<turn, stored>>
    BY <1>11 DEF vars
  <2> QED BY <2>1, NothingMoves
<1> QED BY <1>2, <1>3, <1>4, <1>5, <1>6, <1>7, <1>8, <1>9, <1>10, <1>11 DEF Next, Handle

-----------------------------------------------------------------------------
(* What requests carry and see, step by step.                              *)

\* What is stored is the input of a turn that was saved.
Stores ==
  \A t \in Turns : stored[t] # NoEntry =>
    /\ t \in Asked /\ turn[t].save = "ok"
    /\ stored[t].acc = turn[t].body /\ stored[t].cred = turn[t].dest

ContextInv == TypeOK /\ Control /\ Chain /\ Bodies /\ Seens /\ Stores

LEMMA SavedAre ==
  ASSUME TypeOK, Control, Stores, NEW t \in Turns, stored[t] # NoEntry
  PROVE  t \in Asked /\ turn[t].dest # "router" /\ stored[t].acc = turn[t].body
BY DEF Control, Stores, Placed, Saves

\* What was told is not touched again when another turn is sent off.
LEMMA ToldStay ==
  ASSUME TypeOK, Control, NEW t \in Asked, NEW y \in Turn, Becomes(t, y),
         turn[t].pc \in {"load", "call"}
  PROVE  \A u \in Asked : turn[u].told => u # t /\ turn'[u] = turn[u]
BY TurnChanges DEF Control, Placed

\* The id that goes along is what the request asks for, and only a router gets
\* it along with the history.
LEMMA PreviousIs ==
  ASSUME NEW y \in Turn, y.dest # "none", NEW id, id = PreviousID(y.dest, y)
  PROVE  id \in {0, y.asks} /\ (y.handled /\ id # 0 => y.dest = "router")
<1>1. y.dest \in {"chat", "native", "router"}
  BY DEF Turn
<1> QED BY <1>1 DEF PreviousID, PrepareCodexPassthrough

\* The turn that was sent off has an input that Bodies knows, and is seen with
\* no more of its conversation than there is.
LEMMA SentCarries ==
  ASSUME ContextInv, NEW t \in Asked, NEW y \in Turn, Becomes(t, y), Sent(turn[t], y), Placed(y),
         turn[t].pc \in {"load", "call"},
         (y.handled = turn[t].handled /\ y.body = turn[t].body) \/ Prepended(turn[t], y)
  PROVE  /\ AsItCame(t)' \/ FromConnection(t)' \/ FromStore(t)'
         /\ \/ y.seen = y.body
            \/ /\ AsItCame(t)' /\ y.prev # 0
               /\ y.seen = turn'[y.prev].seen \o << Out(y.prev), In(t) >>
<1> DEFINE x == turn[t]
           p == turn[t].prev
<1>1. turn'[t] = y /\ y.prev = p /\ y.asks = x.asks /\ x \in Turn
  BY AskedAre, TurnChanges DEF ContextInv, Sent, SameRequest
<1>2. p # 0 => p \in Asked /\ p \in Turns /\ turn'[p] = turn[p] /\ turn[p] \in Turn
  BY AskedAre, AsksEarlier, ToldStay DEF ContextInv, Chain
<1>3. x.asks \in {0, p} /\ p \in Nat
  BY <1>1, AsksEarlier DEF ContextInv, Turn
<1>4. x.pc # "over"
  OBVIOUS
<1>5. /\ << Out(p) >> \in Seq(Items) /\ << In(t) >> \in Seq(Items)
      /\ << Out(p) >> \o << In(t) >> = << Out(p), In(t) >>
  <2>1. p \in Nat /\ t \in Nat
    BY <1>3, AskedAre DEF ContextInv
  <2> HIDE DEF p
  <2> QED BY <2>1, PairIs
<1>12. y.dest # "none"
  BY DEF Sent
<1>6. ASSUME NEW s \in Seq(Items)
      PROVE  s \o << Out(p) >> \o << In(t) >> = s \o << Out(p), In(t) >>
  <2> HIDE DEF Items, p
  <2> QED BY <1>5, ConcatAssociative
<1>7. CASE AsItCame(t) /\ y.handled = x.handled /\ y.body = x.body
  <2>1. AsItCame(t)'
    BY <1>1, <1>4, <1>7 DEF AsItCame
  <2>2. ~y.handled /\ y.body = << In(t) >>
    BY <1>7 DEF AsItCame
  <2> DEFINE id == PreviousID(y.dest, y)
  <2>3. id \in {0, p}
    <3>1. id \in {0, y.asks}
      <4>1. id = PreviousID(y.dest, y)
        OBVIOUS
      <4> HIDE DEF id
      <4> QED BY <1>12, <4>1, PreviousIs
    <3> QED BY <1>1, <1>3, <3>1
  <2>4. y.seen \in Seen(y.dest, y.body, id)
    BY DEF Sent
  <2> HIDE DEF id
  <2>5. CASE y.seen # y.body
    <3>5. MayResolve(y.dest, id)
      BY <2>4, <2>5 DEF Seen
    <3>1. id # 0 /\ id = p /\ p # 0
      BY <2>3, <3>5 DEF MayResolve
    <3>2. turn[p].seen \in Seq(Items)
      BY <1>2, <3>1 DEF Turn
    <3>3. y.seen = turn[id].seen \o << Out(id) >> \o y.body
      BY <2>4, <2>5 DEF Seen
    <3>4. y.seen = turn[p].seen \o << Out(p), In(t) >>
      <4> HIDE DEF p
      <4> QED BY <1>6, <2>2, <3>1, <3>2, <3>3
    <3> QED BY <1>1, <1>2, <2>1, <3>1, <3>4
  <2>6. CASE y.seen = y.body
    BY <2>1, <2>6
  <2> QED BY <2>5, <2>6
<1>8. CASE FromConnection(t) /\ y.handled = x.handled /\ y.body = x.body
  <2>1. FromConnection(t)'
    BY <1>1, <1>8 DEF FromConnection
  <2>2. PreviousID(y.dest, y) = 0
    <3> DEFINE id == PreviousID(y.dest, y)
    <3>1. id = PreviousID(y.dest, y)
      OBVIOUS
    <3> HIDE DEF id
    <3>2. y.asks = 0
      BY <1>1, <1>8 DEF FromConnection
    <3> QED BY <1>12, <3>1, <3>2, PreviousIs
  <2>3. y.seen = y.body
    BY <2>2 DEF Sent, Seen, MayResolve
  <2> QED BY <2>1, <2>3
<1>9. ASSUME FromStore(t)', y.handled
      PROVE  y.seen = y.body
  <2>1. p # 0 /\ y.asks = p /\ turn[p].dest # "router"
    BY <1>1, <1>2, <1>9 DEF FromStore
  <2> DEFINE id == PreviousID(y.dest, y)
  <2>2. id = 0 \/ (y.dest = "router" /\ id = p)
    <3>1. id = PreviousID(y.dest, y)
      OBVIOUS
    <3> HIDE DEF id
    <3>2. id \in {0, y.asks} /\ (y.handled /\ id # 0 => y.dest = "router")
      BY <1>12, <3>1, PreviousIs
    <3> QED BY <1>9, <2>1, <3>2
  <2>3. y.seen \in Seen(y.dest, y.body, id)
    BY DEF Sent
  <2> HIDE DEF id
  <2>4. ~MayResolve(y.dest, id)
    BY <2>1, <2>2 DEF MayResolve
  <2> QED BY <2>3, <2>4 DEF Seen
<1>10. CASE FromStore(t) /\ y.handled = x.handled /\ y.body = x.body
  <2>1. FromStore(t)'
    BY <1>1, <1>2, <1>10 DEF FromStore
  <2>2. y.handled
    BY <1>10 DEF FromStore
  <2> QED BY <1>9, <2>1, <2>2
<1>11. CASE Prepended(x, y)
  <2>1. /\ x.asks # 0 /\ Found(x.asks) /\ ~x.handled /\ y.handled
        /\ y.body = stored[x.asks].acc \o << Out(x.asks) >> \o x.body
    BY <1>11 DEF Prepended
  <2>2. x.asks = p /\ p # 0 /\ stored[p] # NoEntry
    BY <1>3, <2>1 DEF Found
  <2>3. x.body = << In(t) >>
    BY <2>1, <2>2 DEF ContextInv, Bodies, AsItCame, FromConnection, FromStore
  <2>4. turn[p].dest # "router" /\ stored[p].acc = turn[p].body /\ turn[p].body \in Seq(Items)
    BY <1>2, <2>2, SavedAre DEF ContextInv, Turn
  <2>5. y.body = turn[p].body \o << Out(p), In(t) >>
    <3> HIDE DEF p, x
    <3> QED BY <1>6, <2>1, <2>2, <2>3, <2>4
  <2>6. FromStore(t)'
    BY <1>1, <1>2, <2>1, <2>2, <2>4, <2>5 DEF FromStore
  <2> QED BY <1>9, <2>1, <2>6
<1> QED BY <1>7, <1>8, <1>10, <1>11 DEF ContextInv, Bodies


LEMMA ComesKeeps ==
  ASSUME ContextInv, Comes
  PROVE  Control' /\ Chain' /\ Bodies' /\ Seens' /\ Stores'
<1>0. PICK n : n = Len(turn) + 1
  OBVIOUS
<1>1. PICK y : NewRequest(y) /\ Room /\ turn' = Append(turn, y) /\ UNCHANGED stored
  BY DEF Comes
<1>2. /\ y \in Turn /\ Placed(y) /\ ~y.handled /\ y.seen = << >> /\ y.prev \in Known
  BY <1>1 DEF NewRequest, Request
<1>3. /\ Asked' = Asked \cup {n} /\ n \notin Asked /\ turn'[n] = y
      /\ \A u \in Asked : turn'[u] = turn[u]
  BY <1>0, <1>1, <1>2, TurnComes DEF ContextInv
<1>4. \A u \in Asked : turn[u].prev # 0 => /\ turn[u].prev \in 1 .. u - 1 /\ turn[u].prev \in Asked
                                           /\ turn[turn[u].prev].told
  BY AsksEarlier DEF ContextInv, Chain
<1>5. Len(turn) \in Nat /\ Asked = 1 .. Len(turn)
  BY AskedAre DEF ContextInv
<1>6. y.prev # 0 => y.prev \in 1 .. n - 1 /\ y.prev \in Asked /\ turn[y.prev].told
  BY <1>0, <1>2, <1>5 DEF Known
<1>7. Control'
  BY <1>2, <1>3 DEF ContextInv, Control
<1>8. Chain'
  BY <1>3, <1>4, <1>6 DEF Chain
<1>9. Bodies'
  <2>1. ASSUME NEW u \in Asked
        PROVE  AsItCame(u)' \/ FromConnection(u)' \/ FromStore(u)'
    <3>1. turn'[u] = turn[u] /\ (turn[u].prev # 0 => turn'[turn[u].prev] = turn[turn[u].prev])
      BY <1>3, <1>4
    <3>2. AsItCame(u) \/ FromConnection(u) \/ FromStore(u)
      BY DEF ContextInv, Bodies
    <3> QED BY <3>1, <3>2 DEF AsItCame, FromConnection, FromStore
  <2>2. AsItCame(n)' \/ FromConnection(n)'
    <3>1. << In(n) >> # << Out(y.prev), In(n) >>
      OBVIOUS
    <3>2. /\ \/ y.body = << In(n) >>
             \/ y.body = << Out(y.prev), In(n) >> /\ y.asks = 0 /\ y.prev # 0
          /\ y.asks \in {0, y.prev}
          /\ y.asks = y.prev \/ y.pc = "over" \/ y.body = << Out(y.prev), In(n) >>
      BY <1>0, <1>1 DEF NewRequest, Request
    <3> QED BY <1>2, <1>3, <3>1, <3>2 DEF AsItCame, FromConnection
  <2> QED BY <1>3, <2>1, <2>2 DEF Bodies
<1>10. Seens'
  <2>1. ASSUME NEW u \in Asked
        PROVE  (\/ turn[u].seen \in {<< >>, turn[u].body}
                \/ /\ AsItCame(u) /\ turn[u].prev # 0
                   /\ turn[u].seen = turn[turn[u].prev].seen \o << Out(turn[u].prev), In(u) >>)'
    <3>1. turn'[u] = turn[u] /\ (turn[u].prev # 0 => turn'[turn[u].prev] = turn[turn[u].prev])
      BY <1>3, <1>4
    <3>2. AsItCame(u)' = AsItCame(u)
      BY <3>1 DEF AsItCame
    <3> QED BY <3>1, <3>2 DEF ContextInv, Seens
  <2>2. turn'[n].seen \in {<< >>, turn'[n].body}
    BY <1>2, <1>3
  <2> QED BY <1>3, <2>1, <2>2 DEF Seens
<1>11. Stores'
  BY <1>1, <1>3 DEF ContextInv, Stores
<1> QED BY <1>7, <1>8, <1>9, <1>10, <1>11

LEMMA OffKeeps ==
  ASSUME ContextInv, GoesOff
  PROVE  Control' /\ Chain' /\ Bodies' /\ Seens' /\ Stores'
<1>1. PICK t \in Asked, y \in Turn :
        /\ Becomes(t, y) /\ Sent(turn[t], y) /\ Placed(y)
        /\ turn[t].pc \in {"load", "call"} /\ UNCHANGED stored
        /\ (y.handled = turn[t].handled /\ y.body = turn[t].body) \/ Prepended(turn[t], y)
  BY DEF GoesOff
<1>2. Asked' = Asked /\ turn'[t] = y /\ \A u \in Asked : u # t => turn'[u] = turn[u]
  BY <1>1, TurnChanges DEF ContextInv
<1>3. \A u \in Asked : turn[u].told => u # t /\ turn'[u] = turn[u]
  BY <1>1, ToldStay DEF ContextInv
<1>4. \A u \in Asked : turn[u].prev # 0 =>
        /\ turn[u].prev \in 1 .. u - 1 /\ turn[u].prev \in Asked
        /\ turn[turn[u].prev].told /\ turn'[turn[u].prev] = turn[turn[u].prev]
  BY <1>3, AsksEarlier DEF ContextInv, Chain
<1>5. y.prev = turn[t].prev
  BY <1>1 DEF Sent, SameRequest
<1>6. /\ AsItCame(t)' \/ FromConnection(t)' \/ FromStore(t)'
      /\ \/ y.seen = y.body
         \/ /\ AsItCame(t)' /\ y.prev # 0
            /\ y.seen = turn'[y.prev].seen \o << Out(y.prev), In(t) >>
  BY <1>1, SentCarries
<1>7. Control'
  BY <1>1, <1>2 DEF ContextInv, Control
<1>8. Chain'
  BY <1>2, <1>4, <1>5 DEF Chain
<1>9. ASSUME NEW u \in Asked, u # t
      PROVE  /\ turn'[u] = turn[u]
             /\ turn[u].prev # 0 => turn'[turn[u].prev] = turn[turn[u].prev]
  BY <1>2, <1>4, <1>9
<1>10. Bodies'
  <2>1. ASSUME NEW u \in Asked, u # t
        PROVE  AsItCame(u)' \/ FromConnection(u)' \/ FromStore(u)'
    <3>1. AsItCame(u) \/ FromConnection(u) \/ FromStore(u)
      BY DEF ContextInv, Bodies
    <3> QED BY <1>9, <2>1, <3>1 DEF AsItCame, FromConnection, FromStore
  <2> QED BY <1>2, <1>6, <2>1 DEF Bodies
<1>11. Seens'
  <2>1. ASSUME NEW u \in Asked, u # t
        PROVE  (\/ turn[u].seen \in {<< >>, turn[u].body}
                \/ /\ AsItCame(u) /\ turn[u].prev # 0
                   /\ turn[u].seen = turn[turn[u].prev].seen \o << Out(turn[u].prev), In(u) >>)'
    <3>1. AsItCame(u)' = AsItCame(u)
      BY <1>9, <2>1 DEF AsItCame
    <3> QED BY <1>9, <2>1, <3>1 DEF ContextInv, Seens
  <2>2. (\/ turn[t].seen \in {<< >>, turn[t].body}
         \/ /\ AsItCame(t) /\ turn[t].prev # 0
            /\ turn[t].seen = turn[turn[t].prev].seen \o << Out(turn[t].prev), In(t) >>)'
    BY <1>2, <1>6
  <2> QED BY <1>2, <2>1, <2>2 DEF Seens
<1>12. Stores'
  <2>1. turn[t].save = "none"
    BY <1>1 DEF ContextInv, Control, Placed
  <2> QED BY <1>1, <1>2, <2>1 DEF ContextInv, Stores
<1> QED BY <1>7, <1>8, <1>10, <1>11, <1>12

LEMMA OnKeeps ==
  ASSUME ContextInv, GoesOn
  PROVE  Control' /\ Chain' /\ Bodies' /\ Seens' /\ Stores'
<1>1. /\ Asked' = Asked
      /\ \A t \in Asked :
           /\ SameContext(turn[t], turn'[t]) /\ Placed(turn'[t])
           /\ turn[t].told => turn'[t].told
           /\ turn[t].pc = "over" => turn'[t].pc = "over"
           /\ turn[t].save = "ok" => turn'[t].save = "ok"
      /\ \A t \in Turns : Keeping(t)
  BY DEF GoesOn
<1>2. \A u \in Asked : turn[u].prev # 0 => /\ turn[u].prev \in 1 .. u - 1 /\ turn[u].prev \in Asked
                                           /\ turn[turn[u].prev].told
  BY AsksEarlier DEF ContextInv, Chain
<1>3. Control'
  BY <1>1 DEF Control
<1>4. Chain'
  BY <1>1, <1>2 DEF Chain, SameContext, SameRequest
<1>5. ASSUME NEW u \in Asked
      PROVE  AsItCame(u) => AsItCame(u)'
  BY <1>1 DEF AsItCame, SameContext, SameRequest
<1>6. Bodies'
  <2> SUFFICES ASSUME NEW u \in Asked
               PROVE  AsItCame(u)' \/ FromConnection(u)' \/ FromStore(u)'
    BY <1>1 DEF Bodies
  <2>1. CASE AsItCame(u)
    BY <1>5, <2>1
  <2>2. CASE FromConnection(u)
    BY <1>1, <2>2 DEF FromConnection, SameContext, SameRequest
  <2>3. CASE FromStore(u)
    <3>1. turn[u].prev \in Asked
      BY <1>2, <2>3 DEF FromStore
    <3> QED BY <1>1, <2>3, <3>1, ZenonT(30) DEF FromStore, SameContext, SameRequest
  <2> QED BY <2>1, <2>2, <2>3 DEF ContextInv, Bodies
<1>7. Seens'
  <2> SUFFICES ASSUME NEW u \in Asked
               PROVE  (\/ turn[u].seen \in {<< >>, turn[u].body}
                       \/ /\ AsItCame(u) /\ turn[u].prev # 0
                          /\ turn[u].seen = turn[turn[u].prev].seen \o << Out(turn[u].prev), In(u) >>)'
    BY <1>1 DEF Seens
  <2>1. turn'[u].seen = turn[u].seen /\ turn'[u].body = turn[u].body /\ turn'[u].prev = turn[u].prev
    BY <1>1 DEF SameContext, SameRequest
  <2>2. turn[u].prev # 0 => turn'[turn[u].prev].seen = turn[turn[u].prev].seen
    BY <1>1, <1>2 DEF SameContext
  <2>3. \/ turn[u].seen \in {<< >>, turn[u].body}
        \/ /\ AsItCame(u) /\ turn[u].prev # 0
           /\ turn[u].seen = turn[turn[u].prev].seen \o << Out(turn[u].prev), In(u) >>
    BY DEF ContextInv, Seens
  <2> QED BY <1>5, <2>1, <2>2, <2>3
<1>8. Stores'
  <2> SUFFICES ASSUME NEW t \in Turns, stored'[t] # NoEntry
               PROVE  /\ t \in Asked /\ turn'[t].save = "ok"
                      /\ stored'[t].acc = turn'[t].body /\ stored'[t].cred = turn'[t].dest
    BY <1>1 DEF Stores
  <2>1. CASE stored'[t] = stored[t]
    BY <1>1, <2>1 DEF ContextInv, Stores, SameContext
  <2>2. CASE t \in Asked /\ stored'[t] = Entry(turn[t]) /\ turn'[t].save = "ok"
    BY <1>1, <2>2 DEF Entry, SameContext
  <2> QED BY <1>1, <2>1, <2>2 DEF Keeping
<1> QED BY <1>3, <1>4, <1>6, <1>7, <1>8

LEMMA EntryType ==
  ASSUME TypeOK, NEW t \in Asked
  PROVE  Entry(turn[t]) \in [expires : Int, acc : Seq(Items), cred : {"none", "chat", "native", "router"}]
<1>1. turn[t] \in Turn /\ turn[t].shape.ttl \in Nat /\ clock \in Nat
  BY AskedAre, BoundsAssumption DEF TypeOK, Turn
<1>2. Expires(turn[t].shape.ttl) \in Int
  BY <1>1 DEF Expires
<1> QED BY <1>1, <1>2 DEF Entry, Turn

LEMMA TypeNext ==
  ASSUME ContextInv, [Next]_vars
  PROVE  TypeOK'
<1>0. TypeOK /\ Control /\ Chain /\ Bodies
  BY DEF ContextInv
<1>1. turn' \in Seq(Turn) /\ Len(turn') <= MaxTurns
  <2>1. CASE Comes
    <3>1. PICK y : NewRequest(y) /\ Room /\ turn' = Append(turn, y)
      BY <2>1 DEF Comes
    <3> QED BY <1>0, <3>1, TurnComes DEF NewRequest, Request
  <2>2. CASE GoesOff
    BY <1>0, <2>2, TurnChanges DEF GoesOff, TypeOK
  <2>3. CASE GoesOn
    BY <1>0, <2>3 DEF GoesOn, TypeOK
  <2> QED BY <1>0, <2>1, <2>2, <2>3, Steps
<1> DEFINE E == [expires : Int, acc : Seq(Items), cred : {"none", "chat", "native", "router"}]
<1>2. stored' \in [Turns -> E]
  <2>0. stored \in [Turns -> E] /\ NoEntry \in E
    BY <1>0, EmptySeq DEF TypeOK, NoEntry
  <2>1. ASSUME NEW t \in Asked, SaveResponse(t)
        PROVE  stored' \in [Turns -> E]
    <3>1. Entry(turn[t]) \in E
      BY <1>0, EntryType
    <3>2. UNCHANGED stored \/ stored' = [stored EXCEPT ![t] = Entry(turn[t])]
      BY <2>1 DEF SaveResponse
    <3> HIDE DEF E
    <3> QED BY <2>0, <3>1, <3>2
  <2>2. CASE CleanupExpired
    <3>1. stored' = [t \in Turns |-> IF Expired(stored[t]) THEN NoEntry ELSE stored[t]]
      BY <2>2 DEF CleanupExpired
    <3> HIDE DEF E
    <3> QED BY <2>0, <3>1
  <2>3. ASSUME NEW t \in Asked, Load(t) \/ Retry(t) \/ Refuse(t) \/ Answer(t) \/ Tell(t)
        PROVE  UNCHANGED stored
    BY <2>3 DEF Load, Retry, Refuse, Answer, Tell
  <2>4. ASSUME NEW shape \in Shapes, Ask(shape) \/ AskWebSocket(shape)
        PROVE  UNCHANGED stored
    BY <2>4 DEF Ask, AskWebSocket
  <2>5. CASE EndTurn \/ Disconnect \/ Connect \/ Tick \/ Crash \/ UNCHANGED vars
    <3>1. UNCHANGED stored
      BY <2>5 DEF EndTurn, Disconnect, Connect, Tick, Crash, vars
    <3> QED BY <2>0, <3>1
  <2> HIDE DEF E
  <2> QED BY <2>0, <2>1, <2>2, <2>3, <2>4, <2>5 DEF Next, Handle
<1>3. /\ conn' \in [number : Nat \ {0}, open : BOOLEAN, turn : Nat] /\ local' \subseteq Nat
      /\ clock' \in Nat /\ faults' \in Nat
  <2>0. /\ conn \in [number : Nat \ {0}, open : BOOLEAN, turn : Nat] /\ local \subseteq Nat
        /\ clock \in Nat /\ faults \in Nat /\ Len(turn) \in Nat
        /\ \A t \in Asked : t \in Nat
    BY <1>0, AskedAre DEF TypeOK
  <2>1. ASSUME NEW t \in Asked, Handle(t) \/ Retry(t) \/ Refuse(t)
        PROVE  UNCHANGED <<conn, local, clock>> /\ faults' \in Nat
    <3>0. \A b : Faults(b) => faults' \in Nat
      BY <2>0 DEF Faults
    <3>1. CASE Load(t)
      BY <3>0, <3>1 DEF Load
    <3>2. CASE Answer(t)
      BY <3>0, <3>2 DEF Answer
    <3>3. CASE SaveResponse(t)
      BY <3>0, <3>3 DEF SaveResponse
    <3>4. CASE Tell(t)
      BY <2>0, <3>4 DEF Tell
    <3>5. CASE Retry(t) \/ Refuse(t)
      BY <3>0, <3>5 DEF Retry, Refuse
    <3> QED BY <2>1, <3>1, <3>2, <3>3, <3>4, <3>5 DEF Handle
  <2>2. ASSUME NEW shape \in Shapes, Ask(shape)
        PROVE  UNCHANGED <<conn, local, clock, faults>>
    BY <2>2 DEF Ask
  <2>3. ASSUME NEW shape \in Shapes, AskWebSocket(shape)
        PROVE  /\ conn' \in [number : Nat \ {0}, open : BOOLEAN, turn : Nat] /\ local' \subseteq Nat
               /\ UNCHANGED <<clock, faults>>
    BY <2>0, <2>3 DEF AskWebSocket
  <2>4. CASE EndTurn
    <3>1. \A t : Cached(t) \subseteq local \cup {t}
      BY DEF Cached
    <3>2. local' \subseteq local \cup {conn.turn} /\ conn.turn \in Nat
      BY <2>0, <2>4, <3>1 DEF EndTurn
    <3> QED BY <2>0, <2>4, <3>2 DEF EndTurn
  <2>5. CASE Disconnect \/ Connect \/ Crash \/ CleanupExpired \/ Tick \/ UNCHANGED vars
    <3>0. \A b : Faults(b) => faults' \in Nat
      BY <2>0 DEF Faults
    <3>1. CASE Disconnect
      BY <2>0, <3>0, <3>1 DEF Disconnect
    <3>2. CASE Connect
      BY <2>0, <3>2 DEF Connect
    <3>3. CASE Crash
      BY <2>0, <3>0, <3>3 DEF Crash
    <3>4. CASE CleanupExpired
      BY <2>0, <3>4 DEF CleanupExpired
    <3>5. CASE Tick
      BY <2>0, <3>5 DEF Tick
    <3>6. CASE UNCHANGED vars
      BY <2>0, <3>6 DEF vars
    <3> QED BY <2>5, <3>1, <3>2, <3>3, <3>4, <3>5, <3>6
  <2> QED BY <2>0, <2>1, <2>2, <2>3, <2>4, <2>5 DEF Next
<1> QED BY <1>1, <1>2, <1>3 DEF TypeOK

THEOREM ContextKept == Spec => []ContextInv
<1>1. Init => ContextInv
  <2> SUFFICES ASSUME Init PROVE ContextInv
    OBVIOUS
  <2>1. turn = << >> /\ << >> \in Seq(Turn) /\ Len(turn) = 0
    BY EmptySeq DEF Init
  <2>2. Asked = {}
    BY <2>1, LenProperties DEF Asked
  <2>3. << >> \in Seq(Items)
    BY EmptySeq
  <2>4. TypeOK
    BY <2>1, <2>3, BoundsAssumption DEF Init, TypeOK, NoEntry
  <2>5. Stores
    BY DEF Init, Stores
  <2> QED BY <2>2, <2>4, <2>5 DEF ContextInv, Control, Chain, Bodies, Seens
<1>2. ContextInv /\ [Next]_vars => ContextInv'
  <2> SUFFICES ASSUME ContextInv, [Next]_vars PROVE ContextInv'
    OBVIOUS
  <2>1. TypeOK'
    BY TypeNext
  <2>2. Control' /\ Chain' /\ Bodies' /\ Seens' /\ Stores'
    BY Steps, ComesKeeps, OffKeeps, OnKeeps DEF ContextInv
  <2> QED BY <2>1, <2>2 DEF ContextInv
<1> QED BY <1>1, <1>2, PTL DEF Spec

\* Requests, the store and the connection keep their types.
THEOREM TypeCorrect == Spec => []TypeOK
<1>1. ContextInv => TypeOK
  BY DEF ContextInv
<1> QED BY <1>1, ContextKept, PTL

\* Whoever answers sees the end of the conversation, in order and nothing
\* twice, whatever fails, expires or crashes; and all of it when the store
\* knew it (proxy/orchestrator.go:122-157).
THEOREM ContextIsKept == Spec => []ContextIsHistory
<1>1. ContextInv => ContextIsHistory
  BY ContextFollows DEF ContextInv
<1> QED BY <1>1, ContextKept, PTL


-----------------------------------------------------------------------------
(* A response that was saved stays until its time is over.                 *)

Lasts(t) == turn[t].shape.ttl = 0 \/ clock < turn[t].shape.ttl

\* An entry is made when the clock shows 0 or later: it is good for a time to
\* live at least.
SavedLasts ==
  \A t \in Asked : turn[t].save = "ok" /\ Lasts(t) =>
    /\ stored[t].acc = turn[t].body /\ stored[t].cred = turn[t].dest
    /\ turn[t].shape.ttl = 0 => stored[t].expires = 0
    /\ turn[t].shape.ttl # 0 => stored[t].expires >= turn[t].shape.ttl

LEMMA SavedFollows ==
  TypeOK /\ Control /\ SavedLasts => StoredOnceTold
<1> SUFFICES ASSUME TypeOK, Control, SavedLasts, NEW t \in Asked,
                    turn[t].shape.store = "true", turn[t].told, turn[t].outcome = "completed",
                    turn[t].dest # "router", turn[t].save # "failed",
                    turn[t].shape.stream /\ turn[t].dest = "chat" => turn[t].pc = "over",
                    Lasts(t)
             PROVE  stored[t].acc = turn[t].body /\ stored[t].cred = turn[t].dest
  BY DEF StoredOnceTold, Lasts
<1>1. Placed(turn[t]) /\ turn[t] \in Turn /\ Saves(turn[t])
  BY AskedAre DEF Control, Saves
<1>2. turn[t].pc = "over"
  BY <1>1 DEF Placed, ToldFirst
<1>3. turn[t].save = "ok"
  BY <1>1, <1>2 DEF Placed, Turn
<1> QED BY <1>3 DEF SavedLasts

\* A step saves a response, or leaves what is saved and has not expired.
LEMMA SavedNext ==
  ASSUME ContextInv, SavedLasts, [Next]_vars
  PROVE  SavedLasts'
<1>0. TypeOK /\ Control /\ Chain /\ Bodies /\ clock \in Nat
  BY DEF ContextInv, TypeOK
<1>1. /\ \A t \in Asked : t \in Turns /\ turn[t].shape.ttl \in Nat
      /\ stored \in [Turns -> [expires : Int, acc : Seq(Items),
                               cred : {"none", "chat", "native", "router"}]]
  <2>1. \A t \in Asked : t \in Turns /\ turn[t] \in Turn
    BY <1>0, AskedAre
  <2> QED BY <1>0, <2>1, BoundsAssumption DEF TypeOK, Turn
<1>2. ASSUME UNCHANGED stored, clock' \in Nat, clock' >= clock,
             \A t \in Asked' : turn'[t].save = "ok" =>
               /\ t \in Asked /\ turn[t].save = "ok" /\ turn'[t].shape = turn[t].shape
               /\ turn'[t].body = turn[t].body /\ turn'[t].dest = turn[t].dest
      PROVE  SavedLasts'
  <2> SUFFICES ASSUME NEW t \in Asked', turn'[t].save = "ok", Lasts(t)'
               PROVE  /\ stored'[t].acc = turn'[t].body /\ stored'[t].cred = turn'[t].dest
                      /\ turn'[t].shape.ttl = 0 => stored'[t].expires = 0
                      /\ turn'[t].shape.ttl # 0 => stored'[t].expires >= turn'[t].shape.ttl
    BY DEF SavedLasts
  <2>1. /\ t \in Asked /\ turn[t].save = "ok" /\ turn'[t].shape = turn[t].shape
        /\ turn'[t].body = turn[t].body /\ turn'[t].dest = turn[t].dest
    BY <1>2
  <2>2. Lasts(t)
    BY <1>0, <1>1, <1>2, <2>1 DEF Lasts
  <2> QED BY <1>2, <2>1, <2>2 DEF SavedLasts
<1>3. ASSUME NEW t \in Asked, NEW y \in Turn, Becomes(t, y), SameRequest(turn[t], y),
             UNCHANGED <<stored, clock>>,
             \/ y.save = "none"
             \/ y.save = turn[t].save /\ y.body = turn[t].body /\ y.dest = turn[t].dest
      PROVE  SavedLasts'
  <2>1. Asked' = Asked /\ turn'[t] = y /\ \A u \in Asked : u # t => turn'[u] = turn[u]
    BY <1>0, <1>3, TurnChanges
  <2>2. \A u \in Asked' : turn'[u].save = "ok" =>
               /\ u \in Asked /\ turn[u].save = "ok" /\ turn'[u].shape = turn[u].shape
               /\ turn'[u].body = turn[u].body /\ turn'[u].dest = turn[u].dest
    BY <1>3, <2>1 DEF SameRequest
  <2> QED BY <1>0, <1>2, <1>3, <2>2
<1>4. ASSUME NEW y, NewRequest(y), Room, turn' = Append(turn, y), UNCHANGED <<stored, clock>>
      PROVE  SavedLasts'
  <2>1. y \in Turn /\ y.save = "none"
    BY <1>4 DEF NewRequest, Request
  <2>2. /\ Asked' = Asked \cup {Len(turn) + 1} /\ turn'[Len(turn) + 1] = y
        /\ \A u \in Asked : turn'[u] = turn[u]
    BY <1>0, <1>4, <2>1, TurnComes
  <2>3. \A u \in Asked' : turn'[u].save = "ok" =>
               /\ u \in Asked /\ turn[u].save = "ok" /\ turn'[u].shape = turn[u].shape
               /\ turn'[u].body = turn[u].body /\ turn'[u].dest = turn[u].dest
    BY <2>1, <2>2
  <2>4. UNCHANGED stored /\ clock' \in Nat /\ clock' >= clock
    BY <1>0, <1>4
  <2> QED BY <1>2, <2>3, <2>4
<1>5. CASE \E shape \in Shapes : Ask(shape) \/ AskWebSocket(shape)
  <2> PICK shape \in Shapes : Ask(shape) \/ AskWebSocket(shape)
    BY <1>5
  <2>1. /\ Room /\ UNCHANGED <<stored, clock>>
        /\ \E y : NewRequest(y) /\ turn' = Append(turn, y)
    BY <1>0, AskIs, AskWebSocketIs
  <2> QED BY <1>4, <2>1
<1>6. CASE \E t \in Asked : Load(t) \/ Retry(t)
  <2> PICK t \in Asked : Load(t) \/ Retry(t)
    BY <1>6
  <2>1. /\ turn[t].pc \in {"load", "call"} /\ UNCHANGED <<stored, clock>>
        /\ \E y \in Turn : Becomes(t, y) /\ Sent(turn[t], y)
    BY <1>0, LoadIs, RetryIs
  <2>2. turn[t].save = "none"
    BY <1>0, <2>1 DEF Control, Placed
  <2> QED BY <1>3, <2>1, <2>2 DEF Sent
<1>7. CASE \E t \in Asked : Refuse(t) \/ Answer(t) \/ Tell(t)
  <2> PICK t \in Asked : Refuse(t) \/ Answer(t) \/ Tell(t)
    BY <1>7
  <2>1. /\ UNCHANGED <<stored, clock>>
        /\ \E y \in Turn : Becomes(t, y) /\ SameContext(turn[t], y) /\ y.save = turn[t].save
    BY <1>0, RefuseIs, AnswerIs, TellIs
  <2> QED BY <1>3, <2>1 DEF SameContext
<1>8. CASE \E t \in Asked : SaveResponse(t)
  <2> PICK t \in Asked : SaveResponse(t)
    BY <1>8
  <2>1. turn[t].save = "none" /\ UNCHANGED clock
    BY <1>0, SaveIs
  <2>2. PICK y \in Turn : /\ Becomes(t, y) /\ SameContext(turn[t], y)
                          /\ \/ y.save = "ok" /\ stored' = [stored EXCEPT ![t] = Entry(turn[t])]
                             \/ y.save = "failed" /\ UNCHANGED stored
    BY <1>0, SaveIs
  <2>3. Asked' = Asked /\ turn'[t] = y /\ \A u \in Asked : u # t => turn'[u] = turn[u]
    BY <1>0, <2>2, TurnChanges
  <2>4. ASSUME NEW u \in Asked, u # t, turn'[u].save = "ok", Lasts(u)'
        PROVE  /\ stored'[u].acc = turn'[u].body /\ stored'[u].cred = turn'[u].dest
               /\ turn'[u].shape.ttl = 0 => stored'[u].expires = 0
               /\ turn'[u].shape.ttl # 0 => stored'[u].expires >= turn'[u].shape.ttl
    <3>1. turn'[u] = turn[u] /\ Lasts(u)
      BY <2>1, <2>3, <2>4 DEF Lasts
    <3>2. stored'[u] = stored[u]
      BY <1>1, <2>2, <2>4
    <3> QED BY <2>4, <3>1, <3>2 DEF SavedLasts
  <2>5. ASSUME y.save = "ok"
        PROVE  /\ stored'[t].acc = y.body /\ stored'[t].cred = y.dest
               /\ y.shape.ttl = 0 => stored'[t].expires = 0
               /\ y.shape.ttl # 0 => stored'[t].expires >= y.shape.ttl
    <3>1. stored'[t] = Entry(turn[t])
      BY <1>1, <2>2, <2>5
    <3>2. y.shape = turn[t].shape /\ y.body = turn[t].body /\ y.dest = turn[t].dest
      BY <2>2 DEF SameContext, SameRequest
    <3>3. turn[t].shape.ttl \in Nat /\ clock \in Nat
      BY <1>0, <1>1
    <3> QED BY <3>1, <3>2, <3>3 DEF Entry, Expires
  <2> QED BY <2>3, <2>4, <2>5 DEF SavedLasts
<1>9. CASE Crash
  <2>1. /\ UNCHANGED <<stored, clock>> /\ Asked' = Asked
        /\ \A u \in Asked : SameContext(turn[u], turn'[u]) /\ turn'[u].save = turn[u].save
    BY <1>0, <1>9, CrashIs
  <2> QED BY <1>0, <1>2, <2>1 DEF SameContext, SameRequest
<1>10. CASE EndTurn \/ Disconnect \/ Connect \/ Tick \/ UNCHANGED vars
  <2>1. UNCHANGED <<turn, stored>> /\ clock' \in {clock, clock + 1}
    BY <1>10 DEF EndTurn, Disconnect, Connect, Tick, vars
  <2> QED BY <1>0, <1>2, <2>1 DEF Asked
<1>11. CASE CleanupExpired
  <2>1. /\ UNCHANGED <<turn, clock>>
        /\ \A t \in Turns : stored'[t] = IF Expired(stored[t]) THEN NoEntry ELSE stored[t]
    BY <1>11 DEF CleanupExpired
  <2>2. ASSUME NEW t \in Asked, turn[t].save = "ok", Lasts(t)
        PROVE  stored'[t] = stored[t]
    <3>1. /\ turn[t].shape.ttl = 0 => stored[t].expires = 0
          /\ turn[t].shape.ttl # 0 => stored[t].expires >= turn[t].shape.ttl
      BY <2>2 DEF SavedLasts
    <3>2. /\ turn[t].shape.ttl \in Nat /\ clock \in Nat /\ stored[t].expires \in Int /\ t \in Turns
      BY <1>0, <1>1
    <3>3. ~Expired(stored[t])
      BY <2>2, <3>1, <3>2 DEF Expired, Lasts
    <3> QED BY <2>1, <3>2, <3>3
  <2> QED BY <2>1, <2>2 DEF SavedLasts, Lasts, Asked
<1> QED
  BY <1>5, <1>6, <1>7, <1>8, <1>9, <1>10, <1>11 DEF Next, Handle


-----------------------------------------------------------------------------
(* The connection.                                                         *)

\* A turn that came over this connection.
Ours(t) == turn[t].conn = conn.number

\* The turn that runs is the last one of the connection, and the only one of
\* it that is not over; connections that are gone have smaller numbers.
OneRuns ==
  /\ \A t \in Asked : turn[t].conn <= conn.number
  /\ conn.turn # 0 => /\ conn.open /\ conn.turn \in Asked /\ Ours(conn.turn)
                      /\ \A u \in Asked : Ours(u) => u <= conn.turn
  /\ conn.open => \A t \in Asked : Ours(t) /\ turn[t].pc # "over" => conn.turn = t

\* Responses that the connection would remember if nothing was evicted.
Completes(t) ==
  /\ Ours(t) /\ turn[t].shape.store = "false"
  /\ turn[t].told /\ Final(turn[t]) /\ conn.turn # t

Evicts(u, t) ==
  /\ Ours(u) /\ turn[u].prev = t /\ turn[u].shape.store = "false"
  /\ IsFailed(turn[u]) /\ turn[u].pc = "over" /\ conn.turn # u

LEMMA RemembersIs ==
  /\ ConnectionRemembers <=>
       (conn.open => local = {t \in Asked : Completes(t) /\ ~\E u \in Asked : Evicts(u, t)})
  /\ ConnectionRemembers' <=>
       (conn.open => local = {t \in Asked : Completes(t) /\ ~\E u \in Asked : Evicts(u, t)})'
BY DEF ConnectionRemembers, Completes, Evicts, Evicted, Ours

ConnectionInv == OneRuns /\ ConnectionRemembers

\* What happens to the turn that runs is not seen in the connection's cache.
LEMMA RunningIsHidden ==
  ASSUME TypeOK, ConnectionInv, NEW t \in Asked, NEW y \in Turn, Becomes(t, y), SameRequest(turn[t], y),
         turn[t].pc # "over", UNCHANGED <<conn, local>>
  PROVE  ConnectionInv'
<1>1. Asked' = Asked /\ turn'[t] = y /\ \A u \in Asked : u # t => turn'[u] = turn[u]
  BY TurnChanges
<1>2. \A u \in Asked : Ours(u)' = Ours(u) /\ turn'[u].conn = turn[u].conn
  BY <1>1 DEF Ours, SameRequest
<1>3. conn.open /\ Ours(t) => conn.turn = t
  BY DEF ConnectionInv, OneRuns
<1>4. OneRuns'
  BY <1>1, <1>2, <1>3 DEF ConnectionInv, OneRuns
<1>5. ASSUME conn.open, NEW u \in Asked
      PROVE  Completes(u)' = Completes(u) /\ \A v : Evicts(u, v)' = Evicts(u, v)
  <2>1. CASE u = t
    BY <1>2, <1>3, <1>5, <2>1 DEF Completes, Evicts
  <2>2. CASE u # t
    BY <1>1, <1>2, <1>5, <2>2 DEF Completes, Evicts
  <2> QED BY <2>1, <2>2
<1>6. ConnectionRemembers'
  <2>1. (conn.open => local = {u \in Asked : Completes(u) /\ ~\E v \in Asked : Evicts(v, u)})'
    BY <1>1, <1>5, RemembersIs DEF ConnectionInv
  <2> QED BY <2>1, RemembersIs
<1> QED BY <1>4, <1>6 DEF ConnectionInv

\* A new turn starts, or is rejected and evicts what it asked for.
LEMMA ComesToConnection ==
  ASSUME TypeOK, Chain, ConnectionInv, NEW y, NewRequest(y), Room, turn' = Append(turn, y),
         \/ y.conn = 0 /\ UNCHANGED <<conn, local>>
         \/ /\ y.conn = conn.number /\ conn.open /\ conn.turn = 0 /\ y.pc = "load"
            /\ conn' = [conn EXCEPT !.turn = Len(turn) + 1] /\ UNCHANGED local
         \/ /\ y.conn = conn.number /\ conn.open /\ conn.turn = 0 /\ y.pc = "over"
            /\ y.outcome = "refused" /\ y.shape.store = "false"
            /\ local' = local \ {y.prev} /\ UNCHANGED conn
  PROVE  ConnectionInv'
<1>0. PICK n : n = Len(turn) + 1
  OBVIOUS
<1>1. y \in Turn /\ ~y.told /\ y.outcome # "completed" /\ y.prev \in Known
  BY DEF NewRequest, Request
<1>2. /\ Asked' = Asked \cup {n} /\ n \notin Asked /\ turn'[n] = y
      /\ \A u \in Asked : turn'[u] = turn[u]
  BY <1>0, <1>1, TurnComes
<1>3. /\ Len(turn) \in Nat /\ Asked = 1 .. Len(turn)
      /\ conn \in [number : Nat \ {0}, open : BOOLEAN, turn : Nat]
  BY AskedAre DEF TypeOK
<1>4. conn'.number = conn.number /\ conn'.open = conn.open
  BY <1>3
<1>5. /\ \A u \in Asked : Ours(u)' = Ours(u)
      /\ Ours(n)' <=> y.conn = conn.number
  BY <1>2, <1>4 DEF Ours
<1>6. conn'.turn = conn.turn \/ (conn'.turn = n /\ conn.turn = 0)
  BY <1>0, <1>3
<1>7. \A u \in Asked : Completes(u)' = Completes(u) /\ \A v : Evicts(u, v)' = Evicts(u, v)
  <2>1. \A u \in Asked : u # n /\ u # 0
    BY <1>2, <1>3
  <2> QED BY <1>2, <1>5, <1>6, <2>1 DEF Completes, Evicts
<1>8. ~Completes(n)'
  BY <1>1, <1>2 DEF Completes
<1>9. \A v \in Asked : ~Evicts(v, n)
  <2>1. \A v \in Asked : turn[v].prev # n
    BY <1>0, <1>3 DEF Chain
  <2> QED BY <2>1 DEF Evicts
<1>10. CASE y.conn = 0 /\ UNCHANGED <<conn, local>>
  <2>1. ~Ours(n)'
    BY <1>3, <1>5, <1>10
  <2>2. OneRuns'
    <3>1. conn' = conn /\ y.conn <= conn.number
      BY <1>3, <1>10
    <3>2. \A u \in Asked' : turn'[u].conn <= conn'.number
      BY <1>2, <3>1 DEF ConnectionInv, OneRuns
    <3>3. \A u \in Asked' : Ours(u)' => u \in Asked /\ Ours(u) /\ turn'[u] = turn[u]
      BY <1>2, <1>5, <2>1
    <3>4. conn.turn # 0 => Ours(conn.turn)'
      BY <1>5 DEF ConnectionInv, OneRuns
    <3> QED BY <1>2, <3>1, <3>2, <3>3, <3>4 DEF ConnectionInv, OneRuns
  <2>3. \A v : ~Evicts(n, v)'
    BY <2>1 DEF Evicts
  <2>4. (conn.open => local = {t \in Asked : Completes(t) /\ ~\E u \in Asked : Evicts(u, t)})'
    BY <1>2, <1>7, <1>8, <1>10, <2>3, RemembersIs DEF ConnectionInv
  <2> QED BY <2>2, <2>4, RemembersIs DEF ConnectionInv
<1>11. CASE /\ y.conn = conn.number /\ conn.open /\ conn.turn = 0 /\ y.pc = "load"
            /\ conn' = [conn EXCEPT !.turn = n] /\ UNCHANGED local
  <2>1. conn'.turn = n /\ n \in Nat /\ n # 0
    BY <1>0, <1>3, <1>11
  <2>2. \A u \in Asked : u <= n
    BY <1>0, <1>3
  <2>3. OneRuns'
    <3>1. \A u \in Asked : turn[u].conn <= conn.number /\ (Ours(u) => turn[u].pc = "over")
      <4>1. \A u \in Asked : u # 0
        BY <1>3
      <4> QED BY <1>11, <4>1 DEF ConnectionInv, OneRuns
    <3> QED BY <1>2, <1>3, <1>4, <1>5, <1>11, <2>1, <2>2, <3>1 DEF OneRuns
  <2>4. \A v : ~Evicts(n, v)'
    BY <2>1 DEF Evicts
  <2>5. (conn.open => local = {t \in Asked : Completes(t) /\ ~\E u \in Asked : Evicts(u, t)})'
    BY <1>2, <1>4, <1>7, <1>8, <1>11, <2>4, RemembersIs DEF ConnectionInv
  <2> QED BY <2>3, <2>5, RemembersIs DEF ConnectionInv
<1>12. CASE /\ y.conn = conn.number /\ conn.open /\ conn.turn = 0 /\ y.pc = "over"
            /\ y.outcome = "refused" /\ y.shape.store = "false"
            /\ local' = local \ {y.prev} /\ UNCHANGED conn
  <2>1. OneRuns'
    <3>1. conn' = conn /\ conn.turn = 0 /\ y.conn <= conn.number
      BY <1>3, <1>12
    <3>2. \A u \in Asked' : turn'[u].conn <= conn'.number
      BY <1>2, <3>1 DEF ConnectionInv, OneRuns
    <3>3. \A u \in Asked' : Ours(u)' => turn'[u].pc = "over"
      <4>1. \A u \in Asked : u # 0
        BY <1>3
      <4>2. \A u \in Asked : Ours(u) => turn[u].pc = "over"
        BY <1>12, <4>1 DEF ConnectionInv, OneRuns
      <4> QED BY <1>2, <1>5, <1>12, <4>2
    <3> QED BY <3>1, <3>2, <3>3 DEF OneRuns
  <2>2. \A v : Evicts(n, v)' <=> v = y.prev
    <3>1. n # 0
      BY <1>0, <1>3
    <3> QED BY <1>2, <1>5, <1>12, <3>1 DEF Evicts, IsFailed
  <2>3. local = {t \in Asked : Completes(t) /\ ~\E u \in Asked : Evicts(u, t)}
    BY <1>12, RemembersIs DEF ConnectionInv
  <2>4. local' = {t \in Asked' : Completes(t)' /\ ~\E u \in Asked' : Evicts(u, t)'}
    <3>1. \A t \in Asked : (\E u \in Asked' : Evicts(u, t)') <=> (t = y.prev \/ \E u \in Asked : Evicts(u, t))
      BY <1>2, <1>7, <2>2
    <3> QED BY <1>2, <1>7, <1>8, <1>12, <2>3, <3>1
  <2> QED BY <2>1, <2>4, RemembersIs DEF ConnectionInv
<1> QED BY <1>0, <1>10, <1>11, <1>12

\* The turn that has ended is remembered, unless it failed, and then what it
\* continued is forgotten.
LEMMA EndsAndRemembers ==
  ASSUME TypeOK, Control, Chain, ConnectionInv, EndTurn
  PROVE  ConnectionInv'
<1>0. PICK t : t = conn.turn
  OBVIOUS
<1>1. /\ UNCHANGED turn /\ Asked' = Asked /\ t # 0 /\ turn[t].pc = "over"
      /\ conn' = [conn EXCEPT !.turn = 0] /\ local' = Cached(t)
  BY <1>0 DEF EndTurn, TurnIsOver, Asked
<1>2. /\ conn.open /\ t \in Asked /\ Ours(t) /\ \A u \in Asked : Ours(u) => u <= t
  BY <1>0, <1>1 DEF ConnectionInv, OneRuns
<1>3. /\ conn'.turn = 0 /\ conn'.number = conn.number /\ conn'.open = conn.open
      /\ \A u \in Asked : u \in Nat \ {0}
  BY <1>1, AskedAre DEF TypeOK
<1>4. \A u \in Asked : Ours(u)' = Ours(u)
  BY <1>1, <1>3 DEF Ours
<1>5. OneRuns'
  BY <1>1, <1>2, <1>3, <1>4 DEF ConnectionInv, OneRuns
<1>6. \A u \in Asked : u # t => Completes(u)' = Completes(u) /\ \A v : Evicts(u, v)' = Evicts(u, v)
  BY <1>0, <1>1, <1>3, <1>4 DEF Completes, Evicts
<1>7. ~Completes(t) /\ \A v : ~Evicts(t, v)
  BY <1>0 DEF Completes, Evicts
<1>8. Completes(t)' <=> turn[t].shape.store = "false" /\ Final(turn[t])
  <2>1. Placed(turn[t])
    BY <1>2 DEF Control
  <2>2. Final(turn[t]) => turn[t].told
    BY <1>1, <2>1 DEF Placed, Final
  <2> QED BY <1>1, <1>2, <1>3, <1>4, <2>2 DEF Completes
<1>9. \A v \in Asked : Evicts(t, v)' <=> (turn[t].shape.store = "false" /\ IsFailed(turn[t]) /\ v = turn[t].prev)
  BY <1>1, <1>2, <1>3, <1>4 DEF Evicts
<1>10. \A u \in Asked : ~Evicts(u, t)'
  <2>1. \A u \in Asked : Ours(u) => turn[u].prev # t
    BY <1>2, <1>3 DEF Chain
  <2> QED BY <1>1, <1>4, <2>1 DEF Evicts
<1>11. local = {u \in Asked : Completes(u) /\ ~\E v \in Asked : Evicts(v, u)}
  BY <1>2, RemembersIs DEF ConnectionInv
<1>12. local' = {u \in Asked' : Completes(u)' /\ ~\E v \in Asked' : Evicts(v, u)'}
  <2>1. CASE turn[t].shape.store # "false"
    <3>1. local' = local
      BY <1>1, <2>1 DEF Cached
    <3>2. \A u \in Asked : /\ Completes(u)' <=> Completes(u)
                           /\ \A v \in Asked : Evicts(u, v)' <=> Evicts(u, v)
      <4> TAKE u \in Asked
      <4>1. CASE u = t
        <5>1. ~Completes(t)' /\ \A v \in Asked : ~Evicts(t, v)'
          BY <1>8, <1>9, <2>1
        <5> QED BY <1>7, <4>1, <5>1
      <4>2. CASE u # t
        BY <1>6, <4>2
      <4> QED BY <4>1, <4>2
    <3> QED BY <1>1, <1>11, <3>1, <3>2
  <2>2. CASE turn[t].shape.store = "false"
    <3> DEFINE new == IF Final(turn[t]) THEN {t} ELSE {}
               gone == IF IsFailed(turn[t]) THEN {turn[t].prev} ELSE {}
    <3>1. local' = (local \cup new) \ gone
      BY <1>1, <2>2 DEF Cached
    <3>2. \A u \in Asked : (\E v \in Asked : Evicts(v, u)') <=> (u \in gone \/ \E v \in Asked : Evicts(v, u))
      BY <1>2, <1>6, <1>7, <1>9, <2>2
    <3>3. \A u \in Asked : Completes(u)' <=> (u \in new \/ Completes(u))
      BY <1>2, <1>6, <1>7, <1>8, <2>2
    <3>4. new \subseteq {t} /\ \A u \in Asked : u \in new => ~\E v \in Asked : Evicts(v, u)
      <4>1. \A v \in Asked : ~Evicts(v, t)
        BY <1>2, <1>6, <1>7, <1>10
      <4> QED BY <4>1
    <3>5. new \subseteq Asked
      BY <1>2, <3>4
    <3> HIDE DEF new, gone
    <3> QED BY <1>1, <1>11, <3>1, <3>2, <3>3, <3>4, <3>5
  <2> QED BY <2>1, <2>2
<1>13. ConnectionRemembers'
  <2>1. (conn.open => local = {u \in Asked : Completes(u) /\ ~\E v \in Asked : Evicts(v, u)})'
    BY <1>12
  <2> QED BY <2>1, RemembersIs
<1> QED BY <1>5, <1>13 DEF ConnectionInv

LEMMA ConnectionNext ==
  ASSUME ContextInv, ConnectionInv, [Next]_vars
  PROVE  ConnectionInv'
<1>0. /\ TypeOK /\ Control /\ Chain /\ Bodies
      /\ conn \in [number : Nat \ {0}, open : BOOLEAN, turn : Nat]
      /\ \A t \in Asked : turn[t].conn \in Nat
  BY AskedAre DEF ContextInv, TypeOK, Turn
<1>1. CASE \E shape \in Shapes : Ask(shape)
  BY <1>0, <1>1, AskIs, ComesToConnection
<1>2. CASE \E shape \in Shapes : AskWebSocket(shape)
  <2> PICK shape \in Shapes : AskWebSocket(shape)
    BY <1>2
  <2>1. Room /\ conn.open /\ conn.turn = 0
    BY <1>0, AskWebSocketIs
  <2>2. PICK y : /\ NewRequest(y) /\ turn' = Append(turn, y)
                 /\ y.conn = conn.number /\ y.shape = shape
                 /\ \/ /\ y.pc = "load" /\ conn' = [conn EXCEPT !.turn = Len(turn) + 1]
                       /\ UNCHANGED local
                    \/ /\ y.pc = "over" /\ y.outcome = "refused" /\ shape.store = "false"
                       /\ local' = local \ {y.prev} /\ UNCHANGED conn
    BY <1>0, AskWebSocketIs
  <2> QED BY <1>0, <2>1, <2>2, ComesToConnection
<1>3. CASE \E t \in Asked : Load(t) \/ Retry(t)
  <2> PICK t \in Asked : Load(t) \/ Retry(t)
    BY <1>3
  <2>1. /\ turn[t].pc # "over" /\ UNCHANGED <<conn, local>>
        /\ \E y \in Turn : Becomes(t, y) /\ Sent(turn[t], y)
    BY <1>0, LoadIs, RetryIs
  <2> QED BY <1>0, <2>1, RunningIsHidden DEF Sent
<1>4. CASE \E t \in Asked : Refuse(t) \/ Answer(t) \/ SaveResponse(t) \/ Tell(t)
  <2> PICK t \in Asked : Refuse(t) \/ Answer(t) \/ SaveResponse(t) \/ Tell(t)
    BY <1>4
  <2>1. /\ turn[t].pc # "over" /\ UNCHANGED <<conn, local>>
        /\ \E y \in Turn : Becomes(t, y) /\ SameContext(turn[t], y)
    BY <1>0, RefuseIs, AnswerIs, SaveIs, TellIs
  <2> QED BY <1>0, <2>1, RunningIsHidden DEF SameContext
<1>5. CASE EndTurn
  BY <1>0, <1>5, EndsAndRemembers
<1>6. CASE Disconnect
  <2>1. /\ UNCHANGED turn /\ Asked' = Asked /\ ~conn'.open /\ conn'.turn = 0
        /\ conn'.number = conn.number
    BY <1>0, <1>6 DEF Disconnect, Asked
  <2> QED BY <2>1 DEF ConnectionInv, OneRuns, ConnectionRemembers
<1>7. CASE Crash
  <2>1. Asked' = Asked /\ \A t \in Asked : SameContext(turn[t], turn'[t])
    BY <1>0, <1>7, CrashIs
  <2>2. ~conn'.open /\ conn'.turn = 0 /\ conn'.number = conn.number
    BY <1>0, <1>7 DEF Crash
  <2> QED BY <2>1, <2>2 DEF ConnectionInv, OneRuns, ConnectionRemembers, SameContext, SameRequest
<1>8. CASE Connect
  <2>1. /\ UNCHANGED turn /\ Asked' = Asked /\ conn'.turn = 0 /\ local' = {}
        /\ conn'.number = conn.number + 1
    BY <1>0, <1>8 DEF Connect, Asked
  <2>2. \A t \in Asked : turn[t].conn <= conn'.number /\ turn[t].conn # conn'.number
    BY <1>0, <2>1 DEF ConnectionInv, OneRuns
  <2> QED BY <2>1, <2>2 DEF ConnectionInv, OneRuns, ConnectionRemembers, Ours
<1>9. CASE CleanupExpired \/ Tick \/ UNCHANGED vars
  <2>1. UNCHANGED <<turn, conn, local>> /\ Asked' = Asked
    BY <1>9 DEF CleanupExpired, Tick, vars, Asked
  <2> QED BY <2>1 DEF ConnectionInv, OneRuns, ConnectionRemembers, Ours, Evicted
<1> QED
  BY <1>1, <1>2, <1>3, <1>4, <1>5, <1>6, <1>7, <1>8, <1>9 DEF Next, Handle

\* Whoever has the end of a response that is stored finds it until its time is
\* over (proxy/proxy.go:461-480), and the connection remembers the others
\* (proxy_websocket.go:399-410), whatever fails, expires or crashes.
THEOREM ToldIsKept == Spec => []ToldIsFound
<1>1. Init => SavedLasts /\ ConnectionInv
  <2> SUFFICES ASSUME Init PROVE SavedLasts /\ ConnectionInv
    OBVIOUS
  <2>1. Asked = {}
    <3>1. turn = << >> /\ << >> \in Seq(Turn) /\ Len(turn) = 0
      BY EmptySeq DEF Init
    <3> QED BY <3>1, LenProperties DEF Asked
  <2> QED BY <2>1 DEF Init, SavedLasts, ConnectionInv, OneRuns, ConnectionRemembers
<1>2. ContextInv /\ SavedLasts /\ ConnectionInv /\ [Next]_vars => SavedLasts' /\ ConnectionInv'
  BY SavedNext, ConnectionNext
<1>3. ContextInv /\ SavedLasts /\ ConnectionInv => ToldIsFound
  BY SavedFollows DEF ContextInv, ConnectionInv, ToldIsFound
<1> QED BY <1>1, <1>2, <1>3, ContextKept, PTL DEF Spec

=============================================================================
