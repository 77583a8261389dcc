--------------------------- MODULE FeedReceiveProofs ---------------------------
(***************************************************************************)
(* What FeedReceive promises, for any feed, any window and any segment     *)
(* size: the queue of segments out of sequence stays ordered, the callback *)
(* gets the stream's next bytes, and the window stays open unless Nagle's  *)
(* rule keeps an acknowledgement back.                                     *)
(***************************************************************************)
EXTENDS FeedReceive, BasicLemmas, TLAPS

-----------------------------------------------------------------------------
(* Trimming.                                                               *)

\* The segments of q do not overlap.
Disjoint(q) ==
  \A m, n \in q : n.seqno >= m.seqno => n = m \/ n.seqno >= End(m)

LEMMA UntilFacts ==
  ASSUME NEW g \in Segment, NEW s \in Nat, g.seqno < s
  PROVE  /\ Until(g, s) \in Segment
         /\ Until(g, s).seqno = g.seqno
         /\ End(Until(g, s)) <= s
         /\ End(Until(g, s)) <= End(g)
         /\ End(g) <= s => Until(g, s) = g
         /\ End(g) > s => End(Until(g, s)) = s
  <1>1. g.seqno \in Nat /\ g.len \in Nat \ {0}  BY DEF Segment
  <1>2. CASE End(g) <= s
    <2>1. Until(g, s) = g  BY <1>1, <1>2 DEF Until, End
    <2> QED  BY <1>1, <1>2, <2>1 DEF End
  <1>3. CASE End(g) > s
    <2>1. Until(g, s) = [g EXCEPT !.len = s - g.seqno]  BY <1>3 DEF Until
    <2>2. s - g.seqno \in Nat \ {0}  BY <1>1
    <2>3. Until(g, s) = [seqno |-> g.seqno, len |-> s - g.seqno]
      BY <2>1 DEF Segment
    <2>4. Until(g, s) \in Segment  BY <1>1, <2>2, <2>3 DEF Segment
    <2>5. End(Until(g, s)) = s  BY <1>1, <2>3 DEF End
    <2>6. End(g) \in Nat  BY <1>1 DEF End
    <2>7. Until(g, s).seqno = g.seqno  BY <2>3
    <2> QED  BY <1>3, <2>4, <2>5, <2>6, <2>7
  <1> QED  BY <1>1, <1>2, <1>3 DEF End

LEMMA TrimmedFacts ==
  ASSUME NEW g \in Segment, NEW rest \in SUBSET Segment,
         \A n \in rest : n.seqno > g.seqno
  PROVE  /\ Trimmed(g, rest) \in Segment
         /\ Trimmed(g, rest).seqno = g.seqno
         /\ End(Trimmed(g, rest)) <= End(g)
         /\ \A n \in rest : n.seqno >= End(Trimmed(g, rest))
  <1>1. g.seqno \in Nat /\ End(g) \in Nat  BY DEF Segment, End
  <1>2. CASE rest = {}
    BY <1>1, <1>2 DEF Trimmed
  <1>3. CASE rest # {}
    <2> DEFINE S == {n.seqno : n \in rest}
    <2>1. S \in SUBSET Nat /\ S # {}  BY <1>3 DEF Segment
    <2>2. Min(S) \in S /\ \A y \in S : Min(S) <= y  BY <2>1, MinIsLeast
    <2>3. Min(S) \in Nat /\ g.seqno < Min(S)  BY <1>1, <2>1, <2>2
    <2>4. Trimmed(g, rest) = Until(g, Min(S))  BY <1>3 DEF Trimmed
    <2> HIDE DEF S
    <2>5. /\ Until(g, Min(S)) \in Segment
          /\ Until(g, Min(S)).seqno = g.seqno
          /\ End(Until(g, Min(S))) <= Min(S)
          /\ End(Until(g, Min(S))) <= End(g)
      BY <2>3, UntilFacts
    <2>6. End(Until(g, Min(S))) \in Nat  BY <2>5 DEF Segment, End
    <2>7. ASSUME NEW n \in rest PROVE n.seqno >= End(Until(g, Min(S)))
      <3>1. n.seqno \in S  BY DEF S
      <3>2. Min(S) <= n.seqno /\ n.seqno \in Nat  BY <2>1, <2>2, <3>1
      <3> QED  BY <2>3, <2>5, <2>6, <3>2
    <2> QED  BY <2>4, <2>5, <2>7
  <1> QED  BY <1>2, <1>3

-----------------------------------------------------------------------------
(* The invariant.                                                          *)

\* Between calls the window is the whole TCP_WND, as the callback reads all that
\* it gets; and what stands in the queue has been announced before.
IInv ==
  /\ TypeOK
  /\ rcv_wnd = TCP_WND
  /\ \A m \in ooseq : m.seqno > rcv_nxt /\ End(m) <= rcv_ann_right_edge
  /\ Disjoint(ooseq)
  /\ WindowStaysOpen

\* tcp_receive, a segment out of sequence: the queue stays ordered.
LEMMA QueuedOrdered ==
  ASSUME IInv, NEW g \in Segment, g.seqno > rcv_nxt, End(g) <= rcv_ann_right_edge
  PROVE  /\ Queued(g) \subseteq Segment
         /\ \A m \in Queued(g) : m.seqno > rcv_nxt /\ End(m) <= rcv_ann_right_edge
         /\ Disjoint(Queued(g))
  <1> USE DEF IInv, TypeOK
  <1>1. CASE \E n \in ooseq : n.seqno = g.seqno /\ n.len >= g.len
    <2>1. Queued(g) = ooseq  BY <1>1 DEF Queued
    <2> QED  BY <2>1
  <1>2. CASE ~ \E n \in ooseq : n.seqno = g.seqno /\ n.len >= g.len
    <2> DEFINE before == {m \in ooseq : m.seqno < g.seqno}
               next == {m \in ooseq : m.seqno >= g.seqno}
               rest == Beyond(next, g)
               P == {Until(n, g.seqno) : n \in before}
               t == Trimmed(g, rest)
    <2>1. Queued(g) = P \cup ({t} \cup rest)
      BY <1>2 DEF Queued, tcp_oos_insert_segment
    <2>2. rest \subseteq ooseq /\ ooseq \subseteq Segment  BY DEF Beyond
    <2>3. \A n \in Segment : /\ n.seqno \in Nat /\ n.len \in Nat \ {0}
                             /\ End(n) \in Nat /\ End(n) = n.seqno + n.len
                             /\ n.seqno < End(n)
      BY DEF Segment, End
    <2>4. ASSUME NEW n \in rest PROVE n.seqno > g.seqno
      <3>1. n \in ooseq /\ n.seqno >= g.seqno /\ End(n) > End(g)  BY DEF Beyond
      <3>2. n \in Segment  BY <3>1
      <3>3. n.seqno # g.seqno
        <4>1. SUFFICES ASSUME n.seqno = g.seqno PROVE FALSE  OBVIOUS
        <4>2. n.len >= g.len  BY <2>3, <3>1, <3>2, <4>1
        <4> QED  BY <1>2, <3>1, <4>1, <4>2
      <3> QED  BY <2>3, <3>1, <3>2, <3>3
    <2>5. /\ t \in Segment /\ t.seqno = g.seqno /\ End(t) <= End(g)
          /\ \A n \in rest : n.seqno >= End(t)
      <3> HIDE DEF rest
      <3> QED  BY <2>2, <2>4, TrimmedFacts
    <2>6. ASSUME NEW p \in P
          PROVE  \E n \in ooseq : /\ n.seqno < g.seqno /\ p.seqno = n.seqno
                                 /\ p \in Segment
                                 /\ End(p) <= g.seqno /\ End(p) <= End(n)
                                 /\ p = Until(n, g.seqno)
      <3>1. PICK n \in before : p = Until(n, g.seqno)  OBVIOUS
      <3>2. n \in ooseq /\ n \in Segment /\ n.seqno < g.seqno  OBVIOUS
      <3>3. g.seqno \in Nat  BY <2>3
      <3> QED  BY <3>1, <3>2, <3>3, UntilFacts
    <2> HIDE DEF P, t, rest
    <2>7. Queued(g) \subseteq Segment  BY <2>1, <2>2, <2>5, <2>6
    <2>8. ASSUME NEW m \in Queued(g)
          PROVE  m.seqno > rcv_nxt /\ End(m) <= rcv_ann_right_edge
      <3>1. CASE m \in P
        <4>1. PICK n \in ooseq : m.seqno = n.seqno /\ End(m) <= End(n)
          BY <2>6, <3>1
        <4>2. m \in Segment /\ n \in Segment  BY <2>7
        <4>3. n.seqno > rcv_nxt /\ End(n) <= rcv_ann_right_edge  OBVIOUS
        <4> QED  BY <2>3, <4>1, <4>2, <4>3
      <3>2. CASE m = t
        <4>1. End(t) \in Nat /\ End(g) \in Nat  BY <2>3, <2>5
        <4> QED  BY <2>5, <3>2, <4>1
      <3>3. CASE m \in rest
        BY <2>2, <3>3
      <3> QED  BY <2>1, <3>1, <3>2, <3>3
    <2>9. ASSUME NEW m \in Queued(g), NEW n \in Queued(g), n.seqno >= m.seqno
          PROVE  n = m \/ n.seqno >= End(m)
      <3>0. m \in Segment /\ n \in Segment /\ g \in Segment /\ t \in Segment
        BY <2>5, <2>7
      <3>1. CASE m \in P /\ n \in P
        <4>1. PICK a \in ooseq : /\ m.seqno = a.seqno /\ End(m) <= End(a)
                                /\ m = Until(a, g.seqno)
          BY <2>6, <3>1
        <4>2. PICK b \in ooseq : n.seqno = b.seqno /\ n = Until(b, g.seqno)
          BY <2>6, <3>1
        <4>3. b = a \/ b.seqno >= End(a)  BY <2>9, <4>1, <4>2 DEF Disjoint
        <4>4. a \in Segment /\ b \in Segment  OBVIOUS
        <4> QED  BY <2>3, <3>0, <4>1, <4>2, <4>3, <4>4
      <3>2. CASE m \in P /\ n \notin P
        <4>1. End(m) <= g.seqno  BY <2>6, <3>2
        <4>2. n.seqno >= g.seqno
          <5>1. n = t \/ n \in rest  BY <2>1, <3>2
          <5>2. n \in rest => n.seqno > g.seqno  BY <2>4
          <5> QED  BY <2>3, <2>5, <3>0, <5>1, <5>2
        <4> QED  BY <2>3, <3>0, <4>1, <4>2
      <3>3. CASE m = t
        <4>1. CASE n \in P
          <5>1. n.seqno < g.seqno  BY <2>6, <4>1
          <5> QED  BY <2>3, <2>5, <2>9, <3>0, <3>3, <5>1
        <4>2. CASE n \in rest  BY <2>5, <3>3, <4>2
        <4>3. CASE n = t  BY <3>3, <4>3
        <4> QED  BY <2>1, <4>1, <4>2, <4>3
      <3>4. CASE m \in rest
        <4>1. m.seqno > g.seqno  BY <2>4, <3>4
        <4>2. n \notin P
          <5>1. SUFFICES ASSUME n \in P PROVE FALSE  OBVIOUS
          <5>2. n.seqno < g.seqno  BY <2>6, <5>1
          <5> QED  BY <2>3, <2>9, <3>0, <4>1, <5>2
        <4>3. n # t  BY <2>3, <2>5, <2>9, <3>0, <4>1
        <4>4. n \in ooseq /\ m \in ooseq  BY <2>1, <2>2, <3>4, <4>2, <4>3
        <4> QED  BY <2>9, <4>4 DEF Disjoint
      <3> QED  BY <2>1, <3>1, <3>2, <3>3, <3>4
    <2> QED  BY <2>7, <2>8, <2>9 DEF Disjoint
  <1> QED  BY <1>1, <1>2

\* tcp_receive, a segment in sequence: first is what is passed of it, and follow
\* what the queue adds.  The chain is the stream from rcv_nxt to its largest end,
\* and what stays queued lies behind it, not next to it.
LEMMA ChainIsStream ==
  ASSUME IInv, NEW g \in Segment, g.seqno = rcv_nxt, End(g) <= rcv_ann_right_edge
  PROVE  /\ First(g) \in Segment /\ Chain(g) \subseteq Segment /\ Left(g) \subseteq ooseq
         /\ Last(g) \in Nat /\ Last(g) > rcv_nxt /\ Last(g) <= rcv_ann_right_edge
         /\ \A n \in Left(g) \ Follow(g) : n.seqno > Last(g)
         /\ UNION {Bytes(n) : n \in Chain(g)} = rcv_nxt .. Last(g) - 1
         /\ \A m, n \in Chain(g) : m = n \/ Bytes(m) \cap Bytes(n) = {}
  <1> USE DEF IInv, TypeOK
  <1> DEFINE first == First(g)
             rest == Left(g)
             follow == Follow(g)
             passed == Chain(g)
             last == Last(g)
             e == End(first)
  <1>1. rest \subseteq ooseq /\ ooseq \subseteq Segment  BY DEF Beyond, Left
  <1>2. \A n \in Segment : /\ n.seqno \in Nat /\ n.len \in Nat \ {0}
                           /\ End(n) \in Nat /\ End(n) = n.seqno + n.len
                           /\ n.seqno < End(n)
    BY DEF Segment, End
  <1>3. \A n \in rest : n.seqno > g.seqno  BY <1>1
  <1>4. /\ first \in Segment /\ first.seqno = rcv_nxt /\ e <= End(g)
        /\ \A n \in rest : n.seqno >= e
    BY <1>1, <1>3, TrimmedFacts DEF First
  <1>5. e \in Nat /\ rcv_nxt < e /\ e <= rcv_ann_right_edge
    <2>1. e \in Nat /\ End(g) \in Nat /\ rcv_nxt < e  BY <1>2, <1>4
    <2> QED  BY <1>4, <2>1
  <1>6. follow \subseteq rest
        /\ \A n \in follow : \A b \in e .. n.seqno - 1 : \E m \in rest : b \in Bytes(m)
    BY DEF Follow
  <1>7. \A n \in rest \ follow :
          \E b \in e .. n.seqno - 1 : \A m \in rest : b \notin Bytes(m)
    BY DEF Follow
  <1>0. passed = {first} \cup follow /\ last = Max({End(n) : n \in passed})
    BY DEF Chain, Last
  <1> HIDE DEF e, first, rest, follow, passed, last
  <1>8. passed \subseteq Segment  BY <1>0, <1>1, <1>4, <1>6
  <1>9. last \in {End(n) : n \in passed} /\ \A n \in passed : last >= End(n)
    <2> DEFINE T == {End(n) : n \in passed}
    <2>1. T \in SUBSET Nat /\ T # {}  BY <1>0, <1>2, <1>8
    <2>2. \A x \in T : x <= rcv_ann_right_edge
      <3>1. \A n \in passed : End(n) <= rcv_ann_right_edge
        BY <1>0, <1>1, <1>5, <1>6 DEF e
      <3> QED  BY <3>1
    <2>3. rcv_ann_right_edge \in Nat  OBVIOUS
    <2> HIDE DEF T
    <2>4. Max(T) \in T /\ \A x \in T : Max(T) >= x  BY <2>1, <2>2, <2>3, MaxIsGreatest
    <2>5. last = Max(T)  BY <1>0 DEF T
    <2> QED  BY <2>4, <2>5 DEF T
  <1>10. PICK k \in passed : End(k) = last  BY <1>9
  <1>11. last \in Nat /\ e <= last  BY <1>0, <1>2, <1>8, <1>9, <1>10 DEF e
  <1>12. last <= rcv_ann_right_edge  BY <1>0, <1>1, <1>5, <1>6, <1>10 DEF e
  <1>13. ASSUME NEW n \in rest \ follow PROVE n.seqno > last
    <2>1. PICK b \in e .. n.seqno - 1 : \A m \in rest : b \notin Bytes(m)  BY <1>7
    <2>2. n \in Segment /\ k \in Segment  BY <1>1, <1>8
    <2>3. b \in Nat /\ e <= b /\ b < n.seqno  BY <1>2, <1>5, <2>1, <2>2
    <2>4. SUFFICES ASSUME n.seqno <= last PROVE FALSE  BY <1>2, <1>11, <2>2
    <2>5. k # first  BY <1>2, <1>10, <1>11, <2>2, <2>3, <2>4 DEF e
    <2>6. k \in follow  BY <1>0, <2>5
    <2>7. b \notin e .. k.seqno - 1  BY <1>6, <2>1, <2>6
    <2>8. b \in Bytes(k)  BY <1>2, <1>10, <2>2, <2>3, <2>4, <2>7 DEF Bytes
    <2> QED  BY <1>6, <2>1, <2>6, <2>8
  <1>14. UNION {Bytes(n) : n \in passed} = rcv_nxt .. last - 1
    <2>1. ASSUME NEW n \in passed, NEW b \in Bytes(n) PROVE b \in rcv_nxt .. last - 1
      <3>1. n \in Segment /\ End(n) <= last  BY <1>8, <1>9
      <3>2. n.seqno >= rcv_nxt
        <4>1. CASE n = first  BY <1>2, <1>4, <4>1
        <4>2. CASE n \in follow  BY <1>2, <1>3, <1>6, <3>1, <4>2
        <4> QED  BY <1>0, <4>1, <4>2
      <3> QED  BY <1>2, <1>11, <3>1, <3>2 DEF Bytes
    <2>2. ASSUME NEW b \in rcv_nxt .. last - 1 PROVE \E n \in passed : b \in Bytes(n)
      <3>1. b \in Nat /\ rcv_nxt <= b /\ b < last  BY <1>11
      <3>2. CASE b < e
        <4>1. b \in Bytes(first)  BY <1>2, <1>4, <3>1, <3>2 DEF Bytes, e
        <4> QED  BY <1>0, <4>1
      <3>3. CASE b >= e
        <4>1. k # first  BY <1>5, <1>10, <3>1, <3>3 DEF e
        <4>2. k \in follow /\ k \in Segment  BY <1>0, <1>8, <4>1
        <4>3. CASE b >= k.seqno
          <5>1. b \in Bytes(k)  BY <1>2, <1>10, <3>1, <4>2, <4>3 DEF Bytes
          <5> QED  BY <5>1
        <4>4. CASE b < k.seqno
          <5>1. b \in e .. k.seqno - 1  BY <1>2, <1>5, <3>1, <3>3, <4>2, <4>4
          <5>2. PICK m \in rest : b \in Bytes(m)  BY <1>6, <4>2, <5>1
          <5>3. m \in Segment  BY <1>1
          <5>4. m.seqno <= b  BY <1>2, <3>1, <5>2, <5>3 DEF Bytes
          <5>5. ASSUME NEW c \in e .. m.seqno - 1 PROVE c \in e .. k.seqno - 1
            BY <1>2, <1>5, <3>1, <4>2, <4>4, <5>3, <5>4
          <5>6. m \in follow  BY <1>6, <4>2, <5>2, <5>5, <1>7
          <5> QED  BY <1>0, <5>2, <5>6
        <4> QED  BY <1>2, <3>1, <4>2, <4>3, <4>4
      <3> QED  BY <1>5, <3>1, <3>2, <3>3
    <2> QED  BY <2>1, <2>2
  <1>15. ASSUME NEW m \in passed, NEW n \in passed, m # n
         PROVE  Bytes(m) \cap Bytes(n) = {}
    <2>1. \A x, y \in Segment : End(x) <= y.seqno => Bytes(x) \cap Bytes(y) = {}
      BY <1>2 DEF Bytes
    <2>2. m \in Segment /\ n \in Segment  BY <1>8
    <2>3. CASE m = first
      <3>1. n \in rest  BY <1>0, <1>6, <1>15, <2>3
      <3> QED  BY <1>4, <2>1, <2>2, <2>3, <3>1 DEF e
    <2>4. CASE n = first
      <3>1. m \in rest  BY <1>0, <1>6, <1>15, <2>4
      <3>2. Bytes(n) \cap Bytes(m) = {}  BY <1>2, <1>4, <2>1, <2>2, <2>4, <3>1 DEF e
      <3> QED  BY <3>2
    <2>5. CASE m \in follow /\ n \in follow
      <3>1. m \in ooseq /\ n \in ooseq  BY <1>1, <1>6, <2>5
      <3>2. n.seqno >= End(m) \/ m.seqno >= End(n)
        BY <1>2, <1>15, <2>2, <3>1 DEF Disjoint
      <3>3. CASE n.seqno >= End(m)  BY <1>2, <2>1, <2>2, <3>3
      <3>4. CASE m.seqno >= End(n)
        <4>1. Bytes(n) \cap Bytes(m) = {}  BY <1>2, <2>1, <2>2, <3>4
        <4> QED  BY <4>1
      <3> QED  BY <3>2, <3>3, <3>4
    <2> QED  BY <1>0, <2>3, <2>4, <2>5
  <1>16. last > rcv_nxt  BY <1>5, <1>11
  <1> QED  BY <1>1, <1>4, <1>8, <1>11, <1>12, <1>13, <1>14, <1>15, <1>16
       DEF first, rest, follow, passed, last

-----------------------------------------------------------------------------
(* The window.                                                             *)

LEMMA Thresholds ==
  /\ Min({TCP_WND \div 2, mss}) \in Nat /\ Min({TCP_WND \div 2, mss}) <= TCP_WND \div 2
  /\ Min({TCP_WND \div 4, 4 * mss}) \in Nat
  /\ Min({TCP_WND \div 4, 4 * mss}) <= TCP_WND \div 2
  <1>1. TCP_WND \in Nat /\ mss \in Nat  BY SizeAssumption
  <1>2. /\ TCP_WND \div 2 \in Nat /\ TCP_WND \div 4 \in Nat /\ 4 * mss \in Nat
        /\ TCP_WND \div 4 <= TCP_WND \div 2
    BY <1>1
  <1>3. Min({TCP_WND \div 2, mss}) = IF TCP_WND \div 2 <= mss THEN TCP_WND \div 2 ELSE mss
    BY <1>1, <1>2, MinOfTwo
  <1>4. Min({TCP_WND \div 4, 4 * mss}) =
          IF TCP_WND \div 4 <= 4 * mss THEN TCP_WND \div 4 ELSE 4 * mss
    BY <1>2, MinOfTwo
  <1> QED  BY <1>1, <1>2, <1>3, <1>4

\* tcp_update_rcv_ann_wnd never takes back what it has announced, and whether an
\* update is due or not, half of the window is open once nothing is withheld.
LEMMA EdgeFacts ==
  ASSUME IInv, rcv_nxt' \in Nat, rcv_nxt' >= rcv_nxt, rcv_nxt' <= rcv_ann_right_edge
  PROVE  LET R == rcv_nxt' + TCP_WND
         IN  /\ RightEdge(R) \in Nat
             /\ rcv_ann_right_edge <= RightEdge(R) /\ RightEdge(R) <= R
             /\ RightEdge(R) - rcv_nxt' >= TCP_WND - TCP_WND \div 2
             /\ ~ UpdateDue(R) =>
                  rcv_ann_right_edge - rcv_nxt' >= TCP_WND - TCP_WND \div 2
  <1> DEFINE old == rcv_nxt
             new == rcv_nxt'
             edge == rcv_ann_right_edge
             R == new + TCP_WND
             half == TCP_WND \div 2
             m == Min({half, mss})
             u == Min({TCP_WND \div 4, 4 * mss})
  <1>1. m \in Nat /\ m <= half /\ u \in Nat /\ u <= half  BY Thresholds
  <1>2. TCP_WND \in Nat /\ half \in Nat  BY SizeAssumption
  <1>3. /\ edge \in Nat /\ old \in Nat /\ new \in Nat
        /\ new >= old /\ new <= edge /\ edge <= old + TCP_WND
    BY DEF IInv, TypeOK, WindowStaysOpen
  <1>4. MayAnnounce(R) <=> R >= edge + m  BY DEF MayAnnounce
  <1>5. UpdateDue(R) <=> MayAnnounce(R) /\ R - edge >= u  BY DEF UpdateDue
  <1>6. RightEdge(R) = IF MayAnnounce(R) THEN R ELSE edge
    <2>1. Max({new, edge}) = IF new >= edge THEN new ELSE edge  BY <1>3, MaxOfTwo
    <2>2. RightEdge(R) = IF MayAnnounce(R) THEN R ELSE Max({new, edge})
      BY DEF RightEdge
    <2> HIDE DEF old, new, edge, R
    <2> QED  BY <1>3, <2>1, <2>2
  <1>7. half <= TCP_WND /\ R = new + TCP_WND
    <2>1. TCP_WND \div 2 <= TCP_WND  BY SizeAssumption
    <2> QED  BY <2>1
  <1> HIDE DEF half, m, u, R, old, new, edge
  <1>8. R \in Nat /\ edge <= R  BY <1>2, <1>3, <1>7
  <1>9. R - new >= TCP_WND - half  BY <1>2, <1>3, <1>7
  <1>10. ~ UpdateDue(R) => edge - new >= TCP_WND - half
    BY <1>1, <1>2, <1>3, <1>4, <1>5, <1>7, <1>8
  <1>11. ~ MayAnnounce(R) => edge - new >= TCP_WND - half  BY <1>5, <1>10
  <1>12. /\ RightEdge(R) \in Nat /\ edge <= RightEdge(R) /\ RightEdge(R) <= R
         /\ RightEdge(R) - new >= TCP_WND - half
    BY <1>3, <1>6, <1>8, <1>9, <1>11
  <1> QED  BY <1>10, <1>12 DEF half, R, new, edge

-----------------------------------------------------------------------------
(* The steps.                                                              *)

\* What the acknowledgement's part of the state keeps to.
AckInv ==
  /\ {delay, ack_now, withheld} \subseteq BOOLEAN
  /\ rcv_ann_right_edge \in Nat
  /\ WindowStaysOpen

\* tcp_output, after the stream has gone on within what was announced: whether the
\* acknowledgement is sent or held back, nothing announced is taken back.
LEMMA AcknowledgeStep ==
  ASSUME IInv, UNCHANGED rcv_wnd, rcv_nxt' \in Nat, rcv_nxt' >= rcv_nxt,
         rcv_nxt' <= rcv_ann_right_edge,
         NEW delayed \in BOOLEAN,
         \/ Acknowledge(delayed)
         \/ NagleHolds /\ delay' \in BOOLEAN /\ ack_now' \in BOOLEAN
  PROVE  AckInv' /\ rcv_ann_right_edge <= rcv_ann_right_edge'
  <1> DEFINE new == rcv_nxt'
             edge == rcv_ann_right_edge
             E == RightEdge(new + TCP_WND)
  <1>1. /\ new \in Nat /\ edge \in Nat /\ TCP_WND \in Nat
        /\ rcv_nxt \in Nat /\ new >= rcv_nxt /\ edge <= rcv_nxt + TCP_WND
        /\ new <= edge
    BY SizeAssumption DEF IInv, TypeOK, WindowStaysOpen
  <1>2. edge <= new + TCP_WND
    <2> HIDE DEF new, edge
    <2> QED  BY <1>1
  <1>3. /\ E \in Nat /\ edge <= E /\ E <= new + TCP_WND
        /\ E - new >= TCP_WND - TCP_WND \div 2
    BY EdgeFacts
  <1>4. rcv_wnd' = TCP_WND  BY DEF IInv
  <1>5. CASE SendAck
    <2>1. rcv_ann_right_edge' = E /\ {delay', ack_now', withheld'} \subseteq BOOLEAN
      BY <1>4, <1>5 DEF SendAck
    <2>2. E \in new .. new + TCP_WND
      <3> HIDE DEF new, edge, E
      <3> QED  BY <1>1, <1>3
    <2> QED  BY <1>3, <1>4, <2>1, <2>2 DEF AckInv, WindowStaysOpen
  <1>6. CASE NagleHolds /\ delay' \in BOOLEAN /\ ack_now' \in BOOLEAN
    <2>1. rcv_ann_right_edge' = edge /\ withheld' = TRUE  BY <1>6 DEF NagleHolds
    <2>2. edge \in new .. new + TCP_WND
      <3> HIDE DEF new, edge
      <3> QED  BY <1>1, <1>2
    <2>3. WindowStaysOpen'  BY <1>4, <2>1, <2>2 DEF WindowStaysOpen
    <2>4. {delay', ack_now', withheld'} \subseteq BOOLEAN  BY <1>6, <2>1
    <2>5. edge <= edge  BY <1>1
    <2> QED  BY <1>1, <2>1, <2>3, <2>4, <2>5 DEF AckInv
  <1>7. Acknowledge(delayed) =>
          SendAck \/ (NagleHolds /\ delay' \in BOOLEAN /\ ack_now' \in BOOLEAN)
    BY DEF Acknowledge
  <1> QED  BY <1>5, <1>6, <1>7

\* No acknowledgement is due: what is announced is enough as it stands.
LEMMA DelayStep ==
  ASSUME IInv, UNCHANGED rcv_wnd, rcv_nxt' \in Nat, rcv_nxt' >= rcv_nxt,
         rcv_nxt' <= rcv_ann_right_edge,
         ~ UpdateDue(rcv_nxt' + TCP_WND), delay' = TRUE,
         UNCHANGED <<rcv_ann_right_edge, ack_now, withheld>>
  PROVE  AckInv' /\ rcv_ann_right_edge <= rcv_ann_right_edge'
  <1> DEFINE new == rcv_nxt'
             edge == rcv_ann_right_edge
  <1>1. /\ new \in Nat /\ edge \in Nat /\ TCP_WND \in Nat
        /\ rcv_nxt \in Nat /\ new >= rcv_nxt /\ edge <= rcv_nxt + TCP_WND
        /\ new <= edge
    BY SizeAssumption DEF IInv, TypeOK, WindowStaysOpen
  <1>2. edge - new >= TCP_WND - TCP_WND \div 2  BY EdgeFacts
  <1>3. edge \in new .. new + TCP_WND
    <2> HIDE DEF new, edge
    <2> QED  BY <1>1
  <1>4. rcv_wnd' = TCP_WND /\ rcv_ann_right_edge' = edge  BY DEF IInv
  <1>5. {delay', ack_now', withheld'} \subseteq BOOLEAN  BY DEF IInv, TypeOK
  <1>6. WindowStaysOpen'  BY <1>2, <1>3, <1>4 DEF WindowStaysOpen
  <1>7. edge <= edge  BY <1>1
  <1> QED  BY <1>1, <1>4, <1>5, <1>6, <1>7 DEF AckInv

LEMMA InSequenceStep ==
  ASSUME IInv, NEW g \in Segment, g.seqno = rcv_nxt, End(g) <= rcv_ann_right_edge,
         InSequence(g)
  PROVE  IInv' /\ Reassembles
  <1> DEFINE first == First(g)
             rest == Left(g)
             follow == Follow(g)
             wnd == Min({rcv_wnd - (Last(g) - rcv_nxt)
                          + Read(first.len, Last(g) - rcv_nxt), TCP_WND})
  <1>1. /\ chain' = Chain(g) /\ ooseq' = rest \ follow
        /\ rcv_nxt' = Last(g) /\ rcv_wnd' = wnd
        /\ put' = put \cup Bytes(first)
        /\ \/ Acknowledge(~ delay)
           \/ /\ ~ UpdateDue(rcv_nxt' + wnd)
              /\ delay' = TRUE
              /\ UNCHANGED <<rcv_ann_right_edge, ack_now, withheld>>
    BY DEF InSequence
  <1>2. /\ first \in Segment /\ chain' \subseteq Segment /\ rest \subseteq ooseq
        /\ rcv_nxt' \in Nat /\ rcv_nxt' > rcv_nxt /\ rcv_nxt' <= rcv_ann_right_edge
        /\ \A n \in rest \ follow : n.seqno > rcv_nxt'
        /\ UNION {Bytes(n) : n \in chain'} = rcv_nxt .. rcv_nxt' - 1
        /\ \A m, n \in chain' : m = n \/ Bytes(m) \cap Bytes(n) = {}
    BY <1>1, ChainIsStream
  <1>3. rcv_wnd' = TCP_WND
    <2>1. rcv_wnd = TCP_WND /\ TCP_WND \in Nat /\ rcv_nxt \in Nat
      BY SizeAssumption DEF IInv, TypeOK
    <2>2. rcv_wnd - (Last(g) - rcv_nxt) + Read(first.len, Last(g) - rcv_nxt) = TCP_WND
      <3>1. Last(g) \in Nat  BY <1>1, <1>2
      <3> QED  BY <2>1, <3>1 DEF Read
    <2>3. wnd = Min({TCP_WND, TCP_WND})  BY <2>2
    <2> QED  BY <1>1, <2>1, <2>3, MinOfTwo
  <1>4. wnd = TCP_WND  BY <1>1, <1>3
  <1> HIDE DEF rest, first, follow, wnd
  <1>5. AckInv' /\ rcv_ann_right_edge <= rcv_ann_right_edge'
    <2>1. UNCHANGED rcv_wnd  BY <1>3 DEF IInv
    <2>2. rcv_nxt' >= rcv_nxt  BY <1>2 DEF IInv, TypeOK
    <2>3. CASE Acknowledge(~ delay)
      <3>1. (~ delay) \in BOOLEAN  BY DEF IInv, TypeOK
      <3> QED  BY <1>2, <2>1, <2>2, <2>3, <3>1, AcknowledgeStep
    <2>4. CASE /\ ~ UpdateDue(rcv_nxt' + wnd) /\ delay' = TRUE
               /\ UNCHANGED <<rcv_ann_right_edge, ack_now, withheld>>
      <3>1. ~ UpdateDue(rcv_nxt' + TCP_WND)  BY <1>4, <2>4
      <3> QED  BY <1>2, <2>1, <2>2, <2>4, <3>1, DelayStep
    <2> QED  BY <1>1, <2>3, <2>4
  <1>6. \A m \in ooseq' : m \in ooseq /\ m.seqno > rcv_nxt'  BY <1>1, <1>2
  <1>7. \A m \in ooseq' : End(m) <= rcv_ann_right_edge'
    <2>1. ASSUME NEW m \in ooseq' PROVE End(m) <= rcv_ann_right_edge'
      <3>1. m \in ooseq  BY <1>6
      <3>2. m \in Segment /\ End(m) <= rcv_ann_right_edge  BY <3>1 DEF IInv, TypeOK
      <3>3. End(m) \in Nat /\ rcv_ann_right_edge \in Nat /\ rcv_ann_right_edge' \in Nat
        BY <1>5, <3>2 DEF Segment, End, IInv, TypeOK, AckInv
      <3> QED  BY <1>5, <3>2, <3>3
    <2> QED  BY <2>1
  <1>8. Disjoint(ooseq)'
    <2>1. Disjoint(ooseq)  BY DEF IInv
    <2> QED  BY <1>6, <2>1 DEF Disjoint, End
  <1>9. TypeOK'
    <2>1. ooseq' \subseteq Segment  BY <1>6 DEF IInv, TypeOK
    <2>2. rcv_wnd' \in 0 .. TCP_WND  BY <1>3, SizeAssumption
    <2>3. put' \subseteq Nat
      <3>1. Bytes(first) \subseteq Nat  BY <1>2 DEF Bytes, Segment, End
      <3> QED  BY <1>1, <3>1 DEF IInv, TypeOK
    <2> QED  BY <1>2, <1>5, <2>1, <2>2, <2>3 DEF TypeOK, AckInv
  <1>10. IInv'
    <2>1. WindowStaysOpen'  BY <1>5 DEF AckInv
    <2>2. (\A m \in ooseq : m.seqno > rcv_nxt /\ End(m) <= rcv_ann_right_edge)'
      BY <1>6, <1>7 DEF End
    <2> QED  BY <1>3, <1>8, <1>9, <2>1, <2>2 DEF IInv
  <1> QED  BY <1>2, <1>10 DEF Reassembles

\* A step that leaves the stream where it is.
LEMMA AckStep ==
  ASSUME IInv, UNCHANGED <<rcv_nxt, rcv_wnd, chain, put>>,
         AckInv', rcv_ann_right_edge <= rcv_ann_right_edge',
         ooseq' \subseteq Segment, Disjoint(ooseq'),
         \A m \in ooseq' : m.seqno > rcv_nxt /\ End(m) <= rcv_ann_right_edge
  PROVE  IInv' /\ Reassembles
  <1>1. rcv_wnd = TCP_WND /\ rcv_nxt' = rcv_nxt /\ rcv_ann_right_edge \in Nat
        /\ rcv_ann_right_edge' \in Nat
    BY DEF IInv, TypeOK, AckInv
  <1>2. ASSUME NEW m \in ooseq' PROVE m.seqno > rcv_nxt' /\ End(m) <= rcv_ann_right_edge'
    <2>1. End(m) \in Nat  BY DEF Segment, End
    <2> QED  BY <1>1, <2>1
  <1>3. TypeOK' /\ WindowStaysOpen'  BY DEF IInv, TypeOK, AckInv
  <1>4. Disjoint(ooseq)'  BY DEF Disjoint, End
  <1>5. (\A m \in ooseq : m.seqno > rcv_nxt /\ End(m) <= rcv_ann_right_edge)'
    BY <1>2 DEF End
  <1> QED  BY <1>1, <1>3, <1>4, <1>5 DEF IInv, Reassembles

LEMMA Step == IInv /\ [Next]_vars => IInv' /\ Reassembles
  <1> SUFFICES ASSUME IInv, [Next]_vars PROVE IInv' /\ Reassembles
    OBVIOUS
  <1>0. ASSUME UNCHANGED <<rcv_nxt, rcv_wnd>>,
               \/ \E d \in BOOLEAN : Acknowledge(d)
               \/ NagleHolds /\ delay' \in BOOLEAN /\ ack_now' \in BOOLEAN
        PROVE  AckInv' /\ rcv_ann_right_edge <= rcv_ann_right_edge'
    <2>1. /\ rcv_nxt' \in Nat /\ rcv_nxt' >= rcv_nxt /\ rcv_nxt' <= rcv_ann_right_edge
      BY <1>0, SizeAssumption DEF IInv, TypeOK, WindowStaysOpen
    <2> QED  BY <1>0, <2>1, AcknowledgeStep
  <1>1. CASE tcp_output \/ Probe \/ tcp_fasttmr
    <2>1. UNCHANGED Received /\ ooseq' = ooseq
      BY <1>1 DEF tcp_output, Probe, tcp_fasttmr, Received
    <2>2. \/ \E d \in BOOLEAN : Acknowledge(d)
          \/ NagleHolds /\ delay' \in BOOLEAN /\ ack_now' \in BOOLEAN
      BY <1>1 DEF tcp_output, Probe, tcp_fasttmr, Acknowledge, IInv, TypeOK
    <2>3. AckInv' /\ rcv_ann_right_edge <= rcv_ann_right_edge'
      BY <1>0, <2>1, <2>2 DEF Received
    <2> QED  BY <2>1, <2>3, AckStep DEF Received, IInv, TypeOK
  <1>2. ASSUME NEW s \in Sent, tcp_receive(s) PROVE IInv' /\ Reassembles
    <2> DEFINE g == From(s, rcv_nxt)
    <2>1. /\ s.seqno \in Nat /\ s.len \in Nat \ {0} /\ End(s) = s.seqno + s.len
          /\ s = [seqno |-> s.seqno, len |-> s.len]
          /\ End(s) <= rcv_ann_right_edge
      BY SizeAssumption DEF Sent, End
    <2>2. CASE End(s) <= rcv_nxt /\ Duplicate
      <3>1. ooseq' = ooseq /\ SendAck /\ UNCHANGED <<rcv_nxt, rcv_wnd, chain, put>>
        BY <2>2 DEF Duplicate
      <3>2. AckInv' /\ rcv_ann_right_edge <= rcv_ann_right_edge'
        BY <1>0, <3>1 DEF Acknowledge
      <3> QED  BY <3>1, <3>2, AckStep DEF IInv, TypeOK
    <2>3. ASSUME End(s) > rcv_nxt PROVE g \in Segment /\ End(g) <= rcv_ann_right_edge
      <3>1. rcv_nxt \in Nat  BY DEF IInv, TypeOK
      <3>2. CASE s.seqno < rcv_nxt
        <4>1. g = [seqno |-> rcv_nxt, len |-> End(s) - rcv_nxt]  BY <3>2 DEF From
        <4>2. End(s) - rcv_nxt \in Nat \ {0}  BY <2>1, <2>3, <3>1
        <4>3. End(g) = rcv_nxt + (End(s) - rcv_nxt)  BY <4>1 DEF End
        <4>4. End(g) = End(s)  BY <2>1, <3>1, <4>3
        <4> QED  BY <2>1, <3>1, <4>1, <4>2, <4>4 DEF Segment
      <3>3. CASE ~ s.seqno < rcv_nxt
        <4>1. g = s  BY <3>3 DEF From
        <4> QED  BY <2>1, <4>1 DEF Segment
      <3> QED  BY <3>2, <3>3
    <2>4. CASE End(s) > rcv_nxt /\ g.seqno = rcv_nxt /\ InSequence(g)
      <3> HIDE DEF g
      <3> QED  BY <2>3, <2>4, InSequenceStep
    <2>5. CASE End(s) > rcv_nxt /\ g.seqno > rcv_nxt /\ OutOfSequence(g)
      <3>1. ooseq' \in {Queued(g), ooseq} /\ SendAck
            /\ UNCHANGED <<rcv_nxt, rcv_wnd, chain, put>>
        BY <2>5 DEF OutOfSequence
      <3> HIDE DEF g
      <3>2. /\ Queued(g) \subseteq Segment
            /\ \A m \in Queued(g) : m.seqno > rcv_nxt /\ End(m) <= rcv_ann_right_edge
            /\ Disjoint(Queued(g))
        BY <2>3, <2>5, QueuedOrdered
      <3>0. AckInv' /\ rcv_ann_right_edge <= rcv_ann_right_edge'
        BY <1>0, <3>1 DEF Acknowledge
      <3>3. CASE ooseq' = Queued(g)  BY <3>0, <3>1, <3>2, <3>3, AckStep
      <3>4. CASE ooseq' = ooseq  BY <3>0, <3>1, <3>4, AckStep DEF IInv, TypeOK
      <3> QED  BY <3>1, <3>3, <3>4
    <2> QED  BY <1>2, <2>2, <2>4, <2>5 DEF tcp_receive
  <1>3. CASE tcp_slowtmr
    <2>1. /\ ooseq' = {} /\ UNCHANGED <<rcv_nxt, rcv_wnd, rcv_ann_right_edge>>
          /\ UNCHANGED <<delay, ack_now, withheld, chain, put>>
      BY <1>3 DEF tcp_slowtmr, ack
    <2> QED  BY <2>1 DEF IInv, TypeOK, WindowStaysOpen, Disjoint, Reassembles
  <1>4. CASE UNCHANGED vars
    BY <1>4 DEF vars, ack, IInv, TypeOK, WindowStaysOpen, Disjoint, End, Reassembles
  <1> QED  BY <1>1, <1>2, <1>3, <1>4 DEF Next

LEMMA InitialState == Init => IInv
  <1> SUFFICES ASSUME Init PROVE IInv  OBVIOUS
  <1>1. TCP_WND \in Nat /\ TCP_WND \div 2 \in Nat  BY SizeAssumption
  <1>2. TypeOK
    <2>1. TCP_WND \in 0 .. TCP_WND  BY <1>1
    <2> QED  BY <1>1, <2>1 DEF Init, TypeOK
  <1>3. WindowStaysOpen
    <2>1. rcv_nxt = 0 /\ rcv_wnd = TCP_WND /\ rcv_ann_right_edge = TCP_WND  BY DEF Init
    <2>2. TCP_WND \in 0 .. 0 + TCP_WND /\ TCP_WND - 0 >= TCP_WND - TCP_WND \div 2
      BY <1>1
    <2> QED  BY <2>1, <2>2 DEF WindowStaysOpen
  <1>4. Disjoint(ooseq)  BY DEF Init, Disjoint
  <1> QED  BY <1>2, <1>3, <1>4 DEF Init, IInv

LEMMA Invariance == Spec => []IInv
  BY InitialState, Step, PTL DEF Spec

-----------------------------------------------------------------------------
(* The theorems.                                                           *)

\* tcp_receive, tcp_recved and tcp_client_recv keep every field in its range; the
\* window never exceeds TCP_WND.
THEOREM ReceiveTypeCorrect == Spec => []TypeOK
  <1>1. IInv => TypeOK  BY DEF IInv
  <1> QED  BY <1>1, Invariance, PTL

\* For segments of any size, in any order, the out-of-sequence queue of tcp_receive
\* holds no byte twice and nothing that is in sequence already.
THEOREM QueueStaysOrdered == Spec => []OoseqOrdered
  <1>1. IInv => OoseqOrdered  BY DEF IInv, OoseqOrdered, Disjoint
  <1> QED  BY <1>1, Invariance, PTL

\* For any window and segment size: what tcp_output and tcp_send_empty_ack announce
\* is never taken back behind what has arrived and never more than lwIP takes; and
\* unless Nagle's rule keeps a due acknowledgement back, half of the window is open
\* whenever no segment is being processed.
THEOREM WindowOpen == Spec => []WindowStaysOpen
  <1>1. IInv => WindowStaysOpen  BY DEF IInv
  <1> QED  BY <1>1, Invariance, PTL

\* Each call of tcp_client_recv gets the stream's next bytes, without a gap and
\* without a byte twice, for every way of cutting, losing and reordering the feed.
THEOREM StreamReassembled == Spec => FeedReassembled
  <1>1. IInv /\ [Next]_vars => [Reassembles]_vars  BY Step
  <1> QED  BY <1>1, Invariance, PTL DEF Spec, FeedReassembled
=============================================================================
