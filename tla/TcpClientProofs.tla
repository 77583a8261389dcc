---------------------------- MODULE TcpClientProofs ----------------------------
(***************************************************************************)
(* What TcpClient promises, for any number of orders, any send buffer and  *)
(* any limits on retransmissions: an order stays in one of the queues      *)
(* until the server has it, and the server sees the end of the stream only *)
(* after all orders.                                                       *)
(***************************************************************************)
EXTENDS TcpClient, BasicLemmas, FiniteSetTheorems, TLAPS

-----------------------------------------------------------------------------
(* The invariant.                                                          *)

Pcb == [state : {"SYN_SENT", "ESTABLISHED", "LAST_ACK", "FIN_WAIT_1", "CLOSED"},
        allocated : BOOLEAN, callbacks : BOOLEAN, fin : BOOLEAN,
        unsent : SUBSET SeqNum, unacked : SUBSET SeqNum,
        lastack : SeqNum, snd_nxt : SeqNum, snd_lbb : SeqNum,
        snd_buf : 0 .. SndBuf, rtime : -1 .. RTO,
        nrtx : 0 .. TCP_MAXRTX + TCP_SYNMAXRTX]

Queue(p) == p.unsent \cup p.unacked
Fin(p) == IF p.fin THEN {p.snd_lbb - 1} ELSE {}

\* Whether or not the block is still in use: its numbers are in order, no segment
\* is in both queues, and the FIN is the last segment that is ever queued.
Sane(p) ==
  /\ p \in Pcb
  /\ p.lastack <= p.snd_nxt /\ p.snd_nxt <= p.snd_lbb /\ 1 <= p.snd_lbb
  /\ \A s \in Queue(p) : p.lastack <= s /\ s < p.snd_lbb
  /\ p.unsent \cap p.unacked = {}
  /\ p.fin => p.state \in {"LAST_ACK", "FIN_WAIT_1", "CLOSED"}
  /\ p.callbacks => p.state = "ESTABLISHED"

\* Of a block in use, when the server has everything before number r: the rest is
\* queued, the room in the buffer is what the queued orders leave, and there is
\* something to be sent again whenever the retransmission timer may run.
Live(p, r) ==
  /\ r .. p.snd_lbb - 1 \subseteq Queue(p)
  /\ p.state = "SYN_SENT" =>
       /\ p.snd_nxt = 1 /\ p.snd_lbb = 1 /\ p.snd_buf = SndBuf /\ ~ p.fin
       /\ Queue(p) = {SYN}
  /\ p.state # "SYN_SENT" =>
       1 <= p.lastack /\ p.snd_buf + Cardinality(Queue(p) \ Fin(p)) = SndBuf
  /\ p.rtime >= 0 => Queue(p) # {}

Timed(p) == p.rtime >= 0 => p.unacked # {}

\* The orders accepted so far, and the FIN, are no more than have been polled.
Counted ==
  pcb.snd_lbb + (IF pc = "wait" THEN 1 ELSE 0)
    <= polled + 1 + (IF pcb.fin THEN 1 ELSE 0)

Handles ==
  /\ pcb.callbacks => c_pcb = "pcb"
  /\ pc = "errf" => pcb.callbacks /\ ~ pcb.allocated
  /\ c_pcb = "pcb" => pcb.state # "SYN_SENT"

\* Segments on the way: none from beyond what has been queued, and none that
\* acknowledges what the server does not have.
OnTheWay ==
  /\ server.rcv_nxt <= pcb.snd_lbb
  /\ \A s \in toServer : s < pcb.snd_lbb
  /\ \A m \in toClient : m.ack <= server.rcv_nxt
  /\ \A m \in toClient : m.kind = "SYNACK" => 1 <= server.rcv_nxt
  /\ server.ended => pcb.fin /\ server.rcv_nxt = pcb.snd_lbb

Others ==
  /\ pc \in Places
  /\ timer \in [fast : BOOLEAN, slow : BOOLEAN, odd : BOOLEAN]
  /\ c_pcb \in {"pcb", "NULL"}
  /\ is_connected \in BOOLEAN
  /\ fed \in 0 .. MaxOrders /\ ready \in 0 .. fed /\ polled \in 0 .. ready
  /\ server \in [state : {"LISTEN", "OPEN", "CLOSED", "GONE"}, rcv_nxt : SeqNum,
                 ended : BOOLEAN]
  /\ toServer \subseteq SeqNum
  /\ toClient \subseteq Segment

Block ==
  /\ Sane(pcb)
  /\ pcb.allocated => Live(pcb, server.rcv_nxt) /\ Timed(pcb)

IInv == Others /\ Block /\ Counted /\ Handles /\ OnTheWay

-----------------------------------------------------------------------------
(* The operators on the control block.                                     *)

LEMMA Fields ==
  ASSUME NEW p, Sane(p)
  PROVE  /\ p.unsent \in SUBSET SeqNum /\ p.unacked \in SUBSET SeqNum
         /\ p.lastack \in Nat /\ p.snd_nxt \in Nat /\ p.snd_lbb \in Nat
         /\ p.snd_buf \in Nat /\ p.rtime \in Int /\ p.nrtx \in Nat
         /\ Queue(p) \subseteq SeqNum /\ SeqNum \subseteq Nat
         /\ SndBuf \in Nat /\ RTO \in Nat /\ MaxOrders \in Nat
         /\ TCP_MAXRTX \in Nat /\ TCP_SYNMAXRTX \in Nat
  BY SizeAssumption DEF Sane, Pcb, Queue, SeqNum

LEMMA FiniteQueues ==
  ASSUME NEW S \in SUBSET SeqNum
  PROVE  IsFiniteSet(S)
  <1>1. MaxOrders + 2 \in Nat  BY SizeAssumption
  <1>2. S \in SUBSET Nat /\ \A s \in S : s <= MaxOrders + 2  BY <1>1 DEF SeqNum
  <1> QED  BY <1>1, <1>2, FS_BoundedSetOfNaturals

\* With nothing unacknowledged, tcp_output sends something if there is anything.
LEMMA SendableFacts ==
  ASSUME NEW p, Sane(p)
  PROVE  /\ Sendable(p) \subseteq p.unsent
         /\ p.unacked = {} /\ p.unsent # {} => Sendable(p) # {}
  <1>1. Sendable(p) \subseteq p.unsent  BY DEF Sendable
  <1>2. ASSUME p.unacked = {}, p.unsent # {}, Sendable(p) = {} PROVE FALSE
    <2>1. IsFiniteSet(p.unsent)  BY Fields, FiniteQueues
    <2>2. Cardinality(p.unsent) # 1 /\ Sendable(p) = {s \in p.unsent : \E t \in p.unsent : s < t}
      BY <1>2 DEF Sendable
    <2>3. PICK x \in p.unsent : TRUE  BY <1>2
    <2>4. p.unsent # {x}  BY <2>1, <2>2, FS_Singleton
    <2>5. PICK y \in p.unsent : y # x  BY <2>3, <2>4
    <2>6. x \in Nat /\ y \in Nat  BY Fields
    <2>7. x < y \/ y < x  BY <2>5, <2>6
    <2> QED  BY <1>2, <2>2, <2>7
  <1> QED  BY <1>1, <1>2

LEMMA OutputFacts ==
  ASSUME NEW p, Sane(p), NEW q, q = tcp_output(p)
  PROVE  /\ Sane(q) /\ Queue(q) = Queue(p) /\ Sendable(p) \subseteq Queue(p)
         /\ q.state = p.state /\ q.allocated = p.allocated
         /\ q.callbacks = p.callbacks /\ q.fin = p.fin /\ q.lastack = p.lastack
         /\ q.snd_lbb = p.snd_lbb /\ q.snd_buf = p.snd_buf /\ q.nrtx = p.nrtx
         /\ \A r \in Nat : Live(p, r) => Live(q, r) /\ Timed(q)
  <1> DEFINE sent == Sendable(p)
             T == {p.snd_nxt} \cup {s + 1 : s \in sent}
  <1>1. sent \subseteq p.unsent  BY SendableFacts
  <1>2. p \in Pcb  BY DEF Sane
  <1>3. \A s \in Queue(p) : s \in Nat /\ s < p.snd_lbb  BY Fields DEF Sane
  <1>4. \A s \in sent : s \in Nat /\ s + 1 <= p.snd_lbb
    <2>1. \A s \in sent : s \in Nat /\ s < p.snd_lbb  BY <1>1, <1>3 DEF Queue
    <2> HIDE DEF sent
    <2> QED  BY <2>1, Fields
  <1>5. T \in SUBSET Nat /\ T # {} /\ \A x \in T : x <= p.snd_lbb
    <2> HIDE DEF sent
    <2> QED  BY <1>4, Fields DEF Sane
  <1>6. Max(T) \in T /\ \A y \in T : Max(T) >= y
    <2> HIDE DEF T
    <2> QED  BY <1>5, Fields, MaxIsGreatest
  <1>7. Max(T) \in Nat /\ p.snd_nxt <= Max(T) /\ Max(T) <= p.snd_lbb
    <2>1. p.snd_nxt \in T  OBVIOUS
    <2> HIDE DEF T
    <2> QED  BY <1>5, <1>6, <2>1, Fields
  <1>8. q = [p EXCEPT !.unsent = @ \ sent, !.unacked = @ \cup sent, !.snd_nxt = Max(T),
                      !.rtime = IF sent # {} /\ @ < 0 THEN 0 ELSE @]
    BY DEF tcp_output
  <1>9. Max(T) \in SeqNum  BY <1>2, <1>7, Fields DEF Pcb, SeqNum
  <1> HIDE DEF T, sent
  <1>10. /\ q.unsent = p.unsent \ sent /\ q.unacked = p.unacked \cup sent
         /\ q.snd_nxt = Max(T) /\ q.rtime = IF sent # {} /\ p.rtime < 0 THEN 0 ELSE p.rtime
         /\ q.state = p.state /\ q.allocated = p.allocated
         /\ q.callbacks = p.callbacks /\ q.fin = p.fin /\ q.lastack = p.lastack
         /\ q.snd_lbb = p.snd_lbb /\ q.snd_buf = p.snd_buf /\ q.nrtx = p.nrtx
    BY <1>2, <1>8 DEF Pcb
  <1>11. q \in Pcb
    <2>1. (IF sent # {} /\ p.rtime < 0 THEN 0 ELSE p.rtime) \in -1 .. RTO
      BY <1>2, SizeAssumption DEF Pcb
    <2>2. p.unsent \ sent \in SUBSET SeqNum /\ p.unacked \cup sent \in SUBSET SeqNum
      BY <1>1, <1>2 DEF Pcb
    <2> QED  BY <1>2, <1>8, <1>9, <2>1, <2>2 DEF Pcb
  <1>12. Queue(q) = Queue(p)  BY <1>1, <1>10 DEF Queue
  <1>13. Sane(q)
    <2>1. q.unsent \cap q.unacked = {}  BY <1>1, <1>10 DEF Sane
    <2> QED  BY <1>7, <1>10, <1>11, <1>12, <2>1, Fields DEF Sane
  <1>14. ASSUME NEW r \in Nat, Live(p, r) PROVE Live(q, r) /\ Timed(q)
    <2>1. Fin(q) = Fin(p)  BY <1>10 DEF Fin
    <2>2. p.state = "SYN_SENT" => q.snd_nxt = 1  BY <1>7, <1>10, <1>14 DEF Live
    <2>3. q.rtime >= 0 => q.unacked # {}
      <3>1. CASE sent # {}  BY <3>1, <1>10
      <3>2. CASE sent = {}
        <4>1. q.rtime = p.rtime /\ q.unacked = p.unacked  BY <3>2, <1>10
        <4>2. q.rtime >= 0 => Queue(p) # {}  BY <4>1, <1>14 DEF Live
        <4>3. p.unacked = {} => p.unsent = {}  BY <3>2, SendableFacts DEF sent
        <4> QED  BY <4>1, <4>2, <4>3 DEF Queue
      <3> QED  BY <3>1, <3>2
    <2>4. q.rtime >= 0 => Queue(q) # {}  BY <2>3 DEF Queue
    <2> QED  BY <1>10, <1>12, <1>14, <2>1, <2>2, <2>3, <2>4 DEF Live, Timed
  <1> QED  BY <1>1, <1>10, <1>12, <1>13, <1>14 DEF Queue, sent

\* tcp_rexmit_rto moves every segment back; what it leaves may be sent at once.
LEMMA RequeuedFacts ==
  ASSUME NEW p, Sane(p), p.nrtx + 1 <= TCP_MAXRTX + TCP_SYNMAXRTX, Queue(p) # {},
         NEW q, q = Requeued(p)
  PROVE  /\ Sane(q) /\ Queue(q) = Queue(p)
         /\ q.state = p.state /\ q.allocated = p.allocated
         /\ q.callbacks = p.callbacks /\ q.fin = p.fin /\ q.snd_lbb = p.snd_lbb
         /\ \A r \in Nat : Live(p, r) => Live(q, r)
  <1>1. p \in Pcb  BY DEF Sane
  <1>2. /\ q.unsent = p.unsent \cup p.unacked /\ q.unacked = {}
        /\ q.rtime = 0 /\ q.nrtx = p.nrtx + 1
        /\ q.state = p.state /\ q.allocated = p.allocated
        /\ q.callbacks = p.callbacks /\ q.fin = p.fin /\ q.lastack = p.lastack
        /\ q.snd_nxt = p.snd_nxt /\ q.snd_lbb = p.snd_lbb /\ q.snd_buf = p.snd_buf
    BY <1>1 DEF Requeued, Pcb
  <1>3. q \in Pcb
    <2>1. 0 \in -1 .. RTO /\ p.nrtx + 1 \in 0 .. TCP_MAXRTX + TCP_SYNMAXRTX  BY Fields
    <2>2. p.unsent \cup p.unacked \in SUBSET SeqNum  BY <1>1 DEF Pcb
    <2> QED  BY <1>1, <2>1, <2>2 DEF Requeued, Pcb
  <1>4. Queue(q) = Queue(p)  BY <1>2 DEF Queue
  <1>5. Sane(q)  BY <1>2, <1>3, <1>4 DEF Sane
  <1>6. Fin(q) = Fin(p)  BY <1>2 DEF Fin
  <1> QED  BY <1>2, <1>4, <1>5, <1>6 DEF Live

\* tcp_slowtmr on a block that it keeps.
LEMMA ServeFacts ==
  ASSUME NEW p, Sane(p), NEW r \in Nat, Live(p, r), Timed(p), ~ GivenUp(p),
         NEW q, q = Serve(p)
  PROVE  /\ Sane(q) /\ Live(q, r) /\ Queue(q) = Queue(p)
         /\ q.state = p.state /\ q.allocated = p.allocated
         /\ q.callbacks = p.callbacks /\ q.fin = p.fin /\ q.snd_lbb = p.snd_lbb
  <1>1. p \in Pcb  BY DEF Sane
  <1>2. p.nrtx + 1 <= TCP_MAXRTX + TCP_SYNMAXRTX  BY Fields DEF GivenUp
  <1>3. CASE p.rtime < 0
    <2>1. p.rtime < RTO /\ ~ (p.rtime >= RTO)  BY <1>3, Fields
    <2>2. q = p  BY <1>3, <2>1 DEF Serve
    <2> QED  BY <2>2
  <1>4. CASE p.rtime >= 0
    <2> DEFINE c == [p EXCEPT !.rtime = @ + 1]
    <2>1. ~ (p.rtime < 0) /\ p.unacked # {} /\ p.rtime \in 0 .. RTO
      BY <1>1, <1>4, Fields DEF Timed, Pcb
    <2>2. c.rtime = p.rtime + 1 /\ c.unacked = p.unacked
      BY <1>1 DEF Pcb
    <2>3. CASE c.rtime >= RTO
      <3>1. q = Requeued(c)  BY <2>1, <2>2, <2>3 DEF Serve
      <3>2. Requeued(c) = Requeued(p)  BY <1>1 DEF Requeued, Pcb
      <3>3. Queue(p) # {}  BY <2>1 DEF Queue
      <3> QED  BY <1>2, <3>1, <3>2, <3>3, RequeuedFacts
    <2>4. CASE ~ (c.rtime >= RTO)
      <3>1. q = c  BY <2>1, <2>2, <2>4 DEF Serve
      <3>2. c.rtime \in -1 .. RTO  BY <2>1, <2>2, <2>4, Fields
      <3>3. c \in Pcb  BY <1>1, <2>2, <3>2 DEF Pcb
      <3>4. /\ c.unsent = p.unsent /\ c.nrtx = p.nrtx
            /\ c.state = p.state /\ c.allocated = p.allocated
            /\ c.callbacks = p.callbacks /\ c.fin = p.fin /\ c.lastack = p.lastack
            /\ c.snd_nxt = p.snd_nxt /\ c.snd_lbb = p.snd_lbb /\ c.snd_buf = p.snd_buf
        BY <1>1 DEF Pcb
      <3> HIDE DEF c
      <3>5. Queue(c) = Queue(p) /\ Fin(c) = Fin(p)  BY <2>2, <3>4 DEF Queue, Fin
      <3>6. Sane(c)  BY <2>2, <3>3, <3>4, <3>5 DEF Sane
      <3>7. Queue(c) # {}  BY <2>1, <3>5 DEF Queue
      <3>8. Live(c, r)  BY <3>4, <3>5, <3>7 DEF Live
      <3> QED  BY <3>1, <3>4, <3>5, <3>6, <3>8
    <2> QED  BY <2>3, <2>4
  <1> QED  BY <1>3, <1>4, Fields

\* tcp_receive: what it takes from the queues the server has, and the room that it
\* gives back is the room that the removed orders took.
LEMMA ReceiveFacts ==
  ASSUME NEW p, Sane(p), NEW r \in Nat, Live(p, r), Timed(p), p.state # "SYN_SENT",
         NEW a \in SeqNum, a <= r, NEW q, q = tcp_receive(p, a)
  PROVE  /\ Sane(q) /\ Live(q, r) /\ Timed(q)
         /\ q.state = p.state /\ q.allocated = p.allocated
         /\ q.callbacks = p.callbacks /\ q.fin = p.fin /\ q.snd_lbb = p.snd_lbb
  <1> DEFINE acked == Acked(p, a)
             n == Cardinality(acked \ Fin(p))
             u == [p EXCEPT !.unsent = @ \ acked, !.unacked = @ \ acked, !.snd_buf = @ + n]
  <1>1. p \in Pcb  BY DEF Sane
  <1>2. a \in Nat /\ a \in SeqNum  BY Fields
  <1>3. CASE a > p.snd_nxt
    <2>1. q = p  BY <1>3 DEF tcp_receive
    <2> QED  BY <2>1
  <1>4. CASE ~ (a > p.snd_nxt)
    <2>1. q = IF a <= p.lastack THEN u
              ELSE [u EXCEPT !.lastack = a, !.nrtx = 0,
                             !.rtime = IF u.unacked = {} THEN -1 ELSE 0]
      BY <1>4 DEF tcp_receive, Fin
    <2>2. acked \subseteq Queue(p) /\ \A s \in Queue(p) : s \in acked <=> s < a
      BY DEF Acked, Queue
    <2>3. /\ n \in Nat
          /\ Cardinality((Queue(p) \ acked) \ Fin(p)) \in Nat
          /\ n + Cardinality((Queue(p) \ acked) \ Fin(p)) = Cardinality(Queue(p) \ Fin(p))
      <3> DEFINE A == acked \ Fin(p)
                 B == (Queue(p) \ acked) \ Fin(p)
      <3>1. A \in SUBSET SeqNum /\ B \in SUBSET SeqNum  BY <2>2, Fields
      <3>2. A \cap B = {} /\ A \cup B = Queue(p) \ Fin(p)  BY <2>2
      <3>3. IsFiniteSet(A) /\ IsFiniteSet(B)
        <4> HIDE DEF A, B
        <4> QED  BY <3>1, FiniteQueues
      <3>4. Cardinality(A) \in Nat /\ Cardinality(B) \in Nat
            /\ Cardinality(A \cup B) = Cardinality(A) + Cardinality(B)
        <4> HIDE DEF A, B
        <4>1. Cardinality(A \cap B) = 0  BY <3>2, FS_EmptySet
        <4>2. Cardinality(A) \in Nat /\ Cardinality(B) \in Nat  BY <3>3, FS_CardinalityType
        <4>3. Cardinality(A \cup B) = Cardinality(A) + Cardinality(B) - Cardinality(A \cap B)
          BY <3>3, FS_Union
        <4> QED  BY <4>1, <4>2, <4>3
      <3> QED  BY <3>2, <3>4
    <2> HIDE DEF acked, n
    <2>4. p.snd_buf + n \in 0 .. SndBuf
      BY <2>3, Fields DEF Live
    <2>5. /\ u.unsent = p.unsent \ acked /\ u.unacked = p.unacked \ acked
          /\ u.snd_buf = p.snd_buf + n
          /\ u.state = p.state /\ u.allocated = p.allocated
          /\ u.callbacks = p.callbacks /\ u.fin = p.fin /\ u.lastack = p.lastack
          /\ u.snd_nxt = p.snd_nxt /\ u.snd_lbb = p.snd_lbb /\ u.rtime = p.rtime
          /\ u.nrtx = p.nrtx
      BY <1>1 DEF Pcb
    <2>6. u \in Pcb
      <3>1. p.unsent \ acked \in SUBSET SeqNum /\ p.unacked \ acked \in SUBSET SeqNum
        BY <1>1 DEF Pcb
      <3> QED  BY <1>1, <2>4, <3>1 DEF Pcb
    <2> HIDE DEF u
    <2>7. Queue(u) = Queue(p) \ acked /\ Fin(u) = Fin(p) /\ u.unsent \cap u.unacked = {}
      BY <2>5 DEF Queue, Fin, Sane
    <2>8. r .. p.snd_lbb - 1 \subseteq Queue(p) \ acked
      BY <1>2, <2>2, Fields DEF Live
    <2>9. u.snd_buf + Cardinality(Queue(u) \ Fin(u)) = SndBuf
      BY <2>3, <2>5, <2>7, Fields DEF Live
    <2>10. CASE a <= p.lastack
      <3>1. q = u  BY <2>1, <2>10
      <3>2. ASSUME NEW s \in Queue(p) PROVE s \notin acked
        <4>1. s \in Nat /\ p.lastack \in Nat /\ p.lastack <= s  BY Fields DEF Sane
        <4>2. ~ (s < a)  BY <1>2, <2>10, <4>1
        <4> QED  BY <2>2, <4>2
      <3>3. Queue(u) = Queue(p) /\ u.unacked = p.unacked
        BY <2>5, <2>7, <3>2 DEF Queue
      <3>4. Sane(u)  BY <2>5, <2>6, <2>7, <3>3 DEF Sane
      <3>5. Live(u, r) /\ Timed(u)  BY <2>5, <2>7, <2>9, <3>3 DEF Live, Timed
      <3> QED  BY <2>5, <3>1, <3>4, <3>5
    <2>11. CASE ~ (a <= p.lastack)
      <3> DEFINE t == IF u.unacked = {} THEN -1 ELSE 0
      <3>1. q = [u EXCEPT !.lastack = a, !.nrtx = 0, !.rtime = t]
        BY <2>1, <2>11
      <3>2. /\ q.unsent = u.unsent /\ q.unacked = u.unacked /\ q.snd_buf = u.snd_buf
            /\ q.state = u.state /\ q.allocated = u.allocated
            /\ q.callbacks = u.callbacks /\ q.fin = u.fin /\ q.lastack = a
            /\ q.snd_nxt = u.snd_nxt /\ q.snd_lbb = u.snd_lbb /\ q.rtime = t
        BY <2>6, <3>1 DEF Pcb
      <3>3. q \in Pcb
        <4>1. t \in -1 .. RTO  BY Fields
        <4>2. 0 \in 0 .. TCP_MAXRTX + TCP_SYNMAXRTX  BY Fields
        <4> HIDE DEF t
        <4> QED  BY <1>2, <2>6, <3>1, <4>1, <4>2 DEF Pcb
      <3>4. Queue(q) = Queue(p) \ acked /\ Fin(q) = Fin(p)
        BY <2>5, <2>7, <3>2 DEF Queue, Fin
      <3>5. ASSUME NEW s \in Queue(q) PROVE a <= s /\ s < q.snd_lbb
        <4>1. s \in Queue(p) /\ ~ (s < a)  BY <2>2, <3>4
        <4>2. s \in Nat /\ s < p.snd_lbb  BY <4>1, Fields DEF Sane
        <4> QED  BY <1>2, <2>5, <3>2, <4>1, <4>2
      <3>6. Sane(q)
        BY <1>2, <1>4, <2>5, <2>7, <3>2, <3>3, <3>5, Fields DEF Sane
      <3>7. t >= 0 => u.unacked # {}  OBVIOUS
      <3>8. Timed(q)
        <4> HIDE DEF t
        <4> QED  BY <3>2, <3>7 DEF Timed
      <3>9. q.rtime >= 0 => Queue(q) # {}  BY <3>8 DEF Timed, Queue
      <3>10. 1 <= a  BY <1>2, <2>11, Fields DEF Live
      <3>11. q.snd_buf + Cardinality(Queue(q) \ Fin(q)) = SndBuf
        BY <2>7, <2>9, <3>2, <3>4
      <3>12. Live(q, r)
        BY <2>5, <2>8, <3>2, <3>4, <3>9, <3>10, <3>11 DEF Live
      <3> QED  BY <2>5, <3>2, <3>6, <3>8, <3>12
    <2> QED  BY <2>10, <2>11
  <1> QED  BY <1>3, <1>4

\* tcp_close: the FIN is one segment more, behind all the others.
LEMMA CloseFacts ==
  ASSUME NEW p, Sane(p), ~ p.fin, p.snd_lbb <= MaxOrders + 1,
         NEW st \in {"LAST_ACK", "FIN_WAIT_1"}, NEW q, q = tcp_client_close(p, st)
  PROVE  /\ Sane(q) /\ q.fin /\ ~ q.callbacks /\ q.state = st
         /\ q.allocated = p.allocated /\ q.snd_lbb = p.snd_lbb + 1
         /\ \A r \in Nat : Live(p, r) /\ r <= p.snd_lbb /\ p.state # "SYN_SENT"
                             => Live(q, r)
  <1> DEFINE l == p.snd_lbb
  <1>1. p \in Pcb  BY DEF Sane
  <1>2. l \in Nat /\ l \in SeqNum /\ l + 1 \in SeqNum /\ 1 <= l  BY Fields DEF Sane, SeqNum
  <1>3. q = [p EXCEPT !.unsent = @ \cup {l}, !.snd_lbb = l + 1, !.fin = TRUE,
                      !.callbacks = FALSE, !.state = st]
    BY <1>1 DEF tcp_client_close, tcp_send_fin, Pcb
  <1>4. /\ q.unsent = p.unsent \cup {l} /\ q.unacked = p.unacked
        /\ q.snd_lbb = l + 1 /\ q.fin /\ ~ q.callbacks /\ q.state = st
        /\ q.allocated = p.allocated /\ q.lastack = p.lastack
        /\ q.snd_nxt = p.snd_nxt /\ q.snd_buf = p.snd_buf /\ q.rtime = p.rtime
    BY <1>1, <1>3 DEF Pcb
  <1>5. q \in Pcb
    <2>1. p.unsent \cup {l} \in SUBSET SeqNum  BY <1>1, <1>2 DEF Pcb
    <2> HIDE DEF l
    <2> QED  BY <1>1, <1>2, <1>3, <2>1 DEF Pcb
  <1>6. Queue(q) = Queue(p) \cup {l}  BY <1>4 DEF Queue
  <1>7. l \notin Queue(p)  BY <1>2 DEF Sane
  <1>8. ASSUME NEW s \in Queue(q) PROVE q.lastack <= s /\ s < q.snd_lbb
    <2>1. s = l \/ (s \in Queue(p) /\ s \in Nat /\ p.lastack <= s /\ s < l)
      BY <1>6, Fields DEF Sane
    <2>2. p.lastack <= l  BY Fields DEF Sane
    <2> QED  BY <1>2, <1>4, <2>1, <2>2
  <1>9. q.unsent \cap q.unacked = {}  BY <1>4, <1>7 DEF Sane, Queue
  <1>10. Sane(q)
    <2>1. q.lastack <= q.snd_nxt /\ q.snd_nxt <= q.snd_lbb /\ 1 <= q.snd_lbb
      BY <1>2, <1>4, Fields DEF Sane
    <2> QED  BY <1>4, <1>5, <1>8, <1>9, <2>1 DEF Sane
  <1>11. ASSUME NEW r \in Nat, Live(p, r), r <= p.snd_lbb, p.state # "SYN_SENT"
         PROVE  Live(q, r)
    <2>1. Fin(q) = {l} /\ Fin(p) = {}  BY <1>2, <1>4 DEF Fin
    <2>2. Queue(q) \ Fin(q) = Queue(p) \ Fin(p)  BY <1>6, <1>7, <2>1
    <2>3. r .. q.snd_lbb - 1 \subseteq Queue(q)
      <3>1. \A s \in r .. l : s \in r .. l - 1 \/ s = l  BY <1>2
      <3>2. q.snd_lbb - 1 = l  BY <1>2, <1>4
      <3> QED  BY <1>6, <1>11, <3>1, <3>2 DEF Live
    <2>4. Queue(q) # {}  BY <1>6
    <2> QED  BY <1>4, <1>11, <2>2, <2>3, <2>4 DEF Live
  <1> QED  BY <1>4, <1>10, <1>11

\* A freed block has empty queues, and may be used no more.
LEMMA FreedFacts ==
  ASSUME NEW p, Sane(p), NEW q, q = Freed(p)
  PROVE  /\ Sane(q) /\ ~ q.allocated /\ q.state = p.state /\ q.callbacks = p.callbacks
         /\ q.fin = p.fin /\ q.snd_lbb = p.snd_lbb
         /\ ~ p.callbacks => Sane([q EXCEPT !.state = "CLOSED"])
  <1>1. p \in Pcb  BY DEF Sane
  <1>2. q = [p EXCEPT !.unsent = {}, !.unacked = {}, !.rtime = -1, !.allocated = FALSE]
    BY <1>1 DEF Freed, tcp_pcb_purge, Pcb
  <1>3. -1 \in -1 .. RTO  BY SizeAssumption
  <1>4. /\ q \in Pcb /\ q.unsent = {} /\ q.unacked = {} /\ q.allocated = FALSE
        /\ q.state = p.state /\ q.callbacks = p.callbacks /\ q.fin = p.fin
        /\ q.snd_lbb = p.snd_lbb /\ q.snd_nxt = p.snd_nxt /\ q.lastack = p.lastack
    BY ZenonT(60), <1>1, <1>2, <1>3 DEF Pcb
  <1>5. Queue(q) = {}  BY <1>4 DEF Queue
  <1>6. Sane(q)  BY <1>4, <1>5 DEF Sane
  <1>7. ASSUME ~ p.callbacks, NEW c, c = [q EXCEPT !.state = "CLOSED"]
        PROVE  Sane(c)
    <2>1. /\ c \in Pcb /\ c.state = "CLOSED"
          /\ c.unsent = {} /\ c.unacked = {} /\ c.fin = q.fin /\ c.callbacks = q.callbacks
          /\ c.snd_lbb = q.snd_lbb /\ c.snd_nxt = q.snd_nxt /\ c.lastack = q.lastack
      BY <1>4, <1>7 DEF Pcb
    <2>2. Queue(c) = {}  BY <2>1 DEF Queue
    <2> QED  BY <1>4, <1>6, <1>7, <2>1, <2>2 DEF Sane
  <1> QED  BY <1>4, <1>6, <1>7

\* The answer to the SYN: the queues are empty then.
LEMMA ConnectedFacts ==
  ASSUME NEW p, Sane(p), NEW r \in Nat, 1 <= r, Live(p, r), p.state = "SYN_SENT",
         NEW q, q = tcp_client_connected(p)
  PROVE  /\ Sane(q) /\ Live(q, r) /\ Timed(q)
         /\ q.state = "ESTABLISHED" /\ q.allocated = p.allocated
         /\ q.fin = p.fin /\ q.snd_lbb = p.snd_lbb
  <1>1. p \in Pcb  BY DEF Sane
  <1>2. /\ p.snd_nxt = 1 /\ p.snd_lbb = 1 /\ p.snd_buf = SndBuf /\ ~ p.fin
        /\ Queue(p) = {SYN}
    BY DEF Live
  <1>3. 1 \in SeqNum /\ -1 \in -1 .. RTO  BY SizeAssumption DEF SeqNum
  <1>4. p.unsent \ {SYN} = {} /\ p.unacked \ {SYN} = {}  BY <1>2 DEF Queue
  <1>5. q = [p EXCEPT !.state = "ESTABLISHED", !.lastack = 1, !.unsent = {},
                      !.unacked = {}, !.rtime = -1, !.callbacks = TRUE]
    BY <1>1, <1>4 DEF tcp_client_connected, Pcb
  <1>6. /\ q \in Pcb /\ q.state = "ESTABLISHED" /\ q.lastack = 1 /\ q.unsent = {}
        /\ q.unacked = {} /\ q.rtime = -1 /\ q.callbacks /\ q.fin = p.fin
        /\ q.allocated = p.allocated /\ q.snd_nxt = p.snd_nxt
        /\ q.snd_lbb = p.snd_lbb /\ q.snd_buf = p.snd_buf
    BY ZenonT(60), <1>1, <1>3, <1>5 DEF Pcb
  <1>7. Queue(q) = {} /\ Queue(q) \ Fin(q) = {}  BY <1>6 DEF Queue
  <1>8. Cardinality(Queue(q) \ Fin(q)) = 0  BY <1>7, FS_EmptySet
  <1>9. r .. q.snd_lbb - 1 \subseteq Queue(q)  BY <1>2, <1>6
  <1>10. Sane(q)  BY <1>2, <1>6, <1>7 DEF Sane
  <1>11. Live(q, r)
    <2>1. q.snd_buf + Cardinality(Queue(q) \ Fin(q)) = SndBuf
      BY <1>2, <1>6, <1>8, SizeAssumption
    <2> QED  BY <1>6, <1>9, <2>1 DEF Live
  <1> QED  BY <1>6, <1>10, <1>11 DEF Timed

\* tcp_write, when the busy loop has found room.
LEMMA WriteFacts ==
  ASSUME NEW p, Sane(p), p.state # "SYN_SENT", p.snd_buf > 0,
         MayWrite(p) => p.snd_lbb <= MaxOrders + 1,
         NEW q, q = tcp_write(p)
  PROVE  /\ Sane(q) /\ q.state = p.state /\ q.allocated = p.allocated
         /\ q.callbacks = p.callbacks /\ q.fin = p.fin
         /\ IF p.state = "ESTABLISHED"
            THEN ~ p.fin /\ q.snd_lbb = p.snd_lbb + 1 ELSE q.snd_lbb = p.snd_lbb
         /\ \A r \in Nat : Live(p, r) /\ Timed(p) /\ r <= p.snd_lbb
                             => Live(q, r) /\ Timed(q)
  <1> DEFINE l == p.snd_lbb
  <1>1. p \in Pcb  BY DEF Sane
  <1>2. CASE ~ MayWrite(p)
    <2>1. q = p /\ p.state # "ESTABLISHED"  BY <1>2 DEF tcp_write, MayWrite
    <2> QED  BY <2>1
  <1>3. CASE MayWrite(p)
    <2>1. p.state = "ESTABLISHED" /\ ~ p.fin  BY <1>3 DEF MayWrite, Sane
    <2>2. l \in Nat /\ l \in SeqNum /\ l + 1 \in SeqNum /\ 1 <= l
      BY <1>3, Fields DEF Sane, SeqNum
    <2>3. q = [p EXCEPT !.unsent = @ \cup {l}, !.snd_lbb = l + 1, !.snd_buf = @ - 1]
      BY <1>1, <1>3 DEF tcp_write, Pcb
    <2>4. /\ q.unsent = p.unsent \cup {l} /\ q.unacked = p.unacked
          /\ q.snd_lbb = l + 1 /\ q.fin = p.fin /\ q.callbacks = p.callbacks
          /\ q.state = p.state /\ q.allocated = p.allocated /\ q.lastack = p.lastack
          /\ q.snd_nxt = p.snd_nxt /\ q.snd_buf = p.snd_buf - 1 /\ q.rtime = p.rtime
      BY <1>1, <2>3 DEF Pcb
    <2>5. q \in Pcb
      <3>1. p.unsent \cup {l} \in SUBSET SeqNum  BY <1>1, <2>2 DEF Pcb
      <3>2. p.snd_buf - 1 \in 0 .. SndBuf  BY <1>1, Fields DEF Pcb
      <3> HIDE DEF l
      <3> QED  BY <1>1, <2>2, <2>3, <3>1, <3>2 DEF Pcb
    <2>6. Queue(q) = Queue(p) \cup {l}  BY <2>4 DEF Queue
    <2>7. l \notin Queue(p)  BY <2>2 DEF Sane
    <2>8. ASSUME NEW s \in Queue(q) PROVE q.lastack <= s /\ s < q.snd_lbb
      <3>1. s = l \/ (s \in Queue(p) /\ s \in Nat /\ p.lastack <= s /\ s < l)
        BY <2>6, Fields DEF Sane
      <3>2. p.lastack <= l  BY Fields DEF Sane
      <3> QED  BY <2>2, <2>4, <3>1, <3>2
    <2>9. q.unsent \cap q.unacked = {}  BY <2>4, <2>7 DEF Sane, Queue
    <2>10. Sane(q)
      <3>1. q.lastack <= q.snd_nxt /\ q.snd_nxt <= q.snd_lbb /\ 1 <= q.snd_lbb
        BY <2>2, <2>4, Fields DEF Sane
      <3> QED  BY <2>1, <2>4, <2>5, <2>8, <2>9, <3>1 DEF Sane
    <2>11. ASSUME NEW r \in Nat, Live(p, r), Timed(p), r <= p.snd_lbb
           PROVE  Live(q, r) /\ Timed(q)
      <3>1. Fin(q) = {} /\ Fin(p) = {}  BY <2>1, <2>4 DEF Fin
      <3>2. q.snd_buf + Cardinality(Queue(q) \ Fin(q)) = SndBuf
        <4>1. Queue(p) \ Fin(p) = Queue(p) /\ Queue(q) \ Fin(q) = Queue(p) \cup {l}
          BY <2>6, <3>1
        <4>2. IsFiniteSet(Queue(p))  BY Fields, FiniteQueues
        <4>3. Cardinality(Queue(p)) \in Nat  BY <4>2, FS_CardinalityType
        <4>4. Cardinality(Queue(p) \cup {l}) = Cardinality(Queue(p)) + 1
          BY <2>7, <4>2, FS_AddElement
        <4>5. p.snd_buf + Cardinality(Queue(p)) = SndBuf  BY <2>1, <2>11, <4>1 DEF Live
        <4>6. q.snd_buf = p.snd_buf - 1  BY <2>4
        <4> QED  BY <4>1, <4>3, <4>4, <4>5, <4>6, Fields
      <3>3. r .. q.snd_lbb - 1 \subseteq Queue(q)
        <4>1. \A s \in r .. l : s \in r .. l - 1 \/ s = l  BY <2>2
        <4>2. q.snd_lbb - 1 = l  BY <2>2, <2>4
        <4> QED  BY <2>6, <2>11, <4>1, <4>2 DEF Live
      <3>4. Queue(q) # {}  BY <2>6
      <3> QED  BY <2>1, <2>4, <2>11, <3>2, <3>3, <3>4 DEF Live, Timed
    <2> QED  BY <2>1, <2>4, <2>10, <2>11
  <1> QED  BY <1>2, <1>3

-----------------------------------------------------------------------------
(* The steps.                                                              *)

\* What the invariant says of the numbers.
LEMMA Numbers ==
  ASSUME IInv
  PROVE  /\ server.rcv_nxt \in Nat /\ server.rcv_nxt \in SeqNum
         /\ pcb.snd_lbb \in Nat /\ polled \in Nat /\ ready \in Nat /\ fed \in Nat
         /\ polled <= ready /\ ready <= fed /\ fed <= MaxOrders /\ MaxOrders \in Nat
         /\ ~ pcb.fin => pcb.snd_lbb <= MaxOrders + 1
         /\ \A m \in toClient : m.ack \in SeqNum /\ m.ack \in Nat
  <1>1. server.rcv_nxt \in SeqNum /\ \A m \in toClient : m.ack \in SeqNum
    BY DEF IInv, Others, Segment
  <1>2. SeqNum \subseteq Nat /\ MaxOrders \in Nat /\ pcb.snd_lbb \in Nat
    BY Fields DEF IInv, Block
  <1>3. fed \in 0 .. MaxOrders /\ ready \in 0 .. fed /\ polled \in 0 .. ready
    BY DEF IInv, Others
  <1>4. /\ polled \in Nat /\ ready \in Nat /\ fed \in Nat
        /\ polled <= ready /\ ready <= fed /\ fed <= MaxOrders
    BY <1>2, <1>3
  <1>5. ~ pcb.fin => pcb.snd_lbb <= polled + 1
    BY <1>2, <1>4 DEF IInv, Counted
  <1>6. ~ pcb.fin => pcb.snd_lbb <= MaxOrders + 1  BY <1>2, <1>4, <1>5
  <1>7. server.rcv_nxt \in Nat /\ \A m \in toClient : m.ack \in Nat  BY <1>1, <1>2
  <1> QED  BY <1>1, <1>2, <1>4, <1>6, <1>7

\* tcp_output: the block stays sound, and what goes out has been queued.
LEMMA AnswerFacts ==
  ASSUME NEW p, Sane(p), Answer(p), toServer \subseteq SeqNum,
         \A s \in toServer : s < p.snd_lbb
  PROVE  /\ Sane(pcb') /\ pcb'.state = p.state /\ pcb'.allocated = p.allocated
         /\ pcb'.callbacks = p.callbacks /\ pcb'.fin = p.fin
         /\ pcb'.snd_lbb = p.snd_lbb
         /\ toServer' \subseteq SeqNum /\ \A s \in toServer' : s < p.snd_lbb
         /\ \A r \in Nat : Live(p, r) => Live(pcb', r) /\ Timed(pcb')
  <1>1. pcb' = tcp_output(p) /\ toServer' = toServer \cup Sendable(p)  BY DEF Answer
  <1>2. Sendable(p) \subseteq Queue(p) /\ Queue(p) \subseteq SeqNum
    BY Fields, OutputFacts
  <1>3. \A s \in Queue(p) : s < p.snd_lbb  BY DEF Sane
  <1> QED  BY <1>1, <1>2, <1>3, OutputFacts

\* The two timers.
LEMMA TimerSteps ==
  ASSUME IInv, timer_callback \/ FastTimer \/ NoSlowTimer \/ tcp_slowtmr
  PROVE  IInv'
  <1> USE DEF IInv
  <1>1. CASE timer_callback \/ NoSlowTimer
    <2>1. /\ UNCHANGED <<pcb, c_pcb, is_connected, fed, ready, polled, server,
                         toServer, toClient>>
          /\ pc' \in Places /\ (pc' = "errf" => pc = "errf") /\ (pc' = "wait" <=> pc = "wait")
          /\ timer' \in [fast : BOOLEAN, slow : BOOLEAN, odd : BOOLEAN]
      <3>1. CASE timer_callback  BY <3>1 DEF timer_callback, Others
      <3>2. CASE NoSlowTimer  BY <3>2 DEF NoSlowTimer, Goto, Others, Places
      <3> QED  BY <1>1, <3>1, <3>2
    <2>2. Others'  BY <2>1 DEF Others
    <2>3. Block'  BY <2>1 DEF Block
    <2>4. Counted' /\ Handles' /\ OnTheWay'  BY <2>1 DEF Counted, Handles, OnTheWay
    <2> QED  BY <2>2, <2>3, <2>4
  <1>2. CASE FastTimer
    <2>1. /\ UNCHANGED <<c_pcb, is_connected, fed, ready, polled, server, toClient>>
          /\ pc = "fasttmr" /\ pc' = "slowtmr" /\ pc' \in Places
          /\ timer' \in [fast : BOOLEAN, slow : BOOLEAN, odd : BOOLEAN]
      BY <1>2 DEF FastTimer, Goto, Others, Places
    <2>2. CASE UNCHANGED <<pcb, toServer>>
      <3>1. Others' /\ Block'  BY <2>1, <2>2 DEF Others, Block
      <3>2. Counted' /\ Handles' /\ OnTheWay'  BY <2>1, <2>2 DEF Counted, Handles, OnTheWay
      <3> QED  BY <3>1, <3>2
    <2>3. CASE pcb.allocated /\ Answer(pcb)
      <3>1. /\ Sane(pcb') /\ pcb'.state = pcb.state /\ pcb'.callbacks = pcb.callbacks
            /\ pcb'.fin = pcb.fin /\ pcb'.snd_lbb = pcb.snd_lbb
            /\ toServer' \subseteq SeqNum /\ \A s \in toServer' : s < pcb.snd_lbb
            /\ pcb'.allocated = pcb.allocated
            /\ Live(pcb', server.rcv_nxt) /\ Timed(pcb')
        BY <2>3, AnswerFacts, Numbers DEF Block, Others, OnTheWay
      <3>2. Others' /\ Block'  BY <2>1, <3>1 DEF Others, Block
      <3>3. Counted' /\ Handles' /\ OnTheWay'  BY <2>1, <3>1 DEF Counted, Handles, OnTheWay
      <3> QED  BY <3>2, <3>3
    <2> QED  BY <1>2, <2>2, <2>3 DEF FastTimer
  <1>3. CASE tcp_slowtmr
    <2>1. /\ UNCHANGED <<c_pcb, is_connected, fed, ready, polled, server, toClient>>
          /\ pc = "slowtmr" /\ pc' = "input" /\ pc' \in Places
          /\ timer' \in [fast : BOOLEAN, slow : BOOLEAN, odd : BOOLEAN]
          /\ pcb.allocated /\ ~ GivenUp(pcb) /\ Answer(Serve(pcb))
      BY <1>3 DEF tcp_slowtmr, Goto, Others, Places
    <2>2. /\ Sane(Serve(pcb)) /\ Live(Serve(pcb), server.rcv_nxt)
          /\ Serve(pcb).state = pcb.state /\ Serve(pcb).allocated = pcb.allocated
          /\ Serve(pcb).callbacks = pcb.callbacks /\ Serve(pcb).fin = pcb.fin
          /\ Serve(pcb).snd_lbb = pcb.snd_lbb
      <3>1. /\ Sane(pcb) /\ Live(pcb, server.rcv_nxt) /\ Timed(pcb)
            /\ server.rcv_nxt \in Nat
        BY <2>1, Numbers DEF Block
      <3> QED  BY ZenonT(60), <2>1, <3>1, ServeFacts
    <2>3. /\ Sane(pcb') /\ pcb'.state = pcb.state /\ pcb'.callbacks = pcb.callbacks
          /\ pcb'.fin = pcb.fin /\ pcb'.snd_lbb = pcb.snd_lbb
          /\ toServer' \subseteq SeqNum /\ \A s \in toServer' : s < pcb.snd_lbb
          /\ Live(pcb', server.rcv_nxt) /\ Timed(pcb')
      BY <2>1, <2>2, AnswerFacts, Numbers DEF Others, OnTheWay
    <2>4. Others' /\ Block'  BY <2>1, <2>3 DEF Others, Block
    <2>5. Counted' /\ OnTheWay'  BY <2>1, <2>3 DEF Counted, OnTheWay
    <2>6. Handles'  BY <2>1, <2>3 DEF Handles
    <2> QED  BY <2>4, <2>5, <2>6
  <1> QED  BY <1>1, <1>2, <1>3

\* The end of the block: given up by the timer, and the callback for it.
LEMMA RemovalSteps ==
  ASSUME IInv, tcp_slowtmr_remove \/ tcp_client_err
  PROVE  IInv'
  <1> USE DEF IInv
  <1>1. CASE tcp_slowtmr_remove
    <2>1. /\ UNCHANGED <<c_pcb, is_connected, fed, ready, polled, server, toServer, toClient>>
          /\ pc = "slowtmr" /\ pc' \in Places /\ pc' # "wait"
          /\ (pc' = "errf" => pcb.callbacks)
          /\ timer' \in [fast : BOOLEAN, slow : BOOLEAN, odd : BOOLEAN]
          /\ pcb' = Freed(pcb)
      BY <1>1 DEF tcp_slowtmr_remove, Goto, Others, Places
    <2>2. /\ Sane(pcb') /\ ~ pcb'.allocated /\ pcb'.state = pcb.state
          /\ pcb'.callbacks = pcb.callbacks
          /\ pcb'.fin = pcb.fin /\ pcb'.snd_lbb = pcb.snd_lbb
      BY <2>1, FreedFacts DEF Block
    <2>3. Others' /\ Block'  BY <2>1, <2>2 DEF Others, Block
    <2>4. Counted' /\ Handles' /\ OnTheWay'  BY <2>1, <2>2 DEF Counted, Handles, OnTheWay
    <2> QED  BY <2>3, <2>4
  <1>2. CASE tcp_client_err
    <2> DEFINE q == tcp_client_close(pcb, "FIN_WAIT_1")
    <2>1. /\ UNCHANGED <<timer, is_connected, fed, ready, polled, server, toClient>>
          /\ pc = "errf" /\ pc' = "input" /\ pc' \in Places /\ c_pcb' = "NULL"
      BY <1>2 DEF tcp_client_err, Goto, Places
    <2>2. pcb.callbacks /\ ~ pcb.allocated /\ c_pcb = "pcb"  BY <2>1 DEF Handles
    <2>3. ~ pcb.fin  BY <2>2 DEF Block, Sane
    <2>4. Sane(q) /\ q.fin /\ ~ q.callbacks /\ ~ q.allocated /\ q.snd_lbb = pcb.snd_lbb + 1
      BY <2>2, <2>3, CloseFacts, Numbers DEF Block
    <2>5. Answer(q)  BY <1>2, <2>2 DEF tcp_client_err
    <2>6. \A s \in toServer : s < q.snd_lbb
      BY <2>4, Numbers, Fields DEF Others, OnTheWay
    <2> HIDE DEF q
    <2>7. /\ Sane(pcb') /\ ~ pcb'.callbacks /\ ~ pcb'.allocated
          /\ pcb'.fin /\ pcb'.snd_lbb = pcb.snd_lbb + 1
          /\ toServer' \subseteq SeqNum /\ \A s \in toServer' : s < pcb'.snd_lbb
      BY <2>4, <2>5, <2>6, AnswerFacts DEF Others
    <2>8. Others' /\ Block'  BY <2>1, <2>7 DEF Others, Block
    <2>9. Counted'  BY <2>1, <2>3, <2>7, Numbers DEF Counted
    <2>10. Handles'  BY <2>1, <2>7 DEF Handles
    <2>11. OnTheWay'  BY <2>1, <2>3, <2>7, Numbers DEF OnTheWay
    <2> QED  BY <2>8, <2>9, <2>10, <2>11
  <1> QED  BY <1>1, <1>2

\* A segment that opens the connection, or none or one that ends it.
LEMMA OpeningSteps ==
  ASSUME IInv, NEW m \in toClient, Connected(m) \/ HalfOpen(m)
  PROVE  IInv'
  <1> USE DEF IInv
  <1>1. /\ UNCHANGED <<timer, fed, ready, polled>>
        /\ pc = "input" /\ pc' = "poll" /\ pc' \in Places
        /\ toClient' \subseteq toClient /\ pcb.allocated /\ pcb.state = "SYN_SENT"
    BY DEF Connected, HalfOpen, Receive, Take, Goto, Places
  <1>2. /\ Sane(pcb) /\ Live(pcb, server.rcv_nxt) /\ server.rcv_nxt \in Nat
        /\ toServer \subseteq SeqNum /\ \A s \in toServer : s < pcb.snd_lbb
    BY <1>1, Numbers DEF Block, Others, OnTheWay
  <1>3. CASE Connected(m)
    <2> DEFINE q == tcp_client_connected(pcb)
    <2>1. 1 <= server.rcv_nxt  BY <1>3 DEF Connected, OnTheWay
    <2>2. /\ Sane(q) /\ Live(q, server.rcv_nxt) /\ q.state = "ESTABLISHED"
          /\ q.allocated = pcb.allocated /\ q.fin = pcb.fin /\ q.snd_lbb = pcb.snd_lbb
      BY <1>1, <1>2, <2>1, ConnectedFacts
    <2>3. /\ Answer(q) /\ c_pcb' = "pcb" /\ is_connected' = TRUE /\ UNCHANGED server
      BY <1>3 DEF Connected, Receive
    <2> HIDE DEF q
    <2>4. /\ Sane(pcb') /\ pcb'.state = "ESTABLISHED"
          /\ pcb'.fin = pcb.fin /\ pcb'.snd_lbb = pcb.snd_lbb
          /\ toServer' \subseteq SeqNum /\ \A s \in toServer' : s < pcb.snd_lbb
          /\ Live(pcb', server.rcv_nxt) /\ Timed(pcb')
      BY <1>2, <2>2, <2>3, AnswerFacts
    <2>5. Others' /\ Block'  BY <1>1, <2>3, <2>4 DEF Others, Block
    <2>6. Counted' /\ Handles' /\ OnTheWay'
      BY <1>1, <2>3, <2>4 DEF Counted, Handles, OnTheWay
    <2> QED  BY <2>5, <2>6
  <1>4. CASE HalfOpen(m)
    <2> DEFINE q == IF pcb.nrtx < TCP_SYNMAXRTX THEN Requeued(pcb) ELSE pcb
    <2>1. /\ Sane(q) /\ Live(q, server.rcv_nxt) /\ q.state = pcb.state
          /\ q.allocated = pcb.allocated /\ q.callbacks = pcb.callbacks
          /\ q.fin = pcb.fin /\ q.snd_lbb = pcb.snd_lbb
      <3>1. CASE pcb.nrtx < TCP_SYNMAXRTX
        <4>1. pcb.nrtx + 1 <= TCP_MAXRTX + TCP_SYNMAXRTX  BY <1>2, <3>1, Fields
        <4>2. Queue(pcb) # {}  BY <1>1, <1>2 DEF Live
        <4>3. q = Requeued(pcb)  BY <3>1
        <4> HIDE DEF q
        <4> QED  BY <1>2, <4>1, <4>2, <4>3, RequeuedFacts
      <3>2. CASE ~ (pcb.nrtx < TCP_SYNMAXRTX)  BY <1>2, <3>2
      <3> QED  BY <3>1, <3>2
    <2>2. Answer(q)  BY <1>4 DEF HalfOpen
    <2>3. /\ UNCHANGED <<c_pcb, is_connected>>
          /\ server' = [server EXCEPT !.state = "GONE"]
      BY <1>4 DEF HalfOpen
    <2> HIDE DEF q
    <2>4. /\ Sane(pcb') /\ pcb'.state = pcb.state /\ pcb'.callbacks = pcb.callbacks
          /\ pcb'.fin = pcb.fin /\ pcb'.snd_lbb = pcb.snd_lbb
          /\ toServer' \subseteq SeqNum /\ \A s \in toServer' : s < pcb.snd_lbb
          /\ Live(pcb', server.rcv_nxt) /\ Timed(pcb')
      BY <1>2, <2>1, <2>2, AnswerFacts
    <2>5. /\ server'.rcv_nxt = server.rcv_nxt /\ server'.ended = server.ended
          /\ server' \in [state : {"LISTEN", "OPEN", "CLOSED", "GONE"}, rcv_nxt : SeqNum,
                          ended : BOOLEAN]
      BY <2>3 DEF Others
    <2>6. Others' /\ Block'  BY <1>1, <2>3, <2>4, <2>5 DEF Others, Block
    <2>7. Counted' /\ Handles' /\ OnTheWay'
      BY <1>1, <2>3, <2>4, <2>5 DEF Counted, Handles, OnTheWay
    <2> QED  BY <2>6, <2>7
  <1> QED  BY <1>3, <1>4

\* A reset, and segments that find no block.
LEMMA ResetSteps ==
  ASSUME IInv, NEW m \in toClient, Reset(m) \/ Unmatched(m)
  PROVE  IInv'
  <1> USE DEF IInv
  <1>1. /\ UNCHANGED <<timer, fed, ready, polled, is_connected, toServer>>
        /\ pc = "input" /\ pc' = "poll" /\ pc' \in Places
        /\ toClient' \subseteq toClient
    BY DEF Reset, Unmatched, Receive, Take, Goto, Places
  <1>2. CASE Reset(m)
    <2> DEFINE p == IF pcb.callbacks THEN tcp_client_close(pcb, "FIN_WAIT_1") ELSE pcb
               f == Freed(p)
    <2>1. /\ Sane(p) /\ ~ p.callbacks
          /\ \/ p.snd_lbb = pcb.snd_lbb /\ p.fin = pcb.fin
             \/ p.snd_lbb = pcb.snd_lbb + 1 /\ p.fin /\ ~ pcb.fin
      <3>1. CASE pcb.callbacks
        <4>1. ~ pcb.fin  BY <3>1 DEF Block, Sane
        <4>2. p = tcp_client_close(pcb, "FIN_WAIT_1")  BY <3>1
        <4> HIDE DEF p
        <4> QED  BY <4>1, <4>2, CloseFacts, Numbers DEF Block
      <3>2. CASE ~ pcb.callbacks
        <4>1. p = pcb  BY <3>2
        <4> HIDE DEF p
        <4> QED  BY <3>2, <4>1 DEF Block
      <3> QED  BY <3>1, <3>2
    <2> HIDE DEF p
    <2>2. /\ Sane([f EXCEPT !.state = "CLOSED"]) /\ ~ f.allocated
          /\ ~ f.callbacks /\ f.fin = p.fin /\ f.snd_lbb = p.snd_lbb /\ f \in Pcb
      BY <2>1, FreedFacts DEF Sane
    <2>3. pcb' = [f EXCEPT !.state = "CLOSED"] /\ UNCHANGED server
          /\ c_pcb' = IF pcb.callbacks THEN "NULL" ELSE c_pcb
      BY <1>2 DEF Reset, Receive, p
    <2> HIDE DEF f
    <2>4. /\ Sane(pcb') /\ ~ pcb'.allocated /\ ~ pcb'.callbacks
          /\ pcb'.fin = p.fin /\ pcb'.snd_lbb = p.snd_lbb /\ pcb'.state = "CLOSED"
      BY <2>2, <2>3 DEF Pcb
    <2>5. Others' /\ Block'  BY <1>1, <2>3, <2>4 DEF Others, Block
    <2>6. Handles'  BY <1>1, <2>3, <2>4 DEF Handles
    <2>7. Counted'  BY <1>1, <2>1, <2>4, Numbers DEF Counted
    <2>8. OnTheWay'
      <3>1. pcb.snd_lbb <= pcb'.snd_lbb /\ pcb'.snd_lbb \in Nat
        BY <2>1, <2>4, Numbers
      <3>2. \A s \in toServer : s \in Nat /\ s < pcb.snd_lbb
        BY Fields DEF Others, Block, OnTheWay
      <3>3. server.rcv_nxt <= pcb'.snd_lbb /\ \A s \in toServer : s < pcb'.snd_lbb
        BY <3>1, <3>2, Numbers DEF OnTheWay
      <3>4. server.ended => pcb'.fin /\ server.rcv_nxt = pcb'.snd_lbb
        BY <2>1, <2>4 DEF OnTheWay
      <3> QED  BY <1>1, <2>3, <3>3, <3>4 DEF OnTheWay
    <2> QED  BY <2>5, <2>6, <2>7, <2>8
  <1>3. CASE Unmatched(m)
    <2>1. UNCHANGED <<pcb, c_pcb>> /\ ~ pcb.allocated
      BY <1>3 DEF Unmatched
    <2>2. /\ server'.rcv_nxt = server.rcv_nxt /\ server'.ended = server.ended
          /\ server' \in [state : {"LISTEN", "OPEN", "CLOSED", "GONE"}, rcv_nxt : SeqNum,
                          ended : BOOLEAN]
      BY <1>3 DEF Unmatched, Others
    <2>3. Others' /\ Block'  BY <1>1, <2>1, <2>2 DEF Others, Block
    <2>4. Counted' /\ Handles' /\ OnTheWay'
      BY <1>1, <2>1, <2>2 DEF Counted, Handles, OnTheWay
    <2> QED  BY <2>3, <2>4
  <1> QED  BY <1>2, <1>3

\* An acknowledgement, which may be late, and the server's FIN.
LEMMA AcknowledgedStep ==
  ASSUME IInv, NEW m \in toClient, Acknowledged(m)
  PROVE  IInv'
  <1> USE DEF IInv
  <1> DEFINE p == tcp_receive(pcb, m.ack)
  <1>1. /\ UNCHANGED <<timer, fed, ready, polled, server, c_pcb, is_connected>>
        /\ pc = "input" /\ pc' = "poll" /\ pc' \in Places
        /\ toClient' \subseteq toClient /\ pcb.allocated /\ pcb.state # "SYN_SENT"
    BY DEF Acknowledged, Receive, Take, Goto, Places
  <1>2. /\ Sane(pcb) /\ Live(pcb, server.rcv_nxt) /\ Timed(pcb)
        /\ server.rcv_nxt \in Nat /\ server.rcv_nxt <= pcb.snd_lbb
        /\ m.ack \in SeqNum /\ m.ack <= server.rcv_nxt
        /\ toServer \subseteq SeqNum /\ \A s \in toServer : s < pcb.snd_lbb
    BY <1>1, Numbers DEF Block, Others, OnTheWay
  <1>3. /\ Sane(p) /\ Live(p, server.rcv_nxt) /\ Timed(p)
        /\ p.state = pcb.state /\ p.allocated = pcb.allocated
        /\ p.callbacks = pcb.callbacks /\ p.fin = pcb.fin /\ p.snd_lbb = pcb.snd_lbb
    <2>1. p = tcp_receive(pcb, m.ack)  OBVIOUS
    <2>2. PICK a \in SeqNum : a = m.ack  BY <1>2
    <2>3. PICK r \in Nat : r = server.rcv_nxt  BY <1>2
    <2>4. p = tcp_receive(pcb, a) /\ Live(pcb, r) /\ a <= r  BY <1>2, <2>1, <2>2, <2>3
    <2> HIDE DEF p
    <2>5. /\ Sane(p) /\ Live(p, r) /\ Timed(p)
          /\ p.state = pcb.state /\ p.allocated = pcb.allocated
          /\ p.callbacks = pcb.callbacks /\ p.fin = pcb.fin /\ p.snd_lbb = pcb.snd_lbb
      <3> HIDE DEF IInv
      <3>1. Sane(pcb) /\ Timed(pcb) /\ pcb.state # "SYN_SENT"  BY <1>1, <1>2
      <3> QED  BY <2>4, <3>1, ReceiveFacts
    <2> QED  BY <2>3, <2>5
  <1>4. \/ /\ Closed(p, m) /\ pcb' = [Freed(p) EXCEPT !.state = "CLOSED"]
           /\ UNCHANGED toServer
        \/ p.state = "ESTABLISHED" /\ Answer(tcp_client_close(p, "LAST_ACK"))
        \/ Answer(p)
    BY DEF Acknowledged
  <1> HIDE DEF p
  <1>5. CASE Closed(p, m) /\ pcb' = [Freed(p) EXCEPT !.state = "CLOSED"]
             /\ UNCHANGED toServer
    <2> DEFINE f == Freed(p)
    <2>1. ~ p.callbacks  BY <1>3, <1>5 DEF Closed, Sane
    <2>2. /\ Sane([f EXCEPT !.state = "CLOSED"]) /\ ~ f.allocated
          /\ ~ f.callbacks /\ f.fin = p.fin /\ f.snd_lbb = p.snd_lbb /\ f \in Pcb
      BY <1>3, <2>1, FreedFacts DEF Sane
    <2>3. pcb' = [f EXCEPT !.state = "CLOSED"]  BY <1>5
    <2> HIDE DEF f
    <2>4. /\ Sane(pcb') /\ ~ pcb'.allocated /\ ~ pcb'.callbacks /\ pcb'.state = "CLOSED"
          /\ pcb'.fin = pcb.fin /\ pcb'.snd_lbb = pcb.snd_lbb
      BY <1>3, <2>2, <2>3 DEF Pcb
    <2>5. Others' /\ Block'  BY <1>1, <1>5, <2>4 DEF Others, Block
    <2>6. Counted' /\ Handles' /\ OnTheWay'
      BY <1>1, <1>5, <2>4 DEF Counted, Handles, OnTheWay
    <2> QED  BY <2>5, <2>6
  <1>6. CASE p.state = "ESTABLISHED" /\ Answer(tcp_client_close(p, "LAST_ACK"))
    <2> DEFINE q == tcp_client_close(p, "LAST_ACK")
    <2>1. ~ p.fin /\ p.snd_lbb <= MaxOrders + 1  BY <1>3, <1>6, Numbers DEF Sane
    <2>2. /\ Sane(q) /\ q.fin /\ ~ q.callbacks /\ q.state = "LAST_ACK"
          /\ q.snd_lbb = pcb.snd_lbb + 1 /\ Live(q, server.rcv_nxt)
      BY <1>1, <1>2, <1>3, <2>1, CloseFacts
    <2>3. \A s \in toServer : s < q.snd_lbb
      BY <1>2, <2>2, Fields
    <2>4. Answer(q)  BY <1>6
    <2> HIDE DEF q
    <2>5. /\ Sane(pcb') /\ ~ pcb'.callbacks /\ pcb'.state = "LAST_ACK"
          /\ pcb'.fin /\ pcb'.snd_lbb = pcb.snd_lbb + 1
          /\ toServer' \subseteq SeqNum /\ \A s \in toServer' : s < pcb'.snd_lbb
          /\ Live(pcb', server.rcv_nxt) /\ Timed(pcb')
      BY <1>2, <2>2, <2>3, <2>4, AnswerFacts
    <2>6. Others' /\ Block'  BY <1>1, <2>5 DEF Others, Block
    <2>7. Counted' /\ Handles' /\ OnTheWay'
      BY <1>1, <1>3, <2>1, <2>5, Numbers DEF Counted, Handles, OnTheWay
    <2> QED  BY <2>6, <2>7
  <1>7. CASE Answer(p)
    <2>1. /\ Sane(pcb') /\ pcb'.state = pcb.state /\ pcb'.callbacks = pcb.callbacks
          /\ pcb'.fin = pcb.fin /\ pcb'.snd_lbb = pcb.snd_lbb
          /\ toServer' \subseteq SeqNum /\ \A s \in toServer' : s < pcb.snd_lbb
          /\ Live(pcb', server.rcv_nxt) /\ Timed(pcb')
      BY <1>2, <1>3, <1>7, AnswerFacts
    <2>2. Others' /\ Block'  BY <1>1, <2>1 DEF Others, Block
    <2>3. Counted' /\ OnTheWay'  BY <1>1, <2>1 DEF Counted, OnTheWay
    <2>4. Handles'  BY <1>1, <2>1 DEF Handles
    <2> QED  BY <2>2, <2>3, <2>4
  <1> QED  BY <1>4, <1>5, <1>6, <1>7

\* A piece of the feed, or nothing, and the orders that the loop polls and writes.
LEMMA FeedSteps ==
  ASSUME IInv, NoInput \/ tcp_client_recv \/ NoOrder \/ Poll \/ Write
  PROVE  IInv'
  <1> USE DEF IInv
  <1>1. CASE NoInput \/ NoOrder
    <2>1. /\ UNCHANGED <<timer, pcb, c_pcb, is_connected, fed, ready, polled, server,
                         toServer, toClient>>
          /\ pc # "wait" /\ pc' \in {"poll", "fasttmr"} /\ pc' \in Places
      BY <1>1 DEF NoInput, NoOrder, Goto, Places
    <2>2. Others' /\ Block'  BY <2>1 DEF Others, Block
    <2>3. Counted' /\ Handles' /\ OnTheWay'  BY <2>1 DEF Counted, Handles, OnTheWay
    <2> QED  BY <2>2, <2>3
  <1>2. CASE tcp_client_recv
    <2>1. /\ UNCHANGED <<timer, c_pcb, is_connected, ready, polled, server, toClient>>
          /\ pc = "input" /\ pc' = "poll" /\ pc' \in Places
          /\ pcb.allocated /\ fed < MaxOrders /\ fed' \in {fed, fed + 1} /\ Answer(pcb)
      BY <1>2 DEF tcp_client_recv, Goto, Places
    <2>2. /\ Sane(pcb') /\ pcb'.state = pcb.state /\ pcb'.callbacks = pcb.callbacks
          /\ pcb'.fin = pcb.fin /\ pcb'.snd_lbb = pcb.snd_lbb
          /\ toServer' \subseteq SeqNum /\ \A s \in toServer' : s < pcb.snd_lbb
          /\ Live(pcb', server.rcv_nxt) /\ Timed(pcb')
      BY <2>1, AnswerFacts, Numbers DEF Block, Others, OnTheWay
    <2>3. fed' \in 0 .. MaxOrders /\ ready \in 0 .. fed'  BY <2>1, Numbers
    <2>4. Others' /\ Block'  BY <2>1, <2>2, <2>3 DEF Others, Block
    <2>5. Counted' /\ OnTheWay'  BY <2>1, <2>2 DEF Counted, OnTheWay
    <2>6. Handles'  BY <2>1, <2>2 DEF Handles
    <2> QED  BY <2>4, <2>5, <2>6
  <1>3. CASE Poll
    <2>1. /\ UNCHANGED <<timer, pcb, c_pcb, is_connected, fed, ready, server,
                         toServer, toClient>>
          /\ pc = "poll" /\ pc' \in {"wait", "hang"} /\ pc' \in Places
          /\ polled < ready /\ polled' = polled + 1
      BY <1>3 DEF Poll, Goto, Places
    <2>2. polled' \in 0 .. ready  BY <2>1, Numbers
    <2>3. Others' /\ Block'  BY <2>1, <2>2 DEF Others, Block
    <2>4. Counted'
      <3>1. pcb.snd_lbb <= polled + 1 + (IF pcb.fin THEN 1 ELSE 0)
        BY <2>1, Numbers DEF Counted
      <3> QED  BY <2>1, <3>1, Numbers DEF Counted
    <2>5. Handles' /\ OnTheWay'  BY <2>1 DEF Handles, OnTheWay
    <2> QED  BY <2>3, <2>4, <2>5
  <1>4. CASE Write
    <2>1. /\ UNCHANGED <<timer, c_pcb, is_connected, fed, ready, polled, server,
                         toServer, toClient>>
          /\ pc = "wait" /\ pc' = "fasttmr" /\ pc' \in Places
      BY <1>4 DEF Write, Goto, Places
    <2>2. CASE UNCHANGED pcb
      <3>1. Others' /\ Block'  BY <2>1, <2>2 DEF Others, Block
      <3>2. Handles' /\ OnTheWay'  BY <2>1, <2>2 DEF Handles, OnTheWay
      <3>3. Counted'  BY <2>1, <2>2, Numbers DEF Counted
      <3> QED  BY <3>1, <3>2, <3>3
    <2>3. CASE c_pcb = "pcb" /\ pcb.snd_buf > 0 /\ pcb' = tcp_write(pcb)
      <3>1. pcb.state # "SYN_SENT"  BY <2>3 DEF Handles
      <3>2. MayWrite(pcb) => ~ pcb.fin  BY <3>1 DEF MayWrite, Block, Sane
      <3>3. Sane(pcb) /\ (MayWrite(pcb) => pcb.snd_lbb <= MaxOrders + 1)
        BY <3>2, Numbers DEF Block
      <3>4. /\ Sane(pcb') /\ pcb'.state = pcb.state /\ pcb'.allocated = pcb.allocated
            /\ pcb'.callbacks = pcb.callbacks /\ pcb'.fin = pcb.fin
            /\ IF pcb.state = "ESTABLISHED"
               THEN ~ pcb.fin /\ pcb'.snd_lbb = pcb.snd_lbb + 1
               ELSE pcb'.snd_lbb = pcb.snd_lbb
            /\ \A r \in Nat : Live(pcb, r) /\ Timed(pcb) /\ r <= pcb.snd_lbb
                                => Live(pcb', r) /\ Timed(pcb')
        BY <2>3, <3>1, <3>3, WriteFacts
      <3>5. server.rcv_nxt <= pcb.snd_lbb  BY DEF OnTheWay
      <3>6. Block'  BY <2>1, <3>4, <3>5, Numbers DEF Block
      <3>7. Others'  BY <2>1 DEF Others
      <3>8. Counted'  BY <2>1, <3>4, Numbers DEF Counted
      <3>9. Handles'  BY <2>1, <3>4 DEF Handles
      <3>10. pcb.snd_lbb <= pcb'.snd_lbb /\ pcb'.snd_lbb \in Nat
        BY <3>4, Numbers
      <3>11. \A s \in toServer : s \in Nat /\ s < pcb.snd_lbb
        BY Fields DEF Others, Block, OnTheWay
      <3>12. OnTheWay'
        <4>1. server.rcv_nxt <= pcb'.snd_lbb /\ \A s \in toServer : s < pcb'.snd_lbb
          BY <3>5, <3>10, <3>11, Numbers
        <4>2. server.ended => pcb'.fin /\ server.rcv_nxt = pcb'.snd_lbb
          BY <3>4 DEF OnTheWay
        <4> QED  BY <2>1, <4>1, <4>2 DEF OnTheWay
      <3> QED  BY <3>6, <3>7, <3>8, <3>9, <3>12
    <2> QED  BY <1>4, <2>2, <2>3 DEF Write
  <1> QED  BY <1>1, <1>2, <1>3, <1>4

\* The pipeline, the server and the network.
LEMMA EnvironmentSteps ==
  ASSUME IInv, Environment
  PROVE  IInv'
  <1> USE DEF IInv
  <1>1. CASE Produce
    <2>1. /\ UNCHANGED <<pc, timer, pcb, c_pcb, is_connected, fed, polled, server,
                         toServer, toClient>>
          /\ ready < fed /\ ready' = ready + 1
      BY <1>1 DEF Produce, board
    <2>2. ready' \in 0 .. fed /\ polled \in 0 .. ready'  BY <2>1, Numbers
    <2>3. Others' /\ Block'  BY <2>1, <2>2 DEF Others, Block
    <2>4. Counted' /\ Handles' /\ OnTheWay'  BY <2>1 DEF Counted, Handles, OnTheWay
    <2> QED  BY <2>3, <2>4
  <1>2. CASE ServerClose \/ ServerReset
    <2>1. UNCHANGED <<pc, timer, pcb, c_pcb, is_connected, fed, polled, ready, toServer>>
      BY <1>2 DEF ServerClose, ServerReset, board
    <2>2. PICK x \in {[kind |-> "FIN", ack |-> server.rcv_nxt], [kind |-> "RST", ack |-> 0]} :
            toClient' = toClient \cup {x}
      BY <1>2 DEF ServerClose, ServerReset
    <2>3. /\ server'.rcv_nxt = server.rcv_nxt /\ server'.ended = server.ended
          /\ server' \in [state : {"LISTEN", "OPEN", "CLOSED", "GONE"}, rcv_nxt : SeqNum,
                          ended : BOOLEAN]
      BY <1>2 DEF ServerClose, ServerReset, Others
    <2>4. /\ x \in Segment /\ x.ack <= server.rcv_nxt /\ x.kind # "SYNACK"
      BY Numbers, SizeAssumption DEF Segment, SeqNum
    <2>5. Others' /\ Block'  BY <2>1, <2>2, <2>3, <2>4 DEF Others, Block
    <2>6. OnTheWay'  BY <2>1, <2>2, <2>3, <2>4 DEF OnTheWay
    <2>7. Counted' /\ Handles'  BY <2>1 DEF Counted, Handles
    <2> QED  BY <2>5, <2>6, <2>7
  <1>3. ASSUME NEW s \in toServer, ServerReceive(s) PROVE IInv'
    <2>1. UNCHANGED <<pc, timer, pcb, c_pcb, is_connected, fed, polled, ready>>
          /\ toServer' = toServer \ {s}
      BY <1>3 DEF ServerReceive, board
    <2>2. s \in Nat /\ s \in SeqNum /\ s < pcb.snd_lbb
      BY Fields DEF Others, Block, OnTheWay
    <2>3. CASE server.state = "GONE"
      <3>1. /\ toClient' = toClient \cup {[kind |-> "RST", ack |-> 0]} /\ UNCHANGED server
        BY <1>3, <2>3 DEF ServerReceive
      <3>2. [kind |-> "RST", ack |-> 0] \in Segment /\ 0 <= server.rcv_nxt
        BY Numbers, SizeAssumption DEF Segment, SeqNum
      <3>3. Others' /\ Block'  BY <2>1, <3>1, <3>2 DEF Others, Block
      <3>4. OnTheWay'  BY <2>1, <3>1, <3>2 DEF OnTheWay
      <3>5. Counted' /\ Handles'  BY <2>1 DEF Counted, Handles
      <3> QED  BY <3>3, <3>4, <3>5
    <2>4. CASE server.state # "GONE"
      <3> DEFINE n == IF s = server.rcv_nxt THEN s + 1 ELSE server.rcv_nxt
      <3>1. /\ server' = [server EXCEPT !.rcv_nxt = n,
                            !.state = IF @ = "LISTEN" THEN "OPEN" ELSE @,
                            !.ended = @ \/ (pcb.fin /\ n = pcb.snd_lbb)]
            /\ toClient' = toClient \cup {Ack(n)}
        BY <1>3, <2>4 DEF ServerReceive
      <3>2. /\ n \in Nat /\ server.rcv_nxt <= n /\ n <= pcb.snd_lbb /\ n \in SeqNum
            /\ (server.ended => n = pcb.snd_lbb)
        <4>1. server.rcv_nxt <= pcb.snd_lbb
              /\ (server.ended => server.rcv_nxt = pcb.snd_lbb)
          BY DEF OnTheWay
        <4>2. pcb.snd_lbb <= MaxOrders + 2 /\ MaxOrders \in Nat
          BY Fields DEF Block, Sane, Pcb, SeqNum
        <4> QED  BY <2>2, <4>1, <4>2, Numbers DEF SeqNum
      <3> HIDE DEF n
      <3>3. /\ server'.rcv_nxt = n
            /\ (server'.ended <=> server.ended \/ (pcb.fin /\ n = pcb.snd_lbb))
            /\ server' \in [state : {"LISTEN", "OPEN", "CLOSED", "GONE"}, rcv_nxt : SeqNum,
                            ended : BOOLEAN]
        BY <3>1, <3>2 DEF Others
      <3>4. Ack(n) \in Segment /\ Ack(n).ack = n /\ (Ack(n).kind = "SYNACK" => 1 <= n)
        BY <3>2 DEF Ack, Segment
      <3>5. Others'  BY <2>1, <3>1, <3>3, <3>4 DEF Others
      <3>6. ASSUME Live(pcb, server.rcv_nxt) PROVE Live(pcb, n)
        <4>1. n .. pcb.snd_lbb - 1 \subseteq server.rcv_nxt .. pcb.snd_lbb - 1
          BY <3>2, Numbers
        <4> QED  BY <3>6, <4>1 DEF Live
      <3>7. Block'  BY <2>1, <3>3, <3>6 DEF Block
      <3>8. \A m \in toClient : m.ack <= n /\ (m.kind = "SYNACK" => 1 <= n)
        BY <3>2, Numbers DEF OnTheWay
      <3>9. OnTheWay'
        <4>1. server'.rcv_nxt <= pcb'.snd_lbb /\ \A t \in toServer' : t < pcb'.snd_lbb
          BY <2>1, <3>2, <3>3 DEF OnTheWay
        <4>2. \A m \in toClient' : m.ack <= n /\ (m.kind = "SYNACK" => 1 <= n)
          BY <3>1, <3>2, <3>4, <3>8
        <4>3. server'.ended => pcb.fin /\ n = pcb.snd_lbb
          BY <3>2, <3>3 DEF OnTheWay
        <4> QED  BY <2>1, <3>3, <4>1, <4>2, <4>3 DEF OnTheWay
      <3>10. Counted' /\ Handles'  BY <2>1 DEF Counted, Handles
      <3> QED  BY <3>5, <3>7, <3>9, <3>10
    <2> QED  BY <2>3, <2>4
  <1> QED  BY <1>1, <1>2, <1>3 DEF Environment

-----------------------------------------------------------------------------
(* The theorems.                                                           *)

LEMMA Initially == Init => IInv
  <1> SUFFICES ASSUME Init PROVE IInv
    OBVIOUS
  <1> USE DEF Init
  <1>1. SeqNum \subseteq Nat /\ {0, 1} \subseteq SeqNum /\ -1 < 0 /\ SndBuf \in Nat
        /\ RTO \in Nat /\ MaxOrders \in Nat
        /\ TCP_MAXRTX \in Nat /\ TCP_SYNMAXRTX \in Nat
    BY SizeAssumption DEF SeqNum
  <1>2. Others
    <2>1. /\ fed \in 0 .. MaxOrders /\ ready \in 0 .. fed /\ polled \in 0 .. ready
      BY <1>1
    <2>2. pc \in Places /\ timer \in [fast : BOOLEAN, slow : BOOLEAN, odd : BOOLEAN]
      BY DEF Places
    <2>3. /\ server \in [state : {"LISTEN", "OPEN", "CLOSED", "GONE"}, rcv_nxt : SeqNum,
                          ended : BOOLEAN]
          /\ toServer \subseteq SeqNum
      BY <1>1 DEF SYN
    <2> QED  BY <2>1, <2>2, <2>3 DEF Others
  <1>3. /\ pcb.state = "SYN_SENT" /\ pcb.allocated /\ ~ pcb.callbacks /\ ~ pcb.fin
        /\ pcb.unsent = {} /\ pcb.unacked = {0} /\ pcb.lastack = 0 /\ pcb.snd_nxt = 1
        /\ pcb.snd_lbb = 1 /\ pcb.snd_buf = SndBuf /\ pcb.rtime = 0
    BY DEF SYN
  <1>4. pcb \in Pcb
    <2>1. /\ SndBuf \in 0 .. SndBuf /\ 0 \in -1 .. RTO
          /\ 0 \in 0 .. TCP_MAXRTX + TCP_SYNMAXRTX
      BY <1>1
    <2>2. {SYN} \in SUBSET SeqNum /\ {} \in SUBSET SeqNum  BY <1>1 DEF SYN
    <2> QED  BY <1>1, <2>1, <2>2 DEF Pcb
  <1>5. Queue(pcb) = {0}  BY <1>3 DEF Queue
  <1>6. Sane(pcb)
    <2> HIDE DEF Init
    <2> QED  BY <1>3, <1>4, <1>5 DEF Sane
  <1>7. 0 .. pcb.snd_lbb - 1 = {0}  BY <1>3
  <1>8. server.rcv_nxt = 0  OBVIOUS
  <1>9. Live(pcb, server.rcv_nxt) /\ Timed(pcb)
    BY <1>3, <1>5, <1>7, <1>8 DEF Live, Timed, SYN
  <1>10. Counted /\ Handles  BY <1>3 DEF Counted, Handles
  <1>11. OnTheWay  BY <1>3 DEF OnTheWay, SYN
  <1> QED  BY <1>2, <1>6, <1>9, <1>10, <1>11 DEF IInv, Block

LEMMA Inductive == IInv /\ [Next]_vars => IInv'
  <1> SUFFICES ASSUME IInv, [Next]_vars PROVE IInv'
    OBVIOUS
  <1>1. CASE timer_callback \/ FastTimer \/ NoSlowTimer \/ tcp_slowtmr
    BY <1>1, TimerSteps
  <1>2. CASE tcp_slowtmr_remove \/ tcp_client_err
    BY <1>2, RemovalSteps
  <1>3. CASE NoInput \/ tcp_client_recv \/ NoOrder \/ Poll \/ Write
    BY <1>3, FeedSteps
  <1>4. ASSUME NEW m \in toClient,
               Connected(m) \/ HalfOpen(m) \/ Reset(m) \/ Acknowledged(m) \/ Unmatched(m)
        PROVE  IInv'
    BY <1>4, OpeningSteps, ResetSteps, AcknowledgedStep
  <1>5. CASE Environment
    BY <1>5, EnvironmentSteps
  <1>6. CASE UNCHANGED vars
    BY <1>6 DEF vars, IInv, Others, Block, Counted, Handles, OnTheWay
  <1> QED  BY <1>1, <1>2, <1>3, <1>4, <1>5, <1>6 DEF Next, Loop, Input

\* The five parts hold in every state that the program and lwIP reach.
THEOREM Invariance == Spec => []IInv
  <1> QED  BY Initially, Inductive, PTL DEF Spec

\* Every field of the control block and of the event loop stays in its range: in
\* particular the room in the send buffer neither becomes negative nor exceeds the
\* buffer (tcp_receive, tcp_write), and the retransmission timer never runs past
\* RTO (tcp_slowtmr).
THEOREM ControlBlockTyped == Spec => []TypeOK
  <1>1. IInv => TypeOK
    BY DEF IInv, Others, Block, Sane, Pcb, TypeOK
  <1> QED  BY <1>1, Invariance, PTL

\* No order leaves the queues before the server has it (tcp_receive,
\* tcp_rexmit_rto, tcp_close), and none stands in both.
THEOREM OrdersStayQueued == Spec => []OrdersKept
  <1>1. IInv => OrdersKept
    BY DEF IInv, Block, Sane, Live, Queue, OrdersKept
  <1> QED  BY <1>1, Invariance, PTL

\* The server sees the end of the stream behind every order that tcp_write has
\* accepted, whichever side closes first (tcp_client_close).
THEOREM EndIsLast == Spec => []EndAfterOrders
  <1>1. IInv => EndAfterOrders
    BY DEF IInv, OnTheWay, EndAfterOrders
  <1> QED  BY <1>1, Invariance, PTL

\* The room in the send buffer is exactly what the queued orders leave of it, after
\* any retransmissions and late acknowledgements, and the FIN takes none
\* (tcp_receive).  So when the busy loop before tcp_write finds no room, there are
\* orders that the server has yet to acknowledge.
RoomAccounted ==
  pcb.allocated /\ pcb.state # "SYN_SENT" =>
    /\ pcb.snd_buf + Cardinality(Queue(pcb) \ Fin(pcb)) = SndBuf
    /\ pcb.snd_buf = 0 => Queue(pcb) \ Fin(pcb) # {}

\* This holds whatever is lost or sent again (tcp_write, tcp_receive).
THEOREM RoomIsExact == Spec => []RoomAccounted
  <1>1. ASSUME IInv, pcb.allocated, pcb.state # "SYN_SENT"
        PROVE  /\ pcb.snd_buf + Cardinality(Queue(pcb) \ Fin(pcb)) = SndBuf
               /\ pcb.snd_buf = 0 => Queue(pcb) \ Fin(pcb) # {}
    <2>1. pcb.snd_buf + Cardinality(Queue(pcb) \ Fin(pcb)) = SndBuf
      BY <1>1 DEF IInv, Block, Live
    <2>2. Queue(pcb) \ Fin(pcb) = {} => Cardinality(Queue(pcb) \ Fin(pcb)) = 0
      BY FS_EmptySet
    <2> QED  BY <2>1, <2>2, SizeAssumption
  <1>2. IInv => RoomAccounted  BY <1>1 DEF RoomAccounted
  <1> QED  BY <1>2, Invariance, PTL
=============================================================================
