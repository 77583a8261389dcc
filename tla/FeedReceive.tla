------------------------------ MODULE FeedReceive ------------------------------
(***************************************************************************)
(* The way of the feed through the MicroBlaze: lwIP reassembles the        *)
(* server's segments, which the network may lose, repeat and reorder, and  *)
(* calls tcp_client_recv (main.c) with the bytes that are now in sequence, *)
(* as a chain of buffers; the callback opens the window and puts the bytes *)
(* to the parser.                                                          *)
(*                                                                         *)
(* A segment is known by its place in the stream, seqno and len; its bytes *)
(* are those of the feed at that place.  The ooseq queue is ordered by     *)
(* seqno and is a set here.  Each segment is one buffer: xemacif allocates *)
(* PBUF_POOL_BUFSIZE = 1700 bytes for a packet.  Sequence numbers are      *)
(* counted from the first byte of the feed and do not run round.           *)
(*                                                                         *)
(* Acknowledgement and window ride on what is sent.  The orders that the   *)
(* program sends the other way are TcpClient's; here a call of tcp_output  *)
(* may find one that Nagle's rule holds back, which holds back the         *)
(* acknowledgement with it.                                                *)
(***************************************************************************)
EXTENDS Integers, FiniteSetsExt

CONSTANTS
  FeedLen,      \* bound: bytes in the feed
  TCP_WND,      \* 2048 in lwipopts.h
  mss           \* TCP_MSS, 1460 in lwipopts.h

ASSUME SizeAssumption == FeedLen \in Nat /\ {TCP_WND, mss} \subseteq Nat \ {0}

VARIABLES
  rcv_nxt, rcv_wnd, rcv_ann_right_edge,
  delay,        \* TF_ACK_DELAY of pcb->flags
  ack_now,      \* TF_ACK_NOW of pcb->flags
  withheld,     \* history: tcp_output kept back an acknowledgement that was due,
                \* and nothing has been sent since
  ooseq,
  chain,        \* the segments in the last chain that was passed to the callback
  put           \* the bytes that the callback has put to the parser

ack == <<rcv_ann_right_edge, delay, ack_now, withheld>>

vars == <<rcv_nxt, rcv_wnd, ooseq, chain, put, ack>>

Segment == [seqno : Nat, len : Nat \ {0}]
End(g) == g.seqno + g.len
Bytes(g) == g.seqno .. End(g) - 1

TypeOK ==
  /\ rcv_nxt \in Nat /\ rcv_wnd \in 0 .. TCP_WND /\ rcv_ann_right_edge \in Nat
  /\ {delay, ack_now, withheld} \subseteq BOOLEAN
  /\ ooseq \subseteq Segment /\ chain \subseteq Segment
  /\ put \subseteq Nat

-----------------------------------------------------------------------------
(* Trimming segments.                                                      *)

\* The part of g before position s, as pbuf_realloc leaves it.
Until(g, s) == IF End(g) > s THEN [g EXCEPT !.len = s - g.seqno] ELSE g

\* The part of g from position s on.
From(g, s) == IF g.seqno < s THEN [seqno |-> s, len |-> End(g) - s] ELSE g

\* The segments of a queue that g does not cover.
Beyond(queue, g) == {n \in queue : End(n) > End(g)}

\* Mutant: nothing is trimmed.
Trimmed_not(g, rest) == g

\* g up to the first of the segments that are left.
Trimmed(g, rest) == IF rest = {} THEN g ELSE Until(g, Min({n.seqno : n \in rest}))

\* g stands before the segments next; those that it covers are deleted.
tcp_oos_insert_segment(g, next) ==
  {Trimmed(g, Beyond(next, g))} \cup Beyond(next, g)

\* Mutant: the segment before g is not trimmed.
Queued_overlapping(g) ==
  IF \E n \in ooseq : n.seqno = g.seqno /\ n.len >= g.len THEN ooseq
  ELSE {m \in ooseq : m.seqno < g.seqno}
         \cup tcp_oos_insert_segment(g, {m \in ooseq : m.seqno >= g.seqno})

\* Mutant: the segment with the same seqno is trimmed, to nothing.
Queued_empty(g) ==
  IF \E n \in ooseq : n.seqno = g.seqno /\ n.len >= g.len THEN ooseq
  ELSE {Until(n, g.seqno) : n \in {m \in ooseq : m.seqno <= g.seqno}}
         \cup tcp_oos_insert_segment(g, {m \in ooseq : m.seqno > g.seqno})

\* Of two segments with one seqno the longer is kept; the one before g is trimmed.
Queued(g) ==
  IF \E n \in ooseq : n.seqno = g.seqno /\ n.len >= g.len THEN ooseq
  ELSE {Until(n, g.seqno) : n \in {m \in ooseq : m.seqno < g.seqno}}
         \cup tcp_oos_insert_segment(g, {m \in ooseq : m.seqno >= g.seqno})

\* A segment in sequence, g: what it leaves of the queue, what is passed of it,
\* and which queued segments follow without a gap.
Left(g) == Beyond(ooseq, g)
First(g) == Trimmed(g, Left(g))
Follow(g) ==
  {n \in Left(g) :
     \A b \in End(First(g)) .. n.seqno - 1 : \E m \in Left(g) : b \in Bytes(m)}
Chain(g) == {First(g)} \cup Follow(g)
Last(g) == Max({End(n) : n \in Chain(g)})

-----------------------------------------------------------------------------
(* Acknowledgements and the window.                                        *)

MayAnnounce(right_edge) ==
  right_edge >= rcv_ann_right_edge + Min({TCP_WND \div 2, mss})

\* tcp_update_rcv_ann_wnd: the right edge, rcv_nxt + rcv_ann_wnd, that the next
\* segment tells the server.
RightEdge(right_edge) ==
  IF MayAnnounce(right_edge) THEN right_edge
  ELSE Max({rcv_nxt', rcv_ann_right_edge})

\* tcp_recved: an explicit update is due when the edge moves by the threshold.
UpdateDue(right_edge) ==
  /\ MayAnnounce(right_edge)
  /\ right_edge - rcv_ann_right_edge >= Min({TCP_WND \div 4, 4 * mss})

\* A segment to the server carries both: an empty one or one with an order.
SendAck ==
  /\ delay' = FALSE /\ ack_now' = FALSE /\ withheld' = FALSE
  /\ rcv_ann_right_edge' = RightEdge(rcv_nxt' + rcv_wnd')

\* The first order in unsent fits the server's window, so no empty segment is sent
\* for the acknowledgement; but an order before it is not acknowledged yet, and
\* Nagle's rule ends the loop before its first turn.
NagleHolds ==
  /\ withheld' = TRUE
  /\ UNCHANGED rcv_ann_right_edge

\* tcp_output with TF_ACK_NOW set.
Acknowledge(delayed) ==
  \/ SendAck
  \/ NagleHolds /\ delay' = delayed /\ ack_now' = TRUE

\* Mutant: the callback says that it has read the first buffer's len.
Read_first(first, passed) == first

\* What tcp_client_recv tells tcp_recved: tot_len, the bytes in the chain.
Read(first, passed) == passed

-----------------------------------------------------------------------------
(* A segment arrives.                                                      *)

\* tcp_receive for g with seqno = rcv_nxt, then tcp_client_recv, then tcp_output.
\* tcp_ack delays the first acknowledgement and asks for the second at once.
InSequence(g) ==
  LET passed == Last(g) - rcv_nxt
      wnd == Min({rcv_wnd - passed + Read(First(g).len, passed), TCP_WND})
  IN  /\ chain' = Chain(g)
      /\ ooseq' = Left(g) \ Follow(g)
      /\ rcv_nxt' = Last(g)
      /\ rcv_wnd' = wnd
      /\ put' = put \cup Bytes(First(g))
      /\ \/ /\ ack_now \/ delay \/ UpdateDue(rcv_nxt' + wnd)
            /\ Acknowledge(~ delay)
         \/ /\ ~ ack_now /\ ~ delay /\ ~ UpdateDue(rcv_nxt' + wnd)
            /\ delay' = TRUE
            /\ UNCHANGED <<rcv_ann_right_edge, ack_now, withheld>>

\* A segment above rcv_nxt is queued, unless no memory is left for it.  It is
\* answered with tcp_send_empty_ack, whatever stands in unsent; so is a duplicate.
OutOfSequence(g) ==
  /\ ooseq' \in {Queued(g), ooseq}
  /\ UNCHANGED <<rcv_nxt, rcv_wnd, chain, put>>
  /\ SendAck

Duplicate ==
  /\ UNCHANGED <<rcv_nxt, rcv_wnd, ooseq, chain, put>>
  /\ SendAck

tcp_receive(s) ==
  LET g == From(s, rcv_nxt)
  IN  \/ End(s) <= rcv_nxt /\ Duplicate
      \/ End(s) > rcv_nxt /\ g.seqno = rcv_nxt /\ InSequence(g)
      \/ End(s) > rcv_nxt /\ g.seqno > rcv_nxt /\ OutOfSequence(g)

\* The server keeps to what it has been told it may send.
Sent == {s \in [seqno : 0 .. FeedLen - 1, len : 1 .. FeedLen] :
           End(s) <= FeedLen /\ End(s) <= rcv_ann_right_edge}

Received == <<rcv_nxt, rcv_wnd, ooseq, chain, put>>

\* A segment with an order goes out, for whatever reason TcpClient has.
tcp_output ==
  /\ UNCHANGED Received
  /\ SendAck

\* The server asks with a segment without data, outside the window.
Probe ==
  /\ UNCHANGED Received
  /\ Acknowledge(delay)

\* The fast timer: the flags are cleared, whether anything was sent or not.
tcp_fasttmr ==
  /\ delay
  /\ UNCHANGED Received
  /\ \/ SendAck
     \/ NagleHolds /\ delay' = FALSE /\ ack_now' = FALSE

\* The slow timer drops what has waited too long in the queue.
tcp_slowtmr ==
  /\ ooseq # {} /\ ooseq' = {}
  /\ UNCHANGED <<rcv_nxt, rcv_wnd, chain, put, ack>>

\* The connection is established and the server has been told the window.
Init ==
  /\ rcv_nxt = 0 /\ rcv_wnd = TCP_WND /\ rcv_ann_right_edge = TCP_WND
  /\ delay = FALSE /\ ack_now = FALSE /\ withheld = FALSE
  /\ ooseq = {} /\ chain = {} /\ put = {}

Next ==
  \/ tcp_output \/ Probe \/ tcp_fasttmr \/ tcp_slowtmr
  \/ \E s \in Sent : tcp_receive(s)

Spec == Init /\ [][Next]_vars

-----------------------------------------------------------------------------
(* Properties.                                                             *)

\* However segments are lost, repeated, reordered and cut anew, the queue holds no
\* byte twice and nothing that is in sequence already: a segment at or below
\* rcv_nxt would never be looked at again and would hide all that stand behind it.
OoseqOrdered ==
  \A m \in ooseq :
    /\ m.seqno > rcv_nxt
    /\ \A n \in ooseq : n.seqno >= m.seqno => n = m \/ n.seqno >= End(m)

\* The chain that the callback gets is the stream's next bytes, without a gap and
\* without a byte twice.
Reassembles ==
  rcv_nxt' # rcv_nxt =>
    /\ UNION {Bytes(n) : n \in chain'} = rcv_nxt .. rcv_nxt' - 1
    /\ \A m, n \in chain' : m = n \/ Bytes(m) \cap Bytes(n) = {}

FeedReassembled == [][Reassembles]_vars

\* The callback reads all, and the server learns it in time: unless Nagle's rule
\* keeps an acknowledgement back, at least half of the window stays open.  In every
\* case what is announced lies between what has arrived and what lwIP would take.
WindowStaysOpen ==
  /\ rcv_ann_right_edge \in rcv_nxt .. rcv_nxt + rcv_wnd
  /\ ~ withheld => rcv_ann_right_edge - rcv_nxt >= TCP_WND - TCP_WND \div 2

\* tcp.c, tcp_recved: the window is opened by what the application has read.  All
\* bytes that lwIP acknowledges reach the parser.
NothingSkipped == put = 0 .. rcv_nxt - 1
=============================================================================
