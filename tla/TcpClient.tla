------------------------------ MODULE TcpClient ------------------------------
(***************************************************************************)
(* The MicroBlaze program, HW/SDK/tcp_client: its event loop, the timer    *)
(* interrupt, the callbacks it registers, and the parts of lwIP that they  *)
(* drive: the life of the one control block and the queues of unsent and   *)
(* unacknowledged segments.                                                *)
(*                                                                         *)
(* Data is counted in order messages of TCP_SEND_BUFSIZE bytes: sequence   *)
(* number 0 is the SYN, 1, 2, .. are orders, and the FIN takes a number of *)
(* its own.  A segment holds one of them.  The queues are ordered by       *)
(* sequence number and are sets here.  Windows are left out: the server's  *)
(* window and the congestion window only decide how many segments go out   *)
(* at a time.  The server and the network are the environment: the server  *)
(* may close or reset, and segments are reordered; one that is lost is one *)
(* that never comes to be received, which nothing here forces.             *)
(***************************************************************************)
EXTENDS Integers, FiniteSets, FiniteSetsExt

CONSTANTS
  MaxOrders,      \* bound: orders that the feed makes the pipeline produce
  SndBuf,         \* TCP_SND_BUF in orders: 41 in lwipopts.h
  RTO,            \* slow ticks to a retransmission; its backoff is left out
  TCP_MAXRTX,     \* retransmissions before a connection is given up
  TCP_SYNMAXRTX   \* and before a connection attempt is

ASSUME SizeAssumption ==
  /\ {MaxOrders, SndBuf, RTO} \subseteq Nat \ {0}
  /\ {TCP_MAXRTX, TCP_SYNMAXRTX} \subseteq Nat

VARIABLES
  pc,           \* where the event loop stands
  timer,        \* TcpFastTmrFlag, TcpSlowTmrFlag and the interrupt's odd
  pcb,          \* the control block that setup_client_conn creates
  c_pcb,        \* the program's handle of it: "pcb" or "NULL"
  is_connected,
  fed,          \* orders that the received feed gives rise to
  ready,        \* orders that have come out of the pipeline
  polled,       \* orders that the event loop has read
  server,       \* the server's end of the connection
  toServer,     \* segments on the way to the server: sequence numbers
  toClient      \* segments on the way to the board

program == <<pc, timer, pcb, c_pcb, is_connected, polled>>
vars == <<pc, timer, pcb, c_pcb, is_connected, fed, ready, polled, server,
          toServer, toClient>>

SYN == 0
SeqNum == 0 .. MaxOrders + 2
Segment == [kind : {"SYNACK", "ACK", "FIN", "RST"}, ack : SeqNum]

\* In the order of the loop; wait is the busy loop before tcp_write, and hang the
\* same loop on a value that nothing changes.
Places == {"fasttmr", "slowtmr", "errf", "input", "poll", "wait", "hang"}

TypeOK ==
  /\ pc \in Places
  /\ timer \in [fast : BOOLEAN, slow : BOOLEAN, odd : BOOLEAN]
  /\ pcb \in [state : {"SYN_SENT", "ESTABLISHED", "LAST_ACK", "FIN_WAIT_1", "CLOSED"},
              allocated : BOOLEAN, callbacks : BOOLEAN, fin : BOOLEAN,
              unsent : SUBSET SeqNum, unacked : SUBSET SeqNum,
              lastack : SeqNum, snd_nxt : SeqNum, snd_lbb : SeqNum,
              snd_buf : 0 .. SndBuf, rtime : -1 .. RTO,
              nrtx : 0 .. TCP_MAXRTX + TCP_SYNMAXRTX]
  /\ c_pcb \in {"pcb", "NULL"}
  /\ is_connected \in BOOLEAN
  /\ fed \in 0 .. MaxOrders /\ ready \in 0 .. fed /\ polled \in 0 .. ready
  /\ server \in [state : {"LISTEN", "OPEN", "CLOSED", "GONE"}, rcv_nxt : SeqNum,
                 ended : BOOLEAN]
  /\ toServer \subseteq SeqNum
  /\ toClient \subseteq Segment

-----------------------------------------------------------------------------
(* lwIP, tcp_out.c.                                                        *)

\* What one call of tcp_output sends: everything, except that Nagle's rule keeps
\* back the last segment while others are unacknowledged and no FIN is queued.
Sendable(p) ==
  IF p.fin \/ (p.unacked = {} /\ Cardinality(p.unsent) = 1) THEN p.unsent
  ELSE {s \in p.unsent : \E t \in p.unsent : s < t}

tcp_output(p) ==
  LET sent == Sendable(p)
  IN  [p EXCEPT !.unsent = @ \ sent, !.unacked = @ \cup sent,
                !.snd_nxt = Max({@} \cup {s + 1 : s \in sent}),
                !.rtime = IF sent # {} /\ @ < 0 THEN 0 ELSE @]

\* tcp_rexmit_rto up to its call of tcp_output.
Requeued(p) ==
  [p EXCEPT !.unsent = @ \cup p.unacked, !.unacked = {}, !.nrtx = @ + 1, !.rtime = 0]

MayWrite(p) == p.state \in {"ESTABLISHED", "SYN_SENT"}

\* Mutant: no check of the state.
tcp_write_unchecked(p) ==
  [p EXCEPT !.unsent = @ \cup {p.snd_lbb}, !.snd_lbb = @ + 1, !.snd_buf = @ - 1]

\* The order is queued, or the call fails with ERR_CONN.
tcp_write(p) ==
  IF MayWrite(p)
  THEN [p EXCEPT !.unsent = @ \cup {p.snd_lbb}, !.snd_lbb = @ + 1, !.snd_buf = @ - 1]
  ELSE p

tcp_send_fin(p) ==
  [p EXCEPT !.unsent = @ \cup {p.snd_lbb}, !.snd_lbb = @ + 1, !.fin = TRUE]

-----------------------------------------------------------------------------
(* lwIP, tcp.c and tcp_in.c, and the callbacks of main.c.                  *)

tcp_pcb_purge(p) == [p EXCEPT !.unsent = {}, !.unacked = {}, !.rtime = -1]

\* Removed from the active list and freed; the memory keeps its contents.
Freed(p) == [tcp_pcb_purge(p) EXCEPT !.allocated = FALSE]

\* Mutant: the end of the feed is noticed but the connection is not closed.
tcp_client_close_ignored(p, state) == [p EXCEPT !.callbacks = FALSE]

\* The callbacks are cleared, and tcp_close queues a FIN.  The application has
\* acknowledged all data by then, so no reset is sent.
tcp_client_close(p, state) ==
  [tcp_send_fin(p) EXCEPT !.callbacks = FALSE, !.state = state]

\* Mutant: the segment that the server waits for is taken for acknowledged.
Acked_one_more(p, a) == {s \in p.unsent \cup p.unacked : s <= a}

Acked(p, a) == {s \in p.unsent \cup p.unacked : s < a}

\* Mutant: the number of the FIN is counted as room for an order.
tcp_receive_fin_counted(p, a) ==
  LET acked == Acked(p, a)
      q == [p EXCEPT !.unsent = @ \ acked, !.unacked = @ \ acked,
                     !.snd_buf = @ + Cardinality(acked)]
  IN  IF a > p.snd_nxt THEN p
      ELSE IF a <= p.lastack THEN q
      ELSE [q EXCEPT !.lastack = a, !.nrtx = 0,
                     !.rtime = IF q.unacked = {} THEN -1 ELSE 0]

\* An acknowledgement clears both queues: after a retransmission segments that
\* were sent before stand in the unsent queue.
tcp_receive(p, a) ==
  IF a > p.snd_nxt THEN p
  ELSE LET acked == Acked(p, a)
           q == [p EXCEPT !.unsent = @ \ acked, !.unacked = @ \ acked,
                          !.snd_buf = @ + Cardinality(
                            acked \ (IF p.fin THEN {p.snd_lbb - 1} ELSE {}))]
       IN  IF a <= p.lastack THEN q
           ELSE [q EXCEPT !.lastack = a, !.nrtx = 0,
                          !.rtime = IF q.unacked = {} THEN -1 ELSE 0]

tcp_client_connected(p) ==
  [p EXCEPT !.state = "ESTABLISHED", !.lastack = 1, !.unsent = @ \ {SYN},
            !.unacked = @ \ {SYN}, !.rtime = -1, !.callbacks = TRUE]

\* Every segment that reaches the block ends with a call of tcp_output.
Answer(p) ==
  /\ pcb' = tcp_output(p)
  /\ toServer' = toServer \cup Sendable(p)

-----------------------------------------------------------------------------
(* The event loop.                                                         *)

Goto(place) == pc' = place

\* The timer interrupt.  A tick in the middle of a handler is lost, as is one that
\* finds its flag set: the flag is cleared after the call.
timer_callback ==
  /\ timer' = [fast |-> TRUE, slow |-> timer.slow \/ ~ timer.odd, odd |-> ~ timer.odd]
  /\ UNCHANGED <<pc, pcb, c_pcb, is_connected, fed, ready, polled, server,
                 toServer, toClient>>

\* tcp_fasttmr sends a delayed acknowledgement, if there is one, by tcp_output.
FastTimer ==
  /\ pc = "fasttmr" /\ Goto("slowtmr")
  /\ timer' = [timer EXCEPT !.fast = FALSE]
  /\ \/ timer.fast /\ pcb.allocated /\ pcb.state = "ESTABLISHED" /\ Answer(pcb)
     \/ UNCHANGED <<pcb, toServer>>
  /\ UNCHANGED <<c_pcb, is_connected, fed, ready, polled, server, toClient>>

NoSlowTimer ==
  /\ pc = "slowtmr" /\ Goto("input")
  /\ ~ timer.slow \/ ~ pcb.allocated
  /\ timer' = [timer EXCEPT !.slow = FALSE]
  /\ UNCHANGED <<pcb, c_pcb, is_connected, fed, ready, polled, server, toServer, toClient>>

GivenUp(p) ==
  p.nrtx >= (IF p.state = "SYN_SENT" THEN TCP_SYNMAXRTX ELSE TCP_MAXRTX)

\* A retransmission when it is due; then, as no poll interval is set, tcp_output.
Serve(p) ==
  LET q == IF p.rtime < 0 THEN p ELSE [p EXCEPT !.rtime = @ + 1]
  IN  IF q.unacked # {} /\ q.rtime >= RTO THEN Requeued(q) ELSE q

\* Mutant: no tcp_output for what has never been sent.
tcp_slowtmr_no_poll ==
  /\ pc = "slowtmr" /\ timer.slow /\ pcb.allocated /\ ~ GivenUp(pcb)
  /\ Goto("input")
  /\ timer' = [timer EXCEPT !.slow = FALSE]
  /\ IF Serve(pcb).nrtx > pcb.nrtx THEN Answer(Serve(pcb))
     ELSE pcb' = Serve(pcb) /\ UNCHANGED toServer
  /\ UNCHANGED <<c_pcb, is_connected, fed, ready, polled, server, toClient>>

tcp_slowtmr ==
  /\ pc = "slowtmr" /\ timer.slow /\ pcb.allocated /\ ~ GivenUp(pcb)
  /\ Goto("input")
  /\ timer' = [timer EXCEPT !.slow = FALSE]
  /\ Answer(Serve(pcb))
  /\ UNCHANGED <<c_pcb, is_connected, fed, ready, polled, server, toClient>>

\* Too many retransmissions, or 2 MSL in LAST_ACK: the block is freed, and then
\* the error callback, if one is set, is called.
tcp_slowtmr_remove ==
  /\ pc = "slowtmr" /\ timer.slow /\ pcb.allocated
  /\ GivenUp(pcb) \/ pcb.state = "LAST_ACK"
  /\ timer' = [timer EXCEPT !.slow = FALSE]
  /\ Goto(IF pcb.callbacks THEN "errf" ELSE "input")
  /\ pcb' = Freed(pcb)
  /\ UNCHANGED <<c_pcb, is_connected, fed, ready, polled, server, toServer, toClient>>

\* tcp_client_err, called by tcp_slowtmr.  The segment that tcp_close queues goes
\* out at once and is never looked at again: the block is on no list.
tcp_client_err ==
  /\ pc = "errf" /\ Goto("input")
  /\ IF c_pcb = "pcb"
     THEN Answer(tcp_client_close(pcb, "FIN_WAIT_1"))
     ELSE UNCHANGED <<pcb, toServer>>
  /\ c_pcb' = "NULL"
  /\ UNCHANGED <<timer, is_connected, fed, ready, polled, server, toClient>>

\* xemacif_input finds no packet.
NoInput ==
  /\ pc = "input" /\ Goto("poll")
  /\ UNCHANGED <<timer, pcb, c_pcb, is_connected, fed, ready, polled, server,
                 toServer, toClient>>

Take(m) ==
  /\ pc = "input" /\ Goto("poll")
  /\ m \in toClient /\ toClient' = toClient \ {m}
  /\ UNCHANGED <<timer, fed, ready, polled>>

Receive(m) == Take(m) /\ pcb.allocated /\ UNCHANGED server

Connected(m) ==
  /\ Receive(m) /\ pcb.state = "SYN_SENT" /\ m.kind = "SYNACK"
  /\ Answer(tcp_client_connected(pcb))
  /\ c_pcb' = "pcb" /\ is_connected' = TRUE

\* A segment without SYN: the server is reset, and the SYN is sent again.
HalfOpen(m) ==
  /\ Take(m) /\ pcb.allocated /\ pcb.state = "SYN_SENT" /\ m.kind \in {"ACK", "FIN"}
  /\ server' = [server EXCEPT !.state = "GONE"]
  /\ IF pcb.nrtx < TCP_SYNMAXRTX THEN Answer(Requeued(pcb)) ELSE Answer(pcb)
  /\ UNCHANGED <<c_pcb, is_connected>>

\* The callback is called before the block is freed; it closes it, but within
\* tcp_input nothing is sent, and the FIN is purged with the queues.
Reset(m) ==
  /\ Receive(m) /\ m.kind = "RST"
  /\ pcb' = [Freed(IF pcb.callbacks THEN tcp_client_close(pcb, "FIN_WAIT_1") ELSE pcb)
               EXCEPT !.state = "CLOSED"]
  /\ c_pcb' = IF pcb.callbacks THEN "NULL" ELSE c_pcb
  /\ UNCHANGED <<is_connected, toServer>>

\* The acknowledgement of our FIN frees the block; the callbacks were cleared.
Closed(p, m) == p.state = "LAST_ACK" /\ m.ack = p.snd_nxt /\ p.unsent = {}

Acknowledged(m) ==
  /\ Receive(m) /\ pcb.state # "SYN_SENT" /\ m.kind # "RST"
  /\ LET p == tcp_receive(pcb, m.ack)
     IN  \/ /\ Closed(p, m)
            /\ pcb' = [Freed(p) EXCEPT !.state = "CLOSED"]
            /\ UNCHANGED toServer
         \/ ~ Closed(p, m) /\ m.kind = "FIN" /\ p.state = "ESTABLISHED"
            /\ Answer(tcp_client_close(p, "LAST_ACK"))
         \/ ~ Closed(p, m) /\ (m.kind # "FIN" \/ p.state # "ESTABLISHED")
            /\ Answer(p)
  /\ UNCHANGED <<c_pcb, is_connected>>

\* No control block: the segment is answered with a reset.
Unmatched(m) ==
  /\ Take(m) /\ ~ pcb.allocated
  /\ server' = IF m.kind = "RST" THEN server ELSE [server EXCEPT !.state = "GONE"]
  /\ UNCHANGED <<pcb, c_pcb, is_connected, toServer>>

\* A piece of the feed: tcp_client_recv passes it on, and it may make the pipeline
\* produce an order.
tcp_client_recv ==
  /\ pc = "input" /\ Goto("poll")
  /\ pcb.allocated /\ pcb.callbacks /\ server.state = "OPEN"
  /\ fed < MaxOrders /\ fed' \in {fed, fed + 1}
  /\ Answer(pcb)
  /\ UNCHANGED <<timer, c_pcb, is_connected, ready, polled, server, toClient>>

NoOrder ==
  /\ pc = "poll" /\ polled = ready /\ Goto("fasttmr")
  /\ UNCHANGED <<timer, pcb, c_pcb, is_connected, fed, ready, polled, server,
                 toServer, toClient>>

\* ngetfsl finds a word and the rest of the message is read.  What tcp_sndbuf makes
\* of a NULL handle depends on the memory at address 0, which does not change.
Poll ==
  /\ pc = "poll" /\ polled < ready /\ polled' = polled + 1
  /\ Goto("wait") \/ (c_pcb = "NULL" /\ Goto("hang"))
  /\ UNCHANGED <<timer, pcb, c_pcb, is_connected, fed, ready, server, toServer, toClient>>

\* The busy loop ends and tcp_write is called.  The call of tcp_output behind it is
\* commented out.
Write ==
  /\ pc = "wait" /\ Goto("fasttmr")
  /\ \/ c_pcb = "pcb" /\ pcb.snd_buf > 0 /\ pcb' = tcp_write(pcb)
     \/ c_pcb = "NULL" /\ UNCHANGED pcb
  /\ UNCHANGED <<timer, c_pcb, is_connected, fed, ready, polled, server, toServer, toClient>>

-----------------------------------------------------------------------------
(* The environment: the pipeline, the server's operating system, the       *)
(* network.                                                                *)

board == <<pc, timer, pcb, c_pcb, is_connected, fed, polled>>

Produce ==
  /\ ready < fed /\ ready' = ready + 1
  /\ UNCHANGED <<board, server, toServer, toClient>>

Ack(n) == [kind |-> IF n = 1 THEN "SYNACK" ELSE "ACK", ack |-> n]

\* A segment in sequence is taken, any other is answered with what is expected.
ServerReceive(s) ==
  /\ s \in toServer /\ toServer' = toServer \ {s}
  /\ IF server.state = "GONE"
     THEN /\ toClient' = toClient \cup {[kind |-> "RST", ack |-> 0]}
          /\ UNCHANGED server
     ELSE LET n == IF s = server.rcv_nxt THEN s + 1 ELSE server.rcv_nxt
          IN  /\ server' = [server EXCEPT !.rcv_nxt = n,
                              !.state = IF @ = "LISTEN" THEN "OPEN" ELSE @,
                              !.ended = @ \/ (pcb.fin /\ n = pcb.snd_lbb)]
              /\ toClient' = toClient \cup {Ack(n)}
  /\ UNCHANGED <<board, ready>>

ServerClose ==
  /\ server.state = "OPEN"
  /\ server' = [server EXCEPT !.state = "CLOSED"]
  /\ toClient' = toClient \cup {[kind |-> "FIN", ack |-> server.rcv_nxt]}
  /\ UNCHANGED <<board, ready, toServer>>

\* The process is killed, or closes its socket with data unread.
ServerReset ==
  /\ server.state \in {"OPEN", "CLOSED"}
  /\ server' = [server EXCEPT !.state = "GONE"]
  /\ toClient' = toClient \cup {[kind |-> "RST", ack |-> 0]}
  /\ UNCHANGED <<board, ready, toServer>>

\* setup_client_conn has called tcp_connect, which has sent the SYN.
Init ==
  /\ pc = "fasttmr"
  /\ timer = [fast |-> FALSE, slow |-> FALSE, odd |-> TRUE]
  /\ pcb = [state |-> "SYN_SENT", allocated |-> TRUE, callbacks |-> FALSE,
            fin |-> FALSE, unsent |-> {}, unacked |-> {SYN}, lastack |-> 0,
            snd_nxt |-> 1, snd_lbb |-> 1, snd_buf |-> SndBuf, rtime |-> 0, nrtx |-> 0]
  /\ c_pcb = "NULL" /\ is_connected = FALSE
  /\ fed = 0 /\ ready = 0 /\ polled = 0
  /\ server = [state |-> "LISTEN", rcv_nxt |-> 0, ended |-> FALSE]
  /\ toServer = {SYN} /\ toClient = {}

Input ==
  \/ NoInput \/ tcp_client_recv
  \/ \E m \in toClient : Connected(m) \/ HalfOpen(m) \/ Reset(m) \/ Acknowledged(m) \/ Unmatched(m)

Loop ==
  \/ FastTimer \/ NoSlowTimer \/ tcp_slowtmr \/ tcp_slowtmr_remove \/ tcp_client_err
  \/ Input \/ NoOrder \/ Poll \/ Write

Environment ==
  \/ Produce \/ ServerClose \/ ServerReset
  \/ \E s \in toServer : ServerReceive(s)

Next == timer_callback \/ Loop \/ Environment

Spec == Init /\ [][Next]_vars

\* The interrupt keeps coming, the program keeps running, and the server's FIN
\* arrives in the end.  Nothing is assumed of any other segment.
FinArrives ==
  \E m \in toClient :
    m.kind = "FIN" /\ (HalfOpen(m) \/ Acknowledged(m) \/ Unmatched(m))

Fairness ==
  WF_vars(timer_callback) /\ WF_vars(Loop) /\ SF_vars(FinArrives)

FairSpec == Spec /\ Fairness

-----------------------------------------------------------------------------
(* Properties.                                                             *)

\* No order leaves the queues before the server has it, whatever is lost,
\* retransmitted, or acknowledged out of order, and none stands in both queues.
OrdersKept ==
  /\ pcb.allocated =>
       (server.rcv_nxt .. pcb.snd_lbb - 1) \subseteq pcb.unsent \cup pcb.unacked
  /\ pcb.unsent \cap pcb.unacked = {}

\* Closing is orderly: when the server sees the end of the stream it has every
\* order that tcp_write has accepted, those written while the FIN was on its way
\* included.
EndAfterOrders == server.ended => server.rcv_nxt = pcb.snd_lbb

\* The busy loop that waits for room in a full send buffer (main.c:251) never ends:
\* it serves no timer and takes no acknowledgement.
Stuck == pc = "wait" /\ c_pcb = "pcb" /\ pcb.snd_buf = 0

\* What tcp_write has accepted reaches the server, though the program never calls
\* tcp_output: the slow timer does.  It may be lost only with the connection, or
\* when an order more than the buffer holds stops the program.
EveryOrderArrives ==
  \A n \in 1 .. MaxOrders :
    pcb.snd_lbb > n ~> (server.rcv_nxt > n \/ ~ pcb.allocated \/ Stuck)

\* When the server has closed the connection, the program closes its side and lwIP
\* frees the control block, though acknowledgements may be lost for ever, unless the
\* program waits for room in the buffer.  (If the server's host is gone meanwhile the
\* connection stays half open: no keep-alive is set.)
ClosedBlockFreed ==
  server.state = "CLOSED" ~> (~ pcb.allocated \/ server.state = "GONE" \/ Stuck)

\* main.c: the busy loop before tcp_write ends right away.
RoomComes == pc = "wait" ~> pc # "wait"
=============================================================================
