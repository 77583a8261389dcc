------------------------------ MODULE ItchLink ------------------------------
(***************************************************************************)
(* ItchParser between the two sides of its AXI-Streams.                    *)
(*                                                                         *)
(* The source is tcp_client_recv of the MicroBlaze program (main.c): it    *)
(* puts the bytes of the feed one by one.  putfslx(.., FSL_NONBLOCKING)    *)
(* shows a byte for one clock and goes on whether or not ready_o was high. *)
(* With Paced a clock without a byte follows every byte, as in a software  *)
(* loop; otherwise bytes may come back to back.  IdleBytes is what the bus *)
(* may carry in a clock without a byte.                                    *)
(*                                                                         *)
(* The sink is the order book, which takes a word when it gets round to    *)
(* its non-blocking read: after at most StallLimit clocks, or, when        *)
(* StallLimit is 0, after any number.                                      *)
(***************************************************************************)
EXTENDS ItchParser, SequencesExt

CONSTANTS
  Messages,    \* the messages that may be the n-th of the feed, for each n
  Paced,       \* BOOLEAN
  IdleBytes,
  StallLimit

ASSUME LinkAssumption ==
  /\ Messages \in Seq(SUBSET Seq(Byte))
  /\ Paced \in BOOLEAN
  /\ IdleBytes \subseteq Byte
  /\ StallLimit \in Nat

VARIABLES
  feed,     \* the messages put so far, the last one perhaps in part
  put,      \* bytes of the last message that the source is done with
  source,   \* "free", or "resting" a clock
  stalled,  \* clocks the current word has waited, counted when StallLimit > 0
  taken     \* words the sink has taken

linkVars == <<parserVars, feed, put, source, stalled, taken>>

AllPut == IF feed = <<>> THEN TRUE ELSE put = Len(Last(feed))

\* The source shows byte b of message m, accepted or refused and dropped.
Show(m, b, tready) ==
  /\ Clock(TRUE, m[b], tready)
  /\ put' = b
  /\ source' = IF Paced THEN "resting" ELSE "free"

NextByte(tready) ==
  /\ ~AllPut
  /\ source = "free"
  /\ Show(Last(feed), put + 1, tready)
  /\ UNCHANGED feed

FirstByte(tready) ==
  /\ AllPut
  /\ source = "free"
  /\ Len(feed) < Len(Messages)
  /\ \E m \in Messages[Len(feed) + 1] :
       /\ feed' = Append(feed, m)
       /\ Show(m, 1, tready)

Idle(tready) ==
  /\ \E data \in IdleBytes : Clock(FALSE, data, tready)
  /\ source' = "free"
  /\ UNCHANGED <<feed, put>>

\* tready matters only while a word is offered.
Sink(tready) ==
  /\ ~m_axis.tvalid => tready
  /\ m_axis.tvalid /\ StallLimit > 0 /\ stalled = StallLimit => tready
  /\ taken' = IF m_axis.tvalid /\ tready THEN taken + 1 ELSE taken
  /\ stalled' = IF m_axis.tvalid /\ ~tready /\ StallLimit > 0 THEN stalled + 1 ELSE 0

LinkInit ==
  /\ Init
  /\ feed = <<>>
  /\ put = 0
  /\ source = "free"
  /\ stalled = 0
  /\ taken = 0

PutStep == \E tready \in BOOLEAN : (NextByte(tready) \/ FirstByte(tready)) /\ Sink(tready)
IdleStep == \E tready \in BOOLEAN : Idle(tready) /\ Sink(tready)

LinkNext == PutStep \/ IdleStep

TakeStep == (NextByte(TRUE) \/ FirstByte(TRUE) \/ Idle(TRUE)) /\ Sink(TRUE) /\ m_axis.tvalid

\* The clock runs; the program keeps putting the bytes it has; the book keeps
\* coming back to its read.
LinkFairness ==
  /\ WF_linkVars(LinkNext)
  /\ WF_linkVars(PutStep)
  /\ WF_linkVars(TakeStep)

LinkSpec == LinkInit /\ [][LinkNext]_linkVars
FairLinkSpec == LinkSpec /\ LinkFairness

-----------------------------------------------------------------------------
(* Properties.                                                             *)

\* Bytes lo .. lo + 3 of message m, counted from its type byte, as a register.
FieldOf(m, lo) == SubSeq(m, lo + 3, lo + 6)
TypeOf(m) == m[3]
ZeroField == FieldOf(<<0, 0, 0, 0, 0, 0, 0>>, 0)

\* The order word that ITCH 5.0 means by message m, at the offsets of its own
\* layouts: add (A, F), execution (E, C), cancel (X), delete (D).
Meaning(m) ==
  LET type == TypeOf(m)
      add == type \in {MESSAGE_TYPE_A, MESSAGE_TYPE_F}
  IN  [field |->
         [f \in Field |->
            CASE f = "order_ref_num" -> FieldOf(m, 15)
              [] f = "num_shares" /\ add -> FieldOf(m, 20)
              [] f = "num_shares" /\ ~add /\ type # MESSAGE_TYPE_D -> FieldOf(m, 19)
              [] f = "stock_id" /\ add -> FieldOf(m, 24)
              [] f = "price" /\ (add \/ type = MESSAGE_TYPE_C) -> FieldOf(m, 32)
              [] OTHER -> ZeroField],
       order_type |-> OrderType(type),
       buy_sell |-> IF add THEN m[22] % 2 ELSE 0]

\* Messages that change the book: the six types, less non-printable executions.
IsOrder(m) ==
  /\ TypeOf(m) \in MessageTypes
  /\ ~(TypeOf(m) = MESSAGE_TYPE_C /\ m[34] = 78)

\* The order messages of a feed.
OrdersIn(messages) ==
  LET upTo[n \in 0 .. Len(messages)] ==
        IF n = 0 THEN <<>>
        ELSE IF IsOrder(messages[n]) THEN Append(upTo[n - 1], messages[n])
        ELSE upTo[n - 1]
  IN  upTo[Len(messages)]

Orders == OrdersIn(feed)

\* The word offered is the meaning of the next order message of the feed: none
\* is lost, repeated, reordered, torn or made up, whatever the sink's stalls do
\* to the framing.
WordsAreTheFeed ==
  m_axis.tvalid => /\ taken < Len(Orders)
                   /\ m_axis.tdata = Meaning(Orders[taken + 1])

\* When the source is between messages and the bus is quiet, the order messages of
\* the feed are all accounted for: complete in the parser, at its output, in the
\* wrapper, or taken.
Count(b) == IF b THEN 1 ELSE 0
NoOrderLost ==
  AllPut /\ ~bus.valid =>
    taken + Count(m_axis.tvalid) + Count(valid_o)
      + Count(current_state = "PARSE_MSG" /\ byte_counter = message_length) = Len(Orders)

\* Every order message of the feed is taken by the book in the end.
EveryOrderTaken ==
  \A n \in DOMAIN Messages : (Len(Orders) >= n) ~> (taken >= n)
=============================================================================
