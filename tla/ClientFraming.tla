---------------------------- MODULE ClientFraming ----------------------------
(***************************************************************************)
(* The receive loop of SW/test_tcp_client.py.  The feed is a stream of     *)
(* messages of two bytes of length and a body; recv hands it over in       *)
(* pieces of any size, cut anywhere.  Bytes are known by their positions:  *)
(* the data in hand are those from pos up to received.  What a message     *)
(* does to the book is SoftwareBook's.                                     *)
(***************************************************************************)
EXTENDS Integers, SequencesExt

CONSTANTS
  Start,              \* where each message starts; last, the end of the feed
  PUBLISH_THRESHOLD,
  MaxGarbage          \* bound on what two bytes that are no length are read as

ASSUME FramingAssumption ==
  /\ Start \in Seq(Nat) /\ Len(Start) >= 1 /\ Start[1] = 0
  /\ \A i, j \in DOMAIN Start : i < j => Start[i] + 3 <= Start[j]
  /\ PUBLISH_THRESHOLD \in Nat \ {0}
  /\ MaxGarbage \in Nat

VARIABLES
  pos, received,       \* the data in hand
  num_bytes_to_skip,
  order_count,
  running,
  cuts,                \* history: where pieces have ended
  handled,             \* history: messages decoded and passed to the book
  published            \* history: the message after which each snapshot was taken

recvVars == <<received, cuts>>
orderVars == <<order_count, handled, published>>
vars == <<pos, num_bytes_to_skip, running, recvVars, orderVars>>

Message == 1 .. Len(Start) - 1
FeedEnd == Start[Len(Start)]
Held == received - pos
Boundaries == {Start[i] : i \in DOMAIN Start}
Body(i) == Start[i + 1] - Start[i] - 2

TypeOK ==
  /\ received \in 0 .. FeedEnd
  /\ pos \in 0 .. received
  /\ num_bytes_to_skip \in Nat
  /\ order_count \in 0 .. PUBLISH_THRESHOLD - 1
  /\ running \in BOOLEAN
  /\ cuts \in SUBSET (0 .. FeedEnd)
  /\ handled \in Seq(Message)
  /\ published \in Seq(Message \cup {0})

Init ==
  /\ pos = 0 /\ received = 0
  /\ num_bytes_to_skip = 0
  /\ order_count = 0
  /\ running = TRUE
  /\ cuts = {} /\ handled = <<>> /\ published = <<>>

\* The outer loop, once the data are used up.
Recv ==
  /\ running /\ Held = 0
  /\ \E n \in received + 1 .. FeedEnd :
       received' = n /\ cuts' = cuts \cup {n}
  /\ UNCHANGED <<pos, num_bytes_to_skip, running, orderVars>>

\* The server has closed, or the connection fails.
Disconnect ==
  /\ running /\ Held = 0
  /\ running' = FALSE
  /\ UNCHANGED <<pos, num_bytes_to_skip, recvVars, orderVars>>

SkipPiece ==
  /\ running /\ Held > 0
  /\ num_bytes_to_skip > Held
  /\ num_bytes_to_skip' = num_bytes_to_skip - Held
  /\ pos' = received
  /\ UNCHANGED <<running, recvVars, orderVars>>

SkipRest ==
  /\ running /\ Held > 0
  /\ num_bytes_to_skip \in 1 .. Held
  /\ pos' = pos + num_bytes_to_skip
  /\ num_bytes_to_skip' = 0
  /\ UNCHANGED <<running, recvVars, orderVars>>

\* A lone byte of a length is dropped: data is overwritten by the next recv.
DropByte ==
  /\ running /\ Held = 1 /\ num_bytes_to_skip = 0
  /\ pos' = received
  /\ UNCHANGED <<num_bytes_to_skip, running, recvVars, orderVars>>

\* What the next two bytes say: a length, or anything.
LengthsAt(p) ==
  IF p \in Boundaries THEN {Body(i) : i \in {j \in Message : Start[j] = p}}
  ELSE 0 .. MaxGarbage

\* Mutant: the two bytes of the length are not counted as being in hand.
CutMessage_whole_length ==
  /\ running /\ Held >= 2 /\ num_bytes_to_skip = 0
  /\ \E length \in LengthsAt(pos) :
       /\ length > Held - 2
       /\ num_bytes_to_skip' = length - Held
  /\ pos' = received
  /\ UNCHANGED <<running, recvVars, orderVars>>

\* A message that goes on past the piece: its rest will be skipped.
CutMessage ==
  /\ running /\ Held >= 2 /\ num_bytes_to_skip = 0
  /\ \E length \in LengthsAt(pos) :
       /\ length > Held - 2
       /\ num_bytes_to_skip' = length - (Held - 2)
  /\ pos' = received
  /\ UNCHANGED <<running, recvVars, orderVars>>

\* Mutant: the count is not reset by a publication.
CountOrder_no_reset(m) ==
  IF order_count + 1 >= PUBLISH_THRESHOLD
  THEN order_count' = order_count /\ published' = Append(published, m)
  ELSE order_count' = order_count + 1 /\ published' = published

\* Every PUBLISH_THRESHOLD orders, a snapshot.
CountOrder(m) ==
  IF order_count + 1 >= PUBLISH_THRESHOLD
  THEN order_count' = 0 /\ published' = Append(published, m)
  ELSE order_count' = order_count + 1 /\ published' = published

\* Mutant: a message that ends with the piece is not handled.
HandleMessage_not_last ==
  /\ running /\ Held >= 2 /\ num_bytes_to_skip = 0
  /\ \E i \in Message :
       /\ Start[i] = pos /\ Body(i) <= Held - 2
       /\ pos' = Start[i + 1]
       /\ IF Body(i) = Held - 2 THEN UNCHANGED orderVars
          ELSE handled' = Append(handled, i) /\ CountOrder(i)
  /\ UNCHANGED <<num_bytes_to_skip, running, recvVars>>

HandleMessage ==
  /\ running /\ Held >= 2 /\ num_bytes_to_skip = 0
  /\ \E i \in Message :
       /\ Start[i] = pos /\ Body(i) <= Held - 2
       /\ pos' = Start[i + 1]
       /\ handled' = Append(handled, i)
       /\ CountOrder(i)
  /\ UNCHANGED <<num_bytes_to_skip, running, recvVars>>

\* Bytes that are no message: of no type or size that decode_message knows, taken
\* for an order, or for one whose price ends the program.
HandleGarbage ==
  /\ running /\ Held >= 2 /\ num_bytes_to_skip = 0
  /\ pos \notin Boundaries
  /\ \E length \in LengthsAt(pos) : length <= Held - 2 /\ pos' = pos + 2 + length
  /\ \/ UNCHANGED <<running, order_count, published>>
     \/ CountOrder(0) /\ UNCHANGED running
     \/ running' = FALSE /\ UNCHANGED <<order_count, published>>
  /\ UNCHANGED <<num_bytes_to_skip, recvVars, handled>>

Next ==
  \/ Recv \/ Disconnect
  \/ SkipPiece \/ SkipRest \/ DropByte \/ CutMessage
  \/ HandleMessage \/ HandleGarbage

Spec == Init /\ [][Next]_vars

-----------------------------------------------------------------------------
(* Properties.                                                             *)

LengthsWhole == \A i \in Message : Start[i] + 1 \notin cuts

\* As long as no piece ends between the two bytes of a length, the client looks for
\* the next length where there is one, wherever else the pieces end.
FramingKept == LengthsWhole => pos + num_bytes_to_skip \in Boundaries

InOnePiece(i) == cuts \cap (Start[i] + 1 .. Start[i + 1] - 1) = {}

\* Meanwhile exactly the messages that lay in one piece are passed to the book, in
\* order and once; the others, which the hardware gets, are lost.
WholeMessagesHandled ==
  LengthsWhole =>
    /\ \A k \in 1 .. Len(handled) - 1 : handled[k] < handled[k + 1]
    /\ \A i \in Message : i \in Range(handled) <=> Start[i + 1] <= pos /\ InOnePiece(i)

\* Snapshots are taken after every PUBLISH_THRESHOLD of them, as the hardware does.
PublishesInStep ==
  LengthsWhole =>
    published = [k \in 1 .. Len(handled) \div PUBLISH_THRESHOLD |->
                   handled[k * PUBLISH_THRESHOLD]]
=============================================================================
