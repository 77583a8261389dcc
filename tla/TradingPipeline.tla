--------------------------- MODULE TradingPipeline ---------------------------
(***************************************************************************)
(* The blocks behind the order book and the program that reads the last of *)
(* them: ta_parser, cov_update, qr_decomp_lin_solv_axis, order_gen_axis    *)
(* and the MicroBlaze's event loop, joined by AXI streams as in build.tcl. *)
(*                                                                         *)
(*    book --> ta_parser --prices_cov--> cov_update --> qr_decomp          *)
(*                     \                                    | weights      *)
(*                      `------------prices_og--------> order_gen --> mb   *)
(*                                                                         *)
(* A block is ap_ctrl_none: it is called for ever, and a call reads its    *)
(* words one by one, computes, and writes its words one by one; a read     *)
(* waits for a word and a write for room.  The numbers are abstracted to   *)
(* where they come from: a word carries the frame its inputs belong to and *)
(* its place in the message.                                               *)
(***************************************************************************)
EXTENDS Integers, Sequences

CONSTANTS
  NumStocks,    \* NUM_STOCKS
  BookWords,    \* words in a frame of the book: NUM_STOCKS * NUM_LEVELS * 4
  OrderWords,   \* ORDER_MSG_WORDS
  StreamDepth,  \* words that a stream holds between two blocks
  CounterSize,  \* 2^32, the values of the two num_updates counters
  MaxFaults,    \* bound: frames with a weight that is not in 0 .. 1 (NaN passes)
  Window        \* the bound on frames on the way, for OrderPerFrame

ASSUME SizeAssumption ==
  /\ {NumStocks, BookWords, OrderWords, StreamDepth} \subseteq Nat \ {0}
  /\ CounterSize \in Nat /\ Window \in 1 .. CounterSize - 2
  /\ MaxFaults \in Nat

VARIABLES
  stream,       \* the words in each stream
  got,          \* the words that a block's current call has read
  out,          \* the words it has still to write, with their streams
  num_updates,  \* the static counters of ta_parser and cov_update
  published,    \* number of the frame that the book publishes next
  ordered,      \* the frame of the last message given to tcp_write
  faults        \* history: frames that were given an invalid weight

vars == <<stream, got, out, num_updates, published, ordered, faults>>

Blocks == {"book", "ta_parser", "cov_update", "qr_decomp", "order_gen", "mb"}
Streams == {"frames", "prices_cov", "prices_og", "matrix", "weights", "orders"}
Frame == 0 .. CounterSize - 1
Mixed == -1     \* computed from words of different frames

\* TCP_SEND_BUF_UINT32_SIZE: the portfolio value and an order for each stock.
MessageWords == 1 + NumStocks * OrderWords

\* What the blocks and the streams hold together, and two for the frames that are
\* numbered 0 and for the one that has just been ordered.
ASSUME WindowAssumption ==
  Window >= 6 + StreamDepth \div BookWords + StreamDepth \div NumStocks
              + (StreamDepth - 1) \div MessageWords

Word == [frame : Frame \cup {Mixed}, part : Nat, valid : BOOLEAN]

TypeOK ==
  /\ stream \in [Streams -> Seq(Word)]
  /\ \A s \in Streams : Len(stream[s]) <= StreamDepth
  /\ got \in [Blocks -> Seq(Word)]
  /\ out \in [Blocks -> Seq(Streams \X Word)]
  /\ num_updates \in [{"ta_parser", "cov_update"} -> Frame]
  /\ published \in Frame
  /\ ordered \in Frame \cup {Mixed}
  /\ faults \in 0 .. MaxFaults

-----------------------------------------------------------------------------
(* Reading and writing streams.                                            *)

FrameOf(words) ==
  IF \A i \in DOMAIN words : words[i].frame = words[1].frame
  THEN words[1].frame ELSE Mixed

Message(n, f) == [i \in 1 .. n |-> [frame |-> f, part |-> i, valid |-> TRUE]]
To(s, words) == [i \in DOMAIN words |-> <<s, words[i]>>]
Following(f) == (f + 1) % CounterSize

\* A block may read: it has written all that its last call had to write.
MayRead(b, s) == out[b] = <<>> /\ stream[s] # <<>>
Words(b, s) == Append(got[b], Head(stream[s]))
Pull(s) == stream' = [stream EXCEPT ![s] = Tail(@)]

\* One more word is read, and more are to come.
ReadOn(b, s, total) ==
  /\ MayRead(b, s) /\ Len(got[b]) + 1 < total
  /\ got' = [got EXCEPT ![b] = Words(b, s)]
  /\ Pull(s)
  /\ UNCHANGED <<out, num_updates, published, ordered, faults>>

\* The last word is read, and the call goes on to its writes.
ReadLast(b, s, total, writes) ==
  /\ MayRead(b, s) /\ Len(got[b]) + 1 = total
  /\ got' = [got EXCEPT ![b] = <<>>]
  /\ out' = [out EXCEPT ![b] = writes]
  /\ Pull(s)

\* Mutant: a write that does not wait for room.
Write_no_room(b) ==
  /\ out[b] # <<>>
  /\ LET s == Head(out[b])[1]
     IN  stream' = [stream EXCEPT ![s] = Append(@, Head(out[b])[2])]
  /\ out' = [out EXCEPT ![b] = Tail(@)]
  /\ UNCHANGED <<got, num_updates, published, ordered, faults>>

Write(b) ==
  /\ out[b] # <<>>
  /\ LET s == Head(out[b])[1]
     IN  /\ Len(stream[s]) < StreamDepth
         /\ stream' = [stream EXCEPT ![s] = Append(@, Head(out[b])[2])]
  /\ out' = [out EXCEPT ![b] = Tail(@)]
  /\ UNCHANGED <<got, num_updates, published, ordered, faults>>

-----------------------------------------------------------------------------
(* The blocks.                                                             *)

\* The book has read its twenty words and publishes.
publish ==
  /\ out["book"] = <<>>
  /\ out' = [out EXCEPT !["book"] = To("frames", Message(BookWords, published))]
  /\ published' = Following(published)
  /\ UNCHANGED <<stream, got, num_updates, ordered, faults>>

\* Mutant: the second frame's prices do not go to order_gen either.
PriceWrites_late(f) ==
  To("prices_cov", Message(NumStocks, f))
    \o IF num_updates["ta_parser"] > 1
       THEN To("prices_og", Message(NumStocks, f)) ELSE <<>>

\* The prices of the frame go to cov_update, and from the second frame on to
\* order_gen as well.
PriceWrites(f) ==
  To("prices_cov", Message(NumStocks, f))
    \o IF num_updates["ta_parser"] > 0
       THEN To("prices_og", Message(NumStocks, f)) ELSE <<>>

ta_parser ==
  \/ ReadOn("ta_parser", "frames", BookWords)
  \/ /\ ReadLast("ta_parser", "frames", BookWords,
                 PriceWrites(FrameOf(Words("ta_parser", "frames"))))
     /\ num_updates' = [num_updates EXCEPT !["ta_parser"] = Following(@)]
     /\ UNCHANGED <<published, ordered, faults>>

\* Mutant: a matrix for every frame.
MatrixWrites_always(f) == To("matrix", Message(NumStocks * NumStocks, f))

\* The first frame is stored and nothing is written.
MatrixWrites(f) ==
  IF num_updates["cov_update"] = 0 THEN <<>>
  ELSE To("matrix", Message(NumStocks * NumStocks, f))

cov_update ==
  \/ ReadOn("cov_update", "prices_cov", NumStocks)
  \/ /\ ReadLast("cov_update", "prices_cov", NumStocks,
                 MatrixWrites(FrameOf(Words("cov_update", "prices_cov"))))
     /\ num_updates' = [num_updates EXCEPT !["cov_update"] = Following(@)]
     /\ UNCHANGED <<published, ordered, faults>>

qr_decomp ==
  \/ ReadOn("qr_decomp", "matrix", NumStocks * NumStocks)
  \/ /\ \E valid \in [1 .. NumStocks -> BOOLEAN] :
          LET fault == \E i \in 1 .. NumStocks : ~ valid[i]
              f == FrameOf(Words("qr_decomp", "matrix"))
              weights == [i \in 1 .. NumStocks |->
                            [frame |-> f, part |-> i, valid |-> valid[i]]]
          IN  /\ ReadLast("qr_decomp", "matrix", NumStocks * NumStocks,
                          To("weights", weights))
              /\ fault => faults < MaxFaults
              /\ faults' = IF fault THEN faults + 1 ELSE faults
     /\ UNCHANGED <<num_updates, published, ordered>>

\* Mutant: no portfolio value before the orders.
OrderWrites_orders_only(f) == To("orders", Tail(Message(MessageWords, f)))

\* The portfolio value and the orders, one message of MessageWords words.
OrderWrites(f) == To("orders", Message(MessageWords, f))

\* First the prices, then the weights; a weight outside 0 .. 1 ends the call.
order_gen ==
  \/ /\ Len(got["order_gen"]) < NumStocks
     /\ ReadOn("order_gen", "prices_og", 2 * NumStocks)
  \/ /\ Len(got["order_gen"]) >= NumStocks
     /\ MayRead("order_gen", "weights") /\ Head(stream["weights"]).valid
     /\ \/ ReadOn("order_gen", "weights", 2 * NumStocks)
        \/ /\ ReadLast("order_gen", "weights", 2 * NumStocks,
                       OrderWrites(FrameOf(Words("order_gen", "weights"))))
           /\ UNCHANGED <<num_updates, published, ordered, faults>>
  \/ /\ Len(got["order_gen"]) >= NumStocks
     /\ MayRead("order_gen", "weights") /\ ~ Head(stream["weights"]).valid
     /\ Pull("weights")
     /\ got' = [got EXCEPT !["order_gen"] = <<>>]
     /\ UNCHANGED <<out, num_updates, published, ordered, faults>>

\* One word is polled and the others are waited for; then tcp_write.
mb ==
  \/ ReadOn("mb", "orders", MessageWords)
  \/ /\ ReadLast("mb", "orders", MessageWords, <<>>)
     /\ ordered' = FrameOf(Words("mb", "orders"))
     /\ UNCHANGED <<num_updates, published, faults>>

Init ==
  /\ stream = [s \in Streams |-> <<>>]
  /\ got = [b \in Blocks |-> <<>>]
  /\ out = [b \in Blocks |-> <<>>]
  /\ num_updates = [b \in {"ta_parser", "cov_update"} |-> 0]
  /\ published = 0
  /\ ordered = 0
  /\ faults = 0

Next ==
  \/ publish \/ ta_parser \/ cov_update \/ qr_decomp \/ order_gen \/ mb
  \/ \E b \in Blocks : Write(b)

Spec == Init /\ [][Next]_vars

\* The blocks are clocked circuits and the program polls in an endless loop: what
\* they can do they do.  Nothing makes the book publish.
Fairness ==
  /\ WF_vars(ta_parser) /\ WF_vars(cov_update) /\ WF_vars(qr_decomp)
  /\ WF_vars(order_gen) /\ WF_vars(mb)
  /\ \A b \in Blocks : WF_vars(Write(b))

FairSpec == Spec /\ Fairness

-----------------------------------------------------------------------------
(* Properties.                                                             *)

\* Prices and weights reach order_gen on two paths of different length, of which
\* one starts a frame earlier by a rule of ta_parser and the other by a rule of
\* cov_update.  No value is ever computed from the words of two frames, unless an
\* invalid weight makes order_gen leave words in a stream.
PathsAligned ==
  faults = 0 =>
    /\ \A s \in Streams : \A i \in DOMAIN stream[s] : stream[s][i].frame # Mixed
    /\ \A b \in Blocks : \A i \in DOMAIN got[b] : got[b][i].frame = got[b][1].frame

\* Whatever the weights are, the program's polled word is the portfolio value and
\* its blocking reads take the orders of the same message: it never waits in the
\* middle of a message for words that no one will write.
MessagesWhole ==
  /\ \A i \in DOMAIN got["mb"] : got["mb"][i].part = i
  /\ got["mb"] # <<>> =>
       Len(got["mb"]) + Len(stream["orders"]) + Len(out["order_gen"]) >= MessageWords

\* The pipeline keeps the promise of OrderPerFrame, its liveness included.
Promise == INSTANCE OrderPerFrame WITH faulty <- faults > 0
ImplementsOrderPerFrame == Promise!Spec
=============================================================================
