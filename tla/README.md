# Nexys HFT accelerator: TLA+ models

TLA+ modules, TLC configurations and TLAPS proofs about the trading accelerator of
this repository: a feed of ITCH messages enters a MicroBlaze over TCP, a hardware
parser turns it into order words, an order book keeps the best prices, a chain of
blocks computes a portfolio, and an order generator sends OUCH messages back.

Paths below are relative to `src/`.

## 1. The system

```
generate_orders.py -> itch_encoder.py -> itch_server.py
                                             |  TCP                 ^ TCP
                                             v                      |
                                  main.c (MicroBlaze, lwIP) --------+
                                     | M0_AXIS              ^ S0_AXIS
                                     v                      |
                             parser.sv + AXI wrapper    order_gen_axis
                                     |                  ^ weights  ^ prices
                                     v                  |          |
                             Orderbook_wrapper -> ta_parser -------+
                                                    |              
                                                    v              
                                               cov_update -> qr_decomp_lin_solv
```

The wiring is `HW/build.tcl` 626-639. All HLS blocks are `ap_ctrl_none` (called for
ever) and are connected by AXI-Streams without a FIFO in between, so a block that does
not read stops the one that writes. The Python scripts also contain a software copy of
every hardware block, driven by `SW/test_tcp_client.py`.

### Inventory

| Component | State | Operations | What makes it hard | Correct when |
|---|---|---|---|---|
| Order book, `Orderbook_tree_optimized.cpp` | two books per stock (level quantities, segment tree), the order list, words since the last frame | initialise, add, cancel / execute / delete, ignore, publish | one truth kept in three structures; `bubble_up` repairs one path only; `get_top_5` takes the live book apart and puts it back; 32-bit wrap-around | the tree root is the best level, frames show the best rows, levels are the sum of the orders |
| ITCH parser, `parser.sv`, and `itch50_parser_v1_0.v` | state machine, offset, registers of the order word, registered input and handshakes | one clock edge per state | registered `data`, `valid`, `ready`: decisions use signals of different clocks; framing by counting | the words are exactly the order messages of the feed |
| Generator and encoder, `generate_orders.py`, `itch_encoder.py` | the active orders | add, cancel, execute, delete; encode | rounding at the ends of the price range; one layout for all types | the events mean the same after encoding and parsing |
| TCP client, `main.c`, `platform_mb.c` | the handle of the connection, timer flags, the send buffer of one order | event loop, connected / recv / error callbacks, timer interrupt | callbacks run inside the loop; a busy wait in the loop; ticks that are lost; non-blocking puts; the handle outlives the control block | every received byte reaches the parser, every accepted order reaches the server, a connection that ends is closed and freed |
| TCP of lwIP, `tcp.c`, `tcp_in.c`, `tcp_out.c` of the BSP | the control block: state, queues of unsent, unacknowledged and out-of-sequence segments, window | input, output, write, close, fast and slow timer | loss, reordering, retransmission, segments that overlap; callbacks in the middle of input and timers | nothing leaves a queue before its time; the stream is reassembled; the window stays open |
| `ta_parser.cpp` | number of updates | read a frame of 80 words, write prices | writes to one stream always, to the other from the second frame on | a price goes with the frame it was read from |
| `cov_update.cpp` | last prices, covariance, number of updates | read prices, write a matrix | the first frame produces nothing | one matrix per frame but the first |
| `qr_decomp_lin_solv_axis.cpp` | none | read a matrix, write weights | division by zero gives NaN | weights for every matrix |
| `order_gen_axis.cpp` | holdings, cash, reference number | read prices and weights, write an order | returns in the middle of a frame on a weight outside 0 .. 1; rounding; NaN | weights and prices of one order are those of one frame; the account balances |
| Software client, `test_tcp_client.py` | data in hand, bytes to skip, order count | receive, frame, decode, count, publish | TCP pieces of any size | same messages and same frames as the hardware |
| Software book, `Orderbook.py` | books and order list, unbounded numbers | add, cancel, delete, publish | a second implementation in another language, with clamps of its own | what it shows is what the hardware shows |
| Server and GUI, `itch_server.py`, `ouch_parser.py`, `GUI.py` | the connection, the log of orders, rows drawn | send loop, receive thread, update of the GUI | a thread and the main loop share the connection; reads of any size; polling | every order logged is genuine, every row is shown |
| Software pipeline, `TaParser.py`, `CovUpdate.py`, `QrDecompLinSolver.py`, `OrderGen.py` | as the hardware's | one call after another | float arithmetic | not modelled |
| Vendor code: drivers, the rest of lwIP, board support | | | third party | not modelled |

The hazards, each at its line and with the properties that cover it, are in
`PROJECT.json`; those without a property say why in their note.

## 2. The modules

| Module | What it models |
|---|---|
| `OrderBook` | `Orderbook_wrapper`: every operation, on bit-exact unsigned words of `WordSize` values |
| `MCOrderBook` | the book under any words at all |
| `MarketByPrice` | what the book promises, without trees, arrays or list |
| `FeedBook` | the book fed with the events of `generate_orders.py`, and its refinement of `MarketByPrice` |
| `SoftwareBook` | `Orderbook.py` beside it, on the same events |
| `MCFeedBook` | the instance of both |
| `ItchParser` | parser and wrapper, one step per clock edge |
| `ItchLink` | the parser between the program's byte loop and the book's reads |
| `MCItchLink` | feeds of three messages of all types |
| `EncodedLink`, `MCEncodedLink` | the link fed with the bytes of `itch_encoder.py`, and with others among them |
| `TradingPipeline`, `MCTradingPipeline` | the four blocks behind the book and the program's reads, word by word |
| `OrderPerFrame` | what these blocks promise: one order per frame |
| `Portfolio` | the account of `order_gen_axis` |
| `OrderMonitor`, `MCOrderMonitor` | the account, the stream of its messages, the server's receive thread and the GUI |
| `TcpClient`, `MCTcpClient` | the program's event loop, timer interrupt and callbacks, the life of lwIP's control block and its send queues, the server and the network |
| `FeedReceive`, `MCFeedReceive` | lwIP's reassembly and window, and `tcp_client_recv` |
| `ClientFraming`, `MCClientFraming` | the receive loop of `test_tcp_client.py` |
| `OrderBookProofs` | proofs about `OrderBook`, `FeedBook`, `SoftwareBook` |
| `ItchParserProofs`, `TradingPipelineProofs`, `OrderMonitorProofs`, `TcpClientProofs`, `FeedReceiveProofs`, `ClientFramingProofs` | proofs about the modules they are named after, `ItchParserProofs` about `ItchLink` and `EncodedLink`, `OrderMonitorProofs` about `Portfolio` as well |
| `BasicLemmas` | what these proofs share: loops, induction over an interval, least and greatest elements, quotients and remainders, finite sums |

### The order book

One call of `Orderbook_wrapper` initialises (once), publishes if 20 words have been
read, then reads at most one word. These are the actions `Initialise`, `Publish`, and
`AddOrder` / `RemoveOrder` / `IgnoreWord`, with guards that keep the order of the code.
A call that finds no word changes nothing. `publish` writes 80 words that nothing
buffers, so no other action is enabled until the reader has taken them (`TakeFrame`);
the frame is taken as a whole because the book changes nothing between its words.

`books` maps side and stock to the level quantities and the tree of
`TreeOrderBook`. `bubble_up` is the loop of the code as a function of the turn, so the
tree operations can be reasoned about. Details kept because something depends on them:
prices are subtracted as unsigned words (`price_to_index`), the `return 2` of
`check_ask_bid` comes out as 0 through its `ap_uint<1>` result, and a removal acts on
the book of the stock the *message* names, at the level the *order* has.

`stock_id` above the last stock is ignored by the code and by `IgnoreWord`. The value
of `order_list` before initialisation is that of zeroed memory.

### The feed

`FeedBook` keeps `active_orders` as the generator does. Its random draws are
nondeterministic choices: the interpolated price with noise is any of `RawPrices`, and
which active order is chosen is free. The price is then clamped and snapped to the
tick as in the code; a range need not start on a tick, so an order may be `Below` it. References start at 1 and grow; `MaxRef` bounds the number of adds.

### The software book

`SoftwareBook` puts `Orderbook.py` next to the hardware's book: one step feeds the same
event to both, and `SoftPublish` publishes in both. What differs in the code differs in
the model: numbers are unbounded, a removal is clamped to what the level holds (the
hardware clamps to the order only), a delete asks for the order's quantity and takes what
it gets, `get_top_5` restores the levels in a loop of its own, and a negative list index
counts from the end (`At`). `InRange` tells the books that no order below the range has
reached: only they can be the same.

### The parser

Each action of `ItchParser` is one state of the code, and `Clock` is one edge: the
state machine, the sampling of the bus and the output stage of the wrapper all read
the old registers. `data_i` and `ready_o` are registered, so the byte consumed in a
clock was on the bus one clock earlier. The six states `PARSE_MSG_A` .. `PARSE_MSG_D`
are one action with the layout of `message_type`; the code's `case` on the offset is
the set `Layout`. 32-bit registers are four bytes, high byte first.

`ItchLink` puts it between a source and a sink. The source is `tcp_client_recv`:
`putfslx(.., FSL_NONBLOCKING)` shows a byte for one clock, accepted or not. With `Paced`
at least one clock without a byte follows each byte; the loop of the program takes
several, which only gives the parser more time. The sink is the order book's
non-blocking read, at most `StallLimit` clocks after a word is offered. An idle clock
carries a byte of `IdleBytes`; the MicroBlaze's idle stream carries 0.

### The pipeline

Each block of `TradingPipeline` is a call that runs for ever: it reads its words one by
one (`ReadOn`, `ReadLast`), then writes its words one by one (`Write`), and waits at each.
Streams hold `StreamDepth` words. The arithmetic is left out: a word carries the number of
the frame it was computed from, its place in the message and, for a weight, whether it
is in 0 .. 1. What is kept is what decides alignment: `ta_parser` writes to `order_gen`
from its second frame on, `cov_update` writes nothing for its first, both by 32-bit
counters that run round (`CounterSize`), and `order_gen_axis` returns at the first
invalid weight with the others still in the stream. The program's poll and its blocking
reads are `mb`.

`OrderPerFrame` is the abstract specification: frames are published and ordered in
sequence, all but those that the counters number 0, with at most `Window` on the way,
and a frame that can be ordered is. An invalid weight voids the promise (`GiveUp`). `Safety`
is the promise without its liveness.

### The account, the log and the GUI

`Portfolio` is `order_gen_axis` as a loop over the stocks: value the account, work out a
target for each stock, add up the cost, move to the new holdings. A
weight is a number of parts of `WeightUnit`. What remains of 1.0 is `left`, because
`qr_decomp_lin_solv_axis` normalises the weights. All weights are NaN after a division by
zero, and then a target is whatever the undefined conversion yields (`Garbage`). Up to
there money is exact. From there on (`spoilt`) it is not: the conversion may yield thousands of
millions of shares, whose cost takes a float so far that the account's dollars are lost
in its rounding. Each result is then off by up to one part in `Exact` (`Float`), and a
delta that does not fit an `int` is anything the conversion yields.

`OrderMonitor` adds the rest of the way. A message becomes `MessageWords` words of a
stream; `Receive` is a read of any number of them, since TCP joins and cuts; only a read
of exactly one message's size is understood and is cut into orders (`Decoded`), which
`LogRow` writes one by one. `Fail` stands for the exceptions that end the thread.
`Draw` is the GUI's poll.

### The program and lwIP

`TcpClient` is the event loop with `pc` as its place: fast timer, slow timer, input,
poll, wait for room. The timer interrupt `timer_callback` can come at each of these
places; ticks that meet a flag already set are lost, as in the code. Callbacks are part
of the step that calls them, so what lwIP does afterwards with the block that they have
closed is in the same action. The control block is a record; data is counted in orders,
one to a segment, and the queues are sets because sequence numbers order them.
`tcp_output`, `tcp_write`, `tcp_receive` and the parts of `tcp_slowtmr` that the program
can reach are operators on it. `allocated` tells a freed block, whose memory keeps its
contents; `c_pcb` is the program's handle. The server and the network are the
environment: `ServerReceive`, `ServerClose`, `ServerReset`. Segments on the way are sets,
so they are reordered freely; one that is lost is one that is never received.

`FeedReceive` is the other direction, with lwIP's flags for a delayed (`delay`) and a due
(`ack_now`) acknowledgement: `tcp_receive` trims a segment, queues it
(`Queued`, `tcp_oos_insert_segment`) or passes it on with those that now follow
(`Chain`), and calls `tcp_client_recv`, which opens the window by `tot_len` and puts the
first buffer's bytes to the parser. A segment may be any part of the feed within the
announced window, any number of times: that is loss, repetition, reordering and
retransmission cut anew. An acknowledgement, and the window with it, rides on what
`tcp_output` sends. When an order waits in `unsent` that fits the server's window and
Nagle's rule keeps it back, because an order before it is not acknowledged yet, `tcp_output`
sends nothing at all, not even an empty segment (`tcp_out.c:1030`, `1107`): `NagleHolds`. The
fast timer clears the flags even then. The exception that Nagle's rule makes for a full
buffer or queue does not occur: `snd_buf` is never 0, since 8192 is no multiple of an order's
196 bytes, and the 41 orders that fit take fewer buffers than `TCP_SND_QUEUELEN`, which is 89.

### The software client

`ClientFraming` knows bytes by their positions. `Recv` ends a piece anywhere. The
remaining actions are the branches of the inner loop: skip a piece, skip the rest, drop
a lone byte, start to skip a cut message, handle a message. Where two bytes that are no
length are read as one, any value up to `MaxGarbage` may come out.

## 3. The runs

| Run | Question | Result |
|---|---|---|
| `book_any_words` | Do the trees stay exact, and do frames show the best rows, whatever words arrive? | holds |
| `book_is_market` | Does the fed book implement `MarketByPrice`, and does the software book agree with it at every step and in every frame? | holds; the agreement for each book that has stayed in its range |
| `parser_prompt_sink` | Are the words offered exactly the order messages of the feed, and are all taken? Do encoder and parser agree on adds and references? | holds, with a book that takes a word within 39 clocks |
| `parser_any_pace` | Does anything break when framing may be lost? | no word overwritten, offset in bounds |
| `pipeline` | Is every frame ordered from its own prices and weights? Are messages whole even after an invalid weight? Is there a deadlock? | holds; none |
| `tcp_orders` | Do accepted orders reach the server, and before the end of the stream? | holds |
| `tcp_full` | Do they with more orders than the send buffer holds, and is a closed connection freed? | holds, unless the full buffer stops the program |
| `tcp_room` | Does the busy loop before `tcp_write` end? | violated |
| `feed_receive` | Is the feed reassembled, and does the window stay open? | holds; the window unless Nagle's rule withholds an acknowledgement |
| `feed_skipped` | Do all acknowledged bytes reach the parser? | violated |
| `client_framing` | Which pieces cost the software client a message, which the framing? | as stated: holds |
| `order_monitor` | Does the account balance, and are the log and the GUI true to it? | holds; what concerns the account up to the first NaN |

### What the properties say

* `TreesConsistent`, `RootIsBest`: no sequence of words leaves a stale node, and the root
  is the best level with quantity. Words include unknown types and stocks, reused
  references, removals naming another stock, and quantities that wrap both ways.
* `FramesShowBestRows`, `PublishRestoresBooks`: `get_top_5` destroys and rebuilds the
  book it lists; the frame shows the book as it stood and the book is as before.
* `BookIsMarket`, `LevelsRankAsPrices`, `ImplementsMarketByPrice`: with well-formed
  events the level quantities are the sums of the market's orders and every frame lists
  the best levels of the market. Dearer orders of the range rest on no lower level; an
  order below the range rests on the top level.
* `BooksAgree`, `SnapshotIsFrame`: two programs with different clamps and loops hold the
  same trees, levels and orders, and publish the same rows, for each book that no order
  below its range has reached, whatever has happened in the other books. Orders
  below the range do occur, and there the two books part (4.3).
* `WordsAreTheFeed`, `NoOrderLost`, `EveryOrderTaken`: no order message is lost, repeated,
  reordered, torn or made up, and each is taken.
* `NoWordOverrun`, `OffsetInMessage`: at any pace, the one-clock offer of a word finds the
  wrapper free, and the equality that ends a message is always met.
* `AddsAndReferencesArrive`: end to end through encoder and parser.
* `PathsAligned`, `ImplementsOrderPerFrame`: prices reach `order_gen` by a short way,
  weights by a long one; without invalid weights no value mixes two frames and every
  frame is ordered, also when the counters run round and a frame is skipped by both rules.
* `MessagesWhole`: whatever the weights, the word that the program polls is the start of a
  message whose rest will come, so its 48 blocking reads do not stop the network.
* `OrdersKept`, `EndAfterOrders`, `EveryOrderArrives`, `ClosedBlockFreed`: an accepted
  order stays in exactly one queue until the server has it; the server sees the end only
  after all of them; although `tcp_output` is never called by the program, the slow timer
  brings every order there or ends the connection; and the block of a connection that the
  server closes is freed, whatever acknowledgements are lost. Both have one exception,
  `Stuck`: an order meets a full buffer and the program waits in its busy loop, which runs no
  timer and takes no FIN (4.1).
* `OoseqOrdered`, `FeedReassembled`, `WindowStaysOpen`: the out-of-sequence queue holds no
  byte twice and nothing below `rcv_nxt`; each chain is the stream's next bytes; a window
  update withheld as too small never leaves less than half the window announced, unless
  Nagle's rule keeps a due acknowledgement back (`withheld`), and what is announced is
  always between what has arrived and what lwIP would take. In the exception the server
  may have no window left (4.4).
* `FramingKept`, `WholeMessagesHandled`, `PublishesInStep`: the client loses the framing
  only when a piece ends between the two bytes of a length. Until then exactly the
  messages that lie in one piece are handled, in order and once, and snapshots are in
  step with them.
* `CashNeverNegative`, `AccountBalances`: shares cut to whole numbers, stock by stock, never
  cost more than there is, and what is not spent is in the cash of the next call. Both are
  said of an account that no NaN has reached: after one, neither holds (4.5).
* `MonitorAgrees`, `RowsGenuine`, `GuiCatchesUp`: while reads are whole messages and no weight
  was NaN the net shares shown are the board's holdings; whatever the reads are, no order is logged that
  was not sent, and none twice; the GUI is never four rows behind for ever.

### Bounds, and why they are enough

* `book_any_words`: two stocks (a removal can name the wrong one), `MaxLevels = 4` (a path
  from leaf to root has two inner nodes, so a loop one turn short shows), `CacheSize = 2` (fewer and more occupied
  levels than rows occur), `PublishPeriod = 2`, `WordSize = 12` (three adds of four shares
  wrap a level to 0, one stray removal wraps it to 11), five words (two publications and
  a word after each).
* `book_is_market`: three adds, of which the last does not fit the list of three slots
  (references start at 1), and raw prices below, within and above a range that is wider
  than the levels, so that both books' clamps are reached as well. As in `config.csv` one
  stock's range starts on a tick and the other's does not, so that an order of the latter
  can be below it.
* `parser_*`: two messages, each of any of eight kinds (skipped types and non-printable
  executions among them), so that every pair follows each other, and a third on which a
  loss of framing shows. The bytes of a message are all different, so a field read from
  the wrong place shows. In `parser_prompt_sink` either message may also be one that the
  encoder writes, with a quantity of two bytes and a reference of three: an add, and after
  it another add or a removal of the first.
* `StallLimit = 39`: the shortest order message (delete, 21 bytes with its length) takes
  42 clocks at two clocks a byte, and a sink that stalls for `StallLimit` clocks each time
  takes a word every `StallLimit + 3`. Within 39 clocks it keeps up with the densest feed.
  With 40 or 41 it falls behind by a clock or two with every delete: three messages, as
  many as the run has, still pass, but after a few more the framing is gone (TLC finds it
  with six deletes). The proof asks for 39, and that is where the bound comes from
  (section 5); with 42 even the run of three messages fails, because nobody looks whether
  a put was accepted. `itch_server.py` sends a message every 0.06 s, which is what keeps
  the real system inside this bound; its comment at line 252 says that faster sends will
  potentially crash the system.
* `pipeline`: two stocks, frames of four words, messages of five, one word in a stream, so
  that each block waits on each of its streams; `CounterSize = 8` with no bound on frames,
  so the counters run round for ever; one frame with invalid weights. `Window = 6` is the
  least that `WindowAssumption` (section 5) allows for these sizes, and six frames on the way do occur. The words that an invalid weight
  leaves in the stream stay there, so with a second such frame their number grows past
  what a one-word stream can carry and TLC reports a deadlock: that is the block's
  behaviour outside its contract, see 4.9.
* `tcp_orders`: two orders and a send buffer of two, a timeout at the first tick, one
  retransmission before giving up. Retransmission, loss, reset and close by either side
  then meet orders in every state. Here the buffer has room for all orders. In `tcp_full` it
  has room for one of two, so the busy wait is entered with a full buffer from every place
  that the first order can be in; it checks the liveness only, the safety being proved for
  all sizes, and adds the closed connection. `tcp_room` has three orders and a buffer of two.
* `feed_receive`: a feed of ten bytes, a window of seven and a segment size of five: the queue
  holds segments that overlap, contain and adjoin each other, and the thresholds stand to
  each other as with 2048 and 1460: a quarter and half of the window, the segment size, the
  window, two segments. An order that Nagle's rule holds back may be there at any call of
  `tcp_output`, which is more than the orders of one run could cause.
* `client_framing`: four messages of one to three bytes after the length, cut in every way;
  threshold two; garbage lengths 0 .. 5, which reach past several messages.
* `order_monitor`: two stocks, two prices, weights of 0 or 1, 7 in cash (which buys no
  whole number of shares at most prices), two frames, messages
  of five words read in any pieces, and two new rows for the GUI to draw. Either frame's weights
  may be NaN. Each conversion of a NaN then leaves 9 shares, two of which are worth more than
  `Exact = 55`, so that the amounts of the next frame are rounded, as those of the code are
  when a conversion leaves 2^31 shares.

### Fairness

* `parser_prompt_sink`: `WF(LinkNext)`: the clock runs. `WF(PutStep)`: the loop in
  `tcp_client_recv` puts the bytes it has. `WF(TakeStep)`: the book's wrapper is called for
  ever and comes back to its read, which `StallLimit` makes explicit.
* `pipeline`: weak fairness of each block and of its writes, which are clocked circuits,
  and of the program's loop. Nothing makes the book publish.
* `tcp_orders`, `tcp_full`, `tcp_room`: `WF` of the timer interrupt and of the program's loop, and
  `SF(FinArrives)`: the server's system repeats its FIN until it arrives. No other
  segment is assumed to arrive; that is why the properties about orders allow for the
  end of the connection, which the retransmission limit brings about.
* `order_monitor`: `WF(Draw)`: the GUI polls for ever.

The other specifications have no fairness; the safety runs need none. `CHECK_DEADLOCK` is
off where the environment comes to an end: the books (`MaxWords`, `MaxRef`),
`client_framing` (the connection is closed), `order_monitor` (`MaxFrames`).

## 4. What the disagreements are

The first two are runs with `expect: violation`; each quotes the line that it contradicts.

1. `tcp_room`: `main.c:251` waits in a busy loop until the send buffer has room, "This
   should be right away". Room comes with acknowledgements, which only the loop around
   it processes. With the buffer full the program stays there for ever; the orders that it
   has queued are not sent and the connection is not closed (`tcp_full`).
2. `feed_skipped`: `main.c:454` puts the `p->len` bytes of a chain's first buffer and
   acknowledges all `p->tot_len`. After a segment out of order the chain has more.

The others have no run of their own. In 3 to 6 the models do what the code does, the runs
reach these states, and the properties above leave out exactly what is lost there; no
property depends on the rest.

3. Prices are snapped to the tick after clamping (`generate_orders.py:129`),
   although line 125 says "Clamp to [min_price, max_price]". Three of the four minimum
   prices in `config.csv` are no multiples of the tick, and such a price comes out below
   the minimum, as in rows of the `test.csv` of this repository. For it the hardware's unsigned
   subtraction gives the top level; the software book's index is -1, which counts from the end of
   its lists and has an inner node for its leaf. `README.md:9` says that the benchmark "mimics
   hardware functionality for verification"; here its snapshots are not the hardware's frames.
   `BooksAgree` and `SnapshotIsFrame` leave such a book out from then on.
4. An order that Nagle's rule holds back takes the due acknowledgement with
   it (`tcp_out.c:1030`, `1107`), so the window that `tcp_recved` opened "to advertise a larger
   window" (`tcp.c:782`) is not advertised, and the server may stand without any until the
   order before is acknowledged, a segment arrives that has to be answered, or the
   program retransmits. `WindowStaysOpen` excepts it.
5. `order_gen_axis.cpp:138` is to "skip cycle" when weights are invalid, but
   `val > 1.0 || val < 0.0` is false of NaN, which the solver's divisions produce. The code
   that would keep the old weights (line 136) is commented out; the software version keeps them.
   From such a frame on the account is not promised to balance: the conversion may
   leave 2^31 shares, beside whose cost a float does not show the cash.
6. `tcp_client_err` closes a block that lwIP has already freed (`main.c:508`;
   `tcp.c:1745` says so of the callback) and queues a FIN in it.
7. `parser.sv`: `ready_o` is lowered a clock late, so that a source that honours it would
   have a byte consumed twice. The check for a non-printable execution (line 355) does not
   look at `valid`, so an idle bus that carried `N` would decide. The program's source
   does neither; `IdleBytes` of the unpaced run includes another value.
8. The parser takes the stock from adds only, other messages reach the book as stock 0,
   and `itch_encoder.py` writes the quantity of executions and cancels one byte later than
   the parser reads it. So `book_is_market` is a statement about the books and the
   generator, not about the assembled system: between them, removals change.
9. `order_gen_axis` leaves the other weights in the stream when it returns early, and all
    later frames are misaligned. The solver's weights are NaN, which passes the test (5),
    or within 0 .. 1, so this does not happen behind it.
10. After the error callback the handle is NULL, and the next order makes `tcp_sndbuf` read
    through it. After the server's close the handle stays, `is_connected` is never
    cleared, nothing reconnects, and with no keep-alive a vanished server is not noticed
    unless orders are under way.
11. `TCP_WND` is 2048, smaller than two segments of 1460.
12. `test_tcp_client.py:57` says that a lone byte waits for the next recv, but it is dropped
    and the framing is lost; a message that is cut is skipped, not completed, while the
    hardware gets it, so from there on the two publish after different messages.
13. `itch_server.py`: the last message of the file is never sent (line 231); a read that is
    not exactly 196 bytes is dropped; an exception ends the receive thread silently; the
    thread makes the shared connection non-blocking, so that the main thread's `sendall`
    may fail in the middle of a message. The GUI leaves up to three last rows undrawn.

## 5. The proofs

A theorem here holds for every value of the constants that the named assumptions of its
module allow. Each rests on an inductive invariant, stated with the parts it consists of,
and on one lemma for each action or group of actions.

### The parser (`ItchParserProofs`)

For every byte sequence, every pace and every consumer, of `Spec` of `ItchParser`:
`ParserTypeCorrect` (`[]TypeOK`), `NoOverrun` (`[]NoWordOverrun`) and `OffsetBounded`
(`[]OffsetInMessage`). There is no assumption: the module has no constant.

None of the three is inductive alone. The invariant is `IInv == TypeOK /\ HandshakeInv`:

* `ready_i <=> ~m_axis.tvalid`: the wrapper holds the parser off exactly while a word
  waits. Without it nothing relates what the parser tests to what the wrapper does.
* `valid_o => ready_i /\ current_state # "PARSE_MSG"`: while a word is offered for its
  one clock the parser has moved on, so a second word cannot complete in that clock,
  in which `ready_i` is still high.
* `current_state = "GET_MSG_TYPE" => message_length > 0`: the type byte is offset 0 and
  the counter then starts at 1, which is within the message only if it is not empty.
* `OffsetInMessage` itself, which bounds the offset by a byte and so keeps the 16-bit
  addition from running round.

The lemmas give the types of what is captured, the arithmetic of the counter, and one
case per state of the parser.

### The parser between its streams (`ItchParserProofs`, second part)

Of `LinkSpec` of `ItchLink`, for feeds of any length, any messages at each place of the
feed, any number of idle clocks after each byte, any idle bytes and any stalls:

* `WordsMatchFeed`: `[]WordsAreTheFeed`
* `AllOrdersAccounted`: `[]NoOrderLost`
* `EncodedArrives`, for the link of `EncodedLink`: `[]AddsAndReferencesArrive`

The first two are proved under `Prompt`, which says of the constants what the environment
has to grant: the source rests a clock after each byte; an idle bus never carries 78, the
'N' that the parser looks for without `valid`; each message has the length that its
second byte states, a first byte of 0, and room for its type's fields; stalls are bounded,
by a `StallLimit` with `StallLimit + 3 <= 2 * Len(m)` for every order message `m`. The last
condition is sharp for deletes: at 40 TLC has a counterexample. `MCEncodedLink.cfg` meets
`Prompt` with equality. The third theorem asks for `Prompt` and sides of 0 or 1; for a feed of
encoded events alone `Prompt` follows from stalls of at most 73 clocks (`EncodedFeedArrives`),
since each message of the encoder has 38 bytes. A source without rest and longer stalls
are left to `parser_any_pace`, where only the statements of the first part hold.

The invariant `LinkInv` has, besides `IInv`:

* `Place(Current, Passed)`: where the parser stands when `Passed` bytes of the current
  message have passed it, state by state, with the offset, the length and the type that
  it has latched, and the output registers holding exactly the bytes of the message's
  fields below the offset (`Captured`);
* `Sourced`: the byte on the bus is the last one put, and a byte is there exactly while the
  source rests;
* `Timely`: a word that has waited `stalled` clocks was offered when the message before
  ended, so that at most `stalled + 2` clocks of the current message have gone by. With
  `Prompt` a message can never be complete while a word waits (`NeverHeldOff`), so `ready_o`
  never falls and no byte is dropped;
* `Offered`: a word is offered in the clock after its message's end;
* `Words`: the order messages of the feed are those taken, the one in the wrapper, the one
  at the parser's output and the one in progress, and the words are their meanings.

`PlaceKeep` and `PlaceAdvance` move the parser through a message, without and with a byte;
`IdleEffect`, `NextEffect` and `FirstEffect` say what the three steps of the source do to the
invariant, `WordStep` what the output stage and the sink do. `CapturedAll` shows that what has
been captured at the end of a message is the message's meaning at the offsets of ITCH 5.0,
and `EncodeLayout` where the encoder's concatenation puts each field.

### The order book under any words (`OrderBookProofs`, first part)

For any numbers of stocks, levels, rows, orders and words between frames, any prices and
any parser words, of `Spec` of `OrderBook`:

* `TypeCorrect`: `[]TypeOK`
* `TreesStayConsistent`: `[]TreesConsistent`
* `RootStaysBest`: `[]RootIsBest`
* `PublishRestores`: `PublishRestoresBooks`
* `FramesShowTheBest`: `FramesShowBestRows`

Assumptions: `SizeAssumption` (the sizes are positive and level indices are smaller than
the 32-bit value that stands for "none"), `PriceAssumption` (ticks are not zero) and
`InputAssumption` (words have the widths of the code). The number of levels need not be a
power of two.

The invariant is `IInv == TypeOK /\ TreesConsistent`. `TypeOK` is not inductive alone: a row
of a frame names the level at the root of a tree, which is a level only if the tree is
consistent. `TreesConsistent` needs in turn that orders name levels that exist. The argument:

1. `BasicLemmas`: a loop written as a recursive function has its states (`Iterates`), shown
   by induction over an interval, which rests on a least counterexample.
2. `SetLevelKeeps`: between two turns of `bubble_up` every leaf holds its mark and only the
   node about to be recomputed may disagree with its children (`BubbleInv`); a turn moves
   that node strictly upwards, so after `MaxLevels` turns no node disagrees.
3. `RootBest`: from the leaves upwards, a node holds an occupied level or `NEG_ONE`; from the
   root downwards, no node is preferred to the root.
4. `PopResult`, `RestoreUndoesPop`: between two turns of the first loop of `get_top_5` the
   rows taken show the quantities of levels now empty; the second loop puts all of them
   back, and level quantities determine the tree (`TreeIsDetermined`).
5. `TopIsBest`: the level taken in turn `i` is the best of those left, so the rows taken
   before it are exactly the `i - 1` levels better than it. That is the rank by which
   `BestRows` chooses its rows, which has at most one level for each value.
6. One lemma for each action, of which the publication uses 4 and 5, the others 2.

### The book on the generator's events (`OrderBookProofs`, second part)

Of `SoftSpec`, the steps that feed the same event to both books, with `FeedAssumption` and
`RangeAssumption`: references, stocks and the prices of the levels fit their fields, and as
many adds as the list has orders do not overflow a level (1024 orders of at most 100
shares, in 32 bits). The code's values satisfy both.

* `BookStaysMarket`: `[]BookIsMarket`, for every snapping of prices.
* `BookImplementsMarket`: `ImplementsMarketByPrice`, for every snapping of prices.

The invariant `MarketInv` adds to `IInv` the types of what the generator knows
(`MarketTyped`), that each level holds the *total* of what remains of the tracked orders on
it (`LevelsHold`), and that the valid slots are the tracked orders with their level, side
and quantity (`SlotsHold`). The total is a finite sum; `BasicLemmas` splits and bounds
it, and the bound of `RangeAssumption` is what keeps an addition from running round. An
event changes one summand of one level and one slot.

The refinement maps a frame's words back to rows of levels (`RowAt`, `RankedRow`). `AddRefines`,
`RemovalRefines` and `PublishRefines` take one action each: the first two change one order of the
abstract market; for the third, `FramesShowTheBest` says which level each row of the frame shows,
`IndexOfPrice` that a price read back is its level, `DepthIsLevel` that the abstract depth of a
level is the concrete quantity, and `RankUnique` that at most one level has a given
rank. All other steps stutter. So the trees, the arrays and the list cannot be told from
a market of orders by anybody who reads the frames.

### The two books side by side (`OrderBookProofs`, third part)

* `LevelsRank`: `[]LevelsRankAsPrices`
* `BooksStayAlike`: `[]BooksAgree`
* `SnapshotsAreFrames`: `SnapshotIsFrame`

They need no assumption about where the ranges begin. Orders below a range are part of what they
speak of: `LevelsRank` has them on the top level (`IndexBelow`: the wrapped distance is past
the last level because the levels end below 2^32), the other two leave out the books that
such orders have reached, and only those. `AlignedRange` says when there are none: if the
range starts on a tick, clamping before snapping is enough. In `config.csv` that is one stock of
four.

The invariant is `AgreeInv`: `MarketInv` and `Synced`, the equality of books, trees and list
entries (`BooksAgree`) with the shape of the benchmark's own records. `Synced` also has to say that a
valid slot of the benchmark's list names the side of its order; otherwise a cancel in a book
that has left its range could touch one that has not. What has to be shown is that each operation
of `Orderbook.py` gives on equal books what the hardware gives: an unbounded addition is the
modular one because of the bound on sums; the clamp to the level never cuts off anything because a
level holds at least what its order has; the signed index and the unsigned one agree for prices in
the range; the loop that restores the levels leaves what the hardware's leaves. Each event touches
one book and one slot on both sides (`OneChange`), or none (`NoChange`), and a book that is in
its range after an event was so before (`RangeKept`). `FrameRow` finds a book's rows in the
words of the frame.

### The program and lwIP (`TcpClientProofs`)

For any number of orders, any send buffer and any limits of retransmission
(`SizeAssumption`), of `Spec` of `TcpClient`, without its fairness:
`ControlBlockTyped` (`[]TypeOK`), `OrdersStayQueued` (`[]OrdersKept`), `EndIsLast`
(`[]EndAfterOrders`), and `RoomIsExact`, which no run states: the room in the send buffer is what
the queued orders leave of it, so when the busy loop before `tcp_write` waits, it waits
for an order that the server has yet to acknowledge.

The invariant has five parts. `Block`: the numbers of the control block are in order
(`lastack`, `snd_nxt`, `snd_lbb`), its queues are disjoint and within them, the FIN is the last
number. For a live block the queues cover everything from `lastack` on. `Counted`: orders and
FIN together are no more than what has been polled leaves room for. `Handles`: where the program's
handle may point, given its place in the loop. `OnTheWay`: segments and acknowledgements
under way are of numbers that were sent, and no acknowledgement is ahead of the server; this is
what makes late ones harmless after a retransmission. `Others` has the types of the rest.

### The pipeline (`TradingPipelineProofs`)

For any number of stocks, sizes of the frames and messages, depth of the streams and
counters of at least three values (`SizeAssumption`), of `Spec` of `TradingPipeline`, without its
fairness: `PipelineTyped` (`[]TypeOK`), `WholeMessages` (`[]MessagesWhole`), `PathsStayAligned`
(`[]PathsAligned`), and `OrdersInTurn`, which no run states: while every weight is valid, the
messages given to `tcp_write` are those of successive frames. `PipelineKeepsOrder`
(`Promise!Safety`) is the safety part of the refinement of `OrderPerFrame`: in sequence, none
left out but those numbered 0, and never more than `Window` on the way.

For `MessagesWhole` the invariant (`Whole`) is that the words the program holds, followed by those
in the stream and those still to be written, are whole messages after each other. For the
paths it is `Aligned`: give each word its *place*, the frame and the part of it. Then the words
of each stream form a `Chain` of consecutive places that leads from the place its reader
expects to the place its writer has reached; places of different streams are tied together
where a block reads from two streams or writes to two, and the frames that the two counters
skip are skipped by `Skip` on both ways.

The bound needs a count, because frames are numbered modulo `CounterSize`: without it
`published` could run a whole round ahead of `ordered`. The invariant is `Counted`. On each of the
three parts of the way, from the book to `ta_parser`, on to `order_gen`, and on to the
program, the words that are held, in the stream or still to be written make up whole frames or
messages, and their numbers tell how far `published`, the counter of `ta_parser` and `ordered` are
apart. A block that is writing holds no word it has read (`Calls`), so not every place is
full at once. With S the depth of the streams the sum, and two more for the frames numbered 0
and for the one just ordered, is at most 6 + S ÷ `BookWords` +
S ÷ `NumStocks` + (S − 1) ÷ `MessageWords`: that is what
`WindowAssumption` asks of `Window`, an assumption on the promise and not on the code; no other
theorem uses it. `SizeAssumption` has `Window` below `CounterSize`, which the code's 32-bit counters
meet by far.

### The account, the log and the GUI (`OrderMonitorProofs`)

`CashCovered` (`[]CashNeverNegative` of `Portfolio`), for any stocks, prices and weights, under
`AccountAssumption` (prices and the weight unit are not zero). Cash is only set at the end
of a call, so the invariant follows the loop: `Covered`, the cost so far, in parts of the
weight unit, is at most the used part of the portfolio value,
`WeightUnit * total_cost <= (WeightUnit - left) * portfolio_value`. Each stock adds at
most its weight, because the division cuts downwards. `PortfolioTypeCorrect` comes with it.

Of `MonitorSpec` with `MonitorAssumption` (orders and the GUI's batches are not empty):

* `MonitorTyped`: `[]MonitorTypeOK`
* `FileIsGenuine`: `[]RowsGenuine`, for messages joined and cut in any way. The invariant
  numbers the rows: those logged, those the thread still has to log and those in the stream
  increase, so none is logged twice and none out of turn.
* `BooksBalance`: `[]AccountBalances`, until a weight is NaN. Between the calls cash and shares
  are worth the reported value; within a call the shares chosen so far cost what
  `total_cost` says, stock by stock, as a finite sum.
* `GuiAgrees`: `[]MonitorAgrees`, until a weight is NaN and while each read is one message.
  No message is clean that follows one that is not (`CleanFirst`), and then three facts: the orders of a
  message add up to the change of the holdings, what has been read of the stream is whole messages,
  and the rows of the file and the chunks in hand add up to the holdings after the last message read.

### The feed's reception (`FeedReceiveProofs`)

For any feed, window and segment size (`SizeAssumption`): `ReceiveTypeCorrect`,
`QueueStaysOrdered` (`[]OoseqOrdered`), `WindowOpen` (`[]WindowStaysOpen`) and
`StreamReassembled` (`FeedReassembled`).

The queue's order is not inductive alone. A segment that is trimmed to the next one in the
queue is not empty only because queued segments do not overlap and lie above `rcv_nxt`;
what the window promises relates the announced edge to `rcv_wnd`. The invariant is
therefore `TypeOK` with `rcv_wnd = TCP_WND` between calls (the callback reads all it gets),
queued segments above `rcv_nxt` and within the announced window, pairwise disjoint, and
`WindowStaysOpen`, whose first part is what keeps the announced edge from falling behind the
stream even when Nagle's rule withholds an acknowledgement. `AcknowledgeStep` is the one lemma
about the acknowledgement, sent or held back: no window once announced is taken back. The lemmas give what trimming and insertion do to a disjoint queue and
that the chain is an interval without a byte twice.

### The client's framing (`ClientFramingProofs`)

For any feed and any pieces, under `FramingAssumption` (messages follow each other and
have a type byte): `ClientTypeCorrect`, `FramingStays` (`[]FramingKept`),
`WholeMessagesReachBook` (`[]WholeMessagesHandled`), `SnapshotsInStep` (`[]PublishesInStep`).

The invariant for the framing adds that what has been received ends at a cut, which is
what rules out a lone byte of a length as long as no cut lies inside one. The one for the
messages adds two facts: no cut lies above the
position but the end of the piece in hand (`CutsPassed`), and the
message under way is one that is being skipped because a cut lies in it
(`SkipsCutMessage`). So whether a message was in one piece is decided when the position
passes it. For the snapshots the count of orders since the last one, and the snapshots, are
related to the number of messages handled.

### Only model-checked

Every invariant and every action property of the passing runs is a theorem. What stays with TLC is the
liveness (`EveryOrderTaken`, `EveryOrderArrives`, `ClosedBlockFreed`, `GuiCatchesUp`, and that of
`ImplementsOrderPerFrame`): it rests on fairness, that is on `ENABLED`, which is out of the
prover's reach.

## 6. Not modelled, and what is left

Not modelled:

* The floating-point arithmetic of the averages, the covariance and the QR decomposition,
  and with it the software pipeline, which is that arithmetic in sequence.
* The vendored board support package, drivers and lwIP apart from the TCP functions above.
  They are most of the repository's lines, and the program's configuration uses a small
  part of them.
* The earlier `axi_implementation` of the book, which no build script builds; test helpers;
  the drawing of the GUI; the server's pace and its waiting for a next client.

Abstractions within what is modelled:

* `TcpClient`: congestion and send windows, fast retransmission, the persist timer and the
  back-off of timeouts are left out: they decide when a segment goes out, not which
  segments are in which queue. A tick is lost or merged with another; the FIN has a
  sequence number of its own.
* `FeedReceive`: whether an order waits behind one that is not acknowledged is left open at
  each call of `tcp_output`, instead of joining the two directions in one model. Trimming to the receive window, which a server that keeps to the window
  never causes, and the wrap of sequence numbers are left out. No memory for a segment leaves the
  queue as it was; no memory for an acknowledgement is left out.
* `Portfolio`: exact numbers for floats until a weight is NaN, so a sum that a float rounds
  by a part in 2^24 is not rounded, and rounding by any amount up to one part in `Exact`
  after it; infinities are left out; no wrap of the reference number, no portfolio
  above 2^32 units of 1/10000 dollar before NaN. A market price is never 0, since empty rows are
  published with quantity 1.
* `OrderMonitor`: a byte of a number that happens to be the type `O`, and reads longer than
  4096 bytes.
* `SoftwareBook`: prices more than `MaxLevels` ticks below the range, which would end the
  program.

## 7. Running

```
tlc -config MCOrderBook.cfg MCOrderBook.tla
tlc -config MCFeedBook.cfg MCFeedBook.tla
tlc -config MCItchAnyPace.cfg MCItchLink.tla
tlc -config MCEncodedLink.cfg MCEncodedLink.tla
tlc -config TradingPipeline.cfg MCTradingPipeline.tla
tlc -config TcpClient.cfg MCTcpClient.tla
tlc -config TcpFull.cfg MCTcpClient.tla
tlc -config TcpRoom.cfg MCTcpClient.tla
tlc -config FeedReceive.cfg MCFeedReceive.tla
tlc -config FeedSkipped.cfg MCFeedReceive.tla
tlc -config ClientFraming.cfg MCClientFraming.tla
tlc -config MCOrderMonitor.cfg MCOrderMonitor.tla
tlapm OrderBookProofs.tla
tlapm ItchParserProofs.tla
tlapm FeedReceiveProofs.tla
tlapm ClientFramingProofs.tla
tlapm TcpClientProofs.tla
tlapm TradingPipelineProofs.tla
tlapm OrderMonitorProofs.tla
tlapm BasicLemmas.tla
```

Definitions whose comment begins with "Mutant:" are deliberately wrong variants of the
definition that follows them; substituted for it, they make the property that
`PROJECT.json` names fail. No specification uses them.
