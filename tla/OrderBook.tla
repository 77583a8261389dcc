------------------------------ MODULE OrderBook ------------------------------
(***************************************************************************)
(* The HLS order book, Orderbook_wrapper of                                *)
(* HW/hls_ips/order_book_src/Orderbook_tree_optimized.cpp: per stock a bid *)
(* and an ask book of MaxLevels price levels, each with a segment tree     *)
(* whose root is the best non-empty level, and one list of orders indexed  *)
(* by the reference number.  Every PublishPeriod parser words, the         *)
(* CacheSize best rows of each book are written to the algorithm stream.   *)
(*                                                                         *)
(* The core is ap_ctrl_none: Orderbook_wrapper is called for ever, and one *)
(* call initialises (once), then publishes if due, then reads at most one  *)
(* word.  Each of the three is an action; their guards keep the order of   *)
(* the code.  outStream.write blocks while the reader has not taken the    *)
(* words (no FIFO is instantiated in build.tcl), so nothing else happens   *)
(* while outStream holds words.                                            *)
(***************************************************************************)
EXTENDS Integers, Sequences, FiniteSets

CONSTANTS
  NumStocks,      \* NUM_STOCKS
  MaxOrderNum,    \* MAX_ORDER_NUM
  MaxLevels,      \* MAX_LEVELS
  CacheSize,      \* CACHE_SIZE, the rows get_top_5 returns
  PublishPeriod,  \* the 20 of "num_new_order >= 20"
  WordSize,       \* 2^32, the number of values of an ap_uint<32>
  MinPrice,       \* MIN_PRICE_INIT
  TickSize,       \* TICK_INIT
  Inputs          \* the words the parser may present

SIDE_BID == 0
SIDE_ASK == 1
ADD == 1
CANCEL == 2
EXECUTE == 4
DELETE == 8

Word == 0 .. WordSize - 1
NEG_ONE == WordSize - 1
Stock == 0 .. NumStocks - 1
OrderId == 0 .. MaxOrderNum - 1
Level == 0 .. MaxLevels - 1
Node == 0 .. 2 * MaxLevels - 1
Side == {SIDE_BID, SIDE_ASK}
Books == Side \X Stock

ParserWord == [stock_id : Word, order_ref_num : Word, num_shares : Word,
               price : Word, order_type : 0 .. 15, buy_sell : Side]

ASSUME SizeAssumption ==
  /\ NumStocks \in Nat \ {0}
  /\ MaxOrderNum \in Nat \ {0}
  /\ MaxLevels \in Nat \ {0}
  /\ CacheSize \in Nat \ {0}
  /\ PublishPeriod \in Nat \ {0}
  /\ WordSize \in Nat
  /\ 2 * MaxLevels < WordSize

ASSUME PriceAssumption ==
  /\ MinPrice \in [Stock -> Word]
  /\ TickSize \in [Stock -> Word \ {0}]

ASSUME InputAssumption == Inputs \subseteq ParserWord

VARIABLES
  initialized,    \* static bool initialized
  num_new_order,  \* words read since the last publication
  books,          \* bid_books and ask_books
  order_list,     \* OrderList, one entry per reference number
  outStream       \* outStream_algo: words written, not yet taken

vars == <<initialized, num_new_order, books, order_list, outStream>>

Book == [price_quantity : [Level -> Word], segment_tree : [Node -> Word]]
Order == [valid : BOOLEAN, price_index : Word, quantity : Word, ask_bid : 0 .. 3]
AxisWord == [data : Word, last : 0 .. 1]

TypeOK ==
  /\ initialized \in BOOLEAN
  /\ num_new_order \in 0 .. PublishPeriod
  /\ books \in [Books -> Book]
  /\ order_list \in [OrderId -> Order]
  /\ \A id \in OrderId : order_list[id].valid => order_list[id].price_index \in Level
  /\ outStream \in Seq(AxisWord)

-----------------------------------------------------------------------------
(* The segment tree.                                                       *)

\* Mutant: the worse of two levels wins.
choose_preferred_swapped(idxA, idxB, side) ==
  CASE idxA = NEG_ONE -> idxB
    [] idxB = NEG_ONE -> idxA
    [] OTHER -> IF (side = SIDE_BID) = (idxA < idxB) THEN idxA ELSE idxB

choose_preferred(idxA, idxB, side) ==
  CASE idxA = NEG_ONE -> idxB
    [] idxB = NEG_ONE -> idxA
    [] OTHER -> IF (side = SIDE_BID) = (idxA > idxB) THEN idxA ELSE idxB

\* What a leaf holds: its own index when the level has quantity.
LeafMark(qty, leaf) == IF qty[leaf] > 0 THEN leaf ELSE NEG_ONE

\* Mutant: the loop is "while (node > 1)".
BubbleStep_below_root(side, s) ==
  IF s.node <= 1 THEN s
  ELSE [node |-> s.node \div 2,
        tree |-> [s.tree EXCEPT ![s.node] =
                    choose_preferred(s.tree[2 * s.node], s.tree[2 * s.node + 1], side)]]

\* One turn of "while (node > 0)": recompute a node, move to its parent.
BubbleStep(side, s) ==
  IF s.node = 0 THEN s
  ELSE [node |-> s.node \div 2,
        tree |-> [s.tree EXCEPT ![s.node] =
                    choose_preferred(s.tree[2 * s.node], s.tree[2 * s.node + 1], side)]]

\* Mark the leaf, then recompute its ancestors (MaxLevels turns are enough).
bubble_up(tree, qty, leaf, side) ==
  LET start == [node |-> (leaf + MaxLevels) \div 2,
                tree |-> [tree EXCEPT ![leaf + MaxLevels] = LeafMark(qty, leaf)]]
      loop[k \in 0 .. MaxLevels] ==
        IF k = 0 THEN start ELSE BubbleStep(side, loop[k - 1])
  IN  loop[MaxLevels].tree

\* Every write of a level is followed by bubble_up on it.
SetLevel(book, side, leaf, value) ==
  LET qty == [book.price_quantity EXCEPT ![leaf] = value]
  IN  [price_quantity |-> qty,
       segment_tree |-> bubble_up(book.segment_tree, qty, leaf, side)]

\* Mutant: the index is truncated to its width instead of clamped.
price_to_index_truncated(stock, p) ==
  (((p - MinPrice[stock]) % WordSize) \div TickSize[stock]) % MaxLevels

price_to_index(stock, p) ==
  LET idx == ((p - MinPrice[stock]) % WordSize) \div TickSize[stock]
  IN  IF idx >= MaxLevels THEN MaxLevels - 1 ELSE idx

index_to_price(stock, idx) == (MinPrice[stock] + idx * TickSize[stock]) % WordSize

-----------------------------------------------------------------------------
(* The operations of the wrapper.                                          *)

EmptyBook == [price_quantity |-> [l \in Level |-> 0],
              segment_tree |-> [n \in Node |-> NEG_ONE]]
NoOrder == [valid |-> FALSE, price_index |-> 0, quantity |-> 0, ask_bid |-> 2]

\* init_all_books, in the first call.
Initialise ==
  /\ ~initialized
  /\ initialized' = TRUE
  /\ books' = [b \in Books |-> EmptyBook]
  /\ order_list' = [id \in OrderId |-> NoOrder]
  /\ UNCHANGED <<num_new_order, outStream>>

\* Mutant: the publication check is gone.
Read_unchecked ==
  /\ initialized
  /\ outStream = <<>>
  /\ num_new_order' = num_new_order + 1
  /\ UNCHANGED <<initialized, outStream>>

\* The call reads word m: no publication is due and no write is pending.
Read ==
  /\ initialized
  /\ num_new_order < PublishPeriod
  /\ outStream = <<>>
  /\ num_new_order' = num_new_order + 1
  /\ UNCHANGED <<initialized, outStream>>

add_order(m) ==
  IF m.order_ref_num >= MaxOrderNum THEN UNCHANGED <<books, order_list>>
  ELSE LET b == <<m.buy_sell, m.stock_id>>
           idx == price_to_index(m.stock_id, m.price)
           qty == (books[b].price_quantity[idx] + m.num_shares) % WordSize
       IN  /\ books' = [books EXCEPT ![b] = SetLevel(@, m.buy_sell, idx, qty)]
           /\ order_list' = [order_list EXCEPT ![m.order_ref_num] =
                [valid |-> TRUE, price_index |-> idx, quantity |-> m.num_shares,
                 ask_bid |-> m.buy_sell]]

IsLive(id) == id < MaxOrderNum /\ order_list[id].valid

\* The result is an ap_uint<1>: the "return 2" for no order comes out as 0.
check_ask_bid(id) == (IF IsLive(id) THEN order_list[id].ask_bid ELSE 2) % 2

\* Mutant: a partial removal forgets to write the order's remaining quantity.
cancel_order_level_only(b, id, cancel_qty) ==
  IF ~IsLive(id) THEN UNCHANGED <<books, order_list>>
  ELSE LET idx == order_list[id].price_index
           old_qty == order_list[id].quantity
           remove_qty == IF cancel_qty = NEG_ONE \/ cancel_qty > old_qty
                         THEN old_qty ELSE cancel_qty
           qty == (books[b].price_quantity[idx] - remove_qty) % WordSize
       IN  /\ books' = [books EXCEPT ![b] = SetLevel(@, b[1], idx, qty)]
           /\ order_list' = [order_list EXCEPT ![id] =
                IF remove_qty = old_qty
                THEN [@ EXCEPT !.valid = FALSE, !.quantity = 0, !.ask_bid = 3]
                ELSE @]

cancel_order(b, id, cancel_qty) ==
  IF ~IsLive(id) THEN UNCHANGED <<books, order_list>>
  ELSE LET idx == order_list[id].price_index
           old_qty == order_list[id].quantity
           remove_qty == IF cancel_qty = NEG_ONE \/ cancel_qty > old_qty
                         THEN old_qty ELSE cancel_qty
           qty == (books[b].price_quantity[idx] - remove_qty) % WordSize
       IN  /\ books' = [books EXCEPT ![b] = SetLevel(@, b[1], idx, qty)]
           /\ order_list' = [order_list EXCEPT ![id] =
                IF remove_qty = old_qty
                THEN [@ EXCEPT !.valid = FALSE, !.quantity = 0, !.ask_bid = 3]
                ELSE [@ EXCEPT !.quantity = old_qty - remove_qty]]

AddOrder(m) ==
  /\ Read
  /\ m.order_type = ADD
  /\ m.stock_id < NumStocks
  /\ add_order(m)

\* Cancel and execute take num_shares off, delete takes everything off, in the
\* book of the stock the message names.
RemoveOrder(m) ==
  /\ Read
  /\ m.order_type \in {CANCEL, EXECUTE, DELETE}
  /\ m.stock_id < NumStocks
  /\ cancel_order(<<check_ask_bid(m.order_ref_num), m.stock_id>>, m.order_ref_num,
                  IF m.order_type = DELETE THEN NEG_ONE ELSE m.num_shares)

\* Other types and unknown stocks change no book, and are counted all the same.
IgnoreWord(m) ==
  /\ Read
  /\ m.order_type \notin {ADD, CANCEL, EXECUTE, DELETE} \/ m.stock_id >= NumStocks
  /\ UNCHANGED <<books, order_list>>

Intake(m) == AddOrder(m) \/ RemoveOrder(m) \/ IgnoreWord(m)

-----------------------------------------------------------------------------
(* Publication.                                                            *)

\* Mutant: a level is taken out of the array without a bubble_up.
PopBest_no_bubble(book, side) ==
  LET best == book.segment_tree[1]
  IN  IF best = NEG_ONE THEN [book |-> book, taken |-> <<>>]
      ELSE [book |-> [book EXCEPT !.price_quantity[best] = 0],
            taken |-> [k \in 1 .. CacheSize |->
                         [index |-> best, qty |-> book.price_quantity[best]]]]

\* The first loop of get_top_5: take the root's level out, at most CacheSize
\* times, stopping at an empty tree.
PopBest(book, side) ==
  LET loop[k \in 0 .. CacheSize] ==
        IF k = 0 THEN [book |-> book, taken |-> <<>>]
        ELSE LET s == loop[k - 1]
                 best == s.book.segment_tree[1]
             IN  IF best = NEG_ONE THEN s
                 ELSE [book |-> SetLevel(s.book, side, best, 0),
                       taken |-> Append(s.taken,
                          [index |-> best, qty |-> s.book.price_quantity[best]])]
  IN  loop[CacheSize]

\* Mutant: the last row taken is not put back.
Restore_all_but_one(book, side, taken) ==
  LET loop[k \in 0 .. Len(taken)] ==
        IF k = 0 THEN book
        ELSE IF k = Len(taken) THEN loop[k - 1]
        ELSE SetLevel(loop[k - 1], side, taken[k].index, taken[k].qty)
  IN  loop[Len(taken)]

\* The second loop: put back what was taken out.
Restore(book, side, taken) ==
  LET loop[k \in 0 .. Len(taken)] ==
        IF k = 0 THEN book
        ELSE SetLevel(loop[k - 1], side, taken[k].index, taken[k].qty)
  IN  loop[Len(taken)]

WorstLevel(side) == IF side = SIDE_BID THEN 0 ELSE MaxLevels - 1

get_top_5(b) ==
  LET popped == PopBest(books[b], b[1])
      row(i) == IF i <= Len(popped.taken) THEN popped.taken[i]
                ELSE [index |-> WorstLevel(b[1]), qty |-> 1]
  IN  [book |-> Restore(popped.book, b[1], popped.taken),
       rows |-> [i \in 1 .. CacheSize |-> [price |-> index_to_price(b[2], row(i).index),
                                           qty |-> row(i).qty]]]

\* Mutant: the bid rows are written first.
FrameWords_bid_first(rows) ==
  LET perStock == 4 * CacheSize
      at(s, r) == IF r <= CacheSize THEN rows[<<SIDE_BID, s>>][r]
                  ELSE rows[<<SIDE_ASK, s>>][r - CacheSize]
  IN  [j \in 1 .. perStock * NumStocks |->
         LET row == at((j - 1) \div perStock, ((j - 1) % perStock) \div 2 + 1)
         IN  [data |-> IF j % 2 = 1 THEN row.price ELSE row.qty,
              last |-> IF j % perStock = 0 THEN 1 ELSE 0]]

\* The words of one frame: for each stock the ask rows and then the bid rows,
\* price before quantity, last on the final word of the stock.
FrameWords(rows) ==
  LET perStock == 4 * CacheSize
      at(s, r) == IF r <= CacheSize THEN rows[<<SIDE_ASK, s>>][r]
                  ELSE rows[<<SIDE_BID, s>>][r - CacheSize]
  IN  [j \in 1 .. perStock * NumStocks |->
         LET row == at((j - 1) \div perStock, ((j - 1) % perStock) \div 2 + 1)
         IN  [data |-> IF j % 2 = 1 THEN row.price ELSE row.qty,
              last |-> IF j % perStock = 0 THEN 1 ELSE 0]]

Publish ==
  /\ initialized
  /\ num_new_order >= PublishPeriod
  /\ outStream = <<>>
  /\ num_new_order' = 0
  /\ LET top == [b \in Books |-> get_top_5(b)]
     IN  /\ books' = [b \in Books |-> top[b].book]
         /\ outStream' = FrameWords([b \in Books |-> top[b].rows])
  /\ UNCHANGED <<initialized, order_list>>

\* The reader of outStream_algo (ta_parser) takes the words of a frame.
TakeFrame ==
  /\ outStream # <<>>
  /\ outStream' = <<>>
  /\ UNCHANGED <<initialized, num_new_order, books, order_list>>

Init ==
  /\ initialized = FALSE
  /\ num_new_order = 0
  /\ books = [b \in Books |-> [price_quantity |-> [l \in Level |-> 0],
                               segment_tree |-> [n \in Node |-> 0]]]
  /\ order_list = [id \in OrderId |->
                    [valid |-> FALSE, price_index |-> 0, quantity |-> 0, ask_bid |-> 0]]
  /\ outStream = <<>>

Next ==
  \/ Initialise
  \/ \E m \in Inputs : AddOrder(m)
  \/ \E m \in Inputs : RemoveOrder(m)
  \/ \E m \in Inputs : IgnoreWord(m)
  \/ Publish
  \/ TakeFrame

Spec == Init /\ [][Next]_vars
-----------------------------------------------------------------------------
(* Properties.                                                             *)

\* Every node holds what choose_preferred makes of its children, every leaf its
\* own index or NEG_ONE: the shape that bubble_up repairs one path of.
TreeConsistent(book, side) ==
  /\ \A leaf \in Level :
       book.segment_tree[leaf + MaxLevels] = LeafMark(book.price_quantity, leaf)
  /\ \A n \in 1 .. MaxLevels - 1 :
       book.segment_tree[n] =
         choose_preferred(book.segment_tree[2 * n], book.segment_tree[2 * n + 1], side)

\* Once initialised, no sequence of words, of whatever type, stock, reference
\* number or quantity, leaves a stale node in a segment tree (bubble_up).
TreesConsistent == initialized => \A b \in Books : TreeConsistent(books[b], b[1])

Better(side, l, k) == IF side = SIDE_BID THEN l > k ELSE l < k
Occupied(book) == {l \in Level : book.price_quantity[l] > 0}

\* The root is the best occupied level, or NEG_ONE when the book is empty: what
\* get_top_5 reads in constant time instead of scanning the levels.
RootIsBest ==
  initialized => \A b \in Books :
    LET root == books[b].segment_tree[1]
    IN  IF Occupied(books[b]) = {} THEN root = NEG_ONE
        ELSE /\ root \in Occupied(books[b])
             /\ \A l \in Occupied(books[b]) \ {root} : Better(b[1], root, l)

\* The levels that get_top_5 should list: the i-th has i - 1 better ones.
RankedLevels(b, i) ==
  {l \in Occupied(books[b]) :
     Cardinality({k \in Occupied(books[b]) : Better(b[1], k, l)}) = i - 1}

BestRows(b) ==
  [i \in 1 .. CacheSize |->
     IF RankedLevels(b, i) = {}
     THEN [price |-> index_to_price(b[2], WorstLevel(b[1])), qty |-> 1]
     ELSE LET l == CHOOSE l \in RankedLevels(b, i) : TRUE
          IN  [price |-> index_to_price(b[2], l), qty |-> books[b].price_quantity[l]]]

\* get_top_5 takes levels out of the live book to find the next one; a frame
\* still shows the best rows of the book as it stood, padded with the worst price.
FramesShowBestRows ==
  [][outStream' # <<>> =>
       outStream' = FrameWords([b \in Books |-> BestRows(b)])]_outStream

\* Publishing puts back all it took out: levels and trees are as before.
PublishRestoresBooks == [][num_new_order' < num_new_order => books' = books]_vars
=============================================================================
