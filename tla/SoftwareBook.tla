---------------------------- MODULE SoftwareBook ----------------------------
(***************************************************************************)
(* SW/Orderbook.py, the order book of the software benchmark, run beside   *)
(* the hardware book on the same events (FeedBook).  Its numbers are       *)
(* unbounded, its removals are clamped to what the level holds, and a list *)
(* index below 0 counts from the end of the list.  (A price more than      *)
(* MaxLevels ticks below the range would end the program; the generator's  *)
(* prices are at most one tick below.)                                     *)
(***************************************************************************)
EXTENDS FeedBook

VARIABLES
  soft_books,  \* bid_books and ask_books
  soft_list    \* the OrderList

softVars == <<feedVars, soft_books, soft_list>>

\* The element of a list of n that index i names.
At(i, n) == IF i < 0 THEN n + i ELSE i

soft_price_to_index(s, price) ==
  LET idx == (price - MinPrice[s]) \div TickSize[s]
  IN  IF idx >= MaxLevels THEN MaxLevels - 1 ELSE idx

soft_bubble_up(tree, qty, leaf, side) ==
  LET mark == IF qty[At(leaf, MaxLevels)] > 0 THEN leaf ELSE NEG_ONE
      start == [node |-> (leaf + MaxLevels) \div 2,
                tree |-> [tree EXCEPT ![leaf + MaxLevels] = mark]]
      loop[k \in 0 .. MaxLevels] ==
        IF k = 0 THEN start ELSE BubbleStep(side, loop[k - 1])
  IN  loop[MaxLevels].tree

SoftSetLevel(book, side, idx, value) ==
  LET qty == [book.price_quantity EXCEPT ![At(idx, MaxLevels)] = value]
  IN  [price_quantity |-> qty,
       segment_tree |-> soft_bubble_up(book.segment_tree, qty, idx, side)]

soft_add_order(s, id, price, quantity, side) ==
  IF s >= NumStocks \/ id >= MaxOrderNum THEN UNCHANGED <<soft_books, soft_list>>
  ELSE LET b == <<side, s>>
           idx == soft_price_to_index(s, price)
           held == soft_books[b].price_quantity[At(idx, MaxLevels)]
       IN  /\ soft_books' = [soft_books EXCEPT ![b] =
                               SoftSetLevel(@, side, idx, held + quantity)]
           /\ soft_list' = [soft_list EXCEPT ![id] =
                [valid |-> TRUE, price_index |-> idx, quantity |-> quantity,
                 ask_bid |-> side]]

\* Mutant: what is left of the order is reckoned from what was asked for, and a
\* delete (the largest number) leaves less than nothing.
soft_cancel_order_unclamped(s, id, cancel_qty) ==
  IF s >= NumStocks \/ id >= MaxOrderNum \/ ~ soft_list[id].valid
  THEN UNCHANGED <<soft_books, soft_list>>
  ELSE LET o == soft_list[id]
           b == <<o.ask_bid, s>>
           held == soft_books[b].price_quantity[At(o.price_index, MaxLevels)]
           removed == Min({cancel_qty, held})
       IN  /\ soft_books' = [soft_books EXCEPT ![b] =
                               SoftSetLevel(@, o.ask_bid, o.price_index, held - removed)]
           /\ soft_list' = [soft_list EXCEPT ![id] =
                IF removed = o.quantity
                THEN [@ EXCEPT !.valid = FALSE, !.quantity = 0, !.ask_bid = 3]
                ELSE [@ EXCEPT !.quantity = o.quantity - removed]]

\* NEG_ONE asks for all of the order.  remove_quantity takes at most what the level
\* holds, and what it took is taken off the order.
soft_cancel_order(s, id, cancel_qty) ==
  IF s >= NumStocks \/ id >= MaxOrderNum \/ ~ soft_list[id].valid
  THEN UNCHANGED <<soft_books, soft_list>>
  ELSE LET o == soft_list[id]
           b == <<o.ask_bid, s>>
           held == soft_books[b].price_quantity[At(o.price_index, MaxLevels)]
           asked == IF cancel_qty = NEG_ONE THEN o.quantity ELSE Min({cancel_qty, o.quantity})
           removed == Min({asked, held})
       IN  /\ soft_books' = [soft_books EXCEPT ![b] =
                               SoftSetLevel(@, o.ask_bid, o.price_index, held - removed)]
           /\ soft_list' = [soft_list EXCEPT ![id] =
                IF removed = o.quantity
                THEN [@ EXCEPT !.valid = FALSE, !.quantity = 0, !.ask_bid = 3]
                ELSE [@ EXCEPT !.quantity = o.quantity - removed]]

\* The levels that get_top_5 takes out, best first, and the book without them.
SoftPop(book, side) ==
  LET loop[k \in 0 .. CacheSize] ==
        IF k = 0 THEN [book |-> book, saved |-> <<>>]
        ELSE LET s == loop[k - 1]
                 best == s.book.segment_tree[1]
             IN  IF best = NEG_ONE THEN s
                 ELSE [book |-> SoftSetLevel(s.book, side, best, 0),
                       saved |-> Append(s.saved, [index |-> best,
                         qty |-> s.book.price_quantity[At(best, MaxLevels)]])]
  IN  loop[CacheSize]

\* Mutant: levels are restored without a bubble_up.
SoftRestore_no_bubble(book, side, saved) ==
  [book EXCEPT !.price_quantity = [l \in Level |->
     IF \E i \in DOMAIN saved : saved[i].index = l
     THEN (CHOOSE r \in Range(saved) : r.index = l).qty ELSE @[l]]]

SoftRestore(book, side, saved) ==
  LET loop[k \in 0 .. Len(saved)] ==
        IF k = 0 THEN book
        ELSE SoftSetLevel(loop[k - 1], side, saved[k].index, saved[k].qty)
  IN  loop[Len(saved)]

soft_get_top_5(b) ==
  LET popped == SoftPop(soft_books[b], b[1])
      worst == IF b[1] = SIDE_BID THEN 0 ELSE MaxLevels - 1
      row(i) == IF i <= Len(popped.saved) THEN popped.saved[i]
                ELSE [index |-> worst, qty |-> 1]
  IN  [book |-> SoftRestore(popped.book, b[1], popped.saved),
       rows |-> [i \in 1 .. CacheSize |->
                   [price |-> MinPrice[b[2]] + row(i).index * TickSize[b[2]],
                    qty |-> row(i).qty]]]

\* publish_snapshot, at the threshold that both programs count the messages to.
SoftPublish ==
  /\ Publish
  /\ soft_books' = [b \in Books |-> soft_get_top_5(b).book]
  /\ UNCHANGED <<soft_list, active_orders>>

SoftAdd ==
  \E s \in Stock, side \in Side, shares \in AddShares : \E raw \in RawPrices[s] :
    /\ FeedAdd(s, side, shares, raw)
    /\ soft_add_order(s, Len(active_orders) + 1, final_price(s, raw), shares, side)

SoftCancel ==
  \E type \in {CANCEL, EXECUTE}, ref \in 1 .. Len(active_orders) :
    \E qty \in 1 .. active_orders[ref].remaining_shares :
      /\ FeedCancel(type, ref, qty)
      /\ soft_cancel_order(active_orders[ref].stock_id, ref, qty)

SoftDelete ==
  \E ref \in 1 .. Len(active_orders) :
    /\ FeedDelete(ref)
    /\ soft_cancel_order(active_orders[ref].stock_id, ref, NEG_ONE)

\* The hardware book's own steps.
HardwareStep ==
  /\ Initialise \/ TakeFrame
  /\ UNCHANGED <<active_orders, soft_books, soft_list>>

SoftInit ==
  /\ FeedInit
  /\ soft_books = [b \in Books |-> EmptyBook]
  /\ soft_list = [id \in OrderId |-> NoOrder]

SoftNext == SoftAdd \/ SoftCancel \/ SoftDelete \/ SoftPublish \/ HardwareStep

SoftSpec == SoftInit /\ [][SoftNext]_softVars

-----------------------------------------------------------------------------
(* Properties.                                                             *)

BookOf(ref) == <<active_orders[ref].buy_sell, active_orders[ref].stock_id>>

\* No order that reached the book was below the range: there the hardware takes the
\* top level, and the benchmark index -1, whose leaf is an inner node of the tree.
InRange(b) ==
  \A ref \in 1 .. Len(active_orders) : ref < MaxOrderNum /\ BookOf(ref) = b => ~ Below(ref)

\* The words of the next frame that tell of book b are these rows.
FrameHas(b, rows) ==
  \A i \in 1 .. CacheSize : /\ outStream'[Place(b, i) + 1].data = rows[i].price
                            /\ outStream'[Place(b, i) + 2].data = rows[i].qty

\* The benchmark mimics the hardware: fed with the generator's events it shows, at
\* each publication, the prices and quantities of the hardware's frame, though
\* neither keeps its numbers as the other does, for each book that has stayed in its
\* range, whatever happens in the others.
SnapshotIsFrame ==
  [][outStream' # <<>> => \A b \in Books : InRange(b) => FrameHas(b, soft_get_top_5(b).rows)]_softVars

\* Between publications too, trees and levels of such a book and the list entries of
\* its orders are the same.
BooksAgree ==
  initialized =>
    /\ \A b \in Books : InRange(b) => soft_books[b] = books[b]
    /\ \A id \in OrderId :
         (id \in 1 .. Len(active_orders) => InRange(BookOf(id))) => soft_list[id] = order_list[id]
=============================================================================
