------------------------------ MODULE FeedBook ------------------------------
(***************************************************************************)
(* OrderBook fed with the events of SW/generate_orders.py, in order and    *)
(* without loss: fresh references, removals of at most what remains, each  *)
(* naming the stock its order was added to.  active_orders is the          *)
(* generator's own record of the market; it is what the book should show.  *)
(***************************************************************************)
EXTENDS OrderBook, FiniteSetsExt

CONSTANTS
  MaxRef,     \* bound: the generator stops after this many adds
  MaxPrice,   \* max_price of config.csv, per stock
  RawPrices,  \* the interpolated prices with noise, before clamping, per stock
  AddShares   \* the sizes of an add (10 .. 100 in the code)

ASSUME FeedAssumption ==
  /\ MaxRef \in Nat
  /\ MaxPrice \in [Stock -> Word]
  /\ RawPrices \in [Stock -> SUBSET Word]
  /\ AddShares \subseteq Word \ {0}

\* References, stocks and the prices of the levels fit their fields, and the orders
\* that fit the list cannot make a level overflow: 1024 orders of at most 100 shares,
\* in 32 bits.
ASSUME RangeAssumption ==
  /\ MaxRef < WordSize /\ NumStocks <= WordSize
  /\ \A s \in Stock : MinPrice[s] + (MaxLevels - 1) * TickSize[s] < WordSize
  /\ \A shares \in AddShares : shares * MaxOrderNum < WordSize

VARIABLE active_orders  \* sequence: order_ref -> what the generator knows of it

feedVars == <<vars, active_orders>>

\* Clamp to the configured range, then snap to a multiple of the tick.
final_price(s, raw) ==
  LET capped == IF raw > MaxPrice[s] THEN MaxPrice[s] ELSE raw
      clamped == IF capped < MinPrice[s] THEN MinPrice[s] ELSE capped
  IN  (clamped \div TickSize[s]) * TickSize[s]

\* The event as the parser presents it, all fields in place.
Event(type, ref, side, shares, s, price) ==
  [order_type |-> type, order_ref_num |-> ref, buy_sell |-> side,
   num_shares |-> shares, stock_id |-> s, price |-> price]

FeedAdd(s, side, shares, raw) ==
  LET ref == Len(active_orders) + 1
      price == final_price(s, raw)
  IN  /\ ref <= MaxRef
      /\ AddOrder(Event(ADD, ref, side, shares, s, price))
      /\ active_orders' = Append(active_orders,
           [stock_id |-> s, buy_sell |-> side, price |-> price,
            remaining_shares |-> shares, deleted |-> FALSE])

IsActive(ref) == ~active_orders[ref].deleted /\ active_orders[ref].remaining_shares > 0

\* Partial cancel (X) or execution (E) of 1 .. remaining_shares.
FeedCancel(type, ref, qty) ==
  LET o == active_orders[ref]
  IN  /\ IsActive(ref)
      /\ qty <= o.remaining_shares
      /\ RemoveOrder(Event(type, ref, o.buy_sell, qty, o.stock_id, 0))
      /\ active_orders' = [active_orders EXCEPT ![ref].remaining_shares = @ - qty]

FeedDelete(ref) ==
  LET o == active_orders[ref]
  IN  /\ IsActive(ref)
      /\ RemoveOrder(Event(DELETE, ref, o.buy_sell, 0, o.stock_id, 0))
      /\ active_orders' = [active_orders EXCEPT ![ref].remaining_shares = 0,
                                                ![ref].deleted = TRUE]

FeedInit == Init /\ active_orders = <<>>

-----------------------------------------------------------------------------
(* Properties.                                                             *)

\* The orders of the market that have a slot in the order list.
Tracked == {ref \in 1 .. Len(active_orders) : IsActive(ref) /\ ref < MaxOrderNum}
LevelOf(ref) == price_to_index(active_orders[ref].stock_id, active_orders[ref].price)

\* Order list and level arrays are two copies of one truth: each level holds the
\* sum of what remains of the market's orders on it, and the valid slots are
\* exactly the market's orders.  Orders past MAX_ORDER_NUM are in neither.
BookIsMarket ==
  initialized =>
    /\ \A b \in Books, l \in Level :
         books[b].price_quantity[l] =
           MapThenSumSet(LAMBDA ref : active_orders[ref].remaining_shares,
             {ref \in Tracked : LevelOf(ref) = l /\
                active_orders[ref].buy_sell = b[1] /\ active_orders[ref].stock_id = b[2]})
    /\ \A id \in OrderId : order_list[id].valid <=> id \in Tracked
    /\ \A id \in Tracked : order_list[id].quantity = active_orders[id].remaining_shares

\* Snapped to the tick below it, the price of an order may leave the range of its
\* stock: the range need not start on a tick.
Below(ref) == active_orders[ref].price < MinPrice[active_orders[ref].stock_id]

\* Among orders of one stock that lie in its range, a dearer one never rests on a
\* lower level.  One below the range rests on the top level, cheap as it is: the
\* subtraction in price_to_index is unsigned.
LevelsRankAsPrices ==
  \A r, q \in Tracked :
    IF Below(r) THEN LevelOf(r) = MaxLevels - 1
    ELSE /\ active_orders[r].stock_id = active_orders[q].stock_id
         /\ active_orders[r].price <= active_orders[q].price
         => LevelOf(r) <= LevelOf(q)

-----------------------------------------------------------------------------
(* Refinement: the words of a frame are read back as rows of levels.       *)

\* Words before row i of book b.
Place(b, i) ==
  4 * CacheSize * b[2] + 2 * (i - 1) + (IF b[1] = SIDE_ASK THEN 0 ELSE 2 * CacheSize)

RowAt(b, i) ==
  [level |-> price_to_index(b[2], outStream[Place(b, i) + 1].data),
   quantity |-> outStream[Place(b, i) + 2].data]

Market == INSTANCE MarketByPrice WITH
  Refs <- 1 .. MaxRef,
  orders <- [ref \in Tracked |-> [stock |-> active_orders[ref].stock_id,
                                  side |-> active_orders[ref].buy_sell,
                                  level |-> LevelOf(ref),
                                  quantity |-> active_orders[ref].remaining_shares]],
  unseen <- num_new_order,
  frame <- IF outStream = <<>> THEN <<>>
           ELSE [b \in Books |-> [i \in 1 .. CacheSize |-> RowAt(b, i)]]

\* The book with its trees, level arrays and order list implements MarketByPrice:
\* every message changes one order, every frame shows the best levels of the
\* market with the sum of what rests on them.
ImplementsMarketByPrice == Market!Spec
=============================================================================
