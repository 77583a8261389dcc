---------------------------- MODULE MCOrderBook ----------------------------
(***************************************************************************)
(* Small instance of OrderBook under any words at all: unknown types and   *)
(* stocks, reused and out-of-range reference numbers, removals that name   *)
(* a stock the order is not in, quantities that wrap around.  At most      *)
(* MaxWords words arrive.                                                  *)
(***************************************************************************)
EXTENDS OrderBook

CONSTANT MaxWords

VARIABLE words

MCMinPrice == [s \in Stock |-> 2 + s]
MCTickSize == [s \in Stock |-> 2]

Msg(type, id, stock, side, shares, price) ==
  [order_type |-> type, order_ref_num |-> id, stock_id |-> stock,
   buy_sell |-> side, num_shares |-> shares, price |-> price]

\* Prices of stock 0: below its range (0), each level, above the range (11).
\* Three adds of 4 shares wrap a level around to 0; a removal of 1 share from a
\* book that never held the order wraps it to WordSize - 1.
MCInputs ==
  {Msg(ADD, id, 0, SIDE_BID, 4, p) : id \in 0 .. MaxOrderNum, p \in {0, 2, 5, 6, 11}}
    \cup {Msg(ADD, 0, 0, SIDE_ASK, 4, p) : p \in {2, 6}}
    \cup {Msg(ADD, 0, 1, SIDE_ASK, 4, p) : p \in {3, 7}}
    \cup {Msg(t, id, s, SIDE_BID, 1, 0) :
            t \in {CANCEL, DELETE}, id \in 0 .. MaxOrderNum, s \in Stock}
    \cup {Msg(EXECUTE, 1, 0, SIDE_BID, 5, 0)}
    \cup {Msg(3, 0, 0, SIDE_BID, 1, 2), Msg(ADD, 0, NumStocks, SIDE_BID, 1, 2)}

MCInit == Init /\ words = 0

MCNext ==
  \/ (Initialise \/ Publish \/ TakeFrame) /\ UNCHANGED words
  \/ /\ words < MaxWords
     /\ \E m \in Inputs : Intake(m)
     /\ words' = words + 1

MCSpec == MCInit /\ [][MCNext]_<<vars, words>>
=============================================================================
