--------------------------- MODULE MarketByPrice ---------------------------
(***************************************************************************)
(* What the order book promises: it knows the live orders, and after every *)
(* PublishPeriod messages it shows, per stock and side, the CacheSize best *)
(* price levels with the total quantity resting on each.  No tree, no      *)
(* level array, no order list: OrderBook, fed with well-formed messages,   *)
(* implements this (FeedBook).                                             *)
(***************************************************************************)
EXTENDS Integers, FiniteSets, FiniteSetsExt

CONSTANTS NumStocks, MaxLevels, CacheSize, PublishPeriod, Refs

VARIABLES
  orders,  \* the live orders: reference -> [stock, side, level, quantity]
  unseen,  \* messages since the last frame
  frame    \* the frame offered to the reader, or None

vars == <<orders, unseen, frame>>

None == <<>>
Side == {0, 1}
Books == Side \X (0 .. NumStocks - 1)
Level == 0 .. MaxLevels - 1

Resting(b, l) == {r \in DOMAIN orders :
                    orders[r].side = b[1] /\ orders[r].stock = b[2] /\ orders[r].level = l}
Depth(b, l) == MapThenSumSet(LAMBDA r : orders[r].quantity, Resting(b, l))

\* The level of row i: i - 1 quoted levels are better; 0 is the bid side.
IsRow(b, i, l) ==
  /\ Resting(b, l) # {}
  /\ Cardinality({k \in Level : Resting(b, k) # {} /\ IF b[1] = 0 THEN k > l ELSE k < l}) = i - 1

\* Rows past the last quoted level show one share at the worst level.
Row(b, i) ==
  IF \E l \in Level : IsRow(b, i, l)
  THEN LET l == CHOOSE l \in Level : IsRow(b, i, l)
       IN  [level |-> l, quantity |-> Depth(b, l)]
  ELSE [level |-> IF b[1] = 0 THEN 0 ELSE MaxLevels - 1, quantity |-> 1]

Message == /\ unseen < PublishPeriod
           /\ frame = None
           /\ unseen' = unseen + 1
           /\ UNCHANGED frame

Add == /\ Message
       /\ \E r \in Refs \ DOMAIN orders :
            /\ DOMAIN orders' = DOMAIN orders \cup {r}
            /\ orders'[r].side \in Side /\ orders'[r].stock \in 0 .. NumStocks - 1
            /\ orders'[r].level \in Level /\ orders'[r].quantity > 0
            /\ \A s \in DOMAIN orders : orders'[s] = orders[s]

Reduce == /\ Message
          /\ \E r \in DOMAIN orders : \E left \in 0 .. orders[r].quantity - 1 :
               orders' = IF left = 0 THEN [s \in DOMAIN orders \ {r} |-> orders[s]]
                         ELSE [orders EXCEPT ![r].quantity = left]

\* A message about an order the book has no room for.
Untracked == Message /\ UNCHANGED orders

Publish == /\ unseen = PublishPeriod
           /\ unseen' = 0
           /\ frame' = [b \in Books |-> [i \in 1 .. CacheSize |-> Row(b, i)]]
           /\ UNCHANGED orders

Take == /\ frame # None
        /\ frame' = None
        /\ UNCHANGED <<orders, unseen>>

Init == orders = [r \in {} |-> 0] /\ unseen = 0 /\ frame = None

Next == Add \/ Reduce \/ Untracked \/ Publish \/ Take

Spec == Init /\ [][Next]_vars
=============================================================================
