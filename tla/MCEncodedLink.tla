--------------------------- MODULE MCEncodedLink ---------------------------
(***************************************************************************)
(* The feeds of MCItchLink, in which the first two messages may also be    *)
(* events of generate_orders.py as the encoder writes them.                *)
(***************************************************************************)
EXTENDS EncodedLink, MCItchLink

\* 300 shares do not fit in one byte; the price of a removal is 0.
MCEvent(header, ref, side, s) ==
  [header |-> header, order_ref_num |-> ref, buy_sell |-> side, num_shares |-> 300,
   stock_id |-> s, price |-> IF header = MESSAGE_TYPE_A THEN 2480400 ELSE 0]

\* An add of order 70000, then another add or a removal of order 70000.
MCEvents ==
  <<{MCEvent(MESSAGE_TYPE_A, 70000, 1, 3)},
    {MCEvent(MESSAGE_TYPE_A, 70001, 0, 2)}
      \cup {MCEvent(h, 70000, 1, 3) :
              h \in {MESSAGE_TYPE_E, MESSAGE_TYPE_X, MESSAGE_TYPE_D}}>>

MCFeed ==
  [n \in DOMAIN MCMessages |->
     MCMessages[n] \cup (IF n \in DOMAIN MCEvents THEN {encode(e) : e \in MCEvents[n]}
                                                 ELSE {})]
=============================================================================
