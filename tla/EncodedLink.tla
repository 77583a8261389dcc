---------------------------- MODULE EncodedLink ----------------------------
(***************************************************************************)
(* ItchLink fed by SW/itch_encoder.py, which gives every event the same 38 *)
(* bytes, whatever its type: the layout of an add.                         *)
(***************************************************************************)
EXTENDS ItchLink

CONSTANT Events  \* the events that may be the n-th of the feed, encoded, for each n

BigEndian(n) == <<n \div 2^24, (n \div 2^16) % 256, (n \div 256) % 256, n % 256>>

\* Mutant: one dummy too few after the type.
encode_shifted(e) ==
  <<0, 36, e.header>> \o [i \in 1 .. 13 |-> 170] \o BigEndian(e.order_ref_num)
    \o <<e.buy_sell>> \o BigEndian(e.num_shares) \o BigEndian(e.stock_id)
    \o [i \in 1 .. 5 |-> 187] \o BigEndian(e.price)

\* Two bytes of length, the type, 14 dummies, reference, side, shares, stock, four
\* dummies, price.
encode(e) ==
  <<0, 36, e.header>> \o [i \in 1 .. 14 |-> 170] \o BigEndian(e.order_ref_num)
    \o <<e.buy_sell>> \o BigEndian(e.num_shares) \o BigEndian(e.stock_id)
    \o [i \in 1 .. 4 |-> 187] \o BigEndian(e.price)

Arrived == m_axis.tdata.field

-----------------------------------------------------------------------------
(* Properties.                                                             *)

\* Of what the encoder writes, an add arrives whole, and every other event with
\* its type and its order reference.
AddsAndReferencesArrive ==
  m_axis.tvalid =>
    /\ taken < Len(Orders)
    /\ \A e \in UNION Range(Events) :
         encode(e) = Orders[taken + 1] =>
           /\ m_axis.tdata.order_type = OrderType(e.header)
           /\ Arrived.order_ref_num = BigEndian(e.order_ref_num)
           /\ e.header = MESSAGE_TYPE_A =>
                /\ m_axis.tdata.buy_sell = e.buy_sell
                /\ Arrived.num_shares = BigEndian(e.num_shares)
                /\ Arrived.stock_id = BigEndian(e.stock_id)
                /\ Arrived.price = BigEndian(e.price)
=============================================================================
