-------------------------- MODULE ItchParserProofs --------------------------
(***************************************************************************)
(* ItchParser holds its types, never drops an order word and never passes  *)
(* the end of a message: for any bytes on the bus, at any pace, and any    *)
(* consumer.  Between a paced source of framed messages and a sink of      *)
(* bounded stalls (ItchLink) its words are the feed's order messages, for  *)
(* feeds of any length; and of the encoder's events (EncodedLink) it keeps *)
(* what the book uses.                                                     *)
(***************************************************************************)
EXTENDS EncodedLink, BasicLemmas

\* The strengthening: the wrapper holds the parser off exactly while a word waits,
\* the parser is past the message while it offers a word, and a message whose type
\* is awaited is not empty.
HandshakeInv ==
  /\ ready_i <=> ~m_axis.tvalid
  /\ valid_o => ready_i /\ current_state # "PARSE_MSG"
  /\ current_state = "GET_MSG_TYPE" => message_length > 0
  /\ OffsetInMessage

IInv == TypeOK /\ HandshakeInv

\* What the parser captures from a byte is an order word: each register keeps its
\* four bytes, the side its single bit.
LEMMA CaptureType ==
  ASSUME TypeOK
  PROVE  Capture \in OrderWord
<1>1. bus.data \in Byte /\ out \in OrderWord
  BY DEF TypeOK
<1>2. [f \in Field |-> [i \in 1 .. 4 |->
         IF <<f, byte_counter - i + 1>> \in Layout(message_type)
         THEN bus.data ELSE out.field[f][i]]] \in [Field -> Register]
  BY <1>1 DEF OrderWord, Register
<1>3. bus.data % 2 \in 0 .. 1
  BY <1>1 DEF Byte
<1> QED
  BY <1>1, <1>2, <1>3 DEF Capture, OrderWord

\* The order type of every message type is a four-bit code.
LEMMA OrderTypeType == \A type \in Byte : OrderType(type) \in 0 .. 15
BY DEF OrderType, ADD_ORDER, CANCEL_ORDER, EXECUTE_ORDER, DELETE_ORDER

LEMMA ClearedType == Cleared \in OrderWord
BY DEF Cleared, OrderWord, Register, Byte, ERROR

\* The offset starts within its 16 bits, stays there while it counts the bytes of a
\* message, and does not wrap before the end of one.
LEMMA OffsetType ==
  /\ 0 \in Counter /\ 1 \in Counter
  /\ Counter \subseteq Nat
  /\ \A n \in Counter, len \in Byte : n < len => n + 1 \in Counter
  /\ byte_counter \in Counter => NextOffset \in Counter
  /\ byte_counter \in Byte => NextOffset = byte_counter + 1
<1>1. CounterSize \in Nat /\ CounterSize > 256
  BY SMT DEF CounterSize
<1>2. \A n \in Nat : n % CounterSize \in Counter
  BY <1>1, SMT DEF Counter
<1>3. \A n \in Nat : n < 256 => n \in Counter /\ n + 1 \in Counter /\ (n + 1) % CounterSize = n + 1
  BY <1>1, SMT DEF Counter
<1>4. Counter \subseteq Nat /\ Byte \subseteq Nat /\ \A len \in Byte : len < 256
  BY <1>1, SMT DEF Counter, Byte
<1>5. 0 \in Counter /\ 1 \in Counter
  BY <1>3
<1>6. \A n \in Counter, len \in Byte : n < len => n + 1 \in Counter
  BY <1>3, <1>4, SMT
<1>7. byte_counter \in Counter => NextOffset \in Counter
  BY <1>2, <1>4, SMT DEF NextOffset
<1>8. byte_counter \in Byte => NextOffset = byte_counter + 1
  BY <1>3, <1>4, SMT DEF NextOffset
<1> QED
  BY <1>4, <1>5, <1>6, <1>7, <1>8

\* The registers after one clock edge of the state machine, by its state.
LEMMA ParserTypes ==
  ASSUME TypeOK, GetLength \/ GetMsgType \/ ParseMsg \/ ParseIrrelevant
  PROVE  /\ current_state' \in {"GET_LENGTH", "GET_MSG_TYPE", "PARSE_MSG", "PARSE_MSG_IRRELEVANT"}
         /\ message_length' \in Byte
         /\ message_type' \in Byte
         /\ byte_counter' \in Counter
         /\ out' \in OrderWord
         /\ valid_o' \in BOOLEAN
         /\ ready_o' \in BOOLEAN
<1> USE DEF TypeOK
<1>1. CASE GetLength
  <2>1. byte_counter' \in Counter
    BY <1>1, OffsetType DEF GetLength
  <2>2. message_length' \in Byte
    BY <1>1 DEF GetLength
  <2>3. message_type' \in Byte
    BY <1>1 DEF GetLength, Byte
  <2> QED
    BY <1>1, <2>1, <2>2, <2>3, ClearedType DEF GetLength
<1>2. CASE GetMsgType
  BY <1>2, OffsetType DEF GetMsgType
<1>3. CASE ParseMsg
  <2>1. byte_counter' \in Counter
    BY <1>3, OffsetType DEF ParseMsg
  <2>2. out' \in OrderWord
    <3>1. (IF Consume THEN Capture ELSE out) \in OrderWord
      BY CaptureType
    <3>2. OrderType(message_type) \in 0 .. 15
      BY OrderTypeType
    <3> QED
      BY <1>3, <3>1, <3>2 DEF ParseMsg, OrderWord
  <2> QED
    BY <1>3, <2>1, <2>2 DEF ParseMsg
<1>4. CASE ParseIrrelevant
  BY <1>4, ClearedType, OffsetType DEF ParseIrrelevant
<1> QED
  BY <1>1, <1>2, <1>3, <1>4

LEMMA TypeStep ==
  ASSUME TypeOK, NEW valid \in BOOLEAN, NEW data \in Byte, NEW tready \in BOOLEAN,
         Clock(valid, data, tready)
  PROVE  TypeOK'
<1>1. bus' \in [data : Byte, valid : BOOLEAN]
  BY DEF Clock, SampleInput
<1>2. ready_i' \in BOOLEAN /\ m_axis' \in [tvalid : BOOLEAN, tdata : OrderWord]
  <2>1. CASE valid_o /\ ~m_axis.tvalid
    <3>1. ready_i' = FALSE /\ m_axis' = [tvalid |-> TRUE, tdata |-> out]
      BY <2>1 DEF Clock, OutputStage
    <3>2. out \in OrderWord
      BY DEF TypeOK
    <3> QED
      BY <3>1, <3>2
  <2>2. CASE ~(valid_o /\ ~m_axis.tvalid) /\ m_axis.tvalid /\ tready
    BY <2>2 DEF Clock, OutputStage, TypeOK
  <2>3. CASE ~(valid_o /\ ~m_axis.tvalid) /\ ~(m_axis.tvalid /\ tready)
    BY <2>3 DEF Clock, OutputStage, TypeOK
  <2> QED
    BY <2>1, <2>2, <2>3
<1> QED
  BY <1>1, <1>2, ParserTypes DEF Clock, TypeOK

LEMMA HandshakeStep ==
  ASSUME IInv, NEW valid \in BOOLEAN, NEW data \in Byte, NEW tready \in BOOLEAN,
         Clock(valid, data, tready)
  PROVE  HandshakeInv'
<1> USE DEF IInv, HandshakeInv, TypeOK
<1>1. (ready_i <=> ~m_axis.tvalid)'
  BY DEF Clock, OutputStage
<1>2. (valid_o => ready_i /\ current_state # "PARSE_MSG")'
  \* Only the end of a message offers a word, and then nothing is being latched.
  <2>1. CASE ParseMsg
    <3>1. ~valid_o /\ (valid_o' => ready_i /\ current_state' # "PARSE_MSG")
      BY <2>1 DEF ParseMsg
    <3>2. ready_i => ready_i'
      BY <3>1 DEF Clock, OutputStage
    <3> QED
      BY <3>1, <3>2
  <2>2. CASE GetLength \/ GetMsgType \/ ParseIrrelevant
    BY <2>2 DEF GetLength, GetMsgType, ParseIrrelevant
  <2> QED
    BY <2>1, <2>2 DEF Clock
<1>3. (current_state = "GET_MSG_TYPE" => message_length > 0)'
  <2>1. CASE GetLength
    BY <2>1 DEF GetLength, Byte
  <2>2. CASE GetMsgType \/ ParseMsg \/ ParseIrrelevant
    BY <2>2 DEF GetMsgType, ParseMsg, ParseIrrelevant
  <2> QED
    BY <2>1, <2>2 DEF Clock
<1>4. OffsetInMessage'
  <2>1. CASE GetLength
    BY <2>1 DEF GetLength, OffsetInMessage
  <2>2. CASE GetMsgType
    BY <2>2 DEF GetMsgType, OffsetInMessage, Byte
  <2>3. CASE ParseMsg
    <3>1. byte_counter \in Nat /\ message_length \in Nat /\ byte_counter <= message_length
      BY <2>3, OffsetType DEF ParseMsg, OffsetInMessage, Byte
    <3>2. byte_counter' <= message_length /\ message_length' = message_length
      BY <2>3, <3>1 DEF ParseMsg
    <3> QED
      BY <3>2 DEF OffsetInMessage
  <2>4. CASE ParseIrrelevant
    <3>1. byte_counter \in Byte /\ byte_counter <= message_length
      BY <2>4, OffsetType DEF ParseIrrelevant, OffsetInMessage, Byte
    <3>2. CASE Consume /\ byte_counter = message_length
      BY <2>4, <3>2 DEF ParseIrrelevant, OffsetInMessage
    <3>3. CASE Consume /\ byte_counter # message_length
      BY SMTT(30), <2>4, <3>1, <3>3, OffsetType DEF ParseIrrelevant, OffsetInMessage, Byte
    <3>4. CASE ~Consume
      BY <2>4, <3>1, <3>4 DEF ParseIrrelevant, OffsetInMessage
    <3> QED
      BY <3>2, <3>3, <3>4
  <2> QED
    BY <2>1, <2>2, <2>3, <2>4 DEF Clock
<1> QED
  BY <1>1, <1>2, <1>3, <1>4

LEMMA Inductive ==
  /\ Init => IInv
  /\ IInv /\ [Next]_parserVars => IInv'
<1>1. ASSUME Init PROVE IInv
  <2>1. 0 \in Byte
    BY DEF Byte
  <2>2. TypeOK
    BY <1>1, <2>1, ClearedType, OffsetType DEF Init, TypeOK
  <2>3. HandshakeInv
    BY <1>1 DEF Init, HandshakeInv, OffsetInMessage
  <2> QED
    BY <2>2, <2>3 DEF IInv
<1>2. ASSUME IInv, Next PROVE IInv'
  BY <1>2, TypeStep, HandshakeStep DEF Next, IInv
<1>3. ASSUME IInv, UNCHANGED parserVars PROVE IInv'
  BY <1>3 DEF parserVars, IInv, TypeOK, HandshakeInv, OffsetInMessage
<1> QED
  BY <1>1, <1>2, <1>3

LEMMA Invariant == Spec => []IInv
BY Inductive, PTL DEF Spec

\* Every register keeps its width, whatever the bus carries.
THEOREM ParserTypeCorrect == Spec => []TypeOK
<1>1. IInv => TypeOK
  BY DEF IInv
<1> QED
  BY <1>1, Invariant, PTL

\* The word that the parser offers for its single clock is never dropped by the
\* wrapper, whatever bytes made it and however long the book stalls.
THEOREM NoOverrun == Spec => []NoWordOverrun
<1>1. IInv => NoWordOverrun
  BY DEF IInv, HandshakeInv, NoWordOverrun
<1> QED
  BY <1>1, Invariant, PTL

\* Parsing and skipping never pass the end of the message, so the equality that
\* ends them is always reached.
THEOREM OffsetBounded == Spec => []OffsetInMessage
<1>1. IInv => OffsetInMessage
  BY DEF IInv, HandshakeInv
<1> QED
  BY <1>1, Invariant, PTL
-----------------------------------------------------------------------------
(* The order messages of a feed.                                           *)

\* A function that collects the order messages of a feed, one after the other.
Collects(g, s) ==
  g = [n \in 0 .. Len(s) |->
         IF n = 0 THEN <<>> ELSE IF IsOrder(s[n]) THEN Append(g[n - 1], s[n]) ELSE g[n - 1]]

\* There is one.
LEMMA OrdersCollected ==
  ASSUME NEW M, NEW s \in Seq(M)
  PROVE  \E g \in [0 .. Len(s) -> Seq(M)] : Collects(g, s) /\ OrdersIn(s) = g[Len(s)]
<1> DEFINE S == Seq(M)
           N == Len(s)
           F == [n \in 1 .. N |->
                   [q \in S |-> IF IsOrder(s[n]) THEN Append(q, s[n]) ELSE q]]
           Rec(g) == g = [n \in 0 .. N |->
                            IF n = 0 THEN <<>>
                            ELSE IF IsOrder(s[n]) THEN Append(g[n - 1], s[n]) ELSE g[n - 1]]
           upTo == CHOOSE g : Rec(g)
<1>1. OrdersIn(s) = upTo[N]
  BY DEF OrdersIn
<1>2. <<>> \in S /\ N \in Nat /\ F \in Bodies(S, N)
  <2>1. \A n \in 1 .. N : s[n] \in M
    OBVIOUS
  <2>2. \A n \in 1 .. N, q \in S : (IF IsOrder(s[n]) THEN Append(q, s[n]) ELSE q) \in S
    BY <2>1
  <2> QED  BY <2>2 DEF Bodies
<1>3. PICK h : h \in States(S, N) /\ IsRun(h, <<>>, N, F)
  <2> HIDE DEF F, S, N
  <2> QED  BY <1>2, Iterates, Zenon
<1>4. h \in [0 .. N -> S] /\ h[0] = <<>>
  BY <1>3 DEF States, IsRun
<1>5. \A n \in 1 .. N : h[n] = IF IsOrder(s[n]) THEN Append(h[n - 1], s[n]) ELSE h[n - 1]
  <2> SUFFICES ASSUME NEW n \in 1 .. N
               PROVE  h[n] = IF IsOrder(s[n]) THEN Append(h[n - 1], s[n]) ELSE h[n - 1]
    OBVIOUS
  <2>1. h[n] = F[n][h[n - 1]]  BY <1>3 DEF IsRun
  <2>2. h[n - 1] \in S  BY <1>2, <1>4
  <2> HIDE DEF S
  <2> QED  BY <2>1, <2>2
<1>6. Rec(h)
  <2> HIDE DEF F, S
  <2>1. \A n \in 0 .. N : n # 0 => n \in 1 .. N  BY <1>2
  <2>2. \A n \in 0 .. N : h[n] = IF n = 0 THEN <<>>
                                 ELSE IF IsOrder(s[n]) THEN Append(h[n - 1], s[n]) ELSE h[n - 1]
    BY <1>4, <1>5, <2>1
  <2> QED  BY <1>4, <2>2
<1>7. Rec(upTo)
  <2> HIDE DEF Rec
  <2> QED  BY <1>6
<1> HIDE DEF upTo, F
<1>8. \A n \in 0 .. N : upTo[n] = h[n]
  <2> DEFINE P == {n \in 0 .. N : upTo[n] = h[n]}
  <2>1. 0 \in P  BY <1>2, <1>4, <1>7
  <2>2. ASSUME NEW n \in 0 .. N, n < N, n \in P PROVE n + 1 \in P
    <3>1. n + 1 \in 1 .. N /\ n + 1 \in 0 .. N /\ (n + 1) - 1 = n  BY <1>2, <2>2
    <3>2. h[n + 1] = IF IsOrder(s[n + 1]) THEN Append(h[n], s[n + 1]) ELSE h[n]
      BY <1>5, <3>1
    <3>3. upTo[n + 1] = IF IsOrder(s[n + 1]) THEN Append(upTo[n], s[n + 1]) ELSE upTo[n]
      <4>1. n + 1 # 0  BY <2>2
      <4> HIDE DEF N
      <4> QED  BY <1>7, <3>1, <4>1
    <3> QED  BY <2>2, <3>1, <3>2, <3>3
  <2>3. 0 .. N \subseteq P
    <3> HIDE DEF P, N
    <3> QED  BY <1>2, <2>1, <2>2, IntervalInduction
  <2> QED  BY <2>3
<1>9. upTo[N] = h[N]
  BY <1>2, <1>8
<1> QED
  BY <1>1, <1>4, <1>6, <1>9 DEF Collects

LEMMA CollectsStep ==
  ASSUME NEW M, NEW s \in Seq(M), NEW g \in [0 .. Len(s) -> Seq(M)], Collects(g, s)
  PROVE  /\ g[0] = <<>>
         /\ \A n \in 1 .. Len(s) :
              g[n] = IF IsOrder(s[n]) THEN Append(g[n - 1], s[n]) ELSE g[n - 1]
<1>1. Len(s) \in Nat
  OBVIOUS
<1>2. g[0] = <<>>
  BY <1>1 DEF Collects
<1>3. ASSUME NEW n \in 1 .. Len(s)
      PROVE  g[n] = IF IsOrder(s[n]) THEN Append(g[n - 1], s[n]) ELSE g[n - 1]
  <2>1. n \in 0 .. Len(s) /\ n # 0  BY <1>1
  <2> QED  BY <2>1 DEF Collects
<1> QED  BY <1>2, <1>3

\* One message more.
LEMMA OrdersAppend ==
  ASSUME NEW M, NEW s \in Seq(M), NEW m \in M
  PROVE  /\ OrdersIn(s) \in Seq(M)
         /\ OrdersIn(Append(s, m)) = IF IsOrder(m) THEN Append(OrdersIn(s), m) ELSE OrdersIn(s)
<1> DEFINE t == Append(s, m)
           N == Len(s)
<1>1. /\ t \in Seq(M) /\ Len(t) = N + 1 /\ N \in Nat /\ t[N + 1] = m
      /\ \A n \in 1 .. N : t[n] = s[n]
  OBVIOUS
<1>2. PICK g \in [0 .. N -> Seq(M)] : Collects(g, s) /\ OrdersIn(s) = g[N]
  BY OrdersCollected
<1>3. PICK h \in [0 .. Len(t) -> Seq(M)] : Collects(h, t) /\ OrdersIn(t) = h[Len(t)]
  BY <1>1, OrdersCollected
<1> HIDE DEF t
<1>4. /\ g[0] = <<>>
      /\ \A n \in 1 .. N : g[n] = IF IsOrder(s[n]) THEN Append(g[n - 1], s[n]) ELSE g[n - 1]
  BY <1>2, CollectsStep
<1>8. /\ h[0] = <<>>
      /\ \A n \in 1 .. Len(t) : h[n] = IF IsOrder(t[n]) THEN Append(h[n - 1], t[n]) ELSE h[n - 1]
  BY <1>1, <1>3, CollectsStep
<1>5. \A n \in 0 .. N : g[n] = h[n]
  <2> DEFINE P == {n \in 0 .. N : g[n] = h[n]}
  <2>1. 0 \in P  BY <1>1, <1>4, <1>8
  <2>2. ASSUME NEW n \in 0 .. N, n < N, n \in P PROVE n + 1 \in P
    <3>1. n + 1 \in 1 .. N /\ n + 1 \in 1 .. Len(t) /\ n + 1 \in 0 .. N /\ (n + 1) - 1 = n
      BY <1>1, <2>2
    <3>2. g[n + 1] = IF IsOrder(s[n + 1]) THEN Append(g[n], s[n + 1]) ELSE g[n]
      BY <1>4, <3>1
    <3>3. h[n + 1] = IF IsOrder(s[n + 1]) THEN Append(h[n], s[n + 1]) ELSE h[n]
      BY <1>1, <1>8, <3>1
    <3> QED  BY <2>2, <3>1, <3>2, <3>3
  <2>3. 0 .. N \subseteq P
    <3> HIDE DEF P, N
    <3> QED  BY <1>1, <2>1, <2>2, IntervalInduction
  <2> QED  BY <2>3
<1>6. h[N + 1] = IF IsOrder(m) THEN Append(h[N], m) ELSE h[N]
  <2>1. N + 1 \in 1 .. Len(t) /\ (N + 1) - 1 = N  BY <1>1
  <2> QED  BY <1>1, <1>8, <2>1
<1>7. h[N] = g[N] /\ g[N] \in Seq(M)
  BY <1>1, <1>2, <1>5
<1> QED
  BY <1>1, <1>2, <1>3, <1>6, <1>7 DEF t

\* The last message, when it is an order message, is the last of them.
LEMMA LastOrder ==
  ASSUME NEW M, NEW s \in Seq(M), s # <<>>, IsOrder(s[Len(s)])
  PROVE  Len(OrdersIn(s)) > 0 /\ OrdersIn(s)[Len(OrdersIn(s))] = s[Len(s)]
<1>1. Len(s) \in Nat \ {0} /\ s[Len(s)] \in M
  OBVIOUS
<1>2. PICK g \in [0 .. Len(s) -> Seq(M)] : Collects(g, s) /\ OrdersIn(s) = g[Len(s)]
  BY OrdersCollected
<1>3. g[Len(s)] = Append(g[Len(s) - 1], s[Len(s)]) /\ g[Len(s) - 1] \in Seq(M)
  <2>1. \A n \in 1 .. Len(s) :
          g[n] = IF IsOrder(s[n]) THEN Append(g[n - 1], s[n]) ELSE g[n - 1]
    BY <1>2, CollectsStep
  <2>2. Len(s) \in 1 .. Len(s) /\ Len(s) - 1 \in 0 .. Len(s)
    BY <1>1
  <2> HIDE DEF IsOrder
  <2> QED  BY <1>2, <2>1, <2>2
<1> HIDE DEF IsOrder
<1> QED
  BY <1>1, <1>2, <1>3

\* They are messages of the feed.
LEMMA OrdersFromFeed ==
  ASSUME NEW M, NEW s \in Seq(M)
  PROVE  /\ OrdersIn(s) \in Seq(M)
         /\ \A k \in 1 .. Len(OrdersIn(s)) : \E n \in 1 .. Len(s) : OrdersIn(s)[k] = s[n]
<1> DEFINE R == {s[n] : n \in 1 .. Len(s)}
<1>1. s \in Seq(R)
  OBVIOUS
<1>2. PICK g \in [0 .. Len(s) -> Seq(R)] : OrdersIn(s) = g[Len(s)]
  <2> HIDE DEF R
  <2> QED  BY <1>1, OrdersCollected
<1>3. OrdersIn(s) \in Seq(R)
  BY <1>2
<1>4. R \subseteq M
  OBVIOUS
<1> QED
  BY <1>3, <1>4

LEMMA NoOrders == OrdersIn(<<>>) = <<>>
<1>1. PICK s \in Seq(Int) : s = <<>>
  <2>1. <<>> \in Seq(Int)  OBVIOUS
  <2> QED  BY <2>1
<1>2. PICK g \in [0 .. Len(s) -> Seq(Int)] : Collects(g, s) /\ OrdersIn(s) = g[Len(s)]
  BY OrdersCollected
<1>3. g[0] = <<>> /\ Len(s) = 0
  BY <1>1, <1>2, CollectsStep
<1> QED  BY <1>1, <1>2, <1>3

-----------------------------------------------------------------------------
(* The parser's place in the feed.                                         *)

Nowhere == 1000

\* The offset of a field's high byte in the messages of a type.
FieldStart(type, f) ==
  IF f = "order_ref_num" THEN 15
  ELSE IF f = "num_shares" /\ type \in {MESSAGE_TYPE_A, MESSAGE_TYPE_F} THEN 20
  ELSE IF f = "num_shares" /\ type \in {MESSAGE_TYPE_E, MESSAGE_TYPE_C, MESSAGE_TYPE_X} THEN 19
  ELSE IF f = "stock_id" /\ type \in {MESSAGE_TYPE_A, MESSAGE_TYPE_F} THEN 24
  ELSE IF f = "price" /\ type \in {MESSAGE_TYPE_A, MESSAGE_TYPE_F, MESSAGE_TYPE_C} THEN 32
  ELSE Nowhere

\* The length that a message of a type needs to hold its fields.
Needed(type) ==
  IF type \in {MESSAGE_TYPE_A, MESSAGE_TYPE_F, MESSAGE_TYPE_C} THEN 36
  ELSE IF type \in {MESSAGE_TYPE_E, MESSAGE_TYPE_X} THEN 23
  ELSE IF type = MESSAGE_TYPE_D THEN 19 ELSE 1

\* A message as ITCH 5.0 frames it: two bytes of length, the high one 0, a type, and
\* the type's fields.
Framed(m) ==
  /\ Len(m) >= 3 /\ m[1] = 0 /\ Len(m) = m[2] + 2
  /\ m[2] >= Needed(m[3])

\* The registers o hold the bytes of m below offset c.
Captured(o, m, c) ==
  /\ \A f \in Field, i \in 1 .. 4 :
       o.field[f][i] = IF FieldStart(m[3], f) + i - 1 < c
                       THEN m[FieldStart(m[3], f) + i + 2] ELSE 0
  /\ o.buy_sell = IF m[3] \in {MESSAGE_TYPE_A, MESSAGE_TYPE_F} /\ 19 < c
                  THEN m[22] % 2 ELSE 0
  /\ c > 1 => o.order_type = OrderType(m[3])

\* Where the parser stands when k bytes of message m have passed it.
BeforeMessage(m, k) == current_state = "GET_LENGTH" /\ k \in {0, 1, Len(m)}
BeforeType(m, k) ==
  current_state = "GET_MSG_TYPE" /\ k = 2 /\ message_length = m[2] /\ out = Cleared
SkipsOneMore(k) ==
  current_state = "PARSE_MSG_IRRELEVANT" /\ k = 0 /\ byte_counter = message_length
Skips(m, k) ==
  /\ current_state = "PARSE_MSG_IRRELEVANT"
  /\ k >= 3 /\ byte_counter = k - 2 /\ message_length = m[2] /\ ~ IsOrder(m)
Parses(m, k) ==
  /\ current_state = "PARSE_MSG"
  /\ k >= 3 /\ byte_counter = k - 2 /\ message_length = m[2]
  /\ message_type = m[3] /\ m[3] \in MessageTypes
  /\ ~ IsOrder(m) => k < 34
  /\ Captured(out, m, byte_counter)

Place(m, k) ==
  BeforeMessage(m, k) \/ BeforeType(m, k) \/ SkipsOneMore(k) \/ Skips(m, k) \/ Parses(m, k)

LEMMA Types ==
  /\ MessageTypes \subseteq Byte /\ Byte \subseteq Nat
  /\ MESSAGE_TYPE_A = 65 /\ MESSAGE_TYPE_F = 70 /\ MESSAGE_TYPE_E = 69
  /\ MESSAGE_TYPE_C = 67 /\ MESSAGE_TYPE_X = 88 /\ MESSAGE_TYPE_D = 68
BY DEF MessageTypes, Byte, MESSAGE_TYPE_A, MESSAGE_TYPE_F, MESSAGE_TYPE_E,
       MESSAGE_TYPE_C, MESSAGE_TYPE_X, MESSAGE_TYPE_D

LEMMA FramedFacts ==
  ASSUME NEW m \in Seq(Byte), Framed(m)
  PROVE  /\ Len(m) \in Nat /\ Len(m) >= 3 /\ \A i \in 1 .. Len(m) : m[i] \in Byte
         /\ m[1] = 0 /\ m[2] \in Byte /\ m[3] \in Byte
         /\ m[2] = Len(m) - 2 /\ m[2] >= 1 /\ m[2] >= Needed(m[3])
<1>1. Len(m) \in Nat /\ \A i \in 1 .. Len(m) : m[i] \in Byte
  OBVIOUS
<1>2. Len(m) >= 3 /\ m[1] = 0 /\ Len(m) = m[2] + 2 /\ m[2] >= Needed(m[3])
  BY DEF Framed
<1>3. m[2] \in Byte /\ m[3] \in Byte /\ m[2] \in Nat
  <2>1. 2 \in 1 .. Len(m) /\ 3 \in 1 .. Len(m)  BY <1>1, <1>2
  <2> QED  BY <1>1, <2>1, Types
<1> QED  BY <1>1, <1>2, <1>3

\* The layout of a type, field by field; where it has a field, the field fits.
LEMMA FieldStarts ==
  ASSUME NEW type \in MessageTypes
  PROVE  /\ \A f \in Field : FieldStart(type, f) \in 15 .. 32 \cup {Nowhere}
         /\ \A f \in Field, x \in Int :
              x < Nowhere => (<<f, x>> \in Layout(type) <=> x = FieldStart(type, f))
         /\ \A f \in Field : FieldStart(type, f) = Nowhere
                               \/ FieldStart(type, f) + 4 <= Needed(type)
         /\ Needed(type) \in 19 .. 36
         /\ type \in {MESSAGE_TYPE_A, MESSAGE_TYPE_F, MESSAGE_TYPE_C} => Needed(type) = 36
<1>1. \A f \in Field : f = "order_ref_num" \/ f = "num_shares" \/ f = "stock_id" \/ f = "price"
  BY DEF Field
<1>2. ASSUME NEW f \in Field, NEW x \in Int, x < Nowhere
      PROVE  <<f, x>> \in Layout(type) <=> x = FieldStart(type, f)
  <2>1. \/ type = 65 \/ type = 70 \/ type = 69 \/ type = 67 \/ type = 88 \/ type = 68
    BY Types DEF MessageTypes
  <2>2. x # 1000  BY <1>2 DEF Nowhere
  <2> QED
    BY <1>1, <2>1, <2>2, Types DEF Layout, FieldStart, Nowhere
<1>3. ASSUME NEW f \in Field
      PROVE  /\ FieldStart(type, f) \in 15 .. 32 \cup {Nowhere}
             /\ FieldStart(type, f) = Nowhere \/ FieldStart(type, f) + 4 <= Needed(type)
  BY <1>1, Types DEF FieldStart, Nowhere, Needed, MessageTypes
<1>4. Needed(type) \in 19 .. 36
      /\ (type \in {MESSAGE_TYPE_A, MESSAGE_TYPE_F, MESSAGE_TYPE_C} => Needed(type) = 36)
  BY Types DEF Needed, MessageTypes
<1> QED  BY <1>2, <1>3, <1>4

\* When the type is known nothing has been captured.
LEMMA CapturedNothing ==
  ASSUME NEW m, m[3] \in MessageTypes
  PROVE  Captured(Cleared, m, 1)
<1>1. \A f \in Field : FieldStart(m[3], f) \in 15 .. 32 \cup {1000}
  BY FieldStarts DEF Nowhere
<1>2. \A f \in Field, i \in 1 .. 4 : Cleared.field[f][i] = 0
  BY DEF Cleared
<1>3. Cleared.buy_sell = 0
  BY DEF Cleared
<1>4. \A f \in Field, i \in 1 .. 4 : ~ (FieldStart(m[3], f) + i - 1 < 1)
  BY <1>1
<1> QED  BY <1>2, <1>3, <1>4 DEF Captured

\* The next byte.
LEMMA CapturedByte ==
  ASSUME TypeOK, NEW m \in Seq(Byte), m[3] \in MessageTypes, message_type = m[3],
         Captured(out, m, byte_counter), byte_counter + 3 \in 1 .. Len(m),
         byte_counter <= 255, bus.data = m[byte_counter + 3]
  PROVE  Captured([Capture EXCEPT !.order_type = OrderType(message_type)], m, byte_counter + 1)
<1> DEFINE c == byte_counter
           field == [f \in Field |-> [i \in 1 .. 4 |->
                       IF <<f, c - i + 1>> \in Layout(message_type)
                       THEN bus.data ELSE out.field[f][i]]]
           side == IF /\ message_type \in {MESSAGE_TYPE_A, MESSAGE_TYPE_F}
                      /\ c = 19 THEN bus.data % 2 ELSE out.buy_sell
           o == [Capture EXCEPT !.order_type = OrderType(message_type)]
<1>1. out \in OrderWord /\ c \in Nat /\ bus.data \in Byte
  BY DEF TypeOK, Counter
<1>2. /\ o.field = field /\ o.buy_sell = side /\ o.order_type = OrderType(m[3])
  BY <1>1 DEF Capture, OrderWord
<1> HIDE DEF o
<1>3. ASSUME NEW f \in Field, NEW i \in 1 .. 4
      PROVE  o.field[f][i] = IF FieldStart(m[3], f) + i - 1 < c + 1
                             THEN m[FieldStart(m[3], f) + i + 2] ELSE 0
  <2>1. FieldStart(m[3], f) \in 15 .. 32 \cup {1000}
    <3>1. FieldStart(m[3], f) \in 15 .. 32 \cup {Nowhere}
      BY FieldStarts
    <3> QED  BY <3>1 DEF Nowhere
  <2>2. <<f, c - i + 1>> \in Layout(m[3]) <=> c - i + 1 = FieldStart(m[3], f)
    <3>1. c - i + 1 \in Int /\ c - i + 1 < Nowhere  BY <1>1 DEF Nowhere
    <3> QED  BY <3>1, FieldStarts
  <2>3. o.field[f][i] = IF c - i + 1 = FieldStart(m[3], f) THEN m[c + 3] ELSE out.field[f][i]
    BY <1>2, <2>2
  <2>4. out.field[f][i] = IF FieldStart(m[3], f) + i - 1 < c
                          THEN m[FieldStart(m[3], f) + i + 2] ELSE 0
    BY DEF Captured
  <2>5. CASE c - i + 1 = FieldStart(m[3], f)
    <3>1. FieldStart(m[3], f) + i - 1 = c /\ FieldStart(m[3], f) + i + 2 = c + 3
      BY <1>1, <2>1, <2>5
    <3> QED  BY <1>1, <2>3, <2>5, <3>1
  <2>6. CASE c - i + 1 # FieldStart(m[3], f)
    <3>1. PICK x \in Nat : x = FieldStart(m[3], f)  BY <2>1
    <3>2. x + i - 1 < c + 1 <=> x + i - 1 < c  BY SMTT(30), <1>1, <2>6, <3>1
    <3> QED  BY <2>3, <2>4, <2>6, <3>1, <3>2
  <2> QED  BY <2>5, <2>6
<1>4. o.buy_sell = IF m[3] \in {MESSAGE_TYPE_A, MESSAGE_TYPE_F} /\ 19 < c + 1
                   THEN m[22] % 2 ELSE 0
  <2>1. out.buy_sell = IF m[3] \in {MESSAGE_TYPE_A, MESSAGE_TYPE_F} /\ 19 < c
                       THEN m[22] % 2 ELSE 0
    BY DEF Captured
  <2>2. CASE c = 19
    BY <1>1, <1>2, <2>1, <2>2
  <2>3. CASE c # 19
    <3>1. 19 < c + 1 <=> 19 < c  BY <1>1, <2>3
    <3> QED  BY <1>2, <2>1, <2>3, <3>1
  <2> QED  BY <2>2, <2>3
<1> QED
  BY <1>2, <1>3, <1>4 DEF o, Captured

\* A clock without a byte.
LEMMA CapturedSame ==
  ASSUME out \in OrderWord, NEW m, NEW c, Captured(out, m, c), message_type = m[3]
  PROVE  Captured([out EXCEPT !.order_type = OrderType(message_type)], m, c)
<1> DEFINE o == [out EXCEPT !.order_type = OrderType(message_type)]
<1>1. o.field = out.field /\ o.buy_sell = out.buy_sell /\ o.order_type = OrderType(m[3])
  BY DEF OrderWord
<1> HIDE DEF o
<1>2. Captured(o, m, c)
  BY <1>1 DEF Captured
<1> QED  BY <1>2 DEF o

LEMMA FieldBytes ==
  ASSUME NEW m \in Seq(Byte), NEW lo \in Nat, lo + 6 <= Len(m), NEW r \in Register,
         \A i \in 1 .. 4 : r[i] = m[lo + i + 2]
  PROVE  FieldOf(m, lo) = r
<1> DEFINE s == SubSeq(m, lo + 3, lo + 6)
<1>1. /\ s \in Seq(Byte) /\ Len(s) = 4
      /\ \A i \in 1 .. 4 : s[i] = m[lo + i + 2]
  OBVIOUS
<1>2. s \in [1 .. 4 -> Byte]
  <2> HIDE DEF s
  <2> QED  BY <1>1
<1>3. r \in [1 .. 4 -> Byte]
  BY DEF Register
<1> HIDE DEF s
<1>4. s = r
  <2>1. \A i \in 1 .. 4 : s[i] = r[i]
    BY <1>1
  <2> QED  BY SMTT(30), <1>2, <1>3, <2>1
<1> QED  BY <1>4 DEF s, FieldOf

LEMMA ZeroRegister ==
  ASSUME NEW r \in Register, \A i \in 1 .. 4 : r[i] = 0
  PROVE  ZeroField = r
<1> DEFINE z == <<0, 0, 0, 0, 0, 0, 0>>
<1>1. z \in Seq(Byte) /\ Len(z) = 7
  BY DEF Byte
<1>2. \A i \in 1 .. 4 : r[i] = z[0 + i + 2]
  OBVIOUS
<1> HIDE DEF z
<1>3. 0 \in Nat /\ 0 + 6 <= Len(z)
  BY <1>1
<1>4. FieldOf(z, 0) = r
  BY <1>1, <1>2, <1>3, FieldBytes
<1> QED  BY <1>4 DEF ZeroField, z

\* When all of a message is captured the registers hold what it means.
LEMMA CapturedAll ==
  ASSUME NEW m \in Seq(Byte), Framed(m), m[3] \in MessageTypes, NEW o \in OrderWord,
         Captured(o, m, m[2])
  PROVE  o = Meaning(m)
<1>0. m[2] \in Nat
  BY FramedFacts, Types
<1>1. Len(m) \in Nat /\ m[2] = Len(m) - 2 /\ m[2] >= Needed(m[3])
  BY FramedFacts
<1>2. /\ o = [field |-> o.field, order_type |-> o.order_type, buy_sell |-> o.buy_sell]
      /\ o.field \in [Field -> Register]
  BY DEF OrderWord
<1>3. Needed(m[3]) \in 19 .. 36
      /\ (m[3] \in {MESSAGE_TYPE_A, MESSAGE_TYPE_F, MESSAGE_TYPE_C} => Needed(m[3]) = 36)
  BY FieldStarts
<1>4. o.order_type = OrderType(m[3])
  BY <1>1, <1>3 DEF Captured
<1>5. o.buy_sell = IF m[3] \in {MESSAGE_TYPE_A, MESSAGE_TYPE_F} THEN m[22] % 2 ELSE 0
  BY <1>1, <1>3 DEF Captured
<1>6. \A f \in Field :
        /\ FieldStart(m[3], f) = Nowhere => o.field[f] = ZeroField
        /\ FieldStart(m[3], f) # Nowhere => o.field[f] = FieldOf(m, FieldStart(m[3], f))
  <2> SUFFICES ASSUME NEW f \in Field
               PROVE  /\ FieldStart(m[3], f) = Nowhere => o.field[f] = ZeroField
                      /\ FieldStart(m[3], f) # Nowhere
                           => o.field[f] = FieldOf(m, FieldStart(m[3], f))
    OBVIOUS
  <2>1. FieldStart(m[3], f) \in 15 .. 32 \cup {1000}
        /\ (FieldStart(m[3], f) = 1000 \/ FieldStart(m[3], f) + 4 <= Needed(m[3]))
    BY FieldStarts DEF Nowhere
  <2>2. o.field[f] \in Register
    BY <1>2
  <2>3. \A i \in 1 .. 4 :
          o.field[f][i] = IF FieldStart(m[3], f) + i - 1 < m[2]
                          THEN m[FieldStart(m[3], f) + i + 2] ELSE 0
    BY DEF Captured
  <2>4. CASE FieldStart(m[3], f) = 1000
    <3>1. m[2] \in Nat /\ m[2] < 256
      <4>1. \A b \in Byte : b \in Nat /\ b < 256  BY DEF Byte
      <4>2. m[2] \in Byte  BY FramedFacts
      <4> QED  BY <4>1, <4>2
    <3>2. \A i \in 1 .. 4 : ~ (FieldStart(m[3], f) + i - 1 < m[2])
      BY <2>4, <3>1
    <3>3. \A i \in 1 .. 4 : o.field[f][i] = 0
      BY <2>3, <3>2
    <3> QED  BY <2>2, <2>4, <3>3, ZeroRegister DEF Nowhere
  <2>5. CASE FieldStart(m[3], f) # 1000
    <3>1. PICK x \in Nat : x = FieldStart(m[3], f)  BY <2>1
    <3>2. x + 4 <= m[2] /\ x + 6 <= Len(m)
      <4>1. PICK y \in Nat : y = Needed(m[3])  BY <1>3
      <4>2. m[2] \in Nat /\ Len(m) = m[2] + 2 /\ y <= m[2]  BY <1>0, <1>1, <4>1
      <4>3. x + 4 <= y  BY <2>1, <2>5, <3>1, <4>1
      <4> QED  BY <4>2, <4>3
    <3>3. \A i \in 1 .. 4 : o.field[f][i] = m[x + i + 2]
      <4>1. \A i \in 1 .. 4 : x + i - 1 < m[2]
        BY <1>0, <3>2
      <4> QED  BY <2>3, <3>1, <4>1
    <3>4. FieldOf(m, x) = o.field[f]
      BY <2>2, <3>2, <3>3, FieldBytes
    <3> QED  BY <2>5, <3>1, <3>4 DEF Nowhere
  <2> QED  BY <2>4, <2>5
<1> DEFINE type == m[3]
           add == type \in {MESSAGE_TYPE_A, MESSAGE_TYPE_F}
           meant(f) == CASE f = "order_ref_num" -> FieldOf(m, 15)
                         [] f = "num_shares" /\ add -> FieldOf(m, 20)
                         [] f = "num_shares" /\ ~add /\ type # MESSAGE_TYPE_D -> FieldOf(m, 19)
                         [] f = "stock_id" /\ add -> FieldOf(m, 24)
                         [] f = "price" /\ (add \/ type = MESSAGE_TYPE_C) -> FieldOf(m, 32)
                         [] OTHER -> ZeroField
<1>7. \A f \in Field : o.field[f] = meant(f)
  <2>0. m[3] = 65 \/ m[3] = 70 \/ m[3] = 69 \/ m[3] = 67 \/ m[3] = 88 \/ m[3] = 68
    BY Types DEF MessageTypes
  <2>1. o.field["order_ref_num"] = meant("order_ref_num")
    BY <1>6 DEF FieldStart, Nowhere, Field
  <2>2. o.field["num_shares"] = meant("num_shares")
    BY <1>6, <2>0, Types DEF FieldStart, Nowhere, Field
  <2>3. o.field["stock_id"] = meant("stock_id")
    BY <1>6, <2>0, Types DEF FieldStart, Nowhere, Field
  <2>4. o.field["price"] = meant("price")
    BY <1>6, <2>0, Types DEF FieldStart, Nowhere, Field
  <2> HIDE DEF meant
  <2> QED  BY <2>1, <2>2, <2>3, <2>4 DEF Field
<1>8. o.field = [f \in Field |-> meant(f)]
  <2> HIDE DEF meant
  <2> QED  BY <1>2, <1>7
<1>9. Meaning(m) = [field |-> [f \in Field |-> meant(f)], order_type |-> OrderType(type),
                    buy_sell |-> IF add THEN m[22] % 2 ELSE 0]
  BY DEF Meaning, TypeOf
<1> HIDE DEF meant
<1> QED  BY <1>2, <1>4, <1>5, <1>8, <1>9

-----------------------------------------------------------------------------
(* One clock of the state machine, from a place in the feed to the next.   *)

StateStep == GetLength \/ GetMsgType \/ ParseMsg \/ ParseIrrelevant

Complete == current_state = "PARSE_MSG" /\ byte_counter = message_length

\* A message that is being skipped or parsed ends with its last byte, and then the
\* order it carries has all been captured.
LEMMA PlaceFacts ==
  ASSUME TypeOK, NEW m \in Seq(Byte), Framed(m), NEW k \in 0 .. Len(m), Place(m, k)
  PROVE  /\ Complete => IsOrder(m) /\ k = Len(m)
         /\ k = Len(m) => BeforeMessage(m, k) \/ Skips(m, k) \/ (Complete /\ Parses(m, k))
         /\ Complete => message_type = m[3] /\ m[3] \in MessageTypes /\ Captured(out, m, m[2])
<1>1. Len(m) \in Nat /\ Len(m) >= 3 /\ m[2] = Len(m) - 2 /\ m[2] >= Needed(m[3])
      /\ m[2] \in Nat
  BY FramedFacts
<1>2. Complete => Parses(m, k)
  BY DEF Complete, Place, BeforeMessage, BeforeType, SkipsOneMore, Skips
<1>3. Complete => k = Len(m) /\ byte_counter = m[2]
  BY <1>1, <1>2 DEF Complete, Parses
<1>4. Complete => message_type = m[3] /\ m[3] \in MessageTypes /\ Captured(out, m, m[2])
  BY <1>2, <1>3 DEF Parses
<1>5. ASSUME Complete, ~ IsOrder(m) PROVE FALSE
  <2>1. m[3] \in MessageTypes /\ k < 34
    BY <1>2, <1>5 DEF Parses
  <2>2. m[3] = MESSAGE_TYPE_C
    BY <1>5, <2>1 DEF IsOrder, TypeOf
  <2>3. Needed(m[3]) = 36
    BY <2>2, Types DEF Needed
  <2> QED  BY <1>1, <1>3, <1>5, <2>1, <2>3
<1>6. ASSUME k = Len(m)
      PROVE  BeforeMessage(m, k) \/ Skips(m, k) \/ (Complete /\ Parses(m, k))
  <2>1. Parses(m, k) => Complete
    BY <1>1, <1>6 DEF Parses, Complete
  <2>2. ~ BeforeType(m, k) /\ ~ SkipsOneMore(k)
    <3>1. k # 0 /\ k # 2  BY <1>1, <1>6
    <3> QED  BY <3>1 DEF BeforeType, SkipsOneMore
  <2>3. BeforeMessage(m, k) \/ Skips(m, k) \/ Parses(m, k)
    BY <2>2 DEF Place
  <2> QED  BY <2>1, <2>3
<1> QED  BY <1>3, <1>4, <1>5, <1>6

\* A clock without a byte ends the message that has all been captured, or changes
\* nothing but the output registers.
LEMMA PlaceKeep ==
  ASSUME IInv, StateStep, ready_o, ~ bus.valid, bus.data # 78,
         Complete => ready_i,
         NEW CONSTANT m, NEW CONSTANT k \in Nat, Place(m, k),
         k >= 3 => m \in Seq(Byte) /\ Framed(m) /\ k \in 0 .. Len(m)
  PROVE  /\ ready_o'
         /\ Place(m, k)'
         /\ ~ Complete'
         /\ valid_o' = Complete
         /\ (current_state = "GET_LENGTH")' <=> (current_state = "GET_LENGTH" \/ Complete)
         /\ Complete => out' = Meaning(m)
<1> USE DEF Consume
<1>1. CASE GetLength
  BY <1>1 DEF GetLength, Complete, Place, BeforeMessage, BeforeType, SkipsOneMore, Skips, Parses
<1>2. CASE GetMsgType
  BY <1>2 DEF GetMsgType, Complete, Place, BeforeMessage, BeforeType, SkipsOneMore, Skips, Parses
<1>3. CASE ParseIrrelevant
  BY <1>3 DEF ParseIrrelevant, Complete, Place, BeforeMessage, BeforeType, SkipsOneMore, Skips, Parses
<1>4. CASE ParseMsg
  <2>1. Parses(m, k) /\ current_state = "PARSE_MSG"
    BY <1>4 DEF ParseMsg, Place, BeforeMessage, BeforeType, SkipsOneMore, Skips
  <2>2. m \in Seq(Byte) /\ Framed(m) /\ k \in 0 .. Len(m)
    BY <2>1 DEF Parses
  <2>3. /\ out' = [out EXCEPT !.order_type = OrderType(message_type)]
        /\ byte_counter' = byte_counter /\ message_length' = message_length
        /\ message_type' = message_type
        /\ valid_o' = Complete /\ ready_o'
        /\ current_state' = IF Complete THEN "GET_LENGTH" ELSE "PARSE_MSG"
    BY <1>4, <2>1 DEF ParseMsg, NonPrintable, Complete
  <2>4. out \in OrderWord /\ TypeOK
    BY DEF IInv, TypeOK
  <2>5. Captured([out EXCEPT !.order_type = OrderType(message_type)], m, byte_counter)
    BY <2>1, <2>4, CapturedSame DEF Parses
  <2>6. Captured(out', m, byte_counter')
    BY <2>3, <2>5
  <2>7. CASE ~ Complete
    <3>1. Parses(m, k)'
      <4>1. Captured(out, m, byte_counter)'
        BY <2>6 DEF Captured
      <4> QED  BY <2>1, <2>3, <2>7, <4>1 DEF Parses
    <3>2. ~ Complete'
      BY <2>1, <2>3, <2>7 DEF Complete
    <3> QED  BY <2>1, <2>3, <2>7, <3>1, <3>2 DEF Place
  <2>8. CASE Complete
    <3>1. k = Len(m) /\ Captured(out, m, m[2]) /\ m[3] \in MessageTypes /\ byte_counter = m[2]
      <4>1. byte_counter = m[2]  BY <2>1, <2>8 DEF Parses, Complete
      <4> QED  BY <2>2, <2>4, <2>8, <4>1, PlaceFacts
    <3>2. out' = Meaning(m)
      <4>1. out' \in OrderWord
        <5>1. OrderType(message_type) \in 0 .. 15
          BY <2>4, OrderTypeType DEF TypeOK
        <5> QED  BY <2>3, <2>4, <5>1 DEF OrderWord
      <4>2. Captured(out', m, m[2])
        BY <2>3, <2>6, <3>1
      <4> QED  BY <2>2, <3>1, <4>1, <4>2, CapturedAll
    <3>3. BeforeMessage(m, k)'
      BY <2>3, <2>8, <3>1 DEF BeforeMessage
    <3> QED  BY <2>1, <2>3, <2>8, <3>2, <3>3 DEF Place, Complete
  <2> QED  BY <2>7, <2>8
<1> QED  BY <1>1, <1>2, <1>3, <1>4 DEF StateStep

\* A clock with the next byte of the message takes it.
LEMMA PlaceAdvance ==
  ASSUME IInv, StateStep, ready_o, bus.valid,
         NEW CONSTANT m \in Seq(Byte), Framed(m), NEW CONSTANT k \in 0 .. Len(m) - 1,
         Place(m, k), bus.data = m[k + 1]
  PROVE  /\ ready_o'
         /\ Place(m, k + 1)'
         /\ ~ Complete /\ ~ valid_o'
         /\ k >= 2 => current_state' # "GET_LENGTH"
<1>1. /\ Len(m) \in Nat /\ Len(m) >= 3 /\ m[1] = 0 /\ m[2] \in Byte /\ m[3] \in Byte
      /\ m[2] = Len(m) - 2 /\ m[2] >= 1 /\ m[2] >= Needed(m[3])
      /\ m[2] \in Nat /\ k \in Nat /\ k + 1 <= Len(m)
  BY FramedFacts
<1>2. ~ Complete /\ Consume
  <2>1. TypeOK /\ k \in 0 .. Len(m) /\ k # Len(m)  BY <1>1 DEF IInv
  <2> QED  BY <2>1, PlaceFacts DEF Consume
<1>3. CASE GetLength
  <2>1. BeforeMessage(m, k) /\ current_state = "GET_LENGTH"
    BY <1>3 DEF GetLength, Place, BeforeMessage, BeforeType, SkipsOneMore, Skips, Parses
  <2>2. CASE k = 0
    <3>1. BeforeMessage(m, k + 1)'
      BY <1>1, <1>3, <2>2 DEF GetLength, BeforeMessage
    <3> QED  BY <1>2, <1>3, <2>2, <3>1 DEF GetLength, Place
  <2>3. CASE k = 1
    <3>1. BeforeType(m, k + 1)'
      BY <1>1, <1>2, <1>3, <2>3 DEF GetLength, BeforeType
    <3> QED  BY <1>2, <1>3, <2>3, <3>1 DEF GetLength, Place
  <2> QED  BY <1>1, <2>1, <2>2, <2>3 DEF BeforeMessage
<1>4. CASE GetMsgType
  <2>1. BeforeType(m, k) /\ current_state = "GET_MSG_TYPE"
    BY <1>4 DEF GetMsgType, Place, BeforeMessage, BeforeType, SkipsOneMore, Skips, Parses
  <2>2. /\ k = 2 /\ message_length' = m[2] /\ message_type' = m[3] /\ byte_counter' = 1
        /\ out' = Cleared /\ ready_o' /\ ~ valid_o'
        /\ current_state' = IF m[3] \in MessageTypes THEN "PARSE_MSG" ELSE "PARSE_MSG_IRRELEVANT"
    BY <1>2, <1>4, <2>1 DEF GetMsgType, BeforeType
  <2>3. CASE m[3] \in MessageTypes
    <3>1. Captured(out', m, byte_counter')
      BY <2>2, <2>3, CapturedNothing
    <3>2. Captured(out, m, byte_counter)'
      BY <3>1 DEF Captured
    <3>3. Parses(m, k + 1)'
      BY <2>2, <2>3, <3>2 DEF Parses
    <3> QED  BY <1>2, <2>2, <2>3, <3>3 DEF Place
  <2>4. CASE m[3] \notin MessageTypes
    <3>1. Skips(m, k + 1)'
      BY <2>2, <2>4 DEF Skips, IsOrder, TypeOf
    <3> QED  BY <1>2, <2>2, <2>4, <3>1 DEF Place
  <2> QED  BY <2>3, <2>4
<1>5. CASE ParseIrrelevant
  <2>1. (SkipsOneMore(k) \/ Skips(m, k)) /\ current_state = "PARSE_MSG_IRRELEVANT"
    BY <1>5 DEF ParseIrrelevant, Place, BeforeMessage, BeforeType, SkipsOneMore, Skips, Parses
  <2>2. CASE SkipsOneMore(k)
    <3>1. BeforeMessage(m, k + 1)' /\ k = 0
      BY <1>2, <1>5, <2>2 DEF ParseIrrelevant, SkipsOneMore, BeforeMessage
    <3> QED  BY <1>2, <1>5, <3>1 DEF ParseIrrelevant, Place
  <2>3. CASE Skips(m, k)
    <3>1. k >= 3 /\ byte_counter = k - 2 /\ message_length = m[2] /\ ~ IsOrder(m)
      BY <2>3 DEF Skips
    <3>2. byte_counter < message_length /\ byte_counter \in Byte
      <4>1. \A b \in Byte, n \in Nat : n < b => n \in Byte  BY DEF Byte
      <4>2. byte_counter \in Nat /\ byte_counter < m[2]  BY <1>1, <3>1
      <4> QED  BY <1>1, <3>1, <4>1, <4>2
    <3>3. byte_counter' = byte_counter + 1
      BY <1>2, <1>5, <3>2, OffsetType DEF ParseIrrelevant
    <3>4. current_state' = "PARSE_MSG_IRRELEVANT" /\ message_length' = message_length
          /\ ready_o' /\ ~ valid_o'
      BY <1>5, <3>1, <3>2, <1>1 DEF ParseIrrelevant
    <3>5. Skips(m, k + 1)'
      BY <3>1, <3>3, <3>4, <1>1 DEF Skips
    <3> QED  BY <1>2, <3>4, <3>5 DEF Place
  <2> QED  BY <2>1, <2>2, <2>3
<1>6. CASE ParseMsg
  <2>1. Parses(m, k) /\ current_state = "PARSE_MSG"
    BY <1>6 DEF ParseMsg, Place, BeforeMessage, BeforeType, SkipsOneMore, Skips
  <2>2. /\ k >= 3 /\ byte_counter = k - 2 /\ message_length = m[2]
        /\ message_type = m[3] /\ m[3] \in MessageTypes /\ (~ IsOrder(m) => k < 34)
        /\ Captured(out, m, byte_counter)
    BY <2>1 DEF Parses
  <2>3. byte_counter \in Nat /\ byte_counter < message_length /\ byte_counter # message_length
    BY <1>1, <2>2
  <2>4. /\ out' = [Capture EXCEPT !.order_type = OrderType(message_type)]
        /\ byte_counter' = byte_counter + 1
        /\ message_length' = message_length /\ message_type' = message_type
        /\ ~ valid_o' /\ ready_o'
        /\ current_state' = IF NonPrintable THEN "PARSE_MSG_IRRELEVANT" ELSE "PARSE_MSG"
    BY <1>2, <1>6, <2>3 DEF ParseMsg
  <2>5. Captured(out', m, byte_counter')
    <3>1. byte_counter + 3 \in 1 .. Len(m) /\ byte_counter <= 255
          /\ bus.data = m[byte_counter + 3]
      <4>1. byte_counter <= 255
        <5>1. \A b \in Byte : b \in Nat /\ b <= 255  BY DEF Byte
        <5> QED  BY <1>1, <2>2, <2>3, <5>1
      <4>2. byte_counter + 3 = k + 1  BY <1>1, <2>2
      <4> QED  BY <1>1, <4>1, <4>2
    <3> QED  BY <2>2, <2>4, <3>1, CapturedByte DEF IInv
  <2>6. Captured(out, m, byte_counter)'
    BY <2>5 DEF Captured
  <2>7. byte_counter' = (k + 1) - 2 /\ k + 1 >= 3
    BY <1>1, <2>2, <2>4
  <2>8. NonPrintable <=> m[3] = MESSAGE_TYPE_C /\ k = 33 /\ m[34] = 78
    BY <1>1, <2>2 DEF NonPrintable
  <2>9. CASE NonPrintable
    <3>1. ~ IsOrder(m)
      BY <2>8, <2>9 DEF IsOrder, TypeOf
    <3>2. Skips(m, k + 1)'
      BY <2>2, <2>4, <2>7, <2>9, <3>1 DEF Skips
    <3> QED  BY <1>2, <2>4, <2>9, <3>2 DEF Place
  <2>10. CASE ~ NonPrintable
    <3>1. ~ IsOrder(m) => k + 1 < 34
      <4>1. ASSUME ~ IsOrder(m), k = 33 PROVE FALSE
        BY <2>2, <2>8, <2>10, <4>1 DEF IsOrder, TypeOf
      <4> QED  BY <1>1, <2>2, <4>1
    <3>2. Parses(m, k + 1)'
      BY <2>2, <2>4, <2>6, <2>7, <2>10, <3>1 DEF Parses
    <3> QED  BY <1>2, <2>4, <2>10, <3>2 DEF Place
  <2> QED  BY <2>9, <2>10
<1> QED  BY <1>3, <1>4, <1>5, <1>6 DEF StateStep

-----------------------------------------------------------------------------
(* The link: a feed of framed messages, a clock or more between its bytes, *)
(* and a sink whose longest stall ends before the next message but one can *)
(* be complete.                                                            *)

Prompt ==
  /\ Paced
  /\ 78 \notin IdleBytes
  /\ StallLimit > 0
  /\ \A n \in DOMAIN Messages : \A m \in Messages[n] :
       /\ Framed(m)
       /\ TypeOf(m) \in MessageTypes => StallLimit + 3 <= 2 * Len(m)

\* The message in progress, and how many of its bytes the parser has passed.
Current == IF feed = <<>> THEN <<>> ELSE Last(feed)
Passed == IF bus.valid THEN put - 1 ELSE put

Sourced ==
  /\ feed \in Seq(Seq(Byte)) /\ Len(feed) <= Len(Messages)
  /\ \A n \in 1 .. Len(feed) : feed[n] \in Messages[n]
  /\ source = IF bus.valid THEN "resting" ELSE "free"
  /\ put \in 0 .. Len(Current)
  /\ feed # <<>> => put > 0
  /\ IF bus.valid THEN put > 0 /\ bus.data = Current[put] ELSE bus.data # 78

\* The message is complete and the parser waits for the next.
AtEnd == current_state = "GET_LENGTH" /\ ~ bus.valid /\ put = Len(Current)

\* The message will still make an order word.
Open == feed # <<>> /\ IsOrder(Current) /\ ~ AtEnd

\* A word is offered right after its message.
Offered == valid_o => current_state = "GET_LENGTH" /\ (AtEnd \/ (bus.valid /\ put = 1))

\* A word that waits has waited through all the clocks of the message that follows.
Timely == m_axis.tvalid => AtEnd \/ 2 * put - Count(bus.valid) <= stalled + 2

Words ==
  /\ Len(Orders) = taken + Count(m_axis.tvalid) + Count(valid_o) + Count(Open)
  /\ m_axis.tvalid => m_axis.tdata = Meaning(Orders[taken + 1])
  /\ valid_o => out = Meaning(Orders[taken + 1])

LinkInv ==
  /\ IInv
  /\ Sourced
  /\ ready_o
  /\ Place(Current, Passed)
  /\ Offered
  /\ Timely
  /\ stalled \in 0 .. StallLimit /\ taken \in Nat
  /\ Words

LEMMA LinkFacts ==
  ASSUME Prompt, LinkInv
  PROVE  /\ Current \in Seq(Byte) /\ Len(Current) \in Nat /\ put \in 0 .. Len(Current)
         /\ feed = <<>> => Len(Current) = 0 /\ ~ bus.valid /\ put = 0
         /\ feed # <<>> => /\ Framed(Current) /\ put > 0
                           /\ Current = feed[Len(feed)]
                           /\ TypeOf(Current) \in MessageTypes
                                => StallLimit + 3 <= 2 * Len(Current)
         /\ Passed \in 0 .. Len(Current) /\ Passed \in Nat
         /\ AllPut <=> put = Len(Current)
<1>1. /\ feed \in Seq(Seq(Byte)) /\ Len(feed) <= Len(Messages) /\ Len(feed) \in Nat
      /\ \A n \in 1 .. Len(feed) : feed[n] \in Messages[n]
      /\ put \in 0 .. Len(Current) /\ (feed # <<>> => put > 0) /\ (bus.valid => put > 0)
  BY DEF LinkInv, Sourced
<1>2. CASE feed = <<>>
  <2>1. Current = <<>> /\ Len(Current) = 0 /\ Current \in Seq(Byte)
    BY <1>2 DEF Current
  <2> QED  BY <1>1, <1>2, <2>1 DEF Passed, AllPut
<1>3. CASE feed # <<>>
  <2>1. Current = feed[Len(feed)] /\ Current = Last(feed)
    BY <1>3 DEF Current, Last
  <2>2. Len(feed) \in 1 .. Len(feed) /\ Len(feed) \in DOMAIN Messages
    BY <1>1, <1>3, LinkAssumption
  <2>3. Current \in Seq(Byte) /\ Current \in Messages[Len(feed)] /\ Len(Current) \in Nat
    <3> DEFINE S == Seq(Byte)
    <3>1. feed[Len(feed)] \in S /\ feed[Len(feed)] \in Messages[Len(feed)]
      <4>1. feed \in Seq(S) /\ \A n \in 1 .. Len(feed) : feed[n] \in Messages[n]
        BY <1>1
      <4> HIDE DEF S
      <4> QED  BY <2>2, <4>1
    <3>2. \A s \in Seq(Byte) : Len(s) \in Nat
      OBVIOUS
    <3> QED  BY <2>1, <3>1, <3>2, Zenon
  <2>4. Framed(Current) /\ (TypeOf(Current) \in MessageTypes
                              => StallLimit + 3 <= 2 * Len(Current))
    BY <2>2, <2>3 DEF Prompt
  <2> QED  BY <1>1, <1>3, <2>1, <2>3, <2>4 DEF Passed, AllPut
<1> QED  BY <1>2, <1>3

\* A message that is complete in the parser is never held off: the word before it
\* has been taken.
LEMMA NeverHeldOff ==
  ASSUME Prompt, LinkInv
  PROVE  /\ Complete => /\ feed # <<>> /\ IsOrder(Current) /\ put = Len(Current)
                        /\ ~ bus.valid /\ ready_i /\ ~ m_axis.tvalid /\ ~ valid_o
         /\ put = Len(Current) /\ ~ bus.valid => (Open <=> Complete)
<1>1. TypeOK /\ (ready_i <=> ~ m_axis.tvalid) /\ (valid_o => current_state # "PARSE_MSG")
      /\ Place(Current, Passed)
  BY DEF LinkInv, IInv, HandshakeInv
<1>2. CASE feed = <<>>
  <2>1. Passed = 0  BY <1>2, LinkFacts
  <2>2. ~ Complete
    BY <1>1, <2>1 DEF Complete, Place, BeforeMessage, BeforeType, SkipsOneMore, Skips, Parses
  <2> QED  BY <1>2, <2>2 DEF Open
<1>3. CASE feed # <<>>
  <2>1. /\ Current \in Seq(Byte) /\ Framed(Current) /\ Passed \in 0 .. Len(Current)
        /\ Len(Current) \in Nat /\ put \in 0 .. Len(Current)
        /\ TypeOf(Current) \in MessageTypes => StallLimit + 3 <= 2 * Len(Current)
    BY <1>3, LinkFacts
  <2>2. /\ Complete => IsOrder(Current) /\ Passed = Len(Current)
        /\ Passed = Len(Current) => \/ BeforeMessage(Current, Passed)
                                    \/ Skips(Current, Passed)
                                    \/ Complete /\ Parses(Current, Passed)
    BY <1>1, <2>1, PlaceFacts
  <2>3. Complete => put = Len(Current) /\ ~ bus.valid
    BY <2>1, <2>2 DEF Passed
  <2>4. ASSUME Complete, m_axis.tvalid PROVE FALSE
    <3>1. ~ AtEnd
      BY <2>4 DEF Complete, AtEnd
    <3>2. 2 * Len(Current) <= stalled + 2
      BY <2>1, <2>3, <2>4, <3>1 DEF LinkInv, Timely, Count
    <3>3. StallLimit + 3 <= 2 * Len(Current)
      BY <2>1, <2>2, <2>4 DEF IsOrder
    <3>4. stalled \in 0 .. StallLimit /\ StallLimit \in Nat
      BY LinkAssumption DEF LinkInv
    <3> QED  BY <2>1, <3>2, <3>3, <3>4
  <2>5. ASSUME put = Len(Current), ~ bus.valid PROVE Open <=> Complete
    <3>1. Passed = Len(Current)  BY <2>5 DEF Passed
    <3>2. CASE BeforeMessage(Current, Passed)
      BY <2>5, <3>2 DEF BeforeMessage, Open, AtEnd, Complete
    <3>3. CASE Skips(Current, Passed)
      BY <3>3 DEF Skips, Open, Complete
    <3>4. CASE Complete
      BY <1>3, <2>2, <3>4 DEF Open, AtEnd, Complete
    <3> QED  BY <2>2, <3>1, <3>2, <3>3, <3>4
  <2> QED  BY <1>1, <1>3, <2>2, <2>3, <2>4, <2>5 DEF Complete
<1> QED  BY <1>2, <1>3

LEMMA PlacePrime ==
  ASSUME NEW CONSTANT m, NEW CONSTANT k, Current' = m, Passed' = k, Place(m, k)'
  PROVE  Place(Current, Passed)'
BY DEF Place, BeforeMessage, BeforeType, SkipsOneMore, Skips, Parses, Captured, IsOrder, TypeOf

\* A clock without a byte.
LEMMA IdleEffect ==
  ASSUME Prompt, LinkInv, NEW tready \in BOOLEAN, Idle(tready)
  PROVE  /\ Sourced' /\ ready_o' /\ Place(Current, Passed)'
         /\ feed' = feed /\ put' = put /\ ~ bus'.valid /\ Current' = Current
         /\ valid_o' <=> Complete
         /\ Complete => out' = Meaning(Current)
         /\ AtEnd \/ Complete => AtEnd'
         /\ Count(Open) = Count(Open)' + Count(valid_o)'
<1>1. PICK data \in IdleBytes : Clock(FALSE, data, tready)
  BY DEF Idle
<1>2. /\ feed' = feed /\ put' = put /\ source' = "free"
      /\ bus' = [data |-> data, valid |-> FALSE] /\ data # 78 /\ StateStep
  BY <1>1 DEF Idle, Clock, SampleInput, Prompt, StateStep
<1>3. Current' = Current /\ bus'.valid = FALSE /\ bus'.data = data /\ Passed' = put
  BY <1>2 DEF Current, Passed
<1>4. Sourced'
  BY <1>2, <1>3 DEF LinkInv, Sourced
<1>5. IInv /\ ready_o /\ Place(Current, Passed) /\ Sourced
  BY DEF LinkInv
<1>6. PICK m : m = Current
  OBVIOUS
<1>7. PICK k : k = Passed
  OBVIOUS
<1>8. /\ m \in Seq(Byte) /\ k \in 0 .. Len(m) /\ Len(m) \in Nat /\ k \in Nat /\ put \in 0 .. Len(m)
      /\ (feed # <<>> => Framed(m)) /\ (feed = <<>> => k = 0 /\ ~ bus.valid)
      /\ Place(m, k)
  BY <1>5, <1>6, <1>7, LinkFacts
<1>9. CASE bus.valid
  <2>1. feed # <<>> /\ Framed(m) /\ k = put - 1 /\ put > 0 /\ bus.data = m[put]
    BY <1>5, <1>6, <1>7, <1>8, <1>9 DEF Sourced, Passed
  <2>2. k \in 0 .. Len(m) - 1 /\ bus.data = m[k + 1] /\ k + 1 = put
    BY <1>8, <2>1
  <2>3. /\ ready_o' /\ Place(m, k + 1)' /\ ~ Complete /\ ~ valid_o'
        /\ k >= 2 => current_state' # "GET_LENGTH"
    BY <1>2, <1>5, <1>8, <1>9, <2>1, <2>2, PlaceAdvance
  <2>4. Place(Current, Passed)'
    <3>1. PICK j : j = k + 1  OBVIOUS
    <3>2. Current' = m /\ Passed' = j /\ Place(m, j)'
      BY <1>3, <1>6, <2>2, <2>3, <3>1
    <3> QED  BY <3>2, PlacePrime
  <2>5. ~ AtEnd  BY <1>9 DEF AtEnd
  <2>6. ~ AtEnd'
    <3>1. SUFFICES ASSUME put = Len(m) PROVE current_state' # "GET_LENGTH"
      BY <1>2, <1>3, <1>6 DEF AtEnd
    <3>2. Len(m) >= 3  BY <2>1, <1>8, FramedFacts
    <3> QED  BY <1>8, <2>1, <2>3, <3>1, <3>2
  <2>7. Open' <=> Open
    BY <1>2, <1>3, <2>5, <2>6 DEF Open, IsOrder, TypeOf
  <2> QED
    BY <1>2, <1>3, <1>4, <1>9, <2>3, <2>4, <2>5, <2>7 DEF Count
<1>10. CASE ~ bus.valid
  <2>1. bus.data # 78 /\ k = put
    BY <1>5, <1>7, <1>10 DEF Sourced, Passed
  <2>2. Complete => ready_i
    BY NeverHeldOff
  <2>3. k >= 3 => m \in Seq(Byte) /\ Framed(m) /\ k \in 0 .. Len(m)
    BY <1>8
  <2>4. /\ ready_o' /\ Place(m, k)' /\ ~ Complete' /\ (valid_o' <=> Complete)
        /\ (current_state = "GET_LENGTH")' <=> (current_state = "GET_LENGTH" \/ Complete)
        /\ Complete => out' = Meaning(m)
    BY <1>2, <1>5, <1>8, <1>10, <2>1, <2>2, <2>3, PlaceKeep
  <2>5. Place(Current, Passed)'
    BY <1>3, <1>6, <2>1, <2>4, PlacePrime
  <2>6. Complete => feed # <<>> /\ IsOrder(Current) /\ put = Len(Current)
    BY NeverHeldOff
  <2>7. AtEnd' <=> (AtEnd \/ Complete)
    BY <1>2, <1>3, <1>10, <2>4, <2>6 DEF AtEnd
  <2>8. Complete => Open
    BY <2>6 DEF Open, AtEnd, Complete
  <2>9. Open' <=> Open /\ ~ Complete
    <3>1. IsOrder(Current)' <=> IsOrder(Current)
      BY <1>3 DEF IsOrder, TypeOf
    <3> QED  BY <1>2, <2>7, <3>1 DEF Open
  <2>10. Count(Open) = Count(Open)' + Count(valid_o)'
    BY <2>4, <2>8, <2>9 DEF Count
  <2> QED
    BY <1>2, <1>3, <1>4, <1>6, <2>4, <2>5, <2>7, <2>10
<1> QED  BY <1>9, <1>10

\* A clock that shows a further byte of the message.
LEMMA NextEffect ==
  ASSUME Prompt, LinkInv, NEW tready \in BOOLEAN, NextByte(tready)
  PROVE  /\ Sourced' /\ ready_o' /\ Place(Current, Passed)'
         /\ feed' = feed /\ put' = put + 1 /\ bus'.valid /\ Current' = Current
         /\ ~ bus.valid /\ put # Len(Current)
         /\ ~ valid_o' /\ ~ Complete
         /\ Count(Open)' = Count(Open)
<1>1. PICK data \in Byte : data = Last(feed)[put + 1] /\ Clock(TRUE, data, tready)
                           /\ put + 1 <= Len(Current) /\ feed # <<>>
  <2>1. put # Len(Current) /\ feed # <<>>
    BY LinkFacts DEF NextByte
  <2>2. put + 1 \in 1 .. Len(Current) /\ Current = Last(feed)
    BY <2>1, LinkFacts DEF Current
  <2>3. Last(feed)[put + 1] \in Byte
    BY <2>2, LinkFacts
  <2>4. Clock(TRUE, Last(feed)[put + 1], tready)
    BY DEF NextByte, Show
  <2>5. put + 1 <= Len(Current)
    BY <2>2, LinkFacts
  <2> QED  BY <2>1, <2>3, <2>4, <2>5
<1>2. /\ feed' = feed /\ put' = put + 1 /\ source' = "resting" /\ source = "free"
      /\ bus' = [data |-> data, valid |-> TRUE] /\ StateStep
  BY <1>1 DEF NextByte, Show, Clock, SampleInput, Prompt, StateStep
<1>3. IInv /\ ready_o /\ Place(Current, Passed) /\ Sourced
  BY DEF LinkInv
<1>4. ~ bus.valid /\ bus.data # 78 /\ Passed = put
  BY <1>2, <1>3 DEF Sourced, Passed
<1>5. /\ Current' = Current /\ Current = Last(feed) /\ bus'.valid = TRUE /\ bus'.data = data
      /\ put \in Nat /\ Passed' = put /\ put + 1 \in 0 .. Len(Current)
  <2>1. put \in Nat /\ put + 1 \in 0 .. Len(Current)
    BY <1>1, LinkFacts
  <2>2. Current' = Current /\ Current = Last(feed)
    BY <1>1, <1>2 DEF Current
  <2> QED  BY <1>2, <2>1, <2>2 DEF Passed
<1>6. Sourced'
  <2>1. put' \in 0 .. Len(Current)' /\ put' > 0 /\ bus'.data = Current'[put']
    BY <1>1, <1>2, <1>5
  <2>2. source' = IF bus'.valid THEN "resting" ELSE "free"
    BY <1>2
  <2> QED  BY <1>2, <1>3, <1>5, <2>1, <2>2 DEF Sourced
<1>7. PICK m : m = Current
  OBVIOUS
<1>8. PICK k : k = put
  OBVIOUS
<1>9. /\ m \in Seq(Byte) /\ k \in 0 .. Len(m) /\ Len(m) \in Nat /\ k \in Nat
      /\ Framed(m) /\ Place(m, k) /\ k # Len(m)
  BY <1>1, <1>3, <1>4, <1>7, <1>8, LinkFacts
<1>10. ~ Complete
  BY <1>1, NeverHeldOff, LinkFacts
<1>11. /\ ready_o' /\ Place(m, k)' /\ (valid_o' <=> Complete)
  BY <1>2, <1>3, <1>4, <1>9, <1>10, PlaceKeep
<1>12. Place(Current, Passed)'
  BY <1>5, <1>7, <1>8, <1>11, PlacePrime
<1>13. Open' <=> Open
  <2>1. ~ AtEnd /\ ~ AtEnd'
    BY <1>5, <1>7, <1>8, <1>9 DEF AtEnd
  <2> QED  BY <1>2, <1>5, <2>1 DEF Open, IsOrder, TypeOf
<1> QED
  BY <1>2, <1>4, <1>5, <1>6, <1>7, <1>8, <1>9, <1>10, <1>11, <1>12, <1>13 DEF Count

\* A clock that shows the first byte of a message.
LEMMA FirstEffect ==
  ASSUME Prompt, LinkInv, NEW tready \in BOOLEAN, FirstByte(tready)
  PROVE  /\ Sourced' /\ ready_o' /\ Place(Current, Passed)'
         /\ put' = 1 /\ bus'.valid
         /\ ~ bus.valid /\ put = Len(Current)
         /\ valid_o' <=> Complete
         /\ Complete => out' = Meaning(Current)
         /\ current_state = "GET_LENGTH" \/ Complete => (current_state = "GET_LENGTH")'
         /\ Count(Open) = Count(valid_o)'
         /\ \E m \in Seq(Byte) : feed' = Append(feed, m) /\ (Open' <=> IsOrder(m))
<1>1. PICK new \in Messages[Len(feed) + 1] :
           feed' = Append(feed, new) /\ Show(new, 1, tready)
  BY DEF FirstByte
<1>2. /\ AllPut /\ source = "free" /\ Len(feed) < Len(Messages) /\ Sourced
      /\ IInv /\ ready_o /\ Place(Current, Passed)
  BY DEF FirstByte, LinkInv
<1>3. new \in Seq(Byte) /\ Framed(new) /\ Len(feed) \in Nat /\ feed \in Seq(Seq(Byte))
  <2>1. feed \in Seq(Seq(Byte)) /\ Len(feed) \in Nat  BY <1>2 DEF Sourced
  <2>2. Len(feed) + 1 \in DOMAIN Messages /\ Messages[Len(feed) + 1] \in SUBSET Seq(Byte)
    BY <1>2, <2>1, LinkAssumption
  <2> QED  BY <2>1, <2>2 DEF Prompt
<1>4. new[1] = 0 /\ Len(new) \in Nat /\ Len(new) >= 3
  BY <1>3, FramedFacts
<1>5. /\ put' = 1 /\ source' = "resting"
      /\ bus' = [data |-> 0, valid |-> TRUE] /\ StateStep
  BY <1>1, <1>4 DEF Show, Clock, SampleInput, Prompt, StateStep
<1>6. ~ bus.valid /\ bus.data # 78 /\ Passed = put /\ put = Len(Current)
  BY <1>2, LinkFacts DEF Sourced, Passed
<1>7. /\ Len(feed') = Len(feed) + 1 /\ feed'[Len(feed')] = new /\ feed' # <<>>
      /\ feed' \in Seq(Seq(Byte))
      /\ \A n \in 1 .. Len(feed') : feed'[n] = IF n = Len(feed) + 1 THEN new ELSE feed[n]
  BY <1>1, <1>3
<1>8. Current' = new /\ bus'.valid = TRUE /\ bus'.data = 0 /\ Passed' = 0
  <2>1. Current' = new  BY <1>7 DEF Current, Last
  <2>2. bus'.valid = TRUE /\ bus'.data = 0  BY <1>5
  <2> QED  BY <1>5, <2>1, <2>2 DEF Passed
<1>9. Sourced'
  <2>1. Len(feed') <= Len(Messages)
    BY <1>2, <1>3, <1>7, LinkAssumption
  <2>2. \A n \in 1 .. Len(feed') : feed'[n] \in Messages[n]
    BY <1>1, <1>2, <1>3, <1>7 DEF Sourced
  <2>3. source' = IF bus'.valid THEN "resting" ELSE "free"
    BY <1>5
  <2>4. put' \in 0 .. Len(Current') /\ put' > 0 /\ bus'.data = Current'[put']
    BY <1>4, <1>5, <1>8
  <2> QED  BY <1>7, <1>8, <2>1, <2>2, <2>3, <2>4 DEF Sourced
<1>10. PICK m : m = Current
  OBVIOUS
<1>11. PICK k : k = put
  OBVIOUS
<1>12. /\ m \in Seq(Byte) /\ k = Len(m) /\ Len(m) \in Nat /\ k \in Nat /\ Place(m, k)
       /\ (feed # <<>> => Framed(m)) /\ (feed = <<>> => k = 0)
  BY <1>2, <1>6, <1>10, <1>11, LinkFacts
<1>13. Complete => ready_i
  BY NeverHeldOff
<1>14. /\ ready_o' /\ Place(m, k)' /\ ~ Complete' /\ (valid_o' <=> Complete)
       /\ (current_state = "GET_LENGTH")' <=> (current_state = "GET_LENGTH" \/ Complete)
       /\ Complete => out' = Meaning(m)
  <2>1. k >= 3 => m \in Seq(Byte) /\ Framed(m) /\ k \in 0 .. Len(m)
    BY <1>12
  <2> QED  BY <1>2, <1>5, <1>6, <1>12, <1>13, <2>1, PlaceKeep
<1>15. BeforeMessage(new, 0)' \/ SkipsOneMore(0)'
  <2>1. CASE feed = <<>>
    BY <1>12, <1>14, <2>1
      DEF Place, BeforeMessage, BeforeType, SkipsOneMore, Skips, Parses
  <2>2. CASE feed # <<>>
    <3>1. Len(m) >= 3 /\ m[2] = Len(m) - 2  BY <1>12, <2>2, FramedFacts
    <3>2. ~ BeforeType(m, k)' /\ ~ SkipsOneMore(k)'
      BY <1>12, <3>1 DEF BeforeType, SkipsOneMore
    <3>3. ~ Parses(m, k)'
      BY <1>12, <1>14, <3>1 DEF Parses, Complete
    <3>4. CASE BeforeMessage(m, k)'
      BY <3>4 DEF BeforeMessage
    <3>5. CASE Skips(m, k)'
      BY <1>12, <3>1, <3>5 DEF Skips, SkipsOneMore
    <3> QED  BY <1>14, <3>2, <3>3, <3>4, <3>5 DEF Place
  <2> QED  BY <2>1, <2>2
<1>16. Place(Current, Passed)'
  <2>1. Place(new, 0)'
    BY <1>15 DEF Place
  <2> QED  BY <1>8, <2>1, PlacePrime
<1>17. Open' <=> IsOrder(new)
  <2>1. ~ AtEnd'  BY <1>8 DEF AtEnd
  <2> QED  BY <1>7, <1>8, <2>1 DEF Open, IsOrder, TypeOf
<1>18. Open <=> Complete
  BY <1>6, NeverHeldOff
<1> QED
  BY <1>1, <1>3, <1>5, <1>6, <1>8, <1>9, <1>10, <1>14, <1>16, <1>17, <1>18 DEF Count

\* The output stage and the sink in one clock.
LEMMA WordStep ==
  ASSUME Prompt, LinkInv, NEW tready \in BOOLEAN, OutputStage(tready), Sink(tready)
  PROVE  /\ taken' + Count(m_axis.tvalid)' = taken + Count(m_axis.tvalid) + Count(valid_o)
         /\ taken' \in Nat /\ stalled' \in 0 .. StallLimit
         /\ m_axis'.tvalid =>
              /\ taken' = taken
              /\ \/ valid_o /\ m_axis'.tdata = out
                 \/ /\ ~ valid_o /\ m_axis.tvalid /\ m_axis'.tdata = m_axis.tdata
                    /\ stalled' = stalled + 1
         /\ ~ m_axis.tvalid /\ ~ valid_o => taken' = taken /\ ~ m_axis'.tvalid
<1>1. /\ (valid_o => ~ m_axis.tvalid)
      /\ m_axis = [tvalid |-> m_axis.tvalid, tdata |-> m_axis.tdata]
      /\ taken \in Nat /\ stalled \in 0 .. StallLimit /\ StallLimit \in Nat /\ StallLimit > 0
  BY LinkAssumption DEF LinkInv, IInv, HandshakeInv, TypeOK, Prompt
<1>2. CASE valid_o
  <2>1. m_axis'.tvalid /\ m_axis'.tdata = out
    BY <1>1, <1>2 DEF OutputStage
  <2>2. taken' = taken /\ stalled' = 0
    BY <1>1, <1>2 DEF Sink
  <2> QED  BY <1>1, <1>2, <2>1, <2>2 DEF Count
<1>3. CASE ~ valid_o /\ m_axis.tvalid /\ tready
  <2>1. ~ m_axis'.tvalid
    BY <1>1, <1>3 DEF OutputStage
  <2>2. taken' = taken + 1 /\ stalled' = 0
    BY <1>3 DEF Sink
  <2> QED  BY <1>1, <1>3, <2>1, <2>2 DEF Count
<1>4. CASE ~ valid_o /\ m_axis.tvalid /\ ~ tready
  <2>1. m_axis' = m_axis
    BY <1>4 DEF OutputStage
  <2>2. taken' = taken /\ stalled' = stalled + 1 /\ stalled # StallLimit
    BY <1>1, <1>4 DEF Sink
  <2> QED  BY <1>1, <1>4, <2>1, <2>2 DEF Count
<1>5. CASE ~ valid_o /\ ~ m_axis.tvalid
  <2>1. m_axis' = m_axis
    BY <1>5 DEF OutputStage
  <2>2. taken' = taken /\ stalled' = 0
    BY <1>5 DEF Sink
  <2> QED  BY <1>1, <1>5, <2>1, <2>2 DEF Count
<1> QED  BY <1>2, <1>3, <1>4, <1>5

\* What the source's three steps have in common.
LEMMA SourceStep ==
  ASSUME Prompt, LinkInv, NEW tready \in BOOLEAN,
         NextByte(tready) \/ FirstByte(tready) \/ Idle(tready)
  PROVE  /\ StateStep /\ OutputStage(tready) /\ IInv'
         /\ Sourced' /\ ready_o' /\ Place(Current, Passed)'
         /\ valid_o' => Complete /\ out' = Meaning(Current)
         /\ Offered'
         /\ \E g \in Nat :
              /\ Len(Orders)' = Len(Orders) + g
              /\ Count(Open) + g = Count(Open)' + Count(valid_o)'
         /\ \A i \in 1 .. Len(Orders) : Orders[i]' = Orders[i]
<1>1. feed \in Seq(Seq(Byte))
  BY DEF LinkInv, Sourced
<1>2. Orders \in Seq(Seq(Byte)) /\ Len(Orders) \in Nat
  BY <1>1, OrdersFromFeed DEF Orders
<1>3. \E valid \in BOOLEAN, data \in Byte : Clock(valid, data, tready)
  <2>1. CASE NextByte(tready)
    <3>1. put + 1 \in 1 .. Len(Current) /\ Current = Last(feed) /\ Current \in Seq(Byte)
      <4>1. put # Len(Current) /\ feed # <<>>  BY <2>1, NextEffect, LinkFacts DEF NextByte
      <4> QED  BY <4>1, LinkFacts DEF Current
    <3>2. Last(feed)[put + 1] \in Byte  BY <3>1
    <3> QED  BY <2>1, <3>2 DEF NextByte, Show
  <2>2. CASE FirstByte(tready)
    <3>1. PICK new \in Messages[Len(feed) + 1] : Show(new, 1, tready) /\ Len(feed) < Len(Messages)
      BY <2>2 DEF FirstByte
    <3>2. Len(feed) + 1 \in DOMAIN Messages /\ Messages[Len(feed) + 1] \in SUBSET Seq(Byte)
      BY <1>1, <3>1, LinkAssumption
    <3>3. new \in Seq(Byte) /\ Framed(new)  BY <3>1, <3>2 DEF Prompt
    <3>4. new[1] \in Byte  BY <3>3, FramedFacts DEF Byte
    <3> QED  BY <3>1, <3>4 DEF Show
  <2>3. CASE Idle(tready)
    BY <2>3, LinkAssumption DEF Idle
  <2> QED  BY <2>1, <2>2, <2>3
<1>4. StateStep /\ OutputStage(tready)
  BY <1>3 DEF Clock, StateStep
<1>5. IInv'
  <2>1. IInv  BY DEF LinkInv
  <2> QED  BY <1>3, <2>1, TypeStep, HandshakeStep DEF IInv
<1>6. CASE NextByte(tready)
  <2>1. /\ Sourced' /\ ready_o' /\ Place(Current, Passed)' /\ ~ valid_o' /\ feed' = feed
        /\ Count(Open)' = Count(Open)
    BY <1>6, NextEffect
  <2>2. Orders' = Orders  BY <2>1 DEF Orders
  <2>3. Count(valid_o)' = 0 /\ Count(Open) \in Nat  BY <2>1 DEF Count
  <2>4. Offered'  BY <2>1 DEF Offered
  <2>5. \E g \in Nat : /\ Len(Orders)' = Len(Orders) + g
                       /\ Count(Open) + g = Count(Open)' + Count(valid_o)'
    <3>1. 0 \in Nat /\ Len(Orders)' = Len(Orders) + 0
          /\ Count(Open) + 0 = Count(Open)' + Count(valid_o)'
      BY <1>2, <2>1, <2>2, <2>3
    <3> QED  BY <3>1
  <2> QED  BY <1>4, <1>5, <2>1, <2>2, <2>4, <2>5
<1>7. CASE Idle(tready)
  <2>1. /\ Sourced' /\ ready_o' /\ Place(Current, Passed)' /\ feed' = feed
        /\ (valid_o' <=> Complete) /\ (Complete => out' = Meaning(Current))
        /\ (AtEnd \/ Complete => AtEnd')
        /\ Count(Open) = Count(Open)' + Count(valid_o)'
    BY <1>7, IdleEffect
  <2>2. Orders' = Orders  BY <2>1 DEF Orders
  <2>3. Offered'  BY <2>1 DEF Offered, AtEnd
  <2>4. \E g \in Nat : /\ Len(Orders)' = Len(Orders) + g
                       /\ Count(Open) + g = Count(Open)' + Count(valid_o)'
    <3>1. Count(Open) \in Nat  BY DEF Count
    <3>2. 0 \in Nat /\ Len(Orders)' = Len(Orders) + 0
          /\ Count(Open) + 0 = Count(Open)' + Count(valid_o)'
      BY <1>2, <2>1, <2>2, <3>1
    <3> QED  BY <3>2
  <2> QED  BY <1>4, <1>5, <2>1, <2>2, <2>3, <2>4
<1>8. CASE FirstByte(tready)
  <2>1. /\ Sourced' /\ ready_o' /\ Place(Current, Passed)'
        /\ put' = 1 /\ bus'.valid
        /\ (valid_o' <=> Complete) /\ (Complete => out' = Meaning(Current))
        /\ (current_state = "GET_LENGTH" \/ Complete => (current_state = "GET_LENGTH")')
        /\ Count(Open) = Count(valid_o)'
        /\ \E m \in Seq(Byte) : feed' = Append(feed, m) /\ (Open' <=> IsOrder(m))
    BY <1>8, FirstEffect
  <2>2. Offered'  BY <2>1 DEF Offered
  <2>3. PICK m \in Seq(Byte) : feed' = Append(feed, m) /\ (Open' <=> IsOrder(m))
    BY <2>1
  <2>4. Orders' = IF IsOrder(m) THEN Append(Orders, m) ELSE Orders
    BY <1>1, <2>3, OrdersAppend DEF Orders
  <2>5. PICK g \in 0 .. 1 : g = Count(Open)'
    BY DEF Count
  <2>6. Len(Orders)' = Len(Orders) + g
    BY <1>2, <2>3, <2>4, <2>5 DEF Count
  <2>7. \A i \in 1 .. Len(Orders) : Orders[i]' = Orders[i]
    BY <1>2, <2>4
  <2>8. Count(Open) + g = Count(Open)' + Count(valid_o)'
    BY <2>1, <2>5 DEF Count
  <2> QED  BY <1>4, <1>5, <2>1, <2>2, <2>5, <2>6, <2>7, <2>8
<1> QED  BY <1>6, <1>7, <1>8

LEMMA TimelyStep ==
  ASSUME Prompt, LinkInv, NEW tready \in BOOLEAN,
         NextByte(tready) \/ FirstByte(tready) \/ Idle(tready), Sink(tready)
  PROVE  Timely'
<1> SUFFICES ASSUME m_axis'.tvalid
             PROVE  AtEnd' \/ 2 * put' - Count(bus.valid)' <= stalled' + 2
  BY DEF Timely
<1>1. /\ put \in Nat /\ Len(Current) \in Nat /\ put <= Len(Current)
      /\ stalled \in Nat /\ stalled' \in Nat /\ Count(bus.valid) \in 0 .. 1
      /\ \/ valid_o
         \/ ~ valid_o /\ m_axis.tvalid /\ stalled' = stalled + 1
  <2>1. OutputStage(tready)  BY SourceStep
  <2> QED  BY <2>1, WordStep, LinkFacts, LinkAssumption DEF LinkInv, Count
<1>2. AtEnd \/ (bus.valid /\ put = 1 /\ valid_o)
      \/ (2 * put - Count(bus.valid) <= stalled + 2 /\ stalled' = stalled + 1)
  BY <1>1 DEF LinkInv, Offered, Timely
<1>3. CASE NextByte(tready)
  <2>1. put' = put + 1 /\ bus'.valid /\ ~ bus.valid /\ put # Len(Current)
    BY <1>3, NextEffect
  <2>2. 2 * put <= stalled + 2 /\ stalled' = stalled + 1
    BY <1>1, <1>2, <2>1 DEF AtEnd, Count
  <2> QED  BY <1>1, <2>1, <2>2 DEF Count
<1>4. CASE FirstByte(tready)
  <2>1. put' = 1 /\ bus'.valid
    BY <1>4, FirstEffect
  <2>2. PICK c \in 0 .. 1 : c = Count(bus.valid)'
    BY DEF Count
  <2>3. \A n \in Nat : 2 * 1 - c <= n + 2
    OBVIOUS
  <2>4. stalled' \in Nat
    BY <1>1
  <2> QED  BY <2>1, <2>2, <2>3, <2>4
<1>5. CASE Idle(tready)
  <2>1. put' = put /\ ~ bus'.valid /\ (AtEnd => AtEnd')
    BY <1>5, IdleEffect
  <2>2. CASE AtEnd
    BY <2>1, <2>2
  <2>3. CASE bus.valid /\ put = 1 /\ valid_o
    <3>1. Count(bus.valid)' \in 0 .. 1
      BY DEF Count
    <3> QED  BY <1>1, <2>1, <2>3, <3>1
  <2>4. CASE 2 * put - Count(bus.valid) <= stalled + 2 /\ stalled' = stalled + 1
    BY <1>1, <2>1, <2>4 DEF Count
  <2> QED  BY <1>2, <2>2, <2>3, <2>4
<1> QED  BY <1>3, <1>4, <1>5

LEMMA WordsStep ==
  ASSUME Prompt, LinkInv, NEW tready \in BOOLEAN,
         NextByte(tready) \/ FirstByte(tready) \/ Idle(tready), Sink(tready)
  PROVE  Words'
<1>1. /\ OutputStage(tready)
      /\ (valid_o' => Complete /\ out' = Meaning(Current))
      /\ \A i \in 1 .. Len(Orders) : Orders[i]' = Orders[i]
  BY SourceStep
<1>2. PICK g \in Nat : /\ Len(Orders)' = Len(Orders) + g
                       /\ Count(Open) + g = Count(Open)' + Count(valid_o)'
  BY SourceStep
<1>3. /\ Len(Orders) = taken + Count(m_axis.tvalid) + Count(valid_o) + Count(Open)
      /\ (m_axis.tvalid => m_axis.tdata = Meaning(Orders[taken + 1]))
      /\ (valid_o => out = Meaning(Orders[taken + 1]))
      /\ taken \in Nat
  BY DEF LinkInv, Words
<1>4. /\ taken' + Count(m_axis.tvalid)' = taken + Count(m_axis.tvalid) + Count(valid_o)
      /\ taken' \in Nat
      /\ m_axis'.tvalid =>
           /\ taken' = taken
           /\ \/ valid_o /\ m_axis'.tdata = out
              \/ m_axis.tvalid /\ m_axis'.tdata = m_axis.tdata
      /\ ~ m_axis.tvalid /\ ~ valid_o => taken' = taken /\ ~ m_axis'.tvalid
  BY <1>1, WordStep
<1>5. /\ Count(m_axis.tvalid) \in 0 .. 1 /\ Count(valid_o) \in 0 .. 1 /\ Count(Open) \in 0 .. 1
      /\ Count(m_axis.tvalid)' \in 0 .. 1 /\ Count(valid_o)' \in 0 .. 1 /\ Count(Open)' \in 0 .. 1
  BY DEF Count
<1>6. Len(Orders)' = taken' + Count(m_axis.tvalid)' + Count(valid_o)' + Count(Open)'
  BY <1>2, <1>3, <1>4, <1>5
<1>7. ASSUME m_axis'.tvalid PROVE m_axis'.tdata = Meaning(Orders'[taken' + 1])
  <2>1. m_axis'.tdata = Meaning(Orders[taken + 1]) /\ taken' = taken
    BY <1>3, <1>4, <1>7
  <2>2. Count(m_axis.tvalid) = 1 \/ Count(valid_o) = 1
    BY <1>4, <1>7 DEF Count
  <2>3. taken + 1 \in 1 .. Len(Orders)
    BY <1>3, <1>5, <2>2
  <2> QED  BY <1>1, <2>1, <2>3
<1>8. ASSUME valid_o' PROVE out' = Meaning(Orders'[taken' + 1])
  <2>1. feed # <<>> /\ IsOrder(Current) /\ ~ m_axis.tvalid /\ ~ valid_o
    BY <1>1, <1>8, NeverHeldOff
  <2>2. taken' = taken
    BY <1>4, <2>1
  <2>3. Current = feed[Len(feed)] /\ feed \in Seq(Seq(Byte))
    BY <2>1, LinkFacts DEF LinkInv, Sourced
  <2>4. Len(Orders) > 0 /\ Orders[Len(Orders)] = Current
    BY <2>1, <2>3, LastOrder DEF Orders
  <2>5. ~ AtEnd
    BY <1>1, <1>8 DEF Complete, AtEnd
  <2>6. Len(Orders) = taken + 1
    BY <1>3, <2>1, <2>5 DEF Count, Open
  <2>7. Orders'[taken + 1] = Current
    BY <1>1, <1>3, <2>4, <2>6
  <2> QED  BY <1>1, <1>8, <2>2, <2>4, <2>6, <2>7
<1> QED  BY <1>6, <1>7, <1>8 DEF Words

LEMMA LinkInductive ==
  ASSUME Prompt
  PROVE  /\ LinkInit => LinkInv
         /\ LinkInv /\ [LinkNext]_linkVars => LinkInv'
<1>1. ASSUME LinkInit PROVE LinkInv
  <2>1. IInv
    BY <1>1, Inductive DEF LinkInit
  <2>2. /\ feed = <<>> /\ put = 0 /\ source = "free" /\ stalled = 0 /\ taken = 0
        /\ bus = [data |-> 0, valid |-> FALSE] /\ current_state = "GET_LENGTH"
        /\ ~ valid_o /\ ready_o /\ ~ m_axis.tvalid
    BY <1>1 DEF LinkInit, Init
  <2>3. Current = <<>> /\ Len(Current) = 0 /\ Passed = 0 /\ ~ bus.valid /\ bus.data # 78
    BY <2>2 DEF Current, Passed
  <2>4. Sourced
    <3>1. feed \in Seq(Seq(Byte)) /\ Len(feed) = 0  BY <2>2
    <3>2. Len(Messages) \in Nat  BY LinkAssumption
    <3> QED  BY <2>2, <2>3, <3>1, <3>2 DEF Sourced
  <2>5. Place(Current, Passed)
    BY <2>2, <2>3 DEF Place, BeforeMessage
  <2>6. Words
    <3>1. Len(Orders) = 0  BY <2>2, NoOrders DEF Orders
    <3> QED  BY <2>2, <3>1 DEF Words, Count, Open
  <2>7. stalled \in 0 .. StallLimit /\ taken \in Nat
    BY <2>2, LinkAssumption
  <2> QED  BY <2>1, <2>2, <2>4, <2>5, <2>6, <2>7 DEF LinkInv, Offered, Timely
<1>2. ASSUME LinkInv, LinkNext PROVE LinkInv'
  <2>1. PICK tready \in BOOLEAN :
          (NextByte(tready) \/ FirstByte(tready) \/ Idle(tready)) /\ Sink(tready)
    BY <1>2 DEF LinkNext, PutStep, IdleStep
  <2>2. /\ OutputStage(tready) /\ IInv' /\ Sourced' /\ ready_o' /\ Place(Current, Passed)'
        /\ Offered'
    BY <1>2, <2>1, SourceStep
  <2>3. stalled' \in 0 .. StallLimit /\ taken' \in Nat
    BY <1>2, <2>1, <2>2, WordStep
  <2>4. Timely' /\ Words'
    BY <1>2, <2>1, TimelyStep, WordsStep
  <2> QED  BY <2>2, <2>3, <2>4 DEF LinkInv
<1>3. ASSUME LinkInv, UNCHANGED linkVars PROVE LinkInv'
  <2>1. UNCHANGED <<feed, put, source, stalled, taken>> /\ UNCHANGED parserVars
    BY <1>3 DEF linkVars
  <2>2. /\ bus' = bus /\ current_state' = current_state /\ message_length' = message_length
        /\ message_type' = message_type /\ byte_counter' = byte_counter /\ out' = out
        /\ valid_o' = valid_o /\ ready_o' = ready_o /\ m_axis' = m_axis
    BY <2>1 DEF parserVars
  <2>3. IInv'
    BY <1>3, <2>1, Inductive DEF LinkInv
  <2>4. Current' = Current /\ Passed' = Passed /\ Orders' = Orders
    BY <2>1, <2>2 DEF Current, Passed, Orders
  <2>5. Sourced'
    BY <1>3, <2>1, <2>2, <2>4 DEF LinkInv, Sourced
  <2>6. Place(Current, Passed)'
    <3>1. PICK m : m = Current  OBVIOUS
    <3>2. PICK k : k = Passed  OBVIOUS
    <3>3. Place(m, k)  BY <1>3, <3>1, <3>2 DEF LinkInv
    <3>4. Place(m, k)'
      BY <2>2, <3>3
        DEF Place, BeforeMessage, BeforeType, SkipsOneMore, Skips, Parses, Captured
    <3> QED  BY <2>4, <3>1, <3>2, <3>4, PlacePrime
  <2>7. (AtEnd' <=> AtEnd) /\ (Open' <=> Open)
    BY <2>1, <2>2, <2>4 DEF AtEnd, Open, IsOrder, TypeOf
  <2>8. Offered' /\ Timely'
    BY <1>3, <2>1, <2>2, <2>7 DEF LinkInv, Offered, Timely, Count
  <2>9. Words'
    BY <1>3, <2>1, <2>2, <2>4, <2>7 DEF LinkInv, Words, Count
  <2> QED  BY <1>3, <2>1, <2>2, <2>3, <2>5, <2>6, <2>8, <2>9 DEF LinkInv
<1> QED  BY <1>1, <1>2, <1>3

LEMMA LinkInvariant ==
  ASSUME Prompt
  PROVE  LinkSpec => []LinkInv
<1>1. LinkInit => LinkInv
  BY LinkInductive
<1>2. LinkInv /\ [LinkNext]_linkVars => LinkInv'
  BY LinkInductive
<1> QED  BY <1>1, <1>2, PTL DEF LinkSpec

\* The word on offer is the meaning of the next order message.
LEMMA OfferedMeaning ==
  ASSUME LinkInv, m_axis.tvalid
  PROVE  taken < Len(Orders) /\ m_axis.tdata = Meaning(Orders[taken + 1])
<1>1. Count(m_axis.tvalid) = 1 /\ Count(valid_o) \in 0 .. 1 /\ Count(Open) \in 0 .. 1
  BY DEF Count
<1>2. /\ Len(Orders) = taken + Count(m_axis.tvalid) + Count(valid_o) + Count(Open)
      /\ taken \in Nat /\ m_axis.tdata = Meaning(Orders[taken + 1])
  BY DEF LinkInv, Words
<1>3. PICK v \in 0 .. 1 : v = Count(valid_o)
  BY <1>1
<1>4. PICK w \in 0 .. 1 : w = Count(Open)
  BY <1>1
<1>5. Len(Orders) = taken + 1 + v + w
  BY <1>1, <1>2, <1>3, <1>4
<1>6. \A t \in Nat : t < t + 1 + v + w
  OBVIOUS
<1>7. taken < Len(Orders)
  BY <1>2, <1>5, <1>6, Zenon
<1> QED  BY <1>2, <1>7, Zenon

\* The words that the parser offers are the order messages of the feed, each once,
\* in their order, with every field that its type has: for feeds of any length, of
\* any framed messages, and any stalls of the sink up to the limit.
THEOREM WordsMatchFeed ==
  ASSUME Prompt
  PROVE  LinkSpec => []WordsAreTheFeed
<1>1. LinkInv => WordsAreTheFeed
  BY OfferedMeaning DEF WordsAreTheFeed
<1> QED  BY <1>1, LinkInvariant, PTL

\* Between messages every order message of the feed is in the parser, at its output,
\* in the wrapper or taken.
THEOREM AllOrdersAccounted ==
  ASSUME Prompt
  PROVE  LinkSpec => []NoOrderLost
<1>1. LinkInv => NoOrderLost
  <2> SUFFICES ASSUME LinkInv, AllPut, ~ bus.valid
               PROVE  taken + Count(m_axis.tvalid) + Count(valid_o) + Count(Complete)
                        = Len(Orders)
    BY DEF NoOrderLost, Complete
  <2>1. Open <=> Complete
    BY LinkFacts, NeverHeldOff
  <2>2. Count(Open) = Count(Complete)
    BY <2>1 DEF Count
  <2> QED  BY <2>2 DEF LinkInv, Words
<1> QED  BY <1>1, LinkInvariant, PTL

-----------------------------------------------------------------------------
(* What itch_encoder.py writes.                                            *)

\* Messages are the encoded events of a feed; StallLimit is below the 73 clocks that
\* the 38 bytes of a message leave.
EncodedFeed ==
  /\ Paced
  /\ 78 \notin IdleBytes
  /\ StallLimit \in 1 .. 73
  /\ DOMAIN Messages = DOMAIN Events
  /\ \A n \in DOMAIN Events :
       /\ Messages[n] = {encode(e) : e \in Events[n]}
       /\ \A e \in Events[n] : e.buy_sell \in {0, 1}

LEMMA Concatenated ==
  ASSUME NEW S, NEW s \in Seq(S), NEW t \in Seq(S)
  PROVE  /\ s \o t \in Seq(S) /\ Len(s \o t) = Len(s) + Len(t)
         /\ \A i \in 1 .. Len(s) : (s \o t)[i] = s[i]
         /\ \A i \in 1 .. Len(t) : (s \o t)[Len(s) + i] = t[i]
OBVIOUS

LEMMA FourBytes ==
  ASSUME NEW n
  PROVE  BigEndian(n) \in Seq({BigEndian(n)[i] : i \in 1 .. 4}) /\ Len(BigEndian(n)) = 4
<1> DEFINE a == n \div 2^24
           b == (n \div 2^16) % 256
           c == (n \div 256) % 256
           d == n % 256
<1>1. BigEndian(n) = <<a, b, c, d>>
  BY DEF BigEndian
<1> HIDE DEF a, b, c, d
<1>2. PICK s : s = <<a, b, c, d>>  OBVIOUS
<1>3. s[1] = a /\ s[2] = b /\ s[3] = c /\ s[4] = d
  BY <1>2
<1>4. {a, b, c, d} \subseteq {s[i] : i \in 1 .. 4}
  BY <1>3
<1>5. s \in Seq({a, b, c, d}) /\ Len(s) = 4
  BY <1>2
<1>6. s \in Seq({s[i] : i \in 1 .. 4})
  BY <1>4, <1>5
<1> QED  BY <1>1, <1>2, <1>5, <1>6

LEMMA Repeated ==
  ASSUME NEW S, NEW x \in S, NEW n \in Nat
  PROVE  [i \in 1 .. n |-> x] \in Seq(S) /\ Len([i \in 1 .. n |-> x]) = n
OBVIOUS

\* Where the encoder puts what.
LEMMA EncodeLayout ==
  ASSUME NEW e
  PROVE  LET m == encode(e)
         IN  /\ Len(m) = 38 /\ m[1] = 0 /\ m[2] = 36 /\ m[3] = e.header /\ m[22] = e.buy_sell
             /\ \A i \in 1 .. 4 : /\ m[i + 17] = BigEndian(e.order_ref_num)[i]
                                  /\ m[i + 22] = BigEndian(e.num_shares)[i]
                                  /\ m[i + 26] = BigEndian(e.stock_id)[i]
                                  /\ m[i + 34] = BigEndian(e.price)[i]
<1> DEFINE r == BigEndian(e.order_ref_num)
           n == BigEndian(e.num_shares)
           c == BigEndian(e.stock_id)
           p == BigEndian(e.price)
           Four(q) == {q[i] : i \in 1 .. 4}
           S == Four(r) \cup Four(n) \cup Four(c) \cup Four(p)
                  \cup {0, 36, 170, 187, e.header, e.buy_sell}
           h == <<0, 36, e.header>>
           x == [i \in 1 .. 14 |-> 170]
           b == <<e.buy_sell>>
           y == [i \in 1 .. 4 |-> 187]
           s1 == h \o x
           s2 == s1 \o r
           s3 == s2 \o b
           s4 == s3 \o n
           s5 == s4 \o c
           s6 == s5 \o y
           s7 == s6 \o p
<1>1. encode(e) = s7
  BY DEF encode
<1>2. /\ r \in Seq(S) /\ n \in Seq(S) /\ c \in Seq(S) /\ p \in Seq(S)
      /\ h \in Seq(S) /\ x \in Seq(S) /\ b \in Seq(S) /\ y \in Seq(S)
  <2>1. \A q, T : q \in Seq(Four(q)) /\ Four(q) \subseteq T => q \in Seq(T)
    OBVIOUS
  <2>2. r \in Seq(Four(r)) /\ n \in Seq(Four(n)) /\ c \in Seq(Four(c)) /\ p \in Seq(Four(p))
    BY FourBytes
  <2>3. Four(r) \subseteq S /\ Four(n) \subseteq S /\ Four(c) \subseteq S /\ Four(p) \subseteq S
    OBVIOUS
  <2>4. {0, 36, 170, 187, e.header, e.buy_sell} \subseteq S /\ 14 \in Nat /\ 4 \in Nat
    OBVIOUS
  <2>5. x \in Seq(S) /\ y \in Seq(S)
    <3> HIDE DEF S
    <3> QED  BY <2>4, Repeated
  <2>6. h \in Seq(S) /\ b \in Seq(S)
    <3> HIDE DEF S
    <3> QED  BY <2>4
  <2> HIDE DEF r, n, c, p, Four, S, x, y, h, b
  <2> QED  BY <2>1, <2>2, <2>3, <2>5, <2>6
<1>3. /\ Len(r) = 4 /\ Len(n) = 4 /\ Len(c) = 4 /\ Len(p) = 4
      /\ Len(h) = 3 /\ Len(b) = 1 /\ Len(x) = 14 /\ Len(y) = 4
  <2>1. Len(r) = 4 /\ Len(n) = 4 /\ Len(c) = 4 /\ Len(p) = 4
    BY FourBytes
  <2>2. Len(x) = 14 /\ Len(y) = 4
    <3>1. 170 \in S /\ 187 \in S /\ 14 \in Nat /\ 4 \in Nat  OBVIOUS
    <3> HIDE DEF S
    <3> QED  BY <3>1, Repeated
  <2>3. Len(h) = 3 /\ Len(b) = 1
    OBVIOUS
  <2> QED  BY <2>1, <2>2, <2>3
<1>4. h[1] = 0 /\ h[2] = 36 /\ h[3] = e.header /\ b[1] = e.buy_sell
  OBVIOUS
<1> HIDE DEF r, n, c, p, Four, S, h, x, b, y
<1>5. /\ s1 \in Seq(S)
      /\ s2 \in Seq(S)
      /\ s3 \in Seq(S)
      /\ s4 \in Seq(S)
      /\ s5 \in Seq(S)
      /\ s6 \in Seq(S)
      /\ s7 \in Seq(S)
  <2>1. s1 \in Seq(S)
    BY <1>2, Concatenated
  <2> HIDE DEF s1
  <2>2. s2 \in Seq(S)
    BY <1>2, <2>1, Concatenated
  <2> HIDE DEF s2
  <2>3. s3 \in Seq(S)
    BY <1>2, <2>2, Concatenated
  <2> HIDE DEF s3
  <2>4. s4 \in Seq(S)
    BY <1>2, <2>3, Concatenated
  <2> HIDE DEF s4
  <2>5. s5 \in Seq(S)
    BY <1>2, <2>4, Concatenated
  <2> HIDE DEF s5
  <2>6. s6 \in Seq(S)
    BY <1>2, <2>5, Concatenated
  <2> HIDE DEF s6
  <2>7. s7 \in Seq(S)
    BY <1>2, <2>6, Concatenated
  <2> HIDE DEF s7
  <2> QED  BY <2>1, <2>2, <2>3, <2>4, <2>5, <2>6, <2>7
<1>6. /\ Len(s1) = 17
      /\ \A i \in 1 .. 3 : s1[i] = h[i]
      /\ \A i \in 1 .. 14 : s1[3 + i] = x[i]
  <2>1. /\ Len(s1) = Len(h) + Len(x)
        /\ \A i \in 1 .. Len(h) : s1[i] = h[i]
        /\ \A i \in 1 .. Len(x) : s1[Len(h) + i] = x[i]
    <3>1. h \in Seq(S) /\ x \in Seq(S)  BY <1>2, <1>5
    <3> QED  BY <3>1, Concatenated
  <2>2. Len(h) = 3 /\ Len(x) = 14 /\ 3 + 14 = 17
    BY <1>3
  <2> HIDE DEF s1
  <2> QED  BY <2>1, <2>2, Zenon
<1> HIDE DEF s1
<1>7. /\ Len(s2) = 21
      /\ \A i \in 1 .. 17 : s2[i] = s1[i]
      /\ \A i \in 1 .. 4 : s2[17 + i] = r[i]
  <2>1. /\ Len(s2) = Len(s1) + Len(r)
        /\ \A i \in 1 .. Len(s1) : s2[i] = s1[i]
        /\ \A i \in 1 .. Len(r) : s2[Len(s1) + i] = r[i]
    <3>1. s1 \in Seq(S) /\ r \in Seq(S)  BY <1>2, <1>5
    <3> QED  BY <3>1, Concatenated
  <2>2. Len(s1) = 17 /\ Len(r) = 4 /\ 17 + 4 = 21
    BY <1>3, <1>6
  <2> HIDE DEF s2
  <2> QED  BY <2>1, <2>2, Zenon
<1> HIDE DEF s2
<1>8. /\ Len(s3) = 22
      /\ \A i \in 1 .. 21 : s3[i] = s2[i]
      /\ \A i \in 1 .. 1 : s3[21 + i] = b[i]
  <2>1. /\ Len(s3) = Len(s2) + Len(b)
        /\ \A i \in 1 .. Len(s2) : s3[i] = s2[i]
        /\ \A i \in 1 .. Len(b) : s3[Len(s2) + i] = b[i]
    <3>1. s2 \in Seq(S) /\ b \in Seq(S)  BY <1>2, <1>5
    <3> QED  BY <3>1, Concatenated
  <2>2. Len(s2) = 21 /\ Len(b) = 1 /\ 21 + 1 = 22
    BY <1>3, <1>7
  <2> HIDE DEF s3
  <2> QED  BY <2>1, <2>2, Zenon
<1> HIDE DEF s3
<1>9. /\ Len(s4) = 26
      /\ \A i \in 1 .. 22 : s4[i] = s3[i]
      /\ \A i \in 1 .. 4 : s4[22 + i] = n[i]
  <2>1. /\ Len(s4) = Len(s3) + Len(n)
        /\ \A i \in 1 .. Len(s3) : s4[i] = s3[i]
        /\ \A i \in 1 .. Len(n) : s4[Len(s3) + i] = n[i]
    <3>1. s3 \in Seq(S) /\ n \in Seq(S)  BY <1>2, <1>5
    <3> QED  BY <3>1, Concatenated
  <2>2. Len(s3) = 22 /\ Len(n) = 4 /\ 22 + 4 = 26
    BY <1>3, <1>8
  <2> HIDE DEF s4
  <2> QED  BY <2>1, <2>2, Zenon
<1> HIDE DEF s4
<1>10. /\ Len(s5) = 30
       /\ \A i \in 1 .. 26 : s5[i] = s4[i]
       /\ \A i \in 1 .. 4 : s5[26 + i] = c[i]
  <2>1. /\ Len(s5) = Len(s4) + Len(c)
        /\ \A i \in 1 .. Len(s4) : s5[i] = s4[i]
        /\ \A i \in 1 .. Len(c) : s5[Len(s4) + i] = c[i]
    <3>1. s4 \in Seq(S) /\ c \in Seq(S)  BY <1>2, <1>5
    <3> QED  BY <3>1, Concatenated
  <2>2. Len(s4) = 26 /\ Len(c) = 4 /\ 26 + 4 = 30
    BY <1>3, <1>9
  <2> HIDE DEF s5
  <2> QED  BY <2>1, <2>2, Zenon
<1> HIDE DEF s5
<1>11. /\ Len(s6) = 34
       /\ \A i \in 1 .. 30 : s6[i] = s5[i]
       /\ \A i \in 1 .. 4 : s6[30 + i] = y[i]
  <2>1. /\ Len(s6) = Len(s5) + Len(y)
        /\ \A i \in 1 .. Len(s5) : s6[i] = s5[i]
        /\ \A i \in 1 .. Len(y) : s6[Len(s5) + i] = y[i]
    <3>1. s5 \in Seq(S) /\ y \in Seq(S)  BY <1>2, <1>5
    <3> QED  BY <3>1, Concatenated
  <2>2. Len(s5) = 30 /\ Len(y) = 4 /\ 30 + 4 = 34
    BY <1>3, <1>10
  <2> HIDE DEF s6
  <2> QED  BY <2>1, <2>2, Zenon
<1> HIDE DEF s6
<1>12. /\ Len(s7) = 38
       /\ \A i \in 1 .. 34 : s7[i] = s6[i]
       /\ \A i \in 1 .. 4 : s7[34 + i] = p[i]
  <2>1. /\ Len(s7) = Len(s6) + Len(p)
        /\ \A i \in 1 .. Len(s6) : s7[i] = s6[i]
        /\ \A i \in 1 .. Len(p) : s7[Len(s6) + i] = p[i]
    <3>1. s6 \in Seq(S) /\ p \in Seq(S)  BY <1>2, <1>5
    <3> QED  BY <3>1, Concatenated
  <2>2. Len(s6) = 34 /\ Len(p) = 4 /\ 34 + 4 = 38
    BY <1>3, <1>11
  <2> HIDE DEF s7
  <2> QED  BY <2>1, <2>2, Zenon
<1> HIDE DEF s7
<1>13. /\ \A i \in 1 .. 30 : s7[i] = s5[i]
       /\ \A i \in 1 .. 26 : s7[i] = s4[i]
       /\ \A i \in 1 .. 22 : s7[i] = s3[i]
       /\ \A i \in 1 .. 21 : s7[i] = s2[i]
       /\ \A i \in 1 .. 3 : s7[i] = h[i]
  <2>1. ASSUME NEW i \in 1 .. 30 PROVE s7[i] = s5[i]
    <3>1. i \in 1 .. 34  OBVIOUS
    <3>2. s7[i] = s6[i]  BY <3>1, <1>12
    <3>3. s6[i] = s5[i]  BY <1>11
    <3> QED  BY <3>2, <3>3
  <2>2. ASSUME NEW i \in 1 .. 26 PROVE s7[i] = s4[i]
    <3>1. i \in 1 .. 30  OBVIOUS
    <3>2. s7[i] = s5[i]  BY <3>1, <2>1
    <3>3. s5[i] = s4[i]  BY <1>10
    <3> QED  BY <3>2, <3>3
  <2>3. ASSUME NEW i \in 1 .. 22 PROVE s7[i] = s3[i]
    <3>1. i \in 1 .. 26  OBVIOUS
    <3>2. s7[i] = s4[i]  BY <3>1, <2>2
    <3>3. s4[i] = s3[i]  BY <1>9
    <3> QED  BY <3>2, <3>3
  <2>4. ASSUME NEW i \in 1 .. 21 PROVE s7[i] = s2[i]
    <3>1. i \in 1 .. 22  OBVIOUS
    <3>2. s7[i] = s3[i]  BY <3>1, <2>3
    <3>3. s3[i] = s2[i]  BY <1>8
    <3> QED  BY <3>2, <3>3
  <2>5. \A i \in 1 .. 3 : s7[i] = h[i]
    BY <1>6, <1>7, <2>4
  <2> QED  BY <2>1, <2>2, <2>3, <2>4, <2>5
<1>14. s7[1] = 0 /\ s7[2] = 36 /\ s7[3] = e.header /\ s7[22] = e.buy_sell
  <2>1. 1 \in 1 .. 3 /\ 2 \in 1 .. 3 /\ 3 \in 1 .. 3 /\ 22 \in 1 .. 22 /\ 1 \in 1 .. 1 /\ 22 = 21 + 1
    OBVIOUS
  <2>2. s7[1] = h[1] /\ s7[2] = h[2] /\ s7[3] = h[3] /\ s7[22] = s3[22]
    BY <1>13, <2>1
  <2>3. s3[22] = b[1]
    BY <1>8, <2>1
  <2> QED  BY <1>4, <2>2, <2>3
<1>15. ASSUME NEW i \in 1 .. 4
       PROVE  /\ s7[i + 17] = r[i] /\ s7[i + 22] = n[i]
              /\ s7[i + 26] = c[i] /\ s7[i + 34] = p[i]
  <2>1. /\ i + 17 = 17 + i /\ i + 22 = 22 + i /\ i + 26 = 26 + i /\ i + 34 = 34 + i
        /\ i + 17 \in 1 .. 21 /\ i + 22 \in 1 .. 26 /\ i + 26 \in 1 .. 30
    OBVIOUS
  <2>2. s7[i + 17] = s2[17 + i] /\ s7[i + 22] = s4[22 + i] /\ s7[i + 26] = s5[26 + i]
    BY <1>13, <2>1
  <2>3. s2[17 + i] = r[i] /\ s4[22 + i] = n[i] /\ s5[26 + i] = c[i] /\ s7[34 + i] = p[i]
    BY <1>7, <1>9, <1>10, <1>12
  <2> QED  BY <2>1, <2>2, <2>3
<1> QED  BY <1>1, <1>12, <1>14, <1>15 DEF r, n, c, p

LEMMA EncodedPrompt ==
  ASSUME EncodedFeed
  PROVE  Prompt
<1>1. Paced /\ 78 \notin IdleBytes /\ StallLimit \in Nat /\ StallLimit > 0 /\ StallLimit <= 73
  BY DEF EncodedFeed
<1>2. ASSUME NEW j \in DOMAIN Messages, NEW m \in Messages[j]
      PROVE  Framed(m) /\ StallLimit + 3 <= 2 * Len(m)
  <2>1. PICK e \in Events[j] : m = encode(e)
    BY <1>2 DEF EncodedFeed
  <2>2. Len(m) = 38 /\ m[1] = 0 /\ m[2] = 36
    BY <2>1, EncodeLayout
  <2>3. Needed(m[3]) <= 36
    BY DEF Needed
  <2> QED  BY <1>1, <2>2, <2>3 DEF Framed
<1> QED  BY <1>1, <1>2, Zenon DEF Prompt

\* What the parser makes of an encoded event that is in the book's interest.
LEMMA EncodedMeaning ==
  ASSUME NEW e, e.buy_sell \in {0, 1}, encode(e) \in Seq(Byte)
  PROVE  /\ Meaning(encode(e)).order_type = OrderType(e.header)
         /\ Meaning(encode(e)).field \in [Field -> {Meaning(encode(e)).field[f] : f \in Field}]
         /\ Meaning(encode(e)).field["order_ref_num"] = BigEndian(e.order_ref_num)
         /\ e.header = MESSAGE_TYPE_A =>
              /\ Meaning(encode(e)).buy_sell = e.buy_sell
              /\ Meaning(encode(e)).field["num_shares"] = BigEndian(e.num_shares)
              /\ Meaning(encode(e)).field["stock_id"] = BigEndian(e.stock_id)
              /\ Meaning(encode(e)).field["price"] = BigEndian(e.price)
<1>1. PICK m \in Seq(Byte) : m = encode(e)
  OBVIOUS
<1>2. /\ Len(m) = 38 /\ m[3] = e.header /\ m[22] = e.buy_sell
      /\ \A i \in 1 .. 4 : /\ m[i + 17] = BigEndian(e.order_ref_num)[i]
                           /\ m[i + 22] = BigEndian(e.num_shares)[i]
                           /\ m[i + 26] = BigEndian(e.stock_id)[i]
                           /\ m[i + 34] = BigEndian(e.price)[i]
  BY <1>1, EncodeLayout
<1>3. ASSUME NEW n, NEW lo \in {15, 20, 24, 32},
             \A i \in 1 .. 4 : m[i + lo + 2] = BigEndian(n)[i]
      PROVE  FieldOf(m, lo) = BigEndian(n)
  <2> DEFINE q == BigEndian(n)
  <2>1. q \in Seq({q[i] : i \in 1 .. 4}) /\ Len(q) = 4
    BY FourBytes
  <2>2. \A i \in 1 .. 4 : q[i] \in Byte /\ q[i] = m[lo + i + 2]
    <3>1. \A i \in 1 .. 4 : i + lo + 2 = lo + i + 2 /\ lo + i + 2 \in 1 .. 38
      OBVIOUS
    <3>2. \A j \in 1 .. 38 : m[j] \in Byte
      <4>1. \A j \in 1 .. Len(m) : m[j] \in Byte  OBVIOUS
      <4> QED  BY <1>2, <4>1, Zenon
    <3>3. \A i \in 1 .. 4 : q[i] = m[lo + i + 2]
      BY <1>3, <3>1, Zenon
    <3> HIDE DEF q
    <3> QED  BY <3>1, <3>2, <3>3, Zenon
  <2> HIDE DEF q
  <2>3. q \in Register
    BY <2>1, <2>2 DEF Register
  <2>4. lo \in Nat /\ lo + 6 <= Len(m)
    <3>1. lo \in Nat /\ lo + 6 <= 38  OBVIOUS
    <3>2. Len(m) = 38  BY <1>2
    <3> QED  BY <3>1, <3>2, Zenon
  <2>5. FieldOf(m, lo) = q
    BY <2>2, <2>3, <2>4, FieldBytes
  <2> QED  BY <2>5 DEF q
<1>4. FieldOf(m, 15) = BigEndian(e.order_ref_num)
  <2>1. \A i \in 1 .. 4 : i + 15 + 2 = i + 17  OBVIOUS
  <2>2. \A i \in 1 .. 4 : m[i + 15 + 2] = BigEndian(e.order_ref_num)[i]
    BY <1>2, <2>1, Zenon
  <2> QED  BY <1>3, <2>2
<1>5. FieldOf(m, 20) = BigEndian(e.num_shares)
  <2>1. \A i \in 1 .. 4 : i + 20 + 2 = i + 22  OBVIOUS
  <2>2. \A i \in 1 .. 4 : m[i + 20 + 2] = BigEndian(e.num_shares)[i]
    BY <1>2, <2>1, Zenon
  <2> QED  BY <1>3, <2>2
<1>6. FieldOf(m, 24) = BigEndian(e.stock_id)
  <2>1. \A i \in 1 .. 4 : i + 24 + 2 = i + 26  OBVIOUS
  <2>2. \A i \in 1 .. 4 : m[i + 24 + 2] = BigEndian(e.stock_id)[i]
    BY <1>2, <2>1, Zenon
  <2> QED  BY <1>3, <2>2
<1>7. FieldOf(m, 32) = BigEndian(e.price)
  <2>1. \A i \in 1 .. 4 : i + 32 + 2 = i + 34  OBVIOUS
  <2>2. \A i \in 1 .. 4 : m[i + 32 + 2] = BigEndian(e.price)[i]
    BY <1>2, <2>1, Zenon
  <2> QED  BY <1>3, <2>2
<1>8. /\ Meaning(m).order_type = OrderType(e.header)
      /\ Meaning(m).field["order_ref_num"] = FieldOf(m, 15)
      /\ Meaning(m).field \in [Field -> {Meaning(m).field[f] : f \in Field}]
  BY <1>2 DEF Meaning, TypeOf, Field
<1>9. ASSUME e.header = MESSAGE_TYPE_A
      PROVE  /\ Meaning(m).buy_sell = e.buy_sell
             /\ Meaning(m).field["num_shares"] = FieldOf(m, 20)
             /\ Meaning(m).field["stock_id"] = FieldOf(m, 24)
             /\ Meaning(m).field["price"] = FieldOf(m, 32)
  <2>1. m[22] % 2 = e.buy_sell
    <3>1. \A side \in {0, 1} : side % 2 = side  OBVIOUS
    <3>2. m[22] = e.buy_sell  BY <1>2
    <3> QED  BY <3>1, <3>2, Zenon
  <2> QED  BY <1>2, <1>9, <2>1 DEF Meaning, TypeOf, Field
<1> QED  BY <1>1, <1>4, <1>5, <1>6, <1>7, <1>8, <1>9

\* Of what the encoder writes, an add reaches the book whole, and every other event
\* with its type and its order reference: for events of any fields, in a feed of any
\* other messages, as long as the source is prompt enough for each.
THEOREM EncodedArrives ==
  ASSUME Prompt, \A e \in UNION Range(Events) : e.buy_sell \in {0, 1}
  PROVE  LinkSpec => []AddsAndReferencesArrive
<1>1. LinkInv => AddsAndReferencesArrive
  <2> SUFFICES ASSUME LinkInv, m_axis.tvalid
               PROVE  AddsAndReferencesArrive
    BY DEF AddsAndReferencesArrive
  <2>1. taken < Len(Orders) /\ m_axis.tdata = Meaning(Orders[taken + 1])
    BY OfferedMeaning
  <2>2. /\ feed \in Seq(Seq(Byte)) /\ taken \in Nat
        /\ Len(feed) <= Len(Messages)
        /\ \A n \in 1 .. Len(feed) : feed[n] \in Messages[n]
    BY DEF LinkInv, Sourced
  <2>3. Orders \in Seq(Seq(Byte))
    BY <2>2, OrdersFromFeed DEF Orders
  <2>4. taken + 1 \in 1 .. Len(Orders) /\ Orders[taken + 1] \in Seq(Byte)
    BY <2>1, <2>2, <2>3
  <2>5. PICK w : w = m_axis.tdata
    OBVIOUS
  <2>6. ASSUME NEW e \in UNION Range(Events), encode(e) = Orders[taken + 1]
        PROVE  /\ w.order_type = OrderType(e.header)
               /\ w.field["order_ref_num"] = BigEndian(e.order_ref_num)
               /\ e.header = MESSAGE_TYPE_A =>
                    /\ w.buy_sell = e.buy_sell
                    /\ w.field["num_shares"] = BigEndian(e.num_shares)
                    /\ w.field["stock_id"] = BigEndian(e.stock_id)
                    /\ w.field["price"] = BigEndian(e.price)
    <3>1. encode(e) \in Seq(Byte) /\ w = Meaning(encode(e))
      BY <2>1, <2>4, <2>5, <2>6
    <3> QED  BY <2>6, <3>1, EncodedMeaning
  <2> QED  BY <2>1, <2>5, <2>6 DEF AddsAndReferencesArrive, Arrived
<1> QED  BY <1>1, LinkInvariant, PTL

\* In particular for a feed of the encoder's events alone, at up to 73 stalled clocks.
COROLLARY EncodedFeedArrives ==
  ASSUME EncodedFeed
  PROVE  LinkSpec => []AddsAndReferencesArrive
<1>1. \A e \in UNION Range(Events) : e.buy_sell \in {0, 1}
  <2>1. ASSUME NEW e \in UNION Range(Events)
        PROVE  \E n \in DOMAIN Events : e \in Events[n]
    BY <2>1 DEF Range
  <2> QED  BY <2>1 DEF EncodedFeed
<1> QED  BY <1>1, EncodedPrompt, EncodedArrives
=============================================================================
