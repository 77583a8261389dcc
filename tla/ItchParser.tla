----------------------------- MODULE ItchParser -----------------------------
(***************************************************************************)
(* The ITCH 5.0 parser of HW/ip_repo/itch_parser_slow/parser.sv inside its *)
(* AXI-Stream wrapper itch50_parser_v1_0.v, one step per clock edge.       *)
(*                                                                         *)
(* A message is a two-byte length, of which the parser keeps one byte, a   *)
(* type byte and a body.  Fields are captured at fixed offsets; 32-bit     *)
(* registers are kept as their four bytes, high byte first.  Both data_i   *)
(* and ready_o are registered: the byte the parser consumes was on the bus *)
(* one clock earlier, under the ready of that clock.                       *)
(*                                                                         *)
(* The six states PARSE_MSG_A .. PARSE_MSG_D are one state here: they      *)
(* differ in what message_type tells.                                      *)
(***************************************************************************)
EXTENDS Integers, Sequences

Byte == 0 .. 255
CounterSize == 65536    \* byte_counter_reg is 16 bits wide
Counter == 0 .. CounterSize - 1

MESSAGE_TYPE_A == 65
MESSAGE_TYPE_F == 70
MESSAGE_TYPE_E == 69
MESSAGE_TYPE_C == 67
MESSAGE_TYPE_X == 88
MESSAGE_TYPE_D == 68
MessageTypes == {MESSAGE_TYPE_A, MESSAGE_TYPE_F, MESSAGE_TYPE_E,
                 MESSAGE_TYPE_C, MESSAGE_TYPE_X, MESSAGE_TYPE_D}

\* The codes of order_type_o.
ERROR == 0
ADD_ORDER == 1
CANCEL_ORDER == 2
EXECUTE_ORDER == 4
DELETE_ORDER == 8

VARIABLES
  bus,             \* data_i_reg and valid_i_reg
  current_state,
  message_length,
  message_type,
  byte_counter,
  out,             \* the output registers: one record, the order word
  valid_o,
  ready_o,
  ready_i,         \* the wrapper's ready_i_parser_reg
  m_axis           \* the wrapper's m00_axis_tvalid_s and m00_axis_tdata_s

parserVars == <<bus, current_state, message_length, message_type, byte_counter,
                out, valid_o, ready_o, ready_i, m_axis>>

Field == {"stock_id", "order_ref_num", "num_shares", "price"}
Register == [1 .. 4 -> Byte]
OrderWord == [field : [Field -> Register], order_type : 0 .. 15, buy_sell : 0 .. 1]
Cleared == [field |-> [f \in Field |-> [i \in 1 .. 4 |-> 0]],
            order_type |-> ERROR, buy_sell |-> 0]

TypeOK ==
  /\ bus \in [data : Byte, valid : BOOLEAN]
  /\ current_state \in {"GET_LENGTH", "GET_MSG_TYPE", "PARSE_MSG", "PARSE_MSG_IRRELEVANT"}
  /\ message_length \in Byte
  /\ message_type \in Byte
  /\ byte_counter \in Counter
  /\ out \in OrderWord
  /\ valid_o \in BOOLEAN /\ ready_o \in BOOLEAN /\ ready_i \in BOOLEAN
  /\ m_axis \in [tvalid : BOOLEAN, tdata : OrderWord]

-----------------------------------------------------------------------------
(* The parser's state machine.                                             *)

\* "Consume data only if valid and parser is ready"
Consume == bus.valid /\ ready_o

\* Mutant: a length of zero starts a message too.
GetLength_zero ==
  /\ current_state = "GET_LENGTH"
  /\ out' = Cleared
  /\ message_type' = 0
  /\ valid_o' = FALSE
  /\ ready_o' = TRUE
  /\ message_length' = IF Consume THEN bus.data ELSE message_length
  /\ IF Consume
     THEN current_state' = "GET_MSG_TYPE" /\ byte_counter' = 0
     ELSE UNCHANGED <<current_state, byte_counter>>

GetLength ==
  /\ current_state = "GET_LENGTH"
  /\ out' = Cleared
  /\ message_type' = 0
  /\ valid_o' = FALSE
  /\ ready_o' = TRUE
  /\ message_length' = IF Consume THEN bus.data ELSE message_length
  /\ IF Consume /\ bus.data # 0
     THEN current_state' = "GET_MSG_TYPE" /\ byte_counter' = 0
     ELSE UNCHANGED <<current_state, byte_counter>>

GetMsgType ==
  /\ current_state = "GET_MSG_TYPE"
  /\ valid_o' = FALSE
  /\ ready_o' = TRUE
  /\ IF Consume
     THEN /\ message_type' = bus.data
          /\ byte_counter' = 1
          /\ current_state' = IF bus.data \in MessageTypes THEN "PARSE_MSG"
                              ELSE "PARSE_MSG_IRRELEVANT"
     ELSE UNCHANGED <<message_type, byte_counter, current_state>>
  /\ UNCHANGED <<message_length, out>>

OrderType(type) ==
  CASE type \in {MESSAGE_TYPE_A, MESSAGE_TYPE_F} -> ADD_ORDER
    [] type \in {MESSAGE_TYPE_E, MESSAGE_TYPE_C} -> EXECUTE_ORDER
    [] type = MESSAGE_TYPE_X -> CANCEL_ORDER
    [] OTHER -> DELETE_ORDER

\* Mutant: executions and cancels have the quantity where adds have it.
Layout_as_add(type) ==
  {<<"order_ref_num", 15>>}
    \cup (IF type \in {MESSAGE_TYPE_A, MESSAGE_TYPE_F} THEN {<<"stock_id", 24>>} ELSE {})
    \cup (IF type # MESSAGE_TYPE_D THEN {<<"num_shares", 20>>} ELSE {})
    \cup (IF type \in {MESSAGE_TYPE_A, MESSAGE_TYPE_F, MESSAGE_TYPE_C}
          THEN {<<"price", 32>>} ELSE {})

\* The fields a type carries, each with the offset of its high byte.
Layout(type) ==
  {<<"order_ref_num", 15>>}
    \cup (IF type \in {MESSAGE_TYPE_A, MESSAGE_TYPE_F}
          THEN {<<"num_shares", 20>>, <<"stock_id", 24>>} ELSE {})
    \cup (IF type \in {MESSAGE_TYPE_E, MESSAGE_TYPE_C, MESSAGE_TYPE_X}
          THEN {<<"num_shares", 19>>} ELSE {})
    \cup (IF type \in {MESSAGE_TYPE_A, MESSAGE_TYPE_F, MESSAGE_TYPE_C}
          THEN {<<"price", 32>>} ELSE {})

\* Mutant: the side is the whole byte, not its lowest bit.
Capture_side_byte ==
  [out EXCEPT
     !.field = [f \in Field |-> [i \in 1 .. 4 |->
                  IF <<f, byte_counter - i + 1>> \in Layout(message_type)
                  THEN bus.data ELSE out.field[f][i]]],
     !.buy_sell = IF /\ message_type \in {MESSAGE_TYPE_A, MESSAGE_TYPE_F}
                     /\ byte_counter = 19
                  THEN bus.data ELSE @]

\* The output registers after the byte on the bus, at this offset, is consumed.
Capture ==
  [out EXCEPT
     !.field = [f \in Field |-> [i \in 1 .. 4 |->
                  IF <<f, byte_counter - i + 1>> \in Layout(message_type)
                  THEN bus.data ELSE out.field[f][i]]],
     !.buy_sell = IF /\ message_type \in {MESSAGE_TYPE_A, MESSAGE_TYPE_F}
                     /\ byte_counter = 19
                  THEN bus.data % 2 ELSE @]

\* The check for a non-printable execution looks at the bus without its valid.
NonPrintable ==
  message_type = MESSAGE_TYPE_C /\ byte_counter = 31 /\ bus.data = 78

\* At the end of the message the order word is offered when the consumer is
\* ready; otherwise the parser stays and takes ready_o away.  A byte consumed
\* in that clock is not counted.
ParseMsg ==
  LET complete == byte_counter = message_length
  IN  /\ current_state = "PARSE_MSG"
      /\ out' = [IF Consume THEN Capture ELSE out EXCEPT
                   !.order_type = OrderType(message_type)]
      /\ byte_counter' = IF Consume /\ byte_counter < message_length
                         THEN byte_counter + 1 ELSE byte_counter
      /\ valid_o' = (complete /\ ready_i)
      /\ ready_o' = (complete => ready_i)
      /\ current_state' = IF NonPrintable THEN "PARSE_MSG_IRRELEVANT"
                          ELSE IF complete /\ ready_i THEN "GET_LENGTH"
                          ELSE "PARSE_MSG"
      /\ UNCHANGED <<message_length, message_type>>

NextOffset == (byte_counter + 1) % CounterSize

\* Mutant: skips until the offset is past the length.
ParseIrrelevant_late ==
  /\ current_state = "PARSE_MSG_IRRELEVANT"
  /\ out' = Cleared
  /\ valid_o' = FALSE
  /\ ready_o' = TRUE
  /\ byte_counter' = IF Consume THEN NextOffset ELSE byte_counter
  /\ current_state' = IF Consume /\ byte_counter > message_length THEN "GET_LENGTH"
                      ELSE "PARSE_MSG_IRRELEVANT"
  /\ UNCHANGED <<message_length, message_type>>

\* Skips to the end of the message and one byte further.
ParseIrrelevant ==
  /\ current_state = "PARSE_MSG_IRRELEVANT"
  /\ out' = Cleared
  /\ valid_o' = FALSE
  /\ ready_o' = TRUE
  /\ byte_counter' = IF Consume THEN NextOffset ELSE byte_counter
  /\ current_state' = IF Consume /\ byte_counter = message_length THEN "GET_LENGTH"
                      ELSE "PARSE_MSG_IRRELEVANT"
  /\ UNCHANGED <<message_length, message_type>>

-----------------------------------------------------------------------------
(* The registers around it.                                                *)

SampleInput(valid, data) == bus' = [data |-> data, valid |-> valid]

\* Mutant: the parser is not held off while a word waits.
OutputStage_no_hold(tready) ==
  IF valid_o /\ ~m_axis.tvalid
  THEN m_axis' = [tvalid |-> TRUE, tdata |-> out] /\ UNCHANGED ready_i
  ELSE IF m_axis.tvalid /\ tready
       THEN m_axis' = [m_axis EXCEPT !.tvalid = FALSE] /\ UNCHANGED ready_i
       ELSE UNCHANGED <<m_axis, ready_i>>

\* Mutant: the hold is not lifted when the word is taken.
OutputStage_no_release(tready) ==
  IF valid_o /\ ~m_axis.tvalid
  THEN m_axis' = [tvalid |-> TRUE, tdata |-> out] /\ ready_i' = FALSE
  ELSE IF m_axis.tvalid /\ tready
       THEN m_axis' = [m_axis EXCEPT !.tvalid = FALSE] /\ UNCHANGED ready_i
       ELSE UNCHANGED <<m_axis, ready_i>>

\* The wrapper latches an order word and holds the parser off until it is taken.
OutputStage(tready) ==
  IF valid_o /\ ~m_axis.tvalid
  THEN m_axis' = [tvalid |-> TRUE, tdata |-> out] /\ ready_i' = FALSE
  ELSE IF m_axis.tvalid /\ tready
       THEN m_axis' = [m_axis EXCEPT !.tvalid = FALSE] /\ ready_i' = TRUE
       ELSE UNCHANGED <<m_axis, ready_i>>

\* One clock edge; valid and data are on the input bus, tready on the output.
Clock(valid, data, tready) ==
  /\ GetLength \/ GetMsgType \/ ParseMsg \/ ParseIrrelevant
  /\ SampleInput(valid, data)
  /\ OutputStage(tready)

Init ==
  /\ bus = [data |-> 0, valid |-> FALSE]
  /\ current_state = "GET_LENGTH"
  /\ message_length = 0
  /\ message_type = 0
  /\ byte_counter = 0
  /\ out = Cleared
  /\ valid_o = FALSE
  /\ ready_o = TRUE
  /\ ready_i = TRUE
  /\ m_axis = [tvalid |-> FALSE, tdata |-> Cleared]

Next == \E valid, tready \in BOOLEAN, data \in Byte : Clock(valid, data, tready)

Spec == Init /\ [][Next]_parserVars

-----------------------------------------------------------------------------
(* Properties, for any bytes at any pace and any consumer.                 *)

\* A word that the parser offers for its single clock always finds the wrapper's
\* register free: the wrapper never drops an order word.
NoWordOverrun == valid_o => ~m_axis.tvalid

\* The offset never passes the length of the message being skipped or parsed; were
\* it to, "==" would never end the message until the 16-bit counter came round.
OffsetInMessage ==
  current_state \in {"PARSE_MSG", "PARSE_MSG_IRRELEVANT"} => byte_counter <= message_length
=============================================================================
