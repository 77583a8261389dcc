---------------------------- MODULE OrderMonitor ----------------------------
(***************************************************************************)
(* Portfolio, the stream that carries its messages, and the two programs   *)
(* at the other end: the receive thread of SW/itch_server.py, which logs   *)
(* the orders in a CSV file, and SW/GUI.py, which shows the file.          *)
(*                                                                         *)
(* The network may join messages and cut them anywhere: a read returns any *)
(* number of words.  A word is known by its message and its place there;   *)
(* the first byte of an order is 'O', and no other word is taken to begin  *)
(* with one (a reference number may; the code cannot tell).                *)
(***************************************************************************)
EXTENDS Portfolio, SequencesExt

CONSTANTS
  OrderWords,   \* ORDER_MSG_WORDS
  MinNewRows    \* 4, the new rows that make GUI.py draw

ASSUME MonitorAssumption == {OrderWords, MinNewRows} \subseteq Nat \ {0}

VARIABLES
  sent,        \* the messages sent, with the holdings they lead to, and whether
               \* no weight was NaN before
  message,     \* the orders of the next one so far
  stream,      \* words sent and not yet read
  thread,      \* the receive thread
  chunks,      \* rows that it has still to make of its last read
  rows,        \* the CSV file
  last_count,  \* rows that the GUI has drawn
  reads,       \* reads so far
  whole        \* history: each of them was one message

serverVars == <<thread, chunks, rows, reads, whole>>
vars == <<portfolioVars, sent, message, stream, serverVars, last_count>>

MessageWords == 1 + NumStocks * OrderWords

Row == [stock : Stock, delta : Int, ref : Nat, portfolio : Int]
Garbled == -1     \* a portfolio number that is none
Unknown == [stock |-> 0, delta |-> 0, ref |-> 0, portfolio |-> 0]   \* of unknown type

MonitorTypeOK ==
  /\ TypeOK
  /\ \A i \in DOMAIN stream : stream[i] \in [msg : DOMAIN sent, part : 1 .. MessageWords]
  /\ thread \in {"reading", "stopped"}
  /\ \A i \in DOMAIN chunks : chunks[i] \in Row \/ chunks[i] = Unknown
  /\ \A i \in DOMAIN rows : rows[i] \in Row
  /\ last_count \in 0 .. Len(rows)
  /\ whole \in BOOLEAN

-----------------------------------------------------------------------------
(* The board.                                                              *)

OtherStep ==
  /\ ReadFrame \/ AddHolding \/ Update
  /\ UNCHANGED <<sent, message, stream, serverVars, last_count>>

\* The event loop gives a message to tcp_write when its last word is there.
OrderStep ==
  /\ \E w \in 0 .. left : \E target \in Targets(w) : \E delta \in Deltas(target) :
       /\ Allocate(w, target)
       /\ LET orders == Append(message, OrderFor(delta))
              n == Len(sent) + 1
          IN  IF stock < NumStocks
              THEN message' = orders /\ UNCHANGED <<sent, stream>>
              ELSE /\ message' = <<>>
                   /\ sent' = Append(sent, [portfolio |-> portfolio_value, orders |-> orders,
                                            held |-> new_holdings', clean |-> ~ spoilt])
                   /\ stream' = stream \o
                        [i \in 1 .. MessageWords |-> [msg |-> n, part |-> i]]
  /\ UNCHANGED <<serverVars, last_count>>

-----------------------------------------------------------------------------
(* The server's receive thread.                                            *)

\* portfolio_number: the first word of a read.
PortfolioNumber(words) ==
  IF words[1].part = 1 THEN sent[words[1].msg].portfolio ELSE Garbled

IsOrderStart(word) == word.part > 1 /\ (word.part - 2) % OrderWords = 0

\* What decode_message makes of the chunk that starts with word.
Decoded(word, portfolio) ==
  IF ~ IsOrderStart(word) THEN Unknown
  ELSE LET o == sent[word.msg].orders[(word.part - 2) \div OrderWords + 1]
       IN  [stock |-> o.stock, delta |-> o.delta, ref |-> o.ref, portfolio |-> portfolio]

\* Mutant: the portfolio number is not cut off before the orders.
handle_incoming_message_uncut(words) ==
  IF Len(words) # MessageWords THEN <<>>
  ELSE [c \in 1 .. NumStocks |->
          Decoded(words[1 + (c - 1) * OrderWords], PortfolioNumber(words))]

\* Anything but 196 bytes is dropped; the rest is cut into chunks of 48.
handle_incoming_message(words) ==
  IF Len(words) # MessageWords THEN <<>>
  ELSE [c \in 1 .. NumStocks |->
          Decoded(words[2 + (c - 1) * OrderWords], PortfolioNumber(words))]

Receive ==
  /\ thread = "reading" /\ chunks = <<>>
  /\ \E k \in 1 .. Len(stream) :
       LET words == SubSeq(stream, 1, k)
       IN  /\ chunks' = handle_incoming_message(words)
           /\ whole' = (whole /\ k = MessageWords /\ words[1].part = 1)
           /\ stream' = SubSeq(stream, k + 1, Len(stream))
  /\ reads' = reads + 1
  /\ UNCHANGED <<portfolioVars, sent, message, thread, rows, last_count>>

\* A chunk becomes a row; each row opens the file anew.
LogRow ==
  /\ chunks # <<>> /\ Head(chunks) # Unknown
  /\ rows' = Append(rows, Head(chunks))
  /\ chunks' = Tail(chunks)
  /\ UNCHANGED <<portfolioVars, sent, message, stream, thread, reads, whole, last_count>>

SkipChunk ==
  /\ chunks # <<>> /\ Head(chunks) = Unknown
  /\ chunks' = Tail(chunks)
  /\ UNCHANGED <<portfolioVars, sent, message, stream, thread, rows, reads, whole, last_count>>

\* An exception ends the thread: a read that ends within a word
\* (reverse_endian_bytes), or a type that is no ASCII character.
Fail ==
  /\ thread = "reading"
  /\ \/ chunks = <<>> /\ stream # <<>>
     \/ chunks # <<>> /\ Head(chunks) = Unknown
  /\ thread' = "stopped" /\ chunks' = <<>>
  /\ UNCHANGED <<portfolioVars, sent, message, stream, rows, reads, whole, last_count>>

\* The main thread has sent the file and closes the connection, which ends the
\* thread at its next select.
CloseConnection ==
  /\ thread = "reading" /\ chunks = <<>>
  /\ thread' = "stopped"
  /\ UNCHANGED <<portfolioVars, sent, message, stream, chunks, rows, reads, whole, last_count>>

-----------------------------------------------------------------------------
(* The GUI.                                                                *)

\* Mutant: new rows are drawn when there are exactly MinNewRows.
Draw_exactly ==
  /\ Len(rows) - last_count = MinNewRows
  /\ last_count' = Len(rows)
  /\ UNCHANGED <<portfolioVars, sent, message, stream, serverVars>>

Draw ==
  /\ Len(rows) - last_count >= MinNewRows
  /\ last_count' = Len(rows)
  /\ UNCHANGED <<portfolioVars, sent, message, stream, serverVars>>

MonitorInit ==
  /\ Init
  /\ sent = <<>> /\ message = <<>> /\ stream = <<>>
  /\ thread = "reading" /\ chunks = <<>> /\ rows = <<>>
  /\ last_count = 0 /\ reads = 0 /\ whole = TRUE

MonitorNext ==
  \/ OtherStep \/ OrderStep
  \/ Receive \/ LogRow \/ SkipChunk \/ Fail \/ CloseConnection
  \/ Draw

\* The GUI polls in an endless loop.
MonitorSpec == MonitorInit /\ [][MonitorNext]_vars /\ WF_vars(Draw)

-----------------------------------------------------------------------------
(* Properties.                                                             *)

Net(log, s) ==
  FoldFunction(+, 0, [i \in DOMAIN log |-> IF log[i].stock = s THEN log[i].delta ELSE 0])

\* As long as every read has returned one message and no weight was NaN, the net
\* shares that the GUI adds up from the file are the shares that the board held after
\* the last message read.
MonitorAgrees ==
  whole /\ chunks = <<>> /\ reads > 0 /\ thread = "reading" /\ sent[reads].clean =>
    \A s \in Stock : Net(rows, s) = sent[reads].held[s]

\* However messages are joined and cut, no order is logged that was not sent, and
\* none twice.
RowsGenuine ==
  /\ \A i \in 2 .. Len(rows) : rows[i - 1].ref < rows[i].ref
  /\ \A i \in DOMAIN rows : \E n \in DOMAIN sent : \E j \in Stock :
       LET o == sent[n].orders[j]
       IN  rows[i].ref = o.ref /\ rows[i].stock = o.stock /\ rows[i].delta = o.delta

\* The account balances, as long as no weight was NaN: cash and shares, at the prices
\* of the last call, are worth the portfolio value that the call has reported.
AccountBalances ==
  pc = "read" /\ ~ spoilt =>
    cash + FoldFunction(+, 0, [s \in Stock |-> holdings[s] * price_vals[s]]) = portfolio_value

\* The GUI never lags MinNewRows rows behind for ever; it may lag fewer.
GuiCatchesUp ==
  \A n \in 1 .. NumStocks * MaxFrames :
    (Len(rows) >= n) ~> (last_count > n - MinNewRows)
=============================================================================
