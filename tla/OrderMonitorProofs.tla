------------------------- MODULE OrderMonitorProofs -------------------------
(***************************************************************************)
(* Proofs about Portfolio, for any number of stocks, any prices and any    *)
(* weights that add up to at most 1, and about OrderMonitor, for messages  *)
(* joined and cut in any way.                                              *)
(***************************************************************************)
EXTENDS OrderMonitor, BasicLemmas

\* Within a call without NaN: the cost of the shares bought so far is at most the
\* part of the account that the weights used so far stand for.
Covered ==
  ~ spoilt =>
    /\ cash >= 0 /\ ~ nan /\ portfolio_value >= 0
    /\ pc = "value" => total_cost = 0 /\ left = WeightUnit
    /\ pc \in {"order", "update"} =>
         WeightUnit * total_cost <= (WeightUnit - left) * portfolio_value

IInv == TypeOK /\ Covered

-----------------------------------------------------------------------------
(* Arithmetic.                                                             *)

\* Cutting to a whole number leaves a number that is not larger.
LEMMA DivBelow ==
  ASSUME NEW a \in Nat, NEW b \in Nat \ {0}
  PROVE  a \div b \in Nat /\ b * (a \div b) <= a
<1>1. a \div b \in Int /\ a % b \in 0 .. b - 1
  OBVIOUS
<1>2. a = b * (a \div b) + (a % b)
  BY <1>1
<1> QED
  BY <1>1, <1>2

LEMMA ProductNat == ASSUME NEW a \in Nat, NEW b \in Nat PROVE a * b \in Nat
OBVIOUS

LEMMA Monotone ==
  ASSUME NEW a \in Nat, NEW b \in Int, NEW c \in Int, b <= c
  PROVE  a * b <= a * c
OBVIOUS

LEMMA Cancel ==
  ASSUME NEW a \in Nat \ {0}, NEW b \in Int, NEW c \in Int, a * b <= a * c
  PROVE  b <= c
OBVIOUS

\* The step of a loop stays within the stocks.
LEMMA StepType ==
  ASSUME stock \in Stock, NEW here, NEW there, Step(here, there)
  PROVE  stock' \in Stock /\ pc' \in {here, there}
BY AccountAssumption DEF Step, Stock

\* Prices are positive numbers.
LEMMA PriceType ==
  ASSUME price_vals \in [Stock -> Prices \cup {1}], stock \in Stock
  PROVE  price_vals[stock] \in Nat \ {0}
<1>1. price_vals[stock] \in Prices \cup {1}
  OBVIOUS
<1>2. Prices \subseteq Nat \ {0}
  BY AccountAssumption
<1>3. CASE price_vals[stock] = 1
  BY <1>3
<1>4. CASE price_vals[stock] \in Prices
  BY <1>2, <1>4
<1> QED
  BY <1>1, <1>3, <1>4

\* A float is a number, and exact as long as no weight was NaN.
LEMMA FloatFacts ==
  ASSUME spoilt \in BOOLEAN, NEW x \in Int
  PROVE  /\ Float(x) \subseteq Int
         /\ x \in Nat => Float(x) \subseteq Nat
         /\ ~ spoilt => Float(x) = {x}
<1>1. Exact \in Nat \ {0}
  BY AccountAssumption
<1> DEFINE m == Magnitude(x)
           error == IF spoilt THEN m \div Exact ELSE 0
<1>2. m \in Nat /\ (x \in Nat => m = x)
  BY DEF Magnitude
<1> HIDE DEF m
<1>3. m \div Exact \in Nat /\ m \div Exact <= m
  <2>1. m \div Exact \in Nat /\ Exact * (m \div Exact) <= m
    BY <1>1, <1>2, DivBelow
  <2>2. PICK q \in Nat : q = m \div Exact
    BY <2>1
  <2>3. q * 1 <= q * Exact
    BY <1>1, Monotone
  <2> QED  BY <1>1, <1>2, <2>1, <2>2, <2>3
<1>4. error \in Nat /\ error <= m /\ (~ spoilt => error = 0)
  BY <1>2, <1>3
<1>5. Float(x) = x - error .. x + error
  BY DEF Float, m
<1> HIDE DEF error
<1> QED  BY <1>2, <1>4, <1>5

LEMMA MultiplyAddFacts ==
  ASSUME spoilt \in BOOLEAN, NEW x \in Int, NEW a \in Nat, NEW b \in Nat
  PROVE  /\ MultiplyAdd(x, a, b) \subseteq Int
         /\ x \in Nat => MultiplyAdd(x, a, b) \subseteq Nat
         /\ ~ spoilt => MultiplyAdd(x, a, b) = {x + a * b}
<1>1. PICK q \in Nat : q = a * b
  BY ProductNat
<1>2. Float(q) \subseteq Nat /\ (~ spoilt => Float(q) = {q})
  BY FloatFacts
<1>3. MultiplyAdd(x, a, b) = UNION {Float(x + product) : product \in Float(q)}
  BY <1>1 DEF MultiplyAdd
<1>4. \A product \in Float(q) :
        /\ Float(x + product) \subseteq Int
        /\ x \in Nat => Float(x + product) \subseteq Nat
        /\ ~ spoilt => Float(x + product) = {x + product}
  <2>1. \A product \in Float(q) : x + product \in Int /\ (x \in Nat => x + product \in Nat)
    BY <1>2
  <2> QED  BY <2>1, FloatFacts
<1>5. ~ spoilt => MultiplyAdd(x, a, b) = {x + q}
  BY <1>2, <1>3, <1>4
<1> QED  BY <1>1, <1>3, <1>4, <1>5

\* The shares to hold are a number; without NaN they cost no more than the
\* allocation.
LEMMA TargetsBounded ==
  ASSUME TypeOK, NEW w \in 0 .. left, NEW target \in Targets(w)
  PROVE  /\ target \in Nat
         /\ ~ spoilt /\ ~ nan /\ portfolio_value >= 0 =>
              WeightUnit * (target * price_vals[stock]) <= w * portfolio_value
<1> DEFINE p == price_vals[stock]
           unit == WeightUnit * p
<1>1. p \in Nat \ {0} /\ WeightUnit \in Nat \ {0} /\ w \in Nat /\ portfolio_value \in Int
  BY PriceType, AccountAssumption DEF TypeOK
<1>2. unit \in Nat \ {0}
  BY <1>1
<1>3. CASE nan \/ portfolio_value < 0
  <2>1. target \in Nat
    BY <1>3, AccountAssumption DEF Targets
  <2> QED
    BY <2>1, <1>3, <1>1
<1>4. CASE ~ (nan \/ portfolio_value < 0)
  <2>1. portfolio_value \in Nat
    BY <1>4, <1>1
  <2> DEFINE money == w * portfolio_value
  <2>2. money \in Nat
    BY <2>1, <1>1, ProductNat
  <2>3. target \in Float(money \div unit) \cup {g \in Garbage : spoilt}
    BY <1>4 DEF Targets
  <2> HIDE DEF money, unit
  <2>4. /\ target \in Nat
        /\ ~ spoilt => unit * target <= money
    <3>1. money \div unit \in Nat /\ unit * (money \div unit) <= money
      BY <2>2, <1>2, DivBelow
    <3>2. /\ Float(money \div unit) \subseteq Nat
          /\ ~ spoilt => Float(money \div unit) = {money \div unit}
      BY <3>1, FloatFacts DEF TypeOK
    <3>3. Garbage \subseteq Nat
      BY AccountAssumption
    <3> QED  BY <2>3, <3>1, <3>2, <3>3
  <2>5. unit * target = WeightUnit * (target * p)
    <3> HIDE DEF p
    <3> QED
      BY <1>1, <2>4 DEF unit
  <2> QED
    BY <2>4, <2>5 DEF money
<1> QED
  BY <1>3, <1>4

-----------------------------------------------------------------------------
(* The invariant.                                                          *)

LEMMA InitIInv == Init => IInv
<1> SUFFICES ASSUME Init PROVE IInv
  OBVIOUS
<1> USE AccountAssumption DEF Init
<1>1. /\ holdings \in [Stock -> Nat] /\ new_holdings \in [Stock -> Nat]
      /\ price_vals \in [Stock -> Prices \cup {1}]
  OBVIOUS
<1>2. stock \in Stock /\ left \in 0 .. WeightUnit /\ frames \in 0 .. MaxFrames
  BY DEF Stock
<1>3. nan \in BOOLEAN /\ spoilt \in BOOLEAN /\ pc \in {"read", "value", "order", "update"}
  OBVIOUS
<1>5. cash \in Int /\ portfolio_value \in Int /\ total_cost \in Nat /\ userRefNum \in Nat
  OBVIOUS
<1>6. TypeOK
  BY <1>1, <1>2, <1>3, <1>5, Zenon DEF TypeOK
<1>4. Covered
  BY DEF Covered
<1> QED
  BY <1>6, <1>4 DEF IInv

LEMMA ReadFrameKeeps == IInv /\ ReadFrame => IInv'
<1> SUFFICES ASSUME IInv, ReadFrame PROVE IInv'
  OBVIOUS
<1> USE AccountAssumption DEF IInv, TypeOK, ReadFrame, account
<1>1. TypeOK'
  BY DEF Stock
<1>2. Covered'
  BY DEF Covered
<1> QED
  BY <1>1, <1>2

LEMMA AddHoldingKeeps == IInv /\ AddHolding => IInv'
<1> SUFFICES ASSUME IInv, AddHolding PROVE IInv'
  OBVIOUS
<1> USE AccountAssumption DEF IInv, TypeOK, AddHolding, account
<1>1. stock' \in Stock /\ pc' \in {"value", "order"}
  BY StepType
<1>2. holdings[stock] \in Nat /\ price_vals[stock] \in Nat
  BY PriceType
<1>3. holdings[stock] * price_vals[stock] \in Nat
  BY <1>2, ProductNat
<1>4. TypeOK'
  <2>1. portfolio_value' \in Int
    BY <1>2, MultiplyAddFacts
  <2> QED  BY <1>1, <2>1
<1>5. Covered'
  <2> SUFFICES ASSUME ~ spoilt PROVE Covered'
    BY DEF Covered
  <2>1. portfolio_value' >= 0
    <3>1. portfolio_value' = portfolio_value + holdings[stock] * price_vals[stock]
      BY <1>2, MultiplyAddFacts
    <3> QED  BY <3>1, <1>3 DEF Covered
  <2>2. WeightUnit * total_cost' <= (WeightUnit - left') * portfolio_value'
    <3>1. total_cost' = 0 /\ left' = WeightUnit
      BY DEF Covered
    <3>2. PICK v \in Int : v = portfolio_value'
      BY <1>4
    <3>3. WeightUnit * 0 <= (WeightUnit - WeightUnit) * v
      <4>1. WeightUnit - WeightUnit = 0 /\ 0 * v = 0 /\ WeightUnit * 0 = 0
        OBVIOUS
      <4> QED  BY <4>1
    <3> QED
      BY <3>1, <3>2, <3>3
  <2> QED
    BY <2>1, <2>2, <1>1 DEF Covered
<1> QED
  BY <1>4, <1>5

LEMMA AllocateKeeps ==
  ASSUME IInv, NEW w \in 0 .. left, NEW target \in Targets(w), Allocate(w, target)
  PROVE  IInv'
<1> USE AccountAssumption DEF IInv, Allocate
<1>1. stock' \in Stock /\ pc' \in {"order", "update"}
  BY StepType DEF TypeOK
<1>2. /\ target \in Nat
      /\ ~ spoilt /\ ~ nan /\ portfolio_value >= 0 =>
           WeightUnit * (target * price_vals[stock]) <= w * portfolio_value
  BY TargetsBounded
<1>3. price_vals[stock] \in Nat
  BY PriceType DEF TypeOK
<1> DEFINE cost == target * price_vals[stock]
<1>4. cost \in Nat
  BY <1>2, <1>3, ProductNat
<1>5. TypeOK'
  <2>1. total_cost' \in Nat
    BY <1>2, <1>3, MultiplyAddFacts DEF TypeOK
  <2> QED  BY <1>1, <1>2, <2>1 DEF TypeOK
<1>6. Covered'
  <2> SUFFICES ASSUME ~ spoilt PROVE Covered'
    BY DEF Covered
  <2>1. /\ cash >= 0 /\ ~ nan /\ portfolio_value >= 0
        /\ WeightUnit * total_cost <= (WeightUnit - left) * portfolio_value
    BY DEF Covered
  <2>2. WeightUnit * cost <= w * portfolio_value
    BY <1>2, <2>1
  <2>3. total_cost' = total_cost + cost /\ left' = left - w /\ portfolio_value' = portfolio_value
    BY <1>2, <1>3, MultiplyAddFacts DEF TypeOK
  <2>4. /\ WeightUnit \in Nat /\ left \in Nat /\ w \in Nat /\ total_cost \in Nat
        /\ portfolio_value \in Int
    BY DEF TypeOK
  <2> HIDE DEF cost
  <2>5. WeightUnit * (total_cost + cost) = WeightUnit * total_cost + WeightUnit * cost
    BY <2>4, <1>4
  <2>6. (WeightUnit - (left - w)) * portfolio_value
          = (WeightUnit - left) * portfolio_value + w * portfolio_value
    BY <2>4
  <2>7. WeightUnit * total_cost' <= (WeightUnit - left') * portfolio_value'
    BY <2>1, <2>2, <2>3, <2>4, <2>5, <2>6, <1>4
  <2> QED
    BY <2>1, <2>7, <1>1 DEF Covered
<1> QED
  BY <1>5, <1>6

LEMMA UpdateKeeps == IInv /\ Update => IInv'
<1> SUFFICES ASSUME IInv, Update PROVE IInv'
  OBVIOUS
<1> USE AccountAssumption DEF IInv, Update
<1>0. cash' \in Int /\ (~ spoilt => cash' = portfolio_value - total_cost)
  <2>1. portfolio_value - total_cost \in Int /\ spoilt \in BOOLEAN
    BY DEF TypeOK
  <2> QED  BY <2>1, FloatFacts
<1>1. TypeOK'
  BY <1>0 DEF TypeOK
<1>2. Covered'
  <2> SUFFICES ASSUME ~ spoilt PROVE Covered'
    BY DEF Covered
  <2>1. /\ ~ nan /\ portfolio_value >= 0
        /\ WeightUnit * total_cost <= (WeightUnit - left) * portfolio_value
    BY DEF Covered
  <2>2. /\ WeightUnit \in Nat \ {0} /\ left \in 0 .. WeightUnit /\ total_cost \in Nat
        /\ portfolio_value \in Nat
    BY <2>1 DEF TypeOK
  <2>3. portfolio_value * (WeightUnit - left) <= portfolio_value * WeightUnit
    BY <2>2, Monotone
  <2>4. WeightUnit * total_cost <= WeightUnit * portfolio_value
    BY <2>1, <2>2, <2>3
  <2>5. total_cost <= portfolio_value
    BY <2>2, <2>4, Cancel
  <2> QED
    BY <1>0, <2>1, <2>2, <2>5 DEF Covered
<1> QED
  BY <1>1, <1>2

LEMMA NextKeeps == IInv /\ [Next]_portfolioVars => IInv'
<1> SUFFICES ASSUME IInv, [Next]_portfolioVars PROVE IInv'
  OBVIOUS
<1>1. CASE ReadFrame
  BY <1>1, ReadFrameKeeps
<1>2. CASE AddHolding
  BY <1>2, AddHoldingKeeps
<1>3. CASE SendOrder
  BY <1>3, AllocateKeeps DEF SendOrder
<1>4. CASE Update
  BY <1>4, UpdateKeeps
<1>5. CASE UNCHANGED portfolioVars
  BY <1>5 DEF IInv, TypeOK, Covered, portfolioVars, account, call
<1> QED
  BY <1>1, <1>2, <1>3, <1>4, <1>5 DEF Next

-----------------------------------------------------------------------------
(* The monitor: what is sent, what is on its way, and what is logged.      *)

Order == [stock : Stock, delta : Int, ref : Nat]
Message == [portfolio : Int, orders : Seq(Order), held : [Stock -> Nat], clean : BOOLEAN]
StreamWord == [msg : Nat \ {0}, part : 1 .. MessageWords]

\* The reference number of the j-th order of message n.
RefAt(n, j) == (n - 1) * NumStocks + j
Numbered(orders, n) == \A j \in 1 .. Len(orders) : orders[j].stock = j /\ orders[j].ref = RefAt(n, j)

\* Orders are numbered in the order of sending, over the messages and those at hand.
Numbering ==
  /\ sent \in Seq(Message) /\ message \in Seq(Order)
  /\ \A n \in 1 .. Len(sent) : Len(sent[n].orders) = NumStocks /\ Numbered(sent[n].orders, n)
  /\ Numbered(message, Len(sent) + 1)
  /\ Len(message) = IF pc = "order" THEN stock - 1 ELSE 0
  /\ userRefNum = RefAt(Len(sent) + 1, Len(message) + 1)

Before(v, w) == v.msg < w.msg \/ (v.msg = w.msg /\ v.part < w.part)
OrderOf(word) == (word.part - 2) \div OrderWords + 1
WordRef(word) == RefAt(word.msg, OrderOf(word))

\* The words on their way are words of messages sent, in the order of sending.
InOrder ==
  /\ stream \in Seq(StreamWord)
  /\ \A i \in 1 .. Len(stream) : stream[i].msg <= Len(sent)
  /\ \A i, j \in 1 .. Len(stream) : i < j => Before(stream[i], stream[j])

\* A row that shows an order of one of the messages.
Genuine(row, messages) ==
  \E n \in 1 .. Len(messages), j \in Stock :
    /\ row.stock = messages[n].orders[j].stock /\ row.delta = messages[n].orders[j].delta
    /\ row.ref = messages[n].orders[j].ref

Known(i) == i \in 1 .. Len(chunks) /\ chunks[i] # Unknown

\* Rows in the file, then rows to be made, then orders still in the stream.
Logged ==
  /\ rows \in Seq(Row) /\ chunks \in Seq(Row \cup {Unknown})
  /\ \A i \in 1 .. Len(rows) : Genuine(rows[i], sent)
  /\ \A c \in Nat : Known(c) => Genuine(chunks[c], sent)
  /\ \A i, j \in 1 .. Len(rows) : i < j => rows[i].ref < rows[j].ref
  /\ \A c, d \in Nat : Known(c) /\ Known(d) /\ c < d => chunks[c].ref < chunks[d].ref
  /\ \A i \in 1 .. Len(rows), c \in Nat : Known(c) => rows[i].ref < chunks[c].ref
  /\ \A k \in 1 .. Len(stream) : IsOrderStart(stream[k]) =>
       /\ \A i \in 1 .. Len(rows) : rows[i].ref < WordRef(stream[k])
       /\ \A c \in Nat : Known(c) => chunks[c].ref < WordRef(stream[k])

Rest == thread \in {"reading", "stopped"} /\ last_count \in 0 .. Len(rows) /\ whole \in BOOLEAN

MonitorInv == IInv /\ Numbering /\ InOrder /\ Logged /\ Rest

\* An order names its stock and its number, which tell it from every other.
LEMMA RefsOrdered ==
  ASSUME NEW n \in Nat \ {0}, NEW m \in Nat \ {0}, NEW j \in Stock, NEW k \in Stock
  PROVE  /\ RefAt(n, j) \in Nat
         /\ RefAt(n, j) <= n * NumStocks
         /\ (n - 1) * NumStocks < RefAt(n, j)
         /\ n < m => RefAt(n, j) < RefAt(m, k)
<1>1. /\ NumStocks \in Nat \ {0} /\ j \in Nat /\ k \in Nat /\ 1 <= j /\ j <= NumStocks
      /\ 1 <= k /\ k <= NumStocks
  BY AccountAssumption DEF Stock
<1>2. PICK p \in Nat : p = (n - 1) * NumStocks
  BY <1>1, ProductNat
<1>3. n * NumStocks = p + NumStocks
  BY <1>1, <1>2
<1>4. ASSUME n < m PROVE RefAt(n, j) < RefAt(m, k)
  <2>1. NumStocks * n <= NumStocks * (m - 1)
    BY <1>1, <1>4, Monotone
  <2>2. PICK q \in Nat : q = (m - 1) * NumStocks
    BY <1>1, ProductNat
  <2>3. p + NumStocks <= q
    BY <1>1, <1>3, <2>1, <2>2
  <2> QED  BY <1>1, <1>2, <2>2, <2>3 DEF RefAt
<1> QED  BY <1>1, <1>2, <1>3, <1>4 DEF RefAt

\* A word that begins an order has its place in the message.
LEMMA OrderPlace ==
  ASSUME NEW v \in StreamWord, IsOrderStart(v)
  PROVE  OrderOf(v) \in Stock /\ v.part - 2 = OrderWords * (OrderOf(v) - 1)
<1>1. /\ NumStocks \in Nat \ {0} /\ OrderWords \in Nat \ {0}
      /\ v.part \in Nat /\ v.part - 2 \in Nat /\ v.part <= 1 + NumStocks * OrderWords
      /\ (v.part - 2) % OrderWords = 0
  BY AccountAssumption, MonitorAssumption DEF StreamWord, MessageWords, IsOrderStart
<1>2. PICK x \in Nat : x = v.part - 2
  BY <1>1
<1>3. PICK a \in Nat : a = x \div OrderWords
  BY <1>1, DivBelow
<1>4. x = OrderWords * a
  <2>1. x = OrderWords * (x \div OrderWords) + (x % OrderWords)
    BY <1>1
  <2> QED  BY <2>1, <1>1, <1>2, <1>3
<1>5. a < NumStocks
  <2>1. CASE NumStocks <= a
    <3>1. OrderWords * NumStocks <= OrderWords * a
      BY <2>1, <1>1, Monotone
    <3> QED  BY <3>1, <1>1, <1>2, <1>4
  <2> QED  BY <2>1, <1>1
<1>6. OrderOf(v) = a + 1
  BY <1>2, <1>3 DEF OrderOf
<1> QED  BY <1>1, <1>2, <1>4, <1>5, <1>6 DEF Stock

\* Orders that are sent later have higher numbers.
LEMMA WordsOrdered ==
  ASSUME NEW v \in StreamWord, NEW w \in StreamWord,
         IsOrderStart(v), IsOrderStart(w), Before(v, w)
  PROVE  WordRef(v) < WordRef(w)
<1>1. /\ v.msg \in Nat \ {0} /\ w.msg \in Nat \ {0} /\ v.part \in Nat /\ w.part \in Nat
      /\ OrderWords \in Nat \ {0}
  BY MonitorAssumption, AccountAssumption DEF StreamWord, MessageWords
<1>2. /\ OrderOf(v) \in Stock /\ v.part - 2 = OrderWords * (OrderOf(v) - 1)
      /\ OrderOf(w) \in Stock /\ w.part - 2 = OrderWords * (OrderOf(w) - 1)
  BY OrderPlace
<1>3. CASE v.msg < w.msg
  BY <1>1, <1>2, <1>3, RefsOrdered DEF WordRef
<1>4. CASE v.msg = w.msg /\ v.part < w.part
  <2>1. OrderOf(v) \in Int /\ OrderOf(w) \in Int
    BY <1>2, AccountAssumption DEF Stock
  <2>2. OrderOf(v) < OrderOf(w)
    <3>1. CASE OrderOf(w) - 1 <= OrderOf(v) - 1
      <4>1. OrderWords * (OrderOf(w) - 1) <= OrderWords * (OrderOf(v) - 1)
        BY <3>1, <2>1, <1>1, Monotone
      <4> QED  BY <4>1, <1>1, <1>2, <1>4
    <3> QED  BY <3>1, <2>1
  <2>3. PICK p \in Nat : p = (v.msg - 1) * NumStocks
    BY <1>1, AccountAssumption, ProductNat
  <2> QED  BY <2>1, <2>2, <2>3, <1>4 DEF WordRef, RefAt
<1> QED  BY <1>3, <1>4 DEF Before

\* No number in the file or waiting for it is beyond the orders sent.
LEMMA GenuineRef ==
  ASSUME Numbering, NEW row, Genuine(row, sent)
  PROVE  /\ row.ref \in Nat /\ row.ref <= Len(sent) * NumStocks
         /\ row.stock \in Stock
<1>1. PICK n \in 1 .. Len(sent), j \in Stock :
        row.stock = sent[n].orders[j].stock /\ row.ref = sent[n].orders[j].ref
  BY DEF Genuine
<1>2. /\ Len(sent) \in Nat /\ Len(sent[n].orders) = NumStocks /\ Numbered(sent[n].orders, n)
      /\ NumStocks \in Nat
  BY AccountAssumption DEF Numbering
<1>3. row.stock = j /\ row.ref = RefAt(n, j)
  BY <1>1, <1>2 DEF Numbered, Stock
<1>4. RefAt(n, j) \in Nat /\ RefAt(n, j) <= n * NumStocks
  BY <1>2, RefsOrdered
<1>5. NumStocks * n <= NumStocks * Len(sent)
  BY <1>2, Monotone
<1> QED  BY <1>2, <1>3, <1>4, <1>5

-----------------------------------------------------------------------------
(* The steps of the monitor.                                               *)

LEMMA MonitorInitInv == MonitorInit => MonitorInv
<1> SUFFICES ASSUME MonitorInit PROVE MonitorInv
  OBVIOUS
<1> USE DEF MonitorInit
<1>1. IInv
  BY InitIInv
<1>2. /\ Len(sent) = 0 /\ Len(message) = 0 /\ Len(stream) = 0 /\ Len(rows) = 0
      /\ Len(chunks) = 0
  OBVIOUS
<1>3. Numbering
  BY <1>2, AccountAssumption DEF Init, Numbering, Numbered, RefAt
<1>4. InOrder
  BY <1>2 DEF InOrder
<1>5. Logged
  BY <1>2 DEF Logged, Known
<1>6. Rest
  BY <1>2 DEF Rest
<1> QED  BY <1>1, <1>3, <1>4, <1>5, <1>6 DEF MonitorInv

\* Of the board's steps only OrderStep changes what the numbering is about.
LEMMA NumberingKept ==
  ASSUME Numbering, UNCHANGED <<sent, message, userRefNum>>,
         (IF pc' = "order" THEN stock' - 1 ELSE 0) = (IF pc = "order" THEN stock - 1 ELSE 0)
  PROVE  Numbering'
BY DEF Numbering, Numbered

LEMMA OtherStepKeeps == MonitorInv /\ OtherStep => MonitorInv'
<1> SUFFICES ASSUME MonitorInv, OtherStep PROVE MonitorInv'
  OBVIOUS
<1>1. IInv'
  BY ReadFrameKeeps, AddHoldingKeeps, UpdateKeeps DEF MonitorInv, OtherStep
<1>2. UNCHANGED <<sent, message, stream, thread, chunks, rows, whole, last_count>>
  BY DEF OtherStep, serverVars
<1>3. UNCHANGED userRefNum
  BY DEF OtherStep, ReadFrame, AddHolding, Update, account
<1>4. (IF pc' = "order" THEN stock' - 1 ELSE 0) = (IF pc = "order" THEN stock - 1 ELSE 0)
  BY DEF OtherStep, ReadFrame, AddHolding, Update, Step
<1>5. Numbering'
  BY <1>2, <1>3, <1>4, NumberingKept DEF MonitorInv
<1>6. InOrder /\ Logged /\ Rest
  BY DEF MonitorInv
<1>7. InOrder'
  BY <1>2, <1>6, ZenonT(60) DEF InOrder
<1>8. Rest'
  BY <1>2, <1>6, ZenonT(60) DEF Rest
<1>9. Logged'
  <2>1. \A c : Known(c)' <=> Known(c)
    BY <1>2, ZenonT(60) DEF Known
  <2>2. \A row : Genuine(row, sent') <=> Genuine(row, sent)
    BY <1>2, ZenonT(60)
  <2> QED  BY <2>1, <2>2, <1>2, <1>6, SMTT(60) DEF Logged
<1> QED  BY <1>1, <1>5, <1>7, <1>8, <1>9 DEF MonitorInv

LEMMA Concatenation ==
  ASSUME NEW S, NEW s \in Seq(S), NEW t \in Seq(S)
  PROVE  /\ s \o t \in Seq(S) /\ Len(s \o t) = Len(s) + Len(t)
         /\ \A i \in 1 .. Len(s) : (s \o t)[i] = s[i]
         /\ \A i \in Len(s) + 1 .. Len(s) + Len(t) : (s \o t)[i] = t[i - Len(s)]
OBVIOUS

\* What a Message appended to sent adds to its words and its rows: nothing that was
\* there changes.
LEMMA SentGrows ==
  ASSUME Logged, InOrder, Numbering, Len(sent) \in Nat, Len(sent') = Len(sent) + 1,
         \A n \in 1 .. Len(sent) : sent'[n] = sent[n],
         UNCHANGED <<rows, chunks>>,
         NEW W, NEW k \in Nat, W = Len(stream), k \in Nat,
         stream' \in Seq(StreamWord), W \in Nat, Len(stream') = W + k,
         \A i \in 1 .. W : stream'[i] = stream[i],
         \A i \in W + 1 .. W + k : stream'[i] = [msg |-> Len(sent) + 1, part |-> i - W]
  PROVE  InOrder' /\ Logged'
<1>1. \A i \in 1 .. W : stream'[i] = stream[i] /\ stream[i] \in StreamWord
                        /\ stream[i].msg <= Len(sent)
  BY DEF InOrder
<1>2. \A i \in W + 1 .. W + k :
        stream'[i].msg = Len(sent) + 1 /\ stream'[i].part = i - W
  <2> SUFFICES ASSUME NEW i \in W + 1 .. W + k
               PROVE  stream'[i].msg = Len(sent) + 1 /\ stream'[i].part = i - W
    OBVIOUS
  <2>1. stream'[i] = [msg |-> Len(sent) + 1, part |-> i - W]
    OBVIOUS
  <2> QED  BY ONLY <2>1
<1>3. \A i \in 1 .. W : stream[i].msg \in Nat
  BY <1>1 DEF StreamWord
<1>4. InOrder'
  <2>1. \A i \in 1 .. Len(stream') : stream'[i].msg <= Len(sent')
    <3> SUFFICES ASSUME NEW i \in 1 .. Len(stream') PROVE stream'[i].msg <= Len(sent')
      OBVIOUS
    <3>1. CASE i \in 1 .. W
      BY <3>1, <1>1, <1>3
    <3>2. CASE i \in W + 1 .. W + k
      BY <3>2, <1>2
    <3> QED  BY <3>1, <3>2
  <2>2. \A i, j \in 1 .. Len(stream') : i < j => Before(stream'[i], stream'[j])
    <3> SUFFICES ASSUME NEW i \in 1 .. Len(stream'), NEW j \in 1 .. Len(stream'), i < j
                 PROVE  Before(stream'[i], stream'[j])
      OBVIOUS
    <3>1. CASE j \in 1 .. W
      <4>1. i \in 1 .. W /\ Before(stream[i], stream[j])
        BY <3>1 DEF InOrder
      <4> QED  BY <3>1, <4>1
    <3>2. CASE i \in 1 .. W /\ j \in W + 1 .. W + k
      <4>1. stream'[i].msg <= Len(sent) /\ stream'[i].msg \in Nat
        BY <3>2, <1>1, <1>3
      <4>2. stream'[j].msg = Len(sent) + 1
        BY <3>2, <1>2
      <4> QED  BY <4>1, <4>2 DEF Before
    <3>3. CASE i \in W + 1 .. W + k /\ j \in W + 1 .. W + k
      <4>1. stream'[i].msg = stream'[j].msg /\ stream'[i].part < stream'[j].part
        BY <3>3, <1>2
      <4> QED  BY <4>1 DEF Before
    <3>4. \/ j \in 1 .. W \/ (i \in 1 .. W /\ j \in W + 1 .. W + k)
          \/ (i \in W + 1 .. W + k /\ j \in W + 1 .. W + k)
      OBVIOUS
    <3> QED  BY <3>1, <3>2, <3>3, <3>4
  <2> QED  BY <2>1, <2>2 DEF InOrder
<1>5. \A row : Genuine(row, sent) => Genuine(row, sent')
  BY DEF Genuine
<1>6. \A c \in Nat : Known(c) <=> Known(c)'
  BY DEF Known
<1>7. ASSUME NEW row, Genuine(row, sent), NEW i \in W + 1 .. W + k, IsOrderStart(stream'[i])
      PROVE  row.ref < WordRef(stream'[i])
  <2>1. row.ref \in Nat /\ row.ref <= Len(sent) * NumStocks
    BY <1>7, GenuineRef
  <2>2. stream'[i] \in StreamWord /\ stream'[i].msg = Len(sent) + 1
    BY <1>2
  <2>3. OrderOf(stream'[i]) \in Stock
    BY <1>7, <2>2, OrderPlace
  <2>4. /\ Len(sent) * NumStocks < WordRef(stream'[i]) /\ WordRef(stream'[i]) \in Nat
    <3>1. Len(sent) + 1 \in Nat \ {0} /\ (Len(sent) + 1) - 1 = Len(sent)
      OBVIOUS
    <3> QED  BY <2>2, <2>3, <3>1, RefsOrdered DEF WordRef
  <2>5. Len(sent) * NumStocks \in Nat
    BY AccountAssumption, ProductNat
  <2> QED  BY <2>1, <2>4, <2>5
<1>8. ASSUME NEW i \in 1 .. Len(stream'), IsOrderStart(stream'[i])
      PROVE  /\ \A r \in 1 .. Len(rows) : rows[r].ref < WordRef(stream'[i])
             /\ \A c \in Nat : Known(c) => chunks[c].ref < WordRef(stream'[i])
  <2>1. CASE i \in 1 .. W
    BY <1>1, <1>8, <2>1 DEF Logged
  <2>2. CASE i \in W + 1 .. W + k
    BY <1>7, <1>8, <2>2 DEF Logged
  <2> QED  BY <2>1, <2>2
<1>9. Logged'
  BY <1>5, <1>6, <1>8 DEF Logged
<1> QED  BY <1>4, <1>9

\* The event loop hands over a whole message.
MessageSent(orders) ==
  /\ sent' \in Seq(Message) /\ Len(sent') = Len(sent) + 1
  /\ \A n \in 1 .. Len(sent) : sent'[n] = sent[n]
  /\ sent'[Len(sent) + 1].orders = orders /\ sent'[Len(sent) + 1].held = new_holdings'
  /\ sent'[Len(sent) + 1].clean = ~ spoilt
  /\ stream' \in Seq(StreamWord) /\ Len(stream') = Len(stream) + MessageWords
  /\ \A i \in 1 .. Len(stream) : stream'[i] = stream[i]
  /\ \A i \in Len(stream) + 1 .. Len(stream) + MessageWords :
       stream'[i] = [msg |-> Len(sent) + 1, part |-> i - Len(stream)]

\* An order is put to those at hand; the last one completes the message.
OrderMade(order, orders) ==
  /\ order \in Order /\ order.stock = stock /\ order.ref = userRefNum
  /\ ~ spoilt => order.delta = new_holdings'[stock] - holdings[stock]
  /\ orders \in Seq(Order) /\ Len(orders) = stock /\ orders[stock] = order
  /\ \A j \in 1 .. stock - 1 : orders[j] = message[j]
  /\ \/ /\ stock < NumStocks /\ pc' = "order" /\ stock' = stock + 1
        /\ message' = orders /\ sent' = sent /\ stream' = stream
     \/ /\ stock = NumStocks /\ pc' = "update" /\ stock' = 1
        /\ message' = <<>> /\ MessageSent(orders)

LEMMA OrderStepMakes ==
  ASSUME IInv, Numbering, InOrder, OrderStep
  PROVE  /\ IInv' /\ TypeOK /\ pc = "order" /\ userRefNum' = userRefNum + 1 /\ holdings' = holdings
         /\ spoilt' = spoilt
         /\ \A s \in Stock : s # stock => new_holdings'[s] = new_holdings[s]
         /\ stock \in 1 .. NumStocks /\ NumStocks \in Nat \ {0} /\ MessageWords \in Nat
         /\ \E order, orders : OrderMade(order, orders)
<1>1. PICK w, target, delta :
        /\ w \in 0 .. left /\ target \in Targets(w) /\ delta \in Deltas(target)
        /\ Allocate(w, target)
        /\ LET orders == Append(message, OrderFor(delta))
               n == Len(sent) + 1
           IN  IF stock < NumStocks
               THEN message' = orders /\ UNCHANGED <<sent, stream>>
               ELSE /\ message' = <<>>
                    /\ sent' = Append(sent, [portfolio |-> portfolio_value, orders |-> orders,
                                             held |-> new_holdings', clean |-> ~ spoilt])
                    /\ stream' = stream \o
                         [i \in 1 .. MessageWords |-> [msg |-> n, part |-> i]]
  BY DEF OrderStep
<1>2. /\ Allocate(w, target)
      /\ LET orders == Append(message, OrderFor(delta))
             n == Len(sent) + 1
         IN  IF stock < NumStocks
             THEN message' = orders /\ UNCHANGED <<sent, stream>>
             ELSE /\ message' = <<>>
                  /\ sent' = Append(sent, [portfolio |-> portfolio_value, orders |-> orders,
                                           held |-> new_holdings', clean |-> ~ spoilt])
                  /\ stream' = stream \o
                       [i \in 1 .. MessageWords |-> [msg |-> n, part |-> i]]
  BY <1>1
<1>3. IInv' /\ TypeOK /\ TypeOK'
  BY <1>1, AllocateKeeps DEF IInv
<1>6. /\ pc = "order" /\ Step("order", "update") /\ userRefNum' = userRefNum + 1
      /\ new_holdings' = [new_holdings EXCEPT ![stock] = target]
      /\ holdings' = holdings /\ spoilt' = spoilt
  BY <1>2 DEF Allocate
<1>7. /\ target \in Nat /\ stock \in 1 .. NumStocks /\ NumStocks \in Nat \ {0}
      /\ holdings[stock] \in Nat /\ userRefNum \in Nat /\ portfolio_value \in Int
      /\ new_holdings' \in [Stock -> Nat]
  BY <1>1, <1>3, TargetsBounded, AccountAssumption DEF TypeOK, Stock
<1> DEFINE order == OrderFor(delta)
           orders == Append(message, order)
<1>8. /\ order \in Order /\ order.stock = stock /\ order.ref = userRefNum
      /\ ~ spoilt => order.delta = new_holdings'[stock] - holdings[stock]
      /\ \A s \in Stock : s # stock => new_holdings'[s] = new_holdings[s]
  <2>1. stock \in Stock /\ new_holdings \in [Stock -> Nat]
    BY <1>3 DEF TypeOK
  <2>2. /\ new_holdings'[stock] = target
        /\ \A s \in Stock : s # stock => new_holdings'[s] = new_holdings[s]
    BY <2>1, <1>6
  <2>3. delta \in Int /\ (~ spoilt => delta = target - holdings[stock])
    <3>1. \/ delta = target - holdings[stock]
          \/ spoilt /\ \E g \in Garbage : delta = - g
      BY <1>1 DEF Deltas
    <3>2. \A g \in Garbage : - g \in Int
      <4>1. \A g \in Garbage : g \in Nat
        BY AccountAssumption
      <4> QED  BY <4>1
    <3> QED  BY <3>1, <3>2, <1>7
  <2>4. order \in Order
    BY <1>7, <2>1, <2>3 DEF Order, OrderFor
  <2> QED  BY <2>2, <2>3, <2>4 DEF OrderFor
<1> HIDE DEF order
<1>9. /\ message \in Seq(Order) /\ Len(message) = stock - 1 /\ Numbered(message, Len(sent) + 1)
      /\ userRefNum = RefAt(Len(sent) + 1, stock) /\ sent \in Seq(Message)
      /\ Len(sent) \in Nat
  BY <1>6, <1>7 DEF Numbering
<1>10. /\ orders \in Seq(Order) /\ Len(orders) = stock /\ orders[stock] = order
       /\ \A j \in 1 .. stock - 1 : orders[j] = message[j]
  BY <1>7, <1>8, <1>9
<1> HIDE DEF orders
<1>11. MessageWords \in Nat
  BY <1>7, MonitorAssumption, ProductNat DEF MessageWords
<1>12. CASE stock < NumStocks
  <2>1. message' = orders /\ sent' = sent /\ stream' = stream
    BY <1>2, <1>12 DEF orders, order
  <2>2. pc' = "order" /\ stock' = stock + 1
    BY <1>6, <1>12 DEF Step
  <2>3. OrderMade(order, orders)
    BY <1>8, <1>10, <1>12, <2>1, <2>2 DEF OrderMade
  <2> QED  BY <2>3, <1>3, <1>6, <1>7, <1>8, <1>11
<1>13. CASE stock = NumStocks
  <2> DEFINE m == [portfolio |-> portfolio_value, orders |-> orders, held |-> new_holdings',
                   clean |-> ~ spoilt]
             ws == [i \in 1 .. MessageWords |-> [msg |-> Len(sent) + 1, part |-> i]]
  <2>1. message' = <<>> /\ sent' = Append(sent, m) /\ stream' = stream \o ws
    <3>1. ~ (stock < NumStocks)
      BY <1>7, <1>13
    <3> QED  BY <3>1, <1>2 DEF orders, order
  <2>2. pc' = "update" /\ stock' = 1
    BY <1>6, <1>7, <1>13 DEF Step
  <2>3. m \in Message /\ m.orders = orders /\ m.held = new_holdings' /\ m.clean = ~ spoilt
    BY <1>7, <1>10 DEF Message
  <2>5. ws \in Seq(StreamWord) /\ Len(ws) = MessageWords
        /\ \A i \in 1 .. MessageWords : ws[i] = [msg |-> Len(sent) + 1, part |-> i]
    BY <1>9, <1>11 DEF StreamWord
  <2> HIDE DEF m, ws
  <2>6. /\ sent' \in Seq(Message) /\ Len(sent') = Len(sent) + 1
        /\ sent'[Len(sent) + 1] = m /\ \A n \in 1 .. Len(sent) : sent'[n] = sent[n]
    BY <2>1, <2>3, <1>9
  <2>7. stream \in Seq(StreamWord) /\ Len(stream) \in Nat
    BY DEF InOrder
  <2>8. /\ stream' \in Seq(StreamWord) /\ Len(stream') = Len(stream) + MessageWords
        /\ \A i \in 1 .. Len(stream) : stream'[i] = stream[i]
    <3>1. /\ stream \o ws \in Seq(StreamWord)
          /\ Len(stream \o ws) = Len(stream) + Len(ws)
          /\ \A i \in 1 .. Len(stream) : (stream \o ws)[i] = stream[i]
      <4>1. ws \in Seq(StreamWord)
        BY <2>5
      <4> QED  BY ONLY <2>7, <4>1, Concatenation
    <3>2. stream' = stream \o ws /\ Len(ws) = MessageWords
      BY <2>1, <2>5
    <3> QED  BY ONLY <3>1, <3>2
  <2>9. \A i \in Len(stream) + 1 .. Len(stream) + MessageWords :
          stream'[i] = [msg |-> Len(sent) + 1, part |-> i - Len(stream)]
    <3> SUFFICES ASSUME NEW i \in Len(stream) + 1 .. Len(stream) + MessageWords
                 PROVE  stream'[i] = [msg |-> Len(sent) + 1, part |-> i - Len(stream)]
      OBVIOUS
    <3>1. i - Len(stream) \in 1 .. MessageWords
      BY <2>7, <1>11
    <3>2. stream'[i] = ws[i - Len(stream)]
      <4>1. i \in Len(stream) + 1 .. Len(stream) + Len(ws)
        BY <2>5
      <4>2. (stream \o ws)[i] = ws[i - Len(stream)]
        BY <2>7, <2>5, <4>1, Concatenation
      <4> QED  BY <2>1, <4>2
    <3> QED  BY <3>1, <3>2, <2>5
  <2>10. MessageSent(orders)
    BY <2>3, <2>6, <2>8, <2>9 DEF MessageSent
  <2>11. OrderMade(order, orders)
    BY <1>8, <1>10, <1>13, <2>1, <2>2, <2>10 DEF OrderMade
  <2> QED  BY <2>11, <1>3, <1>6, <1>7, <1>8, <1>11
<1> QED  BY <1>7, <1>12, <1>13

LEMMA OrderStepKeeps == MonitorInv /\ OrderStep => MonitorInv'
<1> SUFFICES ASSUME MonitorInv, OrderStep PROVE MonitorInv'
  OBVIOUS
<1> USE DEF MonitorInv
<1>1. /\ IInv' /\ TypeOK /\ pc = "order" /\ userRefNum' = userRefNum + 1
      /\ stock \in 1 .. NumStocks /\ NumStocks \in Nat \ {0} /\ MessageWords \in Nat
      /\ \E order, orders : OrderMade(order, orders)
  BY OrderStepMakes
<1>2. PICK order, orders : OrderMade(order, orders)
  BY <1>1
<1>3. UNCHANGED <<thread, chunks, rows, whole, last_count>>
  BY DEF OrderStep, serverVars
<1>4. Rest'
  BY <1>3 DEF Rest
<1>5. /\ order.stock = stock /\ order.ref = userRefNum
      /\ orders \in Seq(Order) /\ Len(orders) = stock /\ orders[stock] = order
      /\ \A j \in 1 .. stock - 1 : orders[j] = message[j]
  BY <1>2 DEF OrderMade
<1>6. /\ message \in Seq(Order) /\ Len(message) = stock - 1 /\ Numbered(message, Len(sent) + 1)
      /\ userRefNum = RefAt(Len(sent) + 1, stock) /\ sent \in Seq(Message)
      /\ Len(sent) \in Nat
      /\ \A n \in 1 .. Len(sent) : Len(sent[n].orders) = NumStocks /\ Numbered(sent[n].orders, n)
  BY <1>1 DEF Numbering
<1>7. Numbered(orders, Len(sent) + 1)
  <2> SUFFICES ASSUME NEW j \in 1 .. stock
               PROVE  orders[j].stock = j /\ orders[j].ref = RefAt(Len(sent) + 1, j)
    BY <1>5 DEF Numbered
  <2>1. CASE j = stock
    BY <2>1, <1>5, <1>6
  <2>2. CASE j \in 1 .. stock - 1
    BY <2>2, <1>5, <1>6 DEF Numbered
  <2> QED  BY <2>1, <2>2, <1>1
<1>8. userRefNum' = RefAt(Len(sent) + 1, stock + 1)
  <2>1. PICK p \in Nat : p = ((Len(sent) + 1) - 1) * NumStocks
    BY <1>1, <1>6, ProductNat
  <2> QED  BY <2>1, <1>1, <1>6 DEF RefAt
<1>9. CASE stock < NumStocks
  <2>1. /\ message' = orders /\ sent' = sent /\ stream' = stream
        /\ pc' = "order" /\ stock' = stock + 1
    BY <1>2, <1>9 DEF OrderMade
  <2>2. Numbering'
    BY <2>1, <1>1, <1>5, <1>6, <1>7, <1>8 DEF Numbering, Numbered
  <2>3. InOrder' /\ Logged'
    BY <2>1, <1>3 DEF InOrder, Logged, Known
  <2> QED  BY <1>1, <1>4, <2>2, <2>3
<1>10. CASE stock = NumStocks
  <2>1. pc' = "update" /\ stock' = 1 /\ message' = <<>> /\ MessageSent(orders)
    BY <1>2, <1>10 DEF OrderMade
  <2>2. /\ sent' \in Seq(Message) /\ Len(sent') = Len(sent) + 1
        /\ sent'[Len(sent) + 1].orders = orders /\ \A n \in 1 .. Len(sent) : sent'[n] = sent[n]
    BY <2>1 DEF MessageSent
  <2>3. \A n \in 1 .. Len(sent') : Len(sent'[n].orders) = NumStocks /\ Numbered(sent'[n].orders, n)
    <3> SUFFICES ASSUME NEW n \in 1 .. Len(sent')
                 PROVE  Len(sent'[n].orders) = NumStocks /\ Numbered(sent'[n].orders, n)
      OBVIOUS
    <3>1. CASE n \in 1 .. Len(sent)
      BY <3>1, <2>2, <1>6
    <3>2. CASE n = Len(sent) + 1
      BY <3>2, <2>2, <1>5, <1>7, <1>10
    <3> QED  BY <3>1, <3>2, <2>2, <1>6
  <2>4. userRefNum' = RefAt(Len(sent') + 1, 1)
    <3>1. PICK p \in Nat : p = Len(sent) * NumStocks
      BY <1>1, <1>6, ProductNat
    <3>2. ((Len(sent) + 1) + 1 - 1) * NumStocks = p + NumStocks
      BY <3>1, <1>1, <1>6
    <3> QED  BY <3>1, <3>2, <1>1, <1>6, <1>10, <2>2 DEF RefAt
  <2>5. Numbering'
    <3>1. message' \in Seq(Order) /\ Len(message') = 0
      BY <2>1
    <3> QED  BY <2>1, <2>2, <2>3, <2>4, <3>1 DEF Numbering, Numbered
  <2>6. InOrder' /\ Logged'
    <3>1. Len(stream) \in Nat
      BY DEF InOrder
    <3>2. /\ stream' \in Seq(StreamWord) /\ Len(stream') = Len(stream) + MessageWords
          /\ \A i \in 1 .. Len(stream) : stream'[i] = stream[i]
          /\ \A i \in Len(stream) + 1 .. Len(stream) + MessageWords :
               stream'[i] = [msg |-> Len(sent) + 1, part |-> i - Len(stream)]
      BY <2>1 DEF MessageSent
    <3> QED  BY <3>1, <3>2, <2>2, <1>1, <1>3, <1>6, SentGrows
  <2> QED  BY <1>1, <1>4, <2>5, <2>6
<1> QED  BY <1>1, <1>9, <1>10

-----------------------------------------------------------------------------
(* The steps of the receive thread.                                        *)

LEMMA ReceiveKeeps == MonitorInv /\ Receive => MonitorInv'
<1> SUFFICES ASSUME MonitorInv, Receive PROVE MonitorInv'
  OBVIOUS
<1> USE DEF MonitorInv
<1>1. PICK k \in 1 .. Len(stream) :
        /\ chunks' = handle_incoming_message(SubSeq(stream, 1, k))
        /\ stream' = SubSeq(stream, k + 1, Len(stream))
        /\ whole' = (whole /\ k = MessageWords /\ SubSeq(stream, 1, k)[1].part = 1)
  BY DEF Receive
<1>2. UNCHANGED <<portfolioVars, sent, message, thread, rows, last_count>>
  BY DEF Receive
<1>3. IInv' /\ Numbering'
  BY ZenonT(60), <1>2 DEF IInv, TypeOK, Covered, Numbering, Numbered, portfolioVars, account, call
<1>4. Rest'
  BY <1>1, <1>2 DEF Rest
<1>5. /\ stream \in Seq(StreamWord) /\ Len(stream) \in Nat /\ k \in Nat /\ k >= 1
      /\ \A i \in 1 .. Len(stream) : stream[i] \in StreamWord /\ stream[i].msg <= Len(sent)
      /\ \A i, j \in 1 .. Len(stream) : i < j => Before(stream[i], stream[j])
  BY DEF InOrder
<1> DEFINE words == SubSeq(stream, 1, k)
<1>6. /\ Len(words) = k /\ \A i \in 1 .. k : words[i] = stream[i]
      /\ stream' \in Seq(StreamWord) /\ Len(stream') = Len(stream) - k
      /\ \A i \in 1 .. Len(stream) - k : stream'[i] = stream[i + k]
  BY SMTT(30), <1>1, <1>5
<1>7. chunks' = handle_incoming_message(words)
  BY <1>1
<1> HIDE DEF words
<1>8. InOrder'
  <2>1. \A i \in 1 .. Len(stream') : i + k \in 1 .. Len(stream) /\ stream'[i] = stream[i + k]
    <3>1. ASSUME NEW i \in 1 .. Len(stream')
          PROVE  /\ i \in 1 .. Len(stream) - k
                 /\ i + k \in 1 .. Len(stream)
      <4>1. Len(stream') = Len(stream) - k /\ Len(stream) \in Nat /\ k \in Nat
        BY <1>5, <1>6
      <4> QED  BY <4>1, <3>1
    <3>2. \A i \in 1 .. Len(stream) - k : stream'[i] = stream[i + k]
      BY <1>6
    <3> QED  BY <3>1, <3>2
  <2>2. \A i \in 1 .. Len(stream') : stream'[i].msg <= Len(sent')
    BY <1>2, <1>5, <2>1
  <2>3. ASSUME NEW i \in 1 .. Len(stream'), NEW j \in 1 .. Len(stream'), i < j
        PROVE  Before(stream'[i], stream'[j])
    <3>1. i + k < j + k
      BY <1>5, <2>3
    <3> QED  BY <3>1, <2>1, <1>5
  <2> QED  BY <1>6, <2>2, <2>3 DEF InOrder
<1>9. \A row : Genuine(row, sent) => Genuine(row, sent')
  BY <1>2
<1>10. \A i \in 1 .. Len(stream') : IsOrderStart(stream'[i]) =>
         \A r \in 1 .. Len(rows) : rows[r].ref < WordRef(stream'[i])
  <2>1. \A i \in 1 .. Len(stream') : i + k \in 1 .. Len(stream) /\ stream'[i] = stream[i + k]
    BY <1>5, <1>6
  <2> QED  BY <2>1 DEF Logged
<1>11. CASE k # MessageWords
  <2>1. chunks' = <<>>
    BY <1>6, <1>7, <1>11 DEF handle_incoming_message
  <2>2. \A c \in Nat : ~ Known(c)'
    BY <2>1 DEF Known
  <2>3. Logged'
    BY SMTT(30), <1>2, <1>9, <1>10, <2>1, <2>2 DEF Logged
  <2> QED  BY <1>3, <1>4, <1>8, <2>3
<1>12. CASE k = MessageWords
  <2> DEFINE place(c) == 2 + (c - 1) * OrderWords
             portfolio == PortfolioNumber(words)
  <2>1. chunks' = [c \in 1 .. NumStocks |-> Decoded(words[place(c)], portfolio)]
    BY <1>6, <1>7, <1>12 DEF handle_incoming_message
  <2>2. portfolio \in Int
    <3>1. words[1] = stream[1] /\ stream[1] \in StreamWord /\ stream[1].msg <= Len(sent)
      BY <1>5, <1>6
    <3>2. stream[1].msg \in 1 .. Len(sent) /\ sent \in Seq(Message)
      BY <3>1 DEF StreamWord, Numbering
    <3>3. sent[stream[1].msg] \in Message
      BY <3>2
    <3> QED  BY <3>1, <3>3 DEF PortfolioNumber, Garbled, Message
  <2>3. NumStocks \in Nat \ {0} /\ OrderWords \in Nat \ {0} /\ k = 1 + NumStocks * OrderWords
    BY <1>12, AccountAssumption, MonitorAssumption DEF MessageWords
  <2>4. ASSUME NEW c \in 1 .. NumStocks
        PROVE  /\ place(c) \in 1 .. k /\ words[place(c)] = stream[place(c)]
               /\ stream[place(c)] \in StreamWord
    <3>1. PICK p \in Nat : p = (c - 1) * OrderWords
      BY <2>3, ProductNat
    <3>2. OrderWords * (c - 1) <= OrderWords * (NumStocks - 1)
      BY <2>3, Monotone
    <3>3. p + OrderWords <= NumStocks * OrderWords
      BY <3>1, <3>2, <2>3
    <3>4. place(c) = 2 + p
      BY <3>1
    <3>5. NumStocks * OrderWords \in Nat
      BY <2>3, ProductNat
    <3>6. place(c) \in 1 .. k
      BY <3>3, <3>4, <3>5, <2>3
    <3> QED  BY <3>6, <1>5, <1>6
  <2>5. ASSUME NEW c \in 1 .. NumStocks, NEW d \in 1 .. NumStocks, c < d
        PROVE  place(c) < place(d)
    <3>1. PICK p \in Nat : p = (c - 1) * OrderWords
      BY <2>3, ProductNat
    <3>2. PICK q \in Nat : q = (d - 1) * OrderWords
      BY <2>3, ProductNat
    <3>3. OrderWords * (c - 1 + 1) <= OrderWords * (d - 1)
      BY <2>3, <2>5, Monotone
    <3>4. OrderWords * (c - 1 + 1) = p + OrderWords
      BY <3>1, <2>3
    <3> QED  BY <3>1, <3>2, <3>3, <3>4, <2>3
  <2> HIDE DEF place, portfolio
  <2>6. ASSUME NEW c \in 1 .. NumStocks
        PROVE  /\ chunks'[c] \in Row \cup {Unknown}
               /\ chunks'[c] # Unknown =>
                    /\ IsOrderStart(stream[place(c)])
                    /\ Genuine(chunks'[c], sent)
                    /\ chunks'[c].ref = WordRef(stream[place(c)])
    <3> DEFINE v == stream[place(c)]
    <3>1. chunks'[c] = Decoded(v, portfolio) /\ v \in StreamWord
      BY <2>1, <2>4
    <3>2. CASE ~ IsOrderStart(v)
      BY <3>1, <3>2 DEF Decoded
    <3>3. CASE IsOrderStart(v)
      <4>1. OrderOf(v) \in Stock
        BY <3>1, <3>3, OrderPlace
      <4>2. v.msg \in 1 .. Len(sent) /\ sent \in Seq(Message)
        <5>1. place(c) \in 1 .. Len(stream)
          BY <2>4, <1>5
        <5>2. v.msg <= Len(sent) /\ v.msg \in Nat \ {0}
          BY <5>1, <3>1, <1>5 DEF StreamWord
        <5>3. sent \in Seq(Message) /\ Len(sent) \in Nat
          BY DEF Numbering
        <5> QED  BY <5>2, <5>3
      <4> DEFINE o == sent[v.msg].orders[OrderOf(v)]
      <4>3. o \in Order /\ o.stock = OrderOf(v) /\ o.ref = WordRef(v)
        <5>1. sent[v.msg] \in Message
          BY <4>2
        <5>2. sent[v.msg].orders \in Seq(Order) /\ Len(sent[v.msg].orders) = NumStocks
              /\ Numbered(sent[v.msg].orders, v.msg)
          BY <4>2, <5>1 DEF Numbering, Message
        <5>3. OrderOf(v) \in 1 .. Len(sent[v.msg].orders)
          BY <4>1, <5>2 DEF Stock
        <5> QED  BY <5>2, <5>3 DEF Numbered, WordRef
      <4>4. chunks'[c] = [stock |-> o.stock, delta |-> o.delta, ref |-> o.ref,
                          portfolio |-> portfolio]
        BY <3>1, <3>3 DEF Decoded, OrderOf
      <4>5. Genuine(chunks'[c], sent)
        <5>1. /\ chunks'[c].stock = o.stock /\ chunks'[c].delta = o.delta
              /\ chunks'[c].ref = o.ref
          BY ONLY <4>4
        <5> QED  BY <4>1, <4>2, <5>1 DEF Genuine
      <4> HIDE DEF o
      <4>6. chunks'[c] \in Row /\ chunks'[c].ref = WordRef(v)
        BY <4>3, <4>4, <2>2 DEF Row, Order
      <4> QED  BY <3>3, <4>5, <4>6
    <3> QED  BY <3>2, <3>3
  <2>7. chunks' \in Seq(Row \cup {Unknown}) /\ Len(chunks') = NumStocks
    <3>1. chunks' = [c \in 1 .. NumStocks |-> chunks'[c]]
      BY <2>1
    <3> QED  BY <3>1, <2>3, <2>6
  <2>8. \A c \in Nat : Known(c)' => /\ c \in 1 .. NumStocks
                                    /\ IsOrderStart(stream[place(c)])
                                    /\ Genuine(chunks'[c], sent)
                                    /\ chunks'[c].ref = WordRef(stream[place(c)])
    BY <2>6, <2>7 DEF Known
  <2>9. \A c, d \in Nat : Known(c)' /\ Known(d)' /\ c < d => chunks'[c].ref < chunks'[d].ref
    <3> SUFFICES ASSUME NEW c \in Nat, NEW d \in Nat, Known(c)', Known(d)', c < d
                 PROVE  chunks'[c].ref < chunks'[d].ref
      OBVIOUS
    <3>1. Before(stream[place(c)], stream[place(d)])
      <4>1. place(c) < place(d) /\ place(c) \in 1 .. Len(stream) /\ place(d) \in 1 .. Len(stream)
        BY <2>4, <2>5, <2>8, <1>5
      <4> QED  BY <4>1, <1>5
    <3> QED  BY <3>1, <2>4, <2>8, WordsOrdered
  <2>10. \A i \in 1 .. Len(rows), c \in Nat : Known(c)' => rows[i].ref < chunks'[c].ref
    <3> SUFFICES ASSUME NEW i \in 1 .. Len(rows), NEW c \in Nat, Known(c)'
                 PROVE  rows[i].ref < chunks'[c].ref
      OBVIOUS
    <3>1. place(c) \in 1 .. Len(stream)
      BY <2>4, <2>8, <1>5
    <3> QED  BY <3>1, <2>8 DEF Logged
  <2>11. \A i \in 1 .. Len(stream'), c \in Nat : IsOrderStart(stream'[i]) /\ Known(c)' =>
            chunks'[c].ref < WordRef(stream'[i])
    <3> SUFFICES ASSUME NEW i \in 1 .. Len(stream'), NEW c \in Nat,
                        IsOrderStart(stream'[i]), Known(c)'
                 PROVE  chunks'[c].ref < WordRef(stream'[i])
      OBVIOUS
    <3>1. place(c) \in 1 .. k /\ stream[place(c)] \in StreamWord
      BY <2>4, <2>8
    <3>2. i + k \in 1 .. Len(stream) /\ stream'[i] = stream[i + k] /\ i \in Nat
      BY <1>5, <1>6
    <3>3. Before(stream[place(c)], stream[i + k])
      <4>1. place(c) \in 1 .. Len(stream) /\ place(c) < i + k
        BY <3>1, <3>2, <1>5
      <4> QED  BY <3>2, <4>1, <1>5
    <3> QED  BY <3>1, <3>2, <3>3, <2>8, <1>5, WordsOrdered
  <2>12. Logged'
    <3>1. rows' = rows
      BY <1>2
    <3> QED  BY <3>1, <1>9, <1>10, <2>7, <2>8, <2>9, <2>10, <2>11 DEF Logged
  <2> QED  BY <1>3, <1>4, <1>8, <2>12
<1> QED  BY <1>11, <1>12

\* The head of chunks is a row that comes next, or is skipped.
LEMMA ChunkTaken ==
  ASSUME Logged, chunks # <<>>, chunks' = Tail(chunks)
  PROVE  /\ chunks' \in Seq(Row \cup {Unknown})
         /\ Len(chunks) >= 1 /\ Head(chunks) = chunks[1]
         /\ \A c \in Nat : Known(c)' => c \in 1 .. Len(chunks') /\ Known(c + 1)
                                        /\ chunks'[c] = chunks[c + 1]
<1>1. chunks \in Seq(Row \cup {Unknown}) /\ Len(chunks) \in Nat /\ Len(chunks) >= 1
  BY DEF Logged
<1>2. /\ chunks' \in Seq(Row \cup {Unknown}) /\ Len(chunks') = Len(chunks) - 1
      /\ \A c \in 1 .. Len(chunks) - 1 : chunks'[c] = chunks[c + 1]
  BY <1>1
<1>3. Head(chunks) = chunks[1]
  BY <1>1
<1> QED  BY <1>1, <1>2, <1>3 DEF Known

LEMMA LogRowKeeps == MonitorInv /\ LogRow => MonitorInv'
<1> SUFFICES ASSUME MonitorInv, LogRow PROVE MonitorInv'
  OBVIOUS
<1> USE DEF MonitorInv
<1>1. /\ chunks # <<>> /\ Head(chunks) # Unknown
      /\ rows' = Append(rows, Head(chunks)) /\ chunks' = Tail(chunks)
      /\ UNCHANGED <<portfolioVars, sent, message, stream, thread, whole, last_count>>
  BY DEF LogRow
<1>2. IInv' /\ Numbering' /\ InOrder'
  BY SMTT(30), <1>1 DEF IInv, TypeOK, Covered, Numbering, Numbered, InOrder, portfolioVars, account, call
<1>3. /\ chunks' \in Seq(Row \cup {Unknown})
      /\ Len(chunks) >= 1 /\ Head(chunks) = chunks[1]
      /\ \A c \in Nat : Known(c)' => c \in 1 .. Len(chunks') /\ Known(c + 1)
                                     /\ chunks'[c] = chunks[c + 1]
  BY <1>1, ChunkTaken
<1>4. /\ rows \in Seq(Row) /\ Len(rows) \in Nat /\ chunks \in Seq(Row \cup {Unknown})
      /\ Len(chunks) \in Nat
  BY DEF Logged
<1>5. Known(1) /\ chunks[1] \in Row
  BY <1>1, <1>3, <1>4 DEF Known
<1>6. /\ rows' \in Seq(Row) /\ Len(rows') = Len(rows) + 1
      /\ rows'[Len(rows) + 1] = chunks[1]
      /\ \A i \in 1 .. Len(rows) : rows'[i] = rows[i]
  BY <1>1, <1>3, <1>4, <1>5
<1>7. \A row : Genuine(row, sent) => Genuine(row, sent')
  BY <1>1
<1>8. ASSUME NEW i \in 1 .. Len(rows') PROVE i \in 1 .. Len(rows) \/ i = Len(rows) + 1
  BY <1>4, <1>6
<1>9. \A i \in 1 .. Len(rows') : Genuine(rows'[i], sent')
  BY <1>5, <1>6, <1>7, <1>8 DEF Logged
<1>10. \A c \in Nat : Known(c)' => Genuine(chunks'[c], sent')
  BY <1>3, <1>7 DEF Logged
<1>11. ASSUME NEW i \in 1 .. Len(rows'), NEW j \in 1 .. Len(rows'), i < j
       PROVE  rows'[i].ref < rows'[j].ref
  <2>1. i \in 1 .. Len(rows) /\ rows'[i] = rows[i]
    BY <1>4, <1>6, <1>11
  <2>2. CASE j \in 1 .. Len(rows)
    BY <2>1, <2>2, <1>6, <1>11 DEF Logged
  <2>3. CASE j = Len(rows) + 1
    BY <2>1, <2>3, <1>5, <1>6 DEF Logged
  <2> QED  BY <2>2, <2>3, <1>8
<1>12. ASSUME NEW c \in Nat, NEW d \in Nat, Known(c)', Known(d)', c < d
       PROVE  chunks'[c].ref < chunks'[d].ref
  <2>1. /\ chunks'[c] = chunks[c + 1] /\ chunks'[d] = chunks[d + 1]
        /\ Known(c + 1) /\ Known(d + 1) /\ c + 1 \in Nat /\ d + 1 \in Nat /\ c + 1 < d + 1
    BY <1>3, <1>12
  <2> QED  BY <2>1 DEF Logged
<1>13. ASSUME NEW i \in 1 .. Len(rows'), NEW c \in Nat, Known(c)'
       PROVE  rows'[i].ref < chunks'[c].ref
  <2>1. /\ chunks'[c] = chunks[c + 1] /\ Known(c + 1) /\ c + 1 \in Nat /\ c >= 1
    BY <1>3, <1>13
  <2>2. CASE i \in 1 .. Len(rows)
    BY <2>1, <2>2, <1>6 DEF Logged
  <2>3. CASE i = Len(rows) + 1
    <3>1. rows'[i] = chunks[1] /\ 1 < c + 1
      BY <2>1, <2>3, <1>6
    <3> QED  BY <2>1, <3>1, <1>5 DEF Logged
  <2> QED  BY <2>2, <2>3, <1>8
<1>14. ASSUME NEW k \in 1 .. Len(stream), IsOrderStart(stream[k])
       PROVE  /\ \A i \in 1 .. Len(rows') : rows'[i].ref < WordRef(stream[k])
              /\ \A c \in Nat : Known(c)' => chunks'[c].ref < WordRef(stream[k])
  <2>1. \A i \in 1 .. Len(rows') : rows'[i].ref < WordRef(stream[k])
    BY <1>5, <1>6, <1>8, <1>14 DEF Logged
  <2>2. \A c \in Nat : Known(c)' => chunks'[c].ref < WordRef(stream[k])
    BY <1>3, <1>14 DEF Logged
  <2> QED  BY <2>1, <2>2
<1>15. Logged'
  <2>1. stream' = stream
    BY <1>1
  <2> QED
    BY <2>1, <1>3, <1>6, <1>9, <1>10, <1>11, <1>12, <1>13, <1>14 DEF Logged
<1>16. Rest'
  BY <1>1, <1>4, <1>6 DEF Rest
<1> QED  BY <1>2, <1>15, <1>16

\* Chunks dropped: one that is unknown, or all when the thread ends.
LEMMA ChunksDropped ==
  ASSUME MonitorInv,
         UNCHANGED <<portfolioVars, sent, message, stream, rows, whole, last_count>>,
         thread' \in {"reading", "stopped"},
         (chunks # <<>> /\ chunks' = Tail(chunks)) \/ chunks' = <<>>
  PROVE  MonitorInv'
<1> USE DEF MonitorInv
<1>1. IInv' /\ Numbering' /\ InOrder' /\ Rest'
  BY SMTT(30) DEF IInv, TypeOK, Covered, Numbering, Numbered, InOrder, Rest, portfolioVars, account, call
<1>2. \A row : Genuine(row, sent) => Genuine(row, sent')
  OBVIOUS
<1>3. CASE chunks' = <<>>
  <2>1. \A c \in Nat : ~ Known(c)'
    BY <1>3 DEF Known
  <2>2. chunks' \in Seq(Row \cup {Unknown})
    BY <1>3
  <2> QED  BY <2>1, <2>2, <1>1, <1>2 DEF Logged
<1>4. CASE chunks # <<>> /\ chunks' = Tail(chunks)
  <2>1. /\ chunks' \in Seq(Row \cup {Unknown})
        /\ \A c \in Nat : Known(c)' => Known(c + 1) /\ chunks'[c] = chunks[c + 1]
    BY <1>4, ChunkTaken
  <2>2. \A c \in Nat : Known(c)' => Genuine(chunks'[c], sent')
    BY <2>1, <1>2 DEF Logged
  <2>3. \A i \in 1 .. Len(rows') : Genuine(rows'[i], sent')
    BY <1>2 DEF Logged
  <2>4. ASSUME NEW c \in Nat, NEW d \in Nat, Known(c)', Known(d)', c < d
        PROVE  chunks'[c].ref < chunks'[d].ref
    <3>1. /\ chunks'[c] = chunks[c + 1] /\ chunks'[d] = chunks[d + 1]
          /\ Known(c + 1) /\ Known(d + 1) /\ c + 1 \in Nat /\ d + 1 \in Nat /\ c + 1 < d + 1
      BY <2>1, <2>4
    <3> QED  BY <3>1 DEF Logged
  <2>5. \A i \in 1 .. Len(rows'), c \in Nat : Known(c)' => rows'[i].ref < chunks'[c].ref
    BY <2>1 DEF Logged
  <2>6. \A k \in 1 .. Len(stream'), c \in Nat : IsOrderStart(stream'[k]) /\ Known(c)' =>
          chunks'[c].ref < WordRef(stream'[k])
    BY SMTT(30), <2>1 DEF Logged
  <2>7. Logged'
    BY <2>1, <2>2, <2>3, <2>4, <2>5, <2>6 DEF Logged
  <2> QED  BY <1>1, <2>7
<1> QED  BY <1>3, <1>4

LEMMA OnlyDrawn ==
  ASSUME MonitorInv, last_count' \in 0 .. Len(rows),
         UNCHANGED <<portfolioVars, sent, message, stream, thread, chunks, rows, whole>>
  PROVE  MonitorInv'
<1> USE DEF MonitorInv
<1>1. IInv'
  BY DEF IInv, TypeOK, Covered, portfolioVars, account, call
<1>2. Numbering'
  BY SMTT(30) DEF Numbering, Numbered, portfolioVars, account, call
<1>3. InOrder' /\ Rest'
  BY DEF InOrder, Rest
<1>4. Logged'
  <2>1. \A c \in Nat : Known(c)' <=> Known(c)
    BY DEF Known
  <2> QED  BY <2>1 DEF Logged
<1> QED  BY <1>1, <1>2, <1>3, <1>4

LEMMA MonitorNextKeeps == MonitorInv /\ [MonitorNext]_vars => MonitorInv'
<1> SUFFICES ASSUME MonitorInv, [MonitorNext]_vars PROVE MonitorInv'
  OBVIOUS
<1>1. CASE OtherStep
  BY <1>1, OtherStepKeeps
<1>2. CASE OrderStep
  BY <1>2, OrderStepKeeps
<1>3. CASE Receive
  BY <1>3, ReceiveKeeps
<1>4. CASE LogRow
  BY <1>4, LogRowKeeps
<1>5. CASE SkipChunk
  BY <1>5, ChunksDropped DEF SkipChunk, MonitorInv, Rest
<1>6. CASE Fail
  BY <1>6, ChunksDropped DEF Fail
<1>7. CASE CloseConnection
  BY <1>7, ChunksDropped DEF CloseConnection
<1>8. CASE Draw
  <2>1. Len(rows) \in Nat
    BY DEF MonitorInv, Logged
  <2> QED  BY <1>8, <2>1, OnlyDrawn DEF Draw, serverVars
<1>9. CASE UNCHANGED vars
  BY <1>9, OnlyDrawn DEF vars, serverVars, MonitorInv, Rest
<1> QED
  BY <1>1, <1>2, <1>3, <1>4, <1>5, <1>6, <1>7, <1>8, <1>9 DEF MonitorNext

LEMMA MonitorInvTyped == MonitorInv => MonitorTypeOK
<1> SUFFICES ASSUME MonitorInv PROVE MonitorTypeOK
  OBVIOUS
<1>1. \A i \in DOMAIN stream : stream[i] \in [msg : DOMAIN sent, part : 1 .. MessageWords]
  <2> SUFFICES ASSUME NEW i \in DOMAIN stream
               PROVE  stream[i] \in [msg : DOMAIN sent, part : 1 .. MessageWords]
    OBVIOUS
  <2>1. stream[i] \in StreamWord /\ stream[i].msg <= Len(sent)
    BY DEF MonitorInv, InOrder
  <2>2. DOMAIN sent = 1 .. Len(sent) /\ Len(sent) \in Nat
    BY DEF MonitorInv, Numbering
  <2> QED  BY <2>1, <2>2 DEF StreamWord
<1>2. /\ \A i \in DOMAIN chunks : chunks[i] \in Row \/ chunks[i] = Unknown
      /\ \A i \in DOMAIN rows : rows[i] \in Row
  BY DEF MonitorInv, Logged
<1> QED  BY <1>1, <1>2 DEF MonitorInv, MonitorTypeOK, IInv, Rest

LEMMA MonitorInvGenuine == MonitorInv => RowsGenuine
<1> SUFFICES ASSUME MonitorInv PROVE RowsGenuine
  OBVIOUS
<1>1. /\ rows \in Seq(Row) /\ DOMAIN rows = 1 .. Len(rows) /\ Len(rows) \in Nat
      /\ DOMAIN sent = 1 .. Len(sent)
  BY DEF MonitorInv, Logged, Numbering
<1>2. \A i \in 2 .. Len(rows) : rows[i - 1].ref < rows[i].ref
  BY <1>1 DEF MonitorInv, Logged
<1>3. \A i \in DOMAIN rows : Genuine(rows[i], sent)
  BY <1>1 DEF MonitorInv, Logged
<1>4. \A i \in DOMAIN rows : \E n \in DOMAIN sent : \E j \in Stock :
        LET o == sent[n].orders[j]
        IN  rows[i].ref = o.ref /\ rows[i].stock = o.stock /\ rows[i].delta = o.delta
  <2> SUFFICES ASSUME NEW i \in DOMAIN rows
               PROVE  \E n \in DOMAIN sent : \E j \in Stock :
                        LET o == sent[n].orders[j]
                        IN  rows[i].ref = o.ref /\ rows[i].stock = o.stock /\ rows[i].delta = o.delta
    OBVIOUS
  <2>1. PICK n \in 1 .. Len(sent), j \in Stock :
          /\ rows[i].stock = sent[n].orders[j].stock /\ rows[i].delta = sent[n].orders[j].delta
          /\ rows[i].ref = sent[n].orders[j].ref
    BY <1>3 DEF Genuine
  <2> QED  BY <1>1, <2>1
<1> QED  BY <1>2, <1>4 DEF RowsGenuine

-----------------------------------------------------------------------------
(* The balance of the account.                                             *)

Worth(shares, prices) == [s \in Stock |-> shares[s] * prices[s]]

\* What the loops have added up so far.
Sums ==
  /\ pc = "read" => cash + Total(Worth(holdings, price_vals), Stock) = portfolio_value
  /\ pc = "value" => /\ portfolio_value
                          = cash + Total(Worth(holdings, price_vals), 1 .. stock - 1)
                     /\ total_cost = 0
  /\ pc = "order" => total_cost = Total(Worth(new_holdings, price_vals), 1 .. stock - 1)
  /\ pc = "update" => total_cost = Total(Worth(new_holdings, price_vals), Stock)

Balanced == /\ pc \in {"read", "update"} => stock = 1
            /\ ~ spoilt => Sums

LEMMA WorthType ==
  ASSUME NEW h \in [Stock -> Nat], price_vals \in [Stock -> Prices \cup {1}]
  PROVE  /\ \A s \in Stock : Worth(h, price_vals)[s] \in Int
         /\ \A s \in Stock : Worth(h, price_vals)[s] = h[s] * price_vals[s]
         /\ \A k \in 0 .. NumStocks : 1 .. k \subseteq Stock /\ IsFiniteSet(1 .. k)
                                      /\ Total(Worth(h, price_vals), 1 .. k) \in Int
         /\ IsFiniteSet(Stock) /\ Stock = 1 .. NumStocks
<1>1. NumStocks \in Nat \ {0} /\ Prices \subseteq Nat
  BY AccountAssumption
<1>2. \A s \in Stock : Worth(h, price_vals)[s] = h[s] * price_vals[s]
  BY DEF Worth
<1>3. ASSUME NEW s \in Stock PROVE Worth(h, price_vals)[s] \in Int
  <2>1. price_vals[s] \in Nat
    <3>1. price_vals[s] \in Prices \cup {1}
      OBVIOUS
    <3>2. Prices \cup {1} \subseteq Nat
      BY <1>1
    <3> QED  BY ONLY <3>1, <3>2
  <2>2. h[s] \in Nat
    OBVIOUS
  <2> QED  BY <2>1, <2>2, <1>2, ProductNat
<1>4. ASSUME NEW k \in 0 .. NumStocks
      PROVE  1 .. k \subseteq Stock /\ IsFiniteSet(1 .. k)
             /\ Total(Worth(h, price_vals), 1 .. k) \in Int
  <2>1. 1 .. k \subseteq Stock
    BY <1>1 DEF Stock
  <2>2. IsFiniteSet(1 .. k)
    BY FS_Interval
  <2> QED  BY <2>1, <2>2, <1>3, TotalType
<1>5. IsFiniteSet(Stock) /\ Stock = 1 .. NumStocks
  BY <1>1, FS_Interval DEF Stock
<1> QED  BY <1>2, <1>3, <1>4, <1>5

LEMMA InitBalanced == Init => Balanced
<1> SUFFICES ASSUME Init PROVE Balanced
  OBVIOUS
<1>1. IInv
  BY InitIInv
<1>2. \A s \in Stock : Worth(holdings, price_vals)[s] = 0
  BY DEF Init, Worth
<1>3. IsFiniteSet(Stock)
  BY <1>1, WorthType DEF IInv, TypeOK
<1>4. Total(Worth(holdings, price_vals), Stock) = 0
  BY <1>2, <1>3, TotalOfZeros
<1> QED  BY <1>4, AccountAssumption DEF Init, Balanced, Sums

\* A turn of a loop over the stocks adds one product.
LEMMA AddedUp ==
  ASSUME TypeOK, NEW h \in [Stock -> Nat]
  PROVE  Total(Worth(h, price_vals), 1 .. stock)
           = Total(Worth(h, price_vals), 1 .. stock - 1) + h[stock] * price_vals[stock]
<1>1. stock \in Nat \ {0} /\ stock <= NumStocks
  BY AccountAssumption DEF TypeOK, Stock
<1>2. \A y \in 1 .. stock : y \in Stock
  BY <1>1, AccountAssumption DEF Stock
<1>3. /\ \A s \in Stock : Worth(h, price_vals)[s] \in Int
      /\ Worth(h, price_vals)[stock] = h[stock] * price_vals[stock]
  BY WorthType DEF TypeOK
<1>4. \A y \in 1 .. stock : Worth(h, price_vals)[y] \in Int
  BY <1>2, <1>3
<1> QED  BY <1>1, <1>3, <1>4, TotalUpTo

LEMMA StepBalanced == IInv /\ Balanced /\ [Next]_portfolioVars => Balanced'
<1> SUFFICES ASSUME IInv, Balanced, [Next]_portfolioVars PROVE Balanced'
  OBVIOUS
<1>0. TypeOK /\ spoilt \in BOOLEAN
  BY DEF IInv, TypeOK
<1>7. pc' \in {"read", "update"} => stock' = 1
  BY DEF Next, ReadFrame, AddHolding, SendOrder, Allocate, Update, Step, Balanced,
         portfolioVars, account, call
<1> SUFFICES ASSUME ~ spoilt' PROVE Sums'
  BY <1>7 DEF Balanced
<1>8. ~ spoilt /\ Sums
  BY <1>0 DEF Next, ReadFrame, AddHolding, SendOrder, Allocate, Update, Balanced, portfolioVars
<1> USE <1>8
<1>1. /\ holdings \in [Stock -> Nat] /\ new_holdings \in [Stock -> Nat] /\ stock \in Stock
      /\ price_vals \in [Stock -> Prices \cup {1}]
      /\ cash \in Int /\ portfolio_value \in Int /\ total_cost \in Nat
      /\ stock \in Nat /\ NumStocks \in Nat \ {0} /\ stock >= 1 /\ stock <= NumStocks
      /\ Stock = 1 .. NumStocks
  BY <1>0, AccountAssumption DEF TypeOK, Stock
<1>2. CASE ReadFrame
  <2>1. /\ stock' = 1 /\ pc' = "value" /\ portfolio_value' = cash /\ total_cost' = 0
        /\ UNCHANGED <<holdings, cash>> /\ price_vals' \in [Stock -> Prices]
    BY <1>2 DEF ReadFrame, account, Balanced
  <2>2. 1 .. stock' - 1 = {}
    BY <2>1
  <2>3. Total(Worth(holdings', price_vals'), {}) = 0
    BY TotalEmpty
  <2> QED  BY <1>1, <2>1, <2>2, <2>3 DEF Sums
<1>3. CASE AddHolding
  <2>1. /\ pc = "value" /\ Step("value", "order") /\ total_cost = 0
        /\ portfolio_value' = portfolio_value + holdings[stock] * price_vals[stock]
        /\ UNCHANGED <<holdings, cash, price_vals, new_holdings, total_cost>>
    <3>1. portfolio_value' = portfolio_value + holdings[stock] * price_vals[stock]
      BY <1>0, <1>1, <1>3, PriceType, MultiplyAddFacts DEF AddHolding
    <3> QED  BY <1>3, <3>1 DEF AddHolding, account, Sums
  <2>2. /\ portfolio_value = cash + Total(Worth(holdings, price_vals), 1 .. stock - 1)
        /\ Total(Worth(holdings, price_vals), 1 .. stock)
             = Total(Worth(holdings, price_vals), 1 .. stock - 1)
                 + holdings[stock] * price_vals[stock]
    BY <2>1, <1>0, <1>1, AddedUp DEF Sums
  <2>3. Total(Worth(holdings, price_vals), 1 .. stock - 1) \in Int
    BY <1>1, WorthType
  <2>4. holdings[stock] * price_vals[stock] \in Int
    BY <1>1, PriceType, ProductNat
  <2>5. portfolio_value' = cash + Total(Worth(holdings, price_vals), 1 .. stock)
    BY <2>1, <2>2, <2>3, <2>4, <1>1
  <2>6. CASE stock < NumStocks
    <3>1. pc' = "value" /\ stock' = stock + 1 /\ stock' - 1 = stock
      BY <2>1, <2>6, <1>1 DEF Step
    <3> QED  BY <3>1, <2>1, <2>5 DEF Sums
  <2>7. CASE ~ (stock < NumStocks)
    <3>1. pc' = "order" /\ stock' = 1 /\ 1 .. stock' - 1 = {}
      BY <2>1, <2>7 DEF Step
    <3>2. Total(Worth(new_holdings', price_vals'), {}) = 0
      BY TotalEmpty
    <3> QED  BY <3>1, <3>2, <2>1 DEF Sums
  <2> QED  BY <2>6, <2>7
<1>4. CASE SendOrder
  <2>0. PICK w \in 0 .. left : \E target \in Targets(w) : Allocate(w, target)
    BY <1>4 DEF SendOrder
  <2>1. PICK target \in Targets(w) : Allocate(w, target)
    BY <2>0
  <2>3. target \in Nat /\ price_vals[stock] \in Nat
    BY <2>1, <1>0, <1>1, TargetsBounded, PriceType
  <2>2. /\ pc = "order" /\ Step("order", "update")
        /\ new_holdings' = [new_holdings EXCEPT ![stock] = target]
        /\ total_cost' = total_cost + target * price_vals[stock]
        /\ UNCHANGED price_vals
    <3>1. total_cost' = total_cost + target * price_vals[stock]
      BY <2>1, <2>3, <1>0, <1>1, MultiplyAddFacts DEF Allocate
    <3> QED  BY <2>1, <3>1 DEF Allocate
  <2>4. new_holdings' \in [Stock -> Nat] /\ new_holdings'[stock] = target
        /\ \A s \in Stock : s # stock => new_holdings'[s] = new_holdings[s]
    BY <2>2, <2>3, <1>1
  <2> DEFINE old == Worth(new_holdings, price_vals)
             new == Worth(new_holdings', price_vals)
  <2>5. Total(new, 1 .. stock) = Total(new, 1 .. stock - 1) + target * price_vals[stock]
    BY <2>4, <1>0, AddedUp
  <2>6. stock - 1 \in 0 .. NumStocks
    BY <1>1
  <2>7. /\ 1 .. stock - 1 \subseteq Stock /\ IsFiniteSet(1 .. stock - 1)
        /\ \A s \in Stock : old[s] \in Int /\ new[s] \in Int
        /\ \A s \in Stock : old[s] = new_holdings[s] * price_vals[s]
        /\ \A s \in Stock : new[s] = new_holdings'[s] * price_vals[s]
    BY <2>4, <2>6, <1>1, WorthType
  <2>8. \A s \in 1 .. stock - 1 : s \in Stock /\ s # stock
    BY <1>1
  <2>9. \A s \in 1 .. stock - 1 : old[s] \in Int /\ old[s] = new[s]
    BY <2>4, <2>7, <2>8
  <2> HIDE DEF old, new
  <2>10. Total(old, 1 .. stock - 1) = Total(new, 1 .. stock - 1)
    BY <2>7, <2>9, TotalSame
  <2>11. total_cost = Total(old, 1 .. stock - 1)
    BY <2>2 DEF Sums, old
  <2>12. total_cost' = Total(new, 1 .. stock)
    BY <2>2, <2>5, <2>10, <2>11
  <2>13. CASE stock < NumStocks
    <3>1. pc' = "order" /\ stock' = stock + 1 /\ stock' - 1 = stock
      BY <2>2, <2>13, <1>1 DEF Step
    <3> QED  BY <3>1, <2>2, <2>12 DEF Sums, new
  <2>14. CASE stock = NumStocks
    <3>1. pc' = "update" /\ stock' = 1 /\ 1 .. stock = Stock
      BY <2>2, <2>14, <1>1 DEF Step
    <3> QED  BY <3>1, <2>2, <2>12 DEF Sums, new
  <2> QED  BY <2>13, <2>14, <1>1
<1>5. CASE Update
  <2>1. /\ pc = "update" /\ pc' = "read" /\ holdings' = new_holdings
        /\ cash' = portfolio_value - total_cost /\ stock = 1
        /\ UNCHANGED <<price_vals, portfolio_value, stock>>
    <3>1. portfolio_value - total_cost \in Int
      BY <1>1
    <3>2. cash' = portfolio_value - total_cost
      BY <1>0, <1>5, <3>1, FloatFacts DEF Update
    <3> QED  BY <1>5, <3>2 DEF Update, Balanced
  <2>2. total_cost = Total(Worth(new_holdings, price_vals), Stock)
    BY <2>1 DEF Sums
  <2>3. cash' + total_cost = portfolio_value
    BY <2>1, <1>1
  <2> QED  BY <2>1, <2>2, <2>3 DEF Sums
<1>6. CASE UNCHANGED portfolioVars
  BY <1>6 DEF Sums, portfolioVars, account, call
<1> QED
  BY <1>2, <1>3, <1>4, <1>5, <1>6 DEF Next

LEMMA BalancedIs == Balanced => AccountBalances
<1>1. DOMAIN [s \in Stock |-> holdings[s] * price_vals[s]] = Stock
  OBVIOUS
<1>2. FoldFunction(+, 0, [s \in Stock |-> holdings[s] * price_vals[s]])
        = Total(Worth(holdings, price_vals), Stock)
  BY <1>1 DEF FoldFunction, FoldFunctionOnSet, Total, Worth, MapThenFoldSet
<1> QED  BY <1>2 DEF Balanced, Sums, AccountBalances

\* No step of the monitor touches the account but those of order_gen_axis.
LEMMA MonitorStepsPortfolio ==
  ASSUME [MonitorNext]_vars
  PROVE  [Next]_portfolioVars
<1>1. CASE OtherStep
  BY <1>1 DEF OtherStep, Next
<1>2. CASE OrderStep
  BY <1>2 DEF OrderStep, Next, SendOrder
<1>3. CASE Receive \/ LogRow \/ SkipChunk \/ Fail \/ CloseConnection \/ Draw \/ UNCHANGED vars
  BY <1>3 DEF Receive, LogRow, SkipChunk, Fail, CloseConnection, Draw, vars
<1> QED
  BY <1>1, <1>2, <1>3 DEF MonitorNext

-----------------------------------------------------------------------------
(* What the GUI adds up.                                                   *)

\* Shares of stock s after the first n of the messages.
HeldAfter(messages, n, s) == IF n = 0 THEN 0 ELSE messages[n].held[s]

\* The orders of a message lead from the holdings before to those it is sent with, as
\* long as no weight was NaN; and no message is clean that follows one that is not.
DeltasLead ==
  /\ \A n \in 1 .. Len(sent), s \in Stock : sent[n].clean =>
       sent[n].held[s] = HeldAfter(sent, n - 1, s) + sent[n].orders[s].delta
  /\ \A s \in Stock : (IF pc = "update" THEN new_holdings ELSE holdings)[s]
                        = HeldAfter(sent, Len(sent), s)
  /\ pc = "order" /\ ~ spoilt =>
       \A j \in 1 .. Len(message) : message[j].delta = new_holdings[j] - holdings[j]

CleanFirst ==
  /\ \A n \in 2 .. Len(sent) : sent[n].clean => sent[n - 1].clean
  /\ Len(sent) > 0 /\ ~ spoilt => sent[Len(sent)].clean

\* Each read so far was one message: the rest of the stream begins with the next.
ReadWhole ==
  whole =>
    /\ reads \in Nat /\ reads <= Len(sent)
    /\ Len(stream) = (Len(sent) - reads) * MessageWords
    /\ \A i \in 1 .. Len(stream) :
         (stream[i].msg - (reads + 1)) * MessageWords + stream[i].part = i

Entered == NumStocks - Len(chunks)    \* stocks of the last message that are logged

\* The chunks are its other orders, and the file adds up to what has been logged.
AddsUp ==
  whole /\ thread = "reading" /\ (reads > 0 => sent[reads].clean) =>
    /\ Len(chunks) <= NumStocks
    /\ chunks # <<>> => reads > 0
    /\ \A c \in 1 .. Len(chunks) :
         /\ chunks[c].stock = Entered + c
         /\ chunks[c].delta = sent[reads].orders[Entered + c].delta
    /\ \A s \in Stock :
         Net(rows, s) = IF reads > 0 /\ s > Entered THEN HeldAfter(sent, reads - 1, s)
                        ELSE HeldAfter(sent, reads, s)

AgreeInv == DeltasLead /\ CleanFirst /\ ReadWhole /\ AddsUp

\* The net shares of a log, one row more.
LEMMA NetType ==
  ASSUME NEW log \in Seq(Row), NEW s
  PROVE  Net(log, s) \in Int
<1> DEFINE f == [i \in DOMAIN log |-> IF log[i].stock = s THEN log[i].delta ELSE 0]
<1>1. DOMAIN log = 1 .. Len(log) /\ Len(log) \in Nat
  OBVIOUS
<1>2. \A i \in 1 .. Len(log) : log[i] \in Row
  OBVIOUS
<1>3. \A i \in 1 .. Len(log) : f[i] \in Int
  BY <1>1, <1>2 DEF Row
<1>4. Net(log, s) = Total(f, 1 .. Len(log))
  BY <1>1 DEF Net, FoldFunction, FoldFunctionOnSet, Total, MapThenFoldSet
<1> HIDE DEF f
<1>5. IsFiniteSet(1 .. Len(log))
  BY <1>1, FS_Interval
<1> QED  BY <1>3, <1>4, <1>5, TotalType

LEMMA NetEmpty == \A s : Net(<<>>, s) = 0
<1> SUFFICES ASSUME NEW s PROVE Net(<<>>, s) = 0
  OBVIOUS
<1> DEFINE f == [i \in DOMAIN <<>> |-> IF <<>>[i].stock = s THEN <<>>[i].delta ELSE 0]
<1>1. DOMAIN f = {}
  OBVIOUS
<1>2. Net(<<>>, s) = Total(f, DOMAIN f)
  BY DEF Net, FoldFunction, FoldFunctionOnSet, Total, MapThenFoldSet
<1> HIDE DEF f
<1> QED  BY <1>1, <1>2, TotalEmpty

LEMMA NetAppend ==
  ASSUME NEW log \in Seq(Row), NEW row \in Row, NEW s
  PROVE  Net(Append(log, row), s) = Net(log, s) + (IF row.stock = s THEN row.delta ELSE 0)
<1> DEFINE longer == Append(log, row)
           n == Len(log)
           f == [i \in DOMAIN log |-> IF log[i].stock = s THEN log[i].delta ELSE 0]
           e == [i \in DOMAIN longer |-> IF longer[i].stock = s THEN longer[i].delta ELSE 0]
<1>1. DOMAIN log = 1 .. n /\ n \in Nat /\ DOMAIN longer = 1 .. n + 1
  OBVIOUS
<1>2. \A i \in 1 .. n : log[i] \in Row /\ longer[i] = log[i]
  OBVIOUS
<1>3. longer[n + 1] = row
  OBVIOUS
<1>4. /\ Net(log, s) = Total(f, 1 .. n)
      /\ Net(longer, s) = Total(e, 1 .. n + 1)
  BY <1>1 DEF Net, FoldFunction, FoldFunctionOnSet, Total, MapThenFoldSet
<1> HIDE DEF longer, n
<1>5. \A i \in 1 .. n : f[i] \in Int /\ f[i] = e[i]
  BY <1>1, <1>2 DEF Row
<1>6. e[n + 1] = IF row.stock = s THEN row.delta ELSE 0
  BY <1>1, <1>3
<1>7. e[n + 1] \in Int
  BY <1>6 DEF Row
<1> HIDE DEF f, e
<1>8. Total(f, 1 .. n) = Total(e, 1 .. n)
  <2>1. IsFiniteSet(1 .. n)
    BY <1>1, FS_Interval
  <2> QED  BY <2>1, <1>5, TotalSame
<1>9. \A i \in 1 .. n + 1 : e[i] \in Int
  BY <1>1, <1>5, <1>7
<1>10. Total(e, 1 .. n + 1) = Total(e, 1 .. n) + e[n + 1]
  <2>1. n + 1 \in Nat \ {0} /\ (n + 1) - 1 = n
    BY <1>1
  <2> QED  BY <2>1, <1>9, TotalUpTo
<1> QED  BY <1>4, <1>6, <1>8, <1>10 DEF longer

LEMMA InitAgrees == MonitorInit => AgreeInv
<1> SUFFICES ASSUME MonitorInit PROVE AgreeInv
  OBVIOUS
<1> USE DEF MonitorInit
<1>1. /\ Len(sent) = 0 /\ Len(message) = 0 /\ Len(stream) = 0 /\ Len(chunks) = 0
  OBVIOUS
<1>2. DeltasLead
  BY <1>1 DEF Init, DeltasLead, HeldAfter
<1>3. ReadWhole
  <2>1. MessageWords \in Nat
    BY AccountAssumption, MonitorAssumption, ProductNat DEF MessageWords
  <2> QED  BY <1>1, <2>1 DEF ReadWhole
<1>4. AddsUp
  BY <1>1, NetEmpty, AccountAssumption DEF AddsUp, HeldAfter
<1>5. CleanFirst
  BY <1>1 DEF CleanFirst
<1> QED  BY <1>2, <1>3, <1>4, <1>5 DEF AgreeInv

\* Messages sent later change nothing of the earlier ones.
LEMMA HeldKept ==
  ASSUME Len(sent) \in Nat, NEW n \in 0 .. Len(sent), \A k \in 1 .. Len(sent) : sent'[k] = sent[k]
  PROVE  \A s : HeldAfter(sent', n, s) = HeldAfter(sent, n, s)
BY DEF HeldAfter

LEMMA DeltasLeadKept == MonitorInv /\ DeltasLead /\ [MonitorNext]_vars => DeltasLead'
<1> SUFFICES ASSUME MonitorInv, DeltasLead, [MonitorNext]_vars PROVE DeltasLead'
  OBVIOUS
<1>0. /\ IInv /\ Numbering /\ InOrder /\ sent \in Seq(Message) /\ Len(sent) \in Nat
      /\ Len(message) = IF pc = "order" THEN stock - 1 ELSE 0
  BY DEF MonitorInv, Numbering
<1>1. CASE OtherStep
  <2>1. UNCHANGED <<sent, message>>
    BY <1>1 DEF OtherStep
  <2>2. \A n, s : HeldAfter(sent', n, s) = HeldAfter(sent, n, s)
    BY <2>1 DEF HeldAfter
  <2>3. pc' = "order" => Len(message) = 0
    BY <1>0, <1>1 DEF OtherStep, ReadFrame, AddHolding, Update, Step
  <2>4. (IF pc' = "update" THEN new_holdings' ELSE holdings')
          = (IF pc = "update" THEN new_holdings ELSE holdings)
    BY <1>1 DEF OtherStep, ReadFrame, AddHolding, Update, Step, account
  <2> QED  BY <2>1, <2>2, <2>3, <2>4 DEF DeltasLead
<1>2. CASE OrderStep
  <2>1. /\ TypeOK /\ pc = "order" /\ holdings' = holdings /\ spoilt' = spoilt
        /\ \A s \in Stock : s # stock => new_holdings'[s] = new_holdings[s]
        /\ stock \in 1 .. NumStocks /\ NumStocks \in Nat \ {0}
        /\ \E order, orders : OrderMade(order, orders)
    BY <1>0, <1>2, OrderStepMakes
  <2>2. PICK order, orders : OrderMade(order, orders)
    BY <2>1
  <2>3. /\ ~ spoilt => order.delta = new_holdings'[stock] - holdings[stock]
        /\ Len(orders) = stock /\ orders[stock] = order
        /\ \A j \in 1 .. stock - 1 : orders[j] = message[j]
    BY <2>2 DEF OrderMade
  <2>4. ~ spoilt => \A j \in 1 .. stock : orders[j].delta = new_holdings'[j] - holdings[j]
    <3> SUFFICES ASSUME ~ spoilt, NEW j \in 1 .. stock
                 PROVE  orders[j].delta = new_holdings'[j] - holdings[j]
      OBVIOUS
    <3>1. CASE j = stock
      BY <3>1, <2>3
    <3>2. CASE j \in 1 .. stock - 1
      <4>1. j \in 1 .. Len(message) /\ j \in Stock /\ j # stock
        BY <3>2, <2>1, <1>0 DEF Stock
      <4>2. message[j].delta = new_holdings[j] - holdings[j]
        BY <4>1, <2>1 DEF DeltasLead
      <4> QED  BY <3>2, <4>1, <4>2, <2>1, <2>3
    <3> QED  BY <3>1, <3>2, <2>1
  <2>5. CASE stock < NumStocks
    <3>1. message' = orders /\ sent' = sent /\ pc' = "order"
      BY <2>2, <2>5 DEF OrderMade
    <3>2. \A n, s : HeldAfter(sent', n, s) = HeldAfter(sent, n, s)
      BY <3>1 DEF HeldAfter
    <3> QED  BY <3>1, <3>2, <2>1, <2>3, <2>4 DEF DeltasLead
  <2>6. CASE stock = NumStocks
    <3>1. /\ pc' = "update" /\ message' = <<>> /\ MessageSent(orders)
      BY <2>2, <2>6 DEF OrderMade
    <3>2. /\ Len(sent') = Len(sent) + 1 /\ \A n \in 1 .. Len(sent) : sent'[n] = sent[n]
          /\ sent'[Len(sent) + 1].orders = orders /\ sent'[Len(sent) + 1].held = new_holdings'
          /\ sent'[Len(sent) + 1].clean = ~ spoilt
      BY <3>1 DEF MessageSent
    <3>3. \A n \in 0 .. Len(sent), s \in Stock : HeldAfter(sent', n, s) = HeldAfter(sent, n, s)
      BY <3>2, <1>0, HeldKept
    <3>4. \A s \in Stock : HeldAfter(sent', Len(sent), s) = holdings[s]
      BY <3>3, <2>1, <1>0 DEF DeltasLead
    <3>5. \A s \in Stock : /\ ~ spoilt => new_holdings'[s] = holdings[s] + orders[s].delta
                           /\ HeldAfter(sent', Len(sent) + 1, s) = new_holdings'[s]
      <4>1. ~ spoilt => \A s \in Stock : orders[s].delta = new_holdings'[s] - holdings[s]
        BY <2>4, <2>6 DEF Stock
      <4>2. \A s \in Stock : new_holdings'[s] \in Int /\ holdings[s] \in Int
        <5>1. IInv'
          BY <1>0, <1>2, OrderStepMakes
        <5> QED  BY <5>1, <2>1 DEF IInv, TypeOK
      <4>3. ~ spoilt => \A s \in Stock : new_holdings'[s] = holdings[s] + orders[s].delta
        BY <4>1, <4>2
      <4>4. \A s \in Stock : HeldAfter(sent', Len(sent) + 1, s) = new_holdings'[s]
        BY <3>2, <1>0 DEF HeldAfter
      <4> QED  BY <4>3, <4>4
    <3>6. \A n \in 1 .. Len(sent'), s \in Stock : sent'[n].clean =>
            sent'[n].held[s] = HeldAfter(sent', n - 1, s) + sent'[n].orders[s].delta
      <4> SUFFICES ASSUME NEW n \in 1 .. Len(sent'), NEW s \in Stock, sent'[n].clean
                   PROVE  sent'[n].held[s] = HeldAfter(sent', n - 1, s) + sent'[n].orders[s].delta
        OBVIOUS
      <4>1. CASE n \in 1 .. Len(sent)
        <5>1. n - 1 \in 0 .. Len(sent) /\ sent'[n] = sent[n]
          BY <4>1, <3>2, <1>0
        <5>2. HeldAfter(sent', n - 1, s) = HeldAfter(sent, n - 1, s)
          BY <5>1, <3>3
        <5> QED  BY <4>1, <5>1, <5>2 DEF DeltasLead
      <4>2. CASE n = Len(sent) + 1
        <5>1. n - 1 = Len(sent)
          BY <4>2, <1>0
        <5> QED  BY <4>2, <5>1, <3>2, <3>4, <3>5
      <4> QED  BY <4>1, <4>2, <3>2, <1>0
    <3>7. Len(message') = 0 /\ pc' # "order"
      BY <3>1
    <3> QED  BY <3>1, <3>2, <3>5, <3>6, <3>7 DEF DeltasLead
  <2> QED  BY <2>5, <2>6, <2>1
<1>3. CASE Receive \/ LogRow \/ SkipChunk \/ Fail \/ CloseConnection \/ Draw \/ UNCHANGED vars
  <2>1. UNCHANGED <<portfolioVars, sent, message>>
    BY <1>3 DEF Receive, LogRow, SkipChunk, Fail, CloseConnection, Draw, vars
  <2>2. UNCHANGED <<pc, holdings, new_holdings, spoilt, sent, message>>
    BY <2>1 DEF portfolioVars, account, call
  <2> QED  BY <2>2 DEF DeltasLead, HeldAfter
<1> QED
  BY <1>1, <1>2, <1>3 DEF MonitorNext

LEMMA CleanFirstKept == MonitorInv /\ CleanFirst /\ [MonitorNext]_vars => CleanFirst'
<1> SUFFICES ASSUME MonitorInv, CleanFirst, [MonitorNext]_vars PROVE CleanFirst'
  OBVIOUS
<1>0. /\ IInv /\ Numbering /\ InOrder /\ Len(sent) \in Nat
  BY DEF MonitorInv, Numbering
<1>1. ASSUME sent' = sent, spoilt => spoilt' PROVE CleanFirst'
  BY <1>1 DEF CleanFirst
<1>2. CASE OrderStep
  <2>1. spoilt' = spoilt /\ \E order, orders : OrderMade(order, orders)
    BY <1>0, <1>2, OrderStepMakes
  <2>2. PICK order, orders : OrderMade(order, orders)
    BY <2>1
  <2>3. CASE sent' = sent
    BY <2>1, <2>3, <1>1
  <2>4. CASE MessageSent(orders)
    <3>1. /\ Len(sent') = Len(sent) + 1 /\ \A n \in 1 .. Len(sent) : sent'[n] = sent[n]
          /\ sent'[Len(sent) + 1].clean = ~ spoilt
      BY <2>4 DEF MessageSent
    <3>2. ASSUME NEW n \in 2 .. Len(sent'), sent'[n].clean PROVE sent'[n - 1].clean
      <4>1. n - 1 \in 1 .. Len(sent) /\ sent'[n - 1] = sent[n - 1]
        BY <3>1, <1>0
      <4>2. CASE n \in 2 .. Len(sent)
        BY <3>1, <3>2, <4>1, <4>2 DEF CleanFirst
      <4>3. CASE n = Len(sent) + 1
        <5>1. n - 1 = Len(sent) /\ Len(sent) > 0
          BY <3>1, <4>3, <1>0
        <5>2. ~ spoilt
          BY <3>1, <3>2, <4>3, Zenon
        <5> QED  BY <4>1, <5>1, <5>2 DEF CleanFirst
      <4> QED  BY <4>2, <4>3, <3>1, <1>0
    <3> QED  BY <2>1, <3>1, <3>2 DEF CleanFirst
  <2> QED  BY <2>2, <2>3, <2>4 DEF OrderMade
<1>3. CASE OtherStep
  BY <1>1, <1>3 DEF OtherStep, ReadFrame, AddHolding, Update
<1>4. CASE Receive \/ LogRow \/ SkipChunk \/ Fail \/ CloseConnection \/ Draw \/ UNCHANGED vars
  BY <1>1, <1>4 DEF Receive, LogRow, SkipChunk, Fail, CloseConnection, Draw, vars, portfolioVars
<1> QED
  BY <1>2, <1>3, <1>4 DEF MonitorNext

\* With the place of the words counted from the next message, its own come first.
LEMMA FirstWords ==
  ASSUME ReadWhole, whole, InOrder, Len(sent) \in Nat, MessageWords \in Nat \ {0},
         NEW i \in 1 .. Len(stream), i <= MessageWords
  PROVE  stream[i].msg = reads + 1 /\ stream[i].part = i
<1> DEFINE m == stream[i].msg - (reads + 1)
<1>1. /\ stream[i].msg \in Nat /\ stream[i].part \in 1 .. MessageWords /\ reads \in Nat
      /\ Len(stream) \in Nat
  <2>1. stream[i] \in StreamWord /\ Len(stream) \in Nat
    BY DEF InOrder
  <2> QED  BY <2>1 DEF StreamWord, ReadWhole
<1>2. m \in Int /\ m * MessageWords + stream[i].part = i
  BY <1>1 DEF ReadWhole
<1> HIDE DEF m
<1>3. m = 0
  <2>1. CASE m >= 1
    <3>1. MessageWords * 1 <= MessageWords * m
      BY <2>1, <1>2, Monotone
    <3>2. MessageWords * m = m * MessageWords /\ m * MessageWords \in Int
      BY <1>2
    <3> QED  BY <3>1, <3>2, <1>1, <1>2
  <2>2. CASE m <= -1
    <3>1. MessageWords * m <= MessageWords * (-1)
      BY <2>2, <1>2, Monotone
    <3>2. MessageWords * m = m * MessageWords /\ m * MessageWords \in Int
      BY <1>2
    <3> QED  BY <3>1, <3>2, <1>1, <1>2
  <2> QED  BY <2>1, <2>2, <1>2
<1> QED  BY <1>1, <1>2, <1>3 DEF m

LEMMA ReadWholeKept == MonitorInv /\ ReadWhole /\ [MonitorNext]_vars => ReadWhole'
<1> SUFFICES ASSUME MonitorInv, ReadWhole, [MonitorNext]_vars, whole' PROVE ReadWhole'
  BY DEF ReadWhole
<1>0. /\ IInv /\ Numbering /\ InOrder /\ Len(sent) \in Nat /\ Len(stream) \in Nat
      /\ MessageWords \in Nat \ {0}
  <2>1. NumStocks * OrderWords \in Nat
    BY AccountAssumption, MonitorAssumption, ProductNat
  <2> QED  BY <2>1 DEF MonitorInv, Numbering, InOrder, MessageWords
<1>1. ASSUME UNCHANGED <<whole, reads, sent, stream>> PROVE ReadWhole'
  BY <1>1 DEF ReadWhole
<1>2. CASE OrderStep
  <2>0. stock \in Int /\ NumStocks \in Int
    BY <1>0, <1>2, OrderStepMakes
  <2>1. PICK order, orders : OrderMade(order, orders)
    BY <1>0, <1>2, OrderStepMakes
  <2>2. UNCHANGED <<whole, reads>>
    BY <1>2 DEF OrderStep, serverVars
  <2>3. CASE stock < NumStocks
    <3>1. sent' = sent /\ stream' = stream
      BY <2>0, <2>1, <2>3 DEF OrderMade
    <3> QED  BY <3>1, <2>2, <1>1
  <2>4. CASE stock = NumStocks
    <3>1. /\ Len(sent') = Len(sent) + 1 /\ Len(stream') = Len(stream) + MessageWords
          /\ \A i \in 1 .. Len(stream) : stream'[i] = stream[i]
          /\ \A i \in Len(stream) + 1 .. Len(stream) + MessageWords :
               stream'[i] = [msg |-> Len(sent) + 1, part |-> i - Len(stream)]
      BY <2>1, <2>4, AccountAssumption DEF OrderMade, MessageSent
    <3>2. /\ reads \in Nat /\ reads <= Len(sent)
          /\ Len(stream) = (Len(sent) - reads) * MessageWords
          /\ \A i \in 1 .. Len(stream) :
               (stream[i].msg - (reads + 1)) * MessageWords + stream[i].part = i
      BY <2>2 DEF ReadWhole
    <3>3. Len(stream') = (Len(sent') - reads) * MessageWords
      <4>1. ((Len(sent) + 1) - reads) * MessageWords
              = (Len(sent) - reads) * MessageWords + MessageWords
        BY <3>2, <1>0
      <4> QED  BY <3>1, <3>2, <4>1
    <3>4. ASSUME NEW i \in 1 .. Len(stream')
          PROVE  (stream'[i].msg - (reads + 1)) * MessageWords + stream'[i].part = i
      <4>1. CASE i \in 1 .. Len(stream)
        BY <3>1, <3>2, <4>1
      <4>2. CASE i \in Len(stream) + 1 .. Len(stream) + MessageWords
        <5>1. stream'[i].msg = Len(sent) + 1 /\ stream'[i].part = i - Len(stream)
          <6>1. stream'[i] = [msg |-> Len(sent) + 1, part |-> i - Len(stream)]
            BY <3>1, <4>2
          <6> QED  BY ONLY <6>1
        <5>2. (Len(sent) + 1) - (reads + 1) = Len(sent) - reads
          BY <3>2, <1>0
        <5> QED  BY <3>2, <5>1, <5>2, <1>0
      <4> QED  BY <4>1, <4>2, <3>1, <1>0
    <3> QED  BY <3>1, <3>2, <3>3, <3>4, <2>2, <1>0 DEF ReadWhole
  <2> QED  BY <2>1, <2>3, <2>4 DEF OrderMade
<1>3. CASE Receive
  <2>1. PICK k \in 1 .. Len(stream) :
          /\ stream' = SubSeq(stream, k + 1, Len(stream))
          /\ whole' = (whole /\ k = MessageWords /\ SubSeq(stream, 1, k)[1].part = 1)
    BY <1>3 DEF Receive
  <2>2. whole /\ k = MessageWords /\ reads' = reads + 1 /\ sent' = sent
    BY <2>1, <1>3 DEF Receive
  <2>3. /\ reads \in Nat /\ reads <= Len(sent)
        /\ Len(stream) = (Len(sent) - reads) * MessageWords
        /\ \A i \in 1 .. Len(stream) :
             (stream[i].msg - (reads + 1)) * MessageWords + stream[i].part = i
    BY <2>2 DEF ReadWhole
  <2>4. /\ Len(stream') = Len(stream) - MessageWords
        /\ \A i \in 1 .. Len(stream') : i + MessageWords \in 1 .. Len(stream)
                                        /\ stream'[i] = stream[i + MessageWords]
    <3>1. stream \in Seq(StreamWord)
      BY <1>0 DEF InOrder
    <3> QED  BY <3>1, <2>1, <2>2, <1>0
  <2>5. reads < Len(sent)
    <3>1. CASE reads = Len(sent)
      BY <2>1, <2>3, <3>1, <1>0
    <3> QED  BY <3>1, <2>3, <1>0
  <2>6. Len(stream') = (Len(sent) - (reads + 1)) * MessageWords
    <3>1. (Len(sent) - reads) * MessageWords
            = (Len(sent) - (reads + 1)) * MessageWords + MessageWords
      BY <2>3, <1>0
    <3>2. (Len(sent) - (reads + 1)) * MessageWords \in Int
      BY <2>3, <1>0
    <3> QED  BY <3>1, <3>2, <2>3, <2>4, <1>0
  <2>7. ASSUME NEW i \in 1 .. Len(stream')
        PROVE  (stream'[i].msg - ((reads + 1) + 1)) * MessageWords + stream'[i].part = i
    <3> DEFINE j == i + MessageWords
    <3>1. j \in 1 .. Len(stream) /\ stream'[i] = stream[j]
      BY <2>4
    <3>2. (stream[j].msg - (reads + 1)) * MessageWords + stream[j].part = j
      BY <2>3, <3>1
    <3>3. stream[j].msg \in Nat /\ stream[j].part \in Nat
      <4>1. stream[j] \in StreamWord
        BY <3>1, <1>0 DEF InOrder
      <4> QED  BY <4>1, <1>0 DEF StreamWord
    <3>4. reads \in Nat /\ i \in Nat
      BY <2>3
    <3>5. PICK x \in Nat, p \in Nat : x = stream[j].msg /\ p = stream[j].part
      BY <3>3
    <3>6. (x - (reads + 1)) * MessageWords + p = i + MessageWords
      BY <3>2, <3>5
    <3>7. (x - ((reads + 1) + 1)) * MessageWords + p = i
      BY ONLY <3>4, <3>6, <1>0, x \in Nat, p \in Nat
    <3> QED  BY <3>1, <3>5, <3>7
  <2> QED  BY <2>2, <2>3, <2>5, <2>6, <2>7, <1>0 DEF ReadWhole
<1>4. CASE OtherStep \/ LogRow \/ SkipChunk \/ Fail \/ CloseConnection \/ Draw \/ UNCHANGED vars
  BY <1>1, <1>4 DEF OtherStep, LogRow, SkipChunk, Fail, CloseConnection, Draw, vars, serverVars
<1> QED
  BY <1>2, <1>3, <1>4 DEF MonitorNext

\* A read of one message makes a chunk of each of its orders.
LEMMA WholeDecoded ==
  ASSUME MonitorInv, ReadWhole, whole', Receive
  PROVE  /\ whole /\ reads' = reads + 1 /\ reads \in Nat /\ reads + 1 <= Len(sent)
         /\ Len(chunks') = NumStocks
         /\ \A c \in 1 .. NumStocks : chunks'[c].stock = c
                                      /\ chunks'[c].delta = sent[reads + 1].orders[c].delta
<1>1. /\ Numbering /\ InOrder /\ Len(sent) \in Nat /\ Len(stream) \in Nat
      /\ NumStocks \in Nat \ {0} /\ OrderWords \in Nat \ {0}
      /\ MessageWords \in Nat \ {0} /\ MessageWords = 1 + NumStocks * OrderWords
  <2>1. NumStocks * OrderWords \in Nat
    BY AccountAssumption, MonitorAssumption, ProductNat
  <2> QED  BY <2>1, AccountAssumption, MonitorAssumption
           DEF MonitorInv, Numbering, InOrder, MessageWords
<1>2. PICK k \in 1 .. Len(stream) :
        /\ chunks' = handle_incoming_message(SubSeq(stream, 1, k))
        /\ stream' = SubSeq(stream, k + 1, Len(stream))
        /\ whole' = (whole /\ k = MessageWords /\ SubSeq(stream, 1, k)[1].part = 1)
  BY DEF Receive
<1>3. whole /\ k = MessageWords /\ reads' = reads + 1
  BY <1>2 DEF Receive
<1>4. reads \in Nat /\ reads + 1 <= Len(sent)
  <2>1. reads \in Nat /\ reads <= Len(sent) /\ Len(stream) = (Len(sent) - reads) * MessageWords
    BY <1>3 DEF ReadWhole
  <2>2. CASE reads = Len(sent)
    BY <2>1, <2>2, <1>1, <1>2
  <2> QED  BY <2>1, <2>2, <1>1
<1> DEFINE words == SubSeq(stream, 1, k)
           place(c) == 2 + (c - 1) * OrderWords
<1>5. /\ Len(words) = k /\ \A i \in 1 .. k : words[i] = stream[i]
      /\ \A i \in 1 .. k : stream[i].msg = reads + 1 /\ stream[i].part = i
  <2>1. stream \in Seq(StreamWord)
    BY <1>1 DEF InOrder
  <2>2. Len(words) = k /\ \A i \in 1 .. k : words[i] = stream[i]
    BY <2>1
  <2>3. \A i \in 1 .. k : i \in 1 .. Len(stream) /\ i <= MessageWords
    BY <1>1, <1>3
  <2>4. \A i \in 1 .. k : stream[i].msg = reads + 1 /\ stream[i].part = i
    BY <2>3, <1>1, <1>3, FirstWords
  <2> QED  BY <2>2, <2>4
<1>6. chunks' = [c \in 1 .. NumStocks |-> Decoded(words[place(c)], PortfolioNumber(words))]
  <2>1. chunks' = handle_incoming_message(words) /\ Len(words) = MessageWords
    BY <1>2, <1>3, <1>5
  <2> QED  BY <2>1 DEF handle_incoming_message
<1> HIDE DEF words
<1>7. Len(chunks') = NumStocks
  BY <1>1, <1>6
<1>8. ASSUME NEW c \in 1 .. NumStocks
      PROVE  /\ chunks'[c].stock = c
             /\ chunks'[c].delta = sent[reads + 1].orders[c].delta
  <2> DEFINE v == words[place(c)]
  <2>1. PICK p \in Nat : p = (c - 1) * OrderWords
    BY <1>1, ProductNat
  <2>2. place(c) = 2 + p
    BY <2>1
  <2>3. place(c) \in 1 .. k
    <3>1. OrderWords * (c - 1) <= OrderWords * (NumStocks - 1)
      BY <1>1, Monotone
    <3>2. p + OrderWords <= NumStocks * OrderWords
      BY <2>1, <3>1, <1>1
    <3> QED  BY <2>2, <3>2, <1>1, <1>3
  <2>4. v.msg = reads + 1 /\ v.part - 2 = p
    BY <2>2, <2>3, <1>5
  <2>5. p % OrderWords = 0 /\ p \div OrderWords = c - 1
    <3>1. c - 1 \in Nat /\ 0 \in 0 .. OrderWords - 1 /\ p = (c - 1) * OrderWords + 0
      BY <2>1, <1>1
    <3>2. ((c - 1) * OrderWords + 0) % OrderWords = 0
      BY <3>1, <1>1, ModOfMultiple
    <3>3. ((c - 1) * OrderWords + 0) \div OrderWords = c - 1
      BY <3>1, <1>1, DivOfMultiple
    <3> QED  BY <3>1, <3>2, <3>3
  <2>6. IsOrderStart(v) /\ (v.part - 2) \div OrderWords + 1 = c
    <3>1. v.part > 1
      BY <2>2, <2>3, <1>5
    <3> QED  BY <2>4, <2>5, <3>1 DEF IsOrderStart
  <2>7. chunks'[c] = Decoded(v, PortfolioNumber(words))
    BY <1>6
  <2> HIDE DEF v
  <2> DEFINE o == sent[reads + 1].orders[c]
  <2>8. chunks'[c] = [stock |-> o.stock, delta |-> o.delta, ref |-> o.ref,
                      portfolio |-> PortfolioNumber(words)]
    BY <2>4, <2>6, <2>7 DEF Decoded
  <2>9. o.stock = c
    <3>1. reads + 1 \in 1 .. Len(sent)
      BY <1>1, <1>4
    <3>2. Len(sent[reads + 1].orders) = NumStocks /\ Numbered(sent[reads + 1].orders, reads + 1)
      BY <3>1, <1>1 DEF Numbering
    <3> QED  BY <3>2 DEF Numbered
  <2> HIDE DEF o
  <2>10. chunks'[c].stock = o.stock /\ chunks'[c].delta = o.delta
    BY ONLY <2>8
  <2> QED  BY <2>9, <2>10 DEF o
<1> QED  BY <1>3, <1>4, <1>7, <1>8

LEMMA AddsUpKept == MonitorInv /\ AgreeInv /\ [MonitorNext]_vars => AddsUp'
<1> SUFFICES ASSUME MonitorInv, AgreeInv, [MonitorNext]_vars, whole', thread' = "reading",
                    reads' > 0 => sent'[reads'].clean
             PROVE  AddsUp'
  BY DEF AddsUp
<1>0. /\ IInv /\ Numbering /\ InOrder /\ Len(sent) \in Nat /\ NumStocks \in Nat \ {0}
      /\ rows \in Seq(Row) /\ chunks \in Seq(Row \cup {Unknown}) /\ Len(chunks) \in Nat
      /\ DeltasLead /\ CleanFirst /\ ReadWhole /\ AddsUp
  BY AccountAssumption DEF MonitorInv, Numbering, Logged, AgreeInv
<1>1. /\ whole /\ thread = "reading"
  BY DEF MonitorNext, OtherStep, OrderStep, Receive, LogRow, SkipChunk, Fail, CloseConnection,
         Draw, vars, serverVars
<1>3. reads \in Nat /\ reads <= Len(sent)
  BY <1>0, <1>1 DEF ReadWhole
<1>13. reads > 0 => sent[reads].clean
  <2>1. CASE OrderStep
    <3>1. \A n \in 1 .. Len(sent) : sent'[n] = sent[n]
      <4>1. PICK order, orders : OrderMade(order, orders)
        BY <1>0, <2>1, OrderStepMakes
      <4> QED  BY <4>1 DEF OrderMade, MessageSent
    <3> QED  BY <2>1, <3>1, <1>3 DEF OrderStep, serverVars
  <2>2. CASE Receive
    <3>1. reads' = reads + 1 /\ reads + 1 <= Len(sent) /\ sent' = sent
      <4>1. sent' = sent
        BY <2>2 DEF Receive
      <4> QED  BY <2>2, <4>1, <1>0, WholeDecoded
    <3>2. sent[reads + 1].clean
      BY <3>1, <1>3
    <3>3. reads > 0 => reads + 1 \in 2 .. Len(sent) /\ (reads + 1) - 1 = reads
      BY <3>1, <1>0, <1>3
    <3> QED  BY <3>2, <3>3, <1>0 DEF CleanFirst
  <2>3. CASE OtherStep \/ LogRow \/ SkipChunk \/ Fail \/ CloseConnection \/ Draw \/ UNCHANGED vars
    BY <2>3 DEF OtherStep, LogRow, SkipChunk, Fail, CloseConnection, Draw, vars, serverVars
  <2> QED  BY <2>1, <2>2, <2>3 DEF MonitorNext
<1>2. /\ Len(chunks) <= NumStocks
      /\ chunks # <<>> => reads > 0
      /\ \A c \in 1 .. Len(chunks) :
           /\ chunks[c].stock = Entered + c
           /\ chunks[c].delta = sent[reads].orders[Entered + c].delta
      /\ \A s \in Stock :
           Net(rows, s) = IF reads > 0 /\ s > Entered THEN HeldAfter(sent, reads - 1, s)
                          ELSE HeldAfter(sent, reads, s)
  BY <1>0, <1>1, <1>13 DEF AddsUp
<1>4. \A s \in Stock : s \in Nat \ {0} /\ s <= NumStocks
  BY <1>0 DEF Stock
<1>5. Entered \in Nat
  BY <1>0, <1>2 DEF Entered
<1>6. ASSUME UNCHANGED <<chunks, rows, reads>>,
             \A n \in 1 .. Len(sent) : sent'[n] = sent[n]
      PROVE  AddsUp'
  <2>1. Entered' = Entered
    BY <1>6 DEF Entered
  <2>2. \A s : HeldAfter(sent', reads, s) = HeldAfter(sent, reads, s)
    BY <1>0, <1>3, <1>6 DEF HeldAfter
  <2>3. \A s : reads > 0 => HeldAfter(sent', reads - 1, s) = HeldAfter(sent, reads - 1, s)
    BY <1>0, <1>3, <1>6 DEF HeldAfter
  <2>4. reads > 0 => sent'[reads] = sent[reads]
    BY <1>0, <1>3, <1>6
  <2>5. \A c \in 1 .. Len(chunks) : chunks[c].delta = sent'[reads].orders[Entered + c].delta
    <3>1. Len(chunks) > 0 => chunks # <<>>
      OBVIOUS
    <3> QED  BY <3>1, <2>4, <1>0, <1>2
  <2>6. \A s \in Stock :
          Net(rows, s) = IF reads > 0 /\ s > Entered THEN HeldAfter(sent', reads - 1, s)
                         ELSE HeldAfter(sent', reads, s)
    BY <2>2, <2>3, <1>2
  <2> QED  BY <2>1, <2>5, <2>6, <1>2, <1>6 DEF AddsUp
<1>7. CASE OrderStep
  <2>1. PICK order, orders : OrderMade(order, orders)
    BY <1>0, <1>7, OrderStepMakes
  <2>2. UNCHANGED <<chunks, rows, reads>>
    BY <1>7 DEF OrderStep, serverVars
  <2>3. \A n \in 1 .. Len(sent) : sent'[n] = sent[n]
    BY <2>1 DEF OrderMade, MessageSent
  <2> QED  BY <2>2, <2>3, <1>6
<1>8. CASE Receive
  <2>1. chunks = <<>> /\ UNCHANGED <<rows, sent>>
    BY <1>8 DEF Receive
  <2>2. /\ reads' = reads + 1 /\ Len(chunks') = NumStocks
        /\ \A c \in 1 .. NumStocks : chunks'[c].stock = c
                                     /\ chunks'[c].delta = sent[reads + 1].orders[c].delta
    BY <1>0, <1>8, WholeDecoded
  <2>3. Entered = NumStocks /\ Entered' = 0
    BY <2>1, <2>2, <1>0 DEF Entered
  <2>4. \A s \in Stock : Net(rows, s) = HeldAfter(sent, reads, s)
    <3>1. SUFFICES ASSUME NEW s \in Stock  PROVE Net(rows, s) = HeldAfter(sent, reads, s)
      OBVIOUS
    <3>2. Net(rows, s) = IF reads > 0 /\ s > Entered THEN HeldAfter(sent, reads - 1, s)
                         ELSE HeldAfter(sent, reads, s)
      BY <1>2
    <3>3. ~ (s > Entered)
      BY <2>3, <1>4, <1>0
    <3> QED  BY <3>2, <3>3
  <2>5. \A s \in Stock : s > Entered' /\ reads' - 1 = reads /\ reads' > 0
    BY <2>2, <2>3, <1>3, <1>4
  <2>6. \A c \in 1 .. Len(chunks') :
          /\ chunks'[c].stock = Entered' + c
          /\ chunks'[c].delta = sent[reads'].orders[Entered' + c].delta
    <3>1. \A c \in 1 .. NumStocks : Entered' + c = c
      BY <2>3
    <3> QED  BY <3>1, <2>2
  <2>7. Len(chunks') <= NumStocks /\ reads' > 0
    BY <2>2, <1>0, <1>3
  <2> QED  BY <2>1, <2>4, <2>5, <2>6, <2>7 DEF AddsUp
<1>9. CASE LogRow
  <2>1. /\ chunks # <<>> /\ Head(chunks) # Unknown
        /\ rows' = Append(rows, Head(chunks)) /\ chunks' = Tail(chunks)
        /\ UNCHANGED <<sent, reads>>
    BY <1>9 DEF LogRow
  <2>2. /\ Len(chunks) >= 1 /\ Head(chunks) = chunks[1] /\ Len(chunks') = Len(chunks) - 1
        /\ \A c \in 1 .. Len(chunks) - 1 : chunks'[c] = chunks[c + 1]
    BY <2>1, <1>0
  <2>3. chunks[1] \in Row /\ reads > 0 /\ reads \in 1 .. Len(sent)
    BY <2>1, <2>2, <1>0, <1>2, <1>3
  <2>4. Entered' = Entered + 1
    BY <2>2, <1>0 DEF Entered
  <2>5. /\ chunks[1].stock = Entered + 1
        /\ chunks[1].delta = sent[reads].orders[Entered + 1].delta
    BY <2>2, <1>2
  <2>6. \A s \in Stock : Net(rows', s) = Net(rows, s)
                           + (IF chunks[1].stock = s THEN chunks[1].delta ELSE 0)
    BY <2>1, <2>2, <2>3, <1>0, NetAppend
  <2>7. \A s \in Stock : Net(rows, s) \in Int
    BY <1>0, NetType
  <2>8. ASSUME NEW s \in Stock
        PROVE  Net(rows', s) = IF s > Entered' THEN HeldAfter(sent, reads - 1, s)
                               ELSE HeldAfter(sent, reads, s)
    <3>1. CASE s = Entered + 1
      <4>1. Net(rows, s) = HeldAfter(sent, reads - 1, s) /\ ~ (s > Entered')
        BY <3>1, <2>3, <2>4, <1>2, <1>5
      <4>2. Net(rows', s) = Net(rows, s) + sent[reads].orders[s].delta
        BY <3>1, <2>5, <2>6
      <4>3. HeldAfter(sent, reads, s) = sent[reads].held[s]
        BY <2>3 DEF HeldAfter
      <4>4. sent[reads].held[s] = HeldAfter(sent, reads - 1, s) + sent[reads].orders[s].delta
        BY <2>3, <1>0, <1>13 DEF DeltasLead
      <4> QED  BY <4>1, <4>2, <4>3, <4>4
    <3>2. CASE s # Entered + 1
      <4>1. Net(rows', s) = Net(rows, s)
        BY <3>2, <2>5, <2>6, <2>7
      <4>2. s > Entered' <=> s > Entered
        BY <3>2, <2>4, <1>4, <1>5
      <4> QED  BY <4>1, <4>2, <2>3, <1>2
    <3> QED  BY <3>1, <3>2
  <2>9. ASSUME NEW c \in 1 .. Len(chunks')
        PROVE  /\ chunks'[c].stock = Entered' + c
               /\ chunks'[c].delta = sent[reads].orders[Entered' + c].delta
    <3>1. c + 1 \in 1 .. Len(chunks) /\ chunks'[c] = chunks[c + 1]
      BY <2>2, <1>0
    <3>2. Entered' + c = Entered + (c + 1)
      BY <2>4, <1>5
    <3> QED  BY <3>1, <3>2, <1>2
  <2>10. Len(chunks') <= NumStocks
    BY <2>2, <1>0, <1>2
  <2> QED  BY <2>1, <2>3, <2>8, <2>9, <2>10 DEF AddsUp
<1>10. CASE SkipChunk
  <2>1. chunks # <<>> /\ Head(chunks) = Unknown
    BY <1>10 DEF SkipChunk
  <2>2. Len(chunks) >= 1 /\ chunks[1] = Unknown
    BY <2>1, <1>0
  <2>3. chunks[1].stock = Entered + 1
    BY <2>2, <1>0, <1>2
  <2>4. Unknown.stock = 0
    BY DEF Unknown
  <2> QED  BY <2>2, <2>3, <2>4, <1>5
<1>11. CASE OtherStep \/ Draw \/ UNCHANGED vars
  BY <1>6, <1>11 DEF OtherStep, Draw, vars, serverVars
<1>12. CASE Fail \/ CloseConnection
  BY <1>12 DEF Fail, CloseConnection
<1> QED
  BY <1>7, <1>8, <1>9, <1>10, <1>11, <1>12 DEF MonitorNext

LEMMA AddsUpAgrees == MonitorInv /\ AgreeInv => MonitorAgrees
<1> SUFFICES ASSUME MonitorInv, AgreeInv, whole, chunks = <<>>, reads > 0, thread = "reading",
                    sent[reads].clean, NEW s \in Stock
             PROVE  Net(rows, s) = sent[reads].held[s]
  BY DEF MonitorAgrees
<1>1. Entered = NumStocks /\ s <= NumStocks /\ s \in Nat /\ NumStocks \in Nat
  <2>1. Len(chunks) = 0
    OBVIOUS
  <2> QED  BY <2>1, AccountAssumption DEF Entered, Stock
<1>2. Net(rows, s) = HeldAfter(sent, reads, s)
  BY <1>1 DEF AgreeInv, AddsUp
<1> QED  BY <1>2 DEF HeldAfter

\* The variables of the order generation keep their types, loop variable included,
\* and every target is a number of shares.
THEOREM PortfolioTypeCorrect == Spec => []TypeOK
<1>1. IInv => TypeOK
  BY DEF IInv
<1> QED
  BY InitIInv, NextKeeps, <1>1, PTL DEF Spec

\* The account never goes short of cash, for any number of stocks, any prices and
\* any weights that add up to at most 1, unless the weights of a frame were NaN.
THEOREM CashCovered == Spec => []CashNeverNegative
<1>1. IInv => CashNeverNegative
  BY DEF IInv, Covered, CashNeverNegative
<1> QED
  BY InitIInv, NextKeeps, <1>1, PTL DEF Spec

\* Everything between the board and the GUI keeps its type, for any number of stocks
\* and words in an order, and any pieces that the messages are read in.
THEOREM MonitorTyped == MonitorSpec => []MonitorTypeOK
<1> QED
  BY MonitorInitInv, MonitorNextKeeps, MonitorInvTyped, PTL DEF MonitorSpec

\* However messages are joined and cut on the way to handle_incoming_message, the CSV
\* file holds only orders that were sent, each at most once, in the order of sending.
THEOREM FileIsGenuine == MonitorSpec => []RowsGenuine
<1> QED
  BY MonitorInitInv, MonitorNextKeeps, MonitorInvGenuine, PTL DEF MonitorSpec

\* The account balances, for any number of stocks and any prices and weights, until a
\* weight is NaN: after each call cash and shares are worth the portfolio value that
\* it has reported.
THEOREM BooksBalance == MonitorSpec => []AccountBalances
<1>1. MonitorInit => IInv /\ Balanced
  BY InitIInv, InitBalanced DEF MonitorInit
<1>2. (IInv /\ Balanced) /\ [MonitorNext]_vars => (IInv /\ Balanced)'
  BY MonitorStepsPortfolio, NextKeeps, StepBalanced
<1> QED
  BY <1>1, <1>2, BalancedIs, PTL DEF MonitorSpec

\* For any number of stocks: as long as each read of the server returns one message
\* and no weight was NaN, the net shares that GUI.py adds up from the file are those
\* that the board held after the last message read.
THEOREM GuiAgrees == MonitorSpec => []MonitorAgrees
<1>1. MonitorInit => MonitorInv /\ AgreeInv
  BY MonitorInitInv, InitAgrees
<1>2. (MonitorInv /\ AgreeInv) /\ [MonitorNext]_vars => (MonitorInv /\ AgreeInv)'
  BY MonitorNextKeeps, DeltasLeadKept, CleanFirstKept, ReadWholeKept, AddsUpKept DEF AgreeInv
<1> QED
  BY <1>1, <1>2, AddsUpAgrees, PTL DEF MonitorSpec
=============================================================================
