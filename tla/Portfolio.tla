------------------------------ MODULE Portfolio ------------------------------
(***************************************************************************)
(* order_gen_axis: the account behind the orders.  A call reads the prices *)
(* and the weights of a frame, values the account, and in one loop over    *)
(* the stocks works out the shares to hold, sends the order that takes the *)
(* account there, and adds up the cost; then it moves to the new holdings. *)
(*                                                                         *)
(* Money is in units of 1/10000 dollar, weights in parts of WeightUnit;    *)
(* the code uses float.  The weights of a frame add up to at most          *)
(* WeightUnit, as qr_decomp_lin_solv_axis normalises them, and each is     *)
(* chosen when it is used; or, after a division by zero there, all of them *)
(* are NaN.  Conversion of a NaN, or of a negative number, to unsigned is  *)
(* undefined: Garbage is what the build may make of it.                    *)
(*                                                                         *)
(* Amounts are exact until then.  What a conversion of NaN leaves may be   *)
(* thousands of millions of shares, beside which a float no longer shows   *)
(* the cash: from then on every result is off by up to one part in Exact.  *)
(***************************************************************************)
EXTENDS Integers

CONSTANTS
  NumStocks,    \* NUM_STOCKS
  WeightUnit,   \* the weight 1.0
  Prices,       \* market prices; not 0, as the book's empty rows have quantity 1
  InitialCash,
  Garbage,      \* results of an undefined conversion
  Exact,        \* 2^24: a float rounds to that many parts
  NaNPossible,  \* BOOLEAN: the covariance matrix may be singular
  MaxFrames     \* bound: frames that arrive

ASSUME AccountAssumption ==
  /\ NumStocks \in Nat \ {0} /\ WeightUnit \in Nat \ {0}
  /\ Prices \subseteq Nat \ {0}
  /\ InitialCash \in Nat /\ Garbage \subseteq Nat /\ Exact \in Nat \ {0}
  /\ NaNPossible \in BOOLEAN /\ MaxFrames \in Nat

VARIABLES
  holdings, cash, userRefNum,   \* the static variables
  price_vals, portfolio_value, new_holdings, total_cost,   \* of the call
  nan,        \* the weights of this call are NaN
  left,       \* what its remaining weights may add up to
  pc, stock,  \* where the call stands, and its loop variable
  frames,     \* calls begun
  spoilt      \* history: some call's weights were NaN

account == <<holdings, cash, userRefNum>>
call == <<price_vals, portfolio_value, new_holdings, total_cost, nan, left, pc, stock>>
portfolioVars == <<account, call, frames, spoilt>>

Stock == 1 .. NumStocks

TypeOK ==
  /\ holdings \in [Stock -> Nat] /\ new_holdings \in [Stock -> Nat]
  /\ cash \in Int /\ portfolio_value \in Int /\ total_cost \in Nat
  /\ userRefNum \in Nat
  /\ price_vals \in [Stock -> Prices \cup {1}]
  /\ nan \in BOOLEAN /\ spoilt \in BOOLEAN
  /\ left \in 0 .. WeightUnit
  /\ pc \in {"read", "value", "order", "update"}
  /\ stock \in Stock
  /\ frames \in 0 .. MaxFrames

-----------------------------------------------------------------------------
(* Numbers.                                                                *)

Magnitude(x) == IF x < 0 THEN - x ELSE x

\* What a float may make of the number x.
Float(x) ==
  LET error == IF spoilt THEN Magnitude(x) \div Exact ELSE 0
  IN  x - error .. x + error

\* x plus the product of a and b; both results are floats.
MultiplyAdd(x, a, b) == UNION {Float(x + product) : product \in Float(a * b)}

-----------------------------------------------------------------------------
(* A call.                                                                 *)

\* Mutant: the loop runs past the last stock.
Step_long(here, there) ==
  IF stock <= NumStocks THEN pc' = here /\ stock' = stock + 1
  ELSE pc' = there /\ stock' = 1

\* Next stock of the loop that stands at place here, or on to place there.
Step(here, there) ==
  IF stock < NumStocks THEN pc' = here /\ stock' = stock + 1
  ELSE pc' = there /\ stock' = 1

\* Prices and weights are read.
ReadFrame ==
  /\ pc = "read" /\ frames < MaxFrames
  /\ price_vals' \in [Stock -> Prices]
  /\ nan' \in BOOLEAN /\ (nan' => NaNPossible)
  /\ spoilt' = (spoilt \/ nan')
  /\ portfolio_value' = cash /\ total_cost' = 0 /\ left' = WeightUnit
  /\ pc' = "value" /\ frames' = frames + 1
  /\ UNCHANGED <<account, new_holdings, stock>>

AddHolding ==
  /\ pc = "value" /\ Step("value", "order")
  /\ portfolio_value' \in MultiplyAdd(portfolio_value, holdings[stock], price_vals[stock])
  /\ UNCHANGED <<account, price_vals, new_holdings, total_cost, nan, left, frames, spoilt>>

\* Mutant: shares are rounded up.
Targets_up(w) ==
  IF nan \/ portfolio_value < 0 THEN Garbage
  ELSE {(w * portfolio_value + WeightUnit * price_vals[stock] - 1)
          \div (WeightUnit * price_vals[stock])}

\* target_shares, as new_holdings takes it: the allocation divided by the price, cut
\* to a whole number.  The quotient of a spoilt account may be too large for an
\* unsigned.
Targets(w) ==
  IF nan \/ portfolio_value < 0 THEN Garbage
  ELSE Float((w * portfolio_value) \div (WeightUnit * price_vals[stock]))
         \cup {g \in Garbage : spoilt}

\* delta, by way of int, which does not hold all that unsigned does.
Deltas(target) ==
  {target - holdings[stock]} \cup {- g : g \in {n \in Garbage : spoilt}}

\* One order: delta is positive for side B, negative for S and 0 for N.
OrderFor(delta) == [stock |-> stock, delta |-> delta, ref |-> userRefNum]

\* Mutant: one reference number for the orders of a frame.
Allocate_ref_per_frame(w, target) ==
  /\ pc = "order" /\ Step("order", "update")
  /\ new_holdings' = [new_holdings EXCEPT ![stock] = target]
  /\ total_cost' \in MultiplyAdd(total_cost, target, price_vals[stock])
  /\ left' = left - w
  /\ userRefNum' = IF stock < NumStocks THEN userRefNum ELSE userRefNum + 1
  /\ UNCHANGED <<holdings, cash, price_vals, portfolio_value, nan, frames, spoilt>>

Allocate(w, target) ==
  /\ pc = "order" /\ Step("order", "update")
  /\ new_holdings' = [new_holdings EXCEPT ![stock] = target]
  /\ total_cost' \in MultiplyAdd(total_cost, target, price_vals[stock])
  /\ left' = left - w
  /\ userRefNum' = userRefNum + 1
  /\ UNCHANGED <<holdings, cash, price_vals, portfolio_value, nan, frames, spoilt>>

\* Mutant: the cash is lowered by the cost of all shares, those held included.
Update_from_cash ==
  /\ pc = "update" /\ pc' = "read"
  /\ holdings' = new_holdings
  /\ cash' \in Float(cash - total_cost)
  /\ UNCHANGED <<userRefNum, price_vals, portfolio_value, new_holdings, total_cost,
                 nan, left, stock, frames, spoilt>>

Update ==
  /\ pc = "update" /\ pc' = "read"
  /\ holdings' = new_holdings
  /\ cash' \in Float(portfolio_value - total_cost)
  /\ UNCHANGED <<userRefNum, price_vals, portfolio_value, new_holdings, total_cost,
                 nan, left, stock, frames, spoilt>>

Init ==
  /\ holdings = [s \in Stock |-> 0] /\ cash = InitialCash /\ userRefNum = 1
  /\ price_vals = [s \in Stock |-> 1]
  /\ new_holdings = [s \in Stock |-> 0]
  /\ portfolio_value = InitialCash /\ total_cost = 0
  /\ nan = FALSE /\ left = WeightUnit /\ spoilt = FALSE
  /\ pc = "read" /\ stock = 1 /\ frames = 0

SendOrder == \E w \in 0 .. left : \E target \in Targets(w) : Allocate(w, target)

Next == ReadFrame \/ AddHolding \/ SendOrder \/ Update

Spec == Init /\ [][Next]_portfolioVars

-----------------------------------------------------------------------------
(* Properties.                                                             *)

\* The account never spends money it does not have, however prices move and
\* shares are rounded, as long as no covariance matrix was singular.
CashNeverNegative == ~ spoilt => cash >= 0
=============================================================================
