---------------------------- MODULE OrderPerFrame ----------------------------
(***************************************************************************)
(* What the blocks between the order book and the network promise: every   *)
(* frame of the book becomes one order message, in the order of            *)
(* publication, except the frames that the update counters number 0, which *)
(* have no previous price to compare with; and no more than Window frames  *)
(* are on the way.  Once a frame has been given up, the promise is void.   *)
(***************************************************************************)
EXTENDS Integers

CONSTANTS
  CounterSize,  \* 2^32, the values of the two num_updates counters
  Window        \* frames published and not yet ordered, at most

VARIABLES
  published,    \* number of the frame to be published next
  ordered,      \* number of the frame ordered last
  faulty        \* a frame has been given up

Frame == 0 .. CounterSize - 1
Distance(a, b) == (b - a) % CounterSize
Following(f) == (f + 1) % CounterSize

\* The frame to be ordered next: frame 0 is never ordered.
Due == IF Following(ordered) = 0 THEN 1 ELSE Following(ordered)

Init == published = 0 /\ ordered = 0 /\ faulty = FALSE

Publish ==
  /\ Distance(ordered, published) < Window
  /\ published' = Following(published)
  /\ UNCHANGED <<ordered, faulty>>

Order ==
  /\ Distance(ordered, Due) < Distance(ordered, published)
  /\ ordered' = Due
  /\ UNCHANGED <<published, faulty>>

GiveUp ==
  /\ ~ faulty /\ faulty' = TRUE
  /\ UNCHANGED <<published, ordered>>

Next == (~ faulty /\ (Publish \/ Order)) \/ GiveUp \/ (faulty /\ faulty')

\* What may happen, and that a frame that can be ordered is.
Safety == Init /\ [][Next]_<<published, ordered, faulty>>
Spec == Safety /\ WF_<<published, ordered, faulty>>(~ faulty /\ Order)
=============================================================================
