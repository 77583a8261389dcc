----------------------------- MODULE MCFeedBook -----------------------------
(***************************************************************************)
(* Instances of FeedBook and SoftwareBook: two stocks of four levels,      *)
(* MaxRef adds of which the last may be past the order list.               *)
(***************************************************************************)
EXTENDS SoftwareBook

\* As in config.csv, one range starts on a tick and one does not: the lowest price of
\* stock 0 is snapped below its range.  Both end past the levels, where the book
\* clamps.
MCTickSize == [s \in Stock |-> 2]
MCMinPrice == [s \in Stock |-> IF s = 0 THEN 5 ELSE 4]
MCMaxPrice == [s \in Stock |-> MinPrice[s] + TickSize[s] * (MaxLevels + 1)]
MCRawPrices == [s \in Stock |-> IF s = 0 THEN {1, 8, 15} ELSE {7}]
=============================================================================
