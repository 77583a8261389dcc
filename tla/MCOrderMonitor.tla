--------------------------- MODULE MCOrderMonitor ---------------------------
(***************************************************************************)
(* OrderMonitor with two stocks whose prices rise and fall, and an account *)
(* that cannot buy a whole number of shares.  A singular matrix leaves any *)
(* number of shares, enough for the amounts that follow to be rounded.     *)
(***************************************************************************)
EXTENDS OrderMonitor
=============================================================================
