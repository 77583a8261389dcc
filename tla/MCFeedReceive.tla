---------------------------- MODULE MCFeedReceive ----------------------------
(***************************************************************************)
(* Instances of FeedReceive.  A window of several segments, over a feed    *)
(* that is longer than the window, lets queued segments overlap, contain   *)
(* and adjoin each other; the window is smaller than two of the largest    *)
(* segments and its half smaller than one, as 2048 and 1460 are.           *)
(***************************************************************************)
EXTENDS FeedReceive
=============================================================================
