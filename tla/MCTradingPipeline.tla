-------------------------- MODULE MCTradingPipeline --------------------------
(***************************************************************************)
(* Instances of TradingPipeline.  Two stocks, short frames and messages,   *)
(* and streams of one word, so that every block can block on each of its   *)
(* streams; counters that run round within the run.                        *)
(***************************************************************************)
EXTENDS TradingPipeline
=============================================================================
