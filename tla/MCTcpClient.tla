----------------------------- MODULE MCTcpClient -----------------------------
(***************************************************************************)
(* Instances of TcpClient.  The smallest numbers that let everything       *)
(* happen: a send buffer that the orders overfill, a retransmission at the *)
(* first tick, and at least one retransmission before giving up.           *)
(***************************************************************************)
EXTENDS TcpClient
=============================================================================
