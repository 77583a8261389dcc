--------------------------- MODULE MCClientFraming ---------------------------
(***************************************************************************)
(* Instances of ClientFraming: four messages of one to three bytes after   *)
(* the length, cut in every way.                                           *)
(***************************************************************************)
EXTENDS ClientFraming

MCStart == <<0, 4, 7, 12, 16>>
=============================================================================
