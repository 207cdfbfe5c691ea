------------------------------ MODULE MCIngest ------------------------------
(***************************************************************************)
(* The ingest consumer with good results (g1) and undecodable ones (b1).   *)
(***************************************************************************)
EXTENDS Ingest
=============================================================================
