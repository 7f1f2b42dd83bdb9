---------------------------- MODULE MCIBExecution ----------------------------
(***************************************************************************)
(* A finite instance of the gateway of Interactive Brokers, with the laws  *)
(* of the conversions it uses.                                             *)
(***************************************************************************)
EXTENDS IBExecution, IBMessages
=============================================================================
