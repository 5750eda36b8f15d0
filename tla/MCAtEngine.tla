----------------------------- MODULE MCAtEngine -----------------------------
(***************************************************************************)
(* AtEngine with a queue of two commands, which three commands make wrap,  *)
(* a pool of one line and two information lines per command, a receive     *)
(* buffer of two lines and four nested calls: a callback that runs inside  *)
(* at_reset inside a URC handler inside at_process. One command is an SMS, *)
(* in the safety runs with a plain command before it and one after it.     *)
(***************************************************************************)
EXTENDS AtEngine
=============================================================================
