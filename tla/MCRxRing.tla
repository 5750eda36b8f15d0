------------------------------ MODULE MCRxRing ------------------------------
(***************************************************************************)
(* RxRing with a ring of four slots and indices of eight values: the       *)
(* indices wrap, and the slots wrap twice for each wrap of an index.       *)
(***************************************************************************)
EXTENDS RxRing
=============================================================================
