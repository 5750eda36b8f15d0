------------------------------ MODULE MCLineFsm -----------------------------
(***************************************************************************)
(* LineFsm with a buffer of four bytes (three and the NUL) and lines of up *)
(* to six bytes: overlong lines and every placement of CRs, spaces and '>' *)
(* in a line.                                                              *)
(***************************************************************************)
EXTENDS LineFsm
=============================================================================
