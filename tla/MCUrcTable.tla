----------------------------- MODULE MCUrcTable -----------------------------
(***************************************************************************)
(* UrcTable with three slots and prefixes of up to two stored characters:  *)
(* the empty one, which every line starts with, one that is a prefix of    *)
(* another, and one too long for its field, which is stored as another.    *)
(* There are more different prefixes than slots.                           *)
(***************************************************************************)
EXTENDS UrcTable

MCNames == {<<>>, <<"a">>, <<"b">>, <<"a", "b">>, <<"a", "b", "a">>}
MCLines == {<<"a">>, <<"b">>, <<"a", "a">>, <<"a", "b">>, <<"a", "b", "b">>}
=============================================================================
