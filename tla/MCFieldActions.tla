--------------------------- MODULE MCFieldActions ---------------------------
(***************************************************************************)
(* A small instance of FieldActions: a text of three characters entered in a  *)
(* field that may hold another, and an element with none, one or two        *)
(* ancestors that can scroll.                                               *)
(***************************************************************************)
EXTENDS FieldActions

MCText == <<"a", "b", "a">>
MCBefore == {<<>>, <<"x">>}
MCRooms == {<<>>, <<0, 4, 2>>, <<3, 4>>, [k \in 1..12 |-> IF k > 10 THEN 5 ELSE 0]}
=============================================================================
