----------------------------- MODULE MCRegistry -----------------------------
(* A function, a class and one derived from it, two bound methods of one     *)
(* function, a built-in and a callable that takes ctx by position.            *)
EXTENDS Registry

MCCallables == {"fn", "base", "derived", "bound1", "bound2", "builtin", "pos"}
MCHolder ==
  [c \in MCCallables |-> IF c \in {"bound1", "bound2"} THEN "method" ELSE c]
MCHolders == {MCHolder[c] : c \in MCCallables}
MCBase == [h \in MCHolders |-> IF h = "derived" THEN "base" ELSE "object"]
MCOwnName ==
  [c \in MCCallables |->
     CASE c \in {"fn", "pos"} -> 1 [] c \in {"base", "builtin"} -> 2 [] OTHER -> 3]
=============================================================================
