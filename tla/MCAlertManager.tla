--------------------------- MODULE MCAlertManager ---------------------------
(* AlertManager for TLC: keys that return, with another one in between. *)
EXTENDS AlertManager

Repeating == [r \in Records |-> IF r \in {2, 5} THEN "other" ELSE "rule|group"]
=============================================================================
