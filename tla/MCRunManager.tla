---------------------------- MODULE MCRunManager ----------------------------
(* Small instances of RunManager.                                          *)
EXTENDS RunManager

CONSTANTS c1, c2, s1    \* model values

=============================================================================
