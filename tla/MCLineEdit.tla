----------------------------- MODULE MCLineEdit -----------------------------
(***************************************************************************)
(* An instance of LineEdit for TLC: a prompt of two columns, and terminals *)
(* from one that is narrower to one that shows the longest line.           *)
(***************************************************************************)
EXTENDS LineEdit

CONSTANTS a

MCPlainLines == {<<>>, <<a>>, <<a, a>>}
=============================================================================
