----------------------------- MODULE MCTakeover -----------------------------
(* Small instances of Takeover for TLC. *)
EXTENDS Takeover

CONSTANTS c1, c2, c3, window

ThreeCopies == {c1, c2, c3}
OneUnnamed == {c2}
OnePanel == {window}
CopiesOrPanel == {{c1, c2, c3}, {c1, c2, window}}
=============================================================================
