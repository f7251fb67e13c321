------------------------------ MODULE MCTables ------------------------------
(***************************************************************************)
(* Model checking Tables: every file of up to MaxLines lines drawn from a  *)
(* few points, lines that are no points, points of two, three and four     *)
(* fields, with and without a header.                                      *)
(***************************************************************************)
EXTENDS Tables

Line(f, d, r, w) == [fields |-> f, d |-> d, r |-> r, w |-> w]
MCLines == { Line(0, 0, 0, 0), Line(2, 1, 5, 0), Line(2, 3, 9, 0), Line(2, 4, 6, 0),
             Line(4, 1, 5, 7), Line(4, 3, 9, 9), Line(4, 4, 6, 2) }

=============================================================================
