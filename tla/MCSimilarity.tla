---------------------------- MODULE MCSimilarity -----------------------------
(***************************************************************************)
(* An instance of Similarity with one or two callers and two events, of    *)
(* which either may be indexed again.                                      *)
(***************************************************************************)
EXTENDS Similarity

CONSTANTS c1, c2, e1, e2

=============================================================================
