---------------------------- MODULE MCSearchIndex ----------------------------
(* Two documents, either of which may lie under the other, and one            *)
(* conversation of one message.  The documents are interchangeable.           *)
EXTENDS SearchIndex, TLC

Symmetry == Permutations(Documents)
=============================================================================
