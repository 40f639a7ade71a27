---------------------------- MODULE MCQuestions ----------------------------
(* Values for the constants of Questions that a configuration cannot hold. *)
EXTENDS Questions

\* The table of dnsblast.h, its types in their order, with small weights.
Table6 ==
  << [type |-> 1, weight |-> 3], [type |-> 12, weight |-> 3],
     [type |-> 6, weight |-> 1], [type |-> 15, weight |-> 1],
     [type |-> 16, weight |-> 1], [type |-> 28, weight |-> 2] >>
=============================================================================
