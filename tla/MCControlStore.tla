--------------------------- MODULE MCControlStore ---------------------------
(* Instances of ControlStore for TLC. *)
EXTENDS ControlStore, FiniteSetsExt, TLC

CONSTANT big  \* an answer longer than the others

\* The length of a record, and of a set of records.
Length(rec) == IF rec.answer = big THEN 5 ELSE 2

MCSize(s) == FoldSet(LAMBDA r, sum : sum + Length(s[r]), 0, {r \in Requests : s[r] # None})

\* Sound for the safety runs: nothing distinguishes one request, one tuple
\* or one canceller from another.
Symmetry == Permutations(Requests) \cup Permutations(Tuples) \cup Permutations(Cancellers)
=============================================================================
