---------------------------- MODULE MCAuthStore ----------------------------
(* Instances of AuthStore for TLC. *)
EXTENDS AuthStore, TLC

\* Sound: nothing distinguishes one code, one client or one audience from another.
Symmetry == Permutations(Families) \cup Permutations(Clients) \cup Permutations(Audiences)
=============================================================================
