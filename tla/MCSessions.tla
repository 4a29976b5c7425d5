----------------------------- MODULE MCSessions -----------------------------
(* Instances of Sessions for TLC. *)
EXTENDS Sessions, TLC

SessionSymmetry ==
  Permutations(Clients) \cup Permutations(Tokens) \cup Permutations(Links)
    \cup Permutations(Passwords) \cup Permutations(Users)
=============================================================================
