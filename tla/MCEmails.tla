------------------------------ MODULE MCEmails ------------------------------
(* Instances of Emails for TLC. *)
EXTENDS Emails, TLC

EmailsSymmetry ==
  Permutations(Users) \cup Permutations(Invitations) \cup Permutations(Addresses)
    \cup Permutations(Transactions)
=============================================================================
