---------------------------- MODULE MCMailOutbox ----------------------------
(* Instances of MailOutbox for TLC. *)
EXTENDS MailOutbox, TLC

WorkerSymmetry == Permutations(Workers)
=============================================================================
