--------------------------- MODULE MCRateLimiter ---------------------------
(* Instances of RateLimiter for TLC. *)
EXTENDS RateLimiter, TLC

RequestSymmetry == Permutations(Requests)

(* Two accounts behind one source, two recipients for one sender.          *)
Identities ==
  [k \in Kinds |-> CASE k \in {"email", "recipient"} -> {"i", "j"} [] OTHER -> {"i"}]

(* One token in an e-mail or recipient bucket, two in the shared ones.     *)
Defaults ==
  [k \in Kinds |->
    [capacity |-> IF k \in {"email", "recipient"} THEN 1 ELSE 2,
     refill |-> IF k \in {"ip", "actor"} THEN 2 ELSE 1]]

(* Nothing set; everything slower and smaller; a value that is no number;  *)
(* a capacity whose retention is no duration.                              *)
Set(capacity, refill) == [k \in Kinds |-> [capacity |-> capacity, refill |-> refill]]
Variables == {Set(Unset, Unset), Set(1, 5), Set(Unparsable, Unset), Set(7, 2)}
=============================================================================
