----------------------------- MODULE MCSettings -----------------------------
(* Instances of Settings for TLC. *)
EXTENDS Settings, TLC

SettingsSymmetry ==
  Permutations(Processes) \cup Permutations(Requests) \cup Permutations(Icons)
    \cup Permutations(Servers \ Anonymous)
=============================================================================
