---------------------------- MODULE MCSarFiling -----------------------------
(* Instances of SarFiling for TLC: the keys of the clients are alike.      *)
EXTENDS SarFiling, TLC

KeySymmetry == Permutations(Key)
=============================================================================
