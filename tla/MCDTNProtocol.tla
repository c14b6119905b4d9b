---------------------------- MODULE MCDTNProtocol ----------------------------
(* Small instances of DTNProtocol for TLC: users of a kind are alike.      *)
EXTENDS DTNProtocol, TLC

Users == Permutations(User) \cup Permutations(AddUser)
==============================================================================
