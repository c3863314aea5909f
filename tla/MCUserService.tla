--------------------------- MODULE MCUserService ---------------------------
(* Small instances of UserService.                                         *)
EXTENDS UserService, TLC

CONSTANT s1

RequestSymmetry == Permutations(Requests)
=============================================================================
