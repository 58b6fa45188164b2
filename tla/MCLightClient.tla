---------------------------- MODULE MCLightClient ----------------------------
(***************************************************************************)
(* A small light client: one thread beside the caller's, one key to import,*)
(* a right and a wrong password, which are interchangeable, new addresses   *)
(* in one pool.                                                             *)
(***************************************************************************)
EXTENDS LightClient, TLC

mcImports  == {-1}
mcSymmetry == Permutations(Passwords)
=============================================================================
