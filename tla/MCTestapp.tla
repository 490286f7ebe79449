----------------------------- MODULE MCTestapp -----------------------------
EXTENDS Testapp, TLC

(* The mbufs are interchangeable. *)
Perms == Permutations(Mbufs)
=============================================================================
