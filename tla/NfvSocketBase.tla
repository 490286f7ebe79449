--------------------------- MODULE NfvSocketBase ---------------------------
(***************************************************************************)
(* What the two kinds of NFV socket of testapp-rewrite share: struct       *)
(* nfv_socket, the base class, and the round trip of a frame's headers.    *)
(***************************************************************************)
EXTENDS Naturals, Sequences, FiniteSets

CONSTANTS
  BurstSize,  \* conf->bst_size: burst_size, the length of every burst array
  HowMany     \* the lengths callers ask an operation for

ASSUME BaseAssumption == BurstSize \in Nat \ {0} /\ HowMany \subseteq Nat

Places == 0 .. BurstSize - 1
Least(a, b) == IF a < b THEN a ELSE b

(* send_back exchanges source and destination in every header. *)
Swapped(h) == IF h = "in" THEN "out" ELSE IF h = "out" THEN "in" ELSE h
=============================================================================
