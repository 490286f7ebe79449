---------------------------- MODULE BurstSocket ----------------------------
(***************************************************************************)
(* The contract of nfv_socket.h, which every kind of NFV socket is meant   *)
(* to honour.  A caller acquires a burst of buffers, either empty ones     *)
(* (request_out_buffers) or filled ones (recv), which takes back whatever  *)
(* it still held; then send or send_back, called once or repeatedly,       *)
(* passes the buffers of the burst to the network: each at most once, in   *)
(* their order.                                                            *)
(***************************************************************************)
EXTENDS Naturals, Sequences

CONSTANTS
  Sockets,    \* the socket objects of the process
  BurstSize   \* conf->bst_size

VARIABLES
  granted,   \* buffers of the current burst
  wire       \* places of the burst that went out, in the order they did

Contract == << granted, wire >>

ContractInit ==
  /\ granted = [s \in Sockets |-> 0]
  /\ wire = [s \in Sockets |-> << >>]

Acquire(s) ==
  /\ \E n \in 0..BurstSize : granted' = [granted EXCEPT ![s] = n]
  /\ wire' = [wire EXCEPT ![s] = << >>]

Transmit(s) ==
  /\ \E k \in 0..(granted[s] - Len(wire[s])) :
       wire' = [wire EXCEPT ![s] = @ \o [j \in 1..k |-> Len(@) + j]]
  /\ UNCHANGED granted

ContractSpec ==
  ContractInit /\ [][\E s \in Sockets : Acquire(s) \/ Transmit(s)]_Contract
=============================================================================
