--------------------------- MODULE NfvSocketDpdk ---------------------------
(***************************************************************************)
(* The DPDK socket of testapp-rewrite (nfv_socket_dpdk.c): the socket      *)
(* objects of one process, each driven by its own loop, over one pool of   *)
(* mbufs and the two rings of the port.                                    *)
(*                                                                         *)
(* The mempool and the rings are atomic operations of DPDK (external); the *)
(* loops of the code that take, filter and give back mbufs one at a time   *)
(* are steps, so that the sockets of two threads interleave in them.  Of a *)
(* frame only the direction of its headers is kept: "in" is a frame that   *)
(* hdr_check_incoming accepts, "out" is one addressed to the peer (the     *)
(* remote application or, in a server, the sender of the frame that is     *)
(* returned), "foreign" any other.                                         *)
(***************************************************************************)
EXTENDS NfvSocketBase

CONSTANTS
  Sockets, Mbufs, NULL,
  Senders, Receivers,  \* the sockets that request and send, that recv
  TxRing, RxRing       \* descriptors of the two rings of the port

ASSUME DpdkAssumption ==
  /\ BurstSize \in Nat \ {0}
  /\ TxRing \in Nat /\ RxRing \in Nat
  /\ HowMany \subseteq Nat
  /\ IsFiniteSet(Mbufs) /\ NULL \notin Mbufs
  /\ Senders \subseteq Sockets /\ Receivers \subseteq Sockets

VARIABLES
  pool,                   \* the free mbufs of conf->dpdk.mbufs
  txq, rxq,               \* mbufs owned by the port: to be sent, received
  hdr,                    \* the direction of the headers in each mbuf
  packets, active, used,  \* struct nfv_socket_dpdk (*_buffers)
  pc, op,                 \* where each socket is in which operation
  num, idx, good,         \* howmany or num_recv; i; num_recv_good
  turned,                 \* history: the places of the last burst received
                          \* whose headers send_back has turned round
  again,                  \* history: mbufs of the port that an earlier
                          \* send_back had turned round and not sent
  wire                    \* history: places of the burst that went out

nic == << txq, rxq >>
locals == << op, num, idx, good >>
vars == << pool, txq, rxq, hdr, packets, active, used,
           pc, op, num, idx, good, turned, again, wire >>

Range0(s, from, to) == {packets[s][k] : k \in from .. to - 1}

Init ==
  /\ pool = Mbufs /\ txq = {} /\ rxq = << >>
  /\ hdr = [m \in Mbufs |-> "foreign"]
  /\ packets = [s \in Sockets |-> [k \in Places |-> NULL]]
  /\ active = [s \in Sockets |-> 0] /\ used = [s \in Sockets |-> 0]
  /\ pc = [s \in Sockets |-> "idle"] /\ op = [s \in Sockets |-> "none"]
  /\ num = [s \in Sockets |-> 0]
  /\ idx = [s \in Sockets |-> 0] /\ good = [s \in Sockets |-> 0]
  /\ turned = [s \in Sockets |-> 0] /\ again = {}
  /\ wire = [s \in Sockets |-> << >>]

(* The local variables of an operation die when it returns. *)
ForgetLocals(s) ==
  /\ num' = [num EXCEPT ![s] = 0]
  /\ idx' = [idx EXCEPT ![s] = 0]
  /\ good' = [good EXCEPT ![s] = 0]

Goto(s, from, to) == pc[s] = from /\ pc' = [pc EXCEPT ![s] = to]

-----------------------------------------------------------------------------
(* The port (external). *)

Arrive ==
  /\ Len(rxq) < RxRing
  /\ \E m \in pool, h \in {"in", "foreign"} :
       /\ pool' = pool \ {m}
       /\ rxq' = Append(rxq, m)
       /\ hdr' = [hdr EXCEPT ![m] = h]
  /\ UNCHANGED << txq, packets, active, used, pc, locals, turned, again, wire >>

TxDone ==
  /\ \E m \in txq :
       txq' = txq \ {m} /\ pool' = pool \cup {m} /\ again' = again \ {m}
  /\ UNCHANGED << rxq, hdr, packets, active, used, pc, locals, turned, wire >>

-----------------------------------------------------------------------------
(* request_out_buffers and recv both begin by freeing what is left. *)

Call(s) ==
  /\ Goto(s, "idle", "free")
  /\ \E o \in {"request", "recv"}, n \in HowMany :
       /\ s \in (IF o = "request" THEN Senders ELSE Receivers)
       /\ op' = [op EXCEPT ![s] = o]
       /\ num' = [num EXCEPT ![s] = Least(n, BurstSize)]
  /\ wire' = [wire EXCEPT ![s] = << >>]
  /\ UNCHANGED << pool, nic, hdr, packets, active, used, idx, good, turned,
                  again >>

FreeOne(s) ==
  /\ pc[s] = "free" /\ used[s] < active[s]
  /\ pool' = pool \cup {packets[s][used[s]]}
  /\ used' = [used EXCEPT ![s] = @ + 1]
  /\ UNCHANGED << nic, hdr, packets, active, pc, locals, turned, again, wire >>

(* Mutant: active_buffers is not reset. *)
FreeDoneKeepsActive(s) ==
  /\ used[s] >= active[s]
  /\ Goto(s, "free", IF op[s] = "request" THEN "alloc" ELSE "rx")
  /\ used' = [used EXCEPT ![s] = 0]
  /\ UNCHANGED << pool, nic, hdr, packets, active, locals, turned, again,
                  wire >>

FreeDone(s) ==
  /\ used[s] >= active[s]
  /\ Goto(s, "free", IF op[s] = "request" THEN "alloc" ELSE "rx")
  /\ used' = [used EXCEPT ![s] = 0]
  /\ active' = [active EXCEPT ![s] = 0]
  /\ UNCHANGED << pool, nic, hdr, packets, locals, turned, again, wire >>

(* request_out_buffers: allocate and prepare one mbuf after the other ... *)
AllocOne(s) ==
  /\ pc[s] = "alloc" /\ idx[s] < num[s]
  /\ \E m \in pool :
       /\ pool' = pool \ {m}
       /\ packets' = [packets EXCEPT ![s][idx[s]] = m]
       /\ hdr' = [hdr EXCEPT ![m] = "out"]
  /\ idx' = [idx EXCEPT ![s] = @ + 1]
  /\ UNCHANGED << nic, active, used, pc, op, num, good, turned, again, wire >>

(* ... until the pool is empty, or the burst is complete. *)
AllocFails(s) ==
  /\ idx[s] < num[s] /\ pool = {}
  /\ Goto(s, "alloc", "fill")
  /\ packets' = [packets EXCEPT ![s][idx[s]] = NULL]
  /\ UNCHANGED << pool, nic, hdr, active, used, locals, turned,
                  again, wire >>

AllocDone(s) ==
  /\ idx[s] = num[s]
  /\ Goto(s, "alloc", "fill")
  /\ UNCHANGED << pool, nic, hdr, packets, active, used, locals, turned,
                  again, wire >>

(* fill_buffer_array dereferences the first howmany pointers. *)
Fill(s) ==
  /\ LET faults == \E k \in 0 .. num[s] - 1 : packets[s][k] = NULL
     IN  Goto(s, "fill", IF faults THEN "fault" ELSE "idle")
  /\ active' = [active EXCEPT ![s] = @ + idx[s]]
  /\ ForgetLocals(s)
  /\ UNCHANGED << pool, nic, hdr, packets, used, op, turned, again, wire >>

(* recv: take what the port has ... *)
RxBurst(s) ==
  /\ Goto(s, "rx", "filter")
  /\ \E n \in 0 .. Least(num[s], Len(rxq)) :
       /\ packets' = [packets EXCEPT ![s] =
            [k \in Places |-> IF k < n THEN rxq[k + 1] ELSE @[k]]]
       /\ rxq' = SubSeq(rxq, n + 1, Len(rxq))
       /\ num' = [num EXCEPT ![s] = n]
  /\ turned' = [turned EXCEPT ![s] = 0]
  /\ UNCHANGED << pool, txq, hdr, active, used, op, idx, good, again, wire >>

(* Mutant: the frames that are kept are not moved together. *)
FilterKeepInPlace(s) ==
  /\ pc[s] = "filter" /\ idx[s] < num[s]
  /\ hdr[packets[s][idx[s]]] = "in"
  /\ good' = [good EXCEPT ![s] = @ + 1]
  /\ idx' = [idx EXCEPT ![s] = @ + 1]
  /\ UNCHANGED << pool, nic, hdr, packets, active, used, pc, op, num, turned,
                  again, wire >>

(* ... and keep, moved together, the frames for this application. *)
FilterKeep(s) ==
  /\ pc[s] = "filter" /\ idx[s] < num[s]
  /\ hdr[packets[s][idx[s]]] = "in"
  /\ packets' = [packets EXCEPT ![s][good[s]] = packets[s][idx[s]]]
  /\ good' = [good EXCEPT ![s] = @ + 1]
  /\ idx' = [idx EXCEPT ![s] = @ + 1]
  /\ UNCHANGED << pool, nic, hdr, active, used, pc, op, num, turned, again,
                  wire >>

(* Mutant: a frame for another application is dropped without a free. *)
FilterFreeLeaks(s) ==
  /\ pc[s] = "filter" /\ idx[s] < num[s]
  /\ hdr[packets[s][idx[s]]] # "in"
  /\ idx' = [idx EXCEPT ![s] = @ + 1]
  /\ UNCHANGED << pool, nic, hdr, packets, active, used, pc, op, num, good,
                  turned, again, wire >>

FilterFree(s) ==
  /\ pc[s] = "filter" /\ idx[s] < num[s]
  /\ hdr[packets[s][idx[s]]] # "in"
  /\ pool' = pool \cup {packets[s][idx[s]]}
  /\ idx' = [idx EXCEPT ![s] = @ + 1]
  /\ UNCHANGED << nic, hdr, packets, active, used, pc, op, num, good, turned,
                  again, wire >>

FilterDone(s) ==
  /\ idx[s] = num[s]
  /\ Goto(s, "filter", "idle")
  /\ active' = [active EXCEPT ![s] = @ + good[s]]
  /\ ForgetLocals(s)
  /\ UNCHANGED << pool, nic, hdr, packets, used, op, turned, again, wire >>

-----------------------------------------------------------------------------
(* send: the port accepts as many of the next howmany mbufs as it can. *)

(* Mutant: the port's answer is not added to used_buffers. *)
TxBurstForgotten(s, howmany) ==
  \E k \in 0 .. Least(howmany, TxRing - Cardinality(txq)) :
    /\ txq' = txq \cup Range0(s, used[s], used[s] + k)
    /\ UNCHANGED used
    /\ wire' = [wire EXCEPT ![s] = @ \o [j \in 1..k |-> used[s] + j]]

(* Mutant: every call starts again from the first mbuf of the burst. *)
TxBurstFromStart(s, howmany) ==
  \E k \in 0 .. Least(howmany, TxRing - Cardinality(txq)) :
    /\ txq' = txq \cup Range0(s, 0, k)
    /\ used' = [used EXCEPT ![s] = @ + k]
    /\ wire' = [wire EXCEPT ![s] = @ \o [j \in 1..k |-> j]]

TxBurst(s, howmany) ==
  \E k \in 0 .. Least(howmany, TxRing - Cardinality(txq)) :
    /\ txq' = txq \cup Range0(s, used[s], used[s] + k)
    /\ used' = [used EXCEPT ![s] = @ + k]
    /\ wire' = [wire EXCEPT ![s] = @ \o [j \in 1..k |-> used[s] + j]]

Remaining(s) == active[s] - used[s]

Send(s) ==
  /\ pc[s] = "idle" /\ op[s] = "request"
  /\ \E n \in HowMany : TxBurst(s, Least(n, Remaining(s)))
  /\ UNCHANGED << pool, rxq, hdr, packets, active, pc, locals, turned, again >>

(***************************************************************************)
(* send_back: turn the headers of the next howmany mbufs round, then send  *)
(* as many of them as the port accepts.  What it refuses stays turned, and *)
(* the next call turns it back.                                            *)
(***************************************************************************)
TurnedUntil(s, end) ==
  /\ turned' = [turned EXCEPT ![s] = IF end > @ THEN end ELSE @]
  /\ again' = again \cup (txq' \cap Range0(s, used[s], turned[s]))

(* Mutant: the headers are not turned round. *)
SendBackUnturned(s) ==
  /\ pc[s] = "idle" /\ op[s] = "recv"
  /\ \E n \in HowMany :
       LET howmany == Least(n, Remaining(s))
       IN  TxBurst(s, howmany) /\ TurnedUntil(s, used[s] + howmany)
  /\ UNCHANGED << pool, rxq, hdr, packets, active, pc, locals >>

SendBack(s) ==
  /\ pc[s] = "idle" /\ op[s] = "recv"
  /\ \E n \in HowMany :
       LET howmany == Least(n, Remaining(s))
           end     == used[s] + howmany
       IN  /\ hdr' = [m \in Mbufs |-> IF m \in Range0(s, used[s], end)
                                        THEN Swapped(hdr[m]) ELSE hdr[m]]
           /\ TxBurst(s, howmany)
           /\ TurnedUntil(s, end)
  /\ UNCHANGED << pool, rxq, packets, active, pc, locals >>

Step(s) ==
  \/ Call(s) \/ FreeOne(s) \/ FreeDone(s)
  \/ AllocOne(s) \/ AllocFails(s) \/ AllocDone(s) \/ Fill(s)
  \/ RxBurst(s) \/ FilterKeep(s) \/ FilterFree(s) \/ FilterDone(s)
  \/ Send(s) \/ SendBack(s)

(* A fault ends the whole process. *)
Alive == \A s \in Sockets : pc[s] # "fault"

Next == Alive /\ (Arrive \/ TxDone \/ \E s \in Sockets : Step(s))

Spec == Init /\ [][Next]_vars

-----------------------------------------------------------------------------
(* Properties. *)

TypeOK ==
  /\ pool \in SUBSET Mbufs /\ txq \in SUBSET Mbufs /\ rxq \in Seq(Mbufs)
  /\ hdr \in [Mbufs -> {"in", "out", "foreign"}]
  /\ packets \in [Sockets -> [Places -> Mbufs \cup {NULL}]]
  /\ active \in [Sockets -> 0..BurstSize]
  /\ used \in [Sockets -> 0..BurstSize]
  /\ pc \in [Sockets -> {"idle", "free", "alloc", "fill", "rx", "filter",
                         "fault"}]
  /\ op \in [Sockets -> {"none", "request", "recv"}]
  /\ num \in [Sockets -> 0..BurstSize]
  /\ idx \in [Sockets -> 0..BurstSize]
  /\ good \in [Sockets -> 0..BurstSize]
  /\ turned \in [Sockets -> 0..BurstSize] /\ again \in SUBSET txq
  /\ wire \in [Sockets -> Seq(Nat)]

(***************************************************************************)
(* The places of packets[] that hold an mbuf the socket owns: what is left *)
(* of the burst or, inside an operation, what has been allocated so far,   *)
(* or what the filter has kept and what it has not looked at.              *)
(***************************************************************************)
Owns(s, k) ==
  \/ pc[s] \in {"idle", "free", "fault"} /\ used[s] <= k /\ k < active[s]
  \/ pc[s] \in {"alloc", "fill"} /\ k < idx[s]
  \/ pc[s] = "filter" /\ (k < good[s] \/ (idx[s] <= k /\ k < num[s]))

Held(s) == {packets[s][k] : k \in {j \in Places : Owns(s, j)}}
InRx == {rxq[k] : k \in 1..Len(rxq)}

(***************************************************************************)
(* Every mbuf is in exactly one place: no operation, however the threads   *)
(* interleave and however much of a burst the port refuses, frees an mbuf  *)
(* twice, frees one that the port owns, or loses one.                      *)
(***************************************************************************)
NoLeak == Mbufs = pool \cup txq \cup InRx \cup UNION {Held(s) : s \in Sockets}

OwnedOnce ==
  /\ pool \cap txq = {} /\ (pool \cup txq) \cap InRx = {}
  /\ \A j, k \in 1..Len(rxq) : j # k => rxq[j] # rxq[k]
  /\ \A s \in Sockets, k \in Places : Owns(s, k) =>
       /\ packets[s][k] \in Mbufs \ (pool \cup txq \cup InRx)
       /\ \A t \in Sockets, j \in Places :
            (Owns(t, j) /\ packets[t][j] = packets[s][k]) => t = s /\ j = k

Conservation == NoLeak /\ OwnedOnce

(***************************************************************************)
(* Only frames addressed to the peer are handed to the port, also when some*)
(* of a burst were refused (send, send_back); nothing is claimed of those  *)
(* that a repeated send_back turned a second time.                         *)
(***************************************************************************)
SendsOnlyOutgoing == \A m \in txq \ again : hdr[m] = "out"

(* What recv returns are frames for this application, in places 0, 1, ...  *)
ReceivesOnlyIncoming ==
  \A s \in Sockets : (pc[s] = "idle" /\ op[s] = "recv" /\ turned[s] = 0) =>
    \A k \in 0 .. active[s] - 1 : hdr[packets[s][k]] = "in"

(* The process never dereferences the NULL of a failed allocation. *)
NeverFaults == Alive

(* The DPDK socket honours the contract of nfv_socket.h. *)
Granted == [s \in Sockets |-> IF pc[s] = "idle" THEN active[s] ELSE 0]
Burst == INSTANCE BurstSocket WITH granted <- Granted
HonoursContract == Burst!ContractSpec
=============================================================================
