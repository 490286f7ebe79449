---------------------------- MODULE TestappDpdk ----------------------------
(***************************************************************************)
(* The mbufs of the deprecated DPDK applications (src/testapp): dpdk-send, *)
(* dpdk-recv, dpdk-server and dpdk-client, each of which handles mbufs in  *)
(* the body of its loops.  dpdk-clientst is in TestappClientst.            *)
(*                                                                         *)
(* The thread "tx" runs the main_loop of dpdk-send and dpdk-client, "rx"   *)
(* the main_loop of dpdk-recv and dpdk-server and the pong_body of         *)
(* dpdk-client.  When a burst is due, or a second is over, is left open:   *)
(* these loops keep time like those of module Loops.                       *)
(***************************************************************************)
EXTENDS Naturals, Sequences, FiniteSets

CONSTANTS
  Mbufs,
  BurstSize,        \* conf->bst_size, the length of pkts_burst[]
  TxRing, RxRing,   \* descriptors of the two rings of the port
  AdvPeriod,        \* advertisement_period of dpdk-recv
  MaxCount          \* maxcount of dpdk_advertise_host_mac

ASSUME TestappDpdkAssumption ==
  /\ IsFiniteSet(Mbufs) /\ BurstSize \in Nat \ {0}
  /\ TxRing \in Nat /\ RxRing \in Nat
  /\ AdvPeriod \in Nat \ {0} /\ MaxCount \in Nat \ {0}

VARIABLES
  dapp,             \* the application
  pool,             \* the free mbufs of conf->dpdk.mbufs
  txq, rxq,         \* mbufs owned by the port: to be sent, received
  kind,             \* whose frame an mbuf holds
  dpc,              \* the next step of each thread
  pkts,             \* pkts_burst[] of each thread
  n, i, j,          \* its pkts_prepared or pkts_rx, its indices
  adv_counter,
  abandoned         \* history: advertisements the port never accepted

threadVars == << dpc, pkts, n, i, j >>
dpdkVars == << dapp, pool, txq, rxq, kind, threadVars, adv_counter, abandoned >>

DpdkApps == {"dpdk-send", "dpdk-recv", "dpdk-server", "dpdk-client"}

Threads == {"tx", "rx"}

Runs(t) == dapp \in (IF t = "tx" THEN {"dpdk-send", "dpdk-client"}
                                 ELSE DpdkApps \ {"dpdk-send"})

Places == 0 .. BurstSize - 1

(* The mbufs in places from .. to - 1 of a thread's burst. *)
Span(t, from, to) == {pkts[t][k] : k \in from .. to - 1}

DpdkInit ==
  /\ dapp \in DpdkApps
  /\ pool = Mbufs /\ txq = {} /\ rxq = << >>
  /\ kind = [m \in Mbufs |-> "foreign"]
  /\ dpc = [t \in Threads |-> "top"]
  /\ pkts = [t \in Threads |-> << >>]
  /\ n = [t \in Threads |-> 0]
  /\ i = [t \in Threads |-> 0] /\ j = [t \in Threads |-> 0]
  /\ adv_counter = AdvPeriod
  /\ abandoned = 0

(* A thread moves on, with the given indices. *)
Move(t, from, to, nn, ii, jj) ==
  /\ dpc[t] = from /\ Runs(t)
  /\ dpc' = [dpc EXCEPT ![t] = to]
  /\ n' = [n EXCEPT ![t] = nn]
  /\ i' = [i EXCEPT ![t] = ii]
  /\ j' = [j EXCEPT ![t] = jj]

-----------------------------------------------------------------------------
(* The port (external). *)

PortArrive ==
  /\ Len(rxq) < RxRing
  /\ \E m \in pool, h \in {"in", "foreign"} :
       /\ pool' = pool \ {m}
       /\ rxq' = Append(rxq, m)
       /\ kind' = [kind EXCEPT ![m] = h]
  /\ UNCHANGED << dapp, txq, threadVars, adv_counter, abandoned >>

PortTxDone ==
  /\ \E m \in txq : txq' = txq \ {m} /\ pool' = pool \cup {m}
  /\ UNCHANGED << dapp, rxq, kind, threadVars, adv_counter, abandoned >>

(* rte_eth_tx_burst takes any part of a burst for which it has room. *)
TxAccepts(howmany) ==
  {k \in 0 .. howmany : k + Cardinality(txq) <= TxRing}

-----------------------------------------------------------------------------
(* main_loop of dpdk-send and dpdk-client: prepare a burst when it is due. *)

BurstDue ==
  /\ Move("tx", "top", "alloc", 0, 0, 0)
  /\ pkts' = [pkts EXCEPT !["tx"] = << >>]
  /\ UNCHANGED << dapp, pool, txq, rxq, kind, adv_counter, abandoned >>

PrepareOne ==
  /\ n["tx"] < BurstSize
  /\ Move("tx", "alloc", "alloc", n["tx"] + 1, 0, 0)
  /\ \E m \in pool :
       /\ pool' = pool \ {m}
       /\ pkts' = [pkts EXCEPT !["tx"] =
            [k \in 0 .. n["tx"] |-> IF k = n["tx"] THEN m ELSE pkts["tx"][k]]]
       /\ kind' = [kind EXCEPT ![m] = "out"]
  /\ UNCHANGED << dapp, txq, rxq, adv_counter, abandoned >>

(* The burst is complete, or shorter because an allocation failed: the pool *)
(* is empty, or what it has is in the cache of another lcore.               *)
Prepared ==
  /\ Move("tx", "alloc", "burst", n["tx"], 0, 0)
  /\ UNCHANGED << dapp, pool, txq, rxq, kind, pkts, adv_counter, abandoned >>

(* Mutant: the unsent mbufs are counted from the first one. *)
TxBurstFreesAll(t) ==
  \E k \in TxAccepts(n[t]) :
    /\ Move(t, "burst", "free", n[t], 0, 0)
    /\ txq' = txq \cup Span(t, 0, k)
    /\ UNCHANGED << dapp, pool, rxq, kind, pkts, adv_counter, abandoned >>

(* rte_eth_tx_burst; here i is pkts_tx. *)
TxBurst(t) ==
  \E k \in TxAccepts(n[t]) :
    /\ Move(t, "burst", "free", n[t], k, 0)
    /\ txq' = txq \cup Span(t, 0, k)
    /\ UNCHANGED << dapp, pool, rxq, kind, pkts, adv_counter, abandoned >>

(* Release the unsent mbufs, one by one. *)
FreeUnsent(t) ==
  /\ i[t] < n[t]
  /\ Move(t, "free", "free", n[t], i[t] + 1, 0)
  /\ pool' = pool \cup {pkts[t][i[t]]}
  /\ UNCHANGED << dapp, txq, rxq, kind, pkts, adv_counter, abandoned >>

FreedUnsent(t) ==
  /\ i[t] = n[t]
  /\ Move(t, "free", "top", 0, 0, 0)
  /\ UNCHANGED << dapp, pool, txq, rxq, kind, pkts, adv_counter, abandoned >>

-----------------------------------------------------------------------------
(* main_loop of dpdk-recv: at the start, and then every few periods, tell  *)
(* the switches where this application is.                                 *)

RxTop ==
  /\ \E second \in BOOLEAN :
       LET counter == IF second /\ dapp = "dpdk-recv" THEN adv_counter + 1
                                                      ELSE adv_counter
           due     == dapp = "dpdk-recv" /\ counter >= AdvPeriod
       IN  /\ adv_counter' = IF due THEN 0 ELSE counter
           /\ Move("rx", "top", IF due THEN "advertise" ELSE "rx", 0, 0, 0)
  /\ UNCHANGED << dapp, pool, txq, rxq, kind, pkts, abandoned >>

AdvertiseAlloc ==
  /\ \E m \in pool :
       /\ pool' = pool \ {m}
       /\ pkts' = [pkts EXCEPT !["rx"] = [k \in {0} |-> m]]
       /\ kind' = [kind EXCEPT ![m] = "advertisement"]
  /\ Move("rx", "advertise", "offer", 1, 0, 0)
  /\ UNCHANGED << dapp, txq, rxq, adv_counter, abandoned >>

AdvertiseFails ==
  /\ Move("rx", "advertise", "rx", 0, 0, 0)
  /\ UNCHANGED << dapp, pool, txq, rxq, kind, pkts, adv_counter, abandoned >>

(* Offer it to the port up to maxcount times, then forget it; i is count.  *)
AdvertiseTx ==
  \E k \in TxAccepts(1) :
    LET gaveUp == k = 0 /\ i["rx"] + 1 >= MaxCount
        done   == k = 1 \/ gaveUp
    IN  /\ Move("rx", "offer", IF done THEN "rx" ELSE "offer",
                IF done THEN 0 ELSE 1, IF done THEN 0 ELSE i["rx"] + 1, 0)
        /\ txq' = txq \cup Span("rx", 0, k)
        /\ abandoned' = abandoned + (IF gaveUp THEN 1 ELSE 0)
        /\ UNCHANGED << dapp, pool, rxq, kind, pkts, adv_counter >>

-----------------------------------------------------------------------------
(* The loops that receive. *)

RxBurst ==
  /\ \E k \in 0 .. BurstSize :
       /\ k <= Len(rxq)
       /\ Move("rx", "rx",
               IF k = 0 /\ dapp = "dpdk-server" THEN "top" ELSE "each", k, 0, 0)
       /\ pkts' = [pkts EXCEPT !["rx"] = [p \in 0 .. k - 1 |-> rxq[p + 1]]]
       /\ rxq' = SubSeq(rxq, k + 1, Len(rxq))
  /\ UNCHANGED << dapp, pool, txq, kind, adv_counter, abandoned >>

(* dpdk-recv and pong_body free each mbuf once they have looked at it.     *)
ConsumeOne ==
  /\ dapp # "dpdk-server" /\ i["rx"] < n["rx"]
  /\ Move("rx", "each", "each", n["rx"], i["rx"] + 1, 0)
  /\ pool' = pool \cup {pkts["rx"][i["rx"]]}
  /\ UNCHANGED << dapp, txq, rxq, kind, pkts, adv_counter, abandoned >>

(* dpdk_check_dst_addr_port, and the headers dpdk_swap_* turn round.       *)
ForUs(pkt) == kind[pkt] = "in"
SwappedHeaders(pkt) == [kind EXCEPT ![pkt] = IF @ = "in" THEN "out" ELSE @]

(* Mutant: every frame is sent back. *)
KeepAny ==
  /\ dapp = "dpdk-server" /\ i["rx"] < n["rx"]
  /\ LET pkt == pkts["rx"][i["rx"]]
     IN  /\ Move("rx", "each", "each", n["rx"], i["rx"] + 1, j["rx"] + 1)
         /\ kind' = SwappedHeaders(pkt)
         /\ pkts' = [pkts EXCEPT !["rx"][j["rx"]] = pkt]
  /\ UNCHANGED << dapp, pool, txq, rxq, adv_counter, abandoned >>

(* dpdk-server turns a frame for it round and moves it to position j ...   *)
KeepOne ==
  /\ dapp = "dpdk-server" /\ i["rx"] < n["rx"]
  /\ LET pkt == pkts["rx"][i["rx"]]
     IN  /\ ForUs(pkt)
         /\ Move("rx", "each", "each", n["rx"], i["rx"] + 1, j["rx"] + 1)
         /\ kind' = SwappedHeaders(pkt)
         /\ pkts' = [pkts EXCEPT !["rx"][j["rx"]] = pkt]
  /\ UNCHANGED << dapp, pool, txq, rxq, adv_counter, abandoned >>

(* ... and frees any other. *)
DropOne ==
  /\ dapp = "dpdk-server" /\ i["rx"] < n["rx"]
  /\ LET pkt == pkts["rx"][i["rx"]]
     IN  /\ ~ ForUs(pkt)
         /\ Move("rx", "each", "each", n["rx"], i["rx"] + 1, j["rx"])
         /\ pool' = pool \cup {pkt}
  /\ UNCHANGED << dapp, txq, rxq, kind, pkts, adv_counter, abandoned >>

(* The server sends back its first j mbufs; the others are done. *)
LookedAtAll ==
  /\ i["rx"] = n["rx"]
  /\ IF dapp = "dpdk-server" THEN Move("rx", "each", "burst", j["rx"], 0, 0)
                             ELSE Move("rx", "each", "top", 0, 0, 0)
  /\ UNCHANGED << dapp, pool, txq, rxq, kind, pkts, adv_counter, abandoned >>

DpdkNext ==
  \/ PortArrive \/ PortTxDone
  \/ BurstDue \/ PrepareOne \/ Prepared
  \/ \E t \in Threads : TxBurst(t) \/ FreeUnsent(t) \/ FreedUnsent(t)
  \/ RxTop \/ AdvertiseAlloc \/ AdvertiseFails \/ AdvertiseTx
  \/ RxBurst \/ ConsumeOne \/ KeepOne \/ DropOne \/ LookedAtAll

-----------------------------------------------------------------------------
(* Properties. *)

(* The places of its burst that hold an mbuf a thread is responsible for.  *)
Responsible(t, k) ==
  \/ dpc[t] \in {"alloc", "burst", "offer"} /\ k < n[t]
  \/ dpc[t] = "free" /\ i[t] <= k /\ k < n[t]
  \/ dpc[t] = "each" /\ (k < j[t] \/ (i[t] <= k /\ k < n[t]))

Owned(t) == {k \in Places : Responsible(t, k)}
Received == {rxq[k] : k \in 1 .. Len(rxq)}
InUse == txq \cup Received \cup UNION {{pkts[t][k] : k \in Owned(t)} : t \in Threads}

(***************************************************************************)
(* No mbuf is in two places, and the only ones in none are those of the    *)
(* advertisements that the port refused maxcount times: no loop loses one  *)
(* or frees one twice, whatever the port refuses and however the two       *)
(* threads of dpdk-client interleave.                                      *)
(***************************************************************************)
OnlyAdvertisementsLeak ==
  /\ pool \cap InUse = {}
  /\ Cardinality(InUse) = Cardinality(txq) + Len(rxq)
       + Cardinality(Owned("tx")) + Cardinality(Owned("rx"))
  /\ Cardinality(Mbufs \ (pool \cup InUse)) = abandoned

(* The port only sends frames addressed to the peer, and advertisements:   *)
(* the server never returns a frame that was meant for somebody else.      *)
SendsOwnFrames == \A m \in txq : kind[m] \in {"out", "advertisement"}
=============================================================================
