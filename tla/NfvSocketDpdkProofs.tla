------------------------ MODULE NfvSocketDpdkProofs ------------------------
(***************************************************************************)
(* For any number of sockets, mbufs and descriptors and any burst size:    *)
(* the indices of the DPDK socket stay in bounds, and every mbuf is in     *)
(* exactly one place.                                                      *)
(***************************************************************************)
EXTENDS NfvSocketDpdk, SequenceTheorems, FiniteSetTheorems, TLAPS

USE DpdkAssumption DEF Places

(***************************************************************************)
(* What the indices of a socket are at each step of an operation: the      *)
(* burst is given up before the next one is acquired, and the filter       *)
(* writes no further than it has read.                                     *)
(***************************************************************************)
Indices(s) ==
  /\ used[s] <= active[s] /\ good[s] <= idx[s]
  /\ pc[s] \in {"idle", "free", "rx", "fault"} => idx[s] = 0
  /\ pc[s] # "filter" => good[s] = 0
  /\ pc[s] \in {"alloc", "fill", "rx", "filter"} => active[s] = 0 /\ used[s] = 0
  /\ pc[s] \in {"alloc", "fill", "filter"} => idx[s] <= num[s]

AllIndices == \A s \in Sockets : Indices(s)

(* What a socket holds are mbufs, not NULLs. *)
HoldsMbufs ==
  \A s \in Sockets, k \in Places : Owns(s, k) => packets[s][k] \in Mbufs

IndexInv == TypeOK /\ AllIndices

-----------------------------------------------------------------------------
(* How much a port accepts is at most what it is offered. *)

LEMMA LeastIsLess ==
  ASSUME NEW a \in Int, NEW b \in Int
  PROVE  Least(a, b) \in Int /\ Least(a, b) <= a /\ Least(a, b) <= b
BY DEF Least

LEMMA Clamped ==
  ASSUME NEW n \in HowMany
  PROVE  Least(n, BurstSize) \in 0..BurstSize
BY DEF Least

LEMMA Accepts ==
  ASSUME TypeOK, NEW s \in Sockets, NEW howmany \in Nat, TxBurst(s, howmany)
  PROVE  \E k \in 0..howmany :
           /\ txq' = txq \cup Range0(s, used[s], used[s] + k)
           /\ used' = [used EXCEPT ![s] = @ + k]
           /\ wire' = [wire EXCEPT ![s] = @ \o [j \in 1..k |-> used[s] + j]]
<1>1. IsFiniteSet(txq)
  BY FS_Subset DEF TypeOK
<1>2. Cardinality(txq) \in Nat
  BY <1>1, FS_CardinalityType
<1>3. TxRing - Cardinality(txq) \in Int
  BY <1>2
<1>4. PICK k \in 0 .. Least(howmany, TxRing - Cardinality(txq)) :
           /\ txq' = txq \cup Range0(s, used[s], used[s] + k)
           /\ used' = [used EXCEPT ![s] = @ + k]
           /\ wire' = [wire EXCEPT ![s] = @ \o [j \in 1..k |-> used[s] + j]]
  BY DEF TxBurst
<1>5. k \in 0..howmany
  <2> DEFINE limit == Least(howmany, TxRing - Cardinality(txq))
  <2>1. limit \in Int /\ limit <= howmany
    BY <1>3, LeastIsLess
  <2>2. k \in 0..limit
    OBVIOUS
  <2> HIDE DEF limit
  <2>. QED  BY <2>1, <2>2
<1>. QED  BY <1>4, <1>5

LEMMA LongerWire ==
  ASSUME NEW w \in Seq(Nat), NEW u \in Nat, NEW k \in Nat
  PROVE  w \o [j \in 1..k |-> u + j] \in Seq(Nat)
<1>1. [j \in 1..k |-> u + j] \in Seq(Nat)
  OBVIOUS
<1>. QED  BY <1>1, ConcatProperties

(* A call of send or send_back, whatever else it changes. *)
LEMMA BurstKeepsIndices ==
  ASSUME IndexInv, HoldsMbufs, NEW s \in Sockets, NEW n \in HowMany,
         pc[s] = "idle", TxBurst(s, Least(n, Remaining(s)))
  PROVE  /\ txq' \in SUBSET Mbufs
         /\ used' \in [Sockets -> 0..BurstSize]
         /\ wire' \in [Sockets -> Seq(Nat)]
         /\ \A t \in Sockets : used'[t] <= active[t]
<1>1. Remaining(s) \in Nat /\ n \in Nat
  BY DEF Remaining, IndexInv, AllIndices, Indices, TypeOK
<1> DEFINE howmany == Least(n, Remaining(s))
<1>2. howmany \in Nat /\ howmany <= Remaining(s)
  BY <1>1 DEF Least
<1>3. PICK k \in 0..howmany :
           /\ txq' = txq \cup Range0(s, used[s], used[s] + k)
           /\ used' = [used EXCEPT ![s] = @ + k]
           /\ wire' = [wire EXCEPT ![s] = @ \o [j \in 1..k |-> used[s] + j]]
  BY <1>2, Accepts DEF IndexInv
<1>4. used[s] + k \in 0..BurstSize /\ used[s] + k <= active[s] /\ k \in Nat
  BY <1>2 DEF Remaining, IndexInv, TypeOK
<1>5. used' \in [Sockets -> 0..BurstSize] /\ \A t \in Sockets : used'[t] <= active[t]
  BY <1>3, <1>4 DEF IndexInv, AllIndices, Indices, TypeOK
<1>6. wire[s] \o [j \in 1..k |-> used[s] + j] \in Seq(Nat)
  BY <1>4, LongerWire, SMTT(30) DEF IndexInv, TypeOK
<1>7. wire' \in [Sockets -> Seq(Nat)]
  BY <1>3, <1>6 DEF IndexInv, TypeOK
<1>8. txq' \in SUBSET Mbufs
  <2>1. \A j \in used[s] .. (used[s] + k) - 1 : j \in Places /\ Owns(s, j)
    BY <1>4, SMTT(30) DEF IndexInv, TypeOK, Owns
  <2>2. \A j \in used[s] .. (used[s] + k) - 1 : packets[s][j] \in Mbufs
    BY <2>1 DEF HoldsMbufs
  <2>3. Range0(s, used[s], used[s] + k) \subseteq Mbufs
    BY <2>2 DEF Range0
  <2>4. txq \subseteq Mbufs
    BY DEF IndexInv, TypeOK
  <2>. QED  BY <1>3, <2>3, <2>4
<1>. QED  BY <1>5, <1>7, <1>8

-----------------------------------------------------------------------------
(* Types and indices. *)

LEMMA InitIndex == Init => IndexInv
<1> SUFFICES ASSUME Init PROVE IndexInv
  OBVIOUS
<1>1. TypeOK
  BY DEF Init, TypeOK
<1>2. AllIndices
  BY DEF Init, AllIndices, Indices
<1>. QED  BY <1>1, <1>2 DEF IndexInv

(* A step of socket s leaves the indices of the others alone. *)
OthersStay(s) ==
  \A t \in Sockets : t # s =>
    /\ active'[t] = active[t] /\ used'[t] = used[t]
    /\ pc'[t] = pc[t]
    /\ num'[t] = num[t] /\ idx'[t] = idx[t] /\ good'[t] = good[t]

LEMMA IndicesOfOne ==
  ASSUME AllIndices, NEW s \in Sockets, OthersStay(s), Indices(s)'
  PROVE  AllIndices'
<1> SUFFICES ASSUME NEW t \in Sockets, t # s PROVE Indices(t)'
  BY DEF AllIndices
<1>1. Indices(t)
  BY DEF AllIndices
<1>2. /\ active'[t] = active[t] /\ used'[t] = used[t]
      /\ pc'[t] = pc[t]
      /\ num'[t] = num[t] /\ idx'[t] = idx[t] /\ good'[t] = good[t]
  BY DEF OthersStay
<1>. QED  BY <1>1, <1>2 DEF Indices

LEMMA StepIndex ==
  ASSUME IndexInv, HoldsMbufs, NEW s \in Sockets, Step(s)
  PROVE  IndexInv'
<1> USE DEF IndexInv, Goto, ForgetLocals, locals, nic
<1>1. CASE Call(s)
  <2>1. PICK o \in {"request", "recv"}, n \in HowMany :
          /\ op' = [op EXCEPT ![s] = o]
          /\ num' = [num EXCEPT ![s] = Least(n, BurstSize)]
    BY <1>1 DEF Call
  <2>2. num' \in [Sockets -> 0..BurstSize]
    BY <2>1, Clamped DEF TypeOK
  <2>3. << >> \in Seq(Nat)
    OBVIOUS
  <2>4. TypeOK'
    BY <1>1, <2>1, <2>2, <2>3 DEF Call, TypeOK
  <2>5. AllIndices'
    <3>1. Indices(s)
      BY DEF AllIndices
    <3>2. OthersStay(s)
      BY <1>1 DEF Call, OthersStay, TypeOK
    <3>3. Indices(s)'
      BY <1>1, <3>1 DEF Call, Indices, TypeOK
    <3>. QED  BY <3>2, <3>3, IndicesOfOne
  <2>. QED  BY <2>4, <2>5
<1>2. CASE FreeOne(s)
  <2>1. used[s] + 1 \in 0..BurstSize
    BY <1>2 DEF FreeOne, TypeOK
  <2>2. packets[s][used[s]] \in Mbufs
    BY <1>2 DEF FreeOne, HoldsMbufs, Owns, TypeOK
  <2>3. TypeOK'
    BY <1>2, <2>1, <2>2 DEF FreeOne, TypeOK
  <2>4. AllIndices'
    <3>1. Indices(s)
      BY DEF AllIndices
    <3>2. OthersStay(s)
      BY <1>2 DEF FreeOne, OthersStay, TypeOK
    <3>3. Indices(s)'
      BY <1>2, <3>1 DEF FreeOne, Indices, TypeOK
    <3>. QED  BY <3>2, <3>3, IndicesOfOne
  <2>. QED  BY <2>3, <2>4
<1>3. CASE FreeDone(s)
  <2>1. TypeOK'
    BY <1>3, SMTT(30) DEF FreeDone, TypeOK
  <2>2. AllIndices'
    <3>1. Indices(s)
      BY DEF AllIndices
    <3>2. OthersStay(s)
      BY <1>3 DEF FreeDone, OthersStay, TypeOK
    <3>3. Indices(s)'
      BY <1>3, <3>1 DEF FreeDone, Indices, TypeOK
    <3>. QED  BY <3>2, <3>3, IndicesOfOne
  <2>. QED  BY <2>1, <2>2
<1>4. CASE AllocOne(s)
  <2>1. /\ pc[s] = "alloc" /\ idx[s] < num[s]
        /\ idx' = [idx EXCEPT ![s] = @ + 1]
        /\ UNCHANGED << txq, rxq, active, used, pc, op, num, good, turned, again, wire >>
    BY <1>4 DEF AllocOne
  <2>2. PICK m \in pool :
          /\ pool' = pool \ {m}
          /\ packets' = [packets EXCEPT ![s][idx[s]] = m]
          /\ hdr' = [hdr EXCEPT ![m] = "out"]
    BY <1>4 DEF AllocOne
  <2>3. /\ idx[s] \in Places /\ idx[s] + 1 \in 0..BurstSize
        /\ idx \in [Sockets -> 0..BurstSize]
    BY <2>1 DEF TypeOK
  <2>4. idx' \in [Sockets -> 0..BurstSize]
    BY <2>1, <2>3
  <2>5. /\ pool' \in SUBSET Mbufs
        /\ hdr' \in [Mbufs -> {"in", "out", "foreign"}]
    BY <2>2 DEF TypeOK
  <2>6. packets' \in [Sockets -> [Places -> Mbufs \cup {NULL}]]
    BY <2>2, <2>3 DEF TypeOK
  <2>7. TypeOK'
    BY <2>1, <2>4, <2>5, <2>6 DEF TypeOK
  <2>8. AllIndices'
    <3>1. Indices(s)
      BY DEF AllIndices
    <3>2. OthersStay(s)
      BY <1>4 DEF AllocOne, OthersStay, TypeOK
    <3>3. Indices(s)'
      BY <1>4, <2>3, <3>1 DEF AllocOne, Indices, TypeOK
    <3>. QED  BY <3>2, <3>3, IndicesOfOne
  <2>. QED  BY <2>7, <2>8
<1>5. CASE AllocFails(s)
  <2>1. TypeOK'
    BY <1>5 DEF AllocFails, TypeOK
  <2>2. AllIndices'
    <3>1. Indices(s)
      BY DEF AllIndices
    <3>2. OthersStay(s)
      BY <1>5 DEF AllocFails, OthersStay, TypeOK
    <3>3. Indices(s)'
      BY <1>5, <3>1 DEF AllocFails, Indices, TypeOK
    <3>. QED  BY <3>2, <3>3, IndicesOfOne
  <2>. QED  BY <2>1, <2>2
<1>6. CASE AllocDone(s)
  <2>1. TypeOK'
    BY <1>6 DEF AllocDone, TypeOK
  <2>2. AllIndices'
    <3>1. Indices(s)
      BY DEF AllIndices
    <3>2. OthersStay(s)
      BY <1>6 DEF AllocDone, OthersStay, TypeOK
    <3>3. Indices(s)'
      BY <1>6, <3>1 DEF AllocDone, Indices, TypeOK
    <3>. QED  BY <3>2, <3>3, IndicesOfOne
  <2>. QED  BY <2>1, <2>2
<1>7. CASE Fill(s)
  <2>1. pc[s] = "fill" /\ active[s] + idx[s] \in 0..BurstSize
    BY <1>7 DEF Fill, AllIndices, Indices, TypeOK
  <2>2. pc' \in [Sockets -> {"idle", "free", "alloc", "fill", "rx", "filter",
                             "fault"}] /\ pc'[s] \in {"idle", "fault"}
    BY <1>7 DEF Fill, TypeOK
  <2>2a. active' \in [Sockets -> 0..BurstSize]
    BY <1>7, <2>1 DEF Fill, TypeOK
  <2>2b. /\ num' \in [Sockets -> 0..BurstSize]
         /\ idx' \in [Sockets -> 0..BurstSize]
         /\ good' \in [Sockets -> 0..BurstSize]
         /\ UNCHANGED << pool, txq, rxq, hdr, packets, used, op, turned, again,
                         wire >>
    BY <1>7 DEF Fill, TypeOK
  <2>3. TypeOK'
    BY <2>2, <2>2a, <2>2b DEF TypeOK
  <2>4. AllIndices'
    <3>1. Indices(s)
      BY DEF AllIndices
    <3>2. OthersStay(s)
      BY <1>7 DEF Fill, OthersStay, TypeOK
    <3>3. Indices(s)'
      BY <1>7, <2>1, <2>2, <3>1 DEF Fill, Indices, TypeOK
    <3>. QED  BY <3>2, <3>3, IndicesOfOne
  <2>. QED  BY <2>3, <2>4
<1>8. CASE RxBurst(s)
  <2>1. PICK n \in 0 .. Least(num[s], Len(rxq)) :
          /\ packets' = [packets EXCEPT ![s] =
               [k \in Places |-> IF k < n THEN rxq[k + 1] ELSE @[k]]]
          /\ rxq' = SubSeq(rxq, n + 1, Len(rxq))
          /\ num' = [num EXCEPT ![s] = n]
    BY <1>8 DEF RxBurst
  <2>2. n \in Nat /\ n <= num[s] /\ n <= Len(rxq) /\ n \in 0..BurstSize
    <3>1. num[s] \in 0..BurstSize /\ num[s] \in Int /\ Len(rxq) \in Int
      BY DEF TypeOK
    <3> DEFINE limit == Least(num[s], Len(rxq))
    <3>2. limit \in Int /\ limit <= num[s] /\ limit <= Len(rxq)
      BY <3>1, LeastIsLess
    <3>3. n \in 0..limit
      OBVIOUS
    <3> HIDE DEF limit
    <3>. QED  BY <3>1, <3>2, <3>3
  <2>3. rxq' \in Seq(Mbufs)
    BY <2>1, <2>2, SubSeqProperties DEF TypeOK
  <2>4. \A k \in Places : k < n => rxq[k + 1] \in Mbufs
    BY <2>2 DEF TypeOK
  <2>5. packets' \in [Sockets -> [Places -> Mbufs \cup {NULL}]]
    BY <2>1, <2>4 DEF TypeOK
  <2>5a. /\ num' \in [Sockets -> 0..BurstSize]
         /\ turned' \in [Sockets -> 0..BurstSize]
         /\ pc' \in [Sockets -> {"idle", "free", "alloc", "fill", "rx", "filter",
                                 "fault"}]
         /\ UNCHANGED << pool, txq, hdr, active, used, op, idx, good, again, wire >>
    BY <1>8, <2>1, <2>2 DEF RxBurst, TypeOK
  <2>6. TypeOK'
    BY <2>3, <2>5, <2>5a DEF TypeOK
  <2>7. AllIndices'
    <3>1. Indices(s)
      BY DEF AllIndices
    <3>2. OthersStay(s)
      BY <1>8, <2>1 DEF RxBurst, OthersStay, TypeOK
    <3>3. Indices(s)'
      BY <1>8, <2>1, <2>2, <3>1 DEF RxBurst, Indices, TypeOK
    <3>. QED  BY <3>2, <3>3, IndicesOfOne
  <2>. QED  BY <2>6, <2>7
<1>9. CASE FilterKeep(s)
  <2>1. /\ good[s] \in Places /\ idx[s] \in Places
        /\ good[s] + 1 \in 0..BurstSize /\ idx[s] + 1 \in 0..BurstSize
    BY <1>9 DEF FilterKeep, AllIndices, Indices, TypeOK
  <2>2. packets' \in [Sockets -> [Places -> Mbufs \cup {NULL}]]
    <3>1. packets[s][idx[s]] \in Mbufs \cup {NULL}
      BY <2>1 DEF TypeOK
    <3>2. packets' = [packets EXCEPT ![s][good[s]] = packets[s][idx[s]]]
      BY <1>9 DEF FilterKeep
    <3>. QED  BY <2>1, <3>1, <3>2 DEF TypeOK
  <2>3. /\ good' = [good EXCEPT ![s] = @ + 1]
        /\ idx' = [idx EXCEPT ![s] = @ + 1]
        /\ pc[s] = "filter" /\ idx[s] < num[s]
        /\ UNCHANGED << pool, txq, rxq, hdr, active, used, pc, op, num,
                        turned, again, wire >>
    BY <1>9 DEF FilterKeep
  <2>4. TypeOK'
    BY <2>1, <2>2, <2>3 DEF TypeOK
  <2>5. AllIndices'
    <3>1. Indices(s)
      BY DEF AllIndices
    <3>2. OthersStay(s)
      BY <2>3 DEF OthersStay, TypeOK
    <3>3. good'[s] = good[s] + 1 /\ idx'[s] = idx[s] + 1
      BY <2>3 DEF TypeOK
    <3>4. idx[s] \in Nat /\ num[s] \in Nat /\ good[s] \in Nat
      BY DEF TypeOK
    <3>5. Indices(s)'
      BY <2>3, <3>1, <3>3, <3>4 DEF Indices
    <3>. QED  BY <3>2, <3>5, IndicesOfOne
  <2>. QED  BY <2>4, <2>5
<1>10. CASE FilterFree(s)
  <2>1. idx[s] \in Places /\ idx[s] + 1 \in 0..BurstSize
    BY <1>10 DEF FilterFree, TypeOK
  <2>2. packets[s][idx[s]] \in Mbufs
    BY <1>10, <2>1 DEF FilterFree, HoldsMbufs, Owns, TypeOK
  <2>3. /\ pool' = pool \cup {packets[s][idx[s]]}
        /\ idx' = [idx EXCEPT ![s] = idx[s] + 1]
        /\ UNCHANGED << txq, rxq, hdr, packets, active, used, pc, op, num, good,
                        turned, again, wire >>
    BY <1>10 DEF FilterFree
  <2>4. pool' \in SUBSET Mbufs
    BY <2>2, <2>3 DEF TypeOK
  <2>5. idx' \in [Sockets -> 0..BurstSize]
    BY <2>1, <2>3 DEF TypeOK
  <2>6. TypeOK'
    BY <2>3, <2>4, <2>5 DEF TypeOK
  <2>7. AllIndices'
    <3>1. Indices(s)
      BY DEF AllIndices
    <3>2. OthersStay(s)
      BY <2>3 DEF OthersStay, TypeOK
    <3>3. idx'[s] = idx[s] + 1
      BY <2>3 DEF TypeOK
    <3>4. idx[s] \in Nat /\ num[s] \in Nat /\ good[s] \in Nat
      BY DEF TypeOK
    <3>5. pc[s] = "filter" /\ idx[s] < num[s]
      BY <1>10 DEF FilterFree
    <3>6. Indices(s)'
      BY <2>3, <3>1, <3>3, <3>4, <3>5 DEF Indices
    <3>. QED  BY <3>2, <3>6, IndicesOfOne
  <2>. QED  BY <2>6, <2>7
<1>11. CASE FilterDone(s)
  <2>1. active[s] + good[s] \in 0..BurstSize
    BY <1>11 DEF FilterDone, AllIndices, Indices, TypeOK
  <2>2. TypeOK'
    BY <1>11, <2>1, SMTT(30) DEF FilterDone, TypeOK
  <2>3. AllIndices'
    <3>1. Indices(s)
      BY DEF AllIndices
    <3>2. OthersStay(s)
      BY <1>11 DEF FilterDone, OthersStay, TypeOK
    <3>3. Indices(s)'
      BY <1>11, <2>1, <3>1 DEF FilterDone, Indices, TypeOK
    <3>. QED  BY <3>2, <3>3, IndicesOfOne
  <2>. QED  BY <2>2, <2>3
<1>12. CASE Send(s)
  <2>1. PICK n \in HowMany : TxBurst(s, Least(n, Remaining(s)))
    BY <1>12 DEF Send
  <2>2. /\ txq' \in SUBSET Mbufs
        /\ used' \in [Sockets -> 0..BurstSize]
        /\ wire' \in [Sockets -> Seq(Nat)]
        /\ \A t \in Sockets : used'[t] <= active[t]
    BY <1>12, <2>1, BurstKeepsIndices DEF Send
  <2>2a. txq \subseteq txq'
    BY <2>1 DEF TxBurst
  <2>3. TypeOK'
    BY <1>12, <2>2, <2>2a DEF Send, TypeOK
  <2>4. \A t \in Sockets : t # s => used'[t] = used[t]
    BY <2>1 DEF TxBurst, TypeOK
  <2>5. AllIndices'
    <3>1. Indices(s)
      BY DEF AllIndices
    <3>2. OthersStay(s)
      BY <1>12, <2>4 DEF Send, OthersStay, TypeOK
    <3>3. Indices(s)'
      BY <1>12, <2>2, <3>1 DEF Send, Indices, TypeOK
    <3>. QED  BY <3>2, <3>3, IndicesOfOne
  <2>. QED  BY <2>3, <2>5
<1>13. CASE SendBack(s)
  <2>1. PICK n \in HowMany :
          /\ hdr' \in [Mbufs -> {"in", "out", "foreign"}]
          /\ TxBurst(s, Least(n, Remaining(s)))
          /\ TurnedUntil(s, used[s] + Least(n, Remaining(s)))
    BY <1>13 DEF SendBack, TypeOK, Swapped
  <2>2. /\ txq' \in SUBSET Mbufs
        /\ used' \in [Sockets -> 0..BurstSize]
        /\ wire' \in [Sockets -> Seq(Nat)]
        /\ \A t \in Sockets : used'[t] <= active[t]
    BY <1>13, <2>1, BurstKeepsIndices DEF SendBack
  <2>2a. used[s] + Least(n, Remaining(s)) \in 0 .. BurstSize
    <3>1. /\ n \in Nat /\ active[s] \in 0 .. BurstSize /\ used[s] \in Nat
          /\ used[s] <= active[s] /\ BurstSize \in Nat
      BY <1>13, DpdkAssumption DEF TypeOK, AllIndices, Indices, SendBack
    <3>. QED  BY <3>1 DEF Least, Remaining
  <2>2b. turned' \in [Sockets -> 0 .. BurstSize] /\ again' \in SUBSET txq'
    <3>1. txq \subseteq txq'
      BY <2>1 DEF TxBurst
    <3>. QED  BY <2>1, <2>2a, <3>1 DEF TurnedUntil, TypeOK
  <2>3. TypeOK'
    BY <1>13, <2>1, <2>2, <2>2b DEF SendBack, TypeOK
  <2>4. \A t \in Sockets : t # s => used'[t] = used[t]
    BY <2>1 DEF TxBurst, TypeOK
  <2>5. AllIndices'
    <3>1. Indices(s)
      BY DEF AllIndices
    <3>2. OthersStay(s)
      BY <1>13, <2>4 DEF SendBack, OthersStay, TypeOK
    <3>3. Indices(s)'
      BY <1>13, <2>2, <3>1 DEF SendBack, Indices, TypeOK
    <3>. QED  BY <3>2, <3>3, IndicesOfOne
  <2>. QED  BY <2>3, <2>5
<1>. QED
  BY <1>1, <1>2, <1>3, <1>4, <1>5, <1>6, <1>7, <1>8, <1>9, <1>10, <1>11,
     <1>12, <1>13 DEF Step

LEMMA NextIndex == IndexInv /\ HoldsMbufs /\ [Next]_vars => IndexInv'
<1> SUFFICES ASSUME IndexInv, HoldsMbufs, [Next]_vars PROVE IndexInv'
  OBVIOUS
<1>1. CASE Arrive
  <2>1. PICK m \in pool : rxq' = Append(rxq, m)
    BY <1>1 DEF Arrive
  <2>2. rxq' \in Seq(Mbufs)
    BY <2>1 DEF IndexInv, TypeOK
  <2>. QED  BY <1>1, <2>2 DEF Arrive, IndexInv, TypeOK, AllIndices, Indices,
                              locals
<1>2. CASE TxDone
  BY <1>2 DEF TxDone, IndexInv, TypeOK, AllIndices, Indices, locals
<1>3. CASE \E s \in Sockets : Step(s)
  BY <1>3, StepIndex
<1>4. CASE UNCHANGED vars
  BY <1>4 DEF vars, nic, locals, IndexInv, TypeOK, AllIndices, Indices
<1>. QED  BY <1>1, <1>2, <1>3, <1>4 DEF Next

-----------------------------------------------------------------------------
(* Where the mbufs are. *)

(* NoLeak, mbuf by mbuf. *)
Somewhere(m) ==
  \/ m \in pool \/ m \in txq \/ m \in InRx
  \/ \E s \in Sockets, k \in Places : Owns(s, k) /\ packets[s][k] = m

AllSomewhere == \A m \in Mbufs : Somewhere(m)

Conserved == AllSomewhere /\ OwnedOnce

LEMMA ConservedImplies ==
  ASSUME TypeOK, Conserved
  PROVE  Conservation /\ HoldsMbufs
<1>1. HoldsMbufs
  BY DEF Conserved, OwnedOnce, HoldsMbufs
<1>2. InRx \subseteq Mbufs
  BY DEF InRx, TypeOK
<1>3. ASSUME NEW s \in Sockets PROVE Held(s) \subseteq Mbufs
  BY <1>1 DEF Held, HoldsMbufs
<1>4. ASSUME NEW m \in Mbufs
      PROVE  m \in pool \cup txq \cup InRx \cup UNION {Held(s) : s \in Sockets}
  <2>1. CASE m \in pool \/ m \in txq \/ m \in InRx
    BY <2>1
  <2>2. CASE \E s \in Sockets, k \in Places : Owns(s, k) /\ packets[s][k] = m
    <3>1. PICK s \in Sockets, k \in Places : Owns(s, k) /\ packets[s][k] = m
      BY <2>2
    <3>2. m \in Held(s)
      BY <3>1 DEF Held
    <3>. QED  BY <3>2
  <2>. QED  BY <2>1, <2>2 DEF Conserved, AllSomewhere, Somewhere
<1>5. NoLeak
  BY <1>2, <1>3, <1>4 DEF NoLeak, TypeOK
<1>. QED  BY <1>1, <1>5 DEF Conservation, Conserved

(* Nothing moves. *)
LEMMA Unmoved ==
  ASSUME Conserved, UNCHANGED << pool, txq, rxq >>,
         \A s \in Sockets, k \in Places :
           /\ Owns(s, k)' <=> Owns(s, k)
           /\ Owns(s, k) => packets'[s][k] = packets[s][k]
  PROVE  Conserved'
<1>1. InRx' = InRx
  BY DEF InRx
<1>2. AllSomewhere'
  BY <1>1 DEF Conserved, AllSomewhere, Somewhere
<1>3. OwnedOnce'
  BY <1>1 DEF Conserved, OwnedOnce
<1>. QED  BY <1>2, <1>3 DEF Conserved

(* A socket gives some of the mbufs it owns to the pool or to the port. *)
LEMMA Released ==
  ASSUME Conserved, NEW s \in Sockets, NEW G \in SUBSET Places, NEW X,
         X = {packets[s][k] : k \in G},
         \A k \in G : Owns(s, k),
         \/ pool' = pool \cup X /\ txq' = txq
         \/ pool' = pool /\ txq' = txq \cup X,
         UNCHANGED << rxq, packets >>,
         \A t \in Sockets, k \in Places :
           Owns(t, k)' <=> Owns(t, k) /\ ~ (t = s /\ k \in G)
  PROVE  Conserved'
<1>1. InRx' = InRx
  BY DEF InRx
<1>2. \A x \in X : x \notin pool /\ x \notin txq /\ x \notin InRx
  BY DEF Conserved, OwnedOnce
<1>3. AllSomewhere'
  <2> SUFFICES ASSUME NEW m \in Mbufs PROVE Somewhere(m)'
    BY DEF AllSomewhere
  <2>1. CASE m \in pool \/ m \in txq \/ m \in InRx
    BY <1>1, <2>1 DEF Somewhere
  <2>2. CASE \E t \in Sockets, k \in Places : Owns(t, k) /\ packets[t][k] = m
    <3>1. PICK t \in Sockets, k \in Places : Owns(t, k) /\ packets[t][k] = m
      BY <2>2
    <3>2. CASE t = s /\ k \in G
      BY <3>1, <3>2 DEF Somewhere
    <3>3. CASE ~ (t = s /\ k \in G)
      BY <3>1, <3>3 DEF Somewhere
    <3>. QED  BY <3>2, <3>3
  <2>. QED  BY <2>1, <2>2 DEF Conserved, AllSomewhere, Somewhere
<1>4. OwnedOnce'
  <2>1. pool' \cap txq' = {} /\ (pool' \cup txq') \cap InRx' = {}
    BY <1>1, <1>2 DEF Conserved, OwnedOnce
  <2>2. \A j, k \in 1..Len(rxq') : j # k => rxq'[j] # rxq'[k]
    BY DEF Conserved, OwnedOnce
  <2>3. ASSUME NEW t \in Sockets, NEW k \in Places, Owns(t, k)'
        PROVE  /\ packets'[t][k] \in Mbufs \ (pool' \cup txq' \cup InRx')
               /\ \A u \in Sockets, j \in Places :
                    (Owns(u, j)' /\ packets'[u][j] = packets'[t][k])
                      => u = t /\ j = k
    <3>1. Owns(t, k) /\ ~ (t = s /\ k \in G)
      BY <2>3
    <3>2. packets[t][k] \in Mbufs \ (pool \cup txq \cup InRx)
      BY <3>1 DEF Conserved, OwnedOnce
    <3>3. packets[t][k] \notin X
      BY <3>1 DEF Conserved, OwnedOnce
    <3>4. \A u \in Sockets, j \in Places :
            (Owns(u, j) /\ packets[u][j] = packets[t][k]) => u = t /\ j = k
      BY <3>1 DEF Conserved, OwnedOnce
    <3>. QED  BY <1>1, <3>2, <3>3, <3>4
  <2>. QED  BY <2>1, <2>2, <2>3 DEF OwnedOnce
<1>. QED  BY <1>3, <1>4 DEF Conserved

(* The operations that only move the program counter and the indices. *)
LEMMA QuietStep ==
  ASSUME IndexInv, Conserved, NEW s \in Sockets,
         \/ Call(s) \/ FreeDone(s) \/ AllocFails(s) \/ AllocDone(s)
         \/ Fill(s) \/ FilterDone(s)
  PROVE  Conserved'
<1> USE DEF IndexInv, TypeOK, Goto, ForgetLocals, locals, nic
<1> DEFINE Same(t, k) == /\ Owns(t, k)' <=> Owns(t, k)
                         /\ Owns(t, k) => packets'[t][k] = packets[t][k]
<1>1. ASSUME Call(s), NEW t \in Sockets, NEW k \in Places PROVE Same(t, k)
  BY <1>1 DEF Call, Owns
<1>2. ASSUME FreeDone(s), NEW t \in Sockets, NEW k \in Places PROVE Same(t, k)
  BY <1>2, SMTT(30) DEF FreeDone, Owns, AllIndices, Indices
<1>3. ASSUME AllocFails(s), NEW t \in Sockets, NEW k \in Places PROVE Same(t, k)
  <2>1. /\ pc[s] = "alloc" /\ pc' = [pc EXCEPT ![s] = "fill"]
        /\ packets' = [packets EXCEPT ![s][idx[s]] = NULL]
        /\ UNCHANGED << active, used, num, idx, good >>
    BY <1>3 DEF AllocFails
  <2>2. k \in Nat /\ idx[s] \in Nat /\ (k < idx[s] => k # idx[s])
    OBVIOUS
  <2>3. Owns(t, k)' <=> Owns(t, k)
    BY <2>1 DEF Owns
  <2>4. Owns(t, k) /\ t = s => k # idx[s]
    BY <2>1, <2>2 DEF Owns
  <2>5. ~ (t = s /\ k = idx[s]) => packets'[t][k] = packets[t][k]
    BY <2>1
  <2>. QED  BY <2>3, <2>4, <2>5
<1>4. ASSUME AllocDone(s), NEW t \in Sockets, NEW k \in Places PROVE Same(t, k)
  BY <1>4 DEF AllocDone, Owns
<1>5. ASSUME Fill(s), NEW t \in Sockets, NEW k \in Places PROVE Same(t, k)
  <2>1. /\ pc[s] = "fill" /\ active[s] = 0 /\ used[s] = 0
        /\ pc' \in [Sockets -> {"idle", "free", "alloc", "fill", "rx",
                               "filter", "fault"}]
        /\ pc'[s] \in {"idle", "fault"}
        /\ \A u \in Sockets : u # s => pc'[u] = pc[u]
    BY <1>5 DEF Fill, AllIndices, Indices
  <2>. QED  BY <1>5, <2>1, SMTT(30) DEF Fill, Owns
<1>6. ASSUME FilterDone(s), NEW t \in Sockets, NEW k \in Places PROVE Same(t, k)
  BY <1>6, SMTT(30) DEF FilterDone, Owns, AllIndices, Indices
<1>7. UNCHANGED << pool, txq, rxq >>
  BY DEF Call, FreeDone, AllocFails, AllocDone, Fill, FilterDone
<1>8. \A t \in Sockets, k \in Places : Same(t, k)
  BY <1>1, <1>2, <1>3, <1>4, <1>5, <1>6
<1>. QED  BY <1>7, <1>8, Unmoved

LEMMA FreeStep ==
  ASSUME IndexInv, Conserved, NEW s \in Sockets, FreeOne(s) \/ FilterFree(s)
  PROVE  Conserved'
<1>1. CASE FreeOne(s)
  <2>1. /\ pc[s] = "free" /\ used[s] < active[s]
        /\ pool' = pool \cup {packets[s][used[s]]} /\ txq' = txq
        /\ used' = [used EXCEPT ![s] = @ + 1]
        /\ UNCHANGED << rxq, packets, active, pc, num, idx, good >>
    BY <1>1 DEF FreeOne, nic, locals
  <2>2. /\ used \in [Sockets -> 0..BurstSize]
        /\ active \in [Sockets -> 0..BurstSize]
    BY DEF IndexInv, TypeOK
  <2>3. used[s] \in Places /\ Owns(s, used[s])
    BY <2>1, <2>2 DEF Owns
  <2> DEFINE G == {used[s]}
  <2> DEFINE X == {packets[s][k] : k \in G}
  <2>4. \A t \in Sockets, k \in Places :
          Owns(t, k)' <=> Owns(t, k) /\ ~ (t = s /\ k \in G)
    <3> SUFFICES ASSUME NEW t \in Sockets, NEW k \in Places
                 PROVE  Owns(t, k)' <=> Owns(t, k) /\ ~ (t = s /\ k \in G)
      OBVIOUS
    <3>1. CASE t = s
      <4>1. used'[s] = used[s] + 1
        BY <2>1, <2>2
      <4>2. used[s] + 1 <= k <=> used[s] <= k /\ k # used[s]
        BY <2>2
      <4>. QED  BY <2>1, <3>1, <4>1, <4>2 DEF Owns
    <3>2. CASE t # s
      <4>1. used'[t] = used[t]
        BY <2>1, <2>2, <3>2
      <4>. QED  BY <2>1, <3>2, <4>1 DEF Owns
    <3>. QED  BY <3>1, <3>2
  <2>5. pool' = pool \cup X /\ txq' = txq
    BY <2>1
  <2>6. G \in SUBSET Places /\ \A k \in G : Owns(s, k)
    BY <2>3
  <2>7. UNCHANGED << rxq, packets >>
    BY <2>1
  <2>8. X = {packets[s][k] : k \in G}
    OBVIOUS
  <2> HIDE DEF G, X
  <2>. QED  BY <2>4, <2>5, <2>6, <2>7, <2>8, Released
<1>2. CASE FilterFree(s)
  <2>1. /\ pc[s] = "filter" /\ idx[s] < num[s]
        /\ pool' = pool \cup {packets[s][idx[s]]} /\ txq' = txq
        /\ idx' = [idx EXCEPT ![s] = @ + 1]
        /\ UNCHANGED << rxq, packets, active, used, pc, num, good >>
    BY <1>2 DEF FilterFree, nic, locals
  <2>2. /\ idx \in [Sockets -> 0..BurstSize]
        /\ num \in [Sockets -> 0..BurstSize]
        /\ good \in [Sockets -> 0..BurstSize] /\ good[s] <= idx[s]
    BY DEF IndexInv, TypeOK, AllIndices, Indices
  <2>3. idx[s] \in Places /\ Owns(s, idx[s])
    BY <2>1, <2>2 DEF Owns
  <2> DEFINE G == {idx[s]}
  <2> DEFINE X == {packets[s][k] : k \in G}
  <2>4. \A t \in Sockets, k \in Places :
          Owns(t, k)' <=> Owns(t, k) /\ ~ (t = s /\ k \in G)
    <3> SUFFICES ASSUME NEW t \in Sockets, NEW k \in Places
                 PROVE  Owns(t, k)' <=> Owns(t, k) /\ ~ (t = s /\ k \in G)
      OBVIOUS
    <3>1. CASE t = s
      <4>1. idx'[s] = idx[s] + 1
        BY <2>1, <2>2
      <4>2. /\ idx[s] + 1 <= k <=> idx[s] <= k /\ k # idx[s]
            /\ k < good[s] => k # idx[s]
        BY <2>2
      <4>. QED  BY <2>1, <3>1, <4>1, <4>2 DEF Owns
    <3>2. CASE t # s
      <4>1. idx'[t] = idx[t]
        BY <2>1, <2>2, <3>2
      <4>. QED  BY <2>1, <3>2, <4>1 DEF Owns
    <3>. QED  BY <3>1, <3>2
  <2>5. pool' = pool \cup X /\ txq' = txq
    BY <2>1
  <2>6. G \in SUBSET Places /\ \A k \in G : Owns(s, k)
    BY <2>3
  <2>7. UNCHANGED << rxq, packets >>
    BY <2>1
  <2>8. X = {packets[s][k] : k \in G}
    OBVIOUS
  <2> HIDE DEF G, X
  <2>. QED  BY <2>4, <2>5, <2>6, <2>7, <2>8, Released
<1>. QED  BY <1>1, <1>2

(* send, and send_back after it has turned the headers. *)
LEMMA SendStep ==
  ASSUME IndexInv, Conserved, NEW s \in Sockets, NEW n \in HowMany,
         pc[s] = "idle", TxBurst(s, Least(n, Remaining(s))),
         UNCHANGED << pool, rxq, packets, active, pc, num, idx, good >>
  PROVE  Conserved'
<1>0. /\ used \in [Sockets -> 0..BurstSize]
      /\ active \in [Sockets -> 0..BurstSize] /\ used[s] <= active[s]
  BY DEF IndexInv, AllIndices, Indices, TypeOK
<1> DEFINE howmany == Least(n, Remaining(s))
<1>1. howmany \in Nat /\ howmany <= active[s] - used[s]
  BY <1>0 DEF Least, Remaining
<1>2. PICK c \in 0..howmany :
           /\ txq' = txq \cup Range0(s, used[s], used[s] + c)
           /\ used' = [used EXCEPT ![s] = @ + c]
  BY <1>1, Accepts DEF IndexInv
<1>3. c \in Nat /\ c <= active[s] - used[s]
  <2> HIDE DEF howmany
  <2>. QED  BY <1>0, <1>1
<1> DEFINE G == used[s] .. (used[s] + c) - 1
<1> DEFINE X == {packets[s][j] : j \in G}
<1>4. G \in SUBSET Places /\ \A j \in G : Owns(s, j)
  BY <1>0, <1>3 DEF Owns
<1>5. \A t \in Sockets, j \in Places :
        Owns(t, j)' <=> Owns(t, j) /\ ~ (t = s /\ j \in G)
  <2> SUFFICES ASSUME NEW t \in Sockets, NEW j \in Places
               PROVE  Owns(t, j)' <=> Owns(t, j) /\ ~ (t = s /\ j \in G)
    OBVIOUS
  <2>1. CASE t = s
    <3>1. used'[s] = used[s] + c
      BY <1>0, <1>2
    <3>2. used[s] + c <= j <=> used[s] <= j /\ j \notin G
      BY <1>0, <1>3
    <3> HIDE DEF G
    <3>. QED  BY <2>1, <3>1, <3>2 DEF Owns
  <2>2. CASE t # s
    <3>1. used'[t] = used[t]
      BY <1>0, <1>2, <2>2
    <3> HIDE DEF G
    <3>. QED  BY <2>2, <3>1 DEF Owns
  <2>. QED  BY <2>1, <2>2
<1>6. pool' = pool /\ txq' = txq \cup X
  <2>1. Range0(s, used[s], used[s] + c) = X
    BY DEF Range0
  <2> HIDE DEF X
  <2>. QED  BY <1>2, <2>1
<1>7. X = {packets[s][j] : j \in G}
  OBVIOUS
<1> HIDE DEF G, X
<1>. QED  BY <1>4, <1>5, <1>6, <1>7, Released

LEMMA AllocStep ==
  ASSUME IndexInv, Conserved, NEW s \in Sockets, AllocOne(s)
  PROVE  Conserved'
<1>0. /\ packets \in [Sockets -> [Places -> Mbufs \cup {NULL}]]
      /\ idx \in [Sockets -> 0..BurstSize] /\ num \in [Sockets -> 0..BurstSize]
      /\ pool \in SUBSET Mbufs
  BY DEF IndexInv, TypeOK
<1>b. /\ pc[s] = "alloc" /\ idx[s] < num[s]
      /\ idx' = [idx EXCEPT ![s] = @ + 1]
      /\ UNCHANGED << txq, rxq, active, used, pc, num, good >>
  BY DEF AllocOne, nic
<1>1. PICK m \in pool : /\ pool' = pool \ {m}
                        /\ packets' = [packets EXCEPT ![s][idx[s]] = m]
  BY DEF AllocOne
<1>2. idx[s] \in Places /\ ~ Owns(s, idx[s]) /\ m \in Mbufs
  BY <1>0, <1>b DEF Owns
<1>3. \A t \in Sockets, k \in Places :
        Owns(t, k)' <=> Owns(t, k) \/ (t = s /\ k = idx[s])
  BY <1>0, <1>b DEF Owns
<1>4. packets'[s][idx[s]] = m
  BY <1>0, <1>1, <1>2
<1>5. \A t \in Sockets, k \in Places :
        ~ (t = s /\ k = idx[s]) => packets'[t][k] = packets[t][k]
  BY <1>0, <1>1, <1>2
<1>6. InRx' = InRx /\ txq' = txq /\ rxq' = rxq
  BY <1>b DEF InRx
<1>7. m \notin txq /\ m \notin InRx
  BY DEF Conserved, OwnedOnce
<1>8. \A t \in Sockets, k \in Places : Owns(t, k) => packets[t][k] # m
  BY DEF Conserved, OwnedOnce
<1>9. AllSomewhere'
  <2> SUFFICES ASSUME NEW x \in Mbufs PROVE Somewhere(x)'
    BY DEF AllSomewhere
  <2>1. CASE x = m
    BY <1>2, <1>3, <1>4, <2>1 DEF Somewhere
  <2>2. CASE x # m /\ (x \in pool \/ x \in txq \/ x \in InRx)
    BY <1>1, <1>6, <2>2 DEF Somewhere
  <2>3. CASE \E t \in Sockets, k \in Places : Owns(t, k) /\ packets[t][k] = x
    <3>1. PICK t \in Sockets, k \in Places : Owns(t, k) /\ packets[t][k] = x
      BY <2>3
    <3>2. Owns(t, k)' /\ packets'[t][k] = x
      BY <1>2, <1>3, <1>5, <3>1
    <3>. QED  BY <3>2 DEF Somewhere
  <2>. QED  BY <2>1, <2>2, <2>3 DEF Conserved, AllSomewhere, Somewhere
<1>10. OwnedOnce'
  <2>1. pool' \cap txq' = {} /\ (pool' \cup txq') \cap InRx' = {}
    BY <1>1, <1>6 DEF Conserved, OwnedOnce
  <2>2. \A j, k \in 1..Len(rxq') : j # k => rxq'[j] # rxq'[k]
    BY <1>6 DEF Conserved, OwnedOnce
  <2>3. ASSUME NEW t \in Sockets, NEW k \in Places, Owns(t, k)'
        PROVE  packets'[t][k] \in Mbufs \ (pool' \cup txq' \cup InRx')
    <3>1. CASE t = s /\ k = idx[s]
      BY <1>1, <1>2, <1>4, <1>6, <1>7, <3>1
    <3>2. CASE ~ (t = s /\ k = idx[s])
      BY <1>1, <1>3, <1>5, <1>6, <2>3, <3>2 DEF Conserved, OwnedOnce
    <3>. QED  BY <3>1, <3>2
  <2>4. ASSUME NEW t \in Sockets, NEW k \in Places, Owns(t, k)',
               NEW u \in Sockets, NEW j \in Places, Owns(u, j)',
               packets'[u][j] = packets'[t][k]
        PROVE  u = t /\ j = k
    <3> HIDE DEF Places
    <3>1. CASE t = s /\ k = idx[s]
      <4>1. packets'[u][j] = m
        BY <1>4, <2>4, <3>1
      <4>. QED  BY <1>3, <1>5, <1>8, <2>4, <3>1, <4>1
    <3>2. CASE u = s /\ j = idx[s]
      <4>1. packets'[t][k] = m
        BY <1>4, <2>4, <3>2
      <4>. QED  BY <1>3, <1>5, <1>8, <2>4, <3>2, <4>1
    <3>3. CASE ~ (t = s /\ k = idx[s]) /\ ~ (u = s /\ j = idx[s])
      <4>1. Owns(t, k) /\ Owns(u, j) /\ packets[u][j] = packets[t][k]
        BY <1>3, <1>5, <2>4, <3>3
      <4>. QED  BY <4>1 DEF Conserved, OwnedOnce
    <3>. QED  BY <3>1, <3>2, <3>3
  <2>. QED  BY <2>1, <2>2, <2>3, <2>4 DEF OwnedOnce
<1>. QED  BY <1>9, <1>10 DEF Conserved

(* recv takes the first mbufs of the ring. *)
LEMMA RxStep ==
  ASSUME IndexInv, Conserved, NEW s \in Sockets, RxBurst(s)
  PROVE  Conserved'
<1>1. PICK n \in 0 .. Least(num[s], Len(rxq)) :
        /\ packets' = [packets EXCEPT ![s] =
             [k \in Places |-> IF k < n THEN rxq[k + 1] ELSE @[k]]]
        /\ rxq' = SubSeq(rxq, n + 1, Len(rxq))
        /\ num' = [num EXCEPT ![s] = n]
  BY DEF RxBurst
<1>2. /\ packets \in [Sockets -> [Places -> Mbufs \cup {NULL}]]
      /\ num \in [Sockets -> 0..BurstSize]
      /\ pc \in [Sockets -> {"idle", "free", "alloc", "fill", "rx", "filter",
                             "fault"}]
      /\ rxq \in Seq(Mbufs) /\ idx[s] = 0 /\ good[s] = 0 /\ pc[s] = "rx"
  BY DEF IndexInv, TypeOK, AllIndices, Indices, RxBurst, Goto
<1>3. /\ pc' = [pc EXCEPT ![s] = "filter"]
      /\ UNCHANGED << pool, txq, active, used, idx, good >>
  BY DEF RxBurst, Goto
<1>4. n \in Nat /\ n <= num[s] /\ n <= Len(rxq) /\ n <= BurstSize
  <2>1. num[s] \in 0..BurstSize /\ num[s] \in Int /\ Len(rxq) \in Int
    BY <1>2
  <2> DEFINE limit == Least(num[s], Len(rxq))
  <2>2. limit \in Int /\ limit <= num[s] /\ limit <= Len(rxq)
    BY <2>1, LeastIsLess
  <2>3. n \in 0..limit
    OBVIOUS
  <2> HIDE DEF limit
  <2>. QED  BY <2>1, <2>2, <2>3
<1>5. /\ Len(rxq') = Len(rxq) - n
      /\ \A j \in 1..Len(rxq') : j + n \in 1..Len(rxq) /\ rxq'[j] = rxq[j + n]
  BY <1>1, <1>2, <1>4
<1>6. \A j \in n + 1 .. Len(rxq) : rxq[j] \in InRx'
  <2>1. ASSUME NEW j \in n + 1 .. Len(rxq)
        PROVE  j - n \in 1..Len(rxq') /\ rxq'[j - n] = rxq[j]
    BY <1>2, <1>4, <1>5
  <2>. QED  BY <2>1 DEF InRx
<1>7. \A x \in InRx' : \E j \in n + 1 .. Len(rxq) : x = rxq[j]
  <2> SUFFICES ASSUME NEW i \in 1..Len(rxq')
               PROVE  \E j \in n + 1 .. Len(rxq) : rxq'[i] = rxq[j]
    BY DEF InRx
  <2>1. i + n \in n + 1 .. Len(rxq)
    BY <1>2, <1>4, <1>5
  <2>. QED  BY <1>5, <2>1
<1>8. ASSUME NEW t \in Sockets, NEW k \in Places, t # s
      PROVE  (Owns(t, k)' <=> Owns(t, k)) /\ packets'[t][k] = packets[t][k]
  <2>1. pc'[t] = pc[t] /\ num'[t] = num[t] /\ packets'[t] = packets[t]
    BY <1>1, <1>2, <1>3, <1>8
  <2>. QED  BY <1>3, <2>1 DEF Owns
<1>9. ASSUME NEW k \in Places
      PROVE  /\ ~ Owns(s, k)
             /\ Owns(s, k)' <=> k < n
             /\ k < n => /\ k + 1 \in 1..Len(rxq) /\ k + 1 \in 1..n
                         /\ packets'[s][k] = rxq[k + 1]
  <2>1. pc'[s] = "filter" /\ num'[s] = n /\ idx'[s] = 0 /\ good'[s] = 0
    BY <1>1, <1>2, <1>3
  <2>2. Owns(s, k)' <=> k < n
    BY <1>4, <2>1 DEF Owns
  <2>3. ~ Owns(s, k)
    BY <1>2 DEF Owns
  <2>4. packets'[s][k] = IF k < n THEN rxq[k + 1] ELSE packets[s][k]
    BY <1>1, <1>2
  <2>. QED  BY <1>2, <1>4, <2>2, <2>3, <2>4
<1>10. AllSomewhere'
  <2> SUFFICES ASSUME NEW x \in Mbufs PROVE Somewhere(x)'
    BY DEF AllSomewhere
  <2>1. CASE x \in pool \/ x \in txq
    BY <1>3, <2>1 DEF Somewhere
  <2>2. CASE x \in InRx
    <3>1. PICK j \in 1..Len(rxq) : x = rxq[j]
      BY <2>2 DEF InRx
    <3>2. CASE j <= n
      <4>1. j - 1 \in Places /\ j - 1 < n /\ (j - 1) + 1 = j
        BY <1>2, <1>4, <3>2
      <4>2. Owns(s, j - 1)' /\ packets'[s][j - 1] = x
        BY <1>9, <3>1, <4>1
      <4>. QED  BY <4>1, <4>2 DEF Somewhere
    <3>3. CASE j > n
      <4>1. j \in n + 1 .. Len(rxq)
        BY <1>2, <1>4, <3>3
      <4>. QED  BY <1>6, <3>1, <4>1 DEF Somewhere
    <3>. QED  BY <1>2, <1>4, <3>2, <3>3
  <2>3. CASE \E t \in Sockets, k \in Places : Owns(t, k) /\ packets[t][k] = x
    BY <1>8, <1>9, <2>3 DEF Somewhere
  <2>. QED  BY <2>1, <2>2, <2>3 DEF Conserved, AllSomewhere, Somewhere
<1>11. OwnedOnce'
  <2>1. InRx' \subseteq InRx
    <3> SUFFICES ASSUME NEW x \in InRx' PROVE x \in InRx
      OBVIOUS
    <3>1. PICK j \in n + 1 .. Len(rxq) : x = rxq[j]
      BY <1>7
    <3>2. j \in 1..Len(rxq)
      BY <1>4
    <3>. QED  BY <3>1, <3>2 DEF InRx
  <2>2. pool' \cap txq' = {} /\ (pool' \cup txq') \cap InRx' = {}
    BY <1>3, <2>1 DEF Conserved, OwnedOnce
  <2>3. \A j, k \in 1..Len(rxq') : j # k => rxq'[j] # rxq'[k]
    <3> SUFFICES ASSUME NEW j \in 1..Len(rxq'), NEW k \in 1..Len(rxq'), j # k
                 PROVE  rxq'[j] # rxq'[k]
      OBVIOUS
    <3>1. /\ j + n \in 1..Len(rxq) /\ k + n \in 1..Len(rxq)
          /\ rxq'[j] = rxq[j + n] /\ rxq'[k] = rxq[k + n] /\ j + n # k + n
      BY <1>4, <1>5
    <3>. QED  BY <3>1 DEF Conserved, OwnedOnce
  <2>4. \A i \in 1..n : rxq[i] \notin InRx'
    <3> SUFFICES ASSUME NEW i \in 1..n, NEW j \in n + 1 .. Len(rxq)
                 PROVE  rxq[i] # rxq[j]
      BY <1>7
    <3>1. i \in 1..Len(rxq) /\ j \in 1..Len(rxq) /\ i # j
      BY <1>2, <1>4
    <3>. QED  BY <3>1 DEF Conserved, OwnedOnce
  <2>5. ASSUME NEW t \in Sockets, NEW k \in Places, Owns(t, k)'
        PROVE  packets'[t][k] \in Mbufs \ (pool' \cup txq' \cup InRx')
    <3>1. CASE t = s
      <4>1. /\ k + 1 \in 1..Len(rxq) /\ k + 1 \in 1..n
            /\ packets'[s][k] = rxq[k + 1]
        BY <1>9, <2>5, <3>1
      <4>2. rxq[k + 1] \in Mbufs /\ rxq[k + 1] \in InRx
        BY <1>2, <4>1 DEF InRx
      <4>. QED  BY <1>3, <2>4, <3>1, <4>1, <4>2 DEF Conserved, OwnedOnce
    <3>2. CASE t # s
      <4>1. Owns(t, k) /\ packets'[t][k] = packets[t][k]
        BY <1>8, <2>5, <3>2
      <4>. QED  BY <1>3, <2>1, <4>1 DEF Conserved, OwnedOnce
    <3>. QED  BY <3>1, <3>2
  <2>6. ASSUME NEW t \in Sockets, NEW k \in Places, Owns(t, k)',
               NEW u \in Sockets, NEW j \in Places, Owns(u, j)', t # s,
               packets'[u][j] = packets'[t][k]
        PROVE  u = t /\ j = k
    <3>1. Owns(t, k) /\ packets'[t][k] = packets[t][k]
      BY <1>8, <2>6
    <3>2. packets[t][k] \notin InRx
      BY <3>1 DEF Conserved, OwnedOnce
    <3>3. CASE u = s
      <4>1. packets'[s][j] \in InRx
        BY <1>9, <2>6, <3>3 DEF InRx
      <4>. QED  BY <2>6, <3>1, <3>2, <3>3, <4>1
    <3>4. CASE u # s
      <4>1. Owns(u, j) /\ packets'[u][j] = packets[u][j]
        BY <1>8, <2>6, <3>4
      <4>2. packets[u][j] = packets[t][k]
        BY <2>6, <3>1, <4>1
      <4>. QED  BY <3>1, <4>1, <4>2 DEF Conserved, OwnedOnce
    <3>. QED  BY <3>3, <3>4
  <2>7. ASSUME NEW k \in Places, Owns(s, k)', NEW j \in Places, Owns(s, j)',
               packets'[s][j] = packets'[s][k]
        PROVE  j = k
    <3>1. /\ k + 1 \in 1..Len(rxq) /\ j + 1 \in 1..Len(rxq)
          /\ rxq[j + 1] = rxq[k + 1]
      BY <1>9, <2>7
    <3>2. j + 1 = k + 1
      BY <3>1 DEF Conserved, OwnedOnce
    <3>. QED  BY <3>2
  <2>8. ASSUME NEW t \in Sockets, NEW k \in Places, Owns(t, k)',
               NEW u \in Sockets, NEW j \in Places, Owns(u, j)',
               packets'[u][j] = packets'[t][k]
        PROVE  u = t /\ j = k
    <3>1. CASE t # s
      BY <2>6, <2>8, <3>1
    <3>2. CASE u # s
      BY <2>6, <2>8, <3>2
    <3>3. CASE t = s /\ u = s
      BY <2>7, <2>8, <3>3
    <3>. QED  BY <3>1, <3>2, <3>3
  <2>. QED  BY <2>2, <2>3, <2>5, <2>8 DEF OwnedOnce
<1>. QED  BY <1>10, <1>11 DEF Conserved

(* The filter moves a frame that it keeps down to the next kept place. *)
LEMMA KeepStep ==
  ASSUME IndexInv, Conserved, NEW s \in Sockets, FilterKeep(s)
  PROVE  Conserved'
<1> DEFINE i == idx[s]
<1> DEFINE g == good[s]
<1>1. /\ pc[s] = "filter" /\ i < num[s]
      /\ packets' = [packets EXCEPT ![s][g] = packets[s][i]]
      /\ good' = [good EXCEPT ![s] = @ + 1]
      /\ idx' = [idx EXCEPT ![s] = @ + 1]
      /\ UNCHANGED << pool, txq, rxq, active, used, pc, num >>
  BY DEF FilterKeep, nic
<1>2. /\ packets \in [Sockets -> [Places -> Mbufs \cup {NULL}]]
      /\ num \in [Sockets -> 0..BurstSize]
      /\ idx \in [Sockets -> 0..BurstSize]
      /\ good \in [Sockets -> 0..BurstSize] /\ g <= i
  BY DEF IndexInv, TypeOK, AllIndices, Indices
<1>3. i \in Places /\ g \in Places
  BY <1>1, <1>2
<1>4. Owns(s, i) /\ (Owns(s, g) => g = i)
  BY <1>1, <1>2 DEF Owns
<1>5. packets'[s][g] = packets[s][i]
  BY <1>1, <1>2, <1>3
<1>6. \A t \in Sockets, k \in Places :
        ~ (t = s /\ k = g) => packets'[t][k] = packets[t][k]
  BY <1>1, <1>2, <1>3
<1>7. \A t \in Sockets, k \in Places :
        Owns(t, k)' <=> (t = s /\ k = g) \/ (Owns(t, k) /\ ~ (t = s /\ k = i))
  <2> SUFFICES ASSUME NEW t \in Sockets, NEW k \in Places
               PROVE  Owns(t, k)' <=> \/ t = s /\ k = g
                                      \/ Owns(t, k) /\ ~ (t = s /\ k = i)
    OBVIOUS
  <2>1. CASE t = s
    <3>1. idx'[s] = i + 1 /\ good'[s] = g + 1
      BY <1>1, <1>2
    <3>2. /\ k < g + 1 <=> k = g \/ (k < g /\ k # i)
          /\ i + 1 <= k <=> i <= k /\ k # i
      BY <1>2, <1>3
    <3>. QED  BY <1>1, <2>1, <3>1, <3>2 DEF Owns
  <2>2. CASE t # s
    <3>1. idx'[t] = idx[t] /\ good'[t] = good[t]
      BY <1>1, <1>2, <2>2
    <3>. QED  BY <1>1, <2>2, <3>1 DEF Owns
  <2>. QED  BY <2>1, <2>2
<1>8. InRx' = InRx
  BY <1>1 DEF InRx
<1> HIDE DEF i, g, Places
<1>9. AllSomewhere'
  <2> SUFFICES ASSUME NEW x \in Mbufs PROVE Somewhere(x)'
    BY DEF AllSomewhere
  <2>1. CASE x \in pool \/ x \in txq \/ x \in InRx
    BY <1>1, <1>8, <2>1 DEF Somewhere
  <2>2. CASE x = packets[s][i]
    BY <1>3, <1>5, <1>7, <2>2 DEF Somewhere
  <2>3. ASSUME NEW t \in Sockets, NEW k \in Places, Owns(t, k),
               packets[t][k] = x, x # packets[s][i]
        PROVE  Somewhere(x)'
    <3>1. ~ (t = s /\ k = i) /\ ~ (t = s /\ k = g)
      BY <1>4, <2>3
    <3>2. Owns(t, k)' /\ packets'[t][k] = x
      BY <1>6, <1>7, <2>3, <3>1
    <3>. QED  BY <3>2 DEF Somewhere
  <2>. QED  BY <2>1, <2>2, <2>3 DEF Conserved, AllSomewhere, Somewhere
<1>10. OwnedOnce'
  <2>1. /\ pool' \cap txq' = {} /\ (pool' \cup txq') \cap InRx' = {}
        /\ \A j, k \in 1..Len(rxq') : j # k => rxq'[j] # rxq'[k]
    BY <1>1, <1>8 DEF Conserved, OwnedOnce
  <2> DEFINE From(t, k) == IF t = s /\ k = g THEN i ELSE k
  <2>2. ASSUME NEW t \in Sockets, NEW k \in Places, Owns(t, k)'
        PROVE  /\ From(t, k) \in Places /\ Owns(t, From(t, k))
               /\ packets'[t][k] = packets[t][From(t, k)]
    BY <1>3, <1>4, <1>5, <1>6, <1>7, <2>2
  <2>3. ASSUME NEW t \in Sockets, NEW k \in Places, Owns(t, k)',
               NEW j \in Places, Owns(t, j)', From(t, j) = From(t, k)
        PROVE  j = k
    BY <1>7, <2>3
  <2> HIDE DEF From
  <2>4. ASSUME NEW t \in Sockets, NEW k \in Places, Owns(t, k)'
        PROVE  packets'[t][k] \in Mbufs \ (pool' \cup txq' \cup InRx')
    <3>1. packets[t][From(t, k)] \in Mbufs \ (pool \cup txq \cup InRx)
      BY <2>2, <2>4 DEF Conserved, OwnedOnce
    <3>. QED  BY <1>1, <1>8, <2>2, <2>4, <3>1
  <2>5. ASSUME NEW t \in Sockets, NEW k \in Places, Owns(t, k)',
               NEW u \in Sockets, NEW j \in Places, Owns(u, j)',
               packets'[u][j] = packets'[t][k]
        PROVE  u = t /\ j = k
    <3>1. /\ From(t, k) \in Places /\ Owns(t, From(t, k))
          /\ From(u, j) \in Places /\ Owns(u, From(u, j))
          /\ packets[u][From(u, j)] = packets[t][From(t, k)]
      BY <2>2, <2>5
    <3>2. u = t /\ From(u, j) = From(t, k)
      BY <3>1 DEF Conserved, OwnedOnce
    <3>. QED  BY <2>3, <2>5, <3>2
  <2>. QED  BY <2>1, <2>4, <2>5 DEF OwnedOnce
<1>. QED  BY <1>9, <1>10 DEF Conserved

(* The port takes an mbuf for a frame, or gives back one that was sent. *)
LEMMA ArriveStep ==
  ASSUME IndexInv, Conserved, Arrive
  PROVE  Conserved'
<1>1. PICK m \in pool : pool' = pool \ {m} /\ rxq' = Append(rxq, m)
  BY DEF Arrive
<1>2. /\ rxq \in Seq(Mbufs) /\ m \in Mbufs
      /\ UNCHANGED << txq, packets, active, used, pc, num, idx, good >>
  BY DEF IndexInv, TypeOK, Arrive, locals
<1>3. /\ Len(rxq') = Len(rxq) + 1 /\ rxq'[Len(rxq) + 1] = m
      /\ \A j \in 1..Len(rxq) : rxq'[j] = rxq[j]
  BY <1>1, <1>2
<1>4. \A j \in 1..Len(rxq') : j \in 1..Len(rxq) \/ j = Len(rxq) + 1
  BY <1>2, <1>3
<1>5. InRx' = InRx \cup {m}
  <2>1. \A x \in InRx' : x \in InRx \/ x = m
    BY <1>3, <1>4 DEF InRx
  <2>2. \A j \in 1..Len(rxq) : j \in 1..Len(rxq')
    BY <1>2, <1>3
  <2>3. \A x \in InRx : x \in InRx'
    BY <1>3, <2>2 DEF InRx
  <2>4. m \in InRx'
    <3>1. Len(rxq) + 1 \in 1..Len(rxq')
      BY <1>2, <1>3
    <3>. QED  BY <1>3, <3>1 DEF InRx
  <2>. QED  BY <2>1, <2>3, <2>4
<1>6. \A t \in Sockets, k \in Places : Owns(t, k)' <=> Owns(t, k)
  BY <1>2 DEF Owns
<1>7. AllSomewhere'
  BY <1>1, <1>2, <1>5, <1>6 DEF Conserved, AllSomewhere, Somewhere
<1>8. OwnedOnce'
  <2>1. pool' \cap txq' = {} /\ (pool' \cup txq') \cap InRx' = {}
    BY <1>1, <1>2, <1>5 DEF Conserved, OwnedOnce
  <2>2. \A j \in 1..Len(rxq) : rxq[j] # m
    BY DEF Conserved, OwnedOnce, InRx
  <2>3. \A j, k \in 1..Len(rxq') : j # k => rxq'[j] # rxq'[k]
    BY <1>3, <1>4, <2>2 DEF Conserved, OwnedOnce
  <2>4. \A t \in Sockets, k \in Places : Owns(t, k) =>
          packets[t][k] \in Mbufs \ (pool' \cup txq' \cup InRx')
    BY <1>1, <1>2, <1>5 DEF Conserved, OwnedOnce
  <2>. QED  BY <1>2, <1>6, <2>1, <2>3, <2>4 DEF Conserved, OwnedOnce
<1>. QED  BY <1>7, <1>8 DEF Conserved

LEMMA TxDoneStep ==
  ASSUME IndexInv, Conserved, TxDone
  PROVE  Conserved'
<1>1. PICK m \in txq : txq' = txq \ {m} /\ pool' = pool \cup {m}
  BY DEF TxDone
<1>2. UNCHANGED << rxq, packets, active, used, pc, num, idx, good >>
  BY DEF TxDone, locals
<1>3. InRx' = InRx
  BY <1>2 DEF InRx
<1>4. \A t \in Sockets, k \in Places : Owns(t, k)' <=> Owns(t, k)
  BY <1>2 DEF Owns
<1>5. AllSomewhere'
  BY <1>1, <1>2, <1>3, <1>4 DEF Conserved, AllSomewhere, Somewhere
<1>6. OwnedOnce'
  BY <1>1, <1>2, <1>3, <1>4 DEF Conserved, OwnedOnce
<1>. QED  BY <1>5, <1>6 DEF Conserved

-----------------------------------------------------------------------------
(* The theorems. *)

DpdkInv == IndexInv /\ Conserved

LEMMA InitInv == Init => DpdkInv
<1> SUFFICES ASSUME Init PROVE Conserved
  BY InitIndex DEF DpdkInv
<1>1. InRx = {}
  BY DEF Init, InRx
<1>2. \A s \in Sockets, k \in Places : ~ Owns(s, k)
  BY DEF Init, Owns
<1>3. AllSomewhere
  BY DEF Init, AllSomewhere, Somewhere
<1>4. OwnedOnce
  BY <1>1, <1>2 DEF Init, OwnedOnce
<1>. QED  BY <1>3, <1>4 DEF Conserved

LEMMA NextInv == DpdkInv /\ [Next]_vars => DpdkInv'
<1> SUFFICES ASSUME DpdkInv, [Next]_vars PROVE DpdkInv'
  OBVIOUS
<1>1. IndexInv /\ Conserved /\ HoldsMbufs
  BY ConservedImplies DEF DpdkInv, IndexInv
<1>2. IndexInv'
  BY <1>1, NextIndex
<1>3. CASE Arrive
  BY <1>1, <1>2, <1>3, ArriveStep DEF DpdkInv
<1>4. CASE TxDone
  BY <1>1, <1>2, <1>4, TxDoneStep DEF DpdkInv
<1>5. ASSUME NEW s \in Sockets, Step(s) PROVE Conserved'
  <2>1. CASE \/ Call(s) \/ FreeDone(s) \/ AllocFails(s) \/ AllocDone(s)
             \/ Fill(s) \/ FilterDone(s)
    BY <1>1, <2>1, QuietStep
  <2>2. CASE FreeOne(s) \/ FilterFree(s)
    BY <1>1, <2>2, FreeStep
  <2>3. CASE AllocOne(s)
    BY <1>1, <2>3, AllocStep
  <2>4. CASE RxBurst(s)
    BY <1>1, <2>4, RxStep
  <2>5. CASE FilterKeep(s)
    BY <1>1, <2>5, KeepStep
  <2>6. CASE Send(s)
    BY <1>1, <2>6, SendStep DEF Send, locals
  <2>7. CASE SendBack(s)
    BY <1>1, <2>7, SendStep DEF SendBack, locals
  <2>. QED  BY <1>5, <2>1, <2>2, <2>3, <2>4, <2>5, <2>6, <2>7 DEF Step
<1>6. CASE UNCHANGED vars
  BY <1>1, <1>2, <1>6, Unmoved DEF vars, nic, locals, Owns, DpdkInv
<1>. QED  BY <1>2, <1>3, <1>4, <1>5, <1>6 DEF Next, DpdkInv

(***************************************************************************)
(* Every variable of the DPDK socket keeps its type: in particular no      *)
(* index leaves packets[], whatever the port accepts and returns.          *)
(***************************************************************************)
THEOREM TypeCorrect == Spec => []TypeOK
<1>1. DpdkInv => TypeOK
  BY DEF DpdkInv, IndexInv
<1>. QED  BY <1>1, InitInv, NextInv, PTL DEF Spec

(***************************************************************************)
(* Every mbuf is in exactly one place, for any number of sockets, mbufs    *)
(* and descriptors: the sockets of the threads, their partial sends and    *)
(* their filters neither lose an mbuf nor free one twice.                  *)
(***************************************************************************)
THEOREM ConservationCorrect == Spec => []Conservation
<1>1. DpdkInv => Conservation
  BY ConservedImplies DEF DpdkInv, IndexInv
<1>. QED  BY <1>1, InitInv, NextInv, PTL DEF Spec
=============================================================================
