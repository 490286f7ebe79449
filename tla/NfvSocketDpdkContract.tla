----------------------- MODULE NfvSocketDpdkContract -----------------------
(***************************************************************************)
(* For any number of sockets and mbufs: the DPDK socket, one mbuf at a     *)
(* time and with partial sends, implements the contract of nfv_socket.h,   *)
(* in which a burst is acquired and passed on at once; and the frames it   *)
(* sends and returns are those for the peer and for the application.       *)
(***************************************************************************)
EXTENDS NfvSocketDpdkProofs

USE DpdkAssumption

(* As many places went out as used_buffers says; a call that acquires a    *)
(* burst begins a new count.                                               *)
WireInv ==
  \A s \in Sockets : Len(wire[s]) = IF pc[s] = "idle" THEN used[s] ELSE 0

ContractInv == DpdkInv /\ WireInv

-----------------------------------------------------------------------------
(* The kinds of steps, by what they do to the contract's variables.        *)

LEMMA InvFacts ==
  ASSUME DpdkInv
  PROVE  /\ TypeOK /\ AllIndices
         /\ pc \in [Sockets -> {"idle", "free", "alloc", "fill", "rx",
                                "filter", "fault"}]
         /\ active \in [Sockets -> 0..BurstSize]
         /\ used \in [Sockets -> 0..BurstSize]
         /\ wire \in [Sockets -> Seq(Nat)]
         /\ \A s \in Sockets : used[s] <= active[s]
BY DEF DpdkInv, IndexInv, TypeOK, AllIndices, Indices

(* A step inside an operation, or of the port, shows nothing.              *)
LEMMA InsideStep ==
  ASSUME ContractInv, UNCHANGED wire,
         \A s \in Sockets :
           \/ pc'[s] = pc[s] /\ active'[s] = active[s]
                /\ (pc[s] = "idle" => used'[s] = used[s])
           \/ pc[s] # "idle" /\ pc'[s] # "idle"
  PROVE  WireInv' /\ Granted' = Granted
<1>1. WireInv'
  BY DEF ContractInv, WireInv
<1>2. \A s \in Sockets : Granted'[s] = Granted[s]
  BY DEF Granted
<1>. QED  BY <1>1, <1>2 DEF Granted

(* A call begins a burst, and its return grants the buffers.               *)
LEMMA AcquireStep ==
  ASSUME ContractInv, NEW s \in Sockets, NEW n \in 0..BurstSize,
         wire' = [wire EXCEPT ![s] = << >>],
         Granted'[s] = n, pc'[s] = "idle" => used'[s] = 0,
         \A t \in Sockets \ {s} : /\ pc'[t] = pc[t] /\ active'[t] = active[t]
                                  /\ used'[t] = used[t]
  PROVE  WireInv' /\ Burst!Acquire(s)
<1>1. wire'[s] = << >> /\ \A t \in Sockets \ {s} : wire'[t] = wire[t]
  BY InvFacts DEF ContractInv
<1>2. WireInv'
  <2>1. Len(<< >>) = 0
    OBVIOUS
  <2>. QED  BY <1>1, <2>1 DEF ContractInv, WireInv
<1>3. Granted' = [Granted EXCEPT ![s] = n]
  <2>1. \A t \in Sockets : Granted'[t] = IF t = s THEN n ELSE Granted[t]
    BY DEF Granted
  <2>. QED  BY <2>1 DEF Granted
<1>. QED  BY <1>2, <1>3 DEF Burst!Acquire

(* What send and send_back pass to the port are the next places.           *)
LEMMA TransmitStep ==
  ASSUME ContractInv, NEW s \in Sockets, NEW n \in HowMany,
         pc[s] = "idle", UNCHANGED << pc, active >>,
         TxBurst(s, Least(n, Remaining(s)))
  PROVE  WireInv' /\ Burst!Transmit(s)
<1> DEFINE howmany == Least(n, Remaining(s))
<1>1. /\ active[s] \in 0..BurstSize /\ used[s] \in 0..active[s]
      /\ wire[s] \in Seq(Nat) /\ Len(wire[s]) = used[s]
  BY InvFacts DEF ContractInv, WireInv
<1>2. howmany \in 0..(active[s] - used[s])
  <2>1. Remaining(s) \in Nat /\ n \in Nat
    BY <1>1 DEF Remaining
  <2>. QED  BY <2>1 DEF Least, Remaining
<1>3. PICK k \in 0..howmany :
        /\ used' = [used EXCEPT ![s] = @ + k]
        /\ wire' = [wire EXCEPT ![s] = @ \o [j \in 1..k |-> used[s] + j]]
  <2>1. howmany \in Nat
    BY <1>1, <1>2
  <2> HIDE DEF howmany
  <2>2. TxBurst(s, howmany)
    BY DEF howmany
  <2>. QED  BY <2>1, <2>2, InvFacts, Accepts DEF ContractInv
<1> HIDE DEF howmany
<1>4. k \in 0..(active[s] - used[s]) /\ k \in Nat
  BY <1>1, <1>2, <1>3
<1>5. WireInv'
  <2> DEFINE next == [j \in 1..k |-> used[s] + j]
  <2>1. next \in Seq(Nat) /\ Len(next) = k
    BY <1>1, <1>4
  <2>2. Len(wire[s] \o next) = used[s] + k
    <3> HIDE DEF next
    <3>. QED  BY <1>1, <2>1, ConcatProperties
  <2>3. wire'[s] = wire[s] \o next /\ \A t \in Sockets \ {s} : wire'[t] = wire[t]
    BY <1>3, InvFacts DEF ContractInv
  <2>4. used'[s] = used[s] + k /\ \A t \in Sockets \ {s} : used'[t] = used[t]
    BY <1>3, InvFacts DEF ContractInv
  <2> HIDE DEF next
  <2>. QED  BY <2>2, <2>3, <2>4 DEF ContractInv, WireInv
<1>6. Granted' = Granted
  BY DEF Granted
<1>7. Granted[s] = active[s]
  BY DEF Granted
<1>8. wire' = [wire EXCEPT ![s] = @ \o [j \in 1..k |-> Len(@) + j]]
  BY <1>1, <1>3
<1>. QED  BY <1>1, <1>4, <1>5, <1>6, <1>7, <1>8 DEF Burst!Transmit

-----------------------------------------------------------------------------
LEMMA InitContract == Init => ContractInv /\ Burst!ContractInit
<1> SUFFICES ASSUME Init PROVE WireInv /\ Burst!ContractInit
  BY InitInv DEF ContractInv
<1>1. Len(<< >>) = 0
  OBVIOUS
<1>2. /\ wire = [s \in Sockets |-> << >>] /\ pc = [s \in Sockets |-> "idle"]
      /\ used = [s \in Sockets |-> 0] /\ active = [s \in Sockets |-> 0]
  BY DEF Init
<1>3. WireInv
  BY <1>1, <1>2 DEF WireInv
<1>4. Granted = [s \in Sockets |-> 0]
  BY <1>2 DEF Granted
<1>. QED  BY <1>2, <1>3, <1>4 DEF Burst!ContractInit

(* Every step is a step of the contract, or none.                          *)
Abstract ==
  (\E s \in Sockets : Burst!Acquire(s) \/ Burst!Transmit(s))
    \/ UNCHANGED << Granted, wire >>

LEMMA StepContract ==
  ASSUME ContractInv, NEW s \in Sockets, Step(s)
  PROVE  WireInv' /\ Abstract
<1>0. /\ TypeOK /\ AllIndices
      /\ pc \in [Sockets -> {"idle", "free", "alloc", "fill", "rx",
                             "filter", "fault"}]
      /\ active \in [Sockets -> 0..BurstSize]
      /\ used \in [Sockets -> 0..BurstSize]
      /\ wire \in [Sockets -> Seq(Nat)]
  BY InvFacts DEF ContractInv
<1>1. CASE Call(s)
  <2>1. /\ pc' = [pc EXCEPT ![s] = "free"]
        /\ wire' = [wire EXCEPT ![s] = << >>] /\ UNCHANGED << active, used >>
    BY <1>1 DEF Call, Goto
  <2>2. Granted'[s] = 0
    BY <1>0, <2>1 DEF Granted
  <2>3. /\ 0 \in 0..BurstSize /\ pc'[s] # "idle"
        /\ \A t \in Sockets \ {s} : /\ pc'[t] = pc[t] /\ active'[t] = active[t]
                                    /\ used'[t] = used[t]
    BY <1>0, <2>1
  <2>. QED  BY <2>1, <2>2, <2>3, AcquireStep DEF Abstract
<1>2. CASE \/ FreeOne(s) \/ FreeDone(s) \/ AllocOne(s) \/ AllocFails(s)
           \/ AllocDone(s) \/ RxBurst(s) \/ FilterKeep(s) \/ FilterFree(s)
  <2>1. /\ UNCHANGED wire /\ pc[s] # "idle" /\ pc'[s] # "idle"
        /\ \A t \in Sockets \ {s} : /\ pc'[t] = pc[t] /\ active'[t] = active[t]
                                    /\ used'[t] = used[t]
    BY <1>0, <1>2 DEF FreeOne, FreeDone, AllocOne, AllocFails, AllocDone,
                      RxBurst, FilterKeep, FilterFree, Goto, locals
  <2>. QED  BY <2>1, InsideStep DEF Abstract
<1>3. CASE Fill(s) \/ FilterDone(s)
  <2>1. /\ UNCHANGED << wire, used >> /\ pc[s] \in {"fill", "filter"}
        /\ pc'[s] \in {"idle", "fault"}
        /\ \A t \in Sockets \ {s} : pc'[t] = pc[t] /\ active'[t] = active[t]
    BY <1>0, <1>3 DEF Fill, FilterDone, Goto
  <2>2. used[s] = 0 /\ active[s] = 0 /\ wire[s] = << >>
    <3>1. used[s] = 0 /\ active[s] = 0
      BY <1>0, <2>1 DEF AllIndices, Indices
    <3>2. wire[s] \in Seq(Nat) /\ Len(wire[s]) = 0
      BY <1>0, <2>1 DEF ContractInv, WireInv
    <3>. QED  BY <3>1, <3>2, EmptySeq
  <2>3. active'[s] \in 0..BurstSize
    <3>1. idx[s] \in 0..BurstSize /\ good[s] \in 0..BurstSize
      BY <1>0 DEF TypeOK
    <3>2. active'[s] = active[s] + idx[s] \/ active'[s] = active[s] + good[s]
      BY <1>0, <1>3 DEF Fill, FilterDone
    <3>. QED  BY <2>2, <3>1, <3>2
  <2>4. wire' = [wire EXCEPT ![s] = << >>]
    BY <1>0, <2>1, <2>2
  <2>5. PICK n \in 0..BurstSize : Granted'[s] = n
    BY <2>3 DEF Granted
  <2>. QED  BY <2>1, <2>2, <2>4, <2>5, AcquireStep DEF Abstract
<1>4. CASE Send(s) \/ SendBack(s)
  <2>1. /\ pc[s] = "idle" /\ UNCHANGED << pc, active >>
        /\ \E n \in HowMany : TxBurst(s, Least(n, Remaining(s)))
    BY <1>4 DEF Send, SendBack
  <2>. QED  BY <2>1, TransmitStep DEF Abstract
<1>. QED  BY <1>1, <1>2, <1>3, <1>4 DEF Step

LEMMA NextContract == ContractInv /\ [Next]_vars => ContractInv' /\ Abstract
<1> SUFFICES ASSUME ContractInv, [Next]_vars PROVE WireInv' /\ Abstract
  BY NextInv DEF ContractInv
<1>1. CASE Arrive \/ TxDone \/ UNCHANGED vars
  <2>1. UNCHANGED << wire, pc, active, used >>
    BY <1>1 DEF Arrive, TxDone, vars
  <2>. QED  BY <2>1, InsideStep DEF Abstract
<1>2. CASE \E s \in Sockets : Step(s)
  BY <1>2, StepContract
<1>. QED  BY <1>1, <1>2 DEF Next

(***************************************************************************)
(* request_out_buffers, recv, send and send_back of the DPDK socket keep   *)
(* the contract of nfv_socket.h: each buffer of a burst goes out at most   *)
(* once and in order, however much of it the port takes at a time.         *)
(***************************************************************************)
THEOREM ContractCorrect == Spec => HonoursContract
<1>1. Init => ContractInv /\ Burst!ContractInit
  BY InitContract
<1>2. ContractInv /\ [Next]_vars =>
        /\ ContractInv'
        /\ [\E s \in Sockets :
              Burst!Acquire(s) \/ Burst!Transmit(s)]_(Burst!Contract)
  BY NextContract DEF Abstract, Burst!Contract
<1>. QED  BY <1>1, <1>2, PTL DEF Spec, HonoursContract, Burst!ContractSpec

-----------------------------------------------------------------------------
(***************************************************************************)
(* Only frames for the peer reach the port, and recv returns only frames   *)
(* for this application.  Both rest on the conservation of mbufs: what a   *)
(* socket holds nobody else rewrites.                                      *)
(***************************************************************************)
USE DEF Places

(* What a sender has requested and not yet sent is addressed to the peer.  *)
Outgoing(s) ==
  \A k \in Places :
    (op[s] = "request" /\ pc[s] \in {"idle", "alloc", "fill"} /\ Owns(s, k))
      => hdr[packets[s][k]] = "out"

(* What the filter has kept, and recv returned, is for this application.   *)
Incoming(s) ==
  \A k \in Places :
    \/ pc[s] = "filter" /\ k < good[s]
    \/ pc[s] = "idle" /\ op[s] = "recv" /\ turned[s] <= k /\ k < active[s]
    => hdr[packets[s][k]] = "in"

(* Which operation a step belongs to; recv gives nothing to the port.      *)
InOperation(s) ==
  /\ pc[s] = "free" => op[s] \in {"request", "recv"}
  /\ pc[s] \in {"alloc", "fill"} => op[s] = "request"
  /\ pc[s] \in {"rx", "filter"} => op[s] = "recv"
  /\ pc[s] = "idle" /\ op[s] = "recv" => used[s] <= turned[s]

Directed(s) == Outgoing(s) /\ Incoming(s) /\ InOperation(s)

AllDirected == \A s \in Sockets : Directed(s)

HeadersInv == DpdkInv /\ SendsOnlyOutgoing /\ AllDirected

-----------------------------------------------------------------------------
LEMMA HeaderFacts ==
  ASSUME HeadersInv
  PROVE  /\ TypeOK /\ AllIndices /\ OwnedOnce /\ HoldsMbufs
         /\ SendsOnlyOutgoing /\ AllDirected
  BY ConservedImplies DEF HeadersInv, DpdkInv, IndexInv, Conserved

(* The record of a socket, as far as its headers depend on it.             *)
SameSocket(t) ==
  /\ pc'[t] = pc[t] /\ op'[t] = op[t] /\ packets'[t] = packets[t]
  /\ active'[t] = active[t] /\ used'[t] = used[t] /\ num'[t] = num[t]
  /\ idx'[t] = idx[t] /\ good'[t] = good[t] /\ turned'[t] = turned[t]

LEMMA StaysDirected ==
  ASSUME HeadersInv, NEW t \in Sockets, SameSocket(t),
         \A k \in Places : Owns(t, k) =>
            hdr'[packets[t][k]] = hdr[packets[t][k]]
  PROVE  Directed(t)'
<1>1. Directed(t) /\ Indices(t)
  BY HeaderFacts DEF AllDirected, AllIndices
<1>2. \A k \in Places : Owns(t, k)' <=> Owns(t, k)
  BY DEF Owns, SameSocket
<1>3. \A k \in Places : pc[t] = "filter" /\ k < good[t] => Owns(t, k)
  BY DEF Owns
<1>4. \A k \in Places : pc[t] = "idle" /\ op[t] = "recv" /\ turned[t] <= k
                          /\ k < active[t] => Owns(t, k)
  <2>1. pc[t] = "idle" /\ op[t] = "recv" => used[t] <= turned[t]
    BY <1>1 DEF Directed, InOperation
  <2>2. used[t] \in Nat /\ turned[t] \in Nat /\ \A k \in Places : k \in Nat
    BY HeaderFacts DEF TypeOK
  <2>. QED  BY <2>1, <2>2 DEF Owns
<1>5. Outgoing(t)'
  BY <1>1, <1>2 DEF Directed, Outgoing, SameSocket
<1>6. Incoming(t)'
  BY <1>1, <1>3, <1>4 DEF Directed, Incoming, SameSocket
<1>7. InOperation(t)'
  BY <1>1 DEF Directed, InOperation, SameSocket
<1>. QED  BY <1>5, <1>6, <1>7 DEF Directed

LEMMA OnlyItsOwn ==
  ASSUME TypeOK, NEW s \in Sockets, NEW t \in Sockets, t # s, Step(s)
  PROVE  SameSocket(t)
<1>0. /\ packets \in [Sockets -> [Places -> Mbufs \cup {NULL}]]
      /\ active \in [Sockets -> 0..BurstSize] /\ used \in [Sockets -> 0..BurstSize]
      /\ pc \in [Sockets -> {"idle", "free", "alloc", "fill", "rx", "filter",
                             "fault"}]
      /\ op \in [Sockets -> {"none", "request", "recv"}]
      /\ num \in [Sockets -> 0..BurstSize] /\ idx \in [Sockets -> 0..BurstSize]
      /\ good \in [Sockets -> 0..BurstSize] /\ turned \in [Sockets -> 0..BurstSize]
  BY DEF TypeOK
<1> USE DEF SameSocket, Goto, nic, locals
<1>1. CASE Call(s) \/ FreeOne(s) \/ FreeDone(s)
  BY <1>0, <1>1 DEF Call, FreeOne, FreeDone
<1>2. CASE AllocOne(s) \/ AllocFails(s) \/ AllocDone(s)
  BY <1>0, <1>2 DEF AllocOne, AllocFails, AllocDone
<1>3. CASE Fill(s) \/ FilterDone(s)
  BY <1>0, <1>3 DEF Fill, FilterDone, ForgetLocals
<1>4. CASE RxBurst(s)
  BY <1>0, <1>4 DEF RxBurst
<1>5. CASE FilterKeep(s) \/ FilterFree(s)
  BY <1>0, <1>5 DEF FilterKeep, FilterFree
<1>6. CASE Send(s)
  BY <1>0, <1>6 DEF Send, TxBurst
<1>7. CASE SendBack(s)
  <2>1. UNCHANGED << packets, active, pc, op, num, idx, good >>
    BY <1>7 DEF SendBack
  <2>2. used'[t] = used[t] /\ turned'[t] = turned[t]
    BY <1>0, <1>7 DEF SendBack, TxBurst, TurnedUntil
  <2>. QED  BY <2>1, <2>2
<1>. QED  BY <1>1, <1>2, <1>3, <1>4, <1>5, <1>6, <1>7 DEF Step

(* A step that rewrites no header but those of mbufs that nobody holds.    *)
LEMMA OthersDirected ==
  ASSUME HeadersInv, NEW s \in Sockets, Step(s), NEW X,
         \A m \in Mbufs : m \notin X => hdr'[m] = hdr[m],
         \A t \in Sockets, k \in Places : Owns(t, k) /\ packets[t][k] \in X
           => t = s,
         Directed(s)'
  PROVE  AllDirected'
<1> SUFFICES ASSUME NEW t \in Sockets, t # s PROVE Directed(t)'
  BY DEF AllDirected
<1>1. SameSocket(t)
  BY HeaderFacts, OnlyItsOwn
<1>2. \A k \in Places : Owns(t, k) => packets[t][k] \in Mbufs \ X
  BY HeaderFacts DEF HoldsMbufs
<1>. QED  BY <1>1, <1>2, StaysDirected

LEMMA NoHeaderChanged ==
  ASSUME HeadersInv, NEW s \in Sockets, Step(s), hdr' = hdr, Directed(s)'
  PROVE  AllDirected'
<1> SUFFICES ASSUME NEW t \in Sockets, t # s PROVE Directed(t)'
  BY DEF AllDirected
<1>1. SameSocket(t)
  BY HeaderFacts, OnlyItsOwn
<1>. QED  BY <1>1, StaysDirected

-----------------------------------------------------------------------------
(* The steps. *)

LEMMA InitHeaders == Init => HeadersInv
<1> SUFFICES ASSUME Init PROVE SendsOnlyOutgoing /\ AllDirected
  BY InitInv DEF HeadersInv
<1>. QED  BY DEF Init, SendsOnlyOutgoing, AllDirected, Directed, Outgoing,
                 Incoming, InOperation

LEMMA KeepHeaders ==
  ASSUME HeadersInv, NEW s \in Sockets,
         \/ Call(s) \/ FreeOne(s) \/ FreeDone(s) \/ AllocFails(s)
         \/ AllocDone(s) \/ Fill(s) \/ RxBurst(s) \/ FilterKeep(s)
         \/ FilterFree(s) \/ FilterDone(s)
  PROVE  SendsOnlyOutgoing' /\ AllDirected'
<1> USE DEF Goto, nic, locals
<1>0. /\ packets \in [Sockets -> [Places -> Mbufs \cup {NULL}]]
      /\ active \in [Sockets -> 0..BurstSize] /\ used \in [Sockets -> 0..BurstSize]
      /\ pc \in [Sockets -> {"idle", "free", "alloc", "fill", "rx", "filter",
                             "fault"}]
      /\ op \in [Sockets -> {"none", "request", "recv"}]
      /\ num \in [Sockets -> 0..BurstSize] /\ idx \in [Sockets -> 0..BurstSize]
      /\ good \in [Sockets -> 0..BurstSize] /\ turned \in [Sockets -> 0..BurstSize]
      /\ BurstSize \in Nat
  BY HeaderFacts DEF TypeOK
<1>1. Directed(s) /\ Indices(s)
  BY HeaderFacts DEF AllDirected, AllIndices
<1>2. Step(s) /\ hdr' = hdr /\ txq' = txq /\ again' = again
  BY DEF Step, Call, FreeOne, FreeDone, AllocFails, AllocDone, Fill, RxBurst,
         FilterKeep, FilterFree, FilterDone
<1>3. SendsOnlyOutgoing'
  BY <1>2, HeaderFacts DEF SendsOnlyOutgoing
<1>4. Directed(s)'
  <2>1. CASE Call(s) \/ FreeOne(s)
    <3>1. pc'[s] = "free" /\ op'[s] \in {"request", "recv"}
      BY <1>0, <1>1, <2>1 DEF Call, FreeOne, Directed, InOperation
    <3>. QED  BY <3>1 DEF Directed, Outgoing, Incoming, InOperation
  <2>2. CASE FreeDone(s)
    <3>1. /\ pc'[s] = IF op'[s] = "request" THEN "alloc" ELSE "rx"
          /\ idx'[s] = 0 /\ op'[s] = op[s]
      BY <1>0, <1>1, <2>2 DEF FreeDone, Indices
    <3>2. \A k \in Places : ~ Owns(s, k)'
      BY <3>1 DEF Owns
    <3>3. op[s] \in {"request", "recv"}
      BY <1>0, <1>1, <2>2 DEF FreeDone, Directed, InOperation
    <3>. QED  BY <3>1, <3>2, <3>3 DEF Directed, Outgoing, Incoming, InOperation
  <2>3. CASE AllocFails(s)
    <3>1. /\ pc[s] = "alloc" /\ pc'[s] = "fill"
          /\ UNCHANGED << op, idx, hdr, used, turned, again >>
          /\ \A k \in Places : k < idx[s] => packets'[s][k] = packets[s][k]
      BY <1>0, <2>3 DEF AllocFails
    <3>2. \A k \in Places : Owns(s, k)' => k < idx[s] /\ Owns(s, k)
      BY <3>1 DEF Owns
    <3>. QED  BY <1>1, <3>1, <3>2
              DEF Directed, Outgoing, Incoming, InOperation
  <2>4. CASE AllocDone(s)
    <3>1. /\ pc[s] = "alloc" /\ pc'[s] = "fill"
          /\ UNCHANGED << op, idx, hdr, used, turned, again, packets >>
      BY <1>0, <2>4 DEF AllocDone
    <3>2. \A k \in Places : Owns(s, k)' => Owns(s, k)
      BY <3>1 DEF Owns
    <3>. QED  BY <1>1, <3>1, <3>2
              DEF Directed, Outgoing, Incoming, InOperation
  <2>5. CASE Fill(s)
    <3>1. /\ pc[s] = "fill" /\ pc'[s] \in {"fault", "idle"}
          /\ active'[s] = active[s] + idx[s] /\ used' = used
          /\ UNCHANGED << op, hdr, turned, again, packets >>
      BY <1>0, <2>5 DEF Fill
    <3>2. op[s] = "request" /\ active[s] = 0
      BY <1>1, <3>1 DEF Directed, InOperation, Indices
    <3>3. \A k \in Places : Owns(s, k)' => Owns(s, k)
      BY <1>0, <3>1, <3>2 DEF Owns
    <3>. QED  BY <1>1, <3>1, <3>2, <3>3
              DEF Directed, Outgoing, Incoming, InOperation
  <2>6. CASE RxBurst(s)
    <3>1. /\ pc'[s] = "filter" /\ pc[s] = "rx"
          /\ UNCHANGED << op, good, used >>
      BY <1>0, <2>6 DEF RxBurst
    <3>2. op[s] = "recv" /\ good[s] = 0
      BY <1>1, <3>1 DEF Directed, InOperation, Indices
    <3>. QED  BY <3>1, <3>2 DEF Directed, Outgoing, Incoming, InOperation
  <2>7. CASE FilterKeep(s)
    <3>1. /\ pc[s] = "filter" /\ idx[s] < num[s]
          /\ hdr[packets[s][idx[s]]] = "in"
          /\ packets' = [packets EXCEPT ![s][good[s]] = packets[s][idx[s]]]
          /\ good'[s] = good[s] + 1
          /\ UNCHANGED << hdr, used, pc, op, turned, again >>
      BY <1>0, <2>7 DEF FilterKeep
    <3>2. good[s] \in Places /\ good[s] <= idx[s]
      BY <1>0, <1>1, <3>1 DEF Indices
    <3>3. /\ packets'[s][good[s]] = packets[s][idx[s]]
          /\ \A k \in Places : k # good[s] => packets'[s][k] = packets[s][k]
      BY <1>0, <3>1, <3>2
    <3>4. \A k \in Places : k < good'[s] => k = good[s] \/ k < good[s]
      BY <1>0, <3>1
    <3>5. \A k \in Places : k < good'[s] => hdr[packets'[s][k]] = "in"
      BY <1>0, <1>1, <3>1, <3>3, <3>4 DEF Directed, Incoming
    <3>. QED  BY <1>1, <3>1, <3>5 DEF Directed, Outgoing, Incoming, InOperation
  <2>8. CASE FilterFree(s)
    <3>1. pc[s] = "filter" /\ UNCHANGED << hdr, packets, good, used, pc, op, turned, again >>
      BY <2>8 DEF FilterFree
    <3>. QED  BY <1>1, <3>1 DEF Directed, Outgoing, Incoming, InOperation
  <2>9. CASE FilterDone(s)
    <3>1. /\ pc[s] = "filter" /\ pc'[s] = "idle"
          /\ active'[s] = active[s] + good[s]
          /\ UNCHANGED << hdr, packets, used, op, turned, again >>
      BY <1>0, <2>9 DEF FilterDone
    <3>2. op[s] = "recv" /\ active[s] = 0 /\ used[s] = 0
      BY <1>1, <3>1 DEF Directed, InOperation, Indices
    <3>3. active'[s] = good[s] /\ turned[s] \in Nat
      BY <1>0, <3>1, <3>2
    <3>. QED  BY <1>1, <3>1, <3>2, <3>3
              DEF Directed, Outgoing, Incoming, InOperation
  <2>. QED  BY <2>1, <2>2, <2>3, <2>4, <2>5, <2>6, <2>7, <2>8, <2>9
<1>5. AllDirected'
  BY <1>2, <1>4, NoHeaderChanged
<1>. QED  BY <1>3, <1>5

(* What is taken from the pool is held by nobody else.                     *)
LEMMA AllocHeaders ==
  ASSUME HeadersInv, NEW s \in Sockets, AllocOne(s)
  PROVE  SendsOnlyOutgoing' /\ AllDirected'
<1>0. /\ packets \in [Sockets -> [Places -> Mbufs \cup {NULL}]]
      /\ pc \in [Sockets -> {"idle", "free", "alloc", "fill", "rx", "filter",
                             "fault"}]
      /\ num \in [Sockets -> 0..BurstSize] /\ idx \in [Sockets -> 0..BurstSize]
      /\ hdr \in [Mbufs -> {"in", "out", "foreign"}]
      /\ pool \in SUBSET Mbufs /\ BurstSize \in Nat /\ txq \in SUBSET Mbufs
  BY HeaderFacts DEF TypeOK
<1>1. PICK m \in pool : /\ packets' = [packets EXCEPT ![s][idx[s]] = m]
                        /\ hdr' = [hdr EXCEPT ![m] = "out"]
  BY DEF AllocOne
<1>2. /\ pc[s] = "alloc" /\ idx[s] < num[s]
      /\ idx' = [idx EXCEPT ![s] = @ + 1]
      /\ UNCHANGED << txq, pc, op, used, turned, again, good >>
  BY DEF AllocOne, nic
<1>3. Directed(s) /\ Indices(s) /\ Step(s)
  BY HeaderFacts DEF AllDirected, AllIndices, Step
<1>4. m \in Mbufs /\ hdr'[m] = "out" /\ \A x \in Mbufs : x # m => hdr'[x] = hdr[x]
  BY <1>0, <1>1
<1>5. SendsOnlyOutgoing'
  <2>1. \A x \in txq : x # m
    BY HeaderFacts DEF OwnedOnce
  <2>. QED  BY <1>0, <1>2, <1>4, <2>1, HeaderFacts DEF SendsOnlyOutgoing
<1>6. \A t \in Sockets, k \in Places : Owns(t, k) => packets[t][k] # m
  BY HeaderFacts DEF OwnedOnce
<1>7. Directed(s)'
  <2>1. idx[s] \in Places /\ idx'[s] = idx[s] + 1
    BY <1>0, <1>2
  <2>2. /\ packets'[s][idx[s]] = m
        /\ \A k \in Places : k # idx[s] => packets'[s][k] = packets[s][k]
    BY <1>0, <1>1, <2>1
  <2>3. op[s] = "request"
    BY <1>2, <1>3 DEF Directed, InOperation
  <2>4. ASSUME NEW k \in Places, Owns(s, k)' PROVE hdr'[packets'[s][k]] = "out"
    <3>1. k < idx[s] + 1
      BY <1>2, <2>1, <2>4 DEF Owns
    <3>2. CASE k = idx[s]
      BY <1>4, <2>2, <3>2
    <3>3. CASE k # idx[s]
      <4>1. k < idx[s]
        BY <2>1, <3>1, <3>3
      <4>2. Owns(s, k)
        BY <1>2, <4>1 DEF Owns
      <4>3. hdr[packets[s][k]] = "out"
        BY <1>2, <1>3, <2>3, <4>2 DEF Directed, Outgoing
      <4>4. packets[s][k] \in Mbufs /\ packets[s][k] # m
        BY <1>6, <4>2, HeaderFacts DEF HoldsMbufs
      <4>. QED  BY <1>4, <2>2, <3>3, <4>3, <4>4
    <3>. QED  BY <3>2, <3>3
  <2>. QED  BY <1>2, <2>3, <2>4 DEF Directed, Outgoing, Incoming, InOperation
<1>8. AllDirected'
  <2>1. \A x \in Mbufs : x \notin {m} => hdr'[x] = hdr[x]
    BY <1>4
  <2>2. \A t \in Sockets, k \in Places :
          Owns(t, k) /\ packets[t][k] \in {m} => t = s
    BY <1>6
  <2>. QED  BY <1>3, <1>7, <2>1, <2>2, OthersDirected
<1>. QED  BY <1>5, <1>8

(* The port writes a frame into an mbuf that nobody holds.                 *)
LEMMA ArriveHeaders ==
  ASSUME HeadersInv, Arrive
  PROVE  SendsOnlyOutgoing' /\ AllDirected'
<1>1. PICK m \in pool, h \in {"in", "foreign"} : hdr' = [hdr EXCEPT ![m] = h]
  BY DEF Arrive
<1>2. UNCHANGED << txq, packets, active, used, pc, op, num, idx, good, turned, again >>
  BY DEF Arrive, locals
<1>3. \A x \in Mbufs : x # m => hdr'[x] = hdr[x]
  BY <1>1, HeaderFacts DEF TypeOK
<1>4. SendsOnlyOutgoing'
  <2>1. \A x \in txq : x # m /\ x \in Mbufs
    BY HeaderFacts DEF OwnedOnce, TypeOK
  <2>. QED  BY <1>2, <1>3, <2>1, HeaderFacts DEF SendsOnlyOutgoing
<1>5. ASSUME NEW t \in Sockets PROVE Directed(t)'
  <2>1. \A k \in Places : Owns(t, k) =>
          packets[t][k] # m /\ packets[t][k] \in Mbufs
    BY HeaderFacts DEF OwnedOnce
  <2>2. SameSocket(t)
    BY <1>2 DEF SameSocket
  <2>. QED  BY <1>3, <2>1, <2>2, StaysDirected
<1>. QED  BY <1>4, <1>5 DEF AllDirected

LEMMA TxDoneHeaders ==
  ASSUME HeadersInv, TxDone
  PROVE  SendsOnlyOutgoing' /\ AllDirected'
<1>1. /\ txq' \subseteq txq /\ txq' \ again' \subseteq txq \ again
      /\ UNCHANGED << hdr, packets, active, used, pc, op, num, idx, good, turned >>
  BY DEF TxDone, locals
<1>2. \A t \in Sockets : SameSocket(t)
  BY <1>1 DEF SameSocket
<1>. QED  BY <1>1, <1>2, StaysDirected, HeaderFacts DEF SendsOnlyOutgoing, AllDirected

(***************************************************************************)
(* send gives the port what was requested; send_back what recv returned,   *)
(* after it has turned the headers round, once.                            *)
(***************************************************************************)
LEMMA GivenToPort ==
  ASSUME HeadersInv, NEW s \in Sockets, NEW n \in HowMany,
         pc[s] = "idle", TxBurst(s, Least(n, Remaining(s)))
  PROVE  \E k \in 0 .. Least(n, Remaining(s)) :
           /\ txq' = txq \cup Range0(s, used[s], used[s] + k)
           /\ used' = [used EXCEPT ![s] = @ + k]
           /\ k <= active[s] - used[s]
<1> DEFINE howmany == Least(n, Remaining(s))
<1>1. active[s] \in Nat /\ used[s] \in Nat /\ used[s] <= active[s]
  BY HeaderFacts DEF TypeOK, AllIndices, Indices
<1>2. Remaining(s) \in Nat /\ n \in Nat
  <2>1. active[s] - used[s] \in Nat
    BY <1>1
  <2>2. n \in Nat
    BY DpdkAssumption
  <2>. QED  BY <2>1, <2>2 DEF Remaining
<1>3. howmany \in Nat /\ howmany <= active[s] - used[s]
  BY <1>1, <1>2 DEF Least, Remaining
<1> HIDE DEF howmany
<1>4. TxBurst(s, howmany)
  BY DEF howmany
<1>5. PICK k \in 0..howmany :
           /\ txq' = txq \cup Range0(s, used[s], used[s] + k)
           /\ used' = [used EXCEPT ![s] = @ + k]
  BY <1>3, <1>4, HeaderFacts, Accepts
<1>6. k <= active[s] - used[s]
  BY <1>1, <1>3, <1>5
<1>. QED  BY <1>5, <1>6 DEF howmany

LEMMA SendHeaders ==
  ASSUME HeadersInv, NEW s \in Sockets, Send(s)
  PROVE  SendsOnlyOutgoing' /\ AllDirected'
<1>0. /\ active \in [Sockets -> 0..BurstSize] /\ used \in [Sockets -> 0..BurstSize]
      /\ BurstSize \in Nat
  BY HeaderFacts DEF TypeOK
<1>1. /\ pc[s] = "idle" /\ op[s] = "request"
      /\ UNCHANGED << hdr, packets, active, pc, op, num, idx, good, turned, again >>
  BY DEF Send, locals
<1>2. PICK n \in HowMany : TxBurst(s, Least(n, Remaining(s)))
  BY DEF Send
<1>3. PICK k \in 0 .. Least(n, Remaining(s)) :
           /\ txq' = txq \cup Range0(s, used[s], used[s] + k)
           /\ used' = [used EXCEPT ![s] = @ + k]
           /\ k <= active[s] - used[s]
  BY <1>1, <1>2, GivenToPort
<1>4. Directed(s) /\ Step(s)
  BY HeaderFacts DEF AllDirected, Step
<1>5. k \in Nat
  <2>1. Least(n, Remaining(s)) \in Int
    BY <1>0 DEF Least, Remaining
  <2>. QED  BY <2>1
<1>6. \A j \in used[s] .. (used[s] + k) - 1 : j \in Places /\ Owns(s, j)
  BY <1>0, <1>1, <1>3, <1>5 DEF Owns
<1>7. \A j \in used[s] .. (used[s] + k) - 1 : hdr[packets[s][j]] = "out"
  BY <1>1, <1>4, <1>6 DEF Directed, Outgoing
<1>8. SendsOnlyOutgoing'
  <2>1. Range0(s, used[s], used[s] + k)
          = {packets[s][j] : j \in used[s] .. (used[s] + k) - 1}
    BY Zenon DEF Range0
  <2>2. \A x \in Range0(s, used[s], used[s] + k) : hdr[x] = "out"
    BY <1>7, <2>1
  <2>. QED  BY <1>1, <1>3, <2>2, HeaderFacts DEF SendsOnlyOutgoing
<1>9. Directed(s)'
  <2>1. used'[s] = used[s] + k
    BY <1>0, <1>3
  <2>2. \A j \in Places : Owns(s, j)' => Owns(s, j)
    BY <1>0, <1>1, <1>5, <2>1 DEF Owns
  <2>. QED  BY <1>1, <1>4, <2>2 DEF Directed, Outgoing, Incoming, InOperation
<1>. QED  BY <1>1, <1>4, <1>8, <1>9, NoHeaderChanged

LEMMA SendBackHeaders ==
  ASSUME HeadersInv, NEW s \in Sockets, SendBack(s)
  PROVE  SendsOnlyOutgoing' /\ AllDirected'
<1>0. /\ active \in [Sockets -> 0..BurstSize] /\ used \in [Sockets -> 0..BurstSize]
      /\ BurstSize \in Nat /\ hdr \in [Mbufs -> {"in", "out", "foreign"}]
      /\ turned \in [Sockets -> 0..BurstSize] /\ txq \in SUBSET Mbufs
  BY HeaderFacts DEF TypeOK
<1>1. /\ pc[s] = "idle" /\ op[s] = "recv"
      /\ UNCHANGED << packets, active, pc, op, num, idx, good >>
  BY DEF SendBack, locals
<1>2. PICK n \in HowMany :
         /\ hdr' = [m \in Mbufs |->
                     IF m \in Range0(s, used[s],
                                     used[s] + Least(n, Remaining(s)))
                     THEN Swapped(hdr[m]) ELSE hdr[m]]
         /\ TxBurst(s, Least(n, Remaining(s)))
         /\ TurnedUntil(s, used[s] + Least(n, Remaining(s)))
  BY DEF SendBack
<1> DEFINE howmany == Least(n, Remaining(s))
<1> DEFINE back == Range0(s, used[s], used[s] + howmany)
<1>3. PICK k \in 0 .. howmany :
           /\ txq' = txq \cup Range0(s, used[s], used[s] + k)
           /\ used' = [used EXCEPT ![s] = @ + k]
           /\ k <= active[s] - used[s]
  BY <1>1, <1>2, GivenToPort
<1>4. Directed(s) /\ Step(s) /\ Indices(s)
  BY HeaderFacts DEF AllDirected, AllIndices, Step
<1>5. howmany \in Int /\ howmany <= active[s] - used[s] /\ k \in Nat
  <2>1. howmany \in Int /\ howmany <= active[s] - used[s]
    BY <1>0 DEF Least, Remaining
  <2>. QED  BY <2>1
<1>6. /\ used[s] <= turned[s] /\ turned[s] \in Nat /\ used[s] \in Nat
      /\ \A j \in Places : turned[s] <= j /\ j < active[s]
           => hdr[packets[s][j]] = "in"
  BY <1>0, <1>1, <1>4 DEF Directed, InOperation, Incoming
<1> HIDE DEF howmany
<1>7. \A j \in used[s] .. (used[s] + howmany) - 1 :
        j \in Places /\ Owns(s, j) /\ j < active[s]
  BY <1>0, <1>1, <1>5 DEF Owns
<1>8. \A j \in used[s] .. (used[s] + howmany) - 1 :
        /\ packets[s][j] \in Mbufs /\ packets[s][j] \notin txq
        /\ turned[s] <= j => hdr[packets[s][j]] = "in"
  BY <1>6, <1>7, HeaderFacts DEF OwnedOnce
<1>8a. back = {packets[s][j] : j \in used[s] .. (used[s] + howmany) - 1}
  BY Zenon DEF Range0
<1>9. /\ back \subseteq Mbufs /\ back \cap txq = {}
      /\ \A j \in used[s] .. (used[s] + howmany) - 1 :
           turned[s] <= j => hdr'[packets[s][j]] = "out"
  <2>1. \A x \in back : \E j \in used[s] .. (used[s] + howmany) - 1 :
                           x = packets[s][j]
    BY Zenon, <1>8a
  <2>2. \A x \in back : x \in Mbufs /\ x \notin txq
    BY <1>8, <2>1
  <2>3. \A x \in back : hdr'[x] = Swapped(hdr[x])
    BY <1>2, <2>2 DEF howmany
  <2>4. \A j \in used[s] .. (used[s] + howmany) - 1 : packets[s][j] \in back
    BY Zenon, <1>8a
  <2> HIDE DEF back
  <2>. QED  BY <1>8, <2>2, <2>3, <2>4 DEF Swapped
<1>10. \A m \in Mbufs : m \notin back => hdr'[m] = hdr[m]
  BY <1>2 DEF howmany
<1>11. /\ turned'[s] = IF used[s] + howmany > turned[s] THEN used[s] + howmany
                                                        ELSE turned[s]
       /\ again' = again \cup (txq' \cap Range0(s, used[s], turned[s]))
  BY <1>0, <1>2 DEF TurnedUntil, howmany
<1>12. SendsOnlyOutgoing'
  <2> SUFFICES ASSUME NEW x \in txq', x \notin again' PROVE hdr'[x] = "out"
    BY DEF SendsOnlyOutgoing
  <2>1. CASE x \in txq
    <3>1. x \notin again /\ x \in Mbufs /\ x \notin back
      BY <1>0, <1>9, <1>11, <2>1
    <3>. QED  BY <1>10, <2>1, <3>1, HeaderFacts DEF SendsOnlyOutgoing
  <2>2. CASE x \notin txq
    <3>1. x \in Range0(s, used[s], used[s] + k)
      BY <1>3, <2>2
    <3>2. PICK j \in used[s] .. (used[s] + k) - 1 : x = packets[s][j]
      BY Zenon, <3>1 DEF Range0
    <3>3. j \in used[s] .. (used[s] + howmany) - 1
      BY <1>3, <1>5, <1>6, <3>2
    <3>4. x \notin Range0(s, used[s], turned[s])
      BY <1>11
    <3>5. \A l \in used[s] .. turned[s] - 1 : x # packets[s][l]
      BY Zenon, <3>4 DEF Range0
    <3>6. turned[s] <= j
      BY <1>6, <3>2, <3>3, <3>5
    <3>. QED  BY <1>9, <3>2, <3>3, <3>6
  <2>. QED  BY <2>1, <2>2
<1>13. Directed(s)'
  <2>1. used'[s] = used[s] + k /\ k <= howmany
    BY <1>0, <1>3, <1>5
  <2>2. InOperation(s)'
    BY <1>1, <1>5, <1>6, <1>11, <2>1 DEF InOperation
  <2>3. Outgoing(s)'
    BY <1>1 DEF Outgoing
  <2>4. ASSUME NEW j \in Places, turned'[s] <= j, j < active[s]
        PROVE  hdr'[packets[s][j]] = "in"
    <3>1. turned[s] <= j /\ used[s] + howmany <= j /\ used[s] <= j
      BY <1>5, <1>6, <1>11, <2>4
    <3>2. Owns(s, j) /\ hdr[packets[s][j]] = "in"
      BY <1>1, <1>6, <2>4, <3>1 DEF Owns
    <3>3. packets[s][j] \in Mbufs
      BY <3>2, HeaderFacts DEF OwnedOnce
    <3>4. \A l \in used[s] .. (used[s] + howmany) - 1 : l # j
      BY <1>5, <1>6, <3>1
    <3>5. \A l \in used[s] .. (used[s] + howmany) - 1 :
            packets[s][l] # packets[s][j]
      BY <1>7, <3>2, <3>4, HeaderFacts DEF OwnedOnce
    <3>6. packets[s][j] \notin back
      BY Zenon, <1>8a, <3>5
    <3>. QED  BY <1>10, <3>2, <3>3, <3>6
  <2>5. Incoming(s)'
    BY <1>1, <2>4 DEF Incoming
  <2>. QED  BY <2>2, <2>3, <2>5 DEF Directed
<1>14. \A t \in Sockets, j \in Places :
          Owns(t, j) /\ packets[t][j] \in back => t = s
  <2> SUFFICES ASSUME NEW t \in Sockets, NEW j \in Places, Owns(t, j),
                      packets[t][j] \in back
               PROVE  t = s
    OBVIOUS
  <2>1. PICK i \in used[s] .. (used[s] + howmany) - 1 :
           packets[t][j] = packets[s][i]
    <3> HIDE DEF back
    <3>. QED  BY <1>8a
  <2>2. i \in Places /\ Owns(s, i)
    BY <1>7
  <2>. QED  BY <2>1, <2>2, HeaderFacts DEF OwnedOnce
<1> HIDE DEF back
<1>. QED  BY <1>4, <1>10, <1>12, <1>13, <1>14, OthersDirected

LEMMA NextHeaders == HeadersInv /\ [Next]_vars => HeadersInv'
<1> SUFFICES ASSUME HeadersInv, [Next]_vars PROVE HeadersInv'
  OBVIOUS
<1>1. DpdkInv'
  BY NextInv DEF HeadersInv
<1>2. ASSUME NEW s \in Sockets, Step(s)
      PROVE  SendsOnlyOutgoing' /\ AllDirected'
  BY <1>2, KeepHeaders, AllocHeaders, SendHeaders, SendBackHeaders DEF Step
<1>3. CASE UNCHANGED vars
  <2>1. UNCHANGED << txq, hdr, again >> /\ \A t \in Sockets : SameSocket(t)
    BY <1>3 DEF vars, SameSocket
  <2>. QED  BY <1>1, <2>1, StaysDirected
            DEF HeadersInv, SendsOnlyOutgoing, AllDirected
<1>. QED  BY <1>1, <1>2, <1>3, ArriveHeaders, TxDoneHeaders
          DEF Next, HeadersInv

LEMMA HeadersInvariant == Spec => []HeadersInv
  BY InitHeaders, NextHeaders, PTL DEF Spec

-----------------------------------------------------------------------------
(***************************************************************************)
(* Whatever part of a burst the port refuses, and however the threads      *)
(* interleave, only frames addressed to the peer are handed to it          *)
(* (nfv_socket_dpdk_send, nfv_socket_dpdk_send_back).                      *)
(***************************************************************************)
THEOREM SendsCorrect == Spec => []SendsOnlyOutgoing
<1>1. HeadersInv => SendsOnlyOutgoing
  BY DEF HeadersInv
<1>. QED  BY <1>1, HeadersInvariant, PTL

(* What recv returns are frames for this application, although the filter  *)
(* moves them within the array it walks over (nfv_socket_dpdk_recv).       *)
THEOREM ReceivesCorrect == Spec => []ReceivesOnlyIncoming
<1>1. HeadersInv => ReceivesOnlyIncoming
  <2> SUFFICES ASSUME HeadersInv, NEW s \in Sockets,
                      pc[s] = "idle", op[s] = "recv", turned[s] = 0,
                      NEW k \in 0 .. active[s] - 1
               PROVE  hdr[packets[s][k]] = "in"
    BY DEF ReceivesOnlyIncoming
  <2>1. active[s] \in 0..BurstSize
    BY HeaderFacts DEF TypeOK
  <2>2. k \in Places /\ k < active[s]
    BY <2>1
  <2>. QED  BY <2>2, HeaderFacts DEF AllDirected, Directed, Incoming
<1>. QED  BY <1>1, HeadersInvariant, PTL
=============================================================================
