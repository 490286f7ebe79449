--------------------------- MODULE TestappProofs ---------------------------
(***************************************************************************)
(* The deprecated applications over kernel sockets and the stop-and-wait   *)
(* clients, for any size of bursts, buffers and queues and any timeout:    *)
(* what is counted, to whom the server replies and what is measured; and   *)
(* that the applications over DPDK lose no mbuf, for any pool and burst.   *)
(***************************************************************************)
EXTENDS Testapp, SequenceTheorems, FiniteSetTheorems, TLAPS

-----------------------------------------------------------------------------
(* The stop-and-wait clients.                                              *)

(* The wait ends with the answer to the last request in tsc_pkt, or with   *)
(* a reading of the clock that is past the timeout.                        *)
WaitInv ==
  /\ now \in Nat /\ tsc_last \in Nat
  /\ cpc \in {"recv", "count"} => tsc_last \in sent
  /\ CountsTheLastRequest

Things == [what : {"answer", "foreign", "short"}, stamp : Nat]

MbufsInv ==
  /\ freeMbufs \in Int /\ inTx \in Int /\ held \in Int
  /\ transport \in {"udp", "raw", "dpdk"}
  /\ sent \subseteq Nat /\ now \in Nat /\ queue \in Seq(Things)
  /\ ClientstKeepsMbufs

LEMMA ClientstInitially == ClientstInit => WaitInv /\ MbufsInv
<1> SUFFICES ASSUME ClientstInit PROVE WaitInv /\ MbufsInv
  OBVIOUS
<1>1. WaitInv
  BY DEF ClientstInit, WaitInv, CountsTheLastRequest
<1>2. << >> \in Seq(Things) /\ Len(<< >>) = 0
  BY EmptySeq
<1>3. MbufsInv
  BY <1>2, TestappClientstAssumption
     DEF ClientstInit, MbufsInv, ClientstKeepsMbufs
<1>. QED  BY <1>1, <1>3

LEMMA WaitStep == WaitInv /\ ClientstNext => WaitInv'
<1> SUFFICES ASSUME WaitInv, ClientstNext PROVE WaitInv'
  OBVIOUS
<1>t. \A t \in Readings : t \in Nat
  BY TestappClientstAssumption DEF WaitInv, Readings
<1>g. \A t \in Readings : t - tsc_last >= MaxDelay => ~ (t - tsc_last < MaxDelay)
  BY <1>t, TestappClientstAssumption DEF WaitInv
<1> USE DEF WaitInv, CountsTheLastRequest, InTime
<1>1. CASE AnswerArrives \/ Transmitted
  BY <1>1 DEF AnswerArrives, Transmitted, tscVars
<1>2. CASE Top
  BY <1>t, <1>2 DEF Top
<1>3. CASE Alloc
  BY <1>3 DEF Alloc, tscVars
<1>4. CASE Offer
  BY <1>t, <1>4 DEF Offer
<1>5. CASE Receive
  <2>1. PICK t \in Readings :
          /\ now' = t /\ tsc_cur' = t
          /\ cpc' = IF Accepted(Head(queue)) \/ t - tsc_last >= MaxDelay
                      THEN "count" ELSE "recv"
    BY <1>5 DEF Receive
  <2>2. /\ cpc = "recv" /\ tsc_pkt' = StampRead(Head(queue))
        /\ UNCHANGED << tsc_last, sent >>
    BY <1>5 DEF Receive
  <2>3. CASE Accepted(Head(queue))
    BY <1>t, <2>1, <2>2, <2>3 DEF Accepted, StampRead
  <2>4. CASE t - tsc_last >= MaxDelay
    <3>1. ~ (t - tsc_last < MaxDelay)
      BY <1>g, <2>4
    <3>. QED  BY <1>t, <2>1, <2>2, <3>1
  <2>5. CASE ~ Accepted(Head(queue)) /\ ~ (t - tsc_last >= MaxDelay)
    BY <1>t, <2>1, <2>2, <2>5
  <2>. QED  BY <2>3, <2>4, <2>5
<1>6. CASE ReceiveNothing
  <2>1. PICK t \in Readings :
          /\ now' = t /\ tsc_cur' = t
          /\ cpc' = IF t - tsc_last >= MaxDelay THEN "count" ELSE "recv"
    BY <1>6 DEF ReceiveNothing
  <2>2. cpc = "recv" /\ UNCHANGED << tsc_last, sent >>
    BY <1>6 DEF ReceiveNothing
  <2>. QED  BY <1>t, <1>g, <2>1, <2>2
<1>7. CASE Count
  BY <1>t, <1>7 DEF Count
<1>8. CASE TimedOut
  BY <1>8 DEF TimedOut, tscVars
<1>. QED  BY <1>1, <1>2, <1>3, <1>4, <1>5, <1>6, <1>7, <1>8 DEF ClientstNext

LEMMA ArrivingThings ==
  ASSUME MbufsInv, NEW f \in {Answer(s) : s \in sent} \cup Strangers
  PROVE  f \in Things
<1>1. CASE f \in {Answer(s) : s \in sent}
  BY <1>1 DEF Answer, Things, MbufsInv
<1>2. CASE f \in Strangers
  <2>1. PICK w : f = [what |-> w, stamp |-> 0] /\ w \in {"foreign", "short"}
    <3>1. CASE transport = "udp"
      BY <1>2, <3>1 DEF Strangers
    <3>2. CASE transport = "dpdk"
      BY <1>2, <3>2 DEF Strangers
    <3>3. CASE transport = "raw"
      BY <1>2, <3>3 DEF Strangers
    <3>. QED  BY <3>1, <3>2, <3>3 DEF MbufsInv
  <2>. QED  BY <2>1 DEF Things
<1>. QED  BY <1>1, <1>2

LEMMA MbufsStep == MbufsInv /\ ClientstNext => MbufsInv'
<1> SUFFICES ASSUME MbufsInv, ClientstNext PROVE MbufsInv'
  OBVIOUS
<1>0. /\ freeMbufs \in Int /\ inTx \in Int /\ held \in Int
      /\ sent \subseteq Nat /\ now \in Nat /\ queue \in Seq(Things)
      /\ Dpdk => freeMbufs + inTx + held + Len(queue) = PoolSize
  BY DEF MbufsInv, ClientstKeepsMbufs
<1>t. Readings \subseteq Nat
  BY <1>0, TestappClientstAssumption DEF Readings
<1> USE DEF MbufsInv, ClientstKeepsMbufs, Dpdk
<1>1. CASE AnswerArrives
  <2>1. PICK f \in Things : queue' = Append(queue, f)
    BY <1>1, ArrivingThings DEF AnswerArrives
  <2>2. queue' \in Seq(Things) /\ Len(queue') = Len(queue) + 1
    BY <1>0, <2>1
  <2>. QED  BY <1>0, <1>1, <2>2, SMTT(30) DEF AnswerArrives
<1>2. CASE Transmitted
  BY <1>0, <1>2 DEF Transmitted
<1>3. CASE Top
  BY <1>0, <1>t, <1>3 DEF Top, mbufVars
<1>4. CASE Alloc
  BY <1>0, <1>4 DEF Alloc
<1>5. CASE Offer
  <2>1. PICK t \in Readings, accepted \in BOOLEAN :
          /\ now' = t
          /\ sent' = IF accepted THEN sent \cup {t} ELSE sent
          /\ IF accepted /\ Dpdk
               THEN inTx' = inTx + 1 /\ held' = held - 1
               ELSE UNCHANGED << inTx, held >>
    BY <1>5 DEF Offer
  <2>2. UNCHANGED << transport, queue, freeMbufs >>
    BY <1>5 DEF Offer
  <2>3. now' \in Nat /\ sent' \subseteq Nat
    BY <1>0, <1>t, <2>1
  <2>4. /\ inTx' \in Int /\ held' \in Int
        /\ Dpdk' => freeMbufs' + inTx' + held' + Len(queue') = PoolSize
    <3>1. Len(queue) \in Nat
      BY <1>0
    <3>2. CASE accepted /\ Dpdk
      <4>1. inTx' = inTx + 1 /\ held' = held - 1
        BY <2>1, <3>2
      <4>. QED  BY <1>0, <2>2, <3>1, <3>2, <4>1
    <3>3. CASE ~ (accepted /\ Dpdk)
      <4>1. inTx' = inTx /\ held' = held
        BY <2>1, <3>3
      <4>. QED  BY <1>0, <2>2, <4>1
    <3>. QED  BY <3>2, <3>3
  <2>. QED  BY <1>0, <2>2, <2>3, <2>4
<1>6. CASE Receive
  <2>1. /\ queue' \in Seq(Things) /\ Len(queue') = Len(queue) - 1
    BY <1>0, <1>6, HeadTailProperties DEF Receive
  <2>2. /\ now' \in Nat
        /\ freeMbufs' = IF Dpdk THEN freeMbufs + 1 ELSE freeMbufs
        /\ UNCHANGED << transport, inTx, held, sent >>
    BY <1>t, <1>6 DEF Receive
  <2>3. Len(queue) \in Nat
    BY <1>0
  <2>. QED  BY <1>0, <2>1, <2>2, <2>3
<1>7. CASE ReceiveNothing
  BY <1>0, <1>t, <1>7 DEF ReceiveNothing, mbufVars
<1>8. CASE Count
  BY <1>0, <1>t, <1>8 DEF Count, mbufVars
<1>9. CASE TimedOut
  BY <1>0, <1>9 DEF TimedOut, mbufVars
<1>. QED
  BY <1>1, <1>2, <1>3, <1>4, <1>5, <1>6, <1>7, <1>8, <1>9 DEF ClientstNext

-----------------------------------------------------------------------------
(* The applications over kernel sockets.                                   *)

Anyone == Peers \cup {"server", "nobody"}
Frame == [serial : Nat, from : Anyone, whole : BOOLEAN, turned : BOOLEAN]
ReplyFrame == [serial : Nat, from : Anyone, to : Anyone]
MeasuredFrame == [serial : Nat, whole : BOOLEAN]

SocketsTypeOK ==
  /\ sapp \in {"send", "recv", "server", "client"}
  /\ raw \in BOOLEAN /\ use_mmsg \in BOOLEAN
  /\ rcvq \in Seq(Frame) /\ inNet \subseteq Frame
  /\ buf \in [Slots -> Frame] /\ src_addresses \in [Slots -> Anyone]
  /\ spc \in {"recv", "turn", "reply", "measure"}
  /\ res \in 0 .. BurstMsgs /\ place \in 0 .. res
  /\ tx \in Int /\ dropped \in Int /\ rx \in Int /\ serial \in Nat
  /\ tries \in Int /\ taken \in Int /\ given \in Int
  /\ replies \in Seq(ReplyFrame) /\ measured \in Seq(MeasuredFrame)

(* On a UDP socket every datagram fills the buffer of recv.                *)
AccountsInv ==
  /\ SocketAccounts
  /\ sapp = "recv" /\ ~ raw => \A k \in 1 .. Len(rcvq) : rcvq[k].whole

(* The places of buf[] that hold what was received and not dealt with.     *)
Pending ==
  CASE spc \in {"turn", "reply"} -> {p \in Slots : p < res}
    [] spc = "measure" -> {p \in Slots : place <= p /\ p < res}
    [] OTHER -> {}

(* server: what was answered came before what is in the buffers, and that  *)
(* before what is queued; each buffer has the address of its own frame.    *)
Answered ==
  \A k \in 1 .. Len(replies) :
    /\ replies[k].serial <= serial /\ replies[k].to = replies[k].from
    /\ \A l \in 1 .. Len(replies) : k < l => replies[k].serial < replies[l].serial
    /\ \A p \in Pending : replies[k].serial < buf[p].serial
    /\ \A l \in 1 .. Len(rcvq) : replies[k].serial < rcvq[l].serial
Buffered ==
  \A p \in Pending :
    /\ buf[p].serial <= serial
    /\ src_addresses[p] = buf[p].from
    /\ buf[p].turned <=> (raw /\ spc = "reply")
    /\ \A q \in Pending : p < q => buf[p].serial < buf[q].serial
    /\ \A l \in 1 .. Len(rcvq) : buf[p].serial < rcvq[l].serial
Queued ==
  \A k \in 1 .. Len(rcvq) :
    /\ rcvq[k].serial <= serial /\ ~ rcvq[k].turned
    /\ \A l \in 1 .. Len(rcvq) : k < l => rcvq[k].serial < rcvq[l].serial

ServerInv ==
  IF sapp = "server" THEN spc # "measure" /\ Answered /\ Buffered /\ Queued
  ELSE spc \in {"recv", "measure"} /\ replies = << >>

(* client: an echo is in one place, on the network, queued, in a buffer    *)
(* not measured yet, or measured; stamps without a frame of their own, 0   *)
(* or left in a buffer by an earlier frame, are of none to come.           *)
OnNetwork ==
  \A f \in inNet :
    /\ 0 < f.serial /\ f.serial <= serial /\ f.whole
    /\ \A g \in inNet : f.serial = g.serial => f = g
InQueue ==
  \A k \in 1 .. Len(rcvq) :
    /\ rcvq[k].serial <= serial /\ (raw \/ rcvq[k].whole)
    /\ rcvq[k].serial # 0 =>
         /\ \A l \in 1 .. Len(rcvq) : rcvq[k].serial = rcvq[l].serial => k = l
         /\ \A f \in inNet : rcvq[k].serial # f.serial
InSlots ==
  \A p \in Slots :
    /\ buf[p].serial <= serial
    /\ buf[p].serial # 0 =>
         /\ \A l \in 1 .. Len(rcvq) : buf[p].serial # rcvq[l].serial
         /\ \A f \in inNet : buf[p].serial # f.serial
InBuffers ==
  \A p \in Pending :
    /\ raw \/ buf[p].whole
    /\ buf[p].whole /\ buf[p].serial # 0 =>
         \A q \in Slots : buf[p].serial = buf[q].serial => p = q
Measured ==
  \A k \in 1 .. Len(measured) :
    /\ measured[k].serial <= serial
    /\ measured[k].serial # 0 =>
         /\ \A l \in 1 .. Len(measured) :
              k < l /\ measured[k].serial = measured[l].serial
                => raw /\ use_mmsg /\ ~ measured[l].whole
         /\ \A p \in Pending : buf[p].whole => measured[k].serial # buf[p].serial
         /\ \A l \in 1 .. Len(rcvq) : measured[k].serial # rcvq[l].serial
         /\ \A f \in inNet : measured[k].serial # f.serial

Once == OnNetwork /\ InQueue /\ InSlots /\ InBuffers /\ Measured

ClientInv ==
  IF sapp = "client" THEN Once
  ELSE spc # "measure" /\ measured = << >>

SocketsInv == SocketsTypeOK /\ AccountsInv /\ ServerInv /\ ClientInv

Limits == 1 .. BurstMsgs

LEMMA LimitOfFetch == (IF use_mmsg THEN BurstMsgs ELSE 1) \in Limits
BY TestappSocketsAssumption DEF Limits

LEMMA InBufferFacts ==
  ASSUME NEW old \in Frame, NEW f \in Frame
  PROVE  /\ InBuffer(old, f) \in Frame
         /\ sapp = "client" =>
              IF f.whole THEN InBuffer(old, f) = f
              ELSE ~ InBuffer(old, f).whole /\ InBuffer(old, f).serial = old.serial
BY DEF InBuffer, Frame

LEMMA FetchFacts ==
  ASSUME SocketsTypeOK, NEW limit \in Limits, Fetch(limit)
  PROVE  /\ res' \in 0 .. BurstMsgs /\ res' <= Len(rcvq) /\ place' = 0
         /\ rcvq' \in Seq(Frame) /\ Len(rcvq') = Len(rcvq) - res'
         /\ \A l \in 1 .. Len(rcvq') :
              l + res' \in 1 .. Len(rcvq) /\ rcvq'[l] = rcvq[l + res']
         /\ buf' \in [Slots -> Frame] /\ src_addresses' \in [Slots -> Anyone]
         /\ \A p \in Slots :
              p < res' => /\ p + 1 \in 1 .. Len(rcvq)
                          /\ buf'[p] = InBuffer(buf[p], rcvq[p + 1])
                          /\ sapp # "client" => buf'[p] = rcvq[p + 1]
                          /\ src_addresses'[p] = rcvq[p + 1].from
         /\ \A p \in Slots : ~ (p < res') => buf'[p] = buf[p]
         /\ taken' = taken + res'
<1>1. /\ rcvq \in Seq(Frame) /\ Len(rcvq) \in Nat
      /\ buf \in [Slots -> Frame] /\ src_addresses \in [Slots -> Anyone]
      /\ BurstMsgs \in Nat /\ limit \in 1 .. BurstMsgs
  BY TestappSocketsAssumption DEF SocketsTypeOK, Limits
<1>2. /\ res' = Howmany(limit) /\ place' = 0 /\ taken' = taken + res'
      /\ buf' = [s \in Slots |-> IF s < res' THEN InBuffer(buf[s], rcvq[s + 1])
                                             ELSE buf[s]]
      /\ src_addresses' = [s \in Slots |-> IF s < res' THEN rcvq[s + 1].from
                                                       ELSE src_addresses[s]]
      /\ rcvq' = SubSeq(rcvq, res' + 1, Len(rcvq))
  BY DEF Fetch
<1>3. res' \in 0 .. BurstMsgs /\ res' <= Len(rcvq)
  BY <1>1, <1>2 DEF Howmany
<1>a. res' \in Nat /\ Len(rcvq) \in Nat /\ BurstMsgs \in Nat /\ res' <= BurstMsgs
  BY <1>1, <1>3
<1>4. /\ rcvq' \in Seq(Frame) /\ Len(rcvq') = Len(rcvq) - res'
      /\ \A l \in 1 .. Len(rcvq') :
           l + res' \in 1 .. Len(rcvq) /\ rcvq'[l] = rcvq[l + res']
  <2>1. \A r \in Nat : r <= Len(rcvq) =>
          /\ SubSeq(rcvq, r + 1, Len(rcvq)) \in Seq(Frame)
          /\ Len(SubSeq(rcvq, r + 1, Len(rcvq))) = Len(rcvq) - r
          /\ \A l \in 1 .. Len(rcvq) - r :
               l + r \in 1 .. Len(rcvq) /\
               SubSeq(rcvq, r + 1, Len(rcvq))[l] = rcvq[l + r]
    <3>1. \A r \in Nat : \A l \in r + 1 .. Len(rcvq) : l \in 1 .. Len(rcvq)
      BY <1>1
    <3>. QED  BY <1>1, <3>1
  <2>. QED  BY <1>a, <1>2, <1>3, <2>1
<1>6. \A k \in 1 .. Len(rcvq) : rcvq[k] \in Frame /\ rcvq[k].from \in Anyone
  <2>1. \A k \in 1 .. Len(rcvq) : rcvq[k] \in Frame
    BY <1>1
  <2>. QED  BY <2>1 DEF Frame
<1>7. \A s \in Slots : s < res' => s + 1 \in 1 .. Len(rcvq)
  BY <1>1, <1>3 DEF Slots
<1>5. \A s \in Slots, k \in 1 .. Len(rcvq) : InBuffer(buf[s], rcvq[k]) \in Frame
  BY <1>1, <1>6, InBufferFacts
<1>8. buf' \in [Slots -> Frame] /\ src_addresses' \in [Slots -> Anyone]
  BY <1>1, <1>2, <1>5, <1>6, <1>7
<1>9. sapp # "client" => \A s \in Slots, k \in 1 .. Len(rcvq) :
                           InBuffer(buf[s], rcvq[k]) = rcvq[k]
  BY DEF InBuffer
<1>. QED  BY <1>2, <1>3, <1>4, <1>7, <1>8, <1>9

(* What the sending loops may have put on the network.                     *)
Sent(howmany) ==
  {[serial |-> serial + k, from |-> "server", whole |-> TRUE,
    turned |-> FALSE] : k \in 1 .. howmany}

LEMMA WireFacts ==
  ASSUME SocketsTypeOK, NEW howmany \in Nat, PutOnWire(howmany)
  PROVE  /\ given' = given + howmany /\ serial' = serial + howmany
         /\ serial' \in Nat /\ given' \in Int /\ inNet' \subseteq Frame
         /\ inNet' = IF sapp # "client" THEN inNet ELSE inNet \cup Sent(howmany)
<1>1. serial \in Nat /\ given \in Int /\ inNet \subseteq Frame
  BY DEF SocketsTypeOK
<1>2. \A k \in 1 .. howmany : serial + k \in Nat
  BY <1>1
<1>3. Sent(howmany) \subseteq Frame
  <2>1. SUFFICES ASSUME NEW k \in 1 .. howmany
                 PROVE  [serial |-> serial + k, from |-> "server",
                         whole |-> TRUE, turned |-> FALSE] \in Frame
    BY DEF Sent
  <2>2. serial + k \in Nat
    BY <1>2
  <2>. QED  BY <2>2 DEF Frame, Anyone
<1>4. /\ given' = given + howmany /\ serial' = serial + howmany
      /\ inNet' = IF sapp # "client" THEN inNet ELSE inNet \cup Sent(howmany)
  BY DEF PutOnWire, Sent
<1>. QED  BY <1>1, <1>3, <1>4

LEMMA SocketsTypeInitially == SocketsInit => SocketsTypeOK
<1> SUFFICES ASSUME SocketsInit PROVE SocketsTypeOK
  OBVIOUS
<1>1. Nothing \in Frame
  BY DEF Nothing, Frame, Anyone
<1>2. /\ buf \in [Slots -> Frame] /\ src_addresses \in [Slots -> Anyone]
  BY <1>1 DEF SocketsInit, Anyone
<1>3. res \in 0 .. BurstMsgs /\ place \in 0 .. res
  BY TestappSocketsAssumption DEF SocketsInit
<1>4. rcvq \in Seq(Frame) /\ replies \in Seq(ReplyFrame) /\ measured \in Seq(MeasuredFrame)
  BY DEF SocketsInit
<1>. QED  BY <1>2, <1>3, <1>4 DEF SocketsInit, SocketsTypeOK

LEMMA ReplyType ==
  ASSUME SocketsTypeOK, NEW k \in 0 .. res
  PROVE  [s \in 1 .. k |-> Reply(s - 1)] \in Seq(ReplyFrame)
<1>1. k \in Nat /\ \A s \in 1 .. k : s - 1 \in Slots
  BY TestappSocketsAssumption DEF SocketsTypeOK, Slots
<1>2. \A s \in Slots : /\ buf[s].serial \in Nat /\ buf[s].from \in Anyone
                       /\ src_addresses[s] \in Anyone
  <2>1. \A s \in Slots : buf[s] \in Frame /\ src_addresses[s] \in Anyone
    BY DEF SocketsTypeOK
  <2>. QED  BY <2>1 DEF Frame
<1>3. \A s \in Slots : Reply(s) \in ReplyFrame
  BY <1>2 DEF Reply, ReplyFrame, Anyone
<1>4. \A s \in 1 .. k : Reply(s - 1) \in ReplyFrame
  BY <1>1, <1>3
<1>. QED  BY <1>1, <1>4

(* What arrives, by the application it arrives at.                         *)
LEMMA ArrivingFrame ==
  ASSUME SocketsTypeOK, FrameArrives
  PROVE  \E f \in Frame :
           /\ rcvq' = Append(rcvq, f) /\ (sapp # "client" /\ ~ raw => f.whole)
           /\ sapp # "client" => /\ serial' = serial + 1 /\ f.serial = serial + 1
                                 /\ ~ f.turned
           /\ sapp = "client" =>
                \/ f \in inNet /\ inNet' = inNet \ {f} /\ serial' = serial
                \/ f.serial = 0 /\ raw /\ inNet' = inNet /\ serial' = serial
<1>1. serial \in Nat /\ inNet \subseteq Frame
  BY DEF SocketsTypeOK
<1>2. \A x \in Nat, senders \in SUBSET Anyone : \A f \in Frames(x, senders) :
        f \in Frame /\ f.serial = x /\ ~ f.turned /\ (~ raw => f.whole)
  BY DEF Frames, Frame
<1>3. Peers \in SUBSET Anyone /\ {"nobody"} \in SUBSET Anyone
  BY DEF Anyone
<1>4. CASE EchoArrives
  BY <1>1, <1>4 DEF EchoArrives
<1>5. CASE StrangerArrives
  <2>1. PICK f \in Frames(0, {"nobody"}) : rcvq' = Append(rcvq, f)
    BY <1>5 DEF StrangerArrives
  <2>2. f \in Frame /\ f.serial = 0
    BY <1>2, <1>3, <2>1
  <2>. QED  BY <1>5, <2>1, <2>2 DEF StrangerArrives
<1>6. CASE PeerFrameArrives
  <2>1. sapp # "client" /\ serial' = serial + 1 /\ serial' \in Nat
    BY <1>1, <1>6 DEF PeerFrameArrives
  <2>2. PICK f \in Frames(serial', Peers) : rcvq' = Append(rcvq, f)
    BY <1>6 DEF PeerFrameArrives
  <2>3. f \in Frame /\ f.serial = serial' /\ ~ f.turned /\ (~ raw => f.whole)
    BY <1>2, <1>3, <2>1, <2>2
  <2>. QED  BY <2>1, <2>2, <2>3
<1>. QED  BY <1>4, <1>5, <1>6 DEF FrameArrives

LEMMA SocketsTypeStep == SocketsTypeOK /\ SocketsNext => SocketsTypeOK'
<1> SUFFICES ASSUME SocketsTypeOK, SocketsNext PROVE SocketsTypeOK'
  OBVIOUS
<1>0. /\ sapp \in {"send", "recv", "server", "client"}
      /\ raw \in BOOLEAN /\ use_mmsg \in BOOLEAN
      /\ rcvq \in Seq(Frame) /\ inNet \subseteq Frame
      /\ buf \in [Slots -> Frame] /\ src_addresses \in [Slots -> Anyone]
      /\ spc \in {"recv", "turn", "reply", "measure"}
      /\ BurstMsgs \in Nat /\ res \in 0 .. BurstMsgs /\ place \in 0 .. res
      /\ tx \in Int /\ dropped \in Int /\ rx \in Int /\ serial \in Nat
      /\ tries \in Int /\ taken \in Int /\ given \in Int
      /\ replies \in Seq(ReplyFrame) /\ measured \in Seq(MeasuredFrame)
  BY TestappSocketsAssumption DEF SocketsTypeOK
<1>1. CASE FrameArrives
  <2>1. PICK f \in Frame : rcvq' = Append(rcvq, f)
    BY <1>0, <1>1, ArrivingFrame
  <2>2. rcvq' \in Seq(Frame)
    BY <1>0, <2>1
  <2>3. serial' \in Nat /\ inNet' \subseteq Frame
    BY <1>0, <1>1 DEF FrameArrives, EchoArrives, StrangerArrives, PeerFrameArrives
  <2>. QED
    BY <1>0, <1>1, <2>2, <2>3 DEF FrameArrives, SocketsTypeOK, statVars
<1>2. CASE BurstBegins \/ BurstEnds
  BY <1>0, <1>2 DEF BurstBegins, BurstEnds, SocketsTypeOK, rcvVars, statVars
<1>3. CASE SendMmsg
  <2>1. PICK k \in 0 .. BurstMsgs :
          /\ PutOnWire(k)
          /\ IF sapp = "send"
               THEN tx' = tx + k /\ dropped' = dropped + (BurstMsgs - k)
               ELSE UNCHANGED << tx, dropped >>
    BY <1>3 DEF SendMmsg
  <2>2. k \in Nat
    BY <1>0
  <2>3. serial' \in Nat /\ given' \in Int /\ inNet' \subseteq Frame
    BY <2>1, <2>2, WireFacts
  <2>4. tx' \in Int /\ dropped' \in Int /\ tries' \in Int
    BY <1>0, <1>3, <2>1 DEF SendMmsg
  <2>. QED  BY <1>0, <1>3, <2>3, <2>4 DEF SendMmsg, SocketsTypeOK, rcvVars
<1>4. CASE SendNext
  <2>1. PICK k \in 0 .. 1 :
          /\ PutOnWire(k)
          /\ IF sapp = "send" THEN tx' = tx + k /\ dropped' = dropped + (1 - k)
                              ELSE UNCHANGED << tx, dropped >>
    BY <1>4 DEF SendNext
  <2>2. k \in Nat
    OBVIOUS
  <2>3. serial' \in Nat /\ given' \in Int /\ inNet' \subseteq Frame
    BY <2>1, <2>2, WireFacts
  <2>4. tx' \in Int /\ dropped' \in Int /\ tries' \in Int
    BY <1>0, <1>4, <2>1 DEF SendNext
  <2>. QED  BY <1>0, <1>4, <2>3, <2>4 DEF SendNext, SocketsTypeOK, rcvVars
<1>5. CASE RecvLoop
  <2>1. Fetch(IF use_mmsg THEN BurstMsgs ELSE 1)
    BY <1>5 DEF RecvLoop
  <2>2. /\ res' \in 0 .. BurstMsgs /\ place' = 0 /\ rcvq' \in Seq(Frame)
        /\ buf' \in [Slots -> Frame] /\ src_addresses' \in [Slots -> Anyone]
        /\ taken' = taken + res'
    BY <2>1, LimitOfFetch, FetchFacts
  <2>3. rx' \in Int /\ taken' \in Int
    BY <1>0, <1>5, <2>2 DEF RecvLoop
  <2>. QED  BY <1>0, <1>5, <2>2, <2>3 DEF RecvLoop, SocketsTypeOK, sndVars
<1>6. CASE RecvBurst
  <2>1. Fetch(IF use_mmsg THEN BurstMsgs ELSE 1)
    BY <1>6 DEF RecvBurst
  <2>2. /\ res' \in 0 .. BurstMsgs /\ place' = 0 /\ rcvq' \in Seq(Frame)
        /\ buf' \in [Slots -> Frame] /\ src_addresses' \in [Slots -> Anyone]
        /\ taken' = taken + res'
    BY <2>1, LimitOfFetch, FetchFacts
  <2>. QED
    BY <1>0, <1>6, <2>2 DEF RecvBurst, SocketsTypeOK, sndVars, statVars
<1>7. CASE Turn
  <2>1. \A f \in Frame : SwappedFrame(f) \in Frame
    BY DEF SwappedFrame, Frame
  <2>2. buf' \in [Slots -> Frame]
    BY <1>0, <1>7, <2>1 DEF Turn
  <2>. QED  BY <1>0, <1>7, <2>2 DEF Turn, SocketsTypeOK, sndVars, statVars
<1>8. CASE SendReplies
  <2>1. PICK k \in 0 .. res : replies' = replies \o [s \in 1..k |-> Reply(s - 1)]
    BY <1>8 DEF SendReplies
  <2>2. replies' \in Seq(ReplyFrame)
    <3>1. [s \in 1 .. k |-> Reply(s - 1)] \in Seq(ReplyFrame)
      BY ReplyType
    <3>. QED  BY <1>0, <2>1, <3>1
  <2>. QED  BY <1>0, <1>8, <2>2 DEF SendReplies, SocketsTypeOK, sndVars, statVars
<1>9. CASE MeasureNext
  <2>1. place \in Slots /\ place + 1 \in 0 .. res
    BY <1>0, <1>9 DEF MeasureNext, Slots
  <2>2. [serial |-> buf[place].serial, whole |-> buf[place].whole] \in MeasuredFrame
    <3>1. buf[place] \in Frame
      BY <1>0, <2>1
    <3>. QED  BY <3>1 DEF Frame, MeasuredFrame
  <2>3. measured' \in Seq(MeasuredFrame)
    BY <1>0, <1>9, <2>2 DEF MeasureNext, Measure
  <2>. QED
    BY <1>0, <1>9, <2>1, <2>3 DEF MeasureNext, SocketsTypeOK, sndVars, statVars
<1>10. CASE MeasuredAll
  BY <1>0, <1>10 DEF MeasuredAll, SocketsTypeOK, sndVars, statVars
<1>. QED
  BY <1>1, <1>2, <1>3, <1>4, <1>5, <1>6, <1>7, <1>8, <1>9, <1>10 DEF SocketsNext

LEMMA AccountsStep ==
  SocketsTypeOK /\ AccountsInv /\ SocketsNext => AccountsInv'
<1> SUFFICES ASSUME SocketsTypeOK, AccountsInv, SocketsNext PROVE AccountsInv'
  OBVIOUS
<1>0. /\ rcvq \in Seq(Frame) /\ BurstMsgs \in Nat /\ raw \in BOOLEAN
      /\ tx \in Int /\ dropped \in Int /\ rx \in Int
      /\ tries \in Int /\ taken \in Int /\ given \in Int
  BY TestappSocketsAssumption DEF SocketsTypeOK
<1>a. sapp = "send" => tx = given /\ dropped = tries - given
  BY DEF AccountsInv, SocketAccounts
<1>r. sapp = "recv" /\ ~ raw =>
        rx = taken /\ \A k \in 1 .. Len(rcvq) : rcvq[k].whole
  BY DEF AccountsInv, SocketAccounts
<1> USE DEF AccountsInv, SocketAccounts
<1>1. CASE FrameArrives
  <2>1. UNCHANGED << sapp, raw, tx, dropped, rx, tries, given, taken >>
    BY <1>1 DEF FrameArrives, statVars
  <2>2. CASE sapp = "recv" /\ ~ raw
    <3>2. PICK f : f.whole /\ rcvq' = Append(rcvq, f)
      BY <1>1, <2>2, ArrivingFrame
    <3>3. \A k \in 1 .. Len(rcvq') : rcvq'[k].whole
      BY <1>0, <1>r, <2>2, <3>2
    <3>. QED  BY <1>r, <2>1, <2>2, <3>3
  <2>. QED  BY <1>a, <2>1, <2>2
<1>2. CASE BurstBegins \/ BurstEnds
  BY <1>2 DEF BurstBegins, BurstEnds, rcvVars, statVars
<1>3. CASE SendMmsg
  <2>1. PICK k \in 0 .. BurstMsgs :
          /\ PutOnWire(k)
          /\ IF sapp = "send"
               THEN tx' = tx + k /\ dropped' = dropped + (BurstMsgs - k)
               ELSE UNCHANGED << tx, dropped >>
    BY <1>3 DEF SendMmsg
  <2>2. k \in Int /\ given' = given + k /\ tries' = tries + BurstMsgs
    BY <1>0, <1>3, <2>1 DEF PutOnWire, SendMmsg
  <2>3. UNCHANGED << sapp, raw, rx, taken, rcvq >>
    BY <1>3 DEF SendMmsg, rcvVars
  <2>. QED  BY <1>0, <1>a, <1>r, <2>1, <2>2, <2>3
<1>4. CASE SendNext
  <2>1. PICK k \in 0 .. 1 :
          /\ PutOnWire(k)
          /\ IF sapp = "send" THEN tx' = tx + k /\ dropped' = dropped + (1 - k)
                              ELSE UNCHANGED << tx, dropped >>
    BY <1>4 DEF SendNext
  <2>2. k \in Int /\ given' = given + k /\ tries' = tries + 1
    BY <1>0, <1>4, <2>1 DEF PutOnWire, SendNext
  <2>3. UNCHANGED << sapp, raw, rx, taken, rcvq >>
    BY <1>4 DEF SendNext, rcvVars
  <2>. QED  BY <1>0, <1>a, <1>r, <2>1, <2>2, <2>3
<1>5. CASE RecvLoop
  <2>1. Fetch(IF use_mmsg THEN BurstMsgs ELSE 1)
    BY <1>5 DEF RecvLoop
  <2>2. /\ res' \in 0 .. BurstMsgs /\ res' <= Len(rcvq)
        /\ Len(rcvq') = Len(rcvq) - res'
        /\ \A l \in 1 .. Len(rcvq') :
             l + res' \in 1 .. Len(rcvq) /\ rcvq'[l] = rcvq[l + res']
        /\ \A p \in Slots : p < res' => /\ p + 1 \in 1 .. Len(rcvq)
                                        /\ buf'[p] = rcvq[p + 1]
        /\ taken' = taken + res'
    BY <1>5, <2>1, LimitOfFetch, FetchFacts DEF RecvLoop
  <2>3. sapp = "recv" /\ UNCHANGED << sapp, raw >>
    BY <1>5 DEF RecvLoop
  <2>4. CASE ~ raw
    <3>1. PICK fills \in BOOLEAN :
            /\ fills <=> buf'[0].whole
            /\ rx' = rx + (IF use_mmsg \/ fills THEN res' ELSE 0)
      BY <1>5, <2>4 DEF RecvLoop
    <3>2. rx' = rx + res'
      <4>1. CASE res' = 0
        BY <1>0, <3>1, <4>1
      <4>2. CASE res' # 0
        <5>1. 0 \in Slots /\ 0 < res'
          BY <1>0, <2>2, <4>2 DEF Slots
        <5>2. buf'[0].whole
          BY <1>r, <2>2, <2>3, <2>4, <5>1
        <5>. QED  BY <3>1, <5>2
      <4>. QED  BY <4>1, <4>2
    <3>. QED  BY <1>r, <2>2, <2>3, <2>4, <3>2
  <2>. QED  BY <2>3, <2>4
<1>6. CASE RecvBurst
  BY <1>6 DEF RecvBurst, sndVars, statVars
<1>7. CASE Turn \/ SendReplies \/ MeasureNext \/ MeasuredAll
  BY <1>7 DEF Turn, SendReplies, MeasureNext, MeasuredAll, sndVars, statVars
<1>. QED
  BY <1>1, <1>2, <1>3, <1>4, <1>5, <1>6, <1>7 DEF SocketsNext

(* The serial numbers that the invariants compare are numbers.             *)
LEMMA SerialTypes ==
  ASSUME SocketsTypeOK
  PROVE  /\ serial \in Nat /\ Len(rcvq) \in Nat
         /\ Len(replies) \in Nat /\ Len(measured) \in Nat
         /\ \A k \in 1 .. Len(rcvq) : rcvq[k] \in Frame /\ rcvq[k].serial \in Nat
         /\ \A p \in Slots : buf[p] \in Frame /\ buf[p].serial \in Nat
         /\ \A k \in 1 .. Len(replies) : replies[k].serial \in Nat
         /\ \A k \in 1 .. Len(measured) : measured[k].serial \in Nat
         /\ \A f \in inNet : f.serial \in Nat
         /\ Pending \subseteq Slots /\ (spc = "recv" => Pending = {})
<1>1. \A f \in Frame : f.serial \in Nat
  BY DEF Frame
<1>2. \A f \in ReplyFrame : f.serial \in Nat
  BY DEF ReplyFrame
<1>3. Pending \subseteq Slots /\ (spc = "recv" => Pending = {})
  BY DEF Pending
<1>4. \A k \in 1 .. Len(rcvq) : rcvq[k] \in Frame
  BY DEF SocketsTypeOK
<1>5. \A p \in Slots : buf[p] \in Frame
  BY DEF SocketsTypeOK
<1>6. \A k \in 1 .. Len(replies) : replies[k] \in ReplyFrame
  BY DEF SocketsTypeOK
<1>7. /\ serial \in Nat /\ Len(rcvq) \in Nat
      /\ Len(replies) \in Nat /\ Len(measured) \in Nat
      /\ \A k \in 1 .. Len(measured) : measured[k] \in MeasuredFrame
      /\ \A f \in inNet : f \in Frame
  BY DEF SocketsTypeOK
<1>8. \A f \in MeasuredFrame : f.serial \in Nat
  BY DEF MeasuredFrame
<1>. QED  BY <1>1, <1>2, <1>3, <1>4, <1>5, <1>6, <1>7, <1>8

(* What a sending loop does to the rest: the serial numbers grow.          *)
LEMMA SendingSteps ==
  ASSUME SocketsTypeOK, BurstBegins \/ BurstEnds \/ SendMmsg \/ SendNext
  PROVE  /\ UNCHANGED << sapp, raw, use_mmsg, rcvVars, replies, measured >>
         /\ \E howmany \in Nat :
              /\ serial' = serial + howmany
              /\ inNet' = IF sapp # "client" THEN inNet
                                             ELSE inNet \cup Sent(howmany)
<1>1. CASE BurstBegins \/ BurstEnds
  <2>1. serial' = serial + 0 /\ inNet' = inNet \cup Sent(0) /\ inNet' = inNet
    BY <1>1 DEF BurstBegins, BurstEnds, Sent, SocketsTypeOK
  <2>. QED  BY <1>1, <2>1 DEF BurstBegins, BurstEnds
<1>2. CASE SendMmsg
  <2>1. PICK k \in 0 .. BurstMsgs : PutOnWire(k)
    BY <1>2 DEF SendMmsg
  <2>2. k \in Nat
    BY TestappSocketsAssumption
  <2>. QED  BY <1>2, <2>1, <2>2, WireFacts DEF SendMmsg
<1>3. CASE SendNext
  <2>1. PICK k \in 0 .. 1 : PutOnWire(k)
    BY <1>3 DEF SendNext
  <2>2. k \in Nat
    OBVIOUS
  <2>. QED  BY <1>3, <2>1, <2>2, WireFacts DEF SendNext
<1>. QED  BY <1>1, <1>2, <1>3

(* A frame arrives behind all others.                                      *)
LEMMA ServerFrame ==
  ASSUME SocketsTypeOK, sapp = "server", Answered, Buffered, Queued,
         FrameArrives
  PROVE  Answered' /\ Buffered' /\ Queued'
<1>t. /\ serial \in Nat /\ Len(rcvq) \in Nat /\ Len(replies) \in Nat
      /\ \A k \in 1 .. Len(rcvq) : rcvq[k].serial \in Nat
      /\ \A p \in Slots : buf[p].serial \in Nat
      /\ \A k \in 1 .. Len(replies) : replies[k].serial \in Nat
      /\ Pending \subseteq Slots
  BY SerialTypes
<1>1. PICK f : /\ f.serial = serial + 1 /\ ~ f.turned /\ serial' = serial + 1
               /\ rcvq' = Append(rcvq, f)
  BY ArrivingFrame
<1>2. /\ Pending' = Pending
      /\ UNCHANGED << replies, raw, buf, src_addresses, spc >>
  BY DEF FrameArrives, Pending
<1>3. /\ Len(rcvq') = Len(rcvq) + 1
      /\ \A l \in 1 .. Len(rcvq') :
           \/ l \in 1 .. Len(rcvq) /\ rcvq'[l] = rcvq[l]
           \/ l = Len(rcvq) + 1 /\ rcvq'[l] = f
  <2>1. rcvq \in Seq(Frame)
    BY DEF SocketsTypeOK
  <2>. QED  BY <1>1, <2>1
<1>4. Answered'
  <2>1. \A k \in 1 .. Len(replies) :
          /\ replies[k].serial <= serial'
          /\ \A l \in 1 .. Len(rcvq') : replies[k].serial < rcvq'[l].serial
    BY <1>t, <1>1, <1>3 DEF Answered
  <2>. QED  BY <1>2, <2>1 DEF Answered
<1>5. Buffered'
  <2>1. \A p \in Pending :
          /\ buf[p].serial <= serial'
          /\ \A l \in 1 .. Len(rcvq') : buf[p].serial < rcvq'[l].serial
    BY <1>t, <1>1, <1>3 DEF Buffered
  <2>. QED  BY <1>2, <2>1 DEF Buffered
<1>6. Queued'
  <2>1. \A k \in 1 .. Len(rcvq') : rcvq'[k].serial <= serial' /\ ~ rcvq'[k].turned
    BY <1>t, <1>1, <1>3 DEF Queued
  <2>2. ASSUME NEW k \in 1 .. Len(rcvq'), NEW l \in 1 .. Len(rcvq'), k < l
        PROVE  rcvq'[k].serial < rcvq'[l].serial
    <3>1. k \in 1 .. Len(rcvq) /\ rcvq'[k] = rcvq[k]
      BY <1>t, <1>3, <2>2
    <3>. QED  BY <1>t, <1>1, <1>3, <2>2, <3>1 DEF Queued
  <2>. QED  BY <2>1, <2>2 DEF Queued
<1>. QED  BY <1>4, <1>5, <1>6

(* The head of the queue becomes what is in the buffers.                   *)
LEMMA ServerFetch ==
  ASSUME SocketsTypeOK, sapp = "server", spc = "recv",
         Answered, Buffered, Queued, RecvBurst
  PROVE  Answered' /\ Buffered' /\ Queued'
<1>t. /\ serial \in Nat /\ Len(rcvq) \in Nat /\ Len(replies) \in Nat
      /\ \A k \in 1 .. Len(rcvq) : rcvq[k].serial \in Nat
      /\ \A k \in 1 .. Len(replies) : replies[k].serial \in Nat
  BY SerialTypes
<1>1. /\ spc' = "turn"
      /\ UNCHANGED << sapp, raw, serial, replies >>
      /\ Fetch(IF use_mmsg THEN BurstMsgs ELSE 1)
  BY DEF RecvBurst
<1>2. /\ res' \in 0 .. BurstMsgs /\ Len(rcvq') = Len(rcvq) - res'
      /\ \A l \in 1 .. Len(rcvq') :
           l + res' \in 1 .. Len(rcvq) /\ rcvq'[l] = rcvq[l + res']
      /\ \A p \in Slots :
           p < res' => /\ p + 1 \in 1 .. Len(rcvq) /\ buf'[p] = rcvq[p + 1]
                       /\ src_addresses'[p] = rcvq[p + 1].from
  BY <1>1, LimitOfFetch, FetchFacts
<1>3. Pending' = {p \in Slots : p < res'} /\ Slots \subseteq Nat
  BY <1>1 DEF Pending, Slots
<1>4. Answered'
  <2>1. \A k \in 1 .. Len(replies) :
          /\ \A p \in Pending' : replies[k].serial < buf'[p].serial
          /\ \A l \in 1 .. Len(rcvq') : replies[k].serial < rcvq'[l].serial
    BY <1>2, <1>3 DEF Answered
  <2>. QED  BY <1>1, <2>1 DEF Answered
<1>r. PICK r \in Nat, m \in Int : r = res' /\ m = Len(rcvq')
  BY <1>t, <1>2, TestappSocketsAssumption
<1>5. Buffered'
  <2>1. \A p \in Pending' :
          /\ buf'[p].serial <= serial /\ ~ buf'[p].turned
          /\ src_addresses'[p] = buf'[p].from
    BY <1>2, <1>3 DEF Queued
  <2>2. ASSUME NEW p \in Pending', NEW q \in Pending', p < q
        PROVE  buf'[p].serial < buf'[q].serial
    <3>1. p + 1 < q + 1
      BY <1>3, <2>2
    <3>. QED  BY <1>2, <1>3, <3>1 DEF Queued
  <2>3. ASSUME NEW p \in Pending', NEW l \in 1 .. Len(rcvq')
        PROVE  buf'[p].serial < rcvq'[l].serial
    <3>1. l \in 1 .. m /\ p < r /\ p \in Nat
      BY <1>r, <1>3
    <3>2. p + 1 < l + r
      BY <3>1
    <3>. QED  BY <1>2, <1>3, <1>r, <3>2 DEF Queued
  <2>. QED  BY <1>1, <2>1, <2>2, <2>3 DEF Buffered
<1>6. Queued'
  <2>1. \A k \in 1 .. Len(rcvq') : rcvq'[k].serial <= serial' /\ ~ rcvq'[k].turned
    BY <1>1, <1>2 DEF Queued
  <2>2. ASSUME NEW k \in 1 .. Len(rcvq'), NEW l \in 1 .. Len(rcvq'), k < l
        PROVE  rcvq'[k].serial < rcvq'[l].serial
    <3>1. k \in 1 .. m /\ l \in 1 .. m
      BY <1>r
    <3>2. k + r < l + r
      BY <2>2, <3>1
    <3>. QED  BY <1>2, <1>r, <3>2 DEF Queued
  <2>. QED  BY <2>1, <2>2 DEF Queued
<1>. QED  BY <1>4, <1>5, <1>6

LEMMA ServerTurn ==
  ASSUME SocketsTypeOK, Answered, Buffered, Queued, Turn
  PROVE  Answered' /\ Buffered' /\ Queued'
<1>t. /\ \A p \in Slots : buf[p] \in Frame
      /\ Pending \subseteq Slots
  BY SerialTypes
<1>1. /\ spc = "turn" /\ spc' = "reply"
      /\ UNCHANGED << raw, serial, replies, rcvq, res, src_addresses >>
      /\ raw \in BOOLEAN
  BY DEF Turn, SocketsTypeOK
<1>2. Pending' = Pending /\ \A p \in Pending : p \in Slots /\ p < res
  BY <1>1 DEF Pending
<1>3. \A f \in Frame : /\ SwappedFrame(f).serial = f.serial
                       /\ SwappedFrame(f).from = f.from
                       /\ SwappedFrame(f).turned = ~ f.turned
  BY DEF SwappedFrame, Frame
<1>4. \A p \in Pending : buf'[p] = IF raw THEN SwappedFrame(buf[p]) ELSE buf[p]
  BY <1>2 DEF Turn
<1>5. \A p \in Pending : /\ buf'[p].serial = buf[p].serial
                         /\ buf'[p].from = buf[p].from
                         /\ buf'[p].turned = IF raw THEN ~ buf[p].turned
                                                    ELSE buf[p].turned
  BY <1>t, <1>3, <1>4
<1>6. Answered'
  BY <1>1, <1>2, <1>5 DEF Answered
<1>7. Buffered'
  <2>1. \A p \in Pending : ~ buf[p].turned
    BY <1>1 DEF Buffered
  <2>2. \A p \in Pending : buf'[p].turned <=> (raw' /\ spc' = "reply")
    BY <1>1, <1>5, <2>1
  <2>. QED  BY <1>1, <1>2, <1>5, <2>2 DEF Buffered
<1>8. Queued'
  BY <1>1 DEF Queued
<1>. QED  BY <1>6, <1>7, <1>8

(* The replies that the kernel takes are the first of the burst.           *)
LEMMA ServerReplies ==
  ASSUME SocketsTypeOK, Answered, Buffered, Queued, SendReplies
  PROVE  Answered' /\ Buffered' /\ Queued'
<1>t. /\ serial \in Nat /\ Len(rcvq) \in Nat /\ Len(replies) \in Nat
      /\ \A k \in 1 .. Len(rcvq) : rcvq[k].serial \in Nat
      /\ \A p \in Slots : buf[p].serial \in Nat
      /\ \A k \in 1 .. Len(replies) : replies[k].serial \in Nat
      /\ Pending \subseteq Slots /\ (spc = "recv" => Pending = {})
  BY SerialTypes
<1>1. PICK k \in 0 .. res : replies' = replies \o [s \in 1..k |-> Reply(s - 1)]
  BY DEF SendReplies
<1>2. /\ spc = "reply" /\ spc' = "recv" /\ UNCHANGED << rcvq, serial >>
  BY DEF SendReplies
<1>3. Pending' = {} /\ Pending = {p \in Slots : p < res}
  BY <1>2 DEF Pending
<1>4. /\ k \in Nat /\ k <= res /\ res <= BurstMsgs /\ BurstMsgs \in Nat
      /\ res \in Nat
  BY TestappSocketsAssumption DEF SocketsTypeOK
<1>5. \A s \in 1 .. k : s - 1 \in Pending
  BY <1>3, <1>4 DEF Slots
<1>6. /\ Len(replies') = Len(replies) + k
      /\ \A l \in 1 .. Len(replies') :
           \/ l \in 1 .. Len(replies) /\ replies'[l] = replies[l]
           \/ /\ l - Len(replies) \in 1 .. k
              /\ replies'[l] = Reply(l - Len(replies) - 1)
  <2>1. [s \in 1 .. k |-> Reply(s - 1)] \in Seq(ReplyFrame)
    BY ReplyType
  <2>2. Len([s \in 1 .. k |-> Reply(s - 1)]) = k
    BY <1>4
  <2>3. replies \in Seq(ReplyFrame)
    BY DEF SocketsTypeOK
  <2>. QED  BY <1>1, <1>4, <2>1, <2>2, <2>3
<1>7. \A p \in Pending : /\ Reply(p).serial = buf[p].serial
                         /\ Reply(p).to = Reply(p).from
  BY <1>2 DEF Reply, Buffered
<1>8. Answered'
  <2>1. ASSUME NEW l \in 1 .. Len(replies')
        PROVE  /\ replies'[l].serial <= serial /\ replies'[l].to = replies'[l].from
               /\ \A m \in 1 .. Len(rcvq) : replies'[l].serial < rcvq[m].serial
    <3>1. CASE l \in 1 .. Len(replies) /\ replies'[l] = replies[l]
      BY <3>1 DEF Answered
    <3>2. CASE /\ l - Len(replies) \in 1 .. k
               /\ replies'[l] = Reply(l - Len(replies) - 1)
      <4>1. l - Len(replies) - 1 \in Pending
        BY <1>5, <3>2
      <4>. QED  BY <1>7, <3>2, <4>1 DEF Buffered
    <3>. QED  BY <1>6, <3>1, <3>2
  <2>2. ASSUME NEW l \in 1 .. Len(replies'), NEW m \in 1 .. Len(replies'), l < m
        PROVE  replies'[l].serial < replies'[m].serial
    <3>0. l \in Int /\ m \in Int
      BY <1>t, <1>4, <1>6
    <3>1. CASE m \in 1 .. Len(replies) /\ replies'[m] = replies[m]
      <4>1. l \in 1 .. Len(replies) /\ replies'[l] = replies[l]
        BY <1>t, <1>4, <1>6, <2>2, <3>0, <3>1
      <4>. QED  BY <2>2, <3>1, <4>1 DEF Answered
    <3>2. CASE /\ m - Len(replies) \in 1 .. k
               /\ replies'[m] = Reply(m - Len(replies) - 1)
      <4>1. m - Len(replies) - 1 \in Pending
        BY <1>5, <3>2
      <4>2. CASE l \in 1 .. Len(replies) /\ replies'[l] = replies[l]
        BY <1>7, <3>2, <4>1, <4>2 DEF Answered
      <4>3. CASE /\ l - Len(replies) \in 1 .. k
                 /\ replies'[l] = Reply(l - Len(replies) - 1)
        <5>1. l - Len(replies) - 1 \in Pending
          BY <1>5, <4>3
        <5>2. l - Len(replies) - 1 < m - Len(replies) - 1
          BY <1>t, <2>2, <3>0
        <5>. QED  BY <1>7, <3>2, <4>1, <4>3, <5>1, <5>2 DEF Buffered
      <4>. QED  BY <1>6, <4>2, <4>3
    <3>. QED  BY <1>6, <3>1, <3>2
  <2>. QED  BY <1>2, <1>3, <2>1, <2>2 DEF Answered
<1>9. Buffered' /\ Queued'
  BY <1>2, <1>3 DEF Buffered, Queued
<1>. QED  BY <1>8, <1>9

LEMMA ServerStep ==
  SocketsTypeOK /\ ServerInv /\ SocketsNext => ServerInv'
<1> SUFFICES ASSUME SocketsTypeOK, ServerInv, SocketsNext PROVE ServerInv'
  OBVIOUS
<1>s. sapp' = sapp /\ raw' = raw
  BY DEF SocketsNext, FrameArrives, BurstBegins, SendMmsg, SendNext, BurstEnds,
         RecvLoop, RecvBurst, Turn, SendReplies, MeasureNext, MeasuredAll
<1>1. CASE sapp # "server"
  <2>1. spc \in {"recv", "measure"} /\ replies = << >>
    BY <1>1 DEF ServerInv
  <2>2. spc' \in {"recv", "measure"} /\ replies' = replies
    BY <1>1, <2>1 DEF SocketsNext, FrameArrives, BurstBegins, SendMmsg, SendNext,
       BurstEnds, RecvLoop, RecvBurst, Turn, SendReplies, MeasureNext,
       MeasuredAll, rcvVars
  <2>. QED  BY <1>1, <1>s, <2>1, <2>2 DEF ServerInv
<1>2. CASE sapp = "server"
  <2>0. spc # "measure" /\ Answered /\ Buffered /\ Queued
    BY <1>2 DEF ServerInv
  <2>t. /\ serial \in Nat
        /\ \A k \in 1 .. Len(rcvq) : rcvq[k].serial \in Nat
        /\ \A p \in Slots : buf[p].serial \in Nat
        /\ \A k \in 1 .. Len(replies) : replies[k].serial \in Nat
        /\ Pending \subseteq Slots /\ (spc = "recv" => Pending = {})
    BY SerialTypes
  <2> SUFFICES spc' # "measure" /\ Answered' /\ Buffered' /\ Queued'
    BY <1>2, <1>s DEF ServerInv
  <2>1. CASE FrameArrives
    BY <1>2, <2>0, <2>1, ServerFrame DEF FrameArrives
  <2>2. CASE BurstBegins \/ BurstEnds \/ SendMmsg \/ SendNext
    <3>1. /\ UNCHANGED << raw, rcvVars, replies >>
          /\ \E howmany \in Nat : serial' = serial + howmany
      BY <2>2, SendingSteps
    <3>2. UNCHANGED << raw, rcvq, buf, src_addresses, spc, res, place, replies >>
      BY <3>1 DEF rcvVars
    <3>3. Pending' = Pending
      BY <3>2 DEF Pending
    <3>4. \A x \in Nat : x <= serial => x <= serial'
      BY <2>t, <3>1
    <3>. QED
      BY <2>0, <2>t, <3>2, <3>3, <3>4 DEF Answered, Buffered, Queued
  <2>3. CASE RecvLoop
    BY <1>2, <2>3 DEF RecvLoop
  <2>4. CASE RecvBurst
    <3>1. spc = "recv" /\ spc' = "turn"
      BY <1>2, <2>4 DEF RecvBurst
    <3>. QED  BY <1>2, <2>0, <2>4, <3>1, ServerFetch
  <2>5. CASE Turn
    BY <2>0, <2>5, ServerTurn DEF Turn
  <2>6. CASE SendReplies
    BY <2>0, <2>6, ServerReplies DEF SendReplies
  <2>7. CASE MeasureNext \/ MeasuredAll
    BY <2>0, <2>7 DEF MeasureNext, MeasuredAll
  <2>. QED
    BY <2>1, <2>2, <2>3, <2>4, <2>5, <2>6, <2>7 DEF SocketsNext
<1>. QED  BY <1>1, <1>2

(* An echo leaves the network for the queue, or a frame of others comes.   *)
LEMMA ClientFrame ==
  ASSUME SocketsTypeOK, sapp = "client", FrameArrives, Once
  PROVE  Once'
<1> USE DEF Once
<1>1. PICK f \in Frame :
        /\ rcvq' = Append(rcvq, f) /\ serial' = serial
        /\ \/ f \in inNet /\ inNet' = inNet \ {f}
           \/ f.serial = 0 /\ raw /\ inNet' = inNet
  BY ArrivingFrame
<1>2. UNCHANGED << serial, measured, buf, raw, use_mmsg >> /\ Pending' = Pending
  BY <1>1 DEF FrameArrives, Pending
<1>3. /\ Len(rcvq') = Len(rcvq) + 1
      /\ \A l \in 1 .. Len(rcvq') :
           \/ l \in 1 .. Len(rcvq) /\ rcvq'[l] = rcvq[l]
           \/ l = Len(rcvq) + 1 /\ rcvq'[l] = f
  <2>1. rcvq \in Seq(Frame)
    BY DEF SocketsTypeOK
  <2>. QED  BY <1>1, <2>1
<1>4. /\ \A g \in inNet' : g \in inNet /\ g.serial # f.serial
      /\ f.serial <= serial /\ (raw \/ f.whole)
      /\ f.serial # 0 => f \in inNet
  <2>1. serial \in Nat
    BY DEF SocketsTypeOK
  <2>. QED  BY <1>1, <2>1 DEF OnNetwork
<1>5. OnNetwork'
  BY <1>2, <1>4 DEF OnNetwork
<1>6. InQueue'
  <2>1. \A k \in 1 .. Len(rcvq) : rcvq[k].serial # 0 => rcvq[k].serial # f.serial
    BY <1>4 DEF InQueue
  <2>. QED  BY <1>2, <1>3, <1>4, <2>1 DEF InQueue
<1>7. InSlots'
  BY <1>2, <1>3, <1>4 DEF InSlots
<1>8. InBuffers'
  BY <1>2 DEF InBuffers
<1>9. Measured'
  BY <1>2, <1>3, <1>4 DEF Measured
<1>. QED  BY <1>5, <1>6, <1>7, <1>8, <1>9

(* New frames have new serial numbers.                                     *)
LEMMA ClientSends ==
  ASSUME SocketsTypeOK, sapp = "client",
         BurstBegins \/ BurstEnds \/ SendMmsg \/ SendNext, Once
  PROVE  Once'
<1> USE DEF Once
<1>t. /\ serial \in Nat
      /\ \A k \in 1 .. Len(rcvq) : rcvq[k].serial \in Nat
      /\ \A p \in Slots : buf[p].serial \in Nat
      /\ \A k \in 1 .. Len(measured) : measured[k].serial \in Nat
      /\ \A f \in inNet : f.serial \in Nat
      /\ Pending \subseteq Slots
  BY SerialTypes
<1>1. /\ UNCHANGED << raw, use_mmsg, rcvq, buf, spc, res, place, measured >>
      /\ \E howmany \in Nat : /\ serial' = serial + howmany
                              /\ inNet' = inNet \cup Sent(howmany)
  BY SendingSteps DEF rcvVars
<1>2. PICK howmany \in Nat : /\ serial' = serial + howmany
                             /\ inNet' = inNet \cup Sent(howmany)
  BY <1>1
<1>3. \A f \in Sent(howmany) : /\ f.serial \in Nat /\ serial < f.serial
                               /\ f.serial <= serial'
                               /\ \A g \in Sent(howmany) :
                                    f.serial = g.serial => f = g
  <2>1. ASSUME NEW f \in Sent(howmany)
        PROVE  \E k \in 1 .. howmany :
                 f = [serial |-> serial + k, from |-> "server", whole |-> TRUE,
                      turned |-> FALSE]
    BY DEF Sent
  <2>2. \A f \in Sent(howmany) : /\ f.serial \in Nat /\ serial < f.serial
                                 /\ f.serial <= serial'
    BY <1>t, <1>2, <2>1
  <2>3. ASSUME NEW f \in Sent(howmany), NEW g \in Sent(howmany),
               f.serial = g.serial
        PROVE  f = g
    <3>1. PICK k \in 1 .. howmany :
            f = [serial |-> serial + k, from |-> "server", whole |-> TRUE,
                 turned |-> FALSE]
      BY <2>1
    <3>2. PICK l \in 1 .. howmany :
            g = [serial |-> serial + l, from |-> "server", whole |-> TRUE,
                 turned |-> FALSE]
      BY <2>1
    <3>3. serial + k = serial + l
      BY <2>3, <3>1, <3>2
    <3>. QED  BY <3>1, <3>2, <3>3
  <2>. QED  BY <2>2, <2>3
<1>4. Pending' = Pending
  BY <1>1 DEF Pending
<1>5. serial' \in Nat /\ \A x \in Nat : x <= serial => x <= serial'
  BY <1>t, <1>2
<1>6. OnNetwork'
  <2>1. \A f \in inNet' : 0 < f.serial /\ f.serial <= serial' /\ f.whole
    <3>1. \A f \in Sent(howmany) : 0 < f.serial /\ f.serial <= serial' /\ f.whole
      <4>1. \A f \in Sent(howmany) : 0 < f.serial /\ f.serial <= serial'
        BY <1>t, <1>3
      <4>2. \A f \in Sent(howmany) : f.whole
        BY DEF Sent
      <4>. QED  BY <4>1, <4>2
    <3>2. \A f \in inNet : 0 < f.serial /\ f.serial <= serial' /\ f.whole
      BY <1>t, <1>5 DEF OnNetwork
    <3>. QED  BY <1>2, <3>1, <3>2
  <2>2. ASSUME NEW f \in inNet', NEW g \in inNet', f.serial = g.serial
        PROVE  f = g
    <3>1. CASE f \in inNet /\ g \in inNet
      BY <2>2, <3>1 DEF OnNetwork
    <3>2. CASE f \in Sent(howmany) /\ g \in Sent(howmany)
      BY <1>3, <2>2, <3>2
    <3>3. CASE f \in inNet /\ g \in Sent(howmany)
      BY <1>t, <1>3, <2>2, <3>3 DEF OnNetwork
    <3>4. CASE f \in Sent(howmany) /\ g \in inNet
      BY <1>t, <1>3, <2>2, <3>4 DEF OnNetwork
    <3>. QED  BY <1>2, <3>1, <3>2, <3>3, <3>4
  <2>. QED  BY <2>1, <2>2 DEF OnNetwork
<1>7. ASSUME NEW x \in Nat, x <= serial, \A f \in inNet : x # f.serial
      PROVE  \A f \in inNet' : x # f.serial
  BY <1>t, <1>2, <1>3, <1>7
<1>8. InQueue'
  <2>1. ASSUME NEW k \in 1 .. Len(rcvq)
        PROVE  /\ rcvq[k].serial <= serial'
               /\ rcvq[k].serial # 0 => \A f \in inNet' : rcvq[k].serial # f.serial
    BY <1>t, <1>5, <1>7 DEF InQueue
  <2>. QED  BY <1>1, <2>1 DEF InQueue
<1>9. InSlots'
  <2>1. ASSUME NEW p \in Slots
        PROVE  /\ buf[p].serial <= serial'
               /\ buf[p].serial # 0 => \A f \in inNet' : buf[p].serial # f.serial
    BY <1>t, <1>5, <1>7 DEF InSlots
  <2>. QED  BY <1>1, <2>1 DEF InSlots
<1>10. InBuffers'
  BY <1>1, <1>4 DEF InBuffers
<1>11. Measured'
  <2>1. ASSUME NEW k \in 1 .. Len(measured)
        PROVE  /\ measured[k].serial <= serial'
               /\ measured[k].serial # 0 =>
                    \A f \in inNet' : measured[k].serial # f.serial
    BY <1>t, <1>5, <1>7 DEF Measured
  <2>. QED  BY <1>1, <1>4, <2>1 DEF Measured
<1>. QED  BY <1>6, <1>8, <1>9, <1>10, <1>11

(* The head of the queue becomes what is in the buffers.                   *)
LEMMA ClientFetch ==
  ASSUME SocketsTypeOK, sapp = "client", RecvBurst, Once
  PROVE  Once'
<1> USE DEF Once
<1>1. /\ spc = "recv" /\ spc' = "measure"
      /\ UNCHANGED << raw, use_mmsg, serial, measured, inNet >>
      /\ Fetch(IF use_mmsg THEN BurstMsgs ELSE 1)
  BY DEF RecvBurst, sndVars, ClientInv
<1>2. /\ res' \in 0 .. BurstMsgs /\ place' = 0 /\ Len(rcvq') = Len(rcvq) - res'
      /\ \A l \in 1 .. Len(rcvq') :
           l + res' \in 1 .. Len(rcvq) /\ rcvq'[l] = rcvq[l + res']
      /\ \A p \in Slots :
           p < res' => /\ p + 1 \in 1 .. Len(rcvq)
                       /\ buf'[p] = InBuffer(buf[p], rcvq[p + 1])
      /\ \A p \in Slots : ~ (p < res') => buf'[p] = buf[p]
  BY <1>1, LimitOfFetch, FetchFacts
<1>3. Pending' \subseteq {p \in Slots : p < res'} /\ Slots \subseteq Nat
  BY <1>1 DEF Pending, Slots
<1>t. /\ Len(rcvq) \in Nat /\ \A k \in 1 .. Len(rcvq) : rcvq[k] \in Frame
      /\ \A p \in Slots : buf[p] \in Frame
  <2>1. rcvq \in Seq(Frame) /\ buf \in [Slots -> Frame]
    BY DEF SocketsTypeOK
  <2>. QED  BY <2>1
<1>r. PICK r \in Nat, m \in Int : r = res' /\ m = Len(rcvq')
  BY <1>t, <1>2, TestappSocketsAssumption
(* A slot holds a frame of the queue, whole, or the stamp it had.          *)
<1>4. \A p \in Slots :
        \/ /\ p \in Nat /\ p < r /\ p + 1 \in 1 .. Len(rcvq)
           /\ rcvq[p + 1].whole /\ buf'[p] = rcvq[p + 1]
        \/ /\ buf'[p].serial = buf[p].serial
           /\ p < r => p + 1 \in 1 .. Len(rcvq) /\ ~ rcvq[p + 1].whole
                                               /\ ~ buf'[p].whole
  BY <1>t, <1>2, <1>3, <1>r, InBufferFacts
<1>5. \A l \in 1 .. m : \E k \in 1 .. Len(rcvq) : k = l + r /\ rcvq'[l] = rcvq[k]
  BY <1>2, <1>r
<1>6. OnNetwork'
  BY <1>1 DEF OnNetwork
<1>7. InQueue'
  <2>1. ASSUME NEW k \in 1 .. m, NEW l \in 1 .. m,
               rcvq'[k].serial = rcvq'[l].serial, rcvq'[k].serial # 0
        PROVE  k = l
    <3>1. PICK c \in 1 .. Len(rcvq) : c = k + r /\ rcvq'[k] = rcvq[c]
      BY <1>5
    <3>2. PICK d \in 1 .. Len(rcvq) : d = l + r /\ rcvq'[l] = rcvq[d]
      BY <1>5
    <3>3. c = d
      BY <2>1, <3>1, <3>2 DEF InQueue
    <3>. QED  BY <3>1, <3>2, <3>3
  <2>2. \A k \in 1 .. m :
          /\ rcvq'[k].serial <= serial /\ (raw \/ rcvq'[k].whole)
          /\ rcvq'[k].serial # 0 => \A f \in inNet : rcvq'[k].serial # f.serial
    BY <1>5 DEF InQueue
  <2>. QED  BY <1>1, <1>r, <2>1, <2>2 DEF InQueue
<1>8. InSlots'
  <2>1. ASSUME NEW p \in Slots
        PROVE  /\ buf'[p].serial <= serial
               /\ buf'[p].serial # 0 =>
                    /\ \A l \in 1 .. m : buf'[p].serial # rcvq'[l].serial
                    /\ \A f \in inNet : buf'[p].serial # f.serial
    <3>1. CASE buf'[p].serial = buf[p].serial
      BY <1>5, <3>1 DEF InSlots
    <3>2. CASE p \in Nat /\ p < r /\ p + 1 \in 1 .. Len(rcvq) /\ buf'[p] = rcvq[p + 1]
      <4>1. ASSUME NEW l \in 1 .. m, buf'[p].serial # 0
            PROVE  buf'[p].serial # rcvq'[l].serial
        <5>1. PICK k \in 1 .. Len(rcvq) : k = l + r /\ rcvq'[l] = rcvq[k]
          BY <1>5
        <5>2. p + 1 # k
          BY <3>2, <5>1
        <5>. QED  BY <3>2, <4>1, <5>1, <5>2 DEF InQueue
      <4>. QED  BY <3>2, <4>1 DEF InQueue
    <3>. QED  BY <1>4, <3>1, <3>2
  <2>. QED  BY <1>1, <1>r, <2>1 DEF InSlots
<1>9. InBuffers'
  <2>1. ASSUME NEW p \in Pending'
        PROVE  raw \/ buf'[p].whole
    <3>1. p \in Slots /\ p < r
      BY <1>3, <1>r
    <3>. QED  BY <1>4, <3>1 DEF InQueue
  <2>2. ASSUME NEW p \in Pending', NEW q \in Slots, buf'[p].whole,
               buf'[p].serial # 0, buf'[p].serial = buf'[q].serial
        PROVE  p = q
    <3>1. /\ p \in Slots /\ p < r /\ p \in Nat /\ q \in Nat
          /\ p + 1 \in 1 .. Len(rcvq) /\ buf'[p] = rcvq[p + 1]
      BY <1>3, <1>4, <1>r, <2>2
    <3>2. CASE q + 1 \in 1 .. Len(rcvq) /\ buf'[q] = rcvq[q + 1]
      <4>1. p + 1 = q + 1
        BY <2>2, <3>1, <3>2 DEF InQueue
      <4>. QED  BY <3>1, <4>1
    <3>3. CASE buf'[q].serial = buf[q].serial
      BY <2>2, <3>1, <3>3 DEF InSlots
    <3>. QED  BY <1>4, <3>2, <3>3
  <2>. QED  BY <1>1, <2>1, <2>2 DEF InBuffers
<1>10. Measured'
  <2>1. ASSUME NEW k \in 1 .. Len(measured), measured[k].serial # 0
        PROVE  /\ \A p \in Pending' :
                    buf'[p].whole => measured[k].serial # buf'[p].serial
               /\ \A l \in 1 .. m : measured[k].serial # rcvq'[l].serial
    <3>1. \A l \in 1 .. m : measured[k].serial # rcvq'[l].serial
      BY <1>5, <2>1 DEF Measured
    <3>2. ASSUME NEW p \in Pending', buf'[p].whole
          PROVE  measured[k].serial # buf'[p].serial
      <4>1. p \in Slots /\ p < r
        BY <1>3, <1>r
      <4>2. p + 1 \in 1 .. Len(rcvq) /\ buf'[p] = rcvq[p + 1]
        BY <1>4, <3>2, <4>1
      <4>. QED  BY <2>1, <4>2 DEF Measured
    <3>. QED  BY <3>1, <3>2
  <2>. QED  BY <1>1, <1>r, <2>1 DEF Measured
<1>. QED  BY <1>6, <1>7, <1>8, <1>9, <1>10

(* A whole frame of the burst has not been measured, and a short one is    *)
(* measured only by the raw client with -m.                                *)
LEMMA ClientMeasures ==
  ASSUME SocketsTypeOK, MeasureNext, Once
  PROVE  Once'
<1> USE DEF Once
<1>1. /\ spc = "measure" /\ place < res /\ place' = place + 1
      /\ Measure
      /\ UNCHANGED << raw, use_mmsg, serial, inNet, rcvq, buf, spc, res >>
  BY DEF MeasureNext, sndVars
<1>2. /\ place \in Nat /\ res \in Nat /\ res <= BurstMsgs /\ BurstMsgs \in Nat
      /\ measured \in Seq(MeasuredFrame) /\ Len(measured) \in Nat
  BY TestappSocketsAssumption DEF SocketsTypeOK
<1>3. /\ place \in Pending /\ place \notin Pending' /\ place \in Slots
      /\ Pending' \subseteq Pending
  <2>1. Slots \subseteq Nat /\ place \in Slots
    BY <1>1, <1>2 DEF Slots
  <2>2. Pending = {p \in Slots : place <= p /\ p < res}
    BY <1>1 DEF Pending
  <2>3. Pending' = {p \in Slots : place + 1 <= p /\ p < res}
    BY <1>1 DEF Pending
  <2>4. place \in Pending
    BY <1>1, <1>2, <2>1, <2>2
  <2>5. place \notin Pending'
    BY <1>2, <2>3
  <2>6. \A p \in Slots : place + 1 <= p => place <= p
    BY <1>2, <2>1
  <2>. QED  BY <2>1, <2>2, <2>3, <2>4, <2>5, <2>6
<1>4. OnNetwork' /\ InQueue' /\ InSlots' /\ InBuffers'
  BY <1>1, <1>3 DEF OnNetwork, InQueue, InSlots, InBuffers
<1>5. CASE ~ (use_mmsg \/ buf[place].whole)
  <2>1. measured' = measured
    BY <1>1, <1>5 DEF Measure
  <2>2. Measured'
    BY <1>1, <1>3, <2>1 DEF Measured
  <2>. QED  BY <1>4, <2>2
<1>6. CASE use_mmsg \/ buf[place].whole
  <2>1. PICK f \in MeasuredFrame : /\ measured' = Append(measured, f)
                                   /\ f.serial = buf[place].serial
                                   /\ f.whole = buf[place].whole
    <3>1. buf[place] \in Frame
      BY <1>3 DEF SocketsTypeOK
    <3>2. [serial |-> buf[place].serial, whole |-> buf[place].whole] \in MeasuredFrame
      BY <3>1 DEF Frame, MeasuredFrame
    <3>. QED  BY <1>1, <1>6, <3>2 DEF Measure
  <2>2. /\ Len(measured') = Len(measured) + 1
        /\ \A k \in 1 .. Len(measured') :
             \/ k \in 1 .. Len(measured) /\ measured'[k] = measured[k]
             \/ k = Len(measured) + 1 /\ measured'[k] = f
    BY <1>2, <2>1
  <2>3. ASSUME NEW k \in 1 .. Len(measured), measured[k].serial # 0,
               measured[k].serial = f.serial
        PROVE  raw /\ use_mmsg /\ ~ f.whole
    <3>1. ~ buf[place].whole
      BY <1>3, <2>1, <2>3 DEF Measured
    <3>. QED  BY <1>3, <1>6, <2>1, <3>1 DEF InBuffers
  <2>4. f.serial <= serial
    BY <1>3, <2>1 DEF InSlots
  <2>5. f.serial # 0 =>
          /\ \A p \in Pending' : buf[p].whole => f.serial # buf[p].serial
          /\ \A l \in 1 .. Len(rcvq) : f.serial # rcvq[l].serial
          /\ \A g \in inNet : f.serial # g.serial
    <3>1. ASSUME NEW p \in Pending', buf[p].whole, f.serial # 0
          PROVE  f.serial # buf[p].serial
      BY <1>3, <2>1, <3>1 DEF InBuffers
    <3>. QED  BY <1>3, <2>1, <3>1 DEF InSlots
  <2>6. ASSUME NEW k \in 1 .. Len(measured'), NEW l \in 1 .. Len(measured'),
               measured'[k].serial # 0, k < l,
               measured'[k].serial = measured'[l].serial
        PROVE  raw /\ use_mmsg /\ ~ measured'[l].whole
    <3>1. k \in 1 .. Len(measured) /\ measured'[k] = measured[k]
      BY <1>2, <2>2, <2>6
    <3>. QED  BY <2>2, <2>3, <2>6, <3>1 DEF Measured
  <2>7. Measured'
    <3>1. ASSUME NEW k \in 1 .. Len(measured')
          PROVE  /\ measured'[k].serial <= serial
                 /\ measured'[k].serial # 0 =>
                      /\ \A p \in Pending' :
                           buf[p].whole => measured'[k].serial # buf[p].serial
                      /\ \A l \in 1 .. Len(rcvq) : measured'[k].serial # rcvq[l].serial
                      /\ \A g \in inNet : measured'[k].serial # g.serial
      BY <1>3, <2>2, <2>4, <2>5 DEF Measured
    <3>. QED  BY <1>1, <2>6, <3>1 DEF Measured
  <2>. QED  BY <1>4, <2>7
<1>. QED  BY <1>5, <1>6

LEMMA ClientStep ==
  SocketsTypeOK /\ ServerInv /\ ClientInv /\ SocketsNext => ClientInv'
<1> SUFFICES ASSUME SocketsTypeOK, ServerInv, ClientInv, SocketsNext
             PROVE  ClientInv'
  OBVIOUS
<1>s. sapp' = sapp
  BY DEF SocketsNext, FrameArrives, BurstBegins, SendMmsg, SendNext, BurstEnds,
         RecvLoop, RecvBurst, Turn, SendReplies, MeasureNext, MeasuredAll
<1>1. CASE sapp # "client"
  <2>1. spc # "measure" /\ measured = << >>
    BY <1>1 DEF ClientInv
  <2>2. spc' # "measure" /\ measured' = measured
    BY <1>1, <2>1 DEF SocketsNext, FrameArrives, BurstBegins, SendMmsg, SendNext,
       BurstEnds, RecvLoop, RecvBurst, Turn, SendReplies, MeasureNext,
       MeasuredAll, rcvVars
  <2>. QED  BY <1>1, <1>s, <2>1, <2>2 DEF ClientInv
<1>2. CASE sapp = "client"
  <2>0. /\ Once
        /\ spc \in {"recv", "measure"}
    BY <1>2 DEF ClientInv, ServerInv
  <2> SUFFICES Once'
    BY <1>2, <1>s DEF ClientInv
  <2>1. CASE FrameArrives
    BY <1>2, <2>0, <2>1, ClientFrame
  <2>2. CASE BurstBegins \/ BurstEnds \/ SendMmsg \/ SendNext
    BY <1>2, <2>0, <2>2, ClientSends
  <2>3. CASE RecvLoop \/ Turn \/ SendReplies
    BY <1>2, <2>0, <2>3 DEF RecvLoop, Turn, SendReplies
  <2>4. CASE RecvBurst
    BY <1>2, <2>0, <2>4, ClientFetch
  <2>5. CASE MeasureNext
    BY <2>0, <2>5, ClientMeasures
  <2>6. CASE MeasuredAll
    <3>1. /\ Pending' = {}
          /\ UNCHANGED << raw, use_mmsg, serial, inNet, rcvq, buf, measured >>
      BY <2>6 DEF MeasuredAll, Pending, sndVars
    <3>. QED
      BY <2>0, <3>1 DEF Once, OnNetwork, InQueue, InSlots, InBuffers, Measured
  <2>. QED  BY <2>1, <2>2, <2>3, <2>4, <2>5, <2>6 DEF SocketsNext
<1>. QED  BY <1>1, <1>2

-----------------------------------------------------------------------------
(* All of it together.                                                     *)

LEMMA SocketsInitially == SocketsInit => SocketsInv
<1> SUFFICES ASSUME SocketsInit PROVE SocketsInv
  OBVIOUS
<1>1. /\ spc = "recv" /\ rcvq = << >> /\ replies = << >> /\ measured = << >>
      /\ inNet = {} /\ tx = 0 /\ dropped = 0 /\ rx = 0
      /\ tries = 0 /\ taken = 0 /\ given = 0
  BY DEF SocketsInit
<1>2. Pending = {} /\ \A k : k \notin 1 .. Len(<< >>)
  BY <1>1 DEF Pending
<1>3. AccountsInv
  BY <1>1, <1>2 DEF AccountsInv, SocketAccounts
<1>4. ServerInv
  BY <1>1, <1>2 DEF ServerInv, Answered, Buffered, Queued
<1>5. ClientInv
  <2>1. \A p \in Slots : buf[p].serial = 0
    BY DEF SocketsInit, Nothing
  <2>2. serial = 0 /\ 0 <= 0
    BY DEF SocketsInit
  <2>. QED
    BY <1>1, <1>2, <2>1, <2>2
       DEF ClientInv, Once, OnNetwork, InQueue, InSlots, InBuffers, Measured
<1>. QED  BY SocketsTypeInitially, <1>3, <1>4, <1>5 DEF SocketsInv

LEMMA SocketsStep == SocketsInv /\ SocketsNext => SocketsInv'
BY SocketsTypeStep, AccountsStep, ServerStep, ClientStep DEF SocketsInv

LEMMA SocketsKept == SocketsInv /\ UNCHANGED socketVars => SocketsInv'
<1> SUFFICES ASSUME SocketsInv, UNCHANGED socketVars PROVE SocketsInv'
  OBVIOUS
<1> USE DEF socketVars, rcvVars, sndVars, statVars
<1>1. SocketsTypeOK'
  BY DEF SocketsInv, SocketsTypeOK
<1>2. AccountsInv'
  BY DEF SocketsInv, AccountsInv, SocketAccounts
<1>3. Pending' = Pending
  BY DEF Pending
<1>4. ServerInv'
  BY <1>3 DEF SocketsInv, ServerInv, Answered, Buffered, Queued
<1>5. ClientInv'
  BY <1>3 DEF SocketsInv, ClientInv, Once, OnNetwork, InQueue, InSlots, InBuffers,
              Measured
<1>. QED  BY <1>1, <1>2, <1>4, <1>5 DEF SocketsInv
-----------------------------------------------------------------------------
(* The whole program: one application runs, the others stay as they are.   *)

LEMMA ClientstInvariant == Spec => [](WaitInv /\ MbufsInv)
<1>1. Init => WaitInv /\ MbufsInv
  BY ClientstInitially DEF Init
<1>2. WaitInv /\ MbufsInv
        /\ [Next]_<< command, dpdkVars, clientstVars, socketVars >>
        => WaitInv' /\ MbufsInv'
  <2> SUFFICES ASSUME WaitInv, MbufsInv,
                      [Next]_<< command, dpdkVars, clientstVars, socketVars >>
               PROVE  WaitInv' /\ MbufsInv'
    OBVIOUS
  <2>1. CASE ClientstNext
    BY <2>1, WaitStep, MbufsStep
  <2>2. CASE UNCHANGED clientstVars
    BY <2>2 DEF WaitInv, MbufsInv, CountsTheLastRequest, ClientstKeepsMbufs,
                InTime, Dpdk, clientstVars, tscVars, mbufVars
  <2>. QED  BY <2>1, <2>2 DEF Next
<1>. QED  BY <1>1, <1>2, PTL DEF Spec

(* A delay is counted only for the answer to the last request: main_loop   *)
(* of clientst and dpdk-clientst, for any timeout and any clock.           *)
THEOREM WaitCorrect == Spec => []CountsTheLastRequest
<1>1. WaitInv => CountsTheLastRequest
  BY DEF WaitInv
<1>. QED  BY <1>1, ClientstInvariant, PTL

(* dpdk-clientst loses no mbuf, whatever the size of the pool and of the   *)
(* queues: main_loop frees every frame it receives while it waits.         *)
THEOREM ClientstMbufsCorrect == Spec => []ClientstKeepsMbufs
<1>1. MbufsInv => ClientstKeepsMbufs
  BY DEF MbufsInv
<1>. QED  BY <1>1, ClientstInvariant, PTL

LEMMA SocketsInvariant == Spec => []SocketsInv
<1>1. Init => SocketsInv
  BY SocketsInitially DEF Init
<1>2. SocketsInv
        /\ [Next]_<< command, dpdkVars, clientstVars, socketVars >>
        => SocketsInv'
  BY SocketsStep, SocketsKept DEF Next
<1>. QED  BY <1>1, <1>2, PTL DEF Spec

(* send and recv account for every packet: what their statistics say is    *)
(* what the kernel took or refused, and what it handed over.               *)
THEOREM AccountsCorrect == Spec => []SocketAccounts
<1>1. SocketsInv => SocketAccounts
  BY DEF SocketsInv, AccountsInv
<1>. QED  BY <1>1, SocketsInvariant, PTL

(* The main_loop of server replies to each sender, once and in order, for  *)
(* any size of bursts and whatever part of them the kernel takes.          *)
THEOREM RepliesCorrect == Spec => []RepliesToSenders
<1>1. SocketsInv => RepliesToSenders
  <2> SUFFICES ASSUME SocketsInv PROVE RepliesToSenders
    OBVIOUS
  <2>1. DOMAIN replies = 1 .. Len(replies)
    BY DEF SocketsInv, SocketsTypeOK
  <2>2. CASE sapp = "server"
    BY <2>1, <2>2 DEF SocketsInv, ServerInv, Answered, RepliesToSenders
  <2>3. CASE sapp # "server"
    <3>1. replies = << >>
      BY <2>3 DEF SocketsInv, ServerInv
    <3>2. \A k \in DOMAIN replies : FALSE
      BY <2>1, <3>1
    <3>. QED  BY <3>2 DEF RepliesToSenders
  <2>. QED  BY <2>2, <2>3
<1>. QED  BY <1>1, SocketsInvariant, PTL

(* pong_body of client measures no whole frame twice, although its buffers *)
(* keep the frames of earlier bursts and a raw socket brings frames of     *)
(* others: only the raw client with -m measures a stamp again, that of an   *)
(* earlier echo, and only when a frame too short to bring one comes.       *)
THEOREM MeasuredCorrect == Spec => []WholeFramesMeasuredOnce
<1>1. SocketsInv => WholeFramesMeasuredOnce
  <2> SUFFICES ASSUME SocketsInv PROVE WholeFramesMeasuredOnce
    OBVIOUS
  <2>1. DOMAIN measured = 1 .. Len(measured)
    BY DEF SocketsInv, SocketsTypeOK
  <2>2. CASE sapp = "client"
    BY <2>1, <2>2 DEF SocketsInv, ClientInv, Once, Measured, WholeFramesMeasuredOnce
  <2>3. CASE sapp # "client"
    <3>1. measured = << >>
      BY <2>3 DEF SocketsInv, ClientInv
    <3>2. \A k \in DOMAIN measured : FALSE
      BY <2>1, <3>1
    <3>. QED  BY <3>2 DEF WholeFramesMeasuredOnce
  <2>. QED  BY <2>2, <2>3
<1>. QED  BY <1>1, SocketsInvariant, PTL

-----------------------------------------------------------------------------
(* The mbufs of the DPDK applications.                                     *)

StepsOf(t) == IF t = "tx" THEN {"top", "alloc", "burst", "free"}
              ELSE {"top", "advertise", "offer", "rx", "each", "burst", "free"}

DpdkTypes ==
  /\ dapp \in DpdkApps /\ pool \subseteq Mbufs /\ txq \subseteq Mbufs
  /\ rxq \in Seq(Mbufs)
  /\ kind \in [Mbufs -> {"foreign", "in", "out", "advertisement"}]
  /\ DOMAIN dpc = Threads /\ DOMAIN pkts = Threads
  /\ DOMAIN n = Threads /\ DOMAIN i = Threads /\ DOMAIN j = Threads
  /\ abandoned \in Nat
  /\ \A k, l \in 1 .. Len(rxq) : rxq[k] = rxq[l] => k = l

(* The burst of a thread: its first n places hold mbufs, and those it is   *)
(* responsible for hold different ones.                                    *)
BurstInv(t) ==
  /\ dpc[t] \in StepsOf(t)
  /\ n[t] \in 0 .. BurstSize /\ i[t] \in Nat /\ j[t] \in Nat
  /\ dpc[t] = "free" => i[t] <= n[t]
  /\ dpc[t] = "offer" => n[t] = 1
  /\ dpc[t] = "each" =>
       j[t] <= i[t] /\ i[t] <= n[t] /\ (dapp # "dpdk-server" => j[t] = 0)
  /\ \A k \in 0 .. n[t] - 1 : k \in DOMAIN pkts[t] /\ pkts[t][k] \in Mbufs
  /\ \A k, l \in Owned(t) : pkts[t][k] = pkts[t][l] => k = l

HeldBy(t) == {pkts[t][k] : k \in Owned(t)}

(* No mbuf is in two places. *)
Apart ==
  /\ \A m \in pool : /\ m \notin txq /\ m \notin Received
                     /\ m \notin HeldBy("tx") /\ m \notin HeldBy("rx")
  /\ \A m \in txq : /\ m \notin Received
                    /\ m \notin HeldBy("tx") /\ m \notin HeldBy("rx")
  /\ \A m \in Received : m \notin HeldBy("tx") /\ m \notin HeldBy("rx")
  /\ \A m \in HeldBy("tx") : m \notin HeldBy("rx")

Lost ==
  {m \in Mbufs : /\ m \notin pool /\ m \notin txq /\ m \notin Received
                 /\ m \notin HeldBy("tx") /\ m \notin HeldBy("rx")}

(* What a thread is about to send is addressed to the peer. *)
Directed(t) ==
  \A k \in Owned(t) :
    /\ dpc[t] \in {"alloc", "burst"} => kind[pkts[t][k]] = "out"
    /\ dpc[t] = "offer" => kind[pkts[t][k]] = "advertisement"
    /\ dpc[t] = "each" /\ k < j[t] => kind[pkts[t][k]] = "out"

DpdkInv ==
  /\ DpdkTypes /\ BurstInv("tx") /\ BurstInv("rx")
  /\ Apart /\ Cardinality(Lost) = abandoned
  /\ Directed("tx") /\ Directed("rx") /\ SendsOwnFrames

Other(t) == IF t = "tx" THEN "rx" ELSE "tx"

(* A step of one thread leaves the burst of the other alone. *)
Leaves(t) ==
  /\ dapp' = dapp /\ dpc'[t] = dpc[t] /\ pkts'[t] = pkts[t]
  /\ n'[t] = n[t] /\ i'[t] = i[t] /\ j'[t] = j[t]

LEMMA Left ==
  ASSUME NEW t, BurstInv(t), Leaves(t)
  PROVE  BurstInv(t)' /\ Owned(t)' = Owned(t) /\ HeldBy(t)' = HeldBy(t)
<1>1. Owned(t)' = Owned(t)
  BY DEF Leaves, Owned, Responsible
<1>2. HeldBy(t)' = HeldBy(t)
  BY <1>1 DEF Leaves, HeldBy
<1>. QED  BY <1>1, <1>2 DEF Leaves, BurstInv

LEMMA MoveFacts ==
  ASSUME DpdkTypes, NEW t \in Threads, NEW from, NEW to, NEW nn, NEW ii, NEW jj,
         Move(t, from, to, nn, ii, jj)
  PROVE  /\ dpc[t] = from /\ Runs(t)
         /\ dpc'[t] = to /\ n'[t] = nn /\ i'[t] = ii /\ j'[t] = jj
         /\ DOMAIN dpc' = Threads /\ DOMAIN n' = Threads
         /\ DOMAIN i' = Threads /\ DOMAIN j' = Threads
         /\ Other(t) \in Threads /\ Other(t) # t
         /\ dpc'[Other(t)] = dpc[Other(t)] /\ n'[Other(t)] = n[Other(t)]
         /\ i'[Other(t)] = i[Other(t)] /\ j'[Other(t)] = j[Other(t)]
BY DEF DpdkTypes, Move, Other, Threads

(* The mbufs M go from one place to another, and no burst but t's changes. *)
Moved(t, M) ==
  \/ /\ M \subseteq pool /\ pool' = pool \ M /\ HeldBy(t)' = HeldBy(t) \cup M
     /\ txq' = txq /\ Received' = Received
  \/ /\ M \subseteq HeldBy(t) /\ HeldBy(t)' = HeldBy(t) \ M /\ pool' = pool \cup M
     /\ txq' = txq /\ Received' = Received
  \/ /\ M \subseteq HeldBy(t) /\ HeldBy(t)' = HeldBy(t) \ M /\ txq' = txq \cup M
     /\ pool' = pool /\ Received' = Received
  \/ /\ M \subseteq Received /\ Received' = Received \ M
     /\ HeldBy(t)' = HeldBy(t) \cup M
     /\ pool' = pool /\ txq' = txq

LEMMA Parts ==
  ASSUME DpdkTypes, BurstInv("tx"), BurstInv("rx")
  PROVE  /\ pool \subseteq Mbufs /\ txq \subseteq Mbufs /\ Received \subseteq Mbufs
         /\ HeldBy("tx") \subseteq Mbufs /\ HeldBy("rx") \subseteq Mbufs
         /\ \A t \in Threads : /\ Owned(t) \subseteq 0 .. n[t] - 1
                               /\ BurstInv(t)
<1>1. Received \subseteq Mbufs
  BY DEF DpdkTypes, Received
<1>2. ASSUME NEW t \in Threads
      PROVE  BurstInv(t) /\ Owned(t) \subseteq 0 .. n[t] - 1 /\ HeldBy(t) \subseteq Mbufs
  <2>1. BurstInv(t)
    BY DEF Threads
  <2>2. Owned(t) \subseteq 0 .. n[t] - 1
    <3> SUFFICES ASSUME NEW k \in Owned(t) PROVE k \in 0 .. n[t] - 1
      OBVIOUS
    <3>1. k \in Nat /\ n[t] \in Nat /\ i[t] \in Nat /\ j[t] \in Nat
      BY <2>1, TestappDpdkAssumption DEF Owned, Places, BurstInv
    <3>2. k < n[t]
      BY <2>1, <3>1 DEF Owned, Responsible, BurstInv
    <3>. QED  BY <3>1, <3>2
  <2>. QED  BY <2>1, <2>2 DEF BurstInv, HeldBy
<1>. QED  BY <1>1, <1>2 DEF DpdkTypes, Threads

LEMMA MovedApart ==
  ASSUME Apart, NEW t \in Threads, NEW M, Moved(t, M),
         HeldBy(Other(t))' = HeldBy(Other(t))
  PROVE  Apart' /\ Lost' = Lost
<1>1. CASE t = "tx"
  <2>1. HeldBy("rx")' = HeldBy("rx")
    BY <1>1 DEF Other
  <2>2. Moved("tx", M)
    BY <1>1
  <2>3. Apart'
    BY <2>1, <2>2 DEF Apart, Moved
  <2>4. Lost' = Lost
    BY <2>1, <2>2 DEF Lost, Moved
  <2>. QED  BY <2>3, <2>4
<1>2. CASE t = "rx"
  <2>1. HeldBy("tx")' = HeldBy("tx")
    BY <1>2 DEF Other
  <2>2. Moved("rx", M)
    BY <1>2
  <2>3. Apart'
    BY <2>1, <2>2 DEF Apart, Moved
  <2>4. Lost' = Lost
    BY <2>1, <2>2 DEF Lost, Moved
  <2>. QED  BY <2>3, <2>4
<1>. QED  BY <1>1, <1>2 DEF Threads

(* A step of thread t that moves the mbufs M. *)
Does(t, M) == DpdkTypes' /\ BurstInv(t)' /\ Moved(t, M) /\ Leaves(Other(t))

(* Whose frames they hold; a header is only written in mbufs of pool or M. *)
LEMMA NothingHeld ==
  ASSUME NEW t, Owned(t) = {}, Owned(t)' = {}, pool' = pool, txq' = txq,
         Received' = Received
  PROVE  Moved(t, {})
<1>1. HeldBy(t) = {} /\ HeldBy(t)' = {}
  BY DEF HeldBy
<1>. QED  BY <1>1 DEF Moved

LEMMA SameHeld ==
  ASSUME NEW t, Owned(t)' = Owned(t), \A k \in Owned(t) : pkts'[t][k] = pkts[t][k],
         pool' = pool, txq' = txq, Received' = Received
  PROVE  Moved(t, {})
<1>1. HeldBy(t)' = HeldBy(t)
  BY DEF HeldBy
<1>. QED  BY <1>1 DEF Moved

LEMMA RingKept == rxq' = rxq => Received' = Received
BY DEF Received

LEMMA Numbers ==
  /\ BurstSize \in Nat /\ BurstSize >= 1
  /\ \A k \in Places : k \in Nat /\ k < BurstSize
  /\ \A k \in Nat : k < BurstSize => k \in Places
  /\ 0 \in Places
BY TestappDpdkAssumption DEF Places

(* Steps that only turn to the next part of a loop. *)
LEMMA TopMoves ==
  ASSUME DpdkInv, BurstDue
  PROVE  Does("tx", {})
<1>0. DpdkTypes /\ BurstInv("tx") /\ "tx" \in Threads
  BY DEF DpdkInv, Threads
<1>1. /\ Move("tx", "top", "alloc", 0, 0, 0)
      /\ pkts' = [pkts EXCEPT !["tx"] = << >>]
      /\ UNCHANGED << dapp, pool, txq, rxq, kind, abandoned >>
  BY DEF BurstDue
<1>2. /\ dpc["tx"] = "top" /\ dpc'["tx"] = "alloc" /\ n'["tx"] = 0 /\ i'["tx"] = 0
      /\ j'["tx"] = 0 /\ Leaves("rx") /\ DpdkTypes'
  BY <1>0, <1>1, MoveFacts DEF Leaves, Other, DpdkTypes, Threads
<1>3. Owned("tx") = {}
  BY <1>2 DEF Owned, Responsible
<1>4. Owned("tx")' = {}
  BY <1>2, Numbers DEF Owned, Responsible
<1>5. BurstInv("tx")'
  BY <1>2, <1>4, Numbers DEF BurstInv, StepsOf
<1>6. Moved("tx", {})
  BY <1>1, <1>3, <1>4, NothingHeld, RingKept
<1>. QED  BY <1>2, <1>5, <1>6 DEF Does, Other

LEMMA PreparedMoves ==
  ASSUME DpdkInv, Prepared
  PROVE  Does("tx", {})
<1>0. DpdkTypes /\ BurstInv("tx") /\ "tx" \in Threads
  BY DEF DpdkInv, Threads
<1>1. /\ Move("tx", "alloc", "burst", n["tx"], 0, 0)
      /\ UNCHANGED << dapp, pool, txq, rxq, kind, pkts, abandoned >>
  BY DEF Prepared
<1>2. /\ dpc["tx"] = "alloc" /\ dpc'["tx"] = "burst" /\ n'["tx"] = n["tx"]
      /\ i'["tx"] = 0 /\ j'["tx"] = 0 /\ Leaves("rx") /\ DpdkTypes'
  BY <1>0, <1>1, MoveFacts DEF Leaves, Other, DpdkTypes, Threads
<1>3. Owned("tx")' = Owned("tx")
  BY <1>2 DEF Owned, Responsible
<1>4. BurstInv("tx")'
  BY <1>0, <1>1, <1>2, <1>3 DEF BurstInv, StepsOf
<1>5. Moved("tx", {})
  BY <1>1, <1>3, SameHeld, RingKept
<1>. QED  BY <1>2, <1>4, <1>5 DEF Does, Other

LEMMA FreedMoves ==
  ASSUME DpdkInv, NEW t \in Threads, FreedUnsent(t)
  PROVE  Does(t, {})
<1>0. DpdkTypes /\ BurstInv(t)
  BY DEF DpdkInv, Threads
<1>1. /\ Move(t, "free", "top", 0, 0, 0) /\ i[t] = n[t]
      /\ UNCHANGED << dapp, pool, txq, rxq, kind, pkts, abandoned >>
  BY DEF FreedUnsent
<1>2. /\ dpc[t] = "free" /\ dpc'[t] = "top" /\ n'[t] = 0
      /\ i'[t] = 0 /\ j'[t] = 0 /\ Leaves(Other(t)) /\ DpdkTypes'
  <2>1. /\ dpc[t] = "free" /\ dpc'[t] = "top" /\ n'[t] = 0
        /\ i'[t] = 0 /\ j'[t] = 0
        /\ DOMAIN dpc' = Threads /\ DOMAIN n' = Threads
        /\ DOMAIN i' = Threads /\ DOMAIN j' = Threads
    BY <1>0, <1>1, MoveFacts
  <2>2. Leaves(Other(t))
    BY <1>0, <1>1, MoveFacts DEF Leaves
  <2>3. DpdkTypes'
    BY <1>0, <1>1, <2>1 DEF DpdkTypes
  <2>. QED  BY <2>1, <2>2, <2>3
<1>3. Owned(t) = {}
  BY <1>0, <1>1, <1>2, Numbers DEF Owned, Responsible, BurstInv
<1>4. Owned(t)' = {}
  BY <1>2, Numbers DEF Owned, Responsible
<1>5. BurstInv(t)'
  BY <1>0, <1>2, <1>4, Numbers DEF BurstInv, StepsOf
<1>6. Moved(t, {})
  BY <1>1, <1>3, <1>4, NothingHeld, RingKept
<1>. QED  BY <1>2, <1>5, <1>6 DEF Does

LEMMA IdleMoves ==
  ASSUME DpdkInv, RxTop \/ AdvertiseFails
  PROVE  Does("rx", {})
<1>0. DpdkTypes /\ BurstInv("rx") /\ "rx" \in Threads
  BY DEF DpdkInv, Threads
<1>1. \E from, to \in {"top", "advertise", "rx"} :
        /\ Move("rx", from, to, 0, 0, 0)
        /\ UNCHANGED << dapp, pool, txq, rxq, kind, pkts, abandoned >>
  BY DEF RxTop, AdvertiseFails
<1>2. /\ dpc["rx"] \in {"top", "advertise", "rx"}
      /\ dpc'["rx"] \in {"top", "advertise", "rx"} /\ n'["rx"] = 0
      /\ i'["rx"] = 0 /\ j'["rx"] = 0 /\ Leaves("tx") /\ DpdkTypes'
      /\ UNCHANGED << dapp, pool, txq, rxq, kind, pkts, abandoned >>
  <2>1. PICK from \in {"top", "advertise", "rx"}, to \in {"top", "advertise", "rx"} :
          /\ Move("rx", from, to, 0, 0, 0)
          /\ UNCHANGED << dapp, pool, txq, rxq, kind, pkts, abandoned >>
    BY <1>1
  <2>. QED  BY <1>0, <2>1, MoveFacts DEF Leaves, Other, DpdkTypes
<1>3. Owned("rx") = {} /\ Owned("rx")' = {}
  BY <1>2 DEF Owned, Responsible
<1>4. BurstInv("rx")'
  BY <1>0, <1>2, <1>3, Numbers DEF BurstInv, StepsOf
<1>5. Moved("rx", {})
  BY <1>2, <1>3, NothingHeld, RingKept
<1>. QED  BY <1>2, <1>4, <1>5 DEF Does, Other

LEMMA LookedMoves ==
  ASSUME DpdkInv, LookedAtAll
  PROVE  Does("rx", {})
<1>0. DpdkTypes /\ BurstInv("rx") /\ "rx" \in Threads
  BY DEF DpdkInv, Threads
<1>1. /\ i["rx"] = n["rx"]
      /\ UNCHANGED << dapp, pool, txq, rxq, kind, pkts, abandoned >>
  BY DEF LookedAtAll
<1>2. CASE dapp = "dpdk-server"
  <2>1. Move("rx", "each", "burst", j["rx"], 0, 0)
    BY <1>2 DEF LookedAtAll
  <2>2. /\ dpc["rx"] = "each" /\ dpc'["rx"] = "burst" /\ n'["rx"] = j["rx"]
        /\ i'["rx"] = 0 /\ j'["rx"] = 0 /\ Leaves("tx") /\ DpdkTypes'
    BY <1>0, <1>1, <2>1, MoveFacts DEF Leaves, Other, DpdkTypes
  <2>3. Owned("rx")' = Owned("rx")
    BY <1>0, <1>1, <2>2, Numbers DEF Owned, Responsible, BurstInv
  <2>4. BurstInv("rx")'
    BY <1>0, <1>1, <2>2, <2>3, Numbers DEF BurstInv, StepsOf
  <2>5. Moved("rx", {})
    BY <1>1, <2>3, SameHeld, RingKept
  <2>. QED  BY <2>2, <2>4, <2>5 DEF Does, Other
<1>3. CASE dapp # "dpdk-server"
  <2>1. Move("rx", "each", "top", 0, 0, 0)
    BY <1>3 DEF LookedAtAll
  <2>2. /\ dpc["rx"] = "each" /\ dpc'["rx"] = "top" /\ n'["rx"] = 0
        /\ i'["rx"] = 0 /\ j'["rx"] = 0 /\ Leaves("tx") /\ DpdkTypes'
    BY <1>0, <1>1, <2>1, MoveFacts DEF Leaves, Other, DpdkTypes
  <2>3. Owned("rx") = {}
    BY <1>0, <1>1, <1>3, <2>2, Numbers DEF Owned, Responsible, BurstInv
  <2>4. Owned("rx")' = {}
    BY <2>2 DEF Owned, Responsible
  <2>5. BurstInv("rx")'
    BY <1>0, <2>2, <2>4, Numbers DEF BurstInv, StepsOf
  <2>6. Moved("rx", {})
    BY <1>1, <2>3, <2>4, NothingHeld, RingKept
  <2>. QED  BY <2>2, <2>5, <2>6 DEF Does, Other
<1>. QED  BY <1>2, <1>3

(* Steps that take mbufs from the pool, and put them back. *)
LEMMA PrepareMoves ==
  ASSUME DpdkInv, PrepareOne
  PROVE  \E m \in pool : /\ Does("tx", {m}) /\ kind' = [kind EXCEPT ![m] = "out"]
                         /\ dpc'["tx"] = "alloc" /\ dpc["tx"] = "alloc"
                         /\ \A k \in Owned("tx")' :
                              \/ pkts'["tx"][k] = m
                              \/ k \in Owned("tx") /\ pkts'["tx"][k] = pkts["tx"][k]
<1>0. DpdkTypes /\ BurstInv("tx") /\ "tx" \in Threads /\ Apart
  BY DEF DpdkInv, Threads
<1> PICK m \in pool :
        /\ pool' = pool \ {m}
        /\ pkts' = [pkts EXCEPT !["tx"] =
             [k \in 0 .. n["tx"] |-> IF k = n["tx"] THEN m ELSE pkts["tx"][k]]]
        /\ kind' = [kind EXCEPT ![m] = "out"]
  BY DEF PrepareOne
<1>1. /\ Move("tx", "alloc", "alloc", n["tx"] + 1, 0, 0) /\ n["tx"] < BurstSize
      /\ UNCHANGED << dapp, txq, rxq, abandoned >>
  BY DEF PrepareOne
<1>2. PICK p \in Nat : p = n["tx"] /\ p < BurstSize /\ p + 1 \in 0 .. BurstSize
  BY <1>0, <1>1, Numbers DEF BurstInv
<1>3. /\ dpc["tx"] = "alloc" /\ dpc'["tx"] = "alloc" /\ n'["tx"] = p + 1
      /\ i'["tx"] = 0 /\ j'["tx"] = 0
      /\ DOMAIN dpc' = Threads /\ DOMAIN n' = Threads
      /\ DOMAIN i' = Threads /\ DOMAIN j' = Threads
  BY <1>0, <1>1, <1>2, MoveFacts
<1>4. /\ DOMAIN pkts' = Threads /\ pkts'["rx"] = pkts["rx"]
      /\ pkts'["tx"] = [k \in 0 .. p |-> IF k = p THEN m ELSE pkts["tx"][k]]
  BY <1>0, <1>2 DEF DpdkTypes, Threads
<1>5. Leaves("rx")
  BY <1>0, <1>1, <1>4, MoveFacts DEF Leaves, Other
<1>6. DpdkTypes'
  BY <1>0, <1>1, <1>3, <1>4 DEF DpdkTypes
<1>7. Owned("tx")' = Owned("tx") \cup {p} /\ p \notin Owned("tx")
  <2>1. \A k \in Places : k < p + 1 <=> k < p \/ k = p
    BY <1>2, Numbers
  <2>2. p \in Places
    BY <1>2, Numbers
  <2>3. \A k \in Places : k \in Owned("tx")' <=> k < p + 1
    BY <1>3 DEF Owned, Responsible
  <2>4. \A k \in Places : k \in Owned("tx") <=> k < p
    BY <1>2, <1>3 DEF Owned, Responsible
  <2>5. Owned("tx") \subseteq Places /\ Owned("tx")' \subseteq Places
    BY DEF Owned, Places
  <2>6. \A k : k \in Owned("tx")' <=> k \in Owned("tx") \/ k = p
    BY <2>1, <2>2, <2>3, <2>4, <2>5
  <2>7. p \notin Owned("tx")
    BY <1>2, <2>2, <2>4
  <2>. QED  BY <2>6, <2>7
<1>8. /\ \A k \in Owned("tx") : k \in 0 .. p - 1 /\ k # p
      /\ pkts'["tx"][p] = m
      /\ \A k \in Owned("tx") : pkts'["tx"][k] = pkts["tx"][k]
  <2>1. \A k \in Owned("tx") : k \in 0 .. p - 1
    BY <1>0, <1>2, Parts DEF DpdkInv
  <2>. QED  BY <1>2, <1>4, <2>1
<1>9. HeldBy("tx")' = HeldBy("tx") \cup {m}
  BY <1>7, <1>8 DEF HeldBy
<1>10. BurstInv("tx")'
  <2>1. \A k \in 0 .. (p + 1) - 1 : k \in DOMAIN pkts'["tx"] /\ pkts'["tx"][k] \in Mbufs
    <3> SUFFICES ASSUME NEW k \in 0 .. (p + 1) - 1
                 PROVE  k \in DOMAIN pkts'["tx"] /\ pkts'["tx"][k] \in Mbufs
      OBVIOUS
    <3>1. k \in 0 .. p /\ (k = p \/ k \in 0 .. p - 1)
      BY <1>2
    <3>2. \A l \in 0 .. p - 1 : pkts["tx"][l] \in Mbufs
      BY <1>0, <1>2 DEF BurstInv
    <3>3. m \in Mbufs
      BY <1>0 DEF DpdkTypes
    <3>. QED  BY <1>4, <3>1, <3>2, <3>3
  <2>2. \A k \in Owned("tx") : pkts["tx"][k] # m
    BY <1>0 DEF Apart, HeldBy
  <2>3. \A k, l \in Owned("tx")' : pkts'["tx"][k] = pkts'["tx"][l] => k = l
    BY <1>0, <1>7, <1>8, <2>2 DEF BurstInv
  <2>. QED  BY <1>2, <1>3, <2>1, <2>3, Numbers DEF BurstInv, StepsOf
<1>11. Moved("tx", {m})
  BY <1>1, <1>9, RingKept DEF Moved
<1>12. \A k \in Owned("tx")' :
         \/ pkts'["tx"][k] = m
         \/ k \in Owned("tx") /\ pkts'["tx"][k] = pkts["tx"][k]
  BY <1>7, <1>8
<1>. QED  BY <1>3, <1>5, <1>6, <1>10, <1>11, <1>12 DEF Does, Other

LEMMA AdvertiseMoves ==
  ASSUME DpdkInv, AdvertiseAlloc
  PROVE  \E m \in pool : /\ Does("rx", {m})
                         /\ kind' = [kind EXCEPT ![m] = "advertisement"]
                         /\ dpc'["rx"] = "offer"
                         /\ \A k \in Owned("rx")' : pkts'["rx"][k] = m
<1>0. DpdkTypes /\ BurstInv("rx") /\ "rx" \in Threads
  BY DEF DpdkInv, Threads
<1> PICK m \in pool :
        /\ pool' = pool \ {m}
        /\ pkts' = [pkts EXCEPT !["rx"] = [k \in {0} |-> m]]
        /\ kind' = [kind EXCEPT ![m] = "advertisement"]
  BY DEF AdvertiseAlloc
<1>1. /\ Move("rx", "advertise", "offer", 1, 0, 0)
      /\ UNCHANGED << dapp, txq, rxq, abandoned >>
  BY DEF AdvertiseAlloc
<1>3. /\ dpc["rx"] = "advertise" /\ dpc'["rx"] = "offer" /\ n'["rx"] = 1
      /\ i'["rx"] = 0 /\ j'["rx"] = 0
      /\ DOMAIN dpc' = Threads /\ DOMAIN n' = Threads
      /\ DOMAIN i' = Threads /\ DOMAIN j' = Threads
  BY <1>0, <1>1, MoveFacts
<1>4. /\ DOMAIN pkts' = Threads /\ pkts'["tx"] = pkts["tx"]
      /\ pkts'["rx"] = [k \in {0} |-> m]
  BY <1>0 DEF DpdkTypes, Threads
<1>5. Leaves("tx")
  BY <1>0, <1>1, <1>4, MoveFacts DEF Leaves, Other
<1>6. DpdkTypes'
  BY <1>0, <1>1, <1>3, <1>4 DEF DpdkTypes
<1>7. Owned("rx") = {} /\ Owned("rx")' = {0}
  <2>1. \A k \in Places : k < 1 <=> k = 0
    BY Numbers
  <2>2. \A k \in Places : k \in Owned("rx")' <=> k < 1
    BY <1>3 DEF Owned, Responsible
  <2>3. Owned("rx")' \subseteq Places
    BY DEF Owned, Places
  <2>4. Owned("rx") = {}
    BY <1>3 DEF Owned, Responsible
  <2>. QED  BY <2>1, <2>2, <2>3, <2>4, Numbers
<1>9. HeldBy("rx")' = HeldBy("rx") \cup {m}
  BY <1>4, <1>7 DEF HeldBy
<1>10. BurstInv("rx")'
  <2>1. m \in Mbufs /\ \A k \in 0 .. 1 - 1 : k = 0
    BY <1>0 DEF DpdkTypes
  <2>2. \A k \in 0 .. 1 - 1 : k \in DOMAIN pkts'["rx"] /\ pkts'["rx"][k] \in Mbufs
    BY <1>4, <2>1
  <2>. QED  BY <1>3, <1>7, <2>2, Numbers DEF BurstInv, StepsOf
<1>11. Moved("rx", {m})
  BY <1>1, <1>9, RingKept DEF Moved
<1>12. \A k \in Owned("rx")' : pkts'["rx"][k] = m
  BY <1>4, <1>7
<1>13. Does("rx", {m})
  BY <1>5, <1>6, <1>10, <1>11 DEF Does, Other
<1>. QED  BY <1>3, <1>12, <1>13

(* The mbuf at i is freed, and i goes on. *)
LEMMA FreeOne ==
  ASSUME DpdkInv, NEW t \in Threads, NEW to, NEW jj \in {0, j[t]},
         to = dpc[t], dpc[t] \in {"free", "each"}, i[t] < n[t],
         dpc[t] = "each" => jj = j[t],
         Move(t, to, to, n[t], i[t] + 1, jj), pool' = pool \cup {pkts[t][i[t]]},
         UNCHANGED << dapp, txq, rxq, kind, pkts, abandoned >>
  PROVE  /\ Does(t, {pkts[t][i[t]]}) /\ dpc'[t] = dpc[t] /\ j'[t] = jj
         /\ Owned(t)' \subseteq Owned(t) /\ pkts'[t] = pkts[t]
<1>0. DpdkTypes /\ BurstInv(t)
  BY DEF DpdkInv, Threads
<1>1. /\ dpc'[t] = dpc[t] /\ n'[t] = n[t] /\ i'[t] = i[t] + 1 /\ j'[t] = jj
      /\ DOMAIN dpc' = Threads /\ DOMAIN n' = Threads
      /\ DOMAIN i' = Threads /\ DOMAIN j' = Threads
  BY <1>0, MoveFacts
<1>2. PICK p \in Nat : /\ p = i[t] /\ p \in Places /\ p \in 0 .. n[t] - 1
                       /\ n[t] \in 0 .. BurstSize /\ n[t] \in Nat /\ jj \in Nat
  BY <1>0, Numbers DEF BurstInv
<1>3. i'[t] = p + 1 /\ p < n[t]
  BY <1>1, <1>2
<1>4. /\ dpc[t] = "free" => p <= n[t]
      /\ dpc[t] = "each" => /\ j[t] <= p /\ j[t] = jj
                            /\ (dapp # "dpdk-server" => j[t] = 0)
  BY <1>0, <1>2 DEF BurstInv
<1>5. \A k \in Places : k \in Owned(t) <=>
        \/ dpc[t] = "free" /\ p <= k /\ k < n[t]
        \/ dpc[t] = "each" /\ (k < jj \/ (p <= k /\ k < n[t]))
  BY <1>2, <1>4 DEF Owned, Responsible
<1>6. \A k \in Places : k \in Owned(t)' <=>
        \/ dpc[t] = "free" /\ p + 1 <= k /\ k < n[t]
        \/ dpc[t] = "each" /\ (k < jj \/ (p + 1 <= k /\ k < n[t]))
  BY <1>1, <1>3 DEF Owned, Responsible
<1>7. Owned(t)' = Owned(t) \ {p} /\ p \in Owned(t)
  <2>1. \A k \in Places : k \in Owned(t)' <=> k \in Owned(t) /\ k # p
    <3> SUFFICES ASSUME NEW k \in Places
                 PROVE  k \in Owned(t)' <=> k \in Owned(t) /\ k # p
      OBVIOUS
    <3>1. k \in Nat /\ (p + 1 <= k <=> p <= k /\ k # p)
      BY <1>2, Numbers
    <3>2. dpc[t] = "each" /\ k < jj => k # p
      BY <1>2, <1>4, <3>1
    <3>. QED  BY <1>5, <1>6, <3>1, <3>2
  <2>2. Owned(t) \subseteq Places /\ Owned(t)' \subseteq Places
    BY DEF Owned, Places
  <2>3. p \in Owned(t)
    BY <1>2, <1>3, <1>5
  <2>. QED  BY <2>1, <2>2, <2>3
<1>8. pkts'[t] = pkts[t]
  OBVIOUS
<1>9. HeldBy(t)' = HeldBy(t) \ {pkts[t][p]} /\ pkts[t][p] \in HeldBy(t)
  <2>1. \A k \in Owned(t) : pkts[t][k] = pkts[t][p] => k = p
    BY <1>0, <1>7 DEF BurstInv
  <2>. QED  BY <1>7, <1>8, <2>1 DEF HeldBy
<1>10. Leaves(Other(t))
  BY <1>0, MoveFacts DEF Leaves
<1>11. DpdkTypes'
  <2>1. pkts[t][p] \in Mbufs
    BY <1>0, <1>2 DEF BurstInv
  <2>. QED  BY <1>0, <1>1, <1>2, <2>1 DEF DpdkTypes
<1>12. BurstInv(t)'
  <2>1. /\ i'[t] \in Nat /\ i'[t] <= n[t]
        /\ dpc[t] = "each" => jj <= i'[t] /\ jj = j[t]
    BY <1>2, <1>3, <1>4
  <2>2. \A k, l \in Owned(t)' : pkts[t][k] = pkts[t][l] => k = l
    BY <1>0, <1>7 DEF BurstInv
  <2>3. \A k \in 0 .. n[t] - 1 : k \in DOMAIN pkts[t] /\ pkts[t][k] \in Mbufs
    BY <1>0 DEF BurstInv
  <2>4. dpc'[t] \in StepsOf(t) /\ dpc'[t] # "offer"
    BY <1>0, <1>1 DEF BurstInv
  <2>. QED  BY <1>1, <1>2, <1>4, <1>8, <2>1, <2>2, <2>3, <2>4 DEF BurstInv
<1>13. Moved(t, {pkts[t][p]})
  BY <1>2, <1>9, RingKept DEF Moved
<1>. QED  BY <1>1, <1>2, <1>7, <1>8, <1>10, <1>11, <1>12, <1>13 DEF Does

LEMMA FreeMoves ==
  ASSUME DpdkInv, NEW t \in Threads,
         FreeUnsent(t) \/ (t = "rx" /\ (ConsumeOne \/ DropOne))
  PROVE  /\ Does(t, {pkts[t][i[t]]}) /\ dpc'[t] = dpc[t] /\ kind' = kind
         /\ dpc[t] \in {"free", "each"} /\ (dpc[t] = "each" => j'[t] = j[t])
         /\ Owned(t)' \subseteq Owned(t) /\ pkts'[t] = pkts[t]
<1>1. CASE FreeUnsent(t)
  <2>1. /\ Move(t, "free", "free", n[t], i[t] + 1, 0) /\ i[t] < n[t]
        /\ pool' = pool \cup {pkts[t][i[t]]}
        /\ UNCHANGED << dapp, txq, rxq, kind, pkts, abandoned >>
    BY <1>1 DEF FreeUnsent
  <2>2. dpc[t] = "free"
    BY <2>1 DEF Move
  <2>. QED  BY <2>1, <2>2, FreeOne
<1>2. CASE t = "rx" /\ ConsumeOne
  <2>1. /\ Move(t, "each", "each", n[t], i[t] + 1, 0) /\ i[t] < n[t]
        /\ pool' = pool \cup {pkts[t][i[t]]} /\ dapp # "dpdk-server"
        /\ UNCHANGED << dapp, txq, rxq, kind, pkts, abandoned >>
    BY <1>2 DEF ConsumeOne
  <2>2. dpc[t] = "each"
    BY <2>1 DEF Move
  <2>3. j[t] = 0
    BY <1>2, <2>1, <2>2 DEF DpdkInv, BurstInv
  <2>. QED  BY <2>1, <2>2, <2>3, FreeOne
<1>3. CASE t = "rx" /\ DropOne
  <2>1. /\ Move(t, "each", "each", n[t], i[t] + 1, j[t]) /\ i[t] < n[t]
        /\ pool' = pool \cup {pkts[t][i[t]]}
        /\ UNCHANGED << dapp, txq, rxq, kind, pkts, abandoned >>
    BY <1>3 DEF DropOne
  <2>2. dpc[t] = "each"
    BY <2>1 DEF Move
  <2>. QED  BY <2>1, <2>2, FreeOne
<1>. QED  BY <1>1, <1>2, <1>3

(* Steps that give mbufs to the port. *)
LEMMA TxMoves ==
  ASSUME DpdkInv, NEW t \in Threads, TxBurst(t)
  PROVE  /\ \E k \in 0 .. BurstSize : Does(t, Span(t, 0, k))
         /\ txq' \subseteq txq \cup HeldBy(t)
         /\ dpc[t] = "burst" /\ dpc'[t] = "free" /\ kind' = kind
<1>0. DpdkTypes /\ BurstInv(t) /\ Owned(t) \subseteq 0 .. n[t] - 1
  BY Parts DEF DpdkInv, Threads
<1>1. PICK k \in TxAccepts(n[t]) :
         /\ Move(t, "burst", "free", n[t], k, 0) /\ txq' = txq \cup Span(t, 0, k)
         /\ UNCHANGED << dapp, pool, rxq, kind, pkts, abandoned >>
  BY DEF TxBurst
<1>2. /\ k \in 0 .. n[t] /\ n[t] \in 0 .. BurstSize /\ n[t] \in Nat /\ k \in Nat
      /\ k <= n[t] /\ k \in 0 .. BurstSize
  BY <1>0, Numbers DEF TxAccepts, BurstInv
<1>3. /\ dpc[t] = "burst" /\ dpc'[t] = "free" /\ n'[t] = n[t] /\ i'[t] = k
      /\ j'[t] = 0
      /\ DOMAIN dpc' = Threads /\ DOMAIN n' = Threads
      /\ DOMAIN i' = Threads /\ DOMAIN j' = Threads
  BY <1>0, <1>1, MoveFacts
<1>4. Leaves(Other(t))
  BY <1>0, <1>1, MoveFacts DEF Leaves
<1>5. \A l \in Places : l \in Owned(t) <=> l < n[t]
  BY <1>3 DEF Owned, Responsible
<1>6. \A l \in Places : l \in Owned(t)' <=> k <= l /\ l < n[t]
  BY <1>3 DEF Owned, Responsible
<1>7. /\ \A l : l \in Owned(t)' <=> l \in Owned(t) /\ l \notin 0 .. k - 1
      /\ 0 .. k - 1 \subseteq Owned(t)
  <2>1. Owned(t) \subseteq Places /\ Owned(t)' \subseteq Places
    BY DEF Owned, Places
  <2>2. \A l \in Places : l \in Nat /\ (k <= l <=> l \notin 0 .. k - 1)
    BY <1>2, Numbers
  <2>3. \A l \in 0 .. k - 1 : l \in Places /\ l < n[t]
    BY <1>2, Numbers
  <2>. QED  BY <1>5, <1>6, <2>1, <2>2, <2>3
<1>8. /\ Span(t, 0, k) \subseteq HeldBy(t)
      /\ HeldBy(t)' = HeldBy(t) \ Span(t, 0, k)
  <2>1. \A l, m \in Owned(t) : pkts[t][l] = pkts[t][m] => l = m
    BY <1>0 DEF BurstInv
  <2>2. \A x : x \in Span(t, 0, k) <=> \E l \in 0 .. k - 1 : x = pkts[t][l]
    BY DEF Span
  <2>3. \A x : x \in HeldBy(t) <=> \E l \in Owned(t) : x = pkts[t][l]
    BY DEF HeldBy
  <2>4. \A x : x \in HeldBy(t)' <=> \E l \in Owned(t)' : x = pkts[t][l]
    BY <1>1 DEF HeldBy
  <2>5. Span(t, 0, k) \subseteq HeldBy(t)
    BY <1>7, <2>2, <2>3
  <2>6. \A x : x \in HeldBy(t)' <=> x \in HeldBy(t) /\ x \notin Span(t, 0, k)
    BY <1>7, <2>1, <2>2, <2>3, <2>4
  <2>. QED  BY <2>5, <2>6
<1>9. DpdkTypes'
  <2>1. Span(t, 0, k) \subseteq Mbufs
    BY <1>8, Parts DEF DpdkInv, Threads
  <2>. QED  BY <1>0, <1>1, <1>3, <2>1 DEF DpdkTypes
<1>10. BurstInv(t)'
  <2>1. \A l, m \in Owned(t)' : pkts[t][l] = pkts[t][m] => l = m
    BY <1>0, <1>7 DEF BurstInv
  <2>2. dpc'[t] \in StepsOf(t)
    BY <1>3 DEF StepsOf
  <2>3. \A l \in 0 .. n[t] - 1 : l \in DOMAIN pkts[t] /\ pkts[t][l] \in Mbufs
    BY <1>0 DEF BurstInv
  <2>4. pkts' = pkts
    BY <1>1
  <2>. QED  BY <1>2, <1>3, <2>1, <2>2, <2>3, <2>4 DEF BurstInv
<1>11. Moved(t, Span(t, 0, k))
  BY <1>1, <1>8, RingKept DEF Moved
<1>. QED  BY <1>1, <1>2, <1>3, <1>4, <1>8, <1>9, <1>10, <1>11 DEF Does

(* The advertisement is offered: accepted, refused, or given up. *)
LEMMA OfferMoves ==
  ASSUME DpdkInv, AdvertiseTx
  PROVE  /\ DpdkTypes' /\ BurstInv("rx")' /\ Leaves("tx") /\ kind' = kind
         /\ pool' = pool /\ Received' = Received
         /\ Owned("rx") = {0} /\ dpc["rx"] = "offer"
         /\ dpc'["rx"] \in {"offer", "rx"} /\ pkts' = pkts
         /\ \/ /\ txq' = txq \cup {pkts["rx"][0]} /\ Owned("rx")' = {}
               /\ abandoned' = abandoned
            \/ /\ txq' = txq /\ Owned("rx")' = {} /\ abandoned' = abandoned + 1
            \/ /\ txq' = txq /\ Owned("rx")' = {0} /\ abandoned' = abandoned
<1>0. DpdkTypes /\ BurstInv("rx") /\ "rx" \in Threads /\ abandoned \in Nat
  BY DEF DpdkInv, Threads, DpdkTypes
<1> PICK k \in TxAccepts(1) :
      LET gaveUp == k = 0 /\ i["rx"] + 1 >= MaxCount
          done   == k = 1 \/ gaveUp
      IN  /\ Move("rx", "offer", IF done THEN "rx" ELSE "offer",
                  IF done THEN 0 ELSE 1, IF done THEN 0 ELSE i["rx"] + 1, 0)
          /\ txq' = txq \cup Span("rx", 0, k)
          /\ abandoned' = abandoned + (IF gaveUp THEN 1 ELSE 0)
          /\ UNCHANGED << dapp, pool, rxq, kind, pkts, adv_counter >>
  BY DEF AdvertiseTx
<1> DEFINE gaveUp == k = 0 /\ i["rx"] + 1 >= MaxCount
           done   == k = 1 \/ gaveUp
<1>1. /\ Move("rx", "offer", IF done THEN "rx" ELSE "offer",
              IF done THEN 0 ELSE 1, IF done THEN 0 ELSE i["rx"] + 1, 0)
      /\ txq' = txq \cup Span("rx", 0, k)
      /\ abandoned' = abandoned + (IF gaveUp THEN 1 ELSE 0)
      /\ UNCHANGED << dapp, pool, rxq, kind, pkts >>
  OBVIOUS
<1>2. /\ dpc["rx"] = "offer" /\ dpc'["rx"] = IF done THEN "rx" ELSE "offer"
      /\ n'["rx"] = IF done THEN 0 ELSE 1
      /\ i'["rx"] = (IF done THEN 0 ELSE i["rx"] + 1) /\ j'["rx"] = 0
      /\ DOMAIN dpc' = Threads /\ DOMAIN n' = Threads
      /\ DOMAIN i' = Threads /\ DOMAIN j' = Threads
  BY <1>0, <1>1, MoveFacts
<1>3. Leaves("tx")
  BY <1>0, <1>1, MoveFacts DEF Leaves, Other
<1>4. k \in {0, 1} /\ (gaveUp => k # 1)
  BY DEF TxAccepts
<1> HIDE DEF gaveUp
<1>5. /\ k = 0 => Span("rx", 0, k) = {}
      /\ k = 1 => Span("rx", 0, k) = {pkts["rx"][0]}
  <2>1. /\ \A p : p \in 0 .. 0 - 1 <=> FALSE
        /\ \A p : p \in 0 .. 1 - 1 <=> p = 0
    OBVIOUS
  <2>. QED  BY <2>1 DEF Span
<1>6. n["rx"] = 1 /\ pkts["rx"][0] \in Mbufs /\ 0 \in DOMAIN pkts["rx"]
  BY <1>0, <1>2 DEF BurstInv
<1>7. Owned("rx") = {0}
  <2>1. \A p : p \in Owned("rx") <=> p \in Places /\ p < 1
    BY <1>2, <1>6 DEF Owned, Responsible
  <2>2. \A p \in Places : p < 1 <=> p = 0
    BY Numbers
  <2>. QED  BY <2>1, <2>2, Numbers
<1>8. CASE done
  <2>1. Owned("rx")' = {}
    BY <1>2, <1>8 DEF Owned, Responsible
  <2>2. BurstInv("rx")'
    BY <1>2, <1>8, <2>1, Numbers DEF BurstInv, StepsOf
  <2>3. \/ k = 1 /\ txq' = txq \cup {pkts["rx"][0]} /\ abandoned' = abandoned
        \/ gaveUp /\ txq' = txq /\ abandoned' = abandoned + 1
    BY <1>0, <1>1, <1>4, <1>5, <1>8
  <2>4. DpdkTypes'
    BY <1>0, <1>1, <1>2, <1>6, <2>3 DEF DpdkTypes
  <2>. QED  BY <1>1, <1>2, <1>3, <1>7, <2>1, <2>2, <2>3, <2>4, RingKept
<1>9. CASE ~ done
  <2>1. k = 0 /\ txq' = txq /\ abandoned' = abandoned
    BY <1>0, <1>1, <1>4, <1>5, <1>9
  <2>2. /\ dpc'["rx"] = "offer" /\ n'["rx"] = 1 /\ i'["rx"] = i["rx"] + 1
        /\ i["rx"] \in Nat
    BY <1>0, <1>2, <1>9 DEF BurstInv
  <2>3. Owned("rx")' = Owned("rx")
    BY <1>2, <1>6, <2>2 DEF Owned, Responsible
  <2>4. i'["rx"] \in Nat
    BY <2>2
  <2>5. BurstInv("rx")'
    BY <1>0, <1>1, <1>2, <1>6, <2>2, <2>3, <2>4, Numbers DEF BurstInv, StepsOf
  <2>6. DpdkTypes'
    BY <1>0, <1>1, <1>2, <2>1 DEF DpdkTypes
  <2>. QED  BY <1>1, <1>2, <1>3, <1>7, <2>1, <2>2, <2>3, <2>5, <2>6, RingKept
<1>. QED  BY <1>8, <1>9

(* Steps that take mbufs from the port, and turn them round in place. *)
LEMMA ReceiveMoves ==
  ASSUME DpdkInv, RxBurst
  PROVE  /\ \E M \in SUBSET Mbufs : Does("rx", M)
         /\ dpc'["rx"] \in {"top", "each"} /\ j'["rx"] = 0
         /\ kind' = kind /\ txq' = txq /\ abandoned' = abandoned
<1>0. DpdkTypes /\ BurstInv("rx") /\ "rx" \in Threads
  BY DEF DpdkInv, Threads
<1>a. PICK k \in 0 .. BurstSize :
      /\ k <= Len(rxq)
      /\ Move("rx", "rx",
              IF k = 0 /\ dapp = "dpdk-server" THEN "top" ELSE "each", k, 0, 0)
      /\ pkts' = [pkts EXCEPT !["rx"] = [p \in 0 .. k - 1 |-> rxq[p + 1]]]
      /\ rxq' = SubSeq(rxq, k + 1, Len(rxq))
  BY DEF RxBurst
<1>1. UNCHANGED << dapp, pool, txq, kind, abandoned >>
  BY DEF RxBurst
<1>b. PICK to \in {"top", "each"} :
        Move("rx", "rx", to, k, 0, 0) /\ (to = "top" => k = 0)
  BY <1>a
<1>2. /\ dpc["rx"] = "rx" /\ n'["rx"] = k /\ i'["rx"] = 0 /\ j'["rx"] = 0
      /\ dpc'["rx"] = to
      /\ DOMAIN dpc' = Threads /\ DOMAIN n' = Threads
      /\ DOMAIN i' = Threads /\ DOMAIN j' = Threads
  BY <1>0, <1>b, MoveFacts
<1>3. /\ DOMAIN pkts' = Threads /\ pkts'["tx"] = pkts["tx"]
      /\ pkts'["rx"] = [p \in 0 .. k - 1 |-> rxq[p + 1]]
  BY <1>0, <1>a DEF DpdkTypes, Threads
<1>4. Leaves("tx")
  BY <1>0, <1>1, <1>3, <1>b, MoveFacts DEF Leaves, Other
<1>5. PICK len \in Nat : len = Len(rxq) /\ k \in Nat /\ k <= len /\ k <= BurstSize
  BY <1>0, <1>a, Numbers DEF DpdkTypes
<1>6. /\ rxq' \in Seq(Mbufs) /\ Len(rxq') = len - k
      /\ \A l \in 1 .. len - k : l + k \in 1 .. len /\ rxq'[l] = rxq[l + k]
  <2>1. rxq \in Seq(Mbufs)
    BY <1>0 DEF DpdkTypes
  <2>2. \A l \in k + 1 .. len : l \in 1 .. len
    BY <1>5
  <2>. QED  BY <1>a, <1>5, <2>1, <2>2
<1>7. \A a, b \in 1 .. len : rxq[a] = rxq[b] => a = b
  BY <1>0, <1>5 DEF DpdkTypes
<1>8. DpdkTypes'
  <2>1. \A a, b \in 1 .. Len(rxq') : rxq'[a] = rxq'[b] => a = b
    <3> SUFFICES ASSUME NEW a \in 1 .. len - k, NEW b \in 1 .. len - k,
                        rxq'[a] = rxq'[b]
                 PROVE  a = b
      BY <1>6
    <3>1. a + k = b + k
      BY <1>6, <1>7
    <3>. QED  BY <1>5, <3>1
  <2>. QED  BY <1>0, <1>1, <1>2, <1>3, <1>6, <2>1 DEF DpdkTypes
<1>9. Owned("rx") = {}
  BY <1>2 DEF Owned, Responsible
<1>10. \A l : l \in Owned("rx")' <=> l \in 0 .. k - 1
  <2>1. \A l \in Places : l \in Nat /\ (l \in Owned("rx")' <=> l < k)
    BY <1>2, <1>5, <1>b, Numbers DEF Owned, Responsible
  <2>2. Owned("rx")' \subseteq Places
    BY DEF Owned, Places
  <2>3. \A l \in 0 .. k - 1 : l \in Places /\ l < k
    BY <1>5, Numbers
  <2>4. \A l \in Nat : l < k => l \in 0 .. k - 1
    BY <1>5
  <2>. QED  BY <2>1, <2>2, <2>3, <2>4
<1>11. \A l \in 0 .. k - 1 :
         /\ l + 1 \in 1 .. len /\ l + 1 <= k /\ l \in Nat
         /\ pkts'["rx"][l] = rxq[l + 1] /\ rxq[l + 1] \in Mbufs
  <2>1. \A l \in 0 .. k - 1 : l + 1 \in 1 .. len /\ l + 1 <= k /\ l \in Nat
    BY <1>5
  <2>2. \A l \in 1 .. len : rxq[l] \in Mbufs
    BY <1>0, <1>5 DEF DpdkTypes
  <2>. QED  BY <1>3, <2>1, <2>2
<1>12. BurstInv("rx")'
  <2>1. \A l \in 0 .. k - 1 : l \in DOMAIN pkts'["rx"] /\ pkts'["rx"][l] \in Mbufs
    BY <1>3, <1>11
  <2>2. \A a, b \in Owned("rx")' : pkts'["rx"][a] = pkts'["rx"][b] => a = b
    <3> SUFFICES ASSUME NEW a \in 0 .. k - 1, NEW b \in 0 .. k - 1,
                        pkts'["rx"][a] = pkts'["rx"][b]
                 PROVE  a = b
      BY <1>10
    <3>1. a + 1 = b + 1 /\ a \in Nat /\ b \in Nat
      BY <1>7, <1>11
    <3>. QED  BY <3>1
  <2>3. dpc'["rx"] \in StepsOf("rx") /\ dpc'["rx"] \notin {"free", "offer"}
    BY <1>2, <1>b DEF StepsOf
  <2>4. n'["rx"] \in 0 .. BurstSize /\ i'["rx"] <= n'["rx"] /\ j'["rx"] <= i'["rx"]
    BY <1>2, <1>5, Numbers
  <2>5. /\ \A l \in 0 .. n'["rx"] - 1 :
              l \in DOMAIN pkts'["rx"] /\ pkts'["rx"][l] \in Mbufs
        /\ i'["rx"] \in Nat /\ j'["rx"] \in Nat /\ j'["rx"] = 0
    BY <1>2, <2>1
  <2>. QED  BY <2>2, <2>3, <2>4, <2>5 DEF BurstInv
<1> DEFINE M == HeldBy("rx")'
<1>13. \A x : x \in M <=> \E l \in 1 .. k : x = rxq[l]
  <2>1. \A x : x \in M <=> \E l \in 0 .. k - 1 : x = rxq[l + 1]
    BY <1>10, <1>11 DEF HeldBy
  <2>2. \A l \in 1 .. k : l - 1 \in 0 .. k - 1 /\ (l - 1) + 1 = l
    BY <1>5
  <2>3. \A l \in 0 .. k - 1 : l + 1 \in 1 .. k
    BY <1>5
  <2>. QED  BY <2>1, <2>2, <2>3
<1>14. \A x : x \in Received <=> \E l \in 1 .. len : x = rxq[l]
  BY <1>5 DEF Received
<1>15. \A x : x \in Received' <=> \E l \in 1 .. len : l \notin 1 .. k /\ x = rxq[l]
  <2>1. \A x : x \in Received' <=> \E l \in 1 .. len - k : x = rxq[l + k]
    BY <1>6 DEF Received
  <2>2. \A l \in 1 .. len - k : l + k \in 1 .. len /\ l + k \notin 1 .. k
    BY <1>5
  <2>3. \A l \in 1 .. len : l \notin 1 .. k =>
          l - k \in 1 .. len - k /\ (l - k) + k = l
    BY <1>5
  <2>. QED  BY <2>1, <2>2, <2>3
<1>16. \A l \in 1 .. k : l \in 1 .. len
  BY <1>5
<1> HIDE DEF M
<1>17. M \subseteq Received /\ Received' = Received \ M
  BY <1>7, <1>13, <1>14, <1>15, <1>16
<1>18. HeldBy("rx") = {}
  BY <1>9 DEF HeldBy
<1>19. Moved("rx", M)
  BY <1>1, <1>17, <1>18 DEF Moved, M
<1>20. M \subseteq Mbufs
  BY <1>0, <1>17, Parts DEF DpdkInv
<1>. QED  BY <1>1, <1>2, <1>4, <1>8, <1>12, <1>19, <1>20, <1>b DEF Does, Other

(* The mbuf at i is moved to j, which is not beyond it. *)
LEMMA KeepMoves ==
  ASSUME DpdkInv, KeepOne
  PROVE  /\ Does("rx", {}) /\ txq' = txq /\ abandoned' = abandoned
         /\ dpc'["rx"] = "each" /\ i["rx"] \in Owned("rx")
         /\ kind' = [kind EXCEPT ![pkts["rx"][i["rx"]]] = "out"]
         /\ \A k \in Owned("rx")' : k < j'["rx"] =>
              \/ pkts'["rx"][k] = pkts["rx"][i["rx"]]
              \/ /\ k \in Owned("rx") /\ k < j["rx"] /\ dpc["rx"] = "each"
                 /\ pkts'["rx"][k] = pkts["rx"][k]
<1>0. DpdkTypes /\ BurstInv("rx") /\ "rx" \in Threads
  BY DEF DpdkInv, Threads
<1> DEFINE pkt == pkts["rx"][i["rx"]]
<1>1. /\ Move("rx", "each", "each", n["rx"], i["rx"] + 1, j["rx"] + 1)
      /\ i["rx"] < n["rx"] /\ dapp = "dpdk-server"
      /\ ForUs(pkt) /\ kind' = SwappedHeaders(pkt)
      /\ pkts' = [pkts EXCEPT !["rx"][j["rx"]] = pkt]
      /\ UNCHANGED << dapp, pool, txq, rxq, abandoned >>
  BY DEF KeepOne
<1>2. /\ dpc["rx"] = "each" /\ dpc'["rx"] = "each" /\ n'["rx"] = n["rx"]
      /\ i'["rx"] = i["rx"] + 1 /\ j'["rx"] = j["rx"] + 1
      /\ DOMAIN dpc' = Threads /\ DOMAIN n' = Threads
      /\ DOMAIN i' = Threads /\ DOMAIN j' = Threads
  BY <1>0, <1>1, MoveFacts
<1>3. PICK p \in Nat : /\ p = i["rx"] /\ p \in Places /\ p \in 0 .. n["rx"] - 1
                       /\ n["rx"] \in 0 .. BurstSize /\ n["rx"] \in Nat
                       /\ p < n["rx"]
  BY <1>0, <1>1, Numbers DEF BurstInv
<1>4. PICK q \in Nat : /\ q = j["rx"] /\ q <= p /\ q \in Places
                       /\ q \in 0 .. n["rx"] - 1
  BY <1>0, <1>2, <1>3, Numbers DEF BurstInv
<1>5. pkt = pkts["rx"][p] /\ pkt \in Mbufs /\ q \in DOMAIN pkts["rx"]
  BY <1>0, <1>3, <1>4 DEF BurstInv
<1> HIDE DEF pkt
<1>6. /\ DOMAIN pkts' = Threads /\ pkts'["tx"] = pkts["tx"]
      /\ pkts'["rx"] = [pkts["rx"] EXCEPT ![q] = pkt]
  BY <1>0, <1>1, <1>4 DEF DpdkTypes, Threads
<1>7. Leaves("tx")
  BY <1>0, <1>1, <1>6, MoveFacts DEF Leaves, Other
<1>8. kind' = [kind EXCEPT ![pkt] = "out"]
  BY <1>0, <1>1, <1>5 DEF DpdkTypes, ForUs, SwappedHeaders
<1>9. DpdkTypes'
  <2>1. kind' \in [Mbufs -> {"foreign", "in", "out", "advertisement"}]
    BY <1>0, <1>5, <1>8 DEF DpdkTypes
  <2>. QED  BY <1>0, <1>1, <1>2, <1>6, <2>1 DEF DpdkTypes
<1>10. i'["rx"] = p + 1 /\ j'["rx"] = q + 1
  BY <1>2, <1>3, <1>4
<1>11. \A k \in Places : k \in Owned("rx") <=> k < q \/ (p <= k /\ k < n["rx"])
  BY <1>2, <1>3, <1>4 DEF Owned, Responsible
<1>12. \A k \in Places :
         k \in Owned("rx")' <=> k < q + 1 \/ (p + 1 <= k /\ k < n["rx"])
  BY <1>2, <1>10 DEF Owned, Responsible
<1>13. Owned("rx") \subseteq Places /\ Owned("rx")' \subseteq Places
  BY DEF Owned, Places
<1>14. /\ p \in Owned("rx") /\ q \in Owned("rx")'
       /\ \A k : k \in Owned("rx")' /\ k # q <=> k \in Owned("rx") /\ k # p
  <2>1. p \in Owned("rx") /\ q \in Owned("rx")'
    BY <1>3, <1>4, <1>11, <1>12
  <2>2. ASSUME NEW k \in Places
        PROVE  k \in Owned("rx")' /\ k # q <=> k \in Owned("rx") /\ k # p
    <3>1. k \in Nat
      BY Numbers
    <3>2. k < q + 1 /\ k # q <=> k < q
      BY <1>4, <3>1
    <3>3. p + 1 <= k <=> p <= k /\ k # p
      BY <1>3, <3>1
    <3>4. (p + 1 <= k => k # q) /\ (k < q => k # p)
      BY <1>3, <1>4, <3>1
    <3>. QED  BY <1>11, <1>12, <3>2, <3>3, <3>4
  <2>. QED  BY <1>13, <2>1, <2>2
<1>15. /\ pkts'["rx"][q] = pkt
       /\ \A k \in Owned("rx")' : k # q => pkts'["rx"][k] = pkts["rx"][k]
  BY <1>5, <1>6
<1>16. \A a, b \in Owned("rx") : pkts["rx"][a] = pkts["rx"][b] => a = b
  BY <1>0 DEF BurstInv
<1>17. HeldBy("rx")' = HeldBy("rx")
  <2>1. \A x : x \in HeldBy("rx") <=>
               x = pkt \/ \E k \in Owned("rx") : k # p /\ x = pkts["rx"][k]
    BY <1>5, <1>14 DEF HeldBy
  <2>2. \A x : x \in HeldBy("rx")' <=>
               x = pkt \/ \E k \in Owned("rx")' : k # q /\ x = pkts["rx"][k]
    BY <1>14, <1>15 DEF HeldBy
  <2>. QED  BY <1>14, <2>1, <2>2
<1>18. BurstInv("rx")'
  <2>1. \A k \in 0 .. n["rx"] - 1 :
          k \in DOMAIN pkts'["rx"] /\ pkts'["rx"][k] \in Mbufs
    BY <1>0, <1>5, <1>6 DEF BurstInv
  <2>2. \A a, b \in Owned("rx")' : pkts'["rx"][a] = pkts'["rx"][b] => a = b
    BY <1>5, <1>14, <1>15, <1>16
  <2>3. /\ i'["rx"] \in Nat /\ j'["rx"] \in Nat /\ j'["rx"] <= i'["rx"]
        /\ i'["rx"] <= n["rx"]
    BY <1>3, <1>4, <1>10
  <2>. QED  BY <1>1, <1>2, <1>3, <2>1, <2>2, <2>3 DEF BurstInv, StepsOf
<1>19. Moved("rx", {})
  BY <1>1, <1>17, RingKept DEF Moved
<1>20. \A k \in Owned("rx")' : k < j'["rx"] =>
         \/ pkts'["rx"][k] = pkt
         \/ /\ k \in Owned("rx") /\ k < j["rx"] /\ pkts'["rx"][k] = pkts["rx"][k]
  <2> SUFFICES ASSUME NEW k \in Owned("rx")', k < q + 1, k # q
               PROVE  /\ k \in Owned("rx") /\ k < q
                      /\ pkts'["rx"][k] = pkts["rx"][k]
    BY <1>4, <1>10, <1>15
  <2>1. k \in Nat
    BY <1>13, Numbers
  <2>2. k < q
    BY <1>4, <2>1
  <2>. QED  BY <1>14, <1>15, <2>2
<1>21. Does("rx", {})
  BY <1>7, <1>9, <1>18, <1>19 DEF Does, Other
<1>. QED  BY <1>1, <1>2, <1>3, <1>8, <1>14, <1>20, <1>21 DEF pkt

(* The port takes an mbuf from the pool, and gives back one it has sent.   *)
LEMMA ArriveStep ==
  ASSUME DpdkInv, PortArrive
  PROVE  DpdkInv'
<1>0. DpdkTypes /\ Apart /\ BurstInv("tx") /\ BurstInv("rx")
  BY DEF DpdkInv
<1>1. PICK m \in pool, h \in {"in", "foreign"} :
        /\ pool' = pool \ {m} /\ rxq' = Append(rxq, m)
        /\ kind' = [kind EXCEPT ![m] = h]
  BY DEF PortArrive
<1>2. UNCHANGED << dapp, txq, dpc, pkts, n, i, j, abandoned >>
  BY DEF PortArrive, threadVars
<1>3. PICK len \in Nat : len = Len(rxq) /\ rxq \in Seq(Mbufs) /\ m \in Mbufs
  BY <1>0 DEF DpdkTypes
<1>4. /\ rxq' \in Seq(Mbufs) /\ Len(rxq') = len + 1 /\ rxq'[len + 1] = m
      /\ \A k \in 1 .. len : k \in 1 .. len + 1 /\ k # len + 1 /\ rxq'[k] = rxq[k]
      /\ \A k \in 1 .. len + 1 : k = len + 1 \/ k \in 1 .. len
  BY <1>1, <1>3
<1>5. \A x : x \in Received <=> \E k \in 1 .. len : x = rxq[k]
  BY <1>3 DEF Received
<1>6. Received' = Received \cup {m}
  <2>1. \A x : x \in Received' <=> \E k \in 1 .. len + 1 : x = rxq'[k]
    BY <1>4 DEF Received
  <2>2. len + 1 \in 1 .. len + 1
    BY <1>3
  <2>. QED  BY <1>4, <1>5, <2>1, <2>2
<1>7. Leaves("tx") /\ Leaves("rx")
  BY <1>2 DEF Leaves
<1>8. /\ BurstInv("tx")' /\ Owned("tx")' = Owned("tx") /\ HeldBy("tx")' = HeldBy("tx")
      /\ BurstInv("rx")' /\ Owned("rx")' = Owned("rx") /\ HeldBy("rx")' = HeldBy("rx")
  BY <1>0, <1>7, Left
<1>9. DpdkTypes'
  <2>1. \A a, b \in 1 .. Len(rxq') : rxq'[a] = rxq'[b] => a = b
    <3>1. \A k \in 1 .. len : rxq[k] # m
      BY <1>0, <1>1, <1>5 DEF Apart
    <3>2. \A a, b \in 1 .. len : rxq[a] = rxq[b] => a = b
      BY <1>0, <1>3 DEF DpdkTypes
    <3>. QED  BY <1>4, <3>1, <3>2
  <2>. QED  BY <1>0, <1>1, <1>2, <1>4, <2>1 DEF DpdkTypes
<1>10. Apart' /\ Lost' = Lost
  <2>1. Apart'
    BY <1>0, <1>1, <1>2, <1>6, <1>8 DEF Apart
  <2>2. Lost' = Lost
    BY <1>0, <1>1, <1>2, <1>6, <1>8 DEF Apart, Lost
  <2>. QED  BY <2>1, <2>2
<1>11. \A x \in Mbufs : x # m => kind'[x] = kind[x]
  BY <1>0, <1>1 DEF DpdkTypes
<1>12. m \notin txq /\ m \notin HeldBy("tx") /\ m \notin HeldBy("rx")
  BY <1>0, <1>1 DEF Apart
<1>13. SendsOwnFrames'
  BY <1>0, <1>2, <1>11, <1>12 DEF DpdkInv, DpdkTypes, SendsOwnFrames
<1>14. ASSUME NEW t \in Threads
       PROVE  Directed(t)'
  <2>1. \A k \in Owned(t) : pkts[t][k] # m /\ pkts[t][k] \in Mbufs
    <3>1. HeldBy(t) \subseteq Mbufs /\ m \notin HeldBy(t)
      BY <1>0, <1>12, Parts DEF Threads
    <3>. QED  BY <3>1 DEF HeldBy
  <2>2. Owned(t)' = Owned(t) /\ Directed(t)
    BY <1>8 DEF Threads, DpdkInv
  <2>. QED  BY <1>2, <1>11, <2>1, <2>2 DEF Directed
<1>15. Directed("tx")' /\ Directed("rx")'
  BY <1>14 DEF Threads
<1>16. (Cardinality(Lost) = abandoned)'
  BY <1>2, <1>10 DEF DpdkInv
<1>. QED  BY <1>8, <1>9, <1>10, <1>13, <1>15, <1>16 DEF DpdkInv

LEMMA SentStep ==
  ASSUME DpdkInv, PortTxDone
  PROVE  DpdkInv'
<1>0. DpdkTypes /\ Apart /\ BurstInv("tx") /\ BurstInv("rx")
  BY DEF DpdkInv
<1>1. PICK m \in txq : txq' = txq \ {m} /\ pool' = pool \cup {m}
  BY DEF PortTxDone
<1>2. UNCHANGED << dapp, rxq, kind, dpc, pkts, n, i, j, abandoned >>
  BY DEF PortTxDone, threadVars
<1>3. Received' = Received
  BY <1>2, RingKept
<1>4. Leaves("tx") /\ Leaves("rx")
  BY <1>2 DEF Leaves
<1>5. /\ BurstInv("tx")' /\ Owned("tx")' = Owned("tx") /\ HeldBy("tx")' = HeldBy("tx")
      /\ BurstInv("rx")' /\ Owned("rx")' = Owned("rx") /\ HeldBy("rx")' = HeldBy("rx")
  BY <1>0, <1>4, Left
<1>6. DpdkTypes'
  BY <1>0, <1>1, <1>2 DEF DpdkTypes
<1>7. Apart'
  BY <1>0, <1>1, <1>3, <1>5 DEF Apart
<1>8. Lost' = Lost
  BY <1>0, <1>1, <1>3, <1>5 DEF Apart, Lost
<1>9. SendsOwnFrames'
  BY <1>1, <1>2 DEF DpdkInv, SendsOwnFrames
<1>10. Directed("tx")' /\ Directed("rx")'
  BY <1>2, <1>5 DEF DpdkInv, Directed
<1>11. (Cardinality(Lost) = abandoned)'
  BY <1>2, <1>8 DEF DpdkInv
<1>. QED  BY <1>5, <1>6, <1>7, <1>9, <1>10, <1>11 DEF DpdkInv

(* A thread writes headers in its own mbufs and in those it takes from the *)
(* pool, and what it gives to the port is addressed to the peer.           *)
Addresses(t) ==
  /\ Directed(t)'
  /\ \A m \in Mbufs : m \notin pool /\ m \notin HeldBy(t) => kind'[m] = kind[m]
  /\ \A m \in txq' : m \in txq \/ kind'[m] \in {"out", "advertisement"}

LEMMA Addressed ==
  ASSUME DpdkTypes, BurstInv("tx"), BurstInv("rx"), Apart,
         Directed("tx"), Directed("rx"), SendsOwnFrames,
         NEW t \in Threads, Addresses(t), Leaves(Other(t))
  PROVE  Directed("tx")' /\ Directed("rx")' /\ SendsOwnFrames'
<1>1. /\ Other(t) \in Threads /\ Threads = {t, Other(t)}
      /\ BurstInv(Other(t)) /\ Directed(Other(t))
  BY DEF Other, Threads
<1>2. \A m \in HeldBy(Other(t)) : m \notin pool /\ m \notin HeldBy(t) /\ m \in Mbufs
  BY Parts DEF Apart, Other, Threads
<1>3. \A k \in Owned(Other(t)) : kind'[pkts[Other(t)][k]] = kind[pkts[Other(t)][k]]
  BY <1>2 DEF Addresses, HeldBy
<1>4. Directed(Other(t))'
  <2>1. Owned(Other(t))' = Owned(Other(t))
    BY <1>1, Left
  <2>. QED  BY <1>1, <1>3, <2>1 DEF Directed, Leaves
<1>5. Directed("tx")' /\ Directed("rx")'
  BY <1>1, <1>4 DEF Addresses, Other, Threads
<1>6. \A m \in txq : m \in Mbufs /\ m \notin pool /\ m \notin HeldBy(t)
  BY Parts DEF Apart, Threads
<1>7. \A m \in txq : kind'[m] \in {"out", "advertisement"}
  BY <1>6 DEF Addresses, SendsOwnFrames
<1>8. SendsOwnFrames'
  BY <1>7 DEF Addresses, SendsOwnFrames
<1>. QED  BY <1>5, <1>8

LEMMA MovedStep ==
  ASSUME DpdkInv, NEW t \in Threads, NEW M, Does(t, M), Addresses(t),
         abandoned' = abandoned
  PROVE  DpdkInv'
<1>0. /\ DpdkTypes /\ BurstInv("tx") /\ BurstInv("rx") /\ Apart
      /\ Directed("tx") /\ Directed("rx") /\ SendsOwnFrames
      /\ Cardinality(Lost) = abandoned
  BY DEF DpdkInv
<1>1. DpdkTypes' /\ BurstInv(t)' /\ Moved(t, M) /\ Leaves(Other(t))
  BY DEF Does
<1>2. BurstInv(Other(t))' /\ HeldBy(Other(t))' = HeldBy(Other(t))
  BY <1>0, <1>1, Left DEF Other, Threads
<1>3. BurstInv("tx")' /\ BurstInv("rx")'
  BY <1>1, <1>2 DEF Other, Threads
<1>4. Apart' /\ Lost' = Lost
  BY <1>0, <1>1, <1>2, MovedApart
<1>5. Directed("tx")' /\ Directed("rx")' /\ SendsOwnFrames'
  BY <1>0, <1>1, Addressed
<1>. QED  BY <1>0, <1>1, <1>3, <1>4, <1>5 DEF DpdkInv

LEMMA OfferStep ==
  ASSUME DpdkInv, AdvertiseTx
  PROVE  DpdkInv'
<1>0. /\ DpdkTypes /\ BurstInv("tx") /\ BurstInv("rx") /\ Apart
      /\ Directed("tx") /\ Directed("rx") /\ SendsOwnFrames
      /\ Cardinality(Lost) = abandoned /\ "rx" \in Threads /\ Other("rx") = "tx"
  BY DEF DpdkInv, Threads, Other
<1>1. /\ DpdkTypes' /\ BurstInv("rx")' /\ Leaves("tx") /\ kind' = kind
      /\ pool' = pool /\ Received' = Received
      /\ Owned("rx") = {0} /\ dpc["rx"] = "offer"
      /\ dpc'["rx"] \in {"offer", "rx"} /\ pkts' = pkts
  BY OfferMoves
<1> DEFINE pkt == pkts["rx"][0]
<1>2. /\ BurstInv("tx")' /\ Owned("tx")' = Owned("tx")
      /\ HeldBy("tx")' = HeldBy("tx")
  BY <1>0, <1>1, Left
<1>3. HeldBy("rx") = {pkt} /\ pkt \in Mbufs /\ kind[pkt] = "advertisement"
  <2>1. HeldBy("rx") = {pkt}
    BY <1>1 DEF HeldBy
  <2>2. kind[pkt] = "advertisement"
    BY <1>0, <1>1 DEF Directed
  <2>. QED  BY <1>0, <2>1, <2>2, Parts
<1>4. Addresses("rx")
  <2>1. \A m \in txq' : m \in txq \/ kind'[m] \in {"out", "advertisement"}
    BY <1>1, <1>3, OfferMoves
  <2>2. Directed("rx")'
    <3>1. Owned("rx")' \subseteq {0}
      BY OfferMoves
    <3>. QED  BY <1>1, <1>3, <3>1 DEF Directed
  <2>. QED  BY <1>1, <2>1, <2>2 DEF Addresses
<1>5. Directed("tx")' /\ Directed("rx")' /\ SendsOwnFrames'
  BY <1>0, <1>1, <1>4, Addressed
<1>6. \/ /\ txq' = txq \cup {pkt} /\ HeldBy("rx")' = {} /\ abandoned' = abandoned
      \/ /\ txq' = txq /\ HeldBy("rx")' = {} /\ abandoned' = abandoned + 1
      \/ /\ txq' = txq /\ HeldBy("rx")' = {pkt} /\ abandoned' = abandoned
  BY <1>1, OfferMoves DEF HeldBy
<1> HIDE DEF pkt
<1>7. Apart'
  BY <1>0, <1>1, <1>2, <1>3, <1>6 DEF Apart
<1>8. (Cardinality(Lost) = abandoned)'
  <2>1. CASE Lost' = Lost /\ abandoned' = abandoned
    BY <1>0, <2>1
  <2>2. CASE Lost' = Lost \cup {pkt} /\ pkt \notin Lost /\ abandoned' = abandoned + 1
    <3>1. IsFiniteSet(Lost)
      <4>1. Lost \in SUBSET Mbufs /\ IsFiniteSet(Mbufs)
        BY TestappDpdkAssumption DEF Lost
      <4>. QED  BY <4>1, FS_Subset
    <3>2. Cardinality(Lost \cup {pkt}) = Cardinality(Lost) + 1
      BY <2>2, <3>1, FS_AddElement
    <3>. QED  BY <1>0, <2>2, <3>2
  <2>3. \/ Lost' = Lost /\ abandoned' = abandoned
        \/ Lost' = Lost \cup {pkt} /\ pkt \notin Lost /\ abandoned' = abandoned + 1
    <3>1. pkt \notin Lost
      BY <1>3 DEF Lost
    <3>2. CASE txq' = txq \cup {pkt} /\ HeldBy("rx")' = {} /\ abandoned' = abandoned
      <4>1. Lost' = Lost
        BY <1>1, <1>2, <1>3, <3>2 DEF Lost
      <4>. QED  BY <3>2, <4>1
    <3>3. CASE txq' = txq /\ HeldBy("rx")' = {} /\ abandoned' = abandoned + 1
      <4>1. Lost' = Lost \cup {pkt}
        <5>1. pkt \notin pool /\ pkt \notin txq /\ pkt \notin Received
              /\ pkt \notin HeldBy("tx")
          BY <1>0, <1>3 DEF Apart
        <5>. QED  BY <1>1, <1>2, <1>3, <3>3, <5>1 DEF Lost
      <4>. QED  BY <3>1, <3>3, <4>1
    <3>4. CASE txq' = txq /\ HeldBy("rx")' = {pkt} /\ abandoned' = abandoned
      <4>1. Lost' = Lost
        BY <1>1, <1>2, <1>3, <3>4 DEF Lost
      <4>. QED  BY <3>4, <4>1
    <3>. QED  BY <1>6, <3>2, <3>3, <3>4
  <2>. QED  BY <2>1, <2>2, <2>3
<1>. QED  BY <1>1, <1>2, <1>5, <1>7, <1>8 DEF DpdkInv

LEMMA QuietAddresses ==
  ASSUME NEW t, kind' = kind, txq' = txq, Directed(t)'
  PROVE  Addresses(t)
BY DEF Addresses

LEMMA EmptyDirected ==
  ASSUME NEW t, Owned(t)' = {}
  PROVE  Directed(t)'
BY DEF Directed

(* One step of DpdkInv for each of the threads' actions. *)
LEMMA QuietStep ==
  ASSUME DpdkInv, BurstDue \/ Prepared \/ RxTop \/ AdvertiseFails \/ LookedAtAll
  PROVE  DpdkInv'
<1>1. CASE BurstDue
  <2>1. UNCHANGED << kind, txq, abandoned >> /\ dpc'["tx"] = "alloc" /\ n'["tx"] = 0
    BY <1>1, MoveFacts DEF BurstDue, DpdkInv, Threads
  <2>2. Owned("tx")' = {}
    BY <2>1, Numbers DEF Owned, Responsible
  <2>. QED  BY <1>1, <2>1, <2>2, TopMoves, EmptyDirected, QuietAddresses, MovedStep
            DEF Threads
<1>2. CASE Prepared
  <2>1. UNCHANGED << kind, txq, pkts, abandoned >>
    BY <1>2 DEF Prepared
  <2>2. dpc["tx"] = "alloc" /\ dpc'["tx"] = "burst" /\ n'["tx"] = n["tx"]
    BY <1>2, MoveFacts DEF Prepared, DpdkInv, Threads
  <2>3. Owned("tx")' = Owned("tx")
    BY <2>2 DEF Owned, Responsible
  <2>4. Directed("tx")'
    BY <2>1, <2>2, <2>3 DEF DpdkInv, Directed
  <2>. QED  BY <1>2, <2>1, <2>4, PreparedMoves, QuietAddresses, MovedStep DEF Threads
<1>3. CASE RxTop \/ AdvertiseFails
  <2>1. UNCHANGED << kind, txq, abandoned >>
    BY <1>3 DEF RxTop, AdvertiseFails
  <2>2. PICK from, to \in {"top", "advertise", "rx"} : Move("rx", from, to, 0, 0, 0)
    BY <1>3 DEF RxTop, AdvertiseFails
  <2>3. dpc'["rx"] \in {"top", "advertise", "rx"}
    BY <2>2, MoveFacts DEF DpdkInv, Threads
  <2>4. Owned("rx")' = {}
    BY <2>3 DEF Owned, Responsible
  <2>. QED  BY <1>3, <2>1, <2>4, IdleMoves, EmptyDirected, QuietAddresses, MovedStep
            DEF Threads
<1>4. CASE LookedAtAll
  <2>0. "rx" \in Threads /\ DpdkTypes /\ BurstInv("rx")
    BY DEF DpdkInv, Threads
  <2>1. UNCHANGED << kind, txq, pkts, abandoned >>
    BY <1>4 DEF LookedAtAll
  <2>2. Directed("rx")'
    <3>1. CASE dapp = "dpdk-server"
      <4>1. /\ dpc["rx"] = "each" /\ dpc'["rx"] = "burst" /\ n'["rx"] = j["rx"]
            /\ j["rx"] \in Nat
        BY <1>4, <2>0, <3>1, MoveFacts DEF LookedAtAll, BurstInv
      <4>2. \A k \in Owned("rx")' : k < j["rx"] /\ k \in Owned("rx")
        BY <4>1 DEF Owned, Responsible
      <4>. QED  BY <2>1, <4>1, <4>2 DEF DpdkInv, Directed
    <3>2. CASE dapp # "dpdk-server"
      <4>1. dpc'["rx"] = "top"
        BY <1>4, <2>0, <3>2, MoveFacts DEF LookedAtAll
      <4>. QED  BY <4>1 DEF Directed
    <3>. QED  BY <3>1, <3>2
  <2>. QED  BY <1>4, <2>0, <2>1, <2>2, LookedMoves, QuietAddresses, MovedStep
<1>. QED  BY <1>1, <1>2, <1>3, <1>4

LEMMA BurstStep ==
  ASSUME DpdkInv, NEW t \in Threads, TxBurst(t) \/ FreedUnsent(t)
  PROVE  DpdkInv'
<1>1. CASE TxBurst(t)
  <2>1. UNCHANGED << kind, abandoned >>
    BY <1>1 DEF TxBurst
  <2>2. txq' \subseteq txq \cup HeldBy(t) /\ dpc[t] = "burst" /\ dpc'[t] = "free"
    BY <1>1, TxMoves
  <2>3. \A m \in HeldBy(t) : kind[m] = "out"
    BY <2>2 DEF DpdkInv, Directed, HeldBy, Threads
  <2>4. Addresses(t)
    BY <2>1, <2>2, <2>3 DEF Addresses, Directed
  <2>5. PICK k \in 0 .. BurstSize : Does(t, Span(t, 0, k))
    BY <1>1, TxMoves
  <2>. QED  BY <2>1, <2>4, <2>5, MovedStep
<1>2. CASE FreedUnsent(t)
  <2>1. UNCHANGED << kind, txq, abandoned >> /\ dpc'[t] = "top"
    BY <1>2, MoveFacts DEF FreedUnsent, DpdkInv
  <2>2. Directed(t)'
    BY <2>1 DEF Directed
  <2>. QED  BY <1>2, <2>1, <2>2, FreedMoves, QuietAddresses, MovedStep
<1>. QED  BY <1>1, <1>2

LEMMA FreeStep ==
  ASSUME DpdkInv, NEW t \in Threads,
         FreeUnsent(t) \/ (t = "rx" /\ (ConsumeOne \/ DropOne))
  PROVE  DpdkInv'
<1>1. UNCHANGED << kind, txq, abandoned >>
  BY DEF FreeUnsent, ConsumeOne, DropOne
<1>2. Directed(t)'
  <2>1. /\ dpc'[t] = dpc[t] /\ dpc[t] \in {"free", "each"}
        /\ dpc[t] = "each" => j'[t] = j[t]
        /\ Owned(t)' \subseteq Owned(t) /\ pkts'[t] = pkts[t]
    BY FreeMoves
  <2>2. Directed(t)
    BY DEF DpdkInv, Threads
  <2>. QED  BY <1>1, <2>1, <2>2 DEF Directed
<1>3. Does(t, {pkts[t][i[t]]})
  BY FreeMoves
<1>. QED  BY <1>1, <1>2, <1>3, QuietAddresses, MovedStep

LEMMA TakeStep ==
  ASSUME DpdkInv, PrepareOne \/ AdvertiseAlloc
  PROVE  DpdkInv'
<1>0. /\ kind \in [Mbufs -> {"foreign", "in", "out", "advertisement"}]
      /\ pool \subseteq Mbufs /\ "tx" \in Threads /\ "rx" \in Threads
  BY DEF DpdkInv, DpdkTypes, Threads
<1>1. CASE PrepareOne
  <2>1. UNCHANGED << txq, abandoned >>
    BY <1>1 DEF PrepareOne
  <2>2. PICK m \in pool :
          /\ Does("tx", {m}) /\ kind' = [kind EXCEPT ![m] = "out"]
          /\ dpc'["tx"] = "alloc" /\ dpc["tx"] = "alloc"
          /\ \A k \in Owned("tx")' :
               \/ pkts'["tx"][k] = m
               \/ k \in Owned("tx") /\ pkts'["tx"][k] = pkts["tx"][k]
    BY <1>1, PrepareMoves
  <2>3. kind'[m] = "out" /\ \A x \in Mbufs : x # m => kind'[x] = kind[x]
    BY <1>0, <2>2
  <2>4. \A k \in Owned("tx") : /\ pkts["tx"][k] \in Mbufs
                               /\ kind[pkts["tx"][k]] = "out"
    <3>1. HeldBy("tx") \subseteq Mbufs
      BY Parts DEF DpdkInv
    <3>. QED  BY <2>2, <3>1 DEF DpdkInv, Directed, HeldBy
  <2>5. Directed("tx")'
    <3>1. \A k \in Owned("tx")' : kind'[pkts'["tx"][k]] = "out"
      BY <2>2, <2>3, <2>4
    <3>. QED  BY <2>2, <3>1 DEF Directed
  <2>6. Addresses("tx")
    BY <2>1, <2>2, <2>3, <2>5 DEF Addresses
  <2>. QED  BY <1>0, <2>1, <2>2, <2>6, MovedStep
<1>2. CASE AdvertiseAlloc
  <2>1. UNCHANGED << txq, abandoned >>
    BY <1>2 DEF AdvertiseAlloc
  <2>2. PICK m \in pool : /\ Does("rx", {m})
                          /\ kind' = [kind EXCEPT ![m] = "advertisement"]
                          /\ dpc'["rx"] = "offer"
                          /\ \A k \in Owned("rx")' : pkts'["rx"][k] = m
    BY <1>2, AdvertiseMoves
  <2>3. kind'[m] = "advertisement" /\ \A x \in Mbufs : x # m => kind'[x] = kind[x]
    BY <1>0, <2>2
  <2>4. Directed("rx")'
    BY <2>2, <2>3 DEF Directed
  <2>5. Addresses("rx")
    BY <2>1, <2>2, <2>3, <2>4 DEF Addresses
  <2>. QED  BY <1>0, <2>1, <2>2, <2>5, MovedStep
<1>. QED  BY <1>1, <1>2

LEMMA ReceivedStep ==
  ASSUME DpdkInv, RxBurst \/ KeepOne
  PROVE  DpdkInv'
<1>0. /\ kind \in [Mbufs -> {"foreign", "in", "out", "advertisement"}]
      /\ "rx" \in Threads /\ HeldBy("rx") \subseteq Mbufs
  BY Parts DEF DpdkInv, DpdkTypes, Threads
<1>1. CASE RxBurst
  <2>1. /\ dpc'["rx"] \in {"top", "each"} /\ j'["rx"] = 0
        /\ kind' = kind /\ txq' = txq /\ abandoned' = abandoned
    BY <1>1, ReceiveMoves
  <2>2. \A k \in Places : ~ (k < 0)
    BY Numbers
  <2>3. Directed("rx")'
    BY <2>1, <2>2 DEF Directed, Owned, Places
  <2>4. PICK M \in SUBSET Mbufs : Does("rx", M)
    BY <1>1, ReceiveMoves
  <2>. QED  BY <1>0, <2>1, <2>3, <2>4, QuietAddresses, MovedStep
<1>2. CASE KeepOne
  <2> DEFINE pkt == pkts["rx"][i["rx"]]
  <2>1. /\ Does("rx", {}) /\ txq' = txq /\ abandoned' = abandoned
        /\ dpc'["rx"] = "each" /\ i["rx"] \in Owned("rx")
        /\ kind' = [kind EXCEPT ![pkt] = "out"]
        /\ \A k \in Owned("rx")' : k < j'["rx"] =>
             \/ pkts'["rx"][k] = pkt
             \/ /\ k \in Owned("rx") /\ k < j["rx"] /\ dpc["rx"] = "each"
                /\ pkts'["rx"][k] = pkts["rx"][k]
    BY <1>2, KeepMoves
  <2>2. pkt \in HeldBy("rx") /\ pkt \in Mbufs
    BY <1>0, <2>1 DEF HeldBy
  <2> HIDE DEF pkt
  <2>3. kind'[pkt] = "out" /\ \A x \in Mbufs : x # pkt => kind'[x] = kind[x]
    BY <1>0, <2>1, <2>2
  <2>4. \A k \in Owned("rx") : pkts["rx"][k] \in Mbufs
    BY <1>0 DEF HeldBy
  <2>5. \A k \in Owned("rx")' : k < j'["rx"] => kind'[pkts'["rx"][k]] = "out"
    BY <2>1, <2>3, <2>4 DEF DpdkInv, Directed
  <2>6. Directed("rx")'
    BY <2>1, <2>5 DEF Directed
  <2>7. Addresses("rx")
    BY <2>1, <2>2, <2>3, <2>6 DEF Addresses
  <2>. QED  BY <1>0, <2>1, <2>7, MovedStep
<1>. QED  BY <1>1, <1>2

LEMMA DpdkStep == DpdkInv /\ DpdkNext => DpdkInv'
<1> SUFFICES ASSUME DpdkInv, DpdkNext PROVE DpdkInv'
  OBVIOUS
<1>0. "tx" \in Threads /\ "rx" \in Threads
  BY DEF Threads
<1>1. CASE PortArrive \/ PortTxDone
  BY <1>1, ArriveStep, SentStep
<1>2. CASE \/ BurstDue \/ Prepared \/ RxTop \/ AdvertiseFails \/ LookedAtAll
  BY <1>2, QuietStep
<1>3. CASE PrepareOne \/ AdvertiseAlloc
  BY <1>3, TakeStep
<1>4. CASE \E t \in Threads : TxBurst(t) \/ FreeUnsent(t) \/ FreedUnsent(t)
  BY <1>4, BurstStep, FreeStep
<1>5. CASE ConsumeOne \/ DropOne
  BY <1>0, <1>5, FreeStep
<1>6. CASE AdvertiseTx
  BY <1>6, OfferStep
<1>7. CASE RxBurst \/ KeepOne
  BY <1>7, ReceivedStep
<1>. QED  BY <1>1, <1>2, <1>3, <1>4, <1>5, <1>6, <1>7 DEF DpdkNext

LEMMA DpdkKept == DpdkInv /\ UNCHANGED dpdkVars => DpdkInv'
<1> SUFFICES ASSUME DpdkInv, UNCHANGED dpdkVars PROVE DpdkInv'
  OBVIOUS
<1>1. UNCHANGED << dapp, pool, txq, rxq, kind, dpc, pkts, n, i, j, abandoned >>
  BY DEF dpdkVars, threadVars
<1>2. /\ Owned("tx")' = Owned("tx") /\ Owned("rx")' = Owned("rx")
      /\ HeldBy("tx")' = HeldBy("tx") /\ HeldBy("rx")' = HeldBy("rx")
      /\ BurstInv("tx")' /\ BurstInv("rx")'
  BY <1>1, Left DEF DpdkInv, Leaves
<1>3. DpdkTypes' /\ Received' = Received
  BY <1>1, RingKept DEF DpdkInv, DpdkTypes
<1>4. Apart' /\ Lost' = Lost
  BY <1>1, <1>2, <1>3 DEF DpdkInv, Apart, Lost
<1>5. Directed("tx")' /\ Directed("rx")' /\ SendsOwnFrames'
  BY <1>1, <1>2 DEF DpdkInv, Directed, SendsOwnFrames
<1>. QED  BY <1>1, <1>2, <1>3, <1>4, <1>5 DEF DpdkInv

LEMMA DpdkInitially == DpdkInit => DpdkInv
<1> SUFFICES ASSUME DpdkInit PROVE DpdkInv
  OBVIOUS
<1>1. DpdkTypes
  BY DEF DpdkInit, DpdkTypes
<1>2. Received = {}
  BY DEF DpdkInit, Received
<1>3. ASSUME NEW t \in Threads
      PROVE  Owned(t) = {} /\ HeldBy(t) = {} /\ BurstInv(t) /\ Directed(t)
  <2>1. dpc[t] = "top" /\ n[t] = 0 /\ i[t] = 0 /\ j[t] = 0
    BY DEF DpdkInit
  <2>2. Owned(t) = {}
    BY <2>1 DEF Owned, Responsible
  <2>. QED  BY <2>1, <2>2, Numbers DEF HeldBy, BurstInv, StepsOf, Directed, Threads
<1>4. Apart
  BY <1>2, <1>3 DEF DpdkInit, Apart, Threads
<1>5. Cardinality(Lost) = abandoned
  <2>1. Lost = {}
    BY DEF DpdkInit, Lost
  <2>. QED  BY <2>1, FS_EmptySet DEF DpdkInit
<1>6. SendsOwnFrames
  BY DEF DpdkInit, SendsOwnFrames
<1>. QED  BY <1>1, <1>3, <1>4, <1>5, <1>6 DEF DpdkInv, Threads

(* An injective image has as many elements. *)
LEMMA SameNumber ==
  ASSUME NEW S, IsFiniteSet(S), NEW f, f \in [S -> {f[x] : x \in S}],
         \A x, y \in S : f[x] = f[y] => x = y
  PROVE  /\ IsFiniteSet({f[x] : x \in S})
         /\ Cardinality({f[x] : x \in S}) = Cardinality(S)
<1> DEFINE T == {f[x] : x \in S}
<1>1. f \in Surjection(S, T)
  BY DEF Surjection
<1>2. f \in Injection(S, T)
  BY DEF Injection, IsInjective
<1> HIDE DEF T
<1>3. IsFiniteSet(T) /\ Cardinality(T) = Cardinality(S)
  BY <1>1, <1>2, FS_Surjection
<1>. QED  BY <1>3 DEF T

LEMMA LeakInvariant == DpdkInv => OnlyAdvertisementsLeak
<1> SUFFICES ASSUME DpdkInv PROVE OnlyAdvertisementsLeak
  OBVIOUS
<1>0. /\ DpdkTypes /\ BurstInv("tx") /\ BurstInv("rx") /\ Apart
      /\ Cardinality(Lost) = abandoned
  BY DEF DpdkInv
<1>1. InUse = ((txq \cup Received) \cup HeldBy("tx")) \cup HeldBy("rx")
  BY DEF InUse, HeldBy, Threads
<1>2. pool \cap InUse = {}
  BY <1>0, <1>1 DEF Apart
<1>3. Mbufs \ (pool \cup InUse) = Lost
  BY <1>1 DEF Lost
<1>4. IsFiniteSet(txq)
  <2>1. txq \in SUBSET Mbufs
    BY <1>0 DEF DpdkTypes
  <2>. QED  BY <2>1, FS_Subset, TestappDpdkAssumption
<1>5. IsFiniteSet(Received) /\ Cardinality(Received) = Len(rxq)
  <2>1. Len(rxq) \in Nat /\ rxq \in Seq(Mbufs)
    BY <1>0 DEF DpdkTypes
  <2>2. IsFiniteSet(1 .. Len(rxq)) /\ Cardinality(1 .. Len(rxq)) = Len(rxq)
    BY <2>1, FS_Interval, SMTT(30)
  <2> DEFINE f == [k \in 1 .. Len(rxq) |-> rxq[k]]
  <2>3. /\ f \in [1 .. Len(rxq) -> {f[x] : x \in 1 .. Len(rxq)}]
        /\ \A x, y \in 1 .. Len(rxq) : f[x] = f[y] => x = y
        /\ Received = {f[x] : x \in 1 .. Len(rxq)}
    BY <1>0 DEF DpdkTypes, Received
  <2> HIDE DEF f
  <2>. QED  BY <2>2, <2>3, SameNumber
<1>6. ASSUME NEW t \in Threads
      PROVE  IsFiniteSet(HeldBy(t)) /\ Cardinality(HeldBy(t)) = Cardinality(Owned(t))
  <2>1. IsFiniteSet(Owned(t))
    <3>1. IsFiniteSet(Places) /\ Owned(t) \in SUBSET Places
      BY Numbers, FS_Interval DEF Places, Owned
    <3>. QED  BY <3>1, FS_Subset
  <2> DEFINE f == [k \in Owned(t) |-> pkts[t][k]]
  <2>2. /\ f \in [Owned(t) -> {f[x] : x \in Owned(t)}]
        /\ \A x, y \in Owned(t) : f[x] = f[y] => x = y
        /\ HeldBy(t) = {f[x] : x \in Owned(t)}
    BY <1>0 DEF BurstInv, HeldBy, Threads
  <2> HIDE DEF f
  <2>. QED  BY <2>1, <2>2, SameNumber
<1>7. "tx" \in Threads /\ "rx" \in Threads
  BY DEF Threads
<1>8. Cardinality(InUse) = Cardinality(txq) + Len(rxq)
        + Cardinality(Owned("tx")) + Cardinality(Owned("rx"))
  <2>1. /\ txq \cap Received = {} /\ (txq \cup Received) \cap HeldBy("tx") = {}
        /\ ((txq \cup Received) \cup HeldBy("tx")) \cap HeldBy("rx") = {}
    BY <1>0 DEF Apart
  <2>2. ASSUME NEW S, NEW T, IsFiniteSet(S), IsFiniteSet(T), S \cap T = {}
        PROVE  /\ IsFiniteSet(S \cup T)
               /\ Cardinality(S \cup T) = Cardinality(S) + Cardinality(T)
    <3>1. Cardinality(S) \in Nat /\ Cardinality(T) \in Nat
      BY <2>2, FS_CardinalityType
    <3>2. /\ IsFiniteSet(S \cup T)
          /\ Cardinality(S \cup T) = Cardinality(S) + Cardinality(T) - 0
      BY <2>2, FS_Union, FS_EmptySet
    <3>. QED  BY <3>1, <3>2
  <2>3. /\ IsFiniteSet(txq \cup Received)
        /\ Cardinality(txq \cup Received) = Cardinality(txq) + Len(rxq)
    BY <1>4, <1>5, <2>1, <2>2
  <2>6. /\ IsFiniteSet(HeldBy("tx")) /\ IsFiniteSet(HeldBy("rx"))
        /\ Cardinality(HeldBy("tx")) = Cardinality(Owned("tx"))
        /\ Cardinality(HeldBy("rx")) = Cardinality(Owned("rx"))
    BY <1>6, <1>7
  <2> DEFINE A == txq \cup Received
             B == A \cup HeldBy("tx")
  <2> HIDE DEF A
  <2>4. /\ IsFiniteSet(B)
        /\ Cardinality(B) = Cardinality(txq) + Len(rxq) + Cardinality(Owned("tx"))
    <3>1. /\ IsFiniteSet(A) /\ Cardinality(A) = Cardinality(txq) + Len(rxq)
          /\ A \cap HeldBy("tx") = {}
      BY <2>1, <2>3 DEF A
    <3>2. /\ IsFiniteSet(A \cup HeldBy("tx"))
          /\ Cardinality(A \cup HeldBy("tx")) = Cardinality(A) + Cardinality(HeldBy("tx"))
      BY <2>2, <2>6, <3>1
    <3>. QED  BY <2>6, <3>1, <3>2
  <2>5. B \cap HeldBy("rx") = {} /\ InUse = B \cup HeldBy("rx")
    BY <1>1, <2>1 DEF A
  <2> HIDE DEF B
  <2>7. Cardinality(B \cup HeldBy("rx")) = Cardinality(B) + Cardinality(HeldBy("rx"))
    BY <2>2, <2>4, <2>5, <2>6
  <2>. QED  BY <2>4, <2>5, <2>6, <2>7
<1>. QED  BY <1>0, <1>2, <1>3, <1>8 DEF OnlyAdvertisementsLeak

LEMMA DpdkInvariant == Spec => []DpdkInv
<1>1. Init => DpdkInv
  BY DpdkInitially DEF Init
<1>2. DpdkInv
        /\ [Next]_<< command, dpdkVars, clientstVars, socketVars >>
        => DpdkInv'
  BY DpdkStep, DpdkKept DEF Next
<1>. QED  BY <1>1, <1>2, PTL DEF Spec

(* No loop of the DPDK applications loses an mbuf, or frees one twice: the *)
(* only ones in no place are the advertisements that the port refused, for *)
(* any burst, pool and rings, and however the threads interleave.          *)
THEOREM LeakCorrect == Spec => []OnlyAdvertisementsLeak
BY LeakInvariant, DpdkInvariant, PTL

(* The port only sends frames addressed to the peer, and advertisements:   *)
(* dpdk-server never returns a frame that was meant for somebody else.     *)
THEOREM FramesCorrect == Spec => []SendsOwnFrames
<1>1. DpdkInv => SendsOwnFrames
  BY DEF DpdkInv
<1>. QED  BY <1>1, DpdkInvariant, PTL
=============================================================================
