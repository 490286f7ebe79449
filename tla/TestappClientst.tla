-------------------------- MODULE TestappClientst --------------------------
(***************************************************************************)
(* The stop-and-wait clients of src/testapp: clientst (over a UDP or a raw *)
(* socket) and dpdk-clientst.  They send one packet, stamped with the time *)
(* stamp counter, and wait for its return or for 10 ms.                    *)
(*                                                                         *)
(* Two readings of the counter on one core differ, so that a reading       *)
(* advances the clock; how far is left open.  An answer is a frame with    *)
(* the stamp of some request: the network may lose, delay, reorder and     *)
(* duplicate answers.  A frame of another application carries no such      *)
(* stamp.                                                                  *)
(***************************************************************************)
EXTENDS Naturals, Sequences, FiniteSets

CONSTANTS
  Transports,   \* among "udp", "raw", "dpdk"
  Second,       \* tsc_hz, also tsc_out
  MaxDelay,     \* tsc_max_delay
  MaxGap,       \* bound: how far a reading advances the clock
  MaxTime,      \* bound: the last reading
  QueueLen,     \* frames the kernel or the port queue for the application
  PoolSize,     \* mbufs of dpdk-clientst
  TxDescriptors \* mbufs its port may hold for transmission

ASSUME TestappClientstAssumption ==
  /\ Transports \subseteq {"udp", "raw", "dpdk"}
  /\ Second \in Nat \ {0} /\ MaxDelay \in Nat \ {0}
  /\ MaxGap \in Nat \ {0} /\ MaxTime \in Nat
  /\ QueueLen \in Nat /\ PoolSize \in Nat /\ TxDescriptors \in Nat

VARIABLES
  transport,
  now,                                    \* the last reading of the counter
  cpc,                                    \* the next step of main_loop
  tsc_cur, tsc_prev, tsc_last, tsc_pkt,
  num, avg,                               \* stats_period
  queue,                                  \* frames queued for recv
  freeMbufs, inTx, held,                  \* the mbufs: free, given to the
                                          \* port, prepared by the client
  sent                                    \* stamps of the requests sent

tscVars == << tsc_cur, tsc_prev, tsc_last, tsc_pkt >>
mbufVars == << freeMbufs, inTx, held >>
clientstVars == << transport, now, cpc, tscVars, num, avg, queue, mbufVars,
                   sent >>

Dpdk == transport = "dpdk"

(***************************************************************************)
(* What arrives beside answers: nothing on a connected UDP socket, frames  *)
(* for others with DPDK, and on a raw socket also frames too short.        *)
(***************************************************************************)
Answer(s) == [what |-> "answer", stamp |-> s]

Strangers ==
  {[what |-> w, stamp |-> 0] :
     w \in CASE transport = "udp"  -> {}
            [] transport = "dpdk" -> {"foreign"}
            [] transport = "raw"  -> {"foreign", "short"}}

ClientstInit ==
  /\ transport \in Transports
  /\ now = 1 /\ cpc = "top"
  /\ tsc_cur = 1 /\ tsc_prev = 1 /\ tsc_last = 1 /\ tsc_pkt = 0
  /\ num = 0 /\ avg = 0
  /\ queue = << >>
  /\ freeMbufs = PoolSize /\ inTx = 0 /\ held = 0
  /\ sent = {}

(* tsc_get_update *)
Readings == {t \in now + 1 .. now + MaxGap : t <= MaxTime}

-----------------------------------------------------------------------------
(* The network, the server, the kernel or the port (external). *)

AnswerArrives ==
  /\ Len(queue) < QueueLen
  /\ \E f \in {Answer(s) : s \in sent} \cup Strangers :
       queue' = Append(queue, f)
  /\ IF Dpdk THEN freeMbufs > 0 /\ freeMbufs' = freeMbufs - 1
             ELSE UNCHANGED freeMbufs
  /\ UNCHANGED << transport, now, cpc, tscVars, num, avg, inTx, held, sent >>

Transmitted ==
  /\ inTx > 0
  /\ inTx' = inTx - 1 /\ freeMbufs' = freeMbufs + 1
  /\ UNCHANGED << transport, now, cpc, tscVars, num, avg, queue, held, sent >>

-----------------------------------------------------------------------------
(* main_loop *)

Top ==
  /\ cpc = "top"
  /\ \E t \in Readings :
       /\ now' = t /\ tsc_cur' = t
       /\ IF t - tsc_prev > Second
            THEN tsc_prev' = t /\ num' = 0 /\ avg' = 0
            ELSE UNCHANGED << tsc_prev, num, avg >>
  /\ cpc' = IF Dpdk THEN "alloc" ELSE "send"
  /\ UNCHANGED << transport, tsc_last, tsc_pkt, queue, mbufVars, sent >>

(* dpdk-clientst tries until it gets an mbuf. *)
Alloc ==
  /\ cpc = "alloc" /\ freeMbufs > 0
  /\ freeMbufs' = freeMbufs - 1 /\ held' = held + 1
  /\ cpc' = "send"
  /\ UNCHANGED << transport, now, tscVars, num, avg, queue, inTx, sent >>

(* The packet is stamped each time it is offered, until it is accepted.    *)
Offer ==
  /\ cpc = "send"
  /\ \E t \in Readings, accepted \in BOOLEAN :
       /\ now' = t /\ tsc_cur' = t /\ tsc_last' = t
       /\ sent' = IF accepted THEN sent \cup {t} ELSE sent
       /\ IF accepted /\ Dpdk
            THEN /\ inTx < TxDescriptors
                 /\ inTx' = inTx + 1 /\ held' = held - 1
            ELSE UNCHANGED << inTx, held >>
       /\ cpc' = IF accepted THEN "recv" ELSE "send"
  /\ UNCHANGED << transport, tsc_prev, tsc_pkt, num, avg, queue, freeMbufs >>

(* Mutant: any answer ends the wait. *)
AcceptedAny(f) == f.what = "answer"

(* Whether recv's frame is the answer to the last request; a raw socket    *)
(* has no filter, but a foreign frame does not carry the stamp.            *)
Accepted(f) == f.what = "answer" /\ f.stamp = tsc_last

(* The stamp is read if recv took a whole frame, with DPDK one for us.     *)
StampRead(f) ==
  IF f.what = "short" \/ (Dpdk /\ f.what = "foreign") THEN tsc_pkt ELSE f.stamp

(* Mutant: a frame that is not the answer is not freed. *)
ReceiveFreesAnswers ==
  /\ cpc = "recv" /\ queue # << >>
  /\ \E t \in Readings :
       /\ now' = t /\ tsc_cur' = t
       /\ cpc' = IF Accepted(Head(queue)) \/ t - tsc_last >= MaxDelay
                   THEN "count" ELSE "recv"
  /\ tsc_pkt' = StampRead(Head(queue))
  /\ queue' = Tail(queue)
  /\ freeMbufs' = IF Dpdk /\ Accepted(Head(queue)) THEN freeMbufs + 1
                                                  ELSE freeMbufs
  /\ UNCHANGED << transport, tsc_prev, tsc_last, num, avg, inTx, held, sent >>

(* Wait until the answer is there, or 10 ms have passed. *)
Receive ==
  /\ cpc = "recv" /\ queue # << >>
  /\ \E t \in Readings :
       /\ now' = t /\ tsc_cur' = t
       /\ cpc' = IF Accepted(Head(queue)) \/ t - tsc_last >= MaxDelay
                   THEN "count" ELSE "recv"
  /\ tsc_pkt' = StampRead(Head(queue))
  /\ queue' = Tail(queue)
  /\ freeMbufs' = IF Dpdk THEN freeMbufs + 1 ELSE freeMbufs
  /\ UNCHANGED << transport, tsc_prev, tsc_last, num, avg, inTx, held, sent >>

ReceiveNothing ==
  /\ cpc = "recv" /\ queue = << >>
  /\ \E t \in Readings :
       /\ now' = t /\ tsc_cur' = t
       /\ cpc' = IF t - tsc_last >= MaxDelay THEN "count" ELSE "recv"
  /\ UNCHANGED << transport, tsc_prev, tsc_last, tsc_pkt, num, avg, queue,
                  mbufVars, sent >>

(* The clock tells afterwards why the wait ended. *)
InTime == tsc_cur - tsc_last < MaxDelay

(* clientst reads the clock once more, after it has consumed the data.     *)
Count ==
  /\ cpc = "count" /\ InTime
  /\ IF Dpdk THEN UNCHANGED << now, tsc_cur >>
             ELSE \E t \in Readings : now' = t /\ tsc_cur' = t
  /\ avg' = avg + (tsc_cur' - tsc_pkt)
  /\ num' = num + 1
  /\ cpc' = "top"
  /\ UNCHANGED << transport, tsc_prev, tsc_last, tsc_pkt, queue, mbufVars, sent >>

TimedOut ==
  /\ cpc = "count" /\ ~ InTime
  /\ cpc' = "top"
  /\ UNCHANGED << transport, now, tscVars, num, avg, queue, mbufVars, sent >>

ClientstNext ==
  \/ AnswerArrives \/ Transmitted
  \/ Top \/ Alloc \/ Offer \/ Receive \/ ReceiveNothing \/ Count \/ TimedOut

-----------------------------------------------------------------------------
(* Properties. *)

(***************************************************************************)
(* The client counts a delay only if the frame it read last is the answer  *)
(* to the request it sent last: the code decides by the clock alone, after *)
(* the wait, and a late answer to an earlier request, a frame of another   *)
(* application or one too short may have been read just before.            *)
(***************************************************************************)
CountsTheLastRequest ==
  cpc = "count" /\ InTime => tsc_pkt = tsc_last /\ tsc_last \in sent

(* dpdk-clientst loses no mbuf, whatever it receives while it waits.       *)
ClientstKeepsMbufs ==
  Dpdk => freeMbufs + inTx + held + Len(queue) = PoolSize
=============================================================================
