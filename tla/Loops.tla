------------------------------- MODULE Loops -------------------------------
(***************************************************************************)
(* The traffic loops of one testapp-rewrite process (loops.c) against the  *)
(* clock: send_loop, recv_loop, client_loop and tsc_loop as the            *)
(* applications send, recv, client and clientst start them.                *)
(*                                                                         *)
(* The time stamp counter and everything compared with it are numbers; the *)
(* socket, the network and the server are reduced to what the loops see of *)
(* them: how many frames of a burst were accepted, and which frames come,  *)
(* with which stamp, in which order, with the right payload or not.        *)
(***************************************************************************)
EXTENDS Integers, Sequences, FiniteSets

CONSTANTS
  Apps,       \* the applications to consider: send, recv, client, clientst
  Hz,         \* tsc_hz, also tsc_out: the ticks of one second
  Late,       \* tsc_hz / 10
  Rate,       \* conf->rate
  BurstSize,  \* conf->bst_size
  TscRange,   \* tsc_t is an unsigned number below it
  MaxTime,    \* bound: the last tick of a behaviour
  MaxBursts   \* bound: bursts sent in a behaviour

ASSUME LoopsAssumption ==
  /\ Apps \subseteq {"send", "recv", "client", "clientst"}
  /\ Hz \in Nat \ {0} /\ Late \in 1..Hz
  /\ Rate \in Nat \ {0} /\ BurstSize \in Nat \ {0}
  /\ MaxTime \in Nat \ {0} /\ MaxBursts \in Nat
  /\ TscRange \in Nat /\ MaxTime < TscRange

VARIABLES
  app, silent, touch_data,       \* conf->cmdname, conf->silent, conf->touch_data
  now,                           \* what rdtsc returns
  tsc_last,                      \* __tsc_last
  pc,                            \* the next step of each loop
  tsc_prev, tsc_next,            \* the timers of each loop
  burst,                         \* stamps of the burst being prepared
  tx, dropped,                   \* stats_period of send_loop
  total, num,                    \* stats_period of client_loop (avg, num)
  rx,                            \* stats_period of recv_loop
  buffers,                       \* frames received and not measured yet
  net,                           \* frames on their way out or back
  start, dueAt,                  \* history: when the loop that sends began,
                                 \* its clock when it found the burst due
  bursts, handed,                \* history: bursts sent, frames accepted
  good,                          \* history: right payloads received
  saved,                         \* history: what stats_save was given in total
  verdict                        \* history: how the last echo was judged

timers == << tsc_prev, tsc_next >>
history == << start, dueAt, bursts, handed, good, saved, verdict >>
counters == << tx, dropped, rx, total, num >>
conf == << app, silent, touch_data >>
vars == << conf, now, tsc_last, pc, timers, burst, counters, buffers, net,
           history >>

-----------------------------------------------------------------------------
(* Who runs what. *)

Loops == {"send_loop", "recv_loop", "client_loop"}

Runs(l) == app \in CASE l = "send_loop" -> {"send", "client"}
                     [] l = "recv_loop" -> {"recv"}
                     [] l = "client_loop" -> {"client", "clientst"}

(* should_read_tsc *)
ReadsTsc(l) == app # "client"

(* send_in_this_thread; send_loop always sends *)
Sends(l) == l = "send_loop" \/ app = "clientst"

(* should_save_stats of send_loop; the others always save *)
SavesStats(l) == l # "send_loop" \/ app = "send" \/ ~ silent

tsc_incr == (Hz * BurstSize) \div Rate

Clock(l) == IF ReadsTsc(l) THEN now ELSE tsc_last

(* a - b, as tsc_t computes it *)
Minus(a, b) == (a - b) % TscRange

Init ==
  /\ app \in Apps /\ silent \in BOOLEAN /\ touch_data \in BOOLEAN
  /\ now = 1 /\ tsc_last = 0
  /\ pc = [l \in Loops |-> "init"]
  /\ tsc_prev = [l \in Loops |-> 0]
  /\ tsc_next = 0
  /\ burst = << >> /\ buffers = << >> /\ net = {}
  /\ tx = 0 /\ dropped = 0 /\ rx = 0 /\ total = 0 /\ num = 0
  /\ start = 0 /\ dueAt = 0 /\ bursts = 0 /\ handed = 0 /\ good = 0
  /\ saved = [tx |-> 0, dropped |-> 0, rx |-> 0]
  /\ verdict = [negative |-> FALSE, prompt |-> FALSE, counted |-> FALSE]

(* Time passes. *)
Tick ==
  /\ now < MaxTime
  /\ now' = now + 1
  /\ UNCHANGED << conf, tsc_last, pc, timers, burst, counters, buffers,
                  net, history >>

(* Mutant: more than one thread stores into __tsc_last. *)
TscUpdateByMany ==
  /\ app = "client"
  /\ \E t \in 1 .. now : tsc_last' = t
  /\ UNCHANGED << conf, now, pc, timers, burst, counters, buffers,
                  net, history >>

(***************************************************************************)
(* tsc_loop stores what rdtsc returned some time after its previous store: *)
(* it may be preempted between the two.                                    *)
(***************************************************************************)
TscUpdate ==
  /\ app = "client"
  /\ \E t \in tsc_last + 1 .. now : tsc_last' = t
  /\ UNCHANGED << conf, now, pc, timers, burst, counters, buffers,
                  net, history >>

-----------------------------------------------------------------------------
(* What send_loop and client_loop have in common. *)

(* The first reading of the clock; with tsc_loop's, once it has begun. *)
Begin(l) ==
  /\ pc[l] = "init" /\ Runs(l) /\ Clock(l) # 0
  /\ pc' = [pc EXCEPT ![l] = "top"]
  /\ tsc_prev' = [tsc_prev EXCEPT ![l] = Clock(l)]
  /\ IF Sends(l) THEN tsc_next' = Clock(l) /\ start' = Clock(l)
                 ELSE UNCHANGED << tsc_next, start >>
  /\ UNCHANGED << conf, now, tsc_last, burst, counters, buffers, net,
                  dueAt, bursts, handed, good, saved, verdict >>

(* stats_save_reset_tx, stats_save_reset_rx, stats_save_reset_delay        *)
SaveResetTx ==
  /\ saved' = [saved EXCEPT !.tx = @ + tx, !.dropped = @ + dropped]
  /\ tx' = 0 /\ dropped' = 0
  /\ UNCHANGED << rx, total, num >>

SaveResetRx ==
  /\ saved' = [saved EXCEPT !.rx = @ + rx]
  /\ rx' = 0
  /\ UNCHANGED << tx, dropped, total, num >>

SaveResetDelay ==
  /\ total' = 0 /\ num' = 0
  /\ UNCHANGED << tx, dropped, rx, saved >>

(* Mutant: the packets received are saved and not reset. *)
SaveResetNoRx(l) ==
  CASE l = "send_loop"   -> SaveResetTx
    [] l = "recv_loop"   -> /\ saved' = [saved EXCEPT !.rx = @ + rx]
                            /\ UNCHANGED counters
    [] l = "client_loop" -> SaveResetDelay

SaveReset(l) ==
  CASE l = "send_loop"   -> SaveResetTx
    [] l = "recv_loop"   -> SaveResetRx
    [] l = "client_loop" -> SaveResetDelay

Period(l, tsc_cur) ==
  IF Minus(tsc_cur, tsc_prev[l]) > Hz
    THEN /\ IF SavesStats(l) THEN SaveReset(l)
                             ELSE UNCHANGED << counters, saved >>
         /\ tsc_prev' = [tsc_prev EXCEPT ![l] = tsc_cur]
    ELSE UNCHANGED << tsc_prev, counters, saved >>

AfterSending(l) == IF l = "send_loop" THEN "top" ELSE "recv"

(* Mutant: the next burst is not put off when one is sent. *)
DueAgain(l, tsc_cur) ==
  IF tsc_cur > tsc_next /\ Sends(l)
    THEN /\ dueAt' = tsc_cur
         /\ pc' = [pc EXCEPT ![l] = "prepare"]
         /\ UNCHANGED tsc_next
    ELSE /\ pc' = [pc EXCEPT ![l] = AfterSending(l)]
         /\ UNCHANGED << tsc_next, dueAt >>

(***************************************************************************)
(* The client_loop of client counts intervals in a tsc_next of its own,    *)
(* which decides nothing there and is left out.                            *)
(***************************************************************************)
Due(l, tsc_cur) ==
  IF tsc_cur > tsc_next /\ Sends(l)
    THEN /\ tsc_next' = tsc_next + tsc_incr
         /\ dueAt' = tsc_cur
         /\ pc' = [pc EXCEPT ![l] = "prepare"]
    ELSE /\ pc' = [pc EXCEPT ![l] = AfterSending(l)]
         /\ UNCHANGED << tsc_next, dueAt >>

Top(l) ==
  /\ pc[l] = "top"
  /\ Period(l, Clock(l))
  /\ Due(l, Clock(l))
  /\ UNCHANGED << conf, now, tsc_last, burst, buffers, net, start, bursts,
                  handed, good, verdict >>

(* Mutant: the stamp is the clock at the previous statistics. *)
PrepareStale(l) ==
  /\ pc[l] = "prepare" /\ Len(burst) < BurstSize
  /\ burst' = Append(burst, tsc_prev[l])
  /\ UNCHANGED << conf, now, tsc_last, pc, timers, counters, buffers,
                  net, history >>

(* prepare_send_burst: every packet is stamped with __tsc_last. *)
Prepare(l) ==
  /\ pc[l] = "prepare" /\ Len(burst) < BurstSize /\ bursts < MaxBursts
  /\ burst' = Append(burst, tsc_last)
  /\ UNCHANGED << conf, now, tsc_last, pc, timers, counters, buffers,
                  net, history >>

Frame(stamp, sentAt, id) ==
  [stamp |-> stamp, sentAt |-> sentAt, id |-> id, right |-> TRUE]

(* Mutant: an error is not turned into "nothing was sent". *)
SentRaw(res) == res

(* nfv_socket_send, and the accounts of send_loop. *)
Sent(res) == IF res < 0 THEN 0 ELSE res

Send(l) ==
  /\ pc[l] = "prepare" /\ Len(burst) = BurstSize
  /\ \E res \in -1 .. BurstSize :
       /\ net' = net \cup {Frame(burst[k], dueAt, handed + k) : k \in 1..res}
       /\ handed' = handed + (IF res > 0 THEN res ELSE 0)
       /\ IF l = "send_loop"
            THEN /\ tx' = tx + Sent(res)
                 /\ dropped' = dropped + (BurstSize - Sent(res))
            ELSE UNCHANGED << tx, dropped >>
  /\ burst' = << >> /\ dueAt' = 0
  /\ bursts' = bursts + 1
  /\ pc' = [pc EXCEPT ![l] = AfterSending(l)]
  /\ UNCHANGED << conf, now, tsc_last, timers, rx, total, num, buffers, start,
                  good, saved, verdict >>

-----------------------------------------------------------------------------
(* recv_loop and client_loop: what comes back. *)

(* nfv_socket_recv: some of the frames on their way, in any order. *)
Bursts == UNION {[1..n -> net] : n \in 0..BurstSize}

Recv(frames) ==
  /\ \A j, k \in DOMAIN frames : j # k => frames[j] # frames[k]
  /\ net' = net \ {frames[k] : k \in DOMAIN frames}

(* What recv_consume_burst returns: the number of right payloads with -c.  *)
Right(frames) == {k \in DOMAIN frames : frames[k].right}
NumRecv(frames) ==
  IF touch_data THEN Cardinality(Right(frames)) ELSE Len(frames)

RecvLoopReceives ==
  /\ pc["recv_loop"] = "recv"
  /\ \E frames \in Bursts :
       /\ Recv(frames)
       /\ rx' = rx + NumRecv(frames)
       /\ good' = good + Cardinality(Right(frames))
  /\ pc' = [pc EXCEPT !["recv_loop"] = "top"]
  /\ UNCHANGED << conf, now, tsc_last, timers, burst, tx, dropped, total, num,
                  buffers, start, dueAt, bursts, handed, saved, verdict >>

(* The wrong payloads stay in the array: the first NumRecv are measured.   *)
ClientLoopReceives ==
  /\ pc["client_loop"] = "recv"
  /\ \E frames \in Bursts :
       /\ Recv(frames)
       /\ buffers' = SubSeq(frames, 1, NumRecv(frames))
       /\ pc' = [pc EXCEPT !["client_loop"] =
                   IF NumRecv(frames) = 0 THEN "top" ELSE "measure"]
  /\ UNCHANGED << conf, now, tsc_last, timers, burst, counters, history >>

(* How an echo was judged: history for the properties. *)
Verdict(clock, packet, tsc_diff) ==
  [negative |-> clock < packet.stamp,
   prompt   |-> clock - packet.sentAt < Late,
   counted  |-> tsc_diff < Late]

Measure ==
  /\ pc["client_loop"] = "measure"
  /\ LET tsc_cur  == Clock("client_loop")
         packet   == Head(buffers)
         tsc_diff == Minus(tsc_cur, packet.stamp)
     IN  /\ IF tsc_diff < Late
              THEN total' = total + tsc_diff /\ num' = num + 1
              ELSE UNCHANGED << total, num >>
         /\ verdict' = Verdict(tsc_cur, packet, tsc_diff)
  /\ buffers' = Tail(buffers)
  /\ pc' = [pc EXCEPT !["client_loop"] = IF buffers' = << >> THEN "top" ELSE @]
  /\ UNCHANGED << conf, now, tsc_last, timers, burst, tx, dropped, rx, net,
                  start, dueAt, bursts, handed, good, saved >>

(***************************************************************************)
(* The network and the peer (external): frames for recv come from a sender *)
(* elsewhere, any frame may get lost, and with -c one may have a payload   *)
(* that is not the pattern, as when its sender has no -c.                  *)
(***************************************************************************)
Arrive ==
  /\ app = "recv" /\ handed < MaxBursts * BurstSize
  /\ net' = net \cup {Frame(0, 0, handed + 1)}
  /\ handed' = handed + 1
  /\ UNCHANGED << conf, now, tsc_last, pc, timers, burst, counters, buffers,
                  start, dueAt, bursts, good, saved, verdict >>

Lose ==
  /\ \E f \in net : net' = net \ {f}
  /\ UNCHANGED << conf, now, tsc_last, pc, timers, burst, counters, buffers,
                  history >>

Garble ==
  /\ touch_data
  /\ \E f \in net : net' = (net \ {f}) \cup {[f EXCEPT !.right = FALSE]}
  /\ UNCHANGED << conf, now, tsc_last, pc, timers, burst, counters, buffers,
                  history >>

Next ==
  \/ Tick \/ TscUpdate \/ RecvLoopReceives \/ ClientLoopReceives \/ Measure
  \/ Arrive \/ Lose \/ Garble
  \/ \E l \in Loops : Begin(l) \/ Top(l) \/ Prepare(l) \/ Send(l)

Spec == Init /\ [][Next]_vars

-----------------------------------------------------------------------------
(* Properties. *)

Frames == [stamp : 0..now, sentAt : 0..now, id : Nat, right : BOOLEAN]

TypeOK ==
  /\ app \in Apps /\ silent \in BOOLEAN /\ touch_data \in BOOLEAN
  /\ now \in 1..MaxTime /\ tsc_last \in 0..now
  /\ pc \in [Loops -> {"init", "top", "prepare", "recv", "measure"}]
  /\ tsc_prev \in [Loops -> 0..now] /\ tsc_next \in Nat
  /\ burst \in Seq(0..now) /\ Len(burst) <= BurstSize
  /\ tx \in Nat /\ dropped \in Nat /\ rx \in Nat /\ total \in Nat /\ num \in Nat
  /\ net \subseteq Frames /\ buffers \in Seq(Frames)
  /\ start \in 0..now /\ dueAt \in 0..now
  /\ bursts \in Nat /\ handed \in Nat /\ good \in Nat
  /\ saved \in [tx : Nat, dropped : Nat, rx : Nat]
  /\ verdict \in [negative : BOOLEAN, prompt : BOOLEAN, counted : BOOLEAN]

(***************************************************************************)
(* No loop is ever ahead of its rate: when its n-th burst goes out, more   *)
(* than n - 1 intervals have passed since it began, however long it was    *)
(* held up before and however it then catches up (send_loop, client_loop). *)
(***************************************************************************)
NeverAhead ==
  bursts > 0 => start + (bursts - 1) * tsc_incr < now

(***************************************************************************)
(* Every packet of every burst is in the statistics exactly once, as sent  *)
(* or as dropped, also when a burst fails or a period ends between two     *)
(* bursts; every packet that recv takes, or with -c every one with the     *)
(* right payload, is counted exactly once (send_loop, recv_loop,           *)
(* stats_save_reset_tx, stats_save_reset_rx).                              *)
(***************************************************************************)
EveryPacketAccounted ==
  /\ app \in {"send", "client"} =>
       /\ saved.tx + tx = handed
       /\ saved.dropped + dropped = bursts * BurstSize - handed
  /\ saved.rx + rx = good

(* A measured delay is never negative, which would wrap: the clock of the  *)
(* receiving loop has reached the stamp, whatever the three threads do.    *)
DelaysNotNegative == ~ verdict.negative

(***************************************************************************)
(* An echo that is back within a tenth of a second, by the clocks that its *)
(* sender and its receiver read, is counted (loops.c: "packets with more   *)
(* than 0.1s delay are considered dropped").                               *)
(***************************************************************************)
PromptEchoesCount == verdict.prompt => verdict.counted

ClientCountsPromptEchoes == app = "client" => PromptEchoesCount
=============================================================================
