---------------------------- MODULE LoopsProofs ----------------------------
(***************************************************************************)
(* For every rate, burst size and number of ticks: the loops keep their    *)
(* types, never get ahead of their rate, count every packet once, and      *)
(* never measure a negative delay nor miss a prompt echo.                  *)
(***************************************************************************)
EXTENDS Loops, SequenceTheorems, FiniteSetTheorems, TLAPS

USE LoopsAssumption

LEMMA IncrIsNat == tsc_incr \in Nat
  BY DEF tsc_incr

LEMMA MinusIsNat ==
  ASSUME NEW a \in Int, NEW b \in Int
  PROVE  Minus(a, b) \in Nat
  BY DEF Minus

LEMMA MinusSmall ==
  ASSUME NEW a \in 0..MaxTime, NEW b \in 0..MaxTime, b <= a
  PROVE  Minus(a, b) = a - b
<1>1. a - b \in Nat /\ a - b < TscRange
  OBVIOUS
<1>. QED  BY <1>1 DEF Minus

(* What recv_consume_burst hands over, and how many of it are right.       *)
LEMMA BurstsAreSeqs ==
  ASSUME NEW frames \in Bursts
  PROVE  frames \in Seq(net) /\ DOMAIN frames = 1..Len(frames)
<1>1. PICK n \in 0..BurstSize : frames \in [1..n -> net]
  BY DEF Bursts
<1>. QED  BY <1>1

LEMMA RightCounts ==
  ASSUME NEW frames \in Bursts
  PROVE  /\ Cardinality(Right(frames)) \in 0..Len(frames)
         /\ (\A f \in net : f.right) => Cardinality(Right(frames)) = Len(frames)
<1>1. frames \in Seq(net) /\ DOMAIN frames = 1..Len(frames)
  BY BurstsAreSeqs
<1>2. Len(frames) \in Nat
  BY <1>1
<1>3. IsFiniteSet(1..Len(frames)) /\ Cardinality(1..Len(frames)) = Len(frames)
  <2>. DEFINE n == Len(frames)
  <2>1. n \in Int /\ 1 \in Int
    BY <1>2
  <2>2. IF 1 > n THEN n = 0 ELSE n = n - 1 + 1
    BY <1>2
  <2>. HIDE DEF n
  <2>3. /\ IsFiniteSet(1..n)
        /\ Cardinality(1..n) = IF 1 > n THEN 0 ELSE n - 1 + 1
    BY <2>1, FS_Interval, Zenon
  <2>4. IsFiniteSet(1..n) /\ Cardinality(1..n) = n
    BY <2>2, <2>3
  <2>. QED  BY <2>4 DEF n
<1>4. Right(frames) \in SUBSET (1..Len(frames))
  BY <1>1 DEF Right
<1>5. Cardinality(Right(frames)) <= Len(frames) /\ IsFiniteSet(Right(frames))
  BY <1>3, <1>4, FS_Subset
<1>6. Cardinality(Right(frames)) \in Nat
  BY <1>5, FS_CardinalityType
<1>7. ASSUME \A f \in net : f.right PROVE Right(frames) = 1..Len(frames)
  BY <1>1, <1>7 DEF Right
<1>. QED  BY <1>2, <1>3, <1>5, <1>6, <1>7

LEMMA NumRecvCounts ==
  ASSUME NEW frames \in Bursts
  PROVE  /\ NumRecv(frames) \in 0..Len(frames)
         /\ ((\A f \in net : f.right) \/ touch_data)
              => NumRecv(frames) = Cardinality(Right(frames))
<1>1. frames \in Seq(net)
  BY BurstsAreSeqs
<1>2. Len(frames) \in Nat
  BY <1>1
<1>. QED  BY <1>2, RightCounts DEF NumRecv

-----------------------------------------------------------------------------
(* Types. *)

(* A frame stays one when time passes. *)
LEMMA FramesStay ==
  ASSUME NEW t \in Nat, NEW u \in Nat, t <= u
  PROVE  [stamp : 0..t, sentAt : 0..t, id : Nat, right : BOOLEAN]
           \subseteq [stamp : 0..u, sentAt : 0..u, id : Nat, right : BOOLEAN]
<1>1. 0..t \subseteq 0..u
  OBVIOUS
<1>. QED  BY <1>1

LEMMA InitType == Init => TypeOK
<1> SUFFICES ASSUME Init PROVE TypeOK
  OBVIOUS
<1>1. burst \in Seq(0..now) /\ Len(burst) <= BurstSize /\ buffers \in Seq(Frames)
  BY DEF Init
<1>2. /\ pc \in [Loops -> {"init", "top", "prepare", "recv", "measure"}]
      /\ tsc_prev \in [Loops -> 0..now]
  BY DEF Init
<1>. QED  BY <1>1, <1>2 DEF Init, TypeOK, Loops

LEMMA ClockType ==
  ASSUME TypeOK, NEW l
  PROVE  Clock(l) \in 0..now
  BY DEF TypeOK, Clock

(* client_loop measures only while it has a packet to measure.             *)
MeasuresSome == pc["client_loop"] = "measure" => buffers # << >>

LEMMA NextType == TypeOK /\ MeasuresSome /\ [Next]_vars => TypeOK'
<1> SUFFICES ASSUME TypeOK, MeasuresSome, [Next]_vars PROVE TypeOK'
  OBVIOUS
<1> USE DEF conf, timers, counters, history
<1>1. CASE Tick
  <2>1. now' = now + 1 /\ now' \in 1..MaxTime /\ 0..now \subseteq 0..now'
    BY <1>1 DEF Tick, TypeOK
  <2>2. Frames \subseteq Frames'
    <3>1. now \in Nat /\ now' \in Nat /\ now <= now'
      BY <2>1 DEF TypeOK
    <3>. QED  BY <3>1, FramesStay DEF Frames
  <2>3. burst \in Seq(0..now') /\ buffers \in Seq(Frames')
    BY <2>1, <2>2 DEF TypeOK
  <2>4. /\ UNCHANGED << app, silent, touch_data, tsc_last, pc, tsc_prev >>
        /\ UNCHANGED << tsc_next, burst, tx, dropped, rx, total, num >>
        /\ UNCHANGED << buffers, net, start, dueAt, bursts, handed, good >>
        /\ UNCHANGED << saved, verdict >>
    BY <1>1 DEF Tick
  <2>5. /\ tsc_prev \in [Loops -> 0..now'] /\ tsc_last \in 0..now'
        /\ start \in 0..now' /\ dueAt \in 0..now' /\ net \subseteq Frames'
    BY <2>1, <2>2 DEF TypeOK
  <2>. QED  BY <2>1, <2>3, <2>4, <2>5 DEF TypeOK
<1>2. CASE TscUpdate
  BY <1>2 DEF TscUpdate, TypeOK, Frames
<1>3. ASSUME NEW l \in Loops, Begin(l) PROVE TypeOK'
  <2>1. Clock(l) \in 0..now
    BY ClockType
  <2>2. /\ pc' = [pc EXCEPT ![l] = "top"]
        /\ tsc_prev' = [tsc_prev EXCEPT ![l] = Clock(l)]
        /\ tsc_next' \in {tsc_next, Clock(l)} /\ start' \in {start, Clock(l)}
    BY <1>3 DEF Begin
  <2>3. /\ pc' \in [Loops -> {"init", "top", "prepare", "recv", "measure"}]
        /\ tsc_prev' \in [Loops -> 0..now]
        /\ tsc_next' \in Nat /\ start' \in 0..now
    BY <2>1, <2>2 DEF TypeOK
  <2>. QED  BY <1>3, <2>3 DEF Begin, TypeOK, Frames
<1>4. ASSUME NEW l \in Loops, Top(l) PROVE TypeOK'
  <2>1. Clock(l) \in 0..now
    BY ClockType
  <2>2. /\ UNCHANGED << app, silent, touch_data, now, tsc_last, burst >>
        /\ UNCHANGED << buffers, net, start, bursts, handed, good, verdict >>
        /\ Period(l, Clock(l)) /\ Due(l, Clock(l))
    BY <1>4 DEF Top
  <2>3. /\ tx' \in Nat /\ dropped' \in Nat /\ rx' \in Nat
        /\ total' \in Nat /\ num' \in Nat
        /\ saved' \in [tx : Nat, dropped : Nat, rx : Nat]
        /\ tsc_prev' \in [Loops -> 0..now]
    <3>1. CASE UNCHANGED << counters, saved >>
      <4>1. tsc_prev' \in [Loops -> 0..now]
        BY <2>1, <2>2 DEF Period, TypeOK
      <4>. QED  BY <3>1, <4>1 DEF TypeOK
    <3>2. CASE /\ SaveReset(l)
               /\ tsc_prev' = [tsc_prev EXCEPT ![l] = Clock(l)]
      <4>1. tsc_prev' \in [Loops -> 0..now]
        BY <2>1, <3>2 DEF TypeOK
      <4>2. \/ l = "send_loop" /\ SaveResetTx
            \/ l = "recv_loop" /\ SaveResetRx
            \/ l = "client_loop" /\ SaveResetDelay
        BY <3>2 DEF SaveReset, Loops
      <4>3. /\ saved \in [tx : Nat, dropped : Nat, rx : Nat]
            /\ tx \in Nat /\ dropped \in Nat /\ rx \in Nat
            /\ total \in Nat /\ num \in Nat
        BY DEF TypeOK
      <4>4. CASE SaveResetTx
        <5>1. saved.tx + tx \in Nat /\ saved.dropped + dropped \in Nat
          BY <4>3
        <5>2. saved' \in [tx : Nat, dropped : Nat, rx : Nat]
          BY <4>3, <4>4, <5>1 DEF SaveResetTx
        <5>. QED  BY <4>1, <4>3, <4>4, <5>2 DEF SaveResetTx
      <4>5. CASE SaveResetRx
        <5>1. saved.rx + rx \in Nat
          BY <4>3
        <5>2. saved' \in [tx : Nat, dropped : Nat, rx : Nat]
          BY <4>3, <4>5, <5>1 DEF SaveResetRx
        <5>. QED  BY <4>1, <4>3, <4>5, <5>2 DEF SaveResetRx
      <4>6. CASE SaveResetDelay
        BY <4>1, <4>3, <4>6 DEF SaveResetDelay
      <4>. QED  BY <4>2, <4>4, <4>5, <4>6
    <3>. QED  BY <2>2, <3>1, <3>2 DEF Period
  <2>4. /\ tsc_next' \in Nat /\ dueAt' \in 0..now
        /\ pc' \in [Loops -> {"init", "top", "prepare", "recv", "measure"}]
    BY <2>1, <2>2, IncrIsNat, SMTT(30) DEF Due, AfterSending, TypeOK
  <2>. QED  BY <2>2, <2>3, <2>4 DEF TypeOK, Frames
<1>5. ASSUME NEW l \in Loops, Prepare(l) PROVE TypeOK'
  <2>1. burst \in Seq(0..now) /\ tsc_last \in 0..now
    BY DEF TypeOK
  <2>2. burst' = Append(burst, tsc_last) /\ Len(burst) < BurstSize
    BY <1>5 DEF Prepare
  <2>3. burst' \in Seq(0..now) /\ Len(burst') <= BurstSize
    BY <2>1, <2>2
  <2>. QED  BY <1>5, <2>3 DEF Prepare, TypeOK, Frames
<1>6. ASSUME NEW l \in Loops, Send(l) PROVE TypeOK'
  <2>1. PICK res \in -1 .. BurstSize :
          /\ net' = net \cup {Frame(burst[k], dueAt, handed + k) : k \in 1..res}
          /\ handed' = handed + (IF res > 0 THEN res ELSE 0)
          /\ IF l = "send_loop"
               THEN /\ tx' = tx + Sent(res)
                    /\ dropped' = dropped + (BurstSize - Sent(res))
               ELSE UNCHANGED << tx, dropped >>
    BY <1>6 DEF Send
  <2>2. burst \in Seq(0..now) /\ Len(burst) = BurstSize
    BY <1>6 DEF Send, TypeOK
  <2>3. \A k \in 1..res : burst[k] \in 0..now
    <3>1. \A k \in 1..res : k \in 1..Len(burst)
      BY <2>2
    <3>. QED  BY <2>2, <3>1, ElementOfSeq
  <2>4. net' \subseteq Frames
    <3>1. ASSUME NEW k \in 1..res PROVE Frame(burst[k], dueAt, handed + k) \in Frames
      <4>1. handed + k \in Nat /\ burst[k] \in 0..now /\ dueAt \in 0..now
        BY <2>3 DEF TypeOK
      <4>. QED  BY <4>1 DEF Frames, Frame
    <3>2. net \subseteq Frames
      BY DEF TypeOK
    <3>. QED  BY <2>1, <3>1, <3>2
  <2>5. handed' \in Nat /\ tx' \in Nat /\ dropped' \in Nat
    BY <2>1 DEF TypeOK, Sent
  <2>6. /\ burst' = << >> /\ dueAt' = 0 /\ bursts' = bursts + 1
        /\ pc' = [pc EXCEPT ![l] = AfterSending(l)]
        /\ UNCHANGED << app, silent, touch_data, now, tsc_last, tsc_prev >>
        /\ UNCHANGED << tsc_next, rx, total, num, buffers, start, good >>
        /\ UNCHANGED << saved, verdict >>
    BY <1>6 DEF Send
  <2>7. burst' \in Seq(0..now) /\ Len(burst') <= BurstSize
    BY <2>6
  <2>8. pc' \in [Loops -> {"init", "top", "prepare", "recv", "measure"}]
    BY <2>6 DEF TypeOK, AfterSending
  <2>. QED  BY <2>4, <2>5, <2>6, <2>7, <2>8 DEF TypeOK, Frames
<1>7. CASE RecvLoopReceives
  <2>1. PICK frames \in Bursts :
          /\ net' = net \ {frames[k] : k \in DOMAIN frames}
          /\ rx' = rx + NumRecv(frames)
          /\ good' = good + Cardinality(Right(frames))
    BY <1>7 DEF RecvLoopReceives, Recv
  <2>2. NumRecv(frames) \in Nat /\ Cardinality(Right(frames)) \in Nat
    BY NumRecvCounts, RightCounts, BurstsAreSeqs
  <2>3. /\ pc' = [pc EXCEPT !["recv_loop"] = "top"]
        /\ UNCHANGED << app, silent, touch_data, now, tsc_last, tsc_prev >>
        /\ UNCHANGED << tsc_next, burst, tx, dropped, total, num, buffers >>
        /\ UNCHANGED << start, dueAt, bursts, handed, saved, verdict >>
    BY <1>7 DEF RecvLoopReceives
  <2>4. rx' \in Nat /\ good' \in Nat /\ net' \subseteq Frames
    BY <2>1, <2>2 DEF TypeOK
  <2>. QED  BY <2>3, <2>4 DEF TypeOK, Frames
<1>8. CASE ClientLoopReceives
  <2>1. PICK frames \in Bursts :
          /\ net' = net \ {frames[k] : k \in DOMAIN frames}
          /\ buffers' = SubSeq(frames, 1, NumRecv(frames))
          /\ pc' = [pc EXCEPT !["client_loop"] =
                      IF NumRecv(frames) = 0 THEN "top" ELSE "measure"]
    BY <1>8 DEF ClientLoopReceives, Recv
  <2>2. frames \in Seq(Frames) /\ NumRecv(frames) \in 0..Len(frames)
    BY BurstsAreSeqs, NumRecvCounts DEF TypeOK
  <2>3. buffers' \in Seq(Frames)
    BY <2>1, <2>2, SubSeqProperties
  <2>. QED  BY <1>8, <2>1, <2>3 DEF ClientLoopReceives, TypeOK, Frames
<1>9. CASE Measure
  <2> DEFINE packet == Head(buffers)
  <2> DEFINE tsc_cur == Clock("client_loop")
  <2> DEFINE tsc_diff == Minus(tsc_cur, packet.stamp)
  <2>1. buffers \in Seq(Frames) /\ buffers # << >>
    BY <1>9 DEF Measure, TypeOK, MeasuresSome
  <2>2. packet \in Frames /\ Tail(buffers) \in Seq(Frames)
    BY <2>1, HeadTailProperties
  <2>3. packet.stamp \in Int /\ tsc_cur \in Int
    BY <2>2, ClockType DEF Frames
  <2>4. tsc_diff \in Nat
    BY <2>3, MinusIsNat
  <2>5. /\ \/ total' = total + tsc_diff /\ num' = num + 1
           \/ UNCHANGED << total, num >>
        /\ verdict' = Verdict(tsc_cur, packet, tsc_diff)
        /\ buffers' = Tail(buffers)
        /\ pc' = [pc EXCEPT !["client_loop"] =
                     IF buffers' = << >> THEN "top" ELSE @]
        /\ UNCHANGED << app, silent, touch_data, now, tsc_last, tsc_prev >>
        /\ UNCHANGED << tsc_next, burst, tx, dropped, rx, net, start, dueAt >>
        /\ UNCHANGED << bursts, handed, good, saved >>
    BY <1>9 DEF Measure
  <2> HIDE DEF tsc_cur, packet, tsc_diff
  <2>6. total' \in Nat /\ num' \in Nat /\ buffers' \in Seq(Frames)
    BY <2>2, <2>4, <2>5, SMTT(30) DEF TypeOK
  <2>7. verdict' \in [negative : BOOLEAN, prompt : BOOLEAN, counted : BOOLEAN]
    BY <2>5 DEF Verdict
  <2>8. pc' \in [Loops -> {"init", "top", "prepare", "recv", "measure"}]
    BY <2>5 DEF TypeOK
  <2>. QED  BY <2>5, <2>6, <2>7, <2>8 DEF TypeOK, Frames
<1>10. CASE Arrive
  <2>1. handed + 1 \in Nat /\ 0 \in 0..now
    BY DEF TypeOK
  <2>2. Frame(0, 0, handed + 1) \in Frames
    BY <2>1 DEF Frame, Frames
  <2>3. net' \subseteq Frames /\ handed' \in Nat
    BY <1>10, <2>1, <2>2 DEF Arrive, TypeOK
  <2>. QED  BY <1>10, <2>3 DEF Arrive, TypeOK, Frames
<1>11. CASE Lose
  BY <1>11 DEF Lose, TypeOK, Frames
<1>12. CASE Garble
  BY <1>12 DEF Garble, TypeOK, Frames
<1>13. CASE UNCHANGED vars
  BY <1>13 DEF vars, TypeOK, Frames
<1>. QED  BY <1>1, <1>2, <1>3, <1>4, <1>5, <1>6, <1>7, <1>8, <1>9, <1>10,
             <1>11, <1>12, <1>13 DEF Next

-----------------------------------------------------------------------------
(***************************************************************************)
(* The pace.  One loop of an application sends, and only it prepares a     *)
(* burst.  Its timer tsc_next counts whole intervals since it began: as    *)
(* many as it has sent bursts, and one more while it prepares the next,    *)
(* which it has found due by a clock that time has since reached.          *)
(***************************************************************************)
Pacer == IF app = "clientst" THEN "client_loop" ELSE "send_loop"

Preparing == IF pc[Pacer] = "prepare" THEN 1 ELSE 0

Pace ==
  /\ \A l \in Loops : pc[l] # "init" => Runs(l)
  /\ \A l \in Loops : pc[l] = "prepare" => l = Pacer
  /\ pc["send_loop"] # "recv" /\ pc["send_loop"] # "measure"
  /\ pc["recv_loop"] # "measure"
  /\ MeasuresSome
  /\ IF pc[Pacer] = "init"
       THEN bursts = 0
       ELSE tsc_next = start + (bursts + Preparing) * tsc_incr
  /\ pc[Pacer] = "prepare" => start + bursts * tsc_incr < dueAt
  /\ NeverAhead

LEMMA OneMore ==
  ASSUME NEW a \in Nat, NEW b \in Nat
  PROVE  (a + 1) * b = a * b + b
  OBVIOUS

LEMMA InitPace == Init => Pace
  BY DEF Init, Pace, NeverAhead, Loops, Pacer, MeasuresSome

LEMMA PacerSends ==
  ASSUME NEW l \in Loops, Runs(l)
  PROVE  Sends(l) <=> l = Pacer
  BY DEF Loops, Runs, Sends, Pacer

LEMMA NextPace == TypeOK /\ Pace /\ [Next]_vars => Pace'
<1> SUFFICES ASSUME TypeOK, Pace, [Next]_vars PROVE Pace'
  OBVIOUS
<1> USE DEF conf, timers, history
<1>0. /\ Pacer \in Loops /\ tsc_incr \in Nat
      /\ pc \in [Loops -> {"init", "top", "prepare", "recv", "measure"}]
      /\ bursts \in Nat /\ start \in Nat /\ dueAt \in 0..now /\ now \in Nat
      /\ tsc_next \in Nat
  BY IncrIsNat DEF TypeOK, Pacer, Loops
<1>1. ASSUME UNCHANGED << app, pc, buffers, bursts, tsc_next, start, dueAt >>,
             now <= now', now' \in Nat
      PROVE  Pace'
  <2>1. Pacer' = Pacer /\ \A l \in Loops : Runs(l)' <=> Runs(l)
    BY <1>1 DEF Pacer, Runs
  <2>2. tsc_incr' = tsc_incr
    BY DEF tsc_incr
  <2>3. Preparing' = Preparing
    BY <1>1, <2>1 DEF Preparing
  <2>4. bursts > 0 => start + (bursts - 1) * tsc_incr < now'
    <3> DEFINE sofar == (bursts - 1) * tsc_incr
    <3>1. bursts > 0 => sofar \in Int /\ start + sofar < now
      BY <1>0 DEF Pace, NeverAhead
    <3> HIDE DEF sofar
    <3>2. bursts > 0 => start + sofar < now'
      BY <1>0, <1>1, <3>1
    <3>. QED  BY <3>2 DEF sofar
  <2>. QED  BY <1>1, <2>1, <2>2, <2>3, <2>4 DEF Pace, NeverAhead, MeasuresSome
<1>2. ASSUME NEW l \in Loops, Begin(l) PROVE Pace'
  <2>1. /\ pc[l] = "init" /\ Runs(l) /\ pc' = [pc EXCEPT ![l] = "top"]
        /\ UNCHANGED << app, now, buffers, bursts, dueAt >>
        /\ IF Sends(l) THEN tsc_next' = Clock(l) /\ start' = Clock(l)
                       ELSE UNCHANGED << tsc_next, start >>
    BY <1>2 DEF Begin
  <2>2. Pacer' = Pacer /\ \A k \in Loops : Runs(k)' <=> Runs(k)
    BY <2>1 DEF Pacer, Runs
  <2>3. tsc_incr' = tsc_incr
    BY DEF tsc_incr
  <2>4. CASE l = Pacer
    <3>1. Sends(l) /\ Clock(l) \in Nat
      BY <2>1, <2>4, PacerSends, ClockType, <1>0
    <3>2. bursts = 0 /\ tsc_next' = start' /\ start' \in Nat
      BY <2>1, <2>4, <3>1 DEF Pace
    <3>3. pc'[Pacer'] = "top" /\ Preparing' = 0
      BY <1>0, <2>1, <2>2, <2>4 DEF Preparing
    <3>4. tsc_next' = start' + (bursts' + Preparing') * tsc_incr'
      <4>1. bursts' + Preparing' = 0 /\ 0 * tsc_incr = 0
        BY <1>0, <2>1, <3>2, <3>3
      <4>. QED  BY <2>3, <3>2, <4>1
    <3>5. /\ \A k \in Loops : k # l => pc'[k] = pc[k]
          /\ pc'[l] = "top" /\ bursts' = 0
      BY <1>0, <2>1, <3>2
    <3>. QED  BY <1>0, <2>1, <2>2, <3>3, <3>4, <3>5
              DEF Pace, NeverAhead, MeasuresSome, Loops
  <2>5. CASE l # Pacer
    <3>1. ~ Sends(l)
      BY <2>1, <2>5, PacerSends
    <3>2. pc'[Pacer'] = pc[Pacer] /\ Preparing' = Preparing
      BY <1>0, <2>1, <2>2, <2>5 DEF Preparing
    <3>. QED  BY <1>0, <2>1, <2>2, <2>3, <3>1, <3>2
              DEF Pace, NeverAhead, MeasuresSome
  <2>. QED  BY <2>4, <2>5
<1>3. ASSUME NEW l \in Loops, Top(l) PROVE Pace'
  <2>1. /\ pc[l] = "top" /\ Due(l, Clock(l))
        /\ UNCHANGED << app, now, buffers, bursts, start >>
    BY <1>3 DEF Top
  <2>2. Pacer' = Pacer /\ \A k \in Loops : Runs(k)' <=> Runs(k)
    BY <2>1 DEF Pacer, Runs
  <2>3. tsc_incr' = tsc_incr
    BY DEF tsc_incr
  <2>4. Runs(l)
    BY <2>1 DEF Pace
  <2>5. CASE Clock(l) > tsc_next /\ Sends(l)
    <3>1. /\ tsc_next' = tsc_next + tsc_incr /\ dueAt' = Clock(l)
          /\ pc' = [pc EXCEPT ![l] = "prepare"]
      BY <2>1, <2>5 DEF Due
    <3>2. l = Pacer
      BY <2>4, <2>5, PacerSends
    <3>3. tsc_next = start + bursts * tsc_incr
      BY <1>0, <2>1, <3>2 DEF Pace, Preparing
    <3>4. pc'[Pacer'] = "prepare" /\ Preparing' = 1
      BY <1>0, <2>2, <3>1, <3>2 DEF Preparing
    <3>5. (bursts + 1) * tsc_incr = bursts * tsc_incr + tsc_incr
      BY <1>0, OneMore
    <3> DEFINE sofar == bursts * tsc_incr
    <3>6. sofar \in Nat
      BY <1>0
    <3>7. tsc_next' = start' + (bursts' + Preparing') * tsc_incr'
      <4>1. (bursts' + Preparing') * tsc_incr' = sofar + tsc_incr
        BY <2>1, <2>3, <3>4, <3>5
      <4> HIDE DEF sofar
      <4>. QED  BY <1>0, <2>1, <3>1, <3>3, <3>6, <4>1 DEF sofar
    <3>8. start' + bursts' * tsc_incr' < dueAt'
      BY <2>1, <2>3, <2>5, <3>1, <3>3
    <3>. QED  BY <1>0, <2>1, <2>2, <2>3, <3>1, <3>2, <3>4, <3>7, <3>8
              DEF Pace, NeverAhead, MeasuresSome, Pacer
  <2>6. CASE ~ (Clock(l) > tsc_next /\ Sends(l))
    <3>1. /\ UNCHANGED << tsc_next, dueAt >>
          /\ pc' = [pc EXCEPT ![l] = AfterSending(l)]
      BY <2>1, <2>6 DEF Due
    <3>2. AfterSending(l) \in {"top", "recv"}
      BY DEF AfterSending
    <3>3. /\ Preparing' = Preparing /\ (pc'[Pacer'] = "init" <=> pc[Pacer] = "init")
          /\ (pc'[Pacer'] = "prepare" <=> pc[Pacer] = "prepare")
      BY <1>0, <2>1, <2>2, <3>1, <3>2 DEF Preparing
    <3>4. /\ \A k \in Loops : /\ pc'[k] = "init" <=> pc[k] = "init"
                              /\ pc'[k] = "prepare" <=> pc[k] = "prepare"
                              /\ pc'[k] = "measure" <=> pc[k] = "measure"
          /\ pc'["send_loop"] # "recv"
      BY <1>0, <2>1, <3>1, <3>2 DEF AfterSending, Pace, Loops
    <3>. QED  BY <1>0, <2>1, <2>2, <2>3, <3>1, <3>3, <3>4
              DEF Pace, NeverAhead, MeasuresSome, Loops
  <2>. QED  BY <2>5, <2>6
<1>4. ASSUME NEW l \in Loops, Send(l) PROVE Pace'
  <2>1. /\ pc[l] = "prepare" /\ pc' = [pc EXCEPT ![l] = AfterSending(l)]
        /\ bursts' = bursts + 1 /\ dueAt' = 0
        /\ UNCHANGED << app, now, tsc_next, buffers, start >>
    BY <1>4 DEF Send
  <2>2. Pacer' = Pacer /\ \A k \in Loops : Runs(k)' <=> Runs(k)
    BY <2>1 DEF Pacer, Runs
  <2>3. tsc_incr' = tsc_incr
    BY DEF tsc_incr
  <2>4. l = Pacer /\ Preparing = 1
    BY <2>1 DEF Pace, Preparing
  <2>5. AfterSending(l) \in {"top", "recv"}
    BY DEF AfterSending
  <2>6. pc'[Pacer'] \in {"top", "recv"} /\ Preparing' = 0
    BY <1>0, <2>1, <2>2, <2>4, <2>5 DEF Preparing
  <2>7. tsc_next' = start' + (bursts' + Preparing') * tsc_incr'
    <3>1. tsc_next = start + (bursts + 1) * tsc_incr
      BY <2>1, <2>4 DEF Pace
    <3>. QED  BY <1>0, <2>1, <2>3, <2>6, <3>1
  <2>8. start' + (bursts' - 1) * tsc_incr' < now'
    <3>1. start + bursts * tsc_incr < dueAt
      BY <2>1, <2>4 DEF Pace
    <3>2. bursts' - 1 = bursts
      BY <1>0, <2>1
    <3> DEFINE sofar == bursts * tsc_incr
    <3>3. sofar \in Nat
      BY <1>0
    <3>4. (bursts' - 1) * tsc_incr' = sofar
      BY <2>3, <3>2
    <3> HIDE DEF sofar
    <3>. QED  BY <1>0, <2>1, <3>1, <3>3, <3>4 DEF sofar
  <2>9. \A k \in Loops : k # l => pc'[k] = pc[k]
    BY <1>0, <2>1
  <2>10. \A k \in Loops : pc'[k] # "prepare"
    BY <1>0, <2>1, <2>4, <2>5, <2>9 DEF Pace
  <2>11. /\ pc'["send_loop"] # "recv" /\ pc'["send_loop"] # "measure"
         /\ pc'["recv_loop"] # "measure"
         /\ pc'["client_loop"] = "measure" => pc["client_loop"] = "measure"
    BY <1>0, <2>1, <2>5, <2>9 DEF Pace, AfterSending, Loops
  <2>. QED  BY <1>0, <2>1, <2>2, <2>4, <2>6, <2>7, <2>8, <2>9, <2>10, <2>11
            DEF Pace, NeverAhead, MeasuresSome
<1>5. ASSUME NEW k \in Loops, pc[k] \in {"recv", "measure"},
             pc' \in {[pc EXCEPT ![k] = "top"], [pc EXCEPT ![k] = "measure"]},
             pc'[k] = "measure" => k = "client_loop" /\ buffers' # << >>,
             k # "client_loop" => UNCHANGED buffers,
             UNCHANGED << app, now, bursts, tsc_next, start, dueAt >>
      PROVE  Pace'
  <2>1. Pacer' = Pacer /\ \A l \in Loops : Runs(l)' <=> Runs(l)
    BY <1>5 DEF Pacer, Runs
  <2>2. tsc_incr' = tsc_incr
    BY DEF tsc_incr
  <2>3. \A l \in Loops : /\ pc'[l] = "init" <=> pc[l] = "init"
                         /\ pc'[l] = "prepare" <=> pc[l] = "prepare"
                         /\ l # k => pc'[l] = pc[l]
    BY <1>0, <1>5
  <2>4. Preparing' = Preparing
    BY <1>0, <2>1, <2>3 DEF Preparing
  <2>5. /\ pc'["send_loop"] # "recv" /\ pc'["send_loop"] # "measure"
        /\ pc'["recv_loop"] # "measure" /\ MeasuresSome'
    BY <1>0, <1>5, <2>3 DEF Pace, MeasuresSome, Loops
  <2>. QED  BY <1>0, <1>5, <2>1, <2>2, <2>3, <2>4, <2>5 DEF Pace, NeverAhead
<1>6. CASE Tick
  BY <1>0, <1>1, <1>6 DEF Tick
<1>7. CASE TscUpdate
  BY <1>0, <1>1, <1>7 DEF TscUpdate
<1>8. ASSUME NEW l \in Loops, Prepare(l) PROVE Pace'
  BY <1>0, <1>1, <1>8 DEF Prepare
<1>9. CASE RecvLoopReceives
  BY <1>0, <1>5, <1>9 DEF RecvLoopReceives, Loops
<1>10. CASE ClientLoopReceives
  <2>1. PICK frames \in Bursts :
          /\ buffers' = SubSeq(frames, 1, NumRecv(frames))
          /\ pc' = [pc EXCEPT !["client_loop"] =
                      IF NumRecv(frames) = 0 THEN "top" ELSE "measure"]
    BY <1>10 DEF ClientLoopReceives
  <2>2. /\ pc["client_loop"] = "recv"
        /\ UNCHANGED << app, now, bursts, tsc_next, start, dueAt >>
    BY <1>10 DEF ClientLoopReceives
  <2>3. frames \in Seq(net) /\ NumRecv(frames) \in 0..Len(frames)
    BY BurstsAreSeqs, NumRecvCounts
  <2>4. NumRecv(frames) # 0 => buffers' # << >>
    <3> SUFFICES ASSUME NumRecv(frames) # 0 PROVE Len(buffers') # 0
      BY EmptySeq
    <3>1. Len(buffers') = NumRecv(frames)
      BY <2>1, <2>3, SubSeqProperties
    <3>. QED  BY <3>1
  <2>. QED  BY <1>0, <1>5, <2>1, <2>2, <2>4 DEF Loops
<1>11. CASE Measure
  <2>1. /\ pc["client_loop"] = "measure"
        /\ pc' = [pc EXCEPT !["client_loop"] =
                     IF buffers' = << >> THEN "top" ELSE @]
        /\ UNCHANGED << app, now, bursts, tsc_next, start, dueAt >>
    BY <1>11 DEF Measure
  <2>. QED  BY <1>0, <1>5, <2>1 DEF Loops
<1>12. CASE Arrive
  BY <1>0, <1>1, <1>12 DEF Arrive
<1>13. CASE Lose \/ Garble
  BY <1>0, <1>1, <1>13 DEF Lose, Garble
<1>14. CASE UNCHANGED vars
  BY <1>0, <1>1, <1>14 DEF vars
<1>. QED  BY <1>2, <1>3, <1>4, <1>6, <1>7, <1>8, <1>9, <1>10, <1>11, <1>12,
             <1>13, <1>14 DEF Next

-----------------------------------------------------------------------------
(***************************************************************************)
(* The accounts.  Without -c no payload is looked at, and all are right.   *)
(***************************************************************************)
Accounts ==
  /\ EveryPacketAccounted
  /\ ~ touch_data => \A f \in net : f.right

LEMMA InitAccounts == Init => Accounts
  BY DEF Init, Accounts, EveryPacketAccounted

LEMMA NextAccounts == TypeOK /\ Pace /\ Accounts /\ [Next]_vars => Accounts'
<1> SUFFICES ASSUME TypeOK, Pace, Accounts, [Next]_vars PROVE Accounts'
  OBVIOUS
<1> USE DEF conf, timers, counters, history
<1>0. /\ tx \in Nat /\ dropped \in Nat /\ rx \in Nat
      /\ bursts \in Nat /\ handed \in Nat /\ good \in Nat
      /\ saved \in [tx : Nat, dropped : Nat, rx : Nat]
  BY DEF TypeOK
<1>1. ASSUME UNCHANGED << app, touch_data, tx, dropped, rx, saved >>,
             UNCHANGED << bursts, good >>,
             app \in {"send", "client"} => UNCHANGED handed,
             ~ touch_data => \A f \in net' : f.right
      PROVE  Accounts'
  BY <1>1 DEF Accounts, EveryPacketAccounted
<1>2. ASSUME NEW l \in Loops, Begin(l) PROVE Accounts'
  BY <1>1, <1>2 DEF Begin, Accounts
<1>3. ASSUME NEW l \in Loops, Top(l) PROVE Accounts'
  <2>1. /\ UNCHANGED << app, touch_data, net, bursts, handed, good >>
        /\ Period(l, Clock(l))
    BY <1>3 DEF Top
  <2>2. CASE UNCHANGED << counters, saved >>
    BY <1>1, <2>1, <2>2 DEF Accounts
  <2>3. CASE SaveReset(l)
    <3>1. SaveResetTx \/ SaveResetRx \/ SaveResetDelay
      BY <2>3 DEF SaveReset, Loops
    <3>2. CASE SaveResetTx
      <4>1. /\ saved'.tx = saved.tx + tx /\ saved'.rx = saved.rx
            /\ saved'.dropped = saved.dropped + dropped
            /\ tx' = 0 /\ dropped' = 0 /\ rx' = rx
        BY <1>0, <3>2 DEF SaveResetTx
      <4>2. /\ saved'.tx + tx' = saved.tx + tx
            /\ saved'.dropped + dropped' = saved.dropped + dropped
        BY <1>0, <4>1
      <4>. QED  BY <2>1, <4>1, <4>2 DEF Accounts, EveryPacketAccounted
    <3>3. CASE SaveResetRx
      <4>1. /\ saved'.tx = saved.tx /\ saved'.rx = saved.rx + rx
            /\ saved'.dropped = saved.dropped
            /\ tx' = tx /\ dropped' = dropped /\ rx' = 0
        BY <1>0, <3>3 DEF SaveResetRx
      <4>2. saved'.rx + rx' = saved.rx + rx
        BY <1>0, <4>1
      <4>. QED  BY <2>1, <4>1, <4>2 DEF Accounts, EveryPacketAccounted
    <3>4. CASE SaveResetDelay
      BY <1>1, <2>1, <3>4 DEF SaveResetDelay, Accounts
    <3>. QED  BY <3>1, <3>2, <3>3, <3>4
  <2>. QED  BY <2>1, <2>2, <2>3 DEF Period
<1>4. ASSUME NEW l \in Loops, Prepare(l) PROVE Accounts'
  BY <1>1, <1>4 DEF Prepare, Accounts
<1>5. ASSUME NEW l \in Loops, Send(l) PROVE Accounts'
  <2>1. PICK res \in -1 .. BurstSize :
          /\ net' = net \cup {Frame(burst[k], dueAt, handed + k) : k \in 1..res}
          /\ handed' = handed + (IF res > 0 THEN res ELSE 0)
          /\ IF l = "send_loop"
               THEN /\ tx' = tx + Sent(res)
                    /\ dropped' = dropped + (BurstSize - Sent(res))
               ELSE UNCHANGED << tx, dropped >>
    BY <1>5 DEF Send
  <2>2. /\ bursts' = bursts + 1 /\ pc[l] = "prepare"
        /\ UNCHANGED << app, touch_data, rx, saved, good >>
    BY <1>5 DEF Send
  <2>3. \A k \in 1..res : Frame(burst[k], dueAt, handed + k).right
    BY DEF Frame
  <2>4. ~ touch_data' => \A f \in net' : f.right
    BY <2>1, <2>2, <2>3 DEF Accounts
  <2>5. app \in {"send", "client"} => l = "send_loop"
    BY <2>2 DEF Pace, Pacer
  <2>6. handed' = handed + Sent(res) /\ Sent(res) \in Nat
    BY <2>1 DEF Sent
  <2>7. (bursts + 1) * BurstSize = bursts * BurstSize + BurstSize
    BY <1>0, OneMore
  <2> DEFINE sofar == bursts * BurstSize
  <2>8. sofar \in Nat /\ bursts' * BurstSize = sofar + BurstSize
    BY <1>0, <2>2, <2>7
  <2>9. ASSUME app \in {"send", "client"}
        PROVE  /\ saved'.tx + tx' = handed'
               /\ saved'.dropped + dropped' = bursts' * BurstSize - handed'
    <3>1. saved.tx + tx = handed /\ saved.dropped + dropped = sofar - handed
      BY <2>9 DEF Accounts, EveryPacketAccounted
    <3>2. /\ tx' = tx + Sent(res) /\ dropped' = dropped + (BurstSize - Sent(res))
          /\ saved' = saved
      BY <2>1, <2>2, <2>5, <2>9
    <3> HIDE DEF sofar
    <3>. QED  BY <1>0, <2>6, <2>8, <3>1, <3>2
  <2>. QED  BY <2>2, <2>4, <2>9 DEF Accounts, EveryPacketAccounted
<1>6. CASE RecvLoopReceives
  <2>1. PICK frames \in Bursts :
          /\ net' = net \ {frames[k] : k \in DOMAIN frames}
          /\ rx' = rx + NumRecv(frames)
          /\ good' = good + Cardinality(Right(frames))
    BY <1>6 DEF RecvLoopReceives, Recv
  <2>2. UNCHANGED << app, touch_data, tx, dropped, bursts, handed, saved >>
    BY <1>6 DEF RecvLoopReceives
  <2>3. NumRecv(frames) \in Nat /\ NumRecv(frames) = Cardinality(Right(frames))
    BY NumRecvCounts, BurstsAreSeqs DEF Accounts
  <2>4. saved'.rx + rx' = good'
    BY <1>0, <2>1, <2>2, <2>3 DEF Accounts, EveryPacketAccounted
  <2>. QED  BY <2>1, <2>2, <2>4 DEF Accounts, EveryPacketAccounted
<1>7. CASE ClientLoopReceives
  BY <1>1, <1>7 DEF ClientLoopReceives, Recv, Accounts
<1>8. CASE Measure
  BY <1>1, <1>8 DEF Measure, Accounts
<1>9. CASE Arrive
  <2>1. Frame(0, 0, handed + 1).right
    BY DEF Frame
  <2>. QED  BY <1>1, <1>9, <2>1 DEF Arrive, Accounts
<1>10. CASE Tick \/ TscUpdate
  BY <1>1, <1>10 DEF Tick, TscUpdate, Accounts
<1>11. CASE Lose
  BY <1>1, <1>11 DEF Lose, Accounts
<1>12. CASE Garble
  BY <1>1, <1>12 DEF Garble, Accounts
<1>13. CASE UNCHANGED vars
  BY <1>1, <1>13 DEF vars, Accounts
<1>. QED  BY <1>2, <1>3, <1>4, <1>5, <1>6, <1>7, <1>8, <1>9, <1>10, <1>11,
             <1>12, <1>13 DEF Next

-----------------------------------------------------------------------------
(***************************************************************************)
(* The stamps.  A stamp is a value that tsc_loop has stored, so that its   *)
(* clock has reached it; the sender of client reads the same clock when it *)
(* finds a burst due and only then stamps the packets.                     *)
(***************************************************************************)
Stamped(f) ==
  /\ f.stamp <= tsc_last
  /\ app = "client" => f.sentAt <= f.stamp

Stamps ==
  /\ \A f \in net : Stamped(f)
  /\ \A k \in 1..Len(buffers) : Stamped(buffers[k])
  /\ \A k \in 1..Len(burst) :
       /\ burst[k] <= tsc_last
       /\ app = "client" => dueAt <= burst[k]
  /\ (\E l \in Loops : pc[l] = "prepare") /\ app = "client"
       => dueAt <= tsc_last
  /\ (\A l \in Loops : pc[l] # "prepare") => burst = << >>
  /\ DelaysNotNegative
  /\ ClientCountsPromptEchoes

LEMMA InitStamps == Init => Stamps
<1> SUFFICES ASSUME Init PROVE Stamps
  OBVIOUS
<1>1. Len(buffers) = 0 /\ Len(burst) = 0 /\ burst = << >> /\ net = {}
  BY EmptySeq DEF Init
<1>. QED  BY <1>1 DEF Init, Stamps, DelaysNotNegative,
                      ClientCountsPromptEchoes, PromptEchoesCount, Loops

LEMMA NextStamps == TypeOK /\ Pace /\ Stamps /\ [Next]_vars => Stamps'
<1> SUFFICES ASSUME TypeOK, Pace, Stamps, [Next]_vars PROVE Stamps'
  OBVIOUS
<1> USE DEF conf, timers, counters, history
<1>0. /\ pc \in [Loops -> {"init", "top", "prepare", "recv", "measure"}]
      /\ tsc_last \in Nat /\ now \in Nat /\ dueAt \in Nat
      /\ tsc_last <= now /\ now <= MaxTime
      /\ burst \in Seq(0..now) /\ buffers \in Seq(Frames)
      /\ net \subseteq Frames
      /\ \A f \in Frames : f.stamp \in 0..now /\ f.sentAt \in 0..now
  BY DEF TypeOK, Frames
<1>1. \A k \in 1..Len(burst) : burst[k] \in 0..now
  BY <1>0
<1>2. \A k \in 1..Len(buffers) : buffers[k] \in Frames
  BY <1>0
<1>3. ASSUME UNCHANGED << app, verdict >>
      PROVE  DelaysNotNegative' /\ ClientCountsPromptEchoes'
  BY <1>3 DEF Stamps, DelaysNotNegative, ClientCountsPromptEchoes,
              PromptEchoesCount
<1>4. ASSUME UNCHANGED << app, pc, burst, dueAt, buffers, verdict >>,
             tsc_last' \in Nat, tsc_last <= tsc_last',
             \A f \in net' : Stamped(f)'
      PROVE  Stamps'
  <2>1. \A k \in 1..Len(buffers) : Stamped(buffers[k])'
    BY <1>0, <1>2, <1>4 DEF Stamps, Stamped
  <2>2. \A k \in 1..Len(burst) : burst[k] <= tsc_last'
    BY <1>0, <1>1, <1>4 DEF Stamps
  <2>3. (\E l \in Loops : pc'[l] = "prepare") /\ app' = "client"
          => dueAt' <= tsc_last'
    BY <1>0, <1>4 DEF Stamps
  <2>4. \A k \in 1..Len(burst) : app = "client" => dueAt <= burst[k]
    BY DEF Stamps
  <2>. QED  BY <1>3, <1>4, <2>1, <2>2, <2>3, <2>4 DEF Stamps
<1>5. ASSUME UNCHANGED << app, tsc_last, net >>
      PROVE  \A f \in net' : Stamped(f)'
  BY <1>5 DEF Stamps, Stamped
<1>6. ASSUME NEW l \in Loops, NEW at \in {"top", "recv", "measure"},
             pc[l] # "prepare", pc' = [pc EXCEPT ![l] = at],
             UNCHANGED << app, tsc_last, burst, dueAt >>,
             \A f \in net' : Stamped(f),
             \A k \in 1..Len(buffers') : Stamped(buffers'[k]),
             DelaysNotNegative', ClientCountsPromptEchoes'
      PROVE  Stamps'
  <2>1. \A k \in Loops : pc'[k] = "prepare" <=> pc[k] = "prepare"
    BY <1>0, <1>6
  <2>. QED  BY <1>6, <2>1 DEF Stamps, Stamped
<1>7. CASE Tick
  BY <1>0, <1>4, <1>5, <1>7 DEF Tick
<1>8. CASE TscUpdate
  <2>1. tsc_last' \in Nat /\ tsc_last <= tsc_last'
    BY <1>0, <1>8 DEF TscUpdate
  <2>2. \A f \in net' : Stamped(f)'
    BY <1>0, <1>8, <2>1 DEF TscUpdate, Stamps, Stamped
  <2>. QED  BY <1>4, <1>8, <2>1, <2>2 DEF TscUpdate
<1>9. ASSUME NEW l \in Loops, Begin(l) PROVE Stamps'
  <2>1. UNCHANGED << app, tsc_last, burst, dueAt, net, buffers, verdict >>
    BY <1>9 DEF Begin
  <2>2. pc[l] = "init" /\ pc' = [pc EXCEPT ![l] = "top"]
    BY <1>9 DEF Begin
  <2>. QED  BY <1>3, <1>6, <2>1, <2>2 DEF Stamps
<1>10. ASSUME NEW l \in Loops, Top(l) PROVE Stamps'
  <2>1. /\ pc[l] = "top" /\ Due(l, Clock(l))
        /\ UNCHANGED << app, tsc_last, burst, net, buffers, verdict >>
    BY <1>10 DEF Top
  <2>2. CASE Clock(l) > tsc_next /\ Sends(l)
    <3>1. dueAt' = Clock(l) /\ pc' = [pc EXCEPT ![l] = "prepare"]
      BY <2>1, <2>2 DEF Due
    <3>2. l = Pacer
      BY <2>1, <2>2, PacerSends DEF Pace
    <3>3. \A k \in Loops : pc[k] # "prepare"
      BY <2>1, <3>2 DEF Pace
    <3>4. burst' = << >> /\ Len(burst') = 0
      BY <2>1, <3>3, EmptySeq DEF Stamps
    <3>5. app = "client" => dueAt' <= tsc_last
      BY <1>0, <3>1 DEF Clock, ReadsTsc
    <3>. QED  BY <1>3, <2>1, <3>4, <3>5 DEF Stamps, Stamped
  <2>3. CASE ~ (Clock(l) > tsc_next /\ Sends(l))
    <3>1. dueAt' = dueAt /\ pc' = [pc EXCEPT ![l] = AfterSending(l)]
      BY <2>1, <2>3 DEF Due
    <3>2. AfterSending(l) \in {"top", "recv", "measure"}
      BY DEF AfterSending
    <3>. QED  BY <1>3, <1>6, <2>1, <3>1, <3>2 DEF Stamps
  <2>. QED  BY <2>2, <2>3
<1>11. ASSUME NEW l \in Loops, Prepare(l) PROVE Stamps'
  <2>1. /\ pc[l] = "prepare" /\ burst' = Append(burst, tsc_last)
        /\ UNCHANGED << app, pc, tsc_last, dueAt, net, buffers, verdict >>
    BY <1>11 DEF Prepare
  <2>2. /\ Len(burst') = Len(burst) + 1 /\ burst'[Len(burst) + 1] = tsc_last
        /\ \A k \in 1..Len(burst) : burst'[k] = burst[k]
    BY <1>0, <2>1, AppendProperties
  <2>3. app = "client" => dueAt <= tsc_last
    BY <2>1 DEF Stamps
  <2>4. \A k \in 1..Len(burst') : k \in 1..Len(burst) \/ k = Len(burst) + 1
    BY <1>0, <2>2
  <2>5. \A k \in 1..Len(burst') : /\ burst'[k] <= tsc_last
                                  /\ app = "client" => dueAt <= burst'[k]
    BY <1>0, <2>2, <2>3, <2>4, SMTT(30) DEF Stamps
  <2>6. (\A k \in Loops : pc'[k] # "prepare") => burst' = << >>
    BY <2>1
  <2>7. /\ \A f \in net' : Stamped(f)'
        /\ (\A k \in 1..Len(buffers) : Stamped(buffers[k]))'
    BY <2>1 DEF Stamps, Stamped
  <2>8. DelaysNotNegative' /\ ClientCountsPromptEchoes'
    BY <1>3, <2>1
  <2>9. UNCHANGED << app, tsc_last, dueAt >>
    BY <2>1
  <2>10. \A k \in 1..Len(burst') : /\ burst'[k] <= tsc_last'
                                   /\ app' = "client" => dueAt' <= burst'[k]
    BY <2>5, <2>9
  <2>11. (\E k \in Loops : pc'[k] = "prepare") /\ app' = "client"
           => dueAt' <= tsc_last'
    BY <2>3, <2>9
  <2>. QED  BY <2>6, <2>7, <2>8, <2>10, <2>11 DEF Stamps
<1>12. ASSUME NEW l \in Loops, Send(l) PROVE Stamps'
  <2>1. PICK res \in -1 .. BurstSize :
          net' = net \cup {Frame(burst[k], dueAt, handed + k) : k \in 1..res}
    BY <1>12 DEF Send
  <2>2. /\ Len(burst) = BurstSize /\ burst' = << >> /\ dueAt' = 0
        /\ pc[l] = "prepare" /\ pc' = [pc EXCEPT ![l] = AfterSending(l)]
        /\ UNCHANGED << app, tsc_last, buffers, verdict >>
    BY <1>12 DEF Send
  <2>3. \A k \in 1..res : k \in 1..Len(burst)
    BY <2>2
  <2>4. \A k \in 1..res : Stamped(Frame(burst[k], dueAt, handed + k))
    BY <2>3 DEF Stamped, Frame, Stamps
  <2>5. \A f \in net' : Stamped(f)'
    BY <2>1, <2>2, <2>4 DEF Stamps, Stamped
  <2>6. Len(burst') = 0
    BY <2>2, EmptySeq
  <2>7. dueAt' <= tsc_last
    BY <1>0, <2>2
  <2>. QED  BY <1>3, <2>2, <2>5, <2>6, <2>7 DEF Stamps, Stamped
<1>13. CASE RecvLoopReceives
  <2>1. PICK frames \in Bursts : Recv(frames)
    BY <1>13 DEF RecvLoopReceives
  <2>2. \A f \in net' : Stamped(f)
    BY <2>1 DEF Recv, Stamps
  <2>3. /\ pc["recv_loop"] = "recv"
        /\ pc' = [pc EXCEPT !["recv_loop"] = "top"]
        /\ UNCHANGED << app, tsc_last, burst, dueAt, buffers, verdict >>
    BY <1>13 DEF RecvLoopReceives
  <2>. QED  BY <1>3, <1>6, <2>2, <2>3 DEF Stamps, Loops
<1>14. CASE ClientLoopReceives
  <2>1. PICK frames \in Bursts :
          /\ Recv(frames)
          /\ buffers' = SubSeq(frames, 1, NumRecv(frames))
          /\ pc' = [pc EXCEPT !["client_loop"] =
                      IF NumRecv(frames) = 0 THEN "top" ELSE "measure"]
    BY <1>14 DEF ClientLoopReceives
  <2>2. \A f \in net' : Stamped(f)
    BY <2>1 DEF Recv, Stamps
  <2>3. frames \in Seq(net) /\ NumRecv(frames) \in 0..Len(frames)
    BY BurstsAreSeqs, NumRecvCounts
  <2>4. buffers' \in Seq(net)
    BY <2>1, <2>3, SubSeqProperties
  <2>5. \A k \in 1..Len(buffers') : Stamped(buffers'[k])
    BY <2>4, ElementOfSeq DEF Stamps
  <2>6. /\ pc["client_loop"] = "recv"
        /\ UNCHANGED << app, tsc_last, burst, dueAt, verdict >>
    BY <1>14 DEF ClientLoopReceives
  <2>. QED  BY <1>3, <1>6, <2>1, <2>2, <2>5, <2>6 DEF Loops
<1>15. CASE Measure
  <2> DEFINE packet == Head(buffers)
  <2> DEFINE tsc_cur == Clock("client_loop")
  <2>1. /\ pc["client_loop"] = "measure"
        /\ verdict' = Verdict(tsc_cur, packet, Minus(tsc_cur, packet.stamp))
        /\ buffers' = Tail(buffers)
        /\ pc' = [pc EXCEPT !["client_loop"] =
                    IF buffers' = << >> THEN "top" ELSE "measure"]
        /\ UNCHANGED << app, tsc_last, burst, dueAt, net >>
    BY <1>0, <1>15 DEF Measure, Loops
  <2>2. buffers # << >>
    BY <2>1 DEF Pace, MeasuresSome
  <2>3. /\ Len(buffers') = Len(buffers) - 1 /\ packet = buffers[1]
        /\ \A k \in 1..Len(buffers') : buffers'[k] = buffers[k + 1]
        /\ 1 \in 1..Len(buffers)
    BY <1>0, <2>1, <2>2, HeadTailProperties, EmptySeq
  <2>4. \A k \in 1..Len(buffers') : k + 1 \in 1..Len(buffers)
    BY <1>0, <2>3
  <2>5. \A k \in 1..Len(buffers') : Stamped(buffers'[k])
    BY <2>3, <2>4 DEF Stamps
  <2>6. /\ packet \in Frames /\ packet.stamp \in 0..now
        /\ packet.sentAt \in 0..now /\ Stamped(packet)
    BY <1>0, <1>2, <2>3 DEF Stamps
  <2>7. tsc_cur \in 0..now /\ tsc_last <= tsc_cur
    BY <1>0 DEF Clock
  <2> HIDE DEF packet, tsc_cur
  <2>8. packet.stamp <= tsc_cur
    BY <1>0, <2>6, <2>7 DEF Stamped
  <2>9. Minus(tsc_cur, packet.stamp) = tsc_cur - packet.stamp
    <3>1. tsc_cur \in 0..MaxTime /\ packet.stamp \in 0..MaxTime
      BY <1>0, <2>6, <2>7
    <3>. QED  BY <2>8, <3>1, MinusSmall
  <2>10. DelaysNotNegative'
    <3>1. ~ (tsc_cur < packet.stamp)
      BY <1>0, <2>6, <2>7, <2>8
    <3>2. verdict'.negative = (tsc_cur < packet.stamp)
      BY <2>1 DEF Verdict
    <3>. QED  BY <3>1, <3>2 DEF DelaysNotNegative
  <2>11. ClientCountsPromptEchoes'
    <3>1. app = "client" => tsc_cur - packet.stamp <= tsc_cur - packet.sentAt
      BY <1>0, <2>6, <2>7 DEF Stamped
    <3>2. /\ verdict'.prompt <=> tsc_cur - packet.sentAt < Late
          /\ verdict'.counted <=> tsc_cur - packet.stamp < Late
      BY <2>1, <2>9 DEF Verdict
    <3>. QED  BY <1>0, <2>1, <2>6, <2>7, <3>1, <3>2
              DEF ClientCountsPromptEchoes, PromptEchoesCount
  <2>12. \A f \in net' : Stamped(f)
    BY <2>1 DEF Stamps
  <2>. QED  BY <1>6, <2>1, <2>5, <2>10, <2>11, <2>12 DEF Loops
<1>16. CASE Arrive
  <2>1. Stamped(Frame(0, 0, handed + 1)) /\ tsc_last' = tsc_last /\ app' = app
    BY <1>0, <1>16 DEF Stamped, Frame, Arrive
  <2>2. \A f \in net' : Stamped(f)'
    BY <1>16, <2>1 DEF Arrive, Stamps, Stamped
  <2>. QED  BY <1>0, <1>4, <1>16, <2>2 DEF Arrive
<1>17. CASE Lose
  <2>1. \A f \in net' : Stamped(f)'
    BY <1>17 DEF Lose, Stamps, Stamped
  <2>. QED  BY <1>0, <1>4, <1>17, <2>1 DEF Lose
<1>18. CASE Garble
  <2>1. PICK f \in net : net' = (net \ {f}) \cup {[f EXCEPT !.right = FALSE]}
    BY <1>18 DEF Garble
  <2>2. Stamped([f EXCEPT !.right = FALSE])
    <3>1. f \in Frames /\ Stamped(f)
      BY <1>0 DEF Stamps
    <3>. QED  BY <3>1 DEF Stamped, Frames
  <2>3. \A g \in net' : Stamped(g)'
    BY <1>18, <2>1, <2>2 DEF Garble, Stamps, Stamped
  <2>. QED  BY <1>0, <1>4, <1>18, <2>3 DEF Garble
<1>19. CASE UNCHANGED vars
  BY <1>0, <1>4, <1>5, <1>19 DEF vars
<1>. QED  BY <1>7, <1>8, <1>9, <1>10, <1>11, <1>12, <1>13, <1>14, <1>15,
             <1>16, <1>17, <1>18, <1>19 DEF Next

-----------------------------------------------------------------------------
(* The theorems. *)

LoopsInv == TypeOK /\ Pace /\ Accounts /\ Stamps

LEMMA LoopsInvariant == Spec => []LoopsInv
<1>1. Init => LoopsInv
  BY InitType, InitPace, InitAccounts, InitStamps DEF LoopsInv
<1>2. LoopsInv /\ [Next]_vars => LoopsInv'
  BY NextType, NextPace, NextAccounts, NextStamps DEF LoopsInv, Pace
<1>. QED  BY <1>1, <1>2, PTL DEF Spec

(* Every variable of the loops keeps its type, for any rate and burst size *)
(* (send_loop, recv_loop, client_loop, tsc_loop).                          *)
THEOREM TypeCorrect == Spec => []TypeOK
<1>1. LoopsInv => TypeOK
  BY DEF LoopsInv
<1>. QED  BY <1>1, LoopsInvariant, PTL

(***************************************************************************)
(* For any rate, burst size and clock, and however long a loop is held up: *)
(* when its n-th burst goes out, n - 1 intervals have passed (send_loop,   *)
(* client_loop).                                                           *)
(***************************************************************************)
THEOREM PaceCorrect == Spec => []NeverAhead
<1>1. LoopsInv => NeverAhead
  BY DEF LoopsInv, Pace
<1>. QED  BY <1>1, LoopsInvariant, PTL

(* The statistics account for every packet exactly once, over any number   *)
(* of periods (stats_save_reset_tx, stats_save_reset_rx, send_loop,        *)
(* recv_loop).                                                             *)
THEOREM AccountsCorrect == Spec => []EveryPacketAccounted
<1>1. LoopsInv => EveryPacketAccounted
  BY DEF LoopsInv, Accounts
<1>. QED  BY <1>1, LoopsInvariant, PTL

(* No measured delay is negative, although a third thread stores the clock *)
(* that stamps the packets (tsc_loop, client_loop).                        *)
THEOREM DelaysCorrect == Spec => []DelaysNotNegative
<1>1. LoopsInv => DelaysNotNegative
  BY DEF LoopsInv, Stamps
<1>. QED  BY <1>1, LoopsInvariant, PTL

(* In client every echo that is back in time is counted, for any clock     *)
(* frequency and limit (client_loop).                                      *)
THEOREM PromptCorrect == Spec => []ClientCountsPromptEchoes
<1>1. LoopsInv => ClientCountsPromptEchoes
  BY DEF LoopsInv, Stamps
<1>. QED  BY <1>1, LoopsInvariant, PTL
=============================================================================
