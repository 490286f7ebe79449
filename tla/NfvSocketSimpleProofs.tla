----------------------- MODULE NfvSocketSimpleProofs -----------------------
(***************************************************************************)
(* The kernel socket, for every size of bursts, every configuration and    *)
(* every way the kernel takes and delivers frames.  Each theorem says which *)
(* configurations it depends on; the properties say what they leave out.   *)
(***************************************************************************)
EXTENDS NfvSocketSimple, SequenceTheorems, FiniteSetTheorems, TLAPS

(* No raw socket sees the frames of other applications. *)
OnlyOurFrames == \A m \in Modes : m.raw => ~ Foreign

SentFrames == [place : Places, hdr : {"in", "out", "foreign"}, tag : Tags,
               again : BOOLEAN]

(* While recv runs, nothing is left of the burst before. *)
SimpleTypes ==
  /\ SimpleTypeOK
  /\ kpc = "idle" => num_recv = 0 /\ howmany = 0
  /\ kpc # "idle" => /\ kactive = 0 /\ kop = "recv" /\ sent = << >>
                     /\ ~ restarted
  /\ mode.raw /\ kop = "recv" => kused <= kturned

USE DEF simpleLocals, simpleHistory, GiveUp

-----------------------------------------------------------------------------
(* The types. *)

LEMMA LeastFacts ==
  ASSUME NEW a \in Nat, NEW b \in Nat
  PROVE  Least(a, b) \in Nat /\ Least(a, b) <= a /\ Least(a, b) <= b
BY DEF Least

LEMMA Numbers ==
  /\ BurstSize \in Nat /\ BurstSize >= 1
  /\ \A k \in Places : k \in Nat /\ k < BurstSize
  /\ \A k \in Nat : k < BurstSize => k \in Places
BY SimpleAssumption DEF Places

LEMMA SimpleInitially == SimpleInit => SimpleTypes
<1> SUFFICES ASSUME SimpleInit PROVE SimpleTypes
  OBVIOUS
<1>1. buf \in [Places -> Frames]
  BY DEF SimpleInit, Frames
<1>2. /\ 0 \in 0 .. BurstSize /\ 0 \in 0 .. 0 /\ 0 <= RxQueue
      /\ << >> \in Seq(Frames) /\ Len(<< >>) = 0 /\ << >> \in Seq(SentFrames)
  BY SimpleAssumption, Numbers
<1>3. kpackets \in [Places -> Places]
  BY DEF SimpleInit
<1>. QED  BY <1>1, <1>2, <1>3 DEF SimpleInit, SimpleTypes, SimpleTypeOK, SentFrames

(* k more frames went out, of the h that were asked for. *)
GoOut(h, k, contents) ==
  /\ kused' = kused + k /\ Len(sent') = Len(sent) + k
  /\ \A l \in 1 .. Len(sent) : sent'[l] = sent[l]
  /\ \A l \in 1 .. k :
       /\ FirstToSend + l - 1 \in Places
       /\ sent'[Len(sent) + l] =
            [place |-> FirstToSend + l - 1,
             tag |-> contents[FirstToSend + l - 1].tag,
             hdr |-> IF mode.raw THEN contents[FirstToSend + l - 1].hdr ELSE "out",
             again |-> FirstToSend + l - 1 < kturned]
  /\ k \in Nat /\ k <= h /\ kused + k <= kactive
  /\ ~ restarted' => ~ restarted /\ (k = 0 \/ FirstToSend = kused)

(* What send and send_back do, whatever part of the burst the kernel takes. *)
LEMMA TransmitFacts ==
  ASSUME SimpleTypes, kpc = "idle", NEW n \in Nat, n <= kactive - kused,
         NEW contents, contents \in [Places -> Frames], Transmit(n, contents)
  PROVE  /\ \E k \in Nat : GoOut(n, k, contents)
         /\ sent' \in Seq(SentFrames)
         /\ kused' \in 0 .. kactive /\ restarted' \in BOOLEAN
         /\ UNCHANGED << mode, krxq, kpackets, kactive, kpc, kop, howmany, num_recv, i,
                         num_good, taken >>
<1>1. PICK k \in 0 .. n :
        /\ sent' = sent \o [l \in 1 .. k |->
             LET place == FirstToSend + l - 1
             IN  [place |-> place, tag |-> contents[place].tag,
                  hdr |-> IF mode.raw THEN contents[place].hdr ELSE "out",
                  again |-> place < kturned]]
        /\ kused' = kused + k
  BY DEF Transmit
<1>2. /\ restarted' = (restarted \/ (mode.mmsg /\ n > 0 /\ kused > 0))
      /\ UNCHANGED << mode, krxq, kpackets, kactive, kpc, kop, howmany, num_recv, i,
                      num_good, taken >>
  BY DEF Transmit, simpleLocals
<1>3. /\ kactive \in Nat /\ kused \in Nat /\ kactive <= BurstSize /\ kused <= kactive
      /\ BurstSize \in Nat /\ sent \in Seq(SentFrames) /\ Len(sent) \in Nat
      /\ k \in Nat /\ kused + k <= kactive
  BY Numbers DEF SimpleTypes, SimpleTypeOK, SentFrames
<1> DEFINE first == FirstToSend
           Out(p) == [place |-> p, tag |-> contents[p].tag,
                      hdr |-> IF mode.raw THEN contents[p].hdr ELSE "out",
                      again |-> p < kturned]
           more == [l \in 1 .. k |-> Out(first + l - 1)]
<1>4. first \in Nat /\ first <= kused
  BY <1>3 DEF FirstToSend
<1>5. \A l \in 1 .. k : first + l - 1 \in Places
  <2> SUFFICES ASSUME NEW l \in 1 .. k PROVE first + l - 1 \in Places
    OBVIOUS
  <2> HIDE DEF first
  <2>1. first + l - 1 \in Nat /\ first + l - 1 < BurstSize
    BY <1>3, <1>4
  <2>. QED  BY <2>1, Numbers
<1>6. \A p \in Places : Out(p) \in SentFrames
  BY DEF SentFrames, Frames
<1>7. sent' = sent \o more
  BY <1>1
<1> HIDE DEF Out, first
<1>8. more \in Seq(SentFrames) /\ Len(more) = k
  BY <1>3, <1>5, <1>6
<1>9. /\ sent' \in Seq(SentFrames) /\ Len(sent') = Len(sent) + k
      /\ \A l \in 1 .. Len(sent) : sent'[l] = sent[l]
      /\ \A l \in 1 .. k : sent'[Len(sent) + l] = more[l]
  BY <1>3, <1>7, <1>8
<1>10. \A l \in 1 .. k : sent'[Len(sent) + l] = Out(first + l - 1)
  BY <1>9
<1>11. kused' \in 0 .. kactive
  BY <1>1, <1>3
<1>12. ~ restarted' => ~ restarted /\ (k = 0 \/ FirstToSend = kused)
  <2> SUFFICES ASSUME ~ restarted' PROVE ~ restarted /\ (k = 0 \/ FirstToSend = kused)
    OBVIOUS
  <2>1. ~ restarted /\ (~ mode.mmsg \/ ~ (n > 0) \/ ~ (kused > 0))
    BY <1>2
  <2>2. CASE ~ mode.mmsg
    BY <2>1, <2>2 DEF FirstToSend
  <2>3. CASE ~ (n > 0)
    BY <1>3, <2>1, <2>3
  <2>4. CASE ~ (kused > 0)
    BY <1>3, <2>1, <2>4 DEF FirstToSend
  <2>. QED  BY <2>1, <2>2, <2>3, <2>4
<1>13. GoOut(n, k, contents)
  BY <1>1, <1>3, <1>5, <1>9, <1>10, <1>12 DEF Out, first, GoOut
<1>14. restarted' \in BOOLEAN
  BY <1>2 DEF SimpleTypes, SimpleTypeOK
<1>. QED  BY <1>2, <1>3, <1>9, <1>11, <1>13, <1>14

LEMMA TurnedFacts ==
  ASSUME SimpleTypes, NEW from, NEW to
  PROVE  /\ Turned(from, to) \in [Places -> Frames]
         /\ \A b \in Places : Turned(from, to)[b].tag = buf[b].tag
         /\ ~ mode.raw => Turned(from, to) = buf
<1> DEFINE odd(b) ==
      /\ mode.raw
      /\ Cardinality({k \in from .. to - 1 : kpackets[k] = b}) % 2 = 1
<1>0. buf \in [Places -> Frames]
  BY DEF SimpleTypes, SimpleTypeOK
<1>1. Turned(from, to) =
        [b \in Places |-> IF odd(b) THEN [buf[b] EXCEPT !.hdr = Swapped(@)] ELSE buf[b]]
  BY DEF Turned
<1>2. \A b \in Places :
        /\ [buf[b] EXCEPT !.hdr = Swapped(@)] \in Frames
        /\ [buf[b] EXCEPT !.hdr = Swapped(@)].tag = buf[b].tag
  BY <1>0 DEF Frames, Swapped
<1>3. ~ mode.raw => \A b \in Places : ~ odd(b)
  OBVIOUS
<1> HIDE DEF odd
<1>. QED  BY <1>0, <1>1, <1>2, <1>3

(* What send_back does to the headers before it sends h frames. *)
TurnsRound(h) ==
  /\ kop = "recv" => buf' = Turned(kused, kused + h)
  /\ mode.raw /\ kop = "recv" => kturned' >= kused + h /\ kturned' >= kturned
  /\ kop = "request" => kturned' = kturned
  /\ kturned' \in 0 .. kactive

(* Both ways to send, and what they do to the buffers. *)
LEMMA SendFacts ==
  ASSUME SimpleTypes, SimpleSend \/ SimpleSendBack
  PROVE  /\ kpc = "idle" /\ restarted' \in BOOLEAN
         /\ buf' \in [Places -> Frames] /\ sent' \in Seq(SentFrames)
         /\ \A b \in Places : buf'[b].tag = buf[b].tag
         /\ ~ mode.raw => buf' = buf
         /\ kop \in {"request", "recv"}
         /\ kop = "request" => buf' = buf
         /\ UNCHANGED << mode, krxq, kpackets, kactive, kpc, kop, howmany, num_recv, i,
                         num_good, taken >>
         /\ kused' \in 0 .. kactive
         /\ \E h \in Nat, k \in Nat :
              GoOut(h, k, buf') /\ kused + h <= kactive /\ TurnsRound(h)
<1>0. /\ HowMany \subseteq Nat /\ buf \in [Places -> Frames]
      /\ kactive \in Nat /\ kused \in Nat /\ kused <= kactive
      /\ kturned \in 0 .. kactive
  BY SimpleAssumption, Numbers DEF SimpleTypes, SimpleTypeOK
<1>1. CASE SimpleSend
  <2>1. PICK n \in HowMany : Transmit(Least(n, SimpleRemaining), buf)
    BY <1>1 DEF SimpleSend
  <2>2. PICK h \in Nat : /\ h = Least(n, SimpleRemaining)
                         /\ h <= kactive - kused /\ kused + h <= kactive
    BY <1>0, LeastFacts DEF SimpleRemaining
  <2>3. Transmit(h, buf)
    BY <2>1, <2>2
  <2>4. kpc = "idle" /\ kop = "request" /\ buf' = buf /\ kturned' = kturned
    BY <1>1 DEF SimpleSend
  <2>5. PICK k \in Nat : GoOut(h, k, buf)
    BY <1>0, <2>2, <2>3, <2>4, TransmitFacts
  <2>6. /\ sent' \in Seq(SentFrames) /\ kused' \in 0 .. kactive
        /\ restarted' \in BOOLEAN
        /\ UNCHANGED << mode, krxq, kpackets, kactive, kpc, kop, howmany, num_recv, i,
                        num_good, taken >>
    BY <1>0, <2>2, <2>3, <2>4, TransmitFacts
  <2>7. TurnsRound(h)
    BY <1>0, <2>4 DEF TurnsRound
  <2>. QED  BY <1>0, <2>2, <2>4, <2>5, <2>6, <2>7
<1>2. CASE SimpleSendBack
  <2>1. PICK n \in HowMany :
          LET end == kused + Least(n, SimpleRemaining)
          IN  /\ buf' = Turned(kused, end)
              /\ kturned' = IF mode.raw /\ end > kturned THEN end ELSE kturned
              /\ Transmit(Least(n, SimpleRemaining), buf')
    BY <1>2 DEF SimpleSendBack
  <2>2. PICK h \in Nat : /\ h = Least(n, SimpleRemaining)
                         /\ h <= kactive - kused /\ kused + h <= kactive
    BY <1>0, LeastFacts DEF SimpleRemaining
  <2>3. /\ buf' = Turned(kused, kused + h) /\ Transmit(h, buf')
        /\ kturned' = IF mode.raw /\ kused + h > kturned THEN kused + h ELSE kturned
    BY <2>1, <2>2
  <2>4. kpc = "idle" /\ kop = "recv"
    BY <1>2 DEF SimpleSendBack
  <2>8. /\ buf' \in [Places -> Frames]
        /\ \A b \in Places : buf'[b].tag = buf[b].tag
        /\ ~ mode.raw => buf' = buf
    BY <2>3, TurnedFacts
  <2>5. PICK k \in Nat : GoOut(h, k, buf')
    BY <2>2, <2>3, <2>4, <2>8, TransmitFacts
  <2>6. /\ sent' \in Seq(SentFrames) /\ kused' \in 0 .. kactive
        /\ restarted' \in BOOLEAN
        /\ UNCHANGED << mode, krxq, kpackets, kactive, kpc, kop, howmany, num_recv, i,
                        num_good, taken >>
    BY <2>2, <2>3, <2>4, <2>8, TransmitFacts
  <2>7. TurnsRound(h)
    <3>1. /\ kturned' \in 0 .. kactive
          /\ mode.raw => kturned' >= kused + h /\ kturned' >= kturned
      BY <1>0, <2>2, <2>3
    <3>. QED  BY <2>3, <2>4, <3>1 DEF TurnsRound
  <2>. QED  BY <2>2, <2>3, <2>4, <2>5, <2>6, <2>7, <2>8
<1>. QED  BY <1>1, <1>2

LEMMA TypesStep == SimpleTypes /\ [SimpleNext]_simpleVars => SimpleTypes'
<1> SUFFICES ASSUME SimpleTypes, [SimpleNext]_simpleVars PROVE SimpleTypes'
  OBVIOUS
<1>0. /\ mode \in Modes /\ krxq \in Seq(Frames) /\ Len(krxq) <= RxQueue
      /\ buf \in [Places -> Frames] /\ kpackets \in [Places -> Places]
      /\ kactive \in 0 .. BurstSize /\ kused \in 0 .. kactive
      /\ kpc \in {"idle", "recv", "filter"} /\ kop \in {"none", "request", "recv"}
      /\ howmany \in 0 .. BurstSize /\ num_recv \in 0 .. howmany
      /\ i \in 0 .. num_recv /\ num_good \in 0 .. i
      /\ restarted \in BOOLEAN /\ sent \in Seq(SentFrames) /\ taken \in Seq(Frames)
      /\ kturned \in 0 .. kactive
      /\ kpc = "idle" => num_recv = 0 /\ howmany = 0
      /\ kpc # "idle" => /\ kactive = 0 /\ kop = "recv" /\ sent = << >>
                         /\ ~ restarted
      /\ mode.raw /\ kop = "recv" => kused <= kturned
  BY DEF SimpleTypes, SimpleTypeOK, SentFrames
<1>1. BurstSize \in Nat /\ RxQueue \in Nat /\ HowMany \subseteq Nat
  BY SimpleAssumption
<1>2. CASE Deliver
  <2>1. PICK f \in Frames : krxq' = Append(krxq, f)
    BY <1>2 DEF Deliver
  <2>2. krxq' \in Seq(Frames) /\ Len(krxq') <= RxQueue
    BY <1>0, <1>1, <1>2, <2>1 DEF Deliver
  <2>. QED  BY <1>0, <1>2, <2>2 DEF Deliver, SimpleTypes, SimpleTypeOK, SentFrames
<1>3. CASE Request
  <2>1. /\ kactive' \in 0 .. BurstSize /\ kused' = 0
        /\ kused' \in 0 .. kactive' /\ 0 \in 0 .. kactive'
    <3>1. PICK n \in HowMany : kactive' = Least(n, BurstSize) /\ n \in Nat
      BY <1>1, <1>3 DEF Request
    <3>. QED  BY <1>1, <1>3, <3>1, LeastFacts DEF Request
  <2>2. buf' \in [Places -> Frames]
    <3>1. PICK t \in [Places -> Tags] :
            buf' = [k \in Places |-> IF k < kactive' THEN [buf[k] EXCEPT !.tag = t[k]]
                                                   ELSE buf[k]]
      BY <1>3 DEF Request
    <3>2. \A k \in Places : [buf[k] EXCEPT !.tag = t[k]] \in Frames
      BY <1>0 DEF Frames
    <3>. QED  BY <1>0, <3>1, <3>2
  <2>3. /\ kpc = "idle" /\ kop' = "request" /\ restarted' = FALSE /\ kturned' = 0
        /\ sent' = << >> /\ taken' = << >>
        /\ sent' \in Seq(SentFrames) /\ taken' \in Seq(Frames)
        /\ UNCHANGED << mode, krxq, kpackets, kpc, howmany, num_recv, i, num_good >>
    BY <1>3 DEF Request
  <2>. QED  BY <1>0, <2>1, <2>2, <2>3 DEF SimpleTypes, SimpleTypeOK, SentFrames
<1>4. CASE Recv
  <2>1. howmany' \in 0 .. BurstSize
    <3>1. PICK n \in HowMany : howmany' = Least(n, BurstSize) /\ n \in Nat
      BY <1>1, <1>4 DEF Recv
    <3>. QED  BY <1>1, <3>1, LeastFacts
  <2>2. /\ kpc' = "recv" /\ kop' = "recv" /\ restarted' = FALSE /\ kturned' = 0
        /\ sent' = << >> /\ taken' = << >> /\ kactive' = 0 /\ kused' = 0 /\ num_recv' = 0
        /\ sent' \in Seq(SentFrames) /\ taken' \in Seq(Frames)
        /\ UNCHANGED << mode, krxq, buf, kpackets, i, num_good >>
    BY <1>4 DEF Recv
  <2>3. /\ num_recv' \in 0 .. howmany' /\ i' \in 0 .. num_recv' /\ num_good' \in 0 .. i'
        /\ kactive' \in 0 .. BurstSize /\ kused' \in 0 .. kactive'
        /\ kturned' \in 0 .. kactive' /\ kused' <= kturned'
    BY <1>0, <1>1, <1>4, <2>1, <2>2 DEF Recv
  <2>. QED  BY <1>0, <2>1, <2>2, <2>3 DEF SimpleTypes, SimpleTypeOK, SentFrames
<1>5. CASE RecvOne
  <2>1. Head(krxq) \in Frames /\ Tail(krxq) \in Seq(Frames) /\ Len(Tail(krxq)) <= RxQueue
    BY <1>0, <1>1, <1>5 DEF RecvOne
  <2>2. buf' \in [Places -> Frames]
    BY <1>0, <1>5, <2>1 DEF RecvOne
  <2>3. num_recv' \in 0 .. howmany /\ i \in 0 .. num_recv' /\ taken' \in Seq(Frames)
    <3>1. CASE Head(krxq).short /\ ~ mode.mmsg
      BY <1>0, <1>5, <3>1 DEF RecvOne
    <3>2. CASE ~ (Head(krxq).short /\ ~ mode.mmsg)
      <4>1. num_recv < howmany /\ num_recv' = num_recv + 1
        BY <1>5, <3>2 DEF RecvOne
      <4>2. num_recv' \in 0 .. howmany /\ i \in 0 .. num_recv'
        BY <1>0, <1>1, <4>1
      <4>3. taken' \in Seq(Frames)
        <5>1. \A f \in Frames : Append(taken, f) \in Seq(Frames)
          BY <1>0
        <5>. QED  BY <1>0, <1>5, <2>1, <3>2, <5>1 DEF RecvOne
      <4>. QED  BY <4>2, <4>3
    <3>. QED  BY <3>1, <3>2
  <2>4. kpc' \in {"recv", "filter"}
    BY <1>5 DEF RecvOne
  <2>. QED  BY <1>0, <1>5, <2>1, <2>2, <2>3, <2>4
            DEF RecvOne, SimpleTypes, SimpleTypeOK, SentFrames
<1>6. CASE RecvEnough
  BY <1>0, <1>6 DEF RecvEnough, SimpleTypes, SimpleTypeOK, SentFrames
<1>7. CASE FilterOne
  <2>1. i' \in 0 .. num_recv /\ num_good' \in 0 .. i'
    BY <1>0, <1>1, <1>7 DEF FilterOne
  <2>2. kpackets' \in [Places -> Places]
    <3>1. i \in Places
      BY <1>0, <1>1, <1>7, Numbers DEF FilterOne
    <3>. QED  BY <1>0, <1>7, <3>1 DEF FilterOne
  <2>. QED  BY <1>0, <1>7, <2>1, <2>2 DEF FilterOne, SimpleTypes, SimpleTypeOK, SentFrames
<1>8. CASE RecvReturns
  <2>1. /\ kactive' \in 0 .. BurstSize
        /\ kused = 0 /\ kused \in 0 .. kactive' /\ kturned \in 0 .. kactive'
    BY <1>0, <1>1, <1>8 DEF RecvReturns
  <2>. QED  BY <1>0, <1>1, <1>8, <2>1 DEF RecvReturns, SimpleTypes, SimpleTypeOK, SentFrames
<1>9. CASE SimpleSend \/ SimpleSendBack
  <2>1. /\ kpc = "idle" /\ kop \in {"request", "recv"} /\ restarted' \in BOOLEAN
        /\ buf' \in [Places -> Frames] /\ sent' \in Seq(SentFrames)
        /\ kused' \in 0 .. kactive
        /\ UNCHANGED << mode, krxq, kpackets, kactive, kpc, kop, howmany, num_recv, i,
                        num_good, taken >>
    BY <1>9, SendFacts
  <2>2. PICK h \in Nat, k \in Nat :
          GoOut(h, k, buf') /\ kused + h <= kactive /\ TurnsRound(h)
    BY <1>9, SendFacts
  <2>3. kturned' \in 0 .. kactive
    BY <2>2 DEF TurnsRound
  <2>4. mode.raw /\ kop = "recv" => kused' <= kturned'
    <3>1. kused' = kused + k /\ k <= h /\ kused \in Nat /\ kturned' \in Nat
      BY <1>0, <1>1, <2>2, <2>3 DEF GoOut
    <3>2. mode.raw /\ kop = "recv" => kused + h <= kturned'
      BY <2>2 DEF TurnsRound
    <3>. QED  BY <2>2, <3>1, <3>2
  <2>. QED  BY <1>0, <2>1, <2>3, <2>4 DEF SimpleTypes, SimpleTypeOK, SentFrames
<1>10. CASE UNCHANGED simpleVars
  BY <1>0, <1>10 DEF simpleVars, SimpleTypes, SimpleTypeOK, SentFrames
<1>. QED  BY <1>2, <1>3, <1>4, <1>5, <1>6, <1>7, <1>8, <1>9, <1>10 DEF SimpleNext

LEMMA SimpleInvariant == SimpleSpec => []SimpleTypes
BY SimpleInitially, TypesStep, PTL DEF SimpleSpec

-----------------------------------------------------------------------------
(* The places of the frames that went out. *)

SentInv == ~ restarted =>
  /\ Len(sent) = kused
  /\ \A k \in 1 .. Len(sent) : sent[k].place = k - 1

LEMMA SentInitially == SimpleInit => SentInv
BY DEF SimpleInit, SentInv

LEMMA GoneFacts ==
  ASSUME SimpleTypes, SentInv, SimpleSend \/ SimpleSendBack, ~ restarted'
  PROVE  /\ SentInv'
         /\ \A l \in 1 .. Len(sent') :
              \/ l \in 1 .. Len(sent) /\ sent'[l] = sent[l]
              \/ l <= kactive /\ l - 1 \in Places /\ sent'[l].tag = buf[l - 1].tag
<1>1. sent' \in Seq(SentFrames) /\ \A b \in Places : buf'[b].tag = buf[b].tag
  BY SendFacts
<1>2. PICK h \in Nat, k \in Nat : GoOut(h, k, buf')
  BY SendFacts
<1>2a. ~ restarted /\ (k = 0 \/ FirstToSend = kused)
  BY <1>2 DEF GoOut
<1>3. /\ kused \in Nat /\ kactive \in Nat /\ Len(sent) = kused
      /\ Len(sent') = kused + k /\ kused' = kused + k /\ kused + k <= kactive
  <2>1. kused \in Nat /\ kactive \in Nat
    BY Numbers DEF SimpleTypes, SimpleTypeOK
  <2>2. Len(sent) = kused
    BY <1>2a DEF SentInv
  <2>3. Len(sent') = Len(sent) + k /\ kused' = kused + k /\ kused + k <= kactive
    BY <1>2 DEF GoOut
  <2>. QED  BY <2>1, <2>2, <2>3
<1>4. \A l \in 1 .. k :
        /\ kused + l - 1 \in Places
        /\ sent'[kused + l].place = kused + l - 1
        /\ sent'[kused + l].tag = buf[kused + l - 1].tag
  <2>1. k # 0 => FirstToSend = kused
    BY <1>2a
  <2>2. \A l \in 1 .. k :
          /\ kused + l - 1 \in Places
          /\ sent'[kused + l] =
               [place |-> kused + l - 1, tag |-> buf'[kused + l - 1].tag,
                hdr |-> IF mode.raw THEN buf'[kused + l - 1].hdr ELSE "out",
                again |-> kused + l - 1 < kturned]
    <3> SUFFICES ASSUME NEW l \in 1 .. k
                 PROVE  /\ kused + l - 1 \in Places
                        /\ sent'[kused + l] =
                             [place |-> kused + l - 1,
                              tag |-> buf'[kused + l - 1].tag,
                              hdr |-> IF mode.raw THEN buf'[kused + l - 1].hdr
                                                  ELSE "out",
                              again |-> kused + l - 1 < kturned]
      OBVIOUS
    <3>1. FirstToSend = kused
      BY <2>1
    <3>2. /\ FirstToSend + l - 1 \in Places
          /\ sent'[Len(sent) + l] =
               [place |-> FirstToSend + l - 1,
                tag |-> buf'[FirstToSend + l - 1].tag,
                hdr |-> IF mode.raw THEN buf'[FirstToSend + l - 1].hdr ELSE "out",
                again |-> FirstToSend + l - 1 < kturned]
      BY <1>2 DEF GoOut
    <3>3. Len(sent) = kused
      BY <1>3
    <3>. QED  BY <3>1, <3>2, <3>3
  <2> SUFFICES ASSUME NEW l \in 1 .. k
               PROVE  /\ kused + l - 1 \in Places
                      /\ sent'[kused + l].place = kused + l - 1
                      /\ sent'[kused + l].tag = buf[kused + l - 1].tag
    OBVIOUS
  <2>3. PICK p \in Places : p = kused + l - 1
    BY <2>2
  <2>4. sent'[kused + l] =
          [place |-> p, tag |-> buf'[p].tag,
           hdr |-> IF mode.raw THEN buf'[p].hdr ELSE "out",
           again |-> p < kturned]
    BY <2>2, <2>3
  <2>. QED  BY <1>1, <2>3, <2>4
<1>5. \A l \in 1 .. kused : sent'[l] = sent[l] /\ sent'[l].place = l - 1
  BY <1>2, <1>2a, <1>3 DEF GoOut, SentInv
<1>6. \A l \in 1 .. kused + k : l \in 1 .. kused \/ l - kused \in 1 .. k
  BY <1>3
<1>7. \A l \in 1 .. kused + k :
        l \in Int /\ (kused + (l - kused)) - 1 = l - 1 /\ kused + (l - kused) = l
  BY <1>3
<1>8. \A l \in 1 .. kused + k :
        \/ l \in 1 .. kused /\ sent'[l] = sent[l] /\ sent'[l].place = l - 1
        \/ /\ l - 1 \in Places /\ sent'[l].place = l - 1
           /\ sent'[l].tag = buf[l - 1].tag
  <2> SUFFICES ASSUME NEW l \in 1 .. kused + k, l \notin 1 .. kused
               PROVE  /\ l - 1 \in Places /\ sent'[l].place = l - 1
                      /\ sent'[l].tag = buf[l - 1].tag
    BY <1>5
  <2>1. PICK m \in 1 .. k : m = l - kused /\ kused + m = l
    BY <1>6, <1>7
  <2>2. kused + m - 1 = l - 1
    BY <1>3, <2>1
  <2>. QED  BY <1>4, <2>1, <2>2
<1>9. \A l \in 1 .. kused + k : l <= kactive
  BY <1>3
<1>. QED  BY <1>3, <1>8, <1>9 DEF SentInv

LEMMA SentStep ==
  ASSUME SimpleTypes, SentInv, [SimpleNext]_simpleVars
  PROVE  SentInv'
<1>1. CASE Deliver \/ RecvOne \/ RecvEnough \/ FilterOne \/ RecvReturns \/ UNCHANGED simpleVars
  BY <1>1 DEF Deliver, RecvOne, RecvEnough, FilterOne, RecvReturns, simpleVars, SentInv
<1>2. CASE Request \/ Recv
  <2>1. sent' = << >> /\ kused' = 0
    BY <1>2 DEF Request, Recv
  <2>. QED  BY <2>1 DEF SentInv
<1>3. CASE SimpleSend \/ SimpleSendBack
  <2>1. CASE ~ restarted'
    BY <1>3, <2>1, GoneFacts
  <2>2. CASE restarted'
    BY <2>2 DEF SentInv
  <2>. QED  BY <2>1, <2>2
<1>. QED  BY <1>1, <1>2, <1>3 DEF SimpleNext

-----------------------------------------------------------------------------
(* The frames that came. *)

Came == IF kpc = "idle" THEN kactive ELSE num_recv

TakenInv ==
  /\ \A k \in 1 .. Len(krxq) : krxq[k].hdr = "in"
  /\ \A k \in Places : kpackets[k] = k
  /\ num_good = i
  /\ kop = "recv" =>
       /\ Len(taken) = Came
       /\ \A k \in 1 .. Came :
            /\ taken[k].hdr = "in" /\ buf[k - 1].tag = taken[k].tag
            /\ kturned < k => buf[k - 1] = taken[k]

LEMMA TakenInitially == SimpleInit => TakenInv
BY DEF SimpleInit, TakenInv

LEMMA TakeOne ==
  ASSUME SimpleTypes, TakenInv, RecvOne
  PROVE  TakenInv'
<1>0. /\ krxq \in Seq(Frames) /\ buf \in [Places -> Frames] /\ taken \in Seq(Frames)
      /\ kpc = "recv" /\ kop = "recv" /\ krxq # << >> /\ Len(taken) = num_recv
      /\ Came = num_recv /\ kturned = 0
  BY DEF SimpleTypes, SimpleTypeOK, RecvOne, TakenInv, Came
<1>1. PICK p \in Nat : p = num_recv /\ p \in Places /\ p = Len(taken)
  BY <1>0, Numbers DEF SimpleTypes, SimpleTypeOK, RecvOne
<1>2. /\ \A k \in 1 .. Len(krxq') : krxq'[k].hdr = "in"
      /\ Head(krxq) \in Frames /\ Head(krxq).hdr = "in"
  BY <1>0 DEF RecvOne, TakenInv
<1>3. /\ buf' = [buf EXCEPT ![p] = Head(krxq)]
      /\ UNCHANGED << kpackets, i, num_good, kop, kactive, kturned >>
  BY <1>1 DEF RecvOne
<1>4. \A k \in 1 .. p : k - 1 \in Places /\ k - 1 # p
  BY <1>1, Numbers
<1>5. \A k \in 1 .. p : buf'[k - 1] = taken[k] /\ taken[k].hdr = "in"
  BY <1>0, <1>1, <1>3, <1>4 DEF TakenInv
<1>6. CASE Head(krxq).short /\ ~ mode.mmsg
  <2>1. kpc' = "filter" /\ num_recv' = num_recv /\ taken' = taken
    BY <1>6 DEF RecvOne
  <2>2. Came' = p
    BY <1>1, <2>1 DEF Came
  <2>. QED  BY <1>1, <1>2, <1>3, <1>5, <2>1, <2>2 DEF TakenInv
<1>7. CASE ~ (Head(krxq).short /\ ~ mode.mmsg)
  <2>1. kpc' = "recv" /\ num_recv' = p + 1 /\ taken' = Append(taken, Head(krxq))
    BY <1>0, <1>1, <1>2, <1>7 DEF RecvOne
  <2>2. PICK q \in Nat : q = p + 1 /\ Came' = q
    BY <1>1, <2>1 DEF Came
  <2>3. /\ Len(taken') = q /\ taken'[q] = Head(krxq)
        /\ \A k \in 1 .. p : taken'[k] = taken[k]
    BY <1>0, <1>1, <1>2, <2>1, <2>2
  <2>4. \A k \in 1 .. q : k \in 1 .. p \/ (k = q /\ k - 1 = p)
    BY <1>1, <2>2
  <2>5. buf'[p] = Head(krxq)
    BY <1>0, <1>1, <1>3
  <2>6. \A k \in 1 .. q : buf'[k - 1] = taken'[k] /\ taken'[k].hdr = "in"
    BY <1>2, <1>5, <2>3, <2>4, <2>5
  <2>. QED  BY <1>2, <1>3, <2>2, <2>3, <2>6 DEF TakenInv
<1>. QED  BY <1>6, <1>7

LEMMA UnturnedFacts ==
  ASSUME SimpleTypes, TakenInv, NEW from, NEW to, NEW b \in Places,
         \A p \in from .. to - 1 : p \in Places /\ p # b
  PROVE  Turned(from, to)[b] = buf[b]
<1>1. {k \in from .. to - 1 : kpackets[k] = b} = {}
  <2>1. \A p \in Places : kpackets[p] = p
    BY DEF TakenInv
  <2>. QED  BY <2>1
<1>2. Cardinality({}) % 2 # 1
  <2>1. Cardinality({}) = 0
    BY FS_EmptySet
  <2>2. 0 % 2 # 1
    OBVIOUS
  <2>. QED  BY <2>1, <2>2
<1>. QED  BY <1>1, <1>2 DEF Turned

LEMMA TakenStep ==
  ASSUME SimpleTypes, OnlyOurFrames, TakenInv, [SimpleNext]_simpleVars
  PROVE  TakenInv'
<1>0. /\ krxq \in Seq(Frames) /\ mode \in Modes
      /\ BurstSize \in Nat /\ num_recv \in 0 .. BurstSize /\ kactive \in 0 .. BurstSize
      /\ kpackets \in [Places -> Places] /\ i \in Nat
  BY Numbers DEF SimpleTypes, SimpleTypeOK
<1>1. CASE Deliver
  <2>1. PICK f \in Frames : krxq' = Append(krxq, f) /\ f.hdr = "in"
    BY <1>0, <1>1 DEF Deliver, OnlyOurFrames
  <2>2. \A k \in 1 .. Len(krxq') : krxq'[k].hdr = "in"
    <3>1. /\ Len(krxq') = Len(krxq) + 1 /\ krxq'[Len(krxq) + 1] = f
          /\ \A k \in 1 .. Len(krxq) : krxq'[k] = krxq[k]
      BY <1>0, <2>1
    <3>2. \A k \in 1 .. Len(krxq) + 1 : k \in 1 .. Len(krxq) \/ k = Len(krxq) + 1
      BY <1>0
    <3>. QED  BY <2>1, <3>1, <3>2 DEF TakenInv
  <2>3. UNCHANGED << buf, kpackets, kactive, kpc, kop, num_recv, i, num_good, kturned,
                  taken >>
    BY <1>1 DEF Deliver
  <2>. QED  BY <2>2, <2>3 DEF TakenInv, Came
<1>2. CASE Request
  BY <1>2 DEF Request, TakenInv
<1>3. CASE Recv
  <2>1. /\ Came' = 0 /\ taken' = << >> /\ UNCHANGED << krxq, kpackets, i, num_good >>
    BY <1>3 DEF Recv, Came
  <2>. QED  BY <2>1 DEF TakenInv
<1>4. CASE RecvOne
  BY <1>4, TakeOne
<1>5. CASE RecvEnough
  BY <1>5 DEF RecvEnough, TakenInv, Came
<1>6. CASE FilterOne
  <2>1. /\ i \in Places /\ i + 1 \in 1 .. num_recv /\ (i + 1) - 1 = i
    BY <1>0, <1>6, Numbers DEF FilterOne
  <2>2. ForUs(kpackets[i])
    <3>1. kpackets[i] = i /\ kop = "recv" /\ Came = num_recv /\ kturned = 0
      BY <1>6, <2>1 DEF TakenInv, FilterOne, SimpleTypes, SimpleTypeOK, Came
    <3>2. i + 1 \in 1 .. Came /\ kturned < i + 1 /\ (i + 1) - 1 = i
      BY <1>0, <2>1, <3>1
    <3>3. buf[i] = taken[i + 1] /\ taken[i + 1].hdr = "in"
      BY <3>1, <3>2 DEF TakenInv
    <3>. QED  BY <3>1, <3>3 DEF ForUs
  <2>3. kpackets' = kpackets /\ num_good' = i'
    BY <1>0, <1>6, <2>1, <2>2 DEF FilterOne, TakenInv
  <2>4. UNCHANGED << krxq, buf, kactive, kpc, kop, num_recv, kturned, taken >>
    BY <1>6 DEF FilterOne
  <2>. QED  BY <2>3, <2>4 DEF TakenInv, Came
<1>7. CASE RecvReturns
  <2>1. /\ kpc = "filter" /\ kpc' = "idle" /\ kactive' = num_recv /\ i' = 0 /\ num_good' = 0
        /\ UNCHANGED << krxq, buf, kpackets, kop, kturned, taken >>
    BY <1>7 DEF RecvReturns, TakenInv
  <2>2. Came' = Came
    BY <2>1 DEF Came
  <2>. QED  BY <2>1, <2>2 DEF TakenInv
<1>8. CASE SimpleSend \/ SimpleSendBack
  <2>1. /\ \A b \in Places : buf'[b].tag = buf[b].tag
        /\ kpc = "idle" /\ kop \in {"request", "recv"} /\ ~ mode.raw => buf' = buf
        /\ UNCHANGED << krxq, kpackets, kactive, kpc, kop, num_recv, i, num_good, taken >>
    BY <1>8, SendFacts
  <2>2. Came' = Came /\ \A k \in 1 .. Came : k - 1 \in Places
    BY <1>0, <2>1, Numbers DEF Came
  <2>3. PICK h \in Nat, l \in Nat :
          GoOut(h, l, buf') /\ kused + h <= kactive /\ TurnsRound(h)
    BY <1>8, SendFacts
  <2>4. ASSUME kop = "recv", NEW k \in 1 .. Came, kturned' < k
        PROVE  buf'[k - 1] = taken[k]
    <3>1. kturned' \in Nat /\ kturned \in Nat /\ kused \in Nat /\ Came \in Nat
      BY <1>0, <2>1, <2>3 DEF TurnsRound, SimpleTypes, SimpleTypeOK, Came
    <3>2. CASE mode.raw
      <4>1. /\ kturned <= kturned' /\ kused + h <= kturned'
            /\ buf' = Turned(kused, kused + h)
        BY <2>3, <2>4, <3>1, <3>2 DEF TurnsRound
      <4>2. kturned < k /\ k - 1 \in Places /\ kused + h <= k - 1
        BY <2>2, <2>4, <3>1, <4>1
      <4>3. \A p \in kused .. (kused + h) - 1 : p \in Places /\ p # k - 1
        BY <1>0, <2>1, <2>3, <3>1, <4>2, Numbers
      <4>4. buf'[k - 1] = buf[k - 1]
        BY <4>1, <4>2, <4>3, UnturnedFacts
      <4>. QED  BY <2>4, <4>2, <4>4 DEF TakenInv
    <3>3. CASE ~ mode.raw
      <4>1. kturned' = kturned
        BY <1>8, <3>3 DEF SimpleSend, SimpleSendBack
      <4>2. buf' = buf
        BY <1>8, <3>3, SendFacts
      <4>3. kturned < k
        BY <2>4, <4>1
      <4>. QED  BY <2>1, <2>2, <2>4, <4>2, <4>3 DEF TakenInv
    <3>. QED  BY <3>2, <3>3
  <2>. QED  BY <2>1, <2>2, <2>4 DEF TakenInv
<1>9. CASE UNCHANGED simpleVars
  BY <1>9 DEF simpleVars, TakenInv, Came
<1>. QED  BY <1>1, <1>2, <1>3, <1>4, <1>5, <1>6, <1>7, <1>8, <1>9 DEF SimpleNext

-----------------------------------------------------------------------------
(* The frames that came, going back. *)

EchoInv ==
  (kop = "recv" /\ ~ restarted) => \A k \in 1 .. Len(sent) :
    k <= Len(taken) /\ sent[k].tag = taken[k].tag

LEMMA EchoStep ==
  ASSUME SimpleTypes, SentInv, TakenInv, EchoInv, [SimpleNext]_simpleVars
  PROVE  EchoInv'
<1>1. CASE Deliver \/ RecvEnough \/ FilterOne \/ RecvReturns \/ UNCHANGED simpleVars
  BY <1>1 DEF Deliver, RecvEnough, FilterOne, RecvReturns, simpleVars, EchoInv
<1>2. CASE Request \/ Recv
  <2>1. sent' = << >>
    BY <1>2 DEF Request, Recv
  <2>. QED  BY <2>1 DEF EchoInv
<1>3. CASE RecvOne
  <2>1. sent' = << >>
    BY <1>3 DEF RecvOne, SimpleTypes
  <2>. QED  BY <2>1 DEF EchoInv
<1>4. CASE SimpleSend \/ SimpleSendBack
  <2>1. UNCHANGED << kop, taken >> /\ kpc = "idle"
    BY <1>4, SendFacts
  <2>2. SUFFICES ASSUME kop = "recv", ~ restarted', NEW l \in 1 .. Len(sent')
                 PROVE  l <= Len(taken) /\ sent'[l].tag = taken[l].tag
    BY <2>1 DEF EchoInv
  <2>2a. ~ restarted
    BY <1>4, <2>2, SendFacts DEF GoOut
  <2>3. Len(taken) = kactive /\ \A k \in 1 .. kactive : buf[k - 1].tag = taken[k].tag
    BY <2>1, <2>2 DEF TakenInv, Came
  <2>4. CASE l \in 1 .. Len(sent) /\ sent'[l] = sent[l]
    BY <2>2, <2>2a, <2>4 DEF EchoInv
  <2>5. CASE l <= kactive /\ l - 1 \in Places /\ sent'[l].tag = buf[l - 1].tag
    <3>1. l \in 1 .. kactive
      BY <2>5, Numbers DEF SimpleTypes, SimpleTypeOK
    <3>. QED  BY <2>3, <2>5, <3>1
  <2>. QED  BY <1>4, <2>2, <2>4, <2>5, GoneFacts
<1>. QED  BY <1>1, <1>2, <1>3, <1>4 DEF SimpleNext

-----------------------------------------------------------------------------
(* The headers of what goes out. *)

OutInv == SimpleSendsOnlyOutgoing

LEMMA TurnedOnce ==
  ASSUME SimpleTypes, TakenInv, mode.raw, NEW from \in Nat, NEW to \in Nat,
         to <= BurstSize, NEW p \in from .. to - 1, buf[p].hdr = "in"
  PROVE  Turned(from, to)[p].hdr = "out"
<1>1. \A k \in from .. to - 1 : k \in Places
  BY Numbers
<1>2. p \in Places
  BY <1>1
<1>3. {k \in from .. to - 1 : kpackets[k] = p} = {p}
  BY <1>1, <1>2 DEF TakenInv
<1>4. Cardinality({p}) % 2 = 1
  <2>1. Cardinality({p}) = 1
    BY FS_Singleton
  <2>2. 1 % 2 = 1
    OBVIOUS
  <2>. QED  BY <2>1, <2>2
<1>5. Turned(from, to)[p] = [buf[p] EXCEPT !.hdr = Swapped(@)]
  BY <1>2, <1>3, <1>4 DEF Turned
<1>6. buf[p] \in Frames
  BY <1>2 DEF SimpleTypes, SimpleTypeOK
<1>. QED  BY <1>5, <1>6 DEF Frames, Swapped

LEMMA OutStep ==
  ASSUME SimpleTypes, OnlyOurFrames, TakenInv, OutInv, [SimpleNext]_simpleVars
  PROVE  OutInv'
<1>1. CASE Deliver \/ RecvEnough \/ FilterOne \/ RecvReturns \/ UNCHANGED simpleVars
  BY <1>1 DEF Deliver, RecvEnough, FilterOne, RecvReturns, simpleVars, OutInv,
              SimpleSendsOnlyOutgoing
<1>2. CASE Request \/ Recv
  <2>1. sent' = << >>
    BY <1>2 DEF Request, Recv
  <2>. QED  BY <2>1 DEF OutInv, SimpleSendsOnlyOutgoing
<1>3. CASE RecvOne
  <2>1. sent' = << >>
    BY <1>3 DEF RecvOne, SimpleTypes
  <2>. QED  BY <2>1 DEF OutInv, SimpleSendsOnlyOutgoing
<1>4. CASE SimpleSend \/ SimpleSendBack
  <2>1. /\ mode' = mode /\ kop' = kop /\ kop \in {"request", "recv"}
        /\ kpc = "idle" /\ sent' \in Seq(SentFrames)
    BY <1>4, SendFacts
  <2>2. PICK h \in Nat, k \in Nat :
          GoOut(h, k, buf') /\ kused + h <= kactive /\ TurnsRound(h)
    BY <1>4, SendFacts
  <2>3. PICK len \in Nat : len = Len(sent) /\ Len(sent') = len + k
    BY <2>2 DEF SimpleTypes, SimpleTypeOK, GoOut
  <2> DEFINE Claimed(l) ==
        (mode.raw => kop = "recv" /\ ~ sent'[l].again) => sent'[l].hdr = "out"
  <2>4. \A l \in 1 .. k : Claimed(len + l)
    <3> SUFFICES ASSUME NEW l \in 1 .. k,
                        mode.raw => kop = "recv" /\ ~ sent'[len + l].again
                 PROVE  sent'[len + l].hdr = "out"
      OBVIOUS
    <3>1. PICK p \in Places, a \in BOOLEAN :
            /\ p = FirstToSend + l - 1 /\ a = (p < kturned)
            /\ sent'[len + l] = [place |-> p, tag |-> buf'[p].tag,
                                 hdr |-> IF mode.raw THEN buf'[p].hdr ELSE "out",
                                 again |-> a]
      <4>1. /\ FirstToSend + l - 1 \in Places
            /\ sent'[len + l] =
                 [place |-> FirstToSend + l - 1, tag |-> buf'[FirstToSend + l - 1].tag,
                  hdr |-> IF mode.raw THEN buf'[FirstToSend + l - 1].hdr ELSE "out",
                  again |-> FirstToSend + l - 1 < kturned]
        BY <2>2, <2>3 DEF GoOut
      <4>2. PICK p \in Places : p = FirstToSend + l - 1
        BY <4>1
      <4>3. PICK a \in BOOLEAN : a = (p < kturned)
        <5>1. p \in Int /\ kturned \in Int
          BY Numbers DEF SimpleTypes, SimpleTypeOK
        <5>2. (p < kturned) \in BOOLEAN
          BY <5>1
        <5>. QED  BY <5>2, Zenon
      <4>4. sent'[len + l] = [place |-> p, tag |-> buf'[p].tag,
                              hdr |-> IF mode.raw THEN buf'[p].hdr ELSE "out",
                              again |-> a]
        BY <4>1, <4>2, <4>3, Zenon
      <4>. QED  BY <4>2, <4>3, <4>4, Zenon
    <3>2. CASE mode.raw
      <4>1. kop = "recv" /\ ~ (p < kturned) /\ kused <= kturned
        <5>1. kop = "recv" /\ ~ sent'[len + l].again
          BY <3>2
        <5>2. sent'[len + l].again = a
          BY <3>1
        <5>2a. p < kturned => a
          BY <3>1, Zenon
        <5>3. kused <= kturned
          BY <3>2, <5>1 DEF SimpleTypes
        <5>. QED  BY <5>1, <5>2, <5>2a, <5>3, Zenon
      <4>2. /\ kactive \in Nat /\ kactive <= BurstSize /\ kused \in Nat
            /\ kturned \in Nat /\ p \in Nat /\ BurstSize \in Nat
        BY Numbers DEF SimpleTypes, SimpleTypeOK
      <4>3. FirstToSend = 0 \/ FirstToSend = kused
        BY DEF FirstToSend
      <4>4. k <= h /\ buf' = Turned(kused, kused + h)
        BY <2>2, <4>1 DEF GoOut, TurnsRound
      <4>5. p < kused + h
        <5>1. CASE FirstToSend = 0
          BY <2>2, <3>1, <4>2, <4>4, <5>1
        <5>2. CASE FirstToSend = kused
          BY <2>2, <3>1, <4>2, <4>4, <5>2
        <5>. QED  BY <4>3, <5>1, <5>2
      <4>6. /\ p \in kused .. (kused + h) - 1 /\ kused + h \in Nat
            /\ kused + h <= BurstSize /\ p + 1 \in 1 .. kactive
            /\ (p + 1) - 1 = p /\ kturned < p + 1
        BY <2>2, <4>1, <4>2, <4>5
      <4>7. buf[p].hdr = "in"
        <5>1. p + 1 \in 1 .. Came
          BY <2>1, <4>6 DEF Came
        <5>2. buf[(p + 1) - 1] = taken[p + 1] /\ taken[p + 1].hdr = "in"
          BY <4>1, <4>6, <5>1 DEF TakenInv
        <5>. QED  BY <4>6, <5>2
      <4>. QED  BY <3>1, <3>2, <4>2, <4>4, <4>6, <4>7, TurnedOnce
    <3>3. CASE ~ mode.raw
      BY <3>1, <3>3
    <3>. QED  BY <3>2, <3>3
  <2>5. \A l \in 1 .. len : Claimed(l)
    BY <2>2, <2>3 DEF GoOut, OutInv, SimpleSendsOnlyOutgoing
  <2>6. \A l \in 1 .. len + k : l \in 1 .. len \/ \E m \in 1 .. k : l = len + m
    <3> SUFFICES ASSUME NEW l \in 1 .. len + k, l \notin 1 .. len
                 PROVE  \E m \in 1 .. k : l = len + m
      OBVIOUS
    <3>1. l - len \in 1 .. k /\ l = len + (l - len)
      BY <2>2, <2>3
    <3>. QED  BY <3>1
  <2>7. \A l \in 1 .. Len(sent') : Claimed(l)
    <3> HIDE DEF Claimed
    <3>1. ASSUME NEW l \in 1 .. len + k
          PROVE  Claimed(l)
      <4>1. CASE l \in 1 .. len
        BY <2>5, <4>1
      <4>2. CASE \E m \in 1 .. k : l = len + m
        BY <2>4, <4>2
      <4>. QED  BY <2>6, <4>1, <4>2
    <3>. QED  BY <2>3, <3>1
  <2>. QED  BY <2>1, <2>7 DEF OutInv, SimpleSendsOnlyOutgoing
<1>. QED  BY <1>1, <1>2, <1>3, <1>4 DEF SimpleNext

-----------------------------------------------------------------------------
(* The contract of nfv_socket.h. *)

Granted == IF kpc = "idle" /\ ~ restarted THEN kactive ELSE 0
Wire == IF restarted THEN << >> ELSE [k \in 1 .. Len(sent) |-> sent[k].place + 1]

(* Each place of the burst goes out at most once, and in order. *)
LEMMA WireFacts ==
  ASSUME SimpleTypes, SentInv, ~ restarted
  PROVE  Wire = [k \in 1 .. kused |-> k] /\ kused \in Nat
<1>1. kused \in Nat
  BY Numbers DEF SimpleTypes, SimpleTypeOK
<1>2. \A k \in 1 .. kused : sent[k].place + 1 = k
  BY <1>1 DEF SentInv
<1>. QED  BY <1>1, <1>2 DEF Wire, SentInv

LEMMA ContractInitially == SimpleInit => KernelBurst!ContractInit
BY DEF SimpleInit, KernelBurst!ContractInit

AbstractStep ==
  [\E s \in {"socket"} : KernelBurst!Acquire(s) \/ KernelBurst!Transmit(s)]_(KernelBurst!Contract)

LEMMA AcquireFacts ==
  ASSUME Granted' \in 0 .. BurstSize, Wire' = << >>
  PROVE  AbstractStep
BY DEF AbstractStep, KernelBurst!Acquire, Granted, Wire

LEMMA StutterFacts ==
  ASSUME Granted' = Granted, Wire' = Wire
  PROVE  AbstractStep
BY DEF AbstractStep, KernelBurst!Contract, Granted, Wire

LEMMA ContractStep ==
  ASSUME SimpleTypes, SentInv, [SimpleNext]_simpleVars
  PROVE  AbstractStep
<1>0. /\ SimpleTypes' /\ SentInv'
      /\ kactive' \in 0 .. BurstSize /\ 0 \in 0 .. BurstSize
  BY TypesStep, SentStep, Numbers DEF SimpleTypes, SimpleTypeOK
<1>1. CASE Deliver \/ RecvOne \/ RecvEnough \/ FilterOne \/ UNCHANGED simpleVars
  <2>1. UNCHANGED << sent, kactive, restarted >> /\ (kpc' = "idle" <=> kpc = "idle")
    BY <1>1 DEF Deliver, RecvOne, RecvEnough, FilterOne, simpleVars
  <2>. QED  BY <2>1, StutterFacts DEF Granted, Wire
<1>2. CASE Request \/ Recv \/ RecvReturns
  <2>1. sent' = << >>
    BY <1>2 DEF Request, Recv, RecvReturns, SimpleTypes
  <2>2. [k \in 1 .. Len(sent') |-> sent'[k].place + 1] = << >>
    BY <2>1
  <2>. QED  BY <1>0, <2>2, AcquireFacts DEF Granted, Wire
<1>3. CASE (SimpleSend \/ SimpleSendBack) /\ restarted'
  BY <1>0, <1>3, AcquireFacts DEF Granted, Wire
<1>4. CASE (SimpleSend \/ SimpleSendBack) /\ ~ restarted'
  <2>1. kpc = "idle" /\ kpc' = kpc /\ kactive' = kactive
    BY <1>4, SendFacts
  <2>2. PICK k \in Nat : kused' = kused + k /\ kused + k <= kactive /\ ~ restarted
    BY <1>4, SendFacts DEF GoOut
  <2>3. /\ Wire = [l \in 1 .. kused |-> l] /\ Wire' = [l \in 1 .. kused + k |-> l]
        /\ kused \in Nat /\ kactive \in Nat
    <3>1. kused \in Nat /\ kactive \in Nat
      BY Numbers DEF SimpleTypes, SimpleTypeOK
    <3>2. Wire = [l \in 1 .. kused |-> l]
      BY <2>2, WireFacts
    <3>3. PICK u \in Nat : u = kused' /\ u = kused + k
      BY <2>2, <3>1
    <3>4. Len(sent') = u /\ \A l \in 1 .. u : sent'[l].place + 1 = l
      BY <1>0, <1>4, <3>3 DEF SentInv
    <3>5. Wire' = [l \in 1 .. u |-> l]
      BY <1>4, <3>4 DEF Wire
    <3>. QED  BY <3>1, <3>2, <3>3, <3>5
  <2>4. Wire' = Wire \o [l \in 1 .. k |-> Len(Wire) + l]
    <3>1. Len(Wire) = kused
      BY <2>3
    <3>2. \A l \in 1 .. kused + k : l \in 1 .. kused \/ (l - kused \in 1 .. k /\ kused + (l - kused) = l)
      BY <2>2, <2>3
    <3>. QED  BY <2>2, <2>3, <3>1, <3>2
  <2>5. k \in 0 .. Granted - Len(Wire) /\ Granted' = Granted
    BY <1>4, <2>1, <2>2, <2>3 DEF Granted
  <2> DEFINE granted == [s \in {"socket"} |-> Granted]
             wire == [s \in {"socket"} |-> Wire]
  <2>6. /\ k \in 0 .. granted["socket"] - Len(wire["socket"])
        /\ wire' = [wire EXCEPT !["socket"] = @ \o [l \in 1 .. k |-> Len(@) + l]]
        /\ granted' = granted
    BY <2>4, <2>5
  <2>7. \E s \in {"socket"} : KernelBurst!Transmit(s)
    BY <2>6 DEF KernelBurst!Transmit, Granted, Wire
  <2>. QED  BY <2>7 DEF AbstractStep
<1>. QED  BY <1>1, <1>2, <1>3, <1>4 DEF SimpleNext

-----------------------------------------------------------------------------
(* The theorems. *)

(***************************************************************************)
(* The state of the kernel socket keeps its types: no operation uses more  *)
(* of a burst than there is, and the filter stays within the frames that   *)
(* came, on every configuration.                                           *)
(***************************************************************************)
THEOREM SimpleTypesCorrect == SimpleSpec => []SimpleTypeOK
<1>1. SimpleTypes => SimpleTypeOK
  BY DEF SimpleTypes
<1>. QED  BY <1>1, SimpleInvariant, PTL

(***************************************************************************)
(* recv hands over what came, in order and at most once, whatever ends it  *)
(* (the burst is full, nothing is left, a frame is short): as long as no   *)
(* raw socket sees the frames of others, which its filter would mix up.    *)
(***************************************************************************)
THEOREM RecvCorrect ==
  ASSUME OnlyOurFrames
  PROVE  SimpleSpec => []HandsOverWhatCame
<1>1. SimpleInit => SimpleTypes /\ TakenInv
  BY SimpleInitially, TakenInitially
<1>2. SimpleTypes /\ TakenInv /\ [SimpleNext]_simpleVars => (SimpleTypes /\ TakenInv)'
  BY OnlyOurFrames, TypesStep, TakenStep
<1>3. SimpleTypes /\ TakenInv => HandsOverWhatCame
  BY DEF TakenInv, Came, HandsOverWhatCame
<1>. QED  BY <1>1, <1>2, <1>3, PTL DEF SimpleSpec

(***************************************************************************)
(* send_back returns the frames of the last recv in order, over as many    *)
(* calls as it takes, until sendmmsg is called for the rest of a burst.    *)
(***************************************************************************)
THEOREM EchoCorrect ==
  ASSUME OnlyOurFrames
  PROVE  SimpleSpec => []EchoesInOrder
<1> DEFINE Inv == SimpleTypes /\ TakenInv /\ SentInv /\ EchoInv
<1>1. SimpleInit => Inv
  BY SimpleInitially, TakenInitially, SentInitially DEF SimpleInit, EchoInv
<1>2. Inv /\ [SimpleNext]_simpleVars => Inv'
  BY OnlyOurFrames, TypesStep, TakenStep, SentStep, EchoStep
<1>3. Inv => EchoesInOrder
  BY DEF EchoInv, EchoesInOrder
<1>. QED  BY <1>1, <1>2, <1>3, PTL DEF SimpleSpec

(***************************************************************************)
(* What leaves is addressed to the remote application: send_back turns     *)
(* round every header it sends, except what the property leaves out, the   *)
(* frames of a raw sender and those that a send_back before had turned.    *)
(***************************************************************************)
THEOREM OutgoingCorrect ==
  ASSUME OnlyOurFrames
  PROVE  SimpleSpec => []SimpleSendsOnlyOutgoing
<1> DEFINE Inv == SimpleTypes /\ TakenInv /\ OutInv
<1>1. SimpleInit => Inv
  <2>1. SimpleInit => OutInv
    BY DEF SimpleInit, OutInv, SimpleSendsOnlyOutgoing
  <2>. QED  BY <2>1, SimpleInitially, TakenInitially
<1>2. Inv /\ [SimpleNext]_simpleVars => Inv'
  BY OnlyOurFrames, TypesStep, TakenStep, OutStep
<1>3. Inv => SimpleSendsOnlyOutgoing
  BY DEF OutInv
<1>. QED  BY <1>1, <1>2, <1>3, PTL DEF SimpleSpec

(***************************************************************************)
(* The kernel socket keeps the contract of nfv_socket.h, in every          *)
(* configuration and for every use the kernel makes of a call, until       *)
(* sendmmsg is called for the rest of a burst.                             *)
(***************************************************************************)
THEOREM SimpleContractCorrect == SimpleSpec => ContractUntilSendmmsgRepeats
<1>1. SimpleInit => SimpleTypes /\ SentInv /\ KernelBurst!ContractInit
  BY SimpleInitially, SentInitially, ContractInitially
<1>2. SimpleTypes /\ SentInv /\ [SimpleNext]_simpleVars =>
        /\ (SimpleTypes /\ SentInv)'
        /\ [\E s \in {"socket"} :
              KernelBurst!Acquire(s) \/ KernelBurst!Transmit(s)]_(KernelBurst!Contract)
  BY TypesStep, SentStep, ContractStep DEF AbstractStep
<1>. QED  BY <1>1, <1>2, PTL DEF SimpleSpec, ContractUntilSendmmsgRepeats, KernelBurst!ContractSpec
=============================================================================
