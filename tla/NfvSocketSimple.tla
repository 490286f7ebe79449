-------------------------- MODULE NfvSocketSimple --------------------------
(***************************************************************************)
(* The kernel socket of testapp-rewrite (nfv_socket_simple.c): UDP or raw, *)
(* through sendmsg/recvmsg or sendmmsg/recvmmsg.                           *)
(*                                                                         *)
(* A buffer is known by its index.  Three arrays reach the buffers: the    *)
(* iovecs of datagrams[] (what the kernel reads and writes) and payloads[] *)
(* (what the application sees) lead to buffer k at place k for ever, so    *)
(* they are left out; packets[] (where headers are looked at) starts so    *)
(* but is changed by the filter of recv.  Of a frame its headers' direction*)
(* is kept (see NfvSocketDpdk), whether it is shorter than used_size, and  *)
(* a tag that stands for its payload.  Names that the DPDK socket has too  *)
(* begin with k, for kernel, or with Simple.                               *)
(***************************************************************************)
EXTENDS NfvSocketBase

CONSTANTS
  Modes,      \* the configurations to consider
  Tags,       \* payloads
  Foreign,    \* whether a raw socket sees frames of other applications
  RxQueue     \* bound: frames waiting in the kernel

ASSUME SimpleAssumption ==
  /\ BurstSize \in Nat \ {0} /\ RxQueue \in Nat
  /\ Modes \subseteq [raw : BOOLEAN, mmsg : BOOLEAN, blocking : BOOLEAN,
                      requests : BOOLEAN]
  /\ \A m \in Modes : m.raw => m.blocking   \* config_initialize_socket
  /\ Tags # {} /\ Foreign \in BOOLEAN
  /\ HowMany \subseteq Nat

VARIABLES
  mode,              \* is_raw, use_mmsg, the fd's O_NONBLOCK; requests: whether
                     \* the loop that drives the socket also requests and sends
  krxq,              \* frames the kernel has for the socket
  buf,               \* what each buffer holds
  kpackets,          \* packets[]: indices of buffers
  kactive, kused,    \* active_buffers, used_buffers
  kpc, kop,          \* the next step, and what the burst was acquired by
  howmany, num_recv, \* of recv: how many are wanted, how many came
  i, num_good,       \* of its filter: the index, num_recv_good
  sent, taken,       \* history of this burst: frames given to the kernel,
                     \* frames for this application that recv took and counted
  kturned,            \* history: the places whose headers send_back has turned
  restarted          \* history: sendmmsg was called for the rest of a burst

simpleLocals == << howmany, num_recv, i, num_good >>
simpleHistory == << sent, taken, kturned, restarted >>
simpleVars == << mode, krxq, buf, kpackets, kactive, kused, kpc, kop,
                 simpleLocals, simpleHistory >>

Frames == [hdr : {"in", "out", "foreign"}, short : BOOLEAN, tag : Tags]

(***************************************************************************)
(* init.  The frame header that is copied into every raw packet comes from *)
(* incoming_hdr.                                                           *)
(***************************************************************************)
SimpleInit ==
  /\ mode \in Modes
  /\ krxq = << >>
  /\ \E t \in Tags :
       buf = [k \in Places |-> [hdr |-> "in", short |-> FALSE, tag |-> t]]
  /\ kpackets = [k \in Places |-> k]
  /\ kactive = 0 /\ kused = 0
  /\ kpc = "idle" /\ kop = "none" /\ howmany = 0 /\ num_recv = 0
  /\ i = 0 /\ num_good = 0
  /\ sent = << >> /\ taken = << >> /\ kturned = 0 /\ restarted = FALSE

(* The kernel delivers a frame; a UDP socket is connected (external). *)
Deliver ==
  /\ Len(krxq) < RxQueue
  /\ \E f \in Frames :
       /\ f.hdr = "in" \/ (f.hdr = "foreign" /\ mode.raw /\ Foreign)
       /\ krxq' = Append(krxq, f)
  /\ UNCHANGED << mode, buf, kpackets, kactive, kused, kpc, kop, simpleLocals,
                  simpleHistory >>

-----------------------------------------------------------------------------
(* What request_out_buffers and recv do to the burst that was left. *)
GiveUp == sent' = << >> /\ taken' = << >> /\ kturned' = 0 /\ restarted' = FALSE

(* request_out_buffers, and the payloads its caller writes. *)
Request ==
  /\ kpc = "idle" /\ mode.requests
  /\ kop' = "request"
  /\ \E n \in HowMany : kactive' = Least(n, BurstSize)
  /\ kused' = 0
  /\ \E t \in [Places -> Tags] :
       buf' = [k \in Places |->
                 IF k < kactive' THEN [buf[k] EXCEPT !.tag = t[k]] ELSE buf[k]]
  /\ GiveUp
  /\ UNCHANGED << mode, krxq, kpackets, kpc, simpleLocals >>

(* Mutant: recv does not reset used_buffers, which send left advanced. *)
RecvKeepsUsed ==
  /\ kpc = "idle" /\ kpc' = "recv"
  /\ kop' = "recv"
  /\ \E n \in HowMany : howmany' = Least(n, BurstSize)
  /\ num_recv' = 0
  /\ kactive' = 0
  /\ GiveUp
  /\ UNCHANGED << mode, krxq, buf, kpackets, kused, i, num_good >>

Recv ==
  /\ kpc = "idle" /\ kpc' = "recv"
  /\ kop' = "recv"
  /\ \E n \in HowMany : howmany' = Least(n, BurstSize)
  /\ num_recv' = 0
  /\ kactive' = 0 /\ kused' = 0
  /\ GiveUp
  /\ UNCHANGED << mode, krxq, buf, kpackets, i, num_good >>

(***************************************************************************)
(* The kernel fills one datagram after the other, called once for each     *)
(* (recvmsg) or once for all (recvmmsg).  A frame shorter than used_size   *)
(* ends the burst, except for recvmmsg, whose sizes nobody looks at.       *)
(***************************************************************************)
RecvOne ==
  /\ kpc = "recv" /\ num_recv < howmany /\ krxq # << >>
  /\ buf' = [buf EXCEPT ![num_recv] = Head(krxq)]
  /\ krxq' = Tail(krxq)
  /\ IF Head(krxq).short /\ ~ mode.mmsg
       THEN kpc' = "filter" /\ UNCHANGED << num_recv, taken >>
       ELSE /\ num_recv' = num_recv + 1
            /\ taken' = IF Head(krxq).hdr = "in" THEN Append(taken, Head(krxq))
                                                 ELSE taken
            /\ UNCHANGED kpc
  /\ UNCHANGED << mode, kpackets, kactive, kused, kop, howmany, i, num_good,
                  sent, kturned, restarted >>

RecvEnough ==
  /\ kpc = "recv" /\ kpc' = "filter"
  /\ num_recv = howmany \/ (krxq = << >> /\ ~ mode.blocking)
  /\ UNCHANGED << mode, krxq, buf, kpackets, kactive, kused, kop, simpleLocals,
                  simpleHistory >>

(* Mutant: the filter keeps the frames of other headers. *)
NotForUs(b) == buf[b].hdr # "in"

(* hdr_check_incoming *)
ForUs(b) == buf[b].hdr = "in"

(***************************************************************************)
(* The filter moves together the entries of packets[] whose headers are    *)
(* right, and nothing else; the caller gets the first payloads.            *)
(***************************************************************************)
FilterOne ==
  /\ kpc = "filter" /\ mode.raw /\ i < num_recv
  /\ i' = i + 1
  /\ IF ForUs(kpackets[i])
       THEN /\ kpackets' = [kpackets EXCEPT ![num_good] = kpackets[i]]
            /\ num_good' = num_good + 1
       ELSE UNCHANGED << kpackets, num_good >>
  /\ UNCHANGED << mode, krxq, buf, kactive, kused, kpc, kop, howmany, num_recv,
                  simpleHistory >>

RecvReturns ==
  /\ kpc = "filter" /\ kpc' = "idle"
  /\ mode.raw => i = num_recv
  /\ kactive' = IF mode.raw THEN num_good ELSE num_recv
  /\ howmany' = 0 /\ num_recv' = 0 /\ i' = 0 /\ num_good' = 0
  /\ UNCHANGED << mode, krxq, buf, kpackets, kused, kop, simpleHistory >>

-----------------------------------------------------------------------------
(* send: sendmmsg starts at the first datagram, whatever used_buffers is.  *)

(* Mutant: sendmsg, too, starts at the first datagram. *)
FirstIsZero == 0

FirstToSend == IF mode.mmsg THEN 0 ELSE kused

SimpleRemaining == kactive - kused

(***************************************************************************)
(* The kernel takes k of n frames, with the contents given; a frame is     *)
(* again one whose headers an earlier send_back had turned already.         *)
(***************************************************************************)
Transmit(n, contents) ==
  /\ \E k \in 0..n :
       /\ sent' = sent \o [j \in 1..k |->
            LET place == FirstToSend + j - 1
            IN  [place |-> place, tag |-> contents[place].tag,
                 hdr |-> IF mode.raw THEN contents[place].hdr ELSE "out",
                 again |-> place < kturned]]
       /\ kused' = kused + k
  /\ restarted' = (restarted \/ (mode.mmsg /\ n > 0 /\ kused > 0))
  /\ UNCHANGED << mode, krxq, kpackets, kactive, kpc, kop, simpleLocals,
                  taken >>

SimpleSend ==
  /\ kpc = "idle" /\ kop = "request"
  /\ \E n \in HowMany : Transmit(Least(n, SimpleRemaining), buf)
  /\ UNCHANGED << buf, kturned >>

(* Mutant: only the headers of the first packet are turned. *)
TurnedFirst(from, to) ==
  [b \in Places |-> IF mode.raw /\ from < to /\ kpackets[from] = b
                     THEN [buf[b] EXCEPT !.hdr = Swapped(@)] ELSE buf[b]]

(* send_back: a raw socket turns round the headers packets[] leads to. *)
Turned(from, to) ==
  [b \in Places |->
     LET hits == {k \in from .. to - 1 : kpackets[k] = b}
     IN  IF mode.raw /\ Cardinality(hits) % 2 = 1
           THEN [buf[b] EXCEPT !.hdr = Swapped(@)]
           ELSE buf[b]]

SimpleSendBack ==
  /\ kpc = "idle" /\ kop = "recv"
  /\ \E n \in HowMany :
       LET end == kused + Least(n, SimpleRemaining)
       IN  /\ buf' = Turned(kused, end)
           /\ kturned' = IF mode.raw /\ end > kturned THEN end ELSE kturned
           /\ Transmit(Least(n, SimpleRemaining), buf')

SimpleNext ==
  \/ Deliver \/ Request
  \/ Recv \/ RecvOne \/ RecvEnough \/ FilterOne \/ RecvReturns
  \/ SimpleSend \/ SimpleSendBack

SimpleSpec == SimpleInit /\ [][SimpleNext]_simpleVars

-----------------------------------------------------------------------------
(* Properties. *)

SimpleTypeOK ==
  /\ mode \in Modes
  /\ krxq \in Seq(Frames) /\ Len(krxq) <= RxQueue
  /\ buf \in [Places -> Frames] /\ kpackets \in [Places -> Places]
  /\ kactive \in 0..BurstSize /\ kused \in 0..kactive
  /\ kpc \in {"idle", "recv", "filter"}
  /\ kop \in {"none", "request", "recv"}
  /\ howmany \in 0..BurstSize /\ num_recv \in 0..howmany
  /\ i \in 0..num_recv /\ num_good \in 0..i
  /\ sent \in Seq([place : Places, hdr : {"in", "out", "foreign"}, tag : Tags,
                   again : BOOLEAN])
  /\ taken \in Seq(Frames)
  /\ kturned \in 0..kactive /\ restarted \in BOOLEAN

(***************************************************************************)
(* What recv returns is what it took from the kernel for this application: *)
(* buffer k holds the k-th such frame (nfv_socket.h: "buffers will contain *)
(* the desired payload data", "check whether the received packets were     *)
(* meant for the current application").                                    *)
(***************************************************************************)
HandsOverWhatCame ==
  (kpc = "idle" /\ kop = "recv" /\ kturned = 0) =>
    /\ kactive = Len(taken)
    /\ \A k \in 1..kactive : buf[k - 1] = taken[k]

(***************************************************************************)
(* send_back, called as often as it takes, returns the frames of the last  *)
(* recv in the order they came: except when sendmmsg is called for the     *)
(* rest of a burst, for it begins again at the first frame.                *)
(***************************************************************************)
EchoesInOrder ==
  (kop = "recv" /\ ~ restarted) => \A k \in 1..Len(sent) :
    k <= Len(taken) /\ sent[k].tag = taken[k].tag

(***************************************************************************)
(* What leaves is addressed to the remote application: on UDP because the  *)
(* socket is connected; on a raw socket by the headers that send_back has  *)
(* turned round.  Two kinds of raw frames are left out, for the code gets  *)
(* them wrong: those of send, whose headers are built for the other        *)
(* direction, and those that an earlier send_back had turned without        *)
(* sending them, which the next one turns back.                            *)
(***************************************************************************)
SimpleSendsOnlyOutgoing ==
  \A k \in 1..Len(sent) :
    (mode.raw => kop = "recv" /\ ~ sent[k].again) => sent[k].hdr = "out"

(***************************************************************************)
(* The kernel socket honours the contract of nfv_socket.h, each buffer of  *)
(* a burst out at most once and in order over any number of calls, until   *)
(* sendmmsg is called for the rest of a burst: that sends the first        *)
(* buffers again, so nothing is claimed of the burst from then on.         *)
(***************************************************************************)
KernelBurst == INSTANCE BurstSocket WITH
  Sockets <- {"socket"},
  granted <- [s \in {"socket"} |->
                IF kpc = "idle" /\ ~ restarted THEN kactive ELSE 0],
  wire <- [s \in {"socket"} |->
             IF restarted THEN << >>
                          ELSE [k \in 1..Len(sent) |-> sent[k].place + 1]]
ContractUntilSendmmsgRepeats == KernelBurst!ContractSpec
=============================================================================
