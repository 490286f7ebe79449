--------------------------- MODULE TestappSockets ---------------------------
(***************************************************************************)
(* The deprecated applications over kernel sockets (src/testapp): send,    *)
(* recv, server, and client with its pong thread, with one message or many *)
(* per system call (option -m), over UDP or raw sockets (option -R).       *)
(*                                                                         *)
(* These applications always use non-blocking sockets.  A frame is known   *)
(* by a serial number, which for the client is the stamp it carries, 0 if  *)
(* that is none of this client's; "whole" says whether it is as long as    *)
(* the packets of this test, which every datagram on a UDP socket is taken *)
(* to be.  When a burst is due is left open, as in TestappDpdk.            *)
(***************************************************************************)
EXTENDS Naturals, Sequences, SequencesExt

CONSTANTS
  Peers,         \* the addresses frames come from
  BurstMsgs,     \* conf->bst_size
  RcvQueue,      \* frames the kernel queues
  MaxFrames      \* bound: frames that arrive, or are sent, in a behaviour

ASSUME TestappSocketsAssumption ==
  BurstMsgs \in Nat \ {0} /\ RcvQueue \in Nat /\ MaxFrames \in Nat

VARIABLES
  sapp, raw, use_mmsg,   \* the application, conf->socktype and use_mmsg
  rcvq,                  \* frames queued by the kernel
  buf,                   \* buf[][], or pkt[] as its first place
  src_addresses,         \* where recvmmsg and recvfrom put the senders
  spc, res, place,       \* main_loop of send and server, pong_body of client
  tpc, nb_pkt,           \* the sending main_loop of send and client
  tx, dropped, rx,       \* stats_period
  serial,                \* history: the last serial number given out
  inNet,                 \* history: client frames that may still come back
  tries, taken, given,   \* history: packets sent, frames received, accepted
  replies, measured      \* history: what server returned, client measured

statVars == << tx, dropped, rx >>
rcvVars == << rcvq, buf, src_addresses, spc, res, place >>
sndVars == << tpc, nb_pkt, inNet, tries, given >>
socketVars == << sapp, raw, use_mmsg, rcvVars, sndVars, statVars, serial, taken,
                 replies, measured >>

Slots == 0 .. BurstMsgs - 1
Nothing == [serial |-> 0, from |-> "nobody", whole |-> FALSE, turned |-> FALSE]

SocketsInit ==
  /\ sapp \in {"send", "recv", "server", "client"}
  /\ raw \in BOOLEAN /\ use_mmsg \in BOOLEAN
  /\ rcvq = << >> /\ buf = [s \in Slots |-> Nothing]
  /\ src_addresses = [s \in Slots |-> "nobody"]
  /\ spc = "recv" /\ res = 0 /\ place = 0
  /\ tpc = "top" /\ nb_pkt = 0
  /\ tx = 0 /\ dropped = 0 /\ rx = 0
  /\ serial = 0 /\ inNet = {} /\ tries = 0 /\ taken = 0 /\ given = 0
  /\ replies = << >> /\ measured = << >>

Sends == sapp \in {"send", "client"}

-----------------------------------------------------------------------------
(* The network and the kernel (external): to recv and server come frames   *)
(* of any peer, on a raw socket of any length; to client its own frames,   *)
(* each at most once and in any order, and on a raw socket, which takes    *)
(* every protocol, any frame of others too, of whom it never asks who.     *)

Frames(number, senders) ==
  [serial : {number}, from : senders, whole : IF raw THEN BOOLEAN ELSE {TRUE},
   turned : {FALSE}]

EchoArrives ==
  /\ sapp = "client"
  /\ \E f \in inNet : rcvq' = Append(rcvq, f) /\ inNet' = inNet \ {f}
  /\ UNCHANGED serial

StrangerArrives ==
  /\ sapp = "client" /\ raw /\ taken + Len(rcvq) < MaxFrames
  /\ \E f \in Frames(0, {"nobody"}) : rcvq' = Append(rcvq, f)
  /\ UNCHANGED << serial, inNet >>

PeerFrameArrives ==
  /\ sapp \in {"recv", "server"} /\ serial < MaxFrames
  /\ serial' = serial + 1
  /\ \E f \in Frames(serial', Peers) : rcvq' = Append(rcvq, f)
  /\ UNCHANGED inNet

FrameArrives ==
  /\ Len(rcvq) < RcvQueue
  /\ EchoArrives \/ StrangerArrives \/ PeerFrameArrives
  /\ UNCHANGED << sapp, raw, use_mmsg, buf, src_addresses, spc, res, place, tpc,
                  nb_pkt, statVars, tries, taken, given, replies, measured >>

-----------------------------------------------------------------------------
(* main_loop of send and client. *)

BurstBegins ==
  /\ Sends /\ tpc = "top" /\ tries + BurstMsgs <= MaxFrames
  /\ tpc' = "send" /\ nb_pkt' = 0
  /\ UNCHANGED << sapp, raw, use_mmsg, rcvVars, inNet, tries, given, statVars,
                  serial, taken, replies, measured >>

(* The frames with the next serial numbers go out. *)
PutOnWire(howmany) ==
  /\ given' = given + howmany
  /\ serial' = serial + howmany
  /\ inNet' = IF sapp # "client" THEN inNet
              ELSE inNet \cup {[serial |-> serial + k, from |-> "server",
                                whole |-> TRUE, turned |-> FALSE] :
                                  k \in 1..howmany}

(* Mutant: an error counts as one packet sent. *)
SendMmsgError ==
  /\ use_mmsg /\ tpc = "send"
  /\ \E k \in 0 .. BurstMsgs :
       /\ PutOnWire(k)
       /\ IF sapp = "send"
            THEN /\ tx' = tx + (IF k = 0 THEN 1 ELSE k)
                 /\ dropped' = dropped + (BurstMsgs - k)
            ELSE UNCHANGED << tx, dropped >>
  /\ tries' = tries + BurstMsgs
  /\ tpc' = "top"
  /\ UNCHANGED << sapp, raw, use_mmsg, rcvVars, nb_pkt, rx, taken, replies,
                  measured >>

(* One system call for the whole burst: the kernel takes the first k       *)
(* messages, none if it fails.                                             *)
SendMmsg ==
  /\ use_mmsg /\ tpc = "send"
  /\ \E k \in 0 .. BurstMsgs :
       /\ PutOnWire(k)
       /\ IF sapp = "send"
            THEN tx' = tx + k /\ dropped' = dropped + (BurstMsgs - k)
            ELSE UNCHANGED << tx, dropped >>
  /\ tries' = tries + BurstMsgs
  /\ tpc' = "top"
  /\ UNCHANGED << sapp, raw, use_mmsg, rcvVars, nb_pkt, rx, taken, replies,
                  measured >>

(* One system call for each packet. *)
SendNext ==
  /\ ~ use_mmsg /\ tpc = "send" /\ nb_pkt < BurstMsgs
  /\ \E k \in 0 .. 1 :
       /\ PutOnWire(k)
       /\ IF sapp = "send" THEN tx' = tx + k /\ dropped' = dropped + (1 - k)
                           ELSE UNCHANGED << tx, dropped >>
  /\ tries' = tries + 1
  /\ nb_pkt' = nb_pkt + 1
  /\ UNCHANGED << sapp, raw, use_mmsg, rcvVars, tpc, rx, taken, replies, measured >>

BurstEnds ==
  /\ ~ use_mmsg /\ tpc = "send" /\ nb_pkt = BurstMsgs
  /\ tpc' = "top" /\ nb_pkt' = 0
  /\ UNCHANGED << sapp, raw, use_mmsg, rcvVars, inNet, tries, given, statVars,
                  serial, taken, replies, measured >>

-----------------------------------------------------------------------------
(* recv, server and pong_body: recvmmsg or recv, into the same buffers     *)
(* again and again.  A frame of others that is short is taken to end       *)
(* before the stamp, so that the buffer keeps the stamp of an earlier one  *)
(* (if it does not, it brings a stamp of its own as a whole one does).     *)

InBuffer(old, f) ==
  IF sapp = "client" /\ ~ f.whole THEN [f EXCEPT !.serial = old.serial] ELSE f

Howmany(limit) == IF Len(rcvq) < limit THEN Len(rcvq) ELSE limit

Fetch(limit) ==
  LET k == Howmany(limit)
  IN  /\ buf' = [s \in Slots |-> IF s < k THEN InBuffer(buf[s], rcvq[s + 1])
                                          ELSE buf[s]]
      /\ src_addresses' = [s \in Slots |-> IF s < k THEN rcvq[s + 1].from
                                                    ELSE src_addresses[s]]
      /\ rcvq' = SubSeq(rcvq, k + 1, Len(rcvq))
      /\ res' = k /\ place' = 0
      /\ taken' = taken + k

(* recv counts; without -m only what fills payload_len bytes, which some   *)
(* frames do on a raw socket although they are not whole.                  *)
RecvLoop ==
  /\ sapp = "recv"
  /\ Fetch(IF use_mmsg THEN BurstMsgs ELSE 1)
  /\ \E fills \in BOOLEAN :
       /\ ~ raw => (fills <=> buf'[0].whole)
       /\ buf'[0].whole => fills
       /\ rx' = rx + (IF use_mmsg \/ fills THEN res' ELSE 0)
  /\ UNCHANGED << sapp, raw, use_mmsg, spc, sndVars, tx, dropped, serial,
                  replies, measured >>

RecvBurst ==
  /\ sapp \in {"server", "client"} /\ spc = "recv"
  /\ Fetch(IF use_mmsg THEN BurstMsgs ELSE 1)
  /\ spc' = IF sapp = "server" THEN "turn" ELSE "measure"
  /\ UNCHANGED << sapp, raw, use_mmsg, sndVars, statVars, serial, replies,
                  measured >>

(* swap_ether_addr, swap_ipv4_addr and swap_udp_port. *)
SwappedFrame(f) == [f EXCEPT !.turned = ~ @]

(* server: turn the headers of raw frames round, ... *)
Turn ==
  /\ spc = "turn"
  /\ buf' = [s \in Slots |-> IF raw /\ s < res THEN SwappedFrame(buf[s])
                                               ELSE buf[s]]
  /\ spc' = "reply"
  /\ UNCHANGED << sapp, raw, use_mmsg, rcvq, src_addresses, res, place, sndVars,
                  statVars, serial, taken, replies, measured >>

(* Mutant: every reply goes to the sender of the first frame. *)
ReplyToFirst(s) ==
  [serial |-> buf[s].serial, from |-> buf[s].from,
   to |-> IF ~ raw THEN src_addresses[0]
          ELSE IF buf[s].turned THEN buf[s].from ELSE "server"]

(* Where the reply in a place goes: a raw one where its header says.       *)
Reply(s) ==
  [serial |-> buf[s].serial, from |-> buf[s].from,
   to |-> IF ~ raw THEN src_addresses[s]
          ELSE IF buf[s].turned THEN buf[s].from ELSE "server"]

(* ... and send them back: what the kernel does not take is dropped.       *)
SendReplies ==
  /\ spc = "reply"
  /\ \E k \in 0 .. res :
       replies' = replies \o [s \in 1..k |-> Reply(s - 1)]
  /\ spc' = "recv"
  /\ UNCHANGED << sapp, raw, use_mmsg, rcvq, buf, src_addresses, res, place,
                  sndVars, statVars, serial, taken, measured >>

(* What pong_body makes of the frame in a place; without -m it looks at    *)
(* the length that recv returned.                                          *)
Measure ==
  measured' = IF use_mmsg \/ buf[place].whole
                THEN Append(measured, [serial |-> buf[place].serial,
                                       whole |-> buf[place].whole])
                ELSE measured

(* Mutant: the whole array is measured. *)
MeasureAll ==
  /\ spc = "measure" /\ place < BurstMsgs
  /\ Measure
  /\ place' = place + 1
  /\ UNCHANGED << sapp, raw, use_mmsg, rcvq, buf, src_addresses, spc, res,
                  sndVars, statVars, serial, taken, replies >>

(* client: measure one received frame after the other. *)
MeasureNext ==
  /\ spc = "measure" /\ place < res
  /\ Measure
  /\ place' = place + 1
  /\ UNCHANGED << sapp, raw, use_mmsg, rcvq, buf, src_addresses, spc, res,
                  sndVars, statVars, serial, taken, replies >>

MeasuredAll ==
  /\ spc = "measure" /\ place >= res
  /\ spc' = "recv"
  /\ UNCHANGED << sapp, raw, use_mmsg, rcvq, buf, src_addresses, res, place,
                  sndVars, statVars, serial, taken, replies, measured >>

SocketsNext ==
  \/ FrameArrives
  \/ BurstBegins \/ SendMmsg \/ SendNext \/ BurstEnds
  \/ RecvLoop \/ RecvBurst \/ Turn \/ SendReplies \/ MeasureNext \/ MeasuredAll

-----------------------------------------------------------------------------
(* Properties. *)

(* The statistics agree with what the kernel did: every packet of send is  *)
(* sent or dropped, every datagram that recv takes is received.            *)
SocketAccounts ==
  /\ sapp = "send" => tx = given /\ dropped = tries - given
  /\ sapp = "recv" /\ ~ raw => rx = taken

(***************************************************************************)
(* The server answers each frame at most once, in the order of arrival,    *)
(* and to the application it came from, although bursts of different       *)
(* senders pass through the same buffers and the kernel takes only some.   *)
(***************************************************************************)
RepliesToSenders ==
  /\ \A k \in DOMAIN replies : replies[k].to = replies[k].from
  /\ \A k, l \in DOMAIN replies : k < l => replies[k].serial < replies[l].serial

(***************************************************************************)
(* A stamp of the client is measured by the first frame that brings it and *)
(* by no whole frame after it, although the buffers keep the frames of     *)
(* earlier bursts.  What is left out is the raw client with -m, which      *)
(* looks at no length: there a short frame of others in a buffer that held *)
(* an echo measures the stamp of that echo again.                          *)
(***************************************************************************)
WholeFramesMeasuredOnce ==
  \A k, l \in DOMAIN measured :
    k < l /\ measured[k].serial = measured[l].serial /\ measured[l].serial # 0
      => raw /\ use_mmsg /\ ~ measured[l].whole
=============================================================================
