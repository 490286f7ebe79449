----------------------------- MODULE EchoSystem -----------------------------
(***************************************************************************)
(* The latency test end to end: the application client (a thread that      *)
(* sends, a thread that receives) or clientst (one thread for both), the   *)
(* application server, their kernel sockets and a network that loses       *)
(* frames.  Frames are counted, not told apart; what matters is who waits  *)
(* for whom: with blocking sockets recv returns only when a whole burst is *)
(* there.                                                                  *)
(***************************************************************************)
EXTENDS Naturals

CONSTANTS
  Modes,      \* the configurations to consider
  BurstSize,  \* conf->bst_size of both applications
  Backlog,    \* frames a socket keeps waiting
  InFlight    \* bound: frames on the network in each direction

ASSUME EchoAssumption ==
  /\ Modes \subseteq [app : {"client", "clientst"},
                      clientBlocks : BOOLEAN, serverBlocks : BOOLEAN]
  /\ BurstSize \in Nat \ {0} /\ Backlog \in Nat /\ InFlight \in Nat

VARIABLES
  mode,
  due,             \* tsc_cur > tsc_next: a burst is to be sent
  cpc, cnum,       \* client_loop: its next step, num_recv
  spc, snum,       \* server_loop: its next step, num_recv
  cq, sq,          \* frames waiting in the two sockets
  there, back      \* frames on the network

vars == << mode, due, cpc, cnum, spc, snum, cq, sq, there, back >>

Least(a, b) == IF a < b THEN a ELSE b

(* The second reading of the clock is past the first, tsc_next. *)
Init ==
  /\ mode \in Modes
  /\ due = TRUE
  /\ cpc = "top" /\ cnum = 0
  /\ spc = "recv" /\ snum = 0
  /\ cq = 0 /\ sq = 0 /\ there = 0 /\ back = 0

(* tsc_incr has passed since the last burst. *)
BecomeDue ==
  /\ ~ due /\ due' = TRUE
  /\ UNCHANGED << mode, cpc, cnum, spc, snum, cq, sq, there, back >>

(* prepare_send_burst: what the socket refuses is lost like the rest. *)
Burst ==
  /\ due /\ due' = FALSE
  /\ there' = Least(there + BurstSize, InFlight)

SendLoop ==
  /\ mode.app = "client" /\ Burst
  /\ UNCHANGED << mode, cpc, cnum, spc, snum, cq, sq, back >>

(* client_loop, up to its recv; only clientst sends here. *)
ClientTop ==
  /\ cpc = "top" /\ cpc' = "recv"
  /\ IF mode.app = "clientst" /\ due THEN Burst ELSE UNCHANGED << due, there >>
  /\ UNCHANGED << mode, cnum, spc, snum, cq, sq, back >>

ClientTake ==
  /\ cpc = "recv" /\ cnum < BurstSize /\ cq > 0
  /\ cq' = cq - 1 /\ cnum' = cnum + 1
  /\ UNCHANGED << mode, due, cpc, spc, snum, sq, there, back >>

(* Mutant: a socket that does not block waits all the same. *)
ReturnsFull(n, q, blocks) == n = BurstSize

(* recv returns: a full burst, or what there was. *)
Returns(n, q, blocks) == n = BurstSize \/ (q = 0 /\ ~ blocks)

(* The echoes are measured, and client_loop starts over. *)
ClientRecv ==
  /\ cpc = "recv" /\ Returns(cnum, cq, mode.clientBlocks)
  /\ cpc' = "top" /\ cnum' = 0
  /\ UNCHANGED << mode, due, spc, snum, cq, sq, there, back >>

ServerTake ==
  /\ spc = "recv" /\ snum < BurstSize /\ sq > 0
  /\ sq' = sq - 1 /\ snum' = snum + 1
  /\ UNCHANGED << mode, due, cpc, cnum, spc, cq, there, back >>

ServerRecv ==
  /\ spc = "recv" /\ Returns(snum, sq, mode.serverBlocks)
  /\ spc' = "send_back"
  /\ UNCHANGED << mode, due, cpc, cnum, snum, cq, sq, there, back >>

(* Mutant: used_buffers was not reset, so nothing is left to be sent. *)
ServerSendNothing ==
  /\ spc = "send_back" /\ spc' = "recv"
  /\ snum' = 0
  /\ UNCHANGED << mode, due, cpc, cnum, cq, sq, there, back >>

ServerSendBack ==
  /\ spc = "send_back" /\ spc' = "recv"
  /\ back' = Least(back + snum, InFlight) /\ snum' = 0
  /\ UNCHANGED << mode, due, cpc, cnum, cq, sq, there >>

(* The network and the sockets' queues (external). *)
DeliverThere ==
  /\ there > 0 /\ there' = there - 1
  /\ sq' = Least(sq + 1, Backlog)
  /\ UNCHANGED << mode, due, cpc, cnum, spc, snum, cq, back >>

DeliverBack ==
  /\ back > 0 /\ back' = back - 1
  /\ cq' = Least(cq + 1, Backlog)
  /\ UNCHANGED << mode, due, cpc, cnum, spc, snum, sq, there >>

Lose ==
  /\ \/ there > 0 /\ there' = there - 1 /\ UNCHANGED back
     \/ back > 0 /\ back' = back - 1 /\ UNCHANGED there
  /\ UNCHANGED << mode, due, cpc, cnum, spc, snum, cq, sq >>

ClientLoop == ClientTop \/ ClientTake \/ ClientRecv
ServerLoop == ServerTake \/ ServerRecv \/ ServerSendBack

Next ==
  \/ BecomeDue \/ SendLoop \/ ClientLoop \/ ServerLoop
  \/ DeliverThere \/ DeliverBack \/ Lose

(***************************************************************************)
(* Time passes, each thread runs, and the network does not lose every      *)
(* frame for ever.                                                         *)
(***************************************************************************)
Fairness ==
  /\ WF_vars(BecomeDue)
  /\ WF_vars(SendLoop) /\ WF_vars(ClientLoop) /\ WF_vars(ServerLoop)
  /\ SF_vars(DeliverThere) /\ SF_vars(DeliverBack)

Spec == Init /\ [][Next]_vars /\ Fairness

-----------------------------------------------------------------------------
(* Properties. *)

(* A burst that is due is sent, whatever the network loses: the test keeps *)
(* its rate (send_loop, client_loop).                                      *)
KeepsSending == due ~> ~ due

(* Echoes never stop coming back, as long as not everything is lost.       *)
EchoesKeepComing == []<>(cnum > 0)
=============================================================================
