------------------------------ MODULE Testapp ------------------------------
(***************************************************************************)
(* The deprecated program src/testapp: main runs the application that its  *)
(* first argument names, and that application alone.                       *)
(***************************************************************************)
EXTENDS TestappDpdk, TestappClientst, TestappSockets

VARIABLE command   \* argv[0] of run_command

SocketApps == {"send", "recv", "server", "client"}
Clientsts == {"clientst", "dpdk-clientst"}

(* commands_n; an application that does not run stays as it would begin.   *)
Init ==
  /\ command \in DpdkApps \cup SocketApps \cup Clientsts
  /\ DpdkInit /\ ClientstInit /\ SocketsInit
  /\ dapp = IF command \in DpdkApps THEN command ELSE "dpdk-send"
  /\ sapp = IF command \in SocketApps THEN command ELSE "send"
  /\ command \notin SocketApps => ~ raw /\ ~ use_mmsg
  /\ IF command \in Clientsts THEN Dpdk <=> command = "dpdk-clientst"
                              ELSE transport = "udp"

(* commands_f[i](argc, argv) *)
Next ==
  \/ /\ command \in DpdkApps /\ DpdkNext
     /\ UNCHANGED << command, clientstVars, socketVars >>
  \/ /\ command \in Clientsts /\ ClientstNext
     /\ UNCHANGED << command, dpdkVars, socketVars >>
  \/ /\ command \in SocketApps /\ SocketsNext
     /\ UNCHANGED << command, dpdkVars, clientstVars >>

Spec == Init /\ [][Next]_<< command, dpdkVars, clientstVars, socketVars >>
=============================================================================
