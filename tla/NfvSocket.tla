----------------------------- MODULE NfvSocket -----------------------------
(***************************************************************************)
(* An NFV socket as the loops of testapp-rewrite have it (nfv_socket.c):   *)
(* the factory makes it of the class that conf->sock_type asks for, and    *)
(* every method after that is the one of that class, through the pointers  *)
(* of the base class or through its class code.                            *)
(***************************************************************************)
EXTENDS NfvSocketDpdk, NfvSocketSimple

CONSTANT SockTypes   \* the values of conf->sock_type to consider

ASSUME FactoryAssumption == SockTypes \subseteq {"dgram", "raw", "dpdk"}

VARIABLE sock_type   \* of the configuration, as the factory looks at it

(* nfv_socket_factory_get: the class that is not made stays untouched. *)
SocketInit ==
  /\ sock_type \in SockTypes
  /\ Init /\ SimpleInit
  /\ IF sock_type = "dpdk"
       THEN mode = CHOOSE m \in Modes : TRUE
       ELSE mode.raw <=> sock_type = "raw"

(* NFV_CALL_RETURN, or the method that the factory put into the base.  *)
SocketNext ==
  \/ /\ sock_type \in {"dgram", "raw"} /\ SimpleNext
     /\ UNCHANGED << sock_type, vars >>
  \/ /\ sock_type = "dpdk" /\ Next
     /\ UNCHANGED << sock_type, simpleVars >>

SocketSpec == SocketInit /\ [][SocketNext]_<< sock_type, vars, simpleVars >>
=============================================================================
