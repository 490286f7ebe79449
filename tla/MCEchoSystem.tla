---------------------------- MODULE MCEchoSystem ----------------------------
EXTENDS EchoSystem

(* A thread that sends never waits for an echo. *)
Live == {m \in [app : {"client", "clientst"}, clientBlocks : BOOLEAN,
                serverBlocks : BOOLEAN] :
           m.app = "clientst" => ~ m.clientBlocks}
=============================================================================
