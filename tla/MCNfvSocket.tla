---------------------------- MODULE MCNfvSocket ----------------------------
EXTENDS NfvSocket, TLC

Udp == [raw : {FALSE}, mmsg : BOOLEAN, blocking : BOOLEAN, requests : {TRUE}]
Raw == [raw : {TRUE}, mmsg : BOOLEAN, blocking : {TRUE}, requests : BOOLEAN]
UdpAndRaw == Udp \cup Raw

(* The mbufs are interchangeable. *)
Perms == Permutations(Mbufs)
=============================================================================
