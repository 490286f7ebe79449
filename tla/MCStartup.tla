----------------------------- MODULE MCStartup -----------------------------
(* Command lines of up to two arguments, and longer ones that alternate.   *)
EXTENDS TestappStartup

Long == {<< "ip", "mac", "ip", "mac" >>, << "ip", "mac", "ip", "mac", "ip" >>,
         << "-r", "word", "-r", "ip" >>, << "-B", "--", "ip" >>,
         << "ip", "-B", "mac", "--", "-x" >>, << "-R", "word", "ip", "-B" >>,
         << "-r", "--", "-B" >>, << "-r", "--", "ip" >>, << "ip", "-r", "ip", "-" >>}
MCLists == {<< >>} \union {<< a >> : a \in Texts}
             \union {<< a, b >> : a, b \in Texts} \union Long
Programs == {"testapp-rewrite", "testapp"}
MCCommandLines ==
  [program : Programs, cmd : Commands \union {"typo"}, args : {<< >>, << "-B" >>}]
    \union [program : {"testapp-rewrite"}, cmd : {"client", "dpdk-send"},
            args : MCLists]
    \union [program : {"testapp"}, cmd : {"client", "dpdk-client"},
            args : MCLists]
ManyCpus == {{0, 5, 6}, {5}}
MCAllowedSets == ((SUBSET (0 .. 4)) \ {{}}) \union ManyCpus
=============================================================================
