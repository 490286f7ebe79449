------------------------------ MODULE Startup ------------------------------
(***************************************************************************)
(* The start of an application of testapp-rewrite, commands.c with cores.c *)
(* and threads.h: its socket, the cores it may use, the placement of its   *)
(* loops on cores and their start, until every loop runs.                  *)
(*                                                                         *)
(* A core is its number.  Unsigned numbers have UintBits bits.  Of a loop  *)
(* only its beginning is modelled: it may have to wait for the clock that  *)
(* tsc_loop stores, and it divides by the rate.  Loops never return, so    *)
(* that thread_join is not reached.                                        *)
(***************************************************************************)
EXTENDS Arguments, Integers

CONSTANTS
  CoreMax,     \* RTE_MAX_LCORE
  UintBits,    \* the width of core_t
  AllowedSets  \* the sets of CPUs the process may be started with

ASSUME StartupAssumption ==
  /\ CoreMax \in Nat \ {0}
  /\ UintBits \in Nat /\ 2 ^ UintBits \in Nat
  /\ \A S \in AllowedSets : /\ S # {} /\ IsFiniteSet(S)
                            /\ S \subseteq 0 .. 2 ^ UintBits - 2
  /\ CoreMax < 2 ^ UintBits

VARIABLES
  allowed,  \* the CPUs the kernel allows the process (or the lcores of EAL)
  fd,       \* conf->sock_fd: "closed", "blocking" or "nonblocking"
  cores,    \* cores_set
  master,   \* cores_master, or the master lcore
  core_id, i,  \* of the placement loop; i also of the loop that starts
  workers,  \* workers_info: for each place a core and a loop
  thread,   \* what the thread of each place does
  runsOn,   \* the cores each thread may run on
  clock     \* whether tsc_loop has stored a first value

vars == << line, pc, argind, optind, parameter_index, conf, allowed, fd,
           cores, master, core_id, i, workers, thread, runsOn, clock >>
startVars == << allowed, fd, cores, master, core_id, i, workers, thread,
                runsOn, clock >>

UseDpdk == conf.type = "dpdk"
Lcores == {c \in allowed : c < CoreMax}
None == [loop |-> "uninitialised"]

\* The loops of each command; the last one is for the main thread.
Loops ==
  CASE line.cmd \in {"client", "dpdk-client"} ->
         << "tsc_loop", "client_loop", "send_loop" >>
    [] line.cmd \in {"clientst", "dpdk-clientst"} -> << "client_loop" >>
    [] line.cmd \in {"server", "dpdk-server"} -> << "server_loop" >>
    [] line.cmd \in {"send", "dpdk-send"} -> << "send_loop" >>
    [] OTHER -> << "recv_loop" >>
N == Len(Loops)
Places == 0 .. N - 1

Init ==
  /\ ArgumentsInit
  /\ allowed \in AllowedSets
  /\ fd = "closed" /\ cores = {} /\ master = 0
  /\ core_id = 0 /\ i = 0
  /\ workers = << >> /\ thread = << >> /\ runsOn = << >>
  /\ clock = FALSE

Parse == ParseStep /\ UNCHANGED startVars

(***************************************************************************)
(* config_initialize_socket: sock_create_dgram, sock_create_raw, dpdk_init.*)
(* Any of their system calls may fail; what was opened is closed again.    *)
(***************************************************************************)
\* A mutant: the flag is tested the wrong way round.
SockCreateDgramInverted ==
  /\ conf.type = "dgram"
  /\ fd' = IF conf.block THEN "nonblocking" ELSE "blocking"

SockCreateDgram ==
  /\ conf.type = "dgram"
  /\ fd' = IF conf.block THEN "blocking" ELSE "nonblocking"
SockCreateRaw == conf.type = "raw" /\ fd' = "blocking"
DpdkInit == UseDpdk /\ Lcores # {} /\ UNCHANGED fd

InitializeSocket ==
  /\ pc = "socket"
  /\ SockCreateDgram \/ SockCreateRaw \/ DpdkInit
  /\ pc' = "cores"
  /\ UNCHANGED << argVars, allowed, cores, master, core_id, i, workers,
                  thread, runsOn, clock >>

SocketFails ==
  /\ pc = "socket" /\ pc' = "exited"
  /\ UNCHANGED << argVars, startVars >>

(***************************************************************************)
(* cores_next, without wrapping.  MinusOne is what -1 becomes as a core_t, *)
(* and the first core after it is 0.                                       *)
(***************************************************************************)
MinusOne == 2 ^ UintBits - 1

\* A mutant: the master core is not skipped.
CoresNextAny(S, m, c, skipMaster) ==
  LET later == {d \in S : (c = MinusOne \/ d > c) /\ d < CoreMax}
  IN  IF later = {} THEN CoreMax
      ELSE CHOOSE d \in later : \A e \in later : d <= e

CoresNext(S, m, c, skipMaster) ==
  IF ~UseDpdk /\ Cardinality(S) < 2
  THEN IF skipMaster \/ c >= m THEN CoreMax ELSE m
  ELSE LET later == {d \in S : /\ c = MinusOne \/ d > c
                               /\ d < CoreMax
                               /\ ~(skipMaster /\ d = m)}
       IN  IF later = {} THEN CoreMax
           ELSE CHOOSE d \in later : \A e \in later : d <= e

(***************************************************************************)
(* cores_init (the master was 0 before) and check_cores.  The affinity may *)
(* be unreadable; with DPDK EAL knows the cores, and any may be master.    *)
(***************************************************************************)
CoresInit ==
  /\ pc = "cores"
  /\ IF UseDpdk
     THEN cores' = Lcores /\ master' \in Lcores
     ELSE /\ cores' \in {allowed, {}}
          /\ master' = CoresNext(cores', 0, MinusOne, FALSE)
  /\ pc' = IF Cardinality(cores') < N THEN "exited" ELSE "place"
  /\ core_id' = CoresNext(cores', master', MinusOne, TRUE)
  /\ workers' = [k \in Places |-> None]
  /\ thread' = [k \in Places |-> "none"]
  /\ runsOn' = [k \in Places |-> allowed]
  /\ UNCHANGED << argVars, allowed, fd, i, clock >>

(***************************************************************************)
(* command_body: one pass of CORES_FOREACH_SLAVE, then the last loop.      *)
(***************************************************************************)
\* A mutant: the placement goes on while there are cores.
PlaceSlaveAll ==
  /\ pc = "place" /\ core_id < CoreMax
  /\ workers' = [workers EXCEPT ![i] = [core |-> core_id, loop |-> Loops[i+1]]]
  /\ i' = i + 1
  /\ core_id' = CoresNext(cores, master, core_id, TRUE)
  /\ UNCHANGED << argVars, pc, allowed, fd, cores, master, thread, runsOn,
                  clock >>

PlaceSlave ==
  /\ pc = "place" /\ core_id < CoreMax /\ i < N - 1
  /\ workers' = [workers EXCEPT ![i] = [core |-> core_id, loop |-> Loops[i+1]]]
  /\ i' = i + 1
  /\ core_id' = CoresNext(cores, master, core_id, TRUE)
  /\ UNCHANGED << argVars, pc, allowed, fd, cores, master, thread, runsOn,
                  clock >>

PlaceMaster ==
  /\ pc = "place" /\ (core_id >= CoreMax \/ i >= N - 1)
  /\ workers' = [workers EXCEPT ![i] = [core |-> master, loop |-> Loops[i+1]]]
  /\ i' = 0
  /\ pc' = "start"
  /\ UNCHANGED << argVars, allowed, fd, cores, master, core_id, thread,
                  runsOn, clock >>

(***************************************************************************)
(* thread_start: a pthread that will set its own affinity, or a lcore that *)
(* already is where it should be.                                          *)
(***************************************************************************)
ThreadStart ==
  /\ pc = "start" /\ i < N - 1
  /\ thread' = [thread EXCEPT ![i] = IF UseDpdk THEN "body" ELSE "starter"]
  /\ runsOn' = [runsOn EXCEPT ![i] = IF UseDpdk THEN {workers[i].core} ELSE @]
  /\ i' = i + 1
  /\ UNCHANGED << argVars, pc, allowed, fd, cores, master, core_id, workers,
                  clock >>

ThreadStartFails ==
  /\ pc = "start" /\ i < N - 1
  /\ pc' = "exited"
  /\ UNCHANGED << argVars, startVars >>

\* A mutant: the last slave is taken for the main thread's.
StartMasterEarly ==
  /\ pc = "start" /\ i >= N - 2
  /\ runsOn' = [runsOn EXCEPT ![N - 1] =
       IF workers[N - 1] # None /\ (UseDpdk \/ workers[N - 1].core \in allowed)
       THEN {workers[N - 1].core} ELSE @]
  /\ thread' = [thread EXCEPT ![N - 1] = "body"]
  /\ pc' = "started"
  /\ UNCHANGED << argVars, allowed, fd, cores, master, core_id, i, workers,
                  clock >>

\* The main thread moves to the master core, if it can, and runs its loop.
StartMaster ==
  /\ pc = "start" /\ i >= N - 1
  /\ runsOn' = [runsOn EXCEPT ![N - 1] =
       IF workers[N - 1] # None /\ (UseDpdk \/ workers[N - 1].core \in allowed)
       THEN {workers[N - 1].core} ELSE @]
  /\ thread' = [thread EXCEPT ![N - 1] = "body"]
  /\ pc' = "started"
  /\ UNCHANGED << argVars, allowed, fd, cores, master, core_id, i, workers,
                  clock >>

(***************************************************************************)
(* The threads.  What an uninitialised place leads to is undefined: the    *)
(* core it names may be refused, or the process faults.                    *)
(***************************************************************************)
Running == pc \notin {"exited", "aborted"}

ThreadStarter(k) ==
  /\ Running /\ thread[k] = "starter"
  /\ IF workers[k] # None /\ workers[k].core \in allowed
     THEN /\ thread' = [thread EXCEPT ![k] = "body"]
          /\ runsOn' = [runsOn EXCEPT ![k] = {workers[k].core}]
     ELSE /\ thread' = [thread EXCEPT ![k] = "returned"]
          /\ UNCHANGED runsOn
  /\ UNCHANGED << argVars, pc, allowed, fd, cores, master, core_id, i,
                  workers, clock >>

Waits(k) == /\ line.cmd \in {"client", "dpdk-client"}
            /\ workers[k].loop \in {"send_loop", "client_loop"}
Divides(k) == workers[k].loop \in {"send_loop", "client_loop"}

LoopBegins(k) ==
  /\ Running /\ thread[k] = "body" /\ workers[k] # None
  /\ Divides(k) => conf.rate = "positive"
  /\ Waits(k) => clock
  /\ thread' = [thread EXCEPT ![k] = "running"]
  /\ clock' = (clock \/ workers[k].loop = "tsc_loop")
  /\ UNCHANGED << argVars, pc, allowed, fd, cores, master, core_id, i,
                  workers, runsOn >>

LoopFaults(k) ==
  /\ Running /\ thread[k] \in {"starter", "body"}
  /\ \/ thread[k] = "body" /\ Divides(k) /\ conf.rate = "zero"
     \/ workers[k] = None
  /\ pc' = "aborted"
  /\ UNCHANGED << argVars, startVars >>

Thread(k) == ThreadStarter(k) \/ LoopBegins(k) \/ LoopFaults(k)

Main ==
  \/ Parse \/ InitializeSocket \/ SocketFails \/ CoresInit
  \/ PlaceSlave \/ PlaceMaster
  \/ ThreadStart \/ ThreadStartFails \/ StartMaster

Next == Main \/ \E k \in DOMAIN thread : Thread(k)

\* Every thread has a core or shares one with threads the scheduler preempts.
MaxLoops == 3
Spec ==
  /\ Init /\ [][Next]_vars /\ WF_vars(Main)
  /\ \A k \in 0 .. MaxLoops - 1 : WF_vars(k \in DOMAIN thread /\ Thread(k))

-----------------------------------------------------------------------------
StartupTypeOK ==
  /\ ArgumentsTypeOK
  /\ pc \in {"main", "arguments", "options", "addresses", "socket", "cores",
             "place", "start", "sleep", "started", "exited", "aborted"}
  /\ allowed \in AllowedSets /\ cores \in {allowed, Lcores, {}}
  /\ fd \in {"closed", "blocking", "nonblocking"}
  /\ master \in 0 .. CoreMax /\ core_id \in 0 .. CoreMax \union {MinusOne}
  /\ i \in 0 .. N - 1
  /\ DOMAIN workers \in {{}, Places}
  /\ \A k \in DOMAIN workers :
       /\ workers[k] = None \/ workers[k].core \in 0 .. CoreMax
       /\ thread[k] \in {"none", "starter", "body", "running", "returned",
                         "refused", "unclocked"}
       /\ runsOn[k] \in {allowed} \union {{c} : c \in allowed}
  /\ clock \in BOOLEAN

LoopRuns == \E k \in DOMAIN thread : thread[k] = "running"
Helped == IF line.cmd \in DpdkCommands THEN "closed"
          ELSE IF Given("-B") THEN "blocking" ELSE "nonblocking"

\* The help of both programs: "-B: use blocking sockets instead of nonblocking
\* ones", for UDP and raw sockets alike (config.c:90-93,
\* testapp/common.c:72-73).  Neither program does so: sock_create_raw of
\* testapp-rewrite never asks for O_NONBLOCK, and the deprecated one always
\* does.
SocketAsHelpSays == LoopRuns /\ Plain => fd = Helped

\* What is left of it: once a loop runs its socket is open, or there is none
\* if the application is one of DPDK, and a UDP socket of testapp-rewrite, or
\* any of the deprecated program without -B, waits or not as the help says.
UdpSocketAsAsked ==
  LoopRuns /\ Plain =>
    /\ fd = "closed" <=> line.cmd \in DpdkCommands
    /\ (IF Rewrite THEN ~Given("-R") ELSE ~Given("-B")) => fd = Helped

\* No two loops share a core, the last one of a command is on the master core
\* and the others are not, whatever CPUs the process was given: the time stamp
\* loop never shares the core of the loop that reads its clock
\* (commands.c:133-155, cores.c:65-92).  In the deprecated program only the
\* threads of dpdk-client are placed (testapp/dpdk-client.c:275-304).
OwnCores ==
  Rewrite \/ line.cmd \in DpdkCommands =>
    \A k, l \in DOMAIN thread :
      /\ thread[k] \in {"running", "unclocked"}
      /\ thread[l] \in {"running", "unclocked"} /\ k # l
      => runsOn[k] \intersect runsOn[l] = {}

\* Unless "-" is an argument, which neither options_parse nor args_parse
\* takes so that they alternate for ever, and if all CPUs are below CoreMax,
\* the application stops, or all loops of its command run: none waits for a
\* clock that no thread stores (commands.c:95-189, config.c:579-582,
\* loops.c:219-221).  The client of the deprecated program goes on without a
\* thread that could not be created, and does not wait for the clock
\* (testapp/client.c:398-407).
StartsOrStops ==
  (allowed = Lcores /\ \A k \in 1 .. Len(line.args) : line.args[k] # "-")
    ~> \/ ~Running
       \/ /\ pc = "started"
          /\ \A k \in DOMAIN thread :
               \/ thread[k] = "running"
               \/ ~Rewrite /\ thread[k] \in {"refused", "unclocked"}
=============================================================================
