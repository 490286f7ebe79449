--------------------------- MODULE TestappStartup ---------------------------
(***************************************************************************)
(* The start of an application of the deprecated program testapp: common.c *)
(* and the *_body functions, from the command line until its loops run, in *)
(* the variables of Startup.  Place 0 is tsc_body, 1 pong_body, the last   *)
(* one main_loop.  Addresses are not checked, nor how many there are; -B   *)
(* is read but never used; and the client, instead of waiting for the      *)
(* clock that tsc_body stores, sleeps for a second: a loop that has begun  *)
(* while the clock still was 0 is "unclocked".                             *)
(***************************************************************************)
EXTENDS Startup

IsDpdk == line.cmd \in DpdkCommands
IsClient == line.cmd \in {"client", "dpdk-client"}

(***************************************************************************)
(* run_command, and the configuration each *_body starts with.             *)
(***************************************************************************)
BodyRuns ==
  /\ pc = "main"
  /\ pc' = IF line.cmd \in Commands THEN "arguments" ELSE "exited"
  /\ conf' = [conf EXCEPT !.type = IF IsDpdk THEN "none" ELSE "dgram"]
  /\ UNCHANGED << line, argind, optind, parameter_index >>

(***************************************************************************)
(* parameters_parse with options_parse and args_parse.  -R also concerns   *)
(* DPDK applications, which do not use it; a fifth address is skipped.     *)
(***************************************************************************)
OptionParsed ==
  /\ ReadOption
  /\ IF args[optind] = "-R" THEN conf' = [conf EXCEPT !.type = "raw"]
     ELSE SetOption

AddressParsed ==
  /\ pc = "addresses" /\ AtAddress
  /\ argind' = argind + 1
  /\ parameter_index' = parameter_index + 1
  /\ UNCHANGED << line, pc, optind, conf >>

ParametersParse ==
  \/ ParseNext
  \/ OptionParsed \/ OptionWrong \/ OptionsDone
  \/ AddressParsed \/ AddressesDone

Parameters == (BodyRuns \/ ParametersParse) /\ UNCHANGED startVars

(***************************************************************************)
(* sock_create or dpdk_init.  Every body asks for O_NONBLOCK, and both     *)
(* kinds of socket get it.                                                 *)
(***************************************************************************)
Dgram == conf.type = "dgram" /\ fd' = "nonblocking"
Raw == conf.type = "raw" /\ fd' = "nonblocking"
SockCreate == ~IsDpdk /\ (Dgram \/ Raw) /\ UNCHANGED << cores, master >>
PortInit ==
  IsDpdk /\ Lcores # {} /\ cores' = Lcores /\ master' \in Lcores /\ UNCHANGED fd

Opens ==
  /\ pc = "socket"
  /\ SockCreate \/ PortInit
  /\ pc' = "start"
  /\ core_id' = MinusOne
  /\ workers' = [k \in Places |-> None]
  /\ thread' = [k \in Places |-> "none"]
  /\ runsOn' = [k \in Places |-> allowed]
  /\ UNCHANGED << argVars, allowed, i, clock >>

(***************************************************************************)
(* The threads of client, whose creation is not checked; they run on any   *)
(* core.  Between the first and the second the main thread sleeps.         *)
(***************************************************************************)
PthreadCreate ==
  /\ pc = "start" /\ i < N - 1 /\ ~IsDpdk
  /\ \E created \in BOOLEAN :
       thread' = [thread EXCEPT ![i] = IF created THEN "body" ELSE "refused"]
  /\ workers' = [workers EXCEPT ![i] = [core |-> 0, loop |-> Loops[i + 1]]]
  /\ i' = i + 1
  /\ pc' = IF i = 0 THEN "sleep" ELSE "start"
  /\ UNCHANGED << argVars, allowed, fd, cores, master, core_id, runsOn, clock >>

(***************************************************************************)
(* The threads of dpdk-client: each on the next lcore that is not the      *)
(* master's; without one, or if the launch fails, the application ends.    *)
(***************************************************************************)
NextLcore(c) ==
  LET later == {d \in cores : (c = MinusOne \/ d > c) /\ d # master}
  IN  IF later = {} THEN CoreMax
      ELSE CHOOSE d \in later : \A e \in later : d <= e

RemoteLaunch ==
  /\ pc = "start" /\ i < N - 1 /\ IsDpdk
  /\ core_id' = NextLcore(core_id)
  /\ core_id' # CoreMax
  /\ workers' = [workers EXCEPT ![i] = [core |-> core_id', loop |-> Loops[i + 1]]]
  /\ runsOn' = [runsOn EXCEPT ![i] = {core_id'}]
  /\ thread' = [thread EXCEPT ![i] = "body"]
  /\ i' = i + 1
  /\ pc' = IF i = 0 THEN "sleep" ELSE "start"
  /\ UNCHANGED << argVars, allowed, fd, cores, master, clock >>

LaunchFails ==
  /\ pc = "start" /\ i < N - 1 /\ IsDpdk
  /\ pc' = "exited"
  /\ UNCHANGED << argVars, startVars >>

\* sleep(1): how far the other thread comes in the meantime is left open.
Sleep == pc = "sleep" /\ pc' = "start" /\ UNCHANGED << argVars, startVars >>

MainLoop ==
  /\ pc = "start" /\ i = N - 1
  /\ thread' = [thread EXCEPT ![i] = "body"]
  /\ workers' = [workers EXCEPT ![i] = [core |-> master, loop |-> Loops[i + 1]]]
  /\ runsOn' = [runsOn EXCEPT ![i] = IF IsDpdk THEN {master} ELSE @]
  /\ pc' = "started"
  /\ UNCHANGED << argVars, allowed, fd, cores, master, core_id, i, clock >>

(***************************************************************************)
(* The beginning of a loop: the interval between bursts, a division by the *)
(* rate, and in a client the first reading of the clock.                   *)
(***************************************************************************)
HasRate(k) == workers[k].loop = "send_loop"
ReadsZero(k) == IsClient /\ workers[k].loop # "tsc_loop" /\ ~clock

TestappLoopBegins(k) ==
  /\ Running /\ thread[k] = "body"
  /\ HasRate(k) => conf.rate = "positive"
  /\ thread' = [thread EXCEPT ![k] =
                  IF ReadsZero(k) THEN "unclocked" ELSE "running"]
  /\ clock' = (clock \/ workers[k].loop = "tsc_loop")
  /\ UNCHANGED << argVars, pc, allowed, fd, cores, master, core_id, i,
                  workers, runsOn >>

TestappLoopFaults(k) ==
  /\ Running /\ thread[k] = "body" /\ HasRate(k) /\ conf.rate = "zero"
  /\ pc' = "aborted"
  /\ UNCHANGED << argVars, startVars >>

TestappMain ==
  \/ Parameters \/ Opens \/ SocketFails
  \/ PthreadCreate \/ RemoteLaunch \/ LaunchFails \/ Sleep \/ MainLoop
TestappThread(k) == TestappLoopBegins(k) \/ TestappLoopFaults(k)

(***************************************************************************)
(* Either program.                                                         *)
(***************************************************************************)
EitherMain == (Rewrite /\ Main) \/ (~Rewrite /\ TestappMain)
EitherThread(k) ==
  (Rewrite /\ Thread(k)) \/ (~Rewrite /\ TestappThread(k))
EitherNext == EitherMain \/ \E k \in DOMAIN thread : EitherThread(k)

EitherSpec ==
  /\ Init /\ [][EitherNext]_vars /\ WF_vars(EitherMain)
  /\ \A k \in 0 .. MaxLoops - 1 :
       WF_vars(k \in DOMAIN thread /\ EitherThread(k))
=============================================================================
