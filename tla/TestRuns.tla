------------------------------ MODULE TestRuns ------------------------------
(***************************************************************************)
(* The tests that nfv_run_multiple makes on one host, one after the other: *)
(* each is a run of nfv_run_local, which starts a virtual switch and a     *)
(* container for each application, waits, and takes everything down again. *)
(* It ends (set -e) at the first command that fails and then leaves behind *)
(* what it had started; nfv_run_multiple goes on with the next test.       *)
(*                                                                         *)
(* A switch, an application and a set of socket files are named by the     *)
(* test they belong to.  Of socket files there are those of /tmp/VIO and    *)
(* those of the directory of ovs, which each test of ovs mounts over it;   *)
(* both may be left by earlier tests.  A clock tick is ten seconds.  Left   *)
(* out: the options of the applications and the other host.                *)
(***************************************************************************)
EXTENDS Integers

CONSTANTS
  NumTests,       \* tests to make
  NumContainers,  \* containers of the configuration file
  Kinds,          \* the virtual switches to consider
  Schedules,      \* values of -S, in minutes
  MaxLag          \* ticks that pass between two commands of wait_schedule

ASSUME TestRunsAssumption ==
  /\ NumTests \in Nat /\ NumContainers \in Nat \ {0}
  /\ Kinds \subseteq {"pmd", "basicfwd", "snabb", "vpp", "sriov", "ovs",
                      "linux-bridge"}
  /\ Schedules \subseteq Nat /\ MaxLag \in Nat

Tests == 1 .. NumTests
Containers == 1 .. NumContainers
Minute == 6
Spare == 1
Dirs == {"plain", "ovs"}

VARIABLES
  vswitch,     \* the switch each test uses
  schedule,    \* -S, or 0
  test,        \* the test that runs, or ran last
  pc, i,       \* where nfv_run_local is, also in its loops over containers
  outcome,     \* of each test
  running,     \* the containers that run
  apps,        \* the applications in each container: what test each belongs to,
               \* and what socket file it uses, if any
  switches,    \* the switches that run
  sockets,     \* the socket files in each directory
  mounts,      \* how often the directory of ovs is mounted over /tmp/VIO
  found,       \* the containers and mounts there were when the test began
  outlived,    \* the switches that still ran when a test had waited for them
  clock        \* what wait_schedule has read and computed

vars == << vswitch, schedule, test, pc, i, outcome, running, apps, switches,
           sockets, mounts, found, outlived, clock >>
plan == << vswitch, schedule >>
host == << running, apps, switches, sockets, mounts >>

NoFile == [by |-> 0, during |-> 0]
NoClock == [epoch |-> 0, delay |-> 0, turned |-> FALSE, started |-> 0]

Init ==
  /\ vswitch \in [Tests -> Kinds] /\ schedule \in Schedules
  /\ test = 0 /\ pc = "idle" /\ i = 1
  /\ outcome = [t \in Tests |-> "not run"]
  /\ running = {} /\ apps = [c \in Containers |-> {}]
  /\ switches = {} /\ sockets = [d \in Dirs |-> NoFile]
  /\ mounts \in {0, 1}   \* 1: an earlier run of the script left it
  /\ found = [running |-> {}, mounts |-> 0]
  /\ outlived = {} /\ clock = NoClock

\* The directory that /tmp/VIO shows.
Shown == IF mounts > 0 THEN "ovs" ELSE "plain"
NewFile(t) == [by |-> t, during |-> test]

\* One at a time, in the order of the loops of nfv_run_multiple.
NextTest ==
  /\ pc = "idle" /\ test < NumTests
  /\ test' = test + 1 /\ pc' = "prepare" /\ i' = 1 /\ clock' = NoClock
  /\ found' = [running |-> running, mounts |-> mounts]
  /\ UNCHANGED << plan, outcome, host, outlived >>

AllDone ==
  /\ pc = "idle" /\ test = NumTests /\ pc' = "end"
  /\ UNCHANGED << plan, test, i, outcome, host, found, outlived, clock >>

\* The script goes on, and of the host only changes what else an action says.
Then(next) == pc' = next /\ UNCHANGED << plan, test, outcome, found, outlived >>

(***************************************************************************)
(* set -e: any command not followed by || true may end the script.         *)
(***************************************************************************)
Fallible ==
  \/ pc \in {"prepare", "service", "bridges", "ports", "external", "delay",
             "start", "wait", "stop", "umount", "unbind"}
  \/ pc = "vswitch" /\ vswitch[test] # "linux-bridge"
  \/ pc = "schedule" /\ (schedule > 0 \/ vswitch[test] \in {"pmd", "sriov"})
  \/ pc = "stopvswitch" /\ vswitch[test] \in {"vpp", "ovs"}

Fails ==
  /\ Fallible
  /\ pc' = "idle" /\ outcome' = [outcome EXCEPT ![test] = "failed"]
  /\ UNCHANGED << plan, test, i, host, found, outlived, clock >>

\* The last mount goes, unless it is in use.
TryUmount == mounts' \in {mounts} \union (IF mounts > 0 THEN {mounts - 1} ELSE {})

\* A mutant: the socket files of earlier tests are kept.
PrepareKeepsFiles ==
  /\ pc = "prepare" /\ Then("vswitch") /\ TryUmount
  /\ UNCHANGED << i, running, apps, switches, sockets, clock >>

\* prepare_system_resources: without a mount, if that can be, and without the
\* old socket files of the directory that shows then.
Prepare ==
  /\ pc = "prepare" /\ Then("vswitch") /\ TryUmount
  /\ sockets' = [sockets EXCEPT ![Shown'] = NoFile]
  /\ UNCHANGED << i, running, apps, switches, clock >>

(***************************************************************************)
(* start_vswitch.  A switch in a screen of its own makes its socket files  *)
(* when it is ready (sriov needs none); vpp is told to, again and again    *)
(* until it answers, and a vpp that has them already makes none; ovs is a  *)
(* service that is started or running already, and remembers its ports.    *)
(***************************************************************************)
InScreen(t) == vswitch[t] \in {"pmd", "basicfwd", "snabb", "vpp", "sriov"}
Sessions == {t \in switches : InScreen(t)}

StartScreen ==
  /\ pc = "vswitch" /\ InScreen(test)
  /\ Then(IF vswitch[test] = "vpp" THEN "vhost" ELSE "schedule")
  /\ switches' = switches \union {test}
  /\ UNCHANGED << i, running, apps, sockets, mounts, clock >>

VppAnswers ==
  /\ pc = "vhost" /\ Then("external")
  /\ \E t \in switches :
       /\ vswitch[t] = "vpp"
       /\ \/ sockets' = [sockets EXCEPT ![Shown] = NewFile(t)]
          \/ t # test /\ sockets' = sockets
  /\ UNCHANGED << i, running, apps, switches, mounts, clock >>

VppExternal == pc = "external" /\ Then("schedule") /\ UNCHANGED << i, host, clock >>

MountOvs ==
  /\ pc = "vswitch" /\ vswitch[test] = "ovs" /\ Then("service")
  /\ mounts' = mounts + 1
  /\ UNCHANGED << i, running, apps, switches, sockets, clock >>

Ovs == {t \in switches : vswitch[t] = "ovs"}
WithOvs(files) == sockets' = [sockets EXCEPT !["ovs"] = files]

StartOvs ==
  /\ pc = "service" /\ Then("bridges")
  /\ \/ Ovs # {} /\ UNCHANGED << switches, sockets >>
     \/ /\ Ovs = {} /\ switches' = switches \union {test}
        /\ \E files \in {sockets["ovs"], NewFile(test)} : WithOvs(files)
  /\ UNCHANGED << i, running, apps, mounts, clock >>

DropBridges ==
  /\ pc = "bridges" /\ Then("ports")
  /\ WithOvs(IF sockets["ovs"].by \in Ovs THEN NoFile ELSE sockets["ovs"])
  /\ UNCHANGED << i, running, apps, switches, mounts, clock >>

\* A file that is in the way may stay there.
AddPorts ==
  /\ pc = "ports" /\ Then("schedule")
  /\ switches' = (switches \ Ovs) \union {test}
  /\ \E files \in {sockets["ovs"], NewFile(test)} \ {NoFile} : WithOvs(files)
  /\ UNCHANGED << i, running, apps, mounts, clock >>

NoSwitch ==
  /\ pc = "vswitch" /\ vswitch[test] = "linux-bridge" /\ Then("schedule")
  /\ UNCHANGED << i, host, clock >>

(***************************************************************************)
(* wait_schedule: now is read once for the minute to begin at, and again   *)
(* for the time until then, which is slept after some more commands.       *)
(***************************************************************************)
\* A mutant: no spare seconds.
TargetMinsAtOnce(epoch) ==
  LET mins == epoch \div Minute + 1
      reminder == mins % schedule
  IN  IF reminder = 0 THEN mins ELSE mins + schedule - reminder

TargetMins(epoch) ==
  LET mins == (epoch + Spare) \div Minute + 1
      reminder == mins % schedule
  IN  IF reminder = 0 THEN mins ELSE mins + schedule - reminder

ReadClock ==
  /\ pc = "schedule" /\ schedule > 0 /\ Then("delay")
  /\ \E epoch \in 0 .. schedule * Minute - 1 :
       clock' = [NoClock EXCEPT !.epoch = epoch,
                   !.delay = TargetMins(epoch) - epoch \div Minute]
  /\ UNCHANGED << i, host >>

WaitSchedule ==
  /\ pc = "delay" /\ Then("begin")
  /\ \E lag \in 0 .. MaxLag, later \in 0 .. MaxLag :
       LET second == clock.epoch + lag
           target == ((second + clock.delay * Minute) \div Minute) * Minute
       IN  clock' = [clock EXCEPT
             !.turned = (second \div Minute # clock.epoch \div Minute),
             !.started = (second + later) + (target - clock.epoch)]
  /\ UNCHANGED << i, host >>

AtOnce == pc = "schedule" /\ schedule = 0 /\ Then("begin")
          /\ UNCHANGED << i, host, clock >>

(***************************************************************************)
(* start_applications: lxc-start does nothing for a container that runs, or *)
(* fails; the application starts in it, in a screen of its own.            *)
(***************************************************************************)
Begin == pc = "begin" /\ Then("start") /\ i' = 1 /\ clock' = NoClock
         /\ UNCHANGED host

LxcStart ==
  /\ pc = "start" /\ i <= NumContainers /\ Then("start")
  /\ running' = running \union {i}
  /\ apps' = [apps EXCEPT ![i] = @ \union {[of |-> test, file |-> NoFile]}]
  /\ i' = i + 1
  /\ UNCHANGED << switches, sockets, mounts, clock >>

WaitTimeout ==
  /\ pc = "start" /\ i > NumContainers /\ Then("wait")
  /\ UNCHANGED << i, host, clock >>

(***************************************************************************)
(* stop_applications: ^C to all, at most 15 seconds for each to end, and   *)
(* lxc-stop, which ends what has not.                                      *)
(***************************************************************************)
\* A mutant: lxc-stop only where the application has not ended.
LxcStopIfNeeded ==
  /\ pc = "stop" /\ i <= NumContainers /\ Then("stop")
  /\ running' = IF apps[i] = {} THEN running ELSE running \ {i}
  /\ apps' = [apps EXCEPT ![i] = {}]
  /\ i' = i + 1
  /\ UNCHANGED << switches, sockets, mounts, clock >>

TellApps ==
  /\ pc = "wait" /\ Then("stop") /\ i' = 1
  /\ UNCHANGED << host, clock >>

LxcStop ==
  /\ pc = "stop" /\ i <= NumContainers /\ Then("stop")
  /\ running' = running \ {i} /\ apps' = [apps EXCEPT ![i] = {}]
  /\ i' = i + 1
  /\ UNCHANGED << switches, sockets, mounts, clock >>

AppsStopped ==
  /\ pc = "stop" /\ i > NumContainers /\ Then("stopvswitch")
  /\ UNCHANGED << i, host, clock >>

(***************************************************************************)
(* stop_vswitch, and the end of the script.                                *)
(***************************************************************************)
TellSwitch ==
  /\ pc = "stopvswitch" /\ InScreen(test)
  /\ vswitch[test] = "vpp" => \E t \in switches : vswitch[t] = "vpp"
  /\ Then("waitvswitch")
  /\ UNCHANGED << i, host, clock >>

RemoveSockets ==
  sockets' = IF vswitch[test] \in {"basicfwd", "snabb"}
             THEN [sockets EXCEPT ![Shown] = NoFile] ELSE sockets
Waited == IF vswitch[test] \in {"vpp", "sriov"} THEN "unbind" ELSE "done"

\* A mutant: without the time limit.
WaitSwitchGone ==
  /\ pc = "waitvswitch" /\ Sessions = {} /\ Then(Waited) /\ RemoveSockets
  /\ UNCHANGED << i, running, apps, switches, mounts, clock >>

\* Until it is gone, with any of the same name, or 15 seconds have passed.
WaitSwitch ==
  /\ pc = "waitvswitch" /\ pc' = Waited /\ RemoveSockets
  /\ outlived' = outlived \union Sessions
  /\ UNCHANGED << plan, test, i, outcome, running, apps, switches, mounts,
                  found, clock >>

\* Its files may stay.
StopOvs ==
  /\ pc = "stopvswitch" /\ vswitch[test] = "ovs" /\ Then("umount")
  /\ switches' = switches \ Ovs
  /\ \/ WithOvs(sockets["ovs"])
     \/ sockets["ovs"].by \in Ovs /\ WithOvs(NoFile)
  /\ UNCHANGED << i, running, apps, mounts, clock >>

Umount ==
  /\ pc = "umount" /\ mounts > 0 /\ Then("unbind") /\ mounts' = mounts - 1
  /\ UNCHANGED << i, running, apps, switches, sockets, clock >>

Unbind == pc = "unbind" /\ Then("done") /\ UNCHANGED << i, host, clock >>

NothingToStop ==
  /\ pc = "stopvswitch" /\ vswitch[test] = "linux-bridge" /\ Then("done")
  /\ UNCHANGED << i, host, clock >>

Completed ==
  /\ pc = "done" /\ pc' = "idle"
  /\ outcome' = [outcome EXCEPT ![test] = "completed"]
  /\ UNCHANGED << plan, test, i, host, found, outlived, clock >>

(***************************************************************************)
(* The processes the script has started.                                   *)
(***************************************************************************)
Meanwhile == UNCHANGED << plan, test, pc, i, outcome, running, mounts, found,
                          outlived, clock >>

SwitchReady(t) ==
  /\ t \in switches /\ vswitch[t] \in {"pmd", "basicfwd", "snabb"}
  /\ sockets[Shown] = NoFile
  /\ sockets' = [sockets EXCEPT ![Shown] = NewFile(t)]
  /\ Meanwhile /\ UNCHANGED << apps, switches >>

\* Told to, or by itself; its files may stay.
SwitchEnds(t) ==
  /\ t \in Sessions
  /\ switches' = switches \ {t}
  /\ \/ sockets' = sockets
     \/ sockets[Shown].by = t /\ sockets' = [sockets EXCEPT ![Shown] = NoFile]
  /\ Meanwhile /\ UNCHANGED apps

\* A container shows the directory there was when it started, or one that was
\* mounted or uncovered since.
Seen(c) == IF c \in found.running THEN Dirs ELSE {Shown}

AppConnects(c) ==
  /\ \E a \in apps[c], d \in Seen(c) :
       /\ a.file = NoFile /\ vswitch[a.of] \notin {"linux-bridge", "sriov"}
       /\ sockets[d].by \in switches
       /\ apps' = [apps EXCEPT ![c] =
                     (@ \ {a}) \union {[of |-> a.of, file |-> sockets[d]]}]
  /\ Meanwhile /\ UNCHANGED << switches, sockets >>

AppEnds(c) ==
  /\ \E a \in apps[c] : apps' = [apps EXCEPT ![c] = @ \ {a}]
  /\ Meanwhile /\ UNCHANGED << switches, sockets >>

Script ==
  \/ NextTest \/ AllDone \/ Fails \/ Prepare
  \/ StartScreen \/ VppAnswers \/ VppExternal
  \/ MountOvs \/ StartOvs \/ DropBridges \/ AddPorts \/ NoSwitch
  \/ ReadClock \/ WaitSchedule \/ AtOnce
  \/ Begin \/ LxcStart \/ WaitTimeout \/ TellApps \/ LxcStop \/ AppsStopped
  \/ TellSwitch \/ WaitSwitch \/ StopOvs \/ Umount \/ Unbind \/ NothingToStop
  \/ Completed

Next ==
  \/ Script
  \/ \E t \in Tests : SwitchReady(t) \/ SwitchEnds(t)
  \/ \E c \in Containers : AppConnects(c) \/ AppEnds(c)

Spec == Init /\ [][Next]_vars /\ WF_vars(Script)
-----------------------------------------------------------------------------
(***************************************************************************)
(* Properties                                                              *)
(***************************************************************************)

\* While a test is timed (wait_timeout, nfv_run_local:806-809), although a
\* failed test leaves containers, applications, switches, mounts and files
\* behind (set -e, nfv_run_local:3): in a container that the test found running
\* there may be applications of tests that failed, and its own application may
\* use any socket file; but in a container it started itself there is none but
\* its own, with no socket file or one made since the test began, or, if it is a
\* test of ovs, one that a switch in a screen left in the directory of ovs.
MeasuresItsOwn ==
  pc = "wait" =>
    \A c \in Containers : \A a \in apps[c] :
      IF c \in found.running THEN a.of = test \/ outcome[a.of] = "failed"
      ELSE /\ a.of = test
           /\ \/ a.file.during \in {0, test}
              \/ vswitch[test] = "ovs" /\ InScreen(a.file.by)

\* A test that completes leaves no container and no application, its own or
\* found, and no more mounts than it found; a switch that still runs then
\* outlived the 15 seconds of wait_screen or is of a test that failed
\* (nfv_run_local:14-32, 561-804).
CleanAfterSuccess ==
  pc = "idle" /\ test # 0 /\ outcome[test] = "completed" =>
    /\ running = {} /\ apps = [c \in Containers |-> {}]
    /\ mounts <= found.mounts
    /\ \A t \in switches : t \in outlived \/ outcome[t] = "failed"

\* If the minute does not turn between the two times wait_schedule reads the
\* clock, a test begins at the first multiple of -S minutes that was more than
\* the spare seconds ahead, late only by the commands of wait_schedule
\* (nfv_run_local:811-838, the comment at 816).
OnSchedule ==
  pc = "begin" /\ schedule > 0 /\ ~clock.turned =>
    \E n \in 1 .. 2 :
      LET multiple == n * schedule * Minute
      IN  /\ multiple > clock.epoch + Spare
          /\ multiple - schedule * Minute <= clock.epoch + Spare
          /\ clock.started - multiple \in 0 .. 2 * MaxLag

\* "If scheduled, wait at least 1 minute and for the next multiple of $schedule
\* minutes" (nfv_run_local:930).
WaitsAsAnnounced ==
  pc = "begin" /\ schedule > 0 =>
    /\ clock.started - clock.epoch >= Minute
    /\ clock.started % (schedule * Minute) \in 0 .. 2 * MaxLag

\* nfv_run_multiple makes all its tests, whatever fails or does not end, but
\* for a vpp that is gone while the script waits for it to answer
\* (nfv_run_local:425-429).
AllTestsEnd ==
  LET noVpp == \A t \in switches : vswitch[t] # "vpp"
  IN  <>[](pc = "end" \/ (pc = "vhost" /\ noVpp))
=============================================================================
