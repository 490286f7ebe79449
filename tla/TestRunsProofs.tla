--------------------------- MODULE TestRunsProofs ---------------------------
(***************************************************************************)
(* For any number of tests and containers: a test measures only what is    *)
(* its own, and cleans up after itself if it completes; for any schedule   *)
(* it begins when it should.                                               *)
(***************************************************************************)
EXTENDS TestRuns, CpuList, TLAPS

Before == {"prepare", "vswitch", "vhost", "external", "service", "bridges",
           "ports", "schedule", "delay", "begin"}
Timed == {"start", "wait"}
AfterApps == {"stopvswitch", "waitvswitch", "umount", "unbind", "done"}
Steps == {"idle", "end", "stop"} \union Before \union Timed \union AfterApps
Names == 0 .. NumTests
Files == [by : Names, during : Names]
Apps == [of : Tests, file : Files]

ScriptTypeOK ==
  /\ vswitch \in [Tests -> Kinds]
  /\ test \in Names /\ pc \in Steps /\ i \in Nat \ {0}
  /\ (pc \notin {"idle", "end"} => test \in Tests)
  /\ outcome \in [Tests -> {"not run", "completed", "failed"}]
  /\ outlived \subseteq Tests
FoundTypeOK == found \in [running : SUBSET Containers, mounts : Nat]
HostTypeOK ==
  /\ running \subseteq Containers
  /\ apps \in [Containers -> SUBSET Apps]
  /\ switches \subseteq Tests
  /\ sockets \in [Dirs -> Files] /\ mounts \in Nat
TypeOK == ScriptTypeOK /\ FoundTypeOK /\ HostTypeOK

\* What start_vswitch and stop_vswitch do depends on the switch.
Branches ==
  /\ pc \in {"vhost", "external"} => vswitch[test] = "vpp"
  /\ pc \in {"service", "bridges", "ports", "umount"} => vswitch[test] = "ovs"
  /\ pc = "waitvswitch" => InScreen(test)

\* A test of ovs has one more mount, from when it mounts to when it unmounts.
MountOnTop == {"service", "bridges", "ports", "schedule", "delay", "begin",
               "start", "wait", "stop", "stopvswitch", "umount"}
MountBound ==
  pc \notin {"idle", "end"} =>
    \/ mounts <= found.mounts
    \/ /\ vswitch[test] = "ovs" /\ pc \in MountOnTop
       /\ mounts <= found.mounts + 1
UnderMount == {"service", "bridges", "ports", "schedule", "delay", "begin"}
                \union Timed
OvsMounted == pc \in UnderMount /\ vswitch[test] = "ovs" => mounts > 0

\* Files are made by a switch of their time or of an earlier one.
KnownFiles ==
  \A d \in Dirs : sockets[d].by <= sockets[d].during /\ sockets[d].during <= test

\* After its preparations a test meets only socket files of its own time, or
\* files in the directory of ovs that no ovs answers at.
Served == (Before \ {"prepare"}) \union Timed
OvsReady == {"ports", "schedule", "delay", "begin"} \union Timed
NotOfOvs(f) == f.during \in {0, test} \/ f.by \notin switches \/ InScreen(f.by)
FreshFiles ==
  /\ pc \in Served /\ vswitch[test] # "ovs" => sockets[Shown].during \in {0, test}
  /\ pc \in OvsReady /\ vswitch[test] = "ovs" => NotOfOvs(sockets["ovs"])

\* Applications only in containers that run, and only those of the test in the
\* containers it has started.
OwnApp(a) ==
  /\ a.of = test
  /\ a.file.during \in {0, test} \/ (vswitch[test] = "ovs" /\ InScreen(a.file.by))
OwnApps ==
  pc \in Timed =>
    \A c \in Containers : c \notin found.running => \A a \in apps[c] : OwnApp(a)
InContainers ==
  /\ \A c \in Containers : c \notin running => apps[c] = {}
  /\ pc \in Before => running = found.running
AppsGone ==
  /\ pc = "stop" => \A c \in Containers : c < i => c \notin running
  /\ pc \in AfterApps => running = {}

\* A switch or an application that runs belongs to this test, or to one before
\* that failed, or gave up waiting for the switch.
Past(t) == t < test \/ pc \in {"idle", "end"}
KnownApps ==
  \A c \in Containers : \A a \in apps[c] :
    a.of <= test /\ (Past(a.of) => outcome[a.of] = "failed")
KnownSwitches ==
  \A t \in switches :
    /\ t <= test
    /\ Past(t) => t \in outlived \/ outcome[t] = "failed"
    /\ vswitch[t] # "linux-bridge"
SwitchDealtWith ==
  pc \in {"umount", "unbind", "done"} /\ test \in switches => test \in outlived

Cleaned ==
  pc = "idle" /\ test # 0 /\ outcome[test] = "completed" =>
    running = {} /\ mounts <= found.mounts

FilesInv == MountBound /\ OvsMounted /\ KnownFiles /\ FreshFiles
AppsInv == InContainers /\ OwnApps /\ AppsGone /\ KnownApps
SwitchesInv == KnownSwitches /\ SwitchDealtWith
RunsInv == TypeOK /\ Branches /\ FilesInv /\ AppsInv /\ SwitchesInv /\ Cleaned

Stays == UNCHANGED << vswitch, test, outcome, found >>

LEMMA Numbers ==
  /\ NumTests \in Nat /\ NumContainers \in Nat \ {0}
  /\ Names \subseteq Nat /\ Tests \subseteq Names /\ 0 \in Names
  /\ \A t \in Names : t < NumTests => t + 1 \in Tests
  /\ \A t \in Tests : t > 0
  /\ 1 \in Nat \ {0}
  /\ \A k \in Nat \ {0} : k \in Nat /\ k + 1 \in Nat \ {0}
<1>1. NumTests \in Nat /\ NumContainers \in Nat \ {0}
  BY TestRunsAssumption
<1>2. Names \subseteq Nat /\ Tests \subseteq Names /\ 0 \in Names
  BY <1>1 DEF Names, Tests
<1>3. \A t \in Names : t < NumTests => t + 1 \in Tests
  BY <1>1 DEF Names, Tests
<1>4. 1 \in Nat \ {0} /\ \A k \in Nat \ {0} : k \in Nat /\ k + 1 \in Nat \ {0}
  OBVIOUS
<1>5. \A t \in Tests : t > 0
  BY DEF Tests
<1> QED
  BY <1>1, <1>2, <1>3, <1>4, <1>5

LEMMA Records ==
  /\ NoFile \in Files /\ NoFile.during = 0 /\ NoFile.by = 0
  /\ "plain" \in Dirs /\ "ovs" \in Dirs /\ Shown \in Dirs
BY Numbers DEF NoFile, Files, Dirs, Shown

\* A step of the script that changes nothing on the host.
LEMMA QuietStep ==
  ASSUME RunsInv, Stays, UNCHANGED << host, outlived >>, i' \in Nat \ {0},
         \/ pc = "external" /\ pc' = "schedule"
         \/ pc = "vswitch" /\ pc' = "schedule" /\ vswitch[test] = "linux-bridge"
         \/ pc = "schedule" /\ pc' \in {"delay", "begin"}
         \/ pc = "delay" /\ pc' = "begin"
         \/ pc = "begin" /\ pc' = "start"
         \/ pc = "start" /\ pc' = "wait"
         \/ pc = "wait" /\ pc' = "stop" /\ i' = 1
         \/ pc = "stop" /\ pc' = "stopvswitch" /\ running = {}
         \/ pc = "stopvswitch" /\ pc' = "waitvswitch" /\ InScreen(test)
         \/ pc = "stopvswitch" /\ pc' = "done" /\ vswitch[test] = "linux-bridge"
         \/ pc = "unbind" /\ pc' = "done"
  PROVE  RunsInv'
<1>1. TypeOK /\ Branches /\ FilesInv /\ AppsInv /\ SwitchesInv
  BY DEF RunsInv
<1>2. TypeOK'
  <2>1. ScriptTypeOK'
    BY <1>1 DEF TypeOK, ScriptTypeOK, Stays, Steps, Before, Timed, AfterApps
  <2>2. FoundTypeOK' /\ HostTypeOK'
    BY <1>1 DEF TypeOK, FoundTypeOK, HostTypeOK, Stays, host
  <2>. QED  BY <2>1, <2>2 DEF TypeOK
<1>3. Branches'
  BY <1>1 DEF Branches, InScreen, Stays
<1>4. MountBound'
  BY <1>1 DEF FilesInv, MountBound, MountOnTop, Branches, InScreen, Stays, host
<1>5. OvsMounted'
  BY <1>1 DEF FilesInv, OvsMounted, UnderMount, Timed, Branches, Stays, host
<1>6. KnownFiles'
  BY <1>1 DEF FilesInv, KnownFiles, Stays, host
<1>7. FreshFiles'
  <2>1. Shown' = Shown /\ NotOfOvs(sockets["ovs"])' = NotOfOvs(sockets["ovs"])
    BY DEF Shown, NotOfOvs, InScreen, Stays, host
  <2>. QED
    BY <1>1, <2>1 DEF FilesInv, FreshFiles, Branches, Served, OvsReady, Before, Timed,
                      Stays, host
<1>8. InContainers' /\ AppsGone'
  BY <1>1 DEF AppsInv, InContainers, AppsGone, Before, AfterApps, Containers, Stays,
              host
<1>9. OwnApps'
  <2>1. CASE pc = "begin"
    BY <1>1, <2>1 DEF AppsInv, InContainers, OwnApps, Before, Timed, Stays, host
  <2>2. CASE pc # "begin"
    BY <1>1, <2>2 DEF AppsInv, OwnApps, OwnApp, InScreen, Timed, Stays, host
  <2>. QED  BY <2>1, <2>2
<1>10. KnownApps'
  BY <1>1 DEF AppsInv, KnownApps, Past, Stays, host
<1>11. SwitchesInv'
  <2>1. KnownSwitches'
    BY <1>1 DEF SwitchesInv, KnownSwitches, Past, Stays, host
  <2>2. SwitchDealtWith'
    BY <1>1 DEF SwitchesInv, KnownSwitches, SwitchDealtWith, Stays, host
  <2>. QED  BY <2>1, <2>2 DEF SwitchesInv
<1>12. Cleaned'
  BY DEF Cleaned
<1>. QED
  BY <1>2, <1>3, <1>4, <1>5, <1>6, <1>7, <1>8, <1>9, <1>10, <1>11, <1>12
     DEF RunsInv, FilesInv, AppsInv

\* A step that ends a test or begins the next one.
LEMMA IdleStep ==
  ASSUME RunsInv, UNCHANGED << vswitch, host, outlived >>,
         ScriptTypeOK', test' >= test,
         \/ pc' \in {"idle", "end"} /\ found' = found
         \/ pc' = "prepare" /\ found' = [running |-> running, mounts |-> mounts],
         \A t \in switches : t <= test' /\ (t \in outlived \/ outcome'[t] = "failed"),
         \A c \in Containers : \A a \in apps[c] :
           a.of <= test' /\ outcome'[a.of] = "failed",
         Cleaned'
  PROVE  RunsInv'
<1>1. TypeOK /\ FilesInv /\ AppsInv /\ SwitchesInv
  BY DEF RunsInv
<1>2. TypeOK'
  BY <1>1 DEF TypeOK, FoundTypeOK, HostTypeOK, host
<1>3. Branches' /\ OvsMounted' /\ FreshFiles' /\ OwnApps' /\ AppsGone'
      /\ SwitchDealtWith'
  BY DEF Branches, OvsMounted, UnderMount, FreshFiles, Served, OvsReady, OwnApps,
         AppsGone, AfterApps, Before, Timed, SwitchDealtWith
<1>4. MountBound'
  BY <1>1 DEF MountBound, TypeOK, HostTypeOK, host
<1>5. KnownFiles'
  <2>1. ASSUME NEW d \in Dirs
        PROVE  /\ sockets[d].by <= sockets[d].during
               /\ sockets[d].during <= test'
    <3>1. sockets[d].during \in Nat /\ test \in Nat /\ test' \in Nat
      BY <1>1, Numbers DEF TypeOK, ScriptTypeOK, HostTypeOK, Files
    <3>2. sockets[d].by <= sockets[d].during /\ sockets[d].during <= test
      BY <1>1 DEF FilesInv, KnownFiles
    <3>. QED  BY <3>1, <3>2
  <2>. QED  BY <2>1 DEF KnownFiles, host
<1>6. InContainers'
  BY <1>1 DEF AppsInv, InContainers, Before, host
<1>7. KnownApps'
  BY DEF KnownApps, host
<1>8. KnownSwitches'
  BY <1>1 DEF SwitchesInv, KnownSwitches, host
<1>. QED
  BY <1>2, <1>3, <1>4, <1>5, <1>6, <1>7, <1>8
     DEF RunsInv, FilesInv, AppsInv, SwitchesInv

\* A step of a switch or an application.
LEMMA ProcessStep ==
  ASSUME RunsInv, Meanwhile, HostTypeOK', switches' \subseteq switches,
         \A d \in Dirs :
           \/ sockets'[d] = sockets[d]
           \/ sockets'[d] = NoFile
           \/ sockets'[d].during = test /\ sockets'[d].by \in switches,
         \A c \in Containers : \A b \in apps'[c] :
           \/ b \in apps[c]
           \/ /\ \E a \in apps[c] : b.of = a.of
              /\ c \notin found.running =>
                   b.file = sockets[Shown] /\ sockets[Shown].by \in switches
  PROVE  RunsInv'
<1>1. /\ UNCHANGED << vswitch, test, pc, i, outcome, running, mounts, found, outlived >>
      /\ TypeOK /\ Branches /\ FilesInv /\ AppsInv /\ SwitchesInv /\ Cleaned
  BY DEF Meanwhile, plan, RunsInv
<1>2. TypeOK'
  BY <1>1 DEF TypeOK, ScriptTypeOK, FoundTypeOK
<1>3. Branches' /\ MountBound' /\ OvsMounted' /\ AppsGone' /\ Cleaned'
  BY <1>1 DEF Branches, InScreen, FilesInv, MountBound, OvsMounted, AppsInv,
              AppsGone, Cleaned
<1>4. KnownFiles'
  <2>1. ASSUME NEW d \in Dirs
        PROVE  sockets'[d].by <= sockets'[d].during /\ sockets'[d].during <= test
    <3>1. test \in Nat
      BY <1>1, Numbers DEF TypeOK, ScriptTypeOK
    <3>2. CASE sockets'[d] = sockets[d]
      BY <1>1, <3>2 DEF FilesInv, KnownFiles
    <3>3. CASE sockets'[d] = NoFile
      BY <3>1, <3>3, Records
    <3>4. CASE sockets'[d].during = test /\ sockets'[d].by \in switches
      BY <1>1, <3>1, <3>4 DEF SwitchesInv, KnownSwitches
    <3>. QED  BY <3>2, <3>3, <3>4
  <2>. QED  BY <1>1, <2>1 DEF KnownFiles
<1>5. FreshFiles'
  <2>1. Shown' = Shown
    BY <1>1 DEF Shown
  <2>2. pc \in Served /\ vswitch[test] # "ovs" => sockets'[Shown].during \in {0, test}
    BY <1>1, Records DEF FilesInv, FreshFiles
  <2>3. pc \in OvsReady /\ vswitch[test] = "ovs" => NotOfOvs(sockets["ovs"])'
    BY <1>1, Records DEF FilesInv, FreshFiles, NotOfOvs, InScreen
  <2>. QED  BY <1>1, <2>1, <2>2, <2>3 DEF FreshFiles
<1>6. InContainers'
  <2>1. ASSUME NEW c \in Containers, c \notin running
        PROVE  apps'[c] = {}
    BY <1>1, <2>1 DEF AppsInv, InContainers
  <2>. QED  BY <1>1, <2>1 DEF AppsInv, InContainers
<1>7. OwnApps'
  <2>1. ASSUME pc \in Timed, NEW c \in Containers, c \notin found.running,
               NEW b \in apps'[c]
        PROVE  OwnApp(b)
    <3>1. \A a \in apps[c] : OwnApp(a)
      BY <1>1, <2>1 DEF AppsInv, OwnApps
    <3>2. CASE b \in apps[c]
      BY <3>1, <3>2
    <3>3. CASE b \notin apps[c]
      <4>1. b.of = test /\ b.file = sockets[Shown] /\ sockets[Shown].by \in switches
        BY <2>1, <3>1, <3>3 DEF OwnApp
      <4>2. CASE vswitch[test] # "ovs"
        <5>1. sockets[Shown].during \in {0, test}
          BY <1>1, <2>1, <4>2 DEF FilesInv, FreshFiles, Served
        <5>. QED  BY <4>1, <5>1 DEF OwnApp
      <4>3. CASE vswitch[test] = "ovs"
        <5>1. Shown = "ovs"
          BY <1>1, <2>1, <4>3 DEF FilesInv, OvsMounted, UnderMount, Shown
        <5>2. NotOfOvs(sockets["ovs"])
          BY <1>1, <2>1, <4>3 DEF FilesInv, FreshFiles, OvsReady
        <5>. QED  BY <4>1, <4>3, <5>1, <5>2 DEF OwnApp, NotOfOvs
      <4>. QED  BY <4>2, <4>3
    <3>. QED  BY <3>2, <3>3
  <2>2. \A b : OwnApp(b)' <=> OwnApp(b)
    BY <1>1 DEF OwnApp, InScreen
  <2>. QED  BY <1>1, <2>1, <2>2 DEF OwnApps
<1>8. KnownApps'
  <2>1. ASSUME NEW c \in Containers, NEW b \in apps'[c]
        PROVE  b.of <= test /\ (Past(b.of) => outcome[b.of] = "failed")
    BY <1>1 DEF AppsInv, KnownApps
  <2>. QED  BY <1>1, <2>1 DEF KnownApps, Past
<1>9. SwitchesInv'
  BY <1>1 DEF SwitchesInv, KnownSwitches, SwitchDealtWith, Past
<1>. QED
  BY <1>2, <1>3, <1>4, <1>5, <1>6, <1>7, <1>8, <1>9 DEF RunsInv, FilesInv, AppsInv

\* A step of prepare_system_resources or start_vswitch.
LEMMA SetUpStep ==
  ASSUME RunsInv, Stays, UNCHANGED << i, running, apps, outlived >>,
         pc \in Before, pc' \in Before \ {"prepare"},
         sockets' \in [Dirs -> Files], mounts' \in Nat,
         switches' \subseteq switches \union {test},
         test \in switches' \ switches => vswitch[test] # "linux-bridge",
         Branches', FilesInv'
  PROVE  RunsInv'
<1>1. TypeOK /\ AppsInv /\ SwitchesInv
  BY DEF RunsInv
<1>2. TypeOK'
  <2>1. ScriptTypeOK'
    BY <1>1 DEF TypeOK, ScriptTypeOK, Stays, Steps, Before
  <2>2. FoundTypeOK' /\ HostTypeOK'
    BY <1>1 DEF TypeOK, ScriptTypeOK, FoundTypeOK, HostTypeOK, Stays, Before
  <2>. QED  BY <2>1, <2>2 DEF TypeOK
<1>3. InContainers' /\ OwnApps' /\ AppsGone'
  BY <1>1 DEF AppsInv, InContainers, OwnApps, AppsGone, Before, Timed, AfterApps,
              Stays
<1>4. KnownApps'
  BY <1>1 DEF AppsInv, KnownApps, Past, Before, Stays
<1>5. KnownSwitches'
  <2>1. test \in Nat
    BY <1>1, Numbers DEF TypeOK, ScriptTypeOK
  <2>2. ASSUME NEW t \in switches'
        PROVE  /\ t <= test
               /\ Past(t)' => t \in outlived \/ outcome[t] = "failed"
               /\ vswitch[t] # "linux-bridge"
    <3>1. CASE t \in switches
      BY <1>1, <3>1 DEF SwitchesInv, KnownSwitches, Past, Before, Stays
    <3>2. CASE t \notin switches
      BY <2>1, <2>2, <3>2 DEF Past, Before, Stays
    <3>. QED  BY <3>1, <3>2
  <2>. QED  BY <2>2 DEF KnownSwitches, Stays
<1>6. SwitchDealtWith' /\ Cleaned'
  BY DEF SwitchDealtWith, Cleaned, Before
<1>. QED
  BY <1>2, <1>3, <1>4, <1>5, <1>6 DEF RunsInv, AppsInv, SwitchesInv

\* What a change of the socket files keeps, if they are of this test's time.
LEMMA NewFiles ==
  ASSUME RunsInv, test \in Tests, test' = test, NEW d \in Dirs, NEW f \in Files,
         sockets' = [sockets EXCEPT ![d] = f],
         f = NoFile \/ (f.during = test /\ f.by <= test)
  PROVE  sockets' \in [Dirs -> Files] /\ KnownFiles' /\ f.during \in {0, test}
<1>1. sockets \in [Dirs -> Files] /\ KnownFiles /\ test \in Nat
  BY Numbers DEF RunsInv, TypeOK, HostTypeOK, FilesInv
<1>2. sockets' \in [Dirs -> Files]
  BY <1>1
<1>3. f.by <= f.during /\ f.during <= test /\ f.during \in {0, test}
  BY <1>1, Records
<1>4. KnownFiles'
  <2>1. ASSUME NEW e \in Dirs
        PROVE  sockets'[e].by <= sockets'[e].during /\ sockets'[e].during <= test
    <3>1. sockets'[e] = IF e = d THEN f ELSE sockets[e]
      BY <1>1
    <3>2. CASE e = d
      BY <1>3, <3>1, <3>2
    <3>3. CASE e # d
      BY <1>1, <3>1, <3>3 DEF KnownFiles
    <3>. QED  BY <3>2, <3>3
  <2>. QED  BY <2>1 DEF KnownFiles
<1>. QED  BY <1>2, <1>3, <1>4

LEMMA NewFileFacts ==
  ASSUME RunsInv, test \in Tests, NEW t \in switches \union {test}
  PROVE  /\ NewFile(t) \in Files
         /\ NewFile(t).during = test /\ NewFile(t).by = t /\ t <= test
<1>1. test \in Names /\ t \in Names
  BY Numbers DEF RunsInv, TypeOK, HostTypeOK
<1>2. t <= test
  BY <1>1, Numbers DEF RunsInv, SwitchesInv, KnownSwitches
<1>. QED  BY <1>1, <1>2 DEF NewFile, Files

\* prepare_system_resources and start_vswitch.
LEMMA SetUpFacts ==
  ASSUME RunsInv,
         \/ Prepare \/ StartScreen \/ VppAnswers
         \/ MountOvs \/ StartOvs \/ DropBridges \/ AddPorts
  PROVE  RunsInv'
<1>1. /\ TypeOK /\ ScriptTypeOK /\ HostTypeOK /\ Branches /\ FilesInv /\ SwitchesInv
      /\ Stays /\ UNCHANGED << i, running, apps, outlived >>
      /\ pc \in {"prepare", "vswitch", "vhost", "service", "bridges", "ports"}
  BY DEF RunsInv, TypeOK, Prepare, StartScreen, VppAnswers, MountOvs, StartOvs,
         DropBridges, AddPorts, Then, plan, Stays
<1>2. /\ test \in Tests /\ test' = test /\ test \in Nat
      /\ mounts \in Nat /\ sockets \in [Dirs -> Files] /\ pc \in Before
      /\ found' = found /\ vswitch' = vswitch
  BY <1>1, Numbers DEF ScriptTypeOK, HostTypeOK, Stays, Before
<1>3. CASE Prepare
  <2>1. /\ pc = "prepare" /\ pc' = "vswitch" /\ switches' = switches
        /\ sockets' = [sockets EXCEPT ![Shown'] = NoFile]
    BY <1>3 DEF Prepare, Then
  <2>2. mounts' \in Nat /\ mounts' <= mounts
    BY <1>2, <1>3 DEF Prepare, TryUmount
  <2>3. Shown' \in Dirs
    BY Records DEF Shown
  <2>4. sockets' \in [Dirs -> Files] /\ KnownFiles'
    BY <1>2, <2>1, <2>3, Records, NewFiles
  <2>5. FreshFiles'
    BY <1>2, <2>1, <2>3, Records DEF FreshFiles, OvsReady, Timed
  <2>6. MountBound'
    <3>1. mounts <= found.mounts
      BY <1>1, <2>1 DEF FilesInv, MountBound, MountOnTop
    <3>2. found.mounts \in Nat
      BY DEF RunsInv, TypeOK, FoundTypeOK
    <3>. QED  BY <1>2, <2>2, <3>1, <3>2 DEF MountBound
  <2>7. Branches' /\ OvsMounted'
    BY <2>1 DEF Branches, OvsMounted, UnderMount, Timed
  <2>. QED
    BY <1>1, <1>2, <2>1, <2>2, <2>4, <2>5, <2>6, <2>7, SetUpStep DEF FilesInv, Before
<1>4. CASE StartScreen
  <2>1. /\ pc = "vswitch" /\ pc' \in {"vhost", "schedule"} /\ InScreen(test)
        /\ pc' = "vhost" => vswitch[test] = "vpp"
        /\ switches' = switches \union {test}
        /\ UNCHANGED << sockets, mounts >>
    BY <1>4 DEF StartScreen, Then
  <2>2. vswitch[test] \notin {"linux-bridge", "ovs"}
    BY <2>1 DEF InScreen
  <2>3. FreshFiles' /\ KnownFiles'
    BY <1>1, <1>2, <2>1, <2>2
       DEF FilesInv, FreshFiles, KnownFiles, Served, Before, OvsReady, Timed, Shown
  <2>4. MountBound' /\ OvsMounted' /\ Branches'
    BY <1>1, <1>2, <2>1, <2>2
       DEF FilesInv, MountBound, MountOnTop, OvsMounted, Branches
  <2>. QED
    BY <1>1, <1>2, <2>1, <2>2, <2>3, <2>4, SetUpStep DEF FilesInv, Before
<1>5. CASE VppAnswers
  <2>1. /\ pc = "vhost" /\ pc' = "external" /\ vswitch[test] = "vpp"
        /\ UNCHANGED << switches, mounts >>
    BY <1>1, <1>5 DEF VppAnswers, Then, Branches
  <2>2. Shown' = Shown /\ Shown \in Dirs
    BY <2>1, Records DEF Shown
  <2>3. sockets' \in [Dirs -> Files] /\ KnownFiles' /\ sockets'[Shown].during \in {0, test}
    <3>1. PICK t \in switches : \/ sockets' = [sockets EXCEPT ![Shown] = NewFile(t)]
                                \/ sockets' = sockets
      BY <1>5 DEF VppAnswers
    <3>2. CASE sockets' = [sockets EXCEPT ![Shown] = NewFile(t)]
      <4>1. /\ NewFile(t) \in Files /\ NewFile(t).during = test
            /\ NewFile(t).by <= test
        BY <1>2, NewFileFacts
      <4>2. sockets' \in [Dirs -> Files] /\ KnownFiles'
        BY <1>2, <2>2, <3>2, <4>1, NewFiles
      <4>3. sockets'[Shown] = NewFile(t)
        BY <1>2, <2>2, <3>2
      <4>. QED  BY <4>1, <4>2, <4>3
    <3>3. CASE sockets' = sockets
      BY <1>1, <1>2, <2>1, <3>3
         DEF FilesInv, KnownFiles, FreshFiles, Served, Before
    <3>. QED  BY <3>1, <3>2, <3>3
  <2>4. FreshFiles' /\ MountBound' /\ OvsMounted' /\ Branches'
    BY <1>1, <1>2, <2>1, <2>2, <2>3
       DEF FilesInv, FreshFiles, MountBound, MountOnTop, OvsMounted, Branches
  <2>. QED
    BY <1>1, <1>2, <2>1, <2>3, <2>4, SetUpStep DEF FilesInv, Before
<1>6. CASE MountOvs
  <2>1. /\ pc = "vswitch" /\ pc' = "service" /\ vswitch[test] = "ovs"
        /\ mounts' = mounts + 1 /\ UNCHANGED << switches, sockets >>
    BY <1>6 DEF MountOvs, Then
  <2>2. mounts' \in Nat /\ mounts' > 0
    BY <1>2, <2>1
  <2>3. MountBound'
    <3>1. mounts <= found.mounts
      BY <1>1, <2>1 DEF FilesInv, MountBound, MountOnTop
    <3>2. found.mounts \in Nat
      BY DEF RunsInv, TypeOK, FoundTypeOK
    <3>. QED  BY <1>2, <2>1, <3>1, <3>2 DEF MountBound, MountOnTop
  <2>4. FreshFiles' /\ KnownFiles' /\ OvsMounted' /\ Branches'
    BY <1>1, <1>2, <2>1, <2>2
       DEF FilesInv, FreshFiles, OvsReady, Timed, KnownFiles, OvsMounted, Branches
  <2>. QED
    BY <1>1, <1>2, <2>1, <2>2, <2>3, <2>4, SetUpStep DEF FilesInv, Before
<1>7. CASE StartOvs
  <2>1. /\ pc = "service" /\ pc' = "bridges" /\ vswitch[test] = "ovs"
        /\ mounts' = mounts /\ switches' \subseteq switches \union {test}
    BY <1>1, <1>7 DEF StartOvs, Then, Branches
  <2>2. sockets' \in [Dirs -> Files] /\ KnownFiles'
    <3>1. sockets' = sockets \/ sockets' = [sockets EXCEPT !["ovs"] = NewFile(test)]
      <4>1. [sockets EXCEPT !["ovs"] = sockets["ovs"]] = sockets
        BY <1>2
      <4>. QED  BY <1>7, <4>1 DEF StartOvs, WithOvs
    <3>2. CASE sockets' = sockets
      BY <1>1, <1>2, <3>2 DEF FilesInv, KnownFiles
    <3>3. CASE sockets' = [sockets EXCEPT !["ovs"] = NewFile(test)]
      <4>1. /\ NewFile(test) \in Files /\ NewFile(test).during = test
            /\ NewFile(test).by <= test
        BY <1>2, NewFileFacts
      <4>. QED  BY <1>2, <3>3, <4>1, Records, NewFiles
    <3>. QED  BY <3>1, <3>2, <3>3
  <2>3. FreshFiles' /\ MountBound' /\ OvsMounted' /\ Branches'
    BY <1>1, <1>2, <2>1
       DEF FilesInv, FreshFiles, OvsReady, Timed, MountBound, MountOnTop, OvsMounted,
           UnderMount, Branches
  <2>. QED
    BY <1>1, <1>2, <2>1, <2>2, <2>3, SetUpStep DEF FilesInv, Before
<1>8. CASE DropBridges
  <2>1. /\ pc = "bridges" /\ pc' = "ports" /\ vswitch[test] = "ovs"
        /\ UNCHANGED << switches, mounts >>
    BY <1>1, <1>8 DEF DropBridges, Then, Branches
  <2>2. PICK f \in Files :
          /\ f = IF sockets["ovs"].by \in Ovs THEN NoFile ELSE sockets["ovs"]
          /\ sockets' = [sockets EXCEPT !["ovs"] = f]
    <3>1. sockets["ovs"] \in Files
      BY <1>2, Records
    <3>2. (IF sockets["ovs"].by \in Ovs THEN NoFile ELSE sockets["ovs"]) \in Files
      BY <3>1, Records
    <3>. QED  BY <1>8, <3>2 DEF DropBridges, WithOvs
  <2>3. sockets'["ovs"] = f /\ sockets' \in [Dirs -> Files]
    BY <1>2, <2>2, Records
  <2>4. f = NoFile \/ (f = sockets["ovs"] /\ f.by \notin Ovs)
    <3>1. CASE sockets["ovs"].by \in Ovs
      BY <2>2, <3>1
    <3>2. CASE sockets["ovs"].by \notin Ovs
      <4>1. f = sockets["ovs"]
        BY <2>2, <3>2
      <4>. QED  BY <3>2, <4>1
    <3>. QED  BY <3>1, <3>2
  <2>5. KnownFiles'
    <3>1. CASE f = NoFile
      BY <1>2, <2>2, <3>1, Records, NewFiles
    <3>2. CASE f = sockets["ovs"]
      <4>1. sockets' = sockets
        BY <1>2, <2>2, <3>2
      <4>. QED  BY <1>1, <1>2, <4>1 DEF FilesInv, KnownFiles
    <3>. QED  BY <2>4, <3>1, <3>2
  <2>6. NotOfOvs(f)
    <3>1. CASE f = NoFile
      BY <3>1, Records DEF NotOfOvs
    <3>2. CASE f.by \in switches /\ f.by \notin Ovs
      <4>1. vswitch[f.by] \notin {"ovs", "linux-bridge"}
        BY <1>1, <3>2 DEF Ovs, SwitchesInv, KnownSwitches
      <4>2. vswitch[f.by] \in Kinds
        BY <1>1, <3>2 DEF ScriptTypeOK, HostTypeOK
      <4>. QED  BY <4>1, <4>2, TestRunsAssumption DEF NotOfOvs, InScreen
    <3>3. CASE f.by \notin switches
      BY <3>3 DEF NotOfOvs
    <3>. QED  BY <2>4, <3>1, <3>2, <3>3
  <2>7. FreshFiles'
    BY <1>2, <2>1, <2>3, <2>6 DEF FreshFiles, NotOfOvs, InScreen
  <2>8. MountBound' /\ OvsMounted' /\ Branches'
    BY <1>1, <1>2, <2>1
       DEF FilesInv, MountBound, MountOnTop, OvsMounted, UnderMount, Branches
  <2>. QED
    BY <1>1, <1>2, <2>1, <2>3, <2>5, <2>7, <2>8, SetUpStep DEF FilesInv, Before
<1>9. CASE AddPorts
  <2>1. /\ pc = "ports" /\ pc' = "schedule" /\ vswitch[test] = "ovs"
        /\ switches' = (switches \ Ovs) \union {test} /\ mounts' = mounts
    BY <1>1, <1>9 DEF AddPorts, Then, Branches
  <2>2. PICK f : /\ f = sockets["ovs"] \/ f = NewFile(test)
                 /\ sockets' = [sockets EXCEPT !["ovs"] = f]
    BY <1>9 DEF AddPorts, WithOvs
  <2>3. /\ NewFile(test) \in Files /\ NewFile(test).during = test
        /\ NewFile(test).by <= test
    BY <1>2, NewFileFacts
  <2>4. /\ sockets["ovs"] \in Files /\ sockets["ovs"].by <= sockets["ovs"].during
        /\ sockets["ovs"].during <= test /\ NotOfOvs(sockets["ovs"])
    BY <1>1, <1>2, <2>1, Records DEF FilesInv, FreshFiles, KnownFiles, OvsReady
  <2>5. sockets'["ovs"] = f /\ sockets' \in [Dirs -> Files]
    BY <1>2, <2>2, <2>3, <2>4, Records
  <2>6. KnownFiles'
    <3>1. CASE f = NewFile(test)
      BY <1>2, <2>2, <2>3, <3>1, Records, NewFiles
    <3>2. CASE f = sockets["ovs"]
      <4>1. sockets' = sockets
        BY <1>2, <2>2, <3>2
      <4>. QED  BY <1>1, <1>2, <4>1 DEF FilesInv, KnownFiles
    <3>. QED  BY <2>2, <3>1, <3>2
  <2>7. f.during \in {0, test} \/ f.by \notin switches' \/ InScreen(f.by)
    <3>1. CASE f = NewFile(test)
      BY <2>3, <3>1
    <3>2. CASE f = sockets["ovs"] /\ f.by = test
      <4>1. f.during \in Nat
        BY <2>4, <3>2, Numbers DEF Files
      <4>. QED  BY <1>2, <2>4, <3>2, <4>1
    <3>3. CASE f = sockets["ovs"] /\ f.by # test
      BY <2>1, <2>4, <3>3 DEF NotOfOvs
    <3>. QED  BY <2>2, <3>1, <3>2, <3>3
  <2>8. FreshFiles'
    BY <1>2, <2>1, <2>5, <2>7 DEF FreshFiles, NotOfOvs, InScreen
  <2>9. MountBound' /\ OvsMounted' /\ Branches'
    BY <1>1, <1>2, <2>1
       DEF FilesInv, MountBound, MountOnTop, OvsMounted, UnderMount, Branches
  <2>10. switches' \subseteq switches \union {test} /\ vswitch[test] # "linux-bridge"
    BY <2>1 DEF Ovs
  <2>. QED
    BY <1>1, <1>2, <2>1, <2>5, <2>6, <2>8, <2>9, <2>10, SetUpStep DEF FilesInv, Before
<1>. QED  BY <1>3, <1>4, <1>5, <1>6, <1>7, <1>8, <1>9

LEMMA AppTypes ==
  ASSUME HostTypeOK
  PROVE  \A c \in Containers : \A a \in apps[c] : a.of \in Tests /\ a.of \in Nat
<1> SUFFICES ASSUME NEW c \in Containers, NEW a \in apps[c]
             PROVE  a.of \in Tests /\ a.of \in Nat
  OBVIOUS
<1>1. a \in Apps
  BY DEF HostTypeOK
<1>2. a.of \in Tests
  BY <1>1 DEF Apps
<1>. QED  BY <1>2, Numbers

\* start_applications.
LEMMA StartFacts ==
  ASSUME RunsInv, LxcStart
  PROVE  RunsInv'
<1> DEFINE new == [of |-> test, file |-> NoFile]
<1>1. /\ TypeOK /\ ScriptTypeOK /\ HostTypeOK /\ FilesInv /\ AppsInv /\ SwitchesInv
  BY DEF RunsInv, TypeOK
<1>2. /\ pc = "start" /\ pc' = "start" /\ i \in Containers /\ i' = i + 1
      /\ running' = running \union {i}
      /\ apps' = [apps EXCEPT ![i] = apps[i] \union {new}]
      /\ UNCHANGED << vswitch, test, outcome, found, outlived, switches, sockets, mounts >>
  <2>1. i \in Nat \ {0} /\ i <= NumContainers
    BY <1>1 DEF LxcStart, ScriptTypeOK
  <2>2. i \in Containers
    BY <2>1, Numbers DEF Containers
  <2>. QED  BY <2>2 DEF LxcStart, Then, plan
<1>3. /\ test \in Tests /\ test \in Nat /\ new \in Apps /\ new.of = test
      /\ new.file = NoFile
  BY <1>1, <1>2, Numbers, Records DEF ScriptTypeOK, Apps
<1>4. TypeOK'
  <2>1. ScriptTypeOK'
    BY <1>1, <1>2, Numbers DEF ScriptTypeOK
  <2>2. HostTypeOK'
    BY <1>1, <1>2, <1>3 DEF HostTypeOK
  <2>3. FoundTypeOK'
    BY <1>1, <1>2 DEF TypeOK, FoundTypeOK
  <2>. QED  BY <2>1, <2>2, <2>3 DEF TypeOK
<1>5. FilesInv'
  <2>1. MountBound' /\ OvsMounted' /\ KnownFiles'
    BY <1>1, <1>2 DEF FilesInv, MountBound, OvsMounted, KnownFiles
  <2>2. FreshFiles'
    BY <1>1, <1>2 DEF FilesInv, FreshFiles, NotOfOvs, InScreen, Shown
  <2>. QED  BY <2>1, <2>2 DEF FilesInv
<1>6. \A c \in Containers : apps'[c] = IF c = i THEN apps[i] \union {new} ELSE apps[c]
  BY <1>1, <1>2 DEF HostTypeOK
<1>7. InContainers' /\ AppsGone'
  BY <1>1, <1>2, <1>6 DEF AppsInv, InContainers, AppsGone, Before, AfterApps
<1>8. OwnApps'
  <2>1. ASSUME NEW c \in Containers, c \notin found.running, NEW a \in apps'[c]
        PROVE  OwnApp(a)
    <3>1. CASE a = new
      BY <1>3, <3>1, Records DEF OwnApp
    <3>2. CASE a # new
      <4>1. a \in apps[c]
        BY <1>6, <2>1, <3>2
      <4>. QED  BY <1>1, <1>2, <2>1, <4>1 DEF AppsInv, OwnApps, Timed
    <3>. QED  BY <3>1, <3>2
  <2>2. \A a : OwnApp(a)' <=> OwnApp(a)
    BY <1>2 DEF OwnApp, InScreen
  <2>. QED  BY <1>2, <2>1, <2>2 DEF OwnApps
<1>9. KnownApps'
  <2>1. ASSUME NEW c \in Containers, NEW a \in apps'[c]
        PROVE  a.of <= test /\ (Past(a.of)' => outcome[a.of] = "failed")
    <3>1. CASE a = new
      BY <1>2, <1>3, <3>1 DEF Past
    <3>2. CASE a # new
      <4>1. a \in apps[c]
        BY <1>6, <2>1, <3>2
      <4>. QED  BY <1>1, <1>2, <4>1 DEF AppsInv, KnownApps, Past
    <3>. QED  BY <3>1, <3>2
  <2>. QED  BY <1>2, <2>1 DEF KnownApps
<1>10. Branches' /\ SwitchesInv' /\ Cleaned'
  BY <1>1, <1>2 DEF Branches, SwitchesInv, KnownSwitches, SwitchDealtWith, Past, Cleaned
<1>. QED
  BY <1>4, <1>5, <1>7, <1>8, <1>9, <1>10 DEF RunsInv, AppsInv

\* stop_applications and stop_vswitch.
LEMMA StopFacts ==
  ASSUME RunsInv, LxcStop \/ WaitSwitch \/ StopOvs \/ Umount
  PROVE  RunsInv'
<1>1. /\ TypeOK /\ ScriptTypeOK /\ HostTypeOK /\ Branches /\ FilesInv /\ AppsInv
      /\ SwitchesInv
  BY DEF RunsInv, TypeOK
<1>2. /\ UNCHANGED << vswitch, test, outcome, found >>
      /\ pc \in {"stop", "stopvswitch", "waitvswitch", "umount"}
      /\ pc' \in {"stop", "umount", "unbind", "done"}
      /\ switches' \subseteq switches
      /\ outlived \subseteq outlived'
  <2>1. CASE LxcStop \/ StopOvs \/ Umount
    BY <2>1 DEF LxcStop, StopOvs, Umount, Then, plan
  <2>2. CASE WaitSwitch
    BY <2>2 DEF WaitSwitch, Waited, plan
  <2>. QED  BY <2>1, <2>2
<1>3. test \in Tests /\ test \in Nat /\ mounts \in Nat /\ sockets \in [Dirs -> Files]
  BY <1>1, <1>2, Numbers DEF ScriptTypeOK, HostTypeOK
<1>4. /\ FreshFiles' /\ OvsMounted' /\ OwnApps' /\ Cleaned'
  BY <1>2 DEF FreshFiles, Served, OvsReady, Before, Timed, OvsMounted, UnderMount,
              OwnApps, Cleaned
<1>5. KnownSwitches'
  BY <1>1, <1>2 DEF SwitchesInv, KnownSwitches, Past
<1>6. sockets' \in [Dirs -> Files] /\ KnownFiles'
  <2>1. \/ sockets' = sockets
        \/ \E d \in Dirs : sockets' = [sockets EXCEPT ![d] = NoFile]
    <3>1. [sockets EXCEPT !["ovs"] = sockets["ovs"]] = sockets
      BY <1>3
    <3>. QED
      BY <3>1, Records DEF LxcStop, WaitSwitch, RemoveSockets, StopOvs, WithOvs, Umount
  <2>2. CASE sockets' = sockets
    BY <1>1, <1>2, <1>3, <2>2 DEF FilesInv, KnownFiles
  <2>3. ASSUME NEW d \in Dirs, sockets' = [sockets EXCEPT ![d] = NoFile]
        PROVE  sockets' \in [Dirs -> Files] /\ KnownFiles'
    BY <1>2, <1>3, <2>3, Records, NewFiles
  <2>. QED  BY <2>1, <2>2, <2>3
<1>7. CASE LxcStop
  <2>1. /\ pc = "stop" /\ pc' = "stop" /\ i \in Containers /\ i' = i + 1
        /\ running' = running \ {i} /\ apps' = [apps EXCEPT ![i] = {}]
        /\ UNCHANGED << outlived, switches, mounts >>
    <3>1. i \in Nat \ {0} /\ i <= NumContainers
      BY <1>1, <1>7 DEF LxcStop, ScriptTypeOK
    <3>2. i \in Containers
      BY <3>1, Numbers DEF Containers
    <3>. QED  BY <1>7, <3>2 DEF LxcStop, Then
  <2>2. TypeOK'
    <3>1. ScriptTypeOK'
      BY <1>1, <1>2, <2>1, Numbers DEF ScriptTypeOK
    <3>2. HostTypeOK'
      BY <1>1, <1>6, <2>1 DEF HostTypeOK
    <3>3. FoundTypeOK'
      BY <1>1, <1>2 DEF TypeOK, FoundTypeOK
    <3>. QED  BY <3>1, <3>2, <3>3 DEF TypeOK
  <2>3. \A c \in Containers : apps'[c] = IF c = i THEN {} ELSE apps[c]
    BY <1>1, <2>1 DEF HostTypeOK
  <2>4. InContainers'
    BY <1>1, <2>1, <2>3 DEF AppsInv, InContainers, Before
  <2>5. AppsGone'
    <3>1. ASSUME NEW c \in Containers, c < i'
          PROVE  c \notin running'
      <4>1. c = i \/ c < i
        BY <2>1, <3>1 DEF Containers
      <4>. QED  BY <1>1, <2>1, <4>1 DEF AppsInv, AppsGone
    <3>. QED  BY <2>1, <3>1 DEF AppsGone, AfterApps
  <2>6. KnownApps'
    BY <1>1, <1>2, <2>1, <2>3 DEF AppsInv, KnownApps, Past
  <2>7. MountBound' /\ Branches' /\ SwitchDealtWith'
    BY <1>1, <1>2, <2>1
       DEF FilesInv, MountBound, MountOnTop, Branches, SwitchDealtWith
  <2>. QED
    BY <1>4, <1>5, <1>6, <2>2, <2>4, <2>5, <2>6, <2>7
       DEF RunsInv, FilesInv, AppsInv, SwitchesInv
<1>8. CASE ~LxcStop
  <2>1. /\ UNCHANGED << i, running, apps >> /\ running = {}
        /\ pc \in {"stopvswitch", "waitvswitch", "umount"}
        /\ pc' \in {"umount", "unbind", "done"}
    <3>1. /\ UNCHANGED << i, running, apps >>
          /\ pc \in {"stopvswitch", "waitvswitch", "umount"}
          /\ pc' \in {"umount", "unbind", "done"}
      BY <1>8 DEF WaitSwitch, Waited, StopOvs, Umount, Then
    <3>2. running = {}
      BY <1>1, <3>1 DEF AppsInv, AppsGone, AfterApps
    <3>. QED  BY <3>1, <3>2
  <2>2. mounts' \in Nat /\ outlived' \subseteq Tests
    <3>1. CASE WaitSwitch
      BY <1>1, <1>3, <3>1 DEF WaitSwitch, ScriptTypeOK, HostTypeOK, Sessions
    <3>2. CASE StopOvs
      BY <1>1, <1>3, <3>2 DEF StopOvs, Then, ScriptTypeOK
    <3>3. CASE Umount
      <4>1. mounts' = mounts - 1 /\ mounts > 0 /\ outlived' = outlived
        BY <3>3 DEF Umount, Then
      <4>2. mounts' \in Nat
        BY <1>3, <4>1
      <4>3. outlived' \subseteq Tests
        BY <1>1, <4>1 DEF ScriptTypeOK
      <4>. QED  BY <4>2, <4>3
    <3>. QED  BY <1>8, <3>1, <3>2, <3>3
  <2>3. TypeOK'
    <3>1. ScriptTypeOK'
      BY <1>1, <1>2, <2>1, <2>2 DEF ScriptTypeOK, Steps, AfterApps
    <3>2. HostTypeOK'
      BY <1>1, <1>2, <1>6, <2>1, <2>2 DEF HostTypeOK
    <3>3. FoundTypeOK'
      BY <1>1, <1>2 DEF TypeOK, FoundTypeOK
    <3>. QED  BY <3>1, <3>2, <3>3 DEF TypeOK
  <2>4. InContainers' /\ AppsGone'
    BY <1>1, <2>1 DEF AppsInv, InContainers, AppsGone, Before, AfterApps
  <2>5. KnownApps'
    BY <1>1, <1>2, <2>1 DEF AppsInv, KnownApps, Past
  <2>6. MountBound' /\ Branches' /\ SwitchDealtWith'
    <3>1. CASE WaitSwitch
      <4>1. /\ pc = "waitvswitch" /\ pc' \in {"unbind", "done"} /\ InScreen(test)
            /\ mounts' = mounts /\ switches' = switches
            /\ outlived' = outlived \union Sessions
        BY <1>1, <3>1 DEF WaitSwitch, Waited, Branches
      <4>2. vswitch[test] # "ovs" /\ (test \in switches => test \in Sessions)
        BY <4>1 DEF InScreen, Sessions
      <4>. QED
        BY <1>1, <1>2, <4>1, <4>2
           DEF FilesInv, MountBound, Branches, SwitchDealtWith
    <3>2. CASE StopOvs
      <4>1. /\ pc = "stopvswitch" /\ pc' = "umount" /\ vswitch[test] = "ovs"
            /\ mounts' = mounts /\ switches' = switches \ Ovs
        BY <3>2 DEF StopOvs, Then
      <4>2. test \notin switches'
        BY <4>1 DEF Ovs
      <4>. QED
        BY <1>1, <1>2, <4>1, <4>2
           DEF FilesInv, MountBound, MountOnTop, Branches, SwitchDealtWith
    <3>3. CASE Umount
      <4>1. /\ pc = "umount" /\ pc' = "unbind" /\ mounts' = mounts - 1
            /\ switches' = switches /\ outlived' = outlived
        BY <3>3 DEF Umount, Then
      <4>2. found.mounts \in Nat
        BY <1>1 DEF TypeOK, FoundTypeOK
      <4>3. MountBound'
        BY <1>1, <1>2, <1>3, <4>1, <4>2 DEF FilesInv, MountBound
      <4>. QED
        BY <1>1, <1>2, <4>1, <4>3 DEF Branches, SwitchesInv, SwitchDealtWith
    <3>. QED  BY <1>8, <3>1, <3>2, <3>3
  <2>. QED
    BY <1>4, <1>5, <1>6, <2>3, <2>4, <2>5, <2>6
       DEF RunsInv, FilesInv, AppsInv, SwitchesInv
<1>. QED  BY <1>7, <1>8

\* The beginning and the end of a test.
LEMMA IdleFacts ==
  ASSUME RunsInv, NextTest \/ AllDone \/ Fails \/ Completed
  PROVE  RunsInv'
<1>1. /\ TypeOK /\ ScriptTypeOK /\ HostTypeOK /\ FilesInv /\ AppsInv /\ SwitchesInv
      /\ test \in Nat /\ NumTests \in Nat
  BY Numbers DEF RunsInv, TypeOK, ScriptTypeOK
<1>2. \A c \in Containers : \A a \in apps[c] : a.of \in Tests /\ a.of \in Nat
  BY <1>1, AppTypes
<1>3. \A t \in switches : t \in Tests /\ t \in Nat
  BY <1>1, Numbers DEF HostTypeOK
<1>4. CASE NextTest
  <2>1. /\ pc = "idle" /\ pc' = "prepare" /\ test < NumTests /\ test' = test + 1
        /\ i' = 1 /\ found' = [running |-> running, mounts |-> mounts]
        /\ UNCHANGED << vswitch, outcome, host, outlived >>
    BY <1>4 DEF NextTest, plan
  <2>2. ScriptTypeOK'
    <3>1. test' \in Tests
      <4>1. test \in Names
        BY <1>1 DEF ScriptTypeOK
      <4>2. test + 1 \in Tests
        BY <2>1, <4>1, Numbers
      <4>. QED  BY <2>1, <4>2
    <3>2. test' \in Names /\ i' \in Nat \ {0}
      BY <2>1, <3>1, Numbers
    <3>. QED  BY <1>1, <2>1, <3>1, <3>2 DEF ScriptTypeOK, Steps, Before
  <2>3. \A t \in switches : t <= test' /\ (t \in outlived \/ outcome'[t] = "failed")
    BY <1>1, <1>3, <2>1 DEF SwitchesInv, KnownSwitches, Past
  <2>4. \A c \in Containers : \A a \in apps[c] :
          a.of <= test' /\ outcome'[a.of] = "failed"
    BY <1>1, <1>2, <2>1 DEF AppsInv, KnownApps, Past
  <2>. QED  BY <1>1, <2>1, <2>2, <2>3, <2>4, IdleStep DEF Cleaned
<1>5. CASE AllDone
  <2>1. /\ pc = "idle" /\ pc' = "end"
        /\ UNCHANGED << vswitch, test, i, outcome, host, found, outlived >>
    BY <1>5 DEF AllDone, plan
  <2>2. ScriptTypeOK'
    BY <1>1, <2>1 DEF ScriptTypeOK, Steps
  <2>3. \A t \in switches : t <= test' /\ (t \in outlived \/ outcome'[t] = "failed")
    BY <1>1, <2>1 DEF SwitchesInv, KnownSwitches, Past
  <2>4. \A c \in Containers : \A a \in apps[c] :
          a.of <= test' /\ outcome'[a.of] = "failed"
    BY <1>1, <2>1 DEF AppsInv, KnownApps, Past
  <2>. QED  BY <1>1, <2>1, <2>2, <2>3, <2>4, IdleStep DEF Cleaned
<1>6. CASE Fails \/ Completed
  <2>1. PICK how \in {"failed", "completed"} :
          /\ pc \notin {"idle", "end"} /\ pc' = "idle"
          /\ outcome' = [outcome EXCEPT ![test] = how]
          /\ how = "completed" => pc = "done"
          /\ UNCHANGED << vswitch, test, i, host, found, outlived >>
    <3>1. CASE Fails
      BY <3>1 DEF Fails, Fallible, plan
    <3>2. CASE Completed
      BY <3>2 DEF Completed, plan
    <3>. QED  BY <1>6, <3>1, <3>2
  <2>2. /\ test \in Tests /\ outcome'[test] = how
        /\ \A t \in Tests : t # test => outcome'[t] = outcome[t]
    BY <1>1, <2>1 DEF ScriptTypeOK
  <2>3. ScriptTypeOK'
    BY <1>1, <2>1, <2>2 DEF ScriptTypeOK, Steps
  <2>4. ASSUME NEW t \in switches
        PROVE  t <= test' /\ (t \in outlived \/ outcome'[t] = "failed")
    <3>1. t <= test /\ t \in Tests
      BY <1>1, <1>3 DEF SwitchesInv, KnownSwitches
    <3>2. CASE t = test
      BY <1>1, <2>1, <2>2, <3>1, <3>2 DEF SwitchesInv, SwitchDealtWith
    <3>3. CASE t # test
      <4>1. t < test
        BY <1>1, <1>3, <3>1, <3>3
      <4>2. t \in outlived \/ outcome[t] = "failed"
        BY <1>1, <4>1 DEF SwitchesInv, KnownSwitches, Past
      <4>. QED  BY <2>1, <2>2, <3>1, <3>3, <4>2
    <3>. QED  BY <3>2, <3>3
  <2>5. how = "completed" => running = {} /\ mounts <= found.mounts
    BY <1>1, <2>1
       DEF AppsInv, AppsGone, AfterApps, FilesInv, MountBound, MountOnTop
  <2>6. ASSUME NEW c \in Containers, NEW a \in apps[c]
        PROVE  a.of <= test' /\ outcome'[a.of] = "failed"
    <3>1. a.of <= test /\ a.of \in Tests
      BY <1>1, <1>2 DEF AppsInv, KnownApps
    <3>2. how = "failed"
      BY <1>1, <2>1, <2>5, <2>6 DEF AppsInv, InContainers
    <3>3. CASE a.of = test
      BY <2>1, <2>2, <3>1, <3>2, <3>3
    <3>4. CASE a.of # test
      <4>1. a.of < test
        BY <1>1, <1>2, <3>1, <3>4
      <4>2. outcome[a.of] = "failed"
        BY <1>1, <4>1 DEF AppsInv, KnownApps, Past
      <4>. QED  BY <2>1, <2>2, <3>1, <3>4, <4>2
    <3>. QED  BY <3>3, <3>4
  <2>7. Cleaned'
    BY <2>1, <2>2, <2>5 DEF Cleaned, host
  <2>8. test' >= test
    BY <1>1, <2>1
  <2>. QED  BY <2>1, <2>3, <2>4, <2>6, <2>7, <2>8, IdleStep
<1>. QED  BY <1>4, <1>5, <1>6

\* The switches and the applications.
LEMMA SwitchFacts ==
  ASSUME RunsInv, NEW t \in Tests, SwitchReady(t) \/ SwitchEnds(t)
  PROVE  RunsInv'
<1>1. /\ HostTypeOK /\ test \in Names /\ Meanwhile /\ apps' = apps
      /\ UNCHANGED << test, running, mounts >>
  BY DEF RunsInv, TypeOK, ScriptTypeOK, SwitchReady, SwitchEnds, Meanwhile
<1>2. CASE SwitchReady(t)
  <2>1. /\ t \in switches /\ switches' = switches
        /\ sockets' = [sockets EXCEPT ![Shown] = NewFile(t)]
    BY <1>2 DEF SwitchReady
  <2>2. NewFile(t) \in Files /\ NewFile(t).during = test /\ NewFile(t).by = t
    BY <1>1, Numbers DEF NewFile, Files
  <2>3. HostTypeOK'
    BY <1>1, <2>1, <2>2, Records DEF HostTypeOK
  <2>4. \A d \in Dirs : \/ sockets'[d] = sockets[d]
                        \/ sockets'[d].during = test /\ sockets'[d].by \in switches
    BY <1>1, <2>1, <2>2 DEF HostTypeOK
  <2>. QED  BY <1>1, <2>1, <2>3, <2>4, ProcessStep
<1>3. CASE SwitchEnds(t)
  <2>1. /\ switches' = switches \ {t}
        /\ sockets' = sockets \/ sockets' = [sockets EXCEPT ![Shown] = NoFile]
    BY <1>3 DEF SwitchEnds
  <2>2. HostTypeOK'
    BY <1>1, <2>1, Records DEF HostTypeOK
  <2>3. \A d \in Dirs : sockets'[d] = sockets[d] \/ sockets'[d] = NoFile
    BY <1>1, <2>1 DEF HostTypeOK
  <2>. QED  BY <1>1, <2>1, <2>2, <2>3, ProcessStep
<1>. QED  BY <1>2, <1>3

LEMMA AppFacts ==
  ASSUME RunsInv, NEW c \in Containers, AppConnects(c) \/ AppEnds(c)
  PROVE  RunsInv'
<1>1. /\ HostTypeOK /\ Meanwhile /\ UNCHANGED << switches, sockets, running, mounts >>
  BY DEF RunsInv, TypeOK, AppConnects, AppEnds, Meanwhile
<1>2. CASE AppConnects(c)
  <2>1. PICK a \in apps[c], d \in Seen(c) :
          /\ sockets[d].by \in switches
          /\ apps' = [apps EXCEPT ![c] =
                       (@ \ {a}) \union {[of |-> a.of, file |-> sockets[d]]}]
    BY <1>2 DEF AppConnects
  <2> DEFINE b == [of |-> a.of, file |-> sockets[d]]
  <2>2. d \in Dirs /\ (c \notin found.running => d = Shown)
    BY Records DEF Seen
  <2>3. a \in Apps /\ sockets[d] \in Files
    BY <1>1, <2>2 DEF HostTypeOK
  <2>4. b \in Apps /\ b.of = a.of /\ b.file = sockets[d]
    BY <2>3 DEF Apps
  <2>5. HostTypeOK'
    BY <1>1, <2>1, <2>4 DEF HostTypeOK
  <2>6. \A e \in Containers :
          apps'[e] = IF e = c THEN (apps[c] \ {a}) \union {b} ELSE apps[e]
    BY <1>1, <2>1 DEF HostTypeOK
  <2>. QED  BY <1>1, <2>1, <2>2, <2>4, <2>5, <2>6, ProcessStep
<1>3. CASE AppEnds(c)
  <2>1. PICK a \in apps[c] : apps' = [apps EXCEPT ![c] = @ \ {a}]
    BY <1>3 DEF AppEnds
  <2>2. HostTypeOK'
    BY <1>1, <2>1 DEF HostTypeOK
  <2>3. \A e \in Containers : apps'[e] \subseteq apps[e]
    BY <1>1, <2>1 DEF HostTypeOK
  <2>. QED  BY <1>1, <2>2, <2>3, ProcessStep
<1>. QED  BY <1>2, <1>3

\* The steps that only move on in the script.
LEMMA QuietFacts ==
  ASSUME RunsInv,
         \/ VppExternal \/ NoSwitch \/ ReadClock \/ WaitSchedule \/ AtOnce \/ Begin
         \/ WaitTimeout \/ TellApps \/ AppsStopped
         \/ TellSwitch \/ Unbind \/ NothingToStop
  PROVE  RunsInv'
<1>1. /\ HostTypeOK /\ i \in Nat \ {0} /\ AppsInv
  BY DEF RunsInv, TypeOK, ScriptTypeOK
<1>2. Stays /\ UNCHANGED << host, outlived >>
  BY DEF VppExternal, NoSwitch, ReadClock, WaitSchedule, AtOnce, Begin, WaitTimeout,
         TellApps, AppsStopped, TellSwitch, Unbind, NothingToStop, Then, plan, Stays
<1>3. i' \in Nat \ {0}
  BY <1>1, Numbers
     DEF VppExternal, NoSwitch, ReadClock, WaitSchedule, AtOnce, Begin, WaitTimeout,
         TellApps, AppsStopped, TellSwitch, Unbind, NothingToStop
<1>4. CASE \/ VppExternal \/ NoSwitch \/ ReadClock \/ WaitSchedule \/ AtOnce \/ Begin
           \/ WaitTimeout
  BY <1>2, <1>3, <1>4, QuietStep
     DEF VppExternal, NoSwitch, ReadClock, WaitSchedule, AtOnce, Begin, WaitTimeout, Then
<1>5. CASE TellApps
  BY <1>2, <1>3, <1>5, QuietStep DEF TellApps, Then
<1>6. CASE AppsStopped
  <2>1. \A c \in Containers : c < i
    BY <1>1, <1>6, Numbers DEF AppsStopped, Containers
  <2>2. running = {}
    BY <1>1, <1>6, <2>1 DEF AppsStopped, AppsInv, AppsGone, HostTypeOK
  <2>. QED  BY <1>2, <1>3, <1>6, <2>2, QuietStep DEF AppsStopped, Then
<1>7. CASE TellSwitch \/ Unbind \/ NothingToStop
  BY <1>2, <1>3, <1>7, QuietStep DEF TellSwitch, Unbind, NothingToStop, Then
<1>. QED  BY <1>4, <1>5, <1>6, <1>7

LEMMA StepKeepsRunsInv ==
  RunsInv /\ [Next]_vars => RunsInv'
<1> SUFFICES ASSUME RunsInv, [Next]_vars
             PROVE  RunsInv'
  OBVIOUS
<1>1. CASE Script
  BY <1>1, IdleFacts, SetUpFacts, StartFacts, StopFacts, QuietFacts DEF Script
<1>2. CASE \E t \in Tests : SwitchReady(t) \/ SwitchEnds(t)
  BY <1>2, SwitchFacts
<1>3. CASE \E c \in Containers : AppConnects(c) \/ AppEnds(c)
  BY <1>3, AppFacts
<1>4. CASE UNCHANGED vars
  <2>1. Meanwhile /\ UNCHANGED << running, apps, switches, sockets, mounts >>
    BY <1>4 DEF vars, Meanwhile, plan
  <2>2. HostTypeOK'
    BY <2>1 DEF RunsInv, TypeOK, HostTypeOK
  <2>. QED  BY <2>1, <2>2, ProcessStep
<1> QED
  BY <1>1, <1>2, <1>3, <1>4 DEF Next

LEMMA InitRunsInv == Init => RunsInv
<1> SUFFICES ASSUME Init
             PROVE  RunsInv
  OBVIOUS
<1>1. /\ vswitch \in [Tests -> Kinds] /\ test = 0 /\ pc = "idle" /\ i = 1
      /\ outcome = [t \in Tests |-> "not run"]
      /\ running = {} /\ apps = [c \in Containers |-> {}]
      /\ switches = {} /\ sockets = [d \in Dirs |-> NoFile] /\ outlived = {}
      /\ mounts \in Nat /\ found = [running |-> {}, mounts |-> 0]
  <2>1. mounts \in Nat
    <3>1. mounts \in {0, 1}
      BY DEF Init
    <3>. QED  BY <3>1
  <2>. QED  BY <2>1 DEF Init
<1>2. TypeOK
  <2>1. ScriptTypeOK
    <3>1. test \in Names /\ i \in Nat \ {0}
      BY <1>1, Numbers
    <3> QED BY <1>1, <3>1 DEF ScriptTypeOK, Steps
  <2>2. HostTypeOK
    BY <1>1, Records DEF HostTypeOK
  <2>3. FoundTypeOK
    BY <1>1 DEF FoundTypeOK
  <2> QED BY <2>1, <2>2, <2>3 DEF TypeOK
<1>3. KnownFiles
  <2>1. \A d \in Dirs : sockets[d] = NoFile
    BY <1>1
  <2>2. \A d \in Dirs : sockets[d].by = 0 /\ sockets[d].during = 0
    BY <2>1, Records
  <2>3. test = 0
    BY <1>1
  <2>. QED  BY <2>2, <2>3 DEF KnownFiles
<1>5. FilesInv /\ Branches /\ Cleaned
  BY <1>1, <1>3
     DEF FilesInv, MountBound, OvsMounted, UnderMount, FreshFiles, Served, OvsReady,
         Before, Timed, Branches, Cleaned
<1>4. AppsInv /\ SwitchesInv
  BY <1>1
     DEF AppsInv, InContainers, OwnApps, AppsGone, KnownApps, Before, Timed, AfterApps,
         SwitchesInv, KnownSwitches, SwitchDealtWith
<1> QED
  BY <1>2, <1>4, <1>5 DEF RunsInv

\* The inductive invariant, whatever fails, ends or outlives its time.
LEMMA RunsInvariant == Spec => []RunsInv
<1>1. Init => RunsInv
  BY InitRunsInv
<1>2. RunsInv /\ [Next]_vars => RunsInv'
  BY StepKeepsRunsInv
<1> QED
  BY <1>1, <1>2, PTL DEF Spec

\* Whatever earlier tests left behind, in the containers that it started itself
\* a test measures only its own applications over socket files made since it
\* began, or files that another kind of switch left in the directory of ovs
\* (start_applications, prepare_system_resources, start_vswitch).
THEOREM MeasuresCorrect == Spec => []MeasuresItsOwn
<1>1. RunsInv => MeasuresItsOwn
  <2> SUFFICES ASSUME RunsInv, pc = "wait", NEW c \in Containers, NEW a \in apps[c]
               PROVE  IF c \in found.running
                      THEN a.of = test \/ outcome[a.of] = "failed"
                      ELSE /\ a.of = test
                           /\ \/ a.file.during \in {0, test}
                              \/ vswitch[test] = "ovs" /\ InScreen(a.file.by)
    BY DEF MeasuresItsOwn
  <2>1. a.of \in Nat /\ test \in Nat
    BY AppTypes, Numbers DEF RunsInv, TypeOK, ScriptTypeOK
  <2>2. a.of = test \/ outcome[a.of] = "failed"
    BY <2>1 DEF RunsInv, AppsInv, KnownApps, Past
  <2>3. c \notin found.running => OwnApp(a)
    BY DEF RunsInv, AppsInv, OwnApps, Timed
  <2>. QED  BY <2>2, <2>3 DEF OwnApp
<1> QED
  BY <1>1, RunsInvariant, PTL

\* A test that completes leaves nothing running but what outlived the wait or
\* is of a failed test, and takes down what it mounted (stop_applications,
\* stop_vswitch).
THEOREM CleanCorrect == Spec => []CleanAfterSuccess
<1>1. RunsInv => CleanAfterSuccess
  <2> SUFFICES ASSUME RunsInv, pc = "idle", test # 0,
                      outcome[test] = "completed"
               PROVE  /\ running = {} /\ apps = [c \in Containers |-> {}]
                      /\ mounts <= found.mounts
                      /\ \A t \in switches : t \in outlived \/ outcome[t] = "failed"
    BY DEF CleanAfterSuccess
  <2>1. running = {} /\ mounts <= found.mounts
    BY DEF RunsInv, Cleaned
  <2>2. apps = [c \in Containers |-> {}]
    BY <2>1 DEF RunsInv, TypeOK, HostTypeOK, AppsInv, InContainers
  <2>3. \A t \in switches : t \in outlived \/ outcome[t] = "failed"
    BY DEF RunsInv, SwitchesInv, KnownSwitches, Past
  <2> QED BY <2>1, <2>2, <2>3
<1> QED
  BY <1>1, RunsInvariant, PTL

-----------------------------------------------------------------------------
(* When a test begins. *)

\* What has been read and computed, until the test begins.
TargetRead ==
  pc = "delay" =>
    /\ schedule > 0 /\ clock.epoch \in Nat /\ clock.epoch < schedule * Minute
    /\ clock.delay = TargetMins(clock.epoch) - clock.epoch \div Minute
Clocks == [epoch : Nat, delay : Int, turned : BOOLEAN, started : Int]
ScheduleInv == schedule \in Nat /\ clock \in Clocks /\ TargetRead /\ OnSchedule

\* The first multiple of -S that is more than the spare seconds ahead.
LEMMA TargetFacts ==
  ASSUME schedule \in Nat, schedule > 0,
         NEW epoch \in Nat, epoch < schedule * Minute
  PROVE  /\ TargetMins(epoch) = schedule \/ TargetMins(epoch) = 2 * schedule
         /\ TargetMins(epoch) * Minute > epoch + Spare
         /\ TargetMins(epoch) * Minute - schedule * Minute <= epoch + Spare
<1> DEFINE mins == (epoch + 1) \div 6 + 1
           rest == mins % schedule
<1>1. TargetMins(epoch) = IF rest = 0 THEN mins ELSE mins + schedule - rest
  BY DEF TargetMins, Minute, Spare
<1>2. mins \in Nat /\ mins >= 1 /\ mins <= schedule + 1 /\ mins * 6 > epoch + 1
      /\ mins * 6 - 6 <= epoch + 1
  BY DEF Minute
<1> HIDE DEF mins
<1>3. rest \in 0 .. schedule - 1
  BY <1>2
<1>4. CASE mins < schedule
  <2>1. rest = mins
    BY <1>2, <1>4
  <2> HIDE DEF rest
  <2>. QED  BY <1>1, <1>2, <1>4, <2>1 DEF Minute, Spare
<1>5. CASE mins = schedule
  <2>1. rest = 0
    BY <1>2, <1>5
  <2> HIDE DEF rest
  <2>. QED  BY <1>1, <1>2, <1>5, <2>1 DEF Minute, Spare
<1>6. CASE mins = schedule + 1 /\ schedule = 1
  <2>1. rest = 0
    BY <1>3, <1>6
  <2> HIDE DEF rest
  <2>. QED  BY <1>1, <1>2, <1>6, <2>1 DEF Minute, Spare
<1>7. CASE mins = schedule + 1 /\ schedule > 1
  <2>1. rest = 1
    BY <1>7
  <2> HIDE DEF rest
  <2>. QED  BY <1>1, <1>2, <1>7, <2>1 DEF Minute, Spare
<1>. QED  BY <1>2, <1>4, <1>5, <1>6, <1>7

\* However long the commands take, the sleep ends when it should, if the minute
\* has not turned.
LEMMA WaitFacts ==
  ASSUME ScheduleInv, WaitSchedule
  PROVE  OnSchedule' /\ clock' \in Clocks
<1>1. PICK lag \in 0 .. MaxLag, later \in 0 .. MaxLag :
        LET second == clock.epoch + lag
            target == ((second + clock.delay * Minute) \div Minute) * Minute
        IN  clock' = [clock EXCEPT
              !.turned = (second \div Minute # clock.epoch \div Minute),
              !.started = (second + later) + (target - clock.epoch)]
  BY DEF WaitSchedule
<1> DEFINE epoch == clock.epoch
           second == epoch + lag
           mins == TargetMins(epoch)
<1>2. /\ schedule \in Nat /\ schedule > 0 /\ schedule' = schedule
      /\ epoch \in Nat /\ epoch < schedule * Minute
      /\ clock.delay = mins - epoch \div 6
      /\ MaxLag \in Nat /\ lag \in Nat /\ later \in Nat
      /\ lag <= MaxLag /\ later <= MaxLag
  BY TestRunsAssumption
     DEF ScheduleInv, TargetRead, WaitSchedule, Then, plan, Minute
<1>3. /\ mins = schedule \/ mins = 2 * schedule
      /\ mins * 6 > epoch + 1 /\ mins * 6 - schedule * 6 <= epoch + 1
  BY <1>2, TargetFacts DEF Minute, Spare
<1> HIDE DEF mins
<1>a. PICK e6 \in Nat, s6 \in Nat, wake \in Int :
        /\ e6 = epoch \div 6 /\ s6 = second \div 6
        /\ wake = (second + clock.delay * 6) \div 6
  BY <1>2, <1>3
<1>b. PICK began \in Int : began = (second + later) + (wake * 6 - epoch)
  BY <1>2, <1>a
<1>c. PICK over \in BOOLEAN : over = (s6 # e6)
  OBVIOUS
<1>d. clock' = [clock EXCEPT !.turned = over, !.started = began]
  <2>1. over = (second \div 6 # epoch \div 6)
    BY <1>a, <1>c
  <2>2. began = (second + later)
                  + (((second + clock.delay * 6) \div 6) * 6 - epoch)
    BY <1>a, <1>b
  <2>. QED  BY <1>1, <2>1, <2>2, Zenon DEF Minute
<1>4. /\ clock' \in Clocks /\ clock'.epoch = epoch
      /\ clock'.turned = over /\ clock'.started = began
  BY <1>d DEF ScheduleInv, Clocks
<1>5. ASSUME ~clock'.turned
      PROVE  /\ clock'.started - mins * 6 = lag + later
             /\ clock'.started \in Int /\ mins \in Nat
  <2>1. s6 = e6
    BY <1>4, <1>5, <1>c, Zenon
  <2>2. \A x \in Int, y \in Int : (x + y * 6) \div 6 = x \div 6 + y
    OBVIOUS
  <2>3. second \in Int /\ clock.delay \in Int /\ clock.delay = mins - e6
    BY <1>2, <1>3, <1>a
  <2>4. mins \in Nat /\ wake = s6 + mins - e6
    <3>1. mins \in Nat
      BY <1>2, <1>3
    <3>2. wake = second \div 6 + (mins - e6)
      BY <1>a, <2>2, <2>3
    <3>. QED  BY <1>a, <3>1, <3>2
  <2>5. wake = mins
    BY <1>a, <2>1, <2>4
  <2>6. began - mins * 6 = lag + later
    BY <1>2, <1>b, <2>4, <2>5
  <2>. QED  BY <1>4, <1>b, <2>4, <2>6
<1>6. PICK n \in 1 .. 2 : mins = n * schedule
  BY <1>2, <1>3
<1>7. ASSUME ~clock'.turned
      PROVE  /\ n * schedule' * 6 > clock'.epoch + 1
             /\ n * schedule' * 6 - schedule' * 6 <= clock'.epoch + 1
             /\ clock'.started - n * schedule' * 6 \in 0 .. 2 * MaxLag
  <2>1. n * schedule' * 6 = mins * 6
    BY <1>2, <1>6
  <2>2. lag + later \in 0 .. 2 * MaxLag
    BY <1>2
  <2>. QED  BY <1>2, <1>3, <1>4, <1>5, <1>7, <2>1, <2>2
<1>8. OnSchedule'
  BY <1>7 DEF OnSchedule, Minute, Spare
<1>. QED  BY <1>4, <1>8

LEMMA NoClockType == NoClock \in Clocks
<1>1. 0 \in Nat /\ 0 \in Int /\ FALSE \in BOOLEAN
  OBVIOUS
<1>. QED  BY <1>1 DEF NoClock, Clocks

\* The clock is read for the first time.
LEMMA ReadFacts ==
  ASSUME ScheduleInv, ReadClock
  PROVE  ScheduleInv'
<1>1. PICK epoch \in 0 .. schedule * Minute - 1 :
        clock' = [NoClock EXCEPT !.epoch = epoch,
                    !.delay = TargetMins(epoch) - epoch \div Minute]
  BY DEF ReadClock
<1>2. /\ schedule \in Nat /\ schedule > 0 /\ schedule' = schedule /\ pc' = "delay"
      /\ epoch \in Nat /\ epoch < schedule * Minute
  BY DEF ScheduleInv, ReadClock, Then, plan, Minute
<1>3. PICK mins \in Nat : mins = TargetMins(epoch)
  BY <1>2, TargetFacts
<1>4. /\ clock' \in Clocks /\ clock'.epoch = epoch
      /\ clock'.delay = mins - epoch \div Minute
  <2>1. PICK wait \in Int : wait = mins - epoch \div Minute
    BY <1>2, <1>3 DEF Minute
  <2>2. clock' = [NoClock EXCEPT !.epoch = epoch, !.delay = wait]
    BY <1>1, <1>3, <2>1
  <2>. QED  BY <1>2, <2>1, <2>2, NoClockType DEF Clocks
<1>5. TargetMins(epoch)' = TargetMins(epoch)
  BY <1>2 DEF TargetMins
<1>6. TargetRead'
  <2>1. TargetMins(clock.epoch)' = mins
    BY <1>2, <1>3, <1>4 DEF TargetMins
  <2>. QED  BY <1>2, <1>4, <2>1 DEF TargetRead
<1>. QED  BY <1>2, <1>4, <1>6 DEF ScheduleInv, OnSchedule

\* Only three steps have to do with the time a test begins at.
LEMMA ElsewhereFacts ==
  ASSUME ScheduleInv, schedule' = schedule,
         clock' = clock \/ clock' = NoClock,
         \/ pc' = pc /\ clock' = clock
         \/ pc' \notin {"delay", "begin"}
         \/ schedule = 0 /\ pc' = "begin"
  PROVE  ScheduleInv'
<1>1. clock' \in Clocks /\ schedule' \in Nat
  BY NoClockType DEF ScheduleInv
<1>2. CASE pc' = pc /\ clock' = clock
  BY <1>2 DEF ScheduleInv, TargetRead, OnSchedule, TargetMins
<1>3. CASE pc' \notin {"delay", "begin"} \/ (schedule = 0 /\ pc' = "begin")
  BY <1>1, <1>3 DEF ScheduleInv, TargetRead, OnSchedule
<1>. QED  BY <1>2, <1>3

LEMMA StepKeepsSchedule ==
  ASSUME ScheduleInv, [Next]_vars
  PROVE  ScheduleInv'
<1>1. CASE ReadClock
  BY <1>1, ReadFacts
<1>2. CASE WaitSchedule
  <2>1. OnSchedule' /\ clock' \in Clocks
    BY <1>2, WaitFacts
  <2>2. schedule' = schedule /\ pc' = "begin"
    BY <1>2 DEF WaitSchedule, Then, plan
  <2>. QED  BY <2>1, <2>2 DEF ScheduleInv, TargetRead
<1>3. CASE \/ NextTest \/ AllDone \/ Fails \/ Prepare
  BY <1>3, ElsewhereFacts DEF NextTest, AllDone, Fails, Prepare, Then, plan
<1>4. CASE \/ StartScreen \/ VppAnswers \/ VppExternal
           \/ MountOvs \/ StartOvs \/ DropBridges \/ AddPorts \/ NoSwitch
  <2>1. schedule' = schedule /\ clock' = clock /\ pc' \notin {"delay", "begin"}
    BY <1>4 DEF StartScreen, VppAnswers, VppExternal, MountOvs, StartOvs,
                DropBridges, AddPorts, NoSwitch, Then, plan
  <2>. QED  BY <2>1, ElsewhereFacts
<1>5. CASE AtOnce \/ Begin
  <2>1. /\ schedule' = schedule /\ (clock' = clock \/ clock' = NoClock)
        /\ pc' \notin {"delay", "begin"} \/ (schedule = 0 /\ pc' = "begin")
    BY <1>5 DEF AtOnce, Begin, Then, plan
  <2>. QED  BY <2>1, ElsewhereFacts
<1>6. CASE \/ LxcStart \/ WaitTimeout \/ TellApps \/ LxcStop \/ AppsStopped
  <2>1. schedule' = schedule /\ clock' = clock /\ pc' \notin {"delay", "begin"}
    BY <1>6 DEF LxcStart, WaitTimeout, TellApps, LxcStop, AppsStopped, Then, plan
  <2>. QED  BY <2>1, ElsewhereFacts
<1>7. CASE \/ TellSwitch \/ WaitSwitch \/ StopOvs \/ Umount \/ Unbind
           \/ NothingToStop \/ Completed
  <2>1. schedule' = schedule /\ clock' = clock /\ pc' \notin {"delay", "begin"}
    BY <1>7 DEF TellSwitch, WaitSwitch, Waited, StopOvs, Umount, Unbind,
                NothingToStop, Completed, Then, plan
  <2>. QED  BY <2>1, ElsewhereFacts
<1>8. CASE \/ \E t \in Tests : SwitchReady(t) \/ SwitchEnds(t)
           \/ \E c \in Containers : AppConnects(c) \/ AppEnds(c)
           \/ UNCHANGED vars
  <2>1. schedule' = schedule /\ clock' = clock /\ pc' = pc
    BY <1>8 DEF SwitchReady, SwitchEnds, AppConnects, AppEnds, Meanwhile,
                plan, vars
  <2>. QED  BY <2>1, ElsewhereFacts
<1>. QED
  BY <1>1, <1>2, <1>3, <1>4, <1>5, <1>6, <1>7, <1>8 DEF Next, Script

\* A test begins at the first multiple of -S that was more than the spare
\* seconds ahead, if the minute does not turn between the two readings of the
\* clock (wait_schedule), for every -S and however slow the commands are.
THEOREM ScheduleCorrect == Spec => []OnSchedule
<1>1. Init => ScheduleInv
  BY TestRunsAssumption, NoClockType DEF Init, ScheduleInv, TargetRead, OnSchedule
<1>2. ScheduleInv /\ [Next]_vars => ScheduleInv'
  BY StepKeepsSchedule
<1>3. ScheduleInv => OnSchedule
  BY DEF ScheduleInv
<1>. QED  BY <1>1, <1>2, <1>3, PTL DEF Spec

-----------------------------------------------------------------------------
(* The CPUs of a container, for every list. *)

LEMMA ItemTypes ==
  ASSUME NEW list, IsList(list), NEW k \in DOMAIN list
  PROVE  list[k] \in Items
BY DEF IsList

\* An application over kernel sockets runs only on CPUs of its container's
\* list (cpu_list_to_mask/main.c:52-79, nfv_run_in_container:95-150).
THEOREM MaskWithinList ==
  ASSUME NEW list, IsList(list)
  PROVE  Mask(list) \subseteq CpusMeant(list)
<1>1. ASSUME NEW k \in DOMAIN list
      PROVE  Bits(list, k) \subseteq Meant(list, k)
  <2>1. list[k] \in Items
    BY ItemTypes
  <2>2. CASE list[k].delim = ","
    BY <2>2 DEF Bits, Meant
  <2>3. CASE list[k].delim # ","
    <3>1. list[k].cpu \in Nat
      BY <2>1 DEF Items
    <3>2. ASSUME NEW c \in Nat, c < list[k].cpu
          PROVE  c <= list[k].cpu
      BY <3>1, <3>2
    <3> QED BY <2>3, <3>2 DEF Bits, Meant
  <2> QED BY <2>2, <2>3
<1> QED BY <1>1 DEF Mask, CpusMeant

\* It gets all of them but the end of each range, and that one too if the list
\* has it elsewhere as well, although the comment says that taskset takes "the
\* same format" (cpu_list_to_mask/main.c:12-13).
THEOREM RangesLoseTheirEnd ==
  ASSUME NEW list, IsList(list), Ascending(list)
  PROVE  Mask(list) \union RangeEnds(list) = CpusMeant(list)
<1>1. ASSUME NEW k \in DOMAIN list, list[k].delim = ","
      PROVE  Meant(list, k) = Bits(list, k)
  BY <1>1 DEF Meant, Bits
<1>2. ASSUME NEW k \in DOMAIN list, list[k].delim = "-"
      PROVE  Meant(list, k) = Bits(list, k) \union {list[k].cpu}
  <2>1. list[k].cpu \in Nat
    BY ItemTypes DEF Items
  <2>2. Last(list, k) <= list[k].cpu
    BY <1>2 DEF Ascending
  <2>3. ASSUME NEW c \in Nat
        PROVE  c <= list[k].cpu <=> c < list[k].cpu \/ c = list[k].cpu
    BY <2>1
  <2>4. Meant(list, k)
          = {c \in Nat : Last(list, k) <= c /\ c < list[k].cpu} \union {list[k].cpu}
    BY <1>2, <2>1, <2>2, <2>3 DEF Meant
  <2> QED BY <1>2, <2>4 DEF Bits
<1>3. ASSUME NEW k \in DOMAIN list
      PROVE  list[k].delim = "," \/ list[k].delim = "-"
  BY ItemTypes DEF Items
<1>4. ASSUME NEW c \in Mask(list)
      PROVE  c \in CpusMeant(list)
  BY MaskWithinList
<1>5. ASSUME NEW c \in RangeEnds(list)
      PROVE  c \in CpusMeant(list)
  BY <1>2 DEF RangeEnds, CpusMeant
<1>6. ASSUME NEW c \in CpusMeant(list)
      PROVE  c \in Mask(list) \union RangeEnds(list)
  <2>1. PICK k \in DOMAIN list : c \in Meant(list, k)
    BY DEF CpusMeant
  <2>2. CASE list[k].delim = ","
    BY <1>1, <2>1, <2>2 DEF Mask
  <2>3. CASE list[k].delim = "-"
    BY <1>2, <2>1, <2>3 DEF Mask, RangeEnds
  <2> QED BY <1>3, <2>2, <2>3
<1> QED BY <1>4, <1>5, <1>6
=============================================================================
