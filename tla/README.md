# A TLA+ model of nfv-testperf

nfv-testperf measures the network between two applications: `send` and `recv`
for throughput, `client` (or `clientst`, on a single thread) and `server` for
latency. The applications are built from one program, `src/testapp-rewrite`,
and differ in which *loops* they run; the loops use an *NFV socket*, which is a
kernel socket (UDP or raw, one message or many per system call) or a DPDK port.
Shell scripts set up a virtual switch and containers around them. Paths below
are relative to the repository; `src/testapp-rewrite` is the default directory.

## 1. Inventory

| part | state | operations | what is hard | what makes it correct |
|---|---|---|---|---|
| statistics ring (`stats.c`) | a ring of 64 periods: `first`, `last`, `count`, `data` | `stats_save` once a second, `stats_print_all` from the SIGINT handler | the handler runs between any two stores, on the same or on another thread, with no synchronisation; the switch from filling to replacing | the record is always the latest periods in order; what is printed is that record, or close to it |
| DPDK socket (`nfv_socket_dpdk.c`) | `packets[]`, `active_buffers`, `used_buffers`; a mempool shared by all sockets; two rings of the port | `request_out_buffers`, `send`, `recv`, `send_back` | partial sends, partial allocations, foreign frames filtered in place, two threads on one pool | each mbuf has one owner; only frames for the peer leave, only frames for us are returned |
| kernel socket (`nfv_socket_simple.c`) | `base_packets`, three arrays of views on it (`packets[]`, `payloads[]`, `datagrams[]`), the two counters | the same | short frames, partial sends, the views diverging, blocking and non-blocking | recv hands over what came, send_back returns it in order |
| socket contract (`inc/nfv_socket.h`, `nfv_socket.c`) | the burst: buffers acquired, buffers sent | dispatch to one of the two | -- | each buffer of a burst goes out at most once, in order |
| loops (`loops.c`, `inc/timestamp.h`) | timers `tsc_prev`, `tsc_next`; the shared clock `__tsc_last`; the counters of the current period | `tsc_loop`, `send_loop`, `recv_loop`, `client_loop`, `server_loop` | three threads and one unsynchronised clock; unsigned differences; catching up after a delay; lost and reordered echoes | the rate is never exceeded, each packet is counted once, delays are never negative, an echo in time is counted |
| echo system (client, server, network) | frames in flight and in queues | the loops of both applications | blocking calls that wait for a whole burst, loss | the test goes on |
| headers (`inc/hdr_tools.h`) | none | set-up, swap, check, checksum | -- | a swapped header is addressed to the sender |
| configuration (`config.c`) | `struct config` | options and positional arguments, alternating; socket creation | arguments nobody consumes | every argument list ends in a configuration or an error |
| start-up (`commands.c`, `cores.c`, `threads.c`) | set of CPUs, one thread per loop | placement of loops on cores | few or many CPUs, wrap-around | each loop on a core of its own, the last on the master |
| DPDK set-up (`dpdk.c`) | the pool and the port | size of the pool, cache size | -- | the pool suffices; the cache divides it |
| payloads (`inc/payload_util.h`) | none | produce and check a pattern | -- | what was produced is accepted |
| `src/cpu_list_to_mask` | none | list of CPUs to mask | ranges, their bounds | no CPU outside the list |
| `src/testapp` (deprecated) | local to each loop; a mempool, the shared clock | ten applications, a loop per file; its `clientst` is stop-and-wait | late answers and timeouts; mbufs on error paths; buffers used again | an answer is matched with its request; no mbuf is lost or freed twice; a reply goes to its sender |
| `cpp_version` | -- | an unfinished port to C++, not built | -- | -- |
| scripts (`bin/*`) | on the host: containers, their applications, virtual switches in screens, socket files in `/tmp/VIO`, the mount of ovs | per test: prepare, start the switch, wait for the scheduled minute, start the applications, wait, stop all | a failing command half-way (`set -e`), waits with a time limit and one without, leftovers of earlier tests, reading the clock twice | a test measures its own applications and cleans up; all tests are made |
| installer, configurations (`nfv_install`, `configurations`, `installdata`) | -- | build and install; data for the scripts | -- | -- |

The parts interact by calls (loop -> socket -> kernel or DPDK), through shared
memory (the clock, `stats_ptr`, the mempool), by a callback (SIGINT) and by
messages (the echo).

## 2. Modules

| module | models | composed with |
|---|---|---|
| `StatsWindow` | what a statistics record promises: a sliding window | implemented by `StatsRing` |
| `StatsRing` | `stats_save` one store per step, `handle_sigint` and `stats_print_all` beside it | |
| `StatsRingProofs` | theorems about `StatsRing` | extends `StatsRing` |
| `BurstSocket` | the contract in `inc/nfv_socket.h` | implemented by both sockets |
| `NfvSocketBase` | what the two sockets share: `struct nfv_socket`, turning headers round | extended by both |
| `NfvSocketDpdk` | the DPDK sockets of a process, the pool, the port | |
| `NfvSocketDpdkProofs` | theorems about `NfvSocketDpdk` | extends `NfvSocketDpdk` |
| `NfvSocketDpdkContract` | theorems: `NfvSocketDpdk` implements `BurstSocket`; directions of frames | extends `NfvSocketDpdkProofs` |
| `NfvSocketSimple` | the kernel socket | |
| `NfvSocketSimpleProofs` | theorems about `NfvSocketSimple` | extends `NfvSocketSimple` |
| `NfvSocket` | the factory, and the calls through the class it chose | composes both sockets |
| `Loops` | the loops that keep time | |
| `LoopsProofs` | theorems about `Loops` | extends `Loops` |
| `Arguments` | the command line: `main.c` and the parsers of `config.c` | extended by `Startup` |
| `Startup` | sockets, cores, placement and start of the loops | extends `Arguments` |
| `TestappStartup` | the start-up of the deprecated program | extends `Startup`, whose specification it offers as one of two |
| `StartupProofs` | theorems about both programs' start | extends `TestappStartup` |
| `TestappDpdk` | mbufs of the deprecated `dpdk-send`, `dpdk-recv`, `dpdk-server`, `dpdk-client` | |
| `TestappClientst` | the deprecated `clientst` and `dpdk-clientst` | |
| `TestappSockets` | the deprecated `send`, `recv`, `server`, `client` | |
| `Testapp` | the deprecated program, which runs one of these ten | composes the three |
| `TestappProofs` | theorems about its three parts | extends `Testapp` |
| `EchoSystem` | client, server, sockets' queues and network, for liveness | |
| `TestRuns` | the scripts: tests on one host, one after the other | |
| `CpuList` | `cpu_list_to_mask` | |
| `TestRunsProofs` | theorems about the scripts and about CPU lists | extends `TestRuns`, `CpuList` |
| `MC*` | constants for TLC | extend their component |

**StatsRing.** `data`, `first`, `last`, `count` are the fields of `struct
stats`; `wpc` names the next store of `stats_save`, `ppc` and `i` the next step
of the handler. A period is a serial number, so that order, loss and repetition
are visible. A handler on the saving thread is the behaviours in which that
thread takes no step after `Signal`; the properties that need this say so
(`Frozen`). A fill becomes visible in the window when `count` grows and a
replacement when the oldest slot is overwritten; `Window` is the refinement
mapping that expresses this.

**NfvSocketDpdk.** `pool`, `txq`, `rxq` are sets or sequences of mbufs;
`packets`, `active`, `used` the fields of each socket. The loops over mbufs
(free, allocate, filter) are one step per mbuf, so that two threads interleave
there; a call into DPDK is one step, since the mempool and the rings are atomic.
`rte_eth_tx_burst` may take any part of a burst and the port completes
transmissions in any order. A failed allocation leads to the pc `fault` if the
NULL is dereferenced. `Owns` says which places of `packets[]` hold an mbuf the
socket owns at each step: this is what `Conservation` is about. `turned` and
`again` are history: which places of the burst a `send_back` has turned round,
and which mbufs of the port were turned by one call and sent by another, which
had turned them back.

**NfvSocketSimple.** The state is that of one socket; a buffer is its index.
`packets[]` is the only one of the three views that changes, so the other two
are the identity. All configurations (`mode`) are explored by one run. `recv`
takes a step for each datagram that `recvmmsg` or `recvfrom` fills a buffer with
(the kernel may stop after any, and without `-m` a short frame ends the burst),
and its filter a step for each frame it looks at. `sent`, `taken`, `kturned` and
`restarted` are history variables of the current burst; the last says that
`sendmmsg` was called for the rest of it.

**NfvSocket.** One process, whose socket is of the class that the configuration
asks for; the operations of the other class do not happen. Callers are free to
repeat every operation as often as they like, as `inc/nfv_socket.h` allows.

**Loops.** `now` is the time stamp counter, `tsc_last` the variable
`__tsc_last`; `Clock` is the reading each loop makes (its own, or the shared
one). A pass of a loop is split where another thread or the network can get in
between: clock and timers, each stamp, the send, the receive, each measurement.
Unsigned differences are computed modulo `TscRange`. Frames for `recv` come from
a sender elsewhere; any frame may get lost, and with `-c` one may have a wrong
payload, which is what the checksum of `recv_consume_burst` tells. `rx`, `tx` and
`dropped` are the counters of the current period, `saved` what all ended periods
were given, `handed` and `good` what really was accepted and came.

**EchoSystem.** Frames are counted, not told apart, so that TLC can check
liveness over the combinations of blocking and non-blocking sockets.

**Arguments** and **Startup.** One process from `main` until its loops run. An
argument is one of nine kinds of text, as told apart by getopt, `inet_aton`,
`sscanf` and `atoi`; one call of getopt, or one positional argument, is a step.
`conf`, `argind`, `optind`, `parameter_index`, `workers`, `core_id` and `i` are
the variables of the code; `cores` and `master` are `cores_set` and
`cores_master`, or what EAL knows instead. `CoresNext` follows `cores_next` in
its arithmetic on unsigned numbers, whose width `UintBits` is scaled down. An
entry of `workers_info` that nobody has written is `None`; what a thread started
from it does is undefined, and the module lets it fault or be refused its core.
System calls that may fail do so by `SocketFails`, `ThreadStartFails`, or an
unreadable affinity in `CoresInit`.

**TestappStartup.** The same for the deprecated program, in the variables of
`Startup`: its parsers differ in a few places (`OptionParsed`, `AddressParsed`),
its threads are not placed on cores, and its client sleeps for a second instead
of waiting for the clock. Which program runs is part of the command line, so one
run checks both against the same properties.

**Testapp.** Each of the three modules has the bodies of the loops of some
applications. The DPDK ones are about mbufs, a step per mbuf as in
`NfvSocketDpdk`; when a burst is due is nondeterministic, because the timing is
that of `Loops`. The stop-and-wait clients have a clock that every reading
advances (`Readings`), since whether an answer is in time is decided by two
separate comparisons. In the socket applications frames are told apart by serial
numbers, so that an old frame left in a buffer is recognised: for
`client` the number is the stamp, 0 in a frame that has none of its own. A raw
`client` also gets frames of strangers (`StrangerArrives`), and a short one
leaves in its buffer the stamp that was there (`InBuffer`).

**TestRuns.** `nfv_run_multiple` starts `nfv_run_local` once per test; `pc` is
where that script is, `i` its place in a loop over containers, and the other
variables are the state of the host, which outlives a test. Every command that
`set -e` lets end the script may do so (`Fails`), a sleep included. Containers,
applications, switches and socket files carry the number of the test they belong
to; socket files also the test during which they were made, as a switch may start
late. There are two directories of socket files, `/tmp/VIO` and that of ovs,
which `mounts` counts the mounts of over the first: `mount --bind` mounts once
more whatever is there, `umount` takes one away, and files may stay in either. An
`lxc-start` of a container that runs already either fails or does nothing, and
then a second application runs in it. What a container shows as `/tmp/VIO` it
took when it was started (`installdata/lxcbase.config`), so that one that was
left running may show either directory (`Seen`). An action is a step of the
script between two waits; the programs it has started (`SwitchReady`,
`SwitchEnds`, `AppConnects`, `AppEnds`) take steps in between, as early, as late
or as never as they like. A wait with a time limit (`wait_screen`) may end
whatever it waits for. Time appears only in `wait_schedule`, in ticks of ten
seconds: `Minute` is 6, `Spare` the 10 seconds of the script. `outcome`, `found`,
`outlived`, the field `during`, `turned` and `started` of `clock` are history.

**CpuList.** A list is the sequence of its numbers with the delimiters between
them; the mask is the set of its bits. A function of its argument, without
state.

## 3. Runs

| run | instance | shows |
|---|---|---|
| `stats` | ring of 3, 8 saves | the ring is a sliding window at every store; an undisturbed handler prints it whole, an interrupting one prints recent periods without repetition; while the ring fills for the first time at most the newest period is missing, however the threads interleave |
| `sockets` | UDP, raw or DPDK; bursts of 2, calls for 0 to 3; 1 DPDK socket, 4 mbufs, tx ring 1, rx ring 2; 2 frames queued, UDP in all variants, raw sockets that see frames for this application | DPDK: conservation, directions and the contract, also when the pool runs out; kernel: recv hands over what came, send_back returns it in order, the contract, until `sendmmsg` is repeated |
| `dpdk_pool` (violation) | 2 sockets, 4 mbufs | the pool can run out when two sockets hold a burst each, and `request_out_buffers` then dereferences NULL |
| `simple_filter` (violation) | raw receiver, foreign frames | recv hands over the payload of a rejected frame |
| `loops` | 3 ticks per second, bursts of 2, 5 ticks, 2 bursts; `send`, `recv`, `client`, `clientst`, with and without `-c` and `-s` | rate, accounts of what was sent and received, delays, counting of echoes in time, however threads are held up and frames lost, reordered or wrong |
| `loops_clientst` (violation) | `clientst`, 6 ticks | no echo is ever counted |
| `echo` | bursts of 2, queues of 2 | the client keeps sending and echoes keep coming |
| `testapp` | bursts of 2, 4 mbufs, 4 frames, 13 ticks with a timeout of 3 and a period of 6 | what each deprecated application promises about mbufs, answers and buffers, with frames of strangers on raw sockets |
| `startup` | both programs; all commands; all command lines of up to 2 arguments and 9 longer ones; RTE_MAX_LCORE 5, all sets of CPUs below it, and two beyond | the configuration is what was asked for, UDP sockets are set up as asked, loops have cores of their own, and either all of them come to run or the process ends |
| `startup_blocking` (violation) | as `startup` | a loop runs on a socket that waits, or does not, against what `-B` says |
| `scripts` | 2 tests, 2 containers, 4 switches, without a schedule and with one of 2 minutes, 1 tick between commands, the directory of ovs mounted before or not | a test measures its own, cleans up if it completes, begins on schedule, and all tests are made |
| `scripts_schedule` (violation) | 1 test, 1 container, a schedule of 2 minutes | a test may wait less than a minute, or begin a minute late |

**Bounds and why they suffice.** A ring of 3 has a slot that is neither first
nor last, and 8 saves wrap it twice. Bursts of 2 have a first and a last
element and partial sends, and asking for 3 exercises the clamp to the burst
size; with 4 mbufs all of rings and bursts can be nearly full and an allocation
can fail, which ends the process: this is why deadlock is not checked in `sockets`.
In `loops`, 5 ticks at 3 per second leave room for the end of a period between
two bursts, and 2 bursts for a catch-up; `MaxTime` and `MaxBursts` are the only cuts, and
they are why deadlock is not checked there. `stats` stops because the process
exits. In `testapp` a process stops at the bounds `MaxTime` and `MaxFrames`; in
`startup` it stops when it has exited or all its loops run. In all other passing
runs TLC checks for deadlock. 13 ticks allow for three requests, two timeouts
and the end of a period; three loops and five cores let cores be left over
between, before and after those in use, and the longer command lines alternate
twice or give an option twice.
`Late` is a constant of its own because a tenth of three ticks is not one.
In `scripts` two tests are enough for one to meet what another has left, and two
containers for a start or stop that fails half-way; a schedule of 2 minutes can
be missed by one, and a lag of one tick lets the minute turn. The four switches
are one of each way to start and stop: `snabb` differs from `basicfwd` in nothing
modelled, and what `pmd` and `sriov` do is at each place what one of the four
does, but for a sleep that may fail; the theorems are about all seven. Deadlock is not checked there
because the script ends, or waits for a vpp that is gone.

**What the properties leave out.** Some operations break their contract when
they are called in a way that is allowed, or meet frames that may come. The
modules have all of these behaviours; a property that would fail there says in
its formula which case it does not cover, and no more:

- `SendsOnlyOutgoing` and `SimpleSendsOnlyOutgoing`: a frame whose headers one
  `send_back` turned and the next one turned back (`inc/nfv_socket.h:129-131`
  allows the second call); for the kernel socket also the frames of a raw `send`,
  whose header is that of incoming ones;
- `EchoesInOrder` and `ContractUntilSendmmsgRepeats`: a burst from when
  `sendmmsg` is called for its rest (`inc/nfv_socket.h:85-87` allows it), because
  it starts again with the first datagram (`nfv_socket_simple.c:158-160`). The
  loops of this repository never send the rest of a burst;
- `WholeFramesMeasuredOnce`: a short frame of a stranger, received by `client`
  with `-R` and `-m`, which looks at no length (`testapp/client.c:293-299`);
- `UdpSocketAsAsked`: the raw sockets of `testapp-rewrite`, and `-B` in
  `testapp`, which `startup_blocking` is about;
- `MeasuresItsOwn`: a container that the test found running, in which the
  applications of failed tests may run besides; and in the directory of ovs a
  file that a switch in a screen left there, which ovs may not replace;
- `OnSchedule`: the minute turning between two readings of the clock, which
  `scripts_schedule` is about.

Raw sockets in `sockets` see frames for this application only, because with
foreign frames `HandsOverWhatCame` fails (`simple_filter`) and with it what is
said of the echoes.

`echo` leaves out `clientst` with a blocking socket: it waits for a whole burst
of echoes in the thread that sends, and so stops for ever once a frame is lost.
The option is documented as blocking, and the loops as sequential, so that this
is taken as a limit of the option.

**Deprecated applications.** UDP datagrams are all of the size of the test; raw
frames of any length. The echoes of `client` come back at most once each; on a
raw socket, which takes every protocol and asks nobody's address, come frames of
others too. An mbuf may fail to be allocated also while the pool has some (they
may be in the cache of another core).

**Fairness.** In `Startup` the main thread and every started thread are
scheduled (weak fairness); nothing is assumed about system calls succeeding. In
`TestRuns` the script goes on (weak fairness of `Script`): every command returns,
which the code ensures by a limit on each of its waits but the one for vpp, where
`AllTestsEnd` makes an exception for a vpp that does not run. Neither switches
nor applications are assumed to become ready or to end. In
`EchoSystem` each thread is scheduled (weak fairness of
each loop as a whole); the clock advances (`BecomeDue`); a network that
transports frames again and again delivers some (strong fairness of delivery).
Loss is not fair, nor are lost frames ever resent. No other property needs
progress.

## 4. Disagreements found

1. `request_out_buffers` of the DPDK socket goes on after a failed allocation as
   its warning says, but dereferences the missing buffer (`dpdk_pool`). With the
   numbers of `dpdk.c` this takes bursts larger than the slack of the pool.
2. The filter of the raw socket permutes `packets[]`, while callers get
   `payloads[]` (`simple_filter`).
3. `clientst` stamps packets with a clock nobody updates (`loops_clientst`).
4. `-B` does not decide whether a socket waits, as the help of both programs
   says (`config.c:90-93`, `testapp/common.c:72-73`): in `testapp` nothing reads
   the flag and no socket ever waits, in `testapp-rewrite` raw sockets always do
   (`startup_blocking`).
5. A scheduled test waits "at least 1 minute and for the next multiple" by the
   comment at `nfv_run_local:930`; it may wait for little more than the ten spare
   seconds of the comment at line 816, and begins a minute after the multiple it
   has chosen if the minute turns between the two times the clock is read
   (`scripts_schedule`; `OnSchedule` says what is left).

Smaller ones, which the modules contain and no run is spent on:

- in `testapp-rewrite`: raw sockets send frames with the header of incoming ones
  (`nfv_socket_simple.c:88`), so that what `send` sends on them is addressed to
  its sender; `send` repeated for the rest of a burst that `sendmmsg` took a part
  of sends the first frames again and the last ones never
  (`nfv_socket_simple.c:158-160`, against `inc/nfv_socket.h:85-87`); `send_back`
  repeated for the rest of a burst turns headers back (`nfv_socket_dpdk.c:222`,
  against `inc/nfv_socket.h:129-131`); a lone `-` makes the parsers alternate for ever; a fifth
  address aborts although a comment says it is ignored (`config.c:379`); a rate
  of 0 divides by zero (`loops.c:187`); CPUs above `RTE_MAX_LCORE` pass
  `check_cores` but loops are never placed on them, so that threads are started
  from uninitialised entries (`cores.c:81`, `commands.c:129`); with `-c` wrong
  payloads stay in the array, so that a right echo behind one is not measured
  (`loops.c:154`);
- in `testapp`: addresses are not checked, so that a raw `client` measures
  frames of others, and with `-m` the stamp of an earlier echo again if they are
  short; the client measures with a clock
  of 0 if `tsc_body` has not run within a second; the advertisement of
  `dpdk-recv` loses an mbuf when the port refuses it ten times
  (`OnlyAdvertisementsLeak` counts these);
- in the scripts: after a test that failed and left a container running, the
  next one has a second application in that container, or fails at its
  `lxc-start`; after one of ovs that failed, the directory of ovs may be mounted
  twice and keeps its socket files; two
  `screen_vswitch` sessions, after a switch that outlived its time, cannot be
  told to stop by name; the script asks vpp for ever if vpp could not start;
- `cpu_list_to_mask` leaves out the last CPU of each range
  (`RangesLoseTheirEnd`), so that an application over kernel sockets has fewer
  CPUs than a DPDK one with the same list.

Seen while reading and outside the modules: `-R` of `testapp` copies as many
characters of the interface's name as a pointer has bytes (`common.c:127`); its
server sends back only the length of the payload of a raw frame
(`server.c:153`); with `-c`, a `-p` of 50 or less makes the size given to
`produce_data` wrap round; two hosts that read their clocks in different minutes
choose different times to begin; the command that turns turbo off fails, and
with it the test, on hosts without `intel_pstate` (`nfv_run_local:730`).

## 5. Proofs

`StatsRingProofs` proves, for every ring size from 1 to 255 and any bound on the
number of saves, type correctness, `RingShape`, `RecordsLatest` and that the
ring implements `StatsWindow`. The inductive invariant is the conjunction of the
three: `RecordsLatest` needs the shape of the indices, and the shape needs the
types. The arithmetic of slots modulo the ring size is isolated in lemmas about
`After` and `Wrap`; the step that replaces the oldest period is where the
window's positions all shift by one. The only assumption is `RingAssumption`,
which holds of the code (64 fits in a byte).

What the handler prints follows from three more invariants. `HandlerInv`: since
the signal the saving thread has only gone forward, so that a record found
undisturbed at the end of the print was so all the time. `FrozenInv`: then the
handler has printed the slots from `first` on, up to `last` (`Reach` of them).
`FillingInv`: on the first lap `first` stays 0 (`FirstLap`) and the handler only
follows `last`, which advances, so that a save beside it can add to the print
but not disturb it. What an interrupted save leaves in the slots is bounded by
`RecordsLatest` at each store (`SlotPeriods`).

`NfvSocketDpdkProofs` proves type correctness and `Conservation` for any number
of sockets (so also for the two threads of `client`), any finite pool, any burst
size, any number of descriptors and any lengths asked for; `DpdkAssumption` is
all it assumes. The inductive invariant `DpdkInv` is the conjunction of `TypeOK`,
bounds on the indices at each step of a call (`AllIndices`), the fact that each
mbuf is somewhere (`AllSomewhere`) and `OwnedOnce`. The bounds are needed because
`Owns` speaks of places by number: a place out of range would be owned by
nobody. Every action is an instance of a few kinds of steps (an mbuf is freed,
handed to the port, allocated, received, kept by the filter, arrives, is
transmitted, or none moves), and there is one lemma for each kind; the theorem
for `Next` only says which kind an action is.

`NfvSocketDpdkContract` proves the refinement: every step of `NfvSocketDpdk` is
a step of `BurstSocket` or leaves the contract's state alone. `ContractInv` adds
to `DpdkInv` that the wire of a socket between calls is as long as
`used_buffers`, and empty during a call that acquires (`WireInv`). The steps are
of three kinds: inside a call, invisible to the contract (`InsideStep`); the
start or the end of a call that acquires buffers (`AcquireStep`); a call that
transmits them (`TransmitStep`).

The same module adds the directions of frames, from the same assumption:
`HeadersInv` extends `DpdkInv` by what each socket's places contain at each step
of a call (`Outgoing`, `Incoming`). Conservation is what makes it inductive: a
header is rewritten only by the owner of the mbuf, so a step of one socket
cannot turn a frame of another (`OthersDirected`).

`NfvSocketSimpleProofs` proves type correctness of the kernel socket and the
contract on every configuration and for any number of calls, and what recv hands
over, what `send_back` echoes and the direction of what leaves if no raw socket
sees foreign frames (`OnlyOurFrames`; `simple_filter` is what happens otherwise).
`SentInv` says that the frames of a burst went out from its places in order
until `sendmmsg` restarted, `TakenInv` that the buffers of the places filled so
far hold what came and that the filter leaves each where it is, `OutInv` that
what `send_back` sent it had turned, and but once. Turning a header
twice would undo it, so this needs that the places of a burst are different
buffers (`TurnedOnce`).

`LoopsProofs` proves all invariants of `Loops` for every rate, burst size, clock
frequency, limit and bound on bursts; `LoopsAssumption` requires that the clock
does not wrap during a behaviour. The inductive invariant is `TypeOK /\ Pace /\
Accounts /\ Stamps`. `Pace` fixes `tsc_next` as the start plus an interval per
burst, so that `NeverAhead` follows from a burst being due; `Stamps` bounds every
stamp, in the burst, on the network or in a buffer, by the shared clock and, in
`client`, from below by the clock when the burst was found due, from which
`DelaysNotNegative` and `ClientCountsPromptEchoes` follow.

`StartupProofs` proves type correctness, `ConfigAsAsked`, `UdpSocketAsAsked`
and `OwnCores` of both programs, for command lines of any length, any set of CPUs and
any `RTE_MAX_LCORE`. `ParserInv` says where in the line the parsers are and that
neither goes back; `PlainInv`, that on a line a reader can make sense of, the
configuration and the number of addresses are at every step what the arguments
before that place ask for (`ReadSoFar`). `CoresInv` follows the placement loops:
as many cores are behind them as loops have been placed, and with the cores of
EAL enough are left (`PlacementInv`; `LaunchInv` is the same for `dpdk-client`),
no two loops are placed on one core (`WorkersInv`), and a thread that has come to
its loop runs on the core of its entry alone (`AffinityInv`). `LeastNumber`, that
a set of numbers with a member has a least one, is proved there because
`cores_next` and EAL both look for a next CPU.
The assumptions are those of the modules; the width of unsigned numbers enters
only as `2 ^ UintBits \in Nat`, which the provers do not know by themselves.

`TestRunsProofs` proves `MeasuresItsOwn` and `CleanAfterSuccess` for any number
of tests and containers, for all seven switches and whatever failed tests leave
behind. `RunsInv` says for each place in the script what it has done: there are
no more mounts than the test found, or one more from when a test of ovs mounts
to when it unmounts (`MountBound`), so that ovs always serves the directory that
shows (`OvsMounted`); the socket files that show are of this test's time, or lie
in the directory of ovs and no ovs answers at them (`FreshFiles`); the containers
that the test did not find running have only its applications (`OwnApps`), and
all are stopped in the end (`AppsGone`); an application or a switch that runs is
this test's, or of a test that failed, or, if a switch, has outlived its time
(`KnownApps`, `KnownSwitches`). Most steps are instances of four frame lemmas: a
step of the script that changes nothing on the host (`QuietStep`), one that ends
or begins a test (`IdleStep`), one of the set-up (`SetUpStep`), and one of a
switch or an application (`ProcessStep`).

It also proves `OnSchedule`, for every value of `-S` and any delay between the
commands of `wait_schedule`: `TargetFacts` is the arithmetic of the minute chosen,
`WaitFacts` that without a turn of the minute the sleep ends in it.
For every list of CPUs, `cpu_list_to_mask` adds no CPU (`MaskWithinList`) and
loses the end of each range (`RangesLoseTheirEnd`).

`TestappProofs` proves the properties of the stop-and-wait clients and of the
applications over kernel sockets, as theorems of `Testapp!Spec`, for any timeout,
burst size, queue and pool. For the first, `WaitInv` and `MbufsInv` need little
beside the properties. For the others `SocketsInv` follows a frame: the serial
numbers of what was answered, of what waits in the buffers (`Pending`) and of
what is queued increase, and each buffer has the address of its own frame
(`Answered`, `Buffered`, `Queued`); a whole frame of `client` is on the network,
queued, in one buffer not measured yet, or measured, and nowhere twice
(`OnNetwork`, `InQueue`, `InBuffers`, `Measured`), and a stamp that a short frame
finds in a buffer is of none to come (`InSlots`). `FetchFacts` says once what a burst read over
an older one leaves in the buffers.

For the DPDK applications, `DpdkInv` says where every mbuf is at each step of
their loops: free, in one place of the burst, in a ring, with the port, or lost
(`Apart`), and that as many are lost as advertisements were given up
(`OnlyAdvertisementsLeak`). A burst is an array, of which what lies at or behind
the indices counts (`BurstInv`): `dpdk-server` keeps frames in front while it
frees others behind, and an mbuf stays in one place only because what is kept
never overtakes what is looked at. What a frame is addressed to at each of these
places (`Directed`) gives `SendsOwnFrames`. As in `NfvSocketDpdkProofs` the steps
are of a few kinds, with one lemma each; `Parts` counts mbufs when one moves.
The assumptions are those of the three modules.

**Only model-checked.** Liveness (`AllTestsEnd`, `StartsOrStops`,
`KeepsSending`, `EchoesKeepComing`), which is out of the prover's reach, and with
it all that is said of `EchoSystem`, whose module is there for liveness. The
disagreements of section 4 are shown by TLC. Induction over data, such as that the bytes
of a payload sum up to 0, is out of reach.

## 6. Not modelled, and what is left

Not modelled:

- the bytes of payloads and headers, checksums and byte order
  (`inc/payload_util.h`, `inc/hdr_tools.h`): that the sum of a produced payload
  is 0 is an induction over its bytes, and no step of the program depends on
  more than whether a payload is right and a frame is ours;
- `get_cache_size` and the configuration of the port (`dpdk.c`): values given to
  DPDK that nothing here depends on;
- `nfv_run_remote` and the second host, `nfv_sriov_tools`, the arguments that
  `nfv_run_in_container` puts together: text given to other programs;
- the installer and configuration data (I/O only), the C++ port (not built),
  output formats.

What could follow: two hosts that agree on a scheduled time; an abstract
specification of the loops that `Loops` implements, as `BurstSocket` is for the
sockets; in `NfvSocketSimple`, a theorem on which frames a repeated `sendmmsg`
sends twice.
