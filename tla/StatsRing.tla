----------------------------- MODULE StatsRing -----------------------------
(***************************************************************************)
(* struct stats of testapp-rewrite: the ring of the last Size periods that *)
(* a loop saves once per second (stats_save) and that the SIGINT handler   *)
(* prints (stats_print_all), with nothing that synchronises the two.       *)
(*                                                                         *)
(* Each store of stats_save is a step, in program order, so that the       *)
(* handler can run between any two of them: on another thread (client), or *)
(* as an interruption of the thread that saves (send, recv, clientst), the *)
(* behaviours in which that thread takes no step until the handler exits.  *)
(* A period is abstracted to its serial number: the n-th saved is n.       *)
(***************************************************************************)
EXTENDS Naturals, Sequences

CONSTANTS
  Size,        \* STATS_SIZE
  MaxSaves     \* bound: periods saved in a behaviour

ASSUME RingAssumption ==
  /\ Size \in 1..255        \* first, last and count are uint8_t
  /\ MaxSaves \in Nat

VARIABLES
  data, first, last, count,  \* struct stats
  stats_ptr,                 \* whether the handler was given this record
  wpc,                       \* the next store of stats_save
  saved,                     \* periods whose save has begun
  ppc, i,                    \* the next step of handle_sigint, its loop index
  out,                       \* what the handler has printed
  atSignal                   \* history: the writer's state when it started

statsVars == << data, first, last, count >>
vars == << data, first, last, count, stats_ptr, wpc, saved,
           ppc, i, out, atSignal >>

Slots == 0 .. Size - 1

(* Mutant: the mask of the next power of two. *)
WrapLate(x) == (x + 1) % (Size + 1)

(* (x + 1) & STATS_INDEX_MASK *)
Wrap(x) == (x + 1) % Size

(* The slot k places after x. *)
After(x, k) == IF x + k < Size THEN x + k ELSE x + k - Size

(***************************************************************************)
(* The periods the record stands for, oldest first.  A fill takes effect   *)
(* when count grows; a replacement, when the oldest slot is overwritten,   *)
(* although first still points at that slot for two more stores.           *)
(***************************************************************************)
Overwriting == wpc \in {"repl_last", "repl_first"}

Window ==
  [k \in 1..count |-> data[After(first, IF Overwriting /\ k < Size THEN k
                                        ELSE IF Overwriting THEN 0
                                        ELSE k - 1)]]

Init ==
  /\ data = [s \in Slots |-> 0]
  /\ first = 0 /\ last = 0 /\ count = 0
  /\ stats_ptr = FALSE
  /\ wpc = "idle"
  /\ saved = 0
  /\ ppc = "none" /\ i = 0 /\ out = << >>
  /\ atSignal = [window |-> << >>, wpc |-> "idle", saved |-> 0]

-----------------------------------------------------------------------------
(* The thread that saves. *)

Running == ppc # "exited"

(* The loop publishes its record. *)
Register ==
  /\ Running /\ ~ stats_ptr
  /\ stats_ptr' = TRUE
  /\ UNCHANGED << data, first, last, count, wpc, saved, ppc, i, out, atSignal >>

(* Mutant: the slot to fill is taken for the slot to replace. *)
SaveFillFirst ==
  /\ count < Size
  /\ data' = [data EXCEPT ![first] = saved + 1]
  /\ wpc' = "fill_count"

(* stats_save: the period is stored ... *)
SaveFill ==
  /\ count < Size
  /\ data' = [data EXCEPT ![last] = saved + 1]
  /\ wpc' = "fill_count"

(* Mutant: the newest period is overwritten instead of the oldest. *)
SaveReplaceLast ==
  /\ count >= Size
  /\ data' = [data EXCEPT ![last] = saved + 1]
  /\ wpc' = "repl_last"

SaveReplace ==
  /\ count >= Size
  /\ data' = [data EXCEPT ![first] = saved + 1]
  /\ wpc' = "repl_last"

SaveStart ==
  /\ Running /\ stats_ptr /\ wpc = "idle" /\ saved < MaxSaves
  /\ SaveFill \/ SaveReplace
  /\ saved' = saved + 1
  /\ UNCHANGED << first, last, count, stats_ptr, ppc, i, out, atSignal >>

(* Mutant: without the second test of count < STATS_SIZE. *)
FillCountAlwaysAdvances ==
  /\ Running /\ wpc = "fill_count"
  /\ count' = count + 1
  /\ wpc' = "fill_last"
  /\ UNCHANGED << data, first, last, stats_ptr, saved, ppc, i, out, atSignal >>

(* ... counted, while the ring fills up ... *)
FillCount ==
  /\ Running /\ wpc = "fill_count"
  /\ count' = count + 1
  /\ wpc' = IF count' < Size THEN "fill_last" ELSE "idle"
  /\ UNCHANGED << data, first, last, stats_ptr, saved, ppc, i, out, atSignal >>

FillLast ==
  /\ Running /\ wpc = "fill_last"
  /\ last' = Wrap(last)
  /\ wpc' = "idle"
  /\ UNCHANGED << data, first, count, stats_ptr, saved, ppc, i, out, atSignal >>

(* ... or, once it is full, the two indices follow. *)
ReplaceLast ==
  /\ Running /\ wpc = "repl_last"
  /\ last' = first
  /\ wpc' = "repl_first"
  /\ UNCHANGED << data, first, count, stats_ptr, saved, ppc, i, out, atSignal >>

ReplaceFirst ==
  /\ Running /\ wpc = "repl_first"
  /\ first' = Wrap(first)
  /\ wpc' = "idle"
  /\ UNCHANGED << data, last, count, stats_ptr, saved, ppc, i, out, atSignal >>

Save == SaveStart \/ FillCount \/ FillLast \/ ReplaceLast \/ ReplaceFirst

-----------------------------------------------------------------------------
(* handle_sigint and stats_print_all. *)

Signal ==
  /\ ppc = "none"
  /\ ppc' = IF stats_ptr THEN "start" ELSE "exited"
  /\ atSignal' = [window |-> Window, wpc |-> wpc, saved |-> saved]
  /\ UNCHANGED << data, first, last, count, stats_ptr, wpc, saved, i, out >>

PrintStart ==
  /\ ppc = "start"
  /\ IF count = 0
       THEN ppc' = "exited" /\ i' = i
       ELSE ppc' = "loop" /\ i' = first
  /\ UNCHANGED << data, first, last, count, stats_ptr, wpc, saved, out, atSignal >>

PrintLoop ==
  /\ ppc = "loop" /\ i # last
  /\ out' = Append(out, data[i])
  /\ i' = Wrap(i)
  /\ UNCHANGED << data, first, last, count, stats_ptr, wpc, saved, ppc, atSignal >>

(* Mutant: the slot of last is printed even while it is empty. *)
PrintLastAlways ==
  /\ ppc = "loop" /\ i = last
  /\ out' = Append(out, data[last])
  /\ ppc' = "exited"
  /\ UNCHANGED << data, first, last, count, stats_ptr, wpc, saved, i, atSignal >>

PrintLast ==
  /\ ppc = "loop" /\ i = last
  /\ out' = IF count = Size THEN Append(out, data[last]) ELSE out
  /\ ppc' = "exited"
  /\ UNCHANGED << data, first, last, count, stats_ptr, wpc, saved, i, atSignal >>

PrintAll == PrintStart \/ PrintLoop \/ PrintLast

Next == Register \/ Save \/ Signal \/ PrintAll

Spec == Init /\ [][Next]_vars

-----------------------------------------------------------------------------
(* Properties. *)

Stores == {"idle", "fill_count", "fill_last", "repl_last", "repl_first"}

TypeOK ==
  /\ data \in [Slots -> Nat]
  /\ first \in Slots /\ last \in Slots /\ count \in 0..Size
  /\ stats_ptr \in BOOLEAN
  /\ wpc \in Stores
  /\ saved \in Nat
  /\ ppc \in {"none", "start", "loop", "exited"}
  /\ i \in Slots
  /\ out \in Seq(Nat)
  /\ atSignal \in [window : Seq(Nat), wpc : Stores, saved : Nat]

(***************************************************************************)
(* The two indices and the counter agree at every store of stats_save:     *)
(* while the ring fills, first stays 0 and last is the next free slot;     *)
(* once it is full, last is the slot before first, except for the stores   *)
(* in which one of them lags behind.                                       *)
(***************************************************************************)
Filling ==
  /\ count < Size /\ first = 0
  /\ IF wpc = "fill_last" THEN last + 1 = count ELSE last = count
  /\ wpc \in {"idle", "fill_count", "fill_last"}

Full ==
  /\ count = Size
  /\ wpc \in {"idle", "repl_last", "repl_first"}
  /\ first = IF wpc = "repl_first" THEN last ELSE Wrap(last)

RingShape == Filling \/ Full

(* Periods stored and, if the ring is still filling, counted. *)
Recorded == IF wpc = "fill_count" THEN saved - 1 ELSE saved

(***************************************************************************)
(* The window is, at every store, exactly the latest periods in the order  *)
(* they were saved: none is lost, repeated or out of place (stats_save).   *)
(***************************************************************************)
RecordsLatest ==
  /\ count = IF Recorded < Size THEN Recorded ELSE Size
  /\ \A k \in 1..count : Window[k] = Recorded - count + k

(* stats_save implements the abstract window. *)
Abstract == INSTANCE StatsWindow WITH Data <- 1..MaxSaves, window <- Window
ImplementsWindow == Abstract!WindowSpec

(* No store of stats_save since the signal: the handler interrupts it.     *)
Frozen == saved = atSignal.saved /\ wpc = atSignal.wpc

(***************************************************************************)
(* If the signal finds no save in progress and none begins until the       *)
(* handler has exited, the final statistics are the whole window, oldest   *)
(* first (stats_print_all), whether the ring has wrapped or not.           *)
(***************************************************************************)
PrintsWindow ==
  (ppc = "exited" /\ Frozen /\ wpc = "idle") => out = atSignal.window

(***************************************************************************)
(* A handler that interrupts stats_save, between any two stores, prints    *)
(* periods of the last Size + 1 only, and none of them twice; but the      *)
(* newest comes first if the oldest has just been overwritten.             *)
(***************************************************************************)
InterruptedPrintIsRecent ==
  (ppc # "none" /\ Frozen) =>
    /\ \A k \in 1..Len(out) : out[k] \in 1..saved /\ out[k] + Size >= saved
    /\ \A j, k \in 1..Len(out) : j # k => out[j] # out[k]

(***************************************************************************)
(* Until the ring has been filled for the first time, the handler loses at *)
(* most the newest period, even if stats_save runs beside it or is         *)
(* interrupted between any two stores.                                     *)
(***************************************************************************)
FillingLosesAtMostTheNewest ==
  (ppc = "exited" /\ saved <= Size)
    => \A k \in 1..Len(atSignal.window) - 1 :
         k <= Len(out) /\ out[k] = atSignal.window[k]

=============================================================================
