----------------------------- MODULE Arguments -----------------------------
(***************************************************************************)
(* The command line of testapp-rewrite: main.c picks the command, config.c *)
(* reads options and positional arguments in turns until "--" or the end.  *)
(* The deprecated program reads its own in the same way; the steps that    *)
(* differ are in TestappStartup.                                           *)
(*                                                                         *)
(* An argument is one of a few kinds of text: the options -r, -R (with a   *)
(* value), -B, an unknown option -x, "-", "--", an "ip", a "mac", or a     *)
(* "word" that is neither and whose atoi is 0.  -p and -b are read as -r,  *)
(* -c, -m and -s as -B; options written together (-Bs, -r5) are left out.  *)
(***************************************************************************)
EXTENDS Naturals, Sequences, FiniteSets

CONSTANTS
  CommandLines    \* what to consider: [program |-> .., cmd |-> .., args |-> ..]

Commands == {"server", "client", "clientst", "send", "recv", "dpdk-server",
             "dpdk-client", "dpdk-clientst", "dpdk-send", "dpdk-recv"}
DpdkCommands == {"dpdk-server", "dpdk-client", "dpdk-clientst", "dpdk-send",
                 "dpdk-recv"}
Texts == {"-r", "-R", "-B", "-x", "-", "--", "ip", "mac", "word"}

ASSUME ArgumentsAssumption ==
  \A line \in CommandLines : line.args \in Seq(Texts)

VARIABLES
  line,             \* the command line
  pc,               \* what the main thread does next
  argind,           \* the next argument, from 1 (argv[0] is the command)
  optind,           \* getopt's next argument
  parameter_index,  \* how many addresses were taken
  conf              \* the fields of struct config that options set

argVars == << line, argind, optind, parameter_index, conf >>

Rewrite == line.program = "testapp-rewrite"
args == line.args
Argc == Len(args) + 1

TakesValue(text) == text \in {"-r", "-R"}
CheckDash(text) == text \in {"-r", "-R", "-B", "-x", "-", "--"}
CheckDoubleDash(k) == k \in 1 .. Len(args) /\ args[k] = "--"

ArgumentsInit ==
  /\ line \in CommandLines
  /\ pc = "main" /\ argind = 1 /\ optind = 1 /\ parameter_index = 0
  /\ conf = [type |-> "none", rate |-> "positive", block |-> FALSE]

(***************************************************************************)
(* main and run_command, then the first lines of config_parse_arguments.   *)
(***************************************************************************)
RunCommand ==
  /\ pc = "main"
  /\ pc' = IF line.cmd \in Commands THEN "arguments" ELSE "exited"
  /\ conf' = [conf EXCEPT !.type =
                IF line.cmd \in DpdkCommands THEN "dpdk" ELSE "dgram"]
  /\ UNCHANGED << line, argind, optind, parameter_index >>

(***************************************************************************)
(* config_parse_arguments: the head of its loop.                           *)
(***************************************************************************)
ParseNext ==
  /\ pc = "arguments"
  /\ IF argind < Argc /\ ~CheckDoubleDash(argind)
     THEN pc' = "options" /\ optind' = argind
     ELSE pc' = "socket" /\ UNCHANGED optind
  /\ UNCHANGED << line, argind, parameter_index, conf >>

(***************************************************************************)
(* options_parse, one call of getopt a step.  getopt stops at the end and  *)
(* at the first argument that is no option, "-" included; it passes a      *)
(* "--".  An option's value is whatever follows it.                        *)
(***************************************************************************)
AtOption == optind < Argc /\ args[optind] \in {"-r", "-R", "-B", "-x"}

SetOption ==
  LET text == args[optind]
  IN  conf' = CASE text = "-r" ->
                    [conf EXCEPT !.rate = IF args[optind + 1] \in {"ip", "mac"}
                                          THEN "positive" ELSE "zero"]
                [] text = "-R" /\ conf.type # "dpdk" ->
                    [conf EXCEPT !.type = "raw"]
                [] text = "-R" /\ conf.type = "dpdk" -> conf
                [] text = "-B" -> [conf EXCEPT !.block = TRUE]

ReadOption ==
  /\ pc = "options" /\ AtOption /\ args[optind] # "-x"
  /\ TakesValue(args[optind]) => optind + 1 < Argc
  /\ optind' = optind + (IF TakesValue(args[optind]) THEN 2 ELSE 1)
  /\ UNCHANGED << line, pc, argind, parameter_index >>

OptionTaken == ReadOption /\ SetOption

OptionWrong ==
  /\ pc = "options" /\ AtOption
  /\ args[optind] = "-x" \/ (TakesValue(args[optind]) /\ optind + 1 >= Argc)
  /\ pc' = "exited"
  /\ UNCHANGED argVars

\* A mutant: the terminator is passed over like an option.
OptionsDonePastDashes ==
  /\ pc = "options" /\ ~AtOption
  /\ optind' = IF CheckDoubleDash(optind) THEN optind + 1 ELSE optind
  /\ argind' = optind'
  /\ pc' = "addresses"
  /\ UNCHANGED << line, parameter_index, conf >>

OptionsDone ==
  /\ pc = "options" /\ ~AtOption
  /\ optind' = IF CheckDoubleDash(optind) THEN optind + 1 ELSE optind
  /\ argind' = IF CheckDoubleDash(optind' - 1) THEN optind' - 1 ELSE optind'
  /\ pc' = "addresses"
  /\ UNCHANGED << line, parameter_index, conf >>

(***************************************************************************)
(* args_parse, one positional argument a step: local ip and mac, remote ip *)
(* and mac.  A fifth one meets an assertion.                               *)
(***************************************************************************)
Expected == << "ip", "mac", "ip", "mac" >>
AtAddress == argind < Argc /\ ~CheckDash(args[argind])

AddressTaken ==
  /\ pc = "addresses" /\ AtAddress
  /\ parameter_index < 4
  /\ args[argind] = Expected[parameter_index + 1]
  /\ argind' = argind + 1
  /\ parameter_index' = parameter_index + 1
  /\ UNCHANGED << line, pc, optind, conf >>

AddressWrong ==
  /\ pc = "addresses" /\ AtAddress
  /\ IF parameter_index < 4
     THEN args[argind] # Expected[parameter_index + 1] /\ pc' = "exited"
     ELSE pc' = "aborted"
  /\ UNCHANGED argVars

AddressesDone ==
  /\ pc = "addresses" /\ ~AtAddress
  /\ pc' = "arguments"
  /\ UNCHANGED argVars

ParseStep ==
  \/ RunCommand \/ ParseNext
  \/ OptionTaken \/ OptionWrong \/ OptionsDone
  \/ AddressTaken \/ AddressWrong \/ AddressesDone

-----------------------------------------------------------------------------
ArgumentsTypeOK ==
  /\ line \in CommandLines
  /\ argind \in 1 .. Argc /\ optind \in 1 .. Argc
  /\ parameter_index \in 0 .. (IF Rewrite THEN 4 ELSE Len(args))
  /\ conf \in [type : {"none", "dgram", "raw", "dpdk"},
               rate : {"positive", "zero"}, block : BOOLEAN]

(***************************************************************************)
(* What a command line asks for, read without a parser: it ends at its     *)
(* first "--", and no option has a value that looks like an option.        *)
(***************************************************************************)
Plain == \A k \in 1 .. Len(args) : TakesValue(args[k]) =>
           k < Len(args) /\ ~CheckDash(args[k + 1])
End == LET dashes == {k \in 1 .. Len(args) : args[k] = "--"}
       IN  IF dashes = {} THEN Argc
           ELSE CHOOSE k \in dashes : \A d \in dashes : k <= d
Given(text) == \E k \in 1 .. End - 1 : args[k] = text
IsValue(k) == k > 1 /\ TakesValue(args[k - 1])
Addresses == {k \in 1 .. End - 1 : ~CheckDash(args[k]) /\ ~IsValue(k)}
Asks(rate) ==
  LET rates == {k \in 1 .. End - 1 : args[k] = "-r"}
  IN  IF rates = {} THEN rate = "positive"
      ELSE \E k \in rates : /\ \A r \in rates : r <= k
                            /\ rate = IF args[k + 1] = "word" THEN "zero"
                                      ELSE "positive"

\* However options and addresses alternate, config_parse_arguments has read
\* exactly the arguments before the first "--", each one once and as what it
\* is, and of an option given twice the last value counts (config.c:561-592,
\* and parameters_parse of the deprecated program, testapp/common.c:372-410).
ConfigAsAsked ==
  pc \notin {"main", "arguments", "options", "addresses", "exited", "aborted"}
    /\ Plain
    => /\ argind = End
       /\ conf.block = Given("-B")
       /\ (conf.type = "raw") =
            (Given("-R") /\ (Rewrite => line.cmd \notin DpdkCommands))
       /\ Asks(conf.rate)
       /\ parameter_index = Cardinality(Addresses)
=============================================================================
