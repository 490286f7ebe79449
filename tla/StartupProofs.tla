--------------------------- MODULE StartupProofs ---------------------------
(***************************************************************************)
(* For every command line, every set of CPUs and either program: what the  *)
(* parsers have read when they end, the socket the loops find, and the     *)
(* cores they run on.                                                      *)
(***************************************************************************)
EXTENDS TestappStartup, FiniteSetTheorems, WellFoundedInduction, TLAPS

USE ArgumentsAssumption, StartupAssumption

(* Every set of numbers that is not empty has a least one. *)
LEMMA LeastNumber ==
  ASSUME NEW S, S \subseteq Nat, S # {}
  PROVE  \E d \in S : \A e \in S : d <= e
<1>1. \E d \in S : \A e \in S : ~ (e < d)
  <2> DEFINE R == OpToRel(<, Nat)
  <2>1. IsWellFoundedOn(R, Nat)
    BY NatLessThanWellFounded
  <2>2. \A x, y \in Nat : x < y => << x, y >> \in R
    BY DEF OpToRel
  <2> HIDE DEF R
  <2>3. PICK d \in S : \A e \in S : ~ (<< e, d >> \in R)
    BY <2>1, WFMin
  <2>4. \A e \in S : ~ (e < d)
    BY <2>2, <2>3
  <2>. QED  BY <2>4
<1>. QED  BY <1>1

-----------------------------------------------------------------------------
(* The two parsers. *)

ParserStates == {"main", "arguments", "options", "addresses"}

(* How far the arguments have been read. *)
Position == IF pc = "options" THEN optind ELSE argind

(***************************************************************************)
(* Addresses are counted once, and no parser goes back: options_parse      *)
(* starts where args_parse stopped and gives up at most the "--" it took.  *)
(***************************************************************************)
ParserInv ==
  /\ line \in CommandLines
  /\ argind \in 1 .. Argc /\ optind \in 1 .. Argc
  /\ parameter_index \in 0 .. argind - 1
  /\ Rewrite => parameter_index <= 4
  /\ conf \in [type : {"none", "dgram", "raw", "dpdk"},
               rate : {"positive", "zero"}, block : BOOLEAN]
  /\ CheckDoubleDash(argind - 1) => CheckDoubleDash(argind)
  /\ pc = "options" => argind <= optind /\ ~ CheckDoubleDash(argind - 1)

(* A step of the parser of either program. *)
ParserStep ==
  \/ (Rewrite /\ RunCommand) \/ (~ Rewrite /\ BodyRuns) \/ ParseNext
  \/ (Rewrite /\ OptionTaken) \/ (~ Rewrite /\ OptionParsed)
  \/ OptionWrong \/ OptionsDone
  \/ AddressTaken \/ (~ Rewrite /\ AddressParsed) \/ AddressWrong \/ AddressesDone

LEMMA LineTypes ==
  ASSUME line \in CommandLines
  PROVE  /\ args \in Seq(Texts) /\ Argc \in Nat \ {0} /\ Argc = Len(args) + 1
         /\ Len(args) \in Nat /\ DOMAIN args = 1 .. Len(args)
BY DEF args, Argc

LEMMA LineKept ==
  ASSUME line' = line
  PROVE  /\ args' = args /\ Argc' = Argc /\ Rewrite' = Rewrite /\ IsDpdk' = IsDpdk
         /\ N' = N /\ Places' = Places /\ Loops' = Loops
BY DEF args, Argc, Rewrite, IsDpdk, N, Places, Loops

LEMMA InitParser == Init => ParserInv
<1> SUFFICES ASSUME Init PROVE ParserInv
  OBVIOUS
<1>1. /\ line \in CommandLines /\ argind = 1 /\ optind = 1 /\ parameter_index = 0
      /\ pc = "main"
      /\ conf = [type |-> "none", rate |-> "positive", block |-> FALSE]
  BY DEF Init, ArgumentsInit
<1>2. ~ CheckDoubleDash(argind - 1)
  BY <1>1 DEF CheckDoubleDash
<1>. QED  BY <1>1, <1>2, LineTypes DEF ParserInv

(* What an option does to the configuration. *)
LEMMA OptionTypes ==
  ASSUME ParserInv, OptionTaken \/ OptionParsed
  PROVE  /\ conf' \in [type : {"none", "dgram", "raw", "dpdk"},
                       rate : {"positive", "zero"}, block : BOOLEAN]
         /\ args[optind] \in {"-r", "-R", "-B"}
<1>1. args[optind] \in {"-r", "-R", "-B"}
  BY DEF OptionTaken, OptionParsed, ReadOption, AtOption
<1>2. CASE args[optind] = "-r"
  BY <1>2 DEF ParserInv, OptionTaken, OptionParsed, SetOption
<1>3. CASE args[optind] = "-R"
  BY <1>3 DEF ParserInv, OptionTaken, OptionParsed, SetOption
<1>4. CASE args[optind] = "-B"
  BY <1>4 DEF ParserInv, OptionTaken, OptionParsed, SetOption
<1>. QED  BY <1>1, <1>2, <1>3, <1>4

LEMMA NextParser ==
  ASSUME ParserInv, ParserStep
  PROVE  ParserInv' /\ line' = line
<1> USE DEF ParserInv
<1>t. /\ Argc \in Nat \ {0} /\ Argc = Len(args) + 1 /\ Len(args) \in Nat
      /\ argind \in 1 .. Argc /\ optind \in 1 .. Argc
  BY LineTypes
<1>1. CASE RunCommand \/ BodyRuns
  BY <1>1, <1>t, LineKept DEF RunCommand, BodyRuns, CheckDoubleDash
<1>2. CASE ParseNext
  <2>1. UNCHANGED << line, argind, parameter_index, conf >>
    BY <1>2 DEF ParseNext
  <2>2. CASE argind < Argc /\ ~ CheckDoubleDash(argind)
    BY <1>2, <1>t, <2>1, <2>2, LineKept DEF ParseNext, CheckDoubleDash
  <2>3. CASE ~ (argind < Argc /\ ~ CheckDoubleDash(argind))
    BY <1>2, <1>t, <2>1, <2>3, LineKept DEF ParseNext, CheckDoubleDash
  <2>. QED  BY <2>2, <2>3
<1>3. CASE OptionTaken \/ OptionParsed
  <2>1. /\ UNCHANGED << line, pc, argind, parameter_index >> /\ pc = "options"
        /\ optind < Argc
        /\ TakesValue(args[optind]) => optind + 1 < Argc
        /\ optind' = optind + (IF TakesValue(args[optind]) THEN 2 ELSE 1)
    BY <1>3 DEF OptionTaken, OptionParsed, ReadOption, AtOption
  <2>2. optind' \in 1 .. Argc /\ optind <= optind'
    BY <1>t, <2>1
  <2>3. argind' <= optind'
    BY <1>t, <2>1, <2>2
  <2>. QED  BY <1>3, <2>1, <2>2, <2>3, OptionTypes, LineKept DEF CheckDoubleDash
<1>4. CASE OptionsDone
  <2>1. /\ UNCHANGED << line, parameter_index, conf >> /\ pc = "options"
        /\ pc' = "addresses"
        /\ optind' = IF CheckDoubleDash(optind) THEN optind + 1 ELSE optind
        /\ argind' = IF CheckDoubleDash(optind' - 1) THEN optind' - 1 ELSE optind'
    BY <1>4 DEF OptionsDone
  <2>2. optind' \in 1 .. Argc
    BY <1>t, <2>1 DEF CheckDoubleDash
  <2>3. argind' \in 1 .. Argc /\ argind <= argind'
    BY <1>t, <2>1, <2>2 DEF CheckDoubleDash
  <2>4. CheckDoubleDash(argind' - 1) => CheckDoubleDash(argind')
    BY <1>t, <2>1, <2>2 DEF CheckDoubleDash
  <2>5. (CheckDoubleDash(argind - 1) => CheckDoubleDash(argind))'
    BY <2>1, <2>4, LineKept DEF CheckDoubleDash
  <2>. QED  BY <1>t, <2>1, <2>2, <2>3, <2>5, LineKept
<1>5. CASE AddressTaken \/ (~ Rewrite /\ AddressParsed)
  <2>1. /\ UNCHANGED << line, pc, optind, conf >> /\ pc = "addresses"
        /\ argind < Argc /\ ~ CheckDash(args[argind])
        /\ Rewrite => parameter_index < 4
        /\ argind' = argind + 1 /\ parameter_index' = parameter_index + 1
    BY <1>5 DEF AddressTaken, AddressParsed, AtAddress
  <2>2. ~ CheckDoubleDash(argind)
    BY <2>1 DEF CheckDoubleDash, CheckDash
  <2>3. ~ CheckDoubleDash(argind' - 1)
    BY <1>t, <2>1, <2>2
  <2>. QED  BY <1>t, <2>1, <2>3, LineKept DEF CheckDoubleDash
<1>6. CASE OptionWrong \/ AddressWrong \/ AddressesDone
  BY <1>6, LineKept DEF OptionWrong, AddressWrong, AddressesDone, argVars,
                        CheckDoubleDash
<1>. QED  BY <1>1, <1>2, <1>3, <1>4, <1>5, <1>6 DEF ParserStep

-----------------------------------------------------------------------------
(* What has been read so far is what is asked for so far. *)

(* The kind of socket is that of the command, until -R changes it. *)
KindInv ==
  /\ pc = "main" => conf.type = "none"
  /\ pc # "main" /\ Rewrite => /\ conf.type # "none"
                               /\ conf.type = "dpdk" <=> line.cmd \in DpdkCommands
  /\ pc # "main" /\ ~ Rewrite => /\ conf.type # "dpdk"
                                 /\ conf.type = "none" => IsDpdk

(***************************************************************************)
(* What the arguments before p ask for, of a configuration c and a number  *)
(* of addresses: End, Given, Asks and Addresses with p in place of the     *)
(* first "--".                                                             *)
(***************************************************************************)
AddressesBefore(p) == {k \in 1 .. p - 1 : ~ CheckDash(args[k]) /\ ~ IsValue(k)}
GivenBefore(text, p) == \E k \in 1 .. p - 1 : args[k] = text
AsksBefore(rate, p) ==
  LET rates == {k \in 1 .. p - 1 : args[k] = "-r"}
  IN  IF rates = {} THEN rate = "positive"
      ELSE \E k \in rates : /\ \A r \in rates : r <= k
                            /\ rate = IF args[k + 1] = "word" THEN "zero"
                                      ELSE "positive"

ReadSoFar(p, c, addresses) ==
  /\ ~ GivenBefore("--", p)
  /\ p > 1 => ~ TakesValue(args[p - 1])
  /\ c.block = GivenBefore("-B", p)
  /\ (c.type = "raw") =
       (GivenBefore("-R", p) /\ (Rewrite => line.cmd \notin DpdkCommands))
  /\ AsksBefore(c.rate, p)
  /\ addresses = Cardinality(AddressesBefore(p))

Finished == argind = Argc \/ CheckDoubleDash(argind)

PlainInv ==
  (Plain /\ pc \notin {"exited", "aborted"}) =>
    /\ ReadSoFar(Position, conf, parameter_index)
    /\ pc \notin ParserStates => Finished

LEMMA InitPlain == Init => KindInv /\ PlainInv
<1> SUFFICES ASSUME Init PROVE KindInv /\ PlainInv
  OBVIOUS
<1>1. /\ argind = 1 /\ parameter_index = 0 /\ pc = "main"
      /\ conf = [type |-> "none", rate |-> "positive", block |-> FALSE]
  BY DEF Init, ArgumentsInit
<1>2. /\ AddressesBefore(1) = {} /\ GivenBefore("--", 1) = FALSE
      /\ GivenBefore("-B", 1) = FALSE /\ GivenBefore("-R", 1) = FALSE
      /\ AsksBefore("positive", 1)
  BY DEF AddressesBefore, GivenBefore, AsksBefore
<1>3. Cardinality({}) = 0
  BY FS_EmptySet
<1>4. Position = 1 /\ pc \in ParserStates
  BY <1>1 DEF Position, ParserStates
<1>5. ReadSoFar(1, conf, 0)
  <2>1. conf.block = FALSE /\ conf.type # "raw" /\ conf.rate = "positive"
    BY <1>1
  <2>2. (conf.type = "raw")
          = (GivenBefore("-R", 1) /\ (Rewrite => line.cmd \notin DpdkCommands))
    BY <1>2, <2>1
  <2>3. conf.block = GivenBefore("-B", 1) /\ ~ GivenBefore("--", 1)
    BY <1>2, <2>1
  <2>4. AsksBefore(conf.rate, 1) /\ 0 = Cardinality(AddressesBefore(1))
    BY <1>2, <1>3, <2>1
  <2>. QED  BY <2>2, <2>3, <2>4 DEF ReadSoFar
<1>6. KindInv
  BY <1>1 DEF KindInv
<1>7. ReadSoFar(Position, conf, parameter_index)
  BY <1>1, <1>4, <1>5
<1>. QED  BY <1>4, <1>6, <1>7 DEF PlainInv

LEMMA NextKind ==
  ASSUME ParserInv, KindInv, ParserStep
  PROVE  KindInv'
<1>1. line' = line /\ Rewrite' = Rewrite /\ IsDpdk' = IsDpdk
  BY NextParser, LineKept DEF IsDpdk
<1>2. CASE Rewrite /\ RunCommand
  BY <1>1, <1>2 DEF RunCommand, KindInv, ParserInv
<1>3. CASE ~ Rewrite /\ BodyRuns
  BY <1>1, <1>3 DEF BodyRuns, KindInv, ParserInv
<1>4. CASE (Rewrite /\ OptionTaken) \/ (~ Rewrite /\ OptionParsed)
  <2>1. /\ args[optind] \in {"-r", "-R", "-B"} /\ pc' = pc /\ pc = "options"
        /\ conf \in [type : {"none", "dgram", "raw", "dpdk"},
                     rate : {"positive", "zero"}, block : BOOLEAN]
    BY <1>4, OptionTypes DEF OptionTaken, OptionParsed, ReadOption, ParserInv
  <2>2. CASE args[optind] = "-R"
    BY <1>1, <1>4, <2>1, <2>2 DEF OptionTaken, OptionParsed, SetOption, KindInv
  <2>3. CASE args[optind] # "-R"
    <3>1. conf'.type = conf.type
      BY <1>4, <2>1, <2>3 DEF OptionTaken, OptionParsed, SetOption
    <3>. QED  BY <1>1, <2>1, <3>1 DEF KindInv
  <2>. QED  BY <2>2, <2>3
<1>5. CASE ParseNext \/ OptionWrong \/ OptionsDone \/ AddressTaken
           \/ AddressParsed \/ AddressWrong \/ AddressesDone
  BY <1>1, <1>5
     DEF ParseNext, OptionWrong, OptionsDone, AddressTaken, AddressParsed,
         AddressWrong, AddressesDone, argVars, KindInv
<1>. QED  BY <1>2, <1>3, <1>4, <1>5 DEF ParserStep

(* An address is read: it counts, and asks for nothing else. *)
LEMMA ReadAddress ==
  ASSUME line \in CommandLines, NEW p \in 1 .. Argc - 1, NEW c, NEW a,
         ReadSoFar(p, c, a), ~ CheckDash(args[p])
  PROVE  ReadSoFar(p + 1, c, a + 1)
<1>t. Argc \in Nat /\ Argc = Len(args) + 1 /\ Len(args) \in Nat
  BY LineTypes
<1> USE DEF ReadSoFar
<1>1. \A k : k \in 1 .. (p + 1) - 1 <=> k \in 1 .. p - 1 \/ k = p
  BY <1>t
<1>2. \A text \in {"-r", "-R", "-B", "--"} :
        GivenBefore(text, p + 1) = GivenBefore(text, p)
  BY <1>1 DEF GivenBefore, CheckDash
<1>3. {k \in 1 .. (p + 1) - 1 : args[k] = "-r"} = {k \in 1 .. p - 1 : args[k] = "-r"}
  BY <1>1 DEF CheckDash
<1>4. AsksBefore(c.rate, p + 1)
  BY <1>3 DEF AsksBefore
<1>5. ~ IsValue(p)
  BY DEF IsValue
<1>6. /\ AddressesBefore(p + 1) = AddressesBefore(p) \union {p}
      /\ p \notin AddressesBefore(p)
  BY <1>1, <1>5 DEF AddressesBefore
<1>7. IsFiniteSet(AddressesBefore(p))
  <2>1. IsFiniteSet(1 .. p - 1)
    BY <1>t, FS_Interval
  <2>2. AddressesBefore(p) \subseteq 1 .. p - 1
    BY DEF AddressesBefore
  <2>. QED  BY <2>1, <2>2, FS_Subset
<1>8. Cardinality(AddressesBefore(p + 1)) = a + 1
  BY <1>6, <1>7, FS_AddElement
<1>9. ~ TakesValue(args[p])
  BY DEF TakesValue, CheckDash
<1>. QED  BY <1>t, <1>2, <1>4, <1>8, <1>9

(* -B is read. *)
LEMMA ReadBlock ==
  ASSUME line \in CommandLines, NEW p \in 1 .. Argc - 1, NEW a,
         NEW c \in [type : {"none", "dgram", "raw", "dpdk"},
                    rate : {"positive", "zero"}, block : BOOLEAN],
         ReadSoFar(p, c, a), args[p] = "-B"
  PROVE  ReadSoFar(p + 1, [c EXCEPT !.block = TRUE], a)
<1> DEFINE d == [c EXCEPT !.block = TRUE]
<1>d. d.block = TRUE /\ d.type = c.type /\ d.rate = c.rate
  OBVIOUS
<1> HIDE DEF d
<1>t. Argc \in Nat /\ Argc = Len(args) + 1 /\ Len(args) \in Nat
  BY LineTypes
<1> USE DEF ReadSoFar
<1>1. \A k : k \in 1 .. (p + 1) - 1 <=> k \in 1 .. p - 1 \/ k = p
  BY <1>t
<1>2. /\ GivenBefore("-B", p + 1) = TRUE
      /\ GivenBefore("-R", p + 1) = GivenBefore("-R", p)
      /\ ~ GivenBefore("--", p + 1)
  BY <1>1 DEF GivenBefore
<1>3. {k \in 1 .. (p + 1) - 1 : args[k] = "-r"} = {k \in 1 .. p - 1 : args[k] = "-r"}
  BY <1>1
<1>4. AsksBefore(c.rate, p + 1)
  BY <1>3 DEF AsksBefore
<1>5. AddressesBefore(p + 1) = AddressesBefore(p)
  BY <1>1 DEF AddressesBefore, CheckDash
<1>6. ~ TakesValue(args[p])
  BY DEF TakesValue
<1>7. (p + 1) - 1 = p
  BY <1>t
<1>8. ReadSoFar(p + 1, d, a)
  BY <1>d, <1>2, <1>4, <1>5, <1>6, <1>7
<1>. QED  BY <1>8 DEF d

(* An option and its value are read. *)
LEMMA PassValue ==
  ASSUME line \in CommandLines, Plain, NEW p \in 1 .. Argc - 1, NEW c, NEW a,
         ReadSoFar(p, c, a), TakesValue(args[p])
  PROVE  /\ p + 1 < Argc /\ args[p + 1] \in {"ip", "mac", "word"}
         /\ \A text \in {"-r", "-R", "-B", "--"} :
              GivenBefore(text, p + 2) = (GivenBefore(text, p) \/ text = args[p])
         /\ AddressesBefore(p + 2) = AddressesBefore(p)
         /\ ~ TakesValue(args[p + 1])
         /\ {k \in 1 .. (p + 2) - 1 : args[k] = "-r"}
              = {k \in 1 .. p - 1 : args[k] = "-r"}
                  \union (IF args[p] = "-r" THEN {p} ELSE {})
<1>t. /\ Argc \in Nat /\ Argc = Len(args) + 1 /\ Len(args) \in Nat
      /\ args \in Seq(Texts)
  BY LineTypes
<1>1. p < Len(args) /\ ~ CheckDash(args[p + 1])
  BY <1>t DEF Plain
<1>2. args[p + 1] \in {"ip", "mac", "word"}
  <2>1. args[p + 1] \in Texts
    BY <1>t, <1>1
  <2>. QED  BY <1>1, <2>1 DEF Texts, CheckDash
<1>3. \A k : k \in 1 .. (p + 2) - 1 <=> k \in 1 .. p - 1 \/ k = p \/ k = p + 1
  BY <1>t
<1>4. \A text \in {"-r", "-R", "-B", "--"} :
        GivenBefore(text, p + 2) = (GivenBefore(text, p) \/ text = args[p])
  BY <1>2, <1>3 DEF GivenBefore
<1>5. AddressesBefore(p + 2) = AddressesBefore(p)
  <2>1. IsValue(p + 1)
    BY <1>t DEF IsValue
  <2>2. CheckDash(args[p])
    BY DEF CheckDash, TakesValue
  <2>. QED  BY <1>3, <2>1, <2>2 DEF AddressesBefore
<1>6. ~ TakesValue(args[p + 1])
  BY <1>2 DEF TakesValue
<1>7. {k \in 1 .. (p + 2) - 1 : args[k] = "-r"}
        = {k \in 1 .. p - 1 : args[k] = "-r"}
            \union (IF args[p] = "-r" THEN {p} ELSE {})
  BY <1>2, <1>3
<1>. QED  BY <1>t, <1>1, <1>2, <1>4, <1>5, <1>6, <1>7

LEMMA ReadRate ==
  ASSUME line \in CommandLines, Plain, NEW p \in 1 .. Argc - 1, NEW a,
         NEW c \in [type : {"none", "dgram", "raw", "dpdk"},
                    rate : {"positive", "zero"}, block : BOOLEAN],
         ReadSoFar(p, c, a), args[p] = "-r"
  PROVE  ReadSoFar(p + 2, [c EXCEPT !.rate = IF args[p + 1] \in {"ip", "mac"}
                                             THEN "positive" ELSE "zero"], a)
<1> DEFINE rates == {k \in 1 .. p - 1 : args[k] = "-r"}
           new == IF args[p + 1] \in {"ip", "mac"} THEN "positive" ELSE "zero"
<1>t. Argc \in Nat /\ Argc = Len(args) + 1 /\ Len(args) \in Nat
  BY LineTypes
<1>1. TakesValue(args[p])
  BY DEF TakesValue
<1>2. /\ args[p + 1] \in {"ip", "mac", "word"}
      /\ \A text \in {"-r", "-R", "-B", "--"} :
           GivenBefore(text, p + 2) = (GivenBefore(text, p) \/ text = args[p])
      /\ AddressesBefore(p + 2) = AddressesBefore(p)
      /\ ~ TakesValue(args[p + 1])
      /\ {k \in 1 .. (p + 2) - 1 : args[k] = "-r"} = rates \union {p}
  BY <1>1, PassValue
<1>3. AsksBefore(new, p + 2)
  <2>1. \A r \in rates \union {p} : r <= p
    BY <1>t
  <2>2. new = IF args[p + 1] = "word" THEN "zero" ELSE "positive"
    BY <1>2
  <2> HIDE DEF new
  <2>3. rates \union {p} # {} /\ p \in rates \union {p}
    OBVIOUS
  <2>. QED  BY <1>2, <2>1, <2>2, <2>3 DEF AsksBefore
<1>4. /\ GivenBefore("-B", p + 2) = GivenBefore("-B", p)
      /\ GivenBefore("-R", p + 2) = GivenBefore("-R", p)
      /\ GivenBefore("--", p + 2) = GivenBefore("--", p)
  BY <1>2 DEF GivenBefore
<1>5. (p + 2) - 1 = p + 1
  BY <1>t
<1>. QED  BY <1>2, <1>3, <1>4, <1>5 DEF ReadSoFar

LEMMA ReadRaw ==
  ASSUME line \in CommandLines, Plain, NEW p \in 1 .. Argc - 1, NEW a,
         NEW c \in [type : {"none", "dgram", "raw", "dpdk"},
                    rate : {"positive", "zero"}, block : BOOLEAN],
         NEW d \in [type : {"none", "dgram", "raw", "dpdk"},
                    rate : {"positive", "zero"}, block : BOOLEAN],
         ReadSoFar(p, c, a), args[p] = "-R",
         d.block = c.block, d.rate = c.rate,
         (d.type = "raw") = (Rewrite => line.cmd \notin DpdkCommands)
  PROVE  ReadSoFar(p + 2, d, a)
<1>t. Argc \in Nat /\ Argc = Len(args) + 1 /\ Len(args) \in Nat
  BY LineTypes
<1>1. TakesValue(args[p])
  BY DEF TakesValue
<1>2. /\ \A text \in {"-r", "-R", "-B", "--"} :
           GivenBefore(text, p + 2) = (GivenBefore(text, p) \/ text = args[p])
      /\ AddressesBefore(p + 2) = AddressesBefore(p)
      /\ ~ TakesValue(args[p + 1])
      /\ {k \in 1 .. (p + 2) - 1 : args[k] = "-r"}
           = {k \in 1 .. p - 1 : args[k] = "-r"}
    BY <1>1, PassValue
<1>3. AsksBefore(d.rate, p + 2)
  BY <1>2 DEF AsksBefore, ReadSoFar
<1>4. /\ GivenBefore("-B", p + 2) = GivenBefore("-B", p)
      /\ GivenBefore("-R", p + 2) = TRUE
      /\ GivenBefore("--", p + 2) = GivenBefore("--", p)
  BY <1>2 DEF GivenBefore
<1>5. (p + 2) - 1 = p + 1
  BY <1>t
<1>. QED  BY <1>2, <1>3, <1>4, <1>5 DEF ReadSoFar

-----------------------------------------------------------------------------
(* The parsers read every argument, once and as what it is. *)

LEMMA NextPlain ==
  ASSUME ParserInv, KindInv, PlainInv, ParserStep
  PROVE  PlainInv'
<1> SUFFICES ASSUME Plain', pc' \notin {"exited", "aborted"}
             PROVE  /\ ReadSoFar(Position, conf, parameter_index)'
                    /\ (pc \notin ParserStates => Finished)'
  BY DEF PlainInv
<1>0. /\ ParserInv' /\ line' = line /\ args' = args /\ Argc' = Argc
      /\ Rewrite' = Rewrite
  BY NextParser, LineKept
<1>t. /\ Argc \in Nat \ {0} /\ Argc = Len(args) + 1 /\ Len(args) \in Nat
      /\ argind \in 1 .. Argc /\ optind \in 1 .. Argc /\ line \in CommandLines
      /\ parameter_index \in Nat /\ Plain
      /\ conf \in [type : {"none", "dgram", "raw", "dpdk"},
                   rate : {"positive", "zero"}, block : BOOLEAN]
  BY <1>0, LineTypes DEF ParserInv, Plain
<1>p. ReadSoFar(Position', conf', parameter_index')
        => ReadSoFar(Position, conf, parameter_index)'
  BY <1>0 DEF ReadSoFar, GivenBefore, AsksBefore, AddressesBefore, IsValue
<1>f. (argind' = Argc \/ CheckDoubleDash(argind')) <=> Finished'
  BY <1>0 DEF Finished, CheckDoubleDash
<1>1. pc \notin {"exited", "aborted"} /\ ReadSoFar(Position, conf, parameter_index)
  BY <1>t DEF PlainInv, ParserStep, RunCommand, BodyRuns, ParseNext, OptionTaken,
              OptionParsed, ReadOption, OptionWrong, OptionsDone, AddressTaken,
              AddressParsed, AddressWrong, AddressesDone
<1>2. CASE RunCommand \/ BodyRuns
  <2>1. /\ Position' = Position /\ parameter_index' = parameter_index
        /\ conf'.type # "raw" /\ conf.type # "raw"
        /\ conf'.block = conf.block /\ conf'.rate = conf.rate
        /\ pc' = "arguments"
    BY <1>2, <1>t DEF RunCommand, BodyRuns, Position, KindInv
  <2>2. ReadSoFar(Position', conf', parameter_index')
    BY <1>1, <2>1 DEF ReadSoFar
  <2>. QED  BY <1>p, <2>1, <2>2 DEF ParserStates
<1>3. CASE ParseNext
  <2>1. /\ UNCHANGED << argind, parameter_index, conf >> /\ pc = "arguments"
        /\ Position = argind /\ Position' = argind
    BY <1>3 DEF ParseNext, Position
  <2>2. pc' = "options" \/ argind' = Argc \/ CheckDoubleDash(argind')
    BY <1>3, <1>t DEF ParseNext
  <2>. QED  BY <1>f, <1>p, <1>1, <2>1, <2>2 DEF ParserStates
<1>4. CASE (Rewrite /\ OptionTaken) \/ (~ Rewrite /\ OptionParsed)
  <2>1. /\ pc' = pc /\ pc = "options" /\ parameter_index' = parameter_index
        /\ optind \in 1 .. Argc - 1
        /\ args[optind] \in {"-r", "-R", "-B"}
        /\ optind' = optind + (IF TakesValue(args[optind]) THEN 2 ELSE 1)
        /\ conf' \in [type : {"none", "dgram", "raw", "dpdk"},
                      rate : {"positive", "zero"}, block : BOOLEAN]
    BY <1>4, <1>t, OptionTypes
       DEF OptionTaken, OptionParsed, ReadOption, AtOption
  <2>2. Position = optind /\ Position' = optind' /\ pc' \in ParserStates
    BY <2>1 DEF Position, ParserStates
  <2>3. CASE args[optind] = "-B"
    <3>1. conf' = [conf EXCEPT !.block = TRUE] /\ optind' = optind + 1
      BY <1>4, <2>1, <2>3 DEF OptionTaken, OptionParsed, SetOption, TakesValue
    <3>2. ReadSoFar(optind + 1, [conf EXCEPT !.block = TRUE], parameter_index)
      BY <1>1, <1>t, <2>1, <2>2, <2>3, ReadBlock
    <3>. QED  BY <1>p, <2>1, <2>2, <3>1, <3>2
  <2>4. CASE args[optind] = "-r"
    <3>1. /\ conf' = [conf EXCEPT !.rate = IF args[optind + 1] \in {"ip", "mac"}
                                           THEN "positive" ELSE "zero"]
          /\ optind' = optind + 2
      BY <1>4, <2>1, <2>4 DEF OptionTaken, OptionParsed, SetOption, TakesValue
    <3>2. ReadSoFar(optind + 2,
                    [conf EXCEPT !.rate = IF args[optind + 1] \in {"ip", "mac"}
                                          THEN "positive" ELSE "zero"],
                    parameter_index)
      BY <1>1, <1>t, <2>1, <2>2, <2>4, ReadRate
    <3>. QED  BY <1>p, <2>1, <2>2, <3>1, <3>2
  <2>5. CASE args[optind] = "-R"
    <3>1. optind' = optind + 2
      BY <2>1, <2>5 DEF TakesValue
    <3>2. /\ conf'.block = conf.block /\ conf'.rate = conf.rate
          /\ (conf'.type = "raw") = (Rewrite => line.cmd \notin DpdkCommands)
      <4>1. CASE Rewrite /\ OptionTaken
        <5>1. conf.type = "dpdk" <=> line.cmd \in DpdkCommands
          BY <2>1, <4>1 DEF KindInv
        <5>. QED  BY <1>t, <2>5, <4>1, <5>1 DEF OptionTaken, SetOption
      <4>2. CASE ~ Rewrite /\ OptionParsed
        BY <1>t, <2>5, <4>2 DEF OptionParsed
      <4>. QED  BY <1>4, <4>1, <4>2
    <3>3. ReadSoFar(optind + 2, conf', parameter_index)
      BY <1>1, <1>t, <2>1, <2>2, <2>5, <3>2, ReadRaw
    <3>. QED  BY <1>p, <2>1, <2>2, <3>1, <3>3
  <2>. QED  BY <2>1, <2>3, <2>4, <2>5
<1>5. CASE OptionsDone
  <2>1. /\ UNCHANGED << parameter_index, conf >> /\ pc = "options"
        /\ pc' = "addresses"
        /\ optind' = IF CheckDoubleDash(optind) THEN optind + 1 ELSE optind
        /\ argind' = IF CheckDoubleDash(optind' - 1) THEN optind' - 1 ELSE optind'
    BY <1>5 DEF OptionsDone
  <2>2. Position = optind /\ Position' = argind'
    BY <2>1 DEF Position
  <2>3. ~ CheckDoubleDash(optind - 1)
    <3>1. ~ GivenBefore("--", optind)
      BY <1>1, <2>2 DEF ReadSoFar
    <3>. QED  BY <1>t, <3>1 DEF GivenBefore, CheckDoubleDash
  <2>4. argind' = optind
    <3>1. CASE CheckDoubleDash(optind)
      <4>1. optind' = optind + 1 /\ optind' - 1 = optind
        BY <1>t, <2>1, <3>1
      <4>. QED  BY <2>1, <3>1, <4>1
    <3>2. CASE ~ CheckDoubleDash(optind)
      BY <2>1, <2>3, <3>2
    <3>. QED  BY <3>1, <3>2
  <2>. QED  BY <1>p, <1>1, <2>1, <2>2, <2>4 DEF ParserStates
<1>6. CASE AddressTaken \/ (~ Rewrite /\ AddressParsed)
  <2>1. /\ pc' = pc /\ pc = "addresses" /\ conf' = conf
        /\ argind \in 1 .. Argc - 1 /\ ~ CheckDash(args[argind])
        /\ argind' = argind + 1 /\ parameter_index' = parameter_index + 1
    BY <1>6, <1>t DEF AddressTaken, AddressParsed, AtAddress
  <2>2. Position = argind /\ Position' = argind + 1 /\ pc' \in ParserStates
    BY <2>1 DEF Position, ParserStates
  <2>3. ReadSoFar(argind + 1, conf, parameter_index + 1)
    BY <1>1, <1>t, <2>1, <2>2, ReadAddress
  <2>. QED  BY <1>p, <2>1, <2>2, <2>3
<1>7. CASE AddressesDone
  <2>1. UNCHANGED << parameter_index, conf, argind >> /\ pc' = "arguments"
    BY <1>7 DEF AddressesDone, argVars
  <2>2. Position' = Position /\ pc' \in ParserStates
    BY <1>7, <2>1 DEF AddressesDone, Position, ParserStates
  <2>. QED  BY <1>p, <1>1, <2>1, <2>2
<1>8. CASE OptionWrong \/ AddressWrong
  BY <1>8 DEF OptionWrong, AddressWrong
<1>. QED  BY <1>2, <1>3, <1>4, <1>5, <1>6, <1>7, <1>8 DEF ParserStep

(***************************************************************************)
(* When the first "--" or the end has been reached, that is what the       *)
(* command line asks for.                                                  *)
(***************************************************************************)
LEMMA FinishedIsAsked ==
  ASSUME ParserInv, Finished, ReadSoFar(argind, conf, parameter_index)
  PROVE  /\ argind = End
         /\ conf.block = Given("-B")
         /\ (conf.type = "raw") =
              (Given("-R") /\ (Rewrite => line.cmd \notin DpdkCommands))
         /\ Asks(conf.rate)
         /\ parameter_index = Cardinality(Addresses)
<1>t. /\ Argc \in Nat \ {0} /\ Argc = Len(args) + 1 /\ Len(args) \in Nat
      /\ argind \in 1 .. Argc
  BY LineTypes DEF ParserInv
<1>1. \A k \in 1 .. argind - 1 : args[k] # "--"
  BY DEF ReadSoFar, GivenBefore
<1>2. argind = End
  <2> DEFINE dashes == {k \in 1 .. Len(args) : args[k] = "--"}
  <2>1. \A k \in dashes : argind <= k
    BY <1>t, <1>1
  <2>2. CASE argind = Argc
    <3>1. dashes = {}
      BY <1>t, <2>1, <2>2
    <3>. QED  BY <2>2, <3>1 DEF End
  <2>3. CASE CheckDoubleDash(argind)
    <3>1. argind \in dashes
      BY <2>3 DEF CheckDoubleDash
    <3>2. \A k \in dashes : (\A d \in dashes : k <= d) => k = argind
      BY <1>t, <2>1, <3>1
    <3>3. End = CHOOSE k \in dashes : \A d \in dashes : k <= d
      BY <3>1 DEF End
    <3> HIDE DEF dashes
    <3>. QED  BY <2>1, <3>1, <3>2, <3>3
  <2>. QED  BY <2>2, <2>3 DEF Finished
<1>3. /\ AddressesBefore(End) = Addresses
      /\ GivenBefore("-B", End) = Given("-B") /\ GivenBefore("-R", End) = Given("-R")
      /\ AsksBefore(conf.rate, End) => Asks(conf.rate)
  BY DEF AddressesBefore, Addresses, GivenBefore, Given, AsksBefore, Asks
<1>. QED  BY <1>2, <1>3 DEF ReadSoFar

-----------------------------------------------------------------------------
(* The cores. *)

(* A command has one loop or three. *)
LEMMA LoopNumber == N \in {1, 3} /\ Places = 0 .. N - 1
BY DEF N, Loops, Places

LEMMA PlacedIsNotNone == \A c, l : [core |-> c, loop |-> l] # None
BY DEF None

LEMMA CoreNumbers ==
  ASSUME allowed \in AllowedSets
  PROVE  /\ MinusOne \in Nat /\ CoreMax \in Nat \ {0} /\ CoreMax <= MinusOne
         /\ allowed \subseteq Nat /\ \A c \in allowed : c < MinusOne
         /\ IsFiniteSet(allowed) /\ Lcores \subseteq allowed
         /\ \A c \in Lcores : c < CoreMax
BY DEF MinusOne, Lcores

(* The candidates of cores_next after core c. *)
Candidates(S, m, c, skipMaster) ==
  {d \in S : (c = MinusOne \/ d > c) /\ d < CoreMax /\ ~ (skipMaster /\ d = m)}

(* cores_next gives the first candidate, CoreMax if there is none. *)
LEMMA CoresNextIsFirst ==
  ASSUME NEW S, S \subseteq Nat, NEW m, NEW c, NEW skipMaster,
         UseDpdk \/ ~ (Cardinality(S) < 2)
  PROVE  LET d == CoresNext(S, m, c, skipMaster)
             later == Candidates(S, m, c, skipMaster)
         IN  /\ later = {} => d = CoreMax
             /\ later # {} => d \in later /\ \A e \in later : d <= e
<1> DEFINE later == Candidates(S, m, c, skipMaster)
<1>1. CoresNext(S, m, c, skipMaster)
        = IF later = {} THEN CoreMax
          ELSE CHOOSE d \in later : \A e \in later : d <= e
  BY DEF CoresNext, Candidates
<1>2. later \subseteq Nat
  BY DEF Candidates
<1> HIDE DEF later
<1>3. later # {} => \E d \in later : \A e \in later : d <= e
  BY <1>2, LeastNumber
<1>. QED  BY <1>1, <1>3 DEF later

(* rte_get_next_lcore as the deprecated program uses it. *)
LEMMA NextLcoreIsFirst ==
  ASSUME cores \subseteq Nat, NEW c
  PROVE  \/ NextLcore(c) = CoreMax
         \/ /\ NextLcore(c) \in cores /\ NextLcore(c) # master
            /\ c = MinusOne \/ NextLcore(c) > c
<1> DEFINE later == {d \in cores : (c = MinusOne \/ d > c) /\ d # master}
<1>1. NextLcore(c) = IF later = {} THEN CoreMax
                     ELSE CHOOSE d \in later : \A e \in later : d <= e
  BY DEF NextLcore
<1>2. later \subseteq Nat /\ \A d \in later :
        d \in cores /\ d # master /\ (c = MinusOne \/ d > c)
  OBVIOUS
<1> HIDE DEF later
<1>3. later # {} => \E d \in later : \A e \in later : d <= e
  BY <1>2, LeastNumber
<1>4. later # {} => NextLcore(c) \in later
  BY <1>1, <1>3
<1>. QED  BY <1>1, <1>2, <1>4

-----------------------------------------------------------------------------
(* The steps of the start. *)

RewriteStep ==
  \/ InitializeSocket \/ CoresInit \/ PlaceSlave \/ PlaceMaster
  \/ ThreadStart \/ ThreadStartFails \/ StartMaster
  \/ \E k \in DOMAIN thread : ThreadStarter(k) \/ LoopBegins(k) \/ LoopFaults(k)

TestappStep ==
  \/ Opens \/ PthreadCreate \/ RemoteLaunch \/ LaunchFails \/ Sleep \/ MainLoop
  \/ \E k \in DOMAIN thread : TestappLoopBegins(k) \/ TestappLoopFaults(k)

StartStep == SocketFails \/ (Rewrite /\ RewriteStep) \/ (~ Rewrite /\ TestappStep)

LEMMA StepKinds ==
  ASSUME [EitherNext]_vars
  PROVE  \/ ParserStep /\ UNCHANGED startVars
         \/ StartStep
         \/ UNCHANGED vars
BY DEF EitherNext, EitherMain, EitherThread, Main, TestappMain, Thread,
       TestappThread, Parse, Parameters, ParseStep, ParametersParse, ParserStep,
       StartStep, RewriteStep, TestappStep

States == {"none", "starter", "body", "running", "returned", "refused", "unclocked"}
Before == ParserStates \union {"socket", "cores"}
Later == {"place", "start", "sleep", "started", "exited", "aborted"}

(* The types, and when the places exist. *)
PlacesInv ==
  /\ pc \in Before \union Later
  /\ allowed \in AllowedSets /\ cores \in {allowed, Lcores, {}}
  /\ fd \in {"closed", "blocking", "nonblocking"}
  /\ master \in 0 .. CoreMax /\ core_id \in 0 .. CoreMax \union {MinusOne}
  /\ i \in 0 .. N - 1
  /\ DOMAIN workers \in {{}, Places}
  /\ DOMAIN thread = DOMAIN workers /\ DOMAIN runsOn = DOMAIN workers
  /\ \A k \in DOMAIN workers :
       /\ workers[k] = None \/ workers[k].core \in 0 .. CoreMax
       /\ thread[k] \in States
       /\ runsOn[k] = allowed \/ \E c \in allowed : runsOn[k] = {c}
  /\ clock \in BOOLEAN
  /\ pc \in Before => DOMAIN workers = {} /\ i = 0
  /\ pc \in {"place", "start", "sleep", "started"} => DOMAIN workers = Places
  /\ pc \in {"cores", "place"} => Rewrite
  /\ pc = "sleep" => ~ Rewrite

(***************************************************************************)
(* The placement loop goes up through the cores, past the master: so many  *)
(* of them are behind it as it has placed, and with the lcores of EAL,     *)
(* enough are left.                                                        *)
(***************************************************************************)
Slaves == cores \ {master}

PlacementInv ==
  pc = "place" =>
    /\ IsDpdk => /\ cores = Lcores /\ master \in Lcores /\ N <= Cardinality(cores)
                 /\ Cardinality({d \in Slaves : d < core_id}) = i
    /\ ~ IsDpdk => cores = allowed
    /\ core_id \in 0 .. CoreMax
    /\ core_id < CoreMax => core_id \in Slaves /\ master \in cores
    /\ \A k \in Places :
         /\ thread[k] = "none"
         /\ k >= i => workers[k] = None
         /\ k < i => /\ workers[k] # None /\ workers[k].core \in Slaves
                     /\ workers[k].core < core_id /\ workers[k].core < CoreMax
                     /\ master \in cores
    /\ \A k, l \in Places : k < l /\ l < i => workers[k].core < workers[l].core

(* No two loops are placed on the same core. *)
WorkersInv ==
  /\ Rewrite \/ IsDpdk =>
       \A k, l \in DOMAIN workers :
         k # l /\ workers[k] # None /\ workers[l] # None
           => workers[k].core # workers[l].core
  /\ (Rewrite /\ pc # "place" /\ DOMAIN workers # {} /\ N > 1
        /\ workers[N - 1] # None) =>
       workers[N - 1].core \in allowed
  /\ (Rewrite /\ IsDpdk /\ pc \in {"start", "started"}) =>
       \A k \in Places : workers[k] # None /\ workers[k].core \in allowed

(* The threads of the deprecated dpdk-client are launched in that order too. *)
LaunchInv ==
  (~ Rewrite /\ IsDpdk /\ pc \in {"start", "sleep"}) =>
    /\ cores = Lcores /\ master \in Lcores
    /\ i > 0 => core_id \in Slaves
    /\ \A k \in Places :
         /\ k >= i => workers[k] = None /\ thread[k] = "none"
         /\ k < i => /\ workers[k] # None /\ workers[k].core \in Slaves
                     /\ workers[k].core <= core_id
    /\ \A k, l \in Places : k < l /\ l < i => workers[k].core < workers[l].core

(* A thread that has come to its loop runs on its own core alone. *)
AffinityInv ==
  Rewrite \/ IsDpdk =>
    \A k \in DOMAIN thread :
      /\ thread[k] \in {"running", "unclocked"} => workers[k] # None
      /\ thread[k] = "body" /\ ~ Rewrite => workers[k] # None
      /\ thread[k] \in {"body", "running", "unclocked"} /\ workers[k] # None /\ N > 1
           => runsOn[k] = {workers[k].core}

CoresInv == PlacesInv /\ PlacementInv /\ WorkersInv /\ LaunchInv /\ AffinityInv

LEMMA InitCores == Init => CoresInv
<1> SUFFICES ASSUME Init PROVE CoresInv
  OBVIOUS
<1>1. /\ pc = "main" /\ allowed \in AllowedSets /\ fd = "closed" /\ cores = {}
      /\ master = 0 /\ core_id = 0 /\ i = 0 /\ clock = FALSE
      /\ DOMAIN workers = {} /\ DOMAIN thread = {} /\ DOMAIN runsOn = {}
  BY DEF Init, ArgumentsInit
<1>2. PlacesInv
  <2>1. CoreMax \in Nat \ {0} /\ 0 \in 0 .. N - 1
    BY <1>1, CoreNumbers, LoopNumber
  <2>2. /\ master \in 0 .. CoreMax /\ core_id \in 0 .. CoreMax /\ i \in 0 .. N - 1
        /\ pc \in Before
    BY <1>1, <2>1 DEF Before, ParserStates
  <2>3. \A k \in DOMAIN workers : FALSE
    BY <1>1
  <2>4. pc # "place" /\ pc # "start" /\ pc # "sleep" /\ pc # "started" /\ pc # "cores"
    BY <1>1
  <2>5. pc \in Before \union Later
    BY <2>2
  <2>6. core_id \in 0 .. CoreMax \union {MinusOne}
    BY <2>2
  <2>7. cores \in {allowed, Lcores, {}} /\ DOMAIN workers \in {{}, Places}
    BY <1>1
  <2>. QED  BY <1>1, <2>2, <2>7, <2>3, <2>4, <2>5, <2>6 DEF PlacesInv
<1>3. PlacementInv /\ WorkersInv /\ LaunchInv /\ AffinityInv
  BY <1>1 DEF PlacementInv, WorkersInv, LaunchInv, AffinityInv
<1>. QED  BY <1>2, <1>3 DEF CoresInv

LEMMA ParserLeaves ==
  ASSUME ParserStep
  PROVE  pc \in ParserStates /\ pc' \in ParserStates \union {"socket", "exited", "aborted"}
BY DEF ParserStep, RunCommand, BodyRuns, ParseNext, OptionTaken, OptionParsed,
       ReadOption, OptionWrong, OptionsDone, AddressTaken, AddressParsed,
       AddressWrong, AddressesDone, ParserStates

LEMMA ParserCores ==
  ASSUME ParserInv, CoresInv, ParserStep, UNCHANGED startVars
  PROVE  CoresInv'
<1>1. /\ pc \in ParserStates /\ pc' \in ParserStates \union {"socket", "exited", "aborted"}
      /\ line' = line
  BY ParserLeaves, NextParser
<1>2. /\ N' = N /\ Places' = Places /\ Rewrite' = Rewrite /\ Lcores' = Lcores
      /\ UNCHANGED << allowed, fd, cores, master, core_id, i, workers, thread,
                      runsOn, clock >>
  BY <1>1, LineKept DEF startVars, Lcores
<1>3. DOMAIN workers = {} /\ DOMAIN thread = {}
  BY <1>1 DEF CoresInv, PlacesInv, Before
<1>4. PlacesInv'
  BY <1>1, <1>2, <1>3 DEF CoresInv, PlacesInv, Before, Later, ParserStates
<1>5. (PlacementInv /\ WorkersInv /\ LaunchInv /\ AffinityInv)'
  BY <1>1, <1>2, <1>3
     DEF PlacementInv, WorkersInv, LaunchInv, AffinityInv, ParserStates
<1>. QED  BY <1>4, <1>5 DEF CoresInv

LEMMA CoresInitCores ==
  ASSUME ParserInv, KindInv, CoresInv, Rewrite, CoresInit
  PROVE  CoresInv'
<1> USE DEF CoresInv
<1>0. /\ UNCHANGED << line, conf, allowed, fd, i, clock >> /\ pc = "cores"
      /\ pc' = IF Cardinality(cores') < N THEN "exited" ELSE "place"
      /\ core_id' = CoresNext(cores', master', MinusOne, TRUE)
      /\ workers' = [k \in Places |-> None] /\ thread' = [k \in Places |-> "none"]
      /\ runsOn' = [k \in Places |-> allowed]
  BY DEF CoresInit, argVars
<1>1. /\ N' = N /\ Places' = Places /\ Rewrite' = Rewrite /\ IsDpdk' = IsDpdk
      /\ Lcores' = Lcores /\ Slaves' = cores' \ {master'}
  BY <1>0, LineKept DEF Lcores, Slaves
<1>2. UseDpdk <=> IsDpdk
  BY <1>0 DEF KindInv, UseDpdk, IsDpdk
<1>3. allowed \in AllowedSets /\ i = 0 /\ N \in {1, 3} /\ Places = 0 .. N - 1
  BY <1>0, LoopNumber DEF PlacesInv, Before
<1>4. /\ MinusOne \in Nat /\ CoreMax \in Nat \ {0} /\ CoreMax <= MinusOne
      /\ allowed \subseteq Nat /\ IsFiniteSet(allowed) /\ Lcores \subseteq allowed
      /\ \A c \in Lcores : c < CoreMax
  BY <1>3, CoreNumbers
<1>5. /\ UseDpdk => cores' = Lcores /\ master' \in Lcores
      /\ ~ UseDpdk => cores' \in {allowed, {}}
                      /\ master' = CoresNext(cores', 0, MinusOne, FALSE)
  BY DEF CoresInit
<1>6. cores' \subseteq allowed /\ cores' \subseteq Nat
  BY <1>4, <1>5
<1>7. /\ master' \in 0 .. CoreMax
      /\ core_id' \in 0 .. CoreMax
      /\ core_id' < CoreMax => core_id' \in cores' \ {master'} /\ master' \in cores'
      /\ UseDpdk => \A d \in Lcores \ {master'} : ~ (d < core_id')
  <2>1. CASE ~ UseDpdk /\ Cardinality(cores') < 2
    <3>1. master' = CoreMax
      BY <1>4, <1>5, <2>1 DEF CoresNext
    <3>2. core_id' = CoreMax
      BY <1>0, <2>1 DEF CoresNext
    <3>. QED  BY <1>4, <2>1, <3>1, <3>2
  <2>2. CASE UseDpdk \/ ~ (Cardinality(cores') < 2)
    <3> DEFINE all == Candidates(cores', 0, MinusOne, FALSE)
               rest == Candidates(cores', master', MinusOne, TRUE)
    <3>1. /\ all = {d \in cores' : d < CoreMax}
          /\ rest = {d \in cores' : d < CoreMax /\ d # master'}
      BY DEF Candidates
    <3>2. /\ ~ UseDpdk /\ all = {} => master' = CoreMax
          /\ ~ UseDpdk /\ all # {} => master' \in all
      <4>1. LET d == CoresNext(cores', 0, MinusOne, FALSE)
            IN  /\ all = {} => d = CoreMax
                /\ all # {} => d \in all /\ \A e \in all : d <= e
        BY <1>6, <2>2, CoresNextIsFirst
      <4>. QED  BY <1>5, <4>1
    <3>3. /\ rest = {} => core_id' = CoreMax
          /\ rest # {} => core_id' \in rest /\ \A e \in rest : core_id' <= e
      BY <1>0, <1>6, <2>2, CoresNextIsFirst
    <3> HIDE DEF all, rest
    <3>n. /\ \A d \in all : d \in Nat /\ d < CoreMax /\ d \in cores'
          /\ \A d \in rest : /\ d \in Nat /\ d < CoreMax
                             /\ d \in cores' /\ d # master' /\ d \in all
      BY <1>6, <3>1
    <3>4. master' \in 0 .. CoreMax
      <4>1. CASE UseDpdk
        <5>1. master' \in Nat /\ master' < CoreMax
          BY <1>4, <1>5, <4>1
        <5>. QED  BY <1>4, <5>1
      <4>2. CASE ~ UseDpdk
        BY <1>4, <3>2, <3>n, <4>2
      <4>. QED  BY <4>1, <4>2
    <3>5. rest # {} => master' \in cores'
      BY <1>4, <1>5, <3>1, <3>2
    <3>6. UseDpdk => \A d \in Lcores \ {master'} : ~ (d < core_id')
      <4> SUFFICES ASSUME UseDpdk, NEW d \in Lcores \ {master'}
                   PROVE  ~ (d < core_id')
        OBVIOUS
      <4>1. d \in rest
        BY <1>4, <1>5, <3>1
      <4>2. core_id' <= d /\ core_id' \in rest
        BY <3>3, <4>1
      <4>. QED  BY <3>n, <4>1, <4>2
    <3>7. /\ core_id' \in 0 .. CoreMax
          /\ core_id' < CoreMax => core_id' \in cores' \ {master'}
      <4>1. CASE rest = {}
        BY <1>4, <3>3, <4>1
      <4>2. CASE rest # {}
        BY <1>4, <3>3, <3>n, <4>2
      <4>. QED  BY <4>1, <4>2
    <3>8. core_id' < CoreMax => rest # {}
      BY <1>4, <3>3
    <3>. QED  BY <3>4, <3>5, <3>6, <3>7, <3>8
  <2>. QED  BY <2>1, <2>2
<1>8. PlacesInv'
  <2>1. /\ pc' \in {"exited", "place"} /\ DOMAIN workers' = Places
        /\ DOMAIN thread' = Places /\ DOMAIN runsOn' = Places
        /\ \A k \in Places : workers'[k] = None /\ thread'[k] = "none"
                             /\ runsOn'[k] = allowed
    BY <1>0
  <2>2. cores' \in {allowed, Lcores, {}}
    BY <1>5
  <2>. QED
    BY <1>0, <1>1, <1>3, <1>7, <2>1, <2>2
       DEF PlacesInv, Before, Later, ParserStates, States
<1>9. PlacementInv'
  <2> SUFFICES ASSUME pc' = "place" PROVE PlacementInv'
    BY DEF PlacementInv
  <2>1. ~ (Cardinality(cores') < N)
    BY <1>0
  <2>2. /\ IsFiniteSet(cores') /\ Cardinality(cores') \in Nat /\ Cardinality({}) = 0
    BY <1>4, <1>6, FS_Subset, FS_CardinalityType, FS_EmptySet
  <2>3. N <= Cardinality(cores') /\ cores' # {}
    <3>1. N \in Nat \ {0}
      BY <1>3
    <3>2. N <= Cardinality(cores')
      BY <2>1, <2>2, <3>1
    <3>3. cores' = {} => Cardinality(cores') = 0
      BY <2>2
    <3>. QED  BY <2>1, <3>1, <3>2, <3>3
  <2>4. \A k \in Places : /\ thread'[k] = "none" /\ workers'[k] = None
                          /\ k >= 0 /\ ~ (k < 0)
    BY <1>0, <1>3
  <2>5. UseDpdk => {d \in cores' \ {master'} : d < core_id'} = {}
    BY <1>5, <1>7
  <2>6. ~ UseDpdk => cores' = allowed
    BY <1>5, <2>3
  <2>. QED
    BY <1>0, <1>1, <1>2, <1>3, <1>5, <1>7, <2>2, <2>3, <2>4, <2>5, <2>6
       DEF PlacementInv
<1>10. WorkersInv' /\ AffinityInv'
  <2>1. /\ \A k \in Places : workers'[k] = None /\ thread'[k] = "none"
        /\ DOMAIN workers' = Places /\ DOMAIN thread' = Places
        /\ pc' \notin {"start", "started"} /\ N - 1 \in Places
    BY <1>0, <1>3
  <2>. QED  BY <1>1, <2>1 DEF WorkersInv, AffinityInv
<1>11. LaunchInv'
  BY <1>1 DEF LaunchInv
<1>. QED  BY <1>8, <1>9, <1>10, <1>11

(* What the steps have in common. *)
LEMMA CoresFacts ==
  ASSUME ParserInv, KindInv, CoresInv
  PROVE  /\ N \in {1, 3} /\ N \in Nat /\ N - 1 \in Nat /\ Places = 0 .. N - 1
         /\ N - 1 \in Places /\ i \in Places /\ i \in Nat
         /\ MinusOne \in Nat /\ CoreMax \in Nat \ {0} /\ CoreMax <= MinusOne
         /\ allowed \subseteq Nat /\ \A c \in allowed : c < MinusOne
         /\ IsFiniteSet(allowed) /\ Lcores \subseteq allowed
         /\ \A c \in Lcores : c < CoreMax
         /\ cores \subseteq allowed
         /\ pc # "main" /\ Rewrite => (UseDpdk <=> IsDpdk)
<1>1. /\ N \in {1, 3} /\ Places = 0 .. N - 1
  BY LoopNumber
<1>2. i \in 0 .. N - 1 /\ allowed \in AllowedSets /\ cores \in {allowed, Lcores, {}}
  BY DEF CoresInv, PlacesInv
<1>3. /\ MinusOne \in Nat /\ CoreMax \in Nat \ {0} /\ CoreMax <= MinusOne
      /\ allowed \subseteq Nat /\ \A c \in allowed : c < MinusOne
      /\ IsFiniteSet(allowed) /\ Lcores \subseteq allowed
      /\ \A c \in Lcores : c < CoreMax
  BY <1>2, CoreNumbers
<1>4. pc # "main" /\ Rewrite => (UseDpdk <=> IsDpdk)
  BY DEF KindInv, UseDpdk, IsDpdk
<1>. QED  BY <1>1, <1>2, <1>3, <1>4

LEMMA PlaceSlaveCores ==
  ASSUME ParserInv, KindInv, CoresInv, Rewrite, PlaceSlave
  PROVE  CoresInv'
<1> DEFINE w == [core |-> core_id, loop |-> Loops[i + 1]]
<1>0. /\ UNCHANGED << line, conf, allowed, fd, cores, master, thread, runsOn, clock >>
      /\ pc = "place" /\ pc' = pc /\ core_id < CoreMax /\ i < N - 1
      /\ workers' = [workers EXCEPT ![i] = w]
      /\ i' = i + 1 /\ core_id' = CoresNext(cores, master, core_id, TRUE)
  BY DEF PlaceSlave, argVars
<1>w. w # None /\ w.core = core_id
  BY PlacedIsNotNone
<1> HIDE DEF w
<1>1. /\ N' = N /\ Places' = Places /\ Rewrite' = Rewrite /\ IsDpdk' = IsDpdk
      /\ Lcores' = Lcores /\ Slaves' = Slaves
  BY <1>0, LineKept DEF Lcores, Slaves
<1>t. /\ N \in {1, 3} /\ N \in Nat /\ Places = 0 .. N - 1 /\ i \in Places /\ i \in Nat
      /\ MinusOne \in Nat /\ CoreMax \in Nat \ {0} /\ CoreMax <= MinusOne
      /\ IsFiniteSet(allowed) /\ \A c \in Lcores : c < CoreMax
      /\ cores \subseteq allowed /\ allowed \subseteq Nat /\ (UseDpdk <=> IsDpdk)
  BY <1>0, CoresFacts
<1>i. PlacesInv /\ PlacementInv /\ WorkersInv /\ AffinityInv
  BY DEF CoresInv
<1>p. /\ IsDpdk => /\ cores = Lcores /\ master \in Lcores /\ N <= Cardinality(cores)
                   /\ Cardinality({d \in Slaves : d < core_id}) = i
      /\ ~ IsDpdk => cores = allowed
      /\ core_id \in 0 .. CoreMax /\ core_id \in Slaves /\ master \in cores
      /\ \A k \in Places :
           /\ thread[k] = "none"
           /\ k >= i => workers[k] = None
           /\ k < i => /\ workers[k] # None /\ workers[k].core \in Slaves
                       /\ workers[k].core < core_id /\ workers[k].core < CoreMax
      /\ \A k, l \in Places : k < l /\ l < i => workers[k].core < workers[l].core
  BY <1>0, <1>i DEF PlacementInv
<1>n. /\ \A d \in Slaves : d \in Nat /\ d \in cores /\ d # master
      /\ \A k \in Places : k \in Nat
      /\ core_id \in Nat /\ core_id + 1 <= CoreMax /\ core_id # MinusOne
  BY <1>0, <1>t, <1>p DEF Slaves
<1>q. \A k \in Places : workers[k] # None => workers[k].core \in Nat
  <2> SUFFICES ASSUME NEW k \in Places, workers[k] # None PROVE workers[k].core \in Nat
    OBVIOUS
  <2>1. k < i
    BY <1>n, <1>p, <1>t
  <2>2. workers[k].core \in Slaves
    BY <1>p, <2>1
  <2>. QED  BY <1>n, <2>2
<1>2. DOMAIN workers = Places /\ DOMAIN thread = Places /\ DOMAIN runsOn = Places
  BY <1>0, <1>i DEF PlacesInv
<1>3. /\ DOMAIN workers' = Places
      /\ \A k \in Places : workers'[k] = IF k = i THEN w ELSE workers[k]
  BY <1>0, <1>2
<1>4. /\ core_id' \in 0 .. CoreMax /\ core_id < core_id'
      /\ core_id' < CoreMax => core_id' \in Slaves
      /\ IsDpdk => \A d \in Slaves : d < core_id' <=> d < core_id \/ d = core_id
  <2>1. CASE ~ UseDpdk /\ Cardinality(cores) < 2
    <3>1. core_id' = CoreMax
      BY <1>0, <2>1 DEF CoresNext
    <3>. QED  BY <1>n, <1>t, <2>1, <3>1
  <2>2. CASE UseDpdk \/ ~ (Cardinality(cores) < 2)
    <3> DEFINE rest == Candidates(cores, master, core_id, TRUE)
    <3>1. \A d : d \in rest <=> d \in Slaves /\ d > core_id /\ d < CoreMax
      BY <1>0, <1>t DEF Candidates, Slaves
    <3>2. /\ rest = {} => core_id' = CoreMax
          /\ rest # {} => core_id' \in rest /\ \A e \in rest : core_id' <= e
      <4>1. cores \subseteq Nat
        BY <1>t
      <4>. QED  BY <1>0, <2>2, <4>1, CoresNextIsFirst
    <3> HIDE DEF rest
    <3>3. \A d \in Slaves : d \in Nat /\ (IsDpdk => d < CoreMax)
      BY <1>t, <1>p DEF Slaves
    <3>4. CASE rest = {}
      <4>1. IsDpdk => \A d \in Slaves : d < core_id' <=> d < core_id \/ d = core_id
        <5> SUFFICES ASSUME IsDpdk, NEW d \in Slaves
                     PROVE  d < CoreMax <=> d < core_id \/ d = core_id
          BY <3>2, <3>4
        <5>1. d \in Nat /\ d < CoreMax /\ ~ (d > core_id)
          BY <3>1, <3>3, <3>4
        <5>. QED  BY <1>n, <5>1
      <4>2. core_id' = CoreMax
        BY <3>2, <3>4
      <4>. QED  BY <1>n, <1>t, <4>1, <4>2
    <3>5. CASE rest # {}
      <4>1. core_id' \in Slaves /\ core_id' > core_id /\ core_id' < CoreMax
        BY <3>1, <3>2, <3>5
      <4>2. \A d \in Slaves : IsDpdk /\ d > core_id => core_id' <= d
        BY <3>1, <3>2, <3>3, <3>5
      <4>3. core_id' \in Nat /\ core_id \in Nat
        BY <1>p, <1>t, <3>3, <4>1
      <4>4. IsDpdk => \A d \in Slaves : d < core_id' <=> d < core_id \/ d = core_id
        BY <3>3, <4>1, <4>2, <4>3
      <4>. QED  BY <1>t, <4>1, <4>3, <4>4
    <3>. QED  BY <3>4, <3>5
  <2>. QED  BY <2>1, <2>2
<1>5. PlacesInv'
  <2>1. /\ core_id' \in 0 .. CoreMax \union {MinusOne} /\ i + 1 \in 0 .. N - 1
        /\ \A k \in Places : workers'[k] = None \/ workers'[k].core \in 0 .. CoreMax
    <3>1. core_id' \in 0 .. CoreMax \union {MinusOne} /\ i + 1 \in 0 .. N - 1
      <4>1. i + 1 \in 0 .. N - 1
        BY <1>0, <1>t
      <4>2. core_id' \in 0 .. CoreMax
        BY <1>4
      <4>. QED  BY <4>1, <4>2
    <3>2. \A k \in Places : workers[k] = None \/ workers[k].core \in 0 .. CoreMax
      BY <1>2, <1>i DEF PlacesInv
    <3>3. w.core \in 0 .. CoreMax
      BY <1>p, <1>w
    <3>. QED  BY <1>3, <3>1, <3>2, <3>3
  <2>. QED  BY <1>0, <1>1, <1>2, <1>3, <1>i, <2>1 DEF PlacesInv, Before, ParserStates
<1>6. PlacementInv'
  <2>1. IsDpdk => Cardinality({d \in Slaves : d < core_id'}) = i + 1
    <3> SUFFICES ASSUME IsDpdk
                 PROVE  Cardinality({d \in Slaves : d < core_id'}) = i + 1
      OBVIOUS
    <3> DEFINE before == {d \in Slaves : d < core_id}
    <3>1. {d \in Slaves : d < core_id'} = before \union {core_id}
      BY <1>4, <1>p
    <3>2. core_id \notin before
      BY <1>p
    <3>3. IsFiniteSet(before)
      <4>1. before \subseteq allowed
        BY <1>t DEF Slaves
      <4>. QED  BY <1>t, <4>1, FS_Subset
    <3>4. Cardinality(before) = i
      BY <1>p
    <3> HIDE DEF before
    <3>. QED  BY <3>1, <3>2, <3>3, <3>4, FS_AddElement
  <2>2. \A k \in Places :
          /\ k >= i + 1 => workers'[k] = None
          /\ k < i + 1 => /\ workers'[k] # None /\ workers'[k].core \in Slaves
                          /\ workers'[k].core < core_id' /\ workers'[k].core < CoreMax
    <3> SUFFICES ASSUME NEW k \in Places
                 PROVE  /\ k >= i + 1 => workers'[k] = None
                        /\ k < i + 1 =>
                             /\ workers'[k] # None /\ workers'[k].core \in Slaves
                             /\ workers'[k].core < core_id'
                             /\ workers'[k].core < CoreMax
      OBVIOUS
    <3>1. k \in Nat /\ core_id \in Nat /\ core_id' \in Nat
      BY <1>t, <1>p, <1>4
    <3>2. CASE k = i
      BY <1>0, <1>3, <1>4, <1>p, <1>t, <1>w, <3>1, <3>2
    <3>3. CASE k < i
      <4>1. /\ workers'[k] = workers[k] /\ workers[k] # None
            /\ workers[k].core \in Slaves /\ workers[k].core < core_id
            /\ workers[k].core < CoreMax /\ workers[k].core \in Nat
        BY <1>3, <1>p, <1>q, <1>t, <3>1, <3>3
      <4>. QED  BY <1>4, <1>t, <3>1, <3>3, <4>1
    <3>4. CASE k > i
      BY <1>3, <1>p, <1>t, <3>1, <3>4
    <3>. QED  BY <1>t, <3>1, <3>2, <3>3, <3>4
  <2>3. \A k, l \in Places : k < l /\ l < i + 1 => workers'[k].core < workers'[l].core
    <3> SUFFICES ASSUME NEW k \in Places, NEW l \in Places, k < l, l < i + 1
                 PROVE  workers'[k].core < workers'[l].core
      OBVIOUS
    <3>1. k \in Nat /\ l \in Nat
      BY <1>t
    <3>2. CASE l = i
      BY <1>3, <1>p, <1>t, <1>w, <3>1, <3>2
    <3>3. CASE l < i
      BY <1>3, <1>p, <1>t, <3>1, <3>3
    <3>. QED  BY <1>t, <3>1, <3>2, <3>3
  <2>4. PICK j \in Nat : j = i + 1
    BY <1>t
  <2>5. i' = j
    BY <1>0, <2>4
  <2>. QED
    BY <1>0, <1>1, <1>4, <1>p, <2>1, <2>2, <2>3, <2>4, <2>5 DEF PlacementInv
<1>7. WorkersInv'
  <2>1. \A k, l \in Places :
          k # l /\ workers'[k] # None /\ workers'[l] # None
            => workers'[k].core # workers'[l].core
    <3> SUFFICES ASSUME NEW k \in Places, NEW l \in Places, k # l,
                        workers'[k] # None, workers'[l] # None
                 PROVE  workers'[k].core # workers'[l].core
      OBVIOUS
    <3>1. k \in Nat /\ l \in Nat /\ core_id \in Nat
      BY <1>t, <1>p
    <3>2. CASE k = i
      <4>1. l < i
        BY <1>3, <1>p, <1>t, <3>1, <3>2
      <4>. QED  BY <1>3, <1>p, <1>q, <1>w, <3>1, <3>2, <4>1
    <3>3. CASE l = i
      <4>1. k < i
        BY <1>3, <1>p, <1>t, <3>1, <3>3
      <4>. QED  BY <1>3, <1>p, <1>q, <1>w, <3>1, <3>3, <4>1
    <3>4. CASE k # i /\ l # i
      BY <1>2, <1>3, <1>i, <3>4 DEF WorkersInv
    <3>. QED  BY <3>2, <3>3, <3>4
  <2>. QED  BY <1>0, <1>1, <1>3, <2>1 DEF WorkersInv
<1>8. AffinityInv' /\ LaunchInv'
  <2>1. DOMAIN thread' = Places /\ \A k \in Places : thread'[k] = "none"
    BY <1>0, <1>2, <1>p
  <2>. QED  BY <1>1, <2>1 DEF AffinityInv, LaunchInv
<1>. QED  BY <1>5, <1>6, <1>7, <1>8 DEF CoresInv

LEMMA PlaceMasterCores ==
  ASSUME ParserInv, KindInv, CoresInv, Rewrite, PlaceMaster
  PROVE  CoresInv'
<1> DEFINE w == [core |-> master, loop |-> Loops[i + 1]]
<1>0. /\ UNCHANGED << line, conf, allowed, fd, cores, master, core_id, thread,
                      runsOn, clock >>
      /\ pc = "place" /\ pc' = "start" /\ (core_id >= CoreMax \/ i >= N - 1)
      /\ workers' = [workers EXCEPT ![i] = w] /\ i' = 0
  BY DEF PlaceMaster, argVars
<1>w. w # None /\ w.core = master
  BY PlacedIsNotNone
<1> HIDE DEF w
<1>1. /\ N' = N /\ Places' = Places /\ Rewrite' = Rewrite /\ IsDpdk' = IsDpdk
      /\ Lcores' = Lcores
  BY <1>0, LineKept DEF Lcores
<1>t. /\ N \in {1, 3} /\ N \in Nat /\ Places = 0 .. N - 1 /\ i \in Places /\ i \in Nat
      /\ N - 1 \in Places
      /\ MinusOne \in Nat /\ CoreMax \in Nat \ {0} /\ CoreMax <= MinusOne
      /\ IsFiniteSet(allowed) /\ \A c \in Lcores : c < CoreMax
      /\ cores \subseteq allowed /\ allowed \subseteq Nat /\ Lcores \subseteq allowed
      /\ (UseDpdk <=> IsDpdk)
  BY <1>0, CoresFacts
<1>i. PlacesInv /\ PlacementInv /\ WorkersInv /\ AffinityInv
  BY DEF CoresInv
<1>p. /\ IsDpdk => /\ cores = Lcores /\ master \in Lcores /\ N <= Cardinality(cores)
                   /\ Cardinality({d \in Slaves : d < core_id}) = i
      /\ core_id \in 0 .. CoreMax
      /\ \A k \in Places :
           /\ thread[k] = "none"
           /\ k >= i => workers[k] = None
           /\ k < i => /\ workers[k] # None /\ workers[k].core \in Slaves
                       /\ master \in cores
  BY <1>0, <1>i DEF PlacementInv
<1>2. DOMAIN workers = Places /\ DOMAIN thread = Places /\ DOMAIN runsOn = Places
  BY <1>0, <1>i DEF PlacesInv
<1>3. /\ DOMAIN workers' = Places
      /\ \A k \in Places : workers'[k] = IF k = i THEN w ELSE workers[k]
  BY <1>0, <1>2
<1>4. IsDpdk => i = N - 1
  <2> SUFFICES ASSUME IsDpdk, core_id >= CoreMax PROVE i >= N - 1
    BY <1>0, <1>t
  <2>1. {d \in Slaves : d < core_id} = Slaves
    <3>1. core_id = CoreMax
      BY <1>t, <1>p
    <3>2. \A d \in Slaves : d < CoreMax
      BY <1>t, <1>p DEF Slaves
    <3>. QED  BY <3>1, <3>2
  <2>2. Cardinality(Slaves) = i /\ master \in cores
    BY <1>p, <2>1
  <2>3. IsFiniteSet(cores) /\ Cardinality(cores) \in Nat
    BY <1>t, FS_Subset, FS_CardinalityType
  <2>4. Cardinality(Slaves) = Cardinality(cores) - 1
    BY <2>2, <2>3, FS_RemoveElement DEF Slaves
  <2>. QED  BY <1>t, <1>p, <2>2, <2>3, <2>4
<1>5. PlacesInv'
  <2>1. /\ 0 \in 0 .. N - 1
        /\ \A k \in Places : workers'[k] = None \/ workers'[k].core \in 0 .. CoreMax
    BY <1>0, <1>2, <1>3, <1>i, <1>t, <1>w DEF PlacesInv
  <2>. QED
    BY <1>0, <1>1, <1>2, <1>3, <1>i, <2>1 DEF PlacesInv, Before, Later, ParserStates
<1>6. WorkersInv'
  <2>1. \A k, l \in Places :
          k # l /\ workers'[k] # None /\ workers'[l] # None
            => workers'[k].core # workers'[l].core
    <3> SUFFICES ASSUME NEW k \in Places, NEW l \in Places, k # l,
                        workers'[k] # None, workers'[l] # None
                 PROVE  workers'[k].core # workers'[l].core
      OBVIOUS
    <3>1. k \in Nat /\ l \in Nat
      BY <1>t
    <3>2. CASE k = i
      <4>1. l < i
        BY <1>3, <1>p, <1>t, <3>1, <3>2
      <4>. QED  BY <1>3, <1>p, <1>w, <3>1, <3>2, <4>1 DEF Slaves
    <3>3. CASE l = i
      <4>1. k < i
        BY <1>3, <1>p, <1>t, <3>1, <3>3
      <4>. QED  BY <1>3, <1>p, <1>w, <3>1, <3>3, <4>1 DEF Slaves
    <3>4. CASE k # i /\ l # i
      BY <1>2, <1>3, <1>i, <3>4 DEF WorkersInv
    <3>. QED  BY <3>2, <3>3, <3>4
  <2>2. N > 1 /\ workers'[N - 1] # None => workers'[N - 1].core \in allowed
    <3> SUFFICES ASSUME N > 1, workers'[N - 1] # None
                 PROVE  workers'[N - 1].core \in allowed
      OBVIOUS
    <3>1. i = N - 1
      BY <1>3, <1>p, <1>t
    <3>2. 0 \in Places /\ 0 < i
      BY <1>t, <3>1
    <3>3. master \in allowed
      BY <1>p, <1>t, <3>2
    <3>. QED  BY <1>3, <1>t, <1>w, <3>1, <3>3
  <2>3. IsDpdk => \A k \in Places : workers'[k] # None /\ workers'[k].core \in allowed
    <3> SUFFICES ASSUME IsDpdk, NEW k \in Places
                 PROVE  workers'[k] # None /\ workers'[k].core \in allowed
      OBVIOUS
    <3>1. CASE k = i
      BY <1>3, <1>p, <1>t, <1>w, <3>1
    <3>2. CASE k # i
      <4>1. k < i
        BY <1>4, <1>t, <3>2
      <4>. QED  BY <1>3, <1>p, <1>t, <3>2, <4>1 DEF Slaves
    <3>. QED  BY <3>1, <3>2
  <2>. QED  BY <1>0, <1>1, <1>3, <2>1, <2>2, <2>3 DEF WorkersInv
<1>7. AffinityInv' /\ LaunchInv' /\ PlacementInv'
  <2>1. DOMAIN thread' = Places /\ \A k \in Places : thread'[k] = "none"
    BY <1>0, <1>2, <1>p
  <2>. QED  BY <1>0, <1>1, <2>1 DEF AffinityInv, LaunchInv, PlacementInv
<1>. QED  BY <1>5, <1>6, <1>7 DEF CoresInv

LEMMA SocketCores ==
  ASSUME CoresInv, (Rewrite /\ InitializeSocket) \/ SocketFails
  PROVE  CoresInv'
<1>0. /\ UNCHANGED << line, allowed, cores, master, core_id, i, workers, thread,
                      runsOn, clock >>
      /\ pc = "socket" /\ pc' \in {"cores", "exited"} /\ (pc' = "cores" => Rewrite)
      /\ fd' \in {fd, "blocking", "nonblocking"}
  BY DEF InitializeSocket, SocketFails, SockCreateDgram, SockCreateRaw, DpdkInit,
         argVars, startVars
<1>1. /\ N' = N /\ Places' = Places /\ Rewrite' = Rewrite /\ IsDpdk' = IsDpdk
      /\ Lcores' = Lcores
  BY <1>0, LineKept DEF Lcores
<1>2. DOMAIN workers = {} /\ DOMAIN thread = {}
  BY <1>0 DEF CoresInv, PlacesInv, Before
<1>3. PlacesInv'
  BY <1>0, <1>1, <1>2 DEF CoresInv, PlacesInv, Before, Later, ParserStates
<1>4. PlacementInv' /\ WorkersInv' /\ LaunchInv' /\ AffinityInv'
  BY <1>0, <1>1, <1>2 DEF PlacementInv, WorkersInv, LaunchInv, AffinityInv
<1>. QED  BY <1>3, <1>4 DEF CoresInv

LEMMA ThreadStartCores ==
  ASSUME ParserInv, KindInv, CoresInv, Rewrite, ThreadStart
  PROVE  CoresInv'
<1>0. /\ UNCHANGED << line, conf, pc, allowed, fd, cores, master, core_id, workers,
                      clock >>
      /\ pc = "start" /\ i < N - 1 /\ i' = i + 1
      /\ thread' = [thread EXCEPT ![i] = IF UseDpdk THEN "body" ELSE "starter"]
      /\ runsOn' = [runsOn EXCEPT ![i] = IF UseDpdk THEN {workers[i].core} ELSE @]
  BY DEF ThreadStart, argVars
<1>1. /\ N' = N /\ Places' = Places /\ Rewrite' = Rewrite /\ IsDpdk' = IsDpdk
      /\ Lcores' = Lcores
  BY <1>0, LineKept DEF Lcores
<1>t. /\ N \in Nat /\ Places = 0 .. N - 1 /\ i \in Places /\ i \in Nat
      /\ (UseDpdk <=> IsDpdk)
  BY <1>0, CoresFacts
<1>i. PlacesInv /\ WorkersInv /\ AffinityInv
  BY DEF CoresInv
<1>2. DOMAIN workers = Places /\ DOMAIN thread = Places /\ DOMAIN runsOn = Places
  BY <1>0, <1>i DEF PlacesInv
<1>3. /\ DOMAIN thread' = Places /\ DOMAIN runsOn' = Places
      /\ \A k \in Places :
           /\ thread'[k] = IF k = i THEN (IF UseDpdk THEN "body" ELSE "starter")
                           ELSE thread[k]
           /\ runsOn'[k] = IF k = i /\ UseDpdk THEN {workers[i].core} ELSE runsOn[k]
  BY <1>0, <1>2
<1>4. UseDpdk => workers[i] # None /\ workers[i].core \in allowed
  BY <1>0, <1>i, <1>t DEF WorkersInv
<1>5. PlacesInv'
  <2>1. i + 1 \in 0 .. N - 1
    BY <1>0, <1>t
  <2>2. \A k \in Places :
          /\ thread'[k] \in States
          /\ runsOn'[k] = allowed \/ \E c \in allowed : runsOn'[k] = {c}
    BY <1>2, <1>3, <1>4, <1>i DEF PlacesInv, States
  <2>. QED
    BY <1>0, <1>1, <1>2, <1>3, <1>i, <2>1, <2>2 DEF PlacesInv, Before, ParserStates
<1>6. AffinityInv'
  BY <1>0, <1>1, <1>2, <1>3, <1>i DEF AffinityInv
<1>7. WorkersInv' /\ PlacementInv' /\ LaunchInv'
  BY <1>0, <1>1, <1>i DEF WorkersInv, PlacementInv, LaunchInv
<1>. QED  BY <1>5, <1>6, <1>7 DEF CoresInv

LEMMA StartMasterCores ==
  ASSUME ParserInv, KindInv, CoresInv, Rewrite, StartMaster
  PROVE  CoresInv'
<1>0. /\ UNCHANGED << line, conf, allowed, fd, cores, master, core_id, i, workers,
                      clock >>
      /\ pc = "start" /\ pc' = "started"
      /\ runsOn' = [runsOn EXCEPT ![N - 1] =
           IF workers[N - 1] # None
              /\ (UseDpdk \/ workers[N - 1].core \in allowed)
           THEN {workers[N - 1].core} ELSE @]
      /\ thread' = [thread EXCEPT ![N - 1] = "body"]
  BY DEF StartMaster, argVars
<1>1. /\ N' = N /\ Places' = Places /\ Rewrite' = Rewrite /\ IsDpdk' = IsDpdk
      /\ Lcores' = Lcores
  BY <1>0, LineKept DEF Lcores
<1>t. /\ N \in Nat /\ Places = 0 .. N - 1 /\ N - 1 \in Places
      /\ (UseDpdk <=> IsDpdk)
  BY <1>0, CoresFacts
<1>i. PlacesInv /\ WorkersInv /\ AffinityInv
  BY DEF CoresInv
<1>2. DOMAIN workers = Places /\ DOMAIN thread = Places /\ DOMAIN runsOn = Places
  BY <1>0, <1>i DEF PlacesInv
<1> DEFINE last == N - 1
           moved == workers[last] # None /\ (UseDpdk \/ workers[last].core \in allowed)
<1>3. /\ DOMAIN thread' = Places /\ DOMAIN runsOn' = Places
      /\ \A k \in Places :
           /\ thread'[k] = IF k = last THEN "body" ELSE thread[k]
           /\ runsOn'[k] = IF k = last /\ moved THEN {workers[last].core}
                           ELSE runsOn[k]
  BY <1>0, <1>2
<1>4. moved => workers[last].core \in allowed
  BY <1>0, <1>i, <1>t DEF WorkersInv
<1>5. N > 1 /\ workers[last] # None => moved
  <2>1. DOMAIN workers # {}
    BY <1>2, <1>t
  <2>. QED  BY <1>0, <1>i, <2>1 DEF WorkersInv
<1>l. last \in Places
  BY <1>t
<1> HIDE DEF last, moved
<1>6. PlacesInv'
  <2>1. \A k \in Places :
          /\ thread'[k] \in States
          /\ runsOn'[k] = allowed \/ \E c \in allowed : runsOn'[k] = {c}
    BY <1>2, <1>3, <1>4, <1>i DEF PlacesInv, States
  <2>. QED
    BY <1>0, <1>1, <1>2, <1>3, <1>i, <2>1
       DEF PlacesInv, Before, Later, ParserStates
<1>7. AffinityInv'
  <2> SUFFICES ASSUME NEW k \in Places
               PROVE  /\ thread'[k] \in {"running", "unclocked"} => workers[k] # None
                      /\ thread'[k] \in {"body", "running", "unclocked"}
                           /\ workers[k] # None /\ N > 1
                         => runsOn'[k] = {workers[k].core}
    BY <1>0, <1>1, <1>3 DEF AffinityInv
  <2>1. CASE k = last
    BY <1>3, <1>5, <2>1
  <2>2. CASE k # last
    BY <1>2, <1>3, <1>i, <2>2 DEF AffinityInv
  <2>. QED  BY <2>1, <2>2
<1>8. WorkersInv' /\ PlacementInv' /\ LaunchInv'
  BY <1>0, <1>1, <1>i DEF WorkersInv, PlacementInv, LaunchInv
<1>. QED  BY <1>6, <1>7, <1>8 DEF CoresInv

(* The threads of either program, and what stops the process. *)
LEMMA ThreadCores ==
  ASSUME CoresInv, NEW k \in DOMAIN thread,
         \/ Rewrite /\ (ThreadStarter(k) \/ LoopBegins(k))
         \/ ~ Rewrite /\ TestappLoopBegins(k)
  PROVE  CoresInv'
<1>0. /\ UNCHANGED << line, conf, pc, allowed, fd, cores, master, core_id, i,
                      workers >>
      /\ clock' \in BOOLEAN
  BY DEF ThreadStarter, LoopBegins, TestappLoopBegins, argVars, CoresInv, PlacesInv
<1>1. /\ N' = N /\ Places' = Places /\ Rewrite' = Rewrite /\ IsDpdk' = IsDpdk
      /\ Lcores' = Lcores /\ Slaves' = Slaves
  BY <1>0, LineKept DEF Lcores, Slaves
<1>i. PlacesInv /\ PlacementInv /\ WorkersInv /\ LaunchInv /\ AffinityInv
  BY DEF CoresInv
<1>2. DOMAIN thread = DOMAIN workers /\ DOMAIN runsOn = DOMAIN workers
  BY <1>i DEF PlacesInv
<1>3. \E t, r :
        /\ t \in States \ {"none"}
        /\ thread' = [thread EXCEPT ![k] = t] /\ DOMAIN runsOn' = DOMAIN runsOn
        /\ \A l \in DOMAIN runsOn : runsOn'[l] = IF l = k THEN r ELSE runsOn[l]
        /\ thread[k] # "none"
        /\ t \in {"running", "unclocked"} => thread[k] = "body" /\ r = runsOn[k]
        /\ t = "running" /\ Rewrite => workers[k] # None
        /\ t = "body" => workers[k] # None /\ r = {workers[k].core}
        /\ r = runsOn[k] \/ \E c \in allowed : r = {c}
        /\ t = "unclocked" => ~ Rewrite
  <2>2. CASE Rewrite /\ ThreadStarter(k)
    <3>1. CASE workers[k] # None /\ workers[k].core \in allowed
      <4>1. /\ thread' = [thread EXCEPT ![k] = "body"]
            /\ runsOn' = [runsOn EXCEPT ![k] = {workers[k].core}]
            /\ thread[k] = "starter" /\ "body" \in States \ {"none"}
        BY <2>2, <3>1 DEF ThreadStarter, States
      <4>. QED  BY <3>1, <4>1
    <3>2. CASE ~ (workers[k] # None /\ workers[k].core \in allowed)
      <4>1. /\ thread' = [thread EXCEPT ![k] = "returned"] /\ runsOn' = runsOn
            /\ thread[k] = "starter" /\ "returned" \in States \ {"none"}
        BY <2>2, <3>2 DEF ThreadStarter, States
      <4>. QED  BY <4>1
    <3>. QED  BY <3>1, <3>2
  <2>3. CASE Rewrite /\ LoopBegins(k)
    <3>1. /\ thread' = [thread EXCEPT ![k] = "running"] /\ runsOn' = runsOn
          /\ thread[k] = "body" /\ workers[k] # None
          /\ "running" \in States \ {"none"}
      BY <2>3 DEF LoopBegins, States
    <3>2. \A l \in DOMAIN runsOn :
            runsOn'[l] = IF l = k THEN runsOn[k] ELSE runsOn[l]
      BY <3>1
    <3>3. runsOn[k] = allowed \/ \E c \in allowed : runsOn[k] = {c}
      BY <1>i, <1>2 DEF PlacesInv
    <3> WITNESS "running", runsOn[k]
    <3>. QED  BY <3>1, <3>2, <3>3
  <2>4. CASE ~ Rewrite /\ TestappLoopBegins(k)
    <3>1. PICK t \in {"running", "unclocked"} :
            thread' = [thread EXCEPT ![k] = t]
      BY <2>4 DEF TestappLoopBegins
    <3>2. runsOn' = runsOn /\ thread[k] = "body" /\ t \in States \ {"none"}
      BY <2>4, <3>1 DEF TestappLoopBegins, States
    <3>. QED  BY <2>4, <3>1, <3>2
  <2>. QED  BY <2>2, <2>3, <2>4
<1>4. PICK t, r :
        /\ t \in States \ {"none"}
        /\ thread' = [thread EXCEPT ![k] = t] /\ DOMAIN runsOn' = DOMAIN runsOn
        /\ \A l \in DOMAIN runsOn : runsOn'[l] = IF l = k THEN r ELSE runsOn[l]
        /\ thread[k] # "none"
        /\ t \in {"running", "unclocked"} => thread[k] = "body" /\ r = runsOn[k]
        /\ t = "running" /\ Rewrite => workers[k] # None
        /\ t = "body" => workers[k] # None /\ r = {workers[k].core}
        /\ r = runsOn[k] \/ \E c \in allowed : r = {c}
        /\ t = "unclocked" => ~ Rewrite
  BY <1>3
<1>5. /\ DOMAIN thread' = DOMAIN workers /\ DOMAIN runsOn' = DOMAIN workers
      /\ \A l \in DOMAIN workers : /\ thread'[l] = IF l = k THEN t ELSE thread[l]
                                   /\ runsOn'[l] = IF l = k THEN r ELSE runsOn[l]
  BY <1>2, <1>4
<1>w. ~ Rewrite /\ IsDpdk /\ thread[k] = "body" => workers[k] # None
  BY <1>i DEF AffinityInv
<1>6. PlacesInv'
  <2>1. \A l \in DOMAIN workers :
          /\ thread'[l] \in States
          /\ runsOn'[l] = allowed \/ \E c \in allowed : runsOn'[l] = {c}
    BY <1>2, <1>4, <1>5, <1>i DEF PlacesInv
  <2>. QED  BY <1>0, <1>1, <1>2, <1>5, <1>i, <2>1 DEF PlacesInv
<1>7. AffinityInv'
  <2> SUFFICES ASSUME Rewrite \/ IsDpdk, NEW l \in DOMAIN workers
               PROVE  /\ thread'[l] \in {"running", "unclocked"} => workers[l] # None
                      /\ thread'[l] = "body" /\ ~ Rewrite => workers[l] # None
                      /\ thread'[l] \in {"body", "running", "unclocked"}
                           /\ workers[l] # None /\ N > 1
                         => runsOn'[l] = {workers[l].core}
    BY <1>0, <1>1, <1>5 DEF AffinityInv
  <2>1. CASE l = k
    BY <1>2, <1>4, <1>5, <1>i, <1>w, <2>1 DEF AffinityInv
  <2>2. CASE l # k
    BY <1>2, <1>5, <1>i, <2>2 DEF AffinityInv
  <2>. QED  BY <2>1, <2>2
<1>8. PlacementInv'
  <2>1. pc # "place"
    BY <1>2, <1>4, <1>i DEF PlacementInv, PlacesInv
  <2>. QED  BY <1>0, <2>1 DEF PlacementInv
<1>9. WorkersInv'
  BY <1>0, <1>1, <1>i DEF WorkersInv
<1>10. LaunchInv'
  <2> SUFFICES ASSUME ~ Rewrite, IsDpdk, pc \in {"start", "sleep"}
               PROVE  LaunchInv'
    BY <1>0, <1>1 DEF LaunchInv
  <2>1. DOMAIN workers = Places
    BY <1>i DEF PlacesInv
  <2>2. \A l \in Places : l >= i => thread'[l] = "none"
    BY <1>2, <1>4, <1>5, <1>i, <2>1 DEF LaunchInv
  <2>. QED  BY <1>0, <1>1, <1>i, <2>2 DEF LaunchInv
<1>. QED  BY <1>6, <1>7, <1>8, <1>9, <1>10 DEF CoresInv

LEMMA OpensCores ==
  ASSUME ParserInv, KindInv, CoresInv, ~ Rewrite, Opens
  PROVE  CoresInv'
<1>0. /\ UNCHANGED << line, allowed, i, clock >> /\ pc = "socket" /\ pc' = "start"
      /\ fd' \in {fd, "nonblocking"} /\ core_id' = MinusOne
      /\ IsDpdk => cores' = Lcores /\ master' \in Lcores
      /\ ~ IsDpdk => cores' = cores /\ master' = master
      /\ workers' = [k \in Places |-> None] /\ thread' = [k \in Places |-> "none"]
      /\ runsOn' = [k \in Places |-> allowed]
  BY DEF Opens, SockCreate, Dgram, Raw, PortInit, argVars
<1>1. /\ N' = N /\ Places' = Places /\ Rewrite' = Rewrite /\ IsDpdk' = IsDpdk
      /\ Lcores' = Lcores
  BY <1>0, LineKept DEF Lcores
<1>t. /\ Places = 0 .. N - 1 /\ N - 1 \in Places /\ i = 0 /\ N \in Nat
      /\ CoreMax \in Nat \ {0} /\ MinusOne \in Nat
      /\ allowed \subseteq Nat /\ Lcores \subseteq allowed
      /\ \A c \in Lcores : c < CoreMax
  BY <1>0, CoresFacts DEF CoresInv, PlacesInv, Before
<1>2. /\ DOMAIN workers' = Places /\ DOMAIN thread' = Places /\ DOMAIN runsOn' = Places
      /\ \A k \in Places : /\ workers'[k] = None /\ thread'[k] = "none"
                           /\ runsOn'[k] = allowed
  BY <1>0
<1>3. PlacesInv'
  <2>1. master' \in 0 .. CoreMax
    <3>1. CASE IsDpdk
      <4>1. master' \in Nat /\ master' < CoreMax
        BY <1>0, <1>t, <3>1
      <4>. QED  BY <1>t, <4>1
    <3>2. CASE ~ IsDpdk
      BY <1>0, <3>2 DEF CoresInv, PlacesInv
    <3>. QED  BY <3>1, <3>2
  <2>2. /\ cores' \in {allowed, Lcores, {}}
        /\ fd' \in {"closed", "blocking", "nonblocking"}
    BY <1>0 DEF CoresInv, PlacesInv
  <2>. QED
    BY <1>0, <1>1, <1>2, <2>1, <2>2
       DEF CoresInv, PlacesInv, Before, Later, ParserStates, States
<1>4. LaunchInv'
  <2>1. \A k \in Places : k >= 0 /\ ~ (k < 0)
    BY <1>t
  <2>2. \A k \in Places : \A l \in Places : ~ (k < l /\ l < 0)
    BY <1>t
  <2>. QED  BY <1>0, <1>1, <1>2, <1>t, <2>1, <2>2 DEF LaunchInv
<1>5. PlacementInv' /\ WorkersInv' /\ AffinityInv'
  BY <1>0, <1>1, <1>2 DEF PlacementInv, WorkersInv, AffinityInv
<1>. QED  BY <1>3, <1>4, <1>5 DEF CoresInv

LEMMA PthreadCreateCores ==
  ASSUME ParserInv, KindInv, CoresInv, ~ Rewrite, PthreadCreate
  PROVE  CoresInv'
<1> DEFINE w == [core |-> 0, loop |-> Loops[i + 1]]
<1>0. /\ UNCHANGED << line, allowed, fd, cores, master, core_id, runsOn, clock >>
      /\ pc = "start" /\ pc' \in {"sleep", "start"} /\ i < N - 1 /\ ~ IsDpdk
      /\ \E t \in {"body", "refused"} : thread' = [thread EXCEPT ![i] = t]
      /\ workers' = [workers EXCEPT ![i] = w] /\ i' = i + 1
  BY DEF PthreadCreate, argVars
<1>w. w.core = 0
  OBVIOUS
<1> HIDE DEF w
<1>1. /\ N' = N /\ Places' = Places /\ Rewrite' = Rewrite /\ IsDpdk' = IsDpdk
      /\ Lcores' = Lcores
  BY <1>0, LineKept DEF Lcores
<1>t. /\ Places = 0 .. N - 1 /\ i \in Places /\ i \in Nat /\ N \in Nat
      /\ CoreMax \in Nat \ {0}
  BY CoresFacts
<1>2. PlacesInv /\ DOMAIN workers = Places /\ DOMAIN thread = Places
  BY <1>0 DEF CoresInv, PlacesInv
<1>3. /\ DOMAIN workers' = Places /\ DOMAIN thread' = Places
      /\ \A k \in Places :
           /\ workers'[k] = IF k = i THEN w ELSE workers[k]
           /\ thread'[k] \in {thread[k], "body", "refused"}
  BY <1>0, <1>2
<1>4. PlacesInv'
  <2>1. i + 1 \in 0 .. N - 1 /\ 0 \in 0 .. CoreMax
    BY <1>0, <1>t
  <2>2. \A k \in Places : /\ workers'[k] = None \/ workers'[k].core \in 0 .. CoreMax
                          /\ thread'[k] \in States
    BY <1>2, <1>3, <1>w, <2>1 DEF PlacesInv, States
  <2>. QED
    BY <1>0, <1>1, <1>2, <1>3, <2>1, <2>2
       DEF PlacesInv, Before, Later, ParserStates
<1>5. PlacementInv' /\ WorkersInv' /\ LaunchInv' /\ AffinityInv'
  BY <1>0, <1>1 DEF PlacementInv, WorkersInv, LaunchInv, AffinityInv
<1>. QED  BY <1>4, <1>5 DEF CoresInv

(* rte_eal_remote_launch on the next lcore, or the main loop on the master. *)
LEMMA RemoteLaunchCores ==
  ASSUME ParserInv, KindInv, CoresInv, ~ Rewrite, RemoteLaunch
  PROVE  CoresInv'
<1> DEFINE w == [core |-> core_id', loop |-> Loops[i + 1]]
<1>0. /\ UNCHANGED << line, allowed, fd, cores, master, clock >>
      /\ pc = "start" /\ pc' \in {"sleep", "start"} /\ i < N - 1 /\ IsDpdk
      /\ core_id' = NextLcore(core_id) /\ core_id' # CoreMax
      /\ workers' = [workers EXCEPT ![i] = w] /\ i' = i + 1
      /\ runsOn' = [runsOn EXCEPT ![i] = {core_id'}]
      /\ thread' = [thread EXCEPT ![i] = "body"]
  BY DEF RemoteLaunch, argVars
<1>w. w # None /\ w.core = core_id'
  BY PlacedIsNotNone
<1> HIDE DEF w
<1>1. /\ N' = N /\ Places' = Places /\ Rewrite' = Rewrite /\ IsDpdk' = IsDpdk
      /\ Lcores' = Lcores /\ Slaves' = Slaves
  BY <1>0, LineKept DEF Lcores, Slaves
<1>t. /\ Places = 0 .. N - 1 /\ i \in Places /\ i \in Nat /\ N \in Nat
      /\ CoreMax \in Nat \ {0} /\ MinusOne \in Nat
      /\ allowed \subseteq Nat /\ Lcores \subseteq allowed /\ cores \subseteq allowed
      /\ \A c \in allowed : c < MinusOne
      /\ \A c \in Lcores : c < CoreMax
  BY CoresFacts
<1>i. PlacesInv /\ WorkersInv /\ LaunchInv /\ AffinityInv
  BY DEF CoresInv
<1>2. DOMAIN workers = Places /\ DOMAIN thread = Places /\ DOMAIN runsOn = Places
  BY <1>0, <1>i DEF PlacesInv
<1>p. /\ cores = Lcores /\ master \in Lcores
      /\ i > 0 => core_id \in Slaves
      /\ \A k \in Places :
           /\ k >= i => workers[k] = None /\ thread[k] = "none"
           /\ k < i => /\ workers[k] # None /\ workers[k].core \in Slaves
                       /\ workers[k].core <= core_id
      /\ \A k, l \in Places : k < l /\ l < i => workers[k].core < workers[l].core
  BY <1>0, <1>i DEF LaunchInv
<1>n. /\ \A d \in Slaves : /\ d \in Nat /\ d < MinusOne /\ d \in Lcores
                           /\ d < CoreMax /\ d # master
      /\ \A k \in Places : k \in Nat
  <2>1. \A d \in Slaves : d \in Lcores /\ d # master
    BY <1>p DEF Slaves
  <2>2. \A d \in Lcores : d \in allowed /\ d \in Nat /\ d < CoreMax
    BY <1>t
  <2>3. \A d \in Slaves : d < MinusOne
    BY <1>t, <2>1, <2>2
  <2>4. \A k \in Places : k \in Nat
    BY <1>t
  <2>. QED  BY <2>1, <2>2, <2>3, <2>4
<1>3. /\ DOMAIN workers' = Places /\ DOMAIN thread' = Places /\ DOMAIN runsOn' = Places
      /\ \A k \in Places :
           /\ workers'[k] = IF k = i THEN w ELSE workers[k]
           /\ thread'[k] = IF k = i THEN "body" ELSE thread[k]
           /\ runsOn'[k] = IF k = i THEN {core_id'} ELSE runsOn[k]
  BY <1>0, <1>2
<1>4. /\ core_id' \in Slaves
      /\ i > 0 => core_id \in Nat /\ core_id' > core_id
  <2>1. /\ core_id' \in cores /\ core_id' # master
        /\ core_id = MinusOne \/ core_id' > core_id
    <3>1. cores \subseteq Nat
      BY <1>t
    <3>. QED  BY <1>0, <3>1, NextLcoreIsFirst
  <2>2. i > 0 => core_id \in Nat /\ core_id # MinusOne
    BY <1>n, <1>p, <1>t
  <2>. QED  BY <2>1, <2>2 DEF Slaves
<1>5. \A k \in Places : k < i =>
        /\ workers[k] # None /\ workers[k].core \in Nat /\ workers[k].core \in Slaves
        /\ workers[k].core < core_id'
  <2> SUFFICES ASSUME NEW k \in Places, k < i
               PROVE  /\ workers[k] # None /\ workers[k].core \in Nat
                      /\ workers[k].core \in Slaves
                      /\ workers[k].core < core_id'
    OBVIOUS
  <2>1. i > 0
    BY <1>n, <1>t
  <2>2. /\ workers[k] # None /\ workers[k].core \in Slaves
        /\ workers[k].core <= core_id
    BY <1>p
  <2>. QED  BY <1>4, <1>n, <2>1, <2>2
<1>6. PlacesInv'
  <2>1. i + 1 \in 0 .. N - 1 /\ core_id' \in 0 .. CoreMax /\ core_id' \in allowed
    BY <1>0, <1>4, <1>n, <1>t
  <2>2. \A k \in Places :
          /\ workers'[k] = None \/ workers'[k].core \in 0 .. CoreMax
          /\ thread'[k] \in States
          /\ runsOn'[k] = allowed \/ \E c \in allowed : runsOn'[k] = {c}
    BY <1>2, <1>3, <1>i, <1>w, <2>1 DEF PlacesInv, States
  <2>3. core_id' \in 0 .. CoreMax \union {MinusOne}
    BY <2>1
  <2>. QED
    BY <1>0, <1>1, <1>2, <1>3, <1>i, <2>1, <2>2, <2>3
       DEF PlacesInv, Before, Later, ParserStates
<1>7. LaunchInv'
  <2>1. PICK j \in Nat : j = i + 1
    BY <1>t
  <2>2. i' = j
    BY <1>0, <2>1
  <2>3. \A k \in Places :
          /\ k >= j => workers'[k] = None /\ thread'[k] = "none"
          /\ k < j => /\ workers'[k] # None /\ workers'[k].core \in Slaves
                      /\ workers'[k].core <= core_id'
    <3> SUFFICES ASSUME NEW k \in Places
                 PROVE  /\ k >= j => workers'[k] = None /\ thread'[k] = "none"
                        /\ k < j => /\ workers'[k] # None
                                    /\ workers'[k].core \in Slaves
                                    /\ workers'[k].core <= core_id'
      OBVIOUS
    <3>1. CASE k = i
      BY <1>3, <1>4, <1>n, <1>t, <1>w, <2>1, <3>1
    <3>2. CASE k < i
      BY <1>3, <1>4, <1>5, <1>n, <1>t, <2>1, <3>2
    <3>3. CASE k > i
      BY <1>3, <1>n, <1>p, <1>t, <2>1, <3>3
    <3>. QED  BY <1>n, <1>t, <3>1, <3>2, <3>3
  <2>4. \A k, l \in Places : k < l /\ l < j => workers'[k].core < workers'[l].core
    <3> SUFFICES ASSUME NEW k \in Places, NEW l \in Places, k < l, l < j
                 PROVE  workers'[k].core < workers'[l].core
      OBVIOUS
    <3>1. CASE l = i
      BY <1>3, <1>5, <1>n, <1>t, <1>w, <3>1
    <3>2. CASE l < i
      BY <1>3, <1>n, <1>p, <1>t, <3>2
    <3>. QED  BY <1>n, <1>t, <2>1, <3>1, <3>2
  <2>. QED  BY <1>0, <1>1, <1>4, <1>p, <2>2, <2>3, <2>4 DEF LaunchInv
<1>8. WorkersInv'
  <2> SUFFICES ASSUME NEW k \in Places, NEW l \in Places, k # l,
                      workers'[k] # None, workers'[l] # None
               PROVE  workers'[k].core # workers'[l].core
    BY <1>1, <1>3 DEF WorkersInv
  <2>1. CASE k = i
    <3>1. l < i
      BY <1>3, <1>n, <1>p, <1>t, <2>1
    <3>. QED  BY <1>3, <1>4, <1>5, <1>n, <1>w, <2>1, <3>1
  <2>2. CASE l = i
    <3>1. k < i
      BY <1>3, <1>n, <1>p, <1>t, <2>2
    <3>. QED  BY <1>3, <1>4, <1>5, <1>n, <1>w, <2>2, <3>1
  <2>3. CASE k # i /\ l # i
    BY <1>0, <1>2, <1>3, <1>i, <2>3 DEF WorkersInv
  <2>. QED  BY <2>1, <2>2, <2>3
<1>9. AffinityInv'
  <2> SUFFICES ASSUME NEW k \in Places
               PROVE  /\ thread'[k] \in {"running", "unclocked"} => workers'[k] # None
                      /\ thread'[k] = "body" /\ ~ Rewrite => workers'[k] # None
                      /\ thread'[k] \in {"body", "running", "unclocked"}
                           /\ workers'[k] # None /\ N > 1
                         => runsOn'[k] = {workers'[k].core}
    BY <1>1, <1>3 DEF AffinityInv
  <2>1. CASE k = i
    BY <1>3, <1>w, <2>1
  <2>2. CASE k # i
    BY <1>0, <1>2, <1>3, <1>i, <2>2 DEF AffinityInv
  <2>. QED  BY <2>1, <2>2
<1>10. PlacementInv'
  BY <1>0 DEF PlacementInv
<1>. QED  BY <1>6, <1>7, <1>8, <1>9, <1>10 DEF CoresInv

LEMMA MainLoopCores ==
  ASSUME ParserInv, KindInv, CoresInv, ~ Rewrite, MainLoop
  PROVE  CoresInv'
<1> DEFINE w == [core |-> master, loop |-> Loops[i + 1]]
<1>0. /\ UNCHANGED << line, allowed, fd, cores, master, core_id, i, clock >>
      /\ pc = "start" /\ pc' = "started" /\ i = N - 1
      /\ workers' = [workers EXCEPT ![i] = w]
      /\ runsOn' = [runsOn EXCEPT ![i] = IF IsDpdk THEN {master} ELSE @]
      /\ thread' = [thread EXCEPT ![i] = "body"]
  BY DEF MainLoop, argVars
<1>w. w # None /\ w.core = master
  BY PlacedIsNotNone
<1> HIDE DEF w
<1>1. /\ N' = N /\ Places' = Places /\ Rewrite' = Rewrite /\ IsDpdk' = IsDpdk
      /\ Lcores' = Lcores
  BY <1>0, LineKept DEF Lcores
<1>t. /\ Places = 0 .. N - 1 /\ i \in Places /\ i \in Nat /\ N \in Nat
      /\ Lcores \subseteq allowed
  BY CoresFacts
<1>i. PlacesInv /\ WorkersInv /\ LaunchInv /\ AffinityInv
  BY DEF CoresInv
<1>2. DOMAIN workers = Places /\ DOMAIN thread = Places /\ DOMAIN runsOn = Places
  BY <1>0, <1>i DEF PlacesInv
<1>p. IsDpdk => /\ master \in allowed
                /\ \A k \in Places : k # i => workers[k].core # master
  <2> SUFFICES ASSUME IsDpdk PROVE /\ master \in allowed
                                   /\ \A k \in Places : k # i => workers[k].core # master
    OBVIOUS
  <2>1. /\ cores = Lcores /\ master \in Lcores
        /\ \A k \in Places : k < i => workers[k].core \in Slaves
    BY <1>0, <1>i DEF LaunchInv
  <2>2. \A k \in Places : k # i => k < i
    BY <1>0, <1>t
  <2>. QED  BY <1>t, <2>1, <2>2 DEF Slaves
<1>3. /\ DOMAIN workers' = Places /\ DOMAIN thread' = Places /\ DOMAIN runsOn' = Places
      /\ \A k \in Places :
           /\ workers'[k] = IF k = i THEN w ELSE workers[k]
           /\ thread'[k] = IF k = i THEN "body" ELSE thread[k]
           /\ runsOn'[k] = IF k = i /\ IsDpdk THEN {master} ELSE runsOn[k]
  BY <1>0, <1>2
<1>4. PlacesInv'
  <2>1. \A k \in Places :
          /\ workers'[k] = None \/ workers'[k].core \in 0 .. CoreMax
          /\ thread'[k] \in States
          /\ runsOn'[k] = allowed \/ \E c \in allowed : runsOn'[k] = {c}
    BY <1>2, <1>3, <1>i, <1>p, <1>w DEF PlacesInv, States
  <2>. QED
    BY <1>0, <1>1, <1>2, <1>3, <1>i, <2>1 DEF PlacesInv, Before, Later, ParserStates
<1>5. WorkersInv'
  <2> SUFFICES ASSUME IsDpdk, NEW k \in Places, NEW l \in Places, k # l,
                      workers'[k] # None, workers'[l] # None
               PROVE  workers'[k].core # workers'[l].core
    BY <1>1, <1>3 DEF WorkersInv
  <2>1. CASE k = i \/ l = i
    BY <1>3, <1>p, <1>w, <2>1
  <2>2. CASE k # i /\ l # i
    BY <1>2, <1>3, <1>i, <2>2 DEF WorkersInv
  <2>. QED  BY <2>1, <2>2
<1>6. AffinityInv'
  <2> SUFFICES ASSUME IsDpdk, NEW k \in Places
               PROVE  /\ thread'[k] \in {"running", "unclocked"} => workers'[k] # None
                      /\ thread'[k] = "body" /\ ~ Rewrite => workers'[k] # None
                      /\ thread'[k] \in {"body", "running", "unclocked"}
                           /\ workers'[k] # None /\ N > 1
                         => runsOn'[k] = {workers'[k].core}
    BY <1>1, <1>3 DEF AffinityInv
  <2>1. CASE k = i
    BY <1>3, <1>w, <2>1
  <2>2. CASE k # i
    BY <1>2, <1>3, <1>i, <2>2 DEF AffinityInv
  <2>. QED  BY <2>1, <2>2
<1>7. PlacementInv' /\ LaunchInv'
  BY <1>0 DEF PlacementInv, LaunchInv
<1>. QED  BY <1>4, <1>5, <1>6, <1>7 DEF CoresInv

(* What only ends or suspends the start, or does nothing. *)
LEMMA StopCores ==
  ASSUME CoresInv, line' = line, UNCHANGED startVars,
         \/ pc' = pc
         \/ pc' \in {"exited", "aborted"}
         \/ pc = "sleep" /\ pc' = "start",
         pc = "place" => pc' = pc
  PROVE  CoresInv'
<1>0. /\ UNCHANGED << allowed, fd, cores, master, core_id, i, workers, thread,
                      runsOn, clock >>
  BY DEF startVars
<1>1. /\ N' = N /\ Places' = Places /\ Rewrite' = Rewrite /\ IsDpdk' = IsDpdk
      /\ Lcores' = Lcores /\ Slaves' = Slaves
  BY <1>0, LineKept DEF Lcores, Slaves
<1>i. PlacesInv /\ PlacementInv /\ WorkersInv /\ LaunchInv /\ AffinityInv
  BY DEF CoresInv
<1>2. PlacesInv'
  BY <1>0, <1>1, <1>i DEF PlacesInv, Before, Later, ParserStates
<1>3. PlacementInv' /\ LaunchInv' /\ AffinityInv'
  BY <1>0, <1>1, <1>i DEF PlacementInv, LaunchInv, AffinityInv
<1>4. WorkersInv'
  <2>1. pc = "sleep" => ~ Rewrite
    BY <1>i DEF PlacesInv
  <2>. QED  BY <1>0, <1>1, <1>i, <2>1 DEF WorkersInv
<1>. QED  BY <1>2, <1>3, <1>4 DEF CoresInv

(* Every step keeps the loops apart. *)
LEMMA NextCores ==
  ASSUME ParserInv, KindInv, CoresInv, [EitherNext]_vars
  PROVE  CoresInv'
<1>1. CASE ParserStep /\ UNCHANGED startVars
  BY <1>1, ParserCores
<1>2. CASE UNCHANGED vars
  BY <1>2, StopCores DEF vars, startVars
<1>3. CASE SocketFails
  BY <1>3, SocketCores
<1>4. CASE Rewrite /\ RewriteStep
  <2>1. CASE InitializeSocket
    BY <1>4, <2>1, SocketCores
  <2>2. CASE CoresInit
    BY <1>4, <2>2, CoresInitCores
  <2>3. CASE PlaceSlave
    BY <1>4, <2>3, PlaceSlaveCores
  <2>4. CASE PlaceMaster
    BY <1>4, <2>4, PlaceMasterCores
  <2>5. CASE ThreadStart
    BY <1>4, <2>5, ThreadStartCores
  <2>6. CASE ThreadStartFails
    BY <2>6, StopCores DEF ThreadStartFails, argVars
  <2>7. CASE StartMaster
    BY <1>4, <2>7, StartMasterCores
  <2>8. ASSUME NEW k \in DOMAIN thread,
               ThreadStarter(k) \/ LoopBegins(k) \/ LoopFaults(k)
        PROVE  CoresInv'
    <3>1. CASE ThreadStarter(k) \/ LoopBegins(k)
      BY <1>4, <3>1, ThreadCores
    <3>2. CASE LoopFaults(k)
      <4>1. /\ thread[k] # "none" /\ pc' = "aborted" /\ line' = line
            /\ UNCHANGED startVars
        BY <3>2 DEF LoopFaults, argVars
      <4>2. pc # "place"
        BY <4>1 DEF CoresInv, PlacementInv, PlacesInv
      <4>. QED  BY <4>1, <4>2, StopCores
    <3>. QED  BY <2>8, <3>1, <3>2
  <2>. QED
    BY <1>4, <2>1, <2>2, <2>3, <2>4, <2>5, <2>6, <2>7, <2>8 DEF RewriteStep
<1>5. CASE ~ Rewrite /\ TestappStep
  <2>1. CASE Opens
    BY <1>5, <2>1, OpensCores
  <2>2. CASE PthreadCreate
    BY <1>5, <2>2, PthreadCreateCores
  <2>3. CASE RemoteLaunch
    BY <1>5, <2>3, RemoteLaunchCores
  <2>4. CASE LaunchFails
    BY <2>4, StopCores DEF LaunchFails, argVars
  <2>5. CASE Sleep
    BY <2>5, StopCores DEF Sleep, argVars
  <2>6. CASE MainLoop
    BY <1>5, <2>6, MainLoopCores
  <2>7. ASSUME NEW k \in DOMAIN thread,
               TestappLoopBegins(k) \/ TestappLoopFaults(k)
        PROVE  CoresInv'
    <3>1. CASE TestappLoopBegins(k)
      BY <1>5, <3>1, ThreadCores
    <3>2. CASE TestappLoopFaults(k)
      <4>1. /\ pc' = "aborted" /\ line' = line /\ UNCHANGED startVars
        BY <3>2 DEF TestappLoopFaults, argVars
      <4>2. pc # "place"
        BY <1>5 DEF CoresInv, PlacesInv
      <4>. QED  BY <4>1, <4>2, StopCores
    <3>. QED  BY <2>7, <3>1, <3>2
  <2>. QED
    BY <1>5, <2>1, <2>2, <2>3, <2>4, <2>5, <2>6, <2>7 DEF TestappStep
<1>. QED  BY <1>1, <1>2, <1>3, <1>4, <1>5, StepKinds DEF StartStep

-----------------------------------------------------------------------------
(* The arguments stay read, and the socket open. *)

(* They come after the parser, and leave what it has read. *)
LEMMA StartKeepsArguments ==
  ASSUME CoresInv, StartStep
  PROVE  /\ UNCHANGED << line, argind, optind, parameter_index, conf, allowed >>
         /\ pc' \in {pc, "exited", "aborted", "cores", "place", "start", "sleep",
                     "started"}
         /\ pc \notin ParserStates /\ pc' \notin ParserStates
         /\ pc' # pc => pc \notin {"exited", "aborted"}
<1>1. DOMAIN thread # {} => pc \notin ParserStates
  BY DEF CoresInv, PlacesInv, Before
<1>2. CASE SocketFails
  BY <1>2 DEF SocketFails, argVars, startVars, ParserStates
<1>3. CASE InitializeSocket \/ CoresInit \/ PlaceSlave \/ PlaceMaster
           \/ ThreadStart \/ ThreadStartFails \/ StartMaster
  BY <1>3 DEF InitializeSocket, CoresInit, PlaceSlave, PlaceMaster, ThreadStart,
              ThreadStartFails, StartMaster, argVars, startVars, ParserStates
<1>4. CASE Opens \/ PthreadCreate \/ RemoteLaunch \/ LaunchFails \/ Sleep \/ MainLoop
  BY <1>4 DEF Opens, PthreadCreate, RemoteLaunch, LaunchFails, Sleep, MainLoop,
              argVars, startVars, ParserStates
<1>5. ASSUME NEW k \in DOMAIN thread,
             \/ ThreadStarter(k) \/ LoopBegins(k) \/ LoopFaults(k)
             \/ TestappLoopBegins(k) \/ TestappLoopFaults(k)
      PROVE  /\ UNCHANGED << line, argind, optind, parameter_index, conf, allowed >>
             /\ pc' = pc \/ (pc' = "aborted" /\ pc \notin {"exited", "aborted"})
  BY <1>5 DEF ThreadStarter, LoopBegins, LoopFaults, TestappLoopBegins,
              TestappLoopFaults, Running, argVars, startVars
<1>6. CASE \E k \in DOMAIN thread :
             \/ ThreadStarter(k) \/ LoopBegins(k) \/ LoopFaults(k)
             \/ TestappLoopBegins(k) \/ TestappLoopFaults(k)
  <2>1. DOMAIN thread # {} /\ pc \notin ParserStates
    BY <1>1, <1>6
  <2>2. "aborted" \notin ParserStates
    BY DEF ParserStates
  <2>. QED  BY <1>5, <1>6, <2>1, <2>2
<1>. QED
  BY <1>2, <1>3, <1>4, <1>6 DEF StartStep, RewriteStep, TestappStep

LEMMA StartArguments ==
  ASSUME ParserInv, KindInv, PlainInv, CoresInv, StartStep
  PROVE  ParserInv' /\ KindInv' /\ PlainInv' /\ line' = line
<1>1. /\ UNCHANGED << line, argind, optind, parameter_index, conf, allowed >>
      /\ pc' \in {pc, "exited", "aborted", "cores", "place", "start", "sleep",
                  "started"}
      /\ pc \notin ParserStates /\ pc' \notin ParserStates
      /\ pc' # pc => pc \notin {"exited", "aborted"}
  BY StartKeepsArguments
<1>2. /\ Argc' = Argc /\ Rewrite' = Rewrite /\ IsDpdk' = IsDpdk /\ args' = args
  BY <1>1, LineKept
<1>3. ParserInv'
  BY <1>1, <1>2 DEF ParserInv, CheckDoubleDash
<1>4. KindInv'
  BY <1>1, <1>2 DEF KindInv, ParserStates
<1>5. CASE pc' = "aborted" \/ pc' = "exited"
  BY <1>1, <1>3, <1>4, <1>5 DEF PlainInv
<1>6. CASE pc' \notin {"aborted", "exited"}
  <2>1. /\ pc \notin {"aborted", "exited"} /\ Plain' = Plain
        /\ Position' = Position /\ Finished' = Finished
    BY <1>1, <1>2, <1>6 DEF Plain, Position, Finished, CheckDoubleDash, ParserStates
  <2>2. ReadSoFar(Position, conf, parameter_index)'
          = ReadSoFar(Position, conf, parameter_index)
    BY <1>1, <1>2, <2>1
       DEF ReadSoFar, GivenBefore, AsksBefore, AddressesBefore, IsValue
  <2>. QED  BY <1>1, <1>3, <1>4, <2>1, <2>2 DEF PlainInv
<1>. QED  BY <1>5, <1>6

LEMMA NextArguments ==
  ASSUME ParserInv, KindInv, PlainInv, CoresInv, [EitherNext]_vars
  PROVE  ParserInv' /\ KindInv' /\ PlainInv' /\ line' = line
<1>1. CASE ParserStep
  BY <1>1, NextParser, NextKind, NextPlain
<1>2. CASE StartStep
  BY <1>2, StartArguments
<1>3. CASE UNCHANGED vars
  <2>1. UNCHANGED << line, pc, argind, optind, parameter_index, conf >>
    BY <1>3 DEF vars
  <2>2. /\ Argc' = Argc /\ Rewrite' = Rewrite /\ IsDpdk' = IsDpdk /\ args' = args
    BY <2>1, LineKept
  <2>3. ParserInv' /\ KindInv'
    BY <2>1, <2>2 DEF ParserInv, KindInv, CheckDoubleDash
  <2>4. PlainInv'
    BY <2>1, <2>2
       DEF PlainInv, Plain, Position, Finished, CheckDoubleDash, ReadSoFar,
           GivenBefore, AsksBefore, AddressesBefore, IsValue
  <2>. QED  BY <2>1, <2>3, <2>4
<1>. QED  BY <1>1, <1>2, <1>3, StepKinds

-----------------------------------------------------------------------------
(***************************************************************************)
(* Each kind of socket is opened once, before the places of the loops      *)
(* exist, and nothing changes it after that.                               *)
(***************************************************************************)
Wanted ==
  IF IsDpdk THEN "closed"
  ELSE IF Rewrite /\ (conf.type = "raw" \/ conf.block) THEN "blocking"
  ELSE "nonblocking"

SocketInv ==
  /\ pc \in ParserStates \union {"socket"} => fd = "closed"
  /\ pc = "cores" \/ DOMAIN workers # {} => fd = Wanted

(* What was read when the socket was opened is what is asked for. *)
AskedInv ==
  Plain /\ DOMAIN workers # {} =>
    Finished /\ ReadSoFar(argind, conf, parameter_index)

(* The steps of a start that has its socket. *)
LEMMA SocketKept ==
  ASSUME CoresInv, StartStep, ~ InitializeSocket, ~ Opens
  PROVE  /\ fd' = fd
         /\ pc' = "cores" => pc = "cores"
         /\ pc' = "socket" => pc = "socket"
         /\ DOMAIN workers' # {} => pc = "cores" \/ DOMAIN workers # {}
<1>1. CASE SocketFails
  BY <1>1 DEF SocketFails, startVars
<1>2. CASE CoresInit \/ PlaceSlave \/ PlaceMaster \/ ThreadStart
           \/ ThreadStartFails \/ StartMaster
  BY <1>2 DEF CoresInit, PlaceSlave, PlaceMaster, ThreadStart, ThreadStartFails,
              StartMaster, startVars
<1>3. CASE PthreadCreate \/ RemoteLaunch \/ LaunchFails \/ Sleep \/ MainLoop
  BY <1>3 DEF PthreadCreate, RemoteLaunch, LaunchFails, Sleep, MainLoop, startVars
<1>4. ASSUME NEW k \in DOMAIN thread,
             \/ ThreadStarter(k) \/ LoopBegins(k) \/ LoopFaults(k)
             \/ TestappLoopBegins(k) \/ TestappLoopFaults(k)
      PROVE  /\ fd' = fd /\ workers' = workers /\ pc' \in {pc, "aborted"}
  BY <1>4 DEF ThreadStarter, LoopBegins, LoopFaults, TestappLoopBegins,
              TestappLoopFaults, startVars
<1>. QED
  BY <1>1, <1>2, <1>3, <1>4 DEF StartStep, RewriteStep, TestappStep

LEMMA NextSocket ==
  ASSUME ParserInv, KindInv, PlainInv, CoresInv, SocketInv, [EitherNext]_vars
  PROVE  SocketInv'
<1>0. line' = line /\ IsDpdk' = IsDpdk /\ Rewrite' = Rewrite
  BY NextArguments, LineKept
<1>1. CASE ParserStep /\ UNCHANGED startVars
  <2>1. /\ pc \in ParserStates
        /\ pc' \in ParserStates \union {"socket", "exited", "aborted"}
        /\ fd' = fd /\ workers' = workers
    BY <1>1, ParserLeaves DEF startVars
  <2>2. DOMAIN workers' = {}
    BY <2>1 DEF CoresInv, PlacesInv, Before
  <2>. QED  BY <2>1, <2>2 DEF SocketInv, ParserStates
<1>2. CASE UNCHANGED vars
  BY <1>0, <1>2 DEF vars, SocketInv, Wanted
<1>3. CASE Rewrite /\ InitializeSocket
  <2>1. /\ pc = "socket" /\ pc' = "cores" /\ conf' = conf
        /\ workers' = workers /\ fd = "closed"
        /\ UseDpdk <=> IsDpdk
        /\ conf \in [type : {"none", "dgram", "raw", "dpdk"},
                     rate : {"positive", "zero"}, block : BOOLEAN]
    BY <1>3 DEF InitializeSocket, argVars, SocketInv, KindInv, UseDpdk, IsDpdk,
                ParserInv
  <2>2. CASE DpdkInit
    BY <1>0, <1>3, <2>1, <2>2 DEF SocketInv, Wanted, DpdkInit, ParserStates
  <2>3. CASE SockCreateDgram
    BY <1>0, <1>3, <2>1, <2>3
       DEF SocketInv, Wanted, SockCreateDgram, UseDpdk, ParserStates
  <2>4. CASE SockCreateRaw
    BY <1>0, <1>3, <2>1, <2>4
       DEF SocketInv, Wanted, SockCreateRaw, UseDpdk, ParserStates
  <2>. QED  BY <1>3, <2>2, <2>3, <2>4 DEF InitializeSocket
<1>4. CASE ~ Rewrite /\ Opens
  <2>1. /\ pc = "socket" /\ pc' = "start" /\ conf' = conf /\ fd = "closed"
        /\ fd' = IF IsDpdk THEN "closed" ELSE "nonblocking"
    BY <1>4 DEF Opens, SockCreate, Dgram, Raw, PortInit, argVars, SocketInv
  <2>. QED  BY <1>0, <1>4, <2>1 DEF SocketInv, Wanted, ParserStates
<1>5. CASE StartStep /\ ~ InitializeSocket /\ ~ Opens
  <2>1. /\ fd' = fd /\ conf' = conf /\ pc' \notin ParserStates
        /\ pc' = "cores" => pc = "cores"
        /\ pc' = "socket" => pc = "socket"
        /\ DOMAIN workers' # {} => pc = "cores" \/ DOMAIN workers # {}
    BY <1>5, SocketKept, StartKeepsArguments
  <2>. QED  BY <1>0, <2>1 DEF SocketInv, Wanted
<1>6. StartStep => \/ Rewrite /\ InitializeSocket
                   \/ ~ Rewrite /\ Opens
                   \/ ~ InitializeSocket /\ ~ Opens
  BY DEF StartStep, RewriteStep, TestappStep, SocketFails, InitializeSocket, Opens,
         CoresInit, PlaceSlave, PlaceMaster, ThreadStart, ThreadStartFails,
         StartMaster, ThreadStarter, LoopBegins, LoopFaults, PthreadCreate,
         RemoteLaunch, LaunchFails, Sleep, MainLoop, TestappLoopBegins,
         TestappLoopFaults
<1>. QED  BY <1>1, <1>2, <1>3, <1>4, <1>5, <1>6, StepKinds

LEMMA NextAsked ==
  ASSUME ParserInv, KindInv, PlainInv, CoresInv, AskedInv, [EitherNext]_vars
  PROVE  AskedInv'
<1>1. CASE ParserStep /\ UNCHANGED startVars
  BY <1>1, ParserLeaves DEF CoresInv, PlacesInv, Before, AskedInv, startVars
<1>2. CASE UNCHANGED vars
  BY <1>2 DEF vars, AskedInv, Plain, Finished, CheckDoubleDash, ReadSoFar,
              GivenBefore, AsksBefore, AddressesBefore, IsValue, args, Argc, Rewrite
<1>3. CASE StartStep
  <2>1. /\ UNCHANGED << line, argind, optind, parameter_index, conf, allowed >>
        /\ pc \notin ParserStates /\ pc' \notin ParserStates
    BY <1>3, StartKeepsArguments
  <2>2. args' = args /\ Argc' = Argc /\ Rewrite' = Rewrite
    BY <2>1, LineKept
  <2>3. /\ Plain' = Plain /\ Finished' = Finished
        /\ ReadSoFar(argind, conf, parameter_index)'
             = ReadSoFar(argind, conf, parameter_index)
    BY <2>1, <2>2
       DEF Plain, Finished, CheckDoubleDash, ReadSoFar, GivenBefore, AsksBefore,
           AddressesBefore, IsValue
  <2>4. CASE DOMAIN workers # {} \/ DOMAIN workers' = {}
    BY <2>3, <2>4 DEF AskedInv
  <2>5. CASE DOMAIN workers = {} /\ DOMAIN workers' # {}
    <3>1. pc \in {"cores", "socket"}
      BY <1>3, <2>5, SocketKept DEF InitializeSocket, Opens
    <3>2. Position = argind
      BY <3>1 DEF Position
    <3>3. Plain => Finished /\ ReadSoFar(argind, conf, parameter_index)
      BY <2>1, <3>1, <3>2 DEF PlainInv
    <3>. QED  BY <2>3, <3>3 DEF AskedInv
  <2>. QED  BY <2>4, <2>5
<1>. QED  BY <1>1, <1>2, <1>3, StepKinds

-----------------------------------------------------------------------------
(* The theorems. *)

StartInv == ParserInv /\ KindInv /\ PlainInv /\ CoresInv /\ SocketInv /\ AskedInv

LEMMA InitStart == Init => StartInv
<1> SUFFICES ASSUME Init PROVE StartInv
  OBVIOUS
<1>1. ParserInv /\ KindInv /\ PlainInv /\ CoresInv
  BY InitParser, InitPlain, InitCores
<1>2. pc = "main" /\ fd = "closed" /\ DOMAIN workers = {}
  BY DEF Init, ArgumentsInit
<1>. QED  BY <1>1, <1>2 DEF StartInv, SocketInv, AskedInv

LEMMA NextStart == StartInv /\ [EitherNext]_vars => StartInv'
BY NextArguments, NextCores, NextSocket, NextAsked DEF StartInv

LEMMA AlwaysStart == EitherSpec => []StartInv
BY InitStart, NextStart, PTL DEF EitherSpec

(***************************************************************************)
(* The types of the start, of either program.                              *)
(***************************************************************************)
THEOREM StartupTypes == EitherSpec => []StartupTypeOK
<1>1. StartInv => StartupTypeOK
  <2> SUFFICES ASSUME StartInv PROVE StartupTypeOK
    OBVIOUS
  <2>1. ParserInv /\ PlacesInv
    BY DEF StartInv, CoresInv
  <2>2. parameter_index \in 0 .. (IF Rewrite THEN 4 ELSE Len(args))
    <3>1. /\ Argc = Len(args) + 1 /\ Len(args) \in Nat /\ argind \in 1 .. Argc
          /\ parameter_index \in 0 .. argind - 1
          /\ Rewrite => parameter_index <= 4
      BY <2>1, LineTypes DEF ParserInv
    <3>. QED  BY <3>1
  <2>3. ArgumentsTypeOK
    BY <2>1, <2>2 DEF ParserInv, ArgumentsTypeOK
  <2>4. pc \in {"main", "arguments", "options", "addresses", "socket", "cores",
                "place", "start", "sleep", "started", "exited", "aborted"}
    BY <2>1 DEF PlacesInv, Before, Later, ParserStates
  <2>5. \A k \in DOMAIN workers :
          /\ workers[k] = None \/ workers[k].core \in 0 .. CoreMax
          /\ thread[k] \in {"none", "starter", "body", "running", "returned",
                            "refused", "unclocked"}
          /\ runsOn[k] \in {allowed} \union {{c} : c \in allowed}
    <3> SUFFICES ASSUME NEW k \in DOMAIN workers
                 PROVE  /\ workers[k] = None \/ workers[k].core \in 0 .. CoreMax
                        /\ thread[k] \in States
                        /\ runsOn[k] \in {allowed} \union {{c} : c \in allowed}
      BY DEF States
    <3>1. /\ workers[k] = None \/ workers[k].core \in 0 .. CoreMax
          /\ thread[k] \in States
          /\ runsOn[k] = allowed \/ \E c \in allowed : runsOn[k] = {c}
      BY <2>1 DEF PlacesInv
    <3>. QED  BY <3>1
  <2>. QED  BY <2>1, <2>3, <2>4, <2>5 DEF StartupTypeOK, PlacesInv
<1>. QED  BY <1>1, AlwaysStart, PTL

(***************************************************************************)
(* Whatever the command line, when the parsers of either program have      *)
(* ended they have read what a reader of the line finds in it, each        *)
(* argument once: induction along the arguments, in which ReadSoFar says   *)
(* what a prefix asks for.                                                 *)
(***************************************************************************)
THEOREM ParsedAsAsked == EitherSpec => []ConfigAsAsked
<1>1. StartInv => ConfigAsAsked
  <2> SUFFICES ASSUME StartInv, Plain, pc \notin {"exited", "aborted"},
                      pc \notin {"main", "arguments", "options", "addresses"}
               PROVE  /\ argind = End
                      /\ conf.block = Given("-B")
                      /\ (conf.type = "raw") =
                           (Given("-R") /\ (Rewrite => line.cmd \notin DpdkCommands))
                      /\ Asks(conf.rate)
                      /\ parameter_index = Cardinality(Addresses)
    BY DEF ConfigAsAsked
  <2>1. Position = argind /\ pc \notin ParserStates
    BY DEF Position, ParserStates
  <2>2. Finished /\ ReadSoFar(argind, conf, parameter_index)
    BY <2>1 DEF StartInv, PlainInv
  <2>. QED  BY <2>2, FinishedIsAsked DEF StartInv
<1>. QED  BY <1>1, AlwaysStart, PTL

(***************************************************************************)
(* A loop that runs finds its socket open, unless it is one of DPDK; and   *)
(* the UDP sockets of testapp-rewrite wait if and only if the command line *)
(* has -B, those of the deprecated program never, unless it has -B.        *)
(***************************************************************************)
THEOREM SocketOpened == EitherSpec => []UdpSocketAsAsked
<1>1. StartInv => UdpSocketAsAsked
  <2> SUFFICES ASSUME StartInv, Plain, LoopRuns
               PROVE  /\ fd = "closed" <=> line.cmd \in DpdkCommands
                      /\ (IF Rewrite THEN ~Given("-R") ELSE ~Given("-B"))
                           => fd = Helped
    BY DEF UdpSocketAsAsked
  <2>1. DOMAIN workers # {}
    BY DEF StartInv, CoresInv, PlacesInv, LoopRuns
  <2>2. fd = Wanted /\ Finished /\ ReadSoFar(argind, conf, parameter_index)
    BY <2>1 DEF StartInv, SocketInv, AskedInv
  <2>3. /\ conf.block = Given("-B")
        /\ (conf.type = "raw") =
             (Given("-R") /\ (Rewrite => line.cmd \notin DpdkCommands))
    BY <2>2, FinishedIsAsked DEF StartInv
  <2>. QED  BY <2>2, <2>3 DEF Wanted, IsDpdk, Helped
<1>. QED  BY <1>1, AlwaysStart, PTL

(***************************************************************************)
(* Two loops never run on the same core, however many CPUs the process was *)
(* given: no two were placed on one, and a loop begins on its core only.   *)
(***************************************************************************)
THEOREM LoopsKeepApart == EitherSpec => []OwnCores
<1>1. StartInv => OwnCores
  <2> SUFFICES ASSUME StartInv, Rewrite \/ IsDpdk,
                      NEW k \in DOMAIN thread, NEW l \in DOMAIN thread, k # l,
                      thread[k] \in {"running", "unclocked"},
                      thread[l] \in {"running", "unclocked"}
               PROVE  runsOn[k] \intersect runsOn[l] = {}
    BY DEF OwnCores, IsDpdk
  <2>1. /\ workers[k] # None /\ workers[l] # None
        /\ N > 1 => runsOn[k] = {workers[k].core} /\ runsOn[l] = {workers[l].core}
    BY DEF StartInv, CoresInv, AffinityInv
  <2>2. N > 1
    <3>1. k \in 0 .. N - 1 /\ l \in 0 .. N - 1 /\ N \in {1, 3}
      BY LoopNumber DEF StartInv, CoresInv, PlacesInv
    <3>. QED  BY <3>1
  <2>3. workers[k].core # workers[l].core
    BY <2>1 DEF StartInv, CoresInv, PlacesInv, WorkersInv
  <2>. QED  BY <2>1, <2>2, <2>3
<1>. QED  BY <1>1, AlwaysStart, PTL
=============================================================================
