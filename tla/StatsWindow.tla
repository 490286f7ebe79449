---------------------------- MODULE StatsWindow ----------------------------
(***************************************************************************)
(* What a statistics record promises to the loop that fills it and to the  *)
(* SIGINT handler that prints it: the most recent Size periods, oldest     *)
(* first, each of them atomically either in the window or not.             *)
(***************************************************************************)
EXTENDS Naturals, Sequences

CONSTANTS
  Size,   \* how many periods are remembered
  Data    \* the values a period can have

VARIABLE window   \* the remembered periods, oldest first

WindowInit == window = << >>

WindowSave ==
  \E d \in Data :
    window' = IF Len(window) < Size THEN Append(window, d)
                                    ELSE Append(Tail(window), d)

WindowSpec == WindowInit /\ [][WindowSave]_window

WindowTypeOK == window \in Seq(Data) /\ Len(window) <= Size
=============================================================================
