-------------------------- MODULE StatsRingProofs --------------------------
(***************************************************************************)
(* For every ring size: the record of testapp-rewrite holds exactly the    *)
(* latest periods at every store of stats_save, wherever the SIGINT        *)
(* handler interrupts it, and stats_save implements the abstract window.   *)
(***************************************************************************)
EXTENDS StatsRing, SequenceTheorems, TLAPS

USE RingAssumption DEF Slots

(* Advancing an index by the mask is advancing it by one place. *)
LEMMA WrapIsNext ==
  ASSUME NEW x \in Slots
  PROVE  Wrap(x) = After(x, 1) /\ Wrap(x) \in Slots
<1>1. CASE x + 1 = Size
  <2>1. Wrap(x) = 0
    BY <1>1 DEF Wrap
  <2>. QED  BY <1>1, <2>1 DEF After
<1>2. CASE x + 1 # Size
  <2>1. Wrap(x) = x + 1
    BY <1>2 DEF Wrap
  <2>. QED  BY <1>2, <2>1 DEF After
<1>. QED  BY <1>1, <1>2
LEMMA AfterInSlots ==
  ASSUME NEW x \in Slots, NEW k \in Slots
  PROVE  After(x, k) \in Slots
BY DEF After

(* What the handler notes of the record when it starts is a sequence. *)
LEMMA WindowIsSeq ==
  ASSUME TypeOK
  PROVE  Window \in Seq(Nat) /\ Len(Window) = count
<1> DEFINE At(k) == data[After(first, IF Overwriting /\ k < Size THEN k
                                      ELSE IF Overwriting THEN 0
                                      ELSE k - 1)]
<1>1. \A k \in 1..count : At(k) \in Nat
  <2> SUFFICES ASSUME NEW k \in 1..count PROVE At(k) \in Nat
    OBVIOUS
  <2>1. (IF Overwriting /\ k < Size THEN k
         ELSE IF Overwriting THEN 0 ELSE k - 1) \in Slots
    BY DEF TypeOK
  <2>. QED  BY <2>1, AfterInSlots DEF TypeOK
<1>2. Window = [k \in 1..count |-> At(k)]
  BY DEF Window
<1> HIDE DEF At
<1>. QED  BY <1>1, <1>2 DEF TypeOK

LEMMA NextWindowIsSeq ==
  (TypeOK => Window \in Seq(Nat) /\ Len(Window) = count)'
<1>1. TypeOK => Window \in Seq(Nat) /\ Len(Window) = count
  BY WindowIsSeq
<1>. QED  BY <1>1, PTL

-----------------------------------------------------------------------------
(* Types and index arithmetic. *)

ShapeInv == TypeOK /\ RingShape

LEMMA InitShape == Init => ShapeInv
BY DEF Init, ShapeInv, TypeOK, Stores, RingShape, Filling, Full

LEMMA NextShape == ShapeInv /\ [Next]_vars => ShapeInv'
<1> SUFFICES ASSUME ShapeInv, [Next]_vars PROVE ShapeInv'
  OBVIOUS
<1> USE DEF ShapeInv, Stores
<1>1. CASE Register
  BY <1>1 DEF Register, TypeOK, RingShape, Filling, Full
<1>2. CASE SaveStart
  <2>0. data' \in [Slots -> Nat] /\ wpc' \in {"fill_count", "repl_last"}
    <3>1. saved + 1 \in Nat /\ first \in Slots /\ last \in Slots
      BY DEF TypeOK
    <3>2. \/ data' = [data EXCEPT ![last] = saved + 1]
          \/ data' = [data EXCEPT ![first] = saved + 1]
      BY <1>2 DEF SaveStart, SaveFill, SaveReplace
    <3>3. data' \in [Slots -> Nat]
      BY <3>1, <3>2 DEF TypeOK
    <3>. QED  BY <1>2, <3>3 DEF SaveStart, SaveFill, SaveReplace
  <2>1. TypeOK'
    BY <1>2, <2>0 DEF SaveStart, TypeOK
  <2>2. RingShape'
    BY <1>2 DEF SaveStart, SaveFill, SaveReplace, TypeOK, RingShape, Filling,
                Full
  <2>. QED  BY <2>1, <2>2
<1>3. CASE FillCount
  <2>1. count < Size /\ last = count /\ first = 0
    BY <1>3 DEF FillCount, TypeOK, RingShape, Filling, Full
  <2>2. count' \in 0..Size /\ wpc' \in {"fill_last", "idle"}
    BY <1>3, <2>1 DEF FillCount, TypeOK
  <2>3. TypeOK'
    BY <1>3, <2>2 DEF FillCount, TypeOK
  <2>4. RingShape'
    <3>1. CASE count + 1 < Size
      BY <1>3, <2>1, <3>1 DEF FillCount, TypeOK, RingShape, Filling
    <3>2. CASE count + 1 = Size
      <4>1. Wrap(last) = 0
        BY <2>1, <3>2, WrapIsNext DEF TypeOK, After
      <4>. QED  BY <1>3, <2>1, <3>2, <4>1 DEF FillCount, RingShape, Full
    <3>. QED  BY <2>1, <3>1, <3>2 DEF TypeOK
  <2>. QED  BY <2>3, <2>4
<1>4. CASE FillLast
  <2>1. last + 1 = count /\ count < Size /\ first = 0
    BY <1>4 DEF FillLast, RingShape, Filling, Full
  <2>2. Wrap(last) = count
    BY <2>1, WrapIsNext DEF TypeOK, After
  <2>. QED  BY <1>4, <2>1, <2>2 DEF FillLast, TypeOK, RingShape, Filling, Full
<1>5. CASE ReplaceLast
  BY <1>5 DEF ReplaceLast, TypeOK, RingShape, Filling, Full
<1>6. CASE ReplaceFirst
  <2>1. Wrap(first) \in Slots
    BY WrapIsNext DEF TypeOK
  <2>. QED  BY <1>6, <2>1 DEF ReplaceFirst, TypeOK, RingShape, Filling, Full
<1>7. CASE Signal
  BY <1>7, WindowIsSeq DEF Signal, TypeOK, RingShape, Filling, Full
<1>8. CASE PrintStart
  BY <1>8 DEF PrintStart, TypeOK, RingShape, Filling, Full
<1>9. CASE PrintLoop
  <2>1. Wrap(i) \in Slots
    BY WrapIsNext DEF TypeOK
  <2>2. Append(out, data[i]) \in Seq(Nat)
    BY DEF TypeOK
  <2>. QED  BY <1>9, <2>1, <2>2 DEF PrintLoop, TypeOK, RingShape, Filling, Full
<1>10. CASE PrintLast
  <2>1. Append(out, data[last]) \in Seq(Nat)
    BY DEF TypeOK
  <2>. QED  BY <1>10, <2>1 DEF PrintLast, TypeOK, RingShape, Filling, Full
<1>11. CASE UNCHANGED vars
  BY <1>11 DEF vars, TypeOK, RingShape, Filling, Full
<1>. QED
  BY <1>1, <1>2, <1>3, <1>4, <1>5, <1>6, <1>7, <1>8, <1>9, <1>10, <1>11
     DEF Next, Save, PrintAll

(* The record and its printer keep their types, whatever the ring size. *)
THEOREM TypeCorrect == Spec => []TypeOK
<1>. QED  BY InitShape, NextShape, PTL DEF Spec, ShapeInv

(***************************************************************************)
(* first, last and count agree at every store of stats_save, wherever the  *)
(* handler interrupts it.                                                  *)
(***************************************************************************)
THEOREM ShapeCorrect == Spec => []RingShape
<1>. QED  BY InitShape, NextShape, PTL DEF Spec, ShapeInv

-----------------------------------------------------------------------------
(* What each store does to the window. *)

(* Two sequences of naturals are equal when they agree place by place. *)
LEMMA SeqEquality ==
  ASSUME NEW s \in Seq(Nat), NEW t \in Seq(Nat), Len(s) = Len(t),
         \A k \in 1..Len(s) : s[k] = t[k]
  PROVE  s = t
BY SeqEqual

LEMMA AppendPlaces ==
  ASSUME NEW s \in Seq(Nat), NEW x \in Nat
  PROVE  /\ Append(s, x) \in Seq(Nat) /\ Len(Append(s, x)) = Len(s) + 1
         /\ \A k \in 1..Len(s) + 1 :
              Append(s, x)[k] = IF k <= Len(s) THEN s[k] ELSE x
OBVIOUS

LEMMA TailPlaces ==
  ASSUME NEW s \in Seq(Nat), Len(s) > 0
  PROVE  /\ Tail(s) \in Seq(Nat) /\ Len(Tail(s)) = Len(s) - 1
         /\ \A k \in 1..Len(s) - 1 : Tail(s)[k] = s[k + 1]
OBVIOUS

(* Where the k-th remembered period is. *)
LEMMA WindowPlaces ==
  ASSUME TypeOK
  PROVE  /\ Filling => \A k \in 1..count : Window[k] = data[k - 1]
         /\ Full /\ ~ Overwriting
              => \A k \in 1..Size : Window[k] = data[After(first, k - 1)]
         /\ Full /\ Overwriting
              => /\ \A k \in 1..Size - 1 : Window[k] = data[After(first, k)]
                 /\ Window[Size] = data[first]
<1>1. \A k \in 1..count :
        Window[k] = data[After(first, IF Overwriting /\ k < Size THEN k
                                      ELSE IF Overwriting THEN 0 ELSE k - 1)]
  BY DEF Window
<1>2. ASSUME Filling PROVE \A k \in 1..count : Window[k] = data[k - 1]
  <2>1. ~ Overwriting /\ first = 0 /\ count < Size
    BY <1>2 DEF Filling, Overwriting
  <2>2. \A k \in 1..count : After(first, k - 1) = k - 1
    BY <2>1 DEF After, TypeOK
  <2>. QED  BY <1>1, <2>1, <2>2
<1>3. ASSUME Full, ~ Overwriting
      PROVE  \A k \in 1..Size : Window[k] = data[After(first, k - 1)]
  BY <1>1, <1>3 DEF Full
<1>4. ASSUME Full, Overwriting
      PROVE  /\ \A k \in 1..Size - 1 : Window[k] = data[After(first, k)]
             /\ Window[Size] = data[first]
  <2>1. After(first, 0) = first
    BY DEF After, TypeOK
  <2>2. count = Size
    BY <1>4 DEF Full
  <2>3. Window[Size] = data[After(first, 0)]
    BY <1>1, <1>4, <2>2
  <2>4. \A k \in 1..Size - 1 : Window[k] = data[After(first, k)]
    BY <1>1, <1>4, <2>2
  <2>. QED  BY <2>1, <2>3, <2>4
<1>. QED  BY <1>2, <1>3, <1>4

(* Stepping twice round the ring: one place, then k - 1 more. *)
LEMMA AfterWrap ==
  ASSUME NEW x \in Slots, NEW k \in 1..Size
  PROVE  After(Wrap(x), k - 1) = IF k = Size THEN x ELSE After(x, k)
<1>1. Wrap(x) = After(x, 1)
  BY WrapIsNext
<1>. QED  BY <1>1 DEF After

(* After's places are distinct from the slot they start from. *)
LEMMA AfterMoves ==
  ASSUME NEW x \in Slots, NEW k \in 1..Size - 1
  PROVE  After(x, k) # x /\ After(x, k) \in Slots
BY DEF After

-----------------------------------------------------------------------------
(* The period being filled in is stored before it is counted. *)

StoreInv ==
  /\ ShapeInv
  /\ saved <= MaxSaves
  /\ wpc = "fill_count" => data[last] = saved /\ saved > 0

LEMMA InitStore == Init => StoreInv
BY InitShape DEF Init, StoreInv

LEMMA NextStore == StoreInv /\ [Next]_vars => StoreInv'
<1> SUFFICES ASSUME StoreInv, [Next]_vars
             PROVE  /\ (saved <= MaxSaves)'
                    /\ (wpc = "fill_count" => data[last] = saved /\ saved > 0)'
  BY NextShape DEF StoreInv
<1>1. CASE SaveStart
  <2>1. CASE SaveFill
    BY <1>1, <2>1 DEF SaveStart, SaveFill, StoreInv, ShapeInv, TypeOK
  <2>2. CASE SaveReplace
    BY <1>1, <2>2 DEF SaveStart, SaveReplace, StoreInv, ShapeInv, TypeOK
  <2>. QED  BY <1>1, <2>1, <2>2 DEF SaveStart
<1>2. CASE FillCount
  BY <1>2 DEF FillCount, StoreInv
<1>3. CASE FillLast \/ ReplaceLast \/ ReplaceFirst
  BY <1>3 DEF FillLast, ReplaceLast, ReplaceFirst, StoreInv
<1>4. CASE Register \/ Signal \/ PrintAll \/ UNCHANGED vars
  BY <1>4 DEF Register, Signal, PrintAll, PrintStart, PrintLoop, PrintLast, vars,
              StoreInv
<1>. QED  BY <1>1, <1>2, <1>3, <1>4 DEF Next, Save

(* The window after one more period. *)
Shifted(w, d) == IF Len(w) < Size THEN Append(w, d) ELSE Append(Tail(w), d)

(* Counting the period that was stored appends it. *)
LEMMA FillWindow ==
  ASSUME StoreInv, StoreInv', FillCount
  PROVE  Window' = Shifted(Window, saved)
<1> USE DEF StoreInv, ShapeInv
<1>1. /\ Filling /\ first = 0 /\ last = count /\ count < Size
      /\ count \in Nat /\ saved \in Nat /\ data[count] = saved
  BY DEF FillCount, TypeOK, RingShape, Filling, Full
<1>2. /\ Window \in Seq(Nat) /\ Len(Window) = count
      /\ \A k \in 1..count : Window[k] = data[k - 1]
  BY <1>1, WindowIsSeq, WindowPlaces
<1>3. count' = count + 1 /\ data' = data /\ first' = first /\ last' = last
  BY DEF FillCount
<1>4. Window' \in Seq(Nat) /\ Len(Window') = count + 1
  BY <1>3, NextWindowIsSeq
<1>5. \A k \in 1..count + 1 : Window'[k] = data[k - 1]
  <2>1. wpc' \in {"fill_last", "idle"}
    BY DEF FillCount
  <2>2. ~ Overwriting'
    BY <2>1 DEF Overwriting
  <2>3. \A k \in 1..count' : Window'[k] = data'[After(first', k - 1)]
    BY <2>2 DEF Window
  <2>4. \A k \in 1..count + 1 : After(0, k - 1) = k - 1
    BY <1>1 DEF After
  <2>. QED  BY <1>1, <1>3, <2>3, <2>4
<1>6. /\ Append(Window, saved) \in Seq(Nat)
      /\ Len(Append(Window, saved)) = count + 1
      /\ \A k \in 1..count + 1 :
           Append(Window, saved)[k] = IF k <= count THEN Window[k] ELSE saved
  BY <1>1, <1>2, AppendPlaces
<1>7. \A k \in 1..count + 1 : Window'[k] = Append(Window, saved)[k]
  <2> SUFFICES ASSUME NEW k \in 1..count + 1
               PROVE  Window'[k] = Append(Window, saved)[k]
    OBVIOUS
  <2>1. /\ Window'[k] = data[k - 1]
        /\ Append(Window, saved)[k] = IF k <= count THEN Window[k] ELSE saved
    BY <1>5, <1>6
  <2>2. CASE k <= count
    <3>1. Window[k] = data[k - 1]
      BY <1>1, <1>2, <2>2
    <3>. QED  BY <2>1, <2>2, <3>1
  <2>3. CASE k = count + 1
    <3>1. k - 1 = count /\ ~ (k <= count)
      BY <1>1, <2>3
    <3>2. Window'[k] = data[count]
      BY <2>1, <3>1
    <3>3. Append(Window, saved)[k] = saved
      BY <2>1, <3>1
    <3>. QED  BY <1>1, <3>2, <3>3
  <2>4. k <= count \/ k = count + 1
    <3>1. count \in Nat
      BY <1>1
    <3>. QED  BY <3>1
  <2>. QED  BY <2>2, <2>3, <2>4
<1>8. Window' = Append(Window, saved)
  BY <1>4, <1>6, <1>7, SeqEquality
<1>. QED  BY <1>1, <1>2, <1>8 DEF Shifted

(* Overwriting the oldest slot drops it and appends the new period. *)
LEMMA ReplaceWindow ==
  ASSUME StoreInv, StoreInv', SaveStart, SaveReplace
  PROVE  Window' = Shifted(Window, saved + 1)
<1> USE DEF StoreInv, ShapeInv
<1> DEFINE new == saved + 1
<1>1. /\ Full /\ ~ Overwriting /\ count = Size /\ wpc = "idle"
      /\ first \in Slots /\ data \in [Slots -> Nat] /\ new \in Nat
  BY DEF SaveStart, SaveReplace, TypeOK, RingShape, Filling, Full, Overwriting
<1>2. /\ Window \in Seq(Nat) /\ Len(Window) = Size
      /\ \A k \in 1..Size : Window[k] = data[After(first, k - 1)]
  BY <1>1, WindowIsSeq, WindowPlaces
<1>3. /\ data' = [data EXCEPT ![first] = new] /\ first' = first
      /\ count' = count /\ wpc' = "repl_last"
  BY DEF SaveStart, SaveReplace
<1>4. Window' \in Seq(Nat) /\ Len(Window') = Size
  BY <1>1, <1>3, NextWindowIsSeq
<1>5. /\ \A k \in 1..Size - 1 : Window'[k] = data'[After(first, k)]
      /\ Window'[Size] = data'[first]
  <2>1. Overwriting' /\ count' = Size
    BY <1>1, <1>3 DEF Overwriting
  <2>2. \A k \in 1..count' :
          Window'[k] = data'[After(first', IF k < Size THEN k ELSE 0)]
    BY <2>1 DEF Window
  <2>3. After(first, 0) = first
    BY <1>1 DEF After
  <2>4. Window'[Size] = data'[first]
    BY <1>3, <2>1, <2>2, <2>3
  <2>. QED  BY <1>3, <2>1, <2>2, <2>4
<1>6. \A k \in 1..Size - 1 : Window'[k] = Window[k + 1]
  <2> SUFFICES ASSUME NEW k \in 1..Size - 1 PROVE Window'[k] = Window[k + 1]
    OBVIOUS
  <2>1. After(first, k) # first /\ After(first, k) \in Slots
    BY <1>1, AfterMoves
  <2>2. Window[k + 1] = data[After(first, k)]
    BY <1>2
  <2>. QED  BY <1>1, <1>3, <1>5, <2>1, <2>2
<1>7. Window'[Size] = new
  BY <1>1, <1>3, <1>5
<1>8. /\ Tail(Window) \in Seq(Nat) /\ Len(Tail(Window)) = Size - 1
      /\ \A k \in 1..Size - 1 : Tail(Window)[k] = Window[k + 1]
  <2>1. Len(Window) > 0
    BY <1>2
  <2>. QED  BY <1>2, <2>1, TailPlaces
<1>9. /\ Append(Tail(Window), new) \in Seq(Nat)
      /\ Len(Append(Tail(Window), new)) = Size
      /\ \A k \in 1..Size : Append(Tail(Window), new)[k] =
           IF k <= Size - 1 THEN Tail(Window)[k] ELSE new
  BY <1>1, <1>8, AppendPlaces, SMTT(30)
<1>10. \A k \in 1..Size : Window'[k] = Append(Tail(Window), new)[k]
  BY <1>6, <1>7, <1>8, <1>9
<1>11. Window' = Append(Tail(Window), new)
  BY <1>4, <1>9, <1>10, SeqEquality
<1>12. ~ (Len(Window) < Size)
  BY <1>2
<1>. QED  BY <1>11, <1>12 DEF Shifted

(* Storing a period that is not counted yet leaves the window alone. *)
LEMMA StoreWindow ==
  ASSUME StoreInv, StoreInv', SaveStart, SaveFill
  PROVE  Window' = Window
<1> USE DEF StoreInv, ShapeInv
<1>1. /\ Filling /\ last = count /\ first = 0 /\ data \in [Slots -> Nat]
      /\ count \in Nat /\ count < Size
  BY DEF SaveStart, SaveFill, TypeOK, RingShape, Filling, Full
<1>2. /\ Window \in Seq(Nat) /\ Len(Window) = count
      /\ \A k \in 1..count : Window[k] = data[k - 1]
  BY <1>1, WindowIsSeq, WindowPlaces
<1>3. /\ data' = [data EXCEPT ![last] = saved + 1] /\ first' = first
      /\ count' = count /\ wpc' = "fill_count"
  BY DEF SaveStart, SaveFill
<1>4. Window' \in Seq(Nat) /\ Len(Window') = count
  BY <1>3, NextWindowIsSeq
<1>5. \A k \in 1..count : Window'[k] = data'[k - 1]
  <2>1. ~ Overwriting'
    BY <1>3 DEF Overwriting
  <2>2. \A k \in 1..count' : Window'[k] = data'[After(first', k - 1)]
    BY <2>1 DEF Window
  <2>3. \A k \in 1..count : After(0, k - 1) = k - 1
    BY <1>1 DEF After
  <2>. QED  BY <1>1, <1>3, <2>2, <2>3
<1>6. \A k \in 1..count : data'[k - 1] = data[k - 1]
  BY <1>1, <1>3
<1>. QED  BY <1>2, <1>4, <1>5, <1>6, SeqEquality

(* Advancing first after the newest period went into its slot is silent. *)
LEMMA AdvanceWindow ==
  ASSUME StoreInv, StoreInv', ReplaceFirst
  PROVE  Window' = Window
<1> USE DEF StoreInv, ShapeInv
<1>1. Full /\ Overwriting /\ count = Size /\ first \in Slots
  BY DEF ReplaceFirst, TypeOK, RingShape, Filling, Full, Overwriting
<1>2. /\ Window \in Seq(Nat) /\ Len(Window) = Size
      /\ \A k \in 1..Size - 1 : Window[k] = data[After(first, k)]
      /\ Window[Size] = data[first]
  BY <1>1, WindowIsSeq, WindowPlaces
<1>3. data' = data /\ first' = Wrap(first) /\ count' = count /\ wpc' = "idle"
  BY DEF ReplaceFirst
<1>4. Window' \in Seq(Nat) /\ Len(Window') = Size
  BY <1>1, <1>3, NextWindowIsSeq
<1>5. \A k \in 1..Size : Window'[k] = data[After(Wrap(first), k - 1)]
  <2>1. ~ Overwriting'
    BY <1>3 DEF Overwriting
  <2>2. \A k \in 1..count' : Window'[k] = data'[After(first', k - 1)]
    BY <2>1 DEF Window
  <2>. QED  BY <1>1, <1>3, <2>2
<1>6. \A k \in 1..Size : Window'[k] = Window[k]
  <2> SUFFICES ASSUME NEW k \in 1..Size PROVE Window'[k] = Window[k]
    OBVIOUS
  <2>1. /\ Window'[k] = data[After(Wrap(first), k - 1)]
        /\ After(Wrap(first), k - 1) = IF k = Size THEN first
                                                   ELSE After(first, k)
    BY <1>1, <1>5, AfterWrap
  <2>2. CASE k = Size
    BY <1>2, <2>1, <2>2
  <2>3. CASE k \in 1..Size - 1
    <3>1. k # Size /\ Window[k] = data[After(first, k)]
      BY <1>2, <2>3
    <3>. QED  BY <2>1, <3>1
  <2>. QED  BY <2>2, <2>3
<1>. QED  BY <1>2, <1>4, <1>6, SeqEquality

(***************************************************************************)
(* Every step leaves the window alone or shifts one period in: the next    *)
(* one, in serial order.                                                   *)
(***************************************************************************)
LEMMA WindowStep ==
  ASSUME StoreInv, [Next]_vars
  PROVE  \/ Window' = Window /\ Recorded' = Recorded
         \/ /\ Recorded' = Recorded + 1 /\ Recorded' \in 1..MaxSaves
            /\ Window' = Shifted(Window, Recorded')
<1>1. StoreInv'
  BY NextStore
<1>2. saved \in Nat /\ saved' \in Nat /\ saved' <= MaxSaves
  BY <1>1 DEF StoreInv, ShapeInv, TypeOK
<1>3. CASE SaveStart
  <2>1. CASE SaveFill
    BY <1>1, <1>2, <1>3, <2>1, StoreWindow
       DEF SaveStart, SaveFill, Recorded
  <2>2. CASE SaveReplace
    BY <1>1, <1>2, <1>3, <2>2, ReplaceWindow
       DEF SaveStart, SaveReplace, Recorded
  <2>. QED  BY <1>3, <2>1, <2>2 DEF SaveStart
<1>4. CASE FillCount
  <2>1. /\ saved' = saved /\ wpc = "fill_count" /\ saved > 0
        /\ wpc' # "fill_count"
    BY <1>4 DEF FillCount, StoreInv
  <2>2. Recorded' = saved /\ Recorded = saved - 1
    BY <2>1 DEF Recorded
  <2>. QED  BY <1>1, <1>2, <1>4, <2>1, <2>2, FillWindow
<1>5. CASE FillLast \/ ReplaceLast
  BY <1>5 DEF FillLast, ReplaceLast, Window, Overwriting, Recorded
<1>6. CASE ReplaceFirst
  <2>1. Recorded' = Recorded
    BY <1>6 DEF ReplaceFirst, Recorded
  <2>. QED  BY <1>1, <1>6, <2>1, AdvanceWindow
<1>7. CASE Register \/ Signal \/ PrintAll \/ UNCHANGED vars
  BY <1>7 DEF Register, Signal, PrintAll, PrintStart, PrintLoop, PrintLast, vars,
              Window, Overwriting, Recorded
<1>. QED  BY <1>3, <1>4, <1>5, <1>6, <1>7 DEF Next, Save

-----------------------------------------------------------------------------
(* The window is exactly the latest periods. *)

LatestInv == StoreInv /\ RecordsLatest

LEMMA InitLatest == Init => LatestInv
<1> SUFFICES ASSUME Init PROVE RecordsLatest
  BY InitStore DEF LatestInv
<1>. QED  BY DEF Init, RecordsLatest, Recorded

(* Shifting a period into the latest window keeps it the latest. *)
LEMMA ShiftLatest ==
  ASSUME StoreInv, StoreInv', RecordsLatest,
         Recorded' = Recorded + 1, Window' = Shifted(Window, Recorded')
  PROVE  RecordsLatest'
<1>1. /\ Window \in Seq(Nat) /\ Len(Window) = count
      /\ Window' \in Seq(Nat) /\ Len(Window') = count'
      /\ count \in 0..Size /\ Recorded \in Nat
  <2>1. TypeOK /\ TypeOK'
    BY DEF StoreInv, ShapeInv
  <2>2. count \in 0..Size /\ Recorded \in Nat
    BY DEF StoreInv, ShapeInv, TypeOK, Recorded
  <2>. QED  BY <2>1, <2>2, WindowIsSeq, NextWindowIsSeq
<1> DEFINE new == Recorded + 1
<1>a. new \in Nat /\ Recorded' = new
  BY <1>1
<1> HIDE DEF new
<1>2. CASE count < Size
  <2>1. Window' = Append(Window, new)
    BY <1>1, <1>2, <1>a DEF Shifted
  <2>2. /\ count' = count + 1
        /\ \A k \in 1..count + 1 :
             Window'[k] = IF k <= count THEN Window[k] ELSE new
    <3>1. /\ Len(Append(Window, new)) = Len(Window) + 1
          /\ \A k \in 1..Len(Window) + 1 : Append(Window, new)[k] =
               IF k <= Len(Window) THEN Window[k] ELSE new
      BY <1>1, <1>a, AppendPlaces
    <3>. QED  BY <1>1, <2>1, <3>1
  <2>3. count = Recorded /\ \A k \in 1..count : Window[k] = k
    BY <1>1, <1>2 DEF RecordsLatest
  <2>4. new = count + 1
    BY <2>3 DEF new
  <2>5. \A k \in 1..count + 1 : Window'[k] = k
    BY <1>1, <2>2, <2>3, <2>4
  <2>. QED  BY <1>1, <1>2, <1>a, <2>2, <2>4, <2>5 DEF RecordsLatest
<1>3. CASE count = Size
  <2>1. Window' = Append(Tail(Window), new)
    BY <1>1, <1>3, <1>a DEF Shifted
  <2>2. /\ Tail(Window) \in Seq(Nat) /\ Len(Tail(Window)) = Size - 1
        /\ \A k \in 1..Size - 1 : Tail(Window)[k] = Window[k + 1]
    BY <1>1, <1>3, TailPlaces
  <2>3. /\ count' = Size
        /\ \A k \in 1..Size : Window'[k] =
             IF k <= Size - 1 THEN Window[k + 1] ELSE new
    <3>1. /\ Len(Append(Tail(Window), new)) = Size
          /\ \A k \in 1..Size : Append(Tail(Window), new)[k] =
               IF k <= Size - 1 THEN Tail(Window)[k] ELSE new
      BY <1>a, <2>2, AppendPlaces
    <3>2. count' = Size
      BY <1>1, <2>1, <3>1
    <3>3. \A k \in 1..Size :
            Window'[k] = IF k <= Size - 1 THEN Tail(Window)[k] ELSE new
      BY <2>1, <3>1
    <3>. QED  BY <2>2, <3>2, <3>3
  <2>4. /\ Recorded >= Size
        /\ \A k \in 1..Size : Window[k] = Recorded - Size + k
    <3>1. /\ count = IF Recorded < Size THEN Recorded ELSE Size
          /\ \A k \in 1..count : Window[k] = Recorded - count + k
      BY DEF RecordsLatest
    <3>. QED  BY <1>1, <1>3, <3>1
  <2>5. new = Recorded + 1
    BY DEF new
  <2>6. \A k \in 1..Size : Window'[k] = new - Size + k
    BY <1>1, <2>3, <2>4, <2>5
  <2>. QED  BY <1>1, <1>a, <2>3, <2>4, <2>5, <2>6 DEF RecordsLatest
<1>. QED  BY <1>1, <1>2, <1>3

LEMMA NextLatest == LatestInv /\ [Next]_vars => LatestInv'
<1> SUFFICES ASSUME LatestInv, [Next]_vars PROVE RecordsLatest'
  BY NextStore DEF LatestInv
<1>1. StoreInv /\ StoreInv'
  BY NextStore DEF LatestInv
<1>2. CASE Window' = Window /\ Recorded' = Recorded
  <2>1. count' = count
    BY <1>1, <1>2, WindowIsSeq, NextWindowIsSeq DEF StoreInv, ShapeInv
  <2>. QED  BY <1>2, <2>1 DEF LatestInv, RecordsLatest
<1>3. CASE Recorded' = Recorded + 1 /\ Window' = Shifted(Window, Recorded')
  BY <1>1, <1>3, ShiftLatest DEF LatestInv
<1>. QED  BY <1>1, <1>2, <1>3, WindowStep

(***************************************************************************)
(* At every store of stats_save, interrupted or not, the record holds      *)
(* exactly the latest periods, in order.                                   *)
(***************************************************************************)
THEOREM LatestCorrect == Spec => []RecordsLatest
<1>. QED  BY InitLatest, NextLatest, PTL DEF Spec, LatestInv

(***************************************************************************)
(* stats_save, store by store, implements the atomic window of the latest  *)
(* Size periods.                                                           *)
(***************************************************************************)
THEOREM WindowImplemented == Spec => ImplementsWindow
<1>1. Init => Abstract!WindowInit
  <2> SUFFICES ASSUME Init PROVE Window = << >>
    BY DEF Abstract!WindowInit
  <2>1. Window \in Seq(Nat) /\ Len(Window) = 0
    BY InitStore, WindowIsSeq DEF Init, StoreInv, ShapeInv
  <2>. QED  BY <2>1, EmptySeq
<1>2. StoreInv /\ [Next]_vars => [Abstract!WindowSave]_Window
  <2> SUFFICES ASSUME StoreInv, [Next]_vars, Window' # Window
               PROVE  Abstract!WindowSave
    OBVIOUS
  <2>1. /\ Recorded' \in 1..MaxSaves
        /\ Window' = Shifted(Window, Recorded')
    BY WindowStep
  <2>. QED  BY <2>1 DEF Abstract!WindowSave, Shifted
<1>. QED
  BY <1>1, <1>2, InitStore, NextStore, PTL
     DEF Spec, ImplementsWindow, Abstract!WindowSpec
-----------------------------------------------------------------------------
(* The handler beside stats_save. *)

(* The stores of one save, in order: the last one leaves it idle. *)
Stage(w) == IF w \in {"fill_count", "repl_last"} THEN 0
            ELSE IF w = "idle" THEN 2 ELSE 1

(* The slots that stats_print_all passes before it comes to last. *)
Reach == IF first <= last THEN last - first ELSE last - first + Size

(* Since the signal the thread that saves has only gone forward.           *)
HandlerInv ==
  /\ ~ stats_ptr => count = 0 /\ wpc = "idle"
  /\ ppc = "none" => out = << >>
  /\ ppc # "none" =>
       /\ atSignal.saved <= saved
       /\ atSignal.saved = saved => Stage(atSignal.wpc) <= Stage(wpc)

LEMMA InitHandler == Init => HandlerInv
BY DEF Init, HandlerInv

LEMMA NextHandler == StoreInv /\ HandlerInv /\ [Next]_vars => HandlerInv'
<1> SUFFICES ASSUME StoreInv, HandlerInv, [Next]_vars PROVE HandlerInv'
  OBVIOUS
<1>t. /\ saved \in Nat /\ atSignal.saved \in Nat /\ wpc \in Stores
      /\ atSignal.wpc \in Stores
  BY DEF StoreInv, ShapeInv, TypeOK
<1>1. CASE Register
  BY <1>1 DEF Register, HandlerInv
<1>2. CASE SaveStart
  <2>1. saved' = saved + 1 /\ stats_ptr' /\ UNCHANGED << ppc, out, atSignal >>
    BY <1>2 DEF SaveStart
  <2>2. ppc # "none" => atSignal'.saved < saved'
    BY <1>t, <2>1 DEF HandlerInv
  <2>. QED  BY <1>t, <2>1, <2>2 DEF HandlerInv
<1>3. CASE FillCount \/ FillLast \/ ReplaceLast \/ ReplaceFirst
  <2>1. UNCHANGED << stats_ptr, saved, ppc, out, atSignal >> /\ wpc # "idle"
    BY <1>3 DEF FillCount, FillLast, ReplaceLast, ReplaceFirst
  <2>2. Stage(wpc) <= Stage(wpc')
    BY <1>3, <1>t DEF FillCount, FillLast, ReplaceLast, ReplaceFirst, Stage
  <2>3. Stage(wpc) \in Nat /\ Stage(wpc') \in Nat /\ Stage(atSignal.wpc) \in Nat
    BY DEF Stage
  <2>. QED  BY <2>1, <2>2, <2>3 DEF HandlerInv
<1>4. CASE Signal
  <2>1. /\ atSignal'.saved = saved' /\ atSignal'.wpc = wpc' /\ ppc' # "none"
        /\ UNCHANGED << stats_ptr, count, wpc >>
    BY <1>4 DEF Signal
  <2>2. Stage(wpc') \in Nat /\ saved' \in Nat
    BY <1>t, <1>4 DEF Stage, Signal
  <2>. QED  BY <2>1, <2>2 DEF HandlerInv
<1>5. CASE PrintAll
  BY <1>5 DEF PrintAll, PrintStart, PrintLoop, PrintLast, HandlerInv
<1>6. CASE UNCHANGED vars
  BY <1>6 DEF vars, HandlerInv
<1>. QED  BY <1>1, <1>2, <1>3, <1>4, <1>5, <1>6 DEF Next, Save

(* As long as the handler has the thread to itself the record is as it was *)
(* when the signal came.                                                   *)
LEMMA FrozenRecord ==
  ASSUME StoreInv, HandlerInv, [Next]_vars, ppc # "none", Frozen'
  PROVE  /\ Frozen /\ UNCHANGED << data, first, last, count, wpc, saved, atSignal >>
         /\ Window' = Window /\ Reach' = Reach
<1>t. saved \in Nat /\ atSignal.saved \in Nat /\ wpc \in Stores
  BY DEF StoreInv, ShapeInv, TypeOK
<1>1. atSignal' = atSignal
  BY DEF Next, Register, Save, SaveStart, FillCount, FillLast, ReplaceLast,
         ReplaceFirst, Signal, PrintAll, PrintStart, PrintLoop, PrintLast, vars
<1>2. ~ SaveStart
  <2> SUFFICES ASSUME SaveStart PROVE FALSE
    OBVIOUS
  <2>1. saved' = saved + 1
    BY DEF SaveStart
  <2>2. saved' = atSignal.saved
    BY <1>1 DEF Frozen
  <2>3. atSignal.saved <= saved
    BY DEF HandlerInv
  <2>. QED  BY <1>t, <2>1, <2>2, <2>3
<1>3. ~ (FillCount \/ FillLast \/ ReplaceLast \/ ReplaceFirst)
  <2> SUFFICES ASSUME FillCount \/ FillLast \/ ReplaceLast \/ ReplaceFirst
               PROVE  FALSE
    OBVIOUS
  <2>1. saved' = saved /\ wpc' = atSignal.wpc /\ saved' = atSignal.saved
    BY <1>1 DEF FillCount, FillLast, ReplaceLast, ReplaceFirst, Frozen
  <2>2. Stage(wpc) < Stage(wpc')
    BY DEF FillCount, FillLast, ReplaceLast, ReplaceFirst, Stage
  <2>3. Stage(wpc) \in Nat /\ Stage(wpc') \in Nat
    BY DEF Stage
  <2>. QED  BY <2>1, <2>2, <2>3 DEF HandlerInv
<1>4. UNCHANGED << data, first, last, count, wpc, saved >>
  BY <1>2, <1>3 DEF Next, Register, Save, Signal, PrintAll, PrintStart, PrintLoop,
                    PrintLast, vars
<1>. QED  BY <1>1, <1>4 DEF Frozen, Window, Overwriting, Reach

(* Reach places after first is last, and no other place is. *)
LEMMA ReachIsLast ==
  ASSUME TypeOK
  PROVE  /\ Reach \in Slots /\ After(first, Reach) = last
         /\ \A k \in Slots : After(first, k) = last => k = Reach
BY DEF TypeOK, After, Reach

LEMMA AfterThenWrap ==
  ASSUME NEW x \in Slots, NEW k \in Slots, k + 1 \in Slots
  PROVE  Wrap(After(x, k)) = After(x, k + 1)
<1>1. After(x, k) \in Slots
  BY AfterInSlots
<1>2. Wrap(After(x, k)) = After(After(x, k), 1)
  BY <1>1, WrapIsNext
<1>. QED  BY <1>2 DEF After

(***************************************************************************)
(* What an undisturbed handler has printed: the slots from first on, and   *)
(* in the end those before last, the slot of last too once the ring is     *)
(* full.                                                                   *)
(***************************************************************************)
FrozenInv ==
  (ppc # "none" /\ Frozen) =>
    /\ atSignal.window = Window
    /\ ppc = "start" => out = << >>
    /\ ppc = "loop" => Len(out) <= Reach /\ i = After(first, Len(out))
    /\ ppc = "exited" => Len(out) = IF count = Size THEN Reach + 1 ELSE Reach
    /\ \A k \in 1..Len(out) : out[k] = data[After(first, k - 1)]

PrintInv == StoreInv /\ HandlerInv /\ FrozenInv

LEMMA InitPrint == Init => PrintInv
BY InitStore, InitHandler DEF Init, PrintInv, FrozenInv

LEMMA NextPrint == PrintInv /\ [Next]_vars => PrintInv'
<1> SUFFICES ASSUME StoreInv, HandlerInv, FrozenInv, [Next]_vars PROVE FrozenInv'
  BY NextStore, NextHandler DEF PrintInv
<1> SUFFICES ASSUME ppc' # "none", Frozen' PROVE FrozenInv'
  BY DEF FrozenInv
<1>t. TypeOK /\ RingShape /\ out \in Seq(Nat) /\ Len(out) \in Nat /\ count \in 0..Size
  BY DEF StoreInv, ShapeInv, TypeOK
<1>r. Reach \in Slots /\ After(first, Reach) = last
  BY <1>t, ReachIsLast
<1>z. count = 0 => Reach = 0 /\ last = 0 /\ first = 0
  BY <1>t DEF TypeOK, RingShape, Filling, Full, Reach
<1>1. CASE Signal
  <2>1. /\ out = << >> /\ out' = out /\ atSignal'.window = Window
        /\ UNCHANGED << data, first, last, count, wpc >>
        /\ ppc' = IF stats_ptr THEN "start" ELSE "exited"
    BY <1>1 DEF Signal, HandlerInv
  <2>2. Window' = Window /\ Reach' = Reach
    BY <2>1 DEF Window, Overwriting, Reach
  <2>3. Len(out') = 0
    BY <2>1
  <2>4. ppc' = "exited" => Reach = 0 /\ count # Size
    BY <1>z, <2>1 DEF HandlerInv
  <2>. QED  BY <2>1, <2>2, <2>3, <2>4 DEF FrozenInv
<1>2. CASE ppc # "none"
  <2>r. /\ Frozen /\ UNCHANGED << data, first, last, count, wpc, saved, atSignal >>
        /\ Window' = Window /\ Reach' = Reach
    BY <1>2, FrozenRecord
  <2>i. /\ atSignal.window = Window
        /\ ppc = "start" => out = << >>
        /\ ppc = "loop" => Len(out) <= Reach /\ i = After(first, Len(out))
        /\ ppc = "exited" => Len(out) = IF count = Size THEN Reach + 1 ELSE Reach
        /\ \A k \in 1..Len(out) : out[k] = data[After(first, k - 1)]
    BY <1>2, <2>r DEF FrozenInv
  <2>1. CASE PrintStart
    <3>1. out = << >> /\ out' = out /\ Len(out') = 0
      BY <2>1, <2>i DEF PrintStart
    <3>2. CASE count = 0
      BY <1>z, <2>1, <2>r, <2>i, <3>1, <3>2 DEF PrintStart, FrozenInv
    <3>3. CASE count # 0
      <4>1. ppc' = "loop" /\ i' = first
        BY <2>1, <3>3 DEF PrintStart
      <4>2. After(first, 0) = first
        BY <1>t DEF After, TypeOK
      <4>. QED  BY <1>r, <2>r, <2>i, <3>1, <4>1, <4>2 DEF FrozenInv
    <3>. QED  BY <3>2, <3>3
  <2>2. CASE PrintLoop
    <3>1. /\ ppc = "loop" /\ i # last /\ ppc' = ppc /\ i' = Wrap(i)
          /\ out' = Append(out, data[i])
      BY <2>2 DEF PrintLoop
    <3>2. Len(out) <= Reach /\ i = After(first, Len(out))
      BY <2>i, <3>1
    <3>3. Len(out) # Reach /\ Len(out) + 1 <= Reach
      BY <1>r, <1>t, <3>1, <3>2
    <3>4. i' = After(first, Len(out) + 1)
      <4>1. first \in Slots /\ Len(out) \in Slots /\ Len(out) + 1 \in Slots
        BY <1>r, <1>t, <3>3, SMTT(30) DEF TypeOK
      <4>. QED  BY <3>1, <3>2, <4>1, AfterThenWrap
    <3>5. data[i] \in Nat
      BY <1>t DEF TypeOK
    <3>6. /\ Len(out') = Len(out) + 1
          /\ \A k \in 1..Len(out) + 1 :
               out'[k] = IF k <= Len(out) THEN out[k] ELSE data[i]
      BY <1>t, <3>1, <3>5, AppendPlaces
    <3>7. \A k \in 1..Len(out) + 1 : out'[k] = data[After(first, k - 1)]
      <4> SUFFICES ASSUME NEW k \in 1..Len(out) + 1
                   PROVE  out'[k] = data[After(first, k - 1)]
        OBVIOUS
      <4>1. CASE k <= Len(out)
        <5>1. k \in 1..Len(out) /\ out'[k] = out[k]
          BY <1>t, <3>6, <4>1
        <5>. QED  BY <2>i, <5>1
      <4>2. CASE ~ (k <= Len(out))
        <5>1. k - 1 = Len(out)
          BY <1>t, <4>2
        <5>. QED  BY <3>2, <3>6, <4>2, <5>1
      <4>. QED  BY <4>1, <4>2
    <3>. QED  BY <2>r, <2>i, <3>1, <3>3, <3>4, <3>6, <3>7 DEF FrozenInv
  <2>3. CASE PrintLast
    <3>1. /\ ppc = "loop" /\ i = last /\ ppc' = "exited"
          /\ out' = IF count = Size THEN Append(out, data[last]) ELSE out
      BY <2>3 DEF PrintLast
    <3>2. Len(out) = Reach
      <4>1. Len(out) \in Slots /\ After(first, Len(out)) = last
        BY <1>r, <1>t, <2>i, <3>1
      <4>. QED  BY <1>t, <4>1, ReachIsLast
    <3>3. CASE count # Size
      <4>1. out' = out
        BY <3>1, <3>3
      <4>. QED  BY <2>r, <2>i, <3>1, <3>2, <3>3, <4>1 DEF FrozenInv
    <3>4. CASE count = Size
      <4>1. data[last] \in Nat
        BY <1>t DEF TypeOK
      <4>2. /\ Len(out') = Len(out) + 1
            /\ \A k \in 1..Len(out) + 1 :
                 out'[k] = IF k <= Len(out) THEN out[k] ELSE data[last]
        BY <1>t, <3>1, <3>4, <4>1, AppendPlaces
      <4>3. \A k \in 1..Len(out) + 1 : out'[k] = data[After(first, k - 1)]
        <5> SUFFICES ASSUME NEW k \in 1..Len(out) + 1
                     PROVE  out'[k] = data[After(first, k - 1)]
          OBVIOUS
        <5>1. CASE k <= Len(out)
          <6>1. k \in 1..Len(out) /\ out'[k] = out[k]
            BY <1>t, <4>2, <5>1
          <6>. QED  BY <2>i, <6>1
        <5>2. CASE ~ (k <= Len(out))
          <6>1. k - 1 = Reach
            BY <1>t, <3>2, <5>2
          <6>. QED  BY <1>r, <4>2, <5>2, <6>1
        <5>. QED  BY <5>1, <5>2
      <4>. QED  BY <2>r, <2>i, <3>1, <3>2, <3>4, <4>2, <4>3 DEF FrozenInv
    <3>. QED  BY <3>3, <3>4
  <2>4. CASE Register \/ Save \/ UNCHANGED vars
    <3>1. UNCHANGED << ppc, i, out >>
      BY <2>4 DEF Register, Save, SaveStart, FillCount, FillLast, ReplaceLast,
                  ReplaceFirst, vars
    <3>. QED  BY <2>r, <2>i, <3>1 DEF FrozenInv
  <2>5. CASE Signal
    BY <1>2, <2>5 DEF Signal
  <2>. QED  BY <2>1, <2>2, <2>3, <2>4, <2>5 DEF Next, PrintAll
<1>3. CASE ppc = "none" /\ ~ Signal
  BY <1>3 DEF Next, Register, Save, SaveStart, FillCount, FillLast, ReplaceLast,
              ReplaceFirst, PrintAll, PrintStart, PrintLoop, PrintLast, vars
<1>. QED  BY <1>1, <1>2, <1>3

(***************************************************************************)
(* A handler that finds no save in progress, and has the thread to itself, *)
(* prints the whole window, oldest first (stats_print_all).                *)
(***************************************************************************)
THEOREM WindowPrinted == Spec => []PrintsWindow
<1>1. PrintInv => PrintsWindow
  <2> SUFFICES ASSUME PrintInv, ppc = "exited", Frozen, wpc = "idle"
               PROVE  out = atSignal.window
    BY DEF PrintsWindow
  <2>t. /\ TypeOK /\ RingShape /\ out \in Seq(Nat) /\ count \in 0..Size
        /\ first \in Slots /\ last \in Slots
    BY DEF PrintInv, StoreInv, ShapeInv, TypeOK
  <2>1. /\ atSignal.window = Window
        /\ Len(out) = IF count = Size THEN Reach + 1 ELSE Reach
        /\ \A k \in 1..Len(out) : out[k] = data[After(first, k - 1)]
    BY DEF PrintInv, FrozenInv
  <2>2. ~ Overwriting
    BY DEF Overwriting
  <2>3. Window \in Seq(Nat) /\ Len(Window) = count
    BY <2>t, WindowIsSeq
  <2>4. \A k \in 1..count : Window[k] = data[After(first, k - 1)]
    BY <2>2 DEF Window
  <2>5. Len(out) = count
    <3>1. CASE Filling
      BY <2>t, <2>1, <3>1 DEF Filling, Reach
    <3>2. CASE Full
      <4>1. first = After(last, 1) /\ count = Size
        BY <2>t, <3>2, WrapIsNext DEF Full
      <4>. QED  BY <2>t, <2>1, <4>1 DEF Reach, After
    <3>. QED  BY <2>t, <3>1, <3>2 DEF RingShape
  <2>. QED  BY <2>t, <2>1, <2>3, <2>4, <2>5, SeqEquality
<1>. QED  BY <1>1, InitPrint, NextPrint, PTL DEF Spec, PrintInv

-----------------------------------------------------------------------------
(* A handler that interrupts a save. *)

(***************************************************************************)
(* The period in the k-th slot from first on: the oldest remembered one    *)
(* first, unless the newest has just been stored over it.                  *)
(***************************************************************************)
LEMMA SlotPeriods ==
  ASSUME StoreInv, RecordsLatest, NEW k \in 0..Size - 1,
         k < (IF count = Size THEN Reach + 1 ELSE Reach)
  PROVE  data[After(first, k)] =
           IF Overwriting
             THEN IF k = 0 THEN saved ELSE saved - Size + k
             ELSE Recorded - count + 1 + k
<1>t. /\ TypeOK /\ RingShape /\ count \in 0..Size /\ saved \in Nat
      /\ first \in Slots /\ last \in Slots
  BY DEF StoreInv, ShapeInv, TypeOK
<1>r. \A p \in 1..count : Window[p] = Recorded - count + p
  BY DEF RecordsLatest
<1>1. CASE Filling
  <2>1. ~ Overwriting /\ first = 0 /\ k + 1 \in 1..count /\ After(first, k) = k
    BY <1>t, <1>1 DEF Filling, Overwriting, Reach, After
  <2>2. Window[k + 1] = data[k]
    <3>1. \A p \in 1..count : Window[p] = data[p - 1]
      BY <1>t, <1>1, WindowPlaces
    <3>. QED  BY <2>1, <3>1
  <2>3. Window[k + 1] = Recorded - count + (k + 1)
    BY <1>r, <2>1
  <2>4. Recorded \in Int
    BY <1>t DEF Recorded
  <2>5. data[After(first, k)] = Window[k + 1]
    BY <2>1, <2>2
  <2>6. Recorded - count + (k + 1) = Recorded - count + 1 + k
    BY <1>t, <2>4
  <2>. QED  BY <2>1, <2>3, <2>5, <2>6
<1>2. CASE Full /\ ~ Overwriting
  <2>1. count = Size /\ k + 1 \in 1..Size
    BY <1>2 DEF Full
  <2>2. Window[k + 1] = data[After(first, k)]
    <3>1. \A p \in 1..Size : Window[p] = data[After(first, p - 1)]
      BY <1>t, <1>2, WindowPlaces
    <3>2. (k + 1) - 1 = k
      OBVIOUS
    <3>. QED  BY <2>1, <3>1, <3>2
  <2>3. Window[k + 1] = Recorded - count + (k + 1)
    BY <1>r, <2>1
  <2>4. Recorded \in Int
    BY <1>t DEF Recorded
  <2>. QED  BY <1>t, <1>2, <2>2, <2>3, <2>4
<1>3. CASE Full /\ Overwriting
  <2>1. count = Size /\ Recorded = saved
    BY <1>3 DEF Full, Overwriting, Recorded
  <2>2. /\ \A p \in 1..Size - 1 : Window[p] = data[After(first, p)]
        /\ Window[Size] = data[first]
    BY <1>t, <1>3, WindowPlaces
  <2>3. CASE k = 0
    <3>1. After(first, k) = first
      BY <1>t, <2>3 DEF After
    <3>2. Window[Size] = saved - Size + Size
      BY <1>r, <2>1
    <3>3. saved - Size + Size = saved
      BY <1>t
    <3>4. data[After(first, k)] = saved
      BY <2>2, <3>1, <3>2, <3>3
    <3>. QED  BY <1>3, <2>3, <3>4
  <2>4. CASE k \in 1..Size - 1
    <3>1. Window[k] = saved - Size + k
      BY <1>r, <2>1, <2>4
    <3>. QED  BY <1>3, <2>2, <2>4, <3>1
  <2>. QED  BY <2>3, <2>4
<1>. QED  BY <1>t, <1>1, <1>2, <1>3 DEF RingShape

(***************************************************************************)
(* A handler that interrupts stats_save between any two stores prints      *)
(* periods of the last Size + 1 only, and none of them twice.              *)
(***************************************************************************)
THEOREM InterruptedPrintRecent == Spec => []InterruptedPrintIsRecent
<1>1. PrintInv /\ RecordsLatest => InterruptedPrintIsRecent
  <2> SUFFICES ASSUME PrintInv, RecordsLatest, ppc # "none", Frozen
               PROVE  /\ \A k \in 1..Len(out) :
                           out[k] \in 1..saved /\ out[k] + Size >= saved
                      /\ \A j, k \in 1..Len(out) : j # k => out[j] # out[k]
    BY DEF InterruptedPrintIsRecent
  <2> DEFINE End == IF count = Size THEN Reach + 1 ELSE Reach
             Period(k) == IF Overwriting
                            THEN IF k = 0 THEN saved ELSE saved - Size + k
                            ELSE Recorded - count + 1 + k
  <2>t. /\ StoreInv /\ TypeOK /\ RingShape /\ out \in Seq(Nat) /\ Len(out) \in Nat
        /\ count \in 0..Size /\ saved \in Nat
        /\ first \in Slots /\ last \in Slots /\ ppc \in {"none", "start", "loop", "exited"}
    BY DEF PrintInv, StoreInv, ShapeInv, TypeOK
  <2>r. Reach \in Slots
    BY <2>t, ReachIsLast
  <2>i. /\ ppc = "start" => out = << >>
        /\ ppc = "loop" => Len(out) <= Reach
        /\ ppc = "exited" => Len(out) = End
        /\ \A k \in 1..Len(out) : out[k] = data[After(first, k - 1)]
    BY DEF PrintInv, FrozenInv
  <2>1. Len(out) <= End
    <3>1. CASE ppc = "start"
      <4>1. Len(out) = 0
        BY <2>i, <3>1
      <4>. QED  BY <2>r, <4>1
    <3>2. CASE ppc = "loop"
      BY <2>r, <2>i, <2>t, <3>2
    <3>3. CASE ppc = "exited"
      BY <2>r, <2>i, <2>t, <3>3
    <3>. QED  BY <2>t, <3>1, <3>2, <3>3
  <2>2. \A k \in 1..Len(out) : out[k] = Period(k - 1) /\ k - 1 \in 0..End - 1
    <3> SUFFICES ASSUME NEW k \in 1..Len(out)
                 PROVE  out[k] = Period(k - 1) /\ k - 1 \in 0..End - 1
      OBVIOUS
    <3>1. k - 1 \in 0..Size - 1 /\ k - 1 < End /\ k - 1 \in 0..End - 1
      BY <2>r, <2>t, <2>1
    <3>2. data[After(first, k - 1)] = Period(k - 1)
      BY <2>t, <3>1, SlotPeriods
    <3>. QED  BY <2>i, <3>1, <3>2
  <2>3. /\ count = IF Recorded < Size THEN Recorded ELSE Size
        /\ Recorded = IF wpc = "fill_count" THEN saved - 1 ELSE saved
        /\ wpc = "fill_count" => saved > 0
        /\ Overwriting => count = Size
    BY <2>t DEF RecordsLatest, Recorded, StoreInv, RingShape, Filling, Full, Overwriting
  <2>4. End <= count
    <3>1. CASE Filling
      BY <2>t, <3>1 DEF Filling, Reach
    <3>2. CASE Full
      BY <2>r, <2>t, <3>2 DEF Full
    <3>. QED  BY <2>t, <3>1, <3>2 DEF RingShape
  <2>5. \A k \in 0..End - 1 : Period(k) \in 1..saved /\ Period(k) + Size >= saved
    BY <2>r, <2>t, <2>3, <2>4
  <2>6. \A j, k \in 0..End - 1 : j # k => Period(j) # Period(k)
    BY <2>r, <2>t, <2>3, <2>4
  <2> HIDE DEF End, Period
  <2>7. \A k \in 1..Len(out) : out[k] \in 1..saved /\ out[k] + Size >= saved
    BY <2>2, <2>5
  <2>8. ASSUME NEW j \in 1..Len(out), NEW k \in 1..Len(out), j # k
        PROVE  out[j] # out[k]
    <3>1. j - 1 \in 0..End - 1 /\ k - 1 \in 0..End - 1 /\ j - 1 # k - 1
      BY <2>2, <2>8, <2>t
    <3>. QED  BY <2>2, <2>6, <3>1
  <2>. QED  BY <2>7, <2>8
<1>. QED
  BY <1>1, InitPrint, NextPrint, LatestCorrect, PTL DEF Spec, PrintInv

-----------------------------------------------------------------------------
(* A handler beside a ring that is being filled for the first time. *)

(* Nothing is replaced before the ring has been filled. *)
FirstLap == saved <= Size => first = 0 /\ ~ Overwriting

LEMMA NextFirstLap ==
  LatestInv /\ FirstLap /\ [Next]_vars => FirstLap'
<1> SUFFICES ASSUME LatestInv, FirstLap, [Next]_vars, saved' <= Size
             PROVE  first' = 0 /\ ~ Overwriting'
  BY DEF FirstLap
<1>t. /\ StoreInv /\ TypeOK /\ RingShape /\ RecordsLatest /\ saved \in Nat
      /\ count \in 0..Size
  BY DEF LatestInv, StoreInv, ShapeInv, TypeOK
<1>1. CASE SaveStart
  <2>1. saved' = saved + 1 /\ first' = first /\ wpc = "idle"
    BY <1>1 DEF SaveStart
  <2>2. first = 0 /\ saved < Size
    BY <1>t, <2>1 DEF FirstLap
  <2>3. count < Size
    BY <1>t, <2>1, <2>2 DEF RecordsLatest, Recorded
  <2>4. wpc' = "fill_count"
    BY <1>1, <1>t, <2>3 DEF SaveStart, SaveFill, SaveReplace
  <2>. QED  BY <2>1, <2>2, <2>4 DEF Overwriting
<1>2. CASE FillCount \/ FillLast
  BY <1>2 DEF FillCount, FillLast, FirstLap, Overwriting
<1>3. CASE ReplaceLast \/ ReplaceFirst
  BY <1>3 DEF ReplaceLast, ReplaceFirst, FirstLap, Overwriting
<1>4. CASE Register \/ Signal \/ PrintAll \/ UNCHANGED vars
  BY <1>4 DEF Register, Signal, PrintAll, PrintStart, PrintLoop, PrintLast, vars,
              FirstLap, Overwriting
<1>. QED  BY <1>1, <1>2, <1>3, <1>4 DEF Next, Save

(* On the first lap the slots hold the periods in order, and last is at    *)
(* most one behind count.                                                  *)
LEMMA FirstLapSlots ==
  ASSUME LatestInv, FirstLap, saved <= Size
  PROVE  /\ first = 0
         /\ \A k \in 1..count : Window[k] = k /\ data[k - 1] = k
         /\ last <= count /\ count <= last + 1
         /\ count = Size => last + 1 = Size
<1>t. /\ StoreInv /\ TypeOK /\ RingShape /\ RecordsLatest /\ saved \in Nat
      /\ count \in 0..Size /\ first \in Slots /\ last \in Slots
  BY DEF LatestInv, StoreInv, ShapeInv, TypeOK
<1>1. first = 0 /\ ~ Overwriting
  BY DEF FirstLap
<1>2. Recorded \in Int /\ Recorded <= Size /\ count = Recorded
  BY <1>t DEF Recorded, RecordsLatest
<1>3. \A k \in 1..count : Window[k] = k
  BY <1>t, <1>2 DEF RecordsLatest
<1>4. \A k \in 1..count : data[k - 1] = Window[k]
  <2>1. CASE Filling
    BY <1>t, <2>1, WindowPlaces
  <2>2. CASE Full
    <3>1. \A k \in 1..Size : Window[k] = data[After(first, k - 1)]
      BY <1>1, <1>t, <2>2, WindowPlaces
    <3>2. \A k \in 1..Size : After(0, k - 1) = k - 1
      BY DEF After
    <3>3. count = Size
      BY <2>2 DEF Full
    <3>. QED  BY <1>1, <3>1, <3>2, <3>3
  <2>. QED  BY <1>t, <2>1, <2>2 DEF RingShape
<1>5. /\ last <= count /\ count <= last + 1
      /\ count = Size => last + 1 = Size
  <2>1. CASE Filling
    BY <1>t, <2>1 DEF Filling
  <2>2. CASE Full
    <3>1. count = Size /\ first = After(last, 1)
      BY <1>1, <1>t, <2>2, WrapIsNext DEF Full, Overwriting
    <3>. QED  BY <1>1, <1>t, <3>1 DEF After
  <2>. QED  BY <1>t, <2>1, <2>2 DEF RingShape
<1>. QED  BY <1>1, <1>3, <1>4, <1>5

(***************************************************************************)
(* The handler follows last, which only advances on the first lap, and was *)
(* at most one behind the window it found.                                 *)
(***************************************************************************)
FillingInv ==
  (ppc # "none" /\ saved <= Size) =>
    /\ Len(atSignal.window) <= count
    /\ \A k \in 1..Len(atSignal.window) : atSignal.window[k] = k
    /\ ppc = "start" => out = << >>
    /\ ppc = "loop" => Len(out) <= last /\ i = Len(out)
    /\ ppc = "exited" => Len(atSignal.window) - 1 <= Len(out)
    /\ \A k \in 1..Len(out) : out[k] = k

LapInv == LatestInv /\ HandlerInv /\ FirstLap /\ FillingInv

LEMMA InitLap == Init => LapInv
BY InitLatest, InitHandler DEF Init, LapInv, FirstLap, FillingInv, Overwriting

LEMMA NextLap == LapInv /\ [Next]_vars => LapInv'
<1> SUFFICES ASSUME LapInv, [Next]_vars PROVE FillingInv'
  BY NextLatest, NextHandler, NextFirstLap DEF LapInv, LatestInv
<1> SUFFICES ASSUME ppc' # "none", saved' <= Size PROVE FillingInv'
  BY DEF FillingInv
<1>t. /\ StoreInv /\ TypeOK /\ RingShape /\ LatestInv /\ FirstLap /\ HandlerInv
      /\ saved \in Nat /\ count \in 0..Size /\ last \in Slots
      /\ out \in Seq(Nat) /\ Len(out) \in Nat
      /\ atSignal.window \in Seq(Nat) /\ Len(atSignal.window) \in Nat
  BY DEF LapInv, LatestInv, StoreInv, ShapeInv, TypeOK
<1>s. saved <= saved' /\ saved <= Size
  <2>1. saved' = saved \/ saved' = saved + 1
    BY DEF Next, Register, Save, SaveStart, FillCount, FillLast, ReplaceLast,
           ReplaceFirst, Signal, PrintAll, PrintStart, PrintLoop, PrintLast, vars
  <2>. QED  BY <1>t, <2>1
<1>l. /\ first = 0
      /\ \A k \in 1..count : Window[k] = k /\ data[k - 1] = k
      /\ last <= count /\ count <= last + 1
      /\ count = Size => last + 1 = Size
  BY <1>s, <1>t, FirstLapSlots
<1>i. ppc # "none" =>
        /\ Len(atSignal.window) <= count
        /\ \A k \in 1..Len(atSignal.window) : atSignal.window[k] = k
        /\ ppc = "start" => out = << >>
        /\ ppc = "loop" => Len(out) <= last /\ i = Len(out)
        /\ ppc = "exited" => Len(atSignal.window) - 1 <= Len(out)
        /\ \A k \in 1..Len(out) : out[k] = k
  BY <1>s DEF LapInv, FillingInv
<1>1. CASE Signal
  <2>1. /\ out' = out /\ out = << >> /\ atSignal'.window = Window /\ count' = count
        /\ ppc' = IF stats_ptr THEN "start" ELSE "exited"
    BY <1>1, <1>t DEF Signal, HandlerInv
  <2>2. Len(Window) = count /\ Len(out') = 0
    BY <1>t, <2>1, WindowIsSeq
  <2>3. ppc' = "exited" => count = 0
    BY <1>t, <2>1 DEF HandlerInv
  <2>. QED  BY <1>l, <1>t, <2>1, <2>2, <2>3 DEF FillingInv
<1>2. CASE PrintStart
  <2>1. out = << >> /\ out' = out /\ Len(out') = 0
    BY <1>2, <1>i DEF PrintStart
  <2>2. CASE count = 0
    BY <1>2, <1>i, <1>t, <2>1, <2>2 DEF PrintStart, FillingInv
  <2>3. CASE count # 0
    BY <1>2, <1>i, <1>l, <1>t, <2>1, <2>3 DEF PrintStart, FillingInv
  <2>. QED  BY <2>2, <2>3
<1>3. CASE PrintLoop
  <2>1. /\ ppc = "loop" /\ i # last /\ ppc' = ppc /\ i' = Wrap(i)
        /\ out' = Append(out, data[i])
        /\ UNCHANGED << count, last, atSignal >>
    BY <1>3 DEF PrintLoop
  <2>2. i = Len(out) /\ Len(out) + 1 <= last
    BY <1>i, <1>t, <2>1
  <2>3. Wrap(i) = Len(out) + 1
    BY <1>t, <2>2, WrapIsNext DEF After
  <2>4. data[i] = Len(out) + 1
    <3>1. Len(out) + 1 \in 1..count /\ (Len(out) + 1) - 1 = Len(out)
      BY <1>l, <1>t, <2>2
    <3>. QED  BY <1>l, <2>2, <3>1
  <2>5. /\ Len(out') = Len(out) + 1
        /\ \A k \in 1..Len(out) + 1 :
             out'[k] = IF k <= Len(out) THEN out[k] ELSE Len(out) + 1
    BY <1>t, <2>1, <2>4, AppendPlaces
  <2>6. \A k \in 1..Len(out) + 1 : out'[k] = k
    BY <1>i, <1>t, <2>1, <2>5
  <2>. QED  BY <1>i, <1>t, <2>1, <2>2, <2>3, <2>5, <2>6 DEF FillingInv
<1>4. CASE PrintLast
  <2>1. /\ ppc = "loop" /\ i = last /\ ppc' = "exited"
        /\ out' = IF count = Size THEN Append(out, data[last]) ELSE out
        /\ UNCHANGED << count, last, atSignal >>
    BY <1>4 DEF PrintLast
  <2>2. i = Len(out) /\ Len(out) = last
    BY <1>i, <2>1
  <2>3. CASE count # Size
    <3>1. out' = out /\ Len(atSignal.window) - 1 <= Len(out)
      BY <1>i, <1>l, <1>t, <2>1, <2>2, <2>3
    <3>. QED  BY <1>i, <2>1, <3>1 DEF FillingInv
  <2>4. CASE count = Size
    <3>1. data[last] = Len(out) + 1
      <4>1. last + 1 \in 1..count /\ (last + 1) - 1 = last
        BY <1>l, <1>t, <2>4
      <4>. QED  BY <1>l, <2>2, <4>1
    <3>2. /\ Len(out') = Len(out) + 1
          /\ \A k \in 1..Len(out) + 1 :
               out'[k] = IF k <= Len(out) THEN out[k] ELSE Len(out) + 1
      BY <1>t, <2>1, <2>4, <3>1, AppendPlaces
    <3>3. \A k \in 1..Len(out) + 1 : out'[k] = k
      BY <1>i, <1>t, <2>1, <3>2
    <3>. QED  BY <1>i, <1>l, <1>t, <2>1, <2>2, <2>4, <3>2, <3>3, SMTT(30)
              DEF FillingInv
  <2>. QED  BY <2>3, <2>4
<1>5. CASE Save
  <2>1. UNCHANGED << ppc, i, out, atSignal >> /\ Running
    BY <1>5 DEF Save, SaveStart, FillCount, FillLast, ReplaceLast, ReplaceFirst
  <2>2. count <= count' /\ last <= last'
    <3>1. CASE SaveStart
      BY <1>t, <3>1 DEF SaveStart
    <3>2. CASE FillCount
      BY <1>t, <3>2 DEF FillCount
    <3>3. CASE FillLast
      <4>1. last + 1 < Size
        BY <1>t, <3>3 DEF FillLast, RingShape, Filling, Full
      <4>2. Wrap(last) = last + 1
        BY <1>t, <4>1, WrapIsNext DEF After
      <4>. QED  BY <1>t, <3>3, <4>2 DEF FillLast
    <3>4. CASE ReplaceLast \/ ReplaceFirst
      BY <1>s, <1>t, <3>4 DEF ReplaceLast, ReplaceFirst, FirstLap, Overwriting
    <3>. QED  BY <1>5, <3>1, <3>2, <3>3, <3>4 DEF Save
  <2>3. count' \in 0..Size /\ last' \in Slots
    BY NextStore DEF LapInv, LatestInv, StoreInv, ShapeInv, TypeOK
  <2>4. ppc # "none" /\ ppc # "exited"
    BY <2>1 DEF Running
  <2>5. /\ Len(atSignal.window) <= count'
        /\ ppc = "loop" => Len(out) <= last'
    BY <1>i, <1>t, <2>1, <2>2, <2>3, <2>4
  <2>. QED  BY <1>i, <2>1, <2>4, <2>5 DEF FillingInv
<1>6. CASE Register \/ UNCHANGED vars
  BY <1>6, <1>i DEF Register, vars, FillingInv
<1>. QED  BY <1>1, <1>2, <1>3, <1>4, <1>5, <1>6 DEF Next, PrintAll

(***************************************************************************)
(* Until the ring has been filled for the first time, a handler that runs  *)
(* beside stats_save or interrupts it loses at most the newest period.     *)
(***************************************************************************)
THEOREM FillingPrinted == Spec => []FillingLosesAtMostTheNewest
<1>1. LapInv => FillingLosesAtMostTheNewest
  <2> SUFFICES ASSUME LapInv, ppc = "exited", saved <= Size,
                      NEW k \in 1..Len(atSignal.window) - 1
               PROVE  k <= Len(out) /\ out[k] = atSignal.window[k]
    BY DEF FillingLosesAtMostTheNewest
  <2>1. Len(out) \in Nat /\ Len(atSignal.window) \in Nat
    BY SMTT(30) DEF LapInv, LatestInv, StoreInv, ShapeInv, TypeOK
  <2>2. /\ \A p \in 1..Len(atSignal.window) : atSignal.window[p] = p
        /\ Len(atSignal.window) - 1 <= Len(out)
        /\ \A p \in 1..Len(out) : out[p] = p
    BY DEF LapInv, FillingInv
  <2>. QED  BY <2>1, <2>2
<1>. QED  BY <1>1, InitLap, NextLap, PTL DEF Spec
=============================================================================
