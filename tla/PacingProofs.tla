----------------------------- MODULE PacingProofs -----------------------------
(***************************************************************************)
(* Proofs about Pacing, for any heart beat, clock, period, works and       *)
(* jitters.                                                                *)
(***************************************************************************)
EXTENDS Pacing, TLAPS

----------------------------------------------------------------------------
(***************************************************************************)
(* Arithmetic.                                                             *)
(***************************************************************************)

\* duration_cast rounds down: what it drops is less than a base_time.
LEMMA CastRoundsDown ==
    ASSUME NEW t \in Nat
    PROVE  /\ InCast(t) \in Nat
           /\ InCast(t) * Unit <= t
           /\ t <= InCast(t) * Unit + (Unit - 1)
BY ConstantsAssumption DEF InCast

\* The mean of two times is a time.
LEMMA MeansAreTimes ==
    ASSUME mean \in Nat, NEW d \in Nat
    PROVE  Means(d) \subseteq Nat
BY ConstantsAssumption DEF Means

\* Two counts of base_times, converted to units, add up.
LEMMA Distributes ==
    ASSUME NEW a \in Int, NEW b \in Int, NEW c \in Int
    PROVE  (a + b) * c = a * c + b * c
OBVIOUS
----------------------------------------------------------------------------
(***************************************************************************)
(* Type correctness.                                                       *)
(***************************************************************************)

\* The times that are kept, diff, the mean and the time since the last iteration, are
\* never negative, although update_time is as long as the mean is far below the heart
\* beat, and what the scheduled tick keeps stays within its period.
THEOREM TypeCorrect == Spec => []TypeOK
<1>1. Init => TypeOK
  BY ConstantsAssumption DEF Init, TypeOK
<1>2. TypeOK /\ [Next]_vars => TypeOK'
  <2> SUFFICES ASSUME TypeOK, [Next]_vars PROVE TypeOK'
    OBVIOUS
  <2> USE ConstantsAssumption DEF TypeOK
  <2>1. CASE TakeTime
    <3>1. diff' \in Nat /\ Means(diff') \subseteq Nat
      BY <2>1, CastRoundsDown, MeansAreTimes DEF TakeTime
    <3> QED
      BY <2>1, <3>1 DEF TakeTime
  <2>2. ASSUME NEW w \in Works, Tick(w)
        PROVE  TypeOK'
    <3>1. w \in Nat
      OBVIOUS
    <3> QED
      BY <2>2, <3>1 DEF Tick
  <2>3. ASSUME NEW j \in Jitters, Sleep(j)
        PROVE  TypeOK'
    <3>1. UpdateTime \in Int
      <4>1. MeanCeiling \in Int
        BY DEF MeanCeiling
      <4> QED
        BY <4>1, CastRoundsDown DEF UpdateTime
    <3>2. UpdateTime < HeartBeat => (HeartBeat - UpdateTime) * Unit \in Nat
      BY <3>1
    <3>3. lag' \in Nat
      BY <2>3, <3>1, <3>2 DEF Sleep
    <3> QED
      BY <2>3, <3>3 DEF Sleep
  <2>4. CASE UNCHANGED vars
    BY <2>4 DEF vars
  <2> QED
    BY <2>1, <2>2, <2>3, <2>4 DEF Next
<1> QED
  BY <1>1, <1>2, PTL DEF Spec

----------------------------------------------------------------------------
(***************************************************************************)
(* What a scheduled tick reports.                                          *)
(***************************************************************************)

\* However many iterations are added up, a scheduled tick reports less than a
\* base_time too little for each, and never too much: for every clock and period,
\* and however long the ticks take and the sleeps are late.
THEOREM ReportedTime == Spec => []ReportedTimeIsClose
<1> USE ConstantsAssumption DEF TypeOK, ReportedTimeIsClose, Reported, Iterations
<1>1. Init => ReportedTimeIsClose
  BY DEF Init
<1>2. TypeOK /\ ReportedTimeIsClose /\ [Next]_vars => ReportedTimeIsClose'
  <2> SUFFICES ASSUME TypeOK, ReportedTimeIsClose, [Next]_vars
               PROVE  ReportedTimeIsClose'
    OBVIOUS
  <2>1. CASE TakeTime
    <3>1. /\ elapsed * Unit <= real
          /\ real <= elapsed * Unit + ticks * (Unit - 1)
      BY <2>1 DEF TakeTime
    <3>2. /\ diff' \in Nat /\ real' = real + lag
          /\ diff' * Unit <= lag /\ lag <= diff' * Unit + (Unit - 1)
      BY <2>1, CastRoundsDown DEF TakeTime
    <3>3. /\ (elapsed + diff') * Unit = elapsed * Unit + diff' * Unit
          /\ (ticks + 1) * (Unit - 1) = ticks * (Unit - 1) + (Unit - 1)
      BY <3>2, Distributes
    <3>4. /\ (elapsed + diff') * Unit <= real'
          /\ real' <= (elapsed + diff') * Unit + (ticks + 1) * (Unit - 1)
      BY <3>1, <3>2, <3>3
    <3> QED
      BY <2>1, <3>4 DEF TakeTime
  <2>2. ASSUME NEW w \in Works, Tick(w)
        PROVE  ReportedTimeIsClose'
    BY <2>2 DEF Tick
  <2>3. ASSUME NEW j \in Jitters, Sleep(j)
        PROVE  ReportedTimeIsClose'
    BY <2>3 DEF Sleep
  <2>4. CASE UNCHANGED vars
    BY <2>4 DEF vars
  <2> QED
    BY <2>1, <2>2, <2>3, <2>4 DEF Next
<1> QED
  BY <1>1, <1>2, TypeCorrect, PTL DEF Spec

=============================================================================
