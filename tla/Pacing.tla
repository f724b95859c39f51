------------------------------- MODULE Pacing -------------------------------
(***************************************************************************)
(* The timing of the core loop's main loop and of a scheduled tick. An     *)
(* iteration measures the time since the last one, keeps a running mean of *)
(* it, runs the plugins' ticks, and sleeps for what the heart beat leaves  *)
(* of the time, lengthened or shortened by what the mean is off.           *)
(*                                                                         *)
(* Time is counted in units of the clock, Unit of them in a base_time; a   *)
(* duration_cast drops the rest. The mean, a float, is a multiple of       *)
(* 1/Grain here, and its update may be rounded to either neighbour.        *)
(***************************************************************************)
EXTENDS Integers

CONSTANTS
    HeartBeat,  \* traits::heart_beat
    Unit,       \* units of the clock in one base_time
    Grain,      \* steps of the mean in one base_time
    Period,     \* base_time_per_tick of the scheduled tick
    Works,      \* how long, in units, the ticks of an iteration may take
    Jitters     \* how much longer than asked a sleep may be

ASSUME ConstantsAssumption ==
    /\ {HeartBeat, Unit, Grain} \subseteq Nat \ {0}
    /\ Period \in Nat
    /\ Works \subseteq Nat /\ Works # {}
    /\ Jitters \subseteq Nat /\ Jitters # {}

VARIABLES
    phase,    \* where the main loop is: "time", "tick" or "sleep"
    lag,      \* the time since _now, in units
    diff,     \* diff
    mean,     \* _diff_mean, in steps
    elapsed,  \* _elapsed of the scheduled tick
    real,     \* the time elapsed stands for, in units (history)
    ticks     \* the iterations it stands for (history)

vars == <<phase, lag, diff, mean, elapsed, real, ticks>>

\* One type of every variable. What is kept for the next scheduled tick is never
\* more than its period.
TypeOK ==
    /\ phase \in {"time", "tick", "sleep"}
    /\ {lag, diff, mean, real, ticks} \subseteq Nat
    /\ elapsed \in 0 .. Period

\* The core loop was constructed some time before its first iteration.
Init ==
    /\ phase = "time"
    /\ lag \in Works
    /\ diff = 0
    /\ mean = 0
    /\ elapsed = 0
    /\ real = 0
    /\ ticks = 0

\* Mistake: rounded up.
InCastRoundedUp(time) == (time + Unit - 1) \div Unit

\* duration_cast<base_time>.
InCast(time) == time \div Unit

\* std::ceil(_diff_mean).
MeanCeiling == (mean + Grain - 1) \div Grain

\* 0.95f * _diff_mean + 0.05f * diff.count(), rounded down or up.
Means(d) ==
    LET sum == 19 * mean + d * Grain IN {sum \div 20, (sum + 19) \div 20}

\* The iteration's time: diff, and the mean.
TakeTime ==
    /\ phase = "time"
    /\ diff' = InCast(lag)
    /\ mean' \in Means(diff')
    /\ real' = real + lag
    /\ lag' = 0
    /\ phase' = "tick"
    /\ UNCHANGED <<elapsed, ticks>>

\* Mistake: _elapsed is reset whether or not it was reported.
TickResets(w) ==
    /\ phase = "tick"
    /\ elapsed' = 0 /\ real' = 0
    /\ ticks' = IF elapsed + diff > Period THEN 0 ELSE 1
    /\ lag' = w
    /\ phase' = "sleep"
    /\ UNCHANGED <<diff, mean>>

\* The ticks of the plugins take w. The scheduled one adds diff up and, past its
\* period, reports what it has and begins anew.
Tick(w) ==
    /\ phase = "tick"
    /\ IF elapsed + diff > Period
       THEN elapsed' = 0 /\ real' = 0 /\ ticks' = 0
       ELSE /\ elapsed' = elapsed + diff
            /\ ticks' = ticks + 1
            /\ UNCHANGED real
    /\ lag' = w
    /\ phase' = "sleep"
    /\ UNCHANGED <<diff, mean>>

\* Mistake: the mean is subtracted where it should be added.
UpdateTimeSwapped == InCast(lag) + (HeartBeat - MeanCeiling)

\* update_time.
UpdateTime == InCast(lag) + (MeanCeiling - HeartBeat)

\* A sleep is late by j.
Sleep(j) ==
    /\ phase = "sleep"
    /\ lag' = IF UpdateTime < HeartBeat
              THEN lag + (HeartBeat - UpdateTime) * Unit + j
              ELSE lag
    /\ phase' = "time"
    /\ UNCHANGED <<diff, mean, elapsed, real, ticks>>

Next ==
    \/ TakeTime
    \/ \E w \in Works : Tick(w)
    \/ \E j \in Jitters : Sleep(j)

\* The main loop runs.
Spec == Init /\ [][Next]_vars /\ WF_vars(Next)

----------------------------------------------------------------------------
(***************************************************************************)
(* Properties.                                                             *)
(***************************************************************************)

\* What the scheduled tick reports if it reports now, and the iterations in it.
Reported   == elapsed + (IF phase = "tick" THEN diff ELSE 0)
Iterations == ticks + (IF phase = "tick" THEN 1 ELSE 0)

\* What a scheduled tick reports is short of the time that has passed since the
\* last one, by less than one base_time for each iteration in between.
ReportedTimeIsClose ==
    /\ Reported * Unit <= real
    /\ real <= Reported * Unit + Iterations * (Unit - 1)

\* After a stall iterations do not sleep, and can be too short to be counted:
\* scheduled ticks come again all the same.
ScheduledTicksGoOn == []<><<\E w \in Works : Tick(w) /\ ticks' = 0>>_vars

\* The loop falls back into its pace: when ticks that take a base_time or more
\* end, iterations differ by at most one base_time from the heart beat in the end.
PaceRecovers ==
    <>[][\A w \in Works : w >= Unit => ~Tick(w)]_vars
        => <>[](diff \in HeartBeat - 1 .. HeartBeat + 1)

=============================================================================
