-------------------------- MODULE BacktestSchedule --------------------------
(***************************************************************************)
(* What a TestFixture promises of its days, with no threads, no queue and  *)
(* no memory limit: every strategy instance replays every working day of   *)
(* the requested period, one at a time, in calendar order, none skipped    *)
(* and none repeated.                                                      *)
(***************************************************************************)
EXTENDS Calendar

CONSTANTS NumInst,     \* how many strategy instances the request configures
          StartDate,   \* the first day of the period
          EndDate      \* the first day after it

VARIABLES current_date, \* the last day each instance replayed
          running       \* the <<instance, day>> pairs being replayed

vars == <<current_date, running>>

Insts == 1 .. NumInst

WorkingDays == {d \in StartDate .. EndDate - 1 : IsWeekday(d)}

\* d is the first working day of the period after c.
IsNextDay(c, d) ==
  /\ d \in WorkingDays
  /\ c < d
  /\ \A e \in WorkingDays : c < e => d <= e

TypeOK ==
  /\ current_date \in [Insts -> Int]
  /\ running \subseteq Insts \X WorkingDays

Init ==
  /\ current_date = [i \in Insts |-> StartDate - 1]
  /\ running = {}

Begin(i, d) ==
  /\ \A p \in running : p[1] # i
  /\ IsNextDay(current_date[i], d)
  /\ running' = running \cup {<<i, d>>}
  /\ UNCHANGED current_date

End(i, d) ==
  /\ <<i, d>> \in running
  /\ running' = running \ {<<i, d>>}
  /\ current_date' = [current_date EXCEPT ![i] = d]

Next == \E i \in Insts, d \in WorkingDays : Begin(i, d) \/ End(i, d)

Spec == Init /\ [][Next]_vars

FairSpec == Spec /\ \A i \in Insts, d \in WorkingDays :
                      WF_vars(Begin(i, d)) /\ WF_vars(End(i, d))
=============================================================================
