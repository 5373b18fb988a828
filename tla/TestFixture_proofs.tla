-------------------------- MODULE TestFixture_proofs --------------------------
(***************************************************************************)
(* Proofs about TestFixture, for any number of instances, workers and      *)
(* instruments, any period and any memory limit.                           *)
(***************************************************************************)
EXTENDS TestFixture, FiniteSetTheorems, TLAPS

-----------------------------------------------------------------------------
(* The calendar.                                                           *)

\* getNextWorkingDay returns the first weekday after the given day.
LEMMA NextWorkingDayIsFirst ==
  ASSUME NEW c \in Int
  PROVE  /\ getNextWorkingDay(c) \in Int
         /\ c < getNextWorkingDay(c)
         /\ IsWeekday(getNextWorkingDay(c))
         /\ \A e \in Int : IsWeekday(e) /\ c < e => getNextWorkingDay(c) <= e
<1> DEFINE n == getNextWorkingDay(c)
<1>1. CASE DayOfWeek(c) = Friday
  <2>1. n = c + 3
    BY <1>1 DEF getNextWorkingDay, Friday, Saturday
  <2>2. DayOfWeek(c + 1) = 6 /\ DayOfWeek(c + 2) = 0 /\ DayOfWeek(c + 3) = 1
    BY <1>1 DEF DayOfWeek, Friday
  <2>3. \A e \in Int : c < e /\ e < c + 3 => e = c + 1 \/ e = c + 2
    OBVIOUS
  <2> QED
    BY <2>1, <2>2, <2>3 DEF IsWeekday, Saturday, Sunday
<1>2. CASE DayOfWeek(c) = Saturday
  <2>1. n = c + 2
    BY <1>2 DEF getNextWorkingDay, Friday, Saturday
  <2>2. DayOfWeek(c + 1) = 0 /\ DayOfWeek(c + 2) = 1
    BY <1>2 DEF DayOfWeek, Saturday
  <2>3. \A e \in Int : c < e /\ e < c + 2 => e = c + 1
    OBVIOUS
  <2> QED
    BY <2>1, <2>2, <2>3 DEF IsWeekday, Saturday, Sunday
<1>3. CASE DayOfWeek(c) # Friday /\ DayOfWeek(c) # Saturday
  <2>1. n = c + 1
    BY <1>3 DEF getNextWorkingDay, Friday, Saturday
  <2>2. DayOfWeek(c + 1) # 6 /\ DayOfWeek(c + 1) # 0
    BY <1>3 DEF DayOfWeek, Friday, Saturday
  <2> QED
    BY <2>1, <2>2 DEF IsWeekday, Saturday, Sunday
<1> QED
  BY <1>1, <1>2, <1>3

-----------------------------------------------------------------------------
(* Type correctness.                                                       *)

\* Every instance starts with a date, every worker with nothing to do.
LEMMA TypeOKInit == Init => TypeOK
  BY NumInstAssumption, DateAssumption DEF Init, TypeOK, Busy, Tasks, Insts

\* No step of a thread takes a variable out of its type.
LEMMA TypeOKStep == TypeOK /\ [Next]_vars => TypeOK'
<1> USE NumInstAssumption, DateAssumption, MaxDayAssumption DEF Insts
<1> SUFFICES ASSUME TypeOK, [Next]_vars PROVE TypeOK'
  OBVIOUS
<1> USE DEF TypeOK, Busy, producerVars, workerVars, dataVars
<1>1. CASE Fetch
  BY <1>1 DEF Fetch, CacheFile
<1>2. CASE Produce
  <2>1. CASE PostTask
    <3>1. [inst |-> postIdx, date |-> date] \in Tasks
      BY <2>1 DEF PostTask, MoreToPost, Tasks
    <3>2. queue' \in Seq(Tasks)
      BY <2>1, <3>1 DEF PostTask
    <3> QED
      BY <2>1, <3>2 DEF PostTask, MoreToPost
  <2>2. CASE ReturnFromProcessOneDay
    BY <2>2 DEF ReturnFromProcessOneDay, Drop
  <2>3. CASE SkipWeekend \/ PassMemoryCheck \/ StartDay \/ EndOfPeriod \/ DeleteWork
    BY <2>3 DEF SkipWeekend, PassMemoryCheck, StartDay, EndOfPeriod, DeleteWork
  <2>4. CASE Load
    BY <2>4 DEF Load, LoadInstrument
  <2>5. CASE JoinLoads
    BY <2>5 DEF JoinLoads
  <2> QED
    BY <1>2, <2>1, <2>2, <2>3, <2>4, <2>5 DEF Produce
<1>3. ASSUME NEW w \in Workers, Work(w) PROVE TypeOK'
  <2>1. CASE TakeTask(w)
    <3>1. Head(queue) \in Tasks /\ Tail(queue) \in Seq(Tasks)
      BY <2>1 DEF TakeTask
    <3> QED
      BY <2>1, <3>1 DEF TakeTask
  <2>2. CASE RepostTask(w)
    <3>1. queue' = Append(queue, task[w]) /\ task[w] \in Tasks
      BY <2>2 DEF RepostTask, Requeued
    <3>2. queue' \in Seq(Tasks)
      BY <3>1
    <3> QED
      BY <2>2, <3>2 DEF RepostTask
  <2>3. CASE ReleaseTask(w)
    BY <2>3 DEF ReleaseTask, Drop
  <2>4. CASE FinishReplay(w)
    BY <2>4 DEF FinishReplay, Tasks
  <2>5. CASE Decide(w) \/ ExitRun(w)
    BY <2>5 DEF Decide, ExitRun
  <2> QED
    BY <1>3, <2>1, <2>2, <2>3, <2>4, <2>5 DEF Work
<1>4. CASE UNCHANGED vars
  BY <1>4 DEF vars
<1> QED
  BY <1>1, <1>2, <1>3, <1>4 DEF Next

\* The variables of testfixture.cpp keep their types, whatever the threads do.
THEOREM TypeInvariant == Spec => []TypeOK
  BY TypeOKInit, TypeOKStep, PTL DEF Spec

-----------------------------------------------------------------------------
(* The inductive invariant, one lemma per kind of step.  A step keeps the   *)
(* tasks in order, and loses no day: one that is lost after it was lost     *)
(* before.                                                                  *)

LosesNothing == \A i \in Insts, d \in WorkingDays : Lost(i, d)' => Lost(i, d)

\* The parts of TaskInv that speak of tasks hold after any step of the
\* fetch thread or the producer that posts nothing, also if it skips days.
LEMMA NoTaskMoved ==
  ASSUME TaskInv, TypeOK',
         UNCHANGED <<queue, worker, task, current_date>>,
         \A i \in Insts, d \in Int : Posted(i, d) => Posted(i, d)'
  PROVE  /\ QueuedOnce' /\ HeldNotQueued' /\ HeldOnce' /\ TasksPending'
         /\ ReplaysNextDay' /\ BehindProducer'
<1> USE DEF TaskInv, Live
<1>1. QueuedOnce' /\ HeldNotQueued' /\ HeldOnce'
  BY DEF QueuedOnce, HeldNotQueued, HeldOnce
<1>2. ASSUME NEW t, Pending(t) PROVE Pending(t)'
  BY <1>2 DEF Pending, Tasks
<1>3. TasksPending'
  BY <1>2 DEF TasksPending
<1>4. ReplaysNextDay'
  BY DEF ReplaysNextDay, IsNextTask
<1>5. BehindProducer'
  BY DEF BehindProducer, TypeOK
<1> QED
  BY <1>1, <1>3, <1>4, <1>5

\* Nor is a day lost by such a step, unless it skips one.
LEMMA NoneSkipped ==
  ASSUME UNCHANGED <<queue, worker, task, current_date>>,
         \A i \in Insts, d \in WorkingDays : Posted(i, d)' => Posted(i, d)
  PROVE  LosesNothing
  BY DEF LosesNothing, Lost, Waits, Live

\* No worker has left io_service::run while there is something to do.
LEMMA NoExitYet ==
  ASSUME TaskInv, ~Stopped
  PROVE  \A w \in Workers : worker[w] # "exited"
  BY DEF TaskInv, ProducerOnTrack

\* A file that arrives in the cache changes nothing for the tasks.
LEMMA FetchStep == TaskInv /\ Fetch => TaskInv' /\ LosesNothing
<1> SUFFICES ASSUME TaskInv, Fetch PROVE TaskInv' /\ LosesNothing
  OBVIOUS
<1>1. UNCHANGED <<producer, date, loaded, postIdx, queue, worker, task, current_date>>
  BY DEF Fetch, CacheFile, producerVars, workerVars
<1>2. TypeOK'
  BY TypeOKStep DEF TaskInv, Next
<1>3. ProducerOnTrack'
  BY <1>1 DEF TaskInv, ProducerOnTrack, Stopped, WorkAlive, Busy
<1> QED
  BY <1>1, <1>2, <1>3, NoTaskMoved, NoneSkipped DEF Posted, TaskInv

\* The producer's steps other than a post.
LEMMA ProducerStep ==
  ASSUME TaskInv, Produce, ~PostTask
  PROVE  TaskInv' /\ LosesNothing
<1> USE DEF workerVars, MoreToPost
<1>1. UNCHANGED <<queue, worker, task, current_date>>
  BY DEF Produce, SkipWeekend, PassMemoryCheck, StartDay, Load, LoadInstrument, JoinLoads,
         ReturnFromProcessOneDay, EndOfPeriod, DeleteWork
<1>2. TypeOK /\ TypeOK'
  BY TypeOKStep DEF TaskInv, Next
<1>3. /\ \A i \in Insts, d \in Int : Posted(i, d) => Posted(i, d)'
      /\ \A i \in Insts, d \in WorkingDays : Posted(i, d)' => Posted(i, d)
      /\ StartDate <= date'
      /\ producer' \in {"start", "load", "post"} => date' \in WorkingDays
      /\ producer' \in {"finish", "done"} => EndDate <= date'
  <2> USE DateAssumption, NumInstAssumption, <1>2
      DEF TaskInv, ProducerOnTrack, TypeOK, Posted, WorkingDays, Insts
  <2>1. CASE SkipWeekend
    BY <2>1 DEF SkipWeekend
  <2>2. CASE PassMemoryCheck
    BY <2>2 DEF PassMemoryCheck
  <2>3. CASE StartDay
    BY <2>3 DEF StartDay
  <2>4. CASE Load
    BY <2>4 DEF Load, LoadInstrument
  <2>5. CASE JoinLoads
    BY <2>5 DEF JoinLoads
  <2>6. CASE ReturnFromProcessOneDay
    BY <2>6 DEF ReturnFromProcessOneDay
  <2>7. CASE EndOfPeriod
    BY <2>7 DEF EndOfPeriod
  <2>8. CASE DeleteWork
    BY <2>8 DEF DeleteWork
  <2> QED
    BY <2>1, <2>2, <2>3, <2>4, <2>5, <2>6, <2>7, <2>8 DEF Produce
<1>4. \A w \in Workers : worker'[w] # "exited"
  <2>1. producer # "done"
    BY DEF Produce, SkipWeekend, PassMemoryCheck, StartDay, Load, LoadInstrument, JoinLoads,
           ReturnFromProcessOneDay, EndOfPeriod, DeleteWork
  <2> QED
    BY <1>1, <2>1, NoExitYet DEF Stopped, WorkAlive
<1>5. ProducerOnTrack'
  BY <1>3, <1>4 DEF ProducerOnTrack
<1> QED
  BY <1>1, <1>2, <1>3, <1>5, NoTaskMoved, NoneSkipped DEF TaskInv

\* The new task is posted for the first time, and its instance has not got
\* there, because it is never ahead of the producer.
LEMMA PostStep == TaskInv /\ PostTask => TaskInv' /\ LosesNothing
<1> SUFFICES ASSUME TaskInv, PostTask PROVE TaskInv' /\ LosesNothing
  OBVIOUS
<1> PICK t : t = [inst |-> postIdx, date |-> date]
  OBVIOUS
<1> USE NumInstAssumption, DateAssumption DEF Insts
<1>1. TypeOK /\ TypeOK'
  BY TypeOKStep DEF TaskInv, Next, Produce
<1>2. /\ postIdx \in Insts /\ date \in Int /\ producer = "post" /\ producer' = "post"
      /\ date' = date /\ postIdx' = postIdx + 1
      /\ UNCHANGED <<worker, task, current_date>>
  BY <1>1 DEF PostTask, MoreToPost, TypeOK, workerVars
<1>3. t \in Tasks /\ date \in WorkingDays /\ ~Posted(postIdx, date)
  BY <1>2 DEF Tasks, TaskInv, ProducerOnTrack, Posted
<1>4. ~Pending(t)
  BY <1>3 DEF Pending
<1>5. /\ queue' \in Seq(Tasks) /\ Len(queue') = Len(queue) + 1
      /\ \A k \in 1 .. Len(queue) : queue'[k] = queue[k]
      /\ queue'[Len(queue) + 1] = t
      /\ Len(queue) \in Nat
  BY <1>1, <1>3 DEF PostTask, TypeOK
<1>6. \A i \in Insts, d \in Int :
        /\ Posted(i, d) => Posted(i, d)'
        /\ Posted(i, d)' => Posted(i, d) \/ (i = postIdx /\ d = date)
  BY <1>2 DEF Posted
<1>7. current_date[postIdx] < date
  BY <1>1, <1>2 DEF TaskInv, BehindProducer, Posted, TypeOK
<1>8. Pending(t)'
  BY <1>2, <1>3, <1>6, <1>7 DEF Pending, Posted
<1>9. ASSUME NEW u, Pending(u) PROVE Pending(u)'
  BY <1>9, <1>2, <1>6 DEF Pending, Tasks
<1>10. QueuedOnce'
  BY <1>4, <1>5 DEF QueuedOnce, TaskInv, TasksPending
<1>11. HeldNotQueued' /\ HeldOnce'
  BY <1>2, <1>4, <1>5 DEF HeldNotQueued, HeldOnce, TaskInv, TasksPending, Live
<1>12. TasksPending'
  BY <1>2, <1>5, <1>8, <1>9 DEF TaskInv, TasksPending, Live
<1>13. ReplaysNextDay' /\ BehindProducer'
  BY <1>1, <1>2, <1>6 DEF TaskInv, ReplaysNextDay, IsNextTask, BehindProducer, TypeOK
<1>14. LosesNothing
  <2> SUFFICES ASSUME NEW i \in Insts, NEW d \in WorkingDays, Posted(i, d)', ~Waits(i, d)'
               PROVE  Posted(i, d) /\ ~Waits(i, d)
    BY <1>2 DEF LosesNothing, Lost
  <2>1. ~(i = postIdx /\ d = date)
    BY <1>5 DEF Waits
  <2>2. ~Waits(i, d)
    BY <1>2, <1>5 DEF Waits, Live
  <2> QED
    BY <2>1, <2>2, <1>6 DEF WorkingDays
<1>15. ProducerOnTrack'
  BY <1>2, NoExitYet DEF TaskInv, ProducerOnTrack, Stopped, WorkAlive
<1> QED
  BY <1>1, <1>10, <1>11, <1>12, <1>13, <1>14, <1>15 DEF TaskInv

\* A worker's step leaves the producer where it is.
LEMMA WorkerLeavesProducer ==
  ASSUME TaskInv, NEW w \in Workers, Work(w), ~Stopped \/ ExitRun(w)
  PROVE  /\ UNCHANGED <<producer, date, postIdx>>
         /\ \A i, d : Posted(i, d)' <=> Posted(i, d)
         /\ TypeOK /\ TypeOK'
<1>1. UNCHANGED <<producer, date, postIdx>>
  BY DEF Work, TakeTask, Decide, RepostTask, FinishReplay, ReleaseTask, ExitRun, producerVars
<1>2. TypeOK /\ TypeOK'
  BY TypeOKStep DEF TaskInv, Next
<1> QED
  BY <1>1, <1>2 DEF Posted

\* The head of the queue goes to one worker, which holds the only copy.
LEMMA TakeStep ==
  ASSUME TaskInv, NEW w \in Workers, TakeTask(w)
  PROVE  TaskInv' /\ LosesNothing
<1> PICK t : t = Head(queue)
  OBVIOUS
<1>1. /\ UNCHANGED <<producer, date, postIdx>>
      /\ \A i, d : Posted(i, d)' <=> Posted(i, d)
      /\ TypeOK /\ TypeOK'
  BY WorkerLeavesProducer DEF Work, TakeTask, Stopped
<1>2. /\ queue \in Seq(Tasks) /\ Len(queue) \in Nat \ {0} /\ t = queue[1]
      /\ Len(queue') = Len(queue) - 1
      /\ \A k \in 1 .. Len(queue') : k + 1 \in 1 .. Len(queue) /\ queue'[k] = queue[k + 1]
  BY <1>1 DEF TakeTask, TypeOK
<1>3. /\ ~Live(w) /\ Live(w)' /\ task'[w] = t
      /\ \A v \in Workers \ {w} : (Live(v)' <=> Live(v)) /\ task'[v] = task[v]
      /\ UNCHANGED current_date
  BY <1>1 DEF TakeTask, TypeOK, Live
<1>4. ASSUME NEW u, Pending(u) PROVE Pending(u)'
  BY <1>4, <1>1, <1>3 DEF Pending
<1>5. QueuedOnce'
  BY <1>2 DEF TaskInv, QueuedOnce
<1>6. HeldNotQueued'
  BY <1>2, <1>3 DEF TaskInv, QueuedOnce, HeldNotQueued
<1>7. HeldOnce'
  <2>1. \A v \in Workers : Live(v) => task[v] # t
    BY <1>2 DEF TaskInv, HeldNotQueued
  <2> QED
    BY <2>1, <1>3 DEF TaskInv, HeldOnce
<1>8. TasksPending'
  <2>1. Pending(t) /\ \A k \in 1 .. Len(queue) : Pending(queue[k])
    BY <1>2 DEF TaskInv, TasksPending
  <2> QED
    BY <2>1, <1>2, <1>3, <1>4 DEF TaskInv, TasksPending
<1>9. ReplaysNextDay' /\ BehindProducer'
  BY <1>1, <1>3 DEF TakeTask, TaskInv, ReplaysNextDay, IsNextTask, BehindProducer, TypeOK
<1>10. LosesNothing
  <2> SUFFICES ASSUME NEW i \in Insts, NEW d \in WorkingDays, Waits(i, d) PROVE Waits(i, d)'
    BY <1>1, <1>3 DEF LosesNothing, Lost
  <2> PICK u : u = [inst |-> i, date |-> d]
    OBVIOUS
  <2>1. CASE \E k \in 1 .. Len(queue) : queue[k] = u
    <3>1. PICK k \in 1 .. Len(queue) : queue[k] = u
      BY <2>1
    <3>2. CASE k = 1
      BY <3>1, <3>2, <1>2, <1>3 DEF Waits
    <3>3. CASE k # 1
      <4>1. k - 1 \in 1 .. Len(queue') /\ queue'[k - 1] = u
        BY <3>1, <3>3, <1>2
      <4> QED
        BY <4>1 DEF Waits
    <3> QED
      BY <3>2, <3>3
  <2>2. CASE \E v \in Workers : Live(v) /\ task[v] = u
    BY <2>2, <1>3 DEF Waits
  <2> QED
    BY <2>1, <2>2 DEF Waits
<1>11. ProducerOnTrack'
  BY <1>1, NoExitYet DEF TakeTask, Stopped, TaskInv, ProducerOnTrack, TypeOK
<1> QED
  BY <1>1, <1>5, <1>6, <1>7, <1>8, <1>9, <1>10, <1>11 DEF TaskInv

\* The worker keeps the task; it replays it only when it is the next day.
LEMMA DecideStep ==
  ASSUME TaskInv, NEW w \in Workers, Decide(w)
  PROVE  TaskInv' /\ LosesNothing
<1>1. /\ UNCHANGED <<producer, date, postIdx>>
      /\ \A i, d : Posted(i, d)' <=> Posted(i, d)
      /\ TypeOK /\ TypeOK'
  BY WorkerLeavesProducer DEF Work, Decide, Stopped, Busy
<1>2. /\ UNCHANGED <<queue, task, current_date>>
      /\ \A v \in Workers : Live(v)' <=> Live(v)
  BY <1>1 DEF Decide, TypeOK, Live
<1>3. \A u : Pending(u) => Pending(u)'
  BY <1>1, <1>2 DEF Pending
<1>4. QueuedOnce' /\ HeldNotQueued' /\ HeldOnce'
  BY <1>2 DEF TaskInv, QueuedOnce, HeldNotQueued, HeldOnce
<1>5. TasksPending'
  BY <1>2, <1>3 DEF TaskInv, TasksPending
<1>6. ReplaysNextDay'
  BY <1>1, <1>2 DEF TaskInv, Decide, ReplaysNextDay, IsNextTask, TypeOK
<1>7. BehindProducer' /\ LosesNothing
  BY <1>1, <1>2 DEF TaskInv, BehindProducer, LosesNothing, Lost, Waits
<1>8. ProducerOnTrack'
  BY <1>1, NoExitYet DEF Decide, Stopped, Busy, TaskInv, ProducerOnTrack, TypeOK
<1> QED
  BY <1>1, <1>4, <1>5, <1>6, <1>7, <1>8 DEF TaskInv

\* The task goes from the worker to the end of the queue.
LEMMA RepostStep ==
  ASSUME TaskInv, NEW w \in Workers, RepostTask(w)
  PROVE  TaskInv' /\ LosesNothing
<1> PICK t : t = task[w]
  OBVIOUS
<1>1. /\ UNCHANGED <<producer, date, postIdx>>
      /\ \A i, d : Posted(i, d)' <=> Posted(i, d)
      /\ TypeOK /\ TypeOK'
  BY WorkerLeavesProducer DEF Work, RepostTask, Stopped, Busy
<1>2. /\ t \in Tasks /\ Len(queue) \in Nat
      /\ Len(queue') = Len(queue) + 1
      /\ \A k \in 1 .. Len(queue) : queue'[k] = queue[k]
      /\ queue'[Len(queue) + 1] = t
  BY <1>1 DEF RepostTask, Requeued, TypeOK, Busy
<1>3. /\ Live(w) /\ ~Live(w)'
      /\ \A v \in Workers \ {w} : Live(v)' <=> Live(v)
      /\ UNCHANGED <<task, current_date>>
  BY <1>1 DEF RepostTask, TypeOK, Live
<1>4. \A u : Pending(u) => Pending(u)'
  BY <1>1, <1>3 DEF Pending
<1>5. QueuedOnce'
  BY <1>2, <1>3 DEF TaskInv, QueuedOnce, HeldNotQueued
<1>6. HeldNotQueued' /\ HeldOnce'
  BY <1>2, <1>3 DEF TaskInv, HeldNotQueued, HeldOnce
<1>7. TasksPending'
  BY <1>2, <1>3, <1>4 DEF TaskInv, TasksPending
<1>8. ReplaysNextDay' /\ BehindProducer'
  BY <1>1, <1>3 DEF RepostTask, TaskInv, ReplaysNextDay, IsNextTask, BehindProducer, TypeOK
<1>9. LosesNothing
  <2> SUFFICES ASSUME NEW i \in Insts, NEW d \in WorkingDays, Waits(i, d) PROVE Waits(i, d)'
    BY <1>1, <1>3 DEF LosesNothing, Lost
  <2> QED
    BY <1>2, <1>3 DEF Waits
<1>10. ProducerOnTrack'
  BY <1>1, NoExitYet DEF RepostTask, Stopped, Busy, TaskInv, ProducerOnTrack, TypeOK
<1> QED
  BY <1>1, <1>5, <1>6, <1>7, <1>8, <1>9, <1>10 DEF TaskInv

\* The instance moves on to the day it replayed.  Its other live tasks are of
\* later days: they were not before the next working day, and not this one.
LEMMA FinishStep ==
  ASSUME TaskInv, NEW w \in Workers, FinishReplay(w)
  PROVE  TaskInv' /\ LosesNothing
<1> PICK t : t = task[w]
  OBVIOUS
<1>1. /\ UNCHANGED <<producer, date, postIdx>>
      /\ \A i, d : Posted(i, d)' <=> Posted(i, d)
      /\ TypeOK /\ TypeOK'
  BY WorkerLeavesProducer DEF Work, FinishReplay, Stopped, Busy
<1>2. /\ Live(w) /\ ~Live(w)'
      /\ \A v \in Workers \ {w} : Live(v)' <=> Live(v)
      /\ UNCHANGED <<queue, task>>
  BY <1>1 DEF FinishReplay, TypeOK, Live
<1>3. /\ t \in Tasks /\ Pending(t) /\ t.inst \in Insts
      /\ t.date = getNextWorkingDay(current_date[t.inst])
      /\ current_date' = [current_date EXCEPT ![t.inst] = t.date]
  BY <1>1, <1>2 DEF FinishReplay, TaskInv, TasksPending, ReplaysNextDay, IsNextTask,
                    Pending, Tasks
<1>4. current_date \in [Insts -> Int]
  BY <1>1 DEF TypeOK
<1>5. ASSUME NEW u, Pending(u), u # t PROVE Pending(u)'
  <2>1. u \in Tasks /\ u.inst \in Insts /\ u.date \in Int /\ IsWeekday(u.date)
    BY <1>5, DateAssumption DEF Pending, Tasks, WorkingDays
  <2>2. CASE u.inst = t.inst
    <3>1. u.date # t.date
      BY <1>3, <1>5, <2>1, <2>2 DEF Tasks
    <3>2. current_date[t.inst] \in Int /\ current_date[t.inst] < u.date
      BY <1>3, <1>4, <1>5, <2>2 DEF Pending
    <3>3. t.date <= u.date
      BY <1>3, <2>1, <3>2, NextWorkingDayIsFirst
    <3> QED
      BY <1>1, <1>3, <1>4, <1>5, <2>1, <2>2, <3>1, <3>3 DEF Pending, Tasks
  <2>3. CASE u.inst # t.inst
    BY <1>1, <1>3, <1>4, <1>5, <2>1, <2>3 DEF Pending
  <2> QED
    BY <2>2, <2>3
<1>6. QueuedOnce' /\ HeldNotQueued' /\ HeldOnce'
  BY <1>2 DEF TaskInv, QueuedOnce, HeldNotQueued, HeldOnce
<1>7. TasksPending'
  <2>1. \A k \in 1 .. Len(queue) : Pending(queue[k]) /\ queue[k] # t
    BY <1>2 DEF TaskInv, TasksPending, HeldNotQueued
  <2>2. \A v \in Workers \ {w} : Live(v) => Pending(task[v]) /\ task[v] # t
    BY <1>2 DEF TaskInv, TasksPending, HeldOnce
  <2> QED
    BY <2>1, <2>2, <1>2, <1>5 DEF TasksPending
<1>8. ReplaysNextDay'
  <2> SUFFICES ASSUME NEW v \in Workers, v # w, worker[v] = "replay"
               PROVE  IsNextTask(task[v])'
    BY <1>1 DEF ReplaysNextDay, FinishReplay, TypeOK
  <2>1. /\ Pending(task[v]) /\ task[v] # t /\ task[v] \in Tasks
        /\ task[v].date = getNextWorkingDay(current_date[task[v].inst])
    BY <1>2 DEF TaskInv, TasksPending, HeldOnce, ReplaysNextDay, IsNextTask, Live, Pending
  <2>2. task[v].inst # t.inst
    BY <2>1, <1>3 DEF Tasks
  <2> QED
    BY <2>1, <2>2, <1>2, <1>3, <1>4 DEF IsNextTask, Tasks
<1>9. BehindProducer'
  BY <1>1, <1>3, <1>4 DEF TaskInv, BehindProducer, Pending
<1>10. LosesNothing
  <2> SUFFICES ASSUME NEW i \in Insts, NEW d \in WorkingDays, Posted(i, d),
                      current_date'[i] < d, ~Waits(i, d)'
               PROVE  Lost(i, d)
    BY <1>1 DEF LosesNothing, Lost
  <2> PICK u : u = [inst |-> i, date |-> d]
    OBVIOUS
  <2>1. current_date[i] < d /\ u # t
    <3>1. CASE i = t.inst
      <4>1. current_date'[i] = t.date
        BY <1>3, <1>4, <3>1
      <4>2. t.date \in Int /\ d \in Int /\ current_date[i] \in Int /\ current_date[i] < t.date
        BY <1>3, <1>4, <3>1, DateAssumption DEF Pending, WorkingDays, Tasks
      <4> QED
        BY <4>1, <4>2
    <3>2. CASE i # t.inst
      BY <1>3, <1>4, <3>2
    <3> QED
      BY <3>1, <3>2
  <2>2. ~Waits(i, d)
    BY <2>1, <1>2 DEF Waits
  <2> QED
    BY <2>1, <2>2 DEF Lost
<1>11. ProducerOnTrack'
  BY <1>1, NoExitYet DEF FinishReplay, Stopped, Busy, TaskInv, ProducerOnTrack, TypeOK
<1> QED
  BY <1>1, <1>6, <1>7, <1>8, <1>9, <1>10, <1>11 DEF TaskInv

\* The task a worker drops has been replayed or is back in the queue.
LEMMA ReleaseStep ==
  ASSUME TaskInv, NEW w \in Workers, ReleaseTask(w)
  PROVE  TaskInv' /\ LosesNothing
<1>1. /\ UNCHANGED <<producer, date, postIdx>>
      /\ \A i, d : Posted(i, d)' <=> Posted(i, d)
      /\ TypeOK /\ TypeOK'
  BY WorkerLeavesProducer DEF Work, ReleaseTask, Stopped, Busy
<1>2. /\ ~Live(w) /\ ~Live(w)'
      /\ \A v \in Workers \ {w} : (Live(v)' <=> Live(v)) /\ task'[v] = task[v]
      /\ UNCHANGED <<queue, current_date>>
  BY <1>1 DEF ReleaseTask, TypeOK, Live
<1>3. \A u : Pending(u) => Pending(u)'
  BY <1>1, <1>2 DEF Pending
<1>4. QueuedOnce' /\ HeldNotQueued' /\ HeldOnce'
  BY <1>2 DEF TaskInv, QueuedOnce, HeldNotQueued, HeldOnce
<1>5. TasksPending'
  BY <1>2, <1>3 DEF TaskInv, TasksPending
<1>6. ReplaysNextDay'
  BY <1>1, <1>2 DEF ReleaseTask, TaskInv, ReplaysNextDay, IsNextTask, TypeOK
<1>7. BehindProducer' /\ LosesNothing
  BY <1>1, <1>2 DEF TaskInv, BehindProducer, LosesNothing, Lost, Waits
<1>8. ProducerOnTrack'
  BY <1>1, NoExitYet DEF ReleaseTask, Stopped, Busy, TaskInv, ProducerOnTrack, TypeOK
<1> QED
  BY <1>1, <1>4, <1>5, <1>6, <1>7, <1>8 DEF TaskInv

\* A worker that leaves changes nothing: there is no work left.
LEMMA ExitStep ==
  ASSUME TaskInv, NEW w \in Workers, ExitRun(w)
  PROVE  TaskInv' /\ LosesNothing
<1>1. /\ UNCHANGED <<producer, date, postIdx>>
      /\ \A i, d : Posted(i, d)' <=> Posted(i, d)
      /\ TypeOK /\ TypeOK'
  BY WorkerLeavesProducer DEF Work
<1>2. /\ UNCHANGED <<queue, task, current_date>>
      /\ \A v \in Workers : (Live(v)' <=> Live(v)) /\ (Busy(v)' <=> Busy(v))
      /\ \A v \in Workers : worker'[v] = "replay" => worker[v] = "replay"
  BY <1>1 DEF ExitRun, TypeOK, Live, Busy
<1>3. \A u : Pending(u) => Pending(u)'
  BY <1>1, <1>2 DEF Pending
<1>4. QueuedOnce' /\ HeldNotQueued' /\ HeldOnce'
  BY <1>2 DEF TaskInv, QueuedOnce, HeldNotQueued, HeldOnce
<1>5. TasksPending'
  BY <1>2, <1>3 DEF TaskInv, TasksPending
<1>6. ReplaysNextDay'
  BY <1>2 DEF TaskInv, ReplaysNextDay, IsNextTask
<1>7. BehindProducer' /\ LosesNothing
  BY <1>1, <1>2 DEF TaskInv, BehindProducer, LosesNothing, Lost, Waits
<1>8. Stopped'
  BY <1>1, <1>2 DEF ExitRun, Stopped, WorkAlive
<1>9. ProducerOnTrack'
  BY <1>1, <1>8 DEF TaskInv, ProducerOnTrack
<1> QED
  BY <1>1, <1>4, <1>5, <1>6, <1>7, <1>9 DEF TaskInv

\* At first there is no task, and every instance stands before the first day.
LEMMA ScheduleInvInit == Init => ScheduleInv
<1> SUFFICES ASSUME Init PROVE ScheduleInv
  OBVIOUS
<1>1. TypeOK
  BY TypeOKInit
<1>2. /\ queue = <<>> /\ Len(queue) = 0
      /\ \A w \in Workers : worker[w] = "idle"
      /\ date = StartDate /\ producer = "next"
      /\ \A i \in Insts : current_date[i] = StartDate - 1
  BY DEF Init
<1>3. QueuedOnce /\ HeldNotQueued /\ HeldOnce /\ TasksPending /\ ReplaysNextDay
  BY <1>2 DEF QueuedOnce, HeldNotQueued, HeldOnce, TasksPending, ReplaysNextDay, Live
<1>4. BehindProducer
  BY <1>2, DateAssumption DEF BehindProducer, Posted
<1>5. NothingLost
  BY <1>2, DateAssumption DEF NothingLost, Lost, Posted, WorkingDays
<1>6. ProducerOnTrack
  BY <1>2, DateAssumption DEF ProducerOnTrack
<1> QED
  BY <1>1, <1>3, <1>4, <1>5, <1>6 DEF ScheduleInv, TaskInv

\* The lemmas above, one for each action, together.
LEMMA TaskInvStep == TaskInv /\ [Next]_vars => TaskInv' /\ LosesNothing
<1> SUFFICES ASSUME TaskInv, [Next]_vars PROVE TaskInv' /\ LosesNothing
  OBVIOUS
<1>1. CASE Fetch
  BY <1>1, FetchStep
<1>2. CASE PostTask
  BY <1>2, PostStep
<1>3. CASE Produce /\ ~PostTask
  BY <1>3, ProducerStep
<1>4. ASSUME NEW w \in Workers, Work(w) PROVE TaskInv' /\ LosesNothing
  BY <1>4, TakeStep, DecideStep, RepostStep, FinishStep, ReleaseStep, ExitStep DEF Work
<1>5. CASE UNCHANGED vars
  BY <1>5 DEF vars, dataVars, TaskInv, TypeOK, Busy, QueuedOnce, HeldNotQueued, HeldOnce, TasksPending,
              Pending, Posted, ReplaysNextDay, IsNextTask, BehindProducer, LosesNothing, Lost,
              Waits, ProducerOnTrack, Stopped, WorkAlive, Live
<1> QED
  BY <1>1, <1>2, <1>3, <1>4, <1>5 DEF Next

\* So what was not lost before a step is not lost after it.
LEMMA ScheduleInvStep == ScheduleInv /\ [Next]_vars => ScheduleInv'
  BY TaskInvStep DEF ScheduleInv, NothingLost, LosesNothing

\* A task is in one place, of a day its instance has still to reach, and no
\* posted day is lost before it is replayed.
THEOREM ScheduleInvariant == Spec => []ScheduleInv
  BY ScheduleInvInit, ScheduleInvStep, PTL DEF Spec

-----------------------------------------------------------------------------
(* What follows from it.                                                   *)

\* Two workers replaying into one instance would be replaying the same next
\* day, hence the same task, and a task is in one worker's hands only.
THEOREM MutualExclusion == Spec => []OneReplayPerInstance
<1>1. ScheduleInv => OneReplayPerInstance
  <2> SUFFICES ASSUME ScheduleInv, NEW v \in Workers, NEW w \in Workers, v # w,
                      worker[v] = "replay", worker[w] = "replay",
                      task[v].inst = task[w].inst
               PROVE  FALSE
    BY DEF OneReplayPerInstance
  <2>1. task[v] \in Tasks /\ task[w] \in Tasks /\ task[v] # task[w]
    BY DEF ScheduleInv, TaskInv, TypeOK, Busy, HeldOnce, Live
  <2>2. task[v].date = task[w].date
    BY DEF ScheduleInv, TaskInv, ReplaysNextDay, IsNextTask
  <2> QED
    BY <2>1, <2>2 DEF Tasks
<1> QED
  BY <1>1, ScheduleInvariant, PTL

\* When a worker has left there is no task anywhere and every working day has
\* been posted, so none is still to be replayed.
THEOREM CompleteAtExit == Spec => []ExitMeansComplete
<1>1. ScheduleInv => ExitMeansComplete
  <2> SUFFICES ASSUME ScheduleInv, NEW v \in Workers, worker[v] = "exited",
                      NEW i \in Insts, NEW d \in WorkingDays
               PROVE  d <= current_date[i]
    BY DEF ExitMeansComplete
  <2>1. queue = <<>> /\ producer = "done" /\ \A w \in Workers : ~Live(w)
    BY DEF ScheduleInv, TaskInv, ProducerOnTrack, Stopped, WorkAlive, Busy, Live
  <2>2. ~Waits(i, d)
    BY <2>1 DEF Waits
  <2>3. Posted(i, d) /\ d \in Int /\ current_date[i] \in Int
    BY <2>1, DateAssumption DEF ScheduleInv, TaskInv, TypeOK, ProducerOnTrack, Posted, WorkingDays
  <2> QED
    BY <2>2, <2>3 DEF ScheduleInv, NothingLost, Lost
<1> QED
  BY <1>1, ScheduleInvariant, PTL

\* A task is in the queue or in one worker's hands, so a day an instance waits for
\* has one copy; a day that is not posted, or is replayed, has none.
THEOREM OneCopyOfEachDay == Spec => []EachDayOnce
<1>1. ScheduleInv => EachDayOnce
  <2> SUFFICES ASSUME ScheduleInv, NEW i \in Insts, NEW d \in WorkingDays
               PROVE  Copies(i, d) = IF Posted(i, d) /\ current_date[i] < d THEN 1 ELSE 0
    BY DEF EachDayOnce
  <2> DEFINE t == [inst |-> i, date |-> d]
             places == {k \in 1 .. Len(queue) : queue[k] = t}
             hands  == {w \in Workers : /\ worker[w] \in {"decide", "replay", "repost"}
                                       /\ task[w] = t}
  <2>1. Copies(i, d) = Cardinality(places) + Cardinality(hands)
    BY DEF Copies
  <2>2. Waits(i, d) <=> Posted(i, d) /\ current_date[i] < d
    <3>1. ASSUME Waits(i, d) PROVE Posted(i, d) /\ current_date[i] < d
      <4>1. Pending(t)
        BY <3>1 DEF Waits, ScheduleInv, TaskInv, TasksPending
      <4> QED
        BY <4>1 DEF Pending
    <3> QED
      BY <3>1 DEF ScheduleInv, NothingLost, Lost
  <2>3. CASE \E k \in 1 .. Len(queue) : queue[k] = t
    <3>1. PICK k \in 1 .. Len(queue) : queue[k] = t
      BY <2>3
    <3>2. places = {k} /\ hands = {}
      BY <3>1 DEF ScheduleInv, TaskInv, QueuedOnce, HeldNotQueued, Live
    <3>3. Cardinality(places) = 1 /\ Cardinality(hands) = 0
      BY <3>2, FS_Singleton, FS_EmptySet
    <3>4. Waits(i, d)
      BY <2>3 DEF Waits
    <3> HIDE DEF places, hands
    <3> QED
      BY <2>1, <2>2, <3>3, <3>4
  <2>4. CASE (\E w \in Workers : Live(w) /\ task[w] = t) /\ ~\E k \in 1 .. Len(queue) : queue[k] = t
    <3>1. PICK w \in Workers : Live(w) /\ task[w] = t
      BY <2>4
    <3>2. places = {} /\ hands = {w}
      BY <2>4, <3>1 DEF ScheduleInv, TaskInv, HeldOnce, Live
    <3>3. Cardinality(places) = 0 /\ Cardinality(hands) = 1
      BY <3>2, FS_Singleton, FS_EmptySet
    <3>4. Waits(i, d)
      BY <2>4 DEF Waits
    <3> HIDE DEF places, hands
    <3> QED
      BY <2>1, <2>2, <3>3, <3>4
  <2>5. CASE ~Waits(i, d)
    <3>1. places = {} /\ hands = {}
      BY <2>5 DEF Waits, Live
    <3>2. Cardinality(places) = 0 /\ Cardinality(hands) = 0
      BY <3>1, FS_EmptySet
    <3> HIDE DEF places, hands
    <3> QED
      BY <2>1, <2>2, <2>5, <3>2
  <2> QED
    BY <2>3, <2>4, <2>5 DEF Waits
<1> QED
  BY <1>1, ScheduleInvariant, PTL

-----------------------------------------------------------------------------
(* The data of a day follows its tasks.                                    *)

DayLoaded(d) == \A inst \in Instruments : <<inst, d>> \in stores

\* A day in the making has the ticks of the instruments loaded so far; one that is
\* posted, and every task of it, has them all.
LoadedInv ==
  /\ producer = "load" => \A inst \in loaded : <<inst, date>> \in stores
  /\ producer = "post" => DayLoaded(date)
  /\ \A k \in 1 .. Len(queue) : DayLoaded(queue[k].date)
  /\ \A w \in Workers : Busy(w) => DayLoaded(task[w].date)

\* Dropping the reference to a day frees no day that somebody holds.
LEMMA DropKeepsHeld ==
  ASSUME NEW d, NEW held, Drop(d, held), NEW e, DayLoaded(e), e = d => held
  PROVE  DayLoaded(e)'
  BY DEF Drop, DayLoaded, dataVars

\* Only the loads and the last references change what is in memory.
LEMMA StoresKept ==
  ASSUME [Next]_vars, ~ReturnFromProcessOneDay, \A w \in Workers : ~ReleaseTask(w)
  PROVE  \A d : DayLoaded(d) => DayLoaded(d)'
<1> USE DEF DayLoaded, dataVars
<1>1. CASE Fetch
  BY <1>1 DEF Fetch, CacheFile
<1>2. CASE Produce
  BY <1>2 DEF Produce, SkipWeekend, PassMemoryCheck, StartDay, Load, LoadInstrument, JoinLoads,
              PostTask, EndOfPeriod, DeleteWork
<1>3. ASSUME NEW w \in Workers, Work(w) PROVE \A d : DayLoaded(d) => DayLoaded(d)'
  BY <1>3 DEF Work, TakeTask, Decide, RepostTask, FinishReplay, ExitRun
<1>4. CASE UNCHANGED vars
  BY <1>4 DEF vars
<1> QED
  BY <1>1, <1>2, <1>3, <1>4 DEF Next

\* A task gets its day from the producer, who has joined every load.
LEMMA LoadedInvStep == TypeOK /\ LoadedInv /\ [Next]_vars => LoadedInv'
<1> SUFFICES ASSUME TypeOK, LoadedInv, [Next]_vars PROVE LoadedInv'
  OBVIOUS
<1> DEFINE Freeing == ReturnFromProcessOneDay \/ \E w \in Workers : ReleaseTask(w)
<1>1. ~Freeing => \A d : DayLoaded(d) => DayLoaded(d)'
  BY StoresKept
<1>2. CASE ~Freeing /\ Fetch
  BY <1>1, <1>2 DEF Fetch, CacheFile, producerVars, workerVars, dataVars, LoadedInv, Busy
<1>3. CASE ~Freeing /\ PostTask
  <2>1. /\ producer = "post" /\ DayLoaded(date)' /\ producer' = "post" /\ date' = date
        /\ \A w \in Workers : Busy(w)' => Busy(w) /\ task'[w] = task[w]
    BY <1>1, <1>3 DEF PostTask, LoadedInv, workerVars, Busy
  <2>2. \A k \in 1 .. Len(queue') : \/ k \in 1 .. Len(queue) /\ queue'[k] = queue[k]
                                   \/ queue'[k].date = date
    <3> PICK t : t = [inst |-> postIdx, date |-> date]
      OBVIOUS
    <3>1. queue' = Append(queue, t) /\ t.date = date /\ queue \in Seq(Tasks)
      BY <1>3 DEF PostTask, TypeOK
    <3> QED
      BY <3>1
  <2> QED
    BY <1>1, <1>3, <2>1, <2>2 DEF LoadedInv
<1>4. CASE ~Freeing /\ Produce /\ ~PostTask
  <2>1. UNCHANGED <<queue, worker, task>>
    BY <1>4 DEF Produce, SkipWeekend, PassMemoryCheck, StartDay, Load, LoadInstrument, JoinLoads,
                EndOfPeriod, DeleteWork, workerVars
  <2>2. /\ producer' = "load" => \A inst \in loaded' : <<inst, date'>> \in stores'
        /\ producer' = "post" => DayLoaded(date)'
    BY <1>4 DEF Produce, SkipWeekend, PassMemoryCheck, StartDay, Load, LoadInstrument, JoinLoads,
                EndOfPeriod, DeleteWork, AllLoaded, LoadedInv, DayLoaded, dataVars
  <2> QED
    BY <1>1, <1>4, <2>1, <2>2 DEF LoadedInv, Busy
<1>5. CASE ReturnFromProcessOneDay
  <2>1. /\ Drop(date, WorkersHold(date)) /\ producer' = "next"
        /\ UNCHANGED <<queue, worker, task>>
    BY <1>5 DEF ReturnFromProcessOneDay, workerVars
  <2>2. ASSUME NEW k \in 1 .. Len(queue) PROVE DayLoaded(queue[k].date)'
    <3> PICK e : e = queue[k].date
      OBVIOUS
    <3>1. DayLoaded(e) /\ (e = date => WorkersHold(date))
      BY <2>2 DEF LoadedInv, WorkersHold, QueueHolds
    <3>2. DayLoaded(e)'
      BY <2>1, <3>1, DropKeepsHeld
    <3> QED
      BY <2>1, <3>2
  <2>3. ASSUME NEW w \in Workers, Busy(w) PROVE DayLoaded(task[w].date)'
    <3> PICK e : e = task[w].date
      OBVIOUS
    <3>1. DayLoaded(e) /\ (e = date => WorkersHold(date))
      BY <2>3 DEF LoadedInv, WorkersHold, WorkerHolds
    <3>2. DayLoaded(e)'
      BY <2>1, <3>1, DropKeepsHeld
    <3> QED
      BY <2>1, <3>2
  <2> QED
    BY <2>1, <2>2, <2>3 DEF LoadedInv, Busy
<1>6. ASSUME NEW w \in Workers, TakeTask(w), ~Freeing PROVE LoadedInv'
  <2>1. /\ queue \in Seq(Tasks) /\ queue # <<>> /\ queue' = Tail(queue)
        /\ task' = [task EXCEPT ![w] = queue[1]]
        /\ \A v \in Workers \ {w} : worker'[v] = worker[v]
        /\ UNCHANGED <<stores, producer, date, loaded>>
    BY <1>6 DEF TakeTask, TypeOK, producerVars, dataVars
  <2>2. 1 \in 1 .. Len(queue) /\ \A k \in 1 .. Len(queue') : \E l \in 1 .. Len(queue) : queue'[k] = queue[l]
    <3>1. \A k \in 1 .. Len(queue') : k + 1 \in 1 .. Len(queue) /\ queue'[k] = queue[k + 1]
      BY <2>1
    <3> QED
      BY <2>1, <3>1
  <2> QED
    BY <1>1, <1>6, <2>1, <2>2 DEF LoadedInv, Busy, TypeOK
<1>7. ASSUME NEW w \in Workers, RepostTask(w), ~Freeing PROVE LoadedInv'
  <2>1. /\ Busy(w) /\ queue \in Seq(Tasks) /\ task[w] \in Tasks /\ queue' = Append(queue, task[w])
        /\ \A v \in Workers : Busy(v)' => Busy(v) /\ task'[v] = task[v]
        /\ UNCHANGED <<stores, producer, date, loaded>>
    BY <1>7 DEF RepostTask, Requeued, TypeOK, Busy, producerVars, dataVars
  <2>2. \A k \in 1 .. Len(queue') : \/ k \in 1 .. Len(queue) /\ queue'[k] = queue[k]
                                   \/ queue'[k] = task[w]
    BY <2>1
  <2> QED
    BY <1>1, <1>7, <2>1, <2>2 DEF LoadedInv
<1>8. ASSUME NEW w \in Workers, Decide(w) \/ FinishReplay(w) \/ ExitRun(w), ~Freeing
      PROVE  LoadedInv'
  <2>1. /\ \A v \in Workers : Busy(v)' => Busy(v) /\ task'[v] = task[v]
        /\ UNCHANGED <<stores, queue, producer, date, loaded>>
    BY <1>8 DEF Decide, FinishReplay, ExitRun, TypeOK, Busy, producerVars, dataVars
  <2> QED
    BY <1>1, <1>8, <2>1 DEF LoadedInv
<1>9. ASSUME NEW w \in Workers, ReleaseTask(w) PROVE LoadedInv'
  <2> PICK d : d = task[w].date
    OBVIOUS
  <2>1. /\ Drop(d, HeldBeside(w, d)) /\ ~Busy(w)'
        /\ \A v \in Workers \ {w} : (Busy(v)' <=> Busy(v)) /\ task'[v] = task[v]
        /\ UNCHANGED <<queue, producer, date, loaded>>
    BY <1>9 DEF ReleaseTask, TypeOK, Busy, producerVars
  <2>2. \A e : DayLoaded(e) /\ (e = d => HeldBeside(w, d)) => DayLoaded(e)'
    BY <2>1, DropKeepsHeld
  <2>3. ASSUME NEW k \in 1 .. Len(queue) PROVE DayLoaded(queue[k].date)'
    <3> PICK e : e = queue[k].date
      OBVIOUS
    <3>1. DayLoaded(e) /\ (e = d => HeldBeside(w, d))
      BY <2>3 DEF LoadedInv, HeldBeside, QueueHolds
    <3> QED
      BY <2>1, <2>2, <3>1
  <2>4. ASSUME NEW v \in Workers \ {w}, Busy(v) PROVE DayLoaded(task[v].date)'
    <3> PICK e : e = task[v].date
      OBVIOUS
    <3>1. DayLoaded(e) /\ (e = d => HeldBeside(w, d))
      BY <2>4 DEF LoadedInv, HeldBeside, WorkerHolds
    <3> QED
      BY <2>1, <2>2, <2>4, <3>1
  <2>5. producer = "post" => DayLoaded(date)'
    <3>1. producer = "post" => DayLoaded(date) /\ (date = d => HeldBeside(w, d))
      BY DEF LoadedInv, HeldBeside, ProducerHolds
    <3> QED
      BY <2>1, <2>2, <3>1
  <2>6. producer = "load" => \A inst \in loaded : <<inst, date>> \in stores'
    <3>1. producer = "load" => (date = d => HeldBeside(w, d))
      BY DEF HeldBeside, ProducerHolds
    <3> QED
      BY <2>1, <3>1 DEF LoadedInv, Drop, dataVars
  <2>7. \A k \in 1 .. Len(queue') : DayLoaded(queue[k].date)'
    BY <2>1, <2>3
  <2>8. \A v \in Workers : Busy(v)' => DayLoaded(task[v].date)'
    BY <2>1, <2>4
  <2> QED
    BY <2>1, <2>5, <2>6, <2>7, <2>8 DEF LoadedInv
<1>10. CASE UNCHANGED vars
  BY <1>10 DEF vars, dataVars, LoadedInv, DayLoaded, Busy
<1> QED
  BY <1>2, <1>3, <1>4, <1>5, <1>6, <1>7, <1>8, <1>9, <1>10 DEF Next, Produce, Work

\* While a day is replayed the ticks of every instrument are in its replayer: a task is
\* posted after every load of its day is joined, and holds the day until it has run.
THEOREM ReplaysAreLoaded == Spec => []ReplayOnlyLoadedDays
<1>1. Init => LoadedInv
  BY DEF Init, LoadedInv, Busy
<1>2. LoadedInv => ReplayOnlyLoadedDays
  BY DEF LoadedInv, Busy, DayLoaded, ReplayOnlyLoadedDays
<1> QED
  BY <1>1, <1>2, LoadedInvStep, TypeInvariant, PTL DEF Spec

-----------------------------------------------------------------------------
(* The days in memory.  A day is counted from StartDay until its last holder  *)
(* lets it go; the holders are the producer and the tasks, whose days are    *)
(* never later than the producer's.                                        *)

Prepared(d) == d \in WorkingDays /\ (d < date \/ (d = date /\ producer = "post"))

MemoryInv ==
  /\ dayInMemoryCount = Cardinality(DaysHeld)
  /\ dayInMemoryCount <= MaxDayInMemory
  /\ producer = "start" => MemoryHasRoom
  /\ \A w \in Workers : Busy(w) => Prepared(task[w].date)

\* There are finitely many days to hold.
LEMMA DaysHeldFinite == IsFiniteSet(DaysHeld) /\ Cardinality(DaysHeld) \in Nat
<1>1. IsFiniteSet(StartDate .. EndDate - 1)
  BY DateAssumption, FS_Interval
<1>2. DaysHeld \in SUBSET (StartDate .. EndDate - 1)
  BY DEF DaysHeld, WorkingDays
<1> QED
  BY <1>1, <1>2, FS_Subset, FS_CardinalityType

\* A day whose preparation is over stays so.
LEMMA PreparedStays ==
  ASSUME TypeOK, [Next]_vars, NEW d, Prepared(d)
  PROVE  Prepared(d)'
<1>1. d \in Int
  BY DateAssumption DEF Prepared, WorkingDays
<1>2. CASE Produce
  <2>1. CASE SkipWeekend
    BY <1>1, <2>1 DEF Prepared, TypeOK, SkipWeekend
  <2>2. CASE ReturnFromProcessOneDay
    BY <1>1, <2>2 DEF Prepared, TypeOK, ReturnFromProcessOneDay
  <2>3. CASE Produce /\ ~SkipWeekend /\ ~ReturnFromProcessOneDay
    <3>1. UNCHANGED date /\ (producer = "post" => producer' = "post")
      BY <2>3 DEF Produce, PassMemoryCheck, StartDay, Load, LoadInstrument, JoinLoads, PostTask,
                  EndOfPeriod, DeleteWork
    <3> QED
      BY <3>1 DEF Prepared
  <2> QED
    BY <1>2, <2>1, <2>2, <2>3
<1>3. CASE UNCHANGED <<producer, date>>
  BY <1>3 DEF Prepared
<1>4. Produce \/ UNCHANGED <<producer, date>>
  BY DEF Next, Fetch, CacheFile, Work, TakeTask, Decide, RepostTask, FinishReplay, ReleaseTask,
         ExitRun, producerVars, vars
<1> QED
  BY <1>2, <1>3, <1>4

\* A worker has its task from the queue, where there are posted days only.
LEMMA HandedOutPrepared ==
  ASSUME TaskInv, TaskInv', MemoryInv, [Next]_vars, NEW w \in Workers, Busy(w)'
  PROVE  Prepared(task[w].date)'
<1>1. CASE Live(w)'
  BY <1>1 DEF TaskInv, TasksPending, Pending, Posted, Prepared
<1>2. CASE ~Live(w)'
  <2>1. worker'[w] = "release"
    BY <1>2 DEF Busy, Live
  <2>2. Busy(w) /\ task'[w] = task[w]
    <3>1. CASE UNCHANGED workerVars
      BY <2>1, <3>1 DEF Busy, workerVars
    <3>2. ASSUME NEW v \in Workers, Work(v) PROVE Busy(w) /\ task'[w] = task[w]
      BY <2>1, <3>2 DEF Busy, TaskInv, TypeOK, Work, TakeTask, Decide, RepostTask, FinishReplay,
                        ReleaseTask, ExitRun
    <3>3. UNCHANGED workerVars \/ \E v \in Workers : Work(v)
      BY DEF Next, Fetch, CacheFile, Produce, SkipWeekend, PassMemoryCheck, StartDay, Load,
             LoadInstrument, JoinLoads, PostTask, ReturnFromProcessOneDay, EndOfPeriod, DeleteWork,
             vars, workerVars
    <3> QED
      BY <3>1, <3>2, <3>3
  <2>3. Prepared(task[w].date)
    BY <2>2 DEF MemoryInv
  <2>4. Prepared(task[w].date)'
    BY <2>2, <2>3, PreparedStays DEF TaskInv
  <2> QED
    BY <2>4
<1> QED
  BY <1>1, <1>2

\* The day the producer starts is held by nobody yet.
LEMMA NewDayNotHeld ==
  ASSUME TaskInv, MemoryInv, producer = "start"
  PROVE  date \in WorkingDays /\ date \notin DaysHeld
<1>1. date \in Int /\ date \in WorkingDays
  BY DEF TaskInv, TypeOK, ProducerOnTrack
<1>2. ASSUME NEW k \in 1 .. Len(queue) PROVE queue[k].date # date
  <2>1. Posted(queue[k].inst, queue[k].date)
    BY <1>2 DEF TaskInv, TasksPending, Pending
  <2> QED
    BY <1>1, <2>1 DEF Posted
<1>3. ASSUME NEW w \in Workers, Busy(w) PROVE task[w].date # date
  BY <1>1, <1>3 DEF MemoryInv, Prepared
<1> QED
  BY <1>1, <1>2, <1>3 DEF DaysHeld, ProducerHolds, QueueHolds, WorkerHolds

\* A step that moves tasks and days between holders keeps the same days in memory.
LEMMA SameDaysHeld ==
  ASSUME TypeOK, Next, ~StartDay, ~ReturnFromProcessOneDay, \A w \in Workers : ~ReleaseTask(w)
  PROVE  DaysHeld' = DaysHeld /\ dayInMemoryCount' = dayInMemoryCount
<1> USE DEF DaysHeld
<1>1. CASE Fetch
  BY <1>1 DEF Fetch, CacheFile, producerVars, workerVars, dataVars, ProducerHolds, QueueHolds,
              WorkerHolds, Busy
<1>2. CASE PostTask
  <2>1. /\ UNCHANGED <<producer, date, worker, task, dayInMemoryCount>> /\ producer = "post"
        /\ queue \in Seq(Tasks)
    BY <1>2 DEF PostTask, workerVars, dataVars, TypeOK
  <2>2. \A d : QueueHolds(queue', d) <=> QueueHolds(queue, d) \/ d = date
    <3> PICK t : t = [inst |-> postIdx, date |-> date]
      OBVIOUS
    <3>1. queue' = Append(queue, t) /\ t.date = date
      BY <1>2 DEF PostTask
    <3>2. Len(queue') = Len(queue) + 1 /\ Len(queue) \in Nat
      BY <2>1, <3>1
    <3>3. \A k \in 1 .. Len(queue) : k \in 1 .. Len(queue') /\ queue'[k] = queue[k]
      BY <2>1, <3>1
    <3>4. queue'[Len(queue')] = t /\ Len(queue') \in 1 .. Len(queue')
      BY <2>1, <3>1, <3>2
    <3>5. \A k \in 1 .. Len(queue') : k \in 1 .. Len(queue) \/ queue'[k] = t
      BY <3>2, <3>4
    <3> QED
      BY <3>1, <3>3, <3>4, <3>5 DEF QueueHolds
  <2> QED
    BY <2>1, <2>2 DEF ProducerHolds, WorkerHolds, Busy
<1>3. CASE Produce /\ ~PostTask
  <2>1. /\ UNCHANGED <<queue, worker, task, dayInMemoryCount>>
        /\ \A d : ProducerHolds(d)' <=> ProducerHolds(d)
    BY <1>3 DEF Produce, SkipWeekend, PassMemoryCheck, Load, LoadInstrument, JoinLoads,
                EndOfPeriod, DeleteWork, workerVars, ProducerHolds, dataVars
  <2> QED
    BY <2>1 DEF QueueHolds, WorkerHolds, Busy
<1>4. ASSUME NEW w \in Workers, TakeTask(w)
      PROVE  DaysHeld' = DaysHeld /\ dayInMemoryCount' = dayInMemoryCount
  <2>1. /\ queue \in Seq(Tasks) /\ queue # <<>> /\ queue' = Tail(queue)
        /\ ~Busy(w) /\ Busy(w)' /\ task'[w] = queue[1]
        /\ \A v \in Workers \ {w} : (Busy(v)' <=> Busy(v)) /\ task'[v] = task[v]
        /\ UNCHANGED <<producer, date, dayInMemoryCount>>
    BY <1>4 DEF TakeTask, TypeOK, producerVars, dataVars, Busy
  <2>2. \A d : QueueHolds(queue, d) <=> QueueHolds(queue', d) \/ queue[1].date = d
    <3>1. Len(queue') = Len(queue) - 1 /\ Len(queue) \in Nat \ {0}
      BY <2>1
    <3>2. \A k \in 1 .. Len(queue') : k + 1 \in 1 .. Len(queue) /\ queue'[k] = queue[k + 1]
      BY <2>1
    <3>3. \A k \in 1 .. Len(queue) : k = 1 \/ (k - 1 \in 1 .. Len(queue') /\ queue'[k - 1] = queue[k])
      BY <3>1, <3>2
    <3>4. \A d : QueueHolds(queue', d) \/ queue[1].date = d => QueueHolds(queue, d)
      BY <3>1, <3>2 DEF QueueHolds
    <3>5. \A d : QueueHolds(queue, d) => QueueHolds(queue', d) \/ queue[1].date = d
      BY <3>3 DEF QueueHolds
    <3> QED
      BY <3>4, <3>5
  <2>3. \A d : (\E v \in Workers : WorkerHolds(v, d)') <=> (\E v \in Workers : WorkerHolds(v, d)) \/ queue[1].date = d
    BY <2>1 DEF WorkerHolds
  <2> QED
    BY <2>1, <2>2, <2>3 DEF ProducerHolds
<1>5. ASSUME NEW w \in Workers, RepostTask(w)
      PROVE  DaysHeld' = DaysHeld /\ dayInMemoryCount' = dayInMemoryCount
  <2>1. /\ Busy(w) /\ queue \in Seq(Tasks) /\ task[w] \in Tasks /\ queue' = Append(queue, task[w])
        /\ \A v \in Workers : (Busy(v)' <=> Busy(v)) /\ task'[v] = task[v]
        /\ UNCHANGED <<producer, date, dayInMemoryCount>>
    BY <1>5 DEF RepostTask, Requeued, TypeOK, Busy, producerVars, dataVars
  <2>2. \A d : QueueHolds(queue', d) <=> QueueHolds(queue, d) \/ d = task[w].date
    <3>1. Len(queue') = Len(queue) + 1 /\ Len(queue) \in Nat
      BY <2>1
    <3>2. \A k \in 1 .. Len(queue) : k \in 1 .. Len(queue') /\ queue'[k] = queue[k]
      BY <2>1
    <3>3. queue'[Len(queue')] = task[w] /\ Len(queue') \in 1 .. Len(queue')
      BY <2>1, <3>1
    <3>4. \A k \in 1 .. Len(queue') : k \in 1 .. Len(queue) \/ queue'[k] = task[w]
      BY <3>1, <3>3
    <3> QED
      BY <3>2, <3>3, <3>4 DEF QueueHolds
  <2> QED
    BY <2>1, <2>2 DEF ProducerHolds, WorkerHolds
<1>6. ASSUME NEW w \in Workers, Decide(w) \/ FinishReplay(w) \/ ExitRun(w)
      PROVE  DaysHeld' = DaysHeld /\ dayInMemoryCount' = dayInMemoryCount
  <2>1. /\ \A v \in Workers : (Busy(v)' <=> Busy(v)) /\ task'[v] = task[v]
        /\ UNCHANGED <<queue, producer, date, dayInMemoryCount>>
    BY <1>6 DEF Decide, FinishReplay, ExitRun, TypeOK, Busy, producerVars, dataVars
  <2> QED
    BY <2>1 DEF ProducerHolds, QueueHolds, WorkerHolds
<1> QED
  BY <1>1, <1>2, <1>3, <1>4, <1>5, <1>6 DEF Next, Work

\* When a holder lets a day go, the day leaves the memory if nobody else holds it, and
\* the counter goes down with it.
LEMMA DayLetGo ==
  ASSUME dayInMemoryCount = Cardinality(DaysHeld), NEW d \in DaysHeld, NEW others \in BOOLEAN,
         DaysHeld' = IF others THEN DaysHeld ELSE DaysHeld \ {d},
         dayInMemoryCount' = IF others THEN dayInMemoryCount ELSE dayInMemoryCount - 1
  PROVE  dayInMemoryCount' = Cardinality(DaysHeld)' /\ dayInMemoryCount' <= dayInMemoryCount
<1>1. Cardinality(DaysHeld \ {d}) = Cardinality(DaysHeld) - 1
  BY DaysHeldFinite, FS_RemoveElement
<1> QED
  BY <1>1, DaysHeldFinite

\* Every step keeps the counter equal to the number of days held.
LEMMA MemoryInvStep == TaskInv /\ TaskInv' /\ MemoryInv /\ [Next]_vars => MemoryInv'
<1> SUFFICES ASSUME TaskInv, TaskInv', MemoryInv, [Next]_vars PROVE MemoryInv'
  OBVIOUS
<1>1. TypeOK /\ TypeOK'
  BY DEF TaskInv
<1>2. \A w \in Workers : Busy(w)' => Prepared(task[w].date)'
  BY HandedOutPrepared
<1>3. ASSUME dayInMemoryCount' <= dayInMemoryCount, ~StartDay
      PROVE  dayInMemoryCount' <= MaxDayInMemory /\ (producer' = "start" => MemoryHasRoom')
  <2>1. producer' = "start" => producer = "start" \/ MemoryHasRoom
    BY <1>3 DEF Next, Fetch, CacheFile, Produce, SkipWeekend, PassMemoryCheck, Load, LoadInstrument,
       JoinLoads, PostTask, ReturnFromProcessOneDay, EndOfPeriod, DeleteWork, Work, TakeTask, Decide,
       RepostTask, FinishReplay, ReleaseTask, ExitRun, producerVars, vars
  <2> QED
    BY <1>1, <1>3, <2>1, MaxDayAssumption DEF MemoryInv, MemoryHasRoom, TypeOK
<1>4. CASE StartDay
  <2>1. /\ producer = "start" /\ producer' = "load" /\ UNCHANGED <<date, queue, worker, task>>
        /\ dayInMemoryCount' = dayInMemoryCount + 1
    BY <1>4 DEF StartDay, workerVars
  <2>2. date \in WorkingDays /\ date \notin DaysHeld
    BY <2>1, NewDayNotHeld
  <2>3. DaysHeld' = DaysHeld \cup {date}
    BY <2>1, <2>2 DEF DaysHeld, ProducerHolds, QueueHolds, WorkerHolds, Busy
  <2>4. Cardinality(DaysHeld)' = Cardinality(DaysHeld) + 1
    BY <2>2, <2>3, DaysHeldFinite, FS_AddElement
  <2> QED
    BY <1>1, <1>2, <2>1, <2>4, MaxDayAssumption DEF MemoryInv, MemoryHasRoom, TypeOK
<1>5. CASE ReturnFromProcessOneDay
  <2> DEFINE others == QueueHolds(queue, date) \/ \E w \in Workers : WorkerHolds(w, date)
  <2>1. /\ producer = "post" /\ producer' = "next" /\ UNCHANGED <<queue, worker, task>>
        /\ dayInMemoryCount' = IF others THEN dayInMemoryCount ELSE dayInMemoryCount - 1
    BY <1>5 DEF ReturnFromProcessOneDay, Drop, dataVars, WorkersHold, workerVars
  <2>2. date \in DaysHeld
    BY <2>1 DEF DaysHeld, ProducerHolds, TaskInv, ProducerOnTrack
  <2>3. DaysHeld' = IF others THEN DaysHeld ELSE DaysHeld \ {date}
    BY <2>1 DEF DaysHeld, ProducerHolds, QueueHolds, WorkerHolds, Busy
  <2> HIDE DEF others
  <2>4. dayInMemoryCount' = Cardinality(DaysHeld)' /\ dayInMemoryCount' <= dayInMemoryCount
    BY <2>1, <2>2, <2>3, DayLetGo DEF MemoryInv, others
  <2>5. ~StartDay
    BY <2>1 DEF StartDay
  <2> QED
    BY <1>2, <1>3, <2>4, <2>5 DEF MemoryInv
<1>6. ASSUME NEW w \in Workers, ReleaseTask(w) PROVE MemoryInv'
  <2> DEFINE d == task[w].date
             others == \/ QueueHolds(queue, d)
                       \/ \E v \in Workers \ {w} : WorkerHolds(v, d)
                       \/ ProducerHolds(d)
  <2>1. /\ Busy(w) /\ ~Busy(w)'
        /\ \A v \in Workers \ {w} : (Busy(v)' <=> Busy(v)) /\ task'[v] = task[v]
        /\ UNCHANGED <<queue, producer, date>>
        /\ dayInMemoryCount' = IF others THEN dayInMemoryCount ELSE dayInMemoryCount - 1
    BY <1>1, <1>6 DEF ReleaseTask, Drop, dataVars, HeldBeside, TypeOK, Busy, producerVars, dataVars
  <2>2. d \in DaysHeld
    BY <2>1 DEF DaysHeld, MemoryInv, Prepared, WorkerHolds
  <2>3. DaysHeld' = IF others THEN DaysHeld ELSE DaysHeld \ {d}
    BY <2>1 DEF DaysHeld, ProducerHolds, QueueHolds, WorkerHolds
  <2> HIDE DEF others
  <2>4. dayInMemoryCount' = Cardinality(DaysHeld)' /\ dayInMemoryCount' <= dayInMemoryCount
    BY <2>1, <2>2, <2>3, DayLetGo DEF MemoryInv, others
  <2>5. ~StartDay
    BY <2>1, <1>6 DEF StartDay, ReleaseTask, Busy, TypeOK
  <2> QED
    BY <1>2, <1>3, <2>4, <2>5 DEF MemoryInv
<1>7. CASE Next /\ ~StartDay /\ ~ReturnFromProcessOneDay /\ \A w \in Workers : ~ReleaseTask(w)
  <2>1. DaysHeld' = DaysHeld /\ dayInMemoryCount' = dayInMemoryCount
    BY <1>1, <1>7, SameDaysHeld
  <2> QED
    BY <1>1, <1>2, <1>3, <1>7, <2>1 DEF MemoryInv, TypeOK
<1>8. CASE UNCHANGED vars
  BY <1>2, <1>8 DEF vars, dataVars, MemoryInv, MemoryHasRoom, DaysHeld, ProducerHolds, QueueHolds, WorkerHolds, Busy
<1> QED
  BY <1>4, <1>5, <1>6, <1>7, <1>8

\* The counter is the number of days some thread holds, and never passes the limit.
THEOREM MemoryCounted == Spec => []MemoryAccounting
<1>1. Init => MemoryInv
  <2> SUFFICES ASSUME Init PROVE MemoryInv
    OBVIOUS
  <2>1. DaysHeld = {} /\ dayInMemoryCount = 0 /\ producer = "next" /\ \A w \in Workers : ~Busy(w)
    BY DEF Init, DaysHeld, ProducerHolds, QueueHolds, WorkerHolds, Busy
  <2> QED
    BY <2>1, FS_EmptySet, MaxDayAssumption DEF MemoryInv
<1>2. MemoryInv => MemoryAccounting
  BY DEF MemoryInv, MemoryAccounting
<1>3. ScheduleInv => TaskInv
  BY DEF ScheduleInv
<1> QED
  BY <1>1, <1>2, <1>3, MemoryInvStep, ScheduleInvariant, PTL DEF Spec

-----------------------------------------------------------------------------
(* The scheduler implements BacktestSchedule: beginning a replay is the     *)
(* abstract Begin, ending it the abstract End, and nothing else shows.      *)

\* A step that leaves every replaying worker and its task alone is a stutter.
LEMMA ReplayingUnchanged ==
  ASSUME UNCHANGED current_date,
         \A w \in Workers : (worker'[w] = "replay" <=> worker[w] = "replay"),
         \A w \in Workers : worker[w] = "replay" => task'[w] = task[w]
  PROVE  UNCHANGED Schedule!vars
<1>1. UNCHANGED Replaying
  BY DEF Replaying
<1> QED
  BY <1>1 DEF Schedule!vars

\* The abstract schedule speaks of the same instances and the same days.
LEMMA SamePeriod == Schedule!Insts = Insts /\ Schedule!WorkingDays = WorkingDays
  BY DEF Schedule!Insts, Insts, Schedule!WorkingDays, WorkingDays, Schedule!IsWeekday, IsWeekday,
         Schedule!DayOfWeek, DayOfWeek, Schedule!Saturday, Saturday, Schedule!Sunday, Sunday

\* A worker whose task passes the date check of runDataOnDay begins the next day
\* of an instance that is not replaying; with any other task nothing begins.
LEMMA DecideImplementsBegin ==
  ASSUME TaskInv, TaskInv', NEW w \in Workers, Decide(w)
  PROVE  Schedule!Next \/ UNCHANGED Schedule!vars
<1>1. TypeOK /\ TypeOK' /\ task[w] \in Tasks
  BY DEF Decide, TaskInv, TypeOK, Busy
<1>2. CASE ~IsNextTask(task[w])
  <2>1. /\ UNCHANGED <<current_date, task>>
        /\ worker[w] = "decide" /\ worker'[w] = "repost"
        /\ \A v \in Workers \ {w} : worker'[v] = worker[v]
    BY <1>1, <1>2 DEF Decide, TypeOK
  <2> QED
    BY <2>1, ReplayingUnchanged
<1>3. CASE IsNextTask(task[w])
  <2> PICK i, d : i = task[w].inst /\ d = task[w].date
    OBVIOUS
  <2>1. /\ UNCHANGED <<current_date, task>>
        /\ worker[w] = "decide" /\ worker'[w] = "replay"
        /\ \A v \in Workers \ {w} : worker'[v] = worker[v]
    BY <1>1, <1>3 DEF Decide, TypeOK
  <2>2. i \in Insts /\ d \in WorkingDays /\ d = getNextWorkingDay(current_date[i])
    BY <1>1, <1>3, <2>1 DEF TaskInv, TasksPending, Pending, Live, IsNextTask, Tasks
  <2>3. ASSUME NEW v \in Workers, worker[v] = "replay" PROVE task[v].inst # i
    <3>1. v # w /\ task[v] \in Tasks /\ task[v] # task[w]
      BY <2>1, <2>3, <1>1 DEF TaskInv, HeldOnce, Live, TypeOK, Busy
    <3>2. task[v].date = getNextWorkingDay(current_date[task[v].inst])
      BY <2>3 DEF TaskInv, ReplaysNextDay, IsNextTask
    <3>3. task[v].inst = i => task[v].date = task[w].date
      BY <3>2, <2>2
    <3> QED
      BY <3>1, <3>3, <1>1 DEF Tasks
  <2>4. \A p \in Replaying : p[1] # i
    BY <2>3 DEF Replaying
  <2>5. Replaying' = Replaying \cup {<<i, d>>}
    BY <2>1 DEF Replaying
  <2>6. Schedule!IsNextDay(current_date[i], d)
    <3>1. current_date[i] \in Int /\ \A e \in WorkingDays : e \in Int /\ IsWeekday(e)
      BY <1>1, <2>2, DateAssumption DEF TypeOK, WorkingDays
    <3> QED
      BY <2>2, <3>1, SamePeriod, NextWorkingDayIsFirst DEF Schedule!IsNextDay
  <2>7. Schedule!Begin(i, d)
    BY <2>1, <2>4, <2>5, <2>6 DEF Schedule!Begin
  <2> QED
    BY <2>2, <2>7, SamePeriod DEF Schedule!Next
<1> QED
  BY <1>2, <1>3

\* A worker that sets current_date after StartReplay ends the day it replayed.
LEMMA FinishImplementsEnd ==
  ASSUME TaskInv, NEW w \in Workers, FinishReplay(w)
  PROVE  Schedule!Next
<1> PICK i, d : i = task[w].inst /\ d = task[w].date
  OBVIOUS
<1>1. /\ UNCHANGED task
      /\ worker[w] = "replay" /\ worker'[w] = "release"
      /\ \A v \in Workers \ {w} : worker'[v] = worker[v]
      /\ current_date' = [current_date EXCEPT ![i] = d]
  BY DEF FinishReplay, TaskInv, TypeOK
<1>2. i \in Insts /\ d \in WorkingDays
  BY <1>1 DEF TaskInv, TasksPending, Pending, Live, Tasks
<1>3. ASSUME NEW v \in Workers \ {w}, worker[v] = "replay"
      PROVE  <<task[v].inst, task[v].date>> # <<i, d>>
  BY <1>1, <1>3 DEF TaskInv, TypeOK, Busy, HeldOnce, Live, Tasks
<1>4. <<i, d>> \in Replaying
  BY <1>1 DEF Replaying
<1>5. Replaying' = Replaying \ {<<i, d>>}
  BY <1>1, <1>3 DEF Replaying
<1>6. Schedule!End(i, d)
  BY <1>1, <1>4, <1>5 DEF Schedule!End
<1> QED
  BY <1>2, <1>6, SamePeriod DEF Schedule!Next

\* The steps of the other threads, and of a worker between two replays.
LEMMA OtherStepStutters ==
  ASSUME TypeOK, [Next]_vars,
         \A w \in Workers : ~Decide(w) /\ ~FinishReplay(w)
  PROVE  UNCHANGED Schedule!vars
<1>1. CASE Fetch
  BY <1>1, ReplayingUnchanged DEF Fetch, CacheFile, workerVars
<1>2. CASE Produce
  <2>1. UNCHANGED <<worker, task, current_date>>
    BY <1>2 DEF Produce, SkipWeekend, PassMemoryCheck, StartDay, Load, LoadInstrument, JoinLoads,
                PostTask, ReturnFromProcessOneDay, EndOfPeriod, DeleteWork, workerVars
  <2> QED
    BY <2>1, ReplayingUnchanged
<1>3. ASSUME NEW w \in Workers, TakeTask(w) \/ RepostTask(w) \/ ReleaseTask(w) \/ ExitRun(w)
      PROVE  UNCHANGED Schedule!vars
  <2>1. /\ UNCHANGED current_date
        /\ worker[w] # "replay" /\ worker'[w] # "replay"
        /\ \A v \in Workers \ {w} : worker'[v] = worker[v] /\ task'[v] = task[v]
    BY <1>3 DEF TakeTask, RepostTask, ReleaseTask, ExitRun, TypeOK
  <2> QED
    BY <2>1, ReplayingUnchanged
<1>4. CASE UNCHANGED vars
  BY <1>4, ReplayingUnchanged DEF vars
<1> QED
  BY <1>1, <1>2, <1>3, <1>4 DEF Next, Work

\* So every step of the threads is one of the abstract schedule, or none.
LEMMA StepImplementsSchedule ==
  TaskInv /\ TaskInv' /\ [Next]_vars => [Schedule!Next]_(Schedule!vars)
<1> SUFFICES ASSUME TaskInv, TaskInv', [Next]_vars
             PROVE  Schedule!Next \/ UNCHANGED Schedule!vars
  OBVIOUS
<1> QED
  BY DecideImplementsBegin, FinishImplementsEnd, OtherStepStutters DEF TaskInv

\* Every behaviour of the threads, the queue and the memory limit is one of
\* the abstract schedule.
THEOREM Refinement == Spec => FollowsSchedule
<1>1. Init => Schedule!Init
  <2> SUFFICES ASSUME Init PROVE Schedule!Init
    OBVIOUS
  <2>1. Replaying = {}
    BY DEF Init, Replaying
  <2> QED
    BY <2>1 DEF Init, Schedule!Init, Schedule!Insts, Insts
<1>2. TaskInv /\ TaskInv' /\ [Next]_vars => [Schedule!Next]_(Schedule!vars)
  BY StepImplementsSchedule
<1>3. ScheduleInv => TaskInv
  BY DEF ScheduleInv
<1> QED
  BY <1>1, <1>2, <1>3, ScheduleInvariant, PTL DEF Spec, FollowsSchedule, Schedule!Spec
=============================================================================
