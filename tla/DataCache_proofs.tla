-------------------------- MODULE DataCache_proofs --------------------------
(***************************************************************************)
(* Proofs about DataCache, for any number of instances, workers and        *)
(* instruments, any period, any contents of the directory at the start and *)
(* any number of restarts.                                                 *)
(***************************************************************************)
EXTENDS DataCache, TestFixture_proofs

\* The fetch thread works on a file no load has been told of, and enters it in
\* cache_status only when it is whole.
FetchesUncached ==
  /\ fetcher \in {"save", "status"} => fetchFile \notin cached
  /\ fetcher = "status" /\ fetchFile \in Files => files[fetchFile] = "whole"

\* A file a load is writing again is in part on the disk, and was cached.
RewritesCached == \A p \in rewriting : p \in cached /\ files[p] = "torn"

\* A load that threw had come upon a file of its day that stays unreadable.
FailedOnTorn ==
  \A inst \in failed : /\ inst \in Instruments \ loaded
                        /\ producer = "load"
                        /\ Unreadable(dayFile(inst))

\* A day that is lost was abandoned, for a file of that day.
LostUnreadable == \A i \in Insts, d \in WorkingDays : Lost(i, d) => UnreadableOn(d)

\* No file gets older while the process runs.
OldWasLeft == \A p \in Files : files[p] = "old" => left[p] = "old"

FilesInv ==
  /\ cached \subseteq Files
  /\ files \in [Files -> Contents]
  /\ restarts \in Nat
  /\ FetchesUncached
  /\ RewritesCached
  /\ OldWasLeft
  /\ NoHalfWrittenFile

CacheInv ==
  /\ TaskInv
  /\ LoadedInv
  /\ FilesInv
  /\ FailedOnTorn
  /\ LostUnreadable

-----------------------------------------------------------------------------
(* What the steps do to the scheduler: one of its own steps, a day that is  *)
(* abandoned, or a new start.                                              *)

SchedulerStep == [Next]_vars

\* The fetch thread either leaves the scheduler alone or caches a file.
LEMMA FetchIsSchedulerStep ==
  FetchThread => SchedulerStep /\ UNCHANGED <<producer, date, worker, task, queue, current_date>>
                               /\ UNCHANGED <<rewriting, failed, left, restarts, postIdx>>
<1> SUFFICES ASSUME FetchThread
             PROVE  /\ SchedulerStep
                    /\ UNCHANGED <<producer, date, worker, task, queue, current_date>>
                    /\ UNCHANGED <<rewriting, failed, left, restarts, postIdx>>
  OBVIOUS
<1> USE DEF SchedulerStep, vars, fetchVars
<1>1. CASE SetStatus
  <2>1. CacheFile(fetchFile) /\ UNCHANGED <<rewriting, failed, left, restarts>>
    BY <1>1 DEF SetStatus
  <2>2. fetchFile \in Fetchable
    BY <2>1 DEF CacheFile
  <2> QED
    BY <2>1, <2>2 DEF Next, Fetch, CacheFile, producerVars, workerVars
<1>2. CASE FetchThread /\ ~SetStatus
  <2>1. UNCHANGED <<vars, rewriting, failed, left, restarts>>
    BY <1>2 DEF FetchThread, Login, FetchDay, EndFetch, SkipCached, Query, QueryThrows,
                QueryCrashes, SaveFile, LogOff
  <2> QED
    BY <2>1
<1> QED
  BY <1>1, <1>2

\* The producer takes a step of its own or abandons a day.
LEMMA ProducerIsSchedulerStep ==
  ProducerThread /\ ~AbandonDay => SchedulerStep /\ UNCHANGED <<cached, left, restarts>>
<1> SUFFICES ASSUME ProducerThread, ~AbandonDay
             PROVE  SchedulerStep /\ UNCHANGED <<cached, left, restarts>>
  OBVIOUS
<1> USE DEF SchedulerStep, cacheVars
<1>1. CASE \/ SkipWeekend \/ PassMemoryCheck \/ StartDay \/ JoinLoads \/ PostTask
           \/ ReturnFromProcessOneDay \/ EndOfPeriod \/ DeleteWork
  <2>1. UNCHANGED <<left, restarts>>
    BY <1>1 DEF ProducerThread, LoadWhole, LoadTorn, RewriteOld, FinishRewrite, RewriteThrows
  <2>2. UNCHANGED cached
    BY <1>1 DEF SkipWeekend, PassMemoryCheck, StartDay, JoinLoads, PostTask,
                ReturnFromProcessOneDay, EndOfPeriod, DeleteWork
  <2> QED
    BY <1>1, <2>1, <2>2 DEF Next, Produce
<1>2. ASSUME NEW inst \in Instruments, LoadWhole(inst) \/ FinishRewrite(inst)
      PROVE  SchedulerStep /\ UNCHANGED <<cached, left, restarts>>
  <2>1. LoadInstrument(inst) /\ UNCHANGED <<left, restarts>>
    BY <1>2 DEF LoadWhole, FinishRewrite
  <2> QED
    BY <2>1 DEF Next, Produce, Load, LoadInstrument
<1>3. ASSUME NEW inst \in Instruments, LoadTorn(inst) \/ RewriteOld(inst) \/ RewriteThrows(inst)
      PROVE  SchedulerStep /\ UNCHANGED <<cached, left, restarts>>
  BY <1>3 DEF LoadTorn, RewriteOld, RewriteThrows, vars
<1> QED
  BY <1>1, <1>2, <1>3 DEF ProducerThread

\* The workers know nothing of the files.
LEMMA WorkerIsSchedulerStep ==
  ASSUME NEW w \in Workers, WorkerThread(w)
  PROVE  SchedulerStep /\ UNCHANGED <<cached, producer, date>> /\ UNCHANGED cacheVars
<1>1. Work(w) /\ UNCHANGED cacheVars
  BY DEF WorkerThread
<1>2. UNCHANGED <<cached, producer, date>>
  BY <1>1 DEF Work, TakeTask, Decide, RepostTask, FinishReplay, ReleaseTask, ExitRun, producerVars
<1> QED
  BY <1>1, <1>2 DEF SchedulerStep, Next

\* After an abandoned day the producer goes on with the next, as after a posted one.
LEMMA AbandonKeepsTasks ==
  ASSUME TaskInv, AbandonDay
  PROVE  TaskInv'
<1>1. /\ UNCHANGED <<queue, worker, task, current_date, cached, loaded, postIdx>>
      /\ producer = "load" /\ producer' = "next" /\ date' = date + 1
      /\ dayInMemoryCount' \in {dayInMemoryCount, dayInMemoryCount - 1}
  BY DEF AbandonDay, workerVars, Drop, dataVars
<1>2. TypeOK /\ TypeOK'
  <2>1. stores' \subseteq stores
    BY DEF AbandonDay, Drop, dataVars
  <2> QED
    BY <1>1, <2>1 DEF TaskInv, TypeOK, Busy
<1>3. \A i \in Insts, d \in Int : Posted(i, d) => Posted(i, d)'
  BY <1>1, <1>2 DEF TypeOK, Posted
<1>4. ProducerOnTrack'
  <2>1. StartDate <= date'
    BY <1>1, <1>2, DateAssumption DEF TaskInv, ProducerOnTrack, TypeOK
  <2>2. \A w \in Workers : worker'[w] # "exited"
    BY <1>1, NoExitYet DEF Stopped, WorkAlive
  <2> QED
    BY <1>1, <2>1, <2>2 DEF ProducerOnTrack
<1> QED
  BY <1>1, <1>2, <1>3, <1>4, NoTaskMoved DEF TaskInv

\* Its data is freed, and no task's.
LEMMA AbandonKeepsLoaded ==
  ASSUME LoadedInv, AbandonDay
  PROVE  LoadedInv'
<1>1. /\ Drop(date, WorkersHold(date)) /\ producer' = "next"
      /\ UNCHANGED <<queue, worker, task>>
  BY DEF AbandonDay, workerVars
<1>2. \A e : DayLoaded(e) /\ (e = date => WorkersHold(date)) => DayLoaded(e)'
  BY <1>1, DropKeepsHeld
<1>3. ASSUME NEW k \in 1 .. Len(queue) PROVE DayLoaded(queue[k].date)'
  <2> PICK e : e = queue[k].date
    OBVIOUS
  <2>1. DayLoaded(e) /\ (e = date => WorkersHold(date))
    BY <1>3 DEF LoadedInv, WorkersHold, QueueHolds
  <2> QED
    BY <1>1, <1>2, <2>1
<1>4. ASSUME NEW w \in Workers, Busy(w) PROVE DayLoaded(task[w].date)'
  <2> PICK e : e = task[w].date
    OBVIOUS
  <2>1. DayLoaded(e) /\ (e = date => WorkersHold(date))
    BY <1>4 DEF LoadedInv, WorkersHold, WorkerHolds
  <2> QED
    BY <1>1, <1>2, <2>1
<1> QED
  BY <1>1, <1>3, <1>4 DEF LoadedInv, Busy

\* A process that is started again starts like the first.
LEMMA RestartKeepsTasks ==
  Restart => /\ TaskInv' /\ LoadedInv'
             /\ \A i \in Insts, d \in WorkingDays : ~Lost(i, d)'
<1> SUFFICES ASSUME Restart
             PROVE  TaskInv' /\ LoadedInv' /\ \A i \in Insts, d \in WorkingDays : ~Lost(i, d)'
  OBVIOUS
<1>1. /\ queue' = <<>> /\ Len(queue') = 0
      /\ worker' = [w \in Workers |-> "idle"]
      /\ task' = [w \in Workers |-> NoTask]
      /\ date' = StartDate /\ producer' = "next" /\ loaded' = {} /\ postIdx' = 1
      /\ current_date' = [i \in Insts |-> StartDate - 1]
      /\ stores' = {} /\ dayInMemoryCount' = 0 /\ cached' \subseteq Files
  BY DEF Restart, FilesByName
<1>2. TypeOK'
  BY <1>1, FilesAssumption, NumInstAssumption, DateAssumption DEF TypeOK, Busy, Tasks, Insts
<1>3. /\ QueuedOnce' /\ HeldNotQueued' /\ HeldOnce' /\ TasksPending' /\ ReplaysNextDay'
  BY <1>1 DEF QueuedOnce, HeldNotQueued, HeldOnce, TasksPending, ReplaysNextDay, Live
<1>4. BehindProducer'
  BY <1>1, DateAssumption DEF BehindProducer, Posted
<1>5. ASSUME NEW i \in Insts, NEW d \in WorkingDays PROVE ~Posted(i, d)'
  BY <1>1, DateAssumption DEF Posted, WorkingDays
<1>6. ProducerOnTrack'
  BY <1>1, DateAssumption DEF ProducerOnTrack
<1>7. LoadedInv'
  BY <1>1 DEF LoadedInv, Busy
<1> QED
  BY <1>2, <1>3, <1>4, <1>5, <1>6, <1>7 DEF TaskInv, Lost

-----------------------------------------------------------------------------
(* What the steps do to the files.  A file that is unreadable, cached and in *)
(* no load's hands, stays so while the process lives.                      *)

StaysUnreadable == \A p : Unreadable(p) => Unreadable(p)'

\* The fetch thread writes only what is not cached, and no other file.
LEMMA FetchKeepsFiles == FilesInv /\ FetchThread => FilesInv' /\ StaysUnreadable
<1> SUFFICES ASSUME FilesInv, FetchThread PROVE FilesInv' /\ StaysUnreadable
  OBVIOUS
<1> USE DEF FilesInv, FetchesUncached, RewritesCached, OldWasLeft, NoHalfWrittenFile, StaysUnreadable,
            Unreadable, vars, fetchVars
<1>1. CASE Login \/ FetchDay \/ EndFetch \/ SkipCached \/ QueryThrows \/ QueryCrashes \/ LogOff
  <2>1. /\ UNCHANGED <<cached, files, left, rewriting, restarts>>
        /\ fetcher' \notin {"save", "status"} \/ UNCHANGED <<fetcher, fetchFile>>
    BY <1>1 DEF Login, FetchDay, EndFetch, SkipCached, QueryThrows, QueryCrashes, LogOff,
                AtInstrument, fetchFile
  <2> QED
    BY <2>1
<1>2. CASE Query
  <2>1. /\ fetchFile \notin cached /\ fetcher' = "save" /\ UNCHANGED fetchFile
        /\ files' = [files EXCEPT ![fetchFile] = "torn"]
        /\ UNCHANGED <<cached, left, rewriting, restarts>>
    BY <1>2 DEF Query, NextInstrument, StepAfter, fetchFile
  <2>2. files' \in [Files -> Contents] /\ \A p \in cached : files'[p] = files[p]
    BY <2>1 DEF Contents
  <2> QED
    BY <2>1, <2>2
<1>3. CASE SaveFile
  <2>1. /\ fetchFile \notin cached /\ fetcher' = "status" /\ UNCHANGED fetchFile
        /\ files' = [files EXCEPT ![fetchFile] = "whole"]
        /\ UNCHANGED <<cached, left, rewriting, restarts>>
    BY <1>3 DEF SaveFile, NextInstrument, StepAfter, fetchFile
  <2>2. files' \in [Files -> Contents] /\ \A p \in cached : files'[p] = files[p]
    BY <2>1 DEF Contents
  <2>3. fetchFile \in Files => files'[fetchFile] = "whole"
    BY <2>1
  <2> QED
    BY <2>1, <2>2, <2>3
<1>4. CASE SetStatus
  <2>1. /\ fetchFile \in Files /\ cached' = cached \cup {fetchFile}
        /\ fetcher = "status" /\ fetcher' = "inst"
        /\ UNCHANGED <<files, left, rewriting, restarts>>
    BY <1>4, FilesAssumption DEF SetStatus, CacheFile, NextInstrument, StepAfter
  <2> QED
    BY <2>1
<1> QED
  BY <1>1, <1>2, <1>3, <1>4 DEF FetchThread

\* A load writes only what is cached, and what it leaves in part is its own.
LEMMA ProducerKeepsFiles == FilesInv /\ ProducerThread => FilesInv' /\ StaysUnreadable
<1> SUFFICES ASSUME FilesInv, ProducerThread PROVE FilesInv' /\ StaysUnreadable
  OBVIOUS
<1> USE DEF FilesInv, FetchesUncached, RewritesCached, OldWasLeft, NoHalfWrittenFile, StaysUnreadable,
            Unreadable, fetchVars
<1>1. UNCHANGED <<cached, left, restarts, fetcher, fetchFile>>
  <2>1. UNCHANGED <<fetcher, fetchFile>>
    BY DEF ProducerThread, LoadWhole, LoadTorn, RewriteOld, FinishRewrite, RewriteThrows,
           AbandonDay, cacheVars, fetchFile
  <2>2. UNCHANGED <<cached, left, restarts>>
    BY ProducerIsSchedulerStep DEF AbandonDay
  <2> QED
    BY <2>1, <2>2
<1>2. CASE UNCHANGED <<files, rewriting>>
  BY <1>1, <1>2
<1>3. ASSUME NEW inst \in Instruments, RewriteOld(inst)
      PROVE  FilesInv' /\ StaysUnreadable
  <2>1. /\ dayFile(inst) \in cached /\ files[dayFile(inst)] = "old"
        /\ files' = [files EXCEPT ![dayFile(inst)] = "torn"]
        /\ rewriting' = rewriting \cup {dayFile(inst)}
    BY <1>3 DEF RewriteOld
  <2>2. /\ files' \in [Files -> Contents] /\ files'[dayFile(inst)] = "torn"
        /\ \A p \in Files : p # dayFile(inst) => files'[p] = files[p]
    BY <2>1 DEF Contents
  <2> QED
    BY <1>1, <2>1, <2>2
<1>4. ASSUME NEW inst \in Instruments, FinishRewrite(inst)
      PROVE  FilesInv' /\ StaysUnreadable
  <2>1. /\ dayFile(inst) \in rewriting
        /\ files' = [files EXCEPT ![dayFile(inst)] = "whole"]
        /\ rewriting' = rewriting \ {dayFile(inst)}
    BY <1>4 DEF FinishRewrite
  <2>2. /\ files' \in [Files -> Contents] /\ files'[dayFile(inst)] = "whole"
        /\ \A p \in Files : p # dayFile(inst) => files'[p] = files[p]
    BY <2>1 DEF Contents
  <2> QED
    BY <1>1, <2>1, <2>2
<1>5. ASSUME NEW inst \in Instruments, RewriteThrows(inst)
      PROVE  FilesInv' /\ StaysUnreadable
  BY <1>1, <1>5 DEF RewriteThrows
<1>6. \/ UNCHANGED <<files, rewriting>>
      \/ \E inst \in Instruments : RewriteOld(inst) \/ FinishRewrite(inst) \/ RewriteThrows(inst)
  BY DEF ProducerThread, LoadWhole, LoadTorn, AbandonDay, cacheVars
<1> QED
  BY <1>2, <1>3, <1>4, <1>5, <1>6

\* What a new process finds it takes as it is.
LEMMA RestartKeepsFiles == FilesInv /\ Restart => FilesInv'
<1> SUFFICES ASSUME FilesInv, Restart PROVE FilesInv'
  OBVIOUS
<1> QED
  BY DEF FilesInv, FetchesUncached, RewritesCached, OldWasLeft, NoHalfWrittenFile, Restart,
         FilesByName

-----------------------------------------------------------------------------
(* The invariant.                                                          *)

\* The first process finds a directory as the later ones do.
LEMMA CacheInvInit == CacheInit => CacheInv
<1> SUFFICES ASSUME CacheInit PROVE CacheInv
  OBVIOUS
<1>1. TaskInv /\ NothingLost
  BY ScheduleInvInit DEF CacheInit, ScheduleInv
<1>2. FilesInv /\ FailedOnTorn
  BY FilesAssumption DEF CacheInit, FilesByName, FilesInv, FetchesUncached, RewritesCached,
                         OldWasLeft, NoHalfWrittenFile, FailedOnTorn
<1>3. LostUnreadable
  BY <1>1 DEF LostUnreadable, NothingLost
<1>4. LoadedInv
  BY DEF CacheInit, Init, LoadedInv, Busy
<1> QED
  BY <1>1, <1>2, <1>3, <1>4 DEF CacheInv

\* A step of the scheduler loses no day that was not lost already.
LEMMA LostStaysUnreadable ==
  ASSUME TaskInv, LoadedInv, SchedulerStep, LostUnreadable, StaysUnreadable
  PROVE  TaskInv' /\ LoadedInv' /\ LostUnreadable'
<1>1. TaskInv' /\ LosesNothing
  BY TaskInvStep DEF SchedulerStep
<1>2. \A d : UnreadableOn(d) => UnreadableOn(d)'
  BY DEF StaysUnreadable, UnreadableOn
<1>3. LoadedInv'
  BY LoadedInvStep DEF TaskInv, SchedulerStep
<1> QED
  BY <1>1, <1>2, <1>3 DEF LosesNothing, LostUnreadable

\* The day of the producer's failed loads is the only one it loses.
LEMMA AbandonedIsUnreadable ==
  ASSUME CacheInv, AbandonDay
  PROVE  LostUnreadable'
<1>1. /\ UNCHANGED <<queue, worker, task, current_date, cached, files, rewriting>>
      /\ producer = "load" /\ producer' = "next" /\ date' = date + 1 /\ date \in Int
  BY DEF AbandonDay, workerVars, CacheInv, TaskInv, TypeOK
<1>2. PICK inst \in failed : inst \in Instruments /\ Unreadable(<<inst, date>>)
  BY DEF AbandonDay, CacheInv, FailedOnTorn, dayFile
<1> SUFFICES ASSUME NEW i \in Insts, NEW d \in WorkingDays, Lost(i, d)'
             PROVE  UnreadableOn(d)'
  BY DEF LostUnreadable
<1>3. CASE Lost(i, d)
  BY <1>1, <1>3 DEF CacheInv, LostUnreadable, UnreadableOn, Unreadable
<1>4. CASE ~Lost(i, d)
  <2>1. Posted(i, d)' /\ ~Posted(i, d)
    BY <1>1, <1>4 DEF Lost, Waits, Live
  <2>2. d = date
    BY <1>1, <2>1, DateAssumption DEF Posted, WorkingDays
  <2> QED
    BY <1>1, <1>2, <2>2 DEF UnreadableOn, Unreadable
<1> QED
  BY <1>3, <1>4

\* A load that failed stays failed until its day is abandoned: the day cannot be
\* joined, because that instrument is never loaded.
LEMMA FailedStaysOnTorn ==
  ASSUME CacheInv, ProducerThread, ~AbandonDay, StaysUnreadable
  PROVE  FailedOnTorn'
<1> USE DEF CacheInv, FailedOnTorn, StaysUnreadable
<1>1. CASE /\ \/ SkipWeekend \/ PassMemoryCheck \/ StartDay \/ JoinLoads \/ PostTask
              \/ ReturnFromProcessOneDay \/ EndOfPeriod \/ DeleteWork
           /\ UNCHANGED cacheVars
  <2>1. failed = {}
    BY <1>1 DEF SkipWeekend, PassMemoryCheck, StartDay, JoinLoads, AllLoaded, PostTask,
                ReturnFromProcessOneDay, EndOfPeriod, DeleteWork
  <2> QED
    BY <1>1, <2>1 DEF cacheVars
<1>2. ASSUME NEW inst \in Instruments, LoadWhole(inst) \/ FinishRewrite(inst)
      PROVE  FailedOnTorn'
  <2>1. /\ UNCHANGED <<producer, date, failed>>
        /\ loaded' = loaded \cup {inst}
    BY <1>2 DEF LoadWhole, FinishRewrite, LoadInstrument, cacheVars
  <2>2. inst \notin failed
    BY <1>2 DEF LoadWhole, FinishRewrite, Unreadable
  <2> QED
    BY <2>1, <2>2 DEF dayFile
<1>3. ASSUME NEW inst \in Instruments, LoadTorn(inst) \/ RewriteOld(inst)
      PROVE  FailedOnTorn'
  <2>1. UNCHANGED <<producer, date, loaded>> /\ producer = "load" /\ inst \notin loaded
    BY <1>3 DEF LoadTorn, RewriteOld, vars
  <2>2. failed' = failed \/ (failed' = failed \cup {inst} /\ Unreadable(dayFile(inst)))
    BY <1>3 DEF LoadTorn, RewriteOld, Unreadable
  <2> QED
    BY <2>1, <2>2 DEF dayFile
<1>4. ASSUME NEW inst \in Instruments, RewriteThrows(inst)
      PROVE  FailedOnTorn'
  <2>1. /\ UNCHANGED <<producer, date, loaded, cached, files>> /\ producer = "load"
        /\ failed' = failed \cup {inst} /\ rewriting' = rewriting \ {dayFile(inst)}
        /\ dayFile(inst) \in rewriting /\ inst \notin loaded
    BY <1>4 DEF RewriteThrows, vars, producerVars
  <2>2. Unreadable(dayFile(inst))'
    BY <2>1 DEF FilesInv, RewritesCached, Unreadable, dayFile
  <2> QED
    BY <2>1, <2>2 DEF dayFile
<1> QED
  BY <1>1, <1>2, <1>3, <1>4 DEF ProducerThread

\* Every step keeps the tasks in order, the files explained, and every lost day behind
\* a file of its own that cannot be read.
LEMMA CacheInvStep == CacheInv /\ [CacheNext]_allVars => CacheInv'
<1> SUFFICES ASSUME CacheInv, [CacheNext]_allVars PROVE CacheInv'
  OBVIOUS
<1> USE DEF CacheInv
<1>1. CASE FetchThread
  <2>1. FilesInv' /\ StaysUnreadable
    BY <1>1, FetchKeepsFiles
  <2>2. TaskInv' /\ LoadedInv' /\ LostUnreadable'
    BY <1>1, <2>1, FetchIsSchedulerStep, LostStaysUnreadable
  <2>3. UNCHANGED <<failed, producer, date, loaded>>
    <3>1. UNCHANGED loaded
      BY <1>1 DEF FetchThread, Login, FetchDay, EndFetch, SkipCached, Query, QueryThrows,
                  QueryCrashes, SaveFile, LogOff, SetStatus, CacheFile, vars, producerVars
    <3> QED
      BY <1>1, <3>1, FetchIsSchedulerStep
  <2>4. FailedOnTorn'
    BY <2>1, <2>3 DEF FailedOnTorn, StaysUnreadable, dayFile
  <2> QED
    BY <2>1, <2>2, <2>4
<1>2. CASE ProducerThread /\ ~AbandonDay
  <2>1. FilesInv' /\ StaysUnreadable
    BY <1>2, ProducerKeepsFiles
  <2>2. TaskInv' /\ LoadedInv' /\ LostUnreadable'
    BY <1>2, <2>1, ProducerIsSchedulerStep, LostStaysUnreadable
  <2> QED
    BY <1>2, <2>1, <2>2, FailedStaysOnTorn
<1>3. CASE AbandonDay
  <2>1. FilesInv'
    BY <1>3, ProducerKeepsFiles DEF ProducerThread
  <2>2. failed' = {}
    BY <1>3 DEF AbandonDay
  <2> QED
    BY <1>3, <2>1, <2>2, AbandonKeepsTasks, AbandonKeepsLoaded, AbandonedIsUnreadable
       DEF FailedOnTorn
<1>4. ASSUME NEW w \in Workers, WorkerThread(w) PROVE CacheInv'
  <2>1. SchedulerStep /\ UNCHANGED <<cached, producer, date, files, rewriting, left, failed,
                                      restarts, fetcher, fetchDate, fetchIdx>>
    BY <1>4, WorkerIsSchedulerStep DEF cacheVars, fetchVars
  <2>2. StaysUnreadable
    BY <2>1 DEF StaysUnreadable, Unreadable
  <2>3. FilesInv'
    BY <2>1 DEF FilesInv, FetchesUncached, fetchFile, RewritesCached, OldWasLeft, NoHalfWrittenFile
  <2>4. FailedOnTorn'
    <3>1. UNCHANGED loaded
      BY <1>4 DEF WorkerThread, Work, TakeTask, Decide, RepostTask, FinishReplay, ReleaseTask,
                  ExitRun, producerVars
    <3> QED
      BY <2>1, <2>2, <3>1 DEF FailedOnTorn, StaysUnreadable, dayFile
  <2> QED
    BY <2>1, <2>2, <2>3, <2>4, LostStaysUnreadable
<1>5. CASE Restart
  <2>1. FilesInv' /\ failed' = {}
    BY <1>5, RestartKeepsFiles DEF Restart
  <2> QED
    BY <1>5, <2>1, RestartKeepsTasks DEF FailedOnTorn, LostUnreadable
<1>6. CASE UNCHANGED allVars
  <2>1. SchedulerStep /\ UNCHANGED cacheVars /\ UNCHANGED <<producer, date, loaded, cached>>
    BY <1>6 DEF allVars, SchedulerStep, vars
  <2>2. StaysUnreadable
    BY <2>1 DEF StaysUnreadable, Unreadable, cacheVars
  <2>3. FilesInv' /\ FailedOnTorn'
    BY <2>1, <2>2 DEF FilesInv, FetchesUncached, fetchFile, RewritesCached, OldWasLeft, NoHalfWrittenFile,
                      FailedOnTorn, StaysUnreadable, dayFile, cacheVars, fetchVars
  <2> QED
    BY <2>1, <2>2, <2>3, LostStaysUnreadable
<1> QED
  BY <1>1, <1>2, <1>3, <1>4, <1>5, <1>6 DEF CacheNext

\* The composition keeps the scheduler's tasks and the files as the invariant says,
\* with every crash, failed load and restart.
LEMMA CacheInvariant == CacheSpec => []CacheInv
  BY CacheInvInit, CacheInvStep, PTL DEF CacheSpec

-----------------------------------------------------------------------------
(* What follows from it.                                                   *)

\* A cached file is in part on the disk only if it was at the start of the process, or
\* was of the older version then and its own load has begun to write it again.
THEOREM NoPartialReads == CacheSpec => []NoHalfWrittenFile
<1>1. CacheInv => NoHalfWrittenFile
  BY DEF CacheInv, FilesInv
<1> QED
  BY <1>1, CacheInvariant, PTL

\* A day one of whose loads fails, in reading its file or in writing it again, is never
\* replayed with the others: no task runs without the ticks of every instrument.
THEOREM LoadedThroughFailures == CacheSpec => []ReplayOnlyLoadedDays
<1>1. CacheInv => ReplayOnlyLoadedDays
  BY DEF CacheInv, LoadedInv, Busy, DayLoaded, ReplayOnlyLoadedDays
<1> QED
  BY <1>1, CacheInvariant, PTL

\* When a worker has left there is no task anywhere and every working day has been
\* posted or abandoned, so one that is missing has a file that cannot be read.
THEOREM MissingDaysExplained == CacheSpec => []MissingOnlyUnreadable
<1>1. CacheInv => MissingOnlyUnreadable
  <2> SUFFICES ASSUME CacheInv, NEW v \in Workers, worker[v] = "exited",
                      NEW i \in Insts, NEW d \in WorkingDays, ~(d <= current_date[i])
               PROVE  UnreadableOn(d)
    BY DEF MissingOnlyUnreadable
  <2>1. queue = <<>> /\ producer = "done" /\ \A w \in Workers : ~Live(w)
    BY DEF CacheInv, TaskInv, ProducerOnTrack, Stopped, WorkAlive, Busy, Live
  <2>2. ~Waits(i, d)
    BY <2>1 DEF Waits
  <2>3. Posted(i, d) /\ d \in Int /\ current_date[i] \in Int
    BY <2>1, DateAssumption DEF CacheInv, TaskInv, TypeOK, ProducerOnTrack, Posted, WorkingDays
  <2> QED
    BY <2>2, <2>3 DEF CacheInv, LostUnreadable, Lost
<1> QED
  BY <1>1, CacheInvariant, PTL

\* While a process lives its steps are the abstract schedule's, or none: no instance
\* goes on over a day that was abandoned.
THEOREM DaysStayInOrder == CacheSpec => DaysInOrder
<1>1. CacheInv /\ CacheInv' /\ [CacheNext]_allVars
        => (restarts' = restarts => [Schedule!Next]_(Schedule!vars))
  <2> SUFFICES ASSUME CacheInv, CacheInv', [CacheNext]_allVars, restarts' = restarts
               PROVE  [Schedule!Next]_(Schedule!vars)
    OBVIOUS
  <2>1. CASE AbandonDay
    BY <2>1, ReplayingUnchanged DEF AbandonDay, workerVars
  <2>2. CASE SchedulerStep
    BY <2>2, StepImplementsSchedule DEF CacheInv, SchedulerStep
  <2>3. ~Restart
    BY DEF CacheInv, FilesInv, Restart
  <2>4. CASE UNCHANGED allVars
    BY <2>2, <2>4 DEF allVars, SchedulerStep
  <2> QED
    BY <2>1, <2>2, <2>3, <2>4, FetchIsSchedulerStep, ProducerIsSchedulerStep, WorkerIsSchedulerStep
       DEF CacheNext
<1> QED
  BY <1>1, CacheInvariant, PTL DEF CacheSpec, DaysInOrder
=============================================================================
