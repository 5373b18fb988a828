------------------------------ MODULE DataCache ------------------------------
(***************************************************************************)
(* The cache of tick files (backtestbed/datacache.cpp) composed with the   *)
(* scheduler that reads it: the fetch thread that queries the database and *)
(* writes the files, the loads of a day, which may rewrite a file or fail  *)
(* on one, and a process that is killed and started again on what it left  *)
(* on the disk.                                                            *)
(*                                                                         *)
(* TestFixture takes every file that is cached for readable.  Here a file  *)
(* has contents, and `cached' says no more than cache_status does: that a  *)
(* file of that name was there at the start or has been written since.     *)
(***************************************************************************)
EXTENDS TestFixture

CONSTANTS InstrumentSeq,  \* the order of datarequest.instruments
          LeftFiles,      \* the contents the cache directory may have at first
          MaxRestarts     \* bounds how often the process is killed

Files == Instruments \X {d \in StartDate .. EndDate - 1 : IsWeekday(d)}

\* A file of an older version is read and written again; of one that was still
\* being written, or being rewritten, when the process was killed, a part is there.
Contents == {"none", "old", "torn", "whole"}

ASSUME OrderAssumption  == \A inst \in Instruments :
                             \E k \in DOMAIN InstrumentSeq : InstrumentSeq[k] = inst
ASSUME FilesAssumption  == Fetchable = Files /\ LeftFiles \subseteq [Files -> Contents]
\* The fetch thread compares a day with the end of the period by !=.
ASSUME PeriodAssumption == StartDate <= EndDate

VARIABLES
  files,       \* what is in each file
  fetcher,     \* where remote_IOthread is
  fetchDate,   \* the day it is at
  fetchIdx,    \* its place in the instruments
  connected,   \* the database connection is open
  rewriting,   \* the files their own load is writing again
  failed,      \* the instruments whose load of the producer's day threw
  alive,       \* the process runs
  left,        \* what was in each file when the process started
  restarts

fetchVars == <<fetcher, fetchDate, fetchIdx, connected>>
cacheVars == <<files, fetchVars, rewriting, failed, alive, left, restarts>>
allVars   == <<vars, cacheVars>>

CacheTypeOK ==
  /\ TypeOK
  /\ files \in [Files -> Contents]
  /\ left \in [Files -> Contents]
  /\ fetcher \in {"login", "day", "inst", "save", "status", "done"}
  /\ fetchDate \in StartDate .. EndDate
  /\ fetchIdx \in 1 .. Len(InstrumentSeq) + 1
  /\ connected \in BOOLEAN
  /\ rewriting \subseteq Files
  /\ failed \subseteq Instruments
  /\ alive \in BOOLEAN
  /\ restarts \in 0 .. MaxRestarts

\* InitDataCache: every file there is, by its name.  The directories of indexes up to
\* 10000 are passed over; every instrument getInstrumentIndex knows has a higher one.
FilesByName(contents) == {p \in Files : contents[p] # "none"}

CacheInit ==
  /\ files \in LeftFiles
  /\ Init
  /\ cached = FilesByName(files)
  /\ fetcher = "login"
  /\ fetchDate = StartDate
  /\ fetchIdx = 1
  /\ connected = FALSE
  /\ rewriting = {}
  /\ failed = {}
  /\ alive = TRUE
  /\ left = files
  /\ restarts = 0

-----------------------------------------------------------------------------
(* The fetch thread: addDataCacheRquetMSSql, and getDataFromMSSql for each *)
(* working day.                                                            *)

fetchFile == <<InstrumentSeq[fetchIdx], fetchDate>>

\* rlogon may throw: the exception is printed and the days are walked all the same.
Login ==
  /\ fetcher = "login"
  /\ connected' \in BOOLEAN
  /\ fetcher' = "day"
  /\ UNCHANGED <<vars, files, fetchDate, fetchIdx, rewriting, failed, alive, left, restarts>>

FetchDay ==
  /\ fetcher = "day" /\ fetchDate # EndDate
  /\ IF IsWeekday(fetchDate)
       THEN fetcher' = "inst" /\ fetchIdx' = 1 /\ UNCHANGED fetchDate
       ELSE fetchDate' = fetchDate + 1 /\ UNCHANGED <<fetcher, fetchIdx>>
  /\ UNCHANGED <<vars, files, connected, rewriting, failed, alive, left, restarts>>

EndFetch ==
  /\ fetcher = "day" /\ fetchDate = EndDate
  /\ fetcher' = "done"
  /\ UNCHANGED <<vars, files, fetchDate, fetchIdx, connected, rewriting, failed, alive, left,
                 restarts>>

AtInstrument == fetcher = "inst" /\ fetchIdx <= Len(InstrumentSeq)

SkipCached ==
  /\ AtInstrument
  /\ fetchFile \in cached
  /\ fetchIdx' = fetchIdx + 1
  /\ UNCHANGED <<vars, files, fetcher, fetchDate, connected, rewriting, failed, alive, left,
                 restarts>>

\* Mutant: the file is in cache_status before it is written.
StatusBeforeSave(step) ==
  CASE step = "query" -> "status" [] step = "status" -> "save" [] step = "save" -> "inst"

\* The order of what is done for a file that is not cached.
StepAfter(step) ==
  CASE step = "query" -> "save" [] step = "save" -> "status" [] step = "status" -> "inst"

NextInstrument(step) ==
  /\ fetcher' = StepAfter(step)
  /\ fetchIdx' = IF StepAfter(step) = "inst" THEN fetchIdx + 1 ELSE fetchIdx
  /\ UNCHANGED <<fetchDate, connected>>

\* A day of one tick or none is saved: the file is opened, and emptied.
Query ==
  /\ AtInstrument
  /\ fetchFile \notin cached
  /\ connected
  /\ files' = [files EXCEPT ![fetchFile] = "torn"]
  /\ NextInstrument("query")
  /\ UNCHANGED <<vars, rewriting, failed, alive, left, restarts>>

\* The query throws, as it does when not connected; the rest of the day's
\* instruments are not asked for, and the connection stays as it is.
QueryThrows ==
  /\ AtInstrument
  /\ fetchFile \notin cached
  /\ fetcher' = "day"
  /\ fetchDate' = fetchDate + 1
  /\ UNCHANGED <<vars, files, fetchIdx, connected, rewriting, failed, alive, left, restarts>>

\* A day of two ticks or more: the pointer to the tick is moved into the store
\* with the first row and is null from then on, and sort follows it.
QueryCrashes ==
  /\ AtInstrument
  /\ fetchFile \notin cached
  /\ connected
  /\ alive' = FALSE
  /\ UNCHANGED <<vars, files, fetchVars, rewriting, failed, left, restarts>>

SaveFile ==
  /\ fetcher = "save"
  /\ files' = [files EXCEPT ![fetchFile] = "whole"]
  /\ NextInstrument("save")
  /\ UNCHANGED <<vars, rewriting, failed, alive, left, restarts>>

SetStatus ==
  /\ fetcher = "status"
  /\ CacheFile(fetchFile)
  /\ NextInstrument("status")
  /\ UNCHANGED <<files, rewriting, failed, alive, left, restarts>>

\* logoff after the day, also when every file was cached: no later day is fetched.
LogOff ==
  /\ fetcher = "inst" /\ fetchIdx > Len(InstrumentSeq)
  /\ connected' = FALSE
  /\ fetcher' = "day"
  /\ fetchDate' = fetchDate + 1
  /\ UNCHANGED <<vars, files, fetchIdx, rewriting, failed, alive, left, restarts>>

FetchThread == \/ Login \/ FetchDay \/ EndFetch \/ SkipCached \/ Query \/ QueryThrows
               \/ QueryCrashes \/ SaveFile \/ SetStatus \/ LogOff

-----------------------------------------------------------------------------
(* The loads of a day: MarketDataStore(cache_path), then addDataStore.     *)

dayFile(inst) == <<inst, date>>

LoadWhole(inst) ==
  /\ inst \notin failed
  /\ LoadInstrument(inst)
  /\ files[dayFile(inst)] = "whole"
  /\ UNCHANGED cacheVars

\* The archive throws at the end of the file, and the load's future keeps that.
LoadTorn(inst) ==
  /\ producer = "load"
  /\ inst \in Instruments \ (loaded \cup failed)
  /\ dayFile(inst) \in cached \ rewriting
  /\ files[dayFile(inst)] = "torn"
  /\ failed' = failed \cup {inst}
  /\ UNCHANGED <<vars, files, fetchVars, rewriting, alive, left, restarts>>

\* isNeedUpdateStore: a file of the older version is read and written in place ...
RewriteOld(inst) ==
  /\ producer = "load"
  /\ inst \in Instruments \ (loaded \cup failed)
  /\ dayFile(inst) \in cached
  /\ files[dayFile(inst)] = "old"
  /\ files' = [files EXCEPT ![dayFile(inst)] = "torn"]
  /\ rewriting' = rewriting \cup {dayFile(inst)}
  /\ UNCHANGED <<vars, fetchVars, failed, alive, left, restarts>>

FinishRewrite(inst) ==
  /\ dayFile(inst) \in rewriting
  /\ LoadInstrument(inst)
  /\ files' = [files EXCEPT ![dayFile(inst)] = "whole"]
  /\ rewriting' = rewriting \ {dayFile(inst)}
  /\ UNCHANGED <<fetchVars, failed, alive, left, restarts>>

\* ... which may fail, as on a full disk: the load throws, and leaves a part of the file.
RewriteThrows(inst) ==
  /\ producer = "load"
  /\ inst \in Instruments \ loaded
  /\ dayFile(inst) \in rewriting
  /\ failed' = failed \cup {inst}
  /\ rewriting' = rewriting \ {dayFile(inst)}
  /\ UNCHANGED <<vars, files, fetchVars, alive, left, restarts>>

\* The first get() of a load that failed leaves processOneDay; the futures'
\* destructors wait for the other loads, the day is freed, and what processOneDay
\* throws goes with its own future, which nobody keeps: the day is not posted and
\* the producer goes on to the next.
AbandonDay ==
  /\ producer = "load"
  /\ failed # {}
  /\ loaded \cup failed = Instruments
  /\ Drop(date, WorkersHold(date))
  /\ producer' = "next"
  /\ date' = date + 1
  /\ failed' = {}
  /\ UNCHANGED <<cached, loaded, postIdx, queue, workerVars, current_date, files, fetchVars,
                 rewriting, alive, left, restarts>>

ProducerThread ==
  \/ /\ \/ SkipWeekend \/ PassMemoryCheck \/ StartDay \/ JoinLoads \/ PostTask
        \/ ReturnFromProcessOneDay \/ EndOfPeriod \/ DeleteWork
     /\ UNCHANGED cacheVars
  \/ \E inst \in Instruments : \/ LoadWhole(inst) \/ LoadTorn(inst)
                               \/ RewriteOld(inst) \/ FinishRewrite(inst)
                               \/ RewriteThrows(inst)
  \/ AbandonDay

WorkerThread(w) == Work(w) /\ UNCHANGED cacheVars

-----------------------------------------------------------------------------
(* The process is killed, or has crashed, and the request is run again:    *)
(* every variable but the files starts anew.                               *)

Restart ==
  /\ restarts < MaxRestarts
  /\ restarts' = restarts + 1
  /\ left' = files
  /\ cached' = FilesByName(files)
  /\ producer' = "next" /\ date' = StartDate /\ loaded' = {} /\ postIdx' = 1
  /\ queue' = <<>>
  /\ worker' = [w \in Workers |-> "idle"]
  /\ task' = [w \in Workers |-> NoTask]
  /\ current_date' = [i \in Insts |-> StartDate - 1]
  /\ stores' = {} /\ dayInMemoryCount' = 0
  /\ fetcher' = "login" /\ fetchDate' = StartDate /\ fetchIdx' = 1 /\ connected' = FALSE
  /\ rewriting' = {} /\ failed' = {} /\ alive' = TRUE
  /\ UNCHANGED files

CacheNext == \/ alive /\ FetchThread
             \/ alive /\ ProducerThread
             \/ \E w \in Workers : alive /\ WorkerThread(w)
             \/ Restart

\* The threads of a live process keep running; nobody need start it again.
CacheSpec == /\ CacheInit
             /\ [][CacheNext]_allVars
             /\ WF_allVars(alive /\ FetchThread)
             /\ WF_allVars(alive /\ ProducerThread)
             /\ \A w \in Workers : WF_allVars(alive /\ WorkerThread(w))

-----------------------------------------------------------------------------
(* Properties.                                                             *)

\* No reader comes upon a file the fetch thread is still writing: a cached file is in
\* part on the disk only if this process found it so, or found it of the older version
\* and the load that reads it is the one that writes it again.
NoHalfWrittenFile ==
  \A p \in cached : files[p] = "torn" => left[p] \in {"torn", "old"}

\* A backtest that ends without one of its days owes that to a file of that very day
\* that cannot be read: neither the order in which files come, nor another day that is
\* abandoned, makes the workers leave early.
Unreadable(p) == p \in cached \ rewriting /\ files[p] = "torn"

UnreadableOn(d) == \E inst \in Instruments : Unreadable(<<inst, d>>)

MissingOnlyUnreadable ==
  (\E w \in Workers : worker[w] = "exited") =>
     \A i \in Insts, d \in WorkingDays : d <= current_date[i] \/ UnreadableOn(d)

\* As long as the process lives, an instance still replays its days one at a time and
\* in order, and leaves none out: it never goes on over a day that was abandoned.
DaysInOrder ==
  [][restarts' = restarts => [Schedule!Next]_(Schedule!vars)]_allVars

\* Whatever later files do, every instance gets through the days up to the last whose
\* files, and those of the days before, are there to be read; also when the period
\* starts on a Sunday.
ReadableUpTo(d) ==
  /\ alive
  /\ \A p \in Files : p[2] <= d => p \in cached /\ files[p] = "whole"

ReadableDaysReplayed ==
  \A i \in Insts, d \in WorkingDays :
    <>[]ReadableUpTo(d) => <>[](d <= current_date[i])
=============================================================================
