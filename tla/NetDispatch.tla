----------------------------- MODULE NetDispatch -----------------------------
(***************************************************************************)
(* One backtest over several servers: HandleRequestNetwrok and what it     *)
(* starts (backtestbed/run/cookdata_main.cpp).                             *)
(*                                                                         *)
(* Every server broadcasts its address and its power; the client listens   *)
(* in a thread of its own and keeps the last message of each.  It splits   *)
(* the configurations of the request into jobs, gives each to the most     *)
(* powerful server it has heard of, one thread per job, and in the end     *)
(* merges what the threads' futures return.                                *)
(***************************************************************************)
EXTENDS Integers, Sequences, SequencesExt, FiniteSets

CONSTANTS Nodes,       \* the servers' addresses
          Reports,     \* the [cores, usage] a server may broadcast
          Configs,     \* the request's configspace, a sequence
          TaskFactor,  \* task_factor in percent, 150 in the program
          MaxCrashes,  \* bounds how many servers go down
          MaxEmpty,    \* bounds how many jobs are given no configuration
          nullptr

ASSUME ReportsAssumption == \A r \in Reports : r.cores \in Nat /\ r.usage \in Nat
ASSUME NodesAssumption   == nullptr \notin Nodes
ASSUME ConfigsAssumption == Configs \in Seq(Range(Configs)) /\ TaskFactor \in Nat

VARIABLES status,      \* Nodestatus: what was last heard of a server
          configspace, \* the configurations not given away yet
          working,     \* allready_working_node
          pNextNode,   \* a server, or none
          jobs,        \* the asyncworks: their server, configurations, state and answer
          pc,          \* where HandleRequestNetwrok is
          collected,   \* how many futures have been asked
          result,      \* the merged result
          up           \* the servers that answer

vars == <<status, configspace, working, pNextNode, jobs, pc, collected, result, up>>

Job(n, configs) == [node |-> n, configs |-> configs, state |-> "connect", answer |-> <<>>]

Finished(j) == jobs[j].state \in {"done", "failed"}

TypeOK ==
  /\ DOMAIN status \subseteq Nodes /\ \A n \in DOMAIN status : status[n] \in Reports
  /\ IsPrefix(configspace, Configs)
  /\ working \subseteq Nodes
  /\ pNextNode \in DOMAIN status \cup {nullptr}
  /\ \A j \in DOMAIN jobs :
       /\ jobs[j].node \in Nodes
       /\ jobs[j].answer \in {<<>>, jobs[j].configs}
       /\ jobs[j].state \in {"connect", "running", "replied", "done", "failed"}
  /\ pc \in {"scan", "dispatch", "collect", "unwind", "returned", "thrown"}
  /\ collected \in 0 .. Len(jobs)
  /\ up \subseteq Nodes

Init ==
  /\ status = [n \in {} |-> 0]
  /\ configspace = Configs
  /\ working = {}
  /\ pNextNode = nullptr
  /\ jobs = <<>>
  /\ pc = "scan"
  /\ collected = 0
  /\ result = <<>>
  /\ up = Nodes

-----------------------------------------------------------------------------
(* The servers.                                                            *)

\* broadcastStatus and recvbroadcastStatus: a datagram, perhaps an old one, of a
\* server.  Once everything is dispatched nobody reads what the later ones change.
hearStatus(n, report) ==
  /\ n \in DOMAIN status => status[n] # report
  /\ pc \in {"scan", "dispatch"}
  /\ status' = [m \in DOMAIN status \cup {n} |-> IF m = n THEN report ELSE status[m]]
  /\ UNCHANGED <<configspace, working, pNextNode, jobs, pc, collected, result, up>>

\* A server takes its connections one after the other.
acceptSession(j) ==
  /\ jobs[j].state = "connect"
  /\ jobs[j].node \in up
  /\ \A k \in DOMAIN jobs : jobs[k].node = jobs[j].node => jobs[k].state # "running"
  /\ jobs' = [jobs EXCEPT ![j].state = "running"]
  /\ UNCHANGED <<status, configspace, working, pNextNode, pc, collected, result, up>>

\* The server replies with the result of each configuration, or of none: where it
\* cannot load the strategy Init returns early, and the rest runs on no instances.
\* The client takes a reply with nothing in it, or one it cannot parse, as it is.
endSession(j) ==
  /\ jobs[j].state = "running"
  /\ \E answer \in {jobs[j].configs, <<>>} :
       jobs' = [jobs EXCEPT ![j].state = "replied", ![j].answer = answer]
  /\ UNCHANGED <<status, configspace, working, pNextNode, pc, collected, result, up>>

crash(n) ==
  /\ n \in up
  /\ Cardinality(Nodes \ up) < MaxCrashes
  /\ up' = up \ {n}
  /\ UNCHANGED <<status, configspace, working, pNextNode, jobs, pc, collected, result>>

\* HandleRequestRemote throws when the server is, or goes, down, and when the session
\* throws: the server prints that, closes the socket and takes the next connection.
failJob(j) ==
  /\ \/ jobs[j].state = "connect" /\ jobs[j].node \notin up
     \/ jobs[j].state = "running"
  /\ jobs' = [jobs EXCEPT ![j].state = "failed"]
  /\ UNCHANGED <<status, configspace, working, pNextNode, pc, collected, result, up>>

-----------------------------------------------------------------------------
(* asyncwork, once HandleRequestRemote has returned.                       *)

\* Mutant: the server stays in the set.
WorkingStill(n) == working

WorkingWithout(n) == working \ {n}

finishWork(j) ==
  /\ jobs[j].state = "replied"
  /\ jobs' = [jobs EXCEPT ![j].state = "done"]
  /\ working' = WorkingWithout(jobs[j].node)
  /\ UNCHANGED <<status, configspace, pNextNode, pc, collected, result, up>>

-----------------------------------------------------------------------------
(* HandleRequestNetwrok.                                                   *)

power(n) == status[n].cores * status[n].usage

\* The scan goes past the servers that are working, and keeps the best of the
\* others; if there is none pNextNode stays what it was in the last round.
Idle == {n \in DOMAIN status : n \notin working /\ power(n) > 0}

Best(n) == n \in Idle /\ \A m \in Idle : power(m) <= power(n)

scan ==
  /\ pc = "scan"
  /\ configspace # <<>>
  /\ IF Idle = {} THEN UNCHANGED pNextNode ELSE \E n \in Idle : Best(n) /\ pNextNode' = n
  /\ pc' = "dispatch"
  /\ UNCHANGED <<status, configspace, working, jobs, collected, result, up>>

\* A server's share of a request; with few cores and a small task_factor it is 0.
share(n) == (status[n].cores * TaskFactor) \div 100

request_cores == share(pNextNode)

\* Mutant: the configurations given away are removed from the wrong end.
LeftConfigsBehind(space, num) == SubSeq(space, num + 1, Len(space))

\* splitRequest: what stays in the request ...
LeftConfigs(space, num) ==
  IF num >= Len(space) THEN <<>> ELSE SubSeq(space, 1, Len(space) - num)

\* Mutant: the loop over the configurations starts one too late.
SplitConfigsOffByOne(space, num) ==
  IF num >= Len(space) THEN space ELSE Reverse(SubSeq(space, Len(space) - num + 2, Len(space)))

\* ... and what the job gets: the last num configurations or, if there are not
\* more, all of them.
SplitConfigs(space, num) ==
  IF num >= Len(space) THEN space ELSE Reverse(SubSeq(space, Len(space) - num + 1, Len(space)))

EmptyJobs == {j \in DOMAIN jobs : jobs[j].configs = <<>>}

dispatch ==
  /\ pc = "dispatch"
  /\ pc' = "scan"
  /\ IF pNextNode = nullptr
       THEN UNCHANGED <<configspace, working, jobs>>
       ELSE /\ request_cores = 0 => Cardinality(EmptyJobs) < MaxEmpty
            /\ jobs' = Append(jobs, Job(pNextNode, SplitConfigs(configspace, request_cores)))
            /\ configspace' = LeftConfigs(configspace, request_cores)
            /\ working' = working \cup {pNextNode}
  /\ UNCHANGED <<status, pNextNode, collected, result, up>>

endOfRequest ==
  /\ pc = "scan"
  /\ configspace = <<>>
  /\ pc' = "collect"
  /\ UNCHANGED <<status, configspace, working, pNextNode, jobs, collected, result, up>>

\* Mutant: what a job threw is swallowed.
AnsweredOrFailed(j) == Finished(j)

Answered(j) == jobs[j].state = "done"

\* futurework.get() and mergerResult.
mergeResult ==
  /\ pc = "collect"
  /\ collected < Len(jobs)
  /\ Answered(collected + 1)
  /\ result' = result \o jobs[collected + 1].answer
  /\ collected' = collected + 1
  /\ UNCHANGED <<status, configspace, working, pNextNode, jobs, pc, up>>

\* futurework.get() throws what the job threw.
throwFailure ==
  /\ pc = "collect"
  /\ collected < Len(jobs)
  /\ Finished(collected + 1) /\ ~Answered(collected + 1)
  /\ pc' = "unwind"
  /\ UNCHANGED <<status, configspace, working, pNextNode, jobs, collected, result, up>>

\* Mutant: the futures wait for their threads' success.
FuturesAnswered == \A j \in DOMAIN jobs : Answered(j)

\* The destructor of a future that std::async returned waits for its thread.
FuturesReleased == \A j \in DOMAIN jobs : Finished(j)

\* The locals go, the futures before the set of the working servers.
leave ==
  /\ \/ pc = "collect" /\ collected = Len(jobs) /\ pc' = "returned"
     \/ pc = "unwind" /\ pc' = "thrown"
  /\ FuturesReleased
  /\ UNCHANGED <<status, configspace, working, pNextNode, jobs, collected, result, up>>

-----------------------------------------------------------------------------
Hear == \E n \in Nodes, report \in Reports : hearStatus(n, report)

Serve(j) == acceptSession(j) \/ endSession(j) \/ failJob(j) \/ finishWork(j)

Crash == \E n \in Nodes : crash(n)

Dispatcher == scan \/ dispatch \/ endOfRequest \/ mergeResult \/ throwFailure \/ leave

Next == Hear \/ Crash \/ Dispatcher \/ \E j \in DOMAIN jobs : Serve(j)

Spec == Init /\ [][Next]_vars

\* Broadcasts come every second, so some are heard; the dispatcher and the jobs'
\* threads run; the sessions of a server that stays up end, each in its turn.
FairSpec == /\ Spec
            /\ WF_vars(Hear)
            /\ WF_vars(Dispatcher)
            /\ \A j \in 1 .. Len(Configs) + MaxEmpty : WF_vars(j \in DOMAIN jobs /\ Serve(j))

-----------------------------------------------------------------------------
(* Properties.                                                             *)

\* Whatever the sizes of the jobs and the order they end in, no configuration is
\* tested twice or left out.
Given == FlattenSeq([j \in DOMAIN jobs |-> jobs[j].configs])

EachConfigOnce ==
  /\ Len(Given) + Len(configspace) = Len(Configs)
  /\ Range(Given) \cup Range(configspace) = Range(Configs)

\* A result that is returned has each configuration once, but for those of the jobs a
\* server answered with nothing, which it lacks without a word; a failed job leaves none.
Unanswered ==
  FlattenSeq([j \in DOMAIN jobs |-> IF jobs[j].answer = <<>> THEN jobs[j].configs ELSE <<>>])

ResultAccounted ==
  pc = "returned" => /\ \A j \in DOMAIN jobs : jobs[j].state = "done"
                     /\ Len(result) + Len(Unanswered) = Len(Configs)
                     /\ Range(result) \cup Range(Unanswered) = Range(Configs)

\* The scan passes over no server that is idle: one in allready_working_node has a job
\* that has not succeeded, also when it was given several and the threads that end take
\* it out of the set in any order.
SkippedHasWork ==
  \A n \in working : \E j \in DOMAIN jobs : jobs[j].node = n /\ jobs[j].state # "done"

\* The request ends, with a result or with the failure of a job, if the servers do not
\* go on reporting no load or too few cores: one with a power of 0 gets no job, and one
\* with a share of 0 nothing but empty ones.
Useful(n) == power(n) > 0 /\ share(n) > 0

RequestEnds ==
  <>[](\A n \in DOMAIN status : Useful(n)) => <>(pc \in {"returned", "thrown"})

\* What a comment says and the code does not do.

\* "This Node Already get work form me": no server is given a job while it has one.
OneJobPerNode ==
  \A j, k \in DOMAIN jobs :
    j # k /\ jobs[j].node = jobs[k].node => Finished(j) \/ Finished(k)
=============================================================================
