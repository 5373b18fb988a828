-------------------------- MODULE NetDispatch_proofs --------------------------
(***************************************************************************)
(* Proofs about NetDispatch, for any number of servers and configurations, *)
(* any reports and any number of crashes.                                  *)
(***************************************************************************)
EXTENDS NetDispatch, Folding

Config == Range(Configs)

\* What is in a sequence is at one of its places.
\* x is among the first n of s.
Has(s, n, x) == \E k \in 1 .. n : s[k] = x

LEMMA InRange ==
  ASSUME NEW S, NEW s \in Seq(S), NEW x
  PROVE  x \in Range(s) <=> Has(s, Len(s), x)
  BY DEF Range, Has

LEMMA EndToEnd ==
  ASSUME NEW S, NEW a \in Seq(S), NEW b \in Seq(S)
  PROVE  /\ a \o b \in Seq(S) /\ Len(a \o b) = Len(a) + Len(b)
         /\ Range(a \o b) = Range(a) \cup Range(b)
<1>1. a \o b \in Seq(S) /\ Len(a \o b) = Len(a) + Len(b)
  OBVIOUS
<1>2. Range(a \o b) = Range(a) \cup Range(b)
  BY RangeConcatenation
<1> QED
  BY <1>1, <1>2

-----------------------------------------------------------------------------
(* splitRequest.                                                           *)

\* A share is a number of configurations, or none.
LEMMA ShareType ==
  ASSUME NEW r \in Reports
  PROVE  (r.cores * TaskFactor) \div 100 \in Nat
<1> PICK x : x = r.cores * TaskFactor
  OBVIOUS
<1>1. x \in Nat
  BY ReportsAssumption, ConfigsAssumption
<1>2. x \div 100 \in Nat
  BY <1>1
<1> QED
  BY <1>2

\* Of a request that is split, each configuration stays or goes to the job.
LEMMA SplitKeepsAll ==
  ASSUME NEW space \in Seq(Config), NEW num \in Nat, space # <<>>
  PROVE  /\ LeftConfigs(space, num) \in Seq(Config)
         /\ SplitConfigs(space, num) \in Seq(Config)
         /\ Range(LeftConfigs(space, num)) \cup Range(SplitConfigs(space, num)) = Range(space)
         /\ Len(LeftConfigs(space, num)) + Len(SplitConfigs(space, num)) = Len(space)
         /\ IsPrefix(LeftConfigs(space, num), space)
<1> PICK n : n = Len(space)
  OBVIOUS
<1>1. n \in Nat \ {0} /\ \A k \in 1 .. n : space[k] \in Config
  BY DEF Config
<1>2. CASE num >= n
  <2>1. LeftConfigs(space, num) = <<>> /\ SplitConfigs(space, num) = space
    BY <1>2 DEF LeftConfigs, SplitConfigs
  <2>2. Range(<<>>) = {} /\ Len(<<>>) = 0
    BY DEF Range
  <2>3. IsPrefix(<<>>, space)
    BY DEF IsPrefix
  <2> QED
    BY <1>1, <2>1, <2>2, <2>3
<1>3. CASE num < n
  <2> PICK m : m = n - num
    OBVIOUS
  <2> PICK left, right : left = SubSeq(space, 1, m) /\ right = SubSeq(space, m + 1, n)
    OBVIOUS
  <2>1. m \in 1 .. n /\ n - num + 1 = m + 1
    BY <1>1, <1>3
  <2>2. /\ left \in Seq(Config) /\ Len(left) = m /\ \A k \in 1 .. m : left[k] = space[k]
        /\ right \in Seq(Config) /\ Len(right) = num /\ \A k \in 1 .. num : right[k] = space[m + k]
    <3>1. left \in Seq(Config) /\ Len(left) = m /\ \A k \in 1 .. m : left[k] = space[k]
      BY <1>1, <2>1
    <3>2. n - m = num
      BY <1>1, <1>3, <2>1
    <3>3. right \in Seq(Config) /\ Len(right) = num /\ \A k \in 1 .. num : right[k] = space[m + k]
      BY <1>1, <2>1, <3>2
    <3> QED
      BY <3>1, <3>3
  <2>3. /\ Reverse(right) \in Seq(Config) /\ Len(Reverse(right)) = num
        /\ \A k \in 1 .. num : Reverse(right)[k] = space[n - k + 1]
    <3>1. Reverse(right) = [k \in 1 .. num |-> right[num - k + 1]]
      BY <2>2 DEF Reverse
    <3>2. \A k \in 1 .. num : num - k + 1 \in 1 .. num /\ right[num - k + 1] = space[n - k + 1]
      BY <1>1, <1>3, <2>1, <2>2
    <3>3. \A k \in 1 .. num : space[n - k + 1] \in Config
      BY <1>1, <1>3
    <3>4. Reverse(right) = [k \in 1 .. num |-> space[n - k + 1]]
      BY <3>1, <3>2
    <3>5. \A k \in 1 .. num : Reverse(right)[k] = space[n - k + 1]
      BY <3>4
    <3>6. Reverse(right) \in Seq(Config) /\ Len(Reverse(right)) = num
      BY <3>3, <3>4, IsASeq
    <3> QED
      BY <3>5, <3>6
  <2>4. LeftConfigs(space, num) = left /\ SplitConfigs(space, num) = Reverse(right)
    BY <1>3, <2>1 DEF LeftConfigs, SplitConfigs
  <2>5. Range(left) \cup Range(Reverse(right)) = Range(space)
    <3> SUFFICES ASSUME NEW x
                 PROVE  x \in Range(left) \/ x \in Range(Reverse(right)) <=> x \in Range(space)
      OBVIOUS
    <3>1. x \in Range(left) <=> \E k \in 1 .. m : space[k] = x
      <4>1. left \in Seq(Config)
        BY <2>2
      <4>2. x \in Range(left) <=> Has(left, Len(left), x)
        BY <4>1, InRange
      <4>3. Has(left, m, x) <=> \E k \in 1 .. m : space[k] = x
        BY <2>2 DEF Has
      <4> QED
        BY <2>2, <4>2, <4>3
    <3>2. x \in Range(Reverse(right)) <=> \E k \in 1 .. num : space[n - k + 1] = x
      <4> PICK given : given = Reverse(right)
        OBVIOUS
      <4>1. given \in Seq(Config)
        BY <2>3
      <4>2. x \in Range(given) <=> Has(given, Len(given), x)
        BY <4>1, InRange
      <4>3. Len(given) = num /\ \A k \in 1 .. num : given[k] = space[n - k + 1]
        BY <2>3
      <4>4. Has(given, num, x) <=> \E k \in 1 .. num : space[n - k + 1] = x
        BY <4>3 DEF Has
      <4> QED
        BY <4>2, <4>3, <4>4
    <3>3. x \in Range(space) <=> \E k \in 1 .. n : space[k] = x
      <4>1. x \in Range(space) <=> Has(space, Len(space), x)
        BY InRange
      <4> QED
        BY <1>1, <4>1 DEF Has
    <3>4. \A k \in 1 .. n : k \in 1 .. m \/ (n - k + 1 \in 1 .. num /\ n - (n - k + 1) + 1 = k)
      BY <1>1, <1>3, <2>1
    <3>5. /\ \A k \in 1 .. num : n - k + 1 \in 1 .. n
          /\ \A k \in 1 .. m : k \in 1 .. n
      BY <1>1, <1>3, <2>1
    <3> QED
      BY <3>1, <3>2, <3>3, <3>4, <3>5
  <2>6. IsPrefix(left, space)
    BY <1>1, <2>1, <2>2 DEF IsPrefix
  <2>7. Len(left) + Len(Reverse(right)) = n
    <3>1. m + num = n
      BY <1>1, <1>3
    <3> QED
      BY <2>2, <2>3, <3>1
  <2>8. Len(LeftConfigs(space, num)) + Len(SplitConfigs(space, num)) = Len(space)
    BY <2>4, <2>7
  <2> QED
    BY <2>2, <2>3, <2>4, <2>5, <2>6, <2>8
<1> QED
  BY <1>1, <1>2, <1>3

-----------------------------------------------------------------------------
(* The inductive invariant.                                                *)

JobState == {"connect", "running", "replied", "done", "failed"}
JobType  == [node : Nodes, configs : Seq(Config), state : JobState, answer : Seq(Config)]

\* A job is answered in full or not at all.
AllOrNothing(job) == job.answer \in {<<>>, job.configs}

\* The types, as a prover needs them, and that the dispatcher has a configuration
\* to give whenever it goes to give one.
DispatchTypeInv ==
  /\ DOMAIN status \subseteq Nodes
  /\ \A n \in DOMAIN status : status[n] \in Reports
  /\ configspace \in Seq(Config) /\ IsPrefix(configspace, Configs)
  /\ working \subseteq Nodes
  /\ pNextNode \in DOMAIN status \cup {nullptr}
  /\ jobs \in Seq(JobType) /\ \A j \in DOMAIN jobs : AllOrNothing(jobs[j])
  /\ pc \in {"scan", "dispatch", "collect", "unwind", "returned", "thrown"}
  /\ pc = "dispatch" => configspace # <<>>
  /\ collected \in 0 .. Len(jobs)
  /\ up \subseteq Nodes

\* The first n of a function's sequences, one after the other.
First(f, n) == [j \in 1 .. n |-> f[j]]
Flat(f, n)  == FlattenSeq(First(f, n))

\* What the jobs were given, and what those without an answer were.
ConfigsOf(js) == [j \in DOMAIN js |-> js[j].configs]
RestOf(js)    == [j \in DOMAIN js |-> IF js[j].answer = <<>> THEN js[j].configs ELSE <<>>]

\* What is given away and what is not are the request, and nothing is in both.
Divided(given, rest) ==
  /\ given \in Seq(Config)
  /\ Len(given) + Len(rest) = Len(Configs)
  /\ Range(given) \cup Range(rest) = Config

\* Of what some jobs were given, each configuration is in the result or in a job that
\* was answered with nothing.
Accounted(given, answers, rest) ==
  /\ answers \in Seq(Config) /\ rest \in Seq(Config)
  /\ Len(given) = Len(answers) + Len(rest)
  /\ Range(given) = Range(answers) \cup Range(rest)

\* A configuration is still to be given away or in one job; the jobs collected so far
\* all succeeded, and the result is what they were given but for the empty answers.
AnswerInv ==
  /\ Divided(Flat(ConfigsOf(jobs), Len(jobs)), configspace)
  /\ Accounted(Flat(ConfigsOf(jobs), collected), result, Flat(RestOf(jobs), collected))
  /\ \A j \in 1 .. collected : jobs[j].state = "done"
  /\ pc \notin {"scan", "dispatch"} => configspace = <<>>
  /\ pc = "returned" => collected = Len(jobs)

DispatchInv == DispatchTypeInv /\ AnswerInv /\ SkippedHasWork

LEMMA FlatNone ==
  ASSUME NEW f
  PROVE  Flat(f, 0) = <<>>
<1>1. First(f, 0) = <<>>
  BY DEF First
<1> QED
  BY <1>1, FlattenNone DEF Flat

LEMMA FlatMore ==
  ASSUME NEW f, NEW n \in Nat, \A k \in 1 .. n + 1 : f[k] \in Seq(Config)
  PROVE  /\ Flat(f, n) \in Seq(Config)
         /\ Flat(f, n + 1) = Flat(f, n) \o f[n + 1]
<1>1. PICK some, more, last : some = First(f, n) /\ more = First(f, n + 1) /\ last = f[n + 1]
  OBVIOUS
<1>2. some = [k \in 1 .. n |-> f[k]] /\ more = [k \in 1 .. n + 1 |-> f[k]]
  BY <1>1 DEF First
<1>3. PICK V : V = Seq(Config)
  OBVIOUS
<1>4. some \in Seq(V) /\ Len(some) = n /\ more \in Seq(V) /\ Len(more) = n + 1 /\ last \in V
  <2>1. \A k \in 1 .. n : f[k] \in V
    BY <1>3
  <2>2. some \in Seq(V) /\ Len(some) = n
    BY <1>2, <2>1, IsASeq
  <2>3. PICK m : m = n + 1
    OBVIOUS
  <2>4. m \in Nat /\ more = [k \in 1 .. m |-> f[k]] /\ \A k \in 1 .. m : f[k] \in V
    BY <1>2, <1>3, <2>3
  <2>5. more \in Seq(V) /\ Len(more) = m
    BY <2>4, IsASeq
  <2>6. n + 1 \in 1 .. n + 1
    OBVIOUS
  <2> QED
    BY <1>1, <1>3, <2>2, <2>3, <2>5, <2>6
<1>5. more = Append(some, last)
  <2>1. PICK other : other = Append(some, last)
    OBVIOUS
  <2>2. other \in Seq(V) /\ Len(other) = Len(more)
    BY <1>4, <2>1
  <2>3. ASSUME NEW k \in 1 .. Len(more) PROVE more[k] = other[k]
    <3>1. k \in 1 .. n + 1
      BY <1>4
    <3>2. CASE k = n + 1
      BY <1>1, <1>2, <1>4, <2>1, <3>1, <3>2
    <3>3. CASE k # n + 1
      <4>1. k \in 1 .. n
        BY <3>1, <3>3
      <4>2. other[k] = some[k]
        BY <1>4, <2>1, <4>1
      <4> QED
        BY <1>2, <3>1, <4>1, <4>2
    <3> QED
      BY <3>2, <3>3
  <2> QED
    BY <1>4, <2>1, <2>2, <2>3, SeqEqual
<1>6. FlattenSeq(some) \in Seq(Config) /\ FlattenSeq(more) = FlattenSeq(some) \o last
  BY <1>3, <1>4, <1>5, FlattenAppend
<1> QED
  BY <1>1, <1>6 DEF Flat

\* It depends on the first n alone.
LEMMA FlatSame ==
  ASSUME NEW f, NEW g, NEW n \in Nat, \A k \in 1 .. n : f[k] = g[k]
  PROVE  Flat(f, n) = Flat(g, n)
<1>1. First(f, n) = First(g, n)
  BY DEF First
<1> QED
  BY <1>1 DEF Flat

\* The jobs' parts are sequences of configurations.
LEMMA PartTypes ==
  ASSUME NEW js \in Seq(JobType), NEW k \in 1 .. Len(js)
  PROVE  /\ ConfigsOf(js)[k] = js[k].configs /\ js[k].configs \in Seq(Config)
         /\ RestOf(js)[k] = IF js[k].answer = <<>> THEN js[k].configs ELSE <<>>
         /\ RestOf(js)[k] \in Seq(Config)
<1>1. k \in DOMAIN js /\ js[k] \in JobType
  OBVIOUS
<1>2. js[k].configs \in Seq(Config) /\ <<>> \in Seq(Config)
  BY <1>1 DEF JobType
<1>3. RestOf(js)[k] = IF js[k].answer = <<>> THEN js[k].configs ELSE <<>>
  BY <1>1 DEF RestOf
<1> QED
  BY <1>1, <1>2, <1>3 DEF ConfigsOf

\* Merging the answer of a further job, full or empty.
LEMMA AccountedMore ==
  ASSUME NEW given \in Seq(Config), NEW answers, NEW rest, Accounted(given, answers, rest),
         NEW more \in Seq(Config), NEW answer \in {<<>>, more}
  PROVE  Accounted(given \o more, answers \o answer,
                   rest \o (IF answer = <<>> THEN more ELSE <<>>))
<1>1. PICK none : none = <<>>
  OBVIOUS
<1>2. PICK left : left = IF answer = none THEN more ELSE none
  OBVIOUS
<1>3. none \in Seq(Config) /\ Len(none) = 0 /\ Range(none) = {}
  BY <1>1 DEF Range
<1>4. /\ answer \in Seq(Config) /\ left \in Seq(Config)
      /\ Len(more) = Len(answer) + Len(left) /\ Range(more) = Range(answer) \cup Range(left)
  <2>1. CASE answer = none
    BY <1>2, <1>3, <2>1
  <2>2. CASE answer # none
    <3>1. answer = more /\ left = none
      BY <1>1, <1>2, <2>2
    <3> QED
      BY <1>3, <3>1
  <2> QED
    BY <2>1, <2>2
<1>5. /\ answers \in Seq(Config) /\ rest \in Seq(Config)
      /\ Len(given) = Len(answers) + Len(rest) /\ Range(given) = Range(answers) \cup Range(rest)
  BY DEF Accounted
<1>6. PICK g, a, r : g = given \o more /\ a = answers \o answer /\ r = rest \o left
  OBVIOUS
<1>7. Len(g) = Len(given) + Len(more) /\ Range(g) = Range(given) \cup Range(more)
  BY <1>6, EndToEnd
<1>8. a \in Seq(Config) /\ Len(a) = Len(answers) + Len(answer) /\ Range(a) = Range(answers) \cup Range(answer)
  BY <1>4, <1>5, <1>6, EndToEnd
<1>9. r \in Seq(Config) /\ Len(r) = Len(rest) + Len(left) /\ Range(r) = Range(rest) \cup Range(left)
  BY <1>4, <1>5, <1>6, EndToEnd
<1>10. Len(g) = Len(a) + Len(r)
  <2>1. /\ Len(answers) \in Nat /\ Len(rest) \in Nat /\ Len(answer) \in Nat /\ Len(left) \in Nat
    BY <1>4, <1>5
  <2> PICK x, y, z, w : x = Len(answers) /\ y = Len(rest) /\ z = Len(answer) /\ w = Len(left)
    OBVIOUS
  <2>2. (x + y) + (z + w) = (x + z) + (y + w)
    BY <2>1
  <2> QED
    BY <1>4, <1>5, <1>7, <1>8, <1>9, <2>2
<1>11. Range(g) = Range(a) \cup Range(r)
  BY <1>4, <1>5, <1>7, <1>8, <1>9
<1>12. Accounted(g, a, r)
  BY <1>8, <1>9, <1>10, <1>11 DEF Accounted
<1> QED
  BY <1>1, <1>2, <1>6, <1>12

\* Giving a part of the rest to a further job.
LEMMA DividedAgain ==
  ASSUME NEW before, NEW rest \in Seq(Config), Divided(before, rest),
         NEW given \in Seq(Config), NEW left \in Seq(Config),
         Len(left) + Len(given) = Len(rest), Range(left) \cup Range(given) = Range(rest)
  PROVE  Divided(before \o given, left)
<1>1. PICK after : after = before \o given
  OBVIOUS
<1>2. before \in Seq(Config) /\ Len(before) + Len(rest) = Len(Configs)
      /\ Range(before) \cup Range(rest) = Config
  BY DEF Divided
<1>3. after \in Seq(Config) /\ Len(after) = Len(before) + Len(given)
      /\ Range(after) = Range(before) \cup Range(given)
  <2>1. before \in Seq(Config) /\ given \in Seq(Config)
    BY <1>2
  <2> QED
    BY <1>1, <2>1, EndToEnd
<1>4. Len(after) + Len(left) = Len(Configs)
  <2> PICK x, y, z, w : x = Len(before) /\ y = Len(given) /\ z = Len(left) /\ w = Len(rest)
    OBVIOUS
  <2>1. x \in Nat /\ y \in Nat /\ z \in Nat /\ w \in Nat
    BY <1>2
  <2>2. z + y = w
    BY <1>2
  <2>3. x + w = Len(Configs) /\ Len(after) = x + y
    BY <1>2, <1>3
  <2>4. (x + y) + z = x + w
    BY <2>1, <2>2
  <2> QED
    BY <2>3, <2>4
<1>5. Range(after) \cup Range(left) = Config
  BY <1>2, <1>3
<1> QED
  BY <1>1, <1>3, <1>4, <1>5 DEF Divided

\* A step of a job's thread changes its state and its answer, and nothing else.
Moved(js, j, s, a) ==
  [js EXCEPT ![j] = [node |-> js[j].node, configs |-> js[j].configs, state |-> s, answer |-> a]]

LEMMA JobMoves ==
  ASSUME NEW old \in Seq(JobType), NEW j \in DOMAIN old, NEW s \in JobState, NEW a \in Seq(Config),
         NEW new, new = Moved(old, j, s, a)
  PROVE  /\ new \in Seq(JobType) /\ Len(new) = Len(old) /\ DOMAIN new = DOMAIN old
         /\ new[j] = [node |-> old[j].node, configs |-> old[j].configs, state |-> s, answer |-> a]
         /\ \A k \in DOMAIN old : k # j => new[k] = old[k]
<1> PICK n : n = Len(old)
  OBVIOUS
<1> PICK job : job = [node |-> old[j].node, configs |-> old[j].configs, state |-> s, answer |-> a]
  OBVIOUS
<1>1. n \in Nat /\ DOMAIN old = 1 .. n /\ \A k \in 1 .. n : old[k] \in JobType
  OBVIOUS
<1>2. job \in JobType
  BY <1>1 DEF JobType
<1>3. new = [k \in 1 .. n |-> IF k = j THEN job ELSE old[k]]
  BY <1>1 DEF Moved
<1>4. \A k \in 1 .. n : new[k] \in JobType
  BY <1>1, <1>2, <1>3
<1>5. new \in Seq(JobType) /\ Len(new) = n
  BY <1>1, <1>3, <1>4, IsASeq
<1> QED
  BY <1>1, <1>3, <1>5

\* Each step of a job's thread is of that form; the job had not ended, and one that
\* succeeds takes its server out of the set.
LEMMA ServeMoves ==
  ASSUME jobs \in Seq(JobType), NEW j \in DOMAIN jobs, Serve(j)
  PROVE  /\ jobs[j].state \notin {"done", "failed"}
         /\ \E s \in JobState, a \in {jobs[j].answer, <<>>, jobs[j].configs} :
              /\ jobs' = Moved(jobs, j, s, a)
              /\ s = "done" => working' = working \ {jobs[j].node}
         /\ working' \subseteq working
         /\ UNCHANGED <<status, configspace, pNextNode, pc, collected, result, up>>
<1> PICK job : job = jobs[j]
  OBVIOUS
<1>1. job \in JobType
  OBVIOUS
<1> PICK node, configs, state, answer :
      /\ node = job.node /\ configs = job.configs /\ state = job.state /\ answer = job.answer
      /\ job = [node |-> node, configs |-> configs, state |-> state, answer |-> answer]
  BY <1>1 DEF JobType
<1>2. ASSUME NEW s
      PROVE  [jobs EXCEPT ![j].state = s] = Moved(jobs, j, s, answer)
  <2>1. [job EXCEPT !.state = s] = [node |-> node, configs |-> configs, state |-> s, answer |-> answer]
    OBVIOUS
  <2>2. [jobs EXCEPT ![j].state = s] = [jobs EXCEPT ![j] = [job EXCEPT !.state = s]]
    OBVIOUS
  <2> QED
    BY <2>1, <2>2 DEF Moved
<1>3. ASSUME NEW s \in JobState, NEW a \in Seq(Config)
      PROVE  [jobs EXCEPT ![j].state = s, ![j].answer = a] = Moved(jobs, j, s, a)
  <2>1. [job EXCEPT !.state = s, !.answer = a] =
          [node |-> node, configs |-> configs, state |-> s, answer |-> a]
    <3> PICK new : new = [job EXCEPT !.state = s, !.answer = a]
      OBVIOUS
    <3>1. new \in JobType
      BY <1>1 DEF JobType
    <3>2. new.node = node /\ new.configs = configs /\ new.state = s /\ new.answer = a
      BY <1>1 DEF JobType
    <3> QED
      BY <3>1, <3>2 DEF JobType
  <2>2. [jobs EXCEPT ![j].state = s, ![j].answer = a] =
          [jobs EXCEPT ![j] = [job EXCEPT !.state = s, !.answer = a]]
    OBVIOUS
  <2> QED
    BY <2>1, <2>2 DEF Moved
<1>4. CASE acceptSession(j)
  <2>1. jobs' = Moved(jobs, j, "running", answer)
    BY <1>2, <1>4 DEF acceptSession
  <2> QED
    BY <1>4, <2>1 DEF acceptSession, JobState
<1>5. CASE endSession(j)
  <2>1. PICK a \in {<<>>, jobs[j].configs} :
          jobs' = [jobs EXCEPT ![j].state = "replied", ![j].answer = a]
    BY <1>5 DEF endSession
  <2>2. jobs' = Moved(jobs, j, "replied", a)
    <3>1. job.configs \in Seq(Config) /\ <<>> \in Seq(Config)
      BY <1>1 DEF JobType
    <3>2. a \in Seq(Config)
      BY <3>1
    <3>3. "replied" \in JobState
      BY DEF JobState
    <3> QED
      BY <1>3, <2>1, <3>2, <3>3
  <2> QED
    BY <1>5, <2>2 DEF endSession, JobState
<1>6. CASE failJob(j)
  <2>1. jobs' = Moved(jobs, j, "failed", answer)
    BY <1>2, <1>6 DEF failJob
  <2> QED
    BY <1>6, <2>1 DEF failJob, JobState
<1>7. CASE finishWork(j)
  <2>1. jobs' = Moved(jobs, j, "done", answer)
    BY <1>2, <1>7 DEF finishWork
  <2> QED
    BY <1>7, <2>1 DEF finishWork, WorkingWithout, JobState
<1> QED
  BY <1>4, <1>5, <1>6, <1>7 DEF Serve

LEMMA InitInv == Init => DispatchInv
<1> SUFFICES ASSUME Init PROVE DispatchInv
  OBVIOUS
<1>1. Configs \in Seq(Config) /\ IsPrefix(Configs, Configs)
  BY ConfigsAssumption DEF Config, IsPrefix
<1> PICK none : none = <<>>
  OBVIOUS
<1>2. /\ none \in Seq(JobType) /\ DOMAIN none = {} /\ Len(none) = 0
      /\ none \in Seq(Config) /\ Range(none) = {}
  BY DEF Range
<1>3. jobs = none /\ result = none /\ collected = 0 /\ configspace = Configs /\ Len(jobs) = 0
  BY <1>2 DEF Init
<1>4. DispatchTypeInv
  BY <1>1, <1>2, <1>3 DEF Init, DispatchTypeInv
<1>5. AnswerInv
  <2>1. 1 .. collected = {}
    BY <1>3
  <2>2. Len(Configs) \in Nat
    BY <1>1
  <2>3. Divided(none, Configs) /\ Accounted(none, none, none)
    BY <1>2, <2>2 DEF Divided, Accounted, Config
  <2>4. Flat(ConfigsOf(jobs), 0) = none /\ Flat(RestOf(jobs), 0) = none
    BY FlatNone
  <2> QED
    BY <1>3, <2>1, <2>3, <2>4 DEF Init, AnswerInv
<1>6. SkippedHasWork
  BY DEF Init, SkippedHasWork
<1> QED
  BY <1>4, <1>5, <1>6 DEF DispatchInv

\* Steps that leave the jobs and the answer alone.
LEMMA HearKeepsInv ==
  ASSUME DispatchInv, NEW n \in Nodes, NEW r \in Reports, hearStatus(n, r)
  PROVE  DispatchInv'
<1>1. /\ status' = [m \in DOMAIN status \cup {n} |-> IF m = n THEN r ELSE status[m]]
      /\ UNCHANGED <<configspace, working, pNextNode, jobs, pc, collected, result, up>>
  BY DEF hearStatus
<1>2. DOMAIN status' = DOMAIN status \cup {n} /\ \A m \in DOMAIN status' : status'[m] \in Reports
  BY <1>1 DEF DispatchInv, DispatchTypeInv
<1>3. DispatchTypeInv'
  BY <1>1, <1>2 DEF DispatchInv, DispatchTypeInv
<1> QED
  BY <1>1, <1>3 DEF DispatchInv, AnswerInv, SkippedHasWork

LEMMA CrashKeepsInv ==
  ASSUME DispatchInv, NEW n \in Nodes, crash(n)
  PROVE  DispatchInv'
  BY DEF DispatchInv, DispatchTypeInv, AnswerInv, SkippedHasWork, crash

\* A job that has ended takes no step, so what was collected stays as it is.
LEMMA ServeKeepsInv ==
  ASSUME DispatchInv, NEW j \in DOMAIN jobs, Serve(j)
  PROVE  DispatchInv'
<1>1. /\ jobs \in Seq(JobType) /\ DOMAIN jobs = 1 .. Len(jobs) /\ Len(jobs) \in Nat
      /\ \A k \in DOMAIN jobs : AllOrNothing(jobs[k])
      /\ collected \in 0 .. Len(jobs)
  BY DEF DispatchInv, DispatchTypeInv
<1>2. /\ jobs[j].state \notin {"done", "failed"} /\ working' \subseteq working
      /\ UNCHANGED <<status, configspace, pNextNode, pc, collected, result, up>>
  BY <1>1, ServeMoves
<1>3. PICK s \in JobState, a \in {jobs[j].answer, <<>>, jobs[j].configs} :
        /\ jobs' = Moved(jobs, j, s, a)
        /\ s = "done" => working' = working \ {jobs[j].node}
  BY <1>1, ServeMoves
<1>4. a \in Seq(Config) /\ a \in {<<>>, jobs[j].configs}
  <2>1. jobs[j] \in JobType
    BY <1>1
  <2>2. jobs[j].answer \in Seq(Config) /\ jobs[j].configs \in Seq(Config) /\ <<>> \in Seq(Config)
    BY <2>1 DEF JobType
  <2> QED
    BY <1>1, <2>2 DEF AllOrNothing
<1>5. /\ jobs' \in Seq(JobType) /\ Len(jobs') = Len(jobs) /\ DOMAIN jobs' = DOMAIN jobs
      /\ jobs'[j] = [node |-> jobs[j].node, configs |-> jobs[j].configs, state |-> s, answer |-> a]
      /\ \A k \in DOMAIN jobs : k # j => jobs'[k] = jobs[k]
  <2> PICK old, new : old = jobs /\ new = jobs'
    OBVIOUS
  <2>1. old \in Seq(JobType) /\ j \in DOMAIN old /\ new = Moved(old, j, s, a)
    BY <1>1, <1>3
  <2> QED
    BY <1>4, <2>1, JobMoves
<1>6. DispatchTypeInv'
  <2>1. \A k \in DOMAIN jobs : jobs'[k].answer \in {<<>>, jobs'[k].configs}
    BY <1>1, <1>4, <1>5 DEF AllOrNothing
  <2> QED
    BY <1>2, <1>5, <2>1 DEF DispatchInv, DispatchTypeInv, AllOrNothing
<1>7. AnswerInv'
  <2> PICK new, n : new = jobs' /\ n = Len(jobs)
    OBVIOUS
  <2>1. /\ new \in Seq(JobType) /\ Len(new) = n /\ DOMAIN new = 1 .. n
        /\ \A k \in 1 .. n : new[k].configs = jobs[k].configs
        /\ \A k \in 1 .. n : k # j => new[k] = jobs[k]
    BY <1>1, <1>5
  <2>2. \A k \in 1 .. collected : k \in 1 .. n /\ k # j /\ new[k] = jobs[k] /\ new[k].state = "done"
    <3>1. \A k \in 1 .. collected : k \in 1 .. n
      BY <1>1
    <3>2. \A k \in 1 .. collected : jobs[k].state = "done"
      BY DEF DispatchInv, AnswerInv
    <3> QED
      BY <1>2, <2>1, <3>1, <3>2
  <2>3. Flat(ConfigsOf(new), n) = Flat(ConfigsOf(jobs), n)
    <3>1. \A k \in 1 .. n : ConfigsOf(new)[k] = ConfigsOf(jobs)[k]
      BY <1>1, <2>1 DEF ConfigsOf
    <3> QED
      BY <1>1, <3>1, FlatSame
  <2>4. /\ Flat(ConfigsOf(new), collected) = Flat(ConfigsOf(jobs), collected)
        /\ Flat(RestOf(new), collected) = Flat(RestOf(jobs), collected)
    <3>1. collected \in Nat
      BY <1>1
    <3>2. \A k \in 1 .. collected : ConfigsOf(new)[k] = ConfigsOf(jobs)[k]
      BY <1>1, <2>1, <2>2 DEF ConfigsOf
    <3>3. \A k \in 1 .. collected : RestOf(new)[k] = RestOf(jobs)[k]
      BY <1>1, <2>1, <2>2 DEF RestOf
    <3> QED
      BY <3>1, <3>2, <3>3, FlatSame
  <2> QED
    BY <1>2, <2>1, <2>2, <2>3, <2>4 DEF DispatchInv, AnswerInv
<1>8. SkippedHasWork'
  <2> SUFFICES ASSUME NEW n \in working'
               PROVE  \E k \in DOMAIN jobs' : jobs'[k].node = n /\ jobs'[k].state # "done"
    BY DEF SkippedHasWork
  <2>1. PICK k \in DOMAIN jobs : jobs[k].node = n /\ jobs[k].state # "done"
    BY <1>2 DEF DispatchInv, SkippedHasWork
  <2>2. CASE k # j
    BY <1>5, <2>1, <2>2
  <2>3. CASE k = j
    <3>1. s # "done"
      BY <1>3, <2>1, <2>3
    <3>2. jobs'[j].node = n /\ jobs'[j].state = s
      BY <1>5, <2>1, <2>3
    <3> QED
      BY <1>5, <3>1, <3>2
  <2> QED
    BY <2>2, <2>3
<1> QED
  BY <1>6, <1>7, <1>8 DEF DispatchInv

LEMMA ScanKeepsInv ==
  ASSUME DispatchInv, scan
  PROVE  DispatchInv'
<1>1. /\ pc' = "dispatch" /\ pc = "scan" /\ configspace # <<>>
      /\ pNextNode' \in DOMAIN status \cup {nullptr}
      /\ UNCHANGED <<status, configspace, working, jobs, collected, result, up>>
  BY DEF DispatchInv, DispatchTypeInv, scan, Idle
<1>2. DispatchTypeInv'
  BY <1>1 DEF DispatchInv, DispatchTypeInv
<1>3. AnswerInv'
  BY <1>1 DEF DispatchInv, AnswerInv
<1> QED
  BY <1>1, <1>2, <1>3 DEF DispatchInv, SkippedHasWork

LEMMA EndOfRequestKeepsInv ==
  ASSUME DispatchInv, endOfRequest
  PROVE  DispatchInv'
<1>1. /\ pc' = "collect" /\ configspace = <<>>
      /\ UNCHANGED <<status, configspace, working, pNextNode, jobs, collected, result, up>>
  BY DEF endOfRequest
<1>2. DispatchTypeInv'
  BY <1>1 DEF DispatchInv, DispatchTypeInv
<1>3. AnswerInv'
  BY <1>1 DEF DispatchInv, AnswerInv
<1> QED
  BY <1>1, <1>2, <1>3 DEF DispatchInv, SkippedHasWork

\* futurework.get() of a job that succeeded: its answer, full or empty, is merged.
LEMMA MergeKeepsInv ==
  ASSUME DispatchInv, mergeResult
  PROVE  DispatchInv'
<1> PICK c : c = collected
  OBVIOUS
<1> PICK job : job = jobs[c + 1]
  OBVIOUS
<1>1. /\ pc = "collect" /\ c < Len(jobs) /\ job.state = "done"
      /\ result' = result \o job.answer /\ collected' = c + 1
      /\ UNCHANGED <<status, configspace, working, pNextNode, jobs, pc, up>>
  BY DEF mergeResult, Answered
<1>2. /\ c \in Nat /\ c + 1 \in 1 .. Len(jobs) /\ jobs \in Seq(JobType) /\ Len(jobs) \in Nat
      /\ AllOrNothing(job)
  BY <1>1 DEF DispatchInv, DispatchTypeInv
<1>3. DispatchTypeInv'
  BY <1>1, <1>2 DEF DispatchInv, DispatchTypeInv
<1> PICK given, rest : given = Flat(ConfigsOf(jobs), c) /\ rest = Flat(RestOf(jobs), c)
  OBVIOUS
<1> PICK left : left = IF job.answer = <<>> THEN job.configs ELSE <<>>
  OBVIOUS
<1>4. /\ job.configs \in Seq(Config) /\ given \in Seq(Config)
      /\ Flat(ConfigsOf(jobs), c + 1) = given \o job.configs
      /\ Flat(RestOf(jobs), c + 1) = rest \o left
  <2>1. \A k \in 1 .. c + 1 : k \in 1 .. Len(jobs)
    BY <1>2
  <2>2. \A k \in 1 .. c + 1 : ConfigsOf(jobs)[k] \in Seq(Config) /\ RestOf(jobs)[k] \in Seq(Config)
    BY <1>2, <2>1, PartTypes
  <2>3. /\ ConfigsOf(jobs)[c + 1] = job.configs /\ job.configs \in Seq(Config)
        /\ RestOf(jobs)[c + 1] = left
    BY <1>2, PartTypes
  <2>4. given \in Seq(Config) /\ Flat(ConfigsOf(jobs), c + 1) = given \o ConfigsOf(jobs)[c + 1]
    BY <1>2, <2>2, FlatMore
  <2>5. Flat(RestOf(jobs), c + 1) = rest \o RestOf(jobs)[c + 1]
    BY <1>2, <2>2, FlatMore
  <2> QED
    BY <2>3, <2>4, <2>5
<1>5. AnswerInv'
  <2>1. \A k \in 1 .. c + 1 : k \in 1 .. c \/ k = c + 1
    BY <1>2
  <2>2. \A k \in 1 .. c + 1 : jobs[k].state = "done"
    BY <1>1, <2>1 DEF DispatchInv, AnswerInv
  <2>3. Accounted(given, result, rest)
    BY DEF DispatchInv, AnswerInv
  <2>4. job.answer \in {<<>>, job.configs}
    BY <1>2 DEF AllOrNothing
  <2>5. Accounted(given \o job.configs, result \o job.answer, rest \o left)
    BY <1>4, <2>3, <2>4, AccountedMore
  <2>6. Accounted(Flat(ConfigsOf(jobs), c + 1), result \o job.answer, Flat(RestOf(jobs), c + 1))
    BY <1>4, <2>5
  <2> QED
    BY <1>1, <2>2, <2>6 DEF DispatchInv, AnswerInv
<1>6. SkippedHasWork'
  BY <1>1 DEF DispatchInv, SkippedHasWork
<1> QED
  BY <1>3, <1>5, <1>6 DEF DispatchInv

LEMMA LeaveKeepsInv ==
  ASSUME DispatchInv, throwFailure \/ leave
  PROVE  DispatchInv'
<1>1. /\ pc \in {"collect", "unwind"} /\ pc' \in {"unwind", "returned", "thrown"}
      /\ UNCHANGED <<status, configspace, working, pNextNode, jobs, collected, result, up>>
  BY DEF throwFailure, leave
<1>2. pc' = "returned" => collected = Len(jobs)
  BY DEF throwFailure, leave
<1>3. DispatchTypeInv'
  BY <1>1 DEF DispatchInv, DispatchTypeInv
<1>4. AnswerInv'
  BY <1>1, <1>2 DEF DispatchInv, AnswerInv
<1> QED
  BY <1>1, <1>3, <1>4 DEF DispatchInv, SkippedHasWork

\* A server is given the last configurations of the request, or none: each is now in its
\* job or is still to be given away.
LEMMA DispatchKeepsInv ==
  ASSUME DispatchInv, dispatch
  PROVE  DispatchInv'
<1>1. /\ pc = "dispatch" /\ pc' = "scan" /\ configspace # <<>>
      /\ UNCHANGED <<status, pNextNode, collected, result, up>>
  BY DEF DispatchInv, DispatchTypeInv, dispatch
<1>2. CASE pNextNode = nullptr
  <2>1. UNCHANGED <<configspace, working, jobs>>
    BY <1>2 DEF dispatch
  <2>2. DispatchTypeInv'
    BY <1>1, <2>1 DEF DispatchInv, DispatchTypeInv
  <2>3. AnswerInv'
    BY <1>1, <2>1 DEF DispatchInv, AnswerInv
  <2> QED
    BY <1>1, <2>1, <2>2, <2>3 DEF DispatchInv, SkippedHasWork
<1>3. CASE pNextNode # nullptr
  <2> PICK num : num = request_cores
    OBVIOUS
  <2> PICK left, given : left = LeftConfigs(configspace, num) /\ given = SplitConfigs(configspace, num)
    OBVIOUS
  <2> PICK n, job : n = Len(jobs) /\ job = Job(pNextNode, given)
    OBVIOUS
  <2>1. /\ jobs' = Append(jobs, job) /\ configspace' = left
        /\ working' = working \cup {pNextNode}
    BY <1>3 DEF dispatch
  <2>2. num \in Nat /\ pNextNode \in Nodes
    BY <1>3, ShareType DEF DispatchInv, DispatchTypeInv, request_cores, share
  <2>3. configspace \in Seq(Config)
    BY DEF DispatchInv, DispatchTypeInv
  <2>4. /\ left \in Seq(Config) /\ IsPrefix(left, configspace)
        /\ given \in Seq(Config)
        /\ Range(left) \cup Range(given) = Range(configspace)
        /\ Len(left) + Len(given) = Len(configspace)
    BY <1>1, <2>2, <2>3, SplitKeepsAll
  <2>5. /\ job \in JobType /\ job.configs = given /\ job.node = pNextNode
        /\ job.state # "done" /\ AllOrNothing(job)
    BY <2>2, <2>4 DEF Job, JobType, JobState, AllOrNothing
  <2>6. /\ jobs \in Seq(JobType) /\ n \in Nat /\ DOMAIN jobs = 1 .. n
        /\ collected \in 0 .. n
    BY DEF DispatchInv, DispatchTypeInv
  <2>7. /\ jobs' \in Seq(JobType) /\ Len(jobs') = n + 1 /\ DOMAIN jobs' = 1 .. n + 1
        /\ \A k \in 1 .. n : jobs'[k] = jobs[k]
        /\ jobs'[n + 1] = job
    BY <2>1, <2>5, <2>6
  <2>8. DispatchTypeInv'
    <3>1. IsPrefix(left, Configs)
      BY <2>3, <2>4, ConfigsAssumption DEF DispatchInv, DispatchTypeInv, IsPrefix, Config
    <3>2. \A k \in 1 .. n + 1 : AllOrNothing(jobs'[k])
      <4>1. \A k \in 1 .. n + 1 : k \in 1 .. n \/ k = n + 1
        BY <2>6
      <4>2. \A k \in 1 .. n : AllOrNothing(jobs[k])
        BY <2>6 DEF DispatchInv, DispatchTypeInv
      <4> QED
        BY <2>5, <2>7, <4>1, <4>2
    <3>3. \A k \in 1 .. n + 1 : AllOrNothing(jobs[k])'
      BY <3>2 DEF AllOrNothing
    <3>4. collected' \in 0 .. Len(jobs')
      BY <1>1, <2>6, <2>7
    <3> QED
      BY <1>1, <2>1, <2>2, <2>4, <2>7, <3>1, <3>3, <3>4 DEF DispatchInv, DispatchTypeInv
  <2>9. AnswerInv'
    <3> PICK new : new = jobs'
      OBVIOUS
    <3> PICK before : before = Flat(ConfigsOf(jobs), n)
      OBVIOUS
    <3>1. /\ new \in Seq(JobType) /\ Len(new) = n + 1 /\ DOMAIN new = 1 .. n + 1
          /\ \A k \in 1 .. n : new[k] = jobs[k]
          /\ new[n + 1] = job
      BY <2>7
    <3>2. \A k \in 1 .. n : ConfigsOf(new)[k] = ConfigsOf(jobs)[k] /\ RestOf(new)[k] = RestOf(jobs)[k]
      <4>1. \A k \in 1 .. n : k \in 1 .. n + 1
        BY <2>6
      <4> QED
        BY <2>6, <3>1, <4>1 DEF ConfigsOf, RestOf
    <3>3. Flat(ConfigsOf(new), n) = before
      BY <2>6, <3>2, FlatSame
    <3>4. /\ Flat(ConfigsOf(new), collected) = Flat(ConfigsOf(jobs), collected)
          /\ Flat(RestOf(new), collected) = Flat(RestOf(jobs), collected)
      <4>1. collected \in Nat /\ \A k \in 1 .. collected : k \in 1 .. n
        BY <2>6
      <4>2. \A k \in 1 .. collected : ConfigsOf(new)[k] = ConfigsOf(jobs)[k] /\ RestOf(new)[k] = RestOf(jobs)[k]
        BY <3>2, <4>1
      <4> QED
        BY <4>1, <4>2, FlatSame
    <3>5. Flat(ConfigsOf(new), n + 1) = before \o given
      <4>1. \A k \in 1 .. n + 1 : ConfigsOf(new)[k] \in Seq(Config)
        BY <3>1, PartTypes
      <4>2. n + 1 \in 1 .. Len(new)
        BY <2>6, <3>1
      <4>3. ConfigsOf(new)[n + 1] = given
        BY <2>5, <3>1, <4>2, PartTypes
      <4>4. Flat(ConfigsOf(new), n + 1) = Flat(ConfigsOf(new), n) \o ConfigsOf(new)[n + 1]
        BY <2>6, <4>1, FlatMore
      <4> QED
        BY <3>3, <4>3, <4>4
    <3>6. Divided(before, configspace)
      BY DEF DispatchInv, AnswerInv
    <3>7. Divided(before \o given, left)
      BY <2>3, <2>4, <3>6, DividedAgain
    <3>8. Divided(Flat(ConfigsOf(new), Len(new)), left)
      BY <3>1, <3>5, <3>7
    <3>9. \A k \in 1 .. collected : new[k].state = "done"
      <4>1. \A k \in 1 .. collected : k \in 1 .. n
        BY <2>6
      <4> QED
        BY <3>1, <4>1 DEF DispatchInv, AnswerInv
    <3>10. /\ Divided(Flat(ConfigsOf(jobs), Len(jobs)), configspace)'
           /\ Accounted(Flat(ConfigsOf(jobs), collected), result, Flat(RestOf(jobs), collected))'
      BY <1>1, <2>1, <3>4, <3>8 DEF DispatchInv, AnswerInv
    <3> QED
      BY <1>1, <2>1, <3>9, <3>10 DEF AnswerInv
  <2>10. SkippedHasWork'
    <3> SUFFICES ASSUME NEW m \in working'
                 PROVE  \E k \in DOMAIN jobs' : jobs'[k].node = m /\ jobs'[k].state # "done"
      BY DEF SkippedHasWork
    <3>1. CASE m = pNextNode
      <4>1. n + 1 \in DOMAIN jobs' /\ jobs'[n + 1] = job
        BY <2>6, <2>7
      <4> QED
        BY <2>5, <3>1, <4>1
    <3>2. CASE m \in working
      <4>1. PICK k \in DOMAIN jobs : jobs[k].node = m /\ jobs[k].state # "done"
        BY <3>2 DEF DispatchInv, SkippedHasWork
      <4>2. k \in 1 .. n /\ k \in 1 .. n + 1
        BY <2>6
      <4>3. k \in DOMAIN jobs' /\ jobs'[k] = jobs[k]
        BY <2>7, <4>2
      <4> QED
        BY <4>1, <4>3
    <3> QED
      BY <2>1, <3>1, <3>2
  <2> QED
    BY <2>8, <2>9, <2>10 DEF DispatchInv
<1> QED
  BY <1>2, <1>3

LEMMA NextKeepsInv == DispatchInv /\ [Next]_vars => DispatchInv'
<1> SUFFICES ASSUME DispatchInv, [Next]_vars
             PROVE  DispatchInv'
  OBVIOUS
<1>1. CASE Hear
  BY <1>1, HearKeepsInv DEF Hear
<1>2. CASE Crash
  BY <1>2, CrashKeepsInv DEF Crash
<1>3. CASE \E j \in DOMAIN jobs : Serve(j)
  BY <1>3, ServeKeepsInv
<1>4. CASE Dispatcher
  BY <1>4, ScanKeepsInv, DispatchKeepsInv, EndOfRequestKeepsInv, MergeKeepsInv, LeaveKeepsInv
     DEF Dispatcher
<1>5. CASE UNCHANGED vars
  BY <1>5 DEF vars, DispatchInv, DispatchTypeInv, AnswerInv, SkippedHasWork
<1> QED
  BY <1>1, <1>2, <1>3, <1>4, <1>5 DEF Next

-----------------------------------------------------------------------------
(* Theorems.                                                               *)

\* The inductive invariant of HandleRequestNetwrok and the threads it starts.
THEOREM DispatchInvariant == Spec => []DispatchInv
  BY InitInv, NextKeepsInv, PTL DEF Spec

\* HandleRequestNetwrok's state stays within its types, with no more assumed of cores,
\* usage and task_factor than that they are numbers: what is left of the request is its
\* beginning, and a job is answered in full or not at all.
THEOREM DispatchTypes == Spec => []TypeOK
<1>1. DispatchInv => TypeOK
  <2> SUFFICES ASSUME DispatchInv PROVE TypeOK
    OBVIOUS
  <2>1. \A j \in DOMAIN jobs : jobs[j] \in JobType /\ AllOrNothing(jobs[j])
    BY DEF DispatchInv, DispatchTypeInv
  <2>2. \A j \in DOMAIN jobs : /\ jobs[j].node \in Nodes /\ jobs[j].state \in JobState
                              /\ jobs[j].answer \in {<<>>, jobs[j].configs}
    BY <2>1 DEF JobType, AllOrNothing
  <2> QED
    BY <2>2 DEF DispatchInv, DispatchTypeInv, JobState, TypeOK
<1> QED
  BY <1>1, DispatchInvariant, PTL

\* The scan passes over no idle server: a server in allready_working_node, however often
\* it was given a job and in whichever order its threads ended, has one that has not
\* succeeded.
THEOREM NoIdleSkipped == Spec => []SkippedHasWork
  BY DispatchInvariant, PTL DEF DispatchInv

\* Whatever the shares of the servers, and whichever jobs fail, every configuration of the
\* request is in one place: still to be given away, or in one job.
THEOREM ConfigsOnce == Spec => []EachConfigOnce
<1>1. DispatchInv => EachConfigOnce
  <2> SUFFICES ASSUME DispatchInv PROVE EachConfigOnce
    OBVIOUS
  <2>1. Given = Flat(ConfigsOf(jobs), Len(jobs))
    <3>1. DOMAIN jobs = 1 .. Len(jobs)
      BY DEF DispatchInv, DispatchTypeInv
    <3>2. First(ConfigsOf(jobs), Len(jobs)) = [j \in DOMAIN jobs |-> jobs[j].configs]
      BY <3>1 DEF First, ConfigsOf
    <3> QED
      BY <3>2 DEF Given, Flat
  <2> QED
    BY <2>1 DEF DispatchInv, AnswerInv, Divided, EachConfigOnce, Config
<1> QED
  BY <1>1, DispatchInvariant, PTL

\* A result that is returned lacks exactly the configurations of the jobs whose server
\* answered with nothing, and has each of the others once; and no job failed.
THEOREM AllAccounted == Spec => []ResultAccounted
<1>1. DispatchInv => ResultAccounted
  <2> SUFFICES ASSUME DispatchInv, pc = "returned"
               PROVE  /\ \A j \in DOMAIN jobs : jobs[j].state = "done"
                      /\ Len(result) + Len(Unanswered) = Len(Configs)
                      /\ Range(result) \cup Range(Unanswered) = Config
    BY DEF ResultAccounted, Config
  <2> PICK n, given, rest : /\ n = Len(jobs) /\ given = Flat(ConfigsOf(jobs), n)
                            /\ rest = Flat(RestOf(jobs), n)
    OBVIOUS
  <2>1. DOMAIN jobs = 1 .. n /\ collected = n
    BY DEF DispatchInv, DispatchTypeInv, AnswerInv
  <2>2. Unanswered = rest
    <3>1. First(RestOf(jobs), n) =
            [j \in DOMAIN jobs |-> IF jobs[j].answer = <<>> THEN jobs[j].configs ELSE <<>>]
      BY <2>1 DEF First, RestOf
    <3> QED
      BY <3>1 DEF Unanswered, Flat
  <2>3. Divided(given, configspace) /\ configspace = <<>>
    BY DEF DispatchInv, AnswerInv
  <2>4. Accounted(given, result, rest)
    BY <2>1 DEF DispatchInv, AnswerInv
  <2>5. Len(given) = Len(Configs) /\ Range(given) = Config
    <3> PICK none : none = <<>>
      OBVIOUS
    <3>1. Divided(given, none) /\ Range(none) = {} /\ Len(none) = 0
      BY <2>3 DEF Range
    <3>2. given \in Seq(Config) /\ Len(given) + 0 = Len(Configs) /\ Range(given) \cup {} = Config
      BY <3>1 DEF Divided
    <3>3. Len(given) \in Nat
      BY <3>2
    <3> QED
      BY <3>2, <3>3
  <2>6. Len(result) + Len(rest) = Len(Configs) /\ Range(result) \cup Range(rest) = Config
    BY <2>4, <2>5 DEF Accounted
  <2> QED
    BY <2>1, <2>2, <2>6 DEF DispatchInv, AnswerInv
<1> QED
  BY <1>1, DispatchInvariant, PTL
=============================================================================
