---------------------------- MODULE SshProbeProofs ----------------------------
(***************************************************************************)
(* What SshProbe guarantees for any targets, users, passwords, accepted    *)
(* logins and number of workers.                                           *)
(***************************************************************************)
EXTENDS SshProbe, TLAPS

\* A worker holds an address exactly while it probes.
WorkersHoldJobs ==
  \A w \in Worker : job[w] = NoHost <=> pc[w] \in {"idle", "exit"}

\* There is a pair to try, or that was let in.
PairsThere ==
  \A w \in Worker :
    pc[w] \in {"dial", "collect", "close", "record"} => pair[w] < NumPairs

TypeInv == TypeOK /\ WorkersHoldJobs /\ PairsThere

LEMMA WantedAddr == Wanted \subseteq Addr /\ Wanted \subseteq IPv4 /\ NoHost \notin Wanted
BY AddrAssumption DEF Wanted

LEMMA LenTargets == /\ Len(Targets) \in Nat
                    /\ DOMAIN Targets = 1 .. Len(Targets)
BY TargetsAssumption

LEMMA TargetWanted ==
  ASSUME NEW i \in 1 .. Len(Targets), Targets[i] \in IPv4
  PROVE  Targets[i] \in Wanted
BY LenTargets DEF Wanted

LEMMA NumPairsNat == NumPairs \in Nat
BY CredentialsAssumption DEF NumPairs

\* The user and the password of a pair are given.
LEMMA PairGiven ==
  ASSUME NEW k \in Nat, k < NumPairs
  PROVE  /\ UserOf(k) \in {Users[i] : i \in DOMAIN Users}
         /\ \E p \in DOMAIN Passwords : PasswordOf(k) = Passwords[p]
<1> DEFINE m == Len(Users)
           n == Len(Passwords)
           q == k \div n
           r == k % n
<1>1. /\ m \in Nat /\ DOMAIN Users = 1 .. m
      /\ n \in Nat /\ DOMAIN Passwords = 1 .. n
      /\ k < m * n
  BY CredentialsAssumption DEF NumPairs
<1>2. n # 0
  BY <1>1
<1>3. r \in 0 .. n - 1 /\ q \in Int /\ k = q * n + r
  BY <1>1, <1>2
<1>4. q \in 0 .. m - 1
  <2> HIDE DEF m, n, q, r
  <2>1. q >= 0
    <3>1. q < 0 => q * n <= 0 - n
      BY <1>1, <1>2, <1>3
    <3> QED
      BY <1>1, <1>2, <1>3, <3>1
  <2>2. q < m
    <3>1. q >= m => q * n >= m * n
      BY <1>1, <1>2, <1>3
    <3>2. q * n \in Int /\ m * n \in Int
      BY <1>1, <1>3
    <3> QED
      BY <1>1, <1>2, <1>3, <3>1, <3>2
  <2> QED
    BY <1>1, <1>3, <2>1, <2>2
<1>5. q + 1 \in DOMAIN Users /\ r + 1 \in DOMAIN Passwords
  BY <1>1, <1>2, <1>3, <1>4
<1> QED
  BY <1>5 DEF UserOf, PasswordOf

-----------------------------------------------------------------------------
(* Types.                                                                  *)

LEMMA TypeInit == Init => TypeInv
<1> SUFFICES ASSUME Init PROVE TypeInv
  OBVIOUS
<1>1. /\ next \in 1 .. Len(Targets) + 1 /\ jobs \in Seq(Wanted)
      /\ out \in Seq(Device)
  BY LenTargets DEF Init
<1>2. pair \in [Worker -> 0 .. NumPairs]
  BY NumPairsNat DEF Init
<1>3. TypeOK
  <2>1. ctx \in BOOLEAN /\ main = "start" /\ done \in Nat /\ result \subseteq Wanted
    BY DEF Init
  <2>2. /\ pc \in [Worker -> {"idle", "probe", "tcp", "pair", "dial", "collect",
                             "close", "record", "report", "exit"}]
        /\ job \in [Worker -> Wanted \cup {NoHost}]
    BY DEF Init
  <2>3. /\ clients \in [Wanted -> Int] /\ granted \subseteq Wanted
        /\ tries \in [Wanted -> Nat] /\ late \in [Worker -> Nat]
    BY DEF Init
  <2> QED
    BY <1>1, <1>2, <2>1, <2>2, <2>3 DEF TypeOK
<1>4. WorkersHoldJobs /\ PairsThere
  BY DEF Init, WorkersHoldJobs, PairsThere
<1> QED
  BY <1>3, <1>4 DEF TypeInv

LEMMA OutHosts == TypeOK => Hosts(out) \subseteq Wanted
<1> SUFFICES ASSUME TypeOK PROVE Hosts(out) \subseteq Wanted
  OBVIOUS
<1>1. \A i \in DOMAIN out : out[i] \in Device
  BY DEF TypeOK
<1> QED
  BY <1>1 DEF Hosts, Device

\* A host is recorded behind the others.
LEMMA RecordedHosts ==
  ASSUME TypeInv, NEW w \in Worker, Record(w)
  PROVE  /\ Hosts(out') = Hosts(out) \cup {job[w]}
         /\ \A i \in DOMAIN out' :
              \/ i \in DOMAIN out /\ out'[i] = out[i]
              \/ i = Len(out) + 1
                 /\ out'[i] = [ip |-> job[w], user |-> UserOf(pair[w])]
<1> DEFINE d == [ip |-> job[w], user |-> UserOf(pair[w])]
<1>1. job[w] \in Wanted /\ pair[w] \in Nat /\ pair[w] < NumPairs
  <2>1. pc[w] = "record"
    BY DEF Record
  <2>2. pair[w] \in 0 .. NumPairs /\ job[w] \in Wanted \cup {NoHost}
    BY DEF TypeInv, TypeOK
  <2>3. job[w] # NoHost /\ pair[w] < NumPairs
    BY <2>1 DEF TypeInv, WorkersHoldJobs, PairsThere
  <2> QED
    BY <2>2, <2>3
<1>2. d \in Device /\ d.ip = job[w]
  BY <1>1, PairGiven DEF Device
<1>3. out \in Seq(Device) /\ out' = Append(out, d)
  BY DEF Record, TypeInv, TypeOK
<1> HIDE DEF d
<1>4. /\ Len(out) \in Nat /\ DOMAIN out = 1 .. Len(out)
      /\ DOMAIN out' = 1 .. Len(out) + 1
      /\ \A i \in 1 .. Len(out) : out'[i] = out[i]
      /\ out'[Len(out) + 1] = d
  BY <1>2, <1>3
<1>5. /\ \A i \in DOMAIN out : i \in DOMAIN out' /\ out'[i] = out[i]
      /\ Len(out) + 1 \in DOMAIN out'
      /\ \A i \in DOMAIN out' :
           \/ i \in DOMAIN out /\ out'[i] = out[i]
           \/ i = Len(out) + 1 /\ out'[i] = d
  BY <1>4
<1>6. Hosts(out') = Hosts(out) \cup {d.ip}
  BY <1>4, <1>5 DEF Hosts
<1> QED
  BY <1>2, <1>5, <1>6 DEF d

LEMMA TypeRun == TypeInv /\ Run => TypeInv'
<1> SUFFICES ASSUME TypeInv, Run PROVE TypeInv'
  OBVIOUS
<1> USE WantedAddr DEF TypeInv, TypeOK, WorkersHoldJobs, PairsThere, workVars, netVars, runVars
<1>1. CASE Start
  BY <1>1 DEF Start
<1>2. CASE FeedSkip
  BY <1>2, LenTargets DEF FeedSkip
<1>3. CASE FeedJob
  BY <1>3, LenTargets, TargetWanted DEF FeedJob
<1>4. CASE CloseJobs
  BY <1>4 DEF CloseJobs
<1>5. CASE Return
  <2>1. Hosts(out) \subseteq Wanted
    BY OutHosts
  <2>2. /\ main' = "returned" /\ result' \subseteq Wanted
        /\ UNCHANGED <<ctx, next, jobs, done, out, pc, job, pair>>
        /\ UNCHANGED <<clients, granted, tries, late>>
    BY <1>5, <2>1 DEF Return
  <2>3. TypeOK'
    BY <2>2
  <2>4. WorkersHoldJobs' /\ PairsThere'
    BY <2>2
  <2> QED
    BY <2>3, <2>4
<1> QED
  BY <1>1, <1>2, <1>3, <1>4, <1>5 DEF Run

LEMMA TypeWork == ASSUME NEW w \in Worker
                  PROVE  TypeInv /\ Work(w) => TypeInv'
<1> SUFFICES ASSUME TypeInv, Work(w) PROVE TypeInv'
  OBVIOUS
<1> USE WantedAddr, NumPairsNat
    DEF TypeInv, TypeOK, WorkersHoldJobs, PairsThere, workVars, netVars, runVars,
        Goto
<1>0. /\ pc[w] \notin {"idle", "exit"} => job[w] \in Wanted
      /\ pair[w] \in 0 .. NumPairs
  OBVIOUS
<1>d. Dialled(w) /\ pc[w] = "dial" =>
        tries' \in [Wanted -> Nat] /\ late' \in [Worker -> Nat]
  BY <1>0 DEF Dialled
<1>1. CASE TakeJob(w)
  BY <1>1 DEF TakeJob
<1>2. CASE Exit(w)
  BY <1>2 DEF Exit
<1>3. CASE Probe(w)
  <2>1. PICK l \in {"report", "tcp"} : pc' = [pc EXCEPT ![w] = l]
    BY <1>3 DEF Probe
  <2>2. pc[w] = "probe" /\ UNCHANGED <<ctx, runVars, out, job, netVars>>
    BY <1>3 DEF Probe
  <2>3. pair' \in [Worker -> 0 .. NumPairs] /\ \A v \in Worker \ {w} : pair'[v] = pair[v]
    BY <1>3 DEF Probe
  <2> QED
    BY <2>1, <2>2, <2>3
<1>4. CASE TCPCheck(w)
  <2>1. PICK l \in {"pair", "report"} : pc' = [pc EXCEPT ![w] = l]
    BY <1>4 DEF TCPCheck
  <2>2. pc[w] = "tcp" /\ UNCHANGED <<ctx, runVars, out, job, pair, netVars>>
    BY <1>4 DEF TCPCheck
  <2> QED
    BY <2>1, <2>2
<1>5. CASE NextPair(w)
  <2> DEFINE l == IF pair[w] = NumPairs \/ ctx THEN "report" ELSE "dial"
  <2>1. /\ l \in {"report", "dial"} /\ pc' = [pc EXCEPT ![w] = l]
        /\ l = "dial" => pair[w] < NumPairs
    BY <1>0, <1>5 DEF NextPair
  <2>2. pc[w] = "pair" /\ UNCHANGED <<ctx, runVars, out, job, pair, netVars>>
    BY <1>5 DEF NextPair
  <2> HIDE DEF l
  <2> QED
    BY <2>1, <2>2
<1>6. CASE DialFails(w)
  <2>1. pair' = [pair EXCEPT ![w] = pair[w] + 1] /\ pair[w] + 1 \in 0 .. NumPairs
    BY <1>0, <1>6 DEF DialFails
  <2>2. pair' \in [Worker -> 0 .. NumPairs]
    BY <2>1
  <2> QED
    BY <1>6, <1>d, <2>1, <2>2 DEF DialFails
<1>7. CASE LoggedIn(w)
  <2>1. clients' \in [Wanted -> Int] /\ granted' \subseteq Wanted
    BY <1>0, <1>7 DEF LoggedIn
  <2> QED
    BY <1>7, <1>d, <2>1 DEF LoggedIn
<1>8. CASE Collect(w)
  BY <1>8 DEF Collect
<1>9. CASE CloseClient(w)
  <2>1. clients' \in [Wanted -> Int]
    BY <1>0, <1>9 DEF CloseClient
  <2> QED
    BY <1>9, <2>1 DEF CloseClient
<1>10. CASE Record(w)
  <2>1. UserOf(pair[w]) \in {Users[i] : i \in DOMAIN Users}
    BY <1>0, <1>10, PairGiven DEF Record
  <2>2. [ip |-> job[w], user |-> UserOf(pair[w])] \in Device
    BY <1>0, <1>10, <2>1 DEF Record, Device
  <2>3. out' \in Seq(Device)
    BY <1>10, <2>2 DEF Record
  <2> QED
    BY <1>10, <2>3 DEF Record
<1>11. CASE Report(w)
  BY <1>11 DEF Report
<1> QED
  BY <1>1, <1>2, <1>3, <1>4, <1>5, <1>6, <1>7, <1>8, <1>9, <1>10, <1>11 DEF Work

LEMMA TypeStep == TypeInv /\ [Next]_vars => TypeInv'
<1> SUFFICES ASSUME TypeInv, [Next]_vars PROVE TypeInv'
  OBVIOUS
<1>1. CASE Run
  BY <1>1, TypeRun
<1>2. CASE \E w \in Worker : Work(w)
  BY <1>2, TypeWork
<1>3. CASE Cancel
  BY <1>3 DEF Cancel, TypeInv, TypeOK, WorkersHoldJobs, PairsThere, workVars, netVars, runVars
<1>4. CASE Finished \/ UNCHANGED vars
  BY <1>4 DEF Finished, vars, TypeInv, TypeOK, WorkersHoldJobs, PairsThere, workVars,
              netVars, runVars
<1> QED
  BY <1>1, <1>2, <1>3, <1>4 DEF Next

\* Type correctness: every variable keeps its type in every run of the stage.
THEOREM TypeCorrect == Spec => []TypeOK
<1>1. TypeInv => TypeOK
  BY DEF TypeInv
<1> QED
  BY TypeInit, TypeStep, <1>1, PTL DEF Spec

-----------------------------------------------------------------------------
(* After a cancellation.                                                   *)

\* A worker about to dial has just seen the context not done.
LateInv ==
  \A w \in Worker : /\ late[w] <= 1
                    /\ (~ctx \/ pc[w] = "dial") => late[w] = 0

LEMMA LateStep == TypeInv /\ LateInv /\ [Next]_vars => LateInv'
<1> SUFFICES ASSUME TypeInv, LateInv, [Next]_vars PROVE LateInv'
  OBVIOUS
<1>0. /\ late \in [Worker -> Nat] /\ DOMAIN pc = Worker
      /\ \A w \in Worker : /\ late[w] <= 1
                           /\ (~ctx \/ pc[w] = "dial") => late[w] = 0
  BY DEF TypeInv, TypeOK, LateInv
<1>1. CASE UNCHANGED <<ctx, pc, late>>
  BY <1>0, <1>1 DEF LateInv
<1>2. CASE Cancel
  BY <1>0, <1>2 DEF Cancel, LateInv, workVars, netVars
<1>3. ASSUME NEW w \in Worker, Work(w) PROVE LateInv'
  <2> USE DEF Goto, workVars, netVars
  <2>1. CASE DialFails(w) \/ LoggedIn(w)
    <3>1. /\ pc[w] = "dial" /\ ctx' = ctx
          /\ late' = [late EXCEPT ![w] = IF ctx THEN @ + 1 ELSE @]
          /\ pc'[w] # "dial" /\ \A v \in Worker \ {w} : pc'[v] = pc[v]
      BY <1>0, <2>1 DEF DialFails, LoggedIn, Dialled, runVars
    <3>2. late[w] = 0
      BY <1>0, <3>1
    <3>3. /\ late'[w] = (IF ctx THEN 1 ELSE 0)
          /\ \A v \in Worker \ {w} : late'[v] = late[v]
      BY <1>0, <3>1, <3>2
    <3> QED
      BY <1>0, <3>1, <3>3 DEF LateInv
  <2>2. CASE ~(DialFails(w) \/ LoggedIn(w))
    <3>1. /\ UNCHANGED <<ctx, late>>
          /\ \A v \in Worker : pc'[v] = "dial" => pc[v] = "dial" \/ ~ctx
      BY <1>0, <1>3, <2>2
         DEF Work, TakeJob, Exit, Probe, TCPCheck, NextPair, Collect,
             CloseClient, Record, Report
    <3> QED
      BY <1>0, <3>1 DEF LateInv
  <2> QED
    BY <2>1, <2>2
<1> QED
  BY <1>1, <1>2, <1>3
     DEF Next, Run, Start, FeedSkip, FeedJob, CloseJobs, Return, Finished, vars,
         workVars, netVars

\* probeOne: a worker tries at most one login after the cancellation, the one
\* it was about to try.
THEOREM LateDialBound == Spec => []OneLateDial
<1>1. Init => LateInv
  BY DEF Init, LateInv
<1>2. LateInv => OneLateDial
  BY DEF LateInv, OneLateDial
<1> QED
  BY TypeInit, TypeStep, LateStep, <1>1, <1>2, PTL DEF Spec

-----------------------------------------------------------------------------
(* Where the addresses are: each host is probed by one worker, once.       *)

Fed == {Targets[i] : i \in 1 .. next - 1}

Queued(h) == \E i \in DOMAIN jobs : jobs[i] = h

\* An address is in the channel once, or with one worker, or neither.
QueueInv ==
  /\ \A i \in DOMAIN jobs : jobs[i] \in Fed
  /\ \A i, j \in DOMAIN jobs : jobs[i] = jobs[j] => i = j
  /\ \A w \in Worker : job[w] # NoHost =>
       /\ job[w] \in Fed /\ ~Queued(job[w])
       /\ \A v \in Worker : job[v] = job[w] => v = w

\* What a worker takes from the channel, and what it leaves there.
LEMMA Taken ==
  ASSUME TypeInv, QueueInv, NEW w \in Worker, TakeJob(w), NEW h, h = jobs[1]
  PROVE  /\ h \in Wanted /\ Queued(h) /\ ~Queued(h)'
         /\ job' = [job EXCEPT ![w] = h] /\ job[w] = NoHost
         /\ \A g : g # h => (Queued(g)' <=> Queued(g))
         /\ \A i \in DOMAIN jobs' : i + 1 \in DOMAIN jobs /\ jobs'[i] = jobs[i + 1]
         /\ \A i, j \in DOMAIN jobs' : jobs'[i] = jobs'[j] => i = j
<1>1. /\ jobs \in Seq(Wanted) /\ jobs # <<>> /\ jobs' = Tail(jobs)
      /\ job' = [job EXCEPT ![w] = Head(jobs)] /\ job[w] = NoHost
  BY DEF TakeJob, TypeInv, TypeOK, WorkersHoldJobs
<1>2. /\ Head(jobs) = h /\ Len(jobs) \in Nat /\ Len(jobs) >= 1
      /\ DOMAIN jobs = 1 .. Len(jobs) /\ DOMAIN jobs' = 1 .. Len(jobs) - 1
      /\ \A i \in 1 .. Len(jobs) - 1 : jobs'[i] = jobs[i + 1]
  BY <1>1
<1>3. /\ 1 \in DOMAIN jobs
      /\ \A i \in DOMAIN jobs' : i \in Int /\ i >= 1 /\ i + 1 \in DOMAIN jobs
                                /\ jobs'[i] = jobs[i + 1]
      /\ \A i \in DOMAIN jobs : i = 1 \/ (i - 1 \in DOMAIN jobs' /\ i - 1 + 1 = i)
  BY <1>2
<1>4. h \in Wanted /\ Queued(h)
  BY <1>1, <1>3 DEF Queued
<1>5. ~Queued(h)'
  <2> SUFFICES ASSUME NEW i \in DOMAIN jobs', jobs'[i] = h PROVE FALSE
    BY DEF Queued
  <2>1. i + 1 \in DOMAIN jobs /\ jobs[i + 1] = jobs[1] /\ i + 1 # 1
    BY <1>3
  <2> QED
    BY <1>3, <2>1 DEF QueueInv
<1>6. \A g : Queued(g)' => Queued(g)
  BY <1>3 DEF Queued
<1>7. ASSUME NEW g, g # h, Queued(g) PROVE Queued(g)'
  <2>1. PICK i \in DOMAIN jobs : jobs[i] = g
    BY <1>7 DEF Queued
  <2>2. i - 1 \in DOMAIN jobs' /\ i - 1 + 1 = i
    BY <1>3, <1>7, <2>1
  <2>3. jobs'[i - 1] = g
    BY <1>3, <2>1, <2>2
  <2> QED
    BY <2>2, <2>3 DEF Queued
<1>8. ASSUME NEW i \in DOMAIN jobs', NEW j \in DOMAIN jobs', jobs'[i] = jobs'[j]
      PROVE  i = j
  BY <1>3, <1>8 DEF QueueInv
<1> QED
  BY <1>1, <1>2, <1>3, <1>4, <1>5, <1>6, <1>7, <1>8

\* What the feeder puts there: an address that was not fed before.
LEMMA FedJob ==
  ASSUME TypeInv, FeedJob
  PROVE  LET h == Targets[next]
         IN  /\ h \in Wanted /\ h \notin Fed /\ Fed' = Fed \cup {h}
             /\ \A g : Queued(g)' <=> Queued(g) \/ g = h
             /\ \A i \in DOMAIN jobs' :
                  \/ i \in DOMAIN jobs /\ jobs'[i] = jobs[i]
                  \/ i = Len(jobs) + 1 /\ jobs'[i] = h
<1> DEFINE h == Targets[next]
<1>1. /\ next \in 1 .. Len(Targets) /\ next' = next + 1
      /\ jobs \in Seq(Wanted) /\ jobs' = Append(jobs, h)
  BY LenTargets DEF FeedJob, TypeInv, TypeOK
<1>2. h \in Wanted
  BY <1>1, TargetWanted DEF FeedJob
<1>3. h \notin Fed /\ Fed' = Fed \cup {h}
  BY <1>1, LenTargets, TargetsAssumption DEF Fed
<1> HIDE DEF h
<1>4. /\ Len(jobs) \in Nat /\ DOMAIN jobs = 1 .. Len(jobs)
      /\ DOMAIN jobs' = 1 .. Len(jobs) + 1
      /\ \A i \in 1 .. Len(jobs) : jobs'[i] = jobs[i]
      /\ jobs'[Len(jobs) + 1] = h
  BY <1>1, <1>2
<1>5. /\ \A i \in DOMAIN jobs : i \in DOMAIN jobs' /\ jobs'[i] = jobs[i]
      /\ Len(jobs) + 1 \in DOMAIN jobs'
      /\ \A i \in DOMAIN jobs' :
           \/ i \in DOMAIN jobs /\ jobs'[i] = jobs[i]
           \/ i = Len(jobs) + 1 /\ jobs'[i] = h
  BY <1>4
<1>6. \A g : Queued(g)' <=> Queued(g) \/ g = h
  BY <1>4, <1>5 DEF Queued
<1> QED
  BY <1>2, <1>3, <1>5, <1>6 DEF h

\* The addresses move only when one is fed, taken or done with.
LEMMA QueueSteps ==
  [Next]_vars => \/ UNCHANGED <<next, jobs, job>>
                 \/ FeedSkip \/ FeedJob
                 \/ \E w \in Worker : TakeJob(w) \/ Report(w)
<1> USE DEF runVars, workVars
<1>1. Run => FeedSkip \/ FeedJob \/ UNCHANGED <<next, jobs, job>>
  BY DEF Run, Start, CloseJobs, Return
<1>2. ASSUME NEW w \in Worker, Work(w)
      PROVE  TakeJob(w) \/ Report(w) \/ UNCHANGED <<next, jobs, job>>
  BY <1>2 DEF Work, Exit, Probe, TCPCheck, NextPair, DialFails, LoggedIn,
              Collect, CloseClient, Record
<1>3. Cancel \/ Finished \/ UNCHANGED vars => UNCHANGED <<next, jobs, job>>
  BY DEF Cancel, Finished, vars
<1> QED
  BY <1>1, <1>2, <1>3 DEF Next

LEMMA SkipFeeds == TypeInv /\ FeedSkip => Fed' = Fed \cup {Targets[next]}
<1> SUFFICES ASSUME TypeInv, FeedSkip PROVE Fed' = Fed \cup {Targets[next]}
  OBVIOUS
<1>1. next \in 1 .. Len(Targets) /\ next' = next + 1
  BY LenTargets DEF FeedSkip, TypeInv, TypeOK
<1> QED
  BY <1>1 DEF Fed

LEMMA QueueInit == Init => QueueInv
BY DEF Init, QueueInv, Fed

LEMMA QueueStep == TypeInv /\ QueueInv /\ [Next]_vars => QueueInv'
<1> SUFFICES ASSUME TypeInv, QueueInv, [Next]_vars PROVE QueueInv'
  OBVIOUS
<1>1. CASE UNCHANGED <<next, jobs, job>>
  BY <1>1 DEF QueueInv, Fed, Queued
<1>2. CASE FeedSkip
  BY <1>2, SkipFeeds DEF FeedSkip, QueueInv, Queued, workVars
<1>3. CASE FeedJob
  <2> DEFINE h == Targets[next]
  <2>1. /\ h \notin Fed /\ Fed' = Fed \cup {h} /\ job' = job
        /\ \A g : Queued(g)' <=> Queued(g) \/ g = h
        /\ \A i \in DOMAIN jobs' :
             \/ i \in DOMAIN jobs /\ jobs'[i] = jobs[i]
             \/ i = Len(jobs) + 1 /\ jobs'[i] = h
    BY <1>3, FedJob DEF FeedJob, workVars
  <2> HIDE DEF h
  <2> QED
    BY <2>1 DEF QueueInv
<1>4. ASSUME NEW w \in Worker, TakeJob(w) PROVE QueueInv'
  <2>0. PICK h : h = jobs[1]
    OBVIOUS
  <2>1. /\ h \in Wanted /\ Queued(h) /\ ~Queued(h)'
        /\ job' = [job EXCEPT ![w] = h] /\ job[w] = NoHost
        /\ \A g : g # h => (Queued(g)' <=> Queued(g))
        /\ \A i \in DOMAIN jobs' : i + 1 \in DOMAIN jobs /\ jobs'[i] = jobs[i + 1]
        /\ \A i, j \in DOMAIN jobs' : jobs'[i] = jobs'[j] => i = j
    BY <1>4, <2>0, Taken
  <2>2. Fed' = Fed
    BY <1>4 DEF TakeJob, Fed
  <2>3. /\ job'[w] = h /\ \A v \in Worker \ {w} : job'[v] = job[v]
        /\ h \in Fed
        /\ \A v \in Worker : job[v] # h
    <3>1. DOMAIN job = Worker /\ NoHost \notin Wanted
      BY WantedAddr DEF TypeInv, TypeOK
    <3> QED
      BY <2>1, <3>1 DEF QueueInv, Queued
  <2>4. \A i \in DOMAIN jobs' : jobs'[i] \in Fed'
    BY <2>1, <2>2 DEF QueueInv
  <2>5. ASSUME NEW v \in Worker, job'[v] # NoHost
        PROVE  /\ job'[v] \in Fed'
               /\ \A u \in Worker : job'[u] = job'[v] => u = v
    BY <2>2, <2>3, <2>5 DEF QueueInv
  <2>6. ASSUME NEW v \in Worker, job'[v] # NoHost
        PROVE  \A i \in DOMAIN jobs' : jobs'[i] # job'[v]
    BY <2>1, <2>3, <2>6 DEF QueueInv, Queued
  <2> QED
    BY <2>1, <2>4, <2>5, <2>6 DEF QueueInv, Queued
<1>5. ASSUME NEW w \in Worker, Report(w) PROVE QueueInv'
  <2>1. UNCHANGED <<jobs, next>> /\ job' = [job EXCEPT ![w] = NoHost]
    BY <1>5 DEF Report
  <2>2. Fed' = Fed /\ DOMAIN job = Worker
    BY <2>1 DEF Fed, TypeInv, TypeOK
  <2> QED
    BY <2>1, <2>2 DEF QueueInv, Queued
<1> QED
  BY <1>1, <1>2, <1>3, <1>4, <1>5, QueueSteps

-----------------------------------------------------------------------------
(* What has been done to each host.                                        *)

\* h has refused k logins ...
Trying(h, k) ==
  tries[h] = k /\ clients[h] = 0 /\ h \notin granted /\ h \notin Hosts(out)

\* ... or has let somebody in, who is yet to be recorded ...
LetIn(h, open) ==
  /\ clients[h] = open /\ tries[h] <= NumPairs
  /\ h \in granted /\ h \notin Hosts(out)

\* ... or is done with.
Over(h) ==
  /\ clients[h] = 0 /\ tries[h] <= NumPairs
  /\ h \in granted <=> h \in Hosts(out)
  /\ ctx \/ h \in granted \/ tries[h] \in {0, NumPairs}

\* Where worker w is in the probe of h.
Stands(w, h) ==
  /\ pc[w] \in {"probe", "tcp"} => Trying(h, 0)
  /\ pc[w] = "tcp" => pair[w] = 0
  /\ pc[w] \in {"pair", "dial"} => Trying(h, pair[w])
  /\ pc[w] \in {"collect", "close"} => LetIn(h, 1)
  /\ pc[w] = "record" => LetIn(h, 0)
  /\ pc[w] \in {"collect", "close", "record"} =>
       <<h, UserOf(pair[w]), PasswordOf(pair[w])>> \in Accepted
  /\ pc[w] = "report" => Over(h)

HostInv ==
  /\ \A w \in Worker : job[w] # NoHost => Stands(w, job[w])
  /\ \A h \in Wanted : Queued(h) \/ h \notin Fed => Trying(h, 0)
  /\ \A h \in Wanted :
       h \in Fed /\ ~Queued(h) /\ (\A w \in Worker : job[w] # h) => Over(h)

Same(g) ==
  /\ tries'[g] = tries[g] /\ clients'[g] = clients[g]
  /\ g \in granted' <=> g \in granted
  /\ g \in Hosts(out') <=> g \in Hosts(out)

LEMMA SameKeeps ==
  ASSUME NEW g, Same(g), ctx => ctx'
  PROVE  /\ \A k : Trying(g, k) => Trying(g, k)'
         /\ \A c : LetIn(g, c) => LetIn(g, c)'
         /\ Over(g) => Over(g)'
BY DEF Same, Trying, LetIn, Over

LEMMA SameStands ==
  ASSUME NEW g, Same(g), ctx => ctx', NEW w \in Worker,
         pc'[w] = pc[w], pair'[w] = pair[w], Stands(w, g)
  PROVE  Stands(w, g)'
<1> USE SameKeeps
<1> QED
  BY DEF Stands

LEMMA HostInit == Init => HostInv
<1> SUFFICES ASSUME Init PROVE HostInv
  OBVIOUS
<1>1. Hosts(out) = {} /\ Fed = {}
  BY DEF Init, Hosts, Fed
<1>2. \A h \in Wanted : Trying(h, 0)
  BY <1>1 DEF Init, Trying
<1>3. \A w \in Worker : job[w] = NoHost
  BY DEF Init
<1> QED
  BY <1>1, <1>2, <1>3 DEF HostInv

\* A step that does nothing to a host and moves no address.
LEMMA HostIdle ==
  ASSUME TypeInv, HostInv, ctx => ctx', \A h \in Wanted : Same(h),
         UNCHANGED <<next, jobs, job, pair>>,
         \A w \in Worker : job[w] # NoHost => pc'[w] = pc[w]
  PROVE  HostInv'
<1>1. \A h : (Queued(h)' <=> Queued(h)) /\ Fed' = Fed
  BY DEF Queued, Fed
<1>2. ASSUME NEW w \in Worker, job'[w] # NoHost PROVE Stands(w, job[w])'
  <2>1. job[w] \in Wanted /\ job'[w] = job[w]
    BY <1>2 DEF TypeInv, TypeOK
  <2>2. PICK h : h = job[w]
    OBVIOUS
  <2>3. Stands(w, h)'
    BY <1>2, <2>1, <2>2, SameStands DEF HostInv
  <2> QED
    BY <2>1, <2>2, <2>3 DEF Stands
<1>3. ASSUME NEW h \in Wanted
      PROVE  (Trying(h, 0) => Trying(h, 0)') /\ (Over(h) => Over(h)')
  BY SameKeeps
<1> QED
  BY <1>1, <1>2, <1>3 DEF HostInv

\* A step of worker w in the probe of h.
LEMMA HostMove ==
  ASSUME TypeInv, QueueInv, HostInv, NEW w \in Worker, NEW h \in Wanted, job[w] = h,
         UNCHANGED <<ctx, next, jobs, job>>,
         \A g \in Wanted \ {h} : Same(g), Stands(w, h)',
         \A v \in Worker \ {w} : pc'[v] = pc[v] /\ pair'[v] = pair[v]
  PROVE  HostInv'
<1>1. \A g : (Queued(g)' <=> Queued(g)) /\ Fed' = Fed
  BY DEF Queued, Fed
<1>2. h # NoHost /\ h \in Fed /\ ~Queued(h)
  BY WantedAddr DEF QueueInv
<1>3. ASSUME NEW v \in Worker, job'[v] # NoHost PROVE Stands(v, job[v])'
  <2>1. job[v] \in Wanted /\ job'[v] = job[v]
    BY <1>3 DEF TypeInv, TypeOK
  <2>2. PICK g : g = job[v]
    OBVIOUS
  <2>3. CASE v = w
    BY <2>1, <2>2, <2>3 DEF Stands
  <2>4. CASE v # w
    <3>1. g # h /\ g \in Wanted
      BY <1>2, <2>1, <2>2, <2>4 DEF QueueInv
    <3>2. Stands(v, g)'
      BY <1>3, <2>1, <2>2, <2>4, <3>1, SameStands DEF HostInv
    <3> QED
      BY <2>1, <2>2, <3>2 DEF Stands
  <2> QED
    BY <2>3, <2>4
<1>4. ASSUME NEW g \in Wanted, g # h
      PROVE  (Trying(g, 0) => Trying(g, 0)') /\ (Over(g) => Over(g)')
  BY <1>4, SameKeeps
<1> QED
  BY <1>1, <1>2, <1>3, <1>4 DEF HostInv

\* The steps of worker w in a probe, one by one.
LEMMA HostProbe ==
  ASSUME TypeInv, TypeInv', QueueInv, HostInv, NEW w \in Worker,
         \/ Probe(w) \/ TCPCheck(w) \/ NextPair(w) \/ DialFails(w)
         \/ LoggedIn(w) \/ Collect(w) \/ CloseClient(w) \/ Record(w)
  PROVE  HostInv'
<1>0. PICK h : h = job[w]
  OBVIOUS
<1>1. /\ pc \in [Worker -> {"idle", "probe", "tcp", "pair", "dial", "collect",
                           "close", "record", "report", "exit"}]
      /\ pair \in [Worker -> 0 .. NumPairs] /\ tries \in [Wanted -> Nat]
      /\ clients \in [Wanted -> Int] /\ out \in Seq(Device)
      /\ NumPairs \in Nat
      /\ pc[w] \notin {"idle", "exit"} => h \in Wanted /\ h # NoHost
      /\ pc[w] \in {"dial", "collect", "close", "record"} => pair[w] < NumPairs
  BY <1>0, NumPairsNat DEF TypeInv, TypeOK, WorkersHoldJobs, PairsThere
<1>2. /\ pc[w] \notin {"idle", "exit"} /\ UNCHANGED <<ctx, next, jobs, job>>
      /\ \A v \in Worker \ {w} : pc'[v] = pc[v] /\ pair'[v] = pair[v]
  BY <1>1 DEF Probe, TCPCheck, NextPair, DialFails, LoggedIn, Collect,
              CloseClient, Record, Goto, runVars, netVars
<1>3. h \in Wanted /\ h # NoHost /\ Stands(w, h)
  BY <1>0, <1>1, <1>2 DEF HostInv
<1> SUFFICES (\A g \in Wanted \ {h} : Same(g)) /\ Stands(w, h)'
  BY <1>0, <1>2, <1>3, HostMove
<1>4. CASE UNCHANGED <<out, netVars>>
  <2>1. \A g : Same(g)
    BY <1>4 DEF Same, netVars
  <2>2. /\ \A k : Trying(h, k) => Trying(h, k)'
        /\ \A c : LetIn(h, c) => LetIn(h, c)'
        /\ Over(h) => Over(h)'
    BY <1>2, <2>1, SameKeeps
  <2>3. CASE Probe(w)
    <3>1. pc[w] = "probe" /\ pc'[w] = (IF ctx THEN "report" ELSE "tcp") /\ pair'[w] = 0
      BY <1>1, <2>3 DEF Probe, Goto
    <3>2. Trying(h, 0) /\ Over(h)
      BY <1>1, <1>3, <3>1 DEF Stands, Trying, Over
    <3> QED
      BY <2>1, <2>2, <3>1, <3>2 DEF Stands
  <2>4. CASE TCPCheck(w)
    <3>1. pc[w] = "tcp" /\ pc'[w] \in {"pair", "report"} /\ pair'[w] = 0
      BY <1>1, <1>3, <2>4 DEF TCPCheck, Goto, Stands
    <3>2. Trying(h, 0) /\ Over(h)
      BY <1>1, <1>3, <3>1 DEF Stands, Trying, Over
    <3> QED
      BY <2>1, <2>2, <3>1, <3>2 DEF Stands
  <2>5. CASE NextPair(w)
    <3>1. /\ pc[w] = "pair" /\ pair' = pair
          /\ pc'[w] = (IF pair[w] = NumPairs \/ ctx THEN "report" ELSE "dial")
      BY <1>1, <2>5 DEF NextPair, Goto
    <3>2. Trying(h, pair[w]) /\ (pair[w] = NumPairs \/ ctx => Over(h))
      BY <1>1, <1>3, <3>1 DEF Stands, Trying, Over
    <3> QED
      BY <2>1, <2>2, <3>1, <3>2 DEF Stands
  <2>6. CASE Collect(w)
    <3>1. pc[w] = "collect" /\ pc'[w] = "close" /\ pair' = pair
      BY <1>1, <2>6 DEF Collect, Goto
    <3> QED
      BY <1>3, <2>1, <2>2, <3>1 DEF Stands
  <2>7. CASE DialFails(w) \/ LoggedIn(w) \/ CloseClient(w) \/ Record(w)
    <3>1. ~CloseClient(w)
      BY <1>0, <1>1, <1>3, <1>4 DEF CloseClient, netVars
    <3>2. ~Record(w)
      BY <1>1, <1>4 DEF Record
    <3>3. ~(DialFails(w) \/ LoggedIn(w))
      BY <1>0, <1>1, <1>3, <1>4 DEF DialFails, LoggedIn, Dialled, netVars
    <3> QED
      BY <2>7, <3>1, <3>2, <3>3
  <2> QED
    BY <2>1, <2>3, <2>4, <2>5, <2>6, <2>7
<1>5. CASE DialFails(w)
  <2>1. /\ pc[w] = "dial" /\ pc'[w] = "pair" /\ pair'[w] = pair[w] + 1
        /\ tries' = [tries EXCEPT ![h] = @ + 1]
        /\ UNCHANGED <<out, clients, granted>>
    BY <1>0, <1>1, <1>5 DEF DialFails, Dialled, Goto
  <2>2. Trying(h, pair[w])
    BY <1>3, <2>1 DEF Stands
  <2>3. tries'[h] = pair'[w] /\ \A g \in Wanted \ {h} : tries'[g] = tries[g]
    BY <1>1, <1>3, <2>1, <2>2 DEF Trying
  <2> QED
    BY <2>1, <2>2, <2>3 DEF Same, Stands, Trying
<1>6. CASE LoggedIn(w)
  <2>1. /\ pc[w] = "dial" /\ pc'[w] = "collect" /\ pair' = pair
        /\ tries' = [tries EXCEPT ![h] = @ + 1]
        /\ clients' = [clients EXCEPT ![h] = @ + 1]
        /\ granted' = granted \cup {h} /\ out' = out
        /\ <<h, UserOf(pair[w]), PasswordOf(pair[w])>> \in Accepted
    BY <1>0, <1>1, <1>6 DEF LoggedIn, Dialled, Goto
  <2>2. Trying(h, pair[w])
    BY <1>3, <2>1 DEF Stands
  <2>3. /\ tries'[h] = pair[w] + 1 /\ clients'[h] = 1
        /\ \A g \in Wanted \ {h} : tries'[g] = tries[g] /\ clients'[g] = clients[g]
    BY <1>1, <1>3, <2>1, <2>2 DEF Trying
  <2>4. tries'[h] <= NumPairs
    BY <1>1, <2>1, <2>3
  <2> QED
    BY <2>1, <2>2, <2>3, <2>4 DEF Same, Stands, Trying, LetIn
<1>7. CASE CloseClient(w)
  <2>1. /\ pc[w] = "close" /\ pc'[w] = "record" /\ pair' = pair
        /\ clients' = [clients EXCEPT ![h] = @ - 1]
        /\ UNCHANGED <<out, granted, tries>>
    BY <1>0, <1>1, <1>7 DEF CloseClient, Goto
  <2>2. LetIn(h, 1) /\ <<h, UserOf(pair[w]), PasswordOf(pair[w])>> \in Accepted
    BY <1>3, <2>1 DEF Stands
  <2>3. clients'[h] = 0 /\ \A g \in Wanted \ {h} : clients'[g] = clients[g]
    BY <1>1, <1>3, <2>1, <2>2 DEF LetIn
  <2> QED
    BY <2>1, <2>2, <2>3 DEF Same, Stands, LetIn
<1>8. CASE Record(w)
  <2>1. /\ pc[w] = "record" /\ pc'[w] = "report"
        /\ UNCHANGED <<clients, granted, tries>>
    BY <1>1, <1>8 DEF Record, Goto, netVars
  <2>2. Hosts(out') = Hosts(out) \cup {h}
    BY <1>0, <1>8, RecordedHosts
  <2>3. LetIn(h, 0)
    BY <1>3, <2>1 DEF Stands
  <2> QED
    BY <2>1, <2>2, <2>3 DEF Same, Stands, LetIn, Over
<1> QED
  BY <1>4, <1>5, <1>6, <1>7, <1>8
     DEF Probe, TCPCheck, NextPair, Collect

\* The other steps: of Run, of the channel and the end of a probe.
LEMMA HostStep ==
  TypeInv /\ TypeInv' /\ QueueInv /\ HostInv /\ [Next]_vars => HostInv'
<1> SUFFICES ASSUME TypeInv, TypeInv', QueueInv, HostInv, [Next]_vars
             PROVE  HostInv'
  OBVIOUS
<1>0. UNCHANGED <<out, netVars>> => \A g : Same(g)
  BY DEF Same, netVars
<1>1. CASE Start \/ CloseJobs \/ Return \/ Cancel \/ Finished \/ UNCHANGED vars
  <2>1. /\ UNCHANGED <<next, jobs, job, pair, pc, out, netVars>> /\ (ctx => ctx')
    BY <1>1 DEF Start, CloseJobs, Return, Cancel, Finished, vars, runVars, workVars
  <2> QED
    BY <1>0, <2>1, HostIdle
<1>2. CASE FeedSkip
  <2>1. /\ UNCHANGED <<ctx, jobs, job, pair, pc, out, netVars>>
        /\ Fed' = Fed \cup {Targets[next]} /\ Targets[next] \notin Wanted
    BY <1>2, SkipFeeds, WantedAddr DEF FeedSkip, workVars
  <2>2. \A g : Queued(g)' <=> Queued(g)
    BY <2>1 DEF Queued
  <2>3. /\ \A g : Trying(g, 0)' <=> Trying(g, 0)
        /\ \A g : Over(g)' <=> Over(g)
        /\ \A w \in Worker : Stands(w, job[w])' <=> Stands(w, job[w])
    BY <2>1 DEF Trying, LetIn, Over, Stands, netVars
  <2> QED
    BY <2>1, <2>2, <2>3 DEF HostInv
<1>3. CASE FeedJob
  <2>0. PICK h : h = Targets[next]
    OBVIOUS
  <2>1. /\ UNCHANGED <<ctx, job, pair, pc, out, netVars>>
        /\ h \in Wanted /\ h \notin Fed /\ Fed' = Fed \cup {h}
        /\ \A g : Queued(g)' <=> Queued(g) \/ g = h
    BY <1>3, <2>0, FedJob DEF FeedJob, workVars
  <2>2. /\ \A g : Trying(g, 0)' <=> Trying(g, 0)
        /\ \A g : Over(g)' <=> Over(g)
        /\ \A w \in Worker : Stands(w, job[w])' <=> Stands(w, job[w])
    BY <2>1 DEF Trying, LetIn, Over, Stands, netVars
  <2> QED
    BY <2>1, <2>2 DEF HostInv
<1>4. ASSUME NEW w \in Worker, TakeJob(w) PROVE HostInv'
  <2>0. PICK h : h = jobs[1]
    OBVIOUS
  <2>1. /\ h \in Wanted /\ Queued(h) /\ ~Queued(h)'
        /\ job' = [job EXCEPT ![w] = h] /\ job[w] = NoHost
        /\ \A g : g # h => (Queued(g)' <=> Queued(g))
    BY <1>4, <2>0, Taken
  <2>2. /\ DOMAIN job = Worker /\ DOMAIN pc = Worker
    BY DEF TypeInv, TypeOK
  <2>3. /\ UNCHANGED <<ctx, next, pair, out, netVars>>
        /\ pc'[w] = "probe" /\ \A v \in Worker \ {w} : pc'[v] = pc[v]
        /\ Fed' = Fed
    BY <1>4, <2>2 DEF TakeJob, Goto, Fed
  <2>4. \A g : Same(g)
    BY <1>0, <2>3
  <2>5. Trying(h, 0)'
    BY <2>1, <2>3, <2>4, SameKeeps DEF HostInv
  <2>6. ASSUME NEW v \in Worker, job'[v] # NoHost PROVE Stands(v, job[v])'
    <3>1. CASE v = w
      <4>1. job'[v] = h
        BY <2>1, <2>2, <3>1
      <4>2. Stands(v, h)'
        BY <2>3, <2>5, <3>1 DEF Stands
      <4> QED
        BY <4>1, <4>2 DEF Stands
    <3>2. CASE v # w
      <4>0. PICK g : g = job[v]
        OBVIOUS
      <4>1. job'[v] = g /\ g # NoHost
        BY <2>1, <2>2, <2>6, <3>2, <4>0
      <4>2. Stands(v, g)
        BY <4>0, <4>1 DEF HostInv
      <4>3. Stands(v, g)'
        BY <2>3, <2>4, <3>2, <4>2, SameStands
      <4> QED
        BY <4>1, <4>3 DEF Stands
    <3> QED
      BY <3>1, <3>2
  <2>7. ASSUME NEW g \in Wanted
        PROVE  (Trying(g, 0) => Trying(g, 0)') /\ (Over(g) => Over(g)')
    BY <2>3, <2>4, SameKeeps
  <2>8. \A g \in Wanted : Queued(g)' \/ g \notin Fed' => Trying(g, 0)'
    BY <2>1, <2>3, <2>7 DEF HostInv
  <2>9. ASSUME NEW g \in Wanted, g \in Fed', ~Queued(g)', \A v \in Worker : job'[v] # g
        PROVE  Over(g)'
    <3>1. g # h /\ \A v \in Worker : job[v] # g
      BY <2>1, <2>2, <2>9, WantedAddr
    <3> QED
      BY <2>1, <2>3, <2>7, <2>9, <3>1 DEF HostInv
  <2> QED
    BY <2>6, <2>8, <2>9 DEF HostInv
<1>5. ASSUME NEW w \in Worker, Report(w) PROVE HostInv'
  <2>1. DOMAIN job = Worker /\ DOMAIN pc = Worker
    BY DEF TypeInv, TypeOK
  <2>2. /\ UNCHANGED <<ctx, next, jobs, pair, out, netVars>>
        /\ pc[w] = "report" /\ \A v \in Worker \ {w} : pc'[v] = pc[v]
        /\ job'[w] = NoHost /\ \A v \in Worker \ {w} : job'[v] = job[v]
    BY <1>5, <2>1 DEF Report, Goto
  <2>3. \A g : Same(g) /\ (Queued(g)' <=> Queued(g)) /\ Fed' = Fed
    BY <1>0, <2>2 DEF Queued, Fed
  <2>4. job[w] # NoHost /\ Over(job[w])
    BY <2>2 DEF HostInv, Stands, TypeInv, WorkersHoldJobs
  <2>5. ASSUME NEW v \in Worker, job'[v] # NoHost PROVE Stands(v, job[v])'
    <3>0. PICK g : g = job[v]
      OBVIOUS
    <3>1. v # w /\ job'[v] = g /\ g # NoHost
      BY <2>2, <2>5, <3>0
    <3>2. Stands(v, g)
      BY <3>0, <3>1 DEF HostInv
    <3>3. Stands(v, g)'
      BY <2>2, <2>3, <3>1, <3>2, SameStands
    <3> QED
      BY <3>1, <3>3 DEF Stands
  <2>6. ASSUME NEW g \in Wanted
        PROVE  (Trying(g, 0) => Trying(g, 0)') /\ (Over(g) => Over(g)')
    BY <2>2, <2>3, SameKeeps
  <2>7. \A g \in Wanted : Queued(g)' \/ g \notin Fed' => Trying(g, 0)'
    BY <2>3, <2>6 DEF HostInv
  <2>8. ASSUME NEW g \in Wanted, g \in Fed', ~Queued(g)', \A v \in Worker : job'[v] # g
        PROVE  Over(g)'
    <3>1. \A v \in Worker : job[v] = g => v = w
      BY <2>2, <2>8
    <3>2. Over(g)
      BY <2>3, <2>4, <2>8, <3>1 DEF HostInv
    <3> QED
      BY <2>6, <3>2
  <2> QED
    BY <2>5, <2>7, <2>8 DEF HostInv
<1>6. ASSUME NEW w \in Worker, Exit(w) PROVE HostInv'
  <2>1. /\ UNCHANGED <<ctx, next, jobs, job, pair, out, netVars>>
        /\ job[w] = NoHost /\ \A v \in Worker \ {w} : pc'[v] = pc[v]
    BY <1>6 DEF Exit, Goto, runVars, TypeInv, TypeOK, WorkersHoldJobs
  <2> QED
    BY <1>0, <2>1, HostIdle
<1> QED
  BY <1>1, <1>2, <1>3, <1>4, <1>5, <1>6, HostProbe DEF Next, Run, Work

-----------------------------------------------------------------------------
(* What is recorded and returned.                                          *)

\* Each device is a host that let us in, once.
OutInv ==
  /\ \A i \in DOMAIN out :
       \E p \in DOMAIN Passwords :
         <<out[i].ip, out[i].user, Passwords[p]>> \in Accepted
  /\ Hosts(out) \subseteq granted
  /\ \A i, j \in DOMAIN out : out[i].ip = out[j].ip => i = j

\* A worker ends when nothing is fed anymore and the channel is empty.
PhaseInv ==
  /\ main = "start" => /\ jobs = <<>> /\ next = 1 /\ result = {}
                       /\ \A w \in Worker : pc[w] = "idle"
  /\ \A w \in Worker :
       pc[w] = "exit" => main \in {"wait", "returned"} /\ jobs = <<>>
  /\ main \in {"feed", "wait"} => Targets # <<>>
  /\ NoStragglers

\* Only Record touches the devices, only LoggedIn the hosts let in.
LEMMA OutSteps ==
  [Next]_vars => \/ UNCHANGED <<out, granted>>
                 \/ \E w \in Worker : LoggedIn(w) \/ Record(w)
<1> USE DEF workVars, netVars
<1>1. Run => UNCHANGED <<out, granted>>
  BY DEF Run, Start, FeedSkip, FeedJob, CloseJobs, Return
<1>2. ASSUME NEW w \in Worker, Work(w)
      PROVE  LoggedIn(w) \/ Record(w) \/ UNCHANGED <<out, granted>>
  BY <1>2 DEF Work, TakeJob, Exit, Probe, TCPCheck, NextPair, DialFails, Dialled,
              Collect, CloseClient, Report
<1>3. Cancel \/ Finished \/ UNCHANGED vars => UNCHANGED <<out, granted>>
  BY DEF Cancel, Finished, vars
<1> QED
  BY <1>1, <1>2, <1>3 DEF Next

\* The host being recorded let us in and is not among the devices yet.
LEMMA RecordsLogin ==
  ASSUME TypeInv, HostInv, NEW w \in Worker, Record(w)
  PROVE  /\ job[w] \in granted /\ job[w] \notin Hosts(out)
         /\ \E p \in DOMAIN Passwords :
              <<job[w], UserOf(pair[w]), Passwords[p]>> \in Accepted
<1>1. /\ pc[w] = "record" /\ job[w] # NoHost
      /\ pair[w] \in Nat /\ pair[w] < NumPairs
  <2>1. pc[w] = "record" /\ pair[w] \in 0 .. NumPairs
    BY DEF Record, TypeInv, TypeOK
  <2>2. job[w] # NoHost /\ pair[w] < NumPairs
    BY <2>1 DEF TypeInv, WorkersHoldJobs, PairsThere
  <2> QED
    BY <2>1, <2>2
<1>2. Stands(w, job[w])
  BY <1>1 DEF HostInv
<1>3. /\ LetIn(job[w], 0)
      /\ <<job[w], UserOf(pair[w]), PasswordOf(pair[w])>> \in Accepted
  BY <1>1, <1>2 DEF Stands
<1>4. PICK p \in DOMAIN Passwords : PasswordOf(pair[w]) = Passwords[p]
  BY <1>1, PairGiven
<1> QED
  BY <1>3, <1>4 DEF LetIn

LEMMA OutInit == Init => OutInv
BY DEF Init, OutInv, Hosts

LEMMA OutStep == TypeInv /\ HostInv /\ OutInv /\ [Next]_vars => OutInv'
<1> SUFFICES ASSUME TypeInv, HostInv, OutInv, [Next]_vars PROVE OutInv'
  OBVIOUS
<1>1. CASE UNCHANGED <<out, granted>>
  BY <1>1 DEF OutInv, Hosts
<1>2. ASSUME NEW w \in Worker, LoggedIn(w) PROVE OutInv'
  <2>1. out' = out /\ granted \subseteq granted'
    BY <1>2 DEF LoggedIn
  <2> QED
    BY <2>1 DEF OutInv, Hosts
<1>3. ASSUME NEW w \in Worker, Record(w) PROVE OutInv'
  <2> DEFINE d == [ip |-> job[w], user |-> UserOf(pair[w])]
  <2>1. /\ d.ip \in granted /\ d.ip \notin Hosts(out)
        /\ \E p \in DOMAIN Passwords : <<d.ip, d.user, Passwords[p]>> \in Accepted
    BY <1>3, RecordsLogin
  <2>2. /\ Hosts(out') = Hosts(out) \cup {d.ip} /\ granted' = granted
        /\ \A i \in DOMAIN out' :
             \/ i \in DOMAIN out /\ out'[i] = out[i]
             \/ i = Len(out) + 1 /\ out'[i] = d
    BY <1>3, RecordedHosts DEF Record, netVars
  <2>3. \A i \in DOMAIN out : out[i].ip \in Hosts(out)
    BY DEF Hosts
  <2> HIDE DEF d
  <2>4. \A i \in DOMAIN out' :
          \E p \in DOMAIN Passwords :
            <<out'[i].ip, out'[i].user, Passwords[p]>> \in Accepted
    BY <2>1, <2>2 DEF OutInv
  <2>5. ASSUME NEW i \in DOMAIN out', NEW j \in DOMAIN out', out'[i].ip = out'[j].ip
        PROVE  i = j
    BY <2>1, <2>2, <2>3, <2>5 DEF OutInv
  <2>6. Hosts(out)' \subseteq granted'
    BY <2>1, <2>2 DEF OutInv, Hosts
  <2> QED
    BY <2>4, <2>5, <2>6 DEF OutInv
<1> QED
  BY <1>1, <1>2, <1>3, OutSteps

\* Once nothing is on its way, the devices are the hosts that let us in.
LEMMA AllRecorded ==
  ASSUME TypeInv, HostInv, jobs = <<>>, \A w \in Worker : pc[w] \in {"idle", "exit"}
  PROVE  Hosts(out) = granted /\ \A h \in Wanted : clients[h] = 0
<1>1. \A h : ~Queued(h) /\ \A w \in Worker : job[w] # h \/ h = NoHost
  BY DEF Queued, TypeInv, WorkersHoldJobs
<1>2. \A h \in Wanted : clients[h] = 0 /\ (h \in granted <=> h \in Hosts(out))
  BY <1>1, WantedAddr DEF HostInv, Trying, Over
<1>3. Hosts(out) \subseteq Wanted /\ granted \subseteq Wanted
  BY OutHosts DEF TypeInv, TypeOK
<1> QED
  BY <1>2, <1>3

LEMMA PhaseInit == Init => PhaseInv
BY DEF Init, PhaseInv, NoStragglers

\* With a target there is a worker.
LEMMA SomeWorker == Targets # <<>> => 1 \in Worker
BY LenTargets, TargetsAssumption, CredentialsAssumption
   DEF Worker, NumWorkers, MaxSSHWorkers

LEMMA PhaseStep ==
  TypeInv /\ TypeInv' /\ HostInv /\ HostInv' /\ PhaseInv /\ [Next]_vars => PhaseInv'
<1> SUFFICES ASSUME TypeInv, TypeInv', HostInv, HostInv', PhaseInv, [Next]_vars
             PROVE  PhaseInv'
  OBVIOUS
<1> USE DEF runVars, workVars, netVars
<1>1. CASE Start
  <2>1. /\ main = "start" /\ jobs = <<>> /\ next = 1 /\ result = {}
        /\ \A w \in Worker : pc[w] = "idle"
    BY <1>1 DEF Start, PhaseInv
  <2>2. Fed = {} /\ \A h \in Wanted : clients[h] = 0 /\ h \notin granted
    BY <2>1 DEF Fed, HostInv, Trying
  <2>3. granted = {}
    BY <2>2 DEF TypeInv, TypeOK
  <2>4. /\ main' \in {"returned", "feed"}
        /\ main' = "feed" => Targets # <<>>
        /\ UNCHANGED <<jobs, pc, result, clients, granted>>
    BY <1>1 DEF Start
  <2> QED
    BY <2>1, <2>2, <2>3, <2>4 DEF PhaseInv, NoStragglers
<1>2. CASE FeedSkip \/ FeedJob
  BY <1>2 DEF FeedSkip, FeedJob, PhaseInv, NoStragglers
<1>3. CASE CloseJobs
  BY <1>3 DEF CloseJobs, PhaseInv, NoStragglers
<1>4. CASE Return
  <2>1. /\ main = "wait" /\ main' = "returned" /\ result' = Hosts(out)
        /\ \A w \in Worker : pc[w] = "exit"
        /\ UNCHANGED <<jobs, pc, clients, granted>>
    BY <1>4 DEF Return
  <2>2. jobs = <<>>
    BY <2>1, SomeWorker DEF PhaseInv
  <2>3. Hosts(out) = granted /\ \A h \in Wanted : clients[h] = 0
    BY <2>1, <2>2, AllRecorded
  <2> QED
    BY <2>1, <2>2, <2>3 DEF PhaseInv, NoStragglers
<1>5. ASSUME NEW w \in Worker, TakeJob(w) PROVE PhaseInv'
  BY <1>5 DEF TakeJob, PhaseInv, NoStragglers, Goto, TypeInv, TypeOK
<1>6. ASSUME NEW w \in Worker, Exit(w) PROVE PhaseInv'
  BY <1>6 DEF Exit, PhaseInv, NoStragglers, Goto, TypeInv, TypeOK
<1>7. ASSUME NEW w \in Worker, Work(w), ~TakeJob(w), ~Exit(w) PROVE PhaseInv'
  <2>1. /\ pc[w] \notin {"idle", "exit"} /\ pc'[w] # "exit"
        /\ \A v \in Worker \ {w} : pc'[v] = pc[v]
        /\ UNCHANGED <<main, next, jobs, result>>
    BY <1>7 DEF Work, Probe, TCPCheck, NextPair, DialFails, LoggedIn, Collect,
                CloseClient, Record, Report, Goto, TypeInv, TypeOK
  <2> QED
    BY <2>1 DEF PhaseInv, NoStragglers
<1>8. CASE Cancel \/ Finished \/ UNCHANGED vars
  BY <1>8 DEF Cancel, Finished, vars, PhaseInv, NoStragglers
<1> QED
  BY <1>1, <1>2, <1>3, <1>4, <1>5, <1>6, <1>7, <1>8 DEF Next, Run

-----------------------------------------------------------------------------
(* The theorems.                                                           *)

Inv == TypeInv /\ QueueInv /\ HostInv /\ OutInv /\ PhaseInv

LEMMA InvAlways == Spec => []Inv
<1>1. Init => Inv
  BY TypeInit, QueueInit, HostInit, OutInit, PhaseInit DEF Inv
<1>2. Inv /\ [Next]_vars => Inv'
  BY TypeStep, QueueStep, HostStep, OutStep, PhaseStep DEF Inv
<1> QED
  BY <1>1, <1>2, PTL DEF Spec

\* Run: "Only a successful login is returned": each device is a host that let
\* us in under that user, and no host is there twice.
THEOREM LoginsReturned == Spec => []LoginsOnly
<1>1. Inv => LoginsOnly
  <2> SUFFICES ASSUME Inv PROVE LoginsOnly
    OBVIOUS
  <2>1. \A i \in DOMAIN out : out[i].ip \in granted
    BY DEF Inv, OutInv, Hosts
  <2> QED
    BY <2>1 DEF Inv, OutInv, LoginsOnly
<1> QED
  BY InvAlways, <1>1, PTL

\* When Run returns, every worker is over, every connection closed, and every
\* host that let us in is among the devices.
THEOREM NothingLeftBehind == Spec => []NoStragglers
<1>1. Inv => NoStragglers
  BY DEF Inv, PhaseInv
<1> QED
  BY InvAlways, <1>1, PTL

\* probeOne: no host gets more logins than there are pairs, nor two connections
\* at a time, nor, unless the scan is cancelled, only some of the pairs.
THEOREM TriesAreBounded == Spec => []TriesBounded
<1>1. Inv => TriesBounded
  <2> SUFFICES ASSUME Inv, NEW h \in Wanted
               PROVE  /\ tries[h] <= NumPairs
                      /\ clients[h] <= 1
                      /\ (Served(h) /\ ~ctx /\ h \notin granted)
                           => tries[h] \in {0, NumPairs}
    BY DEF TriesBounded
  <2>0. NumPairs \in Nat /\ h # NoHost /\ tries[h] \in Nat
    BY NumPairsNat, WantedAddr DEF Inv, TypeInv, TypeOK
  <2>1. CASE Queued(h) \/ h \notin Fed
    BY <2>0, <2>1 DEF Inv, HostInv, Trying
  <2>2. CASE \E w \in Worker : job[w] = h
    <3>1. PICK w \in Worker : job[w] = h
      BY <2>2
    <3>2. /\ pair[w] \in 0 .. NumPairs /\ Stands(w, h)
          /\ pc[w] \in {"probe", "tcp", "pair", "dial", "collect", "close",
                        "record", "report"}
      BY <2>0, <3>1 DEF Inv, HostInv, TypeInv, TypeOK, WorkersHoldJobs
    <3>3. tries[h] <= NumPairs /\ clients[h] <= 1
      BY <2>0, <3>2 DEF Stands, Trying, LetIn, Over
    <3>4. Served(h) => Over(h)
      BY <3>1, <3>2 DEF Served, Stands
    <3> QED
      BY <3>3, <3>4 DEF Over
  <2>3. CASE h \in Fed /\ ~Queued(h) /\ \A w \in Worker : job[w] # h
    BY <2>0, <2>3 DEF Inv, HostInv, Over
  <2> QED
    BY <2>1, <2>2, <2>3
<1> QED
  BY InvAlways, <1>1, PTL

LEMMA ContractInit == Init => Contract!Init
BY DEF Init, Hosts, Contract!Init

LEMMA ContractStep ==
  TypeInv /\ HostInv /\ PhaseInv /\ [Next]_vars => [Contract!Next]_(Contract!vars)
<1> SUFFICES ASSUME TypeInv, HostInv, PhaseInv, [Next]_vars
             PROVE  [Contract!Next]_(Contract!vars)
  OBVIOUS
<1> USE DEF Contract!vars, Contract!Next
<1> DEFINE phase == IF main = "returned" THEN main ELSE "running"
<1>1. CASE Start
  <2>1. main = "start" /\ jobs = <<>> /\ result = {}
        /\ \A w \in Worker : pc[w] = "idle"
    BY <1>1 DEF Start, PhaseInv
  <2>2. Fed = {} /\ \A h \in Wanted : h \notin Hosts(out)
    BY <1>1, <2>1 DEF Start, PhaseInv, Fed, HostInv, Trying
  <2>3. Hosts(out) = {}
    BY <2>2, OutHosts DEF TypeInv
  <2>4. UNCHANGED <<out, granted, result>> /\ main' \in {"returned", "feed"}
    BY <1>1 DEF Start, netVars
  <2>5. Hosts(out)' = Hosts(out)
    BY <2>4 DEF Hosts
  <2>6. CASE main' = "returned"
    BY <2>1, <2>3, <2>4, <2>5, <2>6 DEF Contract!Return
  <2>7. CASE main' = "feed"
    BY <2>1, <2>4, <2>5, <2>7
  <2> QED
    BY <2>4, <2>6, <2>7
<1>2. CASE Return
  <2>1. /\ main = "wait" /\ main' = "returned" /\ result' = Hosts(out)
        /\ UNCHANGED <<out, granted>>
    BY <1>2 DEF Return, netVars
  <2>2. Hosts(out)' = Hosts(out)
    BY <2>1 DEF Hosts
  <2> QED
    BY <2>1, <2>2 DEF Contract!Return
<1>3. ASSUME NEW w \in Worker, LoggedIn(w) PROVE [Contract!Next]_(Contract!vars)
  <2>1. job[w] \in IPv4
    BY <1>3, WantedAddr DEF LoggedIn, TypeInv, TypeOK, WorkersHoldJobs
  <2>2. granted' = granted \cup {job[w]} /\ UNCHANGED <<main, out, result>>
    BY <1>3 DEF LoggedIn, runVars
  <2>3. Hosts(out)' = Hosts(out)
    BY <2>2 DEF Hosts
  <2> QED
    BY <2>1, <2>2, <2>3 DEF Contract!Answer
<1>4. ASSUME NEW w \in Worker, Record(w) PROVE [Contract!Next]_(Contract!vars)
  <2>1. /\ job[w] \in IPv4 /\ pc[w] = "record"
    BY <1>4, WantedAddr DEF Record, TypeInv, TypeOK, WorkersHoldJobs
  <2>2. job[w] \in granted
    BY <1>4, RecordsLogin
  <2>3. Hosts(out)' = Hosts(out) \cup {job[w]}
    BY <1>4, RecordedHosts DEF Hosts
  <2>4. UNCHANGED <<main, granted, result>> /\ main # "returned"
    BY <1>4, <2>1 DEF Record, runVars, netVars, PhaseInv, NoStragglers
  <2> QED
    BY <2>1, <2>2, <2>3, <2>4 DEF Contract!Record
<1>5. CASE UNCHANGED <<out, granted, result>> /\ phase' = phase
  <2>1. Hosts(out)' = Hosts(out)
    BY <1>5 DEF Hosts
  <2> QED
    BY <1>5, <2>1
<1>6. \/ Start \/ Return \/ \E w \in Worker : LoggedIn(w) \/ Record(w)
      \/ UNCHANGED <<out, granted, result>> /\ phase' = phase
  <2> USE DEF runVars, workVars, netVars
  <2>1. Run => Start \/ Return \/ (UNCHANGED <<out, granted, result>> /\ phase' = phase)
    BY DEF Run, FeedSkip, FeedJob, CloseJobs
  <2>2. (\E w \in Worker : Work(w)) => UNCHANGED <<main, result>>
    BY DEF Work, TakeJob, Exit, Probe, TCPCheck, NextPair, DialFails, LoggedIn,
           Collect, CloseClient, Record, Report
  <2>3. Cancel \/ Finished \/ UNCHANGED vars
          => UNCHANGED <<out, granted, result>> /\ phase' = phase
    BY DEF Cancel, Finished, vars
  <2> QED
    BY <2>1, <2>2, <2>3, OutSteps DEF Next
<1> QED
  BY <1>1, <1>2, <1>3, <1>4, <1>5, <1>6

\* The safety half of ImplementsStage: every step of the SSH stage is a step
\* of the contract of a discovery method, or none.
THEOREM ImplementsSafeStage == Spec => Contract!SafeSpec
<1>1. Inv /\ [Next]_vars => [Contract!Next]_(Contract!vars)
  BY ContractStep DEF Inv
<1> QED
  BY InvAlways, ContractInit, <1>1, PTL DEF Spec, Contract!SafeSpec

=============================================================================
