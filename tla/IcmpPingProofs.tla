---------------------------- MODULE IcmpPingProofs ----------------------------
(***************************************************************************)
(* What IcmpPing guarantees for any addresses, targets, workers, attempts  *)
(* and socket buffer.                                                      *)
(***************************************************************************)
EXTENDS IcmpPing, FiniteSetTheorems, TLAPS

\* A worker holds an address exactly while it pings.
WorkersHoldJobs ==
  \A w \in Worker : job[w] = NoHost <=> pc[w] \in {"idle", "exit"}

\* A packet on its way to Demux that is no foreign one was an answer.
PacketsCounted ==
  \A p \in sock \cup packet : p.id # "foreign" => p.from \in answered

TypeInv == TypeOK /\ WorkersHoldJobs

LEMMA WantedAddr == Wanted \subseteq Addr /\ Wanted \subseteq IPv4 /\ NoHost \notin Wanted
BY AddrAssumption DEF Wanted

LEMMA LenTargets == /\ Len(Targets) \in Nat
                    /\ DOMAIN Targets = 1 .. Len(Targets)
BY TargetsAssumption

LEMMA TargetWanted ==
  ASSUME NEW i \in 1 .. Len(Targets), Targets[i] \in IPv4
  PROVE  Targets[i] \in Wanted
BY LenTargets DEF Wanted

\* The initial state is typed.
LEMMA TypeInit == Init => TypeInv
<1> SUFFICES ASSUME Init PROVE TypeInv
  OBVIOUS
<1> USE DEF Init
<1>1. next \in 1 .. Len(Targets) + 1 /\ jobs \in Seq(Wanted)
  BY LenTargets
<1>2. TypeOK
  BY <1>1 DEF TypeOK
<1>3. WorkersHoldJobs
  BY DEF WorkersHoldJobs
<1>4. QED
  BY <1>2, <1>3 DEF TypeInv

USE WantedAddr

\* Every step of the goroutine that called Run keeps the types.
LEMMA TypeRun == TypeInv /\ Run => TypeInv'
<1> SUFFICES ASSUME TypeInv, Run PROVE TypeInv'
  OBVIOUS
<1> USE DEF TypeInv, TypeOK, WorkersHoldJobs, workVars, readVars, trackVars,
            netVars, echo, runVars
<1>1. CASE ListenFails
  BY <1>1 DEF ListenFails
<1>2. CASE Listen
  BY <1>2 DEF Listen
<1>3. CASE FeedSkip
  BY <1>3, LenTargets DEF FeedSkip
<1>4. CASE FeedJob
  BY <1>4, LenTargets, TargetWanted DEF FeedJob
<1>5. CASE CloseJobs
  BY <1>5 DEF CloseJobs
<1>6. CASE StopReader
  BY <1>6 DEF StopReader
<1>7. CASE CloseConn
  BY <1>7 DEF CloseConn
<1>8. CASE Return
  BY <1>8 DEF Return
<1>9. QED
  BY <1>1, <1>2, <1>3, <1>4, <1>5, <1>6, <1>7, <1>8 DEF Run

\* So does every step of a worker: it has a job whenever it needs one.
LEMMA TypeWork == ASSUME NEW w \in Worker
                  PROVE  TypeInv /\ Work(w) => TypeInv'
<1> SUFFICES ASSUME TypeInv, Work(w) PROVE TypeInv'
  OBVIOUS
<1> USE DEF TypeInv, TypeOK, WorkersHoldJobs, workVars, readVars, trackVars,
            netVars, echo, runVars, Goto
<1>1. CASE TakeJob(w)
  BY <1>1 DEF TakeJob
<1>2. CASE Exit(w)
  BY <1>2 DEF Exit
<1>3. CASE Waiter(w)
  BY <1>3 DEF Waiter
<1>4. CASE Check(w)
  BY <1>4 DEF Check
<1>5. CASE Send(w)
  <2> USE <1>5 DEF Send
  <2>1. job[w] \in Wanted /\ late[job[w]] \in Nat /\ sent[job[w]] \in Nat
    OBVIOUS
  <2>2. sent' \in [Wanted -> Nat] /\ late' \in [Wanted -> Nat]
    BY <2>1
  <2>3. pc' \in [Worker -> {"idle", "waiter", "check", "send", "wait",
                            "report", "exit"}]
    OBVIOUS
  <2>4. WorkersHoldJobs'
    OBVIOUS
  <2>5. QED
    BY <2>2, <2>3, <2>4
<1>6. CASE Wakeup(w)
  BY <1>6 DEF Wakeup
<1>7. CASE Timeout(w)
  BY <1>7 DEF Timeout
<1>8. CASE Report(w)
  BY <1>8 DEF Report
<1>9. QED
  BY <1>1, <1>2, <1>3, <1>4, <1>5, <1>6, <1>7, <1>8 DEF Work

\* And every step of the reader.
LEMMA TypeRead == TypeInv /\ ReadReplies => TypeInv'
<1> SUFFICES ASSUME TypeInv, ReadReplies PROVE TypeInv'
  OBVIOUS
<1> USE DEF TypeInv, TypeOK, WorkersHoldJobs, workVars, readVars, trackVars,
            netVars, echo, runVars
<1>1. CASE ReaderTop
  BY <1>1 DEF ReaderTop
<1>2. CASE ReadPacket
  BY <1>2 DEF ReadPacket
<1>3. CASE ReadTimeout
  BY <1>3 DEF ReadTimeout
<1>4. CASE ReadFails
  BY <1>4 DEF ReadFails
<1>5. CASE Demux
  BY <1>5 DEF Demux, GotReply
<1>6. QED
  BY <1>1, <1>2, <1>3, <1>4, <1>5 DEF ReadReplies

LEMMA TypeStep == TypeInv /\ [Next]_vars => TypeInv'
<1> SUFFICES ASSUME TypeInv, [Next]_vars PROVE TypeInv'
  OBVIOUS
<1> USE DEF workVars, readVars, trackVars, netVars, echo, runVars
<1>1. CASE Run
  BY <1>1, TypeRun
<1>2. CASE \E w \in Worker : Work(w)
  BY <1>2, TypeWork
<1>3. CASE ReadReplies
  BY <1>3, TypeRead
<1>4. CASE \E p \in Packet : Arrive(p)
  BY <1>4 DEF Arrive, Packet, TypeInv, TypeOK, WorkersHoldJobs
<1>5. CASE Cancel
  BY <1>5 DEF Cancel, TypeInv, TypeOK, WorkersHoldJobs
<1>6. CASE Finished \/ UNCHANGED vars
  BY <1>6 DEF Finished, vars, TypeInv, TypeOK, WorkersHoldJobs
<1>7. QED
  BY <1>1, <1>2, <1>3, <1>4, <1>5, <1>6 DEF Next

\* Type correctness: every variable keeps its type in every sweep.
THEOREM TypeCorrect == Spec => []TypeOK
<1>1. TypeInv => TypeOK
  BY DEF TypeInv
<1>2. QED
  BY TypeInit, TypeStep, <1>1, PTL DEF Spec

-----------------------------------------------------------------------------
(* The tracker.                                                            *)

\* Only Waiter and Demux touch the tracker.
LEMMA TrackerSteps ==
  [Next]_vars => \/ UNCHANGED trackVars
                 \/ \E w \in Worker : Waiter(w)
                 \/ Demux
<1> USE DEF runVars, workVars, readVars, trackVars, netVars, echo
<1>1. Run => UNCHANGED trackVars
  BY DEF Run, ListenFails, Listen, FeedSkip, FeedJob, CloseJobs, StopReader,
         CloseConn, Return
<1>2. ASSUME NEW w \in Worker, Work(w)
      PROVE  Waiter(w) \/ UNCHANGED trackVars
  BY <1>2 DEF Work, TakeJob, Exit, Check, Send, Wakeup, Timeout, Report
<1>3. ReadReplies => Demux \/ UNCHANGED trackVars
  BY DEF ReadReplies, ReaderTop, ReadPacket, ReadTimeout, ReadFails
<1>4. Cancel \/ Finished \/ (\E p \in Packet : Arrive(p)) \/ UNCHANGED vars
        => UNCHANGED trackVars
  BY DEF Cancel, Finished, Arrive, vars
<1>5. QED
  BY <1>1, <1>2, <1>3, <1>4 DEF Next

LEMMA WakeupStep ==
  TypeInv /\ TypeInv' /\ NoLostWakeup /\ [Next]_vars => NoLostWakeup'
<1> SUFFICES ASSUME TypeInv, TypeInv', NoLostWakeup, [Next]_vars
             PROVE  NoLostWakeup'
  OBVIOUS
<1> USE DEF NoLostWakeup, TypeInv, TypeOK
<1>1. CASE UNCHANGED trackVars
  BY <1>1 DEF trackVars
<1>2. ASSUME NEW w \in Worker, Waiter(w) PROVE NoLostWakeup'
  BY <1>2 DEF Waiter
<1>3. CASE Demux
  <2>1. PICK p \in packet : IF p.from \in Wanted /\ IsOurEchoReply(p)
                              THEN GotReply(p.from)
                              ELSE UNCHANGED <<live, closes>>
    BY <1>3 DEF Demux
  <2>2. waiting' = waiting
    BY <1>3 DEF Demux
  <2>3. CASE UNCHANGED <<live, closes>>
    BY <2>2, <2>3
  <2>4. CASE p.from \in Wanted /\ GotReply(p.from)
    <3> DEFINE g == p.from
    <3> HIDE DEF g
    <3>1. /\ g \in Wanted
          /\ live' = live \cup {g}
          /\ closes' = IF g \in waiting /\ closes[g] = 0
                         THEN [closes EXCEPT ![g] = @ + 1]
                         ELSE closes
      BY <2>4 DEF GotReply, g
    <3>2. closes'[g] = IF g \in waiting THEN 1 ELSE 0
      BY <3>1
    <3>3. \A h \in Wanted \ {g} : closes'[h] = closes[h]
      BY <3>1
    <3>4. QED
      BY <2>2, <3>1, <3>2, <3>3
  <2>5. QED
    BY <2>1, <2>3, <2>4
<1>4. QED
  BY <1>1, <1>2, <1>3, TrackerSteps

\* tracker: whatever the order of waiter and gotReply, of retries, duplicate
\* replies and the end of the sweep, a channel is closed exactly when its
\* host is live, and once.
THEOREM WakeupSafe == Spec => []NoLostWakeup
<1>1. Init => NoLostWakeup
  BY DEF Init, NoLostWakeup
<1>2. QED
  BY TypeInit, TypeStep, <1>1, WakeupStep, PTL DEF Spec

-----------------------------------------------------------------------------
(* What makes a host live.                                                 *)

LiveInv == LiveHostsAnswered /\ PacketsCounted

LEMMA LiveStep == TypeInv /\ LiveInv /\ [Next]_vars => LiveInv'
<1> SUFFICES ASSUME TypeInv, LiveInv, [Next]_vars PROVE LiveInv'
  OBVIOUS
<1> USE DEF TypeInv, TypeOK, LiveInv, LiveHostsAnswered, PacketsCounted,
            runVars, workVars, readVars, trackVars, netVars, echo
<1>1. CASE Run
  BY <1>1 DEF Run, ListenFails, Listen, FeedSkip, FeedJob, CloseJobs,
              StopReader, CloseConn, Return
<1>2. CASE \E w \in Worker : Work(w)
  BY <1>2 DEF Work, TakeJob, Exit, Waiter, Check, Send, Wakeup, Timeout, Report
<1>3. CASE ReadReplies
  <2>1. CASE Demux
    <3>1. PICK p \in packet : IF p.from \in Wanted /\ IsOurEchoReply(p)
                                THEN GotReply(p.from)
                                ELSE UNCHANGED <<live, closes>>
      BY <2>1 DEF Demux
    <3>2. packet' = {} /\ sock' = sock /\ answered' = answered
      BY <2>1 DEF Demux
    <3>3. IsOurEchoReply(p) => p.from \in answered
      BY DEF IsOurEchoReply
    <3>4. QED
      BY <3>1, <3>2, <3>3 DEF GotReply
  <2>2. CASE ReadPacket
    BY <2>2 DEF ReadPacket
  <2>3. CASE ReaderTop \/ ReadTimeout \/ ReadFails
    BY <2>3 DEF ReaderTop, ReadTimeout, ReadFails
  <2>4. QED
    BY <1>3, <2>1, <2>2, <2>3 DEF ReadReplies
<1>4. CASE \E p \in Packet : Arrive(p)
  <2>1. PICK p \in Packet : Arrive(p)
    BY <1>4
  <2>2. /\ sock' = sock \cup {p}
        /\ packet' = packet
        /\ live' = live
        /\ answered \subseteq answered'
        /\ p.id # "foreign" => p.from \in answered'
    BY <2>1 DEF Arrive
  <2>3. QED
    BY <2>2
<1>5. CASE Cancel \/ Finished \/ UNCHANGED vars
  BY <1>5 DEF Cancel, Finished, vars
<1>6. QED
  BY <1>1, <1>2, <1>3, <1>4, <1>5 DEF Next

LEMMA LiveInit == Init => LiveInv
BY DEF Init, LiveInv, LiveHostsAnswered, PacketsCounted

\* readReplies: a host enters the result only if it is a target and an echo
\* reply for this process came from its address.
THEOREM LiveSound == Spec => []LiveHostsAnswered
<1>1. LiveInv => LiveHostsAnswered
  BY DEF LiveInv
<1>2. QED
  BY TypeInit, TypeStep, LiveInit, LiveStep, <1>1, PTL DEF Spec

-----------------------------------------------------------------------------
(* The end of Run.                                                         *)

AllExited == \A w \in Worker : pc[w] = "exit"

\* How far each goroutine can be when main is where it is.
PhaseInv ==
  /\ main \in {"start", "failed"} => reader = "none" /\ jobs = <<>>
  /\ main \in {"feed", "wait", "close", "join"} => reader # "none" /\ Wanted # {}
  /\ main \in {"close", "join"} => AllExited
  /\ main = "returned" =>
       \/ reader = "none" /\ jobs = <<>>
       \/ reader \in {"done", "failed"} /\ AllExited /\ jobs = <<>>
  /\ (\E w \in Worker : pc[w] = "exit") =>
       main \notin {"start", "feed"} /\ jobs = <<>>
  /\ AllExited /\ Wanted # {} => jobs = <<>>

LEMMA HasWorker == Wanted # {} => 1 \in Worker
<1> SUFFICES ASSUME Wanted # {} PROVE 1 \in Worker
  OBVIOUS
<1>1. Len(Targets) \in Nat /\ Len(Targets) >= 1
  BY LenTargets DEF Wanted
<1>2. NumWorkers \in Nat /\ NumWorkers >= 1
  BY <1>1, ReqAssumption DEF NumWorkers
<1>3. QED
  BY <1>2 DEF Worker

LEMMA PhaseInit == Init => PhaseInv
<1> SUFFICES ASSUME Init PROVE PhaseInv
  OBVIOUS
<1>1. \A w \in Worker : pc[w] # "exit"
  BY DEF Init
<1>2. QED
  BY <1>1 DEF Init, PhaseInv, AllExited

LEMMA PhaseStep == TypeInv /\ PhaseInv /\ [Next]_vars => PhaseInv'
<1> SUFFICES ASSUME TypeInv, PhaseInv, [Next]_vars PROVE PhaseInv'
  OBVIOUS
<1> USE HasWorker DEF TypeInv, TypeOK, PhaseInv, AllExited, runVars, workVars,
        readVars, trackVars, netVars, echo
<1>1. CASE Run
  <2>1. CASE ListenFails \/ Listen
    BY <2>1 DEF ListenFails, Listen
  <2>2. CASE FeedSkip \/ FeedJob \/ CloseJobs
    BY <2>2 DEF FeedSkip, FeedJob, CloseJobs
  <2>3. CASE StopReader \/ CloseConn \/ Return
    BY <2>3 DEF StopReader, CloseConn, Return
  <2>4. QED
    BY <1>1, <2>1, <2>2, <2>3 DEF Run
<1>2. ASSUME NEW w \in Worker, Work(w) PROVE PhaseInv'
  <2> USE DEF Goto
  <2>1. CASE TakeJob(w)
    BY <2>1 DEF TakeJob
  <2>2. CASE Exit(w)
    BY <2>2 DEF Exit
  <2>3. CASE Waiter(w) \/ Check(w) \/ Send(w) \/ Wakeup(w) \/ Timeout(w) \/ Report(w)
    <3>1. /\ pc[w] # "exit"
          /\ \E l \in {"idle", "check", "send", "wait", "report"} :
               pc' = [pc EXCEPT ![w] = l]
          /\ UNCHANGED <<main, jobs, reader>>
      BY <2>3 DEF Waiter, Check, Send, Wakeup, Timeout, Report
    <3>2. QED
      BY <3>1
  <2>4. QED
    BY <1>2, <2>1, <2>2, <2>3 DEF Work
<1>3. CASE ReadReplies
  <2>1. /\ reader \in {"top", "read", "got"}
        /\ reader' \in {"top", "read", "got", "done", "failed"}
        /\ UNCHANGED <<main, jobs, pc>>
    BY <1>3 DEF ReadReplies, ReaderTop, ReadPacket, ReadTimeout, ReadFails, Demux
  <2>2. QED
    BY <2>1
<1>4. CASE Cancel \/ Finished \/ (\E p \in Packet : Arrive(p)) \/ UNCHANGED vars
  BY <1>4 DEF Cancel, Finished, Arrive, vars
<1>5. QED
  BY <1>1, <1>2, <1>3, <1>4 DEF Next

\* Run: the socket outlives every write, and nothing Run started survives it.
THEOREM StragglerFree == Spec => []NoStragglers
<1>1. PhaseInv => NoStragglers
  BY HasWorker DEF PhaseInv, NoStragglers, AllExited
<1>2. QED
  BY TypeInit, TypeStep, PhaseInit, PhaseStep, <1>1, PTL DEF Spec

-----------------------------------------------------------------------------
(* IcmpPing implements Stage.                                              *)

LEMMA ContractInit == Init => Contract!Init
BY DEF Init, Contract!Init, Finishes

LEMMA ContractStep ==
  TypeInv /\ LiveInv /\ PhaseInv /\ [Next]_vars
    => [Contract!Next]_(Contract!vars)
<1> SUFFICES ASSUME TypeInv, LiveInv, PhaseInv, [Next]_vars
             PROVE  [Contract!Next]_(Contract!vars)
  OBVIOUS
<1> USE DEF TypeInv, TypeOK, Finishes, Contract!vars, runVars, workVars,
            readVars, trackVars, netVars, echo
<1>1. CASE Run
  <2>1. CASE ListenFails
    BY <2>1 DEF ListenFails, Contract!Next, Contract!Fail
  <2>2. CASE Listen
    <3>1. CASE Wanted = {}
      BY <2>2, <3>1 DEF Listen, Contract!Next, Contract!Return
    <3>2. CASE Wanted # {}
      BY <2>2, <3>2 DEF Listen
    <3>3. QED
      BY <3>1, <3>2
  <2>3. CASE Return
    BY <2>3 DEF Return, Contract!Next, Contract!Return
  <2>4. CASE FeedSkip \/ FeedJob \/ CloseJobs \/ StopReader \/ CloseConn
    BY <2>4 DEF FeedSkip, FeedJob, CloseJobs, StopReader, CloseConn
  <2>5. QED
    BY <1>1, <2>1, <2>2, <2>3, <2>4 DEF Run
<1>2. CASE \E w \in Worker : Work(w)
  BY <1>2 DEF Work, TakeJob, Exit, Waiter, Check, Send, Wakeup, Timeout, Report
<1>3. CASE Demux
  <2>1. PICK p \in packet : IF p.from \in Wanted /\ IsOurEchoReply(p)
                              THEN GotReply(p.from)
                              ELSE UNCHANGED <<live, closes>>
    BY <1>3 DEF Demux
  <2>2. UNCHANGED <<main, answered, result>> /\ reader = "got"
    BY <1>3 DEF Demux
  <2>3. ~Finishes
    BY <2>2 DEF PhaseInv
  <2>4. IsOurEchoReply(p) => p.from \in answered
    BY DEF IsOurEchoReply, LiveInv, PacketsCounted
  <2>5. CASE p.from \in Wanted /\ IsOurEchoReply(p)
    <3>1. Contract!Record(p.from)
      BY <2>1, <2>2, <2>3, <2>4, <2>5 DEF Contract!Record, GotReply
    <3>2. QED
      BY <2>5, <3>1 DEF Contract!Next
  <2>6. CASE UNCHANGED live
    BY <2>2, <2>6
  <2>7. QED
    BY <2>1, <2>5, <2>6
<1>4. CASE ReadReplies /\ ~Demux
  BY <1>4 DEF ReadReplies, ReaderTop, ReadPacket, ReadTimeout, ReadFails
<1>5. CASE \E p \in Packet : Arrive(p)
  <2>1. PICK p \in Packet : Arrive(p)
    BY <1>5
  <2>2. CASE p.id # "foreign"
    <3>1. Contract!Answer(p.from) /\ p.from \in IPv4
      BY <2>1, <2>2 DEF Arrive, Contract!Answer, Packet
    <3>2. QED
      BY <3>1 DEF Contract!Next
  <2>3. CASE p.id = "foreign"
    BY <2>1, <2>3 DEF Arrive
  <2>4. QED
    BY <2>2, <2>3
<1>6. CASE Cancel \/ Finished \/ UNCHANGED vars
  BY <1>6 DEF Cancel, Finished, vars
<1>7. QED
  BY <1>1, <1>2, <1>3, <1>4, <1>5, <1>6 DEF Next

\* Every step of the sweep is a step of the contract of a discovery method,
\* or none.
THEOREM KeepsContract == Spec => ImplementsStage
BY TypeInit, TypeStep, LiveInit, LiveStep, PhaseInit, PhaseStep, ContractInit,
   ContractStep, PTL DEF Spec, ImplementsStage, Contract!SafeSpec

-----------------------------------------------------------------------------
(* Where the addresses are: every target is pinged by one worker, once.    *)

Fed == {Targets[i] : i \in 1 .. next - 1}

\* An address is in the channel once, or with one worker, or neither.
QueueInv ==
  /\ \A i \in DOMAIN jobs : jobs[i] \in Fed
  /\ \A i, j \in DOMAIN jobs : jobs[i] = jobs[j] => i = j
  /\ \A w \in Worker : job[w] # NoHost =>
       /\ job[w] \in Fed
       /\ \A i \in DOMAIN jobs : jobs[i] # job[w]
       /\ \A v \in Worker : job[v] = job[w] => v = w

LEMMA QueueInit == Init => QueueInv
BY DEF Init, QueueInv, Fed

\* The addresses move only when one is fed, taken or done with.
LEMMA QueueSteps ==
  [Next]_vars => \/ UNCHANGED <<next, jobs, job>>
                 \/ FeedSkip \/ FeedJob
                 \/ \E w \in Worker : TakeJob(w) \/ Report(w)
<1> USE DEF runVars, workVars, readVars, trackVars, netVars, echo
<1>1. Run => FeedSkip \/ FeedJob \/ UNCHANGED <<next, jobs, job>>
  BY DEF Run, ListenFails, Listen, CloseJobs, StopReader, CloseConn, Return
<1>2. ASSUME NEW w \in Worker, Work(w)
      PROVE  TakeJob(w) \/ Report(w) \/ UNCHANGED <<next, jobs, job>>
  BY <1>2 DEF Work, Exit, Waiter, Check, Send, Wakeup, Timeout
<1>3. ReadReplies => UNCHANGED <<next, jobs, job>>
  BY DEF ReadReplies, ReaderTop, ReadPacket, ReadTimeout, ReadFails, Demux
<1>4. Cancel \/ Finished \/ (\E p \in Packet : Arrive(p)) \/ UNCHANGED vars
        => UNCHANGED <<next, jobs, job>>
  BY DEF Cancel, Finished, Arrive, vars
<1>5. QED
  BY <1>1, <1>2, <1>3, <1>4 DEF Next

\* The address to be fed next is new: no target occurs twice.
LEMMA NextIsNew ==
  ASSUME next \in 1 .. Len(Targets) PROVE Targets[next] \notin Fed
BY LenTargets, TargetsAssumption DEF Fed

LEMMA QueueStep == TypeInv /\ QueueInv /\ [Next]_vars => QueueInv'
<1> SUFFICES ASSUME TypeInv, QueueInv, [Next]_vars PROVE QueueInv'
  OBVIOUS
<1>0. /\ jobs \in Seq(Wanted) /\ next \in 1 .. Len(Targets) + 1
      /\ job \in [Worker -> Wanted \cup {NoHost}]
  BY DEF TypeInv, TypeOK
<1>1. CASE UNCHANGED <<next, jobs, job>>
  BY <1>1 DEF QueueInv, Fed
<1>2. CASE FeedSkip
  <2>1. Fed \subseteq Fed' /\ UNCHANGED <<jobs, job>>
    BY <1>0, <1>2, LenTargets DEF FeedSkip, Fed, workVars
  <2>2. QED
    BY <2>1 DEF QueueInv
<1>3. CASE FeedJob
  <2> DEFINE h == Targets[next]
  <2>1. next \in 1 .. Len(Targets) /\ next' = next + 1
    BY <1>0, <1>3, LenTargets DEF FeedJob
  <2>2. Fed \subseteq Fed' /\ h \in Fed' /\ h \notin Fed
    BY <2>1, NextIsNew DEF Fed
  <2>3. job' = job /\ jobs' = Append(jobs, h) /\ h \in Wanted
    BY <1>3, <2>1, TargetWanted DEF FeedJob, workVars
  <2> HIDE DEF h
  <2>4. /\ DOMAIN jobs' = 1 .. Len(jobs) + 1
        /\ DOMAIN jobs = 1 .. Len(jobs)
        /\ Len(jobs) \in Nat
        /\ jobs'[Len(jobs) + 1] = h
        /\ \A i \in 1 .. Len(jobs) : jobs'[i] = jobs[i]
    BY <1>0, <2>3
  <2>5. \A i \in DOMAIN jobs' :
          \/ i \in DOMAIN jobs /\ jobs'[i] = jobs[i]
          \/ i = Len(jobs) + 1 /\ jobs'[i] = h
    BY <2>4
  <2>6. QED
    BY <2>2, <2>3, <2>5 DEF QueueInv
<1>4. ASSUME NEW w \in Worker, TakeJob(w) PROVE QueueInv'
  <2>1. /\ jobs # <<>> /\ jobs' = Tail(jobs) /\ next' = next
        /\ job' = [job EXCEPT ![w] = Head(jobs)] /\ job[w] = NoHost
    BY <1>4 DEF TakeJob, TypeInv, WorkersHoldJobs
  <2>2. /\ Head(jobs) = jobs[1] /\ 1 \in DOMAIN jobs
        /\ \A i \in DOMAIN jobs' :
             i + 1 \in DOMAIN jobs /\ jobs'[i] = jobs[i + 1] /\ i + 1 # 1 /\ i \in Int
    BY <1>0, <2>1
  <2>3. job'[w] = jobs[1] /\ \A v \in Worker \ {w} : job'[v] = job[v]
    BY <1>0, <2>1, <2>2
  <2>4. Fed' = Fed
    BY <2>1 DEF Fed
  <2>5. \A i \in DOMAIN jobs' : jobs'[i] \in Fed'
    BY <2>2, <2>4 DEF QueueInv
  <2>6. \A i, j \in DOMAIN jobs' : jobs'[i] = jobs'[j] => i = j
    BY <2>2 DEF QueueInv
  <2>7. ASSUME NEW v \in Worker, job'[v] # NoHost
        PROVE  /\ job'[v] \in Fed'
               /\ \A i \in DOMAIN jobs' : jobs'[i] # job'[v]
               /\ \A u \in Worker : job'[u] = job'[v] => u = v
    BY <2>2, <2>3, <2>4, <2>7 DEF QueueInv
  <2>8. QED
    BY <2>5, <2>6, <2>7 DEF QueueInv
<1>5. ASSUME NEW w \in Worker, Report(w) PROVE QueueInv'
  <2>1. jobs' = jobs /\ next' = next /\ job' = [job EXCEPT ![w] = NoHost]
    BY <1>5 DEF Report
  <2>2. Fed' = Fed
    BY <2>1 DEF Fed
  <2>3. QED
    BY <1>0, <2>1, <2>2 DEF QueueInv
<1>6. QED
  BY <1>1, <1>2, <1>3, <1>4, <1>5, QueueSteps

-----------------------------------------------------------------------------
(* Echo requests.                                                          *)

\* A worker about to send has just seen that the host is not live.
LateInv ==
  /\ OneLateEcho
  /\ \A h \in Wanted \ live : late[h] = 0
  /\ \A w \in Worker : pc[w] = "send" => late[job[w]] = 0

LEMMA LateStep == TypeInv /\ QueueInv /\ LateInv /\ [Next]_vars => LateInv'
<1> SUFFICES ASSUME TypeInv, QueueInv, LateInv, [Next]_vars PROVE LateInv'
  OBVIOUS
<1> USE DEF TypeInv, TypeOK, WorkersHoldJobs, LateInv, OneLateEcho, runVars,
            workVars, readVars, trackVars, netVars, echo
<1>1. CASE Run
  BY <1>1 DEF Run, ListenFails, Listen, FeedSkip, FeedJob, CloseJobs,
              StopReader, CloseConn, Return
<1>2. ASSUME NEW w \in Worker, Work(w) PROVE LateInv'
  <2> USE DEF Goto
  <2>1. CASE Send(w)
    <3>1. job[w] \in Wanted /\ pc[w] = "send" /\ late[job[w]] = 0
      BY <2>1 DEF Send
    <3>2. \A h \in Wanted \ {job[w]} : late'[h] = late[h]
      BY <2>1, <3>1 DEF Send
    <3>3. late'[job[w]] = IF job[w] \in live THEN 1 ELSE 0
      BY <2>1, <3>1 DEF Send
    <3>4. live' = live /\ job' = job /\ pc' = [pc EXCEPT ![w] = "wait"]
      BY <2>1 DEF Send
    <3>5. ASSUME NEW v \in Worker, pc'[v] = "send" PROVE late'[job'[v]] = 0
      <4>1. v # w /\ pc[v] = "send" /\ job[v] \in Wanted
        BY <3>4, <3>5
      <4>2. job[v] # job[w]
        BY <4>1, <3>1 DEF QueueInv
      <4>3. QED
        BY <4>1, <4>2, <3>2, <3>4
    <3>6. ASSUME NEW h \in Wanted
          PROVE  late'[h] <= 1 /\ (h \notin live' => late'[h] = 0)
      BY <3>2, <3>3, <3>4
    <3>7. QED
      BY ONLY <3>5, <3>6 DEF LateInv, OneLateEcho
  <2>2. CASE Check(w)
    BY <2>2 DEF Check
  <2>3. CASE TakeJob(w) \/ Report(w)
    <3>1. /\ UNCHANGED <<live, late>>
          /\ \A v \in Worker : pc'[v] = "send" => pc[v] = "send" /\ job'[v] = job[v]
      BY <2>3 DEF TakeJob, Report
    <3>2. QED
      BY <3>1
  <2>4. CASE Exit(w) \/ Waiter(w) \/ Wakeup(w) \/ Timeout(w)
    BY <2>4 DEF Exit, Waiter, Wakeup, Timeout
  <2>5. QED
    BY <1>2, <2>1, <2>2, <2>3, <2>4 DEF Work
<1>3. CASE ReadReplies
  <2>1. UNCHANGED <<late, pc, job>> /\ live \subseteq live'
    BY <1>3 DEF ReadReplies, ReaderTop, ReadPacket, ReadTimeout, ReadFails,
                Demux, GotReply
  <2>2. QED
    BY <2>1
<1>4. CASE Cancel \/ Finished \/ (\E p \in Packet : Arrive(p)) \/ UNCHANGED vars
  BY <1>4 DEF Cancel, Finished, Arrive, vars
<1>5. QED
  BY <1>1, <1>2, <1>3, <1>4 DEF Next

\* pingOne: a host that answered is sent one more echo at most, although
\* looking at the tracker and sending are two steps.
THEOREM LateEchoBound == Spec => []OneLateEcho
<1>1. Init => LateInv
  BY DEF Init, LateInv, OneLateEcho
<1>2. LateInv => OneLateEcho
  BY DEF LateInv
<1>3. QED
  BY TypeInit, TypeStep, QueueInit, QueueStep, LateStep, <1>1, <1>2, PTL DEF Spec

\* Nothing is left to do for h.
Settled(h) == ctx \/ h \in live \/ sent[h] = Attempts

\* What worker w has sent to the host it pings, from where it stands.
PingInv(w) ==
  /\ pc[w] = "waiter" => sent[job[w]] = 0
  /\ pc[w] = "check" => sent[job[w]] = attempt[w] /\ attempt[w] <= Attempts
  /\ pc[w] = "send" => sent[job[w]] = attempt[w] /\ attempt[w] < Attempts
  /\ pc[w] = "wait" => sent[job[w]] = attempt[w] + 1 /\ attempt[w] < Attempts
  /\ pc[w] \in {"check", "send", "wait"} /\ woken[w] => job[w] \in live
  /\ pc[w] = "report" => Settled(job[w])

EchoInv ==
  /\ \A w \in Worker : PingInv(w)
  /\ \A i \in DOMAIN jobs : sent[jobs[i]] = 0
  /\ \A h \in Wanted : h \notin Fed => sent[h] = 0
  /\ \A h \in Wanted : sent[h] <= Attempts /\ (Served(h) => Settled(h))

LEMMA AttemptsNat == Attempts \in Nat /\ Attempts >= 1
BY ReqAssumption DEF Attempts

LEMMA ServedIsFed == ASSUME NEW h PROVE Served(h) => h \in Fed
BY DEF Served, Fed

LEMMA EchoInit == Init => EchoInv
<1> SUFFICES ASSUME Init PROVE EchoInv
  OBVIOUS
<1>1. Fed = {}
  BY DEF Init, Fed
<1>2. \A h : ~Served(h)
  BY <1>1, ServedIsFed
<1>3. QED
  BY <1>1, <1>2, AttemptsNat DEF Init, EchoInv, PingInv

\* A step that sends nothing, moves no address and moves no worker.
LEMMA EchoIdle ==
  ASSUME TypeInv, EchoInv, ctx => ctx', live \subseteq live',
         UNCHANGED <<sent, next, jobs, job, pc, attempt, woken>>
  PROVE  EchoInv'
<1>1. \A h \in Wanted : Settled(h) => Settled(h)'
  BY DEF Settled
<1>2. \A w \in Worker : pc[w] = "report" => job[w] \in Wanted
  BY DEF TypeInv, TypeOK, WorkersHoldJobs
<1>3. \A w \in Worker : PingInv(w)'
  BY <1>1, <1>2 DEF EchoInv, PingInv
<1>4. \A h : Served(h)' => Served(h)
  BY DEF Served
<1>5. Fed' = Fed
  BY DEF Fed
<1>6. QED
  BY <1>1, <1>3, <1>4, <1>5 DEF EchoInv

\* A step of worker w that keeps its job and sends nothing.
LEMMA EchoMove ==
  ASSUME TypeInv, QueueInv, EchoInv, NEW w \in Worker,
         UNCHANGED <<ctx, live, sent, next, jobs, job>>,
         job[w] # NoHost, PingInv(w)', pc[w] # "report",
         \A v \in Worker \ {w} :
           pc'[v] = pc[v] /\ attempt'[v] = attempt[v] /\ woken'[v] = woken[v]
  PROVE  EchoInv'
<1> USE DEF EchoInv
<1>1. \A v \in Worker : PingInv(v)'
  BY DEF PingInv, Settled
<1>2. ASSUME NEW h \in Wanted, Served(h)' PROVE Settled(h)'
  <2>1. CASE job[w] = h
    BY <1>2, <2>1, <1>1 DEF PingInv, Served
  <2>2. CASE job[w] # h
    <3>1. Served(h)
      BY <1>2, <2>2 DEF Served
    <3>2. QED
      BY <3>1 DEF Settled
  <2>3. QED
    BY <2>1, <2>2
<1>3. Fed' = Fed
  BY DEF Fed
<1>4. QED
  BY <1>1, <1>2, <1>3

\* What is left of a sequence without its head.
LEMMA TailFacts ==
  ASSUME NEW S, NEW s \in Seq(S), s # <<>>
  PROVE  /\ 1 \in DOMAIN s
         /\ \A i \in DOMAIN Tail(s) : i + 1 \in DOMAIN s /\ Tail(s)[i] = s[i + 1]
         /\ \A i \in DOMAIN s : i \in Int /\ (i = 1 \/ i - 1 \in DOMAIN Tail(s))
<1>1. /\ Len(s) \in Nat /\ Len(s) >= 1 /\ DOMAIN s = 1 .. Len(s)
      /\ DOMAIN Tail(s) = 1 .. Len(s) - 1
      /\ \A i \in 1 .. Len(s) - 1 : Tail(s)[i] = s[i + 1]
  OBVIOUS
<1>2. QED
  BY <1>1

\* The steps of worker w, one by one.
LEMMA EchoWork ==
  ASSUME TypeInv, TypeInv', QueueInv, NoLostWakeup, EchoInv,
         NEW w \in Worker, Work(w)
  PROVE  EchoInv'
<1> USE AttemptsNat DEF TypeInv, TypeOK, WorkersHoldJobs, EchoInv, runVars,
        workVars, readVars, trackVars, netVars, echo, Goto
<1>1. CASE TakeJob(w)
  <2>1. /\ jobs # <<>> /\ jobs' = Tail(jobs) /\ pc[w] = "idle"
        /\ job' = [job EXCEPT ![w] = jobs[1]]
        /\ pc' = [pc EXCEPT ![w] = "waiter"]
        /\ UNCHANGED <<ctx, next, live, sent, attempt, woken>>
    BY <1>1 DEF TakeJob
  <2>2. /\ 1 \in DOMAIN jobs
        /\ \A i \in DOMAIN jobs' : i + 1 \in DOMAIN jobs /\ jobs'[i] = jobs[i + 1]
        /\ \A i \in DOMAIN jobs :
             i \in Int /\ (i = 1 \/ i - 1 \in DOMAIN jobs')
    BY <2>1, TailFacts
  <2>3. \A v \in Worker : PingInv(v)'
    BY <2>1, <2>2 DEF PingInv, Settled
  <2>4. Fed' = Fed
    BY <2>1 DEF Fed
  <2>5. \A h : Served(h)' => Served(h)
    <3> SUFFICES ASSUME NEW h, Served(h)' PROVE Served(h)
      OBVIOUS
    <3>1. job'[w] = jobs[1] /\ pc'[w] = "waiter"
      BY <2>1
    <3>2. h # jobs[1]
      BY <3>1 DEF Served
    <3>3. \A i \in DOMAIN jobs : jobs[i] # h
      <4> TAKE i \in DOMAIN jobs
      <4>1. CASE i = 1
        BY <3>2, <4>1
      <4>2. CASE i # 1
        <5>1. i - 1 \in DOMAIN jobs' /\ i - 1 + 1 = i
          BY <2>2, <4>2
        <5>2. jobs'[i - 1] = jobs[i]
          BY <5>1, <2>2
        <5>3. QED
          BY <5>1, <5>2 DEF Served
      <4>3. QED
        BY <4>1, <4>2
    <3>4. \A v \in Worker : job[v] = h => pc[v] = "report"
      <4> SUFFICES ASSUME NEW v \in Worker, job[v] = h PROVE pc[v] = "report"
        OBVIOUS
      <4>1. CASE v = w
        <5>1. h = NoHost
          BY <2>1, <4>1
        <5>2. PICK i \in 1 .. next - 1 : Targets[i] = h
          BY <2>1 DEF Served
        <5>3. Targets[i] \in Addr
          BY <5>2, LenTargets, TargetsAssumption
        <5>4. QED
          BY <5>1, <5>2, <5>3, AddrAssumption
      <4>2. CASE v # w
        BY <2>1, <4>2 DEF Served
      <4>3. QED
        BY <4>1, <4>2
    <3>5. QED
      BY <2>1, <3>3, <3>4 DEF Served
  <2>6. QED
    BY <2>1, <2>2, <2>3, <2>4, <2>5 DEF Settled
<1>2. CASE Exit(w)
  <2>1. /\ UNCHANGED <<ctx, next, jobs, job, live, sent, attempt, woken>>
        /\ pc[w] = "idle" /\ pc' = [pc EXCEPT ![w] = "exit"]
    BY <1>2 DEF Exit
  <2>2. \A h \in Wanted : Served(h)' => Served(h)
    BY <2>1 DEF Served
  <2>3. \A v \in Worker : PingInv(v)'
    BY <2>1 DEF PingInv, Settled
  <2>4. QED
    BY <2>1, <2>2, <2>3 DEF Settled, Fed
<1>3. CASE Waiter(w)
  <2>1. PingInv(w)'
    BY <1>3 DEF Waiter, PingInv
  <2>2. QED
    BY <1>3, <2>1, EchoMove DEF Waiter
<1>4. CASE Check(w)
  <2>1. PingInv(w)'
    BY <1>4 DEF Check, PingInv, Settled
  <2>2. QED
    BY <1>4, <2>1, EchoMove DEF Check
<1>5. CASE Send(w)
  <2>1. /\ pc[w] = "send" /\ job[w] \in Wanted /\ job[w] # NoHost
        /\ sent' = [sent EXCEPT ![job[w]] = @ + 1]
        /\ pc' = [pc EXCEPT ![w] = "wait"]
        /\ UNCHANGED <<ctx, next, jobs, job, live, attempt, woken>>
    BY <1>5 DEF Send
  <2>2. /\ sent'[job[w]] = attempt[w] + 1 /\ attempt[w] < Attempts
        /\ \A h \in Wanted \ {job[w]} : sent'[h] = sent[h]
    BY <2>1 DEF PingInv
  <2>3. job[w] \in Fed /\ Fed' = Fed
    BY <2>1 DEF QueueInv, Fed
  <2>4. \A i \in DOMAIN jobs : jobs[i] # job[w] /\ jobs[i] \in Wanted
    BY <2>1 DEF QueueInv
  <2>5. PingInv(w)'
    BY <2>1, <2>2 DEF PingInv
  <2>6. ASSUME NEW v \in Worker, v # w PROVE PingInv(v)'
    <3>1. job[v] = NoHost \/ (job[v] \in Wanted /\ job[v] # job[w])
      BY <2>1, <2>6 DEF QueueInv
    <3>2. pc'[v] = pc[v] /\ (job[v] # NoHost => sent'[job[v]] = sent[job[v]])
      BY <2>1, <2>2, <2>6, <3>1
    <3>3. QED
      BY <2>1, <3>1, <3>2 DEF PingInv, Settled
  <2>7. ASSUME NEW h \in Wanted, Served(h)' PROVE h # job[w] /\ Served(h)
    BY <2>1, <2>7 DEF Served
  <2>8. \A h \in Wanted : Served(h)' => Settled(h)'
    BY <2>1, <2>2, <2>7 DEF Settled
  <2>9. ASSUME NEW h \in Wanted PROVE sent'[h] <= Attempts
    BY <2>1, <2>2
  <2>10. QED
    BY <2>1, <2>2, <2>3, <2>4, <2>5, <2>6, <2>8, <2>9
<1>6. CASE Wakeup(w)
  <2>1. job[w] \in Wanted /\ pc[w] = "wait"
    BY <1>6 DEF Wakeup
  <2>2. ctx \/ job[w] \in live
    BY <1>6, <2>1 DEF Wakeup, ChannelClosed, PingInv, NoLostWakeup
  <2>3. PingInv(w)'
    BY <1>6, <2>2 DEF Wakeup, PingInv, Settled
  <2>4. QED
    BY <1>6, <2>1, <2>3, EchoMove DEF Wakeup
<1>7. CASE Timeout(w)
  <2>1. PingInv(w)'
    BY <1>7 DEF Timeout, PingInv
  <2>2. QED
    BY <1>7, <2>1, EchoMove DEF Timeout
<1>8. CASE Report(w)
  <2>1. /\ UNCHANGED <<ctx, next, jobs, live, sent, attempt, woken>>
        /\ pc[w] = "report" /\ pc' = [pc EXCEPT ![w] = "idle"]
        /\ job' = [job EXCEPT ![w] = NoHost]
    BY <1>8 DEF Report
  <2>2. \A v \in Worker : PingInv(v)'
    BY <2>1 DEF PingInv, Settled
  <2>3. ASSUME NEW h \in Wanted, Served(h)' PROVE Served(h)
    BY <2>1, <2>3 DEF Served
  <2>4. QED
    BY <2>1, <2>2, <2>3 DEF Settled, Fed
<1>9. QED
  BY <1>1, <1>2, <1>3, <1>4, <1>5, <1>6, <1>7, <1>8 DEF Work

\* Feeding an address that has had no echo yet.
LEMMA EchoFeed ==
  ASSUME TypeInv, QueueInv, EchoInv, FeedSkip \/ FeedJob
  PROVE  EchoInv'
<1>1. /\ UNCHANGED <<ctx, live, sent, job, pc, attempt, woken>>
      /\ next \in 1 .. Len(Targets) /\ next' = next + 1
      /\ \/ Targets[next] \notin IPv4 /\ jobs' = jobs
         \/ Targets[next] \in IPv4 /\ jobs' = Append(jobs, Targets[next])
  BY LenTargets DEF FeedSkip, FeedJob, workVars, trackVars, echo, TypeInv, TypeOK
<1>2. Fed' = Fed \cup {Targets[next]} /\ Targets[next] \notin Fed
  BY <1>1, NextIsNew DEF Fed
<1>3. \A w \in Worker : PingInv(w)'
  BY <1>1 DEF EchoInv, PingInv, Settled
<1>4. /\ \A i \in DOMAIN jobs : i \in DOMAIN jobs' /\ jobs'[i] = jobs[i]
      /\ \A i \in DOMAIN jobs' :
           \/ i \in DOMAIN jobs /\ jobs'[i] = jobs[i]
           \/ jobs'[i] = Targets[next] /\ Targets[next] \in Wanted
      /\ Targets[next] \in IPv4 => \E i \in DOMAIN jobs' : jobs'[i] = Targets[next]
  <2>1. CASE Targets[next] \notin IPv4 /\ jobs' = jobs
    BY <2>1
  <2>2. CASE Targets[next] \in IPv4 /\ jobs' = Append(jobs, Targets[next])
    <3>1. /\ DOMAIN jobs = 1 .. Len(jobs) /\ Len(jobs) \in Nat
          /\ DOMAIN jobs' = 1 .. Len(jobs) + 1
          /\ \A i \in 1 .. Len(jobs) : jobs'[i] = jobs[i]
          /\ jobs'[Len(jobs) + 1] = Targets[next]
      BY <1>1, <2>2, TargetWanted DEF TypeInv, TypeOK
    <3>2. /\ Len(jobs) + 1 \in DOMAIN jobs'
          /\ \A i \in DOMAIN jobs' : i \in DOMAIN jobs \/ i = Len(jobs) + 1
          /\ \A i \in DOMAIN jobs : i \in DOMAIN jobs'
      BY <3>1
    <3>3. Targets[next] \in Wanted
      BY <1>1, <2>2, TargetWanted
    <3>4. QED
      BY <3>1, <3>2, <3>3
  <2>3. QED
    BY <1>1, <2>1, <2>2
<1>5. ASSUME NEW h \in Wanted, Served(h)' PROVE Served(h)
  <2>1. h # Targets[next]
    BY <1>4, <1>5 DEF Served
  <2>2. h \in Fed
    BY <1>2, <1>5, <2>1, ServedIsFed DEF Served, Fed
  <2>3. QED
    BY <1>1, <1>4, <1>5, <2>2 DEF Served, Fed
<1>6. \A i \in DOMAIN jobs' : sent'[jobs'[i]] = 0
  BY <1>1, <1>2, <1>4 DEF EchoInv
<1>7. QED
  BY <1>1, <1>2, <1>3, <1>5, <1>6 DEF EchoInv, Settled

LEMMA EchoStep ==
  TypeInv /\ TypeInv' /\ QueueInv /\ NoLostWakeup /\ EchoInv /\ [Next]_vars
    => EchoInv'
<1> SUFFICES ASSUME TypeInv, TypeInv', QueueInv, NoLostWakeup, EchoInv, [Next]_vars
             PROVE  EchoInv'
  OBVIOUS
<1> USE DEF runVars, workVars, readVars, trackVars, netVars, echo
<1>1. CASE FeedSkip \/ FeedJob
  BY <1>1, EchoFeed
<1>2. CASE Run /\ ~(FeedSkip \/ FeedJob)
  BY <1>2, EchoIdle DEF Run, ListenFails, Listen, CloseJobs, StopReader,
                        CloseConn, Return
<1>3. CASE \E w \in Worker : Work(w)
  BY <1>3, EchoWork
<1>4. CASE ReadReplies
  <2>1. /\ UNCHANGED <<ctx, sent, next, jobs, job, pc, attempt, woken>>
        /\ live \subseteq live'
    BY <1>4 DEF ReadReplies, ReaderTop, ReadPacket, ReadTimeout, ReadFails,
                Demux, GotReply
  <2>2. QED
    BY <2>1, EchoIdle
<1>5. CASE Cancel \/ Finished \/ (\E p \in Packet : Arrive(p)) \/ UNCHANGED vars
  BY <1>5, EchoIdle DEF Cancel, Finished, Arrive, vars
<1>6. QED
  BY <1>1, <1>2, <1>3, <1>4, <1>5 DEF Next

\* pingOne: never more than Attempts echoes, and all of them for a host that
\* stays silent in a sweep that is not cancelled.
THEOREM EchoBudgetKept == Spec => []EchoBudget
<1>1. Init => NoLostWakeup
  BY DEF Init, NoLostWakeup
<1>2. EchoInv => EchoBudget
  BY DEF EchoInv, EchoBudget, Settled
<1>3. QED
  BY TypeInit, TypeStep, QueueInit, QueueStep, WakeupStep, EchoInit, EchoStep,
     <1>1, <1>2, PTL DEF Spec

-----------------------------------------------------------------------------
(* Progress.                                                               *)

\* Past the feeding loop every target was fed, or the sweep is cancelled.
CountInv ==
  /\ done + Len(jobs) + Cardinality(Busy) = next - 1
  /\ main \in {"wait", "close", "join"} => ctx \/ next = Len(Targets) + 1
  /\ main = "returned" /\ Wanted # {} =>
       /\ AllExited /\ jobs = <<>>
       /\ ctx \/ next = Len(Targets) + 1

LEMMA BusyFinite == IsFiniteSet(Busy) /\ Cardinality(Busy) \in Nat
<1>1. NumWorkers \in Int
  BY ReqAssumption, LenTargets DEF NumWorkers
<1>2. IsFiniteSet(Worker)
  BY <1>1, FS_Interval DEF Worker
<1>3. IsFiniteSet(Busy)
  BY <1>2, FS_Subset DEF Busy
<1>4. QED
  BY <1>3, FS_CardinalityType

LEMMA CountInit == Init => CountInv
<1> SUFFICES ASSUME Init PROVE CountInv
  OBVIOUS
<1>1. Busy = {}
  BY DEF Init, Busy
<1>2. Cardinality(Busy) = 0
  BY <1>1, FS_EmptySet
<1>3. QED
  BY <1>2 DEF Init, CountInv

\* One worker takes up a job, or puts it down.
LEMMA BusyTake ==
  ASSUME NEW w \in Worker, w \notin Busy, Busy' = Busy \cup {w}
  PROVE  Cardinality(Busy') = Cardinality(Busy) + 1
BY BusyFinite, FS_AddElement

LEMMA BusyPut ==
  ASSUME NEW w \in Worker, w \in Busy, Busy' = Busy \ {w}
  PROVE  Cardinality(Busy') = Cardinality(Busy) - 1
BY BusyFinite, FS_RemoveElement

LEMMA CountStep ==
  TypeInv /\ TypeInv' /\ PhaseInv /\ CountInv /\ [Next]_vars => CountInv'
<1> SUFFICES ASSUME TypeInv, TypeInv', PhaseInv, CountInv, [Next]_vars
             PROVE  CountInv'
  OBVIOUS
<1>0. /\ jobs \in Seq(Wanted) /\ Len(jobs) \in Nat /\ done \in Nat
      /\ next \in 1 .. Len(Targets) + 1 /\ Len(Targets) \in Nat
      /\ pc \in [Worker -> {"idle", "waiter", "check", "send", "wait",
                            "report", "exit"}]
  BY LenTargets DEF TypeInv, TypeOK
<1> USE BusyFinite, <1>0 DEF CountInv, runVars, workVars, readVars, trackVars,
        netVars, echo
<1>1. CASE Run
  <2>1. CASE Return
    BY <1>1, <2>1 DEF Return, PhaseInv, AllExited, Busy
  <2>2. CASE FeedSkip
    BY <2>2 DEF FeedSkip, Busy
  <2>3. CASE FeedJob
    <3>1. Len(jobs') = Len(jobs) + 1 /\ Busy' = Busy
      BY <2>3, TargetWanted DEF FeedJob, Busy
    <3>2. QED
      BY <2>3, <3>1 DEF FeedJob
  <2>4. CASE CloseJobs
    BY <2>4 DEF CloseJobs, Busy
  <2>5. CASE ListenFails \/ Listen \/ StopReader \/ CloseConn
    BY <2>5 DEF ListenFails, Listen, StopReader, CloseConn, Busy
  <2>6. QED
    BY <1>1, <2>1, <2>2, <2>3, <2>4, <2>5 DEF Run
<1>2. ASSUME NEW w \in Worker, Work(w) PROVE CountInv'
  <2> USE DEF Goto
  <2>1. CASE TakeJob(w)
    <3>1. w \notin Busy /\ Busy' = Busy \cup {w}
      BY <2>1 DEF TakeJob, Busy
    <3>2. Len(jobs') = Len(jobs) - 1 /\ UNCHANGED <<ctx, main, next, done>>
      BY <2>1 DEF TakeJob
    <3>3. ~(AllExited /\ jobs = <<>>)
      BY <2>1 DEF TakeJob
    <3>4. Cardinality(Busy)' = Cardinality(Busy) + 1
      BY <3>1, BusyTake
    <3>5. QED
      BY <3>2, <3>3, <3>4
  <2>2. CASE Exit(w)
    BY <2>2 DEF Exit, Busy, AllExited
  <2>3. CASE Report(w)
    <3>1. w \in Busy /\ Busy' = Busy \ {w}
      BY <2>3 DEF Report, Busy
    <3>2. UNCHANGED <<ctx, main, next, jobs>> /\ done' = done + 1 /\ ~AllExited
      BY <2>3 DEF Report, AllExited
    <3>3. Cardinality(Busy)' = Cardinality(Busy) - 1
      BY <3>1, BusyPut
    <3>4. QED
      BY <3>2, <3>3
  <2>4. CASE Waiter(w) \/ Check(w) \/ Send(w) \/ Wakeup(w) \/ Timeout(w)
    <3>1. /\ pc[w] \in {"waiter", "check", "send", "wait"}
          /\ \E l \in {"check", "send", "wait", "report"} : pc' = [pc EXCEPT ![w] = l]
          /\ UNCHANGED <<ctx, main, next, jobs, done>>
      BY <2>4 DEF Waiter, Check, Send, Wakeup, Timeout
    <3>2. Busy' = Busy /\ ~AllExited
      BY <3>1 DEF Busy, AllExited
    <3>3. QED
      BY <3>1, <3>2
  <2>5. QED
    BY <1>2, <2>1, <2>2, <2>3, <2>4 DEF Work
<1>3. CASE ReadReplies
  <2>1. UNCHANGED <<ctx, main, next, jobs, done, pc>>
    BY <1>3 DEF ReadReplies, ReaderTop, ReadPacket, ReadTimeout, ReadFails, Demux
  <2>2. QED
    BY <2>1 DEF Busy, AllExited
<1>4. CASE Cancel \/ Finished \/ (\E p \in Packet : Arrive(p)) \/ UNCHANGED vars
  BY <1>4 DEF Cancel, Finished, Arrive, vars, Busy, AllExited
<1>5. QED
  BY <1>1, <1>2, <1>3, <1>4 DEF Next

\* Progress: no target is counted twice or forgotten, and a sweep that runs
\* to its end has counted them all.
THEOREM ProgressCounts == Spec => []ProgressExact
<1>1. TypeInv /\ CountInv => ProgressExact
  <2> SUFFICES ASSUME TypeInv, CountInv PROVE ProgressExact
    OBVIOUS
  <2>1. CASE main = "returned" /\ ~ctx /\ Wanted # {}
    <3>1. Busy = {} /\ jobs = <<>> /\ next = Len(Targets) + 1
      BY <2>1 DEF CountInv, AllExited, Busy
    <3>2. Cardinality(Busy) = 0 /\ Len(jobs) = 0
      BY <3>1, FS_EmptySet
    <3>3. QED
      BY <3>1, <3>2, LenTargets DEF CountInv, ProgressExact, TypeInv, TypeOK
  <2>2. QED
    BY <2>1 DEF CountInv, ProgressExact
<1>2. QED
  BY TypeInit, TypeStep, PhaseInit, PhaseStep, CountInit, CountStep, <1>1, PTL
     DEF Spec
=============================================================================
