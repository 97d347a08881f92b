------------------------------- MODULE IcmpPing -------------------------------
(***************************************************************************)
(* The ICMP stage, internal/icmpping: one goroutine feeds the targets to a *)
(* pool of workers over a buffered channel, each worker pings one host at  *)
(* a time (pingOne), and a single reader marks the hosts that answered in  *)
(* a mutex-protected tracker and wakes the worker that waits for them.     *)
(*                                                                         *)
(* An action is what one goroutine does between two points where another   *)
(* one can interfere: a channel operation, a critical section of the       *)
(* tracker, a socket call, a look at the context.  Time is abstract: a     *)
(* timer that was armed may fire at any moment.                            *)
(***************************************************************************)
EXTENDS Integers, Sequences, FiniteSets

CONSTANTS Addr,        \* every address that occurs
          IPv4,        \* those for which To4() is not nil
          Targets,     \* req.Targets
          ReqAttempts, \* Method.Attempts
          ReqWorkers,  \* req.Workers
          SockCap,     \* packets the socket holds before it drops (a bound)
          NoHost       \* a worker's job when it has none

ASSUME AddrAssumption == IPv4 \subseteq Addr /\ NoHost \notin Addr

\* LocalNet.Hosts enumerates the subnet: no address occurs twice.
ASSUME TargetsAssumption ==
  /\ Targets \in Seq(Addr)
  /\ \A i, j \in DOMAIN Targets : Targets[i] = Targets[j] => i = j

ASSUME ReqAssumption ==
  /\ ReqAttempts \in Int
  /\ ReqWorkers \in Int
  /\ SockCap \in Nat

Attempts == IF ReqAttempts <= 0 THEN 3 ELSE ReqAttempts

NumWorkers == LET n == IF ReqWorkers <= 0 THEN 64 ELSE ReqWorkers
              IN  IF n > Len(Targets) THEN Len(Targets) ELSE n

Worker == 1 .. NumWorkers

JobsCap == 2 * NumWorkers

Wanted == {Targets[i] : i \in DOMAIN Targets} \cap IPv4

\* An ICMP message as far as the reader looks at it: the peer, and whether
\* its echo identifier is ours, zero (rewritten by the kernel), or that of
\* another program (a message that is no echo reply counts as "foreign").
Packet == [from : IPv4, id : {"ours", "zero", "foreign"}]

VARIABLES
  ctx,      \* the scan context is done (deadline or interrupt)
  main,     \* Run: "start","feed","wait","close","join","returned","failed"
  next,     \* index in Targets of the next address to feed
  jobs,     \* the buffered channel to the workers
  done,     \* the progress counter
  result,   \* addresses of the devices returned
  pc,       \* worker: "idle","waiter","check","send","wait","report","exit"
  job,      \* the address a worker pings
  attempt,  \* its attempts so far
  woken,    \* the worker got a channel that was closed from the start
  reader,   \* "none","top","read","got","done","failed"
  packet,   \* the packet the reader has in hand (a set of at most one)
  live,     \* tracker.live
  waiting,  \* the domain of tracker.wait
  closes,   \* how often the channel tracker.wait[h] was closed
  sock,     \* packets in the receive buffer of the socket
  answered, \* history: hosts that sent us an echo reply
  sent,     \* history: echo requests written for each host
  late      \* history: those of them written when the host was live

runVars == <<main, next, jobs, done, result>>
workVars == <<pc, job, attempt, woken>>
readVars == <<reader, packet>>
trackVars == <<live, waiting, closes>>
netVars == <<sock, answered>>
echo == <<sent, late>>
vars == <<ctx, runVars, workVars, readVars, trackVars, netVars, echo>>

Init ==
  /\ ctx = FALSE
  /\ main = "start"
  /\ next = 1
  /\ jobs = <<>>
  /\ done = 0
  /\ result = {}
  /\ pc = [w \in Worker |-> "idle"]
  /\ job = [w \in Worker |-> NoHost]
  /\ attempt = [w \in Worker |-> 0]
  /\ woken = [w \in Worker |-> FALSE]
  /\ reader = "none"
  /\ packet = {}
  /\ live = {}
  /\ waiting = {}
  /\ closes = [h \in Wanted |-> 0]
  /\ sock = {}
  /\ answered = {}
  /\ sent = [h \in Wanted |-> 0]
  /\ late = [h \in Wanted |-> 0]

\* rctx is cancelled with ctx, or by stopReader on the way out of Run.
ReaderCancelled == ctx \/ main \in {"close", "join", "returned"}

ConnOpen == main \in {"feed", "wait", "close"}

-----------------------------------------------------------------------------
(* The goroutine that called Run.                                          *)

\* Neither a raw nor a datagram ICMP socket can be opened.
ListenFails ==
  /\ main = "start"
  /\ Targets # <<>>
  /\ main' = "failed"
  /\ UNCHANGED <<ctx, next, jobs, done, result, workVars, readVars,
                 trackVars, netVars, echo>>

\* The socket is open; the reader and the workers are started.  Without an
\* IPv4 target Run returns before it starts a goroutine.
Listen ==
  /\ main = "start"
  /\ main' = IF Wanted = {} THEN "returned" ELSE "feed"
  /\ reader' = IF Wanted = {} THEN "none" ELSE "top"
  /\ UNCHANGED <<ctx, next, jobs, done, result, workVars, packet,
                 trackVars, netVars, echo>>

\* Mutant of FeedSkip: skips silently.
FeedSkipUncounted ==
  /\ main = "feed"
  /\ next <= Len(Targets)
  /\ Targets[next] \notin IPv4
  /\ next' = next + 1
  /\ UNCHANGED <<ctx, main, jobs, done, result, workVars, readVars, trackVars,
                 netVars, echo>>

\* An address that is not IPv4 only counts as progress.
FeedSkip ==
  /\ main = "feed"
  /\ next <= Len(Targets)
  /\ Targets[next] \notin IPv4
  /\ next' = next + 1
  /\ done' = done + 1
  /\ UNCHANGED <<ctx, main, jobs, result, workVars, readVars, trackVars,
                 netVars, echo>>

\* jobs <- ip.  The select may choose this also when ctx is done.
FeedJob ==
  /\ main = "feed"
  /\ next <= Len(Targets)
  /\ Targets[next] \in IPv4
  /\ Len(jobs) < JobsCap
  /\ jobs' = Append(jobs, Targets[next])
  /\ next' = next + 1
  /\ UNCHANGED <<ctx, main, done, result, workVars, readVars, trackVars,
                 netVars, echo>>

\* The loop ends, at the last target or by cancellation; jobs is closed.
CloseJobs ==
  /\ main = "feed"
  /\ \/ next > Len(Targets)
     \/ next <= Len(Targets) /\ Targets[next] \in IPv4 /\ ctx
  /\ main' = "wait"
  /\ UNCHANGED <<ctx, next, jobs, done, result, workVars, readVars,
                 trackVars, netVars, echo>>

\* Mutant of StopReader: no wg.Wait().
StopReaderEarly ==
  /\ main = "wait"
  /\ main' = "close"
  /\ UNCHANGED <<ctx, next, jobs, done, result, workVars, readVars,
                 trackVars, netVars, echo>>

\* wg.Wait() returns: every worker has exited.  stopReader().
StopReader ==
  /\ main = "wait"
  /\ \A w \in Worker : pc[w] = "exit"
  /\ main' = "close"
  /\ UNCHANGED <<ctx, next, jobs, done, result, workVars, readVars,
                 trackVars, netVars, echo>>

CloseConn ==
  /\ main = "close"
  /\ main' = "join"
  /\ UNCHANGED <<ctx, next, jobs, done, result, workVars, readVars,
                 trackVars, netVars, echo>>

\* Mutant of Return: no readerDone.Wait().
ReturnEarly ==
  /\ main = "join"
  /\ main' = "returned"
  /\ result' = live
  /\ UNCHANGED <<ctx, next, jobs, done, workVars, readVars, trackVars,
                 netVars, echo>>

\* readerDone.Wait() returns; the live addresses become the devices.
Return ==
  /\ main = "join"
  /\ reader \in {"done", "failed"}
  /\ main' = "returned"
  /\ result' = live
  /\ UNCHANGED <<ctx, next, jobs, done, workVars, readVars, trackVars,
                 netVars, echo>>

Run == \/ ListenFails \/ Listen
       \/ FeedSkip \/ FeedJob \/ CloseJobs
       \/ StopReader \/ CloseConn \/ Return

-----------------------------------------------------------------------------
(* The workers.                                                            *)

Goto(w, label) == pc' = [pc EXCEPT ![w] = label]

TakeJob(w) ==
  /\ pc[w] = "idle"
  /\ jobs # <<>>
  /\ jobs' = Tail(jobs)
  /\ job' = [job EXCEPT ![w] = Head(jobs)]
  /\ Goto(w, "waiter")
  /\ UNCHANGED <<ctx, main, next, done, result, attempt, woken, readVars,
                 trackVars, netVars, echo>>

\* range jobs ends: the channel is closed and drained.
Exit(w) ==
  /\ pc[w] = "idle"
  /\ jobs = <<>>
  /\ main = "wait"
  /\ Goto(w, "exit")
  /\ UNCHANGED <<ctx, runVars, job, attempt, woken, readVars, trackVars,
                 netVars, echo>>

\* Mutant of Waiter: does not look at live.
WaiterBlind(w) ==
  /\ pc[w] = "waiter"
  /\ woken' = [woken EXCEPT ![w] = FALSE]
  /\ waiting' = waiting \cup {job[w]}
  /\ attempt' = [attempt EXCEPT ![w] = 0]
  /\ Goto(w, "check")
  /\ UNCHANGED <<ctx, runVars, job, readVars, live, closes, netVars, echo>>

\* tr.waiter(key): a closed channel if the host is already live, else the
\* registered channel of the host, created on first use.
Waiter(w) ==
  /\ pc[w] = "waiter"
  /\ woken' = [woken EXCEPT ![w] = job[w] \in live]
  /\ waiting' = IF job[w] \in live THEN waiting ELSE waiting \cup {job[w]}
  /\ attempt' = [attempt EXCEPT ![w] = 0]
  /\ Goto(w, "check")
  /\ UNCHANGED <<ctx, runVars, job, readVars, live, closes, netVars, echo>>

\* Mutants of Check: one attempt too many; no look at the tracker.
CheckOffByOne(w) ==
  /\ pc[w] = "check"
  /\ IF attempt[w] > Attempts \/ ctx \/ job[w] \in live
       THEN Goto(w, "report")
       ELSE Goto(w, "send")
  /\ UNCHANGED <<ctx, runVars, job, attempt, woken, readVars, trackVars,
                 netVars, echo>>

CheckNotReplied(w) ==
  /\ pc[w] = "check"
  /\ IF attempt[w] = Attempts \/ ctx
       THEN Goto(w, "report")
       ELSE Goto(w, "send")
  /\ UNCHANGED <<ctx, runVars, job, attempt, woken, readVars, trackVars,
                 netVars, echo>>

\* The head of the retry loop.  ctx and live only ever grow, so looking at
\* both at once loses no behaviour.
Check(w) ==
  /\ pc[w] = "check"
  /\ IF attempt[w] = Attempts \/ ctx \/ job[w] \in live
       THEN Goto(w, "report")
       ELSE Goto(w, "send")
  /\ UNCHANGED <<ctx, runVars, job, attempt, woken, readVars, trackVars,
                 netVars, echo>>

\* WriteTo under writeMu; its error is ignored.  The timer is armed.
Send(w) ==
  /\ pc[w] = "send"
  /\ sent' = [sent EXCEPT ![job[w]] = @ + 1]
  /\ late' = IF job[w] \in live THEN [late EXCEPT ![job[w]] = @ + 1] ELSE late
  /\ Goto(w, "wait")
  /\ UNCHANGED <<ctx, runVars, job, attempt, woken, readVars, trackVars,
                 netVars>>

ChannelClosed(w) == woken[w] \/ closes[job[w]] > 0

\* Mutant of Wakeup: no ctx.Done() case.
WakeupDeaf(w) ==
  /\ pc[w] = "wait"
  /\ ChannelClosed(w)
  /\ Goto(w, "report")
  /\ UNCHANGED <<ctx, runVars, job, attempt, woken, readVars, trackVars,
                 netVars, echo>>

\* The select: cancellation or the reply ends the ping ...
Wakeup(w) ==
  /\ pc[w] = "wait"
  /\ ctx \/ ChannelClosed(w)
  /\ Goto(w, "report")
  /\ UNCHANGED <<ctx, runVars, job, attempt, woken, readVars, trackVars,
                 netVars, echo>>

\* Mutant of Timeout: the timer is armed again for the same attempt.
TimeoutRearms(w) ==
  /\ pc[w] = "wait"
  /\ UNCHANGED vars

\* ... and the timer starts the next attempt, whatever else is ready.
Timeout(w) ==
  /\ pc[w] = "wait"
  /\ attempt' = [attempt EXCEPT ![w] = @ + 1]
  /\ Goto(w, "check")
  /\ UNCHANGED <<ctx, runVars, job, woken, readVars, trackVars, netVars, echo>>

\* pingOne has returned; done.Add(1) and the progress callback.
Report(w) ==
  /\ pc[w] = "report"
  /\ done' = done + 1
  /\ job' = [job EXCEPT ![w] = NoHost]
  /\ Goto(w, "idle")
  /\ UNCHANGED <<ctx, main, next, jobs, result, attempt, woken, readVars,
                 trackVars, netVars, echo>>

Work(w) == \/ TakeJob(w) \/ Exit(w) \/ Waiter(w) \/ Check(w) \/ Send(w)
           \/ Wakeup(w) \/ Timeout(w) \/ Report(w)

-----------------------------------------------------------------------------
(* The reader.                                                             *)

ReaderTop ==
  /\ reader = "top"
  /\ reader' = IF ReaderCancelled THEN "done" ELSE "read"
  /\ UNCHANGED <<ctx, runVars, workVars, packet, trackVars, netVars, echo>>

ReadPacket ==
  /\ reader = "read"
  /\ ConnOpen
  /\ \E p \in sock : packet' = {p} /\ sock' = sock \ {p}
  /\ reader' = "got"
  /\ UNCHANGED <<ctx, runVars, workVars, trackVars, answered, echo>>

\* The read deadline passes (every readTick).
ReadTimeout ==
  /\ reader = "read"
  /\ ConnOpen
  /\ reader' = IF ReaderCancelled THEN "done" ELSE "top"
  /\ UNCHANGED <<ctx, runVars, workVars, packet, trackVars, netVars, echo>>

\* ReadFrom fails for good: closed by Run, or by an error of the socket,
\* after which nobody listens while the workers go on.
ReadFails ==
  /\ reader = "read"
  /\ reader' = IF ReaderCancelled THEN "done" ELSE "failed"
  /\ UNCHANGED <<ctx, runVars, workVars, packet, trackVars, netVars, echo>>

\* Mutant of IsOurEchoReply: the identifier is not compared.
IsAnyEcho(p) == p.id \in {"ours", "zero", "foreign"}

IsOurEchoReply(p) == p.id \in {"ours", "zero"}

\* tracker.gotReply: the host is live; its channel, if there is one, is
\* closed unless it already is (closing it again would panic).
GotReply(h) ==
  /\ live' = live \cup {h}
  /\ closes' = IF h \in waiting /\ closes[h] = 0
                 THEN [closes EXCEPT ![h] = @ + 1]
                 ELSE closes

Demux ==
  /\ reader = "got"
  /\ \E p \in packet :
       IF p.from \in Wanted /\ IsOurEchoReply(p)
         THEN GotReply(p.from)
         ELSE UNCHANGED <<live, closes>>
  /\ packet' = {}
  /\ reader' = "top"
  /\ UNCHANGED <<ctx, runVars, workVars, waiting, netVars, echo>>

ReadReplies == ReaderTop \/ ReadPacket \/ ReadTimeout \/ ReadFails \/ Demux

-----------------------------------------------------------------------------
(* The environment: the network and the operator.                          *)

\* A packet reaches the open socket: late, again, out of order, unasked
\* for, or never.  Only an echo reply to us is an answer.
Arrive(p) ==
  /\ ConnOpen
  /\ Cardinality(sock) < SockCap
  /\ p \notin sock
  /\ sock' = sock \cup {p}
  /\ answered' = IF p.id # "foreign" THEN answered \cup {p.from} ELSE answered
  /\ UNCHANGED <<ctx, runVars, workVars, readVars, trackVars, echo>>

\* The overall deadline passes or a signal arrives.
Cancel ==
  /\ ~ctx
  /\ ctx' = TRUE
  /\ UNCHANGED <<runVars, workVars, readVars, trackVars, netVars, echo>>

\* Run is over and so are its goroutines.
Finished ==
  /\ main \in {"returned", "failed"}
  /\ UNCHANGED vars

Next == \/ Run
        \/ \E w \in Worker : Work(w)
        \/ ReadReplies
        \/ \E p \in Packet : Arrive(p)
        \/ Cancel
        \/ Finished

\* What a worker does without a timer.
Signalled(w) == \/ TakeJob(w) \/ Exit(w) \/ Waiter(w) \/ Check(w) \/ Send(w)
                \/ Wakeup(w) \/ Report(w)

\* Every goroutine that can run is scheduled in the end.  Nothing is assumed
\* of the network or the operator, nor that any timer fires or any read
\* deadline passes.
Fairness == /\ WF_vars(Run)
            /\ \A w \in Worker : WF_vars(Signalled(w))
            /\ WF_vars(ReaderTop \/ Demux \/ (~ConnOpen /\ ReadFails))

Spec == Init /\ [][Next]_vars /\ Fairness

\* Timers fire and read deadlines pass.
TimersFire == /\ \A w \in Worker : WF_vars(Work(w))
              /\ WF_vars(ReadReplies)

-----------------------------------------------------------------------------
(* Properties.                                                             *)

TypeOK ==
  /\ ctx \in BOOLEAN
  /\ main \in {"start", "feed", "wait", "close", "join", "returned", "failed"}
  /\ next \in 1 .. Len(Targets) + 1
  /\ jobs \in Seq(Wanted)
  /\ done \in Nat
  /\ result \subseteq Wanted
  /\ pc \in [Worker -> {"idle", "waiter", "check", "send", "wait", "report",
                        "exit"}]
  /\ job \in [Worker -> Wanted \cup {NoHost}]
  /\ attempt \in [Worker -> Nat]
  /\ woken \in [Worker -> BOOLEAN]
  /\ reader \in {"none", "top", "read", "got", "done", "failed"}
  /\ packet \subseteq Packet
  /\ live \subseteq Wanted
  /\ waiting \subseteq Wanted
  /\ closes \in [Wanted -> Nat]
  /\ sock \subseteq Packet
  /\ answered \subseteq IPv4
  /\ sent \in [Wanted -> Nat]
  /\ late \in [Wanted -> Nat]

\* tracker: the channel of a host somebody waits for is closed exactly when
\* the host is live, and never twice: no reply is slept through and no
\* duplicate reply panics, in whatever order waiter and gotReply run.
NoLostWakeup ==
  \A h \in Wanted : closes[h] = IF h \in live \cap waiting THEN 1 ELSE 0

\* readReplies: a host is live only if it was probed and an echo reply with
\* our (or a rewritten) identifier came from it.
LiveHostsAnswered == live \subseteq Wanted \cap answered

\* Between Run's closing of jobs and its return nothing is left behind: the
\* socket is closed only after the last write, and when Run returns every
\* worker and the reader are gone and no job is left in the channel.
NoStragglers ==
  /\ main \in {"close", "join"} => \A w \in Worker : pc[w] = "exit"
  /\ main = "returned" =>
       /\ reader \in {"none", "done", "failed"}
       /\ jobs = <<>>
       /\ reader # "none" => \A w \in Worker : pc[w] = "exit"

Busy == {w \in Worker : pc[w] \notin {"idle", "exit"}}

\* Progress: every target fed is counted once, by the feeder or by the
\* worker that had it, so a sweep that was not cancelled ends at 100%.
ProgressExact ==
  /\ done + Len(jobs) + Cardinality(Busy) = next - 1
  /\ (main = "returned" /\ ~ctx /\ Wanted # {}) => done = Len(Targets)

\* h was fed and its ping is over.
Served(h) ==
  /\ \E i \in 1 .. next - 1 : Targets[i] = h
  /\ \A i \in DOMAIN jobs : jobs[i] # h
  /\ \A w \in Worker : job[w] = h => pc[w] = "report"

\* pingOne: no host gets more echoes than Attempts, and one that stays
\* silent gets all of them unless the scan is cancelled.
EchoBudget ==
  \A h \in Wanted :
    /\ sent[h] <= Attempts
    /\ (Served(h) /\ ~ctx /\ h \notin live) => sent[h] = Attempts

\* Stop on reply: once a host is live at most one more echo goes out to it,
\* the one whose pinger had already looked.
OneLateEcho == \A h \in Wanted : late[h] <= 1

Finishes == main \in {"returned", "failed"}

\* Run returns, whatever the network does and however the reader fares.
Terminates == TimersFire => <>Finishes

\* A cancelled Run returns without the help of any timer: the feeder and
\* every sleeping worker watch the context, and closing the socket ends the
\* reader's last read.
CancelReturns == ctx ~> Finishes

\* Run keeps the contract of a discovery method; that it returns at all is
\* Terminates.
Contract == INSTANCE Stage
  WITH Host <- IPv4, found <- live,
       phase <- IF Finishes THEN main ELSE "running"

ImplementsStage == Contract!SafeSpec
=============================================================================
