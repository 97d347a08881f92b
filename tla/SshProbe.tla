------------------------------- MODULE SshProbe -------------------------------
(***************************************************************************)
(* The SSH stage, internal/sshprobe: Run feeds the targets to at most      *)
(* eight workers; a worker checks the port of a host and tries the users   *)
(* with each password until one of them is let in, collects what the host  *)
(* tells about itself, and appends a device to the shared slice out.       *)
(*                                                                         *)
(* The network calls of one host are steps that end in one way or another: *)
(* SshCommand opens up a command, SshCollect the sequence of commands that *)
(* collect() runs.                                                         *)
(***************************************************************************)
EXTENDS Integers, Sequences, FiniteSets

CONSTANTS Addr,       \* every address that occurs
          IPv4,       \* those for which To4() is not nil
          Targets,    \* req.Targets
          Users,      \* Method.Users
          Passwords,  \* Method.Passwords
          Accepted,   \* <<address, user, password>> that are let in
          ReqWorkers, \* req.Workers
          NoHost      \* a worker's job when it has none

ASSUME AddrAssumption == IPv4 \subseteq Addr /\ NoHost \notin Addr

\* LocalNet.Hosts enumerates the subnet: no address occurs twice.
ASSUME TargetsAssumption ==
  /\ Targets \in Seq(Addr)
  /\ \A i, j \in DOMAIN Targets : Targets[i] = Targets[j] => i = j

ASSUME CredentialsAssumption ==
  /\ Users \in Seq({Users[i] : i \in DOMAIN Users})
  /\ Passwords \in Seq({Passwords[i] : i \in DOMAIN Passwords})
  /\ ReqWorkers \in Int

MaxSSHWorkers == 8

NumWorkers ==
  LET w == IF ReqWorkers <= 0 \/ ReqWorkers > MaxSSHWorkers
             THEN MaxSSHWorkers ELSE ReqWorkers
  IN  IF Len(Targets) > 0 /\ w > Len(Targets) THEN Len(Targets) ELSE w

Worker == 1 .. NumWorkers

Wanted == {Targets[i] : i \in DOMAIN Targets} \cap IPv4

\* The pairs are tried user by user.
NumPairs == Len(Users) * Len(Passwords)
UserOf(k) == Users[(k \div Len(Passwords)) + 1]
PasswordOf(k) == Passwords[(k % Len(Passwords)) + 1]

VARIABLES
  ctx,     \* the scan context is done
  main,    \* Run: "start","feed","wait","returned"
  next,    \* index in Targets of the next address to feed
  jobs,    \* the buffered channel to the workers
  done,    \* the progress counter
  out,     \* the devices so far: address and user
  result,  \* addresses of the devices returned
  pc,      \* worker: "idle","probe","tcp","pair","dial","collect","close",
           \* "record","report","exit"
  job,     \* the address a worker probes
  pair,    \* pairs it has tried on it
  clients, \* SSH connections open to each host
  granted, \* history: hosts that let somebody in
  tries,   \* history: logins tried on each host
  late     \* history: those of them tried by a worker since ctx was done

runVars == <<main, next, jobs, done, result>>
workVars == <<pc, job, pair>>
netVars == <<clients, granted, tries, late>>
vars == <<ctx, runVars, out, workVars, netVars>>

Init ==
  /\ ctx = FALSE
  /\ main = "start"
  /\ next = 1
  /\ jobs = <<>>
  /\ done = 0
  /\ out = <<>>
  /\ result = {}
  /\ pc = [w \in Worker |-> "idle"]
  /\ job = [w \in Worker |-> NoHost]
  /\ pair = [w \in Worker |-> 0]
  /\ clients = [h \in Wanted |-> 0]
  /\ granted = {}
  /\ tries = [h \in Wanted |-> 0]
  /\ late = [w \in Worker |-> 0]

-----------------------------------------------------------------------------
(* The goroutine that called Run.                                          *)

\* Without users, passwords or targets Run returns at once.
Start ==
  /\ main = "start"
  /\ main' = IF NumPairs = 0 \/ Targets = <<>> THEN "returned" ELSE "feed"
  /\ UNCHANGED <<ctx, next, jobs, done, out, result, workVars, netVars>>

FeedSkip ==
  /\ main = "feed"
  /\ next <= Len(Targets)
  /\ Targets[next] \notin IPv4
  /\ next' = next + 1
  /\ done' = done + 1
  /\ UNCHANGED <<ctx, main, jobs, out, result, workVars, netVars>>

\* jobs <- ip, even when ctx is done as well.
FeedJob ==
  /\ main = "feed"
  /\ next <= Len(Targets)
  /\ Targets[next] \in IPv4
  /\ Len(jobs) < NumWorkers
  /\ jobs' = Append(jobs, Targets[next])
  /\ next' = next + 1
  /\ UNCHANGED <<ctx, main, done, out, result, workVars, netVars>>

\* The feed is over, or given up; jobs is closed.
CloseJobs ==
  /\ main = "feed"
  /\ \/ next > Len(Targets)
     \/ next <= Len(Targets) /\ Targets[next] \in IPv4 /\ ctx
  /\ main' = "wait"
  /\ UNCHANGED <<ctx, next, jobs, done, out, result, workVars, netVars>>

Hosts(devices) == {devices[i].ip : i \in DOMAIN devices}

\* wg.Wait() returns; the devices are what the workers appended.
Return ==
  /\ main = "wait"
  /\ \A w \in Worker : pc[w] = "exit"
  /\ main' = "returned"
  /\ result' = Hosts(out)
  /\ UNCHANGED <<ctx, next, jobs, done, out, workVars, netVars>>

Run == Start \/ FeedSkip \/ FeedJob \/ CloseJobs \/ Return

-----------------------------------------------------------------------------
(* The workers.                                                            *)

Goto(w, label) == pc' = [pc EXCEPT ![w] = label]

TakeJob(w) ==
  /\ pc[w] = "idle"
  /\ jobs # <<>>
  /\ jobs' = Tail(jobs)
  /\ job' = [job EXCEPT ![w] = Head(jobs)]
  /\ Goto(w, "probe")
  /\ UNCHANGED <<ctx, main, next, done, out, result, pair, netVars>>

\* range jobs ends: the channel is closed and drained.
Exit(w) ==
  /\ pc[w] = "idle"
  /\ jobs = <<>>
  /\ main \notin {"start", "feed"}
  /\ Goto(w, "exit")
  /\ UNCHANGED <<ctx, runVars, out, job, pair, netVars>>

\* probeOne looks at the context first.
Probe(w) ==
  /\ pc[w] = "probe"
  /\ Goto(w, IF ctx THEN "report" ELSE "tcp")
  /\ pair' = [pair EXCEPT ![w] = 0]
  /\ UNCHANGED <<ctx, runVars, out, job, netVars>>

\* Mutant of TCPCheck: a port that is not open is checked again.
TCPCheckAgain(w) ==
  /\ pc[w] = "tcp"
  /\ \E open \in BOOLEAN : Goto(w, IF open THEN "pair" ELSE "probe")
  /\ UNCHANGED <<ctx, runVars, out, job, pair, netVars>>

\* tcpCheck: the port is open, or it is not, or nobody knows in time.
TCPCheck(w) ==
  /\ pc[w] = "tcp"
  /\ \E open \in BOOLEAN : Goto(w, IF open THEN "pair" ELSE "report")
  /\ UNCHANGED <<ctx, runVars, out, job, pair, netVars>>

\* Mutant of NextPair: it does not look at the context.
NextPairBlind(w) ==
  /\ pc[w] = "pair"
  /\ Goto(w, IF pair[w] = NumPairs THEN "report" ELSE "dial")
  /\ UNCHANGED <<ctx, runVars, out, job, pair, netVars>>

\* The head of the two loops: no pair is left, or ctx is done, or a dial.
NextPair(w) ==
  /\ pc[w] = "pair"
  /\ Goto(w, IF pair[w] = NumPairs \/ ctx THEN "report" ELSE "dial")
  /\ UNCHANGED <<ctx, runVars, out, job, pair, netVars>>

Dialled(w) ==
  /\ tries' = [tries EXCEPT ![job[w]] = @ + 1]
  /\ late' = [late EXCEPT ![w] = IF ctx THEN @ + 1 ELSE @]

\* Mutant of DialFails: the rest of the pairs is skipped.
DialFailsGivesUp(w) ==
  /\ pc[w] = "dial"
  /\ Dialled(w)
  /\ Goto(w, "report")
  /\ UNCHANGED <<ctx, runVars, out, job, pair, clients, granted>>

\* dial fails: refused, unreachable, or too slow.
DialFails(w) ==
  /\ pc[w] = "dial"
  /\ Dialled(w)
  /\ pair' = [pair EXCEPT ![w] = @ + 1]
  /\ Goto(w, "pair")
  /\ UNCHANGED <<ctx, runVars, out, job, clients, granted>>

LoggedIn(w) ==
  /\ pc[w] = "dial"
  /\ <<job[w], UserOf(pair[w]), PasswordOf(pair[w])>> \in Accepted
  /\ Dialled(w)
  /\ clients' = [clients EXCEPT ![job[w]] = @ + 1]
  /\ granted' = granted \cup {job[w]}
  /\ Goto(w, "collect")
  /\ UNCHANGED <<ctx, runVars, out, job, pair>>

\* Mutant of Collect: the client is not closed.
CollectLeaks(w) ==
  /\ pc[w] = "collect"
  /\ Goto(w, "record")
  /\ UNCHANGED <<ctx, runVars, out, job, pair, netVars>>

\* collect returns, with all it asked for or, cancelled, with less.
Collect(w) ==
  /\ pc[w] = "collect"
  /\ Goto(w, "close")
  /\ UNCHANGED <<ctx, runVars, out, job, pair, netVars>>

CloseClient(w) ==
  /\ pc[w] = "close"
  /\ clients' = [clients EXCEPT ![job[w]] = @ - 1]
  /\ Goto(w, "record")
  /\ UNCHANGED <<ctx, runVars, out, job, pair, granted, tries, late>>

\* Mutant of Record: after a login the next pair is tried.
RecordContinues(w) ==
  /\ pc[w] = "record"
  /\ out' = Append(out, [ip |-> job[w], user |-> UserOf(pair[w])])
  /\ pair' = [pair EXCEPT ![w] = @ + 1]
  /\ Goto(w, "pair")
  /\ UNCHANGED <<ctx, runVars, job, netVars>>

\* probeOne returns a device, which is appended under mu.
Record(w) ==
  /\ pc[w] = "record"
  /\ out' = Append(out, [ip |-> job[w], user |-> UserOf(pair[w])])
  /\ Goto(w, "report")
  /\ UNCHANGED <<ctx, runVars, job, pair, netVars>>

\* done.Add(1) and the progress callback.
Report(w) ==
  /\ pc[w] = "report"
  /\ done' = done + 1
  /\ job' = [job EXCEPT ![w] = NoHost]
  /\ Goto(w, "idle")
  /\ UNCHANGED <<ctx, main, next, jobs, out, result, pair, netVars>>

Work(w) == \/ TakeJob(w) \/ Exit(w) \/ Probe(w) \/ TCPCheck(w)
           \/ NextPair(w) \/ DialFails(w) \/ LoggedIn(w)
           \/ Collect(w) \/ CloseClient(w) \/ Record(w) \/ Report(w)

Cancel ==
  /\ ~ctx
  /\ ctx' = TRUE
  /\ UNCHANGED <<runVars, out, workVars, netVars>>

\* Run is over.  (Without users or passwords no worker was started; the
\* model's idle ones then exit.)
Finished == main = "returned" /\ UNCHANGED vars

Next == Run \/ (\E w \in Worker : Work(w)) \/ Cancel \/ Finished

\* Every goroutine is scheduled and every network call ends: the TCP check
\* and the dial by their timeouts, collect because the host keeps answering.
Fairness == WF_vars(Run) /\ \A w \in Worker : WF_vars(Work(w))

Spec == Init /\ [][Next]_vars /\ Fairness

-----------------------------------------------------------------------------
(* Properties.                                                             *)

Device == [ip : Wanted, user : {Users[i] : i \in DOMAIN Users}]

TypeOK ==
  /\ ctx \in BOOLEAN
  /\ main \in {"start", "feed", "wait", "returned"}
  /\ next \in 1 .. Len(Targets) + 1
  /\ jobs \in Seq(Wanted)
  /\ done \in Nat
  /\ out \in Seq(Device)
  /\ result \subseteq Wanted
  /\ pc \in [Worker -> {"idle", "probe", "tcp", "pair", "dial", "collect",
                        "close", "record", "report", "exit"}]
  /\ job \in [Worker -> Wanted \cup {NoHost}]
  /\ pair \in [Worker -> 0 .. NumPairs]
  /\ clients \in [Wanted -> Int]
  /\ granted \subseteq Wanted
  /\ tries \in [Wanted -> Nat]
  /\ late \in [Worker -> Nat]

\* Run: "Only a successful login is returned": one device for each host that
\* let us in, under a user it accepts; the slice never gets a host twice.
LoginsOnly ==
  /\ \A i \in DOMAIN out :
       /\ out[i].ip \in granted
       /\ \E p \in DOMAIN Passwords :
            <<out[i].ip, out[i].user, Passwords[p]>> \in Accepted
  /\ \A i, j \in DOMAIN out : out[i].ip = out[j].ip => i = j

\* When Run returns nothing is left behind: no connection, no job, no worker,
\* and every host that let us in is among the devices.
NoStragglers ==
  main = "returned" =>
    /\ \A h \in Wanted : clients[h] = 0
    /\ jobs = <<>>
    /\ \A w \in Worker : pc[w] \in {"idle", "exit"}
    /\ result = granted

\* h was fed and its probe is over.
Served(h) ==
  /\ \E i \in 1 .. next - 1 : Targets[i] = h
  /\ \A i \in DOMAIN jobs : jobs[i] # h
  /\ \A w \in Worker : job[w] = h => pc[w] = "report"

\* probeOne: no host gets more login attempts than there are pairs, nor two
\* connections at a time, and unless the scan is cancelled a host whose port
\* is open and that lets nobody in gets them all.
TriesBounded ==
  \A h \in Wanted :
    /\ tries[h] <= NumPairs
    /\ clients[h] <= 1
    /\ (Served(h) /\ ~ctx /\ h \notin granted) => tries[h] \in {0, NumPairs}

\* After the cancellation a worker tries at most the one login it was about
\* to try.
OneLateDial == \A w \in Worker : late[w] <= 1

\* Run keeps the contract of a discovery method, an answer being a login; in
\* particular it returns.
Contract == INSTANCE Stage
  WITH Host <- IPv4, found <- Hosts(out), answered <- granted,
       phase <- IF main = "returned" THEN main ELSE "running"

ImplementsStage == Contract!Spec
=============================================================================
