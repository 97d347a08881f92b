# A formal model of network-scanner

network-scanner lists the active devices of the local IPv4 subnet. It pings
every host, sweeps the subnet with ARP requests, optionally logs in by SSH and
asks each host about itself, merges what the methods report into one row per
address, looks up names in the DNS and prints a table.

This directory holds TLA+ models of that program, TLC configurations that check
them on small instances, and TLAPS proofs of their most important properties
for instances of every size. File and line numbers refer to `src/`.

1. [The system](#1-the-system): its parts, their state, what is hard about them
2. [The models](#2-the-models): which module models what, and how
3. [The runs](#3-the-runs): what TLC checks, with which bounds and fairness
4. [The proofs](#4-the-proofs): what TLAPS proves and how
5. [Findings](#5-findings): where the program and its own words disagree
6. [What is not modelled](#6-what-is-not-modelled)
7. [Plan](#7-plan)

## 1. The system

### Components

**ICMP stage** (`internal/icmpping`). `Run` opens a raw socket, starts one
reader goroutine and a pool of workers, and feeds the addresses through a
buffered channel. *State*: the channel of jobs, the atomic progress counter and
the `tracker`: a mutex over the set of live hosts and a channel per awaited
host, closed when its reply arrives. *Operations*: a worker (`pingOne`)
registers with the tracker, then sends up to `Attempts` echoes, waiting after
each for the channel, a timer or the context; the reader reads packets until
its own context is cancelled or the socket fails. *Hard*: a reply may arrive
before, between or after the worker's looks at the tracker, twice, from an
unasked host, or with an identifier the kernel rewrote; the socket is closed
while others use it; cancellation finds each goroutine somewhere else.
*Correct when*: no reply is slept through, no channel closed twice, no echo
wasted on a live host (but the one already decided on), a silent host gets its
whole budget, every target is counted once, only hosts that answered are
reported, nothing outlives `Run`, and `Run` returns.

**ARP stage** (`internal/arpscan`, `Scan`). One sender, one reader goroutine
over a capture channel. *State*: the map from address to MAC, under a mutex;
`stop`, `sendErr`, progress. *Hard*: replies at any time, from two MACs for one
address or from nobody asked; `stop` and a packet ready together; an error in
mid-sweep. *Correct when*: the first MAC stays, no captured reply is lost
before `stop`, every target is asked once, what is returned is what was
recorded, the reader and the handle are gone by then.

**ARP injector** (`internal/arpscan`, `injector.write`). Sends one frame,
retrying when the driver has no buffers, and paces bursts. *State*: `burst` and
`limit`, which live as long as the sweep. *Hard*: the sizes grow and shrink
over thousands of frames; the backoff is a shifted 64-bit integer; the context
may end in any pause. *Correct when*: a frame goes out once if `nil` is
returned, bursts stay within the limit, and `write` returns.

**Pipeline** (`internal/pipeline`). Runs the methods one after the other,
merges their records by address and ends at the first fatal error.
*Hard*: the order of methods decides who fills a field; placeholders must give
way and real values stay; soft and fatal failures; cancellation between two
methods. *Correct when*: a row is what was first said of its host and no host
reported is missing.

**Device records and vendors** (`internal/device`, `internal/oui`). Pure
functions: `Lookup`, `VendorUnset`, `InferType`, `Empty`.

**SSH stage** (`internal/sshprobe`, `sshprobe.go`). A pool of workers; each
checks port 22 of a host and tries every user with every password until a login
succeeds. *Hard*: the login loops under cancellation; connections on every way
out. *Correct when*: logins are tried at most once per pair, a host is recorded
once, with a login it accepts, and no connection is left.

**SSH commands** (`client.go`). `CombinedOutput` and `ShellOutput` run commands
with a goroutine each that watches the context or the session. *Hard*: whoever
finishes first, the other must end too; the host may stop answering; a shell's
two streams share a buffer without a lock. *Correct when*: a caller without an
error has waited for the end and, of `CombinedOutput`, has all the output, no
goroutine stays, and a command returns.

**SSH collection** (`collect.go`, `health.go`, `lldp.go`, `ifaces.go`). Five
gathers, each a list of commands with a fallback shell, and the parsers that
read names, load, neighbors and counters in what comes back. *State*: the text
gathered so far and the record being filled. *Hard*: outputs of several
commands and dialects are read together, by patterns in an order of their own;
a table's columns are found by counting; counters of several kinds share their
words. *Correct when*: a name, an address or a list is the first the host gave,
a MAC or a name found by one gather survives the next, nothing told is lost and
nothing is made up.

**Scan driver** (`main.go` from the pipeline on, `internal/enrich`). `run()`
calls the pipeline, looks up names in concurrent goroutines bounded by a
semaphore, adds or completes the row of this machine (`ensureSelf`) and prints.
*Hard*: three places write a row's name; the own row may come from any method
or none. *Correct when*: the table has every reported host and this machine,
once, with complete rows, no slot of the semaphore is lost, and the run ends.

**Progress line** (`progressFn`). A closure with three variables that every
worker of a stage calls after each target, without a lock. *Hard*: every read
and write interleaves with those of the other calls; a Go string is two words.
*Correct when*: the line of a complete stage is drawn exactly once and, while
calls do not overlap, the line shows the percentage reached.

**Startup** (`run()` before the pipeline) with the **environment loader**
(`internal/envload`) and **interface detection** (`internal/iface`). The `.env`
file fills in what the environment lacks; the first private address, else the
first address, gives the subnet; its hosts become the targets; users and
passwords decide whether SSH is a method. *Hard*: `Setenv` may fail half way
through a map in random order; masks of 31, 32 and 0 bits, and `int` of 32 bits;
a private address on a later interface. *Correct when*: the environment wins
over the file, the targets are exactly the hosts of that subnet, and logins are
tried only as configured.

**Others**: table output and the container files. See section 6.

### Interactions

`run()` calls `Pipeline.Run`, which calls each `Method.Run` synchronously with
a context shared by all (a deadline and the interrupt signal). Inside a method
goroutines share channels, a mutex and atomics; methods share nothing but the
context and the progress callback. After the pipeline, `Hostnames` starts a
goroutine per row, each of which writes its own row only.

```
 Main (run): Startup (up to the pipeline) ── EnvLoad (.env), Iface (Detect, Hosts)
   │         Progress (the line on the terminal)
   │ targets, methods, logins
 NetScan (run from the pipeline on, Hostnames, ensureSelf)
   └─ Pipeline (Run, mergeDevice) ── Devices (records, Lookup, InferType)
        └─ Stage: the contract of one method
             ├─ IcmpPing   (Run, workers, reader, tracker)
             ├─ ArpScan    (Scan, reader) ── ArpInject (injector.write)
             └─ SshProbe   (Run, workers, logins)
                  └─ Collection: SshCollect (gathers), SshCommand (one command)
                       └─ Inventory, Lldp, Ifaces ── Lines (the parsers)
```

## 2. The models

Every action is one step of the program as other goroutines can see it: from
one channel operation, lock, system call or read of shared state to the next.
Definitions keep the source's names where they can. `PROJECT.json` maps each to
its lines. A definition called "Mutant of X" is a plausible mistake in X; no
specification uses it, it is there to show that some property notices it.

| Module | Models | State and actions |
|---|---|---|
| `Stage` | the contract behind `Method.Run`, abstractly | hosts answer, are recorded, and are returned all at once or not at all; a method returns |
| `IcmpPing` | `internal/icmpping` | `main`, `next`, `jobs` are `Run` (`ListenFails` … `Return`); `pc`, `job`, `attempt`, `woken` the workers (`TakeJob`, `Waiter`, `Check`, `Send`, `Wakeup`, `Timeout`, `Report`, `Exit`); `reader`, `packet` the reader (`ReaderTop` … `Demux`); `live`, `waiting`, `closes` the tracker; `sock`, `answered` the network |
| `ArpScan` | `Scan` and its reader | `main` is the sender, `write` being one step with the outcomes `ArpInject` allows; `queue` the capture channel; `seen` the map |
| `ArpInject` | `injector.write`, `sleepCtx` | `try`, `burst`, `limit`, `pause`; a call per frame; the shifted product wraps at 64 bits |
| `Devices` | records, vendors, `mergeDevice`, `toSlice` | operators only |
| `Pipeline` | `Pipeline.Run` | one merge per record; the methods return any set of the records they can make |
| `SshProbe` | `sshprobe.go` | as `IcmpPing`, with `pair` for the two login loops and `clients` for open connections |
| `SshCommand` | `client.go` after the handshake | the calling worker, the watcher, the waiter, the session's channel, the host; `ShellText` is what may be left of a shell's output in its unlocked buffer |
| `SshCollect` | `collect` and the gathers | an action for a command, a shell, and the end of each gather, which parses the text gathered |
| `Collection` | both together | a command is one step of `SshCollect` (`Gather`), or is followed inside from its call to the end of its goroutines (`Follow`, `Followed`) |
| `Inventory` | `parseSysInfo`, `parseMAC`, `parseCPU`, `parseMemory`, `isNetworkDevice` | operators on the text: which pattern, and which line for it, gives a field |
| `Lldp` | `parseLLDP` and its four tables | operators: the section a line is in, the columns of a row, which table wins |
| `Ifaces` | `parseIfaces` and its four dialects | a fold over the lines: the block a counter is in, the value that stays |
| `Lines` | the lines all parsers share | a line is a record of what a pattern finds in it |
| `NetScan` | `run()` from the pipeline on | extends `Pipeline` by `lookup` per row, the semaphore's tokens `sem` and `EnsureSelf`; `RunSpec` is its specification |
| `Progress` | `progressFn` and its callers | every read and write of `lastStage` (two words), `lastPct` and the terminal is an action of worker `w` (`Look`, `LookBytes`, … `EndRow`); `LineSpec` is its specification |
| `Main` | `run()` from its start to the last line of progress | `StartUp` is a step of `Startup`, `Line` one of `Progress`; between them `Scan` begins |
| `Startup` | `run()` up to the pipeline | `LoadEnv`, `ParseFlags`, `DetectIface`, `Enumerate`, `ChooseMethods`, each with its exits |
| `EnvLoad` | `LoadFile`, `Parse` | a line at a time, then a variable at a time, in any order |
| `Iface` | `Detect`, `Hosts` | an interface or an address at a time; the mask's arithmetic in `int` and in addresses, both with their width |

`MC…` modules give TLC small sets. `…Proofs` modules hold theorems.

What is abstract: addresses, MACs, vendors, users and outputs are model values
or classes the code tells apart. An ICMP message is its sender and whether its
identifier is ours, zero or foreign (sequence numbers do not matter: the reader
ignores them). An ARP packet is its operation, address and MAC. A vendor is a
brand, `Unknown`, `Randomized MAC` or none. A line of a host's output is a
record of the fields the code's patterns find in it, of a table row its words.
In `Iface` addresses are numbers, of few bits. History variables (`sent`,
`late`, `answered`, `first`, `said`, `ran`, `tries`, `granted`, `told`, `heard`,
`ptr`, `was`, `file`, `offered`, `full`, `raced`) record what happened for the
properties; no guard of the program's steps reads them, but for the bounds on
`file` and `offered`.

**The environment.** Packets may be lost, repeated, reordered or unasked for,
up to the capacity of the socket or the number of packets (`SockCap`,
`QueueCap`, `Traffic`). The context may be done at any moment. System calls may
fail where the code handles it. An SSH host may refuse, close, stop answering
or drop the connection at any point.

**Assumed of callers.** No address occurs twice among the targets (`Hosts` of
`internal/iface` counts up, `TargetsExact`); an interface has a MAC (`Detect`
asks for one).

## 3. The runs

| Run | Question | Bounds |
|---|---|---|
| `icmp_safety` | Do reader, workers, feeder and network keep the tracker, the budget, the count and the socket right in every interleaving? | 2 workers, 2 attempts, 2 IPv4 targets, 1 IPv6 target, 1 stranger, 1 packet in the socket |
| `icmp_live` | Does a cancelled `Run` return even if no timer fires? Does any `Run` return if they do? Does every step keep the contract `Stage`? | 2 workers (default 64 cut to the targets), 1 attempt |
| `arp_scan` | Do first replies stay, is none lost, is each target asked once, and does `Scan` implement `Stage`, its return included? | 2 targets, 1 IPv6 target, 1 stranger, 3 MACs, capture of 2, 3 packets in all |
| `arp_inject` | Is a frame sent once, are bursts paced, does `write` return? | the constants of the code: burst 2–32, 64 retries, 50 ms |
| `arp_backoff` | (violated) Is there a pause before each retry? | the same |
| `ssh_probe` | Are logins bounded, recorded once, connections closed, and `Stage` implemented, the return included? | 2 workers, 2 users × 2 passwords, 2 IPv4 targets, 1 IPv6 target |
| `ssh_hang` | (violated) Does a command return when its context is done, whatever the host does? | 2 pieces of output, 2 typed commands |
| `ssh_collect` | Is what a host told, in any dialect, what the record holds in the end? Of any of its commands: is the caller told unless it saw the end, do the goroutines end, is a hung command on an answering host cut off? | 7 kinds of host (JunOS, IOS, NX-OS, one with the memory formats of both, VRP, Linux, and one that says what it is only when asked for its MAC), 2–3 commands in a gather, each with its outputs, an error or silence, and a shell; counters of 4 bits; of a command that is followed 2 pieces of output, 2 typed commands |
| `health_first` | (violated) Does the first command that tells the memory in use win? | the same |
| `net_scan` | Is a row what was first said, is nothing lost or taken back, is the table complete, are its names from the right source, and does the run end if its methods do? | this machine and a neighbour, 3 methods that report 1–7 kinds of record per host, 1 lookup slot |
| `arp_details` | (violated) Does the row of a host that answered ARP have the vendor of that record? | the same |
| `main` | Does the environment win, are the targets exactly the subnet, are logins tried only as configured? Is the line of a complete stage drawn once, however the calls race? Is the line right if they do not? | files of 2 lines over 3 variables, 3 values and 3 environments; 2 interfaces with 2 addresses, each of 3 bits, with every mask; `int` of 3 bits, as 32 bits are to an IPv4 address on a 32-bit build; 2 workers, 3 stages of 4 targets, shown in halves |

**Properties.**

- `IcmpPing`: `NoLostWakeup` (the channel of a host somebody waits for is
  closed exactly once, exactly when it is live), `LiveHostsAnswered`,
  `NoStragglers` (socket closed after the last writer, nobody outlives `Run`),
  `ProgressExact`, `EchoBudget`, `OneLateEcho`, `CancelReturns`, `Terminates`,
  `ImplementsStage`.
- `ArpScan`: `FirstReplyWins`, `RepliesKept`, `SweepComplete`, `NoStragglers`,
  `ImplementsStage`.
- `ArpInject`: `FrameOnce`, `Paced`, `WriteReturns`.
- `SshProbe`: `LoginsOnly`, `TriesBounded`, `OneLateDial`, `NoStragglers`,
  `ImplementsStage`.
- `SshCommand`: `OutputComplete` (who is told of no error has seen the session
  closed, and the output of `CombinedOutput` is then all there is; of a shell's
  text nothing is claimed), `GoroutinesEnd`, `CommandReturns`.
- `SshCollect`: `IdentityKept` (name, model, version and MAC are known in the
  end exactly if some output held them), `HealthKept` (so are load and memory,
  as one of the outputs told them, although all are read again after each),
  `NeighborsRead` (neighbors and their ports as in the first table printed),
  `CountersRead` (each port once, with its own counters).
- `NetScan`: `FirstWins` (a row equals a specification computed from the whole
  history of records; where only placeholders were said of a vendor it follows
  the code, see `arp_details` in section 5), `NothingLost`, `FilledStays`, which
  are the pipeline's; `TableComplete`; `NameOrder` (the DNS's answer counts even
  if it is the empty name that is left of ".", as in the code); `Terminates`.
- `Progress`: `FullLineOnce`, `StepsShown`.
- `Startup`: `EnvMerged` (of `EnvLoad`), `TargetsExact` (the loop's bounds and
  the preference of `Detect` against the set of addresses under the mask),
  `LoginsConfigured`.

The type invariants are proved (section 4), not run.

**Why the bounds are enough.** Two workers and two hosts give every pair of
goroutines a conflict on each shared variable, and a host that is served while
another is not; more workers repeat the same pairs. Two attempts give a budget
with a first, a last and a retry between replies. One packet in the socket is
enough for every order of arrival because a packet leaves the socket before its
effect; three ARP packets allow a reply, a conflicting one and one of another
kind. An IPv6 target exercises the skipping feeder, a stranger the unasked
reply. One lookup slot for two rows makes a row wait for the semaphore, and a
token that is not given back shows at once. The
injector and the retries run with the real constants. Two racing calls of
`progressFn` meet in each pair of their steps; a third stage finds what the
second left behind, and of four targets in halves two have the same percentage.
With addresses of three bits every mask occurs: the whole space (where
`1<<32` overflows `int` on a 32-bit build), a larger subnet, two addresses and
one. With `IntBits = 6`, the 64-bit build, the run gives the same verdicts. Two
lines let a later one replace an earlier one, two addresses let a private one
follow a public one, on the same interface or the next. The theorems of
section 4 have no bound.

**Fairness.** All liveness assumes weak fairness of each goroutine: Go's
scheduler runs every runnable goroutine in the end. In `IcmpPing`, `Fairness`
says no more than that, so `CancelReturns` holds without timers; `Terminates`
adds, as a premise, that timers fire and read deadlines pass. In `ArpScan` it
includes the settle timer and the return of `write` (shown by `WriteReturns`
under the same kind of assumption: the driver's call returns and timers fire).
In `SshProbe` it includes that a port check, a handshake and a collection end:
the first two have timeouts in the code, the last is what `SshCommand` examines.
In `SshCommand` nothing is assumed of the host, except in the premise of
`CommandReturns`, nor that a command is ever called. In `NetScan` a lookup ends
because it has a timeout; that a method ends is a premise of `Terminates`
(`MethodsReturn`) and no part of `RunSpec`: `icmp_live` and `arp_scan` show it of
two of them, but the SSH method may never return (`ssh_hang`). No
fairness is assumed of the network, the operator, or of a branch (that a packet arrives, a login succeeds, a buffer becomes free).

No liveness is asked of `Startup` and `Progress`, whose loops are finite.

**What is forgotten.** The progress line does not depend on what the start
found, nor one command on what was gathered before it. When `Main` goes from the
one to the other (`Scan`), and `Collection` into a command (`Follow`), the
variables of the first part take their initial values, so that TLC does not
explore the second part once for each outcome of the first. No property of the
second part speaks of them.

Deadlock is checked in every run: the only states without a step of the program
are those of an explicit action (`Finished`, `MainOver`, `Collected`, in
`SshCommand` `GoesOn`).

## 4. The proofs

Proved with TLAPS for all values of the constants that satisfy the named
assumptions (targets are distinct addresses; numbers are naturals where the
code has sizes):

| Module | Theorems |
|---|---|
| `IcmpPingProofs` | `TypeCorrect`, `WakeupSafe`, `LiveSound`, `StragglerFree`, `KeepsContract` (the refinement of `Stage`), `LateEchoBound`, `EchoBudgetKept`, `ProgressCounts` |
| `ArpScanProofs` | `TypeCorrect`, `StragglerFree`, `FirstWins`, `NothingSkipped`, `ImplementsSafeStage`, `SweepIsComplete` |
| `ArpInjectProofs` | `TypeCorrect`, `WriteIsOnce`, `SendsArePaced` |
| `SshProbeProofs` | `TypeCorrect`, `LoginsReturned`, `NothingLeftBehind`, `TriesAreBounded`, `LateDialBound`, `ImplementsSafeStage` |
| `SshCollectProofs` | of `SshCollect`: `NeighborsOfOne`, `CountersOfOne`, `HealthIsKept`, `IdentityIsKept`; of `SshCommand`: `CompleteOrError` |
| `NetScanProofs` | of `Pipeline`: `TypeCorrect`, `MergeMonotone`, `LosesNothing`, `FirstSaidWins`; of the run: `RunIsPipeline` (the refinement of `Pipeline`), `TableIsComplete`, `NamesInOrder`, `RunLosesNothing`, `RunMonotone`, `RunFirstWins` |
| `StartupProofs` | `EnvCorrect`, `LoginsAsConfigured`, `TargetsAreExact` |
| `ProgressProofs` | `FullLineDrawnOnce`, `StepsAreShown`; of the run: `RunDrawsTheLine` |

**ICMP.** The properties are not inductive; the argument adds, layer by layer:
`TypeInv` (a worker holds a job exactly between taking and reporting it),
`LiveInv` (a packet in the socket or in the reader's hand is counted among the
answers), `PhaseInv` (which goroutines can exist in which phase of `Run`: the
socket is open as long as a worker has not exited), `QueueInv` (an address is
in the channel once, or with one worker, or neither), `LateInv` (an echo is
late only for a worker that looked before the reply, and it is then past its
check for good), `EchoInv` and `PingInv` (the number of echoes sent equals the
attempts made, up to the one in hand), `CountInv` (done + queued + busy = fed,
by the cardinality of the set of busy workers). Every layer is proved with one
step per action.

**ARP.** `TypeInv` (the packet in the reader's hand is a reply of another's
MAC), `PhaseInv` (the reader and the handle live between `Open` and the join),
`FirstInv` (the first reply of an address is recorded, in hand or queued, in
this order of precedence), `SweepInv` (targets before `next` have been asked
once, those after it never).

**Injector.** `TypeOK ∧ FrameOnce` with `PaceInv` (frames since the last pause
are bounded by the burst counter, whose bound moves with the limit).

**Pipeline.** `TypeInv`; `Keeps`, a relation between a row before and after a
merge, shown reflexive and true of `MergeRow`; `LossInv` (rows and pending
records together are exactly what was reported). `SaidInv` says that a row is
what `FirstWins` makes of the records merged so far; the step is `RowMore`: the
first value in a history that is longer by one record is the old one, or the
new record's if there was none (`FirstMore`), which is just what a merge keeps.
It is done per field, the vendor's brands, `Unknown` and randomized MACs and the
type that is inferred from them included.

**SSH.** `TypeInv` (a worker holds an address exactly while it probes, and a
pair while it dials); `QueueInv`, as for ICMP; `HostInv`, which says of each
host how far it is: not yet fed or queued, nothing was tried (`Trying(h, 0)`);
with a worker, as many logins were refused as the worker's pair says, or one
was let in (`LetIn`) and its connection is the only one, until it is closed;
afterwards (`Over`) it is among the devices exactly if it let somebody in, and
unless the scan was cancelled all pairs were tried or none. A worker's step
touches its own host only (`HostMove`), the feeder's none. `OutInv` and
`PhaseInv` (a worker that exited found the channel closed and empty) give
`LoginsOnly` and `NoStragglers`, and each step is a step of `Stage` or none.
`LateInv`: a worker about to dial has just seen the context alive.

**SSH commands.** `CommandInv`: whoever reports the end of a session does so
after the channel was closed, and on a closed channel nothing is sent any more,
so what an exec session has copied by then is all. The invariant says nothing of
a shell's text.

**SSH collection.** The code joins the outputs of a gather and reads the whole
text with patterns in an order of their own; the properties speak of outputs in
the order in which the host gave them. The theorems say when that is the same:

- `ListedAlone("neighbors")`, `ListedAlone("interfaces")`: what an output tells
  of neighbors (interfaces) is what the parser reads in that output alone, and
  only the gather for them gets any. Nothing is asked of what the parser does.
- `HealthLegible`: an output tells the load and the memory that a pattern finds
  in it alone, and no later command gives a figure in a format of which an
  earlier one printed a line without one (`Unhidden`). Nothing is asked of the
  order in which the commands print the formats: the theorem says that one of
  the values told is kept, since the first does not always win (`health_first`).
- `IdentityLegible`: so it is with name, model, version and MAC in the first two
  gathers, one after the other, and these are in order (`InOrder`): no later
  output prints a format that is looked for before that of an earlier one; and a
  host that has said something useful of itself says nothing new of that when it
  is asked for its addresses.

They are hypotheses of the theorems about the constant `Outputs`, not
assumptions of the model; TLC confirms that the hosts of `ssh_collect` satisfy
all four, the one with two memory formats included, and that the invariants
below hold there. A host that prints the second format of a name before the
first would break `IdentityLegible`, and for such a one the code takes the later
name.

The argument: `Reads(f, text)` is one definition for all the parsers of single
fields, by the kinds of line they look for (`SystemRead`, `AddressRead`,
`HealthRead` show that they agree with it); `ReadsOfTwo`: in a text followed by
one that is in order, what the first one says stays and what it lacks the second
adds; `OrderOfTwo`: being in order survives the joining. Then `IdentityInv`
(`VersionInv`, `MacInv`, `KnownInv`, by gather): what was told so far is what is
read in the text so far, and what may still come is in order. `ReadsEither`: of
two texts of which the first hides nothing, what one of them says is read, and
nothing only if both are silent; hence `MeterInv`: what is read in the text so
far is among the values heard.
`MacInv` treats the two cases of `collect`: the dump said nothing useful and
both texts are parsed, or it did and the record stays. `ListInv` needs less: a
text is empty until an output is enough. `TextInv`: a shell is asked only when
the text is empty.

**Run.** `RunSpec` implements `Pipeline`'s `Spec`, since `main.go` does not
touch its state, so the pipeline's theorems carry over. `TableInv`: from the
merge on, each row has an address, a status and a type, and its name is the
DNS's or else the login's; `ensureSelf` completes one row and leaves the others.

**Startup.** `EnvInv`: `HasLast` (the map holds the last line of each key)
and, while variables are set, each is either `Untouched` or `DealtWith`. The
random order and the place of a failure then do not matter. `StageInv`: past the
first stage the load is over, so the credentials are read from an environment
that no longer changes. `DetectInv`: while it looks, `Detect` has met no
private address and its fallback is the first of all. `TargetsAreExact` then
rests on arithmetic: the subnet of an address under a mask, a set of numbers
with the same quotient, is the interval that `Hosts` counts through
(`SubnetIs`, `HostsAre`), and the size, converted to an `int` that may be as
narrow as an address, gives the right number of hosts for every mask (for /1 by
wrapping twice) but /0, for which such a build finds none (`AsIntIs`, `CountIs`). Powers of
two are a recursive function (`TwoTo`), whose lemmas are proved by taking the least counterexample.
`AddrBits` is assumed to be at least 3; it is 32 in the code.

**Progress.** `ProgressInv`: the counter gives each call its own number, so
at most one call of a stage carries `Total`, and that one draws the line
whatever it reads of the shared variables, unless the program ends.
`AloneInv`: as long as no two calls have overlapped, the call that runs carries
the stage's count, and between calls the last row, `lastStage` and `lastPct`
agree (`Left`); `Percent`: only the last target makes a hundred. It is assumed
that no stage is named by the empty string and that stages can be told from it.
`RunDrawsTheLine`: `MainSpec` implements `LineSpec`, since nothing else in
`main.go` touches the variables of `progressFn`.

Every safety property and action property of a passing run is stated by a
theorem.
Only model-checked are the liveness properties (`CancelReturns`, `Terminates`,
`WriteReturns`, `GoroutinesEnd`, `CommandReturns` and the return of `ArpScan`
and `SshProbe` within `ImplementsStage`), since the prover has no rules for
fairness. What the parsers `Lldp` and `Ifaces` make of a table is not proved
either, but compared with the tables of `MCSshCollect` by TLC: folds over text
need an induction that no backend can do. Where a theorem needs a least index or
an induction over numbers, it takes the least element of a set from
`WFMin` of `WellFoundedInduction` (the lemmas `Least` and `Induction`).

## 5. Findings

Each has a run that violates a property stating what the repository says.

- **`arp_backoff`** `arpscan.go:341`: the backoff `4<<try` milliseconds
  overflows 64 bits after 42 retries of a frame, is negative first and zero
  later, and the clamp to 50 ms only looks upwards: the remaining retries come
  without a pause. The comment above says "slow down and retry".
- **`ssh_hang`** `client.go:73`: opening a session, asking for a terminal and
  waiting for a session to end depend on the host alone. If it stops answering
  after the handshake (whose deadline is cleared), a worker, and so the scan,
  waits beyond `-scan-timeout`.
- **`health_first`** `health.go:129`: all the text gathered is read again after
  each command, and a format that is looked for earlier replaces what another
  command told first. The comment at `health.go:13` says "First command that
  fills the interesting fields wins; later commands only fill blanks". What holds
  is `HealthKept`.
- **`arp_details`** `pipeline.go:101`: a placeholder vendor is not merged into a
  row, so a host that answers the ping and then ARP from an unregistered or
  randomized address has no vendor, while one that answers ARP alone has one. The
  comment at `pipeline.go:80` says "a single row with the ARP details kept".

Smaller differences met on the way, visible in the models and without a run:
the burst size halves from 3 to 1, below `injectBurstMin` (`arpscan.go:339`);
`readARP` ignores ARP requests, which its comment says are accepted
(`arpscan.go:267`); a reply from an address that was no target is recorded
(`arpscan.go:133`); `ShellOutput` gives stdout and stderr one buffer without a
lock (`client.go:112`), so that the goroutines that fill it may cut off each
other's text and the caller, which is told of no error, gets a part of it or
nothing: no document says that it gets all; a PTR record of "." blanks the name
a login told (`enrich.go:42`); `gatherVersion` and `gatherHealth`
open a shell after a cancellation, the other gathers do not (`collect.go:90`);
`ensureSelf` replaces the vendor and type a login found for this machine when
its row has no MAC (`main.go:308`); `progressFn` is called by all workers and
has no lock (`main.go:179`): besides a line too many or a stale percentage, a
comparison with a half-written `lastStage` can read through a nil pointer.

## 6. What is not modelled

- *The regular expressions* of the parsers, and fields with a single source
  (uptime, family, temperature, administrative state): a line is given by what
  the patterns find in it. Which pattern wins where is modelled.
- *Counters of sub-interface rows* (`ifaces.go:171`): the model does what the
  code does, but no document says what would be right.
- *Outputs cut off by a timeout*, or torn in a shell's buffer, in `SshCollect`,
  where an output is whole or empty; `SshCommand` has both, and shows that the
  caller is told of the first.
- *Handshake* inside `dialSSH`: one step that succeeds, fails or times out.
- *Memory orders* in `Progress` weaker than a coherent word: a word read is the
  one written last.
- *Table output* (`table.go`), *frame and packet encoding*, *the data of the
  OUI table and the hint lists*, *the text of an address* (CIDR, error classes):
  formatting and data.
- *Other flags* than `-max-hosts`, `-no-ping`, `-no-dns` and `-ssh`: they change
  constants only (attempts, workers, timeouts).
- *Deployment files*; the database of the compose file is not used.
- *Time*: timers fire or do not; durations matter only in `ArpInject`.

## 7. Plan

Done, in this order: `Stage`, `IcmpPing`; `ArpScan`, `ArpInject`; `Devices`,
`Pipeline`; `SshProbe`, `SshCommand`, `SshCollect`; `NetScan`; the parsers
`Lines`, `Inventory`, `Lldp`, `Ifaces`; `EnvLoad`, `Iface`, `Startup`;
`Progress`; the compositions `Main` and `Collection`; and the proofs of
section 4.

What could follow: outputs cut off in the middle of a number in `SshCollect`; a
stage's progress calls taken from `IcmpPing` and `SshProbe` instead of
`Progress`'s own callers; the names of hosts whose outputs are out of order, and
what a record then holds.
