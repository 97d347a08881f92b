------------------------------- MODULE ArpScan --------------------------------
(***************************************************************************)
(* The ARP stage, internal/arpscan: Scan writes one request per target     *)
(* while a reader goroutine takes packets from the capture channel and     *)
(* keeps the first MAC each address replies with; after the last request   *)
(* Scan waits for stragglers, stops the reader and returns what it has.    *)
(*                                                                         *)
(* The injector's write is seen from its caller here, as ArpInject shows   *)
(* it to behave: the frame goes out at most once, and only the context's   *)
(* error leaves open whether it did.                                       *)
(***************************************************************************)
EXTENDS Integers, Sequences

CONSTANTS Addr,      \* every address that occurs
          IPv4,      \* those for which To4() is not nil
          Targets,   \* the targets of the request
          MAC,       \* hardware addresses
          SelfMAC,   \* that of the interface
          NoMAC,     \* the value of seen for an address without an entry
          QueueCap,  \* packets captured and not yet read (a bound)
          Traffic    \* packets that reach the interface (a bound)

ASSUME AddrAssumption == IPv4 \subseteq Addr

\* LocalNet.Hosts enumerates the subnet: no address occurs twice.
ASSUME TargetsAssumption ==
  /\ Targets \in Seq(Addr)
  /\ \A i, j \in DOMAIN Targets : Targets[i] = Targets[j] => i = j

ASSUME MACAssumption ==
  /\ SelfMAC \in MAC
  /\ NoMAC \notin MAC

ASSUME BoundAssumption == QueueCap \in Nat /\ Traffic \in Nat

\* A captured packet as far as the reader looks at it: an ARP reply, an ARP
\* request, or anything it cannot use (no ARP layer, addresses too short).
Packet == [op : {"reply", "request", "other"}, ip : IPv4, mac : MAC]

VARIABLES
  ctx,      \* the scan context is done
  main,     \* Scan: "start","filter","send","write","gap","settle","stop",
            \* "close","join","returned","failed"
  next,     \* index in Targets of the next address to probe
  done,     \* the first argument of the last progress call
  sendErr,  \* sendErr is set
  stop,     \* the channel stop is closed
  open,     \* the capture handle is open
  queue,    \* packets captured and not yet read, in order
  reader,   \* "none","select","record","done"
  packet,   \* the reply the reader has in hand (a set of at most one)
  seen,     \* address -> the MAC recorded for it
  result,   \* addresses of the devices returned
  traffic,  \* packets so far (bounded by Traffic)
  first,    \* history: the MAC of the first reply captured from an address
  sent      \* history: requests on the wire for each address

mainVars == <<main, next, done, sendErr, stop, open, result, sent>>
readVars == <<reader, packet, seen>>
netVars == <<traffic, first>>
vars == <<ctx, mainVars, readVars, queue, netVars>>

Init ==
  /\ ctx = FALSE
  /\ main = "start"
  /\ next = 1
  /\ done = 0
  /\ sendErr = FALSE
  /\ stop = FALSE
  /\ open = FALSE
  /\ queue = <<>>
  /\ reader = "none"
  /\ packet = {}
  /\ seen = [a \in Addr |-> NoMAC]
  /\ result = {}
  /\ traffic = 0
  /\ first = [a \in Addr |-> NoMAC]
  /\ sent = [a \in Addr |-> 0]

-----------------------------------------------------------------------------
(* The goroutine that called Scan.                                         *)

\* The source is not an IPv4 address, the interface has no MAC, or there is
\* no capture handle to be had.
Refuse ==
  /\ main = "start"
  /\ main' = "failed"
  /\ UNCHANGED <<ctx, next, done, sendErr, stop, open, result, sent, readVars,
                 queue, netVars>>

\* Without a target Scan returns at once; else both handles are open, or one
\* that serves for both.
Open ==
  /\ main = "start"
  /\ main' = IF Targets = <<>> THEN "returned" ELSE "filter"
  /\ open' = (Targets # <<>>)
  /\ UNCHANGED <<ctx, next, done, sendErr, stop, result, sent, readVars,
                 queue, netVars>>

\* The deferred closeHandles runs.
FilterFails ==
  /\ main = "filter"
  /\ main' = "failed"
  /\ open' = FALSE
  /\ UNCHANGED <<ctx, next, done, sendErr, stop, result, sent, readVars,
                 queue, netVars>>

\* The BPF filter is set; the reader is started.
StartReader ==
  /\ main = "filter"
  /\ main' = "send"
  /\ reader' = "select"
  /\ UNCHANGED <<ctx, next, done, sendErr, stop, open, result, sent, packet,
                 seen, queue, netVars>>

\* The head of the send loop: the end, a cancellation, or the next target,
\* which only counts as progress when it is not IPv4.
NextTarget ==
  /\ main = "send"
  /\ \/ /\ next > Len(Targets) \/ ctx
        /\ main' = "settle"
        /\ UNCHANGED <<next, done>>
     \/ /\ next <= Len(Targets) /\ ~ctx
        /\ Targets[next] \notin IPv4
        /\ next' = next + 1
        /\ done' = next
        /\ UNCHANGED main
     \/ /\ next <= Len(Targets) /\ ~ctx
        /\ Targets[next] \in IPv4
        /\ main' = "write"
        /\ UNCHANGED <<next, done>>
  /\ UNCHANGED <<ctx, sendErr, stop, open, result, sent, readVars, queue,
                 netVars>>

\* Inside inj.write: the frame goes out ...
FrameOut ==
  /\ main = "write"
  /\ main' = "gap"
  /\ sent' = [sent EXCEPT ![Targets[next]] = @ + 1]
  /\ UNCHANGED <<ctx, next, done, sendErr, stop, open, result, readVars,
                 queue, netVars>>

\* ... and write returns nil, after the gap if one was due,
Written ==
  /\ main = "gap"
  /\ main' = "send"
  /\ next' = next + 1
  /\ done' = next
  /\ UNCHANGED <<ctx, sendErr, stop, open, result, sent, readVars, queue,
                 netVars>>

\* or the context's error, with the frame sent or not,
WriteCancelled ==
  /\ main \in {"write", "gap"}
  /\ ctx
  /\ main' = "settle"
  /\ UNCHANGED <<ctx, next, done, sendErr, stop, open, result, sent, readVars,
                 queue, netVars>>

\* Mutant of WriteFails: the error is forgotten.
WriteFailsQuietly ==
  /\ main = "write"
  /\ main' = "settle"
  /\ UNCHANGED <<ctx, next, done, sendErr, stop, open, result, sent, readVars,
                 queue, netVars>>

\* or another error, with the frame not sent.
WriteFails ==
  /\ main = "write"
  /\ main' = "settle"
  /\ sendErr' = TRUE
  /\ UNCHANGED <<ctx, next, done, stop, open, result, sent, readVars, queue,
                 netVars>>

\* Mutant of Settled: it waits for the cancellation only.
SettledByCancel ==
  /\ main = "settle"
  /\ ctx
  /\ main' = "stop"
  /\ UNCHANGED <<ctx, next, done, sendErr, stop, open, result, sent, readVars,
                 queue, netVars>>

\* The settle timer fires or the context is done.
Settled ==
  /\ main = "settle"
  /\ main' = "stop"
  /\ UNCHANGED <<ctx, next, done, sendErr, stop, open, result, sent, readVars,
                 queue, netVars>>

Stop ==
  /\ main = "stop"
  /\ main' = "close"
  /\ stop' = TRUE
  /\ UNCHANGED <<ctx, next, done, sendErr, open, result, sent, readVars, queue,
                 netVars>>

CloseHandles ==
  /\ main = "close"
  /\ main' = "join"
  /\ open' = FALSE
  /\ UNCHANGED <<ctx, next, done, sendErr, stop, result, sent, readVars, queue,
                 netVars>>

Recorded == {a \in Addr : seen[a] # NoMAC}

\* Mutant of Return: no readerDone.Wait().
ReturnEarly ==
  /\ main = "join"
  /\ main' = IF sendErr THEN "failed" ELSE "returned"
  /\ result' = IF sendErr THEN {} ELSE Recorded
  /\ UNCHANGED <<ctx, next, done, sendErr, stop, open, sent, readVars, queue,
                 netVars>>

\* readerDone.Wait() returns; an error of the sender drops what was seen.
Return ==
  /\ main = "join"
  /\ reader = "done"
  /\ main' = IF sendErr THEN "failed" ELSE "returned"
  /\ result' = IF sendErr THEN {} ELSE Recorded
  /\ UNCHANGED <<ctx, next, done, sendErr, stop, open, sent, readVars, queue,
                 netVars>>

Scan == \/ Refuse \/ Open \/ FilterFails \/ StartReader
        \/ NextTarget \/ FrameOut \/ Written \/ WriteCancelled \/ WriteFails
        \/ Settled \/ Stop \/ CloseHandles \/ Return

-----------------------------------------------------------------------------
(* The reader.                                                             *)

\* A reply of somebody else: what readARP passes on.
IsReply(p) == p.op = "reply" /\ p.mac # SelfMAC

\* Mutant of ReadPacket: a packet it cannot use ends the reader.
ReadPacketOrDie ==
  /\ reader = "select"
  /\ queue # <<>>
  /\ queue' = Tail(queue)
  /\ packet' = {p \in {Head(queue)} : IsReply(p)}
  /\ reader' = IF IsReply(Head(queue)) THEN "record" ELSE "done"
  /\ UNCHANGED <<ctx, mainVars, seen, netVars>>

\* The select takes the next packet, even when stop is closed already.
ReadPacket ==
  /\ reader = "select"
  /\ queue # <<>>
  /\ queue' = Tail(queue)
  /\ packet' = {p \in {Head(queue)} : IsReply(p)}
  /\ reader' = IF IsReply(Head(queue)) THEN "record" ELSE "select"
  /\ UNCHANGED <<ctx, mainVars, seen, netVars>>

\* Mutant of OnReply: the last reply wins.
OnReplyLast ==
  /\ reader = "record"
  /\ \E p \in packet : seen' = [seen EXCEPT ![p.ip] = p.mac]
  /\ packet' = {}
  /\ reader' = "select"
  /\ UNCHANGED <<ctx, mainVars, queue, netVars>>

\* onReply: the first MAC of an address stays.
OnReply ==
  /\ reader = "record"
  /\ \E p \in packet :
       seen' = IF seen[p.ip] = NoMAC THEN [seen EXCEPT ![p.ip] = p.mac]
               ELSE seen
  /\ packet' = {}
  /\ reader' = "select"
  /\ UNCHANGED <<ctx, mainVars, queue, netVars>>

\* stop is closed, or the capture channel is closed and drained.
ReaderEnds ==
  /\ reader = "select"
  /\ stop \/ (~open /\ queue = <<>>)
  /\ reader' = "done"
  /\ UNCHANGED <<ctx, mainVars, packet, seen, queue, netVars>>

ReadARP == ReadPacket \/ OnReply \/ ReaderEnds

-----------------------------------------------------------------------------
(* The environment: the network and the operator.                          *)

\* A packet is captured: late, again, or unasked for.  One that finds the
\* capture full is lost and leaves no trace.
Capture(p) ==
  /\ open
  /\ traffic < Traffic
  /\ Len(queue) < QueueCap
  /\ queue' = Append(queue, p)
  /\ traffic' = traffic + 1
  /\ first' = IF IsReply(p) /\ first[p.ip] = NoMAC
                THEN [first EXCEPT ![p.ip] = p.mac]
                ELSE first
  /\ UNCHANGED <<ctx, mainVars, readVars>>

Cancel ==
  /\ ~ctx
  /\ ctx' = TRUE
  /\ UNCHANGED <<mainVars, readVars, queue, netVars>>

Finishes == main \in {"returned", "failed"}

Finished == Finishes /\ UNCHANGED vars

Next == \/ Scan
        \/ ReadARP
        \/ \E p \in Packet : Capture(p)
        \/ Cancel
        \/ Finished

\* Both goroutines are scheduled, write returns and the settle timer fires.
Spec == Init /\ [][Next]_vars /\ WF_vars(Scan) /\ WF_vars(ReadARP)

-----------------------------------------------------------------------------
(* Properties.                                                             *)

TypeOK ==
  /\ ctx \in BOOLEAN
  /\ main \in {"start", "filter", "send", "write", "gap", "settle", "stop",
               "close", "join", "returned", "failed"}
  /\ next \in 1 .. Len(Targets) + 1
  /\ done \in 0 .. Len(Targets)
  /\ sendErr \in BOOLEAN
  /\ stop \in BOOLEAN
  /\ open \in BOOLEAN
  /\ queue \in Seq(Packet)
  /\ reader \in {"none", "select", "record", "done"}
  /\ packet \subseteq Packet
  /\ seen \in [Addr -> MAC \cup {NoMAC}]
  /\ result \subseteq IPv4
  /\ traffic \in 0 .. Traffic
  /\ first \in [Addr -> MAC \cup {NoMAC}]
  /\ sent \in [Addr -> Nat]

\* seen: an address is recorded with the MAC of the first reply captured
\* from it, never with ours, whatever else is captured in between or after.
FirstReplyWins ==
  \A a \in Addr : seen[a] # NoMAC => seen[a] = first[a] /\ seen[a] # SelfMAC

\* When Scan returns a result, the reader is gone and the handles closed,
\* and what it saw is what is returned; with an error nothing is returned.
NoStragglers ==
  /\ Finishes => ~open /\ reader \in {"none", "done"}
  /\ main = "returned" => result = Recorded
  /\ main = "failed" => result = {}

\* A sweep never asks for an address twice; one that returns devices
\* without having been cancelled has asked for every target, and reported
\* all of them as progress.
SweepComplete ==
  /\ \A a \in Addr : sent[a] <= 1
  /\ (main = "returned" /\ ~ctx) =>
       /\ done = Len(Targets)
       /\ \A i \in DOMAIN Targets : Targets[i] \in IPv4 => sent[Targets[i]] = 1

\* The reader outlives packets it cannot use, and until it is stopped no
\* captured reply is lost: its address is recorded, or the reply is still in
\* the queue or in the reader's hand.
RepliesKept ==
  /\ reader = "done" => stop
  /\ \A a \in Addr : first[a] # NoMAC =>
       \/ seen[a] # NoMAC
       \/ \E p \in packet : p.ip = a
       \/ \E i \in DOMAIN queue : IsReply(queue[i]) /\ queue[i].ip = a

\* Scan keeps the contract of a discovery method; in particular it returns,
\* whatever the network does.
Contract == INSTANCE Stage
  WITH Host <- IPv4, found <- Recorded,
       answered <- {a \in Addr : first[a] # NoMAC},
       phase <- IF Finishes THEN main ELSE "running"

ImplementsStage == Contract!Spec
=============================================================================
