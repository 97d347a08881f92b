---------------------------- MODULE ArpScanProofs -----------------------------
(***************************************************************************)
(* What ArpScan guarantees for any addresses, targets, MACs, length of the *)
(* capture queue and amount of traffic.                                    *)
(***************************************************************************)
EXTENDS ArpScan, TLAPS

\* The reader holds one reply, of somebody else, exactly while it records.
HandInv ==
  /\ main \in {"start", "filter"} => reader = "none"
  /\ packet # {} <=> reader = "record"
  /\ \A p \in packet : IsReply(p)
  /\ \A p, q \in packet : p = q

\* Only IPv4 addresses are written to or recorded.
AddrInv ==
  /\ main \in {"write", "gap"} =>
       next \in 1 .. Len(Targets) /\ Targets[next] \in IPv4
  /\ \A a \in Addr : seen[a] # NoMAC => a \in IPv4

TypeInv == TypeOK /\ HandInv /\ AddrInv

LEMMA LenTargets == /\ Len(Targets) \in Nat
                    /\ DOMAIN Targets = 1 .. Len(Targets)
                    /\ \A i \in 1 .. Len(Targets) : Targets[i] \in Addr
BY TargetsAssumption

LEMMA TypeInit == Init => TypeInv
<1> SUFFICES ASSUME Init PROVE TypeInv
  OBVIOUS
<1> USE DEF Init
<1>1. next \in 1 .. Len(Targets) + 1 /\ done \in 0 .. Len(Targets)
  BY LenTargets
<1>2. traffic \in 0 .. Traffic /\ queue \in Seq(Packet)
  BY BoundAssumption
<1>3. TypeOK
  BY <1>1, <1>2 DEF TypeOK
<1>4. QED
  BY <1>3 DEF TypeInv, HandInv, AddrInv

\* The goroutine that called Scan keeps the types.
LEMMA TypeScan == TypeInv /\ Scan => TypeInv'
<1> SUFFICES ASSUME TypeInv, Scan PROVE TypeInv'
  OBVIOUS
<1> USE LenTargets DEF TypeInv, TypeOK, HandInv, AddrInv, readVars, netVars
<1>1. CASE Refuse
  BY <1>1 DEF Refuse
<1>2. CASE Open
  BY <1>2 DEF Open
<1>3. CASE FilterFails
  BY <1>3 DEF FilterFails
<1>4. CASE StartReader
  BY <1>4 DEF StartReader
<1>5. CASE NextTarget
  <2>1. UNCHANGED <<ctx, sendErr, stop, open, result, sent, readVars, queue,
                    netVars>>
    BY <1>5 DEF NextTarget
  <2>2. CASE main' = "settle" /\ UNCHANGED <<next, done>>
    BY <2>1, <2>2
  <2>3. CASE next <= Len(Targets) /\ next' = next + 1 /\ done' = next
             /\ main = "send" /\ UNCHANGED main
    BY <2>1, <2>3
  <2>4. CASE next <= Len(Targets) /\ Targets[next] \in IPv4
             /\ main' = "write" /\ UNCHANGED <<next, done>>
    BY <2>1, <2>4
  <2>5. QED
    BY <1>5, <2>2, <2>3, <2>4 DEF NextTarget
<1>6. CASE FrameOut
  BY <1>6 DEF FrameOut
<1>7. CASE Written
  BY <1>7 DEF Written
<1>8. CASE WriteCancelled
  BY <1>8 DEF WriteCancelled
<1>9. CASE WriteFails
  BY <1>9 DEF WriteFails
<1>10. CASE Settled
  BY <1>10 DEF Settled
<1>11. CASE Stop
  BY <1>11 DEF Stop
<1>12. CASE CloseHandles
  BY <1>12 DEF CloseHandles
<1>13. CASE Return
  BY <1>13 DEF Return, Recorded
<1>14. QED
  BY <1>1, <1>2, <1>3, <1>4, <1>5, <1>6, <1>7, <1>8, <1>9, <1>10, <1>11,
     <1>12, <1>13 DEF Scan

\* So does the reader.
LEMMA TypeRead == TypeInv /\ ReadARP => TypeInv'
<1> SUFFICES ASSUME TypeInv, ReadARP PROVE TypeInv'
  OBVIOUS
<1> USE DEF TypeInv, TypeOK, HandInv, AddrInv, mainVars, netVars
<1>1. CASE ReadPacket
  <2>1. Head(queue) \in Packet /\ Tail(queue) \in Seq(Packet)
    BY <1>1 DEF ReadPacket
  <2>2. QED
    BY <1>1, <2>1 DEF ReadPacket
<1>2. CASE OnReply
  <2>1. PICK p \in packet :
          seen' = IF seen[p.ip] = NoMAC THEN [seen EXCEPT ![p.ip] = p.mac]
                  ELSE seen
    BY <1>2 DEF OnReply
  <2>2. p.ip \in Addr /\ p.ip \in IPv4 /\ p.mac \in MAC
    BY AddrAssumption DEF Packet
  <2>3. QED
    BY <1>2, <2>1, <2>2 DEF OnReply
<1>3. CASE ReaderEnds
  BY <1>3 DEF ReaderEnds
<1>4. QED
  BY <1>1, <1>2, <1>3 DEF ReadARP

LEMMA TypeCapture == ASSUME NEW p \in Packet
                     PROVE  TypeInv /\ Capture(p) => TypeInv'
<1> SUFFICES ASSUME TypeInv, Capture(p) PROVE TypeInv'
  OBVIOUS
<1> USE DEF TypeInv, TypeOK, HandInv, AddrInv, mainVars, readVars
<1>1. p.ip \in Addr /\ p.ip \in IPv4 /\ p.mac \in MAC
  BY AddrAssumption DEF Packet
<1>2. first' \in [Addr -> MAC \cup {NoMAC}]
  BY <1>1 DEF Capture
<1>3. queue' \in Seq(Packet) /\ traffic' \in 0 .. Traffic
  BY BoundAssumption DEF Capture
<1>4. QED
  BY <1>2, <1>3 DEF Capture

LEMMA TypeStep == TypeInv /\ [Next]_vars => TypeInv'
<1> SUFFICES ASSUME TypeInv, [Next]_vars PROVE TypeInv'
  OBVIOUS
<1>1. CASE Cancel \/ Finished \/ UNCHANGED vars
  BY <1>1 DEF Cancel, Finished, vars, TypeInv, TypeOK, HandInv, AddrInv,
              mainVars, readVars, netVars
<1>2. QED
  BY <1>1, TypeScan, TypeRead, TypeCapture DEF Next

\* Type correctness: every variable keeps its type in every sweep.
THEOREM TypeCorrect == Spec => []TypeOK
<1>1. TypeInv => TypeOK
  BY DEF TypeInv
<1>2. QED
  BY TypeInit, TypeStep, <1>1, PTL DEF Spec

-----------------------------------------------------------------------------
(* Who is there when.                                                      *)

\* The reader lives from StartReader until after Stop, the handle from Open
\* to CloseHandles; Return waits for both.
PhaseInv ==
  /\ main \in {"start", "filter"} <=> reader = "none" /\ ~Finishes
  /\ reader = "none" => \A a \in Addr : seen[a] = NoMAC
  /\ reader = "done" => stop
  /\ stop => main \in {"close", "join", "returned", "failed"}
  /\ main \in {"close", "join"} => stop
  /\ ~open <=> main \in {"start", "join", "returned", "failed"}
  /\ ~Finishes => result = {}
  /\ NoStragglers

LEMMA PhaseInit == Init => PhaseInv
BY MACAssumption DEF Init, PhaseInv, NoStragglers, Finishes

LEMMA PhaseStep == TypeInv /\ PhaseInv /\ [Next]_vars => PhaseInv'
<1> SUFFICES ASSUME TypeInv, PhaseInv, [Next]_vars PROVE PhaseInv'
  OBVIOUS
<1> USE DEF PhaseInv, NoStragglers, Finishes, Recorded, mainVars, readVars,
            netVars
<1>1. CASE Refuse
  BY <1>1 DEF Refuse
<1>2. CASE Open
  BY <1>2 DEF Open
<1>3. CASE FilterFails
  BY <1>3 DEF FilterFails
<1>4. CASE StartReader
  BY <1>4 DEF StartReader
<1>5. CASE NextTarget
  BY <1>5 DEF NextTarget
<1>6. CASE FrameOut \/ Written \/ WriteCancelled \/ WriteFails
  BY <1>6 DEF FrameOut, Written, WriteCancelled, WriteFails
<1>7. CASE Settled \/ Stop
  BY <1>7 DEF Settled, Stop
<1>8. CASE CloseHandles
  BY <1>8 DEF CloseHandles
<1>9. CASE Return
  BY <1>9 DEF Return
<1>10. CASE ReadPacket
  BY <1>10 DEF ReadPacket
<1>11. CASE OnReply
  <2>1. UNCHANGED mainVars /\ reader' = "select" /\ reader = "record"
    BY <1>11 DEF OnReply
  <2>2. ~Finishes
    BY <2>1
  <2>3. QED
    BY <2>1, <2>2
<1>12. CASE ReaderEnds
  <2>1. UNCHANGED mainVars /\ UNCHANGED seen /\ reader' = "done"
    BY <1>12 DEF ReaderEnds
  <2>2. main = "join" \/ stop
    BY <1>12 DEF ReaderEnds
  <2>3. QED
    BY <2>1, <2>2, <1>12 DEF ReaderEnds
<1>13. ASSUME NEW p \in Packet, Capture(p) PROVE PhaseInv'
  BY <1>13 DEF Capture
<1>14. CASE Cancel \/ Finished \/ UNCHANGED vars
  BY <1>14 DEF Cancel, Finished, vars
<1>15. QED
  BY <1>1, <1>2, <1>3, <1>4, <1>5, <1>6, <1>7, <1>8, <1>9, <1>10, <1>11,
     <1>12, <1>13, <1>14 DEF Next, Scan, ReadARP

\* Scan leaves nothing behind: reader gone, handles closed, and the result
\* is what was recorded, or nothing with an error.
THEOREM StragglerFree == Spec => []NoStragglers
<1>1. PhaseInv => NoStragglers
  BY DEF PhaseInv
<1>2. QED
  BY TypeInit, TypeStep, PhaseInit, PhaseStep, <1>1, PTL DEF Spec

-----------------------------------------------------------------------------
(* What is recorded.                                                       *)

\* Nothing but Capture, ReadPacket and OnReply moves a reply.
LEMMA ReplySteps ==
  [Next]_vars => \/ UNCHANGED <<queue, packet, seen, first>>
                 \/ ReadPacket \/ OnReply
                 \/ \E p \in Packet : Capture(p)
<1> USE DEF mainVars, readVars, netVars
<1>1. Scan => UNCHANGED <<queue, packet, seen, first>>
  BY DEF Scan, Refuse, Open, FilterFails, StartReader, NextTarget, FrameOut,
         Written, WriteCancelled, WriteFails, Settled, Stop, CloseHandles,
         Return
<1>2. ReaderEnds \/ Cancel \/ Finished \/ UNCHANGED vars
        => UNCHANGED <<queue, packet, seen, first>>
  BY DEF ReaderEnds, Cancel, Finished, vars
<1>3. QED
  BY <1>1, <1>2 DEF Next, ReadARP

\* The i-th packet of the queue is a reply of a.
Replies(i, a) == IsReply(queue[i]) /\ queue[i].ip = a

\* A reply of a is in the queue or in the reader's hand.
Pending(a) == \/ \E p \in packet : p.ip = a
              \/ \E i \in DOMAIN queue : Replies(i, a)

\* As long as a has no entry, the next reply of it to be recorded is the
\* first one captured: that in the reader's hand, or else the foremost in
\* the queue.
FirstOf(a) ==
  /\ first[a] = NoMAC => seen[a] = NoMAC /\ ~Pending(a)
  /\ first[a] # NoMAC => seen[a] # NoMAC \/ Pending(a)
  /\ seen[a] # NoMAC => seen[a] = first[a]
  /\ first[a] # SelfMAC
  /\ seen[a] = NoMAC =>
       /\ \A p \in packet : p.ip = a => p.mac = first[a]
       /\ (\A p \in packet : p.ip # a) =>
            \A i \in DOMAIN queue :
              Replies(i, a) /\ (\A j \in 1 .. i - 1 : ~Replies(j, a))
                => queue[i].mac = first[a]

FirstInv == \A a \in Addr : FirstOf(a)

LEMMA FirstInit == Init => FirstInv
<1> SUFFICES ASSUME Init, NEW a \in Addr PROVE FirstOf(a)
  BY DEF FirstInv
<1>1. ~Pending(a)
  BY DEF Init, Pending
<1>2. QED
  BY <1>1, MACAssumption DEF Init, FirstOf

LEMMA FirstRead ==
  ASSUME TypeInv, ReadPacket, NEW a \in Addr, FirstOf(a)
  PROVE  FirstOf(a)'
<1> DEFINE h == queue[1]
           n == Len(queue)
<1>1. /\ n \in Nat \ {0} /\ DOMAIN queue = 1 .. n
      /\ DOMAIN queue' = 1 .. n - 1
      /\ \A i \in 1 .. n - 1 : queue'[i] = queue[i + 1]
      /\ packet' = {p \in {h} : IsReply(p)}
      /\ seen' = seen /\ first' = first
  BY DEF TypeInv, TypeOK, ReadPacket, netVars
<1>2. packet = {}
  BY DEF TypeInv, HandInv, ReadPacket
<1> HIDE DEF n
<1>3. \A i \in 1 .. n - 1 : Replies(i, a)' <=> Replies(i + 1, a)
  BY <1>1 DEF Replies, IsReply
<1>4. CASE Replies(1, a)
  <2>1. Pending(a) /\ Pending(a)'
    BY <1>1, <1>4 DEF Pending, Replies
  <2>2. seen[a] = NoMAC => h.mac = first[a]
    BY <1>1, <1>2, <1>4 DEF FirstOf
  <2>3. packet' = {h} /\ h.ip = a
    BY <1>1, <1>4 DEF Replies
  <2>4. QED
    BY <1>1, <2>1, <2>2, <2>3 DEF FirstOf
<1>5. CASE ~Replies(1, a)
  <2>1. \A p \in packet' : p.ip # a
    BY <1>1, <1>5 DEF Replies
  <2>2. ASSUME NEW i \in DOMAIN queue, Replies(i, a) PROVE Pending(a)'
    <3>1. i # 1 /\ i - 1 \in 1 .. n - 1 /\ (i - 1) + 1 = i
      BY <1>1, <1>5, <2>2
    <3>2. Replies(i - 1, a)'
      BY <1>3, <2>2, <3>1
    <3>3. i - 1 \in DOMAIN queue'
      BY <1>1, <3>1
    <3>4. QED
      BY <3>2, <3>3 DEF Pending
  <2>3. ASSUME NEW i \in DOMAIN queue', Replies(i, a)' PROVE Pending(a)
    <3>1. i \in 1 .. n - 1 /\ i + 1 \in DOMAIN queue
      BY <1>1
    <3>2. QED
      BY <1>3, <2>3, <3>1 DEF Pending
  <2>4. Pending(a)' <=> Pending(a)
    BY <1>2, <2>1, <2>2, <2>3 DEF Pending
  <2>5. ASSUME seen[a] = NoMAC, NEW i \in DOMAIN queue', Replies(i, a)',
               \A j \in 1 .. i - 1 : ~Replies(j, a)'
        PROVE  queue'[i].mac = first[a]
    <3>1. i \in 1 .. n - 1 /\ i + 1 \in DOMAIN queue /\ (i + 1) - 1 = i
      BY <1>1
    <3>2. Replies(i + 1, a)
      BY <1>3, <2>5, <3>1
    <3>3. ASSUME NEW j \in 1 .. i PROVE ~Replies(j, a)
      <4>1. CASE j = 1
        BY <1>5, <4>1
      <4>2. CASE j # 1
        <5>1. j - 1 \in 1 .. i - 1 /\ j - 1 \in 1 .. n - 1 /\ (j - 1) + 1 = j
          BY <1>1, <3>1, <4>2
        <5>2. QED
          BY <1>3, <2>5, <5>1
      <4>3. QED
        BY <4>1, <4>2
    <3>4. queue[i + 1].mac = first[a]
      BY <1>2, <2>5, <3>1, <3>2, <3>3 DEF FirstOf
    <3>5. QED
      BY <1>1, <3>1, <3>4
  <2>6. QED
    BY <1>1, <2>1, <2>4, <2>5 DEF FirstOf
<1>6. QED
  BY <1>4, <1>5

LEMMA FirstOnReply ==
  ASSUME TypeInv, OnReply, NEW a \in Addr, FirstOf(a)
  PROVE  FirstOf(a)'
<1>1. PICK p \in packet :
        seen' = IF seen[p.ip] = NoMAC THEN [seen EXCEPT ![p.ip] = p.mac]
                ELSE seen
  BY DEF OnReply
<1>2. packet' = {} /\ queue' = queue /\ first' = first
  BY DEF OnReply, netVars
<1>3. /\ seen \in [Addr -> MAC \cup {NoMAC}] /\ p.ip \in Addr /\ p.mac \in MAC
      /\ \A q \in packet : q = p
  BY AddrAssumption DEF TypeInv, TypeOK, HandInv, Packet
<1>4. \A i : Replies(i, a)' <=> Replies(i, a)
  BY <1>2 DEF Replies, IsReply
<1>5. CASE p.ip = a
  <2>1. Pending(a)
    BY <1>5 DEF Pending
  <2>2. first[a] # NoMAC /\ (seen[a] = NoMAC => p.mac = first[a])
    BY <1>5, <2>1 DEF FirstOf
  <2>3. seen'[a] = first[a]
    BY <1>1, <1>3, <1>5, <2>2 DEF FirstOf
  <2>4. QED
    BY <1>2, <2>2, <2>3 DEF FirstOf
<1>6. CASE p.ip # a
  <2>1. seen'[a] = seen[a]
    BY <1>1, <1>3, <1>6
  <2>2. \A q \in packet : q.ip # a
    BY <1>3, <1>6
  <2>3. Pending(a)' <=> Pending(a)
    BY <1>2, <1>4, <2>2 DEF Pending
  <2>4. QED
    BY <1>2, <1>4, <2>1, <2>2, <2>3 DEF FirstOf
<1>7. QED
  BY <1>5, <1>6

LEMMA FirstCapture ==
  ASSUME TypeInv, NEW p \in Packet, Capture(p), NEW a \in Addr, FirstOf(a)
  PROVE  FirstOf(a)'
<1>0. PICK n \in Nat : n = Len(queue)
  BY DEF TypeInv, TypeOK
<1>1. /\ n \in Nat /\ DOMAIN queue = 1 .. n /\ DOMAIN queue' = 1 .. n + 1
      /\ \A i \in 1 .. n : queue'[i] = queue[i]
      /\ queue'[n + 1] = p
      /\ packet' = packet /\ seen' = seen
  BY <1>0 DEF TypeInv, TypeOK, Capture, readVars
<1>2. /\ first \in [Addr -> MAC \cup {NoMAC}] /\ p.ip \in Addr /\ p.mac \in MAC
      /\ first' = IF IsReply(p) /\ first[p.ip] = NoMAC
                    THEN [first EXCEPT ![p.ip] = p.mac]
                    ELSE first
  BY AddrAssumption DEF TypeInv, TypeOK, Packet, Capture
<1>3. /\ \A i \in 1 .. n : Replies(i, a)' <=> Replies(i, a)
      /\ Replies(n + 1, a)' <=> IsReply(p) /\ p.ip = a
  BY <1>1 DEF Replies, IsReply
<1>4. Pending(a)' <=> Pending(a) \/ (IsReply(p) /\ p.ip = a)
  <2>1. 1 .. n + 1 = (1 .. n) \cup {n + 1}
    BY <1>1
  <2>2. QED
    BY <1>1, <1>3, <2>1 DEF Pending
<1>5. CASE ~(IsReply(p) /\ p.ip = a)
  <2>1. first'[a] = first[a]
    BY <1>2, <1>5
  <2>2. ASSUME NEW i \in DOMAIN queue', Replies(i, a)'
        PROVE  /\ i \in DOMAIN queue /\ Replies(i, a) /\ queue'[i] = queue[i]
               /\ \A j \in 1 .. i - 1 : Replies(j, a)' <=> Replies(j, a)
    <3>1. i \in 1 .. n
      BY <1>1, <1>3, <1>5, <2>2
    <3>2. \A j \in 1 .. i - 1 : j \in 1 .. n
      BY <1>1, <3>1
    <3>3. QED
      BY <1>1, <1>3, <2>2, <3>1, <3>2
  <2>3. QED
    BY <1>1, <1>4, <1>5, <2>1, <2>2 DEF FirstOf
<1>6. CASE IsReply(p) /\ p.ip = a /\ first[a] = NoMAC
  <2>1. first'[a] = p.mac /\ p.mac # SelfMAC /\ p.mac # NoMAC
    BY <1>2, <1>6, MACAssumption DEF IsReply
  <2>2. seen[a] = NoMAC /\ ~Pending(a)
    BY <1>6 DEF FirstOf
  <2>3. ASSUME NEW i \in DOMAIN queue', Replies(i, a)'
        PROVE  i = n + 1
    BY <1>1, <1>3, <2>2, <2>3 DEF Pending
  <2>4. \A q \in packet' : q.ip # a
    BY <1>1, <2>2 DEF Pending
  <2>5. QED
    BY <1>1, <1>4, <1>6, <2>1, <2>2, <2>3, <2>4 DEF FirstOf
<1>7. CASE IsReply(p) /\ p.ip = a /\ first[a] # NoMAC
  <2>1. first'[a] = first[a]
    BY <1>2, <1>7
  <2>2. ASSUME seen[a] = NoMAC, \A q \in packet : q.ip # a,
               NEW i \in DOMAIN queue', Replies(i, a)',
               \A j \in 1 .. i - 1 : ~Replies(j, a)'
        PROVE  queue'[i].mac = first[a]
    <3>1. PICK k \in DOMAIN queue : Replies(k, a)
      BY <1>7, <2>2 DEF FirstOf, Pending
    <3>2. k \in 1 .. n /\ Replies(k, a)'
      BY <1>1, <1>3, <3>1
    <3>3. i \in 1 .. n
      BY <1>1, <2>2, <3>2
    <3>4. Replies(i, a) /\ \A j \in 1 .. i - 1 : ~Replies(j, a)
      BY <1>1, <1>3, <2>2, <3>3
    <3>5. QED
      BY <1>1, <2>2, <3>3, <3>4 DEF FirstOf
  <2>3. QED
    BY <1>1, <1>4, <1>7, <2>1, <2>2 DEF FirstOf
<1>8. QED
  BY <1>5, <1>6, <1>7

LEMMA FirstStep == TypeInv /\ FirstInv /\ [Next]_vars => FirstInv'
<1> SUFFICES ASSUME TypeInv, FirstInv, [Next]_vars, NEW a \in Addr
             PROVE  FirstOf(a)'
  BY DEF FirstInv
<1>1. FirstOf(a)
  BY DEF FirstInv
<1>2. CASE UNCHANGED <<queue, packet, seen, first>>
  BY <1>1, <1>2 DEF FirstOf, Pending, Replies, IsReply
<1>3. QED
  BY <1>1, <1>2, ReplySteps, FirstRead, FirstOnReply, FirstCapture

\* seen: whatever is captured in whatever order, an address is recorded with
\* the MAC of the first reply captured from it, never with ours.
THEOREM FirstWins == Spec => []FirstReplyWins
<1>1. FirstInv => FirstReplyWins
  BY DEF FirstInv, FirstOf, FirstReplyWins
<1>2. QED
  BY TypeInit, TypeStep, FirstInit, FirstStep, <1>1, PTL DEF Spec

\* The reader outlives what it cannot use and loses no captured reply.
THEOREM NothingSkipped == Spec => []RepliesKept
<1>1. PhaseInv /\ FirstInv => RepliesKept
  BY DEF PhaseInv, FirstInv, FirstOf, Pending, Replies, RepliesKept
<1>2. QED
  BY TypeInit, TypeStep, PhaseInit, PhaseStep, FirstInit, FirstStep, <1>1,
     PTL DEF Spec

-----------------------------------------------------------------------------
(* The contract of a discovery method.                                     *)

LEMMA ContractInit == Init => Contract!Init
BY DEF Init, Contract!Init, Finishes, Recorded

\* first and Recorded change with Capture and OnReply only, the phase and the
\* result with the ways out of Scan.
LEMMA ContractStep ==
  TypeInv /\ PhaseInv /\ FirstInv /\ [Next]_vars => [Contract!Next]_(Contract!vars)
<1> SUFFICES ASSUME TypeInv, PhaseInv, FirstInv, [Next]_vars
             PROVE  [Contract!Next]_(Contract!vars)
  OBVIOUS
<1> USE DEF Contract!vars, mainVars, readVars, netVars, Finishes, Recorded
<1>1. CASE Refuse
  BY <1>1 DEF Refuse, Contract!Next, Contract!Fail
<1>2. CASE Open
  <2>1. CASE Targets = <<>>
    <3>1. result' = Recorded
      BY <1>2, <2>1 DEF Open, PhaseInv
    <3>2. Contract!Return
      BY <1>2, <2>1, <3>1 DEF Open, Contract!Return
    <3>3. QED
      BY <3>2 DEF Contract!Next
  <2>2. CASE Targets # <<>>
    BY <1>2, <2>2 DEF Open
  <2>3. QED
    BY <2>1, <2>2
<1>3. CASE FilterFails
  BY <1>3 DEF FilterFails, Contract!Next, Contract!Fail
<1>4. CASE \/ StartReader \/ NextTarget \/ FrameOut \/ Written
           \/ WriteCancelled \/ WriteFails \/ Settled \/ Stop
           \/ CloseHandles \/ ReadPacket \/ ReaderEnds
  BY <1>4 DEF StartReader, NextTarget, FrameOut, Written, WriteCancelled,
              WriteFails, Settled, Stop, CloseHandles, ReadPacket, ReaderEnds
<1>5. CASE Return
  <2>1. CASE sendErr
    <3>1. Contract!Fail
      BY <1>5, <2>1 DEF Return, Contract!Fail, PhaseInv
    <3>2. QED
      BY <3>1 DEF Contract!Next
  <2>2. CASE ~sendErr
    <3>1. Contract!Return
      BY <1>5, <2>2 DEF Return, Contract!Return
    <3>2. QED
      BY <3>1 DEF Contract!Next
  <2>3. QED
    BY <2>1, <2>2
<1>6. CASE OnReply
  <2>1. PICK p \in packet :
          seen' = IF seen[p.ip] = NoMAC THEN [seen EXCEPT ![p.ip] = p.mac]
                  ELSE seen
    BY <1>6 DEF OnReply
  <2>2. ~Finishes /\ UNCHANGED <<main, first, result>>
    BY <1>6 DEF OnReply, PhaseInv, NoStragglers
  <2>3. /\ p.ip \in Addr /\ p.ip \in IPv4 /\ p.mac # NoMAC
        /\ seen \in [Addr -> MAC \cup {NoMAC}]
    BY AddrAssumption, MACAssumption DEF TypeInv, TypeOK, Packet
  <2>4. Recorded' = Recorded \cup {p.ip}
    BY <2>1, <2>3
  <2>5. first[p.ip] # NoMAC
    BY <2>3 DEF FirstInv, FirstOf, Pending
  <2>6. Contract!Record(p.ip)
    BY <2>2, <2>3, <2>4, <2>5 DEF Contract!Record
  <2>7. QED
    BY <2>3, <2>6 DEF Contract!Next
<1>7. ASSUME NEW p \in Packet, Capture(p)
      PROVE  [Contract!Next]_(Contract!vars)
  <2>1. UNCHANGED <<main, seen, result>>
    BY <1>7 DEF Capture
  <2>2. /\ p.ip \in Addr /\ p.ip \in IPv4 /\ p.mac # NoMAC
        /\ first \in [Addr -> MAC \cup {NoMAC}]
    BY AddrAssumption, MACAssumption DEF TypeInv, TypeOK, Packet
  <2>3. CASE IsReply(p) /\ first[p.ip] = NoMAC
    <3>1. first' = [first EXCEPT ![p.ip] = p.mac]
      BY <1>7, <2>3 DEF Capture
    <3>2. Contract!Answer(p.ip)
      BY <2>1, <2>2, <3>1 DEF Contract!Answer
    <3>3. QED
      BY <2>2, <3>2 DEF Contract!Next
  <2>4. CASE ~(IsReply(p) /\ first[p.ip] = NoMAC)
    BY <1>7, <2>1, <2>4 DEF Capture
  <2>5. QED
    BY <2>3, <2>4
<1>8. CASE Cancel \/ Finished \/ UNCHANGED vars
  BY <1>8 DEF Cancel, Finished, vars
<1>9. QED
  BY <1>1, <1>2, <1>3, <1>4, <1>5, <1>6, <1>7, <1>8 DEF Next, Scan, ReadARP

\* The safety half of ImplementsStage: every step of Scan is a step of the
\* contract of a discovery method, or none.
THEOREM ImplementsSafeStage == Spec => Contract!SafeSpec
BY TypeInit, TypeStep, PhaseInit, PhaseStep, FirstInit, FirstStep,
   ContractInit, ContractStep, PTL DEF Spec, Contract!SafeSpec

-----------------------------------------------------------------------------
(* How far the sweep is.                                                   *)

\* The targets before next were asked once, those after it not at all, and
\* next itself once its frame is out.
SweepInv ==
  /\ done = next - 1
  /\ \A a \in Addr : sent[a] <= 1
  /\ \A i \in 1 .. Len(Targets) :
       /\ i > next => sent[Targets[i]] = 0
       /\ i < next /\ Targets[i] \in IPv4 => sent[Targets[i]] = 1
       /\ i = next /\ main \in {"start", "filter", "send", "write"}
            => sent[Targets[i]] = 0
       /\ i = next /\ main = "gap" => sent[Targets[i]] = 1
  /\ main \in {"settle", "stop", "close", "join"} /\ ~ctx /\ ~sendErr
       => next = Len(Targets) + 1
  /\ main = "returned" /\ ~ctx => next = Len(Targets) + 1

LEMMA SweepInit == Init => SweepInv
BY LenTargets DEF Init, SweepInv

LEMMA SweepScan == TypeInv /\ SweepInv /\ Scan => SweepInv'
<1> SUFFICES ASSUME TypeInv, SweepInv, Scan PROVE SweepInv'
  OBVIOUS
<1>0. /\ next \in 1 .. Len(Targets) + 1
      /\ main \in {"write", "gap"} => next \in 1 .. Len(Targets)
      /\ sent \in [Addr -> Nat]
  BY DEF TypeInv, TypeOK, AddrInv
<1> USE LenTargets DEF SweepInv, readVars, netVars
<1>1. CASE Refuse \/ FilterFails \/ StartReader
  BY <1>0, <1>1 DEF Refuse, FilterFails, StartReader
<1>2. CASE Open
  <2>1. Targets = <<>> => Len(Targets) = 0
    OBVIOUS
  <2>2. QED
    BY <1>0, <1>2, <2>1 DEF Open
<1>3. CASE NextTarget
  BY <1>0, <1>3 DEF NextTarget
<1>4. CASE FrameOut
  <2>1. /\ next \in 1 .. Len(Targets) /\ Targets[next] \in Addr
        /\ sent[Targets[next]] = 0
    BY <1>0, <1>4 DEF FrameOut
  <2>2. /\ sent'[Targets[next]] = 1
        /\ \A a \in Addr : a # Targets[next] => sent'[a] = sent[a]
    BY <1>0, <1>4, <2>1 DEF FrameOut
  <2>3. \A i \in 1 .. Len(Targets) : i # next => Targets[i] # Targets[next]
    BY <2>1, TargetsAssumption
  <2>4. UNCHANGED <<ctx, next, done, sendErr>> /\ main' = "gap"
    BY <1>4 DEF FrameOut
  <2>5. QED
    BY <1>0, <2>1, <2>2, <2>3, <2>4
<1>5. CASE Written
  <2>1. next \in 1 .. Len(Targets) /\ Targets[next] \in IPv4
    BY <1>5 DEF Written, TypeInv, AddrInv
  <2>2. QED
    BY <1>0, <1>5, <2>1 DEF Written
<1>6. CASE WriteCancelled \/ WriteFails
  BY <1>0, <1>6 DEF WriteCancelled, WriteFails
<1>7. CASE Settled \/ Stop \/ CloseHandles
  BY <1>0, <1>7 DEF Settled, Stop, CloseHandles
<1>8. CASE Return
  BY <1>0, <1>8 DEF Return
<1>9. QED
  BY <1>1, <1>2, <1>3, <1>4, <1>5, <1>6, <1>7, <1>8 DEF Scan

LEMMA SweepStep == TypeInv /\ SweepInv /\ [Next]_vars => SweepInv'
<1> SUFFICES ASSUME TypeInv, SweepInv, [Next]_vars PROVE SweepInv'
  OBVIOUS
<1>1. CASE ReadARP \/ Cancel \/ Finished \/ UNCHANGED vars
  <2>1. UNCHANGED mainVars /\ (ctx => ctx')
    BY <1>1 DEF ReadARP, ReadPacket, OnReply, ReaderEnds, Cancel, Finished,
                vars, TypeInv, TypeOK
  <2>2. QED
    BY <2>1 DEF mainVars, SweepInv
<1>2. ASSUME NEW p \in Packet, Capture(p) PROVE SweepInv'
  BY <1>2 DEF Capture, mainVars, SweepInv
<1>3. QED
  BY <1>1, <1>2, SweepScan DEF Next

\* A sweep asks for no address twice; one that was not cancelled and returns
\* devices has asked for every target and reported all of them.
THEOREM SweepIsComplete == Spec => []SweepComplete
<1>1. TypeInv /\ SweepInv => SweepComplete
  BY LenTargets DEF TypeInv, TypeOK, SweepInv, SweepComplete
<1>2. QED
  BY TypeInit, TypeStep, SweepInit, SweepStep, <1>1, PTL DEF Spec
=============================================================================
