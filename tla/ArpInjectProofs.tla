--------------------------- MODULE ArpInjectProofs ----------------------------
(***************************************************************************)
(* What ArpInject guarantees for any burst sizes, number of tries and      *)
(* largest backoff that satisfy InjectAssumption.                          *)
(***************************************************************************)
EXTENDS ArpInject, TLAPS

\* A backoff is at most BackoffMax, and the first one is a real pause.
LEMMA BackoffFacts ==
  ASSUME NEW t \in Nat
  PROVE  /\ Backoff(t) \in -1 .. BackoffMax
         /\ t = 0 => Backoff(t) > 0
<1>0. BackoffMax \in Nat \ {0}
  BY InjectAssumption
<1>1. CASE t < 4
  <2>1. t = 0 \/ t = 1 \/ t = 2 \/ t = 3
    BY <1>1
  <2>2. /\ <<4, 8, 16, 32>>[0 + 1] = 4 /\ <<4, 8, 16, 32>>[1 + 1] = 8
        /\ <<4, 8, 16, 32>>[2 + 1] = 16 /\ <<4, 8, 16, 32>>[3 + 1] = 32
    OBVIOUS
  <2>3. Backoff(t) = LET ms == <<4, 8, 16, 32>>[t + 1]
                     IN  IF ms > BackoffMax THEN BackoffMax ELSE ms
    BY <1>1, <2>1 DEF Backoff
  <2>4. QED
    BY <1>0, <2>1, <2>2, <2>3
<1>2. CASE t \in 4 .. 41
  BY <1>0, <1>2 DEF Backoff
<1>3. CASE t \in 42 .. 55
  <2> DEFINE negative == 15625 % 2^(56 - t) >= 2^(55 - t)
  <2>1. Backoff(t) = IF negative THEN -1 ELSE BackoffMax
    BY <1>3 DEF Backoff
  <2> HIDE DEF negative
  <2>2. QED
    BY <1>0, <1>3, <2>1
<1>4. CASE t >= 56
  BY <1>0, <1>4 DEF Backoff
<1>5. QED
  BY <1>1, <1>2, <1>3, <1>4

LEMMA BurstFacts ==
  /\ BurstMin \in Nat /\ BurstMin >= 1
  /\ BurstMax \in Nat /\ BurstMax >= 1
  /\ BurstStart \in 1 .. BurstMax
  /\ RetryMax \in Nat /\ RetryMax >= 1
  /\ BackoffMax \in Nat /\ BackoffMax >= 1
BY InjectAssumption

\* The frames since the last pause are those of the burst, unless the
\* buffer was full: then there is a real pause before any frame is sent.
PaceInv ==
  /\ pc = "write" => try < RetryMax
  /\ pc = "backoff" => try < RetryMax /\ pause = Backoff(try)
  /\ pc = "gap" => pause = 1 /\ burst = 0 /\ onWire = 1
  /\ pc \in {"idle", "try", "write"} => burst < limit
  /\ pc \in {"idle", "try", "write"} /\ ret \in {"none", "nil"} => unpaused <= burst
  /\ pc \in {"gap", "backoff"} => unpaused <= BurstMax
  /\ pc \in {"try", "write", "backoff", "gap"} => ret \in {"none", "nil"}
  /\ pc = "backoff" => burst = 0 /\ (try > 0 => unpaused = 0)
  /\ pc \in {"try", "write"} /\ try > 0 => unpaused = 0
  /\ unpaused <= BurstMax

IInv == TypeOK /\ FrameOnce /\ PaceInv

LEMMA InitInv == Init => IInv
<1> SUFFICES ASSUME Init PROVE IInv
  OBVIOUS
<1> USE BurstFacts DEF Init
<1>1. burst \in 0 .. BurstMax - 1 /\ limit \in 1 .. BurstMax /\ try \in 0 .. RetryMax
  OBVIOUS
<1>2. pause \in -1 .. BackoffMax /\ onWire \in 0 .. 1 /\ unpaused \in Nat
  OBVIOUS
<1>3. TypeOK
  BY <1>1, <1>2 DEF TypeOK
<1>4. FrameOnce
  BY DEF FrameOnce
<1>5. PaceInv
  BY DEF PaceInv
<1>6. QED
  BY <1>3, <1>4, <1>5 DEF IInv

LEMMA StepInv == IInv /\ [Next]_vars => IInv'
<1> SUFFICES ASSUME IInv, [Next]_vars PROVE IInv'
  OBVIOUS
<1> USE BurstFacts DEF IInv, TypeOK, FrameOnce, PaceInv, Ret
<1>1. CASE Call
  BY <1>1 DEF Call
<1>2. CASE Try
  BY <1>2 DEF Try
<1>3. CASE Sent
  <2>1. CASE burst + 1 < limit
    BY <1>3, <2>1 DEF Sent
  <2>2. CASE ~(burst + 1 < limit)
    BY <1>3, <2>2 DEF Sent
  <2>3. QED
    BY <2>1, <2>2
<1>4. CASE NoBuffer
  <2>1. pause' \in -1 .. BackoffMax
    BY <1>4, BackoffFacts DEF NoBuffer
  <2>2. limit' \in 1 .. BurstMax
    BY <1>4 DEF NoBuffer
  <2>3. QED
    BY <1>4, <2>1, <2>2 DEF NoBuffer
<1>5. CASE WriteFails
  BY <1>5 DEF WriteFails
<1>6. CASE GapOver
  BY <1>6 DEF GapOver, Rested
<1>7. CASE BackoffOver
  <2>1. try = 0 => pause > 0
    BY <1>7, BackoffFacts DEF BackoffOver
  <2>2. unpaused' = 0
    BY <1>7, <2>1 DEF BackoffOver, Rested
  <2>3. QED
    BY <1>7, <2>2 DEF BackoffOver
<1>8. CASE Interrupted
  BY <1>8 DEF Interrupted
<1>9. CASE Cancel \/ Finished \/ UNCHANGED vars
  BY <1>9 DEF Cancel, Finished, vars
<1>10. QED
  BY <1>1, <1>2, <1>3, <1>4, <1>5, <1>6, <1>7, <1>8, <1>9 DEF Next, Write

\* Type correctness; in particular a burst size that stays positive and a
\* pause that never exceeds BackoffMax, however the 64-bit product wraps.
THEOREM TypeCorrect == Spec => []TypeOK
<1>1. IInv => TypeOK
  BY DEF IInv
<1>2. QED
  BY InitInv, StepInv, <1>1, PTL DEF Spec

\* write: a frame goes out once if it returns nil, and not at all if it
\* returns an error other than the context's.
THEOREM WriteIsOnce == Spec => []FrameOnce
<1>1. IInv => FrameOnce
  BY DEF IInv
<1>2. QED
  BY InitInv, StepInv, <1>1, PTL DEF Spec

\* The cadence: never more than BurstMax frames without a pause.
THEOREM SendsArePaced == Spec => []Paced
<1>1. IInv => Paced
  BY DEF IInv, TypeOK, PaceInv, Paced
<1>2. QED
  BY InitInv, StepInv, <1>1, PTL DEF Spec
=============================================================================
