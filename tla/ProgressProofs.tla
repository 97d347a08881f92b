---------------------------- MODULE ProgressProofs ----------------------------
(***************************************************************************)
(* FullLineOnce and StepsShown for any number of workers, targets and      *)
(* stages.  The calls have different counts, so that one of them has the   *)
(* last one, and that call cannot be skipped, whatever it reads of         *)
(* lastPct.  As long as no two calls overlap, lastStage and lastPct are    *)
(* those of the last row, and a call goes on exactly if it shows another.  *)
(***************************************************************************)
EXTENDS Main, TLAPS

Before == {"look", "bytes", "old", "part", "newline", "reset", "store", "ptr",
           "len", "check", "keep", "draw"}

CallsOK ==
  /\ done \in 0 .. Total
  /\ full \in {0, 1}
  /\ pc \in [Workers -> Before \cup {"idle", "end"}]
  /\ n \in [Workers -> Nat]
  /\ \A w \in Workers : pc[w] # "idle" => n[w] \in 1 .. done
  /\ \A v, w \in Workers :
       v # w /\ pc[v] # "idle" /\ pc[w] # "idle" => n[v] # n[w]

\* Worker w is to draw the last line.
LastCall(w) == pc[w] \in Before /\ n[w] = Total

ProgressInv ==
  /\ CallsOK
  /\ full = 1 => done = Total /\ \A w \in Workers : ~LastCall(w)
  /\ over = "no" /\ done = Total => full = 1 \/ \E w \in Workers : LastCall(w)

-----------------------------------------------------------------------------
LEMMA ProgressInit == LineInit => ProgressInv
  BY ProgressAssumption DEF LineInit, ProgressInv, CallsOK, LastCall, Before

LEMMA InvOnce == ProgressInv => FullLineOnce
  BY DEF ProgressInv, CallsOK, LastCall, Before, FullLineOnce, Quiet

\* A step of a call that neither draws the last line nor ends the last call.
LEMMA CallGoesOn ==
  ASSUME ProgressInv, NEW w \in Workers, pc[w] \in Before,
         NEW place \in Before \cup {"idle"}, Goto(w, place),
         place = "idle" => n[w] # Total,
         UNCHANGED <<done, n, over, full>>
  PROVE  ProgressInv'
<1> USE ProgressAssumption DEF ProgressInv, CallsOK
<1>1. /\ pc' = [pc EXCEPT ![w] = place]
      /\ done' = done /\ n' = n /\ over' = over /\ full' = full
  BY DEF Goto
<1>2. CallsOK'
  BY <1>1 DEF Before
<1>3. \A v \in Workers : LastCall(v)' <=> LastCall(v)
  BY <1>1 DEF LastCall, Before
<1> QED
  BY <1>1, <1>2, <1>3

LEMMA ProgressStep == ProgressInv /\ [LineNext]_lineVars => ProgressInv'
<1> SUFFICES ASSUME ProgressInv, [LineNext]_lineVars PROVE ProgressInv'
  OBVIOUS
<1> USE ProgressAssumption DEF ProgressInv, CallsOK
<1>1. ASSUME NEW w \in Workers, Call(w)
      PROVE  ProgressInv'
  <2>1. /\ pc[w] = "idle" /\ done < Total
        /\ pc' = [pc EXCEPT ![w] = "look"]
        /\ done' = done + 1
        /\ n' = [n EXCEPT ![w] = done + 1]
        /\ full' = full /\ over' = over
    BY <1>1 DEF Call, At, Goto
  <2>2. CallsOK'
    BY <2>1 DEF Before
  <2>3. full = 0
    BY <2>1
  <2>4. done' = Total => LastCall(w)'
    BY <2>1 DEF LastCall, Before
  <2> QED
    BY <2>1, <2>2, <2>3, <2>4
<1>2. ASSUME NEW w \in Workers, LookBytes(w)
      PROVE  ProgressInv'
  <2>1. /\ pc[w] \in Before /\ UNCHANGED <<done, n, full>>
        /\ \/ over' = "crashed" /\ pc' = pc
           \/ over' = over /\ \E place \in Before : Goto(w, place)
    BY <1>2 DEF LookBytes, At, Before
  <2>2. CASE over' = "crashed" /\ pc' = pc
    BY <2>1, <2>2 DEF LastCall
  <2>3. CASE over' = over /\ \E place \in Before : Goto(w, place)
    BY <2>1, <2>3, CallGoesOn DEF Before
  <2> QED
    BY <2>1, <2>2, <2>3
<1>3. ASSUME NEW w \in Workers,
             Look(w) \/ LookOld(w) \/ LeaveRow(w) \/ Reset(w) \/ Store(w)
               \/ StoreRest(w) \/ Remember(w)
      PROVE  ProgressInv'
  <2>1. /\ pc[w] \in Before /\ UNCHANGED <<done, n, over, full>>
        /\ \E place \in Before : Goto(w, place)
    BY <1>3 DEF Look, LookOld, LeaveRow, Reset, Store, StoreRest, Remember,
                At, Before
  <2> QED
    BY <2>1, CallGoesOn DEF Before
<1>4. ASSUME NEW w \in Workers, Check(w)
      PROVE  ProgressInv'
  <2>1. /\ pc[w] \in Before /\ UNCHANGED <<done, n, over, full>>
        /\ \E place \in {"idle", "keep"} :
             Goto(w, place) /\ (place = "idle" => n[w] # Total)
    BY <1>4 DEF Check, Skip, At, Before
  <2> QED
    BY <2>1, CallGoesOn DEF Before
<1>5. ASSUME NEW w \in Workers, Draw(w)
      PROVE  ProgressInv'
  <2>1. /\ pc[w] = "draw" /\ UNCHANGED <<done, n, over>>
        /\ full' = IF n[w] = Total THEN full + 1 ELSE full
        /\ Goto(w, IF n[w] = Total THEN "end" ELSE "idle")
    BY <1>5 DEF Draw, At
  <2>2. CASE n[w] # Total
    BY <2>1, <2>2, CallGoesOn DEF Before
  <2>3. CASE n[w] = Total
    <3>1. full = 0 /\ full' = 1 /\ pc' = [pc EXCEPT ![w] = "end"]
      BY <2>1, <2>3 DEF LastCall, Before, Goto
    <3>2. done = Total
      BY <2>1, <2>3
    <3>3. CallsOK'
      BY <2>1, <3>1 DEF Before
    <3>4. \A v \in Workers : ~LastCall(v)'
      BY <2>1, <2>3, <3>1 DEF LastCall, Before
    <3> QED
      BY <2>1, <3>1, <3>2, <3>3, <3>4
  <2> QED
    BY <2>2, <2>3
<1>6. ASSUME NEW w \in Workers, EndRow(w)
      PROVE  ProgressInv'
  <2>1. /\ pc[w] = "end" /\ UNCHANGED <<done, n, over, full>>
        /\ pc' = [pc EXCEPT ![w] = "idle"]
    BY <1>6 DEF EndRow, At, Goto
  <2>2. CallsOK'
    BY <2>1 DEF Before
  <2>3. \A v \in Workers : LastCall(v)' <=> LastCall(v)
    BY <2>1 DEF LastCall, Before
  <2> QED
    BY <2>1, <2>2, <2>3
<1>7. CASE StageEnds
  <2>1. /\ \A w \in Workers : pc[w] = "idle"
        /\ pc' = pc /\ n' = n
        /\ \/ over' = "returned" /\ UNCHANGED <<done, full>>
           \/ done' = 0 /\ full' = 0
    BY <1>7 DEF StageEnds, Quiet
  <2>2. CallsOK'
    BY <2>1 DEF Before
  <2> QED
    BY <2>1, <2>2 DEF LastCall, Before
<1>8. CASE Cancel \/ UNCHANGED lineVars
  <2>1. UNCHANGED <<done, pc, n, over, full>>
    BY <1>8 DEF Cancel, lineVars
  <2> QED
    BY <2>1 DEF LastCall
<1> QED
  BY <1>1, <1>2, <1>3, <1>4, <1>5, <1>6, <1>7, <1>8
     DEF LineNext, Step, LineOver

\* However the calls interleave, and whatever they leave in the variables they
\* share, the complete line of a stage is drawn once.
THEOREM FullLineDrawnOnce == LineSpec => []FullLineOnce
<1>1. ProgressInv /\ [LineNext]_lineVars => ProgressInv'
  BY ProgressStep
<1> QED
  BY <1>1, ProgressInit, InvOnce, PTL DEF LineSpec

-----------------------------------------------------------------------------
(* StepsShown: while no two calls overlap, the one that runs has the count  *)
(* of the running, and what it reads is what the last one left.               *)

\* The variables name the running stage.
Known == lastStage = [len |-> Length[running], ptr |-> running]

\* Nothing of the running stage is on the terminal, and no line of it but the
\* last has the percent that is remembered.
NoRow == row = None /\ lastPct \in {-1, Hundred}

\* The row is of the running stage and of at most m targets.
RowOf(m) ==
  /\ row # None /\ row \in [stage : {running}, n : 1 .. m]
  /\ Known /\ lastPct = Pct(row.n)

\* What the calls for the first m targets leave.
Left(m) == IF m \in 1 .. Total - 1 THEN RowOf(m) /\ lastPct = Pct(m) ELSE NoRow

AtPlace(w) ==
  /\ pc[w] \in {"look", "bytes"} => Left(done - 1)
  /\ pc[w] = "bytes" => lastStage.len = Length[running]
  /\ pc[w] \in {"old", "part", "newline", "reset", "store", "ptr", "len"} =>
       NoRow
  /\ pc[w] = "ptr" => lastStage.len = Length[running]
  /\ pc[w] = "len" => lastStage.ptr = running
  /\ pc[w] \in {"check", "keep"} => Known /\ (NoRow \/ RowOf(done - 1))
  /\ pc[w] = "draw" =>
       /\ Known /\ lastPct = Pct(done)
       /\ (row = None \/ row \in [stage : {running}, n : 1 .. done - 1])
  /\ pc[w] = "end" =>
       /\ lastPct = Hundred /\ done = Total
       /\ row = [stage |-> running, n |-> Total]

\* The call of w is the only one, and has the count of the stage.
Alone(w) ==
  /\ \A v \in Workers : v # w => pc[v] = "idle"
  /\ n[w] = done /\ at \in DOMAIN Stages
  /\ AtPlace(w)

CallAlone ==
  /\ Quiet => Left(done)
  /\ \A w \in Workers : pc[w] # "idle" => Alone(w)

Words ==
  /\ at \in Nat \ {0}
  /\ lastStage = [len |-> lastStage.len, ptr |-> lastStage.ptr]

AloneInv == Words /\ (~raced /\ over = "no" => CallAlone)

\* Only the last target completes the percent.
LEMMA Percent ==
  ASSUME NEW m \in 0 .. Total
  PROVE  /\ Pct(m) \in 0 .. Hundred
         /\ Pct(m) = Hundred <=> m = Total
<1> USE ProgressAssumption
<1> DEFINE q == Pct(m)
           r == (m * Hundred) % Total
<1>1. m * Hundred \in Nat /\ m * Hundred <= Total * Hundred
  OBVIOUS
<1>2. q \in Nat /\ r \in 0 .. Total - 1 /\ m * Hundred = Total * q + r
  BY <1>1 DEF Pct
<1> HIDE DEF q, r
<1>3. q <= Hundred
  <2> SUFFICES ASSUME q >= Hundred + 1 PROVE FALSE
    BY <1>2
  <2>1. Total * q >= Total * (Hundred + 1)
    BY <1>2
  <2> QED
    BY <2>1, <1>1, <1>2
<1>4. ASSUME q = Hundred PROVE m = Total
  <2>1. m * Hundred >= Total * Hundred
    BY <1>2, <1>4
  <2> SUFFICES ASSUME m <= Total - 1 PROVE FALSE
    OBVIOUS
  <2>2. m * Hundred <= (Total - 1) * Hundred
    OBVIOUS
  <2> QED
    BY <2>1, <2>2
<1>5. ASSUME m = Total PROVE q = Hundred
  <2> SUFFICES ASSUME q <= Hundred - 1 PROVE FALSE
    BY <1>2, <1>3
  <2>1. Total * q <= Total * (Hundred - 1)
    BY <1>2
  <2> QED
    BY <2>1, <1>2, <1>5
<1> QED
  BY <1>2, <1>3, <1>4, <1>5 DEF q

LEMMA AloneInit == LineInit => AloneInv
  BY ProgressAssumption DEF LineInit, AloneInv, Words, CallAlone, Quiet, Left, NoRow

LEMMA WordsStep == Words /\ [LineNext]_lineVars => Words'
<1> SUFFICES ASSUME Words, [LineNext]_lineVars PROVE Words'
  OBVIOUS
<1>1. ASSUME NEW w \in Workers, Step(w) PROVE Words'
  <2>1. /\ at' = at
        /\ \/ lastStage' = lastStage
           \/ lastStage' = [lastStage EXCEPT !.len = Length[running]]
           \/ lastStage' = [lastStage EXCEPT !.ptr = running]
    BY <1>1 DEF Step, Call, Look, LookBytes, LookOld, LeaveRow, Reset, Store,
                StoreRest, Check, Remember, Draw, EndRow
  <2> QED
    BY <2>1 DEF Words
<1>2. CASE StageEnds \/ Cancel \/ LineOver \/ UNCHANGED lineVars
  <2>1. at' \in {at, at + 1} /\ lastStage' = lastStage
    BY <1>2 DEF StageEnds, Cancel, LineOver, lineVars
  <2> QED
    BY <2>1 DEF Words
<1> QED
  BY <1>1, <1>2 DEF LineNext

\* A step of the one call that goes on.
LEMMA AloneGoesOn ==
  ASSUME CallsOK, CallAlone, NEW w \in Workers, pc[w] # "idle",
         NEW place \in Before \cup {"end"}, Goto(w, place),
         UNCHANGED <<at, done, n>>, AtPlace(w)'
  PROVE  CallAlone'
<1>1. Alone(w) /\ \A v \in Workers : v # w => pc[v] = "idle"
  BY DEF CallAlone, Alone
<1>2. /\ pc'[w] = place /\ place # "idle"
      /\ \A v \in Workers : v # w => pc'[v] = "idle"
  BY <1>1 DEF CallsOK, Goto, Before
<1>3. Alone(w)' /\ ~Quiet'
  BY <1>1, <1>2 DEF Alone, Quiet
<1> QED
  BY <1>2, <1>3 DEF CallAlone

\* And one that ends it.
LEMMA AloneEnds ==
  ASSUME CallsOK, CallAlone, NEW w \in Workers, pc[w] # "idle",
         Goto(w, "idle"), Left(done)'
  PROVE  CallAlone'
<1>1. \A v \in Workers : pc'[v] = "idle"
  BY DEF CallAlone, Alone, CallsOK, Goto
<1> QED
  BY <1>1 DEF CallAlone

\* A row that is left is complete, and one that is redrawn shows more of the
\* same stage.
RowGrows ==
  row # None /\ row' # row =>
    IF row' = None THEN row.n = Total
    ELSE row'.stage = row.stage /\ row'.n > row.n

LEMMA AloneStep ==
  ASSUME ProgressInv, AloneInv, [LineNext]_lineVars, ~raced'
  PROVE  (over' = "no" => CallAlone') /\ RowGrows
<1> USE ProgressAssumption
<1>0. CallsOK /\ Words /\ done \in 0 .. Total /\ Total \in Nat \ {0}
  BY DEF ProgressInv, CallsOK, AloneInv
<1>1. ~raced
  BY DEF LineNext, Step, Call, Look, LookBytes, LookOld, LeaveRow, Reset, Store,
         StoreRest, Check, Remember, Draw, EndRow, StageEnds, Cancel, LineOver, lineVars
<1>2. CASE over # "no"
  BY <1>2 DEF LineNext, Step, Call, Look, LookBytes, LookOld, LeaveRow, Reset,
              Store, StoreRest, Check, Remember, Draw, EndRow, StageEnds, Cancel, LineOver, lineVars, At, RowGrows
<1> SUFFICES ASSUME over = "no" PROVE (over' = "no" => CallAlone') /\ RowGrows
  BY <1>2
<1>3. CallAlone
  BY <1>1 DEF AloneInv
<1>4. ASSUME NEW w \in Workers, Call(w)
      PROVE  CallAlone' /\ RowGrows
  <2>1. /\ pc[w] = "idle" /\ at <= Len(Stages)
        /\ done' = done + 1 /\ n' = [n EXCEPT ![w] = done + 1]
        /\ pc' = [pc EXCEPT ![w] = "look"]
        /\ Quiet
        /\ UNCHANGED <<at, lastStage, lastPct, row>>
    BY <1>4 DEF Call, At, Goto
  <2>2. Left(done)
    BY <2>1, <1>3 DEF CallAlone
  <2>3. Left(done - 1)' /\ done' - 1 = done
    <3>1. done' - 1 = done
      BY <2>1, <1>0
    <3>2. running' = running
      BY <2>1 DEF running
    <3> QED
      BY <2>1, <2>2, <3>1, <3>2 DEF Left, RowOf, NoRow, Known, Pct
  <2>4. at \in DOMAIN Stages
    BY <2>1, <1>0 DEF Words
  <2>5. n'[w] = done' /\ pc'[w] = "look"
        /\ \A v \in Workers : v # w => pc'[v] = "idle"
    BY <2>1, <1>0 DEF CallsOK, Quiet
  <2>6. AtPlace(w)'
    BY <2>3, <2>5 DEF AtPlace
  <2>7. Alone(w)'
    BY <2>1, <2>4, <2>5, <2>6 DEF Alone
  <2>8. CallAlone'
    BY <2>5, <2>7 DEF CallAlone, Quiet
  <2> QED
    BY <2>1, <2>8 DEF RowGrows
<1>5. ASSUME NEW w \in Workers, Look(w) \/ LookBytes(w), over' = "no"
      PROVE  CallAlone'
  <2>1. /\ pc[w] \in {"look", "bytes"}
        /\ pc[w] = "bytes" => lastStage.len = Length[running]
        /\ UNCHANGED <<at, done, n, lastStage, lastPct, row>>
        /\ \/ Goto(w, "old") /\ ~Known
           \/ Goto(w, "bytes") /\ lastStage.len = Length[running]
           \/ Goto(w, "check") /\ lastStage.ptr = running /\ pc[w] = "bytes"
    BY <1>5, <1>3 DEF Look, LookBytes, At, Known, CallAlone, Alone, AtPlace
  <2>2. Left(done - 1) /\ done - 1 \in 0 .. Total - 1
    BY <2>1, <1>0, <1>3 DEF CallAlone, Alone, AtPlace, CallsOK
  <2>3. running' = running
    BY <2>1 DEF running
  <2>4. CASE Goto(w, "old") /\ ~Known
    <3>1. NoRow'
      BY <2>1, <2>2, <2>4 DEF Left, RowOf, NoRow
    <3>2. AtPlace(w)'
      BY <2>1, <2>4, <3>1, <1>0 DEF AtPlace, Goto, CallsOK
    <3> QED
      BY <2>1, <2>4, <3>2, <1>0, <1>3, AloneGoesOn DEF Before
  <2>5. CASE Goto(w, "check") /\ lastStage.ptr = running /\ pc[w] = "bytes"
    <3>1. Known
      BY <2>1, <2>5, <1>0 DEF Words, Known
    <3>2. Known' /\ (NoRow' \/ RowOf(done - 1)')
      BY <2>1, <2>2, <2>3, <3>1 DEF Left, RowOf, NoRow, Known, Pct
    <3>3. AtPlace(w)'
      BY <2>1, <2>5, <3>2, <1>0 DEF AtPlace, Goto, CallsOK
    <3> QED
      BY <2>1, <2>5, <3>3, <1>0, <1>3, AloneGoesOn DEF Before
  <2>6. CASE Goto(w, "bytes") /\ lastStage.len = Length[running]
    <3>1. Left(done - 1)'
      BY <2>1, <2>2, <2>3 DEF Left, RowOf, NoRow, Known, Pct
    <3>2. AtPlace(w)'
      BY <2>1, <2>3, <2>6, <3>1, <1>0 DEF AtPlace, Goto, CallsOK
    <3> QED
      BY <2>1, <2>6, <3>2, <1>0, <1>3, AloneGoesOn DEF Before
  <2> QED
    BY <2>1, <2>4, <2>5, <2>6
<1>6. ASSUME NEW w \in Workers,
             LookOld(w) \/ LeaveRow(w) \/ Reset(w) \/ Store(w) \/ StoreRest(w)
      PROVE  CallAlone' /\ RowGrows
  <2>1. NoRow /\ AtPlace(w)
    BY <1>6, <1>3
       DEF LookOld, LeaveRow, Reset, Store, StoreRest, At, CallAlone, Alone,
           AtPlace
  <2>2. /\ pc[w] # "idle" /\ UNCHANGED <<at, done, n>> /\ row' = None
        /\ NoRow' /\ running' = running
    BY <1>6, <2>1
       DEF LookOld, LeaveRow, Reset, Store, StoreRest, At, NoRow, running
  <2>3. \/ \E place \in {"part", "newline", "reset", "store"} : Goto(w, place)
        \/ Goto(w, "ptr") /\ lastStage'.len = Length[running]
        \/ Goto(w, "len") /\ lastStage'.ptr = running
        \/ Goto(w, "check") /\ Known'
    <3>1. CASE LookOld(w) \/ LeaveRow(w) \/ Reset(w)
      BY <3>1 DEF LookOld, LeaveRow, Reset
    <3>2. CASE Store(w)
      BY <3>2, <1>0 DEF Store, Words
    <3>3. CASE StoreRest(w)
      <4>1. Goto(w, "check")
        BY <3>3 DEF StoreRest
      <4>2. lastStage' = [len |-> Length[running], ptr |-> running]
        BY <3>3, <2>1, <1>0 DEF StoreRest, At, AtPlace, Words
      <4> QED
        BY <4>1, <4>2, <2>2 DEF Known
    <3> QED
      BY <1>6, <3>1, <3>2, <3>3
  <2>4. PICK place \in {"part", "newline", "reset", "store", "ptr", "len",
                       "check"} :
          /\ Goto(w, place)
          /\ place = "ptr" => lastStage'.len = Length[running]
          /\ place = "len" => lastStage'.ptr = running
          /\ place = "check" => Known'
    BY <2>3
  <2>5. AtPlace(w)'
    BY <2>2, <2>4, <1>0 DEF AtPlace, Goto, CallsOK
  <2> QED
    BY <2>1, <2>2, <2>4, <2>5, <1>0, <1>3, AloneGoesOn
       DEF Before, RowGrows, NoRow
<1>7. ASSUME NEW w \in Workers, Check(w) \/ Remember(w)
      PROVE  CallAlone'
  <2>1. /\ pc[w] \in {"check", "keep"} /\ n[w] = done /\ done \in 1 .. Total
        /\ Known /\ (NoRow \/ RowOf(done - 1))
        /\ UNCHANGED <<at, done, n, lastStage, row>> /\ running' = running
    BY <1>7, <1>3, <1>0
       DEF Check, Remember, At, CallAlone, Alone, AtPlace, CallsOK, running
  <2>2. \/ Goto(w, "idle") /\ lastPct' = lastPct /\ Pct(done) = lastPct
           /\ done # Total
        \/ Goto(w, "keep") /\ lastPct' = lastPct
        \/ Goto(w, "draw") /\ lastPct' = Pct(done)
    BY <1>7, <2>1 DEF Check, Remember, Skip
  <2>3. CASE Goto(w, "idle") /\ lastPct' = lastPct /\ Pct(done) = lastPct
             /\ done # Total
    <3>1. ~NoRow
      BY <2>1, <2>3, Percent DEF NoRow
    <3>2. Left(done)
      BY <2>1, <2>3, <3>1 DEF Left, RowOf
    <3>3. Left(done)'
      BY <2>1, <2>3, <3>2 DEF Left, RowOf, NoRow, Known, Pct
    <3> QED
      BY <2>1, <2>3, <3>3, <1>0, <1>3, AloneEnds
  <2>4. CASE Goto(w, "draw") /\ lastPct' = Pct(done)
    <3>1. Known' /\ lastPct' = Pct(done')
      BY <2>1, <2>4 DEF Known
    <3>2. row = None \/ row \in [stage : {running}, n : 1 .. done - 1]
      BY <2>1 DEF NoRow, RowOf
    <3>3. AtPlace(w)'
      BY <2>1, <2>4, <3>1, <3>2, <1>0 DEF AtPlace, Goto, CallsOK
    <3> QED
      BY <2>1, <2>4, <3>3, <1>0, <1>3, AloneGoesOn DEF Before
  <2>5. CASE Goto(w, "keep") /\ lastPct' = lastPct
    <3>1. Known' /\ (NoRow' \/ RowOf(done - 1)')
      BY <2>1, <2>5 DEF RowOf, NoRow, Known, Pct
    <3>2. AtPlace(w)'
      BY <2>1, <2>5, <3>1, <1>0 DEF AtPlace, Goto, CallsOK
    <3> QED
      BY <2>1, <2>5, <3>2, <1>0, <1>3, AloneGoesOn DEF Before
  <2> QED
    BY <2>2, <2>3, <2>4, <2>5
<1>8. ASSUME NEW w \in Workers, Draw(w)
      PROVE  CallAlone' /\ RowGrows
  <2>1. /\ pc[w] = "draw" /\ n[w] = done /\ done \in 1 .. Total
        /\ Known /\ lastPct = Pct(done)
        /\ (row = None \/ row \in [stage : {running}, n : 1 .. done - 1])
        /\ at \in DOMAIN Stages
    BY <1>8, <1>3, <1>0
       DEF Draw, At, CallAlone, Alone, AtPlace, CallsOK
  <2>2. /\ row' = [stage |-> running, n |-> done]
        /\ Goto(w, IF done = Total THEN "end" ELSE "idle")
        /\ UNCHANGED <<at, done, n, lastStage, lastPct>> /\ running' = running
    BY <1>8, <2>1 DEF Draw, running
  <2>3. row' # None
    <3>1. row' \in [stage : {Stages[i] : i \in DOMAIN Stages}, n : Nat]
      BY <2>1, <2>2 DEF running
    <3> QED
      BY <3>1
  <2>4. RowGrows
    BY <2>1, <2>2, <2>3 DEF RowGrows
  <2>5. CASE done = Total
    <3>1. AtPlace(w)'
      BY <2>1, <2>2, <2>5, <1>0, Percent DEF AtPlace, Goto, CallsOK, Pct
    <3> QED
      BY <2>1, <2>2, <2>4, <2>5, <3>1, <1>0, <1>3, AloneGoesOn
  <2>6. CASE done # Total
    <3>1. RowOf(done)' /\ lastPct' = Pct(done)
      BY <2>1, <2>2, <2>3 DEF RowOf, Known
    <3>2. Left(done)'
      BY <2>1, <2>2, <2>6, <3>1 DEF Left
    <3> QED
      BY <2>1, <2>2, <2>4, <2>6, <3>2, <1>0, <1>3, AloneEnds
  <2> QED
    BY <2>5, <2>6
<1>9. ASSUME NEW w \in Workers, EndRow(w)
      PROVE  CallAlone' /\ RowGrows
  <2>1. /\ pc[w] = "end" /\ done = Total /\ row.n = Total
        /\ lastPct = Hundred
        /\ row' = None /\ Goto(w, "idle") /\ done' = done /\ lastPct' = lastPct
    BY <1>9, <1>3 DEF EndRow, At, CallAlone, Alone, AtPlace
  <2>2. Left(done)'
    BY <2>1 DEF Left, NoRow
  <2> QED
    BY <2>1, <2>2, <1>0, <1>3, AloneEnds DEF RowGrows
<1>10. CASE StageEnds
  <2>1. /\ Quiet /\ Left(done) /\ pc' = pc /\ lastPct' = lastPct
        /\ row' = IF done = 0 THEN None ELSE row
        /\ over' = "no" => done \in {0, Total} /\ done' = 0
    BY <1>10, <1>3 DEF StageEnds, CallAlone
  <2>2. row' = row
    BY <2>1 DEF Left, NoRow
  <2>3. ASSUME over' = "no" PROVE CallAlone'
    <3>1. NoRow /\ done' = 0
      BY <2>1, <2>3 DEF Left
    <3>2. Left(done)'
      BY <2>1, <2>2, <3>1 DEF Left, NoRow
    <3> QED
      BY <2>1, <3>2 DEF CallAlone, Quiet
  <2> QED
    BY <2>2, <2>3 DEF RowGrows
<1>11. CASE Cancel \/ UNCHANGED lineVars
  <2>1. UNCHANGED <<at, done, pc, n, lastStage, lastPct, row>>
    BY <1>11 DEF Cancel, lineVars
  <2>2. running' = running
    BY <2>1 DEF running
  <2>3. ASSUME NEW m \in Int, Left(m) PROVE Left(m)'
    BY <2>1, <2>2, <2>3 DEF Left, RowOf, NoRow, Known, Pct
  <2>4. ASSUME NEW w \in Workers, AtPlace(w) PROVE AtPlace(w)'
    BY <2>1, <2>2, <2>4 DEF AtPlace, Left, RowOf, NoRow, Known, Pct
  <2>5. Quiet' = Quiet
    BY <2>1 DEF Quiet
  <2> QED
    BY <2>1, <2>3, <2>4, <2>5, <1>0, <1>3
       DEF CallAlone, Alone, RowGrows, Left, RowOf, NoRow, Known, Pct
<1>12. ASSUME NEW w \in Workers,
              Look(w) \/ LookBytes(w) \/ Check(w) \/ Remember(w)
       PROVE  RowGrows
  BY <1>12 DEF Look, LookBytes, Check, Remember, RowGrows
<1> QED
  BY <1>4, <1>5, <1>6, <1>7, <1>8, <1>9, <1>10, <1>11, <1>12
     DEF LineNext, Step, LineOver

\* For any number of workers, targets and stages, and in whatever parts the
\* progress is shown: as long as no two calls have overlapped, the row shows
\* the percent that is done and is redrawn and left only as the whole-percent
\* steps ask.
THEOREM StepsAreShown == LineSpec => StepsShown
<1> DEFINE Shows ==
      Quiet /\ over = "no" /\ done \in 1 .. Total - 1 =>
        /\ row # None /\ row.stage = running
        /\ Pct(row.n) = Pct(done)
<1>1. ProgressInv /\ [LineNext]_lineVars => ProgressInv'
  BY ProgressStep
<1>2. ProgressInv /\ AloneInv /\ [LineNext]_lineVars => AloneInv'
  BY AloneStep, WordsStep DEF AloneInv
<1>3. AloneInv => (~raced => Shows)
  <2> SUFFICES ASSUME AloneInv, ~raced, Quiet, over = "no", done \in 1 .. Total - 1
               PROVE  /\ row # None /\ row.stage = running
                      /\ Pct(row.n) = Pct(done)
    OBVIOUS
  <2>1. RowOf(done) /\ lastPct = Pct(done)
    BY DEF AloneInv, CallAlone, Left
  <2> QED
    BY <2>1 DEF RowOf
<1>4. AloneInv' => (~raced' => Shows')
  BY <1>3, PTL
<1>5. ProgressInv /\ AloneInv /\ [LineNext]_lineVars /\ AloneInv'
        => [~raced' => Shows' /\ RowGrows]_lineVars
  BY <1>4, AloneStep
<1>6. [~raced' => Shows' /\ RowGrows]_lineVars
      <=> [~raced' =>
             /\ Quiet' /\ over' = "no" /\ done' \in 1 .. Total - 1 =>
                  /\ row' # None /\ row'.stage = running'
                  /\ Pct(row'.n) = Pct(done')
             /\ row # None /\ row' # row =>
                  IF row' = None THEN row.n = Total
                  ELSE row'.stage = row.stage /\ row'.n > row.n]_lineVars
  BY DEF RowGrows, Pct
<1> QED
  BY <1>1, <1>2, <1>5, <1>6, ProgressInit, AloneInit, PTL
     DEF LineSpec, StepsShown
-----------------------------------------------------------------------------
(* The line in the whole run.                                              *)

\* The run implements the line, which nothing else in main.go touches: what is
\* proved of Progress holds in every run.
THEOREM RunDrawsTheLine == MainSpec => LineSpec
<1>1. MainInit => LineInit
  BY DEF MainInit
<1>2. [MainNext]_mainVars => [LineNext]_lineVars
  BY DEF MainNext, StartUp, Scan, Line, MainOver, mainVars, LineNext
<1> QED
  BY <1>1, <1>2, PTL DEF MainSpec, LineSpec

=============================================================================
