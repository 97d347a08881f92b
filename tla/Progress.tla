------------------------------- MODULE Progress -------------------------------
(***************************************************************************)
(* progressFn of main.go: every worker of a stage calls it after each      *)
(* target, and it keeps a line of progress on the terminal up to date.     *)
(* The calls share three variables and the terminal without a lock.        *)
(*                                                                         *)
(* A word is read as it was written last.  A string is two words, its      *)
(* length and its bytes, that are stored one by one, in either order, so   *)
(* that another call may meet a half of each; comparing four bytes at no   *)
(* address ends the program.                                               *)
(***************************************************************************)
EXTENDS Integers, Sequences

CONSTANTS Workers,
          Sender,   \* the one caller of the ARP stage
          Stages,   \* the pipeline's methods
          Length,   \* the length of their names, and of None, the empty string
          None,
          Total,    \* targets
          Hundred   \* parts that progress is shown in (100 in the code)

ASSUME ProgressAssumption ==
  /\ Sender \in Workers
  /\ Stages \in Seq({Stages[i] : i \in DOMAIN Stages})
  /\ None \notin [stage : {Stages[i] : i \in DOMAIN Stages}, n : Nat]
  /\ None \notin {Stages[i] : i \in DOMAIN Stages}
  /\ Length \in [{Stages[i] : i \in DOMAIN Stages} \cup {None} -> Nat]
  /\ Total \in Nat \ {0} /\ Hundred \in Nat \ {0}

VARIABLES
  ctx,       \* the scan context is done
  at,        \* index of the running stage
  done,      \* its atomic counter
  pc,        \* worker -> its place in the call, or "idle"
  n,         \* worker -> the argument done of its call
  lastStage, \* its two words
  lastPct,
  over,      \* "no", "returned" or "crashed"
  row,       \* what the last row of the terminal shows, or None
  full,      \* history: how often the stage's line Total/Total was drawn
  raced      \* history: two calls have overlapped

lineVars == <<ctx, at, done, pc, n, lastStage, lastPct, over, row, full, raced>>

LineInit ==
  /\ ctx = FALSE /\ at = 1 /\ done = 0
  /\ pc = [w \in Workers |-> "idle"]
  /\ n = [w \in Workers |-> 0]
  /\ lastStage = [len |-> Length[None], ptr |-> None]
  /\ lastPct = -1
  /\ over = "no" /\ row = None /\ full = 0 /\ raced = FALSE

running == Stages[at]
Pct(m) == (m * Hundred) \div Total

Quiet == \A w \in Workers : pc[w] = "idle"

At(w, place) == over = "no" /\ pc[w] = place
Goto(w, place) == pc' = [pc EXCEPT ![w] = place]

\* done.Add(1) and the call.
Call(w) ==
  /\ At(w, "idle") /\ at <= Len(Stages) /\ done < Total
  /\ running = "arp" => w = Sender
  /\ done' = done + 1
  /\ n' = [n EXCEPT ![w] = done + 1]
  /\ Goto(w, "look")
  /\ raced' = (raced \/ ~Quiet)
  /\ UNCHANGED <<ctx, at, lastStage, lastPct, over, row, full>>

\* stage != lastStage: the lengths are compared first.
Look(w) ==
  /\ At(w, "look")
  /\ Goto(w, IF lastStage.len # Length[running] THEN "old" ELSE "bytes")
  /\ UNCHANGED <<ctx, at, done, n, lastStage, lastPct, over, row, full, raced>>

\* Of strings of one length, the bytes.
LookBytes(w) ==
  /\ At(w, "bytes")
  /\ IF lastStage.ptr = None THEN over' = "crashed" /\ UNCHANGED pc
     ELSE /\ Goto(w, IF lastStage.ptr = running THEN "check" ELSE "old")
          /\ UNCHANGED over
  /\ UNCHANGED <<ctx, at, done, n, lastStage, lastPct, row, full, raced>>

\* A new stage: lastStage != "" && lastPct != 100.
LookOld(w) ==
  /\ \/ At(w, "old") /\ Goto(w, IF lastStage.len # 0 THEN "part" ELSE "reset")
     \/ At(w, "part") /\ Goto(w, IF lastPct # Hundred THEN "newline" ELSE "reset")
  /\ UNCHANGED <<ctx, at, done, n, lastStage, lastPct, over, row, full, raced>>

\* The row of the last stage is left as it is.
LeaveRow(w) ==
  /\ At(w, "newline")
  /\ row' = None
  /\ Goto(w, "reset")
  /\ UNCHANGED <<ctx, at, done, n, lastStage, lastPct, over, full, raced>>

Reset(w) ==
  /\ At(w, "reset")
  /\ lastPct' = -1
  /\ Goto(w, "store")
  /\ UNCHANGED <<ctx, at, done, n, lastStage, over, row, full, raced>>

Store(w) ==
  /\ At(w, "store")
  /\ \/ lastStage' = [lastStage EXCEPT !.len = Length[running]] /\ Goto(w, "ptr")
     \/ lastStage' = [lastStage EXCEPT !.ptr = running] /\ Goto(w, "len")
  /\ UNCHANGED <<ctx, at, done, n, lastPct, over, row, full, raced>>

StoreRest(w) ==
  /\ \/ At(w, "ptr") /\ lastStage' = [lastStage EXCEPT !.ptr = running]
     \/ At(w, "len") /\ lastStage' = [lastStage EXCEPT !.len = Length[running]]
  /\ Goto(w, "check")
  /\ UNCHANGED <<ctx, at, done, n, lastPct, over, row, full, raced>>

\* Mutant of Skip: within 200ms of the last line, whatever the percent.
SkipSteps(m, recent) == m # Total /\ recent

\* The line of this percent was drawn, and not long ago.
Skip(m, recent) == Pct(m) = lastPct /\ m # Total /\ recent

Check(w) ==
  /\ At(w, "check")
  /\ \E recent \in BOOLEAN :
       Goto(w, IF Skip(n[w], recent) THEN "idle" ELSE "keep")
  /\ UNCHANGED <<ctx, at, done, n, lastStage, lastPct, over, row, full, raced>>

Remember(w) ==
  /\ At(w, "keep")
  /\ lastPct' = Pct(n[w])
  /\ Goto(w, "draw")
  /\ UNCHANGED <<ctx, at, done, n, lastStage, over, row, full, raced>>

\* Mutant of Draw: the counter is read again.
DrawAgain(w) ==
  /\ At(w, "draw")
  /\ row' = [stage |-> running, n |-> done]
  /\ full' = IF done = Total THEN full + 1 ELSE full
  /\ Goto(w, IF done = Total THEN "end" ELSE "idle")
  /\ UNCHANGED <<ctx, at, done, n, lastStage, lastPct, over, raced>>

Draw(w) ==
  /\ At(w, "draw")
  /\ row' = [stage |-> running, n |-> n[w]]
  /\ full' = IF n[w] = Total THEN full + 1 ELSE full
  /\ Goto(w, IF n[w] = Total THEN "end" ELSE "idle")
  /\ UNCHANGED <<ctx, at, done, n, lastStage, lastPct, over, raced>>

\* The last line stays on the terminal.
EndRow(w) ==
  /\ At(w, "end")
  /\ row' = None
  /\ Goto(w, "idle")
  /\ UNCHANGED <<ctx, at, done, n, lastStage, lastPct, over, full, raced>>

\* The stage ends when its workers have: after all targets, before the first
\* if it fails, with a warning on a row of its own, or on a cancellation,
\* which ends the run.  So does a failure of the ARP stage, after any target.
StageEnds ==
  /\ over = "no" /\ at <= Len(Stages) /\ Quiet
  /\ done \in {0, Total} \/ ctx \/ running = "arp"
  /\ row' = IF done = 0 THEN None ELSE row
  /\ IF ctx \/ (running = "arp" /\ done # Total)
     THEN over' = "returned" /\ UNCHANGED <<at, done, full>>
     ELSE /\ at' = at + 1 /\ done' = 0 /\ full' = 0
          /\ over' = IF at = Len(Stages) THEN "returned" ELSE "no"
  /\ UNCHANGED <<ctx, pc, n, lastStage, lastPct, raced>>

Cancel ==
  /\ over = "no" /\ ~ctx
  /\ ctx' = TRUE
  /\ UNCHANGED <<at, done, pc, n, lastStage, lastPct, over, row, full, raced>>

LineOver == over # "no" /\ UNCHANGED lineVars

Step(w) == \/ Call(w) \/ Look(w) \/ LookBytes(w) \/ LookOld(w) \/ LeaveRow(w)
           \/ Reset(w) \/ Store(w) \/ StoreRest(w) \/ Check(w) \/ Remember(w)
           \/ Draw(w) \/ EndRow(w)

LineNext == (\E w \in Workers : Step(w)) \/ StageEnds \/ Cancel \/ LineOver

LineSpec == LineInit /\ [][LineNext]_lineVars

-----------------------------------------------------------------------------
(* Properties.                                                             *)

\* However the calls of the workers interleave, the line that says a stage is
\* complete is drawn once, whatever another call has left in lastPct.
FullLineOnce ==
  /\ full <= 1
  /\ over = "no" /\ Quiet /\ done = Total => full = 1

\* "Whole-percent steps": as long as no two calls overlap, the row shows the
\* percent that is done; it is redrawn only with more of the same stage, and
\* left only when that is complete.
StepsShown ==
  [][~raced' =>
       /\ Quiet' /\ over' = "no" /\ done' \in 1 .. Total - 1 =>
            /\ row' # None /\ row'.stage = running'
            /\ Pct(row'.n) = Pct(done')
       /\ row # None /\ row' # row =>
            IF row' = None THEN row.n = Total
            ELSE row'.stage = row.stage /\ row'.n > row.n]_lineVars
=============================================================================
