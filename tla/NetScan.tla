------------------------------- MODULE NetScan --------------------------------
(***************************************************************************)
(* One scan, run() of main.go from the pipeline on: after the pipeline     *)
(* has returned, a goroutine per row looks up the host's name (Hostnames   *)
(* of internal/enrich), at most Slots of them at a time; then the row of   *)
(* this machine is added or completed (ensureSelf) and the table printed.  *)
(*                                                                         *)
(* The slice of devices is a function from addresses to rows here: the     *)
(* pipeline gives an address one row, and each goroutine writes its own.   *)
(* The order of the rows on paper is left out.                             *)
(***************************************************************************)
EXTENDS Pipeline

CONSTANTS Slots,    \* lookups in flight (32 in the code)
          LocalIP,  \* local.IP
          LocalMAC, \* local.Interface.HardwareAddr, which Detect asks for
          OSNames   \* what os.Hostname may give, None if it fails

ASSUME NetScanAssumption ==
  /\ Slots \in Nat \ {0}
  /\ LocalIP \in Addr
  /\ LocalMAC \in Mac
  /\ OSNames \subseteq Opt(Name)

VARIABLES stage,  \* of run(): "scan","lookup","self","printed","failed"
          noDNS,  \* the flag -no-dns
          table,  \* devices
          lookup, \* host -> its goroutine: "queued","looking","done"
          sem,    \* the tokens in the semaphore of that name
          ptr     \* history: host -> what its lookup found, if anything

runVars == <<stage, noDNS, table, lookup, sem, ptr>>

NoRows == [h \in {} |-> None]

RunInit == /\ Init
           /\ stage = "scan"
           /\ noDNS \in BOOLEAN
           /\ table = NoRows
           /\ lookup = NoRows
           /\ sem = 0
           /\ ptr = NoRows

\* The method that is running ends, if it does.
Method == stage = "scan" /\ (MethodReturns \/ MethodFails) /\ UNCHANGED runVars

\* What the pipeline does by itself.
Scan ==
  /\ stage = "scan"
  /\ StartMethod \/ Merge \/ MergeDone \/ Return
  /\ UNCHANGED runVars

Interrupt == Cancel /\ UNCHANGED runVars

\* An error of the pipeline ends the run; no table is printed.
ScanFails ==
  /\ stage = "scan"
  /\ phase = "returned" /\ err
  /\ stage' = "failed"
  /\ UNCHANGED <<vars, noDNS, table, lookup, sem, ptr>>

\* The pipeline's rows; a goroutine is started for each unless -no-dns is set.
Scanned ==
  /\ stage = "scan"
  /\ phase = "returned" /\ ~err
  /\ table' = [h \in {r.ip : r \in out} |-> CHOOSE r \in out : r.ip = h]
  /\ stage' = IF noDNS \/ out = {} THEN "self" ELSE "lookup"
  /\ lookup' = IF noDNS THEN NoRows ELSE [h \in DOMAIN table' |-> "queued"]
  /\ UNCHANGED <<vars, noDNS, sem, ptr>>

-----------------------------------------------------------------------------
(* Hostnames.                                                              *)

Becomes(h, s) == lookup' = [lookup EXCEPT ![h] = s]

\* The select of the goroutine for h: the context is done ...
GiveUp(h) ==
  /\ stage = "lookup" /\ lookup[h] = "queued"
  /\ ctx
  /\ Becomes(h, "done")
  /\ UNCHANGED <<vars, stage, noDNS, table, sem, ptr>>

\* ... or the semaphore has room for a token.
Acquire(h) ==
  /\ stage = "lookup" /\ lookup[h] = "queued"
  /\ sem < Slots
  /\ sem' = sem + 1
  /\ Becomes(h, "looking")
  /\ UNCHANGED <<vars, stage, noDNS, table, ptr>>

\* Mutant of NoName: the token is given back only after a lookup that found
\* something.
NoNameKeepsSlot(h) ==
  /\ stage = "lookup" /\ lookup[h] = "looking"
  /\ Becomes(h, "done")
  /\ UNCHANGED <<vars, stage, noDNS, table, sem, ptr>>

\* No PTR record, an error, or no answer in time.  The token is given back.
NoName(h) ==
  /\ stage = "lookup" /\ lookup[h] = "looking"
  /\ Becomes(h, "done")
  /\ sem' = sem - 1
  /\ UNCHANGED <<vars, stage, noDNS, table, ptr>>

\* The first name replaces the host's, whatever a login told: None, which is
\* what is left of ".", blanks it.
Resolved(h) ==
  /\ stage = "lookup" /\ lookup[h] = "looking"
  /\ \E name \in Opt(Name) :
       /\ table' = [table EXCEPT ![h].hostname = name]
       /\ ptr' = [g \in DOMAIN ptr \cup {h} |-> IF g = h THEN name ELSE ptr[g]]
  /\ Becomes(h, "done")
  /\ sem' = sem - 1
  /\ UNCHANGED <<vars, stage, noDNS>>

Look(h) == GiveUp(h) \/ Acquire(h) \/ NoName(h) \/ Resolved(h)

\* wg.Wait() returns.
LookedUp ==
  /\ stage = "lookup"
  /\ \A h \in DOMAIN lookup : lookup[h] = "done"
  /\ stage' = "self"
  /\ UNCHANGED <<vars, noDNS, table, lookup, sem, ptr>>

-----------------------------------------------------------------------------
(* ensureSelf.                                                             *)

EnrichSelf(d) == [d EXCEPT !.vendor = Lookup(d.mac),
                           !.type = InferType(Lookup(d.mac)),
                           !.status = Fill(@, StatusUp)]

\* The row for this machine, from that of the scan (in a set of at most one).
Self(found, name) ==
  IF found = {}
    THEN EnrichSelf([ip |-> LocalIP, mac |-> LocalMAC, vendor |-> None,
                     hostname |-> name, status |-> StatusUp, type |-> None,
                     sys |-> NoSysInfo])
    ELSE LET d == CHOOSE r \in found : TRUE
             e == IF d.mac = None THEN EnrichSelf([d EXCEPT !.mac = LocalMAC])
                  ELSE d
         IN  [e EXCEPT !.hostname = Fill(@, name)]

\* Mutants of EnsureSelf: only a row that was found is completed; the name
\* is always that of the machine.
EnsureSelfFound ==
  /\ stage = "self"
  /\ \E name \in OSNames :
       table' = [h \in DOMAIN table |->
                   IF h = LocalIP THEN Self({table[h]}, name) ELSE table[h]]
  /\ stage' = "printed"
  /\ UNCHANGED <<vars, noDNS, lookup, sem, ptr>>

EnsureSelfNamed ==
  /\ stage = "self"
  /\ \E name \in OSNames :
       table' = [h \in DOMAIN table \cup {LocalIP} |->
                   IF h = LocalIP
                     THEN [Self({table[g] : g \in DOMAIN table \cap {h}}, name)
                             EXCEPT !.hostname = name]
                     ELSE table[h]]
  /\ stage' = "printed"
  /\ UNCHANGED <<vars, noDNS, lookup, sem, ptr>>

\* The table is then printed.
EnsureSelf ==
  /\ stage = "self"
  /\ \E name \in OSNames :
       table' = [h \in DOMAIN table \cup {LocalIP} |->
                   IF h = LocalIP
                     THEN Self({table[g] : g \in DOMAIN table \cap {h}}, name)
                     ELSE table[h]]
  /\ stage' = "printed"
  /\ UNCHANGED <<vars, noDNS, lookup, sem, ptr>>

Over == stage \in {"printed", "failed"}

RunFinished == Over /\ UNCHANGED <<vars, runVars>>

Main == Scan \/ ScanFails \/ Scanned \/ LookedUp \/ EnsureSelf

RunNext == \/ Main \/ Method \/ Interrupt \/ RunFinished
           \/ \E h \in DOMAIN lookup : Look(h)

\* A lookup has a timeout of its own.  That a method ends is no part of this:
\* it is what Terminates is told.
RunSpec == /\ RunInit /\ [][RunNext]_<<vars, runVars>>
           /\ WF_<<vars, runVars>>(Main)
           /\ \A h \in Addr : WF_<<vars, runVars>>(h \in DOMAIN lookup /\ Look(h))

-----------------------------------------------------------------------------
(* Properties.                                                             *)

\* The table lists what the methods reported and this machine, each once and
\* without a blank status or type, a scan cut short included.
TableComplete ==
  stage = "printed" =>
    /\ DOMAIN table = {d.ip : d \in Reported} \cup {LocalIP}
    /\ table[LocalIP].mac # None
    /\ \A h \in DOMAIN table :
         /\ table[h] \in Device /\ table[h].ip = h
         /\ table[h].status # None /\ table[h].type # None

\* The name printed: what the DNS answered, an empty name included, else the
\* one a login told; a row left without a name gets, for this machine only, its
\* own.
NameOrder ==
  stage = "printed" =>
    \A h \in DOMAIN table :
      LET known == IF h \in DOMAIN ptr THEN ptr[h]
                   ELSE IF h \in DOMAIN rows THEN rows[h].hostname
                   ELSE None
      IN  IF known # None THEN table[h].hostname = known
          ELSE table[h].hostname \in (IF h = LocalIP THEN OSNames ELSE {None})

\* The run ends with a table or an error, whatever the lookups do and however
\* few slots they share, if every method that is started ends.  (IcmpPing and
\* ArpScan show that theirs do; the SSH method does if the hosts answer:
\* TimeoutReturns of SshCommand is violated.)
MethodsReturn == WF_<<vars, runVars>>(Method)

Terminates == MethodsReturn => <>Over
=============================================================================
