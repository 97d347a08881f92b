------------------------------- MODULE Pipeline -------------------------------
(***************************************************************************)
(* internal/pipeline: the discovery methods run one after the other over   *)
(* the same targets and what they report is merged into one row per host.  *)
(* A method's failure ends the run, unless the method is a SoftFailer.     *)
(*                                                                         *)
(* A method's Run is one step here that returns any of the records the     *)
(* method can make, or an error; IcmpPing and ArpScan are what happens     *)
(* inside.                                                                 *)
(***************************************************************************)
EXTENDS Devices, Integers, Sequences

CONSTANTS Methods,  \* the names of the methods, in order
          Reports   \* for each method, the records it can report

ASSUME PipelineAssumption ==
  /\ Methods \in Seq({"icmp", "arp", "ssh"})
  /\ DOMAIN Reports = {"icmp", "arp", "ssh"}
  /\ \A m \in {"icmp", "arp", "ssh"} :
       Reports[m] \subseteq Device /\ \A d \in Reports[m] : d.ip # None

\* SoftFailer: icmp and ssh implement it and return true, arp does not.
SoftFail(m) == m \in {"icmp", "ssh"}

\* The SSH method returns no error, whatever happens.
CanFail(m) == m # "ssh"

VARIABLES ctx,     \* the scan context is done
          phase,   \* "loop", "running", "merging" or "returned"
          at,      \* index in Methods
          rows,    \* merged
          pending, \* devs of the current method, those not merged yet
          err,     \* Run returns an error
          out,     \* the rows returned
          said,    \* history: the records merged, in this order
          ran      \* history: how each method ended and what it reported

vars == <<ctx, phase, at, rows, pending, err, out, said, ran>>

Init == /\ ctx = FALSE
        /\ phase = "loop"
        /\ at = 1
        /\ rows = [h \in {} |-> None]
        /\ pending = {}
        /\ err = FALSE
        /\ out = {}
        /\ said = <<>>
        /\ ran = <<>>

StartMethod ==
  /\ phase = "loop"
  /\ at <= Len(Methods)
  /\ ~ctx
  /\ phase' = "running"
  /\ UNCHANGED <<ctx, at, rows, pending, err, out, said, ran>>

\* Run collects its devices from a map keyed by address, or from distinct
\* targets: no address twice, in any order.
MethodReturns ==
  /\ phase = "running"
  /\ \E devs \in SUBSET Reports[Methods[at]] :
       /\ \A d, e \in devs : d.ip = e.ip => d = e
       /\ pending' = devs
       /\ ran' = Append(ran, [end |-> "ok", devs |-> devs])
  /\ phase' = "merging"
  /\ UNCHANGED <<ctx, at, rows, err, out, said>>

\* An error: the next method after a warning, or the end with the rows so far.
MethodFails ==
  /\ phase = "running"
  /\ CanFail(Methods[at])
  /\ IF SoftFail(Methods[at])
       THEN /\ ran' = Append(ran, [end |-> "warned", devs |-> {}])
            /\ phase' = "loop"
            /\ at' = at + 1
            /\ UNCHANGED <<err, out>>
       ELSE /\ ran' = Append(ran, [end |-> "fatal", devs |-> {}])
            /\ phase' = "returned"
            /\ err' = TRUE
            /\ out' = ToSlice(rows)
            /\ at' = at
  /\ UNCHANGED <<ctx, rows, pending, said>>

\* One turn of the loop over devs.
Merge ==
  /\ phase = "merging"
  /\ \E d \in pending :
       /\ rows' = MergeDevice(rows, d)
       /\ said' = Append(said, d)
       /\ pending' = pending \ {d}
  /\ UNCHANGED <<ctx, phase, at, err, out, ran>>

\* Mutant of MergeDone: devs left over.
MergeDoneEarly ==
  /\ phase = "merging"
  /\ phase' = "loop"
  /\ at' = at + 1
  /\ pending' = {}
  /\ UNCHANGED <<ctx, rows, err, out, said, ran>>

MergeDone ==
  /\ phase = "merging"
  /\ pending = {}
  /\ phase' = "loop"
  /\ at' = at + 1
  /\ UNCHANGED <<ctx, rows, pending, err, out, said, ran>>

\* After the last method, or when the context is done before the next.
Return ==
  /\ phase = "loop"
  /\ at > Len(Methods) \/ ctx
  /\ phase' = "returned"
  /\ out' = ToSlice(rows)
  /\ UNCHANGED <<ctx, at, rows, pending, err, said, ran>>

\* The overall deadline passes or a signal arrives.
Cancel == /\ ~ctx
          /\ ctx' = TRUE
          /\ UNCHANGED <<phase, at, rows, pending, err, out, said, ran>>

Finished == phase = "returned" /\ UNCHANGED vars

Next == \/ StartMethod \/ MethodReturns \/ MethodFails
        \/ Merge \/ MergeDone \/ Return
        \/ Cancel \/ Finished

Spec == Init /\ [][Next]_vars

-----------------------------------------------------------------------------
(* Properties.                                                             *)

TypeOK ==
  /\ ctx \in BOOLEAN
  /\ phase \in {"loop", "running", "merging", "returned"}
  /\ at \in 1 .. Len(Methods) + 1
  /\ DOMAIN rows \subseteq Addr
  /\ \A h \in DOMAIN rows : rows[h] \in Device /\ rows[h].ip = h
  /\ pending \subseteq {d \in Device : d.ip # None}
  /\ err \in BOOLEAN
  /\ out \subseteq Device
  /\ said \in Seq(Device)

\* The records merged about host h, by their place in said; the earliest of
\* a set of them; the value of field f in the earliest record that has one.
About(h) == {i \in DOMAIN said : said[i].ip = h}

Earliest(I) == CHOOSE i \in I : \A j \in I : i <= j

First(h, f) ==
  LET has == {i \in About(h) : said[i][f] # None}
  IN  IF has = {} THEN None ELSE said[Earliest(has)][f]

FirstVendor(h) ==
  LET known == {i \in About(h) : ~VendorUnset(said[i].vendor)}
  IN  said[Earliest(IF known = {} THEN About(h) ELSE known)].vendor

FirstType(h) ==
  IF First(h, "type") = TypeUnknown
       /\ \E i \in About(h) : said[i].type = TypeNetwork
    THEN TypeNetwork
    ELSE First(h, "type")

Logins(h) == {i \in About(h) : ~SysEmpty(said[i].sys)}

FirstTold(h, f) ==
  LET has == {i \in Logins(h) : said[i].sys[f] # None}
  IN  IF has = {} THEN None ELSE said[Earliest(has)].sys[f]

FirstSys(h) ==
  IF Logins(h) = {} THEN NoSysInfo
  ELSE [core |-> said[Earliest(Logins(h))].sys.core,
        neighbors |-> FirstTold(h, "neighbors"),
        ifaces |-> FirstTold(h, "ifaces")]

\* mergeDevice, method after method, gives each row what was first said of
\* its host: the first address, name and status, the first vendor that is no
\* placeholder (without one, that of the first record: what the code does, see
\* ArpDetailsKept), the first type unless that was only Unknown and a login
\* showed a switch, the first login's inventory.
FirstWins ==
  \A h \in DOMAIN rows :
    rows[h] = [ip |-> h,
               mac |-> First(h, "mac"),
               vendor |-> FirstVendor(h),
               hostname |-> First(h, "hostname"),
               status |-> First(h, "status"),
               type |-> FirstType(h),
               sys |-> FirstSys(h)]

\* The comment of mergeDevice: "ICMP (IP only) plus ARP (IP+MAC+vendor) becomes
\* a single row with the ARP details kept", those of a placeholder vendor too.
ArpDetailsKept ==
  phase = "returned" =>
    \A i \in DOMAIN ran : Methods[i] = "arp" =>
      \A d \in ran[i].devs :
        rows[d.ip].mac = d.mac /\ rows[d.ip].vendor # None

Ended(e) == {i \in DOMAIN ran : ran[i].end = e}

Reported == UNION {ran[i].devs : i \in DOMAIN ran}

\* Run: no host a method reported is missing from the result, nor is there
\* any other; a run without error has called every method unless it was cut
\* short, and only a fatal failure, then the last thing called, is an error.
NothingLost ==
  phase = "returned" =>
    /\ {r.ip : r \in out} = {d.ip : d \in Reported}
    /\ ~err => ctx \/ Len(ran) = Len(Methods)
    /\ Ended("fatal") = IF err THEN {Len(ran)} ELSE {}

\* mergeDevice: no later record takes back what a row holds; only a
\* placeholder vendor and an unknown type may still be improved on.
FilledStays ==
  [][\A h \in DOMAIN rows :
       /\ h \in DOMAIN rows'
       /\ \A f \in {"ip", "mac", "hostname", "status"} :
            rows[h][f] # None => rows'[h][f] = rows[h][f]
       /\ ~VendorUnset(rows[h].vendor) => rows'[h].vendor = rows[h].vendor
       /\ rows[h].type \notin {None, TypeUnknown} => rows'[h].type = rows[h].type
       /\ \A f \in {"core", "neighbors", "ifaces"} :
            rows[h].sys[f] # None => rows'[h].sys[f] = rows[h].sys[f]]_vars
=============================================================================
