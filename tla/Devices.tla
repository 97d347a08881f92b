------------------------------- MODULE Devices --------------------------------
(***************************************************************************)
(* Device records (internal/device), the records each discovery method     *)
(* makes of one host, and the merge of records about the same host         *)
(* (mergeDevice and toSlice of internal/pipeline).                         *)
(*                                                                         *)
(* A field holds an opaque value or None, Go's zero value.  The two byte   *)
(* forms of an IPv4 address are one address here: mergeDevice takes the    *)
(* 4-byte form of whatever it is given.  Of SysInfo, `core` stands for the *)
(* scalar fields together.                                                 *)
(***************************************************************************)
CONSTANTS None,         \* the zero value of every field
          Addr,         \* IP addresses
          Mac,          \* hardware addresses, of six bytes
          Local,        \* those with the locally administered bit
          Brand,        \* vendor names other than the two placeholders
          Registered,   \* oui.vendors: a function from some of Mac to Brand
          NetworkHints, \* brands that contain one of networkHints
          EndHints,     \* brands that contain one of endHints or a chipset
          Name,         \* host names
          Core          \* what an SSH session tells of a host

Unknown == "Unknown"
RandomizedMAC == "Randomized MAC"
TypeNetwork == "Network device"
TypeEnd == "End device"
TypeUnknown == "Unknown"
StatusUp == "up"

ASSUME DeviceAssumption ==
  /\ None \notin Addr \cup Mac \cup Brand \cup Name \cup Core
  /\ None \notin {Unknown, RandomizedMAC, TypeNetwork, TypeEnd, TypeUnknown,
                  StatusUp}
  /\ Unknown \notin Brand
  /\ RandomizedMAC \notin Brand
  /\ \A m \in DOMAIN Registered : Registered[m] \in Brand

Vendor == Brand \cup {Unknown, RandomizedMAC}
Type == {TypeNetwork, TypeEnd, TypeUnknown}

Opt(S) == S \cup {None}

SysInfo == [core : Opt(Core), neighbors : Opt({"neighbors"}),
            ifaces : Opt({"counters"})]

NoSysInfo == [core |-> None, neighbors |-> None, ifaces |-> None]

Device == [ip : Opt(Addr), mac : Opt(Mac), vendor : Opt(Vendor),
           hostname : Opt(Name), status : Opt({StatusUp}),
           type : Opt(Type), sys : SysInfo]

-----------------------------------------------------------------------------
(* Vendors and types.                                                      *)

\* oui.Lookup, of a whole address.
Lookup(m) == IF m \in Local THEN RandomizedMAC
             ELSE IF m \in DOMAIN Registered THEN Registered[m]
             ELSE Unknown

VendorUnset(v) == v \in {None, Unknown, RandomizedMAC}

InferType(v) == IF v \in {None, Unknown} THEN TypeUnknown
                ELSE IF v = RandomizedMAC THEN TypeEnd
                ELSE IF v \in NetworkHints THEN TypeNetwork
                ELSE IF v \in EndHints THEN TypeEnd
                ELSE TypeUnknown

-----------------------------------------------------------------------------
(* What each method reports of host h.                                     *)

IcmpDevice(h) ==
  [ip |-> h, mac |-> None, vendor |-> None, hostname |-> None,
   status |-> StatusUp, type |-> None, sys |-> NoSysInfo]

ArpDevice(h, m) ==
  [ip |-> h, mac |-> m, vendor |-> Lookup(m), hostname |-> None,
   status |-> StatusUp, type |-> InferType(Lookup(m)), sys |-> NoSysInfo]

\* A login on h: what the session told (core), the address found in its
\* output (m, or None), the name InferVendor finds in core (b, or None) and
\* whether the host runs a network operating system (net), which is when
\* neighbours and counters are asked for.
SshDevice(h, core, name, m, b, net, nbrs, ifs) ==
  LET v == IF m = None THEN None ELSE Lookup(m)
  IN  [ip |-> h, mac |-> m,
       vendor |-> IF b # None /\ VendorUnset(v) THEN b ELSE v,
       hostname |-> name, status |-> StatusUp,
       type |-> IF net THEN TypeNetwork ELSE None,
       sys |-> [core |-> core,
                neighbors |-> IF net THEN nbrs ELSE None,
                ifaces |-> IF net THEN ifs ELSE None]]

-----------------------------------------------------------------------------
(* The merge.                                                              *)

Fill(old, new) == IF old = None THEN new ELSE old

\* SysInfo.Empty
SysEmpty(s) == s = NoSysInfo

MergeSys(old, new) ==
  IF SysEmpty(old) THEN new
  ELSE [old EXCEPT !.neighbors = Fill(@, new.neighbors),
                   !.ifaces = Fill(@, new.ifaces)]

\* Mutants of MergeRow: the last vendor wins; the type of a confirmed switch
\* is not corrected.
MergeRowLastVendor(old, d) ==
  [ip |-> old.ip,
   mac |-> Fill(old.mac, d.mac),
   vendor |-> IF ~VendorUnset(d.vendor) THEN d.vendor ELSE old.vendor,
   hostname |-> Fill(old.hostname, d.hostname),
   status |-> IF d.status = StatusUp THEN StatusUp
              ELSE Fill(old.status, d.status),
   type |-> IF old.type = TypeUnknown /\ d.type = TypeNetwork
              THEN TypeNetwork ELSE Fill(old.type, d.type),
   sys |-> MergeSys(old.sys, d.sys)]

MergeRowOnlyFill(old, d) ==
  [ip |-> old.ip,
   mac |-> Fill(old.mac, d.mac),
   vendor |-> IF ~VendorUnset(d.vendor) /\ VendorUnset(old.vendor)
                THEN d.vendor ELSE old.vendor,
   hostname |-> Fill(old.hostname, d.hostname),
   status |-> IF d.status = StatusUp THEN StatusUp
              ELSE Fill(old.status, d.status),
   type |-> Fill(old.type, d.type),
   sys |-> MergeSys(old.sys, d.sys)]

\* mergeDevice when dst has a row for d's address: `old` with what d adds.
MergeRow(old, d) ==
  [ip |-> old.ip,
   mac |-> Fill(old.mac, d.mac),
   vendor |-> IF ~VendorUnset(d.vendor) /\ VendorUnset(old.vendor)
                THEN d.vendor ELSE old.vendor,
   hostname |-> Fill(old.hostname, d.hostname),
   status |-> IF d.status = StatusUp THEN StatusUp
              ELSE Fill(old.status, d.status),
   type |-> IF old.type = TypeUnknown /\ d.type = TypeNetwork
              THEN TypeNetwork ELSE Fill(old.type, d.type),
   sys |-> MergeSys(old.sys, d.sys)]

\* mergeDevice(dst, d): rows are keyed by address.
MergeDevice(rows, d) ==
  IF d.ip = None THEN rows
  ELSE [h \in DOMAIN rows \cup {d.ip} |->
          IF h # d.ip THEN rows[h]
          ELSE IF h \in DOMAIN rows THEN MergeRow(rows[h], d)
          ELSE d]

\* toSlice: no row leaves the pipeline with a blank status or type.
ToSlice(rows) ==
  {[rows[h] EXCEPT !.status = Fill(@, StatusUp),
                   !.type = Fill(@, TypeUnknown)] : h \in DOMAIN rows}
=============================================================================
