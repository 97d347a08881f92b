---------------------------- MODULE NetScanProofs -----------------------------
(***************************************************************************)
(* What the pipeline guarantees for any methods, reports and hosts, and    *)
(* what a whole run does, for any number of lookups: the properties of the *)
(* pipeline hold in it, the table printed is complete, and its names have  *)
(* the right source.                                                       *)
(***************************************************************************)
EXTENDS NetScan, WellFoundedInduction, TLAPS

-----------------------------------------------------------------------------
(* Facts about the merge.                                                  *)

LEMMA FillTyped == ASSUME NEW S, NEW old \in Opt(S), NEW new \in Opt(S)
                   PROVE  Fill(old, new) \in Opt(S)
BY DEF Fill

LEMMA MergeSysTyped == ASSUME NEW old \in SysInfo, NEW new \in SysInfo
                       PROVE  MergeSys(old, new) \in SysInfo
<1>1. /\ Fill(old.neighbors, new.neighbors) \in Opt({"neighbors"})
      /\ Fill(old.ifaces, new.ifaces) \in Opt({"counters"})
  BY FillTyped DEF SysInfo
<1>2. QED
  BY <1>1 DEF MergeSys, SysInfo

\* Merging two records about one host gives a record about that host.
LEMMA MergeRowTyped ==
  ASSUME NEW old \in Device, NEW d \in Device
  PROVE  MergeRow(old, d) \in Device /\ MergeRow(old, d).ip = old.ip
<1> USE DEF Device
<1>1. Fill(old.mac, d.mac) \in Opt(Mac)
  BY FillTyped
<1>2. Fill(old.hostname, d.hostname) \in Opt(Name)
  BY FillTyped
<1>3. Fill(old.status, d.status) \in Opt({StatusUp})
  BY FillTyped
<1>4. Fill(old.type, d.type) \in Opt(Type)
  BY FillTyped
<1>5. MergeSys(old.sys, d.sys) \in SysInfo
  BY MergeSysTyped
<1>6. StatusUp \in Opt({StatusUp}) /\ TypeNetwork \in Opt(Type)
  BY DEF Opt, Type
<1>7. QED
  BY <1>1, <1>2, <1>3, <1>4, <1>5, <1>6 DEF MergeRow

\* The record `new` says everything that `old` says for certain.
Keeps(old, new) ==
  /\ \A f \in {"ip", "mac", "hostname", "status"} :
       old[f] # None => new[f] = old[f]
  /\ ~VendorUnset(old.vendor) => new.vendor = old.vendor
  /\ old.type \notin {None, TypeUnknown} => new.type = old.type
  /\ \A f \in {"core", "neighbors", "ifaces"} :
       old.sys[f] # None => new.sys[f] = old.sys[f]

LEMMA KeepsItself == ASSUME NEW d PROVE Keeps(d, d)
BY DEF Keeps

\* The heart of "empty fields never overwrite filled ones".
LEMMA MergeRowKeeps == ASSUME NEW old \in Device, NEW d \in Device
                       PROVE  Keeps(old, MergeRow(old, d))
<1> DEFINE new == MergeRow(old, d)
<1>1. new.ip = old.ip
  BY DEF MergeRow
<1>2. /\ old.mac # None => new.mac = old.mac
      /\ old.hostname # None => new.hostname = old.hostname
  BY DEF MergeRow, Fill
<1>3. old.status # None => new.status = old.status
  BY DEF MergeRow, Fill, Device, Opt
<1>4. ~VendorUnset(old.vendor) => new.vendor = old.vendor
  BY DEF MergeRow
<1>5. old.type \notin {None, TypeUnknown} => new.type = old.type
  BY DEF MergeRow, Fill
<1>6. ASSUME NEW f \in {"core", "neighbors", "ifaces"}, old.sys[f] # None
      PROVE  new.sys[f] = old.sys[f]
  <2>1. new.sys = MergeSys(old.sys, d.sys)
    BY DEF MergeRow
  <2>2. old.sys \in SysInfo
    BY DEF Device
  <2>3. ~SysEmpty(old.sys)
    BY <1>6 DEF SysEmpty, NoSysInfo
  <2>4. MergeSys(old.sys, d.sys)
          = [old.sys EXCEPT !.neighbors = Fill(@, d.sys.neighbors),
                            !.ifaces = Fill(@, d.sys.ifaces)]
    BY <2>3 DEF MergeSys
  <2>5. CASE f = "core"
    BY <2>1, <2>2, <2>4, <2>5 DEF SysInfo
  <2>6. CASE f = "neighbors"
    BY <2>1, <2>2, <2>4, <2>6, <1>6 DEF SysInfo, Fill
  <2>7. CASE f = "ifaces"
    BY <2>1, <2>2, <2>4, <2>7, <1>6 DEF SysInfo, Fill
  <2>8. QED
    BY <1>6, <2>5, <2>6, <2>7
<1>7. \A f \in {"ip", "mac", "hostname", "status"} : old[f] # None => new[f] = old[f]
  BY <1>1, <1>2, <1>3
<1> HIDE DEF new
<1>8. Keeps(old, new)
  BY <1>4, <1>5, <1>6, <1>7 DEF Keeps
<1>9. QED
  BY <1>8 DEF new

-----------------------------------------------------------------------------
(* Types.                                                                  *)

TypeInv == /\ TypeOK
           /\ phase \in {"running", "merging"} => at <= Len(Methods)

Row(h, d) == d \in Device /\ d.ip = h

\* One turn of the merge keeps every other row, and has one for d's host.
LEMMA MergeDeviceFacts ==
  ASSUME TypeInv, NEW d \in Device, d.ip # None
  PROVE  /\ DOMAIN MergeDevice(rows, d) = DOMAIN rows \cup {d.ip}
         /\ DOMAIN MergeDevice(rows, d) \subseteq Addr
         /\ \A h \in DOMAIN MergeDevice(rows, d) : Row(h, MergeDevice(rows, d)[h])
         /\ \A h \in DOMAIN rows : Keeps(rows[h], MergeDevice(rows, d)[h])
<1>1. d.ip \in Addr
  BY DEF Device, Opt
<1>2. DOMAIN rows \subseteq Addr /\ \A h \in DOMAIN rows : Row(h, rows[h])
  BY DEF TypeInv, TypeOK, Row
<1>3. MergeDevice(rows, d) =
        [h \in DOMAIN rows \cup {d.ip} |->
           IF h # d.ip THEN rows[h]
           ELSE IF h \in DOMAIN rows THEN MergeRow(rows[h], d)
           ELSE d]
  BY DEF MergeDevice
<1>4. ASSUME NEW h \in DOMAIN rows \cup {d.ip}
      PROVE  /\ Row(h, MergeDevice(rows, d)[h])
             /\ h \in DOMAIN rows => Keeps(rows[h], MergeDevice(rows, d)[h])
  <2>1. CASE h # d.ip
    BY <1>2, <1>3, <2>1, KeepsItself
  <2>2. CASE h = d.ip /\ h \in DOMAIN rows
    <3>1. MergeDevice(rows, d)[h] = MergeRow(rows[h], d)
      BY <1>3, <2>2
    <3>2. rows[h] \in Device /\ rows[h].ip = h
      BY <1>2, <2>2 DEF Row
    <3>3. MergeRow(rows[h], d) \in Device /\ MergeRow(rows[h], d).ip = h
      BY <3>2, MergeRowTyped
    <3>4. Keeps(rows[h], MergeRow(rows[h], d))
      BY <3>2, MergeRowKeeps
    <3>5. QED
      BY <3>1, <3>3, <3>4 DEF Row
  <2>3. CASE h = d.ip /\ h \notin DOMAIN rows
    BY <1>3, <2>3 DEF Row
  <2>4. QED
    BY <1>4, <2>1, <2>2, <2>3
<1>5. QED
  BY <1>1, <1>2, <1>3, <1>4

LEMMA ToSliceTyped == TypeInv => ToSlice(rows) \subseteq Device
<1> SUFFICES ASSUME TypeInv, NEW h \in DOMAIN rows
             PROVE  [rows[h] EXCEPT !.status = Fill(@, StatusUp),
                                    !.type = Fill(@, TypeUnknown)] \in Device
  BY DEF ToSlice
<1>1. rows[h] \in Device
  BY DEF TypeInv, TypeOK
<1>2. StatusUp \in Opt({StatusUp}) /\ TypeUnknown \in Opt(Type)
  BY DEF Opt, Type
<1>3. /\ Fill(rows[h].status, StatusUp) \in Opt({StatusUp})
      /\ Fill(rows[h].type, TypeUnknown) \in Opt(Type)
  BY <1>1, <1>2, FillTyped DEF Device
<1>4. QED
  BY <1>1, <1>3 DEF Device

LEMMA TypeInit == Init => TypeInv
<1> SUFFICES ASSUME Init PROVE TypeInv
  OBVIOUS
<1>1. Len(Methods) \in Nat
  BY PipelineAssumption
<1>2. DOMAIN rows = {}
  BY DEF Init
<1>3. at \in 1 .. Len(Methods) + 1
  BY <1>1 DEF Init
<1>4. /\ DOMAIN rows \subseteq Addr
      /\ \A h \in DOMAIN rows : rows[h] \in Device /\ rows[h].ip = h
  BY <1>2
<1>5. /\ ctx \in BOOLEAN /\ phase = "loop" /\ err \in BOOLEAN
      /\ pending = {} /\ out = {} /\ said = <<>>
  BY DEF Init
<1>6. said \in Seq(Device)
  BY <1>5
<1>7. QED
  BY <1>3, <1>4, <1>5, <1>6 DEF TypeInv, TypeOK

LEMMA TypeStep == TypeInv /\ [Next]_vars => TypeInv'
<1> SUFFICES ASSUME TypeInv, [Next]_vars PROVE TypeInv'
  OBVIOUS
<1>0. Len(Methods) \in Nat /\ at \in 1 .. Len(Methods) + 1
  BY PipelineAssumption DEF TypeInv, TypeOK
<1>1. CASE StartMethod
  BY <1>0, <1>1 DEF StartMethod, TypeInv, TypeOK
<1>2. CASE MethodReturns
  <2>1. Methods[at] \in {"icmp", "arp", "ssh"}
    BY <1>0, <1>2, PipelineAssumption DEF MethodReturns, TypeInv
  <2>2. pending' \subseteq {d \in Device : d.ip # None}
    BY <1>2, <2>1, PipelineAssumption DEF MethodReturns
  <2>3. QED
    BY <1>0, <1>2, <2>2 DEF MethodReturns, TypeInv, TypeOK
<1>3. CASE MethodFails
  <2>1. out' \subseteq Device /\ err' \in BOOLEAN
    BY <1>3, ToSliceTyped DEF MethodFails, TypeInv, TypeOK
  <2>2. /\ phase' \in {"loop", "returned"}
        /\ at' \in 1 .. Len(Methods) + 1
    BY <1>0, <1>3 DEF MethodFails, TypeInv
  <2>3. QED
    BY <1>3, <2>1, <2>2 DEF MethodFails, TypeInv, TypeOK
<1>4. CASE Merge
  <2>1. PICK d \in pending : /\ rows' = MergeDevice(rows, d)
                             /\ said' = Append(said, d)
                             /\ pending' = pending \ {d}
    BY <1>4 DEF Merge
  <2>2. d \in Device /\ d.ip # None
    BY DEF TypeInv, TypeOK
  <2>3. /\ DOMAIN rows' \subseteq Addr
        /\ \A h \in DOMAIN rows' : Row(h, rows'[h])
    BY <2>1, <2>2, MergeDeviceFacts
  <2>4. said' \in Seq(Device)
    BY <2>1, <2>2 DEF TypeInv, TypeOK
  <2>5. QED
    BY <1>4, <2>1, <2>3, <2>4 DEF Merge, TypeInv, TypeOK, Row
<1>5. CASE MergeDone
  BY <1>0, <1>5 DEF MergeDone, TypeInv, TypeOK
<1>6. CASE Return
  BY <1>0, <1>6, ToSliceTyped DEF Return, TypeInv, TypeOK
<1>7. CASE Cancel \/ Finished \/ UNCHANGED vars
  BY <1>7 DEF Cancel, Finished, vars, TypeInv, TypeOK
<1>8. QED
  BY <1>1, <1>2, <1>3, <1>4, <1>5, <1>6, <1>7 DEF Next

\* Type correctness of the pipeline.
THEOREM TypeCorrect == Spec => []TypeOK
<1>1. TypeInv => TypeOK
  BY DEF TypeInv
<1>2. QED
  BY TypeInit, TypeStep, <1>1, PTL DEF Spec

-----------------------------------------------------------------------------
(* The merge is monotone.                                                  *)

\* mergeDevice: whatever the methods report and in whatever order, no step
\* of the pipeline takes back what a row holds.
THEOREM MergeMonotone == Spec => FilledStays
<1>1. ASSUME TypeInv, [Next]_vars, NEW h \in DOMAIN rows
      PROVE  h \in DOMAIN rows' /\ Keeps(rows[h], rows'[h])
  <2>1. CASE Merge
    <3>1. PICK d \in pending : rows' = MergeDevice(rows, d)
      BY <2>1 DEF Merge
    <3>2. d \in Device /\ d.ip # None
      BY <1>1 DEF TypeInv, TypeOK
    <3>3. QED
      BY <1>1, <3>1, <3>2, MergeDeviceFacts
  <2>2. CASE UNCHANGED rows
    BY <1>1, <2>2, KeepsItself
  <2>3. QED
    BY <1>1, <2>1, <2>2 DEF Next, StartMethod, MethodReturns, MethodFails,
       MergeDone, Return, Cancel, Finished, vars
<1>2. TypeInv /\ [Next]_vars =>
        [\A h \in DOMAIN rows :
           /\ h \in DOMAIN rows'
           /\ \A f \in {"ip", "mac", "hostname", "status"} :
                rows[h][f] # None => rows'[h][f] = rows[h][f]
           /\ ~VendorUnset(rows[h].vendor) => rows'[h].vendor = rows[h].vendor
           /\ rows[h].type \notin {None, TypeUnknown} => rows'[h].type = rows[h].type
           /\ \A f \in {"core", "neighbors", "ifaces"} :
                rows[h].sys[f] # None => rows'[h].sys[f] = rows[h].sys[f]]_vars
  BY <1>1 DEF Keeps
<1>3. QED
  BY TypeInit, TypeStep, <1>2, PTL DEF Spec, FilledStays

-----------------------------------------------------------------------------
(* A row is what was said first.                                           *)

\* The least-number principle, which replaces induction in these proofs.
LEMMA Least == ASSUME NEW I, I \subseteq Nat, I # {}
               PROVE  \E i \in I : \A j \in I : i <= j
<1> DEFINE R == OpToRel(<, Nat)
<1>1. IsWellFoundedOn(R, Nat)
  BY NatLessThanWellFounded
<1>2. PICK m \in I : \A y \in I : ~ (<<y, m>> \in R)
  BY <1>1, WFMin
<1>3. ASSUME NEW y \in I PROVE  m <= y
  <2>1. y \in Nat /\ m \in Nat
    OBVIOUS
  <2>2. y < m => <<y, m>> \in R
    BY <2>1 DEF OpToRel
  <2> HIDE DEF R
  <2>3. QED
    BY <1>2, <2>1, <2>2
<1>4. QED
  BY <1>3

\* The earliest of some places stays so when a later one is added.
LEMMA EarliestStays ==
  ASSUME NEW n \in Nat, NEW I, I \subseteq 1 .. n,
         NEW J, J = I \/ J = I \cup {n + 1}
  PROVE  /\ I # {} => Earliest(J) = Earliest(I) /\ Earliest(I) \in I
         /\ I = {} /\ J # {} => Earliest(J) = n + 1
<1>1. CASE I # {}
  <2>1. PICK e \in I : \A j \in I : e <= j
    <3>1. I \subseteq Nat
      OBVIOUS
    <3> QED
      BY <1>1, <3>1, Least
  <2>2. e \in 1 .. n /\ \A j \in I : j \in 1 .. n
    OBVIOUS
  <2>3. \A x \in I : (\A j \in I : x <= j) => x = e
    BY <2>1, <2>2
  <2>4. Earliest(I) = e
    BY <2>1, <2>3 DEF Earliest
  <2>5. e \in J /\ \A j \in J : e <= j
    <3>1. e <= n + 1
      BY <2>2
    <3> QED
      BY <2>1, <3>1
  <2>6. \A x \in J : (\A j \in J : x <= j) => x = e
    BY <2>2, <2>5
  <2>7. Earliest(J) = e
    BY <2>5, <2>6 DEF Earliest
  <2> QED
    BY <1>1, <2>1, <2>4, <2>7
<1>2. CASE I = {} /\ J # {}
  <2>1. J = {n + 1}
    BY <1>2
  <2>2. \A x \in J : x = n + 1
    BY <2>1
  <2>3. n + 1 \in J /\ \A j \in J : n + 1 <= j
    BY <2>1
  <2>4. Earliest(J) = n + 1
    BY <2>2, <2>3 DEF Earliest
  <2> QED
    BY <1>2, <2>4
<1> QED
  BY <1>1, <1>2

\* One more record is merged: d, after n others.
Said(n, d) ==
  /\ n \in Nat /\ d \in Device
  /\ DOMAIN said = 1 .. n /\ DOMAIN said' = 1 .. n + 1
  /\ \A i \in 1 .. n : said[i] \in Device /\ said'[i] = said[i]
  /\ said'[n + 1] = d

LEMMA SaidOne ==
  ASSUME TypeInv, NEW d \in Device, said' = Append(said, d)
  PROVE  Said(Len(said), d)
<1>1. said \in Seq(Device)
  BY DEF TypeInv, TypeOK
<1> QED
  BY <1>1 DEF Said

LEMMA AboutMore ==
  ASSUME NEW n, NEW d, Said(n, d), NEW h
  PROVE  /\ About(h) \subseteq 1 .. n
         /\ About(h)' = IF h = d.ip THEN About(h) \cup {n + 1} ELSE About(h)
<1>1. About(h) = {i \in 1 .. n : said[i].ip = h}
  BY DEF About, Said
<1>2. About(h)' = {i \in 1 .. n + 1 : said'[i].ip = h}
  BY DEF About, Said
<1>3. n + 1 \in 1 .. n + 1 /\ \A i : i \in 1 .. n + 1 <=> i \in 1 .. n \/ i = n + 1
  BY DEF Said
<1>4. n + 1 \notin 1 .. n
  BY DEF Said
<1> QED
  BY <1>1, <1>2, <1>3, <1>4 DEF Said

\* A field filled is never emptied: what `First` says of a record more.
LEMMA FirstMore ==
  ASSUME NEW n, NEW d, Said(n, d), NEW h, NEW f
  PROVE  First(h, f)' = IF h = d.ip THEN Fill(First(h, f), d[f]) ELSE First(h, f)
<1> DEFINE I == {i \in About(h) : said[i][f] # None}
           J == {i \in About(h)' : said'[i][f] # None}
<1>1. /\ First(h, f) = IF I = {} THEN None ELSE said[Earliest(I)][f]
      /\ First(h, f)' = IF J = {} THEN None ELSE said'[Earliest(J)][f]
  BY DEF First
<1>2. /\ n \in Nat /\ I \subseteq 1 .. n
      /\ \A i \in 1 .. n : said'[i] = said[i]
      /\ said'[n + 1] = d
  BY AboutMore DEF Said
<1>3. J = IF h = d.ip /\ d[f] # None THEN I \cup {n + 1} ELSE I
  BY <1>2, AboutMore
<1>4. /\ I # {} => Earliest(J) = Earliest(I) /\ Earliest(I) \in I
      /\ I = {} /\ J # {} => Earliest(J) = n + 1
  BY <1>2, <1>3, EarliestStays
<1>5. CASE I # {}
  <2>1. J # {} /\ Earliest(I) \in I /\ Earliest(I) \in 1 .. n
    BY <1>2, <1>3, <1>4, <1>5
  <2>2. said[Earliest(I)][f] # None /\ said'[Earliest(J)] = said[Earliest(I)]
    BY <1>2, <1>4, <1>5, <2>1
  <2> HIDE DEF I, J
  <2> QED
    BY <1>1, <1>5, <2>1, <2>2 DEF Fill
<1>6. CASE I = {}
  <2> HIDE DEF I, J
  <2> QED
    BY <1>1, <1>2, <1>3, <1>4, <1>6 DEF Fill
<1> QED
  BY <1>5, <1>6

LEMMA VendorMore ==
  ASSUME NEW n, NEW d, Said(n, d), NEW h
  PROVE  /\ About(h) = {} /\ h = d.ip => FirstVendor(h)' = d.vendor
         /\ About(h) # {} =>
              FirstVendor(h)' =
                IF /\ h = d.ip
                   /\ ~VendorUnset(d.vendor) /\ VendorUnset(FirstVendor(h))
                  THEN d.vendor ELSE FirstVendor(h)
<1> DEFINE I == {i \in About(h) : ~VendorUnset(said[i].vendor)}
           J == {i \in About(h)' : ~VendorUnset(said'[i].vendor)}
           A == About(h)
           B == About(h)'
<1>1. /\ FirstVendor(h) = said[Earliest(IF I = {} THEN A ELSE I)].vendor
      /\ FirstVendor(h)' = said'[Earliest(IF J = {} THEN B ELSE J)].vendor
  BY DEF FirstVendor
<1>2. /\ n \in Nat /\ A \subseteq 1 .. n /\ I \subseteq A
      /\ \A i \in 1 .. n : said'[i] = said[i]
      /\ said'[n + 1] = d
      /\ B = IF h = d.ip THEN A \cup {n + 1} ELSE A
  BY AboutMore DEF Said
<1>3. J = IF h = d.ip /\ ~VendorUnset(d.vendor) THEN I \cup {n + 1} ELSE I
  <2>1. \A i \in A : said'[i] = said[i] /\ i # n + 1
    BY <1>2
  <2> QED
    BY <1>2, <2>1
<1>4. /\ I # {} => Earliest(J) = Earliest(I) /\ Earliest(I) \in I
      /\ I = {} /\ J # {} => Earliest(J) = n + 1
  <2>1. I \subseteq 1 .. n
    BY <1>2
  <2> QED
    BY <1>2, <1>3, <2>1, EarliestStays
<1>5. /\ A # {} => Earliest(B) = Earliest(A) /\ Earliest(A) \in A
      /\ A = {} /\ B # {} => Earliest(B) = n + 1
  BY <1>2, EarliestStays
<1>6. \A i \in A : i \notin I => VendorUnset(said[i].vendor)
  OBVIOUS
<1>7. \A i \in I : ~VendorUnset(said[i].vendor)
  OBVIOUS
<1> HIDE DEF I, J, A, B
<1>8. CASE I # {}
  <2>1. J # {} /\ Earliest(I) \in 1 .. n /\ ~VendorUnset(said[Earliest(I)].vendor)
    BY <1>2, <1>3, <1>4, <1>7, <1>8
  <2>2. FirstVendor(h)' = FirstVendor(h) /\ ~VendorUnset(FirstVendor(h))
    BY <1>1, <1>2, <1>4, <1>8, <2>1
  <2> QED
    BY <1>2, <1>8, <2>2 DEF A
<1>9. CASE I = {} /\ J # {}
  <2>1. h = d.ip /\ FirstVendor(h)' = d.vendor /\ ~VendorUnset(d.vendor)
    BY <1>1, <1>2, <1>3, <1>4, <1>9
  <2>2. A # {} => VendorUnset(FirstVendor(h))
    BY <1>1, <1>2, <1>5, <1>6, <1>9
  <2> QED
    BY <2>1, <2>2 DEF A
<1>10. CASE I = {} /\ J = {}
  <2>1. h = d.ip => VendorUnset(d.vendor)
    BY <1>3, <1>10
  <2>2. CASE A = {}
    BY <1>1, <1>2, <1>5, <1>10, <2>2 DEF A
  <2>3. CASE A # {}
    <3>1. B # {} /\ Earliest(A) \in 1 .. n /\ Earliest(B) = Earliest(A)
      BY <1>2, <1>5, <2>3
    <3>2. FirstVendor(h)' = FirstVendor(h)
      BY <1>1, <1>2, <1>10, <3>1
    <3> QED
      BY <2>1, <2>3, <3>2 DEF A
  <2> QED
    BY <2>2, <2>3
<1> QED
  BY <1>8, <1>9, <1>10

LEMMA TypeMore ==
  ASSUME NEW n, NEW d, Said(n, d), NEW h
  PROVE  FirstType(h)' =
           IF h # d.ip THEN FirstType(h)
           ELSE IF FirstType(h) = TypeUnknown /\ d.type = TypeNetwork
             THEN TypeNetwork ELSE Fill(FirstType(h), d.type)
<1> DEFINE t == First(h, "type")
           net == \E i \in About(h) : said[i].type = TypeNetwork
<1>1. First(h, "type")' = IF h = d.ip THEN Fill(t, d.type) ELSE t
  BY FirstMore
<1>2. /\ FirstType(h) = IF t = TypeUnknown /\ net THEN TypeNetwork ELSE t
      /\ FirstType(h)' = IF First(h, "type")' = TypeUnknown /\ net'
                           THEN TypeNetwork ELSE First(h, "type")'
  BY DEF FirstType
<1>3. net' <=> net \/ (h = d.ip /\ d.type = TypeNetwork)
  <2>1. /\ n \in Nat /\ About(h) \subseteq 1 .. n
        /\ \A i \in 1 .. n : said'[i] = said[i]
        /\ said'[n + 1] = d
        /\ About(h)' = IF h = d.ip THEN About(h) \cup {n + 1} ELSE About(h)
    BY AboutMore DEF Said
  <2>2. \A i \in About(h) : said'[i] = said[i]
    BY <2>1
  <2> QED
    BY <2>1, <2>2
<1>4. t = None => ~net
  <2>1. ASSUME NEW i \in About(h), said[i].type = TypeNetwork
        PROVE  t # None
    <3> DEFINE I == {j \in About(h) : said[j].type # None}
    <3>0. TypeNetwork # None
      BY DeviceAssumption
    <3>1. i \in I /\ I \subseteq Nat
      BY <2>1, <3>0, AboutMore DEF Said
    <3>2. PICK e \in I : \A j \in I : e <= j
      BY <3>1, Least
    <3>3. Earliest(I) \in I
      BY <3>2 DEF Earliest
    <3> QED
      BY <3>1, <3>3 DEF First
  <2> QED
    BY <2>1
<1>5. TypeNetwork # TypeUnknown /\ TypeUnknown # None /\ TypeNetwork # None
  BY DeviceAssumption DEF TypeNetwork, TypeUnknown
<1> HIDE DEF t, net
<1> QED
  BY <1>1, <1>2, <1>3, <1>4, <1>5 DEF Fill

LEMMA LoginsMore ==
  ASSUME NEW n, NEW d, Said(n, d), NEW h
  PROVE  /\ Logins(h) \subseteq 1 .. n
         /\ Logins(h)' = IF h = d.ip /\ ~SysEmpty(d.sys)
                           THEN Logins(h) \cup {n + 1} ELSE Logins(h)
<1>1. /\ n \in Nat /\ About(h) \subseteq 1 .. n
      /\ \A i \in 1 .. n : said'[i] = said[i]
      /\ said'[n + 1] = d
      /\ About(h)' = IF h = d.ip THEN About(h) \cup {n + 1} ELSE About(h)
  BY AboutMore DEF Said
<1>2. \A i \in About(h) : said'[i] = said[i]
  BY <1>1
<1> QED
  BY <1>1, <1>2 DEF Logins

\* What a login tells of itself: a field that is there makes it one.
LEMMA ToldMore ==
  ASSUME NEW n, NEW d, Said(n, d), NEW h, NEW f \in {"core", "neighbors", "ifaces"}
  PROVE  FirstTold(h, f)' = IF h = d.ip THEN Fill(FirstTold(h, f), d.sys[f])
                            ELSE FirstTold(h, f)
<1> DEFINE I == {i \in Logins(h) : said[i].sys[f] # None}
           J == {i \in Logins(h)' : said'[i].sys[f] # None}
<1>1. /\ FirstTold(h, f) = IF I = {} THEN None ELSE said[Earliest(I)].sys[f]
      /\ FirstTold(h, f)' = IF J = {} THEN None ELSE said'[Earliest(J)].sys[f]
  BY DEF FirstTold
<1>2. /\ n \in Nat /\ I \subseteq 1 .. n
      /\ \A i \in 1 .. n : said'[i] = said[i]
      /\ said'[n + 1] = d
  BY LoginsMore DEF Said
<1>3. SysEmpty(d.sys) => d.sys[f] = None
  BY DEF SysEmpty, NoSysInfo
<1>4. J = IF h = d.ip /\ d.sys[f] # None THEN I \cup {n + 1} ELSE I
  <2>1. Logins(h) \subseteq 1 .. n
    BY LoginsMore
  <2>2. \A i \in Logins(h) : said'[i] = said[i]
    BY <1>2, <2>1
  <2> QED
    BY <1>2, <1>3, <2>2, LoginsMore
<1>5. /\ I # {} => Earliest(J) = Earliest(I) /\ Earliest(I) \in I
      /\ I = {} /\ J # {} => Earliest(J) = n + 1
  BY <1>2, <1>4, EarliestStays
<1>6. CASE I # {}
  <2>1. J # {} /\ Earliest(I) \in I /\ Earliest(I) \in 1 .. n
    BY <1>2, <1>4, <1>5, <1>6
  <2>2. said[Earliest(I)].sys[f] # None /\ said'[Earliest(J)] = said[Earliest(I)]
    BY <1>2, <1>5, <1>6, <2>1
  <2> HIDE DEF I, J
  <2> QED
    BY <1>1, <1>6, <2>1, <2>2 DEF Fill
<1>7. CASE I = {}
  <2> HIDE DEF I, J
  <2> QED
    BY <1>1, <1>2, <1>4, <1>5, <1>7 DEF Fill
<1> QED
  BY <1>6, <1>7

\* The first login told something.
LEMMA LoginTold ==
  ASSUME NEW n, NEW d, Said(n, d), NEW h, Logins(h) # {}
  PROVE  ~SysEmpty(FirstSys(h))
<1> DEFINE e == Earliest(Logins(h))
<1>1. Logins(h) \subseteq 1 .. n /\ n \in Nat
  BY LoginsMore DEF Said
<1>2. e \in Logins(h)
  BY <1>1, EarliestStays
<1>3. said[e].sys \in SysInfo /\ ~SysEmpty(said[e].sys)
  BY <1>1, <1>2 DEF Said, Device, Logins
<1>4. \/ said[e].sys.core # None \/ said[e].sys.neighbors # None
      \/ said[e].sys.ifaces # None
  BY <1>3 DEF SysInfo, SysEmpty, NoSysInfo
<1>5. ASSUME NEW f \in {"neighbors", "ifaces"}, said[e].sys[f] # None
      PROVE  FirstTold(h, f) # None
  <2> DEFINE I == {i \in Logins(h) : said[i].sys[f] # None}
  <2>1. e \in I /\ I \subseteq 1 .. n
    BY <1>1, <1>2, <1>5
  <2>2. Earliest(I) \in I
    BY <1>1, <2>1, EarliestStays
  <2> QED
    BY <2>1, <2>2 DEF FirstTold
<1>6. FirstSys(h) = [core |-> said[e].sys.core,
                     neighbors |-> FirstTold(h, "neighbors"),
                     ifaces |-> FirstTold(h, "ifaces")]
  BY DEF FirstSys
<1> HIDE DEF e
<1> QED
  BY <1>4, <1>5, <1>6 DEF SysEmpty, NoSysInfo

LEMMA MergeSysFilled ==
  ASSUME NEW c, NEW n, NEW i, NEW new,
         ~SysEmpty([core |-> c, neighbors |-> n, ifaces |-> i])
  PROVE  MergeSys([core |-> c, neighbors |-> n, ifaces |-> i], new)
           = [core |-> c, neighbors |-> Fill(n, new.neighbors),
              ifaces |-> Fill(i, new.ifaces)]
BY DEF MergeSys

LEMMA SysMore ==
  ASSUME NEW n, NEW d, Said(n, d), NEW h
  PROVE  FirstSys(h)' = IF h = d.ip THEN MergeSys(FirstSys(h), d.sys)
                        ELSE FirstSys(h)
<1> DEFINE told == [neighbors |-> FirstTold(h, "neighbors"),
                    ifaces |-> FirstTold(h, "ifaces")]
           I == Logins(h)
           J == Logins(h)'
<1>1. /\ FirstSys(h) = IF I = {} THEN NoSysInfo
                       ELSE [core |-> said[Earliest(I)].sys.core,
                             neighbors |-> FirstTold(h, "neighbors"),
                             ifaces |-> FirstTold(h, "ifaces")]
      /\ FirstSys(h)' = IF J = {} THEN NoSysInfo
                        ELSE [core |-> said'[Earliest(J)].sys.core,
                              neighbors |-> FirstTold(h, "neighbors")',
                              ifaces |-> FirstTold(h, "ifaces")']
  BY DEF FirstSys
<1>2. /\ n \in Nat /\ I \subseteq 1 .. n
      /\ \A i \in 1 .. n : said'[i] = said[i]
      /\ said'[n + 1] = d /\ d.sys \in SysInfo
      /\ J = IF h = d.ip /\ ~SysEmpty(d.sys) THEN I \cup {n + 1} ELSE I
  BY LoginsMore DEF Said, Device
<1>3. /\ I # {} => Earliest(J) = Earliest(I) /\ Earliest(I) \in I
      /\ I = {} /\ J # {} => Earliest(J) = n + 1
  BY <1>2, EarliestStays
<1>4. \A f \in {"neighbors", "ifaces"} :
        FirstTold(h, f)' = IF h = d.ip THEN Fill(FirstTold(h, f), d.sys[f])
                           ELSE FirstTold(h, f)
  BY ToldMore
<1>5. CASE I # {}
  <2>1. J # {} /\ said'[Earliest(J)].sys.core = said[Earliest(I)].sys.core
    BY <1>2, <1>3, <1>5
  <2>2. ~SysEmpty(FirstSys(h))
    BY <1>5, LoginTold
  <2>3. MergeSys(FirstSys(h), d.sys) =
          [core |-> said[Earliest(I)].sys.core,
           neighbors |-> Fill(FirstTold(h, "neighbors"), d.sys.neighbors),
           ifaces |-> Fill(FirstTold(h, "ifaces"), d.sys.ifaces)]
    BY <1>1, <1>5, <2>2, MergeSysFilled
  <2> HIDE DEF I, J
  <2> QED
    BY <1>1, <1>4, <1>5, <2>1, <2>3
<1>6. CASE I = {}
  <2>1. FirstSys(h) = NoSysInfo
    BY <1>1, <1>6
  <2>2. MergeSys(FirstSys(h), d.sys) = d.sys
    BY <2>1 DEF MergeSys, SysEmpty
  <2>3. \A f \in {"neighbors", "ifaces"} : FirstTold(h, f) = None
    BY <1>6 DEF FirstTold
  <2> HIDE DEF I, J
  <2>4. CASE h = d.ip /\ ~SysEmpty(d.sys)
    <3>1. J # {} /\ said'[Earliest(J)] = d
      BY <1>2, <1>3, <1>6, <2>4
    <3>2. \A f \in {"neighbors", "ifaces"} : FirstTold(h, f)' = d.sys[f]
      BY <1>4, <2>3, <2>4 DEF Fill
    <3>3. FirstSys(h)' = [core |-> d.sys.core, neighbors |-> d.sys.neighbors,
                          ifaces |-> d.sys.ifaces]
      BY <1>1, <3>1, <3>2
    <3> QED
      BY <1>2, <2>2, <2>4, <3>3 DEF SysInfo
  <2>5. CASE h # d.ip \/ SysEmpty(d.sys)
    BY <1>1, <1>2, <1>6, <2>1, <2>2, <2>5 DEF SysEmpty
  <2> QED
    BY <2>4, <2>5
<1> QED
  BY <1>5, <1>6

\* The row that the records merged so far make.
RowSaid(h) == [ip |-> h,
               mac |-> First(h, "mac"),
               vendor |-> FirstVendor(h),
               hostname |-> First(h, "hostname"),
               status |-> First(h, "status"),
               type |-> FirstType(h),
               sys |-> FirstSys(h)]

\* The hosts with a row are those spoken of.
SaidInv == /\ FirstWins
           /\ \A h : h \in DOMAIN rows <=> About(h) # {}

\* A record merged with the row that the earlier ones made.
LEMMA RowMore ==
  ASSUME NEW n, NEW d, Said(n, d), d.ip # None, About(d.ip) # {}
  PROVE  RowSaid(d.ip)' = MergeRow(RowSaid(d.ip), d)
<1> DEFINE h == d.ip
           old == RowSaid(h)
<1>1. /\ old.ip = h /\ old.mac = First(h, "mac") /\ old.vendor = FirstVendor(h)
      /\ old.hostname = First(h, "hostname") /\ old.status = First(h, "status")
      /\ old.type = FirstType(h) /\ old.sys = FirstSys(h)
  BY DEF RowSaid
<1>2. /\ First(h, "mac")' = Fill(old.mac, d.mac)
      /\ First(h, "hostname")' = Fill(old.hostname, d.hostname)
      /\ First(h, "status")' = Fill(old.status, d.status)
  BY <1>1, FirstMore
<1>3. FirstVendor(h)' = IF ~VendorUnset(d.vendor) /\ VendorUnset(old.vendor)
                          THEN d.vendor ELSE old.vendor
  BY <1>1, VendorMore
<1>4. FirstType(h)' = IF old.type = TypeUnknown /\ d.type = TypeNetwork
                        THEN TypeNetwork ELSE Fill(old.type, d.type)
  BY <1>1, TypeMore
<1>5. FirstSys(h)' = MergeSys(old.sys, d.sys)
  BY <1>1, SysMore
<1>6. First(h, "status") \in Opt({StatusUp})
  <2> DEFINE I == {i \in About(h) : said[i].status # None}
  <2>1. n \in Nat /\ I \subseteq 1 .. n
    BY AboutMore DEF Said
  <2>2. I # {} => Earliest(I) \in I
    BY <2>1, EarliestStays
  <2>3. \A i \in I : said[i].status \in Opt({StatusUp})
    BY <2>1 DEF Said, Device
  <2> QED
    BY <2>2, <2>3 DEF First, Opt
<1>7. Fill(old.status, d.status)
        = IF d.status = StatusUp THEN StatusUp ELSE Fill(old.status, d.status)
  BY <1>1, <1>6 DEF Fill, Opt
<1>8. RowSaid(h)' = [ip |-> h,
                     mac |-> First(h, "mac")',
                     vendor |-> FirstVendor(h)',
                     hostname |-> First(h, "hostname")',
                     status |-> First(h, "status")',
                     type |-> FirstType(h)',
                     sys |-> FirstSys(h)']
  BY DEF RowSaid
<1> HIDE DEF old
<1> QED
  BY <1>1, <1>2, <1>3, <1>4, <1>5, <1>7, <1>8 DEF MergeRow, old

\* The first record of a host is its row.
LEMMA RowFirst ==
  ASSUME NEW n, NEW d, Said(n, d), About(d.ip) = {}
  PROVE  RowSaid(d.ip)' = d
<1> DEFINE h == d.ip
<1>1. \A f : First(h, f) = None
  BY DEF First
<1>2. \A f : First(h, f)' = d[f]
  BY <1>1, FirstMore DEF Fill
<1>3. FirstVendor(h)' = d.vendor
  BY VendorMore
<1>4. FirstType(h)' = d.type
  <2>1. FirstType(h) = None
    BY <1>1, DeviceAssumption DEF FirstType, TypeUnknown
  <2> QED
    BY <2>1, TypeMore, DeviceAssumption DEF Fill
<1>5. FirstSys(h)' = d.sys
  <2>1. FirstSys(h) = NoSysInfo
    BY DEF FirstSys, Logins
  <2> QED
    BY <2>1, SysMore DEF MergeSys, SysEmpty
<1>6. RowSaid(h)' = [ip |-> h, mac |-> d.mac, vendor |-> d.vendor,
                     hostname |-> d.hostname, status |-> d.status,
                     type |-> d.type, sys |-> d.sys]
  BY <1>2, <1>3, <1>4, <1>5 DEF RowSaid
<1> QED
  BY <1>6 DEF Said, Device

LEMMA SaidInit == Init => SaidInv
<1> SUFFICES ASSUME Init PROVE SaidInv
  OBVIOUS
<1>1. DOMAIN rows = {} /\ DOMAIN said = {}
  BY DEF Init
<1> QED
  BY <1>1 DEF SaidInv, FirstWins, About

LEMMA SaidStep == TypeInv /\ SaidInv /\ [Next]_vars => SaidInv'
<1> SUFFICES ASSUME TypeInv, SaidInv, [Next]_vars PROVE SaidInv'
  OBVIOUS
<1>1. \A h \in DOMAIN rows : rows[h] = RowSaid(h)
  BY DEF SaidInv, FirstWins, RowSaid
<1>2. CASE Merge
  <2>1. PICK d \in pending : rows' = MergeDevice(rows, d) /\ said' = Append(said, d)
    BY <1>2 DEF Merge
  <2>2. d \in Device /\ d.ip # None
    BY DEF TypeInv, TypeOK
  <2>3. PICK n : Said(n, d)
    BY <2>1, <2>2, SaidOne
  <2>4. rows' = [h \in DOMAIN rows \cup {d.ip} |->
                   IF h # d.ip THEN rows[h]
                   ELSE IF h \in DOMAIN rows THEN MergeRow(rows[h], d)
                   ELSE d]
    BY <2>1, <2>2 DEF MergeDevice
  <2>5. \A h : h \in DOMAIN rows' <=> About(h)' # {}
    <3>1. DOMAIN rows' = DOMAIN rows \cup {d.ip}
      BY <2>4
    <3> QED
      BY <2>3, <3>1, AboutMore DEF SaidInv
  <2>6. ASSUME NEW h \in DOMAIN rows, h # d.ip PROVE rows'[h] = RowSaid(h)'
    <3>1. About(h) # {}
      BY DEF SaidInv
    <3>2. FirstVendor(h)' = FirstVendor(h)
      BY <2>3, <2>6, <3>1, VendorMore
    <3>3. /\ \A f : First(h, f)' = First(h, f)
          /\ FirstType(h)' = FirstType(h) /\ FirstSys(h)' = FirstSys(h)
      BY <2>3, <2>6, FirstMore, TypeMore, SysMore
    <3>4. RowSaid(h)' = RowSaid(h)
      BY <3>2, <3>3 DEF RowSaid
    <3> QED
      BY <1>1, <2>4, <2>6, <3>4
  <2>7. rows'[d.ip] = RowSaid(d.ip)'
    <3>1. CASE d.ip \in DOMAIN rows
      <4>1. About(d.ip) # {}
        BY <3>1 DEF SaidInv
      <4>2. RowSaid(d.ip)' = MergeRow(RowSaid(d.ip), d)
        BY <2>2, <2>3, <4>1, RowMore
      <4> QED
        BY <1>1, <2>4, <3>1, <4>2
    <3>2. CASE d.ip \notin DOMAIN rows
      <4>1. About(d.ip) = {}
        BY <3>2 DEF SaidInv
      <4>2. RowSaid(d.ip)' = d
        BY <2>3, <4>1, RowFirst
      <4> QED
        BY <2>4, <3>2, <4>2
    <3> QED
      BY <3>1, <3>2
  <2>8. \A h \in DOMAIN rows' : rows'[h] = RowSaid(h)'
    BY <2>4, <2>6, <2>7
  <2> QED
    BY <2>5, <2>8 DEF SaidInv, FirstWins, RowSaid
<1>3. CASE UNCHANGED <<rows, said>>
  <2>1. \A h : About(h)' = About(h) /\ Logins(h)' = Logins(h)
    BY <1>3 DEF About, Logins
  <2>2. ASSUME NEW h PROVE RowSaid(h)' = RowSaid(h)
    <3>1. \A f : First(h, f)' = First(h, f)
      BY <1>3, <2>1 DEF First
    <3>2. \A f : FirstTold(h, f)' = FirstTold(h, f)
      BY <1>3, <2>1 DEF FirstTold
    <3>3. FirstVendor(h)' = FirstVendor(h)
      BY <1>3, <2>1 DEF FirstVendor
    <3>4. FirstType(h)' = FirstType(h)
      BY <1>3, <2>1, <3>1 DEF FirstType
    <3>5. FirstSys(h)' = FirstSys(h)
      BY <1>3, <2>1, <3>2 DEF FirstSys
    <3> QED
      BY <3>1, <3>3, <3>4, <3>5 DEF RowSaid
  <2> QED
    BY <1>1, <1>3, <2>1, <2>2 DEF SaidInv, FirstWins, RowSaid
<1> QED
  BY <1>2, <1>3 DEF Next, StartMethod, MethodReturns, MethodFails,
     MergeDone, Return, Cancel, Finished, vars

\* mergeDevice: whatever the methods report and in whatever order, a row is
\* what was said first of its host, field by field.
THEOREM FirstSaidWins == Spec => []FirstWins
<1>1. SaidInv => FirstWins
  BY DEF SaidInv
<1> QED
  BY TypeInit, TypeStep, SaidInit, SaidStep, <1>1, PTL DEF Spec

-----------------------------------------------------------------------------
(* Nothing is lost.                                                        *)

Hosts(S) == {d.ip : d \in S}

RanTyped ==
  ran \in Seq([end : {"ok", "warned", "fatal"}, devs : SUBSET Device])

\* What was reported is in a row or still to be merged; what was called is
\* in ran.
LossInv ==
  /\ DOMAIN rows \cup Hosts(pending) = Hosts(Reported)
  /\ phase # "merging" => pending = {}
  /\ phase \in {"loop", "running"} => Len(ran) = at - 1
  /\ phase = "merging" => Len(ran) = at
  /\ RanTyped
  /\ phase # "returned" => ~err
  /\ ~err => Ended("fatal") = {}
  /\ err => Ended("fatal") = {Len(ran)}
  /\ phase = "returned" =>
       /\ Hosts(out) = DOMAIN rows
       /\ ~err => ctx \/ Len(ran) = Len(Methods)

LEMMA AppendRan ==
  ASSUME NEW e \in {"ok", "warned", "fatal"}, NEW D \in SUBSET Device, LossInv,
         ran' = Append(ran, [end |-> e, devs |-> D])
  PROVE  /\ RanTyped'
         /\ Len(ran') = Len(ran) + 1
         /\ Reported' = Reported \cup D
         /\ Ended("fatal")' =
              IF e = "fatal" THEN Ended("fatal") \cup {Len(ran) + 1}
              ELSE Ended("fatal")
<1>1. ran \in Seq([end : {"ok", "warned", "fatal"}, devs : SUBSET Device])
  BY DEF LossInv, RanTyped
<1>2. /\ ran' \in Seq([end : {"ok", "warned", "fatal"}, devs : SUBSET Device])
      /\ Len(ran) \in Nat /\ Len(ran') = Len(ran) + 1
      /\ DOMAIN ran = 1 .. Len(ran) /\ DOMAIN ran' = 1 .. Len(ran) + 1
      /\ \A i \in 1 .. Len(ran) : ran'[i] = ran[i]
      /\ ran'[Len(ran) + 1] = [end |-> e, devs |-> D]
  BY <1>1
<1>3. \A i \in DOMAIN ran' : i \in DOMAIN ran \/ i = Len(ran) + 1
  BY <1>2
<1>4. Len(ran) + 1 \in DOMAIN ran' /\ DOMAIN ran \subseteq DOMAIN ran'
  BY <1>2
<1>5. Reported' = Reported \cup D
  BY <1>2, <1>3, <1>4 DEF Reported
<1>6. Ended("fatal")' = IF e = "fatal" THEN Ended("fatal") \cup {Len(ran) + 1}
                        ELSE Ended("fatal")
  BY <1>2, <1>3, <1>4 DEF Ended
<1>7. QED
  BY <1>2, <1>5, <1>6 DEF RanTyped

LEMMA SliceHosts == TypeInv => Hosts(ToSlice(rows)) = DOMAIN rows
<1> SUFFICES ASSUME TypeInv PROVE Hosts(ToSlice(rows)) = DOMAIN rows
  OBVIOUS
<1>1. \A h \in DOMAIN rows : rows[h] \in Device /\ rows[h].ip = h
  BY DEF TypeInv, TypeOK
<1>2. \A h \in DOMAIN rows :
        [rows[h] EXCEPT !.status = Fill(@, StatusUp),
                        !.type = Fill(@, TypeUnknown)].ip = h
  BY <1>1 DEF Device
<1>3. QED
  BY <1>2 DEF Hosts, ToSlice

LEMMA LossInit == Init => LossInv
<1> SUFFICES ASSUME Init PROVE LossInv
  OBVIOUS
<1>1. /\ DOMAIN rows = {} /\ pending = {} /\ phase = "loop" /\ at = 1 /\ ~err
      /\ ran = <<>>
  BY DEF Init
<1>2. Reported = {} /\ Ended("fatal") = {} /\ Len(ran) = 0
  BY <1>1 DEF Reported, Ended
<1>3. DOMAIN rows \cup Hosts(pending) = Hosts(Reported)
  BY <1>1, <1>2 DEF Hosts
<1>4. RanTyped
  BY <1>1 DEF RanTyped
<1>5. QED
  BY <1>1, <1>2, <1>3, <1>4 DEF LossInv

LEMMA LossStep == TypeInv /\ LossInv /\ [Next]_vars => LossInv'
<1> SUFFICES ASSUME TypeInv, LossInv, [Next]_vars PROVE LossInv'
  OBVIOUS
<1>0. /\ at \in Nat /\ Len(Methods) \in Nat /\ at <= Len(Methods) + 1
      /\ err \in BOOLEAN /\ ctx \in BOOLEAN /\ Len(ran) \in Nat
  BY PipelineAssumption DEF TypeInv, TypeOK, LossInv, RanTyped
<1> USE <1>0
<1>1. CASE StartMethod
  BY <1>1 DEF StartMethod, LossInv, Reported, Ended, RanTyped
<1>2. CASE MethodReturns
  <2>1. PICK devs : pending' = devs /\ ran' = Append(ran, [end |-> "ok", devs |-> devs])
    BY <1>2 DEF MethodReturns
  <2>2. devs \in SUBSET Device
    <3>1. Methods[at] \in {"icmp", "arp", "ssh"}
      BY <1>2, PipelineAssumption DEF MethodReturns, TypeInv, TypeOK
    <3>2. QED
      BY <1>2, <2>1, <3>1, PipelineAssumption DEF MethodReturns
  <2>3. /\ RanTyped'
        /\ Len(ran') = Len(ran) + 1
        /\ Reported' = Reported \cup devs
        /\ Ended("fatal")' = Ended("fatal")
    BY <2>1, <2>2, AppendRan
  <2>4. /\ phase = "running" /\ phase' = "merging"
        /\ UNCHANGED <<at, rows, err, out, ctx>> /\ pending' = devs
    BY <1>2, <2>1 DEF MethodReturns
  <2>5. DOMAIN rows' \cup Hosts(pending') = Hosts(Reported')
    BY <2>3, <2>4 DEF LossInv, Hosts
  <2>6. ~err /\ ~err' /\ Ended("fatal")' = {}
    BY <2>3, <2>4 DEF LossInv
  <2>7. Len(ran') = at'
    BY <2>3, <2>4 DEF LossInv
  <2>8. QED
    BY <2>3, <2>4, <2>5, <2>6, <2>7 DEF LossInv
<1>3. CASE MethodFails
  <2>1. PICK e \in {"warned", "fatal"} :
          /\ ran' = Append(ran, [end |-> e, devs |-> {}])
          /\ e = "warned" => /\ phase' = "loop" /\ at' = at + 1
                             /\ UNCHANGED <<err, out>>
          /\ e = "fatal" => /\ phase' = "returned" /\ err' /\ at' = at
                            /\ out' = ToSlice(rows)
    BY <1>3 DEF MethodFails
  <2>2. /\ RanTyped'
        /\ Len(ran') = Len(ran) + 1
        /\ Reported' = Reported \cup {}
        /\ Ended("fatal")' = IF e = "fatal" THEN Ended("fatal") \cup {Len(ran) + 1}
                             ELSE Ended("fatal")
    <3>1. e \in {"ok", "warned", "fatal"} /\ {} \in SUBSET Device
      OBVIOUS
    <3>2. QED
      BY <2>1, <3>1, AppendRan
  <2>3. phase = "running" /\ UNCHANGED <<ctx, rows, pending>>
    BY <1>3 DEF MethodFails
  <2>4. DOMAIN rows' \cup Hosts(pending') = Hosts(Reported')
    BY <2>2, <2>3 DEF LossInv
  <2>5. CASE e = "warned"
    BY <2>1, <2>2, <2>3, <2>4, <2>5 DEF LossInv
  <2>6. CASE e = "fatal"
    <3>1. Hosts(out') = DOMAIN rows'
      BY <2>1, <2>3, <2>6, SliceHosts
    <3>2. Ended("fatal")' = {Len(ran')}
      BY <2>2, <2>3, <2>6 DEF LossInv
    <3>3. QED
      BY <2>1, <2>2, <2>3, <2>4, <2>6, <3>1, <3>2 DEF LossInv
  <2>7. QED
    BY <2>1, <2>5, <2>6
<1>4. CASE Merge
  <2>1. PICK d \in pending : rows' = MergeDevice(rows, d) /\ pending' = pending \ {d}
    BY <1>4 DEF Merge
  <2>2. d \in Device /\ d.ip # None
    BY DEF TypeInv, TypeOK
  <2>3. DOMAIN rows' = DOMAIN rows \cup {d.ip}
    BY <2>1, <2>2, MergeDeviceFacts
  <2>4. DOMAIN rows' \cup Hosts(pending') = DOMAIN rows \cup Hosts(pending)
    BY <2>1, <2>3 DEF Hosts
  <2>5. phase = "merging" /\ UNCHANGED <<ctx, phase, at, err, out, ran>>
    BY <1>4 DEF Merge
  <2>6. QED
    BY <2>4, <2>5 DEF LossInv, Reported, Ended, RanTyped
<1>5. CASE MergeDone
  BY <1>5 DEF MergeDone, LossInv, Reported, Ended, RanTyped
<1>6. CASE Return
  <2>1. Hosts(out') = DOMAIN rows'
    BY <1>6, SliceHosts DEF Return
  <2>2. /\ phase = "loop" /\ phase' = "returned"
        /\ (at > Len(Methods) \/ ctx)
        /\ UNCHANGED <<ctx, at, rows, pending, err, said, ran>>
    BY <1>6 DEF Return
  <2>3. ctx \/ Len(ran) = Len(Methods)
    BY <2>2 DEF LossInv
  <2>4. QED
    BY <2>1, <2>2, <2>3 DEF LossInv, Reported, Ended, RanTyped
<1>7. CASE Cancel
  BY <1>7 DEF Cancel, LossInv, Reported, Ended, RanTyped
<1>8. CASE Finished \/ UNCHANGED vars
  BY <1>8 DEF Finished, vars, LossInv, Reported, Ended, RanTyped
<1>9. QED
  BY <1>1, <1>2, <1>3, <1>4, <1>5, <1>6, <1>7, <1>8 DEF Next

\* Run: every host reported is in the result and only those; without an
\* error or a cancellation every method was called; an error is fatal.
THEOREM LosesNothing == Spec => []NothingLost
<1>1. LossInv => NothingLost
  <2> SUFFICES ASSUME LossInv, phase = "returned" PROVE NothingLost
    BY DEF NothingLost
  <2>1. Hosts(out) = Hosts(Reported)
    BY DEF LossInv, Hosts
  <2>2. QED
    BY <2>1 DEF LossInv, NothingLost, Hosts
<1>2. QED
  BY TypeInit, TypeStep, LossInit, LossStep, <1>1, PTL DEF Spec

-----------------------------------------------------------------------------
(* The whole run.                                                          *)


allVars == <<vars, runVars>>

\* The result of the pipeline is its rows.
Sliced == phase = "returned" => out = ToSlice(rows)

PipeInv == TypeInv /\ LossInv /\ Sliced

-----------------------------------------------------------------------------
(* The pipeline in the run.                                                *)

LEMMA StepIsPipelines == [RunNext]_allVars => [Next]_vars
BY DEF RunNext, Main, Scan, Method, ScanFails, Scanned, LookedUp, EnsureSelf,
       Look, GiveUp, Acquire, NoName, Resolved, Interrupt, RunFinished, allVars,
       Next

LEMMA SlicedStep == Sliced /\ [Next]_vars => Sliced'
<1> SUFFICES ASSUME Sliced, [Next]_vars PROVE Sliced'
  OBVIOUS
<1> USE DEF Sliced
<1>1. CASE StartMethod
  BY <1>1 DEF StartMethod
<1>2. CASE MethodReturns
  BY <1>2 DEF MethodReturns
<1>3. CASE MethodFails
  BY <1>3 DEF MethodFails
<1>4. CASE Merge
  BY <1>4 DEF Merge
<1>5. CASE MergeDone
  BY <1>5 DEF MergeDone
<1>6. CASE Return
  BY <1>6 DEF Return
<1>7. CASE Cancel
  BY <1>7 DEF Cancel
<1>8. CASE UNCHANGED vars
  BY <1>8 DEF vars
<1> QED
  BY <1>1, <1>2, <1>3, <1>4, <1>5, <1>6, <1>7, <1>8 DEF Next, Finished

LEMMA PipeInitial == RunInit => PipeInv
BY TypeInit, LossInit DEF RunInit, PipeInv, Sliced, Init

LEMMA PipeStep == PipeInv /\ [RunNext]_allVars => PipeInv'
BY StepIsPipelines, TypeStep, LossStep, SlicedStep DEF PipeInv

\* Nothing happens to the rows after the pipeline, which Scan has to itself.
LEMMA PipelineRests ==
  ASSUME [RunNext]_allVars, stage # "scan"
  PROVE  UNCHANGED <<phase, rows, err, out, ran>>
BY DEF RunNext, Main, Scan, Method, ScanFails, Scanned, LookedUp, EnsureSelf,
       Look, GiveUp, Acquire, NoName, Resolved, Interrupt, Cancel, RunFinished,
       allVars, vars

-----------------------------------------------------------------------------
(* The rows of the table.                                                  *)

\* A row that can be printed, with the name hostname.
Complete(h, d, hostname) ==
  /\ d \in Device /\ d.ip = h
  /\ d.status # None /\ d.type # None
  /\ d.hostname = hostname

\* What the DNS said of h, or else what a login did.
Known(h) == IF h \in DOMAIN ptr THEN ptr[h]
            ELSE IF h \in DOMAIN rows THEN rows[h].hostname
            ELSE None

LEMMA SlicedRow ==
  ASSUME PipeInv, phase = "returned", NEW h \in DOMAIN rows
  PROVE  /\ \E r \in out : r.ip = h
         /\ \A r \in out : r.ip = h => Complete(h, r, rows[h].hostname)
<1> DEFINE Slice(g) == [rows[g] EXCEPT !.status = Fill(@, StatusUp),
                                       !.type = Fill(@, TypeUnknown)]
<1>1. out = {Slice(g) : g \in DOMAIN rows}
  BY DEF PipeInv, Sliced, ToSlice
<1>2. \A g \in DOMAIN rows : rows[g] \in Device /\ rows[g].ip = g
  BY DEF PipeInv, TypeInv, TypeOK
<1>3. out \subseteq Device
  BY ToSliceTyped DEF PipeInv, Sliced
<1>4. ASSUME NEW g \in DOMAIN rows
      PROVE  /\ Slice(g).ip = g
             /\ Slice(g).status # None /\ Slice(g).type # None
             /\ Slice(g).hostname = rows[g].hostname
  BY <1>2, DeviceAssumption DEF Device, Fill
<1>5. Slice(h) \in out
  BY <1>1
<1> HIDE DEF Slice
<1> QED
  BY <1>1, <1>3, <1>4, <1>5 DEF Complete

\* From the end of the pipeline to ensureSelf, and after it.
TableInv ==
  /\ stage \in {"scan", "lookup", "self", "printed", "failed"}
  /\ stage = "scan" => DOMAIN ptr = {}
  /\ stage \in {"lookup", "self"} =>
       /\ phase = "returned"
       /\ DOMAIN table = DOMAIN rows
       /\ DOMAIN lookup \subseteq DOMAIN rows
       /\ DOMAIN ptr \subseteq DOMAIN rows
       /\ \A h \in DOMAIN table : Complete(h, table[h], Known(h))
  /\ stage = "printed" =>
       /\ phase = "returned"
       /\ DOMAIN table = DOMAIN rows \cup {LocalIP}
       /\ table[LocalIP].mac # None
       /\ \A h \in DOMAIN table :
            /\ Complete(h, table[h], table[h].hostname)
            /\ Known(h) # None => table[h].hostname = Known(h)
            /\ Known(h) = None =>
                 table[h].hostname \in (IF h = LocalIP THEN OSNames ELSE {None})

-----------------------------------------------------------------------------
(* ensureSelf.                                                             *)

LEMMA Enriched ==
  ASSUME NEW d \in Device, d.mac \in Mac
  PROVE  /\ EnrichSelf(d) \in Device
         /\ EnrichSelf(d).status # None /\ EnrichSelf(d).type # None
         /\ \A f \in {"ip", "mac", "hostname"} : EnrichSelf(d)[f] = d[f]
<1>1. Lookup(d.mac) \in Vendor
  BY DeviceAssumption DEF Lookup, Vendor
<1>2. \A v \in Vendor : InferType(v) \in Type
  BY DEF InferType, Type
<1>3. None \notin Type
  BY DeviceAssumption DEF Type
<1>4. Fill(d.status, StatusUp) = StatusUp
  BY DEF Fill, Device, Opt
<1>5. StatusUp # None
  BY DeviceAssumption
<1>6. EnrichSelf(d) = [d EXCEPT !.vendor = Lookup(d.mac),
                                !.type = InferType(Lookup(d.mac)),
                                !.status = StatusUp]
  BY <1>4 DEF EnrichSelf, Device
<1> QED
  BY <1>1, <1>2, <1>3, <1>5, <1>6 DEF Device, Opt

\* The row made for this machine, and the one that is completed.
LEMMA SelfMade ==
  ASSUME NEW name \in OSNames
  PROVE  /\ Complete(LocalIP, Self({}, name), name)
         /\ Self({}, name).mac # None
<1> DEFINE new == [ip |-> LocalIP, mac |-> LocalMAC, vendor |-> None,
                   hostname |-> name, status |-> StatusUp, type |-> None,
                   sys |-> NoSysInfo]
<1>1. new \in Device
  BY NetScanAssumption DEF Device, Opt, NoSysInfo, SysInfo
<1>2. Self({}, name) = EnrichSelf(new)
  BY DEF Self
<1>3. new.mac \in Mac /\ new.mac # None
  BY NetScanAssumption, DeviceAssumption
<1> HIDE DEF new
<1>4. /\ EnrichSelf(new) \in Device
      /\ EnrichSelf(new).status # None /\ EnrichSelf(new).type # None
      /\ \A f \in {"ip", "mac", "hostname"} : EnrichSelf(new)[f] = new[f]
  BY <1>1, <1>3, Enriched
<1>5. new.ip = LocalIP /\ new.hostname = name
  BY DEF new
<1> QED
  BY <1>2, <1>3, <1>4, <1>5 DEF Complete

LEMMA SelfCompleted ==
  ASSUME NEW name \in OSNames, NEW d, Complete(LocalIP, d, d.hostname)
  PROVE  LET e == Self({d}, name)
         IN  /\ Complete(LocalIP, e, Fill(d.hostname, name))
             /\ e.mac # None
<1> DEFINE e == IF d.mac = None THEN EnrichSelf([d EXCEPT !.mac = LocalMAC])
                ELSE d
<1>1. (CHOOSE r \in {d} : TRUE) = d
  OBVIOUS
<1>2. Self({d}, name) = [e EXCEPT !.hostname = Fill(@, name)]
  BY <1>1 DEF Self
<1>3. /\ e \in Device /\ e.ip = LocalIP /\ e.hostname = d.hostname
      /\ e.status # None /\ e.type # None /\ e.mac # None
  <2>1. CASE d.mac = None
    <3> DEFINE m == [d EXCEPT !.mac = LocalMAC]
    <3>1. /\ m \in Device /\ m.mac \in Mac
          /\ m.ip = LocalIP /\ m.hostname = d.hostname
      BY NetScanAssumption DEF Complete, Device, Opt
    <3>2. e = EnrichSelf(m)
      BY <2>1
    <3> HIDE DEF m, e
    <3> QED
      BY <3>1, <3>2, Enriched, DeviceAssumption
  <2>2. CASE d.mac # None
    BY <2>2 DEF Complete
  <2> QED
    BY <2>1, <2>2
<1>4. Fill(d.hostname, name) \in Opt(Name)
  BY NetScanAssumption DEF Fill, Complete, Device
<1> HIDE DEF e
<1> QED
  BY <1>2, <1>3, <1>4 DEF Complete, Device

-----------------------------------------------------------------------------
(* The run.                                                                *)

LEMMA TableInit == RunInit => TableInv
BY DEF RunInit, TableInv, NoRows

\* The rows of the pipeline become those of the table.
LEMMA ScannedTable == PipeInv /\ TableInv /\ Scanned => TableInv'
<1> SUFFICES ASSUME PipeInv, TableInv, Scanned PROVE TableInv'
  OBVIOUS
<1>1. /\ stage = "scan" /\ phase = "returned" /\ phase' = phase
      /\ stage' \in {"lookup", "self"}
      /\ table' = [h \in {r.ip : r \in out} |-> CHOOSE r \in out : r.ip = h]
      /\ UNCHANGED <<rows, ptr>>
  BY DEF Scanned, vars
<1>2. {r.ip : r \in out} = DOMAIN rows
  BY <1>1, SliceHosts DEF PipeInv, Sliced, Hosts
<1>3. DOMAIN table' = DOMAIN rows
  BY <1>1, <1>2
<1>4. DOMAIN lookup' \subseteq DOMAIN rows
  BY <1>3 DEF Scanned, NoRows
<1>5. DOMAIN ptr = {}
  BY <1>1 DEF TableInv
<1>6. ASSUME NEW h \in DOMAIN rows
      PROVE  Complete(h, table'[h], rows[h].hostname)
  <2>1. /\ \E r \in out : r.ip = h
        /\ \A r \in out : r.ip = h => Complete(h, r, rows[h].hostname)
    BY <1>1, SlicedRow
  <2>2. table'[h] = CHOOSE r \in out : r.ip = h
    BY <1>1, <1>2
  <2> QED
    BY <2>1, <2>2
<1>7. \A h \in DOMAIN rows : Known(h)' = rows[h].hostname
  BY <1>1, <1>5 DEF Known
<1>8. \A h \in DOMAIN table' : Complete(h, table'[h], Known(h)')
  BY <1>3, <1>6, <1>7
<1> QED
  BY <1>1, <1>3, <1>4, <1>5, <1>8 DEF TableInv

\* A lookup that found something.
LEMMA ResolvedTable ==
  ASSUME TableInv, NEW h \in DOMAIN lookup, Resolved(h)
  PROVE  TableInv'
<1>1. PICK name \in Opt(Name) :
        /\ table' = [table EXCEPT ![h].hostname = name]
        /\ ptr' = [g \in DOMAIN ptr \cup {h} |-> IF g = h THEN name ELSE ptr[g]]
  BY DEF Resolved
<1>2. /\ stage = "lookup" /\ UNCHANGED <<stage, phase, rows>>
      /\ DOMAIN lookup' = DOMAIN lookup
  BY DEF Resolved, Becomes, vars
<1>3. /\ phase = "returned" /\ DOMAIN table = DOMAIN rows
      /\ DOMAIN lookup \subseteq DOMAIN rows /\ DOMAIN ptr \subseteq DOMAIN rows
      /\ \A g \in DOMAIN table : Complete(g, table[g], Known(g))
  BY <1>2 DEF TableInv
<1>4. DOMAIN table' = DOMAIN rows' /\ DOMAIN ptr' \subseteq DOMAIN rows'
  BY <1>1, <1>2, <1>3
<1>5. ASSUME NEW g \in DOMAIN table' PROVE Complete(g, table'[g], Known(g)')
  <2>1. Complete(g, table[g], Known(g))
    BY <1>3, <1>4, <1>2
  <2>2. CASE g = h
    <3>1. table'[g] = [table[g] EXCEPT !.hostname = name]
      BY <1>1, <1>2, <1>3, <1>4, <2>2
    <3>2. Known(g)' = name
      BY <1>1, <2>2 DEF Known
    <3> QED
      BY <2>1, <3>1, <3>2 DEF Complete, Device
  <2>3. CASE g # h
    <3>1. table'[g] = table[g]
      BY <1>1, <1>2, <1>3, <1>4, <2>3
    <3>2. Known(g)' = Known(g)
      BY <1>1, <1>2, <2>3 DEF Known
    <3> QED
      BY <2>1, <3>1, <3>2
  <2> QED
    BY <2>2, <2>3
<1> QED
  BY <1>2, <1>3, <1>4, <1>5 DEF TableInv

\* ensureSelf completes the table.
LEMMA EnsureSelfTable == TableInv /\ EnsureSelf => TableInv'
<1> SUFFICES ASSUME TableInv, EnsureSelf PROVE TableInv'
  OBVIOUS
<1>1. PICK name \in OSNames :
        table' = [h \in DOMAIN table \cup {LocalIP} |->
                    IF h = LocalIP
                      THEN Self({table[g] : g \in DOMAIN table \cap {h}}, name)
                      ELSE table[h]]
  BY DEF EnsureSelf
<1>2. /\ stage = "self" /\ stage' = "printed"
      /\ UNCHANGED <<phase, rows, ptr>>
  BY DEF EnsureSelf, vars
<1>3. /\ phase = "returned" /\ DOMAIN table = DOMAIN rows
      /\ DOMAIN ptr \subseteq DOMAIN rows
      /\ \A h \in DOMAIN table : Complete(h, table[h], Known(h))
  BY <1>2 DEF TableInv
<1>4. \A h : Known(h)' = Known(h)
  BY <1>2 DEF Known
<1>5. DOMAIN table' = DOMAIN rows' \cup {LocalIP}
  BY <1>1, <1>2, <1>3
<1>6. /\ Complete(LocalIP, table'[LocalIP], table'[LocalIP].hostname)
      /\ table'[LocalIP].mac # None
      /\ Known(LocalIP) # None => table'[LocalIP].hostname = Known(LocalIP)
      /\ Known(LocalIP) = None => table'[LocalIP].hostname \in OSNames
  <2>1. CASE LocalIP \in DOMAIN table
    <3> DEFINE d == table[LocalIP]
    <3>1. Complete(LocalIP, d, d.hostname) /\ d.hostname = Known(LocalIP)
      BY <1>3, <2>1 DEF Complete
    <3>2. {table[g] : g \in DOMAIN table \cap {LocalIP}} = {d}
      BY <2>1
    <3>3. table'[LocalIP] = Self({d}, name)
      BY <1>1, <3>2
    <3> HIDE DEF d
    <3>4. /\ Complete(LocalIP, Self({d}, name), Fill(d.hostname, name))
          /\ Self({d}, name).mac # None
      BY <3>1, SelfCompleted
    <3> QED
      BY <3>1, <3>3, <3>4 DEF Complete, Fill
  <2>2. CASE LocalIP \notin DOMAIN table
    <3>1. {table[g] : g \in DOMAIN table \cap {LocalIP}} = {}
      BY <2>2
    <3>2. table'[LocalIP] = Self({}, name)
      BY <1>1, <3>1
    <3>3. Known(LocalIP) = None
      BY <1>3, <2>2 DEF Known
    <3> QED
      BY <3>2, <3>3, SelfMade DEF Complete
  <2> QED
    BY <2>1, <2>2
<1>7. ASSUME NEW h \in DOMAIN table', h # LocalIP
      PROVE  /\ Complete(h, table'[h], table'[h].hostname)
             /\ table'[h].hostname = Known(h)
  BY <1>1, <1>3, <1>7 DEF Complete
<1> QED
  BY <1>2, <1>3, <1>4, <1>5, <1>6, <1>7 DEF TableInv

LEMMA TableStep == PipeInv /\ TableInv /\ [RunNext]_allVars => TableInv'
<1> SUFFICES ASSUME PipeInv, TableInv, [RunNext]_allVars PROVE TableInv'
  OBVIOUS
<1>1. CASE Scan \/ Method
  BY <1>1 DEF Scan, Method, TableInv, runVars
<1>2. CASE ScanFails
  BY <1>2 DEF ScanFails, TableInv
<1>3. CASE Scanned
  BY <1>3, ScannedTable
<1>4. CASE LookedUp
  BY <1>4 DEF LookedUp, TableInv, Known, vars
<1>5. CASE EnsureSelf
  BY <1>5, EnsureSelfTable
<1>6. ASSUME NEW h \in DOMAIN lookup, Look(h) PROVE TableInv'
  <2>1. CASE GiveUp(h) \/ Acquire(h) \/ NoName(h)
    BY <2>1 DEF GiveUp, Acquire, NoName, Becomes, TableInv, Known, vars
  <2>2. CASE Resolved(h)
    BY <2>2, ResolvedTable
  <2> QED
    BY <1>6, <2>1, <2>2 DEF Look
<1>7. CASE Interrupt
  BY <1>7 DEF Interrupt, Cancel, TableInv, Known, runVars
<1>8. CASE RunFinished \/ UNCHANGED allVars
  <2>1. UNCHANGED <<phase, rows, stage, table, lookup, ptr>>
    BY <1>8 DEF RunFinished, allVars, vars, runVars
  <2>2. \A h : Known(h)' = Known(h)
    BY <2>1 DEF Known
  <2> QED
    BY <2>1, <2>2 DEF TableInv
<1> QED
  BY <1>1, <1>2, <1>3, <1>4, <1>5, <1>6, <1>7, <1>8 DEF RunNext, Main

LEMMA TableAlways == RunSpec => [](PipeInv /\ TableInv)
BY PipeInitial, PipeStep, TableInit, TableStep, PTL DEF RunSpec, allVars

-----------------------------------------------------------------------------
(* Theorems.                                                               *)

\* run() of main.go: whatever the methods report and however the run is cut
\* short, the table printed has exactly one complete row for each host
\* reported and for this machine, which has a hardware address.
THEOREM TableIsComplete == RunSpec => []TableComplete
<1>1. PipeInv /\ TableInv => TableComplete
  <2> SUFFICES ASSUME PipeInv, TableInv, stage = "printed" PROVE TableComplete
    BY DEF TableComplete
  <2>1. DOMAIN rows = {d.ip : d \in Reported}
    BY DEF PipeInv, LossInv, TableInv, Hosts
  <2> QED
    BY <2>1 DEF TableInv, TableComplete, Complete
<1> QED
  BY TableAlways, <1>1, PTL

\* Hostnames and ensureSelf: a printed name is the DNS's, else a login's,
\* else, on this machine's row only, what the system calls it.
THEOREM NamesInOrder == RunSpec => []NameOrder
<1>1. TableInv => NameOrder
  BY DEF TableInv, NameOrder, Known
<1> QED
  BY TableAlways, <1>1, PTL

\* The run implements the pipeline, which main.go calls once and whose state
\* nothing else touches: what is proved of Pipeline holds in every run.
THEOREM RunIsPipeline == RunSpec => Spec
<1>1. RunInit => Init
  BY DEF RunInit
<1> QED
  BY <1>1, StepIsPipelines, PTL DEF RunSpec, Spec, allVars

\* Run of internal/pipeline as main.go calls it: the result has the hosts
\* reported and no others, and an error is that of a fatal method.
THEOREM RunLosesNothing == RunSpec => []NothingLost
BY RunIsPipeline, LosesNothing, PTL

\* mergeDevice in the run: a row is what was said first of its host.
THEOREM RunFirstWins == RunSpec => []FirstWins
BY RunIsPipeline, FirstSaidWins, PTL

\* mergeDevice in the run: no later record takes back what a row holds.
THEOREM RunMonotone == RunSpec => FilledStays
BY RunIsPipeline, MergeMonotone, PTL
=============================================================================
