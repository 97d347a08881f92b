-------------------------------- MODULE Ifaces --------------------------------
(***************************************************************************)
(* parseIfaces of internal/sshprobe: the counters of a switch's physical   *)
(* interfaces, from the outputs of Junos, Cisco and Huawei devices.        *)
(***************************************************************************)
EXTENDS Lines, Functions

CONSTANT CounterBits  \* 64 in the code

Counters == {"inPackets", "outPackets", "inBytes", "outBytes",
             "inErrors", "outErrors", "inDrops", "outDrops"}

Zero == [c \in Counters |-> 0]

NoIface == [name |-> None, oper |-> None, n |-> Zero]

\* A name is that of a port and of a unit of it, None for the port itself.
PhysicalIfd(name) == name[1]

-----------------------------------------------------------------------------
(* Junos: a block for each "phys" line.                                    *)

\* The units of an interface follow it.  In the mutant they are part of it.
PhysicalPartAll(block) == block
PhysicalPart(block) == CutAt(block, {"logical"})

\* Each sectionBetween is cut at the next mark; "compact" is one line with the
\* marks of both error sections.  What is said of the state is oper.
JunosIface(block) ==
  LET phys == PhysicalPart(block)
      traffic == IF ~Has(phys, {"traffic"}) THEN phys
                 ELSE CutAt(After(phys, {"traffic"}),
                            {"ipv6", "inErr", "outErr", "compact"})
      inErr == CutAt(After(phys, {"inErr"}), {"outErr", "compact"})
      outErr == After(phys, {"outErr", "compact"})
      Errors(s, f) == IF Has(s, {"errs"}) THEN Captured(s, "errs", "errors", 0)
                      ELSE Captured(phys, "compact", f, 0)
  IN  [name |-> PhysicalIfd(block[1].name), oper |-> block[1].oper,
       n |-> [c \in Counters |->
                CASE c = "inErrors" -> Errors(inErr, "in")
                  [] c = "outErrors" -> Errors(outErr, "out")
                  [] c = "inDrops" -> Captured(inErr, "errs", "drops", 0)
                  [] c = "outDrops" -> Captured(outErr, "errs", "drops", 0)
                  [] OTHER -> Captured(traffic, c, "v", 0)]]

JunosIfaces(text) == Mapped(JunosIface, Blocks(text, "phys"))

-----------------------------------------------------------------------------
(* Cisco: tables of a header and a row for each port, that end at a line   *)
(* of less than two words.                                                 *)

InPackets == {"inucastpkts", "inmcastpkts", "inbcastpkts"}
OutPackets == {"outucastpkts", "outmcastpkts", "outbcastpkts"}
InErrors == {"fcs-err", "align-err", "rcv-err"}
NotANumber == -1

\* Mutant of PacketsOf: a row without packets resets them.
PacketsOfRow(sum, old) == sum
PacketsOf(sum, old) == IF sum > 0 THEN sum ELSE old

\* applyCiscoRow: bytes and drops are replaced, the packets of a row replace
\* those before unless they are 0, and errors add up, in 64 bits.
CiscoRow(n, cols, cells) ==
  LET At(names) ==
        {i \in DOMAIN cols \cap DOMAIN cells :
           cols[i] \in names /\ cells[i] # NotANumber}
      Sum(names) == SumFunctionOnSet(cells, At(names)) % 2^CounterBits
      Set(c, name) == IF At({name}) = {} THEN n[c] ELSE Sum({name})
      Add(c, names) == (n[c] + Sum(names)) % 2^CounterBits
  IN  [inPackets |-> PacketsOf(Sum(InPackets), n["inPackets"]),
       outPackets |-> PacketsOf(Sum(OutPackets), n["outPackets"]),
       inBytes |-> Set("inBytes", "inoctets"),
       outBytes |-> Set("outBytes", "outoctets"),
       outDrops |-> Set("outDrops", "outdiscards"), inDrops |-> n["inDrops"],
       inErrors |-> Add("inErrors", InErrors),
       outErrors |-> Add("outErrors", {"xmit-err"})]

\* One line of the loop; st holds cols and the interfaces in order.
CiscoLine(st, line) ==
  CASE line.k = "short" -> [st EXCEPT !.cols = <<>>]
    [] line.k = "header" -> [st EXCEPT !.cols = line.cols]
    [] line.k = "row" /\ st.cols # <<>> ->
         LET name == PhysicalIfd(line.name)
             at == SelectInSeq(st.ifs, LAMBDA c : c.name = name)
             ifs == IF at # 0 THEN st.ifs
                    ELSE Append(st.ifs, [NoIface EXCEPT !.name = name])
             new == IF at # 0 THEN at ELSE Len(ifs)
         IN  [st EXCEPT !.ifs = [ifs EXCEPT ![new].n =
                                   CiscoRow(@, st.cols, line.cells)]]
    [] OTHER -> st

CiscoIfaces(text) == FoldLeft(CiscoLine, [cols |-> <<>>, ifs |-> <<>>], text).ifs

-----------------------------------------------------------------------------
(* Huawei: a block for each "state" line.                                  *)

\* applyHuaweiErrDrops: errors and drops are of the direction named last.
HuaweiErrs(st, line) ==
  CASE line.k = "in" -> [st EXCEPT !.last = <<"inErrors", "inDrops">>]
    [] line.k = "out" -> [st EXCEPT !.last = <<"outErrors", "outDrops">>]
    [] line.k = "errs" /\ st.last # <<>> ->
         [st EXCEPT !.n = [@ EXCEPT ![st.last[1]] = line.errors,
                                    ![st.last[2]] = line.drops]]
    [] OTHER -> st

HuaweiIface(block) ==
  [name |-> PhysicalIfd(block[1].name), oper |-> block[1].oper,
   n |-> FoldLeft(HuaweiErrs,
                  [last |-> <<>>,
                   n |-> [Zero EXCEPT
                            !["inPackets"] = Captured(block, "in", "packets", 0),
                            !["inBytes"] = Captured(block, "in", "bytes", 0),
                            !["outPackets"] = Captured(block, "out", "packets", 0),
                            !["outBytes"] = Captured(block, "out", "bytes", 0)]],
                  block).n]

HuaweiIfaces(text) == Mapped(HuaweiIface, Blocks(text, "state"))

-----------------------------------------------------------------------------
CiscoTable(line) ==
  line.k = "header" /\ ToSet(line.cols) \cap {"inucastpkts", "inoctets"} # {}

ParseIfaces(text) ==
  IF Has(text, {"phys"}) THEN JunosIfaces(text)
  ELSE IF \E i \in DOMAIN text : CiscoTable(text[i]) THEN CiscoIfaces(text)
  ELSE IF Has(text, {"state"}) /\ Has(text, {"in"}) THEN HuaweiIfaces(text)
  ELSE <<>>
=============================================================================
