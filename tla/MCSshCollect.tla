----------------------------- MODULE MCSshCollect -----------------------------
(* Hosts for TLC: switches of four makes, one that tells its memory in two  *)
(* formats, a Linux server and one host that tells what it is only when     *)
(* asked for its addresses.  A host may also print nothing, or an error, at *)
(* any time.                                                                *)
EXTENDS Collection, TLC

MCHosts == {"junos", "ios", "nxos", "both", "vrp", "linux", "late"}
MCBadNames == {"System", "uptime"}
MCNetModels == {"EX2200", "WS-C2960"}
MCNetOS == {"junosVer", "ciscoVer", "huaweiVer"}
MCDigits == {"120", "107", "24"}
MCHwAddrs == {"aa:bb"}

Line(k, v) == [k |-> k, v |-> v]
Says(lines, fields) == [text |-> lines, told |-> fields]

Silent == {Says(<<>>, <<>>), Says(<<Line("error", "% Invalid input")>>, <<>>)}

-----------------------------------------------------------------------------
(* Versions and addresses.                                                 *)

Id(h, m, v) == [hostname |-> h, model |-> m, version |-> v]

Versions(h) ==
  CASE h = "junos" ->
         {Says(<<Line("junosHost", "sw1"), Line("junosModel", "EX2200"),
                 Line("junosVer", "12.3"), Line("uptime", "System")>>,
               Id("sw1", "EX2200", "12.3"))}
    [] h = "ios" ->
         {Says(<<Line("ciscoVer", "15.0"), Line("uptime", "sw1"),
                 Line("labeledMAC", a), Line("ciscoModel", "WS-C2960"),
                 Line("modelNumber", "WS-C2960")>>,
               Id("sw1", "WS-C2960", "15.0") @@
                 (IF a = None THEN <<>> ELSE [mac |-> a])) : a \in {None, "m1"}}
    [] h \in {"nxos", "both"} ->
         {Says(<<Line("ciscoVer", "7.0"), Line("mac", "m1")>>,
               [version |-> "7.0", mac |-> "m1"])}
    [] h = "vrp" ->
         {Says(<<Line("huaweiVer", "5.17"), Line("huaweiModel", "S5720")>>,
               [model |-> "S5720", version |-> "5.17"])}
    [] h = "linux" ->
         {Says(<<Line("unameHost", "srv"), Line("unameRelease", "6.1")>>,
               [hostname |-> "srv", version |-> "6.1"]),
          Says(<<Line("name", "srv"), Line("mac", None), Line("mac", "m1")>>,
               [hostname |-> "srv", mac |-> "m1"])}
    [] h = "late" -> {}

Macs(h) ==
  CASE h = "junos" -> {Says(<<Line("prose", "FPC"), Line("labeledMAC", "m1")>>,
                            [mac |-> "m1"])}
    [] h = "late" -> {Says(<<Line("uptime", "sw1"), Line("modelNumber", "WS-C2960"),
                             Line("ciscoVer", "15.0")>>,
                           Id("sw1", "WS-C2960", "15.0"))}
    [] OTHER -> {}

\* show chassis routing-engine; show processes cpu or display cpu-usage; show
\* memory statistics, show system resources or display memory-usage.
Healths(h) ==
  CASE h = "junos" ->
         LET engine(v) == {Says(<<Line("junosCPU", v), Line("junosMem", "28%")>>,
                                [cpu |-> v, memory |-> "28%"])}
         IN  <<engine("3%"), {}, engine("4%")>>
    [] h = "ios" ->
         <<{}, {Says(<<Line("ciscoCPU", "8%")>>, [cpu |-> "8%"])},
           {Says(<<Line("ciscoMem", "40%"), Line("ciscoMemRow", "9%")>>,
                 [memory |-> "40%"])}>>
    [] h = "nxos" ->
         <<{}, {Says(<<Line("ciscoCPU", "8%")>>, [cpu |-> "8%"])},
           {Says(<<Line("nxosCPU", "7%"), Line("nxosMem", m)>>,
                 [cpu |-> "7%"] @@ (IF m = None THEN <<>> ELSE [memory |-> m])) :
              m \in {None, "50%"}}>>
    [] h = "both" ->
         <<{}, {Says(<<Line("ciscoMem", "40%")>>, [memory |-> "40%"])},
           {Says(<<Line("nxosCPU", "7%"), Line("nxosMem", "50%")>>,
                 [cpu |-> "7%", memory |-> "50%"])}>>
    [] h = "vrp" ->
         <<{}, {Says(<<Line("huaweiCPU", "8%")>>, [cpu |-> "8%"])},
           {Says(<<Line("huaweiMem", "30%")>>, [memory |-> "30%"])}>>
    [] OTHER -> <<{}, {}, {}>>

-----------------------------------------------------------------------------
(* Neighbors.                                                              *)

Neighbor(l, n, p, a) == [local |-> l, name |-> n, port |-> p, id |-> a]

MCNeighbors == {<<Neighbor("p1", "sw2", "r1", "aa:bb")>>,
                <<Neighbor("p1", "sw2", "r1", "aa:bb"),
                  Neighbor("p2", <<"sw", "3">>, "24", "aa:bb")>>}

Words(n) == IF n = "sw2" THEN <<n>> ELSE n

Row(words) == [k |-> "row", words |-> words]

Rows(of, ns, op(_)) ==
  <<Line("error", "banner"), [k |-> "head", of |-> of]>>
  \o [j \in DOMAIN ns |-> Row(op(ns[j]))] \o <<Line("other", "")>>

Field(label, value) == [k |-> "field", label |-> label, value |-> value]

Detail(n) == <<[k |-> "dashes"], Field("local intf", n.local),
               Field("chassis id", n.id), Field("port id", n.port),
               Field("system name", n.name)>>

Short(ns) == [j \in DOMAIN ns |-> [ns[j] EXCEPT !.id = None]]

Neighbors(h) ==
  UNION {CASE h = "junos" ->
                {Says(Rows("junos", ns, LAMBDA n : <<n.local, "-", n.id, n.port>>
                                                     \o Words(n.name)),
                      [neighbors |-> ns])}
           [] h = "ios" ->
                {Says(Rows("cisco", ns, LAMBDA n : Words(n.name) \o
                                          <<n.local, "120", "B", n.port>>),
                      [neighbors |-> Short(ns)]),
                 Says(FlattenSeq([j \in DOMAIN ns |-> Detail(ns[j])]),
                      [neighbors |-> ns])}
           [] h = "vrp" ->
                {Says(Rows("huawei", SubSeq(ns, 1, 1),
                           LAMBDA n : <<n.local, n.name, n.port, "107">>),
                      [neighbors |-> Short(SubSeq(ns, 1, 1))])}
           [] OTHER -> {} : ns \in MCNeighbors}

-----------------------------------------------------------------------------
(* Counters.                                                               *)

Full == [inPackets |-> 15, outPackets |-> 6, inBytes |-> 9, outBytes |-> 8,
         inErrors |-> 7, outErrors |-> 3, inDrops |-> 0, outDrops |-> 5]

Iface(p, oper, n) == [name |-> p, oper |-> oper, n |-> n]

Errs(e, d) == [k |-> "errs", errors |-> e, drops |-> d]

Traffic(n) == <<Line("inBytes", n.inBytes), Line("outBytes", n.outBytes),
                Line("inPackets", n.inPackets), Line("outPackets", n.outPackets)>>

Phys(p, oper) == <<[k |-> "phys", name |-> <<p, None>>, oper |-> oper]>>

Logical == <<Line("logical", "")>> \o Traffic(Full)

\* show interfaces statistics, extensive or brief; a port may have no
\* statistics but those of its units.
Junos(p, n) ==
  Phys(p, "up") \o <<Line("traffic", "")>> \o Traffic(n)
    \o <<Line("ipv6", "")>> \o Traffic(Full)
    \o <<Line("inErr", ""), Errs(n.inErrors, n.inDrops),
         Line("outErr", ""), Errs(n.outErrors, n.outDrops)>> \o Logical

JunosBrief(p, n) ==
  Phys(p, "up") \o Traffic(n)
    \o <<[k |-> "compact", in |-> n.inErrors, out |-> n.outErrors]>> \o Logical

\* The tables of show interfaces counters and one of errors.
CiscoTables ==
  <<[cols |-> <<"inoctets", "inucastpkts", "inmcastpkts", "inbcastpkts">>,
     cells |-> <<9, 10, 4, 1>>,
     of |-> {"inBytes", "inPackets"}],
    [cols |-> <<"outoctets", "outucastpkts", "outmcastpkts">>,
     cells |-> <<8, 5, 1>>, of |-> {"outBytes", "outPackets"}],
    [cols |-> <<"align-err", "fcs-err", "xmit-err", "rcv-err", "undersize",
                "outdiscards">>,
     cells |-> <<4, 1, 3, 2, NotANumber, 5>>,
     of |-> {"inErrors", "outErrors", "outDrops"}]>>

CiscoRowOf(name, cells) == [k |-> "row", name |-> name, cells |-> cells]

CiscoText(ts, ports) ==
  FlattenSeq([t \in DOMAIN ts |->
    <<[k |-> "header", cols |-> ts[t].cols]>>
    \o [p \in DOMAIN ports |-> CiscoRowOf(ports[p], ts[t].cells)]
    \o <<Line("short", "")>>])

\* Any of the tables, in any order, the first one among them.
TableOrders ==
  {Mapped(LAMBDA t : CiscoTables[t], s) :
     s \in {<<1>>, <<1, 2>>, <<1, 2, 3>>, <<3, 1>>, <<3, 2, 1>>}}

CiscoSays(ts, ports, listed) ==
  Says(CiscoText(ts, ports),
       [interfaces |->
          [p \in DOMAIN listed |->
             Iface(listed[p], None,
                   [c \in Counters |->
                      IF \E t \in DOMAIN ts : c \in ts[t].of THEN Full[c]
                      ELSE 0])]])

Huawei(p, n) ==
  <<[k |-> "state", name |-> <<p, None>>, oper |-> "up"],
    [k |-> "in", packets |-> n.inPackets, bytes |-> n.inBytes],
    Errs(n.inErrors, n.inDrops),
    [k |-> "out", packets |-> n.outPackets, bytes |-> n.outBytes],
    Errs(n.outErrors, n.outDrops)>>

Brief == [Full EXCEPT !["inDrops"] = 0, !["outDrops"] = 0]

Counted(h) ==
  CASE h = "junos" ->
         {Says(Junos("p1", Full) \o rest, [interfaces |->
                 <<Iface("p1", "up", Full), Iface("p2", "up", Zero)>>]) :
            rest \in {Junos("p2", Zero), Phys("p2", "up") \o Logical}}
         \cup {Says(JunosBrief("p1", Full),
                    [interfaces |-> <<Iface("p1", "up", Brief)>>])}
    [] h \in {"ios", "nxos"} ->
         {CiscoSays(ts, <<<<"p1", None>>, <<"p2", None>>>>, <<"p1", "p2">>) :
            ts \in TableOrders}
    [] h = "vrp" ->
         {Says(Huawei("p1", Full) \o Huawei("p2", Zero),
               [interfaces |-> <<Iface("p1", "up", Full),
                                 Iface("p2", "up", Zero)>>])}
    [] OTHER -> {}

\* Two exec commands, or three, and the shell, which runs the first of them.
MCOutputs ==
  [h \in MCHosts |->
     [g \in Gathers |->
        LET any == CASE g = "version" -> Versions(h)
                     [] g = "mac" -> Macs(h)
                     [] g = "lldp" -> Neighbors(h)
                     [] g = "ifaces" -> Counted(h)
            outputs == IF g = "health"
                         THEN Append(Healths(h), Healths(h)[1] \cup Healths(h)[2])
                         ELSE <<any, any, any>>
        IN  [c \in DOMAIN outputs |-> Silent \cup outputs[c]]]]
=============================================================================
