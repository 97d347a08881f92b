------------------------------ MODULE Inventory -------------------------------
(***************************************************************************)
(* What internal/sshprobe reads in the outputs of one host: parseSysInfo   *)
(* and parseMAC (collect.go), parseCPU, parseMemory and parseTemp          *)
(* (health.go).                                                            *)
(*                                                                         *)
(* A line's kind is the pattern it matches and v what that captures, None  *)
(* for an address of zeros; a line that matches two patterns is two lines  *)
(* here.  "prose" and "error" match none, and skipLine passes over the     *)
(* latter.  A "name" line is one word, as of the command hostname.  Fields *)
(* with one source (uptime, family, temperature) are left out.             *)
(***************************************************************************)
EXTENDS Lines

CONSTANTS BadNames,   \* words hostnameOK refuses
          NetModels,  \* models that tell a network device
          NetOS       \* kinds of line that name a network OS

\* The first line of this kind, if it captures anything ...
Of(text, k) == Captured(text, k, "v", None)

\* ... and of the first of these kinds that does.
FirstKnown(text, ks) ==
  LET known == {j \in DOMAIN ks : Of(text, ks[j]) # None}
  IN  IF known = {} THEN None ELSE Of(text, ks[Min(known)])

Or(v, w) == IF v = None THEN w ELSE v

\* What the first of the lines at these places says.
First(text, places) == IF places = {} THEN None ELSE text[Min(places)].v

\* standaloneHostname and firstUsefulLine
LoneName(text) ==
  First(text, {j \in DOMAIN text :
                 text[j].k = "name" /\ text[j].v \notin BadNames})
UsefulLine(text) == First(text, {j \in DOMAIN text : text[j].k # "error"})

UptimeName(text) ==
  IF Of(text, "uptime") \in BadNames THEN None ELSE Of(text, "uptime")

ModelKinds ==
  <<"junosModel", "modelNumber", "ciscoModel", "huaweiModel", "prettyName">>
VersionKinds ==
  <<"junosVer", "ciscoVer", "huaweiVer", "unameRelease", "prettyName">>

ParseSysInfo(text) ==
  [hostname |-> Or(Or(Or(Of(text, "junosHost"), UptimeName(text)),
                      Of(text, "unameHost")), LoneName(text)),
   model |-> FirstKnown(text, ModelKinds),
   version |-> Or(FirstKnown(text, VersionKinds), UsefulLine(text))]

LooksLikeNetworkOS(text) == Has(text, NetOS)

IsNetworkDevice(info, text) ==
  LooksLikeNetworkOS(text) \/ info.model \in NetModels

\* The address that a label names first, or else the first of all.
ParseMAC(text) ==
  Or(Of(text, "labeledMAC"),
     First(text, {j \in DOMAIN text :
                    text[j].k \in {"labeledMAC", "mac"} /\ text[j].v # None}))

CPUKinds == <<"ciscoCPU", "nxosCPU", "junosCPU", "huaweiCPU">>
MemoryKinds ==
  <<"junosMem", "huaweiMem", "nxosMem", "ciscoMem", "ciscoMemRow">>

ParseCPU(text) == FirstKnown(text, CPUKinds)
ParseMemory(text) == FirstKnown(text, MemoryKinds)
=============================================================================
