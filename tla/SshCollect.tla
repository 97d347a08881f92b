------------------------------ MODULE SshCollect ------------------------------
(***************************************************************************)
(* collect() of internal/sshprobe: what a host that let us in is asked,    *)
(* gather by gather.  A gather runs its commands over exec sessions until  *)
(* one says enough; a host that runs none of them may be asked through a   *)
(* shell instead.                                                          *)
(*                                                                         *)
(* An output is the lines a host prints, with what a reader of the format  *)
(* learns from them.                                                       *)
(***************************************************************************)
EXTENDS Inventory, Lldp, Ifaces

CONSTANTS Hosts,   \* kinds of host
          Outputs  \* host -> gather -> for each exec command in order, and
                   \* at last for the shell, what it may return

Gathers == {"version", "mac", "health", "lldp", "ifaces"}

Identity == {"hostname", "model", "version"}
Details == {"cpu", "memory", "neighbors", "interfaces"}
Told == Identity \cup Details \cup {"mac"}

IsSeq(s) == Len(s) \in Nat /\ s = [j \in 1 .. Len(s) |-> s[j]]

ASSUME CollectAssumption ==
  \A h \in Hosts, g \in Gathers :
    /\ IsSeq(Outputs[h][g]) /\ Outputs[h][g] # <<>>
    /\ \A c \in DOMAIN Outputs[h][g] : \A out \in Outputs[h][g][c] :
         /\ DOMAIN out = {"text", "told"}
         /\ IsSeq(out.text) /\ DOMAIN out.told \subseteq Told

VARIABLES
  ctx,      \* the scan context is done
  gather,   \* the gather under way, or "done"
  step,     \* in it: "exec", "shell" or "end"
  i,        \* the next exec command
  worked,   \* execOK, execWorked
  text,     \* the output gathered so far
  raw,      \* collect's raw
  info,     \* the SysInfo
  mac,      \* the MAC found
  host,     \* the host asked
  told,     \* history: what it first told of each field
  heard     \* history: what each of its outputs told

local == <<step, i, worked, text>>
learned == <<raw, info, mac>>
history == <<host, told, heard>>
vars == <<ctx, gather, local, learned, history>>

Init ==
  /\ ctx = FALSE
  /\ gather = "version"
  /\ step = "exec"
  /\ i = 1
  /\ worked = FALSE
  /\ text = <<>>
  /\ raw = <<>>
  /\ info = [f \in Identity \cup Details |->
               IF f \in {"neighbors", "interfaces"} THEN <<>> ELSE None]
  /\ mac = None
  /\ host \in Hosts
  /\ told = [f \in {} |-> None]
  /\ heard = {}

\* The fields of the one, and those of the other that it lacks.
Filled(one, other) ==
  [f \in DOMAIN one \cup DOMAIN other |->
     IF f \in DOMAIN one THEN one[f] ELSE other[f]]

\* The gather has what it wants.  (In "version" and "mac" the banner of a
\* network OS: the other commands are not for this host.)
Enough(g, out, all) ==
  CASE g \in {"version", "mac"} -> LooksLikeNetworkOS(out)
    [] g = "health" -> ParseCPU(all) # None /\ ParseMemory(all) # None
    [] g = "lldp" -> ParseLLDP(out) # <<>>
    [] g = "ifaces" -> ParseIfaces(out) # <<>>

\* What the gather keeps of an output: all of it, or only one that is enough.
Kept(g, out) ==
  IF g \in {"lldp", "ifaces"} /\ ~Enough(g, out, out) THEN <<>> ELSE out

NumCommands == Len(Outputs[host][gather]) - 1

\* A shell is the fallback if no exec command worked.  lldp and ifaces give
\* up on a cancellation before a command, the others only end their loop on it.
CanShell(g) == ~worked /\ g # "mac" /\ (g \in {"lldp", "ifaces"} => i > NumCommands)

\* Mutant of Joined: the last output replaces the others.
JoinedLast(old, new) == new
Joined(old, new) == old \o new

\* CombinedOutput of the next command, with an error or without.
Exec ==
  /\ step = "exec" /\ gather # "done"
  /\ i <= NumCommands /\ ~ctx
  /\ \E out \in Outputs[host][gather][i], err \in BOOLEAN :
       /\ text' = Joined(text, Kept(gather, out.text))
       /\ worked' = \/ worked
                    \/ out.text # <<>>
                    \/ gather \notin {"version", "mac"} /\ ~err
       /\ step' = IF Enough(gather, out.text, text') THEN "end" ELSE "exec"
       /\ told' = Filled(told, out.told)
       /\ heard' = heard \cup {out.told}
  /\ i' = i + 1
  /\ UNCHANGED <<ctx, gather, learned, host>>

\* The loop ends: no command is left, or ctx is done.
ExecOver ==
  /\ step = "exec" /\ gather # "done"
  /\ i > NumCommands \/ ctx
  /\ step' = IF CanShell(gather) THEN "shell" ELSE "end"
  /\ UNCHANGED <<ctx, gather, i, worked, text, learned, history>>

\* ShellOutput, whose output is kept as it is, empty if it was lost on the way
\* (ShellText of SshCommand).
Shell ==
  /\ step = "shell"
  /\ \E out \in Outputs[host][gather][NumCommands + 1] :
       /\ text' = Joined(text, out.text)
       /\ told' = Filled(told, out.told)
       /\ heard' = heard \cup {out.told}
  /\ step' = "end"
  /\ UNCHANGED <<ctx, gather, i, worked, learned, host>>

\* The next gather starts with nothing.
Begin(g) ==
  /\ gather' = g
  /\ step' = "exec"
  /\ i' = 1
  /\ worked' = FALSE
  /\ text' = <<>>

\* Only a network device is asked for more.
Classify ==
  IF IsNetworkDevice(info', raw') THEN Begin("health") ELSE Begin("done")

\* The version dump is parsed; a MAC it does not hold is asked for.
VersionEnds ==
  /\ gather = "version" /\ step = "end"
  /\ raw' = text
  /\ info' = Filled(ParseSysInfo(text), info)
  /\ mac' = ParseMAC(text)
  /\ IF mac' = None THEN Begin("mac") ELSE Classify
  /\ UNCHANGED <<ctx, history>>

\* The extra output identifies the host only if nothing else did.
MacEnds ==
  /\ gather = "mac" /\ step = "end"
  /\ raw' = raw \o text
  /\ info' = IF info.model = None /\ info.version = None
               THEN Filled(ParseSysInfo(raw'), info) ELSE info
  /\ mac' = ParseMAC(raw')
  /\ Classify
  /\ UNCHANGED <<ctx, history>>

HealthEnds ==
  /\ gather = "health" /\ step = "end"
  /\ info' = [info EXCEPT !.cpu = ParseCPU(text), !.memory = ParseMemory(text)]
  /\ Begin("lldp")
  /\ UNCHANGED <<ctx, raw, mac, history>>

LldpEnds ==
  /\ gather = "lldp" /\ step = "end"
  /\ info' = [info EXCEPT !.neighbors = ParseLLDP(text)]
  /\ Begin("ifaces")
  /\ UNCHANGED <<ctx, raw, mac, history>>

IfacesEnd ==
  /\ gather = "ifaces" /\ step = "end"
  /\ info' = [info EXCEPT !.interfaces = ParseIfaces(text)]
  /\ Begin("done")
  /\ UNCHANGED <<ctx, raw, mac, history>>

Cancel ==
  /\ ~ctx
  /\ ctx' = TRUE
  /\ UNCHANGED <<gather, local, learned, history>>

Finished == gather = "done" /\ UNCHANGED vars

Collect == Exec \/ ExecOver \/ Shell \/ VersionEnds \/ MacEnds
           \/ HealthEnds \/ LldpEnds \/ IfacesEnd

Next == Collect \/ Cancel \/ Finished

\* Every command returns.
Spec == Init /\ [][Next]_vars /\ WF_vars(Collect)

-----------------------------------------------------------------------------
(* Properties.                                                             *)

AsTold(f, v) ==
  gather = "done" => v = IF f \in DOMAIN told THEN told[f] ELSE None

\* Nothing a host told is lost, and nothing is made up: its name, model,
\* version and MAC are known in the end exactly if some output held them.
\* (A version that none held is the first line that looks useful.)
IdentityKept ==
  /\ \A f \in {"hostname", "model"} : AsTold(f, info[f])
  /\ "version" \in DOMAIN told => AsTold("version", info.version)
  /\ AsTold("mac", mac)

\* All outputs so far are read again after each command, each dialect's formats
\* in an order of their own: still the load and the memory in use are known in
\* the end exactly if some output told them, and as one of them did.
OneOf(f, v) ==
  gather = "done" =>
    LET values == {t[f] : t \in {u \in heard : f \in DOMAIN u}}
    IN  IF values = {} THEN v = None ELSE v \in values

HealthKept == OneOf("cpu", info.cpu) /\ OneOf("memory", info.memory)

\* "First command that fills the interesting fields wins; later commands only
\* fill blanks."
HealthFirst == AsTold("cpu", info.cpu) /\ AsTold("memory", info.memory)

Listed(f, s) ==
  gather = "done" => s = IF f \in DOMAIN told THEN told[f] ELSE <<>>

\* The neighbors are those of the first table a switch printed, each with the
\* port, the name and the port on the other side it had there.
NeighborsRead == Listed("neighbors", info.neighbors)

\* Each physical interface is listed once, with the counters a switch printed
\* for it, and not those of another direction, of its units or of IPv6 alone.
CountersRead == Listed("interfaces", info.interfaces)
=============================================================================
