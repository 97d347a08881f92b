-------------------------------- MODULE Iface ---------------------------------
(***************************************************************************)
(* internal/iface: the interface to scan from (Detect) and the addresses   *)
(* of its subnet (Hosts).                                                  *)
(*                                                                         *)
(* Addresses are numbers of AddrBits bits (32 in the code), and `int` has  *)
(* IntBits bits, as many on a 32-bit build and twice as many on others.    *)
(***************************************************************************)
EXTENDS Integers, Sequences

CONSTANTS AddrBits, IntBits,
          Private,    \* addresses of RFC 1918
          LinkLocal,  \* those of 169.254/16
          Odd,        \* the length of a mask that is not a prefix
          IPv4Nets,   \* [ip, ones]: an address and its mask
          MaxIfaces,  \* bound on the interfaces looked at ...
          MaxAddrs,   \* ... and on their addresses
          NoNet

Prefix == 0 .. AddrBits

\* Powers of two, as a function that can be proved about.
TwoTo[n \in Nat] == IF n = 0 THEN 1 ELSE 2 * TwoTo[n - 1]

\* In fewer than three bits the two addresses of the second longest mask may
\* not fit an int; the code has 32.
ASSUME IfaceAssumption ==
  /\ AddrBits \in Nat /\ AddrBits >= 3
  /\ IntBits \in {AddrBits, 2 * AddrBits}
  /\ Odd \notin Prefix
  /\ IPv4Nets \subseteq [ip : 0 .. TwoTo[AddrBits] - 1, ones : Prefix \cup {Odd}]
  /\ NoNet \notin IPv4Nets
  /\ MaxIfaces \in Nat /\ MaxAddrs \in Nat

-----------------------------------------------------------------------------
(* Hosts.                                                                  *)

\* Two's complement.
AsInt(n) ==
  ((n + TwoTo[IntBits - 1]) % TwoTo[IntBits]) - TwoTo[IntBits - 1]

\* Mutants of From and of Until: the network and the broadcast address.
FromNetwork(net) == 0
UntilBroadcast(net) == AsInt(TwoTo[AddrBits - net.ones])

\* start and end of the loop over the subnet.
From(net) == IF net.ones >= AddrBits - 1 THEN 0 ELSE 1
Until(net) ==
  LET total == AsInt(TwoTo[AddrBits - net.ones])
  IN  IF net.ones >= AddrBits - 1 THEN total ELSE AsInt(total - 1)

Count(net) == AsInt(Until(net) - From(net))

\* Network.IP: what the mask leaves of the address.
Base(net) == net.ip - (net.ip % TwoTo[AddrBits - net.ones])

HostsFail(net, maxHosts) ==
  \/ net.ones = Odd
  \/ Count(net) <= 0
  \/ maxHosts > 0 /\ Count(net) > maxHosts

Hosts(net) ==
  [i \in 1 .. Count(net) |-> (Base(net) + From(net) + i - 1) % TwoTo[AddrBits]]

-----------------------------------------------------------------------------
(* Detect.                                                                 *)

VARIABLES detecting, \* "iface", "addrs", "done" or "failed"
          looked,    \* interfaces looked at
          local,     \* ln, and the result
          fallback,
          offered    \* history: the usable addresses, in order

detectVars == <<detecting, looked, local, fallback, offered>>

DetectInit ==
  /\ detecting = "iface"
  /\ looked = 0
  /\ local = NoNet
  /\ fallback = NoNet
  /\ offered = <<>>

\* No interface of the name given, or no list of them.
NoInterfaces ==
  /\ detecting = "iface" /\ looked = 0
  /\ detecting' = "failed"
  /\ UNCHANGED <<looked, local, fallback, offered>>

\* The next interface; it is passed over if it is down or a loopback, has no
\* hardware address, or does not tell its addresses.
NextIface ==
  /\ detecting = "iface" /\ looked < MaxIfaces
  /\ detecting' \in {"iface", "addrs"}
  /\ looked' = looked + 1
  /\ UNCHANGED <<local, fallback, offered>>

\* The first public address is kept; in the mutant it is the last.
KeepLast(net) == net
Keep(net) == IF fallback = NoNet THEN net ELSE fallback

\* An address that is not link-local is the result, or may be one.
Take(net) ==
  IF net.ip \in LinkLocal THEN UNCHANGED <<local, fallback, detecting>>
  ELSE IF net.ip \in Private
    THEN local' = net /\ detecting' = "done" /\ UNCHANGED fallback
    ELSE fallback' = Keep(net) /\ UNCHANGED <<local, detecting>>

\* Its next IPv4 address; others are passed over.
NextAddr ==
  /\ detecting = "addrs" /\ Len(offered) < MaxAddrs
  /\ \E net \in IPv4Nets : Take(net) /\ offered' = Append(offered, net)
  /\ UNCHANGED looked

NoMoreAddrs ==
  /\ detecting = "addrs"
  /\ detecting' = "iface"
  /\ UNCHANGED <<looked, local, fallback, offered>>

NoMoreIfaces ==
  /\ detecting = "iface" /\ looked > 0
  /\ local' = fallback
  /\ detecting' = IF fallback = NoNet THEN "failed" ELSE "done"
  /\ UNCHANGED <<looked, fallback, offered>>

Detect == NoInterfaces \/ NextIface \/ NextAddr \/ NoMoreAddrs \/ NoMoreIfaces

DetectOver == detecting \in {"done", "failed"}

-----------------------------------------------------------------------------
(* What Detect promises.                                                   *)

\* The places of the addresses that are not link-local, and the earliest of
\* a set of places.
Candidates == {i \in DOMAIN offered : offered[i].ip \notin LinkLocal}

Earliest(I) == CHOOSE i \in I : \A j \in I : i <= j

\* "Prefer private (RFC1918) addresses": the first of them, else the first
\* address at all.
Preferred ==
  LET private == {i \in Candidates : offered[i].ip \in Private}
  IN  offered[Earliest(IF private # {} THEN private ELSE Candidates)]
=============================================================================
