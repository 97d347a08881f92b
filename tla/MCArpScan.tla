------------------------------ MODULE MCArpScan -------------------------------
(* Small ARP sweeps for TLC: two hosts and an IPv6 address as targets, a   *)
(* neighbour outside of them, and one foreign MAC beside that of each.     *)
EXTENDS ArpScan

CONSTANTS h1, h2, v6, stranger, m1, m2, self

MCAddr == {h1, h2, v6, stranger}
MCTwoAddrs == {h1, v6}
MCIPv4 == {h1, h2, stranger}
MCOneIPv4 == {h1}
MCMAC == {m1, m2, self}
MCTwoMACs == {m1, self}
MCTargets == <<h1, v6, h2>>
MCTwoTargets == <<h1, v6>>
=============================================================================
