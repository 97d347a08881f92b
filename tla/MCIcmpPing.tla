----------------------------- MODULE MCIcmpPing ------------------------------
(* Small sweeps for TLC: two hosts to probe, an IPv6 address among the     *)
(* targets, and a neighbour whose packets reach the raw socket unasked.    *)
EXTENDS IcmpPing

CONSTANTS h1, h2, v6, stranger

MCAddr == {h1, h2, v6, stranger}
MCIPv4 == {h1, h2, stranger}
MCTwoAddrs == {h1, h2}
MCTargets == <<h1, v6, h2>>
MCTwoHosts == <<h1, h2>>
=============================================================================
