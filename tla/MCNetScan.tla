------------------------------ MODULE MCNetScan -------------------------------
(* This machine and a neighbour; network cards of every class oui.Lookup    *)
(* tells apart; a switch and a server to log in to.                        *)
EXTENDS NetScan

CONSTANTS me, h1, random, cisco, nobody, switch, server

MCAddr == {me, h1}
MCMac == {random, cisco, nobody}
MCLocal == {random}
MCRegistered == [m \in {cisco} |-> "Cisco"]
MCBrand == {"Cisco", "Juniper"}
MCCore == {switch, server}
MCName == {"login", "dns", "os"}
MCMethods == <<"icmp", "arp", "ssh">>
MCOSNames == {"os", None}

\* A switch reports its address, its make and its neighbours, or too little
\* to tell; a server reports its name.
Switch(h) ==
  {SshDevice(h, switch, None, m, b, TRUE, n, None) :
     m \in {None, nobody}, b \in {None, "Juniper"}, n \in {None, "neighbors"}}
Server(h) == {SshDevice(h, server, "login", None, None, FALSE, None, None)}

\* Any host may answer the ping; this machine does not always answer ARP, and
\* does with its own address; a login finds a switch or a server.
MCReports ==
  [m \in {"icmp", "arp", "ssh"} |->
     CASE m = "icmp" -> {IcmpDevice(h) : h \in Addr}
       [] m = "arp" -> {ArpDevice(me, LocalMAC)} \cup {ArpDevice(h1, a) : a \in Mac}
       [] m = "ssh" -> Switch(h1) \cup UNION {Server(h) : h \in Addr}]
=============================================================================
