-------------------------------- MODULE MCMain --------------------------------
(* Start: addresses of three bits, private ones, one that is link-local,    *)
(* public ones, with every mask; files of two lines.  Progress: ping by two *)
(* workers, ARP by one sender, SSH by two workers again.                    *)
EXTENDS Main

CONSTANTS unset, odd, noNet, w1, w2

MCKey == {"SSH_USERS", "SSH_PASSWORDS", "SSH_PORT"}
MCValue == {"blank", "22x", "refused"}
MCEnvs ==
  {[k \in MCKey |-> unset],
   [k \in MCKey |-> IF k = "SSH_PASSWORDS" THEN "blank" ELSE unset],
   [k \in MCKey |-> IF k = "SSH_PORT" THEN unset ELSE "22x"]}
MCNets == [ip : {1, 4}, ones : {0, 1, 2, 3, odd}] \cup {[ip |-> i, ones |-> 1] : i \in {5, 6, 7}}

MCStages == <<"icmp", "arp", "ssh">>
MCLength == [s \in {"icmp", "arp", "ssh", None} |->
               CASE s = "icmp" -> 4 [] s = None -> 0 [] OTHER -> 3]
=============================================================================
