------------------------------ MODULE MCSshProbe ------------------------------
(* Small SSH stages for TLC: one host lets the second user in, the other   *)
(* both, with different passwords, and any login may fail on the way; an   *)
(* IPv6 address is among the targets.                                      *)
EXTENDS SshProbe

CONSTANTS h1, h2, v6, root, admin, pw1, pw2

MCAddr == {h1, h2, v6}
MCIPv4 == {h1, h2}
MCTargets == <<h1, v6, h2>>
MCUsers == <<root, admin>>
MCPasswords == <<pw1, pw2>>
MCAccepted == {<<h1, admin, pw1>>, <<h2, root, pw2>>, <<h2, admin, pw2>>}
=============================================================================
