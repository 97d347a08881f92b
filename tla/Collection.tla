------------------------------ MODULE Collection ------------------------------
(***************************************************************************)
(* The collection from a host and the commands it is made of.  SshCollect  *)
(* takes a command as one step.  Here any of them may be followed inside   *)
(* instead, from the call to the end of its goroutines.                    *)
(*                                                                         *)
(* Nothing in a command depends on what was gathered before, so that is    *)
(* forgotten when one is followed: one such command stands for all of its  *)
(* kind.                                                                   *)
(***************************************************************************)
EXTENDS SshCollect, SshCommand

collectionVars == <<vars, cmdVars>>

CollectionInit == Init /\ CommandInit

\* Each command in one step.
Gather == caller = "call" /\ (Collect \/ Cancel) /\ UNCHANGED cmdVars

\* The next command of a gather, or its shell, is called and followed.
Follow ==
  /\ gather # "done"
  /\ (step = "exec" /\ i <= NumCommands /\ ~ctx) \/ step = "shell"
  /\ Call /\ kind' = step
  /\ ctx' = FALSE /\ gather' = "version"
  /\ step' = "exec" /\ i' = 1 /\ worked' = FALSE /\ text' = <<>>
  /\ raw' = <<>> /\ mac' = None
  /\ info' = [f \in DOMAIN info |->
                IF f \in {"neighbors", "interfaces"} THEN <<>> ELSE None]
  /\ told' = [f \in {} |-> None] /\ heard' = {}
  /\ UNCHANGED host

Followed == caller # "call" /\ CommandNext /\ UNCHANGED vars

Collected == caller = "call" /\ Finished /\ UNCHANGED cmdVars

CollectionNext == Gather \/ Follow \/ Followed \/ Collected

CollectionSpec ==
  CollectionInit /\ [][CollectionNext]_collectionVars /\ Fairness
=============================================================================
