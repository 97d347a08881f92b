--------------------------------- MODULE Main ---------------------------------
(***************************************************************************)
(* run() of main.go from its start to the last line of progress: what      *)
(* Startup does, then the pipeline with the line that Progress keeps.      *)
(*                                                                         *)
(* The line reads nothing of what the start found but the list of methods, *)
(* so the pipeline begins by forgetting all the rest: the states of the    *)
(* line are the same after every start.                                    *)
(***************************************************************************)
EXTENDS Startup, Progress

mainVars == <<runVars, lineVars>>

MainInit == Init /\ LineInit

StartUp == Start /\ UNCHANGED lineVars

\* With -quiet there is no line, and with other methods it is not followed.
Scan ==
  /\ stage = "scan" /\ methods = Stages
  /\ stage' = "line"
  /\ env' = NoVars /\ was' = NoVars /\ vars' = NoVars
  /\ loading' = "open" /\ file' = <<>>
  /\ detecting' = "iface" /\ looked' = 0 /\ offered' = <<>>
  /\ local' = NoNet /\ fallback' = NoNet
  /\ maxHosts' = 0 /\ noPing' = FALSE /\ enableSSH' = FALSE
  /\ targets' = <<>> /\ login' = NoLogin
  /\ UNCHANGED <<code, methods, lineVars>>

Line == /\ stage = "line"
        /\ (\E w \in Workers : Step(w)) \/ StageEnds \/ Cancel
        /\ UNCHANGED runVars

\* The run has ended, or is not followed further.
MainOver == /\ Started \/ (stage = "line" /\ over # "no")
            /\ UNCHANGED mainVars

MainNext == StartUp \/ Scan \/ Line \/ MainOver

MainSpec == MainInit /\ [][MainNext]_mainVars
=============================================================================
