------------------------------- MODULE Startup --------------------------------
(***************************************************************************)
(* run() of main.go before the pipeline: the .env file is loaded, the      *)
(* flags are read, the interface is detected and its subnet enumerated,    *)
(* the credentials are looked up, and the list of methods is made.         *)
(***************************************************************************)
EXTENDS EnvLoad, Iface, FiniteSets, SequencesExt

CONSTANTS Lists,    \* values that CSV makes a list with an item of
          Ports,    \* values that are a port number
          Default,  \* defaultPort
          Envs,     \* environments to start in
          Limits    \* values of -max-hosts, 0 being none

ASSUME StartupAssumption ==
  /\ {"SSH_USERS", "SSH_PASSWORDS", "SSH_PORT"} \subseteq Key
  /\ Envs \subseteq [Key -> Value \cup {Unset}]
  /\ Limits \subseteq Nat
  /\ Lists \subseteq Value
  /\ Default \notin Ports

VARIABLES stage,    \* "env", "detect", "hosts", "ssh", "scan", or "exit"
          code,     \* the exit code, of a run that ends here
          maxHosts, noPing, enableSSH,  \* flags
          targets,  \* Request.Targets
          methods, login  \* the pipeline's methods; the users, passwords and
                          \* port of the SSH one

flags == <<maxHosts, noPing, enableSSH>>
runVars == <<envVars, detectVars, stage, code, flags, targets, methods, login>>

NoLogin == <<Unset, Unset, Default>>

Init == /\ EnvInit(Envs) /\ DetectInit
        /\ stage = "env" /\ code = 0
        /\ maxHosts \in Limits /\ noPing \in BOOLEAN /\ enableSSH \in BOOLEAN
        /\ targets = <<>> /\ methods = <<>> /\ login = NoLogin

\* An error of the file is only a warning.
LoadEnv ==
  /\ stage = "env"
  /\ LoadFile
  /\ UNCHANGED <<detectVars, stage, code, flags, targets, methods, login>>

\* The flags are good, or they end the run: -version does, an unknown flag
\* and a negative limit do.
ParseFlags ==
  /\ stage = "env" /\ LoadOver
  /\ \/ stage' = "detect" /\ UNCHANGED code
     \/ stage' = "exit" /\ code' \in {0, 2}
  /\ UNCHANGED <<envVars, detectVars, flags, targets, methods, login>>

DetectIface ==
  /\ stage = "detect"
  /\ Detect
  /\ UNCHANGED <<envVars, stage, code, flags, targets, methods, login>>

Detected ==
  /\ stage = "detect" /\ DetectOver
  /\ IF detecting = "failed" THEN stage' = "exit" /\ code' = 1
     ELSE stage' = "hosts" /\ UNCHANGED code
  /\ UNCHANGED <<envVars, detectVars, flags, targets, methods, login>>

Enumerate ==
  /\ stage = "hosts"
  /\ IF HostsFail(local, maxHosts)
       THEN stage' = "exit" /\ code' = 1 /\ UNCHANGED targets
       ELSE stage' = "ssh" /\ targets' = Hosts(local) /\ UNCHANGED code
  /\ UNCHANGED <<envVars, detectVars, flags, methods, login>>

\* CredentialsFromEnv, with an environment's values.
CredentialsFromEnv(e) ==
  <<e["SSH_USERS"], e["SSH_PASSWORDS"],
    IF e["SSH_PORT"] \in Ports THEN e["SSH_PORT"] ELSE Default>>

\* Mutants of Usable: one of the two lists is enough; a variable that is set
\* is.
UsableEither(cred) == cred[1] \in Lists \/ cred[2] \in Lists
UsableSet(cred) == cred[1] # Unset /\ cred[2] # Unset

Usable(cred) == cred[1] \in Lists /\ cred[2] \in Lists

\* Without users or without passwords -ssh is dropped, with a warning.
ChooseMethods ==
  /\ stage = "ssh"
  /\ LET cred == CredentialsFromEnv(env)
         ssh == enableSSH /\ Usable(cred)
     IN  /\ methods' = (IF noPing THEN <<>> ELSE <<"icmp">>) \o <<"arp">>
                         \o (IF ssh THEN <<"ssh">> ELSE <<>>)
         /\ login' = IF ssh THEN cred ELSE NoLogin
  /\ stage' = "scan"
  /\ UNCHANGED <<envVars, detectVars, code, flags, targets>>

Started == stage \in {"scan", "exit"}

Finished == Started /\ UNCHANGED runVars

Start == LoadEnv \/ ParseFlags \/ DetectIface \/ Detected \/ Enumerate
         \/ ChooseMethods

Next == Start \/ Finished

Spec == Init /\ [][Next]_runVars

-----------------------------------------------------------------------------
(* Properties.                                                             *)

\* The addresses that share the mask's bits with the preferred one.
Subnet ==
  LET size == TwoTo[AddrBits - Preferred.ones]
  IN  {a \in 0 .. TwoTo[AddrBits] - 1 : a \div size = Preferred.ip \div size}

\* Of a subnet of more than two addresses the lowest and the highest are the
\* network's.
SubnetHosts ==
  {a \in Subnet : Cardinality(Subnet) > 2 =>
                    (\E b \in Subnet : b < a) /\ (\E b \in Subnet : a < b)}

\* The targets are every host of the preferred subnet, once, in order, no more
\* of them than allowed; and the run ends without a scan only if there is no
\* usable address, the mask is odd, the subnet has more hosts, or it is the
\* whole address space and does not fit an int.
TargetsExact ==
  /\ stage \in {"ssh", "scan"} =>
       /\ ToSet(targets) = SubnetHosts
       /\ \A i, j \in DOMAIN targets : i < j => targets[i] < targets[j]
       /\ maxHosts > 0 => Len(targets) <= maxHosts
  /\ stage = "exit" /\ DetectOver =>
       \/ Candidates = {}
       \/ Preferred.ones = Odd
       \/ maxHosts > 0 /\ Cardinality(SubnetHosts) > maxHosts
       \/ Preferred.ones = 0 /\ IntBits = AddrBits

\* Without an error of the file, logins are tried exactly when -ssh is given
\* and the environment, or the file where it is silent, names users and
\* passwords, with these and on its port.  With an error they may come from
\* the environment and a part of the file, but from nowhere else.
LoginsConfigured ==
  stage = "scan" =>
    /\ loading = "done" =>
         login = IF enableSSH /\ Merged["SSH_USERS"] \in Lists
                    /\ Merged["SSH_PASSWORDS"] \in Lists
                   THEN CredentialsFromEnv(Merged) ELSE NoLogin
    /\ "ssh" \in ToSet(methods) <=> login # NoLogin
    /\ login # NoLogin =>
         /\ enableSSH
         /\ login[1] \in {was["SSH_USERS"], Merged["SSH_USERS"]}
         /\ login[2] \in {was["SSH_PASSWORDS"], Merged["SSH_PASSWORDS"]}
=============================================================================
