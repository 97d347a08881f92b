-------------------------------- MODULE Stage --------------------------------
(***************************************************************************)
(* What one discovery method promises the pipeline: the contract behind    *)
(* `Method.Run(ctx, req) ([]device.Device, error)` of internal/pipeline.   *)
(*                                                                         *)
(* While it runs, a method collects hosts, each on the evidence of an      *)
(* answer that host really gave; it returns exactly what it collected, or  *)
(* an error and nothing; what it returned never changes afterwards.        *)
(* IcmpPing, ArpScan and SshProbe are shown to implement this module.      *)
(***************************************************************************)
CONSTANT Host       \* every address an answer may come from

VARIABLES phase,    \* "running", "returned" or "failed"
          answered, \* hosts whose answer has reached this machine
          found,    \* hosts the method has recorded
          result    \* hosts handed to the pipeline

vars == <<phase, answered, found, result>>

Init == /\ phase = "running"
        /\ answered = {}
        /\ found = {}
        /\ result = {}

\* An answer from h arrives, whether or not the method still listens.
Answer(h) == /\ answered' = answered \cup {h}
             /\ UNCHANGED <<phase, found, result>>

\* The method records a host that answered.
Record(h) == /\ phase = "running"
             /\ h \in answered
             /\ found' = found \cup {h}
             /\ UNCHANGED <<phase, answered, result>>

\* The method returns what it recorded, all of it.
Return == /\ phase = "running"
          /\ phase' = "returned"
          /\ result' = found
          /\ UNCHANGED <<answered, found>>

\* The method returns an error: whatever it recorded is dropped.
Fail == /\ phase = "running"
        /\ phase' = "failed"
        /\ UNCHANGED <<answered, found, result>>

Next == \/ \E h \in Host : Answer(h) \/ Record(h)
        \/ Return
        \/ Fail

SafeSpec == Init /\ [][Next]_vars

\* A method always returns: the pipeline calls it synchronously.
Spec == SafeSpec /\ WF_vars(Return \/ Fail)
=============================================================================
