------------------------------ MODULE SshCommand ------------------------------
(***************************************************************************)
(* One command on an SSH connection, internal/sshprobe/client.go:          *)
(* CombinedOutput runs it over an exec session with a watcher goroutine    *)
(* that closes the session when the command's context is done; ShellOutput *)
(* types commands into an interactive shell and waits for its end in       *)
(* another goroutine.  Afterwards the worker closes the connection.        *)
(*                                                                         *)
(* The ssh package is seen from here: opening a session, requesting a      *)
(* terminal, starting a shell and typing wait for the host; Close sends a  *)
(* message and does not wait; the session is over when the host has closed *)
(* its side of the channel, or the connection is lost.  It copies what the *)
(* host sends with a goroutine for stdout and one for stderr.              *)
(***************************************************************************)
EXTENDS Integers

CONSTANTS Chunks,   \* pieces of output the host can send (a bound)
          Typed     \* len(cmds) of ShellOutput

ASSUME CommandAssumption == Chunks \in Nat /\ Typed \in Nat

VARIABLES
  cmdCtx,  \* the command's context is done: cmdTimeout, or the scan's
  caller,  \* "call","open","exec","run","pty","shell","type","select",
           \* "defer","returned","closed" (the client)
  kind,    \* the method called: "none","exec","shell"
  typed,   \* commands typed so far
  err,     \* the error returned: "none","ctx","other"
  output,  \* the pieces of output returned; Torn if nobody can tell
  done,    \* CombinedOutput: the channel done is closed
  watcher, \* its goroutine: "none","watching","ended"
  waiter,  \* that of ShellOutput: "none","waiting","sending","ended"
  waitCh,  \* messages in its channel, which holds one
  channel, \* the session's: "none","open","closing" (by us),"closed"
  link,    \* the connection is up
  sent     \* pieces of output the host has sent

callVars == <<caller, kind, typed, err, output, done>>
goVars == <<watcher, waiter, waitCh>>
netVars == <<channel, link, sent>>
cmdVars == <<cmdCtx, callVars, goVars, netVars>>

Torn == -1

CommandInit ==
  /\ cmdCtx = FALSE
  /\ caller = "call"
  /\ kind = "none"
  /\ typed = 0
  /\ err = "none"
  /\ output = 0
  /\ done = FALSE
  /\ watcher = "none"
  /\ waiter = "none"
  /\ waitCh = 0
  /\ channel = "none"
  /\ link = TRUE
  /\ sent = 0

-----------------------------------------------------------------------------
(* The worker.                                                             *)

\* collect makes the call.
Call ==
  /\ caller = "call"
  /\ kind' \in {"exec", "shell"}
  /\ caller' = "open"
  /\ UNCHANGED <<cmdCtx, typed, err, output, done, goVars, netVars>>

\* Deferred: done is closed (CombinedOutput), and so is the session.
CloseSession == channel' = IF channel = "open" THEN "closing" ELSE channel

\* NewSession fails: refused, or the connection is lost.
NoSession ==
  /\ caller = "open"
  /\ caller' = "returned"
  /\ err' = "other"
  /\ UNCHANGED <<cmdCtx, kind, typed, output, done, goVars, netVars>>

\* The host grants a session; CombinedOutput starts its watcher.
NewSession ==
  /\ caller = "open" /\ link
  /\ channel' = "open"
  /\ caller' = IF kind = "exec" THEN "exec" ELSE "pty"
  /\ watcher' = IF kind = "exec" THEN "watching" ELSE "none"
  /\ UNCHANGED <<cmdCtx, kind, typed, err, output, done, waiter, waitCh,
                 link, sent>>

\* session.CombinedOutput returns when the channel is closed on both sides,
\* and all that was sent has been copied, under a lock; how the command ended
\* is open.
Ran ==
  /\ caller = "run"
  /\ channel = "closed"
  /\ err' \in {"none", "other"}
  /\ output' = sent
  /\ caller' = "defer"
  /\ UNCHANGED <<cmdCtx, kind, typed, done, goVars, netVars>>

\* The request for the command, the terminal or the shell: the host agrees,
Agrees ==
  /\ caller \in {"exec", "pty", "shell"}
  /\ channel = "open"
  /\ caller' = CASE caller = "exec" -> "run"
                 [] caller = "pty" -> "shell"
                 [] caller = "shell" -> "type"
  /\ UNCHANGED <<cmdCtx, kind, typed, err, output, done, goVars, netVars>>

\* or it does not.
Refuses ==
  /\ caller \in {"exec", "pty", "shell"}
  /\ caller' = "defer"
  /\ err' = "other"
  /\ UNCHANGED <<cmdCtx, kind, typed, output, done, goVars, netVars>>

\* A command is typed as soon as the host takes it.
Type ==
  /\ caller = "type"
  /\ typed < Typed
  /\ channel = "open"
  /\ typed' = typed + 1
  /\ UNCHANGED <<cmdCtx, caller, kind, err, output, done, goVars, netVars>>

\* All is typed, or an error has broken the loop; "exit" is typed, and the
\* waiter started.
TypedAll ==
  /\ caller = "type"
  /\ typed = Typed \/ channel = "closed"
  /\ caller' = "select"
  /\ waiter' = "waiting"
  /\ UNCHANGED <<cmdCtx, kind, typed, err, output, done, watcher, waitCh,
                 netVars>>

\* Stdout and Stderr of a shell are one bytes.Buffer without a lock.  Each of
\* the two goroutines remembers where its next piece goes and cuts the buffer
\* there when its stream ends, whatever the other has added since: stderr, on
\* which nothing came, at the start.
ShellText == {Torn} \cup 0 .. sent

\* The select: ctx is done.
GivesUp ==
  /\ caller = "select"
  /\ cmdCtx
  /\ CloseSession
  /\ output' \in ShellText
  /\ err' = "ctx"
  /\ caller' = "defer"
  /\ UNCHANGED <<cmdCtx, kind, typed, done, goVars, link, sent>>

\* Mutant of ShellEnds: it does not wait for the waiter.
ShellEndsEarly ==
  /\ caller = "select"
  /\ output' \in ShellText
  /\ caller' = "defer"
  /\ UNCHANGED <<cmdCtx, kind, typed, err, done, watcher, waiter, waitCh,
                 netVars>>

\* The select: the waiter has reported the end of the session.
ShellEnds ==
  /\ caller = "select"
  /\ waitCh > 0
  /\ waitCh' = waitCh - 1
  /\ output' \in ShellText
  /\ caller' = "defer"
  /\ UNCHANGED <<cmdCtx, kind, typed, err, done, watcher, waiter, netVars>>

Deferred ==
  /\ caller = "defer"
  /\ CloseSession
  /\ done' = (kind = "exec")
  /\ caller' = "returned"
  /\ UNCHANGED <<cmdCtx, kind, typed, err, output, goVars, link, sent>>

\* probeOne closes the client.
CloseClient ==
  /\ caller = "returned"
  /\ caller' = "closed"
  /\ link' = FALSE
  /\ channel' = IF channel = "none" THEN "none" ELSE "closed"
  /\ UNCHANGED <<cmdCtx, kind, typed, err, output, done, goVars, sent>>

-----------------------------------------------------------------------------
(* The goroutines of the command.                                          *)

\* Mutant of WatcherCloses: it gives up without closing the session.
WatcherOnlyEnds ==
  /\ watcher = "watching"
  /\ cmdCtx
  /\ watcher' = "ended"
  /\ UNCHANGED <<cmdCtx, callVars, waiter, waitCh, netVars>>

\* The watcher's select: ctx is done ...
WatcherCloses ==
  /\ watcher = "watching"
  /\ cmdCtx
  /\ CloseSession
  /\ watcher' = "ended"
  /\ UNCHANGED <<cmdCtx, callVars, waiter, waitCh, link, sent>>

\* ... or the command is.
WatcherEnds ==
  /\ watcher = "watching"
  /\ done
  /\ watcher' = "ended"
  /\ UNCHANGED <<cmdCtx, callVars, waiter, waitCh, netVars>>

\* session.Wait returns ...
WaitReturns ==
  /\ waiter = "waiting"
  /\ channel = "closed"
  /\ waiter' = "sending"
  /\ UNCHANGED <<cmdCtx, callVars, watcher, waitCh, netVars>>

\* Mutant of WaiterSends: a channel without a buffer needs a receiver.
WaiterSendsUnbuffered ==
  /\ waiter = "sending"
  /\ caller = "select"
  /\ waitCh' = waitCh + 1
  /\ waiter' = "ended"
  /\ UNCHANGED <<cmdCtx, callVars, watcher, netVars>>

\* ... and its result is sent to waitCh, which has room for it.
WaiterSends ==
  /\ waiter = "sending"
  /\ waitCh < 1
  /\ waitCh' = waitCh + 1
  /\ waiter' = "ended"
  /\ UNCHANGED <<cmdCtx, callVars, watcher, netVars>>

-----------------------------------------------------------------------------
(* The environment: the host, the connection and the clock.                *)

HostWrites ==
  /\ link
  /\ channel \in {"open", "closing"}
  /\ sent < Chunks
  /\ sent' = sent + 1
  /\ UNCHANGED <<cmdCtx, callVars, goVars, channel, link>>

\* The command or the shell is over, or the host answers our close.
HostCloses ==
  /\ link
  /\ channel \in {"open", "closing"}
  /\ channel' = "closed"
  /\ UNCHANGED <<cmdCtx, callVars, goVars, link, sent>>

LinkLost ==
  /\ link
  /\ link' = FALSE
  /\ channel' = IF channel = "none" THEN "none" ELSE "closed"
  /\ UNCHANGED <<cmdCtx, callVars, goVars, sent>>

\* The context was made for this call.
Expire ==
  /\ caller # "call" /\ ~cmdCtx
  /\ cmdCtx' = TRUE
  /\ UNCHANGED <<callVars, goVars, netVars>>

Over == /\ caller = "closed"
        /\ watcher \in {"none", "ended"}
        /\ waiter \in {"none", "ended"}

\* The worker goes on to the next host.
GoesOn == caller = "closed" /\ UNCHANGED cmdVars

\* What the program does on its own, and what waits for the host.
Local == \/ Ran \/ TypedAll \/ GivesUp \/ ShellEnds \/ Deferred
         \/ CloseClient
         \/ (~link /\ NoSession)
         \/ (channel = "closed" /\ Refuses)
Goroutine == WatcherCloses \/ WatcherEnds \/ WaitReturns \/ WaiterSends
HostAnswers == NoSession \/ NewSession \/ Agrees \/ Refuses \/ Type

CommandNext ==
  \/ Call \/ Local \/ HostAnswers \/ Goroutine
  \/ HostWrites \/ HostCloses \/ LinkLost \/ Expire
  \/ GoesOn

\* The program's goroutines are scheduled and the command's timeout passes.
\* Nothing is assumed of the host.
Fairness == WF_cmdVars(Local) /\ WF_cmdVars(Goroutine) /\ WF_cmdVars(Expire)

CommandSpec == CommandInit /\ [][CommandNext]_cmdVars /\ Fairness

\* A host that answers every request, that to close a session included.  Its
\* commands need not end by themselves.
HostKeepsAnswering == /\ WF_cmdVars(HostAnswers)
                      /\ WF_cmdVars(channel = "closing" /\ HostCloses)

-----------------------------------------------------------------------------
(* Properties.                                                             *)

Returned == caller \in {"returned", "closed"}

\* A method that returns without an error has seen the session to its end, and
\* the output of CombinedOutput is then all the host has sent and will ever
\* send.  (ShellOutput may return anything, see ShellText.)
OutputComplete ==
  Returned /\ err = "none" =>
    /\ channel = "closed"
    /\ kind = "exec" => output = sent

\* No goroutine outlives the connection: the watcher and the waiter of every
\* command end, also when nobody listens to them any more.
GoroutinesEnd == Returned ~> Over

\* A command on a host that keeps answering returns, even one that does not
\* end: the watcher or the select cuts it off.
CommandReturns == HostKeepsAnswering => (caller = "open" ~> Returned)

\* "Clear the handshake deadline so collect() can use its own timeouts":
\* once its context is done a command returns.
TimeoutReturns == cmdCtx ~> Returned
=============================================================================
