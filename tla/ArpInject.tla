------------------------------ MODULE ArpInject -------------------------------
(***************************************************************************)
(* injector of internal/arpscan: one sender writes a stream of frames,     *)
(* pausing after a burst of them, and retries a frame the driver has no    *)
(* buffer for, pausing before each retry and shortening its bursts.        *)
(*                                                                         *)
(* write() is called for frame after frame until it fails; WritePacketData *)
(* and the timer of sleepCtx are the environment.                          *)
(***************************************************************************)
EXTENDS Integers

CONSTANTS BurstMin, BurstStart, BurstMax, RetryMax,  \* injectBurstMin etc.
          BackoffMax                                 \* injectBackoffMax, in ms

ASSUME InjectAssumption ==
  /\ {BurstMin, BurstStart, BurstMax, RetryMax, BackoffMax} \subseteq Nat \ {0}
  /\ BurstMin <= BurstStart
  /\ BurstStart <= BurstMax
  /\ RetryMax <= 64
  /\ BackoffMax <= 64

(***************************************************************************)
(* time.Duration(4<<try) * time.Millisecond, clamped, in milliseconds.     *)
(* Both are 64-bit integers: the product is 15625 * 2^(try+8) nanoseconds  *)
(* modulo 2^64.  It exceeds 63 bits from try = 42 on and is negative, for  *)
(* which -1 stands, when its top bit is set; from try = 56 on it is 0.     *)
(***************************************************************************)
Backoff(try) ==
  CASE try < 4 ->
         LET ms == <<4, 8, 16, 32>>[try + 1]
         IN  IF ms > BackoffMax THEN BackoffMax ELSE ms
    [] try \in 4 .. 41 -> BackoffMax
    [] try \in 42 .. 55 ->
         IF 15625 % 2^(56 - try) >= 2^(55 - try) THEN -1 ELSE BackoffMax
    [] try >= 56 -> 0

VARIABLES ctx,      \* the scan context is done
          pc,       \* "idle","try","write","gap","backoff"
          try,      \* of the current call
          burst,    \* injector.burst
          limit,    \* injector.limit
          pause,    \* the duration given to sleepCtx, in ms (the gap is 1)
          ret,      \* what write returned last: "none","nil","ctx","error"
          onWire,   \* history: times the current frame has been sent
          unpaused  \* history: frames sent since the last sleep of > 0

vars == <<ctx, pc, try, burst, limit, pause, ret, onWire, unpaused>>

Init == /\ ctx = FALSE
        /\ pc = "idle"
        /\ try = 0
        /\ burst = 0
        /\ limit = BurstStart
        /\ pause = 0
        /\ ret = "none"
        /\ onWire = 0
        /\ unpaused = 0

\* Scan calls write with the next frame, as long as it returned nil.
Call == /\ pc = "idle"
        /\ ret \in {"none", "nil"}
        /\ pc' = "try"
        /\ try' = 0
        /\ onWire' = 0
        /\ UNCHANGED <<ctx, burst, limit, pause, ret, unpaused>>

Ret(r) == ret' = r /\ pc' = "idle"

\* The head of the loop: retries used up, or the context done, or another go.
Try == /\ pc = "try"
       /\ IF try = RetryMax THEN Ret("error")
          ELSE IF ctx THEN Ret("ctx")
          ELSE pc' = "write" /\ ret' = ret
       /\ UNCHANGED <<ctx, try, burst, limit, pause, onWire, unpaused>>

\* Mutant of Sent: a burst may have one frame more than the limit.
SentOffByOne ==
  /\ pc = "write"
  /\ onWire' = onWire + 1
  /\ unpaused' = unpaused + 1
  /\ IF burst < limit
       THEN /\ burst' = burst + 1
            /\ Ret("nil")
            /\ UNCHANGED <<limit, pause>>
       ELSE /\ burst' = 0
            /\ limit' = IF limit < BurstMax THEN limit + 1 ELSE limit
            /\ pc' = "gap"
            /\ pause' = 1
            /\ ret' = ret
  /\ UNCHANGED <<ctx, try>>

\* The frame is sent; after a full burst comes the gap.
Sent ==
  /\ pc = "write"
  /\ onWire' = onWire + 1
  /\ unpaused' = unpaused + 1
  /\ IF burst + 1 < limit
       THEN /\ burst' = burst + 1
            /\ Ret("nil")
            /\ UNCHANGED <<limit, pause>>
       ELSE /\ burst' = 0
            /\ limit' = IF limit < BurstMax THEN limit + 1 ELSE limit
            /\ pc' = "gap"
            /\ pause' = 1
            /\ ret' = ret
  /\ UNCHANGED <<ctx, try>>

\* Mutant of NoBuffer: the burst is not started anew.
NoBufferKeepsBurst ==
  /\ pc = "write"
  /\ limit' = IF limit > BurstMin THEN limit \div 2 ELSE limit
  /\ pause' = Backoff(try)
  /\ pc' = "backoff"
  /\ UNCHANGED <<ctx, try, burst, ret, onWire, unpaused>>

\* ENOBUFS.
NoBuffer ==
  /\ pc = "write"
  /\ burst' = 0
  /\ limit' = IF limit > BurstMin THEN limit \div 2 ELSE limit
  /\ pause' = Backoff(try)
  /\ pc' = "backoff"
  /\ UNCHANGED <<ctx, try, ret, onWire, unpaused>>

\* Any other error of the handle is returned at once.
WriteFails ==
  /\ pc = "write"
  /\ Ret("error")
  /\ UNCHANGED <<ctx, try, burst, limit, pause, onWire, unpaused>>

\* sleepCtx returns nil when its timer fires ...
Rested == unpaused' = IF pause > 0 THEN 0 ELSE unpaused

GapOver ==
  /\ pc = "gap"
  /\ Ret("nil")
  /\ Rested
  /\ UNCHANGED <<ctx, try, burst, limit, pause, onWire>>

\* Mutants of BackoffOver: the sender takes the pause for the success, or
\* does not count the try.
BackoffOverReturns ==
  /\ pc = "backoff"
  /\ Ret("nil")
  /\ try' = try + 1
  /\ Rested
  /\ UNCHANGED <<ctx, burst, limit, pause, onWire>>

BackoffOverUncounted ==
  /\ pc = "backoff"
  /\ pc' = "try"
  /\ Rested
  /\ UNCHANGED <<ctx, try, burst, limit, pause, ret, onWire>>

BackoffOver ==
  /\ pc = "backoff"
  /\ pc' = "try"
  /\ try' = try + 1
  /\ Rested
  /\ UNCHANGED <<ctx, burst, limit, pause, ret, onWire>>

\* ... and the context's error when that is done, timer or not.
Interrupted ==
  /\ pc \in {"gap", "backoff"}
  /\ ctx
  /\ Ret("ctx")
  /\ UNCHANGED <<ctx, try, burst, limit, pause, onWire, unpaused>>

Cancel == /\ ~ctx
          /\ ctx' = TRUE
          /\ UNCHANGED <<pc, try, burst, limit, pause, ret, onWire, unpaused>>

\* Scan leaves its loop after an error.
Finished == pc = "idle" /\ ret \in {"ctx", "error"} /\ UNCHANGED vars

Write == Try \/ Sent \/ NoBuffer \/ WriteFails \/ GapOver \/ BackoffOver
         \/ Interrupted

Next == Call \/ Write \/ Cancel \/ Finished

\* WritePacketData returns and timers fire.
Spec == Init /\ [][Next]_vars /\ WF_vars(Write)

-----------------------------------------------------------------------------
(* Properties.                                                             *)

TypeOK == /\ ctx \in BOOLEAN
          /\ pc \in {"idle", "try", "write", "gap", "backoff"}
          /\ try \in 0 .. RetryMax
          /\ burst \in 0 .. BurstMax - 1
          /\ limit \in 1 .. BurstMax
          /\ pause \in -1 .. BackoffMax
          /\ ret \in {"none", "nil", "ctx", "error"}
          /\ onWire \in 0 .. 1
          /\ unpaused \in Nat

\* write: nil means the frame went out, once; an error means it did not,
\* and only the context's error leaves it open.
FrameOnce ==
  /\ onWire <= 1
  /\ pc = "idle" /\ ret = "nil" => onWire = 1
  /\ pc = "idle" /\ ret = "error" => onWire = 0
  /\ pc \in {"try", "write", "backoff"} => onWire = 0

\* The cadence: however often the driver was out of buffers and the burst
\* size changed, no more than BurstMax frames go out between two pauses, and
\* never a full burst of the current size without one.
Paced == /\ unpaused <= BurstMax
         /\ pc # "gap" => burst < limit

\* write returns, for every frame.
WriteReturns == pc = "try" ~> pc = "idle"

\* "TX ring full: slow down and retry this same frame": there is a pause
\* before each retry.
SlowsDown == pc = "backoff" => pause > 0
=============================================================================
