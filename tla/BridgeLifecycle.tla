--------------------------- MODULE BridgeLifecycle ---------------------------
(***************************************************************************)
(* How one call ends: the four pumps of the bridge, run() that tears them  *)
(* down, the process-wide shutdown that may do so at the same time, and    *)
(* the gateway that finalises the call row and hands the call to the       *)
(* post-call worker (apps/api/media/bridge.py, apps/api/media/gateway.py). *)
(*                                                                         *)
(* Modelled of the traffic is what the teardown has to save: frames not    *)
(* yet written and the agent's turns. Turn t is begun by a transcript      *)
(* delta, kept in the partial text, and stored when its transcript is done *)
(* or, at the end of the call, by the flush.                               *)
(*                                                                         *)
(* External: the caller, the model service, a Twilio socket that may stop  *)
(* accepting writes, a database whose commit may be cut off or fail.       *)
(***************************************************************************)
EXTENDS Integers, FiniteSets

CONSTANTS
  MaxTurns,      \* bound: agent turns in one call
  MaxQueue,      \* bound: frames queued at once
  DbFails,       \* TRUE: a write to the database may raise
  Shutdown       \* TRUE: the process may be told to shut down

ASSUME LifecycleAssumption ==
  /\ MaxTurns \in Nat
  /\ MaxQueue \in Nat
  /\ DbFails \in BOOLEAN /\ Shutdown \in BOOLEAN

VARIABLES
  stop,        \* bridge._stop
  closed,      \* bridge._closed
  pump,        \* state of each task
  storing,     \* the turn pump_openai is storing, 0 when it reads
  partial,     \* the turn in bridge._partial_agent_text, 0 when empty
  queued,      \* frames not yet written
  stalled,     \* external: Twilio accepts no more writes
  sockets,     \* "open" or "closed"
  closer,      \* where run() and shutdown() are
  flushing,    \* the turn each of them is storing, 0 for none
  drained,     \* history: how the drain of each of them ended
  call,        \* gateway: "live", "finalised", "handed_off"; or "unfinished"
  begun,       \* history: turns the agent began
  rows,        \* turn -> how many rows it has in `turns`
  lost         \* history: turns whose insert was cut off or failed

taskVars == <<stop, closed, pump, closer>>
turnVars == <<storing, partial, flushing, begun, rows, lost>>
audioLeft == <<queued, stalled, drained>>
lifeVars == <<taskVars, turnVars, audioLeft, sockets, call>>

Pumps == {"twilio", "openai", "outbound", "budget"}
Closers == {"run", "shutdown"}
Turns == 1..MaxTurns

LifeInit ==
  /\ stop = FALSE
  /\ closed = FALSE
  /\ pump = [p \in Pumps |-> "running"]
  /\ storing = 0
  /\ partial = 0
  /\ queued = 0
  /\ stalled = FALSE
  /\ sockets = "open"
  /\ closer = [c \in Closers |-> "idle"]
  /\ flushing = [c \in Closers |-> 0]
  /\ drained = [c \in Closers |-> "none"]
  /\ call = "live"
  /\ begun = 0
  /\ rows = [t \in Turns |-> 0]
  /\ lost = {}

-----------------------------------------------------------------------------
(* The pumps *)

PumpEnds(p) == pump' = [pump EXCEPT ![p] = "done"]

OpenaiReads == pump["openai"] = "running" /\ storing = 0 /\ ~stop /\ sockets = "open"

SendAudio ==
  /\ OpenaiReads
  /\ queued < MaxQueue
  /\ queued' = queued + 1
  /\ UNCHANGED <<taskVars, turnVars, stalled, drained, sockets, call>>

TranscriptDelta ==
  /\ OpenaiReads
  /\ partial = 0
  /\ begun < MaxTurns
  /\ begun' = begun + 1
  /\ partial' = begun'
  /\ UNCHANGED <<taskVars, storing, flushing, rows, lost, audioLeft, sockets, call>>

\* Mutant: the partial text outlives the transcript.
TranscriptDoneKeepingPartial ==
  /\ OpenaiReads
  /\ partial # 0
  /\ storing' = partial
  /\ UNCHANGED <<taskVars, partial, flushing, begun, rows, lost, audioLeft, sockets, call>>

\* The partial text is cleared before the turn is stored.
TranscriptDone ==
  /\ OpenaiReads
  /\ partial # 0
  /\ partial' = 0
  /\ storing' = partial
  /\ UNCHANGED <<taskVars, flushing, begun, rows, lost, audioLeft, sockets, call>>

Store(t) == rows' = [rows EXCEPT ![t] = @ + 1]

\* on_turn returns, or raises and ends the pump.
TurnStored ==
  /\ storing # 0
  /\ storing' = 0
  /\ \/ /\ Store(storing)
        /\ UNCHANGED <<pump, lost>>
     \/ /\ DbFails
        /\ lost' = lost \cup {storing}
        /\ PumpEnds("openai")
        /\ UNCHANGED rows
  /\ UNCHANGED <<stop, closed, closer, partial, flushing, begun, audioLeft, sockets, call>>

PumpOutbound ==
  /\ pump["outbound"] = "running"
  /\ queued > 0
  /\ ~stalled
  /\ queued' = queued - 1
  /\ UNCHANGED <<taskVars, turnVars, stalled, drained, sockets, call>>

\* A stop frame, a hang-up, the caller's socket closed by us, or the budget.
StoppingPumpEnds(p) ==
  /\ p \in {"twilio", "budget"}
  /\ pump[p] = "running"
  /\ stop' = TRUE
  /\ PumpEnds(p)
  /\ UNCHANGED <<closed, closer, turnVars, audioLeft, sockets, call>>

\* A pump that raises, or the model's event stream that ends.
PumpFails(p) ==
  /\ pump[p] = "running"
  /\ p = "openai" => storing = 0
  /\ PumpEnds(p)
  /\ UNCHANGED <<stop, closed, closer, turnVars, audioLeft, sockets, call>>

\* The budget task looks at the stop flag every tick, openai at every event.
PumpSeesStop(p) ==
  /\ stop
  /\ \/ p = "budget"
     \/ p = "openai" /\ storing = 0
  /\ pump[p] = "running"
  /\ PumpEnds(p)
  /\ UNCHANGED <<stop, closed, closer, turnVars, audioLeft, sockets, call>>

TwilioStalls ==
  /\ ~stalled
  /\ stalled' = TRUE
  /\ UNCHANGED <<taskVars, turnVars, queued, drained, sockets, call>>

-----------------------------------------------------------------------------
(* run() and shutdown() *)

Goes(c, from, to) ==
  /\ closer[c] = from
  /\ closer' = [closer EXCEPT ![c] = to]

\* Mutant: run() cancels the pumps without draining first.
RunWakesUndrained ==
  /\ Goes("run", "idle", "cancel")
  /\ \E p \in Pumps : pump[p] = "done"
  /\ stop' = TRUE
  /\ UNCHANGED <<closed, pump, turnVars, audioLeft, sockets, call>>

\* asyncio.wait returns with the first pump that ended.
RunWakes ==
  /\ Goes("run", "idle", "drain")
  /\ \E p \in Pumps : pump[p] = "done"
  /\ stop' = TRUE
  /\ UNCHANGED <<closed, pump, turnVars, audioLeft, sockets, call>>

\* The list of live bridges is a snapshot, so this one may be over already.
ShutdownBegins ==
  /\ Shutdown
  /\ Goes("shutdown", "idle", "drain")
  /\ stop' = TRUE
  /\ UNCHANGED <<closed, pump, turnVars, audioLeft, sockets, call>>

\* Mutant: the drain has no timeout.
DrainForever(c) ==
  /\ Goes(c, "drain", IF c = "run" THEN "cancel" ELSE "close")
  /\ queued = 0
  /\ drained' = [drained EXCEPT ![c] = "empty"]
  /\ UNCHANGED <<stop, closed, pump, turnVars, queued, stalled, sockets, call>>

\* The queue is empty, or the timeout strikes first.
Drain(c) ==
  /\ Goes(c, "drain", IF c = "run" THEN "cancel" ELSE "close")
  /\ \/ /\ queued = 0
        /\ drained' = [drained EXCEPT ![c] = "empty"]
     \/ /\ queued > 0
        /\ stalled \/ pump["outbound"] # "running"
        /\ drained' = [drained EXCEPT ![c] = "timeout"]
  /\ UNCHANGED <<stop, closed, pump, turnVars, queued, stalled, sockets, call>>

\* Pumps still running are cancelled where they are and awaited. An insert
\* that is cut off may have committed.
RunCancels ==
  /\ Goes("run", "cancel", "close")
  /\ pump' = [p \in Pumps |-> IF pump[p] = "running" THEN "cancelled" ELSE pump[p]]
  /\ storing' = 0
  /\ \/ /\ storing # 0
        /\ Store(storing)
        /\ UNCHANGED lost
     \/ /\ lost' = IF storing # 0 THEN lost \cup {storing} ELSE lost
        /\ UNCHANGED rows
  /\ UNCHANGED <<stop, closed, partial, flushing, begun, audioLeft, sockets, call>>

\* Mutant: aclose only closes.
AcloseUnflushed(c) ==
  \/ /\ closed
     /\ Goes(c, "close", "returned")
     /\ UNCHANGED <<closed, partial, flushing>>
  \/ /\ ~closed
     /\ closed' = TRUE
     /\ Goes(c, "close", "sockets")
     /\ UNCHANGED <<partial, flushing>>

\* aclose: the first caller claims the flag and flushes, the other returns.
Aclose(c) ==
  \/ /\ closed
     /\ Goes(c, "close", "returned")
     /\ UNCHANGED <<closed, partial, flushing>>
  \/ /\ ~closed
     /\ closed' = TRUE
     /\ Goes(c, "close", "flush")
     /\ partial' = 0
     /\ flushing' = [flushing EXCEPT ![c] = partial]

CloserCloses(c) ==
  /\ Aclose(c)
  /\ UNCHANGED <<stop, pump, storing, begun, rows, lost, audioLeft, sockets, call>>

\* Storing the last turn never raises out of the flush.
FlushPartialTurn(c) ==
  /\ Goes(c, "flush", "sockets")
  /\ flushing' = [flushing EXCEPT ![c] = 0]
  /\ LET t == flushing[c]
     IN  \/ /\ t # 0
            /\ Store(t)
            /\ UNCHANGED lost
         \/ /\ t = 0 \/ DbFails
            /\ lost' = IF t = 0 THEN lost ELSE lost \cup {t}
            /\ UNCHANGED rows
  /\ UNCHANGED <<stop, closed, pump, storing, partial, begun, audioLeft, sockets, call>>

CloseSockets(c) ==
  /\ Goes(c, "sockets", "returned")
  /\ sockets' = "closed"
  /\ UNCHANGED <<stop, closed, pump, turnVars, audioLeft, call>>

-----------------------------------------------------------------------------
(* The gateway *)

\* Leaving `async with realtime` closes the model's socket. When the final
\* UPDATE raises, nothing after it runs.
FinishCall ==
  /\ closer["run"] = "returned"
  /\ call = "live"
  /\ \/ call' = "finalised"
     \/ DbFails /\ call' = "unfinished"
  /\ sockets' = "closed"
  /\ UNCHANGED <<taskVars, turnVars, audioLeft>>

EnqueuePostCall ==
  /\ call = "finalised"
  /\ call' = "handed_off"
  /\ UNCHANGED <<taskVars, turnVars, audioLeft, sockets>>

-----------------------------------------------------------------------------

CloserStep(c) ==
  \/ Drain(c)
  \/ CloserCloses(c)
  \/ FlushPartialTurn(c)
  \/ CloseSockets(c)

HandlerStep == RunWakes \/ RunCancels \/ CloserStep("run") \/ FinishCall \/ EnqueuePostCall

LifeNext ==
  \/ SendAudio
  \/ TranscriptDelta
  \/ TranscriptDone
  \/ TurnStored
  \/ PumpOutbound
  \/ TwilioStalls
  \/ \E p \in Pumps : StoppingPumpEnds(p) \/ PumpFails(p) \/ PumpSeesStop(p)
  \/ HandlerStep
  \/ ShutdownBegins
  \/ CloserStep("shutdown")

\* The loop runs a task that can run; the drain has a timeout, the budget task
\* a tick, and Twilio writes that are not stalled complete.
LifeSpec ==
  /\ LifeInit
  /\ [][LifeNext]_lifeVars
  /\ WF_lifeVars(HandlerStep)
  /\ WF_lifeVars(PumpOutbound)
  /\ WF_lifeVars(PumpSeesStop("budget"))

-----------------------------------------------------------------------------
(* Properties *)

LifeTypeOK ==
  /\ stop \in BOOLEAN /\ closed \in BOOLEAN /\ stalled \in BOOLEAN
  /\ pump \in [Pumps -> {"running", "done", "cancelled"}]
  /\ storing \in 0..MaxTurns /\ partial \in 0..MaxTurns
  /\ queued \in 0..MaxQueue
  /\ sockets \in {"open", "closed"}
  /\ closer \in [Closers -> {"idle", "drain", "cancel", "close", "flush", "sockets", "returned"}]
  /\ flushing \in [Closers -> 0..MaxTurns]
  /\ call \in {"live", "finalised", "handed_off", "unfinished"}
  /\ begun \in 0..MaxTurns
  /\ rows \in [Turns -> Nat]
  /\ lost \subseteq Turns

\* "`aclose()` is idempotent, so calling this from a shutdown hook cannot
\* double-close or double-flush" (bridge.py:213-214), and a turn whose
\* transcript completed is not flushed again: no turn gets two rows.
TurnStoredOnce == \A t \in Turns : rows[t] <= 1

Over == call \in {"handed_off", "unfinished"}

\* Nobody is writing a turn any more.
Settled == Over /\ flushing = [c \in Closers |-> 0] /\ storing = 0

\* Every turn the agent began is stored unless its insert itself was cut off
\* or failed: the teardown drops no partial text, in whatever order run(),
\* shutdown() and the pumps get to it (bridge.py:245-260).
NoTurnForgotten == Settled => \A t \in 1..begun : rows[t] = 1 \/ t \in lost

\* "A frame already handed to us was, as far as the model is concerned, spoken"
\* (bridge.py:186-189): the sockets close on queued frames only after a drain
\* that timed out.
DrainBeforeClose ==
  sockets = "closed" /\ queued > 0 => \E c \in Closers : drained[c] = "timeout"

\* "A hung socket must not hold the call open" (bridge.py:74): once the stop
\* flag is set or a pump has ended, the row is finalised and the call handed
\* to the post-call worker, with a stalled Twilio socket too. Only the final
\* UPDATE failing stops it.
CallAlwaysHandedOff ==
  stop \/ (\E p \in Pumps : pump[p] = "done") ~> Over

\* "Without this a caller who hangs up mid-answer leaves a transcript that
\* stops one turn early" (bridge.py:248-249): with a database that works, no
\* turn of a call that is over is missing.
TranscriptComplete == Settled => \A t \in 1..begun : rows[t] = 1

\* Types, and every turn accounted for once the call is over (bridge.py:245-253).
TurnsAccounted == LifeTypeOK /\ NoTurnForgotten

=============================================================================
