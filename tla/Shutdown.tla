----------------------------- MODULE Shutdown -----------------------------
(***************************************************************************)
(* How a signal reaches the drain: main()'s stop handler, the Event it     *)
(* sets, _Calls.stop, the thread that calls server.shutdown, and the       *)
(* serving loop it ends.                                                   *)
(*                                                                         *)
(* CPython runs a signal's handler on the main thread between any two of   *)
(* its bytecodes, those of a handler included, so handlers nest; the main  *)
(* thread's own code goes on only when every one of them has returned.     *)
(***************************************************************************)
EXTENDS Naturals, Sequences

CONSTANT MaxSignals   \* signals delivered to the process: a bound on the model

ASSUME MaxSignalsAssumption == MaxSignals \in Nat

VARIABLES
  signals,   \* signals delivered so far
  frames,    \* the handlers on the main thread's stack, the innermost last
  flag,      \* stopping._flag, the Event's
  lock,      \* stopping._cond's lock is held; it is not reentrant
  stopped,   \* calls._stopping
  shutters,  \* threads started on server.shutdown that have not run it
  request,   \* the server's __shutdown_request
  main       \* where the main thread's own code is

vars == <<signals, frames, flag, lock, stopped, shutters, request, main>>

(* stop(): "check" the Event, then set it ("lock", "flag", "unlock"), then *)
(* "calls" closes admission and "spawn" starts the shutdown thread.        *)
(* "starting" is past signal.signal and before serve_forever; the loop     *)
(* waits in "select"; "raised" is an exception out of the handler.         *)

Serving == main \in {"starting", "select", "handle", "ended"}
Handling == frames # <<>>
Top == frames[Len(frames)]
Return == frames' = SubSeq(frames, 1, Len(frames) - 1)
GoOn(to) == frames' = [frames EXCEPT ![Len(frames)] = to]

Init ==
  /\ signals = 0
  /\ frames = <<>>
  /\ flag = FALSE /\ lock = FALSE /\ stopped = FALSE
  /\ shutters = 0
  /\ request = FALSE
  /\ main = "starting"

(* A signal: its handler runs on top of whatever the main thread was in.   *)
Signal ==
  /\ signals < MaxSignals /\ main # "raised"
  /\ signals' = signals + 1
  /\ frames' = Append(frames, "check")
  /\ UNCHANGED <<flag, lock, stopped, shutters, request, main>>

(***************************************************************************)
(* stop(), one frame of it.  A definition may be preceded by a variant     *)
(* with one plausible mistake; no specification uses the variant.          *)
(***************************************************************************)
Check ==
  /\ Handling /\ Top = "check"
  /\ IF flag THEN Return ELSE GoOn("lock")
  /\ UNCHANGED <<signals, flag, lock, stopped, shutters, request, main>>

TakeLock ==
  /\ Handling /\ Top = "lock" /\ ~lock
  /\ lock' = TRUE
  /\ GoOn("flag")
  /\ UNCHANGED <<signals, flag, stopped, shutters, request, main>>

SetFlag ==
  /\ Handling /\ Top = "flag"
  /\ flag' = TRUE
  /\ GoOn("unlock")
  /\ UNCHANGED <<signals, lock, stopped, shutters, request, main>>

Unlock ==
  /\ Handling /\ Top = "unlock"
  /\ lock' = FALSE
  /\ GoOn("calls")
  /\ UNCHANGED <<signals, flag, stopped, shutters, request, main>>

StopCallsLater ==
  /\ Handling /\ Top = "calls"
  /\ GoOn("spawn")
  /\ UNCHANGED <<signals, flag, lock, stopped, shutters, request, main>>

StopCallsAlone ==
  /\ Handling /\ Top = "calls"
  /\ stopped' = TRUE
  /\ Return
  /\ UNCHANGED <<signals, flag, lock, shutters, request, main>>

StopCalls ==
  /\ Handling /\ Top = "calls"
  /\ stopped' = TRUE
  /\ GoOn("spawn")
  /\ UNCHANGED <<signals, flag, lock, shutters, request, main>>

Spawn ==
  /\ Handling /\ Top = "spawn"
  /\ shutters' = shutters + 1
  /\ Return
  /\ UNCHANGED <<signals, flag, lock, stopped, request, main>>

(* Thread.start raised: the exception leaves every handler and the serving *)
(* loop, and main() with it.                                               *)
SpawnRaises ==
  /\ Handling /\ Top = "spawn"
  /\ frames' = <<>>
  /\ main' = "raised"
  /\ UNCHANGED <<signals, flag, lock, stopped, shutters, request>>

HandlerStep == Check \/ TakeLock \/ SetFlag \/ Unlock \/ StopCalls \/ Spawn \/ SpawnRaises

(***************************************************************************)
(* server.shutdown on its thread, and the serving loop on the main thread  *)
(***************************************************************************)
Shut ==
  /\ shutters > 0 /\ main # "raised"
  /\ shutters' = shutters - 1
  /\ request' = TRUE
  /\ UNCHANGED <<signals, frames, flag, lock, stopped, main>>

(* serve_forever begins: a shutdown requested before it is not forgotten.  *)
Serve ==
  /\ ~Handling /\ main = "starting"
  /\ main' = IF request THEN "ended" ELSE "select"
  /\ UNCHANGED <<signals, frames, flag, lock, stopped, shutters, request>>

(* select returns, with a connection or after the poll interval, and the   *)
(* request is looked at before anything is accepted.                       *)
Poll ==
  /\ ~Handling /\ main = "select"
  /\ main' \in IF request THEN {"ended"} ELSE {"handle", "select"}
  /\ UNCHANGED <<signals, frames, flag, lock, stopped, shutters, request>>

(* Accept a connection and hand it to its thread, then the loop's test.    *)
Handle ==
  /\ ~Handling /\ main = "handle"
  /\ main' = IF request THEN "ended" ELSE "select"
  /\ UNCHANGED <<signals, frames, flag, lock, stopped, shutters, request>>

(* serve_forever's `finally`, server_close, and on to the drain.           *)
ServingEnds ==
  /\ ~Handling /\ main = "ended"
  /\ request' = FALSE
  /\ main' = "draining"
  /\ UNCHANGED <<signals, frames, flag, lock, stopped, shutters>>

LoopStep == Serve \/ Poll \/ Handle \/ ServingEnds

(* The main thread waits for a lock it holds itself.                       *)
Stuck == Handling /\ Top = "lock" /\ lock

(* Where this model has nothing more to do; any other halt is a deadlock.  *)
Settled == (main \in {"draining", "raised"} \/ Stuck) /\ UNCHANGED vars

Next == Signal \/ HandlerStep \/ Shut \/ LoopStep \/ Settled

Spec == Init /\ [][Next]_vars

(* The main thread and the shutdown thread run; no signal has to come.     *)
FairSpec == Spec /\ WF_vars(HandlerStep) /\ WF_vars(Shut) /\ WF_vars(LoopStep)

(***************************************************************************)
(* Properties                                                              *)
(***************************************************************************)
(* A stop begun is carried out: where the Event is set, admission is       *)
(* closed or a handler on the stack is about to close it, so that a second *)
(* handler may leave it to the first; and the drain begins only once it is *)
(* closed: drain() counts every call there will be.                        *)
FlagIsCarried == \E i \in 1..Len(frames) : frames[i] \in {"unlock", "calls"}
DrainAfterStop ==
  /\ flag /\ ~stopped => FlagIsCarried
  /\ main = "draining" => stopped

(* A signal ends the serving loop, also one that came before the loop did; *)
(* nothing but a handler inside Event.set or a failed start prevents it.   *)
SignalStopsOrNested == signals > 0 ~> main \in {"draining", "raised"} \/ Stuck

(* protocol.md: "A signal stops the harness taking new calls".             *)
SignalStops == signals > 0 ~> stopped
=============================================================================
