------------------------------- MODULE Calls -------------------------------
(***************************************************************************)
(* The calls running author code: runner.py's _Calls and _Slot, do_POST    *)
(* from the moment a whole request has arrived, _run with the handler's    *)
(* thread, _answer, and main's stop, drain and exit.                       *)
(*                                                                         *)
(* Each call has two threads, the request's (req) and, once _run started   *)
(* it, the handler's (hdl).  A step is what a thread does under one hold   *)
(* of a lock, or between two points another thread can observe.            *)
(***************************************************************************)
EXTENDS Naturals, FiniteSets

CONSTANTS
  Call,    \* the requests that reach do_POST's admission over the process's life
  Limit,   \* contract.concurrency, or HARNESS_CONCURRENCY when none is declared
  Author   \* what the author's code may leave behind, a part of Outcome

(* What author code can leave behind: an output the contract admits, one   *)
(* it refuses, None from receipt_of, a HandlerFailure, any other exception.*)
Outcome == {"output", "spoiled", "absent", "failure", "error"}

ASSUME LimitAssumption == Limit \in Nat \ {0}
ASSUME AuthorAssumption == Author \subseteq Outcome

VARIABLES
  active,    \* _Calls._active
  stopping,  \* _Calls._stopping
  holders,   \* each call's _Slot._holders; 0 before admission
  req,       \* where each request's thread is
  hdl,       \* where each handler's thread is
  produced,  \* what _run's invoke() left in `produced`
  effect,    \* whether the handler's effect has committed (the author's world)
  answer,    \* the status of the call's _Answer
  sent,      \* what became of that answer on the wire
  main,      \* where the main thread is
  notified,  \* the drain's condition variable was notified since it last waited
  remaining  \* what drain() returned

callVars == <<holders, req, hdl, produced, effect, answer, sent>>
mainVars == <<main, remaining>>
vars == <<active, stopping, callVars, mainVars, notified>>

(***************************************************************************)
(* The request's thread.  "read": the body has been read off the socket.   *)
(* "decode" waits for the decoding lock, "decoding" holds it.  "run" has a *)
(* call to serve, "start" has taken the handler's hold, "join" waits for   *)
(* the handler.  "answer" has an _Answer to send under its slot and        *)
(* "refused" one to send without.  "release" and "free" are the two locks  *)
(* _Slot.release takes one after the other.                                *)
(***************************************************************************)
ReqPc == {"read", "decode", "decoding", "run", "start", "join",
          "answer", "refused", "release", "free", "done"}

(* The handler's thread.  It is alive until "ended", past its last lock.   *)
HdlPc == {"none", "running", "release", "free", "ending", "ended"}

Status == {200, 400, 404, 422, 500, 503, 504}

MainPc == {"serving", "stopped", "draining", "waiting", "drained", "exited"}

(* A slot is occupied from admission until whoever let go last freed it.   *)
Occupied == {c \in Call : holders[c] > 0 \/ req[c] = "free" \/ hdl[c] = "free"}

Alive == main # "exited"

Init ==
  /\ active = 0
  /\ stopping = FALSE
  /\ holders = [c \in Call |-> 0]
  /\ req = [c \in Call |-> "read"]
  /\ hdl = [c \in Call |-> "none"]
  /\ produced = [c \in Call |-> "nothing"]
  /\ effect = [c \in Call |-> FALSE]
  /\ answer = [c \in Call |-> 0]
  /\ sent = [c \in Call |-> "no"]
  /\ main = "serving"
  /\ notified = FALSE
  /\ remaining = 0

(* Variants of the operations, each with one plausible mistake, stand      *)
(* before the operation they vary; no specification uses them.             *)
AdmitPastStop == active < Limit
AdmitOneTooMany == ~stopping /\ active <= Limit

(***************************************************************************)
(* Admission                                                               *)
(***************************************************************************)
MayAdmit == ~stopping /\ active < Limit

Admit(c) ==
  /\ req[c] = "read" /\ MayAdmit
  /\ active' = active + 1
  /\ holders' = [holders EXCEPT ![c] = 1]
  /\ req' = [req EXCEPT ![c] = "decode"]
  /\ UNCHANGED <<stopping, hdl, produced, effect, answer, sent, notified, mainVars>>

Refuse(c) ==
  /\ req[c] = "read" /\ ~MayAdmit
  /\ answer' = [answer EXCEPT ![c] = 503]
  /\ req' = [req EXCEPT ![c] = "refused"]
  /\ UNCHANGED <<active, stopping, holders, hdl, produced, effect, sent, notified, mainVars>>

(***************************************************************************)
(* Decoding, one call at a time, and starting the handler                  *)
(***************************************************************************)
Reply(c, status) ==
  /\ answer' = [answer EXCEPT ![c] = status]
  /\ req' = [req EXCEPT ![c] = "answer"]

TakeDecoder(c) ==
  /\ req[c] = "decode"
  /\ \A d \in Call : req[d] # "decoding"
  /\ req' = [req EXCEPT ![c] = "decoding"]
  /\ UNCHANGED <<active, stopping, holders, hdl, produced, effect, answer, sent, notified, mainVars>>

(* The document is a call, is refused, or cannot even be refused politely  *)
(* (do_POST's `except Exception`).                                         *)
Decode(c) ==
  /\ req[c] = "decoding"
  /\ \/ req' = [req EXCEPT ![c] = "run"] /\ UNCHANGED answer
     \/ \E status \in {400, 500} : Reply(c, status)
  /\ UNCHANGED <<active, stopping, holders, hdl, produced, effect, sent, notified, mainVars>>

HoldForgotten(c) ==
  /\ req[c] = "run"
  /\ req' = [req EXCEPT ![c] = "start"]
  /\ UNCHANGED <<active, stopping, holders, hdl, produced, effect, answer, sent, notified, mainVars>>

Hold(c) ==
  /\ req[c] = "run"
  /\ holders' = [holders EXCEPT ![c] = @ + 1]
  /\ req' = [req EXCEPT ![c] = "start"]
  /\ UNCHANGED <<active, stopping, hdl, produced, effect, answer, sent, notified, mainVars>>

Start(c) ==
  /\ req[c] = "start"
  /\ hdl' = [hdl EXCEPT ![c] = "running"]
  /\ req' = [req EXCEPT ![c] = "join"]
  /\ UNCHANGED <<active, stopping, holders, produced, effect, answer, sent, notified, mainVars>>

StartFailsReleasingBoth(c) ==
  /\ req[c] = "start"
  /\ holders' = [holders EXCEPT ![c] = @ - 2]
  /\ Reply(c, 500)
  /\ UNCHANGED <<active, stopping, hdl, produced, effect, sent, notified, mainVars>>

(* worker.start() raised: the hold of the thread that never ran is let go  *)
(* here, and the request's own is still there, so nothing is freed.        *)
StartFails(c) ==
  /\ req[c] = "start"
  /\ holders' = [holders EXCEPT ![c] = @ - 1]
  /\ Reply(c, 500)
  /\ UNCHANGED <<active, stopping, hdl, produced, effect, sent, notified, mainVars>>

(***************************************************************************)
(* The handler's thread: author code, then invoke()'s `finally`            *)
(***************************************************************************)
Commit(c) ==
  /\ hdl[c] = "running"
  /\ effect' = [effect EXCEPT ![c] = TRUE]
  /\ UNCHANGED <<active, stopping, holders, req, hdl, produced, answer, sent, notified, mainVars>>

(* The obligations environment.md and HandlerFailure put on author code:   *)
(* a result is returned once the effect has committed, and HandlerFailure  *)
(* is raised only when none did.  Anything else promises nothing.          *)
Honest(c, outcome) ==
  /\ outcome \in {"output", "spoiled"} => effect[c]
  /\ outcome \in {"failure"} => ~effect[c]

Return(c) ==
  /\ hdl[c] = "running"
  /\ \E outcome \in Author :
       /\ Honest(c, outcome)
       /\ produced' = [produced EXCEPT ![c] = outcome]
  /\ hdl' = [hdl EXCEPT ![c] = "release"]
  /\ UNCHANGED <<active, stopping, holders, req, effect, answer, sent, notified, mainVars>>

(* _Slot.release under the slot's lock; whoever brings it to zero frees.   *)
HandlerRelease(c) ==
  /\ hdl[c] = "release"
  /\ holders' = [holders EXCEPT ![c] = @ - 1]
  /\ hdl' = [hdl EXCEPT ![c] = IF holders[c] = 1 THEN "free" ELSE "ending"]
  /\ UNCHANGED <<active, stopping, req, produced, effect, answer, sent, notified, mainVars>>

FreeSlotUnnotified == active' = active - 1 /\ UNCHANGED notified

(* _Calls._free: one decrement under the calls' lock, and a notification.  *)
FreeSlot ==
  /\ active' = active - 1
  /\ notified' = (notified \/ main = "waiting")

HandlerFree(c) ==
  /\ hdl[c] = "free"
  /\ FreeSlot
  /\ hdl' = [hdl EXCEPT ![c] = "ending"]
  /\ UNCHANGED <<stopping, holders, req, produced, effect, answer, sent, mainVars>>

HandlerEnds(c) ==
  /\ hdl[c] = "ending"
  /\ hdl' = [hdl EXCEPT ![c] = "ended"]
  /\ UNCHANGED <<active, stopping, holders, req, produced, effect, answer, sent, notified, mainVars>>

StatusOfAnyError(outcome) ==
  IF outcome = "output" THEN 200 ELSE IF outcome = "absent" THEN 404 ELSE 422

StatusOf(outcome) ==
  IF outcome = "output" THEN 200
  ELSE IF outcome = "absent" THEN 404
  ELSE IF outcome = "failure" THEN 422
  ELSE 500

JudgeWithoutDeadline(c) ==
  /\ req[c] = "join" /\ hdl[c] = "ended"
  /\ Reply(c, StatusOf(produced[c]))
  /\ UNCHANGED <<active, stopping, holders, hdl, produced, effect, sent, notified, mainVars>>

(* join() returns when the handler's thread has ended or when the budget   *)
(* has passed, which it may at any moment; is_alive() decides after it.    *)
Judge(c) ==
  /\ req[c] = "join"
  /\ Reply(c, IF hdl[c] # "ended" THEN 504 ELSE StatusOf(produced[c]))
  /\ UNCHANGED <<active, stopping, holders, hdl, produced, effect, sent, notified, mainVars>>

(* The text of these answers comes from author code or from the request,   *)
(* and is rendered only now: rendering it may itself raise.                *)
Renderable(status) == status \notin {400, 422, 500}

(* A code that is no longer the one that was checked asserts nothing, so a *)
(* 422 may yet become a 500.  "written" is all the harness can know: a     *)
(* peer that left or stalled past WRITE_STALL_SECONDS loses the answer and *)
(* the thread goes on as if it had not.                                    *)
Send(c) ==
  /\ req[c] \in {"answer", "refused"}
  /\ \E status \in {answer[c]} \cup (IF answer[c] = 422 THEN {500} ELSE {}) :
       answer' = [answer EXCEPT ![c] = status]
  /\ \E result \in {"written"} \cup (IF Renderable(answer[c]) THEN {} ELSE {"raised"}) :
       sent' = [sent EXCEPT ![c] = result]
  /\ req' = [req EXCEPT ![c] = IF @ = "answer" THEN "release" ELSE "done"]
  /\ UNCHANGED <<active, stopping, holders, hdl, produced, effect, notified, mainVars>>

ReleaseAlwaysFrees(c) ==
  /\ req[c] = "release"
  /\ holders' = [holders EXCEPT ![c] = @ - 1]
  /\ req' = [req EXCEPT ![c] = "free"]
  /\ UNCHANGED <<active, stopping, hdl, produced, effect, answer, sent, notified, mainVars>>

ReleaseSkippedOnFailure(c) ==
  /\ req[c] = "release"
  /\ holders' = [holders EXCEPT ![c] = IF sent[c] = "raised" THEN @ ELSE @ - 1]
  /\ req' = [req EXCEPT ![c] = IF sent[c] # "raised" /\ holders[c] = 1 THEN "free" ELSE "done"]
  /\ UNCHANGED <<active, stopping, hdl, produced, effect, answer, sent, notified, mainVars>>

Release(c) ==
  /\ req[c] = "release"
  /\ holders' = [holders EXCEPT ![c] = @ - 1]
  /\ req' = [req EXCEPT ![c] = IF holders[c] = 1 THEN "free" ELSE "done"]
  /\ UNCHANGED <<active, stopping, hdl, produced, effect, answer, sent, notified, mainVars>>

Free(c) ==
  /\ req[c] = "free"
  /\ FreeSlot
  /\ req' = [req EXCEPT ![c] = "done"]
  /\ UNCHANGED <<stopping, holders, hdl, produced, effect, answer, sent, mainVars>>

(***************************************************************************)
(* The main thread: a signal, the drain, the exit                          *)
(***************************************************************************)
Stop ==
  /\ main = "serving"
  /\ stopping' = TRUE
  /\ main' = "stopped"
  /\ UNCHANGED <<active, callVars, remaining, notified>>

(* server.shutdown() on its own thread ended serve_forever.                *)
ServingEnds ==
  /\ main = "stopped"
  /\ main' = "draining"
  /\ UNCHANGED <<active, stopping, callVars, remaining, notified>>

(* wait_for evaluates its predicate under the lock, before every wait and  *)
(* after it.                                                               *)
DrainChecks ==
  /\ main = "draining" \/ (main = "waiting" /\ notified)
  /\ main' = IF active = 0 THEN "drained" ELSE "waiting"
  /\ notified' = FALSE
  /\ UNCHANGED <<active, stopping, callVars, remaining>>

GraceWithoutEnd ==
  /\ main = "waiting" /\ active = 0
  /\ remaining' = active
  /\ main' = "drained"
  /\ notified' = FALSE
  /\ UNCHANGED <<active, stopping, callVars>>

GraceEnds ==
  /\ main = "waiting"
  /\ remaining' = active
  /\ main' = "drained"
  /\ notified' = FALSE
  /\ UNCHANGED <<active, stopping, callVars>>

(* An ordinary interpreter exit when nothing remained, os._exit(1) when    *)
(* something did: either way no thread takes another step.                 *)
Exit ==
  /\ main = "drained"
  /\ main' = "exited"
  /\ UNCHANGED <<active, stopping, callVars, remaining, notified>>

ExitCode == IF remaining > 0 THEN 1 ELSE 0

(***************************************************************************)
(* The specification                                                       *)
(***************************************************************************)
(* The steps the harness itself owes; author code is left out on purpose.  *)
RequestStep(c) ==
  \/ Admit(c) \/ Refuse(c) \/ TakeDecoder(c) \/ Decode(c)
  \/ Hold(c) \/ Start(c) \/ StartFails(c)
  \/ Judge(c) \/ Send(c) \/ Release(c) \/ Free(c)

WorkerStep(c) == HandlerRelease(c) \/ HandlerFree(c) \/ HandlerEnds(c)

AuthorStep(c) == Commit(c) \/ Return(c)

DrainStep == ServingEnds \/ DrainChecks \/ GraceEnds \/ Exit

Exited == ~Alive /\ UNCHANGED vars

Next ==
  \/ /\ Alive
     /\ \/ \E c \in Call : RequestStep(c) \/ WorkerStep(c) \/ AuthorStep(c)
        \/ Stop \/ DrainStep
  \/ Exited

Spec == Init /\ [][Next]_vars

(* Threads are scheduled and timeouts pass, so the harness's own steps are *)
(* weakly fair.  No handler has to return and no signal has to come.       *)
Fairness ==
  /\ \A c \in Call : WF_vars(Alive /\ RequestStep(c)) /\ WF_vars(Alive /\ WorkerStep(c))
  /\ WF_vars(Alive /\ DrainStep)

FairSpec == Spec /\ Fairness

(***************************************************************************)
(* Properties                                                              *)
(***************************************************************************)
(* Every variable stays in the range the code gives it.                    *)
TypeOK ==
  /\ active \in Nat
  /\ stopping \in BOOLEAN
  /\ holders \in [Call -> Nat]
  /\ req \in [Call -> ReqPc]
  /\ hdl \in [Call -> HdlPc]
  /\ produced \in [Call -> Outcome \cup {"nothing"}]
  /\ effect \in [Call -> BOOLEAN]
  /\ answer \in [Call -> Status \cup {0}]
  /\ sent \in [Call -> {"no", "written", "raised"}]
  /\ main \in MainPc
  /\ notified \in BOOLEAN
  /\ remaining \in Nat

Running == {c \in Call : hdl[c] = "running"}

(* _active counts exactly the slots that are taken, and of each that is, a *)
(* thread has yet to let go: no slot is leaked, freed twice or counted     *)
(* late, whichever thread lets go last and also if the second never ran.   *)
SlotAccounting ==
  /\ active = Cardinality(Occupied)
  /\ \A c \in Occupied : req[c] \notin {"read", "refused", "done"} \/ hdl[c] \in {"running", "release", "free"}

(* The bound is on author code running, not on calls being answered        *)
(* (_Slot's docstring): a handler past its deadline still counts.          *)
ConcurrencyBound == Cardinality(Running) <= Limit

(* Exit code 0 is only reached with every handler returned and every       *)
(* admitted call answered, or its peer lost: the drain misses no call.     *)
CleanExit ==
  (main \in {"drained", "exited"} /\ ExitCode = 0)
    => \A c \in Call : hdl[c] \in {"none", "ending", "ended"} /\ req[c] \in {"read", "refused", "done"}

(* The drain never sleeps on a count that already reached zero without a   *)
(* notification on its way: it ends as soon as the last handler returned.  *)
DrainIsWoken == main = "waiting" /\ ~notified => active > 0

(* protocol.md's table "What an answer proves": 200 means the effect has   *)
(* committed and 422 that it has not and never will; 400 and 503 that the  *)
(* handler was never reached and never will be.                            *)
AnswerProves ==
  \A c \in Call : sent[c] # "no" =>
    /\ answer[c] = 200 => effect[c]
    /\ answer[c] = 422 => ~effect[c] /\ hdl[c] = "ended"
    /\ answer[c] \in {400, 503} => ~effect[c] /\ hdl[c] = "none"

(***************************************************************************)
(* The inductive invariant behind the safety properties                    *)
(***************************************************************************)
RequestHolds(c) == req[c] \in {"decode", "decoding", "run", "start", "join", "answer", "release"}
HandlerHolds(c) == req[c] = "start" \/ hdl[c] \in {"running", "release"}

(* A slot counts its holders one by one, and only the last to let go frees.*)
HolderInv(c) ==
  /\ holders[c] = (IF RequestHolds(c) THEN 1 ELSE 0) + (IF HandlerHolds(c) THEN 1 ELSE 0)
  /\ req[c] \in {"read", "refused", "decode", "decoding", "run", "start"} => hdl[c] = "none"
  /\ req[c] = "join" => hdl[c] # "none"
  /\ req[c] = "free" => hdl[c] \in {"none", "ending", "ended"}
  /\ hdl[c] = "free" => req[c] = "done"

(* What a call's answer rests on, from the handler's return to the wire.   *)
AnswerInv(c) ==
  /\ hdl[c] \in {"none", "running"} <=> produced[c] = "nothing"
  /\ hdl[c] = "none" => ~effect[c]
  /\ produced[c] = "output" => effect[c]
  /\ produced[c] = "failure" => ~effect[c]
  /\ answer[c] = 200 => effect[c]
  /\ answer[c] = 422 => ~effect[c] /\ hdl[c] = "ended"
  /\ answer[c] \in {400, 503} => hdl[c] = "none" /\ req[c] \notin {"read", "decode", "decoding", "run", "start"}
  /\ answer[c] = 503 => req[c] \in {"refused", "done"}

(* The count is the occupied slots, and never over the bound.              *)
CountInv ==
  /\ IsFiniteSet(Occupied)
  /\ active = Cardinality(Occupied)
  /\ active <= Limit

(* Past the signal nothing enters, so a drained process stays drained.     *)
DrainInv ==
  /\ main # "serving" => stopping
  /\ main \notin {"drained", "exited"} => remaining = 0
  /\ main \in {"drained", "exited"} /\ remaining = 0 => active = 0
  /\ DrainIsWoken

IInv ==
  /\ TypeOK
  /\ \A c \in Call : HolderInv(c) /\ AnswerInv(c)
  /\ CountInv
  /\ DrainInv

(* The threads, slots and locks implement the admission _Calls promises:   *)
(* a call is inside exactly while its slot is occupied.                    *)
Promise == INSTANCE Admission WITH
  inside  <- Occupied,
  gone    <- {c \in Call : req[c] # "read" /\ answer[c] # 503} \ Occupied,
  refused <- {c \in Call : answer[c] = 503},
  closed  <- stopping,
  ended   <- IF Alive THEN "no" ELSE IF ExitCode = 0 THEN "clean" ELSE "cut"

ImplementsAdmission == Promise!FairSpec

(* Whatever the handler does, an admitted call's request comes to an end.  *)
AdmittedEnds ==
  \A c \in Call : req[c] = "decode" ~> (req[c] = "done" \/ ~Alive)

(* A handler that returns gives its slot back, even one answered long ago. *)
SlotComesBack ==
  \A c \in Call : hdl[c] = "release" ~> (c \notin Occupied \/ ~Alive)

(* After a signal the process ends, however long handlers run.             *)
StopEnds == stopping ~> ~Alive
=============================================================================
