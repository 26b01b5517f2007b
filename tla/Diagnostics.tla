---------------------------- MODULE Diagnostics ----------------------------
(***************************************************************************)
(* The harness's own diagnostics: runner.py's _Diagnostics.  Any thread    *)
(* says a message and must never wait on stderr; one writer thread writes  *)
(* a bounded queue of them to a descriptor nobody may be reading; close    *)
(* gives the writer a bounded time at exit.                                *)
(***************************************************************************)
EXTENDS Naturals, Sequences, FiniteSets

CONSTANTS
  Message,   \* what is said, each by a thread of its own
  Count,     \* close()'s own message: how many were dropped
  Capacity   \* of the queue: 1024

ASSUME CapacityAssumption == Capacity \in Nat \ {0}
ASSUME CountAssumption == Count \notin Message

VARIABLES
  queue,     \* _queue
  dropped,   \* _dropped
  closing,   \* _closing is set
  sayer,     \* where the thread that says each message is
  writer,    \* where the writer is
  hand,      \* what it took off the queue: <<>> or one message
  main,      \* where close() is
  taken,     \* the count close() took
  accepted,  \* every message the queue ever took, in order (history)
  done,      \* every message written, or given up on by the stream, in order
  mark       \* how many the queue had taken when _closing was set (history)

sayVars == <<queue, accepted>>
vars == <<queue, dropped, closing, sayer, writer, hand, main, taken, accepted, done, mark>>

Init ==
  /\ queue = <<>> /\ accepted = <<>> /\ done = <<>> /\ hand = <<>>
  /\ dropped = 0 /\ taken = 0 /\ mark = 0
  /\ closing = FALSE
  /\ sayer = [m \in Message |-> "silent"]
  /\ writer = "check"
  /\ main = "serving"

(* put_nowait, where there is room.                                        *)
Put(m) ==
  /\ Len(queue) < Capacity
  /\ queue' = Append(queue, m)
  /\ accepted' = Append(accepted, m)

(***************************************************************************)
(* A definition may be preceded by a variant with one plausible mistake;   *)
(* no specification uses the variant.                                      *)
(*                                                                         *)
(* say(), on any thread: the queue is tried, and past its bound the        *)
(* message is counted under another lock, later.                           *)
(***************************************************************************)
SayWaiting(m) ==
  /\ sayer[m] = "silent"
  /\ Put(m)
  /\ sayer' = [sayer EXCEPT ![m] = "said"]
  /\ UNCHANGED <<dropped, closing, writer, hand, main, taken, done, mark>>

Say(m) ==
  /\ sayer[m] = "silent"
  /\ \/ Put(m) /\ sayer' = [sayer EXCEPT ![m] = "said"]
     \/ /\ Len(queue) = Capacity
        /\ sayer' = [sayer EXCEPT ![m] = "full"]
        /\ UNCHANGED sayVars
  /\ UNCHANGED <<dropped, closing, writer, hand, main, taken, done, mark>>

CountDropped(m) ==
  /\ sayer[m] = "full"
  /\ dropped' = dropped + 1
  /\ sayer' = [sayer EXCEPT ![m] = "said"]
  /\ UNCHANGED <<queue, accepted, closing, writer, hand, main, taken, done, mark>>

(***************************************************************************)
(* The writer                                                              *)
(***************************************************************************)
CheckClosingOnly ==
  /\ writer = "check"
  /\ writer' = IF closing THEN "ended" ELSE "get"
  /\ UNCHANGED <<queue, accepted, dropped, closing, sayer, hand, main, taken, done, mark>>

Check ==
  /\ writer = "check"
  /\ writer' = IF closing /\ queue = <<>> THEN "ended" ELSE "get"
  /\ UNCHANGED <<queue, accepted, dropped, closing, sayer, hand, main, taken, done, mark>>

(* get(timeout=0.05): a message, or back to the check.                     *)
Get ==
  /\ writer = "get"
  /\ IF queue = <<>>
     THEN writer' = "check" /\ UNCHANGED <<queue, hand>>
     ELSE /\ hand' = <<Head(queue)>>
          /\ queue' = Tail(queue)
          /\ writer' = "write"
  /\ UNCHANGED <<accepted, dropped, closing, sayer, main, taken, done, mark>>

WritePutsBack ==
  /\ writer = "write"
  /\ \/ done' = done \o hand /\ UNCHANGED queue
     \/ queue' = queue \o hand /\ UNCHANGED done
  /\ hand' = <<>>
  /\ writer' = "check"
  /\ UNCHANGED <<accepted, dropped, closing, sayer, main, taken, mark>>

(* os.write until it is all out, or an OSError, which is let go: either    *)
(* way the message is done with.  It may as well block for ever.           *)
Write ==
  /\ writer = "write"
  /\ done' = done \o hand
  /\ hand' = <<>>
  /\ writer' = "check"
  /\ UNCHANGED <<queue, accepted, dropped, closing, sayer, main, taken, mark>>

(***************************************************************************)
(* close(), on the main thread                                             *)
(***************************************************************************)
TakeCountKeepingIt ==
  /\ main = "serving"
  /\ taken' = dropped
  /\ main' = IF dropped > 0 THEN "say" ELSE "set"
  /\ UNCHANGED <<queue, accepted, dropped, closing, sayer, writer, hand, done, mark>>

TakeCount ==
  /\ main = "serving"
  /\ taken' = dropped
  /\ dropped' = 0
  /\ main' = IF dropped > 0 THEN "say" ELSE "set"
  /\ UNCHANGED <<queue, accepted, closing, sayer, writer, hand, done, mark>>

(* Said like any other message, so dropped like any other on a full queue. *)
SayCount ==
  /\ main = "say"
  /\ \/ Put(Count) /\ main' = "set"
     \/ Len(queue) = Capacity /\ main' = "full" /\ UNCHANGED sayVars
  /\ UNCHANGED <<dropped, closing, sayer, writer, hand, taken, done, mark>>

CountDroppedCount ==
  /\ main = "full"
  /\ dropped' = dropped + 1
  /\ main' = "set"
  /\ UNCHANGED <<queue, accepted, closing, sayer, writer, hand, taken, done, mark>>

SetClosing ==
  /\ main = "set"
  /\ closing' = TRUE
  /\ mark' = Len(accepted)
  /\ main' = "join"
  /\ UNCHANGED <<queue, accepted, dropped, sayer, writer, hand, taken, done>>

JoinForever ==
  /\ main = "join" /\ writer = "ended"
  /\ main' = "closed"
  /\ UNCHANGED <<queue, accepted, dropped, closing, sayer, writer, hand, taken, done, mark>>

(* The writer has ended, or CLOSE_SECONDS passed.                          *)
Join ==
  /\ main = "join"
  /\ main' = "closed"
  /\ UNCHANGED <<queue, accepted, dropped, closing, sayer, writer, hand, taken, done, mark>>

(***************************************************************************)
(* The specification: the process ends once close has returned             *)
(***************************************************************************)
Alive == main # "closed"

SayStep(m) == Say(m) \/ CountDropped(m)
CloseStep == SayCount \/ CountDroppedCount \/ SetClosing \/ Join

Next ==
  \/ /\ Alive
     /\ \/ \E m \in Message : SayStep(m)
        \/ Check \/ Get \/ Write
        \/ TakeCount \/ CloseStep
  \/ ~Alive /\ UNCHANGED vars

Spec == Init /\ [][Next]_vars

(* Threads run and join's timeout passes.  The stream owes nothing.        *)
FairSpec ==
  /\ Spec
  /\ \A m \in Message : WF_vars(Alive /\ SayStep(m))
  /\ WF_vars(Alive /\ CloseStep)

(***************************************************************************)
(* Properties                                                              *)
(***************************************************************************)
(* Every variable stays in range; the queue stays under its bound.         *)
TypeOK ==
  /\ queue \in Seq(Message \cup {Count}) /\ Len(queue) <= Capacity
  /\ accepted \in Seq(Message \cup {Count}) /\ done \in Seq(Message \cup {Count})
  /\ hand \in Seq(Message \cup {Count}) /\ Len(hand) <= 1
  /\ dropped \in Nat /\ taken \in Nat /\ mark \in Nat /\ closing \in BOOLEAN
  /\ sayer \in [Message -> {"silent", "full", "said"}]
  /\ writer \in {"check", "get", "write", "ended"}
  /\ main \in {"serving", "say", "full", "set", "join", "closed"}

Offered == Cardinality({m \in Message : sayer[m] # "silent"})
           + (IF main \in {"full", "set", "join", "closed"} /\ taken > 0 THEN 1 ELSE 0)
BeingCounted == Cardinality({m \in Message : sayer[m] = "full"}) + (IF main = "full" THEN 1 ELSE 0)

(* No message vanishes: each that was ever said was taken by the queue, is *)
(* counted, or is about to be, whatever close() does to the count.         *)
NothingVanishes == Offered = Len(accepted) + BeingCounted + dropped + taken

(* Seen without its threads and locks, the writer is a bounded buffer: it  *)
(* keeps order, loses only where it may not wait, counts what it lost, and *)
(* ends only empty.                                                        *)
Promise == INSTANCE Buffer WITH
  said    <- {m \in Message : sayer[m] # "silent"}
             \cup IF main \in {"full", "set", "join", "closed"} /\ taken > 0 THEN {Count} ELSE {},
  waiting <- hand \o queue,
  written <- done,
  lost    <- BeingCounted + dropped + taken,
  closed  <- closing,
  drained <- writer = "ended",
  over    <- main = "closed"

ImplementsBuffer == Promise!Spec

(* The writer ends only after everything the queue took before close()     *)
(* set the flag: a close that joined it lost nothing it had been given.    *)
WriterEndsDrained == writer = "ended" => Len(done) >= mark

(* A thread that says something never waits for the stream to be read.     *)
SayNeverWaits == \A m \in Message : sayer[m] # "said" ~> (sayer[m] = "said" \/ ~Alive)

(* Nor does the exit: close returns whatever the stream does.              *)
CloseReturns == main = "say" \/ main = "set" ~> ~Alive

(* protocol.md: "Past 1,024 queued diagnostics a new one is dropped and    *)
(* counted, and the count is written at exit if the stream then accepts    *)
(* it."  The writer ended within close, so the stream accepted everything. *)
CountIsWritten ==
  main = "closed" /\ writer = "ended" /\ taken > 0 => \E i \in 1..Len(done) : done[i] = Count
=============================================================================
