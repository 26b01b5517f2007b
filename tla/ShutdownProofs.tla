--------------------------- MODULE ShutdownProofs ---------------------------
(***************************************************************************)
(* Proofs about Shutdown, for any number of signals, nested to any depth:  *)
(* the inductive invariant IInv, that a stop begun is carried out before   *)
(* the drain, and that a handler waiting for the lock of the one below it  *)
(* waits for ever, with admission open.                                    *)
(***************************************************************************)
EXTENDS Shutdown, SequenceTheorems, TLAPS

(* Where a handler is.                                                     *)
At == {"check", "lock", "flag", "unlock", "calls", "spawn"}
Holding == {"flag", "unlock"}

TypeInv ==
  /\ signals \in Nat /\ shutters \in Nat
  /\ frames \in Seq(At)
  /\ flag \in BOOLEAN /\ lock \in BOOLEAN /\ stopped \in BOOLEAN /\ request \in BOOLEAN
  /\ main \in {"starting", "select", "handle", "ended", "draining", "raised"}

(* The lock is held by one handler, and those above it are before it.      *)
LockInv ==
  /\ lock <=> \E i \in 1..Len(frames) : frames[i] \in Holding
  /\ \A i, j \in 1..Len(frames) :
       i < j /\ frames[i] \in Holding => frames[j] \in {"check", "lock"}

(* What comes after the flag is set, and what comes after admission is     *)
(* closed: every thread that ends the loop is started after both.          *)
AfterFlag ==
  ~flag => /\ ~stopped
           /\ \A i \in 1..Len(frames) : frames[i] \notin {"unlock", "calls"}
AfterStop ==
  ~stopped => /\ shutters = 0 /\ ~request /\ main \notin {"ended", "draining"}
              /\ \A i \in 1..Len(frames) : frames[i] # "spawn"

IInv == TypeInv /\ LockInv /\ AfterFlag /\ AfterStop /\ DrainAfterStop

(* A handler waits for the lock that a handler below it holds.             *)
Wedged ==
  /\ ~flag
  /\ \E i, j \in 1..Len(frames) : i < j /\ frames[i] = "flag" /\ frames[j] = "lock"

(***************************************************************************)
(* The stack of handlers: how it grows, moves on at the top, and shrinks   *)
(***************************************************************************)
(* A signal's handler begins above the others, which stay where they are.  *)
LEMMA Pushed ==
  ASSUME TypeInv, frames' = Append(frames, "check")
  PROVE  /\ frames' \in Seq(At)
         /\ Len(frames) \in Nat /\ Len(frames') = Len(frames) + 1
         /\ frames'[Len(frames')] = "check"
         /\ \A i \in 1..Len(frames) : frames'[i] = frames[i]
<1>1. frames \in Seq(At) /\ "check" \in At
  BY DEF TypeInv, At
<1> QED
  BY <1>1, AppendProperties

(* Only the innermost handler moves.                                       *)
LEMMA MovedOn ==
  ASSUME TypeInv, Handling, NEW to \in At, GoOn(to)
  PROVE  /\ frames' \in Seq(At)
         /\ Len(frames) \in Nat /\ Len(frames) >= 1 /\ Len(frames') = Len(frames)
         /\ frames'[Len(frames)] = to
         /\ \A i \in 1..Len(frames) : i # Len(frames) => frames'[i] = frames[i]
<1>1. frames \in Seq(At) /\ Len(frames) \in Nat /\ Len(frames) >= 1
  BY EmptySeq DEF TypeInv, Handling
<1>2. /\ frames' \in Seq(At) /\ Len(frames') = Len(frames)
      /\ \A j \in 1..Len(frames) : frames'[j] = IF j = Len(frames) THEN to ELSE frames[j]
  BY <1>1, ExceptSeq DEF GoOn
<1>3. Len(frames) \in 1..Len(frames)
  BY <1>1
<1> QED
  BY <1>1, <1>2, <1>3

(* A handler that returns leaves those below it where they were.           *)
LEMMA Popped ==
  ASSUME TypeInv, Handling, Return
  PROVE  /\ frames' \in Seq(At)
         /\ Len(frames) \in Nat /\ Len(frames) >= 1 /\ Len(frames') = Len(frames) - 1
         /\ \A i \in 1..Len(frames') : frames'[i] = frames[i]
<1>1. frames \in Seq(At) /\ Len(frames) \in Nat /\ Len(frames) >= 1
  BY EmptySeq DEF TypeInv, Handling
<1> DEFINE n == Len(frames) - 1
<1>2. frames' = SubSeq(frames, 1, n)
  BY DEF Return
<1>3. n \in Nat /\ \A i \in 1..n : frames[i] \in At /\ 1 + i - 1 = i
  BY <1>1
<1> HIDE DEF n
<1>4. /\ SubSeq(frames, 1, n) \in Seq(At)
      /\ Len(SubSeq(frames, 1, n)) = IF 1 <= n THEN n - 1 + 1 ELSE 0
      /\ \A i \in 1..(n - 1 + 1) : SubSeq(frames, 1, n)[i] = frames[1 + i - 1]
  BY <1>3, SubSeqProperties
<1>5. Len(SubSeq(frames, 1, n)) = n /\ \A i \in 1..n : SubSeq(frames, 1, n)[i] = frames[i]
  BY <1>3, <1>4
<1> QED
  BY <1>1, <1>2, <1>4, <1>5 DEF n

(***************************************************************************)
(* The inductive invariant is kept, one lemma per step of a handler        *)
(***************************************************************************)
(* Another signal, at any moment.                                          *)
LEMMA SignalIInv == ASSUME IInv, Signal PROVE IInv'
<1> USE DEF IInv
<1>1. /\ frames' \in Seq(At)
      /\ Len(frames) \in Nat /\ Len(frames') = Len(frames) + 1
      /\ frames'[Len(frames')] = "check"
      /\ \A i \in 1..Len(frames) : frames'[i] = frames[i]
  BY Pushed DEF Signal
<1>2. signals' = signals + 1 /\ UNCHANGED <<flag, lock, stopped, shutters, request, main>>
  BY DEF Signal
<1>3. TypeInv'
  BY <1>1, <1>2 DEF TypeInv
<1>4. LockInv'
  BY <1>1, <1>2 DEF LockInv, Holding
<1>5. AfterFlag' /\ AfterStop'
  BY <1>1, <1>2 DEF AfterFlag, AfterStop
<1>6. DrainAfterStop'
  BY <1>1, <1>2 DEF DrainAfterStop, FlagIsCarried
<1> QED
  BY <1>3, <1>4, <1>5, <1>6

(* stop() looks at the Event: it returns, or goes on to set it.            *)
LEMMA CheckIInv == ASSUME IInv, Check PROVE IInv'
<1> USE DEF IInv
<1>1. Handling /\ Top = "check" /\ UNCHANGED <<signals, flag, lock, stopped, shutters, request, main>>
  BY DEF Check
<1>2. CASE flag /\ Return
  <2>1. /\ frames' \in Seq(At)
        /\ Len(frames) \in Nat /\ Len(frames) >= 1 /\ Len(frames') = Len(frames) - 1
        /\ \A i \in 1..Len(frames') : frames'[i] = frames[i]
    BY <1>1, <1>2, Popped
  <2>2. frames[Len(frames)] = "check"
    BY <1>1 DEF Top
  <2>3. TypeInv'
    BY <1>1, <2>1 DEF TypeInv
  <2>4. LockInv'
    BY <1>1, <2>1, <2>2 DEF LockInv, Holding
  <2>5. AfterFlag' /\ AfterStop'
    BY <1>1, <2>1 DEF AfterFlag, AfterStop
  <2>6. DrainAfterStop'
    BY <1>1, <2>1, <2>2 DEF DrainAfterStop, FlagIsCarried
  <2> QED
    BY <2>3, <2>4, <2>5, <2>6
<1>3. CASE GoOn("lock")
  <2>1. /\ frames' \in Seq(At)
        /\ Len(frames) \in Nat /\ Len(frames) >= 1 /\ Len(frames') = Len(frames)
        /\ frames'[Len(frames)] = "lock"
        /\ \A i \in 1..Len(frames) : i # Len(frames) => frames'[i] = frames[i]
    BY <1>1, <1>3, MovedOn DEF At
  <2>2. frames[Len(frames)] = "check"
    BY <1>1 DEF Top
  <2>3. TypeInv'
    BY <1>1, <2>1 DEF TypeInv
  <2>4. LockInv'
    BY <1>1, <2>1, <2>2 DEF LockInv, Holding
  <2>5. AfterFlag' /\ AfterStop'
    BY <1>1, <2>1 DEF AfterFlag, AfterStop
  <2>6. DrainAfterStop'
    BY <1>1, <2>1, <2>2 DEF DrainAfterStop, FlagIsCarried
  <2> QED
    BY <2>3, <2>4, <2>5, <2>6
<1> QED
  BY <1>2, <1>3 DEF Check

(* A handler takes the lock only where none below it holds it.             *)
LEMMA TakeLockIInv == ASSUME IInv, TakeLock PROVE IInv'
<1> USE DEF IInv
<1>1. /\ Handling /\ GoOn("flag") /\ frames[Len(frames)] = "lock"
      /\ ~lock /\ lock' = TRUE /\ UNCHANGED <<signals, flag, stopped, shutters, request, main>>
  BY DEF TakeLock, Top
<1>2. /\ frames' \in Seq(At)
      /\ Len(frames) \in Nat /\ Len(frames) >= 1 /\ Len(frames') = Len(frames)
      /\ frames'[Len(frames)] = "flag"
      /\ \A i \in 1..Len(frames) : i # Len(frames) => frames'[i] = frames[i]
  BY <1>1, MovedOn DEF At
<1>3. TypeInv'
  BY <1>1, <1>2 DEF TypeInv
<1>4. LockInv'
  BY <1>1, <1>2 DEF LockInv, Holding
<1>5. AfterFlag' /\ AfterStop'
  BY <1>1, <1>2 DEF AfterFlag, AfterStop
<1>6. DrainAfterStop'
  BY <1>1, <1>2 DEF DrainAfterStop, FlagIsCarried
<1> QED
  BY <1>3, <1>4, <1>5, <1>6

(* The flag is set by a handler that goes on to close admission.           *)
LEMMA SetFlagIInv == ASSUME IInv, SetFlag PROVE IInv'
<1> USE DEF IInv
<1>1. /\ Handling /\ GoOn("unlock") /\ frames[Len(frames)] = "flag"
      /\ flag' = TRUE /\ UNCHANGED <<signals, lock, stopped, shutters, request, main>>
  BY DEF SetFlag, Top
<1>2. /\ frames' \in Seq(At)
      /\ Len(frames) \in Nat /\ Len(frames) >= 1 /\ Len(frames') = Len(frames)
      /\ frames'[Len(frames)] = "unlock"
      /\ \A i \in 1..Len(frames) : i # Len(frames) => frames'[i] = frames[i]
  BY <1>1, MovedOn DEF At
<1>3. TypeInv'
  BY <1>1, <1>2 DEF TypeInv
<1>4. LockInv'
  BY <1>1, <1>2 DEF LockInv, Holding
<1>5. AfterFlag' /\ AfterStop'
  BY <1>1, <1>2 DEF AfterFlag, AfterStop
<1>6. DrainAfterStop'
  BY <1>1, <1>2 DEF DrainAfterStop, FlagIsCarried
<1> QED
  BY <1>3, <1>4, <1>5, <1>6

(* The lock is given up by the one handler that held it.                   *)
LEMMA UnlockIInv == ASSUME IInv, Unlock PROVE IInv'
<1> USE DEF IInv
<1>1. /\ Handling /\ GoOn("calls") /\ frames[Len(frames)] = "unlock"
      /\ lock' = FALSE /\ UNCHANGED <<signals, flag, stopped, shutters, request, main>>
  BY DEF Unlock, Top
<1>2. /\ frames' \in Seq(At)
      /\ Len(frames) \in Nat /\ Len(frames) >= 1 /\ Len(frames') = Len(frames)
      /\ frames'[Len(frames)] = "calls"
      /\ \A i \in 1..Len(frames) : i # Len(frames) => frames'[i] = frames[i]
  BY <1>1, MovedOn DEF At
<1>3. TypeInv'
  BY <1>1, <1>2 DEF TypeInv
<1>4. LockInv'
  BY <1>1, <1>2 DEF LockInv, Holding
<1>5. AfterFlag' /\ AfterStop'
  BY <1>1, <1>2 DEF AfterFlag, AfterStop
<1>6. DrainAfterStop'
  BY <1>1, <1>2 DEF DrainAfterStop, FlagIsCarried
<1> QED
  BY <1>3, <1>4, <1>5, <1>6

(* Admission is closed, and stays so.                                      *)
LEMMA StopCallsIInv == ASSUME IInv, StopCalls PROVE IInv'
<1> USE DEF IInv
<1>1. /\ Handling /\ GoOn("spawn") /\ frames[Len(frames)] = "calls"
      /\ stopped' = TRUE /\ UNCHANGED <<signals, flag, lock, shutters, request, main>>
  BY DEF StopCalls, Top
<1>2. /\ frames' \in Seq(At)
      /\ Len(frames) \in Nat /\ Len(frames) >= 1 /\ Len(frames') = Len(frames)
      /\ frames'[Len(frames)] = "spawn"
      /\ \A i \in 1..Len(frames) : i # Len(frames) => frames'[i] = frames[i]
  BY <1>1, MovedOn DEF At
<1>3. TypeInv'
  BY <1>1, <1>2 DEF TypeInv
<1>4. LockInv'
  BY <1>1, <1>2 DEF LockInv, Holding
<1>5. AfterFlag' /\ AfterStop'
  BY <1>1, <1>2 DEF AfterFlag, AfterStop
<1>6. DrainAfterStop'
  BY <1>1, <1>2 DEF DrainAfterStop, FlagIsCarried
<1> QED
  BY <1>3, <1>4, <1>5, <1>6

(* The shutdown thread is started after admission is closed.               *)
LEMMA SpawnIInv == ASSUME IInv, Spawn PROVE IInv'
<1> USE DEF IInv
<1>1. /\ Handling /\ Return /\ frames[Len(frames)] = "spawn" /\ shutters' = shutters + 1
      /\ UNCHANGED <<signals, flag, lock, stopped, request, main>>
  BY DEF Spawn, Top
<1>2. /\ frames' \in Seq(At)
      /\ Len(frames) \in Nat /\ Len(frames) >= 1 /\ Len(frames') = Len(frames) - 1
      /\ \A i \in 1..Len(frames') : frames'[i] = frames[i]
  BY <1>1, Popped
<1>3. TypeInv'
  BY <1>1, <1>2 DEF TypeInv
<1>4. LockInv'
  BY <1>1, <1>2 DEF LockInv, Holding
<1>5. AfterFlag' /\ AfterStop'
  BY <1>1, <1>2 DEF AfterFlag, AfterStop
<1>6. DrainAfterStop'
  BY <1>1, <1>2 DEF DrainAfterStop, FlagIsCarried
<1> QED
  BY <1>3, <1>4, <1>5, <1>6

(* The exception leaves every handler, and none of them held the lock.     *)
LEMMA SpawnRaisesIInv == ASSUME IInv, SpawnRaises PROVE IInv'
<1> USE DEF IInv
<1>1. /\ Handling /\ frames[Len(frames)] = "spawn" /\ frames' = <<>> /\ main' = "raised"
      /\ UNCHANGED <<signals, flag, lock, stopped, shutters, request>>
  BY DEF SpawnRaises, Top
<1>2. Len(frames) \in Nat /\ Len(frames) >= 1
  BY <1>1, EmptySeq DEF TypeInv, Handling
<1>3. frames' \in Seq(At) /\ Len(frames') = 0 /\ 1..Len(frames') = {}
  BY <1>1, EmptySeq
<1>4. stopped /\ ~lock
  BY <1>1, <1>2 DEF AfterStop, LockInv, Holding
<1>5. TypeInv'
  BY <1>1, <1>3 DEF TypeInv
<1>6. LockInv' /\ AfterFlag' /\ AfterStop' /\ DrainAfterStop'
  BY <1>1, <1>3, <1>4 DEF LockInv, AfterFlag, AfterStop, DrainAfterStop, FlagIsCarried
<1> QED
  BY <1>5, <1>6

(* The shutdown thread and the loop leave the handlers alone.              *)
LEMMA LoopIInv == ASSUME IInv, Shut \/ LoopStep PROVE IInv'
<1> USE DEF IInv
<1>1. UNCHANGED <<signals, frames, flag, lock, stopped>>
  BY DEF Shut, LoopStep, Serve, Poll, Handle, ServingEnds
<1>2. LockInv' /\ AfterFlag'
  BY <1>1 DEF LockInv, AfterFlag, Holding
<1>3. TypeInv'
  <2>1. shutters' \in Nat /\ request' \in BOOLEAN
    <3>1. CASE Shut
      BY <3>1 DEF TypeInv, Shut
    <3>2. CASE LoopStep
      BY <3>2 DEF TypeInv, LoopStep, Serve, Poll, Handle, ServingEnds
    <3> QED
      BY <3>1, <3>2
  <2>2. main' \in {"starting", "select", "handle", "ended", "draining", "raised"}
    <3>1. CASE Shut
      BY <3>1 DEF TypeInv, Shut
    <3>2. CASE Serve
      BY <3>2 DEF Serve
    <3>3. CASE Poll
      BY <3>3 DEF Poll
    <3>4. CASE Handle \/ ServingEnds
      BY <3>4 DEF Handle, ServingEnds
    <3> QED
      BY <3>1, <3>2, <3>3, <3>4 DEF LoopStep
  <2> QED
    BY <1>1, <2>1, <2>2 DEF TypeInv
<1>4. CASE stopped
  BY <1>1, <1>2, <1>3, <1>4 DEF AfterStop, DrainAfterStop
<1>5. CASE ~stopped
  <2>1. shutters = 0 /\ ~request /\ main \notin {"ended", "draining"}
    BY <1>5 DEF AfterStop
  <2>2. shutters' = 0 /\ ~request' /\ main' \notin {"ended", "draining"}
    BY <2>1 DEF Shut, LoopStep, Serve, Poll, Handle, ServingEnds
  <2>3. AfterStop'
    BY <1>1, <1>5, <2>2 DEF AfterStop
  <2>4. DrainAfterStop'
    BY <1>1, <2>2 DEF DrainAfterStop, FlagIsCarried
  <2> QED
    BY <1>2, <1>3, <2>3, <2>4
<1> QED
  BY <1>4, <1>5

(***************************************************************************)
(* The inductive invariant holds                                           *)
(***************************************************************************)
(* No handler runs yet.                                                    *)
LEMMA InitIInv == Init => IInv
<1> SUFFICES ASSUME Init PROVE IInv
  OBVIOUS
<1>1. frames \in Seq(At) /\ Len(frames) = 0 /\ 1..Len(frames) = {}
  BY EmptySeq DEF Init
<1> QED
  BY <1>1 DEF Init, IInv, TypeInv, LockInv, AfterFlag, AfterStop, DrainAfterStop, FlagIsCarried

(* Nor does standing still.                                                *)
LEMMA StutterIInv == ASSUME IInv, UNCHANGED vars PROVE IInv'
BY DEF vars, IInv, TypeInv, LockInv, AfterFlag, AfterStop, DrainAfterStop, FlagIsCarried

(* No step of the process breaks it.                                       *)
LEMMA StepIInv == ASSUME IInv, [Next]_vars PROVE IInv'
<1>1. CASE HandlerStep
  BY <1>1, CheckIInv, TakeLockIInv, SetFlagIInv, UnlockIInv, StopCallsIInv, SpawnIInv, SpawnRaisesIInv
     DEF HandlerStep
<1>2. CASE Signal \/ Shut \/ LoopStep
  BY <1>2, SignalIInv, LoopIInv
<1>3. CASE Settled \/ UNCHANGED vars
  BY <1>3, StutterIInv DEF Settled
<1> QED
  BY <1>1, <1>2, <1>3 DEF Next

(* IInv holds in every reachable state, however many signals come.         *)
THEOREM Invariance == Spec => []IInv
BY InitIInv, StepIInv, PTL DEF Spec

(* A stop begun is carried out, and the drain begins with admission closed.*)
THEOREM DrainsAfterStop == Spec => []DrainAfterStop
<1>1. IInv => DrainAfterStop
  BY DEF IInv
<1> QED
  BY <1>1, Invariance, PTL

(***************************************************************************)
(* The handler that waits for ever                                         *)
(***************************************************************************)
(* No step ends the wait: not another signal, whose handler goes above, nor*)
(* one of the handlers above, which wait as well or are about to.          *)
LEMMA WedgedStep == ASSUME IInv, Wedged, [Next]_vars PROVE Wedged'
<1> USE DEF IInv
<1> PICK i, j \in 1..Len(frames) : i < j /\ frames[i] = "flag" /\ frames[j] = "lock"
  BY DEF Wedged
<1>1. frames \in Seq(At) /\ Len(frames) \in Nat /\ ~flag
  BY DEF TypeInv, Wedged
<1>2. lock /\ Handling /\ i < Len(frames) /\ Top \in {"check", "lock"}
  BY <1>1, EmptySeq DEF LockInv, Holding, Handling, Top
<1>3. CASE Signal
  <2>1. /\ Len(frames') = Len(frames) + 1 /\ \A k \in 1..Len(frames) : frames'[k] = frames[k]
        /\ flag' = flag
    BY <1>3, Pushed DEF Signal
  <2> QED
    BY <1>1, <2>1 DEF Wedged
<1>4. CASE HandlerStep
  <2>1. Check
    BY <1>2, <1>4 DEF HandlerStep, TakeLock, SetFlag, Unlock, StopCalls, Spawn, SpawnRaises
  <2>2. GoOn("lock") /\ flag' = flag /\ frames[Len(frames)] = "check"
    BY <1>1, <2>1 DEF Check, Top
  <2>3. /\ Len(frames') = Len(frames)
        /\ \A k \in 1..Len(frames) : k # Len(frames) => frames'[k] = frames[k]
    BY <1>2, <2>2, MovedOn DEF At
  <2> QED
    BY <1>1, <1>2, <2>2, <2>3 DEF Wedged
<1>5. CASE Shut \/ LoopStep \/ Settled \/ UNCHANGED vars
  <2>1. frames' = frames /\ flag' = flag
    BY <1>5 DEF Shut, LoopStep, Serve, Poll, Handle, ServingEnds, Settled, vars
  <2> QED
    BY <1>1, <2>1 DEF Wedged
<1> QED
  BY <1>3, <1>4, <1>5 DEF Next

(* A handler interrupted between taking the Event's lock and setting the   *)
(* flag, by one that gets as far as waiting for that lock: admission is    *)
(* never closed.  What the run that refutes SignalStops reaches is final.  *)
THEOREM WedgedForEver == Spec => [](Wedged => []~stopped)
<1>1. IInv /\ Wedged => ~stopped
  BY DEF IInv, Wedged, AfterFlag
<1>2. IInv /\ Wedged /\ [Next]_vars => Wedged'
  BY WedgedStep
<1> QED
  BY <1>1, <1>2, Invariance, PTL DEF Spec
=============================================================================
