---------------------------- MODULE CallsProofs ----------------------------
(***************************************************************************)
(* Proofs about Calls, for every set of calls and every bound: the         *)
(* inductive invariant IInv, and the safety properties that follow.        *)
(***************************************************************************)
EXTENDS Calls, FiniteSetTheorems, TLAPS

(***************************************************************************)
(* Types                                                                   *)
(***************************************************************************)
(* What the two decrements need: a thread that lets go held, and a thread  *)
(* that frees was counted.                                                 *)
SlotCountsPositive ==
  /\ \A c \in Call : req[c] \in {"start", "release"} \/ hdl[c] = "release" => holders[c] > 0
  /\ (\E c \in Call : req[c] = "free" \/ hdl[c] = "free") => active > 0

(* Every step of a call's request thread keeps every variable in range.    *)
LEMMA RequestTypes ==
  ASSUME TypeOK, SlotCountsPositive, NEW c \in Call, RequestStep(c)
  PROVE  TypeOK'
<1>1. CASE Admit(c)
  BY <1>1 DEF Admit, TypeOK, ReqPc, mainVars
<1>2. CASE Refuse(c)
  BY <1>2 DEF Refuse, TypeOK, ReqPc, Status, mainVars
<1>3. CASE TakeDecoder(c)
  BY <1>3 DEF TakeDecoder, TypeOK, ReqPc, mainVars
<1>4. CASE Decode(c)
  BY <1>4 DEF Decode, Reply, TypeOK, ReqPc, Status, mainVars
<1>5. CASE Hold(c)
  BY <1>5 DEF Hold, TypeOK, ReqPc, mainVars
<1>6. CASE Start(c)
  BY <1>6 DEF Start, TypeOK, ReqPc, HdlPc, mainVars
<1>7. CASE StartFails(c)
  BY <1>7 DEF StartFails, Reply, TypeOK, SlotCountsPositive, ReqPc, Status, mainVars
<1>8. CASE Judge(c)
  BY <1>8 DEF Judge, Reply, StatusOf, TypeOK, ReqPc, Status, mainVars
<1>9. CASE Send(c)
  BY <1>9 DEF Send, TypeOK, ReqPc, Status, mainVars
<1>10. CASE Release(c)
  BY <1>10 DEF Release, TypeOK, SlotCountsPositive, ReqPc, mainVars
<1>11. CASE Free(c)
  BY <1>11 DEF Free, FreeSlot, TypeOK, SlotCountsPositive, ReqPc, mainVars
<1> QED
  BY <1>1, <1>2, <1>3, <1>4, <1>5, <1>6, <1>7, <1>8, <1>9, <1>10, <1>11 DEF RequestStep

(* Every step of a handler's thread, its author's or the harness's own,    *)
(* keeps every variable in range.                                          *)
LEMMA HandlerTypes ==
  ASSUME TypeOK, SlotCountsPositive, NEW c \in Call, WorkerStep(c) \/ AuthorStep(c)
  PROVE  TypeOK'
<1>1. CASE HandlerRelease(c)
  BY <1>1 DEF HandlerRelease, TypeOK, SlotCountsPositive, HdlPc, mainVars
<1>2. CASE HandlerFree(c)
  BY <1>2 DEF HandlerFree, FreeSlot, TypeOK, SlotCountsPositive, HdlPc, mainVars
<1>3. CASE HandlerEnds(c)
  BY <1>3 DEF HandlerEnds, TypeOK, HdlPc, mainVars
<1>4. CASE Commit(c)
  BY <1>4 DEF Commit, TypeOK, mainVars
<1>5. CASE Return(c)
  BY <1>5, AuthorAssumption DEF Return, TypeOK, HdlPc, mainVars
<1> QED
  BY <1>1, <1>2, <1>3, <1>4, <1>5 DEF WorkerStep, AuthorStep

(* Every step of the main thread keeps every variable in range.            *)
LEMMA MainTypes ==
  ASSUME TypeOK, Stop \/ DrainStep
  PROVE  TypeOK'
<1>1. CASE Stop
  BY <1>1 DEF Stop, TypeOK, MainPc, callVars
<1>2. CASE ServingEnds
  BY <1>2 DEF ServingEnds, TypeOK, MainPc, callVars
<1>3. CASE DrainChecks
  BY <1>3 DEF DrainChecks, TypeOK, MainPc, callVars
<1>4. CASE GraceEnds
  BY <1>4 DEF GraceEnds, TypeOK, MainPc, callVars
<1>5. CASE Exit
  BY <1>5 DEF Exit, TypeOK, MainPc, callVars
<1> QED
  BY <1>1, <1>2, <1>3, <1>4, <1>5 DEF DrainStep

(***************************************************************************)
(* Holders: the two threads of a call and its slot                         *)
(***************************************************************************)
(* No step of a call's request thread miscounts the holders of any slot.   *)
LEMMA RequestHolders ==
  ASSUME TypeOK, \A e \in Call : HolderInv(e), NEW c \in Call, RequestStep(c), NEW d \in Call
  PROVE  HolderInv(d)'
<1> USE DEF TypeOK, HolderInv, RequestHolds, HandlerHolds
<1>1. CASE Admit(c)
  BY <1>1 DEF Admit
<1>2. CASE Refuse(c)
  BY <1>2 DEF Refuse
<1>3. CASE TakeDecoder(c)
  BY <1>3 DEF TakeDecoder
<1>4. CASE Decode(c)
  BY <1>4 DEF Decode, Reply
<1>5. CASE Hold(c)
  BY <1>5 DEF Hold
<1>6. CASE Start(c)
  BY <1>6 DEF Start
<1>7. CASE StartFails(c)
  BY <1>7 DEF StartFails, Reply
<1>8. CASE Judge(c)
  BY <1>8 DEF Judge, Reply
<1>9. CASE Send(c)
  BY <1>9 DEF Send
<1>10. CASE Release(c)
  BY <1>10 DEF Release, ReqPc, HdlPc
<1>11. CASE Free(c)
  BY <1>11 DEF Free, FreeSlot
<1> QED
  BY <1>1, <1>2, <1>3, <1>4, <1>5, <1>6, <1>7, <1>8, <1>9, <1>10, <1>11 DEF RequestStep

(* No step of a handler's thread miscounts the holders of any slot.        *)
LEMMA HandlerHolders ==
  ASSUME TypeOK, \A e \in Call : HolderInv(e), NEW c \in Call, WorkerStep(c) \/ AuthorStep(c), NEW d \in Call
  PROVE  HolderInv(d)'
<1> USE DEF TypeOK, HolderInv, RequestHolds, HandlerHolds
<1>1. CASE HandlerRelease(c)
  BY <1>1 DEF HandlerRelease, ReqPc, HdlPc
<1>2. CASE HandlerFree(c)
  BY <1>2 DEF HandlerFree, FreeSlot
<1>3. CASE HandlerEnds(c)
  BY <1>3 DEF HandlerEnds
<1>4. CASE Commit(c)
  BY <1>4 DEF Commit
<1>5. CASE Return(c)
  BY <1>5 DEF Return
<1> QED
  BY <1>1, <1>2, <1>3, <1>4, <1>5 DEF WorkerStep, AuthorStep

(***************************************************************************)
(* The count: which steps change the set of occupied slots                 *)
(***************************************************************************)
(* Admission occupies one slot that was not occupied.                      *)
LEMMA AdmitOccupies ==
  ASSUME TypeOK, NEW c \in Call, HolderInv(c), Admit(c)
  PROVE  c \notin Occupied /\ Occupied' = Occupied \cup {c}
<1>1. holders[c] = 0 /\ hdl[c] = "none"
  BY DEF TypeOK, HolderInv, RequestHolds, HandlerHolds, Admit
<1>2. c \notin Occupied
  BY <1>1 DEF Occupied, Admit
<1>3. \A d \in Call : d \in Occupied' <=> d = c \/ d \in Occupied
  BY DEF Admit, TypeOK, Occupied
<1> QED
  BY <1>2, <1>3 DEF Occupied

(* Freeing vacates the one slot whose last holder is freeing it.           *)
LEMMA FreeVacates ==
  ASSUME TypeOK, NEW c \in Call, HolderInv(c), Free(c) \/ HandlerFree(c)
  PROVE  c \in Occupied /\ Occupied' = Occupied \ {c}
<1>1. c \in Occupied
  BY DEF Occupied, Free, HandlerFree
<1>2. holders[c] = 0 /\ (Free(c) => hdl[c] # "free") /\ (HandlerFree(c) => req[c] # "free")
  BY DEF TypeOK, HolderInv, RequestHolds, HandlerHolds, Free, HandlerFree
<1>3. \A d \in Call : d \in Occupied' <=> d # c /\ d \in Occupied
  BY <1>2 DEF Free, HandlerFree, TypeOK, Occupied
<1> QED
  BY <1>1, <1>3 DEF Occupied

(* A step of a call that neither admits nor frees keeps every slot as it   *)
(* is: in particular a release to zero leaves it occupied until the free.  *)
LEMMA OthersKeepOccupied ==
  ASSUME TypeOK, NEW c \in Call, HolderInv(c),
         RequestStep(c) \/ WorkerStep(c) \/ AuthorStep(c),
         ~Admit(c), ~Free(c), ~HandlerFree(c)
  PROVE  Occupied' = Occupied
<1> SUFFICES ASSUME NEW d \in Call
             PROVE  d \in Occupied' <=> d \in Occupied
  BY DEF Occupied
<1> USE DEF TypeOK, HolderInv, RequestHolds, HandlerHolds, Occupied
<1>2. CASE Refuse(c)
  BY <1>2 DEF Refuse
<1>3. CASE TakeDecoder(c)
  BY <1>3 DEF TakeDecoder
<1>4. CASE Decode(c)
  BY <1>4 DEF Decode, Reply
<1>5. CASE Hold(c)
  BY <1>5 DEF Hold
<1>6. CASE Start(c)
  BY <1>6 DEF Start
<1>7. CASE StartFails(c)
  BY <1>7 DEF StartFails, Reply
<1>8. CASE Judge(c)
  BY <1>8 DEF Judge, Reply
<1>9. CASE Send(c)
  BY <1>9 DEF Send
<1>10. CASE Release(c)
  BY <1>10 DEF Release
<1>11. CASE HandlerRelease(c)
  BY <1>11 DEF HandlerRelease
<1>12. CASE HandlerEnds(c)
  BY <1>12 DEF HandlerEnds
<1>13. CASE Commit(c)
  BY <1>13 DEF Commit
<1>14. CASE Return(c)
  BY <1>14 DEF Return
<1> QED
  BY <1>2, <1>3, <1>4, <1>5, <1>6, <1>7, <1>8, <1>9, <1>10, <1>11, <1>12, <1>13, <1>14
     DEF RequestStep, WorkerStep, AuthorStep

(* Only admission and freeing touch the count.                             *)
LEMMA OthersKeepActive ==
  ASSUME NEW c \in Call, RequestStep(c) \/ WorkerStep(c) \/ AuthorStep(c),
         ~Admit(c), ~Free(c), ~HandlerFree(c)
  PROVE  active' = active
BY DEF RequestStep, WorkerStep, AuthorStep, Refuse, TakeDecoder, Decode, Reply, Hold, Start,
       StartFails, Judge, Send, Release, HandlerRelease, HandlerEnds, Commit, Return

(* The count is right after every step of a call's two threads, and never  *)
(* over the bound: Admit is the only step that raises it, below the bound. *)
LEMMA CallCount ==
  ASSUME TypeOK, CountInv, NEW c \in Call, HolderInv(c),
         RequestStep(c) \/ WorkerStep(c) \/ AuthorStep(c)
  PROVE  CountInv'
<1> USE LimitAssumption DEF TypeOK, CountInv
<1>1. CASE Admit(c)
  <2>1. c \notin Occupied /\ Occupied' = Occupied \cup {c}
    BY <1>1, AdmitOccupies
  <2>2. IsFiniteSet(Occupied') /\ Cardinality(Occupied') = Cardinality(Occupied) + 1
    BY <2>1, FS_AddElement
  <2> QED
    BY <1>1, <2>2 DEF Admit, MayAdmit
<1>2. CASE Free(c) \/ HandlerFree(c)
  <2>1. c \in Occupied /\ Occupied' = Occupied \ {c}
    BY <1>2, FreeVacates
  <2>2. IsFiniteSet(Occupied') /\ Cardinality(Occupied') = Cardinality(Occupied) - 1
    BY <2>1, FS_RemoveElement
  <2> QED
    BY <1>2, <2>2 DEF Free, HandlerFree, FreeSlot
<1>3. CASE ~Admit(c) /\ ~Free(c) /\ ~HandlerFree(c)
  BY <1>3, OthersKeepOccupied, OthersKeepActive
<1> QED
  BY <1>1, <1>2, <1>3

(* An occupied slot keeps the count above zero.                            *)
LEMMA OccupiedIsCounted ==
  ASSUME TypeOK, CountInv, NEW c \in Occupied
  PROVE  active > 0
BY FS_EmptySet, FS_CardinalityType DEF TypeOK, CountInv

(* What the type lemmas assume of the two decrements.                      *)
LEMMA CountsArePositive ==
  ASSUME TypeOK, CountInv, \A c \in Call : HolderInv(c)
  PROVE  SlotCountsPositive
<1>1. \A c \in Call : req[c] \in {"start", "release"} \/ hdl[c] = "release" => holders[c] > 0
  BY DEF TypeOK, HolderInv, RequestHolds, HandlerHolds
<1>2. ASSUME NEW c \in Call, req[c] = "free" \/ hdl[c] = "free"
      PROVE  active > 0
  BY <1>2, OccupiedIsCounted DEF Occupied
<1> QED
  BY <1>1, <1>2 DEF SlotCountsPositive

(***************************************************************************)
(* The drain                                                               *)
(***************************************************************************)
(* Past the signal no step of a call raises the count, and one that lowers *)
(* it notifies a waiting drain.                                            *)
LEMMA CallDrain ==
  ASSUME TypeOK, CountInv, DrainInv, NEW c \in Call, HolderInv(c),
         RequestStep(c) \/ WorkerStep(c) \/ AuthorStep(c)
  PROVE  DrainInv'
<1> USE DEF TypeOK, DrainInv, DrainIsWoken
<1>1. CASE Admit(c)
  BY <1>1 DEF Admit, MayAdmit, mainVars, MainPc
<1>2. CASE Free(c) \/ HandlerFree(c)
  <2>1. active > 0
    BY <1>2, FreeVacates, OccupiedIsCounted
  <2> QED
    BY <1>2, <2>1 DEF Free, HandlerFree, FreeSlot, mainVars
<1>3. CASE ~Admit(c) /\ ~Free(c) /\ ~HandlerFree(c)
  <2>1. UNCHANGED <<stopping, main, remaining, notified>>
    BY <1>3 DEF RequestStep, WorkerStep, AuthorStep, Refuse, TakeDecoder, Decode, Reply, Hold, Start,
       StartFails, Judge, Send, Release, HandlerRelease, HandlerEnds, Commit, Return, mainVars
  <2> QED
    BY <1>3, <2>1, OthersKeepActive
<1> QED
  BY <1>1, <1>2, <1>3

(* The main thread's steps keep what the drain relies on.                  *)
LEMMA MainDrain ==
  ASSUME TypeOK, DrainInv, Stop \/ DrainStep
  PROVE  DrainInv'
BY DEF TypeOK, MainPc, DrainInv, DrainIsWoken, Stop, DrainStep, ServingEnds, DrainChecks, GraceEnds, Exit

(***************************************************************************)
(* Answers                                                                 *)
(***************************************************************************)
(* No step of a request thread breaks what any call's answer rests on.     *)
LEMMA RequestAnswers ==
  ASSUME TypeOK, NEW c \in Call, RequestStep(c),
         NEW d \in Call, HolderInv(d), AnswerInv(d)
  PROVE  AnswerInv(d)'
<1> USE DEF TypeOK, AnswerInv, HolderInv
<1>1. CASE Admit(c)
  BY <1>1 DEF Admit
<1>2. CASE Refuse(c)
  BY <1>2 DEF Refuse
<1>3. CASE TakeDecoder(c)
  BY <1>3 DEF TakeDecoder
<1>4. CASE Decode(c)
  BY <1>4 DEF Decode, Reply
<1>5. CASE Hold(c)
  BY <1>5 DEF Hold
<1>6. CASE Start(c)
  BY <1>6 DEF Start
<1>7. CASE StartFails(c)
  BY <1>7 DEF StartFails, Reply
<1>8. CASE Judge(c)
  BY <1>8 DEF Judge, Reply, StatusOf
<1>9. CASE Send(c)
  BY <1>9 DEF Send
<1>10. CASE Release(c)
  BY <1>10 DEF Release
<1>11. CASE Free(c)
  BY <1>11 DEF Free, FreeSlot
<1> QED
  BY <1>1, <1>2, <1>3, <1>4, <1>5, <1>6, <1>7, <1>8, <1>9, <1>10, <1>11 DEF RequestStep

(* No step of a handler, and above all no late commit, breaks it either.   *)
LEMMA HandlerAnswers ==
  ASSUME TypeOK, NEW c \in Call, WorkerStep(c) \/ AuthorStep(c),
         NEW d \in Call, HolderInv(d), AnswerInv(d)
  PROVE  AnswerInv(d)'
<1> USE DEF TypeOK, AnswerInv, HolderInv
<1>1. CASE HandlerRelease(c)
  BY <1>1 DEF HandlerRelease
<1>2. CASE HandlerFree(c)
  BY <1>2 DEF HandlerFree, FreeSlot
<1>3. CASE HandlerEnds(c)
  BY <1>3 DEF HandlerEnds
<1>4. CASE Commit(c)
  BY <1>4 DEF Commit
<1>5. CASE Return(c)
  BY <1>5, AuthorAssumption DEF Return, Honest, Outcome
<1> QED
  BY <1>1, <1>2, <1>3, <1>4, <1>5 DEF WorkerStep, AuthorStep

(***************************************************************************)
(* The inductive invariant                                                 *)
(***************************************************************************)
(* No call, no slot, no stop: the invariant holds when the harness starts. *)
LEMMA InitIInv == Init => IInv
<1> SUFFICES ASSUME Init PROVE IInv
  OBVIOUS
<1>1. TypeOK
  BY DEF Init, TypeOK, ReqPc, HdlPc, MainPc
<1>2. \A c \in Call : HolderInv(c) /\ AnswerInv(c)
  BY DEF Init, HolderInv, RequestHolds, HandlerHolds, AnswerInv
<1>3. Occupied = {}
  BY DEF Init, Occupied
<1>4. CountInv
  BY <1>3, FS_EmptySet, LimitAssumption DEF Init, CountInv
<1>5. DrainInv
  BY DEF Init, DrainInv, DrainIsWoken
<1> QED
  BY <1>1, <1>2, <1>4, <1>5 DEF IInv

(* No step of either thread of a call breaks the invariant.                *)
LEMMA CallIInv ==
  ASSUME IInv, NEW c \in Call, RequestStep(c) \/ WorkerStep(c) \/ AuthorStep(c)
  PROVE  IInv'
<1>1. TypeOK /\ CountInv /\ DrainInv /\ \A d \in Call : HolderInv(d) /\ AnswerInv(d)
  BY DEF IInv
<1>2. SlotCountsPositive
  BY <1>1, CountsArePositive
<1>3. TypeOK'
  BY <1>1, <1>2, RequestTypes, HandlerTypes
<1>4. ASSUME NEW d \in Call PROVE HolderInv(d)' /\ AnswerInv(d)'
  BY <1>1, RequestHolders, HandlerHolders, RequestAnswers, HandlerAnswers
<1>5. CountInv'
  BY <1>1, CallCount
<1>6. DrainInv'
  BY <1>1, CallDrain
<1> QED
  BY <1>3, <1>4, <1>5, <1>6 DEF IInv

(* Nor does the signal, or any step of the drain and the exit.             *)
LEMMA MainIInv ==
  ASSUME IInv, Stop \/ DrainStep
  PROVE  IInv'
<1>1. TypeOK /\ CountInv /\ DrainInv /\ \A d \in Call : HolderInv(d) /\ AnswerInv(d)
  BY DEF IInv
<1>2. UNCHANGED <<active, callVars>>
  BY DEF Stop, DrainStep, ServingEnds, DrainChecks, GraceEnds, Exit
<1>3. TypeOK'
  BY <1>1, MainTypes
<1>4. \A d \in Call : HolderInv(d)' /\ AnswerInv(d)'
  BY <1>1, <1>2 DEF callVars, HolderInv, RequestHolds, HandlerHolds, AnswerInv
<1>5. CountInv'
  BY <1>1, <1>2 DEF callVars, CountInv, Occupied
<1>6. DrainInv'
  BY <1>1, MainDrain
<1> QED
  BY <1>3, <1>4, <1>5, <1>6 DEF IInv

(* Nor does standing still.                                                *)
LEMMA StutterIInv ==
  ASSUME IInv, UNCHANGED vars
  PROVE  IInv'
BY DEF IInv, TypeOK, HolderInv, RequestHolds, HandlerHolds, AnswerInv, CountInv, Occupied,
       DrainInv, DrainIsWoken, vars, callVars, mainVars

(* IInv holds in every reachable state, for every set of calls and bound.  *)
THEOREM Invariance == Spec => []IInv
<1>1. IInv /\ [Next]_vars => IInv'
  BY CallIInv, MainIInv, StutterIInv DEF Next, Exited
<1> QED
  BY InitIInv, <1>1, PTL DEF Spec

(***************************************************************************)
(* What follows                                                            *)
(***************************************************************************)
(* Every variable stays in the range the code gives it.                    *)
THEOREM TypeCorrect == Spec => []TypeOK
<1>1. IInv => TypeOK
  BY DEF IInv
<1> QED
  BY <1>1, Invariance, PTL

(* _active is exactly the number of slots taken, each of which a thread of *)
(* its call has yet to let go: a thread that never ran leaves none behind. *)
THEOREM SlotsAccounted == Spec => []SlotAccounting
<1>1. IInv => SlotAccounting
  <2> SUFFICES ASSUME IInv, NEW c \in Occupied
               PROVE  req[c] \notin {"read", "refused", "done"} \/ hdl[c] \in {"running", "release", "free"}
    BY DEF IInv, CountInv, SlotAccounting
  <2>1. c \in Call /\ HolderInv(c)
    BY DEF IInv, Occupied
  <2> QED
    BY <2>1 DEF HolderInv, RequestHolds, HandlerHolds, Occupied
<1> QED
  BY <1>1, Invariance, PTL

(* Never more author code running than the declared concurrency, a handler *)
(* past its deadline included: it still holds its slot.                    *)
THEOREM ConcurrencyBounded == Spec => []ConcurrencyBound
<1>1. IInv => ConcurrencyBound
  <2> SUFFICES ASSUME IInv PROVE ConcurrencyBound
    OBVIOUS
  <2>1. TypeOK /\ CountInv /\ \A c \in Call : HolderInv(c)
    BY DEF IInv
  <2>2. Running \subseteq Occupied
    BY <2>1 DEF Running, Occupied, TypeOK, HolderInv, RequestHolds, HandlerHolds
  <2>3. IsFiniteSet(Running) /\ Cardinality(Running) <= Cardinality(Occupied)
    BY <2>1, <2>2, FS_Subset DEF CountInv
  <2>4. Cardinality(Running) \in Nat
    BY <2>3, FS_CardinalityType
  <2> QED
    BY <2>1, <2>3, <2>4, LimitAssumption DEF TypeOK, CountInv, ConcurrencyBound
<1> QED
  BY <1>1, Invariance, PTL

(* The harness exits 0 only with every handler returned and every admitted *)
(* call answered: the drain misses no call.                                *)
THEOREM CleanExits == Spec => []CleanExit
<1>1. IInv => CleanExit
  <2> SUFFICES ASSUME IInv, main \in {"drained", "exited"}, ExitCode = 0, NEW c \in Call
               PROVE  hdl[c] \in {"none", "ending", "ended"} /\ req[c] \in {"read", "refused", "done"}
    BY DEF CleanExit
  <2>1. TypeOK /\ CountInv /\ DrainInv /\ HolderInv(c)
    BY DEF IInv
  <2>2. active = 0
    BY <2>1 DEF TypeOK, DrainInv, ExitCode
  <2>3. c \notin Occupied
    BY <2>1, <2>2, OccupiedIsCounted
  <2> QED
    BY <2>1, <2>3 DEF TypeOK, ReqPc, HdlPc, Occupied, HolderInv, RequestHolds, HandlerHolds
<1> QED
  BY <1>1, Invariance, PTL

(* The drain never waits, unnotified, on a count that is already zero.     *)
THEOREM DrainWoken == Spec => []DrainIsWoken
<1>1. IInv => DrainIsWoken
  BY DEF IInv, DrainInv
<1> QED
  BY <1>1, Invariance, PTL

(* A 200 stands for a committed effect, a 422 for one that never commits,  *)
(* a 400 or a 503 for a handler that is never reached.                     *)
THEOREM AnswersProve == Spec => []AnswerProves
<1>1. IInv => AnswerProves
  BY DEF IInv, AnswerInv, AnswerProves
<1> QED
  BY <1>1, Invariance, PTL

(***************************************************************************)
(* The calls implement the admission they promise                          *)
(***************************************************************************)
(* Before it is judged a call has no answer of a refused one, and one that *)
(* was refused never occupies a slot.                                      *)
LEMMA RefusedIsOutside ==
  ASSUME TypeOK, NEW c \in Call, HolderInv(c), AnswerInv(c), answer[c] = 503
  PROVE  c \notin Occupied /\ req[c] \in {"refused", "done"}
BY DEF TypeOK, HolderInv, RequestHolds, HandlerHolds, AnswerInv, Occupied

(* The cardinality the abstract module speaks of is this module's.         *)
LEMMA SameCardinality == \A S : Promise!Cardinality(S) = Cardinality(S)
  BY DEF Promise!Cardinality, Cardinality

(* An abstract step happens where a slot is taken, refused or freed; every *)
(* other step of a call is a stutter.                                      *)
LEMMA CallImplements ==
  ASSUME IInv, Alive, NEW c \in Call, RequestStep(c) \/ WorkerStep(c) \/ AuthorStep(c)
  PROVE  [Promise!Next]_(Promise!vars)
<1> DEFINE Gone == {d \in Call : req[d] # "read" /\ answer[d] # 503} \ Occupied
           Refused == {d \in Call : answer[d] = 503}
<1>1. TypeOK /\ CountInv /\ \A d \in Call : HolderInv(d) /\ AnswerInv(d)
  BY DEF IInv
<1>2. CASE Admit(c)
  <2>1. c \notin Occupied /\ Occupied' = Occupied \cup {c}
    BY <1>1, <1>2, AdmitOccupies
  <2>2. c \notin Gone /\ c \notin Refused
    BY <1>1, <1>2, RefusedIsOutside DEF Admit
  <2>3. \A d \in Call : d # c => (req'[d] = req[d])
    BY <1>1, <1>2 DEF Admit, TypeOK
  <2>4. Gone' = Gone /\ Refused' = Refused
    BY <1>1, <1>2, <2>1, <2>2, <2>3 DEF Admit, TypeOK
  <2>5. ~stopping /\ Cardinality(Occupied) < Limit
    BY <1>1, <1>2 DEF Admit, MayAdmit, CountInv
  <2>6. UNCHANGED <<stopping, main, remaining>>
    BY <1>2 DEF Admit, mainVars
  <2>7. Promise!Enter(c)
    BY SameCardinality, <2>1, <2>2, <2>4, <2>5, <2>6 DEF Promise!Enter, Promise!Waiting, Alive, ExitCode
  <2> QED
    BY <2>7 DEF Promise!Next
<1>3. CASE Refuse(c)
  <2>1. Occupied' = Occupied
    BY <1>1, <1>3 DEF Refuse, Occupied, TypeOK
  <2>2. c \notin Occupied /\ c \notin Gone /\ c \notin Refused
    BY <1>1, <1>3, RefusedIsOutside DEF Refuse, Occupied, TypeOK, HolderInv, RequestHolds, HandlerHolds
  <2>3. Refused' = Refused \cup {c} /\ Gone' = Gone
    BY <1>1, <1>3, <2>1, <2>2 DEF Refuse, TypeOK
  <2>4. stopping \/ Cardinality(Occupied) >= Limit
    BY <1>1, <1>3, LimitAssumption DEF Refuse, MayAdmit, CountInv, TypeOK
  <2>5. UNCHANGED <<stopping, main, remaining>>
    BY <1>3 DEF Refuse, mainVars
  <2>6. Promise!Refuse(c)
    BY SameCardinality, <2>1, <2>2, <2>3, <2>4, <2>5 DEF Promise!Refuse, Promise!Waiting, Alive, ExitCode
  <2> QED
    BY <2>6 DEF Promise!Next
<1>4. CASE Free(c) \/ HandlerFree(c)
  <2>1. c \in Occupied /\ Occupied' = Occupied \ {c}
    BY <1>1, <1>4, FreeVacates
  <2>2. answer[c] # 503 /\ req'[c] # "read" /\ UNCHANGED answer
    BY <1>1, <1>4, <2>1, RefusedIsOutside DEF Free, HandlerFree, TypeOK, HolderInv
  <2>3. \A d \in Call : d # c => req'[d] = req[d]
    BY <1>1, <1>4 DEF Free, HandlerFree, TypeOK
  <2>4. Gone' = Gone \cup {c} /\ Refused' = Refused
    BY <2>1, <2>2, <2>3
  <2>5. UNCHANGED <<stopping, main, remaining>>
    BY <1>4 DEF Free, HandlerFree, mainVars
  <2>6. Promise!Leave(c)
    BY <2>1, <2>4, <2>5 DEF Promise!Leave, Alive, ExitCode
  <2> QED
    BY <2>6 DEF Promise!Next
<1>5. CASE ~Admit(c) /\ ~Refuse(c) /\ ~Free(c) /\ ~HandlerFree(c)
  <2>1. Occupied' = Occupied
    BY <1>1, <1>5, OthersKeepOccupied
  <2>2. UNCHANGED <<stopping, main, remaining>>
    BY <1>5 DEF RequestStep, WorkerStep, AuthorStep, TakeDecoder, Decode, Reply, Hold, Start,
       StartFails, Judge, Send, Release, HandlerRelease, HandlerEnds, Commit, Return, mainVars
  <2>3. ASSUME NEW d \in Call
        PROVE  (req'[d] = "read" <=> req[d] = "read") /\ (answer'[d] = 503 <=> answer[d] = 503)
    <3>1. AnswerInv(d) /\ HolderInv(d) /\ TypeOK
      BY <1>1
    <3>2. CASE TakeDecoder(c) \/ Decode(c) \/ Hold(c) \/ Start(c) \/ StartFails(c)
      BY <3>1, <3>2 DEF TakeDecoder, Decode, Reply, Hold, Start, StartFails, TypeOK, AnswerInv
    <3>3. CASE Judge(c)
      BY <3>1, <3>3 DEF Judge, Reply, StatusOf, TypeOK, AnswerInv
    <3>4. CASE Send(c) \/ Release(c)
      BY <3>1, <3>4 DEF Send, Release, TypeOK, AnswerInv
    <3>5. CASE WorkerStep(c) \/ AuthorStep(c)
      BY <1>5, <3>5 DEF WorkerStep, AuthorStep, HandlerRelease, HandlerEnds, Commit, Return
    <3> QED
      BY <1>5, <3>2, <3>3, <3>4, <3>5 DEF RequestStep
  <2>4. Gone' = Gone /\ Refused' = Refused
    BY <2>1, <2>3
  <2> QED
    BY <2>1, <2>2, <2>4 DEF Promise!vars, Alive, ExitCode
<1> QED
  BY <1>2, <1>3, <1>4, <1>5

(* The main thread closes admission and ends the process, cleanly only     *)
(* with no slot occupied.                                                  *)
LEMMA MainImplements ==
  ASSUME IInv, Alive, Stop \/ DrainStep
  PROVE  [Promise!Next]_(Promise!vars)
<1>1. UNCHANGED <<Occupied, req, answer>>
  BY DEF Stop, DrainStep, ServingEnds, DrainChecks, GraceEnds, Exit, callVars, Occupied
<1>2. CASE Stop
  <2>1. Promise!Close \/ UNCHANGED Promise!vars
    BY <1>1, <1>2 DEF IInv, TypeOK, Stop, Promise!Close, Promise!vars, Alive, ExitCode
  <2> QED
    BY <2>1 DEF Promise!Next
<1>3. CASE ServingEnds \/ DrainChecks \/ GraceEnds
  BY <1>1, <1>3 DEF ServingEnds, DrainChecks, GraceEnds, Promise!vars, Alive
<1>4. CASE Exit
  <2>1. ExitCode = 0 => Occupied = {}
    BY <1>4, OccupiedIsCounted DEF IInv, TypeOK, DrainInv, ExitCode, Exit
  <2>2. Promise!End
    BY <1>1, <1>4, <2>1 DEF IInv, DrainInv, Exit, Promise!End, Alive, ExitCode
  <2> QED
    BY <2>2 DEF Promise!Next
<1> QED
  BY <1>2, <1>3, <1>4 DEF DrainStep

(* Every behaviour of the threads, locks and slots is a behaviour of the   *)
(* admission _Calls promises: "no call starts after the harness has begun  *)
(* draining and the drain cannot miss one".                                *)
THEOREM Refinement == Spec => Promise!Spec
<1>1. Init => Promise!Init
  BY DEF Init, Promise!Init, Occupied, Alive
<1>2. IInv /\ [Next]_vars => [Promise!Next]_(Promise!vars)
  <2> SUFFICES ASSUME IInv, [Next]_vars PROVE [Promise!Next]_(Promise!vars)
    OBVIOUS
  <2>1. CASE UNCHANGED vars
    BY <2>1 DEF vars, callVars, mainVars, Promise!vars, Occupied, Alive, ExitCode
  <2>2. CASE Next
    BY <2>1, <2>2, CallImplements, MainImplements DEF Next, Exited
  <2> QED
    BY <2>1, <2>2
<1> QED
  BY <1>1, <1>2, Invariance, PTL DEF Spec, Promise!Spec

=============================================================================
