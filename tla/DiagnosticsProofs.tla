------------------------- MODULE DiagnosticsProofs -------------------------
(***************************************************************************)
(* Proofs about Diagnostics, for every set of messages and every capacity: *)
(* the inductive invariant IInv, and the safety properties that follow.    *)
(***************************************************************************)
EXTENDS Diagnostics, FiniteSetTheorems, SequenceTheorems, TLAPS

(* The messages somebody said, and those about to be counted as dropped.   *)
Said == {m \in Message : sayer[m] # "silent"}
Full == {m \in Message : sayer[m] = "full"}

(* The queue is first in, first out, whatever the stream does: what was    *)
(* written, what the writer holds and what waits is what was accepted.     *)
InOrder == accepted = (done \o hand) \o queue

(* How far close() is says what it knows; the writer holds a message only  *)
(* while it writes it, and ends only with the flag set.                    *)
CloseInv ==
  /\ main = "serving" => taken = 0
  /\ main \in {"say", "full"} => taken > 0
  /\ closing <=> main \in {"join", "closed"}
  /\ mark <= Len(accepted)
  /\ writer # "write" => hand = <<>>
  /\ writer = "ended" => closing

CountInv ==
  /\ IsFiniteSet(Said) /\ IsFiniteSet(Full)
  /\ NothingVanishes

IInv == TypeOK /\ CloseInv /\ InOrder /\ WriterEndsDrained /\ CountInv

(* What any thread may do while the process lives.                         *)
Step ==
  \/ \E m \in Message : SayStep(m)
  \/ Check \/ Get \/ Write
  \/ TakeCount \/ CloseStep

Msg == Message \cup {Count}

(* A message is put where there is room for it.                            *)
LEMMA PutTypes ==
  ASSUME TypeOK, NEW m \in Msg, Put(m)
  PROVE  /\ queue' \in Seq(Msg) /\ Len(queue') <= Capacity /\ Len(queue') \in Nat
         /\ accepted' \in Seq(Msg) /\ Len(accepted') = Len(accepted) + 1 /\ Len(accepted) \in Nat
BY CapacityAssumption, AppendProperties DEF TypeOK, Put, Msg

(* Every variable stays in range, and the queue under its bound.           *)
LEMMA StepTypes ==
  ASSUME TypeOK,
         Step
  PROVE  TypeOK'
<1> USE DEF TypeOK
<1>1. CASE \E m \in Message : Say(m)
  <2>1. CASE UNCHANGED <<queue, accepted>>
    BY <1>1, <2>1 DEF Say
  <2>2. ASSUME NEW m \in Message, Put(m) PROVE TypeOK'
    <3>1. /\ queue' \in Seq(Msg) /\ Len(queue') <= Capacity
          /\ accepted' \in Seq(Msg)
      BY <2>2, PutTypes DEF Msg
    <3> QED
      BY <1>1, <3>1 DEF Say, Msg
  <2> QED
    BY <1>1, <2>1, <2>2 DEF Say, sayVars
<1>2. CASE \E m \in Message : CountDropped(m)
  BY <1>2 DEF CountDropped
<1>3. CASE Check
  BY <1>3 DEF Check
<1>4. CASE Get
  <2>1. CASE queue = <<>>
    BY <1>4, <2>1 DEF Get
  <2>2. CASE queue # <<>>
    <3>1. Head(queue) \in Message \cup {Count} /\ Tail(queue) \in Seq(Message \cup {Count})
          /\ Len(Tail(queue)) <= Capacity
      BY <2>2, CapacityAssumption, HeadTailProperties
    <3>2. <<Head(queue)>> \in Seq(Message \cup {Count}) /\ Len(<<Head(queue)>>) = 1
      BY <3>1
    <3>3. /\ hand' = <<Head(queue)>> /\ queue' = Tail(queue) /\ writer' = "write"
          /\ UNCHANGED <<accepted, dropped, closing, sayer, main, taken, done, mark>>
      BY <1>4, <2>2 DEF Get
    <3>4. /\ hand' \in Seq(Message \cup {Count}) /\ Len(hand') <= 1
          /\ queue' \in Seq(Message \cup {Count}) /\ Len(queue') <= Capacity
      BY <3>1, <3>2, <3>3
    <3> QED
      BY <3>3, <3>4
  <2> QED
    BY <2>1, <2>2
<1>5. CASE Write
  BY <1>5 DEF Write
<1>6. CASE TakeCount
  BY <1>6 DEF TakeCount
<1>7. CASE SayCount
  <2>1. CASE UNCHANGED <<queue, accepted>>
    BY <1>7, <2>1 DEF SayCount
  <2>2. CASE Put(Count)
    <3>1. /\ queue' \in Seq(Msg) /\ Len(queue') <= Capacity
          /\ accepted' \in Seq(Msg)
      BY <2>2, PutTypes DEF Msg
    <3> QED
      BY <1>7, <3>1 DEF SayCount, Msg
  <2> QED
    BY <1>7, <2>1, <2>2 DEF SayCount, sayVars
<1>8. CASE CountDroppedCount
  BY <1>8 DEF CountDroppedCount
<1>9. CASE SetClosing
  BY <1>9 DEF SetClosing
<1>10. CASE Join
  BY <1>10 DEF Join
<1> QED
  BY <1>1, <1>2, <1>3, <1>4, <1>5, <1>6, <1>7, <1>8, <1>9, <1>10 DEF Step, SayStep, CloseStep

(* How far close() is still says what it knows.                            *)
LEMMA StepClose ==
  ASSUME TypeOK, CloseInv,
         Step
  PROVE  CloseInv'
<1> USE DEF TypeOK, CloseInv
<1>1. CASE \E m \in Message : Say(m)
  BY <1>1 DEF Say, Put, sayVars
<1>2. CASE \E m \in Message : CountDropped(m)
  BY <1>2 DEF CountDropped
<1>3. CASE Check
  BY <1>3 DEF Check
<1>4. CASE Get
  BY <1>4 DEF Get
<1>5. CASE Write
  BY <1>5 DEF Write
<1>6. CASE TakeCount
  BY <1>6 DEF TakeCount
<1>7. CASE SayCount
  BY <1>7 DEF SayCount, Put, sayVars
<1>8. CASE CountDroppedCount
  BY <1>8 DEF CountDroppedCount
<1>9. CASE SetClosing
  BY <1>9 DEF SetClosing
<1>10. CASE Join
  BY <1>10 DEF Join
<1> QED
  BY <1>1, <1>2, <1>3, <1>4, <1>5, <1>6, <1>7, <1>8, <1>9, <1>10 DEF Step, SayStep, CloseStep

(* Putting last in the queue is putting last in the whole.                 *)
LEMMA PutsLast ==
  ASSUME NEW d \in Seq(Msg), NEW h \in Seq(Msg), NEW q \in Seq(Msg), NEW m \in Msg
  PROVE  Append((d \o h) \o q, m) = (d \o h) \o Append(q, m)
<1>1. d \o h \in Seq(Msg) /\ (d \o h) \o q \in Seq(Msg) /\ <<m>> \in Seq(Msg)
  BY ConcatProperties
<1>2. /\ Append((d \o h) \o q, m) = ((d \o h) \o q) \o <<m>>
      /\ Append(q, m) = q \o <<m>>
  BY <1>1, AppendIsConcat
<1>3. ((d \o h) \o q) \o <<m>> = (d \o h) \o (q \o <<m>>)
  BY <1>1, ConcatAssociative
<1> QED
  BY <1>2, <1>3

(* What is said goes behind all that was accepted.                         *)
LEMMA PutInOrder ==
  ASSUME TypeOK, InOrder, NEW m \in Msg, Put(m), UNCHANGED <<done, hand>>
  PROVE  InOrder'
<1>1. done \in Seq(Msg) /\ hand \in Seq(Msg) /\ queue \in Seq(Msg)
  BY DEF TypeOK, Msg
<1>2. Append((done \o hand) \o queue, m) = (done \o hand) \o Append(queue, m)
  BY <1>1, PutsLast
<1> QED
  BY <1>2 DEF InOrder, Put

(* Taking the head in hand moves nothing in the whole.                     *)
LEMMA TakesFirst ==
  ASSUME NEW d \in Seq(Msg), NEW q \in Seq(Msg), q # <<>>
  PROVE  (d \o <<>>) \o q = (d \o <<Head(q)>>) \o Tail(q)
<1>1. Head(q) \in Msg /\ Tail(q) \in Seq(Msg) /\ <<Head(q)>> \in Seq(Msg)
  OBVIOUS
<1>2. q = <<Head(q)>> \o Tail(q)
  BY <1>1
<1>3. (d \o <<Head(q)>>) \o Tail(q) = d \o (<<Head(q)>> \o Tail(q))
  BY <1>1, ConcatAssociative
<1>4. d \o <<>> = d
  BY ConcatEmptySeq
<1> QED
  BY <1>2, <1>3, <1>4

(* Nobody overtakes anybody.                                               *)
LEMMA StepOrder ==
  ASSUME TypeOK, CloseInv, InOrder,
         Step
  PROVE  InOrder'
<1> USE DEF TypeOK, CloseInv, InOrder, Msg
<1>1. CASE \E m \in Message : Say(m)
  <2>1. CASE UNCHANGED <<queue, accepted>>
    BY <1>1, <2>1 DEF Say
  <2>2. ASSUME NEW m \in Message, Put(m) PROVE InOrder'
    BY <1>1, <2>2, PutInOrder DEF Say
  <2> QED
    BY <1>1, <2>1, <2>2 DEF Say, sayVars
<1>2. CASE \E m \in Message : CountDropped(m)
  BY <1>2 DEF CountDropped
<1>3. CASE Check
  BY <1>3 DEF Check
<1>4. CASE Get
  BY <1>4, TakesFirst DEF Get
<1>5. CASE Write
  <2>1. (done \o hand) \o <<>> = done \o hand
    BY ConcatEmptySeq
  <2> QED
    BY <1>5, <2>1 DEF Write
<1>6. CASE TakeCount
  BY <1>6 DEF TakeCount
<1>7. CASE SayCount
  <2>1. CASE UNCHANGED <<queue, accepted>>
    BY <1>7, <2>1 DEF SayCount
  <2>2. CASE Put(Count)
    BY <1>7, <2>2, PutInOrder DEF SayCount
  <2> QED
    BY <1>7, <2>1, <2>2 DEF SayCount, sayVars
<1>8. CASE CountDroppedCount
  BY <1>8 DEF CountDroppedCount
<1>9. CASE SetClosing
  BY <1>9 DEF SetClosing
<1>10. CASE Join
  BY <1>10 DEF Join
<1> QED
  BY <1>1, <1>2, <1>3, <1>4, <1>5, <1>6, <1>7, <1>8, <1>9, <1>10 DEF Step, SayStep, CloseStep

(* The writer ends only where nothing is left.                             *)
LEMMA StepDrained ==
  ASSUME TypeOK, CloseInv, InOrder, WriterEndsDrained,
         Step
  PROVE  WriterEndsDrained'
<1> USE DEF TypeOK, CloseInv, InOrder, WriterEndsDrained
<1>1. CASE \E m \in Message : Say(m)
  BY <1>1 DEF Say, Put, sayVars
<1>2. CASE \E m \in Message : CountDropped(m)
  BY <1>2 DEF CountDropped
<1>3. CASE Check
  <2>1. CASE closing /\ queue = <<>>
    <3>1. accepted = done
      BY <1>3, <2>1, ConcatEmptySeq DEF Check
    <3> QED
      BY <1>3, <2>1, <3>1 DEF Check
  <2>2. CASE ~(closing /\ queue = <<>>)
    BY <1>3, <2>2 DEF Check
  <2> QED
    BY <2>1, <2>2
<1>4. CASE Get
  BY <1>4 DEF Get
<1>5. CASE Write
  BY <1>5 DEF Write
<1>6. CASE TakeCount
  BY <1>6 DEF TakeCount
<1>7. CASE SayCount
  BY <1>7 DEF SayCount, Put, sayVars
<1>8. CASE CountDroppedCount
  BY <1>8 DEF CountDroppedCount
<1>9. CASE SetClosing
  BY <1>9 DEF SetClosing
<1>10. CASE Join
  BY <1>10 DEF Join
<1> QED
  BY <1>1, <1>2, <1>3, <1>4, <1>5, <1>6, <1>7, <1>8, <1>9, <1>10 DEF Step, SayStep, CloseStep

(***************************************************************************)
(* The counts                                                              *)
(***************************************************************************)
(* What is offered and not yet counted, with the sets given names.         *)
ByClose == IF main \in {"full", "set", "join", "closed"} /\ taken > 0 THEN 1 ELSE 0
ByCloseFull == IF main = "full" THEN 1 ELSE 0
Balanced ==
  Cardinality(Said) + ByClose = Len(accepted) + (Cardinality(Full) + ByCloseFull) + dropped + taken

(* It is what NothingVanishes says, before a step and after it.            *)
LEMMA BalanceIs == (NothingVanishes <=> Balanced) /\ (NothingVanishes' <=> Balanced')
BY DEF NothingVanishes, Offered, BeingCounted, Balanced, ByClose, ByCloseFull, Said, Full

(* A message is said once, and is then in the queue or about to be counted.*)
LEMMA SayBalances ==
  ASSUME TypeOK, CountInv, NEW m \in Message, Say(m)
  PROVE  CountInv'
<1>1. /\ IsFiniteSet(Said) /\ IsFiniteSet(Full) /\ Balanced
      /\ Cardinality(Said) \in Nat /\ Cardinality(Full) \in Nat
  BY FS_CardinalityType, BalanceIs DEF CountInv
<1>2. m \notin Said /\ m \notin Full /\ UNCHANGED <<dropped, taken, main>>
  BY DEF Say, Said, Full
<1>3. Len(accepted) \in Nat /\ dropped \in Nat /\ taken \in Nat
  BY DEF TypeOK
<1>4. ByClose' = ByClose /\ ByCloseFull' = ByCloseFull /\ ByClose \in Nat /\ ByCloseFull \in Nat
  BY <1>2 DEF ByClose, ByCloseFull
<1>5. Said' = Said \cup {m}
  BY DEF Say, Said, TypeOK
<1>6. IsFiniteSet(Said') /\ Cardinality(Said') = Cardinality(Said) + 1
  BY <1>1, <1>2, <1>5, FS_AddElement
<1>7. CASE Put(m) /\ sayer' = [sayer EXCEPT ![m] = "said"]
  <2>1. Full' = Full
    BY <1>2, <1>7 DEF Full, TypeOK
  <2>2. Len(accepted') = Len(accepted) + 1
    BY <1>7, PutTypes DEF Msg
  <2>3. Balanced'
    <3> DEFINE S == Cardinality(Said)
               F == Cardinality(Full)
               L == Len(accepted)
    <3>1. S + ByClose = L + (F + ByCloseFull) + dropped + taken
      BY <1>1 DEF Balanced
    <3>2. Cardinality(Said)' = S + 1 /\ Cardinality(Full)' = F /\ Len(accepted)' = L + 1
      BY <1>6, <2>1, <2>2
    <3>3. S \in Nat /\ F \in Nat /\ L \in Nat
      BY <1>1, <1>3
    <3> HIDE DEF S, F, L
    <3>4. (S + 1) + ByClose = (L + 1) + (F + ByCloseFull) + dropped + taken
      BY <1>3, <1>4, <3>1, <3>3
    <3> QED
      BY <1>2, <1>4, <3>2, <3>4 DEF Balanced
  <2> QED
    BY <1>1, <1>6, <2>1, <2>3, BalanceIs DEF CountInv
<1>8. CASE sayer' = [sayer EXCEPT ![m] = "full"] /\ UNCHANGED accepted
  <2>1. Full' = Full \cup {m}
    BY <1>8 DEF Full, TypeOK
  <2>2. IsFiniteSet(Full') /\ Cardinality(Full') = Cardinality(Full) + 1
    BY <1>1, <1>2, <2>1, FS_AddElement
  <2>3. Len(accepted') = Len(accepted) /\ dropped' = dropped /\ taken' = taken
    BY <1>2, <1>8
  <2>4. Balanced'
    <3> DEFINE S == Cardinality(Said)
               F == Cardinality(Full)
               L == Len(accepted)
    <3>1. S + ByClose = L + (F + ByCloseFull) + dropped + taken
      BY <1>1 DEF Balanced
    <3>2. Cardinality(Said)' = S + 1 /\ Cardinality(Full)' = F + 1 /\ Len(accepted)' = L
      BY <1>6, <2>2, <2>3
    <3>3. S \in Nat /\ F \in Nat /\ L \in Nat
      BY <1>1, <1>3
    <3> HIDE DEF S, F, L
    <3>4. (S + 1) + ByClose = L + ((F + 1) + ByCloseFull) + dropped + taken
      BY <1>3, <1>4, <3>1, <3>3
    <3> QED
      BY <1>4, <2>3, <3>2, <3>4 DEF Balanced
  <2> QED
    BY <1>6, <2>2, <2>4, BalanceIs DEF CountInv
<1> QED
  BY <1>7, <1>8 DEF Say, sayVars

(* Counting it is what it was about to do.                                 *)
LEMMA CountBalances ==
  ASSUME TypeOK, CountInv, NEW m \in Message, CountDropped(m)
  PROVE  CountInv'
<1>1. /\ IsFiniteSet(Said) /\ IsFiniteSet(Full) /\ Balanced
      /\ Cardinality(Said) \in Nat /\ Cardinality(Full) \in Nat
  BY FS_CardinalityType, BalanceIs DEF CountInv
<1>2. m \in Full /\ dropped' = dropped + 1 /\ UNCHANGED <<accepted, taken, main>>
  BY DEF CountDropped, Full
<1>3. Len(accepted) \in Nat /\ dropped \in Nat /\ taken \in Nat
  BY DEF TypeOK
<1>4. ByClose' = ByClose /\ ByCloseFull' = ByCloseFull /\ ByClose \in Nat /\ ByCloseFull \in Nat
  BY <1>2 DEF ByClose, ByCloseFull
<1>5. Said' = Said /\ Full' = Full \ {m}
  BY DEF CountDropped, Said, Full, TypeOK
<1>6. IsFiniteSet(Full') /\ Cardinality(Full') = Cardinality(Full) - 1
  BY <1>1, <1>2, <1>5, FS_RemoveElement
<1>7. Balanced'
  <2> DEFINE S == Cardinality(Said)
             F == Cardinality(Full)
             L == Len(accepted)
  <2>1. S + ByClose = L + (F + ByCloseFull) + dropped + taken
    BY <1>1 DEF Balanced
  <2>2. Cardinality(Said)' = S /\ Cardinality(Full)' = F - 1 /\ Len(accepted)' = L
    BY <1>2, <1>5, <1>6
  <2>3. S \in Nat /\ F \in Nat /\ L \in Nat
    BY <1>1, <1>3
  <2> HIDE DEF S, F, L
  <2>4. S + ByClose = L + ((F - 1) + ByCloseFull) + (dropped + 1) + taken
    BY <1>3, <1>4, <2>1, <2>3
  <2> QED
    BY <1>2, <1>4, <2>2, <2>4 DEF Balanced
<1> QED
  BY <1>1, <1>5, <1>6, <1>7, BalanceIs DEF CountInv

(* The writer and close() move what is counted from one place to another.  *)
LEMMA CloseBalances ==
  ASSUME TypeOK, CloseInv, CountInv, Check \/ Get \/ Write \/ TakeCount \/ CloseStep
  PROVE  CountInv'
<1>1. IsFiniteSet(Said) /\ IsFiniteSet(Full) /\ Balanced
      /\ Cardinality(Said) \in Nat /\ Cardinality(Full) \in Nat
  BY FS_CardinalityType, BalanceIs DEF CountInv
<1>2. Said' = Said /\ Full' = Full
  BY DEF Said, Full, Check, Get, Write, TakeCount, CloseStep, SayCount, CountDroppedCount, SetClosing, Join
<1>3. Len(accepted) \in Nat /\ dropped \in Nat /\ taken \in Nat
  BY DEF TypeOK
<1> SUFFICES Balanced'
  BY <1>1, <1>2, BalanceIs DEF CountInv
<1> USE <1>1, <1>2, <1>3 DEF Balanced, ByClose, ByCloseFull, CloseInv
<1>4. CASE Check \/ Get \/ Write
  BY <1>4 DEF Check, Get, Write
<1>5. CASE TakeCount
  BY <1>5 DEF TakeCount
<1>6. CASE SayCount
  <2>1. CASE Put(Count) /\ main' = "set"
    <3>1. Len(accepted') = Len(accepted) + 1
      BY <2>1, PutTypes DEF Msg
    <3>2. main = "say" /\ taken' = taken /\ dropped' = dropped /\ taken > 0
      BY <1>6 DEF SayCount
    <3> QED
      BY <2>1, <3>1, <3>2
  <2>2. CASE main' = "full" /\ UNCHANGED sayVars
    BY <1>6, <2>2 DEF SayCount, sayVars
  <2> QED
    BY <1>6, <2>1, <2>2 DEF SayCount
<1>7. CASE CountDroppedCount
  BY <1>7 DEF CountDroppedCount
<1>8. CASE SetClosing \/ Join
  BY <1>8 DEF SetClosing, Join
<1> QED
  BY <1>4, <1>5, <1>6, <1>7, <1>8 DEF CloseStep

(***************************************************************************)
(* The inductive invariant holds                                           *)
(***************************************************************************)
(* Nothing was said yet.                                                   *)
LEMMA InitIInv == Init => IInv
<1> SUFFICES ASSUME Init PROVE IInv
  OBVIOUS
<1>1. TypeOK
  <2>1. <<>> \in Seq(Message \cup {Count}) /\ Len(<<>>) = 0 /\ 0 <= Capacity
    BY CapacityAssumption, EmptySeq
  <2>2. 0 \in Nat /\ 0 <= 1 /\ [m \in Message |-> "silent"] \in [Message -> {"silent", "full", "said"}]
    OBVIOUS
  <2>3. /\ queue = <<>> /\ accepted = <<>> /\ done = <<>> /\ hand = <<>>
        /\ dropped = 0 /\ taken = 0 /\ mark = 0 /\ closing = FALSE
        /\ sayer = [m \in Message |-> "silent"] /\ writer = "check" /\ main = "serving"
    BY DEF Init
  <2> QED
    BY <2>1, <2>2, <2>3 DEF TypeOK
<1>2. CloseInv /\ WriterEndsDrained
  BY DEF Init, CloseInv, WriterEndsDrained
<1>3. InOrder
  BY DEF Init, InOrder
<1>4. Said = {} /\ Full = {}
  BY DEF Init, Said, Full
<1>5. Balanced
  BY <1>4, FS_EmptySet DEF Init, Balanced, ByClose, ByCloseFull
<1>6. CountInv
  BY <1>4, <1>5, FS_EmptySet, BalanceIs DEF CountInv
<1> QED
  BY <1>1, <1>2, <1>3, <1>6 DEF IInv

(* No step of any thread breaks it.                                        *)
LEMMA StepIInv ==
  ASSUME IInv, Step
  PROVE  IInv'
<1>1. TypeOK' /\ CloseInv' /\ InOrder' /\ WriterEndsDrained'
  BY StepTypes, StepClose, StepOrder, StepDrained DEF IInv
<1>2. CountInv'
  BY SayBalances, CountBalances, CloseBalances DEF IInv, Step, SayStep
<1> QED
  BY <1>1, <1>2 DEF IInv

(* Nor does standing still.                                                *)
LEMMA StutterIInv ==
  ASSUME IInv, UNCHANGED vars
  PROVE  IInv'
BY DEF IInv, TypeOK, CloseInv, InOrder, WriterEndsDrained, CountInv, NothingVanishes,
       Offered, BeingCounted, Said, Full, vars

(* IInv holds in every reachable state, for any messages and capacity.     *)
THEOREM Invariance == Spec => []IInv
<1>1. IInv /\ [Next]_vars => IInv'
  BY StepIInv, StutterIInv DEF Next, Step
<1> QED
  BY InitIInv, <1>1, PTL DEF Spec

(***************************************************************************)
(* What follows                                                            *)
(***************************************************************************)
(* Every variable stays in range; the queue stays under its bound.         *)
THEOREM TypeCorrect == Spec => []TypeOK
<1>1. IInv => TypeOK
  BY DEF IInv
<1> QED
  BY <1>1, Invariance, PTL

(* Each message ever said was queued, is counted, or is about to be.       *)
THEOREM NoneVanishes == Spec => []NothingVanishes
<1>1. IInv => NothingVanishes
  BY DEF IInv, CountInv
<1> QED
  BY <1>1, Invariance, PTL

(* The writer ends only with everything written that was queued before the *)
(* flag was set.                                                           *)
THEOREM WriterDrains == Spec => []WriterEndsDrained
<1>1. IInv => WriterEndsDrained
  BY DEF IInv
<1> QED
  BY <1>1, Invariance, PTL

(* What is written is what was accepted, in that order, up to where the    *)
(* stream has come.                                                        *)
THEOREM WrittenInOrder == Spec => [](\A i \in 1..Len(done) : i <= Len(accepted) /\ done[i] = accepted[i])
<1>1. IInv => \A i \in 1..Len(done) : i <= Len(accepted) /\ done[i] = accepted[i]
  <2> SUFFICES ASSUME IInv, NEW i \in 1..Len(done)
               PROVE  i <= Len(accepted) /\ done[i] = accepted[i]
    OBVIOUS
  <2>1. done \in Seq(Msg) /\ hand \in Seq(Msg) /\ queue \in Seq(Msg) /\ accepted = (done \o hand) \o queue
    BY DEF IInv, TypeOK, InOrder, Msg
  <2>2. done \o hand \in Seq(Msg) /\ Len(done \o hand) = Len(done) + Len(hand) /\ (done \o hand)[i] = done[i]
    BY <2>1, ConcatProperties
  <2> QED
    BY <2>1, <2>2, ConcatProperties
<1> QED
  BY <1>1, Invariance, PTL

(***************************************************************************)
(* It implements the buffer that Buffer specifies                          *)
(***************************************************************************)
(* What Buffer's variables stand for, by name.                             *)
CloseSaid == IF main \in {"full", "set", "join", "closed"} /\ taken > 0 THEN {Count} ELSE {}
Gone == BeingCounted + dropped + taken
Seen == <<Said \cup CloseSaid, hand \o queue, done, Gone, closing, writer = "ended", main = "closed">>

(* Buffer's variables stand still where those do.                          *)
LEMMA SeenIs == Seen' = Seen => UNCHANGED Promise!vars
BY DEF Seen, Said, CloseSaid, Gone, Promise!vars

(* What the buffer keeps, and how what it counts reads.                    *)
LEMMA Kept ==
  ASSUME IInv
  PROVE  /\ queue \in Seq(Msg) /\ hand \in Seq(Msg) /\ done \in Seq(Msg)
         /\ hand \o queue \in Seq(Msg) /\ Len(hand \o queue) = Len(hand) + Len(queue)
         /\ Len(queue) \in Nat /\ Len(queue) <= Capacity /\ Len(hand) \in Nat /\ Len(hand) <= 1
         /\ IsFiniteSet(Full) /\ Cardinality(Full) \in Nat
         /\ BeingCounted = Cardinality(Full) + ByCloseFull /\ ByCloseFull \in Nat
         /\ dropped \in Nat /\ taken \in Nat /\ Gone \in Nat
<1>1. /\ queue \in Seq(Msg) /\ hand \in Seq(Msg) /\ done \in Seq(Msg)
      /\ Len(queue) <= Capacity /\ Len(hand) <= 1 /\ dropped \in Nat /\ taken \in Nat
  BY DEF IInv, TypeOK, Msg
<1>2. IsFiniteSet(Full) /\ Cardinality(Full) \in Nat
  BY FS_CardinalityType DEF IInv, CountInv
<1>3. BeingCounted = Cardinality(Full) + ByCloseFull /\ ByCloseFull \in Nat
  BY DEF BeingCounted, Full, ByCloseFull
<1>4. Gone \in Nat
  BY <1>1, <1>2, <1>3 DEF Gone
<1>5. hand \o queue \in Seq(Msg) /\ Len(hand \o queue) = Len(hand) + Len(queue)
  BY <1>1, ConcatProperties
<1>6. Len(queue) \in Nat /\ Len(hand) \in Nat /\ Len(hand) <= 1
  <2>1. Len(queue) \in Nat /\ Len(hand) \in Nat
    BY <1>1, LenProperties
  <2> QED
    BY <1>1, <2>1
<1> QED
  BY <1>1, <1>2, <1>3, <1>4, <1>5, <1>6

(* Behind the queue is behind what is in hand too.                         *)
LEMMA PutsBehind ==
  ASSUME NEW h \in Seq(Msg), NEW q \in Seq(Msg), NEW m \in Msg
  PROVE  h \o Append(q, m) = Append(h \o q, m)
<1>1. h \o q \in Seq(Msg) /\ <<m>> \in Seq(Msg)
  BY ConcatProperties
<1>2. Append(q, m) = q \o <<m>> /\ Append(h \o q, m) = (h \o q) \o <<m>>
  BY <1>1, AppendIsConcat
<1> QED
  BY <1>1, <1>2, ConcatAssociative

(* The writer holds one message at most, and it is the first to come out.  *)
LEMMA OneHeld ==
  ASSUME NEW h \in Seq(Msg), h # <<>>, Len(h) <= 1
  PROVE  h = <<Head(h)>> /\ Head(h) \in Msg
<1>1. Len(h) = 1 /\ Head(h) = h[1] /\ h[1] \in Msg
  <2>1. Len(h) \in Nat /\ Len(h) # 0
    BY LenProperties, EmptySeq
  <2>2. \A n \in Nat : n # 0 /\ n <= 1 => n = 1
    OBVIOUS
  <2>3. Len(h) = 1
    BY <2>1, <2>2, Zenon
  <2> QED
    BY <2>3
<1>2. <<h[1]>> \in Seq(Msg) /\ Len(<<h[1]>>) = 1 /\ <<h[1]>>[1] = h[1]
  BY <1>1
<1> QED
  BY <1>1, <1>2, SeqEqual

LEMMA FirstOut ==
  ASSUME NEW m \in Msg, NEW q \in Seq(Msg)
  PROVE  <<m>> \o q # <<>> /\ Head(<<m>> \o q) = m /\ Tail(<<m>> \o q) = q
OBVIOUS

(* A message put in the queue is one the buffer takes.                     *)
LEMMA PutTakes ==
  ASSUME IInv, NEW m \in Msg, Put(m), UNCHANGED hand, Gone' = Gone
  PROVE  Promise!Take(m)
<1>1. hand \o Append(queue, m) = Append(hand \o queue, m)
  BY Kept, PutsBehind
<1>2. (hand \o queue)' = Append(hand \o queue, m)
  BY <1>1 DEF Put
<1>3. Len(hand \o queue) <= Capacity
  <2>1. Len(hand) \in Nat /\ Len(hand) <= 1 /\ Len(queue) \in Nat /\ Len(hand \o queue) = Len(hand) + Len(queue)
    BY Kept
  <2>2. Len(queue) < Capacity
    BY DEF Put
  <2> QED
    BY <2>1, <2>2, CapacityAssumption
<1> QED
  BY <1>2, <1>3 DEF Promise!Take, Gone

(* One that finds it full is one the buffer drops.                         *)
LEMMA FullDrops ==
  ASSUME IInv, Len(queue) = Capacity, UNCHANGED <<hand, queue>>, Gone' = Gone + 1
  PROVE  Promise!Drop
<1>1. Len(hand \o queue) >= Capacity
  BY Kept, CapacityAssumption
<1> QED
  BY <1>1 DEF Promise!Drop, Gone

(* Saying a message offers it: it is taken, or lost and counted.           *)
LEMMA SayOffers ==
  ASSUME IInv, NEW m \in Message, Say(m), Alive
  PROVE  Promise!Next
<1>1. m \notin Said /\ m \notin Full /\ m # Count /\ m \in Msg
      /\ UNCHANGED <<dropped, taken, main, closing, writer, hand, done>>
  BY CountAssumption DEF Say, Said, Full, Msg
<1>2. Said' = Said \cup {m} /\ CloseSaid' = CloseSaid /\ m \notin CloseSaid
  BY <1>1 DEF Say, Said, CloseSaid, IInv, TypeOK
<1>3. ByCloseFull' = ByCloseFull
  BY <1>1 DEF ByCloseFull
<1>4. Promise!Take(m) \/ Promise!Drop
  <2>1. CASE Put(m) /\ sayer' = [sayer EXCEPT ![m] = "said"]
    <3>1. Full' = Full
      BY <1>1, <2>1 DEF Full, IInv, TypeOK
    <3>2. Gone' = Gone
      BY <1>1, <1>3, <3>1 DEF Gone, BeingCounted, Full, ByCloseFull
    <3> QED
      BY <1>1, <2>1, <3>2, PutTakes
  <2>2. CASE Len(queue) = Capacity /\ sayer' = [sayer EXCEPT ![m] = "full"] /\ UNCHANGED sayVars
    <3>1. Full' = Full \cup {m}
      BY <2>2 DEF Full, IInv, TypeOK
    <3>2. Cardinality(Full') = Cardinality(Full) + 1
      BY <1>1, <3>1, Kept, FS_AddElement
    <3>3. BeingCounted' = Cardinality(Full') + ByCloseFull'
      BY DEF BeingCounted, Full, ByCloseFull
    <3>4. Gone' = Gone + 1
      BY <1>1, <1>3, <3>2, <3>3, Kept DEF Gone
    <3> QED
      BY <1>1, <2>2, <3>4, FullDrops DEF sayVars
  <2> QED
    BY <2>1, <2>2 DEF Say
<1>5. Promise!Say(m)
  BY <1>1, <1>2, <1>4 DEF Promise!Say, Promise!Offer, Said, CloseSaid
<1> QED
  BY <1>5 DEF Promise!Next, Alive

(* close() offers its own message, and only with something to say.         *)
LEMMA SayCountOffers ==
  ASSUME IInv, SayCount
  PROVE  Promise!Next
<1>1. /\ main = "say" /\ taken > 0 /\ ~closing
      /\ UNCHANGED <<dropped, taken, sayer, closing, writer, hand, done>>
  BY DEF SayCount, IInv, CloseInv
<1>2. Said' = Said /\ Full' = Full /\ Count \notin Said
  BY <1>1, CountAssumption DEF Said, Full
<1>3. main' \in {"set", "full"}
  BY DEF SayCount
<1>4. CloseSaid = {} /\ CloseSaid' = {Count}
  BY <1>1, <1>3 DEF CloseSaid
<1>5. Gone > 0
  BY <1>1, Kept DEF Gone
<1>6. /\ ByCloseFull = 0 /\ BeingCounted = Cardinality(Full) + ByCloseFull
      /\ BeingCounted' = Cardinality(Full') + ByCloseFull'
  BY <1>1 DEF BeingCounted, Full, ByCloseFull
<1>7. Promise!Take(Count) \/ Promise!Drop
  <2>1. CASE Put(Count) /\ main' = "set"
    <3>1. Gone' = Gone
      BY <1>1, <1>2, <1>6, <2>1 DEF Gone, ByCloseFull
    <3> QED
      BY <1>1, <2>1, <3>1, PutTakes DEF Msg
  <2>2. CASE Len(queue) = Capacity /\ main' = "full" /\ UNCHANGED sayVars
    <3>1. ByCloseFull' = 1
      BY <2>2 DEF ByCloseFull
    <3>2. Gone' = Gone + 1
      BY <1>1, <1>2, <1>6, <3>1, Kept DEF Gone
    <3> QED
      BY <1>1, <2>2, <3>2, FullDrops DEF sayVars
  <2> QED
    BY <2>1, <2>2 DEF SayCount
<1>8. Promise!Say(Count)
  BY <1>1, <1>2, <1>3, <1>4, <1>5, <1>7 DEF Promise!Say, Promise!Offer, Said, CloseSaid, Gone
<1> QED
  BY <1>1, <1>8 DEF Promise!Next

(* Counting, and taking the count, move what was lost from place to place. *)
LEMMA CountingIsUnseen ==
  ASSUME IInv, Alive, (\E m \in Message : CountDropped(m)) \/ TakeCount \/ CountDroppedCount
  PROVE  UNCHANGED Promise!vars
<1>1. /\ BeingCounted = Cardinality(Full) + ByCloseFull
      /\ BeingCounted' = Cardinality(Full') + ByCloseFull'
  BY DEF BeingCounted, Full, ByCloseFull
<1>2. UNCHANGED <<queue, hand, done, closing, writer>> /\ main # "closed" /\ main' # "closed"
  BY DEF CountDropped, TakeCount, CountDroppedCount, Alive
<1> SUFFICES Said' = Said /\ CloseSaid' = CloseSaid /\ Gone' = Gone
  BY <1>2, SeenIs DEF Seen
<1>3. ASSUME NEW m \in Message, CountDropped(m)
      PROVE  Said' = Said /\ CloseSaid' = CloseSaid /\ Gone' = Gone
  <2>1. m \in Full /\ Full' = Full \ {m} /\ Said' = Said
    BY <1>3 DEF CountDropped, Said, Full, IInv, TypeOK
  <2>2. Cardinality(Full') = Cardinality(Full) - 1
    BY <2>1, Kept, FS_RemoveElement
  <2>3. ByCloseFull' = ByCloseFull /\ CloseSaid' = CloseSaid /\ dropped' = dropped + 1 /\ taken' = taken
    BY <1>3 DEF CountDropped, ByCloseFull, CloseSaid
  <2>4. BeingCounted \in Nat /\ BeingCounted' = BeingCounted - 1
    <3>1. Cardinality(Full)' = Cardinality(Full) - 1
      BY <2>2
    <3> QED
      BY <1>1, <2>3, <3>1, Kept
  <2> QED
    BY <2>1, <2>3, <2>4, Kept DEF Gone
<1>4. CASE TakeCount
  <2>1. Said' = Said /\ Full' = Full /\ ByCloseFull' = ByCloseFull
    BY <1>4 DEF TakeCount, Said, Full, ByCloseFull
  <2>2. taken = 0 /\ taken' = dropped /\ dropped' = 0 /\ CloseSaid' = CloseSaid
    BY <1>4, Kept DEF TakeCount, CloseSaid, IInv, CloseInv
  <2> QED
    BY <1>1, <2>1, <2>2, Kept DEF Gone
<1>5. CASE CountDroppedCount
  <2>1. Said' = Said /\ Full' = Full /\ CloseSaid' = CloseSaid /\ taken' = taken
    BY <1>5 DEF CountDroppedCount, Said, Full, CloseSaid
  <2>2. ByCloseFull = 1 /\ ByCloseFull' = 0 /\ dropped' = dropped + 1
    BY <1>5 DEF CountDroppedCount, ByCloseFull
  <2> QED
    BY <1>1, <2>1, <2>2, Kept DEF Gone
<1> QED
  BY <1>3, <1>4, <1>5

(* The writer takes what waits in hand, writes it, and ends with nothing.  *)
LEMMA WriterImplements ==
  ASSUME IInv, Alive, Check \/ Get \/ Write
  PROVE  [Promise!Next]_(Promise!vars)
<1>1. UNCHANGED <<sayer, dropped, taken, main, closing>>
  BY DEF Check, Get, Write
<1>2. Said' = Said /\ CloseSaid' = CloseSaid /\ Gone' = Gone
  BY <1>1 DEF Said, CloseSaid, Gone, BeingCounted
<1>3. CASE Check
  <2>1. CASE closing /\ queue = <<>>
    <3>1. hand \o queue = <<>>
      BY <1>3, <2>1, ConcatEmptySeq DEF Check, IInv, CloseInv
    <3>2. Promise!Drain
      BY <1>2, <1>3, <2>1, <3>1 DEF Check, Promise!Drain, Said, CloseSaid, Gone
    <3> QED
      BY <1>1, <3>2 DEF Promise!Next, Alive
  <2>2. CASE ~(closing /\ queue = <<>>)
    BY <1>1, <1>2, <1>3, <2>2, SeenIs DEF Check, Seen
  <2> QED
    BY <2>1, <2>2
<1>4. CASE Get
  <2>1. CASE queue = <<>>
    BY <1>1, <1>2, <1>4, <2>1, SeenIs DEF Get, Seen
  <2>2. CASE queue # <<>>
    <3>1. hand = <<>> /\ hand' = <<Head(queue)>> /\ queue' = Tail(queue)
          /\ UNCHANGED done /\ (writer' = "ended") = (writer = "ended")
      BY <1>4, <2>2 DEF Get, IInv, CloseInv
    <3>2. hand \o queue = hand' \o queue'
      BY <2>2, <3>1, Kept, ConcatEmptySeq
    <3> QED
      BY <1>1, <1>2, <3>1, <3>2, SeenIs DEF Seen
  <2> QED
    BY <2>1, <2>2
<1>5. CASE Write
  <2>1. writer = "write" /\ done' = done \o hand /\ hand' = <<>> /\ queue' = queue /\ writer' = "check"
    BY <1>5 DEF Write
  <2>2. CASE hand = <<>>
    BY <1>1, <1>2, <2>1, <2>2, Kept, ConcatEmptySeq, SeenIs DEF Seen
  <2>3. CASE hand # <<>>
    <3>1. hand = <<Head(hand)>> /\ Head(hand) \in Msg
      BY <2>3, Kept, OneHeld
    <3>2. /\ hand \o queue # <<>> /\ Head(hand \o queue) = Head(hand)
          /\ Tail(hand \o queue) = queue
      BY <3>1, Kept, FirstOut
    <3>3. hand' \o queue' = queue
      BY <2>1, Kept, ConcatEmptySeq
    <3>4. done' = Append(done, Head(hand))
      BY <2>1, <3>1, Kept, AppendIsConcat
    <3>5. Promise!Write
      BY <1>1, <1>2, <2>1, <3>2, <3>3, <3>4 DEF Promise!Write, Said, CloseSaid, Gone
    <3> QED
      BY <1>1, <3>5 DEF Promise!Next, Alive
  <2> QED
    BY <2>2, <2>3
<1> QED
  BY <1>3, <1>4, <1>5

(* The flag closes it, and the process ends whatever still waits.          *)
LEMMA CloseImplements ==
  ASSUME IInv, SetClosing \/ Join
  PROVE  Promise!Next
<1>1. UNCHANGED <<queue, hand, done, writer, sayer, dropped, taken>>
  BY DEF SetClosing, Join
<1>2. Said' = Said /\ CloseSaid' = CloseSaid /\ Gone' = Gone
  BY <1>1 DEF SetClosing, Join, Said, CloseSaid, Gone, BeingCounted
<1>3. CASE SetClosing
  <2>1. Promise!Close
    BY <1>1, <1>2, <1>3 DEF SetClosing, IInv, CloseInv, Promise!Close, Said, CloseSaid, Gone
  <2> QED
    BY <1>3, <2>1 DEF SetClosing, Promise!Next
<1>4. CASE Join
  <2>1. Promise!End
    BY <1>1, <1>2, <1>4 DEF Join, IInv, CloseInv, Promise!End, Said, CloseSaid, Gone
  <2> QED
    BY <1>4, <2>1 DEF Join, Promise!Next
<1> QED
  BY <1>3, <1>4

(* _Diagnostics is a bounded buffer: its threads and its two locks show    *)
(* nothing that Buffer does not allow.                                     *)
THEOREM Refinement == Spec => ImplementsBuffer
<1>1. Init => Promise!Init
  <2> SUFFICES ASSUME Init PROVE Promise!Init
    OBVIOUS
  <2>1. Said = {} /\ Full = {} /\ CloseSaid = {}
    BY DEF Init, Said, Full, CloseSaid
  <2>2. Gone = 0
    BY <2>1, FS_EmptySet DEF Init, Gone, BeingCounted, Full
  <2>3. hand \o queue = <<>>
    BY ConcatEmptySeq DEF Init
  <2> QED
    BY <2>1, <2>2, <2>3 DEF Init, Promise!Init, Said, CloseSaid, Gone
<1>2. IInv /\ [Next]_vars => [Promise!Next]_(Promise!vars)
  <2> SUFFICES ASSUME IInv, [Next]_vars PROVE [Promise!Next]_(Promise!vars)
    OBVIOUS
  <2>1. CASE UNCHANGED vars
    BY <2>1, SeenIs DEF vars, Seen, Said, CloseSaid, Gone, BeingCounted
  <2>2. CASE Alive /\ Step
    BY <2>2, SayOffers, SayCountOffers, CountingIsUnseen, WriterImplements, CloseImplements
       DEF Step, SayStep, CloseStep
  <2> QED
    BY <2>1, <2>2 DEF Next, Step
<1> QED
  BY <1>1, <1>2, Invariance, PTL DEF Spec, Promise!Spec, ImplementsBuffer
=============================================================================
