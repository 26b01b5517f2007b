------------------------- MODULE ConnectionsProofs -------------------------
(***************************************************************************)
(* Proofs about Connections, for every set of sockets and every bound: the *)
(* inductive invariant IInv, and the safety properties that follow.        *)
(*                                                                         *)
(* The registry's lists are reasoned about by who is in them (Contains)    *)
(* and who comes before whom (Before); only the lemmas of the first part   *)
(* look at places.                                                         *)
(***************************************************************************)
EXTENDS Connections, FiniteSetTheorems, TLAPS

(***************************************************************************)
(* Lists without repetition                                                *)
(***************************************************************************)
(* RemoveFirst takes out the one place where the element is.               *)
LEMMA RemoveIsAt ==
  ASSUME NEW S, NEW s \in Seq(S), IsInjective(s), NEW i \in 1..Len(s)
  PROVE  RemoveFirst(s, s[i]) = RemoveAt(s, i)
<1> DEFINE I == {k \in 1..Len(s) : s[k] = s[i]}
<1>1. I = {i}
  BY DEF IsInjective
<1>2. SelectInSeq(s, LAMBDA v : v = s[i]) = IF I # {} THEN Min(I) ELSE 0
  BY DEF SelectInSeq
<1>3. Min(I) = i
  BY <1>1 DEF Min
<1> QED
  BY <1>1, <1>2, <1>3 DEF RemoveFirst

(* What RemoveAt leaves, place by place.                                   *)
LEMMA RemoveAtPlaces ==
  ASSUME NEW S, NEW s \in Seq(S), NEW i \in 1..Len(s)
  PROVE  /\ RemoveAt(s, i) \in Seq(S)
         /\ Len(RemoveAt(s, i)) = Len(s) - 1
         /\ \A j \in 1..(Len(s) - 1) : RemoveAt(s, i)[j] = IF j < i THEN s[j] ELSE s[j + 1]
<1> DEFINE front == SubSeq(s, 1, i - 1)
           back == SubSeq(s, i + 1, Len(s))
<1>1. front \in Seq(S) /\ Len(front) = i - 1 /\ \A j \in 1..(i - 1) : front[j] = s[j]
  OBVIOUS
<1>2. /\ back \in Seq(S) /\ Len(back) = Len(s) - i
      /\ \A j \in 1..(Len(s) - i) : back[j] = s[i + j]
  OBVIOUS
<1> HIDE DEF front, back
<1>3. RemoveAt(s, i) = front \o back
  BY DEF RemoveAt, front, back
<1>4. front \o back \in Seq(S) /\ Len(front \o back) = Len(s) - 1
  BY <1>1, <1>2
<1>5. ASSUME NEW j \in 1..(Len(s) - 1)
      PROVE  (front \o back)[j] = IF j < i THEN s[j] ELSE s[j + 1]
  <2>1. (front \o back)[j] = IF j <= Len(front) THEN front[j] ELSE back[j - Len(front)]
    BY <1>1, <1>2
  <2>2. CASE j < i
    BY <1>1, <2>1, <2>2
  <2>3. CASE ~(j < i)
    <3>1. j - (i - 1) \in 1..(Len(s) - i) /\ i + (j - (i - 1)) = j + 1
      BY <2>3
    <3> QED
      BY <1>1, <1>2, <2>1, <2>3, <3>1
  <2> QED
    BY <2>2, <2>3
<1> QED
  BY <1>3, <1>4, <1>5

(* Taking c out of a list leaves the others, in their order.               *)
LEMMA RemoveKeeps ==
  ASSUME NEW S, NEW s \in Seq(S), IsInjective(s), NEW c \in S
  PROVE  /\ RemoveFirst(s, c) \in Seq(S)
         /\ IsInjective(RemoveFirst(s, c))
         /\ \A d \in S : Contains(RemoveFirst(s, c), d) <=> Contains(s, d) /\ d # c
         /\ \A d, e \in S : Before(RemoveFirst(s, c), d, e) <=> Before(s, d, e) /\ d # c /\ e # c
<1> DEFINE r == RemoveFirst(s, c)
<1>1. CASE ~Contains(s, c)
  <2>1. r = s
    BY <1>1 DEF RemoveFirst, Contains
  <2> QED
    BY <1>1, <2>1 DEF Contains, Before
<1>2. CASE Contains(s, c)
  <2>1. PICK p \in 1..Len(s) : s[p] = c
    BY <1>2 DEF Contains
  <2>2. r = RemoveAt(s, p)
    BY <2>1, RemoveIsAt
  <2>3. /\ r \in Seq(S) /\ Len(r) = Len(s) - 1
        /\ \A j \in 1..(Len(s) - 1) : r[j] = IF j < p THEN s[j] ELSE s[j + 1]
    BY <2>2, RemoveAtPlaces
  <2> HIDE DEF r
  <2> DEFINE Old(j) == IF j < p THEN j ELSE j + 1
             New(k) == IF k < p THEN k ELSE k - 1
  <2>4. \A j \in 1..Len(r) : Old(j) \in 1..Len(s) /\ Old(j) # p /\ r[j] = s[Old(j)]
    BY <2>3
  <2>5. \A k \in 1..Len(s) : k # p => New(k) \in 1..Len(r) /\ r[New(k)] = s[k]
    BY <2>3
  <2>6. \A k \in 1..Len(s) : s[k] = c <=> k = p
    BY <2>1 DEF IsInjective
  <2>7. DOMAIN s = 1..Len(s) /\ DOMAIN r = 1..Len(r)
    BY <2>3
  <2>8. \A i, j \in 1..Len(r) : (i < j <=> Old(i) < Old(j)) /\ (Old(i) = Old(j) => i = j)
    BY <2>3
  <2>9. \A i, j \in 1..Len(s) : i # p /\ j # p => (i < j => New(i) < New(j))
    BY <2>3
  <2> HIDE DEF Old, New
  <2>10. IsInjective(r)
    BY <2>4, <2>7, <2>8 DEF IsInjective
  <2>11. ASSUME NEW d \in S PROVE Contains(r, d) <=> Contains(s, d) /\ d # c
    BY <2>4, <2>5, <2>6 DEF Contains
  <2>12. ASSUME NEW d \in S, NEW e \in S
         PROVE  Before(r, d, e) <=> Before(s, d, e) /\ d # c /\ e # c
    <3>1. ASSUME Before(r, d, e) PROVE Before(s, d, e) /\ d # c /\ e # c
      <4>1. PICK i, j \in 1..Len(r) : i < j /\ r[i] = d /\ r[j] = e
        BY <3>1 DEF Before
      <4>2. Old(i) < Old(j) /\ s[Old(i)] = d /\ s[Old(j)] = e
        BY <2>4, <2>8, <4>1
      <4> QED
        BY <2>4, <2>6, <4>2 DEF Before
    <3>2. ASSUME Before(s, d, e), d # c, e # c PROVE Before(r, d, e)
      <4>1. PICK i, j \in 1..Len(s) : i < j /\ s[i] = d /\ s[j] = e
        BY <3>2 DEF Before
      <4>2. New(i) < New(j) /\ r[New(i)] = d /\ r[New(j)] = e
        BY <2>5, <2>6, <2>9, <3>2, <4>1
      <4> QED
        BY <2>5, <2>6, <3>2, <4>1, <4>2 DEF Before
    <3> QED
      BY <3>1, <3>2
  <2> QED
    BY <2>3, <2>10, <2>11, <2>12 DEF r
<1> QED
  BY <1>1, <1>2

(* Appending c to a list without it puts it after all the others.          *)
LEMMA AppendKeeps ==
  ASSUME NEW S, NEW s \in Seq(S), IsInjective(s), NEW c \in S, ~Contains(s, c)
  PROVE  /\ Append(s, c) \in Seq(S)
         /\ IsInjective(Append(s, c))
         /\ \A d \in S : Contains(Append(s, c), d) <=> Contains(s, d) \/ d = c
         /\ \A d, e \in S : Before(Append(s, c), d, e) <=> Before(s, d, e) \/ (Contains(s, d) /\ e = c)
<1> DEFINE a == Append(s, c)
<1>1. /\ a \in Seq(S) /\ Len(a) = Len(s) + 1 /\ a[Len(s) + 1] = c
      /\ \A j \in 1..Len(s) : a[j] = s[j]
  OBVIOUS
<1>2. DOMAIN a = 1..Len(a) /\ DOMAIN s = 1..Len(s) /\ Len(s) \in Nat
  BY <1>1
<1> HIDE DEF a
<1>3. IsInjective(a)
  BY <1>1, <1>2 DEF IsInjective, Contains
<1>4. ASSUME NEW d \in S PROVE Contains(a, d) <=> Contains(s, d) \/ d = c
  BY <1>1, <1>2 DEF Contains
<1>5. ASSUME NEW d \in S, NEW e \in S
      PROVE  Before(a, d, e) <=> Before(s, d, e) \/ (Contains(s, d) /\ e = c)
  BY <1>1, <1>2 DEF Contains, Before
<1> QED
  BY <1>1, <1>3, <1>4, <1>5 DEF a

(***************************************************************************)
(* The inductive invariant                                                 *)
(***************************************************************************)
(* What a connection's thread holds, by where it is.                       *)
ThreadInv(c) ==
  /\ at[c] \in {"head", "body", "admit", "decode"} => reading[c]
  /\ at[c] \notin {"head", "body", "admit", "decode", "answer", "write", "leave", "unread"} => ~reading[c]
  /\ at[c] \in {"decode", "serve"} => held[c]
  /\ at[c] \notin {"decode", "serve", "answer", "write", "leave"} => ~held[c]
  /\ at[c] \notin {"admit", "decode", "answer", "write"} => ~body[c]

(* What the registry knows of it, by where it is.                          *)
RegistryInv(c) ==
  /\ at[c] \in Busy => Registered(c) /\ ~idle[c]
  /\ at[c] \in {"peek", "begun"} => Registered(c) \/ shut[c]
  /\ at[c] = "closed" => ~Registered(c) /\ ~shut[c]
  /\ Registered(c) => ~shut[c]

(* The two counts: readers out and slots taken are finitely many.          *)
Reading == {c \in Conn : reading[c]}
Held == {c \in Conn : held[c]}
CountInv ==
  /\ IsFiniteSet(Reading) /\ ReadersConserved
  /\ IsFiniteSet(Held) /\ Slots <= Limit

IInv ==
  /\ TypeOK
  /\ \A c \in Conn : ThreadInv(c) /\ RegistryInv(c)
  /\ LongestIdleFirst
  /\ CountInv

(***************************************************************************)
(* Steps that leave the registry alone                                     *)
(***************************************************************************)
(* What a connection's thread does between two visits to the registry.     *)
RequestStep(c) ==
  \/ PeekEnds(c) \/ TakeReader(c) \/ Reject(c) \/ HeadDropped(c) \/ BodyRefused(c)
  \/ Admit(c) \/ Refuse(c) \/ Decode(c) \/ ServeExpires(c) \/ Answer(c) \/ WriteFails(c)
  \/ Leave(c) \/ Unread(c) \/ Begin(c) \/ HeadArrives(c) \/ HeadRefused(c) \/ BodyArrives(c)
  \/ ServeReturns(c) \/ Written(c)

(* Where the thread may go, and nobody else's thread moves.                *)
LEMMA RequestMoves ==
  ASSUME TypeOK, NEW c \in Conn, RequestStep(c)
  PROVE  /\ UNCHANGED registryVars
         /\ at' = [at EXCEPT ![c] = at'[c]]
         /\ at'[c] \in At \ {"closed"}
         /\ at'[c] \in Busy => at[c] \in Busy
         /\ at'[c] = "begun" => at[c] = "peek"
         /\ at'[c] # "peek"
<1> USE DEF TypeOK, At, Busy
<1>1. CASE PeekEnds(c)
  BY <1>1 DEF PeekEnds, Go, registryVars
<1>2. CASE TakeReader(c)
  BY <1>2 DEF TakeReader, Go, registryVars
<1>3. CASE Reject(c)
  BY <1>3 DEF Reject, Go, registryVars
<1>4. CASE HeadDropped(c)
  BY <1>4 DEF HeadDropped, Go, registryVars
<1>5. CASE BodyRefused(c)
  BY <1>5 DEF BodyRefused, Go, Say, registryVars
<1>6. CASE Admit(c)
  BY <1>6 DEF Admit, Go, registryVars
<1>7. CASE Refuse(c)
  BY <1>7 DEF Refuse, Go, Say, DoneReading, registryVars
<1>8. CASE Decode(c)
  BY <1>8 DEF Decode, Go, Say, DoneReading, registryVars
<1>9. CASE ServeExpires(c)
  BY <1>9 DEF ServeExpires, Go, Say, registryVars
<1>10. CASE Answer(c)
  BY <1>10 DEF Answer, Go, registryVars
<1>11. CASE WriteFails(c)
  BY <1>11 DEF WriteFails, Go, registryVars
<1>12. CASE Leave(c)
  BY <1>12 DEF Leave, Go, registryVars
<1>13. CASE Unread(c)
  BY <1>13 DEF Unread, Go, Say, DoneReading, registryVars
<1>14. CASE Begin(c)
  BY <1>14 DEF Begin, Go, registryVars
<1>15. CASE HeadArrives(c)
  BY <1>15 DEF HeadArrives, Go, registryVars
<1>16. CASE HeadRefused(c)
  BY <1>16 DEF HeadRefused, Go, Say, registryVars
<1>17. CASE BodyArrives(c)
  BY <1>17 DEF BodyArrives, Go, registryVars
<1>18. CASE ServeReturns(c)
  BY <1>18 DEF ServeReturns, Go, Say, registryVars
<1>19. CASE Written(c)
  BY <1>19 DEF Written, Go, registryVars
<1> QED
  BY <1>1, <1>2, <1>3, <1>4, <1>5, <1>6, <1>7, <1>8, <1>9, <1>10, <1>11, <1>12, <1>13, <1>14, <1>15, <1>16, <1>17, <1>18, <1>19 DEF RequestStep

(* Every variable stays in range.                                          *)
LEMMA RequestTypes ==
  ASSUME TypeOK, NEW c \in Conn, RequestStep(c)
  PROVE  TypeOK'
<1>0. UNCHANGED registryVars /\ at' \in [Conn -> At]
  BY RequestMoves DEF TypeOK
<1> USE DEF TypeOK, registryVars
<1>1. CASE PeekEnds(c)
  BY <1>1, <1>0 DEF PeekEnds, Go
<1>2. CASE TakeReader(c)
  <2>1. readers' \in Nat
    BY <1>2 DEF TakeReader
  <2>2. reading' \in [Conn -> BOOLEAN]
    BY <1>2 DEF TakeReader
  <2> QED
    BY <1>2, <1>0, <2>1, <2>2 DEF TakeReader
<1>3. CASE Reject(c)
  BY <1>3, <1>0 DEF Reject, Go
<1>4. CASE HeadDropped(c)
  BY <1>4, <1>0 DEF HeadDropped, Go
<1>5. CASE BodyRefused(c)
  BY <1>5, <1>0 DEF BodyRefused, Go, Say
<1>6. CASE Admit(c)
  BY <1>6, <1>0 DEF Admit, Go
<1>7. CASE Refuse(c)
  BY <1>7, <1>0 DEF Refuse, Go, Say, DoneReading
<1>8. CASE Decode(c)
  BY <1>8, <1>0 DEF Decode, Go, Say, DoneReading
<1>9. CASE ServeExpires(c)
  BY <1>9, <1>0 DEF ServeExpires, Go, Say
<1>10. CASE Answer(c)
  BY <1>10, <1>0 DEF Answer, Go
<1>11. CASE WriteFails(c)
  BY <1>11, <1>0 DEF WriteFails, Go
<1>12. CASE Leave(c)
  BY <1>12, <1>0 DEF Leave, Go
<1>13. CASE Unread(c)
  BY <1>13, <1>0 DEF Unread, Go, Say, DoneReading
<1>14. CASE Begin(c)
  BY <1>14, <1>0 DEF Begin, Go
<1>15. CASE HeadArrives(c)
  BY <1>15, <1>0 DEF HeadArrives, Go
<1>16. CASE HeadRefused(c)
  BY <1>16, <1>0 DEF HeadRefused, Go, Say
<1>17. CASE BodyArrives(c)
  BY <1>17, <1>0 DEF BodyArrives, Go
<1>18. CASE ServeReturns(c)
  BY <1>18, <1>0 DEF ServeReturns, Go, Say
<1>19. CASE Written(c)
  BY <1>19, <1>0 DEF Written, Go
<1> QED
  BY <1>1, <1>2, <1>3, <1>4, <1>5, <1>6, <1>7, <1>8, <1>9, <1>10, <1>11, <1>12, <1>13, <1>14, <1>15, <1>16, <1>17, <1>18, <1>19 DEF RequestStep

(* A thread holds what its place says.                                     *)
LEMMA RequestThreads ==
  ASSUME TypeOK, \A e \in Conn : ThreadInv(e), NEW c \in Conn, RequestStep(c), NEW d \in Conn
  PROVE  ThreadInv(d)'
<1> USE DEF TypeOK, ThreadInv
<1>1. CASE PeekEnds(c)
  BY <1>1 DEF PeekEnds, Go
<1>2. CASE TakeReader(c)
  BY <1>2 DEF TakeReader, Go
<1>3. CASE Reject(c)
  BY <1>3 DEF Reject, Go
<1>4. CASE HeadDropped(c)
  BY <1>4 DEF HeadDropped, Go
<1>5. CASE BodyRefused(c)
  BY <1>5 DEF BodyRefused, Go, Say
<1>6. CASE Admit(c)
  BY <1>6 DEF Admit, Go
<1>7. CASE Refuse(c)
  BY <1>7 DEF Refuse, Go, Say, DoneReading
<1>8. CASE Decode(c)
  BY <1>8 DEF Decode, Go, Say, DoneReading
<1>9. CASE ServeExpires(c)
  BY <1>9 DEF ServeExpires, Go, Say
<1>10. CASE Answer(c)
  BY <1>10 DEF Answer, Go
<1>11. CASE WriteFails(c)
  BY <1>11 DEF WriteFails, Go
<1>12. CASE Leave(c)
  BY <1>12 DEF Leave, Go
<1>13. CASE Unread(c)
  BY <1>13 DEF Unread, Go, Say, DoneReading
<1>14. CASE Begin(c)
  BY <1>14 DEF Begin, Go
<1>15. CASE HeadArrives(c)
  BY <1>15 DEF HeadArrives, Go
<1>16. CASE HeadRefused(c)
  BY <1>16 DEF HeadRefused, Go, Say
<1>17. CASE BodyArrives(c)
  BY <1>17 DEF BodyArrives, Go
<1>18. CASE ServeReturns(c)
  BY <1>18 DEF ServeReturns, Go, Say
<1>19. CASE Written(c)
  BY <1>19 DEF Written, Go
<1> QED
  BY <1>1, <1>2, <1>3, <1>4, <1>5, <1>6, <1>7, <1>8, <1>9, <1>10, <1>11, <1>12, <1>13, <1>14, <1>15, <1>16, <1>17, <1>18, <1>19 DEF RequestStep

(* A registry that is not touched still knows what it should.              *)
LEMMA RequestRegistry ==
  ASSUME TypeOK, \A e \in Conn : RegistryInv(e), NEW c \in Conn, RequestStep(c), NEW d \in Conn
  PROVE  RegistryInv(d)'
<1>1. RegistryInv(d)
  OBVIOUS
<1> QED
  BY <1>1, RequestMoves DEF RegistryInv, registryVars, Registered, TypeOK

(***************************************************************************)
(* Steps of the registry                                                   *)
(***************************************************************************)
RegistryStep(c) == Accept(c) \/ Claim(c) \/ Rest(c) \/ Close(c)

(* A list from which b was taken and to whose end c was put.               *)
LEMMA ReplaceKeeps ==
  ASSUME NEW s \in Seq(Conn), IsInjective(s), NEW b \in Conn, NEW c \in Conn,
         ~Contains(s, c) \/ b = c
  PROVE  /\ Append(RemoveFirst(s, b), c) \in Seq(Conn)
         /\ IsInjective(Append(RemoveFirst(s, b), c))
         /\ \A d \in Conn : Contains(Append(RemoveFirst(s, b), c), d) <=>
                              (Contains(s, d) /\ d # b) \/ d = c
         /\ \A d, e \in Conn : Before(Append(RemoveFirst(s, b), c), d, e) <=>
                                 \/ Before(s, d, e) /\ d # b /\ e # b
                                 \/ Contains(s, d) /\ d # b /\ e = c
<1> DEFINE m == RemoveFirst(s, b)
<1>1. /\ m \in Seq(Conn) /\ IsInjective(m)
      /\ \A d \in Conn : Contains(m, d) <=> Contains(s, d) /\ d # b
      /\ \A d, e \in Conn : Before(m, d, e) <=> Before(s, d, e) /\ d # b /\ e # b
  BY RemoveKeeps
<1>2. ~Contains(m, c)
  BY <1>1
<1> HIDE DEF m
<1>3. /\ Append(m, c) \in Seq(Conn) /\ IsInjective(Append(m, c))
      /\ \A d \in Conn : Contains(Append(m, c), d) <=> Contains(m, d) \/ d = c
      /\ \A d, e \in Conn : Before(Append(m, c), d, e) <=> Before(m, d, e) \/ (Contains(m, d) /\ e = c)
  BY <1>1, <1>2, AppendKeeps
<1>4. /\ Append(m, c) \in Seq(Conn) /\ IsInjective(Append(m, c))
      /\ \A d \in Conn : Contains(Append(m, c), d) <=> (Contains(s, d) /\ d # b) \/ d = c
      /\ \A d, e \in Conn : Before(Append(m, c), d, e) <=>
                                 \/ Before(s, d, e) /\ d # b /\ e # b
                                 \/ Contains(s, d) /\ d # b /\ e = c
  BY <1>1, <1>3
<1> QED
  BY <1>4 DEF m

(* Who is evicted is registered and idle, so nobody is at work for it.     *)
LEMMA OldestIsIdle ==
  ASSUME NEW d \in Oldest
  PROVE  d \in Conn /\ Registered(d) /\ idle[d]
BY DEF Oldest, Registered, Contains

(* A step of the registry changes nothing a request holds.                 *)
LEMMA RegistryThreads ==
  ASSUME TypeOK, \A e \in Conn : ThreadInv(e), NEW c \in Conn, RegistryStep(c), NEW d \in Conn
  PROVE  ThreadInv(d)'
<1> USE DEF TypeOK, ThreadInv
<1>1. CASE Accept(c)
  BY <1>1 DEF Accept, Go
<1>2. CASE Claim(c)
  BY <1>2 DEF Claim, Go
<1>3. CASE Rest(c)
  BY <1>3 DEF Rest, Go
<1>4. CASE Close(c)
  BY <1>4 DEF Close, Go
<1> QED
  BY <1>1, <1>2, <1>3, <1>4 DEF RegistryStep

Ordered(s) == s \in Seq(Conn) /\ IsInjective(s)

(* The lists stay lists, and in one order.                                 *)
LEMMA RegistryLists ==
  ASSUME TypeOK, \A e \in Conn : RegistryInv(e), LongestIdleFirst, NEW c \in Conn, RegistryStep(c)
  PROVE  Ordered(open') /\ Ordered(waited') /\ LongestIdleFirst'
<1>0. /\ Ordered(open) /\ Ordered(waited) /\ idle \in [Conn -> BOOLEAN]
      /\ \A d \in Conn : Contains(waited, d) <=> Contains(open, d) /\ idle[d]
      /\ \A d, e \in Conn : Before(waited, d, e) => Before(open, d, e)
  BY DEF TypeOK, Ordered, LongestIdleFirst, Registered
<1> SUFFICES /\ Ordered(open') /\ Ordered(waited')
             /\ \A d \in Conn : Contains(waited', d) <=> Contains(open', d) /\ idle'[d]
             /\ \A d, e \in Conn : Before(waited', d, e) => Before(open', d, e)
  BY DEF LongestIdleFirst, Registered
<1>1. CASE Accept(c)
  <2>1. ~Contains(open, c) /\ ~Contains(waited, c) /\ idle' = [idle EXCEPT ![c] = TRUE]
    BY <1>0, <1>1 DEF Accept, RegistryInv, Registered
  <2>2. CASE open' = Append(open, c) /\ waited' = Append(waited, c)
    <3>1. /\ Ordered(open')
          /\ \A d \in Conn : Contains(open', d) <=> Contains(open, d) \/ d = c
          /\ \A d, e \in Conn : Before(open', d, e) <=> Before(open, d, e) \/ (Contains(open, d) /\ e = c)
      BY <1>0, <2>1, <2>2, AppendKeeps DEF Ordered
    <3>2. /\ Ordered(waited')
          /\ \A d \in Conn : Contains(waited', d) <=> Contains(waited, d) \/ d = c
          /\ \A d, e \in Conn : Before(waited', d, e) <=> Before(waited, d, e) \/ (Contains(waited, d) /\ e = c)
      BY <1>0, <2>1, <2>2, AppendKeeps DEF Ordered
    <3> QED
      BY <1>0, <2>1, <3>1, <3>2
  <2>3. ASSUME NEW b \in Oldest,
               open' = Append(RemoveFirst(open, b), c), waited' = Append(RemoveFirst(waited, b), c)
        PROVE  /\ Ordered(open') /\ Ordered(waited')
               /\ \A d \in Conn : Contains(waited', d) <=> Contains(open', d) /\ idle'[d]
               /\ \A d, e \in Conn : Before(waited', d, e) => Before(open', d, e)
    <3>1. b \in Conn
      BY OldestIsIdle
    <3>2. /\ Ordered(open')
          /\ \A d \in Conn : Contains(open', d) <=> (Contains(open, d) /\ d # b) \/ d = c
          /\ \A d, e \in Conn : Before(open', d, e) <=>
                \/ Before(open, d, e) /\ d # b /\ e # b
                \/ Contains(open, d) /\ d # b /\ e = c
      BY <1>0, <2>1, <2>3, <3>1, ReplaceKeeps DEF Ordered
    <3>3. /\ Ordered(waited')
          /\ \A d \in Conn : Contains(waited', d) <=> (Contains(waited, d) /\ d # b) \/ d = c
          /\ \A d, e \in Conn : Before(waited', d, e) <=>
                \/ Before(waited, d, e) /\ d # b /\ e # b
                \/ Contains(waited, d) /\ d # b /\ e = c
      BY <1>0, <2>1, <2>3, <3>1, ReplaceKeeps DEF Ordered
    <3> QED
      BY <1>0, <2>1, <3>2, <3>3
  <2> QED
    BY <1>1, <2>2, <2>3 DEF Accept
<1>2. CASE Claim(c)
  <2>1. CASE UNCHANGED <<open, idle, waited>>
    BY <1>0, <2>1
  <2>2. CASE Contains(open, c) /\ idle' = [idle EXCEPT ![c] = FALSE] /\ waited' = RemoveFirst(waited, c)
    <3>1. /\ Ordered(waited')
          /\ \A d \in Conn : Contains(waited', d) <=> Contains(waited, d) /\ d # c
          /\ \A d, e \in Conn : Before(waited', d, e) <=> Before(waited, d, e) /\ d # c /\ e # c
      BY <1>0, <2>2, RemoveKeeps DEF Ordered
    <3>2. open' = open
      BY <1>2 DEF Claim
    <3> QED
      BY <1>0, <2>2, <3>1, <3>2
  <2> QED
    BY <1>2, <2>1, <2>2 DEF Claim, Registered
<1>3. CASE Rest(c)
  <2>1. CASE UNCHANGED <<open, idle, waited>>
    BY <1>0, <2>1
  <2>2. CASE /\ open' = Append(RemoveFirst(open, c), c) /\ waited' = Append(waited, c)
             /\ idle' = [idle EXCEPT ![c] = TRUE]
    <3>1. ~Contains(waited, c)
      BY <1>0, <1>3 DEF Rest, RegistryInv, Busy
    <3>2. /\ Ordered(open')
          /\ \A d \in Conn : Contains(open', d) <=> (Contains(open, d) /\ d # c) \/ d = c
          /\ \A d, e \in Conn : Before(open', d, e) <=>
                \/ Before(open, d, e) /\ d # c /\ e # c
                \/ Contains(open, d) /\ d # c /\ e = c
      BY <1>0, <2>2, ReplaceKeeps DEF Ordered
    <3>3. /\ Ordered(waited')
          /\ \A d \in Conn : Contains(waited', d) <=> Contains(waited, d) \/ d = c
          /\ \A d, e \in Conn : Before(waited', d, e) <=> Before(waited, d, e) \/ (Contains(waited, d) /\ e = c)
      BY <1>0, <2>2, <3>1, AppendKeeps DEF Ordered
    <3>4. \A d, e \in Conn : Before(waited, d, e) => d # c /\ e # c
      BY <3>1 DEF Before, Contains
    <3> QED
      BY <1>0, <2>2, <3>1, <3>2, <3>3, <3>4
  <2> QED
    BY <1>3, <2>1, <2>2 DEF Rest
<1>4. CASE Close(c)
  <2>1. /\ open' = RemoveFirst(open, c) /\ waited' = RemoveFirst(waited, c)
        /\ idle' = [idle EXCEPT ![c] = FALSE]
    BY <1>4 DEF Close
  <2>2. /\ Ordered(open')
        /\ \A d \in Conn : Contains(open', d) <=> Contains(open, d) /\ d # c
        /\ \A d, e \in Conn : Before(open', d, e) <=> Before(open, d, e) /\ d # c /\ e # c
    BY <1>0, <2>1, RemoveKeeps DEF Ordered
  <2>3. /\ Ordered(waited')
        /\ \A d \in Conn : Contains(waited', d) <=> Contains(waited, d) /\ d # c
        /\ \A d, e \in Conn : Before(waited', d, e) <=> Before(waited, d, e) /\ d # c /\ e # c
    BY <1>0, <2>1, RemoveKeeps DEF Ordered
  <2> QED
    BY <1>0, <2>1, <2>2, <2>3
<1> QED
  BY <1>1, <1>2, <1>3, <1>4 DEF RegistryStep

(* The registry still knows where every thread is.                         *)
LEMMA RegistryKnows ==
  ASSUME TypeOK, \A e \in Conn : RegistryInv(e), NEW c \in Conn, RegistryStep(c), NEW d \in Conn
  PROVE  RegistryInv(d)'
<1>0. /\ Ordered(open) /\ RegistryInv(c) /\ RegistryInv(d)
      /\ at \in [Conn -> At] /\ idle \in [Conn -> BOOLEAN] /\ shut \in [Conn -> BOOLEAN]
  BY DEF TypeOK, Ordered
<1>1. CASE Accept(c)
  <2>1. ~Contains(open, c) /\ ~shut[c] /\ at[c] = "closed"
    BY <1>0, <1>1 DEF Accept, RegistryInv, Registered
  <2>2. at' = [at EXCEPT ![c] = "peek"] \/ at' = [at EXCEPT ![c] = "closing"]
    BY <1>1 DEF Accept, Go
  <2>3. idle' = [idle EXCEPT ![c] = TRUE]
    BY <1>1 DEF Accept
  <2>4. CASE open' = Append(open, c) /\ shut' = shut
    <3>1. Contains(open', d) <=> Contains(open, d) \/ d = c
      BY <1>0, <2>1, <2>4, AppendKeeps DEF Ordered
    <3> QED
      BY <1>0, <2>1, <2>2, <2>3, <2>4, <3>1 DEF RegistryInv, Registered, Busy
  <2>5. ASSUME NEW b \in Oldest, open' = Append(RemoveFirst(open, b), c), shut' = [shut EXCEPT ![b] = TRUE]
        PROVE  RegistryInv(d)'
    <3>1. b \in Conn /\ Contains(open, b) /\ idle[b]
      BY OldestIsIdle DEF Registered
    <3>2. Contains(open', d) <=> (Contains(open, d) /\ d # b) \/ d = c
      BY <1>0, <2>1, <2>5, <3>1, ReplaceKeeps DEF Ordered
    <3>3. at[b] \notin Busy \cup {"closed"}
      BY <3>1 DEF RegistryInv, Registered
    <3> QED
      BY <1>0, <2>1, <2>2, <2>3, <2>5, <3>1, <3>2, <3>3 DEF RegistryInv, Registered, Busy
  <2> QED
    BY <1>1, <2>4, <2>5 DEF Accept
<1>2. CASE Claim(c)
  BY <1>0, <1>2 DEF Claim, Go, RegistryInv, Registered, Busy
<1>3. CASE Rest(c)
  <2>1. at[c] = "rest" /\ Contains(open, c) /\ ~shut[c]
    BY <1>0, <1>3 DEF Rest, RegistryInv, Registered, Busy
  <2>2. /\ open' = Append(RemoveFirst(open, c), c) /\ idle' = [idle EXCEPT ![c] = TRUE] /\ shut' = shut
        /\ at' = [at EXCEPT ![c] = "peek"] \/ at' = [at EXCEPT ![c] = "closing"]
    BY <1>3, <2>1 DEF Rest, Go, Registered
  <2>3. Contains(open', d) <=> Contains(open, d) \/ d = c
    BY <1>0, <2>1, <2>2, ReplaceKeeps DEF Ordered
  <2> QED
    BY <1>0, <2>1, <2>2, <2>3 DEF RegistryInv, Registered, Busy
<1>4. CASE Close(c)
  <2>1. Contains(open', d) <=> Contains(open, d) /\ d # c
    BY <1>0, <1>4, RemoveKeeps DEF Close, Ordered
  <2> QED
    BY <1>0, <1>4, <2>1 DEF Close, Go, RegistryInv, Registered, Busy
<1> QED
  BY <1>1, <1>2, <1>3, <1>4 DEF RegistryStep

(* Every variable stays in range.                                          *)
LEMMA RegistryTypes ==
  ASSUME TypeOK, NEW c \in Conn, RegistryStep(c), Ordered(open'), Ordered(waited')
  PROVE  TypeOK'
<1>1. UNCHANGED <<readers, strays, stopping, reading, held, body, answer>>
  BY DEF RegistryStep, Accept, Claim, Rest, Close
<1>2. at' \in [Conn -> At]
  BY DEF RegistryStep, Accept, Claim, Rest, Close, Go, TypeOK, At, Busy
<1>3. idle' \in [Conn -> BOOLEAN]
  BY DEF RegistryStep, Accept, Claim, Rest, Close, TypeOK
<1>4. shut' \in [Conn -> BOOLEAN]
  BY DEF RegistryStep, Accept, Claim, Rest, Close, TypeOK
<1>5. keep' \in [Conn -> BOOLEAN]
  BY DEF RegistryStep, Accept, Claim, Rest, Close, TypeOK
<1> QED
  BY <1>1, <1>2, <1>3, <1>4, <1>5 DEF TypeOK, Ordered

(***************************************************************************)
(* The counts                                                              *)
(***************************************************************************)
(* A reader is taken out where there is one, and put back by who has it.   *)
LEMMA ReadersStay ==
  ASSUME TypeOK, \A e \in Conn : ThreadInv(e), CountInv, NEW c \in Conn, RequestStep(c)
  PROVE  IsFiniteSet(Reading)' /\ ReadersConserved'
<1>0. /\ IsFiniteSet(Reading) /\ readers + Cardinality(Reading) = Readers
      /\ readers \in Nat /\ Cardinality(Reading) \in Nat /\ reading \in [Conn -> BOOLEAN]
  BY FS_CardinalityType DEF CountInv, ReadersConserved, Reading, TypeOK
<1> SUFFICES IsFiniteSet(Reading') /\ readers' + Cardinality(Reading') = Readers
  BY DEF ReadersConserved, Reading
<1>1. CASE UNCHANGED <<readers, reading>>
  BY <1>0, <1>1 DEF Reading
<1>2. CASE TakeReader(c) /\ readers > 0
  <2>1. readers' = readers - 1 /\ reading' = [reading EXCEPT ![c] = TRUE]
    BY <1>2 DEF TakeReader
  <2>2. c \notin Reading
    BY <1>2 DEF TakeReader, ThreadInv, Reading
  <2>3. Reading' = Reading \cup {c}
    BY <1>0, <2>1 DEF Reading
  <2>4. IsFiniteSet(Reading') /\ Cardinality(Reading') = Cardinality(Reading) + 1
    BY <1>0, <2>2, <2>3, FS_AddElement
  <2> QED
    BY <1>0, <1>2, <2>1, <2>4, ReadersAssumption
<1>3. CASE DoneReading(c)
  <2>1. Reading' = Reading \ {c}
    BY <1>0, <1>3 DEF DoneReading, Reading
  <2>2. readers' = IF c \in Reading THEN readers + 1 ELSE readers
    BY <1>3 DEF DoneReading, Reading
  <2> QED
    BY <1>0, <2>1, <2>2, FS_RemoveElement
<1>4. UNCHANGED <<readers, reading>> \/ (TakeReader(c) /\ readers > 0) \/ DoneReading(c)
  BY DEF RequestStep, PeekEnds, TakeReader, Reject, HeadDropped, BodyRefused, Admit, Refuse, Decode,
         ServeExpires, Answer, WriteFails, Leave, Unread, Begin, HeadArrives, HeadRefused, BodyArrives,
         ServeReturns, Written
<1> QED
  BY <1>1, <1>2, <1>3, <1>4

(* A slot is taken below the limit; leaving one frees it, or leaves it to  *)
(* the handler that runs on.                                               *)
LEMMA SlotsStay ==
  ASSUME TypeOK, \A e \in Conn : ThreadInv(e), CountInv, NEW c \in Conn, RequestStep(c)
  PROVE  IsFiniteSet(Held)' /\ (Slots <= Limit)'
<1>0. /\ IsFiniteSet(Held) /\ Cardinality(Held) + strays <= Limit
      /\ strays \in Nat /\ Cardinality(Held) \in Nat /\ held \in [Conn -> BOOLEAN]
  BY FS_CardinalityType DEF CountInv, Slots, Held, TypeOK
<1> SUFFICES IsFiniteSet(Held') /\ Cardinality(Held') + strays' <= Limit
  BY DEF Slots, Held
<1>1. CASE UNCHANGED <<strays, held>>
  BY <1>0, <1>1 DEF Held
<1>2. CASE Admit(c)
  <2>1. strays' = strays /\ held' = [held EXCEPT ![c] = TRUE] /\ Cardinality(Held) + strays < Limit
    BY <1>2 DEF Admit, Slots, Held
  <2>2. c \notin Held
    BY <1>2 DEF Admit, ThreadInv, Held
  <2>3. Held' = Held \cup {c}
    BY <1>0, <2>1 DEF Held
  <2>4. IsFiniteSet(Held') /\ Cardinality(Held') = Cardinality(Held) + 1
    BY <1>0, <2>2, <2>3, FS_AddElement
  <2> QED
    BY <1>0, <2>1, <2>4, LimitAssumption
<1>3. CASE Leave(c)
  <2>1. Held' = Held \ {c}
    BY <1>0, <1>3 DEF Leave, Held
  <2>2. strays' = strays \/ (strays' = strays + 1 /\ c \in Held)
    BY <1>3 DEF Leave, Held
  <2>3. /\ IsFiniteSet(Held')
        /\ Cardinality(Held') = IF c \in Held THEN Cardinality(Held) - 1 ELSE Cardinality(Held)
    BY <1>0, <2>1, FS_RemoveElement
  <2> QED
    BY <1>0, <2>2, <2>3, LimitAssumption
<1>4. UNCHANGED <<strays, held>> \/ Admit(c) \/ Leave(c)
  BY DEF RequestStep, PeekEnds, TakeReader, Reject, HeadDropped, BodyRefused, Refuse, Decode,
         ServeExpires, Answer, WriteFails, Unread, Begin, HeadArrives, HeadRefused, BodyArrives,
         ServeReturns, Written
<1> QED
  BY <1>1, <1>2, <1>3, <1>4

(***************************************************************************)
(* The inductive invariant holds                                           *)
(***************************************************************************)
(* No connection, every reader free: the invariant holds at the start.     *)
LEMMA InitIInv == Init => IInv
<1> SUFFICES ASSUME Init PROVE IInv
  OBVIOUS
<1>1. open = <<>> /\ waited = <<>>
  BY DEF Init
<1>2. \A c \in Conn : ~Contains(open, c) /\ ~Contains(waited, c)
  BY <1>1 DEF Contains
<1>3. \A c, d \in Conn : ~Before(waited, c, d)
  BY <1>1 DEF Before
<1>4. TypeOK
  <2>1. Ordered(open) /\ Ordered(waited)
    BY <1>1 DEF Ordered, IsInjective
  <2> QED
    BY <2>1, ReadersAssumption DEF Init, TypeOK, Ordered, At
<1>5. \A c \in Conn : ThreadInv(c) /\ RegistryInv(c)
  BY <1>2 DEF Init, ThreadInv, RegistryInv, Registered, Busy
<1>6. LongestIdleFirst
  BY <1>2, <1>3 DEF LongestIdleFirst, Registered
<1>7. Reading = {} /\ Held = {}
  BY DEF Init, Reading, Held
<1>8. CountInv
  <2>1. IsFiniteSet(Reading) /\ readers + Cardinality(Reading) = Readers
    BY <1>7, FS_EmptySet, ReadersAssumption DEF Init
  <2>2. IsFiniteSet(Held) /\ Cardinality(Held) + strays <= Limit
    BY <1>7, FS_EmptySet, LimitAssumption DEF Init
  <2> QED
    BY <2>1, <2>2 DEF CountInv, ReadersConserved, Slots, Reading, Held
<1> QED
  BY <1>4, <1>5, <1>6, <1>8 DEF IInv

(* A step of a request leaves the registry, and counts what it takes.      *)
LEMMA RequestIInv ==
  ASSUME IInv, NEW c \in Conn, RequestStep(c)
  PROVE  IInv'
<1>1. TypeOK /\ LongestIdleFirst /\ CountInv /\ \A d \in Conn : ThreadInv(d) /\ RegistryInv(d)
  BY DEF IInv
<1>2. TypeOK'
  BY <1>1, RequestTypes
<1>3. ASSUME NEW d \in Conn PROVE ThreadInv(d)' /\ RegistryInv(d)'
  BY <1>1, RequestThreads, RequestRegistry
<1>4. LongestIdleFirst'
  BY <1>1, RequestMoves DEF LongestIdleFirst, Registered, registryVars
<1>5. CountInv'
  BY <1>1, ReadersStay, SlotsStay DEF CountInv
<1> QED
  BY <1>2, <1>3, <1>4, <1>5 DEF IInv

(* A step of the registry leaves what requests hold.                       *)
LEMMA RegistryIInv ==
  ASSUME IInv, NEW c \in Conn, RegistryStep(c)
  PROVE  IInv'
<1>1. TypeOK /\ LongestIdleFirst /\ CountInv /\ \A d \in Conn : ThreadInv(d) /\ RegistryInv(d)
  BY DEF IInv
<1>2. Ordered(open') /\ Ordered(waited') /\ LongestIdleFirst'
  BY <1>1, RegistryLists
<1>3. TypeOK'
  BY <1>1, <1>2, RegistryTypes
<1>4. ASSUME NEW d \in Conn PROVE ThreadInv(d)' /\ RegistryInv(d)'
  BY <1>1, RegistryThreads, RegistryKnows
<1>5. UNCHANGED <<readers, strays, reading, held>>
  BY DEF RegistryStep, Accept, Claim, Rest, Close
<1>6. CountInv'
  BY <1>1, <1>5 DEF CountInv, ReadersConserved, Slots, Reading, Held
<1> QED
  BY <1>2, <1>3, <1>4, <1>6 DEF IInv

(* Nor do the stop, a handler that returns past its deadline, or nothing.  *)
LEMMA OtherIInv ==
  ASSUME IInv, StrayReturns \/ Stop \/ UNCHANGED vars
  PROVE  IInv'
<1>1. TypeOK /\ LongestIdleFirst /\ CountInv /\ \A d \in Conn : ThreadInv(d) /\ RegistryInv(d)
  BY DEF IInv
<1>2. UNCHANGED <<registryVars, threadVars, readers>>
  BY DEF StrayReturns, Stop, vars
<1>3. strays' \in Nat /\ strays' <= strays /\ stopping' \in BOOLEAN
  <2>0. strays \in Nat /\ stopping \in BOOLEAN
    BY <1>1 DEF TypeOK
  <2>1. CASE StrayReturns
    BY <2>0, <2>1 DEF StrayReturns
  <2>2. CASE Stop
    BY <2>0, <2>2 DEF Stop
  <2>3. CASE UNCHANGED vars
    BY <2>0, <2>3 DEF vars
  <2> QED
    BY <2>1, <2>2, <2>3
<1>4. TypeOK'
  BY <1>1, <1>2, <1>3 DEF TypeOK, registryVars, threadVars
<1>5. LongestIdleFirst' /\ \A d \in Conn : ThreadInv(d)' /\ RegistryInv(d)'
  BY <1>1, <1>2 DEF registryVars, threadVars, LongestIdleFirst, ThreadInv, RegistryInv, Registered
<1>6. Reading' = Reading /\ Held' = Held
  BY <1>2 DEF threadVars, Reading, Held
<1>7. Cardinality(Held) \in Nat
  BY <1>1, FS_CardinalityType DEF CountInv
<1>8. CountInv'
  <2>1. IsFiniteSet(Held') /\ Cardinality(Held') + strays' <= Limit
    <3>1. IsFiniteSet(Held) /\ Cardinality(Held) + strays <= Limit /\ strays \in Nat
      BY <1>1 DEF CountInv, Slots, Held, TypeOK
    <3> QED
      BY <1>3, <1>6, <1>7, <3>1, LimitAssumption
  <2>2. IsFiniteSet(Reading') /\ readers' + Cardinality(Reading') = Readers
    BY <1>1, <1>2, <1>6 DEF CountInv, ReadersConserved, Reading
  <2> QED
    BY <2>1, <2>2 DEF CountInv, ReadersConserved, Slots, Reading, Held
<1> QED
  BY <1>4, <1>5, <1>8 DEF IInv

(* IInv holds in every reachable state, for any set of sockets and bounds. *)
THEOREM Invariance == Spec => []IInv
<1>1. IInv /\ [Next]_vars => IInv'
  BY RequestIInv, RegistryIInv, OtherIInv DEF Next, OwnStep, PeerStep, RequestStep, RegistryStep
<1> QED
  BY InitIInv, <1>1, PTL DEF Spec

(***************************************************************************)
(* What follows                                                            *)
(***************************************************************************)
(* Every variable stays in the range the code gives it, and the registry   *)
(* lists no connection twice.                                              *)
THEOREM TypeCorrect == Spec => []TypeOK
<1>1. IInv => TypeOK
  BY DEF IInv
<1> QED
  BY <1>1, Invariance, PTL

(* No permit is lost or released twice, on whatever path a request ends.   *)
THEOREM ReadersAreConserved == Spec => []ReadersConserved
<1>1. IInv => ReadersConserved
  BY DEF IInv, CountInv
<1> QED
  BY <1>1, Invariance, PTL

(* Whatever is read or waits to be decoded is under a reader.              *)
THEOREM ReadsAreCovered == Spec => []ReadUnderReader
<1>1. IInv => ReadUnderReader
  BY DEF IInv, ThreadInv, ReadUnderReader
<1> QED
  BY <1>1, Invariance, PTL

(* So the bodies in memory before they are decoded are never more than the *)
(* readers: what READ_MEMORY_BYTES was divided by.                         *)
THEOREM MemoryBounded ==
  Spec => [](Cardinality({c \in Conn : at[c] \in {"head", "body", "admit", "decode"}}) <= Readers)
<1> DEFINE InMemory == {c \in Conn : at[c] \in {"head", "body", "admit", "decode"}}
<1>1. IInv => Cardinality(InMemory) <= Readers
  <2> SUFFICES ASSUME IInv PROVE Cardinality(InMemory) <= Readers
    OBVIOUS
  <2>1. InMemory \subseteq Reading /\ IsFiniteSet(Reading)
    BY DEF IInv, ThreadInv, CountInv, Reading
  <2>2. /\ Cardinality(InMemory) <= Cardinality(Reading) /\ IsFiniteSet(InMemory)
    BY <2>1, FS_Subset
  <2>3. Cardinality(Reading) \in Nat /\ Cardinality(InMemory) \in Nat
    BY <2>1, <2>2, FS_CardinalityType
  <2>4. readers \in Nat /\ readers + Cardinality(Reading) = Readers
    BY DEF IInv, TypeOK, CountInv, ReadersConserved, Reading
  <2> QED
    BY <2>2, <2>3, <2>4, ReadersAssumption
<1> QED
  BY <1>1, Invariance, PTL

(* Slots taken, those of handlers past their deadline included, stay       *)
(* within the concurrency.                                                 *)
THEOREM SlotsBounded == Spec => [](Slots <= Limit)
<1>1. IInv => Slots <= Limit
  BY DEF IInv, CountInv
<1> QED
  BY <1>1, Invariance, PTL

(* Only idle connections are closed to make room: a request that was begun *)
(* is read and answered on a connection the registry still has.            *)
THEOREM ServedAreRegistered == Spec => []ServedIsRegistered
<1>1. IInv => ServedIsRegistered
  BY DEF IInv, RegistryInv, ServedIsRegistered
<1> QED
  BY <1>1, Invariance, PTL

(* The registry keeps idle connections in the order they fell idle in.     *)
THEOREM EvictionOrder == Spec => []LongestIdleFirst
<1>1. IInv => LongestIdleFirst
  BY DEF IInv
<1> QED
  BY <1>1, Invariance, PTL

(* Between requests and after the last one a connection holds nothing.     *)
THEOREM NothingIsLeaked == Spec => []NothingLeaks
<1>1. IInv => NothingLeaks
  BY DEF IInv, ThreadInv, RegistryInv, NothingLeaks
<1> QED
  BY <1>1, Invariance, PTL
=============================================================================
