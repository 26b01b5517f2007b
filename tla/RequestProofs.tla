---------------------------- MODULE RequestProofs ----------------------------
(*****************************************************************************)
(* Proofs about Request, for every set of requests a peer may send, every    *)
(* bound and every clock: the inductive invariant IInv, and what follows.    *)
(*****************************************************************************)
EXTENDS Request, TLAPS

Places == {"idle", "head", "framing", "body", "admit", "queue", "decode", "start", "run",
           "answer", "closed"}

(* The clock's readings, the answer and its request.                         *)
TypeInv ==
  /\ at \in Places /\ req \in Requests
  /\ unread \in Nat /\ now \in Nat
  /\ taken \in Nat /\ budget \in Nat /\ told \in Nat /\ waitUntil \in Nat
  /\ answers \in Nat /\ status \in Nat
  /\ invited \in BOOLEAN

(* Where the body is read, all of it and nothing else is read, and an answer *)
(* that keeps the connection comes after that.                               *)
BodyInv ==
  /\ at \in {"head", "framing", "body"} => unread = req.size
  /\ at \in {"body", "admit", "queue", "decode", "start", "run"} => Framing(req) = Read
  /\ at \in {"admit", "queue", "decode", "start", "run", "idle"} => unread = 0
  /\ at \in {"admit", "queue", "decode", "start", "run"} => Length(req).n <= req.size
  /\ at \in {"start", "run"} => Length(req).n # 0
  /\ at = "answer" /\ status = 200 => unread = 0

(* A request has its answer only once its connection is idle or closed, and  *)
(* a peer is invited only past every refusal for its framing; what read_call *)
(* makes of the rest of its head comes later.                                *)
ReplyInv ==
  /\ answers <= 1
  /\ at \notin {"idle", "closed"} => answers = 0
  /\ invited => at # "head" /\ Framing(req) = Read
  /\ invited /\ at = "answer" => status \notin {405, 411, 413, 431, 501}

(* The budget is the caller's or the timeout, measured from the decoder; the *)
(* instants that follow were read off a clock that only goes on.             *)
Measured ==
  /\ taken <= now
  /\ req.due = {} => budget = Timeout
  /\ \A d \in req.due : d > taken /\ budget = Lesser(d - taken, Timeout)
Timed ==
  /\ Measured
  /\ taken + budget <= told /\ told <= now + budget

TimeInv ==
  /\ at = "decode" => Measured
  /\ at \in {"start", "run"} => Timed
  /\ at = "run" => told <= waitUntil
  /\ at = "answer" /\ status = 504 => Timed /\ told <= waitUntil /\ waitUntil <= now

IInv == TypeInv /\ BodyInv /\ ReplyInv /\ TimeInv

(*****************************************************************************)
(* Operators                                                                 *)
(*****************************************************************************)
(* A body that is read has one framing line, which is its length, and no     *)
(* more of it is sent than that.                                             *)
LEMMA ReadsOneLength ==
  ASSUME NEW r \in Requests, Framing(r) = Read
  PROVE  /\ Length(r).n \in Nat /\ r.size \in Nat
         /\ r.size <= Length(r).n
<1>1. /\ r \in Request /\ r.lines \in Seq(Line)
      /\ \A i \in DOMAIN r.lines : r.lines[i] \in Line
  BY RequestsAssumption DEF Request
<1>2. /\ ~Malformed(r) /\ Seen(r, {"encoded"}) = {} /\ Lengths(r) # {}
      /\ \A i, j \in Lengths(r) : i = j
      /\ Length(r).kind \notin {"signed", "digits"}
  BY DEF Framing, Read, Raises
<1>3. \A K : Seen(r, K) = {i \in DOMAIN r.lines : r.lines[i].kind \in K}
  <2> SUFFICES ASSUME NEW i \in DOMAIN r.lines PROVE \A j \in 1..i : r.lines[j].kind # "bad"
    BY DEF Seen
  <2>1. 1..i \subseteq DOMAIN r.lines
    BY <1>1
  <2> QED
    BY <1>2, <2>1 DEF Malformed
<1>4. PICK k \in Lengths(r) : \A j \in Lengths(r) : j = k
  BY <1>2
<1>5. k \in DOMAIN r.lines /\ k \in Nat
  BY <1>1, <1>3 DEF Lengths
<1>6. Length(r) = r.lines[k]
  <2>1. \A j \in Lengths(r) : k <= j
    BY <1>4, <1>5
  <2>2. (CHOOSE i \in Lengths(r) : \A j \in Lengths(r) : i <= j) = k
    BY <1>4, <2>1
  <2> QED
    BY <2>2 DEF Length
<1>7. \A i \in DOMAIN r.lines : r.lines[i].kind = "length" /\ i = k
  <2> SUFFICES ASSUME NEW i \in DOMAIN r.lines PROVE r.lines[i].kind = "length" /\ i = k
    OBVIOUS
  <2>1. r.lines[i].kind \in {"length", "signed", "digits"}
    <3>1. r.lines[i].kind \notin {"bad", "encoded"}
      BY <1>2, <1>3 DEF Malformed
    <3> QED
      BY <1>1, <3>1 DEF Line
  <2>2. i = k
    BY <1>3, <1>4, <2>1 DEF Lengths
  <2> QED
    BY <1>2, <1>6, <2>1, <2>2
<1>8. r.lines # <<>>
  BY <1>5
<1> QED
  BY <1>1, <1>5, <1>6, <1>7, <1>8, RequestsAssumption DEF Request, Line

(* A refusal is one of three, and none of them is a success or a timeout.    *)
LEMMA RefusedWith ==
  ASSUME NEW r \in Requests
  PROVE  Framing(r) \in {400, 411, 413, Read, Raises}
BY DEF Framing

(* The caller's instant is a moment of the clock, and is one.                *)
LEMMA DueIsOne ==
  ASSUME NEW r \in Requests
  PROVE  \A d \in r.due : d \in Nat /\ (CHOOSE e \in r.due : TRUE) = d
BY RequestsAssumption DEF Request

(*****************************************************************************)
(* The head and the body                                                     *)
(*****************************************************************************)
(* A request begins with nothing of it read and nothing said.                *)
LEMMA BeginIInv ==
  ASSUME IInv, NEW r \in Requests, Begin(r)
  PROVE  IInv'
<1>1. r.size \in Nat
  BY RequestsAssumption DEF Request
<1>2. /\ req' = r /\ unread' = r.size /\ now' = 0 /\ invited' = FALSE /\ answers' = 0
      /\ taken' = 0 /\ budget' = 0 /\ told' = 0 /\ waitUntil' = 0
      /\ (at' \in {"head", "closed"} /\ status' = 0) \/ (at' = "answer" /\ status' = 503)
  BY DEF Begin, Say
<1>3. at' \in Places /\ status' \in Nat /\ 0 \in Nat
  BY <1>2 DEF Places
<1>4. TypeInv'
  BY <1>1, <1>2, <1>3 DEF TypeInv
<1>5. BodyInv' /\ ReplyInv' /\ TimeInv'
  BY <1>2 DEF BodyInv, ReplyInv, TimeInv
<1> QED
  BY <1>4, <1>5 DEF IInv

(* The head is too large, late, refused, or leads to the body.               *)
LEMMA HeadIInv ==
  ASSUME IInv, HeadTooLarge \/ HeadLate \/ HeadArrives
  PROVE  IInv'
<1>1. /\ at = "head" /\ ~invited /\ unread = req.size /\ answers = 0
      /\ UNCHANGED <<req, unread, now, taken, budget, told, waitUntil, answers>>
  BY DEF HeadTooLarge, HeadLate, HeadArrives, Say, Drop, outcome, timing, IInv, TypeInv, BodyInv, ReplyInv
<1>2. CASE HeadTooLarge \/ HeadLate
  <2>1. \/ at' = "answer" /\ status' = 431 /\ invited' = invited
        \/ at' = "closed" /\ status' = status /\ invited' = invited
    BY <1>2 DEF HeadTooLarge, HeadLate, Say, Drop
  <2>2. TypeInv'
    BY <1>1, <2>1 DEF IInv, TypeInv, Places
  <2>3. BodyInv' /\ ReplyInv' /\ TimeInv'
    BY <1>1, <2>1 DEF IInv, TypeInv, BodyInv, ReplyInv, TimeInv
  <2> QED
    BY <2>2, <2>3 DEF IInv
<1>3. CASE HeadArrives
  <2>1. req \in Requests /\ Framing(req) \in {400, 411, 413, Read, Raises} /\ Asks \in BOOLEAN
    BY RefusedWith DEF IInv, TypeInv, Asks
  <2>2. \/ at' = "answer" /\ status' \in {400, 411, 413} /\ invited' = invited
        \/ at' = "closed" /\ status' = status /\ invited' = invited
        \/ at' = "framing" /\ status' = status /\ invited' = Asks /\ (Asks => Framing(req) = Read)
        \/ at' = "answer" /\ status' \in {404, 405, 501} /\ invited' = Asks /\ ~Asks
    BY <1>3, <2>1 DEF HeadArrives, Say, Drop, Go, Answered, Refused, Asks
  <2>3. TypeInv'
    BY <1>1, <2>1, <2>2 DEF IInv, TypeInv, Places
  <2>4. BodyInv' /\ ReplyInv' /\ TimeInv'
    BY <1>1, <2>1, <2>2 DEF IInv, TypeInv, BodyInv, ReplyInv, TimeInv
  <2> QED
    BY <2>3, <2>4 DEF IInv
<1> QED
  BY <1>2, <1>3

(* The body is refused unread, or is to be read.                             *)
LEMMA FrameIInv ==
  ASSUME IInv, Frame
  PROVE  IInv'
<1>1. /\ at = "framing" /\ unread = req.size /\ answers = 0
      /\ UNCHANGED <<req, unread, now, invited, taken, budget, told, waitUntil, answers>>
  BY DEF Frame, Go, Drop, outcome, timing, IInv, TypeInv, BodyInv, ReplyInv
<1>2. req \in Requests /\ Framing(req) \in {400, 411, 413, Read, Raises}
  BY RefusedWith DEF IInv, TypeInv
<1>3. \/ Framing(req) = Read /\ at' = "body" /\ status' = status
      \/ Framing(req) # Read /\ at' = "answer" /\ status' \in {400, 411, 413}
      \/ at' = "closed" /\ status' = status
  <2>1. CASE Framing(req) = Read
    BY <2>1 DEF Frame, Go, Refused
  <2>2. CASE Framing(req) = Raises
    BY <2>2 DEF Frame, Drop, Refused, Read, Raises
  <2>3. CASE Framing(req) \in {400, 411, 413}
    BY <2>3 DEF Frame, Say, Refused, Read, Raises
  <2> QED
    BY <1>2, <2>1, <2>2, <2>3
<1>4. TypeInv'
  BY <1>1, <1>3 DEF IInv, TypeInv, Places
<1>5. BodyInv' /\ ReplyInv' /\ TimeInv'
  BY <1>1, <1>3 DEF IInv, TypeInv, BodyInv, ReplyInv, TimeInv
<1> QED
  BY <1>4, <1>5 DEF IInv

(* All of the body is read, or the request is refused and the connection     *)
(* with it.                                                                  *)
LEMMA BodyIInv ==
  ASSUME IInv, BodyArrives \/ BodyEnds \/ BodyLate
  PROVE  IInv'
<1>1. /\ at = "body" /\ unread = req.size /\ answers = 0 /\ Framing(req) = Read
      /\ UNCHANGED <<req, now, invited, taken, budget, told, waitUntil, answers>>
  BY DEF BodyArrives, BodyEnds, BodyLate, outcome, timing, IInv, BodyInv, ReplyInv
<1>2. /\ req \in Requests /\ Length(req).n \in Nat /\ req.size \in Nat
      /\ req.size <= Length(req).n
  BY <1>1, ReadsOneLength DEF IInv, TypeInv
<1>3. CASE BodyArrives
  <2>1. /\ at' = "admit" /\ status' = status
        /\ Length(req).n <= req.size /\ unread' = 0
    BY <1>1, <1>2, <1>3 DEF BodyArrives, Go
  <2>2. TypeInv'
    BY <1>1, <2>1 DEF IInv, TypeInv, Places
  <2>3. BodyInv' /\ ReplyInv' /\ TimeInv'
    BY <1>1, <2>1 DEF IInv, TypeInv, BodyInv, ReplyInv, TimeInv
  <2> QED
    BY <2>2, <2>3 DEF IInv
<1>4. CASE BodyEnds \/ BodyLate
  <2>1. /\ at' = "answer" /\ status' \in {400, 408} /\ unread' \in Nat
    BY <1>1, <1>2, <1>4 DEF BodyEnds, BodyLate, Say
  <2>2. TypeInv'
    BY <1>1, <2>1 DEF IInv, TypeInv, Places
  <2>3. BodyInv' /\ ReplyInv' /\ TimeInv'
    BY <1>1, <2>1 DEF IInv, TypeInv, BodyInv, ReplyInv, TimeInv
  <2> QED
    BY <2>2, <2>3 DEF IInv
<1> QED
  BY <1>3, <1>4

(*****************************************************************************)
(* The call                                                                  *)
(*****************************************************************************)
(* A call is admitted with its body read, or refused.                        *)
LEMMA AdmitIInv ==
  ASSUME IInv, Admit
  PROVE  IInv'
<1>1. /\ at = "admit" /\ answers = 0
      /\ UNCHANGED <<req, unread, now, invited, taken, budget, told, waitUntil, answers>>
      /\ (at' = "queue" /\ status' = status) \/ (at' = "answer" /\ status' = 503)
  BY DEF Admit, Say, Go, outcome, timing, IInv, ReplyInv
<1>2. TypeInv'
  BY <1>1 DEF IInv, TypeInv, Places
<1>3. BodyInv' /\ ReplyInv' /\ TimeInv'
  BY <1>1 DEF IInv, TypeInv, BodyInv, ReplyInv, TimeInv
<1> QED
  BY <1>2, <1>3 DEF IInv

(* The budget is measured: what its caller has left of the timeout.          *)
LEMMA TakeDecoderIInv ==
  ASSUME IInv, TakeDecoder
  PROVE  IInv'
<1>1. /\ at = "queue" /\ answers = 0 /\ taken' = now
      /\ UNCHANGED <<req, unread, now, invited, told, waitUntil, answers>>
  BY DEF TakeDecoder, outcome, IInv, ReplyInv
<1>2. now \in Nat /\ budget \in Nat /\ Timeout \in Nat /\ req \in Requests
  BY BoundsAssumption DEF IInv, TypeInv
<1>3. \A d \in req.due : d \in Nat /\ (CHOOSE e \in req.due : TRUE) = d
  BY <1>2, DueIsOne
<1>4. CASE at' = "answer" /\ status' = 400 /\ budget' = budget
  <2>1. TypeInv'
    BY <1>1, <1>2, <1>4 DEF IInv, TypeInv, Places
  <2>2. BodyInv' /\ ReplyInv' /\ TimeInv'
    BY <1>1, <1>4 DEF IInv, TypeInv, BodyInv, ReplyInv, TimeInv
  <2> QED
    BY <2>1, <2>2 DEF IInv
<1>5. CASE /\ ~(\E d \in req.due : d <= now) /\ at' = "decode" /\ status' = status
           /\ budget' = IF req.due = {} THEN Timeout
                        ELSE Lesser((CHOOSE d \in req.due : TRUE) - now, Timeout)
  <2>1. ASSUME NEW d \in req.due
        PROVE  d > now /\ d - now \in Nat /\ budget' = Lesser(d - now, Timeout)
    <3>1. d \in Nat /\ (CHOOSE e \in req.due : TRUE) = d
      BY <1>3
    <3>2. d > now
      BY <1>2, <1>5, <3>1
    <3>3. req.due # {}
      OBVIOUS
    <3>4. budget' = Lesser(d - now, Timeout)
      BY <1>5, <3>1, <3>3
    <3> QED
      BY <1>2, <3>1, <3>2, <3>4
  <2>2. budget' \in Nat
    BY <1>2, <1>5, <2>1 DEF Lesser
  <2>3. TypeInv'
    BY <1>1, <1>2, <1>5, <2>2 DEF IInv, TypeInv, Places
  <2>4. Measured'
    BY <1>1, <1>2, <1>5, <2>1 DEF Measured
  <2>5. TimeInv'
    BY <1>5, <2>4 DEF TimeInv
  <2>6. BodyInv' /\ ReplyInv'
    BY <1>1, <1>5 DEF IInv, BodyInv, ReplyInv
  <2> QED
    BY <2>3, <2>5, <2>6 DEF IInv
<1> QED
  BY <1>4, <1>5 DEF TakeDecoder, Say, Go

(* The handler's instant is the budget past the decoding.                    *)
LEMMA DecodeIInv ==
  ASSUME IInv, Decode
  PROVE  IInv'
<1>1. /\ at = "decode" /\ answers = 0 /\ Measured
      /\ UNCHANGED <<req, unread, now, invited, taken, budget, waitUntil, answers>>
  BY DEF Decode, outcome, IInv, ReplyInv, TimeInv
<1>2. now \in Nat /\ budget \in Nat /\ taken \in Nat
  BY DEF IInv, TypeInv
<1>3. CASE at' = "answer" /\ status' = 400 /\ told' \in {told, now + budget}
  <2>1. TypeInv'
    BY <1>1, <1>2, <1>3 DEF IInv, TypeInv, Places
  <2>2. BodyInv' /\ ReplyInv' /\ TimeInv'
    BY <1>1, <1>3 DEF IInv, TypeInv, BodyInv, ReplyInv, TimeInv
  <2> QED
    BY <2>1, <2>2 DEF IInv
<1>4. CASE Length(req).n # 0 /\ at' = "start" /\ status' = status /\ told' = now + budget
  <2>1. TypeInv'
    BY <1>1, <1>2, <1>4 DEF IInv, TypeInv, Places
  <2>2. Measured' /\ Timed'
    BY <1>1, <1>2, <1>4 DEF Measured, Timed
  <2>3. BodyInv' /\ ReplyInv'
    BY <1>1, <1>4 DEF IInv, BodyInv, ReplyInv
  <2>4. TimeInv'
    BY <1>4, <2>2 DEF TimeInv
  <2> QED
    BY <2>1, <2>3, <2>4 DEF IInv
<1> QED
  BY <1>3, <1>4 DEF Decode, Say, Go

(* The handler is started and waited for, from now.                          *)
LEMMA StartIInv ==
  ASSUME IInv, Start
  PROVE  IInv'
<1>1. /\ at = "start" /\ answers = 0 /\ Timed
      /\ UNCHANGED <<req, unread, now, invited, taken, budget, told, answers>>
      /\ \/ at' = "run" /\ status' = status /\ waitUntil' = now + budget
         \/ at' = "answer" /\ status' = 500 /\ waitUntil' = waitUntil
  BY DEF Start, Say, Go, outcome, IInv, ReplyInv, TimeInv
<1>2. now \in Nat /\ budget \in Nat /\ told \in Nat
  BY DEF IInv, TypeInv
<1>3. TypeInv'
  BY <1>1, <1>2 DEF IInv, TypeInv, Places
<1>4. Timed'
  BY <1>1 DEF Timed, Measured
<1>5. TimeInv'
  BY <1>1, <1>2, <1>4 DEF Timed, TimeInv
<1>6. BodyInv' /\ ReplyInv'
  BY <1>1 DEF IInv, BodyInv, ReplyInv
<1> QED
  BY <1>3, <1>5, <1>6 DEF IInv

(* It returns, or the budget passes without it.                              *)
LEMMA RunIInv ==
  ASSUME IInv, Return \/ BudgetPasses
  PROVE  IInv'
<1>1. /\ at = "run" /\ answers = 0 /\ Timed /\ told <= waitUntil
      /\ UNCHANGED <<req, unread, now, invited, taken, budget, told, waitUntil, answers>>
      /\ at' = "answer"
      /\ status' \in {200, 404, 422, 500} \/ (status' = 504 /\ now >= waitUntil)
  BY DEF Return, BudgetPasses, Say, outcome, timing, IInv, ReplyInv, TimeInv
<1>2. now \in Nat /\ waitUntil \in Nat
  BY DEF IInv, TypeInv
<1>3. TypeInv'
  BY <1>1 DEF IInv, TypeInv, Places
<1>4. Timed'
  BY <1>1 DEF Timed, Measured
<1>5. TimeInv'
  BY <1>1, <1>2, <1>4 DEF TimeInv
<1>6. BodyInv' /\ ReplyInv'
  BY <1>1 DEF IInv, BodyInv, ReplyInv
<1> QED
  BY <1>3, <1>5, <1>6 DEF IInv

(*****************************************************************************)
(* The answer, the peer, the clock and the stop                              *)
(*****************************************************************************)
(* Only a success keeps the connection, and then nothing is left on it; an   *)
(* answer that cannot be rendered is none.                                   *)
LEMMA AnswerIInv ==
  ASSUME IInv, Answer
  PROVE  IInv'
<1>1. /\ at = "answer" /\ answers = 0
      /\ UNCHANGED <<req, unread, now, invited, taken, budget, told, waitUntil, status>>
      /\ answers' \in {0, 1} /\ at' \in {"idle", "closed"}
      /\ at' = "idle" => status = 200
  BY DEF Answer, Drop, timing, IInv, ReplyInv
<1>2. TypeInv'
  BY <1>1 DEF IInv, TypeInv, Places
<1>3. BodyInv' /\ ReplyInv' /\ TimeInv'
  BY <1>1 DEF IInv, BodyInv, ReplyInv, TimeInv
<1> QED
  BY <1>2, <1>3 DEF IInv

(* A peer that leaves ends the connection.                                   *)
LEMMA LoseIInv ==
  ASSUME IInv, Lose
  PROVE  IInv'
<1>1. /\ at' = "closed"
      /\ UNCHANGED <<req, unread, now, invited, taken, budget, told, waitUntil, status, answers>>
  BY DEF Lose, Drop, timing
<1>2. TypeInv'
  BY <1>1 DEF IInv, TypeInv, Places
<1>3. BodyInv' /\ ReplyInv' /\ TimeInv'
  BY <1>1 DEF IInv, BodyInv, ReplyInv, TimeInv
<1> QED
  BY <1>2, <1>3 DEF IInv

(* The clock goes on wherever a request is.                                  *)
LEMMA TickIInv ==
  ASSUME IInv, Tick
  PROVE  IInv'
<1>1. /\ now' = now + 1
      /\ UNCHANGED <<at, req, unread, invited, taken, budget, told, waitUntil, status, answers>>
  BY DEF Tick, timing, outcome
<1>2. now \in Nat /\ taken \in Nat /\ told \in Nat /\ budget \in Nat /\ waitUntil \in Nat
  BY DEF IInv, TypeInv
<1>3. TypeInv'
  BY <1>1 DEF IInv, TypeInv
<1>4. (Measured => Measured') /\ (Timed => Timed') /\ (waitUntil <= now => waitUntil' <= now')
  BY <1>1, <1>2 DEF Measured, Timed
<1>5. TimeInv'
  BY <1>1, <1>4 DEF IInv, TimeInv
<1>6. BodyInv' /\ ReplyInv'
  BY <1>1 DEF IInv, BodyInv, ReplyInv
<1> QED
  BY <1>3, <1>5, <1>6 DEF IInv

(* A stop changes nothing of a request that is under way; nor does standing  *)
(* still.                                                                    *)
LEMMA StopIInv ==
  ASSUME IInv, Stop \/ UNCHANGED vars
  PROVE  IInv'
<1>1. UNCHANGED <<at, req, unread, now, invited, taken, budget, told, waitUntil, status, answers>>
  BY DEF Stop, vars, timing, outcome
<1> QED
  BY <1>1 DEF IInv, TypeInv, BodyInv, ReplyInv, TimeInv, Timed, Measured

(*****************************************************************************)
(* The inductive invariant holds                                             *)
(*****************************************************************************)
(* A connection begins idle.                                                 *)
LEMMA InitIInv == Init => IInv
<1> SUFFICES ASSUME Init PROVE IInv
  OBVIOUS
<1>1. /\ at = "idle" /\ req \in Requests /\ unread = 0 /\ now = 0 /\ invited = FALSE
      /\ taken = 0 /\ budget = 0 /\ told = 0 /\ waitUntil = 0 /\ status = 0 /\ answers = 0
  BY DEF Init
<1>2. TypeInv
  BY <1>1 DEF TypeInv, Places
<1>3. BodyInv /\ ReplyInv /\ TimeInv
  BY <1>1 DEF BodyInv, ReplyInv, TimeInv
<1> QED
  BY <1>2, <1>3 DEF IInv

(* No step of the connection's thread, its peer or the clock breaks it.      *)
LEMMA StepIInv ==
  ASSUME IInv, [Next]_vars
  PROVE  IInv'
BY BeginIInv, HeadIInv, FrameIInv, BodyIInv, AdmitIInv, TakeDecoderIInv, DecodeIInv, StartIInv,
   RunIInv, AnswerIInv, LoseIInv, TickIInv, StopIInv DEF Next, Closed

(* IInv holds in every reachable state, whatever is sent and whenever.       *)
THEOREM Invariance == Spec => []IInv
BY InitIInv, StepIInv, PTL DEF Spec

(*****************************************************************************)
(* What follows                                                              *)
(*****************************************************************************)
(* No byte of one request is read as part of the next, and a handler runs on *)
(* the whole of a whole request.                                             *)
THEOREM StaysInSync == Spec => []InSync
<1>1. IInv => InSync
  <2> SUFFICES ASSUME IInv PROVE InSync
    OBVIOUS
  <2>1. at = "idle" \/ at = "run" => unread = 0
    BY DEF IInv, BodyInv
  <2>2. CASE at = "run"
    <3>1. /\ req \in Requests /\ Framing(req) = Read
          /\ Length(req).n # 0 /\ Length(req).n <= req.size
      BY <2>2 DEF IInv, TypeInv, BodyInv
    <3>2. Length(req).n \in Nat /\ req.size \in Nat
      BY <3>1, ReadsOneLength
    <3>3. req.size # 0
      BY <3>1, <3>2
    <3>4. req.whole
      BY <3>1, <3>3, RequestsAssumption
    <3> QED
      BY <2>1, <2>2, <3>4 DEF InSync
  <2> QED
    BY <2>1, <2>2 DEF InSync
<1> QED
  BY <1>1, Invariance, PTL

(* A request is answered at most once, and nobody told to send a body is     *)
(* then refused for how that body is framed.                                 *)
THEOREM RepliesOnce == Spec => []OneReply
<1>1. IInv => OneReply
  BY DEF IInv, ReplyInv, OneReply
<1> QED
  BY <1>1, Invariance, PTL

(* A handler is given up no sooner than its instant and its caller's.        *)
THEOREM WaitsTheBudget == Spec => []WaitedOut
<1>1. IInv => WaitedOut
  <2> SUFFICES ASSUME IInv, at = "answer", status = 504
               PROVE  now >= told /\ \A d \in req.due : now >= Lesser(d, taken + Timeout)
    BY DEF WaitedOut
  <2>1. /\ taken \in Nat /\ budget \in Nat /\ told \in Nat /\ now \in Nat /\ waitUntil \in Nat
        /\ req \in Requests /\ Timeout \in Nat
    BY BoundsAssumption DEF IInv, TypeInv
  <2>2. Timed /\ told <= waitUntil /\ waitUntil <= now
    BY DEF IInv, TimeInv
  <2>3. taken + budget <= told /\ told <= now
    BY <2>1, <2>2 DEF Timed
  <2>4. ASSUME NEW d \in req.due
        PROVE  now >= Lesser(d, taken + Timeout)
    <3>1. d \in Nat
      BY <2>1, DueIsOne
    <3>2. d > taken /\ budget = Lesser(d - taken, Timeout)
      BY <2>2 DEF Timed, Measured
    <3>3. taken + budget = Lesser(d, taken + Timeout)
      BY <2>1, <3>1, <3>2 DEF Lesser
    <3> QED
      BY <2>1, <2>3, <3>3
  <2> QED
    BY <2>1, <2>3, <2>4
<1> QED
  BY <1>1, Invariance, PTL

(* What a handler is told lies past its caller's instant by no more than the *)
(* time since its call was measured, however long the call queued.           *)
THEOREM TellsTheCallersInstant == Spec => []ToldByCaller
<1>1. IInv => ToldByCaller
  <2> SUFFICES ASSUME IInv, at = "run", NEW d \in req.due
               PROVE  d > taken /\ told + taken <= d + now
    BY DEF ToldByCaller
  <2>1. /\ taken \in Nat /\ budget \in Nat /\ told \in Nat /\ now \in Nat
        /\ req \in Requests /\ Timeout \in Nat
    BY BoundsAssumption DEF IInv, TypeInv
  <2>2. d \in Nat
    BY <2>1, DueIsOne
  <2>3. Timed
    BY DEF IInv, TimeInv
  <2>4. d > taken /\ budget = Lesser(d - taken, Timeout) /\ told <= now + budget
    BY <2>3 DEF Timed, Measured
  <2>5. budget <= d - taken
    BY <2>1, <2>2, <2>4 DEF Lesser
  <2> QED
    BY <2>1, <2>2, <2>4, <2>5
<1> QED
  BY <1>1, Invariance, PTL
=============================================================================
