------------------------------ MODULE Request ------------------------------
(***************************************************************************)
(* One connection of the harness, a request at a time: its head and body   *)
(* are read and refused or decoded, the call is given a budget and run,    *)
(* and the answer keeps the connection or closes it.                       *)
(*                                                                         *)
(* A request is what its peer sent.  "lines" are the header lines that     *)
(* frame the body, in order; "size" is how much body really follows them.  *)
(* Bytes are counted in units, time in ticks since the first byte.         *)
(***************************************************************************)
EXTENDS Naturals, Sequences

CONSTANTS
  Requests,      \* what the peer may send, records as in Request
  MaxInput,      \* the declared max-input-bytes
  Readable,      \* READ_MEMORY_BYTES less MAX_HEAD_BYTES
  ReadSeconds,   \* REQUEST_READ_SECONDS
  Timeout,       \* the declared timeout
  MaxNow         \* the clock's last tick: a bound on the model

ASSUME BoundsAssumption ==
  {MaxInput, Readable, ReadSeconds, Timeout, MaxNow} \subseteq Nat

(***************************************************************************)
(* A "bad" line is one the parser cannot read; a "signed" length and one   *)
(* of too many "digits" are spellings of a length n.  A request that is    *)
(* not "whole" had its stream end within the head; "facts" says whether    *)
(* its identity and instant can be read, "content" what its body holds.    *)
(* "due" is the caller's instant, if there is one.                         *)
(***************************************************************************)
Line == [kind : {"bad", "encoded", "length", "signed", "digits"}, n : Nat]

Request ==
  [method : {"POST", "GET", "PUT"}, served : BOOLEAN, large : BOOLEAN,
   lines : Seq(Line), whole : BOOLEAN, size : Nat, expect : BOOLEAN,
   close : BOOLEAN, facts : BOOLEAN, content : {"text", "json", "call"},
   due : {s \in SUBSET Nat : \A d, e \in s : d = e}]

(* A head that was cut has no body; a peer whose framing lines are lengths *)
(* sends no more than one of them, and what follows is another request.    *)
ASSUME RequestsAssumption ==
  \A r \in Requests :
    /\ r \in Request
    /\ ~r.whole => r.size = 0
    /\ r.lines # <<>> /\ (\A i \in DOMAIN r.lines : r.lines[i].kind = "length")
         => \E i \in DOMAIN r.lines : r.size <= r.lines[i].n

VARIABLES
  at,        \* where the connection's thread is
  req,       \* the request being read or served
  unread,    \* how much of its body is still on the connection
  now,       \* ticks since its first byte
  invited,   \* it was told to go on and send its body
  taken,     \* when it had the decoder
  budget,    \* call.budget
  told,      \* call.deadline, the instant its handler is given
  waitUntil, \* when join gives up
  status,    \* of the answer about to be written
  answers,   \* answers written to it
  why,       \* why the connection ended with none
  stopping   \* calls.stopping

timing == <<taken, budget, told, waitUntil>>
outcome == <<answers, why>>
vars == <<at, req, unread, now, invited, timing, status, outcome, stopping>>

Init ==
  /\ at = "idle"
  /\ req \in Requests
  /\ unread = 0 /\ now = 0
  /\ invited = FALSE
  /\ taken = 0 /\ budget = 0 /\ told = 0 /\ waitUntil = 0
  /\ status = 0 /\ answers = 0 /\ why = ""
  /\ stopping = FALSE

(***************************************************************************)
(* The head's parser stops at a line it cannot read: later ones are unseen *)
(***************************************************************************)
Malformed(r) == \E i \in DOMAIN r.lines : r.lines[i].kind = "bad"

Seen(r, kinds) ==
  {i \in DOMAIN r.lines :
     /\ r.lines[i].kind \in kinds
     /\ \A j \in 1..i : r.lines[j].kind # "bad"}

Lengths(r) == Seen(r, {"length", "signed", "digits"})
Length(r) == r.lines[CHOOSE i \in Lengths(r) : \A j \in Lengths(r) : i <= j]

(* _framing: why the body is refused unread, or that it is to be read.  A  *)
(* definition may be preceded by a variant with one plausible mistake; no  *)
(* specification uses the variant.                                         *)
Read == 100
Raises == 0

FramingUnseen(r) ==
  IF Seen(r, {"encoded"}) # {} THEN 400
  ELSE IF Lengths(r) = {} THEN 411
  ELSE IF Length(r).kind # "length" THEN 400
  ELSE IF Length(r).n > MaxInput THEN 400
  ELSE IF Length(r).n > Readable THEN 413
  ELSE Read

Framing(r) ==
  IF Malformed(r) \/ Seen(r, {"encoded"}) # {} THEN 400
  ELSE IF Lengths(r) = {} THEN 411
  ELSE IF (\E i, j \in Lengths(r) : i # j) \/ Length(r).kind = "signed" THEN 400
  ELSE IF Length(r).kind = "digits" THEN Raises
  ELSE IF Length(r).n > MaxInput THEN 400
  ELSE IF Length(r).n > Readable THEN 413
  ELSE Read

Say(s) == at' = "answer" /\ status' = s
Go(to) == at' = to /\ UNCHANGED status
Drop(reason) ==
  /\ at' = "closed"
  /\ why' = reason
  /\ UNCHANGED <<status, answers>>

(* The first byte of a request: it is read under a reader or refused, or   *)
(* its connection was closed to make room before claim counted it busy.    *)
Begin(r) ==
  /\ at = "idle"
  /\ req' = r /\ unread' = r.size /\ now' = 0
  /\ invited' = FALSE /\ answers' = 0
  /\ taken' = 0 /\ budget' = 0 /\ told' = 0 /\ waitUntil' = 0
  /\ \/ at' = "head" /\ status' = 0 /\ why' = ""
     \/ Say(503) /\ why' = ""
     \/ at' = "closed" /\ status' = 0 /\ why' = "evicted"
  /\ UNCHANGED stopping

(***************************************************************************)
(* The head.  A peer that asks leave is told to go on, or the refusal; the *)
(* method is looked up after that.                                         *)
(***************************************************************************)
Asks == req.method = "POST" /\ req.served /\ req.expect
Refused == Framing(req) \notin {Read, Raises}
Answered == IF req.method = "POST" THEN 404 ELSE IF req.method = "GET" THEN 405 ELSE 501

HeadTooLarge ==
  /\ at = "head" /\ req.large
  /\ Say(431)
  /\ UNCHANGED <<req, unread, now, invited, timing, outcome, stopping>>

HeadLate ==
  /\ at = "head" /\ now >= ReadSeconds
  /\ Drop("late")
  /\ UNCHANGED <<req, unread, now, invited, timing, stopping>>

HeadArrivesInvited ==
  /\ at = "head" /\ ~req.large
  /\ IF req.method = "POST" /\ req.served THEN Go("framing") ELSE Say(Answered)
  /\ invited' = Asks
  /\ UNCHANGED <<req, unread, now, timing, outcome, stopping>>

HeadArrives ==
  /\ at = "head" /\ ~req.large
  /\ IF Asks /\ Framing(req) # Read
     THEN /\ IF Refused THEN Say(Framing(req)) /\ UNCHANGED outcome ELSE Drop("raised")
          /\ UNCHANGED invited
     ELSE /\ IF req.method = "POST" /\ req.served THEN Go("framing") ELSE Say(Answered)
          /\ invited' = Asks
          /\ UNCHANGED outcome
  /\ UNCHANGED <<req, unread, now, timing, stopping>>

(* _read: exactly as much as the one length says, or a refusal.            *)
Frame ==
  /\ at = "framing"
  /\ CASE Framing(req) = Read -> Go("body") /\ UNCHANGED outcome
       [] Refused -> Say(Framing(req)) /\ UNCHANGED outcome
       [] OTHER -> Drop("raised")
  /\ UNCHANGED <<req, unread, now, invited, timing, stopping>>

BodyArrives ==
  /\ at = "body" /\ Length(req).n <= unread
  /\ unread' = unread - Length(req).n
  /\ Go("admit")
  /\ UNCHANGED <<req, now, invited, timing, outcome, stopping>>

(* The stream ends early, which a peer may do whatever it announced.       *)
BodyEnds ==
  /\ at = "body"
  /\ \E left \in 0..unread : unread - left < Length(req).n /\ unread' = left
  /\ Say(400)
  /\ UNCHANGED <<req, now, invited, timing, outcome, stopping>>

BodyLate ==
  /\ at = "body" /\ now >= ReadSeconds
  /\ Say(408)
  /\ UNCHANGED <<req, unread, now, invited, timing, outcome, stopping>>

Admit ==
  /\ at = "admit"
  /\ IF stopping THEN Say(503) ELSE Go("queue") \/ Say(503)
  /\ UNCHANGED <<req, unread, now, invited, timing, outcome, stopping>>

(***************************************************************************)
(* read_call, once the decoder is free: the budget is measured before the  *)
(* body is decoded, the handler's instant after.  Ticks pass in between.   *)
(***************************************************************************)
Lesser(a, b) == IF a <= b THEN a ELSE b

TakeDecoderUncapped ==
  /\ at = "queue"
  /\ taken' = now
  /\ budget' = Timeout
  /\ IF req.facts THEN Go("decode") ELSE Say(400)
  /\ UNCHANGED <<req, unread, now, invited, told, waitUntil, outcome, stopping>>

TakeDecoder ==
  /\ at = "queue"
  /\ taken' = now
  /\ IF ~req.facts \/ \E d \in req.due : d <= now
     THEN Say(400) /\ UNCHANGED budget
     ELSE /\ Go("decode")
          /\ budget' = IF req.due = {} THEN Timeout
                       ELSE Lesser((CHOOSE d \in req.due : TRUE) - now, Timeout)
  /\ UNCHANGED <<req, unread, now, invited, told, waitUntil, outcome, stopping>>

(* Nothing decodes from an empty body; the schema is checked last.         *)
Decode ==
  /\ at = "decode"
  /\ IF req.content = "text" \/ Length(req).n = 0
     THEN Say(400) /\ UNCHANGED told
     ELSE /\ told' = now + budget
          /\ IF req.content = "call" THEN Go("start") ELSE Say(400)
  /\ UNCHANGED <<req, unread, now, invited, taken, budget, waitUntil, outcome, stopping>>

(* _run: the handler's thread is started and waited for.                   *)
StartAlreadyWaiting ==
  /\ at = "start"
  /\ waitUntil' = taken + budget
  /\ Go("run")
  /\ UNCHANGED <<req, unread, now, invited, taken, budget, told, outcome, stopping>>

Start ==
  /\ at = "start"
  /\ \/ Go("run") /\ waitUntil' = now + budget
     \/ Say(500) /\ UNCHANGED waitUntil
  /\ UNCHANGED <<req, unread, now, invited, taken, budget, told, outcome, stopping>>

Return ==
  /\ at = "run"
  /\ \E s \in {200, 404, 422, 500} : Say(s)
  /\ UNCHANGED <<req, unread, now, invited, timing, outcome, stopping>>

BudgetPasses ==
  /\ at = "run" /\ now >= waitUntil
  /\ Say(504)
  /\ UNCHANGED <<req, unread, now, invited, timing, outcome, stopping>>

(* Past its body a request is answered in the author's words or its own,   *)
(* but for a success: they are rendered only in _answer, which may raise.  *)
Arrived == Framing(req) = Read /\ unread = 0 /\ Length(req).n <= req.size
Renderable == Arrived => status \notin {400, 422, 500}

(* _answer: any answer but a success closes, and so does a stop.           *)
Answer ==
  /\ at = "answer"
  /\ \/ /\ answers' = answers + 1
        /\ at' = IF req.close \/ stopping \/ status # 200 THEN "closed" ELSE "idle"
        /\ UNCHANGED <<status, why>>
     \/ ~Renderable /\ Drop("unrendered")
  /\ UNCHANGED <<req, unread, now, invited, timing, stopping>>

(* The peer leaves, or does not read its answer.                           *)
Lose ==
  /\ at \in {"head", "body", "answer"}
  /\ Drop("lost")
  /\ UNCHANGED <<req, unread, now, invited, timing, stopping>>

Tick ==
  /\ at \notin {"idle", "closed"} /\ now < MaxNow
  /\ now' = now + 1
  /\ UNCHANGED <<at, req, unread, invited, timing, status, outcome, stopping>>

Stop ==
  /\ ~stopping
  /\ stopping' = TRUE
  /\ UNCHANGED <<at, req, unread, now, invited, timing, status, outcome>>

Closed == at = "closed" /\ UNCHANGED vars

Next ==
  \/ \E r \in Requests : Begin(r)
  \/ HeadTooLarge \/ HeadLate \/ HeadArrives
  \/ Frame \/ BodyArrives \/ BodyEnds \/ BodyLate
  \/ Admit \/ TakeDecoder \/ Decode
  \/ Start \/ Return \/ BudgetPasses
  \/ Answer \/ Lose \/ Tick \/ Stop \/ Closed

Spec == Init /\ [][Next]_vars

(***************************************************************************)
(* Properties                                                              *)
(***************************************************************************)

(* No byte of one request is read as another: a connection kept for a next *)
(* request has nothing of the last one left on it, and a handler runs on   *)
(* the whole of a whole request (_framing, _read, _answer).                *)
InSync ==
  /\ at = "idle" => unread = 0
  /\ at = "run" => unread = 0 /\ req.whole

(* A request is answered once, and a peer told to go on has passed every   *)
(* check of its framing, method and size, so it is never then refused for  *)
(* how its body is framed (handle_expect_100, do_POST, _framing).  Its     *)
(* identity and its instant are in the head too, but are judged only after *)
(* the body, in read_call, and may still earn it a 400.                    *)
OneReply ==
  /\ answers <= 1
  /\ invited /\ at = "answer" => Framing(req) = Read /\ status \notin {405, 411, 413, 431, 501}

(* The harness gives a handler up no sooner than the instant it gave the   *)
(* handler, nor than its caller's if that is within the declared timeout   *)
(* of the call being read (_run's join, read_call).                        *)
WaitedOut ==
  at = "answer" /\ status = 504 =>
    /\ now >= told
    /\ \A d \in req.due : now >= Lesser(d, taken + Timeout)

(* A handler runs only under an instant that was still ahead when its call *)
(* reached the decoder, however long it queued; what it is told lies past  *)
(* that instant by no more than the time since then.                       *)
ToldByCaller ==
  at = "run" => \A d \in req.due : d > taken /\ told + taken <= d + now

(* "any other spelling is refused 400": a request whose length is spelled  *)
(* otherwise ends unanswered only if its connection was taken from it, its *)
(* head was late or its peer lost (docs/protocol.md on _framing).          *)
RefusalIsTold ==
  at = "closed" /\ answers = 0 /\ Lengths(req) # {} /\ Length(req).kind # "length"
    => why \in {"evicted", "late", "lost"}
=============================================================================
