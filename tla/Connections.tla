---------------------------- MODULE Connections ----------------------------
(***************************************************************************)
(* The connections: runner.py's _Server registry and its eviction, the     *)
(* readers semaphore that bounds the requests being read, and the Handler  *)
(* that reads one request after another off a persistent connection.       *)
(*                                                                         *)
(* Each connection has one thread (at).  A request holds a reader while it *)
(* is read and until it is decoded, then a call's slot; a connection       *)
(* waiting for its next request holds neither, and is what the registry    *)
(* closes to make room.  Calls are seen from here only by their slots.     *)
(***************************************************************************)
EXTENDS Naturals, Sequences, FiniteSets, SequencesExt

CONSTANTS
  Conn,     \* sockets; one that was closed may be accepted again as a new one
  Readers,  \* requests read at once: the memory budget over one request's size
  Limit,    \* calls running at once
  IdleRoom  \* IDLE_CONNECTIONS

ASSUME ReadersAssumption == Readers \in Nat \ {0}
ASSUME LimitAssumption == Limit \in Nat \ {0}
ASSUME IdleRoomAssumption == IdleRoom \in Nat

VARIABLES
  open,     \* _Server._open: the connections counted in, in the dict's order
  idle,     \* its values: whether each is idle
  readers,  \* the semaphore's free permits
  strays,   \* slots held only by a handler whose call was answered at its deadline
  stopping, \* _Calls._stopping
  at,       \* where each connection's thread is
  reading,  \* Handler._reading: it holds a reader
  held,     \* its request holds a call's slot
  body,     \* it references a body it has read
  answer,   \* the _Answer it sends: 200 ("ok"), 504 ("late"), anything else ("no")
  keep,     \* ~close_connection, from _answer to the next request
  shut,     \* the registry shut its socket down to make room
  waited    \* the idle connections in the order they fell idle (history)

threadVars == <<at, reading, held, body, answer, keep>>
registryVars == <<open, idle, shut, waited>>
vars == <<registryVars, threadVars, readers, strays, stopping>>

Bound == Readers + Limit + IdleRoom

(***************************************************************************)
(* A thread waits in "peek" for the next request to begin, has seen it in  *)
(* "begun", claims its connection, and needs a reader in "claimed".  With  *)
(* none it is "rejected".  With one it reads "head" and "body", asks for a *)
(* slot in "admit", is decoded and served, and sends its answer in         *)
(* "answer" (what to say) and "write" (saying it).  "leave" lets the slot  *)
(* go, "unread" the reader, "rest" marks the connection idle; "closing"    *)
(* ends the thread.                                                        *)
(***************************************************************************)
Busy == {"claimed", "rejected", "head", "body", "admit", "decode", "serve",
         "answer", "write", "leave", "unread", "rest"}
At == Busy \cup {"closed", "peek", "begun", "closing"}

Registered(c) == Contains(open, c)
Slots == Cardinality({c \in Conn : held[c]}) + strays

Init ==
  /\ open = <<>> /\ waited = <<>>
  /\ idle = [c \in Conn |-> FALSE]
  /\ readers = Readers
  /\ strays = 0
  /\ stopping = FALSE
  /\ at = [c \in Conn |-> "closed"]
  /\ reading = [c \in Conn |-> FALSE]
  /\ held = [c \in Conn |-> FALSE]
  /\ body = [c \in Conn |-> FALSE]
  /\ answer = [c \in Conn |-> "none"]
  /\ keep = [c \in Conn |-> FALSE]
  /\ shut = [c \in Conn |-> FALSE]

Go(c, to) == at' = [at EXCEPT ![c] = to]
Say(c, what) == answer' = [answer EXCEPT ![c] = what]

(***************************************************************************)
(* The registry.  Where a definition is preceded by a variant of itself    *)
(* with one plausible mistake, no specification uses the variant.          *)
(***************************************************************************)
(* The connection register() closes at the bound, if any: the first idle   *)
(* one in the dict's order.                                                *)
Oldest ==
  {d \in Conn : /\ Len(open) >= Bound
                /\ \E i \in 1..Len(open) :
                     open[i] = d /\ idle[d] /\ \A j \in 1..(i - 1) : ~idle[open[j]]}

(* process_request: count the connection in, then start its thread; one    *)
(* whose thread cannot start is closed by the accepting thread.            *)
Accept(c) ==
  /\ at[c] = "closed"
  /\ \/ /\ Oldest = {}
        /\ open' = Append(open, c)
        /\ waited' = Append(waited, c)
        /\ UNCHANGED shut
     \/ \E d \in Oldest :
        /\ open' = Append(RemoveFirst(open, d), c)
        /\ waited' = Append(RemoveFirst(waited, d), c)
        /\ shut' = [shut EXCEPT ![d] = TRUE]
  /\ idle' = [idle EXCEPT ![c] = TRUE]
  /\ Go(c, "peek") \/ Go(c, "closing")
  /\ UNCHANGED <<readers, strays, stopping, reading, held, body, answer, keep>>

ClaimUnchecked(c) ==
  /\ at[c] = "begun"
  /\ idle' = [idle EXCEPT ![c] = FALSE]
  /\ waited' = RemoveFirst(waited, c)
  /\ Go(c, "claimed")
  /\ UNCHANGED <<open, shut, readers, strays, stopping, reading, held, body, answer, keep>>

(* claim(): busy from here, unless it was closed to make room.             *)
Claim(c) ==
  /\ at[c] = "begun"
  /\ \/ /\ Registered(c)
        /\ idle' = [idle EXCEPT ![c] = FALSE]
        /\ waited' = RemoveFirst(waited, c)
        /\ Go(c, "claimed")
     \/ /\ ~Registered(c)
        /\ Go(c, "closing")
        /\ UNCHANGED <<idle, waited>>
  /\ UNCHANGED <<open, shut, readers, strays, stopping, reading, held, body, answer, keep>>

RestInPlace(c) ==
  /\ at[c] = "rest"
  /\ Registered(c)
  /\ idle' = [idle EXCEPT ![c] = TRUE]
  /\ waited' = Append(waited, c)
  /\ keep' = [keep EXCEPT ![c] = FALSE]
  /\ Go(c, IF keep[c] THEN "peek" ELSE "closing")
  /\ UNCHANGED <<open, shut, readers, strays, stopping, reading, held, body, answer>>

(* idle(): to the back of the eviction order.                              *)
Rest(c) ==
  /\ at[c] = "rest"
  /\ \/ /\ Registered(c)
        /\ open' = Append(RemoveFirst(open, c), c)
        /\ idle' = [idle EXCEPT ![c] = TRUE]
        /\ waited' = Append(waited, c)
     \/ ~Registered(c) /\ UNCHANGED <<open, idle, waited>>
  /\ keep' = [keep EXCEPT ![c] = FALSE]
  /\ Go(c, IF keep[c] THEN "peek" ELSE "closing")
  /\ UNCHANGED <<shut, readers, strays, stopping, reading, held, body, answer>>

(* shutdown_request(): counted out, and the socket may be somebody else's. *)
Close(c) ==
  /\ at[c] = "closing"
  /\ open' = RemoveFirst(open, c)
  /\ waited' = RemoveFirst(waited, c)
  /\ idle' = [idle EXCEPT ![c] = FALSE]
  /\ shut' = [shut EXCEPT ![c] = FALSE]
  /\ Go(c, "closed")
  /\ UNCHANGED <<readers, strays, stopping, reading, held, body, answer, keep>>

(***************************************************************************)
(* Reading one request                                                     *)
(***************************************************************************)
(* The peer's next byte; one already received is still read after the      *)
(* registry shut the socket down.                                          *)
Begin(c) ==
  /\ at[c] = "peek"
  /\ Go(c, "begun")
  /\ UNCHANGED <<registryVars, readers, strays, stopping, reading, held, body, answer, keep>>

(* No request: the peer left, IDLE_SECONDS passed, or the socket was shut. *)
PeekEnds(c) ==
  /\ at[c] = "peek"
  /\ Go(c, "closing")
  /\ UNCHANGED <<registryVars, readers, strays, stopping, reading, held, body, answer, keep>>

TakeReaderBlindly(c) ==
  /\ at[c] = "claimed"
  /\ readers' = readers - 1
  /\ reading' = [reading EXCEPT ![c] = TRUE]
  /\ Go(c, "head")
  /\ UNCHANGED <<registryVars, strays, stopping, held, body, answer, keep>>

TakeReader(c) ==
  /\ at[c] = "claimed"
  /\ IF readers > 0
     THEN /\ readers' = readers - 1
          /\ reading' = [reading EXCEPT ![c] = TRUE]
          /\ Go(c, "head")
     ELSE /\ Go(c, "rejected")
          /\ UNCHANGED <<readers, reading>>
  /\ UNCHANGED <<registryVars, strays, stopping, held, body, answer, keep>>

(* The 503 of a request not one byte of which is read: whether or not it   *)
(* can be written, the thread ends, and the registry is not told first.    *)
Reject(c) ==
  /\ at[c] = "rejected"
  /\ Go(c, "closing")
  /\ UNCHANGED <<registryVars, readers, strays, stopping, reading, held, body, answer, keep>>

(* A head that arrived in time and names a served procedure.               *)
HeadArrives(c) ==
  /\ at[c] = "head"
  /\ Go(c, "body")
  /\ UNCHANGED <<registryVars, readers, strays, stopping, reading, held, body, answer, keep>>

(* A head that is too large, malformed, a GET, for another path, or asks   *)
(* leave to send a body that is refused: answered with its reader held.    *)
HeadRefused(c) ==
  /\ at[c] = "head"
  /\ Say(c, "no")
  /\ Go(c, "answer")
  /\ UNCHANGED <<registryVars, readers, strays, stopping, reading, held, body, keep>>

HeadDroppedReading(c) ==
  /\ at[c] = "head"
  /\ Go(c, "closing")
  /\ UNCHANGED <<registryVars, readers, strays, stopping, reading, held, body, answer, keep>>

(* REQUEST_READ_SECONDS passed inside the head, or the peer left: dropped. *)
HeadDropped(c) ==
  /\ at[c] = "head"
  /\ Go(c, "unread")
  /\ UNCHANGED <<registryVars, readers, strays, stopping, reading, held, body, answer, keep>>

BodyArrives(c) ==
  /\ at[c] = "body"
  /\ body' = [body EXCEPT ![c] = TRUE]
  /\ Go(c, "admit")
  /\ UNCHANGED <<registryVars, readers, strays, stopping, reading, held, answer, keep>>

(* Refused unread by its framing, cut short, or not there in time: 408.    *)
BodyRefused(c) ==
  /\ at[c] = "body"
  /\ Say(c, "no")
  /\ Go(c, "answer")
  /\ UNCHANGED <<registryVars, readers, strays, stopping, reading, held, body, keep>>

(* _done_reading(): the reader is returned at most once per request.       *)
DoneReading(c) ==
  /\ readers' = IF reading[c] THEN readers + 1 ELSE readers
  /\ reading' = [reading EXCEPT ![c] = FALSE]

(***************************************************************************)
(* Serving it                                                              *)
(***************************************************************************)
AdmitUnread(c) ==
  /\ at[c] = "admit"
  /\ ~stopping /\ Slots < Limit
  /\ DoneReading(c)
  /\ held' = [held EXCEPT ![c] = TRUE]
  /\ Go(c, "decode")
  /\ UNCHANGED <<registryVars, strays, stopping, body, answer, keep>>

Admit(c) ==
  /\ at[c] = "admit"
  /\ ~stopping /\ Slots < Limit
  /\ held' = [held EXCEPT ![c] = TRUE]
  /\ Go(c, "decode")
  /\ UNCHANGED <<registryVars, readers, strays, stopping, reading, body, answer, keep>>

RefuseReadAgain(c) ==
  /\ at[c] = "admit"
  /\ stopping \/ Slots >= Limit
  /\ readers' = readers + 1
  /\ Say(c, "no")
  /\ Go(c, "answer")
  /\ UNCHANGED <<registryVars, strays, stopping, reading, held, body, keep>>

(* No slot: the reader goes back before the 503 is written, the body with  *)
(* do_POST's frame, after.                                                 *)
Refuse(c) ==
  /\ at[c] = "admit"
  /\ stopping \/ Slots >= Limit
  /\ DoneReading(c)
  /\ Say(c, "no")
  /\ Go(c, "answer")
  /\ UNCHANGED <<registryVars, strays, stopping, held, body, keep>>

(* Decoded, or refused by the decoder, under the slot: the body and the    *)
(* reader go, in that order and on either path.                            *)
Decode(c) ==
  /\ at[c] = "decode"
  /\ body' = [body EXCEPT ![c] = FALSE]
  /\ DoneReading(c)
  /\ \/ Go(c, "serve") /\ UNCHANGED answer
     \/ Go(c, "answer") /\ Say(c, "no")
  /\ UNCHANGED <<registryVars, strays, stopping, held, keep>>

(* The handler returned, or the call's budget passed first: "late".        *)
ServeReturns(c) ==
  /\ at[c] = "serve"
  /\ \E what \in {"ok", "no"} : Say(c, what)
  /\ Go(c, "answer")
  /\ UNCHANGED <<registryVars, readers, strays, stopping, reading, held, body, keep>>

ServeExpires(c) ==
  /\ at[c] = "serve"
  /\ Say(c, "late")
  /\ Go(c, "answer")
  /\ UNCHANGED <<registryVars, readers, strays, stopping, reading, held, body, keep>>

(* _answer: anything but a success closes, so does a stopping harness, and *)
(* the peer may have asked for it.                                         *)
Answer(c) ==
  /\ at[c] = "answer"
  /\ \E asked \in BOOLEAN : keep' = [keep EXCEPT ![c] = answer[c] = "ok" /\ ~stopping /\ ~asked]
  /\ Go(c, "write")
  /\ UNCHANGED <<registryVars, readers, strays, stopping, reading, held, body, answer>>

(* Written; or the peer left or stalled past WRITE_STALL_SECONDS, which    *)
(* ends the connection.  do_POST returns, and drops what body it holds.    *)
Written(c) ==
  /\ at[c] = "write"
  /\ body' = [body EXCEPT ![c] = FALSE]
  /\ Go(c, "leave")
  /\ UNCHANGED <<registryVars, readers, strays, stopping, reading, held, answer, keep>>

WriteStalls(c) == at[c] = "write" /\ UNCHANGED vars

WriteFails(c) ==
  /\ at[c] = "write"
  /\ body' = [body EXCEPT ![c] = FALSE]
  /\ keep' = [keep EXCEPT ![c] = FALSE]
  /\ Go(c, "leave")
  /\ UNCHANGED <<registryVars, readers, strays, stopping, reading, held, answer>>

(* slot.release(): a handler still running past its deadline keeps it.     *)
Leave(c) ==
  /\ at[c] = "leave"
  /\ held' = [held EXCEPT ![c] = FALSE]
  /\ strays' \in {strays} \cup (IF held[c] /\ answer[c] = "late" THEN {strays + 1} ELSE {})
  /\ Go(c, "unread")
  /\ UNCHANGED <<registryVars, readers, stopping, reading, body, answer, keep>>

StrayReturns ==
  /\ strays > 0
  /\ strays' = strays - 1
  /\ UNCHANGED <<registryVars, threadVars, readers, stopping>>

(* handle_one_request's `finally`, before it tells the registry.           *)
Unread(c) ==
  /\ at[c] = "unread"
  /\ DoneReading(c)
  /\ Say(c, "none")
  /\ Go(c, "rest")
  /\ UNCHANGED <<registryVars, strays, stopping, held, body, keep>>

Stop ==
  /\ ~stopping
  /\ stopping' = TRUE
  /\ UNCHANGED <<registryVars, threadVars, readers, strays>>

(***************************************************************************)
(* The specification                                                       *)
(***************************************************************************)
(* What the harness's own threads and timeouts do by themselves.           *)
OwnStep(c) ==
  \/ Claim(c) \/ Rest(c) \/ Close(c) \/ PeekEnds(c) \/ TakeReader(c) \/ Reject(c)
  \/ HeadDropped(c) \/ BodyRefused(c) \/ Admit(c) \/ Refuse(c) \/ Decode(c)
  \/ ServeExpires(c) \/ Answer(c) \/ WriteFails(c) \/ Leave(c) \/ Unread(c)

(* What takes a peer, or author code, that may never oblige.               *)
PeerStep(c) ==
  \/ Accept(c) \/ Begin(c) \/ HeadArrives(c) \/ HeadRefused(c) \/ BodyArrives(c)
  \/ ServeReturns(c) \/ Written(c)

Next ==
  \/ \E c \in Conn : OwnStep(c) \/ PeerStep(c)
  \/ StrayReturns \/ Stop

Spec == Init /\ [][Next]_vars

(* Threads are scheduled and every wait on a peer has a deadline.          *)
FairSpec == Spec /\ \A c \in Conn : WF_vars(OwnStep(c))

(***************************************************************************)
(* Properties                                                              *)
(***************************************************************************)
(* Every variable stays in range, and the registry lists nothing twice.    *)
TypeOK ==
  /\ open \in Seq(Conn) /\ IsInjective(open)
  /\ waited \in Seq(Conn) /\ IsInjective(waited)
  /\ readers \in Nat /\ strays \in Nat /\ stopping \in BOOLEAN
  /\ at \in [Conn -> At]
  /\ answer \in [Conn -> {"none", "ok", "late", "no"}]
  /\ \A flag \in {idle, reading, held, body, keep, shut} : flag \in [Conn -> BOOLEAN]

(* Every reader taken is given back once, on whatever path the request     *)
(* ends: a permit released twice would raise, one kept would be lost.      *)
ReadersConserved == readers + Cardinality({c \in Conn : reading[c]}) = Readers

(* The memory bound: every request being read or waiting to be decoded     *)
(* holds a reader, so there are never more of them than readers.           *)
ReadUnderReader ==
  \A c \in Conn : at[c] \in {"head", "body", "admit", "decode"} => reading[c]

(* A connection is closed to make room only while idle: a request that was *)
(* begun on an evicted connection is never read, let alone run.            *)
ServedIsRegistered ==
  \A c \in Conn : at[c] \in Busy => Registered(c) /\ ~idle[c] /\ ~shut[c]

(* The registry's order among idle connections is the order they fell idle *)
(* in, so the one closed is the one idle the longest.                      *)
Before(s, c, d) == \E i, j \in 1..Len(s) : i < j /\ s[i] = c /\ s[j] = d
LongestIdleFirst ==
  /\ \A c \in Conn : Contains(waited, c) <=> Registered(c) /\ idle[c]
  /\ \A c, d \in Conn : Before(waited, c, d) => Before(open, c, d)

(* A connection at rest or gone holds no reader, no slot and no body, and  *)
(* one that was forgotten by the registry has been shut.                   *)
NothingLeaks ==
  \A c \in Conn : at[c] \in {"closed", "peek", "begun", "closing"} =>
    /\ ~reading[c] /\ ~held[c] /\ ~body[c]
    /\ at[c] = "closed" => ~Registered(c)
    /\ at[c] \in {"peek", "begun"} => Registered(c) \/ shut[c]

(* Whatever its peer does, a request that was begun ends.                  *)
RequestsEnd == \A c \in Conn : at[c] = "claimed" ~> at[c] \in {"peek", "closed"}
=============================================================================
