----------------------------- MODULE Admission -----------------------------
(***************************************************************************)
(* What runner.py's _Calls promises, without its threads and locks: at     *)
(* most Limit calls are inside at once, no call enters once admission has  *)
(* closed, a call is refused only for one of those two reasons, and the    *)
(* process ends cleanly only with nobody inside.  _Calls's docstring:      *)
(* "Admission and the stop are one decision under one lock, so no call     *)
(* starts after the harness has begun draining and the drain cannot miss   *)
(* one."                                                                   *)
(***************************************************************************)
EXTENDS Naturals, FiniteSets

CONSTANTS Call, Limit

VARIABLES
  inside,   \* the calls admitted and not yet gone
  gone,     \* the calls that were inside and left
  refused,  \* the calls turned away
  closed,   \* no more admission
  ended     \* "no", or how the process ended: "clean" or "cut"

vars == <<inside, gone, refused, closed, ended>>

Init ==
  /\ inside = {} /\ gone = {} /\ refused = {}
  /\ closed = FALSE
  /\ ended = "no"

Waiting(c) == c \notin inside \cup gone \cup refused

Enter(c) ==
  /\ ended = "no" /\ Waiting(c)
  /\ ~closed /\ Cardinality(inside) < Limit
  /\ inside' = inside \cup {c}
  /\ UNCHANGED <<gone, refused, closed, ended>>

Refuse(c) ==
  /\ ended = "no" /\ Waiting(c)
  /\ closed \/ Cardinality(inside) >= Limit
  /\ refused' = refused \cup {c}
  /\ UNCHANGED <<inside, gone, closed, ended>>

Leave(c) ==
  /\ ended = "no" /\ c \in inside
  /\ inside' = inside \ {c}
  /\ gone' = gone \cup {c}
  /\ UNCHANGED <<refused, closed, ended>>

Close ==
  /\ ended = "no" /\ ~closed
  /\ closed' = TRUE
  /\ UNCHANGED <<inside, gone, refused, ended>>

(* A cut says somebody was still inside when patience ended; they may have *)
(* left since.                                                             *)
End ==
  /\ ended = "no" /\ closed
  /\ \/ ended' = "clean" /\ inside = {}
     \/ ended' = "cut"
  /\ UNCHANGED <<inside, gone, refused, closed>>

Next ==
  \/ \E c \in Call : Enter(c) \/ Refuse(c) \/ Leave(c)
  \/ Close \/ End

Spec == Init /\ [][Next]_vars

(* Once closed, it ends: nobody inside can hold it open for ever.          *)
FairSpec == Spec /\ WF_vars(End)
=============================================================================
