------------------------------- MODULE Buffer -------------------------------
(***************************************************************************)
(* What runner.py's _Diagnostics promises, without its threads and locks:  *)
(* messages come out in the order they went in; one is lost only where as  *)
(* many wait as may, and is counted; and once it is closed, what comes out *)
(* of it stops only with nothing waiting, or with the process, which waits *)
(* for none of it.  Its docstring: "written so that nothing waits on       *)
(* stderr"; "Past the queue's bound a message is dropped and counted       *)
(* rather than waited for."                                                *)
(***************************************************************************)
EXTENDS Naturals, Sequences

CONSTANTS Message, Count, Capacity

VARIABLES
  said,     \* the messages offered, close's own among them
  waiting,  \* those taken and not yet written, in order
  written,  \* those written
  lost,     \* how many were dropped, and so counted
  closed,   \* close() asked the writer to end
  drained,  \* the writer ended
  over      \* the process did

vars == <<said, waiting, written, lost, closed, drained, over>>

Init ==
  /\ said = {} /\ waiting = <<>> /\ written = <<>> /\ lost = 0
  /\ closed = FALSE /\ drained = FALSE /\ over = FALSE

(* One that is being written waits beside the Capacity that are queued.    *)
Take(m) == Len(waiting) <= Capacity /\ waiting' = Append(waiting, m) /\ UNCHANGED lost
Drop == Len(waiting) >= Capacity /\ lost' = lost + 1 /\ UNCHANGED waiting

Offer(m) ==
  /\ m \notin said /\ said' = said \cup {m}
  /\ Take(m) \/ Drop
  /\ UNCHANGED <<written, closed, drained, over>>

(* close() has something to say only if something was lost.                *)
Say(m) == Offer(m) /\ (m = Count => lost > 0 /\ ~closed)

Write ==
  /\ ~drained /\ waiting # <<>>
  /\ written' = Append(written, Head(waiting))
  /\ waiting' = Tail(waiting)
  /\ UNCHANGED <<said, lost, closed, drained, over>>

Close ==
  /\ ~closed /\ closed' = TRUE
  /\ UNCHANGED <<said, waiting, written, lost, drained, over>>

Drain ==
  /\ closed /\ waiting = <<>>
  /\ drained' = TRUE
  /\ UNCHANGED <<said, waiting, written, lost, closed, over>>

End ==
  /\ closed
  /\ over' = TRUE
  /\ UNCHANGED <<said, waiting, written, lost, closed, drained>>

Next ==
  /\ ~over
  /\ (\E m \in Message \cup {Count} : Say(m)) \/ Write \/ Close \/ Drain \/ End

Spec == Init /\ [][Next]_vars
=============================================================================
