------------------------------ MODULE Release ------------------------------
(***************************************************************************)
(* What the builder agent's RunnableBuildInputs and Package promise whoever*)
(* releases with them, without the disk's other files and the steps of a   *)
(* call: an archive is written only of a prepared snapshot and only where  *)
(* there is none, it stays as it was written, and Package answers with one *)
(* only if it is finished and is what RunnableBuildInputs gave evidence of.*)
(* builder.go: "Package re-measures it before using it, so it stays        *)
(* packageable."                                                           *)
(***************************************************************************)
CONSTANTS
  Dir,       \* where archives may be asked for
  None,      \* no archive
  Archive,   \* what one can hold
  Evidence   \* what can be measured of a snapshot

VARIABLES
  current,   \* the evidence of the snapshot that may be packaged: one or none
  store,     \* the archive in each directory, finished or not
  answered   \* every evidence and archive that Package answered with

vars == <<current, store, answered>>

Init == current = {} /\ store = [d \in Dir |-> None] /\ answered = {}

(* Load forgets the snapshot, and so does the end of the process.          *)
Forget == current' = {} /\ UNCHANGED <<store, answered>>

Prepare ==
  /\ \E e \in Evidence : current' = {e}
  /\ UNCHANGED <<store, answered>>

(* Whatever comes to be there, whether or not the writing succeeds.        *)
Write(d) ==
  /\ current # {} /\ store[d] = None
  /\ store'[d] \in Archive
  /\ \A other \in Dir \ {d} : store'[other] = store[other]
  /\ UNCHANGED <<current, answered>>

Matches(bytes, evidence) ==
  /\ bytes \in Archive /\ bytes.complete
  /\ bytes.inputs = evidence.inputs /\ bytes.harness = evidence.harness
  /\ bytes.contract[1] = evidence.config

Answer(d) ==
  /\ \E e \in current :
       Matches(store[d], e) /\ answered' = answered \cup {[build |-> e, bytes |-> store[d]]}
  /\ UNCHANGED <<current, store>>

Next == Forget \/ Prepare \/ \E d \in Dir : Write(d) \/ Answer(d)

Spec == Init /\ [][Next]_vars
=============================================================================
