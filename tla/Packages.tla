------------------------------ MODULE Packages ------------------------------
(***************************************************************************)
(* What becomes of a declaration in a package: the contract document and   *)
(* the typed bindings generated of it, the digest its configuration is     *)
(* identified by (Digest), and the contract the harness reads back and     *)
(* enforces.  How a schema is encoded and parsed (Payload) and rendered    *)
(* (Bindings) are parameters: Declaration gives them.                      *)
(* Each build runs to its end before the next; steps that overlap are in   *)
(* Builder, and where the files go is in Files.                            *)
(***************************************************************************)
EXTENDS Integers, Digest

CONSTANTS
  Declarations,         \* what authors declare and core's validation admits
  Builds,               \* builds in a row
  HARNESS_CONCURRENCY,  \* the harness's own bound on handlers
  SchemaOf(_),          \* contract.go: the document's form of declared fields
  Parse(_),             \* schema.py: the fields the harness reads back
  Render(_, _)          \* types.go: the module of two lists of fields

ASSUME BoundsAreNumbers == Builds \in Nat \ {0} /\ HARNESS_CONCURRENCY \in Nat \ {0}

(* Core refuses the others when a declaration is loaded.                   *)
ASSUME DeclarationsAssumption == \A r \in Declarations : Declarable(r)

VARIABLES
  step,      \* "declared", "refused", "generated", "packaged", "serving", "exited"
  runnable,  \* the declaration in memory
  document,  \* contract.json: a JSON object
  module,    \* codefly_types.py
  contract,  \* what the harness read of the document
  packages   \* packages built: declaration, document and configuration digest

vars == <<step, runnable, document, module, contract, packages>>

NoDocument == [k \in {} |-> <<>>]

Init ==
  /\ runnable \in Declarations
  /\ step = "declared"
  /\ document = NoDocument /\ contract = NoDocument
  /\ module = [imports |-> FALSE, classes |-> <<>>]
  /\ packages = <<>>

(* Completions and cancellations the harness can honour.                   *)
Supported(r) ==
  /\ GetCompletion(r.execution) = "call"
  /\ r.execution.cancellation # "signal"

GenerateDocument(r) ==
  [schema |-> "v1", protocol |-> "v1",
   input |-> SchemaOf(r.input), output |-> SchemaOf(r.output),
   recovery |-> r.execution.recovery,
   max_input_bytes |-> Bytes(r.execution.max_input_bytes),
   max_output_bytes |-> Bytes(r.execution.max_output_bytes),
   timeout_nanoseconds |-> r.execution.timeout,
   concurrency |-> r.execution.concurrency]

Refuse ==
  /\ step = "declared" /\ ~Supported(runnable)
  /\ step' = "refused"
  /\ UNCHANGED <<runnable, document, module, contract, packages>>

Generate ==
  /\ step = "declared" /\ Supported(runnable)
  /\ document' = GenerateDocument(runnable)
  /\ module' = Render(runnable.input, runnable.output)
  /\ step' = "generated"
  /\ UNCHANGED <<runnable, contract, packages>>

-----------------------------------------------------------------------------
Package ==
  /\ step = "generated"
  /\ packages' = Append(packages, [runnable |-> runnable, document |-> document,
                                   digest |-> ConfigurationDigest(runnable)])
  /\ step' = "packaged"
  /\ UNCHANGED <<runnable, document, module, contract>>

-----------------------------------------------------------------------------
(* Contract.load, at the start of the packaged harness.                    *)
Unreadable ==
  \/ document.schema # "v1"
  \/ document.protocol # "v1"
  \/ document.timeout_nanoseconds <= 0
  \/ document.concurrency < 0

Load ==
  [document EXCEPT !.input = Parse(@), !.output = Parse(@)]

Start ==
  /\ step = "packaged"
  /\ step' = IF Unreadable THEN "exited" ELSE "serving"
  /\ contract' = IF Unreadable THEN contract ELSE Load
  /\ UNCHANGED <<runnable, document, module, packages>>

(* main's `contract.concurrency or HARNESS_CONCURRENCY`.                   *)
Slots == IF contract.concurrency = 0 THEN HARNESS_CONCURRENCY ELSE contract.concurrency

(* The author edits the declaration and builds again.                      *)
Edit(r) ==
  /\ step \in {"refused", "serving", "exited"}
  /\ Len(packages) < Builds
  /\ runnable' = r /\ step' = "declared"
  /\ UNCHANGED <<document, module, contract, packages>>

(* The last build is done.                                                 *)
Ended ==
  /\ step \in {"serving", "exited"}
  /\ Len(packages) = Builds
  /\ UNCHANGED vars

Next == Refuse \/ Generate \/ Package \/ Start \/ (\E r \in Declarations : Edit(r)) \/ Ended

Spec == Init /\ [][Next]_vars

-----------------------------------------------------------------------------

(* A harness starts on every document generated, and under the limits of   *)
(* the declaration it was generated of, the harness's own bound where none *)
(* is declared (contract.go, contract.py, main).                           *)
LimitsAreDeclared ==
  /\ step # "exited"
  /\ step = "serving" =>
       /\ Slots > 0
       /\ runnable.execution.concurrency \in {0, Slots}
       /\ contract.timeout_nanoseconds = runnable.execution.timeout

(* Two packages have one configuration digest exactly when what their      *)
(* invocations are bound to is the same, in whatever order the declaration *)
(* lists it; and then their harnesses run under the same limits (pack.go). *)
Limits(p) == Restrict(p.document, DOMAIN p.document \ {"input", "output"})

DigestPins ==
  \A p, q \in Range(packages) :
    p.digest = q.digest <=> Bound(p.runnable) = Bound(q.runnable) /\ Limits(p) = Limits(q)
=============================================================================
