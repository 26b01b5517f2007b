--------------------------- MODULE PackagesProofs ---------------------------
(***************************************************************************)
(* Whatever is declared and built in a row, and however schemas are        *)
(* encoded, parsed and rendered: digests pin what packages are bound to,   *)
(* and a harness enforces the declaration that it was built of.            *)
(***************************************************************************)
EXTENDS Packages, DigestProofs

(* The packages that can be built, and the contract a harness of one of    *)
(* them enforces.                                                          *)
Built ==
  {[runnable |-> r, document |-> GenerateDocument(r), digest |-> ConfigurationDigest(r)] :
     r \in Declarations}

ContractOf(r) == [GenerateDocument(r) EXCEPT !.input = Parse(@), !.output = Parse(@)]

StepInv ==
  /\ step \in {"declared", "refused", "generated", "packaged", "serving"}
  /\ runnable \in Declarations
DocumentInv == step \in {"generated", "packaged", "serving"} => document = GenerateDocument(runnable)
ContractInv == step = "serving" => contract = ContractOf(runnable)
PackagesInv == packages \in Seq(Built)

IInv == StepInv /\ DocumentInv /\ ContractInv /\ PackagesInv

(***************************************************************************)
(* The invariant                                                           *)
(***************************************************************************)
LEMMA InitIInv == Init => IInv
BY DEF Init, IInv, StepInv, DocumentInv, ContractInv, PackagesInv

(* The harness finds nothing to refuse in a document that was generated.   *)
LEMMA GeneratedIsReadable ==
  ASSUME NEW r \in Declarations, document = GenerateDocument(r)
  PROVE  ~Unreadable /\ Load = ContractOf(r)
<1>1. r.execution.timeout \in Nat \ {0} /\ r.execution.concurrency \in Nat
  BY DeclarationsAssumption DEF Declarable, Executions
<1>2. /\ document.schema = "v1" /\ document.protocol = "v1"
      /\ document.timeout_nanoseconds = r.execution.timeout
      /\ document.concurrency = r.execution.concurrency
  BY DEF GenerateDocument
<1> QED
  BY <1>1, <1>2 DEF Unreadable, Load, ContractOf

LEMMA NextIInv == IInv /\ [Next]_vars => IInv'
<1> SUFFICES ASSUME IInv, [Next]_vars PROVE IInv'
  OBVIOUS
<1> USE DEF IInv, StepInv, DocumentInv, ContractInv, PackagesInv
<1>1. CASE Refuse
  BY <1>1 DEF Refuse
<1>2. CASE Generate
  BY <1>2 DEF Generate
<1>3. CASE Package
  <2>1. /\ packages' = Append(packages, [runnable |-> runnable, document |-> document,
                                         digest |-> ConfigurationDigest(runnable)])
        /\ step' = "packaged" /\ UNCHANGED <<runnable, document, contract>>
        /\ document = GenerateDocument(runnable)
    BY <1>3 DEF Package
  <2>2. [runnable |-> runnable, document |-> document, digest |-> ConfigurationDigest(runnable)] \in Built
    BY <2>1 DEF Built
  <2> QED
    BY <2>1, <2>2
<1>4. CASE Start
  <2>1. document = GenerateDocument(runnable)
    BY <1>4 DEF Start
  <2>2. ~Unreadable /\ Load = ContractOf(runnable)
    BY <2>1, GeneratedIsReadable
  <2> QED
    BY <1>4, <2>2 DEF Start
<1>5. CASE \E r \in Declarations : Edit(r)
  BY <1>5 DEF Edit
<1>6. CASE Ended \/ UNCHANGED vars
  BY <1>6 DEF Ended, vars
<1> QED
  BY <1>1, <1>2, <1>3, <1>4, <1>5, <1>6 DEF Next

(* The invariant that what follows rests on: a package, and the harness    *)
(* that serves, are made of one declaration, the current one's or an       *)
(* earlier one's whole, never of two.                                      *)
THEOREM Invariance == Spec => []IInv
BY InitIInv, NextIInv, PTL DEF Spec

(***************************************************************************)
(* What the harness enforces                                               *)
(***************************************************************************)
(* No harness exits on a document that was generated, and one that serves  *)
(* does so with the declared timeout and a bound on its handlers, the      *)
(* declared one if there is one (Contract.load, main).                     *)
THEOREM LimitsEnforced == Spec => []LimitsAreDeclared
<1>1. IInv => LimitsAreDeclared
  <2> SUFFICES ASSUME IInv PROVE LimitsAreDeclared
    OBVIOUS
  <2>1. step # "exited" /\ runnable \in Declarations
    BY DEF IInv, StepInv
  <2>2. ASSUME step = "serving"
        PROVE  /\ contract.concurrency = runnable.execution.concurrency
               /\ contract.timeout_nanoseconds = runnable.execution.timeout
    BY <2>2 DEF IInv, ContractInv, ContractOf, GenerateDocument
  <2>3. runnable.execution.concurrency \in Nat
    BY <2>1, DeclarationsAssumption DEF Declarable, Executions
  <2> QED
    BY <2>1, <2>2, <2>3, BoundsAreNumbers DEF LimitsAreDeclared, Slots
<1> QED
  BY <1>1, Invariance, PTL

(***************************************************************************)
(* Digests                                                                 *)
(***************************************************************************)
(* The limits in the documents of two declarations are the same when all   *)
(* that is digested of their execution is, and then all of it is, with     *)
(* what they are bound to.                                                 *)
LEMMA LimitsPin ==
  ASSUME NEW r \in Declarations, NEW q \in Declarations, NEW s, NEW t,
         s.document = GenerateDocument(r), t.document = GenerateDocument(q),
         Bound(r) = Bound(q)
  PROVE  Limits(s) = Limits(t) <=> Execution(r.execution) = Execution(q.execution)
<1> DEFINE Digested == [timeout : Nat, cancellation : STRING, recovery : STRING,
                        completion : STRING \cup {"call"}, concurrency : Nat,
                        max_input_bytes : Nat, max_output_bytes : Nat, max_log_bytes : Nat]
           Said(c) == [schema |-> "v1", protocol |-> "v1", recovery |-> c.execution.recovery,
                       max_input_bytes |-> Bytes(c.execution.max_input_bytes),
                       max_output_bytes |-> Bytes(c.execution.max_output_bytes),
                       timeout_nanoseconds |-> c.execution.timeout,
                       concurrency |-> c.execution.concurrency]
<1>1. ASSUME NEW c, NEW p, p.document = GenerateDocument(c)
      PROVE  Limits(p) = Said(c)
  BY <1>1 DEF Limits, Restrict, GenerateDocument
<1>2. Limits(s) = Limits(t) <=>
        /\ r.execution.recovery = q.execution.recovery
        /\ Bytes(r.execution.max_input_bytes) = Bytes(q.execution.max_input_bytes)
        /\ Bytes(r.execution.max_output_bytes) = Bytes(q.execution.max_output_bytes)
        /\ r.execution.timeout = q.execution.timeout
        /\ r.execution.concurrency = q.execution.concurrency
  <2>1. Limits(s) = Said(r) /\ Limits(t) = Said(q)
    BY <1>1
  <2> QED
    BY <2>1
<1>3. /\ GetCompletion(r.execution) = GetCompletion(q.execution)
      /\ r.execution.cancellation = q.execution.cancellation
      /\ Bytes(r.execution.max_log_bytes) = Bytes(q.execution.max_log_bytes)
  BY DEF Bound
<1>4. r.execution \in Executions /\ q.execution \in Executions
  BY DeclarationsAssumption DEF Declarable
<1>5. ASSUME NEW e \in Executions
      PROVE  /\ Execution(e) \in Digested
             /\ Execution(e).timeout = e.timeout /\ Execution(e).concurrency = e.concurrency
             /\ Execution(e).cancellation = e.cancellation
             /\ Execution(e).recovery = e.recovery
             /\ Execution(e).completion = GetCompletion(e)
             /\ Execution(e).max_input_bytes = Bytes(e.max_input_bytes)
             /\ Execution(e).max_output_bytes = Bytes(e.max_output_bytes)
             /\ Execution(e).max_log_bytes = Bytes(e.max_log_bytes)
  <2>1. e.completion \in STRING => GetCompletion(e) \in STRING \cup {"call"}
    BY DEF GetCompletion
  <2>2. \A n \in Nat : Bytes(n) \in Nat
    BY DefaultBytesAssumption DEF Bytes
  <2> QED
    BY <2>1, <2>2 DEF Execution, Executions
<1>6. Execution(r.execution) = Execution(q.execution) <=>
        /\ r.execution.timeout = q.execution.timeout
        /\ r.execution.cancellation = q.execution.cancellation
        /\ r.execution.recovery = q.execution.recovery
        /\ GetCompletion(r.execution) = GetCompletion(q.execution)
        /\ r.execution.concurrency = q.execution.concurrency
        /\ Bytes(r.execution.max_input_bytes) = Bytes(q.execution.max_input_bytes)
        /\ Bytes(r.execution.max_output_bytes) = Bytes(q.execution.max_output_bytes)
        /\ Bytes(r.execution.max_log_bytes) = Bytes(q.execution.max_log_bytes)
  BY <1>4, <1>5
<1> QED
  BY <1>2, <1>3, <1>6

(* Of all packages ever built, two have one configuration digest exactly   *)
(* when what their invocations are bound to and limited by is the same, in *)
(* whatever order and at whatever length the declarations list it          *)
(* (ConfigurationDigest).                                                  *)
THEOREM DigestsPin == Spec => []DigestPins
<1>1. IInv => DigestPins
  <2> SUFFICES ASSUME IInv, NEW p \in Range(packages), NEW q \in Range(packages)
               PROVE  p.digest = q.digest
                        <=> Bound(p.runnable) = Bound(q.runnable) /\ Limits(p) = Limits(q)
    BY DEF DigestPins
  <2>1. Range(packages) \subseteq Built
    BY DEF IInv, PackagesInv, Range
  <2>2. /\ p.runnable \in Declarations /\ q.runnable \in Declarations
        /\ p.document = GenerateDocument(p.runnable)
        /\ q.document = GenerateDocument(q.runnable)
        /\ p.digest = ConfigurationDigest(p.runnable)
        /\ q.digest = ConfigurationDigest(q.runnable)
    BY <2>1 DEF Built
  <2>3. Declarable(p.runnable) /\ Declarable(q.runnable)
    BY <2>2, DeclarationsAssumption
  <2>4. p.digest = q.digest <=>
          /\ Bound(p.runnable) = Bound(q.runnable)
          /\ Execution(p.runnable.execution) = Execution(q.runnable.execution)
    BY <2>2, <2>3, DigestIsCanonical
  <2>5. Bound(p.runnable) = Bound(q.runnable) =>
          (Limits(p) = Limits(q)
             <=> Execution(p.runnable.execution) = Execution(q.runnable.execution))
    BY <2>2, LimitsPin
  <2> QED
    BY <2>4, <2>5
<1> QED
  BY <1>1, Invariance, PTL
=============================================================================
