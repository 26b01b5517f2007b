------------------------------- MODULE Digest -------------------------------
(***************************************************************************)
(* pack.ConfigurationDigest: what identifies the configuration a package   *)
(* runs under.  It hashes an encoding; what it tells apart is the encoded  *)
(* value.  Names are numbers, ordered as the strings are.                  *)
(***************************************************************************)
EXTENDS Naturals, Sequences, Functions

CONSTANT DefaultBytes   \* core's bound where none is declared

ASSUME DefaultBytesAssumption == DefaultBytes \in Nat \ {0}

(* What core's validation admits: no name is listed twice, no dependency   *)
(* has the coordinates of another, and a call is given time.               *)
Dependency == [module : Nat, name : Nat, kind : STRING, endpoints : Seq(Nat)]
Executions ==
  [timeout : Nat \ {0}, cancellation : STRING, recovery : STRING, completion : STRING,
   concurrency : Nat, max_input_bytes : Nat, max_output_bytes : Nat, max_log_bytes : Nat]

Declarable(r) ==
  /\ r.configurations \in Seq(Nat) /\ IsInjective(r.configurations)
  /\ r.dependencies \in Seq(Dependency)
  /\ \A i \in DOMAIN r.dependencies : IsInjective(r.dependencies[i].endpoints)
  /\ \A i, j \in DOMAIN r.dependencies :
       /\ r.dependencies[i].module = r.dependencies[j].module
       /\ r.dependencies[i].name = r.dependencies[j].name
       => i = j
  /\ r.execution \in Executions

(* What core's getters answer for the zero of a field.                     *)
GetCompletion(e) == IF e.completion = "" THEN "call" ELSE e.completion
Bytes(declared) == IF declared = 0 THEN DefaultBytes ELSE declared

(* A list with its elements in another order; sort.Slice leaves one where  *)
(* none is less than an earlier one.                                       *)
Orders(s) == {[i \in DOMAIN s |-> s[p[i]]] : p \in Bijection(DOMAIN s, DOMAIN s)}
SortedBy(s, less) == CHOOSE t \in Orders(s) : \A i, j \in DOMAIN s : i < j => <<t[j], t[i]>> \notin less

Alphabetical(names) == {e \in Range(names) \X Range(names) : e[1] < e[2]}
Sorted(names) == SortedBy(names, Alphabetical(names))

ByCoordinates(dependencies) ==
  {e \in Range(dependencies) \X Range(dependencies) :
     IF e[1].module # e[2].module THEN e[1].module < e[2].module ELSE e[1].name < e[2].name}

EndpointsSorted(dependencies) ==
  [i \in DOMAIN dependencies |-> [dependencies[i] EXCEPT !.endpoints = Sorted(@)]]

Execution(e) ==
  [e EXCEPT !.completion = GetCompletion(e), !.max_input_bytes = Bytes(@),
            !.max_output_bytes = Bytes(@), !.max_log_bytes = Bytes(@)]

(* Dependencies are digested as they were declared: a plausible mistake,   *)
(* which nothing uses.                                                     *)
ConfigurationDigestUnsorted(r) ==
  [configurations |-> Sorted(r.configurations), dependencies |-> r.dependencies,
   execution |-> Execution(r.execution), spec |-> r.spec]

ConfigurationDigest(r) ==
  LET dependencies == EndpointsSorted(r.dependencies)
  IN  [configurations |-> Sorted(r.configurations),
       dependencies |-> SortedBy(dependencies, ByCoordinates(dependencies)),
       execution |-> Execution(r.execution),
       spec |-> r.spec]

(***************************************************************************)
(* What the invocations of a declaration are bound to, in whatever order   *)
(* the declaration lists it                                                *)
(***************************************************************************)
Bound(r) ==
  [configurations |-> Range(r.configurations),
   dependencies |-> {[d EXCEPT !.endpoints = Range(@)] : d \in Range(r.dependencies)},
   completion |-> GetCompletion(r.execution),
   cancellation |-> r.execution.cancellation,
   logs |-> Bytes(r.execution.max_log_bytes),
   spec |-> r.spec]
=============================================================================
