---------------------------- MODULE Declaration ----------------------------
(***************************************************************************)
(* Packages, with schemas encoded and parsed as in Payload and rendered as *)
(* in Bindings: SchemaOf is schemaOf, Parse is ParseSchema, Render is      *)
(* Types.  Here is what they promise together: the harness holds payloads  *)
(* to what was declared, and the bindings say it.                          *)
(***************************************************************************)
EXTENDS Payload, Bindings, Packages

CONSTANT Payloads  \* payloads to hold to a schema

(* A harness starts on every document generated, with the limits of the    *)
(* declaration, and holds a payload to exactly what was declared: nothing  *)
(* is lost on the way through `omitempty`, the document and the parser     *)
(* (contract.go, contract.py, schema.py).                                  *)
Declared(fields) ==
  Admits([Zero EXCEPT !.fields = fields] @@ [type |-> "object"], Payloads)

HarnessIsDeclared ==
  /\ LimitsAreDeclared
  /\ step = "serving" =>
       /\ {p \in Payloads : ValidateObject(contract.input, p)} = Declared(runnable.input)
       /\ {p \in Payloads : ValidateObject(contract.output, p)} = Declared(runnable.output)

(* The module handlers take their types from can be imported, and Input    *)
(* and Output have the declared shape to their last field, whatever names  *)
(* the fields have: no class stands where another was meant (types.go).    *)
ShapeOf(fields) == {Shape(f) : f \in Range(fields)}

BindingsAreDeclared ==
  step \in {"generated", "packaged", "serving"} =>
    LET bound == Imported(module) IN
      /\ {InputType, OutputType} \subseteq DOMAIN bound
      /\ bound[InputType] = ShapeOf(runnable.input)
      /\ bound[OutputType] = ShapeOf(runnable.output)
=============================================================================
