------------------------------ MODULE Bindings ------------------------------
(***************************************************************************)
(* The typed bindings of a contract (generate/types.go), and what Python   *)
(* makes of them.  A name is a sequence of syllables, "_" one of them; a   *)
(* class name is one too.  What matters of the spelling is that two paths  *)
(* through the schema may come to one name.                                *)
(***************************************************************************)
EXTENDS Integers, FiniteSets, Functions, SequencesExt, TLC

CONSTANT Capitals  \* a syllable's spelling with its first letter capital

InputType == <<"Input">>
OutputType == <<"Output">>

ToUpper(syllable) == IF syllable \in DOMAIN Capitals THEN Capitals[syllable] ELSE syllable

(* Each part between underscores with its first letter capital, joined.    *)
camel(name) ==
  SelectSeq([i \in DOMAIN name |->
               IF i = 1 \/ name[i - 1] = "_" THEN ToUpper(name[i]) ELSE name[i]],
            LAMBDA syllable : syllable # "_")

nestedName(parent, field) ==
  parent \o (IF field = <<>> THEN <<"Item">> ELSE camel(field))

(* The first hint, whether or not a class has it already.                  *)
allocateHint(used, hint) == hint

(* The first of hint, hint2, hint3... that no class has.                   *)
allocate(used, hint) ==
  LET Suffixed(n) == IF n = 1 THEN hint ELSE Append(hint, ToString(n))
  IN Suffixed(CHOOSE n \in 1 .. Cardinality(used) + 1 :
                /\ Suffixed(n) \notin used
                /\ \A m \in 1 .. n - 1 : Suffixed(m) \in used)

RECURSIVE annotationOf(_, _, _)
annotationOf(names, path, field) ==
  [type |-> field.type, nullable |-> field.nullable,
   class |-> IF field.type = "object" THEN names[path] ELSE <<>>,
   items |-> [i \in DOMAIN field.items |-> annotationOf(names, Append(path, 0), field.items[i])]]

(* The generator g: the names given and used, the classes emitted so far   *)
(* and whether one of them needs NotRequired.  A field is known by the     *)
(* path of indices to it, as in the code by its address.                   *)
RECURSIVE renderObject(_, _, _, _), renderNested(_, _, _, _)

renderObject(g, name, path, fields) ==
  LET nested == FoldLeft(LAMBDA h, i : renderNested(h, name, Append(path, i), fields[i]),
                         g, [i \in DOMAIN fields |-> i])
      body == [i \in DOMAIN fields |->
                 [key |-> fields[i].name, notRequired |-> fields[i].optional,
                  annotation |-> annotationOf(nested.names, Append(path, i), fields[i])]]
  IN [nested EXCEPT !.classes = Append(@, [name |-> name, body |-> body]),
                    !.notRequired = @ \/ \E f \in Range(fields) : f.optional]

renderNested(g, parent, path, field) ==
  CASE field.type = "object" ->
         LET name == allocate(g.used, nestedName(parent, field.name))
         IN renderObject([g EXCEPT !.used = @ \cup {name}, !.names = (path :> name) @@ @],
                         name, path, field.fields)
    [] field.type = "array" ->
         renderNested(g, nestedName(parent, field.name), Append(path, 0), field.items[1])
    [] OTHER -> g

Generator ==
  [names |-> <<>>, used |-> {InputType, OutputType}, classes |-> <<>>, notRequired |-> FALSE]

Types(input, output) ==
  LET made == renderObject(renderObject(Generator, InputType, <<1>>, input), OutputType, <<2>>, output)
  IN [imports |-> made.notRequired, classes |-> made.classes]

-----------------------------------------------------------------------------
(* The shape a declared field has, and the one an annotation has where the *)
(* module is executed from top to bottom: every class is bound when its    *)
(* definition is reached, a later definition replaces an earlier one, and  *)
(* a name not bound yet raises.                                            *)
RECURSIVE Shape(_), Denotes(_, _)

Shape(field) ==
  [key |-> field.name, optional |-> field.optional, nullable |-> field.nullable,
   type |-> field.type, of |-> {Shape(f) : f \in Range(field.fields) \cup Range(field.items)}]

Denotes(bound, a) ==
  [type |-> a.type, nullable |-> a.nullable, key |-> <<>>, optional |-> FALSE,
   of |-> IF a.type = "object" THEN bound[a.class] ELSE {Denotes(bound, i) : i \in Range(a.items)}]

RECURSIVE Unbound(_, _)
Unbound(bound, a) ==
  \/ a.type = "object" /\ a.class \notin DOMAIN bound
  \/ \E i \in Range(a.items) : Unbound(bound, i)

(* The classes bound once the module is imported; none when it raises.     *)
Imported(module) ==
  FoldLeft(LAMBDA bound, class :
             IF bound = <<>> \/ (\E e \in Range(class.body) :
                                   \/ Unbound(bound, e.annotation)
                                   \/ e.notRequired /\ ~module.imports)
             THEN <<>>
             ELSE (class.name :> {[Denotes(bound, e.annotation) EXCEPT !.key = e.key, !.optional = e.notRequired]
                                    : e \in Range(class.body)}) @@ bound,
           <<"object">> :> {}, module.classes)
=============================================================================
