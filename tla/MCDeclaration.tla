--------------------------- MODULE MCDeclaration ---------------------------
(* Declarations of all types and of names that come to one class name, and *)
(* configurations in every order of what they list.                        *)
EXTENDS Declaration

Letters == [x |-> "X", item |-> "Item"]

Of(name, type) == [Zero EXCEPT !.name = name] @@ [type |-> type]
Holding(name, fields) == [Of(name, "object") EXCEPT !.fields = fields]
ListOf(name, item) == [Of(name, "array") EXCEPT !.items = <<item>>]

x == <<"x">>
Names == {x, <<"X">>, <<"_", "x">>, <<"x", "item">>, <<"x", "2">>, <<"_">>}
Item == Of(<<"item">>, "integer")

Leaves == {[Of(x, t) EXCEPT !.optional = o, !.nullable = n] :
             t \in {"string", "integer", "boolean"}, o \in BOOLEAN, n \in BOOLEAN}
Nested(name) ==
  {Holding(name, <<Item>>),
   Holding(name, <<[Holding(<<"item">>, <<>>) EXCEPT !.optional = TRUE]>>),
   ListOf(name, [Of(<<>>, "string") EXCEPT !.nullable = TRUE]),
   ListOf(name, Holding(<<>>, <<Item>>)),
   ListOf(name, ListOf(<<>>, Holding(<<>>, <<>>)))}

Schemas ==
  {<<>>} \cup {<<f>> : f \in Leaves}
         \cup {<<f>> : f \in Nested(x)}
         \cup {<<f, g>> : f \in {h \in Nested(x) : h.type = "object"},
                         g \in UNION {Nested(name) : name \in Names \ {x}}}

Plain == [timeout |-> 1, cancellation |-> "none", recovery |-> "never", completion |-> "",
          concurrency |-> 0, max_input_bytes |-> 0, max_output_bytes |-> 2, max_log_bytes |-> 0]
SomeExecutions ==
  {Plain, [Plain EXCEPT !.completion = "call", !.max_input_bytes = DefaultBytes],
   [Plain EXCEPT !.completion = "accepted"], [Plain EXCEPT !.cancellation = "signal"],
   [Plain EXCEPT !.timeout = 2], [Plain EXCEPT !.recovery = "receipt"],
   [Plain EXCEPT !.concurrency = 1], [Plain EXCEPT !.max_log_bytes = 2]}

On(name, endpoints) == [module |-> 1, name |-> name, kind |-> "call", endpoints |-> endpoints]
Dependencies ==
  {<<>>, <<On(1, <<1, 2>>)>>, <<On(1, <<2, 1>>)>>, <<On(1, <<>>), On(2, <<1>>)>>,
   <<On(2, <<1>>), On(1, <<>>)>>, <<[On(1, <<>>) EXCEPT !.module = 2], On(1, <<>>)>>}

Declaring(fields, execution, names, dependencies, extra) ==
  [input |-> fields, output |-> fields, execution |-> execution,
   configurations |-> names, dependencies |-> dependencies, spec |-> extra]

Declared1 ==
  {Declaring(fields, Plain, <<>>, <<>>, "") : fields \in Schemas}
    \cup {Declaring(<<>>, e, <<>>, <<>>, "") : e \in SomeExecutions}
    \cup {Declaring(<<>>, Plain, names, d, "") :
            names \in {<<>>, <<1, 2>>, <<2, 1>>}, d \in Dependencies}
    \cup {Declaring(<<>>, Plain, <<>>, <<>>, "extra")}

None == [k \in {} |-> 0]
Value(kind, n, elements, members) ==
  [kind |-> kind, n |-> n, elements |-> elements, members |-> members]
Plainly == {Value("null", 0, <<>>, None), Value("boolean", 1, <<>>, None),
            Value("number", 0, <<>>, None), Value("string", 0, <<>>, None)}
             \cup {Value("integer", n, <<>>, None) : n \in -3 .. 2}
Object(members) == Value("object", 0, <<>>, members)
Within == Plainly \cup {Object(None)}
                  \cup {Object(<<"item">> :> v) : v \in Plainly \cup {Object(None)}}
Lists == {Value("array", 0, e, None) : e \in {<<>>} \cup {<<v>> : v \in Within}}
Values == Within \cup Lists \cup {Value("array", 0, <<l>>, None) : l \in Lists}

Sent ==
  Values \cup {Object(x :> v) : v \in Values}
         \cup {Object(x :> v @@ name :> w) : v \in {Object(None)}, w \in Lists, name \in Names \ {x}}
=============================================================================
