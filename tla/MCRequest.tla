----------------------------- MODULE MCRequest -----------------------------
(* What a peer may send: up to two framing lines and a body of up to three *)
(* units.  A peer that states a length sends as much; one whose lines say  *)
(* several things, or nothing, may mean any of them.                       *)
EXTENDS Request

Lines == {[kind |-> "bad", n |-> 0], [kind |-> "encoded", n |-> 0],
          [kind |-> "digits", n |-> 3], [kind |-> "signed", n |-> 1]}
           \cup {[kind |-> "length", n |-> n] : n \in 0..3}

Meant(lines) ==
  LET kinds == {lines[i].kind : i \in DOMAIN lines}
      stated == {lines[i].n : i \in {j \in DOMAIN lines : lines[j].kind = "length"}}
  IN IF kinds = {"length"} THEN stated ELSE 0..3

Plain ==
  [method |-> "POST", served |-> TRUE, large |-> FALSE,
   lines |-> <<[kind |-> "length", n |-> 1]>>, whole |-> TRUE, size |-> 1,
   expect |-> FALSE, close |-> FALSE, facts |-> TRUE, content |-> "call", due |-> {}]

Framed == UNION {{[Plain EXCEPT !.lines = l, !.size = s, !.expect = e] :
                    s \in Meant(l), e \in BOOLEAN} :
                  l \in UNION {[1..k -> Lines] : k \in 0..2}}
Cut == {[Plain EXCEPT !.lines = l, !.size = 0, !.whole = FALSE] :
          l \in UNION {[1..k -> Lines] : k \in 0..1}}
Called == {[Plain EXCEPT !.due = d, !.facts = f, !.content = c, !.expect = e] :
             d \in {{}} \cup {{t} : t \in 0..4}, f \in BOOLEAN, c \in {"text", "json", "call"},
             e \in BOOLEAN}
Other == {[Plain EXCEPT !.method = m, !.served = v, !.large = g, !.close = c] :
            m \in {"POST", "GET", "PUT"}, v \in BOOLEAN, g \in BOOLEAN, c \in BOOLEAN}

MCRequests == Framed \cup Cut \cup Called \cup Other
=============================================================================
