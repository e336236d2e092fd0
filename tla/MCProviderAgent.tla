-------------------------- MODULE MCProviderAgent --------------------------
(* Two consumer connections; forms with escapes and empty values.            *)
EXTENDS ProviderAgent, TLC

CONSTANTS c1, c2

I == <<105>>
P == <<112>>
MCFields == {I, P}
MCResult == P

(* A sender's encoding: "=" and "%" are escaped.                             *)
Values == UNION {[1..n -> {97, EQ, PERCENT}] : n \in 0..2}
Escape(c) == CASE c = EQ -> <<PERCENT, 51, 68>>
               [] c = PERCENT -> <<PERCENT, 50, 53>>
               [] OTHER -> <<c>>
Encoded(v) == FlattenSeq([k \in DOMAIN v |-> Escape(v[k])])
Form(v, w) == I \o <<EQ>> \o Encoded(v) \o <<AMP>> \o P \o <<EQ>> \o Encoded(w)
Both(v, w) == (I :> v) @@ (P :> w)

\* "i=a&p=%3D"; "p=", which has one field only; "i=%&p=", whose escape breaks
\* off and whose values are empty.
Escaped == Form(<<97>>, <<EQ>>)
Lacking == P \o <<EQ>>
Broken == I \o <<EQ, PERCENT, AMP>> \o P \o <<EQ>>

MCMeaning ==
    LET pairs == {<<Form(v, w), Both(v, w)>> : v \in {<<97>>, <<PERCENT>>}, w \in Values}
    IN  [f \in {p[1] : p \in pairs} |-> (CHOOSE p \in pairs : p[1] = f)[2]]
        @@ (Lacking :> Both(NULL, <<>>)) @@ (Broken :> Both(<<>>, <<>>))

\* Ids of two digits.
MCSent == (c1 :> << [id |-> 2, form |-> Lacking], [id |-> 257, form |-> Escaped] >>) @@
          (c2 :> << [id |-> 256, form |-> Broken] >>)
=============================================================================
