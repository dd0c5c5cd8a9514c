------------------------------ MODULE MCClient ------------------------------
EXTENDS Client
CONSTANTS a, b, likes, users

Set(at, v) == [op |-> "set", at |-> at, data |-> v]
All(v) == Set(Top, [k \in {a, b} |-> IF k = a THEN v ELSE Empty])
Both(v) == [op |-> "merge", at |-> Top, data |-> [k \in {a, b} |-> v]]

\* A child over the whole, which it is folded into; the whole over a merge,
\* which it hides.
MCScripts == {
  <<All(1), Set(a, 2)>>,
  <<Both(1), All(2)>>}
MCValue == {Empty, 0, 1, 2, 11}
MCForeign == {<<a, 11>>}
=============================================================================
