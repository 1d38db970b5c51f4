------------------------------ MODULE MCErrors ------------------------------
(***************************************************************************)
(* Literals whose texts come close: a tab, a backslash and a t, the quote  *)
(* characters, a character outside ASCII.                                  *)
(***************************************************************************)
EXTENDS ErrorTracker

Placeholder == <<60, 116, 62>>   \* <terminal> or <token>

Failures(shape, args) == {[shape |-> shape, arg |-> a] : a \in args}
Literals ==
  {<<9>>, <<Backslash>>, <<116>>, <<DoubleQuote>>, <<200>>}
  \cup {<<c, d>> : c, d \in {Backslash, 116}}
MCFailing ==
  Failures("value", {<<c>> : c \in {9, Backslash, 116, Quote, 200}})
  \cup Failures("literal", Literals)
  \cup Failures("range", {<<9, 9>>, <<9, 116>>})
  \cup Failures("set", {<<9>>, <<9, 116>>})
  \cup Failures("predicate", {Placeholder})
  \cup Failures("name", {<<116>>})
  \cup Failures("label", {<<116>>})
=============================================================================
