---------------------------- MODULE ExpectedItems ----------------------------
(***************************************************************************)
(* How a failed expression is shown (ParseError.h, the record_expected     *)
(* functions of ParserFwd.h and Terminals.h), and ExpectedSet, the sorted  *)
(* vector the shown items are kept in.                                     *)
(*                                                                         *)
(* A character of a CharT of w bytes is a number, a byte by its unsigned   *)
(* value.  A text is a sequence of bytes; snprintf's output is its digits. *)
(***************************************************************************)
EXTENDS Integers, Sequences, SequencesExt

\* ExpectedKind, in the enum's order.
RuleLabel == 0
RuleName == 1
Literal == 2
Range_ == 3

Items == [kind : RuleLabel..Range_, text : Seq(0..255)]

\* ASCII
Quote == 39
DoubleQuote == 34
Backslash == 92
Escapes == [c \in {9, 10, 13, Backslash} |->
              CASE c = 9 -> 116 [] c = 10 -> 110 [] c = 13 -> 114 [] OTHER -> Backslash]
Printable == 32..126
DotDot == <<46, 46>>
CommaSpace == <<44, 32>>

\* %02X and %08X, of the digits at these places.
PlaceValues == <<1, 16, 256, 4096, 65536, 1048576, 16777216, 268435456>>
HexDigit(d) == IF d < 10 THEN 48 + d ELSE 55 + d
Hex(v, width) ==
  [k \in 1..width |-> HexDigit((v \div PlaceValues[width - k + 1]) % 16)]

\* One character inside quotes of its own kind.
Escaped(v, w, quote) ==
  IF v \in DOMAIN Escapes THEN <<Backslash, Escapes[v]>>
  ELSE IF v = quote THEN <<Backslash, quote>>
  ELSE IF v \in Printable THEN <<v>>
  ELSE IF w = 1 THEN <<Backslash, 120>> \o Hex(v, 2)
  ELSE <<Backslash, 85>> \o Hex(v, 8)

escape_char_for_expected(c, w) == <<Quote>> \o Escaped(c, w, Quote) \o <<Quote>>

\* Mutant: a backslash is printed as it is.
Raw_escape_string_for_expected(s) ==
  <<DoubleQuote>>
  \o FlattenSeq([k \in 1..Len(s) |->
       IF s[k] = Backslash THEN <<Backslash>> ELSE Escaped(s[k], 1, DoubleQuote)])
  \o <<DoubleQuote>>

escape_string_for_expected(s) ==
  <<DoubleQuote>>
  \o FlattenSeq([k \in 1..Len(s) |-> Escaped(s[k], 1, DoubleQuote)])
  \o <<DoubleQuote>>

\* A byte as it is, a wider character in UTF-8, its bytes cut to 8 bits.
to_display(c, w) ==
  IF w = 1 \/ c <= 127 THEN <<c>>
  ELSE IF c <= 2047 THEN <<192 + (c \div 64), 128 + (c % 64)>>
  ELSE IF c <= 65535
  THEN <<224 + (c \div 4096), 128 + ((c \div 64) % 64), 128 + (c % 64)>>
  ELSE <<(240 + (c \div 262144)) % 256, 128 + ((c \div 4096) % 64),
         128 + ((c \div 64) % 64), 128 + (c % 64)>>

\* The characters of CharT: bytes, or code points.
LastCharacter == 1114111
Characters(w) == 0..(IF w = 1 THEN 255 ELSE LastCharacter)

Joined(texts) ==
  FlattenSeq([k \in 1..Len(texts) |->
                IF k = 1 THEN texts[k] ELSE CommaSpace \o texts[k]])

\* What fails: a terminal (or token) of one value, of a range, of a set (its
\* members in order) or of a predicate (the placeholder of its class), a
\* literal, or a rule.
Item(f, w) ==
  LET shown == [k \in 1..Len(f.arg) |-> escape_char_for_expected(f.arg[k], w)]
  IN  CASE f.shape = "value" -> [kind |-> Literal, text |-> shown[1]]
        [] f.shape = "range" -> [kind |-> Range_, text |-> shown[1] \o DotDot \o shown[2]]
        [] f.shape = "set" -> [kind |-> Range_, text |-> Joined(shown)]
        [] f.shape = "predicate" -> [kind |-> Literal, text |-> f.arg]
        [] f.shape = "literal" ->
             [kind |-> Literal,
              text |-> escape_string_for_expected(
                         FlattenSeq([k \in 1..Len(f.arg) |-> to_display(f.arg[k], w)]))]
        [] f.shape = "name" -> [kind |-> RuleName, text |-> f.arg]
        [] f.shape = "label" -> [kind |-> RuleLabel, text |-> f.arg]

\* What there is to show: characters of CharT, a placeholder in angle brackets,
\* a name or a label of any text.
Displayable(f, w) ==
  \/ f \in [shape : {"value"}, arg : Seq(Characters(w))] /\ Len(f.arg) = 1
  \/ f \in [shape : {"range"}, arg : Seq(Characters(w))] /\ Len(f.arg) = 2
  \/ f \in [shape : {"set", "literal"}, arg : Seq(Characters(w))]
  \/ f \in [shape : {"predicate"}, arg : Seq(0..255)] /\ f.arg # <<>> /\ f.arg[1] = 60
  \/ f \in [shape : {"name", "label"}, arg : Seq(0..255)]

-----------------------------------------------------------------------------
(* ExpectedSet.                                                            *)

\* std::string's operator<.
TextBefore(s, t) ==
  \E n \in 0..Len(s) :
    /\ n < Len(t)
    /\ \A k \in 1..n : s[k] = t[k]
    /\ n = Len(s) \/ s[n + 1] < t[n + 1]

\* ExpectedItem's.
Before(a, b) == a.kind < b.kind \/ (a.kind = b.kind /\ TextBefore(a.text, b.text))

\* In a sorted vector: the first place whose item is not before this one.
lower_bound(s, item) == 1 + Cardinality({k \in 1..Len(s) : Before(s[k], item)})

\* Mutant: the item is looked for where it goes, and put at the end.
Appended_insert(s, item) ==
  LET it == lower_bound(s, item)
  IN  IF it <= Len(s) /\ s[it] = item THEN s ELSE Append(s, item)

insert(s, item) ==
  LET it == lower_bound(s, item)
  IN  IF it <= Len(s) /\ s[it] = item THEN s ELSE InsertAt(s, it, item)
=============================================================================
