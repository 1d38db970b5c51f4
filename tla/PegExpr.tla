------------------------------ MODULE PegExpr ------------------------------
(***************************************************************************)
(* Parsing expressions and the operator DSL that builds them (Rule.h,      *)
(* the factories of Grammar.h).                                            *)
(*                                                                         *)
(* An expression is a tree of records: op is its C++ type, kids its        *)
(* children, sym the literal a leaf matches (a sequence of sets of         *)
(* elements), rule the NonTerminal a reference stands for, min_rep and     *)
(* max_rep a repetition's bounds.                                          *)
(***************************************************************************)
EXTENDS PegContext

Expr(op, kids) ==
  [op |-> op, kids |-> kids, sym |-> <<>>, rule |-> NoRule,
   min_rep |-> 0, max_rep |-> 0]

\* g["r"] used inside an expression: a Rule handle, parsed by its NonTerminal.
Ref(r) == [Expr("NonTerminal", <<>>) EXCEPT !.rule = r]

terminal(values) == [Expr("Terminal", <<>>) EXCEPT !.sym = <<values>>]
token(values) == [Expr("Token", <<>>) EXCEPT !.sym = <<values>>]
terminalSeq(str) == [Expr("TerminalSeq", <<>>) EXCEPT !.sym = str]
matcher(str) == [Expr("Matcher", <<>>) EXCEPT !.sym = str]
empty == Expr("Empty", <<>>)
cutExpr == Expr("Cut", <<>>)
lexeme(e) == Expr("Lexeme", <<e>>)

\* The >> and | operators splice operands of their own kind into one node.
Operands(op, e) == IF e.op = op THEN e.kids ELSE <<e>>
Then(e1, e2) ==
  Expr("Sequence", Operands("Sequence", e1) \o Operands("Sequence", e2))
Or(e1, e2) ==
  Expr("Alternation",
       Operands("Alternation", e1) \o Operands("Alternation", e2))

Repeat(e, min, max) ==
  [Expr("Repetition", <<e>>) EXCEPT !.min_rep = min, !.max_rep = max]

\* *e, +e and -e applied twice are one application; n*e nests.
Collapsed(e, min, max) ==
  IF e.op = "Repetition" /\ e.min_rep = min /\ e.max_rep = max
  THEN e ELSE Repeat(e, min, max)
ZeroOrMore(e) == Collapsed(e, 0, -1)
OneOrMore(e) == Collapsed(e, 1, -1)
NTimes(n, e) == Repeat(e, n, n)
Optional(e) == Collapsed(e, 0, 1)

Not(e) == Expr("Not", <<e>>)
And(e) == Expr("And", <<e>>)
=============================================================================
