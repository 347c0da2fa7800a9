------------------------------ MODULE FieldPath ------------------------------
(* templates/mustache/fieldpath: the language of *ngIf conditions and of the  *)
(* expressions in {{ }} and *ngFor, from its runes to its value in a scope.   *)
(* A rune is a string of length one.                                          *)
EXTENDS Naturals, Sequences, SequencesExt

DigitRunes  == {"0", "1"}
Letters == {"a", "b"}    \* Enough of either; any other rune is none of them.
Quotes  == {"'", "\""}
Signs   == {".", "[", "]", "=", "!"}

-----------------------------------------------------------------------------
(* The lexer.  Every sequence of tokens ends with EOF, or with ERROR for a    *)
(* string without its closing quote.                                          *)

Token(type, value) == [type |-> type, value |-> value]
EOF   == Token("EOF", <<>>)
ERROR == Token("ERROR", <<>>)

\* The length of the identifier at the beginning of s: lexIdentifier takes any
\* first rune, and then letters, digits and "_".
IdentifierLength(s) ==
  LET next == SelectInSubSeq(s, 2, Len(s), LAMBDA r : r \notin Letters \cup DigitRunes \cup {"_"})
  IN  IF next = 0 THEN Len(s) ELSE next - 1

After(s, n) == SubSeq(s, n + 1, Len(s))

RECURSIVE Lex(_)

Lex(s) ==
  IF s = <<>> THEN <<EOF>>
  ELSE IF Head(s) = " " THEN Lex(Tail(s))
  ELSE IF Head(s) \in Signs THEN <<Token(Head(s), <<>>)>> \o Lex(Tail(s))
  ELSE IF Head(s) \in Quotes
  THEN LET close == SelectInSubSeq(s, 2, Len(s), LAMBDA r : r = Head(s))
       IN  IF close = 0 THEN <<ERROR>>
           ELSE <<Token("Q", SubSeq(s, 2, close - 1))>> \o Lex(After(s, close))
  ELSE LET n == IdentifierLength(s)
       IN  <<Token("I", SubSeq(s, 1, n))>> \o Lex(After(s, n))

-----------------------------------------------------------------------------
(* The parser, a recursive descent with one token of lookahead.  A parse that *)
(* succeeds has the tokens that are left in "rest".                           *)

Failure == [ok |-> FALSE]
Parsed(tree, rest) == [ok |-> TRUE, tree |-> tree, rest |-> rest]

\* Whether the next tokens are of these types.
Starts(ts, types) ==
  Len(types) <= Len(ts) /\ \A i \in DOMAIN types : ts[i].type = types[i]

\* An expression is an identifier or a quoted string, and the path from there:
\* ".key" and "[key]" alike.
Expression(base, path) == [base |-> base, path |-> path]

RECURSIVE ParseSteps(_, _)

ParseSteps(e, ts) ==
  LET step(n, key) ==
        ParseSteps(Expression(e.base, Append(e.path, ts[key].value)), After(ts, n))
  IN  CASE Starts(ts, <<".", "I">>)      -> step(2, 2)
        [] Starts(ts, <<"[", "I", "]">>) -> step(3, 2)
        [] ts[1].type \notin {".", "["} -> Parsed(e, ts)
        [] OTHER                       -> Failure

ParseExpression(ts) ==
  IF ts[1].type \in {"I", "Q"}
  THEN ParseSteps(Expression(ts[1], <<>>), Tail(ts)) ELSE Failure

\* "negations" counts the "!" in front of a condition.
Condition(negations, left, op, right) ==
  [negations |-> negations, left |-> left, op |-> op, right |-> right]

\* The operator that begins with a sign.  Mutant: the two are swapped.
OperatorSwapped(sign) == IF sign = "=" THEN "!=" ELSE "=="
Operator(sign) == IF sign = "=" THEN "==" ELSE "!="

\* What follows the left side of a condition: nothing, or an operator and a
\* right side; blanks may stand between the two runes of an operator.
ParseRest(n, left) ==
  LET right == ParseExpression(After(left.rest, 2))
      op    == Operator(left.rest[1].type)
  IN  CASE Starts(left.rest, <<"EOF">>) ->
             Parsed(Condition(n, left.tree, "truthy", left.tree), left.rest)
        [] Starts(left.rest, <<"=", "=">>) \/ Starts(left.rest, <<"!", "=">>) ->
             IF right.ok THEN Parsed(Condition(n, left.tree, op, right.tree), right.rest)
             ELSE Failure
        [] OTHER -> Failure

\* ParseCondition on the tokens of a whole text, and Complete, which wants the
\* end of it.
ParseTokens(ts) ==
  LET n == SelectInSeq(ts, LAMBDA t : t.type # "!") - 1
      left == ParseExpression(After(ts, n))
      c == ParseRest(n, left)
  IN  IF ts[n + 1].type = "I" /\ left.ok /\ c.ok /\ Starts(c.rest, <<"EOF">>)
      THEN c ELSE Failure

ParseCondition(s) == ParseTokens(Lex(s))

-----------------------------------------------------------------------------
(* Values, and the evaluation in a scope, a function from names to values.    *)
(* Values of types the language knows nothing about are like lists.           *)

Str(s)   == [kind |-> "string", val |-> s]
List(vs) == [kind |-> "list", val |-> vs]
Map(f)   == [kind |-> "map", val |-> f]
Scalar(s) == [kind |-> "scalar", val |-> s]  \* A field of a message, which is no
                                             \* string (protoreflect.Value).

\* A protobuf message has every field of its type: one that is not set has its
\* default, which is a nil message for a field that is a message.  A nil message,
\* as users.GetUser returns for nobody, has fields like any other, all unset.
Message(f)    == [kind |-> "message", val |-> f]
NilMessage(f) == [kind |-> "nil message", val |-> f]

Nil      == [kind |-> "nil", val |-> <<>>]
Broken   == [kind |-> "error", val |-> <<>>]   \* A function of the scope fails.
Missing  == [kind |-> "missing", val |-> <<>>] \* "not found", which is no error.

ScopeEval(scope, name) == IF name \in DOMAIN scope THEN scope[name] ELSE Missing

\* IndexExpression: only maps and messages have keys, and a message has the
\* fields of its type, set or not; the rest is not found.
Index(v, key) ==
  IF v.kind = "error" THEN v
  ELSE IF v.kind \in {"map", "message", "nil message"} /\ key \in DOMAIN v.val
       THEN v.val[key] ELSE Missing

Eval(e, scope) ==
  FoldLeft(Index, IF e.base.type = "Q" THEN Str(e.base.value) ELSE ScopeEval(scope, e.base.value),
           e.path)

\* A condition is true, false or an error, and "!" leaves an error alone.
Negated(negations, t) ==
  IF negations % 2 = 0 THEN t
  ELSE CASE t = "true" -> "false" [] t = "false" -> "true" [] t = "error" -> t

Truthy(v) ==
  CASE v.kind \in {"missing", "nil message"} -> "false"
    [] v.kind = "string"  -> IF v.val # <<>> THEN "true" ELSE "false"
    [] v.kind = "message" -> "true"
    [] OTHER              -> "error"

Same(l, r) == l.kind = r.kind /\ l.val = r.val

\* A comparison with something missing is false, whichever it is; the right
\* side is not evaluated after a missing left one.
Compared(op, l, r) ==
  CASE l.kind \in {"error", "missing"} -> IF l.kind = "error" THEN "error" ELSE "false"
    [] r.kind \in {"error", "missing"} -> IF r.kind = "error" THEN "error" ELSE "false"
    [] OTHER -> IF Same(l, r) <=> (op = "==") THEN "true" ELSE "false"

EvalCondition(c, scope) ==
  Negated(c.negations,
          IF c.op = "truthy" THEN Truthy(Eval(c.left, scope))
          ELSE Compared(c.op, Eval(c.left, scope), Eval(c.right, scope)))
=============================================================================
