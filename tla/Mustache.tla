------------------------------- MODULE Mustache -------------------------------
(* templates/mustache: a text is split at "{{" and "}}" into literals and     *)
(* expressions, and is written by writing one after the other.                *)
EXTENDS FieldPath

Braces == {"{", "}"}

\* A brace that is not doubled begins an ordinary token, which ends before the
\* next brace of any kind.
OtherLength(s) ==
  LET next == SelectInSubSeq(s, 2, Len(s), LAMBDA r : r \in Braces)
  IN  IF next = 0 THEN Len(s) ELSE next - 1

RECURSIVE MustacheLex(_)

MustacheLex(s) ==
  IF s = <<>> THEN <<EOF>>
  ELSE IF s[1] \in Braces /\ Len(s) > 1 /\ s[2] = s[1]
  THEN <<Token(s[1], <<>>)>> \o MustacheLex(After(s, 2))
  ELSE <<Token("other", SubSeq(s, 1, OtherLength(s)))>> \o MustacheLex(After(s, OtherLength(s)))

\* A piece of a text: written as it stands, or an expression between braces.
Literal(runes)  == [literal |-> TRUE, runes |-> runes]
Mustached(runes) == [literal |-> FALSE, runes |-> runes]

RECURSIVE ParsePieces(_, _)

ParsePieces(pieces, ts) ==
  CASE Starts(ts, <<"other">>) ->
         ParsePieces(Append(pieces, Literal(ts[1].value)), Tail(ts))
    [] Starts(ts, <<"{", "other", "}">>) ->
         ParsePieces(Append(pieces, Mustached(ts[2].value)), After(ts, 3))
    [] Starts(ts, <<"EOF">>) /\ pieces # <<>> -> Parsed(pieces, <<>>)
    [] OTHER -> Failure

ParseExpressionList(s) == ParsePieces(<<>>, MustacheLex(s))

\* fmt.Sprintf("%v"); what is not found is written as nothing at all, and so
\* is different from the nil of a name that is there.
Output(v) == IF v.kind = "missing" THEN <<>> ELSE <<v>>

EvalParsed(e, scope) ==
  IF e.ok /\ Starts(e.rest, <<"EOF">>) THEN Eval(e.tree, scope) ELSE Broken

\* What a piece comes to in a scope; its expression is parsed each time.
EvalPiece(piece, scope) ==
  IF piece.literal THEN Str(piece.runes)
  ELSE EvalParsed(ParseExpression(Lex(piece.runes)), scope)

\* ExpressionList.Eval: the values of all pieces, if no piece fails.
Joined(vs) ==
  [ok  |-> \A i \in DOMAIN vs : vs[i].kind # "error",
   out |-> FlattenSeq([i \in DOMAIN vs |-> Output(vs[i])])]

EvalPieces(pieces, scope) == Joined([i \in DOMAIN pieces |-> EvalPiece(pieces[i], scope)])
=============================================================================
