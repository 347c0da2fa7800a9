------------------------------- MODULE MCPages -------------------------------
(* Small sites, conditions and templates, built a page, a rune and a node at  *)
(* a time, against reference definitions of what they mean.                   *)
EXTENDS Pages, Templates, FiniteSets

CONSTANTS
  MaxPages,       \* Bound: pages of a site.
  Runes,          \* What a condition may consist of.
  MaxRunes,       \* Bound: its length.
  MaxBraces,      \* Bound: the runes of a text with braces.
  MaxNodes        \* Bound: texts and elements of a template.

VARIABLES
  text,           \* A condition, or a text with braces.
  nodes, scope    \* A template and what it is rendered in.

MCOrder == <<"B", "_group", "_name", "_namespace", "_p", "_q", "_resource", "a", "groups",
             "index", "namespaces", "nodes", "pages", "pods", "resources">>

\* Up to two directories deep, and two pages of an embedded pages directory.
MCFiles ==
  {d \o <<f>> : d \in BoundedSeq({"_p", "a"}, 2), f \in {"B", "_p", "_q", "a", "index"}}
  \cup {<<"pages", "a">>, <<"pages", "index">>}

\* The pages of apps/dashboard.
Dashboard ==
  LET resource == <<"groups", "_group", "resources", "_resource">> IN
  {<<"index">>, <<"namespaces">>, <<"namespaces", "_name">>, <<"nodes">>, <<"pods">>}
  \cup {resource \o p : p \in {<<"index">>, <<"_name">>, <<"namespaces", "_namespace", "_name">>}}

ASSUME DashboardAssumption ==
  Dashboard \subseteq Seq(Entries) /\ \A f, g \in Dashboard : f # g => ~Compete(f, g)

\* An address of a page of the dashboard: a placeholder stands for "z" or for a
\* name that another page has there.
DashboardPaths ==
  {[i \in DOMAIN Tokens(f) |-> IF Tokens(f)[i] \in Placeholders THEN x ELSE Tokens(f)[i]] :
     f \in Dashboard \ {<<"index">>}, x \in {"z", "namespaces"}}

MCRequests ==
  {[tokens |-> t, slash |-> s] : t \in BoundedSeq({"a", "z"}, 3) \ {<<>>}, s \in BOOLEAN} \cup {Root}
  \cup {[tokens |-> t, slash |-> FALSE] : t \in DashboardPaths}

pagesVars == <<site, text, nodes, scope>>

-----------------------------------------------------------------------------
(* The samples.                                                               *)

Name(rune) == Expression(Token("I", <<rune>>), <<>>)

\* Texts, and what is used of the scope in them: a name, or a key of a value.
Texts ==
  {<<Mustached(<<"a">>)>>, <<Literal(<<"0">>), Mustached(<<"b">>)>>, <<Mustached(<<"a", ".", "b">>)>>}

Scopes ==
  LET strings  == List(<<Str(<<"0">>), Str(<<>>)>>)
      lists    == List(<<strings, List(<<>>)>>)
      nobody   == NilMessage(<<"b">> :> Scalar(<<>>))
      messages == List(<<Message(<<"b">> :> Scalar(<<"0">>)), Message(<<"b">> :> nobody)>>)
      broken   == Map(<<"b">> :> Broken)
  IN  {<<"l">> :> strings,
       <<"l">> :> strings @@ <<"a">> :> Str(<<"1">>),
       <<"l">> :> lists @@ <<"a">> :> nobody @@ <<"b">> :> Str(<<>>),
       <<"l">> :> messages @@ <<"a">> :> broken @@ <<"b">> :> Nil}

Conditions ==
  {Always}
  \cup {Condition(n, Name("a"), "truthy", Name("a")) : n \in {0, 1}}
  \cup {Condition(0, Name("a"), op, Name("b")) : op \in {"==", "!="}}

Loops == {NoLoop, Loop(<<"a">>, Name("l")), Loop(<<"b">>, Name("l")), Loop(<<"b">>, Name("a"))}

RECURSIVE Size(_)
Size(ns) ==
  IF ns = <<>> THEN 0
  ELSE Size(Tail(ns)) + 1 + (IF Head(ns).kind = "element" THEN Size(Head(ns).body) ELSE 0)

MCPagesInit ==
  /\ PagesInit \/ site = Dashboard
  /\ text = <<>> /\ nodes = <<>>
  /\ scope = <<>>

AddAPage ==
  /\ text = <<>> /\ nodes = <<>>
  /\ Cardinality(site) < MaxPages
  /\ AddPage
  /\ UNCHANGED <<text, nodes, scope>>

AddRune ==
  /\ site = {} /\ nodes = <<>>
  /\ ToSet(text) \cap Braces = {} /\ Len(text) < MaxRunes
  /\ \E r \in Runes : text' = Append(text, r)
  /\ UNCHANGED <<site, nodes, scope>>

AddBrace ==
  /\ site = {} /\ nodes = <<>>
  /\ ToSet(text) \subseteq {"a"} \cup Braces /\ Len(text) < MaxBraces
  /\ \E r \in {"a"} \cup Braces : text' = Append(text, r)
  /\ UNCHANGED <<site, nodes, scope>>

AddText ==
  /\ site = {} /\ text = <<>>
  /\ Size(nodes) < MaxNodes
  /\ \E pieces \in Texts : nodes' = Append(nodes, Text(pieces))
  /\ IF nodes = <<>> THEN scope' \in Scopes ELSE scope' = scope
  /\ UNCHANGED <<site, text>>

\* An element around the last n nodes.
Enclose ==
  /\ site = {} /\ text = <<>>
  /\ Size(nodes) < MaxNodes
  /\ \E n \in 1..Len(nodes), c \in Conditions, l \in Loops :
       nodes' = Append(SubSeq(nodes, 1, Len(nodes) - n),
                       Element(c, l, After(nodes, Len(nodes) - n)))
  /\ UNCHANGED <<site, text, scope>>

MCPagesNext == AddAPage \/ AddRune \/ AddBrace \/ AddText \/ Enclose

MCPagesSpec == MCPagesInit /\ [][MCPagesNext]_pagesVars

-----------------------------------------------------------------------------
(* Conditions.                                                                *)

Types(ts) == [i \in DOMAIN ts |-> ts[i].type]

\* The grammar: expressions of up to n steps, and conditions that fit a text.
RECURSIVE Expressions(_)
Expressions(n) ==
  {<<"I">>, <<"Q">>} \cup
  IF n = 0 THEN {}
  ELSE {e \o step : e \in Expressions(n - 1), step \in {<<".", "I">>, <<"[", "I", "]">>}}

Grammar ==
  LET exprs == Expressions(MaxRunes \div 2)
      ends  == {<<>>} \cup {<<sign, "=">> \o e : sign \in {"=", "!"}, e \in exprs}
  IN  {t \in {[i \in 1..k |-> "!"] \o e \o end : k \in 0..MaxRunes,
              e \in {x \in exprs : Head(x) = "I"}, end \in ends} : Len(t) <= MaxRunes}

\* The names and strings of a condition, in order.
Words(ts) == SelectSeq(ts, LAMBDA t : t.type \in {"I", "Q"})

WordsOf(e) == <<e.base.value>> \o e.path

\* The operator in a condition of the grammar: no expression has a "=".
WrittenOperator(types) ==
  LET n == SelectLastInSeq(types, LAMBDA t : t = "=")
  IN  CASE n = 0 -> "truthy"
        [] n > 0 /\ types[n - 1] = "=" -> "=="
        [] n > 0 /\ types[n - 1] = "!" -> "!="

\* The parser takes the conditions of the grammar and no others, and the tree
\* it makes has the negations, the operator and the words that were written, in
\* their order (ParseCondition, ParseExpression, Complete).
ParsesTheGrammar ==
  ToSet(text) \cap Braces = {} /\ Len(text) <= MaxRunes =>
  LET ts     == Front(Lex(text))
      result == ParseCondition(text)
  IN  /\ result.ok <=> (Last(Lex(text)) = EOF /\ Types(ts) \in Grammar)
      /\ result.ok =>
           LET c == result.tree
               words == [i \in DOMAIN Words(ts) |-> Words(ts)[i].value]
           IN  /\ SubSeq(Types(ts), 1, c.negations) = [i \in 1..c.negations |-> "!"]
               /\ ts[c.negations + 1].type # "!"
               /\ c.op = WrittenOperator(Types(ts))
               /\ words = WordsOf(c.left) \o IF c.op = "truthy" THEN <<>> ELSE WordsOf(c.right)

-----------------------------------------------------------------------------
(* Texts.                                                                     *)

Braced(runes) == <<"{", "{">> \o runes \o <<"}", "}">>

\* Texts of literals and expressions without braces of their own.
RECURSIVE PlainTexts(_)
PlainTexts(n) ==
  IF n = 0 THEN {<<>>}
  ELSE LET shorter == PlainTexts(n - 1)
       IN  shorter \cup {t \in {s \o p : s \in shorter, p \in {<<"a">>, Braced(<<"a">>), Braced(<<"a", "a">>)}} :
                          Len(t) <= n}

WellFormed == PlainTexts(MaxBraces) \ {<<>>}

\* A text is read as what it says: every text of plain literals and
\* expressions is accepted, and whatever is accepted is, put together again,
\* the text; a rune is never lost or moved between a literal and an expression
\* (lexOther, Next, ParseExpressionList).
TextsAreRead ==
  ToSet(text) \subseteq {"a"} \cup Braces =>
    LET result == ParseExpressionList(text)
    IN  /\ text \in WellFormed => result.ok
        /\ result.ok =>
             LET pieces == result.tree
             IN  text = FlattenSeq([i \in DOMAIN pieces |->
                          IF pieces[i].literal THEN pieces[i].runes ELSE Braced(pieces[i].runes)])

\* Conditions and texts are read as the grammar says, and nothing else is (the
\* two above).
GrammarsAreRead == ParsesTheGrammar /\ TextsAreRead

-----------------------------------------------------------------------------
(* Templates.                                                                 *)

\* What a template means: a loop's variable is bound within the loop, and
\* nothing is ever written to the scope.
Envs(n, items, env) ==
  IF n.loop = NoLoop THEN <<env>>
  ELSE [i \in DOMAIN items.val |-> Bind(env, n.loop.var, items.val[i])]

Wrapped(parts) == <<"open">> \o FlattenSeq([j \in DOMAIN parts |-> parts[j].out]) \o <<"close">>

\* An element, from the meanings of its body in each round.
Whole(n, items, rounds, env) ==
  IF \/ n.loop # NoLoop /\ items.kind # "list"
     \/ \E i \in DOMAIN rounds : \E j \in DOMAIN n.body : ~rounds[i][j].ok
  THEN Fails(env)
  ELSE Writes(FlattenSeq([i \in DOMAIN rounds |-> Wrapped(rounds[i])]), env)

Items(n, env) == IF n.loop = NoLoop THEN Missing ELSE Eval(n.loop.list, env)

RECURSIVE Meaning(_, _)
Meaning(n, env) ==
  CASE n.kind = "text"         -> RenderText(n, env)
    [] IsShown(n, env) = "false" -> Writes(<<>>, env)
    [] IsShown(n, env) = "error" -> Fails(env)
    [] OTHER ->
         LET envs == Envs(n, Items(n, env), env)
         IN  Whole(n, Items(n, env),
                   [i \in DOMAIN envs |-> [j \in DOMAIN n.body |-> Meaning(n.body[j], envs[i])]],
                   env)

\* The names a template uses outside of the loops that bind them.
ExprNames(e) == IF e.base.type = "I" THEN {e.base.value} ELSE {}

PieceNames(p) == IF p.literal THEN {} ELSE ExprNames(ParseExpression(Lex(p.runes)).tree)

RECURSIVE FreeNames(_)
FreeNames(n) ==
  IF n.kind = "text" THEN UNION {PieceNames(n.pieces[i]) : i \in DOMAIN n.pieces}
  ELSE LET body == UNION {FreeNames(n.body[i]) : i \in DOMAIN n.body}
       IN  (IF n.cond = Always THEN {} ELSE ExprNames(n.cond.left) \cup ExprNames(n.cond.right))
           \cup (IF n.loop = NoLoop THEN body
                 ELSE ExprNames(n.loop.list) \cup (body \ {n.loop.var}))

SameAs(r, meant) ==
  IF \A i \in DOMAIN meant : meant[i].ok
  THEN r.ok /\ r.out = FlattenSeq([i \in DOMAIN meant |-> meant[i].out])
  ELSE ~r.ok

Keeps(r, before) ==
  /\ DOMAIN before \subseteq DOMAIN r.scope
  /\ \A x \in DOMAIN r.scope : r.scope[x] = IF x \in DOMAIN before THEN before[x] ELSE Nil

\* Whatever a page contains, rendering it to the end leaves every name of the
\* scope as it was; the only trace is that the variable of a loop over
\* something, which was not a name before, is one afterwards, without a value.
ScopeIsKept ==
  RenderHTML(nodes, scope).ok => Keeps(RenderHTML(nodes, scope), scope)

\* A page whose names are all bound, by the scope or by a loop around them, is
\* rendered as what it means, although its loops share one map and write to
\* it (renderElementNode).
MeaningIsRendered ==
  (\A i \in DOMAIN nodes : FreeNames(nodes[i]) \subseteq DOMAIN scope) =>
    SameAs(RenderHTML(nodes, scope), [i \in DOMAIN nodes |-> Meaning(nodes[i], scope)])

\* A page is rendered as what it means, and whatever it contains rendering it
\* leaves the scope as it was (the two above).
RenderedAsMeant == MeaningIsRendered /\ ScopeIsKept
=============================================================================
