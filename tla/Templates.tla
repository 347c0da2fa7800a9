------------------------------ MODULE Templates ------------------------------
(* templates/render.go: an HTML tree with *ngIf, *ngFor and {{ }} is rendered *)
(* in one scope, a map that every loop writes its variable into and writes    *)
(* back afterwards.                                                           *)
(*                                                                            *)
(* A node is a text or an element.  Attribute values are rendered like texts; *)
(* names, tags and the escaping of what is written are left out.              *)
EXTENDS Mustache

Text(pieces) == [kind |-> "text", pieces |-> pieces]

Loop(var, list) == [var |-> var, list |-> list]

\* An element without the one directive, or without the other.
Nothing == Expression(EOF, <<>>)
Always  == Condition(0, Nothing, "always", Nothing)
NoLoop  == Loop(<<>>, Nothing)

Element(cond, loop, body) ==
  [kind |-> "element", cond |-> cond, loop |-> loop, body |-> body]

\* What the recursion over the tree still has to do: nodes, and besides them a
\* tag to write, a round of a loop, and the end of a round.
Tag(name)           == [kind |-> "tag", name |-> name]
Round(n, item)      == [kind |-> "round", node |-> n, item |-> item]
RoundEnds(n, scope) == [kind |-> "end", node |-> n, before |-> scope]

\* What one thing comes to: whether it fails, what it writes, the scope it
\* leaves, and what is to be done next.
Result(ok, out, scope, next) == [ok |-> ok, out |-> out, scope |-> scope, next |-> next]
Writes(out, scope) == Result(TRUE, out, scope, <<>>)
Does(next, scope)  == Result(TRUE, <<>>, scope, next)
Fails(scope)       == Result(FALSE, <<>>, scope, <<>>)

Bind(scope, name, v) == [x \in DOMAIN scope \cup {name} |-> IF x = name THEN v ELSE scope[x]]

\* Mutant of Unbind: the loop's variable is left as it is.
UnbindNot(scope, name, before) == scope

\* The loop puts back what its variable was before; if it was none, the zero
\* Value takes its place, and the name is in the scope from then on.
Unbind(scope, name, before) ==
  Bind(scope, name, IF name \in DOMAIN before THEN before[name] ELSE Nil)

WriteText(text, scope) ==
  IF text.ok THEN Writes(text.out, scope) ELSE Fails(scope)

RenderText(n, scope) == WriteText(EvalPieces(n.pieces, scope), scope)

\* renderElementNodeInner: the tags and what is between them.
RenderInner(n) == <<Tag("open")>> \o n.body \o <<Tag("close")>>

\* forEach, up to renderElementNodeInner, and after it.
BeginRound(r, scope) ==
  Does(Append(RenderInner(r.node), RoundEnds(r.node, scope)),
       Bind(scope, r.node.loop.var, r.item))

EndRound(r, scope) == Does(<<>>, Unbind(scope, r.node.loop.var, r.before))

RenderLoop(n, list, scope) ==
  IF list.kind = "list"
  THEN Does([i \in DOMAIN list.val |-> Round(n, list.val[i])], scope)
  ELSE Fails(scope)

\* An element whose condition came to t.
RenderIf(t, n, scope) ==
  CASE t = "error" -> Fails(scope)
    [] t = "false" -> Does(<<>>, scope)
    [] t = "true" /\ n.loop = NoLoop -> Does(RenderInner(n), scope)
    [] t = "true" /\ n.loop # NoLoop -> RenderLoop(n, Eval(n.loop.list, scope), scope)

\* renderElementNode: the condition comes before the loop, and is asked once.
IsShown(n, scope) == IF n.cond = Always THEN "true" ELSE EvalCondition(n.cond, scope)

RenderElement(n, scope) == RenderIf(IsShown(n, scope), n, scope)

RenderNode(n, scope) ==
  CASE n.kind = "text"    -> RenderText(n, scope)
    [] n.kind = "element" -> RenderElement(n, scope)
    [] n.kind = "tag"     -> Writes(<<n.name>>, scope)
    [] n.kind = "round"   -> BeginRound(n, scope)
    [] n.kind = "end"     -> EndRound(n, scope)

RECURSIVE Render(_, _, _)

\* After what r came to, the rest; an error ends it all.
Render(r, rest, out) ==
  IF ~r.ok THEN r
  ELSE LET todo == r.next \o rest
       IN  IF todo = <<>> THEN Writes(out \o r.out, r.scope)
           ELSE Render(RenderNode(Head(todo), r.scope), Tail(todo), out \o r.out)

\* RenderHTML: nothing but a whole page is ever sent.
RenderHTML(nodes, scope) == Render(Does(nodes, scope), <<>>, <<>>)
=============================================================================
