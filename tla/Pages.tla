-------------------------------- MODULE Pages --------------------------------
(* components/pages: a directory of templates becomes a set of handlers.  A   *)
(* file's path is the address it is served on; an entry whose name starts     *)
(* with "_" is a placeholder, which stands for any one token and becomes a    *)
(* path parameter.  Go's ServeMux chooses a pattern, and the pattern's own    *)
(* list of handlers, in the order the directory was read, does the rest.      *)
EXTENDS Naturals, SequencesExt

CONSTANTS
  Order,          \* The names of entries, as ReadDir sorts them.
  Placeholders,   \* Those that start with "_".
  Files,          \* The pages a site may have.
  Requests        \* The requests it may get.

VARIABLE
  site            \* The pages registered so far.

\* The only token of the path "/".
Empty == ""

\* A file is the sequence of the names on its way, the last one without .html.
Entries == ToSet(Order)

\* No entry has an empty name; "index" and "pages" do not start with "_".
NamesAssumption ==
  /\ Order \in Seq(STRING) /\ Empty \notin Entries
  /\ Placeholders \subseteq Entries \ {"index", "pages"}

\* A request is its path split at the slashes, and whether it ends in one; the
\* path without any token is "/".
RequestsAssumption ==
  \A req \in Requests :
    /\ req \in [tokens : Seq(STRING), slash : BOOLEAN]
    /\ req.tokens = <<>> => req.slash

ASSUME PagesAssumption ==
  NamesAssumption /\ RequestsAssumption /\ Files \subseteq Seq(Entries) \ {<<>>}

PagesInit == site = {}

AddPage == \E f \in Files : site' = site \cup {f}

PagesSpec == PagesInit /\ [][AddPage]_site

-----------------------------------------------------------------------------
(* What a page is registered as.                                              *)

Rank(name) == CHOOSE i \in DOMAIN Order : Order[i] = name

\* addHandlersFromDir reads a directory in order, and a subdirectory where its
\* name stands; "a" comes before "a.html".
ReadBefore(f, g) ==
  \E i \in DOMAIN f \cap DOMAIN g :
    /\ \A j \in 1..i - 1 : f[j] = g[j]
    /\ \/ Rank(f[i]) < Rank(g[i])
       \/ f[i] = g[i] /\ i < Len(f) /\ i = Len(g)

\* What the path is served on, split at the slashes: "index" stands for its
\* directory, and a leading "pages" is dropped.  The root is <<Empty>>.
Tokens(f) ==
  LET p == IF f[1] = "pages" /\ Len(f) > 1 THEN Tail(f) ELSE f
      d == IF Last(p) = "index" THEN Front(p) ELSE p
  IN  IF d = <<>> THEN <<Empty>> ELSE d

\* The root's only token is empty, as are the tokens of placeholders: both
\* match anything.
Match(f) ==
  [i \in DOMAIN Tokens(f) |-> IF Tokens(f)[i] \in Placeholders THEN Empty ELSE Tokens(f)[i]]

\* The ServeMux pattern: up to the first placeholder, and then a subtree.  The
\* root's "/" is the subtree of everything.
Pattern(f) ==
  LET t == Tokens(f)
      n == SelectInSeq(t, LAMBDA x : x \in Placeholders)
  IN  IF t = <<Empty>> THEN [prefix |-> <<>>, subtree |-> TRUE]
      ELSE IF n = 0 THEN [prefix |-> t, subtree |-> FALSE]
      ELSE [prefix |-> SubSeq(t, 1, n - 1), subtree |-> TRUE]

-----------------------------------------------------------------------------
(* What a request is answered with.                                           *)

Root == [tokens |-> <<>>, slash |-> TRUE]

\* ServeMux: an exact pattern, or else the longest subtree; a path that is a
\* subtree but for the slash is redirected to it.
Fits(pattern, req) ==
  IF pattern.subtree THEN IsPrefix(pattern.prefix, req.tokens)
  ELSE pattern.prefix = req.tokens /\ ~req.slash

Precedes(p, q) ==
  Len(p.prefix) > Len(q.prefix) \/ (p.prefix = q.prefix /\ ~p.subtree /\ q.subtree)

Chosen(patterns, req) ==
  {p \in patterns : Fits(p, req) /\ ~\E q \in patterns : Fits(q, req) /\ Precedes(q, p)}

\* What patternMux splits the trimmed path into.
PathTokens(req) == IF req.tokens = <<>> THEN <<Empty>> ELSE req.tokens

\* Mutant of Matches: a longer path is served by a handler for its beginning.
MatchesBeginning(f, tokens) ==
  /\ Len(Match(f)) <= Len(tokens)
  /\ \A i \in DOMAIN Match(f) : Match(f)[i] \in {Empty, tokens[i]}

Matches(f, tokens) ==
  /\ Len(Match(f)) = Len(tokens)
  /\ \A i \in DOMAIN tokens : Match(f)[i] \in {Empty, tokens[i]}

\* The later of two placeholders of one name wins, in the order of a Go map:
\* either may.
Parameters(f, tokens) ==
  LET at(s) == {i \in DOMAIN Tokens(f) : Tokens(f)[i] = s}
      names == {s \in Placeholders : at(s) # {}}
  IN  {params \in [names -> ToSet(tokens)] :
         \A s \in names : \E i \in at(s) : params[s] = tokens[i]}

\* The handlers that may answer: of the pattern that is chosen, the first to match.
Handlers(req) ==
  LET match  == {f \in site : Matches(f, PathTokens(req))}
      chosen == Chosen({Pattern(f) : f \in site}, req)
  IN  {f \in match : /\ Pattern(f) \in chosen
                     /\ ~\E g \in match : Pattern(g) = Pattern(f) /\ ReadBefore(g, f)}

\* Every answer the site may give to a request: a page with its parameters;
\* none is a 404.
Answers(req) ==
  UNION {{[page |-> f, params |-> params] : params \in Parameters(f, PathTokens(req))} : f \in Handlers(req)}

-----------------------------------------------------------------------------
(* Properties.                                                                *)

\* Two names can stand for the same token.
Meets(s, t) == s = t \/ {s, t} \cap Placeholders # {}

\* A path is an address of both pages.
Collide(f, g) ==
  /\ Len(Tokens(f)) = Len(Tokens(g))
  /\ \A i \in DOMAIN Tokens(f) : Meets(Tokens(f)[i], Tokens(g)[i])

\* ServeMux takes an address of f for g's subtree, which is the more specific:
\* g still has names where f has a placeholder, and patternMux looks only at the
\* pages of the pattern that was chosen.
Shadows(g, f) ==
  LET prefix == Pattern(g).prefix IN
  /\ Pattern(f).subtree /\ Pattern(g).subtree
  /\ Len(Pattern(f).prefix) < Len(prefix)
  /\ Len(prefix) <= Len(Tokens(f))
  /\ \A i \in DOMAIN prefix : Meets(Tokens(f)[i], prefix[i])

Compete(f, g) == Collide(f, g) \/ Shadows(f, g) \/ Shadows(g, f)

\* No two pages compete.  Pages of different lengths may share a pattern.
Unambiguous == \A f, g \in site : f # g => ~Compete(f, g)

\* The path of a request is the page's own, its placeholders filled in.
IsAddressOf(req, f) ==
  /\ Len(req.tokens) = Len(Tokens(f))
  /\ \A i \in DOMAIN req.tokens : Tokens(f)[i] \in Placeholders \cup {req.tokens[i]}

IsRoot(f) == Tokens(f) = <<Empty>>

\* On a site whose pages do not compete, as on the dashboard's, every page is
\* served at each of its addresses, with the path's own tokens as parameters, in
\* whatever order they were registered (addHandlers, ServeMux, patternMux).
EveryPageIsServed ==
  Unambiguous =>
    \A f \in site, req \in Requests :
      (IF IsRoot(f) THEN req = Root ELSE IsAddressOf(req, f) /\ ~req.slash)
      => /\ Answers(req) # {}
         /\ \A answer \in Answers(req) :
              /\ answer.page = f
              /\ \A s \in DOMAIN answer.params :
                   \E i \in DOMAIN req.tokens :
                     Tokens(f)[i] = s /\ answer.params[s] = req.tokens[i]

\* No page is served at an address that is not its own (but for the slash at its
\* end), on any site, with two exceptions that the empty token makes: the root
\* page, whose token it is and stands for anything, answers paths of one token;
\* and "/", whose token it is too, is answered by a page that is one placeholder
\* of the topmost directory, with nothing as the parameter.
NothingElseIsServed ==
  \A req \in Requests : \A answer \in Answers(req) :
    \/ IsAddressOf(req, answer.page)
    \/ IsRoot(answer.page) /\ Len(PathTokens(req)) = 1
    \/ /\ req = Root
       /\ \E s \in Placeholders : /\ Tokens(answer.page) = <<s>>
                                  /\ answer.params = [name \in {s} |-> Empty]

\* Pages answer their own paths, and no others (the two above).
PagesAnswerTheirPaths == EveryPageIsServed /\ NothingElseIsServed
=============================================================================
