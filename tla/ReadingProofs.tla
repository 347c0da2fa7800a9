---------------------------- MODULE ReadingProofs ----------------------------
(* Proofs about what reads a text and what finds a page: for any directory of   *)
(* pages and any request, that the pages answer the requests their files name   *)
(* and no other; for any text, any schema and any number of calls under way,    *)
(* that what kubejson accepts is JSON, but for members without a value.         *)
(*                                                                             *)
(* Both reason about the smallest of a set of numbers, which the library has    *)
(* only for well-founded relations; the first two lemmas draw it from there.    *)
EXTENDS Pages, KubeJson, WellFoundedInduction, TLAPS

LEMMA NatIsWellFounded ==
  \E R : IsWellFoundedOn(R, Nat) /\ \A x, y \in Nat : x < y => <<x, y>> \in R
<1> DEFINE R == OpToRel(<, Nat)
<1>1. IsWellFoundedOn(R, Nat)
  BY NatLessThanWellFounded
<1>2. \A x, y \in Nat : x < y => <<x, y>> \in R
  BY DEF OpToRel
<1> HIDE DEF R
<1> QED BY <1>1, <1>2, Zenon

LEMMA SmallestExists ==
  ASSUME NEW S \in SUBSET Nat, S # {}
  PROVE  \E m \in S : \A n \in S : m <= n
<1>1. PICK R : IsWellFoundedOn(R, Nat) /\ \A x, y \in Nat : x < y => <<x, y>> \in R
  BY NatIsWellFounded, Zenon
<1>2. PICK m \in S : \A n \in S : ~(<<n, m>> \in R)
  <2>1. IsWellFoundedOn(R, Nat)
    BY <1>1
  <2> QED BY <2>1, WFMin, Zenon
<1>3. \A n \in S : ~(n < m)
  BY <1>1, <1>2
<1>4. m \in Nat /\ \A n \in S : n \in Nat
  OBVIOUS
<1> QED BY <1>2, <1>3, <1>4

-----------------------------------------------------------------------------
(* Pages.  If a pattern other than the page's own were chosen at an address of  *)
(* the page, its page would shadow it, or be as long and collide with it; and   *)
(* a page of its own pattern that matched as well would collide with it.  So    *)
(* ServeMux chooses the pattern of the page, and no other page is read before.  *)

Names == Entries \cup {Empty}

\* What addHandlers makes of the name of a file.
LEMMA TokensAre ==
  ASSUME NEW f \in Files
  PROVE  /\ Tokens(f) \in Seq(Names) /\ Len(Tokens(f)) \in Nat \ {0}
         /\ Tokens(f) = <<Empty>> \/ \A i \in DOMAIN Tokens(f) : Tokens(f)[i] # Empty
         /\ Empty \notin Placeholders
<1>1. f \in Seq(Entries) /\ f # <<>> /\ Empty \notin Entries /\ Empty \notin Placeholders
  BY PagesAssumption DEF NamesAssumption
<1> DEFINE p == IF f[1] = "pages" /\ Len(f) > 1 THEN Tail(f) ELSE f
           d == IF Last(p) = "index" THEN Front(p) ELSE p
<1>0. f \in Seq(Entries) /\ f # <<>>
  BY <1>1
<1>2. p \in Seq(Entries) /\ p # <<>>
  <2>0. PICK n \in Nat : n = Len(f) /\ n # 0
    BY <1>0
  <2>1. n = Len(f) /\ n > 0
    BY <2>0
  <2>2. CASE f[1] = "pages" /\ n > 1
    <3>1. p = Tail(f)
      BY <2>1, <2>2
    <3>2. Tail(f) \in Seq(Entries) /\ Len(Tail(f)) = n - 1
      BY <1>0, <2>1, <2>2
    <3> HIDE DEF p
    <3> QED BY <2>1, <2>2, <3>1, <3>2
  <2>3. CASE ~(f[1] = "pages" /\ n > 1)
    <3>1. p = f
      BY <2>1, <2>3
    <3> QED BY <1>1, <3>1
  <2> QED BY <2>2, <2>3
<1>3. d \in Seq(Entries)
  <2> HIDE DEF p
  <2>1. Front(p) \in Seq(Entries)
    BY <1>2 DEF Front
  <2> QED BY <1>2, <2>1
<1>4. Tokens(f) = IF d = <<>> THEN <<Empty>> ELSE d
  BY DEF Tokens
<1> HIDE DEF d
<1>6. Names = Entries \cup {Empty} /\ Empty \notin Entries /\ Empty \notin Placeholders
      /\ Tokens(f) = IF d = <<>> THEN <<Empty>> ELSE d
  BY <1>1, <1>4 DEF Names
<1>7. /\ Tokens(f) \in Seq(Names) /\ Len(Tokens(f)) \in Nat \ {0}
      /\ Tokens(f) = <<Empty>> \/ \A i \in DOMAIN Tokens(f) : Tokens(f)[i] # Empty
  <2>1. CASE d = <<>>
    <3>1. Tokens(f) = <<Empty>>
      BY <1>6, <2>1
    <3>2. <<Empty>> \in Seq(Names) /\ Len(<<Empty>>) = 1
      BY <1>6
    <3> QED BY <3>1, <3>2
  <2>2. CASE d # <<>>
    <3>1. d \in Seq(Names)
      BY <1>3, <1>6
    <3>2. Tokens(f) = d
      BY <1>6, <2>2
    <3> QED BY <1>3, <1>6, <2>2, <3>1, <3>2
  <2> QED BY <2>1, <2>2
<1> QED BY <1>1, <1>7

\* The first placeholder of a page, if there is one.
IsFirst(t, n) ==
  \/ n = 0 /\ \A i \in 1..Len(t) : t[i] \notin Placeholders
  \/ n \in 1..Len(t) /\ t[n] \in Placeholders /\ \A i \in 1..(n - 1) : t[i] \notin Placeholders

LEMMA FirstIs ==
  ASSUME NEW t \in Seq(Names)
  PROVE  IsFirst(t, SelectInSeq(t, LAMBDA x : x \in Placeholders))
<1> DEFINE I == {i \in 1..Len(t) : t[i] \in Placeholders}
           n == SelectInSeq(t, LAMBDA x : x \in Placeholders)
<1>1. n = IF I # {} THEN Min(I) ELSE 0
  BY DEF SelectInSeq
<1>2. CASE I = {}
  BY <1>1, <1>2 DEF IsFirst
<1>3. CASE I # {}
  <2>1. I \in SUBSET Nat
    OBVIOUS
  <2>2. n \in I /\ \A i \in I : n <= i
    <3>1. \E m \in I : \A i \in I : m <= i
      <4> HIDE DEF I
      <4> QED BY <1>3, <2>1, SmallestExists
    <3> HIDE DEF I
    <3> QED BY <1>1, <1>3, <3>1 DEF Min
  <2>3. n \in 1..Len(t) /\ t[n] \in Placeholders
    BY <2>2
  <2>4. \A i \in 1..(n - 1) : t[i] \notin Placeholders
    <3> SUFFICES ASSUME NEW i \in 1..(n - 1), t[i] \in Placeholders
                 PROVE  FALSE
      OBVIOUS
    <3> HIDE DEF n
    <3>1. Len(t) \in Nat
      OBVIOUS
    <3>2. i \in 1..Len(t) /\ i < n
      BY <2>3, <3>1
    <3>3. i \in I
      BY <3>2
    <3> QED BY <2>2, <2>3, <3>2, <3>3
  <2> QED BY <2>3, <2>4 DEF IsFirst
<1> QED BY <1>2, <1>3

\* What a page is registered on: its tokens to the first placeholder.
LEMMA PatternIs ==
  ASSUME NEW f \in Files
  PROVE  /\ IsRoot(f) => Pattern(f) = [prefix |-> <<>>, subtree |-> TRUE]
         /\ ~IsRoot(f) =>
              \E n \in Nat :
                /\ IsFirst(Tokens(f), n)
                /\ n = 0 => Pattern(f) = [prefix |-> Tokens(f), subtree |-> FALSE]
                /\ n # 0 => Pattern(f) = [prefix |-> SubSeq(Tokens(f), 1, n - 1), subtree |-> TRUE]
<1>1. IsRoot(f) => Pattern(f) = [prefix |-> <<>>, subtree |-> TRUE]
  BY DEF Pattern, IsRoot
<1>2. ASSUME ~IsRoot(f)
      PROVE  \E n \in Nat :
                /\ IsFirst(Tokens(f), n)
                /\ n = 0 => Pattern(f) = [prefix |-> Tokens(f), subtree |-> FALSE]
                /\ n # 0 => Pattern(f) = [prefix |-> SubSeq(Tokens(f), 1, n - 1), subtree |-> TRUE]
  <2> DEFINE n == SelectInSeq(Tokens(f), LAMBDA x : x \in Placeholders)
  <2>1. IsFirst(Tokens(f), n)
    BY TokensAre, FirstIs
  <2>2. Pattern(f) = IF n = 0 THEN [prefix |-> Tokens(f), subtree |-> FALSE]
                     ELSE [prefix |-> SubSeq(Tokens(f), 1, n - 1), subtree |-> TRUE]
    BY <1>2 DEF Pattern, IsRoot
  <2> HIDE DEF n
  <2>3. n \in Nat
    <3>1. Len(Tokens(f)) \in Nat
      BY TokensAre
    <3> QED BY <2>1, <3>1 DEF IsFirst
  <2> QED BY <2>1, <2>2, <2>3
<1> QED BY <1>1, <1>2

LEMMA NotBeforeItself ==
  ASSUME NEW f \in Files
  PROVE  ~ReadBefore(f, f)
<1>1. f \in Seq(Entries)
  BY PagesAssumption
<1>2. \A x \in Entries : Rank(x) \in Nat
  <2>1. Order \in Seq(STRING)
    BY PagesAssumption DEF NamesAssumption
  <2>2. \A x \in Entries : \E i \in DOMAIN Order : Order[i] = x
    BY DEF Entries, ToSet
  <2>3. \A i \in DOMAIN Order : i \in Nat
    BY <2>1
  <2> QED BY <2>2, <2>3 DEF Rank
<1>3. \A i \in DOMAIN f : ~(Rank(f[i]) < Rank(f[i]))
  BY <1>1, <1>2
<1>4. \A i \in DOMAIN f : ~(i < Len(f) /\ i = Len(f))
  BY <1>1
<1> QED BY <1>3, <1>4 DEF ReadBefore
-----------------------------------------------------------------------------
(* Sequences.                                                                 *)

LEMMA PrefixIs ==
  ASSUME NEW A, NEW s \in Seq(A), NEW t \in Seq(A)
  PROVE  IsPrefix(s, t) <=> Len(s) <= Len(t) /\ \A i \in 1..Len(s) : s[i] = t[i]
<1>1. Len(s) \in Nat /\ Len(t) \in Nat
  OBVIOUS
<1>2. CASE Len(s) <= Len(t)
  <2> DEFINE a == SubSeq(s, 1, Len(s))
             b == SubSeq(t, 1, Len(s))
  <2>1. /\ a \in Seq(A) /\ Len(a) = Len(s) /\ \A i \in 1..Len(s) : a[i] = s[i]
        /\ b \in Seq(A) /\ Len(b) = Len(s) /\ \A i \in 1..Len(s) : b[i] = t[i]
    BY <1>1, <1>2
  <2>2. IsPrefix(s, t) <=> a = b
    BY <1>2 DEF IsPrefix
  <2> HIDE DEF a, b
  <2>3. (\A i \in 1..Len(s) : a[i] = b[i]) => a = b
    BY <2>1
  <2> QED BY <1>2, <2>1, <2>2, <2>3
<1>3. CASE ~(Len(s) <= Len(t))
  BY <1>3 DEF IsPrefix
<1> QED BY <1>2, <1>3

LEMMA SameSequence ==
  ASSUME NEW A, NEW s \in Seq(A), NEW t \in Seq(A), Len(s) = Len(t), \A i \in 1..Len(s) : s[i] = t[i]
  PROVE  s = t
OBVIOUS

LEMMA DomainIs ==
  ASSUME NEW A, NEW s \in Seq(A)
  PROVE  DOMAIN s = 1..Len(s)
OBVIOUS

-----------------------------------------------------------------------------
(* A page at one of its addresses.                                            *)

Strings == Names \cup STRING

LEMMA RequestIs ==
  ASSUME NEW req \in Requests
  PROVE  /\ req.tokens \in Seq(Strings) /\ Len(req.tokens) \in Nat
         /\ req.slash \in BOOLEAN /\ (req.tokens = <<>> => req = Root)
         /\ (req.tokens = <<>> => PathTokens(req) = <<Empty>>)
         /\ (req.tokens # <<>> => PathTokens(req) = req.tokens)
<1>1. req \in [tokens : Seq(STRING), slash : BOOLEAN] /\ (req.tokens = <<>> => req.slash)
  BY PagesAssumption DEF RequestsAssumption
<1>2. req.tokens \in Seq(Strings)
  <2>1. \A S, T : req.tokens \in Seq(S) => req.tokens \in Seq(T \cup S)
    OBVIOUS
  <2> QED BY <1>1, <2>1 DEF Strings
<1>3. req.tokens = <<>> => req = Root
  BY <1>1 DEF Root
<1>4. Len(req.tokens) \in Nat /\ req.slash \in BOOLEAN
  BY <1>1
<1> QED BY <1>2, <1>3, <1>4 DEF PathTokens

LEMMA TokensInStrings ==
  ASSUME NEW f \in Files
  PROVE  Tokens(f) \in Seq(Strings) /\ Tokens(f) \in Seq(Names)
<1>1. Tokens(f) \in Seq(Names)
  BY TokensAre
<1>2. \A s, S, T : s \in Seq(S) => s \in Seq(S \cup T)
  OBVIOUS
<1> QED BY <1>1, <1>2 DEF Strings

\* What is matched with is as long as the tokens.
LEMMA MatchIs ==
  ASSUME NEW f \in Files
  PROVE  Match(f) \in Seq(Strings) /\ Len(Match(f)) = Len(Tokens(f)) /\ DOMAIN Tokens(f) = 1..Len(Tokens(f))
         /\ \A i \in 1..Len(Tokens(f)) :
              Match(f)[i] = IF Tokens(f)[i] \in Placeholders THEN Empty ELSE Tokens(f)[i]
<1>1. PICK t \in Seq(Strings), n \in Nat : t = Tokens(f) /\ n = Len(t) /\ DOMAIN t = 1..n
  BY TokensInStrings, DomainIs
<1>2. Match(f) = [i \in 1..n |-> IF t[i] \in Placeholders THEN Empty ELSE t[i]]
  BY <1>1 DEF Match
<1>3. Match(f) \in [1..n -> Strings]
  <2>1. Empty \in Strings
    BY DEF Strings, Names
  <2>2. \A i \in 1..n : t[i] \in Strings
    BY <1>1
  <2> QED BY <1>2, <2>1, <2>2
<1>4. Match(f) \in Seq(Strings) /\ Len(Match(f)) = n
  BY <1>3
<1>5. \A i \in 1..n : Match(f)[i] = IF t[i] \in Placeholders THEN Empty ELSE t[i]
  BY <1>2
<1> QED BY <1>1, <1>4, <1>5

\* No other page matches what is an address of the page, but perhaps the root.
LEMMA OnlyItMatches ==
  ASSUME site \subseteq Files, Unambiguous, NEW f \in site, NEW g \in site, NEW tokens \in Seq(Strings),
         Len(tokens) = Len(Tokens(f)),
         \A i \in DOMAIN tokens : Tokens(f)[i] \in Placeholders \cup {tokens[i]},
         IsRoot(g) => \A i \in DOMAIN tokens : Tokens(f)[i] \in Placeholders \cup {Empty},
         Matches(g, tokens)
  PROVE  g = f
<1>1. PICK s \in Seq(Strings), t \in Seq(Strings), m \in Nat :
        /\ s = Tokens(f) /\ t = Tokens(g) /\ m = Len(s)
        /\ DOMAIN s = 1..m /\ DOMAIN t = 1..Len(t) /\ DOMAIN tokens = 1..m
  BY TokensInStrings, DomainIs
<1>2. Len(t) = m /\ \A i \in 1..m : t[i] \in Placeholders \/ t[i] \in {Empty, tokens[i]}
  <2>1. Len(Match(g)) = m /\ \A i \in 1..m : Match(g)[i] \in {Empty, tokens[i]}
    BY <1>1 DEF Matches
  <2>2. /\ Len(Match(g)) = Len(t)
        /\ \A i \in 1..Len(t) : Match(g)[i] = IF t[i] \in Placeholders THEN Empty ELSE t[i]
    BY <1>1, MatchIs
  <2> QED BY <2>1, <2>2
<1>3. ASSUME NEW i \in 1..m
      PROVE  Meets(s[i], t[i])
  <2>1. s[i] \in Placeholders \/ s[i] = tokens[i]
    BY <1>1
  <2>2. CASE t[i] = Empty
    <3>1. IsRoot(g)
      BY <1>1, <1>2, <2>2, TokensAre DEF IsRoot
    <3> QED BY <1>1, <2>2, <3>1 DEF Meets
  <2> QED BY <1>2, <2>1, <2>2 DEF Meets
<1>4. Collide(f, g)
  BY <1>1, <1>2, <1>3 DEF Collide
<1> QED BY <1>4 DEF Unambiguous, Compete

\* A pattern that wins over every other that fits is the one that is chosen.
LEMMA OnlyChosen ==
  ASSUME NEW P, NEW own \in P, NEW req, Fits(own, req),
         \A q \in P : Fits(q, req) => (q = own \/ Precedes(own, q)) /\ ~Precedes(q, own)
  PROVE  Chosen(P, req) = {own}
BY DEF Chosen

\* The patterns of pages.
LEMMA PatternType ==
  ASSUME NEW f \in Files
  PROVE  /\ Pattern(f) = [prefix |-> Pattern(f).prefix, subtree |-> Pattern(f).subtree]
         /\ Pattern(f).prefix \in Seq(Strings) /\ Pattern(f).subtree \in BOOLEAN
         /\ ~Pattern(f).subtree => ~IsRoot(f) /\ Pattern(f).prefix = Tokens(f)
                                   /\ \A i \in DOMAIN Tokens(f) : Tokens(f)[i] \notin Placeholders
         /\ ~IsRoot(f) => /\ Len(Pattern(f).prefix) <= Len(Tokens(f))
                          /\ \A i \in 1..Len(Pattern(f).prefix) :
                               Pattern(f).prefix[i] = Tokens(f)[i] /\ Tokens(f)[i] \notin Placeholders
         /\ IsRoot(f) => Pattern(f).prefix = <<>>
<1>1. PICK t \in Seq(Strings), m \in Nat : t = Tokens(f) /\ m = Len(t)
  BY TokensInStrings
<1>2. CASE IsRoot(f)
  <2>1. Pattern(f) = [prefix |-> <<>>, subtree |-> TRUE]
    BY <1>2, PatternIs
  <2>2. Pattern(f).prefix = <<>> /\ Pattern(f).subtree = TRUE
    BY <2>1
  <2>3. <<>> \in Seq(Strings)
    OBVIOUS
  <2> QED BY <1>2, <2>1, <2>2, <2>3
<1>3. CASE ~IsRoot(f)
  <2>1. PICK n \in Nat :
          /\ IsFirst(t, n)
          /\ n = 0 => Pattern(f) = [prefix |-> t, subtree |-> FALSE]
          /\ n # 0 => Pattern(f) = [prefix |-> SubSeq(t, 1, n - 1), subtree |-> TRUE]
    BY <1>1, <1>3, PatternIs
  <2>2. CASE n = 0
    <3>1. \A i \in 1..m : t[i] \notin Placeholders
      BY <1>1, <2>1, <2>2 DEF IsFirst
    <3>2. Pattern(f).prefix = t /\ Pattern(f).subtree = FALSE /\ Pattern(f) = [prefix |-> t, subtree |-> FALSE]
      BY <2>1, <2>2
    <3> QED BY <1>1, <1>3, <3>1, <3>2
  <2>3. CASE n # 0
    <3>1. n \in 1..m /\ \A i \in 1..(n - 1) : t[i] \notin Placeholders
      BY <1>1, <2>1, <2>3 DEF IsFirst
    <3>2. /\ SubSeq(t, 1, n - 1) \in Seq(Strings) /\ Len(SubSeq(t, 1, n - 1)) = n - 1
          /\ \A i \in 1..(n - 1) : SubSeq(t, 1, n - 1)[i] = t[i]
      BY <1>1, <3>1
    <3>3. /\ Pattern(f).prefix = SubSeq(t, 1, n - 1) /\ Pattern(f).subtree = TRUE
          /\ Pattern(f) = [prefix |-> SubSeq(t, 1, n - 1), subtree |-> TRUE]
      BY <2>1, <2>3
    <3> QED BY <1>1, <1>3, <3>1, <3>2, <3>3
  <2> QED BY <2>2, <2>3
<1> QED BY <1>2, <1>3

IsServed(f, req) == IF IsRoot(f) THEN req = Root ELSE IsAddressOf(req, f) /\ ~req.slash

\* ServeMux chooses the pattern of the page.
LEMMA ItIsChosen ==
  ASSUME site \subseteq Files, Unambiguous, NEW f \in site, NEW req \in Requests, ~IsRoot(f), IsServed(f, req)
  PROVE  Chosen({Pattern(g) : g \in site}, req) = {Pattern(f)}
<1>1. PICK t \in Seq(Strings), r \in Seq(Strings), m \in Nat :
        t = Tokens(f) /\ r = req.tokens /\ m = Len(t) /\ m = Len(r) /\ m # 0
  BY TokensInStrings, TokensAre, RequestIs DEF IsServed, IsAddressOf
<1>2. ~req.slash /\ \A i \in 1..m : t[i] \in Placeholders \/ t[i] = r[i]
  BY <1>1 DEF IsServed, IsAddressOf
<1>3. PICK n \in Nat :
        /\ IsFirst(t, n)
        /\ n = 0 => Pattern(f) = [prefix |-> t, subtree |-> FALSE]
        /\ n # 0 => Pattern(f) = [prefix |-> SubSeq(t, 1, n - 1), subtree |-> TRUE]
  BY <1>1, PatternIs
<1>4. CASE n = 0
  <2>1. \A i \in 1..m : t[i] = r[i]
    BY <1>1, <1>2, <1>3, <1>4 DEF IsFirst
  <2>2. t = r
    BY <1>1, <2>1, SameSequence
  <2>3. Pattern(f) = [prefix |-> r, subtree |-> FALSE] /\ Pattern(f).prefix = r /\ Pattern(f).subtree = FALSE
    BY <1>3, <1>4, <2>2
  <2>4. Fits(Pattern(f), req)
    BY <1>1, <1>2, <2>3 DEF Fits
  <2>5. ASSUME NEW g \in site, Fits(Pattern(g), req)
        PROVE  (Pattern(g) = Pattern(f) \/ Precedes(Pattern(f), Pattern(g))) /\ ~Precedes(Pattern(g), Pattern(f))
    <3>1. PICK p \in Seq(Strings), s \in BOOLEAN, k \in Nat :
            p = Pattern(g).prefix /\ s = Pattern(g).subtree /\ k = Len(p)
            /\ Pattern(g) = [prefix |-> p, subtree |-> s]
      BY PatternType
    <3>2. CASE s
      <4>1. k <= m /\ \A i \in 1..k : p[i] = r[i]
        BY <1>1, <2>5, <3>1, <3>2, PrefixIs DEF Fits
      <4>2. k = m => p = r
        BY <1>1, <3>1, <4>1, SameSequence
      <4> QED BY <1>1, <2>3, <3>1, <3>2, <4>1, <4>2 DEF Precedes
    <3>3. CASE ~s
      <4>1. p = r /\ s = FALSE
        BY <1>1, <2>5, <3>1, <3>3 DEF Fits
      <4>2. Pattern(g) = Pattern(f)
        BY <2>3, <3>1, <4>1
      <4> QED BY <1>1, <2>3, <4>2 DEF Precedes
    <3> QED BY <3>2, <3>3
  <2> DEFINE P == {Pattern(g) : g \in site}
  <2>6. Pattern(f) \in P
    OBVIOUS
  <2>7. \A q \in P : Fits(q, req) => (q = Pattern(f) \/ Precedes(Pattern(f), q)) /\ ~Precedes(q, Pattern(f))
    BY <2>5
  <2> HIDE DEF P
  <2>8. Chosen(P, req) = {Pattern(f)}
    BY <2>4, <2>6, <2>7, OnlyChosen
  <2> QED BY <2>8 DEF P
<1>5. CASE n # 0
  <2>1. n \in 1..m /\ t[n] \in Placeholders /\ \A i \in 1..(n - 1) : t[i] = r[i]
    BY <1>1, <1>2, <1>3, <1>5 DEF IsFirst
  <2>2. PICK b \in Seq(Strings) : /\ b = SubSeq(t, 1, n - 1) /\ Len(b) = n - 1
                                 /\ \A i \in 1..(n - 1) : b[i] = r[i]
    <3>1. /\ SubSeq(t, 1, n - 1) \in Seq(Strings) /\ Len(SubSeq(t, 1, n - 1)) = n - 1
          /\ \A i \in 1..(n - 1) : SubSeq(t, 1, n - 1)[i] = t[i]
      BY <1>1, <2>1
    <3> QED BY <2>1, <3>1
  <2>3. Pattern(f) = [prefix |-> b, subtree |-> TRUE] /\ Pattern(f).prefix = b /\ Pattern(f).subtree = TRUE
    BY <1>3, <1>5, <2>2
  <2>4. Fits(Pattern(f), req)
    <3>1. Len(b) <= Len(r) /\ \A i \in 1..Len(b) : b[i] = r[i]
      BY <1>1, <2>1, <2>2
    <3> QED BY <1>1, <2>3, <3>1, PrefixIs DEF Fits
  <2>5. ASSUME NEW g \in site, Fits(Pattern(g), req)
        PROVE  (Pattern(g) = Pattern(f) \/ Precedes(Pattern(f), Pattern(g))) /\ ~Precedes(Pattern(g), Pattern(f))
    <3>1. PICK p \in Seq(Strings), s \in BOOLEAN, k \in Nat :
            p = Pattern(g).prefix /\ s = Pattern(g).subtree /\ k = Len(p)
            /\ Pattern(g) = [prefix |-> p, subtree |-> s]
      BY PatternType
    <3>2. k <= m /\ (\A i \in 1..k : p[i] = r[i]) /\ (~s => p = r /\ k = m)
      <4>1. CASE s
        BY <1>1, <2>5, <3>1, <4>1, PrefixIs DEF Fits
      <4>2. CASE ~s
        <5>1. p = r
          BY <1>1, <2>5, <3>1, <4>2 DEF Fits
        <5> QED BY <1>1, <3>1, <5>1
      <4> QED BY <4>1, <4>2
    <3>3. k < n
      <4> SUFFICES ASSUME k >= n
                   PROVE  FALSE
        BY <1>3, <3>1
      <4>1. ~IsRoot(g)
        <5> SUFFICES ASSUME IsRoot(g) PROVE FALSE
          OBVIOUS
        <5>1. p = <<>>
          BY <3>1, PatternType
        <5> QED BY <1>5, <3>1, <5>1
      <4>2. PICK u \in Seq(Strings), l \in Nat : u = Tokens(g) /\ l = Len(u) /\ DOMAIN u = 1..l
        BY TokensInStrings, DomainIs
      <4>3. k <= l /\ \A i \in 1..k : p[i] = u[i] /\ u[i] \notin Placeholders
        BY <3>1, <4>1, <4>2, PatternType
      <4>4. n \in 1..k /\ g # f
        <5>1. n \in 1..k
          BY <1>5
        <5> QED BY <1>1, <2>1, <4>2, <4>3, <5>1
      <4>5. \A i \in 1..k : Meets(t[i], p[i])
        BY <1>2, <3>2 DEF Meets
      <4>6. CASE s
        <5>1. Pattern(f).subtree /\ Pattern(g).subtree /\ Len(Pattern(f).prefix) < k /\ DOMAIN p = 1..k
          BY <2>2, <2>3, <3>1, <4>6, DomainIs
        <5>2. Shadows(g, f)
          BY <1>1, <3>1, <3>2, <4>5, <5>1 DEF Shadows
        <5> QED BY <4>4, <5>2 DEF Unambiguous, Compete
      <4>7. CASE ~s
        <5>1. p = u /\ k = m
          BY <3>1, <3>2, <4>2, <4>7, PatternType
        <5>2. DOMAIN t = 1..m
          BY <1>1, DomainIs
        <5>3. Collide(f, g)
          BY <1>1, <3>1, <4>2, <4>5, <5>1, <5>2 DEF Collide
        <5> QED BY <4>4, <5>3 DEF Unambiguous, Compete
      <4> QED BY <4>6, <4>7
    <3>4. s = TRUE
      BY <2>1, <3>2, <3>3
    <3>5. CASE k = n - 1
      <4>1. p = b
        <5>1. \A i \in 1..k : p[i] = b[i]
          BY <2>2, <3>2, <3>5
        <5> QED BY <2>2, <3>1, <3>5, <5>1, SameSequence
      <4>2. Pattern(g) = Pattern(f)
        BY <2>3, <3>1, <3>4, <4>1
      <4>3. Len(b) \in Nat
        BY <2>2
      <4> QED BY <2>3, <4>2, <4>3 DEF Precedes
    <3>6. CASE k < n - 1
      BY <2>2, <2>3, <3>1, <3>4, <3>6 DEF Precedes
    <3> QED BY <1>3, <3>1, <3>3, <3>5, <3>6
  <2> DEFINE P == {Pattern(g) : g \in site}
  <2>6. Pattern(f) \in P
    OBVIOUS
  <2>7. \A q \in P : Fits(q, req) => (q = Pattern(f) \/ Precedes(Pattern(f), q)) /\ ~Precedes(q, Pattern(f))
    BY <2>5
  <2> HIDE DEF P
  <2>8. Chosen(P, req) = {Pattern(f)}
    BY <2>4, <2>6, <2>7, OnlyChosen
  <2> QED BY <2>8 DEF P
<1> QED BY <1>4, <1>5

\* The token of the root.
LEMMA RootIs ==
  ASSUME NEW t, t = <<Empty>>
  PROVE  Len(t) = 1 /\ DOMAIN t = 1..1 /\ t[1] = Empty /\ t \in Seq(Strings)
<1>1. Empty \in Strings
  BY DEF Strings, Names
<1> QED BY <1>1

\* A page that shares the root's pattern begins with a placeholder.
LEMMA BesideTheRoot ==
  ASSUME NEW f \in Files, NEW g \in Files, IsRoot(g), ~IsRoot(f), Pattern(g) = Pattern(f)
  PROVE  Tokens(f)[1] \in Placeholders
<1>1. PICK t \in Seq(Strings), m \in Nat : t = Tokens(f) /\ m = Len(t) /\ m # 0
  BY TokensInStrings, TokensAre
<1>2. PICK n \in Nat :
        /\ IsFirst(t, n)
        /\ n = 0 => Pattern(f) = [prefix |-> t, subtree |-> FALSE]
        /\ n # 0 => Pattern(f) = [prefix |-> SubSeq(t, 1, n - 1), subtree |-> TRUE]
  BY <1>1, PatternIs
<1>3. Pattern(f) = [prefix |-> <<>>, subtree |-> TRUE]
  BY PatternIs
<1>4. Pattern(f).prefix = <<>> /\ Pattern(f).subtree = TRUE
  BY <1>3
<1>5. n # 0 /\ SubSeq(t, 1, n - 1) = <<>>
  <2>1. n # 0
    BY <1>2, <1>4
  <2> QED BY <1>2, <1>4, <2>1
<1>6. n \in 1..m /\ t[n] \in Placeholders
  BY <1>1, <1>2, <1>5 DEF IsFirst
<1>7. n = 1
  <2>1. Len(SubSeq(t, 1, n - 1)) = n - 1
    BY <1>1, <1>6
  <2>2. n - 1 = 0
    BY <1>5, <2>1
  <2> QED BY <2>2
<1> QED BY <1>1, <1>6, <1>7

LEMMA OnlyHandler ==
  ASSUME site \subseteq Files, Unambiguous, NEW f \in site, NEW req \in Requests, IsServed(f, req)
  PROVE  Handlers(req) = {f} /\ Len(PathTokens(req)) = Len(Tokens(f)) /\ PathTokens(req) \in Seq(Strings)
<1>1. CASE IsRoot(f)
  <2>1. req = Root /\ req.tokens = <<>> /\ req.slash = TRUE /\ PathTokens(req) = <<Empty>>
    <3>1. req = Root /\ req.tokens = <<>> /\ req.slash = TRUE
      BY <1>1 DEF IsServed, Root
    <3> QED BY <3>1, RequestIs
  <2>2. Pattern(f) = [prefix |-> <<>>, subtree |-> TRUE] /\ Pattern(f).prefix = <<>> /\ Pattern(f).subtree = TRUE
    BY <1>1, PatternIs
  <2>3. Fits(Pattern(f), req)
    <3>1. IsPrefix(<<>>, <<>>)
      BY DEF IsPrefix
    <3> QED BY <2>1, <2>2, <3>1 DEF Fits
  <2>4. ASSUME NEW g \in site, Fits(Pattern(g), req)
        PROVE  Pattern(g) = Pattern(f)
    <3>1. PICK p \in Seq(Strings), s \in BOOLEAN :
            p = Pattern(g).prefix /\ s = Pattern(g).subtree /\ Pattern(g) = [prefix |-> p, subtree |-> s]
      BY PatternType
    <3>2. s = TRUE
      BY <2>1, <2>4, <3>1 DEF Fits
    <3>3. IsPrefix(p, <<>>)
      BY <2>1, <2>4, <3>1, <3>2 DEF Fits
    <3>4. p = <<>>
      <4>1. Len(p) <= Len(<<>>)
        BY <3>3 DEF IsPrefix
      <4> QED BY <3>1, <4>1
    <3> QED BY <2>2, <3>1, <3>2, <3>4
  <2>5. Chosen({Pattern(g) : g \in site}, req) = {Pattern(f)}
    <3> DEFINE P == {Pattern(g) : g \in site}
    <3>1. Pattern(f) \in P /\ \A q \in P : Fits(q, req) => q = Pattern(f)
      BY <2>4
    <3> HIDE DEF P
    <3>2. ~Precedes(Pattern(f), Pattern(f))
      BY <2>2 DEF Precedes
    <3>3. Chosen(P, req) = {Pattern(f)}
      BY <2>3, <3>1, <3>2, OnlyChosen
    <3> QED BY <3>3 DEF P
  <2>6. ASSUME NEW g \in site, Matches(g, PathTokens(req))
        PROVE  g = f
    <3> DEFINE tokens == PathTokens(req)
    <3>1. Tokens(f) = tokens /\ tokens \in Seq(Strings) /\ DOMAIN tokens = 1..1 /\ tokens[1] = Empty
      BY <1>1, <2>1, RootIs DEF IsRoot
    <3>2. /\ Len(tokens) = Len(Tokens(f)) /\ Matches(g, tokens)
          /\ \A i \in DOMAIN tokens : Tokens(f)[i] = tokens[i] /\ Tokens(f)[i] = Empty
      BY <2>6, <3>1
    <3> HIDE DEF tokens
    <3> QED BY <3>1, <3>2, OnlyItMatches
  <2>7. Matches(f, <<Empty>>)
    <3> DEFINE tokens == <<Empty>>
    <3>1. Tokens(f) = tokens /\ Len(tokens) = 1 /\ DOMAIN tokens = 1..1 /\ tokens[1] = Empty
      BY <1>1, RootIs DEF IsRoot
    <3> HIDE DEF tokens
    <3>3. /\ Len(Match(f)) = 1
          /\ \A i \in 1..1 : Match(f)[i] = IF Tokens(f)[i] \in Placeholders THEN Empty ELSE Tokens(f)[i]
      <4>1. f \in Files /\ Len(Tokens(f)) = 1
        BY <3>1
      <4> QED BY <4>1, MatchIs
    <3>4. Match(f)[1] = Empty
      BY <3>1, <3>3
    <3>5. \A i \in 1..1 : Match(f)[i] \in {Empty, tokens[i]}
      BY <3>4
    <3>6. Matches(f, tokens)
      BY <3>1, <3>3, <3>5 DEF Matches
    <3> QED BY <3>6 DEF tokens
  <2>8. Handlers(req) = {f}
    BY <2>1, <2>5, <2>6, <2>7, NotBeforeItself DEF Handlers
  <2>9. PathTokens(req) = Tokens(f) /\ PathTokens(req) \in Seq(Strings)
    BY <1>1, <2>1, RootIs DEF IsRoot
  <2> QED BY <2>8, <2>9
<1>2. CASE ~IsRoot(f)
  <2>1. PICK t \in Seq(Strings), r \in Seq(Strings), m \in Nat :
          /\ t = Tokens(f) /\ r = req.tokens /\ m = Len(t) /\ m = Len(r) /\ m # 0
          /\ DOMAIN r = 1..m /\ DOMAIN t = 1..m
    BY <1>2, TokensInStrings, TokensAre, RequestIs, DomainIs DEF IsServed, IsAddressOf
  <2>2. PathTokens(req) = r
    <3>1. r # <<>>
      BY <2>1
    <3> QED BY <2>1, <3>1, RequestIs
  <2>3. \A i \in DOMAIN r : Tokens(f)[i] \in Placeholders \cup {r[i]}
    BY <1>2, <2>1 DEF IsServed, IsAddressOf
  <2>4. Matches(f, r)
    <3>1. Len(Match(f)) = m
      BY <2>1, MatchIs
    <3>2. \A i \in 1..m : Match(f)[i] = IF t[i] \in Placeholders THEN Empty ELSE t[i]
      BY <2>1, MatchIs
    <3>3. \A i \in 1..m : Match(f)[i] \in {Empty, r[i]}
      BY <2>1, <2>3, <3>2
    <3> QED BY <2>1, <3>1, <3>3 DEF Matches
  <2>5. Chosen({Pattern(g) : g \in site}, req) = {Pattern(f)}
    BY <1>2, ItIsChosen
  <2>6. ASSUME NEW g \in site, Matches(g, r), Pattern(g) = Pattern(f)
        PROVE  g = f
    <3>1. IsRoot(g) => \A i \in DOMAIN r : Tokens(f)[i] \in Placeholders \cup {Empty}
      <4> SUFFICES ASSUME IsRoot(g)
                   PROVE  \A i \in DOMAIN r : Tokens(f)[i] \in Placeholders
        OBVIOUS
      <4>1. Tokens(f)[1] \in Placeholders
        BY <1>2, <2>6, BesideTheRoot
      <4>2. m = 1
        <5>1. Len(Match(g)) = Len(Tokens(g)) /\ Len(Match(g)) = m
          BY <2>1, <2>6, MatchIs DEF Matches
        <5>2. Len(Tokens(g)) = 1
          BY RootIs DEF IsRoot
        <5> QED BY <5>1, <5>2
      <4> QED BY <2>1, <4>1, <4>2
    <3>2. Len(r) = Len(Tokens(f))
      BY <2>1
    <3> QED BY <2>3, <2>6, <3>1, <3>2, OnlyItMatches
  <2>7. Handlers(req) = {f}
    BY <2>2, <2>4, <2>5, <2>6, NotBeforeItself DEF Handlers
  <2> QED BY <2>1, <2>2, <2>7
<1> QED BY <1>1, <1>2

LEMMA ParametersAre ==
  ASSUME NEW f \in Files, NEW tokens \in Seq(Strings), Len(tokens) = Len(Tokens(f))
  PROVE  /\ Parameters(f, tokens) # {}
         /\ \A params \in Parameters(f, tokens) : \A s \in DOMAIN params :
              s \in Placeholders /\ \E i \in DOMAIN tokens : Tokens(f)[i] = s /\ params[s] = tokens[i]
<1>1. PICK t \in Seq(Strings), m \in Nat :
        t = Tokens(f) /\ m = Len(t) /\ m = Len(tokens) /\ DOMAIN t = 1..m /\ DOMAIN tokens = 1..m
  BY TokensInStrings, DomainIs
<1> DEFINE at(s) == {i \in DOMAIN Tokens(f) : Tokens(f)[i] = s}
           names == {s \in Placeholders : at(s) # {}}
           chosen == [s \in names |-> tokens[CHOOSE i \in at(s) : TRUE]]
<1>2. Parameters(f, tokens) = {params \in [names -> ToSet(tokens)] :
                                 \A s \in names : \E i \in at(s) : params[s] = tokens[i]}
  BY DEF Parameters
<1>3. chosen \in Parameters(f, tokens)
  <2>1. \A s \in names : (CHOOSE i \in at(s) : TRUE) \in at(s)
    OBVIOUS
  <2>2. \A s : \A i \in at(s) : i \in DOMAIN tokens /\ tokens[i] \in ToSet(tokens)
    BY <1>1 DEF ToSet
  <2> HIDE DEF at, names
  <2>3. \A s \in names : tokens[CHOOSE i \in at(s) : TRUE] \in ToSet(tokens)
    BY <2>1, <2>2
  <2>4. chosen \in [names -> ToSet(tokens)]
    BY <2>3
  <2>5. \A s \in names : \E i \in at(s) : chosen[s] = tokens[i]
    BY <2>1
  <2> HIDE DEF chosen
  <2> QED BY <1>2, <2>4, <2>5
<1>4. ASSUME NEW params \in Parameters(f, tokens), NEW s \in DOMAIN params
      PROVE  s \in Placeholders /\ \E i \in DOMAIN tokens : Tokens(f)[i] = s /\ params[s] = tokens[i]
  <2>1. s \in names
    BY <1>2, <1>4
  <2>2. PICK i \in at(s) : params[s] = tokens[i]
    BY <1>2, <1>4, <2>1
  <2> QED BY <1>1, <2>1, <2>2
<1> QED BY <1>3, <1>4

LEMMA ServedPages ==
  ASSUME site \subseteq Files
  PROVE  EveryPageIsServed
<1> SUFFICES ASSUME Unambiguous, NEW f \in site, NEW req \in Requests, IsServed(f, req)
             PROVE  /\ Answers(req) # {}
                    /\ \A answer \in Answers(req) :
                         /\ answer.page = f
                         /\ \A s \in DOMAIN answer.params :
                              \E i \in DOMAIN req.tokens :
                                Tokens(f)[i] = s /\ answer.params[s] = req.tokens[i]
  BY DEF EveryPageIsServed, IsServed
<1>1. Handlers(req) = {f} /\ Len(PathTokens(req)) = Len(Tokens(f)) /\ PathTokens(req) \in Seq(Strings)
  BY OnlyHandler
<1>2. Answers(req) = {[page |-> f, params |-> params] : params \in Parameters(f, PathTokens(req))}
  BY <1>1 DEF Answers
<1>3. Answers(req) # {}
  <2>1. Parameters(f, PathTokens(req)) # {}
    BY <1>1, ParametersAre
  <2> QED BY <1>2, <2>1
<1>4. ASSUME NEW answer \in Answers(req), NEW s \in DOMAIN answer.params
      PROVE  \E i \in DOMAIN req.tokens : Tokens(f)[i] = s /\ answer.params[s] = req.tokens[i]
  <2>1. answer.params \in Parameters(f, PathTokens(req))
    BY <1>2
  <2>2. s \in Placeholders
        /\ \E i \in DOMAIN PathTokens(req) : Tokens(f)[i] = s /\ answer.params[s] = PathTokens(req)[i]
    BY <1>1, <1>4, <2>1, ParametersAre
  <2>3. CASE IsRoot(f)
    <3>1. PICK i \in DOMAIN PathTokens(req) : Tokens(f)[i] = s
      BY <2>2
    <3>2. req.tokens = <<>>
      BY <2>3 DEF IsServed, Root
    <3>3. PathTokens(req) = <<Empty>> /\ Tokens(f) = <<Empty>>
      BY <2>3, <3>2, RequestIs DEF IsRoot
    <3>4. DOMAIN PathTokens(req) = 1..1 /\ Tokens(f)[1] = Empty
      BY <3>3, RootIs
    <3>5. s = Empty
      <4>1. i = 1
        BY <3>1, <3>4
      <4> QED BY <3>1, <3>4, <4>1
    <3> QED BY <2>2, <3>5, TokensAre
  <2>4. CASE ~IsRoot(f)
    <3>1. req.tokens # <<>>
      <4>1. Len(req.tokens) = Len(Tokens(f)) /\ Len(Tokens(f)) # 0
        BY <2>4, TokensAre DEF IsServed, IsAddressOf
      <4> QED BY <4>1
    <3> QED BY <2>2, <3>1 DEF PathTokens
  <2> QED BY <2>3, <2>4
<1>5. \A answer \in Answers(req) : answer.page = f
  BY <1>2
<1> QED BY <1>3, <1>4, <1>5

LEMMA NothingElse ==
  ASSUME site \subseteq Files
  PROVE  NothingElseIsServed
<1> SUFFICES ASSUME NEW req \in Requests, NEW answer \in Answers(req)
             PROVE  \/ IsAddressOf(req, answer.page)
                    \/ IsRoot(answer.page) /\ Len(PathTokens(req)) = 1
                    \/ /\ req = Root
                       /\ \E s \in Placeholders : /\ Tokens(answer.page) = <<s>>
                                                  /\ answer.params = [name \in {s} |-> Empty]
  BY DEF NothingElseIsServed
<1>0. PICK f \in Handlers(req) :
        \E params \in Parameters(f, PathTokens(req)) : answer = [page |-> f, params |-> params]
  BY DEF Answers
<1>1. PICK params \in Parameters(f, PathTokens(req)) : answer = [page |-> f, params |-> params]
  BY <1>0
<1>2. /\ answer.page = f /\ answer.params = params
      /\ f \in site /\ f \in Files /\ Matches(f, PathTokens(req))
  BY <1>0, <1>1 DEF Handlers
<1>3. Len(PathTokens(req)) = Len(Tokens(f))
  BY <1>2, MatchIs DEF Matches
<1>4. CASE IsRoot(f)
  <2>1. Len(Tokens(f)) = 1
    BY <1>4, RootIs DEF IsRoot
  <2> QED BY <1>2, <1>3, <1>4, <2>1
<1>5. CASE ~IsRoot(f) /\ req.tokens = <<>>
  <2>1. req = Root /\ PathTokens(req) = <<Empty>>
    BY <1>5, RequestIs
  <2>2. PICK tokens \in Seq(Strings), t \in Seq(Strings) :
          /\ tokens = PathTokens(req) /\ t = Tokens(f)
          /\ Len(t) = 1 /\ DOMAIN t = 1..1 /\ DOMAIN tokens = 1..1 /\ tokens[1] = Empty
    <3>1. /\ PathTokens(req) \in Seq(Strings) /\ Len(PathTokens(req)) = 1
          /\ DOMAIN PathTokens(req) = 1..1 /\ PathTokens(req)[1] = Empty
      BY <2>1, RootIs
    <3>2. Tokens(f) \in Seq(Strings) /\ Len(Tokens(f)) = 1
      BY <1>2, <1>3, <3>1, TokensInStrings
    <3> QED BY <3>1, <3>2, DomainIs
  <2>3. t[1] \in Placeholders
    <3>1. Match(f)[1] = Empty
      BY <1>2, <2>2 DEF Matches
    <3>2. Match(f)[1] = IF t[1] \in Placeholders THEN Empty ELSE t[1]
      BY <1>2, <2>2, MatchIs
    <3>3. t[1] # Empty
      BY <1>2, <1>5, <2>2, TokensAre DEF IsRoot
    <3> QED BY <3>1, <3>2, <3>3
  <2>4. t = <<t[1]>>
    BY <2>2
  <2>5. params = [name \in {t[1]} |-> Empty]
    <3> DEFINE at(s) == {i \in DOMAIN t : t[i] = s}
               names == {s \in Placeholders : at(s) # {}}
    <3>1. /\ params \in [names -> ToSet(tokens)]
          /\ \A s \in names : \E i \in at(s) : params[s] = tokens[i]
      BY <2>2, <1>1 DEF Parameters
    <3>2. names = {t[1]}
      BY <2>2, <2>3
    <3>3. params[t[1]] = Empty
      BY <2>2, <3>1, <3>2
    <3> HIDE DEF names
    <3> QED BY <3>1, <3>2, <3>3
  <2> QED BY <1>2, <2>1, <2>2, <2>3, <2>4, <2>5
<1>6. CASE ~IsRoot(f) /\ req.tokens # <<>>
  <2>1. PathTokens(req) = req.tokens
    BY <1>6, RequestIs
  <2>2. PICK n \in Nat : n = Len(Tokens(f)) /\ DOMAIN req.tokens = 1..n /\ DOMAIN Tokens(f) = 1..n
    BY <1>2, <1>3, <2>1, RequestIs, TokensInStrings, DomainIs
  <2>3. \A i \in 1..n : Match(f)[i] \in {Empty, req.tokens[i]}
    BY <1>2, <2>1, <2>2 DEF Matches
  <2>4. \A i \in 1..n : Match(f)[i] = IF Tokens(f)[i] \in Placeholders THEN Empty ELSE Tokens(f)[i]
    BY <1>2, <2>2, MatchIs
  <2>5. \A i \in 1..n : Tokens(f)[i] # Empty
    BY <1>2, <1>6, <2>2, TokensAre DEF IsRoot
  <2>6. \A i \in 1..n : Tokens(f)[i] \in Placeholders \cup {req.tokens[i]}
    BY <2>3, <2>4, <2>5
  <2> QED BY <1>2, <1>3, <2>1, <2>2, <2>6 DEF IsAddressOf
<1> QED BY <1>4, <1>5, <1>6


(* Whatever pages are added, and in whatever order: as long as no two of them   *)
(* compete for a request, each is served at the addresses its file names, with  *)
(* the parameters its placeholders stand for; and on any site what is served is *)
(* a page that has the address, but for the two exceptions of the empty token   *)
(* (addHandlers, ServeMux, patternMux).                                         *)
THEOREM PagesAnswer == PagesSpec => []PagesAnswerTheirPaths
<1>1. PagesInit => site \subseteq Files
  BY DEF PagesInit
<1>2. site \subseteq Files /\ [AddPage]_site => (site \subseteq Files)'
  BY DEF AddPage
<1>3. site \subseteq Files => PagesAnswerTheirPaths
  BY ServedPages, NothingElse DEF PagesAnswerTheirPaths
<1> QED BY <1>1, <1>2, <1>3, PTL DEF PagesSpec

-----------------------------------------------------------------------------
(* KubeJson.  What a text is, by the grammar of JSON: IsJson chooses a function *)
(* that satisfies the rules, and this section shows that there is one.          *)

Texts == Seq(Lexemes)

\* What text is, part by part, as a function to be solved for.
Solves(text, json) ==
  json = [part \in Parts(text) |-> Derives(text, json, part[1], part[2], part[3])]

\* A function that holds of these parts.
HoldsOf(text, S) == [part \in Parts(text) |-> part \in S]

Closed(text, S) ==
  \A what \in {"value", "elements", "members"}, i, j \in 1..Len(text) :
    Derives(text, HoldsOf(text, S), what, i, j) => <<what, i, j>> \in S

LEMMA DerivesMore ==
  ASSUME NEW text \in Texts, NEW S \in SUBSET Parts(text), NEW T \in SUBSET Parts(text), S \subseteq T,
         NEW what \in {"value", "elements", "members"}, NEW i \in 1..Len(text), NEW j \in 1..Len(text),
         Derives(text, HoldsOf(text, S), what, i, j)
  PROVE  Derives(text, HoldsOf(text, T), what, i, j)
<1>1. \A w \in {"value", "elements", "members"}, k, l \in Nat :
        k \in 1..Len(text) /\ l \in 1..Len(text) /\ HoldsOf(text, S)[<<w, k, l>>]
        => HoldsOf(text, T)[<<w, k, l>>]
  BY DEF HoldsOf, Parts
<1>2. Len(text) \in Nat
  BY DEF Texts
<1>3. \A k \in 1..Len(text) : k \in Nat
  BY <1>2
<1> DEFINE f == HoldsOf(text, S)
           g == HoldsOf(text, T)
<1>4. \A w \in {"value", "elements", "members"}, k, l \in 1..Len(text) : f[<<w, k, l>>] => g[<<w, k, l>>]
  BY <1>1, <1>2
<1>5. Derives(text, f, what, i, j)
  OBVIOUS
<1> HIDE DEF f, g
<1> SUFFICES Derives(text, g, what, i, j)
  BY DEF f, g
<1>6. CASE what = "value"
  BY <1>2, <1>4, <1>5, <1>6 DEF Derives
<1>7. CASE what = "elements"
  <2>1. CASE f[<<"value", i, j>>]
    <3>1. g[<<"value", i, j>>]
      BY <1>4, <2>1
    <3> QED BY <1>7, <3>1 DEF Derives
  <2>2. CASE ~f[<<"value", i, j>>]
    <3>1. PICK k \in {k \in (i + 1)..(j - 1) : text[k].kind = "comma"} :
            f[<<"elements", i, k - 1>>] /\ f[<<"value", k + 1, j>>]
      BY <1>5, <1>7, <2>2 DEF Derives
    <3>2. k - 1 \in 1..Len(text) /\ k + 1 \in 1..Len(text)
      BY <1>2, <3>1
    <3>3. g[<<"elements", i, k - 1>>] /\ g[<<"value", k + 1, j>>]
      BY <1>4, <3>1, <3>2
    <3> QED BY <1>7, <3>1, <3>3 DEF Derives
  <2> QED BY <2>1, <2>2
<1>8. CASE what = "members"
  <2> DEFINE member(h, k, l) ==
        k + 2 <= l /\ text[k].kind = "String" /\ text[k + 1].kind = "colon" /\ h[<<"value", k + 2, l>>]
  <2>1. CASE member(f, i, j)
    <3>1. i + 2 \in 1..Len(text)
      BY <1>2, <2>1
    <3>2. member(g, i, j)
      BY <1>4, <2>1, <3>1
    <3> QED BY <1>8, <3>2 DEF Derives
  <2>2. CASE ~member(f, i, j)
    <3>1. PICK k \in {k \in (i + 1)..(j - 1) : text[k].kind = "comma"} :
            f[<<"members", i, k - 1>>] /\ member(f, k + 1, j)
      BY <1>5, <1>8, <2>2 DEF Derives
    <3>2. k - 1 \in 1..Len(text) /\ k + 3 \in 1..Len(text) /\ k + 3 = (k + 1) + 2
      BY <1>2, <3>1
    <3>3. g[<<"members", i, k - 1>>] /\ member(g, k + 1, j)
      BY <1>4, <3>1, <3>2
    <3> QED BY <1>8, <3>1, <3>3 DEF Derives
  <2> QED BY <2>1, <2>2
<1> QED BY <1>6, <1>7, <1>8

LEMMA PartsAre ==
  ASSUME NEW text \in Texts, NEW part \in Parts(text)
  PROVE  /\ part[1] \in {"value", "elements", "members"}
         /\ part[2] \in 1..Len(text) /\ part[3] \in 1..Len(text)
         /\ part = <<part[1], part[2], part[3]>>
BY DEF Parts

\* The grammar says of every text what its parts are: the least sets that are
\* closed under it.
LEMMA TextsAreSolved ==
  ASSUME NEW text \in Texts
  PROVE  \E json : Solves(text, json)
<1> DEFINE Least == {part \in Parts(text) : \A S \in SUBSET Parts(text) : Closed(text, S) => part \in S}
           Derived == {part \in Parts(text) : Derives(text, HoldsOf(text, Least), part[1], part[2], part[3])}
<1>1. Least \in SUBSET Parts(text) /\ Derived \in SUBSET Parts(text)
  OBVIOUS
<1>2. ASSUME NEW part \in Derived
      PROVE  part \in Least
  <2>1. part \in Parts(text) /\ Derives(text, HoldsOf(text, Least), part[1], part[2], part[3])
    OBVIOUS
  <2>2. SUFFICES ASSUME NEW S \in SUBSET Parts(text), Closed(text, S)
                 PROVE  part \in S
    BY <2>1
  <2>3. Least \subseteq S
    BY <2>2
  <2> HIDE DEF Least, Derived
  <2>4. Derives(text, HoldsOf(text, S), part[1], part[2], part[3])
    BY <1>1, <2>1, <2>3, PartsAre, DerivesMore
  <2>5. <<part[1], part[2], part[3]>> \in S
    BY <2>1, <2>2, <2>4, PartsAre DEF Closed
  <2> QED BY <2>1, <2>5, PartsAre
<1>3. Closed(text, Derived)
  <2> SUFFICES ASSUME NEW what \in {"value", "elements", "members"}, NEW i \in 1..Len(text), NEW j \in 1..Len(text),
                      Derives(text, HoldsOf(text, Derived), what, i, j)
               PROVE  <<what, i, j>> \in Derived
    BY DEF Closed
  <2>1. Derived \subseteq Least
    BY <1>2
  <2>2. Derives(text, HoldsOf(text, Least), what, i, j)
    <3> HIDE DEF Least, Derived
    <3> QED BY <1>1, <2>1, DerivesMore
  <2>3. <<what, i, j>> \in Parts(text)
    BY DEF Parts
  <2> HIDE DEF Least
  <2> QED BY <2>2, <2>3
<1>4. ASSUME NEW part \in Least
      PROVE  part \in Derived
  BY <1>1, <1>3
<1>5. \A part \in Parts(text) :
        (part \in Least) <=> Derives(text, HoldsOf(text, Least), part[1], part[2], part[3])
  <2> HIDE DEF Least
  <2> QED BY <1>1, <1>2, <1>4
<1> HIDE DEF Least, Derived
<1>6. \A part \in Parts(text) : Derives(text, HoldsOf(text, Least), part[1], part[2], part[3]) \in BOOLEAN
  BY DEF Derives
<1>7. \A part \in Parts(text) :
        (part \in Least) = Derives(text, HoldsOf(text, Least), part[1], part[2], part[3])
  <2> TAKE part \in Parts(text)
  <2> DEFINE d == Derives(text, HoldsOf(text, Least), part[1], part[2], part[3])
             l == part \in Least
  <2>1. d \in BOOLEAN /\ l \in BOOLEAN /\ (l <=> d)
    BY <1>5, <1>6
  <2> HIDE DEF d, l
  <2>2. l = d
    BY <2>1
  <2> QED BY <2>2 DEF d, l
<1>8. Solves(text, HoldsOf(text, Least))
  <2> DEFINE d(part) == Derives(text, HoldsOf(text, Least), part[1], part[2], part[3])
  <2>1. \A part \in Parts(text) : (part \in Least) = d(part)
    BY <1>7
  <2> HIDE DEF d
  <2>2. [part \in Parts(text) |-> part \in Least] = [part \in Parts(text) |-> d(part)]
    BY <2>1, Zenon
  <2> QED BY <2>2, Zenon DEF Solves, HoldsOf, d
<1> QED BY <1>8

Json(text) == CHOOSE json : Solves(text, json)

LEMMA JsonIs ==
  ASSUME NEW text \in Texts
  PROVE  /\ IsJson(text) <=> text # <<>> /\ Json(text)[<<"value", 1, Len(text)>>]
         /\ \A what \in {"value", "elements", "members"}, i, j \in 1..Len(text) :
              Json(text)[<<what, i, j>>] <=> Derives(text, Json(text), what, i, j)
<1>1. Solves(text, Json(text))
  BY TextsAreSolved DEF Json
<1>2. ASSUME NEW what \in {"value", "elements", "members"}, NEW i \in 1..Len(text), NEW j \in 1..Len(text)
      PROVE  Json(text)[<<what, i, j>>] <=> Derives(text, Json(text), what, i, j)
  <2>1. <<what, i, j>> \in Parts(text)
    BY DEF Parts
  <2> DEFINE part == <<what, i, j>>
  <2>2. part[1] = what /\ part[2] = i /\ part[3] = j /\ part \in Parts(text)
    BY <2>1
  <2> HIDE DEF part
  <2>3. Json(text)[part] = Derives(text, Json(text), part[1], part[2], part[3])
    BY <1>1, <2>2 DEF Solves
  <2> QED BY <2>2, <2>3 DEF part
<1>3. IsJson(text) <=> text # <<>> /\ Json(text)[<<"value", 1, Len(text)>>]
  BY DEF IsJson, Json, Solves
<1> QED BY <1>2, <1>3

-----------------------------------------------------------------------------
(* The rules of the grammar, as the reader meets them.                        *)

Value(text, i, j) == Json(text)[<<"value", i, j>>]

\* What is inside of what is opened.
Inside(text, open, i, j) == Json(text)[<<IF open = "ArrayOpen" THEN "elements" ELSE "members", i, j>>]

CloseOf(open) == IF open = "ArrayOpen" THEN "ArrayClose" ELSE "ObjectClose"

\* Of what was opened at a, the text to b is such that a value comes next.
Ready(text, open, a, b) ==
  /\ open = "ArrayOpen" =>
       b = a \/ (a + 2 <= b /\ text[b].kind = "comma" /\ Inside(text, open, a + 1, b - 1))
  /\ open = "ObjectOpen" =>
       /\ a + 2 <= b /\ text[b].kind = "colon" /\ text[b - 1].kind = "String"
       /\ b = a + 2 \/ (a + 4 <= b /\ text[b - 2].kind = "comma" /\ Inside(text, open, a + 1, b - 3))

LEMMA ScalarIsValue ==
  ASSUME NEW text \in Texts, NEW i \in 1..Len(text), text[i].kind \in Scalars
  PROVE  Value(text, i, i)
<1>1. Derives(text, Json(text), "value", i, i)
  BY DEF Derives
<1> QED BY <1>1, JsonIs DEF Value

LEMMA ClosedIsValue ==
  ASSUME NEW text \in Texts, NEW open \in Opens, NEW a \in 1..Len(text), NEW b \in 1..Len(text), a < b,
         text[a].kind = open, text[b].kind = CloseOf(open), b = a + 1 \/ Inside(text, open, a + 1, b - 1)
  PROVE  Value(text, a, b)
<1>1. CASE open = "ArrayOpen"
  <2>1. Derives(text, Json(text), "value", a, b)
    BY <1>1 DEF Derives, CloseOf, Inside
  <2> QED BY <2>1, JsonIs DEF Value
<1>2. CASE open = "ObjectOpen"
  <2>1. Derives(text, Json(text), "value", a, b)
    BY <1>2 DEF Derives, CloseOf, Inside
  <2> QED BY <2>1, JsonIs DEF Value
<1> QED BY <1>1, <1>2 DEF Opens

LEMMA ValueIsInside ==
  ASSUME NEW text \in Texts, NEW open \in Opens, NEW a \in 1..Len(text), NEW b \in a..Len(text),
         NEW c \in 1..Len(text), b < c, Ready(text, open, a, b), Value(text, b + 1, c)
  PROVE  Inside(text, open, a + 1, c)
<1>1. Len(text) \in Nat /\ a \in Int /\ b \in Int /\ c \in Int /\ a + 1 \in 1..Len(text)
  BY DEF Texts
<1>2. CASE open = "ArrayOpen" /\ b = a
  <2>1. Derives(text, Json(text), "elements", a + 1, c)
    BY <1>2 DEF Derives, Value
  <2> QED BY <1>1, <1>2, <2>1, JsonIs DEF Inside
<1>3. CASE open = "ArrayOpen" /\ b # a
  <2>1. a + 2 <= b /\ text[b].kind = "comma" /\ Json(text)[<<"elements", a + 1, b - 1>>]
    BY <1>3 DEF Ready, Inside
  <2>2. b \in {k \in (a + 1 + 1)..(c - 1) : text[k].kind = "comma"}
    BY <1>1, <2>1
  <2>3. Derives(text, Json(text), "elements", a + 1, c)
    BY <2>1, <2>2 DEF Derives, Value
  <2> QED BY <1>1, <1>3, <2>3, JsonIs DEF Inside
<1>4. CASE open = "ObjectOpen" /\ b = a + 2
  <2>1. text[a + 1].kind = "String" /\ text[a + 1 + 1].kind = "colon" /\ a + 1 + 2 <= c
        /\ a + 1 + 2 = b + 1
    BY <1>1, <1>4 DEF Ready
  <2>2. Derives(text, Json(text), "members", a + 1, c)
    BY <2>1 DEF Derives, Value
  <2> QED BY <1>1, <1>4, <2>2, JsonIs DEF Inside
<1>5. CASE open = "ObjectOpen" /\ b # a + 2
  <2> DEFINE k == b - 2
  <2>1. a + 4 <= b /\ text[k].kind = "comma" /\ Json(text)[<<"members", a + 1, k - 1>>]
        /\ text[k + 1].kind = "String" /\ text[k + 1 + 1].kind = "colon" /\ k + 1 + 2 <= c
        /\ Json(text)[<<"value", k + 1 + 2, c>>]
    BY <1>1, <1>5 DEF Ready, Inside, Value
  <2>2. k \in {l \in (a + 1 + 1)..(c - 1) : text[l].kind = "comma"}
    <3>1. k \in (a + 1 + 1)..(c - 1)
      BY <1>1, <2>1
    <3> HIDE DEF k
    <3> QED BY <2>1, <3>1
  <2> HIDE DEF k
  <2>3. Derives(text, Json(text), "members", a + 1, c)
    BY <2>1, <2>2 DEF Derives
  <2> QED BY <1>1, <1>5, <2>3, JsonIs DEF Inside
<1> QED BY <1>2, <1>3, <1>4, <1>5 DEF Opens

-----------------------------------------------------------------------------
(* What the reader has read.                                                  *)

\* Of what was opened at a, what has been read to q, the last of it being last.
TopIs(text, open, a, q, last) ==
  \/ last = open /\ q = a
  \/ last = "comma" /\ a + 2 <= q /\ text[q].kind = "comma" /\ Inside(text, open, a + 1, q - 1)
  \/ last = "Name" /\ open = "ObjectOpen" /\ Ready(text, open, a, q)
  \/ last \in Scalars \cup Closes /\ a < q /\ Inside(text, open, a + 1, q)

\* What is open was opened at o, one inside of the other.
OpenedAt(text, q, stack, o) ==
  /\ \A k \in 1..Len(stack) : o[k] \in 1..q /\ text[o[k]].kind = stack[k]
  /\ stack # <<>> => o[1] = 1
  /\ \A k, l \in 1..Len(stack) : k < l => o[k] < o[l]
  /\ \A k \in 1..(Len(stack) - 1) : Ready(text, stack[k], o[k], o[k + 1] - 1)

\* The text to q has been read, the last of it being last.
ReadTo(text, q, stack, last) ==
  /\ stack = <<>> =>
       \/ last = "none" /\ q = 0
       \/ last \in Scalars \cup Closes /\ q > 0 /\ Value(text, 1, q)
       \/ last = "EOF" /\ q = Len(text) /\ (q = 0 \/ Value(text, 1, q))
  /\ stack # <<>> =>
       \E o : OpenedAt(text, q, stack, o) /\ TopIs(text, stack[Len(stack)], o[Len(stack)], q, last)

TokenKinds == Scalars \cup Opens \cup Closes \cup {"comma", "colon", "invalid", "none", "EOF", "Name"}

\* What is left of a text.
LeftOf(text, in) ==
  Len(in) <= Len(text) /\ \A i \in 1..Len(in) : in[i] = text[Len(text) - Len(in) + i]

DecoderType(d) ==
  /\ d \in [orig : {d.orig}, in : {d.in}, lastCall : {d.lastCall}, last : {d.last}, lastOk : {d.lastOk},
            stack : {d.stack}]
  /\ d.orig \in Texts /\ d.in \in Texts /\ d.lastCall \in {"Read", "Peek"} /\ d.last.kind \in TokenKinds
  /\ d.lastOk \in BOOLEAN /\ d.stack \in Seq(Opens)
  /\ LeftOf(d.orig, d.in)

Position(d) == Len(d.orig) - Len(d.in)

Good(d) == NamesHaveValues(d.orig) => ReadTo(d.orig, Position(d), d.stack, d.last.kind)

\* The token that comes next, and where it ends.
LEMMA NextToken ==
  ASSUME NEW d, DecoderType(d), NEW next, next = ParseNext(d)
  PROVE  /\ next.tok.kind \in TokenKinds \ {"none"} /\ next.in \in Texts
         /\ Len(next.in) <= Len(d.in) /\ LeftOf(d.orig, next.in)
         /\ next.tok.kind = "EOF" => d.in = <<>> /\ next.in = <<>>
         /\ next.tok.kind = "Name" =>
              /\ Len(next.in) = Len(d.in) - 2 /\ ~IsValueNext(d)
              /\ d.orig[Position(d) + 1].kind = "String" /\ d.orig[Position(d) + 2].kind = "colon"
         /\ next.tok.kind \notin {"EOF", "Name"} =>
              Len(next.in) = Len(d.in) - 1 /\ d.orig[Position(d) + 1].kind = next.tok.kind
<1>a. /\ d.orig \in Texts /\ d.in \in Texts /\ Len(d.in) <= Len(d.orig)
      /\ \A i \in 1..Len(d.in) : d.in[i] = d.orig[Len(d.orig) - Len(d.in) + i]
  BY DEF DecoderType, LeftOf
<1>1. CASE d.in = <<>>
  <2>1. next = [tok |-> Symbol("EOF"), in |-> <<>>]
    BY <1>1 DEF ParseNext
  <2>2. next.tok = Symbol("EOF") /\ next.in = d.in
    BY <1>1, <2>1
  <2>3. next.tok.kind = "EOF" /\ next.tok.kind \in TokenKinds \ {"none"}
    <3>1. Symbol("EOF").kind = "EOF"
      BY DEF Symbol, Lexeme
    <3> QED BY <2>2, <3>1 DEF TokenKinds
  <2>4. Len(d.in) = 0
    BY <1>1
  <2> QED BY <1>a, <1>1, <2>2, <2>3, <2>4 DEF LeftOf
<1>b. PICK n \in Nat, N \in Nat : n = Len(d.in) /\ N = Len(d.orig) /\ n <= N
  BY <1>a DEF Texts
<1>c. Position(d) = N - n /\ \A i \in 1..n : d.in[i] = d.orig[N - n + i]
  BY <1>a, <1>b DEF Position
<1>2. CASE d.in # <<>>
  <2> DEFINE rest == Tail(d.in)
  <2>1. /\ Head(d.in) = d.in[1] /\ d.in[1] \in Lexemes /\ rest \in Texts
        /\ \A i \in 1..Len(rest) : rest[i] = d.in[i + 1]
    BY <1>a, <1>2 DEF Texts
  <2>l. Len(rest) = n - 1 /\ n >= 1
    BY <1>a, <1>b, <1>2 DEF Texts
  <2> HIDE DEF rest
  <2>2. d.in[1] = d.orig[Position(d) + 1]
    BY <1>c, <2>l
  <2>3. \A i \in 1..(n - 1) : rest[i] = d.orig[N - (n - 1) + i]
    <3> TAKE i \in 1..(n - 1)
    <3>1. i + 1 \in 1..n /\ N - n + (i + 1) = N - (n - 1) + i
      BY <2>l
    <3> QED BY <1>c, <2>1, <2>l, <3>1
  <2>4. CASE Head(d.in).kind = "String" /\ ~IsValueNext(d) /\ rest # <<>> /\ Head(rest).kind = "colon"
    <3>1. next = [tok |-> Lexeme("Name", Head(d.in).val), in |-> Tail(rest)]
      BY <1>2, <2>4 DEF ParseNext, rest
    <3>2. /\ Head(rest) = rest[1] /\ Tail(rest) \in Texts
          /\ \A i \in 1..Len(Tail(rest)) : Tail(rest)[i] = rest[i + 1]
      BY <2>1, <2>4 DEF Texts
    <3>l. Len(Tail(rest)) = n - 2 /\ n >= 2
      BY <2>1, <2>4, <2>l DEF Texts
    <3>3. \A i \in 1..(n - 2) : Tail(rest)[i] = d.orig[N - (n - 2) + i]
      <4> TAKE i \in 1..(n - 2)
      <4>1. i + 1 \in 1..(n - 1) /\ N - (n - 1) + (i + 1) = N - (n - 2) + i
        BY <3>l
      <4> QED BY <2>3, <3>2, <3>l, <4>1
    <3>4. d.orig[Position(d) + 2].kind = "colon"
      <4>1. 1 \in 1..(n - 1) /\ N - (n - 1) + 1 = N - n + 2
        BY <3>l
      <4> QED BY <1>c, <2>3, <2>4, <3>2, <4>1
    <3>5. next.tok.kind = "Name" /\ next.in = Tail(rest)
      BY <3>1 DEF Lexeme
    <3>6. d.orig[Position(d) + 1].kind = "String"
      BY <2>1, <2>2, <2>4
    <3>7. "Name" \in TokenKinds \ {"none"}
      BY DEF TokenKinds
    <3>8. Len(next.in) = n - 2 /\ n - 2 <= n
      BY <3>l, <3>5
    <3>9. LeftOf(d.orig, next.in)
      <4>1. n - 2 <= N
        BY <1>b
      <4> QED BY <1>b, <3>3, <3>5, <3>8, <4>1 DEF LeftOf
    <3> QED BY <1>a, <1>b, <2>4, <3>2, <3>9, <3>3, <3>4, <3>5, <3>6, <3>7, <3>8
  <2>5. CASE ~(Head(d.in).kind = "String" /\ ~IsValueNext(d) /\ rest # <<>> /\ Head(rest).kind = "colon")
    <3>1. next = [tok |-> Head(d.in), in |-> rest]
      BY <1>2, <2>5 DEF ParseNext, rest
    <3>2. next.tok = d.in[1] /\ next.in = rest
      BY <2>1, <3>1
    <3>3. d.in[1].kind \in Scalars \cup Opens \cup Closes \cup {"comma", "colon", "invalid"}
      BY <2>1 DEF Lexemes
    <3>4. next.tok.kind \in TokenKinds \ {"none", "EOF", "Name"}
      BY <3>2, <3>3 DEF TokenKinds, Scalars, Opens, Closes
    <3>5. Len(next.in) = n - 1 /\ n - 1 <= n
      BY <2>l, <3>2
    <3>6. LeftOf(d.orig, next.in)
      <4>1. n - 1 <= N
        BY <1>b
      <4> QED BY <1>b, <2>3, <3>2, <3>5, <4>1 DEF LeftOf
    <3> QED BY <1>b, <2>1, <2>2, <3>2, <3>4, <3>5, <3>6
  <2> QED BY <2>4, <2>5
<1> QED BY <1>1, <1>2

ValueNext(stack, last) ==
  /\ stack = <<>> => last = "none"
  /\ stack # <<>> /\ stack[Len(stack)] = "ObjectOpen" => last = "Name"
  /\ stack # <<>> /\ stack[Len(stack)] = "ArrayOpen" => last \in {"ArrayOpen", "comma"}

LEMMA TopIsReady ==
  ASSUME NEW text \in Texts, NEW open \in Opens, NEW a \in Nat, NEW q \in Nat, NEW last,
         TopIs(text, open, a, q, last),
         open = "ObjectOpen" => last = "Name", open = "ArrayOpen" => last \in {"ArrayOpen", "comma"}
  PROVE  Ready(text, open, a, q)
BY DEF TopIs, Ready, Opens, Scalars, Closes

LEMMA LevelsStay ==
  ASSUME NEW text \in Texts, NEW q \in Nat, NEW r \in Nat, q <= r, NEW stack \in Seq(Opens), NEW o,
         OpenedAt(text, q, stack, o)
  PROVE  OpenedAt(text, r, stack, o)
BY DEF OpenedAt

\* A value ends at c in what is open.
LEMMA ValueEnds ==
  ASSUME NEW text \in Texts, NEW stack \in Seq(Opens), stack # <<>>, NEW o, NEW b \in 1..Len(text),
         OpenedAt(text, b, stack, o), Ready(text, stack[Len(stack)], o[Len(stack)], b),
         NEW c \in 1..Len(text), b < c, Value(text, b + 1, c), NEW kind \in Scalars \cup Closes
  PROVE  ReadTo(text, c, stack, kind)
<1>1. PICK n \in Nat : n = Len(stack) /\ n >= 1
  OBVIOUS
<1>2. PICK N \in Nat : N = Len(text)
  BY DEF Texts
<1>3. n \in 1..n /\ stack[n] \in Opens
  BY <1>1
<1>4. o[n] \in 1..b
  BY <1>1, <1>3 DEF OpenedAt
<1>5. PICK a \in Nat : a = o[n] /\ a >= 1 /\ a <= b
  BY <1>2, <1>4
<1>6. a \in 1..Len(text) /\ b \in a..Len(text)
  BY <1>2, <1>5
<1>7. Inside(text, stack[n], a + 1, c)
  BY <1>1, <1>3, <1>5, <1>6, ValueIsInside
<1>8. b \in Nat /\ c \in Nat
  BY <1>2
<1>9. TopIs(text, stack[n], o[n], c, kind)
  BY <1>5, <1>7, <1>8 DEF TopIs
<1>10. OpenedAt(text, c, stack, o)
  BY <1>8, LevelsStay
<1> QED BY <1>1, <1>9, <1>10 DEF ReadTo

LEMMA ReadsScalar ==
  ASSUME NEW text \in Texts, NEW q \in Nat, q + 1 <= Len(text), NEW stack \in Seq(Opens), NEW last,
         ReadTo(text, q, stack, last), ValueNext(stack, last),
         text[q + 1].kind \in Scalars, NEW kind \in Scalars
  PROVE  ReadTo(text, q + 1, stack, kind)
<1>1. PICK N \in Nat : N = Len(text)
  BY DEF Texts
<1>2. q + 1 \in 1..Len(text)
  BY <1>1
<1>3. Value(text, q + 1, q + 1)
  BY <1>2, ScalarIsValue
<1>4. CASE stack = <<>>
  <2>1. last = "none"
    BY <1>4 DEF ValueNext
  <2>2. q = 0
    BY <1>4, <2>1 DEF ReadTo, Scalars, Closes
  <2> QED BY <1>3, <1>4, <2>2 DEF ReadTo
<1>5. CASE stack # <<>>
  <2>1. PICK o : OpenedAt(text, q, stack, o) /\ TopIs(text, stack[Len(stack)], o[Len(stack)], q, last)
    BY <1>5 DEF ReadTo
  <2>2. PICK n \in Nat : n = Len(stack) /\ n >= 1
    BY <1>5
  <2>3. stack[n] \in Opens /\ n \in 1..n
    BY <2>2
  <2>4. o[n] \in 1..q
    BY <2>1, <2>2, <2>3 DEF OpenedAt
  <2>5. o[n] \in Nat /\ q >= 1
    BY <2>4
  <2>6. Ready(text, stack[n], o[n], q)
    BY <1>5, <2>1, <2>2, <2>3, <2>5, TopIsReady DEF ValueNext
  <2>7. q \in 1..Len(text) /\ q < q + 1
    BY <1>1, <2>5
  <2> QED BY <1>2, <1>3, <1>5, <2>1, <2>2, <2>6, <2>7, ValueEnds
<1> QED BY <1>4, <1>5

LEMMA ReadsOpen ==
  ASSUME NEW text \in Texts, NEW q \in Nat, q + 1 <= Len(text), NEW stack \in Seq(Opens), NEW last,
         ReadTo(text, q, stack, last), ValueNext(stack, last),
         NEW kind \in Opens, text[q + 1].kind = kind
  PROVE  ReadTo(text, q + 1, Append(stack, kind), kind)
<1>1. PICK n \in Nat : n = Len(stack)
  OBVIOUS
<1>2. /\ Append(stack, kind) # <<>> /\ Len(Append(stack, kind)) = n + 1
      /\ Append(stack, kind)[n + 1] = kind /\ \A k \in 1..n : Append(stack, kind)[k] = stack[k]
  BY <1>1
<1>3. CASE stack = <<>>
  <2>1. q = 0
    BY <1>3 DEF ValueNext, ReadTo, Scalars, Closes
  <2> DEFINE o == [k \in 1..1 |-> 1]
  <2>2. n = 0
    BY <1>1, <1>3
  <2>3. OpenedAt(text, q + 1, Append(stack, kind), o)
    BY <1>2, <2>1, <2>2 DEF OpenedAt
  <2>4. TopIs(text, kind, o[n + 1], q + 1, kind)
    BY <2>1, <2>2 DEF TopIs
  <2> HIDE DEF o
  <2> QED BY <1>2, <2>3, <2>4 DEF ReadTo
<1>4. CASE stack # <<>>
  <2>1. PICK p : OpenedAt(text, q, stack, p) /\ TopIs(text, stack[n], p[n], q, last)
    BY <1>1, <1>4 DEF ReadTo
  <2>2. n >= 1 /\ n \in 1..n /\ stack[n] \in Opens
    BY <1>1, <1>4
  <2>3. p[n] \in 1..q
    BY <1>1, <2>1, <2>2 DEF OpenedAt
  <2>4. Ready(text, stack[n], p[n], q)
    BY <1>1, <1>4, <2>1, <2>2, <2>3, TopIsReady DEF ValueNext
  <2> DEFINE o == [k \in 1..(n + 1) |-> IF k = n + 1 THEN q + 1 ELSE p[k]]
  <2>5. o[n + 1] = q + 1 /\ \A k \in 1..n : o[k] = p[k]
    OBVIOUS
  <2> HIDE DEF o
  <2>6. OpenedAt(text, q + 1, Append(stack, kind), o)
    <3>1. ASSUME NEW k \in 1..(n + 1)
          PROVE  o[k] \in 1..(q + 1) /\ text[o[k]].kind = Append(stack, kind)[k]
      <4>1. CASE k = n + 1
        BY <1>2, <2>5, <4>1
      <4>2. CASE k # n + 1
        <5>1. k \in 1..n
          BY <4>2
        <5>2. p[k] \in 1..q /\ text[p[k]].kind = stack[k]
          BY <1>1, <2>1, <5>1 DEF OpenedAt
        <5> QED BY <1>2, <2>5, <5>1, <5>2
      <4> QED BY <4>1, <4>2
    <3>2. o[1] = 1
      BY <1>1, <1>4, <2>1, <2>2, <2>5 DEF OpenedAt
    <3>3. ASSUME NEW k \in 1..n
          PROVE  Ready(text, Append(stack, kind)[k], o[k], o[k + 1] - 1)
      <4>1. CASE k = n
        BY <1>2, <2>2, <2>3, <2>4, <2>5, <4>1
      <4>2. CASE k # n
        <5>1. k \in 1..(n - 1) /\ k + 1 \in 1..n
          BY <4>2
        <5>2. Ready(text, stack[k], p[k], p[k + 1] - 1)
          BY <1>1, <2>1, <5>1 DEF OpenedAt
        <5> QED BY <1>2, <2>5, <5>1, <5>2
      <4> QED BY <4>1, <4>2
    <3>4. 1..(Len(Append(stack, kind)) - 1) = 1..n
      BY <1>2
    <3>5. ASSUME NEW k \in 1..(n + 1), NEW l \in 1..(n + 1), k < l
          PROVE  o[k] < o[l]
      <4>1. k \in 1..n /\ p[k] \in 1..q
        <5>1. k \in 1..n
          BY <3>5
        <5> QED BY <1>1, <2>1, <5>1 DEF OpenedAt
      <4>2. CASE l = n + 1
        BY <2>5, <4>1, <4>2
      <4>3. CASE l # n + 1
        <5>1. l \in 1..n
          BY <4>3
        <5>2. p[k] < p[l]
          BY <1>1, <2>1, <3>5, <4>1, <5>1 DEF OpenedAt
        <5> QED BY <2>5, <4>1, <5>1, <5>2
      <4> QED BY <4>2, <4>3
    <3> QED BY <1>2, <3>1, <3>2, <3>3, <3>4, <3>5 DEF OpenedAt
  <2>7. TopIs(text, kind, o[n + 1], q + 1, kind)
    BY <2>5 DEF TopIs
  <2> QED BY <1>2, <2>6, <2>7 DEF ReadTo
<1> QED BY <1>3, <1>4

LEMMA OpenedName ==
  ASSUME NEW text \in Texts, NEW q \in Nat, NEW stack \in Seq(Opens), stack # <<>>, NEW o,
         OpenedAt(text, q, stack, o), stack[Len(stack)] = "ObjectOpen",
         NEW a \in Nat, a = o[Len(stack)], a <= q,
         q = a \/ (a + 2 <= q /\ text[q].kind = "comma" /\ Inside(text, "ObjectOpen", a + 1, q - 1)),
         text[q + 1].kind = "String", text[q + 2].kind = "colon"
  PROVE  ReadTo(text, q + 2, stack, "Name")
<1>1. (q + 2) - 1 = q + 1 /\ (q + 2) - 2 = q /\ (q + 2) - 3 = q - 1 /\ a + 2 <= q + 2
  OBVIOUS
<1>2. Ready(text, "ObjectOpen", a, q + 2)
  BY <1>1 DEF Ready
<1>3. TopIs(text, stack[Len(stack)], o[Len(stack)], q + 2, "Name")
  BY <1>2 DEF TopIs
<1>4. OpenedAt(text, q + 2, stack, o)
  BY LevelsStay
<1> QED BY <1>3, <1>4 DEF ReadTo

LEMMA ReadsName ==
  ASSUME NEW text \in Texts, NEW q \in Nat, q + 2 <= Len(text), NEW stack \in Seq(Opens), NEW last,
         ReadTo(text, q, stack, last), ~ValueNext(stack, last), last \in {"ObjectOpen", "comma"},
         text[q + 1].kind = "String", text[q + 2].kind = "colon"
  PROVE  ReadTo(text, q + 2, stack, "Name")
<1>1. stack # <<>>
  BY DEF ReadTo, Scalars, Closes
<1>2. PICK o : OpenedAt(text, q, stack, o) /\ TopIs(text, stack[Len(stack)], o[Len(stack)], q, last)
  BY <1>1 DEF ReadTo
<1>3. PICK n \in Nat : n = Len(stack) /\ n >= 1
  BY <1>1
<1>4. stack[n] \in Opens /\ n \in 1..n
  BY <1>3
<1>5. PICK a \in Nat : a = o[n] /\ a >= 1 /\ a <= q
  <2>1. o[n] \in 1..q
    BY <1>2, <1>3, <1>4 DEF OpenedAt
  <2> QED BY <2>1
<1>6. stack[n] = "ObjectOpen"
  BY <1>1, <1>2, <1>3, <1>4 DEF ValueNext, TopIs, Scalars, Closes, Opens
<1>7. CASE last = "ObjectOpen"
  <2>1. q = a
    BY <1>2, <1>3, <1>5, <1>7 DEF TopIs, Scalars, Closes
  <2> QED BY <1>1, <1>2, <1>3, <1>5, <1>6, <2>1, LevelsStay, OpenedName
<1>8. CASE last = "comma"
  <2>1. a + 2 <= q /\ text[q].kind = "comma" /\ Inside(text, "ObjectOpen", a + 1, q - 1)
    BY <1>2, <1>3, <1>5, <1>6, <1>8 DEF TopIs, Scalars, Closes
  <2> QED BY <1>1, <1>2, <1>3, <1>5, <1>6, <2>1, OpenedName
<1> QED BY <1>7, <1>8

\* What is open was opened there, and what is inside of it has been read.
LEMMA ReadsComma ==
  ASSUME NEW text \in Texts, NEW q \in Nat, q + 1 <= Len(text), NEW stack \in Seq(Opens), stack # <<>>,
         NEW last \in Scalars \cup Closes, ReadTo(text, q, stack, last), text[q + 1].kind = "comma"
  PROVE  ReadTo(text, q + 1, stack, "comma")
<1>1. PICK o : OpenedAt(text, q, stack, o) /\ TopIs(text, stack[Len(stack)], o[Len(stack)], q, last)
  BY DEF ReadTo
<1>2. PICK n \in Nat : n = Len(stack) /\ n >= 1
  OBVIOUS
<1>3. o[n] \in 1..q /\ stack[n] \in Opens
  BY <1>1, <1>2 DEF OpenedAt
<1>4. PICK a \in Nat : a = o[n] /\ a >= 1 /\ a <= q
  BY <1>3
<1>5. a < q /\ Inside(text, stack[n], a + 1, q)
  BY <1>1, <1>2, <1>3, <1>4 DEF TopIs, Scalars, Closes, Opens
<1>6. TopIs(text, stack[n], o[n], q + 1, "comma")
  <2>1. (q + 1) - 1 = q /\ a + 2 <= q + 1
    BY <1>5
  <2> QED BY <1>4, <1>5, <2>1 DEF TopIs
<1>7. OpenedAt(text, q + 1, stack, o)
  BY <1>1, LevelsStay
<1> QED BY <1>2, <1>6, <1>7 DEF ReadTo

LEMMA ReadsClose ==
  ASSUME NEW text \in Texts, NEW q \in Nat, q + 1 <= Len(text), NEW stack \in Seq(Opens), stack # <<>>,
         NEW last, last \notin {"comma", "Name"}, ReadTo(text, q, stack, last),
         NEW kind \in Closes, kind = CloseOf(stack[Len(stack)]), text[q + 1].kind = kind
  PROVE  ReadTo(text, q + 1, Front(stack), kind)
<1>1. PICK o : OpenedAt(text, q, stack, o) /\ TopIs(text, stack[Len(stack)], o[Len(stack)], q, last)
  BY DEF ReadTo
<1>2. PICK n \in Nat : n = Len(stack) /\ n >= 1
  OBVIOUS
<1>3. o[n] \in 1..q /\ text[o[n]].kind = stack[n] /\ stack[n] \in Opens
  BY <1>1, <1>2 DEF OpenedAt
<1>4. PICK a \in Nat : a = o[n] /\ a >= 1 /\ a <= q
  BY <1>3
<1>5. q = a \/ (a < q /\ Inside(text, stack[n], a + 1, q))
  BY <1>1, <1>2, <1>3, <1>4 DEF TopIs
<1>6. PICK N \in Nat : N = Len(text)
  BY DEF Texts
<1>7. Value(text, a, q + 1)
  <2>1. a \in 1..Len(text) /\ q + 1 \in 1..Len(text) /\ a < q + 1 /\ (q + 1) - 1 = q
    BY <1>4, <1>6
  <2>2. q + 1 = a + 1 \/ Inside(text, stack[n], a + 1, (q + 1) - 1)
    BY <1>5, <2>1
  <2> QED BY <1>2, <1>3, <1>4, <2>1, <2>2, ClosedIsValue
<1>8. /\ Front(stack) \in Seq(Opens) /\ Len(Front(stack)) = n - 1
      /\ \A k \in 1..(n - 1) : Front(stack)[k] = stack[k]
  BY <1>2 DEF Front
<1>9. CASE n = 1
  <2>1. a = 1
    BY <1>1, <1>4, <1>9 DEF OpenedAt
  <2>2. Front(stack) = <<>>
    BY <1>8, <1>9
  <2> QED BY <1>7, <2>1, <2>2 DEF ReadTo
<1>10. CASE n # 1
  <2> DEFINE m == n - 1
  <2>1. m \in 1..(n - 1) /\ m + 1 = n /\ m \in 1..n
    BY <1>2, <1>10
  <2>2. Ready(text, stack[m], o[m], a - 1) /\ o[m] \in 1..q /\ o[m] < a
    <3>1. n \in 1..n /\ m < n
      BY <2>1
    <3> QED BY <1>1, <1>2, <1>4, <2>1, <3>1 DEF OpenedAt
  <2> DEFINE b == a - 1
  <2>3. b \in Nat /\ b \in 1..Len(text) /\ q + 1 \in 1..Len(text) /\ b < q + 1 /\ b + 1 = a
    BY <1>4, <1>6, <2>2
  <2>4. OpenedAt(text, b, Front(stack), o)
    <3>1. ASSUME NEW k \in 1..m
          PROVE  o[k] \in 1..b /\ text[o[k]].kind = stack[k]
      <4>1. k \in 1..n /\ n \in 1..n /\ k < n
        BY <2>1
      <4>2. text[o[k]].kind = stack[k] /\ o[k] \in 1..q /\ o[k] < a
        BY <1>1, <1>2, <1>4, <4>1 DEF OpenedAt
      <4> QED BY <1>4, <4>2
    <3>2. \A k \in 1..(m - 1) : Ready(text, stack[k], o[k], o[k + 1] - 1)
      <4> TAKE k \in 1..(m - 1)
      <4>1. k \in 1..(n - 1)
        BY <2>1
      <4> QED BY <1>1, <1>2, <4>1 DEF OpenedAt
    <3>3. o[1] = 1
      BY <1>1 DEF OpenedAt
    <3>4. \A k, l \in 1..m : k < l => o[k] < o[l]
      <4> TAKE k, l \in 1..m
      <4>1. k \in 1..n /\ l \in 1..n
        BY <2>1
      <4> QED BY <1>1, <1>2, <4>1 DEF OpenedAt
    <3>5. \A k \in 1..(m - 1) : k \in 1..m
      BY <2>1
    <3> HIDE DEF m, b
    <3> QED BY <1>8, <3>1, <3>2, <3>3, <3>4, <3>5 DEF OpenedAt, m
  <2>5. Front(stack) # <<>> /\ Front(stack)[m] = stack[m]
    BY <1>8, <2>1
  <2>6. Len(Front(stack)) = m
    BY <1>8
  <2> HIDE DEF m, b
  <2>7. Value(text, b + 1, q + 1) /\ Ready(text, Front(stack)[Len(Front(stack))], o[Len(Front(stack))], b)
    BY <1>7, <2>2, <2>3, <2>5, <2>6 DEF b
  <2> QED BY <1>8, <2>3, <2>4, <2>5, <2>7, ValueEnds
<1> QED BY <1>9, <1>10

-----------------------------------------------------------------------------
(* What the reader allows in sequence, and what it makes of it.                *)

LEMMA ValueNextIs ==
  ASSUME NEW d, DecoderType(d)
  PROVE  IsValueNext(d) <=> ValueNext(d.stack, d.last.kind)
<1>1. d.stack \in Seq(Opens)
  BY DEF DecoderType
<1>2. CASE d.stack = <<>>
  BY <1>2 DEF IsValueNext, ValueNext
<1>3. CASE d.stack # <<>>
  <2>1. d.stack[Len(d.stack)] \in Opens
    BY <1>1, <1>3
  <2>2. CASE d.stack[Len(d.stack)] = "ObjectOpen"
    BY <1>3, <2>2 DEF IsValueNext, ValueNext, Last
  <2>3. CASE d.stack[Len(d.stack)] = "ArrayOpen"
    BY <1>3, <2>3 DEF IsValueNext, ValueNext, Last
  <2> QED BY <2>1, <2>2, <2>3 DEF Opens
<1> QED BY <1>2, <1>3

\* What may come next, and what is open behind it.
LEMMA SequenceIs ==
  ASSUME NEW d, DecoderType(d), NEW kind \in TokenKinds, InSequence(d, kind)
  PROVE  /\ kind \in Scalars \cup Opens \cup Closes \cup {"EOF", "Name", "comma"}
         /\ kind = "EOF" => d.stack = <<>> /\ NewStack(d.stack, kind) = d.stack
         /\ kind \in Scalars => ValueNext(d.stack, d.last.kind) /\ NewStack(d.stack, kind) = d.stack
         /\ kind \in Opens => ValueNext(d.stack, d.last.kind) /\ NewStack(d.stack, kind) = Append(d.stack, kind)
         /\ kind = "Name" => d.last.kind \in {"ObjectOpen", "comma"} /\ NewStack(d.stack, kind) = d.stack
         /\ kind \in Closes =>
              /\ d.stack # <<>> /\ kind = CloseOf(d.stack[Len(d.stack)]) /\ d.last.kind # "comma"
              /\ NewStack(d.stack, kind) = Front(d.stack)
         /\ kind = "comma" =>
              d.stack # <<>> /\ d.last.kind \in Scalars \cup Closes /\ NewStack(d.stack, kind) = d.stack
<1>1. CASE kind = "EOF"
  BY <1>1 DEF InSequence, NewStack, Scalars, Opens, Closes
<1>2. CASE kind \in Scalars
  BY <1>2, ValueNextIs DEF InSequence, NewStack, Scalars, Opens, Closes
<1>3. CASE kind \in Opens
  BY <1>3, ValueNextIs DEF InSequence, NewStack, Scalars, Opens, Closes
<1>4. CASE kind = "Name"
  BY <1>4 DEF InSequence, NewStack, Scalars, Opens, Closes
<1>5. CASE kind = "ObjectClose"
  BY <1>5 DEF InSequence, NewStack, Scalars, Opens, Closes, CloseOf, Last
<1>6. CASE kind = "ArrayClose"
  BY <1>6 DEF InSequence, NewStack, Scalars, Opens, Closes, CloseOf, Last
<1>7. CASE kind = "comma"
  BY <1>7 DEF InSequence, NewStack, Scalars, Opens, Closes
<1>8. CASE kind \in {"colon", "invalid", "none"}
  BY <1>8 DEF InSequence, Scalars, Opens, Closes
<1> QED BY <1>1, <1>2, <1>3, <1>4, <1>5, <1>6, <1>7, <1>8 DEF TokenKinds, Closes

\* One token more has been read as it should be, unless a name has no value.
LEMMA TakeReads ==
  ASSUME NEW d, DecoderType(d), NEW next, next = ParseNext(d), InSequence(d, next.tok.kind), Good(d),
         NamesHaveValues(d.orig)
  PROVE  ReadTo(d.orig, Len(d.orig) - Len(next.in), NewStack(d.stack, next.tok.kind), next.tok.kind)
<1> DEFINE kind == next.tok.kind
           text == d.orig
           stack == d.stack
           last == d.last.kind
<1>1. PICK n \in Nat, N \in Nat, m \in Nat :
        n = Len(d.in) /\ N = Len(d.orig) /\ m = Len(next.in) /\ n <= N /\ m <= n
  <2>1. next.in \in Texts /\ Len(next.in) <= Len(d.in)
    BY NextToken
  <2>2. d.in \in Texts /\ d.orig \in Texts /\ Len(d.in) <= Len(d.orig)
    BY DEF DecoderType, LeftOf
  <2> QED BY <2>1, <2>2 DEF Texts
<1>2. kind \in TokenKinds
  BY NextToken
<1>3. text \in Texts /\ stack \in Seq(Opens)
  BY DEF DecoderType
<1> DEFINE q == N - n
<1>4. q \in Nat /\ q = Position(d)
  BY <1>1 DEF Position
<1>5. ReadTo(text, q, stack, last)
  BY <1>4 DEF Good
<1>6. kind \notin {"EOF", "Name"} => m = n - 1 /\ text[q + 1].kind = kind /\ N - m = q + 1 /\ q + 1 <= Len(text)
  <2>1. kind \notin {"EOF", "Name"} => m = n - 1 /\ text[q + 1].kind = kind
    BY <1>1, <1>4, NextToken
  <2>2. m = n - 1 => N - m = q + 1 /\ q + 1 <= N
    BY <1>1
  <2> QED BY <1>1, <2>1, <2>2
<1> HIDE DEF q, kind, text, stack, last
<1> SUFFICES ReadTo(text, N - m, NewStack(stack, kind), kind)
  BY <1>1 DEF kind, text, stack
<1>7. /\ kind \in Scalars \cup Opens \cup Closes \cup {"EOF", "Name", "comma"}
      /\ kind = "EOF" => stack = <<>> /\ NewStack(stack, kind) = stack
      /\ kind \in Scalars => ValueNext(stack, last) /\ NewStack(stack, kind) = stack
      /\ kind \in Opens => ValueNext(stack, last) /\ NewStack(stack, kind) = Append(stack, kind)
      /\ kind = "Name" => last \in {"ObjectOpen", "comma"} /\ NewStack(stack, kind) = stack
      /\ kind \in Closes =>
           /\ stack # <<>> /\ kind = CloseOf(stack[Len(stack)]) /\ last # "comma"
           /\ NewStack(stack, kind) = Front(stack)
      /\ kind = "comma" => stack # <<>> /\ last \in Scalars \cup Closes /\ NewStack(stack, kind) = stack
  BY <1>2, SequenceIs DEF kind, stack, last
<1>8. CASE kind = "EOF"
  <2>1. d.in = <<>> /\ next.in = <<>>
    BY <1>8, NextToken DEF kind
  <2>2. m = 0 /\ n = 0
    BY <1>1, <2>1
  <2>3. q = N /\ N = Len(text)
    BY <1>1, <2>2 DEF q, text
  <2>4. q = 0 \/ Value(text, 1, q)
    BY <1>5, <1>7, <1>8 DEF ReadTo
  <2> QED BY <1>7, <1>8, <2>2, <2>3, <2>4 DEF ReadTo, q
<1>9. CASE kind \in Scalars
  <2>1. kind \notin {"EOF", "Name"}
    BY <1>9 DEF Scalars
  <2> QED BY <1>3, <1>4, <1>5, <1>6, <1>7, <1>9, <2>1, ReadsScalar
<1>10. CASE kind \in Opens
  <2>1. kind \notin {"EOF", "Name"}
    BY <1>10 DEF Opens
  <2> QED BY <1>3, <1>4, <1>5, <1>6, <1>7, <1>10, <2>1, ReadsOpen
<1>11. CASE kind = "Name"
  <2>1. /\ m = n - 2 /\ ~IsValueNext(d)
        /\ text[q + 1].kind = "String" /\ text[q + 2].kind = "colon"
    BY <1>1, <1>4, <1>11, NextToken DEF kind, text
  <2>2. ~ValueNext(stack, last)
    BY <2>1, ValueNextIs DEF stack, last
  <2>3. N - m = q + 2 /\ q + 2 <= Len(text)
    BY <1>1, <2>1 DEF q, text
  <2> QED BY <1>3, <1>4, <1>5, <1>7, <1>11, <2>1, <2>2, <2>3, ReadsName
<1>12. CASE kind \in Closes
  <2>1. kind \notin {"EOF", "Name"}
    BY <1>12 DEF Closes
  <2>2. last # "Name"
    <3> SUFFICES ASSUME last = "Name"
                 PROVE  FALSE
      OBVIOUS
    <3>1. PICK o : OpenedAt(text, q, stack, o) /\ TopIs(text, stack[Len(stack)], o[Len(stack)], q, last)
      BY <1>5, <1>7, <1>12 DEF ReadTo
    <3>2. PICK k \in Nat : k = Len(stack) /\ k >= 1
      BY <1>3, <1>7, <1>12
    <3>3. stack[k] \in Opens /\ o[k] \in 1..q
      BY <1>3, <3>1, <3>2 DEF OpenedAt
    <3>4. stack[k] = "ObjectOpen" /\ Ready(text, stack[k], o[k], q)
      BY <3>1, <3>2, <3>3 DEF TopIs, Opens, Scalars, Closes
    <3>5. text[q].kind = "colon" /\ text[q + 1].kind = "ObjectClose" /\ q >= 1
      <4>1. text[q + 1].kind = "ObjectClose"
        BY <1>6, <1>7, <1>12, <2>1, <3>2, <3>4 DEF CloseOf
      <4>2. text[q].kind = "colon"
        BY <3>4 DEF Ready
      <4>3. q >= 1
        BY <1>4, <3>3
      <4> QED BY <4>1, <4>2, <4>3
    <3>6. q \in 1..(Len(text) - 1)
      BY <1>1, <1>4, <1>6, <2>1, <3>5 DEF text
    <3> QED BY <3>5, <3>6 DEF NamesHaveValues, text
  <2> QED BY <1>3, <1>4, <1>5, <1>6, <1>7, <1>12, <2>1, <2>2, ReadsClose
<1>13. CASE kind = "comma"
  BY <1>3, <1>4, <1>5, <1>6, <1>7, <1>13, ReadsComma
<1> QED BY <1>7, <1>8, <1>9, <1>10, <1>11, <1>12, <1>13

Decoders(orig, in, lastCall, last, lastOk, stack) ==
  [orig : {orig}, in : {in}, lastCall : {lastCall}, last : {last}, lastOk : {lastOk}, stack : {stack}]

LEMMA DecoderTakes ==
  ASSUME NEW orig, NEW in, NEW lastCall, NEW last, NEW lastOk, NEW stack,
         NEW d \in Decoders(orig, in, lastCall, last, lastOk, stack), NEW i, NEW l, NEW s
  PROVE  /\ [d EXCEPT !.in = i, !.last = l, !.stack = s] \in Decoders(orig, i, lastCall, l, lastOk, s)
         /\ [d EXCEPT !.in = i] \in Decoders(orig, i, lastCall, last, lastOk, stack)
BY DEF Decoders

\* A token that is taken is the last read, and what is open goes with it.
LEMMA TakeIs ==
  ASSUME NEW d, DecoderType(d), NEW r, r = Take(d, ParseNext(d)), r.ok
  PROVE  /\ DecoderType(r.dec) /\ r.dec.orig = d.orig /\ Len(r.dec.in) <= Len(d.in)
         /\ r.tok = r.dec.last /\ r.tok.kind # "none" /\ r.dec.lastCall = d.lastCall
         /\ Good(d) => Good(r.dec)
<1> DEFINE next == ParseNext(d)
           stack == NewStack(d.stack, next.tok.kind)
           e == [d EXCEPT !.in = next.in, !.last = next.tok, !.stack = stack]
<1>1. InSequence(d, next.tok.kind) /\ r = [ok |-> TRUE, tok |-> next.tok, dec |-> e]
  BY DEF Take
<1>0. next = ParseNext(d)
  OBVIOUS
<1> HIDE DEF next
<1>2. r.tok = next.tok /\ r.dec = e
  BY <1>1
<1>4. /\ e \in Decoders(d.orig, next.in, d.lastCall, next.tok, d.lastOk, stack)
      /\ e.orig = d.orig /\ e.in = next.in /\ e.lastCall = d.lastCall /\ e.last = next.tok
      /\ e.lastOk = d.lastOk /\ e.stack = stack
  <2> HIDE DEF stack
  <2>1. e \in Decoders(d.orig, next.in, d.lastCall, next.tok, d.lastOk, stack)
    <3>1. d \in Decoders(d.orig, d.in, d.lastCall, d.last, d.lastOk, d.stack)
      BY DEF DecoderType, Decoders
    <3> QED BY <3>1, DecoderTakes
  <2> HIDE DEF e
  <2> QED BY <2>1 DEF Decoders
<1>5. /\ next.tok.kind \in TokenKinds \ {"none"} /\ next.in \in Texts /\ Len(next.in) <= Len(d.in)
      /\ LeftOf(d.orig, next.in)
  <2>1. DecoderType(d) /\ next = ParseNext(d)
    BY <1>0
  <2>2. next.tok.kind \in TokenKinds \ {"none"} /\ next.in \in Texts
    BY <2>1, NextToken
  <2>3. Len(next.in) <= Len(d.in)
    BY <2>1, NextToken
  <2>4. LeftOf(d.orig, next.in)
    BY <2>1, NextToken
  <2> QED BY <2>2, <2>3, <2>4
<1>6. stack \in Seq(Opens)
  <2>1. d.stack \in Seq(Opens)
    BY DEF DecoderType
  <2>2. CASE next.tok.kind \in Closes
    <3>1. d.stack # <<>> /\ stack = Front(d.stack)
      BY <1>1, <1>5, <2>2, SequenceIs
    <3> QED BY <2>1, <3>1 DEF Front
  <2>3. CASE next.tok.kind \in Opens
    BY <1>1, <1>5, <2>1, <2>3, SequenceIs
  <2>4. CASE next.tok.kind \notin Opens \cup Closes
    BY <1>1, <1>5, <2>1, <2>4, SequenceIs
  <2> QED BY <2>2, <2>3, <2>4
<1>7. ASSUME Good(d)
      PROVE  Good(e)
  <2> SUFFICES ASSUME NamesHaveValues(d.orig)
               PROVE  ReadTo(e.orig, Len(e.orig) - Len(e.in), e.stack, e.last.kind)
    BY <1>4 DEF Good, Position
  <2>1. ReadTo(d.orig, Len(d.orig) - Len(next.in), stack, next.tok.kind)
    BY <1>0, <1>1, <1>7, TakeReads
  <2> QED BY <1>4, <2>1
<1>8. DecoderType(e)
  <2>1. d.orig \in Texts /\ d.lastCall \in {"Read", "Peek"} /\ d.lastOk \in BOOLEAN
    BY DEF DecoderType
  <2> HIDE DEF next, stack, e
  <2> QED BY <1>4, <1>5, <1>6, <2>1 DEF DecoderType, Decoders
<1> HIDE DEF next, stack, e
<1> QED BY <1>2, <1>4, <1>5, <1>7, <1>8

-----------------------------------------------------------------------------
(* Read and Peek.                                                             *)

LEMMA TakeFails ==
  ASSUME NEW d, DecoderType(d), NEW r, r = Take(d, ParseNext(d)), ~r.ok
  PROVE  /\ r.ok = FALSE /\ r.tok = Symbol("none")
         /\ DecoderType(r.dec) /\ r.dec.orig = d.orig /\ Len(r.dec.in) <= Len(d.in)
<1>1. PICK next : next = ParseNext(d)
  OBVIOUS
<1> DEFINE e == [d EXCEPT !.in = next.in]
<1>2. r = [ok |-> FALSE, tok |-> Symbol("none"), dec |-> e]
  <2>1. CASE InSequence(d, next.tok.kind)
    <3>1. r.ok = TRUE
      BY <1>1, <2>1 DEF Take
    <3> QED BY <3>1
  <2>2. CASE ~InSequence(d, next.tok.kind)
    BY <1>1, <2>2 DEF Take
  <2> QED BY <2>1, <2>2
<1>3. r.ok = FALSE /\ r.tok = Symbol("none") /\ r.dec = e
  <2> HIDE DEF e
  <2> QED BY <1>2
<1>4. /\ e \in Decoders(d.orig, next.in, d.lastCall, d.last, d.lastOk, d.stack)
      /\ e.orig = d.orig /\ e.in = next.in /\ e.lastCall = d.lastCall /\ e.last = d.last
      /\ e.lastOk = d.lastOk /\ e.stack = d.stack
  <2>1. e \in Decoders(d.orig, next.in, d.lastCall, d.last, d.lastOk, d.stack)
    <3>1. d \in Decoders(d.orig, d.in, d.lastCall, d.last, d.lastOk, d.stack)
      BY DEF DecoderType, Decoders
    <3> QED BY <3>1, DecoderTakes
  <2> HIDE DEF e
  <2> QED BY <2>1 DEF Decoders
<1>5. next.in \in Texts /\ Len(next.in) <= Len(d.in) /\ LeftOf(d.orig, next.in)
  BY <1>1, NextToken
<1>6. DecoderType(e)
  <2>1. /\ d.orig \in Texts /\ d.lastCall \in {"Read", "Peek"} /\ d.lastOk \in BOOLEAN
        /\ d.last.kind \in TokenKinds /\ d.stack \in Seq(Opens)
    BY DEF DecoderType
  <2> HIDE DEF e
  <2> QED BY <1>4, <1>5, <2>1 DEF DecoderType, Decoders
<1> HIDE DEF e
<1> QED BY <1>3, <1>4, <1>5, <1>6

\* What holds of a reader between two calls: unless a Peek has failed, all that
\* it has read is as it should be.
Sound(d) ==
  /\ DecoderType(d)
  /\ \/ Good(d) /\ (d.lastCall = "Peek" => d.lastOk /\ d.last.kind # "none")
     \/ d.lastCall = "Peek" /\ ~d.lastOk /\ d.last.kind = "none"

\* What a token that is there, and one that is not, say of the reader.
Looked(d, r) ==
  /\ DecoderType(r.dec) /\ r.dec.orig = d.orig /\ Len(r.dec.in) <= Len(d.in)
  /\ \/ r.ok = TRUE /\ r.tok.kind # "none" /\ r.tok = r.dec.last /\ (Good(d) => Good(r.dec))
     \/ r.ok = FALSE /\ r.tok.kind = "none"

LEMMA TakeLooks ==
  ASSUME NEW d, DecoderType(d), NEW r, r = Take(d, ParseNext(d))
  PROVE  Looked(d, r) /\ (r.ok => r.dec.lastCall = d.lastCall)
<1>1. CASE r.ok
  <2>1. r.ok = TRUE
    <3>1. r.ok \in BOOLEAN
      BY DEF Take
    <3> QED BY <1>1, <3>1
  <2>2. /\ DecoderType(r.dec) /\ r.dec.orig = d.orig /\ Len(r.dec.in) <= Len(d.in)
        /\ r.tok = r.dec.last /\ r.tok.kind # "none" /\ r.dec.lastCall = d.lastCall
        /\ Good(d) => Good(r.dec)
    BY <1>1, TakeIs
  <2> QED BY <2>1, <2>2 DEF Looked
<1>2. CASE ~r.ok
  <2>1. Symbol("none").kind = "none"
    BY DEF Symbol, Lexeme
  <2>2. /\ r.ok = FALSE /\ r.tok = Symbol("none")
        /\ DecoderType(r.dec) /\ r.dec.orig = d.orig /\ Len(r.dec.in) <= Len(d.in)
    BY <1>2, TakeFails
  <2> QED BY <2>1, <2>2 DEF Looked
<1> QED BY <1>1, <1>2

LEMMA LookIs ==
  ASSUME NEW d, Sound(d), NEW r, r = Look(d)
  PROVE  Looked(d, r) /\ (r.ok => Good(r.dec))
<1>1. CASE d.lastCall = "Peek"
  <2>1. r.ok = d.lastOk /\ r.tok = d.last /\ r.dec = d
    BY <1>1 DEF Look
  <2>2. d.lastOk \in BOOLEAN /\ d.in \in Texts
    BY DEF Sound, DecoderType
  <2>3. Len(d.in) <= Len(d.in)
    BY <2>2 DEF Texts
  <2> QED BY <1>1, <2>1, <2>2, <2>3 DEF Sound, Looked
<1>2. CASE d.lastCall # "Peek"
  <2>1. PICK t : t = Take(d, ParseNext(d))
    OBVIOUS
  <2>2. r = PastComma(t) /\ Good(d) /\ DecoderType(d)
    BY <1>2, <2>1 DEF Look, Sound
  <2>3. Looked(d, t)
    BY <2>1, <2>2, TakeLooks
  <2>4. CASE t.tok.kind = "comma"
    <3>1. r = Take(t.dec, ParseNext(t.dec))
      BY <2>2, <2>4 DEF PastComma
    <3>2. DecoderType(t.dec) /\ Good(t.dec) /\ t.dec.orig = d.orig /\ Len(t.dec.in) <= Len(d.in)
      BY <2>2, <2>3, <2>4 DEF Looked
    <3>3. Looked(t.dec, r)
      BY <3>1, <3>2, TakeLooks
    <3>4. Len(r.dec.in) <= Len(d.in)
      <4>1. PICK a \in Nat, b \in Nat, c \in Nat : a = Len(r.dec.in) /\ b = Len(t.dec.in) /\ c = Len(d.in)
        <5>1. r.dec.in \in Texts /\ t.dec.in \in Texts /\ d.in \in Texts
          BY <2>2, <3>2, <3>3 DEF Looked, DecoderType
        <5>2. Len(r.dec.in) \in Nat /\ Len(t.dec.in) \in Nat /\ Len(d.in) \in Nat
          BY <5>1 DEF Texts
        <5> QED BY <5>2
      <4>2. a <= b /\ b <= c
        BY <3>2, <3>3, <4>1 DEF Looked
      <4> QED BY <4>1, <4>2
    <3> QED BY <3>2, <3>3, <3>4 DEF Looked
  <2>5. CASE t.tok.kind # "comma"
    <3>1. r = t
      BY <2>2, <2>5 DEF PastComma
    <3> QED BY <2>2, <2>3, <3>1 DEF Looked
  <2> QED BY <2>4, <2>5
<1> QED BY <1>1, <1>2

LEMMA DecoderMarked ==
  ASSUME NEW orig, NEW in, NEW lastCall, NEW last, NEW lastOk, NEW stack,
         NEW d \in Decoders(orig, in, lastCall, last, lastOk, stack), NEW l, NEW ok
  PROVE  /\ [d EXCEPT !.lastCall = "Read"] \in Decoders(orig, in, "Read", last, lastOk, stack)
         /\ [d EXCEPT !.lastCall = "Peek", !.last = l, !.lastOk = ok] \in Decoders(orig, in, "Peek", l, ok, stack)
BY DEF Decoders

LEMMA DecoderRead ==
  ASSUME NEW d, DecoderType(d), NEW e, e = [d EXCEPT !.lastCall = "Read"]
  PROVE  /\ DecoderType(e) /\ e.orig = d.orig /\ e.in = d.in /\ e.lastCall = "Read" /\ e.last = d.last
         /\ e.stack = d.stack
<1>1. /\ d \in Decoders(d.orig, d.in, d.lastCall, d.last, d.lastOk, d.stack)
      /\ d.orig \in Texts /\ d.in \in Texts /\ d.lastOk \in BOOLEAN /\ d.last.kind \in TokenKinds
      /\ d.stack \in Seq(Opens) /\ LeftOf(d.orig, d.in)
  BY DEF DecoderType, Decoders
<1>2. e \in Decoders(d.orig, d.in, "Read", d.last, d.lastOk, d.stack)
  BY <1>1, DecoderMarked
<1>3. /\ e.orig = d.orig /\ e.in = d.in /\ e.lastCall = "Read" /\ e.last = d.last /\ e.lastOk = d.lastOk
      /\ e.stack = d.stack
  BY <1>2 DEF Decoders
<1> QED BY <1>1, <1>2, <1>3 DEF DecoderType, Decoders

LEMMA LookFields ==
  ASSUME NEW d, NEW s, s = Look(d), NEW e
  PROVE  /\ [s EXCEPT !.dec = e].tok = s.tok /\ [s EXCEPT !.dec = e].dec = e
         /\ [s EXCEPT !.dec.lastCall = "Read"].tok = s.tok
         /\ [s EXCEPT !.dec.lastCall = "Read"].dec = [s.dec EXCEPT !.lastCall = "Read"]
<1>1. \E ok, tok, dd : s = [ok |-> ok, tok |-> tok, dec |-> dd]
  BY DEF Look, PastComma, Take
<1> QED BY <1>1

\* Read, and Peek.
LEMMA ReadIs ==
  ASSUME NEW d, Sound(d), NEW r, r = Read(d)
  PROVE  /\ r.tok = Look(d).tok
         /\ r.tok.kind # "none" =>
              /\ Sound(r.dec) /\ Good(r.dec) /\ r.dec.last = r.tok
              /\ r.dec.orig = d.orig /\ Len(r.dec.in) <= Len(d.in)
<1>1. PICK s : s = Look(d)
  OBVIOUS
<1>2. Looked(d, s) /\ (s.ok => Good(s.dec))
  BY <1>1, LookIs
<1>3. r.tok = s.tok /\ r.dec = [s.dec EXCEPT !.lastCall = "Read"]
  BY <1>1, LookFields DEF Read
<1>4. SUFFICES ASSUME s.tok.kind # "none"
               PROVE  /\ Sound(r.dec) /\ Good(r.dec) /\ r.dec.last = r.tok
                      /\ r.dec.orig = d.orig /\ Len(r.dec.in) <= Len(d.in)
  BY <1>1, <1>3
<1>5. /\ DecoderType(s.dec) /\ Good(s.dec) /\ s.tok = s.dec.last
      /\ s.dec.orig = d.orig /\ Len(s.dec.in) <= Len(d.in)
  BY <1>2, <1>4 DEF Looked
<1>7. /\ DecoderType(r.dec) /\ r.dec.orig = s.dec.orig /\ r.dec.in = s.dec.in /\ r.dec.lastCall = "Read"
      /\ r.dec.last = s.dec.last /\ r.dec.stack = s.dec.stack
  BY <1>3, <1>5, DecoderRead
<1>8. Good(r.dec)
  BY <1>5, <1>7 DEF Good, Position
<1> QED BY <1>3, <1>5, <1>7, <1>8 DEF Sound

LEMMA PeekIs ==
  ASSUME NEW d, Sound(d), NEW r, r = Peek(d)
  PROVE  /\ r.tok = Look(d).tok /\ Sound(r.dec) /\ r.dec.orig = d.orig /\ Len(r.dec.in) <= Len(d.in)
         /\ Look(r.dec).tok = r.tok
<1>1. PICK s : s = Look(d)
  OBVIOUS
<1>2. Looked(d, s) /\ (s.ok => Good(s.dec))
  BY <1>1, LookIs
<1>3. r.tok = s.tok /\ r.dec = [s.dec EXCEPT !.lastCall = "Peek", !.last = s.tok, !.lastOk = s.ok]
  BY <1>1, LookFields DEF Peek, Peeked
<1>4. DecoderType(s.dec) /\ s.dec.orig = d.orig /\ Len(s.dec.in) <= Len(d.in) /\ s.ok \in BOOLEAN
  BY <1>2 DEF Looked
<1>5. s.tok.kind \in TokenKinds
  BY <1>2, <1>4 DEF Looked, DecoderType, TokenKinds
<1>6. /\ DecoderType(r.dec) /\ r.dec.orig = s.dec.orig /\ r.dec.in = s.dec.in /\ r.dec.lastCall = "Peek"
      /\ r.dec.last = s.tok /\ r.dec.lastOk = s.ok /\ r.dec.stack = s.dec.stack
  <2>1. PICK a, e, l, ok : a = s.dec /\ e = r.dec /\ l = s.tok /\ ok = s.ok
    OBVIOUS
  <2>2. DecoderType(a) /\ l.kind \in TokenKinds /\ ok \in BOOLEAN
    BY <1>4, <1>5, <2>1
  <2>3. e = [a EXCEPT !.lastCall = "Peek", !.last = l, !.lastOk = ok]
    BY <1>3, <2>1, Zenon
  <2>4. /\ DecoderType(e) /\ e.orig = a.orig /\ e.in = a.in /\ e.lastCall = "Peek" /\ e.last = l
        /\ e.lastOk = ok /\ e.stack = a.stack
    <3>1. /\ a \in Decoders(a.orig, a.in, a.lastCall, a.last, a.lastOk, a.stack)
          /\ a.orig \in Texts /\ a.in \in Texts /\ a.stack \in Seq(Opens) /\ LeftOf(a.orig, a.in)
      BY <2>2 DEF DecoderType, Decoders
    <3>2. e \in Decoders(a.orig, a.in, "Peek", l, ok, a.stack)
      BY <2>3, <3>1, DecoderMarked
    <3>3. /\ e.orig = a.orig /\ e.in = a.in /\ e.lastCall = "Peek" /\ e.last = l /\ e.lastOk = ok
          /\ e.stack = a.stack
      BY <3>2 DEF Decoders
    <3> QED BY <2>2, <3>1, <3>2, <3>3 DEF DecoderType, Decoders
  <2> QED BY <2>1, <2>4
<1>9. Look(r.dec).tok = r.tok
  BY <1>3, <1>6 DEF Look
<1>7. CASE s.ok
  <2>1. s.tok = s.dec.last /\ Good(s.dec) /\ s.tok.kind # "none"
    BY <1>2, <1>7 DEF Looked
  <2>2. Good(r.dec)
    BY <1>6, <2>1 DEF Good, Position
  <2> QED BY <1>1, <1>3, <1>4, <1>6, <1>7, <1>9, <2>1, <2>2 DEF Sound
<1>8. CASE ~s.ok
  BY <1>1, <1>2, <1>3, <1>4, <1>6, <1>8, <1>9 DEF Sound, Looked
<1> QED BY <1>7, <1>8

-----------------------------------------------------------------------------
(* The calls under way.                                                       *)

Places ==
  {"message", "kubeList", "list", "kubeItems", "fields", "kubeFields", "scalar", "kubeString",
   "skip", "skipFields", "end"} \cup Arrays

\* What a call goes on with is a token that was there.
LEMMA ExpectedIsThere ==
  ASSUME Top.at \in Places, Expected
  PROVE  NextRead.tok.kind # "none"
<1>1. Expects(NextRead.tok)
  BY DEF Expected
<1> DEFINE tok == NextRead.tok
<1> HIDE DEF tok
<1>2. Expects(tok)
  BY <1>1 DEF tok
<1> SUFFICES tok.kind # "none"
  BY DEF tok
<1>3. CASE Top.at \in {"message", "kubeList"}
  BY <1>2, <1>3 DEF Expects
<1>4. CASE Top.at \in {"list", "kubeItems"}
  BY <1>2, <1>4 DEF Expects
<1>5. CASE Top.at = "fields"
  BY <1>2, <1>5 DEF Expects
<1>6. CASE Top.at = "kubeFields"
  BY <1>2, <1>6 DEF Expects
<1>7. CASE Top.at = "scalar"
  <2>1. ScalarOf(Top.type, tok) # {}
    BY <1>2, <1>7 DEF Expects, Arrays
  <2>2. SUFFICES ASSUME tok.kind = "none"
                 PROVE  ScalarOf(Top.type, tok) = {}
    BY <2>1
  <2>3. NumberIn(tok) = tok
    BY <2>2 DEF NumberIn
  <2> QED BY <2>2, <2>3 DEF ScalarOf
<1>8. CASE Top.at = "kubeString"
  BY <1>2, <1>8 DEF Expects
<1>9. CASE Top.at \in {"skip", "skipFields"} \cup Arrays
  BY <1>2, <1>9 DEF Expects, Arrays
<1>10. CASE Top.at = "end"
  BY <1>2, <1>10 DEF Expects, Arrays
<1> QED BY <1>3, <1>4, <1>5, <1>6, <1>7, <1>8, <1>9, <1>10 DEF Places

\* Something of the text has been read.
Begun == Len(dec.in) < Len(dec.orig)

IsCall(f) ==
  /\ f \in [at : {f.at}, type : {f.type}, path : {f.path}, seen : {f.seen}, n : {f.n}]
  /\ f.at \in Places

\* The calls under way: the outermost is for the end of the text.
CallsAre(fs) ==
  /\ \E S : fs \in Seq(S)
  /\ fs # <<>>
  /\ \A k \in 1..Len(fs) : IsCall(fs[k]) /\ (fs[k].at = "end" <=> k = 1)

\* While the text is being read: the reader is sound, and something has been read
\* but for the call that is to open the message.
Running ==
  /\ Sound(dec) /\ CallsAre(frames)
  /\ NamesHaveValues(dec.orig) => Begun \/ Top.at \in {"message", "kubeList"}

\* The inductive invariant.
IInv ==
  /\ outcome = "running" => Running
  /\ OnlyJsonIsRead

LEMMA CallIs ==
  ASSUME CallsAre(frames)
  PROVE  IsCall(Top) /\ Top.at \in Places /\ (Top.at = "end" <=> Len(frames) = 1) /\ Len(frames) \in Nat \ {0}
<1>1. PICK S : frames \in Seq(S)
  BY DEF CallsAre
<1>2. PICK n \in Nat : n = Len(frames) /\ n # 0
  BY <1>1 DEF CallsAre
<1>3. Top = frames[n]
  BY <1>2 DEF Top, Last
<1> QED BY <1>2, <1>3 DEF CallsAre, IsCall

LEMMA CallReturns ==
  ASSUME NEW fs, CallsAre(fs), Len(fs) # 1
  PROVE  CallsAre(Front(fs))
<1>1. PICK S : fs \in Seq(S)
  BY DEF CallsAre
<1>2. PICK n \in Nat : n = Len(fs) /\ n > 1
  <2>1. PICK n \in Nat : n = Len(fs) /\ n # 0
    BY <1>1 DEF CallsAre
  <2>2. n > 1
    BY <2>1
  <2> QED BY <2>1, <2>2
<1>3. Front(fs) \in Seq(S) /\ Len(Front(fs)) = n - 1 /\ \A k \in 1..(n - 1) : Front(fs)[k] = fs[k]
  BY <1>1, <1>2 DEF Front
<1> QED BY <1>2, <1>3 DEF CallsAre

LEMMA CallEnters ==
  ASSUME NEW fs, CallsAre(fs), NEW call, IsCall(call), call.at # "end"
  PROVE  CallsAre(Append(fs, call)) /\ Last(Append(fs, call)) = call /\ Len(Append(fs, call)) # 1
<1>1. PICK S : fs \in Seq(S)
  BY DEF CallsAre
<1>2. PICK n \in Nat : n = Len(fs) /\ n # 0
  BY <1>1 DEF CallsAre
<1> DEFINE T == S \cup {call}
           next == Append(fs, call)
<1>3. fs \in Seq(T) /\ call \in T
  BY <1>1
<1>4. /\ next \in Seq(T) /\ Len(next) = n + 1 /\ next[n + 1] = call
      /\ \A k \in 1..n : next[k] = fs[k]
  BY <1>2, <1>3
<1> HIDE DEF next
<1>5. \A k \in 1..(n + 1) : IsCall(next[k]) /\ (next[k].at = "end" <=> k = 1)
  BY <1>2, <1>4 DEF CallsAre
<1>6. next # <<>> /\ Last(next) = call /\ Len(next) # 1
  BY <1>2, <1>4 DEF Last
<1>7. CallsAre(next)
  BY <1>4, <1>5, <1>6 DEF CallsAre
<1> QED BY <1>6, <1>7 DEF next

LEMMA CallGoesOn ==
  ASSUME NEW fs, CallsAre(fs), Len(fs) # 1, NEW call, IsCall(call), call.at # "end"
  PROVE  /\ CallsAre(Append(Front(fs), call)) /\ Last(Append(Front(fs), call)) = call
         /\ Len(Append(Front(fs), call)) # 1
BY CallReturns, CallEnters

LEMMA CallCalls ==
  ASSUME NEW fs, CallsAre(fs), Len(fs) # 1, NEW a, IsCall(a), a.at # "end", NEW b, IsCall(b), b.at # "end"
  PROVE  CallsAre(Front(fs) \o <<a, b>>)
<1>1. PICK S : fs \in Seq(S)
  BY DEF CallsAre
<1>2. PICK n \in Nat : n = Len(fs) /\ n > 1
  <2>1. PICK n \in Nat : n = Len(fs) /\ n # 0
    BY <1>1 DEF CallsAre
  <2>2. n > 1
    BY <2>1
  <2> QED BY <2>1, <2>2
<1>3. Front(fs) \in Seq(S) /\ Len(Front(fs)) = n - 1
  BY <1>1, <1>2 DEF Front
<1>4. Front(fs) \o <<a, b>> = Append(Append(Front(fs), a), b)
  BY <1>2, <1>3
<1>5. CallsAre(Append(Front(fs), a))
  BY CallGoesOn
<1> QED BY <1>4, <1>5, CallEnters

LEMMA NewCall ==
  ASSUME NEW at \in Places, NEW type, NEW path
  PROVE  IsCall(Frame(at, type, path)) /\ Frame(at, type, path).at = at
BY DEF IsCall, Frame

LEMMA CallMoves ==
  ASSUME NEW f, IsCall(f), NEW at \in Places, NEW v
  PROVE  /\ IsCall([f EXCEPT !.at = at]) /\ [f EXCEPT !.at = at].at = at
         /\ IsCall([f EXCEPT !.seen = v]) /\ [f EXCEPT !.seen = v].at = f.at
         /\ IsCall([f EXCEPT !.n = v]) /\ [f EXCEPT !.n = v].at = f.at
BY DEF IsCall

LEMMA BegunStays ==
  ASSUME Begun, dec.in \in Texts, dec.orig \in Texts, dec'.in \in Texts,
         dec'.orig = dec.orig, Len(dec'.in) <= Len(dec.in)
  PROVE  Begun'
<1>1. PICK a \in Nat, b \in Nat, c \in Nat : a = Len(dec'.in) /\ b = Len(dec.in) /\ c = Len(dec.orig)
  <2>1. Len(dec'.in) \in Nat /\ Len(dec.in) \in Nat /\ Len(dec.orig) \in Nat
    BY DEF Texts
  <2> QED BY <2>1
<1>2. a <= b /\ b < c
  BY <1>1 DEF Begun
<1> QED BY <1>1, <1>2 DEF Begun

\* The reader goes on by these calls.
LEMMA ReaderGoesOn ==
  ASSUME Running, Expected,
         \/ dec' = NextRead.dec
         \/ dec' = NextPeek.dec
         \/ dec' = Peek(NextRead.dec).dec
         \/ Peek(NextRead.dec).tok.kind = "Null" /\ dec' = Read(Peek(NextRead.dec).dec).dec
         \/ NextPeek.tok.kind = "ArrayClose" /\ dec' = Read(NextPeek.dec).dec
  PROVE  Sound(dec') /\ dec'.orig = dec.orig /\ (Begun => Begun')
<1>0. Top.at \in Places
  BY CallIs DEF Running
<1>1. NextRead.tok.kind # "none" /\ Sound(dec)
  BY <1>0, ExpectedIsThere DEF Running
<1>2. Sound(NextRead.dec) /\ NextRead.dec.orig = dec.orig /\ Len(NextRead.dec.in) <= Len(dec.in)
  BY <1>1, ReadIs DEF NextRead
<1>3. Sound(NextPeek.dec) /\ NextPeek.dec.orig = dec.orig /\ Len(NextPeek.dec.in) <= Len(dec.in)
      /\ Look(NextPeek.dec).tok = NextPeek.tok
  BY <1>1, PeekIs DEF NextPeek
<1> DEFINE next == NextRead.dec
           value == Peek(next)
<1>4. /\ Sound(value.dec) /\ value.dec.orig = next.orig /\ Len(value.dec.in) <= Len(next.in)
      /\ Look(value.dec).tok = value.tok
  <2> HIDE DEF next
  <2>1. Sound(next)
    BY <1>2 DEF next
  <2> QED BY <2>1, PeekIs
<1>5. \A d : Sound(d) /\ Look(d).tok.kind # "none" =>
        Sound(Read(d).dec) /\ Read(d).dec.orig = d.orig /\ Len(Read(d).dec.in) <= Len(d.in)
  BY ReadIs
<1>6. \A d : Sound(d) => d.in \in Texts /\ d.orig \in Texts /\ Len(d.in) \in Nat
  BY DEF Sound, DecoderType, Texts
<1> HIDE DEF next, value
<1>7. Sound(dec') /\ dec'.orig = dec.orig /\ Len(dec'.in) <= Len(dec.in)
  <2>1. CASE dec' = NextRead.dec
    BY <1>2, <2>1
  <2>2. CASE dec' = NextPeek.dec
    BY <1>3, <2>2
  <2>3. CASE dec' = value.dec
    BY <1>1, <1>2, <1>4, <1>6, <2>3 DEF next
  <2>4. CASE value.tok.kind = "Null" /\ dec' = Read(value.dec).dec
    <3>1. Sound(dec') /\ dec'.orig = value.dec.orig /\ Len(dec'.in) <= Len(value.dec.in)
      BY <1>4, <1>5, <2>4
    <3>2. PICK a \in Nat, b \in Nat, c \in Nat, e \in Nat :
            a = Len(dec'.in) /\ b = Len(value.dec.in) /\ c = Len(next.in) /\ e = Len(dec.in)
      BY <1>1, <1>2, <1>4, <1>6, <3>1 DEF next
    <3>3. a <= b /\ b <= c /\ c <= e
      BY <1>2, <1>4, <3>1, <3>2 DEF next
    <3> QED BY <1>2, <1>4, <3>1, <3>2, <3>3 DEF next
  <2>5. CASE NextPeek.tok.kind = "ArrayClose" /\ dec' = Read(NextPeek.dec).dec
    <3>1. Sound(dec') /\ dec'.orig = NextPeek.dec.orig /\ Len(dec'.in) <= Len(NextPeek.dec.in)
      BY <1>3, <1>5, <2>5
    <3>2. PICK a \in Nat, b \in Nat, c \in Nat :
            a = Len(dec'.in) /\ b = Len(NextPeek.dec.in) /\ c = Len(dec.in)
      BY <1>1, <1>3, <1>6, <3>1
    <3>3. a <= b /\ b <= c
      BY <1>3, <3>1, <3>2
    <3> QED BY <1>3, <3>1, <3>2, <3>3
  <2> QED BY <2>1, <2>2, <2>3, <2>4, <2>5 DEF value, next
<1>8. dec.in \in Texts /\ dec.orig \in Texts /\ dec'.in \in Texts
  BY <1>1, <1>6, <1>7
<1> QED BY <1>7, <1>8, BegunStays

\* The reader begins with what is opened.
LEMMA ReaderBegins ==
  ASSUME Running, Top.at \in {"message", "kubeList"}, Expected, dec' = NextRead.dec
  PROVE  Sound(dec') /\ dec'.orig = dec.orig /\ (NamesHaveValues(dec'.orig) => Begun')
<1>2. Sound(dec') /\ dec'.orig = dec.orig
  BY ReaderGoesOn
<1>3. NextRead.tok.kind = "ObjectOpen"
  <2> DEFINE tok == NextRead.tok
  <2> HIDE DEF tok
  <2>1. Expects(tok)
    BY DEF Expected, tok
  <2>2. tok.kind = "ObjectOpen"
    <3>1. Top.at \in {"message", "kubeList"}
      OBVIOUS
    <3> QED BY <2>1, <3>1 DEF Expects, Arrays
  <2> QED BY <2>2 DEF tok
<1>4. dec'.last.kind = "ObjectOpen" /\ Good(dec')
  BY <1>3, ReadIs DEF Running, NextRead
<1>5. SUFFICES ASSUME NamesHaveValues(dec'.orig)
               PROVE  Begun'
  BY <1>2
<1>6. ReadTo(dec'.orig, Position(dec'), dec'.stack, "ObjectOpen")
  BY <1>4, <1>5 DEF Good
<1>7. dec'.stack # <<>> /\ dec'.stack \in Seq(Opens) /\ dec'.in \in Texts /\ dec'.orig \in Texts
  BY <1>2, <1>6 DEF ReadTo, Sound, DecoderType, Scalars, Closes
<1>8. PICK o : OpenedAt(dec'.orig, Position(dec'), dec'.stack, o)
  BY <1>6, <1>7 DEF ReadTo
<1>9. PICK n \in Nat : n = Len(dec'.stack) /\ n # 0
  BY <1>7
<1>10. 1 \in 1..Position(dec')
  BY <1>7, <1>8, <1>9 DEF OpenedAt
<1>11. PICK a \in Nat, b \in Nat : a = Len(dec'.orig) /\ b = Len(dec'.in)
  <2>1. Len(dec'.orig) \in Nat /\ Len(dec'.in) \in Nat
    BY <1>7 DEF Texts
  <2> QED BY <2>1
<1>12. b < a
  BY <1>10, <1>11 DEF Position
<1> QED BY <1>11, <1>12 DEF Begun

-----------------------------------------------------------------------------
(* Each step of the calls.                                                    *)

LEMMA ReaderAndCalls ==
  ASSUME Running, Expected, Top.at \notin {"message", "kubeList"}, CallsAre(frames'),
         \/ dec' = NextRead.dec
         \/ dec' = NextPeek.dec
         \/ dec' = Peek(NextRead.dec).dec
         \/ Peek(NextRead.dec).tok.kind = "Null" /\ dec' = Read(Peek(NextRead.dec).dec).dec
         \/ NextPeek.tok.kind = "ArrayClose" /\ dec' = Read(NextPeek.dec).dec
  PROVE  Running'
<1>1. Sound(dec') /\ dec'.orig = dec.orig /\ (Begun => Begun')
  BY ReaderGoesOn
<1> QED BY <1>1 DEF Running

LEMMA Opening ==
  ASSUME Running, Expected, Top.at \in {"message", "kubeList"}, CallsAre(frames'), dec' = NextRead.dec
  PROVE  Running'
<1>1. Sound(dec') /\ (NamesHaveValues(dec'.orig) => Begun')
  BY ReaderBegins
<1> QED BY <1>1 DEF Running

\* Each way the calls change.
LEMMA Moves ==
  ASSUME Running, Top.at # "end", NEW at \in Places \ {"end"}, Goto(at)
  PROVE  CallsAre(frames')
<1>1. IsCall([Top EXCEPT !.at = at]) /\ [Top EXCEPT !.at = at].at # "end"
  BY CallIs, CallMoves DEF Running
<1> QED BY <1>1, CallIs, CallGoesOn DEF Running, Goto

LEMMA Enters ==
  ASSUME Running, NEW at \in Places \ {"end"}, NEW type, NEW path, Enter(Frame(at, type, path))
  PROVE  CallsAre(frames')
BY NewCall, CallEnters DEF Running, Enter

LEMMA Returns ==
  ASSUME Running, Top.at # "end", Return
  PROVE  CallsAre(frames')
BY CallIs, CallReturns DEF Running, Return

StepsKeep(Act) == outcome = "running" /\ Running /\ Act => outcome' = "running" /\ Running'

LEMMA OpenMessageKeeps == StepsKeep(OpenMessage)
<1> SUFFICES ASSUME Running, OpenMessage PROVE Running' /\ outcome' = "running"
  BY DEF StepsKeep, OpenMessage, In
<1>1. Top.at = "message" /\ Expected /\ dec' = NextRead.dec /\ outcome' = "running"
  BY DEF OpenMessage, In
<1>2. CallsAre(frames')
  BY <1>1, Moves DEF OpenMessage, Places
<1> QED BY <1>1, <1>2, Opening

LEMMA CloseMessageKeeps == StepsKeep(CloseMessage)
<1> SUFFICES ASSUME Running, CloseMessage PROVE Running' /\ outcome' = "running"
  BY DEF StepsKeep, CloseMessage, In
<1>1. Top.at = "fields" /\ Expected /\ dec' = NextRead.dec /\ outcome' = "running" /\ Return
  BY DEF CloseMessage, In
<1>2. CallsAre(frames')
  BY <1>1, Returns
<1> QED BY <1>1, <1>2, ReaderAndCalls

LEMMA SkipMemberKeeps == StepsKeep(SkipMember)
<1> SUFFICES ASSUME Running, SkipMember PROVE Running' /\ outcome' = "running"
  BY DEF StepsKeep, SkipMember, In
<1>1. Top.at = "fields" /\ Expected /\ dec' = NextRead.dec /\ outcome' = "running"
  BY DEF SkipMember, In
<1>2. CallsAre(frames')
  BY <1>1, Enters DEF SkipMember, Places, Call
<1> QED BY <1>1, <1>2, ReaderAndCalls

LEMMA NullMemberKeeps == StepsKeep(NullMember)
<1> SUFFICES ASSUME Running, NullMember PROVE Running' /\ outcome' = "running"
  BY DEF StepsKeep, NullMember, Member, In
<1>1. /\ Top.at = "fields" /\ Expected /\ outcome' = "running"
      /\ Peek(NextRead.dec).tok.kind = "Null" /\ dec' = Read(Peek(NextRead.dec).dec).dec
  BY DEF NullMember, Member, In
<1>2. IsCall(Seen) /\ Seen.at = "fields"
  BY <1>1, CallIs, CallMoves DEF Seen, Running
<1>3. CallsAre(frames')
  BY <1>1, <1>2, CallIs, CallGoesOn DEF NullMember, Running
<1> QED BY <1>1, <1>3, ReaderAndCalls

LEMMA ReadMemberKeeps == StepsKeep(ReadMember)
<1> SUFFICES ASSUME Running, ReadMember PROVE Running' /\ outcome' = "running"
  BY DEF StepsKeep, ReadMember, Member, In
<1>1. /\ Top.at = "fields" /\ Expected /\ outcome' = "running" /\ dec' = Peek(NextRead.dec).dec
  BY DEF ReadMember, Member, In
<1>2. IsCall(Seen) /\ Seen.at = "fields"
  BY <1>1, CallIs, CallMoves DEF Seen, Running
<1>3. IsCall(MemberCall(Field)) /\ MemberCall(Field).at # "end"
  <2>1. \E at \in {"list", "message", "scalar"} : \E type, path : MemberCall(Field) = Frame(at, type, path)
    BY DEF MemberCall
  <2>2. PICK at \in {"list", "message", "scalar"} : \E type, path : MemberCall(Field) = Frame(at, type, path)
    BY <2>1
  <2>3. PICK type, path : MemberCall(Field) = Frame(at, type, path)
    BY <2>2
  <2> QED BY <2>3, NewCall DEF Places
<1>4. CallsAre(frames')
  BY <1>1, <1>2, <1>3, CallIs, CallCalls DEF ReadMember, Running
<1> QED BY <1>1, <1>4, ReaderAndCalls

LEMMA ReadScalarKeeps == StepsKeep(ReadScalar)
<1> SUFFICES ASSUME Running, ReadScalar PROVE Running' /\ outcome' = "running"
  BY DEF StepsKeep, ReadScalar, In
<1>1. Top.at = "scalar" /\ Expected /\ dec' = NextRead.dec /\ outcome' = "running" /\ Return
  BY DEF ReadScalar, In
<1>2. CallsAre(frames')
  BY <1>1, Returns
<1> QED BY <1>1, <1>2, ReaderAndCalls

LEMMA OpenArrayKeeps == StepsKeep(OpenArray)
<1> SUFFICES ASSUME Running, OpenArray PROVE Running' /\ outcome' = "running"
  BY DEF StepsKeep, OpenArray, In
<1>1. Top.at \in {"list", "kubeItems"} /\ Expected /\ dec' = NextRead.dec /\ outcome' = "running"
  BY DEF OpenArray, In
<1>2. \E at \in {"elements", "kubeElements"} : Goto(at)
  BY DEF OpenArray
<1>3. CallsAre(frames')
  BY <1>1, <1>2, Moves DEF Places, Arrays
<1> QED BY <1>1, <1>3, ReaderAndCalls

LEMMA ReadElementKeeps == StepsKeep(ReadElement)
<1> SUFFICES ASSUME Running, ReadElement PROVE Running' /\ outcome' = "running"
  BY DEF StepsKeep, ReadElement, In
<1>1. Top.at \in Arrays /\ Expected /\ outcome' = "running" /\ dec' = NextPeek.dec
  BY DEF ReadElement, In
<1>2. \E n : (IF Top.at = "elements" THEN [Top EXCEPT !.n = @ + 1] ELSE Top) \in {[Top EXCEPT !.n = n], Top}
  OBVIOUS
<1> DEFINE top == IF Top.at = "elements" THEN [Top EXCEPT !.n = @ + 1] ELSE Top
<1>3. IsCall(top) /\ top.at = Top.at
  BY CallIs, CallMoves DEF Running
<1>4. IsCall(ElementCall) /\ ElementCall.at # "end"
  <2>1. \E at \in {"skip", "message"} : \E type, path : ElementCall = Frame(at, type, path)
    BY <1>1 DEF ElementCall, Arrays, Call
  <2>2. PICK at \in {"skip", "message"} : \E type, path : ElementCall = Frame(at, type, path)
    BY <2>1
  <2>3. PICK type, path : ElementCall = Frame(at, type, path)
    BY <2>2
  <2> QED BY <2>3, NewCall DEF Places
<1>5. frames' = Front(frames) \o <<top, ElementCall>>
  BY DEF ReadElement
<1> HIDE DEF top
<1>6. CallsAre(frames')
  <2>1. Top.at # "end"
    BY <1>1 DEF Arrays
  <2> QED BY <1>3, <1>4, <1>5, <2>1, CallIs, CallCalls DEF Running
<1>7. Top.at \notin {"message", "kubeList"}
  BY <1>1 DEF Arrays
<1> QED BY <1>1, <1>6, <1>7, ReaderAndCalls

LEMMA CloseArrayKeeps == StepsKeep(CloseArray)
<1> SUFFICES ASSUME Running, CloseArray PROVE Running' /\ outcome' = "running"
  BY DEF StepsKeep, CloseArray, In
<1>1. /\ Top.at \in Arrays /\ Expected /\ outcome' = "running" /\ Return
      /\ NextPeek.tok.kind = "ArrayClose" /\ dec' = Read(NextPeek.dec).dec
  BY DEF CloseArray, In
<1>2. Top.at \notin {"message", "kubeList", "end"}
  BY <1>1 DEF Arrays
<1>3. CallsAre(frames')
  BY <1>1, <1>2, Returns
<1> QED BY <1>1, <1>2, <1>3, ReaderAndCalls

LEMMA SkipValueKeeps == StepsKeep(SkipValue)
<1> SUFFICES ASSUME Running, SkipValue PROVE Running' /\ outcome' = "running"
  BY DEF StepsKeep, SkipValue, In
<1>1. Top.at = "skip" /\ Expected /\ dec' = NextRead.dec /\ outcome' = "running"
  BY DEF SkipValue, In
<1>2. Goto("skipFields") \/ Goto("skipElements") \/ Return
  BY DEF SkipValue, Opens
<1>3. CallsAre(frames')
  BY <1>1, <1>2, Moves, Returns DEF Places, Arrays
<1> QED BY <1>1, <1>3, ReaderAndCalls

LEMMA SkipFieldKeeps == StepsKeep(SkipField)
<1> SUFFICES ASSUME Running, SkipField PROVE Running' /\ outcome' = "running"
  BY DEF StepsKeep, SkipField, In
<1>1. Top.at = "skipFields" /\ Expected /\ dec' = NextRead.dec /\ outcome' = "running"
  BY DEF SkipField, In
<1>2. Return \/ Enter(Call("skip")) \/ frames' = frames
  BY DEF SkipField
<1>3. CallsAre(frames')
  <2>1. CASE Return
    BY <1>1, <2>1, Returns
  <2>2. CASE Enter(Call("skip"))
    BY <2>2, Enters DEF Places, Call
  <2>3. CASE frames' = frames
    BY <2>3 DEF Running
  <2> QED BY <1>2, <2>1, <2>2, <2>3
<1> QED BY <1>1, <1>3, ReaderAndCalls

LEMMA OpenKubeListKeeps == StepsKeep(OpenKubeList)
<1> SUFFICES ASSUME Running, OpenKubeList PROVE Running' /\ outcome' = "running"
  BY DEF StepsKeep, OpenKubeList, In
<1>1. Top.at = "kubeList" /\ Expected /\ dec' = NextRead.dec /\ outcome' = "running"
  BY DEF OpenKubeList, In
<1>2. CallsAre(frames')
  BY <1>1, Moves DEF OpenKubeList, Places
<1> QED BY <1>1, <1>2, Opening

LEMMA KubeListFieldKeeps == StepsKeep(KubeListField)
<1> SUFFICES ASSUME Running, KubeListField PROVE Running' /\ outcome' = "running"
  BY DEF StepsKeep, KubeListField, In
<1>1. Top.at = "kubeFields" /\ Expected /\ dec' = NextRead.dec /\ outcome' = "running"
  BY DEF KubeListField, In
<1>2. NextRead.tok.val \in {"apiVersion", "kind", "metadata", "items"}
  <2> DEFINE tok == NextRead.tok
  <2> HIDE DEF tok
  <2>1. Expects(tok) /\ tok.kind = "Name"
    BY DEF Expected, tok, KubeListField, In
  <2>2. tok.val \in {"apiVersion", "kind", "metadata", "items"}
    BY <1>1, <2>1 DEF Expects, Arrays
  <2> QED BY <2>2 DEF tok
<1>3. \E at \in {"kubeItems", "skip", "kubeString"} : \E type, path : Enter(Frame(at, type, path))
  BY <1>2 DEF KubeListField, Call
<1>4. CallsAre(frames')
  BY <1>3, Enters DEF Places
<1> QED BY <1>1, <1>4, ReaderAndCalls

LEMMA ReadStringKeeps == StepsKeep(ReadString)
<1> SUFFICES ASSUME Running, ReadString PROVE Running' /\ outcome' = "running"
  BY DEF StepsKeep, ReadString, In
<1>1. Top.at = "kubeString" /\ Expected /\ dec' = NextRead.dec /\ outcome' = "running" /\ Return
  BY DEF ReadString, In
<1>2. CallsAre(frames')
  BY <1>1, Returns
<1> QED BY <1>1, <1>2, ReaderAndCalls

LEMMA CloseKubeListKeeps == StepsKeep(CloseKubeList)
<1> SUFFICES ASSUME Running, CloseKubeList PROVE Running' /\ outcome' = "running"
  BY DEF StepsKeep, CloseKubeList, In
<1>1. Top.at = "kubeFields" /\ Expected /\ dec' = NextRead.dec /\ outcome' = "running" /\ Return
  BY DEF CloseKubeList, In
<1>2. CallsAre(frames')
  BY <1>1, Returns
<1> QED BY <1>1, <1>2, ReaderAndCalls

\* A text that is read to its end is a value.
LEMMA FinishedIsJson ==
  ASSUME Running, Finish
  PROVE  OnlyJsonIsRead'
<1>1. Top.at = "end" /\ Expected /\ dec' = NextRead.dec
  BY DEF Finish, In
<1>2. NextRead.tok.kind = "EOF"
  <2> DEFINE tok == NextRead.tok
  <2> HIDE DEF tok
  <2>1. Expects(tok)
    BY <1>1 DEF Expected, tok
  <2>2. tok.kind = "EOF"
    BY <1>1, <2>1 DEF Expects, Arrays
  <2> QED BY <2>2 DEF tok
<1>3. Sound(dec') /\ dec'.orig = dec.orig /\ (Begun => Begun')
  BY <1>1, ReaderGoesOn
<1>4. Good(dec') /\ dec'.last.kind = "EOF"
  BY <1>1, <1>2, ReadIs DEF Running, NextRead
<1>5. SUFFICES ASSUME NamesHaveValues(dec'.orig)
               PROVE  IsJson(dec'.orig)
  BY DEF OnlyJsonIsRead
<1>6. Begun'
  BY <1>1, <1>3, <1>5 DEF Running
<1>7. ReadTo(dec'.orig, Position(dec'), dec'.stack, "EOF") /\ dec'.stack \in Seq(Opens)
  BY <1>3, <1>4, <1>5 DEF Good, Sound, DecoderType
<1>8. dec'.stack = <<>>
  <2> SUFFICES ASSUME dec'.stack # <<>>
               PROVE  FALSE
    OBVIOUS
  <2>1. PICK k \in Nat : k = Len(dec'.stack) /\ k # 0
    BY <1>7
  <2>2. dec'.stack[k] \in Opens
    BY <1>7, <2>1
  <2>3. \E a, b : TopIs(dec'.orig, dec'.stack[k], a, b, "EOF")
    BY <1>7, <2>1 DEF ReadTo
  <2> QED BY <2>2, <2>3 DEF TopIs, Opens, Closes, Scalars
<1>9. PICK N \in Nat : N = Len(dec'.orig) /\ N # 0 /\ dec'.orig \in Texts
  <2>1. dec'.orig \in Texts /\ dec'.in \in Texts
    BY <1>3 DEF Sound, DecoderType
  <2>2. Len(dec'.orig) \in Nat /\ Len(dec'.in) \in Nat
    BY <2>1 DEF Texts
  <2> QED BY <1>6, <2>1, <2>2 DEF Begun
<1>10. Value(dec'.orig, 1, N)
  BY <1>7, <1>8, <1>9 DEF ReadTo, Scalars, Closes
<1>11. dec'.orig # <<>>
  BY <1>9
<1> QED BY <1>9, <1>10, <1>11, JsonIs DEF Value

LEMMA Started ==
  ASSUME NEW text \in Texts, NEW type, Start(text, Unmarshal(type)) \/ Start(text, UnmarshalKubeList(type))
  PROVE  Running' /\ outcome' = "running"
<1>1. PICK at \in {"message", "kubeList"} : Start(text, Frame(at, type, <<>>))
  BY DEF Unmarshal, UnmarshalKubeList
<1> DEFINE call == Frame(at, type, <<>>)
<1>2. dec' = NewDecoder(text) /\ frames' = <<Call("end"), call>> /\ outcome' = "running"
  BY <1>1 DEF Start
<1>3. IsCall(Call("end")) /\ IsCall(call) /\ call.at = at /\ Call("end").at = "end"
  BY NewCall DEF Call, Places
<1> HIDE DEF call
<1>4. frames' \in Seq({Call("end"), call}) /\ Len(frames') = 2 /\ frames'[1] = Call("end") /\ frames'[2] = call
  BY <1>2
<1>5. CallsAre(frames') /\ Top'.at = at
  <2>1. at # "end" /\ frames' # <<>>
    BY <1>4
  <2>2. \A k \in 1..Len(frames') : IsCall(frames'[k]) /\ (frames'[k].at = "end" <=> k = 1)
    BY <1>3, <1>4, <2>1
  <2>3. Top' = call
    BY <1>4 DEF Top, Last
  <2> QED BY <1>3, <1>4, <2>1, <2>2, <2>3 DEF CallsAre
<1>6. /\ dec' \in Decoders(text, text, "Read", Symbol("none"), TRUE, <<>>)
      /\ dec'.orig = text /\ dec'.in = text /\ dec'.lastCall = "Read" /\ dec'.last = Symbol("none")
      /\ dec'.lastOk = TRUE /\ dec'.stack = <<>>
  BY <1>2 DEF NewDecoder, Decoders
<1>7. Symbol("none").kind = "none" /\ "none" \in TokenKinds
  BY DEF Symbol, Lexeme, TokenKinds
<1>8. PICK n \in Nat : n = Len(text)
  BY DEF Texts
<1>9. LeftOf(text, text)
  BY <1>8 DEF LeftOf
<1>10. DecoderType(dec')
  <2>1. ASSUME NEW d, NEW last, NEW ok \in BOOLEAN, d \in Decoders(text, text, "Read", last, ok, <<>>),
               last.kind \in TokenKinds
        PROVE  DecoderType(d)
    <3>1. d.orig = text /\ d.in = text /\ d.lastCall = "Read" /\ d.last = last /\ d.lastOk = ok /\ d.stack = <<>>
      BY <2>1 DEF Decoders
    <3>2. d.stack \in Seq(Opens) /\ d.lastOk \in BOOLEAN
      BY <3>1
    <3> QED BY <1>9, <2>1, <3>1, <3>2 DEF DecoderType, Decoders
  <2>2. dec'.last.kind \in TokenKinds
    BY <1>6, <1>7
  <2> QED BY <1>6, <2>1, <2>2
<1>11. Good(dec')
  BY <1>6, <1>7, <1>8 DEF Good, ReadTo, Position
<1>12. Sound(dec')
  BY <1>6, <1>10, <1>11 DEF Sound
<1> QED BY <1>2, <1>5, <1>12 DEF Running

NextOf == \/ \E text \in Seq(Lexemes), type \in DOMAIN Schema :
               Start(text, Unmarshal(type)) \/ Start(text, UnmarshalKubeList(type))
          \/ Next

LEMMA IInvStays ==
  ASSUME IInv, [NextOf]_vars
  PROVE  IInv'
<1>1. CASE outcome' = "running" /\ Running'
  BY <1>1 DEF IInv, OnlyJsonIsRead
<1>2. CASE \E text \in Seq(Lexemes), type \in DOMAIN Schema :
             Start(text, Unmarshal(type)) \/ Start(text, UnmarshalKubeList(type))
  BY <1>1, <1>2, Started DEF Texts
<1>3. CASE Finish
  <2>1. Running /\ outcome' = "done"
    BY <1>3 DEF Finish, In, IInv
  <2> QED BY <1>3, <2>1, FinishedIsJson DEF IInv
<1>4. CASE Reject
  BY <1>4 DEF Reject, IInv, OnlyJsonIsRead
<1>5. CASE UNCHANGED vars
  BY <1>5 DEF vars, IInv, OnlyJsonIsRead, Running, Begun, Top
<1>6. CASE Next /\ ~Finish /\ ~Reject
  <2>1. outcome = "running"
    BY <1>6 DEF Next, OpenMessage, CloseMessage, SkipMember, NullMember, ReadMember, Member, ReadScalar,
                OpenArray, ReadElement, CloseArray, SkipValue, SkipField, OpenKubeList, KubeListField,
                ReadString, CloseKubeList, In
  <2>2. outcome' = "running" /\ Running'
    BY <1>6, <2>1, OpenMessageKeeps, CloseMessageKeeps, SkipMemberKeeps, NullMemberKeeps, ReadMemberKeeps,
       ReadScalarKeeps, OpenArrayKeeps, ReadElementKeeps, CloseArrayKeeps, SkipValueKeeps, SkipFieldKeeps,
       OpenKubeListKeeps, KubeListFieldKeeps, ReadStringKeeps, CloseKubeListKeeps
    DEF Next, StepsKeep, IInv
  <2> QED BY <1>1, <2>2
<1> QED BY <1>2, <1>3, <1>4, <1>5, <1>6 DEF NextOf

(* Whatever text is read, and into whatever type: if every name in it is       *)
(* followed by a value, and the decoder reads it to its end without an error,   *)
(* it is JSON (decode.go, well_known_types.go, internal/encoding/json).         *)
THEOREM OnlyJson == Spec => []OnlyJsonIsRead
<1>1. Init => IInv
  BY DEF Init, IInv, OnlyJsonIsRead
<1>2. IInv /\ [NextOf]_vars => IInv'
  BY IInvStays
<1>3. IInv => OnlyJsonIsRead
  BY DEF IInv
<1> QED BY <1>1, <1>2, <1>3, PTL DEF Spec, NextOf

=============================================================================
