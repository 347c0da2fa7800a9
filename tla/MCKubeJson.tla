------------------------------ MODULE MCKubeJson ------------------------------
(* Texts that are read, messages that are written and read back, and numerals  *)
(* built a rune at a time, against reference definitions of what they mean.    *)
EXTENDS KubeJson, KubeJsonWriter

CONSTANTS
  NumeralRunes,          \* What a numeral may consist of.
  MaxNumeral,       \* Bound: its length.
  MaxEdits        \* Bound: lexemes of a text that are changed.

VARIABLES
  given,          \* The case: a tree that is read, or a message that is written.
  edits,          \* The lexemes that may still be changed.
  numeral         \* The runes of the numeral.

allVars == <<vars, writerVars, given, edits, numeral>>

-----------------------------------------------------------------------------
(* JSON trees.                                                                *)

Tree(kind, val, names, kids) == [kind |-> kind, val |-> val, names |-> names, kids |-> kids]
Leaf(kind, val) == Tree(kind, val, <<>>, <<>>)
Quoted(val)    == Leaf("String", val)
Num(val)    == Leaf("Number", val)
Null        == Leaf("Null", "")
Arr(kids)   == Tree("Array", "", <<>>, kids)
Obj(members) ==
  Tree("Object", "", [i \in DOMAIN members |-> members[i][1]], [i \in DOMAIN members |-> members[i][2]])

\* The objects of up to n of these members.
Objs(members, n) == {Obj(ms) : ms \in BoundedSeq(members, n)}
Members(names, trees) == names \X trees

Separated(texts) ==
  FlattenSeq([i \in DOMAIN texts |-> IF i = 1 THEN texts[1] ELSE <<Symbol("comma")>> \o texts[i]])

RECURSIVE Flatten(_)
Flatten(t) ==
  CASE t.kind = "Array" ->
         <<Symbol("ArrayOpen")>> \o Separated([i \in DOMAIN t.kids |-> Flatten(t.kids[i])])
         \o <<Symbol("ArrayClose")>>
    [] t.kind = "Object" ->
         <<Symbol("ObjectOpen")>>
         \o Separated([i \in DOMAIN t.kids |->
                      <<Lexeme("String", t.names[i]), Symbol("colon")>> \o Flatten(t.kids[i])])
         \o <<Symbol("ObjectClose")>>
    [] t.kind \in Scalars -> <<Lexeme(t.kind, t.val)>>

-----------------------------------------------------------------------------
(* The schemas of the repository's objects.                                   *)

MCSchema ==
  "User" :>
    ("typemeta" :> FieldType("typemeta", "TypeMeta", FALSE)
     @@ "metadata" :> FieldType("metadata", "ObjectMeta", FALSE)
     @@ "spec" :> FieldType("spec", "UserSpec", FALSE))
  @@ "TypeMeta" :> ("kind" :> FieldType("kind", "string", FALSE))
  @@ "ObjectMeta" :>
    ("name" :> FieldType("name", "string", FALSE)
     @@ "namespace" :> FieldType("namespace", "string", FALSE)
     @@ "resourceVersion" :> FieldType("resource_version", "string", FALSE)
     @@ "uid" :> FieldType("uid", "string", FALSE))
  @@ "UserSpec" :>
    ("email" :> FieldType("email", "string", FALSE)
     @@ "linkedAccounts" :> FieldType("linked_accounts", "LinkedAccount", TRUE))
  @@ "LinkedAccount" :>
    ("providerID" :> FieldType("providerID", "string", FALSE)
     @@ "providerUserID" :> FieldType("providerUserID", "string", FALSE)
     @@ "providerUserName" :> FieldType("providerUserName", "string", FALSE))
  @@ "AppInstallation" :>
    ("typemeta" :> FieldType("typemeta", "TypeMeta", FALSE)
     @@ "metadata" :> FieldType("metadata", "ObjectMeta", FALSE)
     @@ "spec" :> FieldType("spec", "AppInstallationSpec", FALSE))
  @@ "AppInstallationSpec" :>
    ("id" :> FieldType("id", "int64", FALSE)
     @@ "account" :> FieldType("account", "GithubAccount", FALSE))
  @@ "GithubAccount" :>
    ("id" :> FieldType("id", "int64", FALSE)
     @@ "login" :> FieldType("login", "string", FALSE))

MCKindOf ==
  "User" :> [apiVersion |-> "kweb.dev/v1alpha1", kind |-> "User"]
  @@ "AppInstallation" :> [apiVersion |-> "github.kweb.dev/v1alpha1", kind |-> "AppInstallation"]

MCSpelling ==
  "0" :> <<"0">> @@ "1" :> <<"1">> @@ "10" :> <<"1", "0">> @@ "16" :> <<"1", "6">>
  @@ "-16" :> <<"-", "1", "6">> @@ "1.5" :> <<"1", ".", "5">> @@ "1e1" :> <<"1", "e", "1">>

MCContents ==
  "1" :> <<Lexeme("Number", "1")>>
  @@ "1 16" :> <<Lexeme("Number", "1"), Lexeme("Number", "16")>>
  @@ "[1]" :> <<Symbol("ArrayOpen"), Lexeme("Number", "1"), Symbol("ArrayClose")>>

\* The integers that numbers, and strings, are read as.
MeantInt ==
  Num("0") :> "0" @@ Num("1") :> "1" @@ Num("10") :> "10" @@ Num("1e1") :> "10"
  @@ Num("-16") :> "-16" @@ Quoted("1") :> "1" @@ Quoted("1 16") :> "1"

-----------------------------------------------------------------------------
(* The cases.                                                                 *)

Anything == {Null, Num("1"), Obj(<<>>), Arr(<<Num("1"), Obj(<<<<"a", Arr(<<>>)>>>>)>>)}
NameA == Obj(<<<<"name", Quoted("a")>>>>)
EmailA == Obj(<<<<"email", Quoted("a")>>>>)
Accounts == Objs({<<"providerID", Quoted("a")>>, <<"providerUserID", Quoted("a")>>, <<"kind", Null>>}, 2)

MetadataTrees ==
  Objs(Members({"name", "resourceVersion", "resource_version"}, {Quoted("a"), Null})
       \cup Members({"uid", "generation", "labels"}, {Num("1")}), 2)

SpecTrees ==
  Objs(Members({"email"}, {Quoted("a"), Quoted(""), Null, Num("1")})
       \cup Members({"linkedAccounts", "linked_accounts"},
                    {Null, Quoted("a"), Arr(<<Null>>)} \cup {Arr(as) : as \in BoundedSeq(Accounts, 1)}), 2)

UserTrees ==
  {Null, Quoted("a"), Arr(<<>>)}
  \cup {Obj(<<<<"metadata", m>>>>) : m \in MetadataTrees}
  \cup {Obj(<<<<"spec", s>>>>) : s \in SpecTrees}
  \cup {Obj(<<<<"spec", Obj(<<<<"linkedAccounts", Arr(as)>>>>)>>>>) : as \in BoundedSeq(Accounts, 2)}
  \cup Objs(Members({"spec"}, {Null, Quoted("a"), Obj(<<>>), EmailA})
            \cup Members({"metadata"}, {NameA}) \cup Members({"typemeta"}, {Obj(<<<<"kind", Quoted("a")>>>>)})
            \cup Members({"kind"}, Anything) \cup Members({"bogus"}, {Null}), 3)

AppTrees ==
  {Obj(<<<<"spec", s>>>>) :
     s \in Objs(Members({"id"}, {Num(v) : v \in DOMAIN MCSpelling} \cup {Quoted(v) : v \in DOMAIN MCContents}
                                \cup {Null, Quoted("a"), Quoted(""), Arr(<<>>)})
                \cup {<<"account", Obj(<<<<"login", Quoted("a")>>, <<"id", Num("10")>>>>)>>}, 2)}

ListTrees ==
  {Null} \cup
  Objs(Members({"items"}, {Null} \cup {Arr(is) : is \in BoundedSeq({Obj(<<>>), Obj(<<<<"metadata", NameA>>>>),
                                                                   Obj(<<<<"bogus", Null>>>>)}, 2)})
       \cup Members({"kind", "apiVersion"}, {Quoted("a"), Quoted("UserList"), Null})
       \cup Members({"metadata"}, Anything) \cup {<<"bogus", Null>>}, 2)

\* What the texts that are edited are before.
EditedTrees ==
  {Obj(<<<<"kind", Arr(<<Num("1")>>)>>>>), Obj(<<<<"kind", Arr(<<Obj(<<<<"a", Null>>>>)>>)>>>>),
   Obj(<<<<"kind", Arr(<<Obj(<<<<"a", Null>>>>), Obj(<<>>)>>)>>>>),
   Obj(<<<<"metadata", NameA>>>>), Obj(<<<<"spec", Obj(<<<<"linkedAccounts", Arr(<<Obj(<<>>)>>)>>>>)>>>>)}

UserFacts ==
  {<<<<"metadata", "name">>, "a">>, <<<<"metadata", "resourceVersion">>, "1">>,
   <<<<"spec", "email">>, "a">>, <<<<"spec">>, "{}">>,
   <<<<"spec", "linkedAccounts", "0", "providerID">>, "a">>,
   <<<<"spec", "linkedAccounts", "0", "providerUserID">>, "b">>,
   <<<<"spec", "linkedAccounts", "1">>, "{}">>}

AppFacts ==
  {<<<<"typemeta", "kind">>, "a">>, <<<<"metadata">>, "{}">>,
   <<<<"spec", "id">>, "10">>, <<<<"spec", "account", "id">>, "-16">>,
   <<<<"spec", "account", "login">>, "a">>}

\* The messages in which the populated fields and the elements of lists are there.
WholeMessages(facts) ==
  LET around(fact) == {p \in Prefixes(Front(fact[1])) : p = <<>> \/ Last(p) # "linkedAccounts"}
      present(m)   == Present(<<>>) \cup UNION {Present(p) : p \in UNION {around(f) : f \in m}}
  IN  {m \in {c \cup present(c) : c \in SUBSET facts} :
         \A f \in m : f[1] = <<"spec", "linkedAccounts", "1">>
                        => Present(<<"spec", "linkedAccounts", "0">>) \subseteq m}

Case(kind, type, tree, m) == [kind |-> kind, type |-> type, tree |-> tree, message |-> m]

Cases ==
  {Case("object", "User", t, {}) : t \in UserTrees}
  \cup {Case("object", "AppInstallation", t, {}) : t \in AppTrees}
  \cup {Case("list", "User", t, {}) : t \in ListTrees}
  \cup {Case("edited", "User", t, {}) : t \in EditedTrees}
  \cup {Case("editedList", "User", Obj(<<<<"items", Arr(<<Obj(<<>>)>>)>>>>), {})}
  \cup {Case("message", "User", Null, m) : m \in WholeMessages(UserFacts)}
  \cup {Case("message", "AppInstallation", Null, m) : m \in WholeMessages(AppFacts)}
  \cup {Case("numeral", "User", Null, {})}

IsTree == given.kind \in {"object", "list"}
IsEdited == given.kind \in {"edited", "editedList"}

MCInit ==
  /\ Init
  /\ given \in Cases
  /\ numeral = <<>>
  /\ edits = IF IsEdited THEN MaxEdits ELSE 0
  /\ IF given.kind = "message"
     THEN WriterInit(given.message, given.type)
     ELSE /\ source = {} /\ calls = <<>> /\ lastKind = "none"
          /\ out = IF given.kind = "numeral" THEN <<>> ELSE Flatten(given.tree)

\* What a text may be changed to by one lexeme.
Edits(text) ==
  LET lexemes == {Symbol(k) : k \in Opens \cup Closes \cup {"comma", "colon", "Null", "invalid"}}
                 \cup {Lexeme("Number", "1"), Lexeme("String", "a"), Lexeme("String", "kind")}
  IN  {RemoveAt(text, i) : i \in DOMAIN text}
      \cup {ReplaceAt(text, i, l) : i \in DOMAIN text, l \in lexemes}
      \cup {InsertAt(text, i, l) : i \in 1..(Len(text) + 1), l \in lexemes}

Edit ==
  /\ edits > 0 /\ outcome = "idle"
  /\ out' \in Edits(out)
  /\ edits' = edits - 1
  /\ UNCHANGED <<vars, source, calls, lastKind, given, numeral>>

ReadText ==
  /\ given.kind # "numeral" /\ calls = <<>>
  /\ Start(out, IF given.kind \in {"list", "editedList"}
                THEN UnmarshalKubeList(given.type) ELSE Unmarshal(given.type))
  /\ UNCHANGED <<writerVars, given, edits, numeral>>

AddNumeralRune ==
  /\ given.kind = "numeral" /\ Len(numeral) < MaxNumeral
  /\ \E c \in NumeralRunes : numeral' = Append(numeral, c)
  /\ UNCHANGED <<vars, writerVars, given, edits>>

MCNext ==
  \/ ReadText \/ Edit \/ AddNumeralRune
  \/ Next /\ UNCHANGED <<writerVars, given, edits, numeral>>
  \/ WriterNext /\ UNCHANGED <<vars, given, edits, numeral>>

MCSpec == MCInit /\ [][MCNext]_allVars

-----------------------------------------------------------------------------
(* What is meant.                                                             *)

\* What a tree means that means nothing.
Bad == {<<<<>>, "bad">>}

\* What a tree populates as a field of this kind.
RECURSIVE TreeMeaning(_, _, _, _)
TreeMeaning(t, kind, list, path) ==
  CASE list ->
         IF t.kind # "Array" THEN Bad
         ELSE UNION {TreeMeaning(t.kids[i], kind, FALSE, Append(path, ToString(i - 1))) : i \in DOMAIN t.kids}
    [] ~list /\ kind = "string" -> IF t.kind = "String" THEN Populated(path, t.val) ELSE Bad
    [] ~list /\ kind = "int64" -> IF t \in DOMAIN MeantInt THEN Populated(path, MeantInt[t]) ELSE Bad
    [] ~list /\ kind \in DOMAIN Schema ->
         LET field(i) == Named(kind, t.names[i])
             again(i) == \E k \in 1..(i - 1) : field(k) = field(i)
             member(i) ==
               CASE field(i) = {} -> IF t.names[i] \in Skipped THEN {} ELSE Bad
                 [] field(i) # {} /\ again(i) -> Bad
                 [] field(i) # {} /\ ~again(i) /\ t.kids[i].kind = "Null" -> {}
                 [] OTHER -> LET f == FieldOf(kind, t.names[i])
                             IN  TreeMeaning(t.kids[i], Schema[kind][f].kind, Schema[kind][f].list, Append(path, f))
         IN  IF t.kind # "Object" THEN Bad ELSE Present(path) \cup UNION {member(i) : i \in DOMAIN t.kids}

MeansNothing(m) == Bad \subseteq m

\* The trees of the items of a list of objects, and the strings it has of a name.
ItemTrees(t) ==
  FlattenSeq([i \in DOMAIN t.names |-> IF t.names[i] = "items" THEN t.kids[i].kids ELSE <<>>])
LastString(t, name) ==
  LET at == {i \in DOMAIN t.names : t.names[i] = name} IN IF at = {} THEN "" ELSE t.kids[Max(at)].val

ListMeansNothing(t, type) ==
  \/ t.kind # "Object"
  \/ \E i \in DOMAIN t.names :
       CASE t.names[i] = "items" -> t.kids[i].kind # "Array"
         [] t.names[i] \in {"apiVersion", "kind"} -> t.kids[i].kind # "String"
         [] OTHER -> t.names[i] # "metadata"
  \/ \E i \in DOMAIN ItemTrees(t) : MeansNothing(TreeMeaning(ItemTrees(t)[i], type, FALSE, <<>>))

(* The numbers a sequence of runes spells, cut into its parts: the grammar of  *)
(* JSON numbers, RFC 7159 section 6.                                           *)
Readings(s) ==
  LET digits(i, j) == i <= j /\ \A k \in i..j : s[k] \in Digits
      first == IF At(s, 1) = "-" THEN 2 ELSE 1
      signed(i) == IF At(s, i) \in {"-", "+"} THEN i + 1 ELSE i
  IN  {[neg |-> first = 2, intp |-> SubSeq(s, first, i), frac |-> SubSeq(s, i + 2, j),
        exp |-> SubSeq(s, j + 2, Len(s))] :
          <<i, j>> \in {<<i, j>> \in (DOMAIN s) \X (DOMAIN s) :
            /\ digits(first, i) /\ (s[first] = "0" => i = first)
            /\ j = i \/ (At(s, i + 1) = "." /\ digits(i + 2, j))
            /\ j = Len(s) \/ (At(s, j + 1) = "e" /\ digits(signed(j + 2), Len(s)))}}

\* The integer a number is, if it is one that is in reach of its exponent.
IntegerValue(n) ==
  LET digits == DecimalValue(n.intp \o n.frac)
      exp    == SignedValue(n.exp)
      shift  == exp - Len(n.frac)
      whole  == IF n.intp = <<"0">> THEN 0 ELSE Len(n.intp)
      value  == IF shift >= 0 THEN digits * 10^shift ELSE digits \div 10^(-shift)
  IN  CASE digits = 0 -> {0}
        [] digits # 0 /\ exp >= 0 /\ whole + exp > MaxDigits -> {}
        [] digits # 0 /\ -shift > MaxNumeral -> {}
        [] digits # 0 /\ shift < 0 /\ -shift <= MaxNumeral /\ digits % 10^(-shift) # 0 -> {}
        [] OTHER -> {IF n.neg THEN -value ELSE value}

-----------------------------------------------------------------------------
(* Properties.                                                                *)

(* A JSON text is read as what its tree means, and with an error exactly if it *)
(* means nothing: a member names a field of the type by either name, no field  *)
(* is named twice, a null leaves a field unset, the known members of every     *)
(* kubernetes object are skipped with all that is in them. Of a list, the      *)
(* items read so far are its first, in their order and each with nothing of    *)
(* another (decode.go:111-256, list.go:49-155).                                *)
MeansTheTree ==
  LET meant(t) == TreeMeaning(t, given.type, FALSE, <<>>)
  IN  /\ given.kind = "object" /\ outcome \in {"done", "error"} =>
           IF MeansNothing(meant(given.tree))
           THEN outcome = "error"
           ELSE outcome = "done" /\ message = meant(given.tree)
      /\ given.kind = "list" =>
           LET trees == ItemTrees(given.tree)
           IN  /\ Len(items) <= Len(trees)
               /\ \A i \in DOMAIN items : items[i] = meant(trees[i])
               /\ outcome = "error" => ListMeansNothing(given.tree, given.type)
               /\ outcome = "done" =>
                    /\ ~ListMeansNothing(given.tree, given.type)
                    /\ Len(items) = Len(trees)
                    /\ \A name \in {"apiVersion", "kind"} : meta[name] = LastString(given.tree, name)

(* What is marshalled reads back as the same message, in whatever order its    *)
(* fields come: the commas, the added apiVersion and kind, the names, and the  *)
(* integers written as numbers are such as Unmarshal takes (json.go:191-335,   *)
(* encode.go:221-271).                                                         *)
ReadBack ==
  given.kind = "message" =>
    /\ outcome # "error"
    /\ outcome = "done" => message = given.message

(* Up to the first delimiter, a JSON number is read as such, and it is an      *)
(* integer of the type exactly if its value is, unless its exponent makes it   *)
(* longer than the largest one. Nothing else is read as a number, but for one  *)
(* whose exponent has no digits, if text comes after it                        *)
(* (decode_number.go:16-254, decode_token.go:145-183).                         *)
NumbersAreRead ==
  LET delims   == {i \in DOMAIN numeral : numeral[i] = ","}
      runes    == IF delims = {} THEN numeral ELSE SubSeq(numeral, 1, Min(delims) - 1)
      readings == Readings(runes)
      noDigits == \E k \in {1, 2} :
                    /\ k < Len(runes) /\ Len(runes) < Len(numeral)
                    /\ Readings(SubSeq(runes, 1, Len(runes) - k)) # {}
                    /\ \A n \in Readings(SubSeq(runes, 1, Len(runes) - k)) : n.exp = <<>>
                    /\ SubSeq(runes, Len(runes) - k + 1, Len(runes)) \in {<<"e">>, <<"e", "-">>, <<"e", "+">>}
  IN  /\ ParseNumber(numeral).ok <=> (readings # {} \/ noDigits)
      /\ ParseNumber(numeral).ok => ParseNumber(numeral).size = Len(runes)
      /\ \A n \in readings :
           /\ TokenInt(runes) = IntegerValue(n) \cap -(2^(Bits - 1))..(2^(Bits - 1) - 1)
           /\ TokenUint(runes) = IntegerValue(n) \cap 0..(2^Bits - 1)

=============================================================================
