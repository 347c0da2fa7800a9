------------------------------- MODULE KubeJson -------------------------------
(* Unmarshal and UnmarshalKubeList of kubejson: the answers of the kubernetes  *)
(* API server, read into messages. A step is what one of the mutually          *)
(* recursive functions does for one token or member; frames is the stack of    *)
(* their calls, the innermost last.                                            *)
EXTENDS KubeMessages, JsonReader, JsonNumbers

CONSTANTS
  Spelling,       \* The runes of the value of a number lexeme.
  Contents        \* The lexemes in a string, for the strings that hold some.

VARIABLES
  dec,            \* The JSON reader.
  frames,         \* The calls that are under way.
  message,        \* What is populated in the message that is being read.
  items,          \* The messages given to the callback of UnmarshalKubeList.
  meta,           \* The APIVersion and Kind UnmarshalKubeList returns.
  outcome         \* "idle", "running", "done" or "error".

vars == <<dec, frames, message, items, meta, outcome>>

-----------------------------------------------------------------------------
(* Names and values.                                                          *)

Skipped == {"apiVersion", "kind", "creationTimestamp", "generation", "managedFields"}

\* The first token of the text in a string.
FirstIn(string) ==
  Read(NewDecoder(IF string \in DOMAIN Contents THEN Contents[string] ELSE <<Symbol("invalid")>>))

\* The number an int64 is read from: the token, or the text in a string token.
NumberIn(tok) == IF tok.kind = "String" THEN FirstIn(tok.val).tok ELSE tok

\* unmarshalScalar of a token: the value it has as one of this kind, if any.
ScalarOf(kind, tok) ==
  LET number == NumberIn(tok)
  IN  CASE kind = "string" /\ tok.kind = "String" -> {tok.val}
        [] kind = "int64" /\ number.kind = "Number" -> {ToString(n) : n \in TokenInt(Spelling[number.val])}
        [] OTHER -> {}

-----------------------------------------------------------------------------
(* Calls.                                                                     *)

Frame(at, type, path) == [at |-> at, type |-> type, path |-> path, seen |-> {}, n |-> 0]
Call(at) == Frame(at, "", <<>>)

Init ==
  /\ dec = NewDecoder(<<>>)
  /\ frames = <<>>
  /\ message = {}
  /\ items = <<>>
  /\ meta = [apiVersion |-> "", kind |-> ""]
  /\ outcome = "idle"

Unmarshal(type) == Frame("message", type, <<>>)
UnmarshalKubeList(type) == Frame("kubeList", type, <<>>)

Start(text, call) ==
  /\ outcome = "idle"
  /\ dec' = NewDecoder(text)
  /\ frames' = <<Call("end"), call>>
  /\ outcome' = "running"
  /\ UNCHANGED <<message, items, meta>>

Top      == Last(frames)
Below    == Last(Front(frames))
NextRead == Read(dec)
NextPeek == Peek(dec)

\* Where an array is under way.
Arrays == {"elements", "kubeElements", "skipElements"}

Goto(at)    == frames' = Append(Front(frames), [Top EXCEPT !.at = at])
Enter(call) == frames' = Append(frames, call)
Return      == frames' = Front(frames)

\* The field a member of the message sets, if there is one.
Field == FieldOf(Top.type, NextRead.tok.val)

\* Mutant of MayBeMember: a field is known again only by the name it was set by.
MayBeMemberByName(name) ==
  IF Named(Top.type, name) = {} THEN name \in Skipped ELSE name \notin Top.seen

\* A member that is skipped, or a field that was not named before.
MayBeMember(name) ==
  IF Named(Top.type, name) = {} THEN name \in Skipped ELSE FieldOf(Top.type, name) \notin Top.seen

\* Does the innermost call go on with this token; it returns an error otherwise.
Expects(tok) ==
  CASE Top.at \in {"message", "kubeList"} -> tok.kind = "ObjectOpen"
    [] Top.at \in {"list", "kubeItems"}   -> tok.kind = "ArrayOpen"
    [] Top.at = "fields" -> tok.kind = "ObjectClose" \/ (tok.kind = "Name" /\ MayBeMember(tok.val))
    [] Top.at = "kubeFields" ->
         tok.kind = "ObjectClose"
         \/ (tok.kind = "Name" /\ tok.val \in {"apiVersion", "kind", "metadata", "items"})
    [] Top.at = "scalar"     -> ScalarOf(Top.type, tok) # {}
    [] Top.at = "kubeString" -> tok.kind = "String"
    [] Top.at \in {"skip", "skipFields"} \cup Arrays -> tok.kind # "none"
    [] Top.at = "end" -> tok.kind = "EOF"

\* Peek and Read return the same token.
Expected == Expects(NextRead.tok)

In(at) == outcome = "running" /\ Top.at \in at /\ Expected

-----------------------------------------------------------------------------
(* unmarshalMessage.                                                          *)

OpenMessage ==
  /\ In({"message"})
  /\ dec' = NextRead.dec
  /\ Goto("fields")
  /\ UNCHANGED <<message, items, meta, outcome>>

\* The message is set in the one that has it, appended to its list, or given to
\* the callback; the next item of a list of objects starts empty.
CloseMessage ==
  /\ In({"fields"}) /\ NextRead.tok.kind = "ObjectClose"
  /\ dec' = NextRead.dec
  /\ Return
  /\ LET whole == message \cup Present(Top.path)
     IN  IF Below.at = "kubeElements"
         THEN items' = Append(items, whole) /\ message' = {}
         ELSE message' = whole /\ UNCHANGED items
  /\ UNCHANGED <<meta, outcome>>

SkipMember ==
  /\ In({"fields"}) /\ NextRead.tok.kind = "Name" /\ Named(Top.type, NextRead.tok.val) = {}
  /\ dec' = NextRead.dec
  /\ Enter(Call("skip"))
  /\ UNCHANGED <<message, items, meta, outcome>>

Member ==
  /\ In({"fields"}) /\ NextRead.tok.kind = "Name" /\ Named(Top.type, NextRead.tok.val) # {}

Seen == [Top EXCEPT !.seen = @ \cup {Field}]

\* A null leaves the field unset, but named.
NullMember ==
  /\ Member
  /\ LET value == Peek(NextRead.dec)
     IN  value.tok.kind = "Null" /\ dec' = Read(value.dec).dec
  /\ frames' = Append(Front(frames), Seen)
  /\ UNCHANGED <<message, items, meta, outcome>>

MemberCall(field) ==
  LET f == Schema[Top.type][field]
  IN  Frame(CASE f.list -> "list"
              [] ~f.list /\ f.kind \in DOMAIN Schema -> "message"
              [] ~f.list /\ f.kind \notin DOMAIN Schema -> "scalar",
            f.kind, Append(Top.path, field))

ReadMember ==
  /\ Member
  /\ LET value == Peek(NextRead.dec)
     IN  value.tok.kind # "Null" /\ dec' = value.dec
  /\ frames' = Front(frames) \o <<Seen, MemberCall(Field)>>
  /\ UNCHANGED <<message, items, meta, outcome>>

ReadScalar ==
  /\ In({"scalar"})
  /\ dec' = NextRead.dec
  /\ \E val \in ScalarOf(Top.type, NextRead.tok) : message' = message \cup Populated(Top.path, val)
  /\ Return
  /\ UNCHANGED <<items, meta, outcome>>

-----------------------------------------------------------------------------
(* Arrays: unmarshalList, the items of a list of objects, arrays skipped.     *)

OpenArray ==
  /\ In({"list", "kubeItems"})
  /\ dec' = NextRead.dec
  /\ Goto(IF Top.at = "list" THEN "elements" ELSE "kubeElements")
  /\ UNCHANGED <<message, items, meta, outcome>>

ElementCall ==
  CASE Top.at = "elements"     -> Frame("message", Top.type, Append(Top.path, ToString(Top.n)))
    [] Top.at = "kubeElements" -> Frame("message", Top.type, <<>>)
    [] Top.at = "skipElements" -> Call("skip")

ReadElement ==
  /\ In(Arrays) /\ NextPeek.tok.kind # "ArrayClose"
  /\ dec' = NextPeek.dec
  /\ frames' = Front(frames)
               \o <<IF Top.at = "elements" THEN [Top EXCEPT !.n = @ + 1] ELSE Top, ElementCall>>
  /\ UNCHANGED <<message, items, meta, outcome>>

CloseArray ==
  /\ In(Arrays) /\ NextPeek.tok.kind = "ArrayClose"
  /\ dec' = Read(NextPeek.dec).dec
  /\ Return
  /\ UNCHANGED <<message, items, meta, outcome>>

-----------------------------------------------------------------------------
(* skipJSONValue.                                                             *)

SkipValue ==
  /\ In({"skip"})
  /\ dec' = NextRead.dec
  /\ CASE NextRead.tok.kind = "ObjectOpen" -> Goto("skipFields")
       [] NextRead.tok.kind = "ArrayOpen"  -> Goto("skipElements")
       [] NextRead.tok.kind \notin Opens   -> Return
  /\ UNCHANGED <<message, items, meta, outcome>>

\* What is neither a name nor the end of the object is read past.
SkipField ==
  /\ In({"skipFields"})
  /\ dec' = NextRead.dec
  /\ CASE NextRead.tok.kind = "ObjectClose" -> Return
       [] NextRead.tok.kind = "Name"        -> Enter(Call("skip"))
       [] NextRead.tok.kind \notin {"ObjectClose", "Name"} -> UNCHANGED frames
  /\ UNCHANGED <<message, items, meta, outcome>>

-----------------------------------------------------------------------------
(* unmarshalKubeListObject.                                                   *)

OpenKubeList ==
  /\ In({"kubeList"})
  /\ dec' = NextRead.dec
  /\ Goto("kubeFields")
  /\ UNCHANGED <<message, items, meta, outcome>>

KubeListField ==
  /\ In({"kubeFields"}) /\ NextRead.tok.kind = "Name"
  /\ dec' = NextRead.dec
  /\ Enter(CASE NextRead.tok.val = "items"    -> Frame("kubeItems", Top.type, <<>>)
             [] NextRead.tok.val = "metadata" -> Call("skip")
             [] NextRead.tok.val \in {"apiVersion", "kind"} -> Frame("kubeString", NextRead.tok.val, <<>>))
  /\ UNCHANGED <<message, items, meta, outcome>>

ReadString ==
  /\ In({"kubeString"})
  /\ dec' = NextRead.dec
  /\ meta' = [meta EXCEPT ![Top.type] = NextRead.tok.val]
  /\ Return
  /\ UNCHANGED <<message, items, outcome>>

CloseKubeList ==
  /\ In({"kubeFields"}) /\ NextRead.tok.kind = "ObjectClose"
  /\ dec' = NextRead.dec
  /\ Return
  /\ UNCHANGED <<message, items, meta, outcome>>

-----------------------------------------------------------------------------
(* The end of the text, and errors, which end every call under way.           *)

Finish ==
  /\ In({"end"})
  /\ dec' = NextRead.dec
  /\ outcome' = "done"
  /\ UNCHANGED <<frames, message, items, meta>>

Reject ==
  /\ outcome = "running" /\ ~Expected
  /\ outcome' = "error"
  /\ UNCHANGED <<dec, frames, message, items, meta>>

Next ==
  \/ OpenMessage \/ CloseMessage \/ SkipMember \/ NullMember \/ ReadMember \/ ReadScalar
  \/ OpenArray \/ ReadElement \/ CloseArray
  \/ SkipValue \/ SkipField
  \/ OpenKubeList \/ KubeListField \/ ReadString \/ CloseKubeList
  \/ Finish \/ Reject

Spec ==
  Init /\ [][\/ \E text \in Seq(Lexemes), type \in DOMAIN Schema :
                 Start(text, Unmarshal(type)) \/ Start(text, UnmarshalKubeList(type))
            \/ Next]_vars

-----------------------------------------------------------------------------
(* JSON.                                                                      *)

\* Is the text from i to j a value, elements or members, given that json says so
\* of the shorter parts of the text.
Derives(text, json, what, i, j) ==
  LET is(kind, k)  == text[k].kind = kind
      member(k, l) == k + 2 <= l /\ is("String", k) /\ is("colon", k + 1) /\ json[<<"value", k + 2, l>>]
      commas       == {k \in (i + 1)..(j - 1) : is("comma", k)}
  IN  \/ what = "value" /\ i = j /\ text[i].kind \in Scalars
      \/ what = "value" /\ i < j /\ is("ArrayOpen", i) /\ is("ArrayClose", j)
         /\ (j = i + 1 \/ json[<<"elements", i + 1, j - 1>>])
      \/ what = "value" /\ i < j /\ is("ObjectOpen", i) /\ is("ObjectClose", j)
         /\ (j = i + 1 \/ json[<<"members", i + 1, j - 1>>])
      \/ what = "elements" /\ json[<<"value", i, j>>]
      \/ what = "elements"
         /\ \E k \in commas : json[<<"elements", i, k - 1>>] /\ json[<<"value", k + 1, j>>]
      \/ what = "members" /\ member(i, j)
      \/ what = "members"
         /\ \E k \in commas : json[<<"members", i, k - 1>>] /\ member(k + 1, j)

\* The parts of a text: what they are, where they begin and where they end.
Parts(text) == {"value", "elements", "members"} \X (1..Len(text)) \X (1..Len(text))

IsJson(text) ==
  LET json[part \in Parts(text)] == Derives(text, json, part[1], part[2], part[3])
  IN  text # <<>> /\ json[<<"value", 1, Len(text)>>]

\* No object ends where the value of a member should be.
NamesHaveValues(text) ==
  \A i \in 1..(Len(text) - 1) : text[i].kind = "colon" => text[i + 1].kind # "ObjectClose"

-----------------------------------------------------------------------------
(* Properties.                                                                *)

(* What is read to its end without an error is JSON, as skipJSONValue expects  *)
(* of the reader ("It relies on the decoder returning an error if the types    *)
(* are not in valid sequence", well_known_types.go:309-311). It is not: an     *)
(* object may end behind a name, and is skipped as the value.                  *)
ReadsOnlyJson == outcome = "done" => IsJson(dec.orig)

(* But for objects that end behind a name only JSON texts are read without an  *)
(* error, into whatever message, with whatever is skipped: the reader also     *)
(* lets a text without a value end (decode.go:69-152 of the internal package), *)
(* and its callers must notice.                                                *)
OnlyJsonIsRead == outcome = "done" /\ NamesHaveValues(dec.orig) => IsJson(dec.orig)
=============================================================================
