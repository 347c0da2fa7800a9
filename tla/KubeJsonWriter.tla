---------------------------- MODULE KubeJsonWriter ----------------------------
(* Marshal of kubejson, as the kubernetes client uses it: on a single line. A  *)
(* step is what one of the mutually recursive functions does for one field or  *)
(* element; calls is the stack of their calls, the innermost last. The fields  *)
(* of a message come in no defined order.                                      *)
EXTENDS KubeMessages, JsonReader

CONSTANT
  KindOf          \* The apiVersion and kind of the message types that are kube.Objects.

VARIABLES
  source,         \* The message that is written.
  calls,          \* The calls that are under way.
  out,            \* The text written so far.
  lastKind        \* What the encoder wrote last.

writerVars == <<source, calls, out, lastKind>>

MarshalCall(at, type, path, left) ==
  [at |-> at, type |-> type, path |-> path, left |-> left, n |-> 0]

Caller == Last(calls)

-----------------------------------------------------------------------------
(* The encoder.                                                               *)

Write(kind, lexemes) == [kind |-> kind, lexemes |-> lexemes]
WriteName(name)      == Write("name", <<Lexeme("String", name), Symbol("colon")>>)
WriteScalar(tok)     == Write("scalar", <<tok>>)
WriteSymbol(kind)    == Write(kind, <<Symbol(kind)>>)

\* Mutant of PrepareNext: there is no comma behind an object or array.
PrepareNextToScalar(last, kind) ==
  IF last = "scalar" /\ kind \in {"name", "scalar"} \cup Opens THEN <<Symbol("comma")>> ELSE <<>>

\* The comma in front of what comes next.
PrepareNext(last, kind) ==
  IF last \in {"scalar"} \cup Closes /\ kind \in {"name", "scalar"} \cup Opens
  THEN <<Symbol("comma")>>
  ELSE <<>>

Written(writes) ==
  FoldLeft(LAMBDA enc, w : [out  |-> enc.out \o PrepareNext(enc.last, w.kind) \o w.lexemes,
                            last |-> w.kind],
           [out |-> out, last |-> lastKind], writes)

WriteAll(writes) ==
  LET enc == Written(writes) IN out' = enc.out /\ lastKind' = enc.last

-----------------------------------------------------------------------------
(* The message.                                                               *)

WriterInit(m, type) ==
  /\ source = m
  /\ calls = <<MarshalCall("message", type, <<>>, {})>>
  /\ out = <<>>
  /\ lastKind = "none"

\* apiVersion and kind of a kube.Object come first.
TypeMeta(type) ==
  IF type \notin DOMAIN KindOf
  THEN <<>>
  ELSE <<WriteName("apiVersion"), WriteScalar(Lexeme("String", KindOf[type].apiVersion)),
         WriteName("kind"), WriteScalar(Lexeme("String", KindOf[type].kind))>>

StartMessage ==
  /\ calls # <<>> /\ Caller.at = "message"
  /\ WriteAll(<<WriteSymbol("ObjectOpen")>> \o TypeMeta(Caller.type))
  /\ calls' = Append(Front(calls), [Caller EXCEPT !.at = "fields",
                                                  !.left = FieldsIn(source, Caller.type, Caller.path)])
  /\ UNCHANGED source

\* The token of a scalar field: an int64 is a number, not a string.
ScalarToken(f, path) ==
  Lexeme(IF f.kind = "int64" THEN "Number" ELSE "String", ValueIn(source, path))

WriteField ==
  /\ calls # <<>> /\ Caller.at = "fields"
  /\ \E field \in Caller.left :
       LET f    == Schema[Caller.type][field]
           path == Append(Caller.path, field)
           rest == Append(Front(calls), [Caller EXCEPT !.left = @ \ {field}])
       IN  CASE f.list ->
                  /\ WriteAll(<<WriteName(field), WriteSymbol("ArrayOpen")>>)
                  /\ calls' = Append(rest, MarshalCall("elements", f.kind, path, {}))
             [] ~f.list /\ f.kind \in DOMAIN Schema ->
                  /\ WriteAll(<<WriteName(field)>>)
                  /\ calls' = Append(rest, MarshalCall("message", f.kind, path, {}))
             [] ~f.list /\ f.kind \notin DOMAIN Schema ->
                  /\ WriteAll(<<WriteName(field), WriteScalar(ScalarToken(f, path))>>)
                  /\ calls' = rest
  /\ UNCHANGED source

EndMessage ==
  /\ calls # <<>> /\ Caller.at = "fields" /\ Caller.left = {}
  /\ WriteAll(<<WriteSymbol("ObjectClose")>>)
  /\ calls' = Front(calls)
  /\ UNCHANGED source

ElementPath == Append(Caller.path, ToString(Caller.n))

WriteElement ==
  /\ calls # <<>> /\ Caller.at = "elements" /\ Present(ElementPath) \subseteq source
  /\ calls' = Front(calls) \o <<[Caller EXCEPT !.n = @ + 1],
                                MarshalCall("message", Caller.type, ElementPath, {})>>
  /\ UNCHANGED <<source, out, lastKind>>

EndArray ==
  /\ calls # <<>> /\ Caller.at = "elements" /\ ~(Present(ElementPath) \subseteq source)
  /\ WriteAll(<<WriteSymbol("ArrayClose")>>)
  /\ calls' = Front(calls)
  /\ UNCHANGED source

WriterNext == StartMessage \/ WriteField \/ EndMessage \/ WriteElement \/ EndArray
=============================================================================
