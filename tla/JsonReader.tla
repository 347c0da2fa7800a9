------------------------------ MODULE JsonReader ------------------------------
(* The tokens kubejson takes from a JSON text, one Read or Peek at a time. A   *)
(* text is a sequence of lexemes; the reader itself checks that they come in   *)
(* the order of a JSON text, as far as it does.                                *)
EXTENDS Naturals, SequencesExt

Lexeme(kind, val) == [kind |-> kind, val |-> val]
Symbol(kind) == Lexeme(kind, "")

Scalars == {"Null", "Bool", "Number", "String"}
Closes  == {"ObjectClose", "ArrayClose"}
Opens   == {"ObjectOpen", "ArrayOpen"}

\* The lexemes a text may consist of: what is none of the others is invalid.
Lexemes == [kind : Scalars \cup Opens \cup Closes \cup {"comma", "colon", "invalid"}, val : STRING]

NewDecoder(text) ==
  [orig     |-> text,
   in       |-> text,
   lastCall |-> "Read",
   last     |-> Symbol("none"),   \* lastToken
   lastOk   |-> TRUE,             \* lastErr = nil
   stack    |-> <<>>]             \* openStack

IsValueNext(d) ==
  CASE d.stack = <<>> -> d.last.kind = "none"
    [] d.stack # <<>> /\ Last(d.stack) = "ObjectOpen" -> d.last.kind = "Name"
    [] d.stack # <<>> /\ Last(d.stack) = "ArrayOpen" -> d.last.kind \in {"ArrayOpen", "comma"}

\* The token that comes next: a string where no value may be is a member's name,
\* together with the colon behind it.
ParseNext(d) ==
  LET rest == Tail(d.in)
  IN  CASE d.in = <<>> -> [tok |-> Symbol("EOF"), in |-> <<>>]
        [] d.in # <<>> /\ Head(d.in).kind = "String" /\ ~IsValueNext(d)
           /\ rest # <<>> /\ Head(rest).kind = "colon" ->
             [tok |-> Lexeme("Name", Head(d.in).val), in |-> Tail(rest)]
        [] OTHER -> [tok |-> Head(d.in), in |-> rest]

\* Mutant of InSequence: an object may be closed behind a comma.
InSequenceAfterComma(d, kind) ==
  CASE kind = "EOF" -> d.stack = <<>>
    [] kind \in Scalars \cup Opens -> IsValueNext(d)
    [] kind = "Name" -> d.last.kind \in {"ObjectOpen", "comma"}
    [] kind = "ObjectClose" -> d.stack # <<>> /\ Last(d.stack) = "ObjectOpen"
    [] kind = "ArrayClose" -> d.stack # <<>> /\ Last(d.stack) = "ArrayOpen" /\ d.last.kind # "comma"
    [] kind = "comma" -> d.stack # <<>> /\ d.last.kind \in Scalars \cup Closes
    [] OTHER -> FALSE

\* May a token of this kind come next. An object may be closed behind a name, and
\* the text may end with no value at all; the callers do not take either.
InSequence(d, kind) ==
  CASE kind = "EOF" -> d.stack = <<>>
    [] kind \in Scalars \cup Opens -> IsValueNext(d)
    [] kind = "Name" -> d.last.kind \in {"ObjectOpen", "comma"}
    [] kind = "ObjectClose" -> d.stack # <<>> /\ Last(d.stack) = "ObjectOpen" /\ d.last.kind # "comma"
    [] kind = "ArrayClose" -> d.stack # <<>> /\ Last(d.stack) = "ArrayOpen" /\ d.last.kind # "comma"
    [] kind = "comma" -> d.stack # <<>> /\ d.last.kind \in Scalars \cup Closes
    [] OTHER -> FALSE

NewStack(stack, kind) ==
  CASE kind \in Opens  -> Append(stack, kind)
    [] kind \in Closes -> Front(stack)
    [] OTHER -> stack

\* One token, a comma being one.
Take(d, next) ==
  IF InSequence(d, next.tok.kind)
  THEN [ok |-> TRUE, tok |-> next.tok,
        dec |-> [d EXCEPT !.in = next.in, !.last = next.tok,
                          !.stack = NewStack(d.stack, next.tok.kind)]]
  ELSE [ok |-> FALSE, tok |-> Symbol("none"), dec |-> [d EXCEPT !.in = next.in]]

\* A comma is read past. None is in sequence behind another.
PastComma(taken) ==
  IF taken.tok.kind = "comma" THEN Take(taken.dec, ParseNext(taken.dec)) ELSE taken

\* A Read or Peek behind a Peek returns what that has seen.
Look(d) ==
  IF d.lastCall = "Peek"
  THEN [ok |-> d.lastOk, tok |-> d.last, dec |-> d]
  ELSE PastComma(Take(d, ParseNext(d)))

Peeked(seen) ==
  [seen EXCEPT !.dec = [@ EXCEPT !.lastCall = "Peek", !.last = seen.tok, !.lastOk = seen.ok]]

\* Whether a token is there, the token, and the reader after the call.
Read(d) == [Look(d) EXCEPT !.dec.lastCall = "Read"]
Peek(d) == Peeked(Look(d))
=============================================================================
