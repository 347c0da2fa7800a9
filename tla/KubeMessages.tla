----------------------------- MODULE KubeMessages -----------------------------
(* The messages kubejson reads and writes. A message is the set of what is     *)
(* populated in it: pairs of a path, which is a sequence of field names and    *)
(* list indices, and the value there.                                          *)
EXTENDS SequencesExt

CONSTANT
  Schema          \* The fields of each message type, by their JSON names.

\* A field is a string, an int64, a message, or a list of messages.
FieldType(text, kind, list) == [text |-> text, kind |-> kind, list |-> list]

\* A field can be named by its JSON name or by its name in the proto file.
Named(type, name) ==
  IF name \in DOMAIN Schema[type]
  THEN {name}
  ELSE {f \in DOMAIN Schema[type] : Schema[type][f].text = name}

FieldOf(type, name) == CHOOSE f \in Named(type, name) : TRUE

\* Populated under a path by a scalar; the zero value of proto3 is not there.
Populated(path, val) == IF val \in {"", "0"} THEN {} ELSE {<<path, val>>}

\* A message field that is set is there even if the message is empty.
Present(path) == {<<path, "{}">>}

\* Which fields of the message at path, of this type, are populated in m.
FieldsIn(m, type, path) ==
  {f \in DOMAIN Schema[type] : \E fact \in m : IsPrefix(Append(path, f), fact[1])}

ValueIn(m, path) == (CHOOSE fact \in m : fact[1] = path)[2]
=============================================================================
