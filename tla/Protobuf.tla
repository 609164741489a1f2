------------------------------ MODULE Protobuf ------------------------------
(***************************************************************************)
(* google.protobuf (external), as far as the client sees it: messages are  *)
(* made with the constructor of their class and read field by field, and   *)
(* they become bytes and come back from them.  How they do is a parameter: *)
(* module Wire has the format.                                             *)
(*                                                                         *)
(* A message is a function of the names of its fields; a submessage or a   *)
(* member of a oneof that is not set is not in its domain.  Bytes, and     *)
(* strings, are sequences of pieces, so that they can be concatenated and  *)
(* nested: a piece is a field, <<number, wire type, value>>, or data that  *)
(* is no message, <<0, what it is, value>>.                                *)
(***************************************************************************)
EXTENDS Naturals, Sequences, Protos

CONSTANTS
    Schema,                  \* the descriptors in use: the fields of each type
    SerializeToString(_, _), \* the bytes of a message of a type
    WellFormed(_, _),        \* bytes that FromString takes: otherwise it raises
    FromString(_, _),        \* the message of a type that is in the bytes
    IsMessage(_, _)          \* the messages of a type

Opaque(what, x) == << <<0, what, x>> >>

\* A str with ASCII characters only.
Text(s) == IF s = "" THEN <<>> ELSE Opaque("text", s)

Hash(bytes) == Opaque("sha256", bytes)

HexDigest(bytes) == Opaque("hex", bytes)

-----------------------------------------------------------------------------

Fields(type) == Schema[type]

\* A field that is always there to read: its default if it was not set.
HasDefault(field) ==
    field.label = "repeated" \/ (field.kind # "message" /\ field.oneof = "")

Default(field) ==
    CASE field.label = "repeated" \/ field.kind \in {"string", "bytes"} -> <<>>
      [] field.kind = "bool" /\ field.label # "repeated"               -> FALSE
      [] OTHER                                                         -> 0

\* The fields that are there before any is set.
Defaults(fields) ==
    [f \in {g \in DOMAIN fields : HasDefault(fields[g])} |-> Default(fields[f])]

\* A message with the given fields, and the others as they were.
With(values, message) ==
    [f \in DOMAIN values \cup DOMAIN message |->
        IF f \in DOMAIN values THEN values[f] ELSE message[f]]

\* The constructor of a message class.
New(type, values) == With(values, Defaults(Fields(type)))

\* HasField, for a submessage or a member of a oneof.
Has(message, f) == f \in DOMAIN message

\* Reading a submessage that is not set gives an empty one.
Sub(type, message, f) ==
    IF Has(message, f) THEN message[f] ELSE New(Fields(type)[f].of, <<>>)

-----------------------------------------------------------------------------

\* The values a field can have, if Is has the messages: a str is text or
\* hexadecimal digits.
FitsOne(Is(_, _), field, v) ==
    /\ field.kind = "message" => Is(field.of, v)
    /\ field.kind = "bool" => v \in BOOLEAN
    /\ field.kind \in {"int", "enum"} => v \in Nat
    /\ field.kind = "string" =>
          \A i \in DOMAIN v : v[i][2] \in {"text", "hex"}

Fits(Is(_, _), field, v) ==
    IF field.label = "repeated"
    THEN /\ Len(v) \in Nat
         /\ v = [i \in 1..Len(v) |-> v[i]]
         /\ \A i \in 1..Len(v) : FitsOne(Is, field, v[i])
    ELSE FitsOne(Is, field, v)

\* The fields are those of the type, each with a value of its own type, and of
\* a oneof there is at most one.
MessageOf(Is(_, _), type, m) ==
    LET fields == Fields(type)
    IN  /\ m = [f \in DOMAIN m |-> m[f]]
        /\ DOMAIN Defaults(fields) \subseteq DOMAIN m
        /\ DOMAIN m \subseteq DOMAIN fields
        /\ \A f \in DOMAIN m : Fits(Is, fields[f], m[f])
        /\ \A f \in DOMAIN m, g \in DOMAIN m :
              fields[f].oneof # "" /\ fields[f].oneof = fields[g].oneof => f = g

\* An empty message has no bytes.
EmptyMessage(type) == SerializeToString(type, New(type, <<>>)) = <<>>

\* What the library promises, for whoever reasons about its users: with fields
\* of the right types comes a message, and from its bytes the same one comes
\* back.
Promise ==
    \A type \in DOMAIN Schema :
        /\ EmptyMessage(type)
        /\ \A m :
              /\ MessageOf(IsMessage, type, m) => IsMessage(type, m)
              /\ IsMessage(type, m) =>
                    /\ WellFormed(type, SerializeToString(type, m))
                    /\ FromString(type, SerializeToString(type, m)) = m
=============================================================================
