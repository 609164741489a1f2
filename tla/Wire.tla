-------------------------------- MODULE Wire --------------------------------
(***************************************************************************)
(* The wire format of google.protobuf (external): the values for TLC of    *)
(* what is a parameter in Protobuf, driven by the descriptors of Protos.   *)
(***************************************************************************)
EXTENDS Protobuf
LOCAL INSTANCE SequencesExt
LOCAL INSTANCE TLC

WireType(field) == IF field.kind \in {"int", "enum", "bool"} THEN "varint" ELSE "len"

\* The pieces of a message with the given fields, in the order of the fields'
\* numbers.  proto3 leaves a field out that has its default value, unless it is
\* in a oneof.
RECURSIVE Serialize(_, _)
Serialize(fields, message) ==
    LET Value(field, v) ==
            CASE field.kind = "message" -> Serialize(Fields(field.of), v)
              [] field.kind = "bool"    -> IF v THEN 1 ELSE 0
              [] OTHER                  -> v
        Piece(field, v) == <<field.number, WireType(field), Value(field, v)>>
        Pieces(field, v) ==
            CASE field.label = "repeated" -> [i \in DOMAIN v |-> Piece(field, v[i])]
              [] HasDefault(field) /\ v = Default(field) -> <<>>
              [] OTHER                                   -> <<Piece(field, v)>>
        Numbered(n) == {f \in DOMAIN message : fields[f].number = n}
        PiecesOf(set) ==
            IF set = {} THEN <<>>
            ELSE LET f == CHOOSE g \in set : TRUE
                 IN  Pieces(fields[f], message[f])
    IN  FlattenSeq([n \in 1..MaxNumber |-> PiecesOf(Numbered(n))])

WireSerializeToString(type, message) == Serialize(Fields(type), message)

\* The field of a piece; none if the number is unknown.
FieldOf(fields, piece) ==
    {f \in DOMAIN fields : /\ fields[f].number = piece[1]
                           /\ WireType(fields[f]) = piece[2]}

\* The bytes that are a message with the given fields.
RECURSIVE Parses(_, _)
Parses(fields, bytes) ==
    \A i \in DOMAIN bytes :
        /\ bytes[i][1] # 0
        /\ \A f \in FieldOf(fields, bytes[i]) :
              CASE fields[f].kind = "message" ->
                      Parses(Fields(fields[f].of), bytes[i][3])
                [] fields[f].kind = "string"  ->
                      \A j \in DOMAIN bytes[i][3] :
                          bytes[i][3][j][2] \in {"text", "hex"}
                [] OTHER -> TRUE

\* Bytes that FromString takes: otherwise it raises a DecodeError.
WireWellFormed(type, bytes) == Parses(Fields(type), bytes)

\* Unknown fields are passed over, of a field or a oneof that comes more than
\* once the last one stays.
RECURSIVE Parse(_, _)
Parse(fields, bytes) ==
    LET Value(field, v) ==
            CASE field.kind = "message" -> Parse(Fields(field.of), v)
              [] field.kind = "bool"    -> v # 0
              [] OTHER                  -> v
        Others(message, name) ==
            {g \in DOMAIN message : name = "" \/ fields[g].oneof # name}
        Put(message, f, v) ==
            IF fields[f].label = "repeated"
            THEN [message EXCEPT ![f] = Append(@, v)]
            ELSE (f :> v) @@ [g \in Others(message, fields[f].oneof) |-> message[g]]
        Read(message, piece) ==
            LET known == FieldOf(fields, piece)
            IN  IF known = {} THEN message
                ELSE LET f == CHOOSE g \in known : TRUE
                     IN  Put(message, f, Value(fields[f], piece[3]))
    IN  FoldLeft(Read, Defaults(fields), bytes)

WireFromString(type, bytes) == Parse(Fields(type), bytes)

\* The messages of a type are those that fit its descriptor, all the way down.
RECURSIVE WireIsMessage(_, _)
WireIsMessage(type, m) == MessageOf(WireIsMessage, type, m)
=============================================================================
