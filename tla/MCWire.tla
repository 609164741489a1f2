------------------------------- MODULE MCWire -------------------------------
(***************************************************************************)
(* The proofs about messages suppose Promise of google.protobuf.  Here TLC *)
(* evaluates it, for the format in Wire and the descriptors in Protos, on  *)
(* samples: of every type the messages with at most two fields set, to     *)
(* each of a few values, their zeros among them.                           *)
(***************************************************************************)
EXTENDS Wire, TLC

RECURSIVE SampleMessages(_, _)

\* The values of a field; with a depth of 0 a submessage is empty.
SampleValues(field, depth) ==
    LET one ==
            CASE field.kind = "int"     -> {0, 1}
              [] field.kind = "bool"    -> BOOLEAN
              [] field.kind = "string"  -> {<<>>, Text("x")}
              [] field.kind = "bytes"   -> {<<>>, Opaque("data", 1)}
              [] field.kind = "enum"    ->
                    {Enums[field.of][v] : v \in DOMAIN Enums[field.of]}
              [] field.kind = "message" -> SampleMessages(field.of, depth)
    IN  IF field.label = "repeated"
        THEN {<<v>> : v \in one} \cup {<<v, w>> : v \in one, w \in one}
        ELSE one

\* The empty message and the messages with one field set; with a depth of 0
\* only the empty one.
SampleMessages(t, depth) ==
    LET fields == Fields(t)
    IN  {New(t, <<>>)}
        \cup IF depth = 0 THEN {}
             ELSE UNION {{New(t, f :> v) : v \in SampleValues(fields[f], depth - 1)} :
                            f \in DOMAIN fields}

\* Two fields that can be set together.
SamplePairs(t) ==
    LET fields == Fields(t)
    IN  {<<f, g>> \in (DOMAIN fields) \X (DOMAIN fields) :
            f # g /\ (fields[f].oneof = "" \/ fields[f].oneof # fields[g].oneof)}

Samples(t) ==
    LET fields == Fields(t)
    IN  SampleMessages(t, 2)
        \cup UNION {{New(t, p[1] :> v @@ p[2] :> w) :
                        v \in SampleValues(fields[p[1]], 0),
                        w \in SampleValues(fields[p[2]], 0)} : p \in SamplePairs(t)}

ASSUME PromiseOnSamples ==
    \A t \in DOMAIN Schema :
        /\ EmptyMessage(t)
        /\ \A m \in Samples(t) :
              LET bytes == SerializeToString(t, m)
              IN  /\ IsMessage(t, m)
                  /\ WellFormed(t, bytes)
                  /\ FromString(t, bytes) = m
=============================================================================
