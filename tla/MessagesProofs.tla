--------------------------- MODULE MessagesProofs ---------------------------
(***************************************************************************)
(* Proofs about the messages of the client: their signatures, and what the *)
(* peers and the orderers find in the bytes they get, for any calls, any   *)
(* users and peers, and any number of transactions; and about the blocks   *)
(* that the client is streamed: that every layer of them decodes, and that *)
(* the client finds in them what it had sent.                              *)
(***************************************************************************)
EXTENDS Messages, TLAPS

\* The half is the integer below the half of an odd order.
LEMMA HalfFact == HalfOrder \in Nat /\ Order = 2 * HalfOrder + 1
  BY CryptoAssumption DEF HalfOrder

\* What _prevent_malleability returns is a scalar that _check_malleability
\* accepts, and the same signature: s or its negative.
LEMMA PreventedPasses ==
  ASSUME NEW s \in Scalars
  PROVE  /\ PreventMalleability(s) \in Scalars
         /\ CheckMalleability(PreventMalleability(s))
         /\ PreventMalleability(s) \in {s, Order - s}
  BY CryptoAssumption, HalfFact
  DEF Scalars, PreventMalleability, CheckMalleability

\* verify accepts what sign returns, whatever s the signer came up with.
THEOREM SignedVerifies ==
  ASSUME NEW key, NEW message, NEW s \in Scalars
  PROVE  Verify(key, message, Sign(key, message, s))
<1>1. Sign(key, message, s) =
        [by |-> key, over |-> message, s |-> PreventMalleability(s)]
  BY DEF Sign, EcdsaSign
<1>2. CheckMalleability(PreventMalleability(s))
  BY PreventedPasses
<1> QED
  BY <1>1, <1>2 DEF Verify, EcdsaVerify

\* No signature has a second form: of s and its negative verify accepts one
\* only, so that nobody can make another signature of the one on the wire.
THEOREM OneForm ==
  ASSUME NEW s \in Scalars
  PROVE  CheckMalleability(s) <=> ~CheckMalleability(Order - s)
  BY CryptoAssumption, HalfFact DEF Scalars, CheckMalleability

-----------------------------------------------------------------------------

Suits(field, v) == Fits(IsMessage, field, v)

\* A message that comes back from its bytes.
Reads(type, m) ==
    /\ IsMessage(type, m)
    /\ WellFormed(type, SerializeToString(type, m))
    /\ FromString(type, SerializeToString(type, m)) = m

\* Of a type whose fields have known kinds, no oneof among those with a default.
Sound(type) ==
    /\ type \in DOMAIN Schema
    /\ \A f \in DOMAIN Fields(type) :
          /\ Fields(type)[f].kind \in {"int", "bool", "string", "bytes", "enum", "message"}
          /\ HasDefault(Fields(type)[f]) => Fields(type)[f].oneof = ""

\* Values for fields of a type, not two of a oneof.
Suit(type, values) ==
    /\ values = [f \in DOMAIN values |-> values[f]]
    /\ DOMAIN values \subseteq DOMAIN Fields(type)
    /\ \A f \in DOMAIN values : Suits(Fields(type)[f], values[f])
    /\ \A f \in DOMAIN values, g \in DOMAIN values :
          Fields(type)[f].oneof # "" /\ Fields(type)[f].oneof = Fields(type)[g].oneof
             => f = g

\* A default is a value of its field.
LEMMA DefaultSuits ==
  ASSUME NEW field, HasDefault(field),
         field.kind \in {"int", "bool", "string", "bytes", "enum", "message"}
  PROVE  Suits(field, Default(field))
<1>1. CASE field.label = "repeated"
  <2>1. Default(field) = <<>>
    BY <1>1 DEF Default
  <2>2. Len(<<>>) = 0 /\ <<>> = [i \in 1..0 |-> <<>>[i]] /\ 1..0 = {}
    OBVIOUS
  <2> QED
    BY <1>1, <2>1, <2>2 DEF Suits, Fits
<1>2. CASE field.label # "repeated" /\ field.kind \in {"string", "bytes"}
  <2>1. Default(field) = <<>>
    BY <1>2 DEF Default
  <2>2. DOMAIN <<>> = {}
    OBVIOUS
  <2> QED
    BY <1>2, <2>1, <2>2 DEF Suits, Fits, FitsOne
<1>3. CASE field.label # "repeated" /\ field.kind \notin {"string", "bytes"}
  <2>1. field.kind # "message"
    BY <1>3 DEF HasDefault
  <2>2. CASE field.kind = "bool"
    <3>1. Default(field) = FALSE
      BY <1>3, <2>2 DEF Default
    <3> QED
      BY <1>3, <2>2, <3>1 DEF Suits, Fits, FitsOne
  <2>3. CASE field.kind \in {"int", "enum"}
    <3>1. Default(field) = 0
      BY <1>3, <2>3 DEF Default
    <3> QED
      BY <1>3, <2>3, <3>1 DEF Suits, Fits, FitsOne
  <2> QED
    BY <1>3, <2>1, <2>2, <2>3
<1> QED
  BY <1>1, <1>2, <1>3

\* The constructor sets the fields it is given, and makes a message that comes
\* back from its bytes.
LEMMA NewReads ==
  ASSUME Promise, NEW type, Sound(type), NEW values, Suit(type, values)
  PROVE  /\ Reads(type, New(type, values))
         /\ \A f \in DOMAIN values : f \in DOMAIN New(type, values)
                                     /\ New(type, values)[f] = values[f]
         /\ \A f \in DOMAIN New(type, values) : f \in DOMAIN values
                                     \/ HasDefault(Fields(type)[f])
<1> DEFINE fields == Fields(type)
           m == New(type, values)
           D == {g \in DOMAIN fields : HasDefault(fields[g])}
<1>1. /\ m = [f \in DOMAIN m |-> m[f]]
      /\ DOMAIN m = DOMAIN values \cup D
      /\ \A f \in DOMAIN values : m[f] = values[f]
      /\ \A f \in D : f \notin DOMAIN values => m[f] = Default(fields[f])
  BY DEF New, With, Defaults
<1>2. DOMAIN Defaults(fields) = D
  BY DEF Defaults
<1> HIDE DEF m, fields
<1>3. DOMAIN m \subseteq DOMAIN fields
  BY <1>1 DEF Suit, fields
<1>4. ASSUME NEW f \in DOMAIN m PROVE Suits(fields[f], m[f])
  <2>1. CASE f \in DOMAIN values
    BY <1>1, <2>1 DEF Suit, fields
  <2>2. CASE f \notin DOMAIN values
    <3>1. f \in D /\ m[f] = Default(fields[f])
      BY <1>1, <2>2
    <3> QED
      BY <3>1, DefaultSuits DEF Sound, fields
  <2> QED
    BY <2>1, <2>2
<1>5. ASSUME NEW f \in DOMAIN m, NEW g \in DOMAIN m,
             fields[f].oneof # "", fields[f].oneof = fields[g].oneof
      PROVE  f = g
  <2>1. f \in DOMAIN values /\ g \in DOMAIN values
    BY <1>1, <1>5 DEF Sound, fields
  <2> QED
    BY <1>5, <2>1 DEF Suit, fields
<1>6. MessageOf(IsMessage, type, m)
  BY <1>1, <1>2, <1>3, <1>4, <1>5, Zenon DEF MessageOf, Suits, fields
<1>7. type \in DOMAIN Schema
  BY DEF Sound
<1>8. IsMessage(type, m)
  BY <1>6, <1>7, Zenon DEF Promise
<1>9. Reads(type, m)
  BY <1>7, <1>8, Zenon DEF Promise, Reads
<1> QED
  BY <1>1, <1>9 DEF m, fields

-----------------------------------------------------------------------------

\* The types whose fields are bytes: whatever the values, they come back.
Raw(type) ==
    /\ type \in DOMAIN Schema
    /\ \A f \in DOMAIN Fields(type) : \E n : Fields(type)[f] = Bytes(n)

LEMMA BytesField ==
  ASSUME NEW n
  PROVE  /\ Bytes(n).kind = "bytes" /\ Bytes(n).oneof = ""
         /\ \A v : Suits(Bytes(n), v)
<1>1. Bytes(n).kind = "bytes" /\ Bytes(n).label = "optional" /\ Bytes(n).oneof = ""
  BY DEF Bytes, Scalar, Field
<1> QED
  BY <1>1 DEF Suits, Fits, FitsOne

LEMMA RawReads ==
  ASSUME Promise, NEW type, Raw(type), NEW values,
         values = [f \in DOMAIN values |-> values[f]],
         DOMAIN values \subseteq DOMAIN Fields(type)
  PROVE  /\ Reads(type, New(type, values))
         /\ \A f \in DOMAIN values : New(type, values)[f] = values[f]
<1>1. Sound(type)
  BY BytesField DEF Raw, Sound
<1>2. \A f \in DOMAIN Fields(type) : \A v : Suits(Fields(type)[f], v)
  BY BytesField DEF Raw
<1>3. \A f \in DOMAIN Fields(type) : Fields(type)[f].oneof = ""
  BY BytesField DEF Raw
<1>4. Suit(type, values)
  BY <1>2, <1>3 DEF Suit
<1> QED
  BY <1>1, <1>4, NewReads

LEMMA RawTypes ==
  ASSUME Schema = MessageTypes
  PROVE  /\ Raw("SignatureHeader") /\ DOMAIN Fields("SignatureHeader") = {"creator", "nonce"}
         /\ Raw("Header")
         /\ DOMAIN Fields("Header") = {"channel_header", "signature_header"}
         /\ Raw("Envelope") /\ DOMAIN Fields("Envelope") = {"payload", "signature"}
         /\ Raw("Proposal") /\ DOMAIN Fields("Proposal") = {"header", "payload", "extension"}
         /\ Raw("SignedProposal")
         /\ DOMAIN Fields("SignedProposal") = {"proposal_bytes", "signature"}
         /\ Raw("ProposalResponsePayload")
         /\ DOMAIN Fields("ProposalResponsePayload") = {"proposal_hash", "extension"}
         /\ Raw("Endorsement") /\ DOMAIN Fields("Endorsement") = {"endorser", "signature"}
         /\ Raw("TransactionAction")
         /\ DOMAIN Fields("TransactionAction") = {"header", "payload"}
         /\ Raw("ConfigSignature")
         /\ DOMAIN Fields("ConfigSignature") = {"signature_header", "signature"}
<1>1. /\ Fields("SignatureHeader") = SignatureHeader /\ Fields("Header") = Header
      /\ Fields("Envelope") = Envelope /\ Fields("Proposal") = Proposal
      /\ Fields("SignedProposal") = SignedProposal
      /\ Fields("ProposalResponsePayload") = ProposalResponsePayload
      /\ Fields("Endorsement") = Endorsement
      /\ Fields("TransactionAction") = TransactionAction
      /\ Fields("ConfigSignature") = ConfigSignature
      /\ {"SignatureHeader", "Header", "Envelope", "Proposal", "SignedProposal",
          "ProposalResponsePayload", "Endorsement", "TransactionAction",
          "ConfigSignature"} \subseteq DOMAIN Schema
  BY DEF MessageTypes, Fields
<1>2. Raw("SignatureHeader") /\ DOMAIN Fields("SignatureHeader") = {"creator", "nonce"}
  BY <1>1 DEF Raw, SignatureHeader
<1>3. Raw("Header") /\ DOMAIN Fields("Header") = {"channel_header", "signature_header"}
  BY <1>1 DEF Raw, Header
<1>4. Raw("Envelope") /\ DOMAIN Fields("Envelope") = {"payload", "signature"}
  BY <1>1 DEF Raw, Envelope
<1>5. Raw("Proposal") /\ DOMAIN Fields("Proposal") = {"header", "payload", "extension"}
  BY <1>1 DEF Raw, Proposal
<1>6. /\ Raw("SignedProposal")
      /\ DOMAIN Fields("SignedProposal") = {"proposal_bytes", "signature"}
  BY <1>1 DEF Raw, SignedProposal
<1>7. /\ Raw("ProposalResponsePayload")
      /\ DOMAIN Fields("ProposalResponsePayload") = {"proposal_hash", "extension"}
  BY <1>1 DEF Raw, ProposalResponsePayload
<1>8. Raw("Endorsement") /\ DOMAIN Fields("Endorsement") = {"endorser", "signature"}
  BY <1>1 DEF Raw, Endorsement
<1>9. Raw("TransactionAction") /\ DOMAIN Fields("TransactionAction") = {"header", "payload"}
  BY <1>1 DEF Raw, TransactionAction
<1>10. /\ Raw("ConfigSignature")
       /\ DOMAIN Fields("ConfigSignature") = {"signature_header", "signature"}
  BY <1>1 DEF Raw, ConfigSignature
<1> QED
  BY <1>2, <1>3, <1>4, <1>5, <1>6, <1>7, <1>8, <1>9, <1>10

LEMMA SignatureHeaderReads ==
  ASSUME Schema = MessageTypes, Promise, NEW x, NEW y, NEW m,
         m = New("SignatureHeader", [creator |-> x, nonce |-> y])
  PROVE  Reads("SignatureHeader", m) /\ m.creator = x /\ m.nonce = y
<1> DEFINE values == [creator |-> x, nonce |-> y]
<1>1. /\ values = [f \in DOMAIN values |-> values[f]]
      /\ DOMAIN values = {"creator", "nonce"}
      /\ values["creator"] = x /\ values["nonce"] = y
  OBVIOUS
<1> HIDE DEF values
<1> QED
  BY <1>1, RawTypes, RawReads DEF values

LEMMA HeaderReads ==
  ASSUME Schema = MessageTypes, Promise, NEW x, NEW y, NEW m,
         m = New("Header", [channel_header |-> x, signature_header |-> y])
  PROVE  Reads("Header", m) /\ m.channel_header = x /\ m.signature_header = y
<1> DEFINE values == [channel_header |-> x, signature_header |-> y]
<1>1. /\ values = [f \in DOMAIN values |-> values[f]]
      /\ DOMAIN values = {"channel_header", "signature_header"}
      /\ values["channel_header"] = x /\ values["signature_header"] = y
  OBVIOUS
<1> HIDE DEF values
<1> QED
  BY <1>1, RawTypes, RawReads DEF values

LEMMA EnvelopeReads ==
  ASSUME Schema = MessageTypes, Promise, NEW x, NEW y, NEW m,
         m = New("Envelope", [payload |-> x, signature |-> y])
  PROVE  Reads("Envelope", m) /\ m.payload = x /\ m.signature = y
<1> DEFINE values == [payload |-> x, signature |-> y]
<1>1. /\ values = [f \in DOMAIN values |-> values[f]]
      /\ DOMAIN values = {"payload", "signature"}
      /\ values["payload"] = x /\ values["signature"] = y
  OBVIOUS
<1> HIDE DEF values
<1> QED
  BY <1>1, RawTypes, RawReads DEF values

LEMMA ProposalReads ==
  ASSUME Schema = MessageTypes, Promise, NEW x, NEW y, NEW m,
         m = New("Proposal", [header |-> x, payload |-> y])
  PROVE  Reads("Proposal", m) /\ m.header = x /\ m.payload = y
<1> DEFINE values == [header |-> x, payload |-> y]
<1>1. /\ values = [f \in DOMAIN values |-> values[f]]
      /\ DOMAIN values = {"header", "payload"}
      /\ values["header"] = x /\ values["payload"] = y
  OBVIOUS
<1> HIDE DEF values
<1> QED
  BY <1>1, RawTypes, RawReads DEF values

LEMMA SignedProposalReads ==
  ASSUME Schema = MessageTypes, Promise, NEW x, NEW y, NEW m,
         m = New("SignedProposal", [proposal_bytes |-> x, signature |-> y])
  PROVE  Reads("SignedProposal", m) /\ m.proposal_bytes = x /\ m.signature = y
<1> DEFINE values == [proposal_bytes |-> x, signature |-> y]
<1>1. /\ values = [f \in DOMAIN values |-> values[f]]
      /\ DOMAIN values = {"proposal_bytes", "signature"}
      /\ values["proposal_bytes"] = x /\ values["signature"] = y
  OBVIOUS
<1> HIDE DEF values
<1> QED
  BY <1>1, RawTypes, RawReads DEF values

LEMMA ProposalResponsePayloadReads ==
  ASSUME Schema = MessageTypes, Promise, NEW x, NEW y, NEW m,
         m = New("ProposalResponsePayload", [proposal_hash |-> x, extension |-> y])
  PROVE  Reads("ProposalResponsePayload", m) /\ m.proposal_hash = x /\ m.extension = y
<1> DEFINE values == [proposal_hash |-> x, extension |-> y]
<1>1. /\ values = [f \in DOMAIN values |-> values[f]]
      /\ DOMAIN values = {"proposal_hash", "extension"}
      /\ values["proposal_hash"] = x /\ values["extension"] = y
  OBVIOUS
<1> HIDE DEF values
<1> QED
  BY <1>1, RawTypes, RawReads DEF values

LEMMA EndorsementReads ==
  ASSUME Schema = MessageTypes, Promise, NEW x, NEW y, NEW m,
         m = New("Endorsement", [endorser |-> x, signature |-> y])
  PROVE  Reads("Endorsement", m) /\ m.endorser = x /\ m.signature = y
<1> DEFINE values == [endorser |-> x, signature |-> y]
<1>1. /\ values = [f \in DOMAIN values |-> values[f]]
      /\ DOMAIN values = {"endorser", "signature"}
      /\ values["endorser"] = x /\ values["signature"] = y
  OBVIOUS
<1> HIDE DEF values
<1> QED
  BY <1>1, RawTypes, RawReads DEF values

LEMMA TransactionActionReads ==
  ASSUME Schema = MessageTypes, Promise, NEW x, NEW y, NEW m,
         m = New("TransactionAction", [header |-> x, payload |-> y])
  PROVE  Reads("TransactionAction", m) /\ m.header = x /\ m.payload = y
<1> DEFINE values == [header |-> x, payload |-> y]
<1>1. /\ values = [f \in DOMAIN values |-> values[f]]
      /\ DOMAIN values = {"header", "payload"}
      /\ values["header"] = x /\ values["payload"] = y
  OBVIOUS
<1> HIDE DEF values
<1> QED
  BY <1>1, RawTypes, RawReads DEF values

LEMMA ConfigSignatureReads ==
  ASSUME Schema = MessageTypes, Promise, NEW x, NEW y, NEW m,
         m = New("ConfigSignature", [signature_header |-> x, signature |-> y])
  PROVE  Reads("ConfigSignature", m) /\ m.signature_header = x /\ m.signature = y
<1> DEFINE values == [signature_header |-> x, signature |-> y]
<1>1. /\ values = [f \in DOMAIN values |-> values[f]]
      /\ DOMAIN values = {"signature_header", "signature"}
      /\ values["signature_header"] = x /\ values["signature"] = y
  OBVIOUS
<1> HIDE DEF values
<1> QED
  BY <1>1, RawTypes, RawReads DEF values

-----------------------------------------------------------------------------

\* A str, and a list of messages of a type.
IsStr(v) == \A i \in DOMAIN v : v[i][2] \in {"text", "hex"}

IsListOf(type, v) == IsList(v) /\ \A i \in 1..Len(v) : IsMessage(type, v[i])

\* A field of a known kind and of no oneof.
Plain(field) ==
    /\ field.kind \in {"int", "bool", "string", "bytes", "enum", "message"}
    /\ field.oneof = ""

Simple(type) ==
    type \in DOMAIN Schema /\ \A f \in DOMAIN Fields(type) : Plain(Fields(type)[f])

LEMMA SimpleReads ==
  ASSUME Promise, NEW type, Simple(type), NEW values,
         values = [f \in DOMAIN values |-> values[f]],
         DOMAIN values \subseteq DOMAIN Fields(type),
         \A f \in DOMAIN values : Suits(Fields(type)[f], values[f])
  PROVE  /\ Reads(type, New(type, values))
         /\ \A f \in DOMAIN values : New(type, values)[f] = values[f]
<1>1. Sound(type)
  BY DEF Simple, Plain, Sound
<1>2. \A f \in DOMAIN values : Fields(type)[f].oneof = ""
  BY DEF Simple, Plain
<1>3. Suit(type, values)
  BY <1>2 DEF Suit
<1> QED
  BY <1>1, <1>3, NewReads

LEMMA PlainFields ==
  /\ \A n : /\ Plain(Varint(n)) /\ Plain(Bool(n)) /\ Plain(String(n)) /\ Plain(Bytes(n))
            /\ Plain(Repeated(Bytes(n)))
  /\ \A n, t : /\ Plain(Enum(n, t)) /\ Plain(Message(n, t))
               /\ Plain(Repeated(Message(n, t)))
  BY DEF Plain, Varint, Bool, String, Bytes, Enum, Message, Repeated, Scalar, Field

\* What suits the fields of each kind.
LEMMA VarintSuits == \A n : \A v \in Nat : Suits(Varint(n), v)
  BY DEF Varint, Scalar, Field, Suits, Fits, FitsOne

LEMMA EnumSuits == \A n, t : \A v \in Nat : Suits(Enum(n, t), v)
  BY DEF Enum, Field, Suits, Fits, FitsOne

LEMMA StringSuits == \A n, v : IsStr(v) => Suits(String(n), v)
  BY DEF String, Scalar, Field, Suits, Fits, FitsOne, IsStr

LEMMA MessageSuits == \A n, t, v : IsMessage(t, v) => Suits(Message(n, t), v)
  BY DEF Message, Field, Suits, Fits, FitsOne

LEMMA BytesListSuits == \A n, v : IsList(v) => Suits(Repeated(Bytes(n)), v)
  BY DEF Repeated, Bytes, Scalar, Field, Suits, Fits, FitsOne, IsList

LEMMA MessagesSuits == \A n, t, v : IsListOf(t, v) => Suits(Repeated(Message(n, t)), v)
  BY DEF Repeated, Message, Field, Suits, Fits, FitsOne, IsList, IsListOf

LEMMA SerializedIdentityReads ==
  ASSUME Schema = MessageTypes, Promise, NEW x, NEW y, NEW m, IsStr(x),
         m = New("SerializedIdentity", [mspid |-> x, id_bytes |-> y])
  PROVE  Reads("SerializedIdentity", m) /\ m.mspid = x /\ m.id_bytes = y
<1> DEFINE values == [mspid |-> x, id_bytes |-> y]
<1>1. /\ values = [f \in DOMAIN values |-> values[f]]
      /\ DOMAIN values = {"mspid", "id_bytes"} /\ values["mspid"] = x
      /\ values["id_bytes"] = y
  OBVIOUS
<1>2. /\ Fields("SerializedIdentity") = SerializedIdentity
      /\ "SerializedIdentity" \in DOMAIN Schema
  BY DEF MessageTypes, Fields
<1>3. Simple("SerializedIdentity")
  BY <1>2, PlainFields DEF Simple, SerializedIdentity
<1>4. /\ DOMAIN values \subseteq DOMAIN SerializedIdentity
      /\ Suits(SerializedIdentity["mspid"], x)
      /\ Suits(SerializedIdentity["id_bytes"], y)
  BY <1>1, BytesField, StringSuits DEF SerializedIdentity
<1> HIDE DEF values
<1> QED
  BY <1>1, <1>2, <1>3, <1>4, SimpleReads DEF values

LEMMA ChannelHeaderReads ==
  ASSUME Schema = MessageTypes, Promise, NEW x \in Nat, NEW y \in Nat, NEW z, NEW u,
         NEW v \in Nat, NEW w, NEW p, NEW q, NEW m, IsStr(z), IsStr(u),
         IsMessage("Timestamp", w),
         m = New("ChannelHeader",
                 [type |-> x, version |-> y, tx_id |-> z, channel_id |-> u, epoch |-> v,
                  timestamp |-> w, extension |-> p, tls_cert_hash |-> q])
  PROVE  /\ Reads("ChannelHeader", m) /\ m.type = x /\ m.version = y /\ m.tx_id = z
         /\ m.channel_id = u /\ m.epoch = v /\ m.timestamp = w /\ m.extension = p
         /\ m.tls_cert_hash = q
<1> DEFINE values == [type |-> x, version |-> y, tx_id |-> z, channel_id |-> u, epoch |-> v,
                  timestamp |-> w, extension |-> p, tls_cert_hash |-> q]
<1>1. /\ values = [f \in DOMAIN values |-> values[f]]
      /\ DOMAIN values = {"type", "version", "tx_id", "channel_id", "epoch",
                          "timestamp", "extension", "tls_cert_hash"}
      /\ values["type"] = x /\ values["version"] = y /\ values["tx_id"] = z
      /\ values["channel_id"] = u /\ values["epoch"] = v /\ values["timestamp"] = w
      /\ values["extension"] = p /\ values["tls_cert_hash"] = q
  OBVIOUS
<1>2. Fields("ChannelHeader") = ChannelHeader /\ "ChannelHeader" \in DOMAIN Schema
  BY DEF MessageTypes, Fields
<1>3. Simple("ChannelHeader")
  BY <1>2, PlainFields DEF Simple, ChannelHeader
<1>4. /\ DOMAIN values \subseteq DOMAIN ChannelHeader
      /\ Suits(ChannelHeader["type"], x) /\ Suits(ChannelHeader["version"], y)
      /\ Suits(ChannelHeader["tx_id"], z) /\ Suits(ChannelHeader["channel_id"], u)
      /\ Suits(ChannelHeader["epoch"], v) /\ Suits(ChannelHeader["timestamp"], w)
      /\ Suits(ChannelHeader["extension"], p)
      /\ Suits(ChannelHeader["tls_cert_hash"], q)
  BY <1>1, BytesField, MessageSuits, StringSuits, VarintSuits DEF ChannelHeader
<1> HIDE DEF values
<1> QED
  BY <1>1, <1>2, <1>3, <1>4, SimpleReads DEF values

LEMMA PayloadReads ==
  ASSUME Schema = MessageTypes, Promise, NEW x, NEW y, NEW m, IsMessage("Header", x),
         m = New("Payload", [header |-> x, data |-> y])
  PROVE  Reads("Payload", m) /\ m.header = x /\ m.data = y
<1> DEFINE values == [header |-> x, data |-> y]
<1>1. /\ values = [f \in DOMAIN values |-> values[f]]
      /\ DOMAIN values = {"header", "data"} /\ values["header"] = x
      /\ values["data"] = y
  OBVIOUS
<1>2. Fields("Payload") = Payload /\ "Payload" \in DOMAIN Schema
  BY DEF MessageTypes, Fields
<1>3. Simple("Payload")
  BY <1>2, PlainFields DEF Simple, Payload
<1>4. /\ DOMAIN values \subseteq DOMAIN Payload /\ Suits(Payload["header"], x)
      /\ Suits(Payload["data"], y)
  BY <1>1, BytesField, MessageSuits DEF Payload
<1> HIDE DEF values
<1> QED
  BY <1>1, <1>2, <1>3, <1>4, SimpleReads DEF values

LEMMA ChaincodeNameReads ==
  ASSUME Schema = MessageTypes, Promise, NEW x, NEW m, IsStr(x),
         m = New("ChaincodeID", [name |-> x])
  PROVE  Reads("ChaincodeID", m) /\ m.name = x
<1> DEFINE values == [name |-> x]
<1>1. /\ values = [f \in DOMAIN values |-> values[f]] /\ DOMAIN values = {"name"}
      /\ values["name"] = x
  OBVIOUS
<1>2. Fields("ChaincodeID") = ChaincodeID /\ "ChaincodeID" \in DOMAIN Schema
  BY DEF MessageTypes, Fields
<1>3. Simple("ChaincodeID")
  BY <1>2, PlainFields DEF Simple, ChaincodeID
<1>4. DOMAIN values \subseteq DOMAIN ChaincodeID /\ Suits(ChaincodeID["name"], x)
  BY <1>1, StringSuits DEF ChaincodeID
<1> HIDE DEF values
<1> QED
  BY <1>1, <1>2, <1>3, <1>4, SimpleReads DEF values

LEMMA HeaderExtensionReads ==
  ASSUME Schema = MessageTypes, Promise, NEW x, NEW m, IsMessage("ChaincodeID", x),
         m = New("ChaincodeHeaderExtension", [chaincode_id |-> x])
  PROVE  Reads("ChaincodeHeaderExtension", m) /\ m.chaincode_id = x
<1> DEFINE values == [chaincode_id |-> x]
<1>1. /\ values = [f \in DOMAIN values |-> values[f]]
      /\ DOMAIN values = {"chaincode_id"} /\ values["chaincode_id"] = x
  OBVIOUS
<1>2. /\ Fields("ChaincodeHeaderExtension") = ChaincodeHeaderExtension
      /\ "ChaincodeHeaderExtension" \in DOMAIN Schema
  BY DEF MessageTypes, Fields
<1>3. Simple("ChaincodeHeaderExtension")
  BY <1>2, PlainFields DEF Simple, ChaincodeHeaderExtension
<1>4. /\ DOMAIN values \subseteq DOMAIN ChaincodeHeaderExtension
      /\ Suits(ChaincodeHeaderExtension["chaincode_id"], x)
  BY <1>1, MessageSuits DEF ChaincodeHeaderExtension
<1> HIDE DEF values
<1> QED
  BY <1>1, <1>2, <1>3, <1>4, SimpleReads DEF values

LEMMA ChaincodeInputReads ==
  ASSUME Schema = MessageTypes, Promise, NEW x, NEW m, IsList(x),
         m = New("ChaincodeInput", [args |-> x])
  PROVE  Reads("ChaincodeInput", m) /\ m.args = x
<1> DEFINE values == [args |-> x]
<1>1. /\ values = [f \in DOMAIN values |-> values[f]] /\ DOMAIN values = {"args"}
      /\ values["args"] = x
  OBVIOUS
<1>2. Fields("ChaincodeInput") = ChaincodeInput /\ "ChaincodeInput" \in DOMAIN Schema
  BY DEF MessageTypes, Fields
<1>3. Simple("ChaincodeInput")
  BY <1>2, PlainFields DEF Simple, ChaincodeInput
<1>4. /\ DOMAIN values \subseteq DOMAIN ChaincodeInput
      /\ Suits(ChaincodeInput["args"], x)
  BY <1>1, BytesListSuits DEF ChaincodeInput
<1> HIDE DEF values
<1> QED
  BY <1>1, <1>2, <1>3, <1>4, SimpleReads DEF values

LEMMA ChaincodeSpecReads ==
  ASSUME Schema = MessageTypes, Promise, NEW x \in Nat, NEW y, NEW z, NEW m,
         IsMessage("ChaincodeID", y), IsMessage("ChaincodeInput", z),
         m = New("ChaincodeSpec", [type |-> x, chaincode_id |-> y, input |-> z])
  PROVE  /\ Reads("ChaincodeSpec", m) /\ m.type = x /\ m.chaincode_id = y
         /\ m.input = z
<1> DEFINE values == [type |-> x, chaincode_id |-> y, input |-> z]
<1>1. /\ values = [f \in DOMAIN values |-> values[f]]
      /\ DOMAIN values = {"type", "chaincode_id", "input"} /\ values["type"] = x
      /\ values["chaincode_id"] = y /\ values["input"] = z
  OBVIOUS
<1>2. Fields("ChaincodeSpec") = ChaincodeSpec /\ "ChaincodeSpec" \in DOMAIN Schema
  BY DEF MessageTypes, Fields
<1>3. Simple("ChaincodeSpec")
  BY <1>2, PlainFields DEF Simple, ChaincodeSpec
<1>4. /\ DOMAIN values \subseteq DOMAIN ChaincodeSpec
      /\ Suits(ChaincodeSpec["type"], x) /\ Suits(ChaincodeSpec["chaincode_id"], y)
      /\ Suits(ChaincodeSpec["input"], z)
  BY <1>1, EnumSuits, MessageSuits DEF ChaincodeSpec
<1> HIDE DEF values
<1> QED
  BY <1>1, <1>2, <1>3, <1>4, SimpleReads DEF values

LEMMA InvocationSpecReads ==
  ASSUME Schema = MessageTypes, Promise, NEW x, NEW m, IsMessage("ChaincodeSpec", x),
         m = New("ChaincodeInvocationSpec", [chaincode_spec |-> x])
  PROVE  Reads("ChaincodeInvocationSpec", m) /\ m.chaincode_spec = x
<1> DEFINE values == [chaincode_spec |-> x]
<1>1. /\ values = [f \in DOMAIN values |-> values[f]]
      /\ DOMAIN values = {"chaincode_spec"} /\ values["chaincode_spec"] = x
  OBVIOUS
<1>2. /\ Fields("ChaincodeInvocationSpec") = ChaincodeInvocationSpec
      /\ "ChaincodeInvocationSpec" \in DOMAIN Schema
  BY DEF MessageTypes, Fields
<1>3. Simple("ChaincodeInvocationSpec")
  BY <1>2, PlainFields DEF Simple, ChaincodeInvocationSpec
<1>4. /\ DOMAIN values \subseteq DOMAIN ChaincodeInvocationSpec
      /\ Suits(ChaincodeInvocationSpec["chaincode_spec"], x)
  BY <1>1, MessageSuits DEF ChaincodeInvocationSpec
<1> HIDE DEF values
<1> QED
  BY <1>1, <1>2, <1>3, <1>4, SimpleReads DEF values

LEMMA ProposalPayloadReads ==
  ASSUME Schema = MessageTypes, Promise, NEW x, NEW y, NEW m,
         Suits(ChaincodeProposalPayload.TransientMap, y),
         m = New("ChaincodeProposalPayload", [input |-> x, TransientMap |-> y])
  PROVE  Reads("ChaincodeProposalPayload", m) /\ m.input = x /\ m.TransientMap = y
<1> DEFINE values == [input |-> x, TransientMap |-> y]
<1>1. /\ values = [f \in DOMAIN values |-> values[f]]
      /\ DOMAIN values = {"input", "TransientMap"} /\ values["input"] = x
      /\ values["TransientMap"] = y
  OBVIOUS
<1>2. /\ Fields("ChaincodeProposalPayload") = ChaincodeProposalPayload
      /\ "ChaincodeProposalPayload" \in DOMAIN Schema
  BY DEF MessageTypes, Fields
<1>3. Simple("ChaincodeProposalPayload")
  BY <1>2, PlainFields DEF Simple, ChaincodeProposalPayload
<1>4. /\ DOMAIN values \subseteq DOMAIN ChaincodeProposalPayload
      /\ Suits(ChaincodeProposalPayload["input"], x)
      /\ Suits(ChaincodeProposalPayload["TransientMap"], y)
  BY <1>1, BytesField DEF ChaincodeProposalPayload
<1> HIDE DEF values
<1> QED
  BY <1>1, <1>2, <1>3, <1>4, SimpleReads DEF values

LEMMA ResponseReads ==
  ASSUME Schema = MessageTypes, Promise, NEW x \in Nat, NEW m,
         m = New("Response", [status |-> x])
  PROVE  Reads("Response", m) /\ m.status = x
<1> DEFINE values == [status |-> x]
<1>1. /\ values = [f \in DOMAIN values |-> values[f]] /\ DOMAIN values = {"status"}
      /\ values["status"] = x
  OBVIOUS
<1>2. Fields("Response") = Response /\ "Response" \in DOMAIN Schema
  BY DEF MessageTypes, Fields
<1>3. Simple("Response")
  BY <1>2, PlainFields DEF Simple, Response
<1>4. DOMAIN values \subseteq DOMAIN Response /\ Suits(Response["status"], x)
  BY <1>1, VarintSuits DEF Response
<1> HIDE DEF values
<1> QED
  BY <1>1, <1>2, <1>3, <1>4, SimpleReads DEF values

LEMMA ProposalResponseReads ==
  ASSUME Schema = MessageTypes, Promise, NEW x \in Nat, NEW y, NEW z, NEW u, NEW m,
         IsMessage("Response", z), IsMessage("Endorsement", u),
         m = New("ProposalResponse", [version |-> x, payload |-> y, response |-> z,
                                      endorsement |-> u])
  PROVE  /\ Reads("ProposalResponse", m) /\ m.version = x /\ m.payload = y
         /\ m.response = z /\ m.endorsement = u
<1> DEFINE values == [version |-> x, payload |-> y, response |-> z, endorsement |-> u]
<1>1. /\ values = [f \in DOMAIN values |-> values[f]]
      /\ DOMAIN values = {"version", "payload", "response", "endorsement"}
      /\ values["version"] = x /\ values["payload"] = y /\ values["response"] = z
      /\ values["endorsement"] = u
  OBVIOUS
<1>2. /\ Fields("ProposalResponse") = ProposalResponse
      /\ "ProposalResponse" \in DOMAIN Schema
  BY DEF MessageTypes, Fields
<1>3. Simple("ProposalResponse")
  BY <1>2, PlainFields DEF Simple, ProposalResponse
<1>4. /\ DOMAIN values \subseteq DOMAIN ProposalResponse
      /\ Suits(ProposalResponse["version"], x)
      /\ Suits(ProposalResponse["payload"], y)
      /\ Suits(ProposalResponse["response"], z)
      /\ Suits(ProposalResponse["endorsement"], u)
  BY <1>1, BytesField, MessageSuits, VarintSuits DEF ProposalResponse
<1> HIDE DEF values
<1> QED
  BY <1>1, <1>2, <1>3, <1>4, SimpleReads DEF values

LEMMA EndorsedActionReads ==
  ASSUME Schema = MessageTypes, Promise, NEW x, NEW y, NEW m,
         IsListOf("Endorsement", y),
         m = New("ChaincodeEndorsedAction", [proposal_response_payload |-> x, endorsements |-> y])
  PROVE  /\ Reads("ChaincodeEndorsedAction", m) /\ m.proposal_response_payload = x
         /\ m.endorsements = y
<1> DEFINE values == [proposal_response_payload |-> x, endorsements |-> y]
<1>1. /\ values = [f \in DOMAIN values |-> values[f]]
      /\ DOMAIN values = {"proposal_response_payload", "endorsements"}
      /\ values["proposal_response_payload"] = x /\ values["endorsements"] = y
  OBVIOUS
<1>2. /\ Fields("ChaincodeEndorsedAction") = ChaincodeEndorsedAction
      /\ "ChaincodeEndorsedAction" \in DOMAIN Schema
  BY DEF MessageTypes, Fields
<1>3. Simple("ChaincodeEndorsedAction")
  BY <1>2, PlainFields DEF Simple, ChaincodeEndorsedAction
<1>4. /\ DOMAIN values \subseteq DOMAIN ChaincodeEndorsedAction
      /\ Suits(ChaincodeEndorsedAction["proposal_response_payload"], x)
      /\ Suits(ChaincodeEndorsedAction["endorsements"], y)
  BY <1>1, BytesField, MessagesSuits DEF ChaincodeEndorsedAction
<1> HIDE DEF values
<1> QED
  BY <1>1, <1>2, <1>3, <1>4, SimpleReads DEF values

LEMMA ActionPayloadReads ==
  ASSUME Schema = MessageTypes, Promise, NEW x, NEW y, NEW m,
         IsMessage("ChaincodeEndorsedAction", x),
         m = New("ChaincodeActionPayload", [action |-> x, chaincode_proposal_payload |-> y])
  PROVE  /\ Reads("ChaincodeActionPayload", m) /\ m.action = x
         /\ m.chaincode_proposal_payload = y
<1> DEFINE values == [action |-> x, chaincode_proposal_payload |-> y]
<1>1. /\ values = [f \in DOMAIN values |-> values[f]]
      /\ DOMAIN values = {"action", "chaincode_proposal_payload"}
      /\ values["action"] = x /\ values["chaincode_proposal_payload"] = y
  OBVIOUS
<1>2. /\ Fields("ChaincodeActionPayload") = ChaincodeActionPayload
      /\ "ChaincodeActionPayload" \in DOMAIN Schema
  BY DEF MessageTypes, Fields
<1>3. Simple("ChaincodeActionPayload")
  BY <1>2, PlainFields DEF Simple, ChaincodeActionPayload
<1>4. /\ DOMAIN values \subseteq DOMAIN ChaincodeActionPayload
      /\ Suits(ChaincodeActionPayload["action"], x)
      /\ Suits(ChaincodeActionPayload["chaincode_proposal_payload"], y)
  BY <1>1, BytesField, MessageSuits DEF ChaincodeActionPayload
<1> HIDE DEF values
<1> QED
  BY <1>1, <1>2, <1>3, <1>4, SimpleReads DEF values

LEMMA TransactionReads ==
  ASSUME Schema = MessageTypes, Promise, NEW x, NEW m,
         IsListOf("TransactionAction", x),
         m = New("Transaction", [actions |-> x])
  PROVE  Reads("Transaction", m) /\ m.actions = x
<1> DEFINE values == [actions |-> x]
<1>1. /\ values = [f \in DOMAIN values |-> values[f]] /\ DOMAIN values = {"actions"}
      /\ values["actions"] = x
  OBVIOUS
<1>2. Fields("Transaction") = Transaction /\ "Transaction" \in DOMAIN Schema
  BY DEF MessageTypes, Fields
<1>3. Simple("Transaction")
  BY <1>2, PlainFields DEF Simple, Transaction
<1>4. DOMAIN values \subseteq DOMAIN Transaction /\ Suits(Transaction["actions"], x)
  BY <1>1, MessagesSuits DEF Transaction
<1> HIDE DEF values
<1> QED
  BY <1>1, <1>2, <1>3, <1>4, SimpleReads DEF values

LEMMA ConfigUpdateEnvelopeReads ==
  ASSUME Schema = MessageTypes, Promise, NEW x, NEW y, NEW m,
         IsListOf("ConfigSignature", y),
         m = New("ConfigUpdateEnvelope", [config_update |-> x, signatures |-> y])
  PROVE  Reads("ConfigUpdateEnvelope", m) /\ m.config_update = x /\ m.signatures = y
<1> DEFINE values == [config_update |-> x, signatures |-> y]
<1>1. /\ values = [f \in DOMAIN values |-> values[f]]
      /\ DOMAIN values = {"config_update", "signatures"}
      /\ values["config_update"] = x /\ values["signatures"] = y
  OBVIOUS
<1>2. /\ Fields("ConfigUpdateEnvelope") = ConfigUpdateEnvelope
      /\ "ConfigUpdateEnvelope" \in DOMAIN Schema
  BY DEF MessageTypes, Fields
<1>3. Simple("ConfigUpdateEnvelope")
  BY <1>2, PlainFields DEF Simple, ConfigUpdateEnvelope
<1>4. /\ DOMAIN values \subseteq DOMAIN ConfigUpdateEnvelope
      /\ Suits(ConfigUpdateEnvelope["config_update"], x)
      /\ Suits(ConfigUpdateEnvelope["signatures"], y)
  BY <1>1, BytesField, MessagesSuits DEF ConfigUpdateEnvelope
<1> HIDE DEF values
<1> QED
  BY <1>1, <1>2, <1>3, <1>4, SimpleReads DEF values

LEMMA SeekSpecifiedReads ==
  ASSUME Schema = MessageTypes, Promise, NEW x \in Nat, NEW m,
         m = New("SeekSpecified", [number |-> x])
  PROVE  Reads("SeekSpecified", m) /\ m.number = x
<1> DEFINE values == [number |-> x]
<1>1. /\ values = [f \in DOMAIN values |-> values[f]] /\ DOMAIN values = {"number"}
      /\ values["number"] = x
  OBVIOUS
<1>2. Fields("SeekSpecified") = SeekSpecified /\ "SeekSpecified" \in DOMAIN Schema
  BY DEF MessageTypes, Fields
<1>3. Simple("SeekSpecified")
  BY <1>2, PlainFields DEF Simple, SeekSpecified
<1>4. /\ DOMAIN values \subseteq DOMAIN SeekSpecified
      /\ Suits(SeekSpecified["number"], x)
  BY <1>1, VarintSuits DEF SeekSpecified
<1> HIDE DEF values
<1> QED
  BY <1>1, <1>2, <1>3, <1>4, SimpleReads DEF values

LEMMA SeekInfoReads ==
  ASSUME Schema = MessageTypes, Promise, NEW x, NEW y, NEW z \in Nat, NEW m,
         IsMessage("SeekPosition", x), IsMessage("SeekPosition", y),
         m = New("SeekInfo", [start |-> x, stop |-> y, behavior |-> z])
  PROVE  Reads("SeekInfo", m) /\ m.start = x /\ m.stop = y /\ m.behavior = z
<1> DEFINE values == [start |-> x, stop |-> y, behavior |-> z]
<1>1. /\ values = [f \in DOMAIN values |-> values[f]]
      /\ DOMAIN values = {"start", "stop", "behavior"} /\ values["start"] = x
      /\ values["stop"] = y /\ values["behavior"] = z
  OBVIOUS
<1>2. Fields("SeekInfo") = SeekInfo /\ "SeekInfo" \in DOMAIN Schema
  BY DEF MessageTypes, Fields
<1>3. Simple("SeekInfo")
  BY <1>2, PlainFields DEF Simple, SeekInfo
<1>4. /\ DOMAIN values \subseteq DOMAIN SeekInfo /\ Suits(SeekInfo["start"], x)
      /\ Suits(SeekInfo["stop"], y) /\ Suits(SeekInfo["behavior"], z)
  BY <1>1, EnumSuits, MessageSuits DEF SeekInfo
<1> HIDE DEF values
<1> QED
  BY <1>1, <1>2, <1>3, <1>4, SimpleReads DEF values

-----------------------------------------------------------------------------

LEMMA TextIsStr == \A s : IsStr(Text(s))
<1> TAKE s
<1>1. CASE s = ""
  <2>1. Text(s) = <<>>
    BY <1>1 DEF Text
  <2>2. DOMAIN <<>> = {}
    OBVIOUS
  <2> QED
    BY <2>1, <2>2 DEF IsStr
<1>2. CASE s # ""
  <2> DEFINE piece == <<0, "text", s>>
  <2>1. Text(s) = <<piece>> /\ piece[2] = "text"
    BY <1>2 DEF Text, Opaque
  <2> HIDE DEF piece
  <2>2. DOMAIN <<piece>> = {1} /\ <<piece>>[1] = piece
    OBVIOUS
  <2> QED
    BY <2>1, <2>2 DEF IsStr
<1> QED
  BY <1>1, <1>2

LEMMA DigestIsStr == \A bytes : IsStr(HexDigest(bytes))
<1> TAKE bytes
<1> DEFINE piece == <<0, "hex", bytes>>
<1>1. HexDigest(bytes) = <<piece>> /\ piece[2] = "hex"
  BY DEF HexDigest, Opaque
<1> HIDE DEF piece
<1>2. DOMAIN <<piece>> = {1} /\ <<piece>>[1] = piece
  OBVIOUS
<1> QED
  BY <1>1, <1>2 DEF IsStr

\* What is in opaque data.
LEMMA OpaqueParts ==
  \A what, x : /\ Len(Opaque(what, x)) = 1
               /\ Opaque(what, x)[1][2] = what /\ Opaque(what, x)[1][3] = x
  BY DEF Opaque

LEMMA TimestampReads ==
  ASSUME Schema = MessageTypes, Promise
  PROVE  IsMessage("Timestamp", New("Timestamp", <<>>))
<1>1. Fields("Timestamp") = Timestamp /\ "Timestamp" \in DOMAIN Schema
  BY DEF MessageTypes, Fields
<1>2. Simple("Timestamp")
  BY <1>1, PlainFields DEF Simple, Timestamp
<1>3. PICK none : none = <<>> /\ DOMAIN none = {} /\ none = [f \in DOMAIN none |-> none[f]]
  <2>1. DOMAIN <<>> = {} /\ <<>> = [f \in DOMAIN <<>> |-> <<>>[f]]
    OBVIOUS
  <2> QED
    BY <2>1
<1>4. Reads("Timestamp", New("Timestamp", none))
  BY <1>2, <1>3, SimpleReads
<1> QED
  BY <1>3, <1>4 DEF Reads

-----------------------------------------------------------------------------

\* The identity of a node or a user verifies its signatures.
LEMMA NodeSigned ==
  ASSUME Schema = MessageTypes, Promise, NEW node
  PROVE  /\ WellFormed("SerializedIdentity", IdentityOf(node))
         /\ FromString("SerializedIdentity", IdentityOf(node)).id_bytes = Opaque("cert", node)
         /\ \A bytes : \A s \in Scalars : SignedBy(IdentityOf(node), bytes,
                                                   SignBytes(node, bytes, s))
<1>1. PICK m : m = New("SerializedIdentity", [mspid |-> Text("MSP"),
                                              id_bytes |-> Opaque("cert", node)])
  OBVIOUS
<1>2. Reads("SerializedIdentity", m) /\ m.id_bytes = Opaque("cert", node)
  BY <1>1, TextIsStr, SerializedIdentityReads
<1>3. /\ WellFormed("SerializedIdentity", IdentityOf(node))
      /\ FromString("SerializedIdentity", IdentityOf(node)) = m
  BY <1>1, <1>2 DEF IdentityOf, Reads
<1>4. ASSUME NEW bytes, NEW s \in Scalars
      PROVE  SignedBy(IdentityOf(node), bytes, SignBytes(node, bytes, s))
  BY <1>2, <1>3, OpaqueParts, SignedVerifies DEF SignedBy, SignBytes
<1> QED
  BY <1>2, <1>3, <1>4

\* The transaction context of a user, and the signature header with it.
LEMMA ContextReads ==
  ASSUME Schema = MessageTypes, Promise, NEW user, NEW nonce, NEW context,
         context = TxContextFromUser(user, nonce)
  PROVE  /\ context.tx_id = HexDigest(Opaque("nonce", nonce) \o IdentityOf(user))
         /\ SerializeToString("SerializedIdentity", context.identity) = IdentityOf(user)
         /\ context.nonce = Opaque("nonce", nonce) /\ context.epoch = 0
         /\ WellFormed("SignatureHeader", BuildSignatureHeader(context))
         /\ FromString("SignatureHeader", BuildSignatureHeader(context)).creator
               = IdentityOf(user)
         /\ FromString("SignatureHeader", BuildSignatureHeader(context)).nonce
               = Opaque("nonce", nonce)
<1>1. /\ context.tx_id = HexDigest(Opaque("nonce", nonce) \o IdentityOf(user))
      /\ SerializeToString("SerializedIdentity", context.identity) = IdentityOf(user)
      /\ context.nonce = Opaque("nonce", nonce) /\ context.epoch = 0
  BY DEF TxContextFromUser, IdentityOf
<1>2. PICK m : m = New("SignatureHeader", [creator |-> IdentityOf(user),
                                           nonce |-> Opaque("nonce", nonce)])
  OBVIOUS
<1>3. /\ Reads("SignatureHeader", m)
      /\ m.creator = IdentityOf(user) /\ m.nonce = Opaque("nonce", nonce)
  BY <1>2, SignatureHeaderReads
<1>4. BuildSignatureHeader(context) = SerializeToString("SignatureHeader", m)
  BY <1>1, <1>2 DEF BuildSignatureHeader
<1> QED
  BY <1>1, <1>3, <1>4 DEF Reads

\* A header, and that what it is in can be authenticated.
LEMMA HeaderBuilt ==
  ASSUME Schema = MessageTypes, Promise, NEW user, NEW nonce, NEW channel,
         EncodesProtoStr(channel), NEW extension, NEW txType \in Nat, NEW cert, NEW header,
         header = BuildHeader(TxContextFromUser(user, nonce), channel, extension, txType,
                              cert),
         NEW ch, ch = FromString("ChannelHeader", header.channel_header)
  PROVE  /\ Reads("Header", header)
         /\ header.signature_header = BuildSignatureHeader(TxContextFromUser(user, nonce))
         /\ ch.type = txType /\ ch.channel_id = Text(channel.str) /\ ch.extension = extension
         /\ ch.tx_id = TxContextFromUser(user, nonce).tx_id
         /\ ch.tls_cert_hash = IF cert = <<>> THEN <<>> ELSE Hash(PemToDer(cert))
         /\ \A bytes : \A s \in Scalars : Authentic(header, bytes, SignBytes(user, bytes, s))
<1>1. PICK context : context = TxContextFromUser(user, nonce)
  OBVIOUS
<1>2. PICK hash : hash = IF cert = <<>> THEN <<>> ELSE Hash(PemToDer(cert))
  OBVIOUS
<1>3. PICK m : m = New("ChannelHeader",
                       [type |-> txType, version |-> 1, tx_id |-> context.tx_id,
                        channel_id |-> EncodeProtoBytes(channel), epoch |-> context.epoch,
                        timestamp |-> New("Timestamp", <<>>), extension |-> extension,
                        tls_cert_hash |-> hash])
  OBVIOUS
<1>4. PICK sh : sh = BuildSignatureHeader(context)
  OBVIOUS
<1>5. header = New("Header", [channel_header |-> SerializeToString("ChannelHeader", m),
                              signature_header |-> sh])
  BY <1>1, <1>2, <1>3, <1>4 DEF BuildHeader
<1>6. EncodeProtoBytes(channel) = Text(channel.str)
  BY DEF EncodeProtoBytes, EncodesProtoStr
<1>7. /\ context.tx_id = HexDigest(Opaque("nonce", nonce) \o IdentityOf(user))
      /\ context.epoch = 0
      /\ WellFormed("SignatureHeader", sh)
      /\ FromString("SignatureHeader", sh).creator = IdentityOf(user)
      /\ FromString("SignatureHeader", sh).nonce = Opaque("nonce", nonce)
  BY <1>1, <1>4, ContextReads
<1>8. /\ Reads("ChannelHeader", m) /\ m.type = txType /\ m.tx_id = context.tx_id
      /\ m.channel_id = Text(channel.str) /\ m.epoch = 0 /\ m.extension = extension
      /\ m.tls_cert_hash = hash
  <2>1. IsStr(context.tx_id) /\ IsStr(EncodeProtoBytes(channel))
    BY <1>6, <1>7, TextIsStr, DigestIsStr
  <2>2. PICK version, id, name, epoch, time :
           /\ version = 1 /\ id = context.tx_id /\ name = EncodeProtoBytes(channel)
           /\ epoch = context.epoch /\ time = New("Timestamp", <<>>)
    OBVIOUS
  <2>3. /\ version \in Nat /\ epoch \in Nat /\ IsStr(id) /\ IsStr(name)
        /\ IsMessage("Timestamp", time)
    BY <1>7, <2>1, <2>2, TimestampReads
  <2>4. m = New("ChannelHeader",
                [type |-> txType, version |-> version, tx_id |-> id, channel_id |-> name,
                 epoch |-> epoch, timestamp |-> time, extension |-> extension,
                 tls_cert_hash |-> hash])
    BY <1>3, <2>2, Zenon
  <2>5. /\ Reads("ChannelHeader", m) /\ m.type = txType /\ m.tx_id = id
        /\ m.channel_id = name /\ m.epoch = epoch /\ m.extension = extension
        /\ m.tls_cert_hash = hash
    BY <2>3, <2>4, ChannelHeaderReads
  <2> QED
    BY <1>6, <1>7, <2>2, <2>5
<1>9. /\ Reads("Header", header) /\ header.signature_header = sh
      /\ header.channel_header = SerializeToString("ChannelHeader", m)
  BY <1>5, HeaderReads
<1>10. WellFormed("ChannelHeader", header.channel_header) /\ ch = m
  BY <1>8, <1>9 DEF Reads
<1>11. ASSUME NEW bytes, NEW s \in Scalars
       PROVE  Authentic(header, bytes, SignBytes(user, bytes, s))
  BY <1>7, <1>8, <1>9, <1>10, NodeSigned DEF Authentic
<1> QED
  BY <1>1, <1>2, <1>4, <1>8, <1>9, <1>10, <1>11

-----------------------------------------------------------------------------

\* An envelope has the bytes of its payload and the signature of them.
LEMMA Wrapped ==
  ASSUME Schema = MessageTypes, Promise, NEW user, NEW s, NEW header, Reads("Header", header),
         NEW data, NEW payload, payload = New("Payload", [header |-> header, data |-> data]),
         NEW m, m = WrapTransaction(user, payload, s)
  PROVE  /\ Reads("Envelope", m)
         /\ m.signature = SignBytes(user, m.payload, s)
         /\ WellFormed("Payload", m.payload) /\ FromString("Payload", m.payload) = payload
         /\ Sub("Payload", payload, "header") = header /\ payload.data = data
<1>1. Reads("Payload", payload) /\ payload.header = header /\ payload.data = data
  BY PayloadReads DEF Reads
<1>2. PICK bytes, signature : /\ bytes = SerializeToString("Payload", payload)
                              /\ signature = SignBytes(user, bytes, s)
  OBVIOUS
<1>3. m = New("Envelope", [payload |-> bytes, signature |-> signature])
  BY <1>2 DEF WrapTransaction
<1>4. Reads("Envelope", m) /\ m.payload = bytes /\ m.signature = signature
  BY <1>3, EnvelopeReads
<1>5. Sub("Payload", payload, "header") = header
  <2>1. "header" \in DOMAIN payload
    BY DEF New, With
  <2> QED
    BY <1>1, <2>1 DEF Sub, Has
<1> QED
  BY <1>1, <1>2, <1>4, <1>5 DEF Reads

\* The chaincode a proposal calls.
CalledName(ccName) == New("ChaincodeID", [name |-> Text(ccName)])

Called(ccName, args) ==
    New("ChaincodeSpec",
        [type |-> ChaincodeSpec_Type["GOLANG"], chaincode_id |-> CalledName(ccName),
         input |-> New("ChaincodeInput", [args |-> args])])

Invocation(ccName, args) ==
    SerializeToString("ChaincodeInvocationSpec",
        New("ChaincodeInvocationSpec", [chaincode_spec |-> Called(ccName, args)]))

Extension(ccName) ==
    SerializeToString("ChaincodeHeaderExtension",
        New("ChaincodeHeaderExtension", [chaincode_id |-> CalledName(ccName)]))

LEMMA CalledReads ==
  ASSUME Schema = MessageTypes, Promise, NEW ccName, NEW args, IsList(args), NEW spec,
         spec = Called(ccName, args)
  PROVE  /\ WellFormed("ChaincodeInvocationSpec", Invocation(ccName, args))
         /\ \A payload : payload.input = Invocation(ccName, args) => ChaincodeOf(payload) = spec
         /\ Sub("ChaincodeSpec", spec, "chaincode_id").name = Text(ccName)
         /\ Has(spec, "input") /\ Sub("ChaincodeSpec", spec, "input").args = args
<1>1. PICK id, input, type :
         /\ id = CalledName(ccName) /\ input = New("ChaincodeInput", [args |-> args])
         /\ type = ChaincodeSpec_Type["GOLANG"]
  OBVIOUS
<1>2. IsMessage("ChaincodeID", id) /\ id.name = Text(ccName)
  BY <1>1, TextIsStr, ChaincodeNameReads DEF CalledName, Reads
<1>3. IsMessage("ChaincodeInput", input) /\ input.args = args
  BY <1>1, ChaincodeInputReads DEF Reads
<1>4. type \in Nat
  BY <1>1 DEF ChaincodeSpec_Type
<1>5. spec = New("ChaincodeSpec", [type |-> type, chaincode_id |-> id, input |-> input])
  BY <1>1 DEF Called
<1>6. /\ IsMessage("ChaincodeSpec", spec) /\ spec.chaincode_id = id /\ spec.input = input
      /\ "chaincode_id" \in DOMAIN spec /\ "input" \in DOMAIN spec
  <2>1. Reads("ChaincodeSpec", spec) /\ spec.chaincode_id = id /\ spec.input = input
    BY <1>2, <1>3, <1>4, <1>5, ChaincodeSpecReads
  <2>2. "chaincode_id" \in DOMAIN spec /\ "input" \in DOMAIN spec
    BY <1>5 DEF New, With
  <2> QED
    BY <2>1, <2>2 DEF Reads
<1>7. PICK m : m = New("ChaincodeInvocationSpec", [chaincode_spec |-> spec])
  OBVIOUS
<1>8. Reads("ChaincodeInvocationSpec", m) /\ m.chaincode_spec = spec
  BY <1>6, <1>7, InvocationSpecReads
<1>9. "chaincode_spec" \in DOMAIN m
  BY <1>7 DEF New, With
<1>10. Invocation(ccName, args) = SerializeToString("ChaincodeInvocationSpec", m)
  BY <1>7 DEF Invocation
<1>11. FromString("ChaincodeInvocationSpec", Invocation(ccName, args)) = m
  BY <1>8, <1>10 DEF Reads
<1>12. \A payload : payload.input = Invocation(ccName, args) => ChaincodeOf(payload) = spec
  BY <1>8, <1>9, <1>11 DEF ChaincodeOf, Sub, Has
<1> QED
  BY <1>2, <1>3, <1>6, <1>8, <1>10, <1>12 DEF Reads, Sub, Has

LEMMA ExtensionReads ==
  ASSUME Schema = MessageTypes, Promise, NEW ccName, NEW extension,
         extension = FromString("ChaincodeHeaderExtension", Extension(ccName))
  PROVE  Has(extension, "chaincode_id") /\ extension.chaincode_id.name = Text(ccName)
<1>1. PICK id, m :
         /\ id = CalledName(ccName)
         /\ m = New("ChaincodeHeaderExtension", [chaincode_id |-> id])
  OBVIOUS
<1>2. IsMessage("ChaincodeID", id) /\ id.name = Text(ccName)
  BY <1>1, TextIsStr, ChaincodeNameReads DEF CalledName, Reads
<1>3. Reads("ChaincodeHeaderExtension", m) /\ m.chaincode_id = id
  BY <1>1, <1>2, HeaderExtensionReads
<1>4. "chaincode_id" \in DOMAIN m
  BY <1>1 DEF New, With
<1>5. extension = m
  BY <1>1, <1>3 DEF Extension, Reads
<1> QED
  BY <1>2, <1>3, <1>4, <1>5 DEF Has

\* A proposal's payload, with its transient map.
PayloadWith(input, transient) ==
    New("ChaincodeProposalPayload", [input |-> input, TransientMap |-> transient])

LEMMA PayloadIs ==
  ASSUME Schema = MessageTypes, NEW input, NEW transient
  PROVE  PayloadWith(input, transient) = [input |-> input, TransientMap |-> transient]
<1>1. Fields("ChaincodeProposalPayload") = ChaincodeProposalPayload
  BY DEF MessageTypes, Fields
<1>2. DOMAIN Defaults(ChaincodeProposalPayload) \subseteq {"input", "TransientMap"}
  BY DEF Defaults, ChaincodeProposalPayload
<1> QED
  BY <1>1, <1>2 DEF PayloadWith, New, With

LEMMA NoTransientSuits == Suits(ChaincodeProposalPayload.TransientMap, <<>>)
<1>1. ChaincodeProposalPayload.TransientMap
        = Repeated(Message(2, "ChaincodeProposalPayload_TransientMapEntry"))
  BY DEF ChaincodeProposalPayload
<1>2. PICK none : none = <<>> /\ Len(none) = 0 /\ none = [i \in 1..0 |-> none[i]]
  <2>1. Len(<<>>) = 0 /\ <<>> = [i \in 1..0 |-> <<>>[i]]
    OBVIOUS
  <2> QED
    BY <2>1
<1>3. IsListOf("ChaincodeProposalPayload_TransientMapEntry", none)
  BY <1>2 DEF IsListOf, IsList
<1> QED
  BY <1>1, <1>2, <1>3, MessagesSuits

LEMMA ProposalBuilt ==
  ASSUME Schema = MessageTypes, Promise, NEW header, Reads("Header", header), NEW input,
         NEW transient, Suits(ChaincodeProposalPayload.TransientMap, transient),
         NEW m, m = BuildProposal(header, input, transient)
  PROVE  /\ Reads("Proposal", m)
         /\ m.payload = SerializeToString("ChaincodeProposalPayload",
                                          PayloadWith(input, transient))
         /\ WellFormed("Header", m.header) /\ FromString("Header", m.header) = header
         /\ WellFormed("ChaincodeProposalPayload", m.payload)
         /\ FromString("ChaincodeProposalPayload", m.payload) = PayloadWith(input, transient)
<1>1. PICK payload : payload = PayloadWith(input, transient)
  OBVIOUS
<1>2. Reads("ChaincodeProposalPayload", payload)
  BY <1>1, ProposalPayloadReads DEF PayloadWith
<1>3. PICK x, y : /\ x = SerializeToString("Header", header)
                  /\ y = SerializeToString("ChaincodeProposalPayload", payload)
  OBVIOUS
<1>4. m = New("Proposal", [header |-> x, payload |-> y])
  BY <1>1, <1>3 DEF BuildProposal, PayloadWith
<1>5. Reads("Proposal", m) /\ m.header = x /\ m.payload = y
  BY <1>4, ProposalReads
<1> QED
  BY <1>1, <1>2, <1>3, <1>5 DEF Reads

-----------------------------------------------------------------------------

\* A generated transaction: its header is the user's, for its channel and its
\* chaincode; the signed proposal has the transient map, the one kept has not.
LEMMA Generated ==
  ASSUME Schema = MessageTypes, Promise, NEW user, NEW nonce, NEW ccName, NEW args,
         NEW channel, NEW transient, NEW s,
         NEW gen, gen = BuildGeneratedTX(user, nonce, ccName, args, channel, transient, s)
  PROVE  /\ gen.tx_context = TxContextFromUser(user, nonce)
         /\ gen.header = BuildHeader(TxContextFromUser(user, nonce), channel,
                                     Extension(ccName), HeaderType.ENDORSER_TRANSACTION, <<>>)
         /\ gen.proposal = BuildProposal(gen.header, Invocation(ccName, args), <<>>)
         /\ Reads("SignedProposal", gen.signed_proposal)
         /\ gen.signed_proposal.proposal_bytes
               = SerializeToString("Proposal", BuildProposal(gen.header,
                                       Invocation(ccName, args), transient))
         /\ gen.signed_proposal.signature
               = SignBytes(user, gen.signed_proposal.proposal_bytes, s)
<1>1. PICK header : header = BuildHeader(TxContextFromUser(user, nonce), channel,
                                Extension(ccName), HeaderType.ENDORSER_TRANSACTION, <<>>)
  OBVIOUS
<1>2. PICK bytes, signature, signed :
         /\ bytes = SerializeToString("Proposal", BuildProposal(header,
                                          Invocation(ccName, args), transient))
         /\ signature = SignBytes(user, bytes, s)
         /\ signed = New("SignedProposal", [proposal_bytes |-> bytes, signature |-> signature])
  OBVIOUS
<1>3. gen = [tx_context |-> TxContextFromUser(user, nonce), header |-> header,
             proposal |-> BuildProposal(header, Invocation(ccName, args), <<>>),
             signed_proposal |-> signed]
  BY <1>1, <1>2, Zenon DEF BuildGeneratedTX, Invocation, Called, CalledName, Extension
<1>4. /\ Reads("SignedProposal", signed)
      /\ signed.proposal_bytes = bytes /\ signed.signature = signature
  BY <1>2, SignedProposalReads
<1> QED
  BY <1>1, <1>2, <1>3, <1>4

\* The arguments of a transaction that can be generated.
Proper(args, channel, transient) ==
    /\ IsList(args) /\ EncodesProtoStr(channel)
    /\ Suits(ChaincodeProposalPayload.TransientMap, transient)

LEMMA GeneratedHeader ==
  ASSUME Schema = MessageTypes, Promise, NEW user, NEW nonce, NEW ccName, NEW args,
         NEW channel, EncodesProtoStr(channel), NEW transient, NEW s,
         NEW gen, gen = BuildGeneratedTX(user, nonce, ccName, args, channel, transient, s),
         NEW ch, ch = FromString("ChannelHeader", gen.header.channel_header)
  PROVE  /\ Reads("Header", gen.header)
         /\ gen.header.signature_header = BuildSignatureHeader(gen.tx_context)
         /\ ch.type = HeaderType.ENDORSER_TRANSACTION /\ ch.extension = Extension(ccName)
         /\ ch.channel_id = Text(channel.str) /\ ch.tx_id = gen.tx_context.tx_id
         /\ \A bytes : \A t \in Scalars : Authentic(gen.header, bytes,
                                                    SignBytes(user, bytes, t))
<1>1. PICK header, extension, type, cert :
         /\ header = gen.header /\ extension = Extension(ccName)
         /\ type = HeaderType.ENDORSER_TRANSACTION /\ cert = <<>>
  OBVIOUS
<1>2. /\ gen.tx_context = TxContextFromUser(user, nonce)
      /\ header = BuildHeader(TxContextFromUser(user, nonce), channel, extension, type, cert)
  BY <1>1, Generated
<1>3. type \in Nat
  BY <1>1 DEF HeaderType
<1>4. /\ Reads("Header", header)
      /\ header.signature_header = BuildSignatureHeader(TxContextFromUser(user, nonce))
      /\ ch.type = type /\ ch.channel_id = Text(channel.str) /\ ch.extension = extension
      /\ ch.tx_id = TxContextFromUser(user, nonce).tx_id
      /\ \A bytes : \A t \in Scalars : Authentic(header, bytes, SignBytes(user, bytes, t))
  <2>1. ch = FromString("ChannelHeader", header.channel_header)
    BY <1>1
  <2>2. PICK context : context = TxContextFromUser(user, nonce)
    OBVIOUS
  <2>3. /\ Reads("Header", header)
        /\ header.signature_header = BuildSignatureHeader(context)
        /\ ch.type = type /\ ch.channel_id = Text(channel.str)
        /\ ch.extension = extension /\ ch.tx_id = context.tx_id
    BY <1>2, <1>3, <2>1, <2>2, HeaderBuilt
  <2>4. ASSUME NEW bytes, NEW t \in Scalars
        PROVE  Authentic(header, bytes, SignBytes(user, bytes, t))
    BY <1>2, <1>3, <2>1, HeaderBuilt
  <2> QED
    BY <2>2, <2>3, <2>4
<1> QED
  BY <1>1, <1>2, <1>4

\* A peer accepts the proposal and reads what the client asked for.
LEMMA ProposalAccepted ==
  ASSUME Schema = MessageTypes, Promise, NEW user, NEW nonce, NEW ccName, NEW args,
         NEW channel, NEW transient, Proper(args, channel, transient), NEW s \in Scalars,
         NEW signed,
         signed = BuildGeneratedTX(user, nonce, ccName, args, channel, transient,
                                   s).signed_proposal,
         NEW payload,
         payload = FromString("ChaincodeProposalPayload",
                              FromString("Proposal", signed.proposal_bytes).payload)
  PROVE  /\ AcceptsProposal(signed)
         /\ payload.TransientMap = transient
         /\ Sub("ChaincodeSpec", ChaincodeOf(payload), "input").args = args
<1>1. PICK gen : gen = BuildGeneratedTX(user, nonce, ccName, args, channel, transient, s)
  OBVIOUS
<1>2. PICK header : header = gen.header
  OBVIOUS
<1>3. PICK proposal, input : /\ proposal = BuildProposal(header, input, transient)
                             /\ input = Invocation(ccName, args)
  OBVIOUS
<1>4. /\ signed.proposal_bytes = SerializeToString("Proposal", proposal)
      /\ signed.signature = SignBytes(user, signed.proposal_bytes, s)
  BY <1>1, <1>2, <1>3, Generated
<1>5. PICK ch : ch = FromString("ChannelHeader", header.channel_header)
  OBVIOUS
<1>7. /\ Reads("Header", header)
      /\ ch.type = HeaderType.ENDORSER_TRANSACTION /\ ch.extension = Extension(ccName)
      /\ Authentic(header, signed.proposal_bytes, signed.signature)
  BY <1>1, <1>2, <1>4, <1>5, GeneratedHeader DEF Proper
<1>8. /\ Reads("Proposal", proposal)
      /\ WellFormed("Header", proposal.header)
      /\ FromString("Header", proposal.header) = header
      /\ WellFormed("ChaincodeProposalPayload", proposal.payload)
      /\ FromString("ChaincodeProposalPayload", proposal.payload)
            = PayloadWith(input, transient)
  BY <1>3, <1>7, ProposalBuilt DEF Proper
<1>9. /\ WellFormed("Proposal", signed.proposal_bytes)
      /\ FromString("Proposal", signed.proposal_bytes) = proposal
      /\ payload = PayloadWith(input, transient)
  BY <1>4, <1>8 DEF Reads
<1>10. payload.input = input /\ payload.TransientMap = transient
  BY <1>9, PayloadIs
<1>11. PICK spec : spec = Called(ccName, args)
  OBVIOUS
<1>12. /\ WellFormed("ChaincodeInvocationSpec", payload.input)
       /\ ChaincodeOf(payload) = spec
       /\ Sub("ChaincodeSpec", spec, "chaincode_id").name = Text(ccName)
       /\ Sub("ChaincodeSpec", spec, "input").args = args
  BY <1>3, <1>10, <1>11, CalledReads DEF Proper
<1>13. PICK extension : extension = FromString("ChaincodeHeaderExtension", ch.extension)
  OBVIOUS
<1>14. Has(extension, "chaincode_id") /\ extension.chaincode_id.name = Text(ccName)
  BY <1>7, <1>13, ExtensionReads
<1>15. AcceptsProposal(signed)
  BY <1>5, <1>7, <1>8, <1>9, <1>12, <1>13, <1>14 DEF AcceptsProposal
<1> QED
  BY <1>10, <1>12, <1>15

-----------------------------------------------------------------------------

\* What every peer's response to a proposal has in it: the hash of the proposal
\* that the client keeps for the envelope.
ResponseBytes(gen) ==
    SerializeToString("ProposalResponsePayload",
        New("ProposalResponsePayload",
            [proposal_hash |-> Hash(gen.header.channel_header \o gen.header.signature_header
                                    \o gen.proposal.payload),
             extension |-> Opaque("results", 1)]))

Responses(gen) ==
    [i \in DOMAIN Peers |->
        FromString("ProposalResponse", Endorse(Peers[i], gen.signed_proposal))]

LEMMA Endorsed ==
  ASSUME Schema = MessageTypes, Promise, NEW user, NEW nonce, NEW ccName, NEW args,
         NEW channel, NEW transient, Proper(args, channel, transient), NEW s \in Scalars,
         NEW gen, gen = BuildGeneratedTX(user, nonce, ccName, args, channel, transient, s),
         NEW peer, NEW r,
         r = FromString("ProposalResponse", Endorse(peer, gen.signed_proposal)),
         NEW e, e = Sub("ProposalResponse", r, "endorsement")
  PROVE  /\ r.payload = ResponseBytes(gen)
         /\ IsMessage("Endorsement", e) /\ e.endorser = IdentityOf(peer)
         /\ e.signature = SignBytes(peer, ResponseBytes(gen) \o IdentityOf(peer), 1)
<1>1. PICK header, input, signed :
         /\ header = gen.header /\ input = Invocation(ccName, args)
         /\ signed = gen.signed_proposal
  OBVIOUS
<1>2. PICK proposal : proposal = BuildProposal(header, input, transient)
  OBVIOUS
<1>3. /\ gen.proposal = BuildProposal(header, input, <<>>)
      /\ signed.proposal_bytes = SerializeToString("Proposal", proposal)
  BY <1>1, <1>2, Generated
<1>5. Reads("Header", header)
  <2>1. PICK ch : ch = FromString("ChannelHeader", gen.header.channel_header)
    OBVIOUS
  <2> QED
    BY <1>1, <2>1, GeneratedHeader DEF Proper
<1>6. /\ Reads("Proposal", proposal)
      /\ FromString("Header", proposal.header) = header
      /\ FromString("ChaincodeProposalPayload", proposal.payload)
            = PayloadWith(input, transient)
  BY <1>2, <1>5, ProposalBuilt DEF Proper
<1>7. gen.proposal.payload = SerializeToString("ChaincodeProposalPayload",
                                               PayloadWith(input, <<>>))
  BY <1>3, <1>5, NoTransientSuits, ProposalBuilt
<1>8. [PayloadWith(input, transient) EXCEPT !.TransientMap = <<>>]
        = PayloadWith(input, <<>>)
  <2>1. [[input |-> input, TransientMap |-> transient] EXCEPT !.TransientMap = <<>>]
          = [input |-> input, TransientMap |-> <<>>]
    OBVIOUS
  <2> QED
    BY <2>1, PayloadIs, Zenon
<1>9. PICK hash : hash = ProposalHash(header, proposal.payload)
  OBVIOUS
<1>10. hash = Hash(header.channel_header \o header.signature_header \o gen.proposal.payload)
  BY <1>6, <1>7, <1>8, <1>9, Zenon DEF ProposalHash
<1>11. PICK bytes : bytes = ResponseBytes(gen)
  OBVIOUS
<1>12. bytes = SerializeToString("ProposalResponsePayload",
                 New("ProposalResponsePayload",
                     [proposal_hash |-> hash, extension |-> Opaque("results", 1)]))
  BY <1>1, <1>10, <1>11, Zenon DEF ResponseBytes
<1>13. FromString("Proposal", signed.proposal_bytes) = proposal
  BY <1>3, <1>6 DEF Reads
<1>14. PICK endorser, signature, endorsement, response, version :
          /\ endorser = IdentityOf(peer)
          /\ signature = Opaque("signature", Sign(peer, bytes \o endorser, 1))
          /\ endorsement = New("Endorsement", [endorser |-> endorser, signature |-> signature])
          /\ response = New("Response", [status |-> Status.SUCCESS])
          /\ version = 1
  OBVIOUS
<1>15. PICK m : m = New("ProposalResponse",
                        [version |-> version, payload |-> bytes, response |-> response,
                         endorsement |-> endorsement])
  OBVIOUS
<1>16. Endorse(peer, signed) = SerializeToString("ProposalResponse", m)
  BY <1>6, <1>9, <1>12, <1>13, <1>14, <1>15, Zenon DEF Endorse
<1>17. /\ Reads("Endorsement", endorsement)
       /\ endorsement.endorser = endorser /\ endorsement.signature = signature
  BY <1>14, EndorsementReads
<1>18. IsMessage("Response", response)
  <2>1. Status.SUCCESS \in Nat
    BY DEF Status
  <2> QED
    BY <1>14, <2>1, ResponseReads DEF Reads
<1>19. version \in Nat
  BY <1>14
<1>20. Reads("ProposalResponse", m) /\ m.payload = bytes /\ m.endorsement = endorsement
  BY <1>15, <1>17, <1>18, <1>19, ProposalResponseReads DEF Reads
<1>21. "endorsement" \in DOMAIN m
  BY <1>15 DEF New, With
<1>22. r = m
  BY <1>1, <1>16, <1>20 DEF Reads
<1>23. e = endorsement
  BY <1>20, <1>21, <1>22 DEF Sub, Has
<1> QED
  BY <1>11, <1>14, <1>17, <1>20, <1>22, <1>23 DEF Reads, SignBytes

LEMMA ResponseBytesRead ==
  ASSUME Schema = MessageTypes, Promise, NEW gen
  PROVE  /\ WellFormed("ProposalResponsePayload", ResponseBytes(gen))
         /\ FromString("ProposalResponsePayload", ResponseBytes(gen)).proposal_hash
               = Hash(gen.header.channel_header \o gen.header.signature_header
                      \o gen.proposal.payload)
<1>1. PICK hash, results : /\ hash = Hash(gen.header.channel_header
                                          \o gen.header.signature_header
                                          \o gen.proposal.payload)
                           /\ results = Opaque("results", 1)
  OBVIOUS
<1>2. PICK m : m = New("ProposalResponsePayload",
                       [proposal_hash |-> hash, extension |-> results])
  OBVIOUS
<1>3. Reads("ProposalResponsePayload", m) /\ m.proposal_hash = hash
  BY <1>2, ProposalResponsePayloadReads
<1>4. ResponseBytes(gen) = SerializeToString("ProposalResponsePayload", m)
  BY <1>1, <1>2, Zenon DEF ResponseBytes
<1> QED
  BY <1>1, <1>3, <1>4 DEF Reads

LEMMA OneListed ==
  ASSUME NEW type, NEW m, IsMessage(type, m), NEW list, list = <<m>>
  PROVE  IsListOf(type, list) /\ list # <<>> /\ DOMAIN list = {1} /\ list[1] = m
<1>1. Len(<<m>>) = 1 /\ <<m>> = [i \in 1..1 |-> <<m>>[i]] /\ <<m>>[1] = m /\ <<m>> # <<>>
  OBVIOUS
<1>2. 1..1 = {1}
  OBVIOUS
<1> QED
  BY <1>1, <1>2 DEF IsListOf, IsList

-----------------------------------------------------------------------------

EndorsedTX(gen) ==
    [peer_responses |-> Responses(gen), header |-> gen.header, proposal |-> gen.proposal]

\* What an orderer or a block has of a transaction: its header, and one action
\* with the proposal that is kept, the response and every peer's endorsement.
Carries(m, gen, taction, action) ==
    LET payload == FromString("Payload", m.payload)
    IN  /\ WellFormed("Payload", m.payload)
        /\ Sub("Payload", payload, "header") = gen.header
        /\ WellFormed("Transaction", payload.data)
        /\ FromString("Transaction", payload.data).actions = <<taction>>
        /\ taction.header = gen.header.signature_header
        /\ WellFormed("ChaincodeActionPayload", taction.payload)
        /\ FromString("ChaincodeActionPayload", taction.payload) = action
        /\ action.chaincode_proposal_payload = gen.proposal.payload
        /\ Sub("ChaincodeActionPayload", action, "action").proposal_response_payload
              = ResponseBytes(gen)

EndorsementsOf(action) == Sub("ChaincodeActionPayload", action, "action").endorsements

\* The endorsement of a peer.
IsFrom(e, peer, gen) ==
    /\ e.endorser = IdentityOf(peer)
    /\ e.signature = SignBytes(peer, ResponseBytes(gen) \o IdentityOf(peer), 1)

LEMMA PeersAreListed ==
  /\ Len(Peers) \in Nat /\ DOMAIN Peers = 1..Len(Peers) /\ 1 \in DOMAIN Peers
<1>1. IsList(Peers) /\ Len(Peers) > 0
  BY MessagesAssumption
<1>2. Len(Peers) \in Nat /\ DOMAIN Peers = 1..Len(Peers)
  BY <1>1 DEF IsList
<1> QED
  BY <1>1, <1>2

LEMMA TransactionBuilt ==
  ASSUME Schema = MessageTypes, Promise, NEW user, NEW nonce, NEW ccName, NEW args,
         NEW channel, NEW transient, Proper(args, channel, transient), NEW s \in Scalars,
         NEW gen, gen = BuildGeneratedTX(user, nonce, ccName, args, channel, transient, s),
         NEW t, NEW m, m = BuildEndorsedTXEnvelope(EndorsedTX(gen), user, t)
  PROVE  /\ Reads("Envelope", m)
         /\ m.signature = SignBytes(user, m.payload, t)
         /\ \E taction, action :
               /\ Carries(m, gen, taction, action)
               /\ IsList(EndorsementsOf(action)) /\ Len(EndorsementsOf(action)) = Len(Peers)
               /\ \A i \in DOMAIN Peers : IsFrom(EndorsementsOf(action)[i], Peers[i], gen)
<1>1. PICK header, responses : header = gen.header /\ responses = Responses(gen)
  OBVIOUS
<1>2. Reads("Header", header)
  <2>1. PICK ch : ch = FromString("ChannelHeader", gen.header.channel_header)
    OBVIOUS
  <2> QED
    BY <1>1, <2>1, GeneratedHeader DEF Proper
<1>3. /\ DOMAIN responses = DOMAIN Peers
      /\ \A i \in DOMAIN Peers : responses[i] = FromString("ProposalResponse",
                                        Endorse(Peers[i], gen.signed_proposal))
  BY <1>1 DEF Responses
<1>4. PICK endorsements :
         endorsements = [i \in DOMAIN responses |->
                            Sub("ProposalResponse", responses[i], "endorsement")]
  OBVIOUS
<1>5. ASSUME NEW i \in DOMAIN Peers
      PROVE  /\ responses[i].payload = ResponseBytes(gen)
             /\ IsMessage("Endorsement", endorsements[i])
             /\ IsFrom(endorsements[i], Peers[i], gen)
  <2>1. PICK peer, r, e : /\ peer = Peers[i] /\ r = responses[i]
                          /\ e = Sub("ProposalResponse", r, "endorsement")
    OBVIOUS
  <2>2. /\ r.payload = ResponseBytes(gen)
        /\ IsMessage("Endorsement", e) /\ e.endorser = IdentityOf(peer)
        /\ e.signature = SignBytes(peer, ResponseBytes(gen) \o IdentityOf(peer), 1)
    BY <1>3, <2>1, Endorsed
  <2>3. endorsements[i] = e
    BY <1>3, <1>4, <2>1
  <2> QED
    BY <2>1, <2>2, <2>3 DEF IsFrom
<1>6. /\ IsListOf("Endorsement", endorsements) /\ Len(endorsements) = Len(Peers)
      /\ IsList(endorsements)
  <2>1. endorsements = [i \in 1..Len(Peers) |-> endorsements[i]]
    BY <1>3, <1>4, PeersAreListed
  <2>2. Len(endorsements) = Len(Peers)
    BY <2>1, PeersAreListed
  <2> QED
    BY <1>5, <2>1, <2>2, PeersAreListed DEF IsListOf, IsList
<1>7. responses[1].payload = ResponseBytes(gen)
  BY <1>5, PeersAreListed
<1>8. PICK endorsedAction :
         endorsedAction = New("ChaincodeEndorsedAction",
                              [proposal_response_payload |-> ResponseBytes(gen),
                               endorsements |-> endorsements])
  OBVIOUS
<1>9. /\ IsMessage("ChaincodeEndorsedAction", endorsedAction)
      /\ endorsedAction.proposal_response_payload = ResponseBytes(gen)
      /\ endorsedAction.endorsements = endorsements
  BY <1>6, <1>8, EndorsedActionReads DEF Reads
<1>10. PICK kept, action :
          /\ kept = gen.proposal.payload
          /\ action = New("ChaincodeActionPayload",
                          [action |-> endorsedAction, chaincode_proposal_payload |-> kept])
  OBVIOUS
<1>11. /\ Reads("ChaincodeActionPayload", action) /\ action.action = endorsedAction
       /\ action.chaincode_proposal_payload = kept
  BY <1>9, <1>10, ActionPayloadReads
<1>12. Sub("ChaincodeActionPayload", action, "action") = endorsedAction
  <2>1. "action" \in DOMAIN action
    BY <1>10 DEF New, With
  <2> QED
    BY <1>11, <2>1 DEF Sub, Has
<1>13. PICK sh, bytes, taction :
          /\ sh = header.signature_header
          /\ bytes = SerializeToString("ChaincodeActionPayload", action)
          /\ taction = New("TransactionAction", [header |-> sh, payload |-> bytes])
  OBVIOUS
<1>14. Reads("TransactionAction", taction) /\ taction.header = sh /\ taction.payload = bytes
  BY <1>13, TransactionActionReads
<1>15. PICK actions, transaction :
          /\ actions = <<taction>>
          /\ transaction = New("Transaction", [actions |-> actions])
  OBVIOUS
<1>16. IsListOf("TransactionAction", actions)
  BY <1>14, <1>15, OneListed DEF Reads
<1>17. Reads("Transaction", transaction) /\ transaction.actions = actions
  BY <1>15, <1>16, TransactionReads
<1>18. PICK data, payload :
          /\ data = SerializeToString("Transaction", transaction)
          /\ payload = New("Payload", [header |-> header, data |-> data])
  OBVIOUS
<1>19. m = WrapTransaction(user, payload, t)
  <2>1. PICK endorsed : endorsed = EndorsedTX(gen)
    OBVIOUS
  <2>2. /\ endorsed.peer_responses = responses /\ endorsed.header = header
        /\ endorsed.proposal = gen.proposal
    BY <1>1, <2>1 DEF EndorsedTX
  <2> QED
    BY <1>4, <1>7, <1>8, <1>10, <1>13, <1>15, <1>18, <2>1, <2>2, Zenon
    DEF BuildEndorsedTXEnvelope
<1>20. /\ Reads("Envelope", m) /\ m.signature = SignBytes(user, m.payload, t)
       /\ WellFormed("Payload", m.payload) /\ FromString("Payload", m.payload) = payload
       /\ Sub("Payload", payload, "header") = header /\ payload.data = data
  BY <1>2, <1>18, <1>19, Wrapped
<1>21. Carries(m, gen, taction, action)
  BY <1>1, <1>9, <1>10, <1>11, <1>12, <1>13, <1>14, <1>15, <1>17, <1>18, <1>20
  DEF Carries, Reads
<1>22. EndorsementsOf(action) = endorsements
  BY <1>9, <1>12 DEF EndorsementsOf
<1> QED
  BY <1>5, <1>6, <1>20, <1>21, <1>22

Named(channel) == channel.str # ""

LEMMA NamedText == \A channel : Named(channel) => Text(channel.str) # <<>>
<1>1. \A str : str # "" => Text(str) # <<>>
  BY DEF Text, Opaque
<1> QED
  BY <1>1 DEF Named

LEMMA Singleton == \A x : <<x>> # <<>> /\ DOMAIN <<x>> = {1} /\ <<x>>[1] = x
  OBVIOUS

\* The actions of the transaction in an envelope, none of which has transient
\* data.
ActionsIn(envelope) ==
    FromString("Transaction", FromString("Payload", envelope.payload).data).actions

NoneIn(list) ==
    \A i \in DOMAIN list :
        TransientIn(FromString("ChaincodeActionPayload", list[i].payload)
                       .chaincode_proposal_payload) = <<>>

\* The orderers accept it, and find no transient data in it.
LEMMA TransactionAccepted ==
  ASSUME Schema = MessageTypes, Promise, NEW user, NEW nonce, NEW ccName, NEW args,
         NEW channel, NEW transient, Proper(args, channel, transient), NEW s \in Scalars,
         NEW gen, gen = BuildGeneratedTX(user, nonce, ccName, args, channel, transient, s),
         NEW t \in Scalars, NEW m, m = BuildEndorsedTXEnvelope(EndorsedTX(gen), user, t),
         Named(channel), NEW list, list = ActionsIn(m)
  PROVE  AcceptsEnvelope("Broadcast", m) /\ NoneIn(list)
<1>1. PICK taction, action :
         /\ Carries(m, gen, taction, action)
         /\ IsList(EndorsementsOf(action)) /\ Len(EndorsementsOf(action)) = Len(Peers)
         /\ \A i \in DOMAIN Peers : IsFrom(EndorsementsOf(action)[i], Peers[i], gen)
  BY TransactionBuilt
<1>2. m.signature = SignBytes(user, m.payload, t)
  BY TransactionBuilt
<1>3. PICK header, ch, payload : /\ header = gen.header
                                 /\ ch = FromString("ChannelHeader", gen.header.channel_header)
                                 /\ payload = FromString("Payload", m.payload)
  OBVIOUS
<1>4. /\ Reads("Header", header) /\ ch.type = HeaderType.ENDORSER_TRANSACTION
      /\ ch.channel_id = Text(channel.str)
      /\ Authentic(header, m.payload, m.signature)
  BY <1>2, <1>3, GeneratedHeader DEF Proper
<1>5. ch.channel_id # <<>>
  BY <1>4, NamedText
<1>6. list = <<taction>> /\ list # <<>> /\ DOMAIN list = {1} /\ list[1] = taction
  <2>1. list = <<taction>>
    BY <1>1, Zenon DEF Carries, ActionsIn
  <2> QED
    BY <2>1, Singleton
<1>7. PICK endorsed, bytes, response :
         /\ endorsed = Sub("ChaincodeActionPayload", action, "action")
         /\ bytes = endorsed.proposal_response_payload
         /\ response = FromString("ProposalResponsePayload", bytes)
  OBVIOUS
<1>8. bytes = ResponseBytes(gen)
  BY <1>1, <1>7 DEF Carries
<1>9. /\ response.proposal_hash
            = Hash(header.channel_header \o header.signature_header
                   \o action.chaincode_proposal_payload)
  BY <1>1, <1>3, <1>7, <1>8, ResponseBytesRead DEF Carries
<1>10. ASSUME NEW j \in DOMAIN endorsed.endorsements
       PROVE  SignedBy(endorsed.endorsements[j].endorser,
                       bytes \o endorsed.endorsements[j].endorser,
                       endorsed.endorsements[j].signature)
  <2>1. endorsed.endorsements = EndorsementsOf(action)
    BY <1>7 DEF EndorsementsOf
  <2>2. j \in DOMAIN Peers
    BY <1>1, <2>1, PeersAreListed DEF IsList
  <2>3. IsFrom(endorsed.endorsements[j], Peers[j], gen)
    BY <1>1, <2>1, <2>2
  <2>4. 1 \in Scalars
    BY CryptoAssumption DEF Scalars
  <2> QED
    BY <1>8, <2>3, <2>4, NodeSigned DEF IsFrom
<1>11. AcceptsTransaction(header, payload.data)
  <2>1. WellFormed("Transaction", payload.data)
    BY <1>1, <1>3 DEF Carries
  <2>2. FromString("Transaction", payload.data).actions = list
    BY <1>3 DEF ActionsIn
  <2>3. /\ taction.header = header.signature_header
        /\ WellFormed("ChaincodeActionPayload", taction.payload)
        /\ FromString("ChaincodeActionPayload", taction.payload) = action
    BY <1>1, <1>3 DEF Carries
  <2>4. Len(endorsed.endorsements) = Len(Peers)
    BY <1>1, <1>7 DEF EndorsementsOf
  <2> QED
    BY <1>6, <1>7, <1>9, <1>10, <2>1, <2>2, <2>3, <2>4 DEF AcceptsTransaction
<1>12. HeaderType.ENDORSER_TRANSACTION # HeaderType.CONFIG_UPDATE
  BY DEF HeaderType
<1>13. AcceptsEnvelope("Broadcast", m)
  <2>1. WellFormed("Payload", m.payload) /\ Sub("Payload", payload, "header") = header
    BY <1>1, <1>3 DEF Carries
  <2> QED
    BY <1>3, <1>4, <1>5, <1>11, <1>12, <2>1 DEF AcceptsEnvelope
<1>14. FromString("ChaincodeProposalPayload", action.chaincode_proposal_payload).TransientMap
         = <<>>
  <2>1. PICK input, none : input = Invocation(ccName, args) /\ none = <<>>
    OBVIOUS
  <2>2. gen.proposal = BuildProposal(header, input, none)
    BY <1>3, <2>1, Generated
  <2>3. Suits(ChaincodeProposalPayload.TransientMap, none)
    BY <2>1, NoTransientSuits
  <2>4. FromString("ChaincodeProposalPayload", gen.proposal.payload) = PayloadWith(input, none)
    BY <1>4, <2>2, <2>3, ProposalBuilt
  <2>5. PayloadWith(input, none).TransientMap = none
    BY PayloadIs
  <2> QED
    BY <1>1, <2>1, <2>4, <2>5 DEF Carries
<1>15. FromString("ChaincodeActionPayload", taction.payload) = action
  BY <1>1 DEF Carries
<1>16. NoneIn(list)
  BY <1>6, <1>14, <1>15 DEF NoneIn, TransientIn
<1> QED
  BY <1>13, <1>16

-----------------------------------------------------------------------------

\* The envelopes that are built in one go: their header and their data.
LEMMA EnvelopeBuilt ==
  ASSUME Schema = MessageTypes, Promise, NEW user, NEW nonce, NEW data, NEW channel,
         EncodesProtoStr(channel), NEW cert, NEW txType \in Nat, NEW s \in Scalars, NEW m,
         m = BuildEnvelope(user, TxContextFromUser(user, nonce), data, channel, cert, txType,
                           s),
         NEW payload, payload = FromString("Payload", m.payload),
         NEW header, header = Sub("Payload", payload, "header"),
         NEW ch, ch = FromString("ChannelHeader", header.channel_header)
  PROVE  /\ Reads("Envelope", m) /\ WellFormed("Payload", m.payload) /\ payload.data = data
         /\ Authentic(header, m.payload, m.signature)
         /\ header.signature_header = BuildSignatureHeader(TxContextFromUser(user, nonce))
         /\ ch.type = txType /\ ch.channel_id = Text(channel.str)
         /\ ch.tx_id = TxContextFromUser(user, nonce).tx_id
         /\ ch.tls_cert_hash = IF cert = <<>> THEN <<>> ELSE Hash(PemToDer(cert))
<1>1. PICK none, built, inner : 
         /\ none = <<>>
         /\ built = BuildHeader(TxContextFromUser(user, nonce), channel, none, txType, cert)
         /\ inner = FromString("ChannelHeader", built.channel_header)
  OBVIOUS
<1>2. PICK context : context = TxContextFromUser(user, nonce)
  OBVIOUS
<1>3. /\ Reads("Header", built) /\ built.signature_header = BuildSignatureHeader(context)
      /\ inner.type = txType /\ inner.channel_id = Text(channel.str)
      /\ inner.tx_id = context.tx_id
      /\ inner.tls_cert_hash = IF cert = <<>> THEN <<>> ELSE Hash(PemToDer(cert))
  BY <1>1, <1>2, HeaderBuilt
<1>4. \A bytes : \A t \in Scalars : Authentic(built, bytes, SignBytes(user, bytes, t))
  BY <1>1, HeaderBuilt
<1>5. PICK sent : sent = New("Payload", [header |-> built, data |-> data])
  OBVIOUS
<1>6. m = WrapTransaction(user, sent, s)
  BY <1>1, <1>5 DEF BuildEnvelope
<1>7. /\ Reads("Envelope", m) /\ m.signature = SignBytes(user, m.payload, s)
      /\ WellFormed("Payload", m.payload) /\ FromString("Payload", m.payload) = sent
      /\ Sub("Payload", sent, "header") = built /\ sent.data = data
  BY <1>3, <1>5, <1>6, Wrapped
<1>8. payload = sent /\ header = built /\ ch = inner
  BY <1>1, <1>7
<1> QED
  BY <1>2, <1>3, <1>4, <1>7, <1>8

\* The orderers accept a config update: both signatures are the user's.
LEMMA UpdateAccepted ==
  ASSUME Schema = MessageTypes, Promise, NEW user, NEW nonce, NEW channel,
         EncodesProtoStr(channel), Named(channel), NEW update,
         FromString("ConfigUpdate", update).channel_id = Text(channel.str),
         NEW s \in Scalars, NEW t \in Scalars, NEW m,
         m = BuildConfigUpdateEnvelope(channel, TxContextFromUser(user, nonce), user, update,
                                       s, t)
  PROVE  Reads("Envelope", m) /\ AcceptsEnvelope("Broadcast", m)
<1>1. PICK sh : sh = BuildSignatureHeader(TxContextFromUser(user, nonce))
  OBVIOUS
<1>2. PICK signature, signed, none :
         /\ signature = SignBytes(user, sh \o update, s)
         /\ signed = New("ConfigSignature",
                         [signature_header |-> sh, signature |-> signature])
         /\ none = <<>>
  OBVIOUS
<1>3. /\ Reads("ConfigSignature", signed)
      /\ signed.signature_header = sh /\ signed.signature = signature
  BY <1>2, ConfigSignatureReads
<1>4. PICK all, inner, data, type :
         /\ all = <<signed>>
         /\ inner = New("ConfigUpdateEnvelope", [config_update |-> update, signatures |-> all])
         /\ data = SerializeToString("ConfigUpdateEnvelope", inner)
         /\ type = HeaderType.CONFIG_UPDATE
  OBVIOUS
<1>5. IsListOf("ConfigSignature", all)
  BY <1>3, <1>4, OneListed DEF Reads
<1>6. all # <<>> /\ DOMAIN all = {1} /\ all[1] = signed
  BY <1>4, Singleton
<1>7. /\ Reads("ConfigUpdateEnvelope", inner)
      /\ inner.config_update = update /\ inner.signatures = all
  BY <1>4, <1>5, ConfigUpdateEnvelopeReads
<1>8. m = BuildEnvelope(user, TxContextFromUser(user, nonce), data, channel, none, type, t)
  BY <1>1, <1>2, <1>4, Zenon DEF BuildConfigUpdateEnvelope
<1>9. type \in Nat
  BY <1>4 DEF HeaderType
<1>10. PICK payload, header, ch :
          /\ payload = FromString("Payload", m.payload)
          /\ header = Sub("Payload", payload, "header")
          /\ ch = FromString("ChannelHeader", header.channel_header)
  OBVIOUS
<1>11. /\ Reads("Envelope", m) /\ WellFormed("Payload", m.payload) /\ payload.data = data
       /\ Authentic(header, m.payload, m.signature)
       /\ ch.type = type /\ ch.channel_id = Text(channel.str)
  BY <1>8, <1>9, <1>10, EnvelopeBuilt
<1>12. WellFormed("ConfigUpdateEnvelope", data)
       /\ FromString("ConfigUpdateEnvelope", data) = inner
  BY <1>4, <1>7 DEF Reads
<1>13. SignedBy(FromString("SignatureHeader", sh).creator, sh \o update, signature)
  <2>1. PICK context : context = TxContextFromUser(user, nonce)
    OBVIOUS
  <2>2. FromString("SignatureHeader", sh).creator = IdentityOf(user)
    BY <1>1, <2>1, ContextReads
  <2> QED
    BY <1>2, <2>2, NodeSigned
<1>14. AcceptsConfigUpdate(header, data)
  BY <1>3, <1>6, <1>7, <1>10, <1>11, <1>12, <1>13 DEF AcceptsConfigUpdate
<1>15. ch.channel_id # <<>>
  BY <1>11, NamedText
<1> QED
  BY <1>4, <1>10, <1>11, <1>14, <1>15 DEF AcceptsEnvelope

-----------------------------------------------------------------------------

SeekPositionFor(p) ==
    New("SeekPosition",
        IF p = {} THEN [newest |-> New("SeekNewest", <<>>)]
        ELSE [specified |-> New("SeekSpecified", [number |-> CHOOSE n \in p : TRUE])])

LEMMA SeekNewestReads ==
  ASSUME Schema = MessageTypes, Promise
  PROVE  IsMessage("SeekNewest", New("SeekNewest", <<>>))
<1>1. Fields("SeekNewest") = NoFields /\ "SeekNewest" \in DOMAIN Schema
  BY DEF MessageTypes, Fields, SeekNewest
<1>2. DOMAIN NoFields = {}
  BY DEF NoFields
<1>3. Simple("SeekNewest")
  BY <1>1, <1>2 DEF Simple
<1>4. PICK none : none = <<>> /\ DOMAIN none = {} /\ none = [f \in DOMAIN none |-> none[f]]
  <2>1. DOMAIN <<>> = {} /\ <<>> = [f \in DOMAIN <<>> |-> <<>>[f]]
    OBVIOUS
  <2> QED
    BY <2>1
<1>5. Reads("SeekNewest", New("SeekNewest", none))
  BY <1>3, <1>4, SimpleReads
<1> QED
  BY <1>4, <1>5 DEF Reads

LEMMA OneOfSuits == \A name, n, t, v : IsMessage(t, v) => Suits(OneOf(name, Message(n, t)), v)
  BY DEF OneOf, Message, Field, Suits, Fits, FitsOne

LEMMA SeekPositionFields ==
  ASSUME Schema = MessageTypes
  PROVE  /\ Sound("SeekPosition")
         /\ DOMAIN Fields("SeekPosition") = {"newest", "oldest", "specified"}
         /\ \A f \in DOMAIN Fields("SeekPosition") : ~HasDefault(Fields("SeekPosition")[f])
         /\ \A v : IsMessage("SeekNewest", v) => Suits(Fields("SeekPosition")["newest"], v)
         /\ \A v : IsMessage("SeekSpecified", v) => Suits(Fields("SeekPosition")["specified"], v)
<1>1. Fields("SeekPosition") = SeekPosition /\ "SeekPosition" \in DOMAIN Schema
  BY DEF MessageTypes, Fields
<1>2. \A n, t : /\ OneOf("Type", Message(n, t)).kind = "message"
                /\ ~HasDefault(OneOf("Type", Message(n, t)))
  BY DEF OneOf, Message, Field, HasDefault
<1>3. /\ DOMAIN SeekPosition = {"newest", "oldest", "specified"}
      /\ \A f \in DOMAIN SeekPosition : \E n, t : SeekPosition[f] = OneOf("Type", Message(n, t))
      /\ SeekPosition["newest"] = OneOf("Type", Message(1, "SeekNewest"))
      /\ SeekPosition["specified"] = OneOf("Type", Message(3, "SeekSpecified"))
  BY DEF SeekPosition
<1>4. \A f \in DOMAIN SeekPosition : SeekPosition[f].kind = "message"
                                     /\ ~HasDefault(SeekPosition[f])
  BY <1>2, <1>3
<1>5. \A f \in DOMAIN Fields("SeekPosition") : Fields("SeekPosition")[f].kind = "message"
                                     /\ ~HasDefault(Fields("SeekPosition")[f])
  BY <1>1, <1>4
<1>6. Sound("SeekPosition")
  BY <1>1, <1>5, Zenon DEF Sound
<1>7. /\ \A v : IsMessage("SeekNewest", v) => Suits(SeekPosition["newest"], v)
      /\ \A v : IsMessage("SeekSpecified", v) => Suits(SeekPosition["specified"], v)
  BY <1>3, OneOfSuits
<1> QED
  BY <1>1, <1>3, <1>4, <1>6, <1>7

LEMMA OneSuits ==
  ASSUME NEW type, NEW f \in DOMAIN Fields(type), NEW v, Suits(Fields(type)[f], v),
         NEW values, values = [g \in DOMAIN values |-> values[g]], DOMAIN values = {f},
         values[f] = v
  PROVE  Suit(type, values)
<1>1. \A g \in DOMAIN values : g = f
  OBVIOUS
<1>2. \A g \in DOMAIN values : Suits(Fields(type)[g], values[g])
  BY <1>1
<1>3. DOMAIN values \subseteq DOMAIN Fields(type)
  OBVIOUS
<1> QED
  BY <1>1, <1>2, <1>3, Zenon DEF Suit

\* A position that is asked for comes through, the block 0 too.
LEMMA SeekPositionReads ==
  ASSUME Schema = MessageTypes, Promise, NEW p, IsPosition(p), NEW m, m = SeekPositionFor(p)
  PROVE  /\ IsMessage("SeekPosition", m)
         /\ (IF Has(m, "specified") THEN {m.specified.number} ELSE {}) = p
<1>1. CASE p = {}
  <2>1. PICK newest, values : /\ newest = New("SeekNewest", <<>>)
                              /\ values = [newest |-> newest]
    OBVIOUS
  <2>2. /\ values = [f \in DOMAIN values |-> values[f]] /\ DOMAIN values = {"newest"}
        /\ values["newest"] = newest
    BY <2>1
  <2>3. Suit("SeekPosition", values)
    BY <2>1, <2>2, SeekNewestReads, SeekPositionFields, OneSuits
  <2>4. m = New("SeekPosition", values)
    BY <1>1, <2>1 DEF SeekPositionFor
  <2>5. Reads("SeekPosition", m) /\ \A f \in DOMAIN m : f \in DOMAIN values
                                           \/ HasDefault(Fields("SeekPosition")[f])
    BY <2>3, <2>4, SeekPositionFields, NewReads
  <2>6. "specified" \notin DOMAIN m
    BY <2>2, <2>5, SeekPositionFields
  <2> QED
    BY <1>1, <2>5, <2>6 DEF Has, Reads
<1>2. CASE p # {}
  <2>1. PICK n, specified, values :
           /\ n = CHOOSE k \in p : TRUE
           /\ specified = New("SeekSpecified", [number |-> n])
           /\ values = [specified |-> specified]
    OBVIOUS
  <2>2. n \in Nat /\ p = {n}
    BY <1>2, <2>1 DEF IsPosition
  <2>3. Reads("SeekSpecified", specified) /\ specified.number = n
    BY <2>1, <2>2, SeekSpecifiedReads
  <2>4. /\ values = [f \in DOMAIN values |-> values[f]] /\ DOMAIN values = {"specified"}
        /\ values["specified"] = specified
    BY <2>1
  <2>5. Suit("SeekPosition", values)
    BY <2>3, <2>4, SeekPositionFields, OneSuits DEF Reads
  <2>6. m = New("SeekPosition", values)
    BY <1>2, <2>1 DEF SeekPositionFor
  <2>7. Reads("SeekPosition", m) /\ "specified" \in DOMAIN m /\ m["specified"] = specified
    BY <2>4, <2>5, <2>6, SeekPositionFields, NewReads
  <2> QED
    BY <2>2, <2>3, <2>7 DEF Has, Reads
<1> QED
  BY <1>1, <1>2


\* The request for a stream: a node can parse it, and reads the range that was
\* asked for and the hash of the client's certificate.
PositionOf(p) == IF Has(p, "specified") THEN {p.specified.number} ELSE {}

LEMMA SeekReads ==
  ASSUME Schema = MessageTypes, Promise, NEW start, NEW stop, NEW behavior,
         IsPosition(start), IsPosition(stop), behavior \in DOMAIN SeekInfo_SeekBehavior,
         NEW m, m = BuildSeekInfo(start, stop, behavior)
  PROVE  /\ Reads("SeekInfo", m)
         /\ PositionOf(Sub("SeekInfo", m, "start")) = start
         /\ PositionOf(Sub("SeekInfo", m, "stop")) = stop
         /\ m.behavior = SeekInfo_SeekBehavior[behavior]
<1>1. PICK x, y, z : /\ x = SeekPositionFor(start) /\ y = SeekPositionFor(stop)
                     /\ z = SeekInfo_SeekBehavior[behavior]
  OBVIOUS
<1>2. m = New("SeekInfo", [start |-> x, stop |-> y, behavior |-> z])
  BY <1>1, Zenon DEF BuildSeekInfo, SeekPositionFor
<1>3. z \in Nat
  BY <1>1 DEF SeekInfo_SeekBehavior
<1>4. IsMessage("SeekPosition", x) /\ PositionOf(x) = start
  BY <1>1, SeekPositionReads DEF PositionOf
<1>5. IsMessage("SeekPosition", y) /\ PositionOf(y) = stop
  BY <1>1, SeekPositionReads DEF PositionOf
<1>6. Reads("SeekInfo", m) /\ m.start = x /\ m.stop = y /\ m.behavior = z
  BY <1>2, <1>3, <1>4, <1>5, SeekInfoReads
<1>7. "start" \in DOMAIN m /\ "stop" \in DOMAIN m
  BY <1>2 DEF New, With
<1>8. Sub("SeekInfo", m, "start") = x /\ Sub("SeekInfo", m, "stop") = y
  BY <1>6, <1>7 DEF Sub, Has
<1> QED
  BY <1>1, <1>4, <1>5, <1>6, <1>8

SeekEnvelope(m, user, nonce, seek, channel, cert) ==
    \E s \in Scalars :
        m = BuildEnvelope(user, TxContextFromUser(user, nonce),
                          SerializeToString("SeekInfo", seek), channel, cert,
                          HeaderType.ENDORSER_TRANSACTION, s)

SeekIn(m, seek, channel, cert) ==
    LET payload == FromString("Payload", m.payload)
        header == Sub("Payload", payload, "header")
        ch == FromString("ChannelHeader", header.channel_header)
    IN  /\ WellFormed("Payload", m.payload)
        /\ Authentic(header, m.payload, m.signature)
        /\ WellFormed("SeekInfo", payload.data)
        /\ FromString("SeekInfo", payload.data) = seek
        /\ ch.channel_id = Text(channel.str)
        /\ ch.tls_cert_hash = IF cert = <<>> THEN <<>> ELSE Hash(PemToDer(cert))

LEMMA SeekReadable ==
  ASSUME Schema = MessageTypes, Promise, NEW user, NEW nonce, NEW channel,
         EncodesProtoStr(channel), NEW cert, NEW seek,
         Reads("SeekInfo", seek), NEW m,
         SeekEnvelope(m, user, nonce, seek, channel, cert)
  PROVE  Reads("Envelope", m) /\ SeekIn(m, seek, channel, cert)
<1>0. PICK data, type, payload, header :
         /\ data = SerializeToString("SeekInfo", seek)
         /\ type = HeaderType.ENDORSER_TRANSACTION
         /\ payload = FromString("Payload", m.payload)
         /\ header = Sub("Payload", payload, "header")
  OBVIOUS
<1>1. PICK ch : ch = FromString("ChannelHeader", header.channel_header)
  OBVIOUS
<1>2. type \in Nat
  BY <1>0 DEF HeaderType
<1>3. /\ Reads("Envelope", m) /\ WellFormed("Payload", m.payload) /\ payload.data = data
      /\ Authentic(header, m.payload, m.signature)
      /\ ch.channel_id = Text(channel.str)
      /\ ch.tls_cert_hash = IF cert = <<>> THEN <<>> ELSE Hash(PemToDer(cert))
  <2>1. PICK s : /\ s \in Scalars
                 /\ m = BuildEnvelope(user, TxContextFromUser(user, nonce), data, channel,
                                      cert, type, s)
    BY <1>0 DEF SeekEnvelope
  <2> QED
    BY <1>0, <1>1, <1>2, <2>1, EnvelopeBuilt
<1>4. WellFormed("SeekInfo", data) /\ FromString("SeekInfo", data) = seek
  BY <1>0 DEF Reads
<1>5. SeekIn(m, seek, channel, cert)
  BY <1>0, <1>1, <1>3, <1>4 DEF SeekIn
<1> QED
  BY <1>3, <1>5
-----------------------------------------------------------------------------

LEMMA ChaincodeIDReads ==
  ASSUME Schema = MessageTypes, Promise, NEW x, NEW y, NEW z, NEW m, IsStr(x),
         IsStr(y), IsStr(z),
         m = New("ChaincodeID", [name |-> x, version |-> y, path |-> z])
  PROVE  Reads("ChaincodeID", m) /\ m.name = x /\ m.version = y /\ m.path = z
<1> DEFINE values == [name |-> x, version |-> y, path |-> z]
<1>1. /\ values = [f \in DOMAIN values |-> values[f]]
      /\ DOMAIN values = {"name", "version", "path"} /\ values["name"] = x
      /\ values["version"] = y /\ values["path"] = z
  OBVIOUS
<1>2. Fields("ChaincodeID") = ChaincodeID /\ "ChaincodeID" \in DOMAIN Schema
  BY DEF MessageTypes, Fields
<1>3. Simple("ChaincodeID")
  BY <1>2, PlainFields DEF Simple, ChaincodeID
<1>4. /\ DOMAIN values \subseteq DOMAIN ChaincodeID /\ Suits(ChaincodeID["name"], x)
      /\ Suits(ChaincodeID["version"], y) /\ Suits(ChaincodeID["path"], z)
  BY <1>1, StringSuits DEF ChaincodeID
<1> HIDE DEF values
<1> QED
  BY <1>1, <1>2, <1>3, <1>4, SimpleReads DEF values

LEMMA InputlessSpecReads ==
  ASSUME Schema = MessageTypes, Promise, NEW x, NEW y \in Nat, NEW m,
         IsMessage("ChaincodeID", x),
         m = New("ChaincodeSpec", [chaincode_id |-> x, type |-> y])
  PROVE  Reads("ChaincodeSpec", m) /\ m.chaincode_id = x /\ m.type = y
<1> DEFINE values == [chaincode_id |-> x, type |-> y]
<1>1. /\ values = [f \in DOMAIN values |-> values[f]]
      /\ DOMAIN values = {"chaincode_id", "type"} /\ values["chaincode_id"] = x
      /\ values["type"] = y
  OBVIOUS
<1>2. Fields("ChaincodeSpec") = ChaincodeSpec /\ "ChaincodeSpec" \in DOMAIN Schema
  BY DEF MessageTypes, Fields
<1>3. Simple("ChaincodeSpec")
  BY <1>2, PlainFields DEF Simple, ChaincodeSpec
<1>4. /\ DOMAIN values \subseteq DOMAIN ChaincodeSpec
      /\ Suits(ChaincodeSpec["chaincode_id"], x) /\ Suits(ChaincodeSpec["type"], y)
  BY <1>1, EnumSuits, MessageSuits DEF ChaincodeSpec
<1> HIDE DEF values
<1> QED
  BY <1>1, <1>2, <1>3, <1>4, SimpleReads DEF values

LEMMA DeploymentSpecReads ==
  ASSUME Schema = MessageTypes, Promise, NEW x, NEW y, NEW m,
         IsMessage("ChaincodeSpec", x),
         m = New("ChaincodeDeploymentSpec", [chaincode_spec |-> x, code_package |-> y])
  PROVE  /\ Reads("ChaincodeDeploymentSpec", m) /\ m.chaincode_spec = x
         /\ m.code_package = y
<1> DEFINE values == [chaincode_spec |-> x, code_package |-> y]
<1>1. /\ values = [f \in DOMAIN values |-> values[f]]
      /\ DOMAIN values = {"chaincode_spec", "code_package"}
      /\ values["chaincode_spec"] = x /\ values["code_package"] = y
  OBVIOUS
<1>2. /\ Fields("ChaincodeDeploymentSpec") = ChaincodeDeploymentSpec
      /\ "ChaincodeDeploymentSpec" \in DOMAIN Schema
  BY DEF MessageTypes, Fields
<1>3. Simple("ChaincodeDeploymentSpec")
  BY <1>2, PlainFields DEF Simple, ChaincodeDeploymentSpec
<1>4. /\ DOMAIN values \subseteq DOMAIN ChaincodeDeploymentSpec
      /\ Suits(ChaincodeDeploymentSpec["chaincode_spec"], x)
      /\ Suits(ChaincodeDeploymentSpec["code_package"], y)
  BY <1>1, BytesField, MessageSuits DEF ChaincodeDeploymentSpec
<1> HIDE DEF values
<1> QED
  BY <1>1, <1>2, <1>3, <1>4, SimpleReads DEF values

LEMMA BlockHeaderReads ==
  ASSUME Schema = MessageTypes, Promise, NEW x \in Nat, NEW m,
         m = New("BlockHeader", [number |-> x])
  PROVE  Reads("BlockHeader", m) /\ m.number = x
<1> DEFINE values == [number |-> x]
<1>1. /\ values = [f \in DOMAIN values |-> values[f]] /\ DOMAIN values = {"number"}
      /\ values["number"] = x
  OBVIOUS
<1>2. Fields("BlockHeader") = BlockHeader /\ "BlockHeader" \in DOMAIN Schema
  BY DEF MessageTypes, Fields
<1>3. Simple("BlockHeader")
  BY <1>2, PlainFields DEF Simple, BlockHeader
<1>4. DOMAIN values \subseteq DOMAIN BlockHeader /\ Suits(BlockHeader["number"], x)
  BY <1>1, VarintSuits DEF BlockHeader
<1> HIDE DEF values
<1> QED
  BY <1>1, <1>2, <1>3, <1>4, SimpleReads DEF values

LEMMA BlockDataReads ==
  ASSUME Schema = MessageTypes, Promise, NEW x, NEW m, IsList(x),
         m = New("BlockData", [data |-> x])
  PROVE  Reads("BlockData", m) /\ m.data = x
<1> DEFINE values == [data |-> x]
<1>1. /\ values = [f \in DOMAIN values |-> values[f]] /\ DOMAIN values = {"data"}
      /\ values["data"] = x
  OBVIOUS
<1>2. Fields("BlockData") = BlockData /\ "BlockData" \in DOMAIN Schema
  BY DEF MessageTypes, Fields
<1>3. Simple("BlockData")
  BY <1>2, PlainFields DEF Simple, BlockData
<1>4. DOMAIN values \subseteq DOMAIN BlockData /\ Suits(BlockData["data"], x)
  BY <1>1, BytesListSuits DEF BlockData
<1> HIDE DEF values
<1> QED
  BY <1>1, <1>2, <1>3, <1>4, SimpleReads DEF values

LEMMA BlockMetadataReads ==
  ASSUME Schema = MessageTypes, Promise, NEW x, NEW m, IsList(x),
         m = New("BlockMetadata", [metadata |-> x])
  PROVE  Reads("BlockMetadata", m) /\ m.metadata = x
<1> DEFINE values == [metadata |-> x]
<1>1. /\ values = [f \in DOMAIN values |-> values[f]]
      /\ DOMAIN values = {"metadata"} /\ values["metadata"] = x
  OBVIOUS
<1>2. Fields("BlockMetadata") = BlockMetadata /\ "BlockMetadata" \in DOMAIN Schema
  BY DEF MessageTypes, Fields
<1>3. Simple("BlockMetadata")
  BY <1>2, PlainFields DEF Simple, BlockMetadata
<1>4. /\ DOMAIN values \subseteq DOMAIN BlockMetadata
      /\ Suits(BlockMetadata["metadata"], x)
  BY <1>1, BytesListSuits DEF BlockMetadata
<1> HIDE DEF values
<1> QED
  BY <1>1, <1>2, <1>3, <1>4, SimpleReads DEF values

LEMMA BlockReads ==
  ASSUME Schema = MessageTypes, Promise, NEW x, NEW y, NEW z, NEW m,
         IsMessage("BlockHeader", x), IsMessage("BlockData", y),
         IsMessage("BlockMetadata", z),
         m = New("Block", [header |-> x, data |-> y, metadata |-> z])
  PROVE  Reads("Block", m) /\ m.header = x /\ m.data = y /\ m.metadata = z
<1> DEFINE values == [header |-> x, data |-> y, metadata |-> z]
<1>1. /\ values = [f \in DOMAIN values |-> values[f]]
      /\ DOMAIN values = {"header", "data", "metadata"} /\ values["header"] = x
      /\ values["data"] = y /\ values["metadata"] = z
  OBVIOUS
<1>2. Fields("Block") = Block /\ "Block" \in DOMAIN Schema
  BY DEF MessageTypes, Fields
<1>3. Simple("Block")
  BY <1>2, PlainFields DEF Simple, Block
<1>4. /\ DOMAIN values \subseteq DOMAIN Block /\ Suits(Block["header"], x)
      /\ Suits(Block["data"], y) /\ Suits(Block["metadata"], z)
  BY <1>1, MessageSuits DEF Block
<1> HIDE DEF values
<1> QED
  BY <1>1, <1>2, <1>3, <1>4, SimpleReads DEF values


-----------------------------------------------------------------------------

\* The arguments of the operations are lists.
LEMMA Listed ==
  /\ \A x : IsList(<<x>>)
  /\ \A x, y : IsList(<<x, y>>) /\ <<x, y>>[2] = y
  /\ \A x, y, z, u, v, w : /\ IsList(<<x, y, z, u, v, w>>)
                           /\ Len(<<x, y, z, u, v, w>>) = 6
                           /\ <<x, y, z, u, v, w>>[3] = z /\ <<x, y, z, u, v, w>>[4] = u
  BY DEF IsList

LEMMA Prefixed ==
  ASSUME NEW x, NEW v, IsList(v), NEW all, all = <<x>> \o v
  PROVE  IsList(all) /\ all # <<>>
<1>1. PICK S : S = {v[i] : i \in 1..Len(v)} \cup {x}
  OBVIOUS
<1>2. x \in S /\ \A i \in 1..Len(v) : v[i] \in S
  BY <1>1
<1>3. v \in Seq(S) /\ <<x>> \in Seq(S)
  BY <1>2 DEF IsList
<1>4. all \in Seq(S) /\ Len(all) = Len(v) + 1 /\ Len(v) \in Nat
  BY <1>3
<1> QED
  BY <1>4 DEF IsList

LEMMA Mapped ==
  ASSUME NEW v, IsList(v), NEW m, m = [i \in DOMAIN v |-> EncodeProtoBytes(v[i])]
  PROVE  IsList(m)
<1>1. DOMAIN v = 1..Len(v) /\ Len(v) \in Nat
  BY DEF IsList
<1>2. DOMAIN m = 1..Len(v)
  BY <1>1
<1>3. Len(m) = Len(v)
  BY <1>1, <1>2
<1> QED
  BY <1>1, <1>2, <1>3 DEF IsList

LEMMA InvokeArgsListed ==
  ASSUME NEW fcn, NEW args, IsList(args)
  PROVE  IsList(InvokeArgs(fcn, args))
<1>1. PICK all : all = <<fcn>> \o args
  OBVIOUS
<1>2. IsList(all)
  BY <1>1, Prefixed
<1>3. InvokeArgs(fcn, args) = [i \in DOMAIN all |-> EncodeProtoBytes(all[i])]
  BY <1>1 DEF InvokeArgs
<1> QED
  BY <1>2, <1>3, Mapped


-----------------------------------------------------------------------------

\* A chaincode spec with or without an input, from a record of it.
LEMMA SpecBuilt ==
  ASSUME Schema = MessageTypes, Promise, NEW id, IsMessage("ChaincodeID", id),
         NEW type \in Nat, NEW input, NEW m
  PROVE  /\ IsMessage("ChaincodeInput", input)
               /\ m = New("ChaincodeSpec", With([input |-> input],
                                                [chaincode_id |-> id, type |-> type])) =>
            /\ IsMessage("ChaincodeSpec", m)
            /\ m.chaincode_id = id /\ m.input = input
         /\ m = New("ChaincodeSpec", With(<<>>, [chaincode_id |-> id, type |-> type])) =>
            /\ IsMessage("ChaincodeSpec", m)
            /\ m.chaincode_id = id /\ ~Has(m, "input")
<1>1. With([input |-> input], [chaincode_id |-> id, type |-> type])
         = [type |-> type, chaincode_id |-> id, input |-> input]
  BY DEF With
<1>2. With(<<>>, [chaincode_id |-> id, type |-> type])
         = [chaincode_id |-> id, type |-> type]
  <2>1. DOMAIN <<>> = {}
    OBVIOUS
  <2> QED
    BY <2>1 DEF With
<1>3. ASSUME IsMessage("ChaincodeInput", input),
             m = New("ChaincodeSpec", With([input |-> input],
                                           [chaincode_id |-> id, type |-> type]))
      PROVE  IsMessage("ChaincodeSpec", m) /\ m.chaincode_id = id /\ m.input = input
  BY <1>1, <1>3, ChaincodeSpecReads DEF Reads
<1>4. ASSUME m = New("ChaincodeSpec", With(<<>>, [chaincode_id |-> id, type |-> type]))
      PROVE  IsMessage("ChaincodeSpec", m) /\ m.chaincode_id = id /\ ~Has(m, "input")
  <2>1. m = New("ChaincodeSpec", [chaincode_id |-> id, type |-> type])
    BY <1>2, <1>4
  <2>2. IsMessage("ChaincodeSpec", m) /\ m.chaincode_id = id
    BY <2>1, InputlessSpecReads DEF Reads
  <2>3. "input" \notin DOMAIN m
    <3>1. Fields("ChaincodeSpec") = ChaincodeSpec
      BY DEF MessageTypes, Fields
    <3>2. ~HasDefault(ChaincodeSpec["input"])
      BY DEF ChaincodeSpec, Message, Field, HasDefault
    <3>3. "input" \notin DOMAIN Defaults(Fields("ChaincodeSpec"))
      BY <3>1, <3>2 DEF Defaults
    <3> QED
      BY <2>1, <3>3 DEF New, With
  <2> QED
    BY <2>2, <2>3 DEF Has
<1> QED
  BY <1>3, <1>4


\* A deployment spec comes through, with its arguments if it has any.
LEMMA NothingListed == IsList(<<>>)
<1>1. Len(<<>>) = 0 /\ 1..0 = {} /\ <<>> = [i \in {} |-> <<>>[i]]
  OBVIOUS
<1> QED
  BY <1>1 DEF IsList

NoText == ""

Encoded(strs) == [i \in DOMAIN strs |-> EncodeProtoBytes(strs[i])]

ArgsOf(fcn, args, all) == all = IF fcn.str = "" THEN args ELSE <<fcn>> \o args

LEMMA DeploymentBuilt ==
  ASSUME Schema = MessageTypes, Promise, NEW cc, NEW lang, NEW fcn, NEW ver, NEW dir,
         NEW code, NEW given, lang \in DOMAIN ChaincodeSpec_Type,
         NEW all, IsList(all), ArgsOf(fcn, given, all),
         NEW m, m = BuildCCDeploymentSpec(cc, lang, fcn, ver, dir, code, given)
  PROVE  /\ Reads("ChaincodeDeploymentSpec", m)
         /\ m.code_package = code
         /\ m.chaincode_spec.chaincode_id.name = Text(cc)
         /\ m.chaincode_spec.chaincode_id.version = Text(ver)
         /\ all = <<>> => ~Has(m.chaincode_spec, "input")
         /\ all # <<>> => m.chaincode_spec.input.args = Encoded(all)
<1>1. PICK x, y, z : x = Text(cc) /\ y = Text(ver) /\ z = Text(dir)
  OBVIOUS
<1>2. PICK id, t, encoded :
         /\ id = New("ChaincodeID", [name |-> x, version |-> y, path |-> z])
         /\ t = ChaincodeSpec_Type[lang]
         /\ encoded = Encoded(all)
  OBVIOUS
<1>3. PICK in : in = New("ChaincodeInput", [args |-> encoded])
  OBVIOUS
<1>4. PICK spec : spec = New("ChaincodeSpec",
                             With(IF all = <<>> THEN <<>> ELSE [input |-> in],
                                  [chaincode_id |-> id, type |-> t]))
  OBVIOUS
<1>5. m = New("ChaincodeDeploymentSpec",
              [chaincode_spec |-> spec, code_package |-> code])
  BY <1>1, <1>2, <1>3, <1>4, Zenon DEF BuildCCDeploymentSpec, ArgsOf, Encoded
<1>6. IsStr(x) /\ IsStr(y) /\ IsStr(z) /\ t \in Nat /\ IsList(encoded)
  <2>1. t \in Nat
    BY <1>2 DEF ChaincodeSpec_Type
  <2>2. IsList(encoded)
    BY <1>2, Mapped DEF Encoded
  <2> QED
    BY <1>1, <2>1, <2>2, TextIsStr
<1>7. Reads("ChaincodeID", id) /\ id.name = x /\ id.version = y
  BY <1>2, <1>6, ChaincodeIDReads
<1>8. IsMessage("ChaincodeInput", in) /\ in.args = encoded
  BY <1>3, <1>6, ChaincodeInputReads DEF Reads
<1>9. /\ IsMessage("ChaincodeSpec", spec) /\ spec.chaincode_id = id
      /\ all = <<>> => ~Has(spec, "input")
      /\ all # <<>> => spec.input = in
  <2>1. CASE all = <<>>
    <3>1. spec = New("ChaincodeSpec", With(<<>>, [chaincode_id |-> id, type |-> t]))
      BY <1>4, <2>1, Zenon
    <3> QED
      BY <1>6, <1>7, <2>1, <3>1, SpecBuilt DEF Reads
  <2>2. CASE all # <<>>
    <3>1. spec = New("ChaincodeSpec", With([input |-> in],
                                           [chaincode_id |-> id, type |-> t]))
      BY <1>4, <2>2, Zenon
    <3> QED
      BY <1>6, <1>7, <1>8, <2>2, <3>1, SpecBuilt DEF Reads
  <2> QED
    BY <2>1, <2>2
<1>10. /\ Reads("ChaincodeDeploymentSpec", m)
       /\ m.chaincode_spec = spec /\ m.code_package = code
  BY <1>5, <1>9, DeploymentSpecReads
<1> QED
  BY <1>1, <1>2, <1>7, <1>8, <1>9, <1>10

\* What deploy and upgrade, install and join pass to the system chaincodes.
LEMMA InstantiateArgsRead ==
  ASSUME Schema = MessageTypes, Promise, NEW ccSpec, IsList(ccSpec.args),
         ccSpec.language \in DOMAIN ChaincodeSpec_Type, NEW channel, NEW policy,
         NEW upgrade, NEW list, list = InstantiateArgs(ccSpec, channel, policy, upgrade),
         NEW m, m = FromString("ChaincodeDeploymentSpec", list[3]),
         NEW all, ArgsOf(Ascii("init"), ccSpec.args, all)
  PROVE  /\ IsList(list) /\ Len(list) = 6 /\ list[4] = policy
         /\ m.chaincode_spec.input.args = Encoded(all)
         /\ m.chaincode_spec.chaincode_id.version = Text(ccSpec.version)
<1>1. PICK fcn, given, lang, none, cc, ver, dir :
         /\ fcn = Ascii("init") /\ given = ccSpec.args /\ lang = ccSpec.language
         /\ none = <<>> /\ cc = ccSpec.name /\ ver = ccSpec.version /\ dir = NoText
  OBVIOUS
<1>2. PICK built, bytes :
         /\ built = BuildCCDeploymentSpec(cc, lang, fcn, ver, dir, none, given)
         /\ bytes = SerializeToString("ChaincodeDeploymentSpec", built)
  OBVIOUS
<1>3. PICK x, y, u, v : list = <<x, y, bytes, policy, u, v>>
  BY <1>1, <1>2, Zenon DEF InstantiateArgs, NoText
<1>4. IsList(list) /\ Len(list) = 6 /\ list[4] = policy /\ list[3] = bytes
  BY <1>3, Listed
<1>5. fcn.str # ""
  BY <1>1 DEF Ascii
<1>6. ArgsOf(fcn, given, all)
  BY <1>1
<1>7. IsList(all) /\ all # <<>>
  <2>1. all = <<fcn>> \o given
    BY <1>5, <1>6, Zenon DEF ArgsOf
  <2> QED
    BY <1>1, <2>1, Prefixed
<1>8. /\ Reads("ChaincodeDeploymentSpec", built)
      /\ built.chaincode_spec.chaincode_id.version = Text(ver)
      /\ built.chaincode_spec.input.args = Encoded(all)
  <2>1. lang \in DOMAIN ChaincodeSpec_Type
    BY <1>1
  <2> QED
    BY <1>2, <1>6, <1>7, <2>1, DeploymentBuilt
<1> QED
  BY <1>1, <1>2, <1>4, <1>8 DEF Reads

LEMMA InstallArgsRead ==
  ASSUME Schema = MessageTypes, Promise, NEW ccSpec,
         ccSpec.language \in DOMAIN ChaincodeSpec_Type, NEW code, NEW list,
         list = InstallArgs(ccSpec, code),
         NEW m, m = FromString("ChaincodeDeploymentSpec", list[2])
  PROVE  /\ IsList(list) /\ m.code_package = code /\ ~Has(m.chaincode_spec, "input")
         /\ m.chaincode_spec.chaincode_id.name = Text(ccSpec.name)
<1>1. PICK fcn, lang, none, cc, ver, dir :
         /\ fcn = Ascii(NoText) /\ lang = ccSpec.language /\ none = <<>>
         /\ cc = ccSpec.name /\ ver = ccSpec.version /\ dir = ccSpec.path
  OBVIOUS
<1>2. PICK built, bytes :
         /\ built = BuildCCDeploymentSpec(cc, lang, fcn, ver, dir, code, none)
         /\ bytes = SerializeToString("ChaincodeDeploymentSpec", built)
  OBVIOUS
<1>3. PICK x : list = <<x, bytes>>
  BY <1>1, <1>2, Zenon DEF InstallArgs, NoText
<1>4. IsList(list) /\ list[2] = bytes
  BY <1>3, Listed
<1>5. ArgsOf(fcn, none, none)
  BY <1>1, Zenon DEF Ascii, NoText, ArgsOf
<1>6. IsList(none)
  BY <1>1, NothingListed
<1>7. /\ Reads("ChaincodeDeploymentSpec", built) /\ built.code_package = code
      /\ built.chaincode_spec.chaincode_id.name = Text(cc)
      /\ ~Has(built.chaincode_spec, "input")
  <2>1. lang \in DOMAIN ChaincodeSpec_Type
    BY <1>1
  <2> QED
    BY <1>1, <1>2, <1>5, <1>6, <2>1, DeploymentBuilt
<1> QED
  BY <1>1, <1>2, <1>4, <1>7 DEF Reads


-----------------------------------------------------------------------------

\* A block of the orderers, as the client pulls it and gives it to a peer.
LEMMA BlockBuilt ==
  ASSUME Schema = MessageTypes, Promise, NEW number \in Nat, NEW entries, IsList(entries),
         NEW codes, NEW block, block = MakeBlock(number, entries, codes)
  PROVE  IsMessage("Block", block) /\ RawBlockAsProto(RawBlockFromProto(block)) = block
<1>1. PICK a, b, c : block = New("Block",
         [header |-> New("BlockHeader", [number |-> number]),
          data |-> New("BlockData", [data |-> entries]),
          metadata |-> New("BlockMetadata", [metadata |-> <<a, b, c, <<>> >>])])
  BY Zenon DEF MakeBlock
<1>2. PICK list, x, y, z :
         /\ list = <<a, b, c, <<>> >>
         /\ x = New("BlockHeader", [number |-> number])
         /\ y = New("BlockData", [data |-> entries])
         /\ z = New("BlockMetadata", [metadata |-> list])
  OBVIOUS
<1>3. IsList(list)
  <2>1. \A e : IsList(<<a, b, c, e>>)
    BY DEF IsList
  <2> QED
    BY <1>2, <2>1
<1>4. block = New("Block", [header |-> x, data |-> y, metadata |-> z])
  BY <1>1, <1>2
<1>5. IsMessage("BlockHeader", x)
  BY <1>2, BlockHeaderReads DEF Reads
<1>6. IsMessage("BlockData", y)
  BY <1>2, BlockDataReads DEF Reads
<1>7. IsMessage("BlockMetadata", z)
  BY <1>2, <1>3, BlockMetadataReads DEF Reads
<1>8. /\ Reads("Block", block)
      /\ block.header = x /\ block.data = y /\ block.metadata = z
  BY <1>4, <1>5, <1>6, <1>7, BlockReads
<1>9. "header" \in DOMAIN block /\ "data" \in DOMAIN block /\ "metadata" \in DOMAIN block
  BY <1>4 DEF New, With
<1>10. /\ Sub("Block", block, "header") = x /\ Sub("Block", block, "data") = y
       /\ Sub("Block", block, "metadata") = z
  BY <1>8, <1>9 DEF Sub, Has
<1>11. RawBlockFromProto(block) = [header |-> x, data |-> y, metadata |-> z]
  BY <1>10 DEF RawBlockFromProto
<1> QED
  BY <1>4, <1>8, <1>11 DEF RawBlockAsProto, Reads

ForJoin == <<"AtomicBroadcast", "Deliver">>

LEMMA OrdererResponseFields ==
  ASSUME Schema = MessageTypes
  PROVE  /\ Sound("OrdererDeliverResponse")
         /\ "block" \in DOMAIN Fields("OrdererDeliverResponse")
         /\ \A v : IsMessage("Block", v) =>
                      Suits(Fields("OrdererDeliverResponse")["block"], v)
<1>1. /\ Fields("OrdererDeliverResponse") = OrdererDeliverResponse
      /\ "OrdererDeliverResponse" \in DOMAIN Schema
  BY DEF MessageTypes, Fields
<1>2. /\ DOMAIN OrdererDeliverResponse = {"status", "block"}
      /\ OrdererDeliverResponse["block"] = OneOf("Type", Message(2, "Block"))
      /\ OrdererDeliverResponse["status"] = OneOf("Type", Enum(1, "Status"))
  BY DEF OrdererDeliverResponse
<1>3. /\ OneOf("Type", Message(2, "Block")).kind = "message"
      /\ OneOf("Type", Enum(1, "Status")).kind = "enum"
      /\ ~HasDefault(OneOf("Type", Message(2, "Block")))
      /\ ~HasDefault(OneOf("Type", Enum(1, "Status")))
  BY DEF OneOf, Message, Enum, Field, HasDefault
<1>4. \A f \in DOMAIN Fields("OrdererDeliverResponse") :
         /\ Fields("OrdererDeliverResponse")[f].kind \in {"enum", "message"}
         /\ ~HasDefault(Fields("OrdererDeliverResponse")[f])
  BY <1>1, <1>2, <1>3
<1>5. Sound("OrdererDeliverResponse")
  BY <1>1, <1>4, Zenon DEF Sound
<1>6. \A v : IsMessage("Block", v) => Suits(OrdererDeliverResponse["block"], v)
  BY <1>2, OneOfSuits
<1> QED
  BY <1>1, <1>2, <1>5, <1>6

\* The block in a response of an orderer is the one that was sent.
LEMMA BlockPulled ==
  ASSUME Schema = MessageTypes, Promise, NEW block, IsMessage("Block", block)
  PROVE  PullBlockFromResponse(ForJoin, ResponseOf(ForJoin, block))
            = RawBlockFromProto(block)
<1>1. ResponseType(ForJoin) = "OrdererDeliverResponse" /\ ForJoin[2] # "DeliverFiltered"
  BY DEF ResponseType, AtomicBroadcast, ForJoin
<1>2. PICK values, m : /\ values = [f \in {"block"} |-> block]
                       /\ m = New("OrdererDeliverResponse", values)
  OBVIOUS
<1>3. /\ values = [f \in DOMAIN values |-> values[f]] /\ DOMAIN values = {"block"}
      /\ values["block"] = block
  BY <1>2
<1>4. Suit("OrdererDeliverResponse", values)
  BY <1>3, OrdererResponseFields, OneSuits
<1>5. /\ Reads("OrdererDeliverResponse", m)
      /\ "block" \in DOMAIN m /\ m["block"] = block
  BY <1>2, <1>3, <1>4, OrdererResponseFields, NewReads
<1>6. ResponseOf(ForJoin, block) = m
  <2>1. ResponseOf(ForJoin, block)
           = FromString("OrdererDeliverResponse",
                        SerializeToString("OrdererDeliverResponse", m))
    BY <1>1, <1>2, Zenon DEF ResponseOf
  <2> QED
    BY <1>5, <2>1 DEF Reads
<1>7. Sub("OrdererDeliverResponse", m, "block") = block
  BY <1>5 DEF Sub, Has
<1> QED
  BY <1>1, <1>6, <1>7 DEF PullBlockFromResponse


-----------------------------------------------------------------------------

ToPeers == <<"Endorser", "ProcessProposal">>

ToOrderers == <<"AtomicBroadcast", "Broadcast">>

LEMMA Methods ==
  /\ RequestType(ToPeers) = "SignedProposal" /\ ToPeers \notin Streams
  /\ ToPeers[1] = "Endorser" /\ ToPeers[2] # "Broadcast"
  /\ RequestType(ToOrderers) = "Envelope" /\ ToOrderers \notin Streams
  /\ ToOrderers[1] # "Endorser" /\ ToOrderers[2] = "Broadcast"
  /\ \A to \in Streams :
        RequestType(to) = "Envelope" /\ to[1] # "Endorser" /\ to[2] # "Broadcast"
<1>1. /\ ToPeers[1] = "Endorser" /\ ToPeers[2] = "ProcessProposal"
      /\ ToOrderers[1] = "AtomicBroadcast" /\ ToOrderers[2] = "Broadcast"
  BY DEF ToPeers, ToOrderers
<1>2. RequestType(ToPeers) = "SignedProposal" /\ RequestType(ToOrderers) = "Envelope"
  BY <1>1 DEF RequestType, Endorser, AtomicBroadcast
<1>3. \A to \in Streams : /\ to[1] \in {"Deliver", "AtomicBroadcast"}
                          /\ to[1] = "AtomicBroadcast" => to[2] = "Deliver"
                          /\ to[2] \in {"Deliver", "DeliverFiltered"}
  BY DEF Streams
<1>4. \A to \in Streams : RequestType(to) = "Envelope"
  BY <1>3 DEF RequestType, AtomicBroadcast, Deliver
<1>5. ToPeers \notin Streams /\ ToOrderers \notin Streams
  BY <1>1, <1>3
<1> QED
  BY <1>1, <1>2, <1>3, <1>4, <1>5

LEMMA SeqListed == \A S : \A v \in Seq(S) : IsList(v)
  BY DEF IsList

Lengthens(all, v, x) ==
    /\ IsList(all) /\ DOMAIN all = DOMAIN v \cup {Len(v) + 1}
    /\ all[Len(v) + 1] = x /\ \A n \in DOMAIN v : all[n] = v[n]

LEMMA Appended ==
  ASSUME NEW v, IsList(v), NEW x
  PROVE  Lengthens(Append(v, x), v, x)
<1>0. PICK all : all = Append(v, x)
  OBVIOUS
<1>1. PICK S : S = {v[i] : i \in 1..Len(v)} \cup {x}
  OBVIOUS
<1>2. x \in S /\ \A i \in 1..Len(v) : v[i] \in S
  BY <1>1
<1>3. v \in Seq(S) /\ Len(v) \in Nat /\ DOMAIN v = 1..Len(v)
  BY <1>2 DEF IsList
<1>4. /\ all \in Seq(S) /\ Len(all) = Len(v) + 1 /\ all[Len(v) + 1] = x
      /\ \A n \in DOMAIN v : all[n] = v[n]
  BY <1>0, <1>2, <1>3
<1>5. IsList(all) /\ DOMAIN all = 1..(Len(v) + 1)
  <2>1. IsList(all)
    BY <1>4, SeqListed
  <2> QED
    BY <1>4, <2>1 DEF IsList
<1>6. 1..(Len(v) + 1) = 1..Len(v) \cup {Len(v) + 1}
  BY <1>3
<1> QED
  BY <1>0, <1>3, <1>4, <1>5, <1>6 DEF Lengthens

-----------------------------------------------------------------------------

\* The inductive invariant.  A transaction is what build_generated_tx makes of
\* its arguments, and those are what its caller asked for; its responses are
\* the peers' to its proposal.
AsCalled(args, asked) ==
    /\ asked.kind \in {"invoke", "query"} => args = InvokeArgs(asked.fcn, asked.args)
    /\ asked.kind \in {"deploy", "upgrade"} =>
          /\ IsList(asked.cc_spec.args)
          /\ asked.cc_spec.language \in DOMAIN ChaincodeSpec_Type
          /\ \E channel, upgrade :
                args = InstantiateArgs(asked.cc_spec, channel, asked.policy, upgrade)
    /\ asked.kind = "install" =>
          /\ asked.cc_spec.language \in DOMAIN ChaincodeSpec_Type
          /\ args = InstallArgs(asked.cc_spec, asked.package)
    /\ asked.kind = "join" =>
          IsMessage("Block", asked.block) /\ args = JoinArgs(asked.block)

BuiltFor(tx) ==
    \E nonce, ccName : \E s \in Scalars :
        tx.gen = BuildGeneratedTX(tx.user, nonce, ccName, tx.args, tx.channel,
                                  tx.transient, s)

Whole(tx) ==
    /\ tx = [gen |-> tx.gen, user |-> tx.user, kind |-> tx.kind, args |-> tx.args,
             channel |-> tx.channel, transient |-> tx.transient, asked |-> tx.asked,
             peer_responses |-> tx.peer_responses]
    /\ BuiltFor(tx)
    /\ Proper(tx.args, tx.channel, tx.transient)
    /\ tx.kind \in {"invoke", "deploy", "upgrade"} => Named(tx.channel)
    /\ AsCalled(tx.args, tx.asked)
    /\ tx.peer_responses \in {<<>>, Responses(tx.gen)}

TxsWhole == IsList(txs) /\ \A n \in DOMAIN txs : Whole(txs[n])

\* The four kinds of requests.
ProposalSent(w) ==
    \E n \in DOMAIN txs : w = Request(ToPeers, txs[n].gen.signed_proposal, n)

TransactionSent(w) ==
    \E n \in DOMAIN txs : \E s \in Scalars :
        /\ Named(txs[n].channel)
        /\ w = Request(ToOrderers, BuildEndorsedTXEnvelope(EndorsedTX(txs[n].gen),
                                                           txs[n].user, s), n)

UpdateSent(w) ==
    \E user, nonce : \E s \in Scalars, t \in Scalars :
        w = Request(ToOrderers,
                    BuildConfigUpdateEnvelope(TheChannel, TxContextFromUser(user, nonce),
                                              user, UpdateIn(ChannelTX), s, t), 0)

SeekSent(w) ==
    \E user, nonce : \E k \in Seeks, s \in Scalars :
        w = Request(k.to,
                    BuildEnvelope(user, TxContextFromUser(user, nonce),
                        SerializeToString("SeekInfo",
                                          BuildSeekInfo(k.start, k.stop, k.behavior)),
                        TheChannel, PemFile(k.cert), HeaderType.ENDORSER_TRANSACTION, s), k)

WireBuilt ==
    \A w \in wire :
        ProposalSent(w) \/ TransactionSent(w) \/ UpdateSent(w) \/ SeekSent(w)

\* A block that can be given to a peer is the orderer's.
BlockWhole ==
    delivered.service = "AtomicBroadcast" =>
        /\ IsMessage("Block", delivered.sent)
        /\ RawBlockAsProto(delivered.pulled) = delivered.sent

MessagesInv == TxsWhole /\ WireBuilt /\ BlockWhole


-----------------------------------------------------------------------------

\* What is right about a request.
RightFor(w) ==
    /\ WellFormed(RequestType(w.to), w.bytes)
    /\ w.to \notin Streams => Accepted(w)
    /\ w.to \in Streams => StreamedAsAsked(Parsed(w), w.asked)
    /\ w.to[1] = "Endorser" =>
          /\ CalledAsAsked(ArgsIn(Parsed(w)), txs[w.asked].asked)
          /\ TransientIn(FromString("Proposal", Parsed(w).proposal_bytes).payload)
                = txs[w.asked].transient

LEMMA RequestParsed ==
  ASSUME NEW to, NEW type, RequestType(to) = type, NEW m, Reads(type, m), NEW asked, NEW w,
         w = Request(to, m, asked)
  PROVE  /\ w.to = to /\ w.asked = asked /\ Parsed(w) = m
         /\ WellFormed(RequestType(w.to), w.bytes)
<1>1. w.to = to /\ w.asked = asked /\ w.bytes = SerializeToString(type, m)
  BY DEF Request
<1> QED
  BY <1>1 DEF Parsed, Reads

\* The arguments that a peer reads are the ones that were asked for.
LEMMA CalledRight ==
  ASSUME Schema = MessageTypes, Promise, NEW args, NEW asked, AsCalled(args, asked)
  PROVE  CalledAsAsked(args, asked)
<1>1. ASSUME asked.kind \in {"invoke", "query"}
      PROVE  args = Encoded(<<asked.fcn>> \o asked.args)
  BY <1>1 DEF AsCalled, InvokeArgs, Encoded
<1>2. ASSUME asked.kind \in {"deploy", "upgrade"}
      PROVE  /\ Len(args) = 6 /\ args[4] = asked.policy
             /\ FromString("ChaincodeDeploymentSpec", args[3]).chaincode_spec.input.args
                   = Encoded(<<Ascii("init")>> \o asked.cc_spec.args)
             /\ FromString("ChaincodeDeploymentSpec", args[3]).chaincode_spec
                   .chaincode_id.version = Text(asked.cc_spec.version)
  <2>0. PICK ccSpec, policy, m :
           /\ ccSpec = asked.cc_spec /\ policy = asked.policy
           /\ m = FromString("ChaincodeDeploymentSpec", args[3])
    OBVIOUS
  <2>1. PICK all : all = <<Ascii("init")>> \o ccSpec.args
    OBVIOUS
  <2>2. PICK channel, upgrade : args = InstantiateArgs(ccSpec, channel, policy, upgrade)
    BY <1>2, <2>0 DEF AsCalled
  <2>3. IsList(ccSpec.args) /\ ccSpec.language \in DOMAIN ChaincodeSpec_Type
    BY <1>2, <2>0 DEF AsCalled
  <2>4. ArgsOf(Ascii("init"), ccSpec.args, all)
    <3>1. Ascii("init").str # ""
      BY DEF Ascii
    <3> QED
      BY <2>1, <3>1, Zenon DEF ArgsOf
  <2>5. /\ Len(args) = 6 /\ args[4] = policy
        /\ m.chaincode_spec.input.args = Encoded(all)
        /\ m.chaincode_spec.chaincode_id.version = Text(ccSpec.version)
    BY <2>0, <2>2, <2>3, <2>4, InstantiateArgsRead
  <2> QED
    BY <2>0, <2>1, <2>5
<1>3. ASSUME asked.kind = "install"
      PROVE  LET m == FromString("ChaincodeDeploymentSpec", args[2])
             IN  /\ m.code_package = asked.package
                 /\ ~Has(m.chaincode_spec, "input")
                 /\ m.chaincode_spec.chaincode_id.name = Text(asked.cc_spec.name)
  <2>1. PICK ccSpec, code, m :
           /\ ccSpec = asked.cc_spec /\ code = asked.package
           /\ m = FromString("ChaincodeDeploymentSpec", args[2])
    OBVIOUS
  <2>2. /\ args = InstallArgs(ccSpec, code)
        /\ ccSpec.language \in DOMAIN ChaincodeSpec_Type
    BY <1>3, <2>1 DEF AsCalled
  <2>3. /\ m.code_package = code /\ ~Has(m.chaincode_spec, "input")
        /\ m.chaincode_spec.chaincode_id.name = Text(ccSpec.name)
    BY <2>1, <2>2, InstallArgsRead
  <2> QED
    BY <2>1, <2>3
<1>4. ASSUME asked.kind = "join"
      PROVE  FromString("Block", args[2]) = asked.block
  <2>1. IsMessage("Block", asked.block) /\ args = JoinArgs(asked.block)
    BY <1>4 DEF AsCalled
  <2>2. args[2] = SerializeToString("Block", asked.block)
    BY <2>1 DEF JoinArgs
  <2>3. PICK block, type : block = asked.block /\ type = "Block"
    OBVIOUS
  <2>4. type \in DOMAIN Schema /\ IsMessage(type, block)
    BY <2>1, <2>3 DEF MessageTypes
  <2>5. FromString(type, SerializeToString(type, block)) = block
    BY <2>4, Zenon DEF Promise
  <2> QED
    BY <2>2, <2>3, <2>5
<1> QED
  BY <1>1, <1>2, <1>3, <1>4, Zenon DEF CalledAsAsked, Encoded


LEMMA ProposalRight ==
  ASSUME Schema = MessageTypes, Promise, TxsWhole, NEW w, ProposalSent(w)
  PROVE  RightFor(w) /\ w.to[2] # "Broadcast"
<1>1. PICK n \in DOMAIN txs : w = Request(ToPeers, txs[n].gen.signed_proposal, n)
  BY DEF ProposalSent
<1>2. PICK tx, signed : tx = txs[n] /\ signed = tx.gen.signed_proposal
  OBVIOUS
<1>3. Whole(tx)
  BY <1>2 DEF TxsWhole
<1>4. PICK user, args, channel, transient, gen :
         /\ user = tx.user /\ args = tx.args /\ channel = tx.channel
         /\ transient = tx.transient /\ gen = tx.gen
  OBVIOUS
<1>5. PICK nonce, ccName, s :
         /\ s \in Scalars
         /\ gen = BuildGeneratedTX(user, nonce, ccName, args, channel, transient, s)
  BY <1>3, <1>4 DEF Whole, BuiltFor
<1>6. Proper(args, channel, transient) /\ AsCalled(args, tx.asked)
  BY <1>3, <1>4 DEF Whole
<1>7. signed = gen.signed_proposal
  BY <1>2, <1>4
<1>8. Reads("SignedProposal", signed)
  BY <1>5, <1>7, Generated
<1>9. /\ w.to = ToPeers /\ w.asked = n /\ Parsed(w) = signed
      /\ WellFormed(RequestType(w.to), w.bytes)
  BY <1>1, <1>2, <1>8, Methods, RequestParsed
<1>10. PICK payload : payload = FromString("ChaincodeProposalPayload",
                              FromString("Proposal", signed.proposal_bytes).payload)
  OBVIOUS
<1>11. /\ AcceptsProposal(signed) /\ payload.TransientMap = transient
       /\ Sub("ChaincodeSpec", ChaincodeOf(payload), "input").args = args
  BY <1>5, <1>6, <1>7, <1>10, ProposalAccepted
<1>12. ArgsIn(signed) = args
  BY <1>10, <1>11 DEF ArgsIn
<1>13. TransientIn(FromString("Proposal", signed.proposal_bytes).payload) = transient
  BY <1>10, <1>11 DEF TransientIn
<1>14. CalledAsAsked(args, tx.asked)
  BY <1>6, CalledRight
<1>15. Accepted(w)
  BY <1>9, <1>11, Methods DEF Accepted
<1> QED
  BY <1>2, <1>4, <1>9, <1>12, <1>13, <1>14, <1>15, Methods DEF RightFor, Accepted

LEMMA TransactionRight ==
  ASSUME Schema = MessageTypes, Promise, TxsWhole, NEW w, TransactionSent(w)
  PROVE  RightFor(w) /\ NoneIn(ActionsIn(Parsed(w)))
<1>1. PICK n \in DOMAIN txs, t \in Scalars :
         /\ Named(txs[n].channel)
         /\ w = Request(ToOrderers, BuildEndorsedTXEnvelope(EndorsedTX(txs[n].gen),
                                                            txs[n].user, t), n)
  BY DEF TransactionSent
<1>2. PICK tx : tx = txs[n]
  OBVIOUS
<1>3. Whole(tx)
  BY <1>2 DEF TxsWhole
<1>4. PICK user, args, channel, transient, gen :
         /\ user = tx.user /\ args = tx.args /\ channel = tx.channel
         /\ transient = tx.transient /\ gen = tx.gen
  OBVIOUS
<1>5. PICK nonce, ccName, s :
         /\ s \in Scalars
         /\ gen = BuildGeneratedTX(user, nonce, ccName, args, channel, transient, s)
  BY <1>3, <1>4 DEF Whole, BuiltFor
<1>6. Proper(args, channel, transient) /\ Named(channel)
  BY <1>1, <1>2, <1>3, <1>4 DEF Whole
<1>7. PICK m, list : /\ m = BuildEndorsedTXEnvelope(EndorsedTX(gen), user, t)
                     /\ list = ActionsIn(m)
  OBVIOUS
<1>8. w = Request(ToOrderers, m, n)
  BY <1>1, <1>2, <1>4, <1>7
<1>9. Reads("Envelope", m)
  BY <1>5, <1>6, <1>7, TransactionBuilt
<1>10. AcceptsEnvelope("Broadcast", m) /\ NoneIn(list)
  BY <1>5, <1>6, <1>7, TransactionAccepted
<1>11. /\ w.to = ToOrderers /\ Parsed(w) = m
       /\ WellFormed(RequestType(w.to), w.bytes)
  BY <1>8, <1>9, Methods, RequestParsed
<1>12. Accepted(w)
  BY <1>10, <1>11, Methods DEF Accepted
<1> QED
  BY <1>7, <1>10, <1>11, <1>12, Methods DEF RightFor, Accepted

LEMMA TheChannelNamed == EncodesProtoStr(TheChannel) /\ Named(TheChannel)
                         /\ TheChannel.str = "ch"
<1>1. TheChannel.str = "ch" /\ TheChannel.chars = "ascii"
  BY DEF TheChannel, Ascii
<1>2. "ch" # ""
  BY Zenon
<1> QED
  BY <1>1, <1>2, Zenon DEF EncodesProtoStr, Named

LEMMA UpdateRight ==
  ASSUME Schema = MessageTypes, Promise, NEW w, UpdateSent(w)
  PROVE  RightFor(w) /\ w.asked = 0
<1>1. PICK user, nonce, s, t :
         /\ s \in Scalars /\ t \in Scalars
         /\ w = Request(ToOrderers,
                    BuildConfigUpdateEnvelope(TheChannel, TxContextFromUser(user, nonce),
                                              user, UpdateIn(ChannelTX), s, t), 0)
  BY DEF UpdateSent
<1>2. PICK channel, update, none :
         channel = TheChannel /\ update = UpdateIn(ChannelTX) /\ none = 0
  OBVIOUS
<1>3. PICK m : m = BuildConfigUpdateEnvelope(channel, TxContextFromUser(user, nonce),
                                             user, update, s, t)
  OBVIOUS
<1>4. FromString("ConfigUpdate", update).channel_id = Text(channel.str)
  <2>1. FromString("ConfigUpdate", UpdateIn(ChannelTX)).channel_id = Text("ch")
    BY MessagesAssumption, Zenon
  <2> QED
    BY <1>2, <2>1, TheChannelNamed
<1>5. Reads("Envelope", m) /\ AcceptsEnvelope("Broadcast", m)
  BY <1>1, <1>2, <1>3, <1>4, TheChannelNamed, UpdateAccepted
<1>6. w = Request(ToOrderers, m, none)
  BY <1>1, <1>2, <1>3
<1>7. /\ w.to = ToOrderers /\ w.asked = none /\ Parsed(w) = m
      /\ WellFormed(RequestType(w.to), w.bytes)
  BY <1>5, <1>6, Methods, RequestParsed
<1>8. Accepted(w)
  BY <1>5, <1>7, Methods DEF Accepted
<1> QED
  BY <1>2, <1>7, <1>8, Methods DEF RightFor, Accepted


LEMMA ListedSeq ==
  \A v, S : IsList(v) /\ (\A i \in 1..Len(v) : v[i] \in S) => v \in Seq(S)
  BY DEF IsList

LEMMA MiddleLines ==
  ASSUME NEW S, NEW v \in Seq(S), NEW a \in S, NEW b \in S, NEW c \in S
  PROVE  LET file == <<a>> \o v \o <<b, c>>
         IN  Len(file) = Len(v) + 3 /\ SubSeq(file, 2, Len(file) - 2) = v
<1>1. PICK file : file = <<a>> \o v \o <<b, c>>
  OBVIOUS
<1>2. /\ file \in Seq(S) /\ Len(file) = Len(v) + 3
      /\ \A i \in 1..Len(v) : file[i + 1] = v[i]
  BY <1>1
<1>3. PICK n : n = Len(v) /\ n \in Nat
  OBVIOUS
<1>4. Len(file) - 2 = n + 1
  BY <1>2, <1>3
<1>5. SubSeq(file, 2, n + 1) = [i \in 1..n |-> file[i + 1]]
  BY <1>2, <1>3
<1>6. v = [i \in 1..n |-> v[i]]
  BY <1>3
<1> QED
  BY <1>1, <1>2, <1>3, <1>4, <1>5, <1>6

\* The base64 of a certificate, all lines of it, is what is hashed.
LEMMA PemRead ==
  ASSUME NEW base64, IsList(base64)
  PROVE  /\ base64 = <<>> => PemFile(base64) = <<>>
         /\ base64 # <<>> =>
               /\ PemFile(base64) # <<>>
               /\ PemToDer(PemFile(base64)) = Opaque("der", base64)
<1>1. PICK S, a, b, c : /\ a = BeginLine /\ b = EndLine /\ c = LastLine
                        /\ S = {base64[i] : i \in 1..Len(base64)} \cup {a, b, c}
  OBVIOUS
<1>2. a \in S /\ b \in S /\ c \in S /\ \A i \in 1..Len(base64) : base64[i] \in S
  BY <1>1
<1>3. base64 \in Seq(S)
  BY <1>2, ListedSeq
<1>4. PICK file : file = <<a>> \o base64 \o <<b, c>>
  OBVIOUS
<1>5. Len(file) = Len(base64) + 3 /\ SubSeq(file, 2, Len(file) - 2) = base64
  BY <1>2, <1>3, <1>4, MiddleLines
<1>6. file # <<>>
  BY <1>3, <1>5
<1>7. base64 # <<>> => PemFile(base64) = file
  BY <1>1, <1>4 DEF PemFile
<1>8. base64 = <<>> => PemFile(base64) = <<>>
  BY DEF PemFile
<1> QED
  BY <1>5, <1>6, <1>7, <1>8 DEF PemToDer

LEMMA SeekRight ==
  ASSUME Schema = MessageTypes, Promise, NEW w, SeekSent(w)
  PROVE  RightFor(w) /\ w.to[2] # "Broadcast"
<1>1. PICK user, nonce, k, s :
         /\ k \in Seeks /\ s \in Scalars
         /\ w = Request(k.to,
                    BuildEnvelope(user, TxContextFromUser(user, nonce),
                        SerializeToString("SeekInfo",
                                          BuildSeekInfo(k.start, k.stop, k.behavior)),
                        TheChannel, PemFile(k.cert), HeaderType.ENDORSER_TRANSACTION, s), k)
  BY DEF SeekSent
<1>2. PICK to, start, stop, behavior, base64, cert, channel :
         /\ to = k.to /\ start = k.start /\ stop = k.stop /\ behavior = k.behavior
         /\ base64 = k.cert /\ cert = PemFile(base64) /\ channel = TheChannel
  OBVIOUS
<1>3. /\ to \in Streams /\ IsPosition(start) /\ IsPosition(stop)
      /\ behavior \in DOMAIN SeekInfo_SeekBehavior
      /\ IsList(base64)
  <2>1. /\ k.to \in Streams /\ IsPosition(k.start) /\ IsPosition(k.stop)
        /\ k.behavior \in DOMAIN SeekInfo_SeekBehavior
        /\ IsList(k.cert)
    BY <1>1, MessagesAssumption, Zenon
  <2> QED
    BY <1>2, <2>1
<1>4. PICK seek : seek = BuildSeekInfo(start, stop, behavior)
  OBVIOUS
<1>5. PICK m : m = BuildEnvelope(user, TxContextFromUser(user, nonce),
                                 SerializeToString("SeekInfo", seek), channel, cert,
                                 HeaderType.ENDORSER_TRANSACTION, s)
  OBVIOUS
<1>6. /\ Reads("SeekInfo", seek)
      /\ PositionOf(Sub("SeekInfo", seek, "start")) = start
      /\ PositionOf(Sub("SeekInfo", seek, "stop")) = stop
      /\ seek.behavior = SeekInfo_SeekBehavior[behavior]
  BY <1>3, <1>4, SeekReads
<1>7. PICK payload, header : /\ payload = FromString("Payload", m.payload)
                             /\ header = Sub("Payload", payload, "header")
  OBVIOUS
<1>8. EncodesProtoStr(channel)
  BY <1>2, TheChannelNamed
<1>9. SeekEnvelope(m, user, nonce, seek, channel, cert)
  BY <1>1, <1>5 DEF SeekEnvelope
<1>10. Reads("Envelope", m) /\ SeekIn(m, seek, channel, cert)
  BY <1>6, <1>8, <1>9, SeekReadable
<1>11. w = Request(to, m, k)
  BY <1>1, <1>2, <1>4, <1>5
<1>12. RequestType(to) = "Envelope" /\ to[1] # "Endorser" /\ to[2] # "Broadcast"
  BY <1>3, Methods
<1>13. /\ w.to = to /\ w.asked = k /\ Parsed(w) = m
       /\ WellFormed(RequestType(w.to), w.bytes)
  BY <1>10, <1>11, <1>12, RequestParsed
<1>14. PICK ch : ch = FromString("ChannelHeader", header.channel_header)
  OBVIOUS
<1>15. ch.tls_cert_hash = IF base64 = <<>> THEN <<>> ELSE Hash(Opaque("der", base64))
  BY <1>2, <1>3, <1>7, <1>10, <1>14, PemRead DEF SeekIn
<1>16. /\ WellFormed("Payload", m.payload) /\ Authentic(header, m.payload, m.signature)
       /\ WellFormed("SeekInfo", payload.data) /\ FromString("SeekInfo", payload.data) = seek
       /\ ch.channel_id = Text(TheChannel.str)
  BY <1>2, <1>7, <1>10, <1>14, Zenon DEF SeekIn
<1>17. StreamedAsAsked(m, k)
  BY <1>2, <1>6, <1>7, <1>14, <1>15, <1>16, Zenon DEF StreamedAsAsked, PositionOf
<1> QED
  BY <1>3, <1>12, <1>13, <1>17 DEF RightFor

\* What the invariant is for.
LEMMA AllRight ==
  ASSUME Schema = MessageTypes, Promise, MessagesInv
  PROVE  WireAccepted /\ ReceivedAsAsked /\ TransientOnlyToPeers
<1>1. ASSUME NEW w \in wire
      PROVE  /\ RightFor(w)
             /\ w.to[2] = "Broadcast" /\ w.asked # 0 => NoneIn(ActionsIn(Parsed(w)))
  <2>1. TxsWhole /\ (ProposalSent(w) \/ TransactionSent(w) \/ UpdateSent(w) \/ SeekSent(w))
    BY DEF MessagesInv, WireBuilt
  <2> QED
    BY <2>1, ProposalRight, TransactionRight, UpdateRight, SeekRight
<1>2. WireAccepted
  BY <1>1 DEF WireAccepted, RightFor
<1>3. ReceivedAsAsked
  BY <1>1 DEF ReceivedAsAsked, RightFor
<1>4. TransientOnlyToPeers
  BY <1>1, Zenon DEF TransientOnlyToPeers, RightFor, NoneIn, ActionsIn
<1> QED
  BY <1>2, <1>3, <1>4


-----------------------------------------------------------------------------

\* No transaction is forgotten, and of none anything but its responses changes.
TxsKept ==
    /\ DOMAIN txs \subseteq DOMAIN txs'
    /\ \A n \in DOMAIN txs :
          /\ txs'[n].gen = txs[n].gen /\ txs'[n].user = txs[n].user
          /\ txs'[n].channel = txs[n].channel

SentSo(w) == ProposalSent(w) \/ TransactionSent(w) \/ UpdateSent(w) \/ SeekSent(w)

LEMMA SentKept ==
  ASSUME TxsKept, NEW w, SentSo(w)
  PROVE  SentSo(w)'
<1>1. ProposalSent(w) => ProposalSent(w)'
  BY DEF ProposalSent, TxsKept
<1>2. TransactionSent(w) => TransactionSent(w)'
  <2>1. ASSUME NEW n \in DOMAIN txs, NEW s \in Scalars, Named(txs[n].channel),
               w = Request(ToOrderers, BuildEndorsedTXEnvelope(EndorsedTX(txs[n].gen),
                                                               txs[n].user, s), n)
        PROVE  TransactionSent(w)'
    <3>1. /\ n \in DOMAIN txs' /\ Named(txs'[n].channel)
          /\ w = Request(ToOrderers, BuildEndorsedTXEnvelope(EndorsedTX(txs'[n].gen),
                                                             txs'[n].user, s), n)
      BY <2>1 DEF TxsKept
    <3> QED
      BY <3>1 DEF TransactionSent
  <2> QED
    BY <2>1 DEF TransactionSent
<1>3. UpdateSent(w) => UpdateSent(w)'
  BY DEF UpdateSent
<1>4. SeekSent(w) => SeekSent(w)'
  BY DEF SeekSent
<1> QED
  BY <1>1, <1>2, <1>3, <1>4 DEF SentSo

LEMMA WireKept ==
  ASSUME WireBuilt, TxsKept, wire' = wire
  PROVE  WireBuilt'
<1>1. \A w \in wire : SentSo(w)'
  BY SentKept DEF WireBuilt, SentSo
<1> QED
  BY <1>1 DEF WireBuilt, SentSo

LEMMA WireExtended ==
  ASSUME WireBuilt, TxsKept, NEW r, SentSo(r)', wire' = wire \cup {r}
  PROVE  WireBuilt'
<1>1. \A w \in wire : SentSo(w)'
  BY SentKept DEF WireBuilt, SentSo
<1>2. \A w \in wire' : SentSo(w)'
  BY <1>1
<1> QED
  BY <1>2 DEF WireBuilt, SentSo

LEMMA GenerateKeeps ==
  ASSUME MessagesInv, NEW user, NEW kind, NEW ccName, NEW args, NEW channel,
         NEW transient, NEW asked, NEW s \in Scalars, Proper(args, channel, transient),
         kind \in {"invoke", "deploy", "upgrade"} => Named(channel), AsCalled(args, asked),
         Generate(user, kind, ccName, args, channel, transient, asked, s)
  PROVE  MessagesInv'
<1>1. PICK tx, nonce : 
         /\ nonce = nonces + 1
         /\ tx = [gen |-> BuildGeneratedTX(user, nonce, ccName, args, channel, transient, s),
                  user |-> user, kind |-> kind, args |-> args, channel |-> channel,
                  transient |-> transient, asked |-> asked, peer_responses |-> <<>>]
  OBVIOUS
<1>2. txs' = Append(txs, tx) /\ wire' = wire /\ delivered' = delivered
  BY <1>1, Zenon DEF Generate
<1>3. /\ IsList(txs') /\ DOMAIN txs' = DOMAIN txs \cup {Len(txs) + 1}
      /\ txs'[Len(txs) + 1] = tx /\ \A n \in DOMAIN txs : txs'[n] = txs[n]
  <2>1. IsList(txs)
    BY DEF MessagesInv, TxsWhole
  <2>2. Lengthens(txs', txs, tx)
    BY <1>2, <2>1, Appended
  <2> QED
    BY <2>2 DEF Lengthens
<1>4. Whole(tx)
  <2>1. PICK gen, none :
           /\ gen = BuildGeneratedTX(user, nonce, ccName, args, channel, transient, s)
           /\ none = <<>>
    OBVIOUS
  <2>2. tx = [gen |-> gen, user |-> user, kind |-> kind, args |-> args,
              channel |-> channel, transient |-> transient, asked |-> asked,
              peer_responses |-> none]
    BY <1>1, <2>1, Zenon
  <2>3. /\ tx.gen = gen /\ tx.user = user /\ tx.kind = kind /\ tx.args = args
        /\ tx.channel = channel /\ tx.transient = transient /\ tx.asked = asked
        /\ tx.peer_responses = none
    BY <2>2
  <2>4. BuiltFor(tx)
    BY <2>1, <2>3 DEF BuiltFor
  <2>5. tx.peer_responses \in {<<>>, Responses(tx.gen)}
    BY <2>1, <2>3
  <2> QED
    BY <2>2, <2>3, <2>4, <2>5, Zenon DEF Whole
<1>5. TxsWhole'
  BY <1>3, <1>4 DEF MessagesInv, TxsWhole
<1>6. TxsKept
  BY <1>3 DEF TxsKept
<1>7. WireBuilt'
  BY <1>2, <1>6, WireKept DEF MessagesInv
<1>8. BlockWhole'
  BY <1>2 DEF MessagesInv, BlockWhole
<1> QED
  BY <1>5, <1>7, <1>8 DEF MessagesInv


\* The types of the calls.
LEMMA CallTyped ==
  ASSUME NEW c \in Calls
  PROVE  /\ c.kind \in {"invoke", "query"} =>
               /\ IsList(c.args) /\ Named(c.channel)
               /\ Suits(ChaincodeProposalPayload.TransientMap, c.transient)
         /\ c.kind \in {"deploy", "upgrade"} =>
               /\ IsList(c.cc_spec.args) /\ Named(c.channel)
               /\ c.cc_spec.language \in DOMAIN ChaincodeSpec_Type
  BY MessagesAssumption, Zenon DEF Named, Suits

LEMMA Unnamed == EncodesProtoStr(Ascii(NoText))
  BY DEF Ascii, EncodesProtoStr

LEMMA GenerateCCTXKeeps ==
  ASSUME MessagesInv, NEW user, NEW call \in Calls, NEW s \in Scalars,
         GenerateCCTX(user, call, s)
  PROVE  MessagesInv'
<1>1. PICK kind, fcn, given, channel, transient, cc, list :
         /\ kind = call.kind /\ fcn = call.fcn /\ given = call.args
         /\ channel = call.channel /\ transient = call.transient /\ cc = call.cc_name
         /\ list = InvokeArgs(fcn, given)
  OBVIOUS
<1>2. /\ kind \in {"invoke", "query"} /\ EncodesProtoStr(channel)
      /\ Generate(user, kind, cc, list, channel, transient, call, s)
  BY <1>1, Zenon DEF GenerateCCTX
<1>3. /\ IsList(given) /\ Named(channel)
      /\ Suits(ChaincodeProposalPayload.TransientMap, transient)
  BY <1>1, <1>2, CallTyped
<1>4. Proper(list, channel, transient)
  BY <1>1, <1>2, <1>3, InvokeArgsListed DEF Proper
<1>5. AsCalled(list, call)
  BY <1>1, <1>2 DEF AsCalled
<1> QED
  BY <1>2, <1>3, <1>4, <1>5, GenerateKeeps

LEMMA InstantiateKeeps ==
  ASSUME MessagesInv, NEW user, NEW call \in Calls, NEW s \in Scalars,
         GenerateInstantiateCCTX(user, call, s)
  PROVE  MessagesInv'
<1>1. PICK kind, ccSpec, policy, channel, upgrade, none, cc, list :
         /\ kind = call.kind /\ ccSpec = call.cc_spec /\ policy = call.policy
         /\ channel = call.channel /\ upgrade = (call.kind = "upgrade") /\ none = <<>>
         /\ cc = "lscc" /\ list = InstantiateArgs(ccSpec, channel, policy, upgrade)
  OBVIOUS
<1>2. /\ kind \in {"deploy", "upgrade"} /\ EncodesProtoStr(channel)
      /\ Generate(user, kind, cc, list, channel, none, call, s)
  BY <1>1, Zenon DEF GenerateInstantiateCCTX
<1>3. /\ IsList(ccSpec.args) /\ Named(channel)
      /\ ccSpec.language \in DOMAIN ChaincodeSpec_Type
  BY <1>1, <1>2, CallTyped
<1>4. IsList(list)
  <2>1. PICK x, y, z, u, v, w : list = <<x, y, z, u, v, w>>
    BY <1>1, Zenon DEF InstantiateArgs
  <2> QED
    BY <2>1, Listed
<1>5. Proper(list, channel, none)
  BY <1>1, <1>2, <1>4, NoTransientSuits DEF Proper
<1>6. AsCalled(list, call)
  BY <1>1, <1>2, <1>3 DEF AsCalled
<1> QED
  BY <1>2, <1>3, <1>5, <1>6, GenerateKeeps

LEMMA InstallKeeps ==
  ASSUME MessagesInv, NEW user, NEW call \in Calls, NEW s \in Scalars,
         InstallChaincode(user, call, s)
  PROVE  MessagesInv'
<1>1. PICK kind, ccSpec, code, channel, none, cc, list :
         /\ kind = call.kind /\ ccSpec = call.cc_spec /\ code = call.package
         /\ channel = Ascii(NoText) /\ none = <<>> /\ cc = "lscc"
         /\ list = InstallArgs(ccSpec, code)
  OBVIOUS
<1>2. /\ kind = "install" /\ ccSpec.language = "GOLANG"
      /\ Generate(user, kind, cc, list, channel, none, call, s)
  BY <1>1, Zenon DEF InstallChaincode, NoText
<1>3. ccSpec.language \in DOMAIN ChaincodeSpec_Type
  BY <1>2 DEF ChaincodeSpec_Type
<1>4. IsList(list)
  BY <1>1, Listed DEF InstallArgs
<1>5. Proper(list, channel, none)
  BY <1>1, <1>4, NoTransientSuits, Unnamed DEF Proper
<1>6. AsCalled(list, call)
  BY <1>1, <1>2, <1>3 DEF AsCalled
<1> QED
  BY <1>2, <1>5, <1>6, GenerateKeeps

LEMMA QueryKeeps ==
  ASSUME MessagesInv, NEW user, NEW call \in Calls, NEW s \in Scalars,
         QueryChaincodes(user, call, s)
  PROVE  MessagesInv'
<1>1. PICK kind, list, channel, none, cc :
         /\ kind = call.kind /\ none = <<>> /\ cc = "lscc"
         /\ list = IF call.kind = "getchaincodes" THEN QueryInstantiatedArgs
                   ELSE QueryInstalledArgs
         /\ channel = IF call.kind = "getchaincodes" THEN TheChannel ELSE Ascii(NoText)
  OBVIOUS
<1>2. /\ kind \in {"getchaincodes", "getinstalledchaincodes"}
      /\ Generate(user, kind, cc, list, channel, none, call, s)
  BY <1>1, Zenon DEF QueryChaincodes, NoText
<1>3. IsList(list)
  BY <1>1, Listed DEF QueryInstantiatedArgs, QueryInstalledArgs
<1>4. Proper(list, channel, none)
  BY <1>1, <1>3, NoTransientSuits, Unnamed, TheChannelNamed DEF Proper
<1>5. AsCalled(list, call)
  BY <1>1, <1>2 DEF AsCalled
<1> QED
  BY <1>2, <1>4, <1>5, GenerateKeeps

LEMMA JoinKeeps ==
  ASSUME MessagesInv, NEW user, NEW s \in Scalars, JoinChannel(user, s)
  PROVE  MessagesInv'
<1>1. PICK kind, sent, list, channel, none, cc, asked :
         /\ kind = "join" /\ sent = delivered.sent /\ none = <<>> /\ cc = "cscc"
         /\ list = JoinArgs(RawBlockAsProto(delivered.pulled))
         /\ channel = Ascii(NoText) /\ asked = [kind |-> kind, block |-> sent]
  OBVIOUS
<1>2. /\ delivered.service = "AtomicBroadcast"
      /\ Generate(user, kind, cc, list, channel, none, asked, s)
  BY <1>1, Zenon DEF JoinChannel, NoText
<1>3. IsMessage("Block", sent) /\ list = JoinArgs(sent)
  BY <1>1, <1>2 DEF MessagesInv, BlockWhole
<1>4. IsList(list)
  BY <1>3, Listed DEF JoinArgs
<1>5. Proper(list, channel, none)
  BY <1>1, <1>4, NoTransientSuits, Unnamed DEF Proper
<1>6. asked.kind = "join" /\ asked.block = sent
  BY <1>1
<1>7. AsCalled(list, asked)
  BY <1>3, <1>6 DEF AsCalled
<1> QED
  BY <1>1, <1>2, <1>5, <1>7, GenerateKeeps


LEMMA ProposeKeeps ==
  ASSUME Schema = MessageTypes, Promise, MessagesInv, NEW n \in DOMAIN txs, ProposeTX(n)
  PROVE  MessagesInv'
<1>1. PICK tx, gen, signed, request :
         /\ tx = txs[n] /\ gen = tx.gen /\ signed = gen.signed_proposal
         /\ request = Request(ToPeers, signed, n)
  OBVIOUS
<1>2. Whole(tx) /\ IsList(txs)
  BY <1>1 DEF MessagesInv, TxsWhole
<1>3. Reads("SignedProposal", signed)
  <2>1. PICK user, args, channel, transient :
           /\ user = tx.user /\ args = tx.args /\ channel = tx.channel
           /\ transient = tx.transient
    OBVIOUS
  <2>2. PICK nonce, ccName, s :
           gen = BuildGeneratedTX(user, nonce, ccName, args, channel, transient, s)
    BY <1>1, <1>2, <2>1 DEF Whole, BuiltFor
  <2> QED
    BY <1>1, <2>2, Generated
<1>4. FromString("SignedProposal", request.bytes) = signed
  <2>1. request.bytes = SerializeToString("SignedProposal", signed)
    BY <1>1, Methods DEF Request
  <2> QED
    BY <1>3, <2>1 DEF Reads
<1>5. PICK responses :
         responses = [i \in DOMAIN Peers |->
                         FromString("ProposalResponse",
                             Endorse(Peers[i], FromString("SignedProposal", request.bytes)))]
  OBVIOUS
<1>6. /\ wire' = wire \cup {request} /\ delivered' = delivered
      /\ txs' = [txs EXCEPT ![n].peer_responses = responses]
  BY <1>1, <1>5, Zenon DEF ProposeTX, ToPeers
<1>7. responses = Responses(gen)
  BY <1>1, <1>4, <1>5 DEF Responses
<1>8. txs' = [txs EXCEPT ![n] = [tx EXCEPT !.peer_responses = responses]]
  BY <1>1, <1>6
<1>9. PICK new : new = [tx EXCEPT !.peer_responses = responses]
  OBVIOUS
<1>10. /\ new = [gen |-> tx.gen, user |-> tx.user, kind |-> tx.kind, args |-> tx.args,
                 channel |-> tx.channel, transient |-> tx.transient, asked |-> tx.asked,
                 peer_responses |-> responses]
  BY <1>2, <1>9 DEF Whole
<1>11. /\ new.gen = gen /\ new.user = tx.user /\ new.kind = tx.kind /\ new.args = tx.args
       /\ new.channel = tx.channel /\ new.transient = tx.transient /\ new.asked = tx.asked
       /\ new.peer_responses = responses
  BY <1>1, <1>10
<1>12. Whole(new)
  <2>1. BuiltFor(new)
    BY <1>1, <1>2, <1>11 DEF Whole, BuiltFor
  <2>2. new = [gen |-> new.gen, user |-> new.user, kind |-> new.kind, args |-> new.args,
               channel |-> new.channel, transient |-> new.transient, asked |-> new.asked,
               peer_responses |-> new.peer_responses]
    BY <1>10
  <2>3. new.peer_responses \in {<<>>, Responses(new.gen)}
    BY <1>7, <1>11
  <2>4. /\ Proper(new.args, new.channel, new.transient)
        /\ new.kind \in {"invoke", "deploy", "upgrade"} => Named(new.channel)
        /\ AsCalled(new.args, new.asked)
    BY <1>2, <1>11 DEF Whole
  <2> QED
    BY <2>1, <2>2, <2>3, <2>4, Zenon DEF Whole
<1>13. /\ DOMAIN txs' = DOMAIN txs /\ txs'[n] = new
       /\ \A k \in DOMAIN txs : k # n => txs'[k] = txs[k]
  <2>1. txs = [i \in 1..Len(txs) |-> txs[i]]
    BY <1>2 DEF IsList
  <2>2. PICK old : old = txs /\ old = [i \in DOMAIN old |-> old[i]]
    BY <2>1
  <2> QED
    BY <1>8, <1>9, <2>2
<1>14. IsList(txs')
  <2>1. DOMAIN txs' = 1..Len(txs) /\ Len(txs) \in Nat
    BY <1>2, <1>13 DEF IsList
  <2>2. txs' = [i \in DOMAIN txs' |-> txs'[i]]
    BY <1>8
  <2>3. Len(txs') = Len(txs)
    BY <2>1, <2>2
  <2> QED
    BY <2>1, <2>2, <2>3 DEF IsList
<1>15. TxsWhole'
  BY <1>12, <1>13, <1>14 DEF MessagesInv, TxsWhole
<1>16. TxsKept
  BY <1>1, <1>11, <1>13 DEF TxsKept
<1>17. SentSo(request)'
  BY <1>1, <1>11, <1>13 DEF SentSo, ProposalSent
<1>18. WireBuilt'
  BY <1>6, <1>16, <1>17, WireExtended DEF MessagesInv
<1>19. BlockWhole'
  BY <1>6 DEF MessagesInv, BlockWhole
<1> QED
  BY <1>15, <1>18, <1>19 DEF MessagesInv

LEMMA CommitKeeps ==
  ASSUME MessagesInv, NEW n \in DOMAIN txs, NEW s \in Scalars, CommitTX(n, s)
  PROVE  MessagesInv'
<1>1. PICK tx, endorsed, request :
         /\ tx = txs[n]
         /\ endorsed = [peer_responses |-> tx.peer_responses, header |-> tx.gen.header,
                        proposal |-> tx.gen.proposal]
         /\ request = Request(ToOrderers, BuildEndorsedTXEnvelope(endorsed, tx.user, s), n)
  OBVIOUS
<1>2. /\ tx.kind \in {"invoke", "deploy", "upgrade"} /\ tx.peer_responses # <<>>
      /\ wire' = wire \cup {request} /\ txs' = txs /\ delivered' = delivered
  BY <1>1, Zenon DEF CommitTX, ToOrderers
<1>3. Whole(tx)
  BY <1>1 DEF MessagesInv, TxsWhole
<1>4. tx.peer_responses = Responses(tx.gen) /\ Named(tx.channel)
  BY <1>2, <1>3 DEF Whole
<1>5. endorsed = EndorsedTX(tx.gen)
  BY <1>1, <1>4 DEF EndorsedTX
<1>6. TransactionSent(request)
  BY <1>1, <1>4, <1>5 DEF TransactionSent
<1>7. TxsKept
  BY <1>2 DEF TxsKept
<1>8. SentSo(request)'
  BY <1>6, <1>7, SentKept DEF SentSo
<1>9. WireBuilt'
  BY <1>2, <1>7, <1>8, WireExtended DEF MessagesInv
<1>10. TxsWhole'
  BY <1>2 DEF MessagesInv, TxsWhole
<1>11. BlockWhole'
  BY <1>2 DEF MessagesInv, BlockWhole
<1> QED
  BY <1>9, <1>10, <1>11 DEF MessagesInv

LEMMA CreateKeeps ==
  ASSUME MessagesInv, NEW user, NEW s \in Scalars, NEW t \in Scalars,
         CreateChannel(user, s, t)
  PROVE  MessagesInv'
<1>1. PICK nonce, request :
         /\ nonce = nonces + 1
         /\ request = Request(ToOrderers,
                        BuildConfigUpdateEnvelope(TheChannel, TxContextFromUser(user, nonce),
                                                  user, UpdateIn(ChannelTX), s, t), 0)
  OBVIOUS
<1>2. wire' = wire \cup {request} /\ txs' = txs /\ delivered' = delivered
  BY <1>1, Zenon DEF CreateChannel, ToOrderers
<1>3. UpdateSent(request)
  BY <1>1 DEF UpdateSent
<1>4. TxsKept
  BY <1>2 DEF TxsKept
<1>5. SentSo(request)'
  BY <1>3, <1>4, SentKept DEF SentSo
<1>6. WireBuilt'
  BY <1>2, <1>4, <1>5, WireExtended DEF MessagesInv
<1>7. TxsWhole'
  BY <1>2 DEF MessagesInv, TxsWhole
<1>8. BlockWhole'
  BY <1>2 DEF MessagesInv, BlockWhole
<1> QED
  BY <1>6, <1>7, <1>8 DEF MessagesInv

LEMMA StreamKeeps ==
  ASSUME MessagesInv, NEW user, NEW k \in Seeks, NEW s \in Scalars, StreamBlocks(user, k, s)
  PROVE  MessagesInv'
<1>1. PICK nonce, request :
         /\ nonce = nonces + 1
         /\ request = Request(k.to,
                        BuildEnvelope(user, TxContextFromUser(user, nonce),
                            SerializeToString("SeekInfo",
                                              BuildSeekInfo(k.start, k.stop, k.behavior)),
                            TheChannel, PemFile(k.cert), HeaderType.ENDORSER_TRANSACTION, s), k)
  OBVIOUS
<1>2. wire' = wire \cup {request} /\ txs' = txs /\ delivered' = delivered
  BY <1>1, Zenon DEF StreamBlocks
<1>3. SeekSent(request)
  BY <1>1 DEF SeekSent
<1>4. TxsKept
  BY <1>2 DEF TxsKept
<1>5. SentSo(request)'
  BY <1>3, <1>4, SentKept DEF SentSo
<1>6. WireBuilt'
  BY <1>2, <1>4, <1>5, WireExtended DEF MessagesInv
<1>7. TxsWhole'
  BY <1>2 DEF MessagesInv, TxsWhole
<1>8. BlockWhole'
  BY <1>2 DEF MessagesInv, BlockWhole
<1> QED
  BY <1>6, <1>7, <1>8 DEF MessagesInv


LEMMA YieldedIs ==
  ASSUME NEW to, NEW sent, NEW entries, NEW codes, NEW status, NEW pulled, NEW y,
         y = Yielded(to, sent, entries, codes, status, pulled)
  PROVE  y.service = to[1] /\ y.sent = sent /\ y.pulled = pulled
<1>1. PICK filtered, raises, decoded :
         y = [service |-> to[1], filtered |-> filtered, raises |-> raises,
              status |-> status, sent |-> sent, data |-> entries, codes |-> codes,
              pulled |-> pulled, decoded |-> decoded]
  BY Zenon DEF Yielded
<1> QED
  BY <1>1

LEMMA ReceiveKeeps ==
  ASSUME Schema = MessageTypes, Promise, MessagesInv, NEW to \in Streams,
         NEW number \in 0..1, NEW entries, IsList(entries), NEW codes,
         ReceiveBlock(to, number, entries, codes)
  PROVE  MessagesInv'
<1>1. PICK block, resp, pulled, status :
         /\ block = BlockFor(to, number, entries, codes)
         /\ resp = ResponseOf(to, block)
         /\ pulled = PullBlockFromResponse(to, resp)
         /\ status = (StatusOf(resp) # 0)
  OBVIOUS
<1>2. /\ delivered' = Yielded(to, block, entries, codes, status, pulled)
      /\ wire' = wire /\ txs' = txs
  BY <1>1, Zenon DEF ReceiveBlock
<1>3. delivered'.service = to[1] /\ delivered'.sent = block /\ delivered'.pulled = pulled
  BY <1>2, YieldedIs
<1>4. ASSUME to[1] = "AtomicBroadcast"
      PROVE  IsMessage("Block", block) /\ RawBlockAsProto(pulled) = block
  <2>1. to = ForJoin
    BY <1>4 DEF Streams, ForJoin
  <2>2. PICK none : none = <<>>
    OBVIOUS
  <2>3. ForJoin[1] = "AtomicBroadcast" /\ ForJoin[2] # "DeliverFiltered"
    BY DEF ForJoin
  <2>4. block = MakeBlock(number, entries, none)
    BY <1>1, <2>1, <2>2, <2>3 DEF BlockFor
  <2>5. number \in Nat
    OBVIOUS
  <2>6. IsMessage("Block", block) /\ RawBlockAsProto(RawBlockFromProto(block)) = block
    BY <2>4, <2>5, BlockBuilt
  <2>7. pulled = RawBlockFromProto(block)
    BY <1>1, <2>1, <2>6, BlockPulled
  <2> QED
    BY <2>6, <2>7
<1>5. BlockWhole'
  BY <1>3, <1>4 DEF BlockWhole
<1>6. TxsWhole'
  BY <1>2 DEF MessagesInv, TxsWhole
<1>7. TxsKept
  BY <1>2 DEF TxsKept
<1>8. WireBuilt'
  BY <1>2, <1>7, WireKept DEF MessagesInv
<1> QED
  BY <1>5, <1>6, <1>8 DEF MessagesInv

LEMMA InitRight == Init => MessagesInv
<1> SUFFICES ASSUME Init PROVE MessagesInv
  OBVIOUS
<1>1. txs = <<>> /\ wire = {} /\ delivered.service = "none"
  BY DEF Init, NoBlock
<1>2. DOMAIN <<>> = {}
  OBVIOUS
<1>3. TxsWhole
  BY <1>1, <1>2, NothingListed DEF TxsWhole
<1> QED
  BY <1>1, <1>3 DEF MessagesInv, WireBuilt, BlockWhole

LEMMA NextKeeps ==
  ASSUME Schema = MessageTypes, Promise
  PROVE  MessagesInv /\ [Next]_vars => MessagesInv'
<1> SUFFICES ASSUME MessagesInv, [Next]_vars PROVE MessagesInv'
  OBVIOUS
<1>1. ASSUME NEW u \in Users, NEW s \in Scalars, NEW c \in Calls, GenerateCCTX(u, c, s)
      PROVE  MessagesInv'
  BY <1>1, GenerateCCTXKeeps
<1>2. ASSUME NEW u \in Users, NEW s \in Scalars, NEW c \in Calls,
             GenerateInstantiateCCTX(u, c, s)
      PROVE  MessagesInv'
  BY <1>2, InstantiateKeeps
<1>3. ASSUME NEW u \in Users, NEW s \in Scalars, NEW c \in Calls,
             InstallChaincode(u, c, s)
      PROVE  MessagesInv'
  BY <1>3, InstallKeeps
<1>4. ASSUME NEW u \in Users, NEW s \in Scalars, NEW c \in Calls,
             QueryChaincodes(u, c, s)
      PROVE  MessagesInv'
  BY <1>4, QueryKeeps
<1>5. ASSUME NEW u \in Users, NEW s \in Scalars, JoinChannel(u, s)
      PROVE  MessagesInv'
  BY <1>5, JoinKeeps
<1>6. ASSUME NEW u \in Users, NEW s \in Scalars, NEW t \in Scalars, CreateChannel(u, s, t)
      PROVE  MessagesInv'
  BY <1>6, CreateKeeps
<1>7. ASSUME NEW u \in Users, NEW s \in Scalars, NEW k \in Seeks, StreamBlocks(u, k, s)
      PROVE  MessagesInv'
  BY <1>7, StreamKeeps
<1>8. ASSUME NEW n \in DOMAIN txs, ProposeTX(n)
      PROVE  MessagesInv'
  BY <1>8, ProposeKeeps
<1>9. ASSUME NEW n \in DOMAIN txs, NEW s \in Scalars, CommitTX(n, s)
      PROVE  MessagesInv'
  BY <1>9, CommitKeeps
<1>10. ASSUME NEW to \in Streams, NEW e, NEW number \in 0..1, NEW codes,
              ReceiveBlock(to, number, <<e>>, codes)
       PROVE  MessagesInv'
  <2>1. PICK entries : entries = <<e>>
    OBVIOUS
  <2>2. IsList(entries) /\ ReceiveBlock(to, number, entries, codes)
    BY <1>10, <2>1, Listed
  <2> QED
    BY <2>2, ReceiveKeeps
<1>11. CASE UNCHANGED vars
  <2>1. txs' = txs /\ wire' = wire /\ delivered' = delivered
    BY <1>11 DEF vars
  <2>2. TxsKept
    BY <2>1 DEF TxsKept
  <2>3. WireBuilt'
    BY <2>1, <2>2, WireKept DEF MessagesInv
  <2> QED
    BY <2>1, <2>3 DEF MessagesInv, TxsWhole, BlockWhole
<1> QED
  BY <1>1, <1>2, <1>3, <1>4, <1>5, <1>6, <1>7, <1>8, <1>9, <1>10, <1>11, Zenon DEF Next

\* If google.protobuf keeps its promise, then the peers accept every proposal and
\* the orderers every envelope for Broadcast that the client has built, signed
\* and serialised, with whatever users, arguments, peers and nonces, and in
\* whatever order.  The requests for streams have the wrong type and are not
\* among them (SeeksAccepted).
THEOREM RequestsAccepted ==
  ASSUME Schema = MessageTypes, Promise
  PROVE  Spec => []WireAccepted
<1>1. MessagesInv => WireAccepted
  BY AllRight
<1> QED
  BY <1>1, InitRight, NextKeeps, PTL DEF Spec

\* And they can parse every request, those for streams included, and read in it
\* what the caller asked for.
THEOREM RequestsAsAsked ==
  ASSUME Schema = MessageTypes, Promise
  PROVE  Spec => []ReceivedAsAsked
<1>1. MessagesInv => ReceivedAsAsked
  BY AllRight
<1> QED
  BY <1>1, InitRight, NextKeeps, PTL DEF Spec

\* The transient map of a call gets to the peers and to nobody else: the
\* envelope for the orderers is built from the proposal without it.
THEOREM TransientKept ==
  ASSUME Schema = MessageTypes, Promise
  PROVE  Spec => []TransientOnlyToPeers
<1>1. MessagesInv => TransientOnlyToPeers
  BY AllRight
<1> QED
  BY <1>1, InitRight, NextKeeps, PTL DEF Spec

-----------------------------------------------------------------------------

\* The blocks that the client is streamed.  The types of the messages in a block
\* and in the responses of Deliver.
LEMMA LastConfigReads ==
  ASSUME Schema = MessageTypes, Promise, NEW x \in Nat, NEW m,
         m = New("LastConfig", [index |-> x])
  PROVE  Reads("LastConfig", m) /\ m.index = x
<1> DEFINE values == [index |-> x]
<1>1. /\ values = [f \in DOMAIN values |-> values[f]] /\ DOMAIN values = {"index"}
      /\ values["index"] = x
  OBVIOUS
<1>2. Fields("LastConfig") = LastConfig /\ "LastConfig" \in DOMAIN Schema
  BY DEF MessageTypes, Fields
<1>3. Simple("LastConfig")
  BY <1>2, PlainFields DEF Simple, LastConfig
<1>4. DOMAIN values \subseteq DOMAIN LastConfig /\ Suits(LastConfig["index"], x)
  BY <1>1, VarintSuits DEF LastConfig
<1> HIDE DEF values
<1> QED
  BY <1>1, <1>2, <1>3, <1>4, SimpleReads DEF values

LEMMA MetadataSignatureReads ==
  ASSUME Schema = MessageTypes, Promise, NEW x, NEW y, NEW m,
         m = New("MetadataSignature", [signature_header |-> x, signature |-> y])
  PROVE  Reads("MetadataSignature", m) /\ m.signature_header = x /\ m.signature = y
<1> DEFINE values == [signature_header |-> x, signature |-> y]
<1>1. /\ values = [f \in DOMAIN values |-> values[f]]
      /\ DOMAIN values = {"signature_header", "signature"}
      /\ values["signature_header"] = x /\ values["signature"] = y
  OBVIOUS
<1>2. /\ Fields("MetadataSignature") = MetadataSignature
      /\ "MetadataSignature" \in DOMAIN Schema
  BY DEF MessageTypes, Fields
<1>3. Simple("MetadataSignature")
  BY <1>2, PlainFields DEF Simple, MetadataSignature
<1>4. /\ DOMAIN values \subseteq DOMAIN MetadataSignature
      /\ Suits(MetadataSignature["signature_header"], x)
      /\ Suits(MetadataSignature["signature"], y)
  BY <1>1, BytesField DEF MetadataSignature
<1> HIDE DEF values
<1> QED
  BY <1>1, <1>2, <1>3, <1>4, SimpleReads DEF values

LEMMA MetadataReads ==
  ASSUME Schema = MessageTypes, Promise, NEW x, NEW y, NEW m,
         IsListOf("MetadataSignature", y),
         m = New("Metadata", [value |-> x, signatures |-> y])
  PROVE  Reads("Metadata", m) /\ m.value = x /\ m.signatures = y
<1> DEFINE values == [value |-> x, signatures |-> y]
<1>1. /\ values = [f \in DOMAIN values |-> values[f]]
      /\ DOMAIN values = {"value", "signatures"} /\ values["value"] = x
      /\ values["signatures"] = y
  OBVIOUS
<1>2. Fields("Metadata") = Metadata /\ "Metadata" \in DOMAIN Schema
  BY DEF MessageTypes, Fields
<1>3. Simple("Metadata")
  BY <1>2, PlainFields DEF Simple, Metadata
<1>4. /\ DOMAIN values \subseteq DOMAIN Metadata /\ Suits(Metadata["value"], x)
      /\ Suits(Metadata["signatures"], y)
  BY <1>1, BytesField, MessagesSuits DEF Metadata
<1> HIDE DEF values
<1> QED
  BY <1>1, <1>2, <1>3, <1>4, SimpleReads DEF values

LEMMA FilteredBlockReads ==
  ASSUME Schema = MessageTypes, Promise, NEW x, NEW y \in Nat, NEW z, NEW m, IsStr(x),
         IsListOf("FilteredTransaction", z),
         m = New("FilteredBlock", [channel_id |-> x, number |-> y, filtered_transactions |-> z])
  PROVE  /\ Reads("FilteredBlock", m) /\ m.channel_id = x /\ m.number = y
         /\ m.filtered_transactions = z
<1> DEFINE values == [channel_id |-> x, number |-> y, filtered_transactions |-> z]
<1>1. /\ values = [f \in DOMAIN values |-> values[f]]
      /\ DOMAIN values = {"channel_id", "number", "filtered_transactions"}
      /\ values["channel_id"] = x /\ values["number"] = y
      /\ values["filtered_transactions"] = z
  OBVIOUS
<1>2. Fields("FilteredBlock") = FilteredBlock /\ "FilteredBlock" \in DOMAIN Schema
  BY DEF MessageTypes, Fields
<1>3. Simple("FilteredBlock")
  BY <1>2, PlainFields DEF Simple, FilteredBlock
<1>4. /\ DOMAIN values \subseteq DOMAIN FilteredBlock
      /\ Suits(FilteredBlock["channel_id"], x) /\ Suits(FilteredBlock["number"], y)
      /\ Suits(FilteredBlock["filtered_transactions"], z)
  BY <1>1, MessagesSuits, StringSuits, VarintSuits DEF FilteredBlock
<1> HIDE DEF values
<1> QED
  BY <1>1, <1>2, <1>3, <1>4, SimpleReads DEF values

LEMMA ConfigReads ==
  ASSUME Schema = MessageTypes, Promise, NEW x \in Nat, NEW y, NEW m,
         IsMessage("ConfigGroup", y),
         m = New("Config", [sequence |-> x, channel_group |-> y])
  PROVE  Reads("Config", m) /\ m.sequence = x /\ m.channel_group = y
<1> DEFINE values == [sequence |-> x, channel_group |-> y]
<1>1. /\ values = [f \in DOMAIN values |-> values[f]]
      /\ DOMAIN values = {"sequence", "channel_group"} /\ values["sequence"] = x
      /\ values["channel_group"] = y
  OBVIOUS
<1>2. Fields("Config") = Config /\ "Config" \in DOMAIN Schema
  BY DEF MessageTypes, Fields
<1>3. Simple("Config")
  BY <1>2, PlainFields DEF Simple, Config
<1>4. /\ DOMAIN values \subseteq DOMAIN Config /\ Suits(Config["sequence"], x)
      /\ Suits(Config["channel_group"], y)
  BY <1>1, MessageSuits, VarintSuits DEF Config
<1> HIDE DEF values
<1> QED
  BY <1>1, <1>2, <1>3, <1>4, SimpleReads DEF values

LEMMA FirstConfigReads ==
  ASSUME Schema = MessageTypes, Promise, NEW x, NEW m, IsMessage("Config", x),
         m = New("ConfigEnvelope", [config |-> x])
  PROVE  Reads("ConfigEnvelope", m) /\ m.config = x
<1> DEFINE values == [config |-> x]
<1>1. /\ values = [f \in DOMAIN values |-> values[f]] /\ DOMAIN values = {"config"}
      /\ values["config"] = x
  OBVIOUS
<1>2. Fields("ConfigEnvelope") = ConfigEnvelope /\ "ConfigEnvelope" \in DOMAIN Schema
  BY DEF MessageTypes, Fields
<1>3. Simple("ConfigEnvelope")
  BY <1>2, PlainFields DEF Simple, ConfigEnvelope
<1>4. /\ DOMAIN values \subseteq DOMAIN ConfigEnvelope
      /\ Suits(ConfigEnvelope["config"], x)
  BY <1>1, MessageSuits DEF ConfigEnvelope
<1> HIDE DEF values
<1> QED
  BY <1>1, <1>2, <1>3, <1>4, SimpleReads DEF values

LEMMA ConfigEnvelopeReads ==
  ASSUME Schema = MessageTypes, Promise, NEW x, NEW y, NEW m, IsMessage("Config", x),
         IsMessage("Envelope", y),
         m = New("ConfigEnvelope", [config |-> x, last_update |-> y])
  PROVE  Reads("ConfigEnvelope", m) /\ m.config = x /\ m.last_update = y
<1> DEFINE values == [config |-> x, last_update |-> y]
<1>1. /\ values = [f \in DOMAIN values |-> values[f]]
      /\ DOMAIN values = {"config", "last_update"} /\ values["config"] = x
      /\ values["last_update"] = y
  OBVIOUS
<1>2. Fields("ConfigEnvelope") = ConfigEnvelope /\ "ConfigEnvelope" \in DOMAIN Schema
  BY DEF MessageTypes, Fields
<1>3. Simple("ConfigEnvelope")
  BY <1>2, PlainFields DEF Simple, ConfigEnvelope
<1>4. /\ DOMAIN values \subseteq DOMAIN ConfigEnvelope
      /\ Suits(ConfigEnvelope["config"], x) /\ Suits(ConfigEnvelope["last_update"], y)
  BY <1>1, MessageSuits DEF ConfigEnvelope
<1> HIDE DEF values
<1> QED
  BY <1>1, <1>2, <1>3, <1>4, SimpleReads DEF values

LEMMA CreatorReads ==
  ASSUME Schema = MessageTypes, Promise, NEW x, NEW m,
         m = New("SignatureHeader", [creator |-> x])
  PROVE  Reads("SignatureHeader", m) /\ m.creator = x
<1> DEFINE values == [creator |-> x]
<1>1. /\ values = [f \in DOMAIN values |-> values[f]] /\ DOMAIN values = {"creator"}
      /\ values["creator"] = x
  OBVIOUS
<1>2. Fields("SignatureHeader") = SignatureHeader /\ "SignatureHeader" \in DOMAIN Schema
  BY DEF MessageTypes, Fields
<1>3. Simple("SignatureHeader")
  BY <1>2, PlainFields DEF Simple, SignatureHeader
<1>4. /\ DOMAIN values \subseteq DOMAIN SignatureHeader
      /\ Suits(SignatureHeader["creator"], x)
  BY <1>1, BytesField DEF SignatureHeader
<1> HIDE DEF values
<1> QED
  BY <1>1, <1>2, <1>3, <1>4, SimpleReads DEF values

LEMMA TypedHeaderReads ==
  ASSUME Schema = MessageTypes, Promise, NEW x \in Nat, NEW y, NEW m, IsStr(y),
         m = New("ChannelHeader", [type |-> x, channel_id |-> y])
  PROVE  Reads("ChannelHeader", m) /\ m.type = x /\ m.channel_id = y
<1> DEFINE values == [type |-> x, channel_id |-> y]
<1>1. /\ values = [f \in DOMAIN values |-> values[f]]
      /\ DOMAIN values = {"type", "channel_id"} /\ values["type"] = x
      /\ values["channel_id"] = y
  OBVIOUS
<1>2. Fields("ChannelHeader") = ChannelHeader /\ "ChannelHeader" \in DOMAIN Schema
  BY DEF MessageTypes, Fields
<1>3. Simple("ChannelHeader")
  BY <1>2, PlainFields DEF Simple, ChannelHeader
<1>4. /\ DOMAIN values \subseteq DOMAIN ChannelHeader /\ Suits(ChannelHeader["type"], x)
      /\ Suits(ChannelHeader["channel_id"], y)
  BY <1>1, StringSuits, VarintSuits DEF ChannelHeader
<1> HIDE DEF values
<1> QED
  BY <1>1, <1>2, <1>3, <1>4, SimpleReads DEF values

-----------------------------------------------------------------------------

\* An empty message, which is what no bytes are parsed to.
LEMMA EmptyReads ==
  ASSUME Promise, NEW type, Simple(type), NEW none, none = <<>>
  PROVE  /\ IsMessage(type, New(type, none))
         /\ WellFormed(type, none) /\ FromString(type, none) = New(type, none)
<1>1. DOMAIN none = {} /\ none = [f \in DOMAIN none |-> none[f]]
  <2>1. DOMAIN <<>> = {} /\ <<>> = [f \in DOMAIN <<>> |-> <<>>[f]]
    OBVIOUS
  <2> QED
    BY <2>1
<1>2. Reads(type, New(type, none))
  BY <1>1, SimpleReads
<1>3. SerializeToString(type, New(type, none)) = none
  BY Zenon DEF Promise, EmptyMessage, Simple
<1> QED
  BY <1>2, <1>3 DEF Reads

\* A field that is not set has its default, or is not there.
LEMMA Unset ==
  ASSUME NEW type, NEW values, NEW f \in DOMAIN Fields(type), f \notin DOMAIN values, NEW m,
         m = New(type, values)
  PROVE  /\ HasDefault(Fields(type)[f]) => m[f] = Default(Fields(type)[f])
         /\ ~HasDefault(Fields(type)[f]) => f \notin DOMAIN m
  BY DEF New, With, Defaults

LEMMA DefaultsOf ==
  ASSUME NEW n, NEW t
  PROVE  /\ HasDefault(Bytes(n)) /\ Default(Bytes(n)) = <<>>
         /\ HasDefault(String(n)) /\ Default(String(n)) = <<>>
         /\ HasDefault(Repeated(Message(n, t))) /\ Default(Repeated(Message(n, t))) = <<>>
         /\ ~HasDefault(Message(n, t)) /\ Message(n, t).of = t
         /\ ~HasDefault(OneOf("Data", Message(n, t)))
<1>1. /\ HasDefault(Bytes(n)) /\ HasDefault(String(n)) /\ HasDefault(Repeated(Message(n, t)))
      /\ ~HasDefault(Message(n, t)) /\ Message(n, t).of = t
      /\ ~HasDefault(OneOf("Data", Message(n, t)))
  BY DEF HasDefault, Bytes, String, Repeated, Message, OneOf, Scalar, Field
<1>2. /\ Bytes(n).kind = "bytes" /\ String(n).kind = "string"
      /\ Repeated(Message(n, t)).label = "repeated"
  BY DEF Bytes, String, Repeated, Message, Scalar, Field
<1> QED
  BY <1>1, <1>2 DEF Default

LEMMA Layers ==
  ASSUME Schema = MessageTypes
  PROVE  /\ Simple("Envelope") /\ Simple("Payload") /\ Simple("Header")
         /\ Simple("ChannelHeader") /\ Simple("SignatureHeader")
         /\ Simple("SerializedIdentity") /\ Simple("ConfigUpdateEnvelope")
         /\ Simple("ConfigUpdate") /\ Simple("ConfigGroup")
<1>1. /\ Fields("Envelope") = Envelope /\ Fields("Payload") = Payload
      /\ Fields("Header") = Header /\ Fields("ChannelHeader") = ChannelHeader
      /\ Fields("SignatureHeader") = SignatureHeader
      /\ Fields("SerializedIdentity") = SerializedIdentity
      /\ Fields("ConfigUpdateEnvelope") = ConfigUpdateEnvelope
      /\ Fields("ConfigUpdate") = ConfigUpdate /\ Fields("ConfigGroup") = ConfigGroup
      /\ {"Envelope", "Payload", "Header", "ChannelHeader", "SignatureHeader",
          "SerializedIdentity", "ConfigUpdateEnvelope", "ConfigUpdate", "ConfigGroup"}
            \subseteq DOMAIN Schema
  BY DEF MessageTypes, Fields
<1>2. Simple("Envelope") /\ Simple("Header") /\ Simple("SignatureHeader")
  BY <1>1, PlainFields DEF Simple, Envelope, Header, SignatureHeader
<1>3. Simple("Payload")
  BY <1>1, PlainFields DEF Simple, Payload
<1>4. Simple("ChannelHeader")
  BY <1>1, PlainFields DEF Simple, ChannelHeader
<1>5. Simple("SerializedIdentity")
  BY <1>1, PlainFields DEF Simple, SerializedIdentity
<1>6. Simple("ConfigUpdateEnvelope")
  BY <1>1, PlainFields DEF Simple, ConfigUpdateEnvelope
<1>7. Simple("ConfigUpdate")
  BY <1>1, PlainFields DEF Simple, ConfigUpdate
<1>8. Simple("ConfigGroup")
  BY <1>1, PlainFields DEF Simple, ConfigGroup
<1> QED
  BY <1>2, <1>3, <1>4, <1>5, <1>6, <1>7, <1>8

\* Of an empty message every layer is empty again.
LEMMA EmptyLayers ==
  ASSUME Schema = MessageTypes, NEW none, none = <<>>
  PROVE  /\ New("Envelope", none).payload = none
         /\ New("Envelope", none).signature = none
         /\ Sub("Payload", New("Payload", none), "header") = New("Header", none)
         /\ New("Payload", none).data = none
         /\ New("Header", none).channel_header = none
         /\ New("Header", none).signature_header = none
         /\ New("SignatureHeader", none).creator = none
         /\ New("ConfigUpdateEnvelope", none).config_update = none
         /\ New("ConfigUpdateEnvelope", none).signatures = none
<1>1. DOMAIN none = {}
  OBVIOUS
<1>2. /\ Fields("Envelope") = Envelope /\ Fields("Payload") = Payload
      /\ Fields("Header") = Header /\ Fields("SignatureHeader") = SignatureHeader
      /\ Fields("ConfigUpdateEnvelope") = ConfigUpdateEnvelope
  BY DEF MessageTypes, Fields
<1>3. /\ "payload" \in DOMAIN Envelope /\ Envelope["payload"] = Bytes(1)
      /\ "signature" \in DOMAIN Envelope /\ Envelope["signature"] = Bytes(2)
      /\ "header" \in DOMAIN Payload /\ Payload["header"] = Message(1, "Header")
      /\ "data" \in DOMAIN Payload /\ Payload["data"] = Bytes(2)
      /\ "channel_header" \in DOMAIN Header /\ Header["channel_header"] = Bytes(1)
      /\ "signature_header" \in DOMAIN Header /\ Header["signature_header"] = Bytes(2)
      /\ "creator" \in DOMAIN SignatureHeader /\ SignatureHeader["creator"] = Bytes(1)
  BY DEF Envelope, Payload, Header, SignatureHeader
<1>4. /\ "config_update" \in DOMAIN ConfigUpdateEnvelope
      /\ ConfigUpdateEnvelope["config_update"] = Bytes(1)
      /\ "signatures" \in DOMAIN ConfigUpdateEnvelope
      /\ ConfigUpdateEnvelope["signatures"] = Repeated(Message(2, "ConfigSignature"))
  BY DEF ConfigUpdateEnvelope
<1>5. /\ New("Envelope", none).payload = none /\ New("Envelope", none).signature = none
      /\ New("Payload", none).data = none
  BY <1>1, <1>2, <1>3, Unset, DefaultsOf
<1>6. New("Header", none).channel_header = none /\ New("Header", none).signature_header = none
  BY <1>1, <1>2, <1>3, Unset, DefaultsOf
<1>7. New("SignatureHeader", none).creator = none
  BY <1>1, <1>2, <1>3, Unset, DefaultsOf
<1>8. /\ New("ConfigUpdateEnvelope", none).config_update = none
      /\ New("ConfigUpdateEnvelope", none).signatures = none
  BY <1>1, <1>2, <1>4, Unset, DefaultsOf
<1>9. Sub("Payload", New("Payload", none), "header") = New("Header", none)
  <2>1. "header" \notin DOMAIN New("Payload", none)
    BY <1>1, <1>2, <1>3, Unset, DefaultsOf
  <2> QED
    BY <1>2, <1>3, <2>1, DefaultsOf DEF Sub, Has
<1> QED
  BY <1>5, <1>6, <1>7, <1>8, <1>9

-----------------------------------------------------------------------------

\* Whatever can be authenticated can be decoded.
LEMMA AuthenticDecodes ==
  ASSUME NEW header, NEW bytes, NEW signature, Authentic(header, bytes, signature)
  PROVE  DecodesHeader(header) /\ signature # <<>>
<1>1. DecodesHeader(header) /\ Len(signature) = 1
  BY DEF Authentic, SignedBy, DecodesHeader, DecodesSignatureHeader
<1>2. Len(<<>>) = 0
  OBVIOUS
<1> QED
  BY <1>1, <1>2

\* An envelope of somebody else: its layers decode to what they were made of.
LEMMA OtherEnvelope ==
  ASSUME Schema = MessageTypes, Promise, NEW node, NEW ch, Reads("ChannelHeader", ch),
         NEW bytes, NEW e, e = SignedEnvelope(node, ch, bytes),
         NEW envelope, envelope = FromString("Envelope", e),
         NEW payload, payload = FromString("Payload", envelope.payload),
         NEW header, header = Sub("Payload", payload, "header")
  PROVE  /\ WellFormed("Envelope", e) /\ WellFormed("Payload", envelope.payload)
         /\ DecodesHeader(header) /\ payload.data = bytes
         /\ FromString("ChannelHeader", header.channel_header) = ch
<1>1. PICK sh, shBytes, chBytes, h :
         /\ sh = New("SignatureHeader", [creator |-> IdentityOf(node)])
         /\ shBytes = SerializeToString("SignatureHeader", sh)
         /\ chBytes = SerializeToString("ChannelHeader", ch)
         /\ h = New("Header", [channel_header |-> chBytes, signature_header |-> shBytes])
  OBVIOUS
<1>2. Reads("SignatureHeader", sh) /\ sh.creator = IdentityOf(node)
  BY <1>1, CreatorReads
<1>3. Reads("Header", h) /\ h.channel_header = chBytes /\ h.signature_header = shBytes
  BY <1>1, HeaderReads
<1>4. PICK p, pBytes, signature, m :
         /\ p = New("Payload", [header |-> h, data |-> bytes])
         /\ pBytes = SerializeToString("Payload", p)
         /\ signature = Opaque("signature", Sign(node, pBytes, 1))
         /\ m = New("Envelope", [payload |-> pBytes, signature |-> signature])
  OBVIOUS
<1>5. Reads("Payload", p) /\ p.header = h /\ p.data = bytes
  BY <1>3, <1>4, PayloadReads DEF Reads
<1>6. Reads("Envelope", m) /\ m.payload = pBytes
  BY <1>4, EnvelopeReads
<1>7. e = SerializeToString("Envelope", m)
  BY <1>1, <1>4, Zenon DEF SignedEnvelope
<1>8. "header" \in DOMAIN p
  BY <1>4 DEF New, With
<1>9. envelope = m /\ payload = p /\ header = h
  BY <1>4, <1>5, <1>6, <1>7, <1>8 DEF Reads, Sub, Has
<1>10. DecodesHeader(h)
  BY <1>1, <1>2, <1>3, NodeSigned DEF DecodesHeader, DecodesSignatureHeader, Reads
<1> QED
  BY <1>1, <1>3, <1>4, <1>5, <1>6, <1>7, <1>9, <1>10 DEF Reads

\* The config envelopes: the last update is the one it was made of, or, if there
\* was none, empty down to its last layer.
LastUpdateIn(bytes) ==
    Sub("ConfigEnvelope", FromString("ConfigEnvelope", bytes), "last_update")

LEMMA NewConfig ==
  ASSUME Schema = MessageTypes, Promise, NEW config,
         config = New("Config", [sequence |-> 1, channel_group |-> New("ConfigGroup", <<>>)])
  PROVE  IsMessage("Config", config)
<1>1. PICK one, none, group : one = 1 /\ none = <<>> /\ group = New("ConfigGroup", none)
  OBVIOUS
<1>2. one \in Nat /\ IsMessage("ConfigGroup", group)
  BY <1>1, EmptyReads, Layers
<1>3. config = New("Config", [sequence |-> one, channel_group |-> group])
  BY <1>1
<1> QED
  BY <1>2, <1>3, ConfigReads DEF Reads

LEMMA FirstConfigDecodes ==
  ASSUME Schema = MessageTypes, Promise, NEW none, none = <<>>
  PROVE  DecodesConfig(ConfigBytes(none))
<1>1. PICK config, m :
         /\ config = New("Config", [sequence |-> 1, channel_group |-> New("ConfigGroup", <<>>)])
         /\ m = New("ConfigEnvelope", [config |-> config])
  OBVIOUS
<1>2. Reads("ConfigEnvelope", m)
  BY <1>1, NewConfig, FirstConfigReads
<1>3. ConfigBytes(none) = SerializeToString("ConfigEnvelope", m)
  BY <1>1 DEF ConfigBytes
<1>4. /\ Fields("ConfigEnvelope") = ConfigEnvelope
      /\ "last_update" \in DOMAIN ConfigEnvelope
      /\ ConfigEnvelope["last_update"] = Message(2, "Envelope")
  BY DEF MessageTypes, Fields, ConfigEnvelope
<1>5. "last_update" \notin DOMAIN m
  <2>1. PICK values : values = [config |-> config]
    OBVIOUS
  <2>2. "last_update" \notin DOMAIN values
    BY <2>1
  <2> QED
    BY <1>1, <1>4, <2>1, <2>2, Unset, DefaultsOf
<1>6. Sub("ConfigEnvelope", m, "last_update") = New("Envelope", none)
  BY <1>4, <1>5, DefaultsOf DEF Sub, Has
<1>7. /\ WellFormed("Payload", none) /\ FromString("Payload", none) = New("Payload", none)
      /\ WellFormed("ChannelHeader", none) /\ WellFormed("SerializedIdentity", none)
      /\ WellFormed("SignatureHeader", none)
      /\ FromString("SignatureHeader", none) = New("SignatureHeader", none)
      /\ WellFormed("ConfigUpdate", none) /\ WellFormed("ConfigUpdateEnvelope", none)
      /\ FromString("ConfigUpdateEnvelope", none) = New("ConfigUpdateEnvelope", none)
  BY EmptyReads, Layers
<1>8. DecodesHeader(New("Header", none))
  BY <1>7, EmptyLayers DEF DecodesHeader, DecodesSignatureHeader
<1>9. DecodesConfigUpdateEnvelope(none)
  <2>1. DOMAIN none = {}
    OBVIOUS
  <2> QED
    BY <1>7, <2>1, EmptyLayers DEF DecodesConfigUpdateEnvelope
<1> QED
  BY <1>2, <1>3, <1>6, <1>7, <1>8, <1>9, EmptyLayers DEF DecodesConfig, Reads

LEMMA LastUpdateRead ==
  ASSUME Schema = MessageTypes, Promise, NEW m, Reads("Envelope", m), m.signature # <<>>,
         NEW bytes, bytes = SerializeToString("Envelope", m)
  PROVE  WellFormed("ConfigEnvelope", ConfigBytes(bytes)) /\ LastUpdateIn(ConfigBytes(bytes)) = m
<1>1. bytes # <<>>
  <2>1. PICK none : none = <<>>
    OBVIOUS
  <2>2. FromString("Envelope", none) = New("Envelope", none)
    BY <2>1, EmptyReads, Layers
  <2>3. New("Envelope", none).signature = none
    BY <2>1, EmptyLayers
  <2>4. FromString("Envelope", bytes) = m
    BY DEF Reads
  <2> QED
    BY <2>1, <2>2, <2>3, <2>4
<1>2. PICK config, envelope :
         /\ config = New("Config", [sequence |-> 1, channel_group |-> New("ConfigGroup", <<>>)])
         /\ envelope = New("ConfigEnvelope", [config |-> config, last_update |-> m])
  OBVIOUS
<1>3. Reads("ConfigEnvelope", envelope) /\ envelope.last_update = m
  BY <1>2, NewConfig, ConfigEnvelopeReads DEF Reads
<1>4. ConfigBytes(bytes) = SerializeToString("ConfigEnvelope", envelope)
  <2>1. FromString("Envelope", bytes) = m
    BY DEF Reads
  <2> QED
    BY <1>1, <1>2, <2>1 DEF ConfigBytes
<1>5. "last_update" \in DOMAIN envelope
  BY <1>2 DEF New, With
<1> QED
  BY <1>3, <1>4, <1>5 DEF LastUpdateIn, Sub, Has, Reads

-----------------------------------------------------------------------------

\* The header of an entry of a block, and an entry that can be shown to the
\* client, in a block or in a filtered one.
HeaderIn(e) ==
    LET payload == FromString("Payload", FromString("Envelope", e).payload)
    IN  FromString("ChannelHeader", Sub("Payload", payload, "header").channel_header)

Showable(e) == DecodesTX(e) /\ HeaderIn(e).type \in Nat /\ IsStr(HeaderIn(e).tx_id)

LEMMA ContextIdentity ==
  ASSUME Schema = MessageTypes, Promise, NEW user, NEW nonce
  PROVE  FromString("SerializedIdentity", IdentityOf(user))
            = TxContextFromUser(user, nonce).identity
<1>1. PICK name, cert, m : /\ name = Text("MSP") /\ cert = Opaque("cert", user)
                           /\ m = New("SerializedIdentity", [mspid |-> name, id_bytes |-> cert])
  OBVIOUS
<1>2. Reads("SerializedIdentity", m)
  BY <1>1, TextIsStr, SerializedIdentityReads
<1>3. IdentityOf(user) = SerializeToString("SerializedIdentity", m)
  BY <1>1 DEF IdentityOf
<1>4. TxContextFromUser(user, nonce).identity = m
  BY <1>1 DEF TxContextFromUser
<1> QED
  BY <1>2, <1>3, <1>4 DEF Reads

\* What the client finds of a transaction in its decoded form.
FoundIn(decoded, gen, args) ==
    LET payload == decoded.payload
        action == payload.data.actions[1].payload
        Endorsers == action.action.endorsements
    IN  /\ payload.header.channel_header.tx_id = gen.tx_context.tx_id
        /\ payload.header.signature_header.creator = gen.tx_context.identity
        /\ ChaincodeOf(action.chaincode_proposal_payload).input.args = args
        /\ [i \in DOMAIN Endorsers |-> Endorsers[i].endorser.id_bytes]
              = [i \in DOMAIN Peers |-> Opaque("cert", Peers[i])]

\* One action, with the peers' endorsements.
LEMMA ActionDecodes ==
  ASSUME Schema = MessageTypes, Promise, NEW m, NEW gen, NEW taction, NEW action,
         Carries(m, gen, taction, action), NEW ccName, NEW args, IsList(args),
         gen.proposal = BuildProposal(gen.header, Invocation(ccName, args), <<>>),
         Reads("Header", gen.header), DecodesSignatureHeader(gen.header.signature_header),
         IsList(EndorsementsOf(action)), Len(EndorsementsOf(action)) = Len(Peers),
         \A i \in DOMAIN Peers : IsFrom(EndorsementsOf(action)[i], Peers[i], gen),
         NEW decoded, decoded = DecodeTransactionAction(taction).payload
  PROVE  /\ DecodesTransactionAction(taction)
         /\ ChaincodeOf(decoded.chaincode_proposal_payload).input.args = args
         /\ [i \in DOMAIN decoded.action.endorsements |->
                decoded.action.endorsements[i].endorser.id_bytes]
               = [i \in DOMAIN Peers |-> Opaque("cert", Peers[i])]
<1>1. PICK endorsed, list : /\ endorsed = Sub("ChaincodeActionPayload", action, "action")
                            /\ list = endorsed.endorsements
  OBVIOUS
<1>2. /\ WellFormed("ChaincodeActionPayload", taction.payload)
      /\ FromString("ChaincodeActionPayload", taction.payload) = action
      /\ taction.header = gen.header.signature_header
      /\ action.chaincode_proposal_payload = gen.proposal.payload
      /\ endorsed.proposal_response_payload = ResponseBytes(gen)
  BY <1>1 DEF Carries
<1>3. list = EndorsementsOf(action) /\ DOMAIN list = DOMAIN Peers
  BY <1>1, PeersAreListed DEF EndorsementsOf, IsList
<1>4. \A i \in DOMAIN Peers :
         /\ WellFormed("SerializedIdentity", list[i].endorser)
         /\ FromString("SerializedIdentity", list[i].endorser).id_bytes
               = Opaque("cert", Peers[i])
  BY <1>3, NodeSigned DEF IsFrom
<1>5. PICK input, none, proposal :
         /\ input = Invocation(ccName, args) /\ none = <<>> /\ proposal = gen.proposal
  OBVIOUS
<1>6. /\ WellFormed("ChaincodeProposalPayload", proposal.payload)
      /\ FromString("ChaincodeProposalPayload", proposal.payload) = PayloadWith(input, none)
  BY <1>5, NoTransientSuits, ProposalBuilt
<1>7. PICK kept : kept = PayloadWith(input, none)
  OBVIOUS
<1>8. kept.input = input
  BY <1>7, PayloadIs
<1>9. PICK spec : spec = Called(ccName, args)
  OBVIOUS
<1>10. ChaincodeOf(kept) = spec /\ spec.input.args = args
  BY <1>5, <1>8, <1>9, CalledReads DEF Sub, Has
<1>11. DecodesTransactionAction(taction)
  BY <1>1, <1>2, <1>3, <1>4, <1>5, <1>6, ResponseBytesRead DEF DecodesTransactionAction
<1>12. PICK response, endorsements :
          /\ response = FromString("ProposalResponsePayload",
                                   endorsed.proposal_response_payload)
          /\ endorsements = [i \in DOMAIN list |->
                               [endorser |-> FromString("SerializedIdentity",
                                                        list[i].endorser),
                                signature |-> list[i].signature]]
  OBVIOUS
<1>13. decoded = [action |-> [proposal_response_payload |-> response,
                              endorsements |-> endorsements],
                  chaincode_proposal_payload |-> kept]
  <2>1. FromString("ChaincodeProposalPayload", action.chaincode_proposal_payload) = kept
    BY <1>2, <1>5, <1>6, <1>7
  <2>2. PICK header, all : 
           /\ all = [action |-> [proposal_response_payload |-> response,
                                 endorsements |-> endorsements],
                     chaincode_proposal_payload |-> kept]
           /\ DecodeTransactionAction(taction) = [header |-> header, payload |-> all]
    BY <1>1, <1>2, <1>12, <2>1 DEF DecodeTransactionAction
  <2> QED
    BY <2>2
<1>14. /\ decoded.chaincode_proposal_payload = kept
       /\ decoded.action.endorsements = endorsements
  BY <1>13
<1>15. /\ DOMAIN endorsements = DOMAIN Peers
       /\ \A i \in DOMAIN Peers : endorsements[i].endorser.id_bytes = Opaque("cert", Peers[i])
  BY <1>3, <1>4, <1>12
<1> QED
  BY <1>10, <1>11, <1>14, <1>15

\* The type of a transaction is known to the decoder.
LEMMA KnownTypes ==
  /\ \A t \in DOMAIN HeaderType : HeaderType[t] \in Nat /\ IsTransactionType(HeaderType[t])
  /\ HeaderType.CONFIG = TransactionType.Config
  /\ HeaderType.ENDORSER_TRANSACTION = TransactionType.EndorserTransaction
  /\ TransactionType.EndorserTransaction \notin {TransactionType.Config,
                                                 TransactionType.ConfigUpdate}
  /\ TransactionType.Config # TransactionType.ConfigUpdate
  /\ \A t \in DOMAIN HeaderType \ {"CONFIG", "CONFIG_UPDATE", "ENDORSER_TRANSACTION"} :
        HeaderType[t] \notin {TransactionType.Config, TransactionType.ConfigUpdate,
                              TransactionType.EndorserTransaction}
  BY DEF HeaderType, TransactionType, IsTransactionType

\* A transaction of the client, in a block: all of it decodes, and the client
\* finds what it had sent.
LEMMA TransactionShown ==
  ASSUME Schema = MessageTypes, Promise, NEW user, NEW nonce, NEW ccName, NEW args,
         NEW channel, NEW transient, Proper(args, channel, transient), NEW s \in Scalars,
         NEW gen, gen = BuildGeneratedTX(user, nonce, ccName, args, channel, transient, s),
         NEW t \in Scalars, NEW m, m = BuildEndorsedTXEnvelope(EndorsedTX(gen), user, t),
         NEW e, e = SerializeToString("Envelope", m)
  PROVE  /\ Showable(e) /\ HeaderIn(e).tx_id = gen.tx_context.tx_id
         /\ FoundIn(DecodeTX(e), gen, args)
<1>1. PICK taction, action :
         /\ Carries(m, gen, taction, action)
         /\ IsList(EndorsementsOf(action)) /\ Len(EndorsementsOf(action)) = Len(Peers)
         /\ \A i \in DOMAIN Peers : IsFrom(EndorsementsOf(action)[i], Peers[i], gen)
  BY TransactionBuilt
<1>2. Reads("Envelope", m) /\ m.signature = SignBytes(user, m.payload, t)
  BY TransactionBuilt
<1>3. PICK header, ch, payload, type :
         /\ header = gen.header /\ ch = FromString("ChannelHeader", gen.header.channel_header)
         /\ payload = FromString("Payload", m.payload) /\ type = ch.type
  OBVIOUS
<1>4. /\ Reads("Header", header) /\ type = HeaderType.ENDORSER_TRANSACTION
      /\ ch.tx_id = gen.tx_context.tx_id
      /\ header.signature_header = BuildSignatureHeader(gen.tx_context)
      /\ Authentic(header, m.payload, m.signature)
  BY <1>2, <1>3, GeneratedHeader DEF Proper
<1>5. DecodesHeader(header)
  BY <1>4, AuthenticDecodes
<1>6. /\ WellFormed("Envelope", e) /\ FromString("Envelope", e) = m
      /\ WellFormed("Payload", m.payload) /\ Sub("Payload", payload, "header") = header
      /\ WellFormed("Transaction", payload.data)
      /\ FromString("Transaction", payload.data).actions = <<taction>>
  BY <1>1, <1>2, <1>3 DEF Carries, Reads
<1>7. PICK decoded : decoded = DecodeTransactionAction(taction)
  OBVIOUS
<1>8. /\ DecodesTransactionAction(taction)
      /\ ChaincodeOf(decoded.payload.chaincode_proposal_payload).input.args = args
      /\ [i \in DOMAIN decoded.payload.action.endorsements |->
             decoded.payload.action.endorsements[i].endorser.id_bytes]
            = [i \in DOMAIN Peers |-> Opaque("cert", Peers[i])]
  <2>1. PICK inner : inner = decoded.payload
    OBVIOUS
  <2>2. gen.proposal = BuildProposal(gen.header, Invocation(ccName, args), <<>>)
    BY Generated
  <2>3. DecodesSignatureHeader(gen.header.signature_header) /\ IsList(args)
    BY <1>3, <1>5 DEF DecodesHeader, Proper
  <2>4. /\ DecodesTransactionAction(taction)
        /\ ChaincodeOf(inner.chaincode_proposal_payload).input.args = args
        /\ [i \in DOMAIN inner.action.endorsements |->
               inner.action.endorsements[i].endorser.id_bytes]
              = [i \in DOMAIN Peers |-> Opaque("cert", Peers[i])]
    BY <1>1, <1>3, <1>4, <1>7, <2>1, <2>2, <2>3, ActionDecodes
  <2> QED
    BY <2>1, <2>4
<1>9. PICK actions, body : /\ actions = [i \in {1} |-> decoded]
                           /\ body = [actions |-> actions]
  OBVIOUS
<1>10. DecodesTransactionBody(payload.data) /\ DecodeTransactionBody(payload.data) = body
  <2>1. PICK list : list = <<taction>>
    OBVIOUS
  <2>2. DOMAIN list = {1} /\ list[1] = taction
    BY <2>1, Singleton
  <2>3. FromString("Transaction", payload.data).actions = list
    BY <1>6, <2>1
  <2>4. DecodesTransactionBody(payload.data)
    BY <1>6, <1>8, <2>2, <2>3 DEF DecodesTransactionBody
  <2>5. [i \in DOMAIN list |-> DecodeTransactionAction(list[i])] = actions
    BY <1>7, <1>9, <2>2
  <2> QED
    BY <1>9, <2>3, <2>4, <2>5 DEF DecodeTransactionBody
<1>11. HeaderIn(e) = ch
  BY <1>3, <1>6 DEF HeaderIn
<1>12. IsStr(ch.tx_id)
  <2>1. PICK context : context = TxContextFromUser(user, nonce)
    OBVIOUS
  <2>2. gen.tx_context = context
    BY <2>1, Generated
  <2>3. context.tx_id = HexDigest(Opaque("nonce", nonce) \o IdentityOf(user))
    BY <2>1, ContextReads
  <2> QED
    BY <1>4, <2>2, <2>3, DigestIsStr
<1>13. type \in Nat /\ IsTransactionType(type) /\ type = TransactionType.EndorserTransaction
       /\ type # TransactionType.Config /\ type # TransactionType.ConfigUpdate
  <2>1. "ENDORSER_TRANSACTION" \in DOMAIN HeaderType
    BY DEF HeaderType
  <2> QED
    BY <1>4, <2>1, KnownTypes
<1>14. Showable(e)
  BY <1>3, <1>5, <1>6, <1>10, <1>11, <1>12, <1>13 DEF Showable, DecodesTX
<1>15. PICK dh : dh = DecodeHeader(header)
  OBVIOUS
<1>16. DecodeTX(e) = [signature |-> m.signature, payload |-> [header |-> dh, data |-> body]]
  <2>1. dh.channel_header.type = type
    BY <1>3, <1>15 DEF DecodeHeader
  <2> QED
    BY <1>3, <1>6, <1>10, <1>13, <1>15, <2>1 DEF DecodeTX
<1>17. /\ dh.channel_header = ch
       /\ dh.signature_header.creator = gen.tx_context.identity
  <2>1. PICK context : context = TxContextFromUser(user, nonce)
    OBVIOUS
  <2>2. gen.tx_context = context
    BY <2>1, Generated
  <2>3. FromString("SignatureHeader", header.signature_header).creator = IdentityOf(user)
    BY <1>4, <2>1, <2>2, ContextReads
  <2>4. dh.signature_header.creator = FromString("SerializedIdentity", IdentityOf(user))
    BY <1>15, <2>3 DEF DecodeHeader, DecodeSignatureHeader
  <2> QED
    BY <1>3, <1>15, <2>1, <2>2, <2>4, ContextIdentity DEF DecodeHeader
<1>18. DecodeTX(e).payload = [header |-> dh, data |-> body] /\ body.actions[1] = decoded
  BY <1>9, <1>16
<1>19. FoundIn(DecodeTX(e), gen, args)
  <2>1. PICK found, action1 : found = DecodeTX(e).payload /\ action1 = decoded.payload
    OBVIOUS
  <2>2. /\ found.header = dh /\ found.data.actions[1].payload = action1
    BY <1>18, <2>1
  <2>3. /\ found.header.channel_header.tx_id = gen.tx_context.tx_id
        /\ found.header.signature_header.creator = gen.tx_context.identity
    BY <1>4, <1>17, <2>2
  <2>4. /\ ChaincodeOf(action1.chaincode_proposal_payload).input.args = args
        /\ [i \in DOMAIN action1.action.endorsements |->
               action1.action.endorsements[i].endorser.id_bytes]
              = [i \in DOMAIN Peers |-> Opaque("cert", Peers[i])]
    BY <1>8, <2>1
  <2> QED
    BY <2>1, <2>2, <2>3, <2>4, Zenon DEF FoundIn
<1> QED
  BY <1>4, <1>11, <1>14, <1>19

-----------------------------------------------------------------------------

\* A config update of the client: what is in its envelope.
LEMMA UpdateBuilt ==
  ASSUME Schema = MessageTypes, Promise, NEW user, NEW nonce, NEW channel,
         EncodesProtoStr(channel), NEW update, WellFormed("ConfigUpdate", update),
         NEW s \in Scalars, NEW t \in Scalars, NEW m,
         m = BuildConfigUpdateEnvelope(channel, TxContextFromUser(user, nonce), user, update,
                                       s, t),
         NEW payload, payload = FromString("Payload", m.payload)
  PROVE  /\ Reads("Envelope", m) /\ m.signature # <<>> /\ WellFormed("Payload", m.payload)
         /\ DecodesHeader(Sub("Payload", payload, "header"))
         /\ DecodesConfigUpdateEnvelope(payload.data)
         /\ FromString("ConfigUpdateEnvelope", payload.data).config_update = update
<1>1. PICK sh : sh = BuildSignatureHeader(TxContextFromUser(user, nonce))
  OBVIOUS
<1>2. PICK signature, signed, none :
         /\ signature = SignBytes(user, sh \o update, s)
         /\ signed = New("ConfigSignature",
                         [signature_header |-> sh, signature |-> signature])
         /\ none = <<>>
  OBVIOUS
<1>3. Reads("ConfigSignature", signed) /\ signed.signature_header = sh
  BY <1>2, ConfigSignatureReads
<1>4. PICK all, inner, bytes, type :
         /\ all = <<signed>>
         /\ inner = New("ConfigUpdateEnvelope", [config_update |-> update, signatures |-> all])
         /\ bytes = SerializeToString("ConfigUpdateEnvelope", inner)
         /\ type = HeaderType.CONFIG_UPDATE
  OBVIOUS
<1>5. IsListOf("ConfigSignature", all)
  BY <1>3, <1>4, OneListed DEF Reads
<1>6. DOMAIN all = {1} /\ all[1] = signed
  BY <1>4, Singleton
<1>7. /\ Reads("ConfigUpdateEnvelope", inner)
      /\ inner.config_update = update /\ inner.signatures = all
  BY <1>4, <1>5, ConfigUpdateEnvelopeReads
<1>8. m = BuildEnvelope(user, TxContextFromUser(user, nonce), bytes, channel, none, type, t)
  BY <1>1, <1>2, <1>4, Zenon DEF BuildConfigUpdateEnvelope
<1>9. type \in Nat
  BY <1>4 DEF HeaderType
<1>10. PICK read, header, ch :
          /\ read = FromString("Payload", m.payload)
          /\ header = Sub("Payload", read, "header")
          /\ ch = FromString("ChannelHeader", header.channel_header)
  OBVIOUS
<1>11. /\ Reads("Envelope", m) /\ WellFormed("Payload", m.payload) /\ read.data = bytes
       /\ Authentic(header, m.payload, m.signature)
       /\ ch.type = type /\ ch.channel_id = Text(channel.str)
  BY <1>8, <1>9, <1>10, EnvelopeBuilt
<1>12. DecodesSignatureHeader(sh)
  <2>1. PICK context : context = TxContextFromUser(user, nonce)
    OBVIOUS
  <2>2. /\ WellFormed("SignatureHeader", sh)
        /\ FromString("SignatureHeader", sh).creator = IdentityOf(user)
    BY <1>1, <2>1, ContextReads
  <2> QED
    BY <2>2, NodeSigned DEF DecodesSignatureHeader
<1>13. DecodesConfigUpdateEnvelope(bytes)
  BY <1>3, <1>4, <1>6, <1>7, <1>12 DEF DecodesConfigUpdateEnvelope, Reads
<1>14. DecodesHeader(header) /\ m.signature # <<>>
  BY <1>11, AuthenticDecodes
<1> QED
  BY <1>4, <1>7, <1>10, <1>11, <1>13, <1>14 DEF Reads

\* The header that others' envelopes have: it has a type and a channel.
LEMMA OtherHeader ==
  ASSUME Schema = MessageTypes, Promise, NEW type \in Nat, NEW ch, ch = ChannelHeaderOf(type)
  PROVE  Reads("ChannelHeader", ch) /\ ch.type = type /\ IsStr(ch.tx_id)
<1>1. PICK name : name = Text("ch")
  OBVIOUS
<1>2. ch = New("ChannelHeader", [type |-> type, channel_id |-> name]) /\ IsStr(name)
  BY <1>1, TextIsStr DEF ChannelHeaderOf
<1>3. Reads("ChannelHeader", ch) /\ ch.type = type
  BY <1>2, TypedHeaderReads
<1>4. /\ Fields("ChannelHeader") = ChannelHeader
      /\ "tx_id" \in DOMAIN ChannelHeader /\ \E n : ChannelHeader["tx_id"] = String(n)
  BY DEF MessageTypes, Fields, ChannelHeader
<1>5. ch.tx_id = <<>>
  <2>1. PICK values : values = [type |-> type, channel_id |-> name]
    OBVIOUS
  <2>2. "tx_id" \notin DOMAIN values
    BY <2>1
  <2> QED
    BY <1>2, <1>4, <2>1, <2>2, Unset, DefaultsOf
<1>6. DOMAIN <<>> = {}
  OBVIOUS
<1> QED
  BY <1>3, <1>5, <1>6 DEF IsStr

\* A config in a block.
LEMMA ConfigShown ==
  ASSUME Schema = MessageTypes, Promise, NEW bytes, DecodesConfig(bytes), NEW e,
         e = SignedEnvelope("orderer", ChannelHeaderOf(HeaderType.CONFIG), bytes)
  PROVE  Showable(e) /\ DecodeTX(e).payload.data = DecodeConfig(bytes)
<1>1. PICK type, ch, envelope, payload, header, node :
         /\ type = HeaderType.CONFIG /\ ch = ChannelHeaderOf(type)
         /\ envelope = FromString("Envelope", e)
         /\ payload = FromString("Payload", envelope.payload)
         /\ header = Sub("Payload", payload, "header") /\ node = "orderer"
  OBVIOUS
<1>2. type \in Nat /\ IsTransactionType(type) /\ type = TransactionType.Config
      /\ type # TransactionType.ConfigUpdate /\ type # TransactionType.EndorserTransaction
  <2>1. "CONFIG" \in DOMAIN HeaderType
    BY DEF HeaderType
  <2> QED
    BY <1>1, <2>1, KnownTypes
<1>3. Reads("ChannelHeader", ch) /\ ch.type = type /\ IsStr(ch.tx_id)
  BY <1>1, <1>2, OtherHeader
<1>4. /\ WellFormed("Envelope", e) /\ WellFormed("Payload", envelope.payload)
      /\ DecodesHeader(header) /\ payload.data = bytes
      /\ FromString("ChannelHeader", header.channel_header) = ch
  BY <1>1, <1>3, OtherEnvelope
<1>5. HeaderIn(e) = ch
  BY <1>1, <1>4 DEF HeaderIn
<1>6. Showable(e)
  BY <1>1, <1>2, <1>3, <1>4, <1>5 DEF Showable, DecodesTX
<1>7. DecodeTX(e).payload.data = DecodeConfig(bytes)
  <2>1. PICK dh : dh = DecodeHeader(header)
    OBVIOUS
  <2>2. dh.channel_header.type = type
    BY <1>3, <1>4, <2>1 DEF DecodeHeader
  <2>3. DecodeTX(e) = [signature |-> envelope.signature,
                       payload |-> [header |-> dh, data |-> DecodeConfig(bytes)]]
    BY <1>1, <1>2, <1>4, <2>1, <2>2 DEF DecodeTX
  <2> QED
    BY <2>3
<1> QED
  BY <1>6, <1>7

\* What others put into a block.
LEMMA OthersShown ==
  ASSUME Schema = MessageTypes, Promise, NEW e \in OtherEntries
  PROVE  Showable(e)
<1>1. CASE e = SignedEnvelope("orderer", ChannelHeaderOf(HeaderType.CONFIG), ConfigBytes(<<>>))
  <2>1. PICK none, bytes : none = <<>> /\ bytes = ConfigBytes(none)
    OBVIOUS
  <2>2. DecodesConfig(bytes)
    BY <2>1, FirstConfigDecodes
  <2> QED
    BY <1>1, <2>1, <2>2, ConfigShown
<1>2. ASSUME NEW t \in DOMAIN HeaderType \ {"CONFIG", "CONFIG_UPDATE", "ENDORSER_TRANSACTION"},
             e = SignedEnvelope("other", ChannelHeaderOf(HeaderType[t]), Opaque("data", t))
      PROVE  Showable(e)
  <2>1. PICK type, ch, envelope, payload, header, node, bytes :
           /\ type = HeaderType[t] /\ ch = ChannelHeaderOf(type)
           /\ envelope = FromString("Envelope", e)
           /\ payload = FromString("Payload", envelope.payload)
           /\ header = Sub("Payload", payload, "header")
           /\ node = "other" /\ bytes = Opaque("data", t)
    OBVIOUS
  <2>2. /\ type \in Nat /\ IsTransactionType(type) /\ type # TransactionType.Config
        /\ type # TransactionType.ConfigUpdate /\ type # TransactionType.EndorserTransaction
    BY <2>1, KnownTypes
  <2>3. Reads("ChannelHeader", ch) /\ ch.type = type /\ IsStr(ch.tx_id)
    BY <2>1, <2>2, OtherHeader
  <2>4. /\ WellFormed("Envelope", e) /\ WellFormed("Payload", envelope.payload)
        /\ DecodesHeader(header) /\ payload.data = bytes
        /\ FromString("ChannelHeader", header.channel_header) = ch
    BY <1>2, <2>1, <2>3, OtherEnvelope
  <2>5. HeaderIn(e) = ch
    BY <2>1, <2>4 DEF HeaderIn
  <2> QED
    BY <2>1, <2>2, <2>3, <2>4, <2>5 DEF Showable, DecodesTX
<1> QED
  BY <1>1, <1>2 DEF OtherEntries

-----------------------------------------------------------------------------

\* The metadata of a block, signed by an orderer.
SignedMetadata(number, value) ==
    SerializeToString("Metadata",
        New("Metadata",
            [value |-> value,
             signatures |-> <<New("MetadataSignature",
                [signature_header |->
                    SerializeToString("SignatureHeader",
                        New("SignatureHeader",
                            [creator |-> IdentityOf("orderer"),
                             nonce |-> Opaque("nonce", number)])),
                 signature |-> Opaque("signature", number)])>>]))

LEMMA MetadataDecodes ==
  ASSUME Schema = MessageTypes, Promise, NEW number, NEW value, NEW bytes,
         bytes = SignedMetadata(number, value)
  PROVE  DecodesMetadata(bytes) /\ FromString("Metadata", bytes).value = value
<1>1. PICK creator, nonce, header, shBytes :
         /\ creator = IdentityOf("orderer") /\ nonce = Opaque("nonce", number)
         /\ header = New("SignatureHeader", [creator |-> creator, nonce |-> nonce])
         /\ shBytes = SerializeToString("SignatureHeader", header)
  OBVIOUS
<1>2. Reads("SignatureHeader", header) /\ header.creator = creator
  BY <1>1, SignatureHeaderReads
<1>3. DecodesSignatureHeader(shBytes)
  BY <1>1, <1>2, NodeSigned DEF DecodesSignatureHeader, Reads
<1>4. PICK signature, signed, all, m :
         /\ signature = Opaque("signature", number)
         /\ signed = New("MetadataSignature",
                         [signature_header |-> shBytes, signature |-> signature])
         /\ all = <<signed>>
         /\ m = New("Metadata", [value |-> value, signatures |-> all])
  OBVIOUS
<1>5. Reads("MetadataSignature", signed) /\ signed.signature_header = shBytes
  BY <1>4, MetadataSignatureReads
<1>6. IsListOf("MetadataSignature", all)
  BY <1>4, <1>5, OneListed DEF Reads
<1>7. DOMAIN all = {1} /\ all[1] = signed
  BY <1>4, Singleton
<1>8. Reads("Metadata", m) /\ m.value = value /\ m.signatures = all
  BY <1>4, <1>6, MetadataReads
<1>9. bytes = SerializeToString("Metadata", m)
  BY <1>1, <1>4, Zenon DEF SignedMetadata
<1> QED
  BY <1>3, <1>5, <1>7, <1>8, <1>9 DEF DecodesMetadata, Reads

\* The metadata of a block: the validation codes come back one by one.
MetadataList(number, codes) ==
    <<SignedMetadata(number, <<>>),
      SignedMetadata(number, SerializeToString("LastConfig",
                                               New("LastConfig", [index |-> 0]))),
      [i \in DOMAIN codes |-> <<0, "byte", codes[i]>>],
      <<>> >>

LEMMA MetadataShown ==
  ASSUME Schema = MessageTypes, Promise, NEW number, NEW codes, IsList(codes), NEW list,
         list = MetadataList(number, codes)
  PROVE  /\ IsList(list) /\ DecodesBlockMetadata(list)
         /\ DecodeBlockMetadata(list).filter = codes
<1>1. PICK none, zero, last, lastBytes, x, y, filter :
         /\ none = <<>> /\ zero = 0 /\ last = New("LastConfig", [index |-> zero])
         /\ lastBytes = SerializeToString("LastConfig", last)
         /\ x = SignedMetadata(number, none) /\ y = SignedMetadata(number, lastBytes)
         /\ filter = [i \in DOMAIN codes |-> <<0, "byte", codes[i]>>]
  OBVIOUS
<1>2. list = <<x, y, filter, none>>
  BY <1>1, Zenon DEF MetadataList
<1>3. IsList(list) /\ Len(list) = 4 /\ list[1] = x /\ list[2] = y /\ list[3] = filter
  BY <1>2 DEF IsList
<1>4. zero \in Nat /\ Reads("LastConfig", last)
  BY <1>1, LastConfigReads
<1>5. DecodesMetadata(x)
  BY <1>1, MetadataDecodes
<1>6. DecodesMetadata(y) /\ FromString("Metadata", y).value = lastBytes
  BY <1>1, MetadataDecodes
<1>7. /\ BlockMetadataIndex.SIGNATURES + 1 = 1 /\ BlockMetadataIndex.LAST_CONFIG + 1 = 2
      /\ BlockMetadataIndex.TRANSACTIONS_FILTER + 1 = 3
      /\ 4 > BlockMetadataIndex.TRANSACTIONS_FILTER
  BY DEF BlockMetadataIndex
<1>8. DecodesBlockMetadata(list)
  BY <1>1, <1>3, <1>4, <1>5, <1>6, <1>7 DEF DecodesBlockMetadata, Reads
<1>9. [i \in DOMAIN filter |-> filter[i][3]] = codes
  <2>1. codes = [i \in DOMAIN codes |-> codes[i]]
    BY DEF IsList
  <2>2. \A c : <<0, "byte", c>>[3] = c
    OBVIOUS
  <2>3. DOMAIN filter = DOMAIN codes /\ \A i \in DOMAIN codes : filter[i] = <<0, "byte", codes[i]>>
    BY <1>1
  <2>4. \A i \in DOMAIN codes : filter[i][3] = codes[i]
    BY <2>2, <2>3
  <2> QED
    BY <2>1, <2>3, <2>4
<1>10. DecodeBlockMetadata(list).filter = codes
  <2>1. PICK u, v : DecodeBlockMetadata(list)
                       = [signatures |-> u, last_config |-> v,
                          filter |-> [i \in DOMAIN filter |-> filter[i][3]]]
    BY <1>3, <1>7 DEF DecodeBlockMetadata
  <2> QED
    BY <1>9, <2>1
<1> QED
  BY <1>3, <1>8, <1>10

\* A block with one entry, pulled out of its response and decoded.
LEMMA BlockDecodes ==
  ASSUME Schema = MessageTypes, Promise, NEW number \in Nat, NEW e, Showable(e),
         NEW entries, entries = <<e>>, NEW codes, IsList(codes),
         NEW block, block = MakeBlock(number, entries, codes),
         NEW raw, raw = RawBlockFromProto(block)
  PROVE  /\ IsMessage("Block", block) /\ DecodesBlock(raw)
         /\ DecodeBlock(raw).data[1] = DecodeTX(e)
         /\ DecodeBlock(raw).metadata.filter = codes
<1>1. PICK list, x, y, z :
         /\ list = MetadataList(number, codes)
         /\ x = New("BlockHeader", [number |-> number])
         /\ y = New("BlockData", [data |-> entries])
         /\ z = New("BlockMetadata", [metadata |-> list])
  OBVIOUS
<1>2. block = New("Block", [header |-> x, data |-> y, metadata |-> z])
  BY <1>1, Zenon DEF MakeBlock, MetadataList, SignedMetadata
<1>3. /\ IsList(list) /\ DecodesBlockMetadata(list)
      /\ DecodeBlockMetadata(list).filter = codes
  BY <1>1, MetadataShown
<1>4. IsMessage("BlockHeader", x)
  BY <1>1, BlockHeaderReads DEF Reads
<1>5. IsList(entries) /\ DOMAIN entries = {1} /\ entries[1] = e
  BY Listed, Singleton
<1>6. IsMessage("BlockData", y) /\ y.data = entries
  BY <1>1, <1>5, BlockDataReads DEF Reads
<1>7. IsMessage("BlockMetadata", z) /\ z.metadata = list
  BY <1>1, <1>3, BlockMetadataReads DEF Reads
<1>8. /\ Reads("Block", block)
      /\ block.header = x /\ block.data = y /\ block.metadata = z
  BY <1>2, <1>4, <1>6, <1>7, BlockReads
<1>9. "header" \in DOMAIN block /\ "data" \in DOMAIN block /\ "metadata" \in DOMAIN block
  BY <1>2 DEF New, With
<1>10. raw.data = y /\ raw.metadata = z
  BY <1>8, <1>9 DEF RawBlockFromProto, Sub, Has
<1>11. DecodesBlock(raw)
  BY <1>3, <1>5, <1>6, <1>7, <1>10 DEF DecodesBlock, Showable
<1>12. PICK metadata, decoded :
          /\ metadata = DecodeBlockMetadata(list)
          /\ decoded = [i \in DOMAIN entries |-> DecodeTX(entries[i])]
  OBVIOUS
<1>13. DecodeBlock(raw) = [header |-> raw.header, data |-> decoded, metadata |-> metadata]
  BY <1>6, <1>7, <1>10, <1>12 DEF DecodeBlock
<1>14. decoded[1] = DecodeTX(e)
  BY <1>5, <1>12
<1> QED
  BY <1>3, <1>8, <1>11, <1>12, <1>13, <1>14 DEF Reads

-----------------------------------------------------------------------------

\* The fields of a filtered transaction; it has actions only if they are set.
LEMMA FilteredTransactionFields ==
  ASSUME Schema = MessageTypes
  PROVE  /\ Sound("FilteredTransaction")
         /\ {"txid", "type", "tx_validation_code"} \subseteq DOMAIN Fields("FilteredTransaction")
         /\ \A f \in {"txid", "type", "tx_validation_code"} :
               Plain(Fields("FilteredTransaction")[f])
         /\ \A v : IsStr(v) => Suits(Fields("FilteredTransaction")["txid"], v)
         /\ \A f \in {"type", "tx_validation_code"} :
               \A v \in Nat : Suits(Fields("FilteredTransaction")[f], v)
<1>1. /\ Fields("FilteredTransaction") = FilteredTransaction
      /\ "FilteredTransaction" \in DOMAIN Schema
  BY DEF MessageTypes, Fields
<1>2. /\ DOMAIN FilteredTransaction = {"txid", "type", "tx_validation_code",
                                       "transaction_actions"}
      /\ FilteredTransaction["txid"] = String(1)
      /\ FilteredTransaction["type"] = Enum(2, "HeaderType")
      /\ FilteredTransaction["tx_validation_code"] = Enum(3, "TxValidationCode")
      /\ FilteredTransaction["transaction_actions"]
            = OneOf("Data", Message(4, "FilteredTransactionActions"))
  BY DEF FilteredTransaction
<1>3. OneOf("Data", Message(4, "FilteredTransactionActions")).kind = "message"
  BY DEF OneOf, Message, Field
<1>4. /\ \A f \in {"txid", "type", "tx_validation_code"} : Plain(FilteredTransaction[f])
      /\ FilteredTransaction["transaction_actions"].kind = "message"
      /\ ~HasDefault(FilteredTransaction["transaction_actions"])
  BY <1>2, <1>3, PlainFields, DefaultsOf
<1>5. \A f \in DOMAIN FilteredTransaction :
         Plain(FilteredTransaction[f])
         \/ (FilteredTransaction[f].kind = "message" /\ ~HasDefault(FilteredTransaction[f]))
  BY <1>2, <1>4
<1>6. Sound("FilteredTransaction")
  BY <1>1, <1>5, Zenon DEF Sound, Plain
<1>7. /\ \A v : IsStr(v) => Suits(FilteredTransaction["txid"], v)
      /\ \A f \in {"type", "tx_validation_code"} : \A v \in Nat : Suits(FilteredTransaction[f], v)
  BY <1>2, StringSuits, EnumSuits
<1> QED
  BY <1>1, <1>2, <1>4, <1>6, <1>7

LEMMA FilteredTransactionReads ==
  ASSUME Schema = MessageTypes, Promise, NEW x, NEW y \in Nat, NEW z \in Nat, NEW m, IsStr(x),
         m = New("FilteredTransaction", [txid |-> x, type |-> y, tx_validation_code |-> z])
  PROVE  /\ Reads("FilteredTransaction", m) /\ m.txid = x /\ m.type = y
         /\ m.tx_validation_code = z
<1> DEFINE values == [txid |-> x, type |-> y, tx_validation_code |-> z]
<1>1. /\ values = [f \in DOMAIN values |-> values[f]]
      /\ DOMAIN values = {"txid", "type", "tx_validation_code"}
      /\ values["txid"] = x /\ values["type"] = y /\ values["tx_validation_code"] = z
  OBVIOUS
<1> HIDE DEF values
<1>2. \A f \in DOMAIN values : Suits(Fields("FilteredTransaction")[f], values[f])
  BY <1>1, FilteredTransactionFields
<1>3. \A f \in DOMAIN values : Plain(Fields("FilteredTransaction")[f])
  BY <1>1, FilteredTransactionFields
<1>4. DOMAIN values \subseteq DOMAIN Fields("FilteredTransaction")
  BY <1>1, FilteredTransactionFields
<1>5. Suit("FilteredTransaction", values)
  BY <1>1, <1>2, <1>3, <1>4, Zenon DEF Suit, Plain
<1> QED
  BY <1>1, <1>5, FilteredTransactionFields, NewReads DEF values

\* A filtered block with one entry, as the client gets it.
LEMMA FilteredShown ==
  ASSUME Schema = MessageTypes, Promise, NEW number \in Nat, NEW e, Showable(e),
         NEW entries, entries = <<e>>, NEW code \in Nat, NEW codes, codes = <<code>>,
         NEW block, block = MakeFilteredBlock(number, entries, codes),
         NEW shown, shown = FilteredBlockFromProto(block).transactions
  PROVE  /\ IsMessage("FilteredBlock", block) /\ DOMAIN shown = {1}
         /\ shown[1].tx_id = HeaderIn(e).tx_id /\ shown[1].type = HeaderIn(e).type
         /\ shown[1].tx_validation_code = code
<1>1. PICK header, id, type, tx :
         /\ header = HeaderIn(e) /\ id = header.tx_id /\ type = header.type
         /\ tx = New("FilteredTransaction",
                     [txid |-> id, type |-> type, tx_validation_code |-> code])
  OBVIOUS
<1>2. /\ Reads("FilteredTransaction", tx) /\ tx.txid = id /\ tx.type = type
      /\ tx.tx_validation_code = code
  BY <1>1, FilteredTransactionReads DEF Showable
<1>3. /\ DOMAIN entries = {1} /\ entries[1] = e /\ codes[1] = code
  BY Singleton
<1>4. PICK list, name :
         /\ list = [i \in DOMAIN entries |->
                       New("FilteredTransaction",
                           [txid |-> HeaderIn(entries[i]).tx_id,
                            type |-> HeaderIn(entries[i]).type,
                            tx_validation_code |-> codes[i]])]
         /\ name = Text("ch")
  OBVIOUS
<1>5. block = New("FilteredBlock",
                  [channel_id |-> name, number |-> number, filtered_transactions |-> list])
  BY <1>4, Zenon DEF MakeFilteredBlock, HeaderIn
<1>6. DOMAIN list = {1} /\ list[1] = tx /\ list = [i \in {1} |-> list[i]]
  BY <1>1, <1>3, <1>4
<1>7. list = <<tx>>
  <2>1. <<tx>> = [i \in {1} |-> tx]
    OBVIOUS
  <2> QED
    BY <1>6, <2>1
<1>8. IsListOf("FilteredTransaction", list)
  BY <1>2, <1>7, OneListed DEF Reads
<1>9. Reads("FilteredBlock", block) /\ block.filtered_transactions = list
  BY <1>4, <1>5, <1>8, TextIsStr, FilteredBlockReads
<1>10. shown = [i \in DOMAIN list |-> FilteredTXFromProto(list[i])]
  BY <1>9 DEF FilteredBlockFromProto
<1>11. DOMAIN shown = {1} /\ shown[1] = FilteredTXFromProto(tx)
  BY <1>6, <1>10
<1> QED
  BY <1>1, <1>2, <1>9, <1>11 DEF FilteredTXFromProto, Reads

-----------------------------------------------------------------------------

\* A response has the block that was put into it, and no status.
LEMMA PeerResponseFields ==
  ASSUME Schema = MessageTypes
  PROVE  /\ Sound("DeliverResponse")
         /\ {"block", "filtered_block"} \subseteq DOMAIN Fields("DeliverResponse")
         /\ \A f \in DOMAIN Fields("DeliverResponse") :
               ~HasDefault(Fields("DeliverResponse")[f])
         /\ \A v : /\ IsMessage("Block", v) => Suits(Fields("DeliverResponse")["block"], v)
                   /\ IsMessage("FilteredBlock", v) =>
                         Suits(Fields("DeliverResponse")["filtered_block"], v)
<1>1. Fields("DeliverResponse") = DeliverResponse /\ "DeliverResponse" \in DOMAIN Schema
  BY DEF MessageTypes, Fields
<1>2. /\ DOMAIN DeliverResponse = {"status", "block", "filtered_block"}
      /\ DeliverResponse["block"] = OneOf("Type", Message(2, "Block"))
      /\ DeliverResponse["filtered_block"] = OneOf("Type", Message(3, "FilteredBlock"))
      /\ DeliverResponse["status"] = OneOf("Type", Enum(1, "Status"))
  BY DEF DeliverResponse
<1>3. /\ OneOf("Type", Message(2, "Block")).kind = "message"
      /\ OneOf("Type", Message(3, "FilteredBlock")).kind = "message"
      /\ OneOf("Type", Enum(1, "Status")).kind = "enum"
      /\ ~HasDefault(OneOf("Type", Message(2, "Block")))
      /\ ~HasDefault(OneOf("Type", Message(3, "FilteredBlock")))
      /\ ~HasDefault(OneOf("Type", Enum(1, "Status")))
  BY DEF OneOf, Message, Enum, Field, HasDefault
<1>4. \A f \in DOMAIN Fields("DeliverResponse") :
         /\ Fields("DeliverResponse")[f].kind \in {"enum", "message"}
         /\ ~HasDefault(Fields("DeliverResponse")[f])
  BY <1>1, <1>2, <1>3
<1>5. Sound("DeliverResponse")
  BY <1>1, <1>4, Zenon DEF Sound
<1>6. \A v : /\ IsMessage("Block", v) => Suits(DeliverResponse["block"], v)
             /\ IsMessage("FilteredBlock", v) => Suits(DeliverResponse["filtered_block"], v)
  BY <1>2, OneOfSuits
<1> QED
  BY <1>1, <1>2, <1>4, <1>5, <1>6

LEMMA OrdererDefaults ==
  ASSUME Schema = MessageTypes, NEW f \in DOMAIN Fields("OrdererDeliverResponse")
  PROVE  ~HasDefault(Fields("OrdererDeliverResponse")[f])
<1>1. Fields("OrdererDeliverResponse") = OrdererDeliverResponse
  BY DEF MessageTypes, Fields
<1>2. /\ DOMAIN OrdererDeliverResponse = {"status", "block"}
      /\ OrdererDeliverResponse["block"] = OneOf("Type", Message(2, "Block"))
      /\ OrdererDeliverResponse["status"] = OneOf("Type", Enum(1, "Status"))
  BY DEF OrdererDeliverResponse
<1>3. /\ ~HasDefault(OneOf("Type", Message(2, "Block")))
      /\ ~HasDefault(OneOf("Type", Enum(1, "Status")))
  BY DEF OneOf, Message, Enum, Field, HasDefault
<1> QED
  BY <1>1, <1>2, <1>3

LEMMA OneSet ==
  ASSUME Promise, NEW type, Sound(type), NEW field \in DOMAIN Fields(type), field # "status",
         \A f \in DOMAIN Fields(type) : ~HasDefault(Fields(type)[f]), NEW v,
         Suits(Fields(type)[field], v), NEW values, values = [f \in {field} |-> v], NEW m,
         m = New(type, values)
  PROVE  Reads(type, m) /\ ~Has(m, "status") /\ Sub(type, m, field) = v
<1>1. /\ values = [f \in DOMAIN values |-> values[f]] /\ DOMAIN values = {field}
      /\ values[field] = v
  OBVIOUS
<1>2. Suit(type, values)
  BY <1>1, OneSuits
<1>3. /\ Reads(type, m) /\ field \in DOMAIN m /\ m[field] = v
      /\ \A f \in DOMAIN m : f \in DOMAIN values \/ HasDefault(Fields(type)[f])
  BY <1>1, <1>2, NewReads
<1>4. DOMAIN m \subseteq DOMAIN Fields(type)
  BY <1>1 DEF New, With, Defaults
<1>5. "status" \notin DOMAIN m
  BY <1>1, <1>3, <1>4
<1> QED
  BY <1>3, <1>5 DEF Has, Sub

LEMMA Pulled ==
  ASSUME Schema = MessageTypes, Promise, NEW to \in Streams, NEW block, NEW resp,
         resp = ResponseOf(to, block),
         IsMessage(IF to[2] = "DeliverFiltered" THEN "FilteredBlock" ELSE "Block", block)
  PROVE  /\ StatusOf(resp) = 0
         /\ PullBlockFromResponse(to, resp)
               = IF to[2] = "DeliverFiltered" THEN FilteredBlockFromProto(block)
                 ELSE RawBlockFromProto(block)
<1>1. PICK type, field :
         /\ type = ResponseType(to)
         /\ field = IF to[2] = "DeliverFiltered" THEN "filtered_block" ELSE "block"
  OBVIOUS
<1>2. PICK values, m : values = [f \in {field} |-> block] /\ m = New(type, values)
  OBVIOUS
<1>3. resp = FromString(type, SerializeToString(type, m))
  BY <1>1, <1>2, Zenon DEF ResponseOf
<1>4. \/ to[2] = "DeliverFiltered" /\ type = "DeliverResponse"
      \/ to[2] # "DeliverFiltered" /\ type \in {"DeliverResponse", "OrdererDeliverResponse"}
  BY <1>1 DEF ResponseType, AtomicBroadcast, Deliver, Streams
<1>5. field # "status"
  BY <1>1
<1>6. /\ Sound(type) /\ field \in DOMAIN Fields(type)
      /\ \A f \in DOMAIN Fields(type) : ~HasDefault(Fields(type)[f])
      /\ Suits(Fields(type)[field], block)
  BY <1>1, <1>4, PeerResponseFields, OrdererResponseFields, OrdererDefaults
<1>7. Reads(type, m) /\ ~Has(m, "status") /\ Sub(type, m, field) = block
  BY <1>2, <1>5, <1>6, OneSet
<1>8. resp = m
  BY <1>3, <1>7 DEF Reads
<1> QED
  BY <1>1, <1>7, <1>8 DEF PullBlockFromResponse, StatusOf

-----------------------------------------------------------------------------

\* The entry of a config update: the config decodes, with the update in it.
LEMMA UpdateShown ==
  ASSUME Schema = MessageTypes, Promise, NEW w, UpdateSent(w), NEW e, e = EntryFor(w),
         NEW shown, shown = DecodeTX(e).payload.data.last_update.payload,
         NEW payload, payload = FromString("Payload", Parsed(w).payload)
  PROVE  /\ w.asked = 0 /\ Showable(e)
         /\ shown.header.channel_header
               = FromString("ChannelHeader",
                            Sub("Payload", payload, "header").channel_header)
         /\ shown.data.config_update = FromString("ConfigUpdate", UpdateIn(ChannelTX))
<1>1. PICK user, nonce, s, t :
         /\ s \in Scalars /\ t \in Scalars
         /\ w = Request(ToOrderers,
                    BuildConfigUpdateEnvelope(TheChannel, TxContextFromUser(user, nonce),
                                              user, UpdateIn(ChannelTX), s, t), 0)
  BY DEF UpdateSent
<1>2. PICK channel, update, none :
         channel = TheChannel /\ update = UpdateIn(ChannelTX) /\ none = 0
  OBVIOUS
<1>3. PICK m : m = BuildConfigUpdateEnvelope(channel, TxContextFromUser(user, nonce),
                                             user, update, s, t)
  OBVIOUS
<1>4. WellFormed("ConfigUpdate", update)
  <2>1. WellFormed("ConfigUpdate", UpdateIn(ChannelTX))
    BY MessagesAssumption, Zenon
  <2> QED
    BY <1>2, <2>1
<1>5. PICK read, header, bytes :
         /\ read = FromString("Payload", m.payload) /\ header = Sub("Payload", read, "header")
         /\ bytes = read.data
  OBVIOUS
<1>6. /\ Reads("Envelope", m) /\ m.signature # <<>> /\ WellFormed("Payload", m.payload)
      /\ DecodesHeader(header) /\ DecodesConfigUpdateEnvelope(bytes)
      /\ FromString("ConfigUpdateEnvelope", bytes).config_update = update
  BY <1>1, <1>2, <1>3, <1>4, <1>5, TheChannelNamed, UpdateBuilt
<1>7. w = Request(ToOrderers, m, none)
  BY <1>1, <1>2, <1>3
<1>8. /\ w.asked = none /\ Parsed(w) = m
      /\ w.bytes = SerializeToString("Envelope", m)
  <2>1. w.bytes = SerializeToString("Envelope", m)
    BY <1>7, Methods DEF Request
  <2> QED
    BY <1>6, <1>7, <2>1, Methods, RequestParsed
<1>9. PICK sent, config : sent = w.bytes /\ config = ConfigBytes(sent)
  OBVIOUS
<1>10. WellFormed("ConfigEnvelope", config) /\ LastUpdateIn(config) = m
  BY <1>6, <1>8, <1>9, LastUpdateRead
<1>11. DecodesConfig(config)
  BY <1>5, <1>6, <1>10 DEF DecodesConfig, LastUpdateIn
<1>12. e = SignedEnvelope("orderer", ChannelHeaderOf(HeaderType.CONFIG), config)
  BY <1>2, <1>8, <1>9 DEF EntryFor
<1>13. Showable(e) /\ DecodeTX(e).payload.data = DecodeConfig(config)
  BY <1>11, <1>12, ConfigShown
<1>14. PICK dh, body, whole :
          /\ dh = DecodeHeader(header) /\ body = DecodeConfigUpdateEnvelope(bytes)
          /\ whole = [header |-> dh, data |-> body]
  OBVIOUS
<1>15. DecodeConfig(config)
          = [config |-> Sub("ConfigEnvelope", FromString("ConfigEnvelope", config), "config"),
             last_update |-> [payload |-> whole, signature |-> m.signature]]
  BY <1>5, <1>10, <1>14, Zenon DEF DecodeConfig, LastUpdateIn
<1>16. DecodeConfig(config).last_update.payload = whole
  BY <1>15
<1>17. shown = whole
  BY <1>13, <1>16
<1>18. dh.channel_header = FromString("ChannelHeader", header.channel_header)
  BY <1>14 DEF DecodeHeader
<1>19. body.config_update = FromString("ConfigUpdate", update)
  BY <1>6, <1>14 DEF DecodeConfigUpdateEnvelope
<1>20. shown.header = dh /\ shown.data = body
  BY <1>14, <1>17
<1>21. payload = read
  BY <1>5, <1>8
<1> QED
  BY <1>2, <1>5, <1>8, <1>13, <1>18, <1>19, <1>20, <1>21

\* The entry of a transaction is its envelope.
LEMMA SentShown ==
  ASSUME Schema = MessageTypes, Promise, TxsWhole, NEW w, TransactionSent(w), NEW e,
         e = EntryFor(w), NEW tx, tx = txs[w.asked]
  PROVE  /\ w.asked # 0 /\ Showable(e) /\ HeaderIn(e).tx_id = tx.gen.tx_context.tx_id
         /\ FoundIn(DecodeTX(e), tx.gen, tx.args)
<1>1. PICK n \in DOMAIN txs, t \in Scalars :
         /\ Named(txs[n].channel)
         /\ w = Request(ToOrderers, BuildEndorsedTXEnvelope(EndorsedTX(txs[n].gen),
                                                            txs[n].user, t), n)
  BY DEF TransactionSent
<1>2. n # 0
  BY DEF TxsWhole, IsList
<1>3. PICK user, args, channel, transient, gen :
         /\ user = txs[n].user /\ args = txs[n].args /\ channel = txs[n].channel
         /\ transient = txs[n].transient /\ gen = txs[n].gen
  OBVIOUS
<1>4. Whole(txs[n])
  BY DEF TxsWhole
<1>5. PICK nonce, ccName, s :
         /\ s \in Scalars
         /\ gen = BuildGeneratedTX(user, nonce, ccName, args, channel, transient, s)
  BY <1>3, <1>4 DEF Whole, BuiltFor
<1>6. Proper(args, channel, transient)
  BY <1>3, <1>4 DEF Whole
<1>7. PICK m, bytes : /\ m = BuildEndorsedTXEnvelope(EndorsedTX(gen), user, t)
                      /\ bytes = SerializeToString("Envelope", m)
  OBVIOUS
<1>8. /\ Showable(bytes) /\ HeaderIn(bytes).tx_id = gen.tx_context.tx_id
      /\ FoundIn(DecodeTX(bytes), gen, args)
  BY <1>5, <1>6, <1>7, TransactionShown
<1>9. w = Request(ToOrderers, m, n)
  BY <1>1, <1>3, <1>7
<1>10. w.asked = n /\ w.bytes = bytes
  BY <1>7, <1>9, Methods DEF Request
<1>11. e = bytes
  BY <1>2, <1>10 DEF EntryFor
<1>12. tx.gen = gen /\ tx.args = args
  BY <1>3, <1>10
<1> QED
  BY <1>2, <1>8, <1>10, <1>11, <1>12

\* Only transactions and config updates are broadcast.
LEMMA Broadcast ==
  ASSUME WireBuilt, NEW w \in wire, w.to = ToOrderers
  PROVE  TransactionSent(w) \/ UpdateSent(w)
<1>1. \A to, m, asked : Request(to, m, asked).to = to
  BY DEF Request
<1>2. ~ProposalSent(w)
  <2>1. ToPeers # ToOrderers
    BY Methods
  <2> QED
    BY <1>1, <2>1, Zenon DEF ProposalSent
<1>3. ~SeekSent(w)
  <2>1. \A k \in Seeks : k.to \in Streams
    BY MessagesAssumption, Zenon
  <2>2. \A k \in Seeks : k.to # ToOrderers
    BY <2>1, Methods
  <2>3. SeekSent(w) => \E k \in Seeks : \E m : w = Request(k.to, m, k)
    BY DEF SeekSent
  <2> QED
    BY <1>1, <2>2, <2>3
<1> QED
  BY <1>2, <1>3 DEF WireBuilt

LEMMA OwnShown ==
  ASSUME Schema = MessageTypes, Promise, MessagesInv, NEW e \in OwnEntries
  PROVE  Showable(e)
<1>1. PICK w \in wire : w.to = ToOrderers /\ e = EntryFor(w)
  BY DEF OwnEntries, ToOrderers
<1>2. TransactionSent(w) \/ UpdateSent(w)
  BY <1>1, Broadcast DEF MessagesInv
<1>3. CASE TransactionSent(w)
  <2>1. PICK tx : tx = txs[w.asked]
    OBVIOUS
  <2> QED
    BY <1>1, <1>3, <2>1, SentShown DEF MessagesInv
<1>4. CASE UpdateSent(w)
  <2>1. PICK shown, payload : /\ shown = DecodeTX(e).payload.data.last_update.payload
                              /\ payload = FromString("Payload", Parsed(w).payload)
    OBVIOUS
  <2> QED
    BY <1>1, <1>4, <2>1, UpdateShown
<1> QED
  BY <1>2, <1>3, <1>4

-----------------------------------------------------------------------------

\* A block that raises nothing, as the stream yields it.
LEMMA FilteredYielded ==
  ASSUME NEW to, to[2] = "DeliverFiltered", NEW sent, NEW entries, NEW codes, NEW status,
         ~status, NEW pulled,
         \A i \in DOMAIN pulled.transactions : IsTransactionType(pulled.transactions[i].type),
         NEW y, y = Yielded(to, sent, entries, codes, status, pulled)
  PROVE  /\ y.filtered /\ ~y.raises /\ ~y.status /\ y.data = entries /\ y.codes = codes
         /\ y.pulled = pulled
<1>1. PICK filtered, raises :
         /\ filtered = (to[2] = "DeliverFiltered")
         /\ raises = IF filtered
                     THEN \E i \in DOMAIN pulled.transactions :
                              ~IsTransactionType(pulled.transactions[i].type)
                     ELSE ~DecodesBlock(pulled)
  OBVIOUS
<1>2. filtered /\ ~raises
  BY <1>1
<1>3. y = [service |-> to[1], filtered |-> filtered, raises |-> raises,
           status |-> status, sent |-> sent, data |-> entries, codes |-> codes,
           pulled |-> pulled,
           decoded |-> IF filtered \/ raises THEN <<>> ELSE DecodeBlock(pulled)]
  BY <1>1, Zenon DEF Yielded
<1> QED
  BY <1>2, <1>3

LEMMA RawYielded ==
  ASSUME NEW to, to[2] # "DeliverFiltered", NEW sent, NEW entries, NEW codes, NEW status,
         ~status, NEW pulled, DecodesBlock(pulled), NEW y,
         y = Yielded(to, sent, entries, codes, status, pulled)
  PROVE  /\ ~y.filtered /\ ~y.raises /\ ~y.status /\ y.data = entries /\ y.codes = codes
         /\ y.service = to[1] /\ y.decoded = DecodeBlock(pulled)
<1>1. PICK filtered, raises :
         /\ filtered = (to[2] = "DeliverFiltered")
         /\ raises = IF filtered
                     THEN \E i \in DOMAIN pulled.transactions :
                              ~IsTransactionType(pulled.transactions[i].type)
                     ELSE ~DecodesBlock(pulled)
  OBVIOUS
<1>2. ~filtered /\ ~raises
  BY <1>1
<1>3. y = [service |-> to[1], filtered |-> filtered, raises |-> raises,
           status |-> status, sent |-> sent, data |-> entries, codes |-> codes,
           pulled |-> pulled,
           decoded |-> IF filtered \/ raises THEN <<>> ELSE DecodeBlock(pulled)]
  BY <1>1, Zenon DEF Yielded
<1> QED
  BY <1>2, <1>3

\* The second inductive invariant: what the client has of the block that came
\* last, in terms of the one entry in it.
ShownAs(d, e) ==
    /\ d.data = <<e>>
    /\ d.filtered =>
          /\ d.pulled.transactions[1].tx_id = HeaderIn(e).tx_id
          /\ d.pulled.transactions[1].tx_validation_code = d.codes[1]
    /\ ~d.filtered =>
          /\ d.decoded.data[1] = DecodeTX(e)
          /\ d.decoded.metadata.filter
                = IF d.service = "AtomicBroadcast" THEN <<>> ELSE d.codes

BlockShown ==
    delivered # NoBlock =>
        /\ ~delivered.status
        /\ ~delivered.raises
        /\ \E e : ShownAs(delivered, e)

LEMMA Received ==
  ASSUME Schema = MessageTypes, Promise, NEW to \in Streams, NEW number \in Nat, NEW e,
         Showable(e), NEW code \in Nat, NEW entries, entries = <<e>>, NEW codes,
         codes = <<code>>, NEW block, block = BlockFor(to, number, entries, codes), NEW resp,
         resp = ResponseOf(to, block), NEW pulled, pulled = PullBlockFromResponse(to, resp),
         NEW y, y = Yielded(to, block, entries, codes, StatusOf(resp) # 0, pulled)
  PROVE  ~y.status /\ ~y.raises /\ ShownAs(y, e)
<1>1. PICK status : status = (StatusOf(resp) # 0)
  OBVIOUS
<1>2. y = Yielded(to, block, entries, codes, status, pulled)
  BY <1>1, Zenon
<1>3. codes[1] = code
  BY Singleton
<1>4. CASE to[2] = "DeliverFiltered"
  <2>1. block = MakeFilteredBlock(number, entries, codes)
    BY <1>4 DEF BlockFor
  <2>2. PICK filtered, shown :
           /\ filtered = FilteredBlockFromProto(block) /\ shown = filtered.transactions
    OBVIOUS
  <2>3. /\ IsMessage("FilteredBlock", block) /\ DOMAIN shown = {1}
        /\ shown[1].tx_id = HeaderIn(e).tx_id /\ shown[1].type = HeaderIn(e).type
        /\ shown[1].tx_validation_code = code
    BY <2>1, <2>2, FilteredShown
  <2>4. StatusOf(resp) = 0 /\ pulled = filtered
    BY <1>4, <2>2, <2>3, Pulled
  <2>5. IsTransactionType(HeaderIn(e).type)
    BY DEF Showable, DecodesTX, HeaderIn
  <2>6. \A i \in DOMAIN pulled.transactions : IsTransactionType(pulled.transactions[i].type)
    BY <2>2, <2>3, <2>4, <2>5
  <2>7. ~status
    BY <1>1, <2>4
  <2>8. /\ y.filtered /\ ~y.raises /\ ~y.status /\ y.data = entries /\ y.codes = codes
        /\ y.pulled = pulled
    BY <1>2, <1>4, <2>6, <2>7, FilteredYielded
  <2>9. y.pulled.transactions = shown /\ y.codes[1] = code
    BY <1>3, <2>2, <2>4, <2>8
  <2> QED
    BY <2>3, <2>8, <2>9, Zenon DEF ShownAs
<1>5. CASE to[2] # "DeliverFiltered"
  <2>1. PICK kept, raw :
           /\ kept = IF to[1] = "AtomicBroadcast" THEN <<>> ELSE codes
           /\ raw = RawBlockFromProto(block)
    OBVIOUS
  <2>2. block = MakeBlock(number, entries, kept)
    BY <1>5, <2>1 DEF BlockFor
  <2>3. IsList(kept)
    BY <2>1, NothingListed, Listed
  <2>4. /\ IsMessage("Block", block) /\ DecodesBlock(raw)
        /\ DecodeBlock(raw).data[1] = DecodeTX(e)
        /\ DecodeBlock(raw).metadata.filter = kept
    BY <2>1, <2>2, <2>3, BlockDecodes
  <2>5. StatusOf(resp) = 0 /\ pulled = raw
    BY <1>5, <2>1, <2>4, Pulled
  <2>6. ~status
    BY <1>1, <2>5
  <2>7. /\ ~y.filtered /\ ~y.raises /\ ~y.status /\ y.data = entries /\ y.codes = codes
        /\ y.service = to[1] /\ y.decoded = DecodeBlock(pulled)
    <3>1. DecodesBlock(pulled)
      BY <2>4, <2>5
    <3> QED
      BY <1>2, <1>5, <2>6, <3>1, RawYielded
  <2>8. y.decoded = DecodeBlock(raw)
    BY <2>5, <2>7
  <2> QED
    BY <2>1, <2>4, <2>7, <2>8, Zenon DEF ShownAs
<1> QED
  BY <1>4, <1>5

LEMMA ReceiveShows ==
  ASSUME Schema = MessageTypes, Promise, MessagesInv, NEW to \in Streams,
         NEW e \in OwnEntries \cup OtherEntries, NEW number \in 0..1, NEW code \in Nat,
         ReceiveBlock(to, number, <<e>>, <<code>>)
  PROVE  BlockShown'
<1>1. PICK entries, codes : entries = <<e>> /\ codes = <<code>>
  OBVIOUS
<1>2. PICK block, resp, pulled, y :
         /\ block = BlockFor(to, number, entries, codes) /\ resp = ResponseOf(to, block)
         /\ pulled = PullBlockFromResponse(to, resp)
         /\ y = Yielded(to, block, entries, codes, StatusOf(resp) # 0, pulled)
  OBVIOUS
<1>3. delivered' = y
  BY <1>1, <1>2, Zenon DEF ReceiveBlock
<1>4. Showable(e) /\ number \in Nat
  BY OwnShown, OthersShown
<1>5. ~y.status /\ ~y.raises /\ ShownAs(y, e)
  BY <1>1, <1>2, <1>4, Received
<1> QED
  BY <1>3, <1>5, Zenon DEF BlockShown

\* Every other step leaves the block alone.
LEMMA OthersKeep ==
  ASSUME BlockShown, [Next]_vars,
         ~\E to \in Streams, e \in OwnEntries \cup OtherEntries, number \in 0..1 :
             ReceiveBlock(to, number, <<e>>,
                          <<IF number = 0 THEN TxValidationCode.VALID
                            ELSE TxValidationCode.MVCC_READ_CONFLICT>>)
  PROVE  BlockShown'
<1>1. ASSUME NEW u, NEW kind, NEW name, NEW args, NEW channel, NEW transient, NEW asked,
             NEW s, Generate(u, kind, name, args, channel, transient, asked, s)
      PROVE  delivered' = delivered
  BY <1>1, Zenon DEF Generate
<1>2. ASSUME NEW u \in Users, NEW s \in Scalars, NEW c \in Calls,
             \/ GenerateCCTX(u, c, s) \/ GenerateInstantiateCCTX(u, c, s)
             \/ InstallChaincode(u, c, s) \/ QueryChaincodes(u, c, s)
      PROVE  delivered' = delivered
  BY <1>1, <1>2, Zenon DEF GenerateCCTX, GenerateInstantiateCCTX, InstallChaincode,
                           QueryChaincodes
<1>3. ASSUME NEW u \in Users, NEW s \in Scalars,
             \/ JoinChannel(u, s) \/ \E t \in Scalars : CreateChannel(u, s, t)
             \/ \E k \in Seeks : StreamBlocks(u, k, s)
      PROVE  delivered' = delivered
  BY <1>1, <1>3, Zenon DEF JoinChannel, CreateChannel, StreamBlocks
<1>4. ASSUME NEW n \in DOMAIN txs, ProposeTX(n) \/ \E s \in Scalars : CommitTX(n, s)
      PROVE  delivered' = delivered
  BY <1>4, Zenon DEF ProposeTX, CommitTX
<1>5. ASSUME UNCHANGED vars PROVE delivered' = delivered
  BY <1>5 DEF vars
<1>6. delivered' = delivered
  BY <1>2, <1>3, <1>4, <1>5, Zenon DEF Next, vars
<1> QED
  BY <1>6, Zenon DEF BlockShown, ShownAs

LEMMA BlockShownKept ==
  ASSUME Schema = MessageTypes, Promise
  PROVE  MessagesInv /\ BlockShown /\ [Next]_vars => BlockShown'
<1> SUFFICES ASSUME MessagesInv, BlockShown, [Next]_vars PROVE BlockShown'
  OBVIOUS
<1>1. TxValidationCode.VALID \in Nat /\ TxValidationCode.MVCC_READ_CONFLICT \in Nat
  BY DEF TxValidationCode
<1>2. ASSUME NEW to \in Streams, NEW e \in OwnEntries \cup OtherEntries, NEW number \in 0..1,
             ReceiveBlock(to, number, <<e>>,
                          <<IF number = 0 THEN TxValidationCode.VALID
                            ELSE TxValidationCode.MVCC_READ_CONFLICT>>)
      PROVE  BlockShown'
  <2>1. PICK code : code = IF number = 0 THEN TxValidationCode.VALID
                           ELSE TxValidationCode.MVCC_READ_CONFLICT
    OBVIOUS
  <2>2. code \in Nat
    BY <1>1, <2>1
  <2>3. ReceiveBlock(to, number, <<e>>, <<code>>)
    BY <1>2, <2>1, Zenon
  <2> QED
    BY <2>2, <2>3, ReceiveShows
<1> QED
  BY <1>2, OthersKeep

LEMMA BlockShownFinds ==
  ASSUME Schema = MessageTypes, Promise, MessagesInv, BlockShown
  PROVE  DecodesWhatWasSent
<1> SUFFICES ASSUME delivered # NoBlock, NEW w \in wire, w.to = ToOrderers,
                    delivered.data = <<EntryFor(w)>>
             PROVE  IF w.asked # 0 THEN TransactionFound(txs[w.asked]) ELSE UpdateFound(w)
  BY Zenon DEF BlockShown, DecodesWhatWasSent, ToOrderers
<1>1. PICK e : ShownAs(delivered, e)
  BY DEF BlockShown
<1>2. e = EntryFor(w)
  <2>1. PICK x : x = EntryFor(w)
    OBVIOUS
  <2>2. <<e>> = <<x>>
    BY <1>1, <2>1 DEF ShownAs
  <2>3. e = x
    BY <2>2
  <2> QED
    BY <2>1, <2>3
<1>3. TransactionSent(w) \/ UpdateSent(w)
  BY Broadcast DEF MessagesInv
<1>4. CASE TransactionSent(w)
  <2>1. PICK tx : tx = txs[w.asked]
    OBVIOUS
  <2>2. /\ w.asked # 0 /\ HeaderIn(e).tx_id = tx.gen.tx_context.tx_id
        /\ FoundIn(DecodeTX(e), tx.gen, tx.args)
    BY <1>2, <1>4, <2>1, SentShown DEF MessagesInv
  <2>3. CASE delivered.filtered
    <3>1. TransactionFound(tx)
      BY <1>1, <2>2, <2>3, Zenon DEF TransactionFound, ShownAs
    <3> QED
      BY <2>1, <2>2, <3>1
  <2>4. CASE ~delivered.filtered
    <3>1. PICK decoded : decoded = DecodeTX(e)
      OBVIOUS
    <3>2. /\ delivered.decoded.data[1] = decoded
          /\ delivered.decoded.metadata.filter
                = IF delivered.service = "AtomicBroadcast" THEN <<>> ELSE delivered.codes
      BY <1>1, <2>4, <3>1, Zenon DEF ShownAs
    <3>3. FoundIn(decoded, tx.gen, tx.args)
      BY <2>2, <3>1
    <3>4. TransactionFound(tx)
      BY <2>4, <3>2, <3>3, Zenon DEF TransactionFound, FoundIn
    <3> QED
      BY <2>1, <2>2, <3>4
  <2> QED
    BY <2>3, <2>4
<1>5. CASE UpdateSent(w)
  <2>1. PICK decoded, shown, payload, sent :
           /\ decoded = DecodeTX(e) /\ shown = decoded.payload.data.last_update.payload
           /\ payload = FromString("Payload", Parsed(w).payload)
           /\ sent = Sub("Payload", payload, "header")
    OBVIOUS
  <2>2. /\ w.asked = 0
        /\ shown.header.channel_header = FromString("ChannelHeader", sent.channel_header)
        /\ shown.data.config_update = FromString("ConfigUpdate", UpdateIn(ChannelTX))
    BY <1>2, <1>5, <2>1, UpdateShown
  <2>3. ~delivered.filtered => delivered.decoded.data[1] = decoded
    BY <1>1, <2>1, Zenon DEF ShownAs
  <2>4. UpdateFound(w)
    BY <2>1, <2>2, <2>3, Zenon DEF UpdateFound
  <2> QED
    BY <2>2, <2>4
<1> QED
  BY <1>3, <1>4, <1>5

\* If google.protobuf keeps its promise, a block is never taken for an error or
\* fails to decode, whoever its entry is from and whatever type it has, and the
\* client finds its own transaction or config update in it as it sent it
\* (RawBlock.decode, DecodedTX.decode, FilteredTX.from_proto).
THEOREM BlocksDecoded ==
  ASSUME Schema = MessageTypes, Promise
  PROVE  Spec => []DecodesWhatWasSent
<1>1. Init => MessagesInv /\ BlockShown
  BY InitRight DEF Init, BlockShown
<1>2. MessagesInv /\ BlockShown /\ [Next]_vars => (MessagesInv /\ BlockShown)'
  BY NextKeeps, BlockShownKept
<1>3. MessagesInv /\ BlockShown => DecodesWhatWasSent
  BY BlockShownFinds
<1> QED
  BY <1>1, <1>2, <1>3, PTL DEF Spec
=============================================================================
