----------------------------- MODULE Receivers ------------------------------
(***************************************************************************)
(* The peers and the orderers (external), as far as the client's messages  *)
(* go: what they check of the bytes they get, and the bytes they send      *)
(* back.  All of them start from the bytes, not from the client's objects. *)
(***************************************************************************)
EXTENDS Sequences, Protobuf, Crypto

CONSTANT Peers    \* the endorsing peers, a sequence

\* The type of the requests of a method.
RequestType(to) ==
    CASE to[1] = "Endorser"        -> Endorser[to[2]][1]
      [] to[1] = "AtomicBroadcast" -> AtomicBroadcast[to[2]][1]
      [] to[1] = "Deliver"         -> Deliver[to[2]][1]

\* The bytes are a signature that the identity's certificate verifies.
SignedBy(identity, bytes, signature) ==
    /\ Len(signature) = 1 /\ signature[1][2] = "signature"
    /\ LET cert == FromString("SerializedIdentity", identity).id_bytes
       IN  Verify(cert[1][3], bytes, signature[1][3])

\* The creator's signature is on the bytes the header is in, and the tx_id is
\* the hash of nonce and creator.
Authentic(header, bytes, signature) ==
    /\ WellFormed("ChannelHeader", header.channel_header)
    /\ WellFormed("SignatureHeader", header.signature_header)
    /\ LET ch == FromString("ChannelHeader", header.channel_header)
           sh == FromString("SignatureHeader", header.signature_header)
       IN  /\ WellFormed("SerializedIdentity", sh.creator)
           /\ SignedBy(sh.creator, bytes, signature)
           /\ ch.tx_id = HexDigest(sh.nonce \o sh.creator)
           /\ ch.epoch = 0

-----------------------------------------------------------------------------

\* What an endorser hashes: the transient data is not in it.
ProposalHash(header, payloadBytes) ==
    LET payload == FromString("ChaincodeProposalPayload", payloadBytes)
    IN  Hash(header.channel_header \o header.signature_header
             \o SerializeToString("ChaincodeProposalPayload",
                                  [payload EXCEPT !.TransientMap = <<>>]))

\* The chaincode a proposal calls, with its input.
ChaincodeOf(payload) ==
    Sub("ChaincodeInvocationSpec",
        FromString("ChaincodeInvocationSpec", payload.input), "chaincode_spec")

AcceptsProposal(signed) ==
    /\ WellFormed("Proposal", signed.proposal_bytes)
    /\ LET proposal == FromString("Proposal", signed.proposal_bytes)
       IN  /\ WellFormed("Header", proposal.header)
           /\ WellFormed("ChaincodeProposalPayload", proposal.payload)
           /\ LET header == FromString("Header", proposal.header)
                  ch == FromString("ChannelHeader", header.channel_header)
                  extension == FromString("ChaincodeHeaderExtension", ch.extension)
                  payload == FromString("ChaincodeProposalPayload", proposal.payload)
                  spec == ChaincodeOf(payload)
              IN  /\ Authentic(header, signed.proposal_bytes, signed.signature)
                  /\ ch.type = HeaderType.ENDORSER_TRANSACTION
                  /\ WellFormed("ChaincodeInvocationSpec", payload.input)
                  /\ Has(extension, "chaincode_id")
                  /\ extension.chaincode_id.name
                        = Sub("ChaincodeSpec", spec, "chaincode_id").name

IdentityOf(node) ==
    SerializeToString("SerializedIdentity",
        New("SerializedIdentity", [mspid |-> Text("MSP"),
                                   id_bytes |-> Opaque("cert", node)]))

\* The answer of a peer that endorses.
Endorse(peer, signed) ==
    LET proposal == FromString("Proposal", signed.proposal_bytes)
        header == FromString("Header", proposal.header)
        bytes == SerializeToString("ProposalResponsePayload",
                    New("ProposalResponsePayload",
                        [proposal_hash |-> ProposalHash(header, proposal.payload),
                         extension |-> Opaque("results", 1)]))
        endorser == IdentityOf(peer)
    IN  SerializeToString("ProposalResponse",
            New("ProposalResponse",
                [version |-> 1, payload |-> bytes,
                 response |-> New("Response", [status |-> Status.SUCCESS]),
                 endorsement |->
                    New("Endorsement",
                        [endorser |-> endorser,
                         signature |-> Opaque("signature",
                                              Sign(peer, bytes \o endorser, 1))])]))

-----------------------------------------------------------------------------

\* Every action of a transaction carries the proposal that its endorsers have
\* signed the hash of.
AcceptsTransaction(header, data) ==
    /\ WellFormed("Transaction", data)
    /\ LET actions == FromString("Transaction", data).actions
       IN  /\ actions # <<>>
           /\ \A i \in DOMAIN actions :
                 /\ actions[i].header = header.signature_header
                 /\ WellFormed("ChaincodeActionPayload", actions[i].payload)
                 /\ LET payload == FromString("ChaincodeActionPayload",
                                              actions[i].payload)
                        action == Sub("ChaincodeActionPayload", payload, "action")
                        bytes == action.proposal_response_payload
                        response == FromString("ProposalResponsePayload", bytes)
                    IN  /\ response.proposal_hash
                              = Hash(header.channel_header \o header.signature_header
                                     \o payload.chaincode_proposal_payload)
                        /\ Len(action.endorsements) = Len(Peers)
                        /\ \A j \in DOMAIN action.endorsements :
                              LET e == action.endorsements[j]
                              IN  SignedBy(e.endorser, bytes \o e.endorser, e.signature)

AcceptsConfigUpdate(header, data) ==
    /\ WellFormed("ConfigUpdateEnvelope", data)
    /\ LET update == FromString("ConfigUpdateEnvelope", data)
           ch == FromString("ChannelHeader", header.channel_header)
       IN  /\ update.signatures # <<>>
           /\ \A i \in DOMAIN update.signatures :
                 LET s == update.signatures[i]
                     sh == FromString("SignatureHeader", s.signature_header)
                 IN  SignedBy(sh.creator, s.signature_header \o update.config_update,
                              s.signature)
           /\ FromString("ConfigUpdate", update.config_update).channel_id
                 = ch.channel_id

\* Broadcast and Deliver take envelopes, and the header says what is in them.
AcceptsEnvelope(method, envelope) ==
    /\ WellFormed("Payload", envelope.payload)
    /\ LET payload == FromString("Payload", envelope.payload)
           header == Sub("Payload", payload, "header")
           ch == FromString("ChannelHeader", header.channel_header)
       IN  /\ Authentic(header, envelope.payload, envelope.signature)
           /\ ch.channel_id # <<>>
           /\ CASE method # "Broadcast" ->
                      /\ ch.type = HeaderType.DELIVER_SEEK_INFO
                      /\ WellFormed("SeekInfo", payload.data)
                [] method = "Broadcast" /\ ch.type = HeaderType.CONFIG_UPDATE ->
                      AcceptsConfigUpdate(header, payload.data)
                [] method = "Broadcast" /\ ch.type # HeaderType.CONFIG_UPDATE ->
                      AcceptsTransaction(header, payload.data)

-----------------------------------------------------------------------------

SignedEnvelope(node, channelHeader, data) ==
    LET bytes == SerializeToString("Payload",
                    New("Payload",
                        [header |-> New("Header",
                            [channel_header |-> SerializeToString("ChannelHeader",
                                                                  channelHeader),
                             signature_header |->
                                SerializeToString("SignatureHeader",
                                    New("SignatureHeader",
                                        [creator |-> IdentityOf(node)]))]),
                         data |-> data]))
    IN  SerializeToString("Envelope",
            New("Envelope",
                [payload |-> bytes,
                 signature |-> Opaque("signature", Sign(node, bytes, 1))]))

\* A config envelope as the orderers put it into a block; the first one of a
\* channel may come without an update.
ConfigBytes(update) ==
    LET config == New("Config", [sequence |-> 1, channel_group |-> New("ConfigGroup", <<>>)])
    IN  SerializeToString("ConfigEnvelope",
            New("ConfigEnvelope",
                IF update = <<>> THEN [config |-> config]
                ELSE [config |-> config, last_update |-> FromString("Envelope", update)]))

\* A block with these envelopes and the validation codes of its transactions;
\* the orderers' blocks have none yet.
MakeBlock(number, data, codes) ==
    LET MetadataOf(value) ==
            SerializeToString("Metadata",
                New("Metadata",
                    [value |-> value,
                     signatures |-> <<New("MetadataSignature",
                        [signature_header |->
                            SerializeToString("SignatureHeader",
                                New("SignatureHeader",
                                    [creator |-> IdentityOf("orderer"),
                                     nonce |-> Opaque("nonce", number)])),
                         signature |-> Opaque("signature", number)])>>]))
    IN  New("Block",
            [header |-> New("BlockHeader", [number |-> number]),
             data |-> New("BlockData", [data |-> data]),
             metadata |-> New("BlockMetadata",
                [metadata |->
                    <<MetadataOf(<<>>),
                      MetadataOf(SerializeToString("LastConfig",
                                                   New("LastConfig", [index |-> 0]))),
                      [i \in DOMAIN codes |-> <<0, "byte", codes[i]>>],
                      <<>> >>])])

\* The filtered form of the same block.
MakeFilteredBlock(number, data, codes) ==
    LET HeaderOf(bytes) ==
            LET payload == FromString("Payload", FromString("Envelope", bytes).payload)
            IN  FromString("ChannelHeader",
                           Sub("Payload", payload, "header").channel_header)
    IN  New("FilteredBlock",
            [channel_id |-> Text("ch"), number |-> number,
             filtered_transactions |->
                [i \in DOMAIN data |->
                    New("FilteredTransaction",
                        [txid |-> HeaderOf(data[i]).tx_id, type |-> HeaderOf(data[i]).type,
                         tx_validation_code |-> codes[i]])]])
=============================================================================
