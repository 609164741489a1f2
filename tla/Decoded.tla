------------------------------ MODULE Decoded -------------------------------
(***************************************************************************)
(* How the blocks of a stream are decoded (models/_decoded.py, block.py    *)
(* and FilteredTX): every layer of bytes that has a known type is parsed.  *)
(***************************************************************************)
EXTENDS Sequences, Protobuf

\* Mutant: the types above 6 are forgotten.
TransactionTypeShort ==
    [Message |-> 0, Config |-> 1, ConfigUpdate |-> 2, EndorserTransaction |-> 3,
     OrdererTransaction |-> 4, DeliverSeekInfo |-> 5, ChaincodePackage |-> 6]

\* constants.TransactionType: the client's own names of the header types.
TransactionType ==
    [Message |-> 0, Config |-> 1, ConfigUpdate |-> 2, EndorserTransaction |-> 3,
     OrdererTransaction |-> 4, DeliverSeekInfo |-> 5, ChaincodePackage |-> 6,
     PeerAdminOperation |-> 8, TokenTransaction |-> 9]

IsTransactionType(n) == \E t \in DOMAIN TransactionType : TransactionType[t] = n

-----------------------------------------------------------------------------

DecodeSignatureHeader(bytes) ==
    LET header == FromString("SignatureHeader", bytes)
    IN  [creator |-> FromString("SerializedIdentity", header.creator),
         nonce |-> header.nonce]

DecodeHeader(header) ==
    [channel_header |-> FromString("ChannelHeader", header.channel_header),
     signature_header |-> DecodeSignatureHeader(header.signature_header)]

DecodeConfigUpdateEnvelope(bytes) ==
    LET envelope == FromString("ConfigUpdateEnvelope", bytes)
    IN  [config_update |-> FromString("ConfigUpdate", envelope.config_update),
         signatures |->
            [i \in DOMAIN envelope.signatures |->
                [signature_header |->
                    DecodeSignatureHeader(envelope.signatures[i].signature_header),
                 signature |-> envelope.signatures[i].signature]]]

\* The last update may be missing: the genesis block has none.
DecodeConfig(bytes) ==
    LET envelope == FromString("ConfigEnvelope", bytes)
        update == Sub("ConfigEnvelope", envelope, "last_update")
        payload == FromString("Payload", update.payload)
    IN  [config |-> Sub("ConfigEnvelope", envelope, "config"),
         last_update |->
            [payload |-> [header |-> DecodeHeader(Sub("Payload", payload, "header")),
                          data |-> DecodeConfigUpdateEnvelope(payload.data)],
             signature |-> update.signature]]

DecodeTransactionAction(taction) ==
    LET payload == FromString("ChaincodeActionPayload", taction.payload)
        action == Sub("ChaincodeActionPayload", payload, "action")
    IN  [header |-> DecodeSignatureHeader(taction.header),
         payload |->
            [action |->
                [proposal_response_payload |->
                    FromString("ProposalResponsePayload", action.proposal_response_payload),
                 endorsements |->
                    [i \in DOMAIN action.endorsements |->
                        [endorser |-> FromString("SerializedIdentity",
                                                 action.endorsements[i].endorser),
                         signature |-> action.endorsements[i].signature]]],
             chaincode_proposal_payload |->
                FromString("ChaincodeProposalPayload",
                           payload.chaincode_proposal_payload)]]

DecodeTransactionBody(bytes) ==
    LET transaction == FromString("Transaction", bytes)
    IN  [actions |-> [i \in DOMAIN transaction.actions |->
                         DecodeTransactionAction(transaction.actions[i])]]

\* DecodedTX.decode: the payload of the other types stays bytes.
DecodeTX(bytes) ==
    LET envelope == FromString("Envelope", bytes)
        payload == FromString("Payload", envelope.payload)
        header == DecodeHeader(Sub("Payload", payload, "header"))
        type == header.channel_header.type
    IN  [signature |-> envelope.signature,
         payload |->
            [header |-> header,
             data |-> CASE type = TransactionType.Config ->
                              DecodeConfig(payload.data)
                        [] type = TransactionType.ConfigUpdate ->
                              DecodeConfigUpdateEnvelope(payload.data)
                        [] type = TransactionType.EndorserTransaction ->
                              DecodeTransactionBody(payload.data)
                        [] OTHER -> payload.data]]

DecodeMetadataSignatures(metadata) ==
    [i \in DOMAIN metadata.signatures |->
        [signatures |-> metadata.signatures[i].signature,
         signature_header |->
            DecodeSignatureHeader(metadata.signatures[i].signature_header)]]

\* A Python list of bytes counts from 0; list(bytes) is the list of the bytes.
DecodeBlockMetadata(list) ==
    LET At(i) == list[i + 1]
        lastConfig == FromString("Metadata", At(BlockMetadataIndex.LAST_CONFIG))
        signatures == FromString("Metadata", At(BlockMetadataIndex.SIGNATURES))
        filter == At(BlockMetadataIndex.TRANSACTIONS_FILTER)
    IN  [signatures |-> [value |-> signatures.value,
                         signatures |-> DecodeMetadataSignatures(signatures)],
         last_config |-> [value |-> FromString("LastConfig", lastConfig.value),
                          signatures |-> DecodeMetadataSignatures(lastConfig)],
         filter |-> [i \in DOMAIN filter |-> filter[i][3]]]

\* RawBlock.decode.
DecodeBlock(raw) ==
    [header |-> raw.header,
     data |-> [i \in DOMAIN raw.data.data |-> DecodeTX(raw.data.data[i])],
     metadata |-> DecodeBlockMetadata(raw.metadata.metadata)]

-----------------------------------------------------------------------------
(* Which of the above come to an end without an exception.                  *)

DecodesSignatureHeader(bytes) ==
    /\ WellFormed("SignatureHeader", bytes)
    /\ WellFormed("SerializedIdentity", FromString("SignatureHeader", bytes).creator)

DecodesHeader(header) ==
    /\ WellFormed("ChannelHeader", header.channel_header)
    /\ DecodesSignatureHeader(header.signature_header)

DecodesConfigUpdateEnvelope(bytes) ==
    LET envelope == FromString("ConfigUpdateEnvelope", bytes)
    IN  /\ WellFormed("ConfigUpdateEnvelope", bytes)
        /\ WellFormed("ConfigUpdate", envelope.config_update)
        /\ \A i \in DOMAIN envelope.signatures :
              DecodesSignatureHeader(envelope.signatures[i].signature_header)

DecodesConfig(bytes) ==
    LET envelope == FromString("ConfigEnvelope", bytes)
        update == Sub("ConfigEnvelope", envelope, "last_update")
        payload == FromString("Payload", update.payload)
    IN  /\ WellFormed("ConfigEnvelope", bytes)
        /\ WellFormed("Payload", update.payload)
        /\ DecodesHeader(Sub("Payload", payload, "header"))
        /\ DecodesConfigUpdateEnvelope(payload.data)

DecodesTransactionAction(taction) ==
    LET payload == FromString("ChaincodeActionPayload", taction.payload)
        action == Sub("ChaincodeActionPayload", payload, "action")
    IN  /\ DecodesSignatureHeader(taction.header)
        /\ WellFormed("ChaincodeActionPayload", taction.payload)
        /\ WellFormed("ProposalResponsePayload", action.proposal_response_payload)
        /\ \A i \in DOMAIN action.endorsements :
              WellFormed("SerializedIdentity", action.endorsements[i].endorser)
        /\ WellFormed("ChaincodeProposalPayload", payload.chaincode_proposal_payload)

DecodesTransactionBody(bytes) ==
    LET transaction == FromString("Transaction", bytes)
    IN  /\ WellFormed("Transaction", bytes)
        /\ \A i \in DOMAIN transaction.actions :
              DecodesTransactionAction(transaction.actions[i])

\* TransactionType(n) raises a ValueError for another n.
DecodesTX(bytes) ==
    LET envelope == FromString("Envelope", bytes)
        payload == FromString("Payload", envelope.payload)
        header == Sub("Payload", payload, "header")
        type == FromString("ChannelHeader", header.channel_header).type
    IN  /\ WellFormed("Envelope", bytes)
        /\ WellFormed("Payload", envelope.payload)
        /\ DecodesHeader(header)
        /\ IsTransactionType(type)
        /\ type = TransactionType.Config => DecodesConfig(payload.data)
        /\ type = TransactionType.ConfigUpdate =>
              DecodesConfigUpdateEnvelope(payload.data)
        /\ type = TransactionType.EndorserTransaction =>
              DecodesTransactionBody(payload.data)

DecodesMetadata(bytes) ==
    LET metadata == FromString("Metadata", bytes)
    IN  /\ WellFormed("Metadata", bytes)
        /\ \A i \in DOMAIN metadata.signatures :
              DecodesSignatureHeader(metadata.signatures[i].signature_header)

DecodesBlockMetadata(list) ==
    LET lastConfig == list[BlockMetadataIndex.LAST_CONFIG + 1]
    IN  /\ Len(list) > BlockMetadataIndex.TRANSACTIONS_FILTER
        /\ DecodesMetadata(lastConfig)
        /\ WellFormed("LastConfig", FromString("Metadata", lastConfig).value)
        /\ DecodesMetadata(list[BlockMetadataIndex.SIGNATURES + 1])

DecodesBlock(raw) ==
    /\ \A i \in DOMAIN raw.data.data : DecodesTX(raw.data.data[i])
    /\ DecodesBlockMetadata(raw.metadata.metadata)

-----------------------------------------------------------------------------

\* RawBlock.from_proto and as_proto.
RawBlockFromProto(block) ==
    [header |-> Sub("Block", block, "header"), data |-> Sub("Block", block, "data"),
     metadata |-> Sub("Block", block, "metadata")]

RawBlockAsProto(raw) == New("Block", raw)

FilteredTXFromProto(tx) ==
    [tx_id |-> tx.txid, type |-> tx.type, tx_validation_code |-> tx.tx_validation_code,
     actions |-> Sub("FilteredTransaction", tx, "transaction_actions")]

FilteredBlockFromProto(block) ==
    [channel_id |-> block.channel_id, number |-> block.number,
     transactions |-> [i \in DOMAIN block.filtered_transactions |->
                          FilteredTXFromProto(block.filtered_transactions[i])]]
=============================================================================
