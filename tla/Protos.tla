------------------------------- MODULE Protos -------------------------------
(***************************************************************************)
(* The protocol's messages as the generated modules under protos/ describe *)
(* them: for each message type its fields, with number, type, label and    *)
(* oneof; for each enum its values; for each service its methods, with the *)
(* types of request and response.  A map field is, as in the descriptors,  *)
(* a repeated message of keys and values.                                  *)
(*                                                                         *)
(* The types are those of the messages that the client builds, sends and   *)
(* receives, and of what the blocks it decodes carry.                      *)
(***************************************************************************)

\* A field: the integers and the enums are varints on the wire, the rest is
\* length-delimited.
Field(number, kind, of, label, oneof) ==
    [number |-> number, kind |-> kind, of |-> of, label |-> label, oneof |-> oneof]

Scalar(number, kind) == Field(number, kind, "", "optional", "")

Varint(number) == Scalar(number, "int")

Bool(number) == Scalar(number, "bool")

String(number) == Scalar(number, "string")

Bytes(number) == Scalar(number, "bytes")

Enum(number, type) == Field(number, "enum", type, "optional", "")

Message(number, type) == Field(number, "message", type, "optional", "")

Repeated(f) == Field(f.number, f.kind, f.of, "repeated", f.oneof)

OneOf(name, f) == Field(f.number, f.kind, f.of, f.label, name)

\* The highest field number there is.
MaxNumber == 11

NoFields == [f \in {} |-> Scalar(0, "")]

\* google.protobuf.Timestamp (external).
Timestamp == [seconds |-> Varint(1), nanos |-> Varint(2)]

-----------------------------------------------------------------------------

\* common/common.proto.

Status ==
    [UNKNOWN |-> 0, SUCCESS |-> 200, BAD_REQUEST |-> 400, FORBIDDEN |-> 403,
     NOT_FOUND |-> 404, REQUEST_ENTITY_TOO_LARGE |-> 413,
     INTERNAL_SERVER_ERROR |-> 500, NOT_IMPLEMENTED |-> 501,
     SERVICE_UNAVAILABLE |-> 503]

HeaderType ==
    [MESSAGE |-> 0, CONFIG |-> 1, CONFIG_UPDATE |-> 2,
     ENDORSER_TRANSACTION |-> 3, ORDERER_TRANSACTION |-> 4,
     DELIVER_SEEK_INFO |-> 5, CHAINCODE_PACKAGE |-> 6,
     PEER_ADMIN_OPERATION |-> 8, TOKEN_TRANSACTION |-> 9]

BlockMetadataIndex ==
    [SIGNATURES |-> 0, LAST_CONFIG |-> 1, TRANSACTIONS_FILTER |-> 2,
     ORDERER |-> 3]

LastConfig == [index |-> Varint(1)]

Metadata ==
    [value |-> Bytes(1),
     signatures |-> Repeated(Message(2, "MetadataSignature"))]

MetadataSignature == [signature_header |-> Bytes(1), signature |-> Bytes(2)]

Header == [channel_header |-> Bytes(1), signature_header |-> Bytes(2)]

ChannelHeader ==
    [type |-> Varint(1), version |-> Varint(2),
     timestamp |-> Message(3, "Timestamp"), channel_id |-> String(4),
     tx_id |-> String(5), epoch |-> Varint(6), extension |-> Bytes(7),
     tls_cert_hash |-> Bytes(8)]

SignatureHeader == [creator |-> Bytes(1), nonce |-> Bytes(2)]

Payload == [header |-> Message(1, "Header"), data |-> Bytes(2)]

Envelope == [payload |-> Bytes(1), signature |-> Bytes(2)]

Block ==
    [header |-> Message(1, "BlockHeader"), data |-> Message(2, "BlockData"),
     metadata |-> Message(3, "BlockMetadata")]

BlockHeader ==
    [number |-> Varint(1), previous_hash |-> Bytes(2), data_hash |-> Bytes(3)]

BlockData == [data |-> Repeated(Bytes(1))]

BlockMetadata == [metadata |-> Repeated(Bytes(1))]

-----------------------------------------------------------------------------

\* common/configtx.proto.

ConfigEnvelope ==
    [config |-> Message(1, "Config"), last_update |-> Message(2, "Envelope")]

ConfigGroupSchema_GroupsEntry ==
    [key |-> String(1), value |-> Message(2, "ConfigGroupSchema")]

ConfigGroupSchema_ValuesEntry ==
    [key |-> String(1), value |-> Message(2, "ConfigValueSchema")]

ConfigGroupSchema_PoliciesEntry ==
    [key |-> String(1), value |-> Message(2, "ConfigPolicySchema")]

ConfigGroupSchema ==
    [groups |-> Repeated(Message(1, "ConfigGroupSchema_GroupsEntry")),
     values |-> Repeated(Message(2, "ConfigGroupSchema_ValuesEntry")),
     policies |-> Repeated(Message(3, "ConfigGroupSchema_PoliciesEntry"))]

ConfigValueSchema == NoFields

ConfigPolicySchema == NoFields

Config == [sequence |-> Varint(1), channel_group |-> Message(2, "ConfigGroup")]

ConfigUpdateEnvelope ==
    [config_update |-> Bytes(1),
     signatures |-> Repeated(Message(2, "ConfigSignature"))]

ConfigUpdate_IsolatedDataEntry == [key |-> String(1), value |-> Bytes(2)]

ConfigUpdate ==
    [channel_id |-> String(1), read_set |-> Message(2, "ConfigGroup"),
     write_set |-> Message(3, "ConfigGroup"),
     isolated_data |-> Repeated(Message(5, "ConfigUpdate_IsolatedDataEntry"))]

ConfigGroup_GroupsEntry ==
    [key |-> String(1), value |-> Message(2, "ConfigGroup")]

ConfigGroup_ValuesEntry ==
    [key |-> String(1), value |-> Message(2, "ConfigValue")]

ConfigGroup_PoliciesEntry ==
    [key |-> String(1), value |-> Message(2, "ConfigPolicy")]

ConfigGroup ==
    [version |-> Varint(1),
     groups |-> Repeated(Message(2, "ConfigGroup_GroupsEntry")),
     values |-> Repeated(Message(3, "ConfigGroup_ValuesEntry")),
     policies |-> Repeated(Message(4, "ConfigGroup_PoliciesEntry")),
     mod_policy |-> String(5)]

ConfigValue ==
    [version |-> Varint(1), value |-> Bytes(2), mod_policy |-> String(3)]

ConfigPolicy ==
    [version |-> Varint(1), policy |-> Message(2, "Policy"),
     mod_policy |-> String(3)]

ConfigSignature == [signature_header |-> Bytes(1), signature |-> Bytes(2)]

-----------------------------------------------------------------------------

\* common/policies.proto.

Policy_PolicyType ==
    [UNKNOWN |-> 0, SIGNATURE |-> 1, MSP |-> 2, IMPLICIT_META |-> 3]

ImplicitMetaPolicy_Rule == [ANY |-> 0, ALL |-> 1, MAJORITY |-> 2]

Policy == [type |-> Varint(1), value |-> Bytes(2)]

SignaturePolicyEnvelope ==
    [version |-> Varint(1), rule |-> Message(2, "SignaturePolicy"),
     identities |-> Repeated(Message(3, "MSPPrincipal"))]

SignaturePolicy_NOutOf ==
    [n |-> Varint(1), rules |-> Repeated(Message(2, "SignaturePolicy"))]

SignaturePolicy ==
    [signed_by |-> OneOf("Type", Varint(1)),
     n_out_of |-> OneOf("Type", Message(2, "SignaturePolicy_NOutOf"))]

ImplicitMetaPolicy ==
    [sub_policy |-> String(1), rule |-> Enum(2, "ImplicitMetaPolicy_Rule")]

-----------------------------------------------------------------------------

\* common/configuration.proto.

HashingAlgorithm == [name |-> String(1)]

BlockDataHashingStructure == [width |-> Varint(1)]

OrdererAddresses == [addresses |-> Repeated(String(1))]

Consortium == [name |-> String(1)]

Capabilities_CapabilitiesEntry ==
    [key |-> String(1), value |-> Message(2, "Capability")]

Capabilities ==
    [capabilities |-> Repeated(Message(1, "Capabilities_CapabilitiesEntry"))]

Capability == NoFields

-----------------------------------------------------------------------------

\* msp/identities.proto.

SerializedIdentity == [mspid |-> String(1), id_bytes |-> Bytes(2)]

SerializedIdemixIdentity ==
    [nym_x |-> Bytes(1), nym_y |-> Bytes(2), ou |-> Bytes(3), role |-> Bytes(4),
     proof |-> Bytes(5)]

-----------------------------------------------------------------------------

\* msp/msp_principal.proto.

MSPPrincipal_Classification ==
    [ROLE |-> 0, ORGANIZATION_UNIT |-> 1, IDENTITY |-> 2, ANONYMITY |-> 3,
     COMBINED |-> 4]

MSPRole_MSPRoleType == [MEMBER |-> 0, ADMIN |-> 1, CLIENT |-> 2, PEER |-> 3]

MSPIdentityAnonymity_MSPIdentityAnonymityType ==
    [NOMINAL |-> 0, ANONYMOUS |-> 1]

MSPPrincipal ==
    [principal_classification |-> Enum(1, "MSPPrincipal_Classification"),
     principal |-> Bytes(2)]

OrganizationUnit ==
    [msp_identifier |-> String(1), organizational_unit_identifier |-> String(2),
     certifiers_identifier |-> Bytes(3)]

MSPRole ==
    [msp_identifier |-> String(1), role |-> Enum(2, "MSPRole_MSPRoleType")]

MSPIdentityAnonymity ==
    [anonymity_type |-> Enum(1, "MSPIdentityAnonymity_MSPIdentityAnonymityType")]

CombinedPrincipal == [principals |-> Repeated(Message(1, "MSPPrincipal"))]

-----------------------------------------------------------------------------

\* msp/msp_config.proto.

MSPConfig == [type |-> Varint(1), config |-> Bytes(2)]

FabricMSPConfig ==
    [name |-> String(1), root_certs |-> Repeated(Bytes(2)),
     intermediate_certs |-> Repeated(Bytes(3)), admins |-> Repeated(Bytes(4)),
     revocation_list |-> Repeated(Bytes(5)),
     signing_identity |-> Message(6, "SigningIdentityInfo"),
     organizational_unit_identifiers |-> Repeated(Message(7, "FabricOUIdentifier")),
     crypto_config |-> Message(8, "FabricCryptoConfig"),
     tls_root_certs |-> Repeated(Bytes(9)),
     tls_intermediate_certs |-> Repeated(Bytes(10)),
     fabric_node_ous |-> Message(11, "FabricNodeOUs")]

FabricCryptoConfig ==
    [signature_hash_family |-> String(1),
     identity_identifier_hash_function |-> String(2)]

IdemixMSPConfig ==
    [name |-> String(1), ipk |-> Bytes(2),
     signer |-> Message(3, "IdemixMSPSignerConfig"), revocation_pk |-> Bytes(4),
     epoch |-> Varint(5)]

IdemixMSPSignerConfig ==
    [cred |-> Bytes(1), sk |-> Bytes(2),
     organizational_unit_identifier |-> String(3), role |-> Varint(4),
     enrollment_id |-> String(5),
     credential_revocation_information |-> Bytes(6)]

SigningIdentityInfo ==
    [public_signer |-> Bytes(1), private_signer |-> Message(2, "KeyInfo")]

KeyInfo == [key_identifier |-> String(1), key_material |-> Bytes(2)]

FabricOUIdentifier ==
    [certificate |-> Bytes(1), organizational_unit_identifier |-> String(2)]

FabricNodeOUs ==
    [enable |-> Bool(1),
     client_ou_identifier |-> Message(2, "FabricOUIdentifier"),
     peer_ou_identifier |-> Message(3, "FabricOUIdentifier")]

-----------------------------------------------------------------------------

\* orderer/ab.proto.

SeekInfo_SeekBehavior == [BLOCK_UNTIL_READY |-> 0, FAIL_IF_NOT_READY |-> 1]

BroadcastResponse == [status |-> Enum(1, "Status"), info |-> String(2)]

SeekNewest == NoFields

SeekOldest == NoFields

SeekSpecified == [number |-> Varint(1)]

SeekPosition ==
    [newest |-> OneOf("Type", Message(1, "SeekNewest")),
     oldest |-> OneOf("Type", Message(2, "SeekOldest")),
     specified |-> OneOf("Type", Message(3, "SeekSpecified"))]

SeekInfo ==
    [start |-> Message(1, "SeekPosition"), stop |-> Message(2, "SeekPosition"),
     behavior |-> Enum(3, "SeekInfo_SeekBehavior")]

OrdererDeliverResponse ==
    [status |-> OneOf("Type", Enum(1, "Status")),
     block |-> OneOf("Type", Message(2, "Block"))]

AtomicBroadcast ==
    [Broadcast |-> <<"Envelope", "BroadcastResponse">>,
     Deliver |-> <<"Envelope", "OrdererDeliverResponse">>]

-----------------------------------------------------------------------------

\* orderer/configuration.proto.

ConsensusType == [type |-> String(1), metadata |-> Bytes(2)]

BatchSize ==
    [max_message_count |-> Varint(1), absolute_max_bytes |-> Varint(2),
     preferred_max_bytes |-> Varint(3)]

BatchTimeout == [timeout |-> String(1)]

KafkaBrokers == [brokers |-> Repeated(String(1))]

ChannelRestrictions == [max_count |-> Varint(1)]

-----------------------------------------------------------------------------

\* peer/chaincode.proto.

ConfidentialityLevel == [PUBLIC |-> 0, CONFIDENTIAL |-> 1]

ChaincodeSpec_Type ==
    [UNDEFINED |-> 0, GOLANG |-> 1, NODE |-> 2, CAR |-> 3, JAVA |-> 4]

ChaincodeDeploymentSpec_ExecutionEnvironment == [DOCKER |-> 0, SYSTEM |-> 1]

ChaincodeID == [path |-> String(1), name |-> String(2), version |-> String(3)]

ChaincodeInput_DecorationsEntry == [key |-> String(1), value |-> Bytes(2)]

ChaincodeInput ==
    [args |-> Repeated(Bytes(1)),
     decorations |-> Repeated(Message(2, "ChaincodeInput_DecorationsEntry"))]

ChaincodeSpec ==
    [type |-> Enum(1, "ChaincodeSpec_Type"),
     chaincode_id |-> Message(2, "ChaincodeID"),
     input |-> Message(3, "ChaincodeInput"), timeout |-> Varint(4)]

ChaincodeDeploymentSpec ==
    [chaincode_spec |-> Message(1, "ChaincodeSpec"), code_package |-> Bytes(3),
     exec_env |-> Enum(4, "ChaincodeDeploymentSpec_ExecutionEnvironment")]

ChaincodeInvocationSpec == [chaincode_spec |-> Message(1, "ChaincodeSpec")]

LifecycleEvent == [chaincode_name |-> String(1)]

CDSData == [hash |-> Bytes(1), metadatahash |-> Bytes(2)]

ChaincodeData ==
    [name |-> String(1), version |-> String(2), escc |-> String(3),
     vscc |-> String(4), policy |-> Message(5, "SignaturePolicyEnvelope"),
     data |-> Message(6, "CDSData"), id |-> Bytes(7),
     instantiation_policy |-> Message(8, "SignaturePolicyEnvelope")]

-----------------------------------------------------------------------------

\* peer/chaincode_event.proto.

ChaincodeEvent ==
    [chaincode_id |-> String(1), tx_id |-> String(2), event_name |-> String(3),
     payload |-> Bytes(4)]

-----------------------------------------------------------------------------

\* peer/proposal.proto.

SignedProposal == [proposal_bytes |-> Bytes(1), signature |-> Bytes(2)]

Proposal == [header |-> Bytes(1), payload |-> Bytes(2), extension |-> Bytes(3)]

ChaincodeHeaderExtension ==
    [payload_visibility |-> Bytes(1),
     chaincode_id |-> Message(2, "ChaincodeID")]

ChaincodeProposalPayload_TransientMapEntry ==
    [key |-> String(1), value |-> Bytes(2)]

ChaincodeProposalPayload ==
    [input |-> Bytes(1),
     TransientMap |-> Repeated(Message(2, "ChaincodeProposalPayload_TransientMapEntry"))]

ChaincodeAction ==
    [results |-> Bytes(1), events |-> Bytes(2),
     response |-> Message(3, "Response"),
     chaincode_id |-> Message(4, "ChaincodeID"),
     token_expectation |-> Message(5, "TokenExpectation")]

-----------------------------------------------------------------------------

\* peer/proposal_response.proto.

ProposalResponse ==
    [version |-> Varint(1), timestamp |-> Message(2, "Timestamp"),
     response |-> Message(4, "Response"), payload |-> Bytes(5),
     endorsement |-> Message(6, "Endorsement")]

Response == [status |-> Varint(1), message |-> String(2), payload |-> Bytes(3)]

ProposalResponsePayload == [proposal_hash |-> Bytes(1), extension |-> Bytes(2)]

Endorsement == [endorser |-> Bytes(1), signature |-> Bytes(2)]

-----------------------------------------------------------------------------

\* peer/query.proto.

ChaincodeQueryResponse ==
    [chaincodes |-> Repeated(Message(1, "ChaincodeInfo"))]

ChaincodeInfo ==
    [name |-> String(1), version |-> String(2), path |-> String(3),
     input |-> String(4), escc |-> String(5), vscc |-> String(6),
     id |-> Bytes(7)]

ChannelQueryResponse == [channels |-> Repeated(Message(1, "ChannelInfo"))]

ChannelInfo == [channel_id |-> String(1)]

-----------------------------------------------------------------------------

\* peer/transaction.proto.

TxValidationCode ==
    [VALID |-> 0, NIL_ENVELOPE |-> 1, BAD_PAYLOAD |-> 2,
     BAD_COMMON_HEADER |-> 3, BAD_CREATOR_SIGNATURE |-> 4,
     INVALID_ENDORSER_TRANSACTION |-> 5, INVALID_CONFIG_TRANSACTION |-> 6,
     UNSUPPORTED_TX_PAYLOAD |-> 7, BAD_PROPOSAL_TXID |-> 8,
     DUPLICATE_TXID |-> 9, ENDORSEMENT_POLICY_FAILURE |-> 10,
     MVCC_READ_CONFLICT |-> 11, PHANTOM_READ_CONFLICT |-> 12,
     UNKNOWN_TX_TYPE |-> 13, TARGET_CHAIN_NOT_FOUND |-> 14,
     MARSHAL_TX_ERROR |-> 15, NIL_TXACTION |-> 16, EXPIRED_CHAINCODE |-> 17,
     CHAINCODE_VERSION_CONFLICT |-> 18, BAD_HEADER_EXTENSION |-> 19,
     BAD_CHANNEL_HEADER |-> 20, BAD_RESPONSE_PAYLOAD |-> 21, BAD_RWSET |-> 22,
     ILLEGAL_WRITESET |-> 23, INVALID_WRITESET |-> 24, NOT_VALIDATED |-> 254,
     INVALID_OTHER_REASON |-> 255]

MetaDataKeys == [VALIDATION_PARAMETER |-> 0]

SignedTransaction == [transaction_bytes |-> Bytes(1), signature |-> Bytes(2)]

ProcessedTransaction ==
    [transactionEnvelope |-> Message(1, "Envelope"),
     validationCode |-> Varint(2)]

Transaction == [actions |-> Repeated(Message(1, "TransactionAction"))]

TransactionAction == [header |-> Bytes(1), payload |-> Bytes(2)]

ChaincodeActionPayload ==
    [chaincode_proposal_payload |-> Bytes(1),
     action |-> Message(2, "ChaincodeEndorsedAction")]

ChaincodeEndorsedAction ==
    [proposal_response_payload |-> Bytes(1),
     endorsements |-> Repeated(Message(2, "Endorsement"))]

-----------------------------------------------------------------------------

\* peer/events.proto.

FilteredBlock ==
    [channel_id |-> String(1), number |-> Varint(2),
     filtered_transactions |-> Repeated(Message(4, "FilteredTransaction"))]

FilteredTransaction ==
    [txid |-> String(1), type |-> Enum(2, "HeaderType"),
     tx_validation_code |-> Enum(3, "TxValidationCode"),
     transaction_actions |-> OneOf("Data", Message(4, "FilteredTransactionActions"))]

FilteredTransactionActions ==
    [chaincode_actions |-> Repeated(Message(1, "FilteredChaincodeAction"))]

FilteredChaincodeAction == [chaincode_event |-> Message(1, "ChaincodeEvent")]

DeliverResponse ==
    [status |-> OneOf("Type", Enum(1, "Status")),
     block |-> OneOf("Type", Message(2, "Block")),
     filtered_block |-> OneOf("Type", Message(3, "FilteredBlock"))]

Deliver ==
    [Deliver |-> <<"Envelope", "DeliverResponse">>,
     DeliverFiltered |-> <<"Envelope", "DeliverResponse">>]

-----------------------------------------------------------------------------

\* peer/peer.proto.

PeerID == [name |-> String(1)]

PeerEndpoint == [id |-> Message(1, "PeerID"), address |-> String(2)]

Endorser == [ProcessProposal |-> <<"SignedProposal", "ProposalResponse">>]

-----------------------------------------------------------------------------

\* peer/configuration.proto.

AnchorPeers == [anchor_peers |-> Repeated(Message(1, "AnchorPeer"))]

AnchorPeer == [host |-> String(1), port |-> Varint(2)]

APIResource == [policy_ref |-> String(1)]

ACLs_AclsEntry == [key |-> String(1), value |-> Message(2, "APIResource")]

ACLs == [acls |-> Repeated(Message(1, "ACLs_AclsEntry"))]

-----------------------------------------------------------------------------

\* token/transaction.proto.

TokenTransaction ==
    [plain_action |-> OneOf("action", Message(1, "PlainTokenAction"))]

PlainTokenAction ==
    [plain_import |-> OneOf("data", Message(1, "PlainImport")),
     plain_transfer |-> OneOf("data", Message(2, "PlainTransfer")),
     plain_redeem |-> OneOf("data", Message(3, "PlainTransfer")),
     plain_approve |-> OneOf("data", Message(4, "PlainApprove")),
     plain_transfer_From |-> OneOf("data", Message(5, "PlainTransferFrom"))]

PlainImport == [outputs |-> Repeated(Message(1, "PlainOutput"))]

PlainTransfer ==
    [inputs |-> Repeated(Message(1, "InputId")),
     outputs |-> Repeated(Message(2, "PlainOutput"))]

PlainApprove ==
    [inputs |-> Repeated(Message(1, "InputId")),
     delegated_outputs |-> Repeated(Message(2, "PlainDelegatedOutput")),
     output |-> Message(3, "PlainOutput")]

PlainTransferFrom ==
    [inputs |-> Repeated(Message(1, "InputId")),
     outputs |-> Repeated(Message(2, "PlainOutput")),
     delegated_output |-> Message(3, "PlainDelegatedOutput")]

PlainOutput == [owner |-> Bytes(1), type |-> String(2), quantity |-> Varint(3)]

InputId == [tx_id |-> String(1), index |-> Varint(2)]

PlainDelegatedOutput ==
    [owner |-> Bytes(1), delegatees |-> Repeated(Bytes(2)), type |-> String(3),
     quantity |-> Varint(4)]

-----------------------------------------------------------------------------

\* token/expectations.proto.

TokenExpectation ==
    [plain_expectation |-> OneOf("Expectation", Message(1, "PlainExpectation"))]

PlainExpectation ==
    [import_expectation |-> OneOf("payload", Message(1, "PlainTokenExpectation")),
     transfer_expectation |-> OneOf("payload", Message(2, "PlainTokenExpectation"))]

PlainTokenExpectation == [outputs |-> Repeated(Message(1, "PlainOutput"))]

-----------------------------------------------------------------------------

\* ledger/rwset/rwset.proto.

TxReadWriteSet_DataModel == [KV |-> 0]

TxReadWriteSet ==
    [data_model |-> Enum(1, "TxReadWriteSet_DataModel"),
     ns_rwset |-> Repeated(Message(2, "NsReadWriteSet"))]

NsReadWriteSet ==
    [namespace |-> String(1), rwset |-> Bytes(2),
     collection_hashed_rwset |-> Repeated(Message(3, "CollectionHashedReadWriteSet"))]

CollectionHashedReadWriteSet ==
    [collection_name |-> String(1), hashed_rwset |-> Bytes(2),
     pvt_rwset_hash |-> Bytes(3)]

TxPvtReadWriteSet ==
    [data_model |-> Enum(1, "TxReadWriteSet_DataModel"),
     ns_pvt_rwset |-> Repeated(Message(2, "NsPvtReadWriteSet"))]

NsPvtReadWriteSet ==
    [namespace |-> String(1),
     collection_pvt_rwset |-> Repeated(Message(2, "CollectionPvtReadWriteSet"))]

CollectionPvtReadWriteSet ==
    [collection_name |-> String(1), rwset |-> Bytes(2)]

-----------------------------------------------------------------------------

\* ledger/rwset/kvrwset/kv_rwset.proto.

KVRWSet ==
    [reads |-> Repeated(Message(1, "KVRead")),
     range_queries_info |-> Repeated(Message(2, "RangeQueryInfo")),
     writes |-> Repeated(Message(3, "KVWrite")),
     metadata_writes |-> Repeated(Message(4, "KVMetadataWrite"))]

HashedRWSet ==
    [hashed_reads |-> Repeated(Message(1, "KVReadHash")),
     hashed_writes |-> Repeated(Message(2, "KVWriteHash")),
     metadata_writes |-> Repeated(Message(3, "KVMetadataWriteHash"))]

KVRead == [key |-> String(1), version |-> Message(2, "Version")]

KVWrite == [key |-> String(1), is_delete |-> Bool(2), value |-> Bytes(3)]

KVMetadataWrite ==
    [key |-> String(1), entries |-> Repeated(Message(2, "KVMetadataEntry"))]

KVReadHash == [key_hash |-> Bytes(1), version |-> Message(2, "Version")]

KVWriteHash ==
    [key_hash |-> Bytes(1), is_delete |-> Bool(2), value_hash |-> Bytes(3)]

KVMetadataWriteHash ==
    [key_hash |-> Bytes(1), entries |-> Repeated(Message(2, "KVMetadataEntry"))]

KVMetadataEntry == [name |-> String(1), value |-> Bytes(2)]

Version == [block_num |-> Varint(1), tx_num |-> Varint(2)]

RangeQueryInfo ==
    [start_key |-> String(1), end_key |-> String(2), itr_exhausted |-> Bool(3),
     raw_reads |-> OneOf("reads_info", Message(4, "QueryReads")),
     reads_merkle_hashes |-> OneOf("reads_info", Message(5, "QueryReadsMerkleSummary"))]

QueryReads == [kv_reads |-> Repeated(Message(1, "KVRead"))]

QueryReadsMerkleSummary ==
    [max_degree |-> Varint(1), max_level |-> Varint(2),
     max_level_hashes |-> Repeated(Bytes(3))]

-----------------------------------------------------------------------------
\* The message types by name, package by package (common, msp, orderer, ...), and
\* the enums.
MessageTypes ==
    LET types ==
        [LastConfig |-> LastConfig, Metadata |-> Metadata,
         MetadataSignature |-> MetadataSignature, Header |-> Header,
         ChannelHeader |-> ChannelHeader, SignatureHeader |-> SignatureHeader,
         Payload |-> Payload, Envelope |-> Envelope, Block |-> Block,
         BlockHeader |-> BlockHeader, BlockData |-> BlockData,
         BlockMetadata |-> BlockMetadata, ConfigEnvelope |-> ConfigEnvelope,
         ConfigGroupSchema_GroupsEntry |-> ConfigGroupSchema_GroupsEntry,
         ConfigGroupSchema_ValuesEntry |-> ConfigGroupSchema_ValuesEntry,
         ConfigGroupSchema_PoliciesEntry |-> ConfigGroupSchema_PoliciesEntry,
         ConfigGroupSchema |-> ConfigGroupSchema,
         ConfigValueSchema |-> ConfigValueSchema,
         ConfigPolicySchema |-> ConfigPolicySchema, Config |-> Config,
         ConfigUpdateEnvelope |-> ConfigUpdateEnvelope,
         ConfigUpdate_IsolatedDataEntry |-> ConfigUpdate_IsolatedDataEntry,
         ConfigUpdate |-> ConfigUpdate,
         ConfigGroup_GroupsEntry |-> ConfigGroup_GroupsEntry,
         ConfigGroup_ValuesEntry |-> ConfigGroup_ValuesEntry,
         ConfigGroup_PoliciesEntry |-> ConfigGroup_PoliciesEntry,
         ConfigGroup |-> ConfigGroup, ConfigValue |-> ConfigValue,
         ConfigPolicy |-> ConfigPolicy, ConfigSignature |-> ConfigSignature,
         Policy |-> Policy, SignaturePolicyEnvelope |-> SignaturePolicyEnvelope,
         SignaturePolicy_NOutOf |-> SignaturePolicy_NOutOf,
         SignaturePolicy |-> SignaturePolicy,
         ImplicitMetaPolicy |-> ImplicitMetaPolicy,
         HashingAlgorithm |-> HashingAlgorithm,
         BlockDataHashingStructure |-> BlockDataHashingStructure,
         OrdererAddresses |-> OrdererAddresses, Consortium |-> Consortium,
         Capabilities_CapabilitiesEntry |-> Capabilities_CapabilitiesEntry,
         Capabilities |-> Capabilities, Capability |-> Capability,
         SerializedIdentity |-> SerializedIdentity,
         SerializedIdemixIdentity |-> SerializedIdemixIdentity,
         MSPPrincipal |-> MSPPrincipal, OrganizationUnit |-> OrganizationUnit,
         MSPRole |-> MSPRole, MSPIdentityAnonymity |-> MSPIdentityAnonymity,
         CombinedPrincipal |-> CombinedPrincipal, MSPConfig |-> MSPConfig,
         FabricMSPConfig |-> FabricMSPConfig,
         FabricCryptoConfig |-> FabricCryptoConfig,
         IdemixMSPConfig |-> IdemixMSPConfig,
         IdemixMSPSignerConfig |-> IdemixMSPSignerConfig,
         SigningIdentityInfo |-> SigningIdentityInfo, KeyInfo |-> KeyInfo,
         FabricOUIdentifier |-> FabricOUIdentifier,
         FabricNodeOUs |-> FabricNodeOUs, BroadcastResponse |-> BroadcastResponse,
         SeekNewest |-> SeekNewest, SeekOldest |-> SeekOldest,
         SeekSpecified |-> SeekSpecified, SeekPosition |-> SeekPosition,
         SeekInfo |-> SeekInfo, OrdererDeliverResponse |-> OrdererDeliverResponse,
         ConsensusType |-> ConsensusType, BatchSize |-> BatchSize,
         BatchTimeout |-> BatchTimeout, KafkaBrokers |-> KafkaBrokers,
         ChannelRestrictions |-> ChannelRestrictions, ChaincodeID |-> ChaincodeID,
         ChaincodeInput_DecorationsEntry |-> ChaincodeInput_DecorationsEntry,
         ChaincodeInput |-> ChaincodeInput, ChaincodeSpec |-> ChaincodeSpec,
         ChaincodeDeploymentSpec |-> ChaincodeDeploymentSpec,
         ChaincodeInvocationSpec |-> ChaincodeInvocationSpec,
         LifecycleEvent |-> LifecycleEvent, CDSData |-> CDSData,
         ChaincodeData |-> ChaincodeData, ChaincodeEvent |-> ChaincodeEvent,
         SignedProposal |-> SignedProposal, Proposal |-> Proposal,
         ChaincodeHeaderExtension |-> ChaincodeHeaderExtension,
         ChaincodeProposalPayload_TransientMapEntry |-> ChaincodeProposalPayload_TransientMapEntry,
         ChaincodeProposalPayload |-> ChaincodeProposalPayload,
         ChaincodeAction |-> ChaincodeAction,
         ProposalResponse |-> ProposalResponse, Response |-> Response,
         ProposalResponsePayload |-> ProposalResponsePayload,
         Endorsement |-> Endorsement,
         ChaincodeQueryResponse |-> ChaincodeQueryResponse,
         ChaincodeInfo |-> ChaincodeInfo,
         ChannelQueryResponse |-> ChannelQueryResponse,
         ChannelInfo |-> ChannelInfo, SignedTransaction |-> SignedTransaction,
         ProcessedTransaction |-> ProcessedTransaction,
         Transaction |-> Transaction, TransactionAction |-> TransactionAction,
         ChaincodeActionPayload |-> ChaincodeActionPayload,
         ChaincodeEndorsedAction |-> ChaincodeEndorsedAction,
         FilteredBlock |-> FilteredBlock,
         FilteredTransaction |-> FilteredTransaction,
         FilteredTransactionActions |-> FilteredTransactionActions,
         FilteredChaincodeAction |-> FilteredChaincodeAction,
         DeliverResponse |-> DeliverResponse, PeerID |-> PeerID,
         PeerEndpoint |-> PeerEndpoint, AnchorPeers |-> AnchorPeers,
         AnchorPeer |-> AnchorPeer, APIResource |-> APIResource,
         ACLs_AclsEntry |-> ACLs_AclsEntry, ACLs |-> ACLs,
         TokenTransaction |-> TokenTransaction,
         PlainTokenAction |-> PlainTokenAction, PlainImport |-> PlainImport,
         PlainTransfer |-> PlainTransfer, PlainApprove |-> PlainApprove,
         PlainTransferFrom |-> PlainTransferFrom, PlainOutput |-> PlainOutput,
         InputId |-> InputId, PlainDelegatedOutput |-> PlainDelegatedOutput,
         TokenExpectation |-> TokenExpectation,
         PlainExpectation |-> PlainExpectation,
         PlainTokenExpectation |-> PlainTokenExpectation,
         TxReadWriteSet |-> TxReadWriteSet, NsReadWriteSet |-> NsReadWriteSet,
         CollectionHashedReadWriteSet |-> CollectionHashedReadWriteSet,
         TxPvtReadWriteSet |-> TxPvtReadWriteSet,
         NsPvtReadWriteSet |-> NsPvtReadWriteSet,
         CollectionPvtReadWriteSet |-> CollectionPvtReadWriteSet,
         KVRWSet |-> KVRWSet, HashedRWSet |-> HashedRWSet, KVRead |-> KVRead,
         KVWrite |-> KVWrite, KVMetadataWrite |-> KVMetadataWrite,
         KVReadHash |-> KVReadHash, KVWriteHash |-> KVWriteHash,
         KVMetadataWriteHash |-> KVMetadataWriteHash,
         KVMetadataEntry |-> KVMetadataEntry, Version |-> Version,
         RangeQueryInfo |-> RangeQueryInfo, QueryReads |-> QueryReads,
         QueryReadsMerkleSummary |-> QueryReadsMerkleSummary,
         Timestamp |-> Timestamp]
    IN  types

Enums ==
    [Status |-> Status, HeaderType |-> HeaderType,
     BlockMetadataIndex |-> BlockMetadataIndex,
     Policy_PolicyType |-> Policy_PolicyType,
     ImplicitMetaPolicy_Rule |-> ImplicitMetaPolicy_Rule,
     MSPPrincipal_Classification |-> MSPPrincipal_Classification,
     MSPRole_MSPRoleType |-> MSPRole_MSPRoleType,
     MSPIdentityAnonymity_MSPIdentityAnonymityType |-> MSPIdentityAnonymity_MSPIdentityAnonymityType,
     SeekInfo_SeekBehavior |-> SeekInfo_SeekBehavior,
     ConfidentialityLevel |-> ConfidentialityLevel,
     ChaincodeSpec_Type |-> ChaincodeSpec_Type,
     ChaincodeDeploymentSpec_ExecutionEnvironment |-> ChaincodeDeploymentSpec_ExecutionEnvironment,
     TxValidationCode |-> TxValidationCode, MetaDataKeys |-> MetaDataKeys,
     TxReadWriteSet_DataModel |-> TxReadWriteSet_DataModel]
=============================================================================
