----------------------------- MODULE Factories ------------------------------
(***************************************************************************)
(* The messages the client builds (factories.py, and the arguments that    *)
(* transact.py and operations.py give them), down to their bytes.          *)
(*                                                                         *)
(* A user stands for its certificate and its key.  The scalar that each    *)
(* ECDSA signature comes up with is an argument, s.  Times are left out.   *)
(***************************************************************************)
EXTENDS Sequences, Protobuf, Crypto

\* A str is its characters and what they are: "ascii", "latin1" (some beyond
\* ASCII) or "wide" (some beyond latin1).  encode_proto_bytes raises for the
\* wide ones.  encode_proto_str reads the latin1 bytes as UTF-8, which raises for
\* what is not ASCII; a latin1 text that happens to be UTF-8 is left out.
EncodeProtoBytes(val) ==
    IF val.chars = "ascii" THEN Text(val.str) ELSE Opaque("latin1", val.str)

EncodesProtoBytes(val) == val.chars \in {"ascii", "latin1"}

EncodesProtoStr(val) == val.chars = "ascii"

Ascii(s) == [chars |-> "ascii", str |-> s]

\* The lines of a PEM file, from the second to the last but two.
PemToDer(pem) == Opaque("der", SubSeq(pem, 2, Len(pem) - 2))

\* crypto_suite.sign, in DER.
SignBytes(user, bytes, s) == Opaque("signature", Sign(user, bytes, s))

-----------------------------------------------------------------------------

TxContextFromUser(user, nonce) ==
    LET identity == New("SerializedIdentity", [mspid |-> Text("MSP"),
                                               id_bytes |-> Opaque("cert", user)])
        random == Opaque("nonce", nonce)
    IN  [identity |-> identity, nonce |-> random, epoch |-> 0,
         tx_id |-> HexDigest(random
                             \o SerializeToString("SerializedIdentity", identity))]

BuildSignatureHeader(context) ==
    SerializeToString("SignatureHeader",
        New("SignatureHeader",
            [creator |-> SerializeToString("SerializedIdentity", context.identity),
             nonce |-> context.nonce]))

\* No channel is the channel named ''; no extension and no certificate are <<>>.
BuildHeader(context, channel, extension, txType, tlsCert) ==
    New("Header",
        [channel_header |->
            SerializeToString("ChannelHeader",
                New("ChannelHeader",
                    [type |-> txType, version |-> 1, tx_id |-> context.tx_id,
                     channel_id |-> EncodeProtoBytes(channel),
                     epoch |-> context.epoch, timestamp |-> New("Timestamp", <<>>),
                     extension |-> extension,
                     tls_cert_hash |-> IF tlsCert = <<>> THEN <<>>
                                       ELSE Hash(PemToDer(tlsCert))])),
         signature_header |-> BuildSignatureHeader(context)])

WrapTransaction(user, payload, s) ==
    LET bytes == SerializeToString("Payload", payload)
    IN  New("Envelope", [payload |-> bytes, signature |-> SignBytes(user, bytes, s)])

BuildEnvelope(user, context, data, channel, tlsCert, txType, s) ==
    WrapTransaction(user,
        New("Payload", [header |-> BuildHeader(context, channel, <<>>, txType, tlsCert),
                        data |-> data]), s)

\* Mutant: a start of 0 is taken for none.
BuildSeekInfoFalsy(start, stop, behavior) ==
    LET Position(p) ==
            New("SeekPosition",
                IF p \in {{}, {0}} THEN [newest |-> New("SeekNewest", <<>>)]
                ELSE [specified |-> New("SeekSpecified",
                                        [number |-> CHOOSE n \in p : TRUE])])
    IN  New("SeekInfo", [start |-> Position(start), stop |-> Position(stop),
                         behavior |-> SeekInfo_SeekBehavior[behavior]])

\* start and stop are sets of at most one number, None is {}.
BuildSeekInfo(start, stop, behavior) ==
    LET Position(p) ==
            New("SeekPosition",
                IF p = {} THEN [newest |-> New("SeekNewest", <<>>)]
                ELSE [specified |-> New("SeekSpecified",
                                        [number |-> CHOOSE n \in p : TRUE])])
    IN  New("SeekInfo", [start |-> Position(start), stop |-> Position(stop),
                         behavior |-> SeekInfo_SeekBehavior[behavior]])

\* The first response's payload, and the endorsements of all of them.
BuildEndorsedTXEnvelope(endorsed, user, s) ==
    LET Endorsement1(i) ==
            Sub("ProposalResponse", endorsed.peer_responses[i], "endorsement")
        action ==
            New("ChaincodeActionPayload",
                [action |-> New("ChaincodeEndorsedAction",
                    [proposal_response_payload |-> endorsed.peer_responses[1].payload,
                     endorsements |-> [i \in DOMAIN endorsed.peer_responses |->
                                          Endorsement1(i)]]),
                 chaincode_proposal_payload |-> endorsed.proposal.payload])
        transaction ==
            New("Transaction",
                [actions |-> <<New("TransactionAction",
                    [header |-> endorsed.header.signature_header,
                     payload |-> SerializeToString("ChaincodeActionPayload", action)])>>])
    IN  WrapTransaction(user,
            New("Payload", [header |-> endorsed.header,
                            data |-> SerializeToString("Transaction", transaction)]), s)

\* The signature of the update covers the signature header and the update, the
\* one of the envelope covers both.
BuildConfigUpdateEnvelope(channel, context, user, configUpdate, s, t) ==
    LET header == BuildSignatureHeader(context)
        signature == New("ConfigSignature",
                         [signature_header |-> header,
                          signature |-> SignBytes(user, header \o configUpdate, s)])
    IN  BuildEnvelope(user, context,
            SerializeToString("ConfigUpdateEnvelope",
                New("ConfigUpdateEnvelope", [config_update |-> configUpdate,
                                             signatures |-> <<signature>>])),
            channel, <<>>, HeaderType.CONFIG_UPDATE, t)

\* fcn, version, path, args and code_package are <<>> or '' where not given.
BuildCCDeploymentSpec(name, language, fcn, version, path, package, args) ==
    LET inputArgs == IF fcn.str = "" THEN args ELSE <<fcn>> \o args
        ccSpec ==
            [chaincode_id |-> New("ChaincodeID", [name |-> Text(name),
                                                  version |-> Text(version),
                                                  path |-> Text(path)]),
             type |-> ChaincodeSpec_Type[language]]
        input ==
            IF inputArgs = <<>> THEN <<>>
            ELSE [input |-> New("ChaincodeInput",
                     [args |-> [i \in DOMAIN inputArgs |->
                                   EncodeProtoBytes(inputArgs[i])]])]
    IN  New("ChaincodeDeploymentSpec",
            [chaincode_spec |-> New("ChaincodeSpec", With(input, ccSpec)),
             code_package |-> package])

\* Mutant: the transient map is left out.
BuildProposalBare(header, input, transient) ==
    New("Proposal",
        [header |-> SerializeToString("Header", header),
         payload |-> SerializeToString("ChaincodeProposalPayload",
            New("ChaincodeProposalPayload", [input |-> input]))])

\* The transient map is a sequence of entries.
BuildProposal(header, input, transient) ==
    New("Proposal",
        [header |-> SerializeToString("Header", header),
         payload |-> SerializeToString("ChaincodeProposalPayload",
            New("ChaincodeProposalPayload",
                [input |-> input, TransientMap |-> transient]))])

\* The proposal that is kept for the envelope is without the transient map, the
\* signed one has it.
BuildGeneratedTX(user, nonce, ccName, args, channel, transient, s) ==
    LET context == TxContextFromUser(user, nonce)
        ccId == New("ChaincodeID", [name |-> Text(ccName)])
        header == BuildHeader(context, channel,
                     SerializeToString("ChaincodeHeaderExtension",
                        New("ChaincodeHeaderExtension", [chaincode_id |-> ccId])),
                     HeaderType.ENDORSER_TRANSACTION, <<>>)
        invocation ==
            SerializeToString("ChaincodeInvocationSpec",
                New("ChaincodeInvocationSpec",
                    [chaincode_spec |-> New("ChaincodeSpec",
                        [type |-> ChaincodeSpec_Type["GOLANG"], chaincode_id |-> ccId,
                         input |-> New("ChaincodeInput", [args |-> args])])]))
        bytes == SerializeToString("Proposal",
                                   BuildProposal(header, invocation, transient))
    IN  [tx_context |-> context, header |-> header,
         proposal |-> BuildProposal(header, invocation, <<>>),
         signed_proposal |->
            New("SignedProposal", [proposal_bytes |-> bytes,
                                   signature |-> SignBytes(user, bytes, s)])]

-----------------------------------------------------------------------------

\* The chaincode and the arguments of each operation.
InvokeArgs(fcn, args) ==
    [i \in DOMAIN (<<fcn>> \o args) |-> EncodeProtoBytes((<<fcn>> \o args)[i])]

InstantiateArgs(ccSpec, channel, policy, upgrade) ==
    <<Text(IF upgrade THEN "upgrade" ELSE "deploy"), EncodeProtoBytes(channel),
      SerializeToString("ChaincodeDeploymentSpec",
         BuildCCDeploymentSpec(ccSpec.name, ccSpec.language, Ascii("init"),
                               ccSpec.version, "", <<>>, ccSpec.args)),
      policy, Text("escc"), Text("vscc")>>

InstallArgs(ccSpec, package) ==
    <<Text("install"),
      SerializeToString("ChaincodeDeploymentSpec",
         BuildCCDeploymentSpec(ccSpec.name, ccSpec.language, Ascii(""),
                               ccSpec.version, ccSpec.path, package, <<>>))>>

JoinArgs(block) == <<Text("JoinChain"), SerializeToString("Block", block)>>

QueryInstantiatedArgs == <<Text("getchaincodes")>>

QueryInstalledArgs == <<Text("getinstalledchaincodes")>>
=============================================================================
