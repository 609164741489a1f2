------------------------------ MODULE Messages ------------------------------
(***************************************************************************)
(* The messages between the client and the network, byte for byte: the     *)
(* client builds, signs and serialises a proposal, an envelope or the      *)
(* request for a stream; the peers and the orderers parse and check what   *)
(* they get; and the client decodes the blocks it is streamed, with its    *)
(* own transactions and everyone else's in them.                           *)
(***************************************************************************)
EXTENDS Naturals, Sequences, Factories, Decoded, Receivers

CONSTANTS
    Users,       \* the requestors
    Calls,       \* the operations on chaincode they ask for
    Seeks,       \* the streams they open: the method, the range and the client
                 \* certificate, the lines of its base64, or <<>> for none
    ChannelTX,   \* the file that create_channel reads, as bytes
    MaxNonces    \* bound on the transaction contexts made

\* The methods that stream blocks.
Streams == {<<"Deliver", "Deliver">>, <<"Deliver", "DeliverFiltered">>,
            <<"AtomicBroadcast", "Deliver">>}

\* A Python list.
IsList(v) == Len(v) \in Nat /\ v = [i \in 1..Len(v) |-> v[i]]

\* None or a block number, as a set.
IsPosition(p) == p \subseteq Nat /\ \A m \in p, n \in p : m = n

\* The update in an envelope that configtxgen has written.
UpdateIn(bytes) ==
    LET payload == FromString("Payload", FromString("Envelope", bytes).payload)
    IN  FromString("ConfigUpdateEnvelope", payload.data).config_update

\* A PEM file, by its lines: after the newline at its end there is one more.
BeginLine == "-----BEGIN CERTIFICATE-----"

EndLine == "-----END CERTIFICATE-----"

LastLine == ""

PemFile(base64) ==
    IF base64 = <<>> THEN <<>> ELSE <<BeginLine>> \o base64 \o <<EndLine, LastLine>>

\* The arguments have their types, a channel has a name, and the file for
\* create_channel is for the channel that it creates.
ASSUME MessagesAssumption ==
    /\ MaxNonces \in Nat
    /\ IsList(Peers) /\ Len(Peers) > 0
    /\ \A c \in Calls :
          /\ c.kind \in {"invoke", "query"} =>
                /\ IsList(c.args) /\ c.channel.str # ""
                /\ Fits(IsMessage, ChaincodeProposalPayload.TransientMap, c.transient)
          /\ c.kind \in {"deploy", "upgrade"} =>
                /\ IsList(c.cc_spec.args) /\ c.channel.str # ""
                /\ c.cc_spec.language \in DOMAIN ChaincodeSpec_Type
    /\ \A k \in Seeks :
          /\ k.to \in Streams /\ IsPosition(k.start) /\ IsPosition(k.stop)
          /\ k.behavior \in DOMAIN SeekInfo_SeekBehavior
          /\ IsList(k.cert)
    /\ WellFormed("ConfigUpdate", UpdateIn(ChannelTX))
    /\ FromString("ConfigUpdate", UpdateIn(ChannelTX)).channel_id = Text("ch")

VARIABLES
    nonces,     \* how many nonces crypto_suite.generate_nonce has given out
    txs,        \* the transactions, in the order they were generated
    wire,       \* the requests sent so far, with the method they were sent to
    delivered   \* the block that came last on a stream, and what became of it

vars == <<nonces, txs, wire, delivered>>

\* The channel that the envelopes and the streams are for.
TheChannel == Ascii("ch")

NoBlock == [service |-> "none"]

-----------------------------------------------------------------------------

NonceLeft == nonces < MaxNonces

\* asked is the request in the client's terms; only properties refer to it.
Request(to, message, asked) ==
    [to |-> to, bytes |-> SerializeToString(RequestType(to), message), asked |-> asked]

Generate(user, kind, ccName, args, channel, transient, asked, s) ==
    /\ NonceLeft
    /\ nonces' = nonces + 1
    /\ txs' = Append(txs,
                 [gen |-> BuildGeneratedTX(user, nonces + 1, ccName, args, channel,
                                           transient, s),
                  user |-> user, kind |-> kind, args |-> args, channel |-> channel,
                  transient |-> transient, asked |-> asked, peer_responses |-> <<>>])
    /\ UNCHANGED <<wire, delivered>>

\* generate_cc_tx, for an invocation or a query.
GenerateCCTX(user, call, s) ==
    /\ call.kind \in {"invoke", "query"}
    /\ \A i \in DOMAIN call.args : EncodesProtoBytes(call.args[i])
    /\ EncodesProtoBytes(call.fcn) /\ EncodesProtoStr(call.channel)
    /\ Generate(user, call.kind, call.cc_name, InvokeArgs(call.fcn, call.args),
                call.channel, call.transient, call, s)

\* generate_instantiate_cc_tx.
GenerateInstantiateCCTX(user, call, s) ==
    /\ call.kind \in {"deploy", "upgrade"}
    /\ call.cc_spec.name # ""
    /\ \A i \in DOMAIN call.cc_spec.args : EncodesProtoBytes(call.cc_spec.args[i])
    /\ EncodesProtoStr(call.channel)
    /\ Generate(user, call.kind, "lscc",
                InstantiateArgs(call.cc_spec, call.channel, call.policy,
                                call.kind = "upgrade"),
                call.channel, <<>>, call, s)

\* install_chaincode, up to its proposal; only GOLANG chaincode is packaged.
InstallChaincode(user, call, s) ==
    /\ call.kind = "install"
    /\ call.cc_spec.name # "" /\ call.cc_spec.language = "GOLANG"
    /\ Generate(user, call.kind, "lscc", InstallArgs(call.cc_spec, call.package),
                Ascii(""), <<>>, call, s)

\* query_instantiated_chaincodes and query_installed_chaincodes.
QueryChaincodes(user, call, s) ==
    /\ call.kind \in {"getchaincodes", "getinstalledchaincodes"}
    /\ LET onChannel == call.kind = "getchaincodes"
       IN  Generate(user, call.kind, "lscc",
                    IF onChannel THEN QueryInstantiatedArgs ELSE QueryInstalledArgs,
                    IF onChannel THEN TheChannel ELSE Ascii(""), <<>>, call, s)

\* join_channel, once an orderer has delivered the channel's first block.
JoinChannel(user, s) ==
    /\ delivered.service = "AtomicBroadcast"
    /\ Sub("Block", delivered.sent, "header").number = 0
    /\ Generate(user, "join", "cscc", JoinArgs(RawBlockAsProto(delivered.pulled)),
                Ascii(""), <<>>, [kind |-> "join", block |-> delivered.sent], s)

\* propose_tx: every peer gets the signed proposal and endorses it.
ProposeTX(n) ==
    /\ txs[n].peer_responses = <<>>
    /\ LET request == Request(<<"Endorser", "ProcessProposal">>,
                              txs[n].gen.signed_proposal, n)
           signed == FromString("SignedProposal", request.bytes)
       IN  /\ wire' = wire \cup {request}
           /\ txs' = [txs EXCEPT ![n].peer_responses =
                         [i \in DOMAIN Peers |->
                             FromString("ProposalResponse", Endorse(Peers[i], signed))]]
    /\ UNCHANGED <<nonces, delivered>>

\* commit_tx, after an invocation or an instantiation.
CommitTX(n, s) ==
    /\ txs[n].kind \in {"invoke", "deploy", "upgrade"}
    /\ txs[n].peer_responses # <<>>
    /\ LET endorsed == [peer_responses |-> txs[n].peer_responses,
                        header |-> txs[n].gen.header, proposal |-> txs[n].gen.proposal]
       IN  wire' = wire \cup
                {Request(<<"AtomicBroadcast", "Broadcast">>,
                         BuildEndorsedTXEnvelope(endorsed, txs[n].user, s), n)}
    /\ UNCHANGED <<nonces, txs, delivered>>

\* create_channel: the update is taken out of the envelope in the file, and
\* signed anew.
CreateChannel(user, s, t) ==
    /\ NonceLeft
    /\ nonces' = nonces + 1
    /\ wire' = wire \cup
          {Request(<<"AtomicBroadcast", "Broadcast">>,
                   BuildConfigUpdateEnvelope(TheChannel, TxContextFromUser(user, nonces + 1),
                                             user, UpdateIn(ChannelTX), s, t),
                   0)}
    /\ UNCHANGED <<txs, delivered>>

\* stream_blocks: _get_connection_envelope with a transaction context of its own.
StreamBlocks(user, seek, s) ==
    /\ NonceLeft
    /\ nonces' = nonces + 1
    /\ wire' = wire \cup
          {Request(seek.to,
              BuildEnvelope(user, TxContextFromUser(user, nonces + 1),
                  SerializeToString("SeekInfo",
                      BuildSeekInfo(seek.start, seek.stop, seek.behavior)),
                  TheChannel, PemFile(seek.cert), HeaderType.ENDORSER_TRANSACTION, s),
              seek)}
    /\ UNCHANGED <<txs, delivered>>

-----------------------------------------------------------------------------

ChannelHeaderOf(headerType) ==
    New("ChannelHeader", [type |-> headerType, channel_id |-> Text("ch")])

\* What others may put into a block (external): a config without an update, and
\* envelopes of every other type.
OtherEntries ==
    {SignedEnvelope("orderer", ChannelHeaderOf(HeaderType.CONFIG), ConfigBytes(<<>>))}
    \cup {SignedEnvelope("other", ChannelHeaderOf(HeaderType[t]), Opaque("data", t)) :
             t \in DOMAIN HeaderType \ {"CONFIG", "CONFIG_UPDATE",
                                        "ENDORSER_TRANSACTION"}}

\* How an envelope of the client comes into a block (external): a transaction
\* as it is, a config update within the config it led to.
EntryFor(w) ==
    IF w.asked # 0 THEN w.bytes
    ELSE SignedEnvelope("orderer", ChannelHeaderOf(HeaderType.CONFIG),
                        ConfigBytes(w.bytes))

OwnEntries == {EntryFor(w) : w \in {v \in wire : v.to = <<"AtomicBroadcast", "Broadcast">>}}

ResponseType(to) ==
    IF to[1] = "AtomicBroadcast" THEN AtomicBroadcast.Deliver[2] ELSE Deliver[to[2]][2]

\* The block that a node has for a stream (external); the orderers do not
\* validate transactions.
BlockFor(to, number, data, codes) ==
    IF to[2] = "DeliverFiltered" THEN MakeFilteredBlock(number, data, codes)
    ELSE MakeBlock(number, data, IF to[1] = "AtomicBroadcast" THEN <<>> ELSE codes)

\* The node's response with it (external), as the client parses it.
ResponseOf(to, block) ==
    LET field == IF to[2] = "DeliverFiltered" THEN "filtered_block" ELSE "block"
    IN  FromString(ResponseType(to),
           SerializeToString(ResponseType(to),
                             New(ResponseType(to), [f \in {field} |-> block])))

PullBlockFromResponse(to, resp) ==
    IF to[2] = "DeliverFiltered"
    THEN FilteredBlockFromProto(Sub(ResponseType(to), resp, "filtered_block"))
    ELSE RawBlockFromProto(Sub(ResponseType(to), resp, "block"))

\* The status of a response: 0, its first value, if it is not set.
StatusOf(resp) == IF Has(resp, "status") THEN resp.status ELSE 0

\* What becomes of a block once it is pulled out of its response: a filtered
\* one is used as it is, a raw one is decoded; either may raise.
Yielded(to, sent, data, codes, status, pulled) ==
    LET filtered == to[2] = "DeliverFiltered"
        raises == IF filtered
                  THEN \E i \in DOMAIN pulled.transactions :
                           ~IsTransactionType(pulled.transactions[i].type)
                  ELSE ~DecodesBlock(pulled)
    IN  [service |-> to[1], filtered |-> filtered, raises |-> raises,
         status |-> status, sent |-> sent, data |-> data, codes |-> codes,
         pulled |-> pulled,
         decoded |-> IF filtered \/ raises THEN <<>> ELSE DecodeBlock(pulled)]

\* A stream yields a block.  number and codes are the block's.
ReceiveBlock(to, number, data, codes) ==
    /\ \E w \in wire : w.to = to
    /\ delivered = NoBlock
    /\ \E block \in {BlockFor(to, number, data, codes)} :
          \E resp \in {ResponseOf(to, block)} :
              delivered' = Yielded(to, block, data, codes, StatusOf(resp) # 0,
                                   PullBlockFromResponse(to, resp))
    /\ UNCHANGED <<nonces, txs, wire>>

Init == nonces = 0 /\ txs = <<>> /\ wire = {} /\ delivered = NoBlock

Next ==
    \/ \E u \in Users, s \in Scalars :
          \/ \E c \in Calls :
                \/ GenerateCCTX(u, c, s)
                \/ GenerateInstantiateCCTX(u, c, s)
                \/ InstallChaincode(u, c, s)
                \/ QueryChaincodes(u, c, s)
          \/ JoinChannel(u, s)
          \/ \E t \in Scalars : CreateChannel(u, s, t)
          \/ \E k \in Seeks : StreamBlocks(u, k, s)
    \/ \E n \in DOMAIN txs :
          \/ ProposeTX(n)
          \/ \E s \in Scalars : CommitTX(n, s)
    \/ \E to \in Streams, e \in OwnEntries \cup OtherEntries, number \in 0..1 :
          ReceiveBlock(to, number, <<e>>,
                       <<IF number = 0 THEN TxValidationCode.VALID
                         ELSE TxValidationCode.MVCC_READ_CONFLICT>>)

Spec == Init /\ [][Next]_vars

-----------------------------------------------------------------------------

\* A request as its receiver parses it.
Parsed(w) == FromString(RequestType(w.to), w.bytes)

\* The receiver of a request can parse it and accepts it.
Accepted(w) ==
    /\ WellFormed(RequestType(w.to), w.bytes)
    /\ IF w.to[1] = "Endorser" THEN AcceptsProposal(Parsed(w))
       ELSE AcceptsEnvelope(w.to[2], Parsed(w))

\* Every proposal and every envelope for Broadcast that the client sends, its
\* receiver can parse and accepts: creator, tx_id and low-S signature belong
\* together; a proposal's header names the chaincode it calls; the endorsers have
\* signed the proposal that is in the envelope, transient data or not; the inner
\* signature of a config update covers the update and its header
\* (build_generated_tx, build_endorsed_tx_envelope,
\* build_config_update_envelope).  For the requests for a stream see
\* ReceivedAsAsked and SeeksAccepted.
WireAccepted == \A w \in wire : w.to \notin Streams => Accepted(w)

\* What a node reads in a request for a stream: who asks, for what channel, and
\* for which of its blocks.
StreamedAsAsked(envelope, asked) ==
    LET payload == FromString("Payload", envelope.payload)
        header == Sub("Payload", payload, "header")
        seek == FromString("SeekInfo", payload.data)
        ch == FromString("ChannelHeader", header.channel_header)
        Position(p) == IF Has(p, "specified") THEN {p.specified.number} ELSE {}
    IN  /\ WellFormed("Payload", envelope.payload)
        /\ Authentic(header, envelope.payload, envelope.signature)
        /\ WellFormed("SeekInfo", payload.data)
        /\ ch.channel_id = Text(TheChannel.str)
        /\ Position(Sub("SeekInfo", seek, "start")) = asked.start
        /\ Position(Sub("SeekInfo", seek, "stop")) = asked.stop
        /\ seek.behavior = SeekInfo_SeekBehavior[asked.behavior]
        /\ ch.tls_cert_hash = IF asked.cert = <<>> THEN <<>>
                              ELSE Hash(Opaque("der", asked.cert))

\* The arguments that a peer reads in a proposal.
ArgsIn(signed) ==
    LET proposal == FromString("Proposal", signed.proposal_bytes)
        payload == FromString("ChaincodeProposalPayload", proposal.payload)
    IN  Sub("ChaincodeSpec", ChaincodeOf(payload), "input").args

CalledAsAsked(args, asked) ==
    LET Encoded(strs) == [i \in DOMAIN strs |-> EncodeProtoBytes(strs[i])]
        DeploymentSpec(bytes) == FromString("ChaincodeDeploymentSpec", bytes)
        CCSpec(bytes) == DeploymentSpec(bytes).chaincode_spec
    IN  /\ asked.kind \in {"invoke", "query"} =>
              args = Encoded(<<asked.fcn>> \o asked.args)
        /\ asked.kind \in {"deploy", "upgrade"} =>
              /\ Len(args) = 6 /\ args[4] = asked.policy
              /\ CCSpec(args[3]).input.args
                    = Encoded(<<Ascii("init")>> \o asked.cc_spec.args)
              /\ CCSpec(args[3]).chaincode_id.version = Text(asked.cc_spec.version)
        /\ asked.kind = "install" =>
              /\ DeploymentSpec(args[2]).code_package = asked.package
              /\ ~Has(CCSpec(args[2]), "input")
              /\ CCSpec(args[2]).chaincode_id.name = Text(asked.cc_spec.name)
        /\ asked.kind = "join" => FromString("Block", args[2]) = asked.block

\* What a receiver reads is what the caller asked for, zeros and empty strings
\* included: the arguments of a call one by one, the deployment spec in them
\* with its init arguments and package, the orderer's own block in a join; and
\* in the request for a stream the requestor's own signature and tx_id, the
\* channel, the range (a block 0 is not "newest") and the hash of the client's
\* certificate that binds it to the connection.
ReceivedAsAsked ==
    \A w \in wire :
        /\ WellFormed(RequestType(w.to), w.bytes)
        /\ w.to \in Streams => StreamedAsAsked(Parsed(w), w.asked)
        /\ w.to[1] = "Endorser" => CalledAsAsked(ArgsIn(Parsed(w)), txs[w.asked].asked)

\* The transient map in a proposal's payload.
TransientIn(bytes) == FromString("ChaincodeProposalPayload", bytes).TransientMap

\* The transient map goes to the chaincode "but will not appear in the endorsed
\* transaction": the peers get all of it, the orderers none.
TransientOnlyToPeers ==
    \A w \in wire :
        LET payload == FromString("Payload", Parsed(w).payload)
            actions == FromString("Transaction", payload.data).actions
        IN  /\ w.to[1] = "Endorser" =>
                  TransientIn(FromString("Proposal", Parsed(w).proposal_bytes).payload)
                     = txs[w.asked].transient
            /\ w.to[2] = "Broadcast" /\ w.asked # 0 =>
                  \A i \in DOMAIN actions :
                      TransientIn(FromString("ChaincodeActionPayload", actions[i].payload)
                                     .chaincode_proposal_payload) = <<>>

\* A transaction in the block, as the client finds it there.
TransactionFound(tx) ==
    LET filtered == delivered.pulled.transactions[1]
        decoded == delivered.decoded.data[1].payload
        action == decoded.data.actions[1].payload
        Endorsers == action.action.endorsements
    IN  IF delivered.filtered
        THEN /\ filtered.tx_id = tx.gen.tx_context.tx_id
             /\ filtered.tx_validation_code = delivered.codes[1]
        ELSE /\ decoded.header.channel_header.tx_id = tx.gen.tx_context.tx_id
             /\ decoded.header.signature_header.creator = tx.gen.tx_context.identity
             /\ ChaincodeOf(action.chaincode_proposal_payload).input.args = tx.args
             /\ [i \in DOMAIN Endorsers |-> Endorsers[i].endorser.id_bytes]
                   = [i \in DOMAIN Peers |-> Opaque("cert", Peers[i])]
             /\ delivered.decoded.metadata.filter
                   = IF delivered.service = "AtomicBroadcast" THEN <<>>
                     ELSE delivered.codes

\* A config update, within the config; a filtered block has only its type.
UpdateFound(w) ==
    LET update == delivered.decoded.data[1].payload.data.last_update.payload
        payload == FromString("Payload", Parsed(w).payload)
        sent == Sub("Payload", payload, "header")
    IN  ~delivered.filtered =>
            /\ update.header.channel_header
                  = FromString("ChannelHeader", sent.channel_header)
            /\ update.data.config_update
                  = FromString("ConfigUpdate", UpdateIn(ChannelTX))

\* A block is never taken for an error, whatever types its transactions have
\* every layer of it decodes, and the client finds in it what it had sent: its
\* transaction with its creator, its arguments, every peer's endorsement and
\* the validation code, VALID being a zero; its config update within the config
\* (DecodedTX.decode, FilteredTX.from_proto).
DecodesWhatWasSent ==
    delivered # NoBlock =>
        /\ ~delivered.status
        /\ ~delivered.raises
        /\ \A w \in wire :
              w.to = <<"AtomicBroadcast", "Broadcast">>
                 /\ delivered.data = <<EntryFor(w)>> =>
                    IF w.asked # 0 THEN TransactionFound(txs[w.asked]) ELSE UpdateFound(w)

-----------------------------------------------------------------------------

\* What the repository says and the code does not do.  "deliver first requires
\* an Envelope of type DELIVER_SEEK_INFO with Payload data as a mashaled SeekInfo
\* message" (ab.proto, and events.proto for the peers): the envelopes of
\* _get_connection_envelope have build_envelope's default type,
\* ENDORSER_TRANSACTION.
SeeksAccepted == \A w \in wire : w.to \in Streams => Accepted(w)
=============================================================================
