------------------------------- MODULE Config -------------------------------
(***************************************************************************)
(* BlockchainConfig and the gateways made from it.  The configured peers,  *)
(* orderers, users and chaincodes are objects that all gateways refer to;  *)
(* a gateway with another chaincode version is a copy that still refers to *)
(* most of them.                                                           *)
(***************************************************************************)
EXTENDS Naturals, Sequences, FiniteSets, SequencesExt

CONSTANTS
    Documents,   \* the configurations that are read: sections of named entries
    Files,       \* the contents of the certificate and key files
    Versions,    \* the chaincode versions of update_chaincode_version
    MaxGateways  \* bound on the gateways made

\* None.
None == ""

Paths == DOMAIN Files \cup {None}

\* What a configuration says of a peer or an orderer, a user and a chaincode.
Nodes ==
    [name : STRING, tls_ca_cert : STRING, tls_ca_cert_path : Paths,
     client_cert : STRING, client_cert_path : Paths,
     client_key : STRING, client_key_path : Paths,
     grpc_channel : [secure : BOOLEAN, presents : STRING]]

Users == [name : STRING, cert : STRING, cert_path : Paths, key : STRING, key_path : Paths]

Chaincodes == [name : STRING, version : STRING]

GatewayConfigs ==
    [endorsing_peers : Seq(STRING), orderers : Seq(STRING), requestor : STRING,
     chaincode : STRING, channel : STRING]

Sections == {"peers", "orderers", "users", "chaincodes"}

Entries(section) ==
    CASE section \in {"peers", "orderers"} -> Nodes
      [] section = "users"                 -> Users
      [] section = "chaincodes"            -> Chaincodes

\* The files that a configuration names can be read and are not empty; dacite has
\* checked the types of what the dataclasses declare.
ASSUME ConfigAssumption ==
    /\ MaxGateways \in Nat
    /\ Versions \subseteq STRING
    /\ Files \in [DOMAIN Files -> STRING \ {None}]
    /\ \A d \in Documents :
          /\ \A s \in Sections :
                /\ IsFiniteSet(DOMAIN d[s])
                /\ \A k \in DOMAIN d[s] : k \in STRING /\ d[s][k] \in Entries(s)
          /\ \A g \in DOMAIN d.gateways : d.gateways[g] \in GatewayConfigs

VARIABLES
    document,  \* the file that is read
    objects,   \* the objects made so far, a sequence: an object is its index
    config,    \* the BlockchainConfig: the objects of each section, by key
    state,     \* "new", "loaded", or the exception that from_file raised
    gateways,  \* the Gateway objects, in the order they were made
    wanted     \* for each gateway, the key it was made for and the version that
               \* the caller asked for; only properties refer to it

vars == <<document, objects, config, state, gateways, wanted>>

NoObject == 0

-----------------------------------------------------------------------------

\* A value that is given, or else read from the file that is given.
ValueOrFile(value, path) == IF value = None /\ path # None THEN Files[path] ELSE value

\* Mutant: the certificate of the file goes into the connection only.
PostInitConnectedForgets(node) ==
    LET ca == ValueOrFile(node.tls_ca_cert, node.tls_ca_cert_path)
        cert == ValueOrFile(node.client_cert, node.client_cert_path)
        key == ValueOrFile(node.client_key, node.client_key_path)
    IN  [node EXCEPT !.tls_ca_cert = ca, !.client_key = key,
                     !.grpc_channel =
                        [secure |-> ca # None,
                         presents |-> IF ca # None /\ cert # None /\ key # None
                                      THEN cert ELSE None]]

\* _ConnectedModel.__post_init__: the client's certificate is presented only on
\* a secure connection, and with its key.
PostInitConnected(node) ==
    LET ca == ValueOrFile(node.tls_ca_cert, node.tls_ca_cert_path)
        cert == ValueOrFile(node.client_cert, node.client_cert_path)
        key == ValueOrFile(node.client_key, node.client_key_path)
    IN  [node EXCEPT !.tls_ca_cert = ca, !.client_cert = cert, !.client_key = key,
                     !.grpc_channel =
                        [secure |-> ca # None,
                         presents |-> IF ca # None /\ cert # None /\ key # None
                                      THEN cert ELSE None]]

\* User.__post_init__ raises a ValueError if it has no certificate or no key.
UserRaises(user) ==
    \/ user.cert = None /\ user.cert_path = None
    \/ user.key = None /\ user.key_path = None

PostInitUser(user) ==
    [user EXCEPT !.cert = ValueOrFile(user.cert, user.cert_path),
                 !.key = ValueOrFile(user.key, user.key_path)]

PostInit(section, object) ==
    CASE section \in {"peers", "orderers"} -> PostInitConnected(object)
      [] section = "users"                 -> PostInitUser(object)
      [] section = "chaincodes"            -> object

\* BlockchainConfig.__post_init__: replace makes a new object of the one that
\* was read, with its key for a name if it had none.
Named(section, key, entry) ==
    LET read == PostInit(section, entry)
    IN  PostInit(section,
                 [read EXCEPT !.name = IF read.name = None THEN key ELSE read.name])

\* The keys of all sections: the objects made of them are numbered in this order.
Keys == SetToSeq(UNION {{<<s, k>> : k \in DOMAIN document[s]} : s \in Sections})

\* from_file: what its extension and its users allow.
FromFile ==
    /\ state = "new"
    /\ document.ext \in {".json", ".yaml", ".yml"}
    /\ ~\E u \in DOMAIN document.users : UserRaises(document.users[u])
    /\ state' = "loaded"
    /\ LET keys == Keys
       IN  /\ objects' = [i \in DOMAIN keys |->
                            Named(keys[i][1], keys[i][2], document[keys[i][1]][keys[i][2]])]
           /\ config' = [s \in Sections |->
                            [k \in DOMAIN document[s] |->
                                CHOOSE i \in DOMAIN keys : keys[i] = <<s, k>>]]
    /\ UNCHANGED <<document, gateways, wanted>>

FromFileRaises ==
    /\ state = "new"
    /\ \/ document.ext \notin {".json", ".yaml", ".yml"}
       \/ \E u \in DOMAIN document.users : UserRaises(document.users[u])
    /\ state' = "value_error"
    /\ UNCHANGED <<document, objects, config, gateways, wanted>>

\* get_gateway finds all that the gateway's configuration names; else it raises
\* a KeyError.
Resolves(g) ==
    LET gw == document.gateways[g]
    IN  /\ ToSet(gw.endorsing_peers) \subseteq DOMAIN config.peers
        /\ ToSet(gw.orderers) \subseteq DOMAIN config.orderers
        /\ gw.requestor \in DOMAIN config.users
        /\ gw.chaincode # None => gw.chaincode \in DOMAIN config.chaincodes

GetGateway(g) ==
    LET gw == document.gateways[g]
    IN  /\ state = "loaded" /\ Len(gateways) < MaxGateways
        /\ Resolves(g)
        /\ gateways' = Append(gateways,
              [endorsing_peers |-> [i \in DOMAIN gw.endorsing_peers |->
                                       config.peers[gw.endorsing_peers[i]]],
               orderers |-> [i \in DOMAIN gw.orderers |-> config.orderers[gw.orderers[i]]],
               requestor |-> config.users[gw.requestor],
               chaincode |-> IF gw.chaincode = None THEN NoObject
                             ELSE config.chaincodes[gw.chaincode],
               channel |-> gw.channel])
        /\ wanted' = Append(wanted,
              [key |-> g, version |-> IF gw.chaincode = None THEN None
                                      ELSE document.chaincodes[gw.chaincode].version])
        /\ UNCHANGED <<document, objects, config, state>>

\* Mutant: the version of the chaincode object is set in place.
UpdateInPlace(i, version) ==
    /\ Len(gateways) < MaxGateways
    /\ gateways[i].chaincode # NoObject
    /\ objects' = [objects EXCEPT ![gateways[i].chaincode].version = version]
    /\ gateways' = Append(gateways, gateways[i])
    /\ wanted' = Append(wanted, [wanted[i] EXCEPT !.version = version])
    /\ UNCHANGED <<document, config, state>>

\* update_chaincode_version: a copy of the gateway with a copy of the chaincode;
\* without a chaincode replace raises a TypeError.
UpdateChaincodeVersion(i, version) ==
    /\ Len(gateways) < MaxGateways
    /\ gateways[i].chaincode # NoObject
    /\ objects' = Append(objects, [objects[gateways[i].chaincode] EXCEPT !.version = version])
    /\ gateways' = Append(gateways, [gateways[i] EXCEPT !.chaincode = Len(objects) + 1])
    /\ wanted' = Append(wanted, [wanted[i] EXCEPT !.version = version])
    /\ UNCHANGED <<document, config, state>>

Init ==
    /\ document \in Documents
    /\ objects = <<>> /\ gateways = <<>> /\ wanted = <<>>
    /\ config = [s \in Sections |-> <<>>]
    /\ state = "new"

Next ==
    \/ FromFile \/ FromFileRaises
    \/ \E g \in DOMAIN document.gateways : GetGateway(g)
    \/ \E i \in DOMAIN gateways, v \in Versions : UpdateChaincodeVersion(i, v)

Spec == Init /\ [][Next]_vars

-----------------------------------------------------------------------------

\* The entry of a key, with its name.
Configured(section, key, object) ==
    LET entry == document[section][key]
    IN  object.name = IF entry.name = None THEN key ELSE entry.name

\* Every gateway has, in the configured order, the peers and orderers its
\* configuration names, one object for all gateways, and the chaincode with the
\* version its own caller asked for: no update of another gateway, made from
\* it before or after, reaches it (get_gateway, update_chaincode_version).
GatewayAsAsked ==
    \A i \in DOMAIN gateways :
        LET gw == gateways[i]
            conf == document.gateways[wanted[i].key]
        IN  /\ Len(gw.endorsing_peers) = Len(conf.endorsing_peers)
            /\ \A j \in DOMAIN gw.endorsing_peers :
                  /\ gw.endorsing_peers[j] = config.peers[conf.endorsing_peers[j]]
                  /\ Configured("peers", conf.endorsing_peers[j],
                                objects[gw.endorsing_peers[j]])
            /\ Len(gw.orderers) = Len(conf.orderers)
            /\ \A j \in DOMAIN gw.orderers :
                  /\ gw.orderers[j] = config.orderers[conf.orderers[j]]
                  /\ Configured("orderers", conf.orderers[j], objects[gw.orderers[j]])
            /\ Configured("users", conf.requestor, objects[gw.requestor])
            /\ gw.chaincode = NoObject <=> conf.chaincode = None
            /\ gw.chaincode # NoObject =>
                  /\ Configured("chaincodes", conf.chaincode, objects[gw.chaincode])
                  /\ objects[gw.chaincode].version = wanted[i].version

\* The certificate whose hash a stream's header carries (_client_cert) is the one
\* the connection presents, whether it was given or read from a file, if the
\* node is configured with all of CA, certificate and key; and a user always has
\* both its certificate and its key to sign with.
CredentialsMatch ==
    \A i \in DOMAIN gateways :
        /\ \A n \in ToSet(gateways[i].endorsing_peers) \cup ToSet(gateways[i].orderers) :
              LET node == objects[n]
                  complete == /\ node.tls_ca_cert # None
                              /\ node.client_key # None
                              /\ node.client_cert # None \/ node.client_cert_path # None
              IN  complete => /\ node.grpc_channel.secure
                              /\ node.grpc_channel.presents = node.client_cert
        /\ objects[gateways[i].requestor].cert # None
        /\ objects[gateways[i].requestor].key # None
=============================================================================
