---------------------------- MODULE ConfigProofs ----------------------------
(***************************************************************************)
(* Every gateway is what its configuration and its caller asked for, and   *)
(* has the credentials it shows, for any configuration, any number of      *)
(* gateways and any sequence of versions.                                  *)
(***************************************************************************)
EXTENDS Config, FiniteSetTheorems, TLAPS

Objects == Nodes \cup Users \cup Chaincodes

\* The name that the object of an entry has.
NameOf(key, entry) == IF entry.name = None THEN key ELSE entry.name

\* The certificate of a node is the one its connection presents.
NodeMatches(node) ==
    /\ node.tls_ca_cert # None
    /\ node.client_key # None
    /\ node.client_cert # None \/ node.client_cert_path # None
    => /\ node.grpc_channel.secure
       /\ node.grpc_channel.presents = node.client_cert

-----------------------------------------------------------------------------
(***************************************************************************)
(* The objects that __post_init__ makes.                                   *)
(***************************************************************************)

\* Reading a file gives a value that is not None.
LEMMA ValueRead ==
    ASSUME NEW value \in STRING, NEW path \in Paths
    PROVE  /\ ValueOrFile(value, path) \in STRING
           /\ value # None \/ path # None => ValueOrFile(value, path) # None
BY ConfigAssumption DEF ValueOrFile, Paths, None

\* _ConnectedModel.__post_init__ keeps name and paths and makes a connection that
\* presents the certificate the node ends up with.
LEMMA ConnectedMatches ==
    ASSUME NEW node \in Nodes
    PROVE  /\ PostInitConnected(node) \in Nodes
           /\ PostInitConnected(node).name = node.name
           /\ NodeMatches(PostInitConnected(node))
<1> DEFINE ca == ValueOrFile(node.tls_ca_cert, node.tls_ca_cert_path)
           cert == ValueOrFile(node.client_cert, node.client_cert_path)
           key == ValueOrFile(node.client_key, node.client_key_path)
           presents == IF ca # None /\ cert # None /\ key # None THEN cert ELSE None
           made == [node EXCEPT !.tls_ca_cert = ca, !.client_cert = cert,
                                !.client_key = key,
                                !.grpc_channel = [secure |-> ca # None,
                                                  presents |-> presents]]
<1>1. /\ ca \in STRING /\ cert \in STRING /\ key \in STRING
      /\ node.client_cert # None \/ node.client_cert_path # None => cert # None
  BY ValueRead DEF Nodes
<1>2. PostInitConnected(node) = made
  BY DEF PostInitConnected
<1>3. presents \in STRING
  BY <1>1 DEF None
<1>4. cert = None => node.client_cert_path = None
  BY <1>1
<1> HIDE DEF ca, cert, key, presents
<1>5. made \in Nodes
  BY <1>1, <1>3 DEF Nodes
<1>6. /\ made.name = node.name /\ made.tls_ca_cert = ca /\ made.client_cert = cert
      /\ made.client_key = key /\ made.client_cert_path = node.client_cert_path
      /\ made.grpc_channel.secure = (ca # None)
      /\ made.grpc_channel.presents = presents
  BY DEF Nodes
<1>7. ca # None /\ cert # None /\ key # None => presents = cert
  BY DEF presents
<1> HIDE DEF made
<1> QED
  BY <1>2, <1>4, <1>5, <1>6, <1>7 DEF NodeMatches

\* User.__post_init__ keeps the name; if it does not raise, the user has its
\* certificate and its key.
LEMMA UserComplete ==
    ASSUME NEW user \in Users
    PROVE  /\ PostInitUser(user) \in Users
           /\ PostInitUser(user).name = user.name
           /\ ~UserRaises(user) => /\ ~UserRaises(PostInitUser(user))
                                   /\ PostInitUser(user).cert # None
                                   /\ PostInitUser(user).key # None
<1> DEFINE cert == ValueOrFile(user.cert, user.cert_path)
           key == ValueOrFile(user.key, user.key_path)
<1>1. /\ cert \in STRING /\ key \in STRING
      /\ user.cert # None \/ user.cert_path # None => cert # None
      /\ user.key # None \/ user.key_path # None => key # None
  BY ValueRead DEF Users
<1>2. PostInitUser(user) = [user EXCEPT !.cert = cert, !.key = key]
  BY DEF PostInitUser
<1> HIDE DEF cert, key
<1> QED
  BY <1>1, <1>2 DEF Users, UserRaises

\* The object of a key is of its section's class and has its name; a node matches
\* its connection, and a user that could be read is complete.
LEMMA NamedObject ==
    ASSUME NEW s \in Sections, NEW k \in STRING, NEW entry \in Entries(s)
    PROVE  /\ Named(s, k, entry) \in Objects
           /\ Named(s, k, entry).name = NameOf(k, entry)
           /\ s \in {"peers", "orderers"} => NodeMatches(Named(s, k, entry))
           /\ s = "users" /\ ~UserRaises(entry) =>
                 Named(s, k, entry).cert # None /\ Named(s, k, entry).key # None
           /\ s = "chaincodes" => /\ Named(s, k, entry) \in Chaincodes
                                  /\ Named(s, k, entry).version = entry.version
<1> DEFINE read == PostInit(s, entry)
           named == [read EXCEPT !.name = IF read.name = None THEN k ELSE read.name]
<1>1. Named(s, k, entry) = PostInit(s, named)
  BY DEF Named
<1>2. CASE s \in {"peers", "orderers"}
  <2>1. entry \in Nodes /\ read = PostInitConnected(entry)
    BY <1>2 DEF Entries, PostInit
  <2> HIDE DEF read
  <2>2. read \in Nodes /\ read.name = entry.name
    BY <2>1, ConnectedMatches
  <2>3. named \in Nodes /\ named.name = IF entry.name = None THEN k ELSE entry.name
    BY <2>2 DEF Nodes
  <2>4. Named(s, k, entry) = PostInitConnected(named)
    BY <1>1, <1>2 DEF PostInit
  <2> HIDE DEF named
  <2>5. /\ Named(s, k, entry) \in Nodes /\ Named(s, k, entry).name = named.name
        /\ NodeMatches(Named(s, k, entry))
    BY <2>3, <2>4, ConnectedMatches
  <2> QED
    BY <1>2, <2>3, <2>5 DEF Objects, NameOf
<1>3. CASE s = "users"
  <2>1. entry \in Users /\ read = PostInitUser(entry)
    BY <1>3 DEF Entries, PostInit
  <2> HIDE DEF read
  <2>2. /\ read \in Users /\ read.name = entry.name
        /\ ~UserRaises(entry) => ~UserRaises(read)
    BY <2>1, UserComplete
  <2>3. /\ named \in Users /\ named.name = IF entry.name = None THEN k ELSE entry.name
        /\ UserRaises(named) => UserRaises(read)
    BY <2>2 DEF Users, UserRaises
  <2>4. Named(s, k, entry) = PostInitUser(named)
    BY <1>1, <1>3 DEF PostInit
  <2> HIDE DEF named
  <2>5. /\ Named(s, k, entry) \in Users /\ Named(s, k, entry).name = named.name
        /\ ~UserRaises(named) => /\ Named(s, k, entry).cert # None
                                 /\ Named(s, k, entry).key # None
    BY <2>3, <2>4, UserComplete
  <2> QED
    BY <1>3, <2>2, <2>3, <2>5 DEF Objects, NameOf
<1>4. CASE s = "chaincodes"
  <2>1. entry \in Chaincodes /\ read = entry
    BY <1>4 DEF Entries, PostInit
  <2>2. Named(s, k, entry) = named
    BY <1>1, <1>4 DEF PostInit
  <2>3. /\ named \in Chaincodes /\ named.version = entry.version
        /\ named.name = IF entry.name = None THEN k ELSE entry.name
    BY <2>1 DEF Chaincodes
  <2> QED
    BY <1>4, <2>2, <2>3 DEF Objects, NameOf
<1> QED
  BY <1>2, <1>3, <1>4 DEF Sections

-----------------------------------------------------------------------------
(***************************************************************************)
(* The configured objects: Keys lists every key of every section.          *)
(***************************************************************************)

AllKeys == UNION {{<<s, k>> : k \in DOMAIN document[s]} : s \in Sections}

\* A section has finitely many keys, and so have all four together.
LEMMA KeysFinite ==
    ASSUME document \in Documents
    PROVE  IsFiniteSet(AllKeys)
<1> DEFINE In(s) == {<<s, k>> : k \in DOMAIN document[s]}
<1>1. ASSUME NEW s \in Sections PROVE IsFiniteSet(In(s))
  <2>1. IsFiniteSet(DOMAIN document[s])
    BY <1>1, ConfigAssumption
  <2>2. [k \in DOMAIN document[s] |-> <<s, k>>] \in Surjection(DOMAIN document[s], In(s))
    BY DEF Surjection
  <2> QED
    BY <2>1, <2>2, FS_Surjection
<1>2. AllKeys = ((In("peers") \cup In("orderers")) \cup In("users")) \cup In("chaincodes")
  BY DEF AllKeys, Sections
<1> HIDE DEF In
<1>3. /\ IsFiniteSet(In("peers")) /\ IsFiniteSet(In("orderers"))
      /\ IsFiniteSet(In("users")) /\ IsFiniteSet(In("chaincodes"))
  BY <1>1 DEF Sections
<1> QED
  BY <1>2, <1>3, FS_Union

\* Every key has a number, and every number up to their count is a key's.
LEMMA KeysListed ==
    ASSUME document \in Documents
    PROVE  /\ Keys \in Seq(AllKeys)
           /\ \A x \in AllKeys : \E i \in DOMAIN Keys : Keys[i] = x
<1> DEFINE n == Cardinality(AllKeys)
<1>1. n \in Nat /\ ExistsBijection(1..n, AllKeys) /\ IsFiniteSet(AllKeys)
  BY KeysFinite, FS_CardinalityType
<1>2. \E f \in [1..n -> AllKeys] : IsInjective(f)
  BY <1>1 DEF ExistsBijection, Bijection, Injection, IsInjective
<1>3. Keys \in [1..n -> AllKeys] /\ IsInjective(Keys)
  BY <1>2 DEF Keys, SetToSeq, AllKeys
<1> HIDE DEF n
<1>4. Keys \in Injection(1..n, AllKeys)
  BY <1>3 DEF Injection, IsInjective
<1>5. IsFiniteSet(1..n) /\ Cardinality(1..n) = n
  BY <1>1, FS_Interval
<1>6. Keys \in Surjection(1..n, AllKeys)
  BY <1>1, <1>4, <1>5, FS_Injection DEF n
<1> QED
  BY <1>1, <1>3, <1>6 DEF Surjection

\* The object made of the entry of a key.
Made(s, k) == Named(s, k, document[s][k])

\* NamedObject for the entries of the configuration that is read.
LEMMA MadeObject ==
    ASSUME document \in Documents, NEW s \in Sections, NEW k \in DOMAIN document[s]
    PROVE  /\ Made(s, k) \in Objects
           /\ Made(s, k).name = NameOf(k, document[s][k])
           /\ s \in {"peers", "orderers"} => NodeMatches(Made(s, k))
           /\ s = "users" /\ ~UserRaises(document[s][k]) =>
                 Made(s, k).cert # None /\ Made(s, k).key # None
           /\ s = "chaincodes" => /\ Made(s, k) \in Chaincodes
                                  /\ Made(s, k).version = document[s][k].version
<1>1. k \in STRING /\ document[s][k] \in Entries(s)
  BY ConfigAssumption
<1> QED
  BY <1>1, NamedObject DEF Made

\* What from_file leaves behind: config refers, for each key, to the object that
\* was made of its entry.
Loaded ==
    /\ ~\E u \in DOMAIN document.users : UserRaises(document.users[u])
    /\ \A s \in Sections :
          /\ DOMAIN config[s] = DOMAIN document[s]
          /\ \A k \in DOMAIN document[s] : /\ config[s][k] \in 1..Len(objects)
                                           /\ objects[config[s][k]] = Made(s, k)

\* from_file numbers the objects of all keys and lets config refer to them.
LEMMA FileLoaded ==
    ASSUME document \in Documents, FromFile
    PROVE  Loaded' /\ objects' \in Seq(Objects)
<1>1. PICK keys : keys = Keys
  OBVIOUS
<1>2. /\ keys \in Seq(AllKeys) /\ \A x \in AllKeys : \E i \in DOMAIN keys : keys[i] = x
  BY <1>1, KeysListed
<1>3. /\ objects' = [i \in DOMAIN keys |-> Made(keys[i][1], keys[i][2])]
      /\ config' = [s \in Sections |-> [k \in DOMAIN document[s] |->
                                          CHOOSE i \in DOMAIN keys : keys[i] = <<s, k>>]]
      /\ document' = document
      /\ ~\E u \in DOMAIN document.users : UserRaises(document.users[u])
  BY <1>1 DEF FromFile, Made
<1>4. DOMAIN keys = 1..Len(keys) /\ Len(keys) \in Nat
  BY <1>2
<1>5. \A x \in AllKeys : x[1] \in Sections /\ x[2] \in DOMAIN document[x[1]]
  BY DEF AllKeys
<1>6. ASSUME NEW i \in DOMAIN keys
      PROVE  Made(keys[i][1], keys[i][2]) \in Objects
  <2>1. keys[i] \in AllKeys
    BY <1>2, <1>4
  <2> QED
    BY <1>5, <2>1, MadeObject
<1>7. objects' \in Seq(Objects) /\ Len(objects') = Len(keys)
  BY <1>3, <1>4, <1>6
<1>8. ASSUME NEW s \in Sections
      PROVE  /\ DOMAIN config'[s] = DOMAIN document[s]
             /\ \A k \in DOMAIN document[s] : /\ config'[s][k] \in 1..Len(objects')
                                              /\ objects'[config'[s][k]] = Made(s, k)
  <2>1. config'[s] = [k \in DOMAIN document[s] |->
                         CHOOSE i \in DOMAIN keys : keys[i] = <<s, k>>]
    BY <1>3
  <2>2. ASSUME NEW k \in DOMAIN document[s]
        PROVE  config'[s][k] \in DOMAIN keys /\ keys[config'[s][k]] = <<s, k>>
    <3>1. <<s, k>> \in AllKeys
      BY DEF AllKeys
    <3>2. \E i \in DOMAIN keys : keys[i] = <<s, k>>
      BY <1>2, <3>1
    <3> QED
      BY <2>1, <3>2
  <2>3. ASSUME NEW k \in DOMAIN document[s]
        PROVE  objects'[config'[s][k]] = Made(s, k)
    <3>1. objects'[config'[s][k]]
            = Made(keys[config'[s][k]][1], keys[config'[s][k]][2])
      BY <1>3, <2>2
    <3> QED
      BY <2>2, <3>1
  <2> QED
    BY <1>4, <1>7, <2>1, <2>2, <2>3
<1>9. ASSUME NEW s \in Sections
      PROVE  (/\ DOMAIN config[s] = DOMAIN document[s]
              /\ \A k \in DOMAIN document[s] : /\ config[s][k] \in 1..Len(objects)
                                               /\ objects[config[s][k]] = Made(s, k))'
  <2>1. (DOMAIN config[s] = DOMAIN document[s])'
    BY <1>3, <1>8
  <2>2. ASSUME NEW k \in DOMAIN document'[s]
        PROVE  /\ config'[s][k] \in 1..Len(objects')
               /\ objects'[config'[s][k]] = Named(s, k, document'[s][k])
    BY <1>3, <1>8 DEF Made
  <2>3. ASSUME NEW k \in DOMAIN document'[s]
        PROVE  Made(s, k)' = Named(s, k, document'[s][k])
    BY DEF Made
  <2> QED
    BY <2>1, <2>2, <2>3
<1>10. (~\E u \in DOMAIN document.users : UserRaises(document.users[u]))'
  BY <1>3
<1> QED
  BY <1>7, <1>9, <1>10 DEF Loaded

\* No later call touches the configured objects: what is made is added.
ObjectsKept ==
    /\ document' = document /\ config' = config
    /\ objects' \in Seq(Objects)
    /\ Len(objects') >= Len(objects)
    /\ \A n \in 1..Len(objects) : objects'[n] = objects[n]

\* Objects that are added do not disturb the configured ones.
LEMMA LoadedStays ==
    ASSUME Loaded, objects \in Seq(Objects), ObjectsKept
    PROVE  Loaded'
<1>1. (~\E u \in DOMAIN document.users : UserRaises(document.users[u]))'
  BY DEF Loaded, ObjectsKept
<1>2. Len(objects) \in Nat /\ Len(objects') \in Nat
  BY DEF ObjectsKept
<1>3. ASSUME NEW s \in Sections
      PROVE  (/\ DOMAIN config[s] = DOMAIN document[s]
              /\ \A k \in DOMAIN document[s] : /\ config[s][k] \in 1..Len(objects)
                                               /\ objects[config[s][k]] = Made(s, k))'
  <2>1. (DOMAIN config[s] = DOMAIN document[s])'
    BY DEF Loaded, ObjectsKept
  <2>2. ASSUME NEW k \in DOMAIN document'[s]
        PROVE  /\ config'[s][k] \in 1..Len(objects')
               /\ objects'[config'[s][k]] = Named(s, k, document'[s][k])
    BY <1>2 DEF Made, Loaded, ObjectsKept
  <2>3. ASSUME NEW k \in DOMAIN document'[s]
        PROVE  Made(s, k)' = Named(s, k, document'[s][k])
    BY DEF Made
  <2> QED
    BY <2>1, <2>2, <2>3
<1> QED
  BY <1>1, <1>3 DEF Loaded

-----------------------------------------------------------------------------
(***************************************************************************)
(* The gateways.                                                           *)
(***************************************************************************)

GatewayObjects ==
    [endorsing_peers : Seq(Nat), orderers : Seq(Nat), requestor : Nat,
     chaincode : Nat, channel : STRING]

Wanted == [key : DOMAIN document.gateways, version : STRING \cup {None}]

USE DEF Wanted

\* The objects that a list of keys refers to.
Refers(list, keys, objs) ==
    /\ Len(list) = Len(keys)
    /\ \A j \in DOMAIN list : keys[j] \in DOMAIN objs /\ list[j] = objs[keys[j]]

\* The chaincode of a gateway: the configured one, or a copy of it with the
\* version that was asked for.
ChaincodeInv(gw, conf, version) ==
    /\ gw.chaincode = NoObject <=> conf.chaincode = None
    /\ gw.chaincode # NoObject =>
          /\ conf.chaincode \in DOMAIN document.chaincodes
          /\ gw.chaincode \in 1..Len(objects)
          /\ objects[gw.chaincode] \in Chaincodes
          /\ objects[gw.chaincode].name
               = NameOf(conf.chaincode, document.chaincodes[conf.chaincode])
          /\ objects[gw.chaincode].version = version

\* A gateway and what was asked for when it was made.
GatewayInv(gw, want) ==
    LET conf == document.gateways[want.key]
    IN  /\ gw \in GatewayObjects
        /\ want \in Wanted
        /\ Refers(gw.endorsing_peers, conf.endorsing_peers, config.peers)
        /\ Refers(gw.orderers, conf.orderers, config.orderers)
        /\ conf.requestor \in DOMAIN config.users
        /\ gw.requestor = config.users[conf.requestor]
        /\ ChaincodeInv(gw, conf, want.version)

\* The inductive invariant.  Without Loaded nothing would be known of the objects
\* a gateway refers to.
ConfigInv ==
    /\ document \in Documents
    /\ objects \in Seq(Objects)
    /\ state = "loaded" => Loaded
    /\ state # "loaded" => gateways = <<>>
    /\ Len(gateways) = Len(wanted)
    /\ gateways \in Seq(GatewayObjects)
    /\ wanted \in Seq(Wanted)
    /\ \A i \in DOMAIN gateways : GatewayInv(gateways[i], wanted[i])

\* A gateway stays what was asked for when objects are only added.
LEMMA GatewayKept ==
    ASSUME objects \in Seq(Objects), ObjectsKept, NEW gw, NEW want, GatewayInv(gw, want)
    PROVE  (/\ gw \in GatewayObjects
            /\ want \in Wanted
            /\ GatewayInv(gw, want))'
<1>1. PICK conf : conf = document.gateways[want.key]
  OBVIOUS
<1>2. conf = document'.gateways[want.key] /\ config' = config
  BY <1>1 DEF ObjectsKept
<1>3. ChaincodeInv(gw, conf, want.version)
  BY <1>1 DEF GatewayInv
<1>4. ChaincodeInv(gw, conf, want.version)'
  <2>1. Len(objects) \in Nat /\ Len(objects') \in Nat
    BY DEF ObjectsKept
  <2> QED
    BY <1>3, <2>1 DEF ChaincodeInv, ObjectsKept
<1> QED
  BY <1>1, <1>2, <1>4 DEF GatewayInv, ObjectsKept

\* A step that keeps the objects and the gateways there are, and may add one
\* gateway, keeps the invariant if the new one is what was asked for.
LEMMA GatewayAdded ==
    ASSUME ConfigInv, state = "loaded", state' = state, ObjectsKept,
           NEW gw, NEW want,
           gateways' = Append(gateways, gw), wanted' = Append(wanted, want),
           GatewayInv(gw, want)'
    PROVE  ConfigInv'
<1>1. /\ document' = document /\ objects' \in Seq(Objects) /\ Loaded'
  BY LoadedStays DEF ConfigInv, ObjectsKept
<1>2. gw \in GatewayObjects /\ want \in Wanted
  BY <1>1 DEF GatewayInv
<1>3. /\ gateways' \in Seq(GatewayObjects)
      /\ wanted' \in Seq(Wanted)
      /\ Len(gateways') = Len(gateways) + 1 /\ Len(wanted') = Len(gateways')
      /\ Len(gateways) \in Nat
  BY <1>2 DEF ConfigInv
<1>4. ASSUME NEW i \in DOMAIN gateways'
      PROVE  GatewayInv(gateways[i], wanted[i])'
  <2>1. CASE i \in 1..Len(gateways)
    <3>1. /\ gateways'[i] = gateways[i] /\ wanted'[i] = wanted[i]
          /\ i \in DOMAIN gateways
      BY <1>2, <2>1 DEF ConfigInv
    <3>2. PICK g, w : g = gateways[i] /\ w = wanted[i]
      OBVIOUS
    <3>3. GatewayInv(g, w)
      BY <3>1, <3>2 DEF ConfigInv
    <3>4. GatewayInv(g, w)'
      BY <3>3, GatewayKept DEF ConfigInv
    <3>5. g = gateways'[i] /\ w = wanted'[i]
      BY <3>1, <3>2
    <3> QED
      BY <3>4, <3>5 DEF GatewayInv, ChaincodeInv
  <2>2. CASE i = Len(gateways) + 1
    <3>1. gateways'[i] = gw /\ wanted'[i] = want
      BY <1>2, <2>2 DEF ConfigInv
    <3> QED
      BY <3>1 DEF GatewayInv, ChaincodeInv
  <2> QED
    BY <1>3, <2>1, <2>2
<1> QED
  BY <1>1, <1>3, <1>4 DEF ConfigInv

\* get_gateway: the configured objects, in the configured order.
LEMMA GetGatewayKeeps ==
    ASSUME ConfigInv, NEW g \in DOMAIN document.gateways, GetGateway(g)
    PROVE  ConfigInv'
<1>1. PICK conf : conf = document.gateways[g]
  OBVIOUS
<1>2. conf \in GatewayConfigs
  BY <1>1, ConfigAssumption DEF ConfigInv
<1>3. PICK peers : peers = [i \in DOMAIN conf.endorsing_peers |->
                              config.peers[conf.endorsing_peers[i]]]
  OBVIOUS
<1>4. PICK orderers : orderers = [i \in DOMAIN conf.orderers |->
                                    config.orderers[conf.orderers[i]]]
  OBVIOUS
<1>5. PICK requestor : requestor = config.users[conf.requestor]
  OBVIOUS
<1>6. PICK chaincode : chaincode = IF conf.chaincode = None THEN NoObject
                                   ELSE config.chaincodes[conf.chaincode]
  OBVIOUS
<1>7. PICK version : version = IF conf.chaincode = None THEN None
                               ELSE document.chaincodes[conf.chaincode].version
  OBVIOUS
<1> DEFINE gw == [endorsing_peers |-> peers, orderers |-> orderers,
                  requestor |-> requestor, chaincode |-> chaincode,
                  channel |-> conf.channel]
           want == [key |-> g, version |-> version]
<1>8. /\ state = "loaded" /\ Resolves(g)
      /\ gateways' = Append(gateways, gw) /\ wanted' = Append(wanted, want)
      /\ UNCHANGED <<document, objects, config, state>>
  BY <1>1, <1>3, <1>4, <1>5, <1>6, <1>7 DEF GetGateway
<1>9. ObjectsKept /\ Loaded /\ Len(objects) \in Nat
  BY <1>8 DEF ObjectsKept, ConfigInv
<1>10. \A s \in Sections : \A k \in DOMAIN config[s] :
           k \in DOMAIN document[s] /\ config[s][k] \in 1..Len(objects)
  BY <1>9 DEF Loaded
<1>11. Refers(peers, conf.endorsing_peers, config.peers) /\ peers \in Seq(Nat)
  <2>1. \A i \in DOMAIN conf.endorsing_peers : conf.endorsing_peers[i] \in DOMAIN config.peers
    BY <1>1, <1>2, <1>8 DEF Resolves, GatewayConfigs, ToSet
  <2>2. \A i \in DOMAIN conf.endorsing_peers :
           config.peers[conf.endorsing_peers[i]] \in Nat
    BY <1>9, <1>10, <2>1 DEF Sections
  <2>3. peers \in Seq(Nat) /\ Len(peers) = Len(conf.endorsing_peers)
    BY <1>2, <1>3, <2>2 DEF GatewayConfigs
  <2> QED
    BY <1>3, <2>1, <2>3 DEF Refers
<1>12. Refers(orderers, conf.orderers, config.orderers) /\ orderers \in Seq(Nat)
  <2>1. \A i \in DOMAIN conf.orderers : conf.orderers[i] \in DOMAIN config.orderers
    BY <1>1, <1>2, <1>8 DEF Resolves, GatewayConfigs, ToSet
  <2>2. \A i \in DOMAIN conf.orderers : config.orderers[conf.orderers[i]] \in Nat
    BY <1>9, <1>10, <2>1 DEF Sections
  <2>3. orderers \in Seq(Nat) /\ Len(orderers) = Len(conf.orderers)
    BY <1>2, <1>4, <2>2 DEF GatewayConfigs
  <2> QED
    BY <1>4, <2>1, <2>3 DEF Refers
<1>13. conf.requestor \in DOMAIN config.users /\ requestor \in Nat
  BY <1>1, <1>5, <1>8, <1>9, <1>10 DEF Resolves, Sections
<1>14. /\ chaincode \in Nat
       /\ chaincode = NoObject <=> conf.chaincode = None
       /\ version \in STRING \cup {None}
       /\ chaincode # NoObject =>
             /\ conf.chaincode \in DOMAIN document.chaincodes
             /\ chaincode \in 1..Len(objects)
             /\ objects[chaincode] \in Chaincodes
             /\ objects[chaincode].name
                  = NameOf(conf.chaincode, document.chaincodes[conf.chaincode])
             /\ objects[chaincode].version = version
  <2>1. CASE conf.chaincode = None
    <3>1. chaincode = NoObject /\ version = None
      BY <1>6, <1>7, <2>1
    <3>2. NoObject \in Nat
      BY DEF NoObject
    <3> QED
      BY <2>1, <3>1, <3>2
  <2>2. CASE conf.chaincode # None
    <3>1. conf.chaincode \in DOMAIN document.chaincodes /\ chaincode \in 1..Len(objects)
      BY <1>1, <1>6, <1>8, <1>10, <2>2 DEF Resolves, Sections
    <3>2. objects[chaincode] = Made("chaincodes", conf.chaincode)
      BY <1>6, <1>9, <2>2, <3>1 DEF Loaded, Sections
    <3>3. /\ objects[chaincode] \in Chaincodes
          /\ objects[chaincode].name
               = NameOf(conf.chaincode, document.chaincodes[conf.chaincode])
          /\ objects[chaincode].version = version
      BY <1>7, <2>2, <3>1, <3>2, MadeObject DEF ConfigInv, Sections
    <3> QED
      BY <1>9, <2>2, <3>1, <3>3 DEF NoObject, Chaincodes
  <2> QED
    BY <2>1, <2>2
<1>15. /\ gw \in GatewayObjects
       /\ want \in Wanted
  BY <1>2, <1>11, <1>12, <1>13, <1>14 DEF GatewayObjects, GatewayConfigs
<1>16. conf = document.gateways[want.key] /\ want.version = version
  BY <1>1
<1>17. /\ gw.endorsing_peers = peers /\ gw.orderers = orderers
       /\ gw.requestor = requestor /\ gw.chaincode = chaincode
  OBVIOUS
<1> HIDE DEF gw, want
<1>18. ChaincodeInv(gw, conf, want.version)
  BY <1>14, <1>16, <1>17 DEF ChaincodeInv
<1>19. GatewayInv(gw, want)
  BY <1>5, <1>11, <1>12, <1>13, <1>15, <1>16, <1>17, <1>18 DEF GatewayInv
<1>20. PICK x, y : x = gw /\ y = want
  OBVIOUS
<1>21. GatewayInv(x, y)'
  BY <1>9, <1>19, <1>20, GatewayKept DEF ConfigInv
<1> QED
  BY <1>8, <1>9, <1>20, <1>21, GatewayAdded

\* update_chaincode_version: the copy has the gateway's peers, orderers and user,
\* and a chaincode of its own.
LEMMA UpdateKeeps ==
    ASSUME ConfigInv, NEW i \in DOMAIN gateways, NEW v \in Versions,
           UpdateChaincodeVersion(i, v)
    PROVE  ConfigInv'
<1>1. PICK g, w, cc, n : /\ g = gateways[i] /\ w = wanted[i]
                         /\ cc = objects[gateways[i].chaincode] /\ n = Len(objects) + 1
  OBVIOUS
<1>2. PICK gw : gw = [g EXCEPT !.chaincode = n]
  OBVIOUS
<1>3. PICK want : want = [w EXCEPT !.version = v]
  OBVIOUS
<1>4. PICK copy : copy = [cc EXCEPT !.version = v]
  OBVIOUS
<1>5. /\ g.chaincode # NoObject /\ objects' = Append(objects, copy)
      /\ gateways' = Append(gateways, gw) /\ wanted' = Append(wanted, want)
      /\ UNCHANGED <<document, config, state>>
  BY <1>1, <1>2, <1>3, <1>4 DEF UpdateChaincodeVersion
<1>6. state = "loaded" /\ Len(objects) \in Nat /\ v \in STRING
  BY ConfigAssumption DEF ConfigInv
<1>7. GatewayInv(g, w)
  BY <1>1 DEF ConfigInv
<1>8. PICK conf : conf = document.gateways[w.key]
  OBVIOUS
<1>9. /\ g \in GatewayObjects
      /\ w \in Wanted
      /\ ChaincodeInv(g, conf, w.version)
  BY <1>7, <1>8 DEF GatewayInv
<1>10. /\ conf.chaincode \in DOMAIN document.chaincodes /\ conf.chaincode # None
       /\ cc \in Chaincodes
       /\ cc.name = NameOf(conf.chaincode, document.chaincodes[conf.chaincode])
  BY <1>1, <1>5, <1>9 DEF ChaincodeInv
<1>11. copy \in Chaincodes /\ copy.name = cc.name /\ copy.version = v
  BY <1>4, <1>6, <1>10 DEF Chaincodes
<1>12. ObjectsKept /\ Len(objects') = n /\ objects'[n] = copy /\ n \in Nat /\ n # 0
  <2>1. copy \in Objects
    BY <1>11 DEF Objects
  <2> QED
    BY <1>1, <1>5, <1>6, <2>1 DEF ObjectsKept, ConfigInv
<1>13. /\ gw \in GatewayObjects /\ gw.chaincode = n
       /\ gw.endorsing_peers = g.endorsing_peers /\ gw.orderers = g.orderers
       /\ gw.requestor = g.requestor
  BY <1>2, <1>9, <1>12 DEF GatewayObjects
<1>14. /\ want \in Wanted
       /\ want.key = w.key /\ want.version = v
  BY <1>3, <1>6, <1>9
<1>15. ChaincodeInv(gw, conf, want.version)'
  BY <1>5, <1>10, <1>11, <1>12, <1>13, <1>14 DEF ChaincodeInv, NoObject
<1>16. /\ Refers(gw.endorsing_peers, conf.endorsing_peers, config.peers)
       /\ Refers(gw.orderers, conf.orderers, config.orderers)
       /\ conf.requestor \in DOMAIN config.users
       /\ gw.requestor = config.users[conf.requestor]
  BY <1>7, <1>8, <1>13 DEF GatewayInv
<1>17. GatewayInv(gw, want)'
  BY <1>5, <1>8, <1>13, <1>14, <1>15, <1>16 DEF GatewayInv
<1> QED
  BY <1>5, <1>6, <1>12, <1>17, GatewayAdded

-----------------------------------------------------------------------------
(***************************************************************************)
(* The theorems.                                                           *)
(***************************************************************************)

\* The invariant holds before the file is read.
LEMMA ConfigInit ==
    ASSUME Init
    PROVE  ConfigInv
<1>1. objects = <<>> /\ gateways = <<>> /\ wanted = <<>> /\ state = "new"
  BY DEF Init
<1>2. DOMAIN gateways = {}
  BY <1>1
<1> QED
  BY <1>1, <1>2 DEF Init, ConfigInv

\* Each call keeps the invariant.
LEMMA ConfigNext ==
    ASSUME ConfigInv, [Next]_vars
    PROVE  ConfigInv'
<1>1. CASE FromFile
  <2>1. Loaded' /\ objects' \in Seq(Objects)
    BY <1>1, FileLoaded DEF ConfigInv
  <2>2. /\ gateways = <<>> /\ state' = "loaded"
        /\ document' = document /\ gateways' = gateways /\ wanted' = wanted
    BY <1>1 DEF FromFile, ConfigInv
  <2>3. DOMAIN gateways' = {}
    BY <2>2
  <2> QED
    BY <2>1, <2>2, <2>3 DEF ConfigInv
<1>2. CASE FromFileRaises
  <2>1. /\ gateways = <<>> /\ state' = "value_error"
        /\ document' = document /\ gateways' = gateways /\ wanted' = wanted
        /\ objects' = objects
    BY <1>2 DEF FromFileRaises, ConfigInv
  <2>2. DOMAIN gateways' = {}
    BY <2>1
  <2> QED
    BY <2>1, <2>2 DEF ConfigInv
<1>3. ASSUME NEW g \in DOMAIN document.gateways, GetGateway(g)
      PROVE  ConfigInv'
  BY <1>3, GetGatewayKeeps
<1>4. ASSUME NEW i \in DOMAIN gateways, NEW v \in Versions, UpdateChaincodeVersion(i, v)
      PROVE  ConfigInv'
  BY <1>4, UpdateKeeps
<1>5. CASE UNCHANGED vars
  BY <1>5 DEF vars, ConfigInv, Loaded, Made, GatewayInv, ChaincodeInv
<1> QED
  BY <1>1, <1>2, <1>3, <1>4, <1>5 DEF Next

\* What the invariant says of the objects that a gateway's lists refer to.
LEMMA ReferredObject ==
    ASSUME ConfigInv, state = "loaded", NEW s \in Sections, NEW list, NEW keys,
           Refers(list, keys, config[s]), NEW j \in DOMAIN list
    PROVE  /\ keys[j] \in DOMAIN document[s]
           /\ objects[list[j]] = Made(s, keys[j])
           /\ objects[list[j]].name = NameOf(keys[j], document[s][keys[j]])
<1>1. keys[j] \in DOMAIN document[s] /\ objects[list[j]] = Made(s, keys[j])
  BY DEF ConfigInv, Loaded, Refers
<1> QED
  BY <1>1, MadeObject DEF ConfigInv

\* The invariant implies both properties.
LEMMA GatewaysAreAsked ==
    ASSUME ConfigInv
    PROVE  GatewayAsAsked /\ CredentialsMatch
<1> SUFFICES ASSUME NEW i \in DOMAIN gateways
             PROVE  GatewayAsAsked!(i) /\ CredentialsMatch!(i)
  BY DEF GatewayAsAsked, CredentialsMatch
<1>1. state = "loaded" /\ Loaded /\ document \in Documents
  BY DEF ConfigInv
<1>2. PICK gw, want : gw = gateways[i] /\ want = wanted[i]
  OBVIOUS
<1>3. PICK conf : conf = document.gateways[want.key]
  OBVIOUS
<1>4. /\ gw \in GatewayObjects
      /\ Refers(gw.endorsing_peers, conf.endorsing_peers, config.peers)
      /\ Refers(gw.orderers, conf.orderers, config.orderers)
      /\ conf.requestor \in DOMAIN config.users
      /\ gw.requestor = config.users[conf.requestor]
      /\ ChaincodeInv(gw, conf, want.version)
  <2>1. GatewayInv(gw, want)
    BY <1>2 DEF ConfigInv
  <2> QED
    BY <1>3, <2>1 DEF GatewayInv
<1>5. ASSUME NEW j \in DOMAIN gw.endorsing_peers
      PROVE  /\ gw.endorsing_peers[j] = config.peers[conf.endorsing_peers[j]]
             /\ Configured("peers", conf.endorsing_peers[j], objects[gw.endorsing_peers[j]])
             /\ NodeMatches(objects[gw.endorsing_peers[j]])
  <2>1. /\ conf.endorsing_peers[j] \in DOMAIN document["peers"]
        /\ objects[gw.endorsing_peers[j]] = Made("peers", conf.endorsing_peers[j])
    BY <1>1, <1>4, ReferredObject DEF Sections
  <2> QED
    BY <1>1, <1>4, <2>1, MadeObject DEF Refers, Configured, NameOf, Sections
<1>6. ASSUME NEW j \in DOMAIN gw.orderers
      PROVE  /\ gw.orderers[j] = config.orderers[conf.orderers[j]]
             /\ Configured("orderers", conf.orderers[j], objects[gw.orderers[j]])
             /\ NodeMatches(objects[gw.orderers[j]])
  <2>1. /\ conf.orderers[j] \in DOMAIN document["orderers"]
        /\ objects[gw.orderers[j]] = Made("orderers", conf.orderers[j])
    BY <1>1, <1>4, ReferredObject DEF Sections
  <2> QED
    BY <1>1, <1>4, <2>1, MadeObject DEF Refers, Configured, NameOf, Sections
<1>7. /\ Configured("users", conf.requestor, objects[gw.requestor])
      /\ objects[gw.requestor].cert # None /\ objects[gw.requestor].key # None
  <2>1. /\ conf.requestor \in DOMAIN document["users"]
        /\ objects[gw.requestor] = Made("users", conf.requestor)
        /\ ~UserRaises(document["users"][conf.requestor])
    BY <1>1, <1>4 DEF Loaded, Sections
  <2> QED
    BY <1>1, <2>1, MadeObject DEF Configured, NameOf, Sections
<1>8. /\ gw.chaincode = NoObject <=> conf.chaincode = None
      /\ gw.chaincode # NoObject =>
            /\ Configured("chaincodes", conf.chaincode, objects[gw.chaincode])
            /\ objects[gw.chaincode].version = want.version
  BY <1>4 DEF ChaincodeInv, Configured, NameOf
<1>9. GatewayAsAsked!(i)
  BY <1>2, <1>3, <1>4, <1>5, <1>6, <1>7, <1>8 DEF Refers
<1>10. \A n \in ToSet(gw.endorsing_peers) \cup ToSet(gw.orderers) : NodeMatches(objects[n])
  BY <1>4, <1>5, <1>6 DEF ToSet, GatewayObjects
<1>11. CredentialsMatch!(i)
  BY <1>2, <1>7, <1>10 DEF NodeMatches
<1> QED
  BY <1>9, <1>11

\* Every gateway of any configuration has, in the configured order, the objects
\* its configuration names, and the chaincode version its own caller asked for,
\* whatever versions are derived from it or beside it (get_gateway,
\* update_chaincode_version).
THEOREM GatewaysAsAsked == Spec => []GatewayAsAsked
<1>1. Init => ConfigInv
  BY ConfigInit
<1>2. ConfigInv /\ [Next]_vars => ConfigInv'
  BY ConfigNext
<1>3. ConfigInv => GatewayAsAsked
  BY GatewaysAreAsked
<1> QED
  BY <1>1, <1>2, <1>3, PTL DEF Spec

\* A node of a gateway presents the certificate whose hash its streams carry,
\* and its user has both certificate and key, for any combination of values and
\* files that is read without an exception (__post_init__).
THEOREM CredentialsAlwaysMatch == Spec => []CredentialsMatch
<1>1. Init => ConfigInv
  BY ConfigInit
<1>2. ConfigInv /\ [Next]_vars => ConfigInv'
  BY ConfigNext
<1>3. ConfigInv => CredentialsMatch
  BY GatewaysAreAsked
<1> QED
  BY <1>1, <1>2, <1>3, PTL DEF Spec
=============================================================================
