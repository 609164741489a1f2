------------------------------ MODULE MCConfig ------------------------------
(***************************************************************************)
(* Configurations for TLC: two peers, with and without TLS and client      *)
(* certificates, given or in files; a user with and without credentials;   *)
(* two gateways on the same peers and chaincode, one that names an unknown *)
(* peer and one without a chaincode.                                       *)
(***************************************************************************)
EXTENDS Config

MCFiles == [ca |-> "the CA", cert |-> "the certificate", key |-> "the key"]

MCNode(name, tls, client) ==
    [name |-> name, tls_ca_cert |-> IF tls = "given" THEN "a CA" ELSE "",
     tls_ca_cert_path |-> IF tls = "file" THEN "ca" ELSE "",
     client_cert |-> IF client = "given" THEN "a certificate" ELSE "",
     client_cert_path |-> IF client = "file" THEN "cert" ELSE "",
     client_key |-> IF client = "given" THEN "a key" ELSE "",
     client_key_path |-> IF client = "file" THEN "key" ELSE "",
     grpc_channel |-> [secure |-> FALSE, presents |-> ""]]

MCUser(cert, key) ==
    [name |-> "", cert |-> cert, cert_path |-> "", key |-> "", key_path |-> key]

MCGateway(peers, chaincode) ==
    [endorsing_peers |-> peers, orderers |-> <<"o">>, requestor |-> "u",
     chaincode |-> chaincode, channel |-> "ch"]

MCDocuments ==
    [ext : {".json", ".txt"},
     peers : {[p |-> MCNode("", tls, client), q |-> MCNode("named", "given", "")] :
                 tls \in {"", "given", "file"}, client \in {"", "given", "file"}},
     orderers : {[o |-> MCNode("", tls, "file")] : tls \in {"", "file"}},
     users : {[u |-> MCUser("a certificate", "key")], [u |-> MCUser("", "key")]},
     chaincodes : {[c |-> [name |-> name, version |-> version]] :
                      name \in {"", "cc"}, version \in {"", "v1"}},
     gateways : {[g |-> MCGateway(<<"p", "q">>, "c"), h |-> MCGateway(<<"q", "p">>, "c"),
                  none |-> MCGateway(<<"p">>, ""), bad |-> MCGateway(<<"x">>, "c")]}]
=============================================================================
