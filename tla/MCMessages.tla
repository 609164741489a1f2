----------------------------- MODULE MCMessages -----------------------------
(***************************************************************************)
(* Instances of Messages for TLC.  The calls have an empty argument, one   *)
(* that is latin1 and one that cannot be encoded, and a transient map or   *)
(* none; the seeks start and stop at 0, at the newest block and never; the *)
(* certificate has two lines.                                              *)
(***************************************************************************)
EXTENDS Messages, MCWire

CONSTANT Indefinite    \* sys.maxsize

MCCCSpec ==
    [name |-> "cc", language |-> "GOLANG", version |-> "1", path |-> "path",
     args |-> <<Ascii("a"), Ascii("")>>]

MCEntry ==
    New("ChaincodeProposalPayload_TransientMapEntry",
        [key |-> Text("key"), value |-> Opaque("secret", 1)])

MCInvoke(kind, chars, transient) ==
    [kind |-> kind, cc_name |-> "cc", fcn |-> Ascii("f"), channel |-> TheChannel,
     args |-> <<Ascii(""), [chars |-> chars, str |-> "b"]>>, transient |-> transient]

MCCalls ==
    {MCInvoke("invoke", chars, <<>>) : chars \in {"ascii", "latin1", "wide"}}
    \cup {MCInvoke(kind, "ascii", <<MCEntry>>) : kind \in {"invoke", "query"}}
    \cup {[kind |-> kind, cc_spec |-> MCCCSpec, channel |-> TheChannel,
           policy |-> policy] : kind \in {"deploy", "upgrade"},
                                policy \in {<<>>, Opaque("policy", 1)}}
    \cup {[kind |-> "install", cc_spec |-> MCCCSpec, package |-> Opaque("tar", 1)],
          [kind |-> "getchaincodes"], [kind |-> "getinstalledchaincodes"]}

MCCert == <<"line1", "line2">>

MCSeek(to, start, stop, behavior, cert) ==
    [to |-> to, start |-> start, stop |-> stop, behavior |-> behavior, cert |-> cert]

MCSeeks ==
    {MCSeek(<<"AtomicBroadcast", "Deliver">>, {0}, {0}, "BLOCK_UNTIL_READY", <<>>),
     MCSeek(<<"Deliver", "DeliverFiltered">>, {}, {Indefinite}, "BLOCK_UNTIL_READY", MCCert),
     MCSeek(<<"Deliver", "DeliverFiltered">>, {0}, {}, "FAIL_IF_NOT_READY", <<>>),
     MCSeek(<<"Deliver", "Deliver">>, {1}, {0}, "FAIL_IF_NOT_READY", MCCert)}

MCPeers == <<"peer1", "peer2">>

\* The output of configtxgen.
MCChannelTX ==
    SignedEnvelope("configtxgen",
        New("ChannelHeader", [type |-> HeaderType.CONFIG_UPDATE, channel_id |-> Text("ch")]),
        SerializeToString("ConfigUpdateEnvelope",
            New("ConfigUpdateEnvelope",
                [config_update |-> SerializeToString("ConfigUpdate",
                    New("ConfigUpdate", [channel_id |-> Text("ch")]))])))

Symmetry == Permutations(Users)
=============================================================================
