---------------------------- MODULE ChannelAdmin ----------------------------
(***************************************************************************)
(* Setting up a channel through a Gateway: create_channel, join_channel    *)
(* and install_chaincode, run one after the other, or at the same time, by *)
(* several tasks, each of which may call them again after a failure.       *)
(*                                                                         *)
(* An RPC to a peer has two ends: the peer acts on it (joins the channel,  *)
(* stores the chaincode) and the answer comes back, or does not.  gather   *)
(* raises the first exception and leaves the other RPCs running, so a peer *)
(* may act on a call that has already failed.                              *)
(***************************************************************************)
EXTENDS Naturals, Sequences, FiniteSets

CONSTANTS
    Tasks,        \* the asyncio tasks that administer the channel
    Peer,         \* the peers there are
    Peers,        \* gateway.endorsing_peers, a sequence
    Lists,        \* the peers arguments of the calls, <<>> for none given
    NumOrderers,  \* the length of gateway.orderers
    MaxCreates    \* bound on the calls of create_channel

ASSUME AdminAssumption ==
    /\ NumOrderers \in Nat /\ NumOrderers > 0
    /\ Peers \in Seq(Peer) /\ Peers # <<>>
    /\ Lists \subseteq Seq(Peer)
    /\ MaxCreates \in Nat

\* The peers a call is about: those it is given, or else the gateway's.
Given(peers) == IF peers = <<>> THEN Peers ELSE peers

\* The first n peers of a list, and all of them.
First(list, n) == {list[i] : i \in 1..n}
Members(list) == First(list, Len(list))

VARIABLES
    ordered,    \* the ordering service has taken in the channel's config update
    known,      \* the orderers that can deliver the channel's first block
    joined,     \* the peers that have joined the channel
    installed,  \* the peers that store the chaincode
    late,       \* RPCs to peers whose caller has stopped listening
    call,       \* what each task is doing
    result,     \* how each task's last call ended
    creates     \* how many times create_channel was called

network == <<ordered, known, joined, installed, late>>
vars == <<network, call, result, creates>>

\* A task in a call: its peers; the one of them and the orderer the loops are
\* at; whether the first block was delivered, whether an orderer could not be
\* reached, and the RPCs of the current gather.
Call ==
    {c \in [op : {"none", "create", "join", "install"},
            peers : Seq(Peer), k : Nat, o : 1..NumOrderers,
            block : BOOLEAN, connError : BOOLEAN,
            rpc : [Peer -> {"none", "sent", "ok", "error"}]] :
        c.k \in 1..Len(c.peers)}

NoRpc == [p \in Peer |-> "none"]

Started(op, peers) ==
    [op |-> op, peers |-> peers, k |-> 1, o |-> 1, block |-> FALSE,
     connError |-> FALSE, rpc |-> NoRpc]

Idle == Started("none", Peers)

\* propose_tx sends the proposal to the given peers.
Proposed(c, peers) ==
    [c EXCEPT !.rpc = [p \in Peer |-> IF p \in peers THEN "sent" ELSE "none"]]

Result ==
    [op : {"none", "create", "join", "install"}, peers : Seq(Peer),
     how : {"none", "returned", "commit_error", "connection_error",
            "retrieval_error", "proposal_error"}]

\* The call of task t goes on as c, or ends.
Goes(t, c) == call' = [call EXCEPT ![t] = c] /\ UNCHANGED result

Ends(t, r) ==
    /\ result' = [result EXCEPT ![t] = [op |-> call[t].op,
                                        peers |-> call[t].peers, how |-> r]]
    /\ call' = [call EXCEPT ![t] = Idle]

-----------------------------------------------------------------------------
(* Gateway.create_channel: broadcast_to_orderers with a config update.      *)

CreateChannel(t) ==
    /\ call[t].op = "none"
    /\ creates < MaxCreates
    /\ creates' = creates + 1
    /\ Goes(t, Started("create", Peers))
    /\ UNCHANGED network

\* The orderer takes the update in, or refuses it: always once the channel is
\* there.  Its answer arrives, or only the connection error does.
BroadcastOk(t) ==
    /\ call[t].op = "create"
    /\ ~ordered
    /\ ordered' = TRUE
    /\ Ends(t, "returned")
    /\ UNCHANGED <<known, joined, installed, late, creates>>

BroadcastRejected(t) ==
    /\ call[t].op = "create"
    /\ Ends(t, "commit_error")
    /\ UNCHANGED <<network, creates>>

BroadcastConnError(t) ==
    /\ call[t].op = "create"
    /\ ordered' \in {ordered, TRUE}
    /\ IF call[t].o < NumOrderers
       THEN Goes(t, [call[t] EXCEPT !.o = @ + 1])
       ELSE Ends(t, "connection_error")
    /\ UNCHANGED <<known, joined, installed, late, creates>>

\* The stream of answers ends without one, which counts as success.
BroadcastClosed(t) ==
    /\ call[t].op = "create"
    /\ ordered' \in {ordered, TRUE}
    /\ Ends(t, "returned")
    /\ UNCHANGED <<known, joined, installed, late, creates>>

\* An orderer has the channel's first block.
Publish(o) ==
    /\ ordered /\ o \notin known
    /\ known' = known \cup {o}
    /\ UNCHANGED <<ordered, joined, installed, late, call, result, creates>>

-----------------------------------------------------------------------------
(* Gateway.join_channel: operations.join_channel for one peer after the     *)
(* other.                                                                   *)

JoinChannel(t, peers) ==
    /\ call[t].op = "none"
    /\ Goes(t, Started("join", Given(peers)))
    /\ UNCHANGED <<network, creates>>

\* Mutants: one orderer too many; the join goes to all the peers at once.
NextOrdererPastEnd(t, c) ==
    \/ /\ c.o <= NumOrderers
       /\ Goes(t, [c EXCEPT !.o = @ + 1])
    \/ /\ c.o > NumOrderers
       /\ Goes(t, Proposed(c, {c.peers[c.k]}))

NextOrdererAllPeers(t, c) ==
    \/ /\ c.o < NumOrderers
       /\ Goes(t, [c EXCEPT !.o = @ + 1])
    \/ /\ c.o = NumOrderers /\ c.block
       /\ Goes(t, Proposed(c, Members(c.peers)))

\* The loop over the orderers has no break: they are all asked, whoever has
\* delivered the block, and one that cannot be reached makes the call fail.
NextOrderer(t, c) ==
    \/ /\ c.o < NumOrderers
       /\ Goes(t, [c EXCEPT !.o = @ + 1])
    \/ /\ c.o = NumOrderers /\ c.connError
       /\ Ends(t, "connection_error")
    \/ /\ c.o = NumOrderers /\ ~c.connError /\ ~c.block
       /\ Ends(t, "retrieval_error")
    \/ /\ c.o = NumOrderers /\ ~c.connError /\ c.block
       /\ Goes(t, Proposed(c, {c.peers[c.k]}))

Fetching(t) == call[t].op = "join" /\ call[t].rpc = NoRpc

\* Mutant: the loop binds the block to a name of its own.
FetchBlockDropped(t) ==
    /\ Fetching(t)
    /\ call[t].o \in known
    /\ NextOrderer(t, call[t])
    /\ UNCHANGED <<network, creates>>

FetchBlock(t) ==
    /\ Fetching(t)
    /\ call[t].o \in known
    /\ NextOrderer(t, [call[t] EXCEPT !.block = TRUE])
    /\ UNCHANGED <<network, creates>>

FetchConnError(t) ==
    /\ Fetching(t)
    /\ NextOrderer(t, [call[t] EXCEPT !.connError = TRUE])
    /\ UNCHANGED <<network, creates>>

\* The stream ends without a block.
FetchNothing(t) ==
    /\ Fetching(t)
    /\ NextOrderer(t, call[t])
    /\ UNCHANGED <<network, creates>>

\* The orderer answers with a status, as one that does not know the channel
\* does: no ConnectionError, so the call ends at once.
FetchStatus(t) ==
    /\ Fetching(t)
    /\ Ends(t, "retrieval_error")
    /\ UNCHANGED <<network, creates>>

-----------------------------------------------------------------------------
(* Gateway.install_chaincode: one proposal to all its peers at once.        *)

\* Mutant: the proposal goes to the first peer only.
InstallOnFirst(t, peers) ==
    /\ call[t].op = "none"
    /\ Goes(t, Proposed(Started("install", Given(peers)), {Given(peers)[1]}))
    /\ UNCHANGED <<network, creates>>

InstallChaincode(t, peers) ==
    /\ call[t].op = "none"
    /\ Goes(t, Proposed(Started("install", Given(peers)), Members(Given(peers))))
    /\ UNCHANGED <<network, creates>>

-----------------------------------------------------------------------------
(* The peers, and what becomes of their answers.                            *)

\* Peer p does what op asks: it can only do it once.
Performs(op, p) ==
    \/ /\ op = "join" /\ p \notin joined
       /\ joined' = joined \cup {p}
       /\ UNCHANGED installed
    \/ /\ op = "install" /\ p \notin installed
       /\ installed' = installed \cup {p}
       /\ UNCHANGED joined

PeerPerforms(t, p) ==
    /\ call[t].rpc[p] = "sent"
    /\ Performs(call[t].op, p)
    /\ call' = [call EXCEPT ![t].rpc[p] = "ok"]
    /\ UNCHANGED <<ordered, known, late, result, creates>>

PeerRefuses(t, p) ==
    /\ call[t].rpc[p] = "sent"
    /\ call' = [call EXCEPT ![t].rpc[p] = "error"]
    /\ UNCHANGED <<network, result, creates>>

PeerPerformsLate(m) ==
    /\ Performs(m.op, m.peer)
    /\ late' = late \ {m}
    /\ UNCHANGED <<ordered, known, call, result, creates>>

LateIsLost(m) ==
    /\ late' = late \ {m}
    /\ UNCHANGED <<ordered, known, joined, installed, call, result, creates>>

\* Mutant: any() for all() in fully_endorsed.
PartlyEndorsed(c) == \E p \in Peer : c.rpc[p] = "ok"

\* Every answer the gather waited for is a success.
FullyEndorsed(c) == \A p \in Peer : c.rpc[p] \in {"none", "ok"}

\* All the answers are there: the gather is over.
Answered(t) ==
    /\ call[t].rpc # NoRpc
    /\ \A p \in Peer : call[t].rpc[p] # "sent"
    /\ IF ~FullyEndorsed(call[t])
       THEN Ends(t, "proposal_error")
       ELSE IF call[t].op = "join" /\ call[t].k < Len(call[t].peers)
       THEN Goes(t, [Started("join", call[t].peers) EXCEPT !.k = call[t].k + 1])
       ELSE Ends(t, "returned")
    /\ UNCHANGED <<network, creates>>

\* An RPC of the gather fails, before or after the peer acted on it: the call
\* ends with that exception and nobody listens to the other answers.
RpcFails(t) ==
    /\ call[t].rpc # NoRpc
    /\ Ends(t, "connection_error")
    /\ late' = late \cup [op : {call[t].op},
                          peer : {p \in Peer : call[t].rpc[p] = "sent"}]
    /\ UNCHANGED <<ordered, known, joined, installed, creates>>

-----------------------------------------------------------------------------

Init ==
    /\ ordered = FALSE
    /\ known = {}
    /\ joined = {}
    /\ installed = {}
    /\ late = {}
    /\ call = [t \in Tasks |-> Idle]
    /\ result = [t \in Tasks |-> [op |-> "none", peers |-> Peers, how |-> "none"]]
    /\ creates = 0

Fetch(t) ==
    \/ FetchBlock(t)
    \/ FetchConnError(t)
    \/ FetchNothing(t)
    \/ FetchStatus(t)

\* The orderer's answer to a create_channel.
Reply(t) ==
    \/ BroadcastOk(t)
    \/ BroadcastRejected(t)
    \/ BroadcastConnError(t)
    \/ BroadcastClosed(t)

PeerAnswers(t, p) == PeerPerforms(t, p) \/ PeerRefuses(t, p)

Next ==
    \/ \E t \in Tasks :
          \/ CreateChannel(t)
          \/ Reply(t)
          \/ \E peers \in Lists : JoinChannel(t, peers) \/ InstallChaincode(t, peers)
          \/ Fetch(t)
          \/ \E p \in Peer : PeerAnswers(t, p)
          \/ Answered(t)
          \/ RpcFails(t)
    \/ \E o \in 1..NumOrderers : Publish(o)
    \/ \E m \in late : PeerPerformsLate(m) \/ LateIsLost(m)

Spec == Init /\ [][Next]_vars

\* The caller keeps calling join_channel and install_chaincode, also for all of
\* the gateway's peers; the orderers publish and deliver the channel; a peer that
\* is asked again and again does what it is asked, unless it has done it before.
\* RPCs complete or fail.
Fairness ==
    /\ \A t \in Tasks :
          /\ SF_vars(JoinChannel(t, <<>>))
          /\ SF_vars(InstallChaincode(t, <<>>))
          /\ WF_vars(Reply(t)) /\ WF_vars(Fetch(t)) /\ WF_vars(Answered(t))
          /\ SF_vars(FetchBlock(t))
          /\ \A p \in Peer : SF_vars(PeerPerforms(t, p)) /\ WF_vars(PeerAnswers(t, p))
    /\ \A o \in 1..NumOrderers : WF_vars(Publish(o))

FairSpec == Spec /\ Fairness

-----------------------------------------------------------------------------

\* The types of the network's state and of the calls; the loops stay within
\* the lists of peers and orderers.
TypeOK ==
    /\ ordered \in BOOLEAN
    /\ known \subseteq 1..NumOrderers
    /\ joined \subseteq Peer /\ installed \subseteq Peer
    /\ late \subseteq [op : {"join", "install"}, peer : Peer]
    /\ call \in [Tasks -> Call]
    /\ result \in [Tasks -> Result]
    /\ creates \in 0..MaxCreates

\* A join_channel or install_chaincode that returns has reached every peer it
\* was given, or else of the gateway, whatever other tasks, and RPCs of calls
\* that failed earlier, did meanwhile (raise_tx_proposal_error after each
\* propose_tx).
ReturnedMeansDone ==
    \A t \in Tasks :
        result[t].how = "returned" =>
            /\ result[t].op = "join" => Members(result[t].peers) \subseteq joined
            /\ result[t].op = "install" => Members(result[t].peers) \subseteq installed

\* A peer that has joined had its turn: some call was given a list in which
\* every peer before it has joined, too, so a caller whose join_channel failed
\* can resume at the first peer of its list that has not (the for statement of
\* Gateway.join_channel), also when RPCs whose caller has given up are acted on
\* later.
JoinedInOrder ==
    \A p \in joined :
        \E l \in Lists : \E i \in 1..Len(Given(l)) :
            p = Given(l)[i] /\ First(Given(l), i - 1) \subseteq joined

\* A caller that keeps calling install_chaincode gets the chaincode onto all
\* the gateway's peers, although a peer that has it refuses it: the proposal
\* goes to all of them at once.
InstallConverges == <>(Members(Peers) \subseteq installed)

\* From some time on the orderers can be reached, and those that have the
\* channel's first block deliver it.
ConnectionsHold ==
    <>[][\A t \in Tasks :
            /\ FetchConnError(t) \/ FetchNothing(t) => FetchBlock(t)
            /\ FetchStatus(t) => call[t].o \notin known \/ FetchBlock(t)
            /\ ~RpcFails(t)]_vars

\* A join_channel that comes too early, when the update is ordered and some
\* orderers do not have the channel yet, or that meets an orderer that cannot
\* be reached, is not lost: once the connections hold, a caller that calls again
\* gets the gateway's first peer into the channel (the loop over the orderers
\* starts afresh with each call).
JoinRecovers ==
    ConnectionsHold => (ordered ~> Peers[1] \in joined)
=============================================================================
