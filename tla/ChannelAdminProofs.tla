------------------------- MODULE ChannelAdminProofs -------------------------
(***************************************************************************)
(* Theorems about ChannelAdmin for any number of tasks, peers, orderers    *)
(* and calls.                                                              *)
(***************************************************************************)
EXTENDS ChannelAdmin, TLAPS

\* The lists that calls are about.
Asked == {Given(l) : l \in Lists}

\* Peer p is in a list whose peers before it are in j.
InTurn(p, j) ==
    \E l \in Asked : \E k \in 1..Len(l) : p = l[k] /\ First(l, k - 1) \subseteq j

\* What a call in progress has achieved, if j are the peers that have joined
\* and s those that store the chaincode: the loop of join_channel, over a list
\* that is one of the callers' or the gateway's, has left only joined peers
\* behind it and talks to the one it is at; install_chaincode talks to all its
\* peers; a success is remembered by its peer.
Progress(c, j, s) ==
    /\ c.op \in {"none", "create"} => c.rpc = NoRpc
    /\ c.op = "join" =>
          /\ c.peers \in Asked
          /\ First(c.peers, c.k - 1) \subseteq j
          /\ \A p \in Peer : c.rpc[p] # "none" => p = c.peers[c.k]
          /\ \A p \in Peer : c.rpc[p] = "ok" => p \in j
    /\ c.op = "install" =>
          /\ \A p \in Members(c.peers) : c.rpc[p] # "none"
          /\ \A p \in Peer : c.rpc[p] = "ok" => p \in s

CallInv == \A t \in Tasks : Progress(call[t], joined, installed)

\* A join nobody listens to any more is for a peer whose turn had come.
LateInv ==
    \A m \in late : m.op = "join" => InTurn(m.peer, joined)

AdminInv == TypeOK /\ CallInv /\ LateInv /\ ReturnedMeansDone /\ JoinedInOrder

\* What a result x claims.
Claim(x) ==
    x.how = "returned" =>
        /\ x.op = "join" => Members(x.peers) \subseteq joined
        /\ x.op = "install" => Members(x.peers) \subseteq installed

-----------------------------------------------------------------------------

\* A list without elements is the empty one.
LEMMA EmptySeq ==
    ASSUME NEW S, NEW l \in Seq(S), l # <<>>
    PROVE  Len(l) > 0
OBVIOUS

\* The fields of a call that has just started.
LEMMA StartedTyped ==
    ASSUME NEW op \in {"none", "create", "join", "install"},
           NEW peers \in Seq(Peer), Len(peers) > 0
    PROVE  /\ Started(op, peers) \in Call
           /\ Started(op, peers).op = op /\ Started(op, peers).k = 1
           /\ Started(op, peers).peers = peers
           /\ Started(op, peers).rpc = NoRpc
BY AdminAssumption DEF Started, Call, NoRpc

\* The list of a call has peers.
LEMMA GivenOK ==
    /\ Peers \in Seq(Peer) /\ Len(Peers) > 0
    /\ \A l \in Lists : /\ Given(l) \in Asked /\ Given(l) \in Seq(Peer)
                       /\ Len(Given(l)) > 0
BY AdminAssumption, EmptySeq DEF Given, Asked

\* The peers of a list are peers.
LEMMA MembersArePeers ==
    ASSUME NEW l \in Seq(Peer)
    PROVE  Members(l) \subseteq Peer
BY DEF Members, First

\* A call that has just started has achieved nothing, and needs nothing.
LEMMA StartedOK ==
    ASSUME NEW op \in {"none", "create", "join"},
           NEW peers \in Seq(Peer), Len(peers) > 0,
           op = "join" => peers \in Asked
    PROVE  /\ Started(op, peers) \in Call
           /\ Progress(Started(op, peers), joined, installed)
<1>1. /\ Started(op, peers) \in Call
      /\ Started(op, peers).op = op /\ Started(op, peers).k = 1
      /\ Started(op, peers).peers = peers
      /\ Started(op, peers).rpc = NoRpc
  BY StartedTyped
<1>2. First(peers, 1 - 1) = {}
  BY DEF First
<1>3. \A p \in Peer : NoRpc[p] = "none"
  BY DEF NoRpc
<1> QED
  BY <1>1, <1>2, <1>3 DEF Progress

\* A call goes on to the next orderer of the list.
LEMMA NextInList ==
    ASSUME NEW c \in Call, c.o < NumOrderers
    PROVE  [c EXCEPT !.o = @ + 1] \in Call
<1>1. c.o + 1 \in 1..NumOrderers
  BY AdminAssumption DEF Call
<1> DEFINE d == [c EXCEPT !.o = @ + 1]
<1>2. d.k = c.k /\ d.peers = c.peers
  BY DEF Call
<1> QED
  BY <1>1, <1>2 DEF Call

\* More joined peers and more installations do not undo a call's progress.
LEMMA ProgressGrows ==
    ASSUME NEW c, NEW j, NEW s, NEW j2, NEW s2,
           Progress(c, j, s), j \subseteq j2, s \subseteq s2
    PROVE  Progress(c, j2, s2)
BY DEF Progress

\* One task's call goes on, or ends with a result that is true; the peers do
\* not change.
LEMMA OneTask ==
    ASSUME AdminInv, NEW t \in Tasks, NEW c \in Call,
           Progress(c, joined, installed),
           call' = [call EXCEPT ![t] = c],
           \/ result' = result
           \/ \E x \in Result : Claim(x) /\ result' = [result EXCEPT ![t] = x],
           UNCHANGED <<joined, installed>>
    PROVE  /\ call' \in [Tasks -> Call] /\ result' \in [Tasks -> Result]
           /\ CallInv' /\ ReturnedMeansDone' /\ JoinedInOrder'
<1>1. call' \in [Tasks -> Call] /\ CallInv'
  <2>1. call \in [Tasks -> Call]
    BY DEF AdminInv, TypeOK
  <2>2. \A u \in Tasks : call'[u] = IF u = t THEN c ELSE call[u]
    BY <2>1
  <2>3. \A u \in Tasks : Progress(call'[u], joined, installed)
    BY <2>2 DEF AdminInv, CallInv
  <2> QED
    BY <2>1, <2>3 DEF CallInv
<1>2. result' \in [Tasks -> Result] /\ ReturnedMeansDone'
  <2>1. result \in [Tasks -> Result]
    BY DEF AdminInv, TypeOK
  <2>2. CASE result' = result
    BY <2>1, <2>2 DEF AdminInv, ReturnedMeansDone
  <2>3. ASSUME NEW x \in Result, Claim(x), result' = [result EXCEPT ![t] = x]
        PROVE  result' \in [Tasks -> Result] /\ ReturnedMeansDone'
    <3>1. \A u \in Tasks : result'[u] = IF u = t THEN x ELSE result[u]
      BY <2>1, <2>3
    <3> QED
      BY <2>1, <2>3, <3>1 DEF AdminInv, ReturnedMeansDone, Claim
  <2> QED
    BY <2>2, <2>3
<1>3. JoinedInOrder'
  BY DEF AdminInv, JoinedInOrder
<1> QED
  BY <1>1, <1>2, <1>3

\* A call that goes on as c.
LEMMA GoesOn ==
    ASSUME AdminInv, NEW t \in Tasks, NEW c \in Call,
           Progress(c, joined, installed), Goes(t, c),
           UNCHANGED <<joined, installed, known, late>>,
           ordered' \in BOOLEAN, creates' \in 0..MaxCreates
    PROVE  AdminInv'
<1>1. /\ call' \in [Tasks -> Call] /\ result' \in [Tasks -> Result]
      /\ CallInv' /\ ReturnedMeansDone' /\ JoinedInOrder'
  BY OneTask DEF Goes
<1>2. TypeOK' /\ LateInv'
  BY <1>1 DEF AdminInv, TypeOK, LateInv
<1> QED
  BY <1>1, <1>2 DEF AdminInv

\* A call that ends with a result that is true; what is left of its RPCs has
\* its proper place among the late ones.
LEMMA EndsWith ==
    ASSUME AdminInv, NEW t \in Tasks, NEW r,
           [op |-> call[t].op, peers |-> call[t].peers, how |-> r] \in Result,
           Claim([op |-> call[t].op, peers |-> call[t].peers, how |-> r]), Ends(t, r),
           UNCHANGED <<joined, installed, known, creates>>,
           ordered' \in BOOLEAN,
           late' \subseteq [op : {"join", "install"}, peer : Peer], LateInv'
    PROVE  AdminInv'
<1>1. Idle \in Call /\ Progress(Idle, joined, installed)
  BY StartedOK, GivenOK DEF Idle
<1>2. /\ call' \in [Tasks -> Call] /\ result' \in [Tasks -> Result]
      /\ CallInv' /\ ReturnedMeansDone' /\ JoinedInOrder'
  <2>1. /\ call' = [call EXCEPT ![t] = Idle]
        /\ \E x \in Result : Claim(x) /\ result' = [result EXCEPT ![t] = x]
    BY DEF Ends
  <2> QED
    BY <1>1, <2>1, OneTask
<1>3. TypeOK'
  BY <1>2 DEF AdminInv, TypeOK
<1> QED
  BY <1>2, <1>3 DEF AdminInv

\* A call that ends with an error.
LEMMA Fails ==
    ASSUME AdminInv, NEW t \in Tasks,
           NEW r \in {"commit_error", "connection_error", "retrieval_error",
                      "proposal_error"},
           Ends(t, r),
           UNCHANGED <<joined, installed, known, creates>>,
           ordered' \in BOOLEAN,
           late' \subseteq [op : {"join", "install"}, peer : Peer], LateInv'
    PROVE  AdminInv'
<1>1. [op |-> call[t].op, peers |-> call[t].peers, how |-> r] \in Result
  <2>1. call[t] \in Call
    BY DEF AdminInv, TypeOK
  <2> QED
    BY <2>1 DEF Call, Result
<1>2. Claim([op |-> call[t].op, peers |-> call[t].peers, how |-> r])
  BY DEF Claim
<1> QED
  BY <1>1, <1>2, EndsWith

\* The late RPCs are as they were.
LEMMA LateSame ==
    ASSUME AdminInv, UNCHANGED <<late, joined>>
    PROVE  late' \subseteq [op : {"join", "install"}, peer : Peer] /\ LateInv'
BY DEF AdminInv, TypeOK, LateInv

-----------------------------------------------------------------------------

LEMMA AdminInit == Init => AdminInv
<1> SUFFICES ASSUME Init PROVE AdminInv
  OBVIOUS
<1>1. \A t \in Tasks : call[t] = Idle
  BY DEF Init
<1>2. Idle \in Call /\ Progress(Idle, joined, installed)
  BY StartedOK, GivenOK DEF Idle
<1>3. TypeOK
  <2>1. call \in [Tasks -> Call]
    BY <1>2 DEF Init
  <2>2. result \in [Tasks -> Result]
    BY AdminAssumption DEF Init, Result
  <2>3. /\ ordered \in BOOLEAN /\ known \subseteq 1..NumOrderers
        /\ joined \subseteq Peer /\ installed \subseteq Peer
        /\ late \subseteq [op : {"join", "install"}, peer : Peer]
    BY DEF Init
  <2>4. creates \in 0..MaxCreates
    BY AdminAssumption DEF Init
  <2> QED
    BY <2>1, <2>2, <2>3, <2>4 DEF TypeOK
<1>4. CallInv
  BY <1>1, <1>2 DEF CallInv
<1>5. LateInv /\ ReturnedMeansDone
  BY DEF Init, LateInv, ReturnedMeansDone
<1>6. JoinedInOrder
  BY DEF Init, JoinedInOrder
<1> QED
  BY <1>3, <1>4, <1>5, <1>6 DEF AdminInv

LEMMA AdminCreate ==
    ASSUME AdminInv, NEW t \in Tasks, CreateChannel(t) \/ Reply(t)
    PROVE  AdminInv'
<1>0. call[t] \in Call /\ creates \in 0..MaxCreates /\ ordered \in BOOLEAN
  BY DEF AdminInv, TypeOK
<1>1. CASE CreateChannel(t)
  <2>1. creates' \in 0..MaxCreates
    BY <1>0, <1>1, AdminAssumption DEF CreateChannel
  <2>2. /\ Started("create", Peers) \in Call
        /\ Progress(Started("create", Peers), joined, installed)
    BY StartedOK, GivenOK
  <2> QED
    BY <1>0, <1>1, <2>1, <2>2, GoesOn DEF CreateChannel, network
<1>2. CASE BroadcastOk(t) \/ BroadcastClosed(t)
  <2>1. /\ [op |-> call[t].op, peers |-> call[t].peers, how |-> "returned"] \in Result
        /\ Claim([op |-> call[t].op, peers |-> call[t].peers, how |-> "returned"])
    BY <1>0, <1>2 DEF BroadcastOk, BroadcastClosed, Result, Claim, Call
  <2>2. /\ Ends(t, "returned") /\ ordered' \in BOOLEAN
        /\ UNCHANGED <<joined, installed, known, creates, late>>
    BY <1>0, <1>2 DEF BroadcastOk, BroadcastClosed
  <2> QED
    BY <2>1, <2>2, EndsWith, LateSame
<1>3. CASE BroadcastRejected(t)
  BY <1>0, <1>3, Fails, LateSame DEF BroadcastRejected, network
<1>4. CASE BroadcastConnError(t)
  <2>1. /\ ordered' \in BOOLEAN /\ call[t].op = "create"
        /\ UNCHANGED <<joined, installed, known, creates, late>>
    BY <1>0, <1>4 DEF BroadcastConnError
  <2>2. CASE call[t].o < NumOrderers
    <3> DEFINE c == [call[t] EXCEPT !.o = @ + 1]
    <3>1. c \in Call
      BY <1>0, <2>2, NextInList
    <3>2. c.op = "create" /\ c.rpc = call[t].rpc
      BY <1>0, <2>1 DEF Call
    <3>3. Progress(c, joined, installed)
      BY <2>1, <3>2 DEF Progress, AdminInv, CallInv
    <3>4. Goes(t, c)
      BY <1>4, <2>2 DEF BroadcastConnError
    <3> QED
      BY <1>0, <2>1, <3>1, <3>3, <3>4, GoesOn
  <2>3. CASE ~(call[t].o < NumOrderers)
    BY <1>4, <2>1, <2>3, Fails, LateSame DEF BroadcastConnError
  <2> QED
    BY <2>2, <2>3
<1> QED
  BY <1>1, <1>2, <1>3, <1>4 DEF Reply

\* The rest of the orderers' loop of join_channel.
LEMMA AdminNextOrderer ==
    ASSUME AdminInv, NEW t \in Tasks, NEW c \in Call, Fetching(t),
           c.op = "join", c.k = call[t].k, c.peers = call[t].peers,
           c.rpc = NoRpc, NextOrderer(t, c),
           UNCHANGED <<network, creates>>
    PROVE  AdminInv'
<1>0. /\ creates' \in 0..MaxCreates /\ ordered' \in BOOLEAN
      /\ UNCHANGED <<joined, installed, known, creates, late>>
  BY DEF AdminInv, TypeOK, network
<1>1. /\ c.k \in 1..Len(c.peers) /\ c.o \in 1..NumOrderers
      /\ c.peers \in Asked /\ First(c.peers, c.k - 1) \subseteq joined
  BY DEF AdminInv, CallInv, Progress, Fetching, Call
<1>2. \A p \in Peer : NoRpc[p] = "none"
  BY DEF NoRpc
<1>3. CASE c.o < NumOrderers /\ Goes(t, [c EXCEPT !.o = @ + 1])
  <2> DEFINE d == [c EXCEPT !.o = @ + 1]
  <2>1. d \in Call
    BY <1>3, NextInList
  <2>2. d.op = "join" /\ d.k = c.k /\ d.peers = c.peers /\ d.rpc = NoRpc
    BY DEF Call
  <2>3. Progress(d, joined, installed)
    BY <1>1, <1>2, <2>2 DEF Progress
  <2> QED
    BY <1>0, <1>3, <2>1, <2>3, GoesOn
<1>4. CASE \E r \in {"connection_error", "retrieval_error"} : Ends(t, r)
  BY <1>0, <1>4, Fails, LateSame
<1>5. CASE Goes(t, Proposed(c, {c.peers[c.k]}))
  <2> DEFINE d == Proposed(c, {c.peers[c.k]})
  <2>1. /\ d \in Call /\ d.op = "join" /\ d.k = c.k /\ d.peers = c.peers
        /\ \A p \in Peer : d.rpc[p] = IF p \in {c.peers[c.k]} THEN "sent" ELSE "none"
    BY DEF Proposed, Call
  <2>2. Progress(d, joined, installed)
    BY <1>1, <2>1 DEF Progress
  <2> QED
    BY <1>0, <1>5, <2>1, <2>2, GoesOn
<1> QED
  BY <1>3, <1>4, <1>5 DEF NextOrderer

LEMMA AdminFetch ==
    ASSUME AdminInv, NEW t \in Tasks,
           Fetch(t) \/ \E peers \in Lists : JoinChannel(t, peers)
    PROVE  AdminInv'
<1>0. /\ call[t] \in Call /\ creates' \in 0..MaxCreates /\ ordered' \in BOOLEAN
      /\ UNCHANGED <<joined, installed, known, creates, late>>
  BY DEF AdminInv, TypeOK, JoinChannel, Fetch, FetchBlock, FetchConnError,
         FetchNothing, FetchStatus, network
<1>1. ASSUME NEW peers \in Lists, JoinChannel(t, peers) PROVE AdminInv'
  <2>1. /\ Started("join", Given(peers)) \in Call
        /\ Progress(Started("join", Given(peers)), joined, installed)
    BY StartedOK, GivenOK
  <2> QED
    BY <1>0, <1>1, <2>1, GoesOn DEF JoinChannel
<1>2. ASSUME NEW c \in {[call[t] EXCEPT !.block = TRUE],
                        [call[t] EXCEPT !.connError = TRUE], call[t]},
             Fetching(t), NextOrderer(t, c), UNCHANGED <<network, creates>>
      PROVE  AdminInv'
  <2>1. /\ c \in Call /\ c.op = "join" /\ c.k = call[t].k
        /\ c.peers = call[t].peers /\ c.rpc = NoRpc
    BY <1>0, <1>2 DEF Call, Fetching
  <2> QED
    BY <1>2, <2>1, AdminNextOrderer
<1>3. CASE FetchBlock(t) \/ FetchConnError(t) \/ FetchNothing(t)
  BY <1>2, <1>3 DEF FetchBlock, FetchConnError, FetchNothing
<1>4. CASE FetchStatus(t)
  BY <1>0, <1>4, Fails, LateSame DEF FetchStatus
<1> QED
  BY <1>1, <1>3, <1>4 DEF Fetch

LEMMA AdminInstall ==
    ASSUME AdminInv, NEW t \in Tasks, NEW peers \in Lists,
           InstallChaincode(t, peers)
    PROVE  AdminInv'
<1>0. /\ creates' \in 0..MaxCreates /\ ordered' \in BOOLEAN
      /\ UNCHANGED <<joined, installed, known, creates, late>>
  BY DEF AdminInv, TypeOK, InstallChaincode, network
<1> DEFINE l == Given(peers)
           c == Proposed(Started("install", l), Members(l))
<1>1. /\ c \in Call /\ c.op = "install" /\ c.peers = l
      /\ \A p \in Peer : c.rpc[p] = IF p \in Members(l) THEN "sent" ELSE "none"
  <2>1. /\ Started("install", l) \in Call /\ Started("install", l).op = "install"
        /\ Started("install", l).peers = l
    BY StartedTyped, GivenOK
  <2> QED
    BY <2>1 DEF Proposed, Call
<1>2. Progress(c, joined, installed)
  <2>1. Members(l) \subseteq Peer
    BY MembersArePeers, GivenOK
  <2> QED
    BY <1>1, <2>1 DEF Progress
<1> QED
  BY <1>0, <1>1, <1>2, GoesOn DEF InstallChaincode

-----------------------------------------------------------------------------

\* Peer p does what op asks in its turn: the parts of the invariant that are
\* about the peers stay true.
LEMMA PeersGrow ==
    ASSUME AdminInv, NEW op, NEW p \in Peer, Performs(op, p),
           op = "join" => InTurn(p, joined),
           late' \subseteq late, result' = result
    PROVE  /\ joined \subseteq joined' /\ installed \subseteq installed'
           /\ joined' \subseteq Peer /\ installed' \subseteq Peer
           /\ op = "join" => p \in joined'
           /\ op = "install" => p \in installed'
           /\ LateInv' /\ ReturnedMeansDone' /\ JoinedInOrder'
<1>1. /\ joined \subseteq joined' /\ installed \subseteq installed'
      /\ joined' \subseteq Peer /\ installed' \subseteq Peer
      /\ op = "join" => p \in joined'
      /\ op = "install" => p \in installed'
  BY DEF Performs, AdminInv, TypeOK
<1>2. LateInv'
  BY <1>1 DEF AdminInv, LateInv, InTurn
<1>3. ReturnedMeansDone'
  BY <1>1 DEF AdminInv, ReturnedMeansDone
<1>4. JoinedInOrder'
  <2> SUFFICES ASSUME NEW q \in joined' PROVE InTurn(q, joined')
    BY DEF JoinedInOrder, InTurn, Asked
  <2>1. InTurn(q, joined)
    BY DEF Performs, AdminInv, JoinedInOrder, InTurn, Asked
  <2> QED
    BY <1>1, <2>1 DEF InTurn
<1> QED
  BY <1>1, <1>2, <1>3, <1>4

LEMMA AdminPeerPerforms ==
    ASSUME AdminInv, NEW t \in Tasks, NEW p \in Peer, PeerPerforms(t, p)
    PROVE  AdminInv'
<1> DEFINE c == [call[t] EXCEPT !.rpc[p] = "ok"]
<1>0. call \in [Tasks -> Call] /\ call[t] \in Call
  BY DEF AdminInv, TypeOK
<1>1. Progress(call[t], joined, installed) /\ call[t].rpc[p] = "sent"
  BY DEF AdminInv, CallInv, PeerPerforms
<1>2. call[t].op = "join" => InTurn(p, joined)
  BY <1>0, <1>1 DEF Progress, Call, InTurn
<1>3. /\ joined \subseteq joined' /\ installed \subseteq installed'
      /\ joined' \subseteq Peer /\ installed' \subseteq Peer
      /\ call[t].op = "join" => p \in joined'
      /\ call[t].op = "install" => p \in installed'
      /\ LateInv' /\ ReturnedMeansDone' /\ JoinedInOrder'
  BY <1>2, PeersGrow DEF PeerPerforms
<1>4. /\ c \in Call /\ c.op = call[t].op /\ c.k = call[t].k
      /\ c.peers = call[t].peers
      /\ \A q \in Peer : c.rpc[q] = IF q = p THEN "ok" ELSE call[t].rpc[q]
  BY <1>0 DEF Call
<1>5. Progress(c, joined', installed')
  <2>1. c.op \notin {"none", "create"}
    BY <1>4 DEF PeerPerforms, Performs
  <2>2. Progress(call[t], joined', installed')
    BY <1>1, <1>3, ProgressGrows
  <2> QED
    BY <1>1, <1>3, <1>4, <2>1, <2>2 DEF Progress
<1>6. /\ call' \in [Tasks -> Call]
      /\ \A u \in Tasks : call'[u] = IF u = t THEN c ELSE call[u]
  BY <1>0, <1>4 DEF PeerPerforms
<1>7. CallInv'
  <2>1. \A u \in Tasks : Progress(call[u], joined', installed')
    BY <1>3, ProgressGrows DEF AdminInv, CallInv
  <2> QED
    BY <1>5, <1>6, <2>1 DEF CallInv
<1>8. TypeOK'
  BY <1>3, <1>6 DEF AdminInv, TypeOK, PeerPerforms
<1> QED
  BY <1>3, <1>7, <1>8 DEF AdminInv

LEMMA AdminPeerRefuses ==
    ASSUME AdminInv, NEW t \in Tasks, NEW p \in Peer, PeerRefuses(t, p)
    PROVE  AdminInv'
<1> DEFINE c == [call[t] EXCEPT !.rpc[p] = "error"]
<1>0. call \in [Tasks -> Call] /\ call[t] \in Call
  BY DEF AdminInv, TypeOK
<1>1. Progress(call[t], joined, installed) /\ call[t].rpc[p] = "sent"
  BY DEF AdminInv, CallInv, PeerRefuses
<1>2. /\ c \in Call /\ c.op = call[t].op /\ c.k = call[t].k
      /\ c.peers = call[t].peers
      /\ \A q \in Peer : c.rpc[q] = IF q = p THEN "error" ELSE call[t].rpc[q]
  BY <1>0 DEF Call
<1>3. c.op \notin {"none", "create"}
  BY <1>1, <1>2 DEF Progress, NoRpc
<1>4. Progress(c, joined, installed)
  BY <1>1, <1>2, <1>3 DEF Progress
<1>5. Goes(t, c)
  BY <1>0 DEF PeerRefuses, Goes, Call
<1>6. /\ creates' \in 0..MaxCreates /\ ordered' \in BOOLEAN
      /\ UNCHANGED <<joined, installed, known, late>>
  BY DEF AdminInv, TypeOK, PeerRefuses, network
<1> QED
  BY <1>2, <1>4, <1>5, <1>6, GoesOn

LEMMA AdminLate ==
    ASSUME AdminInv, NEW m \in late, PeerPerformsLate(m) \/ LateIsLost(m)
    PROVE  AdminInv'
<1>0. m \in [op : {"join", "install"}, peer : Peer]
  BY DEF AdminInv, TypeOK
<1>1. CASE LateIsLost(m)
  <2>1. TypeOK'
    BY <1>1 DEF AdminInv, TypeOK, LateIsLost
  <2>2. CallInv' /\ LateInv' /\ ReturnedMeansDone' /\ JoinedInOrder'
    BY <1>1 DEF AdminInv, CallInv, LateInv, ReturnedMeansDone, JoinedInOrder,
                LateIsLost
  <2> QED
    BY <2>1, <2>2 DEF AdminInv
<1>2. CASE PeerPerformsLate(m)
  <2>1. /\ joined \subseteq joined' /\ installed \subseteq installed'
        /\ joined' \subseteq Peer /\ installed' \subseteq Peer
        /\ LateInv' /\ ReturnedMeansDone' /\ JoinedInOrder'
    <3>1. /\ m.peer \in Peer /\ Performs(m.op, m.peer)
          /\ late' \subseteq late /\ result' = result
      BY <1>0, <1>2 DEF PeerPerformsLate
    <3>2. m.op = "join" => InTurn(m.peer, joined)
      BY DEF AdminInv, LateInv
    <3> QED
      BY <3>1, <3>2, PeersGrow
  <2>2. CallInv'
    BY <1>2, <2>1, ProgressGrows DEF AdminInv, CallInv, PeerPerformsLate
  <2>3. TypeOK'
    BY <1>2, <2>1 DEF AdminInv, TypeOK, PeerPerformsLate
  <2> QED
    BY <2>1, <2>2, <2>3 DEF AdminInv
<1> QED
  BY <1>1, <1>2

\* A gather that is over and whose answers are all successes.
LEMMA AdminAnswered ==
    ASSUME AdminInv, NEW t \in Tasks, Answered(t)
    PROVE  AdminInv'
<1>0. /\ call[t] \in Call /\ creates' \in 0..MaxCreates /\ ordered' \in BOOLEAN
      /\ Progress(call[t], joined, installed)
      /\ UNCHANGED <<joined, installed, known, creates, late>>
  BY DEF AdminInv, TypeOK, CallInv, Answered, network
<1>1. PICK q \in Peer : call[t].rpc[q] # "none"
  <2>1. call[t].rpc \in [Peer -> {"none", "sent", "ok", "error"}]
    BY <1>0 DEF Call
  <2> QED
    BY <2>1 DEF Answered, NoRpc
<1>2. call[t].op \in {"join", "install"}
  <2>1. NoRpc[q] = "none"
    BY DEF NoRpc
  <2> QED
    BY <1>0, <1>1, <2>1 DEF Progress, Call
<1>3. CASE ~FullyEndorsed(call[t])
  BY <1>0, <1>3, Fails, LateSame DEF Answered
<1>4. CASE FullyEndorsed(call[t]) /\ call[t].op = "join"
  <2> DEFINE l == call[t].peers
             k == call[t].k
  <2>1. /\ l \in Seq(Peer) /\ l \in Asked /\ k \in 1..Len(l)
        /\ First(l, k) \subseteq joined
    <3>1. /\ l \in Seq(Peer) /\ l \in Asked /\ k \in 1..Len(l)
          /\ First(l, k - 1) \subseteq joined /\ l[k] \in joined
      BY <1>0, <1>1, <1>4 DEF Progress, Call, FullyEndorsed
    <3>2. First(l, k) = First(l, k - 1) \cup {l[k]}
      BY <3>1 DEF First
    <3> QED
      BY <3>1, <3>2
  <2>2. CASE k < Len(l)
    <3> DEFINE c == [Started("join", l) EXCEPT !.k = k + 1]
    <3>1. /\ c \in Call /\ c.op = "join" /\ c.k = k + 1 /\ c.peers = l
          /\ c.rpc = NoRpc
      <4>1. /\ Started("join", l) \in Call /\ Started("join", l).op = "join"
            /\ Started("join", l).peers = l /\ Started("join", l).rpc = NoRpc
        BY <2>1, StartedTyped
      <4>2. k + 1 \in 1..Len(l)
        BY <2>1, <2>2
      <4> QED
        BY <4>1, <4>2 DEF Call
    <3>2. Progress(c, joined, installed)
      <4>1. c.k - 1 = k
        BY <2>1, <3>1
      <4> QED
        BY <2>1, <3>1, <4>1 DEF Progress, NoRpc
    <3>3. Goes(t, c)
      BY <1>4, <2>2 DEF Answered
    <3> QED
      BY <1>0, <3>1, <3>2, <3>3, GoesOn
  <2>3. CASE ~(k < Len(l))
    <3>1. Members(l) \subseteq joined
      <4>1. k = Len(l)
        BY <2>1, <2>3
      <4> QED
        BY <2>1, <4>1 DEF Members
    <3>2. /\ [op |-> call[t].op, peers |-> call[t].peers, how |-> "returned"] \in Result
          /\ Claim([op |-> call[t].op, peers |-> call[t].peers, how |-> "returned"])
      BY <1>4, <2>1, <3>1 DEF Result, Claim
    <3>3. Ends(t, "returned")
      BY <1>4, <2>3 DEF Answered
    <3> QED
      BY <1>0, <3>2, <3>3, EndsWith, LateSame
  <2> QED
    BY <2>2, <2>3
<1>5. CASE FullyEndorsed(call[t]) /\ call[t].op = "install"
  <2>1. call[t].peers \in Seq(Peer) /\ Members(call[t].peers) \subseteq Peer
    BY <1>0, MembersArePeers DEF Call
  <2>2. Members(call[t].peers) \subseteq installed
    BY <1>0, <1>5, <2>1 DEF Progress, FullyEndorsed
  <2>3. /\ [op |-> call[t].op, peers |-> call[t].peers, how |-> "returned"] \in Result
        /\ Claim([op |-> call[t].op, peers |-> call[t].peers, how |-> "returned"])
    BY <1>5, <2>1, <2>2 DEF Result, Claim
  <2>4. Ends(t, "returned")
    BY <1>5 DEF Answered
  <2> QED
    BY <1>0, <2>3, <2>4, EndsWith, LateSame
<1> QED
  BY <1>2, <1>3, <1>4, <1>5

LEMMA AdminRpcFails ==
    ASSUME AdminInv, NEW t \in Tasks, RpcFails(t)
    PROVE  AdminInv'
<1>0. /\ call[t] \in Call /\ ordered' \in BOOLEAN
      /\ Progress(call[t], joined, installed)
      /\ UNCHANGED <<joined, installed, known, creates>>
  BY DEF AdminInv, TypeOK, CallInv, RpcFails
<1>1. call[t].op \in {"join", "install"}
  BY <1>0 DEF Progress, RpcFails, Call
<1>2. late' \subseteq [op : {"join", "install"}, peer : Peer]
  BY <1>1 DEF RpcFails, AdminInv, TypeOK
<1>3. LateInv'
  <2> SUFFICES ASSUME NEW m \in late', m.op = "join"
               PROVE  InTurn(m.peer, joined)
    BY <1>0 DEF LateInv
  <2>1. CASE m \in late
    BY <2>1 DEF AdminInv, LateInv
  <2>2. CASE m \notin late
    <3>1. call[t].op = "join" /\ m.peer \in Peer /\ call[t].rpc[m.peer] = "sent"
      BY <2>2 DEF RpcFails
    <3> QED
      BY <1>0, <3>1 DEF Progress, Call, InTurn
  <2> QED
    BY <2>1, <2>2
<1> QED
  BY <1>0, <1>2, <1>3, Fails DEF RpcFails

-----------------------------------------------------------------------------

LEMMA AdminNext == AdminInv /\ [Next]_vars => AdminInv'
<1> SUFFICES ASSUME AdminInv, [Next]_vars PROVE AdminInv'
  OBVIOUS
<1>1. ASSUME NEW t \in Tasks, CreateChannel(t) \/ Reply(t) PROVE AdminInv'
  BY <1>1, AdminCreate
<1>2. ASSUME NEW t \in Tasks,
             Fetch(t) \/ \E peers \in Lists : JoinChannel(t, peers)
      PROVE  AdminInv'
  BY <1>2, AdminFetch
<1>3. ASSUME NEW t \in Tasks, NEW peers \in Lists, InstallChaincode(t, peers)
      PROVE  AdminInv'
  BY <1>3, AdminInstall
<1>4. ASSUME NEW t \in Tasks, NEW p \in Peer, PeerAnswers(t, p) PROVE AdminInv'
  BY <1>4, AdminPeerPerforms, AdminPeerRefuses DEF PeerAnswers
<1>5. ASSUME NEW t \in Tasks, Answered(t) PROVE AdminInv'
  BY <1>5, AdminAnswered
<1>6. ASSUME NEW t \in Tasks, RpcFails(t) PROVE AdminInv'
  BY <1>6, AdminRpcFails
<1>7. ASSUME NEW o \in 1..NumOrderers, Publish(o) PROVE AdminInv'
  <2>1. TypeOK'
    BY <1>7 DEF AdminInv, TypeOK, Publish
  <2>2. CallInv' /\ LateInv' /\ ReturnedMeansDone' /\ JoinedInOrder'
    BY <1>7 DEF AdminInv, CallInv, LateInv, ReturnedMeansDone, JoinedInOrder,
                Publish
  <2> QED
    BY <2>1, <2>2 DEF AdminInv
<1>8. ASSUME NEW m \in late, PeerPerformsLate(m) \/ LateIsLost(m) PROVE AdminInv'
  BY <1>8, AdminLate
<1>9. CASE UNCHANGED vars
  <2>1. TypeOK'
    BY <1>9 DEF AdminInv, TypeOK, vars, network
  <2>2. CallInv' /\ LateInv' /\ ReturnedMeansDone' /\ JoinedInOrder'
    BY <1>9 DEF AdminInv, CallInv, LateInv, ReturnedMeansDone, JoinedInOrder,
                vars, network
  <2> QED
    BY <2>1, <2>2 DEF AdminInv
<1> QED
  BY <1>1, <1>2, <1>3, <1>4, <1>5, <1>6, <1>7, <1>8, <1>9 DEF Next

LEMMA AdminCorrect == Spec => []AdminInv
<1>1. Init => AdminInv
  BY AdminInit
<1>2. AdminInv /\ [Next]_vars => AdminInv'
  BY AdminNext
<1> QED
  BY <1>1, <1>2, PTL DEF Spec

\* The local state of every call (loop counters of join_channel, one RPC per
\* peer), the peers' state and the abandoned RPCs stay in their types.
THEOREM TypeCorrect == Spec => []TypeOK
<1>1. AdminInv => TypeOK
  BY DEF AdminInv
<1> QED
  BY <1>1, AdminCorrect, PTL

\* A join_channel or install_chaincode that returns has reached all the peers
\* it was given, or else the gateway's, for any lists of peers and any number of
\* orderers and tasks, and whatever becomes of the RPCs of calls that failed
\* before.
THEOREM ReturnedIsDone == Spec => []ReturnedMeansDone
<1>1. AdminInv => ReturnedMeansDone
  BY DEF AdminInv
<1> QED
  BY <1>1, AdminCorrect, PTL

\* A peer that has joined had its turn in some list, for any lists of peers,
\* also ones that name a peer twice.
THEOREM JoinedInTurn == Spec => []JoinedInOrder
<1>1. AdminInv => JoinedInOrder
  BY DEF AdminInv
<1> QED
  BY <1>1, AdminCorrect, PTL
=============================================================================
