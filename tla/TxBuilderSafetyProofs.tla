------------------------ MODULE TxBuilderSafetyProofs ------------------------
(***************************************************************************)
(* Theorems about TxBuilder for any number of tasks, peers, orderers and   *)
(* operations, any payloads and any set of method chains.                  *)
(*                                                                         *)
(* First type correctness.  Then the promises of a builder that several    *)
(* tasks await and add to: what is sent was fully endorsed, and a chain    *)
(* that ends in a wait returns only if the transaction took effect.  They  *)
(* rest on ListInv, which ties the frame of a suspended coroutine to the   *)
(* list object it iterates over.                                           *)
(***************************************************************************)
EXTENDS TxBuilder, TLAPS

\* No peer is ahead of the chain, and a suspended task refers to an RPC that
\* was sent and to a peer of the list.
TaskBounds ==
    \A t \in Tasks :
        /\ task[t].pc = "submit" => task[t].rpc \in 1..Len(sent)
        /\ task[t].pc = "wait" => task[t].tgt \in 1..Len(CommitPeers)

HeightBounds == \A p \in Peer : height[p] <= Len(chain)

TypeInv == TypeOK /\ TaskBounds /\ HeightBounds

-----------------------------------------------------------------------------

\* The peers a wait tries are peers, and there is one.
LEMMA CommitPeersTyped == CommitPeers \in Seq(Peer) /\ Len(CommitPeers) > 0
<1>1. EndorsingPeers \in Seq(Peer) /\ Len(EndorsingPeers) > 0
  BY TxBuilderAssumption
<1>2. EndorsingPeers[1] \in Peer
  BY <1>1
<1>3. <<EndorsingPeers[1]>> \in Seq(Peer) /\ Len(<<EndorsingPeers[1]>>) = 1
  BY <1>2
<1>4. CommitPeers = EndorsingPeers \/ CommitPeers = <<EndorsingPeers[1]>>
  BY TxBuilderAssumption
<1>5. CASE CommitPeers = EndorsingPeers
  BY <1>1, <1>5
<1>6. CASE CommitPeers = <<EndorsingPeers[1]>>
  BY <1>3, <1>6
<1> QED
  BY <1>4, <1>5, <1>6

\* An envelope built from the peers' responses is one.
LEMMA EnvelopeTyped ==
    ASSUME NEW e \in EndorsedTX
    PROVE  /\ BuildEnvelope(e) \in Envelope
           /\ BuildEnvelope(e).endorsements = e
<1>1. Len(EndorsingPeers) \in Nat /\ Len(EndorsingPeers) >= 1
  BY TxBuilderAssumption
<1>2. e \in Seq(Response) /\ 1 \in DOMAIN e
  BY <1>1 DEF EndorsedTX
<1>3. e[1].payload \in Payload \cup {NoPayload}
  BY <1>1 DEF EndorsedTX, Response
<1> QED
  BY <1>2, <1>3 DEF BuildEnvelope, Envelope

\* Ending a coroutine: the frame of an ended task is well formed.
LEMMA EndedTyped ==
    ASSUME NEW o \in Outcome
    PROVE  Ended(o) \in Frame /\ Ended(o).pc = "idle" /\ Ended(o).outcome = o
BY DEF Ended, Frame, NoOperation, Operation

LEMMA EndTyped ==
    ASSUME TypeInv, NEW t \in Tasks, NEW o \in Outcome, End(t, o),
           sent' = sent
    PROVE  task' \in [Tasks -> Frame] /\ TaskBounds'
<1>1. task' = [task EXCEPT ![t] = Ended(o)] /\ task \in [Tasks -> Frame]
  BY DEF End, TypeInv, TypeOK
<1>2. Ended(o) \in Frame /\ Ended(o).pc = "idle"
  BY EndedTyped
<1>3. task' \in [Tasks -> Frame]
  BY <1>1, <1>2
<1>4. \A u \in Tasks : task'[u] = IF u = t THEN Ended(o) ELSE task[u]
  BY <1>1
<1> QED
  BY <1>2, <1>3, <1>4 DEF TypeInv, TaskBounds

\* Updates of one field of a frame.
LEMMA RpcFrame ==
    ASSUME NEW f \in Frame, NEW n \in Nat
    PROVE  LET g == [f EXCEPT !.rpc = n]
           IN  /\ g \in Frame
               /\ g.rpc = n
               /\ g.pc = f.pc /\ g.op = f.op /\ g.list = f.list
               /\ g.pos = f.pos /\ g.tgt = f.tgt /\ g.outcome = f.outcome
<1>1. [f EXCEPT !.rpc = n] \in Frame
  BY DEF Frame
<1> QED
  BY <1>1 DEF Frame

LEMMA TgtFrame ==
    ASSUME NEW f \in Frame
    PROVE  LET g == [f EXCEPT !.tgt = @ + 1]
           IN  /\ g \in Frame
               /\ g.tgt = f.tgt + 1
               /\ g.pc = f.pc /\ g.op = f.op /\ g.list = f.list
               /\ g.pos = f.pos /\ g.outcome = f.outcome
<1>1. f.tgt + 1 \in Nat
  BY DEF Frame
<1>2. [f EXCEPT !.tgt = @ + 1] \in Frame
  BY <1>1 DEF Frame
<1> QED
  BY <1>2 DEF Frame

\* Sending an envelope, from the frame of a task in submit.
LEMMA BroadcastTyped ==
    ASSUME TypeInv, NEW t \in Tasks, NEW frame \in Frame,
           frame.pc = "submit", NEW env \in Envelope, Broadcast(t, frame, env)
    PROVE  /\ sent' \in Seq(Send)
           /\ task' \in [Tasks -> Frame]
           /\ TaskBounds'
<1> DEFINE g == [frame EXCEPT !.rpc = Len(sent) + 1]
<1>1. sent \in Seq(Send) /\ Len(sent) \in Nat /\ task \in [Tasks -> Frame]
  BY DEF TypeInv, TypeOK, FabricTypeOK
<1>2. [env |-> env, state |-> "sent"] \in Send
  BY DEF Send, SendState
<1>3. sent' \in Seq(Send) /\ Len(sent') = Len(sent) + 1
  BY <1>1, <1>2 DEF Broadcast
<1>4. g \in Frame /\ g.pc = "submit" /\ g.rpc = Len(sent) + 1
  <2>1. Len(sent) + 1 \in Nat
    BY <1>1
  <2>2. g \in Frame /\ g.rpc = Len(sent) + 1 /\ g.pc = frame.pc
    BY <2>1, RpcFrame, Zenon
  <2> QED
    BY <2>2
<1>5. task' = [task EXCEPT ![t] = g]
  BY DEF Broadcast
<1>6. task' \in [Tasks -> Frame]
  BY <1>1, <1>4, <1>5
<1>7. \A u \in Tasks : task'[u] = IF u = t THEN g ELSE task[u]
  BY <1>1, <1>5
<1>8. ASSUME NEW u \in Tasks
      PROVE  /\ task'[u].pc = "submit" => task'[u].rpc \in 1..Len(sent')
             /\ task'[u].pc = "wait" => task'[u].tgt \in 1..Len(CommitPeers)
  <2>1. CASE u = t
    <3>1. task'[u] = g
      BY <2>1, <1>7
    <3> HIDE DEF g
    <3> QED
      BY <3>1, <1>1, <1>3, <1>4
  <2>2. CASE u # t
    <3> HIDE DEF g
    <3>1. task'[u] = task[u]
      BY <2>2, <1>7
    <3> QED
      BY <3>1, <1>1, <1>3 DEF TypeInv, TaskBounds
  <2> QED
    BY <2>1, <2>2
<1> QED
  BY <1>3, <1>6, <1>8 DEF TaskBounds

LEMMA StartTyped ==
    ASSUME TypeInv, NEW t \in Tasks, NEW n \in 1..Len(operations),
           NEW e \in EndorsedTX \cup {<<>>}, NEW s \in BOOLEAN,
           StartOperation(t, n, e, s)
    PROVE  /\ sent' \in Seq(Send)
           /\ task' \in [Tasks -> Frame]
           /\ TaskBounds'
<1> DEFINE op == operations[n]
           frame == [pc |-> op.kind, op |-> op, list |-> generation, pos |-> n,
                     tgt |-> 1, rpc |-> 0, cursor |-> 0, outcome |-> "none"]
<1>1. op \in Operation /\ n \in Nat
  BY DEF TypeInv, TypeOK
<1>2. frame \in Frame
  BY <1>1 DEF Frame, Operation, Outcome, TypeInv, TypeOK
<1>3. sent \in Seq(Send) /\ task \in [Tasks -> Frame]
  BY DEF TypeInv, TypeOK, FabricTypeOK
<1>a. \/ End(t, "value_error") /\ sent' = sent
      \/ op.kind = "submit" /\ e # <<>> /\ Broadcast(t, frame, BuildEnvelope(e))
      \/ op.kind # "submit" /\ task' = [task EXCEPT ![t] = frame] /\ sent' = sent
  BY DEF StartOperation
<1>4. CASE End(t, "value_error") /\ sent' = sent
  BY <1>3, <1>4, EndTyped DEF Outcome
<1>5. CASE op.kind = "submit" /\ e # <<>> /\ Broadcast(t, frame, BuildEnvelope(e))
  <2>1. BuildEnvelope(e) \in Envelope
    BY <1>5, EnvelopeTyped
  <2>2. frame.pc = "submit"
    BY <1>5
  <2> HIDE DEF frame
  <2> QED
    BY <1>2, <1>5, <2>1, <2>2, BroadcastTyped
<1>6. CASE op.kind # "submit" /\ task' = [task EXCEPT ![t] = frame] /\ sent' = sent
  <2>1. task' \in [Tasks -> Frame]
    BY <1>2, <1>3, <1>6
  <2>2. \A u \in Tasks : task'[u] = IF u = t THEN frame ELSE task[u]
    BY <1>3, <1>6
  <2>3. frame.pc # "submit" /\ frame.tgt = 1
    BY <1>6
  <2>4. 1 \in 1..Len(CommitPeers)
    BY CommitPeersTyped
  <2> HIDE DEF frame
  <2> QED
    BY <1>3, <1>6, <2>1, <2>2, <2>3, <2>4 DEF TypeInv, TaskBounds
<1> QED
  BY <1>a, <1>4, <1>5, <1>6

LEMMA ProceedTyped ==
    ASSUME TypeInv, NEW t \in Tasks, NEW e \in EndorsedTX \cup {<<>>},
           NEW s \in BOOLEAN, Proceed(t, e, s)
    PROVE  /\ sent' \in Seq(Send)
           /\ task' \in [Tasks -> Frame]
           /\ TaskBounds'
           /\ operations' \in Seq(Operation)
           /\ executed' \subseteq Nat
<1>1. task[t] \in Frame /\ operations \in Seq(Operation) /\ executed \subseteq Nat
  BY DEF TypeInv, TypeOK
<1>2. task[t].op.id \in Nat /\ task[t].pos \in Nat
  BY <1>1 DEF Frame, Operation
<1>3. executed' \subseteq Nat
  BY <1>1, <1>2 DEF Proceed
<1>a. \/ /\ task[t].pos < Len(operations)
         /\ StartOperation(t, task[t].pos + 1, e, s)
         /\ operations' = operations
      \/ /\ operations' = <<>>
         /\ End(t, "returned") \/ End(t, "never_proposed")
         /\ sent' = sent
  BY DEF Proceed
<1>4. CASE /\ task[t].pos < Len(operations)
           /\ StartOperation(t, task[t].pos + 1, e, s)
           /\ operations' = operations
  <2>1. task[t].pos + 1 \in 1..Len(operations)
    BY <1>1, <1>2, <1>4
  <2> QED
    BY <1>1, <1>3, <1>4, <2>1, StartTyped
<1>5. CASE /\ operations' = <<>>
           /\ End(t, "returned") \/ End(t, "never_proposed")
           /\ sent' = sent
  <2>1. task' \in [Tasks -> Frame] /\ TaskBounds'
    BY <1>5, EndTyped DEF Outcome
  <2>2. sent' \in Seq(Send)
    BY <1>5 DEF TypeInv, TypeOK, FabricTypeOK
  <2> QED
    BY <1>3, <1>5, <2>1, <2>2
<1> QED
  BY <1>a, <1>4, <1>5

LEMMA RaiseTyped ==
    ASSUME TypeInv, NEW t \in Tasks, NEW o \in Outcome, Raise(t, o)
    PROVE  /\ sent' \in Seq(Send)
           /\ task' \in [Tasks -> Frame]
           /\ TaskBounds'
           /\ operations' \in Seq(Operation)
           /\ executed' \subseteq Nat
<1>1. End(t, o) /\ sent' = sent /\ operations' = operations /\ executed' = executed
  BY DEF Raise
<1> QED
  BY <1>1, EndTyped DEF TypeInv, TypeOK, FabricTypeOK

\* What the helpers above leave to say of an action for TypeInv'.
LEMMA TypeInvFrom ==
    ASSUME TypeInv,
           sent' \in Seq(Send), task' \in [Tasks -> Frame], TaskBounds',
           operations' \in Seq(Operation), executed' \subseteq Nat,
           chain' = chain, height' = height, generation' = generation,
           endorsed_tx' \in EndorsedTX \cup {<<>>}, committed' \in BOOLEAN,
           filtered_tx' \in ValidationCode \cup {"none"},
           added' = added, awaits' \in Nat
    PROVE  TypeInv'
BY DEF TypeInv, TypeOK, FabricTypeOK, HeightBounds

-----------------------------------------------------------------------------

LEMMA TypeInit == Init => TypeInv
<1> SUFFICES ASSUME Init PROVE TypeInv
  OBVIOUS
<1>1. OtherBlock \in Block
  BY DEF OtherBlock, Block, ValidationCode
<1>2. chain \in Seq(Block) /\ Len(chain) = 1
  BY <1>1 DEF Init, FabricInit
<1>3. sent \in Seq(Send) /\ height \in [Peer -> Nat] /\ HeightBounds
  BY <1>2 DEF Init, FabricInit, HeightBounds
<1>4. Ended("none") \in Frame /\ Ended("none").pc = "idle"
  BY EndedTyped DEF Outcome
<1>5. task \in [Tasks -> Frame] /\ TaskBounds
  BY <1>4 DEF Init, TaskBounds
<1>6. operations \in Seq(Operation)
  BY DEF Init
<1> QED
  BY <1>2, <1>3, <1>5, <1>6 DEF Init, TypeInv, TypeOK, FabricTypeOK

LEMMA TypeEnvironment == TypeInv /\ Environment => TypeInv'
<1> SUFFICES ASSUME TypeInv, Environment PROVE TypeInv'
  OBVIOUS
<1> USE DEF TypeInv, TypeOK, FabricTypeOK
<1>1. UNCHANGED <<builderVars, task, history>>
  BY DEF Environment
<1>2. CASE \E n \in 1..Len(sent) : OrdererReplies(n)
  <2>1. PICK n \in 1..Len(sent) : OrdererReplies(n)
    BY <1>2
  <2>2. PICK st \in {"accepted", "refused"} : sent' = [sent EXCEPT ![n].state = st]
    BY <2>1 DEF OrdererReplies
  <2>3. [sent[n] EXCEPT !.state = st] \in Send
    <3>1. sent[n] \in Send /\ st \in SendState
      BY <2>2 DEF SendState
    <3> QED
      BY <3>1 DEF Send
  <2>4. sent' \in Seq(Send) /\ Len(sent') = Len(sent)
    BY <2>2, <2>3
  <2> QED
    BY <1>1, <2>1, <2>4 DEF OrdererReplies, TaskBounds, HeightBounds, builderVars,
       history
<1>3. CASE \E n \in 1..Len(sent) : OrderOurs(n)
  <2>1. PICK n \in 1..Len(sent) : OrderOurs(n)
    BY <1>3
  <2>2. PICK c \in Validate(sent[n].env) :
           chain' = Append(chain, [rpc |-> n, code |-> c])
    BY <2>1 DEF OrderOurs
  <2>3. c \in ValidationCode
    BY <2>2 DEF Validate, ValidationCode
  <2>4. [rpc |-> n, code |-> c] \in Block
    BY <2>3 DEF Block
  <2>5. chain' \in Seq(Block) /\ Len(chain') = Len(chain) + 1
    BY <2>2, <2>4
  <2> QED
    BY <1>1, <2>1, <2>5 DEF OrderOurs, TaskBounds, HeightBounds, builderVars,
       history
<1>4. CASE OrderOther
  <2>1. OtherBlock \in Block
    BY DEF OtherBlock, Block, ValidationCode
  <2>2. chain' \in Seq(Block) /\ Len(chain') = Len(chain) + 1
    BY <1>4, <2>1 DEF OrderOther
  <2> QED
    BY <1>1, <1>4, <2>2 DEF OrderOther, TaskBounds, HeightBounds, builderVars,
       history
<1>5. CASE \E p \in Peer : CommitBlock(p)
  BY <1>1, <1>5 DEF CommitBlock, TaskBounds, HeightBounds, builderVars, history
<1> QED
  BY <1>2, <1>3, <1>4, <1>5 DEF Environment

\* The operations of a method chain, as they are appended.
NewOps(c) ==
    [i \in 1..Len(c) |-> [id |-> added + i, kind |-> c[i].kind,
                          raise |-> c[i].raise]]

LEMMA NewOpsTyped ==
    ASSUME TypeInv, NEW c \in Chains
    PROVE  /\ Len(c) \in Nat /\ Len(c) >= 1
           /\ NewOps(c) \in Seq(Operation)
           /\ Len(NewOps(c)) = Len(c)
           /\ \A i \in 1..Len(c) : NewOps(c)[i].kind = c[i].kind
                                  /\ NewOps(c)[i].raise = c[i].raise
<1>1. c \in Seq(Call) /\ c # <<>>
  BY TxBuilderAssumption
<1>2. Len(c) \in Nat /\ Len(c) >= 1
  BY <1>1
<1>3. \A i \in 1..Len(c) : NewOps(c)[i] \in Operation
  <2> TAKE i \in 1..Len(c)
  <2>1. c[i] \in Call
    BY <1>1
  <2>2. added + i \in Nat
    BY <1>2 DEF TypeInv, TypeOK
  <2> QED
    BY <2>1, <2>2 DEF NewOps, Operation, Call
<1>4. NewOps(c) \in Seq(Operation) /\ Len(NewOps(c)) = Len(c)
  BY <1>2, <1>3 DEF NewOps
<1> QED
  BY <1>2, <1>4 DEF NewOps

LEMMA TypeAddChain ==
    ASSUME TypeInv, NEW c \in Chains, AddChain(c)
    PROVE  TypeInv'
<1>1. operations' = operations \o NewOps(c) /\ added' = added + Len(c)
  BY DEF AddChain, AddOperations, NewOps
<1>2. operations' \in Seq(Operation)
  BY <1>1, NewOpsTyped DEF TypeInv, TypeOK
<1>3. generation' \in Nat /\ added' \in Nat
  BY <1>1, NewOpsTyped DEF AddChain, AddOperations, TypeInv, TypeOK
<1> QED
  BY <1>2, <1>3 DEF AddChain, TypeInv, TypeOK, FabricTypeOK, TaskBounds,
     HeightBounds, fabricVars

LEMMA TypeAwait ==
    ASSUME TypeInv, NEW t \in Tasks, Await(t)
    PROVE  TypeInv'
<1>1. UNCHANGED <<chain, height, builderVars, added, executed>> /\ awaits' \in Nat
  BY DEF Await, TypeInv, TypeOK
<1>2. sent' \in Seq(Send) /\ task' \in [Tasks -> Frame] /\ TaskBounds'
  <2>1. CASE End(t, "never_proposed") /\ sent' = sent
    BY <2>1, EndTyped DEF Outcome, TypeInv, TypeOK, FabricTypeOK
  <2>2. CASE operations # <<>> /\ StartOperation(t, 1, endorsed_tx, committed)
    <3>1. 1 \in 1..Len(operations)
      BY <2>2 DEF TypeInv, TypeOK
    <3> QED
      BY <2>2, <3>1, StartTyped DEF TypeInv, TypeOK
  <2> QED
    BY <2>1, <2>2 DEF Await
<1> QED
  BY <1>1, <1>2, TypeInvFrom DEF TypeInv, TypeOK, builderVars

LEMMA TypeRespond ==
    ASSUME TypeInv, NEW t \in Tasks, Respond(t)
    PROVE  TypeInv'
<1>1. CASE ProposeDone(t)
  <2>1. PICK e \in EndorsedTX :
           /\ endorsed_tx' = e
           /\ Raise(t, "proposal_error") \/ Proceed(t, e, committed)
    BY <1>1 DEF ProposeDone
  <2>2. /\ sent' \in Seq(Send) /\ task' \in [Tasks -> Frame] /\ TaskBounds'
        /\ operations' \in Seq(Operation) /\ executed' \subseteq Nat
    BY <2>1, RaiseTyped, ProceedTyped DEF Outcome, TypeInv, TypeOK
  <2> QED
    BY <1>1, <2>1, <2>2, TypeInvFrom DEF ProposeDone, TypeInv, TypeOK
<1>2. CASE ProposeConnError(t)
  <2>1. /\ sent' \in Seq(Send) /\ task' \in [Tasks -> Frame] /\ TaskBounds'
        /\ operations' \in Seq(Operation) /\ executed' \subseteq Nat
    BY <1>2, RaiseTyped DEF ProposeConnError, Outcome
  <2> QED
    BY <1>2, <2>1, TypeInvFrom DEF ProposeConnError, TypeInv, TypeOK
<1> QED
  BY <1>1, <1>2 DEF Respond

LEMMA TypeReply ==
    ASSUME TypeInv, NEW t \in Tasks, Reply(t)
    PROVE  TypeInv'
<1>1. CASE Submitted(t)
  <2>1. /\ sent' \in Seq(Send) /\ task' \in [Tasks -> Frame] /\ TaskBounds'
        /\ operations' \in Seq(Operation) /\ executed' \subseteq Nat
    BY <1>1, ProceedTyped DEF Submitted, TypeInv, TypeOK
  <2> QED
    BY <1>1, <2>1, TypeInvFrom DEF Submitted, TypeInv, TypeOK
<1>2. CASE BroadcastRejected(t)
  <2>1. /\ sent' \in Seq(Send) /\ task' \in [Tasks -> Frame] /\ TaskBounds'
        /\ operations' \in Seq(Operation) /\ executed' \subseteq Nat
    BY <1>2, RaiseTyped DEF BroadcastRejected, Outcome
  <2> QED
    BY <1>2, <2>1, TypeInvFrom DEF BroadcastRejected, TypeInv, TypeOK
<1>3. CASE BroadcastConnError(t)
  <2>1. /\ sent' \in Seq(Send) /\ task' \in [Tasks -> Frame] /\ TaskBounds'
        /\ operations' \in Seq(Operation) /\ executed' \subseteq Nat
    <3>1. CASE Raise(t, "connection_error")
      BY <3>1, RaiseTyped DEF Outcome
    <3>2. CASE /\ Broadcast(t, [task[t] EXCEPT !.tgt = @ + 1],
                            sent[task[t].rpc].env)
               /\ UNCHANGED <<operations, executed>>
      <4> DEFINE g == [task[t] EXCEPT !.tgt = @ + 1]
      <4>1. task[t] \in Frame /\ task[t].pc = "submit"
        BY <1>3 DEF BroadcastConnError, TypeInv, TypeOK
      <4>2. g \in Frame /\ g.pc = "submit"
        BY <4>1, TgtFrame
      <4>3. sent[task[t].rpc].env \in Envelope
        <5>1. task[t].rpc \in 1..Len(sent) /\ sent \in Seq(Send)
          BY <4>1 DEF TypeInv, TypeOK, FabricTypeOK, TaskBounds
        <5>2. sent[task[t].rpc] \in Send
          BY <5>1
        <5> QED
          BY <5>2 DEF Send
      <4> HIDE DEF g
      <4>4. Broadcast(t, g, sent[task[t].rpc].env)
        BY <3>2 DEF g
      <4> QED
        BY <3>2, <4>2, <4>3, <4>4, BroadcastTyped DEF TypeInv, TypeOK
    <3> QED
      BY <1>3, <3>1, <3>2 DEF BroadcastConnError
  <2> QED
    BY <1>3, <2>1, TypeInvFrom DEF BroadcastConnError, TypeInv, TypeOK
<1> QED
  BY <1>1, <1>2, <1>3 DEF Reply, BroadcastOk, BroadcastClosed

\* The peer a wait is at, and the block it reads.
LEMMA WaitBounds ==
    ASSUME TypeInv, NEW t \in Tasks, task[t].pc = "wait"
    PROVE  /\ CommitPeers[task[t].tgt] \in Peer
           /\ height[CommitPeers[task[t].tgt]] \in Nat
           /\ height[CommitPeers[task[t].tgt]] <= Len(chain)
           /\ Len(chain) \in Nat
<1>1. CommitPeers[task[t].tgt] \in Peer
  BY TxBuilderAssumption DEF TypeInv, TaskBounds
<1> QED
  BY <1>1 DEF TypeInv, TypeOK, FabricTypeOK, HeightBounds

\* A block that a wait reads is one of the chain.
LEMMA ReadBounds ==
    ASSUME TypeInv, NEW t \in Tasks, ReadBlock(t)
    PROVE  /\ task[t].cursor \in 1..Len(chain)
           /\ chain[task[t].cursor].code \in ValidationCode
<1>1. task[t] \in Frame /\ task[t].pc = "wait" /\ task[t].cursor # 0
  BY DEF ReadBlock, TypeInv, TypeOK
<1>2. task[t].cursor \in Nat /\ task[t].cursor <= height[CommitPeers[task[t].tgt]]
  BY <1>1 DEF ReadBlock, Frame
<1>3. task[t].cursor \in 1..Len(chain)
  BY <1>1, <1>2, WaitBounds
<1>4. chain[task[t].cursor] \in Block
  BY <1>3 DEF TypeInv, TypeOK, FabricTypeOK
<1> QED
  BY <1>3, <1>4 DEF Block

\* A wait that moves on within its operation: to a block, to the next peer.
LEMMA CursorFrame ==
    ASSUME NEW f \in Frame, NEW n \in Nat
    PROVE  LET g == [f EXCEPT !.cursor = n]
           IN  /\ g \in Frame
               /\ g.pc = f.pc /\ g.op = f.op /\ g.list = f.list
               /\ g.pos = f.pos /\ g.tgt = f.tgt /\ g.rpc = f.rpc
               /\ g.outcome = f.outcome
<1>1. [f EXCEPT !.cursor = n] \in Frame
  BY DEF Frame
<1> QED
  BY <1>1 DEF Frame

LEMMA NextPeerFrame ==
    ASSUME NEW f \in Frame
    PROVE  LET g == [f EXCEPT !.tgt = @ + 1, !.cursor = 0]
           IN  /\ g \in Frame
               /\ g.tgt = f.tgt + 1
               /\ g.pc = f.pc /\ g.op = f.op /\ g.list = f.list
               /\ g.pos = f.pos /\ g.rpc = f.rpc /\ g.outcome = f.outcome
<1>1. f.tgt + 1 \in Nat
  BY DEF Frame
<1>2. [f EXCEPT !.tgt = @ + 1, !.cursor = 0] \in Frame
  BY <1>1 DEF Frame
<1> QED
  BY <1>2 DEF Frame

\* Task t's frame becomes g.
Moved(t, g) == task' = [task EXCEPT ![t] = g]

LEMMA MovedTyped ==
    ASSUME TypeInv, NEW t \in Tasks, NEW g \in Frame, Moved(t, g), sent' = sent,
           g.pc = "submit" => g.rpc \in 1..Len(sent),
           g.pc = "wait" => g.tgt \in 1..Len(CommitPeers)
    PROVE  task' \in [Tasks -> Frame] /\ TaskBounds'
<1>1. task' \in [Tasks -> Frame]
  BY DEF Moved, TypeInv, TypeOK
<1>2. \A u \in Tasks : task'[u] = IF u = t THEN g ELSE task[u]
  BY DEF Moved, TypeInv, TypeOK
<1> QED
  BY <1>1, <1>2 DEF TypeInv, TaskBounds

\* The steps of a wait that stay in it.
LEMMA StreamMoves ==
    ASSUME TypeInv, NEW t \in Tasks, task[t].pc = "wait"
    PROVE  /\ OpenStream(t) =>
                 Moved(t, [task[t] EXCEPT
                             !.cursor = height[CommitPeers[task[t].tgt]]])
           /\ task' = [task EXCEPT ![t].cursor = @ + 1] =>
                 Moved(t, [task[t] EXCEPT !.cursor = task[t].cursor + 1])
           /\ task' = [task EXCEPT ![t].tgt = @ + 1, ![t].cursor = 0] =>
                 Moved(t, [task[t] EXCEPT !.tgt = @ + 1, !.cursor = 0])
<1>1. task \in [Tasks -> Frame]
  BY DEF TypeInv, TypeOK
<1> QED
  BY <1>1 DEF OpenStream, Moved

LEMMA TypeStream ==
    ASSUME TypeInv, NEW t \in Tasks, Stream(t)
    PROVE  TypeInv'
<1> DEFINE p == CommitPeers[task[t].tgt]
           f == task[t]
<1>1. f.pc = "wait" /\ f \in Frame /\ f.cursor \in Nat /\ f.tgt \in Nat
  BY DEF Stream, OpenStream, ReadBlock, StreamError, StreamEnd, WaitTimeout,
     GiveUp, TypeInv, TypeOK, Frame
<1>2. height[p] \in Nat /\ f.tgt \in 1..Len(CommitPeers) /\ f.cursor + 1 \in Nat
  BY <1>1, WaitBounds DEF TypeInv, TaskBounds
<1>3. CASE OpenStream(t)
  <2> DEFINE g == [f EXCEPT !.cursor = height[p]]
  <2>1. g \in Frame /\ g.pc = "wait" /\ g.tgt = f.tgt
    BY <1>1, <1>2, CursorFrame, Zenon
  <2>2. Moved(t, g)
    BY <1>1, <1>3, StreamMoves
  <2> HIDE DEF g
  <2>3. task' \in [Tasks -> Frame] /\ TaskBounds'
    BY <1>2, <1>3, <2>1, <2>2, MovedTyped DEF OpenStream, fabricVars
  <2> QED
    BY <1>3, <2>3 DEF OpenStream, TypeInv, TypeOK, FabricTypeOK, HeightBounds,
       fabricVars, builderVars, history
<1>4. CASE ReadBlock(t)
  <2>1. CASE /\ task' = [task EXCEPT ![t].cursor = @ + 1]
             /\ UNCHANGED <<sent, operations, filtered_tx, executed>>
    <3> DEFINE g == [f EXCEPT !.cursor = f.cursor + 1]
    <3>1. g \in Frame /\ g.pc = "wait" /\ g.tgt = f.tgt
      BY <1>1, <1>2, CursorFrame, Zenon
    <3>2. Moved(t, g)
      BY <1>1, <2>1, StreamMoves
    <3> HIDE DEF g
    <3>3. task' \in [Tasks -> Frame] /\ TaskBounds'
      BY <1>2, <2>1, <3>1, <3>2, MovedTyped
    <3> QED
      BY <1>4, <2>1, <3>3 DEF ReadBlock, TypeInv, TypeOK, FabricTypeOK,
         HeightBounds
  <2>2. CASE Raise(t, "validation_error") /\ UNCHANGED filtered_tx
    <3>1. /\ sent' \in Seq(Send) /\ task' \in [Tasks -> Frame] /\ TaskBounds'
          /\ operations' \in Seq(Operation) /\ executed' \subseteq Nat
      BY <2>2, RaiseTyped DEF Outcome
    <3> QED
      BY <1>4, <2>2, <3>1, TypeInvFrom DEF ReadBlock, TypeInv, TypeOK
  <2>3. CASE /\ filtered_tx' = chain[f.cursor].code
             /\ Proceed(t, endorsed_tx, committed)
    <3>1. /\ sent' \in Seq(Send) /\ task' \in [Tasks -> Frame] /\ TaskBounds'
          /\ operations' \in Seq(Operation) /\ executed' \subseteq Nat
      BY <2>3, ProceedTyped DEF TypeInv, TypeOK
    <3>2. chain[f.cursor].code \in ValidationCode
      BY <1>4, ReadBounds
    <3> QED
      BY <1>4, <2>3, <3>1, <3>2, TypeInvFrom DEF ReadBlock, TypeInv, TypeOK
  <2> QED
    BY <1>4, <2>1, <2>2, <2>3 DEF ReadBlock, CheckTransaction
<1>5. CASE StreamError(t)
  <2>1. CASE /\ f.tgt < Len(CommitPeers)
             /\ task' = [task EXCEPT ![t].tgt = @ + 1, ![t].cursor = 0]
             /\ UNCHANGED <<sent, operations, executed>>
    <3> DEFINE g == [f EXCEPT !.tgt = @ + 1, !.cursor = 0]
    <3>1. g \in Frame /\ g.pc = "wait" /\ g.tgt = f.tgt + 1
      BY <1>1, NextPeerFrame, Zenon
    <3>2. Moved(t, g)
      BY <1>1, <2>1, StreamMoves
    <3> HIDE DEF g
    <3>3. g.tgt \in 1..Len(CommitPeers)
      BY <1>2, <2>1, <3>1, TxBuilderAssumption
    <3>4. task' \in [Tasks -> Frame] /\ TaskBounds'
      BY <2>1, <3>1, <3>2, <3>3, MovedTyped
    <3> QED
      BY <1>5, <2>1, <3>4 DEF StreamError, TypeInv, TypeOK, FabricTypeOK,
         HeightBounds
  <2>2. CASE Raise(t, "connection_error") \/ Raise(t, "retrieval_error")
    <3>1. /\ sent' \in Seq(Send) /\ task' \in [Tasks -> Frame] /\ TaskBounds'
          /\ operations' \in Seq(Operation) /\ executed' \subseteq Nat
      BY <2>2, RaiseTyped DEF Outcome
    <3> QED
      BY <1>5, <3>1, TypeInvFrom DEF StreamError, TypeInv, TypeOK
  <2> QED
    BY <1>5, <2>1, <2>2 DEF StreamError
<1>6. CASE GiveUp(t, "runtime_error") \/ GiveUp(t, "timeout")
  <2>1. /\ sent' \in Seq(Send) /\ task' \in [Tasks -> Frame] /\ TaskBounds'
        /\ operations' \in Seq(Operation) /\ executed' \subseteq Nat
    BY <1>6, RaiseTyped DEF GiveUp, Outcome
  <2> QED
    BY <1>6, <2>1, TypeInvFrom DEF GiveUp, TypeInv, TypeOK
<1> QED
  BY <1>3, <1>4, <1>5, <1>6 DEF Stream, StreamEnd, WaitTimeout

LEMMA TypeCancel ==
    ASSUME TypeInv, NEW t \in Tasks, Cancel(t)
    PROVE  TypeInv'
<1>1. /\ sent' \in Seq(Send) /\ task' \in [Tasks -> Frame] /\ TaskBounds'
      /\ operations' \in Seq(Operation) /\ executed' \subseteq Nat
  BY RaiseTyped DEF Cancel, Outcome
<1> QED
  BY <1>1, TypeInvFrom DEF Cancel, TypeInv, TypeOK

LEMMA TypeNext == TypeInv /\ [Next]_vars => TypeInv'
<1> SUFFICES ASSUME TypeInv, [Next]_vars PROVE TypeInv'
  OBVIOUS
<1>1. CASE UNCHANGED vars
  BY <1>1 DEF vars, fabricVars, builderVars, history, TypeInv, TypeOK,
     FabricTypeOK, TaskBounds, HeightBounds
<1>2. CASE Next
  BY <1>2, TypeEnvironment, TypeAddChain, TypeAwait, TypeRespond, TypeReply,
     TypeStream, TypeCancel DEF Next
<1> QED
  BY <1>1, <1>2

\* Type correctness: no step of any number of tasks takes an attribute of the
\* builder, or the frame of a coroutine, out of its type.
THEOREM TypeCorrect == Spec => []TypeOK
<1>1. Spec => []TypeInv
  BY TypeInit, TypeNext, PTL DEF Spec
<1>2. TypeInv => TypeOK
  BY DEF TypeInv
<1> QED
  BY <1>1, <1>2, PTL

-----------------------------------------------------------------------------

\* The operation a coroutine is suspended in is the one at its place in the
\* list, as long as that list is self._operations and has not been cleared;
\* a list object that was replaced never comes back.
InList(g, ops, gen) ==
    g.pc # "idle" =>
        /\ g.pc = g.op.kind /\ g.outcome = "none"
        /\ g.list <= gen
        /\ g.list = gen /\ ops # <<>> =>
              g.pos \in 1..Len(ops) /\ g.op = ops[g.pos]

ListInv == \A t \in Tasks : InList(task[t], operations, generation)

RunInv == TypeInv /\ ListInv

-----------------------------------------------------------------------------
(* The kinds of step, by what they do to the list, the tasks, the RPCs and  *)
(* the chain.                                                               *)

\* g is the frame of a task that has just started operation n.
Runs(g, n) ==
    /\ g.pc = operations[n].kind /\ g.op = operations[n]
    /\ g.list = generation /\ g.pos = n /\ g.outcome = "none"

\* Nothing is sent, or operation n is a submit and sends the responses e.
SentFor(n, e) ==
    \/ sent' = sent
    \/ /\ operations[n].kind = "submit" /\ e # <<>>
       /\ sent' = Append(sent, [env |-> BuildEnvelope(e), state |-> "sent"])

StartsAt(t, n, e) ==
    /\ \E g \in Frame : Moved(t, g) /\ (g = Ended("value_error") \/ Runs(g, n))
    /\ SentFor(n, e)

\* One of the peers that are waited for has our transaction with this code.
OnLedger(code) ==
    \E k \in 1..Len(CommitPeers), i \in 1..Len(chain) :
        /\ i <= height[CommitPeers[k]]
        /\ IsOurs(i)
        /\ chain[i].code = code

\* The orderers, the peers, or nobody.
QuietStep ==
    /\ UNCHANGED <<builderVars, task, history>>
    /\ Len(sent') = Len(sent)
    /\ \A n \in 1..Len(sent) : sent'[n].env = sent[n].env
    /\ Len(chain') >= Len(chain)
    /\ \A i \in 1..Len(chain) : chain'[i] = chain[i]
    /\ \A p \in Peer : height'[p] >= height[p]
    /\ \/ chain' = chain
       \/ chain' = Append(chain, OtherBlock) /\ sent' = sent
       \/ \E n \in 1..Len(sent) : OrderOurs(n)

\* A task stays in its operation, or ends without a result: with an exception,
\* or because there is nothing to run.
StayStep(t) ==
    /\ UNCHANGED <<operations, generation, chain, height, filtered_tx, added,
                   executed>>
    /\ awaits' \in {awaits, awaits + 1}
    /\ endorsed_tx' # endorsed_tx => task[t].pc = "propose" /\ sent' = sent
    /\ \E g \in Frame :
          /\ Moved(t, g)
          /\ InList(g, operations, generation)
          /\ g.outcome # "returned"
          /\ g.pc # "idle" => /\ g.pc = task[t].pc /\ g.list = task[t].list
                              /\ g.pos = task[t].pos
          /\ g.op \in {task[t].op, NoOperation}
          /\ g.outcome \in {"none", "never_proposed"} =>
                g.pc # "idle" \/ operations = <<>>
    /\ \/ sent' = sent
       \/ \E n \in 1..Len(sent) :
             sent' = Append(sent, [env |-> sent[n].env, state |-> "sent"])

\* A task begins with the first operation of the list.
BeginStep(t) ==
    /\ UNCHANGED <<builderVars, chain, height, added, executed>>
    /\ task[t].pc = "idle"
    /\ awaits < MaxAwaits /\ awaits' = awaits + 1
    /\ operations # <<>>
    /\ StartsAt(t, 1, endorsed_tx)

\* A task goes on after its operation, or comes to the end of its list.
GoesOn(t, e) ==
    /\ operations' = operations
    /\ task[t].list = generation
    /\ task[t].pos + 1 \in 1..Len(operations)
    /\ StartsAt(t, task[t].pos + 1, e)

Finishes(t) ==
    /\ operations' = <<>>
    /\ sent' = sent
    /\ ~(task[t].list = generation /\ task[t].pos < Len(operations))
    /\ Moved(t, Ended("returned")) \/ Moved(t, Ended("never_proposed"))

ProceedStep(t, e) ==
    /\ UNCHANGED <<generation, chain, height, added, awaits>>
    /\ task[t].pc # "idle"
    /\ executed' = executed \cup {task[t].op.id}
    /\ endorsed_tx' = e
    /\ IF task[t].pc = "propose"
       THEN task[t].op.raise => FullyEndorsed(e)
       ELSE endorsed_tx' = endorsed_tx
    /\ IF task[t].pc = "wait"
       THEN /\ OnLedger(filtered_tx')
            /\ task[t].op.raise => filtered_tx' = "VALID"
       ELSE filtered_tx' = filtered_tx
    /\ GoesOn(t, e) \/ Finishes(t)

-----------------------------------------------------------------------------

LEMMA StartEffect ==
    ASSUME TypeInv, NEW t \in Tasks, NEW n \in 1..Len(operations),
           NEW e \in EndorsedTX \cup {<<>>}, NEW s \in BOOLEAN,
           StartOperation(t, n, e, s)
    PROVE  StartsAt(t, n, e)
<1> DEFINE op == operations[n]
           frame == [pc |-> op.kind, op |-> op, list |-> generation, pos |-> n,
                     tgt |-> 1, rpc |-> 0, cursor |-> 0, outcome |-> "none"]
<1>1. op \in Operation /\ n \in Nat
  BY DEF TypeInv, TypeOK
<1>2. frame \in Frame /\ Runs(frame, n)
  BY <1>1 DEF Frame, Operation, Outcome, TypeInv, TypeOK, Runs
<1>a. \/ End(t, "value_error") /\ sent' = sent
      \/ op.kind = "submit" /\ e # <<>> /\ Broadcast(t, frame, BuildEnvelope(e))
      \/ op.kind # "submit" /\ task' = [task EXCEPT ![t] = frame] /\ sent' = sent
  BY DEF StartOperation
<1>3. CASE End(t, "value_error") /\ sent' = sent
  <2>1. Ended("value_error") \in Frame
    BY EndedTyped DEF Outcome
  <2> QED
    BY <1>3, <2>1 DEF StartsAt, SentFor, End, Moved
<1>4. CASE op.kind = "submit" /\ e # <<>> /\ Broadcast(t, frame, BuildEnvelope(e))
  <2> DEFINE g == [frame EXCEPT !.rpc = Len(sent) + 1]
  <2>1. Len(sent) + 1 \in Nat
    BY DEF TypeInv, TypeOK, FabricTypeOK
  <2>2. g \in Frame /\ Runs(g, n)
    BY <1>2, <2>1 DEF Frame, Runs
  <2>3. Moved(t, g)
    BY <1>4 DEF Broadcast, Moved
  <2>4. SentFor(n, e)
    BY <1>4 DEF Broadcast, SentFor
  <2> HIDE DEF g
  <2> QED
    BY <2>2, <2>3, <2>4 DEF StartsAt
<1>5. CASE op.kind # "submit" /\ task' = [task EXCEPT ![t] = frame] /\ sent' = sent
  <2>1. Moved(t, frame)
    BY <1>5 DEF Moved
  <2> HIDE DEF frame
  <2> QED
    BY <1>2, <1>5, <2>1 DEF StartsAt, SentFor
<1> QED
  BY <1>a, <1>3, <1>4, <1>5

LEMMA ProceedEffect ==
    ASSUME TypeInv, NEW t \in Tasks, NEW e \in EndorsedTX \cup {<<>>},
           NEW s \in BOOLEAN, Proceed(t, e, s)
    PROVE  GoesOn(t, e) \/ Finishes(t)
<1>1. task[t].pos \in Nat /\ Len(operations) \in Nat
  BY DEF TypeInv, TypeOK, Frame
<1>2. CASE /\ task[t].list = generation /\ task[t].pos < Len(operations)
           /\ StartOperation(t, task[t].pos + 1, e, s)
           /\ operations' = operations
  <2>1. task[t].pos + 1 \in 1..Len(operations)
    BY <1>1, <1>2
  <2> QED
    BY <1>2, <2>1, StartEffect DEF GoesOn
<1>3. CASE /\ ~(task[t].list = generation /\ task[t].pos < Len(operations))
           /\ operations' = <<>>
           /\ End(t, IF e # <<>> THEN "returned" ELSE "never_proposed")
           /\ sent' = sent
  BY <1>3 DEF Finishes, End, Moved
<1> QED
  BY <1>2, <1>3 DEF Proceed

LEMMA RaiseStays ==
    ASSUME TypeInv, NEW t \in Tasks, NEW o \in Outcome, o # "returned",
           o \in {"none", "never_proposed"} => operations = <<>>, End(t, o),
           UNCHANGED <<sent, operations, generation, chain, height, filtered_tx,
                       added, executed>>,
           awaits' \in {awaits, awaits + 1},
           endorsed_tx' # endorsed_tx => task[t].pc = "propose"
    PROVE  StayStep(t)
<1>1. /\ Ended(o) \in Frame /\ InList(Ended(o), operations, generation)
      /\ Ended(o).outcome = o /\ Ended(o).pc = "idle"
      /\ Ended(o).op = NoOperation
  BY EndedTyped DEF InList, Ended
<1> QED
  BY <1>1 DEF StayStep, End, Moved

\* A frame that keeps its operation and its place in the list.
LEMMA MovedStays ==
    ASSUME RunInv, NEW t \in Tasks, task[t].pc # "idle", NEW g \in Frame,
           Moved(t, g), g.pc = task[t].pc, g.op = task[t].op,
           g.list = task[t].list, g.pos = task[t].pos,
           g.outcome = task[t].outcome,
           UNCHANGED <<builderVars, history, chain, height>>,
           \/ sent' = sent
           \/ \E n \in 1..Len(sent) :
                 sent' = Append(sent, [env |-> sent[n].env, state |-> "sent"])
    PROVE  StayStep(t)
<1>1. InList(g, operations, generation) /\ g.outcome # "returned"
  BY DEF RunInv, ListInv, InList
<1> QED
  BY <1>1 DEF StayStep, builderVars, history

LEMMA EnvironmentQuiet ==
    ASSUME TypeInv, Environment
    PROVE  QuietStep
<1> USE DEF TypeInv, TypeOK, FabricTypeOK
<1>1. UNCHANGED <<builderVars, task, history>>
  BY DEF Environment
<1>2. CASE \E n \in 1..Len(sent) : OrdererReplies(n)
  <2>1. PICK n \in 1..Len(sent) : OrdererReplies(n)
    BY <1>2
  <2>2. PICK st \in {"accepted", "refused"} : sent' = [sent EXCEPT ![n].state = st]
    BY <2>1 DEF OrdererReplies
  <2>3. Len(sent') = Len(sent)
    BY <2>2
  <2>4. ASSUME NEW m \in 1..Len(sent) PROVE sent'[m].env = sent[m].env
    <3>1. sent[m] \in Send
      OBVIOUS
    <3>2. CASE m = n
      <4>1. sent'[m] = [sent[m] EXCEPT !.state = st]
        BY <2>2, <3>2
      <4> QED
        BY <3>1, <4>1 DEF Send
    <3>3. CASE m # n
      BY <2>2, <3>3
    <3> QED
      BY <3>2, <3>3
  <2> QED
    BY <1>1, <2>1, <2>3, <2>4 DEF QuietStep, OrdererReplies
<1>3. CASE \E n \in 1..Len(sent) : OrderOurs(n)
  <2>1. PICK n \in 1..Len(sent) : OrderOurs(n)
    BY <1>3
  <2>2. PICK c \in Validate(sent[n].env) :
           chain' = Append(chain, [rpc |-> n, code |-> c])
    BY <2>1 DEF OrderOurs
  <2>3. /\ Len(chain') = Len(chain) + 1 /\ UNCHANGED <<sent, height>>
        /\ \A i \in 1..Len(chain) : chain'[i] = chain[i]
    BY <2>1, <2>2 DEF OrderOurs
  <2> QED
    BY <1>1, <2>1, <2>3 DEF QuietStep
<1>4. CASE OrderOther
  BY <1>1, <1>4 DEF QuietStep, OrderOther
<1>5. CASE \E p \in Peer : CommitBlock(p)
  <2>1. \A p \in Peer : height'[p] >= height[p]
    BY <1>5 DEF CommitBlock
  <2> QED
    BY <1>1, <1>5, <2>1 DEF QuietStep, CommitBlock
<1> QED
  BY <1>2, <1>3, <1>4, <1>5 DEF Environment

LEMMA AwaitCases ==
    ASSUME TypeInv, NEW t \in Tasks, Await(t)
    PROVE  StayStep(t) \/ BeginStep(t)
<1>1. /\ UNCHANGED <<builderVars, chain, height, added, executed>>
      /\ task[t].pc = "idle" /\ awaits < MaxAwaits /\ awaits' = awaits + 1
  BY DEF Await
<1>2. CASE operations = <<>> /\ End(t, "never_proposed") /\ sent' = sent
  BY <1>1, <1>2, RaiseStays DEF Outcome, builderVars
<1>3. CASE operations # <<>> /\ StartOperation(t, 1, endorsed_tx, committed)
  <2>1. 1 \in 1..Len(operations)
    BY <1>3 DEF TypeInv, TypeOK
  <2> QED
    BY <1>1, <1>3, <2>1, StartEffect DEF BeginStep, TypeInv, TypeOK
<1> QED
  BY <1>2, <1>3 DEF Await

LEMMA RespondCases ==
    ASSUME TypeInv, NEW t \in Tasks, Respond(t)
    PROVE  StayStep(t) \/ \E e \in EndorsedTX \cup {<<>>} : ProceedStep(t, e)
<1>1. CASE ProposeDone(t)
  <2>1. PICK e \in EndorsedTX :
        /\ endorsed_tx' = e
        /\ \/ Raise(t, "proposal_error")
           \/ /\ task[t].op.raise => FullyEndorsed(e)
              /\ Proceed(t, e, committed)
    BY <1>1 DEF ProposeDone
  <2>2. CASE Raise(t, "proposal_error")
    BY <1>1, <2>2, RaiseStays DEF ProposeDone, Raise, Outcome
  <2>3. CASE /\ task[t].op.raise => FullyEndorsed(e)
             /\ Proceed(t, e, committed)
    <3>1. GoesOn(t, e) \/ Finishes(t)
      BY <2>3, ProceedEffect DEF TypeInv, TypeOK
    <3> QED
      BY <1>1, <2>1, <2>3, <3>1 DEF ProposeDone, ProceedStep, Proceed
  <2> QED
    BY <2>1, <2>2, <2>3
<1>2. CASE ProposeConnError(t)
  BY <1>2, RaiseStays DEF ProposeConnError, Raise, Outcome
<1> QED
  BY <1>1, <1>2 DEF Respond

LEMMA ReplyCases ==
    ASSUME RunInv, NEW t \in Tasks, Reply(t)
    PROVE  StayStep(t) \/ \E e \in EndorsedTX \cup {<<>>} : ProceedStep(t, e)
<1>0. TypeInv /\ task[t] \in Frame /\ task[t].pc = "submit"
  BY DEF RunInv, TypeInv, TypeOK, Reply, BroadcastOk, BroadcastClosed,
     BroadcastRejected, BroadcastConnError
<1>1. CASE Submitted(t)
  <2>1. GoesOn(t, endorsed_tx) \/ Finishes(t)
    BY <1>0, <1>1, ProceedEffect DEF Submitted, TypeInv, TypeOK
  <2>2. ProceedStep(t, endorsed_tx)
    BY <1>0, <1>1, <2>1 DEF Submitted, ProceedStep, Proceed
  <2> QED
    BY <1>0, <2>2 DEF TypeInv, TypeOK
<1>2. CASE BroadcastRejected(t)
  BY <1>0, <1>2, RaiseStays DEF BroadcastRejected, Raise, Outcome
<1>3. CASE BroadcastConnError(t)
  <2>1. UNCHANGED <<chain, height, builderVars, history>>
    BY <1>3 DEF BroadcastConnError, Raise, builderVars, history
  <2>2. CASE Raise(t, "connection_error")
    BY <1>0, <2>1, <2>2, RaiseStays DEF Raise, Outcome, builderVars, history
  <2>3. CASE Broadcast(t, [task[t] EXCEPT !.tgt = @ + 1], sent[task[t].rpc].env)
    <3> DEFINE f == [task[t] EXCEPT !.tgt = @ + 1]
               g == [f EXCEPT !.rpc = Len(sent) + 1]
    <3>1. Len(sent) + 1 \in Nat /\ task[t].rpc \in 1..Len(sent)
      BY <1>0 DEF TypeInv, TypeOK, FabricTypeOK, TaskBounds
    <3>2. /\ f \in Frame /\ f.pc = task[t].pc /\ f.op = task[t].op
          /\ f.list = task[t].list /\ f.pos = task[t].pos
          /\ f.outcome = task[t].outcome
      BY <1>0, TgtFrame, Zenon
    <3>3. Moved(t, g) /\ sent' = Append(sent, [env |-> sent[task[t].rpc].env,
                                              state |-> "sent"])
      BY <2>3 DEF Broadcast, Moved
    <3> HIDE DEF f
    <3>4. /\ g \in Frame /\ g.pc = f.pc /\ g.op = f.op /\ g.list = f.list
          /\ g.pos = f.pos /\ g.outcome = f.outcome
      BY <3>1, <3>2, RpcFrame, Zenon
    <3> HIDE DEF g
    <3> QED
      BY <1>0, <2>1, <3>1, <3>2, <3>3, <3>4, MovedStays
  <2> QED
    BY <1>3, <2>2, <2>3 DEF BroadcastConnError
<1> QED
  BY <1>1, <1>2, <1>3 DEF Reply, BroadcastOk, BroadcastClosed

LEMMA StreamCases ==
    ASSUME RunInv, NEW t \in Tasks, Stream(t)
    PROVE  StayStep(t) \/ \E e \in EndorsedTX \cup {<<>>} : ProceedStep(t, e)
<1> DEFINE f == task[t]
<1>0. TypeInv /\ f \in Frame /\ f.pc = "wait" /\ f.cursor \in Nat
  BY DEF RunInv, TypeInv, TypeOK, Stream, OpenStream, ReadBlock, StreamError,
     StreamEnd, WaitTimeout, GiveUp, Frame
<1>1. CASE OpenStream(t)
  <2> DEFINE g == [f EXCEPT !.cursor = height[CommitPeers[f.tgt]]]
  <2>1. height[CommitPeers[f.tgt]] \in Nat
    BY <1>0, WaitBounds
  <2>2. /\ g \in Frame /\ g.pc = f.pc /\ g.op = f.op /\ g.list = f.list
        /\ g.pos = f.pos /\ g.outcome = f.outcome
    BY <1>0, <2>1, CursorFrame, Zenon
  <2>3. Moved(t, g)
    BY <1>0, <1>1, StreamMoves
  <2> HIDE DEF g
  <2> QED
    BY <1>0, <1>1, <2>2, <2>3, MovedStays DEF OpenStream, fabricVars
<1>2. CASE ReadBlock(t)
  <2>1. CASE /\ task' = [task EXCEPT ![t].cursor = @ + 1]
             /\ UNCHANGED <<sent, operations, filtered_tx, executed>>
    <3> DEFINE g == [f EXCEPT !.cursor = f.cursor + 1]
    <3>1. f.cursor + 1 \in Nat
      BY <1>0
    <3>2. /\ g \in Frame /\ g.pc = f.pc /\ g.op = f.op /\ g.list = f.list
          /\ g.pos = f.pos /\ g.outcome = f.outcome
      BY <1>0, <3>1, CursorFrame, Zenon
    <3>3. Moved(t, g)
      BY <1>0, <2>1, StreamMoves
    <3> HIDE DEF g
    <3> QED
      BY <1>0, <1>2, <2>1, <3>2, <3>3, MovedStays DEF ReadBlock, builderVars,
         history
  <2>2. CASE Raise(t, "validation_error") /\ UNCHANGED filtered_tx
    BY <1>0, <1>2, <2>2, RaiseStays DEF ReadBlock, Raise, Outcome
  <2>3. CASE /\ IsOurs(f.cursor)
             /\ f.op.raise => chain[f.cursor].code = "VALID"
             /\ filtered_tx' = chain[f.cursor].code
             /\ Proceed(t, endorsed_tx, committed)
    <3>1. GoesOn(t, endorsed_tx) \/ Finishes(t)
      BY <1>0, <2>3, ProceedEffect DEF TypeInv, TypeOK
    <3>2. f.cursor \in 1..Len(chain)
      BY <1>0, <1>2, ReadBounds
    <3>3. OnLedger(filtered_tx')
      <4>1. /\ f.tgt \in 1..Len(CommitPeers)
            /\ f.cursor <= height[CommitPeers[f.tgt]]
        BY <1>0, <1>2 DEF TypeInv, TaskBounds, ReadBlock
      <4> QED
        BY <2>3, <3>2, <4>1 DEF OnLedger
    <3>4. ProceedStep(t, endorsed_tx)
      BY <1>0, <1>2, <2>3, <3>1, <3>3 DEF ProceedStep, ReadBlock, Proceed
    <3> QED
      BY <1>0, <3>4 DEF TypeInv, TypeOK
  <2> QED
    BY <1>2, <2>1, <2>2, <2>3 DEF ReadBlock, CheckTransaction, Matches
<1>3. CASE StreamError(t)
  <2>0. UNCHANGED <<sent, chain, height, builderVars, history>>
    BY <1>3 DEF StreamError, Raise, builderVars, history
  <2>1. CASE task' = [task EXCEPT ![t].tgt = @ + 1, ![t].cursor = 0]
    <3> DEFINE g == [f EXCEPT !.tgt = @ + 1, !.cursor = 0]
    <3>1. /\ g \in Frame /\ g.pc = f.pc /\ g.op = f.op /\ g.list = f.list
          /\ g.pos = f.pos /\ g.outcome = f.outcome
      BY <1>0, NextPeerFrame, Zenon
    <3>2. Moved(t, g)
      BY <1>0, <2>1, StreamMoves
    <3> HIDE DEF g
    <3> QED
      BY <1>0, <2>0, <3>1, <3>2, MovedStays
  <2>2. CASE Raise(t, "connection_error") \/ Raise(t, "retrieval_error")
    BY <1>0, <2>0, <2>2, RaiseStays DEF Raise, Outcome, builderVars, history
  <2> QED
    BY <1>3, <2>1, <2>2 DEF StreamError
<1>4. CASE GiveUp(t, "runtime_error") \/ GiveUp(t, "timeout")
  BY <1>0, <1>4, RaiseStays DEF GiveUp, Raise, Outcome
<1> QED
  BY <1>1, <1>2, <1>3, <1>4 DEF Stream, StreamEnd, WaitTimeout

\* Every step is of one of the five kinds.
LEMMA StepCases ==
    ASSUME RunInv, [Next]_vars
    PROVE  \/ QuietStep
           \/ \E c \in Chains : AddChain(c)
           \/ \E t \in Tasks : StayStep(t)
           \/ \E t \in Tasks : BeginStep(t)
           \/ \E t \in Tasks, e \in EndorsedTX \cup {<<>>} : ProceedStep(t, e)
<1>0. TypeInv
  BY DEF RunInv
<1>1. CASE UNCHANGED vars
  BY <1>0, <1>1 DEF vars, fabricVars, QuietStep, TypeInv, TypeOK, FabricTypeOK
<1>2. CASE Environment
  BY <1>0, <1>2, EnvironmentQuiet
<1>3. ASSUME NEW t \in Tasks, Cancel(t) PROVE StayStep(t)
  BY <1>0, <1>3, RaiseStays DEF Cancel, Raise, Outcome
<1> QED
  BY <1>0, <1>1, <1>2, <1>3, AwaitCases, RespondCases, ReplyCases, StreamCases
     DEF Next

-----------------------------------------------------------------------------

LEMMA MovedList ==
    ASSUME RunInv, NEW t \in Tasks, NEW g \in Frame, Moved(t, g),
           InList(g, operations, generation), generation' = generation,
           operations' = operations \/ operations' = <<>>
    PROVE  ListInv'
<1>1. \A u \in Tasks : task'[u] = IF u = t THEN g ELSE task[u]
  BY DEF RunInv, TypeInv, TypeOK, Moved
<1>2. \A u \in Tasks : InList(task'[u], operations, generation)
  BY <1>1 DEF RunInv, ListInv
<1>3. \A u \in Tasks : InList(task'[u], operations', generation')
  BY <1>2 DEF InList
<1> QED
  BY <1>3 DEF ListInv

LEMMA StartedInList ==
    ASSUME TypeInv, NEW n \in 1..Len(operations), NEW g \in Frame,
           g = Ended("value_error") \/ Runs(g, n)
    PROVE  InList(g, operations, generation)
<1>1. CASE g = Ended("value_error")
  BY <1>1 DEF InList, Ended
<1>2. CASE Runs(g, n)
  BY <1>2 DEF InList, Runs, TypeInv, TypeOK
<1> QED
  BY <1>1, <1>2

LEMMA ListStep == RunInv /\ [Next]_vars => ListInv'
<1> SUFFICES ASSUME RunInv, [Next]_vars PROVE ListInv'
  OBVIOUS
<1>0. TypeInv
  BY DEF RunInv
<1>1. CASE QuietStep
  BY <1>1 DEF QuietStep, builderVars, RunInv, ListInv
<1>2. ASSUME NEW c \in Chains, AddChain(c) PROVE ListInv'
  <2>1. /\ operations' = operations \o NewOps(c) /\ task' = task
        /\ generation' = IF operations = <<>> THEN generation + 1 ELSE generation
    BY <1>2 DEF AddChain, AddOperations, NewOps
  <2>2. operations \in Seq(Operation) /\ NewOps(c) \in Seq(Operation)
    BY <1>0, NewOpsTyped DEF TypeInv, TypeOK
  <2>3. /\ Len(operations') = Len(operations) + Len(NewOps(c))
        /\ \A k \in 1..Len(operations) : operations'[k] = operations[k]
    BY <2>1, <2>2
  <2>4. Len(operations) \in Nat /\ Len(NewOps(c)) \in Nat /\ generation \in Nat
    BY <1>0, <2>2 DEF TypeInv, TypeOK
  <2>5. ASSUME NEW u \in Tasks PROVE InList(task[u], operations', generation')
    <3>1. InList(task[u], operations, generation) /\ task[u].list \in Nat
      BY <1>0 DEF RunInv, ListInv, TypeInv, TypeOK, Frame
    <3>2. CASE operations = <<>>
      BY <2>1, <2>4, <3>1, <3>2 DEF InList
    <3>3. CASE operations # <<>>
      BY <2>1, <2>3, <2>4, <3>1, <3>3 DEF InList
    <3> QED
      BY <3>2, <3>3
  <2> QED
    BY <2>1, <2>5 DEF ListInv
<1>3. ASSUME NEW t \in Tasks, StayStep(t) PROVE ListInv'
  BY <1>3, MovedList DEF StayStep
<1>4. ASSUME NEW t \in Tasks, BeginStep(t) PROVE ListInv'
  <2>1. 1 \in 1..Len(operations)
    BY <1>0, <1>4 DEF BeginStep, TypeInv, TypeOK
  <2>2. PICK g \in Frame : Moved(t, g) /\ (g = Ended("value_error") \/ Runs(g, 1))
    BY <1>4 DEF BeginStep, StartsAt
  <2> QED
    BY <1>0, <1>4, <2>1, <2>2, StartedInList, MovedList DEF BeginStep, builderVars
<1>5. ASSUME NEW t \in Tasks, NEW e \in EndorsedTX \cup {<<>>}, ProceedStep(t, e)
      PROVE  ListInv'
  <2>1. CASE GoesOn(t, e)
    <3>1. PICK g \in Frame : /\ Moved(t, g)
                             /\ g = Ended("value_error") \/ Runs(g, task[t].pos + 1)
      BY <2>1 DEF GoesOn, StartsAt
    <3> QED
      BY <1>0, <1>5, <2>1, <3>1, StartedInList, MovedList DEF GoesOn, ProceedStep
  <2>2. CASE Finishes(t)
    <3>1. PICK o \in Outcome : Moved(t, Ended(o))
      BY <2>2 DEF Finishes, Outcome
    <3>2. Ended(o) \in Frame /\ InList(Ended(o), operations, generation)
      BY EndedTyped DEF InList
    <3> QED
      BY <1>5, <2>2, <3>1, <3>2, MovedList DEF Finishes, ProceedStep
  <2> QED
    BY <1>5, <2>1, <2>2 DEF ProceedStep
<1> QED
  BY <1>1, <1>2, <1>3, <1>4, <1>5, StepCases

LEMMA RunInit == Init => RunInv
<1> SUFFICES ASSUME Init PROVE ListInv
  BY TypeInit DEF RunInv
<1>1. \A t \in Tasks : task[t].pc = "idle"
  BY DEF Init, Ended
<1> QED
  BY <1>1 DEF ListInv, InList

LEMMA RunNext == RunInv /\ [Next]_vars => RunInv'
BY TypeNext, ListStep DEF RunInv

\* However tasks that share a builder interleave, and whatever the caller adds
\* to it meanwhile, a suspended coroutine is where its for statement says it
\* is in the list it iterates over.
THEOREM ListCorrect == Spec => []RunInv
BY RunInit, RunNext, PTL DEF Spec

-----------------------------------------------------------------------------
(* What is sent was fully endorsed.                                         *)

\* Every submit directly follows a propose that raises.
SubmitsEndorsed(ops) ==
    \A k \in 1..Len(ops) :
        ops[k].kind = "submit" =>
            /\ k - 1 \in 1..Len(ops)
            /\ ops[k - 1].kind = "propose" /\ ops[k - 1].raise

ProposesFirst == \A c \in Chains : SubmitsEndorsed(c)

EndorsedInv == RunInv /\ SubmitsEndorsed(operations) /\ SentFullyEndorsed

\* Where the elements of two sequences are in their concatenation.
LEMMA ConcatAt ==
    ASSUME NEW S, NEW a \in Seq(S), NEW b \in Seq(S)
    PROVE  /\ Len(a \o b) = Len(a) + Len(b)
           /\ \A k \in 1..Len(a) : (a \o b)[k] = a[k]
           /\ \A k \in 1..Len(b) : (a \o b)[Len(a) + k] = b[k]
<1>1. Len(a) \in Nat /\ Len(b) \in Nat
  OBVIOUS
<1>2. ASSUME NEW k \in 1..Len(b) PROVE (a \o b)[Len(a) + k] = b[k]
  <2>1. Len(a) + k \in 1..(Len(a) + Len(b)) /\ ~(Len(a) + k <= Len(a))
    BY <1>1
  <2>2. (Len(a) + k) - Len(a) = k
    BY <1>1
  <2> QED
    BY <1>1, <2>1, <2>2
<1> QED
  BY <1>1, <1>2

\* Adding a chain keeps the discipline of the list.
LEMMA AddKeepsSubmits ==
    ASSUME EndorsedInv, ProposesFirst, NEW c \in Chains, AddChain(c)
    PROVE  SubmitsEndorsed(operations')
<1>0. TypeInv
  BY DEF EndorsedInv, RunInv
<1> DEFINE m == Len(operations)
           n == Len(c)
           new == NewOps(c)
<1>1. operations' = operations \o new
  BY DEF AddChain, AddOperations, NewOps
<1>2. operations \in Seq(Operation) /\ new \in Seq(Operation)
  BY <1>0, NewOpsTyped DEF TypeInv, TypeOK
<1>3. m \in Nat /\ n \in Nat /\ Len(new) = n
  BY <1>0, NewOpsTyped DEF TypeInv, TypeOK
<1>4. /\ Len(operations') = m + n
      /\ \A k \in 1..m : operations'[k] = operations[k]
      /\ \A k \in 1..n : operations'[m + k] = new[k]
  <2> HIDE DEF new
  <2>1. /\ Len(operations \o new) = Len(operations) + Len(new)
        /\ \A k \in 1..Len(operations) : (operations \o new)[k] = operations[k]
        /\ \A k \in 1..Len(new) : (operations \o new)[Len(operations) + k] = new[k]
    <3>1. \A b \in Seq(Operation) :
             /\ Len(operations \o b) = Len(operations) + Len(b)
             /\ \A k \in 1..Len(operations) : (operations \o b)[k] = operations[k]
             /\ \A k \in 1..Len(b) : (operations \o b)[Len(operations) + k] = b[k]
      BY <1>2, ConcatAt
    <3> QED
      BY <1>2, <3>1
  <2> QED
    BY <1>1, <1>3, <2>1
<1>5. \A k \in 1..n : new[k].kind = c[k].kind /\ new[k].raise = c[k].raise
  BY <1>0, NewOpsTyped
<1> HIDE DEF m, n, new
<1>6. ASSUME NEW k \in 1..(m + n), operations'[k].kind = "submit"
      PROVE  /\ k - 1 \in 1..(m + n)
             /\ operations'[k - 1].kind = "propose" /\ operations'[k - 1].raise
  <2>1. CASE k \in 1..m
    <3>1. operations[k].kind = "submit"
      BY <1>4, <1>6, <2>1
    <3>2. /\ k - 1 \in 1..m
          /\ operations[k - 1].kind = "propose" /\ operations[k - 1].raise
      BY <2>1, <3>1 DEF EndorsedInv, SubmitsEndorsed, m
    <3> QED
      BY <1>3, <1>4, <3>2
  <2>2. CASE k \notin 1..m
    <3>1. k - m \in 1..n /\ k = m + (k - m)
      BY <1>3, <2>2
    <3>2. c[k - m].kind = "submit"
      BY <1>4, <1>5, <1>6, <3>1
    <3>3. /\ (k - m) - 1 \in 1..n
          /\ c[(k - m) - 1].kind = "propose" /\ c[(k - m) - 1].raise
      BY <3>1, <3>2 DEF ProposesFirst, SubmitsEndorsed, n
    <3>4. k - 1 = m + ((k - m) - 1)
      BY <1>3
    <3>5. operations'[k - 1] = new[(k - m) - 1]
      BY <1>4, <3>3, <3>4
    <3> QED
      BY <1>3, <1>5, <3>1, <3>3, <3>5
  <2> QED
    BY <2>1, <2>2
<1> QED
  BY <1>4, <1>6 DEF SubmitsEndorsed

\* An envelope that carries only endorsements may be sent.
LEMMA AppendEndorsed ==
    ASSUME TypeInv, SentFullyEndorsed, NEW env \in Envelope,
           \A i \in 1..Len(env.endorsements) : env.endorsements[i].status = 200,
           sent' = Append(sent, [env |-> env, state |-> "sent"])
    PROVE  SentFullyEndorsed'
<1>1. sent \in Seq(Send) /\ Len(sent) \in Nat
  BY DEF TypeInv, TypeOK, FabricTypeOK
<1>2. /\ Len(sent') = Len(sent) + 1
      /\ \A n \in 1..Len(sent) : sent'[n] = sent[n]
      /\ sent'[Len(sent) + 1].env = env
  BY <1>1
<1>3. ASSUME NEW n \in 1..Len(sent')
      PROVE  \A i \in 1..Len(sent'[n].env.endorsements) :
                sent'[n].env.endorsements[i].status = 200
  <2>1. CASE n \in 1..Len(sent)
    BY <1>2, <2>1 DEF SentFullyEndorsed
  <2>2. CASE n = Len(sent) + 1
    BY <1>2, <2>2
  <2> QED
    BY <1>1, <1>2, <2>1, <2>2
<1> QED
  BY <1>3 DEF SentFullyEndorsed

LEMMA EndorsedNext ==
    ASSUME ProposesFirst, EndorsedInv, [Next]_vars
    PROVE  EndorsedInv'
<1>0. RunInv /\ TypeInv /\ SubmitsEndorsed(operations) /\ SentFullyEndorsed
  BY DEF EndorsedInv, RunInv
<1>r. RunInv'
  BY <1>0, RunNext
<1>e. SubmitsEndorsed(<<>>)
  BY DEF SubmitsEndorsed
<1>s. sent \in Seq(Send)
  BY <1>0 DEF TypeInv, TypeOK, FabricTypeOK
<1>1. CASE QuietStep
  BY <1>0, <1>r, <1>1 DEF QuietStep, builderVars, EndorsedInv, SentFullyEndorsed
<1>2. ASSUME NEW c \in Chains, AddChain(c) PROVE EndorsedInv'
  <2>1. sent' = sent
    BY <1>2 DEF AddChain, fabricVars
  <2>2. SubmitsEndorsed(operations')
    BY <1>2, AddKeepsSubmits
  <2> QED
    BY <1>0, <1>r, <2>1, <2>2 DEF EndorsedInv, SentFullyEndorsed
<1>3. ASSUME NEW t \in Tasks, StayStep(t) PROVE EndorsedInv'
  <2>1. operations' = operations
    BY <1>3 DEF StayStep
  <2>2. CASE sent' = sent
    BY <1>0, <1>r, <2>1, <2>2 DEF EndorsedInv, SentFullyEndorsed
  <2>3. ASSUME NEW n \in 1..Len(sent),
               sent' = Append(sent, [env |-> sent[n].env, state |-> "sent"])
        PROVE  EndorsedInv'
    <3>1. sent[n] \in Send
      BY <1>s
    <3>2. sent[n].env \in Envelope
      BY <3>1 DEF Send
    <3>3. \A i \in 1..Len(sent[n].env.endorsements) :
             sent[n].env.endorsements[i].status = 200
      BY <1>0 DEF SentFullyEndorsed
    <3>4. SentFullyEndorsed'
      BY <1>0, <2>3, <3>2, <3>3, AppendEndorsed
    <3> QED
      BY <1>0, <1>r, <2>1, <3>4 DEF EndorsedInv
  <2> QED
    BY <1>3, <2>2, <2>3 DEF StayStep
<1>4. ASSUME NEW t \in Tasks, BeginStep(t) PROVE EndorsedInv'
  <2>1. 1 \in 1..Len(operations) /\ operations[1].kind # "submit"
    BY <1>0, <1>4 DEF BeginStep, SubmitsEndorsed, TypeInv, TypeOK
  <2>2. sent' = sent /\ operations' = operations
    BY <1>4, <2>1 DEF BeginStep, builderVars, StartsAt, SentFor
  <2> QED
    BY <1>0, <1>r, <2>2 DEF EndorsedInv, SentFullyEndorsed
<1>5. ASSUME NEW t \in Tasks, NEW e \in EndorsedTX \cup {<<>>}, ProceedStep(t, e)
      PROVE  EndorsedInv'
  <2>1. operations' = operations \/ operations' = <<>>
    BY <1>5 DEF ProceedStep, GoesOn, Finishes
  <2>2. CASE sent' = sent
    BY <1>0, <1>r, <1>e, <2>1, <2>2 DEF EndorsedInv, SentFullyEndorsed
  <2>3. CASE /\ sent' # sent
             /\ GoesOn(t, e)
    <3> DEFINE k == task[t].pos + 1
    <3>1. /\ operations[k].kind = "submit" /\ e # <<>> /\ k \in 1..Len(operations)
          /\ sent' = Append(sent, [env |-> BuildEnvelope(e), state |-> "sent"])
      BY <2>3 DEF GoesOn, StartsAt, SentFor
    <3>2. /\ task[t].pos \in 1..Len(operations)
          /\ operations[task[t].pos].kind = "propose"
          /\ operations[task[t].pos].raise
      <4>1. task[t].pos \in Nat /\ k - 1 = task[t].pos
        BY <1>0 DEF TypeInv, TypeOK, Frame
      <4> QED
        BY <1>0, <3>1, <4>1 DEF SubmitsEndorsed
    <3>3. task[t].op = operations[task[t].pos] /\ task[t].pc = task[t].op.kind
      BY <1>0, <1>5, <2>3, <3>1 DEF ProceedStep, GoesOn, RunInv, ListInv, InList
    <3>4. FullyEndorsed(e) /\ e \in EndorsedTX
      BY <1>5, <3>1, <3>2, <3>3 DEF ProceedStep
    <3>5. BuildEnvelope(e) \in Envelope /\ BuildEnvelope(e).endorsements = e
      BY <3>4, EnvelopeTyped
    <3>6. \A i \in 1..Len(e) : e[i].status = 200
      BY <3>4, TxBuilderAssumption DEF FullyEndorsed, EndorsedTX
    <3>7. SentFullyEndorsed'
      BY <1>0, <3>1, <3>5, <3>6, AppendEndorsed
    <3> QED
      BY <1>0, <1>r, <1>e, <2>1, <3>7 DEF EndorsedInv
  <2> QED
    BY <1>5, <2>2, <2>3 DEF ProceedStep, Finishes
<1> QED
  BY <1>0, <1>1, <1>2, <1>3, <1>4, <1>5, StepCases

\* If every method chain proposes with raise_errors right before it submits, no
\* envelope that a peer refused to endorse is ever sent to an orderer: for any
\* number of tasks that share the builder, run its list again after a failure,
\* and overwrite each other's self._endorsed_tx.
THEOREM SentWasFullyEndorsed == ProposesFirst => (Spec => []SentFullyEndorsed)
<1> SUFFICES ASSUME ProposesFirst PROVE Spec => []SentFullyEndorsed
  OBVIOUS
<1>1. Init => EndorsedInv
  <2> SUFFICES ASSUME Init PROVE EndorsedInv
    OBVIOUS
  <2>1. RunInv /\ operations = <<>> /\ sent = <<>>
    BY RunInit DEF Init, FabricInit
  <2> QED
    BY <2>1 DEF EndorsedInv, SubmitsEndorsed, SentFullyEndorsed
<1>2. EndorsedInv /\ [Next]_vars => EndorsedInv'
  BY EndorsedNext
<1>3. EndorsedInv => SentFullyEndorsed
  BY DEF EndorsedInv
<1> QED
  BY <1>1, <1>2, <1>3, PTL DEF Spec

-----------------------------------------------------------------------------
(* A chain that ends in a wait returns only if the transaction took effect. *)

EndsInWait(ops) ==
    ops # <<>> => ops[Len(ops)].kind = "wait" /\ ops[Len(ops)].raise

WaitsLast == \A c \in Chains : EndsInWait(c)

\* The list the coroutine iterates over was cleared by another task.
LeftBehind(g, ops, gen) == g.pc # "idle" /\ (g.list # gen \/ ops = <<>>)

\* A list is cleared only once a peer that is waited for has the transaction as
\* a valid one, so a task that lost its list to another may return.
EffectInv ==
    /\ RunInv
    /\ EndsInWait(operations)
    /\ \A t \in Tasks :
          LeftBehind(task[t], operations, generation) => OnLedger("VALID")
    /\ \A t \in Tasks : task[t].outcome = "returned" => OnLedger("VALID")

\* The chain and the ledgers only grow.
LedgerGrows ==
    /\ Len(chain') >= Len(chain)
    /\ \A i \in 1..Len(chain) : chain'[i] = chain[i]
    /\ \A p \in Peer : height'[p] >= height[p]

\* What is on a ledger stays there.
LEMMA OnLedgerStays ==
    ASSUME TypeInv, TypeInv', LedgerGrows, NEW code, OnLedger(code)
    PROVE  OnLedger(code)'
<1>1. PICK k \in 1..Len(CommitPeers), i \in 1..Len(chain) :
         i <= height[CommitPeers[k]] /\ IsOurs(i) /\ chain[i].code = code
  BY DEF OnLedger
<1>2. /\ Len(chain) \in Nat /\ Len(chain') \in Nat
      /\ height \in [Peer -> Nat] /\ height' \in [Peer -> Nat]
  BY DEF TypeInv, TypeOK, FabricTypeOK
<1>3. CommitPeers[k] \in Peer
  BY TxBuilderAssumption
<1>4. /\ i \in 1..Len(chain') /\ chain'[i] = chain[i]
      /\ i <= height'[CommitPeers[k]]
  BY <1>1, <1>2, <1>3 DEF LedgerGrows
<1> QED
  BY <1>1, <1>4 DEF OnLedger, IsOurs

\* A step that leaves chain and ledgers alone.
LEMMA LedgerSame ==
    ASSUME TypeInv, UNCHANGED <<chain, height>>
    PROVE  LedgerGrows
<1>1. Len(chain) \in Nat /\ height \in [Peer -> Nat]
  BY DEF TypeInv, TypeOK, FabricTypeOK
<1> QED
  BY <1>1 DEF LedgerGrows

LEMMA AddKeepsWait ==
    ASSUME TypeInv, WaitsLast, NEW c \in Chains, AddChain(c)
    PROVE  operations' # <<>> /\ EndsInWait(operations')
<1> DEFINE m == Len(operations)
           n == Len(c)
           new == NewOps(c)
<1>1. operations' = operations \o new
  BY DEF AddChain, AddOperations, NewOps
<1>2. operations \in Seq(Operation) /\ new \in Seq(Operation)
  BY NewOpsTyped DEF TypeInv, TypeOK
<1>3. m \in Nat /\ n \in Nat /\ n >= 1 /\ Len(new) = n
  BY NewOpsTyped DEF TypeInv, TypeOK
<1>4. new[n].kind = "wait" /\ new[n].raise
  <2>1. new[n].kind = c[n].kind /\ new[n].raise = c[n].raise
    BY <1>3, NewOpsTyped
  <2>2. c # <<>>
    BY TxBuilderAssumption
  <2> QED
    BY <2>1, <2>2 DEF WaitsLast, EndsInWait
<1> HIDE DEF new
<1>5. Len(operations') = m + n /\ operations'[m + n] = new[n]
  <2>1. \A b \in Seq(Operation) :
           /\ Len(operations \o b) = Len(operations) + Len(b)
           /\ \A k \in 1..Len(b) : (operations \o b)[Len(operations) + k] = b[k]
    BY <1>2, ConcatAt
  <2>2. /\ Len(operations \o new) = m + Len(new)
        /\ \A k \in 1..Len(new) : (operations \o new)[m + k] = new[k]
    BY <1>2, <2>1
  <2>3. n \in 1..Len(new)
    BY <1>3
  <2> HIDE DEF m, n
  <2> QED
    BY <1>1, <1>3, <2>2, <2>3
<1> QED
  BY <1>3, <1>4, <1>5 DEF EndsInWait

LEMMA EffectNext ==
    ASSUME WaitsLast, EffectInv, [Next]_vars
    PROVE  EffectInv'
<1>0. /\ RunInv /\ TypeInv /\ ListInv /\ EndsInWait(operations)
      /\ task \in [Tasks -> Frame]
  BY DEF EffectInv, RunInv, TypeInv, TypeOK
<1>r. RunInv' /\ TypeInv'
  BY <1>0, RunNext DEF RunInv
<1>s. LedgerGrows /\ OnLedger("VALID") => OnLedger("VALID")'
  BY <1>0, <1>r, OnLedgerStays
<1>1. CASE QuietStep
  <2>1. OnLedger("VALID") => OnLedger("VALID")'
    BY <1>s, <1>1 DEF QuietStep, LedgerGrows
  <2> QED
    BY <1>r, <1>1, <2>1 DEF EffectInv, QuietStep, builderVars
<1>2. ASSUME NEW c \in Chains, AddChain(c) PROVE EffectInv'
  <2>1. UNCHANGED <<task, chain, height>>
    BY <1>2 DEF AddChain, fabricVars
  <2>2. OnLedger("VALID") => OnLedger("VALID")'
    BY <1>0, <1>s, <2>1, LedgerSame
  <2>3. operations' # <<>> /\ EndsInWait(operations')
    BY <1>0, <1>2, AddKeepsWait
  <2>4. \A t \in Tasks : LeftBehind(task[t], operations', generation')
                            => LeftBehind(task[t], operations, generation)
    BY <1>2, <2>3 DEF AddChain, AddOperations, LeftBehind
  <2> QED
    BY <1>r, <2>1, <2>2, <2>3, <2>4 DEF EffectInv
<1>3. ASSUME NEW t \in Tasks, NEW g \in Frame, Moved(t, g),
             UNCHANGED <<operations, generation, chain, height>>,
             g.outcome # "returned",
             LeftBehind(g, operations, generation) => OnLedger("VALID")
      PROVE  EffectInv'
  <2>1. \A u \in Tasks : task'[u] = IF u = t THEN g ELSE task[u]
    BY <1>0, <1>3 DEF Moved
  <2>2. OnLedger("VALID") => OnLedger("VALID")'
    BY <1>0, <1>s, <1>3, LedgerSame
  <2>3. \A u \in Tasks : LeftBehind(task'[u], operations', generation')
                             => OnLedger("VALID")'
    BY <1>3, <2>1, <2>2 DEF EffectInv
  <2>4. \A u \in Tasks : task'[u].outcome = "returned" => OnLedger("VALID")'
    BY <1>3, <2>1, <2>2 DEF EffectInv
  <2> QED
    BY <1>0, <1>r, <1>3, <2>3, <2>4 DEF EffectInv
<1>4. ASSUME NEW t \in Tasks, StayStep(t) PROVE EffectInv'
  <2>1. PICK g \in Frame :
           /\ Moved(t, g) /\ g.outcome # "returned"
           /\ g.pc # "idle" => g.pc = task[t].pc /\ g.list = task[t].list
    BY <1>4 DEF StayStep
  <2>2. LeftBehind(g, operations, generation) => OnLedger("VALID")
    BY <2>1 DEF LeftBehind, EffectInv
  <2> QED
    BY <1>3, <1>4, <2>1, <2>2 DEF StayStep
<1>5. ASSUME NEW t \in Tasks, NEW n \in 1..Len(operations),
             NEW e \in EndorsedTX \cup {<<>>}, StartsAt(t, n, e),
             UNCHANGED <<operations, generation, chain, height>>
      PROVE  EffectInv'
  <2>1. PICK g \in Frame : Moved(t, g) /\ (g = Ended("value_error") \/ Runs(g, n))
    BY <1>5 DEF StartsAt
  <2>2. operations # <<>>
    BY <1>5
  <2>3. g.outcome # "returned" /\ ~LeftBehind(g, operations, generation)
    BY <2>1, <2>2 DEF Runs, Ended, LeftBehind
  <2> QED
    BY <1>3, <1>5, <2>1, <2>3
<1>6. ASSUME NEW t \in Tasks, BeginStep(t) PROVE EffectInv'
  <2>1. 1 \in 1..Len(operations) /\ endorsed_tx \in EndorsedTX \cup {<<>>}
    BY <1>0, <1>6 DEF BeginStep, TypeInv, TypeOK
  <2> QED
    BY <1>5, <1>6, <2>1 DEF BeginStep, builderVars
<1>7. ASSUME NEW t \in Tasks, NEW e \in EndorsedTX \cup {<<>>}, ProceedStep(t, e)
      PROVE  EffectInv'
  <2>1. CASE GoesOn(t, e)
    BY <1>5, <1>7, <2>1 DEF GoesOn, ProceedStep
  <2>2. CASE Finishes(t)
    <3>1. OnLedger("VALID")
      <4>1. CASE LeftBehind(task[t], operations, generation)
        BY <4>1 DEF EffectInv
      <4>2. CASE ~LeftBehind(task[t], operations, generation)
        <5>1. task[t].list = generation /\ operations # <<>>
          BY <1>7, <4>2 DEF LeftBehind, ProceedStep
        <5>2. /\ task[t].pos \in 1..Len(operations)
              /\ task[t].op = operations[task[t].pos]
              /\ task[t].pc = task[t].op.kind
          BY <1>0, <1>7, <5>1 DEF ListInv, InList, ProceedStep
        <5>3. task[t].pos = Len(operations)
          BY <1>0, <2>2, <5>1, <5>2 DEF Finishes, TypeInv, TypeOK
        <5>4. task[t].op.kind = "wait" /\ task[t].op.raise
          BY <1>0, <5>1, <5>2, <5>3 DEF EndsInWait
        <5> QED
          BY <1>7, <5>2, <5>4 DEF ProceedStep
      <4> QED
        BY <4>1, <4>2
    <3>2. OnLedger("VALID")'
      BY <1>0, <1>s, <1>7, <3>1, LedgerSame DEF ProceedStep
    <3>3. EndsInWait(operations')
      BY <2>2 DEF Finishes, EndsInWait
    <3> QED
      BY <1>r, <3>2, <3>3 DEF EffectInv
  <2> QED
    BY <1>7, <2>1, <2>2 DEF ProceedStep
<1> QED
  BY <1>0, <1>1, <1>2, <1>4, <1>6, <1>7, StepCases

LEMMA EffectCorrect == WaitsLast => (Spec => []EffectInv)
<1> SUFFICES ASSUME WaitsLast PROVE Spec => []EffectInv
  OBVIOUS
<1>1. Init => EffectInv
  <2> SUFFICES ASSUME Init PROVE EffectInv
    OBVIOUS
  <2>1. RunInv /\ operations = <<>>
    BY RunInit DEF Init
  <2>2. \A t \in Tasks : task[t].pc = "idle" /\ task[t].outcome = "none"
    BY DEF Init, Ended
  <2> QED
    BY <2>1, <2>2 DEF EffectInv, EndsInWait, LeftBehind
<1>2. EffectInv /\ [Next]_vars => EffectInv'
  BY EffectNext
<1> QED
  BY <1>1, <1>2, PTL DEF Spec

\* If every method chain ends in a wait_for_commit that raises, as the one of
\* Gateway.invoke does, awaiting the builder returns only if the transaction
\* took effect on the channel: also in a task whose list another task cleared,
\* or replaced, before it came to its own submit or wait.
THEOREM InvokeEffective == WaitsLast => (Spec => []InvokeTookEffect)
<1> SUFFICES ASSUME WaitsLast PROVE Spec => []InvokeTookEffect
  OBVIOUS
<1>1. OnLedger("VALID") => TakenEffect
  BY DEF OnLedger, TakenEffect, IsValidAt
<1>2. EffectInv => InvokeTookEffect
  BY <1>1 DEF EffectInv, InvokeTookEffect
<1> QED
  BY <1>2, EffectCorrect, PTL

\* A wait that asks the first endorsing peer only, as those of the functions
\* in operations do.
WaitsOnFirst == \A k \in 1..Len(CommitPeers) : CommitPeers[k] = EndorsingPeers[1]

\* If moreover only the first endorsing peer is asked, the transaction is valid
\* on its ledger when invoke or instantiate_chaincode returns: any number of
\* tasks and of awaits leave it so.
THEOREM InvokeEffectiveOnFirst ==
    WaitsLast /\ WaitsOnFirst => (Spec => []ReturnedValidOnFirst)
<1> SUFFICES ASSUME WaitsLast, WaitsOnFirst PROVE Spec => []ReturnedValidOnFirst
  OBVIOUS
<1>1. OnLedger("VALID") => ValidOn(EndorsingPeers[1])
  BY DEF OnLedger, ValidOn, IsValidAt, WaitsOnFirst
<1>2. EffectInv => ReturnedValidOnFirst
  BY <1>1 DEF EffectInv, ReturnedValidOnFirst
<1> QED
  BY <1>2, EffectCorrect, PTL
=============================================================================
