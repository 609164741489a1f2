------------------------------ MODULE TxBuilder ------------------------------
(***************************************************************************)
(* The life of one transaction in the client: GatewayTXBuilder with the    *)
(* calls its operations make, down to each RPC (transact.propose_tx and    *)
(* commit_tx, connect.broadcast_to_orderers, the filtered event stream of  *)
(* PeerFilteredEvents).                                                    *)
(*                                                                         *)
(* A builder is a list of pending operations, filled by method chains such *)
(* as tx.propose().submit(), and run by awaiting the builder.  Awaiting it *)
(* is what an asyncio task does, and nothing keeps two tasks from awaiting *)
(* one builder or keeps the caller from adding operations meanwhile.  A    *)
(* step of the model is what a task does between two suspensions: from the *)
(* answer to one RPC up to the next RPC it issues.                         *)
(*                                                                         *)
(* operations.invoke and operations.instantiate_chaincode do the same      *)
(* steps without a builder: one await of the chain propose, submit, wait   *)
(* with CommitPeers the first endorsing peer only.                         *)
(***************************************************************************)
EXTENDS Fabric

CONSTANTS
    Tasks,           \* the asyncio tasks that may await the builder
    EndorsingPeers,  \* gateway.endorsing_peers, a sequence of peers
    CommitPeers,     \* the peers a wait tries, in order: the same, or the first
    NumOrderers,     \* the length of gateway.orderers
    Chains,          \* the method chains the caller may add
    MaxOps,          \* bound on the operations ever added
    MaxAwaits        \* bound on the times the builder is awaited

\* The builder's methods, with their raise_errors argument (submit has none).
Call == [kind : {"propose", "submit", "wait"}, raise : BOOLEAN]

Propose(raise) == [kind |-> "propose", raise |-> raise]
Submit == [kind |-> "submit", raise |-> TRUE]
WaitForCommit(raise) == [kind |-> "wait", raise |-> raise]

\* The chains of the library's own callers, each awaited once: Gateway.invoke
\* and query, and the functions of operations that do the same step by step.
GatewayInvoke == <<Propose(TRUE), Submit, WaitForCommit(TRUE)>>
GatewayQuery == <<Propose(TRUE)>>
CommitTxAndWait == <<Submit, WaitForCommit(TRUE)>>
Invoke == <<Propose(TRUE)>> \o CommitTxAndWait
InstantiateChaincode == <<Propose(TRUE)>> \o CommitTxAndWait
Query == <<Propose(TRUE)>>
QueryInstantiatedChaincodes == <<Propose(TRUE)>>

\* Gateway.transact refuses a gateway without endorsing peers, so a builder
\* has some; it does not look at the orderers.  A builder waits for the
\* gateway's endorsing peers, operations.invoke for the first of its peers.
ASSUME TxBuilderAssumption ==
    /\ EndorsingPeers \in Seq(Peer) /\ EndorsingPeers # <<>>
    /\ CommitPeers \in {EndorsingPeers, <<EndorsingPeers[1]>>}
    /\ NumOrderers \in Nat
    /\ Chains \subseteq Seq(Call) /\ <<>> \notin Chains
    /\ MaxOps \in Nat /\ MaxAwaits \in Nat

VARIABLES
    operations,   \* self._operations (None and [] are both <<>>)
    generation,   \* which list object self._operations is
    endorsed_tx,  \* self._endorsed_tx: the peers' responses, <<>> for None
    committed,    \* self._committed
    filtered_tx,  \* the validation code in self._filtered_tx, or "none"
    task,         \* what each task is suspended in, and how it last ended
    added,        \* how many operations were ever added
    executed,     \* the operations that ran to their end at least once
    awaits        \* how many times the builder was awaited

builderVars == <<operations, generation, endorsed_tx, committed, filtered_tx>>
history == <<added, executed, awaits>>
vars == <<fabricVars, builderVars, task, history>>

Operation == [id : Nat, kind : {"propose", "submit", "wait"}, raise : BOOLEAN]

NoOperation == [id |-> 0, kind |-> "propose", raise |-> FALSE]

EndorsedTX == [1..Len(EndorsingPeers) -> Response]

Outcome == {"none", "returned", "never_proposed", "value_error",
            "proposal_error", "connection_error", "commit_error",
            "retrieval_error", "validation_error", "runtime_error",
            "timeout", "cancelled"}

\* A task's coroutine: the operation it is suspended in and that operation's
\* place in the list object the for statement iterates over; the orderer or
\* peer it is at; its Broadcast RPC; the next block of its stream (0 before
\* the stream is open).
Frame ==
    [pc : {"idle", "propose", "submit", "wait"}, op : Operation, list : Nat,
     pos : Nat, tgt : Nat, rpc : Nat, cursor : Nat, outcome : Outcome]

Ended(o) ==
    [pc |-> "idle", op |-> NoOperation, list |-> 0, pos |-> 0, tgt |-> 0,
     rpc |-> 0, cursor |-> 0, outcome |-> o]

-----------------------------------------------------------------------------

\* Mutant: any() for all().
PartlyEndorsed(e) == \E i \in DOMAIN e : e[i].status = 200

FullyEndorsed(e) == \A i \in DOMAIN e : e[i].status = 200

\* The payload of the first successful response.
ResponsePayload(e) ==
    e[CHOOSE i \in DOMAIN e :
        e[i].status = 200 /\ \A j \in 1..(i - 1) : e[j].status # 200].payload

\* Mutants: the response for its payload; the payload of the last response.
BuildEnvelopeRaw(e) == [payload |-> e[1], endorsements |-> e]
BuildEnvelopeLast(e) == [payload |-> e[Len(e)].payload, endorsements |-> e]

\* One payload, that of the first response, and everybody's endorsements.
BuildEnvelope(e) == [payload |-> e[1].payload, endorsements |-> e]

\* Mutant: every method chain starts a list of its own.
AddOperationsAnew(c) ==
    /\ operations' = [i \in 1..Len(c) |-> [id |-> added + i, kind |-> c[i].kind,
                                           raise |-> c[i].raise]]
    /\ generation' = generation + 1

\* Python list append if the list holds something, else a new list object.
\* No task runs during a method chain: its operations are added in one step.
AddOperations(c) ==
    /\ operations' = operations \o
          [i \in 1..Len(c) |-> [id |-> added + i, kind |-> c[i].kind,
                                raise |-> c[i].raise]]
    /\ generation' = IF operations = <<>> THEN generation + 1 ELSE generation

AddChain(c) ==
    /\ added + Len(c) <= MaxOps
    /\ AddOperations(c)
    /\ added' = added + Len(c)
    /\ UNCHANGED <<fabricVars, endorsed_tx, committed, filtered_tx, task,
                   executed, awaits>>

\* The coroutine of task t ends with a result or an exception.
End(t, outcome) == task' = [task EXCEPT ![t] = Ended(outcome)]

\* Task t, its coroutine as in frame, sends env to orderer frame.tgt.
Broadcast(t, frame, env) ==
    /\ sent' = Append(sent, [env |-> env, state |-> "sent"])
    /\ task' = [task EXCEPT ![t] = [frame EXCEPT !.rpc = Len(sent) + 1]]

\* Task t runs operation n of the list up to its first suspension, or to the
\* ValueError of an operation called out of order.  endorsed and submitted
\* are self._endorsed_tx and self._committed at that moment.
StartOperation(t, n, endorsed, submitted) ==
    LET op == operations[n]
        frame == [pc |-> op.kind, op |-> op, list |-> generation, pos |-> n,
                  tgt |-> 1, rpc |-> 0, cursor |-> 0, outcome |-> "none"]
        ready == CASE op.kind = "propose" -> TRUE
                   [] op.kind = "submit"  -> endorsed # <<>> /\ NumOrderers > 0
                   [] op.kind = "wait"    -> submitted
    IN  \/ /\ ~ready
           /\ End(t, "value_error")
           /\ UNCHANGED sent
        \/ /\ ready /\ op.kind = "submit"
           /\ Broadcast(t, frame, BuildEnvelope(endorsed))
        \/ /\ ready /\ op.kind # "submit"
           /\ task' = [task EXCEPT ![t] = frame]
           /\ UNCHANGED sent

\* Mutant: the list is not cleared.
ProceedKeeps(t, endorsed, submitted) ==
    LET f == task[t]
        more == f.list = generation /\ f.pos < Len(operations)
    IN  /\ executed' = executed \cup {f.op.id}
        /\ \/ more /\ StartOperation(t, f.pos + 1, endorsed, submitted)
           \/ /\ ~more
              /\ End(t, IF endorsed # <<>> THEN "returned" ELSE "never_proposed")
              /\ UNCHANGED sent
        /\ UNCHANGED operations

\* An operation of task t returned: the for statement takes the next one from
\* the list it iterates over, which other tasks may have cleared or replaced;
\* when there is none, the list that is self._operations now is cleared.
Proceed(t, endorsed, submitted) ==
    LET f == task[t]
        more == f.list = generation /\ f.pos < Len(operations)
    IN  /\ executed' = executed \cup {f.op.id}
        /\ \/ /\ more
              /\ StartOperation(t, f.pos + 1, endorsed, submitted)
              /\ UNCHANGED operations
           \/ /\ ~more
              /\ operations' = <<>>
              /\ End(t, IF endorsed # <<>> THEN "returned" ELSE "never_proposed")
              /\ UNCHANGED sent

\* An exception leaves the list as it is: awaiting again runs it all again.
Raise(t, outcome) ==
    /\ End(t, outcome)
    /\ UNCHANGED <<sent, operations, executed>>

-----------------------------------------------------------------------------

Await(t) ==
    /\ task[t].pc = "idle"
    /\ awaits < MaxAwaits
    /\ awaits' = awaits + 1
    /\ \/ operations = <<>> /\ End(t, "never_proposed") /\ UNCHANGED sent
       \/ operations # <<>> /\ StartOperation(t, 1, endorsed_tx, committed)
    /\ UNCHANGED <<chain, height, builderVars, added, executed>>

\* All the peers have answered, in whatever order.
ProposeDone(t) ==
    /\ task[t].pc = "propose"
    /\ \E responses \in EndorsedTX :
          /\ endorsed_tx' = responses
          /\ IF task[t].op.raise /\ ~FullyEndorsed(responses)
             THEN Raise(t, "proposal_error")
             ELSE Proceed(t, responses, committed)
    /\ UNCHANGED <<chain, height, generation, committed, filtered_tx, added,
                   awaits>>

\* The first RPC of the gather that fails fails them all.
ProposeConnError(t) ==
    /\ task[t].pc = "propose"
    /\ Raise(t, "connection_error")
    /\ UNCHANGED <<chain, height, generation, endorsed_tx, committed,
                   filtered_tx, added, awaits>>

Submitted(t) ==
    /\ committed' = TRUE
    /\ Proceed(t, endorsed_tx, TRUE)
    /\ UNCHANGED <<chain, height, generation, endorsed_tx, filtered_tx, added,
                   awaits>>

BroadcastOk(t) ==
    /\ task[t].pc = "submit"
    /\ sent[task[t].rpc].state = "accepted"
    /\ Submitted(t)

\* The stream of responses ends without one: broadcast_to_orderer returns
\* None, and its caller takes that for a response.
BroadcastClosed(t) ==
    /\ task[t].pc = "submit"
    /\ Submitted(t)

\* A status other than 200 is not a connection error: no other orderer is tried.
BroadcastRejected(t) ==
    /\ task[t].pc = "submit"
    /\ sent[task[t].rpc].state = "refused"
    /\ Raise(t, "commit_error")
    /\ UNCHANGED <<chain, height, generation, endorsed_tx, committed,
                   filtered_tx, added, awaits>>

\* The connection fails, before or after the orderer took the envelope in.
BroadcastConnError(t) ==
    LET f == task[t]
    IN  /\ f.pc = "submit"
        /\ \/ /\ f.tgt < NumOrderers
              /\ Broadcast(t, [f EXCEPT !.tgt = @ + 1], sent[f.rpc].env)
              /\ UNCHANGED <<operations, executed>>
           \/ /\ f.tgt >= NumOrderers
              /\ Raise(t, "connection_error")
        /\ UNCHANGED <<chain, height, generation, endorsed_tx, committed,
                       filtered_tx, added, awaits>>

-----------------------------------------------------------------------------

\* The peer takes the SeekInfo (start: newest) and begins with its last block.
OpenStream(t) ==
    /\ task[t].pc = "wait"
    /\ task[t].cursor = 0
    /\ task' = [task EXCEPT ![t].cursor = height[CommitPeers[task[t].tgt]]]
    /\ UNCHANGED <<fabricVars, builderVars, history>>

\* Mutants: a transaction in a block is taken for a valid one; a duplicate is
\* taken for a success.
CheckPresence(t, code) ==
    /\ filtered_tx' = "VALID"
    /\ Proceed(t, endorsed_tx, committed)

CheckNotInvalid(t, code) ==
    \/ /\ task[t].op.raise /\ code = "INVALID"
       /\ Raise(t, "validation_error")
       /\ UNCHANGED filtered_tx
    \/ /\ ~task[t].op.raise \/ code # "INVALID"
       /\ filtered_tx' = code
       /\ Proceed(t, endorsed_tx, committed)

\* What a wait makes of the validation code it found for its transaction.
CheckTransaction(t, code) ==
    \/ /\ task[t].op.raise /\ code # "VALID"
       /\ Raise(t, "validation_error")
       /\ UNCHANGED filtered_tx
    \/ /\ ~task[t].op.raise \/ code = "VALID"
       /\ filtered_tx' = code
       /\ Proceed(t, endorsed_tx, committed)

\* Mutant: the first transaction of the stream is taken for ours.
MatchesAny(i) == TRUE

\* get_transaction compares the tx_id.
Matches(i) == IsOurs(i)

\* The next block of the stream arrives.
ReadBlock(t) ==
    LET f == task[t]
    IN  /\ f.pc = "wait"
        /\ f.cursor # 0
        /\ f.cursor <= height[CommitPeers[f.tgt]]
        /\ \/ /\ ~Matches(f.cursor)
              /\ task' = [task EXCEPT ![t].cursor = @ + 1]
              /\ UNCHANGED <<sent, operations, filtered_tx, executed>>
           \/ /\ Matches(f.cursor)
              /\ CheckTransaction(t, chain[f.cursor].code)
        /\ UNCHANGED <<chain, height, generation, endorsed_tx, committed,
                       added, awaits>>

\* The RPC fails, or a status comes instead of a block: the next peer is
\* tried, with a new stream and a new timer; the last error is raised.
StreamError(t) ==
    LET f == task[t]
    IN  /\ f.pc = "wait"
        /\ \/ /\ f.tgt < Len(CommitPeers)
              /\ task' = [task EXCEPT ![t].tgt = @ + 1, ![t].cursor = 0]
              /\ UNCHANGED <<sent, operations, executed>>
           \/ /\ f.tgt >= Len(CommitPeers)
              /\ \E e \in {"connection_error", "retrieval_error"} : Raise(t, e)
        /\ UNCHANGED <<chain, height, generation, endorsed_tx, committed,
                       filtered_tx, added, awaits>>

\* The peer ends the stream without an error, or the time is up: neither is
\* among the exceptions that lead to the next peer.
GiveUp(t, outcome) ==
    /\ task[t].pc = "wait"
    /\ Raise(t, outcome)
    /\ UNCHANGED <<chain, height, generation, endorsed_tx, committed,
                   filtered_tx, added, awaits>>

StreamEnd(t) == task[t].cursor # 0 /\ GiveUp(t, "runtime_error")

\* Mutant: a timeout opens the stream again.
WaitTimeoutRetry(t) ==
    /\ task[t].pc = "wait"
    /\ task' = [task EXCEPT ![t].cursor = 0]
    /\ UNCHANGED <<fabricVars, builderVars, history>>

WaitTimeout(t) == GiveUp(t, "timeout")

\* The caller cancels the task, or a deadline of its own does.
Cancel(t) ==
    /\ task[t].pc # "idle"
    /\ Raise(t, "cancelled")
    /\ UNCHANGED <<chain, height, generation, endorsed_tx, committed,
                   filtered_tx, added, awaits>>

-----------------------------------------------------------------------------

\* __init__ of GatewayTXBuilder.
Init ==
    /\ FabricInit
    /\ operations = <<>>
    /\ generation = 0
    /\ endorsed_tx = <<>>
    /\ committed = FALSE
    /\ filtered_tx = "none"
    /\ task = [t \in Tasks |-> Ended("none")]
    /\ added = 0
    /\ executed = {}
    /\ awaits = 0

Environment ==
    /\ \/ \E n \in 1..Len(sent) : OrdererReplies(n) \/ OrderOurs(n)
       \/ OrderOther
       \/ \E p \in Peer : CommitBlock(p)
    /\ UNCHANGED <<builderVars, task, history>>

Respond(t) == ProposeDone(t) \/ ProposeConnError(t)

Reply(t) ==
    \/ BroadcastOk(t)
    \/ BroadcastClosed(t)
    \/ BroadcastRejected(t)
    \/ BroadcastConnError(t)

Stream(t) ==
    \/ OpenStream(t)
    \/ ReadBlock(t)
    \/ StreamError(t)
    \/ StreamEnd(t)
    \/ WaitTimeout(t)

Next ==
    \/ Environment
    \/ \E c \in Chains : AddChain(c)
    \/ \E t \in Tasks :
          Await(t) \/ Respond(t) \/ Reply(t) \/ Stream(t) \/ Cancel(t)

Spec == Init /\ [][Next]_vars

\* A unary RPC and a Broadcast complete or fail; asyncio fires the timer of a
\* wait.  Nothing is assumed of the peers' block streams, of the ordering
\* service or of the caller.
Fairness ==
    \A t \in Tasks :
        WF_vars(Respond(t)) /\ WF_vars(Reply(t)) /\ WF_vars(WaitTimeout(t))

FairSpec == Spec /\ Fairness

-----------------------------------------------------------------------------

\* The types of the builder's attributes, the tasks and the channel.
TypeOK ==
    /\ FabricTypeOK
    /\ operations \in Seq(Operation)
    /\ generation \in Nat
    /\ endorsed_tx \in EndorsedTX \cup {<<>>}
    /\ committed \in BOOLEAN
    /\ filtered_tx \in ValidationCode \cup {"none"}
    /\ task \in [Tasks -> Frame]
    /\ added \in Nat /\ awaits \in Nat
    /\ executed \subseteq Nat

\* An operation handed to the builder is never dropped (_add_operation against
\* the clear() that ends _run_operations): with one task awaiting it at a time,
\* each one has run to its end or is still in the list, and they run in the
\* order they were added in, also when the caller adds to the list while it is
\* being run, and after exceptions and cancellations.
NoOpLost ==
    /\ \A n \in 1..added :
          n \in executed \/ \E k \in 1..Len(operations) : operations[k].id = n
    /\ \A n \in executed : 1..n \subseteq executed

\* A builder that is awaited again runs again only what an await that failed
\* has left in its list (clear() at the end of _run_operations): unless a task
\* is in the builder, or the last await of one failed, no operation that has run
\* is in the list, so that nothing is proposed or sent a second time.
RunsOnce ==
    (\A t \in Tasks :
        task[t].pc = "idle" /\ task[t].outcome \in {"none", "returned", "never_proposed"})
    => \A k \in 1..Len(operations) : operations[k].id \notin executed

\* A caller that proposes with raise_errors before it submits never sends the
\* orderers an envelope that some peer refused to endorse, whatever other
\* tasks do to self._endorsed_tx meanwhile (raise_tx_proposal_error).
SentFullyEndorsed ==
    \A n \in 1..Len(sent) :
        LET e == sent[n].env.endorsements IN \A i \in 1..Len(e) : e[i].status = 200

\* The FilteredTX a builder holds is one that one of the peers it waits for
\* has on its ledger, with that validation code (get_transaction,
\* check_transaction).
ReportedOnLedger ==
    filtered_tx # "none" =>
        \E k \in 1..Len(CommitPeers), i \in 1..Len(chain) :
            /\ i <= height[CommitPeers[k]]
            /\ IsOurs(i)
            /\ chain[i].code = filtered_tx

\* When every chain ends in a wait that raises, as Gateway.invoke's does, an
\* await of the builder returns only if the transaction took effect: also for
\* a task whose list was cleared by another task before it came to submit.
InvokeTookEffect ==
    \A t \in Tasks : task[t].outcome = "returned" => TakenEffect

\* operations.invoke, which awaits once: it returns only if the transaction
\* is valid on the ledger of the first peer in the list.
ReturnedValidOnFirst ==
    \A t \in Tasks :
        task[t].outcome = "returned" => ValidOn(EndorsingPeers[1])

\* The response payload a builder that is awaited once hands to its caller is
\* the one the channel committed, even when the endorsing peers disagree
\* (response_payload against build_endorsed_tx_envelope).
PayloadCommitted ==
    filtered_tx = "VALID" =>
        \E i \in 1..Len(chain) :
            /\ IsValidAt(i)
            /\ sent[chain[i].rpc].env.payload = ResponsePayload(endorsed_tx)

\* Awaiting a builder always comes to an end: the orderers and the peers are
\* tried a bounded number of times, and a wait that hears nothing times out.
AwaitTerminates ==
    \A t \in Tasks : task[t].pc # "idle" ~> task[t].pc = "idle"

-----------------------------------------------------------------------------

\* The abstract life of the transaction, and what it is here: the payloads
\* that were sent, what the channel made of the transaction, and what the
\* builder reports.
Fate ==
    IF \E i \in 1..Len(chain) : IsOurs(i)
    THEN LET i == CHOOSE i \in 1..Len(chain) :
                     IsOurs(i) /\ \A j \in 1..(i - 1) : ~IsOurs(j)
         IN  [state |-> IF chain[i].code = "VALID" THEN "valid" ELSE "invalid",
              payload |-> sent[chain[i].rpc].env.payload]
    ELSE [state |-> "undecided", payload |-> NoPayload]

Lifecycle ==
    INSTANCE TxLifecycle WITH
        offered <- {sent[n].env.payload : n \in 1..Len(sent)},
        fate    <- Fate,
        report  <- IF filtered_tx = "DUPLICATE_TXID" THEN "INVALID"
                   ELSE filtered_tx

\* The builder and the channel implement the abstract life of a transaction.
LifecycleSpec == Lifecycle!Spec

-----------------------------------------------------------------------------

\* What the repository says and the code does not do.
\* wait_for_commit "Waits for the transaction to be committed to the peers": a
\* wait has not left behind it the block that holds the transaction.
WaitMissesNothing ==
    \A t \in Tasks :
        task[t].pc = "wait" =>
            \A i \in 1..Len(chain) : i < task[t].cursor => ~IsOurs(i)
=============================================================================
