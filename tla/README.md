# snakeskin-fabric: specifications, model checking, proofs

snakeskin is an asyncio client for Hyperledger Fabric.  This directory holds
TLA+ specifications of the client and of the part of a Fabric network it can
observe, TLC configurations for small instances, and TLAPS proofs for
instances of any size.  Source references are relative to the repository
(`snakeskin/...`).

## 1. The system

### Components

| component | state | operations |
|---|---|---|
| `GatewayTXBuilder` (`models/gateway.py`) | the list of pending operations, `_endorsed_tx`, `_committed`, `_filtered_tx` | `propose`, `submit`, `wait_for_commit` add to the list; awaiting the builder runs it |
| `Gateway` (`models/gateway.py`) | none after construction | `invoke`, `query`, `transact`, `create_channel`, `join_channel`, `install_chaincode`, `instantiate_chaincode`, `update_chaincode_version` |
| `operations` | local state of each call | the same without a gateway, and `package_chaincode`, `query_installed_chaincodes`, `query_instantiated_chaincodes` |
| `transact`, `connect` | RPCs under way | generating, proposing (one `gather` over the peers), committing (one orderer after the other) |
| `events` | an open Deliver stream | `stream_blocks`, `get_transaction`, `check_transaction` |
| `factories` | none | headers, proposals, envelopes, seek information, deployment specs, endorsement policies |
| `models/transaction.py`, `models/block.py`, `models/__init__.py` | value objects; the certificates, keys and gRPC channel of a node or user | `fully_endorsed`, `response_payload`, `all_roles`, `role_map`, `__post_init__` |
| `models/_decoded.py` | none | decoding the transactions and the metadata of a block |
| `config` | the peers, orderers, users and chaincodes of a network file | `from_file`, `get_gateway` |
| `crypto`, `_hfc` | none | signing with the low-S rule, hashing |
| `protos` | none | the descriptors of the protocol's messages, the stubs of its services |

The network outside the repository: endorsing peers answer proposals, orderers
answer Broadcast and cut blocks, peers commit blocks at their own pace and
deliver them.

### How the parts interact

A caller chains methods on a builder (`tx.propose().submit()`) and awaits it.
`_run_operations` iterates over the list; each operation suspends in RPCs.
Between two suspensions a task runs undisturbed, at a suspension any other
task may run: it may await the same builder, add operations to it, or cancel a
task.  The builder's attributes and its list are the shared state.  A submit
ends when an orderer answers, not when the block is cut; a wait opens an event
stream at a peer and looks for the transaction's id in it.

### What is hard, and what must hold

* **A list that changes while it is iterated over.** Adding to the list, the
  `clear()` at the end of a run and a second task that awaits the builder all
  meet in `_run_operations`.  Nothing may be dropped (`NoOpLost`), nothing
  unendorsed may be sent (`SentFullyEndorsed`), an await that returns must
  mean what it says (`InvokeTookEffect`), and one more await must not do again what
  was done (`RunsOnce`).
* **Ambiguous failures.** After a connection error the orderer may have taken
  the envelope in; the client sends it to the next one.  The transaction must
  still be decided once, and be reported only as it was decided
  (`LifecycleSpec`, `ReportedOnLedger`).
* **Peers that disagree.** One payload goes into the envelope and one is
  returned to the caller (`PayloadCommitted`).
* **Waiting.** Each peer has a new stream and a new timer; an await must end
  (`AwaitTerminates`), and a result must be one that the peer's ledger bears
  out (`ReturnedValidOnFirst`).
* **One step of several failing.** Joins go from peer to peer, installs to all
  at once, and `gather` leaves the RPCs of a call that failed running
  (`ReturnedMeansDone`, `JoinedInOrder`, `InstallConverges`).  A join right
  after the channel's creation may come too early (`JoinRecovers`).
* **Bytes that must fit together.** The envelope carries the proposal without
  its transient data, and the header the endorsers signed; a signature counts
  only with the lower of its two scalars (`WireAccepted`,
  `TransientOnlyToPeers`).  The indices of a policy's rule refer to a list
  computed elsewhere (`EnvelopeMeansPolicy`).
* **Zeros**, which are falsy in Python and absent from the wire: block 0, role
  0, validation code VALID, an empty argument (`RangeInOrder`, `GetEnds`,
  `ReceivedAsAsked`).
* **Blocks full of other clients' envelopes**, every one of which must decode
  for the client to find its own (`DecodesWhatWasSent`).
* **Objects that gateways share** (`GatewayAsAsked`), and a client certificate
  that is hashed in one place and presented in another (`CredentialsMatch`).

## 2. The modules

| module | models | state, actions |
|---|---|---|
| `Fabric` | the ordering service and the ledgers of one channel (external) | `sent`, `chain`, `height`; an orderer answers, a block is cut, a peer commits it |
| `TxBuilder` | `GatewayTXBuilder`, `transact`, `connect`, `PeerFilteredEvents.check_transaction`; extends `Fabric` | the builder's attributes under their own names and one frame per task; see below |
| `TxLifecycle` | what a caller may count on about one transaction (abstract) | `offered`, `fate`, `report` |
| `ChannelAdmin` | `create_channel`, `join_channel`, `install_chaincode` | which peers have joined and installed, what each task's call is doing, RPCs nobody listens to |
| `EventHub` | `_EventHub` and its subclasses, `build_seek_info` | one stream: the request, the range the node understood, the blocks received |
| `Protos` | the generated modules under `protos/`: message types, enums, services | definitions only |
| `Protobuf` | google.protobuf (external) as its users see it: constructors, defaults, presence, what it promises | definitions only; serialising and parsing are constants, and so is `Schema`, the descriptors in use |
| `Wire` | the wire format of google.protobuf (external): values for these constants | definitions only; the runs of `Policy` and `Messages` use it, with `Protos!MessageTypes` as `Schema` |
| `Crypto` | `sign`, `verify` and the low-S rule | definitions only |
| `Factories` | `factories`, and the arguments `transact` and `operations` pass to chaincode | definitions only; extends `Protobuf`, `Crypto` |
| `Decoded` | `models/_decoded.py`, `models/block.py`, `FilteredTX` | definitions only; extends `Protobuf` |
| `Receivers` | what peers and orderers check, endorse and deliver (external) | definitions only |
| `Messages` | the three above at work | contexts, generated transactions, the bytes on the wire, the block delivered last |
| `Policy` | `EndorsementPolicy`, `build_signature_policy_envelope`; extends `Protobuf` | a policy and the bytes made of it |
| `Config` | `config`, the models' `__post_init__`, `update_chaincode_version` | the file, the objects made of it, the gateways that refer to them |
| `MC*` | instances of the above for TLC | constants only; `MCWire` has samples of every message type, on which TLC evaluates what `Wire` promises |
| `TxBuilderSafetyProofs`, `TxBuilderLedgerProofs` | theorems about `TxBuilder`, the second extending the first | |
| `ChannelAdminProofs`, `EventHubProofs`, `ConfigProofs` | theorems about these modules | |
| `Recursion` | induction over trees, and the existence of recursive functions over them | |
| `PolicyProofs` | theorem about `Policy`, with three instances of `Recursion` | |
| `MessagesProofs` | theorems about `Crypto` and `Messages` | |

**TxBuilder.**  A step is what a task does between two suspensions.  A frame
records the operation a task is in, its place in the list (`list`, `pos`), the
orderer or peer it is at, its RPC and the next block of its stream.  A Python
list is its content, `operations`, with a number that says which list object it
is, `generation`: `_add_operation` appends to a list that holds something and
makes a new one otherwise, and a `for` over a list that was replaced or cleared
finds no further element.  `Await` is the start of `_run_operations`;
`StartOperation` runs an operation up to its first RPC, with the ValueErrors of
one called out of order; `Proceed` is what follows an operation that returned,
up to the next RPC or to the `clear()`.  `ProposeDone`, `ProposeConnError`,
the four `Broadcast...`, `OpenStream`, `ReadBlock`, `StreamError`, `StreamEnd`
and `WaitTimeout` are the answers to RPCs with all the code up to the next
suspension.  `Cancel` may end any await.  The chains the library itself builds
(`GatewayInvoke`, `Invoke`, `InstantiateChaincode`, `GatewayQuery`, ...) are
definitions of the module.  `CommitPeers`, the peers of a wait, are the endorsing
peers, as in a builder, or the first of them, as in `operations`.  A response has
one payload, which stands for the result a peer signs and for the response of the
chaincode.  Payloads, endorsements and validation codes are
members of small sets.

**ChannelAdmin.**  A call is for a list of peers, the one it is given or else the
gateway's (`Given`).  It keeps the loop counters of `join_channel` (the peer
`k`, the orderer `o`), whether a block was delivered and whether an orderer
could not be reached, and one RPC per peer.  Any orderer may answer with a
status, which ends the join.  A peer acts on an RPC and its
answer arrives in separate steps; if another RPC of the `gather` fails first,
the RPC moves to `late` and may still be acted on, or be lost.

**EventHub.**  A node resolves a `SeekInfo` when it gets to it, while its
ledger grows.

**Protos, Protobuf, Wire.**  A message type is a record of its fields, each
with number, type, label and oneof, as its descriptor has it.  Bytes are a
sequence of pieces, each a field number, a wire type and a content; the bytes
that no message is made of (a nonce, a certificate, a text, a hash) are one
piece that only equals itself.  `SerializeToString` leaves out what has its
default, except in a oneof; `FromString` finds a field by its number, and bytes
may be parsed as another type than they were made from.  So nothing is the
identity: what a receiver reads is what the numbers and defaults make of it.
The format is in `Wire`; the modules that use messages extend `Protobuf`, where
it is a parameter, so that their proofs rest on what the library promises its
users and not on how it keeps its promise.

**Factories, Decoded, Receivers, Messages.**  A user stands for its key and
certificate; the scalar that ECDSA comes up with is chosen for each signature.
A `str` has its kind of characters, since the encodings refuse some.  A PEM
file is its lines, of which `pem_to_der` takes some.  `Generate`
is the common end of all operations that propose; `ProposeTX` has every peer
parse and endorse the signed proposal, `CommitTX` sends the envelope made of
the answers.  `ReceiveBlock` builds a node's response with one of the client's
own envelopes in it, or one of any other type, serialises it, and runs
`stream_blocks` and the decoders on the bytes; `JoinChannel` takes an orderer's
block 0 up again.  `AcceptsEnvelope` checks a request for a stream as
`protos/orderer/ab.proto` and `protos/peer/events.proto` describe it, its type
included.  Each decoder has a predicate
beside it (`DecodesTX` for `DecodeTX`) that says whether it comes to an end
without an exception, layer by layer.

**Policy.**  A policy is a tree, the envelope a list of principals with a tree
of indices into it, serialised; a peer evaluates what it parses.  How it does
is a parameter, `Satisfied`, with the equation of one level, `Evaluates`.

**Config.**  A Python object is its place in `objects`, so that two gateways
that hold the same peer hold the same number (in some order of the keys: no
code depends on it).  `Named` builds an object and
builds it again with its name, as `replace` does, and each time `__post_init__`
reads the files that are still to be read and opens a gRPC channel.

## 3. The runs

Passing runs:

| run | instance | properties |
|---|---|---|
| `builder` | one task, two peers to wait for, every method on its own in any order, up to 3 operations, 2 awaits, fair | `TypeOK`; `NoOpLost`: operations run in order and none is dropped; `RunsOnce`: none is run again after an await that did not fail; `AwaitTerminates` |
| `invoke` | one await of `Gateway.invoke`, `operations.invoke` or a chain that submits what a peer has refused, two endorsers with two possible results, two orderers, waiting on the first peer, fair | `PayloadCommitted`, `ReturnedValidOnFirst`, `AwaitTerminates` and `LifecycleSpec` through the failover between orderers |
| `shared` | two tasks await one builder, the chain is added again meanwhile | `SentFullyEndorsed`, `InvokeTookEffect` |
| `lifecycle` | raising and non-raising chains, disagreeing endorsers, a second await that does it all again | `LifecycleSpec` (refinement of `TxLifecycle`), `ReportedOnLedger` |
| `admin` | the gateway's two peers or a list of the first only, two orderers, create, join and install in any order and again, fair | `TypeOK`, `ReturnedMeansDone`, `JoinedInOrder`, `InstallConverges`, `JoinRecovers` |
| `events` | every start, stop and behaviour over a channel of up to 4 blocks, fair | `RangeInOrder`, `GetEnds` |
| `messages` | two users, two endorsers, every operation, two transaction contexts, a certificate of two lines, blocks with every type of envelope | `WireAccepted`: peers accept every proposal, orderers every envelope for Broadcast; `ReceivedAsAsked`: what a receiver reads, in requests for streams too, is what the caller asked for; `TransientOnlyToPeers`; `DecodesWhatWasSent` |
| `policy` | all policies with two sub-policies, or of three levels, over three roles | `EnvelopeMeansPolicy`, for every set of signers |
| `config` | files with two peers, an orderer, a user and a chaincode, names and credentials given, in files or missing; up to three gateways | `GatewayAsAsked`, `CredentialsMatch` |

Each property has a mutant in `PROJECT.json`: a definition changed the way a
plausible bug would change it, under which TLC finds the property violated.

Runs that find a violation, of what the repository says of itself:

* `missed`.  The wait opens its stream, at the newest block, only after the
  orderer answered.  If the block and one more are committed first, the wait
  can only time out (`models/gateway.py:281`).
* `stream_stop`.  A stream with a `stop` ends in `BlockRetrievalError`, since
  the SUCCESS status after its last block is taken for a failure
  (`events.py:69`); the README shows a plain loop over such a stream.
* `seek_type`.  The envelope that opens a stream has `build_envelope`'s default
  type, that of an endorser transaction (`events.py:87`);
  `protos/orderer/ab.proto:79` and `protos/peer/events.proto:60` ask for
  `DELIVER_SEEK_INFO`.  Everything else that these files ask of it holds
  (`ReceivedAsAsked`), and the other modules have nodes that do not look at
  the type.

### Bounds, and why they are enough

Two peers or two orderers are the least for which "the next one", "the first
one" and "all of them" differ, and the loops treat every later element like the
second.  Two tasks are enough for one to clear or replace the list the other
iterates over, and three operations make a whole propose-submit-wait chain.
`MaxAwaits` 2 allows for a retry.  `MaxBlocks` 3 or 4 allows for the genesis block,
the transaction, and a duplicate or another client's block.  `admin` has calls
for the gateway's list and for a shorter one, so that a call for all the peers meets
one that has joined; a list with the second peer in front would make `JoinedInOrder`
true of any order.  `MaxCreates` 1 is enough, as a second creation is refused.  Two payloads let
endorsers disagree.  `MaxNonces` 2 has a stream opened and a transaction made,
or two of either, which is all that messages depend on: each has its own
context.  `Order` 3 gives one low and one high scalar.  In the samples of
`MCWire` up to two fields at a time are enough for a wrong number, type or oneof, each of which is about a field or
a pair; submessages are of the types checked on their own.  `MaxGateways` 3 allows
for a gateway, a copy with another version and a copy of either.  `MaxOps`,
`MaxAwaits`, `MaxBlocks`, `MaxCreates`, `MaxNonces` and `MaxGateways` are guards
in the modules.  `CHECK_DEADLOCK FALSE` everywhere: a
client that has no more to do stops.  Symmetry is used only in runs without
liveness.

### Fairness

* `TxBuilder`: weak fairness of the answers to a task's unary RPCs and
  Broadcast (each RPC completes or fails) and of the timer of a wait
  (`asyncio.wait_for` in `check_transaction`).  Nothing is assumed of block
  streams, of the ordering service, or of the caller; that is why the timeout
  carries `AwaitTerminates`.
* `ChannelAdmin`: RPCs complete or fail; the orderers publish the channel; a
  caller keeps calling `install_chaincode` for the gateway's peers (strong
  fairness, as the one task also makes other calls), and a peer that is asked again and again performs it
  at some time.  The last two are assumptions on the environment: the property
  says that the client's part (one proposal to all peers) does not stand in the
  way.  `JoinRecovers` also assumes a caller that keeps joining, and, as
  `ConnectionsHold` in the property itself, that from some time on connections
  hold and an orderer that has the first block delivers it: while one orderer of
  the list stays unreachable, every join fails (section 5).
* `EventHub`: the node takes the request and delivers blocks it has, and the
  channel goes on.

## 4. The proofs

| theorem | says |
|---|---|
| `TxBuilderSafetyProofs!TypeCorrect` | `Spec => []TypeOK` |
| `TxBuilderSafetyProofs!ListCorrect` | a suspended coroutine's operation is at its place of the list, unless that list was cleared or replaced |
| `TxBuilderSafetyProofs!SentWasFullyEndorsed` | `ProposesFirst => (Spec => []SentFullyEndorsed)` |
| `TxBuilderSafetyProofs!InvokeEffective` | `WaitsLast => (Spec => []InvokeTookEffect)` |
| `TxBuilderSafetyProofs!InvokeEffectiveOnFirst` | `WaitsLast /\ WaitsOnFirst => (Spec => []ReturnedValidOnFirst)` |
| `TxBuilderLedgerProofs!ReportedIsOnLedger` | `Spec => []ReportedOnLedger` |
| `TxBuilderLedgerProofs!LifecycleImplemented` | `Spec => LifecycleSpec`: the builder, the ordering service and the peers implement `TxLifecycle` |
| `TxBuilderLedgerProofs!NothingLost` | `Spec /\ []OneAtATime => []NoOpLost`; a corollary for builders of one task |
| `TxBuilderLedgerProofs!NothingTwice` | `Spec => []RunsOnce` |
| `TxBuilderLedgerProofs!CommittedPayload` | `OneCall => (Spec => []PayloadCommitted)` |
| `ChannelAdminProofs!TypeCorrect` | `Spec => []TypeOK` |
| `ChannelAdminProofs!ReturnedIsDone` | `Spec => []ReturnedMeansDone` |
| `ChannelAdminProofs!JoinedInTurn` | `Spec => []JoinedInOrder` |
| `EventHubProofs!StreamInOrder` | `Spec => []RangeInOrder` |
| `ConfigProofs!GatewaysAsAsked` | `Spec => []GatewayAsAsked` |
| `ConfigProofs!CredentialsAlwaysMatch` | `Spec => []CredentialsMatch` |
| `Recursion!Induction`, `Recursion!Existence` | what holds of a tree if it holds of those below it holds of all; a recursive function over trees exists and satisfies its equation |
| `PolicyProofs!EnvelopesMeanPolicies` | `Spec => []EnvelopeMeansPolicy`, from `Schema = MessageTypes`, `Promise` and `Evaluates` |
| `MessagesProofs!SignedVerifies` | `verify` accepts what `sign` returns, whatever scalar ECDSA came up with |
| `MessagesProofs!OneForm` | of a scalar and its negative the malleability check accepts exactly one |
| `MessagesProofs!RequestsAccepted` | `Spec => []WireAccepted` (proposals and envelopes for Broadcast), from `Schema = MessageTypes` and `Promise`; the next three as well |
| `MessagesProofs!RequestsAsAsked` | `Spec => []ReceivedAsAsked` |
| `MessagesProofs!TransientKept` | `Spec => []TransientOnlyToPeers` |
| `MessagesProofs!BlocksDecoded` | `Spec => []DecodesWhatWasSent` |

They hold for any number of tasks, peers, orderers and blocks, for any set of
chains, any configuration, any policies, calls and streams, from these
assumptions on the constants:

* `FabricAssumption`, `TxBuilderAssumption`, `AdminAssumption`: the gateway's
  list of peers is not empty (`Gateway` raises otherwise), a wait is for these
  peers or the first of them, bounds are natural numbers.
* `EventHubAssumption`: starts and stops are block numbers or `None`, and
  the stop that stands for "no end" is beyond all blocks.
* `ConfigAssumption`: the entries have the fields their dataclasses declare, of
  the types `dacite` checks; the files that are named can be read and are not empty
  (an empty certificate file would leave a user without a certificate).
* `CryptoAssumption`: the order of the curve is odd.
* `PolicyAssumption`: a policy is a finite tree (`Depth`) whose nodes have the
  fields `EndorsementPolicy` declares; `Key` is the order of the sort in
  `all_roles`, in which no two roles are equal.
* `MessagesAssumption`: arguments, positions and certificates have their types,
  a channel has a name, there is an endorsing peer, and the file given to
  `create_channel` holds an update of that channel.

Three hypotheses are about software outside the repository and are named in the
theorems that need them.  `Schema = MessageTypes`: the descriptors in use are the
generated ones.  `Promise`: a message whose fields have values of their types can
be serialised, the bytes can be parsed, and the same message comes back; an
empty one has no bytes.  That `Wire` keeps this promise with the descriptors of
`Protos`, TLC evaluates before the run `messages`, on samples of every type
(`PromiseOnSamples` in `MCWire`).  `Evaluates`: a peer
takes a rule as satisfied if enough of the rules below it are, or its
principal signed; the run `policy` evaluates rules so, by recursion.

Five hypotheses say how the library itself uses a builder.  Without them the
properties are false (for the last two see section 5):

* `ProposesFirst`: a submit directly follows a raising propose; a caller of the
  builder's methods may submit what it knows to be refused.
* `WaitsLast`: a chain ends in a raising wait.  Both hold of `Gateway.invoke` and
  of the functions of `operations`.
* `WaitsOnFirst`: the peers waited for are the first endorsing peer, which is
  what `operations.invoke` and `instantiate_chaincode` pass on.
* `OneAtATime`: no two tasks are in `_run_operations` of the same builder;
  `Gateway.invoke` and `query` make a builder for each call, and a function of
  `operations` runs its own sequence for its own transaction.
* `OneCall`: one await of one chain that submits after its proposes, as in the
  same methods and functions (`MaxAwaits` is 1, `MaxOps` has room for one chain).

The instances of the runs that check these properties satisfy the hypotheses.

**TypeOK** is not inductive: a step that reads `sent[task[t].rpc]` or
`CommitPeers[task[t].tgt]` needs these indices in range, and one that reads a
block needs a peer's height to be within the chain.  `TypeInv` adds
`TaskBounds` and `HeightBounds`.

**The list.**  `ListInv` says where a coroutine stands in the list it iterates
over.  The steps are first sorted into five kinds (`StepCases`): nobody's, the
caller adding a chain, a task staying in its operation, starting the list,
finishing an operation.  The invariants are then shown to be preserved by each
kind rather than by each action.

**SentFullyEndorsed.**  Under `ProposesFirst` the list keeps that discipline,
whatever chains are appended (`AddKeepsSubmits`).  So a submit can only be
started by a task that has, in the same step, got its own full endorsement:
between its propose and its submit there is no suspension in which another task
could overwrite `_endorsed_tx`.  A failover sends what was sent before.

**InvokeTookEffect, ReturnedValidOnFirst.**  A task may also return because
another one cleared its list.  `EffectInv` therefore says of each task left
behind that the transaction is valid on the ledger of a peer waited for
(`OnLedger`): only a task that finished the last operation of the list, a
raising wait, clears it.  Ledgers only grow (`LedgerGrows`), so it stays there;
if all peers waited for are the first one, it is there.

**ReportedOnLedger.**  A code is only taken from a block that the peer has
committed when it is read, which the step predicates of the five kinds say; and
what is on a ledger stays there (`OnLedgerStays`).

**The refinement.**  The mapping (`Lifecycle` in `TxBuilder`) says that the
results offered are the payloads of the envelopes sent, that the fate is what
the first block that holds the transaction made of it (`First`), and that the
report is the builder's `_filtered_tx`, where a duplicate counts as invalid.
`ChainInv` relates the chain to what was sent: every envelope in a block was
sent before, only the first occurrence of the transaction may be valid, and
only with a result that a peer signed.
`FateIs` and `FateIsNext` compute the fate from there; a step of the builder is
then an offer, a decision, a report, or a stutter, by its kind (`StepCases`) and
not by its action.  The invariant is needed for the report: a wait may read
the block of a duplicate, and the abstract specification asks that no report
claims a valid transaction that was not decided to be valid.

**NoOpLost.**  `QueueInv` numbers the operations over all lists of a builder's
life: those of lists that are gone have run (`1..Base`), and of the present
list those before the running task's place.  It is preserved by an error or a
cancellation, after which a new await starts the same list again from its
beginning, and by chains added while a task runs.  Two tasks at a time would
break it at the `clear()`.

**RunsOnce.**  `OnceInv` adds `RunInv` and that no operation has a number that was
not given out yet (`Numbered`), so that one that is added has not run.  A step after
which no task is in the builder or has failed ends an await that has cleared the
list, its own or another task's, or found it empty.  Here several tasks do no harm.

**PayloadCommitted.**  `PayloadInv`: all envelopes sent carry the payload of
`_endorsed_tx`, and no task that could still propose is there once something was
sent.  `PayloadOfFirst` then reads it off the block that was reported.

**ChannelAdmin.**  `AdminInv` adds to the two properties what a call has
achieved so far (`CallInv`: a join is for a list that callers pass, and at peer `k` of
it the peers before `k` have joined, an "ok" that the peer acted) and the same of RPCs nobody listens to
(`LateInv`: their peer's turn had come).  Without `LateInv` a late join could
put a peer into the channel out of turn.

**EventHub.**  `RangeInOrder` alone is not inductive: the next block depends on
where the node is.  `NextInRange` adds that the next block to deliver follows
the last one received, or is the start; `SeekMeansArguments` that the range
the node understood from the `SeekInfo` is the one of the arguments, also if these
are 0.

**Config.**  `Loaded` says that `config` has, for each key, the number of the
object made of its entry, and `ConfigInv` that each gateway refers to these, or
for a chaincode to an object of its name with the version asked for.  It is
inductive because objects are only added (`ObjectsKept`):
`update_chaincode_version` copies.  `NamedObject` and the lemmas before it are
about `__post_init__`, which runs twice on each object.  That every key has a
number (`KeysListed`) comes from the finiteness of the sections.

**Policy.**  A policy is built, sorted, serialised and evaluated by recursion over
its tree, and the installed provers cannot use the library's induction theorems,
which have a predicate as a parameter.  `Recursion` has the predicate as a
constant of a module instead: `Induction` takes the tree of least rank at
which it fails; `Existence` joins the functions of all levels, of which any two
agree (`Agreement`).  Three instances give the equations of `RolesOf`, of
`BuildEndorsementPolicy` and of `Meets`.  `Places` counts the roles before a
role in the sorted list, so that `RoleMapFinds`: the index of a role is where
`all_roles` has it.  `RuleMeets` is the induction: with the `role_map` of the whole
policy every sub-policy's rule is satisfied exactly if the sub-policy is met; it
fails for a sub-policy's own map, which is the mutant.

**Crypto.**  The half of an odd order is not a scalar's own negative
(`HalfFact`), so that exactly one of `s` and `order - s` is at most the half.

**Messages.**  A lemma per message type (`HeaderReads`, `EnvelopeReads`, ...) says
that the constructor makes a message with the given fields, which a receiver
reads; they rest on `NewReads`, on the descriptors of `Protos` and on `Promise`.
The lemmas after them follow the factories: `HeaderBuilt`, `ProposalBuilt`,
`Generated`, `Endorsed`, `TransactionBuilt`, `EnvelopeBuilt`, and then what the
receivers make of it: `ProposalAccepted`, `TransactionAccepted`,
`UpdateAccepted`, `SeekReadable`.  None of the properties is inductive, since they
speak of bytes only.  `MessagesInv` says where the bytes come from: `TxsWhole`, a
transaction is what `build_generated_tx` made of its own arguments, and its
responses, if there are any, are the peers' on just this proposal; `WireBuilt`,
each request was made from a transaction, an update or a stream in one of four
ways (`ProposalSent`, `TransactionSent`, `UpdateSent`, `SeekSent`); `BlockWhole`, the
block that `join_channel` passes on is the one the orderer sent.  The first
is needed because `commit_tx` puts together what three earlier steps left
behind, the last because a join's argument is checked against that block.

For `DecodesWhatWasSent` the layers are taken off again: `TransactionShown`,
`UpdateShown` and `OthersShown` say of an entry of a block that all of it decodes
(`Showable`) and what it decodes to, `BlockDecodes` and `FilteredShown` say the same
of the block around it, and `Pulled` of the response around that, which has a block
and therefore no status.  The property holds of every later state too, when more
requests are on the wire, so `BlockShown` says it of the entry alone: what the client
has is the decoded form of the one entry of the block, with its code.  It is
inductive together with `MessagesInv`, which says that an entry of the client's own
was built from its transaction or its update.  A block of the model has one
entry; the type, the sender, the contents and the stream are any.

Only model-checked:

* liveness (`AwaitTerminates`, `InstallConverges`, `JoinRecovers`, `GetEnds`), as
  fairness is out of the prover's reach;
* that `Wire` keeps `Promise`: the format is recursive, and RECURSIVE operators
  are out of reach, too.

## 5. Observations without a run

* A refusal by one orderer is raised at once (`connect.py:27`), although
  `operations.py:466` says that each orderer is tried first: `BroadcastRejected`.
* Awaiting a builder again after it returned, with nothing added, raises
  "Transaction never proposed", also for a transaction that was proposed and
  committed (`models/gateway.py:317`).
* A Broadcast stream that ends without a response counts as a success
  (`connect.py:26`): `BroadcastClosed`.
* `Gateway.join_channel`, called again after it failed at the second peer,
  fails at the first, which has joined (`models/gateway.py:129`); a caller has
  to pass the peers that are left, which `JoinedInOrder` lets it find.
* `get_transaction` of `PeerEvents` and `OrdererEvents` reads `tx_id` of raw
  transactions, which are bytes (`events.py:49`, `models/block.py:43`).
* With two tasks on one builder, the `clear()` of one may drop operations added
  for the other; `NoOpLost` is stated for one task at a time.
* A retried await may return a payload that differs from the one an earlier
  attempt got committed; `PayloadCommitted` is stated for one await.
* The timeout of a wait is per peer, not for the whole wait.
* `submit` signs with the gateway's requestor of that moment; nothing in the
  repository changes a gateway in place.
* After a failover the transaction may be ordered twice (`connect.py:51`).  A
  wait that reads the block of the duplicate raises
  `TransactionValidationError` for a transaction that took effect;
  `InvokeTookEffect` is about awaits that return.
* `join_channel` asks every orderer, and raises the connection error of one
  although another delivered the block (`operations.py:124`): it fails as long as
  any orderer of the list is unreachable.
* A header type outside `TransactionType` raises in `DecodedTX.decode`
  (`models/_decoded.py:114`), and the block with it; with the types of this
  protocol version none is missing, which is what `DecodesWhatWasSent` shows.
* A `DeliverResponse` with status UNKNOWN, a zero, is taken for a block, an empty
  one (`events.py:69`, `StatusOf`); nodes do not send it, and in the model they send
  blocks.
* `pem_to_der` takes the lines from the second to the last but two
  (`factories.py:236`): of a PEM file without a newline at its end the last line
  of the body is lost, and the hash in the stream's header is a wrong one.
* A node configured with a client certificate, but without key or CA, has the
  certificate's hash in its streams' headers and does not present it
  (`models/__init__.py:110`, `events.py:121`).
* Arguments are encoded as latin1 (`factories.py:225`): wider characters raise.
  A channel name is encoded as latin1 and decoded as UTF-8 (`factories.py:230`),
  which raises for nearly all names beyond ASCII.
* `Gateway.invoke` of a gateway without orderers raises a `ValueError` only when
  the transaction has been proposed.
* `package_chaincode` looks the chaincode up in the GOPATH and then walks
  `cc_spec.path` (`operations.py:239`).
* `Ecies.decrypt` with the 384-bit curve and SHA2 does not undo `encrypt`
  (`_hfc/crypto.py:280`); nothing calls them.

## 6. What is not modelled

* `package_chaincode`: a walk over files into a tar archive; its result is some
  bytes.
* ECIES encryption, key generation and certificate requests of `_hfc/crypto.py`,
  which nothing in the library calls; ECDSA and SHA-2 themselves.
* The messages that never reach the client: discovery, idemix, the token
  prover, the chaincode shim, cluster communication, gossip.
* JSON, YAML and `dacite`'s type checks in `config`.
* The packaging, the sample chaincode and the scripts of the test network.
* Within modelled components: time stamps, the ValueErrors of a gateway that
  lacks an attribute (assumptions on constants), cancellation in
  `ChannelAdmin`, log messages and the wording of exceptions.

## 7. Plan

Done, in this order: `Fabric` and `TxBuilder` with their proofs, `TxLifecycle`,
`ChannelAdmin` with its proofs, `Policy`, `EventHub`; then the protocol's
messages (`Protos`, `Wire`), `Crypto`, `Factories`,
`Decoded`, `Receivers` and `Messages`, `Policy` over the wire, and `Config`.

Then the proofs: `TxBuilder` implements `TxLifecycle`, and every safety property
of `TxBuilder`, `ChannelAdmin`, `EventHub` and `Config` that a run checks; then,
with protobuf's promise as a hypothesis, `Policy` and `Messages`.

Left: blocks with several entries in `Messages`.
