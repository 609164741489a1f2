------------------------------- MODULE Fabric -------------------------------
(***************************************************************************)
(* The part of a Hyperledger Fabric network that snakeskin talks to: the   *)
(* ordering service and the peers' ledgers of one channel.  None of it is  *)
(* code of the repository; it is modelled from what the client sends and   *)
(* from what it can get back.                                              *)
(*                                                                         *)
(* One client transaction is of interest: every envelope a builder sends   *)
(* carries the one tx_id generated for it.  Each Broadcast RPC that        *)
(* carries it is numbered, by its place in "sent"; the blocks of every     *)
(* other client carry the number 0.  A block holds one transaction.        *)
(***************************************************************************)
EXTENDS Naturals, Sequences

CONSTANTS
    Peer,        \* the peers of the channel
    Payload,     \* the results an endorsing peer can simulate
    NoPayload,   \* the empty payload of a failed endorsement
    MaxBlocks    \* bound on the length of the chain, the genesis block included

ASSUME FabricAssumption ==
    /\ MaxBlocks \in Nat
    /\ NoPayload \notin Payload

VARIABLES
    sent,        \* the Broadcast RPCs that carry our transaction
    chain,       \* the blocks the ordering service has cut, validated
    height       \* height[p]: how many blocks of the chain peer p has committed

fabricVars == <<sent, chain, height>>

\* A ProposalResponse: status 200 with the payload the peer signed, or a
\* failure, which carries neither a payload nor an endorsement.
Response ==
    [status : {200}, payload : Payload]
        \cup [status : {500}, payload : {NoPayload}]

\* An envelope carries one payload and one endorsement per peer response.
Envelope ==
    [payload : Payload \cup {NoPayload}, endorsements : Seq(Response)]

\* What the orderer has made of the envelope it was sent; the client learns it
\* from the response, if the response gets through.
SendState == {"sent", "accepted", "refused"}

Send == [env : Envelope, state : SendState]

ValidationCode == {"VALID", "INVALID", "DUPLICATE_TXID"}

Block == [rpc : Nat, code : ValidationCode]

OtherBlock == [rpc |-> 0, code |-> "VALID"]

-----------------------------------------------------------------------------

\* Block i carries our transaction; block i is the one in which it took effect.
IsOurs(i) == chain[i].rpc # 0
IsValidAt(i) == IsOurs(i) /\ chain[i].code = "VALID"

\* Some endorsement of the envelope signs the payload the envelope carries.
Endorses(env) ==
    \E i \in 1..Len(env.endorsements) :
        env.endorsements[i] = [status |-> 200, payload |-> env.payload]

\* The codes a committing peer may give the envelope.  A tx_id the chain
\* already holds is a duplicate whatever became of it; without a matching
\* endorsement no policy is met; with one, the policy or a read conflict may
\* still make the transaction invalid.
Validate(env) ==
    IF \E i \in 1..Len(chain) : IsOurs(i)
    THEN {"DUPLICATE_TXID"}
    ELSE IF Endorses(env) THEN {"VALID", "INVALID"} ELSE {"INVALID"}

\* The orderer takes in, or turns down, the envelope of RPC n.  The client may
\* have given up on the RPC by then.
OrdererReplies(n) ==
    /\ sent[n].state = "sent"
    /\ \E s \in {"accepted", "refused"} : sent' = [sent EXCEPT ![n].state = s]
    /\ UNCHANGED <<chain, height>>

\* The ordering service cuts a block with the envelope of RPC n: once for each
\* RPC that an orderer accepted.
OrderOurs(n) ==
    /\ Len(chain) < MaxBlocks
    /\ sent[n].state = "accepted"
    /\ \A i \in 1..Len(chain) : chain[i].rpc # n
    /\ \E c \in Validate(sent[n].env) :
          chain' = Append(chain, [rpc |-> n, code |-> c])
    /\ UNCHANGED <<sent, height>>

OrderOther ==
    /\ Len(chain) < MaxBlocks
    /\ chain' = Append(chain, OtherBlock)
    /\ UNCHANGED <<sent, height>>

\* Peer p appends the next block of the chain to its ledger.
CommitBlock(p) ==
    /\ height[p] < Len(chain)
    /\ height' = [height EXCEPT ![p] = @ + 1]
    /\ UNCHANGED <<sent, chain>>

\* Every peer starts with the genesis block.
FabricInit ==
    /\ sent = <<>>
    /\ chain = <<OtherBlock>>
    /\ height = [p \in Peer |-> 1]

FabricTypeOK ==
    /\ sent \in Seq(Send)
    /\ chain \in Seq(Block)
    /\ height \in [Peer -> Nat]

-----------------------------------------------------------------------------

\* Our transaction took effect, as peer p's ledger tells; on the channel.
ValidOn(p) == \E i \in 1..Len(chain) : i <= height[p] /\ IsValidAt(i)
TakenEffect == \E i \in 1..Len(chain) : IsValidAt(i)
=============================================================================
