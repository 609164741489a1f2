------------------------------ MODULE EventHub ------------------------------
(***************************************************************************)
(* A stream of blocks from a peer or an orderer: stream_blocks, the        *)
(* SeekInfo it is opened with, and its three users: the caller's own loop, *)
(* get_transaction, and join_channel, which leaves the loop at the first   *)
(* block.                                                                  *)
(***************************************************************************)
EXTENDS Naturals, Sequences

CONSTANTS
    MaxBlocks,  \* bound on the blocks of the channel
    Starts,     \* the start and stop arguments callers give: block numbers,
    Stops,      \* or None
    None,
    Indefinite  \* INDEFINITE_STOP_POSITION

ASSUME EventHubAssumption ==
    /\ MaxBlocks \in Nat /\ MaxBlocks > 0
    /\ Indefinite \in Nat /\ Indefinite > MaxBlocks
    /\ Starts \subseteq 0..MaxBlocks \cup {None}
    /\ Stops \subseteq 0..MaxBlocks \cup {None, Indefinite}
    /\ None \notin Nat

VARIABLES
    height,    \* how many blocks the node has; block i holds transaction i
    request,   \* what the caller asked for
    range,     \* the blocks the node will deliver, as it understood the SeekInfo
    received,  \* the numbers of the blocks the caller got
    state      \* the stream and what became of it

vars == <<height, request, range, received, state>>

\* A call: the hub (blocks are filtered, or raw as from PeerEvents and
\* OrdererEvents), who reads the stream, and for get_transaction the tx_id.
Request ==
    [hub : {"raw", "filtered"}, user : {"loop", "get", "join"}, tx : 0..MaxBlocks,
     start : Starts, stop : Stops, behavior : {"BlockUntilReady", "FailIfNotReady"}]

\* get_transaction has no stop, and join_channel asks an orderer for block 0.
IsRequest(r) ==
    /\ r.user = "get" => r.stop = Indefinite
    /\ r.user # "get" => r.tx = 0
    /\ r.user = "join" => /\ r.hub = "raw" /\ r.start = 0 /\ r.stop = 0
                          /\ r.behavior = "BlockUntilReady"

Over == {"ended", "found", "retrieval_error", "connection_error",
         "runtime_error", "attribute_error"}

-----------------------------------------------------------------------------

\* A SeekPosition.
Newest == [kind |-> "newest", number |-> 0]
Specified(n) == [kind |-> "specified", number |-> n]

\* Mutants: 0 is taken for None.
SeekStartTruthy(start) == IF start \in {None, 0} THEN Newest ELSE Specified(start)

SeekStopTruthy(stop) == IF stop \in {None, 0} THEN Newest ELSE Specified(stop)

\* build_seek_info.
SeekStart(start) == IF start = None THEN Newest ELSE Specified(start)

SeekStop(stop) == IF stop = None THEN Newest ELSE Specified(stop)

Resolve(position) ==
    IF position.kind = "newest" THEN height - 1 ELSE position.number

\* The node takes the request (external): newest is its last block.
Seek ==
    /\ state = "opening"
    /\ range' = [next |-> Resolve(SeekStart(request.start)),
                 last |-> Resolve(SeekStop(request.stop))]
    /\ state' = "open"
    /\ UNCHANGED <<height, request, received>>

StreamBlocks(r) ==
    /\ state = "new"
    /\ request' = r
    /\ state' = "opening"
    /\ UNCHANGED <<height, range, received>>

\* The reader of the stream has got block n.  A raw block's transactions are
\* bytes, without a tx_id.
Handle(n) ==
    state' = CASE request.user = "loop" -> "open"
               [] request.user = "join" -> "found"
               [] request.user = "get"  ->
                     IF request.hub = "raw" THEN "attribute_error"
                     ELSE IF n = request.tx THEN "found" ELSE "open"

ReceiveBlock ==
    /\ state = "open"
    /\ range.next <= range.last /\ range.next < height
    /\ received' = Append(received, range.next)
    /\ range' = [range EXCEPT !.next = @ + 1]
    /\ Handle(range.next)
    /\ UNCHANGED <<height, request>>

\* The node says how the request ended: all blocks sent (SUCCESS), a block it
\* was not to wait for (NOT_FOUND), a range it does not accept (BAD_REQUEST).
ReceiveStatus ==
    /\ state = "open"
    /\ \/ range.next > range.last
       \/ request.behavior = "FailIfNotReady" /\ range.next >= height
    /\ state' = "retrieval_error"
    /\ UNCHANGED <<height, request, range, received>>

\* The stream ends without a status.
StreamEnds ==
    /\ state = "open"
    /\ state' = IF request.user = "get" THEN "runtime_error" ELSE "ended"
    /\ UNCHANGED <<height, request, range, received>>

RpcFails ==
    /\ state \in {"opening", "open"}
    /\ state' = "connection_error"
    /\ UNCHANGED <<height, request, range, received>>

\* The node appends a block to its ledger (external).
NewBlock ==
    /\ height < MaxBlocks
    /\ height' = height + 1
    /\ UNCHANGED <<request, range, received, state>>

Init ==
    /\ height = 1
    /\ request = [hub |-> "raw", user |-> "loop", tx |-> 0, start |-> None,
                  stop |-> None, behavior |-> "BlockUntilReady"]
    /\ range = [next |-> 0, last |-> 0]
    /\ received = <<>>
    /\ state = "new"

Next ==
    \/ \E r \in Request : IsRequest(r) /\ StreamBlocks(r)
    \/ Seek \/ ReceiveBlock \/ ReceiveStatus \/ StreamEnds \/ RpcFails
    \/ NewBlock

Spec == Init /\ [][Next]_vars

\* The node takes the request and delivers the blocks it has, and the channel
\* goes on.
FairSpec == Spec /\ WF_vars(Seek) /\ WF_vars(ReceiveBlock) /\ WF_vars(NewBlock)

-----------------------------------------------------------------------------

\* The caller gets the blocks it asked for, one after the other without a gap:
\* from start, from the block that was newest when the stream began, and none
\* beyond stop (build_seek_info, with block number 0 among the arguments).
RangeInOrder ==
    \A i \in 1..Len(received) :
        /\ i > 1 => received[i] = received[i - 1] + 1
        /\ request.start # None /\ i = 1 => received[i] = request.start
        /\ request.stop # None => received[i] <= request.stop

\* get_transaction on a filtered stream that starts at or before the block of
\* the transaction comes to an end: it does not wait on a transaction that has
\* gone by, whenever the stream was opened.
GetEnds ==
    /\ state = "opening" /\ request.user = "get" /\ request.hub = "filtered"
    /\ request.start # None /\ request.start <= request.tx
    /\ request.tx < MaxBlocks
    ~> state \in Over

-----------------------------------------------------------------------------

\* What the repository says and the code does not do.

\* "end at block 10 (if omitted, will stream forever)": a stream that has
\* delivered the block it was to stop at has not failed.
StopsQuietly ==
    state = "retrieval_error" /\ received # <<>> =>
        received[Len(received)] # request.stop
=============================================================================
