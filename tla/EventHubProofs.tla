---------------------------- MODULE EventHubProofs ----------------------------
(***************************************************************************)
(* What a stream of blocks delivers, for any length of the channel and any *)
(* start and stop arguments.                                               *)
(***************************************************************************)
EXTENDS EventHub, TLAPS

StreamTypes ==
    /\ height \in Nat /\ height >= 1
    /\ request.start \in Nat \cup {None} /\ request.stop \in Nat \cup {None}
    /\ request.user \in {"loop", "get", "join"}
    /\ range \in [next : Nat, last : Nat]
    /\ received \in Seq(Nat)

\* The next block of an open stream follows the last one the caller got, or is
\* the one it asked to start with; the last block is the one to stop at.
NextInRange ==
    /\ state \in {"new", "opening"} => received = <<>>
    /\ state = "open" =>
          /\ received # <<>> => range.next = received[Len(received)] + 1
          /\ received = <<>> /\ request.start # None => range.next = request.start
          /\ request.stop # None => range.last = request.stop

StreamInv == StreamTypes /\ NextInRange /\ RangeInOrder

-----------------------------------------------------------------------------

\* The node understands a SeekInfo as the caller meant it, with block 0 among
\* the numbers.
LEMMA SeekMeansArguments ==
    ASSUME StreamTypes
    PROVE  /\ Resolve(SeekStart(request.start)) \in Nat
           /\ Resolve(SeekStop(request.stop)) \in Nat
           /\ request.start # None =>
                 Resolve(SeekStart(request.start)) = request.start
           /\ request.stop # None => Resolve(SeekStop(request.stop)) = request.stop
<1>1. height - 1 \in Nat
  BY DEF StreamTypes
<1> QED
  BY <1>1 DEF StreamTypes, SeekStart, SeekStop, Resolve, Newest, Specified

\* The arguments of a call are block numbers or None.
LEMMA RequestTyped ==
    ASSUME NEW r \in Request
    PROVE  /\ r.start \in Nat \cup {None} /\ r.stop \in Nat \cup {None}
           /\ r.user \in {"loop", "get", "join"}
<1>1. r.start \in Starts /\ r.stop \in Stops /\ r.user \in {"loop", "get", "join"}
  BY DEF Request
<1>2. /\ r.start \in (0..MaxBlocks) \cup {None}
      /\ r.stop \in (0..MaxBlocks) \cup {None, Indefinite}
  BY <1>1, EventHubAssumption, Zenon
<1>3. 0..MaxBlocks \subseteq Nat /\ Indefinite \in Nat
  BY EventHubAssumption
<1> QED
  BY <1>1, <1>2, <1>3

\* One more block keeps the order, and the next one follows it.
LEMMA BlockInOrder ==
    ASSUME StreamInv, ReceiveBlock
    PROVE  StreamInv'
<1>1. /\ received \in Seq(Nat) /\ Len(received) \in Nat
      /\ range.next \in Nat /\ range.last \in Nat
      /\ state = "open" /\ range.next <= range.last
      /\ received' = Append(received, range.next)
      /\ UNCHANGED <<height, request>>
  BY DEF StreamInv, StreamTypes, ReceiveBlock
<1>2. /\ range' \in [next : Nat, last : Nat]
      /\ range'.next = range.next + 1 /\ range'.last = range.last
  BY <1>1 DEF StreamInv, StreamTypes, ReceiveBlock
<1>3. /\ received' \in Seq(Nat) /\ Len(received') = Len(received) + 1
      /\ \A i \in 1..Len(received) : received'[i] = received[i]
      /\ received'[Len(received) + 1] = range.next
  BY <1>1
<1>4. StreamTypes'
  BY <1>1, <1>2, <1>3 DEF StreamInv, StreamTypes
<1>5. state' \notin {"new", "opening"}
  BY DEF ReceiveBlock, Handle, StreamInv, StreamTypes
<1>6. NextInRange'
  <2>1. received' # <<>>
    BY <1>1, <1>3
  <2> QED
    BY <1>1, <1>2, <1>3, <1>5, <2>1 DEF StreamInv, NextInRange
<1>7. RangeInOrder'
  <2> SUFFICES ASSUME NEW i \in 1..Len(received')
               PROVE  /\ i > 1 => received'[i] = received'[i - 1] + 1
                      /\ request.start # None /\ i = 1 =>
                            received'[i] = request.start
                      /\ request.stop # None => received'[i] <= request.stop
    BY <1>1 DEF RangeInOrder
  <2>1. CASE i \in 1..Len(received)
    <3>1. i > 1 => i - 1 \in 1..Len(received)
      BY <1>1, <2>1
    <3> QED
      BY <1>3, <2>1, <3>1 DEF StreamInv, RangeInOrder
  <2>2. CASE i = Len(received) + 1
    <3>1. i > 1 => i - 1 = Len(received) /\ received # <<>>
      BY <1>1, <2>2
    <3>2. i > 1 => received'[i] = received'[i - 1] + 1
      BY <1>1, <1>3, <2>2, <3>1 DEF StreamInv, NextInRange
    <3>3. i = 1 => received = <<>>
      BY <1>1, <2>2
    <3> QED
      BY <1>1, <1>3, <2>2, <3>2, <3>3 DEF StreamInv, NextInRange
  <2> QED
    BY <1>1, <1>3, <2>1, <2>2
<1> QED
  BY <1>4, <1>6, <1>7 DEF StreamInv

LEMMA StreamInit == Init => StreamInv
BY DEF Init, StreamInv, StreamTypes, NextInRange, RangeInOrder

LEMMA StreamNext == StreamInv /\ [Next]_vars => StreamInv'
<1> SUFFICES ASSUME StreamInv, [Next]_vars PROVE StreamInv'
  OBVIOUS
<1>1. ASSUME NEW r \in Request, StreamBlocks(r) PROVE StreamInv'
  <2>1. received = <<>>
    BY <1>1 DEF StreamBlocks, StreamInv, NextInRange
  <2> QED
    BY <1>1, <2>1, RequestTyped DEF StreamBlocks, StreamInv, StreamTypes,
       NextInRange, RangeInOrder
<1>2. CASE Seek
  <2>1. received = <<>>
    BY <1>2 DEF Seek, StreamInv, NextInRange
  <2>2. /\ range' \in [next : Nat, last : Nat]
        /\ request.start # None => range'.next = request.start
        /\ request.stop # None => range'.last = request.stop
    BY <1>2, SeekMeansArguments DEF Seek, StreamInv
  <2> QED
    BY <1>2, <2>1, <2>2 DEF Seek, StreamInv, StreamTypes, NextInRange,
       RangeInOrder
<1>3. CASE ReceiveBlock
  BY <1>3, BlockInOrder
<1>4. CASE ReceiveStatus \/ StreamEnds \/ RpcFails
  <2>1. UNCHANGED <<height, request, range, received>>
    BY <1>4 DEF ReceiveStatus, StreamEnds, RpcFails
  <2>2. state' \notin {"new", "opening", "open"}
    BY <1>4 DEF ReceiveStatus, StreamEnds, RpcFails
  <2> QED
    BY <2>1, <2>2 DEF StreamInv, StreamTypes, NextInRange, RangeInOrder
<1>5. CASE NewBlock
  BY <1>5 DEF NewBlock, StreamInv, StreamTypes, NextInRange, RangeInOrder
<1>6. CASE UNCHANGED vars
  BY <1>6 DEF vars, StreamInv, StreamTypes, NextInRange, RangeInOrder
<1> QED
  BY <1>1, <1>2, <1>3, <1>4, <1>5, <1>6 DEF Next

\* Whatever start and stop a caller gives to stream_blocks, block 0 and None
\* among them, and however the channel grows while the stream is open, it gets
\* consecutive blocks, from the one it named and none beyond the last one.
THEOREM StreamInOrder == Spec => []RangeInOrder
<1>1. StreamInv => RangeInOrder
  BY DEF StreamInv
<1> QED
  BY StreamInit, StreamNext, <1>1, PTL DEF Spec
=============================================================================
