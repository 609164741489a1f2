------------------------ MODULE TxBuilderLedgerProofs ------------------------
(***************************************************************************)
(* The builder against the channel: what it reports is on a ledger, and    *)
(* builder and channel together implement the abstract life of a           *)
(* transaction (TxLifecycle).                                              *)
(*                                                                         *)
(* Then what a builder promises when the tasks that await it do not        *)
(* overlap: none of its operations is lost, and, if it is awaited once, its*)
(* response payload is the one that the channel committed.                 *)
(***************************************************************************)
EXTENDS TxBuilderSafetyProofs

LEMMA QuietGrows == QuietStep => LedgerGrows
BY DEF QuietStep, LedgerGrows

ReportInv == RunInv /\ (filtered_tx # "none" => OnLedger(filtered_tx))

LEMMA ReportNext ==
    ASSUME ReportInv, [Next]_vars
    PROVE  ReportInv'
<1>0. RunInv /\ TypeInv
  BY DEF ReportInv, RunInv
<1>r. RunInv' /\ TypeInv'
  BY <1>0, RunNext DEF RunInv
<1>1. ASSUME LedgerGrows, filtered_tx' = filtered_tx PROVE ReportInv'
  BY <1>0, <1>r, <1>1, OnLedgerStays DEF ReportInv
<1>2. CASE QuietStep
  BY <1>1, <1>2, QuietGrows DEF QuietStep, builderVars
<1>3. ASSUME NEW c \in Chains, AddChain(c) PROVE ReportInv'
  BY <1>0, <1>1, <1>3, LedgerSame DEF AddChain, fabricVars
<1>4. ASSUME NEW t \in Tasks, StayStep(t) \/ BeginStep(t) PROVE ReportInv'
  BY <1>0, <1>1, <1>4, LedgerSame DEF StayStep, BeginStep, builderVars
<1>5. ASSUME NEW t \in Tasks, NEW e \in EndorsedTX \cup {<<>>}, ProceedStep(t, e)
      PROVE  ReportInv'
  <2>1. LedgerGrows
    BY <1>0, <1>5, LedgerSame DEF ProceedStep
  <2>2. CASE task[t].pc = "wait"
    <3>1. OnLedger(filtered_tx')
      BY <1>5, <2>2 DEF ProceedStep
    <3> QED
      BY <1>5, <1>r, <3>1 DEF ReportInv, ProceedStep, OnLedger, IsOurs
  <2>3. CASE task[t].pc # "wait"
    BY <1>1, <1>5, <2>1, <2>3 DEF ProceedStep
  <2> QED
    BY <2>2, <2>3
<1> QED
  BY <1>0, <1>2, <1>3, <1>4, <1>5, StepCases

\* The FilteredTX that a builder holds is, at any later time, on the ledger of
\* one of the peers it waits for, with the validation code it reports: for any
\* number of tasks, peers that lag behind, and waits that move on to the next
\* peer.
THEOREM ReportedIsOnLedger == Spec => []ReportedOnLedger
<1>1. Init => ReportInv
  BY RunInit DEF Init, ReportInv
<1>2. ReportInv /\ [Next]_vars => ReportInv'
  BY ReportNext
<1>3. ReportInv => ReportedOnLedger
  BY DEF ReportInv, ReportedOnLedger, OnLedger
<1> QED
  BY <1>1, <1>2, <1>3, PTL DEF Spec

-----------------------------------------------------------------------------
(* The chain decides once.                                                  *)

\* Block i is the first one that carries our transaction.
First(i) ==
    /\ i \in 1..Len(chain)
    /\ IsOurs(i)
    /\ \A j \in 1..(i - 1) : ~IsOurs(j)

\* A block of ours carries an RPC that was sent.  One of them is the first, and
\* no other is valid; a valid one carries a result that a peer signed.
ChainInv ==
    /\ \A i \in 1..Len(chain) : chain[i].rpc \in 0..Len(sent)
    /\ (\E i \in 1..Len(chain) : IsOurs(i)) => \E i \in 1..Len(chain) : First(i)
    /\ \A i \in 1..Len(chain) :
          IsValidAt(i) => /\ First(i)
                          /\ sent[chain[i].rpc].env.payload \in Payload

\* What the channel made of the transaction, told by its first block.
FateAt(i) ==
    [state |-> IF chain[i].code = "VALID" THEN "valid" ELSE "invalid",
     payload |-> sent[chain[i].rpc].env.payload]

LEMMA FateIs ==
    ASSUME TypeInv, NEW i, First(i)
    PROVE  Fate = FateAt(i)
<1>1. i \in 1..Len(chain) /\ Len(chain) \in Nat
  BY DEF First, TypeInv, TypeOK, FabricTypeOK
<1>2. \A k \in 1..Len(chain) :
         (IsOurs(k) /\ \A j \in 1..(k - 1) : ~IsOurs(j)) <=> k = i
  BY <1>1 DEF First
<1>3. (CHOOSE k \in 1..Len(chain) : IsOurs(k) /\ \A j \in 1..(k - 1) : ~IsOurs(j)) = i
  BY <1>1, <1>2
<1>4. \E k \in 1..Len(chain) : IsOurs(k)
  BY <1>1 DEF First
<1> QED
  BY <1>3, <1>4 DEF Fate, FateAt

LEMMA FateIsNext ==
    ASSUME TypeInv', NEW i, First(i)'
    PROVE  Fate' = FateAt(i)'
<1>1. i \in 1..Len(chain') /\ Len(chain') \in Nat
  BY DEF First, TypeInv, TypeOK, FabricTypeOK
<1>2. \A k \in 1..Len(chain') :
         (IsOurs(k)' /\ \A j \in 1..(k - 1) : ~IsOurs(j)') <=> k = i
  BY <1>1 DEF First
<1>3. (CHOOSE k \in 1..Len(chain') :
          IsOurs(k)' /\ \A j \in 1..(k - 1) : ~IsOurs(j)') = i
  BY <1>1, <1>2
<1>4. \E k \in 1..Len(chain') : IsOurs(k)'
  BY <1>1 DEF First
<1> QED
  BY <1>3, <1>4 DEF Fate, FateAt

\* Without a block of ours the channel has not decided.
LEMMA FateOpen ==
    ASSUME \A i \in 1..Len(chain) : ~IsOurs(i)
    PROVE  Fate = [state |-> "undecided", payload |-> NoPayload]
BY DEF Fate

\* The RPCs that were sent keep their envelopes.
SentStep ==
    \/ /\ Len(sent') = Len(sent)
       /\ \A n \in 1..Len(sent) : sent'[n].env = sent[n].env
    \/ \E env \in Envelope : sent' = Append(sent, [env |-> env, state |-> "sent"])

LEMMA StepSends ==
    ASSUME RunInv, [Next]_vars
    PROVE  SentStep
<1>0. TypeInv /\ sent \in Seq(Send) /\ Len(sent) \in Nat
  BY DEF RunInv, TypeInv, TypeOK, FabricTypeOK
<1>1. sent' = sent => SentStep
  BY DEF SentStep
<1>2. CASE QuietStep
  BY <1>2 DEF QuietStep, SentStep
<1>3. ASSUME NEW c \in Chains, AddChain(c) PROVE SentStep
  BY <1>1, <1>3 DEF AddChain, fabricVars
<1>4. ASSUME NEW t \in Tasks, StayStep(t) PROVE SentStep
  <2>1. \A n \in 1..Len(sent) : sent[n].env \in Envelope
    <3> TAKE n \in 1..Len(sent)
    <3>1. sent[n] \in Send
      BY <1>0
    <3> QED
      BY <3>1 DEF Send
  <2> QED
    BY <1>1, <1>4, <2>1 DEF StayStep, SentStep
<1>5. ASSUME NEW n, NEW e \in EndorsedTX \cup {<<>>}, SentFor(n, e) PROVE SentStep
  <2>1. e # <<>> => BuildEnvelope(e) \in Envelope
    BY EnvelopeTyped
  <2> QED
    BY <1>1, <1>5, <2>1 DEF SentFor, SentStep
<1>6. ASSUME NEW t \in Tasks, BeginStep(t) PROVE SentStep
  BY <1>0, <1>5, <1>6 DEF BeginStep, StartsAt, TypeInv, TypeOK
<1>7. ASSUME NEW t \in Tasks, NEW e \in EndorsedTX \cup {<<>>}, ProceedStep(t, e)
      PROVE  SentStep
  BY <1>1, <1>5, <1>7 DEF ProceedStep, GoesOn, Finishes, StartsAt
<1> QED
  BY <1>2, <1>3, <1>4, <1>6, <1>7, StepCases

LEMMA SentKept ==
    ASSUME TypeInv, SentStep
    PROVE  /\ Len(sent') \in Nat /\ Len(sent') >= Len(sent)
           /\ \A n \in 1..Len(sent) : sent'[n].env = sent[n].env
<1>1. sent \in Seq(Send) /\ Len(sent) \in Nat
  BY DEF TypeInv, TypeOK, FabricTypeOK
<1>2. CASE /\ Len(sent') = Len(sent)
           /\ \A n \in 1..Len(sent) : sent'[n].env = sent[n].env
  BY <1>1, <1>2
<1>3. ASSUME NEW env \in Envelope,
             sent' = Append(sent, [env |-> env, state |-> "sent"])
      PROVE  /\ Len(sent') \in Nat /\ Len(sent') >= Len(sent)
             /\ \A n \in 1..Len(sent) : sent'[n].env = sent[n].env
  <2>1. Len(sent') = Len(sent) + 1 /\ \A n \in 1..Len(sent) : sent'[n] = sent[n]
    BY <1>1, <1>3
  <2> QED
    BY <1>1, <2>1
<1> QED
  BY <1>2, <1>3 DEF SentStep

\* As long as the chain stays as it is, so does the fate of the transaction.
LEMMA ChainSame ==
    ASSUME TypeInv, TypeInv', ChainInv, SentStep, chain' = chain
    PROVE  ChainInv' /\ Fate' = Fate
<1>1. /\ Len(sent) \in Nat /\ Len(sent') \in Nat /\ Len(sent') >= Len(sent)
      /\ \A n \in 1..Len(sent) : sent'[n].env = sent[n].env
  BY SentKept DEF TypeInv, TypeOK, FabricTypeOK
<1>2. \A i : First(i)' <=> First(i)
  BY DEF First, IsOurs
<1>3. \A i \in 1..Len(chain) :
         IsOurs(i) => sent'[chain[i].rpc].env = sent[chain[i].rpc].env
  BY <1>1 DEF ChainInv, IsOurs
<1>4. ChainInv'
  <2>1. \A i \in 1..Len(chain') : chain'[i].rpc \in 0..Len(sent')
    BY <1>1 DEF ChainInv
  <2>2. (\E i \in 1..Len(chain') : IsOurs(i)') => \E i \in 1..Len(chain') : First(i)'
    BY <1>2 DEF ChainInv, IsOurs
  <2>3. \A i \in 1..Len(chain') :
           IsValidAt(i)' => /\ First(i)'
                            /\ sent'[chain'[i].rpc].env.payload \in Payload
    BY <1>2, <1>3 DEF ChainInv, IsValidAt, IsOurs
  <2> QED
    BY <2>1, <2>2, <2>3 DEF ChainInv
<1>5. Fate' = Fate
  <2>1. CASE \E i \in 1..Len(chain) : IsOurs(i)
    <3>1. PICK i \in 1..Len(chain) : First(i)
      BY <2>1 DEF ChainInv
    <3>2. Fate = FateAt(i) /\ Fate' = FateAt(i)'
      BY <1>2, <3>1, FateIs, FateIsNext
    <3> QED
      BY <1>3, <3>1, <3>2 DEF FateAt, First
  <2>2. CASE \A i \in 1..Len(chain) : ~IsOurs(i)
    <3>1. \A i \in 1..Len(chain') : ~IsOurs(i)'
      BY <2>2 DEF IsOurs
    <3> QED
      BY <2>2, <3>1 DEF Fate
  <2> QED
    BY <2>1, <2>2
<1> QED
  BY <1>4, <1>5

\* A block of somebody else, or a duplicate of ours, decides nothing.
LEMMA ChainExtended ==
    ASSUME TypeInv, TypeInv', ChainInv, sent' = sent,
           NEW b \in Block, chain' = Append(chain, b),
           b.rpc \in 0..Len(sent),
           b.rpc # 0 => /\ \E i \in 1..Len(chain) : IsOurs(i)
                        /\ b.code # "VALID"
    PROVE  ChainInv' /\ Fate' = Fate
<1>0. PICK m \in Nat : m = Len(chain) + 1
  BY DEF TypeInv, TypeOK, FabricTypeOK
<1>1. /\ chain \in Seq(Block) /\ Len(chain) \in Nat /\ Len(chain') = m
      /\ \A i \in 1..Len(chain) : chain'[i] = chain[i]
      /\ chain'[m] = b
  BY <1>0 DEF TypeInv, TypeOK, FabricTypeOK
<1>2. \A i \in 1..Len(chain) :
         /\ i \in 1..Len(chain')
         /\ IsOurs(i)' <=> IsOurs(i)
         /\ IsValidAt(i)' <=> IsValidAt(i)
         /\ First(i) => First(i)'
  BY <1>1 DEF First, IsOurs, IsValidAt
<1>3. \A i \in 1..Len(chain') : i \in 1..Len(chain) \/ i = m
  BY <1>0, <1>1
<1>4. ChainInv'
  <2>1. \A i \in 1..Len(chain') : chain'[i].rpc \in 0..Len(sent')
    BY <1>1, <1>3 DEF ChainInv
  <2>2. (\E i \in 1..Len(chain') : IsOurs(i)') => \E i \in 1..Len(chain') : First(i)'
    BY <1>1, <1>2, <1>3 DEF ChainInv, IsOurs
  <2>3. ~IsValidAt(m)'
    BY <1>1 DEF IsValidAt, IsOurs
  <2>4. ASSUME NEW i \in 1..Len(chain'), IsValidAt(i)'
        PROVE  First(i)' /\ sent'[chain'[i].rpc].env.payload \in Payload
    <3>1. i \in 1..Len(chain)
      BY <1>3, <2>3, <2>4
    <3> QED
      BY <1>1, <1>2, <2>4, <3>1 DEF ChainInv
  <2> QED
    BY <2>1, <2>2, <2>4 DEF ChainInv
<1>5. Fate' = Fate
  <2>1. CASE \E i \in 1..Len(chain) : IsOurs(i)
    <3>1. PICK i \in 1..Len(chain) : First(i)
      BY <2>1 DEF ChainInv
    <3>2. Fate = FateAt(i) /\ Fate' = FateAt(i)'
      BY <1>2, <3>1, FateIs, FateIsNext
    <3> QED
      BY <1>1, <3>1, <3>2 DEF FateAt
  <2>2. CASE \A i \in 1..Len(chain) : ~IsOurs(i)
    <3>1. \A i \in 1..Len(chain') : ~IsOurs(i)'
      BY <1>1, <1>2, <1>3, <2>2 DEF IsOurs
    <3> QED
      BY <2>2, <3>1 DEF Fate
  <2> QED
    BY <2>1, <2>2
<1> QED
  BY <1>4, <1>5

\* An envelope that a peer's endorsement matches carries a result.
LEMMA EndorsedPayload ==
    ASSUME NEW env \in Envelope, Endorses(env)
    PROVE  env.payload \in Payload
<1>1. PICK i \in 1..Len(env.endorsements) :
         env.endorsements[i] = [status |-> 200, payload |-> env.payload]
  BY DEF Endorses
<1>2. env.endorsements[i] \in Response
  BY DEF Envelope
<1> DEFINE r == env.endorsements[i]
<1>3. r.status = 200 /\ r.payload = env.payload
  BY <1>1
<1> HIDE DEF r
<1>4. r \in Response
  BY <1>2 DEF r
<1> QED
  BY <1>3, <1>4 DEF Response

\* The first block of ours decides.
LEMMA ChainDecides ==
    ASSUME TypeInv, TypeInv', ChainInv, sent' = sent,
           \A i \in 1..Len(chain) : ~IsOurs(i),
           NEW n \in 1..Len(sent), NEW c \in Validate(sent[n].env),
           chain' = Append(chain, [rpc |-> n, code |-> c])
    PROVE  /\ ChainInv'
           /\ Fate' = [state |-> IF c = "VALID" THEN "valid" ELSE "invalid",
                       payload |-> sent[n].env.payload]
           /\ c = "VALID" => sent[n].env.payload \in Payload
<1> DEFINE b == [rpc |-> n, code |-> c]
<1>0. PICK m \in Nat : m = Len(chain) + 1
  BY DEF TypeInv, TypeOK, FabricTypeOK
<1>1. /\ chain \in Seq(Block) /\ Len(chain) \in Nat
      /\ sent \in Seq(Send) /\ Len(sent) \in Nat
  BY DEF TypeInv, TypeOK, FabricTypeOK
<1>2. b \in Block /\ b.rpc = n /\ b.code = c
  BY <1>1 DEF Validate, Block, ValidationCode
<1>3. /\ Len(chain') = m
      /\ \A i \in 1..Len(chain) : chain'[i] = chain[i]
      /\ chain'[m].rpc = n /\ chain'[m].code = c
  <2> HIDE DEF b
  <2>1. chain' = Append(chain, b)
    BY DEF b
  <2> QED
    BY <1>0, <1>1, <1>2, <2>1
<1>4. \A i \in 1..Len(chain') : i \in 1..Len(chain) \/ i = m
  BY <1>0, <1>1, <1>3
<1>5. \A i \in 1..Len(chain) : ~IsOurs(i)'
  BY <1>3 DEF IsOurs
<1>6. First(m)'
  BY <1>0, <1>1, <1>3, <1>5 DEF First, IsOurs
<1>7. c = "VALID" => sent[n].env.payload \in Payload
  <2>1. sent[n].env \in Envelope
    <3>1. sent[n] \in Send
      BY <1>1
    <3> QED
      BY <3>1 DEF Send
  <2>2. c = "VALID" => Endorses(sent[n].env)
    BY DEF Validate
  <2> QED
    BY <2>1, <2>2, EndorsedPayload
<1>8. ChainInv'
  <2>1. \A i \in 1..Len(chain') : chain'[i].rpc \in 0..Len(sent')
    BY <1>1, <1>3, <1>4 DEF ChainInv
  <2>2. \E i \in 1..Len(chain') : First(i)'
    BY <1>6 DEF First
  <2>3. ASSUME NEW i \in 1..Len(chain'), IsValidAt(i)'
        PROVE  First(i)' /\ sent'[chain'[i].rpc].env.payload \in Payload
    <3>1. i = m
      BY <1>4, <1>5, <2>3 DEF IsValidAt
    <3> QED
      BY <1>3, <1>6, <1>7, <2>3, <3>1 DEF IsValidAt
  <2> QED
    BY <2>1, <2>2, <2>3 DEF ChainInv
<1>9. Fate' = FateAt(m)'
  BY <1>6, FateIsNext
<1> QED
  BY <1>3, <1>7, <1>8, <1>9 DEF FateAt

LEMMA ChainNext ==
    ASSUME RunInv, ChainInv, [Next]_vars
    PROVE  /\ ChainInv'
           /\ Fate' = Fate \/ (UNCHANGED <<sent, filtered_tx>> /\ Lifecycle!Decide)
<1>0. TypeInv /\ TypeInv' /\ SentStep
  BY RunNext, StepSends DEF RunInv
<1>1. CASE chain' = chain
  BY <1>0, <1>1, ChainSame
<1>2. CASE QuietStep /\ chain' = Append(chain, OtherBlock) /\ sent' = sent
  <2>1. OtherBlock \in Block /\ OtherBlock.rpc = 0 /\ 0 \in 0..Len(sent)
    BY <1>0 DEF OtherBlock, Block, ValidationCode, TypeInv, TypeOK, FabricTypeOK
  <2> QED
    BY <1>0, <1>2, <2>1, ChainExtended
<1>3. ASSUME QuietStep, NEW n \in 1..Len(sent), OrderOurs(n)
      PROVE  /\ ChainInv'
             /\ Fate' = Fate \/ (UNCHANGED <<sent, filtered_tx>> /\ Lifecycle!Decide)
  <2>1. sent' = sent /\ filtered_tx' = filtered_tx
    BY <1>3 DEF OrderOurs, QuietStep, builderVars
  <2>2. PICK c \in Validate(sent[n].env) :
           chain' = Append(chain, [rpc |-> n, code |-> c])
    BY <1>3 DEF OrderOurs
  <2>3. CASE \E i \in 1..Len(chain) : IsOurs(i)
    <3> DEFINE b == [rpc |-> n, code |-> c]
    <3>1. c = "DUPLICATE_TXID"
      BY <2>2, <2>3 DEF Validate
    <3>2. b \in Block /\ b.rpc \in 0..Len(sent) /\ b.code # "VALID"
      BY <1>0, <3>1 DEF Block, ValidationCode, TypeInv, TypeOK, FabricTypeOK
    <3> HIDE DEF b
    <3>3. chain' = Append(chain, b)
      BY <2>2 DEF b
    <3> QED
      BY <1>0, <2>1, <2>3, <3>2, <3>3, ChainExtended
  <2>4. CASE \A i \in 1..Len(chain) : ~IsOurs(i)
    <3>1. /\ ChainInv'
          /\ Fate' = [state |-> IF c = "VALID" THEN "valid" ELSE "invalid",
                      payload |-> sent[n].env.payload]
          /\ c = "VALID" => sent[n].env.payload \in Payload
      BY <1>0, <2>1, <2>2, <2>4, ChainDecides
    <3>2. Fate = Lifecycle!Undecided
      BY <2>4, FateOpen DEF Lifecycle!Undecided
    <3>3. sent[n].env.payload \in {sent[k].env.payload : k \in 1..Len(sent)}
      OBVIOUS
    <3>4. \E p \in {sent[k].env.payload : k \in 1..Len(sent)} :
             \/ Fate' = [state |-> "invalid", payload |-> p]
             \/ p \in Payload /\ Fate' = [state |-> "valid", payload |-> p]
      BY <3>1, <3>3
    <3> QED
      BY <2>1, <3>1, <3>2, <3>4 DEF Lifecycle!Decide
  <2> QED
    BY <2>3, <2>4
<1>4. chain' # chain => QuietStep
  BY StepCases DEF AddChain, fabricVars, StayStep, BeginStep, ProceedStep
<1> QED
  BY <1>1, <1>2, <1>3, <1>4 DEF QuietStep

-----------------------------------------------------------------------------
(* The refinement.                                                          *)

\* The two of the mapped variables that are not Fate.
Offered == {sent[n].env.payload : n \in 1..Len(sent)}
Told == IF filtered_tx = "DUPLICATE_TXID" THEN "INVALID" ELSE filtered_tx

Offers == \E p \in Payload \cup {NoPayload} : Offered' = Offered \cup {p}

\* A step offers at most one result.
LEMMA OfferStep ==
    ASSUME TypeInv, SentStep
    PROVE  Offered' = Offered \/ Offers
<1>1. sent \in Seq(Send) /\ Len(sent) \in Nat
  BY DEF TypeInv, TypeOK, FabricTypeOK
<1>2. CASE /\ Len(sent') = Len(sent)
           /\ \A n \in 1..Len(sent) : sent'[n].env = sent[n].env
  BY <1>2 DEF Offered
<1>3. ASSUME NEW env \in Envelope,
             sent' = Append(sent, [env |-> env, state |-> "sent"])
      PROVE  Offers
  <2> DEFINE m == [env |-> env, state |-> "sent"]
  <2>1. m.env = env
    OBVIOUS
  <2> HIDE DEF m
  <2>2. sent' = Append(sent, m)
    BY <1>3 DEF m
  <2>3. /\ Len(sent') = Len(sent) + 1
        /\ \A n \in 1..Len(sent) : sent'[n] = sent[n]
        /\ sent'[Len(sent) + 1].env = env
    BY <1>1, <2>1, <2>2
  <2>4. \A n \in 1..Len(sent') : n \in 1..Len(sent) \/ n = Len(sent) + 1
    BY <1>1, <2>3
  <2>5. \A n \in 1..Len(sent) : n \in 1..Len(sent')
    BY <1>1, <2>3
  <2>6. Len(sent) + 1 \in 1..Len(sent')
    BY <1>1, <2>3
  <2>7. Offered' = Offered \cup {env.payload}
    BY <2>3, <2>4, <2>5, <2>6 DEF Offered
  <2>8. env.payload \in Payload \cup {NoPayload}
    BY DEF Envelope
  <2> QED
    BY <2>7, <2>8 DEF Offers
<1> QED
  BY <1>2, <1>3 DEF SentStep

\* What the builder reports changes only as a wait ends, to what a ledger says.
LEMMA ToldStep ==
    ASSUME RunInv, [Next]_vars
    PROVE  \/ filtered_tx' = filtered_tx
           \/ OnLedger(filtered_tx') /\ chain' = chain
BY StepCases DEF QuietStep, AddChain, StayStep, BeginStep, ProceedStep, builderVars

\* A report is one that the decision of the channel allows.
LEMMA ToldIsDecided ==
    ASSUME TypeInv, ChainInv, NEW code, OnLedger(code)
    PROVE  /\ code \in ValidationCode
           /\ Fate # Lifecycle!Undecided
           /\ code = "VALID" => Fate.state = "valid"
<1>1. PICK k \in 1..Len(CommitPeers), i \in 1..Len(chain) :
         IsOurs(i) /\ chain[i].code = code
  BY DEF OnLedger
<1>2. code \in ValidationCode
  <2>1. chain[i] \in Block
    BY DEF TypeInv, TypeOK, FabricTypeOK
  <2> QED
    BY <1>1, <2>1 DEF Block
<1>3. PICK j \in 1..Len(chain) : First(j) /\ (code = "VALID" => j = i)
  BY <1>1 DEF ChainInv, IsValidAt
<1>4. Fate = FateAt(j)
  BY <1>3, FateIs
<1>5. Fate.state \in {"valid", "invalid"} /\ (code = "VALID" => Fate.state = "valid")
  BY <1>1, <1>3, <1>4 DEF FateAt
<1>6. Lifecycle!Undecided.state = "undecided"
  BY DEF Lifecycle!Undecided
<1> QED
  BY <1>2, <1>5, <1>6

LEMMA LifecycleStep ==
    ASSUME RunInv, ChainInv, [Next]_vars
    PROVE  [Lifecycle!Next]_(Lifecycle!vars)
<1>0. TypeInv /\ TypeInv' /\ SentStep
  BY RunNext, StepSends DEF RunInv
<1>1. Offered' = Offered \/ Offers
  BY <1>0, OfferStep
<1>2. CASE Lifecycle!Decide
  BY <1>2 DEF Lifecycle!Next
<1>3. CASE Fate' = Fate /\ filtered_tx' = filtered_tx
  <2>1. CASE Offered' = Offered
    BY <1>3, <2>1 DEF Lifecycle!vars, Offered
  <2>2. CASE Offers
    <3>1. Lifecycle!Offer
      BY <1>3, <2>2 DEF Lifecycle!Offer, Offers, Offered
    <3> QED
      BY <3>1 DEF Lifecycle!Next
  <2> QED
    BY <1>1, <2>1, <2>2
<1>4. CASE Fate' = Fate /\ OnLedger(filtered_tx')
  <2>1. PICK code : code = filtered_tx'
    OBVIOUS
  <2>2. /\ code \in ValidationCode
        /\ Fate # Lifecycle!Undecided
        /\ code = "VALID" => Fate.state = "valid"
    BY <1>0, <1>4, <2>1, ToldIsDecided
  <2>3. \/ Told' = "INVALID"
        \/ Told' = "VALID" /\ Fate.state = "valid"
    BY <2>1, <2>2 DEF Told, ValidationCode
  <2>4. Offered' \in {Offered} \cup {Offered \cup {p} : p \in Payload \cup {NoPayload}}
    BY <1>1 DEF Offers
  <2>5. Lifecycle!Report
    BY <1>4, <2>2, <2>3, <2>4 DEF Lifecycle!Report, Told, Offered
  <2> QED
    BY <2>5 DEF Lifecycle!Next
<1> QED
  BY <1>2, <1>3, <1>4, ChainNext, ToldStep

LEMMA LifecycleInit == Init => Lifecycle!Init /\ RunInv /\ ChainInv
<1> SUFFICES ASSUME Init PROVE Lifecycle!Init /\ ChainInv
  BY RunInit
<1>1. /\ sent = <<>> /\ Len(chain) = 1 /\ chain[1] = OtherBlock
      /\ filtered_tx = "none"
  BY DEF Init, FabricInit
<1>2. \A i \in 1..Len(chain) : ~IsOurs(i) /\ chain[i].rpc = 0
  BY <1>1 DEF IsOurs, OtherBlock
<1>3. ChainInv
  BY <1>1, <1>2 DEF ChainInv, IsValidAt
<1>4. Lifecycle!Init
  BY <1>1, <1>2, FateOpen DEF Lifecycle!Init, Lifecycle!Undecided
<1> QED
  BY <1>3, <1>4

\* The builder and the channel implement the abstract life of a transaction:
\* however tasks share the builder, run its list again and send the envelope to
\* one orderer after the other, the channel decides once and for a result that
\* was offered to it, and the builder reports nothing before, and "VALID" only
\* if the decision was so.
THEOREM LifecycleImplemented == Spec => LifecycleSpec
<1>1. RunInv /\ ChainInv /\ [Next]_vars => (RunInv /\ ChainInv)'
  BY RunNext, ChainNext
<1>2. RunInv /\ ChainInv /\ [Next]_vars => [Lifecycle!Next]_(Lifecycle!vars)
  BY LifecycleStep
<1> QED
  BY LifecycleInit, <1>1, <1>2, PTL DEF Spec, LifecycleSpec, Lifecycle!Spec

-----------------------------------------------------------------------------

\* No two tasks are in the builder at the same time; the caller may still add
\* operations while one is.
OneAtATime ==
    \A t, u \in Tasks : task[t].pc # "idle" /\ task[u].pc # "idle" => t = u

\* How many operations were in the lists before this one.
Base == added - Len(operations)

\* The operations are numbered as they were added, all those of earlier lists
\* have run, and of this list those before the one that runs now.
QueueInv ==
    /\ RunInv
    /\ Base \in Nat
    /\ \A k \in 1..Len(operations) : operations[k].id = Base + k
    /\ 1..Base \subseteq executed
    /\ \A n \in executed : 1..n \subseteq executed
    /\ \A t \in Tasks :
          task[t].pc # "idle" =>
              /\ task[t].list = generation /\ operations # <<>>
              /\ \A n \in 1..(Base + task[t].pos) :
                    n # Base + task[t].pos => n \in executed

LEMMA QueueAdd ==
    ASSUME QueueInv, NEW c \in Chains, AddChain(c)
    PROVE  QueueInv'
<1>0. RunInv /\ RunInv' /\ TypeInv
  BY RunNext DEF QueueInv, RunInv, Next
<1>1. /\ operations \in Seq(Operation) /\ added \in Nat /\ Len(operations) \in Nat
      /\ NewOps(c) \in Seq(Operation)
      /\ Len(c) \in Nat /\ Len(NewOps(c)) = Len(c) /\ Len(c) >= 1
  BY <1>0, NewOpsTyped DEF TypeInv, TypeOK
<1>2. /\ operations' = operations \o NewOps(c) /\ added' = added + Len(c)
      /\ generation' = IF operations = <<>> THEN generation + 1 ELSE generation
      /\ UNCHANGED <<task, executed>>
  BY DEF AddChain, AddOperations, NewOps
<1>3. \A k \in 1..Len(c) : NewOps(c)[k].id = added + k
  BY DEF NewOps
<1>4. /\ Len(operations') = Len(operations) + Len(c)
      /\ \A k \in 1..Len(operations) : operations'[k] = operations[k]
      /\ \A k \in 1..Len(c) : operations'[Len(operations) + k] = NewOps(c)[k]
  <2>1. \A b \in Seq(Operation) :
           /\ Len(operations \o b) = Len(operations) + Len(b)
           /\ \A k \in 1..Len(operations) : (operations \o b)[k] = operations[k]
           /\ \A k \in 1..Len(b) : (operations \o b)[Len(operations) + k] = b[k]
    BY <1>1, ConcatAt
  <2> QED
    BY <1>1, <1>2, <2>1
<1>5. Base' = Base /\ Base \in Nat
  BY <1>1, <1>2, <1>4 DEF Base, QueueInv
<1>6. ASSUME NEW k \in 1..Len(operations') PROVE operations'[k].id = Base + k
  <2>1. CASE k \in 1..Len(operations)
    BY <1>4, <2>1 DEF QueueInv
  <2>2. CASE k \notin 1..Len(operations)
    <3>1. PICK j \in 1..Len(c) : k = Len(operations) + j
      <4> DEFINE j == k - Len(operations)
      <4>1. j \in 1..Len(c) /\ k = Len(operations) + j
        BY <1>1, <1>4, <2>2
      <4> HIDE DEF j
      <4> QED
        BY <4>1
    <3>2. operations'[k].id = added + j
      BY <1>3, <1>4, <3>1
    <3> QED
      BY <1>1, <3>1, <3>2 DEF Base
  <2> QED
    BY <2>1, <2>2
<1>7. operations' # <<>>
  BY <1>1, <1>4
<1> QED
  BY <1>0, <1>2, <1>5, <1>6, <1>7 DEF QueueInv

LEMMA QueueProceed ==
    ASSUME QueueInv, OneAtATime, [Next]_vars, NEW t \in Tasks,
           NEW e \in EndorsedTX \cup {<<>>}, ProceedStep(t, e)
    PROVE  QueueInv'
<1> DEFINE p == task[t].pos
<1>0. RunInv /\ RunInv' /\ TypeInv /\ task \in [Tasks -> Frame]
  BY RunNext DEF QueueInv, RunInv, TypeInv, TypeOK
<1>1. /\ task[t].pc # "idle" /\ task[t].list = generation /\ operations # <<>>
      /\ p \in 1..Len(operations) /\ task[t].op = operations[p]
      /\ \A u \in Tasks : u # t => task[u].pc = "idle"
  BY <1>0 DEF ProceedStep, QueueInv, OneAtATime, RunInv, ListInv, InList
<1>2. /\ Len(operations) \in Nat /\ added \in Nat /\ Base \in Nat
      /\ added = Base + Len(operations)
  BY <1>0 DEF QueueInv, Base, TypeInv, TypeOK
<1>3. executed' = executed \cup {Base + p}
  BY <1>1 DEF ProceedStep, QueueInv
<1>4. \A n \in 1..(Base + p) : n \in executed'
  BY <1>1, <1>3 DEF QueueInv
<1>5. \A n \in executed' : 1..n \subseteq executed'
  BY <1>3, <1>4 DEF QueueInv
<1>6. CASE GoesOn(t, e)
  <2>1. UNCHANGED <<operations, added, generation>>
    BY <1>6 DEF GoesOn, ProceedStep
  <2>2. PICK g \in Frame : Moved(t, g) /\ (g = Ended("value_error") \/ Runs(g, p + 1))
    BY <1>6 DEF GoesOn, StartsAt
  <2>3. \A u \in Tasks : task'[u] = IF u = t THEN g ELSE task[u]
    BY <1>0, <2>2 DEF Moved
  <2>4. g.pc # "idle" => g.list = generation /\ g.pos = p + 1
    BY <2>2 DEF Runs, Ended
  <2>5. \A n \in 1..(Base + (p + 1)) : n # Base + (p + 1) => n \in executed'
    <3> HIDE DEF p
    <3>1. \A n \in 1..(Base + (p + 1)) :
             n # Base + (p + 1) => n \in 1..(Base + p)
      BY <1>1, <1>2
    <3> QED
      BY <1>4, <3>1
  <2>6. Base' = Base
    BY <2>1 DEF Base
  <2>7. ASSUME NEW u \in Tasks, task'[u].pc # "idle"
        PROVE  /\ task'[u].list = generation' /\ operations' # <<>>
               /\ \A n \in 1..(Base + task'[u].pos) :
                     n # Base + task'[u].pos => n \in executed'
    <3>1. u = t /\ task'[u] = g
      BY <1>1, <2>3, <2>7
    <3> QED
      BY <1>1, <2>1, <2>4, <2>5, <2>7, <3>1
  <2>8. 1..Base \subseteq executed'
    BY <1>3 DEF QueueInv
  <2> QED
    BY <1>0, <1>2, <1>5, <2>1, <2>6, <2>7, <2>8 DEF QueueInv
<1>7. CASE Finishes(t)
  <2>1. p = Len(operations) /\ operations' = <<>> /\ added' = added
    BY <1>1, <1>2, <1>7 DEF Finishes, ProceedStep
  <2>2. Base' = added
    BY <1>2, <2>1 DEF Base
  <2>3. 1..added \subseteq executed'
    BY <1>2, <1>4, <2>1
  <2>4. \A u \in Tasks : task'[u].pc = "idle"
    <3>1. PICK o : Moved(t, Ended(o))
      BY <1>7 DEF Finishes
    <3>2. \A u \in Tasks : task'[u] = IF u = t THEN Ended(o) ELSE task[u]
      BY <1>0, <3>1 DEF Moved
    <3>3. Ended(o).pc = "idle"
      BY DEF Ended
    <3> QED
      BY <1>1, <3>2, <3>3
  <2> QED
    BY <1>0, <1>2, <1>5, <2>1, <2>2, <2>3, <2>4 DEF QueueInv
<1> QED
  BY <1>6, <1>7 DEF ProceedStep

LEMMA QueueNext ==
    ASSUME QueueInv, OneAtATime, [Next]_vars
    PROVE  QueueInv'
<1>0. RunInv /\ RunInv' /\ TypeInv /\ task \in [Tasks -> Frame]
  BY RunNext DEF QueueInv, RunInv, TypeInv, TypeOK
<1>1. CASE QuietStep
  BY <1>0, <1>1 DEF QuietStep, builderVars, history, QueueInv, Base
<1>2. ASSUME NEW t \in Tasks, NEW g \in Frame, Moved(t, g),
             UNCHANGED <<operations, generation, added, executed>>,
             g.pc # "idle" =>
                 /\ g.list = generation /\ operations # <<>>
                 /\ \A n \in 1..(Base + g.pos) :
                       n # Base + g.pos => n \in executed
      PROVE  QueueInv'
  <2>1. \A u \in Tasks : task'[u] = IF u = t THEN g ELSE task[u]
    BY <1>0, <1>2 DEF Moved
  <2>2. Base' = Base
    BY <1>2 DEF Base
  <2>3. ASSUME NEW u \in Tasks, task'[u].pc # "idle"
        PROVE  /\ task'[u].list = generation' /\ operations' # <<>>
               /\ \A n \in 1..(Base' + task'[u].pos) :
                     n # Base' + task'[u].pos => n \in executed'
    <3>1. CASE u = t
      BY <1>2, <2>1, <2>2, <2>3, <3>1
    <3>2. CASE u # t
      BY <1>2, <2>1, <2>2, <2>3, <3>2 DEF QueueInv
    <3> QED
      BY <3>1, <3>2
  <2> QED
    BY <1>0, <1>2, <2>2, <2>3 DEF QueueInv
<1>3. ASSUME NEW t \in Tasks, StayStep(t) PROVE QueueInv'
  <2>1. PICK g \in Frame :
           /\ Moved(t, g)
           /\ g.pc # "idle" => /\ g.pc = task[t].pc /\ g.list = task[t].list
                               /\ g.pos = task[t].pos
    BY <1>3 DEF StayStep
  <2> QED
    BY <1>2, <1>3, <2>1 DEF StayStep, QueueInv
<1>4. ASSUME NEW t \in Tasks, BeginStep(t) PROVE QueueInv'
  <2>1. PICK g \in Frame : Moved(t, g) /\ (g = Ended("value_error") \/ Runs(g, 1))
    BY <1>4 DEF BeginStep, StartsAt
  <2>2. g.pc # "idle" => g.list = generation /\ g.pos = 1
    BY <2>1 DEF Runs, Ended
  <2>3. \A n \in 1..(Base + 1) : n # Base + 1 => n \in executed
    BY DEF QueueInv
  <2> QED
    BY <1>2, <1>4, <2>1, <2>2, <2>3 DEF BeginStep, builderVars
<1> QED
  BY <1>0, <1>1, <1>3, <1>4, QueueAdd, QueueProceed, StepCases

\* As long as tasks do not overlap in a builder, no operation that was handed
\* to it is lost, and they run in the order they were added in: also those
\* that were added while the list was run, and after any number of exceptions,
\* cancellations and further awaits.
THEOREM NothingLost == Spec /\ []OneAtATime => []NoOpLost
<1>1. Init => QueueInv
  <2> SUFFICES ASSUME Init PROVE QueueInv
    OBVIOUS
  <2>1. RunInv /\ operations = <<>> /\ added = 0 /\ executed = {}
    BY RunInit DEF Init
  <2>2. Base = 0
    <3>1. added = 0 /\ Len(operations) = 0
      BY <2>1
    <3> QED
      BY <3>1 DEF Base
  <2>3. \A t \in Tasks : task[t].pc = "idle"
    BY DEF Init, Ended
  <2> QED
    BY <2>1, <2>2, <2>3 DEF QueueInv
<1>2. QueueInv /\ OneAtATime /\ [Next]_vars => QueueInv'
  BY QueueNext
<1>3. QueueInv => NoOpLost
  <2> SUFFICES ASSUME QueueInv,
                      NEW n \in 1..added, n \notin executed
               PROVE  \E k \in 1..Len(operations) : operations[k].id = n
    BY DEF NoOpLost, QueueInv
  <2> DEFINE k == n - Base
  <2>1. /\ Base \in Nat /\ Len(operations) \in Nat /\ added \in Nat
        /\ added = Base + Len(operations)
    BY DEF QueueInv, RunInv, TypeInv, TypeOK, Base
  <2>2. n \notin 1..Base
    BY DEF QueueInv
  <2>3. k \in 1..Len(operations) /\ n = Base + k
    BY <2>1, <2>2
  <2> HIDE DEF k
  <2> QED
    BY <2>3 DEF QueueInv
<1> QED
  BY <1>1, <1>2, <1>3, PTL DEF Spec

\* So it is for the only task of a program.
COROLLARY OneTaskLosesNothing ==
    (\A t, u \in Tasks : t = u) => (Spec => []NoOpLost)
<1> SUFFICES ASSUME \A t, u \in Tasks : t = u PROVE Spec => []NoOpLost
  OBVIOUS
<1>1. OneAtATime
  BY DEF OneAtATime
<1> QED
  BY <1>1, NothingLost, PTL

-----------------------------------------------------------------------------
(* What is left in the list.                                                *)

\* No operation has a number that was not given out yet.
Numbered ==
    /\ \A n \in executed : n <= added
    /\ \A k \in 1..Len(operations) : operations[k].id <= added
    /\ \A t \in Tasks : task[t].op.id <= added

OnceInv == RunInv /\ Numbered /\ RunsOnce

LEMMA OnceAdd ==
    ASSUME OnceInv, NEW c \in Chains, AddChain(c)
    PROVE  OnceInv'
<1>0. RunInv /\ RunInv' /\ TypeInv
  BY RunNext DEF OnceInv, RunInv, Next
<1>1. /\ operations \in Seq(Operation) /\ added \in Nat /\ Len(operations) \in Nat
      /\ NewOps(c) \in Seq(Operation) /\ executed \subseteq Nat
      /\ task \in [Tasks -> Frame]
      /\ Len(c) \in Nat /\ Len(NewOps(c)) = Len(c) /\ Len(c) >= 1
  BY <1>0, NewOpsTyped DEF TypeInv, TypeOK
<1>2. /\ operations' = operations \o NewOps(c) /\ added' = added + Len(c)
      /\ UNCHANGED <<task, executed>>
  BY DEF AddChain, AddOperations, NewOps
<1>3. \A k \in 1..Len(c) : NewOps(c)[k].id = added + k
  BY DEF NewOps
<1>4. /\ Len(operations') = Len(operations) + Len(c)
      /\ \A k \in 1..Len(operations) : operations'[k] = operations[k]
      /\ \A k \in 1..Len(c) : operations'[Len(operations) + k] = NewOps(c)[k]
  <2>1. \A b \in Seq(Operation) :
           /\ Len(operations \o b) = Len(operations) + Len(b)
           /\ \A k \in 1..Len(operations) : (operations \o b)[k] = operations[k]
           /\ \A k \in 1..Len(b) : (operations \o b)[Len(operations) + k] = b[k]
    BY <1>1, ConcatAt
  <2> QED
    BY <1>1, <1>2, <2>1
<1>5. ASSUME NEW k \in 1..Len(operations')
      PROVE  \/ k \in 1..Len(operations) /\ operations'[k] = operations[k]
             \/ \E j \in 1..Len(c) : operations'[k].id = added + j
  <2>1. CASE k \in 1..Len(operations)
    BY <1>4, <2>1
  <2>2. CASE k \notin 1..Len(operations)
    <3> DEFINE j == k - Len(operations)
    <3>1. j \in 1..Len(c) /\ k = Len(operations) + j
      BY <1>1, <1>4, <2>2
    <3> HIDE DEF j
    <3> QED
      BY <1>3, <1>4, <3>1
  <2> QED
    BY <2>1, <2>2
<1>6. \A j \in 1..Len(c) : added + j <= added' /\ added + j \notin executed
  BY <1>1, <1>2 DEF OnceInv, Numbered
<1>7. Numbered'
  <2>1. \A k \in 1..Len(operations) : operations[k].id \in Nat /\ operations[k].id <= added
    <3>1. \A k \in 1..Len(operations) : operations[k] \in Operation
      BY <1>1
    <3> QED
      BY <3>1 DEF OnceInv, Numbered, Operation
  <2>2. \A t \in Tasks : task[t].op.id \in Nat /\ task[t].op.id <= added
    BY <1>1 DEF OnceInv, Numbered, Frame, Operation
  <2>3. \A n \in Nat : n <= added => n <= added'
    BY <1>1, <1>2
  <2>4. \A k \in 1..Len(operations') : operations'[k].id <= added'
    BY <1>5, <1>6, <2>1, <2>3
  <2> QED
    BY <1>1, <1>2, <2>2, <2>3, <2>4 DEF OnceInv, Numbered
<1>8. RunsOnce'
  <2> SUFFICES ASSUME \A t \in Tasks :
                         /\ task[t].pc = "idle"
                         /\ task[t].outcome \in {"none", "returned", "never_proposed"},
                      NEW k \in 1..Len(operations')
               PROVE  operations'[k].id \notin executed
    BY <1>2 DEF RunsOnce
  <2>1. \A i \in 1..Len(operations) : operations[i].id \notin executed
    BY DEF OnceInv, RunsOnce
  <2> QED
    BY <1>5, <1>6, <2>1
<1> QED
  BY <1>0, <1>7, <1>8 DEF OnceInv

LEMMA OnceNext ==
    ASSUME OnceInv, [Next]_vars
    PROVE  OnceInv'
<1>0. RunInv /\ RunInv' /\ TypeInv /\ task \in [Tasks -> Frame]
  BY RunNext DEF OnceInv, RunInv, TypeInv, TypeOK
<1>1. CASE QuietStep
  BY <1>0, <1>1 DEF QuietStep, builderVars, history, OnceInv, Numbered, RunsOnce
\* A task moves on to frame g, which is at work, has failed, or leaves an empty
\* list behind.
<1>2. ASSUME NEW t \in Tasks, NEW g \in Frame, Moved(t, g), added' = added,
             g.op.id <= added,
             \A n \in executed' : n <= added,
             operations' \in {operations, <<>>},
             \/ g.pc # "idle"
             \/ g.outcome \notin {"none", "returned", "never_proposed"}
             \/ operations' = <<>>
      PROVE  OnceInv'
  <2>1. \A u \in Tasks : task'[u] = IF u = t THEN g ELSE task[u]
    BY <1>0, <1>2 DEF Moved
  <2>2. \A k \in 1..Len(operations') : operations'[k].id <= added
    BY <1>2 DEF OnceInv, Numbered
  <2>3. Numbered'
    BY <1>2, <2>1, <2>2 DEF OnceInv, Numbered
  <2>4. RunsOnce'
    BY <1>2, <2>1 DEF RunsOnce
  <2> QED
    BY <1>0, <2>3, <2>4 DEF OnceInv
<1>3. \A n \in executed : n <= added
  BY DEF OnceInv, Numbered
<1>4. \A o : Ended(o).op.id = 0 /\ Ended(o).outcome = o
  BY DEF Ended, NoOperation
<1>5. added \in Nat
  BY <1>0 DEF TypeInv, TypeOK
<1>6. ASSUME NEW t \in Tasks, StayStep(t) PROVE OnceInv'
  <2>1. PICK g \in Frame :
           /\ Moved(t, g)
           /\ InList(g, operations, generation)
           /\ g.outcome # "returned"
           /\ g.op.id \in {task[t].op.id, 0}
           /\ g.outcome \in {"none", "never_proposed"} =>
                 g.pc # "idle" \/ operations = <<>>
    BY <1>6 DEF StayStep, NoOperation
  <2> QED
    BY <1>2, <1>3, <1>5, <1>6, <2>1 DEF StayStep, OnceInv, Numbered
<1>7. ASSUME NEW t \in Tasks, NEW n \in 1..Len(operations), NEW e, StartsAt(t, n, e),
             added' = added, operations' = operations,
             \A m \in executed' : m <= added
      PROVE  OnceInv'
  <2>1. PICK g \in Frame : Moved(t, g) /\ (g = Ended("value_error") \/ Runs(g, n))
    BY <1>7 DEF StartsAt
  <2>2. \/ g.outcome = "value_error" /\ g.op.id = 0
        \/ g.pc # "idle" /\ g.op = operations[n]
    <3>1. operations[n].kind # "idle"
      <4>1. operations[n] \in Operation
        BY <1>0 DEF TypeInv, TypeOK
      <4> QED
        BY <4>1 DEF Operation
    <3> QED
      BY <1>4, <2>1, <3>1 DEF Runs
  <2> QED
    BY <1>2, <1>5, <1>7, <2>1, <2>2 DEF OnceInv, Numbered
<1>8. ASSUME NEW t \in Tasks, BeginStep(t) PROVE OnceInv'
  <2>1. 1 \in 1..Len(operations)
    BY <1>0, <1>8 DEF BeginStep, TypeInv, TypeOK
  <2> QED
    BY <1>3, <1>7, <1>8, <2>1 DEF BeginStep, builderVars
<1>9. ASSUME NEW t \in Tasks, NEW e \in EndorsedTX \cup {<<>>}, ProceedStep(t, e)
      PROVE  OnceInv'
  <2>1. \A m \in executed' : m <= added
    BY <1>3, <1>9 DEF ProceedStep, OnceInv, Numbered
  <2>2. CASE GoesOn(t, e)
    BY <1>7, <1>9, <2>1, <2>2 DEF GoesOn, ProceedStep
  <2>3. CASE Finishes(t)
    <3>1. PICK o \in {"returned", "never_proposed"} : Moved(t, Ended(o))
      BY <2>3 DEF Finishes
    <3>2. Ended(o) \in Frame
      BY EndedTyped DEF Outcome
    <3> QED
      BY <1>2, <1>4, <1>5, <1>9, <2>1, <2>3, <3>1, <3>2 DEF Finishes, ProceedStep
  <2> QED
    BY <1>9, <2>2, <2>3 DEF ProceedStep
<1> QED
  BY <1>0, <1>1, <1>6, <1>8, <1>9, OnceAdd, StepCases

\* For any number of tasks sharing a builder, any chains and any errors: an
\* operation that has run is in the list only while a task is in the builder or
\* after an await that failed, so a builder that returned can be awaited again,
\* with further operations or without, and nothing is done twice.
THEOREM NothingTwice == Spec => []RunsOnce
<1>1. Init => OnceInv
  <2> SUFFICES ASSUME Init PROVE OnceInv
    OBVIOUS
  <2>1. RunInv /\ operations = <<>> /\ added = 0 /\ executed = {}
    BY RunInit DEF Init
  <2>2. \A t \in Tasks : task[t].op.id = 0
    BY DEF Init, Ended, NoOperation
  <2>3. 1..Len(operations) = {}
    BY <2>1
  <2> QED
    BY <2>1, <2>2, <2>3 DEF OnceInv, Numbered, RunsOnce
<1>2. OnceInv /\ [Next]_vars => OnceInv'
  BY OnceNext
<1>3. OnceInv => RunsOnce
  BY DEF OnceInv
<1> QED
  BY <1>1, <1>2, <1>3, PTL DEF Spec

-----------------------------------------------------------------------------
(* The payload of a builder that is awaited once.                           *)

\* A submit comes after all the proposes.
SubmitsLast(ops) ==
    \A k, l \in 1..Len(ops) :
        ops[k].kind = "submit" /\ ops[l].kind = "propose" => l < k

\* One chain, awaited once: Gateway.invoke and the functions of operations make
\* a transaction for each call.
OneCall ==
    /\ MaxAwaits = 1
    /\ \A c, d \in Chains : Len(c) + Len(d) > MaxOps
    /\ \A c \in Chains : SubmitsLast(c)

\* A frame beyond a submit of the list.
PastSubmit(g) == \E k \in 1..g.pos : operations[k].kind = "submit"

\* Whatever was sent was built from the responses the builder holds, and no
\* task can replace them any more.
PayloadInv ==
    /\ RunInv
    /\ added \in Nat /\ (added = 0 => operations = <<>>)
    /\ added # 0 => \E c \in Chains : added >= Len(c)
    /\ SubmitsLast(operations)
    /\ awaits = 0 => sent = <<>> /\ \A t \in Tasks : task[t].pc = "idle"
    /\ OneAtATime
    /\ \A t \in Tasks :
          task[t].pc # "idle" => task[t].list = generation /\ operations # <<>>
    /\ sent # <<>> =>
          /\ endorsed_tx \in EndorsedTX
          /\ \A n \in 1..Len(sent) : sent[n].env = BuildEnvelope(endorsed_tx)
          /\ \A t \in Tasks : task[t].pc # "idle" => PastSubmit(task[t])

\* After a submit a task is in no propose.
LEMMA PastPropose ==
    ASSUME PayloadInv, sent # <<>>, NEW t \in Tasks
    PROVE  task[t].pc # "propose"
<1> SUFFICES ASSUME task[t].pc = "propose" PROVE FALSE
  OBVIOUS
<1> DEFINE p == task[t].pos
<1>1. /\ p \in 1..Len(operations) /\ operations[p].kind = "propose"
      /\ Len(operations) \in Nat
  BY DEF PayloadInv, RunInv, ListInv, InList, TypeInv, TypeOK
<1>2. PICK k \in 1..p : operations[k].kind = "submit"
  BY DEF PayloadInv, PastSubmit
<1> HIDE DEF p
<1>3. k \in 1..Len(operations) /\ ~(p < k)
  BY <1>1, <1>2
<1> QED
  BY <1>1, <1>2, <1>3 DEF PayloadInv, SubmitsLast

\* What is sent next, from the responses the builder then holds.
LEMMA AppendPayload ==
    ASSUME TypeInv, NEW e,
           sent # <<>> => \A n \in 1..Len(sent) : sent[n].env = BuildEnvelope(e),
           \/ sent' = sent
           \/ sent' = Append(sent, [env |-> BuildEnvelope(e), state |-> "sent"])
    PROVE  \A n \in 1..Len(sent') : sent'[n].env = BuildEnvelope(e)
<1>1. sent \in Seq(Send) /\ Len(sent) \in Nat
  BY DEF TypeInv, TypeOK, FabricTypeOK
<1>2. \A n \in 1..Len(sent) : sent[n].env = BuildEnvelope(e)
  BY <1>1
<1>3. CASE sent' = sent
  BY <1>2, <1>3
<1>4. CASE sent' = Append(sent, [env |-> BuildEnvelope(e), state |-> "sent"])
  <2> DEFINE m == [env |-> BuildEnvelope(e), state |-> "sent"]
  <2>1. m.env = BuildEnvelope(e)
    OBVIOUS
  <2> HIDE DEF m
  <2>2. sent' = Append(sent, m)
    BY <1>4 DEF m
  <2>3. /\ Len(sent') = Len(sent) + 1
        /\ \A n \in 1..Len(sent) : sent'[n] = sent[n]
        /\ sent'[Len(sent) + 1] = m
    BY <1>1, <2>2
  <2>4. \A n \in 1..Len(sent') : n \in 1..Len(sent) \/ n = Len(sent) + 1
    BY <1>1, <2>3
  <2> QED
    BY <1>2, <2>1, <2>3, <2>4
<1> QED
  BY <1>3, <1>4

LEMMA PayloadAdd ==
    ASSUME OneCall, PayloadInv, NEW c \in Chains, AddChain(c)
    PROVE  PayloadInv'
<1>0. RunInv /\ RunInv' /\ TypeInv
  BY RunNext DEF PayloadInv, RunInv, Next
<1>1. /\ Len(c) \in Nat /\ Len(c) >= 1 /\ NewOps(c) \in Seq(Operation)
      /\ Len(NewOps(c)) = Len(c)
      /\ \A k \in 1..Len(c) : NewOps(c)[k].kind = c[k].kind
  BY <1>0, NewOpsTyped
<1>2. /\ added + Len(c) <= MaxOps /\ added' = added + Len(c)
      /\ operations' = operations \o NewOps(c)
      /\ UNCHANGED <<sent, task, awaits, endorsed_tx>>
  BY DEF AddChain, AddOperations, NewOps, fabricVars
<1>3. added = 0
  <2> SUFFICES ASSUME added # 0 PROVE FALSE
    OBVIOUS
  <2>1. PICK d \in Chains : added >= Len(d)
    BY DEF PayloadInv
  <2>2. Len(d) \in Nat /\ Len(d) + Len(c) > MaxOps /\ MaxOps \in Nat
    BY TxBuilderAssumption DEF OneCall
  <2> QED
    BY <1>1, <1>2, <2>1, <2>2 DEF PayloadInv
<1>4. operations = <<>> /\ \A t \in Tasks : task[t].pc = "idle"
  BY <1>3 DEF PayloadInv
<1>5. operations' = NewOps(c)
  BY <1>1, <1>2, <1>4
<1>6. SubmitsLast(operations')
  BY <1>1, <1>5 DEF OneCall, SubmitsLast
<1>7. added' \in Nat /\ added' # 0 /\ added' >= Len(c)
  BY <1>1, <1>2, <1>3
<1> QED
  BY <1>0, <1>2, <1>4, <1>6, <1>7 DEF PayloadInv, OneAtATime

LEMMA PayloadMove ==
    ASSUME PayloadInv, RunInv', NEW t \in Tasks, NEW g \in Frame, Moved(t, g),
           UNCHANGED <<operations, generation, added>>,
           awaits' # 0, \A u \in Tasks : u # t => task[u].pc = "idle",
           g.pc # "idle" => g.list = generation /\ operations # <<>>,
           sent' # <<>> =>
               /\ endorsed_tx' \in EndorsedTX
               /\ \A n \in 1..Len(sent') : sent'[n].env = BuildEnvelope(endorsed_tx')
               /\ g.pc # "idle" => PastSubmit(g)
    PROVE  PayloadInv'
<1>1. \A u \in Tasks : task'[u] = IF u = t THEN g ELSE task[u]
  BY DEF Moved, PayloadInv, RunInv, TypeInv, TypeOK
<1>2. \A u \in Tasks : task'[u].pc # "idle" => u = t /\ task'[u] = g
  BY <1>1
<1>3. \A u \in Tasks : task'[u].pc # "idle" /\ sent' # <<>> => PastSubmit(task[u])'
  BY <1>2 DEF PastSubmit
<1>4. OneAtATime'
  BY <1>2 DEF OneAtATime
<1>5. \A u \in Tasks :
         task'[u].pc # "idle" => task'[u].list = generation' /\ operations' # <<>>
  BY <1>2
<1> QED
  BY <1>3, <1>4, <1>5 DEF PayloadInv

LEMMA PayloadNext ==
    ASSUME OneCall, PayloadInv, [Next]_vars
    PROVE  PayloadInv'
<1>0. /\ RunInv /\ RunInv' /\ TypeInv /\ task \in [Tasks -> Frame]
      /\ sent \in Seq(Send) /\ Len(sent) \in Nat /\ awaits \in Nat
  BY RunNext DEF PayloadInv, RunInv, TypeInv, TypeOK, FabricTypeOK
<1>1. CASE QuietStep
  <2>1. /\ UNCHANGED <<operations, generation, endorsed_tx, task, added, awaits>>
        /\ Len(sent') = Len(sent)
        /\ \A n \in 1..Len(sent) : sent'[n].env = sent[n].env
    BY <1>1 DEF QuietStep, builderVars, history
  <2>2. sent' # <<>> <=> sent # <<>>
    BY <1>0, <2>1 DEF RunInv, TypeInv, TypeOK, FabricTypeOK
  <2> QED
    BY <1>0, <2>1, <2>2 DEF PayloadInv, OneAtATime, PastSubmit
<1>2. ASSUME NEW t \in Tasks, task[t].pc # "idle"
      PROVE  awaits # 0 /\ \A u \in Tasks : u # t => task[u].pc = "idle"
  BY <1>2 DEF PayloadInv, OneAtATime
<1>3. ASSUME NEW t \in Tasks, StayStep(t) PROVE PayloadInv'
  <2>1. PICK g \in Frame :
           /\ Moved(t, g)
           /\ g.pc # "idle" => /\ g.pc = task[t].pc /\ g.list = task[t].list
                               /\ g.pos = task[t].pos
    BY <1>3 DEF StayStep
  <2>2. UNCHANGED <<operations, generation, added>> /\ awaits' \in {awaits, awaits + 1}
    BY <1>3 DEF StayStep
  <2>3. sent = <<>> => sent' = <<>>
    BY <1>3 DEF StayStep
  <2>4. sent # <<>> => endorsed_tx' = endorsed_tx
    BY <1>3, PastPropose DEF StayStep
  <2>5. sent # <<>> => /\ endorsed_tx \in EndorsedTX
                       /\ \A n \in 1..Len(sent) : sent[n].env = BuildEnvelope(endorsed_tx)
    BY DEF PayloadInv
  <2>6. sent # <<>> => \A n \in 1..Len(sent') : sent'[n].env = BuildEnvelope(endorsed_tx)
    <3> SUFFICES ASSUME sent # <<>>
                 PROVE  \A n \in 1..Len(sent') : sent'[n].env = BuildEnvelope(endorsed_tx)
      OBVIOUS
    <3>1. \/ sent' = sent
          \/ sent' = Append(sent, [env |-> BuildEnvelope(endorsed_tx), state |-> "sent"])
      BY <1>3, <2>5 DEF StayStep
    <3> QED
      BY <1>0, <2>5, <3>1, AppendPayload
  <2>7. CASE task[t].pc # "idle"
    <3>1. awaits' # 0 /\ \A u \in Tasks : u # t => task[u].pc = "idle"
      BY <1>0, <1>2, <2>2, <2>7
    <3>2. g.pc # "idle" => g.list = generation /\ operations # <<>>
      BY <2>1, <2>7 DEF PayloadInv
    <3>3. sent # <<>> /\ g.pc # "idle" => PastSubmit(g)
      BY <2>1, <2>7 DEF PayloadInv, PastSubmit
    <3> QED
      BY <1>0, <2>1, <2>2, <2>3, <2>4, <2>5, <2>6, <3>1, <3>2, <3>3, PayloadMove
  <2>8. CASE task[t].pc = "idle"
    <3>1. g.pc = "idle"
      BY <2>1, <2>8
    <3>2. \A u \in Tasks : task'[u] = IF u = t THEN g ELSE task[u]
      BY <1>0, <2>1 DEF Moved
    <3>3. \A u \in Tasks : task'[u].pc # "idle" => task'[u] = task[u]
      BY <3>1, <3>2
    <3>4. awaits' = 0 => awaits = 0
      BY <1>0, <2>2
    <3>5. OneAtATime'
      BY <3>3 DEF PayloadInv, OneAtATime
    <3>6. \A u \in Tasks :
             task'[u].pc # "idle" => task'[u].list = generation' /\ operations' # <<>>
      BY <2>2, <3>3 DEF PayloadInv
    <3>7. sent' # <<>> => \A u \in Tasks : task'[u].pc # "idle" => PastSubmit(task[u])'
      BY <2>2, <2>3, <3>3 DEF PayloadInv, PastSubmit
    <3>8. awaits' = 0 => sent' = <<>> /\ \A u \in Tasks : task'[u].pc = "idle"
      BY <2>3, <3>3, <3>4 DEF PayloadInv
    <3> QED
      BY <1>0, <2>2, <2>3, <2>4, <2>5, <2>6, <3>5, <3>6, <3>7, <3>8 DEF PayloadInv
  <2> QED
    BY <2>7, <2>8
<1>4. ASSUME NEW t \in Tasks, NEW n \in 1..Len(operations),
             NEW e \in EndorsedTX \cup {<<>>}, StartsAt(t, n, e), endorsed_tx' = e,
             UNCHANGED <<operations, generation, added>>, awaits' # 0,
             \A u \in Tasks : u # t => task[u].pc = "idle",
             sent # <<>> => /\ e = endorsed_tx
                            /\ \E k \in 1..n : operations[k].kind = "submit"
      PROVE  PayloadInv'
  <2>1. PICK g \in Frame : Moved(t, g) /\ (g = Ended("value_error") \/ Runs(g, n))
    BY <1>4 DEF StartsAt
  <2>2. g.pc # "idle" => g.list = generation /\ g.pos = n /\ operations # <<>>
    BY <1>4, <2>1 DEF Runs, Ended
  <2>3. \/ sent' = sent
        \/ /\ operations[n].kind = "submit" /\ e # <<>>
           /\ sent' = Append(sent, [env |-> BuildEnvelope(e), state |-> "sent"])
    BY <1>4 DEF StartsAt, SentFor
  <2>4. sent # <<>> => /\ e \in EndorsedTX
                       /\ \A m \in 1..Len(sent) : sent[m].env = BuildEnvelope(e)
    BY <1>4 DEF PayloadInv
  <2>5. \A m \in 1..Len(sent') : sent'[m].env = BuildEnvelope(e)
    BY <1>0, <2>3, <2>4, AppendPayload
  <2>6. sent' # <<>> => e \in EndorsedTX
    BY <2>3, <2>4
  <2>7. sent' # <<>> => \E k \in 1..n : operations[k].kind = "submit"
    BY <1>4, <2>3
  <2>8. sent' # <<>> /\ g.pc # "idle" => PastSubmit(g)
    BY <2>2, <2>7 DEF PastSubmit
  <2> QED
    BY <1>0, <1>4, <2>1, <2>2, <2>5, <2>6, <2>8, PayloadMove
<1>5. ASSUME NEW t \in Tasks, BeginStep(t) PROVE PayloadInv'
  <2>1. awaits = 0 /\ awaits' # 0
    BY <1>0, <1>5 DEF BeginStep, OneCall
  <2>2. sent = <<>> /\ \A u \in Tasks : task[u].pc = "idle"
    BY <2>1 DEF PayloadInv
  <2>3. 1 \in 1..Len(operations) /\ endorsed_tx \in EndorsedTX \cup {<<>>}
    BY <1>0, <1>5 DEF BeginStep, TypeInv, TypeOK
  <2>4. StartsAt(t, 1, endorsed_tx) /\ endorsed_tx' = endorsed_tx
        /\ UNCHANGED <<operations, generation, added>>
    BY <1>5 DEF BeginStep, builderVars
  <2> QED
    BY <1>4, <2>1, <2>2, <2>3, <2>4
<1>6. ASSUME NEW t \in Tasks, NEW e \in EndorsedTX \cup {<<>>}, ProceedStep(t, e)
      PROVE  PayloadInv'
  <2>1. /\ awaits' # 0 /\ \A u \in Tasks : u # t => task[u].pc = "idle"
        /\ UNCHANGED <<generation, added>> /\ endorsed_tx' = e
    BY <1>2, <1>6 DEF ProceedStep
  <2>2. sent # <<>> => e = endorsed_tx /\ PastSubmit(task[t])
    BY <1>6, PastPropose DEF ProceedStep, PayloadInv
  <2>3. CASE GoesOn(t, e)
    <3> DEFINE n == task[t].pos + 1
    <3>1. n \in 1..Len(operations) /\ StartsAt(t, n, e) /\ operations' = operations
      BY <2>3 DEF GoesOn
    <3>2. task[t].pos \in Nat
      BY <1>0 DEF Frame
    <3>3. sent # <<>> => \E k \in 1..n : operations[k].kind = "submit"
      BY <2>2, <3>2 DEF PastSubmit
    <3> HIDE DEF n
    <3> QED
      BY <1>4, <2>1, <2>2, <3>1, <3>3
  <2>4. CASE Finishes(t)
    <3>1. operations' = <<>> /\ sent' = sent
      BY <2>4 DEF Finishes
    <3>2. PICK o : Moved(t, Ended(o))
      BY <2>4 DEF Finishes
    <3>3. \A u \in Tasks : task'[u] = IF u = t THEN Ended(o) ELSE task[u]
      BY <1>0, <3>2 DEF Moved
    <3>4. \A u \in Tasks : task'[u].pc = "idle"
      BY <2>1, <3>3 DEF Ended
    <3>5. SubmitsLast(operations')
      BY <3>1 DEF SubmitsLast
    <3>6. sent' # <<>> =>
             /\ endorsed_tx' \in EndorsedTX
             /\ \A n \in 1..Len(sent') : sent'[n].env = BuildEnvelope(endorsed_tx')
      BY <2>1, <2>2, <3>1 DEF PayloadInv
    <3> QED
      BY <1>0, <2>1, <3>1, <3>4, <3>5, <3>6 DEF PayloadInv, OneAtATime
  <2> QED
    BY <1>6, <2>3, <2>4 DEF ProceedStep
<1> QED
  BY <1>0, <1>1, <1>3, <1>5, <1>6, PayloadAdd, StepCases

\* If the first response failed, the envelope carries no result that a peer
\* signed; else its payload is the first one, which response_payload returns.
LEMMA PayloadOfFirst ==
    ASSUME NEW e \in EndorsedTX, BuildEnvelope(e).payload \in Payload
    PROVE  ResponsePayload(e) = BuildEnvelope(e).payload
<1>1. 1 \in DOMAIN e /\ DOMAIN e = 1..Len(EndorsingPeers) /\ e[1] \in Response
  BY TxBuilderAssumption DEF EndorsedTX
<1>2. BuildEnvelope(e).payload = e[1].payload
  BY DEF BuildEnvelope
<1>3. e[1].status = 200
  BY <1>1, <1>2, FabricAssumption DEF Response
<1>4. \A i \in DOMAIN e :
         (e[i].status = 200 /\ \A j \in 1..(i - 1) : e[j].status # 200) <=> i = 1
  BY <1>1, <1>3, TxBuilderAssumption
<1>5. (CHOOSE i \in DOMAIN e :
          e[i].status = 200 /\ \A j \in 1..(i - 1) : e[j].status # 200) = 1
  BY <1>1, <1>4
<1> QED
  BY <1>2, <1>5 DEF ResponsePayload

\* A caller that makes one call, as Gateway.invoke does, is told the result that
\* the channel committed: whatever the endorsing peers disagree about, the
\* payload of the first successful response is the one of the envelope
\* whenever that envelope is valid.
THEOREM CommittedPayload == OneCall => (Spec => []PayloadCommitted)
<1> SUFFICES ASSUME OneCall PROVE Spec => []PayloadCommitted
  OBVIOUS
<1>1. Init => PayloadInv /\ ReportInv /\ ChainInv
  <2> SUFFICES ASSUME Init PROVE PayloadInv /\ ReportInv /\ ChainInv
    OBVIOUS
  <2>1. RunInv /\ ChainInv /\ ReportInv
    BY LifecycleInit DEF ReportInv, Init
  <2>2. /\ operations = <<>> /\ added = 0 /\ sent = <<>>
        /\ \A t \in Tasks : task[t].pc = "idle"
    BY DEF Init, FabricInit, Ended
  <2> QED
    BY <2>1, <2>2 DEF PayloadInv, SubmitsLast, OneAtATime
<1>2. PayloadInv /\ ReportInv /\ ChainInv /\ [Next]_vars
         => (PayloadInv /\ ReportInv /\ ChainInv)'
  BY PayloadNext, ReportNext, ChainNext DEF ReportInv
<1>3. PayloadInv /\ ReportInv /\ ChainInv => PayloadCommitted
  <2> SUFFICES ASSUME PayloadInv, ReportInv, ChainInv, filtered_tx = "VALID"
               PROVE  \E i \in 1..Len(chain) :
                         /\ IsValidAt(i)
                         /\ sent[chain[i].rpc].env.payload
                               = ResponsePayload(endorsed_tx)
    BY DEF PayloadCommitted
  <2>1. PICK i \in 1..Len(chain) : IsValidAt(i)
    BY DEF ReportInv, OnLedger, IsValidAt
  <2>2. chain[i].rpc \in 1..Len(sent) /\ sent[chain[i].rpc].env.payload \in Payload
    <3>1. /\ chain[i].rpc \in 0..Len(sent) /\ chain[i].rpc # 0
          /\ sent[chain[i].rpc].env.payload \in Payload
      BY <2>1 DEF ChainInv, IsValidAt, IsOurs
    <3>2. Len(sent) \in Nat
      BY DEF PayloadInv, RunInv, TypeInv, TypeOK, FabricTypeOK
    <3> QED
      BY <3>1, <3>2
  <2>3. sent # <<>>
    BY <2>2
  <2>4. /\ endorsed_tx \in EndorsedTX
        /\ sent[chain[i].rpc].env = BuildEnvelope(endorsed_tx)
    BY <2>2, <2>3 DEF PayloadInv
  <2>5. sent[chain[i].rpc].env.payload = ResponsePayload(endorsed_tx)
    <3> DEFINE env == sent[chain[i].rpc].env
    <3>1. env = BuildEnvelope(endorsed_tx) /\ env.payload \in Payload
      BY <2>2, <2>4
    <3> HIDE DEF env
    <3>2. BuildEnvelope(endorsed_tx).payload \in Payload
      BY <3>1
    <3>3. ResponsePayload(endorsed_tx) = BuildEnvelope(endorsed_tx).payload
      BY <2>4, <3>2, PayloadOfFirst
    <3>4. env.payload = ResponsePayload(endorsed_tx)
      BY <3>1, <3>3
    <3> QED
      BY <3>4 DEF env
  <2> QED
    BY <2>1, <2>5
<1> QED
  BY <1>1, <1>2, <1>3, PTL DEF Spec
=============================================================================
