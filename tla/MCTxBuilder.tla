---------------------------- MODULE MCTxBuilder ----------------------------
(***************************************************************************)
(* Instances of TxBuilder for TLC: the peers and the method chains.        *)
(***************************************************************************)
EXTENDS TxBuilder, TLC

CONSTANTS p1, p2

OnePeer == <<p1>>
TwoPeers == <<p1, p2>>

\* The chain of a Gateway that invokes.
InvokeChain == {GatewayInvoke}

\* All that invoke: the functions of operations wait for the first peer only.
RaisingChains == {GatewayInvoke, Invoke, InstantiateChaincode}

\* The same, and a chain that goes on when a peer has refused.
WaitingChains == RaisingChains \cup {<<Propose(FALSE), Submit, WaitForCommit(TRUE)>>}

\* Gateway.invoke's chain and the one that looks at errors itself.
BothChains == {GatewayInvoke,
               <<Propose(FALSE), Submit, WaitForCommit(FALSE)>>}

\* The queries, and each method on its own.
Steps == {GatewayQuery, Query, QueryInstantiatedChaincodes, <<Propose(FALSE)>>,
          <<Submit>>, <<WaitForCommit(TRUE)>>, <<WaitForCommit(FALSE)>>}

Symmetry == Permutations(Tasks)
=============================================================================
