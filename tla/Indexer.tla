------------------------------ MODULE Indexer ------------------------------
(***************************************************************************)
(* What HOSE does with the Blokli indexer, together: the identity bridge,  *)
(* the channel watcher, and the API request for the channels of a peer,    *)
(* which uses the bridge to find the key and asks the indexer itself.      *)
(***************************************************************************)
EXTENDS IdentityBridge, ChannelWatcher

VARIABLE request    \* a request for the channels of a peer

vars == <<chain, bridgeVars, watcherVars, request>>

-----------------------------------------------------------------------------
Unasked == [step |-> "none"]
Querying(p) == [step |-> "querying", peer |-> p, keys |-> peerToKey[p]]
Answered(p, channels) == [step |-> "answered", peer |-> p, channels |-> channels]

Init ==
    /\ InitIndexer
    /\ InitBridge
    /\ InitWatcher
    /\ request = Unasked

\* get_peer_channels looks the key up in one map only, without a query; for a
\* peer that is not there the answer is 404 at once.
AskChannels(p) ==
    /\ request = Unasked
    /\ peerToKey[p] # {}
    /\ request' = Querying(p)
    /\ UNCHANGED <<chain, bridgeVars, watcherVars>>

\* Mutant: the channels of every key.
ChannelsAnswered_Unfiltered ==
    /\ request.step = "querying"
    /\ request' = Answered(request.peer, {c \in Channels : chain[c] # <<>>})
    /\ UNCHANGED <<chain, bridgeVars, watcherVars>>
\* The indexer's answer.
ChannelsAnswered ==
    /\ request.step = "querying"
    /\ request' = Answered(request.peer, UNION {PeerChannels(k) : k \in request.keys})
    /\ UNCHANGED <<chain, bridgeVars, watcherVars>>

\* The client has its answer, or the query failed (502).
RequestDone ==
    /\ request # Unasked
    /\ request' = Unasked
    /\ UNCHANGED <<chain, bridgeVars, watcherVars>>

Next ==
    \/ NextIndexer /\ UNCHANGED <<bridgeVars, watcherVars, request>>
    \/ NextBridge /\ UNCHANGED <<chain, watcherVars, request>>
    \/ NextWatcher /\ UNCHANGED <<chain, bridgeVars, request>>
    \/ \E p \in Peers : AskChannels(p)
    \/ ChannelsAnswered
    \/ RequestDone

Spec == Init /\ [][Next]_vars

\* The watcher's task runs, a query ends one way or the other, and the queries
\* for a key do not fail for ever.
OfWatcher(A) == A /\ UNCHANGED <<chain, bridgeVars, request>>
FairSpec ==
    /\ Spec
    /\ WF_vars(OfWatcher(NextWatcher))
    /\ \A k \in Keys : SF_vars(OfWatcher(PollAnswered(k)))

-----------------------------------------------------------------------------
(* What must hold *)

\* Every variable keeps its type.
TypeOK ==
    /\ chain \in [Channels -> Seq(Data)]
    /\ BridgeTypeOK
    /\ WatcherTypeOK
    /\ request.step \in {"none", "querying", "answered"}

\* The channels answered for a peer are channels of its own account, from maps
\* that other calls are writing meanwhile.
ChannelsAreOfThePeer ==
    request.step = "answered" =>
        \A c \in request.channels : \E k \in EndsOf[c] : AccountOf[k] = request.peer
=============================================================================
