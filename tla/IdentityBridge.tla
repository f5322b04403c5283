--------------------------- MODULE IdentityBridge ---------------------------
(***************************************************************************)
(* The cache of who is who: blockchain key ids and peer ids, in two maps   *)
(* under two locks, filled from the indexer on a miss or by whoever knows  *)
(* a mapping.  A call that is dropped at an await leaves it half done.     *)
(***************************************************************************)
EXTENDS Blokli

CONSTANT Callers    \* calls under way at the same time

VARIABLES
    keyToPeer,  \* key_to_peer: at most one peer per key
    peerToKey,  \* peer_to_key: at most one key per peer
    call,       \* where each call is
    cut         \* history: keys a dropped call wrote one entry of, and none the other since

bridgeVars == <<keyToPeer, peerToKey, call, cut>>

-----------------------------------------------------------------------------
Idle == [step |-> "idle"]
Calls == {Idle} \cup [step : {"querying", "fillingKey", "fillingPeer"}, key : Keys]

InitBridge ==
    /\ keyToPeer = [k \in Keys |-> {}]
    /\ peerToKey = [p \in Peers |-> {}]
    /\ call = [c \in Callers |-> Idle]
    /\ cut = {}

At(c, step) == call[c].step = step
Peer(c) == AccountOf[call[c].key]
Proceed(c, step) == call' = [call EXCEPT ![c].step = step]
Finish(c) == call' = [call EXCEPT ![c] = Idle]

\* peer_id_for_key: what is cached is returned, what is not is asked for.
Lookup(c, k) ==
    /\ At(c, "idle")
    /\ keyToPeer[k] = {}
    /\ call' = [call EXCEPT ![c] = [step |-> "querying", key |-> k]]
    /\ UNCHANGED <<keyToPeer, peerToKey, cut>>

\* The indexer's answer: an account with a peer id, or none, or an error.
QueryReturns(c) ==
    /\ At(c, "querying")
    /\ \/ Proceed(c, "fillingKey")
       \/ Finish(c)
    /\ UNCHANGED <<keyToPeer, peerToKey, cut>>

\* insert_mapping, of a mapping that holds.
InsertMapping(c, k) ==
    /\ At(c, "idle")
    /\ call' = [call EXCEPT ![c] = [step |-> "fillingKey", key |-> k]]
    /\ UNCHANGED <<keyToPeer, peerToKey, cut>>

\* Mutant: the other map is written first.
FillKey_PeerFirst(c) ==
    /\ At(c, "fillingKey")
    /\ peerToKey' = [peerToKey EXCEPT ![Peer(c)] = {call[c].key}]
    /\ Proceed(c, "fillingPeer")
    /\ UNCHANGED <<keyToPeer, cut>>
\* The write under the first lock, and the one under the second.
FillKey(c) ==
    /\ At(c, "fillingKey")
    /\ keyToPeer' = [keyToPeer EXCEPT ![call[c].key] = {Peer(c)}]
    /\ Proceed(c, "fillingPeer")
    /\ UNCHANGED <<peerToKey, cut>>

FillPeer(c) ==
    /\ At(c, "fillingPeer")
    /\ peerToKey' = [peerToKey EXCEPT ![Peer(c)] = {call[c].key}]
    /\ Finish(c)
    /\ cut' = cut \ {call[c].key}
    /\ UNCHANGED keyToPeer

\* The future of the call is dropped at one of its awaits.
Dropped(c) ==
    /\ ~ At(c, "idle")
    /\ cut' = IF At(c, "fillingPeer") THEN cut \cup {call[c].key} ELSE cut
    /\ Finish(c)
    /\ UNCHANGED <<keyToPeer, peerToKey>>

NextBridge ==
    \E c \in Callers :
        \/ \E k \in Keys : Lookup(c, k) \/ InsertMapping(c, k)
        \/ QueryReturns(c)
        \/ FillKey(c)
        \/ FillPeer(c)
        \/ Dropped(c)

-----------------------------------------------------------------------------
BridgeTypeOK ==
    /\ keyToPeer \in [Keys -> SUBSET Peers]
    /\ peerToKey \in [Peers -> SUBSET Keys]
    /\ cut \subseteq Keys
    /\ call \in [Callers -> Calls]

\* A key found by its peer is found to be that peer's; and a peer found by its
\* key is found the other way too, once no call is between the two locks, unless
\* one was dropped there and none has come through since.  (The cached direction
\* hides the other from lookups; a call that missed before, or knows the mapping,
\* does come through.)
MapsAgree ==
    /\ \A p \in Peers : \A k \in peerToKey[p] : keyToPeer[k] = {p}
    /\ \A k \in Keys : \A p \in keyToPeer[k] :
          \/ peerToKey[p] = {k}
          \/ k \in cut
          \/ \E c \in Callers : At(c, "fillingPeer") /\ call[c].key = k
=============================================================================
