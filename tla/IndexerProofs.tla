--------------------------- MODULE IndexerProofs ---------------------------
(***************************************************************************)
(* Proofs about what HOSE does with the indexer, for any accounts and      *)
(* channels, any number of concurrent lookups, and any failures.           *)
(***************************************************************************)
EXTENDS Indexer, SequenceTheorems, TLAPS

\* Versions of a channel count from its first appearance on chain.
Versions(c) == 1 .. Len(chain[c])

ChainInv ==
    /\ chain \in [Channels -> Seq(Data)]
    /\ \A c \in Channels : Len(chain[c]) <= MaxChanges

\* Whatever the maps hold is so on chain, a peer is only found if its key is,
\* and a call between the two locks has written the first map.
BridgeInv ==
    /\ \A k \in Keys : keyToPeer[k] \subseteq {AccountOf[k]}
    /\ \A p \in Peers : \A k \in peerToKey[p] : AccountOf[k] = p
    /\ \A c \in Callers : At(c, "fillingPeer") => keyToPeer[call[c].key] = {Peer(c)}

\* The watcher remembers of each channel the state it announced last, which is
\* one the channel had; an answer on its way is not older than that.
WatcherInv ==
    /\ \A c \in Channels :
          /\ announced[c] \in {0} \cup Versions(c)
          /\ lastKnown[c] = IF announced[c] = 0 THEN {} ELSE {State(c, announced[c])}
    /\ watcher.step = "received" =>
          \A c \in DOMAIN watcher.versions :
             /\ c \in Channels
             /\ watcher.versions[c] \in Versions(c)
             /\ watcher.versions[c] >= announced[c]

\* A request goes to the indexer with keys of the peer it is about.
RequestInv ==
    \/ request = Unasked
    \/ /\ request \in [step : {"querying"}, peer : Peers, keys : SUBSET Keys]
       /\ \A k \in request.keys : AccountOf[k] = request.peer
    \/ /\ request \in [step : {"answered"}, peer : Peers, channels : SUBSET Channels]
       /\ ChannelsAreOfThePeer

IndexerInv ==
    /\ ChainInv
    /\ BridgeTypeOK /\ BridgeInv /\ MapsAgree
    /\ WatcherTypeOK /\ WatcherInv
    /\ RequestInv

-----------------------------------------------------------------------------
(* The chain *)

\* A change adds a version and leaves the earlier ones as they were.
LEMMA ChainGrows ==
    ASSUME ChainInv, NextIndexer
    PROVE  /\ ChainInv'
           /\ \A c \in Channels :
                 /\ Versions(c) \subseteq Versions(c)'
                 /\ \A v \in Versions(c) : State(c, v)' = State(c, v)
<1> PICK d \in Channels, data \in Data : ChannelChanges(d, data)
  BY DEF NextIndexer
<1>1. /\ chain \in [Channels -> Seq(Data)]
      /\ Len(chain[d]) < MaxChanges
      /\ chain' = [chain EXCEPT ![d] = Append(chain[d], data)]
  BY DEF ChainInv, ChannelChanges
<1>2. /\ Append(chain[d], data) \in Seq(Data)
      /\ Len(Append(chain[d], data)) = Len(chain[d]) + 1
      /\ \A v \in 1 .. Len(chain[d]) : Append(chain[d], data)[v] = chain[d][v]
      /\ Len(chain[d]) \in Nat
  BY <1>1, AppendProperties, LenProperties
<1>3. chain'[d] = Append(chain[d], data) /\ \A c \in Channels \ {d} : chain'[c] = chain[c]
  BY <1>1
<1>4. chain' \in [Channels -> Seq(Data)]
  BY <1>1, <1>2
<1>5. \A c \in Channels : Len(chain'[c]) <= MaxChanges
  BY <1>1, <1>2, <1>3, ChangesAssumption DEF ChainInv
<1>6. ASSUME NEW c \in Channels
      PROVE  /\ Versions(c) \subseteq Versions(c)'
             /\ \A v \in Versions(c) : State(c, v)' = State(c, v)
  BY <1>2, <1>3 DEF Versions, State
<1> QED
  BY <1>4, <1>5, <1>6 DEF ChainInv

-----------------------------------------------------------------------------
(* The identity bridge *)

\* What the maps hold is so on chain, and a dropped call leaves them apart only
\* where the history says so.
LEMMA BridgeStep ==
    ASSUME BridgeTypeOK, BridgeInv, MapsAgree, NextBridge
    PROVE  BridgeTypeOK' /\ BridgeInv' /\ MapsAgree'
<1> USE AccountAssumption
<1>1. /\ keyToPeer \in [Keys -> SUBSET Peers]
      /\ peerToKey \in [Peers -> SUBSET Keys]
      /\ cut \subseteq Keys
      /\ call \in [Callers -> Calls]
  BY DEF BridgeTypeOK
<1>2. ASSUME NEW c \in Callers, call[c].step # "idle"
      PROVE  /\ call[c] \in [step : {"querying", "fillingKey", "fillingPeer"}, key : Keys]
             /\ call[c].key \in Keys /\ Peer(c) \in Peers
  BY <1>1, <1>2 DEF Calls, Idle, Peer
<1>3. ASSUME NEW c \in Callers, NEW k \in Keys, Lookup(c, k) \/ InsertMapping(c, k)
      PROVE  BridgeTypeOK' /\ BridgeInv' /\ MapsAgree'
  <2>1. /\ call[c].step = "idle"
        /\ call' \in [Callers -> Calls]
        /\ call'[c].step \in {"querying", "fillingKey"}
        /\ \A d \in Callers \ {c} : call'[d] = call[d]
        /\ UNCHANGED <<keyToPeer, peerToKey, cut>>
    BY <1>1, <1>3 DEF Lookup, InsertMapping, At, Calls
  <2>2. BridgeTypeOK'
    BY <1>1, <2>1 DEF BridgeTypeOK
  <2>3. BridgeInv'
    BY <2>1 DEF BridgeInv, At, Peer
  <2>4. MapsAgree'
    BY <2>1 DEF MapsAgree, At
  <2> QED
    BY <2>2, <2>3, <2>4
<1>4. ASSUME NEW c \in Callers, QueryReturns(c)
      PROVE  BridgeTypeOK' /\ BridgeInv' /\ MapsAgree'
  <2>1. call[c] \in [step : {"querying", "fillingKey", "fillingPeer"}, key : Keys]
    BY <1>2, <1>4 DEF QueryReturns, At
  <2>2. /\ call[c].step = "querying"
        /\ call' \in [Callers -> Calls]
        /\ call'[c].step \in {"idle", "fillingKey"}
        /\ \A d \in Callers \ {c} : call'[d] = call[d]
        /\ UNCHANGED <<keyToPeer, peerToKey, cut>>
    BY <1>1, <1>4, <2>1 DEF QueryReturns, At, Calls, Proceed, Finish, Idle
  <2>3. BridgeTypeOK'
    BY <1>1, <2>2 DEF BridgeTypeOK
  <2>4. BridgeInv'
    BY <2>2 DEF BridgeInv, At, Peer
  <2>5. MapsAgree'
    BY <2>2 DEF MapsAgree, At
  <2> QED
    BY <2>3, <2>4, <2>5
<1>5. ASSUME NEW c \in Callers, FillKey(c)
      PROVE  BridgeTypeOK' /\ BridgeInv' /\ MapsAgree'
  <2> DEFINE key == call[c].key
  <2>1. /\ call[c] \in [step : {"querying", "fillingKey", "fillingPeer"}, key : Keys]
        /\ key \in Keys /\ Peer(c) \in Peers /\ Peer(c) = AccountOf[key]
    BY <1>2, <1>5 DEF FillKey, At, Peer
  <2>2. /\ call' \in [Callers -> Calls]
        /\ call'[c].step = "fillingPeer" /\ call'[c].key = key
        /\ \A d \in Callers \ {c} : call'[d] = call[d]
        /\ UNCHANGED <<peerToKey, cut>>
    BY <1>1, <1>5, <2>1 DEF FillKey, At, Calls, Proceed
  <2>3. /\ keyToPeer' \in [Keys -> SUBSET Peers]
        /\ keyToPeer'[key] = {AccountOf[key]}
        /\ \A k \in Keys \ {key} : keyToPeer'[k] = keyToPeer[k]
    BY <1>1, <1>5, <2>1 DEF FillKey
  <2> HIDE DEF key
  <2>4. BridgeTypeOK'
    BY <1>1, <2>2, <2>3 DEF BridgeTypeOK
  <2>5. BridgeInv'
    <3>1. \A k \in Keys : keyToPeer'[k] \subseteq {AccountOf[k]}
      BY <2>3 DEF BridgeInv
    <3>2. ASSUME NEW d \in Callers, At(d, "fillingPeer")'
          PROVE  keyToPeer'[call'[d].key] = {Peer(d)'}
      <4>1. CASE d = c
        BY <2>2, <2>3, <4>1 DEF Peer
      <4>2. CASE d # c
        <5>1. call'[d] = call[d] /\ call[d].key \in Keys /\ At(d, "fillingPeer")
          BY <1>2, <2>2, <3>2, <4>2 DEF At
        <5>2. keyToPeer[call[d].key] = {AccountOf[call[d].key]}
          BY <5>1 DEF BridgeInv, Peer
        <5> QED
          BY <2>3, <5>1, <5>2 DEF Peer
      <4> QED
        BY <4>1, <4>2
    <3> QED
      BY <2>2, <3>1, <3>2 DEF BridgeInv
  <2>6. MapsAgree'
    <3>1. ASSUME NEW p \in Peers, NEW k \in peerToKey[p]
          PROVE  keyToPeer'[k] = {p}
      BY <1>1, <2>3 DEF BridgeInv, MapsAgree
    <3>2. ASSUME NEW k \in Keys, NEW p \in keyToPeer'[k]
          PROVE  \/ peerToKey[p] = {k}
                 \/ k \in cut
                 \/ \E d \in Callers : At(d, "fillingPeer")' /\ call'[d].key = k
      <4>1. CASE k = key
        BY <2>2, <4>1 DEF At
      <4>2. CASE k # key
        <5>1. \/ peerToKey[p] = {k}
              \/ k \in cut
              \/ \E d \in Callers : At(d, "fillingPeer") /\ call[d].key = k
          BY <2>3, <4>2 DEF MapsAgree
        <5>2. ~ At(c, "fillingPeer")
          BY <1>5 DEF FillKey, At
        <5> QED
          BY <2>2, <5>1, <5>2 DEF At
      <4> QED
        BY <4>1, <4>2
    <3> QED
      BY <2>2, <3>1, <3>2 DEF MapsAgree
  <2> QED
    BY <2>4, <2>5, <2>6
<1>6. ASSUME NEW c \in Callers, FillPeer(c)
      PROVE  BridgeTypeOK' /\ BridgeInv' /\ MapsAgree'
  <2> DEFINE key == call[c].key
  <2>1. /\ call[c].step = "fillingPeer"
        /\ key \in Keys /\ Peer(c) \in Peers /\ Peer(c) = AccountOf[key]
        /\ keyToPeer[key] = {AccountOf[key]}
    BY <1>2, <1>6 DEF FillPeer, At, Peer, BridgeInv
  <2>2. /\ call' \in [Callers -> Calls]
        /\ call'[c].step = "idle"
        /\ \A d \in Callers \ {c} : call'[d] = call[d]
        /\ UNCHANGED keyToPeer
        /\ cut' = cut \ {key}
    BY <1>1, <1>6 DEF FillPeer, Calls, Finish, Idle
  <2>3. /\ peerToKey' \in [Peers -> SUBSET Keys]
        /\ peerToKey'[AccountOf[key]] = {key}
        /\ \A p \in Peers \ {AccountOf[key]} : peerToKey'[p] = peerToKey[p]
    BY <1>1, <1>6, <2>1 DEF FillPeer
  <2>4. \A d \in Callers : call[d].step = "fillingPeer" /\ call[d].key # key => call'[d] = call[d]
    BY <2>2
  <2> HIDE DEF key
  <2>5. BridgeTypeOK'
    BY <1>1, <2>2, <2>3 DEF BridgeTypeOK
  <2>6. BridgeInv'
    <3>1. \A p \in Peers : \A k \in peerToKey'[p] : AccountOf[k] = p
      BY <2>1, <2>3 DEF BridgeInv
    <3> QED
      BY <2>2, <3>1 DEF BridgeInv, At, Peer
  <2>7. MapsAgree'
    <3>1. ASSUME NEW p \in Peers, NEW k \in peerToKey'[p]
          PROVE  keyToPeer[k] = {p}
      BY <2>1, <2>3 DEF MapsAgree
    <3>2. ASSUME NEW k \in Keys, NEW p \in keyToPeer[k]
          PROVE  \/ peerToKey'[p] = {k}
                 \/ k \in cut'
                 \/ \E d \in Callers : At(d, "fillingPeer")' /\ call'[d].key = k
      <4>1. p = AccountOf[k] /\ p \in Peers
        BY <1>1 DEF BridgeInv
      <4>2. CASE k = key
        BY <2>3, <4>1, <4>2
      <4>3. CASE k # key
        <5>1. p # AccountOf[key]
          BY <2>1, <4>1, <4>3
        <5>2. peerToKey'[p] = peerToKey[p]
          BY <2>3, <4>1, <5>1
        <5>3. \/ peerToKey[p] = {k}
              \/ k \in cut
              \/ \E d \in Callers : At(d, "fillingPeer") /\ call[d].key = k
          BY DEF MapsAgree
        <5> QED
          BY <2>2, <2>4, <4>3, <5>2, <5>3 DEF At
      <4> QED
        BY <4>2, <4>3
    <3> QED
      BY <2>2, <3>1, <3>2 DEF MapsAgree
  <2> QED
    BY <2>5, <2>6, <2>7
<1>7. ASSUME NEW c \in Callers, Dropped(c)
      PROVE  BridgeTypeOK' /\ BridgeInv' /\ MapsAgree'
  <2>1. call[c].key \in Keys
    BY <1>2, <1>7 DEF Dropped, At
  <2>2. /\ call' \in [Callers -> Calls]
        /\ call'[c].step = "idle"
        /\ \A d \in Callers \ {c} : call'[d] = call[d]
        /\ UNCHANGED <<keyToPeer, peerToKey>>
        /\ cut \subseteq cut' /\ cut' \subseteq Keys
        /\ call[c].step = "fillingPeer" => call[c].key \in cut'
    BY <1>1, <1>7, <2>1 DEF Dropped, At, Calls, Finish, Idle
  <2>3. BridgeTypeOK'
    BY <1>1, <2>2 DEF BridgeTypeOK
  <2>4. BridgeInv'
    BY <2>2 DEF BridgeInv, At, Peer
  <2>5. MapsAgree'
    <3>1. ASSUME NEW k \in Keys, NEW p \in keyToPeer[k]
          PROVE  \/ peerToKey[p] = {k}
                 \/ k \in cut'
                 \/ \E d \in Callers : At(d, "fillingPeer")' /\ call'[d].key = k
      <4>1. \/ peerToKey[p] = {k}
            \/ k \in cut
            \/ \E d \in Callers : At(d, "fillingPeer") /\ call[d].key = k
        BY DEF MapsAgree
      <4> QED
        BY <2>2, <4>1 DEF At
    <3> QED
      BY <2>2, <3>1 DEF MapsAgree
  <2> QED
    BY <2>3, <2>4, <2>5
<1> QED
  BY <1>3, <1>4, <1>5, <1>6, <1>7 DEF NextBridge

-----------------------------------------------------------------------------
(* The channel watcher *)

\* What it takes for the announcement of a channel to follow the chain.
FollowsTheChain(c) ==
    announced'[c] # announced[c] =>
        /\ announced'[c] > announced[c]
        /\ announced[c] # 0 => State(c, announced'[c]) # State(c, announced[c])

\* Every version is a state, and they are as many as the bound allows.
LEMMA VersionsAreStates ==
    ASSUME ChainInv, NEW c \in Channels
    PROVE  /\ Len(chain[c]) \in Nat
           /\ Versions(c) \subseteq 1 .. MaxChanges
           /\ \A v \in Versions(c) : State(c, v) \in Data
<1>1. chain[c] \in Seq(Data) /\ Len(chain[c]) <= MaxChanges
  BY DEF ChainInv
<1>2. Len(chain[c]) \in Nat
  BY <1>1, LenProperties
<1>3. \A v \in Versions(c) : State(c, v) \in Data
  BY <1>1, ElementOfSeq DEF Versions, State
<1> QED
  BY <1>1, <1>2, <1>3, ChangesAssumption DEF Versions

\* The keys left after a poll.
LEMMA PollingIsTyped ==
    ASSUME NEW keys \in Seq(Keys)
    PROVE  /\ Polling(keys).step \in {"waiting", "polling"}
           /\ Polling(keys) # Waiting => Polling(keys).keys \in Seq(Keys) \ {<<>>}
BY DEF Polling, Waiting

\* While the chain rests, the watcher keeps what it remembers true and announces
\* only what is newer and different.
LEMMA WatcherStep ==
    ASSUME ChainInv, WatcherTypeOK, WatcherInv, NextWatcher, UNCHANGED chain
    PROVE  /\ WatcherTypeOK' /\ WatcherInv'
           /\ \A c \in Channels : FollowsTheChain(c)
<1>1. /\ lastKnown \in [Channels -> SUBSET Data]
      /\ announced \in [Channels -> 0 .. MaxChanges]
  BY DEF WatcherTypeOK
<1>2. watcher # Waiting => watcher.keys \in Seq(Keys) /\ watcher.keys # <<>>
                           /\ Tail(watcher.keys) \in Seq(Keys) /\ Head(watcher.keys) \in Keys
  BY HeadTailProperties DEF WatcherTypeOK
<1>3. CASE Tick
  <2>1. /\ watcher'.step \in {"waiting", "polling"}
        /\ watcher' # Waiting => watcher'.keys \in Seq(Keys) \ {<<>>}
        /\ UNCHANGED <<lastKnown, announced>>
    BY <1>3, PollingIsTyped, WatchedAssumption DEF Tick
  <2> QED
    BY <1>1, <2>1 DEF WatcherTypeOK, WatcherInv, FollowsTheChain, Versions, State, Waiting
<1>4. CASE PollFailed
  <2>1. watcher # Waiting
    BY <1>4 DEF PollFailed, Waiting
  <2>2. /\ watcher'.step \in {"waiting", "polling"}
        /\ watcher' # Waiting => watcher'.keys \in Seq(Keys) \ {<<>>}
        /\ UNCHANGED <<lastKnown, announced>>
    BY <1>2, <1>4, <2>1, PollingIsTyped DEF PollFailed
  <2> QED
    BY <1>1, <2>2 DEF WatcherTypeOK, WatcherInv, FollowsTheChain, Versions, State, Waiting
<1>5. ASSUME NEW k \in Keys, PollAnswered(k)
      PROVE  /\ WatcherTypeOK' /\ WatcherInv'
             /\ \A c \in Channels : FollowsTheChain(c)
  <2> DEFINE versions == [c \in PeerChannels(k) |-> Newest(c)]
  <2>1. watcher # Waiting
    BY <1>5 DEF PollAnswered, Waiting
  <2>2. /\ watcher' = [step |-> "received", keys |-> watcher.keys, versions |-> versions]
        /\ UNCHANGED <<lastKnown, announced>>
    BY <1>5 DEF PollAnswered, Received
  <2>3. WatcherTypeOK'
    BY <1>1, <1>2, <2>1, <2>2 DEF WatcherTypeOK
  <2>4. ASSUME NEW c \in DOMAIN versions
        PROVE  c \in Channels /\ versions[c] \in Versions(c) /\ versions[c] >= announced[c]
    <3>1. c \in Channels /\ chain[c] # <<>> /\ versions[c] = Len(chain[c])
      BY DEF PeerChannels, Newest
    <3>2. Len(chain[c]) \in Nat /\ Len(chain[c]) # 0
      BY <3>1, EmptySeq, LenProperties DEF ChainInv
    <3>3. announced[c] \in {0} \cup Versions(c)
      BY <3>1 DEF WatcherInv
    <3> QED
      BY <3>1, <3>2, <3>3 DEF Versions
  <2> HIDE DEF versions
  <2>5. WatcherInv'
    BY <2>2, <2>4 DEF WatcherInv, Versions, State
  <2> QED
    BY <2>2, <2>3, <2>5 DEF FollowsTheChain
<1>6. CASE Compare
  <2> DEFINE versions == watcher.versions
             changed == {c \in DOMAIN versions : Changed(c, State(c, versions[c]))}
  <2>1. watcher.step = "received" /\ watcher # Waiting
    BY <1>6 DEF Compare, Waiting
  <2>2. /\ lastKnown' = [c \in Channels |->
               IF c \in changed THEN {State(c, versions[c])} ELSE lastKnown[c]]
        /\ announced' = [c \in Channels |->
               IF c \in changed THEN versions[c] ELSE announced[c]]
        /\ watcher' = Polling(Tail(watcher.keys))
    BY <1>6 DEF Compare
  <2>3. \A c \in changed : /\ c \in Channels
                           /\ versions[c] \in Versions(c) /\ versions[c] >= announced[c]
                           /\ Changed(c, State(c, versions[c]))
    BY <2>1 DEF WatcherInv
  <2> HIDE DEF versions, changed
  <2>4. ASSUME NEW c \in Channels
        PROVE  /\ announced'[c] \in 0 .. MaxChanges /\ lastKnown'[c] \in SUBSET Data
               /\ announced'[c] \in {0} \cup Versions(c)
               /\ lastKnown'[c] = IF announced'[c] = 0 THEN {} ELSE {State(c, announced'[c])}
               /\ FollowsTheChain(c)
    <3>1. /\ Len(chain[c]) \in Nat
          /\ Versions(c) \subseteq 1 .. MaxChanges
          /\ \A v \in Versions(c) : State(c, v) \in Data
      BY VersionsAreStates
    <3>2. /\ announced[c] \in {0} \cup Versions(c)
          /\ lastKnown[c] = IF announced[c] = 0 THEN {} ELSE {State(c, announced[c])}
      BY DEF WatcherInv
    <3>3. CASE c \notin changed
      <4>1. announced'[c] = announced[c] /\ lastKnown'[c] = lastKnown[c]
        BY <2>2, <3>3
      <4> QED
        BY <1>1, <3>2, <4>1 DEF FollowsTheChain
    <3>4. CASE c \in changed
      <4>1. announced'[c] = versions[c] /\ lastKnown'[c] = {State(c, versions[c])}
        BY <2>2, <3>4
      <4>2. versions[c] \in Versions(c) /\ versions[c] >= announced[c] /\ versions[c] # 0
        BY <2>3, <3>1, <3>4 DEF Versions
      <4>3. versions[c] \in 1 .. MaxChanges /\ State(c, versions[c]) \in Data
        BY <3>1, <4>2
      <4>4. announced[c] # 0 => State(c, versions[c]) # State(c, announced[c])
        BY <2>3, <3>2, <3>4 DEF Changed
      <4>5. versions[c] \in Nat /\ announced[c] \in Nat
        BY <1>1, <4>3, ChangesAssumption
      <4>6. versions[c] # announced[c]
        BY <4>2, <4>4
      <4>7. versions[c] > announced[c]
        BY <4>2, <4>5, <4>6
      <4>8. announced'[c] \in 0 .. MaxChanges
        BY <4>1, <4>3, ChangesAssumption
      <4>9. FollowsTheChain(c)
        BY <4>1, <4>4, <4>7 DEF FollowsTheChain
      <4> QED
        BY <4>1, <4>2, <4>3, <4>8, <4>9
    <3> QED
      BY <3>3, <3>4
  <2>5. /\ watcher'.step \in {"waiting", "polling"}
        /\ watcher' # Waiting => watcher'.keys \in Seq(Keys) \ {<<>>}
    BY <1>2, <2>1, <2>2, PollingIsTyped
  <2>6. WatcherTypeOK'
    BY <2>2, <2>4, <2>5 DEF WatcherTypeOK
  <2>7. WatcherInv'
    BY <2>4, <2>5 DEF WatcherInv, Versions, State
  <2> QED
    BY <2>4, <2>6, <2>7
<1> QED
  BY <1>3, <1>4, <1>5, <1>6 DEF NextWatcher

\* The chain may change at any moment of a round.
LEMMA WatcherUnderChanges ==
    ASSUME ChainInv, WatcherTypeOK, WatcherInv, NextIndexer, UNCHANGED watcherVars
    PROVE  WatcherTypeOK' /\ WatcherInv'
<1>1. \A c \in Channels :
         /\ Versions(c) \subseteq Versions(c)'
         /\ \A v \in Versions(c) : State(c, v)' = State(c, v)
  BY ChainGrows
<1>2. UNCHANGED <<watcher, lastKnown, announced>>
  BY DEF watcherVars
<1>3. WatcherTypeOK'
  BY <1>2 DEF WatcherTypeOK
<1>4. ASSUME NEW c \in Channels
      PROVE  /\ announced'[c] \in {0} \cup Versions(c)'
             /\ lastKnown'[c] = IF announced'[c] = 0 THEN {} ELSE {State(c, announced[c])'}
  BY <1>1, <1>2 DEF WatcherInv
<1>5. watcher'.step = "received" =>
         \A c \in DOMAIN watcher'.versions :
            /\ c \in Channels
            /\ watcher'.versions[c] \in Versions(c)'
            /\ watcher'.versions[c] >= announced'[c]
  BY <1>1, <1>2 DEF WatcherInv
<1> QED
  BY <1>3, <1>4, <1>5 DEF WatcherInv

-----------------------------------------------------------------------------
(* All of it *)

\* A request asks with the keys of its peer, and is answered with their channels.
LEMMA RequestStep ==
    ASSUME BridgeTypeOK, BridgeInv, RequestInv,
           (\E p \in Peers : AskChannels(p)) \/ ChannelsAnswered \/ RequestDone
    PROVE  RequestInv'
<1>1. ASSUME NEW p \in Peers, AskChannels(p)
      PROVE  RequestInv'
  <2>1. request' = [step |-> "querying", peer |-> p, keys |-> peerToKey[p]]
    BY <1>1 DEF AskChannels, Querying
  <2>2. peerToKey[p] \subseteq Keys /\ \A k \in peerToKey[p] : AccountOf[k] = p
    BY DEF BridgeTypeOK, BridgeInv
  <2> QED
    BY <2>1, <2>2 DEF RequestInv
<1>2. CASE ChannelsAnswered
  <2> DEFINE answer == UNION {PeerChannels(k) : k \in request.keys}
  <2>1. /\ request \in [step : {"querying"}, peer : Peers, keys : SUBSET Keys]
        /\ \A k \in request.keys : AccountOf[k] = request.peer
    BY <1>2 DEF ChannelsAnswered, RequestInv, Unasked
  <2>2. request' = [step |-> "answered", peer |-> request.peer, channels |-> answer]
    BY <1>2 DEF ChannelsAnswered, Answered
  <2>3. \A c \in answer : c \in Channels /\ \E k \in EndsOf[c] : AccountOf[k] = request.peer
    BY <2>1 DEF PeerChannels
  <2> HIDE DEF answer
  <2>4. request' \in [step : {"answered"}, peer : Peers, channels : SUBSET Channels]
    BY <2>1, <2>2, <2>3
  <2>5. ChannelsAreOfThePeer'
    BY <2>2, <2>3 DEF ChannelsAreOfThePeer
  <2> QED
    BY <2>4, <2>5 DEF RequestInv
<1>3. CASE RequestDone
  BY <1>3 DEF RequestDone, RequestInv
<1> QED
  BY <1>1, <1>2, <1>3

\* Every step of the indexer, the bridge, the watcher and a request keeps the
\* invariant, and announces only what follows from the chain.
LEMMA IndexerStep ==
    ASSUME IndexerInv, [Next]_vars
    PROVE  IndexerInv' /\ \A c \in Channels : FollowsTheChain(c)
<1> USE DEF IndexerInv
<1>1. CASE NextIndexer /\ UNCHANGED <<bridgeVars, watcherVars, request>>
  <2>1. ChainInv' /\ WatcherTypeOK' /\ WatcherInv'
    BY <1>1, ChainGrows, WatcherUnderChanges
  <2>2. BridgeTypeOK' /\ BridgeInv' /\ MapsAgree'
    BY <1>1 DEF bridgeVars, BridgeTypeOK, BridgeInv, MapsAgree, At, Peer
  <2>3. RequestInv'
    BY <1>1 DEF RequestInv, ChannelsAreOfThePeer
  <2> QED
    BY <1>1, <2>1, <2>2, <2>3 DEF FollowsTheChain, watcherVars
<1>2. CASE NextBridge /\ UNCHANGED <<chain, watcherVars, request>>
  <2>1. ChainInv' /\ WatcherTypeOK' /\ WatcherInv'
    BY <1>2 DEF ChainInv, watcherVars, WatcherTypeOK, WatcherInv, Versions, State
  <2>2. RequestInv'
    BY <1>2 DEF RequestInv, ChannelsAreOfThePeer
  <2> QED
    BY <1>2, <2>1, <2>2, BridgeStep DEF FollowsTheChain, watcherVars
<1>3. CASE NextWatcher /\ UNCHANGED <<chain, bridgeVars, request>>
  <2>1. ChainInv' /\ RequestInv'
    BY <1>3 DEF ChainInv, RequestInv, ChannelsAreOfThePeer
  <2>2. BridgeTypeOK' /\ BridgeInv' /\ MapsAgree'
    BY <1>3 DEF bridgeVars, BridgeTypeOK, BridgeInv, MapsAgree, At, Peer
  <2> QED
    BY <1>3, <2>1, <2>2, WatcherStep
<1>4. CASE (\E p \in Peers : AskChannels(p)) \/ ChannelsAnswered \/ RequestDone
  <2>1. UNCHANGED <<chain, bridgeVars, watcherVars>>
    BY <1>4 DEF AskChannels, ChannelsAnswered, RequestDone
  <2>2. ChainInv' /\ WatcherTypeOK' /\ WatcherInv'
    BY <2>1 DEF ChainInv, watcherVars, WatcherTypeOK, WatcherInv, Versions, State
  <2>3. BridgeTypeOK' /\ BridgeInv' /\ MapsAgree'
    BY <2>1 DEF bridgeVars, BridgeTypeOK, BridgeInv, MapsAgree, At, Peer
  <2> QED
    BY <1>4, <2>1, <2>2, <2>3, RequestStep DEF FollowsTheChain, watcherVars
<1>5. CASE UNCHANGED vars
  <2>1. UNCHANGED <<chain, bridgeVars, watcherVars, request>>
    BY <1>5 DEF vars
  <2>2. ChainInv' /\ WatcherTypeOK' /\ WatcherInv' /\ RequestInv'
    BY <2>1 DEF ChainInv, watcherVars, WatcherTypeOK, WatcherInv, Versions, State, RequestInv,
                ChannelsAreOfThePeer
  <2>3. BridgeTypeOK' /\ BridgeInv' /\ MapsAgree'
    BY <2>1 DEF bridgeVars, BridgeTypeOK, BridgeInv, MapsAgree, At, Peer
  <2> QED
    BY <2>1, <2>2, <2>3 DEF FollowsTheChain, watcherVars
<1> QED
  BY <1>1, <1>2, <1>3, <1>4, <1>5 DEF Next

\* The invariant holds in every reachable state.
LEMMA IndexerInvariant == Spec => []IndexerInv
<1>1. Init => IndexerInv
  <2> SUFFICES ASSUME Init PROVE IndexerInv
    OBVIOUS
  <2> USE DEF Init
  <2>1. ChainInv
    <3>1. <<>> \in Seq(Data) /\ Len(<<>>) = 0
      OBVIOUS
    <3> QED
      BY <3>1, ChangesAssumption DEF InitIndexer, ChainInv
  <2>2. BridgeTypeOK /\ BridgeInv /\ MapsAgree
    BY DEF InitBridge, BridgeTypeOK, BridgeInv, MapsAgree, At, Idle, Calls
  <2>3. WatcherTypeOK /\ WatcherInv
    BY ChangesAssumption DEF InitWatcher, Waiting, WatcherTypeOK, WatcherInv
  <2> QED
    BY <2>1, <2>2, <2>3 DEF IndexerInv, RequestInv
<1> QED
  BY <1>1, IndexerStep, PTL DEF Spec

\* The bridge's maps, the watcher and the requests keep their types.
THEOREM TypeCorrect == Spec => []TypeOK
<1>1. IndexerInv => TypeOK
  BY DEF IndexerInv, ChainInv, RequestInv, Unasked, TypeOK
<1> QED
  BY <1>1, IndexerInvariant, PTL

\* Whatever lookups and insertions run at once, the two maps are inverse to each
\* other, but for what a dropped call tore apart or a running one has half done.
THEOREM MapsAreInverse == Spec => []MapsAgree
BY IndexerInvariant, PTL DEF IndexerInv

\* While other calls write the maps, an answer holds only channels of the peer
\* that was asked for.
THEOREM AnswersAreOfThePeer == Spec => []ChannelsAreOfThePeer
<1>1. IndexerInv => ChannelsAreOfThePeer
  BY DEF IndexerInv, RequestInv, ChannelsAreOfThePeer, Unasked
<1> QED
  BY <1>1, IndexerInvariant, PTL

\* Whatever polls fail and however the chain moves during a round, each
\* announcement is of a later and different state than the last of its channel.
THEOREM AnnouncementsFollow == Spec => AnnouncementsFollowTheChain
<1>1. IndexerInv /\ [Next]_vars =>
          [\A c \in Channels : announced'[c] # announced[c] =>
              /\ announced'[c] > announced[c]
              /\ announced[c] # 0 =>
                    State(c, announced'[c]) # State(c, announced[c])]_<<watcherVars, chain>>
  BY IndexerStep DEF FollowsTheChain
<1> QED
  BY <1>1, IndexerInvariant, PTL DEF Spec, AnnouncementsFollowTheChain
=============================================================================
