------------------------------- MODULE Blokli -------------------------------
(***************************************************************************)
(* The Blokli indexer as its client sees it: the accounts, which never     *)
(* change, the channels on chain, which change on their own, and the       *)
(* queries for them.                                                       *)
(***************************************************************************)
EXTENDS Naturals, Sequences

CONSTANTS
    Keys,        \* blockchain key ids
    Peers,       \* peer ids
    AccountOf,   \* the peer of each key
    Channels,    \* channel ids
    EndsOf,      \* source and destination of each channel
    Data,        \* what the watcher compares: status, balance, ticket index
    MaxChanges   \* bound on the changes of one channel

\* On chain a key is bound to one peer, and a peer to one key, for good.
ASSUME AccountAssumption ==
    /\ AccountOf \in [Keys -> Peers]
    /\ \A j, k \in Keys : AccountOf[j] = AccountOf[k] => j = k
ASSUME ChannelsAssumption == EndsOf \in [Channels -> SUBSET Keys]
ASSUME ChangesAssumption == MaxChanges \in Nat

VARIABLE chain   \* every state a channel ever had on chain

-----------------------------------------------------------------------------
Newest(c) == Len(chain[c])
State(c, version) == chain[c][version]

\* query_peer_channels: the channels with this key as source or destination.
PeerChannels(k) == {c \in Channels : k \in EndsOf[c] /\ chain[c] # <<>>}

InitIndexer == chain = [c \in Channels |-> <<>>]

\* A channel is opened, funded, used, closed.  (A change of its epoch or closure
\* time alone goes unnoticed: nothing here looks at them.)
ChannelChanges(c, data) ==
    /\ Len(chain[c]) < MaxChanges
    /\ chain[c] # <<>> => data # State(c, Newest(c))
    /\ chain' = [chain EXCEPT ![c] = Append(@, data)]

NextIndexer == \E c \in Channels, data \in Data : ChannelChanges(c, data)
=============================================================================
