--------------------------- MODULE ChannelWatcher ---------------------------
(***************************************************************************)
(* The channel watcher: a task that polls the indexer for the channels of  *)
(* the keys it watches, one key after the other, compares what it gets     *)
(* with what it saw last, and announces what differs.                      *)
(***************************************************************************)
EXTENDS Blokli

CONSTANT Watched    \* key_ids

ASSUME WatchedAssumption == Watched \in Seq(Keys)

VARIABLES
    watcher,     \* where the task is in its round
    lastKnown,   \* last_known: a state, or none
    announced    \* history: which state of each channel was announced last

watcherVars == <<watcher, lastKnown, announced>>

-----------------------------------------------------------------------------
Waiting == [step |-> "waiting"]
\* The keys left in this round, and the answer for the first of them.
Polling(keys) == IF keys = <<>> THEN Waiting ELSE [step |-> "polling", keys |-> keys]
Received(keys, versions) == [step |-> "received", keys |-> keys, versions |-> versions]

InitWatcher ==
    /\ watcher = Waiting
    /\ lastKnown = [c \in Channels |-> {}]
    /\ announced = [c \in Channels |-> 0]

\* The interval fires; the first time at once.
Tick ==
    /\ watcher = Waiting
    /\ watcher' = Polling(Watched)
    /\ UNCHANGED <<lastKnown, announced>>

\* The indexer answers the query for a key; the answer is on its way.
PollAnswered(k) ==
    /\ watcher.step = "polling"
    /\ Head(watcher.keys) = k
    /\ watcher' = Received(watcher.keys, [c \in PeerChannels(k) |-> Newest(c)])
    /\ UNCHANGED <<lastKnown, announced>>

\* Mutant: an error ends the task.
PollFailed_Ends ==
    /\ watcher.step = "polling"
    /\ watcher' = [step |-> "ended"]
    /\ UNCHANGED <<lastKnown, announced>>
\* The query fails; this round goes on without the key.
PollFailed ==
    /\ watcher.step = "polling"
    /\ watcher' = Polling(Tail(watcher.keys))
    /\ UNCHANGED <<lastKnown, announced>>

\* Mutant: what has been announced is announced again.
Changed_Always(c, data) == lastKnown[c] = {} \/ data \in Data
Changed(c, data) ==
    lastKnown[c] = {} \/ \E prev \in lastKnown[c] : prev # data

\* Mutant: last_known keeps the first state (or_insert).
Compare_KeepsFirst ==
    /\ watcher.step = "received"
    /\ LET versions == watcher.versions
           changed == {c \in DOMAIN versions : Changed(c, State(c, versions[c]))}
       IN  /\ lastKnown' = [c \in Channels |->
                  IF c \in changed /\ lastKnown[c] = {} THEN {State(c, versions[c])} ELSE lastKnown[c]]
           /\ announced' = [c \in Channels |->
                  IF c \in changed THEN versions[c] ELSE announced[c]]
    /\ watcher' = Polling(Tail(watcher.keys))
\* Every channel of the answer is compared; one that changed is announced and
\* kept.
Compare ==
    /\ watcher.step = "received"
    /\ LET versions == watcher.versions
           changed == {c \in DOMAIN versions : Changed(c, State(c, versions[c]))}
       IN  /\ lastKnown' = [c \in Channels |->
                  IF c \in changed THEN {State(c, versions[c])} ELSE lastKnown[c]]
           /\ announced' = [c \in Channels |->
                  IF c \in changed THEN versions[c] ELSE announced[c]]
    /\ watcher' = Polling(Tail(watcher.keys))

NextWatcher ==
    \/ Tick
    \/ \E k \in Keys : PollAnswered(k)
    \/ PollFailed
    \/ Compare

-----------------------------------------------------------------------------
WatcherTypeOK ==
    /\ lastKnown \in [Channels -> SUBSET Data]
    /\ announced \in [Channels -> 0 .. MaxChanges]
    /\ watcher.step \in {"waiting", "polling", "received"}
    /\ watcher # Waiting => watcher.keys \in Seq(Keys) \ {<<>>}

\* A channel between two watched keys comes with either poll.  Its announcements
\* follow the chain: each is of a later state than the one before, and different
\* from it in what it carries.
AnnouncementsFollowTheChain ==
    [][\A c \in Channels : announced'[c] # announced[c] =>
          /\ announced'[c] > announced[c]
          /\ announced[c] # 0 =>
                State(c, announced'[c]) # State(c, announced[c])]_<<watcherVars, chain>>

WatchedChannels == {c \in Channels : \E i \in DOMAIN Watched : Watched[i] \in EndsOf[c]}

\* What a receiver heard of a channel is how it is.
UpToDate(c) ==
    IF announced[c] = 0 THEN chain[c] = <<>>
    ELSE State(c, announced[c]) = State(c, Newest(c))

\* Polls may fail and changes between two polls are merged, but once the chain is
\* quiet and polls get through now and then, receivers know the state of every
\* watched channel.
WatcherCatchesUp == \A c \in WatchedChannels : <>[]UpToDate(c)
=============================================================================
