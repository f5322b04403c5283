\* Two accounts and two calls at a time; one channel, of the first account, whose
\* data changes up to three times, back and forth.
CONSTANTS
    k1 = k1
    k2 = k2
    p1 = p1
    p2 = p2
    c1 = c1
    Keys = {k1, k2}
    Peers = {p1, p2}
    AccountOf <- MCAccountOf
    Callers = {l1, l2}
    Channels = {c1}
    EndsOf <- MCEndsOf
    Data = {1, 2}
    Watched <- MCWatched
    MaxChanges = 3
SPECIFICATION FairSpec
INVARIANTS
    TypeOK
    MapsAgree
    ChannelsAreOfThePeer
PROPERTIES
    AnnouncementsFollowTheChain
    WatcherCatchesUp
