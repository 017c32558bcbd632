\* One event loop thread and two clients; one of them at a time is in a
\* nested call.
CONSTANTS
    Servers = {e1}
    Clients = {c1, c2}
    MaxDepth = 2
    MaxNested = 1
SPECIFICATION FairSpec
INVARIANTS CountersExact FollowersExact PollerCounts OneClientLeaderUndisturbed LeaderNotLostUndisturbed
PROPERTY FollowersAreLed
