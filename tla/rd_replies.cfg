\* Two callers that wait and a reply handler share a connection; one of the
\* callers and the handler have a round-trip timeout.
CONSTANTS
    Synch = {s1, s2}
    Asynch = {a1}
    Timed = {s1, a1}
    Reactor = Reactor
    Nobody = Nobody
SPECIFICATION FairSpec
INVARIANTS TypeOK NobodyForgotten TimeoutIsFinal OneOwner
PROPERTY ClosedTellsAll
\* All callers have returned and the connection is closed.
CHECK_DEADLOCK FALSE
