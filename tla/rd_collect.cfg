\* A caller whose time is up while its reply, or the closing of its
\* connection, is being dispatched.
CONSTANTS
    Synch = {s1, s2}
    Asynch = {a1}
    Timed = {s1, s2, a1}
    Reactor = Reactor
    Nobody = Nobody
SPECIFICATION Spec
INVARIANT CollectsReply
CHECK_DEADLOCK FALSE
