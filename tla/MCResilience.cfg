\* One peer, two attempts per reconnection loop, up to three tasks.  The
\* blacklist threshold is raised to 50% (the default 5% is unreachable, as
\* the score never drops below 40%), so blacklisting happens.
CONSTANTS
    Peers = {p1}
    MaxAttempts = 2
    BlacklistThresholdPct = 50
    MinScoreForRetryPct = 45
    MaxCount = 3
    MaxTasks = 3
SPECIFICATION Spec
INVARIANT TypeOK
INVARIANT TasksTracked
PROPERTY TasksTerminate
