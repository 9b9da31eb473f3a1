\* One peer, blacklist threshold 50%: a sleeping reconnection task and the
\* blacklisting of its peer.
CONSTANTS
    Peers = {p1}
    MaxAttempts = 2
    BlacklistThresholdPct = 50
    MinScoreForRetryPct = 45
    MaxCount = 3
    MaxTasks = 3
SPECIFICATION Spec
PROPERTY NoAttemptWhileBlacklisted
