\* Two machines boot side by side; three tries, of which the network wastes
\* two: a stray frame or a slow answer, and the OFFER for the other machine.
SPECIFICATION FairSpec
CONSTANTS
    Machine = {m1, m2}
    Address = {a1, a2}
    None = None
    Tries = 3
    SnpSends = 2
    MaxUnread = 1
    MaxTrouble = 1
    Me = m1
    MaxAttempts = 2
INVARIANTS OwnAddress RunsOnce FetchContext
PROPERTIES MeConfigured AttemptEnds
