\* Three sockets of one session: takeovers of takeovers, late releases, turns that
\* never end. The table is over its limit as soon as it has an entry, so that every
\* admission but the first sweeps it.
SPECIFICATION FairSpec
CONSTANTS
    s1 = s1
    c1 = c1
    c2 = c2
    c3 = c3
    Sessions = {s1}
    Conns = {c1, c2, c3}
    SessionOf <- AllOnOne
    Fingerprints = {f, g}
    Media = {g}
    Tokens = {t1, t2, t3, t4}
    f = f
    g = g
    t1 = t1
    t2 = t2
    t3 = t3
    t4 = t4
    TurnTimeout = 1
    Margin = 1
    Window = 1
    MaxEntries = 0
    NoEntry = NoEntry
    NoTurn = NoTurn
    Nothing = Nothing
INVARIANTS
    OneAnswerAtATime
PROPERTIES
    NoEcho
    NeverWedged
    NoEarlyOverlap
