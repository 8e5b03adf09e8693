CONSTANTS
    Producer = {p1, p2}
    Reader = {r1, r2}
    Scope = {"s1", "s2"}
    Message = {"m1", "m1retry", "m2", "m3"}
    ScopeOf <- MCScopeOf
    DedupeKey <- MCDedupeKey
    None = None
SPECIFICATION FairSpec
INVARIANTS SequencesExact OneRowPerDedupeKey
PROPERTIES AppendOnly EventuallyApplied
