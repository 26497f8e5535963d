---------------------------- MODULE MCRateLimit ----------------------------
EXTENDS RateLimit, TLC

CONSTANTS k1, k2, l1, l2, l3, t1, t2

\* A suffix file with the rules "o", "*.p" and "!x.p".
MCSuffixes == {<<"o">>}
MCWildcards == <<"p">> :> {"x"}

MCKeys == k1 :> 1
MCDomains == <<"a", "o">> :> 1
MCTestDomain == <<"t", "o">>

MCByKey == [key |-> k1, domain |-> NoDomain]
MCByDomain == [key |-> k2, domain |-> <<"w", "a", "o">>]
MCPublic == [key |-> k2, domain |-> <<"w", "v", "b", "p">>]
MCExcepted == [key |-> k2, domain |-> <<"v", "x", "p">>]
MCTest == [key |-> k2, domain |-> MCTestDomain]

MCRequests == {MCByKey, MCByDomain, MCPublic, MCTest, MCExcepted}
MCOneSubmitter == {MCByKey}

MCSymmetry == Permutations(Leaf) \cup Permutations(Thread)
=============================================================================
