------------------------------ MODULE DomainDb ------------------------------
(***************************************************************************)
(* Which domain a request is counted under (internal/rate-limit/domain.go  *)
(* and domainAllowed).  A domain name is the sequence of its labels,       *)
(* leftmost first, as NormalizeDomainName returns it; the loops that cut a *)
(* name at its first dot look at its suffixes from the longest to the      *)
(* shortest.                                                               *)
(***************************************************************************)
EXTENDS Integers, Sequences

CONSTANTS Suffixes,     \* plain rules of the suffix file
          Wildcards     \* rules "*.d", as a function from d to the set of
                        \* labels excepted by "!label.d"

\* The name from its i-th label on.
SuffixFrom(domain, i) == SubSeq(domain, i, Len(domain))

\* The first index that satisfies what a loop looks for, 0 when none does.
FirstIndex(domain, Found(_)) ==
  IF \E i \in 1..Len(domain) : Found(i)
  THEN CHOOSE i \in 1..Len(domain) : Found(i) /\ \A j \in 1..i - 1 : ~Found(j)
  ELSE 0

\* Mutant: a wildcard is tried before the name itself is.
SuffixStartWildcardFirst(domain) ==
  FirstIndex(domain,
    LAMBDA i : \/ SuffixFrom(domain, i) \in DOMAIN Wildcards
               \/ SuffixFrom(domain, i) \in Suffixes)

\* getSuffix: where the public suffix of the domain starts, 0 for an error.
SuffixStart(domain) ==
  FirstIndex(domain,
    LAMBDA i : \/ SuffixFrom(domain, i) \in Suffixes
               \/ /\ i < Len(domain)
                  /\ SuffixFrom(domain, i + 1) \in DOMAIN Wildcards
                  /\ domain[i] \notin Wildcards[SuffixFrom(domain, i + 1)])

HasRegisteredDomain(domain) == SuffixStart(domain) # 0

\* GetRegisteredDomain: the public suffix and the label before it, if any.
RegisteredDomain(domain) ==
  LET i == SuffixStart(domain)
  IN  SuffixFrom(domain, IF i = 1 THEN 1 ELSE i - 1)
=============================================================================
