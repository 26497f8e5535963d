---------------------------- MODULE LimitConfig ----------------------------
(***************************************************************************)
(* ParseConfig and newLimiter: from the lines of the rate limit file to    *)
(* the tables of limits.  A line is a record of its kind, its item (of     *)
(* which Normalize gives the form that is stored) and its limit.  With     *)
(* public access the suffix file is read next.                             *)
(***************************************************************************)
EXTENDS SuffixFile, FiniteSets

CONSTANTS Lines,            \* the lines that files are made of
          MaxLines,         \* bound: length of a file
          MaxLimit,         \* the largest limit, 2^31 - 1
          Normalize(_),     \* hex decoding, or NormalizeDomainName
          TestDomain,       \* test.sigsum.org
          AllowTestDomain

ASSUME LinesAssumption ==
  \A line \in Lines :
    /\ line.kind \in {"comment", "malformed", "overlong", "key", "domain", "public"}
    /\ line.limit \in Nat
ASSUME MaxLinesAssumption == MaxLines \in Nat

VARIABLES file, lineno,
          allowedKeys, allowedDomains,
          allowPublic,      \* the limit and the suffix file
          publicSeen,
          pc                \* "scan", "suffix", "done" or "error"

configVars == <<file, lineno, allowedKeys, allowedDomains, allowPublic, publicSeen, pc>>

vars == <<configVars, suffixVars>>

NoTable == [x \in {} |-> 0]
NoPublic == [limit |-> 0, item |-> ""]

Init ==
  /\ SuffixInit
  /\ file \in UNION {[1..n -> Lines] : n \in 0..MaxLines}
  /\ lineno = 0
  /\ allowedKeys = NoTable
  /\ allowedDomains = NoTable
  /\ allowPublic = NoPublic
  /\ publicSeen = FALSE
  /\ pc = "scan"

\* The scanner has another line.  It has none after one that is too long.
HasLine == lineno < Len(file) /\ file[lineno + 1].kind # "overlong"

\* parseLine, parseToken and parseLimit: what makes a line invalid.
Invalid(line) == line.kind = "malformed" \/ line.limit > MaxLimit

Fail == pc' = "error" /\ UNCHANGED <<allowedKeys, allowedDomains, allowPublic, publicSeen>>

\* One round of the loop, with names stored as Stored(item).
ParseLineWith(Stored(_)) ==
  /\ pc = "scan"
  /\ HasLine
  /\ lineno' = lineno + 1
  /\ LET line == file[lineno + 1]
         item == Stored(line.item)
     IN  IF Invalid(line) THEN Fail
         ELSE CASE line.kind = "comment" ->
                UNCHANGED <<allowedKeys, allowedDomains, allowPublic, publicSeen, pc>>
           [] line.kind = "key" ->
                IF item \in DOMAIN allowedKeys THEN Fail
                ELSE /\ allowedKeys' = With(allowedKeys, item, line.limit)
                     /\ UNCHANGED <<allowedDomains, allowPublic, publicSeen, pc>>
           [] line.kind = "domain" ->
                IF item \in DOMAIN allowedDomains THEN Fail
                ELSE /\ allowedDomains' = With(allowedDomains, item, line.limit)
                     /\ UNCHANGED <<allowedKeys, allowPublic, publicSeen, pc>>
           [] line.kind = "public" ->
                IF publicSeen THEN Fail
                ELSE /\ allowPublic' = [limit |-> line.limit, item |-> line.item]
                     /\ publicSeen' = TRUE
                     /\ UNCHANGED <<allowedKeys, allowedDomains, pc>>
  /\ UNCHANGED <<file, suffixVars>>

\* Mutant: names that normalize to the same are two.
ParseLineVerbatim == ParseLineWith(LAMBDA item : item)

\* ParseConfig: an item must not be repeated.
ParseLine == ParseLineWith(Normalize)

\* newLimiter: with public access the suffix file is opened, which may fail.
OpenSuffixFile ==
  /\ pc = "scan"
  /\ ~HasLine
  /\ allowPublic.limit > 0
  /\ \/ pc' = "suffix" /\ NewDomainDb
     \/ pc' = "error" /\ UNCHANGED suffixVars
  /\ UNCHANGED <<file, lineno, allowedKeys, allowedDomains, allowPublic, publicSeen>>

ReadSuffixFile ==
  /\ pc = "suffix"
  /\ ScanSuffixLine \/ EnterExceptions
  /\ pc' = IF spc' = "error" THEN "error" ELSE pc
  /\ UNCHANGED <<file, lineno, allowedKeys, allowedDomains, allowPublic, publicSeen>>

\* Mutant: the test domain is only banned if the file does not mention it.
NewLimiterKeepsLine ==
  /\ \/ pc = "scan" /\ ~HasLine /\ allowPublic.limit <= 0
     \/ pc = "suffix" /\ spc = "done"
  /\ pc' = "done"
  /\ allowedDomains' = IF AllowTestDomain \/ TestDomain \in DOMAIN allowedDomains
                       THEN allowedDomains ELSE With(allowedDomains, TestDomain, 0)
  /\ UNCHANGED <<file, lineno, allowedKeys, allowPublic, publicSeen, suffixVars>>

\* The test domain is banned, unless an option allows it.
NewLimiter ==
  /\ \/ pc = "scan" /\ ~HasLine /\ allowPublic.limit <= 0
     \/ pc = "suffix" /\ spc = "done"
  /\ pc' = "done"
  /\ allowedDomains' = IF AllowTestDomain THEN allowedDomains ELSE With(allowedDomains, TestDomain, 0)
  /\ UNCHANGED <<file, lineno, allowedKeys, allowPublic, publicSeen, suffixVars>>

Next == ParseLine \/ OpenSuffixFile \/ ReadSuffixFile \/ NewLimiter

Spec == Init /\ [][Next]_vars

-----------------------------------------------------------------------------
Of(kind) == {i \in 1..Len(file) : file[i].kind = kind}

\* The limits that the lines of a kind give, as a set of pairs.
Written(kind) == {<<Normalize(file[i].item), file[i].limit>> : i \in Of(kind)}

Pairs(f) == {<<x, f[x]>> : x \in DOMAIN f}

Banned == IF AllowTestDomain THEN {} ELSE {TestDomain}

\* doc/rate-limit.md: "The order of the config lines doesn't matter."  The
\* tables are those that the set of lines gives, with one exception: the
\* test domain is banned "as if a line" said so, "overriding all other".
OrderDoesntMatter ==
  pc = "done" =>
    /\ Pairs(allowedKeys) = Written("key")
    /\ Pairs(allowedDomains) = {p \in Written("domain") : p[1] \notin Banned} \cup {<<d, 0>> : d \in Banned}
    /\ Of("public") = {} => allowPublic.limit = 0
    /\ \A i \in Of("public") : allowPublic = [limit |-> file[i].limit, item |-> file[i].item]

\* No line of a file that is accepted has been overruled by another one: a
\* key, a domain (however it is spelled) and public access have one limit.
NothingTwice ==
  pc = "done" =>
    /\ Cardinality(Of("public")) <= 1
    /\ \A kind \in {"key", "domain"} : \A i, j \in Of(kind) :
         Normalize(file[i].item) = Normalize(file[j].item) => i = j

\* No line is longer than what the scanner takes.
NoLongLine == \A i \in 1..Len(file) : file[i].kind # "overlong"

\* The lines of a kind that have been read.
Parsed(kind) == {i \in 1..lineno : file[i].kind = kind}

\* The table is what the lines say, with the limit zero for what is banned:
\* each line has set the limit of its own entry, and there are no others.
TableOf(table, kind, banned) ==
  /\ DOMAIN table = {Normalize(file[i].item) : i \in Parsed(kind)} \cup banned
  /\ \A d \in banned : table[d] = 0
  /\ \A i \in Parsed(kind) :
       Normalize(file[i].item) \notin banned => table[Normalize(file[i].item)] = file[i].limit

\* The inductive invariant: the tables are those of the lines read so far,
\* no two of which are about the same entry; only the last step touches the
\* entry of the test domain again.
ConfigInv ==
  /\ file \in Seq(Lines)
  /\ lineno \in 0..Len(file)
  /\ pc \in {"scan", "suffix", "done", "error"}
  /\ pc # "error" =>
       /\ TableOf(allowedKeys, "key", {})
       /\ \A kind \in {"key", "domain"} : \A i, j \in Parsed(kind) :
            Normalize(file[i].item) = Normalize(file[j].item) => i = j
       /\ publicSeen <=> Parsed("public") # {}
       /\ Parsed("public") = {} => allowPublic = NoPublic
       /\ \A i \in Parsed("public") : allowPublic = [limit |-> file[i].limit, item |-> file[i].item]
       /\ \A i, j \in Parsed("public") : i = j
       /\ TableOf(allowedDomains, "domain", IF pc = "done" THEN Banned ELSE {})
  /\ pc \in {"suffix", "done"} => ~HasLine
=============================================================================
