----------------------------- MODULE SuffixFile -----------------------------
(***************************************************************************)
(* parseSuffixFile and the use of what it returns.  A line of the file is  *)
(* a record of its kind and of the normalized name after the first         *)
(* characters.  The loop keeps exceptions for later, since the wildcard    *)
(* they belong to may come after them, or be repeated.  Module LimitConfig *)
(* says when the file is read.                                             *)
(***************************************************************************)
EXTENDS Naturals, Sequences, Functions

CONSTANTS SuffixLines,     \* the lines that suffix files are made of
          MaxSuffixLines,  \* bound: length of a suffix file
          Domains          \* names to look up

ASSUME SuffixLinesAssumption ==
  \A line \in SuffixLines :
    \/ line.kind \in {"comment", "malformed", "overlong"}
    \/ line.kind \in {"plain", "wildcard", "exception"} /\ line.name \in Seq(STRING)
ASSUME MaxSuffixLinesAssumption == MaxSuffixLines \in Nat
ASSUME DomainsAssumption == \A d \in Domains : d \in Seq(STRING)

VARIABLES suffixFile, suffixLineno, suffixes, wildcards, exceptions,
          spc              \* "none", "scan", "done" or "error"

suffixVars == <<suffixFile, suffixLineno, suffixes, wildcards, exceptions, spc>>

NoWildcards == [d \in {} |-> {}]

SuffixInit ==
  /\ suffixFile = << >>
  /\ suffixLineno = 0
  /\ suffixes = {}
  /\ wildcards = NoWildcards
  /\ exceptions = << >>
  /\ spc = "none"

\* NewDomainDb with an open file.
NewDomainDb ==
  /\ spc = "none"
  /\ suffixFile' \in UNION {[1..n -> SuffixLines] : n \in 0..MaxSuffixLines}
  /\ spc' = "scan"
  /\ UNCHANGED <<suffixLineno, suffixes, wildcards, exceptions>>

\* The map with an entry added or replaced.
With(f, d, value) == [x \in DOMAIN f \cup {d} |-> IF x = d THEN value ELSE f[x]]

SuffixFail == spc' = "error" /\ UNCHANGED <<suffixes, wildcards, exceptions>>

\* parseException: the first label, and the name of the wildcard.
ParseException(name) == [label |-> Head(name), wildcard |-> Tail(name)]

\* The scanner has another line.  It has none after one that is too long.
HasSuffixLine == suffixLineno < Len(suffixFile) /\ suffixFile[suffixLineno + 1].kind # "overlong"

\* Mutant: an exception is entered where it stands.
ScanSuffixLineAtOnce ==
  /\ spc = "scan"
  /\ HasSuffixLine
  /\ suffixLineno' = suffixLineno + 1
  /\ LET line == suffixFile[suffixLineno + 1]
     IN  CASE line.kind = "comment" -> UNCHANGED <<suffixes, wildcards, exceptions, spc>>
           [] line.kind = "malformed" -> SuffixFail
           [] line.kind = "exception" ->
                IF Len(line.name) < 2 \/ Tail(line.name) \notin DOMAIN wildcards THEN SuffixFail
                ELSE LET e == ParseException(line.name)
                     IN  /\ wildcards' = With(wildcards, e.wildcard, wildcards[e.wildcard] \cup {e.label})
                         /\ UNCHANGED <<suffixes, exceptions, spc>>
           [] line.kind = "wildcard" ->
                /\ wildcards' = With(wildcards, line.name, {})
                /\ UNCHANGED <<suffixes, exceptions, spc>>
           [] line.kind = "plain" ->
                /\ suffixes' = suffixes \cup {line.name}
                /\ UNCHANGED <<wildcards, exceptions, spc>>
  /\ UNCHANGED suffixFile

\* One line.  A name that NormalizeDomainName rejects, a single slash, "*"
\* without a dot: these are malformed.
ScanSuffixLine ==
  /\ spc = "scan"
  /\ HasSuffixLine
  /\ suffixLineno' = suffixLineno + 1
  /\ LET line == suffixFile[suffixLineno + 1]
     IN  CASE line.kind = "comment" -> UNCHANGED <<suffixes, wildcards, exceptions, spc>>
           [] line.kind = "malformed" -> SuffixFail
           [] line.kind = "exception" ->
                IF Len(line.name) < 2 THEN SuffixFail
                ELSE /\ exceptions' = Append(exceptions, ParseException(line.name))
                     /\ UNCHANGED <<suffixes, wildcards, spc>>
           [] line.kind = "wildcard" ->
                /\ wildcards' = With(wildcards, line.name, {})
                /\ UNCHANGED <<suffixes, exceptions, spc>>
           [] line.kind = "plain" ->
                /\ suffixes' = suffixes \cup {line.name}
                /\ UNCHANGED <<wildcards, exceptions, spc>>
  /\ UNCHANGED suffixFile

\* The loop over the exceptions; NewDomainDb returns.
EnterExceptions ==
  /\ spc = "scan"
  /\ ~HasSuffixLine
  /\ IF \E e \in Range(exceptions) : e.wildcard \notin DOMAIN wildcards
     THEN SuffixFail
     ELSE /\ wildcards' = [d \in DOMAIN wildcards |->
                             {e.label : e \in {x \in Range(exceptions) : x.wildcard = d}}]
          /\ spc' = "done"
          /\ UNCHANGED <<suffixes, exceptions>>
  /\ UNCHANGED <<suffixFile, suffixLineno>>

-----------------------------------------------------------------------------
Db == INSTANCE DomainDb WITH Suffixes <- suffixes, Wildcards <- wildcards

Rules(kind) == {line.name : line \in {x \in Range(suffixFile) : x.kind = kind}}

\* A public suffix, by the set of lines in the file: a plain rule, or one
\* more label before a wildcard, unless that name is excepted.
IsPublicSuffix(name) ==
  \/ name \in Rules("plain")
  \/ /\ Len(name) > 1
     /\ Tail(name) \in Rules("wildcard")
     /\ name \notin Rules("exception")

\* The names that a name ends with.
Endings(domain) == {SubSeq(domain, i, Len(domain)) : i \in 1..Len(domain)}

\* doc/rate-limit.md: the registered domain is "the longest know public
\* suffix matching the domain, and one additional label".  So does the code
\* find it, in whatever order and however often the lines of the file come,
\* and with one label less when the name itself is a public suffix.
RegisteredDomainRight ==
  spc = "done" =>
    \A d \in Domains :
      LET known == {s \in Endings(d) : IsPublicSuffix(s)}
      IN  IF known = {} THEN ~Db!HasRegisteredDomain(d)
          ELSE /\ Db!HasRegisteredDomain(d)
               /\ LET r == Db!RegisteredDomain(d)
                      longest == CHOOSE s \in known : \A u \in known : Len(u) <= Len(s)
                  IN  IF longest = d THEN r = d
                      ELSE r \in Endings(d) /\ Tail(r) = longest

\* A file is refused for a line that is wrong, or an exception without its
\* wildcard, and for nothing else; again wherever the lines are.
RefusalsRight ==
  LET wrong == \E line \in Range(suffixFile) :
                 \/ line.kind = "malformed"
                 \/ line.kind = "exception" /\ (Len(line.name) < 2 \/ Tail(line.name) \notin Rules("wildcard"))
  IN  (spc = "done" => ~wrong) /\ (spc = "error" => wrong)

\* No line is longer than what the scanner takes.
NoLongSuffixLine == \A i \in 1..Len(suffixFile) : suffixFile[i].kind # "overlong"

\* The names in the lines of a kind that have been read.
Scanned(kind) == {suffixFile[i].name : i \in {j \in 1..suffixLineno : suffixFile[j].kind = kind}}

\* Lines that have been read and need no other line to be right.
ScannedWell ==
  \A i \in 1..suffixLineno :
    /\ suffixFile[i].kind # "malformed"
    /\ suffixFile[i].kind = "exception" => Len(suffixFile[i].name) >= 2

\* The inductive invariant: the maps are those of the lines read so far,
\* in which repeated lines and the order leave no trace; the exceptions are
\* in their list, and only after the last line in the map of wildcards.
SuffixInv ==
  /\ suffixFile \in Seq(SuffixLines)
  /\ suffixLineno \in 0..Len(suffixFile)
  /\ spc \in {"none", "scan", "done", "error"}
  /\ exceptions \in Seq([label : STRING, wildcard : Seq(STRING)])
  /\ spc = "none" => suffixLineno = 0
  /\ spc \in {"none", "scan", "done"} =>
       /\ ScannedWell
       /\ suffixes = Scanned("plain")
       /\ DOMAIN wildcards = Scanned("wildcard")
  /\ spc \in {"none", "scan"} =>
       /\ Range(exceptions) = {ParseException(name) : name \in Scanned("exception")}
       /\ \A d \in DOMAIN wildcards : wildcards[d] = {}
  /\ spc = "done" =>
       /\ ~HasSuffixLine
       /\ \A name \in Scanned("exception") : Tail(name) \in DOMAIN wildcards
       /\ \A d \in DOMAIN wildcards :
            wildcards[d] = {Head(name) : name \in {x \in Scanned("exception") : Tail(x) = d}}
  /\ spc = "error" =>
       \/ ~ScannedWell
       \/ ~HasSuffixLine /\ \E name \in Scanned("exception") : Tail(name) \notin Scanned("wildcard")
=============================================================================
