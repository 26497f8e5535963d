------------------------- MODULE LimitConfigProofs -------------------------
(***************************************************************************)
(* Proofs about reading the rate limit file and the suffix file, for files *)
(* of any length, any lines and any names: the loops compute what the set  *)
(* of lines says.                                                          *)
(***************************************************************************)
EXTENDS LimitConfig, SequenceTheorems, FiniteSetTheorems, WellFoundedInduction, TLAPS

USE SuffixLinesAssumption, MaxSuffixLinesAssumption, LinesAssumption, MaxLinesAssumption

-----------------------------------------------------------------------------
\* The files that the model starts with are sequences of lines.
LEMMA FilesAreSequences ==
  ASSUME NEW S, NEW max \in Nat, NEW f \in UNION {[1..n -> S] : n \in 0..max}
  PROVE  f \in Seq(S)
<1>1. PICK n \in 0..max : f \in [1..n -> S]
  OBVIOUS
<1>2. n \in Nat
  OBVIOUS
<1>3. QED
  BY <1>1, <1>2, SeqDef

\* One element more in a list.
LEMMA RangeAppend ==
  ASSUME NEW S, NEW s \in Seq(S), NEW e \in S
  PROVE  Range(Append(s, e)) = Range(s) \cup {e}
<1>1. /\ Append(s, e) \in Seq(S)
      /\ Len(Append(s, e)) = Len(s) + 1
      /\ \A i \in 1..Len(s) : Append(s, e)[i] = s[i]
      /\ Append(s, e)[Len(s) + 1] = e
      /\ Len(s) \in Nat
  BY AppendProperties, LenProperties
<1>2. Range(Append(s, e)) = {Append(s, e)[i] : i \in 1..Len(s) + 1}
  BY <1>1, RangeEquality
<1>3. Range(s) = {s[i] : i \in 1..Len(s)}
  BY RangeEquality
<1>4. 1..Len(s) + 1 = 1..Len(s) \cup {Len(s) + 1}
  BY <1>1
<1>5. QED
  BY <1>1, <1>2, <1>3, <1>4

-----------------------------------------------------------------------------
(***************************************************************************)
(* The suffix file.                                                        *)
(***************************************************************************)
LEMMA ScannedType ==
  ASSUME SuffixInv, NEW kind \in {"plain", "wildcard", "exception"}, NEW name \in Scanned(kind)
  PROVE  name \in Seq(STRING)
<1>1. PICK i \in 1..suffixLineno : suffixFile[i].kind = kind /\ name = suffixFile[i].name
  BY DEF Scanned
<1>2. i \in 1..Len(suffixFile) /\ suffixFile[i] \in SuffixLines
  BY ElementOfSeq DEF SuffixInv
<1>3. QED
  BY <1>1, <1>2

\* One line more has been read.
LEMMA ScannedMore ==
  ASSUME suffixLineno \in Nat, suffixLineno' = suffixLineno + 1, UNCHANGED suffixFile, NEW kind
  PROVE  Scanned(kind)' = Scanned(kind) \cup
           (IF suffixFile[suffixLineno + 1].kind = kind THEN {suffixFile[suffixLineno + 1].name} ELSE {})
<1>1. 1..suffixLineno' = 1..suffixLineno \cup {suffixLineno + 1}
  OBVIOUS
<1>2. Scanned(kind)' = {suffixFile[i].name : i \in {j \in 1..suffixLineno' : suffixFile[j].kind = kind}}
  BY DEF Scanned
<1>3. QED
  BY <1>1, <1>2 DEF Scanned

LEMMA ScannedWellMore ==
  ASSUME suffixLineno \in Nat, suffixLineno' = suffixLineno + 1, UNCHANGED suffixFile, ScannedWell
  PROVE  LET line == suffixFile[suffixLineno + 1]
         IN  ScannedWell' <=> line.kind # "malformed" /\ (line.kind = "exception" => Len(line.name) >= 2)
<1>1. 1..suffixLineno' = 1..suffixLineno \cup {suffixLineno + 1}
  OBVIOUS
<1>2. QED
  BY <1>1 DEF ScannedWell

LEMMA InitSuffixInv == SuffixInit => SuffixInv
<1> SUFFICES ASSUME SuffixInit PROVE SuffixInv
  OBVIOUS
<1>1. suffixFile \in Seq(SuffixLines) /\ Len(suffixFile) = 0 /\ 1..suffixLineno = {}
  BY DEF SuffixInit
<1>2. \A kind : Scanned(kind) = {}
  BY <1>1 DEF Scanned
<1>3. ScannedWell
  BY <1>1 DEF ScannedWell
<1>4. exceptions \in Seq([label : STRING, wildcard : Seq(STRING)]) /\ Range(exceptions) = {}
  BY DEF SuffixInit, Range
<1>5. DOMAIN wildcards = {}
  BY DEF SuffixInit, NoWildcards
<1>6. QED
  BY <1>1, <1>2, <1>3, <1>4, <1>5 DEF SuffixInit, SuffixInv

LEMMA NewDomainDbLemma ==
  ASSUME SuffixInv, NewDomainDb
  PROVE  SuffixInv'
<1>1. suffixFile' \in Seq(SuffixLines)
  BY FilesAreSequences DEF NewDomainDb
<1>2. Len(suffixFile') \in Nat /\ 1..suffixLineno = {} /\ suffixLineno' = 0
  BY <1>1, LenProperties DEF NewDomainDb, SuffixInv
<1>3. \A kind : Scanned(kind) = {} /\ Scanned(kind)' = {}
  BY <1>2 DEF Scanned, NewDomainDb
<1>4. ScannedWell'
  BY <1>2 DEF ScannedWell
<1>5. spc = "none" /\ spc' = "scan" /\ UNCHANGED <<suffixes, wildcards, exceptions>>
  BY DEF NewDomainDb
<1>6. suffixes' = Scanned("plain")' /\ DOMAIN wildcards' = Scanned("wildcard")'
  BY <1>3, <1>5 DEF SuffixInv
<1>7. Range(exceptions') = {ParseException(name) : name \in Scanned("exception")'}
  BY <1>3, <1>5 DEF SuffixInv
<1>8. \A d \in DOMAIN wildcards' : wildcards'[d] = {}
  BY <1>5 DEF SuffixInv
<1>9. exceptions' \in Seq([label : STRING, wildcard : Seq(STRING)]) /\ suffixLineno' \in 0..Len(suffixFile')
  BY <1>2, <1>5 DEF SuffixInv
<1>10. QED
  BY <1>1, <1>2, <1>4, <1>5, <1>6, <1>7, <1>8, <1>9 DEF SuffixInv

\* A line that is wrong ends the reading.
LEMMA ScanFails ==
  ASSUME SuffixInv, spc = "scan", SuffixFail, suffixLineno' = suffixLineno + 1,
         suffixLineno < Len(suffixFile), UNCHANGED suffixFile, ~ScannedWell'
  PROVE  SuffixInv'
<1>1. suffixLineno' \in 0..Len(suffixFile)
  BY LenProperties DEF SuffixInv
<1>2. QED
  BY <1>1 DEF SuffixInv, SuffixFail

\* A line that is right is entered in the maps, or in the list.
LEMMA ScanGoesOn ==
  ASSUME SuffixInv, spc = "scan", spc' = "scan", suffixLineno' = suffixLineno + 1,
         suffixLineno < Len(suffixFile), UNCHANGED suffixFile, ScannedWell',
         suffixes' = Scanned("plain")',
         DOMAIN wildcards' = Scanned("wildcard")',
         \A d \in DOMAIN wildcards' : wildcards'[d] = {},
         exceptions' \in Seq([label : STRING, wildcard : Seq(STRING)]),
         Range(exceptions') = {ParseException(name) : name \in Scanned("exception")'}
  PROVE  SuffixInv'
<1>1. suffixLineno' \in 0..Len(suffixFile)
  BY LenProperties DEF SuffixInv
<1>2. QED
  BY <1>1 DEF SuffixInv

LEMMA ScanSuffixLineLemma ==
  ASSUME SuffixInv, ScanSuffixLine
  PROVE  SuffixInv'
<1> DEFINE line == suffixFile[suffixLineno + 1]
           Exception == [label : STRING, wildcard : Seq(STRING)]
<1>1. /\ spc = "scan" /\ suffixLineno < Len(suffixFile) /\ line.kind # "overlong"
      /\ suffixLineno' = suffixLineno + 1 /\ UNCHANGED suffixFile
      /\ suffixLineno \in Nat /\ suffixLineno + 1 \in 1..Len(suffixFile)
  <2>1. suffixLineno \in Nat /\ Len(suffixFile) \in Nat
    BY LenProperties DEF SuffixInv
  <2>2. QED
    BY <2>1 DEF ScanSuffixLine, HasSuffixLine
<1>2. line \in SuffixLines
  BY <1>1, ElementOfSeq DEF SuffixInv
<1>3. /\ ScannedWell
      /\ suffixes = Scanned("plain")
      /\ DOMAIN wildcards = Scanned("wildcard")
      /\ Range(exceptions) = {ParseException(name) : name \in Scanned("exception")}
      /\ \A d \in DOMAIN wildcards : wildcards[d] = {}
      /\ exceptions \in Seq(Exception)
  BY <1>1 DEF SuffixInv
<1>4. ScannedWell' <=> line.kind # "malformed" /\ (line.kind = "exception" => Len(line.name) >= 2)
  BY <1>1, <1>3, ScannedWellMore
<1>5. \A kind : Scanned(kind)' = Scanned(kind) \cup (IF line.kind = kind THEN {line.name} ELSE {})
  BY <1>1, ScannedMore
<1> HIDE DEF line
<1>6. CASE line.kind = "comment"
  <2>1. UNCHANGED <<suffixes, wildcards, exceptions, spc>>
    BY <1>6 DEF ScanSuffixLine, line
  <2>2. \A kind \in {"plain", "wildcard", "exception"} : Scanned(kind)' = Scanned(kind)
    BY <1>5, <1>6
  <2>3. QED
    BY <1>1, <1>3, <1>4, <1>6, <2>1, <2>2, ScanGoesOn
<1>7. CASE line.kind = "malformed"
  <2>1. SuffixFail
    BY <1>7 DEF ScanSuffixLine, line
  <2>2. QED
    BY <1>1, <1>4, <1>7, <2>1, ScanFails
<1>8. CASE line.kind = "exception" /\ Len(line.name) < 2
  <2>1. SuffixFail
    BY <1>8 DEF ScanSuffixLine, line
  <2>2. Len(line.name) \in Nat
    BY <1>2, <1>8, LenProperties
  <2>3. QED
    BY <1>1, <1>4, <1>8, <2>1, <2>2, ScanFails
<1>9. CASE line.kind = "exception" /\ ~(Len(line.name) < 2)
  <2> DEFINE e == ParseException(line.name)
  <2>1. exceptions' = Append(exceptions, e) /\ UNCHANGED <<suffixes, wildcards, spc>>
    BY <1>9 DEF ScanSuffixLine, line
  <2>2. line.name \in Seq(STRING) /\ Len(line.name) \in Nat /\ Len(line.name) >= 2
    BY <1>2, <1>9, LenProperties
  <2>3. e \in Exception
    <3>1. line.name # << >>
      BY <2>2
    <3>2. Head(line.name) \in STRING /\ Tail(line.name) \in Seq(STRING)
      BY <2>2, <3>1, HeadTailProperties
    <3>3. QED
      BY <3>2 DEF ParseException
  <2>4. Scanned("plain")' = Scanned("plain") /\ Scanned("wildcard")' = Scanned("wildcard")
    BY <1>5, <1>9
  <2>5. Scanned("exception")' = Scanned("exception") \cup {line.name}
    BY <1>5, <1>9
  <2>6. exceptions' \in Seq(Exception) /\ Range(exceptions') = Range(exceptions) \cup {e}
    <3> HIDE DEF e, Exception
    <3>1. Append(exceptions, e) \in Seq(Exception)
      BY <1>3, <2>3, AppendProperties
    <3>2. Range(Append(exceptions, e)) = Range(exceptions) \cup {e}
      BY <1>3, <2>3, RangeAppend
    <3>3. QED
      BY <2>1, <3>1, <3>2
  <2>7. Range(exceptions') = {ParseException(name) : name \in Scanned("exception")'}
    BY <1>3, <2>5, <2>6
  <2>8. QED
    BY <1>1, <1>3, <1>4, <1>9, <2>1, <2>2, <2>4, <2>6, <2>7, ScanGoesOn
<1>10. CASE line.kind = "wildcard"
  <2>1. wildcards' = With(wildcards, line.name, {}) /\ UNCHANGED <<suffixes, exceptions, spc>>
    BY <1>10 DEF ScanSuffixLine, line
  <2>2. Scanned("plain")' = Scanned("plain") /\ Scanned("exception")' = Scanned("exception")
    BY <1>5, <1>10
  <2>3. Scanned("wildcard")' = Scanned("wildcard") \cup {line.name}
    BY <1>5, <1>10
  <2>4. DOMAIN wildcards' = Scanned("wildcard")' /\ \A d \in DOMAIN wildcards' : wildcards'[d] = {}
    BY <1>3, <2>1, <2>3 DEF With
  <2>5. QED
    BY <1>1, <1>3, <1>4, <1>10, <2>1, <2>2, <2>4, ScanGoesOn
<1>11. CASE line.kind = "plain"
  <2>1. suffixes' = suffixes \cup {line.name} /\ UNCHANGED <<wildcards, exceptions, spc>>
    BY <1>11 DEF ScanSuffixLine, line
  <2>2. Scanned("wildcard")' = Scanned("wildcard") /\ Scanned("exception")' = Scanned("exception")
    BY <1>5, <1>11
  <2>3. Scanned("plain")' = Scanned("plain") \cup {line.name}
    BY <1>5, <1>11
  <2>4. QED
    BY <1>1, <1>3, <1>4, <1>11, <2>1, <2>2, <2>3, ScanGoesOn
<1>12. QED
  BY <1>1, <1>2, <1>6, <1>7, <1>8, <1>9, <1>10, <1>11

\* The exceptions go where they belong, all of them or none.
LEMMA EnterExceptionsLemma ==
  ASSUME SuffixInv, EnterExceptions
  PROVE  SuffixInv'
<1>1. /\ spc = "scan" /\ ~HasSuffixLine
      /\ UNCHANGED <<suffixFile, suffixLineno, suffixes, exceptions>>
  BY DEF EnterExceptions, SuffixFail
<1>2. /\ ScannedWell
      /\ suffixes = Scanned("plain")
      /\ DOMAIN wildcards = Scanned("wildcard")
      /\ Range(exceptions) = {ParseException(name) : name \in Scanned("exception")}
  BY <1>1 DEF SuffixInv
<1>3. /\ \A kind : Scanned(kind)' = Scanned(kind)
      /\ ScannedWell' = ScannedWell
      /\ HasSuffixLine' = HasSuffixLine
  BY <1>1 DEF Scanned, ScannedWell, HasSuffixLine
<1>4. CASE \E e \in Range(exceptions) : e.wildcard \notin DOMAIN wildcards
  <2>1. SuffixFail
    BY <1>4 DEF EnterExceptions
  <2>2. PICK e \in Range(exceptions) : e.wildcard \notin DOMAIN wildcards
    BY <1>4
  <2>3. PICK name \in Scanned("exception") : e = ParseException(name)
    BY <1>2, <2>2
  <2>4. Tail(name) \notin Scanned("wildcard")
    BY <1>2, <2>2, <2>3 DEF ParseException
  <2>5. \E n \in Scanned("exception")' : Tail(n) \notin Scanned("wildcard")'
    BY <1>3, <2>4
  <2>6. QED
    BY <1>1, <1>3, <2>1, <2>5 DEF SuffixInv, SuffixFail
<1>5. CASE ~\E e \in Range(exceptions) : e.wildcard \notin DOMAIN wildcards
  <2>1. /\ spc' = "done"
        /\ wildcards' = [d \in DOMAIN wildcards |->
                            {e.label : e \in {x \in Range(exceptions) : x.wildcard = d}}]
    BY <1>5 DEF EnterExceptions
  <2>2. \A name : ParseException(name).label = Head(name) /\ ParseException(name).wildcard = Tail(name)
    BY DEF ParseException
  <2>3. \A name \in Scanned("exception") : Tail(name) \in DOMAIN wildcards
    BY <1>2, <1>5, <2>2
  <2>4. ASSUME NEW d \in DOMAIN wildcards
        PROVE  wildcards'[d] = {Head(name) : name \in {x \in Scanned("exception") : Tail(x) = d}}
    <3>1. wildcards'[d] = {e.label : e \in {x \in Range(exceptions) : x.wildcard = d}}
      BY <2>1
    <3>2. QED
      BY <1>2, <2>2, <3>1
  <2>5. DOMAIN wildcards' = DOMAIN wildcards
    BY <2>1
  <2>6. \A name \in Scanned("exception")' : Tail(name) \in DOMAIN wildcards'
    BY <1>3, <2>3, <2>5
  <2>7. \A d \in DOMAIN wildcards' :
          wildcards'[d] = {Head(name) : name \in {x \in Scanned("exception")' : Tail(x) = d}}
    BY <1>3, <2>4, <2>5
  <2>8. QED
    BY <1>1, <1>2, <1>3, <2>1, <2>5, <2>6, <2>7 DEF SuffixInv
<1>6. QED
  BY <1>4, <1>5

LEMMA SuffixUnchanged ==
  ASSUME SuffixInv, UNCHANGED suffixVars
  PROVE  SuffixInv'
<1>1. /\ \A kind : Scanned(kind)' = Scanned(kind)
      /\ ScannedWell' = ScannedWell
      /\ HasSuffixLine' = HasSuffixLine
  BY DEF Scanned, ScannedWell, HasSuffixLine, suffixVars
<1>2. QED
  BY <1>1 DEF SuffixInv, suffixVars

\* SuffixInv is an invariant of the start of the rate limiter.
THEOREM SuffixInvariant == Spec => []SuffixInv
<1>1. Init => SuffixInv
  BY InitSuffixInv DEF Init
<1>2. ASSUME SuffixInv, [Next]_vars PROVE SuffixInv'
  <2>1. CASE UNCHANGED suffixVars
    BY <1>2, <2>1, SuffixUnchanged
  <2>2. CASE NewDomainDb \/ ScanSuffixLine \/ EnterExceptions
    BY <1>2, <2>2, NewDomainDbLemma, ScanSuffixLineLemma, EnterExceptionsLemma
  <2>3. QED
    BY <1>2, <2>1, <2>2 DEF Next, vars, ParseLine, ParseLineWith, OpenSuffixFile, ReadSuffixFile, NewLimiter
<1>3. QED
  BY <1>1, <1>2, PTL DEF Spec

\* Unless a line is too long the whole file is read.
LEMMA AllScanned ==
  ASSUME SuffixInv, NoLongSuffixLine, ~HasSuffixLine
  PROVE  /\ suffixLineno = Len(suffixFile)
         /\ \A kind : Scanned(kind) = Rules(kind)
         /\ Range(suffixFile) = {suffixFile[i] : i \in 1..suffixLineno}
<1>1. suffixLineno \in 0..Len(suffixFile) /\ Len(suffixFile) \in Nat
  BY LenProperties DEF SuffixInv
<1>2. suffixLineno < Len(suffixFile) => suffixLineno + 1 \in 1..Len(suffixFile)
  BY <1>1
<1>3. suffixLineno = Len(suffixFile)
  BY <1>1, <1>2 DEF NoLongSuffixLine, HasSuffixLine
<1>4. Range(suffixFile) = {suffixFile[i] : i \in 1..suffixLineno}
  BY <1>3, RangeEquality DEF SuffixInv
<1>5. ASSUME NEW kind PROVE Scanned(kind) = Rules(kind)
  BY <1>4 DEF Scanned, Rules
<1>6. QED
  BY <1>3, <1>4, <1>5

\* A line that was found wrong is one of the file.
LEMMA ScannedInFile ==
  ASSUME SuffixInv, NEW i \in 1..suffixLineno
  PROVE  suffixFile[i] \in Range(suffixFile)
<1>1. Range(suffixFile) = {suffixFile[j] : j \in 1..Len(suffixFile)}
  BY RangeEquality DEF SuffixInv
<1>2. i \in 1..Len(suffixFile)
  BY LenProperties DEF SuffixInv
<1>3. QED
  BY <1>1, <1>2

\* parseSuffixFile refuses a file for a wrong line or an exception without
\* its wildcard, wherever the lines are, and for nothing else.
THEOREM RefusalsAreRight == Spec => [](NoLongSuffixLine => RefusalsRight)
<1> DEFINE bad(line) == \/ line.kind = "malformed"
                        \/ line.kind = "exception" /\ (Len(line.name) < 2 \/ Tail(line.name) \notin Rules("wildcard"))
           wrong == \E line \in Range(suffixFile) : bad(line)
<1>1. ASSUME SuffixInv, NoLongSuffixLine, spc = "done" PROVE ~wrong
  <2>1. SUFFICES ASSUME NEW line \in Range(suffixFile) PROVE ~bad(line)
    OBVIOUS
  <2>2. /\ \A kind : Scanned(kind) = Rules(kind)
        /\ Range(suffixFile) = {suffixFile[i] : i \in 1..suffixLineno}
    BY <1>1, AllScanned DEF SuffixInv
  <2>3. PICK i \in 1..suffixLineno : line = suffixFile[i]
    BY <2>2
  <2>4. line.kind # "malformed" /\ (line.kind = "exception" => Len(line.name) >= 2)
    BY <1>1, <2>3 DEF SuffixInv, ScannedWell
  <2>5. CASE line.kind = "exception"
    <3>1. line.name \in Scanned("exception")
      BY <2>3, <2>5 DEF Scanned
    <3>2. Tail(line.name) \in Rules("wildcard")
      BY <1>1, <2>2, <3>1 DEF SuffixInv
    <3>3. line.name \in Seq(STRING)
      BY <1>1, <3>1, ScannedType
    <3>4. QED
      BY <2>4, <2>5, <3>2, <3>3, LenProperties
  <2>6. CASE line.kind # "exception"
    BY <2>4, <2>6
  <2>7. QED
    BY <2>5, <2>6
<1>2. ASSUME SuffixInv, NoLongSuffixLine, spc = "error" PROVE wrong
  <2>1. CASE ~ScannedWell
    <3>1. PICK i \in 1..suffixLineno :
            \/ suffixFile[i].kind = "malformed"
            \/ suffixFile[i].kind = "exception" /\ ~(Len(suffixFile[i].name) >= 2)
      BY <2>1 DEF ScannedWell
    <3>2. suffixFile[i] \in Range(suffixFile)
      BY <1>2, ScannedInFile
    <3>3. suffixFile[i] \in SuffixLines
      BY <1>2, <3>2, RangeOfSeq DEF SuffixInv
    <3>4. suffixFile[i].kind = "exception" => Len(suffixFile[i].name) \in Nat
      BY <3>3, LenProperties
    <3>5. bad(suffixFile[i])
      BY <3>1, <3>4
    <3>6. QED
      BY <3>2, <3>5
  <2>2. CASE ~HasSuffixLine /\ \E name \in Scanned("exception") : Tail(name) \notin Scanned("wildcard")
    <3>1. PICK name \in Scanned("exception") : Tail(name) \notin Scanned("wildcard")
      BY <2>2
    <3>2. PICK i \in 1..suffixLineno : suffixFile[i].kind = "exception" /\ suffixFile[i].name = name
      BY DEF Scanned
    <3>3. Tail(suffixFile[i].name) \notin Rules("wildcard")
      BY <1>2, <2>2, <3>1, <3>2, AllScanned
    <3>4. suffixFile[i] \in Range(suffixFile)
      BY <1>2, ScannedInFile
    <3>5. QED
      BY <3>2, <3>3, <3>4
  <2>3. QED
    BY <1>2, <2>1, <2>2 DEF SuffixInv
<1>3. SuffixInv => (NoLongSuffixLine => RefusalsRight)
  BY <1>1, <1>2 DEF RefusalsRight
<1>4. QED
  BY <1>3, SuffixInvariant, PTL

-----------------------------------------------------------------------------
(***************************************************************************)
(* The registered domain.                                                  *)
(***************************************************************************)
\* A name is its first label and the rest.
LEMMA HeadTailEqual ==
  ASSUME NEW S, NEW s \in Seq(S), NEW t \in Seq(S), s # << >>, t # << >>,
         Head(s) = Head(t), Tail(s) = Tail(t)
  PROVE  s = t
<1> DEFINE rest == Tail(s)
           n == Len(rest)
<1>0. /\ Len(Tail(s)) = Len(s) - 1 /\ \A i \in 1..Len(Tail(s)) : Tail(s)[i] = s[i + 1]
      /\ Len(Tail(t)) = Len(t) - 1 /\ \A i \in 1..Len(Tail(t)) : Tail(t)[i] = t[i + 1]
  BY HeadTailProperties
<1>1. /\ n = Len(s) - 1 /\ \A i \in 1..n : rest[i] = s[i + 1]
      /\ n = Len(t) - 1 /\ \A i \in 1..n : rest[i] = t[i + 1]
  BY <1>0, Zenon
<1>2. Len(s) \in Nat /\ Len(t) \in Nat /\ s[1] = Head(s) /\ t[1] = Head(t)
  BY LenProperties, HeadTailProperties
<1> HIDE DEF rest, n
<1>3. Len(s) = Len(t)
  BY <1>1, <1>2
<1>4. ASSUME NEW i \in 1..Len(s) PROVE s[i] = t[i]
  <2>1. CASE i = 1
    BY <1>2, <2>1
  <2>2. CASE i # 1
    <3>1. i - 1 \in 1..n /\ (i - 1) + 1 = i
      BY <1>1, <1>2, <2>2
    <3>2. QED
      BY <1>1, <3>1
  <2>3. QED
    BY <2>1, <2>2
<1>5. QED
  BY <1>3, <1>4, SeqEqual

\* The name from its i-th label on.
LEMMA EndingFacts ==
  ASSUME NEW d \in Seq(STRING), NEW i \in 1..Len(d)
  PROVE  LET s == SubSeq(d, i, Len(d))
         IN  /\ s \in Seq(STRING) /\ s # << >>
             /\ Len(d) \in Nat /\ Len(s) = Len(d) - i + 1
             /\ Head(s) = d[i] /\ Tail(s) = SubSeq(d, i + 1, Len(d))
<1> DEFINE s == SubSeq(d, i, Len(d))
<1>1. Len(d) \in Nat /\ i \in Int /\ i <= Len(d)
  BY LenProperties
<1>2. \A j \in i..Len(d) : d[j] \in STRING
  BY <1>1, ElementOfSeq
<1>3. s \in Seq(STRING) /\ Len(s) = Len(d) - i + 1
  BY <1>1, <1>2, SubSeqProperties
<1>4. s # << >>
  <2>1. Len(s) > 0
    BY <1>1, <1>3
  <2> HIDE DEF s
  <2>2. QED
    BY <1>3, <2>1, EmptySeq
<1>5. Head(s) = d[i] /\ Tail(s) = SubSeq(d, i + 1, Len(d))
  BY <1>1, HeadTailOfSubSeq
<1>6. QED
  BY <1>1, <1>3, <1>4, <1>5

\* What a round of getSuffix's loop looks for.
Found(d, i) ==
  \/ SubSeq(d, i, Len(d)) \in suffixes
  \/ /\ i < Len(d)
     /\ SubSeq(d, i + 1, Len(d)) \in DOMAIN wildcards
     /\ d[i] \notin wildcards[SubSeq(d, i + 1, Len(d))]

\* The maps answer as the lines of the file do.
LEMMA FoundIsPublic ==
  ASSUME SuffixInv, NoLongSuffixLine, spc = "done", NEW d \in Seq(STRING), NEW i \in 1..Len(d)
  PROVE  Found(d, i) <=> IsPublicSuffix(SubSeq(d, i, Len(d)))
<1> DEFINE s == SubSeq(d, i, Len(d))
<1>1. /\ s \in Seq(STRING) /\ s # << >>
      /\ Len(d) \in Nat /\ Len(s) = Len(d) - i + 1
      /\ Head(s) = d[i] /\ Tail(s) = SubSeq(d, i + 1, Len(d))
  BY EndingFacts
<1> HIDE DEF s
<1>2. /\ suffixes = Rules("plain")
      /\ DOMAIN wildcards = Rules("wildcard")
      /\ \A t \in DOMAIN wildcards :
           wildcards[t] = {Head(name) : name \in {x \in Rules("exception") : Tail(x) = t}}
  BY AllScanned DEF SuffixInv
<1>3. i < Len(d) <=> Len(s) > 1
  BY <1>1
<1>4. ASSUME NEW name \in Rules("exception") PROVE name \in Seq(STRING) /\ name # << >>
  <2>1. name \in Scanned("exception")
    BY AllScanned DEF SuffixInv
  <2>2. PICK j \in 1..suffixLineno : suffixFile[j].kind = "exception" /\ name = suffixFile[j].name
    BY <2>1 DEF Scanned
  <2>3. Len(name) >= 2
    BY <2>2 DEF SuffixInv, ScannedWell
  <2>4. name \in Seq(STRING)
    BY <2>1, ScannedType
  <2>5. QED
    BY <2>3, <2>4
<1>5. ASSUME Tail(s) \in DOMAIN wildcards PROVE Head(s) \in wildcards[Tail(s)] <=> s \in Rules("exception")
  <2> DEFINE t == Tail(s)
             h == Head(s)
  <2> HIDE DEF t, h
  <2>0. wildcards[t] = {Head(name) : name \in {x \in Rules("exception") : Tail(x) = t}}
    BY <1>2, <1>5 DEF t
  <2>1. h \in wildcards[t] <=> \E name \in Rules("exception") : Tail(name) = t /\ Head(name) = h
    BY <2>0, Zenon
  <2>2. ASSUME NEW name \in Rules("exception"), Tail(name) = t, Head(name) = h PROVE name = s
    BY <1>1, <1>4, <2>2, HeadTailEqual DEF t, h
  <2>3. QED
    BY <2>1, <2>2, Zenon DEF t, h
<1>6. QED
  BY <1>1, <1>2, <1>3, <1>5 DEF Found, IsPublicSuffix, s

\* A set of natural numbers that is not empty has a least element.
LEMMA LeastNat ==
  ASSUME NEW S, S \subseteq Nat, S # {}
  PROVE  \E j \in S : \A k \in S : j <= k
<1> DEFINE Less == OpToRel(<, Nat)
<1>1. IsWellFoundedOn(Less, Nat)
  BY NatLessThanWellFounded
<1>2. \A j, k \in Nat : k < j => <<k, j>> \in Less
  BY DEF OpToRel
<1> HIDE DEF Less
<1>3. PICK j \in S : \A k \in S : ~(<<k, j>> \in Less)
  BY <1>1, WFMin
<1>4. ASSUME NEW k \in S PROVE j <= k
  <2>1. j \in Nat /\ k \in Nat
    OBVIOUS
  <2>2. ~(k < j)
    BY <1>2, <1>3, <2>1, Zenon
  <2>3. QED
    BY <2>1, <2>2
<1>5. QED
  BY <1>4, Zenon

\* getSuffix stops at the first label that it looks for.
LEMMA SuffixStartLeast ==
  ASSUME NEW d \in Seq(STRING)
  PROVE  /\ (\A i \in 1..Len(d) : ~Found(d, i)) => Db!SuffixStart(d) = 0
         /\ (\E i \in 1..Len(d) : Found(d, i)) =>
              /\ Db!SuffixStart(d) \in 1..Len(d)
              /\ Found(d, Db!SuffixStart(d))
              /\ \A j \in 1..Db!SuffixStart(d) - 1 : ~Found(d, j)
<1> DEFINE n == Len(d)
           Hits == {i \in 1..n : Found(d, i)}
           First(i) == Found(d, i) /\ \A j \in 1..i - 1 : ~Found(d, j)
<1>1. n \in Nat
  BY LenProperties
<1>2. Db!SuffixStart(d) = IF \E i \in 1..n : Found(d, i) THEN CHOOSE i \in 1..n : First(i) ELSE 0
  BY DEF Db!SuffixStart, Db!FirstIndex, Db!SuffixFrom, Found
<1>3. ASSUME \E i \in 1..n : Found(d, i) PROVE \E i \in 1..n : First(i)
  <2> HIDE DEF n
  <2>1. Hits \subseteq Nat /\ Hits # {}
    BY <1>1, <1>3
  <2>2. PICK i \in Hits : \A k \in Hits : i <= k
    BY <2>1, LeastNat
  <2>3. ASSUME NEW j \in 1..i - 1 PROVE ~Found(d, j)
    <3>1. j \in 1..n /\ j < i
      BY <1>1, <2>2
    <3>2. QED
      BY <2>2, <3>1
  <2>4. QED
    BY <2>2, <2>3
<1>4. QED
  <2> HIDE DEF First, n
  <2>1. (\E i \in 1..n : Found(d, i)) => Db!SuffixStart(d) \in 1..n /\ First(Db!SuffixStart(d))
    BY <1>2, <1>3, Zenon
  <2>2. QED
    BY <1>2, <2>1 DEF First, n

\* A name with a public suffix.
LEMMA LongestIsFirst ==
  ASSUME SuffixInv, NoLongSuffixLine, spc = "done", NEW d \in Seq(STRING)
  PROVE  LET known == {s \in Endings(d) : IsPublicSuffix(s)}
             i == Db!SuffixStart(d)
         IN  IF known = {} THEN i = 0
             ELSE /\ i \in 1..Len(d)
                  /\ (CHOOSE s \in known : \A u \in known : Len(u) <= Len(s)) = SubSeq(d, i, Len(d))
<1> DEFINE n == Len(d)
           E(j) == SubSeq(d, j, n)
           known == {s \in Endings(d) : IsPublicSuffix(s)}
           i == Db!SuffixStart(d)
           Longest(s) == \A u \in known : Len(u) <= Len(s)
<1>1. n \in Nat /\ \A j \in 1..n : Len(E(j)) = n - j + 1
  BY EndingFacts, LenProperties
<1>2. \A s : s \in known <=> \E j \in 1..n : s = E(j) /\ Found(d, j)
  BY FoundIsPublic DEF Endings
<1>3. /\ (\A j \in 1..n : ~Found(d, j)) => i = 0
      /\ (\E j \in 1..n : Found(d, j)) =>
           i \in 1..n /\ Found(d, i) /\ \A j \in 1..i - 1 : ~Found(d, j)
  BY SuffixStartLeast
<1> HIDE DEF n, E, known, i
<1>4. CASE known = {}
  <2>1. i = 0
    BY <1>2, <1>3, <1>4
  <2>2. QED
    BY <1>4, <2>1 DEF known, i
<1>5. CASE known # {}
  <2>1. i \in 1..n /\ Found(d, i) /\ \A j \in 1..i - 1 : ~Found(d, j)
    BY <1>2, <1>3, <1>5, Zenon
  <2>2. E(i) \in known
    BY <1>2, <2>1, Zenon
  <2>3. ASSUME NEW u \in known PROVE Len(u) <= Len(E(i)) /\ (Len(u) = Len(E(i)) => u = E(i))
    <3>1. PICK j \in 1..n : u = E(j) /\ Found(d, j)
      BY <1>2, Zenon
    <3>2. j >= i
      BY <2>1, <3>1
    <3>3. Len(u) = n - j + 1 /\ Len(E(i)) = n - i + 1
      BY <1>1, <2>1, <3>1
    <3>4. Len(u) <= Len(E(i)) /\ (Len(u) = Len(E(i)) => j = i)
      BY <1>1, <2>1, <3>2, <3>3
    <3>5. QED
      BY <3>1, <3>4, Zenon
  <2>4. Longest(E(i))
    BY <2>3
  <2>5. ASSUME NEW s \in known, Longest(s) PROVE s = E(i)
    <3>1. Len(E(i)) <= Len(s)
      BY <2>2, <2>5
    <3>2. Len(s) <= Len(E(i))
      BY <2>3
    <3>3. PICK j \in 1..n : s = E(j)
      BY <1>2, Zenon
    <3>4. Len(s) \in Int /\ Len(E(i)) \in Int
      BY <1>1, <2>1, <3>3
    <3>5. Len(s) = Len(E(i))
      BY <3>1, <3>2, <3>4
    <3>6. QED
      BY <2>3, <3>5
  <2> HIDE DEF Longest
  <2>6. (CHOOSE s \in known : Longest(s)) = E(i)
    BY <2>2, <2>4, <2>5, Zenon
  <2>7. QED
    BY <1>5, <2>1, <2>6 DEF n, E, known, i, Longest
<1>6. QED
  BY <1>4, <1>5

\* GetRegisteredDomain gives the longest public suffix that the file knows
\* and one more label, whatever the order of the lines of the file.
THEOREM RegisteredDomainIsRight == Spec => [](NoLongSuffixLine => RegisteredDomainRight)
<1>1. ASSUME SuffixInv, NoLongSuffixLine, spc = "done", NEW d \in Domains
      PROVE  LET known == {s \in Endings(d) : IsPublicSuffix(s)}
             IN  IF known = {} THEN ~Db!HasRegisteredDomain(d)
                 ELSE /\ Db!HasRegisteredDomain(d)
                      /\ LET r == Db!RegisteredDomain(d)
                             longest == CHOOSE s \in known : \A u \in known : Len(u) <= Len(s)
                         IN  IF longest = d THEN r = d
                             ELSE r \in Endings(d) /\ Tail(r) = longest
  <2> DEFINE known == {s \in Endings(d) : IsPublicSuffix(s)}
             n == Len(d)
             i == Db!SuffixStart(d)
             r == Db!RegisteredDomain(d)
             longest == CHOOSE s \in known : \A u \in known : Len(u) <= Len(s)
  <2>1. d \in Seq(STRING) /\ n \in Nat
    BY DomainsAssumption, LenProperties
  <2>2. IF known = {} THEN i = 0 ELSE i \in 1..n /\ longest = SubSeq(d, i, n)
    BY <1>1, <2>1, LongestIsFirst
  <2>3. Db!HasRegisteredDomain(d) <=> i # 0
    BY DEF Db!HasRegisteredDomain
  <2>4. r = SubSeq(d, IF i = 1 THEN 1 ELSE i - 1, n)
    BY DEF Db!RegisteredDomain, Db!SuffixFrom
  <2> HIDE DEF known, n, i, r, longest
  <2>5. CASE known = {}
    BY <2>2, <2>3, <2>5 DEF known
  <2>6. CASE known # {}
    <3>1. i \in 1..n /\ longest = SubSeq(d, i, n) /\ i # 0
      BY <2>1, <2>2, <2>6
    <3>2. CASE i = 1
      <4>1. longest = d /\ r = d
        BY <2>1, <2>4, <3>1, <3>2, SubSeqFull DEF n
      <4>2. QED
        BY <2>3, <2>6, <3>1, <4>1 DEF known, r, longest
    <3>3. CASE i # 1
      <4>1. i - 1 \in 1..n /\ (i - 1) + 1 = i
        BY <2>1, <3>1, <3>3
      <4>2. r = SubSeq(d, i - 1, n)
        BY <2>4, <3>3
      <4>3. r \in Endings(d)
        BY <4>1, <4>2 DEF Endings, n
      <4>4. Tail(r) = longest
        BY <2>1, <3>1, <4>1, <4>2, EndingFacts DEF n
      <4>5. longest # d
        <5>1. Len(longest) = n - i + 1
          BY <2>1, <3>1, EndingFacts DEF n
        <5>2. n - i + 1 # n
          BY <2>1, <3>1, <3>3
        <5>3. QED
          BY <5>1, <5>2 DEF n
      <4>6. QED
        BY <2>3, <2>6, <3>1, <4>3, <4>4, <4>5 DEF known, r, longest
    <3>4. QED
      BY <3>2, <3>3
  <2>7. QED
    BY <2>5, <2>6
<1>2. SuffixInv => (NoLongSuffixLine => RegisteredDomainRight)
  BY <1>1 DEF RegisteredDomainRight
<1>3. QED
  BY <1>2, SuffixInvariant, PTL

-----------------------------------------------------------------------------
(***************************************************************************)
(* The rate limit file.  TableAt is TableOf for the first n lines of f.    *)
(***************************************************************************)
ParsedAt(f, n, kind) == {i \in 1..n : f[i].kind = kind}

TableAt(f, n, table, kind, banned) ==
  /\ DOMAIN table = {Normalize(f[i].item) : i \in ParsedAt(f, n, kind)} \cup banned
  /\ \A d \in banned : table[d] = 0
  /\ \A i \in ParsedAt(f, n, kind) :
       Normalize(f[i].item) \notin banned => table[Normalize(f[i].item)] = f[i].limit

DistinctAt(f, n, kind) ==
  \A i, j \in ParsedAt(f, n, kind) : Normalize(f[i].item) = Normalize(f[j].item) => i = j

PublicAt(f, n, seen, public) ==
  /\ seen <=> ParsedAt(f, n, "public") # {}
  /\ ParsedAt(f, n, "public") = {} => public = NoPublic
  /\ \A i \in ParsedAt(f, n, "public") : public = [limit |-> f[i].limit, item |-> f[i].item]
  /\ \A i, j \in ParsedAt(f, n, "public") : i = j

\* ConfigInv in these terms.
Good(f, n, keys, domains, public, seen, banned) ==
  /\ TableAt(f, n, keys, "key", {})
  /\ DistinctAt(f, n, "key")
  /\ DistinctAt(f, n, "domain")
  /\ PublicAt(f, n, seen, public)
  /\ TableAt(f, n, domains, "domain", banned)

LEMMA ConfigInvIs ==
  ConfigInv <=> /\ file \in Seq(Lines)
                /\ lineno \in 0..Len(file)
                /\ pc \in {"scan", "suffix", "done", "error"}
                /\ pc # "error" => Good(file, lineno, allowedKeys, allowedDomains, allowPublic,
                                        publicSeen, IF pc = "done" THEN Banned ELSE {})
                /\ pc \in {"suffix", "done"} => ~HasLine
BY Zenon DEF ConfigInv, Good, TableOf, TableAt, Parsed, ParsedAt, DistinctAt, PublicAt

LEMMA ConfigInvNext ==
  ConfigInv' <=> /\ file' \in Seq(Lines)
                 /\ lineno' \in 0..Len(file')
                 /\ pc' \in {"scan", "suffix", "done", "error"}
                 /\ pc' # "error" => Good(file', lineno', allowedKeys', allowedDomains', allowPublic',
                                          publicSeen', IF pc' = "done" THEN Banned ELSE {})
                 /\ pc' \in {"suffix", "done"} => ~HasLine'
BY Zenon DEF ConfigInv, Good, TableOf, TableAt, Parsed, ParsedAt, DistinctAt, PublicAt

\* The lines of a kind when one more line is read.
LEMMA ParsedMore ==
  ASSUME NEW f, NEW n \in Nat, NEW kind
  PROVE  ParsedAt(f, n + 1, kind) =
           IF f[n + 1].kind = kind THEN ParsedAt(f, n, kind) \cup {n + 1} ELSE ParsedAt(f, n, kind)
BY DEF ParsedAt

\* A line about an entry that the table does not have yet.
LEMMA TableMore ==
  ASSUME NEW f, NEW n \in Nat, NEW table, NEW kind,
         f[n + 1].kind = kind, TableAt(f, n, table, kind, {}), DistinctAt(f, n, kind),
         Normalize(f[n + 1].item) \notin DOMAIN table
  PROVE  /\ TableAt(f, n + 1, With(table, Normalize(f[n + 1].item), f[n + 1].limit), kind, {})
         /\ DistinctAt(f, n + 1, kind)
<1> DEFINE P == ParsedAt(f, n, kind)
           m == n + 1
           item(i) == Normalize(f[i].item)
           limit(i) == f[i].limit
           more == With(table, item(m), limit(m))
<1>1. ParsedAt(f, m, kind) = P \cup {m}
  BY ParsedMore
<1>2. /\ DOMAIN table = {item(i) : i \in P}
      /\ \A i \in P : table[item(i)] = limit(i)
      /\ \A i, j \in P : item(i) = item(j) => i = j
      /\ item(m) \notin DOMAIN table
  BY DEF TableAt, DistinctAt
<1>3. /\ DOMAIN more = DOMAIN table \cup {item(m)}
      /\ more[item(m)] = limit(m)
      /\ \A x \in DOMAIN table : more[x] = table[x]
  BY <1>2 DEF With
<1> HIDE DEF P, m, item, limit, more
<1>4. DOMAIN more = {item(i) : i \in P \cup {m}}
  BY <1>2, <1>3
<1>5. \A i \in P \cup {m} : more[item(i)] = limit(i)
  BY <1>2, <1>3
<1>6. \A i, j \in P \cup {m} : item(i) = item(j) => i = j
  BY <1>2
<1>7. QED
  BY <1>1, <1>4, <1>5, <1>6 DEF TableAt, DistinctAt, m, item, limit, more

\* A line of another kind.
LEMMA TableSame ==
  ASSUME NEW f, NEW n \in Nat, NEW table, NEW kind, NEW banned, f[n + 1].kind # kind
  PROVE  /\ TableAt(f, n, table, kind, banned) => TableAt(f, n + 1, table, kind, banned)
         /\ DistinctAt(f, n, kind) => DistinctAt(f, n + 1, kind)
<1>1. ParsedAt(f, n + 1, kind) = ParsedAt(f, n, kind)
  BY ParsedMore
<1>2. QED
  BY <1>1, Zenon DEF TableAt, DistinctAt

LEMMA PublicSame ==
  ASSUME NEW f, NEW n \in Nat, NEW seen, NEW public, f[n + 1].kind # "public", PublicAt(f, n, seen, public)
  PROVE  PublicAt(f, n + 1, seen, public)
<1>1. ParsedAt(f, n + 1, "public") = ParsedAt(f, n, "public")
  BY ParsedMore
<1>2. QED
  BY <1>1, Zenon DEF PublicAt

\* The first public line.
LEMMA PublicMore ==
  ASSUME NEW f, NEW n \in Nat, NEW public, f[n + 1].kind = "public", PublicAt(f, n, FALSE, public)
  PROVE  PublicAt(f, n + 1, TRUE, [limit |-> f[n + 1].limit, item |-> f[n + 1].item])
<1>1. ParsedAt(f, n + 1, "public") = {n + 1}
  BY ParsedMore DEF PublicAt
<1>2. QED
  BY <1>1, Zenon DEF PublicAt

\* The entry of the test domain is set to zero.
LEMMA TableBanned ==
  ASSUME NEW f, NEW n, NEW table, NEW kind, NEW d, TableAt(f, n, table, kind, {})
  PROVE  TableAt(f, n, With(table, d, 0), kind, {d})
<1> DEFINE P == ParsedAt(f, n, kind)
           item(i) == Normalize(f[i].item)
           limit(i) == f[i].limit
           more == With(table, d, 0)
<1>1. DOMAIN table = {item(i) : i \in P} /\ \A i \in P : table[item(i)] = limit(i)
  BY DEF TableAt
<1>2. /\ DOMAIN more = DOMAIN table \cup {d}
      /\ more[d] = 0
      /\ \A x \in DOMAIN table : x # d => more[x] = table[x]
  BY DEF With
<1> HIDE DEF P, item, limit, more
<1>3. \A i \in P : item(i) \notin {d} => more[item(i)] = limit(i)
  BY <1>1, <1>2
<1>4. QED
  BY <1>1, <1>2, <1>3 DEF TableAt, P, item, limit, more

LEMMA InitConfigInv == Init => ConfigInv
<1> SUFFICES ASSUME Init PROVE ConfigInv
  OBVIOUS
<1>1. file \in Seq(Lines)
  BY FilesAreSequences DEF Init
<1>2. lineno \in 0..Len(file) /\ lineno = 0
  BY <1>1, LenProperties DEF Init
<1>3. \A kind : ParsedAt(file, lineno, kind) = {}
  BY <1>2 DEF ParsedAt
<1>4. Good(file, lineno, allowedKeys, allowedDomains, allowPublic, publicSeen, {})
  BY <1>3 DEF Good, TableAt, DistinctAt, PublicAt, Init, NoTable
<1>5. QED
  BY <1>1, <1>2, <1>4, ConfigInvIs DEF Init

\* What the loop does with a line.
LEMMA ParseLineLemma == ASSUME ConfigInv, ParseLine PROVE ConfigInv'
<1> DEFINE line == file[lineno + 1]
           item == Normalize(line.item)
<1>1. /\ file \in Seq(Lines) /\ lineno \in 0..Len(file) /\ Len(file) \in Nat
      /\ pc = "scan" /\ HasLine /\ file' = file /\ lineno' = lineno + 1
  BY LenProperties, ConfigInvIs DEF ParseLine, ParseLineWith
<1>2. lineno \in Nat /\ lineno' \in 0..Len(file')
  BY <1>1 DEF HasLine
<1>3. Good(file, lineno, allowedKeys, allowedDomains, allowPublic, publicSeen, {})
  BY <1>1, ConfigInvIs
<1>4. lineno + 1 \in 1..Len(file) /\ line \in Lines
  <2>1. lineno + 1 \in 1..Len(file)
    BY <1>1 DEF HasLine
  <2>2. QED
    BY <1>1, <2>1, ElementOfSeq
<1>5. line.kind \in {"comment", "malformed", "overlong", "key", "domain", "public"}
  BY <1>4
<1>6. CASE pc' = "error"
  BY <1>1, <1>2, <1>6 DEF ConfigInv
<1>7. CASE pc' # "error"
  <2>0. ~Invalid(line) /\ line.kind \in {"comment", "key", "domain", "public"}
    BY <1>1, <1>5, <1>7 DEF ParseLine, ParseLineWith, Fail, Invalid, HasLine
  <2>1. SUFFICES pc' = "scan" /\ Good(file, lineno + 1, allowedKeys', allowedDomains', allowPublic', publicSeen', {})
    <3>1. Good(file', lineno', allowedKeys', allowedDomains', allowPublic', publicSeen', {})
      BY <1>1, <2>1
    <3>2. QED
      BY <1>1, <1>2, <2>1, <3>1, ConfigInvNext
  <2>2. CASE line.kind = "comment"
    <3>1. UNCHANGED <<allowedKeys, allowedDomains, allowPublic, publicSeen, pc>>
      BY <2>0, <2>2 DEF ParseLine, ParseLineWith
    <3>2. QED
      BY <1>1, <1>2, <1>3, <2>2, <3>1, TableSame, PublicSame DEF Good
  <2>3. CASE line.kind = "key"
    <3>1. /\ item \notin DOMAIN allowedKeys
          /\ allowedKeys' = With(allowedKeys, item, line.limit)
          /\ UNCHANGED <<allowedDomains, allowPublic, publicSeen, pc>>
      BY <1>7, <2>0, <2>3 DEF ParseLine, ParseLineWith, Fail
    <3>2. TableAt(file, lineno + 1, allowedKeys', "key", {}) /\ DistinctAt(file, lineno + 1, "key")
      BY <1>2, <1>3, <2>3, <3>1, TableMore DEF Good
    <3>3. QED
      BY <1>1, <1>2, <1>3, <2>3, <3>1, <3>2, TableSame, PublicSame DEF Good
  <2>4. CASE line.kind = "domain"
    <3>1. /\ item \notin DOMAIN allowedDomains
          /\ allowedDomains' = With(allowedDomains, item, line.limit)
          /\ UNCHANGED <<allowedKeys, allowPublic, publicSeen, pc>>
      BY <1>7, <2>0, <2>4 DEF ParseLine, ParseLineWith, Fail
    <3>2. TableAt(file, lineno + 1, allowedDomains', "domain", {}) /\ DistinctAt(file, lineno + 1, "domain")
      BY <1>2, <1>3, <2>4, <3>1, TableMore DEF Good
    <3>3. QED
      BY <1>1, <1>2, <1>3, <2>4, <3>1, <3>2, TableSame, PublicSame DEF Good
  <2>5. CASE line.kind = "public"
    <3>1. /\ ~publicSeen
          /\ allowPublic' = [limit |-> line.limit, item |-> line.item]
          /\ publicSeen' = TRUE
          /\ UNCHANGED <<allowedKeys, allowedDomains, pc>>
      BY <1>7, <2>0, <2>5 DEF ParseLine, ParseLineWith, Fail
    <3>2. PublicAt(file, lineno, FALSE, allowPublic)
      BY <1>3, <3>1 DEF Good, PublicAt
    <3>3. PublicAt(file, lineno + 1, publicSeen', allowPublic')
      BY <1>2, <2>5, <3>1, <3>2, PublicMore
    <3>4. QED
      BY <1>1, <1>2, <1>3, <2>5, <3>1, <3>3, TableSame DEF Good
  <2>6. QED
    BY <2>0, <2>2, <2>3, <2>4, <2>5
<1>8. QED
  BY <1>6, <1>7

\* The steps that leave the tables alone.
LEMMA TablesUnchanged ==
  ASSUME ConfigInv, UNCHANGED <<file, lineno, allowedKeys, allowedDomains, allowPublic, publicSeen>>,
         pc \in {"scan", "suffix"}, pc' \in {"error", "suffix"}, ~HasLine
  PROVE  ConfigInv'
<1>1. HasLine' <=> HasLine
  BY DEF HasLine
<1>2. CASE pc' = "error"
  BY <1>2, ConfigInvIs, ConfigInvNext
<1>3. CASE pc' = "suffix"
  BY <1>1, <1>3, ConfigInvIs, ConfigInvNext
<1>4. QED
  BY <1>2, <1>3

\* The last step of newLimiter.
LEMMA NewLimiterLemma == ASSUME ConfigInv, NewLimiter PROVE ConfigInv'
<1>1. /\ pc \in {"scan", "suffix"} /\ pc' = "done"
      /\ UNCHANGED <<file, lineno, allowedKeys, allowPublic, publicSeen>>
  BY DEF NewLimiter
<1>2. ~HasLine'
  BY ConfigInvIs DEF NewLimiter, HasLine
<1>3. Good(file, lineno, allowedKeys, allowedDomains, allowPublic, publicSeen, {})
  BY <1>1, ConfigInvIs
<1>4. TableAt(file, lineno, allowedDomains', "domain", Banned)
  <2>1. CASE AllowTestDomain
    BY <1>3, <2>1 DEF NewLimiter, Good, Banned
  <2>2. CASE ~AllowTestDomain
    BY <1>3, <2>2, TableBanned DEF NewLimiter, Good, Banned
  <2>3. QED
    BY <2>1, <2>2
<1>5. Good(file', lineno', allowedKeys', allowedDomains', allowPublic', publicSeen', Banned)
  BY <1>1, <1>3, <1>4 DEF Good
<1>6. QED
  BY <1>1, <1>2, <1>5, ConfigInvIs, ConfigInvNext

\* The tables are those of the lines read so far, and no line read is about
\* the entry of another.
THEOREM ConfigInvariant == Spec => []ConfigInv
<1>1. Init => ConfigInv
  BY InitConfigInv
<1>2. ConfigInv /\ [Next]_vars => ConfigInv'
  <2> SUFFICES ASSUME ConfigInv, [Next]_vars PROVE ConfigInv'
    OBVIOUS
  <2>1. CASE ParseLine
    BY <2>1, ParseLineLemma
  <2>2. CASE OpenSuffixFile
    BY <2>2, TablesUnchanged DEF OpenSuffixFile
  <2>3. CASE ReadSuffixFile
    <3>1. ~HasLine
      BY <2>3, ConfigInvIs DEF ReadSuffixFile
    <3>2. pc = "suffix" /\ pc' \in {"error", "suffix"}
      BY <2>3 DEF ReadSuffixFile
    <3>3. QED
      BY <2>3, <3>1, <3>2, TablesUnchanged DEF ReadSuffixFile
  <2>4. CASE NewLimiter
    BY <2>4, NewLimiterLemma
  <2>5. CASE UNCHANGED vars
    BY <2>5, ConfigInvIs, ConfigInvNext DEF vars, configVars, HasLine
  <2>6. QED
    BY <2>1, <2>2, <2>3, <2>4, <2>5 DEF Next
<1>3. QED
  BY <1>1, <1>2, PTL DEF Spec

\* Unless a line is too long an accepted file has been read to its end.
LEMMA AllParsed ==
  ASSUME ConfigInv, NoLongLine, pc = "done"
  PROVE  /\ \A kind : ParsedAt(file, lineno, kind) = Of(kind)
         /\ Good(file, lineno, allowedKeys, allowedDomains, allowPublic, publicSeen, Banned)
<1>1. lineno \in 0..Len(file) /\ Len(file) \in Nat /\ ~HasLine
  BY LenProperties, ConfigInvIs
<1>2. lineno < Len(file) => lineno + 1 \in 1..Len(file)
  BY <1>1
<1>3. lineno = Len(file)
  BY <1>1, <1>2 DEF NoLongLine, HasLine
<1>4. QED
  BY <1>3, ConfigInvIs DEF ParsedAt, Of

\* The entries of a table.
LEMMA PairsOfTable ==
  ASSUME NEW f, NEW n, NEW table, NEW kind, NEW banned, TableAt(f, n, table, kind, banned)
  PROVE  LET written == {<<Normalize(f[i].item), f[i].limit>> : i \in ParsedAt(f, n, kind)}
         IN  Pairs(table) = {p \in written : p[1] \notin banned} \cup {<<d, 0>> : d \in banned}
<1> DEFINE P == ParsedAt(f, n, kind)
           item(i) == Normalize(f[i].item)
           limit(i) == f[i].limit
           written == {<<item(i), limit(i)>> : i \in P}
           Right == {p \in written : p[1] \notin banned} \cup {<<d, 0>> : d \in banned}
<1>1. /\ DOMAIN table = {item(i) : i \in P} \cup banned
      /\ \A d \in banned : table[d] = 0
      /\ \A i \in P : item(i) \notin banned => table[item(i)] = limit(i)
  BY DEF TableAt
<1> HIDE DEF P, item, limit
<1>2. ASSUME NEW x \in DOMAIN table PROVE <<x, table[x]>> \in Right
  <2>1. CASE x \in banned
    BY <1>1, <2>1
  <2>2. CASE x \notin banned
    <3>1. PICK i \in P : x = item(i)
      BY <1>1, <2>2
    <3>2. <<x, table[x]>> \in written
      BY <1>1, <2>2, <3>1
    <3>3. QED
      BY <2>2, <3>2
  <2>3. QED
    BY <2>1, <2>2
<1>3. ASSUME NEW p \in Right PROVE p \in Pairs(table)
  <2>1. CASE p \in {<<d, 0>> : d \in banned}
    <3>1. PICK d \in banned : p = <<d, 0>>
      BY <2>1
    <3>2. d \in DOMAIN table /\ p = <<d, table[d]>>
      BY <1>1, <3>1
    <3>3. QED
      BY <3>2 DEF Pairs
  <2>2. CASE p \in written /\ p[1] \notin banned
    <3>1. PICK i \in P : p = <<item(i), limit(i)>>
      BY <2>2
    <3>2. item(i) \in DOMAIN table /\ p = <<item(i), table[item(i)]>>
      BY <1>1, <2>2, <3>1
    <3>3. QED
      BY <3>2 DEF Pairs
  <2>3. QED
    BY <2>1, <2>2
<1> HIDE DEF Right
<1>4. Pairs(table) = Right
  BY <1>2, <1>3 DEF Pairs
<1>5. QED
  BY <1>4 DEF Right, P, item, limit

\* The tables of limits depend on the set of lines and not on their order;
\* the test domain's entry is the one of newLimiter.
THEOREM OrderIsIrrelevant == Spec => [](NoLongLine => OrderDoesntMatter)
<1>1. ASSUME ConfigInv, NoLongLine, pc = "done" PROVE OrderDoesntMatter
  <2>1. /\ \A kind : ParsedAt(file, lineno, kind) = Of(kind)
        /\ TableAt(file, lineno, allowedKeys, "key", {})
        /\ TableAt(file, lineno, allowedDomains, "domain", Banned)
        /\ PublicAt(file, lineno, publicSeen, allowPublic)
    BY <1>1, AllParsed DEF Good
  <2>2. \A kind : {<<Normalize(file[i].item), file[i].limit>> : i \in ParsedAt(file, lineno, kind)} = Written(kind)
    BY <2>1, Zenon DEF Written
  <2>3. Pairs(allowedKeys) = {p \in Written("key") : p[1] \notin {}} \cup {<<d, 0>> : d \in {}}
    BY <2>1, <2>2, PairsOfTable
  <2>4. Pairs(allowedKeys) = Written("key")
    BY <2>3
  <2>5. Pairs(allowedDomains) = {p \in Written("domain") : p[1] \notin Banned} \cup {<<d, 0>> : d \in Banned}
    BY <2>1, <2>2, PairsOfTable
  <2>6. /\ Of("public") = {} => allowPublic.limit = 0
        /\ \A i \in Of("public") : allowPublic = [limit |-> file[i].limit, item |-> file[i].item]
    <3>1. /\ Of("public") = {} => allowPublic = NoPublic
          /\ \A i \in Of("public") : allowPublic = [limit |-> file[i].limit, item |-> file[i].item]
      BY <2>1, Zenon DEF PublicAt
    <3>2. NoPublic.limit = 0
      BY DEF NoPublic
    <3>3. QED
      BY <3>1, <3>2, Zenon
  <2>7. QED
    BY <2>4, <2>5, <2>6 DEF OrderDoesntMatter
<1>2. ConfigInv => (NoLongLine => OrderDoesntMatter)
  BY <1>1 DEF OrderDoesntMatter
<1>3. QED
  BY <1>2, ConfigInvariant, PTL

\* No two lines of an accepted file are about the same key, the same domain
\* or public access.
THEOREM NoEntryTwice == Spec => [](NoLongLine => NothingTwice)
<1>1. ASSUME ConfigInv, NoLongLine, pc = "done" PROVE NothingTwice
  <2>1. /\ \A kind : ParsedAt(file, lineno, kind) = Of(kind)
        /\ DistinctAt(file, lineno, "key") /\ DistinctAt(file, lineno, "domain")
        /\ PublicAt(file, lineno, publicSeen, allowPublic)
    BY <1>1, AllParsed DEF Good
  <2>2. \A i, j \in Of("public") : i = j
    BY <2>1 DEF PublicAt
  <2>3. Cardinality(Of("public")) <= 1
    <3>1. CASE Of("public") = {}
      BY <3>1, FS_EmptySet
    <3>2. CASE Of("public") # {}
      <4>1. PICK i : Of("public") = {i}
        BY <2>2, <3>2
      <4>2. Cardinality({i}) = 1
        BY FS_Singleton, Zenon
      <4>3. QED
        BY <4>1, <4>2
    <3>3. QED
      BY <3>1, <3>2
  <2>4. ASSUME NEW kind \in {"key", "domain"}
        PROVE  \A i, j \in Of(kind) : Normalize(file[i].item) = Normalize(file[j].item) => i = j
    BY <2>1, <2>4 DEF DistinctAt
  <2>5. QED
    BY <2>3, <2>4 DEF NothingTwice
<1>2. ConfigInv => (NoLongLine => NothingTwice)
  BY <1>1 DEF NothingTwice
<1>3. QED
  BY <1>2, ConfigInvariant, PTL
=============================================================================
