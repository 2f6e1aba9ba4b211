-------------------------- MODULE AlgorithmsProofs --------------------------
(***************************************************************************)
(* Proofs about the pure parts of tpt-weave, for inputs of every length    *)
(* and value.  FoldFacts tells what a fold makes of a sequence.            *)
(***************************************************************************)
EXTENDS MCAlgorithms, FiniteSetTheorems, WellFoundedInduction, SequenceTheorems, TLAPS

-----------------------------------------------------------------------------
(* Tool output.                                                            *)

\* A header that says OK or FAILURE is the status of the reduction it heads.
Agrees(r) == /\ r.verdict = "OK" => r.status = "success"
             /\ r.verdict = "FAILURE" => r.status = "failure"

\* A reducer that says nothing in its header agrees with any status.
LEMMA SilentReduction ==
  ASSUME NEW counts, NEW items, NEW status
  PROVE  /\ Agrees(Reduction("none", counts, items, status))
         /\ Reduction("none", counts, items, status).status = status
BY DEF Agrees, Reduction

\* A reducer that counts failures says what it counts and what the tool says.
LEMMA JudgedReduction ==
  ASSUME NEW failures, NEW counts, NEW items, NEW exit,
         NEW r, r = Reduction(Verdict(failures, exit), counts, items, JudgedStatus(failures, exit))
  PROVE  Agrees(r) /\ (r.status = "success" => exit = 0)
BY DEF Agrees, Reduction, Verdict, JudgedStatus, ExitStatus

\* As many lines of a sort as there are lines: all are of that sort.
LEMMA CountedAll ==
  ASSUME NEW L, NEW lines \in Seq(L), NEW tags, CountTag(lines, tags) = Len(lines)
  PROVE  \A i \in DOMAIN lines : lines[i].tag \in tags
<1> DEFINE of == {i \in DOMAIN lines : lines[i].tag \in tags}
<1>1. DOMAIN lines = 1 .. Len(lines) /\ Len(lines) \in Nat
  OBVIOUS
<1>2. IsFiniteSet(DOMAIN lines) /\ Cardinality(DOMAIN lines) = Len(lines)
  <2>1. PICK n \in Nat : n = Len(lines) /\ DOMAIN lines = 1 .. n
    BY <1>1
  <2>2. IsFiniteSet(1 .. n) /\ Cardinality(1 .. n) = IF 1 > n THEN 0 ELSE n - 1 + 1
    <3>1. 1 \in Int /\ n \in Int
      OBVIOUS
    <3> QED
      BY <3>1, FS_Interval
  <2> QED
    BY <2>1, <2>2
<1>3. of \subseteq DOMAIN lines /\ Cardinality(of) = Len(lines)
  BY DEF CountTag
<1>4. of = DOMAIN lines
  BY <1>2, <1>3, FS_Subset
<1> QED
  BY <1>4

\* The reducers of reduce.rs, for every tool, output and exit code.
THEOREM EveryStatusAgrees ==
  ASSUME NEW kind \in ToolKinds, NEW L, NEW lines \in Seq(L), NEW exit \in Int
  PROVE  StatusAgrees(kind, lines, exit)
<1> DEFINE r == Reduce(kind, lines, exit)
<1> SUFFICES /\ Agrees(r)
             /\ r.status = "success" => \/ exit = 0
                                        \/ kind = "GitDiff" /\ exit <= 1
                                        \/ kind = "Json" /\ \A i \in DOMAIN lines :
                                                               lines[i].tag = "blank"
  BY DEF StatusAgrees, Agrees
<1>1. ASSUME NEW x, x = DiagnosticOutput(lines, exit)
      PROVE  Agrees(x) /\ (x.status = "success" => exit = 0)
  BY <1>1, JudgedReduction DEF DiagnosticOutput
<1>2. CASE kind \in {"CargoCheck", "CargoClippy", "CargoBuild", "Diagnostics"}
  <2>1. r = DiagnosticOutput(lines, exit)
    BY <1>2 DEF Reduce
  <2> QED
    BY <1>1, <2>1
<1>3. CASE kind = "CargoTest"
  <2>1. r = TestOutput(lines, exit)
    BY <1>3 DEF Reduce
  <2>2. CASE IsHarness(lines)
    BY <2>1, <2>2, JudgedReduction DEF TestOutput
  <2>3. CASE ~IsHarness(lines)
    BY <2>1, <2>3, <1>1 DEF TestOutput
  <2> QED
    BY <2>2, <2>3
<1>4. CASE kind = "CargoFmt"
  <2>1. r = FmtOutput(lines, exit)
    BY <1>4 DEF Reduce
  <2> QED
    BY <2>1, JudgedReduction DEF FmtOutput
<1>5. CASE kind \in {"GitStatus", "FileListing", "Search", "Log"}
  <2>1. Agrees(r) /\ r.status = ExitStatus(exit)
    <3>1. CASE kind = "GitStatus"
      <4>1. r = StatusOutput(lines, exit)
        BY <3>1 DEF Reduce
      <4> QED
        BY <4>1, SilentReduction DEF StatusOutput
    <3>2. CASE kind = "FileListing"
      <4>1. r = ListingOutput(lines, exit)
        BY <3>2 DEF Reduce
      <4> QED
        BY <4>1, SilentReduction DEF ListingOutput
    <3>3. CASE kind = "Search"
      <4>1. r = SearchOutput(lines, exit)
        BY <3>3 DEF Reduce
      <4> QED
        BY <4>1, SilentReduction DEF SearchOutput
    <3>4. CASE kind = "Log"
      <4>1. r = LogOutput(lines, exit)
        BY <3>4 DEF Reduce
      <4> QED
        BY <4>1, SilentReduction DEF LogOutput
    <3> QED
      BY <1>5, <3>1, <3>2, <3>3, <3>4
  <2> QED
    BY <2>1 DEF ExitStatus
<1>6. CASE kind = "GitDiff"
  <2>1. r = DiffOutput(lines, exit)
    BY <1>6 DEF Reduce
  <2>2. \E counts, items :
          r = Reduction("none", counts, items, IF exit <= 1 THEN "success" ELSE "failure")
    BY <2>1, Zenon DEF DiffOutput
  <2>3. Agrees(r) /\ r.status = IF exit <= 1 THEN "success" ELSE "failure"
    BY <2>2, SilentReduction
  <2> QED
    BY <2>3, <1>6
<1>7. CASE kind = "Json"
  <2>1. r = JsonOutput(lines, exit)
    BY <1>7 DEF Reduce
  <2>2. CASE CountTag(lines, {"blank"}) = Len(lines)
    <3>1. r = Reduction("none", [entries |-> 0], <<>>, "success")
      BY <2>1, <2>2 DEF JsonOutput
    <3>2. \A i \in DOMAIN lines : lines[i].tag = "blank"
      BY <2>2, CountedAll
    <3> QED
      BY <3>1, <3>2, <1>7, SilentReduction
  <2>3. CASE CountTag(lines, {"blank"}) # Len(lines) /\ CountTag(lines, {"invalid"}) > 0
    <3>1. r = Reduction("FAILURE", [entries |-> 0], <<>>, "failure")
      BY <2>1, <2>3 DEF JsonOutput
    <3> QED
      BY <3>1 DEF Reduction, Agrees
  <2>4. CASE CountTag(lines, {"blank"}) # Len(lines) /\ ~(CountTag(lines, {"invalid"}) > 0)
    <3>1. Agrees(r) /\ r.status = ExitStatus(exit)
      BY <2>1, <2>4, SilentReduction DEF JsonOutput
    <3> QED
      BY <3>1 DEF ExitStatus
  <2> QED
    BY <2>2, <2>3, <2>4
<1> QED
  BY <1>2, <1>3, <1>4, <1>5, <1>6, <1>7 DEF ToolKinds

\* What a probe of a reducer asks about is a tool, an output and an exit code.
Probed == probe.part = "output" => /\ probe.kind \in ToolKinds
                                   /\ probe.lines \in Seq(AnyLine) /\ probe.exit \in Int

\* The bounded sequences are sequences.
LEMMA SeqsUpToType == ASSUME NEW S, NEW n \in Nat PROVE SeqsUpTo(S, n) \subseteq Seq(S)
BY DEF SeqsUpTo

LEMMA ProbedInit == Init => Probed
BY DEF Init, None, Probed

LEMMA ProbedStep == Probed /\ [Next]_probe => Probed'
<1> SUFFICES ASSUME Probed, [Next]_probe PROVE Probed'
  OBVIOUS
<1>1. CASE UNCHANGED probe
  BY <1>1 DEF Probed
<1>2. CASE ProbeOutput
  BY <1>2, SeqsUpToType DEF ProbeOutput, Probed
<1>3. CASE ProbeLine \/ ProbeTests \/ ProbeDiff \/ ProbeRebuild \/ ProbeTree
  <2>1. probe'.part # "output"
    BY <1>3 DEF ProbeLine, ProbeTests, ProbeDiff, ProbeRebuild, ProbeTree
  <2> QED
    BY <2>1 DEF Probed
<1> QED
  BY <1>1, <1>2, <1>3 DEF Next

\* Whatever reduction is probed, its header and its status agree.
THEOREM ProbedStatusAgrees == Spec => []StatusAgreesWithHeader
<1>1. Probed => StatusAgreesWithHeader
  BY EveryStatusAgrees DEF Probed, StatusAgreesWithHeader
<1> QED
  BY ProbedInit, ProbedStep, <1>1, PTL DEF Spec

-----------------------------------------------------------------------------
(* The counts of a diff.                                                   *)

Diff == INSTANCE FoldFacts WITH op <- LAMBDA c, s, l : DiffLine(s, l)

LEMMA DiffFold == ASSUME NEW b, NEW s PROVE FoldLeft(DiffLine, b, s) = Diff!Fold({}, b, s)
BY DEF Diff!Fold, Diff!FoldLeft, FoldLeft, Diff!MapThenFoldSet, MapThenFoldSet, Max, Diff!Max

\* Before the first file a diff is at no name.
Nowhere == ""
IsName(n) == n # Nowhere

\* The lines of a sort among the first k lines of a content.
SignedAt(content, sign, k) == {i \in 1 .. k : content[i].sign = sign /\ ~content[i].like}

LEMMA SignedCounts ==
  ASSUME NEW content, NEW sign
  PROVE  /\ Cardinality(SignedAt(content, sign, 0)) = 0
         /\ \A k \in Nat :
              /\ Cardinality(SignedAt(content, sign, k)) \in Nat
              /\ Cardinality(SignedAt(content, sign, k + 1))
                   = IF content[k + 1].sign = sign /\ ~content[k + 1].like
                     THEN Cardinality(SignedAt(content, sign, k)) + 1
                     ELSE Cardinality(SignedAt(content, sign, k))
<1>1. SignedAt(content, sign, 0) = {}
  BY DEF SignedAt
<1>2. ASSUME NEW k \in Nat
      PROVE  IsFiniteSet(SignedAt(content, sign, k))
  <2>1. IsFiniteSet(1 .. k)
    BY FS_Interval
  <2> QED
    BY <2>1, FS_Subset DEF SignedAt
<1>3. ASSUME NEW k \in Nat, content[k + 1].sign = sign, ~content[k + 1].like
      PROVE  /\ SignedAt(content, sign, k + 1) = SignedAt(content, sign, k) \cup {k + 1}
             /\ k + 1 \notin SignedAt(content, sign, k)
  BY <1>3 DEF SignedAt
<1>4. ASSUME NEW k \in Nat, ~(content[k + 1].sign = sign /\ ~content[k + 1].like)
      PROVE  SignedAt(content, sign, k + 1) = SignedAt(content, sign, k)
  BY <1>4 DEF SignedAt
<1>5. ASSUME NEW k \in Nat
      PROVE  Cardinality(SignedAt(content, sign, k)) \in Nat
  BY <1>2, <1>5, FS_CardinalityType
<1>6. ASSUME NEW k \in Nat, content[k + 1].sign = sign, ~content[k + 1].like
      PROVE  Cardinality(SignedAt(content, sign, k + 1))
               = Cardinality(SignedAt(content, sign, k)) + 1
  BY <1>2, <1>3, <1>6, FS_AddElement
<1> QED
  BY <1>1, <1>4, <1>5, <1>6, FS_EmptySet

\* The name of a file, as often as it has lines of a sort.
Copies(n, c) == [i \in 1 .. c |-> n]

LEMMA NoCopy == ASSUME NEW n, NEW N, NEW marks \in Seq(N) PROVE marks \o Copies(n, 0) = marks
<1>1. Copies(n, 0) = <<>>
  BY DEF Copies
<1> QED
  BY <1>1

LEMMA OneMoreCopy ==
  ASSUME NEW N, NEW n \in N, NEW marks \in Seq(N), NEW c \in Nat
  PROVE  Append(marks \o Copies(n, c), n) = marks \o Copies(n, c + 1)
<1>1. /\ Copies(n, c) \in Seq(N) /\ Copies(n, c + 1) \in Seq(N)
      /\ Len(Copies(n, c)) = c /\ Len(Copies(n, c + 1)) = c + 1
      /\ \A i \in 1 .. c : Copies(n, c)[i] = n
      /\ \A i \in 1 .. c + 1 : Copies(n, c + 1)[i] = n
  BY DEF Copies
<1> DEFINE before == Copies(n, c)
           after == Copies(n, c + 1)
           one == Append(marks \o before, n)
           two == marks \o after
<1> HIDE DEF before, after
<1>2. one \in Seq(N) /\ two \in Seq(N) /\ marks \o before \in Seq(N)
  BY <1>1 DEF before, after
<1>3. Len(one) = Len(marks) + c + 1 /\ Len(two) = Len(marks) + c + 1
  BY <1>1 DEF before, after
<1>4. ASSUME NEW i \in 1 .. Len(marks) + c + 1
      PROVE  one[i] = two[i]
  BY <1>1 DEF before, after
<1> HIDE DEF one, two
<1>5. one = two
  BY <1>2, <1>3, <1>4, SeqEqual
<1> QED
  BY <1>5 DEF one, two, before, after

\* What the fold knows: the file it is at, the files seen, and their marks.
DiffState(x, seen, plus, minus) == [at |-> x, seen |-> seen, plus |-> plus, minus |-> minus]

\* Where the fold stands after k lines of the content of file n.
Counted(n, seen, plus, minus, content, k) ==
  DiffState(n, seen, plus \o Copies(n, Cardinality(SignedAt(content, "+", k))),
            minus \o Copies(n, Cardinality(SignedAt(content, "-", k))))

LEMMA ContentType ==
  \A l \in Content : l.tag = "body" /\ l.sign \in {"+", "-", " "} /\ l.like \in BOOLEAN
BY DEF Content

LEMMA ContentStep ==
  ASSUME NEW N, NEW n \in N, IsName(n), NEW seen, NEW plus \in Seq(N), NEW minus \in Seq(N),
         NEW content \in Seq(Content), NEW k \in Nat, k + 1 <= Len(content)
  PROVE  DiffLine(Counted(n, seen, plus, minus, content, k), content[k + 1])
           = Counted(n, seen, plus, minus, content, k + 1)
<1> DEFINE l == content[k + 1]
           a == Counted(n, seen, plus, minus, content, k)
           p == Cardinality(SignedAt(content, "+", k))
           m == Cardinality(SignedAt(content, "-", k))
<1>1. l.tag = "body" /\ l.sign \in {"+", "-", " "} /\ l.like \in BOOLEAN
  <2>1. l \in Content
    OBVIOUS
  <2> QED
    BY <2>1, ContentType
<1>2. a = [at |-> n, seen |-> seen, plus |-> plus \o Copies(n, p), minus |-> minus \o Copies(n, m)]
  BY DEF Counted, DiffState
<1>3. p \in Nat /\ m \in Nat
  BY SignedCounts
<1>4. /\ Append(plus \o Copies(n, p), n) = plus \o Copies(n, p + 1)
      /\ Append(minus \o Copies(n, m), n) = minus \o Copies(n, m + 1)
  <2> HIDE DEF p, m
  <2>1. Append(plus \o Copies(n, p), n) = plus \o Copies(n, p + 1)
    BY <1>3, OneMoreCopy
  <2>2. Append(minus \o Copies(n, m), n) = minus \o Copies(n, m + 1)
    BY <1>3, OneMoreCopy
  <2> QED
    BY <2>1, <2>2
<1>5. /\ Cardinality(SignedAt(content, "+", k + 1)) = IF l.sign = "+" /\ ~l.like THEN p + 1 ELSE p
      /\ Cardinality(SignedAt(content, "-", k + 1)) = IF l.sign = "-" /\ ~l.like THEN m + 1 ELSE m
  BY SignedCounts
<1> HIDE DEF a, p, m
<1>6. CASE l.sign = "+" /\ ~l.like
  <2>1. DiffLine(a, l) = [a EXCEPT !.plus = Append(@, n)]
    BY <1>1, <1>2, <1>6 DEF DiffLine, IsName, Nowhere
  <2>2. DiffLine(a, l) = [at |-> n, seen |-> seen, plus |-> plus \o Copies(n, p + 1),
                          minus |-> minus \o Copies(n, m)]
    BY <1>2, <1>4, <2>1
  <2> QED
    BY <1>5, <1>6, <2>2 DEF Counted, DiffState, a
<1>7. CASE l.sign = "-" /\ ~l.like
  <2>1. DiffLine(a, l) = [a EXCEPT !.minus = Append(@, n)]
    BY <1>1, <1>2, <1>7 DEF DiffLine, IsName, Nowhere
  <2>2. DiffLine(a, l) = [at |-> n, seen |-> seen, plus |-> plus \o Copies(n, p),
                          minus |-> minus \o Copies(n, m + 1)]
    BY <1>2, <1>4, <2>1
  <2> QED
    BY <1>5, <1>7, <2>2 DEF Counted, DiffState, a
<1>8. CASE l.sign = " " \/ l.like
  <2>1. DiffLine(a, l) = a
    BY <1>1, <1>8 DEF DiffLine
  <2> QED
    BY <1>2, <1>5, <1>8, <2>1 DEF Counted, DiffState, a
<1> QED
  BY <1>1, <1>6, <1>7, <1>8

LEMMA ContentFold ==
  ASSUME NEW N, NEW n \in N, IsName(n), NEW seen, NEW plus \in Seq(N), NEW minus \in Seq(N),
         NEW content \in Seq(Content)
  PROVE  Diff!Fold({}, DiffState(n, seen, plus, minus), content)
           = Counted(n, seen, plus, minus, content, Len(content))
<1> DEFINE base == DiffState(n, seen, plus, minus)
           At(k) == Counted(n, seen, plus, minus, content, k)
           run == [k \in 0 .. Len(content) |-> At(k)]
<1>1. Len(content) \in Nat
  OBVIOUS
<1>2. At(0) = base
  <2>1. plus \o Copies(n, 0) = plus /\ minus \o Copies(n, 0) = minus
    BY NoCopy
  <2> QED
    BY <2>1, SignedCounts DEF Counted
<1> HIDE DEF At, base
<1>3. ASSUME NEW k \in 1 .. Len(content)
      PROVE  DiffLine(run[k - 1], content[k]) = run[k]
  <2>1. PICK j \in Nat : j = k - 1
    BY <1>1
  <2>2. k = j + 1 /\ j + 1 <= Len(content) /\ run[j] = At(j) /\ run[k] = At(k)
    BY <1>1, <2>1
  <2> HIDE DEF run
  <2> QED
    <3>1. DiffLine(At(j), content[j + 1]) = At(j + 1)
      BY <2>2, ContentStep DEF At
    <3> QED
      BY <2>1, <2>2, <3>1
<1>4. run[0] = base /\ run[Len(content)] = At(Len(content))
  BY <1>1, <1>2
<1> HIDE DEF run
<1>5. Diff!IsRun({}, base, content, run)
  BY <1>3, <1>4 DEF Diff!IsRun
<1>6. Diff!Fold({}, base, content) = run[Len(content)]
  BY <1>5, Diff!RunIsFold
<1> QED
  BY <1>4, <1>6 DEF At, base

\* The lines of the diff of files of names N.
DiffLines(N) == {Named("file", n) : n \in N} \cup {Line("plain")} \cup Content

LEMMA FileDiffType ==
  ASSUME NEW N, NEW n \in N, NEW content \in Seq(Content)
  PROVE  FileDiff(n, content) \in Seq(DiffLines(N))
<1> DEFINE off == [tag |-> "body", sign |-> "-", like |-> TRUE]
           on  == [tag |-> "body", sign |-> "+", like |-> TRUE]
           header == <<Named("file", n), Line("plain"), off, on, Line("plain")>>
<1>1. off \in Content /\ on \in Content
  BY DEF Content
<1>2. /\ Named("file", n) \in DiffLines(N) /\ Line("plain") \in DiffLines(N)
      /\ off \in DiffLines(N) /\ on \in DiffLines(N) /\ Content \subseteq DiffLines(N)
  BY <1>1 DEF DiffLines
<1>3. FileDiff(n, content) = header \o content
  BY DEF FileDiff
<1> HIDE DEF off, on
<1>4. header \in Seq(DiffLines(N)) /\ content \in Seq(DiffLines(N))
  BY <1>2
<1> HIDE DEF header
<1> QED
  BY <1>3, <1>4

LEMMA HeaderStep ==
  ASSUME NEW n, NEW x, NEW seen, NEW plus, NEW minus
  PROVE  DiffLine(DiffState(x, seen, plus, minus), Named("file", n))
           = DiffState(n, seen \cup {n}, plus, minus)
BY DEF DiffLine, DiffState, Named

LEMMA QuietLines ==
  ASSUME NEW a, NEW l,
         l = Line("plain") \/ \E s : l = [tag |-> "body", sign |-> s, like |-> TRUE]
  PROVE  DiffLine(a, l) = a
<1>1. CASE l = Line("plain")
  BY <1>1 DEF DiffLine, Line
<1>2. CASE \E s : l = [tag |-> "body", sign |-> s, like |-> TRUE]
  <2>1. l.tag = "body" /\ l.like = TRUE
    BY <1>2
  <2> QED
    BY <2>1 DEF DiffLine
<1> QED
  BY <1>1, <1>2

\* The diff of a file counts its content under its name.
LEMMA FileDiffFold ==
  ASSUME NEW N, NEW n \in N, IsName(n), NEW x, NEW seen,
         NEW plus \in Seq(N), NEW minus \in Seq(N), NEW content \in Seq(Content)
  PROVE  Diff!Fold({}, DiffState(x, seen, plus, minus),
                   FileDiff(n, content))
           = Counted(n, seen \cup {n}, plus, minus, content, Len(content))
<1> DEFINE a == DiffState(x, seen, plus, minus)
           b == DiffState(n, seen \cup {n}, plus, minus)
           off == [tag |-> "body", sign |-> "-", like |-> TRUE]
           on  == [tag |-> "body", sign |-> "+", like |-> TRUE]
           header == <<Named("file", n), Line("plain"), off, on, Line("plain")>>
<1>1. off \in Content /\ on \in Content
  BY DEF Content
<1>2. DiffLine(a, Named("file", n)) = b
  BY HeaderStep
<1>3. DiffLine(b, Line("plain")) = b /\ DiffLine(b, off) = b /\ DiffLine(b, on) = b
  BY QuietLines
<1>4. FileDiff(n, content) = header \o content
  BY DEF FileDiff
<1> HIDE DEF a, b, off, on
<1>5. header \in Seq(DiffLines(N)) /\ content \in Seq(DiffLines(N))
  <2>1. Named("file", n) \in DiffLines(N) /\ Line("plain") \in DiffLines(N)
        /\ off \in DiffLines(N) /\ on \in DiffLines(N) /\ Content \subseteq DiffLines(N)
    BY <1>1 DEF DiffLines
  <2> QED
    BY <2>1
<1>6. Diff!Fold({}, a, header) = b
  <2>1. PICK run : Diff!IsRun({}, a, header, run) /\ Diff!Fold({}, a, header) = run[5]
    <3>1. Len(header) = 5
      OBVIOUS
    <3> HIDE DEF header
    <3> QED
      BY <1>5, <3>1, Diff!FoldHasRun
  <2>2. /\ run[0] = a
        /\ run[1] = DiffLine(run[0], Named("file", n)) /\ run[2] = DiffLine(run[1], Line("plain"))
        /\ run[3] = DiffLine(run[2], off) /\ run[4] = DiffLine(run[3], on)
        /\ run[5] = DiffLine(run[4], Line("plain"))
    BY <2>1 DEF Diff!IsRun
  <2> QED
    BY <1>2, <1>3, <2>1, <2>2
<1> HIDE DEF header
<1>7. Diff!Fold({}, a, header \o content) = Diff!Fold({}, b, content)
  BY <1>5, <1>6, Diff!FoldConcat
<1>8. Diff!Fold({}, b, content) = Counted(n, seen \cup {n}, plus, minus, content, Len(content))
  BY ContentFold DEF b
<1> QED
  BY <1>4, <1>7, <1>8 DEF a

\* Marks of two files are told apart.
LEMMA CopiesCount ==
  ASSUME NEW a, NEW b, a # b, NEW c \in Nat, NEW d \in Nat
  PROVE  /\ OfFile(Copies(a, c) \o Copies(b, d), a) = c
         /\ OfFile(Copies(a, c) \o Copies(b, d), b) = d
         /\ Len(Copies(a, c) \o Copies(b, d)) = c + d
<1> DEFINE marks == Copies(a, c) \o Copies(b, d)
<1>1. /\ Copies(a, c) \in Seq({a, b}) /\ Copies(b, d) \in Seq({a, b})
      /\ Len(Copies(a, c)) = c /\ Len(Copies(b, d)) = d
  BY DEF Copies
<1>2. DOMAIN marks = 1 .. c + d /\ Len(marks) = c + d
  BY <1>1
<1>3. \A i \in 1 .. c + d : marks[i] = IF i <= c THEN a ELSE b
  BY <1>1 DEF Copies
<1> HIDE DEF marks
<1>4. {i \in DOMAIN marks : marks[i] = a} = 1 .. c
  BY <1>2, <1>3
<1>5. {i \in DOMAIN marks : marks[i] = b} = c + 1 .. c + d
  BY <1>2, <1>3
<1>6. Cardinality(1 .. c) = c /\ Cardinality(c + 1 .. c + d) = d
  BY FS_Interval
<1> QED
  BY <1>2, <1>4, <1>5, <1>6 DEF OfFile, marks

\* The counts of the diff of any two files are those of their contents.
DiffIsCounted(a, b, one, two) ==
  LET r == Reduce("GitDiff", FileDiff(a, one) \o FileDiff(b, two), 0)
  IN /\ r.counts.rows = {<<a, Signed(one, "+"), Signed(one, "-")>>,
                         <<b, Signed(two, "+"), Signed(two, "-")>>}
     /\ r.counts.additions = Signed(one, "+") + Signed(two, "+")
     /\ r.counts.deletions = Signed(one, "-") + Signed(two, "-")

LEMMA SignedIsLast ==
  ASSUME NEW content \in Seq(Content), NEW sign
  PROVE  /\ Signed(content, sign) = Cardinality(SignedAt(content, sign, Len(content)))
         /\ Signed(content, sign) \in Nat
<1>1. DOMAIN content = 1 .. Len(content) /\ Len(content) \in Nat
  OBVIOUS
<1>2. {i \in DOMAIN content : content[i].sign = sign /\ ~content[i].like}
        = SignedAt(content, sign, Len(content))
  BY <1>1 DEF SignedAt
<1> QED
  BY <1>1, <1>2, SignedCounts DEF Signed

\* Where the fold stands after the diff of a file.
AfterFile(n, seen, plus, minus, content) ==
  DiffState(n, seen \cup {n}, plus \o Copies(n, Signed(content, "+")),
            minus \o Copies(n, Signed(content, "-")))

LEMMA FileFold ==
  ASSUME NEW N, NEW n \in N, IsName(n), NEW x, NEW seen,
         NEW plus \in Seq(N), NEW minus \in Seq(N), NEW content \in Seq(Content)
  PROVE  Diff!Fold({}, DiffState(x, seen, plus, minus),
                   FileDiff(n, content))
           = AfterFile(n, seen, plus, minus, content)
BY FileDiffFold, SignedIsLast DEF Counted, AfterFile

\* What the two diffs leave.
LEMMA TwoFiles ==
  ASSUME NEW a, NEW b, a # b, IsName(a), IsName(b),
         NEW one \in Seq(Content), NEW two \in Seq(Content)
  PROVE  FoldLeft(DiffLine, [at |-> "", seen |-> {}, plus |-> <<>>, minus |-> <<>>],
                  FileDiff(a, one) \o FileDiff(b, two))
           = [at |-> b, seen |-> {a, b},
              plus  |-> Copies(a, Signed(one, "+")) \o Copies(b, Signed(two, "+")),
              minus |-> Copies(a, Signed(one, "-")) \o Copies(b, Signed(two, "-"))]
<1> DEFINE N == {a, b}
           none == <<>>
           first == DiffState(Nowhere, {}, none, none)
           p == Copies(a, Signed(one, "+"))
           m == Copies(a, Signed(one, "-"))
           then == DiffState(a, {a}, p, m)
<1>1. none \in Seq(N) /\ a \in N /\ b \in N
  OBVIOUS
<1>2. p \in Seq(N) /\ m \in Seq(N) /\ none \o p = p /\ none \o m = m
  <2>1. \A c \in Nat : Copies(a, c) \in Seq(N) /\ <<>> \o Copies(a, c) = Copies(a, c)
    BY DEF Copies
  <2> QED
    BY <2>1, SignedIsLast
<1>3. FileDiff(a, one) \in Seq(DiffLines(N)) /\ FileDiff(b, two) \in Seq(DiffLines(N))
  BY <1>1, FileDiffType
<1> HIDE DEF N, none
<1>4. Diff!Fold({}, first, FileDiff(a, one)) = AfterFile(a, {}, none, none, one)
  BY <1>1, FileFold
<1>5. AfterFile(a, {}, none, none, one) = then
  BY <1>2 DEF AfterFile
<1> HIDE DEF p, m
<1>6. Diff!Fold({}, then, FileDiff(b, two)) = AfterFile(b, {a}, p, m, two)
  BY <1>1, <1>2, FileFold
<1>7. AfterFile(b, {a}, p, m, two)
        = DiffState(b, {a, b}, p \o Copies(b, Signed(two, "+")), m \o Copies(b, Signed(two, "-")))
  BY DEF AfterFile
<1> HIDE DEF first, then
<1>8. FoldLeft(DiffLine, first, FileDiff(a, one) \o FileDiff(b, two))
        = Diff!Fold({}, first, FileDiff(a, one) \o FileDiff(b, two))
  BY DiffFold
<1>9. Diff!Fold({}, first, FileDiff(a, one) \o FileDiff(b, two))
        = Diff!Fold({}, Diff!Fold({}, first, FileDiff(a, one)), FileDiff(b, two))
  BY <1>3, Diff!FoldConcat
<1> QED
  BY <1>4, <1>5, <1>6, <1>7, <1>8, <1>9 DEF first, none, p, m, Nowhere, DiffState

\* diff_output, for files of any names and contents of any length.
THEOREM EveryDiffIsCounted ==
  ASSUME NEW a, NEW b, a # b, IsName(a), IsName(b),
         NEW one \in Seq(Content), NEW two \in Seq(Content)
  PROVE  DiffIsCounted(a, b, one, two)
<1> DEFINE lines == FileDiff(a, one) \o FileDiff(b, two)
           s == FoldLeft(DiffLine, [at |-> "", seen |-> {}, plus |-> <<>>, minus |-> <<>>], lines)
           r == Reduce("GitDiff", lines, 0)
           p == Signed(one, "+")
           q == Signed(two, "+")
           m == Signed(one, "-")
           n == Signed(two, "-")
<1>1. p \in Nat /\ q \in Nat /\ m \in Nat /\ n \in Nat
  BY SignedIsLast
<1>2. s = [at |-> b, seen |-> {a, b}, plus |-> Copies(a, p) \o Copies(b, q),
           minus |-> Copies(a, m) \o Copies(b, n)]
  BY TwoFiles
<1>3. r.counts = [files |-> Cardinality(s.seen), additions |-> Len(s.plus),
                  deletions |-> Len(s.minus),
                  rows |-> {<<f, OfFile(s.plus, f), OfFile(s.minus, f)>> : f \in s.seen}]
  BY DEF Reduce, DiffOutput, Reduction
<1>4. DiffIsCounted(a, b, one, two) <=> /\ r.counts.rows = {<<a, p, m>>, <<b, q, n>>}
                                        /\ r.counts.additions = p + q
                                        /\ r.counts.deletions = m + n
  BY DEF DiffIsCounted
<1> HIDE DEF s, r, p, q, m, n
<1>5. /\ OfFile(s.plus, a) = p /\ OfFile(s.plus, b) = q /\ Len(s.plus) = p + q
  BY <1>1, <1>2, CopiesCount
<1>6. /\ OfFile(s.minus, a) = m /\ OfFile(s.minus, b) = n /\ Len(s.minus) = m + n
  BY <1>1, <1>2, CopiesCount
<1>7. s.seen = {a, b}
  BY <1>2
<1>8. r.counts.rows = {<<a, p, m>>, <<b, q, n>>}
  BY <1>3, <1>5, <1>6, <1>7
<1> QED
  BY <1>3, <1>4, <1>5, <1>6, <1>8

\* What a probe of a diff asks about is the diff of two contents.
ProbedDiff == probe.part = "diff" => probe.a \in Seq(Content) /\ probe.b \in Seq(Content)

LEMMA ProbedDiffInit == Init => ProbedDiff
BY DEF Init, None, ProbedDiff

LEMMA ProbedDiffStep == ProbedDiff /\ [Next]_probe => ProbedDiff'
<1> SUFFICES ASSUME ProbedDiff, [Next]_probe PROVE ProbedDiff'
  OBVIOUS
<1>1. CASE UNCHANGED probe
  BY <1>1 DEF ProbedDiff
<1>2. CASE ProbeDiff
  BY <1>2, SeqsUpToType DEF ProbeDiff, ProbedDiff
<1>3. CASE ProbeLine \/ ProbeTests \/ ProbeOutput \/ ProbeRebuild \/ ProbeTree
  <2>1. probe'.part # "diff"
    BY <1>3 DEF ProbeLine, ProbeTests, ProbeOutput, ProbeRebuild, ProbeTree
  <2> QED
    BY <2>1 DEF ProbedDiff
<1> QED
  BY <1>1, <1>2, <1>3 DEF Next

\* Whatever diff is probed, it is counted as it is.
THEOREM ProbedDiffIsCounted == Spec => []DiffCountsAreTrue
<1>1. ProbedDiff => DiffCountsAreTrue
  <2>1. "a" # "b" /\ IsName("a") /\ IsName("b")
    BY DEF IsName, Nowhere
  <2>2. ASSUME NEW one \in Seq(Content), NEW two \in Seq(Content)
        PROVE  DiffIsCounted("a", "b", one, two)
    <3> DEFINE a == "a"
               b == "b"
    <3>1. a # b /\ IsName(a) /\ IsName(b)
      BY <2>1
    <3> HIDE DEF a, b
    <3>2. DiffIsCounted(a, b, one, two)
      BY <3>1, EveryDiffIsCounted
    <3> QED
      BY <3>2 DEF a, b
  <2> QED
    BY <2>2 DEF ProbedDiff, DiffCountsAreTrue, DiffIsCounted
<1> QED
  BY ProbedDiffInit, ProbedDiffStep, <1>1, PTL DEF Spec

-----------------------------------------------------------------------------
(* The counts of any output of `git diff`, of any number of files.         *)

IsHeader(lines, i) == lines[i].tag = "file"

\* The names that the headers of a diff give.
NamesOf(lines) == {lines[i].name : i \in {h \in DOMAIN lines : IsHeader(lines, h)}}

\* Line i is the last header up to line j.
IsLastHeader(lines, i, j) == /\ i \in 1 .. j /\ IsHeader(lines, i)
                             /\ \A h \in i + 1 .. j : ~IsHeader(lines, h)

\* The lines of a sort below a header, and those of them that belong to file f.
IsSigned(l, sign) == l.tag = "body" /\ ~l.like /\ l.sign = sign
SignedBelow(lines, sign) ==
  {j \in DOMAIN lines : IsSigned(lines[j], sign) /\ \E i \in 1 .. j : IsLastHeader(lines, i, j)}
SignedIn(lines, f, sign) ==
  {j \in DOMAIN lines : /\ IsSigned(lines[j], sign)
                        /\ \E i \in 1 .. j : IsLastHeader(lines, i, j) /\ lines[i].name = f}

\* The positions of a set among the first k.
Among(Q, k) == {j \in 1 .. k : j \in Q}

LEMMA AmongCounts ==
  ASSUME NEW Q
  PROVE  /\ Cardinality(Among(Q, 0)) = 0
         /\ \A k \in Nat :
              /\ Cardinality(Among(Q, k)) \in Nat
              /\ k + 1 \in Q => Cardinality(Among(Q, k + 1)) = Cardinality(Among(Q, k)) + 1
              /\ k + 1 \notin Q => Cardinality(Among(Q, k + 1)) = Cardinality(Among(Q, k))
<1>1. Among(Q, 0) = {}
  BY DEF Among
<1>2. ASSUME NEW k \in Nat
      PROVE  IsFiniteSet(Among(Q, k))
  <2>1. IsFiniteSet(1 .. k)
    BY FS_Interval
  <2> QED
    BY <2>1, FS_Subset DEF Among
<1>3. ASSUME NEW k \in Nat, k + 1 \in Q
      PROVE  Cardinality(Among(Q, k + 1)) = Cardinality(Among(Q, k)) + 1
  <2>1. Among(Q, k + 1) = Among(Q, k) \cup {k + 1} /\ k + 1 \notin Among(Q, k)
    BY <1>3 DEF Among
  <2> QED
    BY <1>2, <2>1, FS_AddElement
<1>4. ASSUME NEW k \in Nat, k + 1 \notin Q
      PROVE  Among(Q, k + 1) = Among(Q, k)
  BY <1>4 DEF Among
<1>5. ASSUME NEW k \in Nat
      PROVE  Cardinality(Among(Q, k)) \in Nat
  BY <1>2, FS_CardinalityType
<1> QED
  BY <1>1, <1>3, <1>4, <1>5, FS_EmptySet

LEMMA OneMoreMark ==
  ASSUME NEW N, NEW marks \in Seq(N), NEW x \in N, NEW f
  PROVE  /\ OfFile(marks, f) \in Nat
         /\ f = x => OfFile(Append(marks, x), f) = OfFile(marks, f) + 1
         /\ f # x => OfFile(Append(marks, x), f) = OfFile(marks, f)
<1> DEFINE n == Len(marks)
           more == Append(marks, x)
           of == {i \in DOMAIN marks : marks[i] = f}
           ofMore == {i \in DOMAIN more : more[i] = f}
<1>1. /\ n \in Nat /\ DOMAIN marks = 1 .. n /\ DOMAIN more = 1 .. n + 1
      /\ more[n + 1] = x /\ \A i \in 1 .. n : more[i] = marks[i]
  OBVIOUS
<1>2. IsFiniteSet(of)
  <2>1. IsFiniteSet(1 .. n)
    BY <1>1, FS_Interval
  <2>2. of \subseteq 1 .. n
    BY <1>1
  <2> QED
    BY <2>1, <2>2, FS_Subset
<1> HIDE DEF more, n
<1>3. f = x => ofMore = of \cup {n + 1} /\ n + 1 \notin of
  BY <1>1
<1>4. f # x => ofMore = of
  BY <1>1
<1> HIDE DEF of, ofMore
<1>5. Cardinality(of) \in Nat
  BY <1>2, FS_CardinalityType
<1>6. f = x => Cardinality(ofMore) = Cardinality(of) + 1
  BY <1>2, <1>3, FS_AddElement
<1> QED
  BY <1>4, <1>5, <1>6 DEF OfFile, of, ofMore, more

\* Marks that are right for the first k lines.
AreMarks(lines, marks, sign, k) ==
  /\ marks \in Seq(NamesOf(lines))
  /\ Len(marks) = Cardinality(Among(SignedBelow(lines, sign), k))
  /\ \A f \in NamesOf(lines) : OfFile(marks, f) = Cardinality(Among(SignedIn(lines, f, sign), k))

LEMMA MarksStay ==
  ASSUME NEW lines, NEW marks, NEW sign, NEW k \in Nat, AreMarks(lines, marks, sign, k),
         k + 1 \notin SignedBelow(lines, sign)
  PROVE  AreMarks(lines, marks, sign, k + 1)
<1>1. \A f : k + 1 \notin SignedIn(lines, f, sign)
  BY DEF SignedBelow, SignedIn
<1>2. Cardinality(Among(SignedBelow(lines, sign), k + 1))
        = Cardinality(Among(SignedBelow(lines, sign), k))
  BY AmongCounts
<1>3. \A f : Cardinality(Among(SignedIn(lines, f, sign), k + 1))
               = Cardinality(Among(SignedIn(lines, f, sign), k))
  BY <1>1, AmongCounts
<1> QED
  BY <1>2, <1>3 DEF AreMarks

\* A line has one last header.
LEMMA OneLastHeader ==
  ASSUME NEW lines, NEW j \in Nat, NEW i, NEW h,
         IsLastHeader(lines, i, j), IsLastHeader(lines, h, j)
  PROVE  i = h
<1>1. i \in 1 .. j /\ h \in 1 .. j /\ IsHeader(lines, i) /\ IsHeader(lines, h)
  BY DEF IsLastHeader
<1>2. ~(i < h)
  BY <1>1 DEF IsLastHeader
<1>3. ~(h < i)
  BY <1>1 DEF IsLastHeader
<1> QED
  BY <1>1, <1>2, <1>3

LEMMA MarksGrow ==
  ASSUME NEW L, NEW lines \in Seq(L), NEW marks, NEW sign, NEW k \in Nat, k + 1 \in DOMAIN lines,
         AreMarks(lines, marks, sign, k), IsSigned(lines[k + 1], sign),
         NEW i, IsLastHeader(lines, i, k + 1)
  PROVE  AreMarks(lines, Append(marks, lines[i].name), sign, k + 1)
<1> DEFINE x == lines[i].name
           N == NamesOf(lines)
           more == Append(marks, x)
<1>1. i \in 1 .. k + 1 /\ i \in DOMAIN lines /\ IsHeader(lines, i)
  BY DEF IsLastHeader
<1>2. x \in N
  BY <1>1 DEF NamesOf
<1>3. k + 1 \in SignedBelow(lines, sign) /\ k + 1 \in SignedIn(lines, x, sign)
  BY <1>1 DEF SignedBelow, SignedIn
<1>4. ASSUME NEW f, f # x
      PROVE  k + 1 \notin SignedIn(lines, f, sign)
  <2>1. ASSUME NEW h \in 1 .. k + 1, IsLastHeader(lines, h, k + 1)
        PROVE  lines[h].name = x
    <3>1. k + 1 \in Nat
      OBVIOUS
    <3> QED
      BY <2>1, <3>1, OneLastHeader
  <2> QED
    BY <1>4, <2>1 DEF SignedIn
<1>5. /\ marks \in Seq(N) /\ Len(marks) = Cardinality(Among(SignedBelow(lines, sign), k))
      /\ \A f \in N : OfFile(marks, f) = Cardinality(Among(SignedIn(lines, f, sign), k))
  BY DEF AreMarks
<1> HIDE DEF x, N
<1>6. more \in Seq(N) /\ Len(more) = Len(marks) + 1
  BY <1>2, <1>5
<1>7. Len(more) = Cardinality(Among(SignedBelow(lines, sign), k + 1))
  BY <1>3, <1>5, <1>6, AmongCounts
<1>8. ASSUME NEW f \in N
      PROVE  OfFile(more, f) = Cardinality(Among(SignedIn(lines, f, sign), k + 1))
  <2>1. CASE f = x
    <3>1. OfFile(more, f) = OfFile(marks, f) + 1
      BY <1>2, <1>5, <2>1, OneMoreMark
    <3>2. Cardinality(Among(SignedIn(lines, f, sign), k + 1))
            = Cardinality(Among(SignedIn(lines, f, sign), k)) + 1
      BY <1>3, <2>1, AmongCounts
    <3> QED
      BY <1>5, <3>1, <3>2
  <2>2. CASE f # x
    <3>1. OfFile(more, f) = OfFile(marks, f)
      BY <1>2, <1>5, <2>2, OneMoreMark
    <3>2. Cardinality(Among(SignedIn(lines, f, sign), k + 1))
            = Cardinality(Among(SignedIn(lines, f, sign), k))
      BY <1>4, <2>2, AmongCounts
    <3> QED
      BY <1>5, <3>1, <3>2
  <2> QED
    BY <2>1, <2>2
<1> HIDE DEF more
<1> QED
  BY <1>6, <1>7, <1>8 DEF AreMarks, N, more, x

\* What the fold knows after k lines.
IsAt(lines, x, k) ==
  \/ x = Nowhere /\ \A h \in 1 .. k : ~IsHeader(lines, h)
  \/ \E i \in 1 .. k : IsLastHeader(lines, i, k) /\ x = lines[i].name

SeenBy(lines, k) == {lines[i].name : i \in {h \in 1 .. k : IsHeader(lines, h)}}

KnowsDiff(lines, s, k) ==
  \E x, seen, plus, minus :
    /\ s = DiffState(x, seen, plus, minus) /\ IsAt(lines, x, k) /\ seen = SeenBy(lines, k)
    /\ AreMarks(lines, plus, "+", k) /\ AreMarks(lines, minus, "-", k)

\* A file has a name.
AreNamed(lines) == \A i \in DOMAIN lines : IsHeader(lines, i) => IsName(lines[i].name)

LEMMA OwnSign ==
  ASSUME NEW lines, NEW sign, NEW j, j \in SignedBelow(lines, sign)
  PROVE  lines[j].tag = "body" /\ ~lines[j].like /\ lines[j].sign = sign
BY DEF SignedBelow, IsSigned

LEMMA DiffStep ==
  ASSUME NEW L, NEW lines \in Seq(L), AreNamed(lines), NEW k \in Nat, k + 1 \in DOMAIN lines,
         NEW s, KnowsDiff(lines, s, k)
  PROVE  KnowsDiff(lines, DiffLine(s, lines[k + 1]), k + 1)
<1> DEFINE l == lines[k + 1]
<1>1. PICK x, seen, plus, minus :
        /\ s = DiffState(x, seen, plus, minus) /\ IsAt(lines, x, k) /\ seen = SeenBy(lines, k)
        /\ AreMarks(lines, plus, "+", k) /\ AreMarks(lines, minus, "-", k)
  BY DEF KnowsDiff
<1>2. CASE l.tag = "file"
  <2>1. DiffLine(s, l) = DiffState(l.name, seen \cup {l.name}, plus, minus)
    BY <1>1, <1>2 DEF DiffLine, DiffState
  <2>2. IsAt(lines, l.name, k + 1)
    BY <1>2 DEF IsAt, IsLastHeader, IsHeader
  <2>3. seen \cup {l.name} = SeenBy(lines, k + 1)
    BY <1>1, <1>2 DEF SeenBy, IsHeader
  <2>4. \A sign : k + 1 \notin SignedBelow(lines, sign)
    BY <1>2, OwnSign
  <2>5. AreMarks(lines, plus, "+", k + 1) /\ AreMarks(lines, minus, "-", k + 1)
    BY <1>1, <2>4, MarksStay
  <2> QED
    BY <2>1, <2>2, <2>3, <2>5 DEF KnowsDiff
<1>3. CASE l.tag # "file"
  <2>1. SeenBy(lines, k + 1) = seen
    <3>1. {h \in 1 .. k + 1 : IsHeader(lines, h)} = {h \in 1 .. k : IsHeader(lines, h)}
      BY <1>3 DEF IsHeader
    <3> QED
      BY <1>1, <3>1 DEF SeenBy
  <2>2. IsAt(lines, x, k + 1)
    <3>1. CASE x = Nowhere /\ \A h \in 1 .. k : ~IsHeader(lines, h)
      BY <1>3, <3>1 DEF IsAt, IsHeader
    <3>2. ASSUME NEW i \in 1 .. k, IsLastHeader(lines, i, k), x = lines[i].name
          PROVE  IsLastHeader(lines, i, k + 1) /\ i \in 1 .. k + 1
      BY <1>3, <3>2 DEF IsLastHeader, IsHeader
    <3> QED
      BY <1>1, <3>1, <3>2 DEF IsAt
  <2>3. CASE x = Nowhere
    <3>1. \A i \in 1 .. k + 1 : ~IsLastHeader(lines, i, k + 1)
      <4>1. ASSUME NEW i \in 1 .. k + 1, IsLastHeader(lines, i, k + 1)
            PROVE  IsName(lines[i].name) /\ IsHeader(lines, i)
        BY <4>1 DEF IsLastHeader, AreNamed
      <4>2. ~(\E i \in 1 .. k + 1 : IsLastHeader(lines, i, k + 1) /\ x = lines[i].name)
        BY <2>3, <4>1 DEF IsName
      <4>3. \A h \in 1 .. k + 1 : ~IsHeader(lines, h)
        BY <2>2, <4>2 DEF IsAt
      <4> QED
        BY <4>1, <4>3
    <3>2. \A sign : k + 1 \notin SignedBelow(lines, sign)
      BY <3>1 DEF SignedBelow
    <3>3. AreMarks(lines, plus, "+", k + 1) /\ AreMarks(lines, minus, "-", k + 1)
      BY <1>1, <3>2, MarksStay
    <3>4. DiffLine(s, l) = s
      BY <1>1, <1>3, <2>3 DEF DiffLine, DiffState, Nowhere
    <3> QED
      BY <1>1, <2>1, <2>2, <3>3, <3>4 DEF KnowsDiff
  <2>4. CASE x # Nowhere
    <3>1. PICK i \in 1 .. k + 1 : IsLastHeader(lines, i, k + 1) /\ x = lines[i].name
      BY <2>2, <2>4 DEF IsAt
    <3>2. CASE IsSigned(l, "+")
      <4>1. DiffLine(s, l) = DiffState(x, seen, Append(plus, x), minus)
        BY <1>1, <2>4, <3>2 DEF DiffLine, DiffState, Nowhere, IsSigned
      <4>2. AreMarks(lines, Append(plus, x), "+", k + 1)
        BY <1>1, <3>1, <3>2, MarksGrow
      <4>3. k + 1 \notin SignedBelow(lines, "-")
        BY <3>2, OwnSign DEF IsSigned
      <4>4. AreMarks(lines, minus, "-", k + 1)
        BY <1>1, <4>3, MarksStay
      <4> DEFINE more == Append(plus, x)
      <4> HIDE DEF more
      <4> QED
        BY <2>1, <2>2, <4>1, <4>2, <4>4 DEF KnowsDiff, more
    <3>3. CASE IsSigned(l, "-")
      <4>1. DiffLine(s, l) = DiffState(x, seen, plus, Append(minus, x))
        BY <1>1, <2>4, <3>3 DEF DiffLine, DiffState, Nowhere, IsSigned
      <4>2. AreMarks(lines, Append(minus, x), "-", k + 1)
        BY <1>1, <3>1, <3>3, MarksGrow
      <4>3. k + 1 \notin SignedBelow(lines, "+")
        BY <3>3, OwnSign DEF IsSigned
      <4>4. AreMarks(lines, plus, "+", k + 1)
        BY <1>1, <4>3, MarksStay
      <4> DEFINE more == Append(minus, x)
      <4> HIDE DEF more
      <4> QED
        BY <2>1, <2>2, <4>1, <4>2, <4>4 DEF KnowsDiff, more
    <3>4. CASE ~IsSigned(l, "+") /\ ~IsSigned(l, "-")
      <4>1. k + 1 \notin SignedBelow(lines, "+") /\ k + 1 \notin SignedBelow(lines, "-")
        BY <3>4 DEF SignedBelow
      <4>2. AreMarks(lines, plus, "+", k + 1) /\ AreMarks(lines, minus, "-", k + 1)
        BY <1>1, <4>1, MarksStay
      <4>3. DiffLine(s, l) = s
        BY <1>3, <3>4 DEF DiffLine, IsSigned
      <4> QED
        BY <1>1, <2>1, <2>2, <4>2, <4>3 DEF KnowsDiff
    <3> QED
      BY <3>2, <3>3, <3>4
  <2> QED
    BY <2>3, <2>4
<1> QED
  BY <1>2, <1>3

\* A line belongs to the file of the last header above it.
LinesAreCounted(lines) ==
  LET r == Reduce("GitDiff", lines, 0)
  IN /\ r.counts.rows = {<<f, Cardinality(SignedIn(lines, f, "+")),
                           Cardinality(SignedIn(lines, f, "-"))>> : f \in NamesOf(lines)}
     /\ r.counts.files = Cardinality(NamesOf(lines))
     /\ r.counts.additions = Cardinality(SignedBelow(lines, "+"))
     /\ r.counts.deletions = Cardinality(SignedBelow(lines, "-"))

\* diff_output, for any lines of any number of files: headers may follow one another, a
\* file may come back, and lines may stand before the first header.
THEOREM EveryFileIsCounted ==
  ASSUME NEW L, NEW lines \in Seq(L), AreNamed(lines)
  PROVE  LinesAreCounted(lines)
<1> DEFINE n == Len(lines)
           none == <<>>
           first == DiffState(Nowhere, {}, none, none)
           s == Diff!Fold({}, first, lines)
<1>1. n \in Nat /\ DOMAIN lines = 1 .. n
  OBVIOUS
<1>2. KnowsDiff(lines, first, 0)
  <2>1. IsAt(lines, Nowhere, 0) /\ SeenBy(lines, 0) = {}
    BY DEF IsAt, SeenBy
  <2>2. none \in Seq(NamesOf(lines)) /\ Len(none) = 0 /\ \A f : OfFile(none, f) = 0
    <3>1. \A f : {i \in DOMAIN none : none[i] = f} = {}
      OBVIOUS
    <3> QED
      BY <3>1, FS_EmptySet DEF OfFile
  <2> HIDE DEF none
  <2>3. \A sign : AreMarks(lines, none, sign, 0)
    BY <2>2, AmongCounts DEF AreMarks
  <2> QED
    BY <2>1, <2>3 DEF KnowsDiff
<1> HIDE DEF first
<1>3. KnowsDiff(lines, s, n)
  <2>1. PICK run : Diff!IsRun({}, first, lines, run) /\ s = run[n]
    BY Diff!FoldHasRun
  <2> DEFINE P == {k \in Nat : KnowsDiff(lines, run[k], k)}
  <2>2. 0 \in P
    BY <1>2, <2>1 DEF Diff!IsRun
  <2>3. ASSUME NEW k \in 0 .. n - 1, k \in P
        PROVE  k + 1 \in P
    <3>1. k + 1 \in 1 .. n /\ (k + 1) - 1 = k /\ k \in Nat /\ k + 1 \in Nat
      BY <1>1
    <3>2. run[k + 1] = DiffLine(run[k], lines[k + 1])
      BY <2>1, <3>1 DEF Diff!IsRun
    <3>3. KnowsDiff(lines, run[k], k)
      BY <2>3
    <3>4. KnowsDiff(lines, DiffLine(run[k], lines[k + 1]), k + 1)
      BY <1>1, <3>1, <3>3, DiffStep
    <3> QED
      BY <3>1, <3>2, <3>4
  <2>4. n \in P
    <3>1. n \in 0 .. n
      BY <1>1
    <3> HIDE DEF P
    <3> QED
      BY <1>1, <2>2, <2>3, <3>1, Diff!Reaches
  <2> QED
    BY <2>1, <2>4
<1> HIDE DEF s
<1>4. PICK x, seen, plus, minus :
        /\ s = DiffState(x, seen, plus, minus) /\ seen = SeenBy(lines, n)
        /\ AreMarks(lines, plus, "+", n) /\ AreMarks(lines, minus, "-", n)
  BY <1>3 DEF KnowsDiff
<1>5. seen = NamesOf(lines)
  BY <1>1, <1>4 DEF SeenBy, NamesOf
<1>6. \A sign : Among(SignedBelow(lines, sign), n) = SignedBelow(lines, sign)
  BY <1>1 DEF Among, SignedBelow
<1>7. \A f, sign : Among(SignedIn(lines, f, sign), n) = SignedIn(lines, f, sign)
  BY <1>1 DEF Among, SignedIn
<1>8. /\ Len(plus) = Cardinality(SignedBelow(lines, "+"))
      /\ Len(minus) = Cardinality(SignedBelow(lines, "-"))
      /\ \A f \in NamesOf(lines) : /\ OfFile(plus, f) = Cardinality(SignedIn(lines, f, "+"))
                                   /\ OfFile(minus, f) = Cardinality(SignedIn(lines, f, "-"))
  BY <1>4, <1>6, <1>7 DEF AreMarks
<1>9. s = FoldLeft(DiffLine, [at |-> "", seen |-> {}, plus |-> <<>>, minus |-> <<>>], lines)
  BY DiffFold DEF s, first, DiffState, Nowhere, none
<1> DEFINE r == Reduce("GitDiff", lines, 0)
<1>10. r.counts = [files |-> Cardinality(s.seen), additions |-> Len(s.plus),
                   deletions |-> Len(s.minus),
                   rows |-> {<<f, OfFile(s.plus, f), OfFile(s.minus, f)>> : f \in s.seen}]
  BY <1>9 DEF Reduce, DiffOutput, Reduction
<1>11. s.seen = NamesOf(lines) /\ s.plus = plus /\ s.minus = minus
  BY <1>4, <1>5 DEF DiffState
<1> HIDE DEF r
<1>12. r.counts.rows = {<<f, Cardinality(SignedIn(lines, f, "+")),
                          Cardinality(SignedIn(lines, f, "-"))>> : f \in NamesOf(lines)}
  BY <1>8, <1>10, <1>11
<1> QED
  BY <1>8, <1>10, <1>11, <1>12 DEF LinesAreCounted, r

-----------------------------------------------------------------------------
(* Sequences: what is among others, and many made one.                     *)

Sift  == INSTANCE FoldFacts WITH op <- LAMBDA c, a, x : IF x \in c THEN Append(a, x) ELSE a
Chain == INSTANCE FoldFacts WITH op <- LAMBDA c, a, x : a \o x

LEMMA AmongIsFold == ASSUME NEW seq, NEW S PROVE Src!Among(seq, S) = Sift!Fold(S, <<>>, seq)
BY DEF Sift!Fold, Sift!FoldLeft, Src!Among, Src!FoldLeft, Sift!MapThenFoldSet,
       Src!MapThenFoldSet, Src!Max, Sift!Max

LEMMA AmongRun ==
  ASSUME NEW T, NEW seq \in Seq(T), NEW S
  PROVE  \E run : /\ run[0] = <<>> /\ Src!Among(seq, S) = run[Len(seq)]
                  /\ \A k \in 1 .. Len(seq) :
                       run[k] = IF seq[k] \in S THEN Append(run[k - 1], seq[k]) ELSE run[k - 1]
<1>1. PICK run : Sift!IsRun(S, <<>>, seq, run) /\ Sift!Fold(S, <<>>, seq) = run[Len(seq)]
  BY Sift!FoldHasRun
<1> QED
  BY <1>1, AmongIsFold DEF Sift!IsRun

LEMMA RunIsAmong ==
  ASSUME NEW T, NEW seq \in Seq(T), NEW S, NEW run, run[0] = <<>>,
         \A k \in 1 .. Len(seq) :
           run[k] = IF seq[k] \in S THEN Append(run[k - 1], seq[k]) ELSE run[k - 1]
  PROVE  Src!Among(seq, S) = run[Len(seq)]
<1>1. Sift!IsRun(S, <<>>, seq, run)
  BY DEF Sift!IsRun
<1>2. Sift!Fold(S, <<>>, seq) = run[Len(seq)]
  BY <1>1, Sift!RunIsFold
<1> QED
  BY <1>2, AmongIsFold

\* The elements of what is among S.
LEMMA AmongElements ==
  ASSUME NEW T, NEW seq \in Seq(T), NEW S
  PROVE  /\ Src!Among(seq, S) \in Seq(T)
         /\ Src!ToSet(Src!Among(seq, S)) = Src!ToSet(seq) \cap S
<1>1. PICK run : /\ run[0] = <<>> /\ Src!Among(seq, S) = run[Len(seq)]
                 /\ \A k \in 1 .. Len(seq) :
                      run[k] = IF seq[k] \in S THEN Append(run[k - 1], seq[k]) ELSE run[k - 1]
  BY AmongRun
<1> DEFINE n == Len(seq)
           In(k) == {seq[i] : i \in 1 .. k} \cap S
           P == {k \in Nat : run[k] \in Seq(T) /\ Src!ToSet(run[k]) = In(k)}
<1>2. n \in Nat /\ DOMAIN seq = 1 .. n /\ \A i \in 1 .. n : seq[i] \in T
  OBVIOUS
<1>3. 0 \in P
  <2>1. In(0) = {}
    OBVIOUS
  <2>2. Src!ToSet(<<>>) = {} /\ <<>> \in Seq(T)
    BY DEF Src!ToSet
  <2> HIDE DEF In
  <2> QED
    BY <1>1, <2>1, <2>2
<1>4. ASSUME NEW k \in 0 .. n - 1, k \in P
      PROVE  k + 1 \in P
  <2>1. k \in Nat /\ k + 1 \in Nat /\ k + 1 \in 1 .. n /\ k + 1 - 1 = k
    BY <1>2
  <2>2. run[k] \in Seq(T) /\ Src!ToSet(run[k]) = In(k)
    BY <1>4
  <2>3. run[k + 1] = IF seq[k + 1] \in S THEN Append(run[k], seq[k + 1]) ELSE run[k]
    BY <1>1, <2>1
  <2>4. In(k + 1) = IF seq[k + 1] \in S THEN In(k) \cup {seq[k + 1]} ELSE In(k)
    <3>1. 1 .. k + 1 = (1 .. k) \cup {k + 1}
      BY <2>1
    <3> QED
      BY <3>1
  <2>5. seq[k + 1] \in T
    BY <1>2, <2>1
  <2>6. \A s \in Seq(T), x \in T : /\ Append(s, x) \in Seq(T)
                                   /\ Src!ToSet(Append(s, x)) = Src!ToSet(s) \cup {x}
    <3> SUFFICES ASSUME NEW s \in Seq(T), NEW x \in T
                 PROVE  Src!ToSet(Append(s, x)) = Src!ToSet(s) \cup {x}
      OBVIOUS
    <3>1. /\ DOMAIN Append(s, x) = 1 .. Len(s) + 1 /\ DOMAIN s = 1 .. Len(s) /\ Len(s) \in Nat
          /\ \A i \in 1 .. Len(s) : Append(s, x)[i] = s[i]
          /\ Append(s, x)[Len(s) + 1] = x
      OBVIOUS
    <3>2. 1 .. Len(s) + 1 = (1 .. Len(s)) \cup {Len(s) + 1}
      BY <3>1
    <3> QED
      BY <3>1, <3>2 DEF Src!ToSet
  <2> HIDE DEF In
  <2> QED
    BY <2>1, <2>2, <2>3, <2>4, <2>5, <2>6
<1>5. n \in P
  <2>1. \A k \in 0 .. n : k \in P
    <3> HIDE DEF P, n
    <3> QED
      BY <1>2, <1>3, <1>4, Sift!Reaches
  <2>2. n \in 0 .. n
    BY <1>2
  <2> HIDE DEF P, n
  <2> QED
    BY <2>1, <2>2
<1>6. In(n) = Src!ToSet(seq) \cap S
  BY <1>2 DEF Src!ToSet
<1> HIDE DEF In
<1> QED
  BY <1>1, <1>5, <1>6

LEMMA ConcatElements ==
  ASSUME NEW T, NEW one \in Seq(T), NEW two \in Seq(T)
  PROVE  Src!ToSet(one \o two) = Src!ToSet(one) \cup Src!ToSet(two)
<1> DEFINE n == Len(one)
           m == Len(two)
           both == one \o two
<1>1. n \in Nat /\ m \in Nat /\ DOMAIN one = 1 .. n /\ DOMAIN two = 1 .. m
  OBVIOUS
<1>2. /\ DOMAIN both = 1 .. n + m
      /\ \A i \in 1 .. n : both[i] = one[i]
      /\ \A i \in 1 .. m : both[n + i] = two[i]
      /\ \A i \in n + 1 .. n + m : both[i] = two[i - n]
  OBVIOUS
<1> HIDE DEF n, m, both
<1>3. ASSUME NEW i \in 1 .. n + m
      PROVE  \/ i \in 1 .. n
             \/ i \in n + 1 .. n + m /\ i - n \in 1 .. m
  BY <1>1
<1>4. (\A i \in 1 .. n : i \in 1 .. n + m) /\ (\A i \in 1 .. m : n + i \in 1 .. n + m)
  BY <1>1
<1>5. ASSUME NEW x \in Src!ToSet(both)
      PROVE  x \in Src!ToSet(one) \cup Src!ToSet(two)
  <2>1. PICK i \in 1 .. n + m : x = both[i]
    BY <1>2 DEF Src!ToSet
  <2> QED
    BY <1>1, <1>2, <1>3, <2>1 DEF Src!ToSet
<1>6. Src!ToSet(one) \subseteq Src!ToSet(both)
  BY <1>1, <1>2, <1>4 DEF Src!ToSet
<1>7. ASSUME NEW i \in 1 .. m PROVE two[i] \in Src!ToSet(both)
  <2>1. n + i \in DOMAIN both /\ both[n + i] = two[i]
    BY <1>2, <1>4
  <2> QED
    BY <2>1 DEF Src!ToSet
<1>8. Src!ToSet(two) \subseteq Src!ToSet(both)
  BY <1>1, <1>7 DEF Src!ToSet
<1> QED
  BY <1>5, <1>6, <1>8 DEF both

LEMMA AmongNone ==
  ASSUME NEW T, NEW seq \in Seq(T), NEW S, \A i \in DOMAIN seq : seq[i] \notin S
  PROVE  Src!Among(seq, S) = <<>>
<1> DEFINE run == [k \in 0 .. Len(seq) |-> <<>>]
<1>1. Len(seq) \in Nat /\ DOMAIN seq = 1 .. Len(seq)
  OBVIOUS
<1>2. Src!Among(seq, S) = run[Len(seq)]
  <2>1. \A k \in 1 .. Len(seq) : run[k] = <<>> /\ run[k - 1] = <<>>
    BY <1>1
  <2>2. run[0] = <<>>
    BY <1>1
  <2> HIDE DEF run
  <2> QED
    BY <1>1, <2>1, <2>2, RunIsAmong
<1> QED
  BY <1>1, <1>2

LEMMA AmongAll ==
  ASSUME NEW T, NEW seq \in Seq(T), NEW S, \A i \in DOMAIN seq : seq[i] \in S
  PROVE  Src!Among(seq, S) = seq
<1> DEFINE run == [k \in 0 .. Len(seq) |-> SubSeq(seq, 1, k)]
<1>1. Len(seq) \in Nat /\ DOMAIN seq = 1 .. Len(seq)
  OBVIOUS
<1>2. Src!Among(seq, S) = run[Len(seq)]
  <2>1. \A k \in 1 .. Len(seq) : run[k] = Append(run[k - 1], seq[k])
    <3> SUFFICES ASSUME NEW k \in 1 .. Len(seq) PROVE run[k] = Append(run[k - 1], seq[k])
      OBVIOUS
    <3>1. run[k] = SubSeq(seq, 1, k) /\ run[k - 1] = SubSeq(seq, 1, k - 1)
      BY <1>1
    <3>2. /\ SubSeq(seq, 1, k) \in Seq(T) /\ SubSeq(seq, 1, k - 1) \in Seq(T)
          /\ Len(SubSeq(seq, 1, k)) = k /\ Len(SubSeq(seq, 1, k - 1)) = k - 1
          /\ \A i \in 1 .. k : SubSeq(seq, 1, k)[i] = seq[i]
          /\ \A i \in 1 .. k - 1 : SubSeq(seq, 1, k - 1)[i] = seq[i]
      BY <1>1
    <3> DEFINE one == SubSeq(seq, 1, k)
               two == Append(SubSeq(seq, 1, k - 1), seq[k])
    <3>3. /\ one \in Seq(T) /\ two \in Seq(T) /\ Len(one) = k /\ Len(two) = k
          /\ \A i \in 1 .. k : one[i] = two[i]
      BY <1>1, <3>2
    <3> HIDE DEF one, two
    <3>4. one = two
      BY <3>3, SeqEqual
    <3> QED
      BY <3>1, <3>4 DEF one, two
  <2>2. run[0] = <<>>
    BY <1>1
  <2> HIDE DEF run
  <2> QED
    BY <1>1, <2>1, <2>2, RunIsAmong
<1>3. run[Len(seq)] = seq
  BY <1>1
<1> QED
  BY <1>2, <1>3

LEMMA AmongConcat ==
  ASSUME NEW T, NEW one \in Seq(T), NEW two \in Seq(T), NEW S
  PROVE  Src!Among(one \o two, S) = Src!Among(one, S) \o Src!Among(two, S)
<1> DEFINE base == Src!Among(one, S)
<1>1. base \in Seq(T)
  BY AmongElements
<1>2. Sift!Fold(S, <<>>, one \o two) = Sift!Fold(S, base, two)
  BY AmongIsFold, Sift!FoldConcat
<1>3. PICK run : /\ run[0] = <<>> /\ Src!Among(two, S) = run[Len(two)]
                 /\ \A k \in 1 .. Len(two) :
                      run[k] = IF two[k] \in S THEN Append(run[k - 1], two[k]) ELSE run[k - 1]
  BY AmongRun
<1> DEFINE more == [k \in 0 .. Len(two) |-> base \o run[k]]
           P == {k \in Nat : run[k] \in Seq(T)}
<1>4. Len(two) \in Nat /\ \A k \in 1 .. Len(two) : two[k] \in T
  OBVIOUS
<1> HIDE DEF base
<1>5. \A k \in 0 .. Len(two) : run[k] \in Seq(T)
  <2>1. 0 \in P
    <3>1. <<>> \in Seq(T)
      OBVIOUS
    <3>2. run[0] \in Seq(T)
      BY <1>3, <3>1
    <3> QED
      BY <3>2
  <2>2. ASSUME NEW k \in 0 .. Len(two) - 1, k \in P
        PROVE  k + 1 \in P
    <3>1. k \in Nat /\ k + 1 \in Nat /\ k + 1 \in 1 .. Len(two) /\ k + 1 - 1 = k
      BY <1>4
    <3>2. run[k] \in Seq(T) /\ two[k + 1] \in T
      BY <1>4, <2>2, <3>1
    <3>3. Append(run[k], two[k + 1]) \in Seq(T)
      BY <3>2
    <3>4. run[k + 1] = IF two[k + 1] \in S THEN Append(run[k], two[k + 1]) ELSE run[k]
      BY <1>3, <3>1
    <3>5. run[k + 1] \in Seq(T)
      BY <3>2, <3>3, <3>4
    <3> QED
      BY <3>1, <3>5
  <2>3. \A k \in 0 .. Len(two) : k \in P
    <3> HIDE DEF P
    <3> QED
      BY <1>4, <2>1, <2>2, Sift!Reaches
  <2> QED
    BY <2>3
<1>6. more[0] = base
  BY <1>1, <1>3, <1>4
<1>7. ASSUME NEW k \in 1 .. Len(two)
      PROVE  more[k] = IF two[k] \in S THEN Append(more[k - 1], two[k]) ELSE more[k - 1]
  <2>1. k - 1 \in 0 .. Len(two) /\ k \in 0 .. Len(two)
    BY <1>4
  <2>2. more[k] = base \o run[k] /\ more[k - 1] = base \o run[k - 1]
    BY <2>1
  <2>3. run[k - 1] \in Seq(T) /\ two[k] \in T
    BY <1>4, <1>5, <2>1
  <2>4. base \o Append(run[k - 1], two[k]) = Append(base \o run[k - 1], two[k])
    BY <1>1, <2>3
  <2> HIDE DEF more
  <2> QED
    BY <1>3, <2>2, <2>4
<1>8. more[Len(two)] = base \o run[Len(two)]
  BY <1>4
<1> HIDE DEF more
<1>9. Sift!IsRun(S, base, two, more)
  BY <1>6, <1>7 DEF Sift!IsRun
<1>10. Sift!Fold(S, base, two) = more[Len(two)]
  BY <1>9, Sift!RunIsFold
<1> QED
  BY <1>2, <1>3, <1>8, <1>10, AmongIsFold DEF base

\* A sequence of sequences is put together one after the other.
LEMMA FlattenRun ==
  ASSUME NEW T, NEW seqs \in Seq(Seq(T))
  PROVE  \E run : /\ run[0] = <<>> /\ Src!FlattenSeq(seqs) = run[Len(seqs)]
                  /\ \A k \in 0 .. Len(seqs) - 1 : run[k + 1] = run[k] \o seqs[k + 1]
                  /\ \A k \in 0 .. Len(seqs) : run[k] \in Seq(T)
<1> DEFINE n == Len(seqs)
           Cat(a, b) == a \o b
<1>1. n \in Nat /\ \A k \in 1 .. n : seqs[k] \in Seq(T)
  OBVIOUS
<1>2. PICK run : Chain!IsRun({}, <<>>, seqs, run)
  BY Chain!FoldHasRun
<1>3. run[0] = <<>>
  BY <1>2 DEF Chain!IsRun
<1>4. \A k \in 0 .. n - 1 : run[k + 1] = Cat(run[k], seqs[k + 1])
  <2> SUFFICES ASSUME NEW k \in 0 .. Len(seqs) - 1
               PROVE  run[k + 1] = run[k] \o seqs[k + 1]
    OBVIOUS
  <2>1. PICK j \in 1 .. Len(seqs) : j = k + 1 /\ j - 1 = k
    <3>1. k + 1 \in 1 .. Len(seqs) /\ k + 1 - 1 = k
      OBVIOUS
    <3> QED
      BY <3>1
  <2>2. run[j] = run[j - 1] \o seqs[j]
    BY <1>2 DEF Chain!IsRun
  <2> QED
    BY <2>1, <2>2, Zenon
<1>5. \A a, b \in Seq(T) : Cat(a, b) \in Seq(T)
  OBVIOUS
<1>6. Cat(<<>>, seqs[1]) = seqs[1] \/ n = 0
  BY <1>1
<1>7. n # 0 => /\ Src!FlattenSeq(seqs)
                    = (CHOOSE f : f = [i \in 1 .. n |-> IF i = 1 THEN seqs[i]
                                                        ELSE Cat(f[i - 1], seqs[i])])[n]
  BY DEF Src!FlattenSeq
<1>8. n = 0 => seqs = <<>> /\ Src!FlattenSeq(seqs) = seqs
  BY DEF Src!FlattenSeq
<1> HIDE DEF n, Cat
<1>9. \A k \in 0 .. n : run[k] \in Seq(T)
  <2> DEFINE P == {k \in Nat : run[k] \in Seq(T)}
  <2>1. 0 \in P
    <3>1. <<>> \in Seq(T)
      OBVIOUS
    <3>2. run[0] \in Seq(T)
      BY <1>3, <3>1
    <3> QED
      BY <3>2
  <2>2. ASSUME NEW k \in 0 .. n - 1, k \in P
        PROVE  k + 1 \in P
    <3>1. k + 1 \in Nat /\ k + 1 \in 1 .. n
      BY <1>1
    <3> QED
      BY <1>1, <1>4, <1>5, <2>2, <3>1
  <2>3. \A k \in 0 .. n : k \in P
    <3> HIDE DEF P
    <3> QED
      BY <1>1, <2>1, <2>2, Sift!Reaches
  <2> QED
    BY <2>3
<1>10. Src!FlattenSeq(seqs) = run[n]
  <2>1. CASE n = 0
    BY <1>3, <1>8, <2>1
  <2>2. CASE n # 0
    <3> DEFINE Next2(f, i) == IF i = 1 THEN seqs[i] ELSE Cat(f[i - 1], seqs[i])
               IsIt(f) == f = [i \in 1 .. n |-> Next2(f, i)]
               it == CHOOSE f : IsIt(f)
               mine == [i \in 1 .. n |-> run[i]]
    <3>1. Src!FlattenSeq(seqs) = it[n]
      BY <1>7, <2>2
    <3>2. IsIt(mine)
      <4>1. ASSUME NEW i \in 1 .. n
            PROVE  run[i] = Next2(mine, i)
        <5>1. PICK k \in 0 .. n - 1 : i = k + 1 /\ i - 1 = k
          <6>1. i - 1 \in 0 .. n - 1 /\ i = i - 1 + 1
            BY <1>1
          <6> QED
            BY <6>1
        <5>2. run[i] = Cat(run[k], seqs[i])
          BY <1>4, <5>1
        <5>3. i # 1 => mine[i - 1] = run[k]
          BY <1>1, <5>1
        <5>4. i = 1 => k = 0
          BY <5>1
        <5> HIDE DEF mine
        <5> QED
          BY <1>3, <1>6, <2>2, <5>1, <5>2, <5>3, <5>4
      <4> QED
        BY <4>1
    <3>3. IsIt(it)
      <4> HIDE DEF IsIt, mine
      <4> QED
        BY <3>2
    <3>4. \A i \in 1 .. n : it[i] = Next2(it, i)
      BY <3>3
    <3>5. \A i \in 1 .. n : run[i] = Next2(mine, i)
      BY <3>2
    <3> HIDE DEF it
    <3> DEFINE P == {k \in Nat : k = 0 \/ it[k] = run[k]}
    <3>6. 0 \in P
      OBVIOUS
    <3>7. ASSUME NEW k \in 0 .. n - 1, k \in P
          PROVE  k + 1 \in P
      <4>1. PICK i \in 1 .. n : i = k + 1 /\ i - 1 = k
        <5>1. k + 1 \in 1 .. n /\ k + 1 - 1 = k
          BY <1>1
        <5> QED
          BY <5>1
      <4>2. i # 1 => it[i - 1] = mine[i - 1]
        BY <1>1, <3>7, <4>1
      <4>3. it[i] = run[i]
        <5> HIDE DEF mine
        <5> QED
          BY <3>4, <3>5, <4>2
      <4>4. k + 1 \in Nat
        OBVIOUS
      <4> QED
        BY <4>1, <4>3, <4>4
    <3>8. n \in P
      <4>1. n \in 0 .. n
        BY <1>1
      <4> HIDE DEF P
      <4> QED
        BY <1>1, <3>6, <3>7, <4>1, Sift!Reaches
    <3> QED
      BY <2>2, <3>1, <3>8
  <2> QED
    BY <2>1, <2>2
<1>11. \A k \in 0 .. n - 1 : run[k + 1] = run[k] \o seqs[k + 1]
  BY <1>4 DEF Cat
<1> QED
  BY <1>3, <1>9, <1>10, <1>11 DEF n

LEMMA FlattenElements ==
  ASSUME NEW T, NEW seqs \in Seq(Seq(T))
  PROVE  /\ Src!FlattenSeq(seqs) \in Seq(T)
         /\ Src!ToSet(Src!FlattenSeq(seqs)) = UNION {Src!ToSet(seqs[i]) : i \in DOMAIN seqs}
<1> DEFINE n == Len(seqs)
           In(k) == UNION {Src!ToSet(seqs[i]) : i \in 1 .. k}
<1>1. n \in Nat /\ DOMAIN seqs = 1 .. n /\ \A k \in 1 .. n : seqs[k] \in Seq(T)
  OBVIOUS
<1>2. PICK run : /\ run[0] = <<>> /\ Src!FlattenSeq(seqs) = run[n]
                 /\ \A k \in 0 .. n - 1 : run[k + 1] = run[k] \o seqs[k + 1]
                 /\ \A k \in 0 .. n : run[k] \in Seq(T)
  BY FlattenRun
<1> DEFINE P == {k \in Nat : Src!ToSet(run[k]) = In(k)}
<1> HIDE DEF n
<1>3. 0 \in P
  <2>1. In(0) = {}
    OBVIOUS
  <2>2. Src!ToSet(<<>>) = {}
    BY DEF Src!ToSet
  <2> HIDE DEF In
  <2> QED
    BY <1>2, <2>1, <2>2
<1>4. ASSUME NEW k \in 0 .. n - 1, k \in P
      PROVE  k + 1 \in P
  <2>1. k \in 0 .. n /\ k + 1 \in Nat /\ k + 1 \in 1 .. n /\ k + 1 - 1 = k
    BY <1>1
  <2>2. run[k + 1] = run[k] \o seqs[k + 1] /\ run[k] \in Seq(T) /\ seqs[k + 1] \in Seq(T)
    BY <1>1, <1>2, <2>1
  <2>3. In(k + 1) = In(k) \cup Src!ToSet(seqs[k + 1])
    <3>1. 1 .. k + 1 = (1 .. k) \cup {k + 1}
      BY <2>1
    <3> QED
      BY <3>1
  <2>4. Src!ToSet(run[k + 1]) = Src!ToSet(run[k]) \cup Src!ToSet(seqs[k + 1])
    BY <2>2, ConcatElements
  <2>5. Src!ToSet(run[k]) = In(k)
    BY <1>4
  <2> HIDE DEF In
  <2> QED
    BY <2>1, <2>3, <2>4, <2>5
<1>5. n \in 0 .. n
  BY <1>1
<1>6. n \in P
  <2>1. \A k \in 0 .. n : k \in P
    <3> HIDE DEF P
    <3> QED
      BY <1>1, <1>3, <1>4, Sift!Reaches
  <2> HIDE DEF P
  <2> QED
    BY <1>5, <2>1
<1> QED
  BY <1>1, <1>2, <1>5, <1>6

\* Of sequences of which one is in S and the others have nothing in S, that one is left.
LEMMA AmongFlattened ==
  ASSUME NEW T, NEW seqs \in Seq(Seq(T)), NEW S, NEW it \in Nat,
         \A i \in DOMAIN seqs : \A x \in DOMAIN seqs[i] : seqs[i][x] \in S <=> i = it
  PROVE  Src!Among(Src!FlattenSeq(seqs), S) = IF it \in DOMAIN seqs THEN seqs[it] ELSE <<>>
<1> DEFINE n == Len(seqs)
           Left(k) == IF it \in 1 .. k THEN seqs[it] ELSE <<>>
<1>1. n \in Nat /\ DOMAIN seqs = 1 .. n /\ \A k \in 1 .. n : seqs[k] \in Seq(T)
  OBVIOUS
<1>2. PICK run : /\ run[0] = <<>> /\ Src!FlattenSeq(seqs) = run[n]
                 /\ \A k \in 0 .. n - 1 : run[k + 1] = run[k] \o seqs[k + 1]
                 /\ \A k \in 0 .. n : run[k] \in Seq(T)
  BY FlattenRun
<1> DEFINE P == {k \in Nat : Src!Among(run[k], S) = Left(k)}
<1> HIDE DEF n
<1>3. 0 \in P
  <2>1. Left(0) = <<>>
    OBVIOUS
  <2>2. Src!Among(run[0], S) = <<>>
    <3>1. <<>> \in Seq(T) /\ DOMAIN <<>> = {}
      OBVIOUS
    <3>2. run[0] \in Seq(T) /\ DOMAIN run[0] = {}
      BY <1>2, <3>1
    <3> QED
      BY <3>2, AmongNone
  <2> HIDE DEF Left
  <2> QED
    BY <2>1, <2>2
<1>4. ASSUME NEW k \in 0 .. n - 1, k \in P
      PROVE  k + 1 \in P
  <2>1. k \in 0 .. n /\ k + 1 \in Nat /\ k + 1 \in 1 .. n /\ k + 1 - 1 = k
    BY <1>1
  <2> DEFINE next == seqs[k + 1]
  <2>2. run[k + 1] = run[k] \o next /\ run[k] \in Seq(T) /\ next \in Seq(T)
    BY <1>1, <1>2, <2>1
  <2>3. Src!Among(run[k], S) = Left(k)
    BY <1>4
  <2>4. \A x \in DOMAIN next : next[x] \in S <=> k + 1 = it
    BY <1>1, <2>1
  <2>5. k + 1 = it => Left(k + 1) = next /\ Left(k) = <<>>
    BY <2>1
  <2>6. k + 1 # it => Left(k + 1) = Left(k)
    BY <2>1
  <2> HIDE DEF Left, next
  <2>7. Src!Among(run[k + 1], S) = Left(k) \o Src!Among(next, S)
    <3>1. Src!Among(run[k] \o next, S) = Src!Among(run[k], S) \o Src!Among(next, S)
      <4>1. \A a, b \in Seq(T) : Src!Among(a \o b, S) = Src!Among(a, S) \o Src!Among(b, S)
        BY AmongConcat
      <4>2. run[k] \in Seq(T) /\ next \in Seq(T)
        BY <2>2
      <4> QED
        BY <4>1, <4>2, Zenon
    <3> QED
      BY <2>2, <2>3, <3>1, Zenon
  <2>8. CASE k + 1 = it
    <3>1. Src!Among(next, S) = next
      BY <2>2, <2>4, <2>8, AmongAll
    <3>2. <<>> \o next = next
      BY <2>2
    <3> QED
      BY <2>1, <2>5, <2>7, <2>8, <3>1, <3>2
  <2>9. CASE k + 1 # it
    <3>1. Src!Among(next, S) = <<>>
      BY <2>2, <2>4, <2>9, AmongNone
    <3>2. Left(k) \in Seq(T)
      BY <2>2, <2>3, AmongElements
    <3>3. Left(k) \o <<>> = Left(k)
      BY <3>2
    <3> QED
      BY <2>1, <2>6, <2>7, <2>9, <3>1, <3>3
  <2> QED
    BY <2>8, <2>9
<1>5. n \in 0 .. n
  BY <1>1
<1>6. n \in P
  <2>1. \A k \in 0 .. n : k \in P
    <3> HIDE DEF P
    <3> QED
      BY <1>1, <1>3, <1>4, Sift!Reaches
  <2> HIDE DEF P
  <2> QED
    BY <1>5, <2>1
<1> QED
  BY <1>1, <1>2, <1>6

LEMMA SeqOfElements ==
  ASSUME NEW U, NEW s \in Seq(U), NEW T, \A x \in DOMAIN s : s[x] \in T
  PROVE  s \in Seq(T)
<1>1. DOMAIN s = 1 .. Len(s) /\ Len(s) \in Nat /\ s = [x \in DOMAIN s |-> s[x]]
  OBVIOUS
<1> QED
  BY <1>1

\* Of all sequences at once.
LEMMA AmongConcats ==
  ASSUME NEW T, NEW S
  PROVE  \A a, b \in Seq(T) : Src!Among(a \o b, S) = Src!Among(a, S) \o Src!Among(b, S)
BY AmongConcat

\* What is left of what is left.
LEMMA AmongAgain ==
  ASSUME NEW T, NEW seq \in Seq(T), NEW S, NEW R
  PROVE  Src!Among(Src!Among(seq, S), R) = Src!Among(seq, S \cap R)
<1> DEFINE n == Len(seq)
<1>1. PICK run : /\ run[0] = <<>> /\ Src!Among(seq, S) = run[n]
                 /\ \A k \in 1 .. n :
                      run[k] = IF seq[k] \in S THEN Append(run[k - 1], seq[k]) ELSE run[k - 1]
  BY AmongRun
<1>2. PICK both : /\ both[0] = <<>> /\ Src!Among(seq, S \cap R) = both[n]
                  /\ \A k \in 1 .. n : both[k] = IF seq[k] \in S \cap R
                                                 THEN Append(both[k - 1], seq[k]) ELSE both[k - 1]
  BY AmongRun
<1> DEFINE P == {k \in Nat : run[k] \in Seq(T) /\ Src!Among(run[k], R) = both[k]}
<1>3. n \in Nat /\ \A k \in 1 .. n : seq[k] \in T
  OBVIOUS
<1> HIDE DEF n
<1>4. 0 \in P
  <2>1. <<>> \in Seq(T) /\ DOMAIN <<>> = {}
    OBVIOUS
  <2>2. run[0] \in Seq(T) /\ DOMAIN run[0] = {}
    BY <1>1, <2>1
  <2>3. Src!Among(run[0], R) = <<>>
    BY <2>2, AmongNone
  <2> QED
    BY <1>2, <2>2, <2>3
<1>5. ASSUME NEW k \in 0 .. n - 1, k \in P
      PROVE  k + 1 \in P
  <2> DEFINE x == seq[k + 1]
  <2>1. k + 1 \in 1 .. n /\ k + 1 - 1 = k /\ k + 1 \in Nat /\ x \in T
    BY <1>3
  <2>2. /\ run[k + 1] = IF x \in S THEN Append(run[k], x) ELSE run[k]
        /\ both[k + 1] = IF x \in S \cap R THEN Append(both[k], x) ELSE both[k]
    BY <1>1, <1>2, <2>1
  <2>3. run[k] \in Seq(T) /\ Src!Among(run[k], R) = both[k]
    BY <1>5
  <2>4. both[k] \in Seq(T)
    BY <2>3, AmongElements
  <2> HIDE DEF x
  <2>5. <<x>> \in Seq(T) /\ DOMAIN <<x>> = {1} /\ <<x>>[1] = x
    BY <2>1
  <2>6. Src!Among(<<x>>, R) = IF x \in R THEN <<x>> ELSE <<>>
    <3>1. x \in R => Src!Among(<<x>>, R) = <<x>>
      BY <2>5, AmongAll
    <3>2. x \notin R => Src!Among(<<x>>, R) = <<>>
      BY <2>5, AmongNone
    <3> QED
      BY <3>1, <3>2
  <2>7. Append(run[k], x) = run[k] \o <<x>> /\ Append(run[k], x) \in Seq(T)
    BY <2>1, <2>3
  <2>8. Src!Among(Append(run[k], x), R) = both[k] \o Src!Among(<<x>>, R)
    <3>1. Src!Among(run[k] \o <<x>>, R) = Src!Among(run[k], R) \o Src!Among(<<x>>, R)
      BY <2>3, <2>5, AmongConcats, Zenon
    <3> QED
      BY <2>3, <2>7, <3>1
  <2>9. both[k] \o <<x>> = Append(both[k], x) /\ both[k] \o <<>> = both[k]
    BY <2>1, <2>4
  <2>10. Src!Among(run[k + 1], R) = both[k + 1] /\ run[k + 1] \in Seq(T)
    <3>1. CASE x \in S /\ x \in R
      BY <2>2, <2>6, <2>7, <2>8, <2>9, <3>1
    <3>2. CASE x \in S /\ x \notin R
      BY <2>2, <2>6, <2>7, <2>8, <2>9, <3>2
    <3>3. CASE x \notin S
      BY <2>2, <2>3, <3>3
    <3> QED
      BY <3>1, <3>2, <3>3
  <2> QED
    BY <2>1, <2>10
<1>6. n \in P
  <2>1. n \in 0 .. n
    BY <1>3
  <2>2. \A k \in 0 .. n : k \in P
    <3> HIDE DEF P
    <3> QED
      BY <1>3, <1>4, <1>5, Sift!Reaches
  <2> HIDE DEF P
  <2> QED
    BY <2>1, <2>2
<1> QED
  BY <1>1, <1>2, <1>6

\* The first of what is left is the first that is left of the first sequence that has any.
LEMMA FirstAmong ==
  ASSUME NEW T, NEW seqs \in Seq(Seq(T)), NEW S, NEW it \in DOMAIN seqs,
         \A i \in 1 .. it - 1 : \A x \in DOMAIN seqs[i] : seqs[i][x] \notin S,
         \E x \in DOMAIN seqs[it] : seqs[it][x] \in S
  PROVE  LET left == Src!Among(Src!FlattenSeq(seqs), S)
         IN left # <<>> /\ left[1] \in Src!ToSet(seqs[it]) \cap S
<1> DEFINE n == Len(seqs)
           Starts(left) == left # <<>> /\ left[1] \in Src!ToSet(seqs[it]) \cap S
           Good(left, k) == IF k < it THEN left = <<>> ELSE left \in Seq(T) /\ Starts(left)
<1>1. n \in Nat /\ DOMAIN seqs = 1 .. n /\ it \in 1 .. n /\ \A k \in 1 .. n : seqs[k] \in Seq(T)
  OBVIOUS
<1>2. PICK run : /\ run[0] = <<>> /\ Src!FlattenSeq(seqs) = run[n]
                 /\ \A k \in 0 .. n - 1 : run[k + 1] = run[k] \o seqs[k + 1]
                 /\ \A k \in 0 .. n : run[k] \in Seq(T)
  BY FlattenRun
<1> DEFINE P == {k \in Nat : Good(Src!Among(run[k], S), k)}
<1> HIDE DEF n
<1>3. 0 \in P
  <2>1. <<>> \in Seq(T) /\ DOMAIN <<>> = {}
    OBVIOUS
  <2>2. Src!Among(run[0], S) = <<>>
    BY <1>2, <2>1, AmongNone
  <2> QED
    BY <1>1, <2>2
<1>4. ASSUME NEW k \in 0 .. n - 1, k \in P
      PROVE  k + 1 \in P
  <2> DEFINE next == seqs[k + 1]
             left == Src!Among(run[k], S)
             more == Src!Among(next, S)
  <2>1. k \in 0 .. n /\ k + 1 \in Nat /\ k + 1 \in 1 .. n /\ k \in Nat
    BY <1>1
  <2>2. run[k + 1] = run[k] \o next /\ run[k] \in Seq(T) /\ next \in Seq(T)
    BY <1>1, <1>2, <2>1
  <2>3. left \in Seq(T) /\ more \in Seq(T) /\ Src!ToSet(more) = Src!ToSet(next) \cap S
    BY <2>2, AmongElements
  <2>4. Src!Among(run[k + 1], S) = left \o more
    <3>1. Src!Among(run[k] \o next, S) = left \o more
      <4> HIDE DEF next
      <4> QED
        BY <2>2, AmongConcats, Zenon
    <3> QED
      BY <2>2, <3>1, Zenon
  <2>5. Good(left, k)
    BY <1>4
  <2>6. k + 1 < it => more = <<>>
    <3>1. k + 1 < it => k + 1 \in 1 .. it - 1
      BY <1>1, <2>1
    <3>2. k + 1 < it => \A x \in DOMAIN next : next[x] \notin S
      BY <3>1
    <3> HIDE DEF next
    <3> QED
      BY <2>2, <3>2, AmongNone
  <2>7. k + 1 = it => more # <<>> /\ more[1] \in Src!ToSet(next) \cap S
    <3>1. k + 1 = it => \E r : r \in Src!ToSet(next) \cap S
      BY DEF Src!ToSet
    <3>2. (\E r : r \in Src!ToSet(more)) => more # <<>>
      BY DEF Src!ToSet
    <3>3. more # <<>> => more[1] \in Src!ToSet(more)
      BY <2>3 DEF Src!ToSet
    <3> HIDE DEF more, next
    <3> QED
      BY <2>3, <3>1, <3>2, <3>3
  <2> HIDE DEF left, more
  <2>8. <<>> \o more = more /\ left \o <<>> = left /\ left \o more \in Seq(T)
    BY <2>3
  <2>9. left # <<>> => left \o more # <<>> /\ (left \o more)[1] = left[1]
    BY <2>3
  <2>10. CASE k + 1 < it
    BY <2>1, <2>4, <2>5, <2>6, <2>8, <2>10, <1>1
  <2>11. CASE k + 1 = it
    <3>1. k < it /\ ~(k + 1 < it)
      BY <1>1, <2>1, <2>11
    <3>2. Src!Among(run[k + 1], S) = more
      BY <2>4, <2>5, <2>8, <3>1
    <3>3. Starts(more)
      BY <2>7, <2>11
    <3> HIDE DEF Starts
    <3> QED
      BY <2>1, <2>3, <3>1, <3>2, <3>3
  <2>12. CASE k + 1 > it
    <3>1. ~(k < it) /\ ~(k + 1 < it)
      BY <1>1, <2>1, <2>12
    <3> QED
      BY <2>1, <2>4, <2>5, <2>8, <2>9, <3>1
  <2> QED
    BY <1>1, <2>1, <2>10, <2>11, <2>12
<1>5. n \in P
  <2>1. n \in 0 .. n
    BY <1>1
  <2>2. \A k \in 0 .. n : k \in P
    <3> HIDE DEF P
    <3> QED
      BY <1>1, <1>3, <1>4, Sift!Reaches
  <2> HIDE DEF P
  <2> QED
    BY <2>1, <2>2
<1>6. ~(n < it)
  BY <1>1
<1> QED
  BY <1>2, <1>5, <1>6

\* A set of numbers has a least one.
LEMMA Least ==
  ASSUME NEW S \in SUBSET Nat, S # {}
  PROVE  \E n \in S : \A m \in S : n <= m
<1>1. PICK n \in S : \A m \in S : ~ (<<m, n>> \in OpToRel(<, Nat))
  BY NatLessThanWellFounded, WFMin
<1>2. \A m \in S : ~(m < n)
  BY <1>1 DEF OpToRel
<1> QED
  BY <1>2

LEMMA ToSets == \A s : ToSet(s) = Src!ToSet(s)
BY DEF ToSet, Src!ToSet

-----------------------------------------------------------------------------
(* The order of keys, and the sort by it.                                  *)

\* The keys of a set of records.
KeysOf(records) == {Src!KeyOf(s.id) : s \in records}

\* What it is that some keys are ordered.
LEMMA OrderIs ==
  ASSUME NEW S, IsOrder(S)
  PROVE  /\ \A x \in S : ~KeyBefore(x, x)
         /\ \A x, y, z \in S : KeyBefore(x, y) /\ KeyBefore(y, z) => KeyBefore(x, z)
         /\ \A x, y \in S : x # y => KeyBefore(x, y) \/ KeyBefore(y, x)
<1> DEFINE R == [p \in S \X S |-> KeyBefore(p[1], p[2])]
<1>1. IsStrictlyTotallyOrdered(R, S)
  BY DEF IsOrder, IsStrictlyTotallyOrderedUnder
<1>2. \A x, y \in S : R[x, y] <=> KeyBefore(x, y)
  OBVIOUS
<1> HIDE DEF R
<1> QED
  BY <1>1, <1>2, Zenon DEF IsStrictlyTotallyOrdered, IsStrictlyPartiallyOrdered, IsIrreflexive, IsTransitive

LEMMA OrderOfFewer ==
  ASSUME NEW S, IsOrder(S), NEW U \in SUBSET S
  PROVE  IsOrder(U)
<1> DEFINE Q == [p \in U \X U |-> KeyBefore(p[1], p[2])]
<1>1. /\ \A x \in U : ~KeyBefore(x, x)
      /\ \A x, y, z \in U : KeyBefore(x, y) /\ KeyBefore(y, z) => KeyBefore(x, z)
      /\ \A x, y \in U : x # y => KeyBefore(x, y) \/ KeyBefore(y, x)
  BY OrderIs
<1>2. \A x, y \in U : Q[x, y] <=> KeyBefore(x, y)
  OBVIOUS
<1> HIDE DEF Q
<1>3. IsIrreflexive(Q, U)
  BY <1>1, <1>2, Zenon DEF IsIrreflexive
<1>4. IsAntiSymmetric(Q, U)
  BY <1>1, <1>2, Zenon DEF IsAntiSymmetric
<1>5. IsTransitive(Q, U)
  BY <1>1, <1>2, Zenon DEF IsTransitive
<1>6. \A x, y \in U : x # y => Q[x, y] \/ Q[y, x]
  BY <1>1, <1>2, Zenon
<1>7. IsStrictlyTotallyOrdered(Q, U)
  BY <1>3, <1>4, <1>5, <1>6, Zenon DEF IsStrictlyTotallyOrdered, IsStrictlyPartiallyOrdered
<1> QED
  BY <1>7 DEF IsOrder, IsStrictlyTotallyOrderedUnder, Q

\* How many keys stand before one, among some.
Earlier(S, k) == {l \in S : KeyBefore(l, k)}

\* More keys stand before the later of two, and none counts all.
LEMMA EarlierGrows ==
  ASSUME NEW S, IsFiniteSet(S), IsOrder(S)
  PROVE  /\ \A k \in S : Cardinality(Earlier(S, k)) \in 0 .. Cardinality(S) - 1
         /\ \A k, l \in S : KeyBefore(k, l) =>
              Cardinality(Earlier(S, k)) < Cardinality(Earlier(S, l))
<1>1. /\ \A x \in S : ~KeyBefore(x, x)
      /\ \A x, y, z \in S : KeyBefore(x, y) /\ KeyBefore(y, z) => KeyBefore(x, z)
  BY OrderIs
<1>2. Cardinality(S) \in Nat
  BY FS_CardinalityType
<1>3. \A k \in S : /\ Earlier(S, k) \in SUBSET S /\ IsFiniteSet(Earlier(S, k))
                   /\ Cardinality(Earlier(S, k)) \in Nat
  <2> SUFFICES ASSUME NEW k \in S
               PROVE  /\ Earlier(S, k) \in SUBSET S /\ IsFiniteSet(Earlier(S, k))
                      /\ Cardinality(Earlier(S, k)) \in Nat
    OBVIOUS
  <2>1. Earlier(S, k) \in SUBSET S
    BY DEF Earlier
  <2>2. IsFiniteSet(Earlier(S, k))
    BY <2>1, FS_Subset
  <2> QED
    BY <2>1, <2>2, FS_CardinalityType
<1>4. ASSUME NEW k \in S
      PROVE  Cardinality(Earlier(S, k)) \in 0 .. Cardinality(S) - 1
  <2>1. k \notin Earlier(S, k)
    BY <1>1 DEF Earlier
  <2>2. Cardinality(Earlier(S, k)) <= Cardinality(S) /\ Cardinality(Earlier(S, k)) # Cardinality(S)
    BY <1>3, <2>1, FS_Subset
  <2> QED
    BY <1>2, <1>3, <2>2
<1>5. ASSUME NEW k \in S, NEW l \in S, KeyBefore(k, l)
      PROVE  Cardinality(Earlier(S, k)) < Cardinality(Earlier(S, l))
  <2>1. k \in Earlier(S, l) /\ k \notin Earlier(S, k)
    BY <1>1, <1>5 DEF Earlier
  <2>2. Earlier(S, k) \in SUBSET Earlier(S, l)
    BY <1>1, <1>5 DEF Earlier
  <2>3. /\ Cardinality(Earlier(S, k)) <= Cardinality(Earlier(S, l))
        /\ Cardinality(Earlier(S, k)) # Cardinality(Earlier(S, l))
    BY <1>3, <2>1, <2>2, FS_Subset
  <2> QED
    BY <1>3, <2>3
<1> QED
  BY <1>4, <1>5

\* Every place has its key: as many places as keys, and no two keys of one place.
LEMMA EveryPlaceIsTaken ==
  ASSUME NEW S, IsFiniteSet(S), IsOrder(S), NEW n \in 1 .. Cardinality(S)
  PROVE  \E k \in S : Cardinality(Earlier(S, k)) = n - 1
<1> DEFINE size == Cardinality(S)
           places == 0 .. size - 1
           f == [k \in S |-> Cardinality(Earlier(S, k))]
<1>1. size \in Nat
  BY FS_CardinalityType
<1>2. \A x, y \in S : x # y => KeyBefore(x, y) \/ KeyBefore(y, x)
  BY OrderIs
<1>3. \A k \in S : f[k] \in places
  BY EarlierGrows
<1>4. \A k, l \in S : k # l => f[k] # f[l]
  <2>1. \A k, l \in S : KeyBefore(k, l) => Cardinality(Earlier(S, k)) < Cardinality(Earlier(S, l))
    BY EarlierGrows
  <2>2. \A k \in S : Cardinality(Earlier(S, k)) \in 0 .. size - 1
    BY EarlierGrows
  <2> HIDE DEF size
  <2> QED
    BY <1>2, <2>1, <2>2
<1>5. IsFiniteSet(places) /\ Cardinality(places) = size
  <2>1. IsFiniteSet(0 .. size - 1) /\ Cardinality(0 .. size - 1) = size
    <3>1. /\ 0 \in Int /\ size - 1 \in Int
          /\ (IF 0 > size - 1 THEN 0 ELSE size - 1 - 0 + 1) = size
      BY <1>1
    <3> HIDE DEF size
    <3> QED
      BY <3>1, FS_Interval
  <2> QED
    BY <2>1
<1>6. f \in [S -> places]
  BY <1>3
<1> HIDE DEF f, places, size
<1>7. f \in Injection(S, places)
  BY <1>4, <1>6 DEF Injection, IsInjective
<1>8. f \in Surjection(S, places)
  BY <1>5, <1>7, FS_Injection DEF size
<1>9. n - 1 \in places
  BY <1>1 DEF places, size
<1>10. \E k \in S : f[k] = n - 1
  BY <1>8, <1>9 DEF Surjection
<1> QED
  BY <1>10 DEF f

\* The order that `Ranked` gives: every key once, and each before those that come after it.
IsRanking(S, order) ==
  /\ order \in Seq(S)
  /\ \A k \in S : \E n \in DOMAIN order : order[n] = k
  /\ \A m, n \in DOMAIN order : m < n => KeyBefore(order[m], order[n])
  /\ \A m, n \in DOMAIN order : order[m] = order[n] => m = n

LEMMA Sizes == \A s : Src!Cardinality(s) = Cardinality(s)
BY DEF Cardinality, Src!Cardinality

LEMMA RankedIs ==
  ASSUME NEW S, IsFiniteSet(S), IsOrder(S)
  PROVE  IsRanking(S, Src!Ranked(S))
<1> DEFINE size == Src!Cardinality(S)
           order == Src!Ranked(S)
           place == [k \in S |-> Src!Cardinality({l \in S : KeyBefore(l, k)})]
<1>1. size \in Nat /\ size = Cardinality(S)
  BY FS_CardinalityType, Sizes
<1>2. /\ \A k \in S : place[k] \in 0 .. size - 1
      /\ \A k, l \in S : KeyBefore(k, l) => place[k] < place[l]
  <2>1. \A k \in S : place[k] = Cardinality(Earlier(S, k))
    BY Sizes DEF Earlier
  <2> HIDE DEF place, size
  <2> QED
    BY <1>1, <2>1, EarlierGrows
<1>3. \A n \in 1 .. size : \E k \in S : place[k] = n - 1
  <2>1. \A k \in S : place[k] = Cardinality(Earlier(S, k))
    BY Sizes DEF Earlier
  <2> HIDE DEF place, size
  <2> QED
    BY <1>1, <2>1, EveryPlaceIsTaken
<1>4. \A x, y \in S : x # y => KeyBefore(x, y) \/ KeyBefore(y, x)
  BY OrderIs
<1>5. order = [n \in 1 .. size |-> CHOOSE k \in S : place[k] = n - 1]
  BY DEF Src!Ranked
<1> HIDE DEF size, order, place
<1>6. DOMAIN order = 1 .. size /\ \A n \in 1 .. size : order[n] \in S /\ place[order[n]] = n - 1
  BY <1>3, <1>5
<1>7. order \in Seq(S)
  <2>1. order \in [1 .. size -> S]
    BY <1>5, <1>6
  <2> QED
    BY <1>1, <2>1
<1>8. ASSUME NEW k \in S PROVE \E n \in DOMAIN order : order[n] = k
  <2>1. PICK n \in 1 .. size : place[k] = n - 1
    <3>1. place[k] + 1 \in 1 .. size /\ place[k] = (place[k] + 1) - 1
      BY <1>1, <1>2
    <3> QED
      BY <3>1
  <2>2. order[n] \in S /\ place[order[n]] = place[k]
    BY <1>6, <2>1
  <2>3. order[n] = k
    BY <1>2, <1>4, <2>2
  <2> QED
    BY <1>6, <2>3
<1>9. ASSUME NEW m \in DOMAIN order, NEW n \in DOMAIN order, m < n
      PROVE  KeyBefore(order[m], order[n])
  <2>1. /\ order[m] \in S /\ order[n] \in S /\ m \in Nat /\ n \in Nat
        /\ place[order[m]] = m - 1 /\ place[order[n]] = n - 1
    BY <1>1, <1>6
  <2>2. ~KeyBefore(order[n], order[m]) /\ order[m] # order[n]
    BY <1>2, <1>9, <2>1
  <2> QED
    BY <1>4, <2>1, <2>2
<1>10. ASSUME NEW m \in DOMAIN order, NEW n \in DOMAIN order, order[m] = order[n]
       PROVE  m = n
  <2>1. place[order[m]] = m - 1 /\ place[order[n]] = n - 1 /\ m \in Nat /\ n \in Nat
    BY <1>1, <1>6
  <2> QED
    BY <1>10, <2>1
<1>11. IsRanking(S, order)
  BY <1>7, <1>8, <1>9, <1>10 DEF IsRanking
<1> QED
  BY <1>11 DEF order
LEMMA KeysAreFinite ==
  ASSUME NEW T, NEW table \in Seq(T)
  PROVE  IsFiniteSet(KeysOf(Src!ToSet(table)))
<1> DEFINE n == Len(table)
           keys == KeysOf(Src!ToSet(table))
           f == [i \in 1 .. n |-> Src!KeyOf(table[i].id)]
<1>1. n \in Nat /\ DOMAIN table = 1 .. n
  OBVIOUS
<1>2. f \in [1 .. n -> keys] /\ \A k \in keys : \E i \in 1 .. n : f[i] = k
  BY <1>1 DEF KeysOf, Src!ToSet
<1> HIDE DEF f, n, keys
<1>3. f \in Surjection(1 .. n, keys)
  BY <1>2 DEF Surjection
<1>4. IsFiniteSet(1 .. n)
  BY <1>1, FS_Interval
<1>5. IsFiniteSet(keys)
  BY <1>3, <1>4, FS_Surjection
<1> QED
  BY <1>5 DEF keys

\* What a lookup under a key finds.
LEMMA UnderIs ==
  ASSUME NEW T, NEW table \in Seq(T), NEW key
  PROVE  /\ Src!Under(table, key) \in Seq(T)
         /\ Src!ToSet(Src!Under(table, key)) = {s \in Src!ToSet(table) : Src!KeyOf(s.id) = key}
<1> DEFINE S == {s \in Src!ToSet(table) : Src!KeyOf(s.id) = key}
<1>1. Src!Under(table, key) = Src!Among(table, S)
  BY DEF Src!Under
<1>2. S = Src!ToSet(table) \cap S
  OBVIOUS
<1> HIDE DEF S
<1>3. Src!Among(table, S) \in Seq(T) /\ Src!ToSet(Src!Among(table, S)) = S
  BY <1>2, AmongElements
<1> QED
  BY <1>1, <1>3 DEF S

\* The records of a table by their keys, in the order of the keys.
Groups(table, order) == [n \in DOMAIN order |-> Src!Under(table, order[n])]

LEMMA SortIs ==
  ASSUME NEW T, NEW table \in Seq(T), IsOrder(KeysOf(Src!ToSet(table)))
  PROVE  \E order : /\ IsRanking(KeysOf(Src!ToSet(table)), order)
                    /\ Groups(table, order) \in Seq(Seq(T))
                    /\ Src!SortedByKey(table) = Src!FlattenSeq(Groups(table, order))
<1> DEFINE keys == KeysOf(Src!ToSet(table))
           order == Src!Ranked(keys)
<1>1. IsRanking(keys, order)
  BY KeysAreFinite, RankedIs
<1>2. Src!SortedByKey(table) = Src!FlattenSeq(Groups(table, order))
  BY DEF Src!SortedByKey, Groups, KeysOf
<1> HIDE DEF order
<1>3. Groups(table, order) \in Seq(Seq(T))
  <2>1. DOMAIN order = 1 .. Len(order) /\ Len(order) \in Nat
    BY <1>1 DEF IsRanking
  <2>2. \A n \in DOMAIN order : Src!Under(table, order[n]) \in Seq(T)
    BY UnderIs
  <2> QED
    BY <2>1, <2>2 DEF Groups
<1> QED
  BY <1>1, <1>2, <1>3

\* The sort keeps the records.
LEMMA SortedElements ==
  ASSUME NEW T, NEW table \in Seq(T), IsOrder(KeysOf(Src!ToSet(table)))
  PROVE  /\ Src!SortedByKey(table) \in Seq(T)
         /\ Src!ToSet(Src!SortedByKey(table)) = Src!ToSet(table)
<1> DEFINE all == Src!ToSet(table)
<1>1. PICK order : /\ IsRanking(KeysOf(all), order)
                   /\ Groups(table, order) \in Seq(Seq(T))
                   /\ Src!SortedByKey(table) = Src!FlattenSeq(Groups(table, order))
  BY SortIs
<1> DEFINE groups == Groups(table, order)
<1>2. DOMAIN groups = DOMAIN order
  BY DEF Groups
<1>3. \A n \in DOMAIN order : Src!ToSet(groups[n]) = {s \in all : Src!KeyOf(s.id) = order[n]}
  BY UnderIs DEF Groups
<1> HIDE DEF groups, all
<1>4. /\ Src!FlattenSeq(groups) \in Seq(T)
      /\ Src!ToSet(Src!FlattenSeq(groups)) = UNION {Src!ToSet(groups[n]) : n \in DOMAIN groups}
  BY <1>1, FlattenElements DEF groups
<1>5. \A s \in all : \E n \in DOMAIN order : Src!KeyOf(s.id) = order[n]
  <2>1. \A s \in all : Src!KeyOf(s.id) \in KeysOf(all)
    BY DEF KeysOf
  <2> QED
    BY <1>1, <2>1 DEF IsRanking
<1>6. UNION {Src!ToSet(groups[n]) : n \in DOMAIN groups} = all
  <2>1. ASSUME NEW s \in all PROVE s \in UNION {Src!ToSet(groups[n]) : n \in DOMAIN groups}
    <3>1. PICK n \in DOMAIN order : Src!KeyOf(s.id) = order[n]
      BY <1>5
    <3>2. s \in Src!ToSet(groups[n]) /\ n \in DOMAIN groups
      BY <1>2, <1>3, <3>1
    <3> QED
      BY <3>2
  <2>2. \A n \in DOMAIN groups : Src!ToSet(groups[n]) \subseteq all
    BY <1>2, <1>3
  <2> QED
    BY <2>1, <2>2
<1> QED
  BY <1>1, <1>4, <1>6 DEF groups, all

\* The sort is stable: the records under a key stay in their order.
LEMMA SortedUnder ==
  ASSUME NEW T, NEW table \in Seq(T), IsOrder(KeysOf(Src!ToSet(table))), NEW key
  PROVE  Src!Under(Src!SortedByKey(table), key) = Src!Under(table, key)
<1> DEFINE all == Src!ToSet(table)
           S == {s \in all : Src!KeyOf(s.id) = key}
<1>1. PICK order : /\ IsRanking(KeysOf(all), order)
                   /\ Groups(table, order) \in Seq(Seq(T))
                   /\ Src!SortedByKey(table) = Src!FlattenSeq(Groups(table, order))
  BY SortIs
<1> DEFINE groups == Groups(table, order)
<1>2. /\ Src!Under(table, key) = Src!Among(table, S)
      /\ Src!Under(Src!SortedByKey(table), key) = Src!Among(Src!SortedByKey(table), S)
  <2>1. Src!ToSet(Src!SortedByKey(table)) = Src!ToSet(table)
    BY SortedElements
  <2> QED
    BY <2>1 DEF Src!Under
<1>3. DOMAIN groups = DOMAIN order /\ DOMAIN order \subseteq Nat \ {0}
  BY <1>1 DEF Groups, IsRanking
<1>4. ASSUME NEW n \in DOMAIN groups, NEW x \in DOMAIN groups[n]
      PROVE  groups[n][x] \in all /\ Src!KeyOf(groups[n][x].id) = order[n]
  <2>1. Src!ToSet(groups[n]) = {s \in all : Src!KeyOf(s.id) = order[n]}
    BY UnderIs DEF Groups
  <2>2. groups[n][x] \in Src!ToSet(groups[n])
    BY DEF Src!ToSet
  <2> HIDE DEF groups, all
  <2> QED
    BY <2>1, <2>2
<1>5. PICK it \in Nat : /\ \A n \in DOMAIN order : order[n] = key <=> n = it
                        /\ it \notin DOMAIN order => key \notin KeysOf(all)
  <2> HIDE DEF groups, all
  <2>1. CASE key \in KeysOf(all)
    <3>1. PICK n \in DOMAIN order : order[n] = key
      BY <1>1, <2>1 DEF IsRanking
    <3> QED
      BY <1>1, <1>3, <3>1 DEF IsRanking
  <2>2. CASE key \notin KeysOf(all)
    <3>1. \A n \in DOMAIN order : order[n] \in KeysOf(all) /\ n # 0
      BY <1>1, <1>3 DEF IsRanking
    <3> QED
      BY <2>2, <3>1
  <2> QED
    BY <2>1, <2>2
<1>6. Src!Among(Src!FlattenSeq(groups), S) = IF it \in DOMAIN groups THEN groups[it] ELSE <<>>
  <2>1. \A n \in DOMAIN groups : \A x \in DOMAIN groups[n] : groups[n][x] \in S <=> n = it
    <3>1. \A r : r \in S <=> r \in all /\ Src!KeyOf(r.id) = key
      OBVIOUS
    <3> HIDE DEF groups, all, S
    <3> QED
      BY <1>3, <1>4, <1>5, <3>1
  <2>2. groups \in Seq(Seq(T))
    BY <1>1
  <2> HIDE DEF groups, S
  <2> QED
    BY <2>1, <2>2, AmongFlattened
<1>7. it \in DOMAIN groups => groups[it] = Src!Under(table, key)
  BY <1>3, <1>5 DEF Groups
<1>8. it \notin DOMAIN groups => Src!Under(table, key) = <<>>
  <2> SUFFICES ASSUME it \notin DOMAIN groups PROVE Src!Among(table, S) = <<>>
    BY <1>2
  <2>1. \A i \in DOMAIN table : table[i] \notin S
    BY <1>3, <1>5 DEF KeysOf, Src!ToSet
  <2> HIDE DEF S
  <2> QED
    BY <2>1, AmongNone
<1> HIDE DEF groups
<1> QED
  BY <1>1, <1>2, <1>6, <1>7, <1>8 DEF groups

\* Tables with the same records under every key are sorted alike.
LEMMA SortedAlike ==
  ASSUME NEW one, NEW two, KeysOf(Src!ToSet(one)) = KeysOf(Src!ToSet(two)),
         \A key : Src!Under(one, key) = Src!Under(two, key)
  PROVE  Src!SortedByKey(one) = Src!SortedByKey(two)
<1> DEFINE order == Src!Ranked(KeysOf(Src!ToSet(one)))
<1>1. /\ Src!SortedByKey(one) = Src!FlattenSeq(Groups(one, order))
      /\ Src!SortedByKey(two) = Src!FlattenSeq(Groups(two, order))
  BY DEF Src!SortedByKey, Groups, KeysOf
<1> HIDE DEF order
<1>2. Groups(one, order) = Groups(two, order)
  BY DEF Groups
<1> QED
  BY <1>1, <1>2

\* The first of some records of a sorted table has the key that stands first.
IsFirstByKey(left, R) ==
  /\ left # <<>> /\ left[1] \in R
  /\ \A r \in R : \/ Src!KeyOf(left[1].id) = Src!KeyOf(r.id)
                  \/ KeyBefore(Src!KeyOf(left[1].id), Src!KeyOf(r.id))

LEMMA FirstByKey ==
  ASSUME NEW T, NEW table \in Seq(T), IsOrder(KeysOf(Src!ToSet(table))),
         NEW R \in SUBSET Src!ToSet(table), R # {}
  PROVE  IsFirstByKey(Src!Among(Src!SortedByKey(table), R), R)
<1> DEFINE all == Src!ToSet(table)
           left == Src!Among(Src!SortedByKey(table), R)
<1>1. PICK order : /\ IsRanking(KeysOf(all), order)
                   /\ Groups(table, order) \in Seq(Seq(T))
                   /\ Src!SortedByKey(table) = Src!FlattenSeq(Groups(table, order))
  BY SortIs
<1> DEFINE groups == Groups(table, order)
           has == {n \in DOMAIN order : \E r \in R : Src!KeyOf(r.id) = order[n]}
<1>2. DOMAIN groups = DOMAIN order /\ DOMAIN order = 1 .. Len(order) /\ Len(order) \in Nat
  BY <1>1 DEF Groups, IsRanking
<1>3. \A n \in DOMAIN groups :
        Src!ToSet(groups[n]) = {s \in all : Src!KeyOf(s.id) = order[n]}
  BY UnderIs DEF Groups
<1>4. \A r \in R : \E n \in DOMAIN order : Src!KeyOf(r.id) = order[n]
  <2>1. \A r \in R : Src!KeyOf(r.id) \in KeysOf(all)
    BY DEF KeysOf
  <2> QED
    BY <1>1, <2>1 DEF IsRanking
<1> HIDE DEF groups, all
<1>5. PICK it \in has : \A n \in has : it <= n
  <2>1. has # {} /\ has \in SUBSET Nat
    BY <1>2, <1>4
  <2> HIDE DEF has
  <2> QED
    BY <2>1, Least
<1>6. left # <<>> /\ left[1] \in Src!ToSet(groups[it]) \cap R
  <2>1. \A n \in 1 .. it - 1 : \A x \in DOMAIN groups[n] : groups[n][x] \notin R
    <3> SUFFICES ASSUME NEW n \in 1 .. it - 1, NEW x \in DOMAIN groups[n], groups[n][x] \in R
                 PROVE  FALSE
      OBVIOUS
    <3>1. n \in DOMAIN groups /\ ~(it <= n)
      BY <1>2, <1>5
    <3>2. groups[n][x] \in Src!ToSet(groups[n])
      BY DEF Src!ToSet
    <3>3. n \in has
      BY <1>2, <1>3, <3>1, <3>2
    <3> QED
      BY <1>5, <3>1, <3>3
  <2>2. \E x \in DOMAIN groups[it] : groups[it][x] \in R
    <3>1. PICK r \in R : Src!KeyOf(r.id) = order[it]
      BY <1>5
    <3>2. r \in Src!ToSet(groups[it])
      BY <1>2, <1>3, <1>5, <3>1 DEF all
    <3> QED
      BY <3>2 DEF Src!ToSet
  <2>3. it \in DOMAIN groups /\ groups \in Seq(Seq(T))
    BY <1>1, <1>2, <1>5 DEF groups
  <2>4. LET few == Src!Among(Src!FlattenSeq(groups), R)
        IN few # <<>> /\ few[1] \in Src!ToSet(groups[it]) \cap R
    BY <2>1, <2>2, <2>3, FirstAmong
  <2> QED
    BY <1>1, <2>4 DEF groups
<1> HIDE DEF left
<1>7. Src!KeyOf(left[1].id) = order[it]
  BY <1>2, <1>3, <1>5, <1>6
<1>8. ASSUME NEW r \in R
      PROVE  Src!KeyOf(left[1].id) = Src!KeyOf(r.id)
             \/ KeyBefore(Src!KeyOf(left[1].id), Src!KeyOf(r.id))
  <2>1. PICK n \in DOMAIN order : Src!KeyOf(r.id) = order[n]
    BY <1>4
  <2>2. it <= n /\ it \in DOMAIN order /\ it \in Nat /\ n \in Nat
    BY <1>2, <1>5, <2>1
  <2>3. it = n \/ it < n
    BY <2>2
  <2>4. it < n => KeyBefore(order[it], order[n])
    BY <1>1, <2>1, <2>2 DEF IsRanking
  <2> QED
    BY <1>7, <2>1, <2>3, <2>4
<1>9. IsFirstByKey(left, R)
  BY <1>6, <1>8 DEF IsFirstByKey
<1> QED
  BY <1>9 DEF left

-----------------------------------------------------------------------------
(* The graph.  What follows holds of every table of symbols, so it does    *)
(* not matter which records were reused and which were extracted.          *)

Forms == {"call", "method", "path"}

\* A table of symbols whose keys are ordered.
IsSortable(table) == (\E T : table \in Seq(T)) /\ IsOrder(KeysOf(Src!ToSet(table)))

LEMMA CandidatesAreNamed ==
  ASSUME NEW symbols, NEW origin, NEW mention
  PROVE  LET found == Src!ResolveCandidates(symbols, origin, mention)
         IN /\ found \subseteq Src!Answering(symbols, mention)
            /\ Src!Answering(symbols, mention) # {} => found # {}
<1> DEFINE named == Src!Answering(symbols, mention)
           tier  == Src!Nearest(origin, named)
<1>1. tier \subseteq named /\ (named # {} => tier # {})
  BY DEF Src!Nearest
<1>2. Src!Liked(tier, mention) \subseteq tier
  BY DEF Src!Liked
<1>3. Src!ResolveCandidates(symbols, origin, mention)
        = IF Src!Liked(tier, mention) = {} THEN tier ELSE Src!Liked(tier, mention)
  BY DEF Src!ResolveCandidates
<1> HIDE DEF tier, named
<1> QED
  BY <1>1, <1>2, <1>3 DEF named

\* A mention of a known user is resolved when anything answers to it.
LEMMA ResolvedIsNamed ==
  ASSUME NEW T, NEW symbols \in Seq(T), NEW mention
  PROVE  /\ \A e \in Src!Resolved(symbols, mention) : \E s \in Src!Answering(symbols, mention) :
              e.from = mention.from /\ e.to = Src!KeyOf(s.id)
         /\ mention.from \in KeysOf(Src!ToSet(symbols))
              /\ Src!Answering(symbols, mention) # {} => Src!Resolved(symbols, mention) # {}
<1> DEFINE under  == Src!Under(symbols, mention.from)
           origin == Src!Last(under).id
           found  == Src!ResolveCandidates(symbols, origin, mention)
           Edge(s) == [from |-> mention.from, to |-> Src!KeyOf(s.id),
                       kind |-> Src!EdgeKind(origin, s.id, mention.form)]
<1>1. Src!Resolved(symbols, mention) = IF under = <<>> THEN {} ELSE {Edge(s) : s \in found}
  BY DEF Src!Resolved
<1>2. /\ found \subseteq Src!Answering(symbols, mention)
      /\ Src!Answering(symbols, mention) # {} => found # {}
  BY CandidatesAreNamed
<1>3. mention.from \in KeysOf(Src!ToSet(symbols)) => under # <<>>
  <2>1. Src!ToSet(under) = {s \in Src!ToSet(symbols) : Src!KeyOf(s.id) = mention.from}
    BY UnderIs
  <2>2. Src!ToSet(<<>>) = {}
    BY DEF Src!ToSet
  <2> HIDE DEF under
  <2> QED
    BY <2>1, <2>2 DEF KeysOf
<1> HIDE DEF origin, found, under
<1>4. \A s : Edge(s).from = mention.from /\ Edge(s).to = Src!KeyOf(s.id)
  OBVIOUS
<1>5. Src!Resolved(symbols, mention) \subseteq {Edge(s) : s \in found}
  BY <1>1
<1> HIDE DEF Edge
<1>6. ASSUME NEW e \in Src!Resolved(symbols, mention)
      PROVE  \E s \in Src!Answering(symbols, mention) : e.from = mention.from /\ e.to = Src!KeyOf(s.id)
  <2>1. PICK s \in found : e = Edge(s)
    BY <1>5
  <2> QED
    BY <2>1, <1>2, <1>4
<1>7. ASSUME mention.from \in KeysOf(Src!ToSet(symbols)), Src!Answering(symbols, mention) # {}
      PROVE  Src!Resolved(symbols, mention) # {}
  BY <1>1, <1>2, <1>3, <1>7
<1> QED
  BY <1>6, <1>7

\* The mentions that a graph resolves, and what its references are.
MentionsOf(files, g) ==
  {m \in UNION {Src!Mentions(files[i]) : i \in DOMAIN files} : m.from \in Src!Keys(g)}

\* The records of a graph are those of its table, and its references are resolved in it.
IsOfTable(g, files, table) ==
  /\ Src!ToSet(g.symbols) = Src!ToSet(table)
  /\ \A key : Src!Under(g.symbols, key) = Src!Under(table, key)
  /\ \E T : g.symbols \in Seq(T)
  /\ Src!Keys(g) = KeysOf(Src!ToSet(table))
  /\ g.references = UNION {Src!Resolved(table, m) : m \in MentionsOf(files, g)}
  /\ g.modules = Src!ModuleNodes(table)

LEMMA BuildIsOfTable ==
  ASSUME NEW files, NEW previous, NEW changed, NEW table,
         table = Src!SymbolTable(files, previous, changed), IsSortable(table)
  PROVE  IsOfTable(Src!Build(files, previous, changed), files, table)
<1> DEFINE g == Src!Build(files, previous, changed)
<1>1. PICK T : table \in Seq(T)
  BY DEF IsSortable
<1>2. g.symbols = Src!SortedByKey(table) /\ g.modules = Src!ModuleNodes(table)
  BY DEF Src!Build
<1>3. /\ Src!ToSet(g.symbols) = Src!ToSet(table)
      /\ \A key : Src!Under(g.symbols, key) = Src!Under(table, key)
      /\ g.symbols \in Seq(T)
  <2> HIDE DEF g
  <2> QED
    BY <1>1, <1>2, SortedElements, SortedUnder DEF IsSortable
<1>4. Src!Keys(g) = KeysOf(Src!ToSet(table))
  <2> HIDE DEF g
  <2> QED
    BY <1>3 DEF Src!Keys, KeysOf
<1>5. g.references = UNION {Src!Resolved(table, m) : m \in MentionsOf(files, g)}
  <2>1. g.references = UNION {Src!Resolved(table, m) :
                         m \in {n \in UNION {Src!Mentions(files[i]) : i \in DOMAIN files} :
                                  n.from \in KeysOf(Src!ToSet(table))}}
    BY DEF Src!Build, KeysOf
  <2> HIDE DEF g
  <2> QED
    BY <1>4, <2>1 DEF MentionsOf
<1> HIDE DEF g
<1>6. IsOfTable(g, files, table)
  BY <1>2, <1>3, <1>4, <1>5 DEF IsOfTable
<1> QED
  BY <1>6 DEF g

\* An edge of a graph comes from a mention, and leads to something that answers to it.
LEMMA EdgeIsNamed ==
  ASSUME NEW g, NEW files, NEW T, NEW table \in Seq(T), IsOfTable(g, files, table),
         NEW e \in g.references
  PROVE  \E m \in MentionsOf(files, g) : \E s \in Src!Answering(table, m) :
           e.from = m.from /\ e.to = Src!KeyOf(s.id)
<1>1. PICK m \in MentionsOf(files, g) : e \in Src!Resolved(table, m)
  BY DEF IsOfTable
<1> QED
  BY <1>1, ResolvedIsNamed

\* `save` refuses no graph that `build` made, when the keys of its table are ordered.
THEOREM BuiltGraphIsValid ==
  ASSUME NEW files, NEW previous, NEW changed,
         IsSortable(Src!SymbolTable(files, previous, changed))
  PROVE  Src!Validate(Src!Build(files, previous, changed))
<1> DEFINE g == Src!Build(files, previous, changed)
           table == Src!SymbolTable(files, previous, changed)
<1>1. IsOfTable(g, files, table)
  BY BuildIsOfTable
<1>2. PICK T : table \in Seq(T)
  BY DEF IsSortable
<1> HIDE DEF g, table
<1>3. ASSUME NEW e \in g.references
      PROVE  e.from \in Src!Keys(g) /\ e.to \in Src!Keys(g)
  <2>1. PICK m \in MentionsOf(files, g) : \E s \in Src!Answering(table, m) :
               e.from = m.from /\ e.to = Src!KeyOf(s.id)
    BY <1>1, <1>2, EdgeIsNamed
  <2>2. m.from \in Src!Keys(g)
    BY DEF MentionsOf
  <2>3. PICK s \in Src!Answering(table, m) : e.from = m.from /\ e.to = Src!KeyOf(s.id)
    BY <2>1
  <2>4. s \in Src!ToSet(table)
    BY DEF Src!Answering
  <2> QED
    BY <1>1, <2>2, <2>3, <2>4 DEF IsOfTable, KeysOf
<1>4. Src!Validate(g)
  BY <1>3 DEF Src!Validate
<1> QED
  BY <1>4 DEF g

\* A mention of a file is of a use, by an item that may be a user.
LEMMA MentionIsUse ==
  ASSUME NEW f, NEW m \in Src!Mentions(f)
  PROVE  \E i \in Users(f) : \E u \in UsesBy(f, i) :
           m.from = Src!KeyOf(Src!IdOf(f, i)) /\ m.name = u.name
BY DEF Src!Mentions, Users, UsesBy

\* Every edge comes from a use, in the graph of any files on any previous graph, when the keys
\* of its table are ordered.
THEOREM NoUseIsInvented ==
  ASSUME NEW files, NEW previous, NEW changed,
         IsSortable(Src!SymbolTable(files, previous, changed))
  PROVE  NoneIsInvented(Src!Build(files, previous, changed), files)
<1> DEFINE g == Src!Build(files, previous, changed)
           table == Src!SymbolTable(files, previous, changed)
<1>1. IsOfTable(g, files, table)
  BY BuildIsOfTable
<1>2. PICK T : table \in Seq(T)
  BY DEF IsSortable
<1> HIDE DEF g, table
<1>3. ASSUME NEW e \in g.references
      PROVE  \E f \in ToSet(files) : \E i \in Users(f) : \E u \in UsesBy(f, i) :
               StandsFor(g, e, f, i, u)
  <2>1. PICK m \in MentionsOf(files, g) : \E s \in Src!Answering(table, m) :
               e.from = m.from /\ e.to = Src!KeyOf(s.id)
    BY <1>1, <1>2, EdgeIsNamed
  <2>2. PICK j \in DOMAIN files : m \in Src!Mentions(files[j])
    BY DEF MentionsOf
  <2>3. PICK i \in Users(files[j]) : \E u \in UsesBy(files[j], i) :
          m.from = Src!KeyOf(Src!IdOf(files[j], i)) /\ m.name = u.name
    BY <2>2, MentionIsUse
  <2>4. PICK u \in UsesBy(files[j], i) :
          m.from = Src!KeyOf(Src!IdOf(files[j], i)) /\ m.name = u.name
    BY <2>3
  <2>5. PICK s \in Src!Answering(table, m) : e.from = m.from /\ e.to = Src!KeyOf(s.id)
    BY <2>1
  <2>6. s \in Meant(g, files[j], i, u)
    BY <1>1, <2>4, <2>5, ToSets DEF Src!Answering, Meant, IsOfTable
  <2>7. StandsFor(g, e, files[j], i, u)
    BY <2>4, <2>5, <2>6 DEF StandsFor
  <2>8. files[j] \in ToSet(files)
    BY <2>2 DEF ToSet
  <2> QED
    BY <2>3, <2>4, <2>7, <2>8
<1>4. NoneIsInvented(g, files)
  BY <1>3 DEF NoneIsInvented
<1> QED
  BY <1>4 DEF g

\* The uses of a file's items have the forms that mentions.rs gives them.
AreForms(uses) == \A u \in uses : u.form \in Forms
AreFormed(f)   == \A i \in DOMAIN f.items : AreForms(f.items[i].uses)

\* Of the uses of a name one has a form that none is more specific than.
LEMMA MostSpecificUse ==
  ASSUME NEW f, AreFormed(f), NEW i \in DOMAIN f.items, NEW u \in Src!UsesOf(f, i)
  PROVE  \E v \in Src!UsesOf(f, i) :
           /\ v.name = u.name
           /\ \A w \in Src!UsesOf(f, i) : w.name = v.name => Src!Rank(w.form) <= Src!Rank(v.form)
<1> DEFINE same == {v \in Src!UsesOf(f, i) : v.name = u.name}
<1>1. \A v \in same : v.form \in Forms
  <2>1. \A v \in Src!UsesOf(f, i) : v \in f.items[i].uses \/ v.form = "path"
    <3> DEFINE names == {f.items[i].name, f.items[i].trait} \ {""}
               Own(n) == [name |-> n, form |-> "path"]
               own   == {Own(n) : n \in names}
    <3>1. Src!UsesOf(f, i) = f.items[i].uses \cup (IF f.items[i].kind # "impl" THEN {} ELSE own)
      BY DEF Src!UsesOf
    <3>2. \A n : Own(n).form = "path"
      OBVIOUS
    <3> HIDE DEF Own
    <3>3. \A v \in own : v.form = "path"
      BY <3>2
    <3> HIDE DEF own
    <3> QED
      BY <3>1, <3>3
  <2> QED
    BY <2>1 DEF AreFormed, AreForms, Forms
<1>2. Src!Rank("call") = 3 /\ Src!Rank("method") = 2 /\ Src!Rank("path") = 1
  BY DEF Src!Rank
<1>3. \E v \in same : \A w \in same : Src!Rank(w.form) <= Src!Rank(v.form)
  <2>1. CASE \E v \in same : v.form = "call"
    BY <1>1, <1>2, <2>1 DEF Forms
  <2>2. CASE (\A v \in same : v.form # "call") /\ \E v \in same : v.form = "method"
    BY <1>1, <1>2, <2>2 DEF Forms
  <2>3. CASE \A v \in same : v.form \notin {"call", "method"}
    BY <1>1, <1>2, <2>3 DEF Forms
  <2> QED
    BY <2>1, <2>2, <2>3
<1> QED
  BY <1>3

\* No use that can be resolved is dropped, in the graph of any files on any previous graph, when
\* the keys of its table are ordered.
THEOREM NoUseIsLost ==
  ASSUME NEW files, NEW previous, NEW changed, \A f \in ToSet(files) : AreFormed(f),
         IsSortable(Src!SymbolTable(files, previous, changed))
  PROVE  NoneIsLost(Src!Build(files, previous, changed), files)
<1> DEFINE g == Src!Build(files, previous, changed)
           table == Src!SymbolTable(files, previous, changed)
<1>1. IsOfTable(g, files, table)
  BY BuildIsOfTable
<1>2. PICK T : table \in Seq(T)
  BY DEF IsSortable
<1> HIDE DEF g, table
<1>3. ASSUME NEW f \in ToSet(files), NEW i \in Users(f), NEW u \in UsesBy(f, i),
             Src!KeyOf(Src!IdOf(f, i)) \in Src!Keys(g), Meant(g, f, i, u) # {}
      PROVE  \E e \in g.references : StandsFor(g, e, f, i, u)
  <2> DEFINE from == Src!KeyOf(Src!IdOf(f, i))
             Mention(v) == [file |-> f.path, pos |-> i, from |-> from,
                            name |-> v.name, form |-> v.form]
  <2>1. PICK v \in Src!UsesOf(f, i) :
          /\ v.name = u.name
          /\ \A w \in Src!UsesOf(f, i) : w.name = v.name => Src!Rank(w.form) <= Src!Rank(v.form)
    BY <1>3, MostSpecificUse DEF Users, UsesBy
  <2>2. Mention(v) \in Src!Mentions(f)
    BY <1>3, <2>1 DEF Src!Mentions, Users, UsesBy
  <2>3. PICK m \in Src!Mentions(f) : m.from = from /\ m.name = u.name
    BY <2>1, <2>2
  <2>4. m \in MentionsOf(files, g)
    BY <1>3, <2>3 DEF MentionsOf, ToSet
  <2>5. Src!Answering(table, m) = Meant(g, f, i, u)
    BY <1>1, <2>3, ToSets DEF Meant, Src!Answering, IsOfTable
  <2>6. m.from \in KeysOf(Src!ToSet(table))
    BY <1>1, <1>3, <2>3 DEF IsOfTable
  <2>7. PICK e \in Src!Resolved(table, m) : TRUE
    BY <1>2, <1>3, <2>5, <2>6, ResolvedIsNamed
  <2>8. PICK s \in Src!Answering(table, m) : e.from = m.from /\ e.to = Src!KeyOf(s.id)
    BY <1>2, <2>7, ResolvedIsNamed
  <2>9. StandsFor(g, e, f, i, u)
    BY <2>3, <2>5, <2>8 DEF StandsFor
  <2>10. e \in g.references
    BY <1>1, <2>4, <2>7 DEF IsOfTable
  <2> QED
    BY <2>9, <2>10
<1>4. NoneIsLost(g, files)
  BY <1>3 DEF NoneIsLost
<1> QED
  BY <1>4 DEF g

-----------------------------------------------------------------------------
(* Expansions, of any files and any graph that knows them.                 *)

\* Source files, of whatever paths, packages, prefixes and items there are.
AreFiles(files) ==
  \E paths, packages, prefixes, texts :
    ToSet(files) \subseteq [path : paths, package : packages, prefix : prefixes, items : texts]

\* What is shown of a body at each of the two levels that cut bodies.
KeysAt(level, keys) == IF level = Src!Implementation THEN keys ELSE {}

\* The walker gives a file's items the keys that the graph gives them.
LEMMA WalkerKnows ==
  ASSUME NEW files, AreFiles(files), NEW f \in ToSet(files), NEW h \in ToSet(files),
         f.path = h.path, f.items = h.items, NEW i
  PROVE  Src!WalkerKey(h, f.package, f.prefix, i) = Src!KeyOf(Src!IdOf(f, i))
<1>1. PICK paths, packages, prefixes, texts :
        ToSet(files) \subseteq [path : paths, package : packages, prefix : prefixes, items : texts]
  BY DEF AreFiles
<1>2. [h EXCEPT !.package = f.package, !.prefix = f.prefix] = f
  BY <1>1
<1> QED
  BY <1>2 DEF Src!WalkerKey

\* A body that a skeleton leaves out is shown just when its key is selected.
LEMMA SkeletonShows ==
  ASSUME NEW f, NEW package, NEW prefix, NEW keep, NEW i \in Removable(f)
  PROVE  i \in Src!SkeletonWith(f, package, prefix, keep).shown
           <=> Src!WalkerKey(f, package, prefix, i) \in keep
<1>1. /\ i \in DOMAIN f.items /\ Src!HasBody(f, i) /\ f.items[i].body.tail = 0
      /\ f.items[i].body.aligned /\ f.items[i].body.is # "empty"
  BY DEF Removable
<1>2. i \in Src!Cuts(f, package, prefix, keep) <=> Src!WalkerKey(f, package, prefix, i) \notin keep
  BY <1>1 DEF Src!Cuts
<1>3. Src!SkeletonWith(f, package, prefix, keep).shown
        = {n \in DOMAIN f.items : Src!HasBody(f, n)}
            \ {n \in Src!Cuts(f, package, prefix, keep) : f.items[n].body.tail = 0}
  BY DEF Src!SkeletonWith
<1> QED
  BY <1>1, <1>2, <1>3

LEMMA RepresentationShows ==
  ASSUME NEW g, NEW files, AreFiles(files), Knows(g, files),
         NEW f \in ToSet(files), NEW h \in ToSet(files), Owns(files, f), h.path = f.path,
         NEW level \in {Src!Skeleton, Src!Implementation}, NEW selection, NEW i \in Removable(f)
  PROVE  i \in Src!RepresentFile(g, h, level, selection).shown
           <=> Src!KeyOf(Src!IdOf(f, i)) \in KeysAt(level, selection)
<1>1. f.items = h.items /\ Src!PackageOf(g, h.path) = f.package
      /\ Src!PrefixOf(g, h.path) = f.prefix
  BY DEF Knows
<1>2. i \in Removable(h)
  BY <1>1 DEF Removable, Src!HasBody
<1>3. Src!RepresentFile(g, h, level, selection)
        = Src!SkeletonWith(h, f.package, f.prefix, KeysAt(level, selection))
  <2>1. (IF level = Src!Skeleton THEN {} ELSE selection) = KeysAt(level, selection)
    BY DEF KeysAt, Src!Skeleton, Src!Implementation
  <2>2. level \in {Src!Skeleton, Src!Implementation} /\ level # Src!Full
    BY DEF Src!Skeleton, Src!Implementation, Src!Full
  <2>3. Src!RepresentFile(g, h, level, selection)
          = Src!SkeletonWith(h, Src!PackageOf(g, h.path), Src!PrefixOf(g, h.path),
                             IF level = Src!Skeleton THEN {} ELSE selection)
    BY <2>2 DEF Src!RepresentFile
  <2> QED
    BY <1>1, <2>1, <2>3
<1>4. Src!WalkerKey(h, f.package, f.prefix, i) = Src!KeyOf(Src!IdOf(f, i))
  BY <1>1, WalkerKnows
<1> QED
  BY <1>2, <1>3, <1>4, SkeletonShows

LEMMA RepresentShows ==
  ASSUME NEW g, NEW files, AreFiles(files), Knows(g, files),
         NEW level \in {Src!Skeleton, Src!Implementation}, NEW records, NEW selection
  PROVE  ShowsJust(files, Src!Represent(g, files, records, level, selection),
                   KeysAt(level, selection))
<1> DEFINE r == Src!Represent(g, files, records, level, selection)
           Rendered(h) == Src!RepresentFile(g, h, level, selection)
<1>1. \A e \in r.files : \E h \in ToSet(files) : e[1] = h.path /\ e[2] = Rendered(h).shown
  <2>1. r.files = {<<h.path, Rendered(h).shown, Rendered(h).clipped>> :
                     h \in {x \in ToSet(files) : \E s \in records : s.file = x.path}}
    BY DEF Src!Represent, ToSet, Src!ToSet
  <2> HIDE DEF Rendered
  <2> QED
    BY <2>1
<1> HIDE DEF r
<1>2. ASSUME NEW f \in ToSet(files), NEW i \in Removable(f), Owns(files, f),
             NEW e \in r.files, e[1] = f.path
      PROVE  i \in e[2] <=> Src!KeyOf(Src!IdOf(f, i)) \in KeysAt(level, selection)
  BY <1>1, <1>2, RepresentationShows
<1>3. ShowsJust(files, r, KeysAt(level, selection))
  BY <1>2 DEF ShowsJust
<1> QED
  BY <1>3 DEF r

LEMMA SelectionShows ==
  ASSUME NEW g, NEW files, AreFiles(files), Knows(g, files),
         NEW level \in {Src!Skeleton, Src!Implementation}, NEW records, NEW selection, NEW keys,
         level = Src!Implementation => selection = keys
  PROVE  ShowsJust(files, Src!Represent(g, files, records, level, selection),
                   KeysAt(level, keys))
<1>1. KeysAt(level, selection) = KeysAt(level, keys)
  BY DEF KeysAt
<1> QED
  BY <1>1, RepresentShows

\* At the implementation level the bodies of the records are selected.
LEMMA SelectionIsKeys ==
  ASSUME NEW level, level = Src!Implementation, NEW records
  PROVE  Src!SelectionFor(level, records) = KeysOf(records)
<1>1. level >= Src!Implementation
  BY DEF Src!Implementation
<1> QED
  BY <1>1 DEF Src!SelectionFor, KeysOf

LEMMA FailedShows ==
  ASSUME NEW files, NEW keys
  PROVE  ShowsJust(files, Src!Failed, keys)
BY DEF ShowsJust, Src!Failed

\* A lookup finds a record under the key it is asked for.
LEMMA SymbolIsFound ==
  ASSUME NEW g, NEW T, g.symbols \in Seq(T), NEW key \in Src!Keys(g)
  PROVE  Src!Symbol(g, key) \in Src!ToSet(g.symbols) /\ Src!KeyOf(Src!Symbol(g, key).id) = key
<1> DEFINE under == Src!Under(g.symbols, key)
<1>1. /\ under \in Seq(T)
      /\ Src!ToSet(under) = {s \in Src!ToSet(g.symbols) : Src!KeyOf(s.id) = key}
  BY UnderIs
<1>2. Src!Symbol(g, key) = under[1]
  BY DEF Src!Symbol
<1>3. Src!ToSet(under) # {}
  BY <1>1 DEF Src!Keys
<1> HIDE DEF under
<1>4. under[1] \in Src!ToSet(under)
  BY <1>1, <1>3 DEF Src!ToSet
<1> QED
  BY <1>1, <1>2, <1>4

\* The records under keys of the graph have just those keys.
LEMMA RecordsHaveKeys ==
  ASSUME NEW g, NEW keys \in SUBSET Src!Keys(g)
  PROVE  KeysOf(Src!RecordsOf(g, keys)) = keys
BY DEF KeysOf, Src!RecordsOf, Src!Keys

LEMMA TestKeysAreKeys == ASSUME NEW g, NEW key PROVE Src!TestKeys(g, key) \subseteq Src!Keys(g)
BY DEF Src!TestKeys, Src!Keys

LEMMA RelatedSeedAreKeys ==
  ASSUME NEW g, Src!Validate(g), NEW key \in Src!Keys(g)
  PROVE  Src!RelatedSeed(g, key) \subseteq Src!Keys(g)
<1>1. \A kinds : Src!Related(g, key, kinds) \subseteq Src!Keys(g)
                 /\ Src!Relating(g, key, kinds) \subseteq Src!Keys(g)
  BY DEF Src!Related, Src!Relating, Src!Validate
<1>2. \A type : {Src!KeyOf(s.id) : s \in Src!ImplsOf(g, type)} \subseteq Src!Keys(g)
  BY DEF Src!ImplsOf, Src!Keys
<1> DEFINE impls == IF Src!Symbol(g, key).id.kind \in {"struct", "enum", "type"}
                    THEN Src!ImplsOf(g, Src!Symbol(g, key).id.name[1]) ELSE {}
<1>3. {Src!KeyOf(s.id) : s \in impls} \subseteq Src!Keys(g)
  BY <1>2
<1> HIDE DEF impls
<1>4. Src!RelatedSeed(g, key)
        = {key} \cup Src!CalleesOf(g, key) \cup Src!CallersOf(g, key)
            \cup Src!TypeRelationsOf(g, key) \cup Src!TraitImplsOf(g, key)
            \cup Src!Relating(g, key, {"type", "traitImpl"}) \cup {Src!KeyOf(s.id) : s \in impls}
  BY DEF Src!RelatedSeed, impls
<1> QED
  BY <1>1, <1>3, <1>4 DEF Src!CalleesOf, Src!CallersOf, Src!TypeRelationsOf, Src!TraitImplsOf

\* The expansions of expand.rs show the bodies of their subjects and no others, for any
\* files, any graph that knows them and that `save` accepts.
THEOREM ExpansionsShowSubjects ==
  ASSUME NEW g, NEW files, NEW T, g.symbols \in Seq(T), Src!Validate(g),
         AreFiles(files), Knows(g, files), NEW level \in {Src!Skeleton, Src!Implementation}
  PROVE  ShowsSubjects(g, files, level)
<1> DEFINE Just(expansion, keys) == ShowsJust(files, expansion, KeysAt(level, keys))
<1>1. ASSUME NEW k \in Src!Keys(g)
      PROVE  Just(Src!ExpandSymbol(g, files, k, level), {k})
  <2> DEFINE subject == Src!Symbol(g, k)
  <2>1. KeysOf({subject}) = {k}
    BY SymbolIsFound DEF KeysOf
  <2>2. level = Src!Implementation => Src!SelectionFor(level, {subject}) = {k}
    BY <2>1, SelectionIsKeys
  <2>3. Just(Src!Represent(g, files, {subject}, level, Src!SelectionFor(level, {subject})), {k})
    BY <2>2, SelectionShows
  <2> QED
    BY <2>3 DEF Src!ExpandSymbol
<1>2. ASSUME NEW k \in Src!Keys(g)
      PROVE  Just(Src!ExpandTest(g, files, k, level), {k} \cup Src!TestKeys(g, k))
  <2> DEFINE tests == Src!RecordsOf(g, Src!TestKeys(g, k))
             selection == Src!SelectionFor(level, tests) \cup {k}
  <2>1. KeysOf(tests) = Src!TestKeys(g, k)
    BY RecordsHaveKeys, TestKeysAreKeys
  <2>2. level = Src!Implementation => selection = {k} \cup Src!TestKeys(g, k)
    BY <2>1, SelectionIsKeys
  <2>3. Just(Src!Represent(g, files, tests, level, selection), {k} \cup Src!TestKeys(g, k))
    BY <2>2, SelectionShows
  <2> QED
    BY <2>3 DEF Src!ExpandTest
<1>3. ASSUME NEW k \in Src!Keys(g)
      PROVE  Just(Src!ExpandRelated(g, files, Src!RelatedSeed(g, k), level), Src!RelatedSeed(g, k))
  <2> DEFINE related == Src!RelatedSeed(g, k)
             records == Src!RecordsOf(g, related)
  <2>1. KeysOf(records) = related
    BY RecordsHaveKeys, RelatedSeedAreKeys
  <2>2. level = Src!Implementation => Src!SelectionFor(level, records) = related
    BY <2>1, SelectionIsKeys
  <2>3. Just(Src!Represent(g, files, records, level, Src!SelectionFor(level, records)), related)
    BY <2>2, SelectionShows
  <2> QED
    BY <2>3 DEF Src!ExpandRelated
<1>4. ASSUME NEW package, NEW m
      PROVE  Just(Src!ExpandModule(g, files, package, m, level), ModuleKeys(g, package, m))
  <2> DEFINE members == {s \in Src!ToSet(g.symbols) :
                           s.id.package = package /\ Src!IsPrefix(m, s.id.module)}
  <2>1. KeysOf(members) = ModuleKeys(g, package, m)
    BY DEF KeysOf, ModuleKeys, ToSet, Src!ToSet, IsPrefix, Src!IsPrefix
  <2>2. level = Src!Implementation =>
          Src!SelectionFor(level, members) = ModuleKeys(g, package, m)
    BY <2>1, SelectionIsKeys
  <2>3. Just(Src!Represent(g, files, members, level, Src!SelectionFor(level, members)),
             ModuleKeys(g, package, m))
    BY <2>2, SelectionShows
  <2> QED
    BY <2>3, FailedShows DEF Src!ExpandModule
<1>5. ASSUME NEW package
      PROVE  Just(Src!ExpandDependency(g, files, package, level), PublicKeys(g, package))
  <2> DEFINE api == {s \in Src!PublicApi(g, package) : s.id.kind # "module"}
             shown == {s \in api : Src!HasSource(files, s)}
  <2>1. KeysOf(api) = PublicKeys(g, package)
    BY DEF KeysOf, PublicKeys, Src!PublicApi, ToSet, Src!ToSet
  <2>2. level = Src!Implementation => Src!SelectionFor(level, api) = PublicKeys(g, package)
    BY <2>1, SelectionIsKeys
  <2>3. Just(Src!Represent(g, files, shown, level, Src!SelectionFor(level, api)),
             PublicKeys(g, package))
    BY <2>2, SelectionShows
  <2>4. ~(level < Src!Skeleton)
    BY DEF Src!Skeleton, Src!Implementation
  <2> QED
    BY <2>3, <2>4, FailedShows DEF Src!ExpandDependency
<1> QED
  BY <1>1, <1>2, <1>3, <1>4, <1>5 DEF ShowsSubjects, KeysAt

-----------------------------------------------------------------------------
(* Tables of symbols, and rebuilding.                                     *)

\* What a record of a file tells of its file.
LEMMA RecordsOfFile ==
  ASSUME NEW f, NEW I, f.items \in Seq(I)
  PROVE  /\ \E T : Src!Extract(f) \in Seq(T)
         /\ \A n \in DOMAIN Src!Extract(f) : /\ Src!Extract(f)[n].file = f.path
                                             /\ Src!Extract(f)[n].id.package = f.package
<1> DEFINE all == [i \in DOMAIN f.items |-> i]
           here == Src!Among(all, {i \in DOMAIN f.items : Src!IsSymbol(f, i)})
           out == [n \in DOMAIN here |-> Src!Record(f, here[n])]
<1>1. Len(f.items) \in Nat /\ DOMAIN f.items = 1 .. Len(f.items)
  OBVIOUS
<1>2. all \in Seq(Nat)
  BY <1>1
<1>3. here \in Seq(Nat)
  BY <1>2, AmongElements
<1>4. Src!Extract(f) = out
  BY DEF Src!Extract
<1> HIDE DEF here
<1>5. out \in Seq({out[n] : n \in DOMAIN here})
  BY <1>3
<1>6. ASSUME NEW n \in DOMAIN here
      PROVE  out[n].file = f.path /\ out[n].id.package = f.package
  <2>1. out[n] = Src!Record(f, here[n])
    OBVIOUS
  <2>2. Src!Record(f, here[n]).file = f.path /\ Src!Record(f, here[n]).id = Src!IdOf(f, here[n])
    BY DEF Src!Record
  <2>3. Src!IdOf(f, here[n]).package = f.package
    BY DEF Src!IdOf
  <2> QED
    BY <2>1, <2>2, <2>3
<1> QED
  BY <1>4, <1>5, <1>6

LEMMA NothingReused == ASSUME NEW f PROVE Src!Reused(Src!NoGraph, f) = <<>>
<1>1. Src!NoGraph.symbols = <<>>
  BY DEF Src!NoGraph
<1>2. <<>> \in Seq({}) /\ DOMAIN <<>> = {}
  OBVIOUS
<1>3. \A S : Src!Among(<<>>, S) = <<>>
  BY <1>2, AmongNone
<1> QED
  BY <1>1, <1>3 DEF Src!Reused

LEMMA FullTable ==
  ASSUME NEW files
  PROVE  Src!SymbolTable(files, Src!NoGraph, {})
           = Src!FlattenSeq([i \in DOMAIN files |-> Src!Extract(files[i])])
<1>1. \A f : Src!SymbolsOf(f, Src!NoGraph, {}) = Src!Extract(f)
  BY NothingReused DEF Src!SymbolsOf
<1> QED
  BY <1>1 DEF Src!SymbolTable

SymbolsIn(f) == {i \in DOMAIN f.items : Src!IsSymbol(f, i)}

\* The records of a file are those of its symbols.
LEMMA ExtractIs ==
  ASSUME NEW f, NEW I, f.items \in Seq(I)
  PROVE  Src!ToSet(Src!Extract(f)) = {Src!Record(f, i) : i \in SymbolsIn(f)}
<1> DEFINE all == [i \in DOMAIN f.items |-> i]
           here == Src!Among(all, SymbolsIn(f))
           out == [n \in DOMAIN here |-> Src!Record(f, here[n])]
<1>1. Len(f.items) \in Nat /\ DOMAIN f.items = 1 .. Len(f.items)
  OBVIOUS
<1>2. all \in Seq(Nat) /\ Src!ToSet(all) = DOMAIN f.items
  <2>1. DOMAIN all = 1 .. Len(f.items) /\ \A i \in 1 .. Len(f.items) : all[i] = i
    BY <1>1
  <2>2. all \in Seq(Nat)
    BY <1>1
  <2>3. Src!ToSet(all) = DOMAIN f.items
    <3> HIDE DEF all
    <3> QED
      BY <1>1, <2>1 DEF Src!ToSet
  <2> QED
    BY <2>2, <2>3
<1>3. Src!ToSet(here) = SymbolsIn(f)
  <2>1. Src!ToSet(here) = Src!ToSet(all) \cap SymbolsIn(f)
    BY <1>2, AmongElements
  <2> QED
    BY <1>2, <2>1 DEF SymbolsIn
<1>4. Src!Extract(f) = out
  BY DEF Src!Extract, SymbolsIn
<1> HIDE DEF here
<1>5. DOMAIN out = DOMAIN here /\ \A n \in DOMAIN here : out[n] = Src!Record(f, here[n])
  OBVIOUS
<1> HIDE DEF out
<1>6. Src!ToSet(out) = {Src!Record(f, i) : i \in Src!ToSet(here)}
  BY <1>5 DEF Src!ToSet
<1> QED
  BY <1>3, <1>4, <1>6

\* The files of a walk have their items.
AreSources(files) ==
  /\ \E F : files \in Seq(F)
  /\ \A i \in DOMAIN files : \E I : files[i].items \in Seq(I)

\* The keys of the files are ordered.
AreOrdered(files) == IsOrder(UNION {KeysIn(f) : f \in ToSet(files)})

\* Sequences of whatever elements are sequences of some elements.
LEMMA SeqOfSeqs ==
  ASSUME NEW seqs, NEW n \in Nat, DOMAIN seqs = 1 .. n, seqs = [i \in 1 .. n |-> seqs[i]],
         \A i \in DOMAIN seqs : \E U : seqs[i] \in Seq(U)
  PROVE  \E T : seqs \in Seq(Seq(T))
<1> DEFINE T == UNION {Src!ToSet(seqs[i]) : i \in DOMAIN seqs}
<1>1. ASSUME NEW i \in DOMAIN seqs PROVE seqs[i] \in Seq(T)
  <2>1. PICK U : seqs[i] \in Seq(U)
    OBVIOUS
  <2>2. \A x \in DOMAIN seqs[i] : seqs[i][x] \in T
    BY DEF Src!ToSet
  <2> HIDE DEF T
  <2> QED
    BY <2>1, <2>2, SeqOfElements
<1> HIDE DEF T
<1>2. seqs \in Seq(Seq(T))
  BY <1>1
<1> QED
  BY <1>2

Extracts(files) == [i \in DOMAIN files |-> Src!Extract(files[i])]

\* The table of files that nothing was built from.
LEMMA TableOfAll ==
  ASSUME NEW files, AreSources(files)
  PROVE  LET table == Src!SymbolTable(files, Src!NoGraph, {})
         IN /\ \E T : Extracts(files) \in Seq(Seq(T)) /\ table \in Seq(T)
            /\ table = Src!FlattenSeq(Extracts(files))
            /\ Src!ToSet(table)
                 = UNION {{Src!Record(f, i) : i \in SymbolsIn(f)} : f \in Src!ToSet(files)}
<1> DEFINE seqs == Extracts(files)
<1>1. Src!SymbolTable(files, Src!NoGraph, {}) = Src!FlattenSeq(seqs)
  BY FullTable DEF Extracts
<1>2. /\ DOMAIN files = 1 .. Len(files) /\ Len(files) \in Nat /\ DOMAIN seqs = DOMAIN files
      /\ seqs = [i \in 1 .. Len(files) |-> seqs[i]]
  BY DEF AreSources, Extracts
<1>3. \A i \in DOMAIN files :
        /\ \E U : seqs[i] \in Seq(U)
        /\ Src!ToSet(seqs[i]) = {Src!Record(files[i], j) : j \in SymbolsIn(files[i])}
  <2> SUFFICES ASSUME NEW i \in DOMAIN files
               PROVE  /\ \E U : seqs[i] \in Seq(U)
                      /\ Src!ToSet(seqs[i]) = {Src!Record(files[i], j) : j \in SymbolsIn(files[i])}
    OBVIOUS
  <2>1. PICK I : files[i].items \in Seq(I)
    BY DEF AreSources
  <2>2. seqs[i] = Src!Extract(files[i])
    BY DEF Extracts
  <2> HIDE DEF seqs
  <2> QED
    BY <2>1, <2>2, RecordsOfFile, ExtractIs
<1> HIDE DEF seqs
<1>4. PICK T : seqs \in Seq(Seq(T))
  BY <1>2, <1>3, SeqOfSeqs
<1>5. /\ Src!FlattenSeq(seqs) \in Seq(T)
      /\ Src!ToSet(Src!FlattenSeq(seqs)) = UNION {Src!ToSet(seqs[i]) : i \in DOMAIN seqs}
  BY <1>4, FlattenElements
<1>6. UNION {Src!ToSet(seqs[i]) : i \in DOMAIN seqs}
        = UNION {{Src!Record(f, i) : i \in SymbolsIn(f)} : f \in Src!ToSet(files)}
  <2> DEFINE Of(f) == {Src!Record(f, i) : i \in SymbolsIn(f)}
  <2>1. \A i \in DOMAIN files : Src!ToSet(seqs[i]) = Of(files[i])
    BY <1>3
  <2> HIDE DEF Of
  <2>2. UNION {Src!ToSet(seqs[i]) : i \in DOMAIN seqs} = UNION {Of(f) : f \in Src!ToSet(files)}
    <3>1. ASSUME NEW r \in UNION {Src!ToSet(seqs[i]) : i \in DOMAIN seqs}
          PROVE  r \in UNION {Of(f) : f \in Src!ToSet(files)}
      <4>1. PICK i \in DOMAIN files : r \in Src!ToSet(seqs[i])
        BY <1>2
      <4>2. r \in Of(files[i]) /\ files[i] \in Src!ToSet(files)
        BY <2>1, <4>1 DEF Src!ToSet
      <4> QED
        BY <4>2
    <3>2. ASSUME NEW r \in UNION {Of(f) : f \in Src!ToSet(files)}
          PROVE  r \in UNION {Src!ToSet(seqs[i]) : i \in DOMAIN seqs}
      <4>1. PICK f \in Src!ToSet(files) : r \in Of(f)
        OBVIOUS
      <4>2. PICK i \in DOMAIN files : f = files[i]
        BY DEF Src!ToSet
      <4>3. i \in DOMAIN seqs /\ r \in Src!ToSet(seqs[i])
        BY <1>2, <2>1, <4>1, <4>2
      <4> QED
        BY <4>3
    <3> QED
      BY <3>1, <3>2
  <2> QED
    BY <2>2 DEF Of
<1> QED
  BY <1>1, <1>4, <1>5, <1>6 DEF seqs

\* Its keys are those of the files.
LEMMA TableIsSortable ==
  ASSUME NEW files, AreSources(files), AreOrdered(files)
  PROVE  IsSortable(Src!SymbolTable(files, Src!NoGraph, {}))
<1> DEFINE table == Src!SymbolTable(files, Src!NoGraph, {})
<1>1. /\ \E T : table \in Seq(T)
      /\ Src!ToSet(table) = UNION {{Src!Record(f, i) : i \in SymbolsIn(f)} : f \in Src!ToSet(files)}
  BY TableOfAll
<1> HIDE DEF table
<1>2. KeysOf(Src!ToSet(table)) = UNION {KeysIn(f) : f \in ToSet(files)}
  <2>1. \A f, i : Src!Record(f, i).id = Src!IdOf(f, i)
    BY DEF Src!Record
  <2>2. \A f \in ToSet(files) : KeysIn(f) = {Src!KeyOf(Src!Record(f, i).id) : i \in SymbolsIn(f)}
    BY <2>1 DEF KeysIn, SymbolsIn
  <2> QED
    BY <1>1, <2>2, ToSets DEF KeysOf
<1>3. IsSortable(table)
  BY <1>1, <1>2 DEF IsSortable, AreOrdered
<1> QED
  BY <1>3 DEF table

\* Tables with the same records under every key.
AreAlike(one, two) == \A key : Src!Under(one, key) = Src!Under(two, key)

LEMMA AlikeElements ==
  ASSUME NEW T, NEW one \in Seq(T), NEW R, NEW two \in Seq(R), AreAlike(one, two)
  PROVE  Src!ToSet(one) = Src!ToSet(two)
<1>1. \A s : s \in Src!ToSet(one) <=> s \in Src!ToSet(Src!Under(one, Src!KeyOf(s.id)))
  BY UnderIs
<1>2. \A s : s \in Src!ToSet(two) <=> s \in Src!ToSet(Src!Under(two, Src!KeyOf(s.id)))
  BY UnderIs
<1> QED
  BY <1>1, <1>2 DEF AreAlike

\* Only what a sequence has is left of it.
LEMMA AmongOwn ==
  ASSUME NEW T, NEW seq \in Seq(T), NEW S, NEW R, Src!ToSet(seq) \cap S = Src!ToSet(seq) \cap R
  PROVE  Src!Among(seq, S) = Src!Among(seq, R)
<1>1. Src!Among(seq, Src!ToSet(seq)) = seq
  <2>1. \A i \in DOMAIN seq : seq[i] \in Src!ToSet(seq)
    BY DEF Src!ToSet
  <2> QED
    BY <2>1, AmongAll
<1>2. \A X : Src!Among(Src!Among(seq, Src!ToSet(seq)), X) = Src!Among(seq, Src!ToSet(seq) \cap X)
  BY AmongAgain
<1> QED
  BY <1>1, <1>2

LEMMA UnderConcat ==
  ASSUME NEW T, NEW one \in Seq(T), NEW two \in Seq(T), NEW key
  PROVE  Src!Under(one \o two, key) = Src!Under(one, key) \o Src!Under(two, key)
<1> DEFINE Of(seq) == {s \in Src!ToSet(seq) : Src!KeyOf(s.id) = key}
           both == one \o two
<1>1. \A seq : Src!Under(seq, key) = Src!Among(seq, Of(seq))
  BY DEF Src!Under
<1>2. Src!ToSet(both) = Src!ToSet(one) \cup Src!ToSet(two)
  BY ConcatElements
<1>3. Src!Among(both, Of(both)) = Src!Among(one, Of(both)) \o Src!Among(two, Of(both))
  BY AmongConcat
<1>4. /\ Src!ToSet(one) \cap Of(both) = Src!ToSet(one) \cap Of(one)
      /\ Src!ToSet(two) \cap Of(both) = Src!ToSet(two) \cap Of(two)
  <2> HIDE DEF both
  <2> QED
    BY <1>2
<1> HIDE DEF Of
<1>5. /\ Src!Among(one, Of(both)) = Src!Among(one, Of(one))
      /\ Src!Among(two, Of(both)) = Src!Among(two, Of(two))
  <2> HIDE DEF both
  <2> QED
    BY <1>4, AmongOwn
<1> QED
  BY <1>1, <1>3, <1>5

LEMMA UnderConcats ==
  ASSUME NEW T, NEW key
  PROVE  \A a, b \in Seq(T) : Src!Under(a \o b, key) = Src!Under(a, key) \o Src!Under(b, key)
BY UnderConcat

LEMMA UnderAmong ==
  ASSUME NEW T, NEW table \in Seq(T), NEW S, NEW key
  PROVE  Src!Under(Src!Among(table, S), key) = Src!Among(Src!Under(table, key), S)
<1> DEFINE Of(seq) == {s \in Src!ToSet(seq) : Src!KeyOf(s.id) = key}
           few == Src!Among(table, S)
<1>1. \A seq : Src!Under(seq, key) = Src!Among(seq, Of(seq))
  BY DEF Src!Under
<1>2. Src!ToSet(few) = Src!ToSet(table) \cap S
  BY AmongElements
<1>3. S \cap Of(few) = Of(table) \cap S
  <2> HIDE DEF few
  <2> QED
    BY <1>2
<1> HIDE DEF Of
<1>4. /\ Src!Among(few, Of(few)) = Src!Among(table, S \cap Of(few))
      /\ Src!Among(Src!Among(table, Of(table)), S) = Src!Among(table, Of(table) \cap S)
  BY AmongAgain
<1> QED
  BY <1>1, <1>3, <1>4

\* Tables that are alike part by part are alike.
LEMMA FlattenedAlike ==
  ASSUME NEW T, NEW ones \in Seq(Seq(T)), NEW R, NEW twos \in Seq(Seq(R)), Len(ones) = Len(twos),
         \A i \in 1 .. Len(ones) : AreAlike(ones[i], twos[i])
  PROVE  AreAlike(Src!FlattenSeq(ones), Src!FlattenSeq(twos))
<1> DEFINE n == Len(ones)
<1>1. n \in Nat /\ n = Len(twos)
  OBVIOUS
<1>2. PICK run : /\ run[0] = <<>> /\ Src!FlattenSeq(ones) = run[Len(ones)]
                 /\ \A k \in 0 .. Len(ones) - 1 : run[k + 1] = run[k] \o ones[k + 1]
                 /\ \A k \in 0 .. Len(ones) : run[k] \in Seq(T)
  BY FlattenRun
<1>3. PICK walk : /\ walk[0] = <<>> /\ Src!FlattenSeq(twos) = walk[Len(twos)]
                  /\ \A k \in 0 .. Len(twos) - 1 : walk[k + 1] = walk[k] \o twos[k + 1]
                  /\ \A k \in 0 .. Len(twos) : walk[k] \in Seq(R)
  BY FlattenRun
<1>4. \A i \in 1 .. n : ones[i] \in Seq(T) /\ twos[i] \in Seq(R) /\ AreAlike(ones[i], twos[i])
  BY <1>1
<1>5. /\ run[0] = walk[0] /\ Src!FlattenSeq(ones) = run[n] /\ Src!FlattenSeq(twos) = walk[n]
      /\ \A k \in 0 .. n - 1 : run[k + 1] = run[k] \o ones[k + 1]
                               /\ walk[k + 1] = walk[k] \o twos[k + 1]
      /\ \A k \in 0 .. n : run[k] \in Seq(T) /\ walk[k] \in Seq(R)
  BY <1>1, <1>2, <1>3
<1> HIDE DEF n
<1> DEFINE P == {k \in Nat : AreAlike(run[k], walk[k])}
<1>6. 0 \in P
  BY <1>5 DEF AreAlike
<1>7. ASSUME NEW k \in 0 .. n - 1, k \in P
      PROVE  k + 1 \in P
  <2>1. k \in 0 .. n /\ k + 1 \in 1 .. n /\ k + 1 \in Nat
    BY <1>1
  <2> DEFINE a == run[k]
             b == walk[k]
             x == ones[k + 1]
             y == twos[k + 1]
  <2>2. /\ a \in Seq(T) /\ x \in Seq(T) /\ b \in Seq(R) /\ y \in Seq(R)
        /\ run[k + 1] = a \o x /\ walk[k + 1] = b \o y
        /\ AreAlike(a, b) /\ AreAlike(x, y)
    BY <1>4, <1>5, <1>7, <2>1
  <2> HIDE DEF a, b, x, y
  <2>3. ASSUME NEW key PROVE Src!Under(a \o x, key) = Src!Under(b \o y, key)
    <3>1. /\ Src!Under(a \o x, key) = Src!Under(a, key) \o Src!Under(x, key)
          /\ Src!Under(b \o y, key) = Src!Under(b, key) \o Src!Under(y, key)
      <4>1. a \in Seq(T) /\ x \in Seq(T)
        BY <2>2
      <4>2. b \in Seq(R) /\ y \in Seq(R)
        BY <2>2
      <4>3. Src!Under(a \o x, key) = Src!Under(a, key) \o Src!Under(x, key)
        BY <4>1, UnderConcats
      <4>4. Src!Under(b \o y, key) = Src!Under(b, key) \o Src!Under(y, key)
        BY <4>2, UnderConcats
      <4> QED
        BY <4>3, <4>4
    <3>2. Src!Under(a, key) = Src!Under(b, key) /\ Src!Under(x, key) = Src!Under(y, key)
      BY <2>2 DEF AreAlike
    <3> QED
      BY <3>1, <3>2
  <2>4. AreAlike(run[k + 1], walk[k + 1])
    BY <2>2, <2>3 DEF AreAlike
  <2> QED
    BY <2>1, <2>4
<1>8. \A k \in 0 .. n : k \in P
  <2> HIDE DEF P
  <2> QED
    BY <1>1, <1>6, <1>7, Sift!Reaches
<1>9. n \in 0 .. n
  BY <1>1
<1> QED
  BY <1>5, <1>8, <1>9

\* What `build` makes of a table.
Assembled(files, table) ==
  LET keys     == KeysOf(Src!ToSet(table))
      mentions == {m \in UNION {Src!Mentions(files[i]) : i \in DOMAIN files} : m.from \in keys}
  IN [symbols    |-> Src!SortedByKey(table),
      modules    |-> Src!ModuleNodes(table),
      references |-> UNION {Src!Resolved(table, m) : m \in mentions},
      unresolved |-> Src!Cardinality({m \in mentions : Src!Resolved(table, m) = {}})]

LEMMA BuildAssembles ==
  ASSUME NEW files, NEW previous, NEW changed
  PROVE  Src!Build(files, previous, changed)
           = Assembled(files, Src!SymbolTable(files, previous, changed))
BY DEF Src!Build, Assembled, KeysOf

LEMMA AssembledAlike ==
  ASSUME NEW files, NEW T, NEW one \in Seq(T), NEW R, NEW two \in Seq(R), AreAlike(one, two)
  PROVE  Assembled(files, one) = Assembled(files, two)
<1>1. Src!ToSet(one) = Src!ToSet(two)
  BY AlikeElements
<1>2. Src!SortedByKey(one) = Src!SortedByKey(two)
  BY <1>1, SortedAlike DEF AreAlike
<1>3. Src!ModuleNodes(one) = Src!ModuleNodes(two)
  BY <1>1 DEF Src!ModuleNodes
<1>4. \A m : Src!Resolved(one, m) = Src!Resolved(two, m)
  <2> SUFFICES ASSUME NEW m PROVE Src!Resolved(one, m) = Src!Resolved(two, m)
    OBVIOUS
  <2>1. Src!Under(one, m.from) = Src!Under(two, m.from)
    BY DEF AreAlike
  <2>2. Src!Answering(one, m) = Src!Answering(two, m)
    BY <1>1 DEF Src!Answering
  <2>3. \A origin : Src!ResolveCandidates(one, origin, m) = Src!ResolveCandidates(two, origin, m)
    BY <2>2 DEF Src!ResolveCandidates
  <2> QED
    BY <2>1, <2>3 DEF Src!Resolved
<1> QED
  BY <1>1, <1>2, <1>3, <1>4 DEF Assembled

\* The files of a walk: the path and the package tell the files apart.
IsWalk(files) ==
  /\ AreSources(files)
  /\ \A i, j \in DOMAIN files :
       files[i].path = files[j].path /\ files[i].package = files[j].package => i = j

\* Of the table of a walk, the records of a path and a package are those of the file.
LEMMA RecordsInTable ==
  ASSUME NEW old, IsWalk(old), NEW f,
         \A i \in DOMAIN old : old[i].path = f.path /\ old[i].package = f.package => old[i] = f
  PROVE  LET table == Src!SymbolTable(old, Src!NoGraph, {})
         IN Src!Among(table, {s \in Src!ToSet(table) : s.file = f.path /\ s.id.package = f.package})
              \in {Src!Extract(f), <<>>}
<1> DEFINE table == Src!SymbolTable(old, Src!NoGraph, {})
           S == {s \in Src!ToSet(table) : s.file = f.path /\ s.id.package = f.package}
           Same(i) == old[i].path = f.path /\ old[i].package = f.package
           seqs == Extracts(old)
<1>1. PICK T : seqs \in Seq(Seq(T)) /\ table \in Seq(T) /\ table = Src!FlattenSeq(seqs)
  BY TableOfAll DEF IsWalk
<1>2. DOMAIN old = 1 .. Len(old) /\ Len(old) \in Nat /\ DOMAIN seqs = DOMAIN old
      /\ \A i \in DOMAIN old : seqs[i] = Src!Extract(old[i])
  BY DEF IsWalk, AreSources, Extracts
<1> HIDE DEF seqs, table
<1>3. ASSUME NEW i \in DOMAIN old, NEW x \in DOMAIN seqs[i]
      PROVE  seqs[i][x].file = old[i].path /\ seqs[i][x].id.package = old[i].package
  <2>1. PICK I : old[i].items \in Seq(I)
    BY DEF IsWalk, AreSources
  <2> QED
    BY <1>2, <2>1, RecordsOfFile
<1>4. Src!ToSet(table) = UNION {Src!ToSet(seqs[i]) : i \in DOMAIN seqs}
  BY <1>1, FlattenElements
<1>5. ASSUME NEW i \in DOMAIN old, NEW x \in DOMAIN seqs[i]
      PROVE  seqs[i][x] \in S <=> Same(i)
  <2>1. seqs[i][x] \in Src!ToSet(seqs[i])
    BY DEF Src!ToSet
  <2>2. seqs[i][x] \in Src!ToSet(table)
    BY <1>2, <1>4, <2>1
  <2> QED
    BY <1>3, <2>2
<1>6. PICK it \in Nat : \A i \in DOMAIN old : Same(i) <=> i = it
  <2>1. \A i, j \in DOMAIN old : Same(i) /\ Same(j) => i = j
    BY DEF IsWalk
  <2>2. \A i \in DOMAIN old : i \in Nat /\ i # 0
    BY <1>2
  <2> HIDE DEF Same
  <2>3. CASE \E i \in DOMAIN old : Same(i)
    BY <2>1, <2>2, <2>3
  <2>4. CASE ~ \E i \in DOMAIN old : Same(i)
    <3>1. \A i \in DOMAIN old : Same(i) <=> i = 0
      BY <2>2, <2>4
    <3> QED
      BY <3>1
  <2> QED
    BY <2>3, <2>4
<1>7. Src!Among(table, S) = IF it \in DOMAIN seqs THEN seqs[it] ELSE <<>>
  <2>1. \A i \in DOMAIN seqs : \A x \in DOMAIN seqs[i] : seqs[i][x] \in S <=> i = it
    BY <1>2, <1>5, <1>6
  <2> HIDE DEF S, Same
  <2> QED
    BY <1>1, <2>1, AmongFlattened
<1>8. it \in DOMAIN old => seqs[it] = Src!Extract(f)
  BY <1>2, <1>6
<1> HIDE DEF S
<1>9. Src!Among(table, S) \in {Src!Extract(f), <<>>}
  BY <1>2, <1>7, <1>8
<1> QED
  BY <1>9 DEF S, table

\* What a graph lends to the rebuild of a file that it was built from, and of one that is new.
LEMMA ReusedIsExtracted ==
  ASSUME NEW old, IsWalk(old), AreOrdered(old), NEW f,
         \A i \in DOMAIN old : old[i].path = f.path /\ old[i].package = f.package => old[i] = f
  PROVE  LET reused == Src!Reused(Src!BuildAll(old), f)
         IN (\E T : reused \in Seq(T)) /\ (reused = <<>> \/ AreAlike(reused, Src!Extract(f)))
<1> DEFINE table == Src!SymbolTable(old, Src!NoGraph, {})
           sorted == Src!BuildAll(old).symbols
           reused == Src!Reused(Src!BuildAll(old), f)
           S == {s \in Src!ToSet(table) : s.file = f.path /\ s.id.package = f.package}
<1>1. IsSortable(table)
  BY TableIsSortable DEF IsWalk
<1>2. PICK T : table \in Seq(T)
  BY <1>1 DEF IsSortable
<1>3. sorted = Src!SortedByKey(table)
  BY DEF Src!BuildAll, Src!Build
<1>4. Src!Among(table, S) \in {Src!Extract(f), <<>>}
  BY RecordsInTable
<1> HIDE DEF table
<1>5. /\ sorted \in Seq(T) /\ Src!ToSet(sorted) = Src!ToSet(table)
      /\ \A key : Src!Under(sorted, key) = Src!Under(table, key)
  <2> HIDE DEF sorted
  <2> QED
    BY <1>1, <1>2, <1>3, SortedElements, SortedUnder DEF IsSortable
<1>6. reused = Src!Among(sorted, S)
  <2>1. reused = Src!Among(sorted, {s \in Src!ToSet(sorted) :
                                      s.file = f.path /\ s.id.package = f.package})
    BY DEF Src!Reused
  <2> HIDE DEF sorted, reused
  <2> QED
    BY <1>5, <2>1
<1> HIDE DEF sorted, reused, S
<1>7. reused \in Seq(T) /\ Src!ToSet(reused) = Src!ToSet(table) \cap S
  BY <1>5, <1>6, AmongElements
<1>8. CASE Src!Among(table, S) = Src!Extract(f)
  <2>1. \A key : /\ Src!Under(Src!Among(sorted, S), key) = Src!Among(Src!Under(sorted, key), S)
                 /\ Src!Under(Src!Among(table, S), key) = Src!Among(Src!Under(table, key), S)
    BY <1>2, <1>5, UnderAmong
  <2>2. AreAlike(reused, Src!Extract(f))
    BY <1>5, <1>6, <1>8, <2>1 DEF AreAlike
  <2> QED
    BY <1>7, <2>2 DEF reused
<1>9. CASE Src!Among(table, S) = <<>>
  <2>1. Src!ToSet(Src!Among(table, S)) = Src!ToSet(table) \cap S
    BY <1>2, AmongElements
  <2>2. Src!ToSet(<<>>) = {}
    BY DEF Src!ToSet
  <2>3. Src!ToSet(reused) = {}
    BY <1>7, <1>9, <2>1, <2>2
  <2>4. reused = <<>>
    <3>1. DOMAIN reused = {}
      BY <2>3 DEF Src!ToSet
    <3> QED
      BY <1>7, <3>1
  <2> QED
    BY <1>7, <2>4 DEF reused
<1> QED
  BY <1>4, <1>8, <1>9

(* What IncrementalIsFull says, for any trees (builder.rs): a graph built on that of an    *)
(* earlier walk is the graph built from nothing, when every file of the earlier walk that  *)
(* has another text now is among the changed ones, and the keys of the earlier are ordered.*)
THEOREM RebuildIsFull ==
  ASSUME NEW old, IsWalk(old), AreOrdered(old), NEW new, AreSources(new), NEW changed,
         \A i \in DOMAIN new : new[i].path \notin changed =>
           \A j \in DOMAIN old :
             old[j].path = new[i].path /\ old[j].package = new[i].package => old[j] = new[i]
  PROVE  Src!Build(new, Src!BuildAll(old), changed) = Src!BuildAll(new)
<1> DEFINE previous == Src!BuildAll(old)
           parts == [i \in DOMAIN new |-> Src!SymbolsOf(new[i], previous, changed)]
           table == Src!SymbolTable(new, previous, changed)
           full == Src!SymbolTable(new, Src!NoGraph, {})
<1>1. PICK T : /\ Extracts(new) \in Seq(Seq(T)) /\ full \in Seq(T)
               /\ full = Src!FlattenSeq(Extracts(new))
  BY TableOfAll
<1>2. DOMAIN new = 1 .. Len(new) /\ Len(new) \in Nat
  BY DEF AreSources
<1>3. ASSUME NEW i \in DOMAIN new
      PROVE  /\ \E U : Src!SymbolsOf(new[i], previous, changed) \in Seq(U)
             /\ AreAlike(Src!SymbolsOf(new[i], previous, changed), Src!Extract(new[i]))
  <2>1. \E U : Src!Extract(new[i]) \in Seq(U)
    <3>1. PICK I : new[i].items \in Seq(I)
      BY DEF AreSources
    <3> QED
      BY <3>1, RecordsOfFile
  <2>2. AreAlike(Src!Extract(new[i]), Src!Extract(new[i]))
    BY DEF AreAlike
  <2>3. CASE Src!SymbolsOf(new[i], previous, changed) = Src!Extract(new[i])
    <3> HIDE DEF previous
    <3> QED
      BY <2>1, <2>2, <2>3
  <2>4. CASE Src!SymbolsOf(new[i], previous, changed) # Src!Extract(new[i])
    <3> DEFINE reused == Src!Reused(previous, new[i])
    <3>1. /\ new[i].path \notin changed /\ reused # <<>>
          /\ Src!SymbolsOf(new[i], previous, changed) = reused
      <4> HIDE DEF previous
      <4> QED
        BY <2>4 DEF Src!SymbolsOf
    <3>2. (\E U : reused \in Seq(U)) /\ (reused = <<>> \/ AreAlike(reused, Src!Extract(new[i])))
      BY <3>1, ReusedIsExtracted
    <3> HIDE DEF previous, reused
    <3> QED
      BY <3>1, <3>2
  <2> QED
    BY <2>3, <2>4
<1> HIDE DEF previous
<1>4. /\ DOMAIN parts = 1 .. Len(new) /\ parts = [i \in 1 .. Len(new) |-> parts[i]]
      /\ \A i \in DOMAIN parts : /\ \E U : parts[i] \in Seq(U)
                                 /\ AreAlike(parts[i], Extracts(new)[i])
  BY <1>2, <1>3 DEF Extracts
<1>5. table = Src!FlattenSeq(parts)
  BY DEF Src!SymbolTable
<1> HIDE DEF parts, full, table
<1>6. PICK R : parts \in Seq(Seq(R))
  BY <1>2, <1>4, SeqOfSeqs
<1>7. table \in Seq(R)
  BY <1>5, <1>6, FlattenElements
<1>8. AreAlike(table, full)
  <2>1. Len(parts) = Len(new) /\ Len(Extracts(new)) = Len(new)
    <3>1. DOMAIN Extracts(new) = DOMAIN new
      BY DEF Extracts
    <3> QED
      BY <1>1, <1>2, <1>4, <1>6, <3>1
  <2> QED
    BY <1>1, <1>4, <1>5, <1>6, <2>1, FlattenedAlike
<1>9. Assembled(new, table) = Assembled(new, full)
  BY <1>1, <1>7, <1>8, AssembledAlike
<1> QED
  BY <1>9, BuildAssembles DEF Src!BuildAll, previous, table, full

-----------------------------------------------------------------------------
(* Whole graphs: every user and every module is there, and the records of  *)
(* a file say what it is called.                                           *)

\* The items of a file in the order of the walk: what encloses one stands before it.
AreWalked(f) ==
  /\ \E I : f.items \in Seq(I)
  /\ \A i \in DOMAIN f.items : f.items[i].up \in 0 .. i - 1

PathBody(f, path, i) ==
  IF i = 0 THEN f.prefix
  ELSE IF f.items[i].kind = "mod" THEN Append(path[f.items[i].up], f.items[i].name)
  ELSE path[f.items[i].up]

LEMMA PathIsDefined ==
  ASSUME NEW f, AreWalked(f), NEW n \in Nat, n <= Len(f.items)
  PROVE  \E path : path = [i \in 0 .. n |-> PathBody(f, path, i)]
<1> DEFINE Defined(k) == \E path : path = [i \in 0 .. k |-> PathBody(f, path, i)]
           P == {k \in Nat : Defined(k)}
<1>1. Len(f.items) \in Nat /\ DOMAIN f.items = 1 .. Len(f.items)
  BY DEF AreWalked
<1>2. 0 \in P
  <2> DEFINE path == [i \in 0 .. 0 |-> f.prefix]
  <2>1. \A i \in 0 .. 0 : PathBody(f, path, i) = f.prefix
    BY DEF PathBody
  <2>2. path = [i \in 0 .. 0 |-> PathBody(f, path, i)]
    BY <2>1
  <2> QED
    BY <2>2
<1>3. ASSUME NEW k \in 0 .. n - 1, k \in P
      PROVE  k + 1 \in P
  <2>1. PICK path : path = [i \in 0 .. k |-> PathBody(f, path, i)]
    BY <1>3
  <2> DEFINE more == [i \in 0 .. k + 1 |-> IF i = k + 1 THEN PathBody(f, path, k + 1) ELSE path[i]]
  <2>2. \A i \in 0 .. k : more[i] = path[i]
    OBVIOUS
  <2>3. more[k + 1] = PathBody(f, path, k + 1)
    OBVIOUS
  <2>4. more = [i \in 0 .. k + 1 |-> more[i]]
    OBVIOUS
  <2> HIDE DEF more
  <2>5. \A i \in 0 .. k + 1 : i # 0 => f.items[i].up \in 0 .. k /\ f.items[i].up \in 0 .. i - 1
    <3>1. ASSUME NEW i \in 1 .. k + 1 PROVE f.items[i].up \in 0 .. i - 1
      <4>1. i \in DOMAIN f.items
        BY <1>1
      <4> QED
        BY <4>1 DEF AreWalked
    <3> QED
      BY <3>1
  <2>6. \A i \in 0 .. k + 1 : PathBody(f, more, i) = PathBody(f, path, i)
    BY <2>2, <2>5 DEF PathBody
  <2>7. \A i \in 0 .. k + 1 : more[i] = PathBody(f, more, i)
    <3>1. ASSUME NEW i \in 0 .. k PROVE more[i] = PathBody(f, path, i)
      BY <2>1, <2>2
    <3> QED
      BY <2>3, <2>6, <3>1
  <2>8. more = [i \in 0 .. k + 1 |-> PathBody(f, more, i)]
    BY <2>4, <2>7
  <2>9. Defined(k + 1)
    BY <2>8
  <2> HIDE DEF Defined
  <2> QED
    BY <2>9
<1>4. \A k \in 0 .. n : k \in P
  <2> HIDE DEF P
  <2> QED
    BY <1>2, <1>3, Sift!Reaches
<1>5. n \in 0 .. n
  OBVIOUS
<1> HIDE DEF Defined
<1>6. Defined(n)
  BY <1>4, <1>5
<1> QED
  BY <1>6 DEF Defined

\* The module path inside an item is that of the file, or is made by a `mod`.
LEMMA PathInIs ==
  ASSUME NEW f, AreWalked(f)
  PROVE  /\ Src!PathIn(f)[0] = f.prefix
         /\ \A i \in DOMAIN f.items :
              Src!PathIn(f)[i] = IF f.items[i].kind = "mod"
                                 THEN Append(Src!PathIn(f)[f.items[i].up], f.items[i].name)
                                 ELSE Src!PathIn(f)[f.items[i].up]
<1> DEFINE n == Len(f.items)
           path == Src!PathIn(f)
<1>1. n \in Nat /\ DOMAIN f.items = 1 .. n
  BY DEF AreWalked
<1>2. \E g : g = [i \in 0 .. n |-> PathBody(f, g, i)]
  BY <1>1, PathIsDefined
<1>3. path = CHOOSE g : g = [i \in 0 .. n |-> PathBody(f, g, i)]
  BY DEF Src!PathIn, PathBody
<1> HIDE DEF path
<1>4. path = [i \in 0 .. n |-> PathBody(f, path, i)]
  BY <1>2, <1>3
<1>5. \A i \in 0 .. n : path[i] = PathBody(f, path, i)
  BY <1>4
<1>6. path[0] = f.prefix
  BY <1>1, <1>5 DEF PathBody
<1>7. \A i \in DOMAIN f.items :
        path[i] = IF f.items[i].kind = "mod" THEN Append(path[f.items[i].up], f.items[i].name)
                  ELSE path[f.items[i].up]
  BY <1>1, <1>5 DEF PathBody
<1> QED
  BY <1>6, <1>7 DEF path

\* The files of a walk, and the names in them.
AreWalkedFiles(files, N) ==
  /\ \E F : files \in Seq(F)
  /\ \A f \in ToSet(files) : /\ AreWalked(f) /\ f.prefix \in Seq(N)
                             /\ \A i \in DOMAIN f.items : f.items[i].name \in N

LEMMA WalkedAreSources ==
  ASSUME NEW files, NEW N, AreWalkedFiles(files, N)
  PROVE  AreSources(files)
<1>1. \A i \in DOMAIN files : files[i] \in ToSet(files)
  BY DEF ToSet
<1> QED
  BY <1>1 DEF AreWalkedFiles, AreWalked, AreSources

\* The records of a graph that was built from nothing are those of its files.
LEMMA SymbolsOfAll ==
  ASSUME NEW files, AreSources(files), AreOrdered(files)
  PROVE  LET g == Src!BuildAll(files)
         IN /\ \E T : g.symbols \in Seq(T)
            /\ Src!ToSet(g.symbols)
                 = UNION {{Src!Record(f, i) : i \in SymbolsIn(f)} : f \in Src!ToSet(files)}
<1> DEFINE table == Src!SymbolTable(files, Src!NoGraph, {})
           g == Src!BuildAll(files)
<1>1. Src!ToSet(table) = UNION {{Src!Record(f, i) : i \in SymbolsIn(f)} : f \in Src!ToSet(files)}
  BY TableOfAll
<1>2. IsOfTable(g, files, table)
  BY TableIsSortable, BuildIsOfTable DEF Src!BuildAll
<1> HIDE DEF g, table
<1>3. (\E T : g.symbols \in Seq(T)) /\ Src!ToSet(g.symbols) = Src!ToSet(table)
  BY <1>2 DEF IsOfTable
<1> QED
  BY <1>1, <1>3 DEF g

\* A module path that is none, or that a `mod` makes.
IsMade(files, path) ==
  path = <<>> \/ \E f \in ToSet(files) : \E i \in DOMAIN f.items :
                   f.items[i].kind = "mod" /\ path = Src!PathIn(f)[i]

\* Every path in a file is made when that of the file itself is.
LEMMA PathsAreMade ==
  ASSUME NEW files, NEW N, AreWalkedFiles(files, N), NEW f \in ToSet(files), IsMade(files, f.prefix)
  PROVE  \A i \in 0 .. Len(f.items) :
           Src!PathIn(f)[i] \in Seq(N) /\ IsMade(files, Src!PathIn(f)[i])
<1> DEFINE path == Src!PathIn(f)
           n == Len(f.items)
           Good(i) == path[i] \in Seq(N) /\ IsMade(files, path[i])
           P == {k \in Nat : \A i \in 0 .. k : Good(i)}
<1>1. n \in Nat /\ DOMAIN f.items = 1 .. n
  BY DEF AreWalkedFiles, AreWalked
<1>2. \A i \in 1 .. n : f.items[i].up \in 0 .. i - 1 /\ f.items[i].name \in N
  BY <1>1 DEF AreWalkedFiles, AreWalked
<1>3. AreWalked(f) /\ f.prefix \in Seq(N)
  BY DEF AreWalkedFiles
<1>4. /\ path[0] = f.prefix
      /\ \A i \in 1 .. n : path[i] = IF f.items[i].kind = "mod"
                                     THEN Append(path[f.items[i].up], f.items[i].name)
                                     ELSE path[f.items[i].up]
  BY <1>1, <1>3, PathInIs
<1>5. \A i \in 1 .. n : f.items[i].kind = "mod" => IsMade(files, path[i])
  BY <1>1 DEF IsMade
<1> HIDE DEF path
<1>6. 0 \in P
  <2>1. Good(0)
    BY <1>3, <1>4
  <2>2. \A i \in 0 .. 0 : i = 0
    OBVIOUS
  <2> HIDE DEF Good
  <2> QED
    BY <2>1, <2>2
<1>7. ASSUME NEW k \in 0 .. n - 1, k \in P
      PROVE  k + 1 \in P
  <2>1. k + 1 \in 1 .. n /\ k + 1 \in Nat
    BY <1>1
  <2>2. f.items[k + 1].up \in 0 .. k /\ f.items[k + 1].name \in N
    BY <1>2, <2>1
  <2>3. Good(f.items[k + 1].up)
    BY <1>7, <2>2
  <2>4. Good(k + 1)
    <3> DEFINE it == f.items[k + 1]
    <3>1. CASE it.kind = "mod"
      <4>1. path[k + 1] = Append(path[it.up], it.name)
        BY <1>4, <2>1, <3>1
      <4>2. path[k + 1] \in Seq(N)
        BY <2>2, <2>3, <4>1
      <4> QED
        BY <1>5, <2>1, <3>1, <4>2
    <3>2. CASE it.kind # "mod"
      BY <1>4, <2>1, <2>3, <3>2
    <3> QED
      BY <3>1, <3>2
  <2>5. \A i \in 0 .. k + 1 : i \in 0 .. k \/ i = k + 1
    OBVIOUS
  <2> HIDE DEF Good
  <2> QED
    BY <1>7, <2>1, <2>4, <2>5
<1>8. n \in P
  <2>1. \A k \in 0 .. n : k \in P
    <3> HIDE DEF P, n
    <3> QED
      BY <1>1, <1>6, <1>7, Sift!Reaches
  <2>2. n \in 0 .. n
    BY <1>1
  <2> HIDE DEF P, n
  <2> QED
    BY <2>1, <2>2
<1> QED
  BY <1>8 DEF path

\* A `mod` gives the module of its path, and nothing else gives one.
LEMMA ModIsModule ==
  ASSUME NEW files, NEW N, AreWalkedFiles(files, N), NEW f \in ToSet(files),
         IsMade(files, f.prefix), NEW i \in DOMAIN f.items, f.items[i].kind = "mod"
  PROVE  /\ i \in SymbolsIn(f) /\ Src!IdOf(f, i).kind = "module"
         /\ Src!IdOf(f, i).module \o Src!IdOf(f, i).name = Src!PathIn(f)[i]
         /\ Src!Front(Src!PathIn(f)[i]) = Src!PathIn(f)[f.items[i].up]
<1> DEFINE outer == Src!PathIn(f)[f.items[i].up]
           name == f.items[i].name
<1>1. i \in SymbolsIn(f)
  BY DEF SymbolsIn, Src!IsSymbol, Src!SymbolKind
<1>2. Src!SymbolKind["mod"] = "module"
  BY DEF Src!SymbolKind
<1>3. /\ Src!IdOf(f, i).kind = "module" /\ Src!IdOf(f, i).module = outer
      /\ Src!IdOf(f, i).name = <<name>>
  <2>1. Src!NameOf(f, i) = <<name>>
    BY DEF Src!NameOf
  <2> QED
    BY <1>2, <2>1 DEF Src!IdOf
<1>4. /\ AreWalked(f) /\ f.items[i].up \in 0 .. Len(f.items) /\ name \in N
  BY DEF AreWalkedFiles, AreWalked
<1>5. outer \in Seq(N)
  BY <1>4, PathsAreMade
<1>6. Src!PathIn(f)[i] = Append(outer, name)
  BY <1>4, PathInIs
<1> HIDE DEF outer, name
<1>7. outer \o <<name>> = Append(outer, name)
  BY <1>4, <1>5
<1>8. Src!Front(Append(outer, name)) = outer
  BY <1>4, <1>5 DEF Src!Front
<1> QED
  BY <1>1, <1>3, <1>6, <1>7, <1>8 DEF outer

LEMMA ModuleIsMod ==
  ASSUME NEW f, NEW i \in SymbolsIn(f), Src!IdOf(f, i).kind = "module"
  PROVE  f.items[i].kind = "mod"
<1>1. f.items[i].kind \in DOMAIN Src!SymbolKind
  BY DEF SymbolsIn, Src!IsSymbol
<1>2. Src!IdOf(f, i).kind = Src!SymbolKind[f.items[i].kind]
  BY DEF Src!IdOf
<1>3. \A k \in DOMAIN Src!SymbolKind : Src!SymbolKind[k] = "module" => k = "mod"
  BY DEF Src!SymbolKind
<1> QED
  BY <1>1, <1>2, <1>3

(* A graph that was built from nothing has every user of a name, and every *)
(* module that a symbol or a module is in, whatever files were walked,     *)
(* when the walk made the modules the files stand for and the keys of the  *)
(* files are ordered.                                                      *)
THEOREM EveryGraphIsClosed ==
  ASSUME NEW files, NEW N, AreWalkedFiles(files, N), AreOrdered(files),
         \A f \in ToSet(files) : IsMade(files, f.prefix)
  PROVE  Closed(Src!BuildAll(files), files)
<1> DEFINE g == Src!BuildAll(files)
           all == ToSet(g.symbols)
           Path(s) == s.id.module \o s.id.name
<1>1. IsSortable(Src!SymbolTable(files, Src!NoGraph, {}))
  BY WalkedAreSources, TableIsSortable
<1>2. all = UNION {{Src!Record(f, i) : i \in SymbolsIn(f)} : f \in ToSet(files)}
  BY WalkedAreSources, SymbolsOfAll, ToSets
<1>3. \A f \in ToSet(files) : \A i \in SymbolsIn(f) :
        Src!Record(f, i) \in all /\ Src!Record(f, i).id = Src!IdOf(f, i)
  BY <1>2 DEF Src!Record
<1>4. \A s \in all : \E f \in ToSet(files) : \E i \in SymbolsIn(f) : s.id = Src!IdOf(f, i)
  BY <1>2 DEF Src!Record
<1>5. Src!Keys(g) = {Src!KeyOf(s.id) : s \in all}
  BY ToSets DEF Src!Keys
<1>6. g.modules = {[package |-> s.id.package, path |-> Path(s), parent |-> Src!Front(Path(s))] :
                     s \in {t \in all : t.id.kind = "module"}}
  <2>1. /\ g.modules = Src!ModuleNodes(Src!SymbolTable(files, Src!NoGraph, {}))
        /\ Src!ToSet(Src!SymbolTable(files, Src!NoGraph, {})) = all
    BY <1>1, BuildIsOfTable, ToSets DEF IsOfTable, Src!BuildAll
  <2> HIDE DEF g, all
  <2> QED
    BY <2>1 DEF Src!ModuleNodes
<1>7. Src!Validate(g)
  BY <1>1, BuiltGraphIsValid DEF Src!BuildAll
<1> HIDE DEF g, all
<1>8. \A f \in ToSet(files) : \A i \in Users(f) : Src!KeyOf(Src!IdOf(f, i)) \in Src!Keys(g)
  BY <1>3, <1>5 DEF Users, SymbolsIn
<1>9. ASSUME NEW path, IsMade(files, path), path # <<>>
      PROVE  \E n \in g.modules : n.path = path
  <2>1. PICK f \in ToSet(files) : \E i \in DOMAIN f.items :
               f.items[i].kind = "mod" /\ path = Src!PathIn(f)[i]
    BY <1>9 DEF IsMade
  <2>2. PICK i \in DOMAIN f.items : f.items[i].kind = "mod" /\ path = Src!PathIn(f)[i]
    BY <2>1
  <2> DEFINE s == Src!Record(f, i)
  <2>3. /\ i \in SymbolsIn(f) /\ Src!IdOf(f, i).kind = "module"
        /\ Src!IdOf(f, i).module \o Src!IdOf(f, i).name = path
    BY <2>2, ModIsModule
  <2>4. s \in all /\ s.id = Src!IdOf(f, i)
    BY <1>3, <2>3
  <2> HIDE DEF s
  <2>5. s \in {t \in all : t.id.kind = "module"} /\ Path(s) = path
    BY <2>3, <2>4
  <2> HIDE DEF Path
  <2>6. [package |-> s.id.package, path |-> Path(s), parent |-> Src!Front(Path(s))] \in g.modules
    BY <1>6, <2>5
  <2> QED
    BY <2>5, <2>6
<1>10. ASSUME NEW f \in ToSet(files), NEW i \in SymbolsIn(f)
       PROVE  IsMade(files, Src!IdOf(f, i).module)
  <2>1. f.items[i].up \in 0 .. Len(f.items)
    BY DEF AreWalkedFiles, AreWalked, SymbolsIn
  <2>2. Src!IdOf(f, i).module = Src!PathIn(f)[f.items[i].up]
    BY DEF Src!IdOf
  <2> QED
    BY <2>1, <2>2, PathsAreMade
<1>11. \A s \in all : IsMade(files, s.id.module)
  BY <1>4, <1>10
<1>12. ASSUME NEW n \in g.modules PROVE IsMade(files, n.parent)
  <2>1. PICK s \in all : s.id.kind = "module" /\ n.parent = Src!Front(Path(s))
    <3> HIDE DEF Path
    <3> QED
      BY <1>6
  <2>2. PICK f \in ToSet(files) : \E i \in SymbolsIn(f) : s.id = Src!IdOf(f, i)
    BY <1>4
  <2>3. PICK i \in SymbolsIn(f) : s.id = Src!IdOf(f, i)
    BY <2>2
  <2>4. f.items[i].kind = "mod" /\ i \in DOMAIN f.items
    BY <2>1, <2>3, ModuleIsMod DEF SymbolsIn
  <2>5. Path(s) = Src!PathIn(f)[i] /\ Src!Front(Src!PathIn(f)[i]) = Src!PathIn(f)[f.items[i].up]
    BY <2>3, <2>4, ModIsModule
  <2>6. n.parent = Src!IdOf(f, i).module
    BY <2>1, <2>5 DEF Src!IdOf
  <2> QED
    BY <1>10, <2>6
<1>13. \A path \in {s.id.module : s \in all} \cup {n.parent : n \in g.modules} :
         path # <<>> => \E n \in g.modules : n.path = path
  BY <1>9, <1>11, <1>12
<1> QED
  BY <1>7, <1>8, <1>13 DEF Closed, g, all

\* What encloses an item is a symbol: a module, an impl or a trait.
AreNested(f) == \A i \in DOMAIN f.items : f.items[i].up # 0 => f.items[i].up \in SymbolsIn(f)

\* The record of an item that nothing encloses has the prefix of its file, and no parent.
LEMMA OutermostRecord ==
  ASSUME NEW f, AreWalked(f), NEW i \in SymbolsIn(f)
  PROVE  /\ Src!Record(f, i).parent = Src!NoKey <=> f.items[i].up = 0
         /\ f.items[i].up = 0 => Src!Record(f, i).id.module = f.prefix
<1>1. \A id : Src!KeyOf(id) # Src!NoKey
  <2>1. \A a, b, c : <<a, b, c>> # <<>>
    OBVIOUS
  <2> QED
    BY <2>1 DEF Src!KeyOf, Src!NoKey
<1>2. Src!Record(f, i).parent = IF f.items[i].up = 0 THEN Src!NoKey
                                ELSE Src!KeyOf(Src!IdOf(f, f.items[i].up))
  BY DEF Src!Record
<1>3. Src!Record(f, i).id.module = Src!PathIn(f)[f.items[i].up]
  BY DEF Src!Record, Src!IdOf
<1>4. Src!PathIn(f)[0] = f.prefix
  BY PathInIs
<1> QED
  BY <1>1, <1>2, <1>3, <1>4

\* What stands first in source order, of some records of a table.
LEMMA ForemostIs ==
  ASSUME NEW T, NEW table \in Seq(T), NEW S, NEW R,
         \A s : s \in R <=> /\ s \in Src!ToSet(table) \cap S
                            /\ \A t \in Src!ToSet(table) \cap S : s.pos <= t.pos
  PROVE  Src!Foremost(Src!Among(table, S)) = Src!Among(table, R)[1]
<1> DEFINE few == Src!Among(table, S)
           least == {s \in Src!ToSet(few) : \A t \in Src!ToSet(few) : s.pos <= t.pos}
<1>1. Src!ToSet(few) = Src!ToSet(table) \cap S
  BY AmongElements
<1>2. Src!Foremost(few) = Src!Among(few, least)[1]
  BY DEF Src!Foremost
<1>3. least = R
  <2> HIDE DEF few
  <2> QED
    BY <1>1
<1>4. R = S \cap R
  OBVIOUS
<1> HIDE DEF least
<1>5. Src!Among(few, R) = Src!Among(table, R)
  BY <1>4, AmongAgain
<1> HIDE DEF few
<1>6. Src!Foremost(few) = Src!Among(table, R)[1]
  BY <1>2, <1>3, <1>5
<1> QED
  BY <1>6 DEF few

\* The first symbol of a file is not enclosed, and its key is the first.
LEMMA FirstSymbol ==
  ASSUME NEW f, AreWalked(f), AreNested(f), SymbolsIn(f) # {}
  PROVE  \E i \in SymbolsIn(f) : /\ \A j \in SymbolsIn(f) : i <= j
                                 /\ f.items[i].up = 0
<1>1. SymbolsIn(f) \in SUBSET Nat /\ SymbolsIn(f) \subseteq DOMAIN f.items
  BY DEF SymbolsIn, AreWalked
<1>2. PICK i \in SymbolsIn(f) : \A j \in SymbolsIn(f) : i <= j
  BY <1>1, Least
<1>3. f.items[i].up \in 0 .. i - 1 /\ i \in Nat
  BY <1>1 DEF AreWalked
<1>4. f.items[i].up # 0 => f.items[i].up \in SymbolsIn(f)
  BY <1>1 DEF AreNested
<1>5. f.items[i].up = 0
  BY <1>2, <1>3, <1>4
<1> QED
  BY <1>2, <1>5

LEMMA FirstKeyIs ==
  ASSUME NEW f, AreWalked(f), NEW i \in SymbolsIn(f), \A j \in SymbolsIn(f) : i <= j
  PROVE  FirstKey(f) = Src!KeyOf(Src!IdOf(f, i))
<1>1. SymbolsIn(f) \in SUBSET Nat
  BY DEF SymbolsIn, AreWalked
<1>2. FirstKey(f) = Src!KeyOf(Src!IdOf(f, Min(SymbolsIn(f))))
  BY DEF FirstKey, SymbolsIn
<1>3. Min(SymbolsIn(f)) \in SymbolsIn(f) /\ \A j \in SymbolsIn(f) : Min(SymbolsIn(f)) <= j
  BY DEF Min
<1>4. Min(SymbolsIn(f)) = i
  BY <1>1, <1>3
<1> QED
  BY <1>2, <1>4

\* The graph knows a path by the package and the prefix of its owner: of the files of the path
\* the one whose first key stands before the others'.
THEOREM OwnerIsKnown ==
  ASSUME NEW files, NEW N, AreWalkedFiles(files, N), AreOrdered(files),
         \A f, h \in ToSet(files) : f.path = h.path => f.items = h.items,
         NEW f \in ToSet(files), AreNested(f), SymbolsIn(f) # {}, Owns(files, f)
  PROVE  LET g == Src!BuildAll(files)
         IN Src!PackageOf(g, f.path) = f.package /\ Src!PrefixOf(g, f.path) = f.prefix
<1> DEFINE g == Src!BuildAll(files)
           table == Src!SymbolTable(files, Src!NoGraph, {})
           all == Src!ToSet(g.symbols)
           here == {s \in all : s.file = f.path}
           top == {s \in all : s.parent = Src!NoKey}
           Twins == {h \in ToSet(files) : h.path = f.path}
<1>1. AreWalked(f) /\ \A h \in ToSet(files) : AreWalked(h)
  BY DEF AreWalkedFiles
<1>2. PICK i \in SymbolsIn(f) : (\A j \in SymbolsIn(f) : i <= j) /\ f.items[i].up = 0
  BY <1>1, FirstSymbol
<1> DEFINE R == {s \in here : s.pos = i}
           left == Src!Among(g.symbols, R)
<1>3. IsSortable(table)
  BY WalkedAreSources, TableIsSortable
<1>4. PICK T : g.symbols \in Seq(T) /\ table \in Seq(T)
  <2>1. PICK T : table \in Seq(T)
    BY <1>3 DEF IsSortable
  <2>2. g.symbols = Src!SortedByKey(table)
    BY DEF Src!BuildAll, Src!Build
  <2> HIDE DEF g, table
  <2> QED
    BY <1>3, <2>1, <2>2, SortedElements DEF IsSortable
<1>5. all = UNION {{Src!Record(h, j) : j \in SymbolsIn(h)} : h \in ToSet(files)}
  BY WalkedAreSources, SymbolsOfAll, ToSets
<1>6. g.symbols = Src!SortedByKey(table) /\ all = Src!ToSet(table)
  <2>1. g.symbols = Src!SortedByKey(table)
    BY DEF Src!BuildAll, Src!Build
  <2> HIDE DEF g, table
  <2> QED
    BY <1>3, <1>4, <2>1, SortedElements DEF IsSortable
<1> HIDE DEF g, table, all
<1>7. ASSUME NEW h \in Twins
      PROVE  /\ SymbolsIn(h) = SymbolsIn(f) /\ h.items[i].up = 0
             /\ FirstKey(h) = Src!KeyOf(Src!IdOf(h, i))
  <2>1. h.items = f.items
    OBVIOUS
  <2>2. SymbolsIn(h) = SymbolsIn(f)
    BY <2>1 DEF SymbolsIn, Src!IsSymbol
  <2> QED
    BY <1>1, <1>2, <2>1, <2>2, FirstKeyIs
<1>8. \A h, j : /\ Src!Record(h, j).file = h.path /\ Src!Record(h, j).pos = j
                /\ Src!Record(h, j).id = Src!IdOf(h, j)
                /\ Src!IdOf(h, j).package = h.package
  BY DEF Src!Record, Src!IdOf
<1>9. ASSUME NEW s \in here
      PROVE  \E h \in Twins : \E j \in SymbolsIn(f) : s = Src!Record(h, j)
  <2>1. PICK h \in ToSet(files) : \E j \in SymbolsIn(h) : s = Src!Record(h, j)
    BY <1>5
  <2>2. h \in Twins
    BY <1>8, <2>1
  <2> QED
    BY <1>7, <2>1, <2>2
<1>10. f \in Twins
  OBVIOUS
<1>11. \A h \in Twins : Src!Record(h, i) \in R /\ Src!Record(h, i) \in top
  <2> SUFFICES ASSUME NEW h \in Twins PROVE Src!Record(h, i) \in R /\ Src!Record(h, i) \in top
    OBVIOUS
  <2>1. i \in SymbolsIn(h) /\ h.items[i].up = 0 /\ AreWalked(h)
    BY <1>1, <1>7
  <2>2. Src!Record(h, i) \in all
    BY <1>5, <2>1
  <2>3. Src!Record(h, i).parent = Src!NoKey
    BY <2>1, OutermostRecord
  <2> QED
    BY <1>8, <2>2, <2>3
<1>12. ASSUME NEW s \in R PROVE \E h \in Twins : s = Src!Record(h, i)
  <2>1. PICK h \in Twins, j \in SymbolsIn(f) : s = Src!Record(h, j)
    BY <1>9
  <2> QED
    BY <1>8, <2>1
<1>13. \A s \in here : s.pos \in Nat /\ i <= s.pos
  <2>1. SymbolsIn(f) \in SUBSET Nat
    BY <1>1 DEF SymbolsIn, AreWalked
  <2> QED
    BY <1>2, <1>8, <1>9, <2>1
<1>14. i \in Nat
  BY <1>1 DEF SymbolsIn, AreWalked
<1> DEFINE Record == Src!Record(f, i)
<1>15. Record \in R /\ Record \in top /\ Record.pos = i
  BY <1>8, <1>10, <1>11
<1>16. R \subseteq here /\ R \subseteq top /\ here \subseteq all
  BY <1>11, <1>12
<1>17. \A s \in here : s \in R <=> s.pos = i
  OBVIOUS
<1> HIDE DEF R, here, top, Record
<1>18. Src!Foremost(Src!Among(g.symbols, here)) = left[1]
  <2>1. \A s : s \in R <=> /\ s \in Src!ToSet(g.symbols) \cap here
                           /\ \A t \in Src!ToSet(g.symbols) \cap here : s.pos <= t.pos
    BY <1>13, <1>14, <1>15, <1>16, <1>17 DEF all
  <2> QED
    BY <1>4, <2>1, ForemostIs
<1>19. Src!Foremost(Src!Among(g.symbols, here \cap top)) = left[1]
  <2>1. \A s : s \in R <=> /\ s \in Src!ToSet(g.symbols) \cap (here \cap top)
                           /\ \A t \in Src!ToSet(g.symbols) \cap (here \cap top) : s.pos <= t.pos
    BY <1>13, <1>14, <1>15, <1>16, <1>17 DEF all
  <2> QED
    BY <1>4, <2>1, ForemostIs
<1>20. IsFirstByKey(left, R)
  <2>1. R \in SUBSET Src!ToSet(table) /\ R # {}
    BY <1>6, <1>15, <1>16
  <2> QED
    BY <1>3, <1>4, <1>6, <2>1, FirstByKey DEF IsSortable
<1>21. left[1] = Record
  <2>1. PICK h \in Twins : left[1] = Src!Record(h, i)
    BY <1>12, <1>20 DEF IsFirstByKey
  <2>2. CASE h = f
    BY <2>1, <2>2 DEF Record
  <2>3. CASE h # f
    <3> DEFINE k == Src!KeyOf(Src!IdOf(f, i))
               l == Src!KeyOf(Src!IdOf(h, i))
               keys == KeysOf(Src!ToSet(table))
    <3>1. KeyBefore(k, l)
      BY <1>7, <1>10, <2>3 DEF Owns
    <3>2. l = k \/ KeyBefore(l, k)
      BY <1>8, <1>15, <1>20, <2>1 DEF IsFirstByKey, Record
    <3>3. k \in keys /\ l \in keys
      <4>1. Src!Record(f, i) \in Src!ToSet(table) /\ Src!Record(h, i) \in Src!ToSet(table)
        BY <1>6, <1>10, <1>11, <1>16
      <4> QED
        BY <1>8, <4>1 DEF KeysOf
    <3>4. /\ \A x \in keys : ~KeyBefore(x, x)
          /\ \A x, y, z \in keys : KeyBefore(x, y) /\ KeyBefore(y, z) => KeyBefore(x, z)
      BY <1>3, OrderIs DEF IsSortable
    <3> HIDE DEF k, l, keys
    <3>5. FALSE
      BY <3>1, <3>2, <3>3, <3>4
    <3> QED
      BY <3>5
  <2> QED
    BY <2>2, <2>3
<1>22. Record.id.package = f.package /\ Record.id.module = f.prefix
  <2>1. Src!Record(f, i).id.module = f.prefix
    BY <1>1, <1>2, OutermostRecord
  <2> QED
    BY <1>8, <2>1 DEF Record
<1>23. Src!FileRecords(g, f.path) = Src!Among(g.symbols, here)
  BY DEF Src!FileRecords, here, all
<1>24. Src!Among(Src!FileRecords(g, f.path), top) = Src!Among(g.symbols, here \cap top)
  BY <1>4, <1>23, AmongAgain
<1>25. /\ Src!Among(g.symbols, here) # <<>> /\ Src!Among(g.symbols, here \cap top) # <<>>
  <2>1. /\ Src!ToSet(Src!Among(g.symbols, here)) = all \cap here
        /\ Src!ToSet(Src!Among(g.symbols, here \cap top)) = all \cap (here \cap top)
    BY <1>4, AmongElements DEF all
  <2>2. Src!ToSet(<<>>) = {}
    BY DEF Src!ToSet
  <2>3. Record \in all \cap here /\ Record \in all \cap (here \cap top)
    BY <1>15, <1>16
  <2> QED
    BY <2>1, <2>2, <2>3
<1>26. Src!PackageOf(g, f.path) = f.package
  BY <1>18, <1>21, <1>22, <1>23, <1>25 DEF Src!PackageOf
<1>27. Src!PrefixOf(g, f.path) = f.prefix
  <2>1. Src!PrefixOf(g, f.path)
          = LET few == Src!Among(Src!FileRecords(g, f.path), top)
            IN IF few = <<>> THEN <<>> ELSE Src!Foremost(few).id.module
    BY DEF Src!PrefixOf, top, all
  <2> QED
    BY <1>19, <1>21, <1>22, <1>24, <1>25, <2>1
<1> QED
  BY <1>26, <1>27 DEF g

(* An expansion of any walk of any files shows the bodies of its subjects  *)
(* and no others, where a path is rendered for its owner, when every path  *)
(* has one text and the keys of the files are ordered.                     *)
THEOREM EveryExpansionIsItsSubjects ==
  ASSUME NEW files, NEW N, AreWalkedFiles(files, N), AreFiles(files), AreOrdered(files),
         \A f \in ToSet(files) : AreNested(f),
         \A f, h \in ToSet(files) : f.path = h.path => f.items = h.items,
         NEW level \in {Src!Skeleton, Src!Implementation}
  PROVE  LET g == Src!BuildAll(files)
         IN Knows(g, files) /\ ShowsSubjects(g, files, level)
<1> DEFINE g == Src!BuildAll(files)
<1>1. ASSUME NEW f \in ToSet(files), Removable(f) # {}, Owns(files, f)
      PROVE  Src!PackageOf(g, f.path) = f.package /\ Src!PrefixOf(g, f.path) = f.prefix
  <2>1. SymbolsIn(f) # {}
    <3>1. PICK i \in Removable(f) : TRUE
      BY <1>1
    <3>2. i \in DOMAIN f.items /\ f.items[i].kind \in {"fn", "method"}
      BY <3>1 DEF Removable, Src!HasBody
    <3>3. i \in SymbolsIn(f)
      BY <3>2 DEF SymbolsIn, Src!IsSymbol, Src!SymbolKind
    <3> QED
      BY <3>3
  <2> QED
    BY <1>1, <2>1, OwnerIsKnown
<1>2. Knows(g, files)
  <2> HIDE DEF g
  <2> QED
    BY <1>1 DEF Knows
<1>3. Src!Validate(g)
  BY WalkedAreSources, TableIsSortable, BuiltGraphIsValid DEF Src!BuildAll
<1>4. \E T : g.symbols \in Seq(T)
  BY WalkedAreSources, SymbolsOfAll
<1> HIDE DEF g
<1>5. ShowsSubjects(g, files, level)
  BY <1>2, <1>3, <1>4, ExpansionsShowSubjects
<1> QED
  BY <1>2, <1>5 DEF g

-----------------------------------------------------------------------------
(* The trees that the run probes.                                         *)

\* What encloses other items.
OuterKinds == {"mod", "impl", "trait"}

\* The items stand in the order of the walk, enclosed by what encloses, and use names in the
\* forms of mentions.rs.
Fits(t) ==
  /\ \E I : t \in Seq(I)
  /\ \A i \in DOMAIN t : /\ t[i].up \in 0 .. i - 1 /\ AreForms(t[i].uses)
                         /\ t[i].up # 0 => t[t[i].up].kind \in OuterKinds

\* An item that `up` encloses, and one that may enclose others.
StandsIn(it, up) == it.up = up /\ AreForms(it.uses)
Encloses(it)     == it.kind \in OuterKinds

LEMMA ItemStands ==
  ASSUME NEW kind, NEW name, NEW up, NEW pub, NEW uses, NEW body, NEW val, AreForms(uses)
  PROVE  LET it == Item(kind, name, up, pub, uses, body)
         IN /\ StandsIn(it, up) /\ StandsIn([it EXCEPT !.test = val], up)
            /\ StandsIn([it EXCEPT !.trait = val], up)
            /\ kind \in OuterKinds => Encloses(it) /\ Encloses([it EXCEPT !.trait = val])
BY DEF Item, StandsIn, Encloses

LEMMA NoForms == AreForms({})
BY DEF AreForms

LEMMA OneForm == ASSUME NEW n, NEW f \in Forms PROVE AreForms({Use(n, f)})
BY DEF AreForms, Use

LEMMA TwoForms ==
  ASSUME NEW n, NEW f \in Forms, NEW m, NEW g \in Forms
  PROVE  AreForms({Use(n, f), Use(m, g)})
BY DEF AreForms, Use

\* What fits of each length that the templates have.
LEMMA FitsNone == Fits(<<>>)
<1>1. <<>> \in Seq({}) /\ DOMAIN <<>> = {}
  OBVIOUS
<1> QED
  BY <1>1 DEF Fits

LEMMA FitsOne == ASSUME NEW x, StandsIn(x, 0) PROVE Fits(<<x>>)
<1> DEFINE t == <<x>>
<1>1. t \in Seq({x}) /\ DOMAIN t = {1} /\ t[1] = x
  OBVIOUS
<1> HIDE DEF t
<1>2. Fits(t)
  BY <1>1 DEF Fits, StandsIn
<1> QED
  BY <1>2 DEF t

LEMMA FitsTwo == ASSUME NEW x, NEW y, StandsIn(x, 0), StandsIn(y, 0) PROVE Fits(<<x, y>>)
<1> DEFINE t == <<x, y>>
<1>1. t \in Seq({x, y}) /\ DOMAIN t = {1, 2} /\ t[1] = x /\ t[2] = y
  OBVIOUS
<1> HIDE DEF t
<1>2. Fits(t)
  BY <1>1 DEF Fits, StandsIn
<1> QED
  BY <1>2 DEF t

LEMMA FitsThree ==
  ASSUME NEW x, NEW y, NEW z, StandsIn(x, 0),
         \/ StandsIn(y, 1) /\ StandsIn(z, 1) /\ Encloses(x)
         \/ StandsIn(y, 0) /\ StandsIn(z, 2) /\ Encloses(y)
  PROVE  Fits(<<x, y, z>>)
<1> DEFINE t == <<x, y, z>>
<1>1. t \in Seq({x, y, z}) /\ DOMAIN t = {1, 2, 3} /\ t[1] = x /\ t[2] = y /\ t[3] = z
  OBVIOUS
<1> HIDE DEF t
<1>2. Fits(t)
  BY <1>1 DEF Fits, StandsIn, Encloses
<1> QED
  BY <1>2 DEF t

LEMMA FitsFive ==
  ASSUME NEW x, NEW y, NEW z, NEW v, NEW w, StandsIn(x, 0), StandsIn(y, 1), Encloses(x),
         StandsIn(z, 0), StandsIn(v, 3), Encloses(z), StandsIn(w, 0)
  PROVE  Fits(<<x, y, z, v, w>>)
<1> DEFINE t == <<x, y, z, v, w>>
<1>1. /\ t \in Seq({x, y, z, v, w}) /\ DOMAIN t = {1, 2, 3, 4, 5}
      /\ t[1] = x /\ t[2] = y /\ t[3] = z /\ t[4] = v /\ t[5] = w
  OBVIOUS
<1> HIDE DEF t
<1>2. Fits(t)
  BY <1>1 DEF Fits, StandsIn, Encloses
<1> QED
  BY <1>2 DEF t

LEMMA TemplatesFit == ASSUME NEW t \in Templates PROVE Fits(t)
<1>1. "call" \in Forms /\ "method" \in Forms /\ "path" \in Forms
  BY DEF Forms
<1>2. "mod" \in OuterKinds /\ "impl" \in OuterKinds /\ "trait" \in OuterKinds
  BY DEF OuterKinds
<1> QED
  BY <1>1, <1>2, FitsNone, FitsOne, FitsTwo, FitsThree, FitsFive, ItemStands,
     NoForms, OneForm, TwoForms, ZenonT(60) DEF Templates

LEMMA TreeFiles ==
  ASSUME NEW a, NEW b
  PROVE  /\ DOMAIN Tree(a, b) = {1, 2, 3} /\ \E F : Tree(a, b) \in Seq(F)
         /\ Tree(a, b)[1] = File("a", "foo", a)
         /\ Tree(a, b)[2] = File("tests/b", "foo", b)
         /\ Tree(a, b)[3] = File("tests/b", "foo-core", b)
<1>1. \A x, y, z : /\ DOMAIN <<x, y, z>> = {1, 2, 3} /\ <<x, y, z>> \in Seq({x, y, z})
                   /\ <<x, y, z>>[1] = x /\ <<x, y, z>>[2] = y /\ <<x, y, z>>[3] = z
  <2>1. 1 .. 3 = {1, 2, 3}
    OBVIOUS
  <2> QED
    BY <2>1
<1> QED
  BY <1>1 DEF Tree

LEMMA FileIs ==
  ASSUME NEW path, NEW package, NEW items
  PROVE  /\ File(path, package, items).path = path /\ File(path, package, items).package = package
         /\ File(path, package, items).items = items
BY DEF File

LEMMA TreeIsOf ==
  ASSUME NEW a, NEW b
  PROVE  ToSet(Tree(a, b)) = {File("a", "foo", a), File("tests/b", "foo", b), File("tests/b", "foo-core", b)}
<1> DEFINE files == Tree(a, b)
<1>1. /\ DOMAIN files = {1, 2, 3}
      /\ files[1] = File("a", "foo", a) /\ files[2] = File("tests/b", "foo", b)
      /\ files[3] = File("tests/b", "foo-core", b)
  BY TreeFiles
<1> HIDE DEF files
<1>2. ToSet(files) = {files[1], files[2], files[3]}
  BY <1>1 DEF ToSet
<1> QED
  BY <1>1, <1>2 DEF files

\* The keys of a tree are among those whose order the run knows.
LEMMA TreeIsOrdered == ASSUME NEW a \in Templates, NEW b \in Templates PROVE AreOrdered(Tree(a, b))
<1> DEFINE keys == UNION {KeysIn(f) : f \in ToSet(Tree(a, b))}
<1>1. ASSUME NEW f \in ToSet(Tree(a, b))
      PROVE  f \in UNION {ToSet(Tree(t, t)) : t \in Templates}
  <2>1. f \in ToSet(Tree(a, a)) \/ f \in ToSet(Tree(b, b))
    BY TreeIsOf
  <2> QED
    BY <2>1
<1>2. keys \in SUBSET TreeKeys
  BY <1>1 DEF TreeKeys
<1> HIDE DEF keys
<1>3. IsOrder(keys)
  BY <1>2, KeyOrderAssumption, OrderOfFewer
<1> QED
  BY <1>3 DEF AreOrdered, keys

LEMMA TreeIsWalk == ASSUME NEW a \in Templates, NEW b \in Templates PROVE IsWalk(Tree(a, b))
<1> DEFINE t == Tree(a, b)
<1>1. /\ DOMAIN t = {1, 2, 3} /\ \E F : t \in Seq(F)
      /\ t[1].path = "a" /\ t[2].path = "tests/b" /\ t[3].path = "tests/b"
      /\ t[1].package = "foo" /\ t[2].package = "foo" /\ t[3].package = "foo-core"
      /\ t[1].items = a /\ t[2].items = b /\ t[3].items = b
  BY TreeFiles, FileIs
<1> HIDE DEF t
<1>2. \A i \in DOMAIN t : \E I : t[i].items \in Seq(I)
  BY <1>1, TemplatesFit DEF Fits
<1>3. \A i, j \in DOMAIN t : t[i].path = t[j].path /\ t[i].package = t[j].package => i = j
  BY <1>1
<1> QED
  BY <1>1, <1>2, <1>3 DEF IsWalk, AreSources, t

\* What a probe of a rebuild is.
Rebuilt ==
  probe.part = "rebuild" =>
    \E a1, b1, a2, b2 \in Templates :
      /\ probe.old = Tree(a1, b1) /\ probe.new = Tree(a2, b2)
      /\ a1 # a2 => "a" \in probe.changed
      /\ b1 # b2 => "tests/b" \in probe.changed

LEMMA RebuiltStep == Rebuilt /\ [Next]_probe => Rebuilt'
<1> SUFFICES ASSUME Rebuilt, [Next]_probe PROVE Rebuilt'
  OBVIOUS
<1> USE DEF Rebuilt
<1>1. CASE ProbeRebuild
  <2>1. PICK a1, b1, a2, b2 \in Templates, more \in SUBSET {"a", "tests/b"} :
          probe' = [part |-> "rebuild", old |-> Tree(a1, b1), new |-> Tree(a2, b2),
                    changed |-> more \cup (IF a1 # a2 THEN {"a"} ELSE {})
                                     \cup (IF b1 # b2 THEN {"tests/b"} ELSE {})]
    BY <1>1 DEF ProbeRebuild
  <2>2. /\ probe'.old = Tree(a1, b1) /\ probe'.new = Tree(a2, b2)
        /\ a1 # a2 => "a" \in probe'.changed
        /\ b1 # b2 => "tests/b" \in probe'.changed
    BY <2>1
  <2> QED
    BY <2>2
<1>2. CASE ProbeLine
  BY <1>2 DEF ProbeLine
<1>3. CASE ProbeTests
  BY <1>3 DEF ProbeTests
<1>4. CASE ProbeOutput
  BY <1>4 DEF ProbeOutput
<1>5. CASE ProbeDiff
  BY <1>5 DEF ProbeDiff
<1>6. CASE ProbeTree
  BY <1>6 DEF ProbeTree
<1>7. CASE UNCHANGED probe
  BY <1>7
<1> QED
  BY <1>1, <1>2, <1>3, <1>4, <1>5, <1>6, <1>7 DEF Next

LEMMA RebuiltIsFull == Rebuilt => IncrementalIsFull
<1> SUFFICES ASSUME Rebuilt, probe.part = "rebuild"
             PROVE  Src!Build(probe.new, Src!BuildAll(probe.old), probe.changed)
                      = Src!BuildAll(probe.new)
  BY DEF IncrementalIsFull
<1>1. PICK a1, b1, a2, b2 \in Templates :
        /\ probe.old = Tree(a1, b1) /\ probe.new = Tree(a2, b2)
        /\ a1 # a2 => "a" \in probe.changed
        /\ b1 # b2 => "tests/b" \in probe.changed
  BY DEF Rebuilt
<1> DEFINE old == probe.old
           new == probe.new
<1>2. IsWalk(old) /\ AreOrdered(old)
  BY <1>1, TreeIsWalk, TreeIsOrdered
<1>3. AreSources(new)
  BY <1>1, TreeIsWalk DEF IsWalk
<1>4. ASSUME NEW i \in DOMAIN new, new[i].path \notin probe.changed, NEW j \in DOMAIN old,
             old[j].path = new[i].path, old[j].package = new[i].package
      PROVE  old[j] = new[i]
  <2>1. /\ DOMAIN old = {1, 2, 3} /\ DOMAIN new = {1, 2, 3}
        /\ old[1] = File("a", "foo", a1) /\ new[1] = File("a", "foo", a2)
        /\ old[2] = File("tests/b", "foo", b1) /\ new[2] = File("tests/b", "foo", b2)
        /\ old[3] = File("tests/b", "foo-core", b1) /\ new[3] = File("tests/b", "foo-core", b2)
    BY <1>1, TreeFiles
  <2>2. /\ old[1].path = "a" /\ old[2].path = "tests/b" /\ old[3].path = "tests/b"
        /\ new[1].path = "a" /\ new[2].path = "tests/b" /\ new[3].path = "tests/b"
        /\ old[1].package = "foo" /\ old[2].package = "foo" /\ old[3].package = "foo-core"
        /\ new[1].package = "foo" /\ new[2].package = "foo" /\ new[3].package = "foo-core"
    BY <2>1, FileIs
  <2> HIDE DEF old, new
  <2>3. i = j
    BY <1>4, <2>1, <2>2
  <2>4. CASE i = 1
    BY <1>1, <1>4, <2>1, <2>2, <2>3, <2>4
  <2>5. CASE i = 2
    BY <1>1, <1>4, <2>1, <2>2, <2>3, <2>5
  <2>6. CASE i = 3
    BY <1>1, <1>4, <2>1, <2>2, <2>3, <2>6
  <2> QED
    BY <1>4, <2>1, <2>4, <2>5, <2>6
<1> HIDE DEF old, new
<1>5. Src!Build(new, Src!BuildAll(old), probe.changed) = Src!BuildAll(new)
  BY <1>2, <1>3, <1>4, RebuildIsFull
<1> QED
  BY <1>5 DEF old, new

(* The same for every probe: no rebuild differs from a build from nothing.                 *)
THEOREM ProbedRebuildIsFull == Spec => []IncrementalIsFull
<1>1. Init => Rebuilt
  BY DEF Init, None, Rebuilt
<1>2. Rebuilt /\ [Next]_probe => Rebuilt'
  BY RebuiltStep
<1>3. Rebuilt => IncrementalIsFull
  BY RebuiltIsFull
<1> QED
  BY <1>1, <1>2, <1>3, PTL DEF Spec

LEMMA FilePrefix ==
  ASSUME NEW path, NEW package, NEW items PROVE File(path, package, items).prefix = <<>>
BY DEF File

LEMMA FileType ==
  ASSUME NEW P, NEW path \in P, NEW K, NEW package \in K, NEW I, NEW items \in I
  PROVE  File(path, package, items) \in [path : P, package : K, prefix : {<<>>}, items : I]
BY DEF File

\* The trees of the run are walks as the theorems ask for.
LEMMA TreeIsWalked ==
  ASSUME NEW a \in Templates, NEW b \in Templates
  PROVE  LET files == Tree(a, b)
         IN /\ \E N : AreWalkedFiles(files, N)
            /\ AreFiles(files) /\ AreOrdered(files)
            /\ \A f \in ToSet(files) : AreFormed(f) /\ AreNested(f) /\ IsMade(files, f.prefix)
            /\ \A f, h \in ToSet(files) : f.path = h.path => f.items = h.items
<1> DEFINE files == Tree(a, b)
           N == {a[i].name : i \in DOMAIN a} \cup {b[i].name : i \in DOMAIN b}
<1>1. /\ DOMAIN files = {1, 2, 3} /\ \E F : files \in Seq(F)
      /\ files[1] = File("a", "foo", a) /\ files[2] = File("tests/b", "foo", b)
      /\ files[3] = File("tests/b", "foo-core", b)
  BY TreeFiles
<1>2. /\ files[1].path = "a" /\ files[2].path = "tests/b" /\ files[3].path = "tests/b"
      /\ files[1].package = "foo" /\ files[2].package = "foo" /\ files[3].package = "foo-core"
      /\ files[1].items = a /\ files[2].items = b /\ files[3].items = b
  BY <1>1, FileIs
<1>3. files[1].prefix = <<>> /\ files[2].prefix = <<>> /\ files[3].prefix = <<>>
  <2> HIDE DEF files
  <2> QED
    BY <1>1, FilePrefix, Zenon
<1>4. AreFiles(files)
  <2> DEFINE P == {"a", "tests/b"}
             K == {"foo", "foo-core"}
             I == {a, b}
             All == [path : P, package : K, prefix : {<<>>}, items : I]
  <2>1. "a" \in P /\ "tests/b" \in P /\ "foo" \in K /\ "foo-core" \in K /\ a \in I /\ b \in I
    OBVIOUS
  <2> HIDE DEF files, P, K, I
  <2>2. files[1] \in All /\ files[2] \in All /\ files[3] \in All
    <3>1. \A path \in P : \A package \in K : \A items \in I : File(path, package, items) \in All
      BY FileType
    <3> HIDE DEF All
    <3> QED
      BY <1>1, <2>1, <3>1
  <2>3. ToSet(files) \subseteq All
    <3> HIDE DEF All
    <3> QED
      BY <1>1, <2>2 DEF ToSet
  <2> QED
    BY <2>3 DEF AreFiles
<1> HIDE DEF files
<1>5. ToSet(files) = {files[1], files[2], files[3]}
  BY <1>1 DEF ToSet
<1>6. AreOrdered(files)
  BY TreeIsOrdered DEF files
<1>7. \A f \in ToSet(files) : (f.items = a \/ f.items = b) /\ f.prefix = <<>>
  BY <1>2, <1>3, <1>5
<1>8. Fits(a) /\ Fits(b)
  BY TemplatesFit
<1>9. \A f \in ToSet(files) : Fits(f.items) /\ \A i \in DOMAIN f.items : f.items[i].name \in N
  BY <1>7, <1>8
<1> HIDE DEF N
<1>10. \A f \in ToSet(files) : AreFormed(f)
  BY <1>9 DEF Fits, AreFormed
<1>11. \A f \in ToSet(files) : AreWalked(f)
  BY <1>9 DEF Fits, AreWalked
<1>12. \A f \in ToSet(files) : f.prefix \in Seq(N) /\ IsMade(files, f.prefix)
  <2>1. <<>> \in Seq(N)
    OBVIOUS
  <2>2. IsMade(files, <<>>)
    BY DEF IsMade
  <2> QED
    BY <1>7, <2>1, <2>2
<1>13. ASSUME NEW f \in ToSet(files), NEW i \in DOMAIN f.items, f.items[i].up # 0
       PROVE  f.items[i].up \in SymbolsIn(f)
  <2> DEFINE up == f.items[i].up
  <2>1. \E I : f.items \in Seq(I)
    BY <1>11 DEF AreWalked
  <2>2. up \in 0 .. i - 1 /\ f.items[up].kind \in OuterKinds
    BY <1>9, <1>13 DEF Fits
  <2>3. up \in DOMAIN f.items
    BY <1>13, <2>1, <2>2
  <2> HIDE DEF up
  <2>4. Src!IsSymbol(f, up)
    BY <2>2 DEF OuterKinds, Src!IsSymbol, Src!SymbolKind
  <2> QED
    BY <2>3, <2>4 DEF SymbolsIn, up
<1>14. \A f \in ToSet(files) : AreNested(f)
  BY <1>13 DEF AreNested
<1>15. \A f, h \in ToSet(files) : f.path = h.path => f.items = h.items
  BY <1>2, <1>5
<1>16. AreWalkedFiles(files, N)
  BY <1>1, <1>9, <1>11, <1>12 DEF AreWalkedFiles
<1> QED
  BY <1>4, <1>6, <1>10, <1>12, <1>14, <1>15, <1>16 DEF files

\* What a probe of a tree is.
ProbedTree ==
  probe.part = "tree" => \E a \in Templates : \E b \in Templates : probe.files = Tree(a, b)

LEMMA ProbedTreeStep == ProbedTree /\ [Next]_probe => ProbedTree'
<1> SUFFICES ASSUME ProbedTree, [Next]_probe PROVE ProbedTree'
  OBVIOUS
<1> USE DEF ProbedTree
<1>1. CASE ProbeTree
  <2>1. PICK a, b \in Templates : probe' = [part |-> "tree", files |-> Tree(a, b)]
    BY <1>1 DEF ProbeTree
  <2>2. probe'.files = Tree(a, b)
    BY <2>1
  <2> QED
    BY <2>2
<1>2. CASE ProbeLine
  BY <1>2 DEF ProbeLine
<1>3. CASE ProbeTests
  BY <1>3 DEF ProbeTests
<1>4. CASE ProbeOutput
  BY <1>4 DEF ProbeOutput
<1>5. CASE ProbeDiff
  BY <1>5 DEF ProbeDiff
<1>6. CASE ProbeRebuild
  BY <1>6 DEF ProbeRebuild
<1>7. CASE UNCHANGED probe
  BY <1>7
<1> QED
  BY <1>1, <1>2, <1>3, <1>4, <1>5, <1>6, <1>7 DEF Next

LEMMA TreesAreResolved == ProbedTree => MentionsAreResolved
<1> SUFFICES ASSUME ProbedTree, probe.part = "tree"
             PROVE  LET g == Src!BuildAll(probe.files)
                    IN /\ Closed(g, probe.files) /\ NoneIsLost(g, probe.files)
                       /\ NoneIsInvented(g, probe.files)
  BY DEF MentionsAreResolved
<1>1. PICK a \in Templates, b \in Templates : probe.files = Tree(a, b)
  BY DEF ProbedTree
<1> DEFINE files == probe.files
<1>2. /\ \E N : AreWalkedFiles(files, N)
      /\ \A f \in ToSet(files) : AreFormed(f) /\ IsMade(files, f.prefix)
      /\ AreOrdered(files)
  BY <1>1, TreeIsWalked
<1> HIDE DEF files
<1>3. Closed(Src!BuildAll(files), files)
  BY <1>2, EveryGraphIsClosed
<1>4. IsSortable(Src!SymbolTable(files, Src!NoGraph, {}))
  BY <1>2, WalkedAreSources, TableIsSortable
<1>5. NoneIsLost(Src!BuildAll(files), files) /\ NoneIsInvented(Src!BuildAll(files), files)
  BY <1>2, <1>4, NoUseIsLost, NoUseIsInvented DEF Src!BuildAll
<1> QED
  BY <1>3, <1>5 DEF files

LEMMA TreesShowSubjects == ProbedTree => BodiesAreTheSubjects
<1> SUFFICES ASSUME ProbedTree, probe.part = "tree"
             PROVE  LET g == Src!BuildAll(probe.files)
                    IN /\ Knows(g, probe.files)
                       /\ \A level \in {Src!Skeleton, Src!Implementation} :
                            ShowsSubjects(g, probe.files, level)
  BY DEF BodiesAreTheSubjects
<1>1. PICK a \in Templates, b \in Templates : probe.files = Tree(a, b)
  BY DEF ProbedTree
<1> DEFINE files == probe.files
<1>2. /\ \E N : AreWalkedFiles(files, N)
      /\ AreFiles(files) /\ AreOrdered(files)
      /\ \A f \in ToSet(files) : AreNested(f)
      /\ \A f, h \in ToSet(files) : f.path = h.path => f.items = h.items
  BY <1>1, TreeIsWalked
<1> HIDE DEF files
<1>3. \A level \in {Src!Skeleton, Src!Implementation} :
        /\ Knows(Src!BuildAll(files), files)
        /\ ShowsSubjects(Src!BuildAll(files), files, level)
  BY <1>2, EveryExpansionIsItsSubjects
<1>4. \E level : level \in {Src!Skeleton, Src!Implementation}
  OBVIOUS
<1> QED
  BY <1>3, <1>4 DEF files

(* In every tree the run probes no use is lost and none is invented.       *)
THEOREM ProbedMentionsAreResolved == Spec => []MentionsAreResolved
<1>1. Init => ProbedTree
  BY DEF Init, None, ProbedTree
<1> QED
  BY <1>1, ProbedTreeStep, TreesAreResolved, PTL DEF Spec

(* Every expansion of every tree the run probes shows its subjects.        *)
THEOREM ProbedBodiesAreTheSubjects == Spec => []BodiesAreTheSubjects
<1>1. Init => ProbedTree
  BY DEF Init, None, ProbedTree
<1> QED
  BY <1>1, ProbedTreeStep, TreesShowSubjects, PTL DEF Spec

-----------------------------------------------------------------------------
(* The summary of a test run.                                              *)

Tests == INSTANCE FoldFacts WITH op <- LAMBDA c, s, l : TestLine(s, l)

\* Where the reducer stands after some lines.
After(s, lines) == FoldLeft(TestLine, s, lines)

LEMMA AfterIsFold == ASSUME NEW s, NEW lines PROVE After(s, lines) = Tests!Fold({}, s, lines)
BY DEF After, Tests!Fold, Tests!FoldLeft, FoldLeft, Tests!MapThenFoldSet, MapThenFoldSet,
       Max, Tests!Max

LEMMA AfterBoth ==
  ASSUME NEW T, NEW one \in Seq(T), NEW two \in Seq(T), NEW s
  PROVE  After(s, one \o two) = After(After(s, one), two)
BY AfterIsFold, Tests!FoldConcat

LEMMA AfterNone == ASSUME NEW s PROVE After(s, <<>>) = s
BY AfterIsFold, Tests!FoldEmpty

LEMMA AfterOne == ASSUME NEW s, NEW l PROVE After(s, <<l>>) = TestLine(s, l)
BY AfterIsFold, Tests!FoldOne

\* Lines that the reducer passes over, each where it stands.
LEMMA AfterQuiet ==
  ASSUME NEW T, NEW lines \in Seq(T), NEW s, \A k \in DOMAIN lines : TestLine(s, lines[k]) = s
  PROVE  After(s, lines) = s
<1> DEFINE run == [k \in 0 .. Len(lines) |-> s]
<1>1. Len(lines) \in Nat /\ DOMAIN lines = 1 .. Len(lines)
  OBVIOUS
<1>2. /\ run[0] = s /\ run[Len(lines)] = s
      /\ \A k \in 1 .. Len(lines) : run[k] = s /\ run[k - 1] = s
  BY <1>1
<1> HIDE DEF run
<1>3. Tests!IsRun({}, s, lines, run)
  BY <1>1, <1>2 DEF Tests!IsRun
<1>4. Tests!Fold({}, s, lines) = run[Len(lines)]
  BY <1>3, Tests!RunIsFold
<1> QED
  BY <1>2, <1>4, AfterIsFold

\* The counters, the names and the place in the output.
TestAt(c, names, inF, inD) ==
  [passed |-> c.passed, failed |-> c.failed, ignored |-> c.ignored, harnesses |-> c.harnesses,
   names |-> names, inFailures |-> inF, inDetail |-> inD]

\* What each line does.
LEMMA BlankStep ==
  ASSUME NEW s, NEW l, l.tag = "blank" PROVE TestLine(s, l) = s
BY DEF TestLine

\* Outside the failures, below their heading, and within what one of them printed.
Between(c, names)  == TestAt(c, names, FALSE, FALSE)
Naming(c, names)   == TestAt(c, names, TRUE, FALSE)
Printing(c, names) == TestAt(c, names, TRUE, TRUE)

LEMMA PlainStep ==
  ASSUME NEW c, NEW names, NEW l, l.tag = "plain"
  PROVE  TestLine(Between(c, names), l) = Between(c, names)
BY DEF TestLine, TestAt, Between

\* What a failing test prints is passed over, whatever it is.
LEMMA DetailStep ==
  ASSUME NEW c, NEW names, NEW l, l.tag \notin {"result", "failures"}
  PROVE  TestLine(Printing(c, names), l) = Printing(c, names)
<1>1. CASE l.tag = "detail"
  BY <1>1 DEF TestLine, TestAt, Printing
<1>2. CASE l.tag = "blank"
  BY <1>2, BlankStep
<1>3. CASE l.tag \notin {"detail", "blank"}
  BY <1>3 DEF TestLine, TestAt, Printing
<1> QED
  BY <1>1, <1>2, <1>3

LEMMA FailuresStep ==
  ASSUME NEW c, NEW names, NEW l, l.tag = "failures",
         NEW s \in {Between(c, names), Naming(c, names), Printing(c, names)}
  PROVE  TestLine(s, l) = Naming(c, names)
<1>1. PICK t : t = TestLine(s, l)
  OBVIOUS
<1>2. PICK inF, inD : s = TestAt(c, names, inF, inD)
  BY DEF Between, Naming, Printing
<1>3. t = [s EXCEPT !.inFailures = TRUE, !.inDetail = FALSE]
  BY <1>1 DEF TestLine
<1>4. t = TestAt(c, names, TRUE, FALSE)
  BY <1>2, <1>3 DEF TestAt
<1> QED
  BY <1>1, <1>4 DEF Naming

LEMMA HeadStep ==
  ASSUME NEW c, NEW names, NEW l, l.tag = "detail",
         NEW s \in {Naming(c, names), Printing(c, names)}
  PROVE  TestLine(s, l) = Printing(c, names)
<1>1. PICK t : t = TestLine(s, l)
  OBVIOUS
<1>2. s.inFailures
  BY DEF TestAt, Naming, Printing
<1>3. PICK inD : s = TestAt(c, names, TRUE, inD)
  BY DEF Naming, Printing
<1>4. t = [s EXCEPT !.inDetail = TRUE]
  BY <1>1, <1>2 DEF TestLine
<1>5. t = TestAt(c, names, TRUE, TRUE)
  BY <1>3, <1>4 DEF TestAt
<1> QED
  BY <1>1, <1>5 DEF Printing

LEMMA NameStep ==
  ASSUME NEW c, NEW names, NEW l, l.tag = "indented"
  PROVE  TestLine(Naming(c, names), l) = Naming(c, Append(names, l.name))
BY DEF TestLine, TestAt, Naming

LEMMA ResultStep ==
  ASSUME NEW c, NEW names, NEW l, l.tag = "result", NEW d,
         NEW r \in {Between(c, names), Naming(c, names)},
         d.passed = c.passed + l.passed, d.failed = c.failed + l.failed,
         d.ignored = c.ignored + l.ignored, d.harnesses = c.harnesses + 1
  PROVE  TestLine(r, l) = Between(d, names)
<1>1. PICK s : s = TestLine(r, l)
  OBVIOUS
<1>2. s = [r EXCEPT !.passed = r.passed + l.passed, !.failed = r.failed + l.failed,
                    !.ignored = r.ignored + l.ignored, !.harnesses = r.harnesses + 1,
                    !.inFailures = FALSE, !.inDetail = FALSE]
  BY <1>1 DEF TestLine
<1>3. /\ r.passed + l.passed = d.passed /\ r.failed + l.failed = d.failed
      /\ r.ignored + l.ignored = d.ignored /\ r.harnesses + 1 = d.harnesses
  BY DEF TestAt, Between, Naming
<1>4. s = [r EXCEPT !.passed = d.passed, !.failed = d.failed, !.ignored = d.ignored,
                    !.harnesses = d.harnesses, !.inFailures = FALSE, !.inDetail = FALSE]
  BY <1>2, <1>3
<1>5. PICK inF, inD : r = TestAt(c, names, inF, inD)
  BY DEF Between, Naming
<1>6. s = TestAt(d, names, FALSE, FALSE)
  BY <1>5, <1>4 DEF TestAt
<1> QED
  BY <1>1, <1>6 DEF Between

LEMMA Tags ==
  ASSUME NEW t, NEW n
  PROVE  Line(t).tag = t /\ Named(t, n).tag = t /\ Named(t, n).name = n
BY DEF Line, Named

\* A line that no test should print.
Printable(C) == \A l \in C : l.tag \notin {"result", "failures"}

\* The lines of a harness.
HarnessLines(N, C) ==
  {Line("plain"), Line("blank"), Line("failures"), Line("detail")} \cup C
    \cup {Named("indented", n) : n \in N}
    \cup [tag : {"result"}, passed : Nat, failed : Nat, ignored : {1}]

LEMMA OneDetail ==
  ASSUME NEW N, NEW C, Printable(C), NEW captured \in Seq(C), NEW c, NEW names,
         NEW from \in {Naming(c, names), Printing(c, names)}
  PROVE  LET block == <<Line("detail")>> \o captured \o <<Line("blank")>>
         IN /\ block \in Seq(HarnessLines(N, C))
            /\ After(from, block) = Printing(c, names)
<1> DEFINE H == HarnessLines(N, C)
           s == Printing(c, names)
           first == <<Line("detail")>>
           last == <<Line("blank")>>
<1>1. first \in Seq(H) /\ last \in Seq(H) /\ captured \in Seq(H)
  <2>1. C \subseteq H /\ Line("detail") \in H /\ Line("blank") \in H
    BY DEF HarnessLines
  <2> HIDE DEF H
  <2> QED
    BY <2>1
<1>2. After(from, first) = s
  <2>1. TestLine(from, Line("detail")) = Printing(c, names)
    BY HeadStep, Tags
  <2> QED
    BY <2>1, AfterOne
<1>3. After(s, captured) = s
  <2>1. \A k \in DOMAIN captured : captured[k].tag \notin {"result", "failures"}
    BY DEF Printable
  <2> QED
    BY <2>1, DetailStep, AfterQuiet
<1>4. After(s, last) = s
  <2>1. TestLine(s, Line("blank")) = s
    BY BlankStep, Tags
  <2> QED
    BY <2>1, AfterOne
<1> HIDE DEF H, s, first, last
<1>5. After(from, first \o captured) = s
  BY <1>1, <1>2, <1>3, AfterBoth
<1>6. first \o captured \in Seq(H)
  BY <1>1
<1>7. After(from, (first \o captured) \o last) = s
  BY <1>1, <1>4, <1>5, <1>6, AfterBoth
<1>8. (first \o captured) \o last \in Seq(H)
  BY <1>1, <1>6
<1> QED
  BY <1>7, <1>8 DEF H, s, first, last

DetailOf(n, captured) ==
  FlattenSeq([i \in 1 .. n |-> <<Line("detail")>> \o captured \o <<Line("blank")>>])

\* Each failing test has a block, and in the end the reducer is in one.
LEMMA AllDetail ==
  ASSUME NEW N, NEW C, Printable(C), NEW captured \in Seq(C), NEW c, NEW names, NEW n \in Nat
  PROVE  /\ DetailOf(n, captured) \in Seq(HarnessLines(N, C))
         /\ After(Naming(c, names), DetailOf(n, captured))
              \in {Naming(c, names), Printing(c, names)}
<1> DEFINE H == HarnessLines(N, C)
           block == <<Line("detail")>> \o captured \o <<Line("blank")>>
           blocks == [i \in 1 .. n |-> block]
           start == Naming(c, names)
           inside == Printing(c, names)
           P(run) == {k \in Nat : k = 0 \/ After(start, run[k]) = inside}
<1>1. /\ block \in Seq(H) /\ After(start, block) = inside /\ After(inside, block) = inside
  BY OneDetail
<1> HIDE DEF H, block
<1>2. blocks \in Seq(Seq(H)) /\ Len(blocks) = n /\ \A i \in 1 .. n : blocks[i] = block
  BY <1>1
<1> HIDE DEF blocks, start, inside
<1>3. FlattenSeq(blocks) = Src!FlattenSeq(blocks)
  BY DEF FlattenSeq, Src!FlattenSeq
<1>4. PICK run : /\ run[0] = <<>> /\ Src!FlattenSeq(blocks) = run[n]
                 /\ \A k \in 0 .. n - 1 : run[k + 1] = run[k] \o blocks[k + 1]
                 /\ \A k \in 0 .. n : run[k] \in Seq(H)
  BY <1>2, FlattenRun
<1>5. ASSUME NEW k \in 0 .. n - 1, k \in P(run)
      PROVE  k + 1 \in P(run)
  <2>1. k \in 0 .. n /\ k + 1 \in 1 .. n /\ k + 1 \in Nat
    OBVIOUS
  <2>2. run[k + 1] = run[k] \o block /\ run[k] \in Seq(H)
    BY <1>2, <1>4, <2>1
  <2>3. After(start, run[k + 1]) = After(After(start, run[k]), block)
    <3>1. After(start, run[k] \o block) = After(After(start, run[k]), block)
      <4>1. \A a, b \in Seq(H) : After(start, a \o b) = After(After(start, a), b)
        BY AfterBoth
      <4>2. run[k] \in Seq(H)
        BY <2>2
      <4> QED
        BY <1>1, <4>1, <4>2, Zenon
    <3> QED
      BY <2>2, <3>1, Zenon
  <2>4. After(start, run[k]) \in {start, inside}
    <3>1. CASE k = 0
      BY <1>4, <3>1, AfterNone
    <3>2. CASE k # 0
      BY <1>5, <3>2
    <3> QED
      BY <3>1, <3>2
  <2>5. After(start, run[k + 1]) = inside
    BY <1>1, <2>3, <2>4
  <2> QED
    BY <2>1, <2>5
<1>6. n \in P(run)
  <2>1. 0 \in P(run) /\ n \in 0 .. n
    OBVIOUS
  <2> HIDE DEF P
  <2> QED
    BY <1>5, <2>1, Sift!Reaches
<1>7. FlattenSeq(blocks) \in Seq(H)
  <2>1. n \in 0 .. n
    OBVIOUS
  <2> QED
    BY <1>3, <1>4, <2>1
<1>8. CASE n = 0
  BY <1>3, <1>4, <1>7, <1>8, AfterNone DEF H, blocks, start, block, DetailOf
<1>9. CASE n # 0
  BY <1>3, <1>4, <1>6, <1>7, <1>9 DEF H, blocks, start, inside, block, DetailOf
<1> QED
  BY <1>8, <1>9

\* The names below the second `failures:` are noted in their order.
LEMMA NamesAreNoted ==
  ASSUME NEW N, NEW C, NEW ns \in Seq(N), NEW names \in Seq(N), NEW c
  PROVE  LET listed == [i \in DOMAIN ns |-> Named("indented", ns[i])]
         IN /\ listed \in Seq(HarnessLines(N, C))
            /\ After(Naming(c, names), listed)
                 = Naming(c, names \o ns)
<1> DEFINE m == Len(ns)
           listed == [i \in DOMAIN ns |-> Named("indented", ns[i])]
           now(k) == names \o SubSeq(ns, 1, k)
           start == Naming(c, names)
<1>1. m \in Nat /\ DOMAIN ns = 1 .. m /\ \A i \in 1 .. m : ns[i] \in N
  OBVIOUS
<1>2. listed \in Seq(HarnessLines(N, C)) /\ Len(listed) = m
  <2>1. \A i \in 1 .. m : Named("indented", ns[i]) \in HarnessLines(N, C)
    BY <1>1 DEF HarnessLines
  <2> QED
    BY <1>1, <2>1
<1>3. \A i \in 1 .. m : listed[i].tag = "indented" /\ listed[i].name = ns[i]
  BY <1>1, Tags
<1>4. now(0) = names /\ now(m) = names \o ns
  OBVIOUS
<1>5. ASSUME NEW k \in 1 .. m
      PROVE  now(k) = Append(now(k - 1), ns[k])
  <2> DEFINE one == now(k)
             two == Append(now(k - 1), ns[k])
             l == Len(names)
  <2>1. /\ SubSeq(ns, 1, k) \in Seq(N) /\ SubSeq(ns, 1, k - 1) \in Seq(N)
        /\ Len(SubSeq(ns, 1, k)) = k /\ Len(SubSeq(ns, 1, k - 1)) = k - 1
        /\ \A i \in 1 .. k : SubSeq(ns, 1, k)[i] = ns[i]
        /\ \A i \in 1 .. k - 1 : SubSeq(ns, 1, k - 1)[i] = ns[i]
    BY <1>1
  <2>2. SubSeq(ns, 1, k) = Append(SubSeq(ns, 1, k - 1), ns[k])
    <3> DEFINE a == SubSeq(ns, 1, k)
               b == Append(SubSeq(ns, 1, k - 1), ns[k])
    <3>1. /\ a \in Seq(N) /\ b \in Seq(N) /\ Len(a) = k /\ Len(b) = k
          /\ \A i \in 1 .. k : a[i] = b[i]
      BY <1>1, <2>1
    <3> HIDE DEF a, b
    <3>2. a = b
      BY <3>1, SeqEqual
    <3> QED
      BY <3>2 DEF a, b
  <2>3. \A x \in Seq(N), y \in N : names \o Append(x, y) = Append(names \o x, y)
    OBVIOUS
  <2> QED
    BY <1>1, <2>1, <2>2, <2>3
<1> HIDE DEF listed, now
<1> DEFINE at(k) == Naming(c, now(k))
<1>6. ASSUME NEW k \in 1 .. m
      PROVE  at(k) = TestLine(at(k - 1), listed[k])
  <2>1. listed[k].tag = "indented" /\ listed[k].name = ns[k]
    BY <1>3
  <2> DEFINE l == listed[k]
             before == now(k - 1)
  <2>2. now(k) = Append(before, l.name)
    BY <1>5, <2>1
  <2>3. l.tag = "indented"
    BY <2>1
  <2> HIDE DEF l, before
  <2>4. TestLine(Naming(c, before), l) = Naming(c, Append(before, l.name))
    BY <2>3, NameStep
  <2> QED
    BY <2>2, <2>4 DEF l, before
<1>7. at(0) = start /\ at(m) = Naming(c, names \o ns)
  BY <1>4
<1> HIDE DEF at, start
<1> DEFINE run == [k \in 0 .. m |-> at(k)]
<1>8. run[0] = at(0) /\ run[m] = at(m)
      /\ \A k \in 1 .. m : run[k] = at(k) /\ run[k - 1] = at(k - 1)
  BY <1>1
<1> HIDE DEF run
<1>9. Tests!IsRun({}, start, listed, run)
  BY <1>2, <1>6, <1>7, <1>8 DEF Tests!IsRun
<1>10. Tests!Fold({}, start, listed) = run[m]
  BY <1>2, <1>9, Tests!RunIsFold
<1>11. After(start, listed) = Naming(c, names \o ns)
  BY <1>7, <1>8, <1>10, AfterIsFold
<1> QED
  BY <1>2, <1>11 DEF listed, start

LEMMA SetToSeqIs ==
  ASSUME NEW S, IsFiniteSet(S)
  PROVE  /\ SetToSeq(S) \in Seq(S) /\ Len(SetToSeq(S)) = Cardinality(S)
         /\ Cardinality(S) \in Nat
<1>1. Cardinality(S) \in Nat /\ ExistsBijection(1 .. Cardinality(S), S)
  BY FS_CardinalityType
<1>2. PICK f \in [1 .. Cardinality(S) -> S] : IsInjective(f)
  BY <1>1 DEF ExistsBijection, Bijection, Injection, IsInjective
<1>3. SetToSeq(S) \in [1 .. Cardinality(S) -> S]
  BY <1>2 DEF SetToSeq
<1> QED
  BY <1>1, <1>3

LEMMA WhereTheSecondBegins ==
  ASSUME NEW T, NEW x \in Seq(T), NEW y \in Seq(T), Len(y) > 0
  PROVE  Len(x) + 1 \in DOMAIN (x \o y) /\ (x \o y)[Len(x) + 1] = y[1]
<1>1. Len(x) \in Nat /\ Len(y) \in Nat
  OBVIOUS
<1>2. PICK n, m : n = Len(x) /\ m = Len(y) /\ n \in Nat /\ m \in Nat
  BY <1>1, Zenon
<1>3. /\ x \o y \in Seq(T) /\ Len(x \o y) = n + m
      /\ \A i \in 1 .. n + m : (x \o y)[i] = IF i <= n THEN x[i] ELSE y[i - n]
  BY <1>2, ConcatProperties
<1>4. n + 1 \in 1 .. n + m /\ ~(n + 1 <= n) /\ n + 1 - n = 1
  BY <1>2
<1> QED
  BY <1>2, <1>3, <1>4

LEMMA AfterTwo ==
  ASSUME NEW s, NEW a, NEW b, NEW T, a \in T, b \in T
  PROVE  <<a, b>> \in Seq(T) /\ After(s, <<a, b>>) = TestLine(TestLine(s, a), b)
<1>1. <<a>> \in Seq(T) /\ <<b>> \in Seq(T) /\ <<a, b>> \in Seq(T)
  OBVIOUS
<1>2. <<a, b>> = <<a>> \o <<b>>
  <2> DEFINE both == <<a>> \o <<b>>
             pair == <<a, b>>
  <2>1. both \in Seq(T) /\ Len(both) = 2 /\ both[1] = a /\ both[2] = b
    <3>1. ASSUME NEW x \in Seq(T), NEW y \in Seq(T), Len(x) = 1, Len(y) = 1
          PROVE  /\ x \o y \in Seq(T) /\ Len(x \o y) = 2
                 /\ (x \o y)[1] = x[1] /\ (x \o y)[2] = y[1]
      BY <3>1, ConcatProperties
    <3>2. Len(<<a>>) = 1 /\ Len(<<b>>) = 1 /\ <<a>>[1] = a /\ <<b>>[1] = b
      OBVIOUS
    <3> QED
      BY <1>1, <3>1, <3>2, Zenon
  <2>2. pair \in Seq(T) /\ Len(pair) = 2 /\ pair[1] = a /\ pair[2] = b
    BY <1>1
  <2> HIDE DEF both, pair
  <2>3. Len(both) = Len(pair) /\ \A k \in 1 .. Len(both) : both[k] = pair[k]
    BY <2>1, <2>2
  <2>4. both = pair
    BY <2>1, <2>2, <2>3, SeqEqual
  <2> QED
    BY <2>4 DEF both, pair
<1>3. After(s, <<a>> \o <<b>>) = After(After(s, <<a>>), <<b>>)
  BY <1>1, AfterBoth
<1>4. After(s, <<a>>) = TestLine(s, a) /\ After(TestLine(s, a), <<b>>) = TestLine(TestLine(s, a), b)
  BY AfterOne
<1> QED
  BY <1>1, <1>2, <1>3, <1>4, Zenon

\* The line that ends a harness.
ResultLine(passed, failed) ==
  [tag |-> "result", passed |-> passed, failed |-> failed, ignored |-> 1]

\* The names that failed, with those of another harness.
Noted(names, failing) == names \o SetToSeq(failing)

\* The part of a harness that tells of the failing tests.
FailurePart(failing, captured) ==
  LET names  == SetToSeq(failing)
      Detail == FlattenSeq([i \in DOMAIN names |->
                              <<Line("detail")>> \o captured \o <<Line("blank")>>])
      Names  == [i \in DOMAIN names |-> Named("indented", names[i])]
  IN <<Line("failures"), Line("blank")>> \o Detail
       \o <<Line("failures")>> \o Names \o <<Line("blank")>>

LEMMA FailurePartFold ==
  ASSUME NEW N, NEW C, Printable(C), NEW captured \in Seq(C), NEW c, NEW names \in Seq(N),
         NEW failing \in SUBSET N, IsFiniteSet(failing)
  PROVE  /\ FailurePart(failing, captured) \in Seq(HarnessLines(N, C))
         /\ After(Between(c, names), FailurePart(failing, captured))
              = Naming(c, Noted(names, failing))
<1> DEFINE H == HarnessLines(N, C)
           ns == SetToSeq(failing)
           m == Len(ns)
           head == <<Line("failures"), Line("blank")>>
           detail == DetailOf(m, captured)
           again == <<Line("failures")>>
           listed == [i \in DOMAIN ns |-> Named("indented", ns[i])]
           last == <<Line("blank")>>
           s0 == Between(c, names)
           s1 == Naming(c, names)
           s3 == Naming(c, names \o ns)
<1>1. ns \in Seq(N) /\ m \in Nat /\ DOMAIN ns = 1 .. m
  <2>1. ns \in Seq(failing)
    BY SetToSeqIs
  <2> HIDE DEF ns
  <2> QED
    BY <2>1
<1>2. FailurePart(failing, captured) = head \o detail \o again \o listed \o last
  BY <1>1 DEF FailurePart, DetailOf
<1> HIDE DEF ns, m
<1>3. Line("failures") \in H /\ Line("blank") \in H
  BY DEF HarnessLines
<1>4. /\ detail \in Seq(HarnessLines(N, C))
      /\ After(s1, detail) \in {Naming(c, names), Printing(c, names)}
  BY <1>1, AllDetail
<1> DEFINE s2 == After(s1, detail)
<1> HIDE DEF H
<1>5. /\ TestLine(s0, Line("failures")) = s1 /\ TestLine(s1, Line("blank")) = s1
      /\ TestLine(s2, Line("failures")) = s1 /\ TestLine(s3, Line("blank")) = s3
  <2>1. Line("failures").tag = "failures" /\ Line("blank").tag = "blank"
    BY Tags
  <2>2. TestLine(s0, Line("failures")) = s1
    BY <2>1, FailuresStep
  <2>3. TestLine(s2, Line("failures")) = s1
    <3>1. s2 \in {Naming(c, names), Printing(c, names)}
      BY <1>4
    <3> HIDE DEF s2
    <3> QED
      BY <2>1, <3>1, FailuresStep
  <2>4. /\ TestLine(s1, Line("blank")) = s1 /\ TestLine(s3, Line("blank")) = s3
    BY <2>1, BlankStep, Zenon
  <2> QED
    BY <2>2, <2>4, <2>3
<1>6. listed \in Seq(H) /\ After(s1, listed) = s3
  BY <1>1, NamesAreNoted DEF H
<1> HIDE DEF detail, listed, s0, s1, s2, s3
<1>7. head \in Seq(H) /\ After(s0, head) = s1
  BY <1>3, <1>5, AfterTwo
<1>8. again \in Seq(H) /\ After(s2, again) = s1 /\ last \in Seq(H) /\ After(s3, last) = s3
  BY <1>3, <1>5, AfterOne
<1> HIDE DEF head, again, last
<1>9. \A a, b \in Seq(H) : \A s : a \o b \in Seq(H) /\ After(s, a \o b) = After(After(s, a), b)
  BY AfterBoth
<1>10. detail \in Seq(H) /\ After(s1, detail) = s2
  BY <1>4 DEF H, s2
<1>11. head \o detail \in Seq(H) /\ After(s0, head \o detail) = s2
  BY <1>7, <1>9, <1>10
<1>12. head \o detail \o again \in Seq(H) /\ After(s0, head \o detail \o again) = s1
  BY <1>8, <1>9, <1>11
<1>13. /\ head \o detail \o again \o listed \in Seq(H)
       /\ After(s0, head \o detail \o again \o listed) = s3
  BY <1>6, <1>9, <1>12
<1>14. /\ head \o detail \o again \o listed \o last \in Seq(H)
       /\ After(s0, head \o detail \o again \o listed \o last) = s3
  BY <1>8, <1>9, <1>13
<1> QED
  BY <1>2, <1>14 DEF H, s0, s3, ns, Noted

\* The counters after a harness, next to those before it.
Adds(c, d, passed, failing) ==
  /\ d.passed = c.passed + passed /\ d.failed = c.failed + Cardinality(failing)
  /\ d.ignored = c.ignored + 1 /\ d.harnesses = c.harnesses + 1

\* A harness adds its counts, and its failing tests by name.
LEMMA HarnessFold ==
  ASSUME NEW N, NEW C, Printable(C), NEW captured \in Seq(C), NEW c, NEW names \in Seq(N),
         NEW failing \in SUBSET N, IsFiniteSet(failing), NEW passed \in Nat,
         NEW d, Adds(c, d, passed, failing)
  PROVE  /\ Harness(passed, failing, captured) \in Seq(HarnessLines(N, C))
         /\ IsHarness(Harness(passed, failing, captured))
         /\ After(Between(c, names), Harness(passed, failing, captured))
              = Between(d, Noted(names, failing))
<1> DEFINE H == HarnessLines(N, C)
           result == ResultLine(passed, Cardinality(failing))
           intro == <<Line("plain"), Line("blank")>>
           part == IF failing = {} THEN <<>> ELSE FailurePart(failing, captured)
           end == <<result, Line("blank")>>
           named == Noted(names, failing)
           s0 == Between(c, names)
           s1 == IF failing = {} THEN Between(c, named) ELSE Naming(c, named)
           s2 == Between(d, named)
<1>1. Harness(passed, failing, captured) = intro \o part \o end
  BY DEF Harness, FailurePart, ResultLine
<1>2. Cardinality(failing) \in Nat /\ SetToSeq(failing) \in Seq(failing)
      /\ Len(SetToSeq(failing)) = Cardinality(failing)
  BY SetToSeqIs
<1>3. Line("plain") \in H /\ Line("blank") \in H /\ result \in H
  BY <1>2 DEF HarnessLines, ResultLine
<1>4. /\ result.tag = "result" /\ result.passed = passed /\ result.ignored = 1
      /\ result.failed = Cardinality(failing)
  BY DEF ResultLine
<1> HIDE DEF H, result
<1>5. TestLine(s0, Line("plain")) = s0 /\ TestLine(s0, Line("blank")) = s0
       /\ TestLine(s2, Line("blank")) = s2
  <2>1. Line("plain").tag = "plain" /\ Line("blank").tag = "blank"
    BY Tags
  <2> QED
    BY <2>1, PlainStep, BlankStep, Zenon
<1>6. TestLine(s1, result) = s2
  <2>1. /\ d.passed = c.passed + result.passed /\ d.failed = c.failed + result.failed
        /\ d.ignored = c.ignored + result.ignored /\ d.harnesses = c.harnesses + 1
    BY <1>4 DEF Adds
  <2>2. s1 \in {Between(c, named), Naming(c, named)}
    OBVIOUS
  <2> HIDE DEF named, s1
  <2> QED
    BY <1>4, <2>1, <2>2, ResultStep
<1>7. part \in Seq(H) /\ After(s0, part) = s1
  <2>1. CASE failing = {}
    <3>1. SetToSeq(failing) = <<>>
      BY <1>2, <2>1, FS_EmptySet
    <3>2. named = names
      BY <3>1 DEF Noted
    <3>3. s1 = Between(c, named) /\ part = <<>>
      BY <2>1
    <3>4. s1 = s0
      BY <3>2, <3>3, Zenon
    <3>5. After(s0, <<>>) = s0
      BY AfterNone, Zenon
    <3>6. <<>> \in Seq(H)
      OBVIOUS
    <3> QED
      BY <3>3, <3>4, <3>5, <3>6, Zenon
  <2>2. CASE failing # {}
    <3>1. s1 = Naming(c, named) /\ part = FailurePart(failing, captured)
      BY <2>2
    <3>2. FailurePart(failing, captured) \in Seq(HarnessLines(N, C))
      BY FailurePartFold
    <3>3. After(s0, FailurePart(failing, captured)) = Naming(c, named)
      BY <3>2, FailurePartFold
    <3> QED
      BY <3>1, <3>2, <3>3, Zenon DEF H
  <2> QED
    BY <2>1, <2>2
<1> HIDE DEF part, s0, s1, s2
<1>8. intro \in Seq(H) /\ After(s0, intro) = s0
  BY <1>3, <1>5, AfterTwo
<1>9. end \in Seq(H) /\ Len(end) = 2 /\ end[1] = result /\ After(s1, end) = s2
  BY <1>3, <1>5, <1>6, AfterTwo
<1> HIDE DEF intro, end
<1>10. \A a, b \in Seq(H) : \A s : a \o b \in Seq(H) /\ After(s, a \o b) = After(After(s, a), b)
  BY AfterBoth
<1>11. intro \o part \in Seq(H) /\ After(s0, intro \o part) = s1
  BY <1>8, <1>7, <1>10
<1>12. intro \o part \o end \in Seq(H) /\ After(s0, intro \o part \o end) = s2
  BY <1>9, <1>10, <1>11
<1>13. \E i \in DOMAIN (intro \o part \o end) : (intro \o part \o end)[i].tag = "result"
  <2> DEFINE front == intro \o part
  <2> HIDE DEF front
  <2>1. front \in Seq(H)
    BY <1>11 DEF front
  <2>2. Len(front) + 1 \in DOMAIN (front \o end) /\ (front \o end)[Len(front) + 1] = result
    <3>1. Len(end) > 0
      BY <1>9
    <3> QED
      BY <1>9, <2>1, <3>1, WhereTheSecondBegins, Zenon
  <2> QED
    BY <1>4, <2>2 DEF front
<1> QED
  BY <1>1, <1>12, <1>13 DEF H, s0, s2, IsHarness

\* What a reducer lists and what it only counts are all it has.
LEMMA ShownAndMore ==
  ASSUME NEW T, NEW items \in Seq(T)
  PROVE  /\ Shown(items) \in Seq(T) /\ More(items) \in Nat
         /\ Len(Shown(items)) + More(items) = Len(items)
<1> DEFINE upTo == IF Len(items) < Cap THEN Len(items) ELSE Cap
<1>1. Len(items) \in Nat /\ upTo \in Nat /\ upTo <= Len(items)
  BY CapAssumption
<1> HIDE DEF upTo
<1>2. SubSeq(items, 1, upTo) \in Seq(T) /\ Len(SubSeq(items, 1, upTo)) = upTo
  BY <1>1
<1>3. Shown(items) = SubSeq(items, 1, upTo)
  BY DEF Shown, upTo
<1> QED
  BY <1>1, <1>2, <1>3 DEF More

LEMMA NotedIs ==
  ASSUME NEW N, NEW names \in Seq(N), NEW failing \in SUBSET N, IsFiniteSet(failing)
  PROVE  /\ Noted(names, failing) \in Seq(N)
         /\ Len(Noted(names, failing)) = Len(names) + Cardinality(failing)
<1>1. SetToSeq(failing) \in Seq(N) /\ Len(SetToSeq(failing)) = Cardinality(failing)
  <2>1. SetToSeq(failing) \in Seq(failing) /\ Len(SetToSeq(failing)) = Cardinality(failing)
    BY SetToSeqIs
  <2> QED
    BY <2>1
<1> QED
  BY <1>1 DEF Noted

AddBoth(c0, c2, p1, f1, p2, f2) == \E c1 : Adds(c0, c1, p1, f1) /\ Adds(c1, c2, p2, f2)

LEMMA TwoHarnesses ==
  ASSUME NEW N, NEW C, Printable(C),
         NEW names \in Seq(N), NEW c0, NEW c2,
         NEW p1 \in Nat, NEW f1 \in SUBSET N, IsFiniteSet(f1), NEW cap1 \in Seq(C),
         NEW p2 \in Nat, NEW f2 \in SUBSET N, IsFiniteSet(f2), NEW cap2 \in Seq(C),
         AddBoth(c0, c2, p1, f1, p2, f2)
  PROVE  /\ Harness(p1, f1, cap1) \o Harness(p2, f2, cap2) \in Seq(HarnessLines(N, C))
         /\ IsHarness(Harness(p1, f1, cap1) \o Harness(p2, f2, cap2))
         /\ After(Between(c0, names), Harness(p1, f1, cap1) \o Harness(p2, f2, cap2))
              = Between(c2, Noted(Noted(names, f1), f2))
<1> DEFINE h1 == Harness(p1, f1, cap1)
           h2 == Harness(p2, f2, cap2)
<1> PICK c1 : Adds(c0, c1, p1, f1) /\ Adds(c1, c2, p2, f2)
  BY DEF AddBoth
<1>1. Noted(names, f1) \in Seq(N)
  BY NotedIs
<1>2. /\ h1 \in Seq(HarnessLines(N, C)) /\ IsHarness(h1)
      /\ After(Between(c0, names), h1) = Between(c1, Noted(names, f1))
  <2>1. h1 \in Seq(HarnessLines(N, C))
    BY HarnessFold
  <2>2. IsHarness(h1)
    BY HarnessFold
  <2>3. After(Between(c0, names), h1) = Between(c1, Noted(names, f1))
    BY <2>1, HarnessFold
  <2> QED
    BY <2>1, <2>2, <2>3
<1>3. /\ h2 \in Seq(HarnessLines(N, C))
      /\ After(Between(c1, Noted(names, f1)), h2) = Between(c2, Noted(Noted(names, f1), f2))
  <2>1. h2 \in Seq(HarnessLines(N, C))
    BY HarnessFold
  <2>2. ASSUME NEW known \in Seq(N)
        PROVE  After(Between(c1, known), h2) = Between(c2, Noted(known, f2))
    BY <2>1, HarnessFold
  <2> QED
    BY <1>1, <2>1, <2>2
<1> HIDE DEF h1, h2
<1>4. IsHarness(h1 \o h2)
  <2>1. PICK i \in DOMAIN h1 : h1[i].tag \in {"result", "failures", "quote"}
    BY <1>2 DEF IsHarness
  <2>2. i \in DOMAIN (h1 \o h2) /\ (h1 \o h2)[i] = h1[i]
    BY <1>2, <1>3
  <2> QED
    BY <2>1, <2>2 DEF IsHarness
<1>5. h1 \o h2 \in Seq(HarnessLines(N, C))
  BY <1>2, <1>3
<1>6. After(Between(c0, names), h1 \o h2) = After(After(Between(c0, names), h1), h2)
  BY <1>2, <1>3, AfterBoth
<1> QED
  BY <1>2, <1>3, <1>4, <1>6, <1>5 DEF h1, h2

\* What the summary of two harnesses says, with nothing left out.
TestsAreSummed(p1, f1, cap1, p2, f2, cap2, exit) ==
  LET r == Reduce("CargoTest", Harness(p1, f1, cap1)
                                 \o Harness(p2, f2, cap2), exit)
      failed == Cardinality(f1) + Cardinality(f2)
  IN /\ r.counts = [passed |-> p1 + p2, failed |-> failed,
                    ignored |-> 2, harnesses |-> 2]
     /\ ToSet(r.listed) \subseteq f1 \cup f2
     /\ Len(r.listed) + r.more = failed
     /\ r.status = "success" <=> failed = 0 /\ exit = 0

\* Whatever finite sets of tests fail in two harnesses, and whatever lines but the
\* two the reducer lives by they print, `cargo test` is summed up as it went.
THEOREM EveryTestSummaryIsTrue ==
  ASSUME NEW C, Printable(C), NEW cap1 \in Seq(C), NEW cap2 \in Seq(C),
         NEW p1 \in Nat, NEW f1, IsFiniteSet(f1), NEW p2 \in Nat, NEW f2, IsFiniteSet(f2), NEW exit
  PROVE  TestsAreSummed(p1, f1, cap1, p2, f2, cap2, exit)
<1> DEFINE F == f1 \cup f2
           oneFailed == Cardinality(f1)
           twoFailed == Cardinality(f2)
           failed == oneFailed + twoFailed
           h1 == Harness(p1, f1, cap1)
           h2 == Harness(p2, f2, cap2)
           c0 == [passed |-> 0, failed |-> 0, ignored |-> 0, harnesses |-> 0]
           c1 == [passed |-> p1, failed |-> oneFailed, ignored |-> 1, harnesses |-> 1]
           c2 == [passed |-> p1 + p2, failed |-> failed, ignored |-> 2,
                  harnesses |-> 2]
           none == <<>>
           names1 == Noted(none, f1)
           names2 == Noted(names1, f2)
<1>1. /\ p1 \in Nat /\ p2 \in Nat
      /\ f1 \in SUBSET F /\ f2 \in SUBSET F
  OBVIOUS
<1>2. oneFailed \in Nat /\ twoFailed \in Nat
  BY FS_CardinalityType
<1>3. none \in Seq(F) /\ Len(none) = 0
  OBVIOUS
<1> HIDE DEF F, none
<1>4. /\ names1 \in Seq(F) /\ Len(names1) = oneFailed
  <2>1. names1 \in Seq(F) /\ Len(names1) = Len(none) + oneFailed
    BY <1>1, <1>3, NotedIs
  <2> QED
    BY <1>2, <1>3, <2>1
<1>5. /\ names2 \in Seq(F) /\ Len(names2) = failed
  BY <1>1, <1>4, NotedIs
<1>6. Adds(c0, c1, p1, f1) /\ Adds(c1, c2, p2, f2)
  BY <1>1, <1>2 DEF Adds
<1>7. AddBoth(c0, c2, p1, f1, p2, f2)
  BY <1>6 DEF AddBoth
<1>8. TestState = Between(c0, none)
  BY DEF TestState, Between, TestAt, none
<1> HIDE DEF c0, c1, names1, names2
<1>9. IsHarness(h1 \o h2) /\ After(Between(c0, none), h1 \o h2) = Between(c2, names2)
  <2>1. h1 \o h2 \in Seq(HarnessLines(F, C)) /\ IsHarness(h1 \o h2)
    BY <1>1, <1>3, <1>7, TwoHarnesses
  <2>2. After(Between(c0, none), h1 \o h2) = Between(c2, names2)
    <3>1. ASSUME NEW a, NEW z, AddBoth(a, z, p1, f1, p2, f2), NEW known \in Seq(F)
          PROVE  After(Between(a, known), h1 \o h2) = Between(z, Noted(Noted(known, f1), f2))
      BY <1>1, <2>1, <3>1, TwoHarnesses
    <3> QED
      BY <1>3, <1>7, <3>1 DEF names1, names2
  <2> QED
    BY <2>1, <2>2
<1> HIDE DEF c2, h1, h2
<1> DEFINE r == Reduce("CargoTest", h1 \o h2, exit)
           s == Between(c2, names2)
<1>10. r = Reduction(Verdict(s.failed, exit),
                     [passed |-> s.passed, failed |-> s.failed,
                      ignored |-> s.ignored, harnesses |-> s.harnesses],
                     s.names, JudgedStatus(s.failed, exit))
  <2>1. r = TestOutput(h1 \o h2, exit)
    BY DEF Reduce
  <2> HIDE DEF r, s
  <2> QED
    BY <1>8, <1>9, <2>1 DEF TestOutput, After, s
<1>11. /\ s.passed = p1 + p2 /\ s.failed = failed
       /\ s.ignored = 2 /\ s.harnesses = 2 /\ s.names = names2
  BY DEF Between, TestAt, c2
<1> HIDE DEF r, s
<1>12. /\ r.counts = [passed |-> p1 + p2, failed |-> failed,
                      ignored |-> 2, harnesses |-> 2]
       /\ r.listed = Shown(names2) /\ r.more = More(names2)
       /\ r.status = JudgedStatus(failed, exit)
  BY <1>10, <1>11 DEF Reduction
<1>13. ToSet(r.listed) \subseteq F
  <2>1. r.listed \in Seq(F)
    BY <1>5, <1>12, ShownAndMore
  <2> QED
    BY <2>1 DEF ToSet
<1>14. Len(r.listed) + r.more = failed
  BY <1>5, <1>12, ShownAndMore
<1>15. r.status = "success" <=> failed = 0 /\ exit = 0
  BY <1>12 DEF JudgedStatus, ExitStatus
<1> QED
  BY <1>12, <1>13, <1>14, <1>15 DEF TestsAreSummed, r, h1, h2, F

Unharmful == {Line("plain"), Line("blank"), Line("error"), Named("indented", "c")}

\* What a probe of the tests asks about is two harnesses that went some way.
ProbedTests ==
  probe.part = "tests" => /\ probe.one \in Truths /\ probe.two \in Truths
                          /\ probe.captured \in Seq(Unharmful)

LEMMA ProbedTestsInit == Init => ProbedTests
BY DEF Init, None, ProbedTests

LEMMA ProbedTestsStep == ProbedTests /\ [Next]_probe => ProbedTests'
<1> SUFFICES ASSUME ProbedTests, [Next]_probe PROVE ProbedTests'
  OBVIOUS
<1>1. CASE UNCHANGED probe
  BY <1>1 DEF ProbedTests
<1>2. CASE ProbeTests
  <2>1. PICK one \in Truths, two \in Truths, c \in Captured, exit \in {0, 101} :
          probe' = [part |-> "tests", one |-> one, two |-> two, captured |-> c, exit |-> exit]
    BY <1>2 DEF ProbeTests
  <2>2. c \in Seq(Unharmful)
    BY SeqsUpToType DEF Captured, Unharmful
  <2> HIDE DEF Unharmful
  <2>3. probe'.one = one /\ probe'.two = two /\ probe'.captured = c
    BY <2>1
  <2> QED
    BY <2>2, <2>3 DEF ProbedTests
<1>3. CASE ProbeLine \/ ProbeDiff \/ ProbeOutput \/ ProbeRebuild \/ ProbeTree
  <2>1. probe'.part # "tests"
    BY <1>3 DEF ProbeLine, ProbeDiff, ProbeOutput, ProbeRebuild, ProbeTree
  <2> QED
    BY <2>1 DEF ProbedTests
<1> QED
  BY <1>1, <1>2, <1>3 DEF Next

\* Whatever `cargo test` printed in a probe, its summary is true.
THEOREM ProbedTestSummaryIsTrue == Spec => []TestSummaryIsTrue
<1>1. ProbedTests => TestSummaryIsTrue
  <2> SUFFICES ASSUME probe.part = "tests", ProbedTests PROVE TestSummaryIsTrue
    BY DEF TestSummaryIsTrue
  <2>1. Printable(Unharmful)
    BY Tags DEF Printable, Unharmful
  <2>2. \A t \in Truths : t.passed \in Nat /\ IsFiniteSet(t.failing)
    <3>1. ASSUME NEW t \in Truths PROVE t.passed \in Nat /\ IsFiniteSet(t.failing)
      <4>1. t.passed \in Nat /\ t.failing \subseteq {"a", "b"}
        BY DEF Truths
      <4>2. IsFiniteSet({"a", "b"})
        <5>1. IsFiniteSet({"b"})
          BY FS_Singleton
        <5>2. {"a", "b"} = {"b"} \cup {"a"}
          OBVIOUS
        <5> QED
          BY <5>1, <5>2, FS_AddElement
      <4> QED
        BY <4>1, <4>2, FS_Subset
    <3> QED
      BY <3>1
  <2>3. probe.one \in Truths /\ probe.two \in Truths /\ probe.captured \in Seq(Unharmful)
    BY DEF ProbedTests
  <2>4. TestsAreSummed(probe.one.passed, probe.one.failing, probe.captured,
                       probe.two.passed, probe.two.failing, probe.captured, probe.exit)
    BY <2>1, <2>2, <2>3, EveryTestSummaryIsTrue
  <2> QED
    BY <2>4 DEF TestsAreSummed, TestSummaryIsTrue
<1> QED
  BY ProbedTestsInit, ProbedTestsStep, <1>1, PTL DEF Spec
-----------------------------------------------------------------------------
(* The summary of a run of any number of harnesses.  A run is a sequence   *)
(* of truths: how many tests passed, which failed, and what each test that *)
(* failed there printed.                                                   *)

HarnessOf(t) == Harness(t.passed, t.failing, t.captured)
RunOf(run) == FlattenSeq([i \in DOMAIN run |-> HarnessOf(run[i])])

AreTruths(C, run) ==
  \A i \in DOMAIN run : /\ run[i].passed \in Nat /\ IsFiniteSet(run[i].failing)
                        /\ run[i].captured \in Seq(C)

FailingIn(run) == UNION {run[i].failing : i \in DOMAIN run}

\* Sums of the first harnesses, by their number.
SumsPassed(run, sum) ==
  sum[0] = 0 /\ \A k \in 0 .. Len(run) - 1 : sum[k + 1] = sum[k] + run[k + 1].passed
SumsFailed(run, sum) ==
  sum[0] = 0 /\ \A k \in 0 .. Len(run) - 1 :
                  sum[k + 1] = sum[k] + Cardinality(run[k + 1].failing)

\* The counters after k harnesses.
TotalAt(passed, failed, k) ==
  [passed |-> passed[k], failed |-> failed[k], ignored |-> k, harnesses |-> k]

LEMMA TotalsAdd ==
  ASSUME NEW run, NEW passed, NEW failed, SumsPassed(run, passed), SumsFailed(run, failed),
         NEW k \in 0 .. Len(run) - 1
  PROVE  Adds(TotalAt(passed, failed, k), TotalAt(passed, failed, k + 1),
              run[k + 1].passed, run[k + 1].failing)
BY DEF SumsPassed, SumsFailed, TotalAt, Adds

\* No sum of failures is 0 but that of harnesses in which nothing failed.
LEMMA FailuresAddUp ==
  ASSUME NEW C, NEW T, NEW run \in Seq(T), AreTruths(C, run), NEW failed, SumsFailed(run, failed)
  PROVE  /\ failed[Len(run)] \in Nat
         /\ failed[Len(run)] = 0 <=> FailingIn(run) = {}
<1> DEFINE n == Len(run)
           P == {k \in Nat : /\ failed[k] \in Nat
                             /\ failed[k] = 0 <=> \A i \in 1 .. k : run[i].failing = {}}
<1>1. n \in Nat /\ DOMAIN run = 1 .. n
  OBVIOUS
<1>2. 0 \in P
  BY DEF SumsFailed
<1>3. ASSUME NEW k \in 0 .. n - 1, k \in P
      PROVE  k + 1 \in P
  <2>1. k \in Nat /\ k + 1 \in 1 .. n /\ k + 1 \in Nat
    BY <1>1
  <2>2. failed[k + 1] = failed[k] + Cardinality(run[k + 1].failing)
    BY DEF SumsFailed
  <2>3. /\ Cardinality(run[k + 1].failing) \in Nat
        /\ Cardinality(run[k + 1].failing) = 0 <=> run[k + 1].failing = {}
    <3>1. IsFiniteSet(run[k + 1].failing)
      BY <1>1, <2>1 DEF AreTruths
    <3> QED
      BY <3>1, FS_CardinalityType, FS_EmptySet
  <2>4. failed[k] \in Nat /\ (failed[k] = 0 <=> \A i \in 1 .. k : run[i].failing = {})
    BY <1>3
  <2>5. failed[k + 1] \in Nat
        /\ (failed[k + 1] = 0 <=> failed[k] = 0 /\ Cardinality(run[k + 1].failing) = 0)
    BY <2>2, <2>3, <2>4
  <2>6. (\A i \in 1 .. k + 1 : run[i].failing = {})
          <=> (\A i \in 1 .. k : run[i].failing = {}) /\ run[k + 1].failing = {}
    BY <2>1
  <2> QED
    BY <2>1, <2>3, <2>4, <2>5, <2>6
<1>4. n \in P
  <2>1. n \in 0 .. n
    BY <1>1
  <2> HIDE DEF P
  <2> QED
    BY <1>1, <1>2, <1>3, <2>1, Sift!Reaches
<1>5. FailingIn(run) = {} <=> \A i \in 1 .. n : run[i].failing = {}
  BY <1>1 DEF FailingIn
<1> QED
  BY <1>4, <1>5

\* Where the reducer stands after the first k harnesses, whose lines are these.
IsAfter(N, lines, c, m, k) ==
  /\ k # 0 => IsHarness(lines)
  /\ \E names \in Seq(N) : /\ Len(names) = m
                           /\ After(TestState, lines) = Between(c, names)

LEMMA NextHarness ==
  ASSUME NEW N, NEW C, Printable(C), NEW H, H = HarnessLines(N, C), NEW lines \in Seq(H),
         NEW c, NEW d, NEW m \in Nat, NEW m2, NEW k \in Nat, IsAfter(N, lines, c, m, k),
         NEW passed \in Nat, NEW failing \in SUBSET N, IsFiniteSet(failing),
         NEW captured \in Seq(C), Adds(c, d, passed, failing), m2 = m + Cardinality(failing)
  PROVE  /\ Harness(passed, failing, captured) \in Seq(H)
         /\ IsAfter(N, lines \o Harness(passed, failing, captured), d, m2, k + 1)
<1> DEFINE h == Harness(passed, failing, captured)
<1>1. PICK names \in Seq(N) : Len(names) = m /\ After(TestState, lines) = Between(c, names)
  BY DEF IsAfter
<1>2. h \in Seq(HarnessLines(N, C))
  BY <1>1, HarnessFold
<1>3. IsHarness(h)
  BY <1>1, HarnessFold
<1>4. After(Between(c, names), h) = Between(d, Noted(names, failing))
  BY <1>1, <1>2, HarnessFold
<1>5. Noted(names, failing) \in Seq(N) /\ Len(Noted(names, failing)) = m2
  BY <1>1, NotedIs
<1> HIDE DEF h
<1>6. After(TestState, lines \o h) = Between(d, Noted(names, failing))
  BY <1>1, <1>2, <1>4, AfterBoth
<1>7. IsHarness(lines \o h)
  <2>1. PICK i \in DOMAIN h : h[i].tag \in {"result", "failures", "quote"}
    BY <1>3 DEF IsHarness
  <2>2. Len(lines) + i \in DOMAIN (lines \o h) /\ (lines \o h)[Len(lines) + i] = h[i]
    BY <1>2
  <2> QED
    BY <2>1, <2>2 DEF IsHarness
<1> QED
  BY <1>2, <1>5, <1>6, <1>7 DEF IsAfter, h

LEMMA RunFold ==
  ASSUME NEW C, Printable(C), NEW T, NEW truths \in Seq(T), AreTruths(C, truths),
         NEW passed, NEW failed, SumsPassed(truths, passed), SumsFailed(truths, failed)
  PROVE  IsAfter(FailingIn(truths), RunOf(truths), TotalAt(passed, failed, Len(truths)),
                 failed[Len(truths)], Len(truths))
<1> DEFINE n == Len(truths)
           N == FailingIn(truths)
           H == HarnessLines(N, C)
           blocks == [i \in DOMAIN truths |-> HarnessOf(truths[i])]
           at(k) == TotalAt(passed, failed, k)
<1>1. n \in Nat /\ DOMAIN truths = 1 .. n
  OBVIOUS
<1>2. \A i \in 1 .. n : /\ truths[i].passed \in Nat /\ truths[i].failing \in SUBSET N
                        /\ IsFiniteSet(truths[i].failing) /\ truths[i].captured \in Seq(C)
  BY <1>1 DEF AreTruths, FailingIn
<1>3. \A k \in 0 .. n - 1 : Adds(at(k), at(k + 1), truths[k + 1].passed, truths[k + 1].failing)
  BY TotalsAdd
<1>4. \A k \in 0 .. n - 1 : failed[k + 1] = failed[k] + Cardinality(truths[k + 1].failing)
  BY DEF SumsFailed
<1>5. TestState = Between(at(0), <<>>) /\ failed[0] = 0
  BY DEF TestState, Between, TestAt, TotalAt, SumsPassed, SumsFailed
<1> HIDE DEF N, at
<1>6. IsAfter(N, <<>>, at(0), 0, 0)
  <2>1. <<>> \in Seq(N) /\ Len(<<>>) = 0
    OBVIOUS
  <2>2. After(TestState, <<>>) = TestState
    BY AfterNone
  <2>3. \E names \in Seq(N) : Len(names) = 0 /\ After(TestState, <<>>) = Between(at(0), names)
    BY <1>5, <2>1, <2>2, Zenon
  <2> QED
    BY <2>3 DEF IsAfter
<1>7. \A i \in 1 .. n : HarnessOf(truths[i]) \in Seq(H)
  <2>1. ASSUME NEW i \in 1 .. n
        PROVE  HarnessOf(truths[i]) \in Seq(H)
    <3>1. i - 1 \in 0 .. n - 1 /\ (i - 1) + 1 = i
      BY <1>1
    <3>2. Adds(at(i - 1), at(i), truths[i].passed, truths[i].failing)
      BY <1>3, <3>1
    <3>3. <<>> \in Seq(N)
      OBVIOUS
    <3> QED
      BY <1>2, <3>2, <3>3, HarnessFold DEF HarnessOf
  <2> QED
    BY <2>1
<1> HIDE DEF H
<1>8. /\ blocks \in Seq(Seq(H)) /\ Len(blocks) = n
      /\ \A i \in 1 .. n : blocks[i] = HarnessOf(truths[i])
  BY <1>1, <1>7
<1>9. RunOf(truths) = Src!FlattenSeq(blocks)
  BY DEF RunOf, FlattenSeq, Src!FlattenSeq
<1> HIDE DEF blocks
<1>10. PICK run : /\ run[0] = <<>> /\ Src!FlattenSeq(blocks) = run[n]
                  /\ \A k \in 0 .. n - 1 : run[k + 1] = run[k] \o blocks[k + 1]
                  /\ \A k \in 0 .. n : run[k] \in Seq(H)
  <2>1. blocks \in Seq(Seq(H)) /\ Len(blocks) = n
    BY <1>8
  <2> HIDE DEF n
  <2>2. \E run : /\ run[0] = <<>> /\ Src!FlattenSeq(blocks) = run[Len(blocks)]
                 /\ \A k \in 0 .. Len(blocks) - 1 : run[k + 1] = run[k] \o blocks[k + 1]
                 /\ \A k \in 0 .. Len(blocks) : run[k] \in Seq(H)
    BY <2>1, FlattenRun
  <2> QED
    BY <2>1, <2>2
<1> DEFINE P == {k \in Nat : failed[k] \in Nat /\ IsAfter(N, run[k], at(k), failed[k], k)}
<1>11. 0 \in P
  BY <1>5, <1>6, <1>10
<1>12. ASSUME NEW k \in 0 .. n - 1, k \in P
       PROVE  k + 1 \in P
  <2> DEFINE t == truths[k + 1]
  <2>1. k \in 0 .. n /\ k + 1 \in 1 .. n /\ k \in Nat /\ k + 1 \in Nat
    BY <1>1
  <2>2. /\ t.passed \in Nat /\ t.failing \in SUBSET N /\ IsFiniteSet(t.failing)
        /\ t.captured \in Seq(C)
    BY <1>2, <2>1
  <2>3. /\ Adds(at(k), at(k + 1), t.passed, t.failing)
        /\ failed[k + 1] = failed[k] + Cardinality(t.failing)
    BY <1>3, <1>4
  <2>4. run[k] \in Seq(HarnessLines(N, C)) /\ failed[k] \in Nat
        /\ IsAfter(N, run[k], at(k), failed[k], k)
    BY <1>10, <1>12, <2>1 DEF H
  <2>5. run[k + 1] = run[k] \o Harness(t.passed, t.failing, t.captured)
    BY <1>8, <1>10, <2>1 DEF HarnessOf
  <2>6. failed[k + 1] \in Nat
    BY <2>2, <2>3, <2>4, FS_CardinalityType
  <2> HIDE DEF t
  <2>7. IsAfter(N, run[k] \o Harness(t.passed, t.failing, t.captured),
                at(k + 1), failed[k + 1], k + 1)
    BY <2>1, <2>2, <2>3, <2>4, NextHarness
  <2> QED
    BY <2>1, <2>5, <2>6, <2>7
<1>13. n \in P
  <2>1. n \in 0 .. n
    BY <1>1
  <2> HIDE DEF P
  <2> QED
    BY <1>1, <1>11, <1>12, <2>1, Sift!Reaches
<1> QED
  BY <1>9, <1>10, <1>13 DEF N, at

\* What the summary of a run says, with nothing left out.
RunIsSummed(truths, passed, failed, exit) ==
  LET r == Reduce("CargoTest", RunOf(truths), exit)
      n == Len(truths)
  IN /\ r.counts = [passed |-> passed[n], failed |-> failed[n], ignored |-> n, harnesses |-> n]
     /\ ToSet(r.listed) \subseteq FailingIn(truths)
     /\ Len(r.listed) + r.more = failed[n]
     /\ r.status = "success" <=> FailingIn(truths) = {} /\ exit = 0

\* Whatever finite sets of tests fail in any number of harnesses, and whatever lines but
\* the two the reducer lives by each of them prints, `cargo test` is summed up as it went.
THEOREM EveryRunIsSummed ==
  ASSUME NEW C, Printable(C), NEW T, NEW truths \in Seq(T), truths # <<>>, AreTruths(C, truths),
         NEW passed, NEW failed, SumsPassed(truths, passed), SumsFailed(truths, failed), NEW exit
  PROVE  RunIsSummed(truths, passed, failed, exit)
<1> DEFINE n == Len(truths)
           N == FailingIn(truths)
           c == TotalAt(passed, failed, n)
           lines == RunOf(truths)
           r == Reduce("CargoTest", lines, exit)
<1>1. n \in Nat /\ n # 0
  OBVIOUS
<1>2. failed[n] \in Nat /\ (failed[n] = 0 <=> N = {})
  BY FailuresAddUp
<1>3. IsAfter(N, lines, c, failed[n], n)
  BY RunFold
<1> HIDE DEF lines
<1>4. IsHarness(lines)
  BY <1>1, <1>3 DEF IsAfter
<1>5. PICK names \in Seq(N) : Len(names) = failed[n] /\ After(TestState, lines) = Between(c, names)
  BY <1>3 DEF IsAfter
<1> DEFINE s == Between(c, names)
<1>6. r = Reduction(Verdict(s.failed, exit),
                    [passed |-> s.passed, failed |-> s.failed,
                     ignored |-> s.ignored, harnesses |-> s.harnesses],
                    s.names, JudgedStatus(s.failed, exit))
  <2>1. r = TestOutput(lines, exit)
    BY DEF Reduce
  <2> HIDE DEF r, s
  <2> QED
    BY <1>4, <1>5, <2>1 DEF TestOutput, After, s
<1>7. /\ s.passed = passed[n] /\ s.failed = failed[n]
      /\ s.ignored = n /\ s.harnesses = n /\ s.names = names
  BY DEF Between, TestAt, TotalAt
<1> HIDE DEF r, s
<1>8. /\ r.counts = [passed |-> passed[n], failed |-> failed[n], ignored |-> n, harnesses |-> n]
      /\ r.listed = Shown(names) /\ r.more = More(names)
      /\ r.status = JudgedStatus(failed[n], exit)
  BY <1>6, <1>7 DEF Reduction
<1>9. ToSet(r.listed) \subseteq N
  <2>1. r.listed \in Seq(N)
    BY <1>5, <1>8, ShownAndMore
  <2> QED
    BY <2>1 DEF ToSet
<1>10. Len(r.listed) + r.more = failed[n]
  BY <1>5, <1>8, ShownAndMore
<1>11. r.status = "success" <=> N = {} /\ exit = 0
  BY <1>2, <1>8 DEF JudgedStatus, ExitStatus
<1> QED
  BY <1>8, <1>9, <1>10, <1>11 DEF RunIsSummed, r, lines

-----------------------------------------------------------------------------
(* Command lines.                                                          *)

\* The fold of the parser over the words of a line.
Lines == INSTANCE FoldFacts WITH op <- LAMBDA c, s, w : Cli!ReadWord(s, w)

\* The parser between two words, while the line is right.
Reading(c, a, o, g, wants) ==
  [command |-> c, args |-> a, options |-> o, globals |-> g, wants |-> wants, usage |-> FALSE]

\* The words that the parser itself uses.
NoWord    == ""
CacheWord == "cache"
Corpus    == "corpus"
Accuracy  == "accuracy"

One(w)     == <<w>>
Plus(a, w) == Append(a, w)

LEMMA ReadingIs ==
  ASSUME NEW c, NEW a, NEW o, NEW g, NEW x
  PROVE  /\ Reading(c, a, o, g, x).command = c /\ Reading(c, a, o, g, x).args = a
         /\ Reading(c, a, o, g, x).options = o /\ Reading(c, a, o, g, x).globals = g
         /\ Reading(c, a, o, g, x).wants = x /\ ~Reading(c, a, o, g, x).usage
BY DEF Reading

\* A line that is wrong stays wrong.
LEMMA UsageIs ==
  ASSUME NEW c, NEW a, NEW o, NEW g, NEW x PROVE Cli!Usage(Reading(c, a, o, g, x)).usage
BY DEF Reading, Cli!Usage

LEMMA UsageStays == ASSUME NEW s, NEW w, s.usage PROVE Cli!ReadWord(s, w) = s
BY DEF Cli!ReadWord

LEMMA Vocabulary ==
  /\ Cli!Switches = {"--json", "--compact", "--no-color", "--verbose", "--strict-decisions"}
  /\ DOMAIN Cli!Aliases = {"-v", "-h", "-V", "--max-level"}
  /\ Cli!Aliases["-v"] = "--verbose" /\ Cli!Aliases["-h"] = "--help"
  /\ Cli!Aliases["-V"] = "--version" /\ Cli!Aliases["--max-level"] = "--level"
  /\ DOMAIN Cli!Replaces = {"--help", "--version"}
  /\ Cli!Replaces["--help"] = "help" /\ Cli!Replaces["--version"] = "version"
  /\ DOMAIN Cli!Marks = {"--force", "--write", "--full", "--no-deps"}
  /\ DOMAIN Cli!Valued = {"--duration", "--budget", "--level", "--kind", "--package"}
  /\ Cli!Alone = {"adopt", "init", "index", "doctor", "overview", "diff", "stats", "help",
                  "version"}
  /\ Cli!WithArg = {"symbol", "refs", "expand", "context", "skeleton", "workload"}
  /\ DOMAIN Cli!Actions = {"integration", "experiment", "cache"}
<1>1. /\ Cli!Aliases["-v"] = "--verbose" /\ Cli!Aliases["-h"] = "--help"
      /\ Cli!Aliases["-V"] = "--version" /\ Cli!Aliases["--max-level"] = "--level"
  BY DEF Cli!Aliases
<1> QED
  BY <1>1 DEF Cli!Aliases, Cli!Switches, Cli!Replaces, Cli!Marks, Cli!Valued, Cli!Alone,
              Cli!WithArg, Cli!Actions

\* The words that the parser tells apart where it wants none.
IsSwitch(w)   == Cli!Spelled(w) \in Cli!Switches
IsReplacer(w) == Cli!Spelled(w) \in DOMAIN Cli!Replaces
IsMark(w)     == w \in DOMAIN Cli!Marks
IsValued(w)   == Cli!Spelled(w) \in DOMAIN Cli!Valued
IsPath(w)     == w = "--path"
IsAlone(w)    == w \in Cli!Alone
IsWithArg(w)  == w \in Cli!WithArg
IsActing(w)   == w \in DOMAIN Cli!Actions

IsFlag(w) == IsSwitch(w) \/ IsReplacer(w) \/ IsMark(w) \/ IsValued(w) \/ IsPath(w)

LEMMA SpelledFlags ==
  ASSUME NEW w
  PROVE  /\ IsFlag(w) => w \in FlagWords
         /\ IsMark(w) \/ IsPath(w) => Cli!Spelled(w) = w
         /\ w \notin DOMAIN Cli!Aliases => Cli!Spelled(w) = w
         /\ w \in DOMAIN Cli!Aliases => IsSwitch(w) \/ IsReplacer(w) \/ IsValued(w)
         /\ Cli!Spelled(w) \in DOMAIN Cli!Marks => IsMark(w)
         /\ Cli!Spelled(w) = "--path" => IsPath(w)
BY Vocabulary DEF IsFlag, IsSwitch, IsReplacer, IsMark, IsValued, IsPath, FlagWords, Cli!Spelled

\* A word is of one of the sorts.
LEMMA SortsApart ==
  ASSUME NEW w
  PROVE  /\ IsSwitch(w) => ~IsReplacer(w) /\ ~IsMark(w) /\ ~IsValued(w) /\ ~IsPath(w)
         /\ IsReplacer(w) => ~IsMark(w) /\ ~IsValued(w) /\ ~IsPath(w)
         /\ IsMark(w) => ~IsValued(w) /\ ~IsPath(w)
         /\ IsValued(w) => ~IsPath(w)
         /\ IsFlag(w) => ~IsAlone(w) /\ ~IsWithArg(w) /\ ~IsActing(w)
         /\ IsAlone(w) => ~IsWithArg(w) /\ ~IsActing(w)
         /\ IsWithArg(w) => ~IsActing(w)
<1>1. w \notin DOMAIN Cli!Aliases => Cli!Spelled(w) = w
  BY SpelledFlags
<1>2. \A x \in DOMAIN Cli!Aliases : Cli!Spelled(x) = Cli!Aliases[x]
  BY DEF Cli!Spelled
<1>3. CASE w \in DOMAIN Cli!Aliases
  BY <1>2, <1>3, Vocabulary
     DEF IsFlag, IsSwitch, IsReplacer, IsMark, IsValued, IsPath, IsAlone, IsWithArg, IsActing
<1>4. CASE w \notin DOMAIN Cli!Aliases
  BY <1>1, <1>4, Vocabulary
     DEF IsFlag, IsSwitch, IsReplacer, IsMark, IsValued, IsPath, IsAlone, IsWithArg, IsActing
<1> QED
  BY <1>3, <1>4

\* What the parser makes of a word where it wants none.
LEMMA FirstWord ==
  ASSUME NEW c, NEW a, NEW o, NEW g, NEW w
  PROVE  LET f == Cli!Spelled(w)
             t == Cli!ReadWord(Reading(c, a, o, g, NoWord), w)
         IN /\ IsSwitch(w) => t = Reading(c, a, o, Cli!Set(g, f, Cli!On), NoWord)
            /\ IsReplacer(w) => t = Reading(Cli!Replaces[f], <<>>, <<>>, g, NoWord)
            /\ IsMark(w) /\ c \in Cli!Marks[w] => t = Reading(c, a, Cli!Set(o, f, Cli!On), g, NoWord)
            /\ IsMark(w) /\ c \notin Cli!Marks[w] => t.usage
            /\ IsValued(w) \/ IsPath(w) => t = Reading(c, a, o, g, f)
            /\ IsAlone(w) /\ c = NoWord => t = Reading(w, <<>>, <<>>, g, NoWord)
            /\ (IsWithArg(w) \/ IsActing(w)) /\ c = NoWord => t = Reading(w, <<>>, <<>>, g, w)
            /\ ~IsFlag(w) /\ c # NoWord => t.usage
            /\ ~(IsFlag(w) \/ IsAlone(w) \/ IsWithArg(w) \/ IsActing(w)) => t.usage
<1>0. PICK s : s = Reading(c, a, o, g, NoWord)
  OBVIOUS
<1> DEFINE f == Cli!Spelled(w)
           t == Cli!ReadWord(s, w)
<1>1. /\ s.command = c /\ s.options = o /\ s.globals = g /\ s.wants = NoWord /\ ~s.usage
  BY <1>0 DEF Reading
<1>2. /\ w \in FlagWords => IsDash(w)
      /\ w \in CommandWords => ~IsDash(w)
  BY DashAssumption
<1>3. t = IF IsDash(w) THEN Cli!ApplyFlag(s, f)
          ELSE IF c # NoWord THEN Cli!Usage(s) ELSE Cli!ParseCommand(s, w)
  BY <1>1 DEF Cli!ReadWord, NoWord
<1>4. IsFlag(w) => t = Cli!ApplyFlag(s, f)
  BY <1>2, <1>3, SpelledFlags
<1>5. IsAlone(w) \/ IsWithArg(w) \/ IsActing(w) =>
        t = IF c # NoWord THEN Cli!Usage(s) ELSE Cli!ParseCommand(s, w)
  <2>1. IsAlone(w) \/ IsWithArg(w) \/ IsActing(w) => w \in CommandWords
    BY DEF IsAlone, IsWithArg, IsActing, CommandWords
  <2> QED
    BY <1>2, <1>3, <2>1
<1>6. Cli!Usage(s).usage
  BY <1>0, UsageIs
<1>7. ~IsFlag(w) => t.usage \/ (t = Cli!ParseCommand(s, w) /\ c = NoWord)
  <2>1. f \notin UNION {Cli!Switches, DOMAIN Cli!Replaces, DOMAIN Cli!Marks, DOMAIN Cli!Valued, {"--path"}}
          => Cli!ApplyFlag(s, f) = Cli!Usage(s)
    BY DEF Cli!ApplyFlag
  <2> QED
    BY <1>3, <1>6, <2>1, SpelledFlags DEF IsFlag, IsSwitch, IsReplacer, IsMark, IsValued, IsPath
<1>8. IsSwitch(w) => t = Reading(c, a, o, Cli!Set(g, f, Cli!On), NoWord)
  <2> SUFFICES ASSUME IsSwitch(w) PROVE t = Reading(c, a, o, Cli!Set(g, f, Cli!On), NoWord)
    OBVIOUS
  <2>1. t = [s EXCEPT !.globals = Cli!Set(g, f, Cli!On)]
    BY <1>1, <1>4, Vocabulary DEF IsFlag, IsSwitch, Cli!ApplyFlag
  <2> HIDE DEF t, f
  <2> QED
    BY <1>0, <2>1 DEF Reading
<1>9. IsReplacer(w) => t = Reading(Cli!Replaces[f], <<>>, <<>>, g, NoWord)
  <2> SUFFICES ASSUME IsReplacer(w) PROVE t = Reading(Cli!Replaces[f], <<>>, <<>>, g, NoWord)
    OBVIOUS
  <2>1. t = Cli!NewCommand(s, Cli!Replaces[f])
    BY <1>4, Vocabulary DEF IsFlag, IsReplacer, Cli!ApplyFlag
  <2> HIDE DEF t, f
  <2> QED
    BY <1>0, <2>1 DEF Reading, Cli!NewCommand
<1>10. ASSUME IsMark(w)
       PROVE  /\ c \in Cli!Marks[w] => t = Reading(c, a, Cli!Set(o, f, Cli!On), g, NoWord)
              /\ c \notin Cli!Marks[w] => t.usage
  <2>1. f = w /\ f \in DOMAIN Cli!Marks
    BY <1>10, SpelledFlags DEF IsMark
  <2>2. /\ f \notin Cli!Switches /\ f \notin DOMAIN Cli!Replaces
        /\ f \notin DOMAIN Cli!Valued \cup {"--path"}
    BY <2>1, Vocabulary
  <2>3. t = Cli!ApplyFlag(s, f)
    BY <1>4, <1>10 DEF IsFlag
  <2>4. t = IF c \in Cli!Marks[w] THEN [s EXCEPT !.options = Cli!Set(o, f, Cli!On)]
            ELSE Cli!Usage(s)
    <3>1. PICK v : v = t
      OBVIOUS
    <3>2. c \in Cli!Marks[w] => v = [s EXCEPT !.options = Cli!Set(o, f, Cli!On)]
      BY <1>1, <2>1, <2>2, <2>3, <3>1 DEF Cli!ApplyFlag
    <3>3. c \notin Cli!Marks[w] => v = Cli!Usage(s)
      BY <1>1, <2>1, <2>2, <2>3, <3>1 DEF Cli!ApplyFlag
    <3> QED
      BY <3>1, <3>2, <3>3
  <2> HIDE DEF t, f
  <2> QED
    BY <1>0, <1>6, <2>4 DEF Reading
<1>11. ASSUME IsValued(w) \/ IsPath(w) PROVE t = Reading(c, a, o, g, f)
  <2>1. f \in DOMAIN Cli!Valued \cup {"--path"}
    BY <1>11, SpelledFlags DEF IsValued, IsPath
  <2>2. t = [s EXCEPT !.wants = f]
    BY <1>4, <1>11, <2>1, Vocabulary DEF IsFlag, Cli!ApplyFlag
  <2> HIDE DEF t, f
  <2> QED
    BY <1>0, <2>2 DEF Reading
<1>12. ASSUME IsAlone(w), c = NoWord PROVE t = Reading(w, <<>>, <<>>, g, NoWord)
  <2>1. t = Cli!NewCommand(s, w)
    BY <1>5, <1>12, Vocabulary DEF IsAlone, Cli!ParseCommand
  <2> HIDE DEF t, f
  <2> QED
    BY <1>0, <2>1 DEF Reading, Cli!NewCommand
<1>13. ASSUME IsWithArg(w) \/ IsActing(w), c = NoWord PROVE t = Reading(w, <<>>, <<>>, g, w)
  <2> DEFINE u == Cli!NewCommand(s, w)
  <2>1. t = [u EXCEPT !.wants = w]
    BY <1>5, <1>13, Vocabulary DEF IsWithArg, IsActing, Cli!ParseCommand
  <2>2. u = Reading(w, <<>>, <<>>, g, NoWord)
    <3>1. PICK v : v = u
      OBVIOUS
    <3>2. v = Reading(w, <<>>, <<>>, g, NoWord)
      BY <1>0, <3>1 DEF Reading, Cli!NewCommand
    <3> QED
      BY <3>1, <3>2
  <2> HIDE DEF t, f, u
  <2> QED
    BY <2>1, <2>2 DEF Reading
<1>14. ASSUME ~(IsFlag(w) \/ IsAlone(w) \/ IsWithArg(w) \/ IsActing(w)) PROVE t.usage
  <2>1. Cli!ParseCommand(s, w) = Cli!Usage(s)
    BY <1>14 DEF IsAlone, IsWithArg, IsActing, Cli!ParseCommand
  <2> QED
    BY <1>6, <1>7, <1>14, <2>1
<1> QED
  BY <1>0, <1>7, <1>8, <1>9, <1>10, <1>11, <1>12, <1>13, <1>14

\* What the parser makes of the word that it wants.
LEMMA WantedWord ==
  ASSUME NEW c, NEW a, NEW o, NEW g, NEW x, NEW w
  PROVE  LET t == Cli!ReadWord(Reading(c, a, o, g, x), w)
         IN /\ IsPath(x) => t = Reading(c, a, o, Cli!Set(g, x, w), NoWord)
            /\ x \in DOMAIN Cli!Valued =>
                 /\ Cli!ValueOk(x, w) /\ c \in Cli!Valued[x] =>
                      t = Reading(c, a, Cli!Set(o, x, Cli!ValueOf(x, w)), g, NoWord)
                 /\ ~(Cli!ValueOk(x, w) /\ c \in Cli!Valued[x]) => t.usage
            /\ IsActing(x) =>
                 /\ w \notin Cli!Actions[x] => t.usage
                 /\ w \in Cli!Actions[x] /\ w # Accuracy => t = Reading(c, One(w), o, g, NoWord)
                 /\ w \in Cli!Actions[x] /\ w = Accuracy => t = Reading(c, One(w), o, g, Corpus)
            /\ IsWithArg(x) \/ x = Corpus => t = Reading(c, Plus(a, w), o, g, NoWord)
<1>0. PICK s : s = Reading(c, a, o, g, x)
  OBVIOUS
<1> DEFINE t == Cli!ReadWord(s, w)
           u == [s EXCEPT !.wants = NoWord]
<1>1. s.command = c /\ s.wants = x /\ ~s.usage
  BY <1>0 DEF Reading
<1>2. u = Reading(c, a, o, g, NoWord)
  <2>1. PICK v : v = u
    OBVIOUS
  <2>2. v = Reading(c, a, o, g, NoWord)
    BY <1>0, <2>1 DEF Reading
  <2> QED
    BY <2>1, <2>2
<1>3. u.args = a /\ u.options = o /\ u.globals = g /\ Cli!Usage(u).usage
  <2> HIDE DEF u
  <2> QED
    BY <1>2 DEF Reading, Cli!Usage
<1>4. x # NoWord => t = Cli!TakeValue(s, w)
  BY <1>1 DEF Cli!ReadWord, NoWord
<1>5. ASSUME IsPath(x) PROVE t = Reading(c, a, o, Cli!Set(g, x, w), NoWord)
  <2>1. t = [u EXCEPT !.globals = Cli!Set(u.globals, x, w)]
    BY <1>1, <1>4, <1>5, Vocabulary DEF IsPath, Cli!TakeValue, NoWord, Corpus, Accuracy
  <2> HIDE DEF t, u
  <2> QED
    BY <1>2, <1>3, <2>1 DEF Reading
<1>6. ASSUME x \in DOMAIN Cli!Valued
      PROVE  /\ Cli!ValueOk(x, w) /\ c \in Cli!Valued[x] =>
                  t = Reading(c, a, Cli!Set(o, x, Cli!ValueOf(x, w)), g, NoWord)
             /\ ~(Cli!ValueOk(x, w) /\ c \in Cli!Valued[x]) => t.usage
  <2>1. t = IF Cli!ValueOk(x, w) /\ c \in Cli!Valued[x]
            THEN [u EXCEPT !.options = Cli!Set(u.options, x, Cli!ValueOf(x, w))]
            ELSE Cli!Usage(u)
    BY <1>1, <1>4, <1>6, Vocabulary DEF Cli!TakeValue, NoWord, Corpus, Accuracy
  <2> HIDE DEF t, u
  <2> QED
    BY <1>2, <1>3, <2>1 DEF Reading
<1>7. ASSUME IsActing(x)
      PROVE  /\ w \notin Cli!Actions[x] => t.usage
             /\ w \in Cli!Actions[x] /\ w # Accuracy => t = Reading(c, One(w), o, g, NoWord)
             /\ w \in Cli!Actions[x] /\ w = Accuracy => t = Reading(c, One(w), o, g, Corpus)
  <2>1. t = IF w \notin Cli!Actions[x] THEN Cli!Usage(u)
            ELSE [u EXCEPT !.args = <<w>>, !.wants = IF w = Accuracy THEN Corpus ELSE NoWord]
    BY <1>1, <1>4, <1>7, Vocabulary DEF IsActing, Cli!TakeValue, NoWord, Corpus, Accuracy
  <2> DEFINE v == [u EXCEPT !.args = <<w>>]
  <2>2. v = Reading(c, One(w), o, g, NoWord)
    <3> HIDE DEF u
    <3>1. PICK y : y = v
      OBVIOUS
    <3>2. y = Reading(c, One(w), o, g, NoWord)
      BY <1>2, <3>1 DEF Reading, One
    <3> QED
      BY <3>1, <3>2
  <2>3. /\ w \in Cli!Actions[x] /\ w # Accuracy => t = [v EXCEPT !.wants = NoWord]
        /\ w \in Cli!Actions[x] /\ w = Accuracy => t = [v EXCEPT !.wants = Corpus]
    BY <2>1
  <2> HIDE DEF t, u, v
  <2>4. w \in Cli!Actions[x] /\ w # Accuracy => t = Reading(c, One(w), o, g, NoWord)
    BY <2>2, <2>3 DEF Reading
  <2>5. w \in Cli!Actions[x] /\ w = Accuracy => t = Reading(c, One(w), o, g, Corpus)
    BY <2>2, <2>3 DEF Reading
  <2> QED
    BY <1>3, <2>1, <2>4, <2>5
<1>8. ASSUME IsWithArg(x) \/ x = Corpus PROVE t = Reading(c, Plus(a, w), o, g, NoWord)
  <2>1. t = [u EXCEPT !.args = Append(u.args, w)]
    BY <1>1, <1>4, <1>8, Vocabulary DEF IsWithArg, Cli!TakeValue, NoWord, Corpus, Accuracy
  <2> HIDE DEF t, u
  <2> QED
    BY <1>2, <1>3, <2>1 DEF Reading, Plus
<1> QED
  BY <1>0, <1>5, <1>6, <1>7, <1>8

Experiment == "experiment"
IsBareCache(ph) == ph = <<"cache">>

\* What a phrase that is right makes of the parser: a setting, or another command.
AfterPhrase(ph, c, a, o, g) ==
  IF IsGlobal(ph) THEN Reading(c, a, o, Cli!Set(g, Cli!Spelled(ph[1]), Given(ph)), NoWord)
  ELSE IF NamesCommand(ph) THEN Reading(CommandOf(ph), ArgsOf(ph), <<>>, g, NoWord)
  ELSE Reading(c, a, Cli!Set(o, Cli!Spelled(ph[1]), Given(ph)), g, NoWord)

\* A phrase that is right after the command c, wherever the line ends.
IsRight(ph, c) == \/ IsGlobal(ph) \/ IsReplacement(ph)
                  \/ IsCommand(ph) /\ c = NoWord
                  \/ IsOption(ph) /\ c \in OwnersOf(ph)

\* A phrase by its first word.
LEMMA PhraseSorts ==
  ASSUME NEW ph
  PROVE  /\ IsGlobal(ph) <=> \/ Len(ph) = 1 /\ IsSwitch(ph[1])
                             \/ Len(ph) = 2 /\ IsPath(ph[1])
         /\ IsReplacement(ph) <=> Len(ph) = 1 /\ IsReplacer(ph[1])
         /\ IsCommand(ph) <=> \/ Len(ph) = 1 /\ (IsAlone(ph[1]) \/ ph[1] = "cache")
                              \/ Len(ph) = 2 /\ IsWithArg(ph[1])
                              \/ /\ Len(ph) = 2 /\ IsActing(ph[1])
                                 /\ ph[2] \in Cli!Actions[ph[1]] \ {"accuracy"}
                              \/ Len(ph) = 3 /\ ph[1] = "experiment" /\ ph[2] = "accuracy"
         /\ IsOption(ph) <=> \/ Len(ph) = 1 /\ IsMark(ph[1])
                             \/ /\ Len(ph) = 2 /\ IsValued(ph[1])
                                /\ Cli!ValueOk(Cli!Spelled(ph[1]), ph[2])
BY DEF IsGlobal, IsReplacement, IsCommand, IsOption, IsSwitch, IsPath, IsReplacer, IsAlone,
       IsWithArg, IsActing, IsMark, IsValued

LEMMA ActingWords ==
  /\ \A w : IsActing(w) <=> w \in {"integration", "experiment", "cache"}
  /\ Cli!Actions["integration"] = {"agent", "mcp", "registry"}
  /\ Cli!Actions["experiment"] = {"accuracy"}
  /\ Cli!Actions["cache"] = {"status", "clear"}
BY Vocabulary DEF IsActing, Cli!Actions

LEMMA PhrasesApart ==
  ASSUME NEW ph
  PROVE  /\ IsGlobal(ph) => ~NamesCommand(ph) /\ ~IsOption(ph)
         /\ NamesCommand(ph) => ~IsOption(ph)
         /\ IsCommand(ph) => ~IsReplacement(ph)
<1> DEFINE w == ph[1]
<1>1. \A x \in {"experiment", "cache"} : IsActing(x)
  BY ActingWords
<1>2. /\ IsSwitch(w) \/ IsPath(w) \/ IsReplacer(w) \/ IsMark(w) \/ IsValued(w) => IsFlag(w)
  BY DEF IsFlag
<1> QED
  BY <1>1, <1>2, PhraseSorts, SortsApart DEF NamesCommand

\* A command has a name.
LEMMA CommandHasName ==
  ASSUME NEW ph, NamesCommand(ph)
  PROVE  CommandOf(ph) # NoWord
<1>1. CASE IsCommand(ph)
  <2>1. \/ IsAlone(ph[1]) \/ IsWithArg(ph[1]) \/ IsActing(ph[1])
    BY <1>1, PhraseSorts, ActingWords
  <2>2. ph[1] # ""
    BY <2>1, Vocabulary DEF IsAlone, IsWithArg, IsActing
  <2> QED
    BY <1>1, <2>2 DEF CommandOf, NoWord
<1>2. CASE ~IsCommand(ph)
  <2>1. IsReplacer(ph[1])
    BY <1>2, PhraseSorts DEF NamesCommand
  <2> QED
    BY <1>2, <2>1, Vocabulary DEF CommandOf, IsReplacer, NoWord
<1> QED
  BY <1>1, <1>2

LEMMA ShortPhrases ==
  ASSUME NEW W, NEW ph \in Seq(W)
  PROVE  /\ Len(ph) = 1 => Tail(ph) = <<>> /\ (IsBareCache(ph) <=> ph[1] = CacheWord)
         /\ Len(ph) = 2 => Tail(ph) = One(ph[2]) /\ ~IsBareCache(ph)
         /\ Len(ph) = 3 => Tail(ph) = Plus(One(ph[2]), ph[3]) /\ ~IsBareCache(ph)
<1> DEFINE t == Tail(ph)
<1>1. ph # <<>> => t \in Seq(W) /\ Len(t) = Len(ph) - 1 /\ \A i \in 1 .. Len(t) : t[i] = ph[i + 1]
  OBVIOUS
<1>2. Len(ph) > 0 => ph # <<>>
  OBVIOUS
<1> HIDE DEF t
<1>3. CASE Len(ph) = 1
  <2>1. t = <<>>
    BY <1>1, <1>2, <1>3
  <2>2. IsBareCache(ph) <=> ph[1] = CacheWord
    BY <1>3 DEF IsBareCache, CacheWord
  <2> QED
    BY <1>3, <2>1, <2>2 DEF t
<1>4. CASE Len(ph) = 2
  <2> DEFINE u == One(ph[2])
  <2>1. u \in Seq(W) /\ Len(u) = 1 /\ u[1] = ph[2]
    BY <1>4 DEF One
  <2> HIDE DEF u
  <2>2. t = u
    BY <1>1, <1>2, <1>4, <2>1
  <2>3. ~IsBareCache(ph)
    BY <1>4 DEF IsBareCache
  <2> QED
    BY <1>4, <2>2, <2>3 DEF t, u
<1>5. CASE Len(ph) = 3
  <2> DEFINE u == Plus(One(ph[2]), ph[3])
  <2>1. u \in Seq(W) /\ Len(u) = 2 /\ u[1] = ph[2] /\ u[2] = ph[3]
    BY <1>5 DEF One, Plus
  <2> HIDE DEF u
  <2>2. t = u
    BY <1>1, <1>2, <1>5, <2>1
  <2>3. ~IsBareCache(ph)
    BY <1>5 DEF IsBareCache
  <2>4. Tail(ph) = Plus(One(ph[2]), ph[3])
    BY <2>2 DEF t, u
  <2> QED
    BY <1>5, <2>3, <2>4
<1> QED
  BY <1>3, <1>4, <1>5

LEMMA OneArgument == \A w : Plus(<<>>, w) = One(w)
BY DEF One, Plus

\* One word after another, from where no word is wanted.
LEMMA PhraseIsRead ==
  ASSUME NEW W, NEW ph \in Seq(W), NEW c, NEW a, NEW o, NEW g, IsRight(ph, c)
  PROVE  LET s1 == Cli!ReadWord(Reading(c, a, o, g, NoWord), ph[1])
             s2 == Cli!ReadWord(s1, ph[2])
             s3 == Cli!ReadWord(s2, ph[3])
         IN /\ Len(ph) \in {1, 2, 3}
            /\ Len(ph) = 1 =>
                 /\ IsBareCache(ph) => s1 = Reading(CacheWord, <<>>, <<>>, g, CacheWord)
                 /\ ~IsBareCache(ph) => s1 = AfterPhrase(ph, c, a, o, g)
            /\ Len(ph) = 2 => s2 = AfterPhrase(ph, c, a, o, g) /\ s1.wants # NoWord
            /\ Len(ph) = 3 => /\ s3 = AfterPhrase(ph, c, a, o, g)
                              /\ s1.wants # NoWord /\ s2.wants # NoWord
<1> DEFINE w == ph[1]
           f == Cli!Spelled(w)
           Goal(s1, s2, s3) ==
             /\ Len(ph) \in {1, 2, 3}
             /\ Len(ph) = 1 =>
                  /\ IsBareCache(ph) => s1 = Reading(CacheWord, <<>>, <<>>, g, CacheWord)
                  /\ ~IsBareCache(ph) => s1 = AfterPhrase(ph, c, a, o, g)
             /\ Len(ph) = 2 => s2 = AfterPhrase(ph, c, a, o, g) /\ s1.wants # NoWord
             /\ Len(ph) = 3 => /\ s3 = AfterPhrase(ph, c, a, o, g)
                               /\ s1.wants # NoWord /\ s2.wants # NoWord
<1> SUFFICES ASSUME NEW s, s = Reading(c, a, o, g, NoWord),
                    NEW s1, s1 = Cli!ReadWord(s, ph[1]),
                    NEW s2, s2 = Cli!ReadWord(s1, ph[2]),
                    NEW s3, s3 = Cli!ReadWord(s2, ph[3])
             PROVE  Goal(s1, s2, s3)
  OBVIOUS
<1>0. \/ IsGlobal(ph) \/ IsReplacement(ph)
      \/ IsCommand(ph) /\ c = NoWord
      \/ IsOption(ph) /\ c \in OwnersOf(ph)
  BY DEF IsRight
<1>1. CASE IsGlobal(ph)
  <2>1. AfterPhrase(ph, c, a, o, g) = Reading(c, a, o, Cli!Set(g, f, Given(ph)), NoWord)
    BY <1>1 DEF AfterPhrase
  <2>2. CASE Len(ph) = 1 /\ IsSwitch(w)
    <3>1. s1 = Reading(c, a, o, Cli!Set(g, f, Cli!On), NoWord)
      BY <2>2, FirstWord
    <3>2. ~IsBareCache(ph)
      BY <2>2, ShortPhrases, ActingWords, SortsApart DEF IsFlag, CacheWord
    <3> QED
      BY <2>1, <2>2, <3>1, <3>2 DEF Given
  <2>3. CASE Len(ph) = 2 /\ IsPath(w)
    <3>1. s1 = Reading(c, a, o, g, f) /\ f = w
      BY <2>3, FirstWord, SpelledFlags DEF IsPath
    <3>2. s2 = Reading(c, a, o, Cli!Set(g, w, ph[2]), NoWord)
      BY <2>3, <3>1, WantedWord
    <3>3. Given(ph) = ph[2]
      BY <2>3, <3>1 DEF Given, IsPath, Cli!ValueOf
    <3>4. s1.wants = w
      BY <3>1, ReadingIs
    <3>5. w # NoWord
      BY <2>3 DEF IsPath, NoWord
    <3> QED
      BY <2>1, <2>3, <3>1, <3>2, <3>3, <3>4, <3>5
  <2> QED
    BY <1>1, <2>2, <2>3, PhraseSorts
<1>2. CASE IsReplacement(ph)
  <2>1. Len(ph) = 1 /\ IsReplacer(w) /\ ~IsGlobal(ph) /\ ~IsCommand(ph) /\ NamesCommand(ph)
    BY <1>2, PhraseSorts, PhrasesApart DEF NamesCommand
  <2>2. ~IsBareCache(ph)
    BY <2>1, ShortPhrases, ActingWords, SortsApart DEF IsFlag, CacheWord
  <2>3. AfterPhrase(ph, c, a, o, g) = Reading(Cli!Replaces[f], <<>>, <<>>, g, NoWord)
    BY <2>1, <2>2, ShortPhrases DEF AfterPhrase, CommandOf, ArgsOf, IsBareCache
  <2>4. s1 = Reading(Cli!Replaces[f], <<>>, <<>>, g, NoWord)
    BY <2>1, FirstWord
  <2> QED
    BY <2>1, <2>2, <2>3, <2>4
<1>3. CASE IsCommand(ph) /\ c = NoWord
  <2>1. AfterPhrase(ph, c, a, o, g) = Reading(w, ArgsOf(ph), <<>>, g, NoWord)
    BY <1>3, PhrasesApart DEF AfterPhrase, CommandOf, NamesCommand
  <2>2. CASE Len(ph) = 1 /\ w = CacheWord
    <3>1. IsActing(w) /\ IsBareCache(ph)
      BY <2>2, ActingWords, ShortPhrases DEF CacheWord
    <3>2. s1 = Reading(w, <<>>, <<>>, g, w)
      BY <1>3, <3>1, FirstWord
    <3> QED
      BY <2>2, <3>1, <3>2
  <2>3. CASE Len(ph) = 1 /\ IsAlone(w)
    <3>1. ~IsBareCache(ph)
      BY <2>3, ActingWords, ShortPhrases, SortsApart DEF CacheWord
    <3>2. s1 = Reading(w, <<>>, <<>>, g, NoWord)
      BY <1>3, <2>3, FirstWord
    <3>3. ArgsOf(ph) = <<>>
      BY <2>3, <3>1, ShortPhrases DEF ArgsOf, IsBareCache
    <3> QED
      BY <2>1, <2>3, <3>1, <3>2, <3>3
  <2>4. CASE Len(ph) = 2 /\ IsWithArg(w)
    <3>1. s1 = Reading(w, <<>>, <<>>, g, w)
      BY <1>3, <2>4, FirstWord
    <3>2. s2 = Reading(w, Plus(<<>>, ph[2]), <<>>, g, NoWord)
      BY <2>4, <3>1, WantedWord
    <3>3. ArgsOf(ph) = One(ph[2])
      BY <2>4, ShortPhrases DEF ArgsOf, IsBareCache
    <3>4. s1.wants = w
      BY <3>1, ReadingIs
    <3>5. w # NoWord
      BY <2>4, Vocabulary DEF IsWithArg, NoWord
    <3> QED
      BY <3>5, <2>1, <2>4, <3>2, <3>3, <3>4, OneArgument
  <2>5. CASE Len(ph) = 2 /\ IsActing(w) /\ ph[2] \in Cli!Actions[w] /\ ph[2] # Accuracy
    <3>1. s1 = Reading(w, <<>>, <<>>, g, w)
      BY <1>3, <2>5, FirstWord
    <3>2. s2 = Reading(w, One(ph[2]), <<>>, g, NoWord)
      BY <2>5, <3>1, WantedWord
    <3>3. ArgsOf(ph) = One(ph[2])
      BY <2>5, ShortPhrases DEF ArgsOf, IsBareCache
    <3>4. s1.wants = w
      BY <3>1, ReadingIs
    <3>5. w # NoWord
      BY <2>5, Vocabulary DEF IsActing, NoWord
    <3> QED
      BY <3>5, <2>1, <2>5, <3>2, <3>3, <3>4
  <2>6. CASE Len(ph) = 3 /\ w = Experiment /\ ph[2] = Accuracy
    <3>0. IsActing(w) /\ ph[2] \in Cli!Actions[w]
      BY <2>6, ActingWords DEF Experiment, Accuracy
    <3>1. s1 = Reading(w, <<>>, <<>>, g, w)
      BY <1>3, <3>0, FirstWord
    <3>2. s2 = Reading(w, One(ph[2]), <<>>, g, Corpus)
      BY <2>6, <3>0, <3>1, WantedWord
    <3>3. s3 = Reading(w, Plus(One(ph[2]), ph[3]), <<>>, g, NoWord)
      BY <2>6, <3>2, WantedWord
    <3>4. ArgsOf(ph) = Plus(One(ph[2]), ph[3])
      BY <2>6, ShortPhrases DEF ArgsOf, IsBareCache
    <3>5. s1.wants = w /\ s2.wants = Corpus
      BY <3>1, <3>2, ReadingIs
    <3>6. w # NoWord /\ Corpus # NoWord
      BY <2>6 DEF NoWord, Corpus, Experiment
    <3> QED
      BY <3>6, <2>1, <2>6, <3>3, <3>4, <3>5
  <2> QED
    BY <1>3, <2>2, <2>3, <2>4, <2>5, <2>6, PhraseSorts DEF CacheWord, Experiment, Accuracy
<1>4. CASE IsOption(ph) /\ c \in OwnersOf(ph)
  <2>1. AfterPhrase(ph, c, a, o, g) = Reading(c, a, Cli!Set(o, f, Given(ph)), g, NoWord)
    BY <1>4, PhrasesApart DEF AfterPhrase
  <2>2. CASE Len(ph) = 1 /\ IsMark(w)
    <3>1. s1 = Reading(c, a, Cli!Set(o, f, Cli!On), g, NoWord)
      BY <1>4, <2>2, FirstWord DEF OwnersOf
    <3>2. ~IsBareCache(ph)
      BY <2>2, ShortPhrases, ActingWords, SortsApart DEF IsFlag, CacheWord
    <3> QED
      BY <2>1, <2>2, <3>1, <3>2 DEF Given
  <2>3. CASE Len(ph) = 2 /\ IsValued(w) /\ Cli!ValueOk(f, ph[2])
    <3>1. s1 = Reading(c, a, o, g, f) /\ f \in DOMAIN Cli!Valued
      BY <2>3, FirstWord DEF IsValued
    <3>2. c \in Cli!Valued[f]
      BY <1>4, <2>3 DEF OwnersOf
    <3>3. s2 = Reading(c, a, Cli!Set(o, f, Cli!ValueOf(f, ph[2])), g, NoWord)
      BY <2>3, <3>1, <3>2, WantedWord
    <3>4. Given(ph) = Cli!ValueOf(f, ph[2])
      BY <2>3 DEF Given
    <3>5. s1.wants = f
      BY <3>1, ReadingIs
    <3>6. f # NoWord
      BY <3>1, Vocabulary DEF NoWord
    <3> QED
      BY <3>6, <2>1, <2>3, <3>3, <3>4, <3>5
  <2> QED
    BY <1>4, <2>2, <2>3, PhraseSorts
<1> QED
  BY <1>0, <1>1, <1>2, <1>3, <1>4

\* The greatest of a set of positions.
LEMMA Greatest ==
  ASSUME NEW n \in Nat, NEW S \in SUBSET (0 .. n), S # {}
  PROVE  Max(S) \in S /\ \A m \in S : m <= Max(S)
<1> DEFINE T == {k \in 0 .. n : n - k \in S}
<1>1. PICK m \in S : TRUE
  OBVIOUS
<1>2. n - m \in 0 .. n /\ n - (n - m) = m
  OBVIOUS
<1>3. T \in SUBSET Nat /\ T # {}
  BY <1>1, <1>2
<1>4. PICK k \in T : \A j \in T : ~ (<<j, k>> \in OpToRel(<, Nat))
  BY <1>3, NatLessThanWellFounded, WFMin
<1>5. \A j \in T : ~(j < k)
  BY <1>3, <1>4 DEF OpToRel
<1>6. k \in 0 .. n /\ n - k \in S
  BY <1>4
<1>7. ASSUME NEW j \in S PROVE n - k >= j
  <2>1. n - j \in 0 .. n /\ n - (n - j) = j
    OBVIOUS
  <2>2. ~(n - j < k)
    BY <1>5, <2>1
  <2> QED
    BY <1>6, <2>1, <2>2
<1>8. \E x \in S : \A y \in S : x >= y
  BY <1>6, <1>7
<1>9. Max(S) \in S /\ \A y \in S : Max(S) >= y
  BY <1>8 DEF Max
<1>10. \A y \in S : y \in Int
  OBVIOUS
<1> QED
  BY <1>9, <1>10

LEMMA GreatestIs ==
  ASSUME NEW n \in Nat, NEW S \in SUBSET (0 .. n), NEW m \in S, \A k \in S : k <= m
  PROVE  Max(S) = m
<1>1. Max(S) \in S /\ m <= Max(S)
  BY Greatest
<1>2. PICK x : x = Max(S)
  OBVIOUS
<1>3. x \in S /\ m <= x
  BY <1>1, <1>2
<1>4. x <= m /\ x \in 0 .. n /\ m \in 0 .. n
  BY <1>3
<1>5. x = m
  BY <1>3, <1>4
<1> QED
  BY <1>2, <1>5

LEMMA BeforeIs ==
  ASSUME NEW n \in Nat, NEW ends \in SUBSET (1 .. n), NEW e \in 1 .. n
  PROVE  /\ Before(ends, e) \in {0} \cup ends /\ Before(ends, e) \in 0 .. n
         /\ Before(ends, e) < e
         /\ \A d \in ends : d < e => d <= Before(ends, e)
<1> DEFINE S == {0} \cup {d \in ends : d < e}
<1>1. 0 \in S /\ \A d \in S : d \in 0 .. n /\ d < e
  OBVIOUS
<1>2. \A d \in ends : d < e => d \in S
  OBVIOUS
<1>3. \A d \in S : d \in {0} \cup ends
  OBVIOUS
<1>4. Before(ends, e) = Max(S)
  BY DEF Before
<1> HIDE DEF S
<1>5. S \in SUBSET (0 .. n) /\ S # {}
  BY <1>1
<1>6. Max(S) \in S /\ \A m \in S : m <= Max(S)
  BY <1>5, Greatest
<1> QED
  BY <1>1, <1>2, <1>3, <1>4, <1>6

LEMMA PhraseIs ==
  ASSUME NEW W, NEW words \in Seq(W), NEW ends \in SUBSET (1 .. Len(words)),
         NEW e \in 1 .. Len(words)
  PROVE  LET b == Before(ends, e)
             ph == Phrase(words, ends, e)
         IN ph \in Seq(W) /\ Len(ph) = e - b /\ \A i \in 1 .. e - b : ph[i] = words[b + i]
<1> DEFINE b == Before(ends, e)
<1>1. Len(words) \in Nat
  OBVIOUS
<1>2. b \in 0 .. Len(words) /\ b < e
  BY <1>1, BeforeIs
<1>3. b + 1 \in Nat /\ e \in Nat /\ b + 1 >= 1 /\ e <= Len(words)
  BY <1>1, <1>2
<1> HIDE DEF b
<1> DEFINE ph == SubSeq(words, b + 1, e)
<1>4. ph \in Seq(W)
  BY <1>3
<1>5. Len(ph) = e - b
  BY <1>2, <1>3
<1>6. \A i \in 1 .. e - b : ph[i] = words[b + i]
  BY <1>2, <1>3
<1> QED
  BY <1>4, <1>5, <1>6 DEF Phrase, b

\* The phrases that name a command, up to p.
NamingBy(words, ends, p) == {e \in ends : e <= p /\ NamesCommand(Phrase(words, ends, e))}

LEMMA NamedAtIs ==
  ASSUME NEW n \in Nat, NEW words, NEW ends \in SUBSET (1 .. n), NEW p \in 0 .. n
  PROVE  LET named == NamedAt(words, ends, p)
         IN /\ named \in {0} \cup NamingBy(words, ends, p) /\ named \in 0 .. p
            /\ \A d \in NamingBy(words, ends, p) : d <= named
<1> DEFINE N == NamingBy(words, ends, p)
           S == {0} \cup N
<1>1. \A d \in N : d \in 1 .. n /\ d <= p
  BY DEF NamingBy
<1>2. NamedAt(words, ends, p) = Max(S)
  BY DEF NamedAt, NamingBy
<1> HIDE DEF N
<1>3. S \in SUBSET (0 .. n) /\ S # {}
  BY <1>1
<1>4. Max(S) \in S /\ \A m \in S : m <= Max(S)
  BY <1>3, Greatest
<1> HIDE DEF S
<1>5. PICK x : x = Max(S)
  OBVIOUS
<1>6. x \in S /\ \A m \in S : m <= x
  BY <1>4, <1>5
<1>7. x \in {0} \cup N /\ x \in 0 .. p /\ \A d \in N : d <= x
  BY <1>1, <1>6 DEF S
<1> QED
  BY <1>2, <1>5, <1>7 DEF N

\* From one phrase to the next, the named command changes where a phrase names one.
LEMMA NamedAtStep ==
  ASSUME NEW n \in Nat, NEW words, NEW ends \in SUBSET (1 .. n), NEW e \in ends
  PROVE  NamedAt(words, ends, e) = IF NamesCommand(Phrase(words, ends, e)) THEN e
                                   ELSE NamedAt(words, ends, Before(ends, e))
<1> DEFINE b == Before(ends, e)
           N(p) == NamingBy(words, ends, p)
<1>1. b \in 0 .. n /\ b < e /\ e \in 0 .. n /\ \A d \in ends : d < e => d <= b
  BY BeforeIs
<1>2. \A p : NamedAt(words, ends, p) = Max({0} \cup N(p))
  BY DEF NamedAt, NamingBy
<1> HIDE DEF b
<1>3. CASE NamesCommand(Phrase(words, ends, e))
  <2> DEFINE S == {0} \cup N(e)
  <2>1. e \in N(e) /\ \A k \in N(e) : k \in 1 .. n /\ k <= e
    BY <1>1, <1>3 DEF NamingBy
  <2> HIDE DEF N
  <2>2. S \in SUBSET (0 .. n) /\ e \in S /\ \A k \in S : k <= e
    BY <1>1, <2>1
  <2> HIDE DEF S
  <2>3. Max(S) = e
    BY <2>2, GreatestIs
  <2> QED
    BY <1>2, <1>3, <2>3 DEF S
<1>4. CASE ~NamesCommand(Phrase(words, ends, e))
  <2>1. \A d \in ends : NamesCommand(Phrase(words, ends, d)) /\ d <= e => d <= b
    BY <1>1, <1>4
  <2>2. \A d \in ends : d <= b => d <= e
    BY <1>1
  <2>3. N(e) = N(b)
    BY <2>1, <2>2 DEF NamingBy
  <2> QED
    BY <1>2, <1>4, <2>3 DEF b
<1> QED
  BY <1>3, <1>4

LEMMA NamedAtStart ==
  ASSUME NEW words, NEW ends \in SUBSET (Nat \ {0}) PROVE NamedAt(words, ends, 0) = 0
<1>1. \A e \in ends : ~(e <= 0)
  OBVIOUS
<1>2. {0} \cup {e \in ends : e <= 0 /\ NamesCommand(Phrase(words, ends, e))} = {0}
  BY <1>1
<1>3. Max({0}) = 0
  <2>1. {0} \in SUBSET (0 .. 0) /\ 0 \in {0} /\ \A k \in {0} : k <= 0
    OBVIOUS
  <2> QED
    BY <2>1, GreatestIs
<1> QED
  BY <1>2, <1>3 DEF NamedAt

\* One more phrase that sets something.
LEMMA SettingsStep ==
  ASSUME NEW n \in Nat, NEW words, NEW ends, NEW given \in SUBSET (1 .. n), NEW e \in 1 .. n,
         \A d \in given : d < e
  PROVE  SettingsOf(words, ends, given \cup {e})
           = Cli!Set(SettingsOf(words, ends, given), NameAt(words, ends, e),
                     Given(Phrase(words, ends, e)))
<1> DEFINE Of(S, o) == {d \in S : NameAt(words, ends, d) = o}
           Value(d) == Given(Phrase(words, ends, d))
           more == given \cup {e}
           x == NameAt(words, ends, e)
           old == SettingsOf(words, ends, given)
           D(S) == {NameAt(words, ends, d) : d \in S}
<1>1. \A S : SettingsOf(words, ends, S) = [o \in D(S) |-> Value(Max(Of(S, o)))]
  BY DEF SettingsOf
<1>2. D(more) = D(given) \cup {x}
  <2> HIDE DEF x
  <2>1. \A d \in more : d \in given \/ d = e
    OBVIOUS
  <2>2. \A y : y \in D(more) <=> y \in D(given) \/ y = x
    BY <2>1, Zenon DEF D, x, more
  <2> QED
    BY <2>2
<1>3. Max(Of(more, x)) = e
  <2> HIDE DEF x
  <2>0. \A d \in more : d \in 0 .. n /\ d <= e
    OBVIOUS
  <2>1. Of(more, x) \in SUBSET (0 .. n) /\ e \in Of(more, x) /\ \A k \in Of(more, x) : k <= e
    <3>1. e \in more
      OBVIOUS
    <3> HIDE DEF more
    <3>2. e \in Of(more, x)
      BY <3>1 DEF x
    <3> QED
      BY <2>0, <3>2
  <2> HIDE DEF Of
  <2> QED
    BY <2>1, GreatestIs
<1>4. \A o \in D(given) : o # x => Of(more, o) = Of(given, o)
  OBVIOUS
<1>5. DOMAIN old = D(given) /\ \A o \in D(given) : old[o] = Value(Max(Of(given, o)))
  BY <1>1
<1>6. Cli!Set(old, x, Value(e)) = [o \in D(given) \cup {x} |-> IF o = x THEN Value(e) ELSE old[o]]
  BY <1>5 DEF Cli!Set
<1> HIDE DEF Of, Value, D, old, x
<1>7. \A o \in D(given) \cup {x} : Value(Max(Of(more, o))) = IF o = x THEN Value(e) ELSE old[o]
  BY <1>3, <1>4, <1>5
<1>8. SettingsOf(words, ends, more) = [o \in D(given) \cup {x} |-> Value(Max(Of(more, o)))]
  BY <1>1, <1>2
<1>9. SettingsOf(words, ends, more) = Cli!Set(old, x, Value(e))
  BY <1>6, <1>7, <1>8
<1> QED
  BY <1>9 DEF old, x, Value

LEMMA NoSettings == ASSUME NEW words, NEW ends PROVE SettingsOf(words, ends, {}) = <<>>
BY DEF SettingsOf

\* The positions whose phrases set the options that hold at p, and the globals.
OptionEnds(words, ends, p) ==
  {e \in ends : NamedAt(words, ends, p) < e /\ e <= p /\ IsOption(Phrase(words, ends, e))}
GlobalEnds(words, ends, p) == {e \in ends : e <= p /\ IsGlobal(Phrase(words, ends, e))}

\* What a cut says of the parser after position p.
StateAt(words, ends, p) ==
  Reading(CommandAt(words, ends, p), ArgsAt(words, ends, p), OptionsAt(words, ends, p),
          GlobalsAt(words, ends, p), NoWord)

LEMMA CommandStep ==
  ASSUME NEW n \in Nat, NEW words, NEW ends \in SUBSET (1 .. n), NEW e \in ends
  PROVE  LET b == Before(ends, e)
             ph == Phrase(words, ends, e)
         IN /\ NamesCommand(ph) => /\ CommandAt(words, ends, e) = CommandOf(ph)
                                   /\ ArgsAt(words, ends, e) = ArgsOf(ph)
            /\ ~NamesCommand(ph) => /\ CommandAt(words, ends, e) = CommandAt(words, ends, b)
                                    /\ ArgsAt(words, ends, e) = ArgsAt(words, ends, b)
<1> DEFINE b == Before(ends, e)
           ph == Phrase(words, ends, e)
<1>1. e \in Nat /\ e # 0
  OBVIOUS
<1>2. NamedAt(words, ends, e) = IF NamesCommand(ph) THEN e ELSE NamedAt(words, ends, b)
  BY NamedAtStep
<1> HIDE DEF b, ph
<1>3. CASE NamesCommand(ph)
  <2>1. NamedAt(words, ends, e) = e
    BY <1>2, <1>3
  <2>2. CommandAt(words, ends, e) = CommandOf(ph) /\ ArgsAt(words, ends, e) = ArgsOf(ph)
    BY <1>1, <2>1 DEF CommandAt, ArgsAt, ph
  <2> QED
    BY <1>3, <2>2 DEF b, ph
<1>4. CASE ~NamesCommand(ph)
  <2>1. NamedAt(words, ends, e) = NamedAt(words, ends, b)
    BY <1>2, <1>4
  <2>2. /\ CommandAt(words, ends, e) = CommandAt(words, ends, b)
        /\ ArgsAt(words, ends, e) = ArgsAt(words, ends, b)
    BY <2>1 DEF CommandAt, ArgsAt
  <2> QED
    BY <1>4, <2>2 DEF b, ph
<1> QED
  BY <1>3, <1>4

LEMMA OptionsStep ==
  ASSUME NEW n \in Nat, NEW words, NEW ends \in SUBSET (1 .. n), NEW e \in ends
  PROVE  LET b == Before(ends, e)
             ph == Phrase(words, ends, e)
         IN /\ NamesCommand(ph) => OptionsAt(words, ends, e) = <<>>
            /\ IsOption(ph) => OptionsAt(words, ends, e)
                                 = Cli!Set(OptionsAt(words, ends, b), Cli!Spelled(ph[1]), Given(ph))
            /\ IsGlobal(ph) => OptionsAt(words, ends, e) = OptionsAt(words, ends, b)
<1> DEFINE b == Before(ends, e)
           ph == Phrase(words, ends, e)
           O(p) == OptionEnds(words, ends, p)
           N(p) == NamedAt(words, ends, p)
<1>1. \A p : OptionsAt(words, ends, p) = SettingsOf(words, ends, O(p))
  BY DEF OptionsAt, OptionEnds
<1>2. b \in 0 .. n /\ b < e /\ e \in 0 .. n /\ \A d \in ends : d < e => d <= b
  BY BeforeIs
<1>3. NamedAt(words, ends, e) = IF NamesCommand(ph) THEN e ELSE NamedAt(words, ends, b)
  BY NamedAtStep
<1>4. N(b) \in 0 .. b
  BY <1>2, NamedAtIs
<1>5. \A p, d : d \in O(p) <=> d \in ends /\ N(p) < d /\ d <= p /\ IsOption(Phrase(words, ends, d))
  BY DEF OptionEnds
<1> HIDE DEF b, O, N
<1>6. CASE NamesCommand(ph)
  <2>1. N(e) = e
    BY <1>3, <1>6 DEF N
  <2>2. O(e) = {}
    <3>1. \A d \in ends : ~(N(e) < d /\ d <= e)
      BY <1>2, <2>1
    <3> QED
      BY <1>5, <3>1
  <2>3. OptionsAt(words, ends, e) = <<>>
    BY <1>1, <2>2, NoSettings
  <2>4. ~IsOption(ph) /\ ~IsGlobal(ph)
    BY <1>6, PhrasesApart
  <2> QED
    BY <2>3, <2>4 DEF ph
<1>7. CASE ~NamesCommand(ph)
  <2>1. N(e) = N(b)
    BY <1>3, <1>7 DEF N
  <2>2. \A d \in ends : d <= e => d <= b \/ d = e
    BY <1>2
  <2>3. \A d \in ends : d <= b => d <= e /\ d < e
    BY <1>2
  <2>4. CASE IsOption(ph)
    <3>1. N(b) < e
      BY <1>2, <1>4
    <3>2. e \in O(e)
      BY <1>2, <1>5, <2>1, <2>4, <3>1
    <3>3. \A d : d \in O(e) <=> d \in O(b) \/ d = e
      BY <1>5, <2>1, <2>2, <2>3, <3>2
    <3>4. O(e) = O(b) \cup {e}
      BY <3>3
    <3>5. O(b) \in SUBSET (1 .. n) /\ \A d \in O(b) : d < e
      BY <1>5, <2>3
    <3>6. SettingsOf(words, ends, O(b) \cup {e})
            = Cli!Set(SettingsOf(words, ends, O(b)), NameAt(words, ends, e), Given(ph))
      BY <3>5, SettingsStep
    <3>7. OptionsAt(words, ends, e)
            = Cli!Set(OptionsAt(words, ends, b), Cli!Spelled(ph[1]), Given(ph))
      BY <1>1, <3>4, <3>6 DEF NameAt
    <3>8. ~IsGlobal(ph)
      BY <2>4, PhrasesApart
    <3> QED
      BY <1>7, <3>7, <3>8 DEF b, ph
  <2>5. CASE ~IsOption(ph)
    <3>1. \A d : d \in O(e) => d # e
      BY <1>5, <2>5
    <3>2. \A d : d \in O(e) <=> d \in O(b)
      BY <1>5, <2>1, <2>2, <2>3, <3>1
    <3>3. O(e) = O(b)
      BY <3>2
    <3>4. OptionsAt(words, ends, e) = OptionsAt(words, ends, b)
      BY <1>1, <3>3
    <3> QED
      BY <1>7, <2>5, <3>4 DEF b, ph
  <2> QED
    BY <2>4, <2>5
<1> QED
  BY <1>6, <1>7

LEMMA GlobalsStep ==
  ASSUME NEW n \in Nat, NEW words, NEW ends \in SUBSET (1 .. n), NEW e \in ends
  PROVE  LET b == Before(ends, e)
             ph == Phrase(words, ends, e)
         IN /\ IsGlobal(ph) => GlobalsAt(words, ends, e)
                                 = Cli!Set(GlobalsAt(words, ends, b), Cli!Spelled(ph[1]), Given(ph))
            /\ ~IsGlobal(ph) => GlobalsAt(words, ends, e) = GlobalsAt(words, ends, b)
<1> DEFINE b == Before(ends, e)
           ph == Phrase(words, ends, e)
           G(p) == GlobalEnds(words, ends, p)
<1>1. \A p : GlobalsAt(words, ends, p) = SettingsOf(words, ends, G(p))
  BY DEF GlobalsAt, GlobalEnds
<1>2. b \in 0 .. n /\ b < e /\ e \in 0 .. n /\ \A d \in ends : d < e => d <= b
  BY BeforeIs
<1>3. \A p, d : d \in G(p) <=> d \in ends /\ d <= p /\ IsGlobal(Phrase(words, ends, d))
  BY DEF GlobalEnds
<1> HIDE DEF b, G
<1>4. \A d \in ends : d <= e => d <= b \/ d = e
  BY <1>2
<1>5. \A d \in ends : d <= b => d <= e /\ d < e
  BY <1>2
<1>6. CASE IsGlobal(ph)
  <2>1. e \in G(e)
    BY <1>2, <1>3, <1>6
  <2>2. \A d : d \in G(e) <=> d \in G(b) \/ d = e
    BY <1>3, <1>4, <1>5, <2>1
  <2>3. G(e) = G(b) \cup {e}
    BY <2>2
  <2>4. G(b) \in SUBSET (1 .. n) /\ \A d \in G(b) : d < e
    BY <1>3, <1>5
  <2>5. SettingsOf(words, ends, G(b) \cup {e})
          = Cli!Set(SettingsOf(words, ends, G(b)), NameAt(words, ends, e), Given(ph))
    BY <2>4, SettingsStep
  <2>6. GlobalsAt(words, ends, e)
          = Cli!Set(GlobalsAt(words, ends, b), Cli!Spelled(ph[1]), Given(ph))
    BY <1>1, <2>3, <2>5 DEF NameAt
  <2> QED
    BY <1>6, <2>6 DEF b, ph
<1>7. CASE ~IsGlobal(ph)
  <2>1. \A d : d \in G(e) => d # e
    BY <1>3, <1>7
  <2>2. \A d : d \in G(e) <=> d \in G(b)
    BY <1>3, <1>4, <1>5, <2>1
  <2>3. G(e) = G(b)
    BY <2>2
  <2>4. GlobalsAt(words, ends, e) = GlobalsAt(words, ends, b)
    BY <1>1, <2>3
  <2> QED
    BY <1>7, <2>4 DEF b, ph
<1> QED
  BY <1>6, <1>7

\* A phrase makes of the parser what the cut says.
LEMMA StateStep ==
  ASSUME NEW n \in Nat, NEW words, NEW ends \in SUBSET (1 .. n), NEW e \in ends
  PROVE  LET b == Before(ends, e)
             ph == Phrase(words, ends, e)
         IN IsGlobal(ph) \/ NamesCommand(ph) \/ IsOption(ph) =>
              StateAt(words, ends, e)
                = AfterPhrase(ph, CommandAt(words, ends, b), ArgsAt(words, ends, b),
                              OptionsAt(words, ends, b), GlobalsAt(words, ends, b))
<1> DEFINE b == Before(ends, e)
           ph == Phrase(words, ends, e)
<1> HIDE DEF b, ph
<1>1. /\ IsGlobal(ph) => ~NamesCommand(ph) /\ ~IsOption(ph)
      /\ NamesCommand(ph) => ~IsOption(ph) /\ ~IsGlobal(ph)
      /\ IsOption(ph) => ~NamesCommand(ph) /\ ~IsGlobal(ph)
  BY PhrasesApart
<1>2. /\ NamesCommand(ph) => /\ CommandAt(words, ends, e) = CommandOf(ph)
                             /\ ArgsAt(words, ends, e) = ArgsOf(ph)
      /\ ~NamesCommand(ph) => /\ CommandAt(words, ends, e) = CommandAt(words, ends, b)
                              /\ ArgsAt(words, ends, e) = ArgsAt(words, ends, b)
  BY CommandStep DEF b, ph
<1>3. /\ NamesCommand(ph) => OptionsAt(words, ends, e) = <<>>
      /\ IsOption(ph) => OptionsAt(words, ends, e)
                           = Cli!Set(OptionsAt(words, ends, b), Cli!Spelled(ph[1]), Given(ph))
      /\ IsGlobal(ph) => OptionsAt(words, ends, e) = OptionsAt(words, ends, b)
  BY OptionsStep DEF b, ph
<1>4. /\ IsGlobal(ph) => GlobalsAt(words, ends, e)
                           = Cli!Set(GlobalsAt(words, ends, b), Cli!Spelled(ph[1]), Given(ph))
      /\ ~IsGlobal(ph) => GlobalsAt(words, ends, e) = GlobalsAt(words, ends, b)
  BY GlobalsStep DEF b, ph
<1>5. ASSUME IsGlobal(ph) \/ NamesCommand(ph) \/ IsOption(ph)
      PROVE  StateAt(words, ends, e)
               = AfterPhrase(ph, CommandAt(words, ends, b), ArgsAt(words, ends, b),
                             OptionsAt(words, ends, b), GlobalsAt(words, ends, b))
  BY <1>1, <1>2, <1>3, <1>4, <1>5 DEF StateAt, AfterPhrase
<1> QED
  BY <1>5 DEF b, ph

LEMMA StateStart ==
  ASSUME NEW words, NEW ends \in SUBSET (Nat \ {0}) PROVE StateAt(words, ends, 0) = Cli!Start
<1>1. NamedAt(words, ends, 0) = 0
  BY NamedAtStart
<1>2. \A e \in ends : ~(e <= 0)
  OBVIOUS
<1>3. OptionEnds(words, ends, 0) = {} /\ GlobalEnds(words, ends, 0) = {}
  BY <1>2 DEF OptionEnds, GlobalEnds
<1>4. OptionsAt(words, ends, 0) = <<>> /\ GlobalsAt(words, ends, 0) = <<>>
  BY <1>3, NoSettings DEF OptionsAt, GlobalsAt, OptionEnds, GlobalEnds
<1>5. CommandAt(words, ends, 0) = "" /\ ArgsAt(words, ends, 0) = <<>>
  BY <1>1 DEF CommandAt, ArgsAt
<1> QED
  BY <1>4, <1>5 DEF StateAt, Reading, NoWord, Cli!Start

LEMMA RightIs ==
  ASSUME NEW words, NEW ends, NEW e
  PROVE  RightAt(words, ends, e)
           <=> /\ IsRight(Phrase(words, ends, e), CommandAt(words, ends, Before(ends, e)))
               /\ IsBareCache(Phrase(words, ends, e)) => e = Len(words)
<1> DEFINE ph == Phrase(words, ends, e)
           c == CommandAt(words, ends, Before(ends, e))
<1>1. RightAt(words, ends, e) <=> \/ IsGlobal(ph) \/ IsReplacement(ph)
                                  \/ IsCommand(ph) /\ c = NoWord /\ (IsBareCache(ph) => e = Len(words))
                                  \/ IsOption(ph) /\ c \in OwnersOf(ph)
  BY DEF RightAt, NoWord, IsBareCache
<1>2. IsBareCache(ph) => IsCommand(ph)
  BY DEF IsBareCache, IsCommand
<1> HIDE DEF ph, c
<1>3. IsCommand(ph) => ~IsGlobal(ph) /\ ~IsReplacement(ph) /\ ~IsOption(ph)
  BY PhrasesApart DEF NamesCommand
<1>4. RightAt(words, ends, e) <=> IsRight(ph, c) /\ (IsBareCache(ph) => e = Len(words))
  BY <1>1, <1>2, <1>3 DEF IsRight
<1> QED
  BY <1>4 DEF ph, c

\* The parser after `cache`, before it is known whether an action follows.
Bare(g) == Reading(CacheWord, <<>>, <<>>, g, CacheWord)

\* A run of the parser over the words of a line.
IsLineRun(words, run) ==
  /\ run[0] = Cli!Start
  /\ \A k \in 1 .. Len(words) : run[k] = Cli!ReadWord(run[k - 1], words[k])

\* Between b and e, the parser wants a word.
WantsBetween(run, b, e) == \A k \in b + 1 .. e - 1 : run[k].wants # NoWord

\* What a phrase that is right makes of the parser, word by word.
IsReadFrom(run, b, e, ph, c, a, o, g) ==
  /\ e - b \in {1, 2, 3}
  /\ WantsBetween(run, b, e)
  /\ IsBareCache(ph) => run[e] = Bare(g)
  /\ ~IsBareCache(ph) => run[e] = AfterPhrase(ph, c, a, o, g)

LEMMA PhraseRun ==
  ASSUME NEW W, NEW words \in Seq(W), NEW ends \in SUBSET (1 .. Len(words)), NEW e \in ends,
         NEW run, IsLineRun(words, run), NEW c, NEW a, NEW o, NEW g,
         run[Before(ends, e)] = Reading(c, a, o, g, NoWord), IsRight(Phrase(words, ends, e), c)
  PROVE  IsReadFrom(run, Before(ends, e), e, Phrase(words, ends, e), c, a, o, g)
<1> DEFINE b == Before(ends, e)
           ph == Phrase(words, ends, e)
           n == Len(words)
<1>1. n \in Nat /\ e \in 1 .. n
  OBVIOUS
<1>2. b \in 0 .. n /\ b < e
  BY <1>1, BeforeIs
<1>3. ph \in Seq(W) /\ Len(ph) = e - b /\ \A i \in 1 .. e - b : ph[i] = words[b + i]
  BY <1>1, PhraseIs
<1>4. IsRight(ph, c) /\ run[b] = Reading(c, a, o, g, NoWord)
  OBVIOUS
<1> HIDE DEF b, ph
<1>5. \A k \in 1 .. n : \A j : k - 1 = j => run[k] = Cli!ReadWord(run[j], words[k])
  BY DEF IsLineRun
<1>6. run[b + 1] = Cli!ReadWord(run[b], ph[1])
  <2>1. b + 1 \in 1 .. n /\ (b + 1) - 1 = b /\ 1 \in 1 .. e - b
    BY <1>1, <1>2
  <2>2. ph[1] = words[b + 1]
    BY <1>3, <2>1
  <2>3. run[b + 1] = Cli!ReadWord(run[b], words[b + 1])
    BY <1>5, <2>1, Zenon
  <2> QED
    BY <2>1, <2>2, <2>3
<1>7. Len(ph) > 1 => run[b + 2] = Cli!ReadWord(run[b + 1], ph[2])
  <2>1. Len(ph) > 1 => b + 2 \in 1 .. n /\ (b + 2) - 1 = b + 1 /\ 2 \in 1 .. e - b
    BY <1>1, <1>2, <1>3
  <2>2. Len(ph) > 1 => ph[2] = words[b + 2]
    BY <1>3, <2>1
  <2>3. Len(ph) > 1 => run[b + 2] = Cli!ReadWord(run[b + 1], words[b + 2])
    BY <1>5, <2>1, Zenon
  <2> QED
    BY <2>1, <2>2, <2>3
<1>8. Len(ph) > 2 => run[b + 3] = Cli!ReadWord(run[b + 2], ph[3])
  <2>1. Len(ph) > 2 => b + 3 \in 1 .. n /\ (b + 3) - 1 = b + 2 /\ 3 \in 1 .. e - b
    BY <1>1, <1>2, <1>3
  <2>2. Len(ph) > 2 => ph[3] = words[b + 3]
    BY <1>3, <2>1
  <2>3. Len(ph) > 2 => run[b + 3] = Cli!ReadWord(run[b + 2], words[b + 3])
    BY <1>5, <2>1, Zenon
  <2> QED
    BY <2>1, <2>2, <2>3
<1> DEFINE s == run[b]
           s1 == run[b + 1]
           s2 == run[b + 2]
           s3 == run[b + 3]
<1>9. /\ s = Reading(c, a, o, g, NoWord) /\ s1 = Cli!ReadWord(s, ph[1])
      /\ Len(ph) > 1 => s2 = Cli!ReadWord(s1, ph[2])
      /\ Len(ph) > 2 => s3 = Cli!ReadWord(s2, ph[3])
  BY <1>4, <1>6, <1>7, <1>8
<1> HIDE DEF s, s1, s2, s3
<1>10. /\ Len(ph) \in {1, 2, 3}
       /\ Len(ph) = 1 => /\ IsBareCache(ph) => s1 = Bare(g)
                         /\ ~IsBareCache(ph) => s1 = AfterPhrase(ph, c, a, o, g)
       /\ Len(ph) = 2 => s2 = AfterPhrase(ph, c, a, o, g) /\ s1.wants # NoWord
       /\ Len(ph) = 3 => /\ s3 = AfterPhrase(ph, c, a, o, g)
                         /\ s1.wants # NoWord /\ s2.wants # NoWord
  <2> DEFINE t1 == Cli!ReadWord(Reading(c, a, o, g, NoWord), ph[1])
             t2 == Cli!ReadWord(t1, ph[2])
             t3 == Cli!ReadWord(t2, ph[3])
  <2>1. /\ Len(ph) \in {1, 2, 3}
        /\ Len(ph) = 1 => /\ IsBareCache(ph) => t1 = Bare(g)
                          /\ ~IsBareCache(ph) => t1 = AfterPhrase(ph, c, a, o, g)
        /\ Len(ph) = 2 => t2 = AfterPhrase(ph, c, a, o, g) /\ t1.wants # NoWord
        /\ Len(ph) = 3 => /\ t3 = AfterPhrase(ph, c, a, o, g)
                          /\ t1.wants # NoWord /\ t2.wants # NoWord
    BY <1>3, <1>4, PhraseIsRead DEF Bare
  <2>2. s1 = t1 /\ (Len(ph) = 2 => s2 = t2) /\ (Len(ph) = 3 => s2 = t2 /\ s3 = t3)
    BY <1>9
  <2> HIDE DEF t1, t2, t3
  <2> QED
    BY <2>1, <2>2, Zenon
<1>11. IsBareCache(ph) => Len(ph) = 1
  BY DEF IsBareCache
<1>15. /\ b = Before(ends, e)
       /\ ph = Phrase(words, ends, e)
  BY DEF b, ph
<1> DEFINE Goal == /\ e - b \in {1, 2, 3}
                   /\ \A k \in b + 1 .. e - 1 : run[k].wants # NoWord
                   /\ IsBareCache(ph) => run[e] = Bare(g)
                   /\ ~IsBareCache(ph) => run[e] = AfterPhrase(ph, c, a, o, g)
<1>16. Len(ph) \in {1, 2, 3} /\ e - b \in {1, 2, 3} /\ e - b = Len(ph)
  BY <1>3, <1>10, Zenon
<1>18. b \in Int /\ e \in Int
  BY <1>1, <1>2
<1>12. ASSUME Len(ph) = 1 PROVE Goal
  <2>1. e = b + 1 /\ \A k \in b + 1 .. e - 1 : FALSE
    <3>1. e - b = 1
      BY <1>16, <1>12
    <3> QED
      BY <1>18, <3>1
  <2>2. s1 = run[e]
    BY <2>1 DEF s1
  <2>3. /\ IsBareCache(ph) => run[e] = Bare(g)
        /\ ~IsBareCache(ph) => run[e] = AfterPhrase(ph, c, a, o, g)
    BY <1>10, <1>12, <2>2, Zenon
  <2> QED
    BY <1>12, <1>16, <2>1, <2>3, Zenon
<1>13. ASSUME Len(ph) = 2 PROVE Goal
  <2>1. e = b + 2 /\ \A k \in b + 1 .. e - 1 : k = b + 1
    <3>1. e - b = 2
      BY <1>16, <1>13
    <3> QED
      BY <1>18, <3>1
  <2>2. s2 = run[e] /\ \A k \in b + 1 .. e - 1 : run[k] = s1
    BY <2>1 DEF s2, s1
  <2>3. ~IsBareCache(ph)
    BY <1>11, <1>13
  <2>4. run[e] = AfterPhrase(ph, c, a, o, g) /\ s1.wants # NoWord
    BY <1>10, <1>13, <2>2, Zenon
  <2> QED
    BY <1>13, <1>16, <2>2, <2>3, <2>4, Zenon
<1>14. ASSUME Len(ph) = 3 PROVE Goal
  <2>1. e = b + 3 /\ \A k \in b + 1 .. e - 1 : k = b + 1 \/ k = b + 2
    <3>1. e - b = 3
      BY <1>16, <1>14
    <3> QED
      BY <1>18, <3>1
  <2>2. s3 = run[e] /\ \A k \in b + 1 .. e - 1 : run[k] = s1 \/ run[k] = s2
    BY <2>1 DEF s3, s1, s2
  <2>3. ~IsBareCache(ph)
    BY <1>11, <1>14
  <2>4. run[e] = AfterPhrase(ph, c, a, o, g) /\ s1.wants # NoWord /\ s2.wants # NoWord
    BY <1>10, <1>14, <2>2, Zenon
  <2> QED
    BY <1>14, <1>16, <2>2, <2>3, <2>4, Zenon
<1>17. Goal
  BY <1>12, <1>13, <1>14, <1>16
<1> QED
  BY <1>15, <1>17 DEF IsReadFrom, WantsBetween

\* After position p, the parser is where the cut says.
AgreesAt(words, ends, run, p) == run[p] = StateAt(words, ends, p)

\* What is wanted within a phrase of a cut, and what the cut says at its end.
LEMMA CutStep ==
  ASSUME NEW W, NEW words \in Seq(W), NEW ends \in SUBSET (1 .. Len(words)), NEW e \in ends,
         NEW run, IsLineRun(words, run), RightAt(words, ends, e),
         AgreesAt(words, ends, run, Before(ends, e))
  PROVE  LET b == Before(ends, e)
             ph == Phrase(words, ends, e)
         IN /\ e - b \in {1, 2, 3}
            /\ WantsBetween(run, b, e)
            /\ IsBareCache(ph) =>
                 /\ e = Len(words)
                 /\ run[e] = Bare(GlobalsAt(words, ends, b))
            /\ ~IsBareCache(ph) => AgreesAt(words, ends, run, e)
<1> DEFINE b == Before(ends, e)
           ph == Phrase(words, ends, e)
           c == CommandAt(words, ends, b)
           a == ArgsAt(words, ends, b)
           o == OptionsAt(words, ends, b)
           g == GlobalsAt(words, ends, b)
<1>1. IsRight(ph, c) /\ (IsBareCache(ph) => e = Len(words))
  BY RightIs
<1>2. run[b] = Reading(c, a, o, g, NoWord)
  BY DEF AgreesAt, StateAt
<1>3. StateAt(words, ends, e) = AfterPhrase(ph, c, a, o, g)
  <2>1. IsGlobal(ph) \/ NamesCommand(ph) \/ IsOption(ph)
    BY <1>1 DEF IsRight, NamesCommand
  <2>2. Len(words) \in Nat
    OBVIOUS
  <2> QED
    BY <2>1, <2>2, StateStep
<1> HIDE DEF c, a, o, g
<1>4. IsReadFrom(run, b, e, ph, c, a, o, g)
  <2>1. IsRight(Phrase(words, ends, e), c) /\ run[Before(ends, e)] = Reading(c, a, o, g, NoWord)
    BY <1>1, <1>2
  <2> QED
    BY <2>1, PhraseRun, Zenon
<1> QED
  BY <1>1, <1>3, <1>4 DEF g, AgreesAt, IsReadFrom

\* Where every phrase is right that the parser comes to as the cut says, it comes so to all of
\* them.
LEMMA CutIsRead ==
  ASSUME NEW W, NEW words \in Seq(W), NEW ends \in SUBSET (1 .. Len(words)), NEW run,
         IsLineRun(words, run),
         \A e \in ends : AgreesAt(words, ends, run, Before(ends, e)) => RightAt(words, ends, e)
  PROVE  \A e \in ends : AgreesAt(words, ends, run, Before(ends, e)) /\ RightAt(words, ends, e)
<1> DEFINE n == Len(words)
           Holds(e) == AgreesAt(words, ends, run, Before(ends, e)) /\ RightAt(words, ends, e)
           P == {k \in Nat : \A e \in ends : e <= k => Holds(e)}
<1>1. n \in Nat /\ \A e \in ends : e \in 1 .. n
  OBVIOUS
<1>2. 0 \in P
  <2>1. \A e \in ends : ~(e <= 0)
    BY <1>1
  <2> QED
    BY <2>1
<1>3. ASSUME NEW k \in 0 .. n - 1, k \in P
      PROVE  k + 1 \in P
  <2>1. ASSUME NEW e \in ends, e <= k + 1
        PROVE  Holds(e)
    <3> DEFINE b == Before(ends, e)
    <3>1. b \in {0} \cup ends /\ b \in 0 .. n /\ b < e
      BY <1>1, BeforeIs
    <3>2. b <= k
      BY <1>1, <2>1, <3>1
    <3> HIDE DEF b
    <3>3. CASE b = 0
      <4>1. ends \in SUBSET (Nat \ {0})
        BY <1>1
      <4>2. AgreesAt(words, ends, run, 0)
        BY <4>1, StateStart DEF AgreesAt, IsLineRun
      <4> QED
        BY <3>3, <4>2 DEF b
    <3>4. CASE b \in ends
      <4>1. Holds(b)
        BY <1>3, <3>2, <3>4
      <4>2. ~IsBareCache(Phrase(words, ends, b)) => AgreesAt(words, ends, run, b)
        BY <3>4, <4>1, CutStep
      <4>3. IsBareCache(Phrase(words, ends, b)) => b = n
        BY <4>1, RightIs
      <4>4. b # n
        BY <1>1, <3>1
      <4>5. AgreesAt(words, ends, run, b)
        BY <4>2, <4>3, <4>4
      <4> QED
        BY <4>5 DEF b
    <3> QED
      BY <3>1, <3>3, <3>4
  <2> QED
    BY <2>1
<1>4. \A k \in 0 .. n : k \in P
  <2> HIDE DEF P
  <2> QED
    BY <1>1, <1>2, <1>3, Lines!Reaches
<1>5. n \in P
  BY <1>1, <1>4
<1> QED
  BY <1>1, <1>5

\* A way to cut a line, where its phrases are right.
IsCut(words, ends) == /\ ends \in SUBSET (1 .. Len(words))
                      /\ Len(words) # 0 => Len(words) \in ends
                      /\ \A e \in ends : RightAt(words, ends, e)

LEMMA CutsAre ==
  ASSUME NEW W, NEW words \in Seq(W)
  PROVE  Cuts(words) = {ends \in SUBSET (1 .. Len(words)) : IsCut(words, ends)}
<1>1. DOMAIN words = 1 .. Len(words) /\ (words # <<>> <=> Len(words) # 0)
  OBVIOUS
<1> QED
  BY <1>1 DEF Cuts, IsCut

\* The words that end a phrase, as the parser sees it.
Ends(words, run) == {k \in 1 .. Len(words) : run[k].wants = NoWord \/ k = Len(words)}

LEMMA CutEnds ==
  ASSUME NEW W, NEW words \in Seq(W), NEW ends, IsCut(words, ends), NEW run, IsLineRun(words, run)
  PROVE  ends = Ends(words, run)
<1> DEFINE n == Len(words)
<1>1. n \in Nat /\ ends \in SUBSET (1 .. n) /\ (n # 0 => n \in ends)
      /\ \A e \in ends : RightAt(words, ends, e)
  BY DEF IsCut
<1>2. \A e \in ends : AgreesAt(words, ends, run, Before(ends, e))
  BY <1>1, CutIsRead
<1>3. ASSUME NEW k \in ends PROVE run[k].wants = NoWord \/ k = n
  <2>1. ~IsBareCache(Phrase(words, ends, k)) => AgreesAt(words, ends, run, k)
    BY <1>1, <1>2, CutStep
  <2>2. IsBareCache(Phrase(words, ends, k)) => k = n
    BY <1>1, RightIs
  <2>3. AgreesAt(words, ends, run, k) => run[k].wants = NoWord
    BY ReadingIs DEF AgreesAt, StateAt
  <2> QED
    BY <2>1, <2>2, <2>3
<1>4. ASSUME NEW k \in 1 .. n, k \notin ends PROVE run[k].wants # NoWord /\ k # n
  <2> DEFINE S == {e \in ends : e > k}
  <2>0. n \in ends /\ k # n /\ n > k
    <3>1. n # 0
      BY <1>1
    <3>2. n \in ends
      BY <1>1, <3>1
    <3> QED
      BY <1>1, <1>4, <3>2
  <2>1. S \in SUBSET Nat /\ n \in S
    <3>1. \A e \in ends : e \in Nat
      BY <1>1
    <3>2. S \in SUBSET Nat
      BY <3>1
    <3>3. n \in S
      BY <2>0
    <3> QED
      BY <3>2, <3>3
  <2>2. PICK e \in S : \A m \in S : ~ (<<m, e>> \in OpToRel(<, Nat))
    <3>1. S # {}
      BY <2>1
    <3> QED
      BY <2>1, <3>1, NatLessThanWellFounded, WFMin
  <2>3. e \in ends /\ e > k /\ \A m \in S : ~(m < e)
    BY <2>1, <2>2 DEF OpToRel
  <2> DEFINE b == Before(ends, e)
  <2>4. b \in {0} \cup ends /\ b \in 0 .. n /\ b < e
    BY <1>1, <2>3, BeforeIs
  <2> HIDE DEF b
  <2>5. b < k
    <3>1. b \notin S
      BY <2>3, <2>4
    <3>2. b \in ends => ~(b > k) /\ b # k
      BY <1>4, <3>1
    <3> QED
      BY <1>1, <2>4, <3>2
  <2>6. k \in b + 1 .. e - 1
    BY <1>1, <2>3, <2>4, <2>5
  <2>7. \A j \in b + 1 .. e - 1 : run[j].wants # NoWord
    <3>1. RightAt(words, ends, e) /\ AgreesAt(words, ends, run, Before(ends, e))
      BY <1>1, <1>2, <2>3
    <3>2. WantsBetween(run, Before(ends, e), e)
      BY <1>1, <2>3, <3>1, CutStep
    <3> QED
      BY <3>2 DEF b, WantsBetween
  <2> QED
    BY <2>0, <2>6, <2>7
<1> QED
  BY <1>1, <1>3, <1>4 DEF Ends

Help   == "help"
Status == "status"

\* The end of the line.
LEMMA FinishIs ==
  ASSUME NEW c, NEW a, NEW o, NEW g, NEW x
  PROVE  LET t == Cli!Finish(Reading(c, a, o, g, x))
         IN /\ x # NoWord /\ x # CacheWord => t.usage
            /\ x = CacheWord => t = Reading(c, One(Status), o, g, NoWord)
            /\ x = NoWord /\ c # NoWord => t = Reading(c, a, o, g, NoWord)
            /\ x = NoWord /\ c = NoWord => t = Reading(Help, <<>>, <<>>, g, NoWord)
<1>0. PICK s : s = Reading(c, a, o, g, x)
  OBVIOUS
<1> DEFINE t == Cli!Finish(s)
<1>1. /\ s.command = c /\ s.options = o /\ s.globals = g /\ s.wants = x /\ ~s.usage
  BY <1>0 DEF Reading
<1>2. Cli!Usage(s).usage
  BY <1>0, UsageIs
<1>3. t = IF x = CacheWord THEN [s EXCEPT !.args = <<"status">>, !.wants = ""]
          ELSE IF x # NoWord THEN Cli!Usage(s)
          ELSE IF c = NoWord THEN Cli!NewCommand(s, "help") ELSE s
  BY <1>1 DEF Cli!Finish, CacheWord, NoWord
<1>4. CacheWord # NoWord
  BY DEF CacheWord, NoWord
<1> HIDE DEF t
<1>5. x # NoWord /\ x # CacheWord => t.usage
  BY <1>2, <1>3
<1>6. x = CacheWord => t = Reading(c, One(Status), o, g, NoWord)
  <2> SUFFICES ASSUME x = CacheWord PROVE t = Reading(c, One(Status), o, g, NoWord)
    OBVIOUS
  <2>1. t = [s EXCEPT !.args = <<"status">>, !.wants = ""]
    BY <1>3
  <2> QED
    BY <1>0, <2>1 DEF Reading, One, Status, NoWord
<1>7. x = NoWord /\ c # NoWord => t = Reading(c, a, o, g, NoWord)
  BY <1>0, <1>3, <1>4
<1>8. x = NoWord /\ c = NoWord => t = Reading(Help, <<>>, <<>>, g, NoWord)
  <2> SUFFICES ASSUME x = NoWord, c = NoWord PROVE t = Reading(Help, <<>>, <<>>, g, NoWord)
    OBVIOUS
  <2>1. t = Cli!NewCommand(s, "help")
    BY <1>3, <1>4
  <2> QED
    BY <1>0, <2>1 DEF Reading, Help, Cli!NewCommand
<1> QED
  BY <1>0, <1>5, <1>6, <1>7, <1>8 DEF t

\* An option belongs to commands that have names.
LEMMA NoOwner == ASSUME NEW ph, IsOption(ph) PROVE NoWord \notin OwnersOf(ph)
<1>1. \A m \in DOMAIN Cli!Marks : NoWord \notin Cli!Marks[m]
  BY DEF Cli!Marks, NoWord
<1>2. \A v \in DOMAIN Cli!Valued : NoWord \notin Cli!Valued[v]
  BY DEF Cli!Valued, NoWord
<1>3. IF Len(ph) = 1 THEN ph[1] \in DOMAIN Cli!Marks ELSE Cli!Spelled(ph[1]) \in DOMAIN Cli!Valued
  BY DEF IsOption
<1> QED
  BY <1>1, <1>2, <1>3 DEF OwnersOf

\* Where no command is named, a cut has no arguments and no options.
LEMMA NothingNamed ==
  ASSUME NEW words, NEW ends, Len(words) \in Nat, IsCut(words, ends),
         CommandAt(words, ends, Len(words)) = NoWord
  PROVE  ArgsAt(words, ends, Len(words)) = <<>> /\ OptionsAt(words, ends, Len(words)) = <<>>
<1> DEFINE n == Len(words)
           N(p) == NamedAt(words, ends, p)
<1>1. n \in Nat /\ n \in 0 .. n /\ ends \in SUBSET (1 .. n)
      /\ \A e \in ends : RightAt(words, ends, e)
  BY DEF IsCut
<1>2. /\ N(n) \in {0} \cup NamingBy(words, ends, n)
      /\ \A d \in NamingBy(words, ends, n) : d <= N(n)
  BY <1>1, NamedAtIs
<1>3. N(n) = 0
  <2>1. N(n) # 0 => NamesCommand(Phrase(words, ends, N(n)))
    BY <1>2 DEF NamingBy
  <2>2. N(n) # 0 => CommandAt(words, ends, n) = CommandOf(Phrase(words, ends, N(n)))
    BY DEF CommandAt
  <2> HIDE DEF N, n
  <2>3. N(n) # 0 => CommandOf(Phrase(words, ends, N(n))) # NoWord
    BY <2>1, CommandHasName
  <2> QED
    BY <2>2, <2>3 DEF n
<1>4. \A d \in ends : ~NamesCommand(Phrase(words, ends, d))
  <2>1. \A d \in ends : d <= n /\ ~(d <= 0)
    BY <1>1
  <2> QED
    BY <1>2, <1>3, <2>1 DEF NamingBy
<1>5. ASSUME NEW e \in ends PROVE ~IsOption(Phrase(words, ends, e))
  <2> DEFINE b == Before(ends, e)
             ph == Phrase(words, ends, e)
  <2>1. b \in 0 .. n
    BY <1>1, BeforeIs
  <2>2. N(b) \in {0} \cup NamingBy(words, ends, b)
    BY <1>1, <2>1, NamedAtIs
  <2>3. N(b) = 0
    BY <1>4, <2>2 DEF NamingBy
  <2>4. CommandAt(words, ends, b) = NoWord
    BY <2>3 DEF CommandAt, NoWord
  <2>5. IsRight(ph, NoWord)
    BY <1>1, <2>4, RightIs
  <2>6. IsOption(ph) => NoWord \in OwnersOf(ph)
    BY <2>5, PhrasesApart DEF IsRight, NamesCommand
  <2> QED
    BY <2>6, NoOwner
<1>6. OptionEnds(words, ends, n) = {}
  BY <1>5 DEF OptionEnds
<1>7. OptionsAt(words, ends, n) = <<>>
  BY <1>6, NoSettings DEF OptionsAt, OptionEnds
<1>8. ArgsAt(words, ends, n) = <<>>
  BY <1>3 DEF ArgsAt
<1> QED
  BY <1>7, <1>8

\* A line that can be cut is read as the cut says.
LEMMA CutReads ==
  ASSUME NEW W, NEW words \in Seq(W), NEW ends, IsCut(words, ends), NEW run, IsLineRun(words, run)
  PROVE  ~Cli!Finish(run[Len(words)]).usage /\ Reads(Cli!Finish(run[Len(words)]), words, ends)
<1> DEFINE n == Len(words)
           c == CommandAt(words, ends, n)
           a == ArgsAt(words, ends, n)
           o == OptionsAt(words, ends, n)
           g == GlobalsAt(words, ends, n)
           cli == Cli!Finish(run[n])
           ph == Phrase(words, ends, n)
           Goal == ~cli.usage /\ Reads(cli, words, ends)
<1>1. n \in Nat /\ ends \in SUBSET (1 .. n) /\ (n # 0 => n \in ends)
      /\ \A e \in ends : RightAt(words, ends, e)
  BY DEF IsCut
<1>2. \A e \in ends : AgreesAt(words, ends, run, Before(ends, e))
  BY <1>1, CutIsRead
<1>3. \/ AgreesAt(words, ends, run, n)
      \/ n \in ends /\ IsBareCache(ph) /\ run[n] = Bare(GlobalsAt(words, ends, Before(ends, n)))
  <2>1. CASE n = 0
    <3>1. ends \in SUBSET (Nat \ {0})
      BY <1>1
    <3> QED
      BY <2>1, <3>1, StateStart DEF AgreesAt, IsLineRun
  <2>2. CASE n \in ends
    BY <1>1, <1>2, <2>2, CutStep
  <2> QED
    BY <1>1, <2>1, <2>2
<1>4. /\ c # NoWord /\ cli = Reading(c, a, o, g, NoWord) => Goal
      /\ c = NoWord /\ cli = Reading(Help, a, o, g, NoWord) => Goal
  <2>1. Reads(cli, words, ends) <=> /\ cli.command = IF c = NoWord THEN Help ELSE c
                                    /\ cli.args = a /\ cli.options = o /\ cli.globals = g
    BY DEF Reads, NoWord, Help
  <2> HIDE DEF c, a, o, g, cli
  <2> QED
    BY <2>1, ReadingIs
<1>5. ASSUME AgreesAt(words, ends, run, n) PROVE Goal
  <2>1. run[n] = Reading(c, a, o, g, NoWord)
    BY <1>5 DEF AgreesAt, StateAt
  <2>2. CASE c # NoWord
    <3>1. cli = Reading(c, a, o, g, NoWord)
      BY <2>1, <2>2, FinishIs
    <3> HIDE DEF c, a, o, g, cli, Goal
    <3> QED
      BY <1>4, <2>2, <3>1
  <2>3. CASE c = NoWord
    <3>1. a = <<>> /\ o = <<>>
      BY <1>1, <2>3, NothingNamed
    <3>2. cli = Reading(Help, <<>>, <<>>, g, NoWord)
      BY <2>1, <2>3, FinishIs
    <3> HIDE DEF c, a, o, g, cli, Goal
    <3>3. cli = Reading(Help, a, o, g, NoWord)
      BY <3>1, <3>2
    <3> QED
      BY <1>4, <2>3, <3>3
  <2> QED
    BY <2>2, <2>3
<1>6. ASSUME n \in ends, IsBareCache(ph), run[n] = Bare(GlobalsAt(words, ends, Before(ends, n)))
      PROVE  Goal
  <2>1. IsCommand(ph) /\ CommandOf(ph) = CacheWord /\ ArgsOf(ph) = One(Status)
    <3>1. IsCommand(ph) /\ ph[1] = CacheWord
      BY <1>6 DEF IsBareCache, IsCommand, CacheWord
    <3> QED
      BY <1>6, <3>1 DEF CommandOf, ArgsOf, IsBareCache, One, Status
  <2>2. NamesCommand(ph) /\ ~IsGlobal(ph)
    BY <2>1, PhrasesApart DEF NamesCommand
  <2>3. c = CacheWord /\ a = One(Status)
    BY <1>1, <1>6, <2>1, <2>2, CommandStep
  <2>4. o = <<>>
    BY <1>1, <1>6, <2>2, OptionsStep
  <2>5. GlobalsAt(words, ends, Before(ends, n)) = g
    BY <1>1, <1>6, <2>2, GlobalsStep
  <2>6. run[n] = Reading(CacheWord, <<>>, <<>>, g, CacheWord)
    BY <1>6, <2>5 DEF Bare
  <2>7. cli = Reading(CacheWord, One(Status), <<>>, g, NoWord)
    BY <2>6, FinishIs
  <2>8. CacheWord # NoWord
    BY DEF CacheWord, NoWord
  <2> HIDE DEF c, a, o, g, cli, Goal
  <2>9. cli = Reading(c, a, o, g, NoWord)
    BY <2>3, <2>4, <2>7
  <2> QED
    BY <1>4, <2>3, <2>8, <2>9
<1> QED
  BY <1>3, <1>5, <1>6

\* A line that is not wrong in the end was never wrong.
LEMMA NeverWrong ==
  ASSUME NEW W, NEW words \in Seq(W), NEW run, IsLineRun(words, run), ~run[Len(words)].usage
  PROVE  \A k \in 0 .. Len(words) : ~run[k].usage
<1> DEFINE n == Len(words)
<1>1. n \in Nat
  OBVIOUS
<1> SUFFICES ASSUME NEW k \in 0 .. n, run[k].usage PROVE FALSE
  OBVIOUS
<1> DEFINE P == {j \in Nat : j >= k => run[j].usage}
<1>2. 0 \in P
  BY <1>1
<1>3. ASSUME NEW j \in 0 .. n - 1, j \in P
      PROVE  j + 1 \in P
  <2>1. j + 1 \in 1 .. n /\ (j + 1) - 1 = j /\ j + 1 \in Nat
    BY <1>1
  <2>2. run[j + 1] = Cli!ReadWord(run[j], words[j + 1])
    BY <2>1 DEF IsLineRun
  <2>3. run[j].usage => run[j + 1].usage
    BY <2>2, UsageStays
  <2>4. j + 1 >= k => j >= k \/ j + 1 = k
    BY <1>1
  <2> QED
    BY <1>3, <2>1, <2>3, <2>4
<1>4. \A j \in 0 .. n : j \in P
  <2> HIDE DEF P
  <2> QED
    BY <1>1, <1>2, <1>3, Lines!Reaches
<1> QED
  BY <1>1, <1>4

\* A line that is not wrong, and where its phrases end.
IsSound(words, run) == /\ IsLineRun(words, run)
                       /\ \A k \in 0 .. Len(words) : ~run[k].usage
                       /\ ~Cli!Finish(run[Len(words)]).usage

\* Only `cache` can do without the word it wants.
LEMMA LastWanted ==
  ASSUME NEW words, NEW run, IsSound(words, run), NEW c, NEW a, NEW o, NEW g, NEW x,
         run[Len(words)] = Reading(c, a, o, g, x)
  PROVE  x = NoWord \/ x = CacheWord
<1>1. ~Cli!Finish(Reading(c, a, o, g, x)).usage
  BY DEF IsSound
<1> QED
  BY <1>1, FinishIs

\* Where a word is wanted in a sound line, a word follows, but for `cache`.
LEMMA WordFollows ==
  ASSUME NEW W, NEW words \in Seq(W), NEW run, IsSound(words, run), NEW e \in Ends(words, run),
         NEW k \in 1 .. e, NEW c, NEW a, NEW o, NEW g, NEW x,
         run[k] = Reading(c, a, o, g, x), x # NoWord
  PROVE  \/ k < e
         \/ k = e /\ e = Len(words) /\ x = CacheWord
<1> DEFINE n == Len(words)
<1>1. n \in Nat /\ e \in 1 .. n /\ (run[e].wants = NoWord \/ e = n)
  BY DEF Ends
<1>2. run[k].wants = x
  BY ReadingIs
<1>3. k < e \/ k = e
  BY <1>1
<1>4. CASE k = e
  <2>1. e = n /\ run[n] = Reading(c, a, o, g, x)
    BY <1>1, <1>2, <1>4
  <2>2. x = CacheWord
    BY <2>1, LastWanted
  <2> QED
    BY <1>4, <2>1, <2>2
<1> QED
  BY <1>3, <1>4

\* Where no word is wanted, a phrase ends.
LEMMA PhraseEnds ==
  ASSUME NEW W, NEW words \in Seq(W), NEW run, NEW e \in Ends(words, run),
         NEW k \in 1 .. e, Before(Ends(words, run), e) < k, run[k].wants = NoWord
  PROVE  k = e
<1> DEFINE n == Len(words)
           ends == Ends(words, run)
<1>1. n \in Nat /\ e \in 1 .. n /\ ends \in SUBSET (1 .. n) /\ k \in ends
  BY DEF Ends
<1>2. \A d \in ends : d < e => d <= Before(ends, e)
  BY <1>1, BeforeIs
<1>3. Before(ends, e) \in 0 .. n
  BY <1>1, BeforeIs
<1> QED
  BY <1>1, <1>2, <1>3

\* The next phrase of a sound line is right.
LEMMA NextPhrase ==
  ASSUME NEW W, NEW words \in Seq(W), NEW run, IsSound(words, run), NEW e \in Ends(words, run),
         NEW c, NEW a, NEW o, NEW g,
         run[Before(Ends(words, run), e)] = Reading(c, a, o, g, NoWord)
  PROVE  LET ph == Phrase(words, Ends(words, run), e)
         IN IsRight(ph, c) /\ (IsBareCache(ph) => e = Len(words))
<1> DEFINE n == Len(words)
           ends == Ends(words, run)
           b == Before(ends, e)
           ph == Phrase(words, ends, e)
           Goal == IsRight(ph, c) /\ (IsBareCache(ph) => e = n)
<1>1. n \in Nat /\ e \in 1 .. n /\ ends \in SUBSET (1 .. n)
  BY DEF Ends
<1>2. b \in 0 .. n /\ b < e
  BY <1>1, BeforeIs
<1>3. ph \in Seq(W) /\ Len(ph) = e - b /\ \A i \in 1 .. e - b : ph[i] = words[b + i]
  BY <1>1, PhraseIs
<1>4. \A k \in 1 .. n : \A j : k - 1 = j => run[k] = Cli!ReadWord(run[j], words[k]) /\ ~run[k].usage
  BY <1>1 DEF IsSound, IsLineRun
<1>5. \A k \in 1 .. e : b < k /\ run[k].wants = NoWord => k = e
  BY PhraseEnds
<1>6. run[b] = Reading(c, a, o, g, NoWord)
  OBVIOUS
<1>7. \A k \in 1 .. e : \A cc, aa, oo, gg, x :
        run[k] = Reading(cc, aa, oo, gg, x) /\ x # NoWord => k < e \/ (k = e /\ e = n /\ x = CacheWord)
  BY WordFollows
<1> HIDE DEF ends, b, ph, n
<1> DEFINE w  == ph[1]
           f  == Cli!Spelled(w)
           w2 == ph[2]
           w3 == ph[3]
<1>8. b + 1 \in 1 .. e /\ b < b + 1 /\ b \in Int /\ e \in Int /\ b + 1 <= e /\ e <= n /\ n \in Int
  BY <1>1, <1>2
<1>9. run[b + 1] = Cli!ReadWord(Reading(c, a, o, g, NoWord), w) /\ ~run[b + 1].usage
  <2>1. b + 1 \in 1 .. n /\ (b + 1) - 1 = b /\ 1 \in 1 .. e - b
    BY <1>8
  <2>2. run[b + 1] = Cli!ReadWord(run[b], words[b + 1]) /\ ~run[b + 1].usage
    BY <1>4, <2>1, Zenon
  <2>3. w = words[b + 1]
    BY <1>3, <2>1
  <2> QED
    BY <1>6, <2>2, <2>3
<1>10. b + 1 < e => /\ run[b + 2] = Cli!ReadWord(run[b + 1], w2) /\ ~run[b + 2].usage
                    /\ b + 2 \in 1 .. e /\ b < b + 2
  <2> SUFFICES ASSUME b + 1 < e
               PROVE  /\ run[b + 2] = Cli!ReadWord(run[b + 1], w2) /\ ~run[b + 2].usage
                      /\ b + 2 \in 1 .. e /\ b < b + 2
    OBVIOUS
  <2>1. b + 2 \in 1 .. n /\ (b + 2) - 1 = b + 1 /\ 2 \in 1 .. e - b /\ b + 2 \in 1 .. e /\ b < b + 2
    BY <1>8
  <2>2. run[b + 2] = Cli!ReadWord(run[b + 1], words[b + 2]) /\ ~run[b + 2].usage
    BY <1>4, <2>1, Zenon
  <2>3. w2 = words[b + 2]
    BY <1>3, <2>1
  <2> QED
    BY <2>1, <2>2, <2>3
<1>11. b + 2 < e => /\ run[b + 3] = Cli!ReadWord(run[b + 2], w3) /\ ~run[b + 3].usage
                    /\ b + 3 \in 1 .. e /\ b < b + 3
  <2> SUFFICES ASSUME b + 2 < e
               PROVE  /\ run[b + 3] = Cli!ReadWord(run[b + 2], w3) /\ ~run[b + 3].usage
                      /\ b + 3 \in 1 .. e /\ b < b + 3
    OBVIOUS
  <2>1. b + 3 \in 1 .. n /\ (b + 3) - 1 = b + 2 /\ 3 \in 1 .. e - b /\ b + 3 \in 1 .. e /\ b < b + 3
    BY <1>8
  <2>2. run[b + 3] = Cli!ReadWord(run[b + 2], words[b + 3]) /\ ~run[b + 3].usage
    BY <1>4, <2>1, Zenon
  <2>3. w3 = words[b + 3]
    BY <1>3, <2>1
  <2> QED
    BY <2>1, <2>2, <2>3
\* The phrase is as long as its first words say.
<1>12. /\ b + 1 = e => Len(ph) = 1
       /\ b + 2 = e => Len(ph) = 2
       /\ b + 3 = e => Len(ph) = 3
  BY <1>3, <1>8
<1>13. ASSUME NEW cc, NEW aa, NEW oo, NEW gg, run[b + 1] = Reading(cc, aa, oo, gg, NoWord)
       PROVE  Len(ph) = 1
  <2>1. run[b + 1].wants = NoWord
    BY <1>13, ReadingIs
  <2>2. b + 1 = e
    BY <1>5, <1>8, <2>1
  <2> QED
    BY <1>12, <2>2
<1>14. ASSUME NEW cc, NEW aa, NEW oo, NEW gg, b + 1 < e, run[b + 2] = Reading(cc, aa, oo, gg, NoWord)
       PROVE  Len(ph) = 2
  <2>1. run[b + 2].wants = NoWord
    BY <1>14, ReadingIs
  <2>2. b + 2 = e
    BY <1>5, <1>10, <1>14, <2>1
  <2> QED
    BY <1>12, <2>2
<1>15. ASSUME NEW cc, NEW aa, NEW oo, NEW gg, b + 2 < e, run[b + 3] = Reading(cc, aa, oo, gg, NoWord)
       PROVE  Len(ph) = 3
  <2>1. run[b + 3].wants = NoWord
    BY <1>15, ReadingIs
  <2>2. b + 3 = e
    BY <1>5, <1>11, <1>15, <2>1
  <2> QED
    BY <1>12, <2>2
<1>16. IsBareCache(ph) => Len(ph) = 1 /\ w = CacheWord /\ IsActing(w)
  BY ActingWords DEF IsBareCache, CacheWord
<1>17. ~(IsFlag(w) /\ IsActing(w)) /\ ~(IsAlone(w) /\ IsActing(w))
  BY SortsApart
<1> HIDE DEF w, f, w2, w3
<1>18. ASSUME IsSwitch(w) \/ IsReplacer(w) \/ IsAlone(w) \/ (IsMark(w) /\ c \in Cli!Marks[w])
       PROVE  Goal
  <2>1. IsFlag(w) \/ IsAlone(w)
    BY <1>18 DEF IsFlag
  <2>2. IsAlone(w) => ~IsFlag(w)
    BY SortsApart
  <2>3. IsAlone(w) => c = NoWord
    BY <1>9, <2>2, FirstWord
  <2>4. \E cc, aa, oo, gg : run[b + 1] = Reading(cc, aa, oo, gg, NoWord)
    BY <1>9, <1>18, <2>3, FirstWord
  <2>5. Len(ph) = 1
    BY <1>13, <2>4
  <2>6. ~IsBareCache(ph)
    BY <1>16, <1>17, <2>1
  <2>7. IsRight(ph, c)
    BY <1>18, <2>3, <2>5, PhraseSorts DEF IsRight, OwnersOf, w
  <2> QED
    BY <2>6, <2>7
<1>19. ASSUME IsPath(w) PROVE Goal
  <2>1. run[b + 1] = Reading(c, a, o, g, f) /\ f = w /\ w # NoWord /\ w # CacheWord
    <3>1. w # NoWord /\ w # CacheWord
      BY <1>19 DEF IsPath, NoWord, CacheWord
    <3> QED
      BY <1>9, <1>19, <3>1, FirstWord, SpelledFlags DEF f
  <2>2. b + 1 < e
    BY <1>7, <1>8, <2>1
  <2>3. run[b + 2] = Reading(c, a, o, Cli!Set(g, w, w2), NoWord)
    BY <1>10, <1>19, <2>1, <2>2, WantedWord
  <2>4. Len(ph) = 2
    BY <1>14, <2>2, <2>3
  <2>5. IsGlobal(ph)
    BY <1>19, <2>4, PhraseSorts DEF w
  <2> QED
    BY <1>16, <2>4, <2>5 DEF IsRight
<1>20. ASSUME IsValued(w) PROVE Goal
  <2>1. f \in DOMAIN Cli!Valued /\ f # NoWord /\ f # CacheWord
    <3>1. f \in DOMAIN Cli!Valued
      BY <1>20 DEF IsValued, f
    <3> QED
      BY <3>1, Vocabulary DEF NoWord, CacheWord
  <2>2. run[b + 1] = Reading(c, a, o, g, f)
    BY <1>9, <1>20, FirstWord DEF f
  <2>3. b + 1 < e
    BY <1>7, <1>8, <2>1, <2>2
  <2>4. run[b + 2] = Cli!ReadWord(Reading(c, a, o, g, f), w2) /\ ~run[b + 2].usage
    BY <1>10, <2>2, <2>3
  <2>5. /\ Cli!ValueOk(f, w2) /\ c \in Cli!Valued[f]
        /\ run[b + 2] = Reading(c, a, Cli!Set(o, f, Cli!ValueOf(f, w2)), g, NoWord)
    BY <2>1, <2>4, WantedWord
  <2>6. Len(ph) = 2
    BY <1>14, <2>3, <2>5
  <2>7. IsOption(ph) /\ c \in OwnersOf(ph)
    BY <1>20, <2>5, <2>6, PhraseSorts DEF w, f, w2, OwnersOf
  <2> QED
    BY <1>16, <2>6, <2>7 DEF IsRight
<1>21. ASSUME IsWithArg(w) PROVE Goal
  <2>1. w # NoWord /\ w # CacheWord
    BY <1>21, Vocabulary DEF IsWithArg, NoWord, CacheWord
  <2>2. ~IsFlag(w)
    BY <1>21, SortsApart
  <2>3. c = NoWord
    BY <1>9, <2>2, FirstWord
  <2>4. run[b + 1] = Reading(w, <<>>, <<>>, g, w)
    BY <1>9, <1>21, <2>3, FirstWord
  <2>5. b + 1 < e
    BY <1>7, <1>8, <2>1, <2>4
  <2>6. run[b + 2] = Reading(w, Plus(<<>>, w2), <<>>, g, NoWord)
    BY <1>10, <1>21, <2>4, <2>5, WantedWord
  <2>7. Len(ph) = 2
    BY <1>14, <2>5, <2>6
  <2>8. IsCommand(ph)
    BY <1>21, <2>7, PhraseSorts DEF w
  <2> QED
    BY <1>16, <2>3, <2>7, <2>8 DEF IsRight
<1>22. ASSUME IsActing(w) PROVE Goal
  <2>1. w # NoWord
    BY <1>22, Vocabulary DEF IsActing, NoWord
  <2>2. ~IsFlag(w)
    BY <1>22, SortsApart
  <2>3. c = NoWord
    BY <1>9, <2>2, FirstWord
  <2>4. run[b + 1] = Reading(w, <<>>, <<>>, g, w)
    BY <1>9, <1>22, <2>3, FirstWord
  <2>5. b + 1 < e \/ (b + 1 = e /\ e = n /\ w = CacheWord)
    BY <1>7, <1>8, <2>1, <2>4
  <2>6. CASE b + 1 = e /\ e = n /\ w = CacheWord
    <3>1. Len(ph) = 1
      BY <1>12, <2>6
    <3>2. IsCommand(ph)
      BY <2>6, <3>1, PhraseSorts DEF w, CacheWord
    <3> QED
      BY <2>3, <2>6, <3>2 DEF IsRight
  <2>7. CASE b + 1 < e
    <3>1. run[b + 2] = Cli!ReadWord(Reading(w, <<>>, <<>>, g, w), w2) /\ ~run[b + 2].usage
      BY <1>10, <2>4, <2>7
    <3>2. /\ w2 \in Cli!Actions[w]
          /\ w2 # Accuracy => run[b + 2] = Reading(w, One(w2), <<>>, g, NoWord)
          /\ w2 = Accuracy => run[b + 2] = Reading(w, One(w2), <<>>, g, Corpus)
      BY <1>22, <3>1, WantedWord
    <3>3. CASE w2 # Accuracy
      <4>1. Len(ph) = 2
        BY <1>14, <2>7, <3>2, <3>3
      <4>2. IsCommand(ph)
        BY <1>22, <3>2, <3>3, <4>1, PhraseSorts DEF w, w2, Accuracy
      <4> QED
        BY <1>16, <2>3, <4>1, <4>2 DEF IsRight
    <3>4. CASE w2 = Accuracy
      <4>1. w = Experiment
        BY <1>22, <3>2, <3>4, ActingWords DEF Experiment, Accuracy
      <4>2. Corpus # NoWord /\ Corpus # CacheWord
        BY DEF Corpus, NoWord, CacheWord
      <4>3. run[b + 2] = Reading(w, One(w2), <<>>, g, Corpus)
        BY <3>2, <3>4
      <4>4. b + 2 < e
        <5>1. b + 2 \in 1 .. e
          BY <1>10, <2>7
        <5> QED
          BY <1>7, <4>2, <4>3, <5>1
      <4>5. run[b + 3] = Reading(w, Plus(One(w2), w3), <<>>, g, NoWord)
        BY <1>11, <4>3, <4>4, WantedWord
      <4>6. Len(ph) = 3
        BY <1>15, <4>4, <4>5
      <4>7. IsCommand(ph)
        BY <3>4, <4>1, <4>6, PhraseSorts DEF w, w2, Experiment, Accuracy
      <4> QED
        BY <1>16, <2>3, <4>6, <4>7 DEF IsRight
    <3> QED
      BY <3>3, <3>4
  <2> QED
    BY <2>5, <2>6, <2>7
<1>23. \/ IsSwitch(w) \/ IsReplacer(w) \/ IsAlone(w) \/ (IsMark(w) /\ c \in Cli!Marks[w])
       \/ IsPath(w) \/ IsValued(w) \/ IsWithArg(w) \/ IsActing(w)
  <2>1. IsFlag(w) \/ IsAlone(w) \/ IsWithArg(w) \/ IsActing(w)
    BY <1>9, FirstWord
  <2>2. IsMark(w) => c \in Cli!Marks[w]
    BY <1>9, FirstWord
  <2> QED
    BY <2>1, <2>2 DEF IsFlag
<1>24. Goal
  BY <1>18, <1>19, <1>20, <1>21, <1>22, <1>23
<1> QED
  BY <1>24 DEF ends, b, ph, n

\* A line that is not wrong can be cut.
LEMMA SoundIsCut ==
  ASSUME NEW W, NEW words \in Seq(W), NEW run, IsSound(words, run)
  PROVE  IsCut(words, Ends(words, run))
<1> DEFINE n == Len(words)
           ends == Ends(words, run)
<1>1. n \in Nat /\ ends \in SUBSET (1 .. n) /\ (n # 0 => n \in ends)
  BY DEF Ends
<1>2. IsLineRun(words, run)
  BY DEF IsSound
<1>3. ASSUME NEW e \in ends, AgreesAt(words, ends, run, Before(ends, e))
      PROVE  RightAt(words, ends, e)
  <2> DEFINE b == Before(ends, e)
  <2>1. run[b] = Reading(CommandAt(words, ends, b), ArgsAt(words, ends, b),
                         OptionsAt(words, ends, b), GlobalsAt(words, ends, b), NoWord)
    BY <1>3 DEF AgreesAt, StateAt
  <2>2. /\ IsRight(Phrase(words, ends, e), CommandAt(words, ends, b))
        /\ IsBareCache(Phrase(words, ends, e)) => e = n
    BY <2>1, NextPhrase
  <2> QED
    BY <2>2, RightIs
<1>4. \A e \in ends : RightAt(words, ends, e)
  <2> HIDE DEF ends
  <2> QED
    BY <1>1, <1>2, <1>3, CutIsRead
<1> QED
  BY <1>1, <1>4 DEF IsCut

LEMMA ParseRun ==
  ASSUME NEW W, NEW words \in Seq(W)
  PROVE  \E run : IsLineRun(words, run) /\ Cli!Parse(words) = Cli!Finish(run[Len(words)])
<1>1. PICK run : Lines!IsRun({}, Cli!Start, words, run)
                 /\ Lines!Fold({}, Cli!Start, words) = run[Len(words)]
  BY Lines!FoldHasRun
<1>2. Cli!Parse(words) = Cli!Finish(Lines!Fold({}, Cli!Start, words))
  BY DEF Cli!Parse, Lines!Fold, Lines!FoldLeft, Cli!FoldLeft, Lines!MapThenFoldSet,
         Cli!MapThenFoldSet, Lines!Max, Cli!Max
<1>3. IsLineRun(words, run)
  BY <1>1 DEF IsLineRun, Lines!IsRun
<1> QED
  BY <1>1, <1>2, <1>3

\* Whatever the words, the parser takes the line just when the grammar cuts it into phrases that
\* are right where they stand; it can be cut in one way only, and is read so (args.rs:178).
THEOREM EveryLineIsParsed == ASSUME NEW W, NEW words \in Seq(W) PROVE IsReadRight(words)
<1>1. PICK run : IsLineRun(words, run) /\ Cli!Parse(words) = Cli!Finish(run[Len(words)])
  BY ParseRun
<1> DEFINE n == Len(words)
           ends == Ends(words, run)
           cli == Cli!Finish(run[n])
<1>2. n \in Nat /\ n \in 0 .. n
  OBVIOUS
<1>3. \A E \in Cuts(words) : IsCut(words, E) /\ E = ends /\ ~cli.usage /\ Reads(cli, words, E)
  <2>1. \A E \in Cuts(words) : IsCut(words, E)
    BY CutsAre
  <2>2. ASSUME NEW E, IsCut(words, E) PROVE E = ends /\ ~cli.usage /\ Reads(cli, words, E)
    BY <1>1, <2>2, CutEnds, CutReads
  <2> QED
    BY <2>1, <2>2
<1>4. ~cli.usage => ends \in Cuts(words)
  <2> SUFFICES ASSUME ~cli.usage PROVE ends \in Cuts(words)
    OBVIOUS
  <2>1. ~run[n].usage
    BY DEF Cli!Finish
  <2>2. \A k \in 0 .. n : ~run[k].usage
    BY <1>1, <2>1, NeverWrong
  <2>3. IsSound(words, run)
    BY <1>1, <2>2 DEF IsSound
  <2>4. IsCut(words, ends)
    BY <2>3, SoundIsCut
  <2>5. ends \in SUBSET (1 .. n)
    BY DEF Ends
  <2> QED
    BY <2>4, <2>5, CutsAre
<1> HIDE DEF ends, cli
<1>5. CASE cli.usage
  <2>1. Cuts(words) = {}
    BY <1>3, <1>5
  <2> QED
    BY <1>1, <1>5, <2>1 DEF IsReadRight, cli
<1>6. CASE ~cli.usage
  <2>1. Cuts(words) = {ends}
    BY <1>3, <1>4, <1>6
  <2>2. Cardinality(Cuts(words)) = 1
    BY <2>1, FS_Singleton
  <2>3. \A E \in Cuts(words) : Reads(cli, words, E)
    BY <1>3
  <2> QED
    BY <1>1, <1>6, <2>2, <2>3 DEF IsReadRight, cli
<1> QED
  BY <1>5, <1>6

LineWords == Words \cup {"context", "x", "init"}
ProbedLines == probe.part = "line" => probe.words \in Seq(LineWords)

LEMMA ProbedLinesInit == Init => ProbedLines
BY DEF Init, None, ProbedLines

LEMMA ProbedLinesStep == ProbedLines /\ [Next]_probe => ProbedLines'
<1> SUFFICES ASSUME ProbedLines, [Next]_probe PROVE ProbedLines'
  OBVIOUS
<1>1. CASE UNCHANGED probe
  BY <1>1 DEF ProbedLines
<1>2. CASE ProbeLine
  <2>1. PICK b \in Beginnings, w \in SeqsUpTo(Words, 3) :
          probe' = [part |-> "line", words |-> b \o w]
    BY <1>2 DEF ProbeLine
  <2>2. b \in Seq(LineWords)
    <3>1. \A x \in {"context", "x", "init"} : x \in LineWords
      BY DEF LineWords
    <3> HIDE DEF LineWords
    <3>2. <<>> \in Seq(LineWords) /\ <<"context", "x">> \in Seq(LineWords) /\ <<"init">> \in Seq(LineWords)
      BY <3>1
    <3> QED
      BY <3>2 DEF Beginnings
  <2>3. w \in Seq(LineWords)
    <3>1. w \in Seq(Words)
      BY SeqsUpToType
    <3>2. Words \subseteq LineWords
      BY DEF LineWords
    <3> QED
      BY <3>1, <3>2
  <2>4. b \o w \in Seq(LineWords)
    BY <2>2, <2>3
  <2>5. probe'.words = b \o w
    BY <2>1
  <2> QED
    BY <2>4, <2>5 DEF ProbedLines
<1>3. CASE ProbeTests \/ ProbeDiff \/ ProbeOutput \/ ProbeRebuild \/ ProbeTree
  <2>1. probe'.part # "line"
    BY <1>3 DEF ProbeTests, ProbeDiff, ProbeOutput, ProbeRebuild, ProbeTree
  <2> QED
    BY <2>1 DEF ProbedLines
<1> QED
  BY <1>1, <1>2, <1>3 DEF Next

\* Every line of a probe is parsed as the grammar says.
THEOREM ProbedLinesAreParsed == Spec => []ParsesTheGrammar
<1>1. ProbedLines => ParsesTheGrammar
  BY EveryLineIsParsed DEF ProbedLines, ParsesTheGrammar
<1> QED
  BY ProbedLinesInit, ProbedLinesStep, <1>1, PTL DEF Spec
=============================================================================
