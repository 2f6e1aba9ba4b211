--------------------------- MODULE SessionProofs ---------------------------
(***************************************************************************)
(* Proofs about the files of one repository: first the commands of         *)
(* Onboarding, for every set of processes, every .gitignore and HEAD at    *)
(* first, and without regard to the bounds; then the whole of MCSession.   *)
(***************************************************************************)
EXTENDS MCSession, SequenceTheorems, FiniteSetTheorems, TLAPS

\* What a step of p makes of all this.
Outcome(p) ==
  /\ Shape'
  /\ Control(p)' /\ (~moved[p] => Progress(p)')
  /\ \A q \in Procs \ {p} : /\ pc'[q] = pc[q] /\ cmd'[q] = cmd[q] /\ at'[q] = at[q]
                           /\ exit'[q] = exit[q] /\ text'[q] = text[q]

-----------------------------------------------------------------------------
(* The lines of .gitignore.                                                *)

\* The lines that `init` misses.
LEMMA MissingType ==
  ASSUME NEW s \in Seq(Lines)
  PROVE  /\ Missing(s) \in Seq(Lines)
         /\ Missing(s) = <<>> <=> {"comment", "entry"} \subseteq ToSet(s)
         /\ ToSet(Missing(s)) = {"comment", "entry"} \ ToSet(s)
<1>1. "comment" \in Lines /\ "entry" \in Lines
  BY DEF Lines, Entries, ToSet
<1> DEFINE C == "comment" \in ToSet(s)
           E == "entry" \in ToSet(s)
<1>2. Missing(s) = CASE C /\ E   -> <<>>
                     [] C /\ ~E  -> <<"entry">>
                     [] ~C /\ E  -> <<"comment">>
                     [] ~C /\ ~E -> <<"comment", "entry">>
  <2>1. CASE C /\ E
    BY <2>1 DEF Missing
  <2>2. CASE C /\ ~E
    BY <2>2 DEF Missing
  <2>3. CASE ~C /\ E
    BY <2>3 DEF Missing
  <2>4. CASE ~C /\ ~E
    <3>1. <<"comment">> \o <<"entry">> = <<"comment", "entry">>
      <4> DEFINE m == <<"comment">> \o <<"entry">>
      <4>1. <<"comment">> \in Seq(Lines) /\ <<"entry">> \in Seq(Lines)
        BY <1>1
      <4>2. m \in Seq(Lines) /\ Len(m) = 2 /\ m[1] = "comment" /\ m[2] = "entry"
        BY <4>1
      <4> HIDE DEF m
      <4>3. m = <<"comment", "entry">>
        BY <4>2
      <4> QED
        BY <4>3 DEF m
    <3>2. Missing(s) = <<"comment">> \o <<"entry">>
      BY <2>4 DEF Missing
    <3> QED
      BY <2>4, <3>1, <3>2
  <2> QED
    BY <2>1, <2>2, <2>3, <2>4
<1>3. /\ ToSet(<<>>) = {}
      /\ ToSet(<<"entry">>) = {"entry"} /\ ToSet(<<"comment">>) = {"comment"}
      /\ ToSet(<<"comment", "entry">>) = {"comment", "entry"}
  BY DEF ToSet
<1> QED
  BY <1>1, <1>2, <1>3

\* Nothing is missing once they have been appended.
LEMMA Mended ==
  ASSUME NEW s \in Seq(Lines)
  PROVE  s \o Missing(s) \in Seq(Lines) /\ Missing(s \o Missing(s)) = <<>>
<1> DEFINE m == Missing(s)
<1>1. m \in Seq(Lines) /\ ToSet(m) = {"comment", "entry"} \ ToSet(s)
  BY MissingType
<1>2. s \o m \in Seq(Lines)
  BY <1>1
<1> HIDE DEF m
<1>3. ToSet(s) \cup ToSet(m) \subseteq ToSet(s \o m)
  <2>1. ASSUME NEW i \in DOMAIN s PROVE s[i] \in ToSet(s \o m)
    BY <1>1, <2>1 DEF ToSet
  <2>2. ASSUME NEW i \in DOMAIN m PROVE m[i] \in ToSet(s \o m)
    <3>1. Len(s) + i \in DOMAIN (s \o m) /\ (s \o m)[Len(s) + i] = m[i]
      BY <1>1, <2>2
    <3> QED
      BY <3>1 DEF ToSet
  <2> QED
    BY <2>1, <2>2 DEF ToSet
<1>4. {"comment", "entry"} \subseteq ToSet(s \o m)
  BY <1>1, <1>3
<1>5. Missing(s \o m) = <<>>
  BY <1>2, <1>4, MissingType
<1> QED
  BY <1>2, <1>5 DEF m

\* What SaveIgnore writes is made of lines, and is its text when the file was empty.
LEMMA Overwritten ==
  ASSUME NEW s \in Seq(Lines), NEW t \in Seq(Lines)
  PROVE  /\ t \o SubSeq(s, Len(t) + 1, Len(s)) \in Seq(Lines)
         /\ s = <<>> => t \o SubSeq(s, Len(t) + 1, Len(s)) = t
<1>1. Len(t) \in Nat /\ Len(s) \in Nat
  OBVIOUS
<1>2. \A i \in (Len(t) + 1) .. Len(s) : s[i] \in Lines
  BY <1>1
<1>3. SubSeq(s, Len(t) + 1, Len(s)) \in Seq(Lines)
  BY <1>1, <1>2, SubSeqProperties
<1>4. s = <<>> => SubSeq(s, Len(t) + 1, Len(s)) = <<>>
  BY <1>1, SubSeqEmpty
<1>5. t \o <<>> = t
  BY ConcatEmptySeq
<1> QED
  BY <1>3, <1>4, <1>5

\* The places of a line in a file, and how many there are.
LEMMA TimesType ==
  ASSUME NEW s \in Seq(Lines), NEW l
  PROVE  /\ IsFiniteSet({i \in DOMAIN s : s[i] = l})
         /\ Times(l, s) \in Nat
         /\ Times(l, s) = 0 <=> l \notin ToSet(s)
<1> DEFINE P == {i \in DOMAIN s : s[i] = l}
<1>1. Len(s) \in Int /\ DOMAIN s = 1 .. Len(s)
  OBVIOUS
<1>2. IsFiniteSet(1 .. Len(s))
  BY <1>1, FS_Interval
<1>3. IsFiniteSet(P)
  BY <1>1, <1>2, FS_Subset
<1>4. Cardinality(P) \in Nat /\ (Cardinality(P) = 0 <=> P = {})
  BY <1>3, FS_CardinalityType, FS_EmptySet
<1>5. P = {} <=> l \notin ToSet(s)
  BY DEF ToSet
<1> QED
  BY <1>3, <1>4, <1>5 DEF Times

\* A file appended to another has the lines of both.
LEMMA TimesConcat ==
  ASSUME NEW s \in Seq(Lines), NEW t \in Seq(Lines), NEW l
  PROVE  Times(l, s \o t) = Times(l, s) + Times(l, t)
<1> DEFINE A == {i \in DOMAIN s : s[i] = l}
           B == {i \in DOMAIN t : t[i] = l}
           C == {i \in DOMAIN (s \o t) : (s \o t)[i] = l}
           D == C \ A
           f == [i \in B |-> Len(s) + i]
<1>1. IsFiniteSet(A) /\ IsFiniteSet(B)
  BY TimesType
<1>2. A \subseteq C /\ C = A \cup D /\ A \cap D = {}
  OBVIOUS
<1>3. f \in Bijection(B, D)
  <2>1. \A i \in B : Len(s) + i \in D
    OBVIOUS
  <2>2. \A j \in D : j - Len(s) \in B /\ Len(s) + (j - Len(s)) = j
    OBVIOUS
  <2>3. \A i, j \in B : Len(s) + i = Len(s) + j => i = j
    OBVIOUS
  <2>4. B \subseteq Nat
    OBVIOUS
  <2> HIDE DEF B, D
  <2>5. f \in [B -> D] /\ \A i \in B : f[i] = Len(s) + i
    BY <2>1
  <2>6. \A i, j \in B : f[i] = f[j] => i = j
    BY <2>3, <2>5
  <2>7. \A j \in D : \E i \in B : f[i] = j
    BY <2>2, <2>5
  <2> HIDE DEF f
  <2> QED
    BY <2>5, <2>6, <2>7 DEF Bijection, Injection, IsInjective, Surjection
<1>4. IsFiniteSet(D) /\ Cardinality(D) = Cardinality(B)
  BY <1>1, <1>3, FS_Bijection DEF ExistsBijection
<1>5. Cardinality(A \cup D) = Cardinality(A) + Cardinality(D) - Cardinality(A \cap D)
  BY <1>1, <1>4, FS_Union
<1>6. Cardinality(A \cap D) = 0 /\ Cardinality(A) \in Nat /\ Cardinality(B) \in Nat
  BY <1>1, <1>2, FS_EmptySet, FS_CardinalityType
<1>7. Cardinality(C) = Cardinality(A) + Cardinality(B)
  <2> HIDE DEF A, B, C, D
  <2> QED
    BY <1>2, <1>4, <1>5, <1>6
<1> QED
  BY <1>7 DEF Times

-----------------------------------------------------------------------------
(* One lemma for each step of a command.                                   *)

\* What goes on, and what ends, leaves the rest alone.
Turns(p, l) ==
  /\ pc' \in [Procs -> Places] /\ exit' \in [Procs -> Int]
  /\ cmd' \in [Procs -> Commands \cup {"none"}]
  /\ pc'[p] = l /\ cmd'[p] = cmd[p]
  /\ \A q \in Procs \ {p} : pc'[q] = pc[q] /\ cmd'[q] = cmd[q] /\ exit'[q] = exit[q]

LEMMA Went ==
  ASSUME Shape, NEW p \in Procs, NEW l \in Places, Goto(p, l)
  PROVE  Turns(p, l)
BY DEF Shape, Goto, Turns

LEMMA Ended ==
  ASSUME Shape, NEW p \in Procs, NEW c \in Int, Exit(p, c)
  PROVE  Turns(p, "idle") /\ exit'[p] = c
BY DEF Shape, Exit, Turns, Places

\* A step that reads, and keeps what its process knows.
LEMMA ReadOnly ==
  ASSUME Shape, NEW p \in Procs, NEW l \in Places, Turns(p, l), UNCHANGED <<files, text, at>>,
         Control(p)', ~moved[p] => Progress(p)'
  PROVE  Outcome(p)
BY DEF Shape, Outcome, Turns, files

\* A command that fails; `adopt` only for what it cannot mend.
LEMMA Fails ==
  ASSUME NEW p \in Procs, NEW c \in Int \ {0}, Turns(p, "idle"), exit'[p] = c,
         cmd[p] = "adopt" => Blocked'
  PROVE  Control(p)' /\ Progress(p)'
<1>1. Control(p)'
  BY DEF Turns, Control, InitSteps, IndexSteps, IgnoreSteps
<1>2. Progress(p)'
  BY DEF Turns, Progress, Adopted, IndexSteps, IgnoreSteps
<1> QED
  BY <1>1, <1>2

LEMMA CheckManifestStep ==
  ASSUME IInv, NEW p \in Procs, CheckManifest(p)
  PROVE  Outcome(p)
<1>1. Shape /\ pc[p] = "init" /\ UNCHANGED <<files, text, at>>
  BY DEF CheckManifest, Reads, Remembers, IInv
<1>2. CASE (manifest = "absent" \/ cmd[p] = "force") /\ Goto(p, "manifest")
  <2>1. Turns(p, "manifest")
    BY <1>1, <1>2, Went DEF Places
  <2>2. Control(p)' /\ Progress(p)'
    BY <1>1, <2>1 DEF IInv, Turns, Control, Progress, Adopted, InitSteps, IndexSteps, IgnoreSteps
  <2> QED
    BY <1>1, <2>1, <2>2, ReadOnly DEF Places
<1>3. CASE manifest # "absent" /\ manifest # "broken" /\ Goto(p, "ignore")
  <2>1. Turns(p, "ignore")
    BY <1>1, <1>3, Went DEF Places
  <2>2. Usable'
    BY <1>1, <1>3 DEF Shape, Usable, Manifests, files
  <2>3. Control(p)' /\ Progress(p)'
    BY <1>1, <2>1, <2>2 DEF IInv, Turns, Control, Progress, Adopted, InitSteps, IndexSteps, IgnoreSteps
  <2> QED
    BY <1>1, <2>1, <2>3, ReadOnly DEF Places
<1>4. CASE manifest = "broken" /\ Exit(p, 1)
  <2>1. Turns(p, "idle") /\ exit'[p] = 1
    BY <1>1, <1>4, Ended
  <2>2. Blocked'
    BY <1>1, <1>4 DEF Blocked, files
  <2>3. Control(p)' /\ Progress(p)'
    BY <2>1, <2>2, Fails
  <2> QED
    BY <1>1, <2>1, <2>3, ReadOnly DEF Places
<1> QED
  BY <1>2, <1>3, <1>4 DEF CheckManifest, Loads

LEMMA TruncateManifestStep ==
  ASSUME IInv, NEW p \in Procs, TruncateManifest(p)
  PROVE  Outcome(p)
<1>1. /\ Shape /\ pc[p] = "manifest" /\ manifest' = "broken"
      /\ UNCHANGED <<ignore, graph, saved, report, registry, head, text, at>>
  BY DEF TruncateManifest, WriteManifest, Remembers, IInv
<1>2. Turns(p, "torn manifest")
  BY <1>1, Went DEF TruncateManifest, Places
<1>3. Shape'
  BY <1>1, <1>2 DEF Shape, Turns, Manifests
<1>4. Control(p)' /\ Progress(p)'
  BY <1>1, <1>2 DEF IInv, Turns, Control, Progress, Adopted, InitSteps, IndexSteps, IgnoreSteps
<1> QED
  BY <1>1, <1>2, <1>3, <1>4 DEF Outcome, Turns

LEMMA SaveManifestStep ==
  ASSUME IInv, NEW p \in Procs, SaveManifest(p)
  PROVE  Outcome(p)
<1>1. /\ Shape /\ pc[p] = "torn manifest" /\ manifest' = "default"
      /\ UNCHANGED <<ignore, graph, saved, report, registry, head, text, at>>
  BY DEF SaveManifest, WriteManifest, Remembers, IInv
<1>2. Turns(p, "ignore")
  BY <1>1, Went DEF SaveManifest, Places
<1>3. Shape'
  BY <1>1, <1>2 DEF Shape, Turns, Manifests
<1>4. Control(p)' /\ Progress(p)'
  BY <1>1, <1>2 DEF IInv, Turns, Control, Progress, Adopted, InitSteps, IndexSteps, IgnoreSteps,
                    Usable
<1> QED
  BY <1>1, <1>2, <1>3, <1>4 DEF Outcome, Turns

\* `adopt` goes on with everything `init` sees to, and `init` ends.
LEMMA AfterInitStep ==
  ASSUME Shape, NEW p \in Procs, Control(p), AfterInit(p), pc[p] \in InitSteps,
         ~moved[p] /\ cmd[p] = "adopt" => Prepared'
  PROVE  /\ Turns(p, "state") \/ Turns(p, "idle")
         /\ Control(p)' /\ (~moved[p] => Progress(p)')
<1>1. CASE cmd[p] = "adopt" /\ Goto(p, "state")
  <2>1. Turns(p, "state")
    BY <1>1, Went DEF Places
  <2> QED
    BY <1>1, <2>1 DEF Turns, Control, Progress, Adopted, InitSteps, IndexSteps, IgnoreSteps, Indexing
<1>2. CASE cmd[p] # "adopt" /\ Exit(p, 0)
  <2>1. Turns(p, "idle")
    BY <1>2, Ended
  <2> QED
    BY <1>2, <2>1 DEF Turns, Control, Progress, InitSteps, IndexSteps, IgnoreSteps
<1> QED
  BY <1>1, <1>2 DEF AfterInit

LEMMA ReadIgnoreStep ==
  ASSUME IInv, NEW p \in Procs, ReadIgnore(p)
  PROVE  Outcome(p)
<1>1. Shape /\ Control(p) /\ pc[p] = "ignore" /\ UNCHANGED <<files, at>>
  BY DEF ReadIgnore, Reads, IInv
<1>2. ~moved[p] /\ cmd[p] = "adopt" => Usable /\ Usable'
  BY <1>1 DEF IInv, Progress, Adopted, IgnoreSteps, Usable, files
<1>3. CASE Missing(ignore) = <<>> /\ AfterInit(p) /\ text' = text
  <2>1. ~moved[p] /\ cmd[p] = "adopt" => Prepared'
    BY <1>1, <1>2, <1>3 DEF Prepared, Usable, Missing, files
  <2>2. /\ Turns(p, "state") \/ Turns(p, "idle")
        /\ Control(p)' /\ (~moved[p] => Progress(p)')
    BY <1>1, <1>3, <2>1, AfterInitStep DEF InitSteps, IgnoreSteps
  <2> QED
    BY <1>1, <1>3, <2>2, ReadOnly DEF Places
<1>4. CASE Goto(p, "write ignore") /\ text' = [text EXCEPT ![p] = ignore \o Missing(ignore)]
  <2>1. Turns(p, "write ignore")
    BY <1>1, <1>4, Went DEF Places
  <2>2. ignore \o Missing(ignore) \in Seq(Lines) /\ Missing(ignore \o Missing(ignore)) = <<>>
    BY <1>1, Mended DEF Shape
  <2>3. /\ text' \in [Procs -> Seq(Lines)] /\ Missing(text'[p]) = <<>>
        /\ \A q \in Procs \ {p} : text'[q] = text[q]
    BY <1>1, <1>4, <2>2 DEF Shape
  <2>4. Missing(text[p])' = <<>>
    BY <2>3 DEF Missing
  <2>5. Shape'
    BY <1>1, <2>1, <2>3 DEF Shape, Turns, files
  <2>6. Control(p)'
    BY <1>1, <2>1, <2>4 DEF Turns, Control, InitSteps, IndexSteps, IgnoreSteps
  <2>7. ~moved[p] => Progress(p)'
    BY <1>2, <2>1 DEF Turns, Progress, Adopted, IndexSteps, IgnoreSteps
  <2> QED
    BY <1>1, <2>1, <2>3, <2>5, <2>6, <2>7 DEF Outcome, Turns
<1> QED
  BY <1>3, <1>4 DEF ReadIgnore

LEMMA TruncateIgnoreStep ==
  ASSUME IInv, NEW p \in Procs, TruncateIgnore(p)
  PROVE  Outcome(p)
<1>1. /\ Shape /\ Control(p) /\ pc[p] = "write ignore" /\ ignore' = <<>>
      /\ UNCHANGED <<manifest, graph, newer, saved, report, registry, head, text, at>>
  BY DEF TruncateIgnore, Remembers, IInv
<1>2. Turns(p, "torn ignore")
  BY <1>1, Went DEF TruncateIgnore, Places
<1>3. Shape'
  <2>1. <<>> \in Seq(Lines)
    OBVIOUS
  <2>2. ignore' \in Seq(Lines)
    BY <1>1, <2>1
  <2> QED
    BY <1>1, <1>2, <2>2 DEF Shape, Turns
<1>4. ~moved[p] /\ cmd[p] = "adopt" => Usable'
  BY <1>1 DEF IInv, Progress, Adopted, IgnoreSteps, Usable
<1>5. Missing(text[p])' = <<>>
  BY <1>1 DEF Control, Missing
<1>6. Control(p)' /\ (~moved[p] => Progress(p)')
  BY <1>1, <1>2, <1>4, <1>5 DEF Turns, Control, Progress, Adopted, InitSteps, IndexSteps, IgnoreSteps
<1> QED
  BY <1>1, <1>2, <1>3, <1>6 DEF Outcome, Turns

LEMMA SaveIgnoreStep ==
  ASSUME IInv, NEW p \in Procs, SaveIgnore(p)
  PROVE  Outcome(p)
<1>1. /\ Shape /\ Control(p) /\ pc[p] = "torn ignore" /\ AfterInit(p)
      /\ ignore' = text[p] \o SubSeq(ignore, Len(text[p]) + 1, Len(ignore))
      /\ text' = [text EXCEPT ![p] = <<>>]
      /\ UNCHANGED <<manifest, graph, newer, saved, report, registry, head, at>>
  BY DEF SaveIgnore, IInv
<1>2. ignore' \in Seq(Lines) /\ (ignore = <<>> => ignore' = text[p])
  BY <1>1, Overwritten DEF Shape
<1>3. Missing(text[p]) = <<>>
  BY <1>1 DEF Control
<1>4. ~moved[p] => ignore = <<>>
  BY <1>1 DEF IInv, Progress
<1>5. ~moved[p] => Missing(ignore') = <<>>
  BY <1>2, <1>3, <1>4
<1>6. ~moved[p] => Missing(ignore)' = <<>>
  BY <1>5 DEF Missing
<1>7. ~moved[p] /\ cmd[p] = "adopt" => Prepared'
  BY <1>1, <1>6 DEF IInv, Progress, Adopted, IgnoreSteps, Prepared, Usable
<1>8. /\ Turns(p, "state") \/ Turns(p, "idle")
      /\ Control(p)' /\ (~moved[p] => Progress(p)')
  BY <1>1, <1>7, AfterInitStep DEF InitSteps, IgnoreSteps
<1>9. text' \in [Procs -> Seq(Lines)] /\ \A q \in Procs \ {p} : text'[q] = text[q]
  <2>1. <<>> \in Seq(Lines)
    OBVIOUS
  <2> QED
    BY <1>1, <2>1 DEF Shape
<1>10. Shape'
  BY <1>1, <1>2, <1>8, <1>9 DEF Shape, Turns
<1> QED
  BY <1>1, <1>8, <1>9, <1>10 DEF Outcome, Turns

-----------------------------------------------------------------------------
(* The steps of `index`, and what `adopt` adds.                            *)

\* What is said of the files is a matter of the files.
LEMMA SameFiles ==
  ASSUME UNCHANGED files
  PROVE  /\ Prepared => Prepared'
         /\ Built => Built'
         /\ Buildable => Buildable'
         /\ report => report'
         /\ Blocked => Blocked'
BY DEF Prepared, Usable, Missing, Built, Buildable, Blocked, files

\* An undisturbed `adopt` past `init` has seen to the manifest and to .gitignore.
LEMMA IsPrepared ==
  ASSUME IInv, NEW p \in Procs, ~moved[p], cmd[p] = "adopt",
         pc[p] \in IndexSteps \cup {"register", "benchmark", "doctor"}
  PROVE  Prepared
BY DEF IInv, Progress, Adopted

LEMMA TakeStateStep ==
  ASSUME IInv, NEW p \in Procs, TakeState(p)
  PROVE  Outcome(p)
<1>1. Shape /\ Control(p) /\ pc[p] = "state" /\ UNCHANGED <<files, text, at>>
  BY DEF TakeState, Reads, IInv
<1>2. CASE UpToDate(p) /\ Exit(p, 0)
  <2>1. Turns(p, "idle") /\ cmd[p] = "index"
    BY <1>1, <1>2, Ended DEF UpToDate
  <2>2. Built'
    BY <1>1, <1>2, SameFiles DEF UpToDate, Built
  <2>3. Control(p)' /\ Progress(p)'
    BY <2>1, <2>2 DEF Turns, Control, Progress, InitSteps, IndexSteps, IgnoreSteps
  <2> QED
    BY <1>1, <2>1, <2>3, ReadOnly DEF Places
<1>3. CASE Goto(p, "build")
  <2>1. Turns(p, "build")
    BY <1>1, <1>3, Went DEF Places
  <2>2. ~moved[p] /\ cmd[p] = "adopt" => Prepared'
    BY <1>1, IsPrepared, SameFiles DEF IndexSteps
  <2>3. Control(p)' /\ (~moved[p] => Progress(p)')
    BY <1>1, <2>1, <2>2 DEF Turns, Control, Progress, Adopted, InitSteps, IndexSteps, IgnoreSteps
  <2> QED
    BY <1>1, <2>1, <2>3, ReadOnly DEF Places
<1> QED
  BY <1>2, <1>3 DEF TakeState

LEMMA LoadManifestStep ==
  ASSUME IInv, NEW p \in Procs, LoadManifest(p)
  PROVE  Outcome(p)
<1>1. Shape /\ Control(p) /\ pc[p] = "build" /\ UNCHANGED <<files, text, at>>
  BY DEF LoadManifest, Reads, Remembers, IInv
<1>2. CASE Goto(p, "revision")
  <2>1. Turns(p, "revision")
    BY <1>1, <1>2, Went DEF Places
  <2>2. ~moved[p] /\ cmd[p] = "adopt" => Prepared'
    BY <1>1, IsPrepared, SameFiles DEF IndexSteps
  <2>3. Control(p)' /\ (~moved[p] => Progress(p)')
    BY <1>1, <2>1, <2>2 DEF Turns, Control, Progress, Adopted, InitSteps, IndexSteps, IgnoreSteps
  <2> QED
    BY <1>1, <2>1, <2>3, ReadOnly DEF Places
<1>3. CASE ~Loads /\ Exit(p, 1)
  <2>1. Turns(p, "idle") /\ exit'[p] = 1
    BY <1>1, <1>3, Ended
  <2>2. Blocked'
    BY <1>1, <1>3, SameFiles DEF Loads, Blocked
  <2>3. Control(p)' /\ Progress(p)'
    BY <2>1, <2>2, Fails
  <2> QED
    BY <1>1, <2>1, <2>3, ReadOnly DEF Places
<1> QED
  BY <1>2, <1>3 DEF LoadManifest

LEMMA ReadRevisionStep ==
  ASSUME IInv, NEW p \in Procs, ReadRevision(p)
  PROVE  Outcome(p)
<1>1. Shape /\ Control(p) /\ pc[p] = "revision" /\ UNCHANGED <<files, text>>
  BY DEF ReadRevision, Reads, IInv
<1>2. CASE (head = 0 \/ registry = "broken") /\ Exit(p, 1) /\ at' = at
  <2>1. Turns(p, "idle") /\ exit'[p] = 1
    BY <1>1, <1>2, Ended
  <2>2. Blocked'
    BY <1>1, <1>2, SameFiles DEF Blocked
  <2>3. Control(p)' /\ Progress(p)'
    BY <2>1, <2>2, Fails
  <2> QED
    BY <1>1, <1>2, <2>1, <2>3, ReadOnly DEF Places
<1>3. CASE Buildable /\ Goto(p, "save") /\ at' = [at EXCEPT ![p] = head]
  <2>1. Turns(p, "save")
    BY <1>1, <1>3, Went DEF Places
  <2>2. ~moved[p] /\ cmd[p] = "adopt" => Prepared'
    BY <1>1, IsPrepared, SameFiles DEF IndexSteps
  <2>3. /\ at' \in [Procs -> Int] /\ at'[p] = head
        /\ \A q \in Procs \ {p} : at'[q] = at[q]
    BY <1>1, <1>3 DEF Shape
  <2>4. Buildable' /\ head' = head
    BY <1>1, <1>3, SameFiles DEF files
  <2>5. Control(p)'
    BY <1>1, <2>1 DEF Turns, Control, InitSteps, IndexSteps, IgnoreSteps
  <2>6. ~moved[p] => Progress(p)'
    BY <2>1, <2>2, <2>3, <2>4 DEF Turns, Progress, Adopted, IgnoreSteps, IndexSteps
  <2>7. Shape'
    BY <1>1, <2>1, <2>3 DEF Shape, Turns, files
  <2> QED
    BY <1>1, <2>1, <2>3, <2>5, <2>6, <2>7 DEF Outcome, Turns
<1> QED
  BY <1>2, <1>3 DEF ReadRevision, Buildable

\* The graph is written over what was there, and is newer than the manifest.
LEMMA TruncateGraphStep ==
  ASSUME IInv, NEW p \in Procs, TruncateGraph(p)
  PROVE  Outcome(p)
<1>1. /\ Shape /\ Control(p) /\ pc[p] = "save" /\ graph' = [is |-> "torn", head |-> -1]
      /\ UNCHANGED <<manifest, ignore, saved, report, registry, head, text, at>>
  BY DEF TruncateGraph, WriteGraph, Remembers, IInv
<1>2. Turns(p, "torn graph")
  BY <1>1, Went DEF TruncateGraph, Places
<1>3. Shape'
  <2>1. -1 \in Int
    OBVIOUS
  <2>2. graph' \in Graphs
    BY <1>1, <2>1 DEF Graphs
  <2> QED
    BY <1>1, <1>2, <2>2 DEF Shape, Turns
<1>4. ~moved[p] => Buildable' /\ at'[p] = head'
  BY <1>1 DEF IInv, Progress, Buildable
<1>5. ~moved[p] /\ cmd[p] = "adopt" => Prepared'
  BY <1>1, IsPrepared DEF IndexSteps, Prepared, Usable, Missing
<1>6. Control(p)' /\ (~moved[p] => Progress(p)')
  BY <1>1, <1>2, <1>4, <1>5 DEF Turns, Control, Progress, Adopted, InitSteps, IndexSteps, IgnoreSteps
<1> QED
  BY <1>1, <1>2, <1>3, <1>6 DEF Outcome, Turns

LEMMA SaveGraphStep ==
  ASSUME IInv, NEW p \in Procs, SaveGraph(p)
  PROVE  Outcome(p)
<1>1. /\ Shape /\ Control(p) /\ pc[p] = "torn graph"
      /\ graph' = [is |-> "good", head |-> at[p]] /\ newer' = FALSE
      /\ UNCHANGED <<manifest, ignore, saved, report, registry, head, text, at>>
  BY DEF SaveGraph, WriteGraph, Remembers, IInv
<1>2. Turns(p, "save state")
  BY <1>1, Went DEF SaveGraph, Places
<1>3. Shape'
  BY <1>1, <1>2 DEF Shape, Turns, Graphs
<1>4. ~moved[p] => Buildable' /\ Built'
  BY <1>1 DEF IInv, Progress, Buildable, Built
<1>5. ~moved[p] /\ cmd[p] = "adopt" => Prepared'
  BY <1>1, IsPrepared DEF IndexSteps, Prepared, Usable, Missing
<1>6. Control(p)' /\ (~moved[p] => Progress(p)')
  BY <1>1, <1>2, <1>4, <1>5 DEF Turns, Control, Progress, Adopted, InitSteps, IndexSteps, IgnoreSteps
<1> QED
  BY <1>1, <1>2, <1>3, <1>6 DEF Outcome, Turns

LEMMA SaveStateStep ==
  ASSUME IInv, NEW p \in Procs, SaveState(p)
  PROVE  Outcome(p)
<1>1. /\ Shape /\ Control(p) /\ pc[p] = "save state" /\ at' = [at EXCEPT ![p] = -1]
      /\ UNCHANGED <<manifest, ignore, graph, newer, report, registry, head, text>>
  BY DEF SaveState, IInv
<1>2. /\ at' \in [Procs -> Int]
      /\ \A q \in Procs \ {p} : at'[q] = at[q]
  <2>1. -1 \in Int
    OBVIOUS
  <2> QED
    BY <1>1, <2>1 DEF Shape
<1>3. ~moved[p] => Built'
  BY <1>1 DEF IInv, Progress, Built
<1>4. CASE cmd[p] = "adopt" /\ Goto(p, "register")
  <2>1. Turns(p, "register")
    BY <1>1, <1>4, Went DEF Places
  <2>2. ~moved[p] => Prepared' /\ Buildable'
    BY <1>1, <1>4, IsPrepared DEF IInv, Progress, Adopted, IndexSteps, Prepared, Usable, Missing,
                                  Buildable
  <2>3. Control(p)' /\ (~moved[p] => Progress(p)')
    BY <1>3, <1>4, <2>1, <2>2 DEF Turns, Control, Progress, Adopted, InitSteps, IndexSteps, IgnoreSteps
  <2>4. Shape'
    BY <1>1, <1>2, <2>1 DEF Shape, Turns
  <2> QED
    BY <1>1, <1>2, <2>1, <2>3, <2>4 DEF Outcome, Turns
<1>5. CASE cmd[p] # "adopt" /\ Exit(p, 0)
  <2>1. Turns(p, "idle")
    <3>1. Shape /\ Exit(p, 0)
      BY <1>1, <1>5
    <3> QED
      BY <3>1, Ended
  <2>2. Control(p)' /\ (~moved[p] => Progress(p)')
    BY <1>3, <1>5, <2>1 DEF Turns, Control, Progress, InitSteps, IndexSteps, IgnoreSteps
  <2>3. Shape'
    BY <1>1, <1>2, <2>1 DEF Shape, Turns
  <2> QED
    BY <1>1, <1>2, <2>1, <2>2, <2>3 DEF Outcome, Turns
<1> QED
  BY <1>4, <1>5 DEF SaveState

\* Exit codes are numbers, and what `adopt` has achieved decides them.
LEMMA Codes ==
  ASSUME Shape
  PROVE  /\ LoadCode \in {0, 1, 4} /\ DoctorCode \in {0, 1, 3, 4}
         /\ Prepared /\ Built /\ Buildable =>
              /\ LoadCode = 0
              /\ DoctorCode = 0 <=> ~Blocked
<1>1. LoadCode \in {0, 1, 4}
  BY DEF LoadCode
<1>2. DoctorCode \in {0, 1, 3, 4}
  BY DEF DoctorCode
<1>3. ASSUME Prepared, Built, Buildable
      PROVE  LoadCode = 0
  BY <1>3 DEF Shape, Prepared, Usable, Built, Buildable, LoadCode
<1>4. ASSUME Prepared, Built, Buildable
      PROVE  DoctorCode = 0 <=> ~Blocked
  <2>1. ManifestCheck = 0 /\ GitCheck = 0 /\ IndexCheck = 0
    BY <1>4 DEF Prepared, Usable, Built, Buildable, ManifestCheck, GitCheck, IndexCheck
  <2>2. ProviderCheck = IF manifest = "keyless" THEN 1 ELSE 0
    BY <1>4 DEF Prepared, Usable, ProviderCheck
  <2>3. Blocked <=> manifest = "keyless"
    BY <1>4 DEF Prepared, Usable, Buildable, Blocked
  <2> QED
    BY <2>1, <2>2, <2>3 DEF DoctorCode
<1> QED
  BY <1>1, <1>2, <1>3, <1>4

LEMMA RegisterStep ==
  ASSUME IInv, NEW p \in Procs, Register(p)
  PROVE  Outcome(p)
<1>1. Shape /\ Control(p) /\ pc[p] = "register" /\ UNCHANGED <<files, text, at>>
  BY DEF Register, Reads, Remembers, IInv
<1>2. cmd[p] = "adopt" /\ (~moved[p] => Built /\ Buildable)
  BY <1>1 DEF IInv, Control, Progress, Adopted
<1>3. CASE Goto(p, "benchmark")
  <2>1. Turns(p, "benchmark")
    BY <1>1, <1>3, Went DEF Places
  <2>2. ~moved[p] => Prepared' /\ Built' /\ Buildable'
    BY <1>1, <1>2, IsPrepared, SameFiles
  <2>3. Control(p)' /\ (~moved[p] => Progress(p)')
    BY <1>2, <2>1, <2>2 DEF Turns, Control, Progress, Adopted, InitSteps, IndexSteps, IgnoreSteps
  <2> QED
    BY <1>1, <2>1, <2>3, ReadOnly DEF Places
<1>4. ASSUME graph.is # "good", NEW c \in Int, Exit(p, c)
      PROVE  Outcome(p)
  <2>1. Turns(p, "idle")
    BY <1>1, <1>4, Ended
  <2>2. moved[p]
    BY <1>2, <1>4 DEF Built
  <2>3. Control(p)'
    BY <2>1 DEF Turns, Control, InitSteps, IndexSteps, IgnoreSteps
  <2> QED
    BY <1>1, <2>1, <2>2, <2>3, ReadOnly DEF Places
<1>5. graph.is \in {"absent", "torn", "old", "good"}
  BY <1>1 DEF Shape, Graphs
<1>6. CASE graph.is = "good"
  BY <1>3, <1>6 DEF Register
<1>7. CASE graph.is = "torn"
  BY <1>4, <1>7 DEF Register
<1>8. CASE graph.is \in {"absent", "old"}
  <2>1. Exit(p, 4)
    BY <1>8 DEF Register
  <2> QED
    BY <1>4, <1>8, <2>1
<1> QED
  BY <1>5, <1>6, <1>7, <1>8

LEMMA BenchmarkStep ==
  ASSUME IInv, NEW p \in Procs, Benchmark(p)
  PROVE  Outcome(p)
<1>1. /\ Shape /\ Control(p) /\ pc[p] = "benchmark"
      /\ UNCHANGED <<manifest, ignore, graph, newer, saved, registry, head, text, at>>
  BY DEF Benchmark, Remembers, IInv
<1>2. cmd[p] = "adopt" /\ (~moved[p] => Prepared /\ Built /\ Buildable)
  BY <1>1, IsPrepared DEF IInv, Control, Progress, Adopted
<1>3. ~moved[p] => Prepared' /\ Built' /\ Buildable'
  BY <1>1, <1>2 DEF Prepared, Usable, Missing, Built, Buildable
<1>4. CASE Goto(p, "doctor") /\ report' = TRUE
  <2>1. Turns(p, "doctor")
    BY <1>1, <1>4, Went DEF Places
  <2>2. Control(p)' /\ (~moved[p] => Progress(p)')
    BY <1>2, <1>3, <1>4, <2>1 DEF Turns, Control, Progress, Adopted, InitSteps, IndexSteps, IgnoreSteps
  <2>3. Shape'
    BY <1>1, <2>1 DEF Shape, Turns
  <2> QED
    BY <1>1, <2>1, <2>2, <2>3 DEF Outcome, Turns
<1>5. CASE LoadCode # 0 /\ Exit(p, LoadCode)
  <2>1. Turns(p, "idle")
    BY <1>1, <1>5, Codes, Ended
  <2>2. moved[p]
    BY <1>1, <1>2, <1>5, Codes
  <2>3. Control(p)'
    BY <2>1 DEF Turns, Control, InitSteps, IndexSteps, IgnoreSteps
  <2>4. Shape'
    BY <1>1, <2>1 DEF Shape, Turns
  <2> QED
    BY <1>1, <2>1, <2>2, <2>3, <2>4 DEF Outcome, Turns
<1> QED
  BY <1>4, <1>5 DEF Benchmark

LEMMA DoctorStep ==
  ASSUME IInv, NEW p \in Procs, Doctor(p)
  PROVE  Outcome(p)
<1>1. /\ Shape /\ Control(p) /\ pc[p] = "doctor" /\ UNCHANGED <<files, text, at>>
      /\ Exit(p, DoctorCode)
  BY DEF Doctor, Reads, Remembers, IInv
<1>2. DoctorCode \in Int
  BY <1>1, Codes
<1>3. Turns(p, "idle") /\ exit'[p] = DoctorCode
  BY <1>1, <1>2, Ended
<1>4. Control(p)'
  BY <1>3 DEF Turns, Control, InitSteps, IndexSteps, IgnoreSteps
<1>5. cmd[p] \in {"doctor", "adopt"}
  BY <1>1 DEF Control
<1>6. ~moved[p] /\ cmd[p] = "adopt" => Prepared /\ Built /\ Buildable /\ report
  BY <1>1, IsPrepared DEF IInv, Progress, Adopted
<1>7. ~moved[p] /\ cmd[p] = "adopt" =>
        /\ DoctorCode = 0 <=> ~Blocked'
        /\ Prepared' /\ Built' /\ report'
  BY <1>1, <1>6, Codes, SameFiles DEF Blocked, files
<1>8. ~moved[p] => Progress(p)'
  BY <1>3, <1>5, <1>7 DEF Turns, Progress, Adopted, IndexSteps, IgnoreSteps
<1>9. Turns(p, "idle") /\ "idle" \in Places
  BY <1>3 DEF Places
<1> QED
  BY <1>1, <1>4, <1>8, <1>9, ReadOnly

LEMMA QueryStep ==
  ASSUME IInv, NEW p \in Procs, Query(p)
  PROVE  Outcome(p)
<1>1. /\ Shape /\ Control(p) /\ pc[p] = "query" /\ UNCHANGED <<files, text, at>>
      /\ Exit(p, LoadCode)
  BY DEF Query, Reads, Remembers, IInv
<1>2. LoadCode \in Int
  BY <1>1, Codes
<1>3. Turns(p, "idle")
  BY <1>1, <1>2, Ended
<1>4. cmd[p] = "query"
  BY <1>1 DEF Control
<1>5. Control(p)' /\ Progress(p)'
  BY <1>3, <1>4 DEF Turns, Control, Progress, InitSteps, IndexSteps, IgnoreSteps
<1> QED
  BY <1>1, <1>3, <1>5, ReadOnly DEF Places

LEMMA AnyStep ==
  ASSUME IInv, NEW p \in Procs, Step(p)
  PROVE  Outcome(p)
BY CheckManifestStep, TruncateManifestStep, SaveManifestStep, ReadIgnoreStep, TruncateIgnoreStep,
   SaveIgnoreStep, TakeStateStep, LoadManifestStep, ReadRevisionStep, TruncateGraphStep,
   SaveGraphStep, SaveStateStep, RegisterStep, BenchmarkStep, DoctorStep, QueryStep
   DEF Step, InitStep, IndexStep, AdoptStep

-----------------------------------------------------------------------------
(* All together.                                                           *)

\* To the others a step matters only if it changes a file.
LEMMA Bystander ==
  ASSUME IInv, NEW q \in Procs,
         pc'[q] = pc[q], cmd'[q] = cmd[q], at'[q] = at[q], exit'[q] = exit[q], text'[q] = text[q],
         ~moved'[q] => ~moved[q] /\ UNCHANGED files
  PROVE  Control(q)' /\ (~moved'[q] => Progress(q)')
<1>1. Control(q)'
  <2>1. Control(q) /\ (Missing(text[q]) = <<>> => Missing(text[q])' = <<>>)
    BY DEF IInv, Missing
  <2> QED
    BY <2>1 DEF Control
<1>2. ASSUME ~moved'[q]
      PROVE  Progress(q)'
  <2>1. Progress(q) /\ UNCHANGED files
    BY <1>2 DEF IInv
  <2>2. /\ Prepared <=> Prepared'
        /\ Usable <=> Usable'
        /\ Built <=> Built'
        /\ Buildable <=> Buildable'
        /\ report <=> report'
        /\ Blocked <=> Blocked'
        /\ ignore' = ignore /\ head' = head
    BY <2>1 DEF Prepared, Usable, Missing, Built, Buildable, Blocked, files
  <2>3. cmd[q] = "adopt" => Adopted(q)'
    BY <2>1, <2>2 DEF Progress, Adopted
  <2> QED
    BY <2>1, <2>2, <2>3 DEF Progress
<1> QED
  BY <1>1, <1>2

LEMMA ProcessInv ==
  ASSUME IInv, NEW p \in Procs, ProcessStep(p)
  PROVE  IInv'
<1>1. Outcome(p)
  BY AnyStep DEF ProcessStep
<1>2. \/ UNCHANGED files /\ moved' = moved
      \/ moved' = [q \in Procs |-> moved[q] \/ q \in Procs \ {p}]
  BY DEF ProcessStep, Disturb
<1>3. /\ moved' \in [Procs -> BOOLEAN] /\ moved'[p] = moved[p]
      /\ \A q \in Procs \ {p} : ~moved'[q] => ~moved[q] /\ UNCHANGED files
  BY <1>2 DEF IInv
<1>4. \A q \in Procs \ {p} : Control(q)' /\ (~moved'[q] => Progress(q)')
  BY <1>1, <1>3, Bystander DEF Outcome
<1> QED
  BY <1>1, <1>3, <1>4 DEF Outcome, IInv

LEMMA StartInv ==
  ASSUME IInv, NEW p \in Procs, Start(p)
  PROVE  IInv'
<1>1. PICK c \in Commands : /\ cmd' = [cmd EXCEPT ![p] = c]
                            /\ pc' = [pc EXCEPT ![p] = FirstStep(c)]
  BY DEF Start
<1>2. /\ exit' = [exit EXCEPT ![p] = -1] /\ moved' = [moved EXCEPT ![p] = FALSE]
      /\ UNCHANGED <<files, text, at>>
  BY DEF Start, Reads, Remembers
<1>3. /\ FirstStep(c) \in {"init", "state", "doctor", "query"} /\ FirstStep(c) \in Places
      /\ FirstStep(c) = "init" => c \in {"init", "force", "adopt"}
      /\ FirstStep(c) = "state" => c \in {"index", "full"}
      /\ FirstStep(c) = "doctor" => c = "doctor"
      /\ FirstStep(c) = "query" => c = "query"
  BY DEF FirstStep, Commands, Places
<1>4. Shape'
  <2>1. -1 \in Int
    OBVIOUS
  <2>2. UNCHANGED <<head, graph, manifest, ignore>>
    BY <1>2 DEF files
  <2> QED
    BY <1>1, <1>2, <1>3, <2>1, <2>2 DEF IInv, Shape
<1>5. pc'[p] = FirstStep(c) /\ cmd'[p] = c
  BY <1>1 DEF IInv, Shape
<1>6. Control(p)' /\ Progress(p)'
  BY <1>3, <1>5 DEF Control, Progress, Adopted, InitSteps, IndexSteps, IgnoreSteps, Indexing
<1>7. ASSUME NEW q \in Procs \ {p}
      PROVE  Control(q)' /\ (~moved'[q] => Progress(q)')
  <2>1. /\ pc'[q] = pc[q] /\ cmd'[q] = cmd[q] /\ at'[q] = at[q] /\ exit'[q] = exit[q]
        /\ text'[q] = text[q] /\ moved'[q] = moved[q]
    BY <1>1, <1>2 DEF IInv, Shape
  <2> QED
    BY <1>2, <2>1, Bystander
<1> QED
  BY <1>2, <1>4, <1>6, <1>7 DEF IInv

LEMMA KillInv ==
  ASSUME IInv, NEW p \in Procs, Kill(p)
  PROVE  IInv'
<1>1. /\ Exit(p, 9) /\ Shape
      /\ UNCHANGED <<files, moved>>
      /\ text' = [text EXCEPT ![p] = <<>>] /\ at' = [at EXCEPT ![p] = -1]
  BY DEF Kill, Reads, IInv
<1>2. Turns(p, "idle") /\ exit'[p] = 9
  BY <1>1, Ended
<1>3. /\ text' \in [Procs -> Seq(Lines)] /\ at' \in [Procs -> Int]
      /\ \A q \in Procs \ {p} : text'[q] = text[q] /\ at'[q] = at[q]
  <2>1. <<>> \in Seq(Lines) /\ -1 \in Int
    OBVIOUS
  <2> QED
    BY <1>1, <2>1 DEF Shape
<1>4. Shape'
  BY <1>1, <1>2, <1>3 DEF Shape, Turns, files
<1>5. Control(p)' /\ Progress(p)'
  BY <1>2 DEF Turns, Control, Progress, Adopted, InitSteps, IndexSteps, IgnoreSteps
<1>6. \A q \in Procs \ {p} : Control(q)' /\ (~moved'[q] => Progress(q)')
  BY <1>1, <1>2, <1>3, Bystander DEF Turns
<1> QED
  BY <1>1, <1>4, <1>5, <1>6 DEF IInv

LEMMA EditInv ==
  ASSUME IInv, Edit
  PROVE  IInv'
<1>1. UNCHANGED <<graph, process>> /\ Disturb(Procs)
  BY DEF Edit
<1>2. /\ manifest' \in Manifests /\ ignore' \in Seq(Lines) /\ head' \in Int
  <2>1. "user" \in Lines
    BY DEF Lines
  <2>2. Append(ignore, "user") \in Seq(Lines)
    BY <2>1 DEF IInv, Shape
  <2>3. manifest' \in Manifests
    BY DEF Edit, WriteManifest, Manifests, IInv, Shape
  <2>4. head' \in Int
    BY DEF Edit, IInv, Shape
  <2>5. ignore' \in {ignore, Append(ignore, "user")}
    BY DEF Edit
  <2> QED
    BY <2>2, <2>3, <2>4, <2>5 DEF IInv, Shape
<1>3. Shape'
  BY <1>1, <1>2 DEF IInv, Shape, process
<1>4. /\ moved' \in [Procs -> BOOLEAN]
      /\ \A q \in Procs : ~moved'[q] => ~moved[q] /\ UNCHANGED files
  BY <1>1 DEF Disturb, IInv
<1>5. \A q \in Procs : Control(q)' /\ (~moved'[q] => Progress(q)')
  BY <1>1, <1>4, Bystander DEF process
<1> QED
  BY <1>3, <1>4, <1>5 DEF IInv

LEMMA InitInv == OnboardingAssumption /\ Init => IInv
<1> SUFFICES ASSUME OnboardingAssumption, Init PROVE IInv
  OBVIOUS
<1>1. Shape
  <2>1. <<>> \in Seq(Lines) /\ -1 \in Int
    OBVIOUS
  <2> QED
    BY <2>1 DEF Init, OnboardingAssumption, Shape, Graphs, Manifests, Places
<1>2. moved \in [Procs -> BOOLEAN]
  BY DEF Init
<1>3. \A p \in Procs : Control(p) /\ Progress(p)
  BY DEF Init, Control, Progress, Adopted, InitSteps, IndexSteps, IgnoreSteps
<1> QED
  BY <1>1, <1>2, <1>3 DEF IInv

\* The invariant is inductive.
LEMMA StepInv == IInv /\ [Next]_vars => IInv'
<1> SUFFICES ASSUME IInv, [Next]_vars PROVE IInv'
  OBVIOUS
<1>1. CASE UNCHANGED vars
  <2>1. /\ UNCHANGED <<files, process, moved>>
        /\ Shape' /\ moved' \in [Procs -> BOOLEAN]
    BY <1>1 DEF vars, IInv, Shape, files, process
  <2>2. \A q \in Procs : Control(q)' /\ (~moved'[q] => Progress(q)')
    BY <2>1, Bystander DEF process
  <2> QED
    BY <2>1, <2>2 DEF IInv
<1>2. CASE Edit
  BY <1>2, EditInv
<1>3. CASE \E p \in Procs : Start(p) \/ ProcessStep(p) \/ Kill(p)
  BY <1>3, StartInv, ProcessInv, KillInv
<1> QED
  BY <1>1, <1>2, <1>3 DEF Next

\* The inductive invariant of the commands.
THEOREM OnboardingInductive == Spec => []IInv
BY OnboardingAssumption, InitInv, StepInv, PTL DEF Spec

\* An undisturbed `adopt` succeeds unless something outside its reach is wrong, and
\* leaves a repository that doctor and load_index accept.
THEOREM OnboardingAdoptRepairs == Spec => []AdoptRepairs
<1>1. IInv => AdoptRepairs
  <2> SUFFICES ASSUME IInv, NEW p \in Procs, Alone(p), cmd[p] = "adopt"
               PROVE  /\ exit[p] = 0 <=> ~Blocked
                      /\ exit[p] = 0 => /\ DoctorCode = 0 /\ LoadCode = 0 /\ report
                                        /\ Missing(ignore) = <<>>
    BY DEF AdoptRepairs
  <2>1. /\ exit[p] = 0 <=> ~Blocked
        /\ exit[p] = 0 => Prepared /\ Built /\ report
    BY DEF IInv, Alone, Progress, Adopted
  <2>2. exit[p] = 0 => Buildable /\ Missing(ignore) = <<>>
    BY <2>1 DEF Blocked, Buildable, Prepared
  <2> QED
    BY <2>1, <2>2, Codes DEF IInv
<1> QED
  BY <1>1, OnboardingInductive, PTL

\* An undisturbed `index` that exits 0 leaves an index that load_index accepts.
THEOREM OnboardingIndexRepairs == Spec => []IndexRepairs
<1>1. IInv => IndexRepairs
  <2> SUFFICES ASSUME IInv, NEW p \in Procs, Alone(p), cmd[p] \in {"index", "full"},
                      exit[p] = 0, Loads, registry # "broken"
               PROVE  LoadCode = 0
    BY DEF IndexRepairs
  <2>1. Built
    BY DEF IInv, Alone, Progress
  <2> QED
    BY <2>1 DEF Built, Loads, LoadCode
<1> QED
  BY <1>1, OnboardingInductive, PTL

\* What doctor accepts load_index accepts, but for the two checks doctor does not make.
THEOREM OnboardingDoctorVouches == Spec => []DoctorVouches
<1>1. IInv => DoctorVouches
  <2> SUFFICES ASSUME IInv, DoctorCode = 0, ~newer, registry # "broken"
               PROVE  LoadCode = 0
    BY DEF DoctorVouches
  <2>1. ManifestCheck = 0 /\ IndexCheck = 0
    BY DEF DoctorCode, ManifestCheck, IndexCheck
  <2> QED
    BY <2>1 DEF ManifestCheck, IndexCheck, LoadCode, IInv, Shape, Manifests
<1> QED
  BY <1>1, OnboardingInductive, PTL

-----------------------------------------------------------------------------
(* Type correctness.                                                       *)

ExitCodes == {-1, 0, 1, 3, 4, 9}

\* The part of TypeOK that Shape leaves out.
Rest ==
  /\ {newer, report, raced} \subseteq BOOLEAN
  /\ saved \in Manifests \cup {"none"} /\ registry \in {"ok", "broken"}
  /\ seen \in [Procs -> Manifests \cup {"none"}]
  /\ exit \in [Procs -> ExitCodes]
  /\ own \in [manifest : Manifests, lines : [Lines -> Nat]]
  /\ {starts, edits, kills} \subseteq Nat

LEMMA TypeIsShape == IInv => (TypeOK <=> Rest)
BY DEF IInv, Shape, Rest, TypeOK, Graphs, ExitCodes

\* A command ends with one of the exit codes of main.rs.
LEMMA EndTypes ==
  ASSUME Rest, NEW p \in Procs
  PROVE  /\ \A l : Goto(p, l) => exit' = exit
         /\ \A c \in ExitCodes : Exit(p, c) => exit' \in [Procs -> ExitCodes]
BY DEF Rest, Goto, Exit

\* What the steps of a command write has the type of the file.
LEMMA RestStep ==
  ASSUME IInv, Rest, NEW p \in Procs, ProcessStep(p)
  PROVE  Rest'
<1> DEFINE Ends == exit' \in [Procs -> ExitCodes]
           Files == /\ {newer', report'} \subseteq BOOLEAN
                    /\ saved' \in Manifests \cup {"none"} /\ registry' \in {"ok", "broken"}
                    /\ seen' \in [Procs -> Manifests \cup {"none"}]
                    /\ own' \in [manifest : Manifests, lines : [Lines -> Nat]]
<1>0. {0, 1, 3, 4} \subseteq ExitCodes
  BY DEF ExitCodes
<1>1. Ends
  <2>1. AfterInit(p) => Ends
    BY <1>0, EndTypes DEF AfterInit, Rest
  <2>2. DoctorCode \in ExitCodes /\ LoadCode \in ExitCodes
    BY <1>0 DEF DoctorCode, LoadCode
  <2>3. CASE InitStep(p)
    BY <1>0, <2>1, <2>3, EndTypes DEF Rest, InitStep, CheckManifest, TruncateManifest, SaveManifest,
       ReadIgnore, TruncateIgnore, SaveIgnore
  <2>4. CASE IndexStep(p)
    BY <1>0, <2>4, EndTypes DEF Rest, IndexStep, TakeState, LoadManifest, ReadRevision,
       TruncateGraph, SaveGraph, SaveState
  <2>5. CASE Register(p)
    <3>1. graph.is \in {"absent", "torn", "old", "good"}
      BY DEF IInv, Shape, Graphs
    <3>2. Exit(p, 4) \/ Exit(p, 1) \/ Goto(p, "benchmark")
      BY <2>5, <3>1 DEF Register
    <3> QED
      BY <1>0, <3>2, EndTypes DEF Rest
  <2>6. CASE Benchmark(p) \/ Doctor(p) \/ Query(p)
    BY <1>0, <2>2, <2>6, EndTypes DEF Rest, Benchmark, Doctor, Query
  <2> QED
    BY <2>3, <2>4, <2>5, <2>6 DEF ProcessStep, Step, AdoptStep
<1>2. Files
  <2>1. "none" \in Manifests \cup {"none"} /\ Now \in Manifests \cup {"none"}
    BY DEF Now, IInv, Shape
  <2>2. CASE InitStep(p)
    BY <2>2 DEF Rest, InitStep, CheckManifest, TruncateManifest, SaveManifest, ReadIgnore,
       TruncateIgnore, SaveIgnore, Reads, Remembers, files, WriteManifest, Manifests
  <2>3. CASE IndexStep(p)
    BY <2>1, <2>3 DEF Rest, IndexStep, TakeState, LoadManifest, ReadRevision, TruncateGraph,
       SaveGraph, SaveState, Reads, Remembers, files, WriteGraph
  <2>4. CASE AdoptStep(p) \/ Doctor(p) \/ Query(p)
    BY <2>4 DEF Rest, AdoptStep, Register, Benchmark, Doctor, Query, Reads, Remembers, files
  <2> QED
    BY <2>2, <2>3, <2>4 DEF ProcessStep, Step
<1>3. {starts', edits', kills'} \subseteq Nat
  BY DEF ProcessStep, bounds, Rest
<1>4. raced' \in BOOLEAN
  BY DEF ProcessStep, Rest, IInv
<1> QED
  BY <1>1, <1>2, <1>3, <1>4 DEF Rest

\* People, and the operating system, keep the types.
LEMMA RestOther ==
  ASSUME IInv, Rest, Edit \/ \E p \in Procs : Start(p) \/ Kill(p)
  PROVE  Rest'
<1>1. CASE Edit
  <2>1. /\ UNCHANGED <<report, raced, saved, seen, exit, starts, kills>> /\ edits' = edits + 1
    BY <1>1 DEF Edit, process
  <2>2. newer' \in BOOLEAN /\ registry' \in {"ok", "broken"}
    BY <1>1 DEF Edit, WriteManifest, Rest
  <2>3. own' \in [manifest : Manifests, lines : [Lines -> Nat]]
    BY <1>1 DEF Edit, Rest, Manifests
  <2> QED
    BY <2>1, <2>2, <2>3 DEF Rest
<1>2. ASSUME NEW p \in Procs, Start(p)
      PROVE  Rest'
  <2>1. exit' \in [Procs -> ExitCodes]
    BY <1>2 DEF Start, Rest, ExitCodes
  <2>2. UNCHANGED <<newer, report, raced, saved, registry, seen, own, edits, kills>>
        /\ starts' = starts + 1
    BY <1>2 DEF Start, Reads, Remembers, files
  <2> QED
    BY <2>1, <2>2 DEF Rest
<1>3. ASSUME NEW p \in Procs, Kill(p)
      PROVE  Rest'
  <2>1. exit' \in [Procs -> ExitCodes]
    BY <1>3 DEF Kill, Exit, Rest, ExitCodes
  <2>2. UNCHANGED <<newer, report, saved, registry, own, starts, edits>>
        /\ kills' = kills + 1 /\ raced' = TRUE /\ seen' \in [Procs -> Manifests \cup {"none"}]
    BY <1>3 DEF Kill, Reads, files, Rest
  <2> QED
    BY <2>1, <2>2 DEF Rest
<1> QED
  BY <1>1, <1>2, <1>3

LEMMA RestInit == OnboardingAssumption /\ Init => Rest
<1> SUFFICES ASSUME OnboardingAssumption, Init PROVE Rest
  OBVIOUS
<1>1. \A l \in Lines : Times(l, ignore) \in Nat
  BY TimesType DEF Init, OnboardingAssumption
<1>2. own \in [manifest : Manifests, lines : [Lines -> Nat]]
  BY <1>1 DEF Init, Manifests
<1>3. exit \in [Procs -> ExitCodes] /\ seen \in [Procs -> Manifests \cup {"none"}]
  BY DEF Init, ExitCodes
<1>4. /\ {newer, report, raced} \subseteq BOOLEAN /\ {starts, edits, kills} \subseteq Nat
      /\ saved \in Manifests \cup {"none"} /\ registry \in {"ok", "broken"}
  <2>1. newer = FALSE /\ report = FALSE /\ raced = FALSE /\ starts = 0 /\ edits = 0 /\ kills = 0
        /\ saved = "none" /\ registry = "ok"
    BY DEF Init
  <2>2. {starts, edits, kills} \subseteq Nat
    BY <2>1, SMT
  <2>3. {newer, report, raced} \subseteq BOOLEAN
    BY <2>1, Zenon
  <2> QED
    BY <2>1, <2>2, <2>3, Zenon
<1> QED
  BY <1>2, <1>3, <1>4 DEF Rest

LEMMA TypeStep == IInv /\ Rest /\ [Next]_vars => Rest'
<1> SUFFICES ASSUME IInv, Rest, [Next]_vars PROVE Rest'
  OBVIOUS
<1>1. CASE UNCHANGED vars
  BY <1>1 DEF vars, files, process, bounds, Rest
<1> QED
  BY <1>1, RestStep, RestOther DEF Next

\* The files and the memory of the commands keep their types, and a command ends with
\* one of the exit codes 0, 1, 3 and 4, or is killed.
THEOREM OnboardingTypeCorrect == Spec => []TypeOK
<1>1. Init => IInv /\ Rest
  BY OnboardingAssumption, InitInv, RestInit
<1>2. IInv /\ Rest /\ [Next]_vars => IInv' /\ Rest'
  BY StepInv, TypeStep
<1>3. IInv /\ Rest => TypeOK
  BY TypeIsShape
<1> QED
  BY <1>1, <1>2, <1>3, PTL DEF Spec

-----------------------------------------------------------------------------
(* What people wrote.                                                      *)

LEMMA TimesOne ==
  ASSUME NEW k, NEW l
  PROVE  /\ Times(l, <<k>>) = IF l = k THEN 1 ELSE 0
         /\ Times(l, <<>>) = 0
<1>1. {i \in DOMAIN <<k>> : <<k>>[i] = l} = IF l = k THEN {1} ELSE {}
  OBVIOUS
<1>2. {i \in DOMAIN <<>> : <<>>[i] = l} = {}
  OBVIOUS
<1>3. Cardinality({1}) = 1 /\ Cardinality({}) = 0
  BY FS_Singleton, FS_EmptySet
<1> QED
  BY <1>1, <1>2, <1>3 DEF Times

\* `init` adds each of its lines once, where there is none.
LEMMA TimesMissing ==
  ASSUME NEW s \in Seq(Lines), NEW l \in Lines
  PROVE  Times(l, Missing(s)) = IF l \in ToSet(Entries) /\ Times(l, s) = 0 THEN 1 ELSE 0
<1> DEFINE Wanted(e) == IF e \in ToSet(s) THEN <<>> ELSE <<e>>
<1>1. ToSet(Entries) = {"comment", "entry"} /\ "comment" \in Lines /\ "entry" \in Lines
  BY DEF Lines, Entries, ToSet
<1>2. \A e \in {"comment", "entry"} :
        /\ Wanted(e) \in Seq(Lines)
        /\ Times(l, Wanted(e)) = IF e \notin ToSet(s) /\ l = e THEN 1 ELSE 0
  BY <1>1, TimesOne
<1>3. Missing(s) = Wanted("comment") \o Wanted("entry")
  BY DEF Missing
<1> HIDE DEF Wanted
<1>4. Times(l, Missing(s)) = Times(l, Wanted("comment")) + Times(l, Wanted("entry"))
  BY <1>2, <1>3, TimesConcat
<1>5. Times(l, s) = 0 <=> l \notin ToSet(s)
  BY TimesType
<1>6. Times(l, Wanted("comment")) = IF "comment" \notin ToSet(s) /\ l = "comment" THEN 1 ELSE 0
  BY <1>2
<1>7. Times(l, Wanted("entry")) = IF "entry" \notin ToSet(s) /\ l = "entry" THEN 1 ELSE 0
  BY <1>2
<1> QED
  BY <1>1, <1>4, <1>5, <1>6, <1>7

\* Adding what is missing takes nothing from people.
LEMMA KeptByInit ==
  ASSUME Rest, NEW s \in Seq(Lines), LinesKept(s)
  PROVE  LinesKept(s \o Missing(s))
<1> SUFFICES ASSUME NEW l \in Lines
             PROVE  \/ Times(l, s \o Missing(s)) = own.lines[l]
                    \/ /\ l \in ToSet(Entries) /\ own.lines[l] = 0
                       /\ Times(l, s \o Missing(s)) = 1
  BY DEF LinesKept
<1>1. Times(l, s) \in Nat
  BY TimesType
<1>2. Times(l, s \o Missing(s)) = Times(l, s) + Times(l, Missing(s))
  BY MissingType, TimesConcat
<1>3. \/ Times(l, s) = own.lines[l]
      \/ l \in ToSet(Entries) /\ own.lines[l] = 0 /\ Times(l, s) = 1
  BY DEF LinesKept
<1> QED
  BY <1>1, <1>2, <1>3, TimesMissing

\* A person's new line is kept as well.
LEMMA KeptByEdit ==
  ASSUME Rest, NEW s \in Seq(Lines), LinesKept(s), own' = [own EXCEPT !.lines["user"] = @ + 1]
  PROVE  \A l \in Lines : \/ Times(l, Append(s, "user")) = own'.lines[l]
                          \/ /\ l \in ToSet(Entries) /\ own'.lines[l] = 0
                             /\ Times(l, Append(s, "user")) = 1
<1>1. "user" \in Lines /\ ToSet(Entries) = {"comment", "entry"}
  BY DEF Lines, Entries, ToSet
<1>2. \A l \in Lines : own'.lines[l] = own.lines[l] + IF l = "user" THEN 1 ELSE 0
  BY DEF Rest
<1>3. Append(s, "user") = s \o <<"user">> /\ <<"user">> \in Seq(Lines)
  BY <1>1
<1>4. ASSUME NEW l \in Lines
      PROVE  \/ Times(l, Append(s, "user")) = own'.lines[l]
             \/ /\ l \in ToSet(Entries) /\ own'.lines[l] = 0
                /\ Times(l, Append(s, "user")) = 1
  <2>1. Times(l, Append(s, "user")) = Times(l, s) + Times(l, <<"user">>)
    BY <1>3, TimesConcat
  <2>2. Times(l, <<"user">>) = IF l = "user" THEN 1 ELSE 0
    BY TimesOne
  <2>3. Times(l, s) \in Nat /\ own.lines[l] \in Nat
    BY TimesType DEF Rest
  <2>4. \/ Times(l, s) = own.lines[l]
        \/ l \in ToSet(Entries) /\ own.lines[l] = 0 /\ Times(l, s) = 1
    BY DEF LinesKept
  <2> QED
    BY <1>1, <1>2, <2>1, <2>2, <2>3, <2>4
<1> QED
  BY <1>4

\* A step of p is its own; to the others it matters only if it changes a file.
LEMMA OneMoves ==
  ASSUME IInv, NEW p \in Procs, ProcessStep(p)
  PROVE  /\ Step(p) /\ moved'[p] = moved[p] /\ (~raced' => ~raced)
         /\ ~raced' /\ pc[p] \in Writing => ~moved[p]
         /\ \A q \in Procs \ {p} :
              /\ pc'[q] = pc[q] /\ cmd'[q] = cmd[q] /\ text'[q] = text[q]
              /\ ~moved'[q] => ~moved[q] /\ UNCHANGED files
<1>1. Outcome(p)
  BY AnyStep DEF ProcessStep
<1>2. \/ UNCHANGED files /\ moved' = moved
      \/ moved' = [q \in Procs |-> moved[q] \/ q \in Procs \ {p}]
  BY DEF ProcessStep, Disturb
<1>3. moved'[p] = moved[p] /\ \A q \in Procs \ {p} : ~moved'[q] => ~moved[q] /\ UNCHANGED files
  BY <1>2 DEF IInv
<1>4. raced' = (raced \/ (moved[p] /\ pc[p] \in Writing))
  BY DEF ProcessStep
<1> QED
  BY <1>1, <1>3, <1>4 DEF ProcessStep, Outcome

\* Where a step of the other kinds may lead, and that it leaves these files alone.
LEMMA ManifestAlone ==
  ASSUME IInv, NEW p \in Procs, Step(p),
         ~CheckManifest(p), ~TruncateManifest(p), ~SaveManifest(p)
  PROVE  /\ UNCHANGED <<manifest, own>>
         /\ pc[p] \notin {"manifest", "torn manifest"}
         /\ pc'[p] \notin {"manifest", "torn manifest"}
<1> USE DEF IInv, Shape, Goto, Exit
<1>1. CASE ReadIgnore(p) \/ TruncateIgnore(p) \/ SaveIgnore(p)
  BY <1>1 DEF ReadIgnore, TruncateIgnore, SaveIgnore, AfterInit, Reads, files
<1>2. CASE IndexStep(p)
  BY <1>2 DEF IndexStep, TakeState, LoadManifest, ReadRevision, TruncateGraph, SaveGraph, SaveState,
              Reads, files
<1>3. CASE Benchmark(p) \/ Doctor(p) \/ Query(p)
  BY <1>3 DEF Benchmark, Doctor, Query, Reads, files
<1>4. CASE Register(p)
  <2>1. Exit(p, 4) \/ Exit(p, 1) \/ Goto(p, "benchmark")
    <3>1. graph.is \in {"absent", "torn", "old", "good"}
      BY DEF Graphs
    <3> QED
      BY <1>4, <3>1 DEF Register
  <2> QED
    BY <1>4, <2>1 DEF Register, Reads, files
<1> QED
  BY <1>1, <1>2, <1>3, <1>4 DEF Step, InitStep, AdoptStep

LEMMA IgnoreAlone ==
  ASSUME IInv, Rest, NEW p \in Procs, Step(p),
         ~ReadIgnore(p), ~TruncateIgnore(p), ~SaveIgnore(p)
  PROVE  /\ UNCHANGED <<ignore, text>> /\ own'.lines = own.lines
         /\ pc[p] \notin {"write ignore", "torn ignore"}
         /\ pc'[p] \notin {"write ignore", "torn ignore"}
<1> USE DEF IInv, Shape, Rest, Goto, Exit
<1>1. CASE CheckManifest(p) \/ TruncateManifest(p) \/ SaveManifest(p)
  BY <1>1 DEF CheckManifest, TruncateManifest, SaveManifest, Reads, Remembers, files
<1>2. CASE IndexStep(p)
  BY <1>2 DEF IndexStep, TakeState, LoadManifest, ReadRevision, TruncateGraph, SaveGraph, SaveState,
              Reads, Remembers, files
<1>3. CASE Benchmark(p) \/ Doctor(p) \/ Query(p)
  BY <1>3 DEF Benchmark, Doctor, Query, Reads, Remembers, files
<1>4. CASE Register(p)
  <2>1. Exit(p, 4) \/ Exit(p, 1) \/ Goto(p, "benchmark")
    <3>1. graph.is \in {"absent", "torn", "old", "good"}
      BY DEF Graphs
    <3> QED
      BY <1>4, <3>1 DEF Register
  <2> QED
    BY <1>4, <2>1 DEF Register, Reads, Remembers, files
<1> QED
  BY <1>1, <1>2, <1>3, <1>4 DEF Step, InitStep, AdoptStep

\* A step that leaves the manifest alone keeps what is known of it.
LEMMA ManifestFrame ==
  ASSUME ManifestWork, UNCHANGED <<manifest, own>>, NEW p \in Procs,
         pc[p] # "torn manifest", pc'[p] # "torn manifest",
         pc'[p] = "manifest" => manifest = "absent" \/ cmd'[p] = "force",
         \A q \in Procs \ {p} : pc'[q] = pc[q] /\ cmd'[q] = cmd[q] /\ (~moved'[q] => ~moved[q])
  PROVE  ManifestWork'
<1>1. Nobody("torn manifest")' => ManifestKept'
  BY DEF ManifestWork, Nobody, ManifestKept
<1>2. ASSUME NEW q \in Procs, ~moved'[q]
      PROVE  /\ pc'[q] = "manifest" /\ cmd'[q] # "force" => manifest' = "absent"
             /\ pc'[q] = "torn manifest" => manifest' = "broken"
             /\ Only(q, "torn manifest")' => own'.manifest \in {"absent", "default"}
  <2>1. CASE q = p
    BY <2>1 DEF Only
  <2>2. CASE q # p
    <3>1. ~moved[q] /\ pc'[q] = pc[q] /\ cmd'[q] = cmd[q]
      BY <1>2, <2>2
    <3>2. Only(q, "torn manifest")' => Only(q, "torn manifest")
      BY <2>2 DEF Only
    <3> QED
      BY <3>1, <3>2 DEF ManifestWork
  <2> QED
    BY <2>1, <2>2
<1> QED
  BY <1>1, <1>2 DEF ManifestWork

\* `init` overwrites a manifest only if there is none, or under --force.
LEMMA ManifestWorkStep ==
  ASSUME IInv, Rest, ManifestWork, NEW p \in Procs, ProcessStep(p), ~raced'
  PROVE  ManifestWork'
<1>0. /\ pc \in [Procs -> Places] /\ cmd \in [Procs -> Commands \cup {"none"}]
      /\ Step(p) /\ moved'[p] = moved[p]
      /\ pc[p] \in Writing => ~moved[p]
      /\ \A q \in Procs \ {p} : /\ pc'[q] = pc[q] /\ cmd'[q] = cmd[q]
                                /\ ~moved'[q] => ~moved[q] /\ UNCHANGED files
  BY OneMoves DEF IInv, Shape
<1>1. CASE CheckManifest(p)
  <2>1. /\ UNCHANGED <<manifest, own>> /\ pc[p] = "init" /\ pc'[p] \in {"manifest", "ignore", "idle"}
        /\ pc'[p] = "manifest" => manifest = "absent" \/ cmd[p] = "force"
        /\ cmd'[p] = cmd[p]
    BY <1>0, <1>1 DEF CheckManifest, Reads, files, Goto, Exit
  <2> QED
    BY <1>0, <2>1, ManifestFrame
<1>2. CASE TruncateManifest(p)
  <2>1. /\ pc[p] = "manifest" /\ pc'[p] = "torn manifest" /\ manifest' = "broken" /\ cmd'[p] = cmd[p]
        /\ IF cmd[p] = "force" THEN own'.manifest = "default" ELSE own' = own
    BY <1>0, <1>2 DEF TruncateManifest, WriteManifest, Goto, Rest
  <2>2. ~moved[p] /\ (cmd[p] # "force" => manifest = "absent")
    BY <1>0, <2>1 DEF ManifestWork, Writing
  <2>3. Only(p, "torn manifest")' => own'.manifest \in {"absent", "default"}
    BY <1>0, <2>1, <2>2 DEF ManifestWork, Nobody, Only, ManifestKept
  <2>4. ASSUME NEW q \in Procs \ {p}, ~moved'[q]
        PROVE  /\ pc'[q] = "manifest" /\ cmd'[q] # "force" => manifest' = "absent"
               /\ pc'[q] = "torn manifest" => manifest' = "broken"
               /\ ~Only(q, "torn manifest")'
    <3>1. manifest' = manifest
      BY <1>0, <2>4 DEF files
    <3> QED
      BY <1>0, <2>1, <2>4, <3>1 DEF ManifestWork, Only
  <2> QED
    BY <2>1, <2>3, <2>4 DEF ManifestWork, Nobody
<1>3. CASE SaveManifest(p)
  <2>1. /\ pc[p] = "torn manifest" /\ pc'[p] = "ignore" /\ manifest' = "default" /\ own' = own
    BY <1>0, <1>3 DEF SaveManifest, WriteManifest, Goto
  <2>2. ~moved[p] /\ manifest = "broken"
    BY <1>0, <2>1 DEF ManifestWork, Writing
  <2>3. \A q \in Procs \ {p} : moved'[q]
    BY <1>0, <2>1, <2>2 DEF files, IInv
  <2>4. Nobody("torn manifest")' => own.manifest \in {"absent", "default"}
    BY <1>0, <2>1, <2>2 DEF ManifestWork, Nobody, Only
  <2> QED
    BY <2>1, <2>3, <2>4 DEF ManifestWork, ManifestKept, Only
<1>4. CASE ~CheckManifest(p) /\ ~TruncateManifest(p) /\ ~SaveManifest(p)
  <2>1. /\ UNCHANGED <<manifest, own>>
        /\ pc[p] \notin {"manifest", "torn manifest"} /\ pc'[p] \notin {"manifest", "torn manifest"}
    BY <1>0, <1>4, ManifestAlone
  <2> QED
    BY <1>0, <2>1, ManifestFrame
<1> QED
  BY <1>1, <1>2, <1>3, <1>4

\* ensure_gitignore rewrites the file from what it read of it.
LEMMA IgnoreWorkStep ==
  ASSUME IInv, Rest, IgnoreWork, NEW p \in Procs, ProcessStep(p), ~raced'
  PROVE  IgnoreWork'
<1>0. /\ pc \in [Procs -> Places] /\ text \in [Procs -> Seq(Lines)] /\ ignore \in Seq(Lines)
      /\ Step(p) /\ moved'[p] = moved[p]
      /\ pc[p] \in Writing => ~moved[p]
      /\ \A q \in Procs \ {p} : /\ pc'[q] = pc[q] /\ text'[q] = text[q]
                                /\ ~moved'[q] => ~moved[q] /\ UNCHANGED files
  BY OneMoves DEF IInv, Shape
<1>1. own'.lines = own.lines
  <2>1. CASE ReadIgnore(p) \/ TruncateIgnore(p) \/ SaveIgnore(p)
    BY <2>1 DEF ReadIgnore, TruncateIgnore, SaveIgnore, Reads
  <2> QED
    BY <1>0, <2>1, IgnoreAlone
<1>2. \A s : LinesKept(s)' <=> LinesKept(s)
  BY <1>1 DEF LinesKept, Times
<1>3. CASE ReadIgnore(p)
  <2>1. /\ UNCHANGED ignore /\ pc[p] = "ignore" /\ pc'[p] \in {"state", "idle", "write ignore"}
        /\ pc'[p] = "write ignore" => text'[p] = ignore \o Missing(ignore)
    BY <1>0, <1>3 DEF ReadIgnore, AfterInit, Reads, files, Goto, Exit
  <2>2. Missing(ignore)' = Missing(ignore)
    BY <2>1 DEF Missing
  <2>3. Nobody("torn ignore")' => LinesKept(ignore)'
    BY <1>0, <1>2, <2>1 DEF IgnoreWork, Nobody, LinesKept
  <2>4. ASSUME NEW q \in Procs, ~moved'[q]
        PROVE  /\ pc'[q] = "write ignore" => text'[q] = ignore' \o Missing(ignore)'
               /\ Only(q, "torn ignore")' => LinesKept(text[q])'
    <3>1. CASE q = p
      BY <2>1, <2>2, <3>1 DEF Only
    <3>2. CASE q # p
      <4>1. ~moved[q] /\ text'[q] = text[q] /\ pc'[q] = pc[q]
        BY <1>0, <2>4, <3>2
      <4>2. Only(q, "torn ignore")' => Only(q, "torn ignore")
        BY <1>0, <2>1, <3>2 DEF Only
      <4> QED
        BY <1>1, <2>1, <2>2, <4>1, <4>2 DEF IgnoreWork, LinesKept
    <3> QED
      BY <3>1, <3>2
  <2> QED
    BY <2>3, <2>4 DEF IgnoreWork
<1>4. CASE TruncateIgnore(p)
  <2>1. /\ pc[p] = "write ignore" /\ pc'[p] = "torn ignore" /\ ignore' = <<>> /\ UNCHANGED text
    BY <1>0, <1>4 DEF TruncateIgnore, Goto, Remembers
  <2>2. ~moved[p] /\ text[p] = ignore \o Missing(ignore)
    BY <1>0, <2>1 DEF IgnoreWork, Writing
  <2>3. Only(p, "torn ignore")' => LinesKept(text[p])'
    <3>1. ASSUME Only(p, "torn ignore")' PROVE LinesKept(ignore)
      BY <1>0, <2>1, <3>1 DEF IgnoreWork, Nobody, Only
    <3>2. LinesKept(ignore) => LinesKept(text[p])
      BY <1>0, <2>2, KeptByInit
    <3> QED
      BY <1>1, <2>1, <3>1, <3>2 DEF LinesKept
  <2>4. ASSUME NEW q \in Procs \ {p}, ~moved'[q]
        PROVE  /\ pc'[q] = "write ignore" => text'[q] = ignore' \o Missing(ignore)'
               /\ ~Only(q, "torn ignore")'
    <3>1. ~moved[q] /\ ignore' = ignore /\ Missing(ignore)' = Missing(ignore)
      BY <1>0, <2>4 DEF files, Missing
    <3> QED
      BY <1>0, <2>1, <2>4, <3>1 DEF IgnoreWork, Only
  <2> QED
    BY <2>1, <2>3, <2>4 DEF IgnoreWork, Nobody
<1>5. CASE SaveIgnore(p)
  <2>1. /\ pc[p] = "torn ignore" /\ pc'[p] \in {"state", "idle"}
        /\ ignore' = text[p] \o SubSeq(ignore, Len(text[p]) + 1, Len(ignore))
    BY <1>0, <1>5 DEF SaveIgnore, AfterInit, Goto, Exit
  <2>2. ~moved[p] /\ ignore = <<>> /\ Missing(text[p]) = <<>>
    BY <1>0, <2>1 DEF IInv, Progress, Control, Writing
  <2>3. ignore' = text[p]
    BY <1>0, <2>1, <2>2, Overwritten
  <2>4. text[p] # <<>>
    <3>1. <<>> \in Seq(Lines) /\ ToSet(<<>>) = {}
      BY DEF ToSet
    <3>2. Missing(<<>>) # <<>>
      BY <3>1, MissingType
    <3> QED
      BY <2>2, <3>2
  <2>5. \A q \in Procs \ {p} : moved'[q]
    BY <1>0, <2>2, <2>3, <2>4 DEF files, IInv
  <2>6. Nobody("torn ignore")' => LinesKept(text[p])
    BY <1>0, <2>1, <2>2 DEF IgnoreWork, Nobody, Only
  <2>7. Nobody("torn ignore")' => LinesKept(ignore)'
    BY <1>1, <2>3, <2>6 DEF LinesKept, Times
  <2> QED
    BY <2>1, <2>5, <2>7 DEF IgnoreWork, Only
<1>6. CASE ~ReadIgnore(p) /\ ~TruncateIgnore(p) /\ ~SaveIgnore(p)
  <2>1. /\ UNCHANGED <<ignore, text>>
        /\ pc[p] \notin {"write ignore", "torn ignore"} /\ pc'[p] \notin {"write ignore", "torn ignore"}
    BY <1>0, <1>6, IgnoreAlone
  <2>2. Missing(ignore)' = Missing(ignore)
    BY <2>1 DEF Missing
  <2>3. Nobody("torn ignore")' => LinesKept(ignore)'
    BY <1>0, <1>1, <2>1 DEF IgnoreWork, Nobody, LinesKept
  <2>4. ASSUME NEW q \in Procs, ~moved'[q]
        PROVE  /\ pc'[q] = "write ignore" => text'[q] = ignore' \o Missing(ignore)'
               /\ Only(q, "torn ignore")' => LinesKept(text[q])'
    <3>1. CASE q = p
      BY <2>1, <3>1 DEF Only
    <3>2. CASE q # p
      <4>1. ~moved[q] /\ pc'[q] = pc[q] /\ (Only(q, "torn ignore")' => Only(q, "torn ignore"))
        BY <1>0, <2>1, <2>4, <3>2 DEF Only
      <4> QED
        BY <1>1, <2>1, <2>2, <4>1 DEF IgnoreWork, LinesKept
    <3> QED
      BY <3>1, <3>2
  <2> QED
    BY <2>3, <2>4 DEF IgnoreWork
<1> QED
  BY <1>3, <1>4, <1>5, <1>6

\* A person's edit disturbs every command.
LEMMA WorkEdit ==
  ASSUME IInv, Rest, Work, Edit
  PROVE  Work'
<1> SUFFICES ASSUME ~raced' PROVE ManifestWork' /\ IgnoreWork'
  BY DEF Work
<1>1. ManifestWork /\ IgnoreWork /\ UNCHANGED <<pc, text>> /\ Disturb(Procs)
  BY DEF Work, Edit, process
<1>2. files' # files
  <2>1. \/ manifest' # manifest
        \/ registry' # registry
        \/ head' = head + 1 /\ head \in Int
        \/ ignore' = Append(ignore, "user") /\ ignore \in Seq(Lines)
    BY DEF Edit, WriteManifest, IInv, Shape
  <2>2. \A s \in Seq(Lines) : Append(s, "user") # s
    <3> SUFFICES ASSUME NEW s \in Seq(Lines), Append(s, "user") = s PROVE FALSE
      OBVIOUS
    <3>1. Len(Append(s, "user")) = Len(s) + 1 /\ Len(s) \in Nat
      OBVIOUS
    <3> QED
      BY <3>1
  <2> QED
    BY <2>1, <2>2 DEF files
<1>3. \A q \in Procs : moved'[q]
  BY <1>1, <1>2 DEF Disturb
<1>4. Nobody("torn manifest") => ManifestKept'
  BY <1>1 DEF Edit, WriteManifest, ManifestWork, ManifestKept, Rest
<1>5. Nobody("torn ignore") => LinesKept(ignore)'
  <2>1. CASE ignore' = Append(ignore, "user") /\ own' = [own EXCEPT !.lines["user"] = @ + 1]
    <3>1. LinesKept(ignore) =>
            \A l \in Lines : \/ Times(l, ignore') = own'.lines[l]
                            \/ /\ l \in ToSet(Entries) /\ own'.lines[l] = 0
                               /\ Times(l, ignore') = 1
      BY <2>1, KeptByEdit DEF IInv, Shape
    <3> QED
      BY <1>1, <3>1 DEF IgnoreWork, LinesKept, Times
  <2>2. CASE ignore' = ignore /\ own'.lines = own.lines
    BY <1>1, <2>2 DEF IgnoreWork, LinesKept
  <2> QED
    BY <2>1, <2>2 DEF Edit, Rest
<1> QED
  BY <1>1, <1>3, <1>4, <1>5 DEF ManifestWork, IgnoreWork, Nobody

\* A command that starts is writing nothing yet; one that is killed may lose work.
LEMMA WorkOther ==
  ASSUME IInv, Rest, Work, (\E p \in Procs : Start(p) \/ Kill(p)) \/ UNCHANGED vars
  PROVE  Work'
<1>1. ASSUME NEW p \in Procs, Kill(p) PROVE Work'
  BY <1>1 DEF Kill, Work
<1>2. CASE UNCHANGED vars
  BY <1>2 DEF vars, files, process, Work, ManifestWork, IgnoreWork, Nobody, Only, ManifestKept,
              LinesKept, Missing
<1>3. ASSUME NEW p \in Procs, Start(p) PROVE Work'
  <2>1. PICK c \in Commands : pc' = [pc EXCEPT ![p] = FirstStep(c)] /\ cmd' = [cmd EXCEPT ![p] = c]
    BY <1>3 DEF Start
  <2>2. /\ moved' = [moved EXCEPT ![p] = FALSE] /\ pc[p] = "idle"
        /\ UNCHANGED <<manifest, ignore, text, own, raced>>
    BY <1>3 DEF Start, Reads, Remembers, files
  <2>3. FirstStep(c) \in {"init", "state", "doctor", "query"}
    BY DEF FirstStep, Commands
  <2>4. /\ pc'[p] \in {"init", "state", "doctor", "query"}
        /\ \A q \in Procs \ {p} : pc'[q] = pc[q] /\ cmd'[q] = cmd[q] /\ moved'[q] = moved[q]
    BY <2>1, <2>2, <2>3 DEF IInv, Shape
  <2>5. Missing(ignore)' = Missing(ignore) /\ \A s : LinesKept(s)' <=> LinesKept(s)
    BY <2>2 DEF Missing, LinesKept, Times
  <2>6. ManifestWork => ManifestWork'
    BY <2>2, <2>4, ManifestFrame
  <2>7. IgnoreWork => IgnoreWork'
    <3>1. \A q \in Procs, l \in {"torn ignore"} : Only(q, l)' => Only(q, l)
      BY <2>2, <2>4 DEF Only
    <3>2. Nobody("torn ignore")' => Nobody("torn ignore")
      BY <2>2, <2>4 DEF Nobody
    <3>3. ASSUME IgnoreWork, NEW q \in Procs, ~moved'[q]
          PROVE  /\ pc'[q] = "write ignore" => text'[q] = ignore' \o Missing(ignore)'
                 /\ Only(q, "torn ignore")' => LinesKept(text[q])'
      <4>1. CASE q = p
        BY <2>4, <4>1 DEF Only
      <4>2. CASE q # p
        BY <2>2, <2>4, <2>5, <3>1, <3>3, <4>2 DEF IgnoreWork, LinesKept
      <4> QED
        BY <4>1, <4>2
    <3> QED
      BY <2>2, <3>2, <3>3 DEF IgnoreWork, LinesKept
  <2> QED
    BY <2>2, <2>6, <2>7 DEF Work
<1> QED
  BY <1>1, <1>2, <1>3

LEMMA WorkStep == IInv /\ Rest /\ Work /\ [Next]_vars => Work'
<1> SUFFICES ASSUME IInv, Rest, Work, [Next]_vars PROVE Work'
  OBVIOUS
<1>1. ASSUME NEW p \in Procs, ProcessStep(p) PROVE Work'
  <2>1. ~raced' => ~raced
    BY <1>1, OneMoves
  <2> QED
    BY <1>1, <2>1, ManifestWorkStep, IgnoreWorkStep DEF Work
<1> QED
  BY <1>1, WorkEdit, WorkOther DEF Next

LEMMA WorkInit == Init => Work
<1> SUFFICES ASSUME Init PROVE ManifestWork /\ IgnoreWork
  BY DEF Work
<1>1. ManifestKept /\ LinesKept(ignore)
  BY DEF Init, ManifestKept, LinesKept
<1> QED
  BY <1>1 DEF Init, ManifestWork, IgnoreWork, Only

\* Unless commands raced or were killed, none but `init --force` takes from people a
\* line of .gitignore or a manifest, and none adds its own lines twice.
THEOREM OnboardingWorkIsKept == Spec => []WorkIsKept
<1>1. Init => IInv /\ Rest /\ Work
  BY OnboardingAssumption, InitInv, RestInit, WorkInit
<1>2. IInv /\ Rest /\ Work /\ [Next]_vars => IInv' /\ Rest' /\ Work'
  BY StepInv, TypeStep, WorkStep
<1>3. Work => WorkIsKept
  BY DEF Work, WorkIsKept, ManifestWork, IgnoreWork, Nobody
<1> QED
  BY <1>1, <1>2, <1>3, PTL DEF Spec

-----------------------------------------------------------------------------
(* The raw store, for every set of processes and of outputs and for every  *)
(* digest.  ExpansionIsTheOutput speaks of one step.  What makes it true   *)
(* is a fact about every file at every moment: a file whose digest belongs *)
(* to one output holds that output, or is being written, or was left by a  *)
(* process that was killed.                                                *)

RawWhole(o) ==
  ~Raw!Collides(o) =>
    /\ raw[Raw!FileFor(o)] \in {Absent, Torn, o}
    /\ raw[Raw!FileFor(o)] = Torn => Raw!Writing(Raw!FileFor(o)) \/ Raw!FileFor(o) \in broken

RawUnderway(p) ==
  /\ storer[p] # "idle" => output[p] \in Outputs
  /\ storer[p] \in {"write", "stored"} => raw[Raw!FileFor(output[p])] # Absent

RawFiles == (\A o \in Outputs : RawWhole(o)) /\ (\A p \in Procs : RawUnderway(p))

RawInv == Raw!TypeOK /\ RawFiles

\* The file of an output is one of the files.
LEMMA RawFileForType ==
  ASSUME NEW o \in Outputs
  PROVE  Raw!FileFor(o) \in Raw!Files
BY DEF Raw!Files

LEMMA RawInitInv ==
  ASSUME Raw!RawStoreAssumption, Raw!Init
  PROVE  RawInv
<1>1. Raw!TypeOK
  BY DEF Raw!RawStoreAssumption, Raw!Init, Raw!TypeOK
<1>2. RawFiles
  BY RawFileForType DEF Raw!RawStoreAssumption, Raw!Init, RawFiles, RawWhole, RawUnderway
<1> QED
  BY <1>1, <1>2 DEF RawInv

\* A digest that belongs to one output names it.
LEMMA RawNoOther ==
  ASSUME NEW o \in Outputs, NEW q \in Outputs, ~Raw!Collides(o), Raw!FileFor(q) = Raw!FileFor(o)
  PROVE  q = o
BY DEF Raw!Collides, Raw!FileFor

LEMMA RawStoreInv ==
  ASSUME Raw!RawStoreAssumption, RawInv, NEW p \in Procs, Raw!Store(p)
  PROVE  RawInv'
<1>1. PICK o \in Outputs :
        /\ output' = [output EXCEPT ![p] = o]
        /\ storer' = [storer EXCEPT ![p] = IF raw[Raw!FileFor(o)] = Absent THEN "create" ELSE "stored"]
  BY DEF Raw!Store, Raw!Goto
<1>2. /\ storer[p] = "idle" /\ raw' = raw /\ broken' = broken
      /\ stores' \in Nat /\ read' = [read EXCEPT ![p] = Absent]
  BY DEF Raw!Store, RawInv, Raw!TypeOK
<1>3. Raw!TypeOK'
  BY <1>1, <1>2 DEF RawInv, Raw!TypeOK
<1>4. \A f : Raw!Writing(f) => Raw!Writing(f)'
  BY <1>1, <1>2 DEF RawInv, Raw!TypeOK, Raw!Writing, Raw!FileFor
<1>5. \A q \in Outputs : RawWhole(q)'
  BY <1>2, <1>4 DEF RawInv, RawFiles, RawWhole, Raw!Collides, Raw!FileFor
<1>6. \A q \in Procs : RawUnderway(q)'
  BY <1>1, <1>2 DEF RawInv, Raw!TypeOK, RawFiles, RawUnderway, Raw!FileFor
<1> QED
  BY <1>3, <1>5, <1>6 DEF RawInv, RawFiles

LEMMA RawCreateInv ==
  ASSUME Raw!RawStoreAssumption, RawInv, NEW p \in Procs, Raw!Create(p)
  PROVE  RawInv'
<1> DEFINE f == Raw!FileFor(output[p])
<1>1. /\ storer[p] = "create" /\ output[p] \in Outputs
      /\ storer' = [storer EXCEPT ![p] = "write"]
      /\ raw' = [raw EXCEPT ![f] = Torn]
      /\ UNCHANGED <<output, read, stores, broken>>
  BY DEF Raw!Create, Raw!Goto, RawInv, RawFiles, RawUnderway
<1>2. f \in Raw!Files
  BY <1>1, RawFileForType
<1>3. Raw!TypeOK'
  BY <1>1, <1>2 DEF RawInv, Raw!TypeOK
<1>4. (\A g : Raw!Writing(g) => Raw!Writing(g)') /\ Raw!Writing(f)'
  BY <1>1 DEF RawInv, Raw!TypeOK, Raw!Writing, Raw!FileFor
<1>5. \A o \in Outputs : RawWhole(o)'
  BY <1>1, <1>2, <1>4, RawFileForType DEF RawInv, Raw!TypeOK, RawFiles, RawWhole, Raw!Collides, Raw!FileFor
<1>6. \A q \in Procs : RawUnderway(q)'
  BY <1>1, <1>2, RawFileForType DEF RawInv, Raw!TypeOK, RawFiles, RawUnderway, Raw!FileFor, Raw!RawStoreAssumption
<1> QED
  BY <1>3, <1>5, <1>6 DEF RawInv, RawFiles

\* The one that writes last among those of one output leaves it whole.
LEMMA RawWriteInv ==
  ASSUME Raw!RawStoreAssumption, RawInv, NEW p \in Procs, Raw!Write(p)
  PROVE  RawInv'
<1> DEFINE f == Raw!FileFor(output[p])
<1>1. /\ storer[p] = "write" /\ output[p] \in Outputs
      /\ storer' = [storer EXCEPT ![p] = "stored"]
      /\ UNCHANGED <<output, read, stores, broken>>
  BY DEF Raw!Write, Raw!Goto, RawInv, RawFiles, RawUnderway
<1>2. PICK b \in {output[p]} \cup (IF raw[f] \in {Torn, output[p]} THEN {} ELSE {Torn}) :
        raw' = [raw EXCEPT ![f] = b]
  BY DEF Raw!Write
<1>3. f \in Raw!Files /\ raw[f] # Absent
  BY <1>1, RawFileForType DEF RawInv, RawFiles, RawUnderway
<1>4. Raw!TypeOK'
  BY <1>1, <1>2, <1>3 DEF RawInv, Raw!TypeOK
<1>5. \A g : g # f /\ Raw!Writing(g) => Raw!Writing(g)'
  BY <1>1 DEF RawInv, Raw!TypeOK, Raw!Writing, Raw!FileFor
<1>6. ASSUME NEW o \in Outputs
      PROVE  RawWhole(o)'
  <2>1. CASE Raw!FileFor(o) # f
    BY <1>1, <1>2, <1>3, <1>5, <2>1, RawFileForType DEF RawInv, Raw!TypeOK, RawFiles, RawWhole, Raw!Collides, Raw!FileFor
  <2>2. CASE Raw!FileFor(o) = f
    <3> SUFFICES ASSUME ~Raw!Collides(o) PROVE RawWhole(o)'
      BY DEF RawWhole, Raw!Collides
    <3>1. o = output[p]
      BY <1>1, <2>2, RawNoOther
    <3>2. raw[f] \in {Torn, o}
      BY <1>3, <2>2 DEF RawInv, RawFiles, RawWhole
    <3>3. raw'[f] = o
      BY <1>2, <1>3, <3>1, <3>2 DEF RawInv, Raw!TypeOK
    <3> QED
      BY <2>2, <3>3 DEF RawWhole, Raw!FileFor, Raw!RawStoreAssumption
  <2> QED
    BY <2>1, <2>2
<1>7. \A q \in Procs : RawUnderway(q)'
  BY <1>1, <1>2, <1>3, RawFileForType DEF RawInv, Raw!TypeOK, RawFiles, RawUnderway, Raw!FileFor, Raw!RawStoreAssumption
<1> QED
  BY <1>4, <1>6, <1>7 DEF RawInv, RawFiles

LEMMA RawExpandInv ==
  ASSUME Raw!RawStoreAssumption, RawInv, NEW p \in Procs, Raw!Expand(p)
  PROVE  RawInv'
<1>1. /\ storer[p] = "stored" /\ output[p] \in Outputs
      /\ storer' = [storer EXCEPT ![p] = "idle"]
      /\ read' = [read EXCEPT ![p] = raw[Raw!FileFor(output[p])]]
      /\ UNCHANGED <<raw, output, stores, broken>>
  BY DEF Raw!Expand, Raw!Goto, RawInv, RawFiles, RawUnderway
<1>2. Raw!TypeOK'
  BY <1>1, RawFileForType DEF RawInv, Raw!TypeOK
<1>3. \A f : Raw!Writing(f) => Raw!Writing(f)'
  BY <1>1 DEF RawInv, Raw!TypeOK, Raw!Writing, Raw!FileFor
<1>4. \A o \in Outputs : RawWhole(o)'
  BY <1>1, <1>3 DEF RawInv, RawFiles, RawWhole, Raw!Collides, Raw!FileFor
<1>5. \A q \in Procs : RawUnderway(q)'
  BY <1>1 DEF RawInv, Raw!TypeOK, RawFiles, RawUnderway, Raw!FileFor
<1> QED
  BY <1>2, <1>4, <1>5 DEF RawInv, RawFiles

\* What a killed process was writing is remembered.
LEMMA RawKillInv ==
  ASSUME Raw!RawStoreAssumption, RawInv, NEW p \in Procs, Raw!Kill(p)
  PROVE  RawInv'
<1>1. /\ storer[p] # "idle" /\ output[p] \in Outputs
      /\ storer' = [storer EXCEPT ![p] = "idle"]
      /\ broken' = broken \cup (IF storer[p] = "write" THEN {Raw!FileFor(output[p])} ELSE {})
      /\ UNCHANGED <<raw, output, read, stores>>
  BY DEF Raw!Kill, Raw!Goto, RawInv, RawFiles, RawUnderway
<1>2. Raw!TypeOK'
  BY <1>1, RawFileForType DEF RawInv, Raw!TypeOK
<1>3. \A f : Raw!Writing(f) => Raw!Writing(f)' \/ f \in broken'
  BY <1>1 DEF RawInv, Raw!TypeOK, Raw!Writing, Raw!FileFor
<1>4. \A o \in Outputs : RawWhole(o)'
  BY <1>1, <1>3 DEF RawInv, RawFiles, RawWhole, Raw!Collides, Raw!FileFor
<1>5. \A q \in Procs : RawUnderway(q)'
  BY <1>1 DEF RawInv, Raw!TypeOK, RawFiles, RawUnderway, Raw!FileFor
<1> QED
  BY <1>2, <1>4, <1>5 DEF RawInv, RawFiles

\* The invariant is inductive.
LEMMA RawStepInv ==
  ASSUME Raw!RawStoreAssumption, RawInv, [Raw!Next]_(Raw!vars)
  PROVE  RawInv'
<1>1. CASE \E p \in Procs : Raw!Store(p)
  BY <1>1, RawStoreInv
<1>2. CASE \E p \in Procs : Raw!Create(p)
  BY <1>2, RawCreateInv
<1>3. CASE \E p \in Procs : Raw!Write(p)
  BY <1>3, RawWriteInv
<1>4. CASE \E p \in Procs : Raw!Expand(p)
  BY <1>4, RawExpandInv
<1>5. CASE \E p \in Procs : Raw!Kill(p)
  BY <1>5, RawKillInv
<1>6. CASE UNCHANGED Raw!vars
  BY <1>6 DEF Raw!vars, RawInv, Raw!TypeOK, RawFiles, RawWhole, RawUnderway, Raw!Writing, Raw!Collides, Raw!FileFor
<1> QED
  BY <1>1, <1>2, <1>3, <1>4, <1>5, <1>6 DEF Raw!Next

\* The inductive invariant of the raw store.
THEOREM RawStoreInvariant == Raw!RawStoreAssumption /\ Raw!Spec => []RawInv
<1> SUFFICES ASSUME Raw!RawStoreAssumption PROVE Raw!Spec => []RawInv
  OBVIOUS
<1>1. Raw!Init => RawInv
  BY RawInitInv
<1>2. RawInv /\ [Raw!Next]_(Raw!vars) => RawInv'
  BY RawStepInv
<1> QED
  BY <1>1, <1>2, PTL DEF Raw!Spec

\* The variables of the raw store keep their types.
THEOREM RawStoreTypeCorrect == Raw!RawStoreAssumption /\ Raw!Spec => []Raw!TypeOK
<1>1. RawInv => Raw!TypeOK
  BY DEF RawInv
<1> QED
  BY <1>1, RawStoreInvariant, PTL

\* RawStore::expand returns the output its process stored, except while its file is
\* being written, after a kill in the middle of a write, or under a colliding digest.
THEOREM RawStoreExpansion == Raw!RawStoreAssumption /\ Raw!Spec => ExpansionIsTheOutput
<1>1. RawInv => \A p \in Procs : Raw!ReturnsTheOutput(p)
  <2> SUFFICES ASSUME RawInv, NEW p \in Procs, Raw!Expand(p), ~Raw!Collides(output[p]),
                      ~Raw!Writing(Raw!FileFor(output[p])), Raw!FileFor(output[p]) \notin broken
               PROVE  read'[p] = output[p]
    BY DEF Raw!ReturnsTheOutput
  <2>1. /\ storer[p] = "stored" /\ output[p] \in Outputs
        /\ raw[Raw!FileFor(output[p])] # Absent
        /\ read' = [read EXCEPT ![p] = raw[Raw!FileFor(output[p])]]
    BY DEF Raw!Expand, RawInv, RawFiles, RawUnderway
  <2>2. raw[Raw!FileFor(output[p])] = output[p]
    BY <2>1 DEF RawInv, RawFiles, RawWhole
  <2> QED
    BY <2>1, <2>2 DEF RawInv, Raw!TypeOK
<1>2. RawInv => [\A p \in Procs : Raw!ReturnsTheOutput(p)]_store
  BY <1>1
<1> QED
  BY <1>2, RawStoreInvariant, PTL DEF ExpansionIsTheOutput

-----------------------------------------------------------------------------
(* The whole.  A behaviour of MCSession is one of Onboarding, one of       *)
(* EntryCache and one of RawStore, so what is proved of each holds of the  *)
(* whole, for every value of the constants that SessionAssumption admits.  *)

CacheFacts == INSTANCE EntryCacheProofs WITH file <- entry, pc <- caller, at <- looks

\* EntryCacheProofs speaks of the same steps, and of the same facts.
LEMMA SameCacheStep == Cache!Next <=> CacheFacts!Next
BY DEF Cache!Next, CacheFacts!Next, Cache!Get, CacheFacts!Get, Cache!Hit, CacheFacts!Hit,
       Cache!Miss, CacheFacts!Miss, Cache!OpenForPut, CacheFacts!OpenForPut, Cache!Write,
       CacheFacts!Write, Cache!List, CacheFacts!List, Cache!Look, CacheFacts!Look,
       Cache!Drop, CacheFacts!Drop, Cache!Swept, CacheFacts!Swept, Cache!GoOn,
       CacheFacts!GoOn, Cache!Kill, CacheFacts!Kill, Cache!sweeping, CacheFacts!sweeping,
       Cache!Begin, CacheFacts!Begin, Cache!Goto, CacheFacts!Goto, Cache!PathFor,
       CacheFacts!PathFor, Cache!Paths, CacheFacts!Paths, Cache!Present,
       CacheFacts!Present, Cache!Remove, CacheFacts!Remove, Cache!IsEntry,
       CacheFacts!IsEntry, Cache!Matches, CacheFacts!Matches, Cache!Writers,
       CacheFacts!Writers, Cache!Kept, CacheFacts!Kept

LEMMA SameStart ==
  /\ Cache!EntryCacheAssumption <=> CacheFacts!EntryCacheAssumption
  /\ Cache!Init <=> CacheFacts!Init
<1>1. Cache!EntryCacheAssumption <=> CacheFacts!EntryCacheAssumption
  BY DEF Cache!EntryCacheAssumption, CacheFacts!EntryCacheAssumption, Cache!Entries,
         CacheFacts!Entries
<1>2. Cache!Init <=> CacheFacts!Init
  BY DEF Cache!Init, CacheFacts!Init, Cache!Paths, CacheFacts!Paths, Cache!PathFor,
       CacheFacts!PathFor
<1> QED
  BY <1>1, <1>2

LEMMA SameFacts ==
  /\ CacheFacts!HitIsPut => HitIsPut
  /\ CacheFacts!SweepIsClean => SweepIsClean
  /\ CacheFacts!TypeOK => Cache!TypeOK
<1>1. CacheFacts!HitIsPut => HitIsPut
  BY DEF HitIsPut, Cache!HitIsPut, CacheFacts!HitIsPut
<1>2. CacheFacts!SweepIsClean => SweepIsClean
  BY DEF SweepIsClean, Cache!SweepIsClean, CacheFacts!SweepIsClean,
         Cache!Present, CacheFacts!Present, Cache!Paths, CacheFacts!Paths,
         Cache!PathFor, CacheFacts!PathFor
<1>3. CacheFacts!TypeOK => Cache!TypeOK
  BY DEF Cache!TypeOK, CacheFacts!TypeOK, Cache!Paths, CacheFacts!Paths, Cache!Entries,
         CacheFacts!Entries, Cache!PathFor, CacheFacts!PathFor
<1> QED
  BY <1>1, <1>2, <1>3

\* A step of the whole is a step of each part or leaves it alone.
LEMMA PartSteps ==
  [SessionNext]_<<part, vars, cache, store>> =>
    /\ [Next]_vars
    /\ [CacheFacts!Next]_CacheFacts!vars
    /\ [Raw!Next]_Raw!vars
<1>1. [SessionNext]_<<part, vars, cache, store>> => [Next]_vars
  BY DEF SessionNext
<1>2. [SessionNext]_<<part, vars, cache, store>> => [CacheFacts!Next]_CacheFacts!vars
  BY SameCacheStep DEF SessionNext, cache, CacheFacts!vars, CacheFacts!sweeping
<1>3. [SessionNext]_<<part, vars, cache, store>> => [Raw!Next]_Raw!vars
  BY DEF SessionNext, store, Raw!vars
<1> QED
  BY <1>1, <1>2, <1>3

\* A behaviour of the whole is a behaviour of the commands, of the entry cache and of the
\* raw store.
THEOREM SessionIsEach == SessionSpec => Spec /\ CacheFacts!Spec /\ Raw!Spec
<1>1. SessionInit => Init /\ CacheFacts!Init /\ Raw!Init
  BY SameStart DEF SessionInit
<1> QED
  BY <1>1, PartSteps, PTL DEF SessionSpec, Spec, CacheFacts!Spec, Raw!Spec

\* Every file, process and count of the whole has its type.
THEOREM SessionTypeCorrect == SessionSpec => []SessionTypeOK
<1>1. CacheFacts!EntryCacheAssumption /\ Raw!RawStoreAssumption
  BY SessionAssumption, SameStart
<1>2. CacheFacts!Spec => []CacheFacts!TypeOK
  BY <1>1, CacheFacts!CacheTypeCorrect
<1>3. Raw!Spec => []Raw!TypeOK
  BY <1>1, RawStoreTypeCorrect
<1>4. TypeOK /\ CacheFacts!TypeOK /\ Raw!TypeOK => SessionTypeOK
  BY SameFacts DEF SessionTypeOK
<1> QED
  BY <1>2, <1>3, <1>4, OnboardingTypeCorrect, SessionIsEach, PTL

\* What init, index and adopt owe a repository, in the whole: nothing that init or a
\* person wrote is lost, an undisturbed adopt and an undisturbed index repair what they
\* may, and doctor vouches for what load_index will accept.
THEOREM SessionOnboards ==
  SessionSpec => [](WorkIsKept /\ AdoptRepairs /\ IndexRepairs /\ DoctorVouches)
BY OnboardingWorkIsKept, OnboardingAdoptRepairs, OnboardingIndexRepairs,
   OnboardingDoctorVouches, SessionIsEach, PTL

\* FilesystemCache::get returns only what was put under the key it was asked for.
THEOREM SessionHitIsPut == SessionSpec => []HitIsPut
<1>1. CacheFacts!EntryCacheAssumption
  BY SessionAssumption, SameStart
<1>2. CacheFacts!Spec => []CacheFacts!HitIsPut
  BY <1>1, CacheFacts!CacheHitIsPut
<1>3. CacheFacts!HitIsPut => HitIsPut
  BY SameFacts
<1> QED
  BY <1>2, <1>3, SessionIsEach, PTL

\* FilesystemCache::invalidate and clear leave nothing they should take when nothing is
\* put meanwhile.
THEOREM SessionSweepIsClean == SessionSpec => []SweepIsClean
<1>1. CacheFacts!EntryCacheAssumption
  BY SessionAssumption, SameStart
<1>2. CacheFacts!Spec => []CacheFacts!SweepIsClean
  BY <1>1, CacheFacts!CacheSweepIsClean
<1>3. CacheFacts!SweepIsClean => SweepIsClean
  BY SameFacts
<1> QED
  BY <1>2, <1>3, SessionIsEach, PTL

\* RawStore::expand returns the output its process stored, but for the exceptions that
\* ReturnsTheOutput names.
THEOREM SessionExpansion == SessionSpec => ExpansionIsTheOutput
<1>1. Raw!RawStoreAssumption
  BY SessionAssumption
<1>2. Raw!Spec => ExpansionIsTheOutput
  BY <1>1, RawStoreExpansion
<1> QED
  BY <1>2, SessionIsEach, PTL
=============================================================================
