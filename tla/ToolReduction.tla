--------------------------- MODULE ToolReduction ---------------------------
(***************************************************************************)
(* tpt-weave-tools: the deterministic reducers that turn the output of a   *)
(* tool into a few counted facts.  Each is a fold over the lines of the    *)
(* output.  A line is a record whose `tag` is the form the reducer tells   *)
(* it apart by, with the numbers, names or letters it extracts from it;    *)
(* the text of a line is left out.                                         *)
(*                                                                         *)
(* A reduction is [verdict, counts, listed, more, status]: the OK, FAILURE *)
(* or nothing that its header says, the counters, the entries shown below  *)
(* them, how many more there are, and the status the caller sees.          *)
(***************************************************************************)
EXTENDS Integers, Sequences, FiniteSets, SequencesExt

CONSTANT Cap \* entries a reducer lists; 15, 20 or 50 in the code, by reducer

ASSUME CapAssumption == Cap \in Nat

(* What every reducer shares.                                              *)

CountTag(lines, tags) == Cardinality({i \in DOMAIN lines : lines[i].tag \in tags})

\* "... +N more" stands for the entries beyond the cap.
Shown(items) == SubSeq(items, 1, IF Len(items) < Cap THEN Len(items) ELSE Cap)
More(items)  == Len(items) - Len(Shown(items))

Reduction(verdict, counts, items, status) ==
  [verdict |-> verdict, counts |-> counts, listed |-> Shown(items), more |-> More(items),
   status |-> status]

ExitStatus(exit) == IF exit = 0 THEN "success" ELSE "failure"

\* A reducer that counts failures itself needs no exit code to report one.
JudgedStatus(failures, exit) == IF failures # 0 THEN "failure" ELSE ExitStatus(exit)

\* Mutant of Verdict: the header is about the failures counted alone.
VerdictOfFailures(failures, exit) == IF failures = 0 THEN "OK" ELSE "FAILURE"

\* A header says OK when nothing failed and the tool says so.
Verdict(failures, exit) == IF failures = 0 /\ exit = 0 THEN "OK" ELSE "FAILURE"

(* cargo check, clippy, build, and rustc diagnostics in general.           *)

\* A location belongs to the diagnostic above it, the first one only.
DiagnosticLine(found, l) ==
  CASE l.tag \in {"error", "warning"} -> Append(found, [severity |-> l.tag, at |-> 0])
    [] l.tag = "arrow" /\ found # <<>> /\ Last(found).at = 0 ->
         [found EXCEPT ![Len(found)].at = l.at]
    [] OTHER -> found

Diagnostics(lines) == FoldLeft(DiagnosticLine, <<>>, lines)

DiagnosticOutput(lines, exit) ==
  LET found    == Diagnostics(lines)
      OfSort(s) == Len(SelectSeq(found, LAMBDA d : d.severity = s))
  IN Reduction(Verdict(OfSort("error"), exit),
               [errors |-> OfSort("error"), warnings |-> OfSort("warning")],
               found,
               JudgedStatus(OfSort("error"), exit))

(* cargo test.  libtest prints `failures:` twice: first above the captured *)
(* output of the failing tests, then above the list of their names.        *)

TestState == [passed |-> 0, failed |-> 0, ignored |-> 0, harnesses |-> 0,
              names |-> <<>>, inFailures |-> FALSE, inDetail |-> FALSE]

\* Mutant of TestLine: the output of a failing test is read like the list of names.
TestLineOfAnyPart(s, l) ==
  CASE l.tag = "result" ->
         [s EXCEPT !.passed = @ + l.passed, !.failed = @ + l.failed,
                   !.ignored = @ + l.ignored, !.harnesses = @ + 1, !.inFailures = FALSE]
    [] l.tag = "failures" -> [s EXCEPT !.inFailures = TRUE]
    [] l.tag = "indented" /\ s.inFailures -> [s EXCEPT !.names = Append(@, l.name)]
    [] OTHER -> s

TestLine(s, l) ==
  IF l.tag = "result"
  THEN [s EXCEPT !.passed = @ + l.passed, !.failed = @ + l.failed, !.ignored = @ + l.ignored,
                 !.harnesses = @ + 1, !.inFailures = FALSE, !.inDetail = FALSE]
  ELSE IF l.tag = "failures" THEN [s EXCEPT !.inFailures = TRUE, !.inDetail = FALSE]
  ELSE IF l.tag = "detail" /\ s.inFailures THEN [s EXCEPT !.inDetail = TRUE]
  ELSE IF ~s.inFailures \/ s.inDetail \/ l.tag = "blank" THEN s
  ELSE IF l.tag = "indented" THEN [s EXCEPT !.names = Append(@, l.name)]
  ELSE [s EXCEPT !.inFailures = FALSE]

\* A line that only quotes `failures:` makes the output a harness output, too.
IsHarness(lines) == \E i \in DOMAIN lines : lines[i].tag \in {"result", "failures", "quote"}

TestOutput(lines, exit) ==
  IF ~IsHarness(lines) THEN DiagnosticOutput(lines, exit)
  ELSE LET s == FoldLeft(TestLine, TestState, lines)
       IN Reduction(Verdict(s.failed, exit),
                    [passed |-> s.passed, failed |-> s.failed,
                     ignored |-> s.ignored, harnesses |-> s.harnesses],
                    s.names,
                    JudgedStatus(s.failed, exit))

(* cargo fmt --check: each file once, however many differences it has.     *)

FmtLine(files, l) ==
  IF l.tag = "diffIn" /\ l.name \notin ToSet(files) THEN Append(files, l.name) ELSE files

FmtOutput(lines, exit) ==
  LET files == FoldLeft(FmtLine, <<>>, lines)
  IN Reduction(Verdict(Len(files), exit), [files |-> Len(files)], files,
               JudgedStatus(Len(files), exit))

(* git status, porcelain v1 and long form.                                 *)

\* The category of a porcelain XY pair, by the priority the code gives the letters.
Classify(x, y) ==
  LET Has(c) == x = c \/ y = c
  IN IF x = "?" /\ y = "?" THEN "untracked"
     ELSE IF Has("U") \/ (x = "A" /\ y = "A") \/ (x = "D" /\ y = "D") THEN "other"
     ELSE IF Has("A") THEN "added"
     ELSE IF Has("D") THEN "deleted"
     ELSE IF Has("R") \/ Has("C") THEN "renamed"
     ELSE IF Has("M") /\ ~Has("T") THEN "modified"
     ELSE "other"

Categories == {"modified", "added", "deleted", "renamed", "untracked", "other"}

StatusEntry(s, category, file) ==
  [s EXCEPT !.counts[category] = @ + 1, !.files = Append(@, file)]

StatusLine(s, l) ==
  CASE l.tag = "porcelain" ->
         [StatusEntry(s, Classify(l.x, l.y), l.name) EXCEPT !.untracked = FALSE]
    [] l.tag = "untracked" -> [s EXCEPT !.untracked = TRUE]
    [] l.tag = "blank"     -> [s EXCEPT !.untracked = FALSE]
    [] l.tag = "hint"      -> s
    [] l.tag = "indented"  -> IF s.untracked THEN StatusEntry(s, "untracked", l.name) ELSE s
    [] l.tag = "long"      ->
         \* indented under `Untracked files:` it is a path like any other
         IF s.untracked /\ l.indent THEN StatusEntry(s, "untracked", l.name)
         ELSE [StatusEntry(s, l.category, l.name) EXCEPT !.untracked = FALSE]
    [] OTHER               -> [s EXCEPT !.untracked = FALSE]

StatusOutput(lines, exit) ==
  LET s == FoldLeft(StatusLine,
                    [counts |-> [c \in Categories |-> 0], files |-> <<>>, untracked |-> FALSE],
                    lines)
  IN Reduction("none", s.counts, s.files, ExitStatus(exit))

(* git diff: lines added and removed, by file.                             *)

\* Mutant of DiffLine: the headers of a file count as content.
DiffLineOfAnyPart(s, l) ==
  CASE l.tag = "file" -> [s EXCEPT !.at = l.name, !.seen = @ \cup {l.name}]
    [] l.tag = "body" /\ s.at # "" /\ l.sign = "+" -> [s EXCEPT !.plus = Append(@, s.at)]
    [] l.tag = "body" /\ s.at # "" /\ l.sign = "-" -> [s EXCEPT !.minus = Append(@, s.at)]
    [] OTHER -> s

\* Headers are told by their first four characters, wherever they stand:
\* a content line that begins with `++ ` or `-- ` looks like one.
DiffLine(s, l) ==
  CASE l.tag = "file" -> [s EXCEPT !.at = l.name, !.seen = @ \cup {l.name}]
    [] l.tag = "body" /\ s.at # "" /\ ~l.like ->
         (CASE l.sign = "+" -> [s EXCEPT !.plus = Append(@, s.at)]
            [] l.sign = "-" -> [s EXCEPT !.minus = Append(@, s.at)]
            [] OTHER -> s)
    [] OTHER -> s

OfFile(marks, f) == Cardinality({i \in DOMAIN marks : marks[i] = f})

DiffOutput(lines, exit) ==
  LET s == FoldLeft(DiffLine, [at |-> "", seen |-> {}, plus |-> <<>>, minus |-> <<>>], lines)
  IN Reduction("none",
               [files     |-> Cardinality(s.seen),
                additions |-> Len(s.plus), deletions |-> Len(s.minus),
                rows      |-> {<<f, OfFile(s.plus, f), OfFile(s.minus, f)>> : f \in s.seen}],
               SetToSeq(s.seen),
               \* exit 1 only says that there are changes
               IF exit <= 1 THEN "success" ELSE "failure")

(* Search results, file listings, logs and JSON documents.                 *)

SearchOutput(lines, exit) ==
  LET files == {lines[i].name : i \in {j \in DOMAIN lines : lines[j].tag = "match"}}
  IN Reduction("none",
               [matches |-> CountTag(lines, {"match"}), files |-> Cardinality(files),
                other |-> Len(lines) - CountTag(lines, {"match", "blank"})],
               SetToSeq(files), ExitStatus(exit))

ListingOutput(lines, exit) ==
  LET top == {lines[i].top : i \in {j \in DOMAIN lines : lines[j].tag \in {"path", "dir"}}}
  IN Reduction("none",
               [files |-> CountTag(lines, {"path"}), directories |-> CountTag(lines, {"dir"})],
               SetToSeq(top), ExitStatus(exit))

LogOutput(lines, exit) ==
  LET errors == SelectSeq(lines, LAMBDA l : l.tag = "error")
  IN Reduction("none",
               [lines |-> Len(lines) - CountTag(lines, {"blank"}),
                errors |-> Len(errors), warnings |-> CountTag(lines, {"warning"})],
               errors, ExitStatus(exit))

\* An empty document is a success whatever the exit code; an invalid one is a failure.
JsonOutput(lines, exit) ==
  IF CountTag(lines, {"blank"}) = Len(lines)
  THEN Reduction("none", [entries |-> 0], <<>>, "success")
  ELSE IF CountTag(lines, {"invalid"}) > 0
  THEN Reduction("FAILURE", [entries |-> 0], <<>>, "failure")
  ELSE LET entries == SelectSeq(lines, LAMBDA l : l.tag # "blank")
       IN Reduction("none", [entries |-> Len(entries)], entries, ExitStatus(exit))

ToolKinds == {"CargoTest", "CargoCheck", "CargoClippy", "CargoBuild", "Diagnostics", "CargoFmt",
              "GitStatus", "GitDiff", "FileListing", "Search", "Json", "Log"}

Reduce(kind, lines, exit) ==
  CASE kind = "CargoTest"   -> TestOutput(lines, exit)
    [] kind \in {"CargoCheck", "CargoClippy", "CargoBuild", "Diagnostics"} ->
         DiagnosticOutput(lines, exit)
    [] kind = "CargoFmt"    -> FmtOutput(lines, exit)
    [] kind = "GitStatus"   -> StatusOutput(lines, exit)
    [] kind = "GitDiff"     -> DiffOutput(lines, exit)
    [] kind = "FileListing" -> ListingOutput(lines, exit)
    [] kind = "Search"      -> SearchOutput(lines, exit)
    [] kind = "Json"        -> JsonOutput(lines, exit)
    [] kind = "Log"         -> LogOutput(lines, exit)
=============================================================================
