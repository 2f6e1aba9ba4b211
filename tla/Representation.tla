--------------------------- MODULE Representation ---------------------------
(***************************************************************************)
(* tpt-weave-rust's skeletons and tpt-weave-context's expansions: files    *)
(* rendered at a level, with the bodies that a selection keeps.            *)
(*                                                                         *)
(* `body` of an item is [is, lead, tail, gap, aligned].  Non-ASCII         *)
(* characters before a brace on its line put its offset off, for columns   *)
(* count characters and offsets bytes: the offsets of a body lie `lead`    *)
(* bytes before its opening brace and `tail` bytes before its end, on      *)
(* character boundaries or not (`aligned`).  It `is` "none", "empty" (what *)
(* lies between the offsets is `{}`) or "block"; `gap` is how many blanks  *)
(* stand before the opening brace.                                         *)
(***************************************************************************)
EXTENDS SourceGraph

CONSTANTS
  InTests(_),       \* the paths inside a `tests` directory
  Stem(_),          \* the name of a file without its directories and extension
  StillParses(_, _) \* whether a file parses after cuts some of which have wrong ends

Metadata       == 0
Symbols        == 1
Signatures     == 2
Skeleton       == 3
Implementation == 4
Full           == 5

(* skeleton.rs: the walk is a second one over the items, with identifiers of its own. *)

\* The walker knows the file by the package and prefix it was given.
WalkerKey(f, package, prefix, i) ==
  KeyOf(IdOf([f EXCEPT !.package = package, !.prefix = prefix], i))

HasBody(f, i) == f.items[i].kind \in {"fn", "method"} /\ f.items[i].body.is # "none"

Exact(body) == body.lead = 0 /\ body.tail = 0

\* The bodies an Op::Cut is recorded for: offsets off a boundary are passed over.
Cuts(f, package, prefix, keep) ==
  {i \in DOMAIN f.items :
     /\ HasBody(f, i) /\ f.items[i].body.aligned /\ f.items[i].body.is # "empty"
     /\ WalkerKey(f, package, prefix, i) \notin keep}

\* What is cut lies between the offsets.  When they are off, code before the body may go with
\* it and the end of the body may stay; the result is delivered when it parses.
SkeletonWith(f, package, prefix, keep) ==
  LET cuts == Cuts(f, package, prefix, keep)
  IN [ok      |-> (\A i \in cuts : Exact(f.items[i].body)) \/ StillParses(f, cuts),
      shown   |-> {i \in DOMAIN f.items : HasBody(f, i)}
                    \ {i \in cuts : f.items[i].body.tail = 0},
      clipped |-> {i \in cuts : f.items[i].body.lead > f.items[i].body.gap}]

(* levels.rs.                                                              *)

FileRecords(g, path) == Among(g.symbols, {s \in ToSet(g.symbols) : s.file = path})

\* What stands first in source order; of those that stand there, the first by key, for the
\* sort by line and column is stable and the records of a graph are in the order of their keys.
Foremost(records) ==
  Among(records, {s \in ToSet(records) : \A t \in ToSet(records) : s.pos <= t.pos})[1]

PackageOf(g, path) ==
  IF FileRecords(g, path) = <<>> THEN "" ELSE Foremost(FileRecords(g, path)).id.package

PrefixOf(g, path) ==
  LET top == Among(FileRecords(g, path), {s \in ToSet(g.symbols) : s.parent = NoKey})
  IN IF top = <<>> THEN <<>> ELSE Foremost(top).id.module

\* A selection only shows at level 4; a level below 3 shows no body at all.
RepresentFile(g, f, level, selection) ==
  CASE level \in {Skeleton, Implementation} ->
         SkeletonWith(f, PackageOf(g, f.path), PrefixOf(g, f.path),
                      IF level = Skeleton THEN {} ELSE selection)
    [] level = Full -> [ok |-> TRUE, shown |-> {i \in DOMAIN f.items : HasBody(f, i)},
                        clipped |-> {}]
    [] OTHER        -> [ok |-> TRUE, shown |-> {}, clipped |-> {}]

(* expand.rs.                                                              *)

\* Mutant of SelectionFor: bodies are kept above the implementation level only.
SelectionAbove(level, records) ==
  IF level > Implementation THEN {KeyOf(s.id) : s \in records} ELSE {}

SelectionFor(level, records) ==
  IF level >= Implementation THEN {KeyOf(s.id) : s \in records} ELSE {}

HasSource(files, s) == \E f \in ToSet(files) : f.path = s.file

\* Every file of the records; one without a source or that cannot be rendered
\* fails the expansion.  Lists of symbols or signatures need no source.
Represent(g, files, records, level, selection) ==
  LET wanted == {f \in ToSet(files) : \E s \in records : s.file = f.path}
  IN [ok    |-> /\ level \in {Symbols, Signatures} \/ \A s \in records : HasSource(files, s)
                /\ \A f \in wanted : RepresentFile(g, f, level, selection).ok,
      files |-> {LET r == RepresentFile(g, f, level, selection)
                 IN <<f.path, r.shown, r.clipped>> : f \in wanted}]

Failed == [ok |-> FALSE, files |-> {}]

RecordsOf(g, keys) == {s \in ToSet(g.symbols) : KeyOf(s.id) \in keys}

\* The subject is the first record under its key, in the order of the walk.
ExpandSymbol(g, files, key, level) ==
  IF key \notin Keys(g) THEN Failed
  ELSE Represent(g, files, {Symbol(g, key)}, level, SelectionFor(level, {Symbol(g, key)}))

ExpandModule(g, files, package, module, level) ==
  LET members == {s \in ToSet(g.symbols) : s.id.package = package /\ IsPrefix(module, s.id.module)}
  IN IF members = {} THEN Failed
     ELSE Represent(g, files, members, level, SelectionFor(level, members))

\* From level 3 up the files that have a source are shown, with the bodies of what
\* is public.  A package is known by its symbols here; one that cargo only names
\* has nothing to show.
ExpandDependency(g, files, package, level) ==
  LET api == {s \in PublicApi(g, package) : s.id.kind # "module"}
  IN IF ~\E s \in ToSet(g.symbols) : s.id.package = package THEN Failed
     ELSE IF level < Skeleton THEN [ok |-> TRUE, files |-> {}]
     ELSE Represent(g, files, {s \in api : HasSource(files, s)}, level, SelectionFor(level, api))

\* Tests in the subject's file, tests that call it, and tests in a file of its name.
TestKeys(g, key) ==
  LET subject == Symbol(g, key)
  IN {KeyOf(s.id) : s \in {t \in ToSet(g.symbols) :
        /\ t.test
        /\ \/ t.file = subject.file
           \/ KeyOf(t.id) \in CallersOf(g, key) /\ Symbol(g, KeyOf(t.id)).test
           \/ InTests(t.file) /\ Stem(t.file) = Stem(subject.file)}}

\* The subject is selected too, at every level, but its file is shown only with a test in it.
ExpandTest(g, files, key, level) ==
  IF key \notin Keys(g) THEN Failed
  ELSE LET tests == RecordsOf(g, TestKeys(g, key))
       IN Represent(g, files, tests, level, SelectionFor(level, tests) \cup {key})

ExpandRelated(g, files, related, level) ==
  Represent(g, files, RecordsOf(g, related), level, SelectionFor(level, RecordsOf(g, related)))
=============================================================================
