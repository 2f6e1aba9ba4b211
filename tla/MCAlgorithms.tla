--------------------------- MODULE MCAlgorithms ---------------------------
(***************************************************************************)
(* The pure parts of tpt-weave over bounded inputs: CommandLine,           *)
(* ToolReduction, SourceGraph and Representation.  A behaviour picks one   *)
(* input and stops; the invariants compare what the operators make of it   *)
(* with a definition that does not follow the code.                        *)
(***************************************************************************)
EXTENDS ToolReduction, Relation

CONSTANTS IsBudget(_), IsNumeral(_, _), IsDash(_),
          InTests(_), Stem(_), StillParses(_, _), KeyBefore(_, _)

Cli == INSTANCE CommandLine
Src == INSTANCE Representation

VARIABLE probe

SeqsUpTo(S, n) == UNION {[1..m -> S] : m \in 0..n}

-----------------------------------------------------------------------------
(* Command lines: a line is right when it can be cut into phrases that are *)
(* right where they stand.  A cut is the set of the positions of the words *)
(* that end a phrase.                                                      *)

FlagWords    == UNION {DOMAIN Cli!Aliases, Cli!Switches, DOMAIN Cli!Replaces, DOMAIN Cli!Marks,
                       DOMAIN Cli!Valued, {"--path"}}
CommandWords == UNION {Cli!Alone, Cli!WithArg, DOMAIN Cli!Actions}

\* Every flag begins with a dash, and no command does.
ASSUME DashAssumption == /\ \A w \in FlagWords : IsDash(w)
                         /\ \A w \in CommandWords : ~IsDash(w)

MCIsBudget(w)     == w \in {"7", "03"}
MCIsNumeral(w, n) == <<w, n>> \in {<<"7", 7>>, <<"03", 3>>}
MCIsDash(w)       == w \in FlagWords

Words == {"--json", "-v", "-h", "--path", "--force", "--budget", "7", "03", "--level", "--max-level",
          "skeleton", "cache", "clear", "init", "experiment", "accuracy", "x"}
Beginnings == {<<>>, <<"context", "x">>, <<"init">>}

IsCommand(ph) ==
  \/ Len(ph) = 1 /\ ph[1] \in Cli!Alone \cup {"cache"}
  \/ Len(ph) = 2 /\ ph[1] \in Cli!WithArg
  \/ Len(ph) = 2 /\ ph[1] \in DOMAIN Cli!Actions /\ ph[2] \in Cli!Actions[ph[1]] \ {"accuracy"}
  \/ Len(ph) = 3 /\ ph[1] = "experiment" /\ ph[2] = "accuracy"
IsReplacement(ph) == Len(ph) = 1 /\ Cli!Spelled(ph[1]) \in DOMAIN Cli!Replaces
IsGlobal(ph) == \/ Len(ph) = 1 /\ Cli!Spelled(ph[1]) \in Cli!Switches
                \/ Len(ph) = 2 /\ ph[1] = "--path"
IsOption(ph) == \/ Len(ph) = 1 /\ ph[1] \in DOMAIN Cli!Marks
                \/ /\ Len(ph) = 2 /\ Cli!Spelled(ph[1]) \in DOMAIN Cli!Valued
                   /\ Cli!ValueOk(Cli!Spelled(ph[1]), ph[2])

NamesCommand(ph) == IsCommand(ph) \/ IsReplacement(ph)
CommandOf(ph)    == IF IsCommand(ph) THEN ph[1] ELSE Cli!Replaces[Cli!Spelled(ph[1])]
OwnersOf(ph)     == IF Len(ph) = 1 THEN Cli!Marks[ph[1]] ELSE Cli!Valued[Cli!Spelled(ph[1])]
ArgsOf(ph)       == IF ph = <<"cache">> THEN <<"status">> ELSE Tail(ph)

\* The last of the positions before e, and the phrase that ends at e.
Before(ends, e) == Max({0} \cup {d \in ends : d < e})
Phrase(words, ends, e) == SubSeq(words, Before(ends, e) + 1, e)

\* Where the command that holds at position p is named; 0: nowhere yet.
NamedAt(words, ends, p) ==
  Max({0} \cup {e \in ends : e <= p /\ NamesCommand(Phrase(words, ends, e))})
CommandAt(words, ends, p) ==
  LET named == NamedAt(words, ends, p)
  IN IF named = 0 THEN "" ELSE CommandOf(Phrase(words, ends, named))

RightAt(words, ends, e) ==
  LET ph == Phrase(words, ends, e)
      command == CommandAt(words, ends, Before(ends, e))
  IN \/ IsGlobal(ph) \/ IsReplacement(ph)
     \/ IsCommand(ph) /\ command = "" /\ (ph = <<"cache">> => e = Len(words))
     \/ IsOption(ph) /\ command \in OwnersOf(ph)

\* The ways to cut a line into phrases that are right.
Cuts(words) == {ends \in SUBSET DOMAIN words : /\ words # <<>> => Len(words) \in ends
                                               /\ \A e \in ends : RightAt(words, ends, e)}

\* What the phrases that end at the positions set: the last of a name counts.
NameAt(words, ends, e) == Cli!Spelled(Phrase(words, ends, e)[1])
Given(ph) == IF Len(ph) = 1 THEN Cli!On ELSE Cli!ValueOf(Cli!Spelled(ph[1]), ph[2])
SettingsOf(words, ends, given) ==
  [o \in {NameAt(words, ends, e) : e \in given} |->
     Given(Phrase(words, ends, Max({e \in given : NameAt(words, ends, e) = o})))]

ArgsAt(words, ends, p) ==
  LET named == NamedAt(words, ends, p)
  IN IF named = 0 THEN <<>> ELSE ArgsOf(Phrase(words, ends, named))

\* The options since the command was named, and the globals.
OptionsAt(words, ends, p) ==
  SettingsOf(words, ends, {e \in ends : /\ NamedAt(words, ends, p) < e /\ e <= p
                                        /\ IsOption(Phrase(words, ends, e))})
GlobalsAt(words, ends, p) ==
  SettingsOf(words, ends, {e \in ends : e <= p /\ IsGlobal(Phrase(words, ends, e))})

Reads(cli, words, ends) ==
  LET n == Len(words)
      command == CommandAt(words, ends, n)
  IN /\ cli.command = IF command = "" THEN "help" ELSE command
     /\ cli.args = ArgsAt(words, ends, n)
     /\ cli.options = OptionsAt(words, ends, n)
     /\ cli.globals = GlobalsAt(words, ends, n)

\* The line is parsed just when it can be cut, and read as its only cut says.
IsReadRight(words) ==
  LET cli == Cli!Parse(words)
  IN IF cli.usage THEN Cuts(words) = {}
     ELSE /\ Cardinality(Cuts(words)) = 1
          /\ \A ends \in Cuts(words) : Reads(cli, words, ends)

(* The parser never looks back, and still takes exactly the lines of the   *)
(* grammar, each in its only reading: options belong to the last command,  *)
(* `--help` after them drops them, and a value may look like a flag.       *)
ParsesTheGrammar == probe.part = "line" => IsReadRight(probe.words)

-----------------------------------------------------------------------------
(* Tool output.                                                            *)

Line(tag) == [tag |-> tag]
Named(tag, name) == [tag |-> tag, name |-> name]

\* What libtest prints for a harness, with what its failing tests printed in between.
Harness(passed, failing, captured) ==
  LET names  == SetToSeq(failing)
      Detail == FlattenSeq([i \in DOMAIN names |->
                              <<Line("detail")>> \o captured \o <<Line("blank")>>])
      Names  == [i \in DOMAIN names |-> Named("indented", names[i])]
  IN <<Line("plain"), Line("blank")>>
     \o (IF failing = {} THEN <<>>
         ELSE <<Line("failures"), Line("blank")>> \o Detail
              \o <<Line("failures")>> \o Names \o <<Line("blank")>>)
     \o <<[tag |-> "result", passed |-> passed, failed |-> Cardinality(failing), ignored |-> 1],
          Line("blank")>>

\* A test may print anything but the two lines the reducer lives by.
Captured == SeqsUpTo({Line("plain"), Line("blank"), Line("error"), Named("indented", "c")}, 2)
Truths   == [passed : {0, 2}, failing : SUBSET {"a", "b"}]

(* Whatever failing tests print, the summary of `cargo test` names the     *)
(* tests that failed, counts over all harnesses, and fails when one did.   *)
TestSummaryIsTrue ==
  probe.part = "tests" =>
    LET r == Reduce("CargoTest", Harness(probe.one.passed, probe.one.failing, probe.captured)
                                 \o Harness(probe.two.passed, probe.two.failing, probe.captured),
                    probe.exit)
        failed == Cardinality(probe.one.failing) + Cardinality(probe.two.failing)
    IN /\ r.counts = [passed |-> probe.one.passed + probe.two.passed, failed |-> failed,
                      ignored |-> 2, harnesses |-> 2]
       /\ ToSet(r.listed) \subseteq probe.one.failing \cup probe.two.failing
       /\ Len(r.listed) + r.more = failed
       /\ r.status = "success" <=> failed = 0 /\ probe.exit = 0

AnyLine == {Line("plain"), Line("blank"), Line("error"), Line("warning"), Line("failures"),
            Line("quote"), Line("invalid"), Named("indented", "a"), Named("diffIn", "a"),
            Named("file", "a"), Named("match", "a"), [tag |-> "path", top |-> "a"],
            [tag |-> "arrow", at |-> 1], [tag |-> "body", sign |-> "+", like |-> FALSE],
            [tag |-> "porcelain", x |-> "M", y |-> " ", name |-> "a"],
            [tag |-> "result", passed |-> 1, failed |-> 1, ignored |-> 0]}

(* The header a reader sees never contradicts the status a caller sees,    *)
(* and a tool that exits with an error is not reported as a success, but   *)
(* for a diff (only above 1 is it an error there) and an empty document.   *)
StatusAgrees(kind, lines, exit) ==
  LET r == Reduce(kind, lines, exit)
  IN /\ r.verdict = "OK" => r.status = "success"
     /\ r.verdict = "FAILURE" => r.status = "failure"
     /\ r.status = "success" => \/ exit = 0
                                \/ kind = "GitDiff" /\ exit <= 1
                                \/ kind = "Json" /\ \A i \in DOMAIN lines :
                                                       lines[i].tag = "blank"

\* The header and the status of every reduction agree (see StatusAgrees).
StatusAgreesWithHeader ==
  probe.part = "output" => StatusAgrees(probe.kind, probe.lines, probe.exit)

\* A file of a diff: its headers, and then its lines.
Content == [tag : {"body"}, sign : {"+", "-", " "}, like : BOOLEAN]
FileDiff(name, content) ==
  <<Named("file", name), Line("plain"), [tag |-> "body", sign |-> "-", like |-> TRUE],
    [tag |-> "body", sign |-> "+", like |-> TRUE], Line("plain")>> \o content

Signed(content, s) == Cardinality({i \in DOMAIN content : content[i].sign = s /\ ~content[i].like})

(* The counts of a diff are those of its content, by file and in all, the  *)
(* lines apart that look like the headers of a file.                       *)
DiffCountsAreTrue ==
  probe.part = "diff" =>
    LET r == Reduce("GitDiff", FileDiff("a", probe.a) \o FileDiff("b", probe.b), 0)
    IN /\ r.counts.rows = {<<"a", Signed(probe.a, "+"), Signed(probe.a, "-")>>,
                           <<"b", Signed(probe.b, "+"), Signed(probe.b, "-")>>}
       /\ r.counts.additions = Signed(probe.a, "+") + Signed(probe.b, "+")
       /\ r.counts.deletions = Signed(probe.a, "-") + Signed(probe.b, "-")

-----------------------------------------------------------------------------
(* Sources.  A member package's directory may lie in that of the root      *)
(* package: its files are then parsed for both.  The walk comes to `foo`   *)
(* first, the keys of `foo-core` stand first.                              *)

MCInTests(path) == path = "tests/b"
MCStem(path)    == IF path = "a" THEN "a" ELSE "b"

\* Bodies on lines of ASCII; whose offsets fall in a character; with characters of two bytes
\* before their opening brace, one and three of them; and on one line with such a character
\* before it.
Block     == [is |-> "block", lead |-> 0, tail |-> 0, gap |-> 1, aligned |-> TRUE]
NoBody    == [Block EXCEPT !.is = "none"]
EmptyBody == [Block EXCEPT !.is = "empty"]
Straddled == [Block EXCEPT !.lead = 1, !.tail = 1, !.aligned = FALSE]
Padded    == [Block EXCEPT !.lead = 1]
Wide      == [Block EXCEPT !.lead = 3]
OneLine   == [Block EXCEPT !.lead = 1, !.tail = 1]

\* A closing brace that stays behind is one too many.
MCStillParses(f, cuts) == \A i \in cuts : f.items[i].body.tail = 0

Item(kind, name, up, pub, uses, body) ==
  [kind |-> kind, name |-> name, trait |-> "", up |-> up, pub |-> pub, test |-> FALSE,
   uses |-> uses, body |-> body]
Use(name, form) == [name |-> name, form |-> form]

Templates ==
  { <<>>,
    << Item("fn", "f", 0, TRUE, {Use("g", "call")}, Block) >>,
    << Item("fn", "g", 0, FALSE, {Use("f", "path"), Use("S", "path")}, OneLine),
       Item("use", "x", 0, FALSE, {}, NoBody) >>,
    << Item("mod", "m", 0, TRUE, {}, NoBody),
       Item("fn", "f", 1, FALSE, {}, EmptyBody),
       [Item("fn", "t", 1, FALSE, {Use("f", "call"), Use("go", "method")}, Block)
          EXCEPT !.test = TRUE] >>,
    << Item("struct", "S", 0, TRUE, {}, NoBody),
       Item("impl", "S", 0, FALSE, {}, NoBody),
       Item("method", "go", 2, TRUE, {Use("g", "call"), Use("g", "path")}, Padded) >>,
    << Item("trait", "T", 0, TRUE, {}, NoBody),
       Item("method", "go", 1, FALSE, {}, NoBody),
       [Item("impl", "S", 0, FALSE, {}, NoBody) EXCEPT !.trait = "T"],
       Item("method", "go", 3, FALSE, {Use("T", "path")}, Block),
       Item("fn", "g", 0, TRUE, {Use("go", "method")}, Wide) >>,
    << Item("fn", "f", 0, FALSE, {Use("m", "path")}, Straddled),
       Item("const", "S", 0, TRUE, {}, NoBody) >> }

File(path, package, items) == [path |-> path, package |-> package, prefix |-> <<>>, items |-> items]
Tree(a, b) == << File("a", "foo", a), File("tests/b", "foo", b), File("tests/b", "foo-core", b) >>

\* The keys of the trees, and the order of the strings they are: `foo-core::` stands before
\* `foo::`, `<S as T>` before names, capitals before small letters, and `#` before `::`.
KeysIn(f) == {Src!KeyOf(Src!IdOf(f, i)) : i \in {j \in DOMAIN f.items : Src!IsSymbol(f, j)}}
TreeKeys  == UNION {KeysIn(f) : f \in UNION {ToSet(Tree(t, t)) : t \in Templates}}

Alphabet == <<"foo-core", "foo", "const", "fn", "impl", "method", "module", "struct", "trait",
              "as", "S", "T", "f", "g", "go", "m", "t">>
Spelt(key) == <<key[1]>> \o key[2] \o <<key[3]>>
IsEarlier(v, w) == \E i, j \in DOMAIN Alphabet : i < j /\ Alphabet[i] = v /\ Alphabet[j] = w
IsBefore(k, l) ==
  \E n \in DOMAIN Spelt(k) \cap DOMAIN Spelt(l) :
    /\ SubSeq(Spelt(k), 1, n - 1) = SubSeq(Spelt(l), 1, n - 1)
    /\ IsEarlier(Spelt(k)[n], Spelt(l)[n])
TreeOrder == {p \in TreeKeys \X TreeKeys : IsBefore(p[1], p[2])}

MCKeyBefore(k, l) == <<k, l>> \in TreeOrder

IsOrder(keys) == IsStrictlyTotallyOrderedUnder(KeyBefore, keys)

\* Strings are ordered.
ASSUME KeyOrderAssumption == IsOrder(TreeKeys)

(* A graph built on a previous one is the graph built from nothing, when   *)
(* every path whose text changed is among the changed ones.                *)
IncrementalIsFull ==
  probe.part = "rebuild" =>
    Src!Build(probe.new, Src!BuildAll(probe.old), probe.changed) = Src!BuildAll(probe.new)

\* The symbols a use may mean: those that answer to it and are not the user.
Meant(g, f, i, u) == {s \in ToSet(g.symbols) : /\ Src!Answers(s.id, u.name)
                                               /\ Src!KeyOf(s.id) # Src!KeyOf(Src!IdOf(f, i))}

Users(f) == {i \in DOMAIN f.items : Src!IsSymbol(f, i) /\ f.items[i].kind \notin {"mod", "macro"}}

\* The uses of the item i of f that are not of its own name.
UsesBy(f, i) == {u \in Src!UsesOf(f, i) : u.name # Src!OwnName(f, i)}

\* The edge e may stand for the use u.
StandsFor(g, e, f, i, u) == /\ e.from = Src!KeyOf(Src!IdOf(f, i))
                            /\ \E s \in Meant(g, f, i, u) : e.to = Src!KeyOf(s.id)

\* No use is lost that a symbol answers to and whose user the graph has.
NoneIsLost(g, files) ==
  \A f \in ToSet(files) : \A i \in Users(f) : \A u \in UsesBy(f, i) :
    Src!KeyOf(Src!IdOf(f, i)) \in Src!Keys(g) /\ Meant(g, f, i, u) # {} =>
      \E e \in g.references : StandsFor(g, e, f, i, u)

NoneIsInvented(g, files) ==
  \A e \in g.references : \E f \in ToSet(files) : \E i \in Users(f) : \E u \in UsesBy(f, i) :
    StandsFor(g, e, f, i, u)

\* The graph has every user, and names no symbol and no module that it does not have.
Closed(g, files) ==
  /\ Src!Validate(g)
  /\ \A f \in ToSet(files) : \A i \in Users(f) : Src!KeyOf(Src!IdOf(f, i)) \in Src!Keys(g)
  /\ \A path \in {s.id.module : s \in ToSet(g.symbols)} \cup {n.parent : n \in g.modules} :
       path # <<>> => \E n \in g.modules : n.path = path

(* No use is lost and none is invented: an identifier that some symbol     *)
(* answers to gives an edge to one of them, unless it is the user's own    *)
(* name, and every edge comes from such a use, in a graph that `save`      *)
(* accepts.                                                                *)
MentionsAreResolved ==
  probe.part = "tree" =>
    LET g == Src!BuildAll(probe.files)
    IN Closed(g, probe.files) /\ NoneIsLost(g, probe.files) /\ NoneIsInvented(g, probe.files)

\* The bodies a skeleton leaves out when it is delivered: those whose offsets are right at
\* their end.
Removable(f) ==
  {i \in DOMAIN f.items : /\ Src!HasBody(f, i) /\ f.items[i].body.is = "block"
                          /\ f.items[i].body.aligned /\ f.items[i].body.tail = 0}

\* The key of the first symbol of a file.
FirstKey(f) == Src!KeyOf(Src!IdOf(f, Min({i \in DOMAIN f.items : Src!IsSymbol(f, i)})))

\* Of the files of its path f has the key that stands first.
Owns(files, f) ==
  \A h \in ToSet(files) \ {f} : h.path = f.path => KeyBefore(FirstKey(f), FirstKey(h))

\* A path has one text, and the graph takes it for the package and the prefix of its owner.
Knows(g, files) ==
  /\ \A f, h \in ToSet(files) : f.path = h.path => f.items = h.items
  /\ \A f \in ToSet(files) : Removable(f) # {} /\ Owns(files, f) =>
       Src!PackageOf(g, f.path) = f.package /\ Src!PrefixOf(g, f.path) = f.prefix

\* An expansion that is delivered leaves out the bodies of the owners but those under the keys.
ShowsJust(files, expansion, keys) ==
  expansion.ok => \A f \in ToSet(files) : \A i \in Removable(f) : Owns(files, f) =>
    \A e \in expansion.files :
      e[1] = f.path => (i \in e[2] <=> Src!KeyOf(Src!IdOf(f, i)) \in keys)

PublicKeys(g, package) == {Src!KeyOf(s.id) : s \in {t \in ToSet(g.symbols) :
                             t.pub /\ t.id.package = package /\ t.id.kind # "module"}}
ModuleKeys(g, package, module) ==
  {Src!KeyOf(s.id) : s \in {t \in ToSet(g.symbols) :
                              t.id.package = package /\ IsPrefix(module, t.id.module)}}

\* An expansion at the implementation level shows the bodies of its subjects and no
\* others, and one at the skeleton level shows none.
ShowsSubjects(g, files, level) ==
  LET Just(expansion, keys) ==
        ShowsJust(files, expansion, IF level = Src!Implementation THEN keys ELSE {})
      packages == {f.package : f \in ToSet(files)}
  IN /\ \A k \in Src!Keys(g) :
          /\ Just(Src!ExpandSymbol(g, files, k, level), {k})
          /\ Just(Src!ExpandTest(g, files, k, level), {k} \cup Src!TestKeys(g, k))
          /\ Just(Src!ExpandRelated(g, files, Src!RelatedSeed(g, k), level),
                  Src!RelatedSeed(g, k))
     /\ \A p \in packages :
          /\ \A m \in {s.id.module : s \in ToSet(g.symbols)} :
               Just(Src!ExpandModule(g, files, p, m, level), ModuleKeys(g, p, m))
          /\ Just(Src!ExpandDependency(g, files, p, level), PublicKeys(g, p))

(* An expansion shows the bodies of what was asked for, of a symbol, a     *)
(* module, a package, the tests of a symbol, or the related, where a path  *)
(* is rendered for the package whose keys stand first: not the package     *)
(* that the walk comes to first, and not that of the subject (see          *)
(* SubjectIsShown).                                                        *)
BodiesAreTheSubjects ==
  probe.part = "tree" =>
    LET g == Src!BuildAll(probe.files)
    IN /\ Knows(g, probe.files)
       /\ \A level \in {Src!Skeleton, Src!Implementation} : ShowsSubjects(g, probe.files, level)

\* What the documentation says of skeletons and expansions, and the code does not do.

Skeletons == IF probe.part = "tree"
             THEN {[of |-> f, is |-> Src!SkeletonWith(f, f.package, f.prefix, {})] :
                     f \in ToSet(probe.files)}
             ELSE {}

(* "Renders a source file with function bodies removed while preserving    *)
(* signatures": nothing but blanks is lost before a body that was removed. *)
(* With characters of several bytes on the line of its opening brace, the  *)
(* end of the signature goes with the body.                                *)
SignaturesArePreserved == \A s \in Skeletons : s.is.ok => s.is.clipped = {}

(* "Renders `source` with every function body removed": every body that is *)
(* not empty.  One whose offsets fall within a character stays.            *)
EveryBodyIsRemoved ==
  \A s \in Skeletons : s.is.ok =>
    \A i \in s.is.shown : s.of.items[i].body.is = "empty"

(* "Its file rendered at `level` with only this symbol's body kept at      *)
(* level 4".  The body of a symbol whose package is not the one that its   *)
(* file is taken for is not kept.                                          *)
SubjectIsShown ==
  probe.part = "tree" =>
    LET g == Src!BuildAll(probe.files)
    IN \A k \in Src!Keys(g) :
         LET subject   == Src!Symbol(g, k)
             expansion == Src!ExpandSymbol(g, probe.files, k, Src!Implementation)
         IN expansion.ok => \A f \in ToSet(probe.files), e \in expansion.files :
              /\ f.path = subject.file /\ e[1] = subject.file /\ Src!HasBody(f, subject.pos)
              => subject.pos \in e[2]

(* At least one of the three holds of every tree.  They fail for causes    *)
(* of their own, so a counterexample is a tree of which none holds.        *)
OnePromiseIsKept == SignaturesArePreserved \/ EveryBodyIsRemoved \/ SubjectIsShown

-----------------------------------------------------------------------------
(* One input of one part, and then nothing.                                *)

None == [part |-> "none"]
Init == probe = None

ProbeLine == \E b \in Beginnings, w \in SeqsUpTo(Words, 3) :
  probe' = [part |-> "line", words |-> b \o w]

ProbeTests == \E one, two \in Truths, c \in Captured, exit \in {0, 101} :
  probe' = [part |-> "tests", one |-> one, two |-> two, captured |-> c, exit |-> exit]

ProbeOutput == \E k \in ToolKinds, ls \in SeqsUpTo(AnyLine, 2), exit \in {-1, 0, 1, 101} :
  probe' = [part |-> "output", kind |-> k, lines |-> ls, exit |-> exit]

ProbeDiff == \E a \in SeqsUpTo(Content, 2), b \in SeqsUpTo(Content, 1) :
  probe' = [part |-> "diff", a |-> a, b |-> b]

ProbeRebuild == \E a1, b1, a2, b2 \in Templates, more \in SUBSET {"a", "tests/b"} :
  probe' = [part |-> "rebuild", old |-> Tree(a1, b1), new |-> Tree(a2, b2),
            changed |-> more \cup (IF a1 # a2 THEN {"a"} ELSE {})
                             \cup (IF b1 # b2 THEN {"tests/b"} ELSE {})]

ProbeTree == \E a, b \in Templates : probe' = [part |-> "tree", files |-> Tree(a, b)]

Next == /\ probe = None
        /\ \/ ProbeLine \/ ProbeTests \/ ProbeOutput \/ ProbeDiff \/ ProbeRebuild \/ ProbeTree

Spec == Init /\ [][Next]_probe
=============================================================================
