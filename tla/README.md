# TPT Weave in TLA+

A verification development for TPT Weave, kept beside its code: TLA+ modules that model the
parts of the system where state, order and concurrency decide what is right, TLC configurations
that check them on small instances, and TLAPS proofs of what matters most for every instance.

TPT Weave indexes a Rust repository into a symbol graph and hands a coding agent small, exact
pieces of it. What can go wrong is not that a lookup is slow but that it is *stale*: a symbol
that is no longer there, a file the manifest excludes, a "nothing to do" that is false. Most of
this project is about that. Paths below are relative to `src/`.

## 1. Inventory

### 1.1 Components

| Component | Code | State it keeps | Operations | Modelled |
|---|---|---|---|---|
| Git state and fingerprints | `crates/tpt-weave-index/src/git.rs` | none; reads the working tree, HEAD, git status | `current_revision`, `worktree_fingerprint`, `worktree_state`, diff and log queries | `WorkingTree` (the queries are not) |
| CLI workspace and `index` | `crates/tpt-weave-cli/src/workspace.rs`, `commands/index.rs` | `.tpt-weave/graph.json`, `.tpt-weave/worktree-state` | build, save, decide whether the graph is up to date, `load_index` of the query commands | `IndexLifecycle` |
| Parse cache | `crates/tpt-weave-rust/src/parse_cache.rs` | `.tpt-weave/parsed/`, one entry per (repository, path, text) | `parse_files`, `changed_paths` | `IndexLifecycle` |
| Graph builder and persistence | `crates/tpt-weave-graph/src/{builder,persistence}.rs` | none; writes `graph.json` | build with reuse of a previous graph, resolution of mentions, `save`, `load` | `IndexLifecycle` (reuse, persistence), `SourceGraph` (what a build computes) |
| MCP workspace and server | `crates/tpt-weave-mcp/src/{workspace,server}.rs` | graph, sources and state in memory, behind a lock | `load`, `refresh_if_stale` before each tool call | `IndexLifecycle` |
| Context retrieval | `crates/tpt-weave-context/src/retrieval.rs` | local to a request | score, order, select within the token budget, deduplicate | `ContextSelection` |
| Expansion | `crates/tpt-weave-context/src/expand.rs`, `crates/tpt-weave-graph/src/model.rs` | local to a request | `related_keys`; expansions of a symbol, module, dependency, tests, relatives | `RelatedKeys`, `Representation` |
| Decision engine | `crates/tpt-weave-decisions/src/` | policy, decision log in memory | `decide`, export and clear the log | `DecisionSchema`, `DecisionContract`, `Decisions` |
| OpenRouter adapter | `crates/tpt-weave-openrouter/src/lib.rs` | `privacy-audit.jsonl`, shared by the processes of a repository | `decide`: audit, post, retry, parse | `Decisions` |
| Cache store | `crates/tpt-weave-cache/src/` | one file per digest of a key | get, put, invalidate, clear | `EntryCache` |
| Tool output and raw store | `crates/tpt-weave-tools/src/` | one file per digest of a raw output | the reducers; store, expand | `ToolReduction`, `RawStore` |
| Registry, init, adopt, doctor | `crates/tpt-weave-core/src/integration.rs`, `crates/tpt-weave-cli/src/commands/{init,adopt,doctor}.rs` | manifest, `.gitignore`, baseline report, `registry.json` | `init`, `init --force`, `index`, `adopt`, `doctor`, loading an index | `Onboarding` (not what the registry contains) |
| Rust parser and skeletons | `crates/tpt-weave-rust/src/{parse,mentions,skeleton}.rs` | none | items to symbols and mentions; cutting bodies | `SourceGraph`, `Representation` |
| CLI surface | `crates/tpt-weave-cli/src/{args,error}.rs` | none | the argument parser, exit codes, rendering | `CommandLine`, `Onboarding` (not the rendering) |
| Manifest, privacy, identifiers | `crates/tpt-weave-core/src/{config,privacy,ids}.rs` | none | parse, `excludes`, `redact` | exclusion, as the constant `Excludes` |
| Cargo index, evaluation | `crates/tpt-weave-index/src/cargo.rs`, `crates/tpt-weave-eval/` | none | decoding, measurement | no, see 7 |

### 1.2 How they interact

- `tpt-weave index` takes the working-tree state, compares it with the saved one, and otherwise
  loads manifest, revision and previous graph, walks and reads the sources, parses what the parse
  cache does not hold, builds a graph that *reuses* the previous graph's records of the other
  files, and writes `graph.json` and then `worktree-state`. Nothing is locked, nothing is renamed
  into place.
- An MCP server does the same build in memory. It reads `graph.json` as its previous graph and
  writes the same parse cache, but never `graph.json`. Before each tool call it rebuilds if HEAD
  or the working-tree state differs from what it took at its last build.
- Query commands load `graph.json` and check HEAD and the manifest's mtime, not the tree.
- Editors and git change sources, manifest and HEAD between any two of those steps.
- A decision engine asks a provider; the remote provider appends an audit record to a file all
  processes of the repository share, posts, and retries. The engine checks the answer against the
  offered choices, an override and a threshold, and logs one judgement.
- Context requests are pure over one graph: they select, and expand with a closure loop.
- `adopt` is `init`, `index`, `register`, a benchmark and `doctor` in one process; each of them is
  also a command of its own, over the same files, and people edit those files.
- Results and raw tool output are kept in directories that any process of the repository reads,
  writes and sweeps. A reduction points to the raw output it stands for.

### 1.3 What is hard, and what correct means

*Index and server.* Interleaving of a multi-step build with edits; two writers of one directory;
two files that must agree but are written one after the other; a cache that answers "seen before"
where "same as last time" is meant; runs that die between steps. Correct: an answer "index up to
date", or a tool call served without a refresh, rests on a graph of the sources that are there,
under the manifest that is there; a build describes the texts it read; an excluded file is never
in a graph built under that manifest; and once the edits stop, so do the rebuilds.

*Context selection.* Two passes that undo part of each other's work, run until nothing changes, on
saturating arithmetic. Correct: it ends, within the budget, with an exact running total, nothing
that would still fit left out, nothing delivered twice, nothing dropped without cover.

*Expansion.* A fixpoint loop over a snapshot with a flag that not every insertion sets. Correct: it
ends, delivers nothing unrelated, and is closed (section 3.2 says where it is not).

*Decisions.* Lost answers and retries, audits that fail half-way, answers outside the schema, two
places an override applies, several processes at one file. Correct: every question gets one logged
judgement that the policy accounts for, nothing leaves that is not audited, a decision is audited
once, and the audit file can be read.

*Onboarding.* Five files written one after the other, each truncated before it is written, by
commands that may overlap, be outdated by an edit, or be killed. Correct: whatever an earlier command
left, an `adopt` that nobody disturbs repairs it or fails for a reason outside its reach; an `index`
that says it is done leaves an index that queries accept; nothing a person wrote is lost.

*Entry cache and raw store.* Check-then-act on shared files: an entry judged, removed or replaced
between two steps, digests that collide, half a write. Correct: a hit is what was put under that very
key; a sweep leaves nothing it should take; an expansion is the output that was stored.

*Command line, reducers, graph, expansion.* Folds over long inputs with state carried along, where a
test exercises a few words or lines and the mistake is in a combination: an option that lands on
another command, a failing test whose own output looks like the harness's, a file parsed under two
packages, an incremental build that differs from a full one, a body cut for the wrong symbol.

`PROJECT.json` lists these hazards at the lines where they bite, with the properties that cover
them.

## 2. Modules

| Module | What it is |
|---|---|
| `WorkingTree` | the tree, manifest, commits and HEAD; the steps of editors and git; the digest git.rs takes of them |
| `IndexLifecycle` | indexers and servers over one `.tpt-weave`; EXTENDS `WorkingTree` |
| `IndexLifecycleInvariant` | when a lone indexer, and when a server, can be trusted, and the inductive invariants that say why |
| `IndexLifecycleProofs` | its theorems |
| `ContextSelection`, `ContextSelectionProofs` | `select_within_budget` |
| `RelatedKeys`, `RelatedKeysProofs` | `related_keys` |
| `DecisionSchema` | choices, safe choices, forced overrides |
| `DecisionContract` | the abstract specification: a question is asked, and answered by an accountable judgement |
| `Decisions` | engine, providers and audit file; implements `DecisionContract` through an `INSTANCE ... WITH` |
| `DecisionsProofs` | its theorems, the step simulation among them |
| `Onboarding` | `init`, `index`, `adopt`, `doctor` and loading, side by side |
| `OnboardingInvariant` | what an undisturbed command has achieved, and what nobody has lost, at each step |
| `EntryCache`, `EntryCacheProofs` | the cache store |
| `RawStore` | the store of raw tool output |
| `CommandLine` | the argument parser, as a fold over the words |
| `ToolReduction` | the reducers, as folds over classified lines |
| `SourceGraph` | from items to symbols, mentions and the graph, full or incremental |
| `Representation` | skeletons and expansions; EXTENDS `SourceGraph` |
| `MCSession`, `SessionProofs` | `Onboarding`, `EntryCache` and `RawStore` together; small instances for one run; the theorems of `Onboarding`, of `RawStore` and of the whole |
| `MCAlgorithms`, `AlgorithmsProofs` | bounded inputs and reference definitions for `CommandLine`, `ToolReduction`, `SourceGraph` and `Representation`; what holds of inputs of any size |
| `FoldFacts` | what `FoldLeft` makes of a sequence, for any step: the proofs take an instance of it for each step that a model folds |
| `MCContext` | `ContextSelection` and `RelatedKeys` in one run: a behaviour is one of the two, the other is over from the first |
| other `MC*` | constants for TLC |

A definition whose comment begins with *Mutant* is a plausible wrong version of the definition
that follows it. Nothing uses it; substituting it shows that a property is able to fail.

### 2.1 WorkingTree and IndexLifecycle

A source text is opaque. `tree[f]` is the text of a file or `Absent`, `commits` the committed
trees, `head` the current one. `Edit`, `EditManifest`, `Commit` and `Checkout` are what people and
git do, at any moment. `WorktreeFingerprint` is the set of differences from HEAD, and
`WorktreeState` adds the manifest, as git.rs does; the digest is taken to be free of collisions.
`newerManifest` is the one thing mtimes are used for. `seen` and `seenManifests` are history
variables; `Revisiting` says whether an edit may bring back a text of the past, and `Ignored` which
sources git does not see though the walk does.

A graph is its repository name, its revision and, for every file, the text its records come from.
That is all staleness is about, so parsing and the resolution of references stay out of it.

| Action | Code |
|---|---|
| `StartIndex`, `ReportUpToDate`, `DecideRebuild` | `commands/index.rs` `run`: the state is taken first, then compared; `--full` skips the comparison and nothing else |
| `LoadManifest`, `ReadRevision`, `LoadPrevious` | `Workspace` loading, in the order of each binary (the server takes its state after the revision: `TakeState`) |
| `ReadFile` | one file of `collect_rust_files`; files are read in any order, with edits in between |
| `Parse`, `NothingParsed` | `ParseCache::parse_files` and `build_inner`; a text that does not parse gets no entry, a failed cache write is ignored |
| `BeginSaveGraph`, `EndSaveGraph`, `SaveState` | `save_index`: `fs::write` truncates, then writes; then the state record |
| `StartServer`, `Serve`, `Refresh`, `StopServer` | the MCP workspace and its lock-protected refresh |
| `Fail` | a run that dies or returns an error at any step; what is on disk stays |

`UpToDate` and `Fresh` read several things (`git rev-parse`, `git status`, two files) and are
evaluated in one step, at the moment the answer is given. The window that matters, between the
state the run took at its start and everything it reads afterwards, is open.

### 2.2 ContextSelection

Candidates are slots in delivery order with a source, a token estimate, a level and, for a symbol
anchor, its file. The scoring words only matter through that order, so `Init` takes every order the
sort can produce. `AdmitOverview` is the code before the loop; `Admit`/`PassOver` the greedy pass,
`DropAnchor`/`Keep` the deduplicating pass, one candidate per step; `EndDedup` the `changed` test.
`SaturatingAdd` and `SaturatingSub` keep the u32 arithmetic, with `U32Max` a constant.

### 2.3 RelatedKeys

The symbol table is a kind and a parent per canonical key, with `alsoIn` for the records that share
a key (methods of one name in several impls of a type). `Visit` is one iteration over the snapshot
in key order; `NextPass` and `Finish` are the loop test, of `reported` (the code's flag `changed`). `Noticed` is what an iteration inserts
with the flag set, `TraitImplsOf` what it inserts without.

### 2.4 Decisions

Each process has an engine, a policy, a provider and a log in memory; `audit` is the shared file,
one element for each *write call*, because `RemoteAuditLog::record` serialises into an unbuffered
file. `Ask`, `Judge` and `Die` are entering and leaving `DecisionEngine::decide`, and being killed
in it. `ChooseLocally` is the deterministic provider. `WriteAudit`, `FailAudit`, `Post`,
`NoResponse`, `ErrorStatus`, `BadBody` and `GoodBody` are the statements of the OpenRouter
`decide`. The table of choices and safe choices is that of the source. Confidences are
percentages. Redaction, bodies, latency and token counts are left out.

`DecisionContract` knows only policy, pending question and log. `Accountable(policy, category)` is
the set of judgements the policy can account for; `Answer` logs one of them. The mapping takes
`asked` from the request that is being decided.

### 2.5 Onboarding

The files are variables: `manifest` (absent, the default, a person's, one whose provider key is not
in the environment, one that does not load), `ignore` as a sequence of lines, `graph` with its
revision and `newer` for the mtime comparison, `saved` (the manifest that `worktree-state` was taken
with), `registry`, `report`, `head`. A process is at a named place of its command; every file is
truncated in one step and written in the next. Sources are a choice: `TakeState` may rebuild an index
whose record agrees, since sources may have changed (`IndexLifecycle` is about when they did).

| Action or operator | Code |
|---|---|
| `CheckManifest`, `TruncateManifest`, `SaveManifest` | `init::run` |
| `ReadIgnore`, `TruncateIgnore`, `SaveIgnore`, `Missing` | `ensure_gitignore` |
| `TakeState` ... `SaveState` | `index::run` and what it calls, by the files of this module |
| `Register`, `Benchmark` | what `adopt::run` adds |
| `LoadCode`, `DoctorCode` | `load_index` and `doctor`, check by check, with the exit code of each |
| `Edit`, `Kill` | people and git; the operating system |

`moved[p]` says that another changed a file since the command of p began: a command that is not
`moved` had the repository to itself.

### 2.6 EntryCache and RawStore

A path holds nothing, half a write, or an entry (an output). `Digest` and `Hash` are constants, so
that keys may collide. `Get` reads and `Hit`/`Miss` judge what was read; a miss removes the file that
is there *by then*. `OpenForPut` truncates, `Write` completes; `named` is lost when the file is
removed under an open handle, and `alone` when two write one file, after which what is there is either
whole or torn. `List`, `Look`, `Drop` are `invalidate` and `clear`. `Store`, `Create`, `Write` and
`Expand` are those of the raw store, whose `exists` check makes the first writer the only one.
History variables remember what was put, whether a sweep was disturbed by a put, and at which file a
process was killed.

### 2.7 CommandLine, ToolReduction, SourceGraph, Representation

`CommandLine` is the token loop of `args.rs`: `ReadWord` for a word, with the command, its options, the
globals and what the next word is wanted for. Which words `parse::<u8>` reads as a level is the constant
`IsNumeral` (`03` is one, as `3` is). `ToolReduction` keeps for each tool the fold of its
reducer; a line is a record with the form the reducer recognises it by. `SourceGraph` walks the
items of a file in the parser's order and computes ids, parents, mentions and test coverage, and
`Build` assembles the graph with the records of unchanged paths taken from a previous graph. The
symbols of a graph stand in the order of their canonical keys, which are strings: `KeyBefore` is a
constant, since the order of the walk says nothing about it (`foo-core::` stands before `foo::`, and
the walk comes to `foo` first). `SortedByKey` is the sort of `builder.rs:244`; it is stable, so the
records of one key keep the order of the walk.

`Representation` walks the same items a second time, as skeleton.rs does with a walker of its own,
and decides for every expansion which files are rendered, which bodies stay, and when it fails. A file is
rendered with the package and the prefix of its `Foremost` records: the first by position, and the first
by key of those at one position, as the stable sort of `levels.rs:139` leaves them. The offsets of a body
are those of skeleton.rs, a byte offset of the line plus a column in characters. With characters of
several bytes before a brace on its line they lie `lead` bytes before the opening brace and `tail` bytes
before the end: the cut takes what stands between, so the end of a signature may go with the body
(`clipped`), and what ends too early leaves a piece of it. A body whose offsets fall within a character
(not `aligned`) is left alone. What a cut with wrong ends leaves is delivered if it parses, which
`StillParses` decides.

## 3. Runs

All runs finish in under four minutes on two workers.

| Run | Question | Bounds and why they are enough |
|---|---|---|
| `IndexAlone` | Is "index up to date" right for a lone indexer, do excluded files stay out, do runs settle? | 2 files (a mixed tree needs two), present or absent, 2 commits (work moves across a commit), with and without manifest, a manifest that excludes one file, `--full` or not |
| `IndexAndServer` | Do an indexer and a server under names of their own leave each other alone? | 1 file, 3 texts (the one in the graph, the one missed, the one after), 2 commits |
| `ServerAlone` | Does a server stop rebuilding? | 1 file, an unparsable text, texts that come back, checkouts, one failed build |
| `Context` | What does the selection promise, what does the set of related symbols hold, do both loops end? | 4 candidates: overview, a file, its anchor and one that a refund lets in; estimates 1 to 3, budgets 2 to 6 under a u32 maximum of 7; a level below and one above Signatures. Every graph of 4 symbols: a trait, an impl, its member and its parent |
| `Session` | Do setup commands repair what was left, do people keep their work, does the cache return what was put, a sweep clean up, the raw store return what was stored? | 2 processes; 2 commands, 1 edit and 1 kill (a command and what disturbs it, or what it finds); outside git, without a commit and with one; an index that is absent or of an old schema. 3 cache calls over 4 keys of which two share a digest, one entry of an older program. 3 stores of 3 outputs of which two share a digest. Each behaviour is one of the three parts |
| `Algorithms` | Does the parser take the lines of its grammar, do the reducers report what the tools meant, is a rebuild a build, are mentions resolved, do expansions show their subjects? | *Lines* of up to 3 words of 17 after 3 beginnings, so that every sort of phrase occurs, the longest (`experiment accuracy x`) included, with numerals that are a level (`03`) and that are not. *Output* of two harnesses with up to 2 failing tests each that print up to 2 lines; every reducer on up to 2 lines of 16 forms; diffs of two files; `Cap` is 1, so that lists are cut. *Trees* of two files from 7 templates, one file parsed under two packages, `foo` (first in the walk) and `foo-core` (first by key), with every rebuild between the trees; two levels of 5 expansions. Bodies of every kind of offsets: right (`Block`), an empty or missing body, too early at the beginning by one byte or by three (`Padded`, `Wide`), too early at both ends (`OneLine`, of which `StillParses` is false), within a character (`Straddled`) |
| `Decisions` | Contract, audit, types | 2 processes, 2 decisions between them, one retry, one retryable and one final status, confidences at, below and beyond the threshold, a record of 2 writes, all 3 providers; a forced category, and one whose first override names no choice it offers |

Deadlock is checked except where the system stops: a finished selection or closure loop, the last
of `MaxAsks` decisions, and the runs that look for a counterexample.

Bounds are `MaxCommits`, `MaxFailures`, `MaxAsks`, `MaxNeighbours` and the sizes of the constant
sets. `MaxCommits` and `MaxAsks` bound how often a thing happens, not what state it happens in.
Symmetry is used over the parsable texts in safety runs only.

### 3.1 Properties

`UpToDateIsExact`, `ServedIsExact`, `QueryHonoursManifest`: the three ways an old graph is accepted,
each against `ExactSymbols` or the manifest. `NoStaleRecords`: a build describes the texts it read,
reuse included. `ExcludedStayOut`: exclusion wins over reuse. `IndexSettles`, `ServerSettles`:
rebuilding ends. `IInv` is checked as an invariant before it is proved.

`WithinBudget`, `UsedIsExact`, `Maximal`, `NoDuplicates`, `DroppedIsCovered`, `Settled` (the
inductive form of the two before it), `Terminates`. `RelatedTypeOK`; `OnlyRelated`; `AlmostClosed`, which is as much of
the closure that expand.rs claims as the code keeps: every trait has its implementations, and only an
implementation that came with its trait, and not with the seed, may lack its own links (the claim itself
is `ClosureIsFull`, see 3.2); `RelatedTerminates`.

`AdoptRepairs`, `IndexRepairs`, `DoctorVouches`, `WorkIsKept`: what the setup commands owe, under
edits, kills and each other. `HitIsPut`, `SweepIsClean`, `ExpansionIsTheOutput` (an action property):
what the two stores owe. `SessionTypeOK` is the one type invariant of that run.

`ParsesTheGrammar`: the one-pass parser takes exactly the lines that can be cut into phrases that are
right where they stand, in their only reading: command, arguments, options and globals. `TestSummaryIsTrue`, `DiffCountsAreTrue`: the counts against the truth
the output was made from. `StatusAgreesWithHeader`: what is read agrees with what the caller is told,
for every tool and any lines. `IncrementalIsFull`: reuse against a build from nothing.
`MentionsAreResolved`: no use lost, none invented. `BodiesAreTheSubjects`: two walks over the items
agree on what is whose: a path is known for the package whose keys stand first, and a skeleton of it that
is delivered leaves out every body whose offsets are right at its end, but those of the subjects.

`SentIsAudited`, `AuditedOnce`, and `KeepsContract`, which is the refinement, liveness included.
The type invariant of `Decisions` carries two facts: every logged judgement is accountable, and a
decision is posted at most `max_retries + 1` times.

### 3.2 Findings

Five runs end in a counterexample, each against what the repository says of itself.

| Run | Property | What happens |
|---|---|---|
| `RevertedEdit` | `NoStaleRecords` | Index text A, edit to B, index, undo the edit, index: A is in the parse cache, so its file is not "changed" and its records are taken from the graph of B. The saved graph describes B while the file holds A, `index` then answers "up to date", and `index --full` repairs nothing since it still reuses. |
| `QueryDuringIndex` | `QueryHonoursManifest` | A manifest written while a run reads sources is older than the graph that run saves, so its exclusions are not honoured by queries. |
| `AuditLines` | `AuditIsJsonLines` | Two processes' audit records interleave within a line; a killed one leaves half a line for the next to continue. |
| `RelatedClosed` | `ClosureIsFull` | The last pass of `related_keys` inserts implementations of a trait, which does not count as a change (`expand.rs:309`): they are delivered without their members and parents, though `expand.rs:307` says that these "arrive via the child rule above". |
| `Rendering` | `OnePromiseIsKept` | Three promises, and a tree of which none holds. `SignaturesArePreserved`: columns count characters and offsets bytes; with three bytes too many on the line of the opening brace, `fn grüße(ß: u8) -> String {` becomes `fn grüße(ß: u8) -> Stri{ /* ... */ }`, which parses and is delivered. `EveryBodyIsRemoved`: a body whose offsets fall within a character is passed over, and the skeleton shows it. `SubjectIsShown`: a file below the directories of `foo` and `foo-core` is rendered for `foo-core`, whose keys stand first; the expansion of a symbol of `foo` selects a key that the walker never makes, and shows no body. |

The passing runs say where these stop: without texts that come back, with one indexer, and with a
server under its own name, `UpToDateIsExact` and `NoStaleRecords` hold and are proved; `AlmostClosed`
says what the closure still is, and `BodiesAreTheSubjects` what skeletons and expansions still are.

Further behaviours seen on the way, one constant or a glance away and without a run of their own:

- `UpToDateIsExact` also fails with `Indexers = {i1, i2}` (two overlapping runs leave the graph of the
  older tree beside the state of the newer), with `Ignored = {f1}` (the walk reads files that git ignores, the
  fingerprint does not see them), and with `MaxFailures = 1` (a run that dies after the parse cache
  is written makes the next one reuse the old graph's records); `ServedIsExact` fails with
  `InGit = FALSE` (only the manifest is compared), and `NoStaleRecords` with a server that shares
  the manifest's repository name.
- A server reads the manifest before it takes its state (`crates/tpt-weave-mcp/src/workspace.rs:86`):
  when the manifest changes in between, it remembers the new one with a graph of the old and does not
  refresh. `ServedIsExact` fails as soon as the manifest may change under a server.
- Query commands accept a graph after an edit that moved neither HEAD nor manifest.
- Where `init` was not run, nothing makes git ignore `.tpt-weave`: the tool's own files are inside
  the fingerprint, and `index` rebuilds every time. The model takes the directory as ignored.
- A provider failure is answered by a choice picked by hash and is not judged against the
  threshold; 504 and a body that breaks off are not retried; the first override of a category hides
  a later valid one; an answer without a confidence counts as 0.5 and is trusted where
  `min_confidence` is not above that.
- `doctor` passes while queries exit 4, after `init --force` or any edit of the manifest, and does
  not look at the registry. An up-to-date `index` exits 0 although queries then fail on a broken
  manifest or registry. A torn graph gives exit 1, not the 4 of a stale index.
- A killed `init` leaves a manifest that does not load, which only `init --force` mends, or an empty
  `.gitignore`; two overlapping ones may add their lines twice or lose a person's.
- The raw store takes a file that exists for a file that is complete: a torn one is returned for
  ever. Nothing there tells colliding digests apart. A cache get may remove the entry another process
  has just put.
- All files are parsed with an empty module prefix: functions of one name in different files of a
  package share a canonical key. A body that calls a function of its own name elsewhere
  (`index::run()` in `run`) has no edge to it. A root package and its members both parse the
  members' files. Bounds of generics give trait-implementation edges.
- A body on one line after a character of several bytes is cut too early at both ends; when what is left
  does not parse, the whole expansion fails. The tests of a symbol include the symbol itself when it is a
  test.
- `cache --json` is a usage error, though the help names a default. A diff's content lines that begin
  with `+++ ` or `--- ` are not counted; a test that prints `failures:` or `test result:` misleads
  the summary, which is why `Captured` has neither.
- An anchor may be delivered without its file, and keeps its own level beside a lower `max_level`.

## 4. Fairness

- `IndexLifecycle`: weak fairness of each indexer's and server's steps (a started run goes on, its
  steps are local) and of starting an index run without `--full` (somebody keeps calling it, else
  there is nothing to settle). Nothing is assumed of edits, failures, or of a server being started.
  Tool calls are part of `ServerStep` through `Refresh`, which is to say a stale server is called
  again. `IndexSettles` and `ServerSettles` are conditional on the edits coming to an end.
- `ContextSelection`, `RelatedKeys` (run `Context`): weak fairness of the loop, which is sequential code.
- `Onboarding`, `EntryCache`, `RawStore`, `Algorithms`: none; only safety is asked of them.
- `Decisions`: weak fairness of each process's `decide`. The HTTP client is built with a timeout,
  so every post ends; the rest is local. `Die` and `Ask` have none.

## 5. Proofs

Checked by TLAPS; each theorem holds for every value of the constants the module's assumptions
allow.

**IndexLifecycleProofs.** `TypeCorrect` and `GraphsHonourExclusions` need no more than the
assumptions on the constants: any number of indexers and servers, crashes, texts that come back.
`LoneInvariant`, `LoneUpToDateIsExact` and `LoneNoStaleRecords` assume `LoneIndexer`: a git
repository, one indexer, no run that dies, no text or manifest that comes back, no ignored source,
and either no server or servers whose name no manifest uses. Section 3.2 shows what happens without
them: a second indexer, texts that come back, ignored sources, runs that die and a shared name each
have a counterexample.

The argument is that *a text the indexer missed is new*. `AllSeen`: whatever is recorded anywhere
(commits, cache, states, texts read) was in the tree before. So a text that appears after it was
read is in no commit, no state and no cache entry: `MovedOn` says that the state and revision on
record contradict the tree of now, `MissedIsUncached` that the next run will reparse it.
`ManifestFollowed` and `ReadFollowed` carry this through a run in progress, `GraphFollowed` says it
of the graph on disk: where its records are wrong, the record tells. `CacheAgrees` is what makes
reuse sound: a cached text of a file is the one the graph on disk has its records from. The
property alone is not inductive, since it says nothing of a run half-way.

`ServedInvariant` and `ServerAnswersAreExact` are the same for what a server answers from memory,
with any number of servers and indexers and whatever dies. They assume `ServerKeepsUp`: a git
repository, no text that comes back, no ignored source, manifests that exclude the same files, and no
indexer that saves under the server's name. Each clause is needed: section 3.2 tells what breaks
`ServedIsExact` without it. A server takes the revision, then the state, and reads the files last.
`Recorded` says that both were true of the tree once, `Follows` that each file read since is what is
there now, or has moved on to a text that neither state nor revision can speak for (`HistoryComplete`:
every text, state and commit there ever was is in the history); then the comparison of `Fresh` fails.
`Foreign` keeps the graph on disk, which any run may replace or tear at any time, from lending the
server a record. One indexer at a time is not needed here, since nothing that indexers write reaches a
server's answer.

**ContextSelectionProofs.** `WithinBudget` and `DroppedIsCovered` are inductive with the types;
`Maximal` and `NoDuplicates` follow from `Settled` (`SelectionSettled`), which says what the part of a pass that changed
nothing has established. Any number of candidates, any estimates, budgets and levels.
`SelectionUsedIsExact`: the running total is the cardinality of the selected candidates' tokens,
each a pair of a candidate and a number up to its estimate. Said so, an admission adds a set of new
pairs and a drop takes one away, and the sum over a set needs no induction. That saturation never loses
anything is part of it: below a budget of `U32Max` an admission that saturates would not have fitted.

**RelatedKeysProofs.** The invariant of the closure loop: whatever has left the snapshot of a pass
that reports no change has its links in the set; implementations inserted without the flag are the
exception, and each of them came with a trait that is there. `OnlyRelated` and `AlmostClosed` follow for
every graph.

**DecisionsProofs.** `DecisionsInvariant` places the pieces of every record: how many are in the
file follows from where its decision is (`Places`), no piece is there ahead of time (`NotAhead`)
and none behind is missing (`NotBehind`). From it `EveryPostAudited`, `OneRecordPerDecision`, and
`DecisionsTypeCorrect`; `EngineKeepsContract` shows that `Init` maps to the contract's `Init` and
every step to a step of it or a stutter. Any number of processes, policies, retries, pieces.

**EntryCacheProofs.** Whatever a file or a buffer holds was put: `FilesPut`, `BuffersPut`, `HeldPut`
carry that history through reads, judgements and removals, and `CacheHitIsPut` follows. `Owed` is what
a sweep has not settled: a file that is there is still listed, is the one being looked at, or is kept,
as long as no put began since (`Quiet`); at the end nothing is owed (`CacheSweepIsClean`). Any
processes, keys, values and digest; the assumption is that the three marks are no entries or keys.

**SessionProofs**, first of `Onboarding`. `AdoptRepairs` and `IndexRepairs` speak of a command that has
ended undisturbed, which says nothing half-way; `Progress` says what such a command has achieved at each
of its places (the manifest loads, the lines are in `.gitignore`, the graph is of this HEAD and newer
than the manifest). A step of another either changes no file or marks the command as disturbed
(`Bystander`), so one lemma for each of the sixteen steps suffices. Any number of processes, commands,
edits and kills, any `.gitignore` and HEAD at first. `Mended` is the lemma that nothing is missing once
the missing lines are appended.

`WorkIsKept` is about every line at once: `own.lines` counts how often people wrote each, and `Times`
how often it is there. Its invariant `Work` adds what a command half-way holds: a `.gitignore` that is
truncated has its lines in the process that will write them back (`IgnoreWork`), and a manifest is only
truncated where it may be (`ManifestWork`). A process that writes what it read before another changed a
file may undo that change; this is what `raced` records, and `OneMoves` shows that a step that does not
race is that of a process nobody disturbed. `TimesOne` and `TimesMissing` are the lemmas on counting in
an appended sequence.

Then of the whole: `SessionIsEach`, a behaviour of `MCSession` is one of `Onboarding`, one of
`EntryCache` and one of `RawStore`, since a step of the whole is a step of each part or leaves it alone.
`SessionTypeCorrect`, `SessionOnboards`, `SessionHitIsPut`, `SessionSweepIsClean` and `SessionExpansion`
follow for the properties as the run states them. The raw store is proved here too: `Whole` says that the file
of a digest that belongs to one output is absent, that output, or torn, and torn only while it is written or
after a kill; `RawStoreExpansion` is the action property that follows.

**FoldFacts.** The prover cannot instantiate an induction theorem that takes an operator, nor a recursive
definition. What it can do is induction up to a bound for a *set* of numbers (`Reaches`, from the
well-foundedness of `<` on `Nat`). With it `FoldIsDefined` shows that the recursive function behind a fold
exists, `FoldHasRun` that a fold ends a run (the list of the accumulators it goes through), `RunIsFold` that
any such list ends in the fold, and `FoldConcat` what a fold makes of a concatenation. The constant `op` is
the step; an `INSTANCE ... WITH op <- LAMBDA ...` gives these facts for the step of a diff, of a test run, of
a filter and of a flattening.

**AlgorithmsProofs**: each part first for inputs of any size, then for what the run probes.

- *Reductions.* `EveryStatusAgrees`: whatever a reducer counts, its header and its status judge the same
  count and exit code; the one case that looks at the lines, the empty JSON document, is a count equal to
  the length (`CountedAll`).
- *Diffs.* `EveryDiffIsCounted`: the sequences of names that the fold collects are as many copies of each
  file's name as its content has lines of that sign (`ContentFold`, `FileDiffFold`), and headers add none.
  `EveryFileIsCounted` is the same for any lines of any number of files, which may come back or be empty: a
  changed line counts for the file of the last header above it, one above every header for none. The invariant
  (`KnowsDiff`) says after each line which header that is (`IsAt`, `OneLastHeader`) and that each count so far is
  the size of a set of positions (`AreMarks`); a line adds at most one position (`MarksGrow`, `MarksStay`).
- *Test summaries.* `EveryTestSummaryIsTrue`, of two harnesses: where the reducer stands after each piece of what
  libtest prints (`AfterTwo`, `FailurePartFold`, `HarnessFold`). A failing test may print anything but the two
  lines the reducer lives by (`Printable`); the sets of failing tests are any finite sets. `EveryRunIsSummed` is
  the same for any number of harnesses, by induction over them (`NextHarness`, `RunFold`); the sums it compares
  with are given by their recurrences (`SumsPassed`, `SumsFailed`), and no sum of failures is 0 but that of
  none (`FailuresAddUp`).
- *The order of keys.* Nothing is assumed of `KeyBefore` but that it is a strict total order of the keys of
  the walk at hand (`AreOrdered`, `IsSortable`); of the run's keys, TLC evaluates `KeyOrderAssumption`.
  `SortedByKey` then has the records of the table and no others (`SortedElements`), each key's in their order
  (`SortedUnder`), and of the records at one position the one whose key stands first (`FirstByKey`). Tables
  that agree under every key are sorted alike (`SortedAlike`).
- *The graph.* `BuiltGraphIsValid`, `NoUseIsInvented` and `NoUseIsLost` hold for every table of symbols whose
  keys are ordered, so of full and incremental builds alike: the candidates of a mention are exactly narrowed, never emptied, by
  nearness and by kind (`CandidatesAreNamed`), and of the uses of one name the most specific is a mention
  (`MostSpecificUse`). `NoUseIsLost` assumes that a use has one of the three forms that mentions.rs gives.
- *Rebuilding.* `RebuildIsFull`: what is reused for a file that did not change is just what it would give
  (`ReusedIsExtracted`), since path and package tell the files of a walk apart (`IsWalk`) and the records of
  one file, which the old graph has in the order of their keys, are under each key those of one piece of the
  old table (`UnderAmong`, `AmongFlattened`); so the new table agrees with the full one under every key and is
  sorted alike.
- *Whole graphs.* `EveryGraphIsClosed`: a graph built from nothing has the records of all its files
  (`SymbolsOfAll`), and every module path on the way to an item is made by some `mod` (`PathsAreMade`). It
  assumes that items stand in the order of the walk (`AreWalked`) and that the module a file stands for is
  declared (`IsMade`): a file that no `mod` names gives symbols in a module the graph does not have.
- *Expansions.* `ExpansionsShowSubjects`, of any graph that knows the packages and prefixes of the owners of
  paths (`Knows`): the walker's keys are the graph's keys (`WalkerKnows`), and the selection at each level is
  the set of the subjects' keys (`RecordsHaveKeys`, `SymbolIsFound`, `RelatedSeedAreKeys`). The owner of a path
  is the file whose first key stands before the first keys of the path's other files (`Owns`), wherever the
  walk comes to it. `OwnerIsKnown` shows that a built graph knows it: a file's first symbol is enclosed by
  nothing (`FirstSymbol`), so the records of all the path's files that are foremost are those of their
  first symbols (`ForemostIs`), and sorting puts the owner's first. Together they are `EveryExpansionIsItsSubjects`. What is
  shown of a path is said for its owner only: for the other packages `SubjectIsShown` (run `Rendering`)
  has the counterexample. It
  is said of bodies whose offsets are right at their end (`Removable`), whatever `lead` is and whatever
  `StillParses` lets through; for the others see that run too.
- *The trees of the run* meet these hypotheses: `TemplatesFit`, `TreeIsWalked`, `TreeIsOrdered`.
- *Command lines.* `EveryLineIsParsed`, for a line of any words. The grammar knows nothing of the parser: a cut
  is a set of positions, and what holds at a position (`StateAt`) is read off the phrases before it. One phrase
  makes of the parser what the cut says (`PhraseIsRead` for the words, `StateStep` for the cut), so a run of
  the parser passes through `StateAt` at every position of a cut (`CutIsRead`, by induction up to the length)
  and wants a word everywhere else: the cut can only be `Ends`, where the parser wants none (`CutEnds`). The
  other way round, where the parser never finds an error the word after such a position opens a right phrase
  and the words it wants close it (`NextPhrase`), so `Ends` is a cut (`SoundIsCut`). `DashAssumption`: the
  flags of `apply_flag` begin with a dash, the names in `parse_command` do not; nothing is assumed of any
  other word, and a value may be a flag or a command.

A `CASE` whose guards overlap stands for any of its arms: TLC takes the first, a proof may not. Where the
code tries one condition after another (`TestLine`, `Classify`, the words of a command line, the exit
codes of the commands) the model therefore says `IF ... THEN ... ELSE` in the code's order.

## 6. Only model-checked

Liveness: `IndexSettles`, `ServerSettles`, `Terminates`, `RelatedTerminates`, and the fairness conjunct of
`KeepsContract` (temporal reasoning under fairness and ENABLED are outside the prover's reach).
Every invariant of every passing run is a theorem. Those of `Context` are theorems of `Spec` and of
`RelatedSpec`, whose steps are those of `ContextSpec`.

## 7. Not modelled, and why

- *Manifest, privacy, identifiers*: functions of one value; exclusion is the constant `Excludes`.
- *Cargo index*: decodes `cargo metadata`; its package list is given.
- *Evaluation harness*: offline measurement and reports.
- *Contents of `registry.json`, `integration --write`*: whether the file loads is all that is modelled.
- *Renderers, help, JSON layout; inferring a tool from its command line; signatures, attributes and
  line markers of skeletons; dependency edges and cross-repository links*.
- Within what is modelled: digest collisions, partial writes of `worktree-state` (a short line,
  which a reader would take for a different state), the deserialisation of graphs of another
  schema (both are `NoGraph`), the test provider, and clearing or exporting the decision log.

## 8. Plan

Written, in this order: `WorkingTree` and `IndexLifecycle` (the behaviour everything else trusts),
its invariant and proofs; `ContextSelection`; `RelatedKeys`; `DecisionContract` and `Decisions`;
`CommandLine`, `ToolReduction`, `SourceGraph` and `Representation`; `Onboarding`, `EntryCache` and
`RawStore` with their proofs.

Left:

1. The contents of the registry: lost updates between `register` and `integration --write`.
2. Redaction and exclusion as operators over tokens, against a reference.
3. `IndexLifecycle`: a variant whose fingerprint covers `.tpt-weave`; an abstract specification of
   "an index of some tree since the run began".
