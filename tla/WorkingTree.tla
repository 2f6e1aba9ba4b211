---------------------------- MODULE WorkingTree ----------------------------
(***************************************************************************)
(* The repository that tpt-weave reads: the working tree, the git history  *)
(* and the local manifest, as people and git change them, together with    *)
(* what crates/tpt-weave-index/src/git.rs computes from them.  A source    *)
(* text is opaque (a member of Texts); Absent stands for "no such file".   *)
(***************************************************************************)
EXTENDS Naturals, Sequences

CONSTANTS
  Files,        \* repository-relative paths of the Rust sources
  Texts,        \* what a file may contain, Absent included
  Absent,       \* the file does not exist
  Ignored,      \* files git ignores: walked by the indexer, unseen by git status
  Manifests,    \* contents .tpt-weave/manifest.toml takes, NoManifest if it may be missing
  NoManifest,   \* there is no manifest
  InGit,        \* the root is inside a git work tree
  Revisiting,   \* edits may bring back a text or manifest that was there before
  NoRevision,   \* git.rs NO_REVISION: the revision recorded outside git
  NoState,      \* no working-tree state: outside git, or no record on disk
  MaxCommits    \* bound on the number of commits

ASSUME WorkingTreeAssumption ==
  /\ Absent \in Texts
  /\ Ignored \subseteq Files
  /\ InGit \in BOOLEAN
  /\ Revisiting \in BOOLEAN
  /\ MaxCommits \in Nat \ {0}
  /\ NoRevision \notin Nat

VARIABLES
  tree,          \* the text of each file
  manifest,      \* the content of the manifest
  commits,       \* the tree of each commit, in the order they were made
  head,          \* the commit HEAD names
  newerManifest, \* the manifest's mtime is later than graph.json's
  seen,          \* history: every <<file, text>> the tree ever held
  seenManifests  \* history: every content the manifest ever had

treeVars == <<tree, manifest, commits, head, newerManifest, seen, seenManifests>>

Trees     == [Files -> Texts]
Revisions == Nat \cup {NoRevision}

(***************************************************************************)
(* Init: a fresh checkout, nothing uncommitted but the ignored files.      *)
(***************************************************************************)
Tracked(t) == [f \in Files |-> IF f \in Ignored THEN Absent ELSE t[f]]

TreeInit ==
  /\ tree \in Trees
  /\ manifest \in Manifests
  /\ commits = <<Tracked(tree)>>
  /\ head = 1
  /\ newerManifest = FALSE
  /\ seen = {<<f, tree[f]>> : f \in Files}
  /\ seenManifests = {manifest}

(***************************************************************************)
(* The content-aware digest of git.rs.  worktree_fingerprint is "clean"    *)
(* (here the empty set) when nothing differs from HEAD, and otherwise      *)
(* covers the diff against HEAD and the untracked texts; worktree_state    *)
(* adds the manifest.  The digest is taken to be free of collisions.       *)
(***************************************************************************)
WorktreeFingerprint ==
  {<<f, commits[head][f], tree[f]>> :
     f \in {g \in Files \ Ignored : tree[g] # commits[head][g]}}

WorktreeState ==
  IF InGit THEN [manifest |-> manifest, diff |-> WorktreeFingerprint] ELSE NoState

CurrentRevision == IF InGit THEN head ELSE NoRevision

TakenStates == [manifest : Manifests, diff : SUBSET (Files \X Texts \X Texts)]
States      == TakenStates \cup {NoState}

ASSUME NoStateAssumption == NoState \notin TakenStates

(***************************************************************************)
(* The steps of people and of git.                                         *)
(***************************************************************************)
Remember(t) == seen' = seen \cup {<<f, t[f]>> : f \in Files}

\* An editor saves a file, creates one or deletes one.
Edit(f, t) ==
  /\ t # tree[f]
  /\ Revisiting \/ <<f, t>> \notin seen
  /\ tree' = [tree EXCEPT ![f] = t]
  /\ Remember(tree')
  /\ UNCHANGED <<manifest, commits, head, newerManifest, seenManifests>>

\* The manifest is written or removed; a removed one has no mtime at all.
EditManifest(m) ==
  /\ m # manifest
  /\ Revisiting \/ m \notin seenManifests
  /\ manifest' = m
  /\ seenManifests' = seenManifests \cup {m}
  /\ newerManifest' = (m # NoManifest)
  /\ UNCHANGED <<tree, commits, head, seen>>

\* A commit of the files in S; other uncommitted changes stay uncommitted.
Commit(S) ==
  /\ InGit
  /\ Len(commits) < MaxCommits
  /\ commits' = Append(commits,
                  [f \in Files |-> IF f \in S THEN tree[f] ELSE commits[head][f]])
  /\ head' = Len(commits) + 1
  /\ UNCHANGED <<tree, manifest, newerManifest, seen, seenManifests>>

\* git checkout of another commit over a clean tree; ignored files stay.
Checkout(c) ==
  /\ InGit /\ Revisiting
  /\ c # head
  /\ WorktreeFingerprint = {}
  /\ head' = c
  /\ tree' = [f \in Files |-> IF f \in Ignored THEN tree[f] ELSE commits[c][f]]
  /\ Remember(tree')
  /\ UNCHANGED <<manifest, commits, newerManifest, seenManifests>>

TreeNext ==
  \/ \E f \in Files, t \in Texts : Edit(f, t)
  \/ \E m \in Manifests : EditManifest(m)
  \/ \E S \in SUBSET (Files \ Ignored) : Commit(S)
  \/ \E c \in DOMAIN commits : Checkout(c)

TreeTypeOK ==
  /\ tree \in Trees
  /\ manifest \in Manifests
  /\ commits \in Seq(Trees)
  /\ head \in DOMAIN commits
  /\ newerManifest \in BOOLEAN
  /\ seen \subseteq Files \X Texts
  /\ seenManifests \subseteq Manifests
============================================================================
