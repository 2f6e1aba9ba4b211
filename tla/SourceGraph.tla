---------------------------- MODULE SourceGraph ----------------------------
(***************************************************************************)
(* tpt-weave-rust and tpt-weave-graph: from the items of source files to   *)
(* symbol records and mentions, and from those to the repository graph.    *)
(*                                                                         *)
(* A file is [path, package, prefix, items]; its items stand in the order  *)
(* of the depth-first walk and `up` is the number of the enclosing one.    *)
(* An item is [kind, name, trait, up, pub, test, uses, body]: for an impl, *)
(* `name` is its type and `trait` the trait or ""; `uses` are the          *)
(* identifiers in it, [name, form]; `body` is what Representation cuts.    *)
(* Names are sequences: <<"Type", "method">> stands for `Type::method` and *)
(* <<"as", "Type", "Trait">> for `<Type as Trait>`.                        *)
(***************************************************************************)
EXTENDS Naturals, Sequences, FiniteSets, SequencesExt

CONSTANT KeyBefore(_, _)  \* canonical keys, written as strings, in their order

\* The elements of a sequence that are in S, in their order.
Among(seq, S) == FoldLeft(LAMBDA kept, x : IF x \in S THEN Append(kept, x) ELSE kept, <<>>, seq)

(* Extraction (parse.rs).                                                  *)

SymbolKind == [k \in {"mod", "struct", "enum", "fn", "const", "static", "assoc",
                      "type", "macro", "trait", "impl", "method"} |->
                 CASE k = "mod"                 -> "module"
                   [] k \in {"static", "assoc"} -> "const"
                   [] OTHER                     -> k]

\* `use`, foreign items, associated types and a trait's constants are no symbols.
IsSymbol(f, i) ==
  /\ f.items[i].kind \in DOMAIN SymbolKind
  /\ f.items[i].kind = "assoc" => f.items[f.items[i].up].kind = "impl"

\* The module path inside item i, and at i = 0 that of the file.
PathIn(f) ==
  LET path[i \in 0 .. Len(f.items)] ==
        IF i = 0 THEN f.prefix
        ELSE IF f.items[i].kind = "mod" THEN Append(path[f.items[i].up], f.items[i].name)
        ELSE path[f.items[i].up]
  IN path

NameOf(f, i) ==
  LET it == f.items[i]
  IN CASE it.kind \in {"method", "assoc"}        -> <<f.items[it.up].name, it.name>>
       [] it.kind = "impl" /\ it.trait # ""      -> <<"as", it.name, it.trait>>
       [] OTHER                                  -> <<it.name>>

\* The canonical key joins module path and name, and drops where one ends.
KeyOf(id) == <<id.package, id.module \o id.name, id.kind>>

IdOf(f, i) == [package |-> f.package, module |-> PathIn(f)[f.items[i].up],
               name |-> NameOf(f, i), kind |-> SymbolKind[f.items[i].kind]]

NoKey == <<>>

Record(f, i) ==
  [id     |-> IdOf(f, i),
   file   |-> f.path,
   pos    |-> i,
   pub    |-> f.items[i].pub /\ f.items[i].kind \notin {"macro", "impl"}
              /\ (f.items[i].kind = "method" => f.items[f.items[i].up].kind # "trait"),
   test   |-> f.items[i].test,
   parent |-> IF f.items[i].up = 0 THEN NoKey ELSE KeyOf(IdOf(f, f.items[i].up))]

Extract(f) ==
  LET here == Among([i \in DOMAIN f.items |-> i], {i \in DOMAIN f.items : IsSymbol(f, i)})
  IN [n \in DOMAIN here |-> Record(f, here[n])]

(* Mentions (mentions.rs).                                                 *)

Rank(form) == CASE form = "call" -> 3 [] form = "method" -> 2 [] form = "path" -> 1

\* The identifiers in an item: an impl names its type and its trait.
UsesOf(f, i) ==
  LET it == f.items[i]
  IN it.uses \cup (IF it.kind # "impl" THEN {}
                   ELSE {[name |-> n, form |-> "path"] : n \in {it.name, it.trait} \ {""}})

\* The simple name of the symbol walked; that of a trait impl matches no identifier.
OwnName(f, i) == IF NameOf(f, i)[1] = "as" THEN "" ELSE Last(NameOf(f, i))

\* One mention for each name, with its most specific form, and none of the own name.
Mentions(f) ==
  UNION {{[file |-> f.path, pos |-> i,
           from |-> KeyOf(IdOf(f, i)), name |-> u.name, form |-> u.form] :
            u \in {v \in UsesOf(f, i) :
                     /\ v.name # OwnName(f, i)
                     /\ \A w \in UsesOf(f, i) : w.name = v.name => Rank(w.form) <= Rank(v.form)}} :
         i \in {j \in DOMAIN f.items : IsSymbol(f, j) /\ f.items[j].kind \notin {"mod", "macro"}}}

(* The graph (builder.rs).                                                 *)

\* Mutant of Reused: the path alone tells whose records they are.
ReusedByPath(previous, f) ==
  Among(previous.symbols, {s \in ToSet(previous.symbols) : s.file = f.path})

\* Records of the previous graph stand in for those of a file that did not change.
Reused(previous, f) ==
  Among(previous.symbols,
        {s \in ToSet(previous.symbols) : s.file = f.path /\ s.id.package = f.package})

SymbolsOf(f, previous, changed) ==
  IF f.path \notin changed /\ Extract(f) # <<>> /\ Reused(previous, f) # <<>>
  THEN Reused(previous, f) ELSE Extract(f)

SymbolTable(files, previous, changed) ==
  FlattenSeq([i \in DOMAIN files |-> SymbolsOf(files[i], previous, changed)])

ModuleNodes(symbols) ==
  LET of(s) == s.id.module \o s.id.name
  IN {[package |-> s.id.package, path |-> of(s), parent |-> Front(of(s))] :
        s \in {t \in ToSet(symbols) : t.id.kind = "module"}}

\* A method answers to its bare name.
Answers(id, name) == id.name = <<name>> \/ (id.kind = "method" /\ Last(id.name) = name)

\* The kinds a form of mention is taken for when it can be.
PreferredKinds(form) ==
  CASE form = "call"   -> {"fn"}
    [] form = "method" -> {"method"}
    [] form = "path"   -> {"struct", "enum", "trait", "type", "module", "const"}

\* The records under a key, in their order.
Under(symbols, key) == Among(symbols, {s \in ToSet(symbols) : KeyOf(s.id) = key})

\* What a mention may mean: what answers to its name and is not what it comes from.
Answering(symbols, mention) ==
  {s \in ToSet(symbols) : Answers(s.id, mention.name) /\ KeyOf(s.id) # mention.from}

\* Nearest first: the module of the origin, its package, everything.
Nearest(origin, records) ==
  LET InPackage == {s \in records : s.id.package = origin.package}
      InModule  == {s \in InPackage : s.id.module = origin.module}
  IN IF InModule # {} THEN InModule ELSE IF InPackage # {} THEN InPackage ELSE records

\* Those of the kind that the mention looks like.
Liked(records, mention) == {s \in records : s.id.kind \in PreferredKinds(mention.form)}

\* Mutant of ResolveCandidates: a mention that is not of the kind it looks like is dropped.
PreferredOnly(symbols, origin, mention) ==
  Liked(Nearest(origin, Answering(symbols, mention)), mention)

ResolveCandidates(symbols, origin, mention) ==
  LET tier == Nearest(origin, Answering(symbols, mention))
  IN IF Liked(tier, mention) = {} THEN tier ELSE Liked(tier, mention)

EdgeKind(origin, target, form) ==
  IF form # "path" THEN form
  ELSE CASE target.kind = "trait" /\ origin.kind = "impl" -> "traitImpl"
         [] target.kind = "module"                        -> "path"
         [] OTHER                                         -> "type"

\* What a mention resolves to; the origin is the last record under its key.
Resolved(symbols, mention) ==
  LET under  == Under(symbols, mention.from)
      origin == Last(under).id
  IN IF under = <<>> THEN {}
     ELSE {[from |-> mention.from, to |-> KeyOf(s.id),
            kind |-> EdgeKind(origin, s.id, mention.form)] :
             s \in ResolveCandidates(symbols, origin, mention)}

\* A set of keys in their order: n - 1 of them stand before the n-th.
Ranked(keys) ==
  LET before == [k \in keys |-> Cardinality({l \in keys : KeyBefore(l, k)})]
  IN [n \in 1 .. Cardinality(keys) |-> CHOOSE k \in keys : before[k] = n - 1]

\* The stable sort by canonical key, which comes after everything was resolved.
SortedByKey(symbols) ==
  LET order == Ranked({KeyOf(s.id) : s \in ToSet(symbols)})
  IN FlattenSeq([n \in DOMAIN order |-> Under(symbols, order[n])])

Build(files, previous, changed) ==
  LET symbols  == SymbolTable(files, previous, changed)
      keys     == {KeyOf(s.id) : s \in ToSet(symbols)}
      mentions == {m \in UNION {Mentions(files[i]) : i \in DOMAIN files} : m.from \in keys}
  IN [symbols    |-> SortedByKey(symbols),
      modules    |-> ModuleNodes(symbols),
      references |-> UNION {Resolved(symbols, m) : m \in mentions},
      unresolved |-> Cardinality({m \in mentions : Resolved(symbols, m) = {}})]

NoGraph == [symbols |-> <<>>, modules |-> {}, references |-> {}, unresolved |-> 0]

BuildAll(files) == Build(files, NoGraph, {})

(* Queries (model.rs).  A key may have several records; a lookup returns   *)
(* the first, in the order of the walk.                                    *)

Keys(g) == {KeyOf(s.id) : s \in ToSet(g.symbols)}

Symbol(g, key) == Under(g.symbols, key)[1]

Related(g, key, kinds) == {e.to : e \in {r \in g.references : r.from = key /\ r.kind \in kinds}}
Relating(g, key, kinds) == {e.from : e \in {r \in g.references : r.to = key /\ r.kind \in kinds}}

CalleesOf(g, key)       == Related(g, key, {"call", "method"})
CallersOf(g, key)       == Relating(g, key, {"call", "method"})
TypeRelationsOf(g, key) == Related(g, key, {"type"})
TraitImplsOf(g, key)    == Relating(g, key, {"traitImpl"})

\* The impl blocks of a type, whatever its module: they are found by its simple name.
ImplsOf(g, type) ==
  {s \in ToSet(g.symbols) : /\ s.id.kind = "impl"
                            /\ s.id.name = <<type>> \/ (s.id.name[1] = "as" /\ s.id.name[2] = type)}

PublicApi(g, package) == {s \in ToSet(g.symbols) : s.id.package = package /\ s.pub}

\* What related_keys starts from; RelatedKeys is about what it makes of it.
RelatedSeed(g, key) ==
  LET subject == Symbol(g, key)
      impls   == IF subject.id.kind \in {"struct", "enum", "type"}
                 THEN ImplsOf(g, subject.id.name[1]) ELSE {}
  IN {key} \cup CalleesOf(g, key) \cup CallersOf(g, key) \cup TypeRelationsOf(g, key)
       \cup TraitImplsOf(g, key) \cup Relating(g, key, {"type", "traitImpl"})
       \cup {KeyOf(s.id) : s \in impls}

\* What `save` demands of a graph before it writes it.
Validate(g) == \A e \in g.references : e.from \in Keys(g) /\ e.to \in Keys(g)
=============================================================================
