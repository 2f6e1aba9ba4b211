---------------------------- MODULE CommandLine ----------------------------
(***************************************************************************)
(* tpt-weave-cli: how the words of an invocation become a command with its *)
(* settings.  The parser takes the words one by one and never looks back;  *)
(* a word that wants a value takes the next one, whatever it looks like.   *)
(***************************************************************************)
EXTENDS Naturals, Sequences, FiniteSets, Functions, SequencesExt

CONSTANTS
  IsBudget(_),     \* the words that read as a u32
  IsNumeral(_, _), \* the words that read as a u8, and its value: `3`, `03` and `+3` are one
  IsDash(_)        \* the words that begin with `-` and are not `-` itself

(* The vocabulary.                                                         *)

Switches == {"--json", "--compact", "--no-color", "--verbose", "--strict-decisions"}

Aliases == [w \in {"-v", "-h", "-V", "--max-level"} |->
              CASE w = "-v" -> "--verbose" [] w = "-h" -> "--help"
                [] w = "-V" -> "--version" [] w = "--max-level" -> "--level"]

Spelled(w) == IF w \in DOMAIN Aliases THEN Aliases[w] ELSE w

\* The flags that replace the command.
Replaces == [w \in {"--help", "--version"} |-> IF w = "--help" THEN "help" ELSE "version"]

\* The commands an option belongs to, those that take a value apart.
Marks == [o \in {"--force", "--write", "--full", "--no-deps"} |->
            CASE o = "--force" -> {"init"}  [] o = "--write"   -> {"integration"}
              [] o = "--full"  -> {"index"} [] o = "--no-deps" -> {"context"}]

Valued == [o \in {"--duration", "--budget", "--level", "--kind", "--package"} |->
             CASE o = "--duration" -> {"workload"}
               [] o = "--budget"   -> {"context"}
               [] o = "--level"    -> {"expand", "context", "skeleton"}
               [] OTHER            -> {"expand"}]

\* A level is given by its number or its name; what is kept is the number.
LevelNames == <<"metadata", "symbols", "signatures", "skeleton", "implementation", "full">>
Levels(w)  == {n \in 0..5 : IsNumeral(w, n) \/ w = LevelNames[n + 1]}

ValueOk(option, w) == CASE option = "--budget" -> IsBudget(w)
                        [] option = "--level"  -> Levels(w) # {}
                        [] OTHER               -> TRUE

ValueOf(option, w) == IF option = "--level" THEN CHOOSE n \in Levels(w) : TRUE ELSE w

Alone   == {"adopt", "init", "index", "doctor", "overview", "diff", "stats", "help", "version"}
WithArg == {"symbol", "refs", "expand", "context", "skeleton", "workload"}

\* The second words of the commands that have actions.
Actions == [c \in {"integration", "experiment", "cache"} |->
              CASE c = "integration" -> {"agent", "mcp", "registry"}
                [] c = "experiment"  -> {"accuracy"}
                [] c = "cache"       -> {"status", "clear"}]

(* The parser: what is read so far, and the word that still wants a value. *)

Start == [command |-> "", args |-> <<>>, options |-> <<>>, globals |-> <<>>,
          wants |-> "", usage |-> FALSE]

Usage(s) == [s EXCEPT !.usage = TRUE]

\* The value of an option that takes none.
On == TRUE

Set(settings, name, value) == [n \in DOMAIN settings \cup {name} |->
                                 IF n = name THEN value ELSE settings[n]]

\* Mutant of NewCommand: a command that replaces another keeps its options.
KeepOptions(s, c) == [s EXCEPT !.command = c, !.args = <<>>]

NewCommand(s, c) == [s EXCEPT !.command = c, !.args = <<>>, !.options = <<>>]

\* The value is taken from the line before it or its option is looked at.
TakeValue(s, w) ==
  LET o == s.wants
      t == [s EXCEPT !.wants = ""]
  IN CASE o = "--path" -> [t EXCEPT !.globals = Set(@, o, w)]
       [] o \in DOMAIN Valued ->
            IF ValueOk(o, w) /\ s.command \in Valued[o]
            THEN [t EXCEPT !.options = Set(@, o, ValueOf(o, w))] ELSE Usage(t)
       [] o \in DOMAIN Actions ->
            IF w \notin Actions[o] THEN Usage(t)
            ELSE [t EXCEPT !.args = <<w>>, !.wants = IF w = "accuracy" THEN "corpus" ELSE ""]
       [] OTHER -> [t EXCEPT !.args = Append(@, w)]

ApplyFlag(s, f) ==
  CASE f \in Switches        -> [s EXCEPT !.globals = Set(@, f, On)]
    [] f \in DOMAIN Replaces -> NewCommand(s, Replaces[f])
    [] f \in DOMAIN Marks    -> IF s.command \in Marks[f]
                                THEN [s EXCEPT !.options = Set(@, f, On)] ELSE Usage(s)
    [] f \in DOMAIN Valued \cup {"--path"} -> [s EXCEPT !.wants = f]
    [] OTHER                 -> Usage(s)

ParseCommand(s, w) ==
  CASE w \in Alone -> NewCommand(s, w)
    [] w \in WithArg \cup DOMAIN Actions -> [NewCommand(s, w) EXCEPT !.wants = w]
    [] OTHER -> Usage(s)

ReadWord(s, w) ==
  IF s.usage THEN s
  ELSE IF s.wants # "" THEN TakeValue(s, w)
  ELSE IF IsDash(w) THEN ApplyFlag(s, Spelled(w))
  ELSE IF s.command # "" THEN Usage(s)
  ELSE ParseCommand(s, w)

\* The line ends: only `cache` can do without what it wants.
Finish(s) ==
  IF s.usage THEN s
  ELSE IF s.wants = "cache" THEN [s EXCEPT !.args = <<"status">>, !.wants = ""]
  ELSE IF s.wants # "" THEN Usage(s)
  ELSE IF s.command = "" THEN NewCommand(s, "help")
  ELSE s

Parse(words) == Finish(FoldLeft(ReadWord, Start, words))

(* What the rest of the program makes of it.                               *)

JsonMode(cli) == {"--json", "--compact"} \cap DOMAIN cli.globals # {}

\* One line of JSON wins over several.
Format(cli) == IF "--compact" \in DOMAIN cli.globals THEN "compact"
               ELSE IF "--json" \in DOMAIN cli.globals THEN "json"
               ELSE "human"

\* A usage error is printed as plain text: the flags read so far are lost with the line.
ErrorShape(cli) == IF ~cli.usage /\ JsonMode(cli) THEN "json" ELSE "plain"
=============================================================================
