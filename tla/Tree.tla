--------------------------------- MODULE Tree ---------------------------------
(***************************************************************************)
(* The scan of a checkout for what would be loaded or run from it          *)
(* (security/repo-hazards.ts): found and recorded always, and, of a        *)
(* neutralizing scan, moved aside or commented out.                        *)
(*                                                                         *)
(* An entry is [is |-> "absent" | "link" | "file" | "dir" | "other"] with  *)
(* the entries of a directory and the lines of a text; a line of git's     *)
(* configuration is the section headers it opens and the key after them.   *)
(***************************************************************************)
EXTENDS Naturals, Sequences, SequencesExt, FiniteSets, FiniteSetsExt, Functions

CONSTANTS Plain,          \* INSTRUCTION_FILES, MCP_FILES, PI_SETTINGS_FILES, in order
          Parents,        \* DISCOVERY_PARENT_DIRS
          Dirs,           \* PI_DIRS
          Under,          \* Under[path]: the parent directory it is in, or "root"
          ConfigHazards,  \* CONFIG_HAZARDS: {<<section, key>>}
          MaxText, MaxEntries, MaxDepth

Exists(entry) == entry.is # "absent"
Record(path, neutralized) == [path |-> path, neutralized |-> neutralized]
Scanned(tree, records) == [tree |-> tree, records |-> records]

\* quarantine: five names aside, and a rename that may fail.
AsideNames == 5
Movable(entry) == entry.taken < AsideNames /\ ~entry.stuck
Moved(entry) == [entry EXCEPT !.is = "absent", !.taken = @ + 1]

\* defuse: one entry, recorded as moved or not.
Defused(s, path, neutralize) ==
    LET moves == neutralize /\ Movable(s.tree[path])
    IN Scanned(IF moves THEN [s.tree EXCEPT ![path] = Moved(@)] ELSE s.tree,
               Append(s.records, Record(path, moves)))

-----------------------------------------------------------------------------
(* What is loaded by name.                                                 *)

\* A path under a linked parent is the parent's matter; a discovery directory
\* that is one, and empty, loads nothing.
Linked(tree, path) == path \in Parents /\ tree[path].is = "link"
Loaded(tree, path) ==
    /\ Exists(tree[path])
    /\ Under[path] \in Parents => ~Linked(tree, Under[path]) /\ Exists(tree[Under[path]])
    /\ path \in Parents => Linked(tree, path)
    /\ path \in Dirs => tree[path].is # "dir" \/ tree[path].entries > 0
ScanPath(s, path, neutralize) ==
    IF Loaded(s.tree, path) THEN Defused(s, path, neutralize) ELSE s

-----------------------------------------------------------------------------
(* git's own files, of a .git that is a directory.                         *)

\* The headers a line opens stay in force until another line's.
SectionAt(lines, i) ==
    LET opened == FoldLeft(LAMBDA all, line : all \o line.headers, <<"none">>, SubSeq(lines, 1, i))
    IN Last(opened)
\* A key that names a program git runs, or more configuration.
NamesProgram(section, key) == <<section, key>> \in ConfigHazards
Offends(path, lines, i) ==
    IF path \in {"config", "config.worktree"}
    THEN NamesProgram(SectionAt(lines, i), lines[i].key)
    ELSE lines[i].key = "driver"
Offenders(path, lines) == {i \in DOMAIN lines : Offends(path, lines, i)}

\* The header of an offending line keeps a line of its own: what follows is
\* still in its section.
Quarantined(line) == [line EXCEPT !.key = "comment"]
Rewritten(path, lines) ==
    [i \in DOMAIN lines |-> IF Offends(path, lines, i) THEN Quarantined(lines[i]) ELSE lines[i]]

\* renamePlain: one name only, over whatever holds it.
MovedPlain(entry) == [entry EXCEPT !.is = "absent"]

\* scanOneGitConfig and scanGitAttributes: a link is moved, what cannot be
\* read is recorded and left, and the offending lines are commented out
\* together, one record to each.
ScanText(s, path, neutralize) ==
    LET entry == s.tree[path]
        found == Offenders(path, entry.lines)
        writes == neutralize /\ ~entry.stuck
        report(done) == Scanned(s.tree, Append(s.records, Record(path, done)))
    IN CASE entry.is = "absent" -> s
         [] entry.is = "link" ->
               IF writes THEN Scanned([s.tree EXCEPT ![path] = MovedPlain(@)],
                                      Append(s.records, Record(path, TRUE)))
               ELSE report(FALSE)
         [] entry.is \in {"dir", "other"} -> report(FALSE)
         [] entry.is = "file" /\ (Len(entry.lines) > MaxText \/ ~entry.readable) -> report(FALSE)
         [] OTHER ->
               Scanned(IF writes THEN [s.tree EXCEPT ![path].lines = Rewritten(path, @)] ELSE s.tree,
                       s.records \o [k \in 1..Cardinality(found) |-> Record(path, writes)])

ScanConfigs(s, neutralize) ==
    FoldLeft(LAMBDA t, path : ScanText(t, path, neutralize), s, <<"config", "config.worktree">>)

\* scanGitAlternates: recorded, and never touched.
ScanAlternates(s) ==
    LET entry == s.tree["alternates"] IN
    CASE entry.is = "absent" -> s
      [] entry.is = "file" /\ entry.readable /\ Len(entry.lines) <= MaxText ->
            Scanned(s.tree, s.records \o [k \in DOMAIN entry.lines |-> Record("alternates", FALSE)])
      [] OTHER -> Scanned(s.tree, Append(s.records, Record("alternates", FALSE)))

\* scanGitHooks: an entry git would run, or that is no file at all.  A name
\* that ends in the suffix is passed over; a numbered one is not.
Runs(hook) ==
    /\ hook.name \notin {"sample", "aside"}
    /\ hook.is \in {"link", "other"} \/ (hook.is = "file" /\ hook.exec)
AsideHook(hook) == [hook EXCEPT !.name = IF @ = "plain" /\ hook.taken > 0 THEN "numbered" ELSE "aside",
                                !.exec = @ /\ hook.taken > 0, !.taken = 0]
ScanHooks(s, neutralize) ==
    LET entry == s.tree["hooks"]
        moves(h) == neutralize /\ Movable(h)
        run == SelectSeq(entry.hooks, Runs)
    IN CASE entry.is = "link" -> Defused(s, "hooks", neutralize)
         [] entry.is \in {"absent", "file", "other"} -> s
         [] entry.is = "dir" /\ Len(entry.hooks) > MaxEntries ->
               Scanned(s.tree, Append(s.records, Record("hooks", FALSE)))
         [] OTHER ->
               Scanned([s.tree EXCEPT !["hooks"].hooks =
                          [i \in DOMAIN @ |-> IF Runs(@[i]) /\ moves(@[i]) THEN AsideHook(@[i]) ELSE @[i]]],
                       s.records \o [k \in DOMAIN run |-> Record("hook", moves(run[k]))])

\* nestedAttributeFiles: by directories that are no links, to a depth; what
\* is too deep or too full is recorded, and what cannot be listed is not.
Walk(s, below) ==
    LET deep == {d \in below : ~d.link /\ (d.depth > MaxDepth \/ (d.listed /\ d.entries > MaxEntries))}
        read == {d \in below : ~d.link /\ d.listed /\ d.depth <= MaxDepth /\ d.entries <= MaxEntries}
    IN [s |-> Scanned(s.tree, s.records \o [k \in 1..Cardinality(deep) |-> Record("below", FALSE)]),
        found |-> {d \in {r.path : r \in read} : s.tree[d].is = "file"}]

ScanAttributes(s, neutralize) ==
    LET walked == Walk(s, s.tree["below"].dirs)
    IN FoldLeft(LAMBDA t, path : ScanText(t, path, neutralize), walked.s,
                <<"attributes">> \o SetToSeq(walked.found))

\* scanRepoHazards.
NamedPaths == Plain \o SetToSeq(Parents) \o SetToSeq(Dirs)
Scan(tree, neutralize) ==
    LET named == FoldLeft(LAMBDA s, path : ScanPath(s, path, neutralize), Scanned(tree, <<>>), NamedPaths)
        texts == ScanAttributes(ScanConfigs(named, neutralize), neutralize)
    IN CASE tree[".git"].is = "link" -> Defused(named, ".git", neutralize)
         [] tree[".git"].is = "dir" -> ScanHooks(ScanAlternates(texts), neutralize)
         [] OTHER -> named
=============================================================================
