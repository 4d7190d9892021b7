------------------------------ MODULE AppRoot ------------------------------
(***************************************************************************)
(* The signature of a live error, and whether a replay of it can be        *)
(* recognised by it.  A deployed app reports paths of wherever it was      *)
(* deployed; a reproduction runs in a worktree and reports paths of the    *)
(* repository.  `drums watch` without --app-root derives the deployment's  *)
(* prefix of each error from what git tracks (app_root.rs), remembers it,  *)
(* and cuts it out of the stack before the error is given a signature      *)
(* (engine-core).  The repository changes meanwhile.                       *)
(***************************************************************************)
EXTENDS Naturals, Sequences, FiniteSets, SequencesExt

CONSTANTS
    File,           \* the app's source files: paths of the repository
    Root,           \* where the app may be deployed
    Started,        \* the sets of files the repository may start with
    MAX_ENTRIES,    \* MAX_CACHE_ENTRIES
    MaxSigned,       \* bound: errors signed
    MaxCommits,     \* bound: commits that add or remove a file
    MaxFaults       \* bound: derivations that fail

\* A path is a sequence of components, a component a sequence of names: one that a
\* cut has glued together has several.
ASSUME AppRootAssumption ==
    /\ \A path \in File \cup Root : path \in Seq(Seq(STRING))
    /\ Started \subseteq SUBSET File /\ << >> \notin File
    /\ MAX_ENTRIES \in Nat \ {0} /\ MaxSigned \in Nat /\ MaxCommits \in Nat /\ MaxFaults \in Nat

VARIABLES
    tracked,    \* the files git tracks in the watched repository
    cache,      \* AppRootCache: paths looked up, and the prefix derived or NoPrefix
    looked,     \* for each of them, what was tracked when it was looked up
    signed,      \* the errors given a signature
    commits, faults

appRootVars == <<tracked, cache, looked, signed, commits, faults>>

\* No prefix derived, and the prefix of an app deployed at "/", cut nothing.
NoPrefix == << >>
NoFile == << >>

\* What an app prints of an error: the frames of a V8 stack, innermost first, of a
\* CPython traceback, outermost first, or of both, when one quotes the other.
\* A frame of a library or of the runtime is no file of the app.
Library == NoFile

\* raw_top_frame_path, and from_error alike: V8 wins wherever it has a frame.
FirstOfApp(frames) ==
    LET own == {i \in DOMAIN frames : frames[i] # Library}
    IN IF own = {} THEN NoFile ELSE frames[CHOOSE i \in own : \A j \in own : i <= j]
TopFrame(stack) ==
    IF stack.v8 # << >> THEN FirstOfApp(stack.v8) ELSE FirstOfApp(Reverse(stack.python))

-----------------------------------------------------------------------------
\* derive_app_root_prefix: the one suffix that git tracks, or nothing; depth is no
\* reason to prefer one.
Tracked(path) == Suffixes(path) \cap tracked
Without(path, suffix) == SubSeq(path, 1, Len(path) - Len(suffix))
DeriveDeepest(path) ==
    IF Tracked(path) = {} THEN NoPrefix
    ELSE Without(path, CHOOSE s \in Tracked(path) : \A t \in Tracked(path) : Len(s) <= Len(t))
DerivePrefix(path) ==
    IF \E s \in Tracked(path) : Tracked(path) = {s}
    THEN Without(path, CHOOSE s \in Tracked(path) : TRUE)
    ELSE NoPrefix

\* strip_prefix_from_stack: "prefix/" goes wherever the text has it.  A cut within a
\* path takes the slash before it too, and glues what was on either side.
OccursAt(path, prefix, i) ==
    /\ i + Len(prefix) < Len(path)
    /\ SubSeq(path, i + 1, i + Len(prefix)) = prefix
CutOnce(cut, prefix) ==
    LET places == {i \in cut.from .. Len(cut.path) : OccursAt(cut.path, prefix, i)}
        i == CHOOSE p \in places : \A q \in places : p <= q
        rest == SubSeq(cut.path, i + Len(prefix) + 1, Len(cut.path))
    IN CASE places = {} -> cut
         [] 0 \in places -> [path |-> rest, from |-> 1]
         [] OTHER -> [path |-> SubSeq(cut.path, 1, i - 1)
                                   \o << cut.path[i] \o rest[1] >> \o Tail(rest),
                      from |-> i]
\* Every cut makes the path shorter.
Cut(path, prefix) ==
    FoldLeft(LAMBDA cut, n : CutOnce(cut, prefix), [path |-> path, from |-> 0], path).path

Strip(path, prefix) ==
    IF prefix = NoPrefix THEN path ELSE Cut(path, prefix)

\* AppRootCache::derive: a path is looked up once, the answer that there is no prefix
\* included; at its bound the whole cache is dropped.
Cached(path) == path \in DOMAIN cache
Remember(c, path, answer) ==
    LET kept == IF Cardinality(DOMAIN c) >= MAX_ENTRIES THEN << >> ELSE c
    IN [p \in (DOMAIN kept) \cup {path} |-> IF p = path THEN answer ELSE kept[p]]

-----------------------------------------------------------------------------
AppRootInit ==
    /\ tracked \in Started
    /\ cache = << >> /\ looked = << >> /\ signed = << >>
    /\ commits = 0 /\ faults = 0

\* from_error, with the deployment's prefix cut or left.
Signed(file, path, prefix, atLook) ==
    signed' = Append(signed,
        [file |-> file, path |-> path, tracked |-> atLook,
         signature |-> IF path = NoFile THEN NoFile ELSE Strip(path, prefix)])

\* spawn_app_root_deriver, an error: its prefix derived or remembered.
SignError(stack, file) ==
    /\ Len(signed) < MaxSigned
    /\ LET path == TopFrame(stack)
       IN IF path = NoFile
          THEN Signed(file, path, NoPrefix, {}) /\ UNCHANGED <<cache, looked>>
          ELSE LET prefix == IF Cached(path) THEN cache[path] ELSE DerivePrefix(path)
                   atLook == IF Cached(path) THEN looked[path] ELSE tracked
               IN /\ Signed(file, path, prefix, atLook)
                  /\ cache' = IF Cached(path) THEN cache ELSE Remember(cache, path, prefix)
                  /\ looked' = IF Cached(path) THEN looked ELSE Remember(looked, path, tracked)
    /\ UNCHANGED <<tracked, commits, faults>>

\* The blocking task panicked or was shut down: the error is passed on as it came,
\* and the cache that had moved into the task is lost with it.
PassUnderived(stack, file) ==
    /\ Len(signed) < MaxSigned /\ faults < MaxFaults
    /\ Signed(file, TopFrame(stack), NoPrefix, {})
    /\ cache' = << >> /\ looked' = << >> /\ faults' = faults + 1
    /\ UNCHANGED <<tracked, commits>>

\* A person commits, checks out or pulls, in the watched repository.
Commit(file) ==
    /\ commits < MaxCommits /\ commits' = commits + 1
    /\ tracked' = IF file \in tracked THEN tracked \ {file} ELSE tracked \cup {file}
    /\ UNCHANGED <<cache, looked, signed, faults>>

\* The stacks of an error of a file, deployed at a root.
StacksOf(file, root) ==
    LET own == root \o file
    IN {[v8 |-> <<Library, own>>, python |-> << >>],
        [v8 |-> << >>, python |-> <<own, Library>>],
        [v8 |-> <<own>>, python |-> <<Library>>],
        [v8 |-> <<Library>>, python |-> << >>]}

AppRootNext ==
    \E file \in File :
        \/ Commit(file)
        \/ \E root \in Root : \E stack \in StacksOf(file, root) :
              SignError(stack, file) \/ PassUnderived(stack, file)

AppRootSpec == AppRootInit /\ [][AppRootNext]_appRootVars

-----------------------------------------------------------------------------
\* Reproduction knows the root of its worktree, and cuts it off the front.
ReproducedAs(error) == error.file
Matches(signature, other) == signature # NoFile /\ other # NoFile /\ signature = other

Candidates(error) == Suffixes(error.path) \cap error.tracked
Recurs(error) ==
    LET prefix == Without(error.path, error.file)
    IN prefix # NoPrefix /\ \E i \in 1 .. Len(error.file) : OccursAt(error.file, prefix, i)

\* What one could guess wrongly: that an error is of another file of the repository
\* than it is.  It is taken for one only if its own file was not there when its path
\* was looked up, if the whole path, uncut, is that of the other, or if the prefix
\* stands in the file's own path as well, where it is cut too.  If its file was there,
\* and nothing else it could be, a replay of the error is recognised, however the
\* repository changed since, but for that same cut.  And an error without a frame of
\* the app matches nothing.
NoWrongFile ==
    \A i \in DOMAIN signed :
        LET error == signed[i] IN
        /\ (\E other \in File \ {error.file} : Matches(error.signature, other))
               => \/ error.file \notin error.tracked
                  \/ error.signature = error.path
                  \/ Recurs(error)
        /\ (Candidates(error) = {error.file} /\ ~Recurs(error))
               => Matches(error.signature, ReproducedAs(error))
        /\ error.path = NoFile => \A file \in File : ~Matches(error.signature, file)
=============================================================================
