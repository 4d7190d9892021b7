--------------------------- MODULE RecordReading ---------------------------
(***************************************************************************)
(* What a person reads of the record: `drums record` (record_cmd.rs), the  *)
(* lines newest first, filtered, each with the chip it has earned; and     *)
(* `drums why` (why.rs), how often a file failed in production.  Processes *)
(* append meanwhile, each with the time it stamped before its turn came,   *)
(* and one may die in the middle of a line.                                *)
(***************************************************************************)
EXTENDS Naturals, FiniteSets, SequencesExt

CONSTANTS
    Written,        \* lines that are appended: records with a kind
    MAX,            \* the largest duration there is (2^64 ms in the code)
    LastHour,       \* bound: the clock
    MaxWritten,     \* bound: lines
    MaxTorn         \* bound: writes that die

ASSUME RecordReadingAssumption ==
    /\ {MAX, LastHour, MaxWritten, MaxTorn} \subseteq Nat
    /\ \A line \in Written :
         line.file \in Seq(Range(line.file)) /\ line.claims \in Seq(Range(line.claims))

VARIABLES
    hour,           \* the clock
    page,           \* the file, line by line: [line, at], or torn
    open,           \* whether the last line lacks its newline
    appended        \* history: lines written whole

readingVars == <<hour, page, open, appended>>

Torn == [torn |-> TRUE]
Whole(line, at) == [torn |-> FALSE, line |-> line, at |-> at]
TornLines == {n \in DOMAIN page : page[n].torn}

ReadingInit == hour = 0 /\ page = << >> /\ open = FALSE /\ appended = 0

HourPasses ==
    /\ hour < LastHour /\ hour' = hour + 1
    /\ UNCHANGED <<page, open, appended>>

\* record::append: the line was stamped before the lock was taken.  After a write that
\* died it is the rest of a line that nobody can read.
Appends(line, at) ==
    /\ appended < MaxWritten /\ at <= hour /\ hour <= at + 1
    /\ page' = IF open THEN page ELSE Append(page, Whole(line, at))
    /\ open' = FALSE /\ appended' = appended + 1
    /\ UNCHANGED hour
DiesWriting ==
    /\ Cardinality(TornLines) < MaxTorn
    /\ page' = IF open THEN page ELSE Append(page, Torn)
    /\ open' = TRUE
    /\ UNCHANGED <<hour, appended>>

ReadingNext ==
    \/ HourPasses \/ DiesWriting
    \/ \E line \in Written, at \in 0 .. LastHour : Appends(line, at)

ReadingSpec == ReadingInit /\ [][ReadingNext]_readingVars

-----------------------------------------------------------------------------
\* The members of a sequence at some places, in their order.
Keep(s, kept) == FlattenSeq([n \in DOMAIN s |-> IF n \in kept THEN <<s[n]>> ELSE << >>])

\* load: what can be read, newest first, and how many lines cannot.
Load == [entries |-> Reverse(Keep(page, (DOMAIN page) \ TornLines)),
         skipped |-> Cardinality(TornLines)]

\* parse_duration_ms: a number of some unit, refused where it does not fit.
Duration(n, unit) == {d \in {n * unit} : d <= MAX}
Durations == UNION {Duration(n, unit) : n \in 0 .. LastHour, unit \in 1 .. 2}

Age(entry) == IF hour > entry.at THEN hour - entry.at ELSE 0
FilterSince(entries, since) == Keep(entries, {n \in DOMAIN entries : Age(entries[n]) <= since})
ApplyLimit(entries, limit) == SubSeq(entries, 1, IF limit < Len(entries) THEN limit ELSE Len(entries))

\* `drums record [--since] [--limit]`.
LimitFirst(entries, since, limit) == FilterSince(ApplyLimit(entries, limit), since)
Listed(entries, since, limit) == ApplyLimit(FilterSince(entries, since), limit)

\* aggregate_claims: one unresolved claim and the whole is; otherwise the first's.
AggregateClaims(claims) ==
    CASE "unresolved" \in ToSet(claims) -> "unresolved"
      [] "unresolved" \notin ToSet(claims) /\ claims # << >> -> Head(claims)
      [] OTHER -> "none"

\* describe: the internal lines are hidden, a line without its fields says so, and
\* only what was measured, or a repair whose claims are, carries "verified".
Internal == {"repair_context"}
Described(line) ==
    CASE ~line.readable -> [text |-> "malformed", chip |-> "none"]
      [] line.readable /\ line.kind = "event" -> [text |-> "event", chip |-> "observed"]
      [] line.readable /\ line.kind \in {"repair_ready", "shipped", "reverted"} ->
            [text |-> line.kind, chip |-> AggregateClaims(line.claims)]
      [] line.readable /\ line.kind \in {"hypothesis", "bet"} -> [text |-> line.kind, chip |-> "inferred"]
      [] line.readable /\ line.kind = "observation" -> [text |-> line.kind, chip |-> "observed"]
      [] line.readable /\ line.kind \in {"outcome", "revisit"} ->
            [text |-> line.kind, chip |-> IF line.measured THEN "verified" ELSE "none"]
      [] OTHER -> [text |-> line.kind, chip |-> "none"]

Rows(entries) == Keep(entries, {n \in DOMAIN entries : entries[n].line.kind \notin Internal})
\* render_lines: the rows, and a sentence for what is not among them.
RenderLines(entries, skipped, loaded) ==
    [rows |-> [i \in DOMAIN Rows(entries) |-> Described(Rows(entries)[i].line)],
     says |-> (IF Rows(entries) # << >> THEN {}
               ELSE IF loaded = 0 THEN (IF skipped = 0 THEN {"no_history"} ELSE {})
               ELSE IF entries = << >> THEN {"no_match"} ELSE {"internal_hidden"})
              \cup (IF skipped > 0 THEN {"skipped"} ELSE {})]

-----------------------------------------------------------------------------
\* parse_path_arg: a line and a column are taken off the end; a line that does not
\* fit a number is refused, the path is never read with it.
Digits(tail) == tail \in {"fits", "too_large"}
Trailing(tails) == LET n == Len(tails) IN
    IF n > 0 /\ Digits(tails[n]) THEN (IF n > 1 /\ Digits(tails[n - 1]) THEN 2 ELSE 1) ELSE 0
ParsePathArg(path, tails) ==
    LET cut == Trailing(tails)
        rest == SubSeq(tails, 1, Len(tails) - cut)
        line == IF cut = 0 THEN "none" ELSE tails[Len(tails) - cut + 1]
    IN [path |-> IF rest = << >> THEN path ELSE path \o rest, line |-> line, refused |-> line = "too_large"]

\* paths_overlap: equal, or one the end of the other, at a boundary.
PathsOverlap(a, b) == IsSuffix(a, b) \/ IsSuffix(b, a)

\* find_history: the events of the file, by the frame as it was reported.
FindHistory(entries, target) ==
    LET events == {n \in DOMAIN entries : entries[n].line.kind = "event"} IN
    [found |-> Keep(entries, {n \in events : entries[n].line.readable /\ entries[n].line.file # << >>
                                              /\ PathsOverlap(entries[n].line.file, target)}),
     undecodable |-> Cardinality({n \in events : ~entries[n].line.readable})]
\* summary_line: since the earliest, by the clock.
InDays(found) ==
    LET ages == {Age(found[i]) : i \in DOMAIN found}
    IN CHOOSE a \in ages : \A b \in ages : b <= a

-----------------------------------------------------------------------------
\* What can be read of the record, at any moment: the newest lines that are young
\* enough, as many as were asked for; a row that reads verified has no claim that is
\* unresolved; an empty page says why it is empty; and a write that died costs itself
\* and the line after it, no more.
PageIsTheRecord ==
    /\ \A since \in Durations, limit \in 1 .. MaxWritten :
        LET young == {i \in DOMAIN page : ~page[i].torn /\ Age(page[i]) <= since}
            listed == Listed(Load.entries, since, limit)
            rendered == RenderLines(listed, Load.skipped, Len(Load.entries)) IN
        /\ Len(listed) = IF Cardinality(young) < limit THEN Cardinality(young) ELSE limit
        /\ \A j \in young : (\E i \in DOMAIN listed : listed[i] = page[j])
             \/ Cardinality({i \in young : i > j}) >= limit
        /\ rendered.rows = << >> => rendered.says # {}
        /\ \A i \in DOMAIN rendered.rows : rendered.rows[i].chip = "verified" =>
             LET line == Rows(listed)[i].line
             IN line.kind \in {"outcome", "revisit"}
                \/ ("verified" \in ToSet(line.claims) /\ "unresolved" \notin ToSet(line.claims))
    /\ appended <= Len(Load.entries) + Load.skipped

\* `drums why` on the name a failure goes by, whatever root the detector took off it,
\* finds every event of that file; what it cannot read it counts; and the oldest of
\* them is as old as it says.
HistoryIsWhole ==
    \A n \in DOMAIN page :
        (~page[n].torn /\ page[n].line.kind = "event") =>
            IF ~page[n].line.readable THEN FindHistory(Load.entries, <<"src">>).undecodable > 0
            ELSE \A top \in DOMAIN page[n].line.file :
                LET file == page[n].line.file
                    name == SubSeq(file, top, Len(file))
                    arg == ParsePathArg(name, <<"fits", "too_large">>)
                    found == FindHistory(Load.entries, arg.path).found IN
                /\ ~arg.refused /\ \E i \in DOMAIN found : found[i] = page[n]
                /\ InDays(found) >= Age(page[n])
                /\ \A i \in DOMAIN found : Last(found[i].line.file) = Last(file)

RecordReadsTrue == PageIsTheRecord /\ HistoryIsWhole
=============================================================================
