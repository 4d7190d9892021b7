------------------------------ MODULE Adapters ------------------------------
(***************************************************************************)
(* The door for what others send (ingest/src/adapters.rs): Railway's       *)
(* deploys, Linear's issues and Agentation's notes, each delivery at most  *)
(* one line of the record, of which a masked copy is kept                  *)
(* (record/src/lib.rs, redact_body and redact_query_string).  Deliveries   *)
(* are handled beside each other: the line is appended, then the delivery  *)
(* is forwarded to the engine.  A text is its lines, a line its key=value  *)
(* pairs and what stands before the first of them.  The senders are        *)
(* external.                                                               *)
(***************************************************************************)
EXTENDS Naturals, FiniteSets, SequencesExt

CONSTANTS
    Delivery,       \* what is posted: records, see Made and Raised
    MAX_RENDERED,   \* AGENTATION_MAX_RENDERED_ANNOTATIONS
    EXCERPT_MAX,    \* EXCERPT_MAX_CHARS, AGENTATION_COMMENT_MAX_CHARS and
    COMMENT_MAX,    \* AGENTATION_BODY_MAX_CHARS, in lines
    BODY_MAX,
    MaxPosts        \* bound: deliveries

VARIABLES
    posts,          \* each delivery and how far its handler is
    lines,          \* the record's lines
    forwarded       \* what the engine was sent, in order

adaptersVars == <<posts, lines, forwarded>>

-----------------------------------------------------------------------------
\* What is posted.  Only Agentation's deliveries are read for notes.
Key == {"sensitive", "plain"}
\* A pair as a form has it, one in prose, or a member of a JSON document.
Pair == [key : Key, as : {"field", "prose", "member"},
         value : {"sent", "redacted"}, sep : {"&", ";"}]
TextLine == [marks : SUBSET {"number", "label", "url"}, pairs : Seq(Pair)]
Text == [json : BOOLEAN, lines : Seq(TextLine)]
Leaf == [key : Key, text : Text]
Note(id) == [id : {id}, comment : Text, where : Seq(TextLine)]
Says(field) == field \notin {"none", "blank"}
IsReport(d) ==
    /\ d.from \in {"linear", "agentation"}
    /\ {d.text, d.output} \subseteq Text /\ d.payload \in Seq(Leaf)
    /\ d.notes \in Seq(Range(d.notes))
    /\ \A note \in Range(d.notes) : note \in Note(note.id)
    /\ d.from = "linear" => d.notes = << >> /\ d.output.lines = << >>

ASSUME AdaptersAssumption ==
    /\ {MAX_RENDERED, EXCERPT_MAX, COMMENT_MAX, BODY_MAX, MaxPosts} \subseteq Nat
    /\ \A d \in Delivery : d.from = "railway" \/ IsReport(d)

\* first_str: of the places a field may be in, the first that says anything.
FirstStr(fields) ==
    LET said == {n \in DOMAIN fields : Says(fields[n])}
    IN IF said = {} THEN "none" ELSE fields[Min(said)]
\* bounded_identifier: what is too long is no identifier, and is not cut to one.
BoundedIdentifier(field) == IF field = "long" THEN "none" ELSE field

\* truncate_to: what is cut ends in a mark, and no document is left of one.  A cut within
\* a line, or of a context value or a title, costs what follows it and masks no less.
IsCut(text, room) == Len(text.lines) > room
Truncate(text, room) ==
    IF IsCut(text, room) THEN [json |-> FALSE, lines |-> SubSeq(text.lines, 1, room)] ELSE text

-----------------------------------------------------------------------------
\* redact_body without JSON: pairs between & and ;, where what stands before a key or
\* after a value leaves it a pair; nothing where the text opens like an array.
Masked(pair) == [pair EXCEPT !.value = "redacted"]
OpensLikeArray(line) == "number" \in line.marks
MaskPairs(line, shaped) ==
    [line EXCEPT !.pairs = [i \in DOMAIN @ |->
        IF @[i].key = "sensitive" /\ @[i].as = "field" /\ i \in shaped THEN Masked(@[i]) ELSE @[i]]]

RedactKv(line) ==
    IF OpensLikeArray(line) THEN line
    ELSE MaskPairs(line, {i \in DOMAIN line.pairs : i > 1 \/ line.marks = {}})

\* redact_query_string: a sensitive key costs everything up to the next &.
RedactQuery(line) ==
    LET pairs == line.pairs
        HeadOf(i) == CHOOSE j \in 1 .. i :
            (j = 1 \/ pairs[j - 1].sep = "&") /\ \A m \in j .. i - 1 : pairs[m].sep # "&"
        Kept(i) ==
            CASE pairs[HeadOf(i)].key # "sensitive" -> <<pairs[i]>>
              [] pairs[HeadOf(i)].key = "sensitive" /\ HeadOf(i) = i ->
                    <<[Masked(pairs[i]) EXCEPT !.sep = "&"]>>
              [] OTHER -> << >>
    IN IF "url" \in line.marks
       THEN [line EXCEPT !.pairs = FlattenSeq([i \in DOMAIN pairs |-> Kept(i)])] ELSE line
MaskKvAndQuery(line) == RedactQuery(RedactKv(line))

\* redact_line_for_record: what follows a label is masked on its own.
RedactLine(line) ==
    LET masked == MaskKvAndQuery(line) IN
    IF "label" \in masked.marks
    THEN [MaskKvAndQuery([masked EXCEPT !.marks = @ \ {"label"}]) EXCEPT !.marks = masked.marks]
    ELSE masked

\* The first pass sees a document's keys, and the pairs that no line's end is part of.
WholeOnly(text) ==
    LET last == Len(text.lines)
        Document(line) == [line EXCEPT !.pairs =
            [i \in DOMAIN @ |-> IF @[i].key = "sensitive" THEN Masked(@[i]) ELSE @[i]]]
        Body(n) == MaskPairs(text.lines[n], {i \in DOMAIN text.lines[n].pairs :
            /\ ~OpensLikeArray(text.lines[1])
            /\ (i > 1 \/ (n = 1 /\ text.lines[n].marks = {}))
            /\ (i < Len(text.lines[n].pairs) \/ n = last)})
    IN [text EXCEPT !.lines = [n \in 1 .. last |->
            IF text.json THEN Document(text.lines[n]) ELSE Body(n)]]

\* redact_text_for_record.
RedactText(text) ==
    LET whole == WholeOnly(text) IN
    IF whole.json THEN whole
    ELSE [whole EXCEPT !.lines = [n \in DOMAIN @ |-> RedactLine(@[n])]]

\* redact_payload_for_record: a sensitive key of the payload costs its leaf.
RedactPayload(payload) ==
    [n \in DOMAIN payload |->
        IF payload[n].key = "sensitive"
        THEN [payload[n] EXCEPT !.text = [json |-> FALSE, lines |-> << >>]]
        ELSE [payload[n] EXCEPT !.text = RedactText(@)]]

-----------------------------------------------------------------------------
\* railway_deploy_from_payload: a deploy that is live, by its commit or its own id.
RailwaySha(d) == FirstStr(<<d.commit, d.own>>)

\* agentation_delivery: the event decides before anything reads the notes it carries.
NonCreating == {"updated", "deleted", "removed", "cleared"}

\* A delivery that is a line of the record.
Made(d) ==
    CASE d.from = "railway" -> d.status \in {"SUCCESS", "DEPLOYED"} /\ RailwaySha(d) # "none"
      [] d.from = "agentation" -> d.event \notin NonCreating
      [] d.from = "linear" -> TRUE

\* agentation_title: the first line anybody typed, and that there are others; else the
\* first of what Agentation wrote.  reported_title: what was sent for one.
Commented(notes) == {n \in DOMAIN notes : notes[n].comment.lines # << >>}
AndMore(line) ==
    IF line.pairs = << >> THEN line ELSE [line EXCEPT !.pairs[Len(line.pairs)].as = "prose"]
FirstLine(text) == [json |-> FALSE, lines |-> <<Head(text.lines)>>]
Title(d) ==
    LET typed == Commented(d.notes)
        line == Head(d.notes[Min(typed)].comment.lines)
    IN CASE typed # {} -> [json |-> FALSE, lines |->
                <<IF Cardinality(typed) > 1 THEN AndMore(line) ELSE line>>]
         [] typed = {} /\ d.output.lines # << >> -> FirstLine(d.output)
         [] OTHER -> d.text

\* agentation_body: each note's comment, numbered if it has others beside it, then
\* where it points, labelled; and how many notes there was no room for.
Marked(line, mark) == [line EXCEPT !.marks = @ \cup {mark}]
Block(note, numbered) ==
    LET comment == Truncate(note.comment, COMMENT_MAX).lines
        first == IF numbered /\ comment # << >>
                 THEN <<Marked(Head(comment), "number")>> \o Tail(comment) ELSE comment
    IN first \o [n \in DOMAIN note.where |-> Marked(note.where[n], "label")]
Overflow(notes) == IF Len(notes) > MAX_RENDERED THEN Len(notes) - MAX_RENDERED ELSE 0
AndOthers == [marks |-> {}, pairs |-> << >>]
Blocks(notes) ==
    LET room == IF Len(notes) > MAX_RENDERED THEN MAX_RENDERED ELSE Len(notes)
    IN FlattenSeq([n \in 1 .. room |-> Block(notes[n], Len(notes) > 1)])
\* A document is one still where a comment is all there is.
Alone(notes) == Len(notes) = 1 /\ notes[1].where = << >>
Composed(notes) ==
    IF Alone(notes) THEN Truncate(notes[1].comment, COMMENT_MAX)
    ELSE [json |-> FALSE, lines |->
             IF Overflow(notes) > 0 THEN Append(Blocks(notes), AndOthers) ELSE Blocks(notes)]
Body(d) ==
    CASE Blocks(d.notes) # << >> -> Truncate(Composed(d.notes), BODY_MAX)
      [] Blocks(d.notes) = << >> /\ d.output.lines # << >> -> Truncate(d.output, BODY_MAX)
      [] OTHER -> Truncate(d.text, EXCERPT_MAX)
\* The count of the others is the composed body's last line.
CutShort(d) == Blocks(d.notes) # << >> /\ IsCut(Composed(d.notes), BODY_MAX)
OthersCounted(d) == IF CutShort(d) \/ Blocks(d.notes) = << >> THEN 0 ELSE Overflow(d.notes)

\* reported_external_id: what names the issue before what names the delivery.  A note's
\* own id only where the report is about that note.
ReportedExternalId(d) == BoundedIdentifier(FirstStr(<<d.issue, d.own>>))
ExternalId(d) ==
    LET note == IF Len(d.notes) = 1 THEN BoundedIdentifier(FirstStr(<<d.notes[1].id>>)) ELSE "none"
    IN IF note # "none" THEN note ELSE ReportedExternalId(d)

\* build_reported_issue.
Raised(d) == [id |-> ExternalId(d), title |-> Title(d), body |-> Body(d),
              more |-> OthersCounted(d), cut |-> CutShort(d), payload |-> d.payload]
\* handle_reported: the copy for the record.
ForRecord(issue) ==
    [issue EXCEPT !.title = RedactText(@), !.body = RedactText(@), !.payload = RedactPayload(@)]
Line(d) == IF d.from = "railway" THEN [of |-> d, sha |-> RailwaySha(d)]
           ELSE [of |-> d, issue |-> ForRecord(Raised(d))]
Forward(d) == IF d.from = "railway" THEN [of |-> d, sha |-> RailwaySha(d)]
              ELSE [of |-> d, issue |-> Raised(d)]

-----------------------------------------------------------------------------
AdaptersInit == posts = << >> /\ lines = << >> /\ forwarded = << >>

Posted(d, at) == Len(posts) < MaxPosts /\ posts' = Append(posts, [of |-> d, at |-> at])

\* What is no report and no deploy is acknowledged.
Acknowledge(d) == ~Made(d) /\ Posted(d, "acknowledged") /\ UNCHANGED <<lines, forwarded>>
Record(d) ==
    /\ Made(d) /\ Posted(d, "recorded")
    /\ lines' = Append(lines, Line(d))
    /\ UNCHANGED forwarded
\* The append fails: 500, and the sender may post again.
RefusePost(d) == Made(d) /\ Posted(d, "refused") /\ UNCHANGED <<lines, forwarded>>
ForwardOn(n) ==
    /\ posts[n].at = "recorded"
    /\ posts' = [posts EXCEPT ![n].at = "accepted"]
    /\ forwarded' = Append(forwarded, Forward(posts[n].of))
    /\ UNCHANGED lines
\* The process dies between the two, or its engine is gone.
DieUnsent(n) ==
    /\ posts[n].at = "recorded"
    /\ posts' = [posts EXCEPT ![n].at = "unsent"]
    /\ UNCHANGED <<lines, forwarded>>

AdaptersNext ==
    \/ \E d \in Delivery : Acknowledge(d) \/ Record(d) \/ RefusePost(d)
    \/ \E n \in DOMAIN posts : ForwardOn(n) \/ DieUnsent(n)

AdaptersSpec == AdaptersInit /\ [][AdaptersNext]_adaptersVars

-----------------------------------------------------------------------------
\* A repair is answered where its issue is: the address of a report is the issue it
\* names, and its own name only where it names none; or the one note it is about, never
\* one of several; and nothing where what was sent is no identifier.
AddressIsTheIssue ==
    \A n \in DOMAIN lines : lines[n].of.from # "railway" =>
        LET d == lines[n].of
            id == lines[n].issue.id IN
        /\ id \notin {"long", "blank"}
        /\ \/ id \in {"none", IF Says(d.issue) THEN d.issue ELSE d.own}
           \/ Len(d.notes) = 1 /\ id = d.notes[1].id

Texts(issue) == {issue.title, issue.body} \cup {issue.payload[n].text : n \in DOMAIN issue.payload}
Clean(line) == \A i \in DOMAIN line.pairs : line.pairs[i].key # "sensitive"
AllMasked(text) ==
    \A m \in DOMAIN text.lines :
        LET pairs == text.lines[m].pairs IN
        \A i \in DOMAIN pairs : pairs[i].key = "sensitive" => pairs[i].value = "redacted"
MaskedText(text) ==
    \A m \in DOMAIN text.lines :
        LET line == text.lines[m] IN
        \A i \in DOMAIN line.pairs : line.pairs[i].key = "sensitive" =>
            \/ line.pairs[i].value = "redacted"
            \/ ~text.json /\ (line.pairs[i].as # "field" \/ OpensLikeArray(line))
Keeps(kept, sent) ==
    /\ Len(kept.lines) = Len(sent.lines)
    /\ \A m \in DOMAIN sent.lines : Clean(sent.lines[m]) => kept.lines[m] = sent.lines[m]

\* "Line by line, the loss is bounded to the line that actually carried the secret": a
\* pair with a sensitive key is masked wherever in the report it stands, unless it is
\* prose, or the report numbered it, or it is of a document of which the report has not
\* the whole, or not it alone; and a line without one is as it was sent.  The payload has
\* documents whole.
MaskedAndNoMore ==
    \A n \in DOMAIN lines : lines[n].of.from # "railway" =>
        LET kept == lines[n].issue
            sent == Raised(lines[n].of) IN
        /\ \A text \in Texts(kept) : MaskedText(text)
        /\ Keeps(kept.body, sent.body)
        /\ \A m \in DOMAIN kept.payload :
             sent.payload[m].text.json => AllMasked(kept.payload[m].text)

\* Every note of a report is in it or counted by it, or its body ends in the mark of a
\* cut, unless none it has room for says anything; and a report and a deploy reach the
\* engine only after the record and as they were sent.
NothingUnsaid ==
    /\ \A n \in DOMAIN lines : lines[n].of.from # "railway" =>
         LET notes == lines[n].of.notes
             issue == lines[n].issue IN
         Blocks(notes) # << >> => issue.cut \/ Len(notes) <= MAX_RENDERED + issue.more
    /\ Len(lines) = Cardinality({n \in DOMAIN posts : posts[n].at \in {"recorded", "accepted", "unsent"}})
    /\ \A n \in DOMAIN forwarded : \E m \in DOMAIN lines :
         lines[m].of = forwarded[n].of /\ forwarded[n] = Forward(lines[m].of)

ReportsAreSafe == AddressIsTheIssue /\ MaskedAndNoMore /\ NothingUnsaid
=============================================================================
