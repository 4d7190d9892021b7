---------------------------- MODULE SemanticIndex ----------------------------
(***************************************************************************)
(* .drums/semantic.db, an index derived from the record and never a second *)
(* source of truth: the engine's tick refreshes it, drums ask refreshes it *)
(* before it searches, drums index rebuilds it, and anybody may delete the *)
(* file.  Each reads the record first and rebuilds later, and only the     *)
(* number of lines tells whether the index is due.  drums index then asks  *)
(* an endpoint for the vectors of the texts that have none, kept by the    *)
(* hash of the text they are of.                                           *)
(***************************************************************************)
EXTENDS RecordFile, SequencesExt

CONSTANTS
    Reader,     \* the tick and the commands
    EngineTick, \* the engine's, which comes again
    Always,     \* the readers that rebuild without asking: drums index
    MaxEntries, \* bound: lines the record may hold
    MaxSpoilt   \* bound: rebuilds that fail, records that cannot be read, deletions

ASSUME IndexAssumption ==
    /\ EngineTick \in Reader /\ Always \subseteq Reader \ {EngineTick}
    /\ MaxEntries \in Nat /\ MaxSpoilt \in Nat

VARIABLES
    index,      \* what the graph was made of, and the lines_indexed row, if any
    vectors,    \* the embeddings: the text whose hash a vector is kept by, the text it is of
    reading,    \* [Reader -> what it is in the middle of]
    spoilt      \* for the bound

indexVars == <<lines, tail, index, vectors, reading, spoilt>>

NoIndex == [made |-> << >>, counted |-> {}]
NotReading == [at |-> "idle", seen |-> << >>]

IndexInit ==
    /\ NewFile
    /\ index = NoIndex /\ vectors = {}
    /\ reading = [r \in Reader |-> NotReading]
    /\ spoilt = 0

Turns(r, at) == reading' = [reading EXCEPT ![r].at = at]
Rests(r) == reading' = [reading EXCEPT ![r] = NotReading]
Spoils == spoilt < MaxSpoilt /\ spoilt' = spoilt + 1

-----------------------------------------------------------------------------
EntryAppended ==
    /\ \E l \in Line : WriteLine(l) \/ WritePart(l)
    /\ Len(lines') <= MaxEntries
    /\ UNCHANGED <<index, vectors, reading, spoilt>>

ReadAll(r) ==
    /\ reading[r].at = "idle"
    /\ reading' = [reading EXCEPT ![r] = [at |-> "read", seen |-> lines]]
    /\ UNCHANGED <<lines, tail, index, vectors, spoilt>>

\* unwrap_or_default: a command takes a record it cannot read for an empty one.
ReadNothing(r) ==
    /\ reading[r].at = "idle" /\ r # EngineTick /\ Spoils
    /\ reading' = [reading EXCEPT ![r] = [at |-> "read", seen |-> << >>]]
    /\ UNCHANGED <<lines, tail, index, vectors>>

CountDiffers(r) == index.counted # {Len(reading[r].seen)}

\* refresh: "same count means same content".
CheckIsDue(r) ==
    /\ reading[r].at = "read"
    /\ IF r \in Always \/ CountDiffers(r) THEN Turns(r, "due") ELSE Rests(r)
    /\ UNCHANGED <<lines, tail, index, vectors, spoilt>>

\* One transaction: the nodes, the edges and the count of the lines they are of.
\* The vectors stay.
Rebuild(r) ==
    /\ reading[r].at = "due"
    /\ index' = [made |-> reading[r].seen, counted |-> {Len(reading[r].seen)}]
    /\ IF r \in Always THEN Turns(r, "rebuilt") ELSE Rests(r)
    /\ UNCHANGED <<lines, tail, vectors, spoilt>>

\* unembedded: the texts of the index as it is by then that have no vector, in the
\* order the table gives them; embedder_from_env: with no endpoint none is asked for.
Unembedded == {l \in Range(index.made) : \A v \in vectors : v.keptBy # l}
AskForVectors(r) ==
    /\ reading[r].at = "rebuilt"
    /\ \/ \E due \in SetToSeqs(Unembedded) :
              due # << >> /\ reading' = [reading EXCEPT ![r] = [at |-> "asked", seen |-> due]]
       \/ Rests(r)
    /\ UNCHANGED <<lines, tail, index, vectors, spoilt>>

\* embed: the rows may come in any order, each with the index of its text.
InIndexOrder(rows) == [i \in DOMAIN rows |-> (CHOOSE row \in Range(rows) : row.index = i).embedding]
EmbeddingRows(texts) ==
    {[k \in DOMAIN texts |-> [index |-> order[k], embedding |-> texts[order[k]]]] :
        order \in SetToSeqs(DOMAIN texts)}

\* put_embedding, of each in its turn: all of them, some, or none when the endpoint
\* refuses, answers too few or cannot be reached.
PutVectors(r) ==
    /\ reading[r].at = "asked"
    /\ \E rows \in EmbeddingRows(reading[r].seen), put \in SUBSET DOMAIN reading[r].seen :
           LET new == {[keptBy |-> reading[r].seen[i], of |-> InIndexOrder(rows)[i]] : i \in put}
           IN  vectors' = {v \in vectors : \A n \in new : n.keptBy # v.keptBy} \cup new
    /\ Rests(r)
    /\ UNCHANGED <<lines, tail, index, spoilt>>

\* The database is locked or the process dies: all of it is rolled back.
RebuildFails(r) ==
    /\ reading[r].at = "due" /\ Spoils
    /\ Rests(r)
    /\ UNCHANGED <<lines, tail, index, vectors>>

DeleteIndex ==
    Spoils /\ index' = NoIndex /\ vectors' = {} /\ UNCHANGED <<lines, tail, reading>>

IndexNext ==
    \/ EntryAppended \/ DeleteIndex
    \/ \E r \in Reader : ReadAll(r) \/ ReadNothing(r) \/ CheckIsDue(r) \/ Rebuild(r) \/ RebuildFails(r)
                         \/ AskForVectors(r) \/ PutVectors(r)

IndexSpec == IndexInit /\ [][IndexNext]_indexVars

\* The engine ticks, and a reader goes on once it has begun.
IndexFairSpec ==
    /\ IndexSpec
    /\ WF_indexVars(ReadAll(EngineTick))
    /\ \A r \in Reader : WF_indexVars(CheckIsDue(r)) /\ WF_indexVars(Rebuild(r))

-----------------------------------------------------------------------------
\* The index is of a beginning of the record, of as many lines as it says.
IndexIsBeginning ==
    /\ index.made = SubSeq(lines, 1, Len(index.made))
    /\ index.counted \subseteq {Len(index.made)}

\* search_vector ranks a text by the vector kept by its hash: "pairing embeddings to
\* the wrong texts would poison the cache invisibly".
RankedByItsText == \A v \in vectors : v.of = v.keptBy

\* "An index, never a second source of truth": whichever of two rebuilds commits
\* last, of whatever read, and whatever fails or is deleted, the index is of a
\* beginning of the record, and what is searched by meaning is ranked by its own; and
\* once the record rests the index is of all of it, though an older read may have
\* replaced a newer one and only counts are compared.
IndexFollowsRecord ==
    /\ [](IndexIsBeginning /\ RankedByItsText)
    /\ <>[](index.made = lines)
=============================================================================
