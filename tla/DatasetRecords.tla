--------------------------- MODULE DatasetRecords ---------------------------
(***************************************************************************)
(* What the dataset build (ml/ml/data) makes of the raw rows of a source:  *)
(* normalization, validation, deduplication, quality filter, temporal      *)
(* split and quality report, each the stage of DatasetPipeline.run.  The   *)
(* variable is the list of rows the adapter returned.                      *)
(***************************************************************************)
EXTENDS Integers, Sequences, FiniteSets

CONSTANTS
    MaxBatch,       \* bound on the rows of a source
    MinQuality,     \* min_data_quality_score, in hundredths
    TrainEnd, ValidationEnd   \* temporal_split

ASSUME BatchAssumption == MaxBatch \in Nat
ASSUME QualityAssumption == MinQuality \in 0..100
ASSUME SplitAssumption == TrainEnd \in Nat /\ ValidationEnd \in Nat /\ TrainEnd <= ValidationEnd

VARIABLE batch
recordVars == <<batch>>

-----------------------------------------------------------------------------
(* Normalization.                                                          *)

NoDate == 0         \* "": no date field could be parsed
Dates == {NoDate, 1, 2}
\* What a row says of the incident: nothing that is known; a category of the mapping;
\* a category, a description, and a status that counts as VERIFIED.
Tellings == {"bare", "told", "full"}
\* A field that normalization cannot take (it raises: text for a geocoding confidence,
\* a number for a state), or one that it takes and validation refuses (a confidence
\* above 1, a time of day in another format).
Flaws == {"none", "raises", "refused"}
AnyRow == [id : {"none", "a"}, date : Dates, place : {"spot", "outside", "nan"}, telling : Tellings,
           flaw : Flaws]
\* Of the rows with a flaw, those with nothing else to tell them apart.
RawRow == {row \in AnyRow : row.flaw = "none" \/ (row.place = "spot" /\ row.telling = "told")}

SourceRecordId(row) == row.id
\* The source's id for the row, or a digest of all the row says.
RecordId(row) ==
    IF SourceRecordId(row) # "none" THEN <<"id", SourceRecordId(row)>> ELSE <<"digest", row>>
Category(row) == IF row.telling = "bare" THEN "other" ELSE "harassment"
\* Coordinates out of range are dropped.  Those that are not a number are not out of it.
Coordinates(row) == IF row.place = "outside" THEN "none" ELSE row.place
Verification(row) == IF row.telling = "full" THEN "VERIFIED" ELSE "REPORTED"
Described(row) == row.telling = "full"

Quality(row) ==
      (IF Coordinates(row) # "none" THEN 25 ELSE 0)
    + (IF row.date # NoDate THEN 20 ELSE 0)
    + (IF Category(row) # "other" THEN 20 ELSE 0)
    + (IF Verification(row) = "VERIFIED" THEN 20 ELSE 10)
    + (IF Described(row) THEN 15 ELSE 0)

Normalized(row) ==
    [id |-> RecordId(row), source |-> SourceRecordId(row), date |-> row.date, at |-> Coordinates(row),
     category |-> Category(row), state |-> Verification(row), quality |-> Quality(row),
     flaw |-> row.flaw]
Records == [i \in DOMAIN batch |-> Normalized(batch[i])]
\* A row whose normalization raises is logged and left out.
Read == {i \in DOMAIN batch : batch[i].flaw # "raises"}

-----------------------------------------------------------------------------
(* Validation.  A list of records is the set of their positions in the      *)
(* batch: no stage changes a record or the order of those it keeps.         *)

\* The other required fields and ranges hold of every normalized record.
Valid(record) == record.date # NoDate /\ record.at # "nan" /\ record.flaw # "refused"

\* A record is known by its id before it is known to be valid: a later one of the same
\* id counts as a duplicate either way, and is not looked at.
Looked == {i \in Read : \A j \in Read : j < i => Records[j].id # Records[i].id}
Validated == {i \in Looked : Valid(Records[i])}
ValidationReport ==
    [valid |-> Cardinality(Validated),
     invalid |-> Cardinality(Looked \ Validated),
     duplicate |-> Cardinality(Read \ Looked),
     no_place |-> Cardinality({i \in Looked : Records[i].at = "none"}),
     no_date |-> Cardinality({i \in Looked : Records[i].date = NoDate}),
     other |-> Cardinality({i \in Looked : Records[i].category = "other"})]

-----------------------------------------------------------------------------
(* Deduplication, quality filter and split.                                *)

\* Rows without an id of their own are told apart by date, place and category only.
MatchKey(record) == <<record.source, record.date, record.at, record.category>>
Group(rows, i) == {j \in rows : MatchKey(Records[j]) = MatchKey(Records[i])}

\* Keeps the first of a group.
FaultyBest(group) == CHOOSE i \in group : \A j \in group : i <= j

\* The first of the best.
Best(group) ==
    LET top == {i \in group : \A j \in group : Records[j].quality <= Records[i].quality}
    IN  CHOOSE i \in top : \A j \in top : i <= j
Deduplicated(rows) == {Best(Group(rows, i)) : i \in rows}

Sufficient(rows) == {i \in rows : Records[i].quality >= MinQuality}

Part(record) ==
    IF record.date <= TrainEnd THEN "train"
    ELSE IF record.date <= ValidationEnd THEN "validation"
    ELSE "test"
Split(rows, part) == {i \in rows : Part(Records[i]) = part}

\* What export_all_formats is given.
Exported == Sufficient(Deduplicated(Validated))

\* How many other records lie near: computed before the quality filter.
Nearby(i, rows) ==
    Cardinality({j \in rows : /\ Records[j].id # Records[i].id
                              /\ Records[j].at # "none"
                              /\ Records[j].at = Records[i].at})

\* The report mixes the counts of the validation with the number exported.  Its HTML
\* divides by that number for each category validation counted, and a build whose report
\* fails exports nothing.
QualityReport == [counts |-> ValidationReport, total |-> Cardinality(Exported)]
Renders(report) == report.total > 0 \/ report.counts.valid + report.counts.invalid = 0

-----------------------------------------------------------------------------
AddRow(row) == Len(batch) < MaxBatch /\ batch' = Append(batch, row)
RecordsInit == batch = <<>>
RecordsNext == \E row \in RawRow : AddRow(row)
RecordsSpec == RecordsInit /\ [][RecordsNext]_recordVars

-----------------------------------------------------------------------------
\* Every row of the source is accounted for, except that a row whose normalization
\* raises is in no count of the report: the counts add up to the others.  What is
\* exported is valid, good enough and without repetition, by id and by match key; what
\* is not was invalid or too poor, or came after a record of its id, valid or not, or
\* gave way to an exported record of its match key that is no worse.  The parts of the
\* split add up to the export, no part reaches into the dates of the next, a record's
\* features count every exported record near it, and of rows that were read the report
\* can be made exactly if some are exported (build_dataset.py and the stages it runs).
RecordsAccounted ==
    LET report == QualityReport
        counts == report.counts
    IN  /\ \A k \in Exported :
             k \in Read /\ Valid(Records[k]) /\ Records[k].quality >= MinQuality
        /\ \A k, l \in Exported :
             k # l => /\ Records[k].id # Records[l].id
                      /\ MatchKey(Records[k]) # MatchKey(Records[l])
        /\ \A i \in Read :
             \/ ~Valid(Records[i]) \/ Records[i].quality < MinQuality
             \/ \E j \in Read : j < i /\ Records[j].id = Records[i].id
             \/ \E k \in Exported : /\ MatchKey(Records[k]) = MatchKey(Records[i])
                                    /\ Records[k].quality >= Records[i].quality
        /\ counts.valid + counts.invalid + counts.duplicate = Cardinality(Read)
        /\ report.total <= counts.valid /\ counts.no_date <= counts.invalid
        /\ Cardinality(Split(Exported, "train")) + Cardinality(Split(Exported, "validation"))
               + Cardinality(Split(Exported, "test")) = report.total
        /\ \A k, l \in Exported :
             (Part(Records[k]) = "train" /\ Part(Records[l]) # "train")
               => Records[k].date < Records[l].date
        /\ \A k \in Exported : Nearby(k, Exported) <= Nearby(k, Deduplicated(Validated))
        /\ Read # {} => (Renders(report) <=> Exported # {})
=============================================================================
