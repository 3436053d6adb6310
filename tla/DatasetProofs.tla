--------------------------- MODULE DatasetProofs ---------------------------
(***************************************************************************)
(* What becomes of observations.  For any sources, versions and changes,   *)
(* whatever fails or crashes and whenever: UpToDateWasBuilt.  For any rows *)
(* of a source: RecordsAccounted.  For any observations and queries of the *)
(* map: OverlaysAgree.                                                     *)
(***************************************************************************)
EXTENDS DatasetBuild, DatasetRecords, MapOverlays, SequenceTheorems, FiniteSetTheorems,
        WellFoundedInduction, TLAPS

Fetches == [Sources -> Contents \cup {None}]
Saving == {"lineage", "export", "done"}

DatasetTypes ==
    /\ remote \in [Sources -> Contents]
    /\ metadata \in Fetches
    /\ manifests \in [Versions -> Fetches]
    /\ state \in Fetches
    /\ fetched \in Fetches
    /\ step \in {"idle", "compare", "ingest", "process"} \cup Saving

\* Every checksum in update_state.json is of rows in a version exported to its end.
StateWasBuilt ==
    \A s \in Sources : HasRows(state[s]) => \E v \in exports : manifests[v][s] = state[s]

\* What the run holds of a source is what its checksum is of, and it holds nothing of an
\* excluded one.
FetchesAreChecked ==
    /\ \A s \in Sources : metadata[s] # None => s \in Government
    /\ \A s \in Government : fetched[s] # None => metadata[s] = fetched[s]
    /\ step \in {"process"} \cup Saving => \A s \in Excluded : fetched[s] = None

\* Versions are given out in order, and the last one is the run's own until it ends.
SavedInOrder == \A v \in Saved, w \in Versions : w < v => w \in Saved
RunOwnsLast ==
    /\ step \in Saving => Building \in Saved /\ manifests[Building] = Taken
    /\ step \in {"export", "done"} => Building \in lineages
    /\ step = "done" => Building \in exports

\* The inductive invariant.
DatasetInv ==
    /\ DatasetTypes
    /\ StateWasBuilt
    /\ FetchesAreChecked
    /\ SavedInOrder
    /\ RunOwnsLast
    /\ UpToDateWasBuilt

-----------------------------------------------------------------------------
LEMMA NatHasLeast ==
    ASSUME NEW S \in SUBSET Nat, S # {}
    PROVE  \E n \in S : \A m \in S : n <= m
<1> DEFINE Below == OpToRel(<, Nat)
<1>1. IsWellFoundedOn(Below, Nat)
  BY NatLessThanWellFounded
<1>2. \A m, n \in Nat : <<m, n>> \in Below <=> m < n
  BY DEF OpToRel
<1> HIDE DEF Below
<1>3. PICK n \in S : \A m \in S : ~(<<m, n>> \in Below)
  BY <1>1, WFMin, Zenon
<1>4. ASSUME NEW m \in S PROVE n <= m
  <2>1. m \in Nat /\ n \in Nat
    OBVIOUS
  <2>2. ~(m < n)
    BY <1>2, <1>3, <2>1
  <2> QED BY <2>1, <2>2
<1> QED BY <1>3, <1>4

LEMMA NewVersionIsLeast ==
    ASSUME Saved # Versions
    PROVE  NewVersion \in Versions \ Saved /\ \A w \in Versions \ Saved : NewVersion <= w
<1>1. Versions \ Saved # {} /\ Versions \ Saved \in SUBSET Nat
  BY VersionsAssumption DEF Saved, Versions
<1> QED BY <1>1, NatHasLeast DEF NewVersion

\* A step that leaves the files alone.
LEMMA FilesKept ==
    ASSUME DatasetInv, UNCHANGED files
    PROVE  /\ StateWasBuilt' /\ SavedInOrder' /\ Saved' = Saved
           /\ exports \subseteq lineages /\ lineages \subseteq Saved
           /\ \A v \in Saved, s \in Excluded : manifests[v][s] = None
BY DEF DatasetInv, StateWasBuilt, SavedInOrder, UpToDateWasBuilt, files, Saved

\* A step that writes no file and does not answer "up to date" keeps the promise.
LEMMA AnswerKept ==
    ASSUME DatasetInv, UNCHANGED files,
           answer' = answer \/ answer'.status # "up_to_date"
    PROVE  UpToDateWasBuilt'
BY DEF DatasetInv, UpToDateWasBuilt, files, Saved

LEMMA FetchInv ==
    ASSUME DatasetInv, NEW down \in SUBSET Sources, Probe(down) \/ Ingest(down)
    PROVE  DatasetInv'
<1>1. PICK ss \in SUBSET Sources :
          /\ Fetch(ss, down) /\ UNCHANGED files
          /\ step' = "compare" \/ (step' = "process" /\ ss \cap Excluded = {})
          /\ answer' \in {answer, Idle}
  <2>1. Sources \in SUBSET Sources /\ (Sources \ Excluded) \in SUBSET Sources
        /\ (Sources \ Excluded) \cap Excluded = {}
    OBVIOUS
  <2>2. CASE Probe(down)
    BY <2>1, <2>2 DEF Probe
  <2>3. CASE Ingest(down)
    BY <2>1, <2>3 DEF Ingest
  <2> QED BY <2>2, <2>3
<1> DEFINE got == {s \in ss : Fetchable(s, down)}
<1>2. /\ metadata' = [s \in Sources |-> IF s \in got \cap Government THEN remote[s] ELSE metadata[s]]
      /\ fetched' = [s \in Sources |-> IF s \in got THEN remote[s] ELSE None]
      /\ remote' = remote
  BY <1>1 DEF Fetch
<1>3. DatasetTypes'
  BY <1>1, <1>2 DEF DatasetInv, DatasetTypes, Fetches, Saving, files
<1>4. FetchesAreChecked'
  <2>1. \A s \in Sources : metadata'[s] # None => s \in Government
    BY <1>2 DEF DatasetInv, FetchesAreChecked
  <2>2. \A s \in Government : fetched'[s] # None => metadata'[s] = fetched'[s]
    BY <1>2, SourcesAssumption
  <2>3. step' \in {"process"} \cup Saving => \A s \in Excluded : fetched'[s] = None
    BY <1>1, <1>2, SourcesAssumption DEF Saving
  <2> QED BY <2>1, <2>2, <2>3 DEF FetchesAreChecked
<1>5. RunOwnsLast'
  BY <1>1 DEF RunOwnsLast, Saving
<1>6. UpToDateWasBuilt'
  BY <1>1, AnswerKept DEF Idle, None
<1> QED BY <1>1, <1>3, <1>4, <1>5, <1>6, FilesKept DEF DatasetInv

\* A run that begins, goes on to rebuild, ends without a version or dies.
LEMMA TurnInv ==
    ASSUME DatasetInv,
           \/ StartBuild \/ UpToDate \/ Rebuild \/ NoRecords \/ ReportFails \/ Crash
           \/ \E s \in Sources, c \in Contents : RemoteChanges(s, c)
    PROVE  DatasetInv'
<1>1. /\ UNCHANGED <<metadata, files>>
      /\ fetched' \in {fetched, Nothing}
      /\ \/ step' \in {"idle", "ingest"}
         \/ step' = step /\ fetched' = fetched
      /\ remote' \in [Sources -> Contents]
  BY DEF StartBuild, UpToDate, Rebuild, NoRecords, ReportFails, Crash, RemoteChanges, Ends,
         DatasetInv, DatasetTypes
<1>2. DatasetTypes'
  BY <1>1 DEF DatasetInv, DatasetTypes, Fetches, Nothing, Saving, files
<1>3. FetchesAreChecked'
  BY <1>1, SourcesAssumption DEF DatasetInv, FetchesAreChecked, Nothing, Saving
<1>4. RunOwnsLast'
  BY <1>1 DEF DatasetInv, RunOwnsLast, Saving, Building, Saved, Taken, files
<1>5. UpToDateWasBuilt'
  <2>1. CASE UpToDate
    <3>1. /\ \A s \in Sources : HasRows(fetched[s]) => fetched[s] = state[s]
          /\ answer' = [status |-> "up_to_date", fetched |-> fetched]
      BY <2>1 DEF UpToDate, Changed, Ends
    <3>2. \A s \in Sources :
              HasRows(answer'.fetched[s]) => \E v \in exports : manifests[v][s] = answer'.fetched[s]
      BY <3>1 DEF DatasetInv, StateWasBuilt
    <3> QED BY <1>1, <3>2, FilesKept DEF UpToDateWasBuilt, files
  <2>2. CASE ~UpToDate
    <3>1. answer' = answer \/ answer'.status # "up_to_date"
      BY <2>2 DEF StartBuild, Rebuild, NoRecords, ReportFails, Crash, RemoteChanges, Ends, Idle, None
    <3> QED BY <1>1, <3>1, AnswerKept
  <2> QED BY <2>1, <2>2
<1> QED BY <1>1, <1>2, <1>3, <1>4, <1>5, FilesKept DEF DatasetInv

LEMMA SaveManifestInv ==
    ASSUME DatasetInv, SaveManifest
    PROVE  DatasetInv'
<1> DEFINE new == NewVersion
<1>1. /\ new \in Versions \ Saved /\ \A w \in Versions \ Saved : new <= w
      /\ manifests' = [manifests EXCEPT ![new] = Taken]
      /\ step' = "lineage" /\ step = "process"
      /\ UNCHANGED <<remote, changes, primed, metadata, lineages, exports, state, fetched, answer>>
  BY NewVersionIsLeast DEF SaveManifest
<1> HIDE DEF new
<1>2. Taken \in Fetches /\ Taken # Nothing /\ \A s \in Excluded : Taken[s] = None
  <2>1. PICK s \in Sources : HasValid(fetched[s])
    BY DEF SaveManifest
  <2>2. Taken[s] # Nothing[s]
    BY <2>1 DEF HasValid, HasRows, Taken, Nothing, None
  <2>3. \A t \in Excluded : fetched[t] = None /\ t \in Sources
    BY <1>1, SourcesAssumption DEF DatasetInv, FetchesAreChecked
  <2> QED BY <2>2, <2>3 DEF Taken, Fetches, DatasetInv, DatasetTypes
<1>3. /\ manifests \in [Versions -> Fetches] /\ manifests'[new] = Taken
      /\ \A v \in Versions : v # new => manifests'[v] = manifests[v]
      /\ Saved' = Saved \cup {new} /\ Saved \subseteq Versions /\ new \notin Saved
  BY <1>1, <1>2 DEF DatasetInv, DatasetTypes, Saved
<1>4. DatasetTypes'
  BY <1>1, <1>2 DEF DatasetInv, DatasetTypes, Saving
<1>5. exports \subseteq lineages /\ lineages \subseteq Saved
  BY DEF DatasetInv, UpToDateWasBuilt
<1>6. \A v \in exports : manifests'[v] = manifests[v]
  BY <1>3, <1>5
<1>7. StateWasBuilt'
  BY <1>1, <1>6 DEF DatasetInv, StateWasBuilt
<1>8. FetchesAreChecked'
  BY <1>1 DEF DatasetInv, FetchesAreChecked, Saving
<1>9. /\ SavedInOrder'
      /\ \A w \in Saved' : w <= new
  <2>1. Versions \subseteq Int
    BY VersionsAssumption DEF Versions
  <2>2. \A v \in Saved, w \in Versions : w < v => w \in Saved
    BY DEF DatasetInv, SavedInOrder
  <2>3. \A w \in Versions : w < new => w \in Saved
    BY <1>1, <2>1
  <2>4. \A w \in Saved : w < new
    BY <1>1, <1>3, <2>1, <2>2
  <2>5. Versions' = Versions
    BY DEF Versions
  <2> QED BY <1>1, <1>3, <2>1, <2>2, <2>3, <2>4, <2>5 DEF SavedInOrder
<1>10. Building' = new
  <2>1. new \in Saved' /\ Saved' \subseteq Int
    BY <1>1, <1>3, VersionsAssumption DEF Versions
  <2>2. \A v \in Saved' : (\A w \in Saved' : w <= v) => v = new
    BY <1>9, <2>1
  <2> QED BY <1>9, <2>1, <2>2 DEF Building
<1>11. RunOwnsLast'
  <2>1. Taken' = Taken
    BY <1>1 DEF Taken
  <2> QED BY <1>1, <1>3, <1>10, <2>1 DEF RunOwnsLast
<1>12. UpToDateWasBuilt'
  BY <1>1, <1>2, <1>3, <1>5, <1>6 DEF DatasetInv, UpToDateWasBuilt
<1> QED BY <1>4, <1>7, <1>8, <1>9, <1>11, <1>12 DEF DatasetInv

\* Lineage, export and state file are written for the version the run owns.
LEMMA WriteInv ==
    ASSUME DatasetInv, SaveLineage \/ Export \/ Finish
    PROVE  DatasetInv'
<1>1. /\ Building \in Saved /\ manifests[Building] = Taken
      /\ UNCHANGED <<remote, metadata, manifests>>
      /\ Saved' = Saved /\ Building' = Building
      /\ step \in Saving
  BY DEF SaveLineage, Export, Finish, DatasetInv, RunOwnsLast, Saving, Saved, Building
<1>2. CASE SaveLineage
  <2>1. /\ lineages' = lineages \cup {Building} /\ step' = "export" /\ exports' = exports
        /\ UNCHANGED <<state, fetched, answer>> /\ Taken' = Taken
    BY <1>2 DEF SaveLineage, Taken
  <2> QED
    BY <1>1, <2>1 DEF DatasetInv, DatasetTypes, StateWasBuilt, FetchesAreChecked, SavedInOrder,
                      RunOwnsLast, UpToDateWasBuilt, Saving, Versions
<1>3. CASE Export
  <2>1. /\ exports' = exports \cup {Building} /\ step' = "done" /\ lineages' = lineages
        /\ UNCHANGED <<state, fetched, answer>> /\ Taken' = Taken
        /\ Building \in lineages
    BY <1>3 DEF Export, Taken, DatasetInv, RunOwnsLast
  <2> QED
    BY <1>1, <2>1 DEF DatasetInv, DatasetTypes, StateWasBuilt, FetchesAreChecked, SavedInOrder,
                      RunOwnsLast, UpToDateWasBuilt, Saving, Versions
<1>4. CASE Finish
  <2>1. /\ state' \in {state, NewState} /\ fetched' = Nothing /\ step' = "idle"
        /\ UNCHANGED <<exports, lineages>> /\ Building \in exports
        /\ answer'.status = "success"
    BY <1>4 DEF Finish, Ends, DatasetInv, RunOwnsLast
  <2>2. \A s \in Sources : NewState[s] \in {state[s], metadata[s]} /\ metadata[s] \in Contents \cup {None}
    BY DEF NewState, CurrentChecksum, DatasetInv, DatasetTypes, Fetches
  <2>3. NewState \in Fetches
    BY <2>2 DEF NewState, Fetches, CurrentChecksum, DatasetInv, DatasetTypes
  <2>4. DatasetTypes'
    BY <1>1, <2>1, <2>3 DEF DatasetInv, DatasetTypes, Fetches, Nothing
  <2>5. StateWasBuilt'
    <3> SUFFICES ASSUME NEW s \in Sources, HasRows(state'[s])
                 PROVE  \E v \in exports : manifests[v][s] = state'[s]
      BY <1>1, <2>1 DEF StateWasBuilt
    <3>1. CASE state'[s] = state[s]
      BY <3>1 DEF DatasetInv, StateWasBuilt
    <3>2. CASE state'[s] # state[s]
      <4>1. HasRows(fetched[s]) /\ state'[s] = metadata[s]
        BY <2>1, <3>2 DEF NewState, CurrentChecksum
      <4>2. metadata[s] = fetched[s]
        BY <4>1 DEF HasRows, DatasetInv, FetchesAreChecked
      <4>3. manifests[Building][s] = fetched[s]
        BY <1>1, <4>1 DEF Taken
      <4> QED BY <2>1, <4>1, <4>2, <4>3
    <3> QED BY <3>1, <3>2
  <2>6. FetchesAreChecked'
    BY <1>1, <2>1, SourcesAssumption DEF DatasetInv, FetchesAreChecked, Nothing, Saving
  <2>7. SavedInOrder' /\ RunOwnsLast' /\ UpToDateWasBuilt'
    BY <1>1, <2>1 DEF DatasetInv, SavedInOrder, RunOwnsLast, UpToDateWasBuilt, Saving, Versions
  <2> QED BY <2>4, <2>5, <2>6, <2>7 DEF DatasetInv
<1> QED BY <1>2, <1>3, <1>4

-----------------------------------------------------------------------------
\* Whatever crashed, failed or changed before it, an update that answers "up to date"
\* speaks the truth of every source it could read (update.py).
THEOREM UpToDateIsTrue == DatasetSpec => []UpToDateWasBuilt
<1>1. ASSUME DatasetInit PROVE DatasetInv
  <2>1. Saved = {}
    BY <1>1 DEF DatasetInit, Saved
  <2>2. Nothing \in Fetches /\ metadata \in Fetches /\ remote \in [Sources -> Contents]
    BY <1>1 DEF DatasetInit, Nothing, Fetches, Contents
  <2>3. DatasetTypes
    BY <1>1, <2>2 DEF DatasetInit, DatasetTypes
  <2>4. StateWasBuilt /\ SavedInOrder /\ RunOwnsLast /\ UpToDateWasBuilt
    BY <1>1, <2>1 DEF DatasetInit, StateWasBuilt, SavedInOrder, RunOwnsLast, UpToDateWasBuilt,
                      Nothing, HasRows, None, Saving, Idle
  <2>5. FetchesAreChecked
    BY <1>1, SourcesAssumption DEF DatasetInit, FetchesAreChecked, Nothing, None, Saving
  <2> QED BY <2>3, <2>4, <2>5 DEF DatasetInv
<1>2. ASSUME DatasetInv, [DatasetNext]_datasetVars PROVE DatasetInv'
  <2>1. CASE UNCHANGED datasetVars
    BY <1>2, <2>1 DEF datasetVars, DatasetInv, DatasetTypes, StateWasBuilt, FetchesAreChecked,
                      SavedInOrder, RunOwnsLast, UpToDateWasBuilt, Saved, Building, Taken
  <2> QED BY <1>2, <2>1, FetchInv, TurnInv, SaveManifestInv, WriteInv DEF DatasetNext
<1>3. DatasetInv => UpToDateWasBuilt
  BY DEF DatasetInv
<1> QED BY <1>1, <1>2, <1>3, PTL DEF DatasetSpec

-----------------------------------------------------------------------------
(* The records of a dataset: what is said of them holds of any rows.       *)

RowsTyped == batch \in Seq(RawRow)

LEMMA RecordTypes ==
    ASSUME RowsTyped
    PROVE  /\ DOMAIN batch = 1..Len(batch) /\ Len(batch) \in Nat
           /\ IsFiniteSet(DOMAIN batch) /\ Cardinality(DOMAIN batch) = Len(batch)
           /\ \A i \in DOMAIN batch : /\ i \in Nat /\ i >= 1 /\ Records[i].date \in Nat
                                     /\ Records[i].quality \in Nat /\ Records[i].quality <= 100
<1>1. DOMAIN batch = 1..Len(batch) /\ Len(batch) \in Nat
  BY DEF RowsTyped
<1>2. IsFiniteSet(DOMAIN batch) /\ Cardinality(DOMAIN batch) = Len(batch)
  <2>1. PICK n \in Nat : n = Len(batch)
    BY <1>1
  <2>2. IsFiniteSet(1..n) /\ Cardinality(1..n) = IF 1 > n THEN 0 ELSE n - 1 + 1
    BY FS_Interval
  <2>3. Cardinality(1..n) = n
    BY <2>2
  <2> QED BY <1>1, <2>1, <2>2, <2>3
<1>3. ASSUME NEW i \in DOMAIN batch
      PROVE  /\ i \in Nat /\ i >= 1 /\ Records[i].date \in Nat
             /\ Records[i].quality \in Nat /\ Records[i].quality <= 100
  <2>1. batch[i] \in RawRow
    BY DEF RowsTyped
  <2>2. batch[i].date \in Nat
    BY <2>1 DEF RawRow, AnyRow, Dates, NoDate
  <2>3. Quality(batch[i]) \in 0..100
    BY DEF Quality
  <2>4. Records[i].date = batch[i].date /\ Records[i].quality = Quality(batch[i])
    BY DEF Records, Normalized
  <2>5. i \in Nat /\ i >= 1
    BY <1>1
  <2>6. PICK q \in 0..100 : q = Quality(batch[i])
    BY <2>3
  <2> QED BY <2>2, <2>4, <2>5, <2>6
<1> QED BY <1>1, <1>2, <1>3

LEMMA ListsAreFew ==
    ASSUME RowsTyped, NEW rows \in SUBSET DOMAIN batch
    PROVE  IsFiniteSet(rows) /\ Cardinality(rows) \in Nat
BY RecordTypes, FS_Subset, FS_CardinalityType

\* max over a group: of the group, and as good as any record of it.
LEMMA BestIsBest ==
    ASSUME RowsTyped, NEW rows \in SUBSET DOMAIN batch, NEW i \in rows
    PROVE  /\ Best(Group(rows, i)) \in Group(rows, i)
           /\ \A j \in Group(rows, i) : Records[j].quality <= Records[Best(Group(rows, i))].quality
<1>1. PICK G : G = Group(rows, i)
  OBVIOUS
<1>2. /\ G \in SUBSET Nat /\ i \in G
      /\ \A j \in G : Records[j].quality \in Nat /\ 100 - Records[j].quality \in Nat
  <2>1. ASSUME NEW j \in G
        PROVE  j \in Nat /\ Records[j].quality \in Nat /\ 100 - Records[j].quality \in Nat
    <3>1. j \in DOMAIN batch
      BY <1>1 DEF Group
    <3> QED BY <3>1, RecordTypes
  <2>2. i \in G
    BY <1>1 DEF Group
  <2> QED BY <2>1, <2>2
<1> DEFINE top == {k \in G : \A j \in G : Records[j].quality <= Records[k].quality}
           lacks == {100 - Records[j].quality : j \in G}
<1>3. lacks \in SUBSET Nat /\ lacks # {}
  BY <1>2
<1>4. PICK least \in lacks : \A m \in lacks : least <= m
  <2> HIDE DEF lacks
  <2> QED BY <1>3, NatHasLeast
<1>5. top # {}
  <2>1. PICK k \in G : least = 100 - Records[k].quality
    OBVIOUS
  <2>2. ASSUME NEW j \in G PROVE Records[j].quality <= Records[k].quality
    <3>1. 100 - Records[k].quality <= 100 - Records[j].quality
      BY <1>4, <2>1
    <3> QED BY <1>2, <3>1
  <2> QED BY <2>2
<1>6. top \in SUBSET Nat
  BY <1>2
<1>7. \E k \in top : \A j \in top : k <= j
  <2> HIDE DEF top
  <2> QED BY <1>5, <1>6, NatHasLeast
<1>8. Best(G) = CHOOSE k \in top : \A j \in top : k <= j
  BY DEF Best
<1>9. Best(G) \in top
  <2> HIDE DEF top
  <2> QED BY <1>7, <1>8
<1> QED BY <1>1, <1>9

\* One record is kept for each match key.
LEMMA DeduplicatedOnce ==
    ASSUME RowsTyped, NEW rows \in SUBSET DOMAIN batch
    PROVE  /\ Deduplicated(rows) \in SUBSET rows
           /\ \A k, l \in Deduplicated(rows) : MatchKey(Records[k]) = MatchKey(Records[l]) => k = l
           /\ \A i \in rows : \E k \in Deduplicated(rows) :
                  /\ MatchKey(Records[k]) = MatchKey(Records[i])
                  /\ Records[k].quality >= Records[i].quality
<1>1. ASSUME NEW i \in rows
      PROVE  /\ Best(Group(rows, i)) \in rows
             /\ MatchKey(Records[Best(Group(rows, i))]) = MatchKey(Records[i])
             /\ Records[i].quality <= Records[Best(Group(rows, i))].quality
  <2>1. i \in Group(rows, i)
    BY DEF Group
  <2>2. Best(Group(rows, i)) \in Group(rows, i)
        /\ Records[i].quality <= Records[Best(Group(rows, i))].quality
    BY <2>1, BestIsBest
  <2> QED BY <2>2 DEF Group
<1>2. Deduplicated(rows) \in SUBSET rows
  BY <1>1 DEF Deduplicated
<1>3. ASSUME NEW k \in Deduplicated(rows), NEW l \in Deduplicated(rows),
             MatchKey(Records[k]) = MatchKey(Records[l])
      PROVE  k = l
  <2>1. PICK i \in rows : k = Best(Group(rows, i))
    BY DEF Deduplicated
  <2>2. PICK j \in rows : l = Best(Group(rows, j))
    BY DEF Deduplicated
  <2>3. MatchKey(Records[i]) = MatchKey(Records[j])
    BY <1>1, <1>3, <2>1, <2>2
  <2>4. Group(rows, i) = Group(rows, j)
    BY <2>3 DEF Group
  <2> QED BY <2>1, <2>2, <2>4
<1>4. ASSUME NEW i \in rows
      PROVE  \E k \in Deduplicated(rows) : /\ MatchKey(Records[k]) = MatchKey(Records[i])
                                           /\ Records[k].quality >= Records[i].quality
  <2>1. PICK k : k = Best(Group(rows, i))
    OBVIOUS
  <2>2. k \in Deduplicated(rows) /\ k \in rows
    BY <1>1, <2>1 DEF Deduplicated
  <2>3. MatchKey(Records[k]) = MatchKey(Records[i]) /\ Records[i].quality <= Records[k].quality
    BY <1>1, <2>1
  <2>4. Records[k].quality \in Nat /\ Records[i].quality \in Nat
    <3>1. k \in DOMAIN batch /\ i \in DOMAIN batch
      BY <2>2
    <3> QED BY <3>1, RecordTypes
  <2> QED BY <2>2, <2>3, <2>4
<1> QED BY <1>2, <1>3, <1>4

LEMMA RestCounted ==
    ASSUME NEW S, IsFiniteSet(S), NEW T \in SUBSET S
    PROVE  Cardinality(S \ T) = Cardinality(S) - Cardinality(T)
<1>1. S \cap T = T
  OBVIOUS
<1>2. Cardinality(S \ T) = Cardinality(S) - Cardinality(S \cap T)
  BY FS_Difference
<1> QED BY <1>1, <1>2

\* The validation's three counts.
LEMMA CountsAddUp ==
    ASSUME RowsTyped
    PROVE  /\ Cardinality(Validated) + Cardinality(Looked \ Validated)
                + Cardinality(Read \ Looked) = Cardinality(Read)
           /\ {i \in Looked : Records[i].date = NoDate} \in SUBSET (Looked \ Validated)
<1>1. Looked \in SUBSET Read /\ Read \in SUBSET DOMAIN batch /\ Validated \in SUBSET Looked
  BY DEF Looked, Validated, Read
<1>2. /\ IsFiniteSet(Looked) /\ Cardinality(Looked) \in Nat /\ Cardinality(Validated) \in Nat
      /\ IsFiniteSet(Read) /\ Cardinality(Read) \in Nat
  BY <1>1, ListsAreFew
<1>3. Cardinality(Looked \ Validated) = Cardinality(Looked) - Cardinality(Validated)
  BY <1>1, <1>2, RestCounted
<1>4. Cardinality(Read \ Looked) = Cardinality(Read) - Cardinality(Looked)
  BY <1>1, <1>2, RestCounted
<1>5. {i \in Looked : Records[i].date = NoDate} \in SUBSET (Looked \ Validated)
  BY DEF Validated, Valid
<1> QED BY <1>2, <1>3, <1>4, <1>5

\* Of the rows that were read, the first is looked at.
LEMMA FirstIsLooked ==
    ASSUME RowsTyped, Read # {}
    PROVE  Looked # {}
<1>1. Read \in SUBSET Nat
  BY RecordTypes DEF Read
<1>2. PICK i \in Read : \A j \in Read : i <= j
  BY <1>1, NatHasLeast
<1>3. \A j \in Read : ~(j < i)
  BY <1>1, <1>2
<1> QED BY <1>2, <1>3 DEF Looked

\* Every record goes to one part.
LEMMA PartsAddUp ==
    ASSUME RowsTyped, NEW rows \in SUBSET DOMAIN batch
    PROVE  Cardinality(Split(rows, "train")) + Cardinality(Split(rows, "validation"))
             + Cardinality(Split(rows, "test")) = Cardinality(rows)
<1>1. PICK train, validation, test :
          /\ train = Split(rows, "train") /\ validation = Split(rows, "validation")
          /\ test = Split(rows, "test")
  OBVIOUS
<1>2. /\ train \in SUBSET rows /\ validation \in SUBSET rows /\ test \in SUBSET rows
      /\ rows \cap train = train /\ (rows \ train) \cap validation = validation
      /\ (rows \ train) \ validation = test
  BY <1>1 DEF Split, Part
<1>3. /\ IsFiniteSet(rows) /\ Cardinality(rows) \in Nat /\ Cardinality(train) \in Nat
      /\ Cardinality(validation) \in Nat /\ IsFiniteSet(rows \ train)
  BY <1>2, ListsAreFew
<1>4. Cardinality(rows \ train) = Cardinality(rows) - Cardinality(train)
  BY <1>2, <1>3, RestCounted
<1>5. Cardinality((rows \ train) \ validation) = Cardinality(rows \ train) - Cardinality(validation)
  <2>1. validation \in SUBSET (rows \ train)
    BY <1>2
  <2> QED BY <1>3, <2>1, RestCounted
<1>6. Cardinality(test) = Cardinality(rows) - Cardinality(train) - Cardinality(validation)
  BY <1>2, <1>4, <1>5
<1>7. Cardinality(test) \in Nat
  BY <1>2, ListsAreFew
<1>8. Cardinality(train) + Cardinality(validation) + Cardinality(test) = Cardinality(rows)
  <2> HIDE DEF Split
  <2> QED BY <1>3, <1>6, <1>7
<1> QED BY <1>1, <1>8

\* Whatever rows the sources return, and wherever the threshold and the ends of the parts
\* are: nothing is lost but what is invalid, poor or a repetition, nothing is exported
\* twice, and the counts add up (validate.py, deduplicate.py, build_dataset.py,
\* engineer.py, quality_report.py).
THEOREM RecordsAlwaysAccounted == RecordsSpec => []RecordsAccounted
<1>1. RecordsInit => RowsTyped
  BY DEF RecordsInit, RowsTyped
<1>2. RowsTyped /\ [RecordsNext]_recordVars => RowsTyped'
  BY DEF RecordsNext, AddRow, recordVars, RowsTyped
<1>3. ASSUME RowsTyped PROVE RecordsAccounted
  <2>1. /\ Read \in SUBSET DOMAIN batch /\ Looked \in SUBSET Read
        /\ Looked \in SUBSET DOMAIN batch /\ Validated \in SUBSET Looked
        /\ Deduplicated(Validated) \in SUBSET Validated
        /\ Exported \in SUBSET Deduplicated(Validated)
    <3>1. /\ Read \in SUBSET DOMAIN batch /\ Looked \in SUBSET Read
          /\ Looked \in SUBSET DOMAIN batch /\ Validated \in SUBSET Looked
      BY DEF Looked, Validated, Read
    <3>2. Deduplicated(Validated) \in SUBSET Validated
      BY <1>3, <3>1, DeduplicatedOnce
    <3> QED BY <3>1, <3>2 DEF Exported, Sufficient
  <2>2. ASSUME NEW k \in Exported
        PROVE  k \in Read /\ Valid(Records[k]) /\ Records[k].quality >= MinQuality
    BY <2>1 DEF Exported, Sufficient, Validated
  <2>3. ASSUME NEW k \in Exported, NEW l \in Exported, k # l
        PROVE  Records[k].id # Records[l].id /\ MatchKey(Records[k]) # MatchKey(Records[l])
    <3>1. MatchKey(Records[k]) # MatchKey(Records[l])
      BY <1>3, <2>1, <2>3, DeduplicatedOnce
    <3>2. k \in Looked /\ l \in Looked /\ k \in Read /\ l \in Read /\ k \in Nat /\ l \in Nat
      BY <1>3, <2>1, RecordTypes
    <3>3. k < l \/ l < k
      BY <2>3, <3>2
    <3> QED BY <3>1, <3>2, <3>3 DEF Looked
  <2>4. ASSUME NEW i \in Read, Valid(Records[i]), ~(Records[i].quality < MinQuality),
               ~\E j \in Read : j < i /\ Records[j].id = Records[i].id
        PROVE  \E k \in Exported : /\ MatchKey(Records[k]) = MatchKey(Records[i])
                                   /\ Records[k].quality >= Records[i].quality
    <3>1. i \in Validated
      BY <2>4 DEF Validated, Looked
    <3>2. PICK k \in Deduplicated(Validated) : /\ MatchKey(Records[k]) = MatchKey(Records[i])
                                               /\ Records[k].quality >= Records[i].quality
      BY <1>3, <2>1, <3>1, DeduplicatedOnce
    <3>3. Records[k].quality \in Nat /\ Records[i].quality \in Nat
      <4>1. k \in DOMAIN batch /\ i \in DOMAIN batch
        BY <2>1, <3>2
      <4> QED BY <1>3, <4>1, RecordTypes
    <3>4. k \in Exported
      BY <2>4, <3>2, <3>3, QualityAssumption DEF Exported, Sufficient
    <3> QED BY <3>2, <3>4
  <2>5. /\ QualityReport.counts = ValidationReport
        /\ QualityReport.total = Cardinality(Exported)
        /\ ValidationReport.valid = Cardinality(Validated)
        /\ ValidationReport.invalid = Cardinality(Looked \ Validated)
        /\ ValidationReport.duplicate = Cardinality(Read \ Looked)
        /\ ValidationReport.no_date = Cardinality({i \in Looked : Records[i].date = NoDate})
    BY DEF QualityReport, ValidationReport
  <2>6. Cardinality(Exported) <= Cardinality(Validated)
    <3>1. Exported \in SUBSET Validated /\ IsFiniteSet(Validated)
      BY <1>3, <2>1, ListsAreFew
    <3> QED BY <3>1, FS_Subset
  <2>7. Cardinality({i \in Looked : Records[i].date = NoDate}) <= Cardinality(Looked \ Validated)
    <3>1. PICK undated, invalid :
              undated = {i \in Looked : Records[i].date = NoDate} /\ invalid = Looked \ Validated
      OBVIOUS
    <3>2. undated \in SUBSET invalid
      BY <1>3, <3>1, CountsAddUp
    <3>3. IsFiniteSet(invalid)
      BY <1>3, <2>1, <3>1, ListsAreFew
    <3>4. Cardinality(undated) <= Cardinality(invalid)
      BY <3>2, <3>3, FS_Subset
    <3> QED BY <3>1, <3>4
  <2>8. ASSUME NEW k \in Exported, NEW l \in Exported,
               Part(Records[k]) = "train", Part(Records[l]) # "train"
        PROVE  Records[k].date < Records[l].date
    <3>1. Records[k].date \in Nat /\ Records[l].date \in Nat
      BY <1>3, <2>1, RecordTypes
    <3> QED BY <2>8, <3>1, SplitAssumption DEF Part
  <2>9. ASSUME NEW k \in Exported PROVE Nearby(k, Exported) <= Nearby(k, Deduplicated(Validated))
    <3> DEFINE Near(rows) == {j \in rows : /\ Records[j].id # Records[k].id
                                           /\ Records[j].at # "none"
                                           /\ Records[j].at = Records[k].at}
    <3>1. Near(Exported) \in SUBSET Near(Deduplicated(Validated))
      BY <2>1
    <3>2. IsFiniteSet(Near(Deduplicated(Validated)))
      BY <1>3, <2>1, ListsAreFew
    <3>3. Cardinality(Near(Exported)) <= Cardinality(Near(Deduplicated(Validated)))
      <4> HIDE DEF Near
      <4> QED BY <3>1, <3>2, FS_Subset
    <3> QED BY <3>3 DEF Nearby
  <2>10. Cardinality(Split(Exported, "train")) + Cardinality(Split(Exported, "validation"))
           + Cardinality(Split(Exported, "test")) = QualityReport.total
    BY <1>3, <2>1, <2>5, PartsAddUp
  <2>11. ASSUME Read # {} PROVE Renders(QualityReport) <=> Exported # {}
    <3>1. IsFiniteSet(Exported) /\ Cardinality(Exported) \in Nat
      BY <1>3, <2>1, ListsAreFew
    <3>2. Exported # {} <=> Cardinality(Exported) # 0
      BY <3>1, FS_EmptySet
    <3>3. /\ IsFiniteSet(Looked) /\ Cardinality(Looked) \in Nat
          /\ Cardinality(Validated) \in Nat /\ Cardinality(Looked \ Validated) \in Nat
      BY <1>3, <2>1, ListsAreFew
    <3>4. Cardinality(Looked) # 0
      BY <1>3, <2>11, <3>3, FirstIsLooked, FS_EmptySet
    <3>5. Cardinality(Looked \ Validated) = Cardinality(Looked) - Cardinality(Validated)
      BY <2>1, <3>3, RestCounted
    <3>6. Cardinality(Validated) + Cardinality(Looked \ Validated) # 0
      BY <3>3, <3>4, <3>5
    <3> QED BY <2>5, <3>1, <3>2, <3>6 DEF Renders
  <2>12. QualityReport.counts.valid + QualityReport.counts.invalid + QualityReport.counts.duplicate
           = Cardinality(Read)
    BY <1>3, <2>5, CountsAddUp
  <2> QED BY <2>2, <2>3, <2>4, <2>5, <2>6, <2>7, <2>8, <2>9, <2>10, <2>11, <2>12
          DEF RecordsAccounted
<1> QED BY <1>1, <1>2, <1>3, PTL DEF RecordsSpec

-----------------------------------------------------------------------------
(* The map's overlays.                                                     *)

\* The rows after row i.
After(S, i) == {j \in S : i < j}

LEMMA AfterIsLess ==
    ASSUME NEW S \in SUBSET Nat, IsFiniteSet(S), NEW i \in S
    PROVE  /\ Cardinality(After(S, i)) \in 0..(Cardinality(S) - 1)
           /\ \A j \in S : i < j => Cardinality(After(S, j)) < Cardinality(After(S, i))
<1>1. IsFiniteSet(S \ {i}) /\ Cardinality(S \ {i}) = Cardinality(S) - 1 /\ Cardinality(S) \in Nat
  BY FS_RemoveElement, FS_CardinalityType
<1>2. After(S, i) \in SUBSET (S \ {i})
  BY DEF After
<1>3. /\ Cardinality(After(S, i)) <= Cardinality(S) - 1 /\ IsFiniteSet(After(S, i))
      /\ Cardinality(After(S, i)) \in Nat
  BY <1>1, <1>2, FS_Subset, FS_CardinalityType
<1>4. ASSUME NEW j \in S, i < j PROVE Cardinality(After(S, j)) < Cardinality(After(S, i))
  <2>1. After(S, j) \in SUBSET After(S, i) /\ j \in After(S, i) /\ j \notin After(S, j)
    <3>1. i \in Nat /\ j \in Nat /\ \A k \in S : k \in Nat
      OBVIOUS
    <3>2. \A k \in S : j < k => i < k
      BY <1>4, <3>1
    <3>3. After(S, j) \in SUBSET After(S, i)
      BY <3>2 DEF After
    <3>4. j \in After(S, i) /\ j \notin After(S, j)
      BY <1>4, <3>1 DEF After
    <3> QED BY <3>3, <3>4
  <2>2. /\ Cardinality(After(S, j)) <= Cardinality(After(S, i))
        /\ Cardinality(After(S, j)) # Cardinality(After(S, i))
        /\ Cardinality(After(S, j)) \in Nat
    BY <1>3, <2>1, FS_Subset, FS_CardinalityType
  <2> QED BY <1>3, <2>2
<1> QED BY <1>1, <1>3, <1>4

\* LIMIT takes as many rows as there are, or as it says.
LEMMA LatestAreCounted ==
    ASSUME NEW S \in SUBSET Nat, IsFiniteSet(S), NEW limit \in Nat
    PROVE  Cardinality(Latest(S, limit)) = IF Cardinality(S) < limit THEN Cardinality(S) ELSE limit
<1> DEFINE top == {i \in S : Cardinality(After(S, i)) < limit}
           rank == [i \in S |-> Cardinality(After(S, i))]
           below == [i \in top |-> Cardinality(After(S, i))]
<1>1. Latest(S, limit) = top
  BY DEF Latest, After
<1>2. PICK n \in Nat : n = Cardinality(S)
  BY FS_CardinalityType
<1>3. /\ \A i \in S : Cardinality(After(S, i)) \in 0..(n - 1)
      /\ \A i, j \in S : Cardinality(After(S, i)) = Cardinality(After(S, j)) => i = j
  <2>1. \A i \in S : Cardinality(After(S, i)) \in 0..(n - 1)
    BY <1>2, AfterIsLess
  <2>2. ASSUME NEW i \in S, NEW j \in S, i < j
        PROVE  Cardinality(After(S, i)) # Cardinality(After(S, j))
    <3>1. Cardinality(After(S, j)) < Cardinality(After(S, i))
      BY <2>2, AfterIsLess
    <3> QED BY <2>1, <3>1
  <2>3. \A i, j \in S : i = j \/ i < j \/ j < i
    OBVIOUS
  <2> QED BY <2>1, <2>2, <2>3
<1>4. CASE n < limit
  <2>1. top = S
    <3>1. ASSUME NEW i \in S PROVE Cardinality(After(S, i)) < limit
      <4>1. Cardinality(After(S, i)) \in 0..(n - 1)
        BY <1>3
      <4> QED BY <1>4, <4>1
    <3> QED BY <3>1
  <2> QED BY <1>1, <1>2, <1>4, <2>1
<1>5. CASE ~(n < limit)
  <2>1. IsFiniteSet(0..(n - 1)) /\ Cardinality(0..(n - 1)) = n
    <3>1. n - 1 \in Int /\ (IF 0 > n - 1 THEN 0 ELSE (n - 1) - 0 + 1) = n
      OBVIOUS
    <3> QED BY <3>1, FS_Interval
  <2>2. IsFiniteSet(0..(limit - 1)) /\ Cardinality(0..(limit - 1)) = limit
    BY FS_Interval
  <2>3. rank \in Injection(S, 0..(n - 1))
    BY <1>3 DEF Injection, IsInjective
  <2>4. rank \in Surjection(S, 0..(n - 1))
    <3> HIDE DEF rank
    <3> QED BY <1>2, <2>1, <2>3, FS_Injection
  <2>5. \A k \in 0..(n - 1) : \E i \in S : Cardinality(After(S, i)) = k
    BY <2>4 DEF Surjection
  <2>6. below \in Injection(top, 0..(limit - 1))
    <3>1. \A i \in top : Cardinality(After(S, i)) \in 0..(limit - 1)
      BY <1>3
    <3> QED BY <1>3, <3>1 DEF Injection, IsInjective
  <2>7. below \in Surjection(top, 0..(limit - 1))
    <3>1. ASSUME NEW k \in 0..(limit - 1) PROVE \E i \in top : below[i] = k
      <4>1. k \in 0..(n - 1) /\ k < limit
        BY <1>5
      <4>2. PICK i \in S : Cardinality(After(S, i)) = k
        BY <2>5, <4>1
      <4> QED BY <4>1, <4>2
    <3> HIDE DEF below, top
    <3> QED BY <2>6, <3>1 DEF Surjection, Injection
  <2>8. Cardinality(top) = limit
    <3> HIDE DEF below, top
    <3> QED BY <2>2, <2>6, <2>7, FS_Injection
  <2> QED BY <1>1, <1>2, <1>5, <2>8
<1> QED BY <1>4, <1>5

\* A query that holds every row has the limit without effect.
LEMMA LatestAreAll ==
    ASSUME NEW S \in SUBSET Nat, IsFiniteSet(S), NEW limit \in Nat, Cardinality(S) <= limit
    PROVE  Latest(S, limit) = S
<1>1. ASSUME NEW i \in S PROVE Cardinality(After(S, i)) < limit
  <2>1. Cardinality(S) \in Nat /\ Cardinality(After(S, i)) \in 0..(Cardinality(S) - 1)
    BY AfterIsLess, FS_CardinalityType
  <2> QED BY <2>1
<1> QED BY <1>1 DEF Latest, After

\* What is among the latest of many rows is among the latest of some of them.
LEMMA LatestOfFewer ==
    ASSUME NEW S \in SUBSET Nat, IsFiniteSet(S), NEW T \in SUBSET S, NEW limit \in Nat
    PROVE  Latest(S, limit) \cap T \subseteq Latest(T, limit)
<1> SUFFICES ASSUME NEW i \in T, Cardinality(After(S, i)) < limit
             PROVE  Cardinality(After(T, i)) < limit
  BY DEF Latest, After
<1>1. After(S, i) \in SUBSET S /\ After(T, i) \in SUBSET After(S, i)
  BY DEF After
<1>2. IsFiniteSet(After(S, i)) /\ Cardinality(After(S, i)) \in Nat
  BY <1>1, FS_Subset, FS_CardinalityType
<1>3. Cardinality(After(T, i)) <= Cardinality(After(S, i)) /\ Cardinality(After(T, i)) \in Nat
  BY <1>1, <1>2, FS_Subset, FS_CardinalityType
<1> QED BY <1>2, <1>3

\* The inductive invariant: the snapshot is of demo rows that the table holds.
ItemsOfRows ==
    \A k \in DOMAIN snapshot : \E i \in DOMAIN points :
        k \in Items(i) /\ Demo(points[i]) /\ snapshot[k] = Snapped(points[i])
OverlayInv ==
    /\ points \in Seq(OverlayPoint)
    /\ mapNow \in 0..MapClock
    /\ \A i \in DOMAIN points : Demo(points[i]) => points[i].telling \in Seeded
    /\ ItemsOfRows

LEMMA OverlaysInductive ==
    /\ OverlaysInit => OverlayInv
    /\ OverlayInv /\ [OverlaysNext]_mapVars => OverlayInv'
<1>1. ASSUME OverlaysInit PROVE OverlayInv
  BY <1>1, PointsAssumption DEF OverlaysInit, OverlayInv, ItemsOfRows
<1>2. ASSUME OverlayInv, [OverlaysNext]_mapVars PROVE OverlayInv'
  <2>1. CASE TakeSnapshot
    <3>1. /\ DOMAIN snapshot' = UNION {Items(i) : i \in {i \in DOMAIN points : Demo(points[i])}}
          /\ \A k \in DOMAIN snapshot' : snapshot'[k] = Snapped(points[k \div 2])
          /\ points' = points /\ mapNow' = mapNow
      BY <2>1 DEF TakeSnapshot
    <3>2. ASSUME NEW k \in DOMAIN snapshot'
          PROVE  \E i \in DOMAIN points :
                     k \in Items(i) /\ Demo(points[i]) /\ snapshot'[k] = Snapped(points[i])
      <4>1. PICK i \in DOMAIN points : Demo(points[i]) /\ k \in Items(i)
        BY <3>1
      <4>2. i \in Nat
        BY <1>2 DEF OverlayInv
      <4>3. k = 2 * i \/ k = 2 * i + 1
        BY <4>1 DEF Items
      <4>4. k \div 2 = i
        BY <4>2, <4>3
      <4> QED BY <3>1, <4>1, <4>4
    <3>3. ItemsOfRows'
      BY <3>1, <3>2 DEF ItemsOfRows, Items
    <3>4. \A i \in DOMAIN points' : Demo(points'[i]) => points'[i].telling \in Seeded
      BY <1>2, <3>1 DEF OverlayInv
    <3> QED BY <1>2, <3>1, <3>3, <3>4 DEF OverlayInv
  <2>2. CASE MapTick
    BY <1>2, <2>2, PointsAssumption DEF MapTick, OverlayInv, ItemsOfRows, Items, Demo
  <2>3. ASSUME NEW telling \in Sightings, NEW place \in Places, NEW source \in {"demo_seed", "feed"},
               Observe(telling, place, source)
        PROVE  OverlayInv'
    <3>1. PICK p : p = [telling |-> telling, place |-> place, source |-> source, at |-> mapNow]
      OBVIOUS
    <3>2. p \in OverlayPoint
      BY <1>2, <3>1 DEF OverlayPoint, OverlayInv
    <3>3. points \in Seq(OverlayPoint) /\ points' = Append(points, p)
      BY <1>2, <2>3, <3>1 DEF Observe, OverlayInv
    <3>4. /\ points' \in Seq(OverlayPoint) /\ snapshot' = snapshot /\ mapNow' = mapNow
          /\ \A i \in DOMAIN points : i \in DOMAIN points' /\ points'[i] = points[i]
      BY <2>3, <3>2, <3>3, AppendProperties DEF Observe
    <3>5. ASSUME NEW i \in DOMAIN points', Demo(points'[i]) PROVE points'[i].telling \in Seeded
      <4>1. CASE i \in DOMAIN points
        BY <1>2, <3>4, <3>5, <4>1 DEF OverlayInv
      <4>2. CASE i \notin DOMAIN points
        <5>1. points'[i] = p
          BY <3>3, <4>2, AppendProperties
        <5> QED BY <2>3, <3>1, <3>5, <5>1 DEF Observe, Demo
      <4> QED BY <4>1, <4>2
    <3>6. ASSUME NEW k \in DOMAIN snapshot
          PROVE  \E i \in DOMAIN points' :
                     k \in Items(i)' /\ Demo(points'[i]) /\ snapshot[k] = Snapped(points'[i])
      <4>1. PICK i \in DOMAIN points :
                k \in Items(i) /\ Demo(points[i]) /\ snapshot[k] = Snapped(points[i])
        BY <1>2 DEF OverlayInv, ItemsOfRows
      <4>2. i \in DOMAIN points' /\ points'[i] = points[i]
        BY <3>4
      <4> QED BY <4>1, <4>2 DEF Items
    <3>7. ItemsOfRows'
      BY <3>4, <3>6 DEF ItemsOfRows
    <3> QED BY <1>2, <3>4, <3>5, <3>7 DEF OverlayInv
  <2>4. CASE UNCHANGED mapVars
    BY <1>2, <2>4 DEF mapVars, OverlayInv, ItemsOfRows, Items, Demo
  <2> QED BY <1>2, <2>1, <2>2, <2>3, <2>4 DEF OverlaysNext
<1> QED BY <1>1, <1>2

\* What an item keeps of its row.
LEMMA ItemOfRow ==
    ASSUME OverlayInv, NEW k \in DOMAIN snapshot
    PROVE  \E i \in DOMAIN points :
               /\ i \in Nat /\ k \in Items(i) /\ Demo(points[i]) /\ k \in 0..(2 * Len(points) + 1)
               /\ snapshot[k].place = points[i].place /\ snapshot[k].place \in Places
               /\ snapshot[k].telling \in Sightings
               /\ points[i].telling \in LightingTypes =>
                      StatusLabel(snapshot[k].telling) = StatusLabel(points[i].telling)
<1>1. PICK i \in DOMAIN points : k \in Items(i) /\ Demo(points[i]) /\ snapshot[k] = Snapped(points[i])
  BY DEF OverlayInv, ItemsOfRows
<1>2. PICK p : p = points[i]
  OBVIOUS
<1>3. p \in OverlayPoint /\ p.telling \in Seeded /\ i \in Nat /\ i <= Len(points) /\ Len(points) \in Nat
  BY <1>1, <1>2 DEF OverlayInv
<1>4. PICK item : item = snapshot[k]
  OBVIOUS
<1>5. /\ item.place = p.place
      /\ item.telling = IF p.telling = "dark" THEN "unflagged" ELSE p.telling
  <2>1. PICK q : q = [p EXCEPT !.telling = "unflagged"]
    OBVIOUS
  <2>2. q.place = p.place /\ q.telling = "unflagged"
    BY <1>3, <2>1 DEF OverlayPoint
  <2>3. item = IF p.telling = "dark" THEN q ELSE p
    BY <1>1, <1>2, <1>4, <2>1 DEF Snapped
  <2> QED BY <2>2, <2>3
<1>6. p.place \in Places /\ item.telling \in Sightings
  BY <1>3, <1>5 DEF OverlayPoint, Seeded, Sightings
<1>7. p.telling \in LightingTypes => StatusLabel(item.telling) = StatusLabel(p.telling)
  BY <1>3, <1>5 DEF StatusLabel, Seeded, LightingTypes
<1>8. k \in 0..(2 * Len(points) + 1)
  BY <1>1, <1>3 DEF Items
<1> QED BY <1>1, <1>2, <1>3, <1>4, <1>5, <1>6, <1>7, <1>8

LEMMA FoundAreFew ==
    ASSUME OverlayInv, NEW types, NEW places
    PROVE  /\ Found(points, types, places) \in SUBSET Nat /\ IsFiniteSet(Found(points, types, places))
           /\ Found(snapshot, types, places) \in SUBSET Nat
           /\ IsFiniteSet(Found(snapshot, types, places))
<1>1. DOMAIN points = 1..Len(points) /\ Len(points) \in Nat
  BY DEF OverlayInv
<1>2. IsFiniteSet(DOMAIN points) /\ DOMAIN points \in SUBSET Nat
  BY <1>1, FS_Interval
<1>3. Found(points, types, places) \in SUBSET DOMAIN points
  BY DEF Found
<1>4. PICK n \in Nat : n = 2 * Len(points) + 1
  BY <1>1
<1>5. Found(snapshot, types, places) \in SUBSET (0..n) /\ 0..n \in SUBSET Nat
  BY <1>4, ItemOfRow DEF Found
<1>6. IsFiniteSet(0..n)
  BY FS_Interval
<1> QED BY <1>2, <1>3, <1>5, <1>6, FS_Subset

\* An offline list fails as soon as there is a row to show.
LEMMA ListsFail ==
    ASSUME OverlayInv, NEW types
    PROVE  Dated(Rows(snapshot, types, Places, PointLimit), <<>>) = Failed
             <=> \E i \in DOMAIN snapshot : snapshot[i].telling \in types
<1>1. PICK S : S = Found(snapshot, types, Places)
  OBVIOUS
<1>2. S \in SUBSET Nat /\ IsFiniteSet(S) /\ PointLimit \in Nat /\ PointLimit # 0
  BY <1>1, FoundAreFew, PointsAssumption
<1>3. PICK T : T = Latest(S, PointLimit)
  OBVIOUS
<1>4. T = {} <=> S = {}
  <2>1. T \in SUBSET S
    BY <1>3 DEF Latest
  <2>2. Cardinality(T) = IF Cardinality(S) < PointLimit THEN Cardinality(S) ELSE PointLimit
    BY <1>2, <1>3, LatestAreCounted
  <2>3. T = {} => Cardinality(S) = 0
    BY <1>2, <2>2, FS_EmptySet
  <2> QED BY <1>2, <2>1, <2>3, FS_EmptySet
<1>5. S = {} <=> ~\E i \in DOMAIN snapshot : snapshot[i].telling \in types
  <2>1. \A i \in DOMAIN snapshot : snapshot[i].place \in Places
    BY ItemOfRow
  <2> QED BY <1>1, <2>1 DEF Found
<1>6. Dated(T, <<>>) = Failed <=> T # {}
  BY DEF Dated, Failed
<1> QED BY <1>1, <1>3, <1>4, <1>5, <1>6 DEF Rows

\* Of a place no more items are shown than rows, if each row has one.
LEMMA ColderOffline ==
    ASSUME OverlayInv, Len(points) <= PointLimit, \A k \in DOMAIN snapshot : snapshot[k].place # "both",
           NEW place \in Places
    PROVE  HeatIn(snapshot, place) <= HeatIn(points, place)
<1>1. PICK rows, items :
          /\ rows = {i \in Rows(points, Sightings, Places, PointLimit) : points[i].place = place}
          /\ items = {k \in Rows(snapshot, Sightings, Places, PointLimit) : snapshot[k].place = place}
  OBVIOUS
<1>2. PICK all : all = Found(points, Sightings, Places)
  OBVIOUS
<1>3. all = DOMAIN points
  <2>1. ASSUME NEW i \in DOMAIN points
        PROVE  points[i].telling \in Sightings /\ points[i].place \in Places
    <3>1. points[i] \in OverlayPoint
      BY DEF OverlayInv
    <3> QED BY <3>1 DEF OverlayPoint
  <2> QED BY <1>2, <2>1 DEF Found
<1>4. DOMAIN points = 1..Len(points) /\ Len(points) \in Nat /\ PointLimit \in Nat
  BY PointsAssumption DEF OverlayInv
<1>5. all \in SUBSET Nat /\ IsFiniteSet(all) /\ Cardinality(all) <= PointLimit
  <2>1. PICK n \in Nat : n = Len(points)
    BY <1>4
  <2>2. IsFiniteSet(1..n) /\ Cardinality(1..n) = IF 1 > n THEN 0 ELSE n - 1 + 1
    BY FS_Interval
  <2>3. Cardinality(1..n) = n
    BY <2>2
  <2> QED BY <1>3, <1>4, <2>1, <2>2, <2>3
<1>6. Rows(points, Sightings, Places, PointLimit) = all
  BY <1>2, <1>4, <1>5, LatestAreAll DEF Rows
<1>7. rows = {i \in DOMAIN points : points[i].place = place} /\ rows \in SUBSET all
  BY <1>1, <1>3, <1>6
<1>8. IsFiniteSet(rows) /\ Cardinality(rows) \in Nat
  BY <1>5, <1>7, FS_Subset, FS_CardinalityType
<1>9. \A k \in items : \E i \in rows : k = 2 * i
  <2>1. ASSUME NEW k \in items PROVE \E i \in rows : k = 2 * i
    <3>1. k \in DOMAIN snapshot /\ snapshot[k].place = place /\ place # "both"
      BY <1>1 DEF Rows, Latest, Found
    <3>2. PICK i \in DOMAIN points : k \in Items(i) /\ snapshot[k].place = points[i].place
      BY <3>1, ItemOfRow
    <3> QED BY <1>7, <3>1, <3>2 DEF Items
  <2> QED BY <2>1
<1>10. Cardinality(items) <= Cardinality(rows) /\ Cardinality(items) \in Nat
  <2> DEFINE halved == {i \in rows : 2 * i \in items}
             double == [i \in halved |-> 2 * i]
  <2>1. halved \in SUBSET rows /\ IsFiniteSet(halved) /\ Cardinality(halved) <= Cardinality(rows)
        /\ Cardinality(halved) \in Nat
    BY <1>8, FS_Subset, FS_CardinalityType
  <2>2. double \in Surjection(halved, items)
    <3>1. \A k \in items : \E i \in halved : double[i] = k
      BY <1>9
    <3> QED BY <3>1 DEF Surjection
  <2> HIDE DEF halved, double
  <2>3. IsFiniteSet(items) /\ Cardinality(items) <= Cardinality(halved)
    BY <2>1, <2>2, FS_Surjection
  <2>4. Cardinality(items) \in Nat
    BY <2>3, FS_CardinalityType
  <2> QED BY <1>8, <2>1, <2>3, <2>4
<1>11. ASSUME NEW m \in Nat, NEW n \in Nat, m <= n PROVE Level(m) <= Level(n)
  <2>1. PICK a, b : a = (IF m < 6 THEN m ELSE 6) /\ b = IF n < 6 THEN n ELSE 6
    OBVIOUS
  <2>2. a \in 0..6 /\ b \in 0..6 /\ a <= b
    BY <1>11, <2>1
  <2>3. (850 * a) \div 6 <= (850 * b) \div 6
    BY <2>2
  <2>4. (850 * a) \div 6 \in Int /\ (850 * b) \div 6 \in Int
    BY <2>2
  <2>5. Level(m) = 150 + (850 * a) \div 6 /\ Level(n) = 150 + (850 * b) \div 6
    BY <2>1 DEF Level
  <2> QED BY <2>3, <2>4, <2>5
<1>12. HeatIn(snapshot, place) = Level(Cardinality(items)) /\ HeatIn(points, place) = Level(Cardinality(rows))
  BY <1>1 DEF HeatIn
<1> QED BY <1>8, <1>10, <1>11, <1>12

\* For any number of observations and any limit of a query (overlays/store.py).
THEOREM OverlaysAlwaysAgree == OverlaysSpec => []OverlaysAgree
<1>1. ASSUME OverlayInv PROVE OverlaysAgree
  <2>1. PICK inBox, incidents, shown, area :
            /\ inBox = Found(points, Sightings, Box) /\ incidents = Found(points, IncidentTypes, Box)
            /\ shown = Latest(incidents, PointLimit) /\ area = Latest(inBox, PointLimit)
    OBVIOUS
  <2>2. /\ inBox \in SUBSET Nat /\ IsFiniteSet(inBox) /\ PointLimit \in Nat
        /\ incidents \in SUBSET inBox /\ incidents \in SUBSET Nat /\ IsFiniteSet(incidents)
        /\ Cardinality(inBox) \in Nat /\ Cardinality(incidents) \in Nat
        /\ Cardinality(incidents) <= Cardinality(inBox)
    <3>1. inBox \in SUBSET Nat /\ IsFiniteSet(inBox)
      BY <1>1, <2>1, FoundAreFew
    <3>2. incidents \in SUBSET inBox
      BY <2>1 DEF Found, IncidentTypes, Sightings
    <3> QED BY <3>1, <3>2, FS_Subset, FS_CardinalityType, PointsAssumption
  <2> DEFINE fresh == {i \in shown : Fresh(points[i])}
             recent == {i \in area : points[i].telling \in IncidentTypes /\ Fresh(points[i])}
  <2>3. ASSUME NEW limit \in 1..MaxPoints
        PROVE  Cardinality(Alerts(points, limit))
                 = (IF Cardinality(Found(points, IncidentTypes, Places)) < limit
                    THEN Cardinality(Found(points, IncidentTypes, Places)) ELSE limit)
    <3>1. limit \in Nat
      BY PointsAssumption
    <3>2. Alerts(points, limit) = Latest(Found(points, IncidentTypes, Places), limit)
      BY DEF Alerts, IncidentMarkers, Rows
    <3> QED BY <1>1, <3>1, <3>2, FoundAreFew, LatestAreCounted
  <2>4. \A i \in inBox : i \in incidents <=> points[i].telling \in IncidentTypes
    BY <2>1 DEF Found
  <2>5. area \in SUBSET inBox /\ shown \in SUBSET incidents /\ area \cap incidents \subseteq shown
    BY <2>1, <2>2, LatestOfFewer DEF Latest
  <2>6. Shown(Cardinality(recent)) <= Shown(Cardinality(fresh))
    <3>1. recent \in SUBSET fresh /\ fresh \in SUBSET incidents
      BY <2>4, <2>5
    <3> HIDE DEF recent, fresh
    <3>2. /\ Cardinality(recent) <= Cardinality(fresh)
          /\ Cardinality(recent) \in Nat /\ Cardinality(fresh) \in Nat
      BY <2>2, <3>1, FS_Subset, FS_CardinalityType
    <3> QED BY <3>2 DEF Shown
  <2>7. ASSUME Cardinality(inBox) <= PointLimit PROVE area = inBox /\ recent = fresh
    <3>1. area = inBox
      BY <2>1, <2>2, <2>7, LatestAreAll
    <3>2. Cardinality(incidents) <= PointLimit
      BY <2>2, <2>7
    <3>3. shown = incidents
      BY <2>1, <2>2, <3>2, LatestAreAll
    <3> QED BY <2>2, <2>4, <3>1, <3>3
  <2>8. AreaSafety # NoArea => AreaSafety.recent_incidents = Shown(Cardinality(recent))
    BY <2>1 DEF AreaSafety, Insight, FreshIncidents, Rows
  <2>9. fresh = {i \in IncidentMarkers(points, Box, PointLimit) : Fresh(points[i])}
    BY <2>1 DEF IncidentMarkers, Rows
  <2>10. ASSUME Cardinality(inBox) <= PointLimit,
                \A i \in DOMAIN points : points[i].place \in Box \cap Circle
         PROVE  AreaSafetyInMemory(points) = AreaSafety
    <3>1. Found(points, Sightings, Circle) = inBox
      BY <2>1, <2>10 DEF Found
    <3>2. Rows(points, Sightings, Box, PointLimit) = inBox
      BY <2>1, <2>7, <2>10 DEF Rows
    <3> QED BY <3>1, <3>2 DEF AreaSafetyInMemory, AreaSafety
  <2>11. \A k \in DOMAIN snapshot : \E i \in DOMAIN points :
             /\ k \in Items(i) /\ Demo(points[i])
             /\ snapshot[k].place = points[i].place
             /\ points[i].telling \in LightingTypes =>
                    StatusLabel(snapshot[k].telling) = StatusLabel(points[i].telling)
    BY <1>1, ItemOfRow
  <2>12. {z[1] : z \in HeatZones(snapshot)} \subseteq {points[i].place : i \in DOMAIN points}
    <3> SUFFICES ASSUME NEW z \in HeatZones(snapshot)
                 PROVE  z[1] \in {points[i].place : i \in DOMAIN points}
      OBVIOUS
    <3>1. PICK k \in Rows(snapshot, Sightings, Places, PointLimit) :
              z = <<snapshot[k].place, HeatIn(snapshot, snapshot[k].place)>>
      BY DEF HeatZones
    <3>2. z[1] = snapshot[k].place
      BY <3>1
    <3>3. k \in DOMAIN snapshot
      BY <3>1 DEF Rows, Latest, Found
    <3> QED BY <2>11, <3>2, <3>3
  <2>13. /\ OfflineIncidents(PointLimit) = Failed <=>
               \E k \in DOMAIN snapshot : snapshot[k].telling \in IncidentTypes
         /\ OfflineLighting(PointLimit) = Failed <=>
               \E k \in DOMAIN snapshot : snapshot[k].telling \in LightingTypes
    BY <1>1, ListsFail DEF OfflineIncidents, OfflineLighting
  <2>14. OfflineArea = NoArea <=> \A k \in DOMAIN snapshot : snapshot[k].place \notin Circle
    <3>1. Found(snapshot, Sightings, Circle) = {k \in DOMAIN snapshot : snapshot[k].place \in Circle}
      BY <1>1, ItemOfRow DEF Found
    <3>2. OfflineArea = NoArea <=> Found(snapshot, Sightings, Circle) = {}
      BY DEF OfflineArea, Dated, Failed, NoArea
    <3> QED BY <3>1, <3>2
  <2> HIDE DEF fresh, recent
  <2>15. AreaSafety # NoArea =>
             /\ AreaSafety.recent_incidents <= Shown(Cardinality(fresh))
             /\ Cardinality(inBox) <= PointLimit
                  => AreaSafety.recent_incidents = Shown(Cardinality(fresh))
    BY <2>6, <2>7, <2>8
  <2>16. (Len(points) <= PointLimit /\ \A k \in DOMAIN snapshot : snapshot[k].place # "both")
             => \A place \in Places : HeatIn(snapshot, place) <= HeatIn(points, place)
    BY <1>1, ColderOffline
  <2> QED BY <2>1, <2>3, <2>9, <2>10, <2>11, <2>12, <2>13, <2>14, <2>15, <2>16 DEF OverlaysAgree
<1> QED BY <1>1, OverlaysInductive, PTL DEF OverlaysSpec
=============================================================================
