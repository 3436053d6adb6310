---------------------------- MODULE DatasetBuild ----------------------------
(***************************************************************************)
(* The dataset build (build_dataset.py) and its incremental update         *)
(* (update.py): what they leave in the cache and versions directories, one *)
(* run at a time, each run liable to end between any two of its writes.    *)
(* What the stages do to the records of a source is DatasetRecords; here a *)
(* source's content counts as a whole.                                     *)
(***************************************************************************)
EXTENDS Integers, FiniteSets

CONSTANTS
    Sources,     \* the enabled sources of sources.yaml
    Government,  \* the ones parsed by GovernmentCrimeSource
    Excluded,    \* the ones of an excluded source type
    MaxVersions, \* bound on the dataset versions
    MaxChanges   \* bound on the changes of what the sources serve

ASSUME SourcesAssumption == Government \subseteq Sources /\ Excluded \subseteq Sources
ASSUME VersionsAssumption == {MaxVersions, MaxChanges} \subseteq Nat

VARIABLES
    remote,    \* what each source's URL serves
    changes,   \* how often that has changed
    primed,    \* the sources with a <hash>.meta in the cache
    metadata,  \* metadata.json of a government source: the content it has the checksum of
    manifests, \* by version: the content of each source that went into it
    lineages,  \* the versions with a lineage file
    exports,   \* the versions whose export is complete
    state,     \* update_state.json: by source, the checksum last built from
    step,      \* where the run is
    fetched,   \* what the run's adapters returned, by source
    updating,  \* the run is an update
    answer     \* what the last run reported, until the next one starts

datasetVars == <<remote, changes, primed, metadata, manifests, lineages, exports,
                 state, step, fetched, updating, answer>>
files == <<manifests, lineages, exports, state>>

-----------------------------------------------------------------------------
None == "none"
Contents == {"one", "two", "undated", "empty"}
HasRows(c) == c \notin {None, "empty"}
HasValid(c) == c \in {"one", "two"}   \* "undated": every row fails validation

Versions == 1..MaxVersions
Nothing == [s \in Sources |-> None]
Saved == {v \in Versions : manifests[v] # Nothing}
Idle == [status |-> None, fetched |-> Nothing]

\* What download_with_cache returns is what the source serves: from the cache when that
\* answers 304 to the checksum there, else from the GET.  A first download fails although
\* its content was written: json is imported only where an earlier .meta file is read,
\* and is needed to write one.
Fetchable(s, down) == s \notin down /\ s \in primed

\* One fetch of every source in ss, the ones in down unreachable.  Each is fetched once,
\* so that a change of a source between two fetches is one before or after them all.
Fetch(ss, down) ==
    LET got == {s \in ss : Fetchable(s, down)}
    IN  /\ metadata' = [s \in Sources |-> IF s \in got \cap Government THEN remote[s]
                                          ELSE metadata[s]]
        /\ fetched' = [s \in Sources |-> IF s \in got THEN remote[s] ELSE None]
        /\ UNCHANGED <<remote, changes, primed>>

Changed == {s \in Sources : HasRows(fetched[s]) /\ fetched[s] # state[s]}

Ends(status) ==
    /\ step' = "idle"
    /\ updating' = FALSE
    /\ answer' = [status |-> status, fetched |-> fetched]
    /\ fetched' = Nothing

-----------------------------------------------------------------------------
RemoteChanges(s, c) ==
    /\ c # remote[s]
    /\ changes < MaxChanges
    /\ changes' = changes + 1
    /\ remote' = [remote EXCEPT ![s] = c]
    /\ UNCHANGED <<primed, metadata, files, step, fetched, updating, answer>>

StartBuild ==
    /\ step = "idle"
    /\ step' = "ingest"
    /\ answer' = Idle
    /\ UNCHANGED <<remote, changes, primed, metadata, files, fetched, updating>>

\* DatasetUpdater.run probes every enabled source, those of an excluded type too.
Probe(down) ==
    /\ step = "idle"
    /\ Fetch(Sources, down)
    /\ step' = "compare"
    /\ updating' = TRUE
    /\ answer' = Idle
    /\ UNCHANGED files

UpToDate ==
    /\ step = "compare"
    /\ Changed = {}
    /\ Ends("up_to_date")
    /\ UNCHANGED <<remote, changes, primed, metadata, files>>

Rebuild ==
    /\ step = "compare"
    /\ Changed # {}
    /\ step' = "ingest"
    /\ UNCHANGED <<remote, changes, primed, metadata, files, fetched, updating, answer>>

Ingest(down) ==
    /\ step = "ingest"
    /\ Fetch(Sources \ Excluded, down)
    /\ step' = "process"
    /\ UNCHANGED <<files, updating, answer>>

\* A source that failed is left out without a word; with none left there is nothing to do.
NoRecords ==
    /\ step = "process"
    /\ \A s \in Sources : ~HasRows(fetched[s])
    /\ Ends("no_records")
    /\ UNCHANGED <<remote, changes, primed, metadata, files>>

\* With rows but no valid record, the HTML report divides by zero.
ReportFails ==
    /\ step = "process"
    /\ \E s \in Sources : HasRows(fetched[s])
    /\ \A s \in Sources : ~HasValid(fetched[s])
    /\ Ends("failed")
    /\ UNCHANGED <<remote, changes, primed, metadata, files>>

NewVersion == CHOOSE v \in Versions \ Saved : \A w \in Versions \ Saved : v <= w
Taken == [s \in Sources |-> IF HasRows(fetched[s]) THEN fetched[s] ELSE None]

SaveManifest ==
    /\ step = "process"
    /\ \E s \in Sources : HasValid(fetched[s])
    /\ Saved # Versions
    /\ manifests' = [manifests EXCEPT ![NewVersion] = Taken]
    /\ step' = "lineage"
    /\ UNCHANGED <<remote, changes, primed, metadata, lineages, exports, state,
                   fetched, updating, answer>>

Building == CHOOSE v \in Saved : \A w \in Saved : w <= v   \* the version this run saved

SaveLineage ==
    /\ step = "lineage"
    /\ lineages' = lineages \cup {Building}
    /\ step' = "export"
    /\ UNCHANGED <<remote, changes, primed, metadata, manifests, exports, state,
                   fetched, updating, answer>>

Export ==
    /\ step = "export"
    /\ exports' = exports \cup {Building}
    /\ step' = "done"
    /\ UNCHANGED <<remote, changes, primed, metadata, manifests, lineages, state,
                   fetched, updating, answer>>

\* Only a government source leaves a metadata.json; the others' checksum is null.
CurrentChecksum(s) == metadata[s]

\* Records every checksum that metadata.json files hold, built from or not.
FaultyNewState == [s \in Sources |-> IF metadata[s] = None THEN state[s] ELSE metadata[s]]

NewState == [s \in Sources |-> IF HasRows(fetched[s]) THEN CurrentChecksum(s) ELSE state[s]]

Finish ==
    /\ step = "done"
    /\ state' = IF updating THEN NewState ELSE state
    /\ Ends("success")
    /\ UNCHANGED <<remote, changes, primed, metadata, manifests, lineages, exports>>

\* The process is killed, or a write fails.
Crash ==
    /\ step # "idle"
    /\ step' = "idle"
    /\ updating' = FALSE
    /\ answer' = Idle
    /\ fetched' = Nothing
    /\ UNCHANGED <<remote, changes, primed, metadata, files>>

\* The cache directory is empty or was filled by a revision that could write .meta.
DatasetInit ==
    /\ remote = [s \in Sources |-> "one"]
    /\ changes = 0
    /\ primed \in SUBSET Sources
    /\ metadata = [s \in Sources |-> IF s \in Government \cap primed THEN "one" ELSE None]
    /\ manifests = [v \in Versions |-> Nothing]
    /\ lineages = {}
    /\ exports = {}
    /\ state = Nothing
    /\ step = "idle"
    /\ fetched = Nothing
    /\ updating = FALSE
    /\ answer = Idle

DatasetNext ==
    \/ \E s \in Sources, c \in Contents : RemoteChanges(s, c)
    \/ StartBuild
    \/ \E down \in SUBSET Sources : Probe(down) \/ Ingest(down)
    \/ UpToDate
    \/ Rebuild
    \/ NoRecords
    \/ ReportFails
    \/ SaveManifest
    \/ SaveLineage
    \/ Export
    \/ Finish
    \/ Crash

DatasetSpec == DatasetInit /\ [][DatasetNext]_datasetVars

-----------------------------------------------------------------------------
\* "Up to date" is answered only where it is true of every source that could be read:
\* the rows the source then served went into a version that was exported to its end,
\* whatever crashed, failed or changed since (update.py).  A source that could not be
\* read is not looked for, which the answer does not tell; and the latest version may
\* lack a source that failed while it was built.  A complete export has its manifest
\* and its lineage, and no version holds a source of an excluded type.
UpToDateWasBuilt ==
    /\ answer.status = "up_to_date" =>
         \A s \in Sources :
             HasRows(answer.fetched[s]) =>
                 \E v \in exports : manifests[v][s] = answer.fetched[s]
    /\ exports \subseteq lineages /\ lineages \subseteq Saved
    /\ \A v \in Saved, s \in Excluded : manifests[v][s] = None
=============================================================================
