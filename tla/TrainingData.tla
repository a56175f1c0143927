------------------------------ MODULE TrainingData ------------------------------
(***************************************************************************)
(* The files under the processed path: written by run_pipeline,            *)
(* canonicalize_paysim, build_features and split_features, approved by     *)
(* prepare_retraining_manifest, and trained on by a controlled retraining. *)
(* Nothing locks them.                                                     *)
(*                                                                         *)
(* A part is a Parquet directory, or lineage.json.  Spark empties a        *)
(* directory before it writes new files there, whose names no other job    *)
(* uses: the content of a part is the job that wrote it, or Absent.  A     *)
(* data frame is the list of the files found when it was made, and is read *)
(* again by every count: it fails once one of them is gone.                *)
(***************************************************************************)
EXTENDS Integers, Sequences, FiniteSets

CONSTANTS
  Writers,      \* processes that run one of the pipelines
  Absent,       \* a directory without files, a file that is empty
  MaxJobs,      \* bound: pipelines run
  MaxLoads,     \* bound: approvals and trainings begun
  MaxKills,     \* bound: pipelines that are killed, or fail
  MaxAtOnce     \* bound: pipelines, approvals and trainings at the same time

ASSUME BoundsAssumption ==
  MaxJobs \in Nat /\ MaxLoads \in Nat /\ MaxKills \in Nat /\ MaxAtOnce \in Nat

ASSUME AbsentAssumption == Absent \notin Int

VARIABLES
  store,        \* what every part holds
  job,          \* the pipeline every writer runs
  disturbed,    \* history: the last pipelines overlapped, or were killed
  load,         \* the approval or training under way
  approved,     \* the manifests approved, each in a file of its own
  jobs, loads, kills

dataVars == <<store, job, disturbed, load, approved, jobs, loads, kills>>

SplitNames == {"train", "validation", "test"}
Parts  == {"canonical", "audit", "lineage"} \cup SplitNames

SplitFiles == <<"train", "validation", "test", "lineage">>

\* What each pipeline writes, in this order, and what it reads.
Writes == [run |-> <<"canonical", "audit">> \o SplitFiles,
           canonicalize |-> <<"canonical">>, build |-> <<"audit">>, split |-> SplitFiles]

Kinds == DOMAIN Writes

Input(kind) == CASE kind = "build" -> store["canonical"] [] kind = "split" -> store["audit"] [] OTHER -> 0

InputLost(j) ==
  \/ j.kind = "build" /\ store["canonical"] # j.input
  \/ j.kind = "split" /\ store["audit"] # j.input /\ Head(j.todo) # "lineage"

NoJob  == [kind |-> "none", id |-> 0, input |-> 0, todo |-> <<>>, open |-> FALSE, alone |-> TRUE]

\* The job that wrote a part.
Content == Nat \cup {Absent}

\* What a manifest says: the time ranges and the hashes.  The counts of two jobs may agree.
Manifest == [ranges: Content, files: [Parts -> Content]]
Blank    == [ranges |-> Absent, files |-> [p \in Parts |-> Absent]]
Nothing  == [s \in SplitNames |-> Absent]

\* at: the step of Training that a load is at.
NoLoad == [at |-> 0, trains |-> FALSE, target |-> Blank,
           listed |-> Nothing, found |-> Blank, frame |-> Nothing]

Job  == [kind: Kinds, id: 1..jobs, input: Content, todo: Seq(Parts), open: BOOLEAN, alone: BOOLEAN]
Load == [at: 0..11, trains: BOOLEAN, target: Manifest, listed: [SplitNames -> Content],
         found: Manifest, frame: [SplitNames -> Content]]

DataTypeOK ==
  /\ store \in [Parts -> 0..jobs \cup {Absent}]
  /\ job \in [Writers -> Job \cup {NoJob}]
  /\ load \in Load
  /\ approved \subseteq Manifest
  /\ disturbed \in BOOLEAN /\ jobs \in Nat /\ loads \in Nat /\ kills \in Nat

\* Nothing yet, or all that one earlier run left.
DataInit ==
  /\ \E content \in {Absent, 0} : store = [p \in Parts |-> content]
  /\ job = [w \in Writers |-> NoJob]
  /\ disturbed = FALSE
  /\ load = NoLoad
  /\ approved = {}
  /\ jobs = 0 /\ loads = 0 /\ kills = 0

-------------------------------------------------------------------------------
Busy == {w \in Writers : job[w] # NoJob}

Room == Cardinality(Busy) + (IF load = NoLoad THEN 0 ELSE 1) < MaxAtOnce

\* The input is listed and validated.
StartJob(w, kind) ==
  /\ w \notin Busy /\ jobs < MaxJobs /\ Room
  /\ Input(kind) # Absent
  /\ jobs' = jobs + 1
  /\ job' = [u \in Writers |->
       IF u = w THEN [kind |-> kind, id |-> jobs + 1, input |-> Input(kind), todo |-> Writes[kind],
                      open |-> FALSE, alone |-> Busy = {}]
       ELSE IF u \in Busy THEN [job[u] EXCEPT !.alone = FALSE] ELSE job[u]]
  /\ disturbed' = (disturbed \/ Busy # {})
  /\ UNCHANGED <<store, load, approved, loads, kills>>

\* mode("overwrite") deletes what is there; write_text truncates.
Clear(w) ==
  /\ w \in Busy /\ ~ job[w].open
  /\ store' = [store EXCEPT ![Head(job[w].todo)] = Absent]
  /\ job' = [job EXCEPT ![w].open = TRUE]
  /\ UNCHANGED <<disturbed, load, approved, jobs, loads, kills>>

\* Mutant of Rest: lineage.json is left to the next run.
RestButLineage(todo) == IF Len(todo) = 2 /\ todo[2] = "lineage" THEN <<>> ELSE Tail(todo)

Rest(todo) == Tail(todo)

\* The files of a part are committed; after the last one the job is done.
Commit(w) ==
  LET j == job[w] IN
  /\ j.open /\ ~ InputLost(j)
  /\ store' = [store EXCEPT ![Head(j.todo)] = j.id]
  /\ job' = [job EXCEPT ![w] = IF Rest(j.todo) = <<>> THEN NoJob
                               ELSE [j EXCEPT !.todo = Rest(j.todo), !.open = FALSE]]
  /\ disturbed' = (disturbed /\ ~ (Rest(j.todo) = <<>> /\ j.alone /\ j.kind \in {"run", "split"}))
  /\ UNCHANGED <<load, approved, jobs, loads, kills>>

\* The input was overwritten meanwhile.
LoseInput(w) ==
  /\ job[w].open /\ InputLost(job[w])
  /\ job' = [job EXCEPT ![w] = NoJob]
  /\ disturbed' = TRUE
  /\ UNCHANGED <<store, load, approved, jobs, loads, kills>>

\* A pipeline is killed, or fails for another reason.
KillJob(w) ==
  /\ w \in Busy /\ kills < MaxKills
  /\ kills' = kills + 1
  /\ job' = [job EXCEPT ![w] = NoJob]
  /\ disturbed' = TRUE
  /\ UNCHANGED <<store, load, approved, jobs, loads>>

-------------------------------------------------------------------------------
\* load_training_dataset lists the three splits, each a step, reads them for its checks and summaries,
\* and takes the time ranges from lineage.json; _file_manifest lists all files and then reads them.
Loading == <<"train", "validation", "test", "summarize", "ranges", "files", "hash">>

\* The frames are then materialized one after the other.
Reading == [train |-> "read train", validation |-> "read validation", test |-> "read test"]

Training == Loading \o <<Reading.train, Reading.validation, Reading.test, "fit">>

\* A training is given the approved manifest it must find.
StartLoad(trains, target) ==
  /\ load = NoLoad /\ loads < MaxLoads /\ (trains \/ loads + 1 < MaxLoads) /\ Room
  /\ loads' = loads + 1
  /\ load' = [NoLoad EXCEPT !.at = 1, !.trains = trains, !.target = target]
  /\ UNCHANGED <<store, job, disturbed, approved, jobs, kills>>

At(step) == load.at # 0 /\ Training[load.at] = step

After(l) == load' = [l EXCEPT !.at = @ + 1]

Quietly == UNCHANGED <<store, job, disturbed, approved, jobs, loads, kills>>

ListSplit(s) ==
  /\ At(s) /\ store[s] # Absent
  /\ After([load EXCEPT !.listed[s] = store[s]])
  /\ Quietly

Listed(s) == store[s] = load.listed[s]

\* Splits of several jobs may share ids, and be refused: EndLoad.
Summarize ==
  /\ At("summarize") /\ \A s \in SplitNames : Listed(s)
  /\ After(load)
  /\ Quietly

ReadRanges == At("ranges") /\ After([load EXCEPT !.found.ranges = store["lineage"]]) /\ Quietly

\* What lies below the features path, the canonical data do not.
Below == [store EXCEPT !["canonical"] = Absent]

\* The audit files are the first to be hashed.
ListFiles ==
  /\ At("files")
  /\ After([load EXCEPT !.found.files = Below])
  /\ Quietly

\* stat fails for a file that is gone; lineage.json keeps its name.
Hashed == [load.found EXCEPT !.files["lineage"] = store["lineage"]]

Hashable == \A s \in SplitNames : load.found.files[s] \in {Absent, store[s]}

\* write_approved_manifest; nothing is read again.
Approve ==
  /\ At("hash") /\ ~ load.trains /\ Hashable
  /\ approved' = approved \cup {Hashed}
  /\ load' = NoLoad
  /\ UNCHANGED <<store, job, disturbed, jobs, loads, kills>>

\* validate_manifest_matches.
Matches(found, target) == found = target

MatchManifest ==
  /\ At("hash") /\ load.trains /\ Hashable
  /\ Matches(Hashed, load.target)
  /\ After([load EXCEPT !.found = Hashed])
  /\ Quietly

\* Mutant of Readable: Spark lists the directory once more.
ReadableAnew(s) == store[s] # Absent

Readable(s) == Listed(s)

\* spark_frame_to_pandas.
ReadSplit(s) ==
  /\ At(Reading[s]) /\ Readable(s)
  /\ After([load EXCEPT !.frame[s] = store[s]])
  /\ Quietly

\* A training ends, a step fails, a check refuses, or the process is killed.
EndLoad == load # NoLoad /\ load' = NoLoad /\ Quietly

DataNext ==
  \/ \E w \in Writers, kind \in Kinds : StartJob(w, kind)
  \/ \E w \in Writers : Clear(w) \/ Commit(w) \/ LoseInput(w) \/ KillJob(w)
  \/ StartLoad(FALSE, Blank)
  \/ \E target \in approved : StartLoad(TRUE, target)
  \/ \E s \in SplitNames : ListSplit(s) \/ ReadSplit(s)
  \/ Summarize
  \/ ReadRanges
  \/ ListFiles
  \/ Approve
  \/ MatchManifest
  \/ EndLoad

DataSpec == DataInit /\ [][DataNext]_dataVars

-------------------------------------------------------------------------------
(* What a controlled retraining has in memory when it starts to train is what *)
(* the hashes of its approved manifest were taken of, and the time ranges of  *)
(* the manifest are those of the very lineage.json that was hashed - although *)
(* any file may be overwritten at any moment of the approval and the training.*)
TrainsOnApproved ==
  At("fit") =>
    /\ \A s \in SplitNames : load.frame[s] = load.target.files[s]
    /\ load.target.ranges = load.target.files["lineage"]

(* While no pipeline runs the splits and lineage.json are those of one job,   *)
(* unless pipelines overlapped or died since the last one that ran alone.     *)
WholeUnlessDisturbed ==
  Busy = {} /\ ~ disturbed => \A p \in SplitNames : store[p] = store["lineage"]

================================================================================
