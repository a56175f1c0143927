------------------------- MODULE TrainingData_proofs -------------------------
(***************************************************************************)
(* Theorems about TrainingData, for every number of pipelines, approvals   *)
(* and trainings, of processes at the same time and of kills.              *)
(***************************************************************************)
EXTENDS MCTrainingData, FiniteSetTheorems, SequenceTheorems, WellFoundedInduction, TLAPS

-------------------------------------------------------------------------------
(***************************************************************************)
(* What the files hold.  A job writes each of its parts once, so that what *)
(* a part held and no longer holds never comes back: this takes the place  *)
(* of a lock.                                                              *)
(***************************************************************************)
\* The parts a pipeline has still to write, the one it is writing included.
Left(w) == {job[w].todo[i] : i \in 1..Len(job[w].todo)}

\* No pipeline is going to write c into the part p, now or later.
Final(p, c) == c \in 0..jobs /\ \A w \in Busy : job[w].id = c => p \notin Left(w)

StoreInv ==
  /\ jobs \in Nat
  /\ job \in [Writers -> Job \cup {NoJob}]
  /\ \A w \in Busy : /\ job[w].todo # <<>>
                     /\ \A i, k \in 1..Len(job[w].todo) : job[w].todo[i] = job[w].todo[k] => i = k
  /\ \A w, u \in Busy : job[w].id = job[u].id => w = u
  /\ store \in [Parts -> 0..jobs \cup {Absent}]
  /\ \A p \in Parts : store[p] # Absent => Final(p, store[p])

\* Every pipeline writes each part at most once.
LEMMA WritesOnce ==
  ASSUME NEW kind \in Kinds
  PROVE  /\ Writes[kind] \in Seq(Parts) /\ Writes[kind] # <<>>
         /\ \A i, k \in 1..Len(Writes[kind]) : Writes[kind][i] = Writes[kind][k] => i = k
<1>1. Kinds = {"run", "canonicalize", "build", "split"}
  BY DEF Kinds, Writes
<1>2. CASE kind = "run"
  <2> DEFINE all == <<"canonical", "audit">> \o <<"train", "validation", "test", "lineage">>
  <2>1. Writes[kind] = all
    BY <1>2 DEF Writes, SplitFiles
  <2>2. all \in Seq(Parts) /\ Len(all) = 6
    BY DEF Parts, SplitNames
  <2>3. /\ all[1] = "canonical" /\ all[2] = "audit" /\ all[3] = "train"
        /\ all[4] = "validation" /\ all[5] = "test" /\ all[6] = "lineage"
    <3>1. all[1] = "canonical" /\ all[2] = "audit"
      OBVIOUS
    <3>2. all[3] = "train" /\ all[4] = "validation"
      OBVIOUS
    <3>3. all[5] = "test" /\ all[6] = "lineage"
      OBVIOUS
    <3> HIDE DEF all
    <3> QED
      BY <3>1, <3>2, <3>3
  <2> HIDE DEF all
  <2>4. all # <<>>
    BY <2>2
  <2>5. \A i, k \in 1..Len(all) : all[i] = all[k] => i = k
    BY <2>2, <2>3
  <2> QED
    BY <2>1, <2>2, <2>4, <2>5
<1>3. CASE kind = "canonicalize"
  <2>1. Writes[kind] = <<"canonical">>
    BY <1>3 DEF Writes
  <2> QED
    BY <2>1 DEF Parts, SplitNames
<1>4. CASE kind = "build"
  <2>1. Writes[kind] = <<"audit">>
    BY <1>4 DEF Writes
  <2> QED
    BY <2>1 DEF Parts, SplitNames
<1>5. CASE kind = "split"
  <2>1. Writes[kind] = <<"train", "validation", "test", "lineage">>
    BY <1>5 DEF Writes, SplitFiles
  <2> QED
    BY <2>1 DEF Parts, SplitNames
<1> QED
  BY <1>1, <1>2, <1>3, <1>4, <1>5

LEMMA StoreInvInit == DataInit => StoreInv
<1> SUFFICES ASSUME DataInit PROVE StoreInv
  OBVIOUS
<1>1. Busy = {}
  BY DEF DataInit, Busy
<1> QED
  BY <1>1, AbsentAssumption DEF DataInit, StoreInv, Final

\* What a pipeline does to the other ones' work: nothing.
LEMMA OthersStay ==
  ASSUME StoreInv, NEW w \in Busy,
         DOMAIN job' = Writers, \A u \in Writers \ {w} : job'[u] = job[u]
  PROVE  \A u \in Busy' \ {w} : u \in Busy /\ job'[u] = job[u] /\ Left(u)' = Left(u)
BY DEF StoreInv, Busy, Left

LEMMA StoreInvNext ==
  ASSUME StoreInv, [DataNext]_dataVars
  PROVE  /\ StoreInv'
         /\ \A p \in Parts, c \in Nat : Final(p, c) => Final(p, c)' /\ (store'[p] = c => store[p] = c)
<1> DEFINE FinalNext(p, c) == c \in 0..jobs' /\ \A u \in Busy' : job'[u].id = c => p \notin Left(u)'
           Stable == \A p \in Parts, c \in Nat : Final(p, c) => Final(p, c)' /\ (store'[p] = c => store[p] = c)
<1> SUFFICES StoreInv' /\ Stable
  OBVIOUS
<1>1. CASE UNCHANGED <<store, job, jobs>>
  <2>1. Busy' = Busy /\ \A w \in Writers : Left(w)' = Left(w)
    BY <1>1 DEF Busy, Left
  <2>2. \A p, c : Final(p, c)' = Final(p, c)
    BY <1>1, <2>1 DEF Final, Busy
  <2>3. Job' = Job
    BY <1>1 DEF Job
  <2> QED
    BY <1>1, <2>1, <2>2, <2>3 DEF StoreInv
<1>2. ASSUME NEW w \in Writers, NEW kind \in Kinds, StartJob(w, kind) PROVE StoreInv' /\ Stable
  <2> DEFINE new == [kind |-> kind, id |-> jobs + 1, input |-> Input(kind), todo |-> Writes[kind],
                     open |-> FALSE, alone |-> Busy = {}]
  <2>1. /\ jobs' = jobs + 1 /\ UNCHANGED store /\ w \notin Busy
        /\ jobs \in Nat
    BY <1>2 DEF StartJob, StoreInv
  <2>2. job' = [u \in Writers |-> IF u = w THEN new
                                  ELSE IF u \in Busy THEN [job[u] EXCEPT !.alone = FALSE] ELSE job[u]]
    BY <1>2 DEF StartJob
  <2>3. Input(kind) \in Content
    <3>1. {store["canonical"], store["audit"]} \subseteq Content
      BY <2>1 DEF StoreInv, Content, Parts
    <3> QED
      BY <3>1 DEF Input, Content
  <2>4. job' \in [Writers -> Job' \cup {NoJob}]
    <3>1. new \in Job'
      BY <2>1, <2>3, WritesOnce DEF Job
    <3>2. ASSUME NEW u \in Busy PROVE [job[u] EXCEPT !.alone = FALSE] \in Job'
      <4>1. job[u] \in Job
        BY DEF StoreInv, Busy
      <4>2. 1..jobs \subseteq 1..jobs'
        BY <2>1
      <4> QED
        BY <2>1, <4>1, <4>2 DEF Job
    <3>3. \A u \in Writers \ Busy : job[u] = NoJob
      BY DEF Busy
    <3> HIDE DEF new
    <3> QED
      BY <2>2, <3>1, <3>2, <3>3
  <2>5. Busy' = Busy \cup {w}
    BY <2>1, <2>2 DEF Busy, StoreInv, NoJob, Job
  <2>6. \A u \in Busy : job'[u].id = job[u].id /\ job'[u].todo = job[u].todo /\ job[u].id \in 1..jobs
    BY <2>1, <2>2 DEF StoreInv, Job, Busy
  <2>7. job'[w].id = jobs + 1 /\ job'[w].todo = Writes[kind]
    BY <2>2
  <2>8. \A u \in Busy : Left(u)' = Left(u)
    BY <2>6 DEF Left
  <2>9. \A p \in Parts, c \in Nat : Final(p, c) => FinalNext(p, c)
    BY <2>1, <2>5, <2>6, <2>7, <2>8 DEF Final
  <2>10. store' \in [Parts -> 0..jobs' \cup {Absent}]
    BY <2>1 DEF StoreInv
  <2>11. \A u \in Busy' : /\ job'[u].todo # <<>>
                          /\ \A i, k \in 1..Len(job'[u].todo) : job'[u].todo[i] = job'[u].todo[k] => i = k
    BY <2>5, <2>6, <2>7, WritesOnce DEF StoreInv
  <2>12. \A u, v \in Busy' : job'[u].id = job'[v].id => u = v
    BY <2>1, <2>5, <2>6, <2>7 DEF StoreInv
  <2>13. \A p \in Parts : store'[p] # Absent => FinalNext(p, store'[p])
    <3>1. \A p \in Parts : store[p] # Absent => store[p] \in Nat /\ Final(p, store[p])
      BY <2>1 DEF StoreInv
    <3> QED
      BY <2>1, <2>9, <3>1
  <2> QED
    <3>1. Stable
      BY <2>1, <2>9 DEF Final
    <3>2. (\A p \in Parts : store[p] # Absent => Final(p, store[p]))'
      BY <2>13 DEF Final
    <3>3. jobs' \in Nat
      BY <2>1
    <3>4. \A u, v \in Busy' : job'[u].id = job'[v].id => u = v
      BY <2>12
    <3> HIDE DEF FinalNext, Stable
    <3>5. StoreInv'
      BY <2>4, <2>10, <2>11, <3>2, <3>3, <3>4, Zenon DEF StoreInv
    <3> QED
      BY <3>1, <3>5
<1>3. ASSUME NEW w \in Writers, Clear(w) PROVE StoreInv' /\ Stable
  <2>1. /\ w \in Busy /\ UNCHANGED jobs /\ job' = [job EXCEPT ![w].open = TRUE]
        /\ store' = [store EXCEPT ![Head(job[w].todo)] = Absent]
    BY <1>3 DEF Clear
  <2>2. \A u \in Busy : job[u] \in Job
    BY DEF StoreInv, Busy
  <2>3. /\ \A u \in Busy : job'[u] \in Job' /\ job'[u].id = job[u].id /\ job'[u].todo = job[u].todo
        /\ \A u \in Writers \ Busy : job'[u] = NoJob
    BY <2>1, <2>2 DEF StoreInv, Job, Busy
  <2>4. Busy' = Busy
    BY <2>1, <2>3 DEF Busy, StoreInv, NoJob, Job
  <2>5. \A p, c : Final(p, c)' = Final(p, c)
    BY <2>1, <2>3, <2>4 DEF Final, Left
  <2>6. job' \in [Writers -> Job' \cup {NoJob}]
    BY <2>1, <2>3, <2>4 DEF StoreInv
  <2>7. store' \in [Parts -> 0..jobs' \cup {Absent}] /\ \A p \in Parts : store'[p] \in {store[p], Absent}
    BY <2>1 DEF StoreInv
  <2> QED
    BY <2>1, <2>3, <2>4, <2>5, <2>6, <2>7, AbsentAssumption DEF StoreInv
<1>4. ASSUME NEW w \in Writers, Commit(w) PROVE StoreInv' /\ Stable
  <2> DEFINE todo == job[w].todo
             next == IF Tail(todo) = <<>> THEN NoJob ELSE [job[w] EXCEPT !.todo = Tail(todo), !.open = FALSE]
  <2>1. /\ UNCHANGED jobs /\ job' = [job EXCEPT ![w] = next]
        /\ store' = [store EXCEPT ![Head(todo)] = job[w].id]
        /\ w \in Busy
    BY <1>4 DEF Commit, Rest, Busy, NoJob
  <2>2. \A u \in Busy : job[u] \in Job
    BY DEF StoreInv, Busy
  <2>3. /\ todo \in Seq(Parts) /\ todo # <<>> /\ job[w].id \in 1..jobs
        /\ \A i, k \in 1..Len(todo) : todo[i] = todo[k] => i = k
    BY <2>1, <2>2 DEF StoreInv, Job
  <2>4. /\ Tail(todo) \in Seq(Parts) /\ Len(Tail(todo)) = Len(todo) - 1
        /\ \A i \in 1..Len(Tail(todo)) : Tail(todo)[i] = todo[i + 1]
        /\ Head(todo) = todo[1] /\ Len(todo) \in Nat \ {0}
    BY <2>3
  <2>5. /\ next \in Job \cup {NoJob}
        /\ next # NoJob => next.id = job[w].id /\ next.todo = Tail(todo) /\ Tail(todo) # <<>>
    BY <2>1, <2>2, <2>4 DEF Job, NoJob
  <2> HIDE DEF next
  <2>6. job' \in [Writers -> Job' \cup {NoJob}]
    BY <2>1, <2>5 DEF StoreInv, Job
  <2>7. \A u \in Busy' : u \in Busy /\ job'[u].id = job[u].id
                       /\ (u # w => job'[u].todo = job[u].todo) /\ (u = w => job'[w].todo = Tail(todo) /\ Tail(todo) # <<>>)
    BY <2>1, <2>5 DEF Busy, StoreInv
  <2>8. \A u \in Busy' : /\ job'[u].todo # <<>>
                         /\ \A i, k \in 1..Len(job'[u].todo) : job'[u].todo[i] = job'[u].todo[k] => i = k
    <3>1. \A i, k \in 1..Len(Tail(todo)) : Tail(todo)[i] = Tail(todo)[k] => i = k
      BY <2>3, <2>4
    <3> QED
      BY <2>7, <3>1 DEF StoreInv
  <2>9. \A u \in Busy' : Left(u)' \subseteq Left(u) \ (IF u = w THEN {Head(todo)} ELSE {})
    <3>1. \A i \in 1..Len(Tail(todo)) : Tail(todo)[i] \in Left(w) /\ Tail(todo)[i] # Head(todo)
      BY <2>3, <2>4 DEF Left
    <3>2. \A u \in Busy' : u # w => Left(u)' = Left(u)
      BY <2>7 DEF Left
    <3>3. w \in Busy' => Left(w)' = {Tail(todo)[i] : i \in 1..Len(Tail(todo))}
      BY <2>7 DEF Left
    <3> QED
      BY <3>1, <3>2, <3>3
  <2>10. Head(todo) \in Left(w) /\ Head(todo) \in Parts
    BY <2>3, <2>4 DEF Left
  <2>11. \A p \in Parts, c \in Nat : Final(p, c) => FinalNext(p, c)
    BY <2>1, <2>7, <2>9 DEF Final
  <2>12. store' \in [Parts -> 0..jobs' \cup {Absent}]
    BY <2>1, <2>3 DEF StoreInv
  <2>13. \A p \in Parts : store'[p] = IF p = Head(todo) THEN job[w].id ELSE store[p]
    BY <2>1 DEF StoreInv
  <2>14. FinalNext(Head(todo), job[w].id)
    <3>1. \A u \in Busy' : job'[u].id = job[w].id => Head(todo) \notin Left(u)'
      BY <2>1, <2>7, <2>9 DEF StoreInv
    <3> QED
      BY <2>1, <2>3, <3>1 DEF StoreInv
  <2>15. \A p \in Parts : store'[p] # Absent => FinalNext(p, store'[p])
    <3>1. \A p \in Parts : store[p] # Absent => store[p] \in Nat /\ Final(p, store[p])
      BY <2>1 DEF StoreInv
    <3> HIDE DEF FinalNext
    <3> QED
      BY <2>11, <2>13, <2>14, <3>1
  <2>16. \A p \in Parts, c \in Nat : Final(p, c) /\ store'[p] = c => store[p] = c
    BY <2>1, <2>10, <2>13 DEF Final
  <2>17. \A u, v \in Busy' : job'[u].id = job'[v].id => u = v
    BY <2>7 DEF StoreInv
  <2> QED
    BY <2>1, <2>6, <2>8, <2>11, <2>12, <2>15, <2>16, <2>17 DEF StoreInv, Final
<1>5. ASSUME NEW w \in Busy, job' = [job EXCEPT ![w] = NoJob], UNCHANGED <<store, jobs>>
      PROVE  StoreInv' /\ Stable
  <2>1. Busy' = Busy \ {w} /\ \A u \in Busy' : job'[u] = job[u] /\ Left(u)' = Left(u)
    BY <1>5 DEF Busy, Left, StoreInv
  <2>2. \A p \in Parts, c \in Nat : Final(p, c) => Final(p, c)'
    BY <1>5, <2>1 DEF Final
  <2>3. job' \in [Writers -> Job' \cup {NoJob}]
    BY <1>5 DEF StoreInv, Job
  <2>4. \A p \in Parts : store[p] # Absent => store[p] \in Nat /\ Final(p, store[p])
    BY DEF StoreInv
  <2> QED
    BY <1>5, <2>1, <2>2, <2>3, <2>4 DEF StoreInv
<1>6. ASSUME NEW w \in Writers, LoseInput(w) \/ KillJob(w) PROVE StoreInv' /\ Stable
  BY <1>5, <1>6 DEF LoseInput, KillJob, Busy, NoJob
<1> QED
  BY <1>1, <1>2, <1>3, <1>4, <1>6
     DEF DataNext, dataVars, StartLoad, ListSplit, Summarize, ReadRanges, ListFiles, Approve, MatchManifest,
         ReadSplit, EndLoad, Quietly

-------------------------------------------------------------------------------
(***************************************************************************)
(* What a load has seen.  A split is read twice, the list of files once    *)
(* and the hashes later, and every two of these readings agree or one of   *)
(* them is of a content that is gone; then the last reading fails.         *)
(***************************************************************************)
\* Gone for good.
Gone(p, c) == c # Absent => Final(p, c) /\ store[p] # c

\* The two readings of lineage.json that a manifest stands for are of one content, or the first of
\* them is gone and the second is going to be, if not gone.
Honest(m) ==
  m.ranges # m.files["lineage"] =>
    /\ Gone("lineage", m.ranges)
    /\ m.files["lineage"] # Absent => Final("lineage", m.files["lineage"])

SplitsListed ==
  \A s \in SplitNames :
    \/ load.listed[s] # Absent /\ Final(s, load.listed[s])
    \/ load.at \in 0..1
    \/ load.at = 2 /\ s # "train"
    \/ load.at = 3 /\ s = "test"

FilesFound ==
  load.at \in 7..11 => \A s \in SplitNames : store[s] = load.listed[s] => load.found.files[s] = load.listed[s]

RangesFound ==
  load.at \in 6..7 =>
    /\ load.found.ranges # Absent => Final("lineage", load.found.ranges)
    /\ load.trains /\ load.found.ranges = load.target.ranges /\ load.target.ranges # load.target.files["lineage"] =>
         Gone("lineage", load.target.files["lineage"]) /\ load.target.files["lineage"] # Absent

Matched ==
  load.at \in 8..11 =>
    /\ load.found = load.target
    /\ load.target.ranges = load.target.files["lineage"]

FramesRead ==
  \A s \in SplitNames :
    \/ load.frame[s] = load.target.files[s]
    \/ load.at \in 0..8
    \/ load.at = 9 /\ s # "train"
    \/ load.at = 10 /\ s = "test"

LoadInv ==
  /\ load \in Load
  /\ approved \subseteq Manifest
  /\ \A m \in approved : Honest(m)
  /\ load.trains => Honest(load.target)
  /\ SplitsListed /\ FilesFound /\ RangesFound /\ Matched
  /\ FramesRead

\* The fields of a load that a step sets, one at a time.
LEMMA ListedField ==
  ASSUME NEW l \in Load, NEW f \in [SplitNames -> Content], NEW n, n = [l EXCEPT !.listed = f]
  PROVE  /\ n \in Load /\ n.at = l.at /\ n.trains = l.trains /\ n.target = l.target
         /\ n.listed = f /\ n.found = l.found /\ n.frame = l.frame
BY DEF Load

LEMMA FoundField ==
  ASSUME NEW l \in Load, NEW m \in Manifest, NEW n, n = [l EXCEPT !.found = m]
  PROVE  /\ n \in Load /\ n.at = l.at /\ n.trains = l.trains /\ n.target = l.target
         /\ n.listed = l.listed /\ n.found = m /\ n.frame = l.frame
BY DEF Load

LEMMA FrameField ==
  ASSUME NEW l \in Load, NEW f \in [SplitNames -> Content], NEW n, n = [l EXCEPT !.frame = f]
  PROVE  /\ n \in Load /\ n.at = l.at /\ n.trains = l.trains /\ n.target = l.target
         /\ n.listed = l.listed /\ n.found = l.found /\ n.frame = f
BY DEF Load

LEMMA AfterFields ==
  ASSUME NEW l \in Load, l.at \in 1..10, After(l)
  PROVE  /\ load' \in Load /\ load'.at = l.at + 1 /\ load'.trains = l.trains /\ load'.target = l.target
         /\ load'.listed = l.listed /\ load'.found = l.found /\ load'.frame = l.frame
<1>1. load' = [l EXCEPT !.at = l.at + 1]
  BY DEF After
<1>2. l.at + 1 \in 0..11
  OBVIOUS
<1> QED
  BY <1>1, <1>2 DEF Load

LEMMA TrainingSteps ==
  /\ Training[1] = "train" /\ Training[2] = "validation" /\ Training[3] = "test"
  /\ Training[4] = "summarize" /\ Training[5] = "ranges" /\ Training[6] = "files"
  /\ Training[7] = "hash" /\ Training[8] = "read train" /\ Training[9] = "read validation"
  /\ Training[10] = "read test" /\ Training[11] = "fit"
<1>1. /\ Training[1] = "train" /\ Training[2] = "validation" /\ Training[3] = "test"
      /\ Training[4] = "summarize" /\ Training[5] = "ranges" /\ Training[6] = "files"
      /\ Training[7] = "hash"
  BY DEF Training, Loading
<1>2. /\ Training[8] = Reading.train /\ Training[9] = Reading.validation
      /\ Training[10] = Reading.test /\ Training[11] = "fit"
  BY DEF Training, Loading
<1>3. /\ Reading.train = "read train" /\ Reading.validation = "read validation"
      /\ Reading.test = "read test"
  BY DEF Reading
<1> QED
  BY <1>1, <1>2, <1>3

LEMMA AtStep ==
  ASSUME load \in Load
  PROVE  /\ At("train") <=> load.at = 1
         /\ At("validation") <=> load.at = 2
         /\ At("test") <=> load.at = 3
         /\ At("summarize") <=> load.at = 4
         /\ At("ranges") <=> load.at = 5
         /\ At("files") <=> load.at = 6
         /\ At("hash") <=> load.at = 7
         /\ At("read train") <=> load.at = 8
         /\ At("read validation") <=> load.at = 9
         /\ At("read test") <=> load.at = 10
         /\ At("fit") <=> load.at = 11
<1>1. load.at \in {0, 1, 2, 3, 4, 5, 6, 7, 8, 9, 10, 11}
  BY DEF Load
<1>c0. CASE load.at = 0
  BY <1>c0 DEF At
<1>c1. CASE load.at = 1
  BY <1>c1, TrainingSteps DEF At
<1>c2. CASE load.at = 2
  BY <1>c2, TrainingSteps DEF At
<1>c3. CASE load.at = 3
  BY <1>c3, TrainingSteps DEF At
<1>c4. CASE load.at = 4
  BY <1>c4, TrainingSteps DEF At
<1>c5. CASE load.at = 5
  BY <1>c5, TrainingSteps DEF At
<1>c6. CASE load.at = 6
  BY <1>c6, TrainingSteps DEF At
<1>c7. CASE load.at = 7
  BY <1>c7, TrainingSteps DEF At
<1>c8. CASE load.at = 8
  BY <1>c8, TrainingSteps DEF At
<1>c9. CASE load.at = 9
  BY <1>c9, TrainingSteps DEF At
<1>c10. CASE load.at = 10
  BY <1>c10, TrainingSteps DEF At
<1>c11. CASE load.at = 11
  <2>1. Training[11] = "fit"
    BY TrainingSteps
  <2> QED
    BY <1>c11, <2>1 DEF At
<1> QED
  BY <1>1, <1>c0, <1>c1, <1>c2, <1>c3, <1>c4, <1>c5, <1>c6, <1>c7, <1>c8, <1>c9, <1>c10, <1>c11

LEMMA LoadInvInit == DataInit => LoadInv
<1> SUFFICES ASSUME DataInit PROVE LoadInv
  OBVIOUS
<1>1. load = NoLoad /\ approved = {} /\ load.at = 0 /\ load.trains = FALSE
  BY DEF DataInit, NoLoad
<1>2. load \in Load
  BY <1>1 DEF NoLoad, Load, Manifest, Blank, Nothing, Content
<1> QED
  BY <1>1, <1>2 DEF LoadInv, SplitsListed, FilesFound, RangesFound, Matched, FramesRead

\* The end of a load leaves nothing to say of it.
LEMMA EmptyLoad ==
  ASSUME StoreInv', load' = NoLoad, approved' \subseteq Manifest, (\A m \in approved : Honest(m))'
  PROVE  LoadInv'
<1>1. load'.at = 0 /\ load'.trains = FALSE /\ load' \in Load
  BY DEF NoLoad, Load, Manifest, Blank, Nothing, Content
<1> QED
  BY <1>1 DEF LoadInv, SplitsListed, FilesFound, RangesFound, Matched, FramesRead

\* Final and Gone after a step, for what was known before it.
FinalNext(p, c) == c \in 0..jobs' /\ \A w \in Busy' : job'[w].id = c => p \notin Left(w)'

GoneNext(p, c) == c # Absent => FinalNext(p, c) /\ store'[p] # c

\* What a manifest or a load says of the files stays true.
LEMMA SaidForGood ==
  ASSUME StoreInv, [DataNext]_dataVars, NEW p \in Parts, NEW c \in Content
  PROVE  /\ c # Absent /\ Final(p, c) => FinalNext(p, c) /\ (store'[p] = c => store[p] = c)
         /\ Gone(p, c) => GoneNext(p, c)
<1>1. c # Absent => c \in Nat
  BY DEF Content
<1>2. c \in Nat /\ Final(p, c) => Final(p, c)' /\ (store'[p] = c => store[p] = c)
  BY StoreInvNext
<1>3. Final(p, c)' <=> FinalNext(p, c)
  BY DEF Final, FinalNext
<1> QED
  BY <1>1, <1>2, <1>3 DEF Gone, GoneNext

LEMMA HonestForGood ==
  ASSUME StoreInv, [DataNext]_dataVars, NEW m \in Manifest, Honest(m)
  PROVE  Honest(m)'
<1>1. "lineage" \in Parts /\ m.ranges \in Content /\ m.files["lineage"] \in Content
  BY DEF Parts, Manifest
<1>2. Gone("lineage", m.ranges) => GoneNext("lineage", m.ranges)
  BY <1>1, SaidForGood
<1>3. m.files["lineage"] # Absent /\ Final("lineage", m.files["lineage"]) => FinalNext("lineage", m.files["lineage"])
  BY <1>1, SaidForGood
<1> QED
  BY <1>2, <1>3 DEF Honest, Gone, GoneNext, Final, FinalNext

LEMMA LoadInvNext == StoreInv /\ LoadInv /\ [DataNext]_dataVars => LoadInv'
<1> SUFFICES ASSUME StoreInv, LoadInv, [DataNext]_dataVars PROVE LoadInv'
  OBVIOUS
<1>1. \A p \in Parts, c \in Content :
        /\ c # Absent /\ Final(p, c) => FinalNext(p, c) /\ (store'[p] = c => store[p] = c)
        /\ Gone(p, c) => GoneNext(p, c)
  BY SaidForGood
<1>2. \A m \in Manifest : Honest(m) => Honest(m)'
  BY HonestForGood
<1>3. \A p \in Parts : store[p] \in Content /\ (store[p] # Absent => Final(p, store[p]))
  BY DEF StoreInv, Content
<1>4. SplitNames \subseteq Parts /\ "lineage" \in Parts /\ SplitNames = {"train", "validation", "test"}
  BY DEF Parts, SplitNames
<1>5. /\ load \in Load /\ load.target \in Manifest /\ load.found \in Manifest
      /\ load.listed \in [SplitNames -> Content] /\ load.frame \in [SplitNames -> Content] /\ approved \subseteq Manifest
      /\ load.found.ranges \in Content /\ load.target.files["lineage"] \in Content
  BY <1>4 DEF LoadInv, Load, Manifest
<1>6. UNCHANGED approved => (\A m \in approved : Honest(m))'
  BY <1>2, <1>5 DEF LoadInv
<1>7. CASE UNCHANGED <<load, approved>>
  <2>1. \A s \in SplitNames : load.listed[s] # Absent /\ Final(s, load.listed[s]) =>
          FinalNext(s, load.listed[s]) /\ (store'[s] = load.listed[s] => store[s] = load.listed[s])
    BY <1>1, <1>4, <1>5
  <2>2. SplitsListed'
    BY <1>7, <2>1 DEF LoadInv, SplitsListed, Final, FinalNext
  <2>3. FilesFound'
    BY <1>4, <1>7, <2>1 DEF LoadInv, SplitsListed, FilesFound
  <2>4. RangesFound'
    <3>1. load.found.ranges # Absent /\ Final("lineage", load.found.ranges) => FinalNext("lineage", load.found.ranges)
      BY <1>1, <1>4, <1>5
    <3>2. Gone("lineage", load.target.files["lineage"]) => GoneNext("lineage", load.target.files["lineage"])
      BY <1>1, <1>4, <1>5
    <3> QED
      BY <1>7, <3>1, <3>2 DEF LoadInv, RangesFound, Gone, GoneNext, Final, FinalNext
  <2>5. Matched' /\ FramesRead'
    BY <1>7 DEF LoadInv, Matched, FramesRead
  <2>6. (load.trains => Honest(load.target))'
    <3>1. load.trains => Honest(load.target)
      BY DEF LoadInv
    <3>2. Honest(load.target) /\ load.target.ranges # load.target.files["lineage"] =>
            /\ GoneNext("lineage", load.target.ranges)
            /\ load.target.files["lineage"] # Absent => FinalNext("lineage", load.target.files["lineage"])
      BY <1>1, <1>4, <1>5 DEF Honest, Manifest
    <3> QED
      BY <1>7, <3>1, <3>2 DEF Honest, Gone, GoneNext, Final, FinalNext
  <2> QED
    BY <1>5, <1>6, <1>7, <2>2, <2>3, <2>4, <2>5, <2>6 DEF LoadInv
<1>8. ASSUME load' = NoLoad, UNCHANGED approved PROVE LoadInv'
  BY <1>5, <1>6, <1>8, StoreInvNext, EmptyLoad
<1>9. ASSUME NEW trains \in BOOLEAN, NEW target \in Manifest, trains => Honest(target), StartLoad(trains, target)
      PROVE  LoadInv'
  <2>1. load' = [NoLoad EXCEPT !.at = 1, !.trains = trains, !.target = target] /\ UNCHANGED <<approved, store, job, jobs>>
    BY <1>9 DEF StartLoad
  <2>2. load' \in Load /\ load'.at = 1 /\ load'.trains = trains /\ load'.target = target
    <3>1. load' = [at |-> 1, trains |-> trains, target |-> target,
                   listed |-> Nothing, found |-> Blank, frame |-> Nothing]
      BY <2>1 DEF NoLoad
    <3>2. Nothing \in [SplitNames -> Content] /\ Blank \in Manifest
      BY DEF Manifest, Blank, Nothing, Content
    <3> QED
      BY <3>1, <3>2 DEF Load
  <2>3. (load.trains => Honest(load.target))'
    BY <1>9, <2>1, <2>2 DEF Honest, Gone, Final, Busy, Left
  <2>4. FramesRead'
    BY <2>2 DEF FramesRead
  <2> QED
    BY <1>5, <1>6, <2>1, <2>2, <2>3, <2>4 DEF LoadInv, SplitsListed, FilesFound, RangesFound, Matched
<1>10. Quietly => /\ UNCHANGED <<store, job, jobs, approved>>
                  /\ \A p \in Parts, c \in Content : FinalNext(p, c) <=> Final(p, c)
  BY DEF Quietly, FinalNext, Final, Busy, Left
<1>11. ASSUME Quietly, load' \in Load, load'.target = load.target, load'.trains = load.trains,
              SplitsListed', FilesFound', RangesFound', Matched', FramesRead'
       PROVE  LoadInv'
  <2>1. load.trains => Honest(load.target)
    BY DEF LoadInv
  <2>2. (load.trains => Honest(load.target))'
    BY <1>10, <1>11, <2>1 DEF Honest, Gone, Final, Busy, Left
  <2> QED
    BY <1>5, <1>6, <1>10, <1>11, <2>2 DEF LoadInv
<1>11a. ASSUME Quietly, load'.listed = load.listed, load.at \in 4..11, load'.at \in 4..11
       PROVE  SplitsListed'
  <2>1. \A s \in SplitNames : load.listed[s] # Absent /\ Final(s, load.listed[s])
    BY <1>11a DEF LoadInv, SplitsListed
  <2>2. \A s \in SplitNames : load.listed[s] # Absent /\ FinalNext(s, load.listed[s])
    BY <2>1, <1>1, <1>4, <1>5
  <2> QED
    BY <1>11a, <2>2 DEF SplitsListed, Final, FinalNext
<1>12. ASSUME NEW s \in SplitNames, ListSplit(s) PROVE LoadInv'
  <2> DEFINE listed == [load.listed EXCEPT ![s] = store[s]]
             l == [load EXCEPT !.listed = listed]
  <2>1. /\ Quietly /\ store[s] \in Content \ {Absent} /\ Final(s, store[s]) /\ After(l)
        /\ load.at = IF s = "train" THEN 1 ELSE IF s = "validation" THEN 2 ELSE 3
    <3>1. Quietly /\ store[s] # Absent /\ At(s) /\ After([load EXCEPT !.listed[s] = store[s]])
      BY <1>12 DEF ListSplit
    <3>2. [load EXCEPT !.listed[s] = store[s]] = l
      OBVIOUS
    <3>3. load.at = IF s = "train" THEN 1 ELSE IF s = "validation" THEN 2 ELSE 3
      BY <1>4, <1>5, <3>1, AtStep
    <3> QED
      BY <1>3, <1>4, <3>1, <3>2, <3>3
  <2>2. /\ load' \in Load /\ load'.target = load.target /\ load'.trains = load.trains
        /\ load'.at = load.at + 1 /\ load'.listed = listed
    <3>1. listed \in [SplitNames -> Content]
      BY <1>5, <2>1
    <3> HIDE DEF listed
    <3>2. l \in Load /\ l.at = load.at /\ l.target = load.target /\ l.trains = load.trains /\ l.listed = listed
      BY <1>5, <3>1, ListedField
    <3>3. load.at \in 1..10
      BY <2>1
    <3> HIDE DEF l
    <3> QED
      BY <2>1, <3>2, <3>3, AfterFields
  <2>3. SplitsListed'
    <3>1. \A t \in SplitNames : listed[t] = IF t = s THEN store[s] ELSE load.listed[t]
      BY <1>5
    <3>2. \A t \in SplitNames : load.listed[t] # Absent /\ Final(t, load.listed[t]) => FinalNext(t, load.listed[t])
      BY <1>1, <1>4, <1>5
    <3>3. FinalNext(s, store[s])
      BY <1>1, <1>4, <2>1
    <3>4. \A t \in SplitNames : \/ listed[t] # Absent /\ FinalNext(t, listed[t])
                                \/ load'.at \in 0..1
                                \/ load'.at = 2 /\ t # "train"
                                \/ load'.at = 3 /\ t = "test"
      <4> HIDE DEF listed
      <4>1. \A t \in SplitNames : t # s => \/ load.listed[t] # Absent /\ FinalNext(t, load.listed[t])
                                           \/ load.at \in 0..1
                                           \/ load.at = 2 /\ t # "train"
                                           \/ load.at = 3 /\ t = "test"
        BY <3>2 DEF LoadInv, SplitsListed
      <4> QED
        BY <1>4, <2>1, <2>2, <3>1, <3>3, <4>1
    <3> QED
      BY <2>2, <3>4 DEF SplitsListed, Final, FinalNext
  <2>4. FilesFound' /\ RangesFound' /\ Matched'
    BY <2>1, <2>2, <1>4 DEF FilesFound, RangesFound, Matched
  <2>5. FramesRead'
    <3>1. load'.at \in 2..4
      BY <1>4, <2>1, <2>2
    <3> QED
      BY <2>2, <3>1 DEF FramesRead
  <2> QED
    BY <1>11, <2>1, <2>2, <2>3, <2>4, <2>5
<1>13. CASE Summarize
  <2>1. Quietly /\ After(load) /\ load.at = 4
    BY <1>5, <1>13, AtStep DEF Summarize
  <2>2. /\ load' \in Load /\ load'.target = load.target /\ load'.trains = load.trains
        /\ load'.at = 5 /\ load'.listed = load.listed
    BY <1>5, <2>1, AfterFields
  <2>3. SplitsListed'
    BY <1>11a, <2>1, <2>2
  <2>4. FilesFound' /\ RangesFound' /\ Matched'
    BY <2>1, <2>2 DEF FilesFound, RangesFound, Matched
  <2>5. FramesRead'
    BY <2>2 DEF FramesRead
  <2> QED
    BY <1>11, <2>1, <2>2, <2>3, <2>4, <2>5
<1>14. CASE ReadRanges
  <2> DEFINE found == [load.found EXCEPT !.ranges = store["lineage"]]
  <2>1. /\ Quietly /\ load.at = 5
        /\ After([load EXCEPT !.found = found])
    <3>1. [load EXCEPT !.found.ranges = store["lineage"]] = [load EXCEPT !.found = found]
      OBVIOUS
    <3> QED
      BY <1>5, <1>14, <3>1, AtStep DEF ReadRanges
  <2>2. /\ load' \in Load /\ load'.target = load.target /\ load'.trains = load.trains
        /\ load'.at = 6 /\ load'.listed = load.listed /\ load'.found.ranges = store["lineage"]
    <3> DEFINE l == [load EXCEPT !.found = found]
    <3>1. found \in Manifest /\ found.ranges = store["lineage"]
      BY <1>3, <1>4, <1>5 DEF Manifest
    <3>2. /\ l \in Load /\ l.at = 5 /\ l.target = load.target /\ l.trains = load.trains
          /\ l.listed = load.listed /\ l.found = found
      BY <1>5, <2>1, <3>1, FoundField
    <3> HIDE DEF l, found
    <3>3. After(l)
      BY <2>1 DEF l
    <3> QED
      BY <3>1, <3>2, <3>3, AfterFields
  <2>3. SplitsListed'
    BY <1>11a, <2>1, <2>2
  <2>4. RangesFound'
    <3>1. store["lineage"] # Absent => Final("lineage", store["lineage"])
      BY <1>3, <1>4
    <3>2. load.trains /\ store["lineage"] = load.target.ranges /\ load.target.ranges # load.target.files["lineage"] =>
            /\ Gone("lineage", load.target.files["lineage"]) /\ load.target.files["lineage"] # Absent
      BY DEF LoadInv, Honest, Gone
    <3> QED
      BY <1>10, <2>1, <2>2, <3>1, <3>2 DEF RangesFound, Gone, Final, Busy, Left
  <2>5. FilesFound' /\ Matched'
    BY <2>2 DEF FilesFound, Matched
  <2>6. FramesRead'
    BY <2>2 DEF FramesRead
  <2> QED
    BY <1>11, <2>1, <2>2, <2>3, <2>4, <2>5, <2>6
<1>15. CASE ListFiles
  <2> DEFINE found == [load.found EXCEPT !.files = Below]
  <2>1. /\ Quietly /\ load.at = 6
        /\ After([load EXCEPT !.found = found])
    <3>1. [load EXCEPT !.found.files = Below] = [load EXCEPT !.found = found]
      OBVIOUS
    <3> QED
      BY <1>5, <1>15, <3>1, AtStep DEF ListFiles
  <2>2. Below \in [Parts -> Content] /\ \A s \in SplitNames : Below[s] = store[s]
    BY <1>3, <1>4 DEF Below, StoreInv, Content, SplitNames, Parts
  <2>3. /\ load' \in Load /\ load'.target = load.target /\ load'.trains = load.trains
        /\ load'.at = 7 /\ load'.listed = load.listed /\ load'.found.ranges = load.found.ranges
        /\ load'.found.files = Below
    <3> DEFINE l == [load EXCEPT !.found = found]
    <3>1. found \in Manifest /\ found.ranges = load.found.ranges /\ found.files = Below
      BY <1>5, <2>2 DEF Manifest
    <3>2. /\ l \in Load /\ l.at = 6 /\ l.target = load.target /\ l.trains = load.trains
          /\ l.listed = load.listed /\ l.found = found
      BY <1>5, <2>1, <3>1, FoundField
    <3> HIDE DEF l, found
    <3>3. After(l)
      BY <2>1 DEF l
    <3> QED
      BY <3>1, <3>2, <3>3, AfterFields
  <2>4. SplitsListed'
    BY <1>11a, <2>1, <2>3
  <2>5. FilesFound'
    BY <1>10, <2>1, <2>2, <2>3 DEF FilesFound
  <2>6. RangesFound'
    BY <1>10, <2>1, <2>3 DEF LoadInv, RangesFound, Gone, Final, Busy, Left
  <2>7. Matched'
    BY <2>3 DEF Matched
  <2>8. FramesRead'
    BY <2>3 DEF FramesRead
  <2> QED
    BY <1>11, <2>1, <2>3, <2>4, <2>5, <2>6, <2>7, <2>8
<1>16. Hashed = [load.found EXCEPT !.files["lineage"] = store["lineage"]] /\ Hashed \in Manifest
       /\ Hashed.ranges = load.found.ranges /\ Hashed.files["lineage"] = store["lineage"]
       /\ \A s \in SplitNames : Hashed.files[s] = load.found.files[s]
  BY <1>3, <1>4, <1>5 DEF Hashed, Manifest
<1>17. CASE Approve
  <2>1. /\ load.at = 7 /\ approved' = approved \cup {Hashed} /\ load' = NoLoad
        /\ UNCHANGED <<store, job, jobs>>
    BY <1>5, <1>17, AtStep DEF Approve
  <2>2. Honest(Hashed)
    BY <1>3, <1>4, <1>16, <2>1 DEF LoadInv, RangesFound, Honest, Gone
  <2>3. (\A m \in approved : Honest(m))'
    BY <1>2, <1>5, <1>16, <2>1, <2>2 DEF LoadInv
  <2> QED
    BY <1>5, <1>16, <2>1, <2>3, StoreInvNext, EmptyLoad
<1>18. CASE MatchManifest
  <2>1. /\ Quietly /\ load.at = 7 /\ load.trains /\ Hashed = load.target
        /\ After([load EXCEPT !.found = Hashed])
    BY <1>5, <1>18, AtStep DEF MatchManifest, Matches
  <2>2. /\ load' \in Load /\ load'.target = load.target /\ load'.trains = load.trains
        /\ load'.at = 8 /\ load'.listed = load.listed /\ load'.found = load.target
    <3> DEFINE l == [load EXCEPT !.found = Hashed]
    <3>1. Hashed \in Manifest
      BY <1>16
    <3>2. /\ l \in Load /\ l.at = load.at /\ l.target = load.target /\ l.trains = load.trains
          /\ l.listed = load.listed /\ l.found = Hashed
      BY <1>5, <3>1, FoundField
    <3>3. /\ l \in Load /\ l.at = 7 /\ l.target = load.target /\ l.trains = load.trains
          /\ l.listed = load.listed /\ l.found = load.target
      BY <2>1, <3>2
    <3> HIDE DEF l
    <3>4. After(l)
      BY <2>1 DEF l
    <3> QED
      BY <3>3, <3>4, AfterFields
  <2>3. SplitsListed'
    BY <1>11a, <2>1, <2>2
  <2>4. FilesFound'
    <3>1. \A s \in SplitNames : store[s] = load.listed[s] => Hashed.files[s] = load.listed[s]
      BY <1>16, <2>1 DEF LoadInv, FilesFound
    <3> QED
      BY <1>10, <2>1, <2>2, <3>1 DEF FilesFound
  <2>5. RangesFound'
    BY <2>2 DEF RangesFound
  <2>6. Matched'
    <3>1. load.target.ranges = load.found.ranges /\ load.target.files["lineage"] = store["lineage"]
      BY <1>16, <2>1
    <3>2. load.target.ranges # load.target.files["lineage"] =>
            load.target.files["lineage"] # Absent /\ store["lineage"] # load.target.files["lineage"]
      BY <2>1, <3>1 DEF LoadInv, RangesFound, Gone
    <3> QED
      BY <2>2, <3>1, <3>2 DEF Matched
  <2>7. FramesRead'
    BY <2>2 DEF FramesRead
  <2> QED
    BY <1>11, <2>1, <2>2, <2>3, <2>4, <2>5, <2>6, <2>7
<1>19. ASSUME NEW s \in SplitNames, ReadSplit(s) PROVE LoadInv'
  <2> DEFINE frame == [load.frame EXCEPT ![s] = store[s]]
             l == [load EXCEPT !.frame = frame]
  <2>1. /\ Quietly /\ store[s] = load.listed[s] /\ After(l)
        /\ load.at = IF s = "train" THEN 8 ELSE IF s = "validation" THEN 9 ELSE 10
    <3>1. Quietly /\ store[s] = load.listed[s] /\ At(Reading[s]) /\ After([load EXCEPT !.frame[s] = store[s]])
      BY <1>19 DEF ReadSplit, Readable, Listed
    <3>2. [load EXCEPT !.frame[s] = store[s]] = l
      OBVIOUS
    <3>3. Reading[s] = IF s = "train" THEN "read train" ELSE IF s = "validation" THEN "read validation" ELSE "read test"
      <4>1. Reading["train"] = "read train" /\ Reading["validation"] = "read validation"
            /\ Reading["test"] = "read test"
        BY DEF Reading
      <4> QED
        BY <1>4, <1>19, <4>1
    <3>4. load.at = IF s = "train" THEN 8 ELSE IF s = "validation" THEN 9 ELSE 10
      BY <1>5, <3>1, <3>3, AtStep
    <3> QED
      BY <3>1, <3>2, <3>4
  <2>2. /\ load' \in Load /\ load'.target = load.target /\ load'.trains = load.trains
        /\ load'.at = load.at + 1 /\ load'.listed = load.listed /\ load'.found = load.found /\ load'.frame = frame
    <3>1. frame \in [SplitNames -> Content]
      BY <1>3, <1>4, <1>5
    <3> HIDE DEF frame
    <3>2. /\ l \in Load /\ l.at = load.at /\ l.target = load.target /\ l.trains = load.trains
          /\ l.listed = load.listed /\ l.found = load.found /\ l.frame = frame
      BY <1>5, <3>1, FrameField
    <3>3. load.at \in 8..10
      BY <2>1
    <3> HIDE DEF l
    <3> QED
      BY <2>1, <3>2, <3>3, AfterFields
  <2>3. SplitsListed'
    BY <1>11a, <2>1, <2>2
  <2>4. FilesFound' /\ RangesFound' /\ Matched'
    BY <1>10, <2>1, <2>2 DEF LoadInv, FilesFound, RangesFound, Matched
  <2>5. FramesRead'
    <3>1. store[s] = load.target.files[s]
      BY <2>1 DEF LoadInv, FilesFound, Matched
    <3>2. \A t \in SplitNames : frame[t] = IF t = s THEN store[s] ELSE load.frame[t]
      BY <1>5
    <3> HIDE DEF frame
    <3> QED
      BY <1>4, <2>1, <2>2, <3>1, <3>2 DEF LoadInv, FramesRead
  <2> QED
    BY <1>11, <2>1, <2>2, <2>3, <2>4, <2>5
<1>20. CASE \/ \E w \in Writers, kind \in Kinds : StartJob(w, kind)
            \/ \E w \in Writers : Clear(w) \/ Commit(w) \/ LoseInput(w) \/ KillJob(w)
  BY <1>7, <1>20 DEF StartJob, Clear, Commit, LoseInput, KillJob
<1>21. CASE StartLoad(FALSE, Blank)
  <2>1. Blank \in Manifest
    BY DEF Blank, Manifest, Content
  <2> QED
    BY <1>9, <1>21, <2>1
<1>22. CASE \E target \in approved : StartLoad(TRUE, target)
  BY <1>5, <1>9, <1>22 DEF LoadInv
<1>23. CASE EndLoad
  BY <1>8, <1>23 DEF EndLoad, Quietly
<1>24. CASE UNCHANGED dataVars
  BY <1>7, <1>24 DEF dataVars
<1> QED
  BY <1>12, <1>13, <1>14, <1>15, <1>17, <1>18, <1>19, <1>20, <1>21, <1>22, <1>23, <1>24 DEF DataNext

CountInv == loads \in Nat /\ kills \in Nat

LEMMA CountsKeepTypes ==
  disturbed \in BOOLEAN /\ CountInv /\ [DataNext]_dataVars => (disturbed \in BOOLEAN)' /\ CountInv'
<1> SUFFICES ASSUME disturbed \in BOOLEAN, CountInv, [DataNext]_dataVars
             PROVE  disturbed' \in BOOLEAN /\ CountInv'
  OBVIOUS
<1>1. CASE \E w \in Writers, kind \in Kinds : StartJob(w, kind)
  <2>1. disturbed' \in BOOLEAN
    BY <1>1, Zenon DEF StartJob
  <2>2. CountInv'
    BY <1>1 DEF StartJob, CountInv
  <2> QED
    BY <2>1, <2>2
<1>2. CASE \E w \in Writers : Commit(w)
  <2>1. disturbed' \in BOOLEAN
    BY <1>2, Zenon DEF Commit
  <2>2. CountInv'
    BY <1>2 DEF Commit, CountInv
  <2> QED
    BY <2>1, <2>2
<1>3. CASE \E w \in Writers : LoseInput(w) \/ KillJob(w)
  <2>1. disturbed' = TRUE
    BY <1>3 DEF LoseInput, KillJob
  <2>2. CountInv'
    BY <1>3 DEF LoseInput, KillJob, CountInv
  <2> QED
    BY <2>1, <2>2
<1>4. ASSUME NEW trains, NEW target, StartLoad(trains, target) PROVE disturbed' = disturbed /\ CountInv'
  BY <1>4 DEF StartLoad, CountInv
<1>5. CASE UNCHANGED <<disturbed, loads, kills>>
  BY <1>5 DEF CountInv
<1> QED
  BY <1>1, <1>2, <1>3, <1>4, <1>5
     DEF DataNext, dataVars, Clear, ListSplit, Summarize, ReadRanges, ListFiles, Approve, MatchManifest, ReadSplit,
         EndLoad, Quietly

(* Every variable keeps its type, for any number of writers and jobs.        *)
THEOREM DataTyped == DataSpec => []DataTypeOK
<1>1. DataInit => disturbed \in BOOLEAN /\ CountInv
  <2>1. DataInit => disturbed \in BOOLEAN
    BY DEF DataInit
  <2>2. DataInit => CountInv
    BY DEF DataInit, CountInv
  <2> QED
    BY <2>1, <2>2
<1>2. StoreInv /\ LoadInv /\ disturbed \in BOOLEAN /\ CountInv => DataTypeOK
  BY DEF StoreInv, LoadInv, CountInv, DataTypeOK
<1>3. StoreInv /\ LoadInv /\ [DataNext]_dataVars => StoreInv' /\ LoadInv'
  BY StoreInvNext, LoadInvNext
<1> QED
  BY <1>1, <1>2, <1>3, CountsKeepTypes, StoreInvInit, LoadInvInit, PTL DEF DataSpec

(* A controlled retraining trains on the very files that were approved, or    *)
(* not at all, whatever pipelines overwrite meanwhile, however many there are.*)
THEOREM ApprovedIsTrainedOn == DataSpec => []TrainsOnApproved
<1>1. StoreInv /\ LoadInv /\ [DataNext]_dataVars => StoreInv' /\ LoadInv'
  BY StoreInvNext, LoadInvNext
<1>2. LoadInv => TrainsOnApproved
  <2> SUFFICES ASSUME LoadInv, At("fit") PROVE TrainsOnApproved
    BY DEF TrainsOnApproved
  <2>1. load.at = 11
    BY AtStep DEF LoadInv
  <2> QED
    BY <2>1 DEF LoadInv, FramesRead, Matched, TrainsOnApproved
<1> QED
  BY <1>1, <1>2, StoreInvInit, LoadInvInit, PTL DEF DataSpec

-------------------------------------------------------------------------------
(* The splits are of one job.                                                 *)

SplitParts == SplitNames \cup {"lineage"}

\* The pipelines that write them.
Splitting == {"run", "split"}

\* A pipeline that has been alone since it started has written what it no longer has to write, and
\* nothing but such a pipeline makes up for a disturbance.
WholeInv ==
  /\ disturbed \in BOOLEAN
  /\ \A w \in Busy : job[w].alone => Busy = {w}
  /\ \A w \in Busy : ~ job[w].alone => disturbed
  /\ \A w \in Busy : job[w].kind \notin Splitting => Left(w) \cap SplitParts = {}
  /\ \A w \in Busy : job[w].alone /\ job[w].kind \in Splitting =>
       \A p \in SplitParts \ Left(w) : store[p] = job[w].id
  /\ ~ disturbed /\ (\A w \in Busy : job[w].kind \notin Splitting) =>
       \A p \in SplitNames : store[p] = store["lineage"]

LEMMA WholeInvInit == DataInit => WholeInv
<1> SUFFICES ASSUME DataInit PROVE WholeInv
  OBVIOUS
<1>1. Busy = {} /\ disturbed = FALSE
  BY DEF DataInit, Busy
<1>2. \A p \in SplitNames : store[p] = store["lineage"]
  BY DEF DataInit, SplitNames, Parts
<1> QED
  BY <1>1, <1>2 DEF WholeInv

LEMMA SplitPartsWritten ==
  ASSUME NEW kind \in Kinds
  PROVE  LET written == {Writes[kind][i] : i \in 1..Len(Writes[kind])} IN
         IF kind \in Splitting THEN SplitParts \subseteq written ELSE written \cap SplitParts = {}
<1> DEFINE todo == Writes[kind]
           written == {todo[i] : i \in 1..Len(todo)}
<1>1. kind \in {"run", "canonicalize", "build", "split"}
  BY DEF Kinds, Writes
<1>2. CASE kind = "run"
  <2>1. todo = <<"canonical", "audit">> \o <<"train", "validation", "test", "lineage">>
    BY <1>2 DEF Writes, SplitFiles
  <2>2. Len(todo) = 6
    BY <2>1
  <2>3. todo[3] = "train" /\ todo[4] = "validation"
    BY <2>1
  <2>4. todo[5] = "test" /\ todo[6] = "lineage"
    BY <2>1
  <2> HIDE DEF todo
  <2>5. {"train", "validation", "test", "lineage"} \subseteq written
    BY <2>2, <2>3, <2>4
  <2> QED
    BY <1>2, <2>5 DEF Splitting, SplitParts, SplitNames, todo
<1>3. CASE kind = "split"
  <2>1. todo = <<"train", "validation", "test", "lineage">>
    BY <1>3 DEF Writes, SplitFiles
  <2>2. Len(todo) = 4 /\ todo[1] = "train" /\ todo[2] = "validation" /\ todo[3] = "test" /\ todo[4] = "lineage"
    BY <2>1
  <2> HIDE DEF todo
  <2>3. {"train", "validation", "test", "lineage"} \subseteq written
    BY <2>2
  <2> QED
    BY <1>3, <2>3 DEF Splitting, SplitParts, SplitNames, todo
<1>4. CASE kind \in {"canonicalize", "build"}
  <2>1. \E part \in {"canonical", "audit"} : todo = <<part>>
    BY <1>4 DEF Writes
  <2> QED
    BY <1>4, <2>1 DEF Splitting, SplitParts, SplitNames
<1> QED
  BY <1>1, <1>2, <1>3, <1>4

\* A pipeline that ends leaves the others as they are; none of them has been alone.
LEMMA OthersNotAlone ==
  ASSUME StoreInv, WholeInv, NEW w \in Busy
  PROVE  \A u \in Busy \ {w} : ~ job[u].alone
BY DEF WholeInv

LEMMA WholeInvNext == StoreInv /\ WholeInv /\ [DataNext]_dataVars => WholeInv'
<1> SUFFICES ASSUME StoreInv, WholeInv, [DataNext]_dataVars PROVE WholeInv'
  OBVIOUS
<1>j. \A u \in Busy : job[u] \in Job
  BY DEF StoreInv, Busy
<1>d. disturbed \in BOOLEAN
  BY DEF WholeInv
<1>1. ASSUME NEW w \in Writers, NEW kind \in Kinds, StartJob(w, kind) PROVE WholeInv'
  <2>1. /\ w \notin Busy /\ UNCHANGED store /\ disturbed' = (disturbed \/ Busy # {})
        /\ job' = [u \in Writers |->
             IF u = w THEN [kind |-> kind, id |-> jobs + 1, input |-> Input(kind), todo |-> Writes[kind],
                            open |-> FALSE, alone |-> Busy = {}]
             ELSE IF u \in Busy THEN [job[u] EXCEPT !.alone = FALSE] ELSE job[u]]
    BY <1>1 DEF StartJob
  <2>2. \A u \in Busy : /\ u # w /\ job'[u].alone = FALSE /\ job'[u].kind = job[u].kind
                        /\ job'[u].todo = job[u].todo
    BY <1>j, <2>1 DEF Job, Busy
  <2>3. job'[w].kind = kind /\ job'[w].todo = Writes[kind] /\ job'[w].alone = (Busy = {})
    BY <2>1
  <2>4. Busy' = Busy \cup {w}
    <3>1. \A u \in Busy : job'[u] # NoJob
      BY <2>2 DEF NoJob
    <3>2. job'[w] # NoJob
      <4>1. kind # "none"
        BY DEF Kinds, Writes
      <4> QED
        BY <2>3, <4>1 DEF NoJob
    <3>3. \A u \in Writers \ (Busy \cup {w}) : job'[u] = NoJob
      BY <2>1 DEF Busy
    <3> QED
      BY <3>1, <3>2, <3>3 DEF Busy
  <2>5. /\ \A u \in Busy : Left(u)' = Left(u)
        /\ Left(w)' = {Writes[kind][i] : i \in 1..Len(Writes[kind])}
    BY <2>2, <2>3 DEF Left
  <2>6. (Busy # {} => disturbed') /\ (~ disturbed' => ~ disturbed /\ Busy = {}) /\ disturbed' \in BOOLEAN
    BY <1>d, <2>1
  <2>7. \A u \in Busy' : job'[u].alone => u = w /\ Busy = {}
    BY <2>2, <2>3, <2>4
  <2>8. \A u \in Busy' : job'[u].kind \notin Splitting => Left(u)' \cap SplitParts = {}
    BY <2>2, <2>3, <2>4, <2>5, SplitPartsWritten DEF WholeInv
  <2>9. \A u \in Busy' : job'[u].alone /\ job'[u].kind \in Splitting => SplitParts \ Left(u)' = {}
    BY <2>3, <2>5, <2>7, SplitPartsWritten
  <2>10. ~ disturbed' => \A p \in SplitNames : store'[p] = store'["lineage"]
    BY <2>1, <2>6 DEF WholeInv
  <2>11. \A u \in Busy' : job'[u].alone => Busy' = {u}
    BY <2>4, <2>7
  <2>12. \A u \in Busy' : ~ job'[u].alone => disturbed'
    BY <2>3, <2>4, <2>6
  <2> QED
    BY <2>6, <2>8, <2>9, <2>10, <2>11, <2>12 DEF WholeInv
\* The part that a pipeline is at.
<1>h. ASSUME NEW w \in Busy
      PROVE  LET todo == job[w].todo IN
             /\ todo \in Seq(Parts) /\ todo # <<>> /\ Head(todo) \in Left(w)
             /\ Left(w) = {Head(todo)} \cup {Tail(todo)[i] : i \in 1..Len(Tail(todo))}
  <2> DEFINE todo == job[w].todo
  <2>1. todo \in Seq(Parts) /\ todo # <<>>
    BY <1>j DEF Job, StoreInv
  <2>2. /\ Len(todo) \in Nat \ {0} /\ Head(todo) = todo[1] /\ Len(Tail(todo)) = Len(todo) - 1
        /\ \A i \in 1..Len(Tail(todo)) : Tail(todo)[i] = todo[i + 1]
    BY <2>1
  <2>3. \A i \in 1..Len(todo) : i = 1 \/ (i - 1 \in 1..Len(Tail(todo)) /\ todo[i] = Tail(todo)[i - 1])
    BY <2>2
  <2>4. \A i \in 1..Len(Tail(todo)) : i + 1 \in 1..Len(todo) /\ Tail(todo)[i] = todo[i + 1]
    BY <2>2
  <2>5. 1 \in 1..Len(todo)
    BY <2>2
  <2>6. Left(w) = {todo[i] : i \in 1..Len(todo)}
    BY DEF Left
  <2> HIDE DEF todo
  <2>7. Left(w) = {Head(todo)} \cup {Tail(todo)[i] : i \in 1..Len(Tail(todo))}
    <3>1. Left(w) \subseteq {Head(todo)} \cup {Tail(todo)[i] : i \in 1..Len(Tail(todo))}
      BY <2>2, <2>3, <2>6
    <3>2. {Head(todo)} \cup {Tail(todo)[i] : i \in 1..Len(Tail(todo))} \subseteq Left(w)
      BY <2>2, <2>4, <2>5, <2>6
    <3> QED
      BY <3>1, <3>2
  <2>8. Head(todo) \in Left(w)
    BY <2>2, <2>5, <2>6
  <2> QED
    BY <2>1, <2>7, <2>8 DEF todo
<1>2. ASSUME NEW w \in Writers, Clear(w) PROVE WholeInv'
  <2> DEFINE head == Head(job[w].todo)
  <2>1. /\ w \in Busy /\ UNCHANGED disturbed /\ job' = [job EXCEPT ![w].open = TRUE]
        /\ store' = [store EXCEPT ![head] = Absent]
    BY <1>2 DEF Clear
  <2>2. \A u \in Busy : /\ job'[u].kind = job[u].kind /\ job'[u].alone = job[u].alone
                        /\ job'[u].id = job[u].id /\ job'[u].todo = job[u].todo
    BY <1>j, <2>1 DEF StoreInv, Job, Busy
  <2>3. Busy' = Busy
    BY <1>j, <2>1 DEF Busy, StoreInv, NoJob, Job
  <2>4. \A u \in Busy : Left(u)' = Left(u)
    BY <2>2 DEF Left
  <2>5. head \in Left(w) /\ \A p \in Parts : p # head => store'[p] = store[p]
    BY <1>h, <2>1 DEF StoreInv
  <2>p. SplitParts \subseteq Parts
    BY DEF SplitParts, Parts
  <2> HIDE DEF head
  <2>6. \A u \in Busy : job[u].alone /\ job[u].kind \in Splitting =>
          \A p \in SplitParts \ Left(u) : store'[p] = job[u].id
    BY <2>1, <2>5, <2>p DEF WholeInv
  <2>7. ~ disturbed /\ (\A u \in Busy : job[u].kind \notin Splitting) =>
          \A p \in SplitNames : store'[p] = store'["lineage"]
    BY <2>1, <2>5, <2>p DEF WholeInv, SplitParts
  <2> QED
    BY <2>1, <2>2, <2>3, <2>4, <2>6, <2>7 DEF WholeInv
<1>3. ASSUME NEW w \in Writers, Commit(w) PROVE WholeInv'
  <2> DEFINE todo == job[w].todo
             head == Head(todo)
             last == Tail(todo) = <<>>
             next == IF last THEN NoJob ELSE [job[w] EXCEPT !.todo = Tail(todo), !.open = FALSE]
  <2>1. /\ w \in Busy /\ job' = [job EXCEPT ![w] = next]
        /\ store' = [store EXCEPT ![head] = job[w].id]
        /\ disturbed' = (disturbed /\ ~ (last /\ job[w].alone /\ job[w].kind \in Splitting))
    BY <1>3 DEF Commit, Rest, Busy, NoJob, Splitting
  <2>2. /\ head \in Left(w) /\ Left(w) = {head} \cup {Tail(todo)[i] : i \in 1..Len(Tail(todo))}
    BY <1>h, <2>1
  <2>3. head \in Parts
    BY <1>h, <2>1
  <2>4. \A p \in Parts : store'[p] = IF p = head THEN job[w].id ELSE store[p]
    BY <2>1, <2>3 DEF StoreInv
  <2>5. ~ last => /\ next.kind = job[w].kind /\ next.alone = job[w].alone /\ next.id = job[w].id
                  /\ next.todo = Tail(todo) /\ next # NoJob
    BY <1>j, <2>1 DEF Job, NoJob
  <2>6. last => next = NoJob
    OBVIOUS
  <2>p. SplitParts \subseteq Parts
    BY DEF SplitParts, Parts
  <2>7. \A u \in Writers : u # w => job'[u] = job[u]
    BY <2>1 DEF StoreInv
  <2>8. job'[w] = next
    BY <2>1 DEF StoreInv
  <2>9. \A u \in Busy : u # w => Left(u)' = Left(u)
    BY <2>7 DEF Left, Busy
  <2>10. last => Left(w) = {head}
    <3>1. ASSUME last PROVE {Tail(todo)[i] : i \in 1..Len(Tail(todo))} = {}
      <4>1. Len(<<>>) = 0
        OBVIOUS
      <4>2. Len(Tail(todo)) = 0
        BY <3>1, <4>1, Zenon
      <4> QED
        BY <4>2
    <3> QED
      BY <2>2, <3>1
  <2>11. ~ last => Left(w)' = {Tail(todo)[i] : i \in 1..Len(Tail(todo))}
    BY <2>5, <2>8 DEF Left
  <2>b. job[w].alone \in BOOLEAN
    BY <1>j, <2>1 DEF Job
  <2> HIDE DEF next, head
  <2>12. CASE last
    <3>1. Busy' = Busy \ {w}
      BY <2>1, <2>6, <2>7, <2>8, <2>12 DEF Busy
    <3>2. \A u \in Busy' : job'[u] = job[u] /\ ~ job[u].alone /\ Left(u)' = Left(u)
      BY <2>1, <2>7, <2>9, <3>1, OthersNotAlone DEF Busy
    <3>3. CASE job[w].alone /\ job[w].kind \in Splitting
      <4>1. Busy = {w} /\ Busy' = {} /\ disturbed' = FALSE
        BY <2>1, <2>12, <3>1, <3>3 DEF WholeInv
      <4>2. \A p \in SplitParts : store'[p] = job[w].id
        BY <2>1, <2>4, <2>10, <2>12, <2>p, <3>3 DEF WholeInv
      <4> QED
        BY <4>1, <4>2 DEF WholeInv, SplitParts
    <3>4. CASE ~ (job[w].alone /\ job[w].kind \in Splitting)
      <4>1. disturbed' = disturbed
        BY <1>d, <2>1, <3>4
      <4>2. ~ disturbed => job[w].kind \notin Splitting /\ head \notin SplitParts
        BY <2>1, <2>2, <3>4 DEF WholeInv
      <4>3. ~ disturbed /\ (\A u \in Busy' : job'[u].kind \notin Splitting) =>
              \A p \in SplitNames : store'[p] = store'["lineage"]
        <5> SUFFICES ASSUME ~ disturbed, \A u \in Busy' : job'[u].kind \notin Splitting
                     PROVE  \A p \in SplitNames : store'[p] = store'["lineage"]
          OBVIOUS
        <5>1. \A u \in Busy : job[u].kind \notin Splitting
          BY <3>1, <3>2, <4>2
        <5>2. \A p \in SplitParts : store'[p] = store[p]
          BY <2>4, <2>p, <4>2
        <5> QED
          BY <5>1, <5>2 DEF WholeInv, SplitParts
      <4>4. \A u \in Busy' : ~ job'[u].alone /\ disturbed
        BY <3>1, <3>2 DEF WholeInv
      <4>5. \A u \in Busy' : job'[u].kind \notin Splitting => Left(u)' \cap SplitParts = {}
        BY <3>1, <3>2 DEF WholeInv
      <4> QED
        BY <1>d, <4>1, <4>3, <4>4, <4>5 DEF WholeInv
    <3> QED
      BY <3>3, <3>4
  <2>13. CASE ~ last
    <3>1. Busy' = Busy
      BY <2>1, <2>5, <2>7, <2>8, <2>13 DEF Busy
    <3>2. /\ \A u \in Busy : job'[u].kind = job[u].kind /\ job'[u].alone = job[u].alone /\ job'[u].id = job[u].id
          /\ disturbed' = disturbed
      <4>1. \A u \in Busy : job'[u].kind = job[u].kind /\ job'[u].alone = job[u].alone /\ job'[u].id = job[u].id
        BY <2>5, <2>7, <2>8, <2>13 DEF Busy
      <4>2. disturbed' = disturbed
        BY <1>d, <2>1, <2>13
      <4> QED
        BY <4>1, <4>2
    <3>3. /\ \A u \in Busy : u # w => Left(u)' = Left(u)
          /\ Left(w)' \subseteq Left(w) /\ Left(w) = Left(w)' \cup {head}
      BY <2>2, <2>9, <2>11, <2>13
    <3>4. \A u \in Busy : job[u].kind \notin Splitting => Left(u)' \cap SplitParts = {}
      BY <2>1, <3>3 DEF WholeInv
    <3>5. \A u \in Busy : job[u].alone /\ job[u].kind \in Splitting =>
            \A p \in SplitParts \ Left(u)' : store'[p] = job[u].id
      <4> SUFFICES ASSUME NEW u \in Busy, job[u].alone, job[u].kind \in Splitting,
                          NEW p \in SplitParts \ Left(u)'
                   PROVE  store'[p] = job[u].id
        OBVIOUS
      <4>1. u = w
        BY <2>1 DEF WholeInv
      <4>2. p = head \/ p \notin Left(w)
        BY <3>3, <4>1
      <4> QED
        BY <2>4, <2>p, <4>1, <4>2 DEF WholeInv
    <3>6. ~ disturbed /\ (\A u \in Busy : job[u].kind \notin Splitting) =>
            \A p \in SplitNames : store'[p] = store'["lineage"]
      <4> SUFFICES ASSUME ~ disturbed, \A u \in Busy : job[u].kind \notin Splitting
                   PROVE  \A p \in SplitNames : store'[p] = store'["lineage"]
        OBVIOUS
      <4>1. head \notin SplitParts
        BY <2>1, <2>2 DEF WholeInv
      <4>2. \A p \in SplitParts : store'[p] = store[p]
        BY <2>4, <2>p, <4>1
      <4> QED
        BY <4>2 DEF WholeInv, SplitParts
    <3> QED
      BY <3>1, <3>2, <3>4, <3>5, <3>6 DEF WholeInv
  <2> QED
    BY <2>12, <2>13
<1>4. ASSUME NEW w \in Writers, LoseInput(w) \/ KillJob(w) PROVE WholeInv'
  <2>1. w \in Busy /\ job' = [job EXCEPT ![w] = NoJob] /\ disturbed' = TRUE
    BY <1>4 DEF LoseInput, KillJob, Busy, NoJob
  <2>2. Busy' = Busy \ {w} /\ \A u \in Busy' : job'[u] = job[u] /\ Left(u)' = Left(u)
    BY <2>1 DEF Busy, Left, StoreInv
  <2>3. \A u \in Busy' : ~ job'[u].alone
    BY <2>1, <2>2, OthersNotAlone
  <2>4. \A u \in Busy' : job'[u].kind \notin Splitting => Left(u)' \cap SplitParts = {}
    BY <2>2 DEF WholeInv
  <2> QED
    BY <2>1, <2>3, <2>4 DEF WholeInv
<1>5. CASE UNCHANGED <<store, job, disturbed>>
  BY <1>5 DEF WholeInv, Busy, Left
<1> QED
  BY <1>1, <1>2, <1>3, <1>4, <1>5
     DEF DataNext, dataVars, StartLoad, ListSplit, Summarize, ReadRanges, ListFiles, Approve, MatchManifest,
         ReadSplit, EndLoad, Quietly

(* The splits and lineage.json left by pipelines that neither overlapped nor  *)
(* died are of one job, however many pipelines of whatever kind there were.   *)
THEOREM SplitsWhole == DataSpec => []WholeUnlessDisturbed
<1>1. WholeInv => WholeUnlessDisturbed
  BY DEF WholeInv, WholeUnlessDisturbed
<1> QED
  BY <1>1, StoreInvInit, StoreInvNext, WholeInvInit, WholeInvNext, PTL DEF DataSpec

-------------------------------------------------------------------------------
(***************************************************************************)
(* The operators of DataPreparation, for rows of any number.  What follows *)
(* says nothing of a state: PublishedRowsSound, SplitsSound and            *)
(* SampleKeepsFrauds are claims about operators, which the runs evaluate   *)
(* in the initial states.                                                  *)
(***************************************************************************)
\* What holds of every initial state because it holds whatever the state is.
LEMMA RowsSound ==
  ASSUME NEW route \in DOMAIN Routes, NEW row \in Row, Publishes(route, row)
  PROVE  /\ row.label \in {"fraud", "legitimate"} /\ row.type = "known" /\ row.step = "plain" /\ ~ row.twin
         /\ row.amount \notin {"null", "nan", "negative"} /\ row.balance \notin {"null", "nan"}
         /\ row.balance = "negative" => route = "staged"
<1>1. /\ row.amount \in Measures /\ row.balance \in Measures
      /\ row.step \in {"null", "negative", "plain"}
      /\ row.label \in {"null", "other", "fraud", "legitimate"}
      /\ row.type \in {"null", "other", "known"}
  BY DEF Row
<1>2. route \in {"whole", "staged"}
  BY DEF Routes
<1>3. "raw" \in Routes[route] /\ "canonical" \in Routes[route] /\ "features" \in Routes[route]
  BY <1>2 DEF Routes
<1>4. route = "whole" => "domain" \in Routes[route]
  BY DEF Routes
<1>5. ~ RawRefuses(row) /\ ~ CanonicalRefuses(row) /\ ~ FeaturesRefuse(row)
  BY <1>3 DEF Publishes
<1>6. route = "whole" => ~ DomainRefuses(row)
  BY <1>4 DEF Publishes
<1>7. /\ row.label \in {"fraud", "legitimate"} /\ row.type = "known" /\ row.step = "plain" /\ ~ row.twin
  BY <1>1, <1>5 DEF RawRefuses, CanonicalRefuses
<1>8. row.amount \notin {"null", "nan", "negative"}
  BY <1>1, <1>5 DEF Measures, RawRefuses, FeaturesRefuse
<1>9. row.balance \notin {"null", "nan"}
  BY <1>1, <1>5 DEF Measures, FeaturesRefuse
<1>10. route = "whole" => row.balance # "negative"
  BY <1>6 DEF DomainRefuses
<1> QED
  BY <1>2, <1>7, <1>8, <1>9, <1>10

(* A row that reaches training passed every check of its route: validate_paysim,  *)
(* validate_canonical_data, validate_transaction_domain, validate_feature_values. *)
THEOREM RowsPublishedSound == DataSpec => []PublishedRowsSound
<1>1. PublishedRowsSound
  BY RowsSound DEF PublishedRowsSound
<1>2. PublishedRowsSound'
  BY <1>1, RowsSound DEF PublishedRowsSound
<1> QED
  BY <1>1, PTL

-------------------------------------------------------------------------------
(* Sampling.                                                                  *)

LEMMA LargerOf ==
  ASSUME NEW a \in Int, NEW b \in Int
  PROVE  Max({a, b}) = IF a >= b THEN a ELSE b
<1>1. \E x \in {a, b} : \A y \in {a, b} : x >= y
  OBVIOUS
<1>2. Max({a, b}) \in {a, b} /\ \A y \in {a, b} : Max({a, b}) >= y
  BY <1>1 DEF Max
<1> QED
  BY <1>2

LEMMA SubsetOfSize ==
  ASSUME NEW S, IsFiniteSet(S), NEW k \in Nat, k <= Cardinality(S)
  PROVE  kSubset(k, S) # {}
<1> DEFINE m == Cardinality(S)
<1>1. m \in Nat /\ ExistsBijection(1..m, S)
  BY FS_CardinalityType
<1>2. PICK f : f \in Bijection(1..m, S)
  BY <1>1 DEF ExistsBijection
<1>3. /\ f \in [1..m -> S]
      /\ \A i, j \in 1..m : f[i] = f[j] => i = j
  BY <1>2 DEF Bijection, Injection, IsInjective
<1> DEFINE chosen == {f[i] : i \in 1..k}
           g == [i \in 1..k |-> f[i]]
<1>4. 1..k \subseteq 1..m
  BY <1>1
<1>5. chosen \subseteq S
  BY <1>3, <1>4
<1>6. g \in [1..k -> chosen] /\ (\A i, j \in 1..k : g[i] = g[j] => i = j)
      /\ \A x \in chosen : \E i \in 1..k : g[i] = x
  BY <1>3, <1>4
<1> HIDE DEF g
<1>7. g \in Bijection(1..k, chosen)
  <2> HIDE DEF chosen
  <2> QED
    BY <1>6 DEF Bijection, Injection, Surjection, IsInjective
<1>8. Cardinality(chosen) = k
  <2>1. ExistsBijection(1..k, chosen)
    BY <1>7 DEF ExistsBijection
  <2> HIDE DEF chosen
  <2> QED
    BY <2>1, FS_CountingElements
<1>9. chosen \in kSubset(k, S)
  BY <1>5, <1>8 DEF kSubset
<1> QED
  BY <1>9

LEMMA SampleExists ==
  ASSUME NEW rows, IsFiniteSet(rows), NEW frauds \in SUBSET rows, NEW maxRows \in Nat
  PROVE  RetainFrauds(rows, frauds, maxRows) # {}
<1> DEFINE f == Cardinality(frauds)
           n == Cardinality(rows)
           limit == NegativeLimit(rows, frauds, maxRows)
<1>1. IsFiniteSet(frauds) /\ f \in Nat /\ n \in Nat /\ f <= n
  BY FS_Subset, FS_CardinalityType
<1>2. IsFiniteSet(rows \ frauds) /\ Cardinality(rows \ frauds) = n - f
  <2>1. rows \cap frauds = frauds
    OBVIOUS
  <2>2. /\ IsFiniteSet(rows \ frauds)
        /\ Cardinality(rows \ frauds) = Cardinality(rows) - Cardinality(rows \cap frauds)
    BY FS_Difference
  <2> QED
    BY <2>1, <2>2
<1>3. limit = IF maxRows >= f THEN maxRows - f ELSE 0
  <2>1. maxRows - f \in Int /\ 0 \in Int
    BY <1>1
  <2>2. limit = IF maxRows - f >= 0 THEN maxRows - f ELSE 0
    BY <2>1, LargerOf DEF NegativeLimit
  <2> QED
    BY <1>1, <2>2
<1>4. CASE n <= maxRows
  BY <1>4 DEF RetainFrauds
<1>5. CASE ~ (n <= maxRows)
  <2>1. limit \in Nat /\ limit <= Cardinality(rows \ frauds)
    BY <1>1, <1>2, <1>3, <1>5
  <2>2. kSubset(limit, rows \ frauds) # {}
    BY <1>2, <2>1, SubsetOfSize
  <2>3. PICK legitimate : legitimate \in kSubset(limit, rows \ frauds)
    BY <2>2
  <2>4. frauds \cup legitimate \in RetainFrauds(rows, frauds, maxRows)
    BY <1>5, <2>3 DEF RetainFrauds
  <2> QED
    BY <2>4
<1> QED
  BY <1>4, <1>5

LEMMA SampleKeeps ==
  ASSUME NEW rows, IsFiniteSet(rows), NEW frauds \in SUBSET rows, NEW maxRows \in Nat,
         NEW sample \in RetainFrauds(rows, frauds, maxRows)
  PROVE  /\ frauds \subseteq sample /\ sample \subseteq rows
         /\ Cardinality(sample) <= Max({maxRows, Cardinality(frauds)})
         /\ BothClasses(rows, frauds) /\ Cardinality(frauds) < maxRows => BothClasses(sample, frauds)
<1> DEFINE f == Cardinality(frauds)
<1>1. IsFiniteSet(frauds) /\ f \in Nat
  BY FS_Subset, FS_CardinalityType
<1>2. Max({maxRows, f}) = IF maxRows >= f THEN maxRows ELSE f
  BY <1>1, LargerOf
<1>3. CASE Cardinality(rows) <= maxRows
  <2>1. sample = rows
    BY <1>3 DEF RetainFrauds
  <2>2. Cardinality(rows) \in Nat
    BY FS_CardinalityType
  <2> QED
    BY <1>1, <1>2, <1>3, <2>1, <2>2
<1>4. CASE ~ (Cardinality(rows) <= maxRows)
  <2>1. PICK legitimate \in kSubset(NegativeLimit(rows, frauds, maxRows), rows \ frauds) :
          sample = frauds \cup legitimate
    BY <1>4 DEF RetainFrauds
  <2>2. legitimate \subseteq rows \ frauds /\ Cardinality(legitimate) = Max({maxRows - f, 0})
    BY <2>1 DEF kSubset, NegativeLimit
  <2>3. Max({maxRows - f, 0}) = IF maxRows >= f THEN maxRows - f ELSE 0
    BY <1>1, LargerOf
  <2>4. IsFiniteSet(legitimate)
    BY <2>2, FS_Subset
  <2>5. Cardinality(sample) = f + Cardinality(legitimate)
    <3>1. frauds \cap legitimate = {}
      BY <2>2
    <3>2. Cardinality(frauds \cap legitimate) = 0
      BY <3>1, FS_EmptySet
    <3>3. Cardinality(legitimate) \in Nat
      BY <2>4, FS_CardinalityType
    <3>4. Cardinality(frauds \cup legitimate) =
            Cardinality(frauds) + Cardinality(legitimate) - Cardinality(frauds \cap legitimate)
      BY <1>1, <2>4, FS_Union
    <3> QED
      BY <1>1, <2>1, <3>2, <3>3, <3>4
  <2>6. Cardinality(sample) <= Max({maxRows, f})
    BY <1>1, <1>2, <2>2, <2>3, <2>5
  <2>7. frauds \subseteq sample /\ sample \subseteq rows
    BY <2>1, <2>2
  <2>8. ASSUME BothClasses(rows, frauds), f < maxRows PROVE BothClasses(sample, frauds)
    <3>1. Cardinality(legitimate) # 0
      BY <1>1, <2>2, <2>3, <2>8
    <3>2. legitimate # {}
      BY <3>1, FS_EmptySet
    <3>3. frauds # {}
      BY <2>8 DEF BothClasses
    <3>4. sample \cap frauds = frauds /\ sample \ frauds = legitimate
      BY <2>1, <2>2
    <3> QED
      BY <3>2, <3>3, <3>4 DEF BothClasses
  <2> QED
    BY <2>6, <2>7, <2>8
<1> QED
  BY <1>3, <1>4

(* Whatever rows a dataset has: retain_all_positives_and_sample_negatives has a sample   *)
(* to make, and whichever legitimate rows the order of the hashes puts first, the sample *)
(* has every fraud, keeps to its cap and leaves both classes.                            *)
THEOREM SampleSound ==
  ASSUME NEW rows, IsFiniteSet(rows), NEW frauds \in SUBSET rows, NEW maxRows \in Nat
  PROVE  /\ RetainFrauds(rows, frauds, maxRows) # {}
         /\ \A sample \in RetainFrauds(rows, frauds, maxRows) :
              /\ frauds \subseteq sample /\ sample \subseteq rows
              /\ Cardinality(sample) <= Max({maxRows, Cardinality(frauds)})
              /\ BothClasses(rows, frauds) /\ Cardinality(frauds) < maxRows => BothClasses(sample, frauds)
<1>1. RetainFrauds(rows, frauds, maxRows) # {}
  BY SampleExists
<1>2. \A sample \in RetainFrauds(rows, frauds, maxRows) :
        /\ frauds \subseteq sample /\ sample \subseteq rows
        /\ Cardinality(sample) <= Max({maxRows, Cardinality(frauds)})
        /\ BothClasses(rows, frauds) /\ Cardinality(frauds) < maxRows => BothClasses(sample, frauds)
  BY SampleKeeps
<1> QED
  BY <1>1, <1>2

(* Negative sampling (retain_all_positives_and_sample_negatives) loses no fraud, keeps   *)
(* to its cap and leaves both classes, by SampleSound for datasets of every size.        *)
THEOREM FraudsKept == DataSpec => []SampleKeepsFrauds
<1>1. \A n \in 1..6 : \A frauds \in SUBSET (1..n), maxRows \in 1..6 :
        \A sample \in RetainFrauds(1..n, frauds, maxRows) :
          /\ frauds \subseteq sample
          /\ Cardinality(sample) <= Max({maxRows, Cardinality(frauds)})
          /\ BothClasses(1..n, frauds) /\ Cardinality(frauds) < maxRows => BothClasses(sample, frauds)
  <2> SUFFICES ASSUME NEW n \in 1..6, NEW frauds \in SUBSET (1..n), NEW maxRows \in 1..6,
                      NEW sample \in RetainFrauds(1..n, frauds, maxRows)
               PROVE  /\ frauds \subseteq sample
                      /\ Cardinality(sample) <= Max({maxRows, Cardinality(frauds)})
                      /\ BothClasses(1..n, frauds) /\ Cardinality(frauds) < maxRows
                           => BothClasses(sample, frauds)
    OBVIOUS
  <2> DEFINE rows == 1..n
  <2>1. IsFiniteSet(rows) /\ maxRows \in Nat /\ frauds \in SUBSET rows
    BY FS_Interval
  <2>2. sample \in RetainFrauds(rows, frauds, maxRows)
    OBVIOUS
  <2> HIDE DEF rows
  <2>3. /\ frauds \subseteq sample
        /\ Cardinality(sample) <= Max({maxRows, Cardinality(frauds)})
        /\ BothClasses(rows, frauds) /\ Cardinality(frauds) < maxRows => BothClasses(sample, frauds)
    BY <2>1, <2>2, SampleSound, Zenon
  <2> QED
    BY <2>3 DEF rows
<1>2. SampleKeepsFrauds /\ SampleKeepsFrauds'
  BY <1>1 DEF SampleKeepsFrauds
<1> QED
  BY <1>2, PTL

-------------------------------------------------------------------------------
(* The chronological split.  Row numbers are a ranking: they are 1 to n, each *)
(* of them once, and never run against the times.                             *)

\* The rows up to row i.
Upto(time, i) == {j \in DOMAIN time : time[j] < time[i] \/ (time[j] = time[i] /\ j <= i)}

LEMMA LeastNumber ==
  ASSUME NEW K \in SUBSET Nat, K # {}
  PROVE  \E m \in K : \A n \in K : m <= n
<1>1. PICK m \in K : \A n \in K : ~ (<<n, m>> \in OpToRel(<, Nat))
  BY NatLessThanWellFounded, WFMin
<1>2. \A n \in K : n < m => <<n, m>> \in OpToRel(<, Nat)
  BY DEF OpToRel
<1>3. \A n \in K : ~ (n < m)
  BY <1>1, <1>2
<1> QED
  BY <1>3

LEMMA RowsCounted ==
  ASSUME NEW time \in Seq(Int)
  PROVE  /\ Len(time) \in Nat /\ DOMAIN time = 1..Len(time)
         /\ IsFiniteSet(DOMAIN time) /\ Cardinality(DOMAIN time) = Len(time)
<1>1. Len(time) \in Nat /\ DOMAIN time = 1..Len(time)
  OBVIOUS
<1>2. IsFiniteSet(1..Len(time)) /\ Cardinality(1..Len(time)) = Len(time)
  BY <1>1, FS_Interval
<1> QED
  BY <1>1, <1>2

LEMMA RowNumberType ==
  ASSUME NEW time \in Seq(Int), NEW i \in DOMAIN time
  PROVE  RowNumber(time, i) \in 1..Len(time)
<1>1. IsFiniteSet(DOMAIN time) /\ Cardinality(DOMAIN time) = Len(time) /\ Len(time) \in Nat
  BY RowsCounted
<1>2. Upto(time, i) \in SUBSET DOMAIN time /\ i \in Upto(time, i)
  <2>1. i \in Int /\ time[i] \in Int
    OBVIOUS
  <2> QED
    BY <2>1 DEF Upto
<1>3. /\ IsFiniteSet(Upto(time, i))
      /\ Cardinality(Upto(time, i)) <= Len(time)
      /\ Cardinality(Upto(time, i)) \in Nat
  BY <1>1, <1>2, FS_Subset, FS_CardinalityType
<1>4. Cardinality(Upto(time, i)) # 0
  BY <1>2, <1>3, FS_EmptySet
<1>5. RowNumber(time, i) = Cardinality(Upto(time, i))
  BY DEF RowNumber, Upto
<1> QED
  BY <1>3, <1>4, <1>5

LEMMA RowNumberRises ==
  ASSUME NEW time \in Seq(Int), NEW i \in DOMAIN time, NEW j \in DOMAIN time, i # j,
         time[i] < time[j] \/ (time[i] = time[j] /\ i <= j)
  PROVE  RowNumber(time, i) < RowNumber(time, j)
<1>1. IsFiniteSet(DOMAIN time)
  BY RowsCounted
<1>2. \A k \in DOMAIN time : k \in Int /\ time[k] \in Int
  OBVIOUS
<1>3. Upto(time, i) \subseteq Upto(time, j)
  BY <1>2 DEF Upto
<1>4. j \in Upto(time, j) /\ j \notin Upto(time, i)
  BY <1>2 DEF Upto
<1>5. IsFiniteSet(Upto(time, j))
  BY <1>1, FS_Subset DEF Upto
<1>6. /\ IsFiniteSet(Upto(time, i))
      /\ Cardinality(Upto(time, i)) <= Cardinality(Upto(time, j))
      /\ Cardinality(Upto(time, i)) # Cardinality(Upto(time, j))
  BY <1>3, <1>4, <1>5, FS_Subset
<1>7. Cardinality(Upto(time, i)) \in Nat /\ Cardinality(Upto(time, j)) \in Nat
  BY <1>5, <1>6, FS_CardinalityType
<1>8. /\ RowNumber(time, i) = Cardinality(Upto(time, i))
      /\ RowNumber(time, j) = Cardinality(Upto(time, j))
  BY DEF RowNumber, Upto
<1> QED
  BY <1>6, <1>7, <1>8

LEMMA RowNumberOrders ==
  ASSUME NEW time \in Seq(Int), NEW i \in DOMAIN time, NEW j \in DOMAIN time
  PROVE  /\ RowNumber(time, i) <= RowNumber(time, j) => time[i] <= time[j]
         /\ RowNumber(time, i) = RowNumber(time, j) => i = j
<1>1. i \in Int /\ j \in Int /\ time[i] \in Int /\ time[j] \in Int
  OBVIOUS
<1>2. RowNumber(time, i) \in Int /\ RowNumber(time, j) \in Int
  BY RowNumberType
<1>3. CASE i = j
  BY <1>1, <1>3
<1>4. CASE i # j /\ (time[i] < time[j] \/ (time[i] = time[j] /\ i <= j))
  <2>1. RowNumber(time, i) < RowNumber(time, j)
    BY <1>4, RowNumberRises
  <2> QED
    BY <1>1, <1>2, <1>4, <2>1
<1>5. CASE i # j /\ (time[j] < time[i] \/ (time[j] = time[i] /\ j <= i))
  <2>1. RowNumber(time, j) < RowNumber(time, i)
    BY <1>5, RowNumberRises
  <2> QED
    BY <1>2, <2>1
<1> QED
  BY <1>1, <1>3, <1>4, <1>5

\* Every number is the number of a row.
LEMMA RowNumberOnto ==
  ASSUME NEW time \in Seq(Int), NEW k \in 1..Len(time)
  PROVE  \E i \in DOMAIN time : RowNumber(time, i) = k
<1> DEFINE rows == 1..Len(time)
           number == [i \in rows |-> RowNumber(time, i)]
<1>1. rows = DOMAIN time /\ Len(time) \in Nat
  OBVIOUS
<1>2. IsFiniteSet(rows)
  BY <1>1, FS_Interval
<1>3. k \in rows
  OBVIOUS
<1>4. number \in [rows -> rows]
  BY <1>1, RowNumberType
<1>5. \A i, j \in rows : number[i] = number[j] => i = j
  BY <1>1, RowNumberOrders
<1> HIDE DEF rows
<1>6. number \in Injection(rows, rows)
  <2> HIDE DEF number
  <2> QED
    BY <1>4, <1>5 DEF Injection, IsInjective
<1>7. number \in Surjection(rows, rows)
  BY <1>2, <1>6, FS_Injection
<1>8. PICK i \in rows : number[i] = k
  BY <1>3, <1>7 DEF Surjection
<1> QED
  BY <1>1, <1>8

\* The first and the last of some rows, in time.
LEMMA TimesBetween ==
  ASSUME NEW time \in Seq(Int), NEW rows \in SUBSET DOMAIN time, rows # {}
  PROVE  LET times == {time[i] : i \in rows}
         IN  /\ Max(times) \in times /\ \A x \in times : x <= Max(times)
             /\ Min(times) \in times /\ \A x \in times : Min(times) <= x
<1> DEFINE times   == {time[i] : i \in rows}
           n       == Len(time)
           numbers == {RowNumber(time, i) : i \in rows}
           places  == {n - RowNumber(time, i) : i \in rows}
<1>1. n \in Nat /\ \A i \in rows : RowNumber(time, i) \in 1..n /\ time[i] \in Int
  BY RowNumberType
<1>2. \E x \in times : \A y \in times : x >= y
  <2>1. places \in SUBSET Nat /\ places # {}
    BY <1>1
  <2> HIDE DEF places
  <2>2. PICK m \in places : \A k \in places : m <= k
    BY <2>1, LeastNumber
  <2>3. PICK i \in rows : m = n - RowNumber(time, i)
    BY DEF places
  <2>4. ASSUME NEW j \in rows PROVE time[i] >= time[j]
    <3>1. n - RowNumber(time, i) <= n - RowNumber(time, j)
      BY <2>2, <2>3 DEF places
    <3>2. RowNumber(time, j) <= RowNumber(time, i)
      BY <1>1, <3>1
    <3> QED
      BY <1>1, <3>2, RowNumberOrders
  <2> QED
    BY <2>4
<1>3. \E x \in times : \A y \in times : x =< y
  <2>1. numbers \in SUBSET Nat /\ numbers # {}
    BY <1>1
  <2> HIDE DEF numbers
  <2>2. PICK m \in numbers : \A k \in numbers : m <= k
    BY <2>1, LeastNumber
  <2>3. PICK i \in rows : m = RowNumber(time, i)
    BY DEF numbers
  <2>4. ASSUME NEW j \in rows PROVE time[i] =< time[j]
    <3>1. RowNumber(time, i) <= RowNumber(time, j)
      BY <2>2, <2>3 DEF numbers
    <3> QED
      BY <3>1, RowNumberOrders
  <2> QED
    BY <2>4
<1>4. times \subseteq Int
  BY <1>1
<1> HIDE DEF times
<1>5. Max(times) \in times /\ \A y \in times : Max(times) >= y
  BY <1>2 DEF Max
<1>6. Min(times) \in times /\ \A y \in times : Min(times) =< y
  BY <1>3 DEF Min
<1>7. /\ Max(times) \in times /\ \A x \in times : x <= Max(times)
      /\ Min(times) \in times /\ \A x \in times : Min(times) <= x
  BY <1>4, <1>5, <1>6
<1> QED
  BY <1>7 DEF times

\* What a split must be: three parts with rows, all rows, none twice, one part after the other in time.
Chronological(time, parts) ==
  /\ {} \notin {parts.train, parts.validation, parts.test}
  /\ parts.train \cup parts.validation \cup parts.test = DOMAIN time
  /\ parts.train \cap parts.validation = {}
  /\ parts.validation \cap parts.test = {}
  /\ parts.train \cap parts.test = {}
  /\ \A i \in parts.train, j \in parts.validation : time[i] <= time[j]
  /\ \A i \in parts.validation, j \in parts.test : time[i] <= time[j]

LEMMA ChronologicalValid ==
  ASSUME NEW time \in Seq(Int), NEW parts, Chronological(time, parts)
  PROVE  /\ parts.train \cup parts.validation \cup parts.test = DOMAIN time
         /\ SplitValid(time, parts)
<1> DEFINE t == parts.train
           v == parts.validation
           u == parts.test
           Times(rows) == {time[i] : i \in rows}
<1>1. /\ t # {} /\ v # {} /\ u # {} /\ t \cup v \cup u = DOMAIN time
      /\ t \cap v = {} /\ v \cap u = {} /\ t \cap u = {}
      /\ \A i \in t, j \in v : time[i] <= time[j]
      /\ \A i \in v, j \in u : time[i] <= time[j]
  BY DEF Chronological
<1> HIDE DEF t, v, u
<1>2. t \in SUBSET DOMAIN time /\ v \in SUBSET DOMAIN time /\ u \in SUBSET DOMAIN time
  BY <1>1
<1>3. IsFiniteSet(t) /\ IsFiniteSet(v) /\ IsFiniteSet(u)
  BY <1>2, RowsCounted, FS_Subset
<1>4. Cardinality(t) + Cardinality(v) + Cardinality(u) = Len(time)
  <2>1. /\ Cardinality(t) \in Nat /\ Cardinality(v) \in Nat /\ Cardinality(u) \in Nat
        /\ Cardinality({}) = 0
    BY <1>3, FS_CardinalityType, FS_EmptySet
  <2>2. /\ IsFiniteSet(t \cup v)
        /\ Cardinality(t \cup v) = Cardinality(t) + Cardinality(v) - Cardinality(t \cap v)
    BY <1>3, FS_Union
  <2>3. Cardinality((t \cup v) \cup u) =
          Cardinality(t \cup v) + Cardinality(u) - Cardinality((t \cup v) \cap u)
    BY <1>3, <2>2, FS_Union
  <2>4. (t \cup v) \cap u = {} /\ t \cap v = {} /\ (t \cup v) \cup u = DOMAIN time
    BY <1>1
  <2>5. Cardinality(DOMAIN time) = Len(time)
    BY RowsCounted
  <2>6. Cardinality(t \cap v) = 0 /\ Cardinality((t \cup v) \cap u) = 0
    BY <2>1, <2>4
  <2>7. Cardinality((t \cup v) \cup u) = Len(time)
    BY <2>4, <2>5
  <2> HIDE DEF Times
  <2> QED
    BY <2>1, <2>2, <2>3, <2>6, <2>7
<1>5. Max(Times(t)) <= Min(Times(v))
  <2>1. Max(Times(t)) \in Times(t) /\ Min(Times(v)) \in Times(v)
    BY <1>1, <1>2, TimesBetween
  <2> QED
    BY <1>1, <2>1
<1>6. Max(Times(v)) <= Min(Times(u))
  <2>1. Max(Times(v)) \in Times(v) /\ Min(Times(u)) \in Times(u)
    BY <1>1, <1>2, TimesBetween
  <2> QED
    BY <1>1, <2>1
<1> QED
  BY <1>1, <1>4, <1>5, <1>6 DEF SplitValid, t, v, u

\* int(n * ratio) of a positive ratio is a number of rows.
LEMMA CutCounts ==
  ASSUME NEW n \in Nat \ {0}, NEW percent \in Nat \ {0}, NEW a \in Cuts(n, percent)
  PROVE  a \in Nat /\ 100 * a <= n * percent
<1> DEFINE m == n * percent
           exact == m \div 100
<1>1. m \in Nat /\ m >= 1
  OBVIOUS
<1>2. a \in IF exact * 100 = m THEN {exact, exact - 1} ELSE {exact}
  BY DEF Cuts
<1> HIDE DEF m
<1>3. exact \in Nat /\ 100 * exact <= m
  BY <1>1
<1>4. exact * 100 = m => exact >= 1
  BY <1>1
<1> HIDE DEF exact
<1>5. a \in Nat /\ 100 * a <= m
  BY <1>1, <1>2, <1>3, <1>4
<1> QED
  BY <1>5 DEF m

LEMMA ByRowNumberSound ==
  ASSUME NEW time \in Seq(Int), NEW a \in Nat, NEW b \in Nat, a # 0, a < b, b < Len(time)
  PROVE  Chronological(time, ByRowNumber(time, a, b))
<1> DEFINE n == Len(time)
           parts == ByRowNumber(time, a, b)
<1>1. n \in Nat /\ \A i \in DOMAIN time : RowNumber(time, i) \in 1..n /\ time[i] \in Int
  BY RowNumberType
<1>2. /\ parts.train = {i \in DOMAIN time : RowNumber(time, i) <= a}
      /\ parts.validation = {i \in DOMAIN time : RowNumber(time, i) \in (a + 1)..b}
      /\ parts.test = {i \in DOMAIN time : RowNumber(time, i) > b}
  BY DEF ByRowNumber
<1>3. a \in 1..n /\ b \in 1..n /\ n \in 1..n
  BY <1>1
<1> HIDE DEF n, parts
<1>4. parts.train # {}
  <2>1. PICK i \in DOMAIN time : RowNumber(time, i) = a
    BY <1>3, RowNumberOnto DEF n
  <2> QED
    BY <1>2, <2>1
<1>5. parts.validation # {}
  <2>1. PICK i \in DOMAIN time : RowNumber(time, i) = b
    BY <1>3, RowNumberOnto DEF n
  <2> QED
    BY <1>2, <2>1
<1>6. parts.test # {}
  <2>1. PICK i \in DOMAIN time : RowNumber(time, i) = n
    BY <1>3, RowNumberOnto DEF n
  <2> QED
    BY <1>2, <2>1 DEF n
<1>7. parts.train \cup parts.validation \cup parts.test = DOMAIN time
  <2>1. ASSUME NEW i \in DOMAIN time
        PROVE  i \in parts.train \/ i \in parts.validation \/ i \in parts.test
    <3>1. RowNumber(time, i) \in Nat
      BY <1>1
    <3> QED
      BY <1>2, <3>1
  <2>2. /\ parts.train \subseteq DOMAIN time /\ parts.validation \subseteq DOMAIN time
        /\ parts.test \subseteq DOMAIN time
    BY <1>2
  <2> QED
    BY <2>1, <2>2
<1>8. /\ parts.train \cap parts.validation = {}
      /\ parts.validation \cap parts.test = {}
      /\ parts.train \cap parts.test = {}
  BY <1>1, <1>2
<1>9. \A i \in parts.train, j \in parts.validation : time[i] <= time[j]
  BY <1>1, <1>2, RowNumberOrders
<1>10. \A i \in parts.validation, j \in parts.test : time[i] <= time[j]
  BY <1>1, <1>2, RowNumberOrders
<1> QED
  BY <1>4, <1>5, <1>6, <1>7, <1>8, <1>9, <1>10 DEF Chronological, parts

LEMMA ExactSound ==
  ASSUME NEW time \in Seq(Int), time # <<>>, NEW train \in Nat \ {0}, NEW validation \in Nat \ {0},
         NEW parts \in Exact(time, train, validation), parts # Refused
  PROVE  Chronological(time, parts)
<1> DEFINE n == Len(time)
<1>1. n \in Nat \ {0}
  OBVIOUS
<1>2. PICK a \in Cuts(n, train), b \in Cuts(n, validation) :
        parts = IF EmptyPart(n, a, a + b) THEN Refused ELSE ByRowNumber(time, a, a + b)
  BY DEF Exact
<1> HIDE DEF n
<1>3. a \in Nat /\ b \in Nat
  BY <1>1, CutCounts
<1>4. ~ EmptyPart(n, a, a + b)
  BY <1>2
<1>5. a # 0 /\ a + b \in Nat /\ a < a + b /\ a + b < n
  BY <1>1, <1>3, <1>4 DEF EmptyPart
<1>6. parts = ByRowNumber(time, a, a + b)
  BY <1>2, <1>4
<1> QED
  BY <1>3, <1>5, <1>6, ByRowNumberSound DEF n

LEMMA ByTimeSound ==
  ASSUME NEW time \in Seq(Int), NEW low \in Int, NEW high \in Int, low < high,
         NEW parts, parts = ByTime(time, low, high), {} \notin {parts.train, parts.validation, parts.test}
  PROVE  Chronological(time, parts)
<1> DEFINE t == parts.train
           v == parts.validation
           u == parts.test
<1>1. \A i \in DOMAIN time : time[i] \in Int
  OBVIOUS
<1>2. /\ t = {i \in DOMAIN time : time[i] <= low}
      /\ v = {i \in DOMAIN time : time[i] > low /\ time[i] <= high}
      /\ u = {i \in DOMAIN time : time[i] > high}
  BY DEF ByTime
<1>3. t # {} /\ v # {} /\ u # {}
  OBVIOUS
<1> HIDE DEF t, v, u
<1>4. t \cup v \cup u = DOMAIN time
  <2>1. ASSUME NEW i \in DOMAIN time PROVE i \in t \/ i \in v \/ i \in u
    <3>1. time[i] \in Int
      BY <1>1
    <3> QED
      BY <1>2, <3>1
  <2>2. t \subseteq DOMAIN time /\ v \subseteq DOMAIN time /\ u \subseteq DOMAIN time
    BY <1>2, Zenon
  <2> QED
    BY <2>1, <2>2
<1>5. ASSUME NEW i \in t, NEW j \in v PROVE i # j /\ time[i] <= time[j]
  <2>1. /\ time[i] \in Int /\ time[i] <= low
        /\ time[j] \in Int /\ time[j] > low
    BY <1>1, <1>2
  <2> QED
    BY <2>1
<1>6. ASSUME NEW i \in v, NEW j \in u PROVE i # j /\ time[i] <= time[j]
  <2>1. /\ time[i] \in Int /\ time[i] <= high
        /\ time[j] \in Int /\ time[j] > high
    BY <1>1, <1>2
  <2> QED
    BY <2>1
<1>7. ASSUME NEW i \in t, NEW j \in u PROVE i # j
  <2>1. /\ time[i] \in Int /\ time[i] <= low
        /\ time[j] \in Int /\ time[j] > high
    BY <1>1, <1>2
  <2> QED
    BY <2>1
<1>8. t \cap v = {} /\ v \cap u = {} /\ t \cap u = {}
  BY <1>5, <1>6, <1>7, Zenon
<1> QED
  BY <1>3, <1>4, <1>5, <1>6, <1>8 DEF Chronological, t, v, u

\* The approximate quantiles are used when they leave rows in each part.
LEMMA TimeBoundaryMakes ==
  ASSUME NEW time \in Seq(Int), NEW train \in Nat, NEW validation \in Nat,
         NEW parts \in TimeBoundary(time, train, validation), parts \notin Exact(time, train, validation)
  PROVE  \E low \in {time[i] : i \in DOMAIN time}, high \in {time[i] : i \in DOMAIN time} :
           /\ low < high /\ parts = ByTime(time, low, high)
           /\ {} \notin {parts.train, parts.validation, parts.test}
<1> DEFINE exact == Exact(time, train, validation)
           times == {time[i] : i \in DOMAIN time}
           Cut(low, high) == LET made == ByTime(time, low, high) IN
             IF low >= high \/ {} \in {made.train, made.validation, made.test} THEN exact ELSE {made}
<1>1. TimeBoundary(time, train, validation) = UNION {Cut(low, high) : low, high \in times}
  BY DEF TimeBoundary
<1> HIDE DEF Cut
<1>2. PICK low \in times, high \in times : parts \in Cut(low, high)
  BY <1>1
<1>3. low \in Int /\ high \in Int
  BY DEF times
<1> USE DEF Cut
<1> HIDE DEF exact, times
<1>4. /\ ~ (low >= high) /\ parts = ByTime(time, low, high)
      /\ {} \notin {parts.train, parts.validation, parts.test}
  BY <1>2 DEF exact
<1>5. low < high
  BY <1>3, <1>4
<1> HIDE DEF Cut
<1>6. \E x \in times, y \in times :
        /\ x < y /\ parts = ByTime(time, x, y)
        /\ {} \notin {parts.train, parts.validation, parts.test}
  BY <1>2, <1>4, <1>5
<1> QED
  BY <1>6 DEF times

(* Whatever the number and the times of the rows, the ratios, the strategy and the    *)
(* quantiles that Spark approximates, a split made by split_chronologically has three *)
(* parts with rows, which share none, lose none and follow one another in time.       *)
THEOREM SplitSound ==
  ASSUME NEW time \in Seq(Int), time # <<>>, NEW train \in Nat \ {0}, NEW validation \in Nat \ {0},
         NEW parts \in Splits(time, train, validation), parts # Refused
  PROVE  Chronological(time, parts)
<1>2. CASE parts \in Exact(time, train, validation)
  BY <1>2, ExactSound
<1>3. CASE parts \notin Exact(time, train, validation)
  <2>1. parts \in TimeBoundary(time, train, validation)
    BY <1>3 DEF Splits
  <2>2. PICK low \in {time[i] : i \in DOMAIN time}, high \in {time[i] : i \in DOMAIN time} :
          /\ low < high /\ parts = ByTime(time, low, high)
          /\ {} \notin {parts.train, parts.validation, parts.test}
    BY <1>3, <2>1, TimeBoundaryMakes
  <2>3. low \in Int /\ high \in Int
    OBVIOUS
  <2> QED
    BY <2>2, <2>3, ByTimeSound
<1> QED
  BY <1>2, <1>3

\* Three parts with rows are not the answer to ratios that produce none.
LEMMA ChronologicalMade ==
  ASSUME NEW time, NEW parts, Chronological(time, parts)
  PROVE  parts # Refused
BY DEF Chronological, Refused

(* Seven rows, whatever their times, are enough for the configured 70/15/15, with *)
(* either strategy: "At least three rows are required" is not.                    *)
THEOREM SevenRowsEnough ==
  ASSUME NEW time \in Seq(Int), Len(time) >= 7
  PROVE  Refused \notin Splits(time, 70, 15)
<1> DEFINE n == Len(time)
<1>1. n \in Nat /\ n >= 7 /\ time # <<>>
  OBVIOUS
<1>2. Refused \notin Exact(time, 70, 15)
  <2> SUFFICES ASSUME NEW a \in Cuts(n, 70), NEW b \in Cuts(n, 15)
               PROVE  (IF EmptyPart(n, a, a + b) THEN Refused ELSE ByRowNumber(time, a, a + b)) # Refused
    BY DEF Exact
  <2> HIDE DEF n
  <2>1. a \in Nat /\ 100 * a <= 70 * n /\ b \in Nat /\ 100 * b <= 15 * n
    <3>1. n \in Nat \ {0} /\ 70 \in Nat \ {0} /\ 15 \in Nat \ {0}
      BY <1>1
    <3>2. a \in Nat /\ 100 * a <= n * 70
      BY <3>1, CutCounts
    <3>3. b \in Nat /\ 100 * b <= n * 15
      BY <3>1, CutCounts
    <3> QED
      BY <1>1, <3>2, <3>3
  <2>2. a # 0
    BY <1>1 DEF Cuts
  <2>3. b # 0
    BY <1>1 DEF Cuts
  <2>4. a + b \in Nat /\ a < a + b /\ a + b < n
    BY <1>1, <2>1, <2>3
  <2>5. ~ EmptyPart(n, a, a + b)
    BY <1>1, <2>1, <2>2, <2>4 DEF EmptyPart
  <2>6. Chronological(time, ByRowNumber(time, a, a + b))
    BY <2>1, <2>2, <2>4, ByRowNumberSound DEF n
  <2> QED
    BY <2>5, <2>6, ChronologicalMade
<1>3. ASSUME NEW parts \in Splits(time, 70, 15), parts = Refused PROVE FALSE
  <2>1. parts \notin Exact(time, 70, 15)
    BY <1>2, <1>3
  <2>2. parts \in TimeBoundary(time, 70, 15)
    BY <2>1 DEF Splits
  <2>3. {} \notin {parts.train, parts.validation, parts.test}
    BY <2>1, <2>2, TimeBoundaryMakes
  <2> QED
    BY <1>3, <2>3 DEF Refused
<1> QED
  BY <1>3

LEMMA SmallTimesSeq ==
  ASSUME NEW n \in Nat, NEW distinct \in Nat, NEW time \in SmallTimes(n, distinct)
  PROVE  time \in Seq(Int) /\ time # <<>>
<1>1. PICK k \in 1..n : time \in [1..k -> 1..distinct]
  BY DEF SmallTimes
<1>2. time \in [1..k -> Int] /\ k \in Nat
  BY <1>1
<1>3. time \in Seq(Int)
  BY <1>2, SeqDef
<1>4. 1 \in DOMAIN time
  BY <1>1
<1> QED
  BY <1>3, <1>4

LEMMA FirstOf ==
  ASSUME NEW m \in Nat, NEW time \in [1..m -> Int], NEW n \in 0..m
  PROVE  SubSeq(time, 1, n) \in Seq(Int) /\ Len(SubSeq(time, 1, n)) = n
<1>1. \A i \in 1..n : time[i] \in Int
  OBVIOUS
<1>2. n \in Int /\ 1 \in Int
  OBVIOUS
<1>3. /\ SubSeq(time, 1, n) \in Seq(Int)
      /\ Len(SubSeq(time, 1, n)) = IF 1 <= n THEN n - 1 + 1 ELSE 0
  BY <1>1, <1>2, SubSeqProperties
<1> QED
  BY <1>3

(* However rows with equal times lie at a boundary, the splits of                  *)
(* split_chronologically pass the pipeline's validate_split_datasets: SplitSound   *)
(* and SevenRowsEnough, of which SplitsSound takes small instances.                *)
THEOREM SplitsMadeSound == DataSpec => []SplitsSound
<1>1. ASSUME NEW time \in SmallTimes(5, 3), NEW ratio \in Percents,
             NEW parts \in Splits(time, ratio[1], ratio[2]) \ {Refused}
      PROVE  /\ parts.train \cup parts.validation \cup parts.test = DOMAIN time
             /\ SplitValid(time, parts)
  <2>1. ratio[1] \in Nat \ {0} /\ ratio[2] \in Nat \ {0}
    BY DEF Percents
  <2>2. time \in Seq(Int) /\ time # <<>>
    BY SmallTimesSeq
  <2>3. Chronological(time, parts)
    BY <2>1, <2>2, SplitSound
  <2> QED
    BY <2>2, <2>3, ChronologicalValid
<1>2. ASSUME NEW n \in 7..20,
             NEW time \in {[i \in 1..20 |-> 1], [i \in 1..20 |-> i], [i \in 1..20 |-> i \div 8]}
      PROVE  Refused \notin Splits(SubSeq(time, 1, n), 70, 15)
  <2>1. time \in [1..20 -> Int] /\ 20 \in Nat /\ n \in 0..20
    OBVIOUS
  <2>2. SubSeq(time, 1, n) \in Seq(Int) /\ Len(SubSeq(time, 1, n)) = n
    BY <2>1, FirstOf
  <2>3. Len(SubSeq(time, 1, n)) >= 7
    BY <2>2
  <2> QED
    BY <2>2, <2>3, SevenRowsEnough
<1>3. SplitsSound /\ SplitsSound'
  BY <1>1, <1>2 DEF SplitsSound
<1> QED
  BY <1>3, PTL

===============================================================================
