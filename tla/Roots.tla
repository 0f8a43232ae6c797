------------------------------- MODULE Roots -------------------------------
(* Stage 1 of scripts/shot_one.sh and the scripts it runs: every task is cut    *)
(* out of the corpus (slice_task_dataset.py), joined with its labels            *)
(* (merge_progress_labels.py), rid of the streams the model does not read       *)
(* (drop_video_streams.py), fingerprinted and checked for both arms             *)
(* (b1k_roots.py, train_b1k_rooted.py).  One step per file written; the script  *)
(* may die between any two, on a pod that stays or is replaced.                 *)
EXTENDS Labels, SequencesExt

CONSTANTS
    Corpora,        \* the corpora to explore
    Tasks,          \* TASKS, a sequence
    Files,          \* data files 1 .. Files
    Streams, Depth, \* the video features; those under --drop-prefix
    LabelOptions,   \* command lines of labels.py
    Args,           \* arm -> the flags of its trainer call and what its config has
    MaxStarts, MaxPods      \* bounds: runs of the script, pods

ASSUME RootsAssumption == /\ Files \in Nat /\ Depth \subseteq Streams
                          /\ Tasks \in Seq(STRING) /\ IsInjective(Tasks)
                          /\ MaxStarts \in Nat /\ MaxPods \in Nat

VARIABLES
    corpus,     \* /opt/behavior-data: the same wherever it is downloaded
    labels,     \* labels/<task>/labels.parquet, as last checked out
    slice,      \* /opt/tasks/<task>
    root,       \* /opt/merged/<task>
    fingerprint,\* RUN/data_fingerprint, on the volume
    pc, nth, file,          \* the script's place: step, task, data file
    dropped, remap,         \* merge: episodes dropped so far; compaction's renumbering
    used,       \* task -> the labels its root was joined with (history)
    trained,    \* the episodes the first accepted data held (history)
    starts, pods

disk == <<slice, root>>
place == <<pc, nth, file>>
local == <<dropped, remap>>
budget == <<starts, pods>>
roots == <<corpus, labels, slice, root, fingerprint, pc, nth, file, dropped, remap, used, trained, starts, pods>>

NoLabel == -1
NoInfo == [episodes |-> -1, frames |-> -1, progress |-> FALSE, streams |-> {}]
NoFilter == [out |-> -1]
NoFingerprint == <<>>
NoRoot == [data |-> [f \in 1 .. Files |-> <<>>], eps |-> <<>>, info |-> NoInfo, filter |-> NoFilter]
T == Tasks[nth]

Position(S, x) == Cardinality({y \in S : y < x})
Ascending(S) == [n \in 1 .. Cardinality(S) |-> CHOOSE x \in S : Position(S, x) = n - 1]
Chosen(s, S) == [n \in 1 .. Cardinality(S) |-> s[Ascending(S)[n]]]      \* s at the positions S
AllRows(r) == FlattenSeq(r.data)                \* data/*/*.parquet in file order
RowsBefore(r, f) == Len(FlattenSeq(SubSeq(r.data, 1, f - 1)))
EpisodesIn(rows) == {r.e : r \in Range(rows)}

\* [from, to) of episode e in the space of `index`.
IndexRange(rows, e) ==
    LET at == {r.i : r \in {x \in Range(rows) : x.e = e}} IN [from |-> Min(at), to |-> Max(at) + 1]
Entry(e, g, range) == [e |-> e, g |-> g, from |-> range.from, to |-> range.to]      \* of meta/episodes

Fails == pc' = "failed" /\ UNCHANGED <<nth, file>>
Goto(step) == pc' = step /\ file' = 1 /\ nth' = nth
NextFile == file' = file + 1 /\ UNCHANGED <<pc, nth>>
EachTask(again, after) ==
    /\ IF nth < Len(Tasks) THEN nth' = nth + 1 /\ pc' = again ELSE nth' = 1 /\ pc' = after
    /\ file' = 1

-----------------------------------------------------------------------------
(* slice_task_dataset.py *)

\* `[ -f progress_filter.json ] && continue`
AlreadyMerged ==
    /\ pc = "data" /\ root[T].filter # NoFilter /\ EachTask("data", "streams")
    /\ UNCHANGED <<corpus, labels, used, slice, root, fingerprint, local, trained, budget>>

SliceBegins ==
    /\ pc = "data" /\ root[T].filter = NoFilter
    /\ slice' = [slice EXCEPT ![T] = NoRoot]
    /\ IF EpisodesOf(corpus, T) = {} THEN Fails ELSE Goto("slice")
    /\ UNCHANGED <<corpus, labels, used, root, fingerprint, local, trained, budget>>

\* The task's rows of a data file, in order: an observation is <<episode, frame>>.
SourceRows(f) ==
    LET g == Ascending(EpisodesOf(corpus, T))
        Frames(e) == Chosen([t \in DOMAIN corpus[e].at |-> <<e, t - 1>>],
                            {t \in DOMAIN corpus[e].at : corpus[e].at[t] = f})
    IN FlattenSeq([n \in DOMAIN g |-> Frames(g[n])])

SlicedRows(f) ==
    [n \in DOMAIN SourceRows(f) |->
        LET o == SourceRows(f)[n] IN
        [obs |-> o, e |-> Position(EpisodesOf(corpus, T), o[1]), g |-> o[1], f |-> o[2],
         i |-> RowsBefore(slice[T], f) + n - 1, p |-> NoLabel]]

SliceFile ==
    /\ pc = "slice" /\ file <= Files
    /\ IF EpisodesIn(SlicedRows(file)) \cap EpisodesIn(AllRows(slice[T])) # {}
       THEN Fails /\ UNCHANGED slice        \* an episode in two files
       ELSE NextFile /\ slice' = [slice EXCEPT ![T].data[file] = SlicedRows(file)]
    /\ UNCHANGED <<corpus, labels, used, root, fingerprint, local, trained, budget>>

SlicedEpisodes ==
    LET g == Ascending(EpisodesOf(corpus, T))
    IN [n \in DOMAIN g |-> Entry(n - 1, g[n], IndexRange(AllRows(slice[T]), n - 1))]

SliceMeta ==
    /\ pc = "slice" /\ file > Files
    /\ IF \E m \in Range(SlicedEpisodes) : m.to - m.from # corpus[m.g].length
       THEN Fails /\ UNCHANGED slice
       ELSE Goto("slice info") /\ slice' = [slice EXCEPT ![T].eps = SlicedEpisodes]
    /\ UNCHANGED <<corpus, labels, used, root, fingerprint, local, trained, budget>>

SliceInfo ==
    /\ pc = "slice info" /\ Goto("merge")
    /\ slice' = [slice EXCEPT ![T].info =
           [episodes |-> Cardinality(EpisodesOf(corpus, T)), frames |-> Len(AllRows(slice[T])),
            progress |-> FALSE, streams |-> Streams]]
    /\ UNCHANGED <<corpus, labels, used, root, fingerprint, local, trained, budget>>

-----------------------------------------------------------------------------
(* merge_progress_labels.py --drop-unlabelled, after `rm -rf` *)

\* validate_labels: no key twice, nothing outside [0, 1].
ValidLabels(l) ==
    /\ \A x, y \in l : x.ep = y.ep /\ x.frame = y.frame => x = y
    /\ \A x \in l : x.progress \in 0 .. Scale

MergeBegins ==
    /\ pc = "merge"
    /\ root' = [root EXCEPT ![T] = NoRoot] /\ dropped' = {} /\ used' = [used EXCEPT ![T] = labels[T]]
    /\ IF labels[T] # NoLabels /\ ValidLabels(labels[T]) THEN Goto("join") ELSE Fails
    /\ UNCHANGED <<corpus, labels, slice, fingerprint, remap, trained, budget>>

\* Mutant: the renumbered episode_index of the slice, the default of --join-on.
LocalKey(row) == <<row.e, row.f>>

\* --join-on global_episode_index frame_index
JoinKey(row) == <<row.g, row.f>>

Joined(rows) ==
    [n \in DOMAIN rows |->
        LET found == {l \in labels[T] : <<l.ep, l.frame>> = JoinKey(rows[n])}
        IN [rows[n] EXCEPT !.p = IF found = {} THEN NoLabel ELSE (CHOOSE l \in found : TRUE).progress]]

MergeFile ==
    /\ pc = "join" /\ file <= Files
    /\ LET rows == Joined(slice[T].data[file])
           bad == {r.e : r \in {x \in Range(rows) : x.p = NoLabel}}
       IN /\ root' = [root EXCEPT ![T].data[file] = Chosen(rows, {n \in DOMAIN rows : rows[n].e \notin bad})]
          /\ dropped' = dropped \union bad
    /\ NextFile
    /\ UNCHANGED <<corpus, labels, used, slice, fingerprint, remap, trained, budget>>

\* patch_info: meta/ copied, then `progress` registered and the counts corrected.
MergeMeta ==
    /\ pc = "join" /\ file > Files /\ Goto("register")
    /\ root' = [root EXCEPT ![T].eps = slice[T].eps, ![T].info = slice[T].info]
    /\ UNCHANGED <<corpus, labels, used, slice, fingerprint, local, trained, budget>>

Register ==
    /\ pc = "register"
    /\ root' = [root EXCEPT ![T].info.progress = TRUE, ![T].info.episodes = @ - Cardinality(dropped),
                            ![T].info.frames = IF dropped = {} THEN @ ELSE Len(AllRows(root[T]))]
    /\ IF dropped = {} THEN Goto("filter") /\ UNCHANGED remap
       ELSE /\ Goto("compact")
            /\ LET kept == EpisodesIn(AllRows(root[T])) IN remap' = [e \in kept |-> Position(kept, e)]
    /\ UNCHANGED <<corpus, labels, used, slice, fingerprint, dropped, trained, budget>>

CompactFile ==
    /\ pc = "compact" /\ file <= Files /\ NextFile
    /\ LET rows == root[T].data[file] IN
       root' = [root EXCEPT ![T].data[file] =
           [n \in DOMAIN rows |-> [rows[n] EXCEPT !.e = remap[@], !.i = RowsBefore(root[T], file) + n - 1]]]
    /\ UNCHANGED <<corpus, labels, used, slice, fingerprint, local, trained, budget>>

\* Mutant: the pruned rows keep the frame ranges they had in the slice.
StaleRanges(eps, rows) ==
    LET kept == Chosen(eps, {n \in DOMAIN eps : eps[n].e \in DOMAIN remap})
    IN [n \in DOMAIN kept |-> [kept[n] EXCEPT !.e = remap[@]]]

\* meta/episodes pruned, renumbered, with the ranges of the compacted rows.
CompactedEpisodes(eps, rows) ==
    LET kept == Chosen(eps, {n \in DOMAIN eps : eps[n].e \in DOMAIN remap})
    IN [n \in DOMAIN kept |-> Entry(remap[kept[n].e], kept[n].g, IndexRange(rows, remap[kept[n].e]))]

CompactMeta ==
    /\ pc = "compact" /\ file > Files /\ Goto("compact info")
    /\ root' = [root EXCEPT ![T].eps = CompactedEpisodes(@, AllRows(root[T]))]
    /\ UNCHANGED <<corpus, labels, used, slice, fingerprint, local, trained, budget>>

CompactInfo ==
    /\ pc = "compact info" /\ Goto("filter")
    /\ root' = [root EXCEPT ![T].info.episodes = Cardinality(DOMAIN remap),
                            ![T].info.frames = Len(AllRows(root[T]))]
    /\ UNCHANGED <<corpus, labels, used, slice, fingerprint, local, trained, budget>>

\* meta/progress_filter.json, the last thing written; what verify finds is in an
\* exit status the script does not look at.
Filter ==
    LET in == AllRows(slice[T])  out == AllRows(root[T])  joined == Joined(in) IN
    [out |-> root[T].info.episodes, dropped |-> dropped, rowsIn |-> Len(in), rowsOut |-> Len(out),
     unlabelled |-> Cardinality({n \in DOMAIN joined : joined[n].p = NoLabel}), compacted |-> dropped # {},
     kept |-> IF dropped = {} THEN {} ELSE {<<r.g, r.e>> : r \in Range(out)}]

WriteFilter ==
    /\ pc = "filter" /\ EachTask("data", "streams")
    /\ root' = [root EXCEPT ![T].filter = Filter]
    /\ UNCHANGED <<corpus, labels, used, slice, fingerprint, local, trained, budget>>

-----------------------------------------------------------------------------
(* drop_video_streams.py, the streams check, the fingerprint, both arms *)

\* The streams leave info.json in one rename; their directories and the record
\* dropped_streams.json, written after it, are read by nothing.
DropStreams ==
    /\ pc = "streams"
    /\ LET keep == root[T].info.streams \ Depth IN
       IF keep = {} THEN Fails /\ UNCHANGED root
       ELSE EachTask("streams", "check streams") /\ root' = [root EXCEPT ![T].info.streams = keep]
    /\ UNCHANGED <<corpus, labels, used, slice, fingerprint, local, trained, budget>>

\* LeRobotDataset opens a root and decodes one of its rows.
Opens(r) ==
    /\ r.info.episodes = Len(r.eps) /\ AllRows(r) # <<>>
    /\ r.info.progress = (\A x \in Range(AllRows(r)) : x.p # NoLabel)

CheckStreams ==
    /\ pc = "check streams"
    /\ IF \A t \in Range(Tasks) : Opens(root[t]) /\ root[t].info.streams = Streams \ Depth
       THEN Goto("fingerprint") ELSE Fails
    /\ UNCHANGED <<corpus, labels, used, disk, fingerprint, local, trained, budget>>

\* sha256 of every progress_filter.json, in the order of the tasks.
FP == [n \in DOMAIN Tasks |-> root[Tasks[n]].filter]

Fingerprint ==
    /\ pc = "fingerprint"
    /\ IF fingerprint = NoFingerprint THEN fingerprint' = FP /\ Goto("arms")
       ELSE UNCHANGED fingerprint /\ IF fingerprint = FP THEN Goto("arms") ELSE Fails
    /\ UNCHANGED <<corpus, labels, used, disk, local, trained, budget>>

\* validate_roots(dataset_root, repo_ids, progress_key, protocol=True)
ValidRoots(key) ==
    /\ Tasks # <<>> /\ IsInjective(Tasks)
    /\ \A t \in Range(Tasks) :
          /\ root[t].info # NoInfo
          /\ key => root[t].info.progress
          /\ root[t].filter # NoFilter /\ root[t].filter.out = root[t].info.episodes

\* train_b1k_rooted.py --check-only prints CONFIG_OK
ConfigOk(a) ==
    /\ ~(a.resume /\ a.overwrite) /\ a.absolute
    /\ ValidRoots(a.key)
    /\ a.weight # Unmeasured => a.head
    /\ a.decay > a.warmup
    /\ ~(a.head /\ a.weight # 0 /\ ~a.key)
    /\ a.stats

EpisodesKept(t) == {r.obs[1] : r \in Range(AllRows(root[t]))}

CheckArms ==
    /\ pc = "arms"
    /\ IF \A arm \in DOMAIN Args : ConfigOk(Args[arm])
       THEN /\ Goto("train")
            /\ trained' = IF trained = <<>> THEN [n \in DOMAIN Tasks |-> EpisodesKept(Tasks[n])] ELSE trained
       ELSE Fails /\ UNCHANGED trained
    /\ UNCHANGED <<corpus, labels, used, disk, fingerprint, local, budget>>

-----------------------------------------------------------------------------
(* The script's life *)

Leaves(step) == pc' = step /\ nth' = 1 /\ file' = 1 /\ dropped' = {} /\ remap' = <<>>

\* Every start checks out origin/main, whose labels may be new, on a disk that may
\* hold roots joined with the old ones.
Start ==
    /\ pc \in {"off", "failed"} /\ starts < MaxStarts
    /\ Leaves("data") /\ starts' = starts + 1
    /\ \/ UNCHANGED labels
       \/ \E opts \in LabelOptions : labels' = LabelAll(corpus, Tasks, opts, labels)
    /\ UNCHANGED <<corpus, used, disk, fingerprint, trained, pods>>

\* The script dies; another start is left, or nothing would follow.
Dies ==
    /\ pc \notin {"off", "failed"} /\ starts < MaxStarts /\ Leaves("off")
    /\ UNCHANGED <<corpus, labels, used, disk, fingerprint, trained, budget>>

\* A new pod has an empty disk.
NewPod ==
    /\ pc \in {"off", "failed"} /\ starts < MaxStarts /\ pods < MaxPods /\ pods' = pods + 1
    /\ slice' = [t \in Range(Tasks) |-> NoRoot] /\ root' = [t \in Range(Tasks) |-> NoRoot]
    /\ used' = [t \in Range(Tasks) |-> NoLabels]
    /\ Leaves("off") /\ UNCHANGED <<corpus, labels, fingerprint, trained, starts>>

RootsInit ==
    /\ corpus \in Corpora
    /\ labels = [t \in Range(Tasks) |-> NoLabels] /\ used = labels
    /\ slice = [t \in Range(Tasks) |-> NoRoot] /\ root = slice
    /\ fingerprint = NoFingerprint /\ pc = "off" /\ nth = 1 /\ file = 1
    /\ dropped = {} /\ remap = <<>> /\ trained = <<>> /\ starts = 0 /\ pods = 1

Build ==
    \/ AlreadyMerged \/ SliceBegins \/ SliceFile \/ SliceMeta \/ SliceInfo
    \/ MergeBegins \/ MergeFile \/ MergeMeta \/ Register
    \/ CompactFile \/ CompactMeta \/ CompactInfo \/ WriteFilter
    \/ DropStreams \/ CheckStreams \/ Fingerprint \/ CheckArms
=============================================================================
