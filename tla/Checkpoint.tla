------------------------------ MODULE Checkpoint ------------------------------
(***************************************************************************)
(* The checkpoint file of a solve and the processes that write and read it *)
(* (src/src/solver/adapters/persist_checkpoint.c), over the storage of     *)
(* SolverStorage.  A process creates a storage, may load, runs, and saves  *)
(* at iteration boundaries; it may die at any point, and the next one has  *)
(* only the file.  A load may change the precision, not the configuration. *)
(***************************************************************************)
EXTENDS SolverStorage

CONSTANTS
    Configs,      \* what hash_config, the game and the tree hash tell apart
    Legacy,       \* the CFRCHKPT files an older program may have left
    MaxRestarts,  \* BOUND: processes after the first
    MaxSaves,     \* BOUND: saves
    MaxOps        \* BOUND: storage operations of the traversals

\* What a file holds of one infoset: values of some of the arrays.
FileValues == UNION {[arrays -> Values] : arrays \in SUBSET Arrays}

\* An older program wrote one record per infoset.
ASSUME CheckpointAssumption ==
    \A content \in Legacy :
        /\ content \in Seq([key : Keys, values : FileValues])
        /\ \A i, j \in DOMAIN content : content[i].key = content[j].key => i = j

VARIABLES
    config,   \* the configuration of the running process
    phase,    \* "created" until the run begins, then "running"
    io,       \* the save or load in progress and the entry it is at
    status,   \* what the last load of this process returned
    disk,     \* the file
    restarts, saves, ops

ioVars == <<config, phase, io, status, disk, restarts, saves, ops>>
cvars == <<storageVars, ioVars>>

NoIo == [op |-> "none", at |-> 0]
NoFile == [format |-> "none", whole |-> FALSE, config |-> "none", entries |-> <<>>,
           snapshot |-> <<>>]

\* An older program's file: values of the first arrays under flat shapes, no hashes.
LegacyFile(content) ==
    [format |-> "legacy", whole |-> TRUE, config |-> "none",
     entries |-> [i \in DOMAIN content |->
                    [key |-> content[i].key, shape |-> "flat", values |-> content[i].values]],
     snapshot |-> [k \in {content[i].key : i \in DOMAIN content} |->
                     content[CHOOSE i \in DOMAIN content : content[i].key = k].values]]

CInit ==
    /\ \E p \in Precisions : FreshStorage(p)
    /\ config \in Configs /\ phase = "created" /\ io = NoIo /\ status = "none"
    /\ disk \in {NoFile} \cup {LegacyFile(content) : content \in Legacy}
    /\ restarts = 0 /\ saves = 0 /\ ops = 0

Idle == io.op = "none"

(***************************************************************************)
(* checkpoint_save                                                         *)
(***************************************************************************)

\* fopen(path, "w+b") and the header: the file that was there is gone.
SaveOpen ==
    /\ phase = "running" /\ Idle /\ held = {} /\ saves < MaxSaves
    /\ disk' = [NoFile EXCEPT !.format = "v3", !.config = config]
    /\ io' = [op |-> "save", at |-> 1]
    /\ saves' = saves + 1
    /\ UNCHANGED <<storageVars, config, phase, status, restarts, ops>>

\* One record: the arrays values_const returns, each read a second time.  An
\* array whose span cannot be allocated passes for one that is absent.
SaveEntry ==
    /\ io.op = "save" /\ io.at \in Ids
    /\ \E lost \in SUBSET {w \in live : "read" \in Shortages /\ Compact /\ ~Has(io.at, w)} :
         LET present == live \ lost
         IN /\ ReadConst({<<io.at, w>> : w \in present})
            /\ disk' = [disk EXCEPT !.entries = Append(@,
                   [key |-> meta[io.at].key, shape |-> meta[io.at].shape,
                    values |-> [w \in present |-> IF Compact THEN Committed(io.at, w)
                                                            ELSE resident[w][io.at]]])]
    /\ io' = [io EXCEPT !.at = @ + 1]
    /\ UNCHANGED <<config, phase, status, restarts, saves, ops>>

\* Footer and checksum.
SaveClose ==
    /\ io.op = "save" /\ io.at = Len(meta) + 1
    /\ disk' = [disk EXCEPT !.whole = TRUE,
                  !.snapshot = [k \in {meta[id].key : id \in Ids} |->
                                  [w \in Arrays |-> Content(Find(k), w)]]]
    /\ io' = NoIo
    /\ UNCHANGED <<storageVars, config, phase, status, restarts, saves, ops>>

\* A write that fails or a value that is not finite: the file stays as it is.
SaveFails ==
    /\ io.op = "save"
    /\ io' = NoIo
    /\ UNCHANGED <<storageVars, config, phase, status, disk, restarts, saves, ops>>

(***************************************************************************)
(* checkpoint_load                                                         *)
(***************************************************************************)

\* What is checked before anything is applied.
AcceptTorn(d) == d.format # "none" /\ d.config \in {"none", config}   \* mutant: no footer
AcceptAnyConfig(d) == d.format # "none" /\ d.whole                    \* mutant: no hash
Accepted(d) ==
    /\ d.format # "none" /\ d.whole
    /\ d.format = "v3" => /\ d.config = config
                          /\ \A i \in DOMAIN d.entries : DOMAIN d.entries[i].values # {}

LoadRefused ==
    /\ phase = "created" /\ Idle /\ ~Accepted(disk)
    /\ status' = "failed"
    /\ UNCHANGED <<storageVars, config, phase, io, disk, restarts, saves, ops>>

LoadBegin ==
    /\ phase = "created" /\ Idle /\ Accepted(disk)
    /\ io' = [op |-> "resolve", at |-> 1]
    /\ UNCHANGED <<storageVars, config, phase, status, disk, restarts, saves, ops>>

Entry == disk.entries[io.at]

\* The load gives up; what it has applied stays.
LoadFails ==
    /\ io' = NoIo /\ status' = "failed"
    /\ UNCHANGED <<config, phase, disk, restarts, saves, ops>>

\* The entry's infoset is resolved and must have the entry's shape; before the
\* run only an earlier load of this same file can have created it.
ToValues ==
    /\ io' = [io EXCEPT !.op = "values"]
    /\ UNCHANGED <<config, phase, status, disk, restarts, saves, ops>>
LoadResolve ==
    /\ io.op = "resolve" /\ io.at \in DOMAIN disk.entries
    /\ \/ NewInfoset(Entry.key, Entry.shape) /\ ToValues
       \/ /\ KnownInfoset(Entry.key)
          /\ IF meta[Find(Entry.key)].shape = Entry.shape THEN ToValues ELSE LoadFails
       \/ ResolveFails(Entry.key) /\ LoadFails

\* The arrays in the file are written one after the other, each allocated on its
\* first use.
PutAll(id, arrays, allocated) ==
    LET Here(w, i) == w \in arrays /\ i = id
        Over(a, New(_)) == [w \in Arrays |-> [i \in Ids |->
                               IF Here(w, i) THEN New(w) ELSE a[w][i]]]
        Stored(w) == Entry.values[w]
    IN /\ live' = live \cup allocated
       /\ written' = Over(written, Stored)
       /\ IF Compact
          THEN /\ span' = Over(span, Stored)
               /\ dirty' = Over(dirty, LAMBDA w : TRUE)
               /\ resident' = Over(resident, LAMBDA w : Committed(id, w))
          ELSE /\ resident' = Over(resident, Stored)
               /\ UNCHANGED <<span, dirty>>
       /\ UNCHANGED <<precision, mapVars, held>>

LoadValues ==
    /\ io.op = "values"
    /\ LET present == DOMAIN Entry.values
           id == Find(Entry.key)
       IN \/ /\ PutAll(id, present, present)
             /\ io' = [op |-> "resolve", at |-> io.at + 1]
             /\ UNCHANGED <<config, phase, status, disk, restarts, saves, ops>>
          \/ \E w \in present :
               /\ LET before == {x \in present : x < w}
                  IN \/ NoArray(w) /\ PutAll(id, before, before)
                     \/ NoSpan(id, w) /\ PutAll(id, before, before \cup {w})
               /\ LoadFails

LoadEnd ==
    /\ io.op = "resolve" /\ io.at = Len(disk.entries) + 1
    /\ io' = NoIo /\ status' = "ok"
    /\ UNCHANGED <<storageVars, config, phase, disk, restarts, saves, ops>>

(***************************************************************************)
(* The process                                                             *)
(***************************************************************************)

\* pe_solver_run begins, whatever a load before it has returned.
StartRun ==
    /\ phase = "created" /\ Idle
    /\ phase' = "running"
    /\ UNCHANGED <<storageVars, config, io, status, disk, restarts, saves, ops>>

\* The traversal and the update batch.
Solve ==
    /\ phase = "running" /\ Idle
    /\ ops < MaxOps /\ ops' = ops + 1
    /\ \/ \E k \in Keys : Resolve(k, "game")
       \/ \E id \in Ids, w \in Arrays :
            \/ Access(id, w) \/ AccessFails(id, w) \/ ReadConst({<<id, w>>})
            \/ \E v \in NewValues : Write(id, w, v)
       \/ EndIteration
    /\ UNCHANGED <<config, phase, io, status, disk, restarts, saves>>

\* The process ends, at any point; another one is started, with a storage of
\* its own and perhaps another precision or another configuration.
Restart ==
    /\ restarts < MaxRestarts
    /\ restarts' = restarts + 1
    /\ precision' \in Precisions /\ config' \in Configs
    /\ slots' = EmptySlots(MinSlots) /\ meta' = <<>>
    /\ live' = {} /\ held' = {}
    /\ resident' = [w \in Arrays |-> <<>>] /\ span' = [w \in Arrays |-> <<>>]
    /\ dirty' = [w \in Arrays |-> <<>>]
    /\ written' = [w \in Arrays |-> <<>>]
    /\ phase' = "created" /\ io' = NoIo /\ status' = "none"
    /\ UNCHANGED <<disk, saves, ops>>

CNext == \/ Solve \/ SaveOpen \/ SaveEntry \/ SaveClose \/ SaveFails
         \/ LoadRefused \/ LoadBegin \/ LoadResolve \/ LoadValues \/ LoadEnd
         \/ StartRun \/ Restart

CSpec == CInit /\ [][CNext]_cvars

(***************************************************************************)
(* Properties                                                              *)
(***************************************************************************)

\* The file is one a program could have left, and a load is within it.
FileOK ==
    /\ disk = [format |-> disk.format, whole |-> disk.whole, config |-> disk.config,
               entries |-> disk.entries, snapshot |-> disk.snapshot]
    /\ disk.entries \in Seq([key : Keys, shape : Shapes, values : FileValues])
    /\ io \in [op : {"none", "save", "resolve", "values"}, at : Nat]
    /\ io.op = "values" => io.at \in DOMAIN disk.entries

\* The storage is well formed and so is the file.
CTypeOK ==
    /\ StorageTypeOK /\ FileOK
    /\ config \in Configs /\ phase \in {"created", "running"}
    /\ status \in {"none", "ok", "failed"}
    /\ disk.format \in {"none", "v3", "legacy"} /\ disk.whole \in BOOLEAN

Stored(k, w) == IF w \in DOMAIN disk.snapshot[k] THEN disk.snapshot[k][w] ELSE Zero

\* A solve that starts from a checkpoint starts from exactly what the storage
\* held when that checkpoint was saved, to the rounding of either precision:
\* whatever crash, failing save, other configuration or earlier process came
\* between, a file whose save did not end is never taken for one.
LoadIsExact ==
    (phase = "created" /\ status = "ok") =>
        /\ disk.whole /\ disk.config \in {"none", config}
        /\ {meta[id].key : id \in Ids} = DOMAIN disk.snapshot
        /\ \A id \in Ids, w \in Arrays :
              Content(id, w) = Stored(meta[id].key, w)

\* A load that fails leaves what it applied, and a run may begin over it from
\* iteration 0 (solver.c:2418-2421).  How far it got: the infosets are the first
\* of a whole file of this configuration, in the file's order, and all but the
\* last are complete, whatever retries failed at an earlier or a later entry.
FailedLoadIsPartOfTheFile ==
    (phase = "created" /\ status # "ok") =>
        \A id \in Ids, w \in Arrays :
            /\ disk.whole /\ disk.config \in {"none", config}
            /\ id \in DOMAIN disk.entries /\ meta[id].key = disk.entries[id].key
            /\ \/ Content(id, w) = Stored(meta[id].key, w)
               \/ id = Len(meta) /\ Content(id, w) = Zero

-------------------------------------------------------------------------------
\* The inductive invariant.

EntryValue(i, w) ==
    IF w \in DOMAIN disk.entries[i].values THEN disk.entries[i].values[w] ELSE Zero

\* What entry i says of array w is v; an array it leaves out was empty, unless
\* the memory to read it was missing.
Tells(i, w, v) ==
    IF w \in DOMAIN disk.entries[i].values THEN disk.entries[i].values[w] = v
                                            ELSE "read" \notin Shortages => v = Zero

\* A whole file has one entry for every infoset of the storage it was saved from.
FileInv ==
    /\ disk.format = "legacy" => disk.config = "none"
    /\ disk.whole =>
          /\ \A i, j \in DOMAIN disk.entries : disk.entries[i].key = disk.entries[j].key => i = j
          /\ DOMAIN disk.snapshot = {disk.entries[i].key : i \in DOMAIN disk.entries}
          /\ \A i \in DOMAIN disk.entries, w \in Arrays :
                Tells(i, w, Stored(disk.entries[i].key, w))

\* While a save is writing, the entries it has written tell what the storage holds.
SavingInv ==
    io.op = "save" =>
        /\ phase = "running" /\ ~disk.whole
        /\ io.at = Len(disk.entries) + 1 /\ io.at <= Len(meta) + 1
        /\ \A i \in DOMAIN disk.entries :
              /\ disk.entries[i].key = meta[i].key
              /\ \A w \in Arrays : Tells(i, w, Content(i, w))

\* Before the run, all that is in the storage comes from the file, and the
\* entries a load has passed are in it.
From(id, i) == meta[id].key = disk.entries[i].key
PartOf(id, i) ==
    From(id, i) /\ \A w \in Arrays : Content(id, w) \in {Zero, EntryValue(i, w)}
AllOf(id, i) == From(id, i) /\ \A w \in Arrays : Content(id, w) = EntryValue(i, w)
Applied(i) == \E id \in Ids : AllOf(id, i)
Loading == io.op \in {"resolve", "values"}
LoadingInv ==
    /\ Loading => phase = "created" /\ io.at \in 1..(Len(disk.entries) + 1)
    /\ phase = "created" =>
          /\ Loading \/ status = "ok" \/ Ids # {} => Accepted(disk)
          /\ \A id \in Ids : \E i \in DOMAIN disk.entries : PartOf(id, i)
          /\ \A i \in DOMAIN disk.entries :
                status = "ok" \/ (Loading /\ i < io.at) => Applied(i)
          /\ io.op = "values" => \E id \in Ids : From(id, io.at)

\* Before the run the infosets are the first of the file, in its order, and
\* only the last one may be incomplete.
OrderInv ==
    phase = "created" => \A id \in Ids :
        /\ id \in DOMAIN disk.entries /\ From(id, id)
        /\ id < Len(meta) => AllOf(id, id)

CInductive ==
    /\ CTypeOK /\ NoWriteIsLost /\ MapInv /\ LiveInv
    /\ FileInv /\ SavingInv /\ LoadingInv /\ OrderInv
==============================================================================
