---------------------------- MODULE VersionStore ----------------------------
(***************************************************************************)
(* storage/version_store.py: versions.json and the Versions stores of one  *)
(* process.  An in-app restart opens a new store while background tasks    *)
(* still hold the Version objects of the old one; path_lock makes each     *)
(* read-merge-write of any of them one step.  A record maps the leaves of  *)
(* Version.to_dict() (options included) to values.                         *)
(***************************************************************************)
EXTENDS Naturals

CONSTANTS Stores,    \* Versions objects, in the order 1, 2, ... they are opened
          Ids, Fields, Values,
          Missing     \* the value of a leaf that is not there

VARIABLES onFile,    \* [readable, records] of versions.json
          folders,    \* ids whose game directory exists
          store,     \* last store opened: the one the pages use
          cached,    \* _data of each store
          loaded,    \* Version objects in _versions
          prepared,  \* Version objects bound by prepare(), not yet saved
          removing,  \* id whose directory _remove is deleting, under the lock
          promised,  \* history: the last value somebody saved into a leaf
          damaged    \* history: the file was lost while two stores had caches of it

storeVars == <<onFile, folders, store, cached, loaded, prepared, removing,
               promised, damaged>>

Leaves == Values \union {Missing}
Record == [Fields -> Leaves]
NoRecord == Missing
NoObject == Missing
Records == [Ids -> Record \union {NoRecord}]

\* current: to_dict() now; baseline: the snapshot; edited: history, the leaves
\* changed since the object was loaded or saved.
Object == [current: Record, baseline: Record, edited: SUBSET Fields]

Nothing == [f \in Fields |-> Missing]
NoSaver == "nobody"
NoPromise == [f \in Fields |-> NoSaver]

ASSUME StoreAssumption ==
    /\ Stores \subseteq Nat \ {0}
    /\ Missing \notin Ids /\ Missing \notin Record /\ Missing \notin Object
    /\ NoSaver \notin Leaves

Loaded(record) == [current |-> record, baseline |-> record, edited |-> {}]

StoreTypeOK ==
    /\ onFile \in [readable: BOOLEAN, records: Records]
    /\ folders \in SUBSET Ids
    /\ store \in Stores \union {0}
    /\ cached \in [Stores -> Records]
    /\ loaded \in [Stores -> [Ids -> Object \union {NoObject}]]
    /\ prepared \in [Stores -> [Ids -> Object \union {NoObject}]]
    /\ removing \in Ids \union {Missing}
    /\ promised \in [Ids -> [Fields -> Leaves \union {NoSaver}]]
    /\ damaged \in BOOLEAN

NoRecords == [id \in Ids |-> NoRecord]
NothingCached == [s \in Stores |-> NoRecords]
NothingLoaded == [s \in Stores |-> [id \in Ids |-> NoObject]]

StoreInit ==
    /\ onFile = [readable |-> TRUE, records |-> NoRecords]
    /\ folders = {}
    /\ store = 0
    /\ cached = NothingCached
    /\ loaded = NothingLoaded
    /\ prepared = NothingLoaded
    /\ removing = Missing
    /\ promised = [id \in Ids |-> NoPromise]
    /\ damaged = FALSE

-----------------------------------------------------------------------------
LockFree == removing = Missing

ObjectOf(record) == IF record = NoRecord THEN NoObject ELSE Loaded(record)

\* _load_file: a missing or unreadable file loads as empty, and what it had is
\* lost.  Older stores have the caches and objects given.
LoadFile(caches, objects) ==
    LET s == store + 1
        found == IF onFile.readable THEN onFile.records ELSE NoRecords
    IN  /\ s \in Stores
        /\ store' = s
        /\ cached' = [caches EXCEPT ![s] = found]
        /\ loaded' = [objects EXCEPT ![s] = [id \in Ids |-> ObjectOf(found[id])]]
        /\ promised' = IF onFile.readable THEN promised ELSE [id \in Ids |-> NoPromise]

OpenStore ==
    /\ LockFree
    /\ LoadFile(cached, loaded)
    /\ UNCHANGED <<onFile, folders, prepared, removing, damaged>>

\* A page or a task changes an attribute or an option of an object it holds;
\* a change that is taken back before the next save is no change.
EditLeaf(s, id, f, v) ==
    /\ loaded[s][id] # NoObject
    /\ f \notin loaded[s][id].edited
    /\ v # loaded[s][id].current[f]
    /\ loaded' = [loaded EXCEPT ![s][id].current[f] = v,
                                ![s][id].edited = @ \union {f}]
    /\ UNCHANGED <<onFile, folders, store, cached, prepared, removing, promised, damaged>>

\* An installer creates the directory and binds the version it will save.
PrepareVersion(id, record) ==
    /\ store # 0 /\ LockFree
    /\ onFile.records[id] = NoRecord /\ id \notin folders
    /\ folders' = folders \union {id}
    /\ prepared' = [prepared EXCEPT ![store][id] =
          [current |-> record, baseline |-> Nothing, edited |-> {f \in Fields : record[f] # Missing}]]
    /\ UNCHANGED <<onFile, store, cached, loaded, removing, promised, damaged>>

MergeChanges_Overwrites(current, baseline, persisted) == current
MergeChanges(current, baseline, persisted) ==
    [f \in Fields |-> IF current[f] # baseline[f] THEN current[f] ELSE persisted[f]]

\* What _save_version merges into: the file, or the cache of the store when
\* there is no readable file.
Base(s) == IF onFile.readable THEN onFile.records ELSE cached[s]

\* The record on file after a save of the object.
Saved(s, id, object) ==
    IF Base(s)[id] = NoRecord THEN object.current
    ELSE MergeChanges(object.current, object.baseline, Base(s)[id])

AfterSave(object) == Loaded(object.current)

WriteSaved(s, id, object) ==
    LET data == [Base(s) EXCEPT ![id] = Saved(s, id, object)]
    IN  /\ onFile' = [readable |-> TRUE, records |-> data]
        /\ cached' = [cached EXCEPT ![s] = data]
        /\ loaded' = [loaded EXCEPT ![s][id] = AfterSave(object)]
        /\ promised' = [promised EXCEPT ![id] =
              [f \in Fields |-> IF f \in object.edited THEN object.current[f] ELSE @[f]]]
        /\ UNCHANGED <<folders, store, removing, damaged>>

StillThere(s, id) == onFile.readable => onFile.records[id] # NoRecord

\* save() of an object whose record another store has removed raises.
SaveVersion(s, id) ==
    /\ LockFree
    /\ loaded[s][id] # NoObject
    /\ StillThere(s, id)
    /\ WriteSaved(s, id, loaded[s][id])
    /\ UNCHANGED prepared

\* The first save of a prepared version; an older object of the id is unbound.
SavePrepared(s, id) ==
    /\ LockFree
    /\ prepared[s][id] # NoObject
    /\ WriteSaved(s, id, prepared[s][id])
    /\ prepared' = [prepared EXCEPT ![s][id] = NoObject]

\* _remove: first the record ...
RemoveRecord(id) ==
    /\ store # 0 /\ LockFree
    /\ loaded[store][id] # NoObject
    /\ LET data == [Base(store) EXCEPT ![id] = NoRecord]
       IN  /\ onFile' = [readable |-> TRUE, records |-> data]
           /\ cached' = [cached EXCEPT ![store] = data]
    /\ loaded' = [loaded EXCEPT ![store][id] = NoObject]
    /\ promised' = [promised EXCEPT ![id] = NoPromise]
    /\ removing' = id
    /\ UNCHANGED <<folders, store, prepared, damaged>>

\* ... then the directory, which may fail or not be asked for.
RemoveDirectory ==
    /\ removing # Missing
    /\ folders' \in {folders, folders \ {removing}}
    /\ removing' = Missing
    /\ UNCHANGED <<onFile, store, cached, loaded, prepared, promised, damaged>>

\* The process dies, and with it what its stores hold in memory; the next one
\* opens a store of its own.
StoreCrash ==
    /\ store # 0
    /\ LoadFile(NothingCached, NothingLoaded)
    /\ prepared' = NothingLoaded
    /\ removing' = Missing
    /\ UNCHANGED <<onFile, folders, damaged>>

\* Something else than the launcher damages or deletes the file; a single
\* store has all of it in its cache.
DamageFile ==
    /\ LockFree /\ onFile.readable
    /\ onFile' = [onFile EXCEPT !.readable = FALSE]
    /\ damaged' = (damaged \/ store > 1)
    /\ promised' = IF store = 1 THEN promised ELSE [id \in Ids |-> NoPromise]
    /\ UNCHANGED <<folders, store, cached, loaded, prepared, removing>>

StoreNext ==
    \/ OpenStore
    \/ \E s \in Stores, id \in Ids :
          \/ \E f \in Fields, v \in Leaves : EditLeaf(s, id, f, v)
          \/ SaveVersion(s, id) \/ SavePrepared(s, id)
    \/ \E id \in Ids : RemoveRecord(id) \/ \E v \in Values : PrepareVersion(id, [f \in Fields |-> v])
    \/ RemoveDirectory \/ StoreCrash \/ DamageFile

StoreSpec == StoreInit /\ [][StoreNext]_storeVars

-----------------------------------------------------------------------------
\* What somebody saved into a leaf stays on file until somebody saves another
\* value there, removes the version or the file is damaged: saves of stale
\* objects never undo each other (_save_version, _merge_changes).
NoUpdateLost ==
    \A id \in Ids, f \in Fields :
        onFile.readable /\ onFile.records[id] # NoRecord /\ promised[id][f] # NoSaver
            => onFile.records[id][f] = promised[id][f]

\* A save never brings a version back that somebody has removed; only the
\* first save of a new one creates a record (_save_version).
NotResurrected ==
    [][\A id \in Ids :
          onFile.readable /\ onFile.records[id] = NoRecord /\ onFile'.records[id] # NoRecord
              => \E s \in Stores : prepared[s][id] # NoObject /\ prepared'[s][id] = NoObject]_storeVars

\* A listed version has its directory: a death or an error in the middle of a
\* removal leaves a directory without a record, never the reverse (_remove).
ListedHasDirectory ==
    \A id \in Ids :
        onFile.readable /\ onFile.records[id] # NoRecord => id \in folders \/ damaged

\* What versions.json says is what was saved, it is there, and what was
\* removed does not come back (_save_version, _remove).
RecordsAreTrue == [](NoUpdateLost /\ ListedHasDirectory) /\ NotResurrected
=============================================================================
