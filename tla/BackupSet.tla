----------------------------- MODULE BackupSet -----------------------------
(***************************************************************************)
(* backup.py beside the runtime: backup_sqlite_set copies the pathway      *)
(* store and the attempt ledger one after the other and writes a manifest  *)
(* with their digests; restore_sqlite_backup puts one of the copies back.  *)
(* The operations guide asks for consistent copies and for the runtime to  *)
(* stay down until the restore is established: a backup starts when no     *)
(* operation is under way, and both databases are restored before the      *)
(* runtime is opened again.                                                *)
(***************************************************************************)
EXTENDS PathwayRuntime

CONSTANTS
  Destinations,  \* backup directories
  Torn,          \* the content of a file that is not an intact database
  StaleLogs      \* a process that was killed may leave a write-ahead log behind

\* None says that there is no copy.
ASSUME BackupAssumption ==
  /\ Torn # None
  /\ None \notin PathwayState \X (Attempts \cup {None}) \X (Attempts \cup {None})
  /\ None \notin [Attempts -> Rows \cup {NoRow}]

VARIABLES
  mode,      \* "run", or what the operator does while the runtime is down
  dest,      \* the directory the operator works with
  pending,   \* the databases still to be copied or put back
  files,     \* directory -> database -> its copy, or None
  manifest,  \* directory -> backup-manifest.json, or None
  known      \* the attempts dispatched in the history the databases are of

backupVars == <<mode, dest, pending, files, manifest, known>>
allVars    == <<vars, backupVars>>

Databases == {"store", "ledger"}

\* What a database holds now.
Content(db) == IF db = "store" THEN storeVars ELSE ledger

\* A manifest names the digest of each copy (the content stands for it) and the
\* time it was made, told here by the attempts dispatched in that history.
Manifest == [digest |-> files[dest], ran |-> known]

NoFiles == [db \in Databases |-> None]

BackupInit ==
  /\ Init
  /\ mode = "run"
  /\ dest = None
  /\ pending = {}
  /\ files = [t \in Destinations |-> NoFiles]
  /\ manifest = [t \in Destinations |-> None]
  /\ known = {}

Running ==
  /\ mode = "run"
  /\ Next
  /\ known' = known \cup {a \in Attempts : dispatched'[a] # dispatched[a]}
  /\ UNCHANGED <<mode, dest, pending, files, manifest>>

-----------------------------------------------------------------------------
(* backup_sqlite_set                                                        *)

StartBackup(t) ==
  /\ mode = "run"
  /\ \A p \in Procs : At(p, "idle")
  /\ mode' = "backup"
  /\ dest' = t
  /\ pending' = Databases
  /\ UNCHANGED <<vars, files, manifest, known>>

\* The call returned or raised: the runtime goes on.
EndBackup == mode' = "run" /\ dest' = None /\ pending' = {}

\* Mutant: a copy that is there already is kept, as if it were of this run.
CopyUnlessThere(db) ==
  /\ mode = "backup"
  /\ db \in pending
  /\ files' = [files EXCEPT ![dest][db] = IF @ = None THEN Content(db) ELSE @]
  /\ pending' = pending \ {db}
  /\ UNCHANGED <<vars, mode, dest, manifest, known>>

\* The copy is made through SQLite, so it holds what was committed, and passes
\* the integrity check; the caller chooses the order of the databases.
CopyDatabase(db) ==
  /\ mode = "backup"
  /\ db \in pending
  /\ files[dest][db] = None
  /\ files' = [files EXCEPT ![dest][db] = Content(db)]
  /\ pending' = pending \ {db}
  /\ UNCHANGED <<vars, mode, dest, manifest, known>>

\* BackupError: the copy exists already, or fails the integrity check and is
\* unlinked.  The copies made before it stay.
CopyRefused(db) ==
  /\ mode = "backup"
  /\ db \in pending
  /\ EndBackup
  /\ UNCHANGED <<vars, files, manifest, known>>

\* The process dies in the middle of a copy, or before the manifest is written.
BackupInterrupted ==
  /\ mode = "backup"
  /\ files' \in {files} \cup {[files EXCEPT ![dest][db] = Torn] : db \in {d \in pending : files[dest][d] = None}}
  /\ EndBackup
  /\ UNCHANGED <<vars, manifest, known>>

\* The manifest is written last.
WriteManifest ==
  /\ mode = "backup"
  /\ pending = {}
  /\ manifest' = [manifest EXCEPT ![dest] = Manifest]
  /\ EndBackup
  /\ UNCHANGED <<vars, files, known>>

\* A copy of a complete set is damaged in storage (the copies of others are of no
\* use); manifests are taken to stay readable.
Decay(t, db) ==
  /\ manifest[t] # None
  /\ files' = [files EXCEPT ![t][db] = Torn]
  /\ UNCHANGED <<vars, mode, dest, pending, manifest, known>>

-----------------------------------------------------------------------------
(* restore_sqlite_backup, called with replace for each artifact of a set    *)

\* The operator takes the runtime down, whatever it was doing, to restore a
\* set, or turns to another set (or to the same once more).
StartRestore(t) ==
  /\ mode \in {"run", "restore"}
  /\ manifest[t] # None
  /\ call' = [p \in Procs |-> Idle]
  /\ mode' = "restore"
  /\ dest' = t
  /\ pending' = Databases
  /\ UNCHANGED <<storeVars, ledger, worldVars, crashes, files, manifest, known>>

\* The digest and the integrity of the copy are checked before anything is
\* replaced; otherwise BackupError, and the database stays as it is.
Verified(db) == files[dest][db] = manifest[dest].digest[db] /\ files[dest][db] # Torn

\* temporary.replace(target)
Replace(db, content) ==
  IF db = "store"
  THEN pstate' = content[1] /\ bound' = content[2] /\ repaired' = content[3] /\ UNCHANGED ledger
  ELSE ledger' = content /\ UNCHANGED storeVars

\* The file is replaced; the write-ahead log a killed process left beside it is not,
\* and SQLite replays it when the database is next opened.
AfterRestore(db) == {files[dest][db]} \cup (IF StaleLogs THEN {Content(db)} ELSE {})

RestoreDatabase(db) ==
  /\ mode = "restore"
  /\ db \in pending
  /\ Verified(db)
  /\ \E content \in AfterRestore(db) : Replace(db, content)
  /\ pending' = pending \ {db}
  /\ UNCHANGED <<call, worldVars, crashes, mode, dest, files, manifest, known>>

\* Every database of the set is back: the runtime is opened.
Reopen ==
  /\ mode = "restore"
  /\ pending = {}
  /\ mode' = "run"
  /\ dest' = None
  /\ known' = manifest[dest].ran
  /\ UNCHANGED <<vars, pending, files, manifest>>

BackupNext ==
  \/ Running
  \/ \E t \in Destinations : StartBackup(t) \/ StartRestore(t) \/ \E db \in Databases : Decay(t, db)
  \/ \E db \in Databases : CopyDatabase(db) \/ CopyRefused(db) \/ RestoreDatabase(db)
  \/ BackupInterrupted \/ WriteManifest \/ Reopen

BackupSpec == BackupInit /\ [][BackupNext]_allVars

-----------------------------------------------------------------------------
\* "Unresolved attempts are restored without silent redispatch"
\* (docs/en/product-scope-architecture.md): an attempt that was dispatched in the
\* history of the databases, up to the backup they were restored from or since, is not
\* dispatched again, however backups and restores were interrupted, refused, repeated
\* or mixed.  It needs the copies of a set to be of one moment, which is what the
\* refusal of existing copies, the late manifest and the digests are for.
RestoredDispatchesOnce ==
  [][\A a \in known : dispatched'[a] = dispatched[a]]_allVars

=============================================================================
