------------------------------ MODULE BackupFiles ------------------------------
(***************************************************************************)
(* The files of a database backup set (api/internal/backup/service.go):   *)
(* how createDatabaseBackup publishes a dump, its checksum and its        *)
(* metadata, how DeleteBackup and ApplyRetention remove them, and what a  *)
(* killed process or a power loss leaves behind.  The operation lock      *)
(* (OperationLock) lets one of these operations run at a time.            *)
(*                                                                         *)
(* Each attempt to make a backup has a generation number, which stands    *)
(* for the contents of the three files it writes.  A file name is the     *)
(* second the attempt started in and a suffix.                            *)
(***************************************************************************)
EXTENDS Naturals, FiniteSets, Sequences

CONSTANTS MaxSecond,     \* bound: values of the clock
          MaxSuffix,     \* bound: names tried in one second
          MaxGen,        \* bound: backup attempts
          MaxCrashes,    \* bound: process deaths and power losses
          Keep,          \* retention_count
          Faults         \* "remove" and "rename" system calls that may fail

ASSUME FilesAssumption == /\ MaxSecond \in Nat \ {0} /\ MaxSuffix \in Nat /\ MaxGen \in Nat
                          /\ MaxCrashes \in Nat /\ Keep \in 1 .. 365
                          /\ Faults \subseteq {"remove", "rename"}

Kinds == {"dump", "sha256", "json"}
Ids   == (1 .. MaxSecond) \X (0 .. MaxSuffix)
Gens  == 1 .. MaxGen
Files == Ids \X Kinds
None  == 0

VARIABLES now,        \* the wall clock, which may be set back
          dir,        \* the database directory: the generation each file holds
          possible,   \* the directory states a power loss may leave
          partial,    \* the .partial files
          unflushed,  \* dumps whose contents are not yet fsynced
          torn,       \* dumps whose contents a power loss destroyed
          gen,        \* attempts so far; the last one is the one that runs
          id,         \* the file name of the attempt or deletion
          at,         \* where the operation is
          todo,       \* the files it is removing, in order
          promised,   \* sets reported as succeeded and not removed since
          crashes

vars == <<now, dir, possible, partial, unflushed, torn, gen, id, at, todo, promised, crashes>>

Empty == [f \in Files |-> None]
Listed(d, i) == \A k \in Kinds : d[<<i, k>>] # None
Inventory == {i \in Ids : Listed(dir, i)}

Steps == {"idle", "down", "dumping", "flushing", "checking", "checksum", "metadata",
          "pubsum", "pubmeta", "pubdump", "syncing", "retaining", "expiring",
          "reporting", "undoing", "deleting", "delsync"}

TypeOK ==
  /\ now \in 1 .. MaxSecond /\ gen \in 0 .. MaxGen /\ id \in Ids /\ at \in Steps
  /\ dir \in [Files -> Gens \cup {None}]
  /\ possible \subseteq [Files -> Gens \cup {None}]
  /\ partial \subseteq Files /\ unflushed \subseteq Gens /\ torn \subseteq Gens
  /\ todo \in Seq(Files) /\ promised \subseteq Ids \X Gens /\ crashes \in 0 .. MaxCrashes

Init ==
  /\ now = 1 /\ dir = Empty /\ possible = {Empty} /\ partial = {}
  /\ unflushed = {} /\ torn = {} /\ gen = 0 /\ id = <<1, 0>> /\ at = "idle" /\ todo = <<>>
  /\ promised = {} /\ crashes = 0

-----------------------------------------------------------------------------
\* A rename or unlink is visible at once and durable after a directory fsync.
Put(file, g) == /\ dir' = [dir EXCEPT ![file] = g]
                /\ possible' = possible \cup {dir'}

\* A mistake to catch: a partial file is removed as a part of the set.
FilesAndPartial(i) == <<<<i, "dump">>, <<i, "sha256">>, <<i, "json">>, <<i, "partial">>>>

FilesOf(i) == <<<<i, "dump">>, <<i, "sha256">>, <<i, "json">>>>

\* The clock runs, or is set.
Tick == /\ at = "idle" /\ now' \in 1 .. MaxSecond
        /\ UNCHANGED <<dir, possible, partial, unflushed, torn, gen, id, at, todo, promised, crashes>>

-----------------------------------------------------------------------------
(* createDatabaseBackup *)

\* uniqueBackupFilename looks for the dump only.
FreeName(i) == /\ i[1] = now /\ dir[<<i, "dump">>] = None
               /\ \A s \in 0 .. i[2] - 1 : dir[<<<<now, s>>, "dump">>] # None

\* CleanupPartials, Info and the choice of a name.
StartBackup ==
  /\ at = "idle" /\ gen < MaxGen
  /\ gen' = gen + 1 /\ partial' = {}
  /\ \E i \in Ids : FreeName(i) /\ id' = i
  /\ at' = "dumping"
  /\ UNCHANGED <<now, dir, possible, unflushed, torn, todo, promised, crashes>>

\* The deferred cleanup removes the three partial files.
Abort == /\ at' = "idle" /\ partial' = partial \ {<<id, k>> : k \in Kinds}

\* pg_dump writes the dump; when it fails the file may exist.
RunPgDump ==
  /\ at = "dumping"
  /\ \/ /\ partial' = partial \cup {<<id, "dump">>} /\ unflushed' = unflushed \cup {gen}
        /\ at' = "flushing"
     \/ Abort /\ UNCHANGED unflushed
  /\ UNCHANGED <<now, dir, possible, torn, gen, id, todo, promised, crashes>>

\* A mistake to catch: the dump is published without fsync.
FlushNothing ==
  /\ at = "flushing" /\ at' = "checking"
  /\ UNCHANGED <<now, dir, possible, partial, unflushed, torn, gen, id, todo, promised, crashes>>

FlushDump ==
  /\ at = "flushing"
  /\ \/ unflushed' = unflushed \ {gen} /\ at' = "checking" /\ UNCHANGED partial
     \/ Abort /\ UNCHANGED unflushed
  /\ UNCHANGED <<now, dir, possible, torn, gen, id, todo, promised, crashes>>

\* pg_restore --list and the checksum, then the two sidecars (written and fsynced).
CheckDump ==
  /\ at = "checking"
  /\ \/ at' = "checksum" /\ UNCHANGED partial
     \/ Abort
  /\ UNCHANGED <<now, dir, possible, unflushed, torn, gen, id, todo, promised, crashes>>

WriteSidecar(step, kind, next) ==
  /\ at = step
  /\ \/ <<id, kind>> \notin partial /\ partial' = partial \cup {<<id, kind>>} /\ at' = next
     \/ Abort
  /\ UNCHANGED <<now, dir, possible, unflushed, torn, gen, id, todo, promised, crashes>>

WriteChecksum == WriteSidecar("checksum", "sha256", "metadata")
WriteMetadata == WriteSidecar("metadata", "json", "pubsum")

\* A rename of a partial file; when it fails the files renamed before it are
\* removed again, in the order of "undo".
Publish(step, kind, next, undo) ==
  /\ at = step
  /\ \/ /\ Put(<<id, kind>>, gen) /\ partial' = partial \ {<<id, kind>>}
        /\ at' = next /\ UNCHANGED todo
     \/ /\ "rename" \in Faults /\ todo' = undo /\ at' = "undoing"
        /\ UNCHANGED <<dir, possible, partial>>
  /\ UNCHANGED <<now, unflushed, torn, gen, id, promised, crashes>>

\* The dump is published last.
PublishChecksum == Publish("pubsum", "sha256", "pubmeta", <<>>)
PublishMetadata == Publish("pubmeta", "json", "pubdump", <<<<id, "sha256">>>>)
PublishDump     == Publish("pubdump", "dump", "syncing", Tail(FilesOf(id)))

\* A mistake to catch: success is reported without a flush of the directory.
FlushDirectoryLater ==
  /\ at = "syncing" /\ at' \in {"retaining", "reporting"}
  /\ UNCHANGED <<now, dir, possible, partial, unflushed, torn, gen, id, todo, promised, crashes>>

FlushDirectory ==
  /\ at = "syncing"
  /\ \/ possible' = {dir} /\ at' \in {"retaining", "reporting"} /\ UNCHANGED todo
     \/ todo' = FilesOf(id) /\ at' = "undoing" /\ UNCHANGED possible
  /\ UNCHANGED <<now, dir, partial, unflushed, torn, gen, id, promised, crashes>>

FinishUndo ==
  /\ at = "undoing" /\ todo = <<>>
  /\ Abort
  /\ UNCHANGED <<now, dir, possible, unflushed, torn, gen, id, todo, promised, crashes>>

\* The job is saved as succeeded (retention warnings do not change that).
Report ==
  /\ at = "reporting"
  /\ promised' = promised \cup {<<id, gen>>}
  /\ at' = "idle"
  /\ UNCHANGED <<now, dir, possible, partial, unflushed, torn, gen, id, todo, crashes>>

-----------------------------------------------------------------------------
(* ApplyRetention: the inventory, newest CreatedAt first; the first Keep  *)
(* sets and the protected one stay.                                       *)
Newer(i, j) == \/ i[1] > j[1]
               \/ i[1] = j[1] /\ dir[<<i, "json">>] > dir[<<j, "json">>]

Rank(i) == Cardinality({j \in Inventory : Newer(j, i)})

\* A mistake to catch: the new set is not protected.
ExpiredUnprotected == {i \in Inventory : Rank(i) >= Keep}

Expired == {i \in Inventory : Rank(i) >= Keep /\ i # id}

Forget(sets) == promised' = {p \in promised : p[1] \notin sets}

NewestFirst(sets) == {order \in [1 .. Cardinality(sets) -> sets] :
                        \A m, n \in DOMAIN order : m < n => Newer(order[m], order[n])}

FilesOfAll(order) ==
  [n \in 1 .. 3 * Len(order) |-> FilesOf(order[(n + 2) \div 3])[((n - 1) % 3) + 1]]

\* ListBackups and the sets to expire, oldest last.
ListExpired ==
  /\ at = "retaining"
  /\ \E order \in NewestFirst(Expired) : todo' = FilesOfAll(order)
  /\ Forget(Expired)
  /\ at' = "expiring"
  /\ UNCHANGED <<now, dir, possible, partial, unflushed, torn, gen, id, crashes>>

FinishRetention ==
  /\ at = "expiring" /\ todo = <<>>
  /\ at' = "reporting"
  /\ UNCHANGED <<now, dir, possible, partial, unflushed, torn, gen, id, todo, promised, crashes>>

-----------------------------------------------------------------------------
(* DeleteBackup of a listed set: the dump first *)
StartDelete(i) ==
  /\ at = "idle" /\ Listed(dir, i)
  /\ todo' = FilesOf(i) /\ Forget({i})
  /\ at' = "deleting"
  /\ UNCHANGED <<now, dir, possible, partial, unflushed, torn, gen, id, crashes>>

FinishDelete ==
  /\ at = "deleting" /\ todo = <<>>
  /\ at' = "delsync"
  /\ UNCHANGED <<now, dir, possible, partial, unflushed, torn, gen, id, todo, promised, crashes>>

\* The directory is flushed, or the answer says it could not be.
FlushDelete ==
  /\ at = "delsync"
  /\ possible' \in {possible, {dir}}
  /\ at' = "idle"
  /\ UNCHANGED <<now, dir, partial, unflushed, torn, gen, id, todo, promised, crashes>>

\* A mistake to catch: DeleteBackup goes on after a failed removal.
RemoveRegardless ==
  /\ at \in {"undoing", "expiring", "deleting"} /\ todo # <<>>
  /\ todo' = Tail(todo)
  /\ \/ Put(Head(todo), None)
     \/ "remove" \in Faults /\ UNCHANGED <<dir, possible>>
  /\ UNCHANGED <<now, partial, unflushed, torn, gen, id, at, promised, crashes>>

\* One os.Remove.  A failure ends DeleteBackup; retention and undo go on.
RemoveNext ==
  /\ at \in {"undoing", "expiring", "deleting"} /\ todo # <<>>
  /\ \/ Put(Head(todo), None) /\ todo' = Tail(todo) /\ UNCHANGED at
     \/ /\ "remove" \in Faults
        /\ IF at = "deleting" THEN todo' = <<>> /\ at' = "idle"
                              ELSE todo' = Tail(todo) /\ UNCHANGED at
        /\ UNCHANGED <<dir, possible>>
  /\ UNCHANGED <<now, partial, unflushed, torn, gen, id, promised, crashes>>

-----------------------------------------------------------------------------
\* The process is killed, or the machine loses power.
Die ==
  /\ at # "down" /\ crashes < MaxCrashes /\ crashes' = crashes + 1
  /\ at' = "down" /\ todo' = <<>>
  /\ \/ UNCHANGED <<dir, possible, unflushed, torn>>
     \/ /\ dir' \in possible /\ possible' = {dir'}
        /\ torn' = torn \cup unflushed /\ unflushed' = {}
  /\ UNCHANGED <<now, partial, gen, id, promised>>

\* NewService: CleanupPartials.
Restart ==
  /\ at = "down" /\ at' = "idle" /\ partial' = {}
  /\ UNCHANGED <<now, dir, possible, unflushed, torn, gen, id, todo, promised, crashes>>

Next ==
  \/ Tick \/ StartBackup \/ RunPgDump \/ FlushDump \/ CheckDump
  \/ WriteChecksum \/ WriteMetadata
  \/ PublishChecksum \/ PublishMetadata \/ PublishDump
  \/ FlushDirectory \/ FinishUndo \/ Report
  \/ ListExpired \/ FinishRetention
  \/ \E i \in Ids : StartDelete(i)
  \/ FinishDelete \/ FlushDelete \/ RemoveNext
  \/ Die \/ Restart

Spec == Init /\ [][Next]_vars

-----------------------------------------------------------------------------
(* A set in the inventory is never a mixture of two attempts and never    *)
(* holds a dump whose contents were lost, at any moment and after any     *)
(* crash or power loss, also when a name is used twice ("Interrupted or   *)
(* invalid artifacts never appear in inventory"; service.go:294-313).     *)
ListedIsSound ==
  \A i \in Inventory :
    /\ \A k \in Kinds : dir[<<i, k>>] = dir[<<i, "dump">>]
    /\ dir[<<i, "dump">>] \notin torn

(* A backup job reported as succeeded has its whole set on disk, whatever *)
(* power loss follows, until the set itself is deleted or expired.        *)
SuccessIsDurable ==
  \A p \in promised : \A d \in possible :
    \A k \in Kinds : d[<<p[1], k>>] = p[2]

(* Retention removes only sets that Keep newer sets in the inventory      *)
(* outlive, and never the set that was just made (service.go:428-446).    *)
RetentionSparesNewest ==
  [][(at = "expiring" /\ dir' # dir) =>
       (\A i \in Inventory : Listed(dir', i) \/ (i # id /\ Rank(i) >= Keep))]_vars

TakesNoSidecarOfADump ==
  \A i \in Ids : dir'[<<i, "dump">>] # None =>
    \A k \in Kinds : dir'[<<i, k>>] = dir[<<i, k>>]

(* DeleteBackup leaves a set whose dump it could not remove complete, so  *)
(* that it stays in the inventory and can be deleted again                *)
(* (service.go:417-421).                                                  *)
DeleteIsOneSet == [][(at = "deleting" /\ at' # "down") => TakesNoSidecarOfADump]_vars
=============================================================================
