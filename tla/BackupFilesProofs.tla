-------------------------- MODULE BackupFilesProofs --------------------------
(***************************************************************************)
(* For any clock, names, attempts, deaths, power losses and faults: what   *)
(* the inventory lists is whole, and a reported success lasts.             *)
(***************************************************************************)
EXTENDS BackupFiles, FiniteSetTheorems, TLAPS

Making   == {"dumping", "flushing", "checking", "checksum", "metadata",
             "pubsum", "pubmeta", "pubdump"}
MadeSet  == {"retaining", "expiring", "reporting"}
Removing == {"undoing", "expiring", "deleting"}

(* A power loss can leave only what was in the directory, and no later     *)
(* generation than the last attempt's.                                     *)
OnDisk == /\ dir \in possible
          /\ \A d \in possible : \A f \in Files : d[f] <= gen
          /\ unflushed \subseteq 1 .. gen /\ torn \subseteq 1 .. gen

(* A directory lists only sets of one attempt, with flushed contents.      *)
Sound(d) ==
  \A i \in Ids : Listed(d, i) =>
    /\ \A k \in Kinds : d[<<i, k>>] = d[<<i, "dump">>]
    /\ d[<<i, "dump">>] \notin torn \cup unflushed

(* The dump of the running attempt is nowhere yet, and its contents are    *)
(* flushed before its sidecars are published.                              *)
Unpublished ==
  at \in Making => /\ gen \in Gens /\ gen \notin torn
                   /\ at # "flushing" => gen \notin unflushed
                   /\ dir[<<id, "dump">>] = None
                   /\ \A d \in possible : \A i \in Ids : d[<<i, "dump">>] # gen

Sidecars ==
  /\ at \in {"pubmeta", "pubdump"} => dir[<<id, "sha256">>] = gen
  /\ at = "pubdump" => dir[<<id, "json">>] = gen

(* A new set uses no promised name; once flushed, no power loss undoes it. *)
NameIsNew == at \in Making \cup {"syncing", "undoing"} => \A p \in promised : p[1] # id

Published ==
  /\ at \in {"syncing"} \cup MadeSet => gen \in Gens
  /\ at = "syncing" => \A k \in Kinds : dir[<<id, k>>] = gen
  /\ at \in MadeSet => \A d \in possible : \A k \in Kinds : d[<<id, k>>] = gen

(* What is removed belongs to no promised set, and not to the new one.     *)
RemovedIsFree ==
  /\ at \notin Removing => todo = <<>>
  /\ \A n \in DOMAIN todo : /\ \A p \in promised : p[1] # todo[n][1]
                            /\ at = "expiring" => todo[n][1] # id

(* DeleteBackup is past the dump only when the dump is gone.               *)
DumpGoesFirst ==
  at = "deleting" =>
    \/ todo = <<>>
    \/ \E i \in Ids : \/ todo = FilesOf(i)
                      \/ /\ dir[<<i, "dump">>] = None
                         /\ todo \in {<<<<i, "sha256">>, <<i, "json">>>>, <<<<i, "json">>>>}

SetsInv == /\ TypeOK /\ OnDisk /\ (\A d \in possible : Sound(d))
           /\ Unpublished /\ Sidecars /\ NameIsNew /\ Published
           /\ RemovedIsFree /\ DumpGoesFirst /\ SuccessIsDurable

(* The files of the ordered sets are files of these sets.                  *)
LEMMA OrderedFiles ==
  ASSUME NEW sets \in SUBSET Ids, NEW order \in NewestFirst(sets)
  PROVE  /\ FilesOfAll(order) \in Seq(Files)
         /\ \A n \in DOMAIN FilesOfAll(order) : FilesOfAll(order)[n][1] \in sets
<1> DEFINE c == Cardinality(sets)
<1>0. c \in Nat
  <2>1. IsFiniteSet(1 .. MaxSecond) /\ IsFiniteSet(0 .. MaxSuffix)
    BY FilesAssumption, FS_Interval
  <2>2. IsFiniteSet(Ids)
    BY <2>1, FS_Product DEF Ids
  <2> QED BY <2>2, FS_Subset, FS_CardinalityType
<1>1. order \in [1 .. c -> sets] /\ Len(order) = c
  BY <1>0 DEF NewestFirst
<1>2. \A n \in 1 .. 3 * c : (n + 2) \div 3 \in 1 .. c /\ ((n - 1) % 3) + 1 \in 1 .. 3
  BY <1>0
<1> DEFINE file(n) == FilesOf(order[(n + 2) \div 3])[((n - 1) % 3) + 1]
<1>3. ASSUME NEW n \in 1 .. 3 * c
      PROVE  file(n) \in Files /\ file(n)[1] \in sets
  <2> DEFINE i == order[(n + 2) \div 3]
             m == ((n - 1) % 3) + 1
  <2>1. i \in sets /\ m \in 1 .. 3
    BY <1>1, <1>2
  <2>2. file(n) = FilesOf(i)[m]
    OBVIOUS
  <2> HIDE DEF i, m, file
  <2>3. FilesOf(i)[m] \in Files /\ FilesOf(i)[m][1] = i
    BY <2>1 DEF FilesOf, Files, Kinds
  <2> QED BY <2>1, <2>2, <2>3
<1>4. 3 * c \in Nat /\ FilesOfAll(order) = [n \in 1 .. 3 * c |-> file(n)]
  BY <1>0, <1>1 DEF FilesOfAll
<1> HIDE DEF c, file
<1>5. [n \in 1 .. 3 * c |-> file(n)] \in Seq(Files)
  BY <1>3, <1>4
<1> QED BY <1>3, <1>4, <1>5

-----------------------------------------------------------------------------
(* A step that writes no file keeps everything about the files.            *)
LEMMA Untouched ==
  ASSUME SetsInv, UNCHANGED <<dir, torn, promised>>, gen' \in gen .. MaxGen,
         dir \in possible', possible' \subseteq possible,
         unflushed' \subseteq unflushed
  PROVE  /\ OnDisk' /\ (\A d \in possible : Sound(d))'
         /\ SuccessIsDurable'
<1>1. gen \in 0 .. MaxGen /\ MaxGen \in Nat /\ possible \subseteq [Files -> Nat]
  BY FilesAssumption DEF SetsInv, TypeOK, Gens, None
<1>2. OnDisk'
  BY <1>1 DEF SetsInv, OnDisk
<1>3. (\A d \in possible : Sound(d))'
  BY DEF SetsInv, Sound
<1>4. SuccessIsDurable'
  BY DEF SetsInv, SuccessIsDurable
<1> QED BY <1>2, <1>3, <1>4

LEMMA StartFiles == SetsInv /\ StartBackup => SetsInv'
<1> SUFFICES ASSUME SetsInv, StartBackup PROVE SetsInv'
  OBVIOUS
<1>1. /\ gen' = gen + 1 /\ gen' \in 1 .. MaxGen /\ at' = "dumping" /\ at = "idle" /\ id' \in Ids
      /\ UNCHANGED <<now, dir, possible, unflushed, torn, todo, promised, crashes>>
      /\ dir[<<id', "dump">>] = None /\ partial' = {} /\ gen \in Nat
  BY FilesAssumption DEF StartBackup, FreeName, SetsInv, TypeOK
<1>2. OnDisk' /\ (\A d \in possible : Sound(d))' /\ SuccessIsDurable'
  BY <1>1, Untouched DEF SetsInv, OnDisk
<1>3. TypeOK'
  BY <1>1 DEF SetsInv, TypeOK, Steps
<1>4. Unpublished'
  <2>1. gen' \notin torn /\ gen' \notin unflushed
    BY <1>1 DEF SetsInv, OnDisk
  <2>2. \A d \in possible : \A i \in Ids : d[<<i, "dump">>] # gen'
    BY <1>1 DEF SetsInv, OnDisk, Files, Kinds, TypeOK, Gens, None
  <2> QED BY <1>1, <2>1, <2>2 DEF Unpublished, Gens
<1>5. NameIsNew'
  <2> SUFFICES ASSUME NEW p \in promised PROVE p[1] # id'
    BY <1>1 DEF NameIsNew
  <2>1. p \in Ids \X Gens
    BY DEF SetsInv, TypeOK
  <2>2. dir[<<p[1], "dump">>] = p[2] /\ p[2] \in Gens
    BY <2>1 DEF SetsInv, SuccessIsDurable, OnDisk, Kinds
  <2> QED BY <1>1, <2>2 DEF Gens, None
<1>6. Sidecars' /\ Published' /\ RemovedIsFree' /\ DumpGoesFirst'
  BY <1>1 DEF SetsInv, Sidecars, Published, MadeSet, RemovedIsFree, Removing, DumpGoesFirst
<1> QED BY <1>2, <1>3, <1>4, <1>5, <1>6 DEF SetsInv

(* The steps of an attempt before its first rename.                        *)
LEMMA MakeFiles ==
  SetsInv /\ (RunPgDump \/ FlushDump \/ CheckDump \/ WriteChecksum \/ WriteMetadata) => SetsInv'
<1> SUFFICES ASSUME SetsInv, RunPgDump \/ FlushDump \/ CheckDump \/ WriteChecksum \/ WriteMetadata
             PROVE  SetsInv'
  OBVIOUS
<1>1. /\ UNCHANGED <<now, dir, possible, torn, gen, id, todo, promised, crashes>>
      /\ at \in Making /\ at \notin {"pubsum", "pubmeta", "pubdump"}
      /\ at' \in {"idle"} \cup (Making \ {"dumping", "pubmeta", "pubdump"})
      /\ partial' \subseteq partial \cup {<<id, k>> : k \in Kinds}
      /\ \/ unflushed' \subseteq unflushed /\ (at = "flushing" => gen \notin unflushed' \/ at' = "idle")
            /\ at' # "flushing"
         \/ unflushed' = unflushed \cup {gen} /\ at' = "flushing"
  BY DEF RunPgDump, FlushDump, CheckDump, WriteChecksum, WriteMetadata, WriteSidecar, Abort,
         Making, Kinds
<1>2. gen \in Gens /\ gen \in 1 .. gen
  BY <1>1, FilesAssumption DEF SetsInv, Unpublished, Gens
<1>3. TypeOK'
  <2>1. partial' \subseteq Files
    BY <1>1 DEF SetsInv, TypeOK, Files
  <2>2. at' \in Steps /\ unflushed' \subseteq Gens
    BY <1>1, <1>2 DEF SetsInv, TypeOK, Steps, Making
  <2> QED BY <1>1, <2>1, <2>2 DEF SetsInv, TypeOK
<1>4. OnDisk' /\ SuccessIsDurable'
  BY <1>1, <1>2 DEF SetsInv, OnDisk, SuccessIsDurable
<1>5. (\A d \in possible : Sound(d))'
  BY <1>1 DEF SetsInv, Sound, Unpublished
<1>6. Unpublished'
  BY <1>1 DEF SetsInv, Unpublished, Making
<1>7. Sidecars' /\ NameIsNew' /\ Published' /\ RemovedIsFree' /\ DumpGoesFirst'
  BY <1>1 DEF SetsInv, Sidecars, NameIsNew, Published, MadeSet, RemovedIsFree, Removing, DumpGoesFirst,
              Making
<1> QED BY <1>3, <1>4, <1>5, <1>6, <1>7 DEF SetsInv

(* The three renames: only the last one makes the set listed.              *)
LEMMA PublishFiles == SetsInv /\ (PublishChecksum \/ PublishMetadata \/ PublishDump) => SetsInv'
<1> SUFFICES ASSUME SetsInv, PublishChecksum \/ PublishMetadata \/ PublishDump PROVE SetsInv'
  OBVIOUS
<1>0. /\ at \in {"pubsum", "pubmeta", "pubdump"}
      /\ gen \in Gens /\ gen \notin torn \cup unflushed /\ gen > 0
      /\ dir[<<id, "dump">>] = None /\ dir \in possible /\ todo = <<>>
      /\ dir \in [Files -> Gens \cup {None}] /\ id \in Ids
      /\ UNCHANGED <<now, unflushed, torn, gen, id, promised, crashes>>
      /\ \A p \in promised : p[1] # id
  BY DEF PublishChecksum, PublishMetadata, PublishDump, Publish, SetsInv, Unpublished, Making,
         OnDisk, RemovedIsFree, Removing, TypeOK, NameIsNew, Gens
<1>1. CASE at' = "undoing"
  <2>1. /\ UNCHANGED <<dir, possible, partial>>
        /\ todo' \in {<<>>, <<<<id, "sha256">>>>, <<<<id, "sha256">>, <<id, "json">>>>}
    BY <1>1, <1>0 DEF PublishChecksum, PublishMetadata, PublishDump, Publish, FilesOf
  <2>2. OnDisk' /\ (\A d \in possible : Sound(d))' /\ SuccessIsDurable'
    BY <1>0, <2>1 DEF SetsInv, OnDisk, Sound, SuccessIsDurable
  <2>3. todo' \in Seq(Files) /\ \A n \in DOMAIN todo' : todo'[n][1] = id
    <3>1. \A k \in Kinds : <<id, k>> \in Files
      BY <1>0 DEF Files
    <3>2. <<>> \in Seq(Files) /\ <<<<id, "sha256">>>> \in Seq(Files)
            /\ <<<<id, "sha256">>, <<id, "json">>>> \in Seq(Files)
      BY <3>1 DEF Kinds
    <3>3. CASE todo' = <<>>
      BY <3>2, <3>3
    <3>4. CASE todo' = <<<<id, "sha256">>>>
      BY <3>2, <3>4
    <3>5. CASE todo' = <<<<id, "sha256">>, <<id, "json">>>>
      BY <3>2, <3>5
    <3> QED BY <2>1, <3>3, <3>4, <3>5
  <2>4. TypeOK'
    BY <1>0, <1>1, <2>1, <2>3 DEF SetsInv, TypeOK, Steps
  <2>5. Unpublished' /\ Sidecars' /\ NameIsNew' /\ Published' /\ DumpGoesFirst'
    BY <1>0, <1>1 DEF Unpublished, Sidecars, NameIsNew, Published, MadeSet, DumpGoesFirst, Making
  <2>6. RemovedIsFree'
    BY <1>0, <1>1, <2>3 DEF RemovedIsFree, Removing
  <2> QED BY <2>2, <2>4, <2>5, <2>6 DEF SetsInv
<1>2. CASE at' # "undoing"
  <2>1. PICK k \in Kinds :
          /\ dir' = [dir EXCEPT ![<<id, k>>] = gen] /\ possible' = possible \cup {dir'}
          /\ partial' = partial \ {<<id, k>>} /\ UNCHANGED todo
          /\ \/ at = "pubsum" /\ at' = "pubmeta" /\ k = "sha256"
             \/ at = "pubmeta" /\ at' = "pubdump" /\ k = "json"
             \/ at = "pubdump" /\ at' = "syncing" /\ k = "dump"
    BY <1>2 DEF PublishChecksum, PublishMetadata, PublishDump, Publish, Put, Kinds
  <2> DEFINE d0 == [dir EXCEPT ![<<id, k>>] = gen]
  <2>2. /\ d0 \in [Files -> Gens \cup {None}] /\ d0[<<id, k>>] = gen
        /\ \A f \in Files : f # <<id, k>> => d0[f] = dir[f]
    BY <1>0 DEF Files
  <2>3. dir' = d0
    BY <2>1
  <2> HIDE DEF d0
  <2>4. TypeOK'
    <3>1. possible' \subseteq [Files -> Gens \cup {None}] /\ partial' \subseteq Files
      BY <2>1, <2>2, <2>3 DEF SetsInv, TypeOK
    <3>2. at' \in Steps
      BY <2>1 DEF Steps
    <3> QED BY <1>0, <2>1, <2>2, <2>3, <3>1, <3>2 DEF SetsInv, TypeOK
  <2>5. OnDisk'
    <3>1. \A f \in Files : d0[f] <= gen
      BY <1>0, <2>2 DEF SetsInv, OnDisk, Gens
    <3> QED BY <1>0, <2>1, <2>3, <3>1 DEF SetsInv, OnDisk
  <2>6. \A i \in Ids : \A l \in Kinds : <<i, l>> \in Files /\ (i # id => d0[<<i, l>>] = dir[<<i, l>>])
    BY <2>2 DEF Files
  <2>7. (at = "pubdump" => \A l \in Kinds : d0[<<id, l>>] = gen)
          /\ (at # "pubdump" => d0[<<id, "dump">>] = None)
    BY <1>0, <2>1, <2>2, <2>6 DEF SetsInv, Sidecars, Kinds
  <2>8. Sound(d0)
    <3> SUFFICES ASSUME NEW i \in Ids, Listed(d0, i)
                 PROVE  /\ \A l \in Kinds : d0[<<i, l>>] = d0[<<i, "dump">>]
                        /\ d0[<<i, "dump">>] \notin torn \cup unflushed
      BY DEF Sound
    <3>1. CASE i = id
      BY <1>0, <2>7, <3>1 DEF Listed, Kinds
    <3>2. CASE i # id
      <4>1. \A l \in Kinds : d0[<<i, l>>] = dir[<<i, l>>]
        BY <2>6, <3>2
      <4>2. Listed(dir, i) /\ "dump" \in Kinds
        BY <4>1 DEF Listed, Kinds
      <4> QED BY <1>0, <4>1, <4>2 DEF SetsInv, Sound
    <3> QED BY <3>1, <3>2
  <2>9. (\A d \in possible : Sound(d))'
    BY <1>0, <2>1, <2>3, <2>8 DEF SetsInv, Sound
  <2>10. Unpublished' /\ NameIsNew' /\ RemovedIsFree' /\ DumpGoesFirst'
    <3>1. at' \in Making => \A i \in Ids : d0[<<i, "dump">>] # gen
      BY <1>0, <2>1, <2>6, <2>7 DEF Making, SetsInv, Unpublished, Kinds, Gens, None
    <3> QED BY <1>0, <2>1, <2>3, <2>7, <3>1 DEF SetsInv, Unpublished, NameIsNew, RemovedIsFree,
                 Removing, DumpGoesFirst, Making
  <2>11. Sidecars' /\ Published'
    <3>1. at' = "pubdump" => d0[<<id, "sha256">>] = gen
      BY <1>0, <2>1, <2>2 DEF SetsInv, Sidecars, Files, Kinds
    <3> QED BY <1>0, <2>1, <2>2, <2>3, <2>7, <3>1 DEF Sidecars, Published, MadeSet
  <2>12. SuccessIsDurable'
    <3>1. \A p \in promised : p[1] \in Ids /\ \A l \in Kinds : d0[<<p[1], l>>] = p[2]
      <4> SUFFICES ASSUME NEW p \in promised, NEW l \in Kinds
                   PROVE  p[1] \in Ids /\ d0[<<p[1], l>>] = p[2]
        OBVIOUS
      <4>1. p[1] \in Ids /\ p[1] # id
        BY <1>0 DEF SetsInv, TypeOK
      <4>2. dir[<<p[1], l>>] = p[2]
        BY <1>0 DEF SetsInv, SuccessIsDurable
      <4> QED BY <2>6, <4>1, <4>2
    <3>2. \A p \in promised : \A d \in possible : \A l \in Kinds : d[<<p[1], l>>] = p[2]
      BY DEF SetsInv, SuccessIsDurable
    <3>3. promised' = promised /\ possible' = possible \cup {d0}
      BY <1>0, <2>1, <2>3
    <3>4. \A p \in promised' : \A d \in possible' : \A l \in Kinds : d[<<p[1], l>>] = p[2]
      BY <3>1, <3>2, <3>3
    <3> QED BY <3>4 DEF SuccessIsDurable
  <2> QED BY <2>4, <2>5, <2>9, <2>10, <2>11, <2>12 DEF SetsInv
<1> QED BY <1>1, <1>2

-----------------------------------------------------------------------------
(* Flushing, reporting, and the ends of the operations.                    *)
LEMMA FlushFiles == SetsInv /\ (FlushDirectory \/ FlushDelete) => SetsInv'
<1> SUFFICES ASSUME SetsInv, FlushDirectory \/ FlushDelete PROVE SetsInv'
  OBVIOUS
<1>1. /\ UNCHANGED <<now, dir, partial, unflushed, torn, gen, id, promised, crashes>>
      /\ possible' \in {possible, {dir}} /\ dir \in possible /\ gen \in 0 .. MaxGen
  BY DEF FlushDirectory, FlushDelete, SetsInv, OnDisk, TypeOK
<1>2. OnDisk' /\ (\A d \in possible : Sound(d))' /\ SuccessIsDurable'
  BY <1>1, Untouched, FilesAssumption
<1>3. CASE FlushDirectory
  <2>1. /\ at = "syncing"
        /\ \/ possible' = {dir} /\ at' \in {"retaining", "reporting"} /\ todo' = todo
           \/ todo' = FilesOf(id) /\ at' = "undoing"
    BY <1>3 DEF FlushDirectory
  <2>2. todo = <<>> /\ FilesOf(id) \in Seq(Files) /\ \A n \in DOMAIN FilesOf(id) : FilesOf(id)[n][1] = id
    BY <2>1 DEF SetsInv, TypeOK, RemovedIsFree, Removing, FilesOf, Files, Kinds
  <2>3. TypeOK'
    BY <1>1, <2>1, <2>2 DEF SetsInv, TypeOK, Steps
  <2>4. Unpublished' /\ Sidecars' /\ NameIsNew' /\ DumpGoesFirst'
    BY <1>1, <2>1 DEF SetsInv, Unpublished, Sidecars, NameIsNew, DumpGoesFirst, Making
  <2>5. Published'
    BY <1>1, <2>1 DEF SetsInv, Published, MadeSet
  <2>6. RemovedIsFree'
    BY <1>1, <2>1, <2>2 DEF SetsInv, RemovedIsFree, Removing, NameIsNew
  <2> QED BY <1>2, <2>3, <2>4, <2>5, <2>6 DEF SetsInv
<1>4. CASE FlushDelete
  <2>1. at = "delsync" /\ at' = "idle" /\ todo' = todo
    BY <1>4 DEF FlushDelete
  <2>2. TypeOK'
    BY <1>1, <2>1 DEF SetsInv, TypeOK, Steps
  <2> QED BY <1>1, <1>2, <2>1, <2>2 DEF SetsInv, Unpublished, Sidecars, NameIsNew, Published, MadeSet,
             RemovedIsFree, Removing, DumpGoesFirst, Making
<1> QED BY <1>3, <1>4

LEMMA RestFiles ==
  SetsInv /\ (Tick \/ FinishUndo \/ FinishRetention \/ FinishDelete \/ Restart \/ UNCHANGED vars)
    => SetsInv'
<1> SUFFICES ASSUME SetsInv, Tick \/ FinishUndo \/ FinishRetention \/ FinishDelete \/ Restart
                             \/ UNCHANGED vars
             PROVE  SetsInv'
  OBVIOUS
<1>1. /\ UNCHANGED <<dir, possible, unflushed, torn, gen, id, todo, promised, crashes>>
      /\ now' \in 1 .. MaxSecond /\ partial' \subseteq partial
      /\ \/ at' = at
         \/ at' \in {"idle", "delsync"} /\ todo = <<>>
         \/ at = "expiring" /\ at' = "reporting" /\ todo = <<>>
  BY DEF Tick, FinishUndo, FinishRetention, FinishDelete, Restart, vars, Abort, SetsInv, TypeOK,
         RemovedIsFree, Removing
<1>2. TypeOK'
  BY <1>1 DEF SetsInv, TypeOK, Steps
<1> QED BY <1>1, <1>2 DEF SetsInv, OnDisk, Sound, Unpublished, Sidecars, NameIsNew, Published, MadeSet,
           RemovedIsFree, Removing, DumpGoesFirst, Making, SuccessIsDurable

LEMMA ReportFiles == SetsInv /\ Report => SetsInv'
<1> SUFFICES ASSUME SetsInv, Report PROVE SetsInv'
  OBVIOUS
<1>1. /\ UNCHANGED <<now, dir, possible, partial, unflushed, torn, gen, id, todo, crashes>>
      /\ at = "reporting" /\ at' = "idle" /\ promised' = promised \cup {<<id, gen>>}
      /\ todo = <<>> /\ gen \in Gens /\ \A d \in possible : \A k \in Kinds : d[<<id, k>>] = gen
  BY DEF Report, SetsInv, RemovedIsFree, Removing, Published, MadeSet
<1>2. TypeOK'
  <2>1. promised' \subseteq Ids \X Gens /\ at' \in Steps
    BY <1>1 DEF SetsInv, TypeOK, Steps
  <2> QED BY <1>1, <2>1 DEF SetsInv, TypeOK
<1>3. SuccessIsDurable'
  <2> SUFFICES ASSUME NEW p \in promised', NEW d \in possible, NEW k \in Kinds
               PROVE  d[<<p[1], k>>] = p[2]
    BY <1>1 DEF SuccessIsDurable
  <2>1. CASE p \in promised
    BY <2>1 DEF SetsInv, SuccessIsDurable
  <2>2. CASE p = <<id, gen>>
    BY <1>1, <2>2
  <2> QED BY <1>1, <2>1, <2>2
<1> QED BY <1>1, <1>2, <1>3 DEF SetsInv, OnDisk, Sound, Unpublished, Sidecars, NameIsNew, Published,
           MadeSet, RemovedIsFree, Removing, DumpGoesFirst, Making

-----------------------------------------------------------------------------
(* Retention and deletion: what they remove is promised no more.           *)
LEMMA ChooseFiles == SetsInv /\ (ListExpired \/ (\E i \in Ids : StartDelete(i))) => SetsInv'
<1> SUFFICES ASSUME SetsInv, ListExpired \/ (\E i \in Ids : StartDelete(i)) PROVE SetsInv'
  OBVIOUS
<1>1. PICK sets \in SUBSET Ids :
        /\ UNCHANGED <<now, dir, possible, partial, unflushed, torn, gen, id, crashes>>
        /\ promised' = {p \in promised : p[1] \notin sets}
        /\ todo' \in Seq(Files) /\ \A n \in DOMAIN todo' : todo'[n][1] \in sets
        /\ \/ at = "retaining" /\ at' = "expiring" /\ id \notin sets
           \/ at = "idle" /\ at' = "deleting" /\ \E i \in Ids : todo' = FilesOf(i)
  <2>1. CASE ListExpired
    <3>1. Expired \in SUBSET Ids /\ id \notin Expired
      BY DEF Expired, Inventory
    <3>2. PICK order \in NewestFirst(Expired) : todo' = FilesOfAll(order)
      BY <2>1 DEF ListExpired
    <3>3. todo' \in Seq(Files) /\ \A n \in DOMAIN todo' : todo'[n][1] \in Expired
      BY <3>1, <3>2, OrderedFiles
    <3> QED BY <2>1, <3>1, <3>3 DEF ListExpired, Forget
  <2>2. CASE \E i \in Ids : StartDelete(i)
    <3>1. PICK i \in Ids : StartDelete(i)
      BY <2>2
    <3>2. FilesOf(i) \in Seq(Files) /\ \A n \in DOMAIN FilesOf(i) : FilesOf(i)[n][1] \in {i}
      BY <3>1 DEF FilesOf, Files, Kinds
    <3> QED BY <3>1, <3>2 DEF StartDelete, Forget
  <2> QED BY <2>1, <2>2
<1>2. TypeOK'
  BY <1>1 DEF SetsInv, TypeOK, Steps
<1>3. OnDisk' /\ (\A d \in possible : Sound(d))' /\ SuccessIsDurable'
  BY <1>1 DEF SetsInv, OnDisk, Sound, SuccessIsDurable
<1>4. RemovedIsFree'
  BY <1>1 DEF RemovedIsFree, Removing
<1> QED BY <1>1, <1>2, <1>3, <1>4 DEF SetsInv, Unpublished, Sidecars, NameIsNew, Published, MadeSet,
           DumpGoesFirst, Making

LEMMA RemoveFiles == SetsInv /\ RemoveNext => SetsInv'
<1> SUFFICES ASSUME SetsInv, RemoveNext PROVE SetsInv'
  OBVIOUS
<1>1. /\ at \in Removing /\ todo # <<>> /\ todo \in Seq(Files) /\ dir \in possible
      /\ UNCHANGED <<now, partial, unflushed, torn, gen, id, promised, crashes>>
      /\ dir \in [Files -> Gens \cup {None}] /\ at' \in {at, "idle"}
      /\ todo' \in {<<>>, Tail(todo)} /\ (at' # at => todo' = <<>> /\ dir' = dir)
      /\ \/ UNCHANGED <<dir, possible>>
         \/ dir' = [dir EXCEPT ![Head(todo)] = None] /\ possible' = possible \cup {dir'} /\ todo' = Tail(todo)
      /\ todo' = <<>> \/ todo' = Tail(todo)
  BY DEF RemoveNext, Removing, SetsInv, TypeOK, OnDisk, Put
<1>2. /\ Head(todo) \in Files /\ Head(todo) = todo[1] /\ 1 \in DOMAIN todo
      /\ Tail(todo) \in Seq(Files)
      /\ \A n \in DOMAIN Tail(todo) : n + 1 \in DOMAIN todo /\ Tail(todo)[n] = todo[n + 1]
  BY <1>1
<1> DEFINE f == Head(todo)
           d0 == [dir EXCEPT ![f] = None]
<1>3. d0 \in [Files -> Gens \cup {None}] /\ d0[f] = None /\ \A g \in Files : g # f => d0[g] = dir[g]
  BY <1>1, <1>2
<1>4. /\ f \in Files /\ (\A p \in promised : p[1] # f[1]) /\ (at = "expiring" => f[1] # id)
      /\ f = Head(todo)
      /\ \/ UNCHANGED <<dir, possible>>
         \/ dir' = d0 /\ possible' = possible \cup {d0} /\ todo' = Tail(todo)
  BY <1>1, <1>2 DEF SetsInv, RemovedIsFree
<1> HIDE DEF f, d0
<1>5. TypeOK'
  <2>1. dir' \in [Files -> Gens \cup {None}] /\ possible' \subseteq [Files -> Gens \cup {None}]
    BY <1>1, <1>3, <1>4 DEF SetsInv, TypeOK
  <2>2. todo' \in Seq(Files)
    <3>1. <<>> \in Seq(Files)
      OBVIOUS
    <3> QED BY <1>1, <1>2, <3>1
  <2>3. at' \in Steps
    BY <1>1 DEF SetsInv, TypeOK, Steps
  <2> QED BY <1>1, <2>1, <2>2, <2>3 DEF SetsInv, TypeOK
<1>6. OnDisk'
  <2>1. \A g \in Files : d0[g] <= gen
    BY <1>1, <1>3 DEF SetsInv, OnDisk, TypeOK, None
  <2> QED BY <1>1, <1>4, <2>1 DEF SetsInv, OnDisk
<1>7. Sound(d0)
  <2> SUFFICES ASSUME NEW i \in Ids, Listed(d0, i)
               PROVE  /\ \A k \in Kinds : d0[<<i, k>>] = d0[<<i, "dump">>]
                      /\ d0[<<i, "dump">>] \notin torn \cup unflushed
    BY DEF Sound
  <2>1. \A k \in Kinds : <<i, k>> \in Files /\ d0[<<i, k>>] # None
    BY DEF Listed, Files
  <2>2. \A k \in Kinds : d0[<<i, k>>] = dir[<<i, k>>]
    BY <1>3, <2>1
  <2>3. Listed(dir, i) /\ "dump" \in Kinds
    BY <2>1, <2>2 DEF Listed, Kinds
  <2> QED BY <1>1, <2>2, <2>3 DEF SetsInv, Sound
<1>8. (\A d \in possible : Sound(d))'
  BY <1>1, <1>4, <1>7 DEF SetsInv, Sound
<1>9. \A i \in Ids : \A k \in Kinds : i # f[1] => d0[<<i, k>>] = dir[<<i, k>>]
  BY <1>3 DEF Files
<1>10. SuccessIsDurable'
  <2>1. \A p \in promised : p[1] \in Ids /\ \A k \in Kinds : d0[<<p[1], k>>] = p[2]
    BY <1>1, <1>4, <1>9 DEF SetsInv, TypeOK, SuccessIsDurable
  <2> QED BY <1>1, <1>4, <2>1 DEF SetsInv, SuccessIsDurable
<1>11. RemovedIsFree'
  BY <1>1, <1>2 DEF SetsInv, RemovedIsFree, Removing
<1>12. Published'
  <2>1. at = "expiring" => \A k \in Kinds : d0[<<id, k>>] = gen
    BY <1>1, <1>4, <1>9 DEF SetsInv, TypeOK, Published, MadeSet
  <2> QED BY <1>1, <1>4, <2>1 DEF SetsInv, Published, MadeSet, Removing
<1>13. Unpublished' /\ Sidecars' /\ NameIsNew'
  BY <1>1 DEF SetsInv, Unpublished, Sidecars, NameIsNew, Making, Removing
<1>14. DumpGoesFirst'
  <2> SUFFICES ASSUME at = "deleting", at' = "deleting", todo' # <<>>
               PROVE  DumpGoesFirst'
    BY <1>1 DEF DumpGoesFirst, Removing
  <2>1. dir' = d0 /\ todo' = Tail(todo)
    <3>1. at' = at /\ todo' = Tail(todo) /\ dir' = [dir EXCEPT ![Head(todo)] = None]
      BY DEF RemoveNext, Put
    <3> QED BY <3>1 DEF d0, f
  <2>2. PICK i \in Ids :
          \/ todo = FilesOf(i)
          \/ /\ dir[<<i, "dump">>] = None
             /\ todo \in {<<<<i, "sha256">>, <<i, "json">>>>, <<<<i, "json">>>>}
    BY <1>1 DEF SetsInv, DumpGoesFirst
  <2>3. <<i, "dump">> \in Files
    BY DEF Files, Kinds
  <2>4. CASE todo = FilesOf(i)
    <3>1. f = <<i, "dump">> /\ Tail(todo) = <<<<i, "sha256">>, <<i, "json">>>>
      BY <1>4, <2>4 DEF FilesOf
    <3> QED BY <1>3, <2>1, <3>1 DEF DumpGoesFirst
  <2>5. CASE dir[<<i, "dump">>] = None /\ todo \in {<<<<i, "sha256">>, <<i, "json">>>>, <<<<i, "json">>>>}
    <3>1. Tail(todo) \in {<<>>, <<<<i, "json">>>>}
      <4>1. Tail(<<<<i, "sha256">>, <<i, "json">>>>) = <<<<i, "json">>>>
              /\ Tail(<<<<i, "json">>>>) = <<>>
        OBVIOUS
      <4> QED BY <2>5, <4>1
    <3>2. d0[<<i, "dump">>] = None
      BY <1>3, <2>3, <2>5
    <3> QED BY <2>1, <3>1, <3>2 DEF DumpGoesFirst
  <2> QED BY <2>2, <2>4, <2>5
<1> QED BY <1>5, <1>6, <1>8, <1>10, <1>11, <1>12, <1>13, <1>14 DEF SetsInv

-----------------------------------------------------------------------------
LEMMA DieFiles == SetsInv /\ Die => SetsInv'
<1> SUFFICES ASSUME SetsInv, Die PROVE SetsInv'
  OBVIOUS
<1>1. /\ UNCHANGED <<now, partial, gen, id, promised>> /\ at' = "down" /\ todo' = <<>>
      /\ dir' \in possible' /\ possible' \subseteq possible
      /\ torn' \cup unflushed' = torn \cup unflushed /\ crashes' \in 0 .. MaxCrashes
  BY FilesAssumption DEF Die, SetsInv, OnDisk, TypeOK
<1>2. TypeOK'
  BY <1>1 DEF SetsInv, TypeOK, Steps
<1>3. OnDisk' /\ (\A d \in possible : Sound(d))' /\ SuccessIsDurable'
  BY <1>1 DEF SetsInv, OnDisk, Sound, SuccessIsDurable
<1> QED BY <1>1, <1>2, <1>3 DEF SetsInv, Unpublished, Sidecars, NameIsNew, Published, MadeSet,
           RemovedIsFree, Removing, DumpGoesFirst, Making

LEMMA SetsInit == Init => SetsInv
<1> SUFFICES ASSUME Init PROVE SetsInv
  OBVIOUS
<1>1. Empty \in [Files -> Gens \cup {None}] /\ \A f \in Files : Empty[f] = 0
  BY DEF Empty, None
<1>2. \A i \in Ids : ~Listed(Empty, i)
  BY <1>1 DEF Listed, Files, Kinds, None
<1>3. TypeOK
  <2>1. <<>> \in Seq(Files) /\ <<1, 0>> \in Ids /\ gen \in 0 .. MaxGen /\ crashes \in 0 .. MaxCrashes
    BY FilesAssumption DEF Ids, Init
  <2> QED BY <1>1, <2>1, FilesAssumption DEF Init, TypeOK, Steps
<1>4. OnDisk /\ (\A d \in possible : Sound(d)) /\ SuccessIsDurable
  BY <1>1, <1>2 DEF Init, OnDisk, Sound, SuccessIsDurable
<1> QED BY <1>3, <1>4 DEF Init, SetsInv, Unpublished, Sidecars, NameIsNew, Published, MadeSet,
           RemovedIsFree, Removing, DumpGoesFirst, Making

LEMMA SetsNext == SetsInv /\ [Next]_vars => SetsInv'
BY StartFiles, MakeFiles, PublishFiles, FlushFiles, RestFiles, ReportFiles, ChooseFiles, RemoveFiles,
   DieFiles DEF Next

(* The variables keep their types, for any bounds and faults.              *)
THEOREM FilesTyped == Spec => []TypeOK
<1>1. SetsInv => TypeOK
  BY DEF SetsInv
<1> QED BY <1>1, SetsInit, SetsNext, PTL DEF Spec

(* ListedIsSound holds for any number of attempts, deaths and losses: what *)
(* the inventory lists is one attempt's set with its contents intact.      *)
THEOREM InventoryIsSound == Spec => []ListedIsSound
<1>1. SetsInv => ListedIsSound
  BY DEF SetsInv, OnDisk, Sound, ListedIsSound, Inventory
<1> QED BY <1>1, SetsInit, SetsNext, PTL DEF Spec

(* SuccessIsDurable: no power loss undoes a set reported as succeeded, and *)
(* no later attempt, retention or deletion of another set touches it.      *)
THEOREM SuccessLasts == Spec => []SuccessIsDurable
<1>1. SetsInv => SuccessIsDurable
  BY DEF SetsInv
<1> QED BY <1>1, SetsInit, SetsNext, PTL DEF Spec

(* DeleteIsOneSet: a set whose dump stays keeps its sidecars.              *)
THEOREM DeletionTakesWholeSets == Spec => DeleteIsOneSet
<1>1. SetsInv /\ [Next]_vars => (at = "deleting" /\ at' # "down" => TakesNoSidecarOfADump)
  <2> SUFFICES ASSUME SetsInv, [Next]_vars, at = "deleting", at' # "down", dir' # dir,
                      NEW i \in Ids, dir'[<<i, "dump">>] # None, NEW k \in Kinds
               PROVE  dir'[<<i, k>>] = dir[<<i, k>>]
    BY DEF TakesNoSidecarOfADump
  <2>1. RemoveNext
    BY DEF Next, vars, Tick, StartBackup, RunPgDump, FlushDump, CheckDump, WriteChecksum, WriteMetadata,
           WriteSidecar, PublishChecksum, PublishMetadata, PublishDump, Publish, FlushDirectory,
           FinishUndo, Report, ListExpired, FinishRetention, StartDelete, FinishDelete, FlushDelete,
           Die, Restart
  <2>2. todo # <<>> /\ dir' = [dir EXCEPT ![Head(todo)] = None]
    BY <2>1 DEF RemoveNext, Put
  <2>3. dir \in [Files -> Gens \cup {None}] /\ \A l \in Kinds : <<i, l>> \in Files
    BY DEF SetsInv, TypeOK, Files
  <2>4. "dump" \in Kinds /\ Head(todo) # <<i, "dump">>
    BY <2>2, <2>3 DEF Kinds
  <2>5. dir[<<i, "dump">>] # None
    BY <2>2, <2>3, <2>4
  <2>6. PICK j \in Ids :
          \/ todo = FilesOf(j)
          \/ /\ dir[<<j, "dump">>] = None
             /\ todo \in {<<<<j, "sha256">>, <<j, "json">>>>, <<<<j, "json">>>>}
    BY <2>2 DEF SetsInv, DumpGoesFirst
  <2>7. j # i
    BY <2>4, <2>5, <2>6 DEF FilesOf
  <2>8. Head(todo) # <<i, k>>
    BY <2>6, <2>7 DEF FilesOf
  <2> QED BY <2>2, <2>3, <2>8
<1> QED BY <1>1, SetsInit, SetsNext, PTL DEF Spec, DeleteIsOneSet

-----------------------------------------------------------------------------
(* Retention: what is newer than a set in the inventory.                   *)
NewerThan(i) == {j \in Inventory : Newer(j, i)}

InTodo(i) == \E n \in DOMAIN todo : todo[n][1] = i

(* While sets expire, a power loss takes no file back that is there, and   *)
(* Keep newer sets that stay outlive each set still to go.                 *)
NothingLost ==
  at \in MadeSet => \A d \in possible : \A f \in Files : dir[f] # None => d[f] = dir[f]

KeptOutlive ==
  at = "expiring" => \A i \in Inventory :
    InTodo(i) => Cardinality({j \in NewerThan(i) : ~InTodo(j)}) >= Keep

RetentionInv == SetsInv /\ NothingLost /\ KeptOutlive

LEMMA NewerIsFinite ==
  ASSUME NEW S \in SUBSET Ids
  PROVE  IsFiniteSet(S) /\ Cardinality(S) \in Nat
         /\ \A T \in SUBSET S : IsFiniteSet(T) /\ Cardinality(T) <= Cardinality(S) /\ Cardinality(T) \in Nat
<1>1. IsFiniteSet(1 .. MaxSecond) /\ IsFiniteSet(0 .. MaxSuffix)
  BY FilesAssumption, FS_Interval
<1>2. IsFiniteSet(Ids)
  BY <1>1, FS_Product DEF Ids
<1>3. IsFiniteSet(S)
  BY <1>2, FS_Subset
<1> QED BY <1>3, FS_Subset, FS_CardinalityType

(* Newer is a strict order, so a set is newer than fewer than what it is   *)
(* newer than.                                                             *)
LEMMA NewerOrders ==
  ASSUME TypeOK, NEW i \in Inventory, NEW j \in NewerThan(i)
  PROVE  /\ j \notin NewerThan(j)
         /\ NewerThan(j) \subseteq NewerThan(i)
<1>1. \A l \in Inventory : l[1] \in Nat /\ dir[<<l, "json">>] \in Nat
  <2> SUFFICES ASSUME NEW l \in Inventory PROVE l[1] \in Nat /\ dir[<<l, "json">>] \in Nat
    OBVIOUS
  <2>1. l \in Ids /\ <<l, "json">> \in Files
    BY DEF Inventory, Files, Kinds
  <2> QED BY <2>1, FilesAssumption DEF TypeOK, Ids, Gens, None
<1>2. j \in Inventory /\ Newer(j, i)
  BY DEF NewerThan
<1>3. \A l \in Inventory : Newer(l, j) => Newer(l, i)
  BY <1>1, <1>2 DEF Newer
<1>4. ~Newer(j, j)
  BY <1>1, <1>2 DEF Newer
<1> QED BY <1>3, <1>4 DEF NewerThan

(* Of the sets newer than one of rank Keep or more, Keep are not expired.  *)
LEMMA FirstStay ==
  ASSUME TypeOK, NEW i \in Inventory, Rank(i) >= Keep
  PROVE  Cardinality({j \in NewerThan(i) : Rank(j) < Keep}) >= Keep
<1> DEFINE K == {j \in NewerThan(i) : Rank(j) < Keep}
           Rest == NewerThan(i) \ K
<1>0. Keep \in Nat /\ Inventory \in SUBSET Ids /\ \A j : NewerThan(j) \in SUBSET Inventory
  BY FilesAssumption DEF Inventory, NewerThan
<1>1. \A j : Rank(j) = Cardinality(NewerThan(j)) /\ Rank(j) \in Nat
  BY <1>0, NewerIsFinite DEF Rank, NewerThan
<1>2. CASE Rest = {}
  BY <1>1, <1>2
<1>3. CASE Rest # {}
  <2> DEFINE T == {NewerThan(j) : j \in Rest}
  <2>1. T \subseteq FiniteSubsetsOf(Inventory) /\ T # {}
    BY <1>0, <1>3, NewerIsFinite DEF FiniteSubsetsOf
  <2>2. PICK t \in T : \A u \in T : <<u, t>> \notin StrictSubsetOrdering(Inventory)
    <3> HIDE DEF T
    <3> QED BY <2>1, WFMin, FS_StrictSubsetOrderingWellFounded
  <2>3. PICK j \in Rest : t = NewerThan(j)
    OBVIOUS
  <2>4. j \in Inventory /\ j \in NewerThan(i) /\ Cardinality(NewerThan(j)) >= Keep
    BY <1>0, <1>1, <2>3
  <2>5. NewerThan(j) \subseteq K
    <3> SUFFICES ASSUME NEW l \in NewerThan(j) PROVE l \in K
      OBVIOUS
    <3>1. l \in NewerThan(i) /\ l \in Inventory
      BY <1>0, <2>4, NewerOrders
    <3>2. l \notin NewerThan(l) /\ NewerThan(l) \subseteq NewerThan(j)
      BY <2>4, NewerOrders
    <3>3. <<NewerThan(l), NewerThan(j)>> \in StrictSubsetOrdering(Inventory)
      BY <1>0, <3>2 DEF StrictSubsetOrdering
    <3>4. l \notin Rest
      BY <2>2, <2>3, <3>3
    <3> QED BY <3>1, <3>4
  <2>6. K \in SUBSET Ids
    BY <1>0
  <2> HIDE DEF K
  <2>7. Cardinality(NewerThan(j)) <= Cardinality(K) /\ Cardinality(K) \in Nat
          /\ Cardinality(NewerThan(j)) \in Nat
    BY <2>5, <2>6, NewerIsFinite
  <2> QED BY <1>0, <2>4, <2>7 DEF K
<1> QED BY <1>2, <1>3

(* One removal keeps what is newer, and what is to stay.                   *)
LEMMA RemoveRetained == RetentionInv /\ SetsInv' /\ RemoveNext => RetentionInv'
<1> SUFFICES ASSUME RetentionInv, SetsInv', RemoveNext PROVE RetentionInv'
  OBVIOUS
<1>1. /\ todo # <<>> /\ todo \in Seq(Files) /\ dir \in [Files -> Gens \cup {None}]
      /\ todo' = <<>> \/ todo' = Tail(todo)
      /\ \/ UNCHANGED <<dir, possible>>
         \/ dir' = [dir EXCEPT ![Head(todo)] = None] /\ possible' = possible \cup {dir'}
      /\ at' \in MadeSet => at' = "expiring" /\ at = "expiring"
  BY DEF RemoveNext, Put, RetentionInv, SetsInv, TypeOK, MadeSet
<1> DEFINE f == Head(todo)
<1>2. /\ f \in Files /\ f = todo[1] /\ 1 \in DOMAIN todo
      /\ \A n \in DOMAIN todo' : todo' = Tail(todo) /\ n + 1 \in DOMAIN todo /\ todo'[n] = todo[n + 1]
  BY <1>1
<1>3. InTodo(f[1]) /\ \A i : InTodo(i)' => InTodo(i)
  BY <1>2 DEF InTodo
<1>4. /\ \A g \in Files : g # f => dir'[g] = dir[g]
      /\ \A g \in Files : dir'[g] # None => dir'[g] = dir[g]
      /\ UNCHANGED <<dir, possible>> \/ possible' = possible \cup {dir'}
  BY <1>1, <1>2
<1> HIDE DEF f
<1>5. NothingLost'
  BY <1>1, <1>4 DEF RetentionInv, NothingLost
<1>6. Inventory' \subseteq Inventory
        /\ \A i \in Inventory' : dir'[<<i, "json">>] = dir[<<i, "json">>]
  BY <1>4 DEF Inventory, Listed, Files, Kinds
<1>7. \A j \in Inventory : ~InTodo(j) => j \in Inventory'
  <2> SUFFICES ASSUME NEW j \in Inventory, ~InTodo(j) PROVE Listed(dir', j)
    BY DEF Inventory
  <2>1. j # f[1] /\ j \in Ids /\ Listed(dir, j)
    BY <1>3 DEF Inventory
  <2>2. \A k \in Kinds : <<j, k>> \in Files /\ <<j, k>> # f
    BY <2>1 DEF Files
  <2> QED BY <1>4, <2>1, <2>2 DEF Listed
<1>8. KeptOutlive'
  <2> SUFFICES ASSUME at = "expiring", NEW i \in Inventory', InTodo(i)'
               PROVE  Cardinality({j \in NewerThan(i)' : ~InTodo(j)'}) >= Keep
    BY <1>1 DEF KeptOutlive, MadeSet
  <2> DEFINE Old == {j \in NewerThan(i) : ~InTodo(j)}
             New == {j \in NewerThan(i)' : ~InTodo(j)'}
  <2>1. Cardinality(Old) >= Keep
    BY <1>3, <1>6 DEF RetentionInv, KeptOutlive
  <2>2. Old \subseteq New
    BY <1>3, <1>6, <1>7 DEF NewerThan, Newer
  <2>3. New \in SUBSET Ids
    BY DEF NewerThan, Inventory
  <2> HIDE DEF Old, New
  <2>4. Cardinality(Old) <= Cardinality(New) /\ Cardinality(Old) \in Nat /\ Cardinality(New) \in Nat
    BY <2>2, <2>3, NewerIsFinite
  <2> QED BY <2>1, <2>4, FilesAssumption DEF New
<1> QED BY <1>5, <1>8 DEF RetentionInv

LEMMA ListRetained == RetentionInv /\ SetsInv' /\ ListExpired => RetentionInv'
<1> SUFFICES ASSUME RetentionInv, SetsInv', ListExpired PROVE RetentionInv'
  OBVIOUS
<1>1. /\ at = "retaining" /\ at' = "expiring" /\ UNCHANGED <<dir, possible, id>>
      /\ \E order \in NewestFirst(Expired) : todo' = FilesOfAll(order)
  BY DEF ListExpired
<1>2. NothingLost'
  BY <1>1 DEF RetentionInv, NothingLost, MadeSet
<1>3. Expired \in SUBSET Inventory /\ Expired \in SUBSET Ids
  BY DEF Expired, Inventory
<1>4. \A i : InTodo(i)' => i \in Expired
  BY <1>1, <1>3, OrderedFiles DEF InTodo
<1>5. KeptOutlive'
  <2> SUFFICES ASSUME NEW i \in Inventory, i \in Expired
               PROVE  Cardinality({j \in NewerThan(i) : ~InTodo(j)'}) >= Keep
    BY <1>1, <1>4 DEF KeptOutlive, Inventory, NewerThan, Newer
  <2> DEFINE First == {j \in NewerThan(i) : Rank(j) < Keep}
             Stay  == {j \in NewerThan(i) : ~InTodo(j)'}
  <2>1. Cardinality(First) >= Keep
    BY FirstStay DEF Expired, RetentionInv, SetsInv
  <2>2. First \subseteq Stay
    <3>1. \A j \in NewerThan(i) : Rank(j) \in Nat
      BY NewerIsFinite DEF Rank, Inventory
    <3>2. \A j \in Expired : Rank(j) >= Keep
      BY DEF Expired
    <3> QED BY <1>4, <3>1, <3>2, FilesAssumption
  <2>3. Stay \in SUBSET Ids
    BY DEF NewerThan, Inventory
  <2> HIDE DEF First, Stay
  <2>4. Cardinality(First) <= Cardinality(Stay) /\ Cardinality(First) \in Nat /\ Cardinality(Stay) \in Nat
    BY <2>2, <2>3, NewerIsFinite
  <2> QED BY <2>1, <2>4, FilesAssumption DEF Stay
<1> QED BY <1>2, <1>5 DEF RetentionInv

LEMMA RetentionNext == RetentionInv /\ [Next]_vars => RetentionInv'
<1> SUFFICES ASSUME RetentionInv, [Next]_vars PROVE RetentionInv'
  OBVIOUS
<1>1. SetsInv'
  BY SetsNext DEF RetentionInv
<1>2. CASE RemoveNext
  BY <1>1, <1>2, RemoveRetained
<1>3. CASE ListExpired
  BY <1>1, <1>3, ListRetained
<1>4. CASE ~RemoveNext /\ ~ListExpired
  <2>1. \/ at' \notin MadeSet
        \/ UNCHANGED <<dir, todo, possible, at>>
        \/ at = "expiring" /\ at' = "reporting" /\ UNCHANGED <<dir, possible>>
        \/ at' \in {"retaining", "reporting"} /\ dir' = dir /\ possible' = {dir}
    BY <1>4 DEF Next, vars, Tick, StartBackup, RunPgDump, FlushDump, CheckDump, WriteChecksum,
           WriteMetadata, WriteSidecar, PublishChecksum, PublishMetadata, PublishDump, Publish,
           FlushDirectory, FinishUndo, Report, FinishRetention, StartDelete, FinishDelete, FlushDelete,
           Die, Restart, Abort, MadeSet
  <2> QED BY <1>1, <2>1 DEF RetentionInv, NothingLost, KeptOutlive, MadeSet, Inventory, NewerThan, Newer,
             InTodo
<1> QED BY <1>2, <1>3, <1>4

(* RetentionSparesNewest for any count: no removal, whichever fail and     *)
(* wherever power is lost, takes a set Keep newer ones do not outlive.     *)
THEOREM NewestAreSpared == Spec => RetentionSparesNewest
<1>1. Init => RetentionInv
  BY SetsInit DEF RetentionInv, NothingLost, KeptOutlive, MadeSet, Init
<1>2. ASSUME RetentionInv, [Next]_vars, at = "expiring", dir' # dir, NEW i \in Inventory, ~Listed(dir', i)
      PROVE  i # id /\ Rank(i) >= Keep
  <2>1. RemoveNext \/ Die
    BY <1>2 DEF Next, vars, Tick, StartBackup, RunPgDump, FlushDump, CheckDump, WriteChecksum,
           WriteMetadata, WriteSidecar, PublishChecksum, PublishMetadata, PublishDump, Publish,
           FlushDirectory, FinishUndo, Report, ListExpired, FinishRetention, StartDelete, FinishDelete,
           FlushDelete, Restart
  <2>2. \A k \in Kinds : <<i, k>> \in Files /\ dir[<<i, k>>] # None
    BY DEF Inventory, Listed, Files
  <2>3. CASE Die
    <3>1. dir' \in possible
      BY <1>2, <2>3 DEF Die
    <3>2. \A k \in Kinds : dir'[<<i, k>>] = dir[<<i, k>>]
      BY <1>2, <2>2, <3>1 DEF RetentionInv, NothingLost, MadeSet
    <3> QED BY <1>2, <2>2, <3>2 DEF Listed
  <2>4. CASE RemoveNext
    <3>1. dir' = [dir EXCEPT ![Head(todo)] = None] /\ todo # <<>> /\ todo \in Seq(Files)
            /\ dir \in [Files -> Gens \cup {None}]
      BY <1>2, <2>4 DEF RemoveNext, Put, RetentionInv, SetsInv, TypeOK
    <3>2. \E k \in Kinds : Head(todo) = <<i, k>>
      BY <1>2, <2>2, <3>1 DEF Listed
    <3>3. 1 \in DOMAIN todo /\ todo[1][1] = i
      BY <3>1, <3>2
    <3>4. InTodo(i) /\ i # id
      BY <1>2, <3>3 DEF InTodo, RetentionInv, SetsInv, RemovedIsFree
    <3> DEFINE Stay == {j \in NewerThan(i) : ~InTodo(j)}
    <3>5. Cardinality(Stay) >= Keep
      BY <1>2, <3>4 DEF RetentionInv, KeptOutlive
    <3>6. NewerThan(i) \in SUBSET Ids /\ Stay \subseteq NewerThan(i) /\ Rank(i) = Cardinality(NewerThan(i))
      BY DEF NewerThan, Inventory, Rank
    <3> HIDE DEF Stay
    <3>7. Cardinality(Stay) <= Cardinality(NewerThan(i)) /\ Cardinality(Stay) \in Nat
            /\ Cardinality(NewerThan(i)) \in Nat
      BY <3>6, NewerIsFinite
    <3> QED BY <3>4, <3>5, <3>6, <3>7, FilesAssumption
  <2> QED BY <2>1, <2>3, <2>4
<1>3. RetentionInv /\ [Next]_vars => (at = "expiring" /\ dir' # dir =>
        \A i \in Inventory : Listed(dir', i) \/ (i # id /\ Rank(i) >= Keep))
  BY <1>2
<1> QED BY <1>1, <1>3, RetentionNext, PTL DEF Spec, RetentionSparesNewest
=============================================================================
