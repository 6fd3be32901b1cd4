---------------------------- MODULE BundleCustody ----------------------------
(***************************************************************************)
(* Who keeps a session's history once part of it is archived.  A node's    *)
(* database moves old blocks out into archive directories and pins them    *)
(* there; collection removes archives other archives cover; a backup       *)
(* copies the database with the archives it pins and a restore makes       *)
(* another database of it.  The tasks are processes that stop anywhere,    *)
(* and keep out of each other's way with RocksDB's lock on a database and  *)
(* with shared and exclusive locks on archive directories.                 *)
(*                                                                         *)
(* One session is followed.  An archive is the number of blocks it holds;  *)
(* block IssueAt issues a handoff that block CloseAt closes, so an archive *)
(* that ends between the two holds another record of it than later ones.   *)
(***************************************************************************)
EXTENDS Naturals, Sequences, FiniteSets, SequencesExt, TLC

CONSTANTS Exports,        \* paths an export may go to: <<"export", i>>
          MaxHeight,      \* bound on the session's blocks
          IssueAt, CloseAt,
          MaxRetains      \* bound on the retention tasks of a node

VARIABLES dirs,       \* path -> archive directory
          database,   \* name -> database, "live" and what a restore made
          owner,      \* name -> the process that has it open, or None
          registry,   \* archive -> path, the node's audited archives
          retain, backup, restore, collect,  \* the task of each kind, or None
          saved,      \* the published backup, or None
          exported,   \* archives ever published
          retains     \* retention tasks run

vars == <<dirs, database, owner, registry, retain, backup, restore, collect,
          saved, exported, retains>>

None == <<>>

Heights == 1..MaxHeight

Paths == Exports \union {<<"restored", n>> : n \in Heights}

-----------------------------------------------------------------------------
(* What an archive of n blocks holds.                                      *)
Terminal(n) == IF n < IssueAt THEN {} ELSE {<<"handoff", n >= CloseAt>>}

Snapshots(n) == {<<"head", n>>, <<"checkpoint", n>>}

Lasting(n) == {<<"block", h>> : h \in 1..n} \union Terminal(n) \union {<<"program", 0>>}

Blobs(n) == Lasting(n) \union Snapshots(n)

NoDirectory == [state |-> "none", archive |-> 0, blobs |-> {}]
Directory(n) == [state |-> "manifest.json", archive |-> n, blobs |-> Blobs(n)]

(* A directory a full audit accepts: its manifest and every blob of it.    *)
Audited(p) == dirs[p].state = "manifest.json" /\ dirs[p].blobs = Blobs(dirs[p].archive)

-----------------------------------------------------------------------------
(* Locks.  A BundleDirectory holds a shared lock for as long as anyone     *)
(* uses it; a collection holds its candidates alone.                       *)
Shared ==
    {registry[n] : n \in DOMAIN registry}
    \union (IF collect = None THEN {} ELSE collect.keepers)
    \union (IF backup = None THEN {} ELSE backup.catalogs)
    \union (IF restore = None THEN {} ELSE restore.catalogs)

Exclusive == IF collect = None THEN {} ELSE collect.locked

(* register_catalogs: opened under a shared lock and audited.              *)
register_catalogs(paths) ==
    /\ paths \intersect Exclusive = {}
    /\ \A p \in paths : Audited(p)

Init ==
    /\ dirs = [p \in Paths |-> NoDirectory]
    /\ database = [d \in {"live"} |-> [height |-> 0, cold |-> <<>>]]
    /\ owner = [d \in {"live", "restored"} |-> None]
    /\ registry = <<>>
    /\ retain = None /\ backup = None /\ restore = None /\ collect = None
    /\ saved = None
    /\ exported = {}
    /\ retains = 0

-----------------------------------------------------------------------------
(* The node.                                                               *)
Node == <<"node">>
Collector == <<"collector">>
Restorer == <<"restorer">>

NodeOpen ==
    /\ owner["live"] = None
    /\ owner' = [owner EXCEPT !["live"] = Node]
    /\ UNCHANGED <<dirs, database, registry, retain, backup, restore, collect, saved, exported, retains>>

(* It ends or crashes, its tasks with it.  What they committed stays.      *)
NodeClose ==
    /\ owner["live"] = Node
    /\ owner' = [owner EXCEPT !["live"] = None]
    /\ registry' = <<>>
    /\ retain' = None
    /\ backup' = None
    /\ UNCHANGED <<dirs, database, restore, collect, saved, exported, retains>>

Commit ==
    /\ owner["live"] = Node
    /\ database["live"].height < MaxHeight
    /\ database' = [database EXCEPT !["live"].height = @ + 1]
    /\ UNCHANGED <<dirs, owner, registry, retain, backup, restore, collect, saved, exported, retains>>

(* An export of the session as it stands, see BundleExport.  Which unused  *)
(* path it goes to makes no difference.                                    *)
Export(p) ==
    LET n == database["live"].height
    IN  /\ owner["live"] = Node
        /\ \A q \in Exports : q[2] < p[2] => dirs[q] # NoDirectory
        /\ n > 0
        /\ dirs[p] = NoDirectory
        /\ dirs' = [dirs EXCEPT ![p] = Directory(n)]
        /\ exported' = exported \union {n}
        /\ UNCHANGED <<database, owner, registry, retain, backup, restore, collect, saved, retains>>

-----------------------------------------------------------------------------
(* Retention: register the archive, look at the head, check both ends of   *)
(* the range, then offload block by block.                                 *)
StartRetain(p, first, last, hot_from) ==
    LET n == dirs[p].archive
    IN  /\ owner["live"] = Node
        /\ retain = None
        /\ retains < MaxRetains
        /\ register_catalogs({p})
        /\ last <= database["live"].height
        /\ last <= n
        /\ registry' = (n :> p) @@ registry
        /\ retain' = [archive |-> n, next |-> first, last |-> last, hot_from |-> hot_from,
                      head |-> database["live"].height]
        /\ retains' = retains + 1
        /\ UNCHANGED <<dirs, database, owner, backup, restore, collect, saved, exported>>

(* Why a hot block stays where it is: it is the tip or in the recovery     *)
(* window, or its handoff is not closed.                                   *)
Held(h) ==
    \/ h = retain.head
    \/ h >= retain.hot_from
    \/ h = IssueAt /\ database["live"].height < CloseAt

(* Each block moves on its own: its hot key goes and its pin comes in one  *)
(* transaction that fails when the head is another.  A cold one is pinned  *)
(* to this archive instead, which holds the same bytes.                    *)
offload_block ==
    /\ retain # None
    /\ retain.next <= retain.last
    /\ retain.head = database["live"].height
    /\ database' =
           IF retain.next \in DOMAIN database["live"].cold \/ ~Held(retain.next)
           THEN [database EXCEPT !["live"].cold = (retain.next :> retain.archive) @@ @]
           ELSE database
    /\ retain' = [retain EXCEPT !.next = @ + 1]
    /\ UNCHANGED <<dirs, owner, registry, backup, restore, collect, saved, exported, retains>>

EndRetain ==
    /\ retain # None
    /\ retain.next > retain.last \/ retain.head # database["live"].height
    /\ retain' = None
    /\ UNCHANGED <<dirs, database, owner, registry, backup, restore, collect, saved, exported, retains>>

-----------------------------------------------------------------------------
(* Collection.  A plan names the databases, the archives to keep and the   *)
(* candidates to remove, all of different content.                         *)
Listed == DOMAIN database

PlanValid(keepers, candidates) ==
    /\ keepers # {} /\ candidates # {}
    /\ keepers \intersect candidates = {}
    /\ \A p, q \in keepers \union candidates : dirs[p].archive = dirs[q].archive => p = q

(* The plan lists every database there is and no archive of a restore that *)
(* is still under way: this is the operator's to see to.                   *)
PlanComplete(candidates) ==
    \A p \in candidates :
        /\ dirs[p].state \in {"manifest.json", "gc.pending"}
        /\ p[1] = "restored" => "restored" \in DOMAIN database

(* Every database is opened, which locks it, and every keeper is audited.  *)
StartCollect(keepers, candidates) ==
    /\ collect = None
    /\ \A d \in Listed : owner[d] = None
    /\ PlanValid(keepers, candidates)
    /\ PlanComplete(candidates)
    /\ register_catalogs(keepers)
    /\ owner' = [d \in DOMAIN owner |-> IF d \in Listed THEN Collector ELSE owner[d]]
    /\ collect' = [step |-> "pins", keepers |-> keepers, candidates |-> candidates, locked |-> {}]
    /\ UNCHANGED <<dirs, database, registry, retain, backup, restore, saved, exported, retains>>

Archives(paths) == {dirs[p].archive : p \in paths}

Pins(d) == {database[d].cold[h] : h \in DOMAIN database[d].cold}

Ended(task) == [d \in DOMAIN owner |-> IF owner[d] = task THEN None ELSE owner[d]]

(* A broken form of OwnersAfterPins: the databases are closed when their   *)
(* pins have been read.                                                    *)
OwnersAfterPinsClosed == Ended(Collector)

(* The databases stay open and locked to the last unlink.                  *)
OwnersAfterPins == owner

(* Every pin of every database must be in a keeper.                        *)
CheckPins ==
    /\ collect # None /\ collect.step = "pins"
    /\ IF \A d \in {d \in Listed : owner[d] = Collector} : Pins(d) \subseteq Archives(collect.keepers)
       THEN collect' = [collect EXCEPT !.step = "candidates"] /\ owner' = OwnersAfterPins
       ELSE collect' = None /\ owner' = Ended(Collector)
    /\ UNCHANGED <<dirs, database, registry, retain, backup, restore, saved, exported, retains>>

(* The archives that may stand in for a candidate.                         *)
Covering == collect.keepers

(* Coverage: the candidate's blocks are the first of a keeper's, and all   *)
(* but its own head and checkpoint is in keepers byte for byte.            *)
check(n, keepers) ==
    /\ \E p \in keepers : n <= dirs[p].archive
    /\ Lasting(n) \subseteq UNION {Blobs(dirs[p].archive) : p \in keepers}

(* A candidate is locked alone and covered; one that is not marked yet is  *)
(* audited in full.  All are checked before any changes.                   *)
open_candidate(p) ==
    /\ collect # None /\ collect.step = "candidates"
    /\ p \in collect.candidates \ collect.locked
    /\ IF /\ p \notin Shared
          /\ dirs[p].state = "manifest.json" => Audited(p)
          /\ check(dirs[p].archive, Covering \ {p})
       THEN /\ collect' = [collect EXCEPT !.locked = @ \union {p},
                               !.step = IF collect.locked \union {p} = collect.candidates
                                        THEN "unlink" ELSE "candidates"]
            /\ UNCHANGED owner
       ELSE collect' = None /\ owner' = Ended(Collector)
    /\ UNCHANGED <<dirs, database, registry, retain, backup, restore, saved, exported, retains>>

(* The mark first, then blob after blob.                                   *)
begin(p) ==
    /\ collect # None /\ collect.step = "unlink"
    /\ p \in collect.candidates
    /\ dirs[p].state = "manifest.json"
    /\ dirs' = [dirs EXCEPT ![p].state = "gc.pending"]
    /\ UNCHANGED <<database, owner, registry, retain, backup, restore, collect, saved, exported, retains>>

unlink(p) ==
    /\ collect # None /\ collect.step = "unlink"
    /\ p \in collect.candidates
    /\ dirs[p].state = "gc.pending"
    /\ dirs[p].blobs # {}
    /\ LET b == CHOOSE b \in dirs[p].blobs : TRUE
       IN  dirs' = [dirs EXCEPT ![p].blobs = @ \ {b}]
    /\ UNCHANGED <<database, owner, registry, retain, backup, restore, collect, saved, exported, retains>>

(* It is done, dropped or dies; the marks and the missing blobs stay.      *)
EndCollect ==
    /\ collect # None
    /\ collect' = None
    /\ owner' = Ended(Collector)
    /\ UNCHANGED <<dirs, database, registry, retain, backup, restore, saved, exported, retains>>

-----------------------------------------------------------------------------
(* Backup, of a node's own database while it goes on: one native           *)
(* checkpoint is captured, and the plan must name exactly the archives it  *)
(* pins.                                                                   *)
StartBackup ==
    /\ owner["live"] = Node
    /\ backup = None
    /\ saved = None
    /\ backup' = [captured |-> database["live"], catalogs |-> {}, copied |-> None]
    /\ UNCHANGED <<dirs, database, owner, registry, retain, restore, collect, saved, exported, retains>>

CapturedArchives(b) == {b.captured.cold[h] : h \in DOMAIN b.captured.cold}

RegisterBackup(paths) ==
    /\ backup # None /\ backup.copied = None
    /\ Archives(paths) = CapturedArchives(backup)
    /\ Cardinality(paths) = Cardinality(CapturedArchives(backup))
    /\ register_catalogs(paths)
    /\ backup' = [backup EXCEPT !.catalogs = paths, !.copied = [archives |-> {}]]
    /\ UNCHANGED <<dirs, database, owner, registry, retain, restore, collect, saved, exported, retains>>

(* A blob that is read is checked against its name; one that is missing    *)
(* ends the backup.                                                        *)
CopyArchive(p) ==
    /\ backup # None /\ backup.copied # None
    /\ p \in backup.catalogs
    /\ dirs[p].archive \notin backup.copied.archives
    /\ Audited(p)
    /\ backup' = [backup EXCEPT !.copied.archives = @ \union {dirs[p].archive}]
    /\ UNCHANGED <<dirs, database, owner, registry, retain, restore, collect, saved, exported, retains>>

(* backup.json comes last.                                                 *)
PublishBackup ==
    /\ backup # None /\ backup.copied # None
    /\ backup.copied.archives = CapturedArchives(backup)
    /\ saved' = [captured |-> backup.captured, archives |-> backup.copied.archives]
    /\ backup' = None
    /\ UNCHANGED <<dirs, database, owner, registry, retain, restore, collect, exported, retains>>

EndBackup ==
    /\ backup # None
    /\ backup' = None
    /\ UNCHANGED <<dirs, database, owner, registry, retain, restore, collect, saved, exported, retains>>

-----------------------------------------------------------------------------
(* Restore: every file is copied and checked, the archives are audited,    *)
(* the database is opened over them and compared with what was captured,   *)
(* and restore.json makes it a database.  A restore that stops leaves      *)
(* files nobody uses.                                                      *)
Destination(n) == <<"restored", n>>

StartRestore ==
    /\ saved # None
    /\ restore = None
    /\ "restored" \notin DOMAIN database
    /\ \A n \in Heights : dirs[Destination(n)] = NoDirectory
    /\ restore' = [copied |-> {}, catalogs |-> {}]
    /\ UNCHANGED <<dirs, database, owner, registry, retain, backup, collect, saved, exported, retains>>

RestoreArchive(n) ==
    /\ restore # None
    /\ n \in saved.archives \ restore.copied
    /\ dirs' = [dirs EXCEPT ![Destination(n)] = Directory(n)]
    /\ restore' = [restore EXCEPT !.copied = @ \union {n}]
    /\ UNCHANGED <<database, owner, registry, retain, backup, collect, saved, exported, retains>>

PublishRestore ==
    LET catalogs == {Destination(n) : n \in saved.archives}
    IN  /\ restore # None
        /\ restore.copied = saved.archives
        /\ register_catalogs(catalogs)
        /\ database' = ("restored" :> saved.captured) @@ database
        /\ owner' = [owner EXCEPT !["restored"] = Restorer]
        /\ restore' = [restore EXCEPT !.catalogs = catalogs]
        /\ UNCHANGED <<dirs, registry, retain, backup, collect, saved, exported, retains>>

EndRestore ==
    /\ restore # None
    /\ restore' = None
    /\ owner' = Ended(Restorer)
    /\ UNCHANGED <<dirs, database, registry, retain, backup, collect, saved, exported, retains>>

-----------------------------------------------------------------------------
Next ==
    \/ NodeOpen \/ NodeClose \/ Commit
    \/ \E p \in Exports : Export(p)
    \/ \E p \in Paths, first, last \in Heights, hot_from \in {MaxHeight, MaxHeight + 1} :
           first <= last /\ StartRetain(p, first, last, hot_from)
    \/ offload_block \/ EndRetain
    \/ /\ collect = None
       /\ \E keepers, candidates \in SUBSET {p \in Paths : dirs[p] # NoDirectory} :
              StartCollect(keepers, candidates)
    \/ CheckPins
    \/ \E p \in Paths : open_candidate(p) \/ begin(p) \/ unlink(p)
    \/ EndCollect
    \/ StartBackup
    \/ \E paths \in SUBSET {p \in Paths : dirs[p] # NoDirectory} : RegisterBackup(paths)
    \/ \E p \in Paths : CopyArchive(p)
    \/ PublishBackup \/ EndBackup
    \/ StartRestore \/ (\E n \in Heights : RestoreArchive(n)) \/ PublishRestore \/ EndRestore

Spec == Init /\ [][Next]_vars

-----------------------------------------------------------------------------
(* Every block a database gave away can be read: its pin leads to an       *)
(* archive with its manifest and that block in it, in the node's database  *)
(* and in one that was restored, and a published backup brings with it     *)
(* every archive its database pins.  No order of retention, collection,    *)
(* backup and restore, stopped anywhere, leaves a pin to nothing (collect, *)
(* offload_block, backup, restore).                                        *)
PinsReadable ==
    /\ \A d \in DOMAIN database : \A h \in DOMAIN database[d].cold :
           \E p \in Paths :
               /\ dirs[p].state = "manifest.json"
               /\ dirs[p].archive = database[d].cold[h]
               /\ <<"block", h>> \in dirs[p].blobs
    /\ saved # None =>
           {saved.captured.cold[h] : h \in DOMAIN saved.captured.cold} \subseteq saved.archives

(* Nothing that was ever archived is lost: every block, handoff record and *)
(* program of a bundle that was published is still in a bundle an audit    *)
(* accepts, however many collections have run or died (Coverage::check).   *)
HistoryKept ==
    \A n \in exported : \A b \in Lasting(n) :
        \E p \in Paths : Audited(p) /\ b \in dirs[p].blobs

-----------------------------------------------------------------------------
(***************************************************************************)
(* A toolchain or a set of build inputs packed into blobs and assembled    *)
(* again.  Packing reads each source file chunk by chunk while its owner   *)
(* may still write to it; assembling reads the chunks from an archive that *)
(* may have been damaged, and puts each file in place once it is whole,    *)
(* into a directory that does not tell upper from lower case.              *)
(*                                                                         *)
(* A file name is a sequence of components, a content a sequence of bytes; *)
(* a blob is named by the bytes that were hashed.                          *)
(***************************************************************************)

CONSTANTS Plans,        \* functions from file names to their first content
          Contents,     \* what an owner may write
          chunk_bytes,  \* most bytes of a chunk
          Lower,        \* component -> component in lower case
          MaxWrites     \* bound on the owners' writes

VARIABLES plan,      \* name -> content when packing began
          sources,   \* name -> [content, version]
          reading,   \* the file being packed: [name, version, length, chunks]
          package,   \* name -> chunks, of the files packed
          blobs,     \* chunk -> the bytes its file really holds
          assembled, \* name -> content, of the files in place
          step,      \* names, packing, packed, assembling, done or refused
          writes

packageVars == <<plan, sources, reading, package, blobs, assembled, step, writes>>

-----------------------------------------------------------------------------
LowerAll(name) == [i \in DOMAIN name |-> Lower[name[i]]]

Directories(name) == {SubSeq(name, 1, n) : n \in 1..(Len(name) - 1)}

(* No two files fall together on a file system that folds case, no file is *)
(* also a directory, and a directory is spelt one way.                     *)
names(files) ==
    \A f, g \in files :
        /\ LowerAll(f) = LowerAll(g) => f = g
        /\ LowerAll(f) \notin {LowerAll(d) : d \in Directories(g)}
        /\ \A d \in Directories(f), e \in Directories(g) : LowerAll(d) = LowerAll(e) => d = e

PackageInit ==
    /\ plan \in Plans
    /\ sources = [n \in DOMAIN plan |-> [content |-> plan[n], version |-> 0]]
    /\ reading = None
    /\ package = <<>>
    /\ blobs = <<>>
    /\ assembled = <<>>
    /\ step = "names"
    /\ writes = 0

(* An owner rewrites a source in place; its time stamps change.            *)
Write(n, content) ==
    /\ step = "packing"
    /\ writes < MaxWrites
    /\ sources' = [sources EXCEPT ![n] = [content |-> content, version |-> @.version + 1]]
    /\ writes' = writes + 1
    /\ UNCHANGED <<plan, reading, package, blobs, assembled, step>>

-----------------------------------------------------------------------------
CheckNames ==
    /\ step = "names"
    /\ step' = IF names(DOMAIN plan) THEN "packing" ELSE "refused"
    /\ UNCHANGED <<plan, sources, reading, package, blobs, assembled, writes>>

(* Sources are packed in the order of their names; here in any.            *)
OpenSource(n) ==
    /\ step = "packing"
    /\ reading = None
    /\ n \notin DOMAIN package
    /\ reading' = [name |-> n, version |-> sources[n].version,
                   remaining |-> Len(sources[n].content), chunks |-> <<>>]
    /\ UNCHANGED <<plan, sources, package, blobs, assembled, step, writes>>

(* One chunk, from where the last one ended, of whatever is there now.     *)
ReadChunk ==
    LET offset == Len(FlattenSeq(reading.chunks))
        content == sources[reading.name].content
        wanted == IF reading.remaining < chunk_bytes THEN reading.remaining ELSE chunk_bytes
        chunk == SubSeq(content, offset + 1, offset + wanted)
    IN  /\ step = "packing"
        /\ reading # None
        /\ reading.remaining > 0
        /\ IF Len(content) < offset + wanted
           THEN step' = "refused" /\ UNCHANGED <<reading, blobs>>
           ELSE /\ reading' = [reading EXCEPT !.remaining = @ - wanted, !.chunks = Append(@, chunk)]
                /\ blobs' = (chunk :> chunk) @@ blobs
                /\ UNCHANGED step
        /\ UNCHANGED <<plan, sources, package, assembled, writes>>

(* The file's time stamps are what they were when it was opened.           *)
unchanged(n, version) == sources[n].version = version

CloseSource ==
    /\ step = "packing"
    /\ reading # None
    /\ reading.remaining = 0
    /\ IF /\ Len(sources[reading.name].content) <= Len(FlattenSeq(reading.chunks))
          /\ unchanged(reading.name, reading.version)
       THEN /\ package' = (reading.name :> reading.chunks) @@ package
            /\ step' = IF DOMAIN package \union {reading.name} = DOMAIN plan THEN "packed" ELSE step
       ELSE step' = "refused" /\ UNCHANGED package
    /\ reading' = None
    /\ UNCHANGED <<plan, sources, blobs, assembled, writes>>

-----------------------------------------------------------------------------
(* A blob of the archive is damaged.                                       *)
Damage(c) ==
    /\ step \in {"packed", "assembling"}
    /\ c \in DOMAIN blobs
    /\ writes < MaxWrites
    /\ blobs' = [blobs EXCEPT ![c] = <<>>]
    /\ writes' = writes + 1
    /\ UNCHANGED <<plan, sources, reading, package, assembled, step>>

(* A chunk is copied when its bytes are the ones it is named by.           *)
copy_blob(c) == blobs[c] = c

Whole(n) == \A i \in DOMAIN package[n] : copy_blob(package[n][i])

(* The whole archive is audited before the first file.                     *)
StartAssemble ==
    /\ step = "packed"
    /\ step' = IF \A n \in DOMAIN package : Whole(n) THEN "assembling" ELSE "refused"
    /\ UNCHANGED <<plan, sources, reading, package, blobs, assembled, writes>>

(* A place that is taken, under whatever spelling, is not overwritten.     *)
Taken(n) ==
    \E m \in DOMAIN assembled :
        \/ LowerAll(m) = LowerAll(n)
        \/ LowerAll(m) \in {LowerAll(d) : d \in Directories(n)}
        \/ LowerAll(n) \in {LowerAll(d) : d \in Directories(m)}

(* A file is put in place when all its chunks were good on this read.      *)
AssembleFile(n) ==
    /\ step = "assembling"
    /\ n \in DOMAIN package \ DOMAIN assembled
    /\ IF Whole(n) /\ ~Taken(n)
       THEN /\ assembled' = (n :> FlattenSeq(package[n])) @@ assembled
            /\ step' = IF DOMAIN assembled \union {n} = DOMAIN package THEN "done" ELSE step
       ELSE step' = "refused" /\ UNCHANGED assembled
    /\ UNCHANGED <<plan, sources, reading, package, blobs, writes>>

PackageNext ==
    \/ CheckNames
    \/ \E n \in DOMAIN plan, content \in Contents : Write(n, content)
    \/ \E n \in DOMAIN plan : OpenSource(n) \/ AssembleFile(n)
    \/ ReadChunk \/ CloseSource \/ StartAssemble
    \/ \E c \in DOMAIN blobs : Damage(c)

PackageSpec == PackageInit /\ [][PackageNext]_packageVars

-----------------------------------------------------------------------------
(* What comes out is what went in: a packed file is one content its source *)
(* had, never the beginning of one and the end of another, a file that is  *)
(* put in place is the packed one, and a package of undamaged blobs whose  *)
(* names were accepted is assembled to the last file (pack_files and       *)
(* assemble_file_package).                                                 *)
AssembledIsSource ==
    /\ \A n \in DOMAIN package :
           FlattenSeq(package[n]) \in Contents \union {plan[n]}
    /\ \A n \in DOMAIN assembled : assembled[n] = FlattenSeq(package[n])
    /\ step = "refused" /\ DOMAIN package = DOMAIN plan => \E c \in DOMAIN blobs : ~copy_blob(c)
=============================================================================
