---------------------------- MODULE SyncEngine ----------------------------
(***************************************************************************)
(* The synchronisation of one Canvas course: sources/canvas.py reads it,   *)
(* services/sync.py stores what changed, downloads files and notices what  *)
(* is gone, services/downloader.py keeps the files' versions.  A run is    *)
(* started by the scheduler every two minutes and by several requests; no  *)
(* lock keeps runs apart.  Each item is stored in a transaction of its own *)
(* that SQLite serialises from its first write on, so a file's transaction *)
(* keeps other writers waiting while the file is downloaded.               *)
(*                                                                         *)
(* Left out: pages, modules and announcements, which are stored like       *)
(* assignments without a grade; hidden files; websites; the health shown   *)
(* for a source; what happens to an event later (see AnalysisQueue).       *)
(***************************************************************************)
EXTENDS Integers, Sequences, FiniteSets

CONSTANTS
    Assignments, Files,  \* what Canvas can list in the course
    Runs,                \* runs that can be under way at a time
    None,                \* no row, no run, not seen
    MaxVersion,          \* bound on a file's versions
    MaxChanges           \* bound on what teachers change

Items == Assignments \union Files

VARIABLES
    listed,    \* Canvas: items in the index of their kind
    body,      \* Canvas: files that an assignment's description embeds
    graded,    \* Canvas: assignments with a released grade
    version,   \* Canvas: the version of each file
    changes,   \* changes made so far
    rows,      \* source_items with their latest snapshot and download, by id
    events,    \* change_events, by what their semantic_key is made of
    complete,  \* the source's baseline_complete
    writer,    \* the run whose transaction has written something
    pc,        \* where each run stands
    baseline,  \* the run is the source's first complete one
    fetched,   \* what it read of each item, None if nothing
    bare,      \* assignments it read without their description
    failed,    \* the kinds that are no complete inventory
    todo,      \* items still to be stored
    loaded,    \* the item being stored and the row it was found to have
    missing,   \* rows found to be missing from the inventory
    unseen     \* history: where a file, or an assignment, was not, at some
               \* time in the run

canvas == <<listed, body, graded, version, changes>>
database == <<rows, events, complete>>
reading == <<baseline, fetched, bare, failed>>
runs == <<writer, pc, reading, todo, loaded, missing>>
vars == <<canvas, database, runs, unseen>>

Versions == 1..MaxVersion

(* What an item's hash is made of. *)
Contents == [grade : BOOLEAN, body : SUBSET Files, version : 0..MaxVersion]
Assigned(isGraded, files) == [grade |-> isGraded, body |-> files, version |-> 0]
FileOf(v) == [grade |-> FALSE, body |-> {}, version |-> v]

(* quiet: history, what the row has now was found by the baseline.         *)
Row == [last : Contents, removed : BOOLEAN, bytes : 0..MaxVersion, quiet : BOOLEAN]
Event == [item : Items, row : Nat, type : {"graded", "new", "metadata", "removed"},
          old : Contents \union {None}, new : Contents \union {None}]

ASSUME SyncAssumption ==
    /\ Assignments \cap Files = {}
    /\ None \notin Runs \union Items \union Contents \union Row
    /\ MaxVersion \in Nat \ {0}
    /\ MaxChanges \in Nat

Kinds == {"assignment", "file"}
Places == {"index"} \union Assignments
NoLoad == [item |-> None]

TypeOK ==
    /\ listed \in SUBSET Items
    /\ body \in [Assignments -> SUBSET Files]
    /\ graded \in SUBSET Assignments
    /\ version \in [Files -> Versions]
    /\ changes \in 0..MaxChanges
    /\ rows \in [Items -> Seq(Row)]
    /\ events \in SUBSET Event
    /\ complete \in BOOLEAN
    /\ writer \in Runs \union {None}
    /\ pc \in [Runs -> {"idle", "fetch", "files", "assignments", "merge",
                     "store", "write", "download", "close"}]
    /\ baseline \in [Runs -> BOOLEAN]
    /\ fetched \in [Runs -> [Items -> Contents \union {None}]]
    /\ bare \in [Runs -> SUBSET Assignments]
    /\ failed \in [Runs -> SUBSET Kinds]
    /\ todo \in [Runs -> SUBSET Items]
    /\ \A r \in Runs : loaded[r] = NoLoad \/ loaded[r].item \in Items
    /\ \A r \in Runs : \A m \in missing[r] : m.item \in Items /\ m.row \in DOMAIN rows[m.item]
    /\ unseen \in [Runs -> SUBSET (Places \X Items)]

Init ==
    /\ listed \in SUBSET Items
    /\ body \in [Assignments -> SUBSET Files]
    /\ graded \in SUBSET Assignments
    /\ version = [f \in Files |-> 1]
    /\ changes = 0
    /\ rows = [i \in Items |-> <<>>]
    /\ events = {}
    /\ complete = FALSE
    /\ writer = None
    /\ pc = [r \in Runs |-> "idle"]
    /\ baseline = [r \in Runs |-> FALSE]
    /\ fetched = [r \in Runs |-> [i \in Items |-> None]]
    /\ bare = [r \in Runs |-> {}]
    /\ failed = [r \in Runs |-> {}]
    /\ todo = [r \in Runs |-> {}]
    /\ loaded = [r \in Runs |-> NoLoad]
    /\ missing = [r \in Runs |-> {}]
    /\ unseen = [r \in Runs |-> {}]

-----------------------------------------------------------------------------
(* Canvas.  A file can be reached through the index and through the        *)
(* descriptions of the assignments that embed it.                          *)

Reachable(f) == f \in listed \/ \E a \in Assignments \cap listed : f \in body[a]

Absent ==
    ({"index"} \X (Items \ listed))
        \union {p \in Assignments \X Files : p[1] \notin listed \/ p[2] \notin body[p[1]]}

Teacher ==
    /\ changes < MaxChanges
    /\ changes' = changes + 1
    /\ \/ \E i \in Items :
              /\ listed' = (listed \ {i}) \union ({i} \ listed)
              /\ UNCHANGED <<body, graded, version>>
       \/ \E a \in Assignments, f \in Files :
              /\ body' = [body EXCEPT ![a] = (@ \ {f}) \union ({f} \ @)]
              /\ UNCHANGED <<listed, graded, version>>
       \/ \E a \in Assignments :
              /\ graded' = (graded \ {a}) \union ({a} \ graded)
              /\ UNCHANGED <<listed, body, version>>
       \/ \E f \in Files :
              /\ version[f] < MaxVersion
              /\ version' = [version EXCEPT ![f] = @ + 1]
              /\ UNCHANGED <<listed, body, graded>>
    /\ unseen' = [r \in Runs |-> IF pc[r] = "idle" THEN {} ELSE unseen[r] \union Absent']
    /\ UNCHANGED <<database, runs>>

-----------------------------------------------------------------------------
(* A run reads the course.  The lists are asked for at the same time.      *)

Goes(r, to) == pc' = [pc EXCEPT ![r] = to]

Start(r) ==
    /\ pc[r] = "idle"
    /\ Goes(r, "fetch")
    /\ baseline' = [baseline EXCEPT ![r] = ~complete]
    /\ unseen' = [unseen EXCEPT ![r] = Absent]
    /\ UNCHANGED <<canvas, database, writer, fetched, bare, failed, todo, loaded, missing>>

Fails(r, kind) == failed' = [failed EXCEPT ![r] = @ \union {kind}] /\ UNCHANGED fetched

Reads(r, new) ==
    /\ fetched' = [fetched EXCEPT ![r] = [i \in Items |-> IF i \in DOMAIN new THEN new[i] ELSE @[i]]]
    /\ UNCHANGED failed

(* Of some assignments the list has no description, and the request for    *)
(* the details may fail.                                                   *)
ListAssignments(r) ==
    /\ pc[r] \in {"fetch", "assignments"}
    /\ Goes(r, IF pc[r] = "fetch" THEN "files" ELSE "merge")
    /\ \/ Fails(r, "assignment") /\ UNCHANGED bare
       \/ \E undescribed \in SUBSET (Assignments \cap listed) :
              /\ bare' = [bare EXCEPT ![r] = undescribed]
              /\ Reads(r, [a \in Assignments \cap listed |->
                     Assigned(a \in graded, IF a \in undescribed THEN {} ELSE body[a])])
    /\ UNCHANGED <<canvas, database, writer, baseline, todo, loaded, missing, unseen>>

ListFiles(r) ==
    /\ pc[r] \in {"fetch", "files"}
    /\ Goes(r, IF pc[r] = "fetch" THEN "assignments" ELSE "merge")
    /\ \/ Fails(r, "file")
       \/ Reads(r, [f \in Files \cap listed |-> FileOf(version[f])])
    /\ UNCHANGED <<canvas, database, writer, baseline, bare, todo, loaded, missing, unseen>>

(* _merge_page_files: an embedded file that is not in the index is asked   *)
(* for by its id.  Unless all of this worked, the files are no complete    *)
(* inventory.                                                              *)
FilesIncompleteIfAsked(r, got, wanted) == got # wanted  \* seeded: a failed list is forgotten
FilesIncomplete(r, got, wanted) == got # wanted \/ "assignment" \in failed[r] \/ bare[r] # {}

MergeFiles(r) ==
    LET described == {a \in Assignments \ bare[r] : fetched[r][a] # None}
        wanted == {f \in UNION {fetched[r][a].body : a \in described} : fetched[r][f] = None}
    IN /\ pc[r] = "merge"
       /\ \E got \in SUBSET {f \in wanted : Reachable(f)} :
              /\ fetched' = [fetched EXCEPT ![r] =
                     [i \in Items |-> IF i \in got THEN FileOf(version[i]) ELSE @[i]]]
              /\ todo' = [todo EXCEPT ![r] = {i \in Items : fetched'[r][i] # None}]
              /\ failed' = [failed EXCEPT ![r] =
                     IF FilesIncomplete(r, got, wanted) THEN @ \union {"file"} ELSE @]
       /\ Goes(r, "store")
       /\ UNCHANGED <<canvas, database, writer, baseline, bare, loaded, missing, unseen>>

-----------------------------------------------------------------------------
(* store_observation: the row is looked up ...                             *)
LookUp(r, i) ==
    /\ pc[r] = "store"
    /\ i \in todo[r]
    /\ todo' = [todo EXCEPT ![r] = @ \ {i}]
    /\ loaded' = [loaded EXCEPT ![r] =
           IF rows[i] = <<>> THEN [item |-> i, row |-> None]
           ELSE [item |-> i, row |-> rows[i][1]]]
    /\ Goes(r, "write")
    /\ UNCHANGED <<canvas, database, writer, reading, missing, unseen>>

(* ... and compared with what was read, except that a description that     *)
(* could not be read is no change.                                         *)
Old(r) == IF loaded[r].row = None THEN None ELSE loaded[r].row.last

Seen(r) ==
    LET i == loaded[r].item
        new == fetched[r][i]
    IN IF i \in bare[r] /\ Old(r) # None THEN [new EXCEPT !.body = Old(r).body] ELSE new

IsGradeRelease(old, new) == new.grade /\ (old = None \/ ~old.grade)

ReportsFirst(i, old, new) == i \in Files \/ (new.grade /\ old = None)  \* seeded: only new items
Reports(i, old, new) == i \in Files \/ IsGradeRelease(old, new)

(* The row gets the next id when it is inserted. *)
Observation(r) ==
    LET i == loaded[r].item
    IN [item |-> i, row |-> IF Old(r) = None THEN Len(rows[i]) + 1 ELSE 1,
        type |-> IF i \notin Files THEN "graded" ELSE IF Old(r) = None THEN "new" ELSE "metadata",
        old |-> Old(r), new |-> Seen(r)]

Emits(r) ==
    /\ Seen(r) # Old(r)
    /\ Old(r) = None => ~baseline[r]
    /\ Reports(loaded[r].item, Old(r), Seen(r))
    /\ Observation(r) \notin events

(* The item's transaction, with the file it downloaded. *)
Quiet(i, new) == i \in Files \/ new.grade

Inserted(r, downloaded) ==
    [last |-> Seen(r), removed |-> FALSE, bytes |-> downloaded,
     quiet |-> baseline[r] /\ Quiet(loaded[r].item, Seen(r))]

Updated(r, row, downloaded) ==
    [last |-> IF Seen(r) = Old(r) THEN row.last ELSE Seen(r),
     removed |-> row.removed /\ ~loaded[r].row.removed,
     bytes |-> IF downloaded = 0 THEN row.bytes ELSE downloaded,
     quiet |-> loaded[r].row.quiet /\ Quiet(loaded[r].item, Seen(r))]

Commit(r, downloaded) ==
    LET i == loaded[r].item
    IN /\ rows' = [rows EXCEPT ![i] =
              IF Old(r) = None
              THEN Append(rows[i], Inserted(r, downloaded))
              ELSE [rows[i] EXCEPT ![1] = Updated(r, rows[i][1], downloaded)]]
       /\ events' = IF Emits(r) THEN events \union {Observation(r)} ELSE events
       /\ loaded' = [loaded EXCEPT ![r] = NoLoad]
       /\ Goes(r, "store")

(* _sync_file: the file is downloaded if it was not, or if its metadata    *)
(* changed.                                                                *)
DownloadsOnce(r) == loaded[r].item \in Files /\ Old(r) = None  \* seeded: no later versions
Downloads(r) ==
    /\ loaded[r].item \in Files
    /\ (IF Old(r) = None THEN TRUE ELSE loaded[r].row.bytes = 0) \/ Emits(r)

Store(r) ==
    /\ pc[r] = "write"
    /\ writer = None
    /\ ~Downloads(r)
    /\ Commit(r, 0)
    /\ UNCHANGED <<canvas, complete, writer, reading, todo, missing, unseen>>

Insert(r) ==
    /\ pc[r] = "write"
    /\ writer = None
    /\ Downloads(r)
    /\ writer' = r
    /\ Goes(r, "download")
    /\ UNCHANGED <<canvas, database, reading, todo, loaded, missing, unseen>>

Download(r) ==
    /\ pc[r] = "download"
    /\ Commit(r, version[loaded[r].item])
    /\ writer' = None
    /\ UNCHANGED <<canvas, complete, reading, todo, missing, unseen>>

-----------------------------------------------------------------------------
(* _reconcile_canvas: what is not in a complete inventory is gone.         *)
Kind(i) == IF i \in Files THEN "file" ELSE "assignment"

Removal(m) == [item |-> m.item, row |-> m.row, type |-> "removed", old |-> m.old, new |-> None]

Compare(r) ==
    LET gone == {i \in Items : Kind(i) \notin failed[r] /\ fetched[r][i] = None}
        found == UNION {{[item |-> i, row |-> k, old |-> rows[i][k].last] :
                             k \in {n \in DOMAIN rows[i] : ~rows[i][n].removed}} : i \in gone}
    IN /\ pc[r] = "store"
       /\ todo[r] = {}
       /\ missing' = [missing EXCEPT ![r] =
              {[item |-> m.item, row |-> m.row, old |-> m.old,
                report |-> ~baseline[r] /\ Removal(m) \notin events] : m \in found}]
       /\ Goes(r, "close")
       /\ UNCHANGED <<canvas, database, writer, reading, todo, loaded, unseen>>

Ends(r) ==
    /\ Goes(r, "idle")
    /\ baseline' = [baseline EXCEPT ![r] = FALSE]
    /\ fetched' = [fetched EXCEPT ![r] = [i \in Items |-> None]]
    /\ bare' = [bare EXCEPT ![r] = {}]
    /\ failed' = [failed EXCEPT ![r] = {}]
    /\ todo' = [todo EXCEPT ![r] = {}]
    /\ loaded' = [loaded EXCEPT ![r] = NoLoad]
    /\ missing' = [missing EXCEPT ![r] = {}]
    /\ unseen' = [unseen EXCEPT ![r] = {}]

(* semantic_key is unique: a removal that another run reported meanwhile   *)
(* makes this one fail.                                                    *)
Close(r) ==
    LET reported == {Removal(m) : m \in {n \in missing[r] : n.report}}
    IN /\ pc[r] = "close"
       /\ writer = None
       /\ reported \cap events = {}
       /\ rows' = [i \in Items |-> [k \in DOMAIN rows[i] |->
              IF \E m \in missing[r] : m.item = i /\ m.row = k
              THEN [rows[i][k] EXCEPT !.removed = TRUE] ELSE rows[i][k]]]
       /\ events' = events \union reported
       /\ complete' = TRUE
       /\ Ends(r)
       /\ UNCHANGED <<canvas, writer>>

(* Anything else that is raised, a lock that is waited for too long, a     *)
(* cancelled request or the end of the process: the transaction is rolled  *)
(* back, and the run goes no further with this course.                     *)
Fail(r) ==
    /\ pc[r] # "idle"
    /\ writer' = IF writer = r THEN None ELSE writer
    /\ Ends(r)
    /\ UNCHANGED <<canvas, database>>

-----------------------------------------------------------------------------
Step(r) ==
    \/ Start(r) \/ ListAssignments(r) \/ ListFiles(r) \/ MergeFiles(r)
    \/ \E i \in Items : LookUp(r, i)
    \/ Store(r) \/ Insert(r) \/ Download(r)
    \/ Compare(r) \/ Close(r) \/ Fail(r)

Next == Teacher \/ \E r \in Runs : Step(r)

Spec == Init /\ [][Next]_vars

-----------------------------------------------------------------------------
(* A grade that is known to be released, and a file that is known, have    *)
(* been reported, or were there when the course was first read: in which   *)
(* order and state the lists were read, and wherever earlier runs failed   *)
(* (sync.py:1082-1141).  Runs that overlap can break this: one that read   *)
(* an older state writes it over a newer one.                              *)
NothingUnreported ==
    \A i \in Items : \A k \in DOMAIN rows[i] :
        Quiet(i, rows[i][k].last) =>
            \/ rows[i][k].quiet
            \/ \E e \in events : e.item = i /\ e.row = k /\ e.type \in {"graded", "new"}

(* "Canvas item is no longer present after full reconciliation."           *)
(* (sync.py:850): nothing is marked as removed that could be found all the *)
(* time the run was reading, be it only as an attachment.                  *)
RemovalIsReal ==
    \A r \in Runs : pc[r] = "close" =>
        \A m \in missing[r] :
            \A p \in IF m.item \in Files THEN Places ELSE {"index"} : <<p, m.item>> \in unseen[r]

(* The newest download of a file is not older than what is known of it.    *)
DownloadsKeepUp ==
    \A f \in Files : \A k \in DOMAIN rows[f] : rows[f][k].bytes >= rows[f][k].last.version

=============================================================================
