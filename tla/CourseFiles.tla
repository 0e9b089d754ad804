----------------------------- MODULE CourseFiles -----------------------------
(* The files of one course folder and its export folder:                    *)
(* services/downloader.py. A version is written to disk, then recorded in a  *)
(* transaction that is committed later; at the start of the backend every    *)
(* record is audited against the disk and legacy names are corrected, all in *)
(* one transaction. The items here have one name and one title, the case in  *)
(* which they meet. File types, the names themselves and what makes a file   *)
(* valid are abstracted.                                                     *)
EXTENDS Integers, Sequences, FiniteSets

CONSTANTS Items,     \* source items
          Documents, \* what an item's file may be
          Invalid,   \* an answer that is no such file
          Mine,      \* a file that the user put into the export folder, or edited there
          None,
          MaxFiles,  \* bound on records
          MaxStamps  \* bound on names with a timestamp

VARIABLES files,       \* downloaded_files, by id
          draft,       \* the same as the open transaction sees them, or None
          step,        \* the transaction: saving or auditing, and how far
          disk,        \* what each path holds
          torn,        \* history: items whose export was written and not committed
          interrupted  \* history: records renamed by an audit that was not committed

vars == <<files, draft, step, disk, torn, interrupted>>

(* Managed paths: the name, the name with a digest, the legacy name, and the *)
(* name with a timestamp and a serial. Exports: the title, or the title with *)
(* a digest of the item's URL.                                               *)
Name == <<"name", 0>>
Legacy == <<"legacy", 0>>
Stamped == {"stamp"} \X (1..MaxStamps)
WithDigest(d) == <<"name", d>>
Title == <<"title", 0>>
TitleOf(i) == <<"title", i>>
Exports == {Title} \union {TitleOf(i) : i \in Items}
Paths == {Name, Legacy} \union Stamped \union {WithDigest(d) : d \in Documents} \union Exports
Record == [item : Items, content : Documents \union {Invalid}, path : Paths \union {None},
           status : {"VALID", "MISSING", "INVALID_DOWNLOAD"},
           export : Exports \union {None}, current : BOOLEAN]
Idle == [kind |-> "idle"]
Running == step = Idle

Of(rows, i) == {k \in DOMAIN rows : rows[k].item = i}
Latest(rows, i) == {k \in Of(rows, i) : \A l \in Of(rows, i) : l <= k}

TypeOK ==
    /\ files \in Seq(Record) /\ Len(files) <= MaxFiles
    /\ draft = None \/ draft \in Seq(Record)
    /\ disk \in [Paths -> Documents \union {Mine, None}]
    /\ torn \subseteq Items /\ interrupted \subseteq 1..MaxFiles

(* Nothing, or one file that an older version of the program downloaded.     *)
Init ==
    /\ \/ files = <<>> /\ disk = [p \in Paths |-> None]
       \/ \E i \in Items, d \in Documents :
          /\ files = <<[item |-> i, content |-> d, path |-> Legacy, status |-> "VALID",
                        export |-> None, current |-> FALSE]>>
          /\ disk = [p \in Paths |-> IF p = Legacy THEN d ELSE None]
    /\ draft = files /\ step = [kind |-> "audit", next |-> 1]
    /\ torn = {} /\ interrupted = {}

-----------------------------------------------------------------------------
(* save_bytes *)

(* versioned_path: a name that no file has. *)
NextStamp == {n \in Stamped : disk[n] = None /\ \A m \in Stamped : disk[m] = None => n[2] <= m[2]}
NextVersion(i) == Cardinality(Of(files, i)) + 1
FreshFor(version) == IF version = 1 /\ disk[Name] = None THEN {Name} ELSE NextStamp

Save(i, d) ==
    /\ Running /\ Len(files) < MaxFiles
    /\ \A k \in Latest(files, i) : files[k].content # d
    /\ \E path \in IF d = Invalid THEN {None} ELSE FreshFor(NextVersion(i)) :
          /\ draft' = Append(files, [item |-> i, content |-> d, path |-> path,
                                     status |-> IF d = Invalid THEN "INVALID_DOWNLOAD" ELSE "VALID",
                                     export |-> None, current |-> FALSE])
          /\ disk' = IF d = Invalid THEN disk ELSE [disk EXCEPT ![path] = d]
          /\ step' = [kind |-> IF d = Invalid THEN "commit" ELSE "export", next |-> Len(files) + 1]
    /\ UNCHANGED <<files, torn, interrupted>>

(* The version is recorded already: only its export is renewed. *)
SaveAgain(i) ==
    /\ Running
    /\ \E k \in Latest(files, i) :
          /\ files[k].status = "VALID" /\ disk[files[k].path] # None
          /\ step' = [kind |-> "export", next |-> k]
    /\ draft' = files
    /\ UNCHANGED <<files, disk, torn, interrupted>>

-----------------------------------------------------------------------------
(* _export *)

ManagedByAny(i, target) == \E k \in DOMAIN draft : draft[k].export = target  \* seeded: whoever's
Managed(i, target) == \E k \in Of(draft, i) : draft[k].export = target

Target(k) ==
    IF disk[Title] # None /\ ~Managed(draft[k].item, Title) /\ disk[Title] # draft[k].content
    THEN TitleOf(draft[k].item) ELSE Title

Exported(k) ==
    LET target == Target(k) IN
    /\ draft' = [draft EXCEPT ![k].export = target, ![k].current = TRUE]
    /\ disk' = [disk EXCEPT ![target] = draft[k].content]

\* The export folder is not there.
Unavailable(k) == draft' = [draft EXCEPT ![k].current = FALSE] /\ UNCHANGED disk

Export ==
    /\ step.kind = "export"
    /\ Exported(step.next) \/ Unavailable(step.next)
    /\ step' = [step EXCEPT !.kind = "commit"]
    /\ UNCHANGED <<files, torn, interrupted>>

Commit ==
    /\ step.kind = "commit"
    /\ files' = draft /\ draft' = None /\ step' = Idle
    /\ torn' = torn \ {draft[step.next].item}
    /\ UNCHANGED <<disk, interrupted>>

(* Writing the export or the commit fails: what was written stays on disk.   *)
Touched == IF step.kind = "commit" THEN {draft[step.next].item} ELSE {}

SaveFails ==
    /\ step.kind \in {"export", "commit"}
    /\ draft' = None /\ step' = Idle
    /\ torn' = torn \union Touched
    /\ UNCHANGED <<files, disk, interrupted>>

-----------------------------------------------------------------------------
(* audit_existing *)

Renamed(k) ==
    IF draft[k].path # Legacy THEN draft[k].path
    ELSE IF disk[Name] # None THEN WithDigest(draft[k].content) ELSE Name

Present(r) == IF r.path = None THEN FALSE ELSE disk[r.path] # None
IsLatest(k) == k \in Latest(draft, draft[k].item)
Checked(k) == [draft EXCEPT ![k].path = Renamed(k), ![k].status = "VALID"]

AuditMissing ==
    /\ step.kind = "audit" /\ step.next \in DOMAIN draft
    /\ LET r == draft[step.next] IN
       /\ ~Present(r)
       /\ draft' = IF r.status = "INVALID_DOWNLOAD" THEN draft
                   ELSE [draft EXCEPT ![step.next].status = "MISSING"]
    /\ step' = [step EXCEPT !.next = @ + 1]
    /\ UNCHANGED <<files, disk, torn, interrupted>>

(* One record: its name is corrected on disk, too; the latest is exported    *)
(* next.                                                                     *)
AuditPresent ==
    /\ step.kind = "audit" /\ step.next \in DOMAIN draft
    /\ LET r == draft[step.next]
           to == Renamed(step.next)
       IN /\ Present(r)
          /\ draft' = Checked(step.next)
          /\ disk' = IF to = r.path THEN disk
                     ELSE [disk EXCEPT ![to] = r.content, ![r.path] = None]
          /\ step' = IF IsLatest(step.next) THEN [step EXCEPT !.kind = "audit export"]
                     ELSE [step EXCEPT !.next = @ + 1]
    /\ UNCHANGED <<files, torn, interrupted>>

AuditExport ==
    /\ step.kind = "audit export"
    /\ Exported(step.next) \/ Unavailable(step.next)
    /\ step' = [kind |-> "audit", next |-> step.next + 1]
    /\ UNCHANGED <<files, torn, interrupted>>

AuditEnds ==
    /\ step.kind = "audit" /\ step.next \notin DOMAIN draft
    /\ files' = draft /\ draft' = None /\ step' = Idle
    /\ torn' = {i \in torn : \E k \in Latest(draft, i) : ~draft[k].current}
    /\ UNCHANGED <<disk, interrupted>>

(* The backend stops, at any time, or an audit fails and it does not start.  *)
Restart ==
    /\ step # [kind |-> "audit", next |-> 1]
    /\ draft' = files /\ step' = [kind |-> "audit", next |-> 1]
    /\ torn' = torn \union Touched
    /\ interrupted' = interrupted \union
          (IF Running THEN {} ELSE {k \in DOMAIN files : files[k].path # draft[k].path})
    /\ UNCHANGED <<files, disk>>

(* A file of the user's own, or an export the user writes to; one at a time. *)
UserWrites(p) ==
    /\ \A q \in Exports : disk[q] # Mine
    /\ disk' = [disk EXCEPT ![p] = Mine]
    /\ UNCHANGED <<files, draft, step, torn, interrupted>>

Next ==
    \/ \E i \in Items : SaveAgain(i) \/ \E d \in Documents \union {Invalid} : Save(i, d)
    \/ Export \/ Commit \/ SaveFails
    \/ AuditMissing \/ AuditPresent \/ AuditExport \/ AuditEnds \/ Restart
    \/ \E p \in Exports : UserWrites(p)

Spec == Init /\ [][Next]_vars

-----------------------------------------------------------------------------
(* file_content *)
Served(k) == IF files[k].status = "VALID" THEN disk[files[k].path] ELSE None

Shared(rows, p) ==
    \E k, l \in DOMAIN rows : rows[k].export = p /\ rows[l].export = p /\ rows[k].item # rows[l].item

LatestExported(rows, i) ==
    \A k \in Latest(rows, i) : rows[k].current /\ ~Shared(rows, rows[k].export) =>
        disk[rows[k].export] \in {rows[k].content, Mine}

(* Whatever fails, whenever the backend stops and whatever the user does to  *)
(* the export folder, while no transaction is open: a file that is served is *)
(* the version that was recorded; one is missing only if an audit that       *)
(* renamed it was interrupted; and an export that is shown as current is the *)
(* item's latest version, or the user's, unless two items of equal content   *)
(* came to share it or its last renewal failed.                              *)
FilesAreKept ==
    Running =>
        /\ \A k \in DOMAIN files :
              /\ files[k].status = "VALID" => Served(k) = files[k].content
              /\ files[k].status = "MISSING" => k \in interrupted
        /\ \A i \in Items \ torn : LatestExported(files, i)
=============================================================================
