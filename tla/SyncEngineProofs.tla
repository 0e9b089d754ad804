-------------------------- MODULE SyncEngineProofs --------------------------
(***************************************************************************)
(* For any number of runs that overlap, and any assignments and files:     *)
(* what a run marks as removed was not where it could have been found, and *)
(* the newest download of a file is not older than what is known of it.    *)
(* For runs one at a time, no grade and no new file stays unreported.      *)
(***************************************************************************)
EXTENDS SyncEngine, TLAPS

Load == [item : Items, row : Row \union {None}]
Missing == [item : Items, row : Nat, old : Contents, report : BOOLEAN]

CanvasTypes ==
    /\ listed \in SUBSET Items
    /\ body \in [Assignments -> SUBSET Files]
    /\ graded \in SUBSET Assignments
    /\ version \in [Files -> Versions]
    /\ changes \in 0..MaxChanges

DatabaseTypes ==
    /\ rows \in [Items -> Seq(Row)]
    /\ events \in SUBSET Event
    /\ complete \in BOOLEAN

ReadingTypes ==
    /\ baseline \in [Runs -> BOOLEAN]
    /\ fetched \in [Runs -> [Items -> Contents \union {None}]]
    /\ bare \in [Runs -> SUBSET Assignments]
    /\ failed \in [Runs -> SUBSET Kinds]

RunTypes ==
    /\ writer \in Runs \union {None}
    /\ pc \in [Runs -> {"idle", "fetch", "files", "assignments", "merge",
                        "store", "write", "download", "close"}]
    /\ todo \in [Runs -> SUBSET Items]
    /\ loaded \in [Runs -> Load \union {NoLoad}]
    /\ missing \in [Runs -> SUBSET Missing]

HistoryTypes == unseen \in [Runs -> SUBSET (Places \X Items)]

(* The item being stored was read, and so were those still to be stored.   *)
Storing(r) == pc[r] \in {"write", "download"}

InHand ==
    \A r \in Runs :
        /\ Storing(r) => loaded[r] \in Load /\ fetched[r][loaded[r].item] # None
        /\ pc[r] = "download" => loaded[r].item \in Files
        /\ pc[r] = "store" \/ Storing(r) => \A i \in todo[r] : fetched[r][i] # None

RowsExist == \A r \in Runs : \A m \in missing[r] : m.row \in DOMAIN rows[m.item]

TInv ==
    /\ CanvasTypes
    /\ DatabaseTypes
    /\ ReadingTypes
    /\ RunTypes
    /\ HistoryTypes
    /\ InHand
    /\ RowsExist

USE SyncAssumption

LEMMA TypesOK == TInv => TypeOK
  <1> SUFFICES ASSUME TInv PROVE TypeOK
    OBVIOUS
  <1>1. \A r \in Runs : loaded[r] = NoLoad \/ loaded[r].item \in Items
    BY DEF TInv, RunTypes, Load
  <1>2. \A r \in Runs : \A m \in missing[r] : m.item \in Items /\ m.row \in DOMAIN rows[m.item]
    BY DEF TInv, RunTypes, RowsExist, Missing
  <1> QED
    BY <1>1, <1>2 DEF TInv, CanvasTypes, DatabaseTypes, ReadingTypes, RunTypes, HistoryTypes, TypeOK

LEMMA Disjoint == \A f \in Files : f \notin Assignments /\ f \in Items
  BY DEF Items

LEMMA InitTypes == Init => TInv
  <1> SUFFICES ASSUME Init PROVE TInv
    OBVIOUS
  <1>1. CanvasTypes
    BY DEF Init, CanvasTypes, Versions
  <1>2. DatabaseTypes
    <2>1. rows \in [Items -> Seq(Row)]
      BY DEF Init
    <2>2. events \in SUBSET Event /\ complete \in BOOLEAN
      BY DEF Init
    <2> QED BY <2>1, <2>2 DEF DatabaseTypes
  <1>3. ReadingTypes
    BY DEF Init, ReadingTypes
  <1>4. RunTypes /\ HistoryTypes
    <2>1. loaded \in [Runs -> Load \union {NoLoad}]
      BY DEF Init
    <2>2. missing \in [Runs -> SUBSET Missing] /\ todo \in [Runs -> SUBSET Items]
      BY DEF Init
    <2> QED BY <2>1, <2>2 DEF Init, RunTypes, HistoryTypes
  <1>5. InHand /\ RowsExist
    BY DEF Init, InHand, Storing, RowsExist
  <1> QED BY <1>1, <1>2, <1>3, <1>4, <1>5 DEF TInv

LEMMA AbsentTypes == Absent \in SUBSET (Places \X Items)
  BY DEF Absent, Places, Items

LEMMA TeacherTypes == ASSUME TInv, Teacher PROVE TInv'
  <1>1. CanvasTypes'
    <2>1. changes' \in 0..MaxChanges
      BY DEF Teacher, TInv, CanvasTypes
    <2>2. CASE \E i \in Items : /\ listed' = (listed \ {i}) \union ({i} \ listed)
                                /\ UNCHANGED <<body, graded, version>>
      BY <2>1, <2>2 DEF TInv, CanvasTypes
    <2>3. CASE \E a \in Assignments, f \in Files :
                 /\ body' = [body EXCEPT ![a] = (@ \ {f}) \union ({f} \ @)]
                 /\ UNCHANGED <<listed, graded, version>>
      BY <2>1, <2>3 DEF TInv, CanvasTypes
    <2>4. CASE \E a \in Assignments : /\ graded' = (graded \ {a}) \union ({a} \ graded)
                                      /\ UNCHANGED <<listed, body, version>>
      BY <2>1, <2>4 DEF TInv, CanvasTypes
    <2>5. CASE \E f \in Files : /\ version[f] < MaxVersion
                                /\ version' = [version EXCEPT ![f] = @ + 1]
                                /\ UNCHANGED <<listed, body, graded>>
      BY <2>1, <2>5 DEF TInv, CanvasTypes, Versions
    <2> QED BY <2>2, <2>3, <2>4, <2>5 DEF Teacher
  <1>2. HistoryTypes'
    <2>1. Absent' \in SUBSET (Places \X Items)
      BY DEF Absent, Places, Items
    <2> QED BY <2>1 DEF Teacher, TInv, HistoryTypes
  <1>3. UNCHANGED <<database, runs>>
    BY DEF Teacher
  <1> QED BY <1>1, <1>2, <1>3 DEF TInv, DatabaseTypes, ReadingTypes, RunTypes, InHand, Storing,
             RowsExist, database, runs, reading

(* Reading leaves the rows alone, and nothing is in hand yet. *)
LEMMA FetchTypes ==
    ASSUME TInv, NEW r \in Runs,
           Start(r) \/ ListAssignments(r) \/ ListFiles(r) \/ MergeFiles(r)
    PROVE  TInv'
  <1>1. CanvasTypes' /\ DatabaseTypes' /\ RowsExist'
    BY DEF Start, ListAssignments, ListFiles, MergeFiles, canvas, database, TInv, CanvasTypes,
           DatabaseTypes, RowsExist
  <1>2. HistoryTypes'
    BY AbsentTypes DEF Start, ListAssignments, ListFiles, MergeFiles, TInv, HistoryTypes
  <1>3. \A a \in Assignments, files \in SUBSET Files : Assigned(a \in graded, files) \in Contents
    BY DEF Assigned, Contents
  <1>4. \A f \in Files : FileOf(version[f]) \in Contents
    BY DEF FileOf, Contents, TInv, CanvasTypes, Versions
  <1>5. ASSUME NEW new, Reads(r, new), \A i \in Items \cap DOMAIN new : new[i] \in Contents
        PROVE  fetched' \in [Runs -> [Items -> Contents \union {None}]]
    <2>1. [i \in Items |-> IF i \in DOMAIN new THEN new[i] ELSE fetched[r][i]]
             \in [Items -> Contents \union {None}]
      BY <1>5 DEF TInv, ReadingTypes
    <2> QED BY <1>5, <2>1 DEF Reads, TInv, ReadingTypes
  <1>6. CASE Start(r)
    <2>1. ReadingTypes'
      BY <1>6 DEF Start, TInv, ReadingTypes, DatabaseTypes
    <2>2. RunTypes'
      BY <1>6 DEF Start, Goes, TInv, RunTypes
    <2>3. InHand'
      BY <1>6 DEF Start, Goes, TInv, RunTypes, InHand, Storing
    <2> QED BY <1>1, <1>2, <2>1, <2>2, <2>3 DEF TInv
  <1>7. CASE ListAssignments(r)
    <2>1. bare' \in [Runs -> SUBSET Assignments]
      BY <1>7 DEF ListAssignments, TInv, ReadingTypes
    <2>6. failed' \in [Runs -> SUBSET Kinds]
      BY <1>7 DEF ListAssignments, Fails, Reads, TInv, ReadingTypes, Kinds
    <2>2. fetched' \in [Runs -> [Items -> Contents \union {None}]]
      <3>1. CASE Fails(r, "assignment")
        BY <3>1 DEF Fails, TInv, ReadingTypes
      <3>2. ASSUME NEW undescribed \in SUBSET (Assignments \cap listed),
                   Reads(r, [a \in Assignments \cap listed |->
                       Assigned(a \in graded, IF a \in undescribed THEN {} ELSE body[a])])
            PROVE  fetched' \in [Runs -> [Items -> Contents \union {None}]]
        <4>1. \A a \in Assignments : (IF a \in undescribed THEN {} ELSE body[a]) \in SUBSET Files
          BY DEF TInv, CanvasTypes
        <4> QED BY <1>3, <1>5, <3>2, <4>1
      <3> QED BY <1>7, <3>1, <3>2 DEF ListAssignments
    <2>3. ReadingTypes'
      BY <1>7, <2>1, <2>2, <2>6 DEF ListAssignments, TInv, ReadingTypes
    <2>4. RunTypes'
      BY <1>7 DEF ListAssignments, Goes, TInv, RunTypes
    <2>5. InHand'
      <3>1. \A s \in Runs : /\ s # r => pc'[s] = pc[s] /\ fetched'[s] = fetched[s]
                            /\ ~(pc'[r] = "store" \/ Storing(r)')
        BY <1>7 DEF ListAssignments, Goes, Fails, Reads, TInv, RunTypes, ReadingTypes, Storing
      <3> QED BY <1>7, <3>1 DEF ListAssignments, TInv, InHand, Storing
    <2> QED BY <1>1, <1>2, <2>3, <2>4, <2>5 DEF TInv
  <1>8. CASE ListFiles(r)
    <2>1. failed' \in [Runs -> SUBSET Kinds]
      BY <1>8 DEF ListFiles, Fails, Reads, TInv, ReadingTypes, Kinds
    <2>2. fetched' \in [Runs -> [Items -> Contents \union {None}]]
      <3>1. CASE Fails(r, "file")
        BY <3>1 DEF Fails, TInv, ReadingTypes
      <3>2. CASE Reads(r, [f \in Files \cap listed |-> FileOf(version[f])])
        BY <1>4, <1>5, <3>2
      <3> QED BY <1>8, <3>1, <3>2 DEF ListFiles
    <2>3. ReadingTypes'
      BY <1>8, <2>1, <2>2 DEF ListFiles, TInv, ReadingTypes
    <2>4. RunTypes'
      BY <1>8 DEF ListFiles, Goes, TInv, RunTypes
    <2>5. InHand'
      <3>1. \A s \in Runs : /\ s # r => pc'[s] = pc[s] /\ fetched'[s] = fetched[s]
                            /\ ~(pc'[r] = "store" \/ Storing(r)')
        BY <1>8 DEF ListFiles, Goes, Fails, Reads, TInv, RunTypes, ReadingTypes, Storing
      <3> QED BY <1>8, <3>1 DEF ListFiles, TInv, InHand, Storing
    <2> QED BY <1>1, <1>2, <2>3, <2>4, <2>5 DEF TInv
  <1>9. CASE MergeFiles(r)
    <2>1. PICK got \in SUBSET Files :
            /\ fetched' = [fetched EXCEPT ![r] =
                   [i \in Items |-> IF i \in got THEN FileOf(version[i]) ELSE @[i]]]
            /\ todo' = [todo EXCEPT ![r] = {i \in Items : fetched'[r][i] # None}]
            /\ failed'[r] \in {failed[r], failed[r] \union {"file"}}
            /\ failed' = [failed EXCEPT ![r] = failed'[r]]
      <3>1. {f \in UNION {fetched[r][a].body : a \in {a \in Assignments \ bare[r] : fetched[r][a] # None}} :
                fetched[r][f] = None} \subseteq Files
        <4>1. \A a \in Assignments : fetched[r][a] # None => fetched[r][a].body \subseteq Files
          BY DEF TInv, ReadingTypes, Contents, Items
        <4> QED BY <4>1
      <3>2. r \in DOMAIN failed
        BY DEF TInv, ReadingTypes
      <3> QED BY <1>9, <3>1, <3>2 DEF MergeFiles
    <2>2. fetched' \in [Runs -> [Items -> Contents \union {None}]]
      <3>1. [i \in Items |-> IF i \in got THEN FileOf(version[i]) ELSE fetched[r][i]]
              \in [Items -> Contents \union {None}]
        BY <1>4 DEF TInv, ReadingTypes
      <3> QED BY <2>1, <3>1 DEF TInv, ReadingTypes
    <2>3. failed' \in [Runs -> SUBSET Kinds]
      BY <2>1 DEF TInv, ReadingTypes, Kinds
    <2>4. ReadingTypes'
      BY <1>9, <2>2, <2>3 DEF MergeFiles, TInv, ReadingTypes
    <2>5. todo' \in [Runs -> SUBSET Items] /\ todo'[r] = {i \in Items : fetched'[r][i] # None}
      BY <2>1 DEF TInv, RunTypes
    <2>6. RunTypes'
      BY <1>9, <2>5 DEF MergeFiles, Goes, TInv, RunTypes
    <2>7. InHand'
      <3>1. \A s \in Runs \ {r} : pc'[s] = pc[s] /\ fetched'[s] = fetched[s] /\ todo'[s] = todo[s]
        BY <1>9, <2>1 DEF MergeFiles, Goes, TInv, RunTypes, ReadingTypes
      <3>2. pc'[r] = "store" /\ loaded' = loaded
        BY <1>9 DEF MergeFiles, Goes, TInv, RunTypes
      <3> QED BY <2>5, <3>1, <3>2 DEF TInv, InHand, Storing
    <2> QED BY <1>1, <1>2, <2>4, <2>6, <2>7 DEF TInv
  <1> QED BY <1>6, <1>7, <1>8, <1>9

-----------------------------------------------------------------------------
(* What a transaction does to an item's rows. *)

LEMMA Hand ==
    ASSUME TInv, NEW r \in Runs, Storing(r)
    PROVE  /\ loaded[r].item \in Items /\ loaded[r].row \in Row \union {None}
           /\ Old(r) \in Contents \union {None}
           /\ Old(r) = None <=> loaded[r].row = None
           /\ Seen(r) \in Contents
           /\ Seen(r).version = fetched[r][loaded[r].item].version
           /\ Seen(r).grade = fetched[r][loaded[r].item].grade
           /\ fetched[r][loaded[r].item] \in Contents
  <1>1. loaded[r].item \in Items /\ loaded[r].row \in Row \union {None}
    BY DEF TInv, InHand, Load
  <1>2. Old(r) \in Contents \union {None} /\ (Old(r) = None <=> loaded[r].row = None)
    BY <1>1 DEF Old, Row
  <1>3. fetched[r][loaded[r].item] \in Contents
    BY <1>1 DEF TInv, InHand, ReadingTypes
  <1>4. /\ Seen(r) \in Contents
        /\ Seen(r).version = fetched[r][loaded[r].item].version
        /\ Seen(r).grade = fetched[r][loaded[r].item].grade
    <2>1. ASSUME Old(r) # None
          PROVE  /\ [fetched[r][loaded[r].item] EXCEPT !.body = Old(r).body] \in Contents
                 /\ [fetched[r][loaded[r].item] EXCEPT !.body = Old(r).body].version
                      = fetched[r][loaded[r].item].version
                 /\ [fetched[r][loaded[r].item] EXCEPT !.body = Old(r).body].grade
                      = fetched[r][loaded[r].item].grade
      BY <1>2, <1>3, <2>1 DEF Contents
    <2> QED BY <1>3, <2>1 DEF Seen
  <1> QED BY <1>1, <1>2, <1>3, <1>4

LEMMA Committed ==
    ASSUME TInv, NEW r \in Runs, Storing(r), NEW d \in 0..MaxVersion, Commit(r, d)
    PROVE  LET i == loaded[r].item
           IN /\ rows' \in [Items -> Seq(Row)]
              /\ \A j \in Items \ {i} : rows'[j] = rows[j]
              /\ Old(r) = None => /\ rows'[i] = Append(rows[i], Inserted(r, d))
                                  /\ Inserted(r, d) \in Row
              /\ Old(r) # None =>
                    /\ DOMAIN rows'[i] = DOMAIN rows[i]
                    /\ \A k \in DOMAIN rows[i] \ {1} : rows'[i][k] = rows[i][k]
                    /\ 1 \in DOMAIN rows[i] => rows'[i][1] = Updated(r, rows[i][1], d)
  <1> DEFINE i == loaded[r].item
  <1>1. i \in Items /\ rows[i] \in Seq(Row)
    BY Hand DEF TInv, DatabaseTypes
  <1>2. CASE Old(r) = None
    <2>1. Inserted(r, d) \in Row
      <3>1. (baseline[r] /\ Quiet(i, Seen(r))) \in BOOLEAN
        OBVIOUS
      <3> QED BY <3>1, Hand DEF Inserted, Row
    <2>2. rows' = [rows EXCEPT ![i] = Append(rows[i], Inserted(r, d))]
      BY <1>2 DEF Commit
    <2>3. Append(rows[i], Inserted(r, d)) \in Seq(Row)
      BY <1>1, <2>1
    <2> QED BY <1>1, <1>2, <2>1, <2>2, <2>3 DEF TInv, DatabaseTypes
  <1>3. CASE Old(r) # None
    <2>1. rows' = [rows EXCEPT ![i] = [rows[i] EXCEPT ![1] = Updated(r, rows[i][1], d)]]
      BY <1>3 DEF Commit
    <2>2. 1 \in DOMAIN rows[i] => Updated(r, rows[i][1], d) \in Row
      <3> SUFFICES ASSUME 1 \in DOMAIN rows[i] PROVE Updated(r, rows[i][1], d) \in Row
        OBVIOUS
      <3>1. rows[i][1] \in Row
        BY <1>1
      <3>2. rows[i][1].last \in Contents /\ rows[i][1].bytes \in 0..MaxVersion
        BY <3>1 DEF Row
      <3>3. /\ (rows[i][1].removed /\ ~loaded[r].row.removed) \in BOOLEAN
            /\ (loaded[r].row.quiet /\ Quiet(i, Seen(r))) \in BOOLEAN
        OBVIOUS
      <3> QED BY <3>2, <3>3, Hand DEF Updated, Row
    <2> DEFINE s == [rows[i] EXCEPT ![1] = Updated(r, rows[i][1], d)]
    <2>3. /\ DOMAIN s = DOMAIN rows[i]
          /\ \A k \in DOMAIN rows[i] \ {1} : s[k] = rows[i][k]
          /\ 1 \in DOMAIN rows[i] => s[1] = Updated(r, rows[i][1], d)
      OBVIOUS
    <2>4. s \in Seq(Row)
      <3>1. DOMAIN s = 1..Len(rows[i]) /\ Len(rows[i]) \in Nat
        BY <1>1, <2>3
      <3>2. \A k \in 1..Len(rows[i]) : s[k] \in Row
        BY <1>1, <2>2, <2>3, <3>1
      <3>3. s = [k \in 1..Len(rows[i]) |-> s[k]]
        BY <3>1
      <3> HIDE DEF s
      <3>4. s \in [1..Len(rows[i]) -> Row]
        BY <3>2, <3>3
      <3> QED BY <3>1, <3>4
    <2>5. rows' = [rows EXCEPT ![i] = s]
      BY <2>1
    <2> HIDE DEF s
    <2> QED BY <1>1, <1>3, <2>3, <2>4, <2>5 DEF TInv, DatabaseTypes
  <1> QED BY <1>2, <1>3

LEMMA Observed ==
    ASSUME TInv, NEW r \in Runs, Storing(r) PROVE Observation(r) \in Event
  <1>1. /\ loaded[r].item \in Items /\ Len(rows[loaded[r].item]) \in Nat
        /\ Old(r) \in Contents \union {None} /\ Seen(r) \in Contents \union {None}
    BY Hand DEF TInv, DatabaseTypes
  <1> QED BY <1>1 DEF Observation, Event

(* Only the committing run moves, and no row disappears. *)
LEMMA CommitTypes ==
    ASSUME TInv, NEW r \in Runs, Storing(r), NEW d \in 0..MaxVersion, Commit(r, d),
           writer' \in Runs \union {None},
           UNCHANGED <<canvas, complete, reading, todo, missing, unseen>>
    PROVE  TInv'
  <1> DEFINE i == loaded[r].item
  <1>1. rows' \in [Items -> Seq(Row)] /\ \A j \in Items : DOMAIN rows[j] \subseteq DOMAIN rows'[j]
    <2>1. i \in Items /\ rows[i] \in Seq(Row)
      BY Hand DEF TInv, DatabaseTypes
    <2>2. Old(r) = None => DOMAIN rows[i] \subseteq DOMAIN Append(rows[i], Inserted(r, d))
      BY <2>1, Committed
    <2> QED BY <2>2, Committed
  <1>2. events' \in SUBSET Event
    BY Observed DEF Commit, TInv, DatabaseTypes
  <1>3. CanvasTypes' /\ ReadingTypes' /\ HistoryTypes'
    BY DEF canvas, reading, TInv, CanvasTypes, ReadingTypes, HistoryTypes
  <1>4. loaded' = [loaded EXCEPT ![r] = NoLoad] /\ pc' = [pc EXCEPT ![r] = "store"]
    BY DEF Commit, Goes
  <1>5. RunTypes'
    BY <1>4 DEF TInv, RunTypes
  <1>6. InHand'
    BY <1>4 DEF reading, TInv, RunTypes, InHand, Storing
  <1>7. RowsExist'
    BY <1>1 DEF TInv, RunTypes, RowsExist, Missing
  <1> QED BY <1>1, <1>2, <1>3, <1>5, <1>6, <1>7 DEF TInv, DatabaseTypes

LEMMA StoreTypes ==
    ASSUME TInv, NEW r \in Runs,
           (\E i \in Items : LookUp(r, i)) \/ Store(r) \/ Insert(r) \/ Download(r)
    PROVE  TInv'
  <1>1. ASSUME NEW i \in Items, LookUp(r, i) PROVE TInv'
    <2> DEFINE l == IF rows[i] = <<>> THEN [item |-> i, row |-> None]
                    ELSE [item |-> i, row |-> rows[i][1]]
    <2>1. l \in Load
      <3>1. rows[i] \in Seq(Row)
        BY DEF TInv, DatabaseTypes
      <3>2. rows[i] # <<>> => rows[i][1] \in Row
        BY <3>1
      <3> QED BY <3>2 DEF Load
    <2>2. l.item = i
      OBVIOUS
    <2>3. loaded' = [loaded EXCEPT ![r] = l] /\ pc' = [pc EXCEPT ![r] = "write"]
      BY <1>1 DEF LookUp, Goes
    <2> HIDE DEF l
    <2>4. RunTypes'
      BY <1>1, <2>1, <2>3 DEF LookUp, TInv, RunTypes
    <2>5. InHand'
      <3>1. \A s \in Runs \ {r} : pc'[s] = pc[s] /\ loaded'[s] = loaded[s] /\ todo'[s] = todo[s]
        BY <1>1, <2>3 DEF LookUp, TInv, RunTypes
      <3>2. /\ pc'[r] = "write" /\ loaded'[r] = l /\ todo'[r] = todo[r] \ {i}
            /\ fetched' = fetched /\ fetched[r][i] # None
        BY <1>1, <2>3 DEF LookUp, reading, TInv, RunTypes, InHand, Storing
      <3> QED BY <1>1, <2>1, <2>2, <3>1, <3>2 DEF LookUp, TInv, InHand, Storing
    <2> QED BY <1>1, <2>4, <2>5 DEF LookUp, canvas, database, reading, TInv, CanvasTypes,
               DatabaseTypes, ReadingTypes, HistoryTypes, RowsExist
  <1>2. CASE Store(r)
    BY <1>2, CommitTypes DEF Store, Storing, TInv, RunTypes
  <1>3. CASE Insert(r)
    <2>1. pc' = [pc EXCEPT ![r] = "download"] /\ writer' = r
      BY <1>3 DEF Insert, Goes
    <2>2. RunTypes'
      BY <1>3, <2>1 DEF Insert, TInv, RunTypes
    <2>3. InHand'
      BY <1>3, <2>1 DEF Insert, Downloads, reading, TInv, RunTypes, InHand, Storing
    <2> QED BY <1>3, <2>2, <2>3 DEF Insert, canvas, database, reading, TInv, CanvasTypes,
               DatabaseTypes, ReadingTypes, HistoryTypes, RowsExist
  <1>4. CASE Download(r)
    <2>1. Storing(r)
      BY <1>4 DEF Download, Storing
    <2>2. version[loaded[r].item] \in 0..MaxVersion
      BY <1>4 DEF Download, TInv, InHand, CanvasTypes, Versions
    <2> QED BY <1>4, <2>1, <2>2, CommitTypes DEF Download
  <1> QED BY <1>1, <1>2, <1>3, <1>4

LEMMA EndTypes ==
    ASSUME TInv, NEW r \in Runs, Ends(r), writer' \in Runs \union {None},
           CanvasTypes', DatabaseTypes', \A i \in Items : DOMAIN rows'[i] = DOMAIN rows[i]
    PROVE  TInv'
  <1>1. ReadingTypes'
    <2>1. [i \in Items |-> None] \in [Items -> Contents \union {None}]
      OBVIOUS
    <2> QED BY <2>1 DEF Ends, TInv, ReadingTypes
  <1>2. RunTypes' /\ HistoryTypes'
    BY DEF Ends, Goes, TInv, RunTypes, HistoryTypes
  <1>3. InHand'
    BY DEF Ends, Goes, TInv, RunTypes, ReadingTypes, InHand, Storing
  <1>4. RowsExist'
    BY DEF Ends, TInv, RunTypes, RowsExist, Missing
  <1> QED BY <1>1, <1>2, <1>3, <1>4 DEF TInv

(* The rows that are found missing. *)
LEMMA Found ==
    ASSUME TInv, NEW r \in Runs, Compare(r), NEW m \in missing'[r]
    PROVE  /\ m.item \in Items /\ m.row \in DOMAIN rows[m.item]
           /\ m \in Missing
           /\ Kind(m.item) \notin failed[r] /\ fetched[r][m.item] = None
  <1> DEFINE gone == {i \in Items : Kind(i) \notin failed[r] /\ fetched[r][i] = None}
             found == UNION {{[item |-> i, row |-> k, old |-> rows[i][k].last] :
                                 k \in {n \in DOMAIN rows[i] : ~rows[i][n].removed}} : i \in gone}
  <1>1. missing'[r] = {[item |-> n.item, row |-> n.row, old |-> n.old,
                        report |-> ~baseline[r] /\ Removal(n) \notin events] : n \in found}
    BY DEF Compare, TInv, RunTypes
  <1>2. PICK n \in found : m = [item |-> n.item, row |-> n.row, old |-> n.old,
                                report |-> ~baseline[r] /\ Removal(n) \notin events]
    BY <1>1
  <1>3. PICK i \in gone : n \in {[item |-> i, row |-> k, old |-> rows[i][k].last] :
                                    k \in {l \in DOMAIN rows[i] : ~rows[i][l].removed}}
    BY <1>2
  <1>4. PICK k \in DOMAIN rows[i] : n = [item |-> i, row |-> k, old |-> rows[i][k].last]
    BY <1>3
  <1>5. k \in Nat /\ rows[i][k] \in Row
    BY <1>3 DEF TInv, DatabaseTypes
  <1>6. rows[i][k].last \in Contents
    BY <1>5 DEF Row
  <1>7. (~baseline[r] /\ Removal(n) \notin events) \in BOOLEAN
    OBVIOUS
  <1>8. m.item = i /\ m.row = k /\ m = [item |-> i, row |-> k, old |-> rows[i][k].last,
                                        report |-> ~baseline[r] /\ Removal(n) \notin events]
    BY <1>2, <1>4
  <1> QED BY <1>3, <1>5, <1>6, <1>7, <1>8 DEF Missing

LEMMA CloseTypes ==
    ASSUME TInv, NEW r \in Runs, Compare(r) \/ Close(r) \/ Fail(r) PROVE TInv'
  <1>1. CASE Compare(r)
    <2>1. missing' = [missing EXCEPT ![r] = missing'[r]] /\ missing'[r] \in SUBSET Missing
      <3>1. missing' = [missing EXCEPT ![r] = missing'[r]]
        BY <1>1 DEF Compare, TInv, RunTypes
      <3> QED BY <1>1, <3>1, Found
    <2>2. RowsExist'
      <3>1. \A s \in Runs \ {r} : missing'[s] = missing[s]
        BY <2>1 DEF TInv, RunTypes
      <3>2. rows' = rows
        BY <1>1 DEF Compare, database
      <3> QED BY <1>1, <3>1, <3>2, Found DEF TInv, RowsExist
    <2>3. RunTypes'
      BY <1>1, <2>1 DEF Compare, Goes, TInv, RunTypes
    <2>4. InHand'
      BY <1>1 DEF Compare, Goes, reading, TInv, RunTypes, InHand, Storing
    <2> QED BY <1>1, <2>2, <2>3, <2>4 DEF Compare, canvas, database, reading, TInv, CanvasTypes,
               DatabaseTypes, ReadingTypes, HistoryTypes
  <1>2. CASE Close(r)
    <2>1. \A i \in Items : rows'[i] \in Seq(Row) /\ DOMAIN rows'[i] = DOMAIN rows[i]
      <3> SUFFICES ASSUME NEW i \in Items PROVE rows'[i] \in Seq(Row) /\ DOMAIN rows'[i] = DOMAIN rows[i]
        OBVIOUS
      <3>1. rows[i] \in Seq(Row)
        BY DEF TInv, DatabaseTypes
      <3>6. \A row \in Row : [row EXCEPT !.removed = TRUE] \in Row
        BY DEF Row
      <3>2. \A k \in DOMAIN rows[i] : rows[i][k] \in Row /\ [rows[i][k] EXCEPT !.removed = TRUE] \in Row
        BY <3>1, <3>6
      <3>3. rows'[i] = [k \in DOMAIN rows[i] |->
              IF \E m \in missing[r] : m.item = i /\ m.row = k
              THEN [rows[i][k] EXCEPT !.removed = TRUE] ELSE rows[i][k]]
        BY <1>2 DEF Close
      <3>4. DOMAIN rows[i] = 1..Len(rows[i]) /\ Len(rows[i]) \in Nat
        BY <3>1
      <3>5. rows'[i] \in [1..Len(rows[i]) -> Row]
        BY <3>1, <3>2, <3>3, <3>4
      <3> QED BY <3>4, <3>5
    <2>2. rows' \in [Items -> Seq(Row)]
      BY <1>2, <2>1 DEF Close
    <2>3. \A m \in missing[r] : Removal(m) \in Event
      BY DEF TInv, RunTypes, Missing, Removal, Event
    <2>4. events' \in SUBSET Event
      BY <1>2, <2>3 DEF Close, TInv, DatabaseTypes
    <2>5. DatabaseTypes'
      BY <1>2, <2>2, <2>4 DEF Close, DatabaseTypes
    <2>6. CanvasTypes' /\ writer' \in Runs \union {None} /\ Ends(r)
      BY <1>2 DEF Close, canvas, TInv, CanvasTypes, RunTypes
    <2> QED BY <2>1, <2>5, <2>6, EndTypes
  <1>3. CASE Fail(r)
    BY <1>3, EndTypes DEF Fail, canvas, database, TInv, CanvasTypes, DatabaseTypes, RunTypes
  <1> QED BY <1>1, <1>2, <1>3

LEMMA TypesKept == ASSUME TInv, [Next]_vars PROVE TInv'
  <1>1. CASE UNCHANGED vars
    BY <1>1 DEF vars, canvas, database, runs, reading, TInv, CanvasTypes, DatabaseTypes,
       ReadingTypes, RunTypes, HistoryTypes, InHand, Storing, RowsExist
  <1> QED BY <1>1, TeacherTypes, FetchTypes, StoreTypes, CloseTypes DEF Next, Step

LEMMA TypeInvariance == Spec => []TInv
  BY InitTypes, TypesKept, PTL DEF Spec

(* The rows, and what runs hold of them, keep their types. *)
THEOREM SyncIsTyped == Spec => []TypeOK
  BY TypeInvariance, TypesOK, PTL

-----------------------------------------------------------------------------
(* Removals.  What a run has read of an inventory is complete unless it is *)
(* marked as failed: what it did not find there was absent at some time.   *)
HasAssignments(r) == pc[r] \in {"files", "merge", "store", "write", "download", "close"}
HasFiles(r) == pc[r] \in {"assignments", "merge", "store", "write", "download", "close"}
Merged(r) == pc[r] \in {"store", "write", "download", "close"}

Unread(r) ==
    /\ ~HasAssignments(r) => \A a \in Assignments : fetched[r][a] = None
    /\ ~HasFiles(r) => \A f \in Files : fetched[r][f] = None

AssignmentsSeen(r) ==
    HasAssignments(r) /\ "assignment" \notin failed[r] =>
        \A a \in Assignments :
            /\ fetched[r][a] = None => <<"index", a>> \in unseen[r]
            /\ a \notin bare[r] => \A f \in Files :
                  fetched[r][a] = None \/ f \notin fetched[r][a].body => <<a, f>> \in unseen[r]

FilesSeen(r) ==
    HasFiles(r) /\ "file" \notin failed[r] =>
        \A f \in Files : fetched[r][f] = None => <<"index", f>> \in unseen[r]

NowhereElse(r) ==
    Merged(r) /\ "file" \notin failed[r] =>
        \A f \in Files : fetched[r][f] = None => \A p \in Places : <<p, f>> \in unseen[r]

GoneIsUnseen(r) ==
    pc[r] = "close" => \A m \in missing[r] :
        \A p \in IF m.item \in Files THEN Places ELSE {"index"} : <<p, m.item>> \in unseen[r]

Witnessed(r) ==
    /\ pc[r] # "idle" => Absent \subseteq unseen[r]
    /\ Unread(r)
    /\ AssignmentsSeen(r)
    /\ FilesSeen(r)
    /\ NowhereElse(r)
    /\ GoneIsUnseen(r)

WInv == TInv /\ \A r \in Runs : Witnessed(r)

LEMMA NotListed ==
    /\ \A i \in Items \ listed : <<"index", i>> \in Absent
    /\ \A a \in Assignments, f \in Files : a \notin listed \/ f \notin body[a] => <<a, f>> \in Absent
  <1>1. \A a \in Assignments, f \in Files :
            <<a, f>> \in Assignments \X Files /\ <<a, f>>[1] = a /\ <<a, f>>[2] = f
    OBVIOUS
  <1> QED BY <1>1 DEF Absent

(* What a run has is kept, and what was unseen stays so. *)
LEMMA KeepsWitness ==
    ASSUME NEW r \in Runs, Witnessed(r), pc'[r] = pc[r], unseen[r] \subseteq unseen'[r],
           pc[r] # "idle" => Absent' \subseteq unseen'[r],
           fetched'[r] = fetched[r], bare'[r] = bare[r], failed'[r] = failed[r],
           missing'[r] = missing[r]
    PROVE  Witnessed(r)'
  <1>1. Unread(r)' /\ AssignmentsSeen(r)' /\ FilesSeen(r)'
    BY DEF Witnessed, Unread, AssignmentsSeen, FilesSeen, HasAssignments, HasFiles
  <1>2. NowhereElse(r)' /\ GoneIsUnseen(r)'
    BY DEF Witnessed, NowhereElse, GoneIsUnseen, Merged
  <1> QED BY <1>1, <1>2 DEF Witnessed

LEMMA InitWitness == Init => \A r \in Runs : Witnessed(r)
  <1> SUFFICES ASSUME Init, NEW r \in Runs PROVE Witnessed(r)
    OBVIOUS
  <1>1. pc[r] = "idle" /\ \A i \in Items : fetched[r][i] = None
    BY DEF Init
  <1> QED BY <1>1 DEF Witnessed, Unread, AssignmentsSeen, FilesSeen, NowhereElse, GoneIsUnseen,
             HasAssignments, HasFiles, Merged, Items

LEMMA TeacherWitness == ASSUME WInv, Teacher PROVE \A r \in Runs : Witnessed(r)'
  <1> SUFFICES ASSUME NEW r \in Runs PROVE Witnessed(r)'
    OBVIOUS
  <1>1. /\ pc'[r] = pc[r] /\ fetched'[r] = fetched[r] /\ bare'[r] = bare[r]
        /\ failed'[r] = failed[r] /\ missing'[r] = missing[r]
    BY DEF Teacher, runs, reading
  <1>2. unseen'[r] = IF pc[r] = "idle" THEN {} ELSE unseen[r] \union Absent'
    BY DEF Teacher
  <1>3. CASE pc[r] = "idle"
    BY <1>1, <1>3 DEF WInv, Witnessed, Unread, AssignmentsSeen, FilesSeen, NowhereElse,
       GoneIsUnseen, HasAssignments, HasFiles, Merged
  <1>4. CASE pc[r] # "idle"
    <2>1. unseen[r] \subseteq unseen'[r] /\ Absent' \subseteq unseen'[r]
      BY <1>2, <1>4
    <2> QED BY <1>1, <2>1, KeepsWitness DEF WInv
  <1> QED BY <1>3, <1>4

(* A run's step leaves the others alone. *)
Others(r) ==
    /\ \A s \in Runs \ {r} : /\ pc'[s] = pc[s] /\ fetched'[s] = fetched[s] /\ bare'[s] = bare[s]
                             /\ failed'[s] = failed[s] /\ missing'[s] = missing[s]
                             /\ unseen'[s] = unseen[s]
    /\ UNCHANGED canvas

LEMMA OthersWitness ==
    ASSUME WInv, NEW r \in Runs, Others(r), Witnessed(r)' PROVE \A s \in Runs : Witnessed(s)'
  <1>1. Absent' = Absent
    BY DEF Others, canvas, Absent
  <1>2. ASSUME NEW s \in Runs \ {r} PROVE Witnessed(s)'
    BY <1>1, <1>2, KeepsWitness DEF WInv, Others, Witnessed
  <1> QED BY <1>2

LEMMA StepOthers ==
    ASSUME TInv, NEW r \in Runs, Step(r) PROVE Others(r)
  <1>1. CASE Start(r) \/ ListAssignments(r) \/ ListFiles(r) \/ MergeFiles(r)
    BY <1>1 DEF Start, ListAssignments, ListFiles, MergeFiles, Goes, Fails, Reads, Others, TInv,
       ReadingTypes, RunTypes, HistoryTypes
  <1>2. CASE (\E i \in Items : LookUp(r, i)) \/ Insert(r) \/ Compare(r)
    BY <1>2 DEF LookUp, Insert, Compare, Goes, reading, Others, TInv, RunTypes
  <1>3. CASE Store(r) \/ Download(r)
    BY <1>3 DEF Store, Download, Commit, Goes, reading, Others, TInv, RunTypes
  <1>4. CASE Close(r) \/ Fail(r)
    BY <1>4 DEF Close, Fail, Ends, Goes, Others, TInv, ReadingTypes, RunTypes, HistoryTypes
  <1> QED BY <1>1, <1>2, <1>3, <1>4 DEF Step

LEMMA StartWitness == ASSUME WInv, NEW r \in Runs, Start(r) PROVE Witnessed(r)'
  <1>1. /\ pc[r] = "idle" /\ pc'[r] = "fetch" /\ unseen'[r] = Absent /\ Absent' = Absent
        /\ fetched' = fetched
    BY DEF Start, Goes, canvas, Absent, WInv, TInv, RunTypes, HistoryTypes
  <1> QED BY <1>1 DEF WInv, Witnessed, Unread, AssignmentsSeen, FilesSeen, NowhereElse,
             GoneIsUnseen, HasAssignments, HasFiles, Merged

LEMMA AssignmentsWitness == ASSUME WInv, NEW r \in Runs, ListAssignments(r) PROVE Witnessed(r)'
  <1>1. /\ pc[r] \in {"fetch", "assignments"}
        /\ pc'[r] = IF pc[r] = "fetch" THEN "files" ELSE "merge"
        /\ Absent' = Absent /\ unseen' = unseen /\ Absent \subseteq unseen[r]
    BY DEF ListAssignments, Goes, canvas, Absent, WInv, TInv, RunTypes, Witnessed
  <1>2. ~HasAssignments(r) /\ HasAssignments(r)' /\ (HasFiles(r)' <=> HasFiles(r)) /\ ~Merged(r)'
    BY <1>1 DEF HasAssignments, HasFiles, Merged
  <1>3. \A f \in Files : fetched'[r][f] = fetched[r][f]
    <2>1. \A f \in Files : f \notin Assignments /\ f \in Items
      BY Disjoint
    <2> QED BY <2>1 DEF ListAssignments, Fails, Reads, WInv, TInv, ReadingTypes
  <1>4. "file" \in failed'[r] <=> "file" \in failed[r]
    BY DEF ListAssignments, Fails, Reads, WInv, TInv, ReadingTypes
  <1>5. Unread(r)' /\ FilesSeen(r)'
    BY <1>1, <1>2, <1>3, <1>4 DEF WInv, Witnessed, Unread, FilesSeen
  <1>6. NowhereElse(r)' /\ GoneIsUnseen(r)'
    BY <1>1, <1>2 DEF NowhereElse, GoneIsUnseen
  <1>7. AssignmentsSeen(r)'
    <2>1. CASE Fails(r, "assignment")
      <3>1. "assignment" \in failed'[r]
        BY <2>1 DEF Fails, WInv, TInv, ReadingTypes
      <3> QED BY <3>1 DEF AssignmentsSeen
    <2>2. ASSUME NEW undescribed \in SUBSET (Assignments \cap listed),
                 bare' = [bare EXCEPT ![r] = undescribed],
                 Reads(r, [a \in Assignments \cap listed |->
                     Assigned(a \in graded, IF a \in undescribed THEN {} ELSE body[a])])
          PROVE  AssignmentsSeen(r)'
      <3>1. bare'[r] = undescribed
        BY <2>2 DEF WInv, TInv, ReadingTypes
      <3>2. \A a \in Assignments \cap listed :
                fetched'[r][a] = Assigned(a \in graded, IF a \in undescribed THEN {} ELSE body[a])
        BY <2>2 DEF Reads, WInv, TInv, ReadingTypes, Items
      <3>3. \A a \in Assignments \cap listed :
                a \notin undescribed => fetched'[r][a].body = body[a]
        <4>1. ASSUME NEW a \in Assignments \cap listed, a \notin undescribed
              PROVE  fetched'[r][a].body = body[a]
          <5>1. fetched'[r][a] = Assigned(a \in graded, body[a])
            BY <3>2, <4>1
          <5>2. \A shown, files : Assigned(shown, files).body = files
            BY DEF Assigned
          <5> QED BY <5>1, <5>2
        <4> QED BY <4>1
      <3>4. \A a \in Assignments \cap listed : fetched'[r][a] # None
        <4>1. \A a \in Assignments : (IF a \in undescribed THEN {} ELSE body[a]) \in SUBSET Files
          BY DEF WInv, TInv, CanvasTypes
        <4>2. \A a \in Assignments, files \in SUBSET Files : Assigned(a \in graded, files) \in Contents
          BY DEF Assigned, Contents
        <4>3. \A a \in Assignments \cap listed : fetched'[r][a] \in Contents
          BY <3>2, <4>1, <4>2
        <4> QED BY <4>3
      <3>5. \A a \in Assignments : fetched'[r][a] = None => <<"index", a>> \in unseen[r]
        BY <1>1, <3>4, NotListed DEF Items
      <3>6. \A a \in Assignments \ undescribed, f \in Files :
                fetched'[r][a] = None \/ f \notin fetched'[r][a].body => <<a, f>> \in unseen[r]
        BY <1>1, <3>3, <3>4, NotListed
      <3> QED BY <1>1, <3>1, <3>5, <3>6 DEF AssignmentsSeen
    <2> QED BY <2>1, <2>2 DEF ListAssignments
  <1> QED BY <1>1, <1>5, <1>6, <1>7 DEF Witnessed

LEMMA FilesWitness == ASSUME WInv, NEW r \in Runs, ListFiles(r) PROVE Witnessed(r)'
  <1>1. /\ pc[r] \in {"fetch", "files"}
        /\ pc'[r] = IF pc[r] = "fetch" THEN "assignments" ELSE "merge"
        /\ Absent' = Absent /\ unseen' = unseen /\ Absent \subseteq unseen[r] /\ bare' = bare
    BY DEF ListFiles, Goes, canvas, Absent, WInv, TInv, RunTypes, Witnessed
  <1>2. ~HasFiles(r) /\ HasFiles(r)' /\ (HasAssignments(r)' <=> HasAssignments(r)) /\ ~Merged(r)'
    BY <1>1 DEF HasAssignments, HasFiles, Merged
  <1>3. \A a \in Assignments : fetched'[r][a] = fetched[r][a]
    <2>1. \A a \in Assignments : a \notin Files /\ a \in Items
      BY Disjoint DEF Items
    <2> QED BY <2>1 DEF ListFiles, Fails, Reads, WInv, TInv, ReadingTypes
  <1>4. "assignment" \in failed'[r] <=> "assignment" \in failed[r]
    BY DEF ListFiles, Fails, Reads, WInv, TInv, ReadingTypes
  <1>5. Unread(r)' /\ AssignmentsSeen(r)'
    BY <1>1, <1>2, <1>3, <1>4 DEF WInv, Witnessed, Unread, AssignmentsSeen
  <1>6. NowhereElse(r)' /\ GoneIsUnseen(r)'
    BY <1>1, <1>2 DEF NowhereElse, GoneIsUnseen
  <1>7. FilesSeen(r)'
    <2>1. CASE Fails(r, "file")
      <3>1. "file" \in failed'[r]
        BY <2>1 DEF Fails, WInv, TInv, ReadingTypes
      <3> QED BY <3>1 DEF FilesSeen
    <2>2. CASE Reads(r, [f \in Files \cap listed |-> FileOf(version[f])])
      <3>1. \A f \in Files \cap listed : fetched'[r][f] = FileOf(version[f])
        BY <2>2 DEF Reads, WInv, TInv, ReadingTypes, Items
      <3>2. \A f \in Files : FileOf(version[f]) \in Contents
        BY DEF FileOf, Contents, WInv, TInv, CanvasTypes, Versions
      <3>3. \A f \in Files : fetched'[r][f] = None => f \in Items \ listed
        BY <3>1, <3>2 DEF Items
      <3> QED BY <1>1, <3>3, NotListed DEF FilesSeen
    <2> QED BY <2>1, <2>2 DEF ListFiles
  <1> QED BY <1>1, <1>5, <1>6, <1>7 DEF Witnessed

(* A file that no list has and no description that was read embeds.        *)
LEMMA MergeWitness == ASSUME WInv, NEW r \in Runs, MergeFiles(r) PROVE Witnessed(r)'
  <1> DEFINE described == {a \in Assignments \ bare[r] : fetched[r][a] # None}
             wanted == {f \in UNION {fetched[r][a].body : a \in described} : fetched[r][f] = None}
  <1>1. PICK got \in SUBSET {f \in wanted : Reachable(f)} :
          /\ fetched' = [fetched EXCEPT ![r] =
                 [i \in Items |-> IF i \in got THEN FileOf(version[i]) ELSE @[i]]]
          /\ failed' = [failed EXCEPT ![r] =
                 IF FilesIncomplete(r, got, wanted) THEN @ \union {"file"} ELSE @]
    BY DEF MergeFiles
  <1>2. /\ pc[r] = "merge" /\ pc'[r] = "store"
        /\ Absent' = Absent /\ unseen' = unseen /\ Absent \subseteq unseen[r] /\ bare' = bare
    BY DEF MergeFiles, Goes, canvas, Absent, WInv, TInv, RunTypes, Witnessed
  <1>3. HasAssignments(r) /\ HasAssignments(r)' /\ HasFiles(r) /\ HasFiles(r)'
    BY <1>2 DEF HasAssignments, HasFiles
  <1>4. got \subseteq Files /\ wanted \subseteq Files
    <2>1. \A a \in Assignments : fetched[r][a] # None => fetched[r][a].body \subseteq Files
      BY DEF WInv, TInv, ReadingTypes, Contents, Items
    <2> QED BY <2>1
  <1>5. \A i \in Items : fetched'[r][i] = IF i \in got THEN FileOf(version[i]) ELSE fetched[r][i]
    BY <1>1 DEF WInv, TInv, ReadingTypes
  <1>6. \A f \in Files : FileOf(version[f]) # None
    <2>1. \A f \in Files : FileOf(version[f]) \in Contents
      BY DEF FileOf, Contents, WInv, TInv, CanvasTypes, Versions
    <2> QED BY <2>1
  <1>7. failed'[r] = IF FilesIncomplete(r, got, wanted) THEN failed[r] \union {"file"} ELSE failed[r]
    BY <1>1 DEF WInv, TInv, ReadingTypes
  <1>8. \A a \in Assignments : fetched'[r][a] = fetched[r][a]
    BY <1>4, <1>5, Disjoint DEF Items
  <1>9. "assignment" \in failed'[r] <=> "assignment" \in failed[r]
    BY <1>7
  <1>10. Unread(r)' /\ AssignmentsSeen(r)'
    BY <1>2, <1>3, <1>8, <1>9 DEF WInv, Witnessed, Unread, AssignmentsSeen
  <1>11. FilesSeen(r)'
    BY <1>2, <1>3, <1>5, <1>6, <1>7, Disjoint DEF WInv, Witnessed, FilesSeen
  <1>12. NowhereElse(r)'
    <2> SUFFICES ASSUME "file" \notin failed'[r], NEW f \in Files, fetched'[r][f] = None, NEW p \in Places
                 PROVE  <<p, f>> \in unseen[r]
      BY <1>2 DEF NowhereElse
    <2>1. got = wanted /\ "assignment" \notin failed[r] /\ bare[r] = {}
      BY <1>7 DEF FilesIncomplete
    <2>2. f \notin got /\ fetched[r][f] = None
      BY <1>5, <1>6, Disjoint
    <2>3. CASE p = "index"
      BY <1>2, <1>3, <1>11, <2>3 DEF FilesSeen
    <2>4. CASE p \in Assignments
      <3>1. fetched[r][p] = None \/ f \notin fetched[r][p].body
        <4>1. f \notin wanted
          BY <2>1, <2>2
        <4> QED BY <2>1, <2>2, <2>4, <4>1
      <3> QED BY <1>3, <2>1, <2>4, <3>1 DEF WInv, Witnessed, AssignmentsSeen
    <2> QED BY <2>3, <2>4 DEF Places
  <1>13. GoneIsUnseen(r)'
    BY <1>2 DEF GoneIsUnseen
  <1> QED BY <1>2, <1>10, <1>11, <1>12, <1>13 DEF Witnessed

(* Storing items changes nothing of this. *)
LEMMA StoreWitness ==
    ASSUME WInv, NEW r \in Runs,
           (\E i \in Items : LookUp(r, i)) \/ Store(r) \/ Insert(r) \/ Download(r)
    PROVE  Witnessed(r)'
  <1>1. /\ Merged(r) /\ Merged(r)' /\ pc'[r] # "close"
        /\ UNCHANGED <<canvas, fetched, bare, failed, unseen>>
    BY DEF LookUp, Store, Insert, Download, Commit, Goes, reading, Merged, WInv, TInv, RunTypes
  <1>2. Absent' = Absent
    BY <1>1 DEF canvas, Absent
  <1>3. /\ HasAssignments(r) /\ HasAssignments(r)' /\ HasFiles(r) /\ HasFiles(r)' /\ pc[r] # "idle"
    BY <1>1 DEF Merged, HasAssignments, HasFiles
  <1> QED BY <1>1, <1>2, <1>3 DEF WInv, Witnessed, Unread, AssignmentsSeen, FilesSeen, NowhereElse,
             GoneIsUnseen

LEMMA CloseWitness ==
    ASSUME WInv, NEW r \in Runs, Compare(r) \/ Close(r) \/ Fail(r) PROVE Witnessed(r)'
  <1>1. CASE Compare(r)
    <2>1. /\ pc[r] = "store" /\ pc'[r] = "close"
          /\ UNCHANGED <<canvas, fetched, bare, failed, unseen>>
      BY <1>1 DEF Compare, Goes, reading, WInv, TInv, RunTypes
    <2>2. Absent' = Absent
      BY <2>1 DEF canvas, Absent
    <2>3. Unread(r)' /\ AssignmentsSeen(r)' /\ FilesSeen(r)' /\ NowhereElse(r)'
      BY <2>1 DEF WInv, Witnessed, Unread, AssignmentsSeen, FilesSeen, NowhereElse, HasAssignments,
         HasFiles, Merged
    <2>4. GoneIsUnseen(r)'
      <3> SUFFICES ASSUME NEW m \in missing'[r],
                          NEW p \in IF m.item \in Files THEN Places ELSE {"index"}
                   PROVE  <<p, m.item>> \in unseen[r]
        BY <2>1 DEF GoneIsUnseen
      <3>1. m.item \in Items /\ Kind(m.item) \notin failed[r] /\ fetched[r][m.item] = None
        BY <1>1, Found DEF WInv
      <3>2. CASE m.item \in Files
        BY <2>1, <3>1, <3>2 DEF Kind, WInv, Witnessed, NowhereElse, Merged
      <3>3. CASE m.item \notin Files
        BY <2>1, <3>1, <3>3 DEF Kind, Items, WInv, Witnessed, AssignmentsSeen, HasAssignments
      <3> QED BY <3>2, <3>3
    <2> QED BY <2>1, <2>2, <2>3, <2>4 DEF WInv, Witnessed
  <1>2. CASE Close(r) \/ Fail(r)
    <2>1. pc'[r] = "idle" /\ \A i \in Items : fetched'[r][i] = None
      BY <1>2 DEF Close, Fail, Ends, Goes, WInv, TInv, RunTypes, ReadingTypes
    <2> QED BY <2>1 DEF Witnessed, Unread, AssignmentsSeen, FilesSeen, NowhereElse, GoneIsUnseen,
               HasAssignments, HasFiles, Merged, Items
  <1> QED BY <1>1, <1>2

LEMMA WitnessKept == ASSUME WInv, [Next]_vars PROVE WInv'
  <1>1. TInv'
    BY TypesKept DEF WInv
  <1>2. CASE Teacher
    BY <1>1, <1>2, TeacherWitness DEF WInv
  <1>3. ASSUME NEW r \in Runs, Step(r) PROVE WInv'
    <2>1. Witnessed(r)'
      BY <1>3, StartWitness, AssignmentsWitness, FilesWitness, MergeWitness, StoreWitness,
         CloseWitness DEF Step
    <2>2. Others(r)
      BY <1>3, StepOthers DEF WInv
    <2> QED BY <1>1, <2>1, <2>2, OthersWitness DEF WInv
  <1>4. CASE UNCHANGED vars
    <2>1. Absent' = Absent
      BY <1>4 DEF vars, canvas, Absent
    <2> QED BY <1>1, <1>4, <2>1, KeepsWitness DEF vars, runs, reading, WInv, Witnessed
  <1> QED BY <1>2, <1>3, <1>4 DEF Next

(* Nothing is marked as removed that could be found all the time the run   *)
(* was reading, however runs overlap, and whichever of their requests fail *)
(* (sync.py:850).                                                          *)
THEOREM RemovalsAreReal == Spec => []RemovalIsReal
  <1>1. Init => WInv
    BY InitTypes, InitWitness DEF WInv
  <1>2. WInv => RemovalIsReal
    BY DEF WInv, Witnessed, GoneIsUnseen, RemovalIsReal
  <1> QED BY <1>1, <1>2, WitnessKept, PTL DEF Spec

-----------------------------------------------------------------------------
(* Downloads.  What is known of a file was read before the newest download *)
(* was, or is what an event reported that a download went with.            *)
Bytes == \A f \in Files : \A k \in DOMAIN rows[f] : rows[f][k].bytes \in 1..version[f]

ReadBefore ==
    \A r \in Runs, f \in Files : fetched[r][f] # None => fetched[r][f].version <= version[f]

NoticedWithBytes ==
    \A e \in events : e.item \in Files /\ e.type = "metadata" =>
        /\ 1 \in DOMAIN rows[e.item]
        /\ e.new \in Contents /\ e.new.version <= rows[e.item][1].bytes

RowInHand ==
    \A r \in Runs : Storing(r) /\ loaded[r].row # None =>
        /\ 1 \in DOMAIN rows[loaded[r].item]
        /\ loaded[r].item \in Files => loaded[r].row.bytes > 0

VInv ==
    /\ TInv
    /\ Bytes
    /\ ReadBefore
    /\ NoticedWithBytes
    /\ RowInHand
    /\ DownloadsKeepUp

LEMMA VersionTypes ==
    ASSUME TInv
    PROVE  /\ \A f \in Files : version[f] \in Nat /\ version[f] \in 1..MaxVersion
           /\ \A i \in Items : rows[i] \in Seq(Row)
           /\ \A i \in Items : \A k \in DOMAIN rows[i] :
                 /\ rows[i][k] \in Row /\ rows[i][k].bytes \in Nat
                 /\ rows[i][k].last \in Contents /\ rows[i][k].last.version \in Nat
           /\ \A c \in Contents : c.version \in Nat
  <1>1. \A f \in Files : version[f] \in Nat /\ version[f] \in 1..MaxVersion
    BY DEF TInv, CanvasTypes, Versions
  <1>2. \A i \in Items : rows[i] \in Seq(Row)
    BY DEF TInv, DatabaseTypes
  <1>3. \A i \in Items : \A k \in DOMAIN rows[i] : rows[i][k] \in Row
    BY <1>2
  <1>4. \A row \in Row : row.bytes \in Nat /\ row.last \in Contents
    BY DEF Row
  <1>5. \A c \in Contents : c.version \in Nat
    BY DEF Contents
  <1> QED BY <1>1, <1>2, <1>3, <1>4, <1>5

LEMMA InitVersions == Init => VInv
  BY InitTypes DEF Init, VInv, Bytes, ReadBefore, NoticedWithBytes, RowInHand, Storing,
     DownloadsKeepUp, Items

(* Steps that store nothing: files get newer, are read, and are marked.    *)
LEMMA Unstored ==
    ASSUME VInv, TInv',
           \A f \in Files : version'[f] >= version[f],
           \A f \in Files : DOMAIN rows'[f] = DOMAIN rows[f],
           \A i \in Items : 1 \in DOMAIN rows[i] => 1 \in DOMAIN rows'[i],
           \A f \in Files : \A k \in DOMAIN rows[f] :
               rows'[f][k].bytes = rows[f][k].bytes /\ rows'[f][k].last = rows[f][k].last,
           \A e \in events' \ events : e.type # "metadata",
           \A r \in Runs, f \in Files : fetched'[r][f] \in {fetched[r][f], None, FileOf(version[f])},
           RowInHand'
    PROVE  VInv'
  <1>1. /\ \A f \in Files : version[f] \in Nat /\ version'[f] \in Nat
        /\ \A f \in Files : \A k \in DOMAIN rows[f] : rows[f][k].bytes \in Nat
    BY VersionTypes, Disjoint DEF VInv, TInv, CanvasTypes, Versions
  <1>2. Bytes'
    BY <1>1 DEF VInv, Bytes
  <1>3. ReadBefore'
    <2> SUFFICES ASSUME NEW r \in Runs, NEW f \in Files, fetched'[r][f] # None
                 PROVE  fetched'[r][f].version <= version'[f]
      BY DEF ReadBefore
    <2>1. CASE fetched'[r][f] = fetched[r][f]
      <3>1. fetched[r][f] \in Contents
        BY <2>1, Disjoint DEF VInv, TInv, ReadingTypes
      <3>2. fetched[r][f].version \in Nat /\ fetched[r][f].version <= version[f]
        BY <2>1, <3>1, VersionTypes DEF VInv, ReadBefore
      <3> QED BY <1>1, <2>1, <3>2
    <2>2. CASE fetched'[r][f] = FileOf(version[f])
      BY <1>1, <2>2 DEF FileOf
    <2> QED BY <2>1, <2>2
  <1>4. NoticedWithBytes'
    BY DEF VInv, NoticedWithBytes
  <1>5. DownloadsKeepUp'
    BY DEF VInv, DownloadsKeepUp
  <1> QED BY <1>2, <1>3, <1>4, <1>5 DEF VInv

LEMMA TeacherVersions == ASSUME VInv, Teacher PROVE VInv'
  <1>1. TInv'
    BY TeacherTypes DEF VInv
  <1>2. \A f \in Files : version'[f] >= version[f]
    BY VersionTypes DEF VInv, TInv, CanvasTypes, Teacher
  <1>3. UNCHANGED <<rows, events, fetched, loaded, pc>>
    BY DEF Teacher, database, runs, reading
  <1>4. RowInHand'
    BY <1>3 DEF VInv, RowInHand, Storing
  <1> QED BY <1>1, <1>2, <1>3, <1>4, Unstored

LEMMA FetchVersions ==
    ASSUME VInv, NEW r \in Runs,
           Start(r) \/ ListAssignments(r) \/ ListFiles(r) \/ MergeFiles(r)
    PROVE  VInv'
  <1>1. TInv'
    BY FetchTypes DEF VInv
  <1>2. UNCHANGED <<rows, events, loaded, version>>
    BY DEF Start, ListAssignments, ListFiles, MergeFiles, canvas, database
  <1>3. RowInHand'
    <2>1. \A s \in Runs : Storing(s)' => Storing(s)
      BY DEF Start, ListAssignments, ListFiles, MergeFiles, Goes, Storing, VInv, TInv, RunTypes
    <2> QED BY <1>2, <2>1 DEF VInv, RowInHand, Storing
  <1>4. \A s \in Runs, f \in Files : fetched'[s][f] \in {fetched[s][f], None, FileOf(version[f])}
    <2>1. CASE Start(r)
      BY <2>1 DEF Start
    <2>2. CASE ListAssignments(r)
      <3>1. \A f \in Files : f \notin Assignments /\ f \in Items
        BY Disjoint
      <3> QED BY <2>2, <3>1 DEF ListAssignments, Fails, Reads, VInv, TInv, ReadingTypes
    <2>3. CASE ListFiles(r)
      BY <2>3, Disjoint DEF ListFiles, Fails, Reads, VInv, TInv, ReadingTypes
    <2>4. CASE MergeFiles(r)
      <3>1. PICK got : fetched' = [fetched EXCEPT ![r] =
                           [i \in Items |-> IF i \in got THEN FileOf(version[i]) ELSE @[i]]]
        BY <2>4 DEF MergeFiles
      <3> QED BY <3>1, Disjoint DEF VInv, TInv, ReadingTypes
    <2> QED BY <2>1, <2>2, <2>3, <2>4
  <1>5. \A f \in Files : version'[f] >= version[f]
    BY <1>2, VersionTypes DEF VInv
  <1> QED BY <1>1, <1>2, <1>3, <1>4, <1>5, Unstored

LEMMA HandedVersions ==
    ASSUME VInv, NEW r \in Runs, (\E i \in Items : LookUp(r, i)) \/ Insert(r)
    PROVE  VInv'
  <1>1. TInv'
    BY StoreTypes DEF VInv
  <1>2. UNCHANGED <<rows, events, fetched, version>>
    BY DEF LookUp, Insert, canvas, database, reading
  <1>3. RowInHand'
    <2>1. ASSUME NEW i \in Items, LookUp(r, i) PROVE RowInHand'
      <3>1. /\ loaded'[r].row # None => rows[i] # <<>> /\ loaded'[r].row = rows[i][1]
            /\ loaded'[r].item = i
        BY <2>1 DEF LookUp, VInv, TInv, RunTypes
      <3>2. rows[i] \in Seq(Row)
        BY VersionTypes DEF VInv
      <3>3. rows[i] # <<>> => 1 \in DOMAIN rows[i]
        BY <3>2
      <3>4. i \in Files /\ rows[i] # <<>> => rows[i][1].bytes > 0
        BY <3>3, VersionTypes DEF VInv, Bytes
      <3>5. \A s \in Runs \ {r} : loaded'[s] = loaded[s] /\ (Storing(s)' => Storing(s))
        BY <2>1 DEF LookUp, Goes, Storing, VInv, TInv, RunTypes
      <3> QED BY <1>2, <3>1, <3>3, <3>4, <3>5 DEF VInv, RowInHand
    <2>2. CASE Insert(r)
      <3>1. loaded' = loaded /\ \A s \in Runs : Storing(s)' => Storing(s)
        BY <2>2 DEF Insert, Goes, Storing, VInv, TInv, RunTypes
      <3> QED BY <1>2, <3>1 DEF VInv, RowInHand
    <2> QED BY <2>1, <2>2
  <1>4. \A f \in Files : version'[f] >= version[f]
    BY <1>2, VersionTypes DEF VInv
  <1> QED BY <1>1, <1>2, <1>3, <1>4, Unstored

(* A file's transaction downloads it, or knows nothing that is newer than  *)
(* its download.                                                           *)
LEMMA CommitVersions ==
    ASSUME VInv, TInv', NEW r \in Runs, Storing(r), NEW d \in 0..MaxVersion, Commit(r, d),
           loaded[r].item \in Files =>
               d = version[loaded[r].item] \/ (d = 0 /\ ~Downloads(r)),
           UNCHANGED <<canvas, reading>>
    PROVE  VInv'
  <1> DEFINE i == loaded[r].item
  <1>1. /\ i \in Items /\ rows[i] \in Seq(Row) /\ Seen(r) \in Contents
        /\ UNCHANGED <<version, fetched>> /\ TInv
    BY Hand, VersionTypes DEF VInv, canvas, reading
  <1>2. \A f \in Files : f \in Items /\ version[f] \in Nat /\ version[f] >= 1
    BY VersionTypes, Disjoint DEF VInv
  <1>3. i \in Files => Seen(r).version \in Nat /\ Seen(r).version <= version[i]
    BY Hand, VersionTypes, <1>1 DEF VInv, ReadBefore, TInv, InHand
  <1>4. Old(r) # None => 1 \in DOMAIN rows[i] /\ (i \in Files => loaded[r].row.bytes > 0)
    BY Hand, <1>1 DEF VInv, RowInHand
  <1>5. ASSUME i \in Files, Old(r) = None PROVE d = version[i]
    BY <1>2, <1>5 DEF Downloads
  <1>6. ASSUME i \in Files, Emits(r) PROVE d = version[i]
    BY <1>2, <1>6 DEF Downloads
  <1>7. ASSUME i \in Files, Old(r) # None
        PROVE  LET row == Updated(r, rows[i][1], d)
               IN /\ row.bytes \in 1..version[i] /\ row.bytes >= rows[i][1].bytes
                  /\ row.last.version <= row.bytes
    <2>1. /\ rows[i][1].bytes \in 1..version[i] /\ rows[i][1].bytes \in Nat
          /\ rows[i][1].last.version \in Nat /\ rows[i][1].last.version <= rows[i][1].bytes
      BY <1>1, <1>4, <1>7, VersionTypes DEF VInv, Bytes, DownloadsKeepUp
    <2>2. /\ Updated(r, rows[i][1], d).bytes = (IF d = 0 THEN rows[i][1].bytes ELSE d)
          /\ Updated(r, rows[i][1], d).last = (IF Seen(r) = Old(r) THEN rows[i][1].last ELSE Seen(r))
      BY DEF Updated
    <2>3. CASE d = version[i]
      BY <1>2, <1>3, <1>7, <2>1, <2>2, <2>3
    <2>4. CASE d = 0 /\ ~Downloads(r)
      <3>1. ~Emits(r) /\ loaded[r].row.bytes # 0
        BY <1>4, <1>7, <2>4 DEF Downloads
      <3>2. Seen(r) = Old(r) \/ Observation(r) \in events
        BY <1>7, <3>1 DEF Emits, Reports
      <3>3. /\ Observation(r).item = i /\ Observation(r).type = "metadata"
            /\ Observation(r).new = Seen(r)
        BY <1>7 DEF Observation
      <3>4. Observation(r) \in events => Seen(r).version <= rows[i][1].bytes
        BY <1>7, <3>3 DEF VInv, NoticedWithBytes
      <3> QED BY <2>1, <2>2, <2>4, <3>2, <3>4
    <2> QED BY <1>7, <2>3, <2>4
  <1>8. \A j \in Items : DOMAIN rows[j] \subseteq DOMAIN rows'[j]
    <2>1. Old(r) = None => DOMAIN rows[i] \subseteq DOMAIN Append(rows[i], Inserted(r, d))
      BY <1>1, Committed
    <2> QED BY <1>1, <2>1, Committed
  <1>9. ASSUME NEW f \in Files, NEW k \in DOMAIN rows'[f]
        PROVE  /\ rows'[f][k].bytes \in 1..version[f]
               /\ rows'[f][k].last.version <= rows'[f][k].bytes
               /\ k \in DOMAIN rows[f] => rows'[f][k].bytes >= rows[f][k].bytes
    <2>1. k \in DOMAIN rows[f] => /\ rows[f][k].bytes \in 1..version[f] /\ rows[f][k].bytes \in Nat
                                  /\ rows[f][k].last.version <= rows[f][k].bytes
      BY <1>1, <1>2, VersionTypes DEF VInv, Bytes, DownloadsKeepUp
    <2>2. CASE f # i
      BY <1>1, <1>2, <2>1, <2>2, Committed
    <2>3. CASE f = i /\ Old(r) = None
      <3>1. d = version[i] /\ rows'[i] = Append(rows[i], Inserted(r, d)) /\ Inserted(r, d) \in Row
        BY <1>1, <1>5, <2>3, Committed
      <3>2. Inserted(r, d).bytes = d /\ Inserted(r, d).last = Seen(r)
        BY DEF Inserted
      <3>3. IF k \in DOMAIN rows[i] THEN rows'[i][k] = rows[i][k] ELSE rows'[i][k] = Inserted(r, d)
        BY <1>1, <2>3, <3>1
      <3> QED BY <1>2, <1>3, <2>1, <2>3, <3>1, <3>2, <3>3
    <2>4. CASE f = i /\ Old(r) # None
      BY <1>1, <1>7, <2>1, <2>4, Committed
    <2> QED BY <2>2, <2>3, <2>4
  <1>10. Bytes' /\ DownloadsKeepUp'
    BY <1>1, <1>9 DEF Bytes, DownloadsKeepUp
  <1>11. ReadBefore'
    BY <1>1 DEF VInv, ReadBefore
  <1>12. RowInHand'
    <2>1. /\ \A s \in Runs \ {r} : loaded'[s] = loaded[s] /\ (Storing(s)' => Storing(s))
          /\ ~Storing(r)'
      BY <1>1 DEF Commit, Goes, Storing, TInv, RunTypes
    <2>2. \A s \in Runs : Storing(s) => loaded[s].item \in Items
      BY <1>1, Hand
    <2> QED BY <1>8, <2>1, <2>2 DEF VInv, RowInHand
  <1>13. NoticedWithBytes'
    <2> SUFFICES ASSUME NEW e \in events', e.item \in Files, e.type = "metadata"
                 PROVE  /\ 1 \in DOMAIN rows'[e.item]
                        /\ e.new \in Contents /\ e.new.version <= rows'[e.item][1].bytes
      BY DEF NoticedWithBytes
    <2>1. CASE e \in events
      <3>1. /\ 1 \in DOMAIN rows[e.item] /\ e.new \in Contents
            /\ e.new.version <= rows[e.item][1].bytes
        BY <2>1 DEF VInv, NoticedWithBytes
      <3>2. 1 \in DOMAIN rows'[e.item] /\ rows[e.item][1].bytes \in Nat /\ e.new.version \in Nat
        BY <1>1, <1>2, <1>8, <3>1, VersionTypes
      <3>3. rows'[e.item][1].bytes \in Nat /\ rows'[e.item][1].bytes >= rows[e.item][1].bytes
        BY <1>2, <1>9, <3>1, <3>2
      <3> QED BY <3>1, <3>2, <3>3
    <2>2. CASE e \notin events
      <3>1. e = Observation(r) /\ Emits(r)
        BY <2>2 DEF Commit
      <3>2. i \in Files /\ Old(r) # None /\ e.new = Seen(r) /\ e.item = i
        BY <3>1 DEF Observation
      <3>3. d = version[i] /\ 1 \in DOMAIN rows[i] /\ d # 0
        BY <1>2, <1>4, <1>6, <3>1, <3>2
      <3>5. Updated(r, rows[i][1], d).bytes = d
        BY <3>3 DEF Updated
      <3>6. rows'[i][1] = Updated(r, rows[i][1], d)
        BY <1>1, <3>2, <3>3, Committed
      <3>4. rows'[i][1].bytes = d /\ 1 \in DOMAIN rows'[i]
        BY <1>1, <1>8, <3>3, <3>5, <3>6
      <3> QED BY <1>1, <1>3, <3>2, <3>3, <3>4
    <2> QED BY <2>1, <2>2
  <1> QED BY <1>10, <1>11, <1>12, <1>13 DEF VInv

LEMMA StoreVersions == ASSUME VInv, NEW r \in Runs, Store(r) \/ Download(r) PROVE VInv'
  <1>1. TInv'
    BY StoreTypes DEF VInv
  <1>2. CASE Store(r)
    BY <1>1, <1>2, CommitVersions DEF Store, Storing
  <1>3. CASE Download(r)
    <2>1. Storing(r) /\ version[loaded[r].item] \in 0..MaxVersion
      BY <1>3, VersionTypes DEF Download, Storing, VInv, TInv, InHand
    <2> QED BY <1>1, <1>3, <2>1, CommitVersions DEF Download
  <1> QED BY <1>2, <1>3

LEMMA CloseVersions == ASSUME VInv, NEW r \in Runs, Compare(r) \/ Close(r) \/ Fail(r) PROVE VInv'
  <1>1. TInv'
    BY CloseTypes DEF VInv
  <1>2. version' = version /\ \A f \in Files : version'[f] >= version[f]
    <2>1. version' = version
      BY DEF Compare, Close, Fail, canvas
    <2> QED BY <2>1, VersionTypes DEF VInv
  <1>3. /\ \A i \in Items : DOMAIN rows'[i] = DOMAIN rows[i]
        /\ \A f \in Files : \A k \in DOMAIN rows[f] :
               rows'[f][k].bytes = rows[f][k].bytes /\ rows'[f][k].last = rows[f][k].last
    <2>1. CASE UNCHANGED rows
      BY <2>1
    <2>2. CASE Close(r)
      <3>1. \A f \in Items : /\ DOMAIN rows'[f] = DOMAIN rows[f]
                             /\ \A k \in DOMAIN rows[f] :
                                 rows'[f][k] \in {rows[f][k], [rows[f][k] EXCEPT !.removed = TRUE]}
        BY <2>2 DEF Close
      <3>2. \A row \in Row : [row EXCEPT !.removed = TRUE].bytes = row.bytes
                             /\ [row EXCEPT !.removed = TRUE].last = row.last
        BY DEF Row
      <3>3. \A f \in Items : \A k \in DOMAIN rows[f] : rows[f][k] \in Row
        BY VersionTypes DEF VInv
      <3>4. \A f \in Items : \A k \in DOMAIN rows[f] :
                rows'[f][k].bytes = rows[f][k].bytes /\ rows'[f][k].last = rows[f][k].last
        BY <3>1, <3>2, <3>3
      <3> QED BY <3>1, <3>4, Disjoint
    <2> QED BY <2>1, <2>2 DEF Compare, Fail, database
  <1>4. \A e \in events' \ events : e.type # "metadata"
    <2>1. \A m : Removal(m).type = "removed"
      BY DEF Removal
    <2> QED BY <2>1 DEF Compare, Close, Fail, database
  <1>5. /\ \A s \in Runs, f \in Files : fetched'[s][f] \in {fetched[s][f], None}
        /\ \A s \in Runs : Storing(s)' => Storing(s) /\ loaded'[s] = loaded[s]
    <2>1. CASE Compare(r)
      BY <2>1 DEF Compare, Goes, Storing, reading, VInv, TInv, RunTypes
    <2>2. CASE Ends(r)
      <3>1. \A s \in Runs, f \in Files : fetched'[s][f] \in {fetched[s][f], None}
        BY <2>2, Disjoint DEF Ends, VInv, TInv, ReadingTypes
      <3>2. \A s \in Runs : Storing(s)' => Storing(s) /\ loaded'[s] = loaded[s]
        BY <2>2 DEF Ends, Goes, Storing, VInv, TInv, RunTypes
      <3> QED BY <3>1, <3>2
    <2> QED BY <2>1, <2>2 DEF Close, Fail
  <1>6. RowInHand'
    <2>1. \A s \in Runs : Storing(s) => loaded[s].item \in Items
      BY Hand DEF VInv
    <2> QED BY <1>3, <1>5, <2>1 DEF VInv, RowInHand
  <1>7. /\ \A f \in Files : DOMAIN rows'[f] = DOMAIN rows[f]
        /\ \A i \in Items : 1 \in DOMAIN rows[i] => 1 \in DOMAIN rows'[i]
    BY <1>3, Disjoint
  <1> QED BY <1>1, <1>2, <1>3, <1>4, <1>5, <1>6, <1>7, Unstored

LEMMA VersionsKept == ASSUME VInv, [Next]_vars PROVE VInv'
  <1>1. CASE UNCHANGED vars
    <2>1. TInv'
      BY <1>1, TypesKept DEF VInv
    <2> QED BY <1>1, <2>1 DEF vars, canvas, database, runs, reading, VInv, Bytes, ReadBefore,
               NoticedWithBytes, RowInHand, Storing, DownloadsKeepUp
  <1> QED BY <1>1, TeacherVersions, FetchVersions, HandedVersions, StoreVersions, CloseVersions
          DEF Next, Step

(* The newest download of a file is not older than what is known of it,    *)
(* however runs overlap: an older state that overwrites what is known does *)
(* not overwrite the download (sync.py:1044-1141, downloader.py).          *)
THEOREM DownloadsAreCurrent == Spec => []DownloadsKeepUp
  <1>1. VInv => DownloadsKeepUp
    BY DEF VInv
  <1> QED BY <1>1, InitVersions, VersionsKept, PTL DEF Spec

-----------------------------------------------------------------------------
(* Reports, for runs one at a time: then the row in hand is the item's only *)
(* row, as it is.                                                          *)
OneAtATime == \A r, s \in Runs : r = s

OnlyRow == \A i \in Items : Len(rows[i]) <= 1

RowIsFresh ==
    \A r \in Runs : Storing(r) =>
        loaded[r].row = IF rows[loaded[r].item] = <<>> THEN None ELSE rows[loaded[r].item][1]

UInv ==
    /\ TInv
    /\ OnlyRow
    /\ RowIsFresh
    /\ NothingUnreported

LEMMA Domain == ASSUME NEW S, NEW s \in Seq(S) PROVE Len(s) \in Nat /\ DOMAIN s = 1..Len(s)
  OBVIOUS

LEMMA Single == ASSUME NEW S, NEW s \in Seq(S), DOMAIN s = {1} PROVE Len(s) = 1
  <1>1. Len(s) \in Nat /\ 1..Len(s) = {1}
    BY Domain
  <1>2. 1 \in 1..Len(s) /\ 2 \notin 1..Len(s)
    BY <1>1
  <1> QED BY <1>1, <1>2

LEMMA InitReports == Init => UInv
  BY InitTypes DEF Init, UInv, OnlyRow, RowIsFresh, Storing, NothingUnreported

(* Steps that store nothing. *)
LEMMA ReportsStay ==
    ASSUME UInv, TInv', RowIsFresh', events \subseteq events',
           \A i \in Items :
               /\ DOMAIN rows'[i] = DOMAIN rows[i]
               /\ \A k \in DOMAIN rows[i] :
                     rows'[i][k].last = rows[i][k].last /\ rows'[i][k].quiet = rows[i][k].quiet
    PROVE  UInv'
  <1>1. OnlyRow'
    <2>1. \A i \in Items : rows[i] \in Seq(Row) /\ rows'[i] \in Seq(Row)
      BY DEF UInv, TInv, DatabaseTypes
    <2>2. \A i \in Items : Len(rows'[i]) = Len(rows[i])
      BY <2>1
    <2> QED BY <2>2 DEF UInv, OnlyRow
  <1>2. NothingUnreported'
    <2>1. \A i \in Items : \A k \in DOMAIN rows[i] :
              Quiet(i, rows'[i][k].last) = Quiet(i, rows[i][k].last)
      BY DEF Quiet
    <2> SUFFICES ASSUME NEW i \in Items, NEW k \in DOMAIN rows'[i], Quiet(i, rows'[i][k].last)
                 PROVE  \/ rows'[i][k].quiet
                        \/ \E e \in events' : e.item = i /\ e.row = k /\ e.type \in {"graded", "new"}
      BY DEF NothingUnreported, Quiet
    <2>2. k \in DOMAIN rows[i] /\ Quiet(i, rows[i][k].last)
      BY <2>1
    <2>3. \/ rows[i][k].quiet
          \/ \E e \in events : e.item = i /\ e.row = k /\ e.type \in {"graded", "new"}
      BY <2>2 DEF UInv, NothingUnreported
    <2> QED BY <2>2, <2>3
  <1> QED BY <1>1, <1>2 DEF UInv

LEMMA ReadReports ==
    ASSUME UInv, NEW r \in Runs,
           Start(r) \/ ListAssignments(r) \/ ListFiles(r) \/ MergeFiles(r) \/ Insert(r)
    PROVE  UInv'
  <1>1. TInv'
    BY FetchTypes, StoreTypes DEF UInv
  <1>2. UNCHANGED <<rows, events, loaded>> /\ \A s \in Runs : Storing(s)' => Storing(s)
    BY DEF Start, ListAssignments, ListFiles, MergeFiles, Insert, Goes, Storing, database, UInv,
           TInv, RunTypes
  <1>3. RowIsFresh'
    BY <1>2 DEF UInv, RowIsFresh
  <1> QED BY <1>1, <1>2, <1>3, ReportsStay

LEMMA LookUpReports ==
    ASSUME UInv, NEW r \in Runs, NEW i \in Items, LookUp(r, i) PROVE UInv'
  <1>1. TInv'
    BY StoreTypes DEF UInv
  <1>2. UNCHANGED <<rows, events>>
    BY DEF LookUp, database
  <1>3. RowIsFresh'
    <2>1. /\ loaded'[r].item = i
          /\ loaded'[r].row = IF rows[i] = <<>> THEN None ELSE rows[i][1]
          /\ \A s \in Runs \ {r} : loaded'[s] = loaded[s] /\ (Storing(s)' => Storing(s))
      BY DEF LookUp, Goes, Storing, UInv, TInv, RunTypes
    <2> QED BY <1>2, <2>1 DEF UInv, RowIsFresh
  <1> QED BY <1>1, <1>2, <1>3, ReportsStay

(* What a transaction makes known is reported by it, or was before.        *)
LEMMA CommitReports ==
    ASSUME OneAtATime, UInv, TInv', NEW r \in Runs, Storing(r), NEW d \in 0..MaxVersion,
           Commit(r, d)
    PROVE  UInv'
  <1> DEFINE i == loaded[r].item
             Reported(e) == e.item = i /\ e.row = 1 /\ e.type \in {"graded", "new"}
  <1>1. /\ TInv /\ i \in Items /\ rows[i] \in Seq(Row) /\ Len(rows[i]) <= 1
        /\ Old(r) = None <=> rows[i] = <<>>
    <2>1. TInv /\ i \in Items /\ rows[i] \in Seq(Row)
      BY Hand DEF UInv, TInv, DatabaseTypes
    <2>2. rows[i] # <<>> => rows[i][1] \in Row
      BY <2>1
    <2> QED BY <2>1, <2>2, Hand DEF UInv, OnlyRow, RowIsFresh
  <1>2. ASSUME Old(r) # None
        PROVE  DOMAIN rows[i] = {1} /\ loaded[r].row = rows[i][1] /\ Old(r) = rows[i][1].last
    BY <1>1, <1>2, Hand DEF UInv, RowIsFresh, Old
  <1>3. ASSUME Emits(r) \/ Observation(r) \in events,
               Old(r) = None \/ i \notin Files
        PROVE  \E e \in events' : Reported(e)
    <2>1. Observation(r) \in events'
      BY <1>3 DEF Commit
    <2>2. Reported(Observation(r))
      BY <1>1, <1>3 DEF Observation
    <2> QED BY <2>1, <2>2
  <1>4. ASSUME Old(r) = None
        PROVE  /\ DOMAIN rows'[i] = {1} /\ Len(rows'[i]) = 1
               /\ Quiet(i, rows'[i][1].last) => rows'[i][1].quiet \/ \E e \in events' : Reported(e)
    <2>1. rows'[i] = Append(rows[i], Inserted(r, d)) /\ rows[i] = <<>> /\ Inserted(r, d) \in Row
      BY <1>1, <1>4, Committed
    <2>2. DOMAIN rows'[i] = {1} /\ Len(rows'[i]) = 1 /\ rows'[i][1] = Inserted(r, d)
      BY <2>1
    <2>3. /\ Inserted(r, d).last = Seen(r)
          /\ Inserted(r, d).quiet <=> (baseline[r] /\ Quiet(i, Seen(r)))
      BY DEF Inserted
    <2>4. ASSUME Quiet(i, Seen(r)), ~baseline[r] PROVE Emits(r) \/ Observation(r) \in events
      BY <1>1, <1>4, <2>4, Hand DEF Emits, Reports, IsGradeRelease, Quiet
    <2> QED BY <1>3, <1>4, <2>2, <2>3, <2>4
  <1>5. ASSUME Old(r) # None
        PROVE  /\ DOMAIN rows'[i] = {1} /\ Len(rows'[i]) = 1
               /\ Quiet(i, rows'[i][1].last) => rows'[i][1].quiet \/ \E e \in events' : Reported(e)
    <2>1. DOMAIN rows'[i] = {1} /\ rows'[i][1] = Updated(r, rows[i][1], d)
      BY <1>1, <1>2, <1>5, Committed
    <2>2. Len(rows'[i]) = 1
      <3>1. rows'[i] \in Seq(Row)
        BY <1>1 DEF TInv, DatabaseTypes
      <3> QED BY <2>1, <3>1, Single
    <2>3. /\ Updated(r, rows[i][1], d).last = Seen(r)
          /\ Updated(r, rows[i][1], d).quiet <=> (loaded[r].row.quiet /\ Quiet(i, Seen(r)))
      BY <1>2, <1>5 DEF Updated
    <2>4. ASSUME Quiet(i, Seen(r)), ~loaded[r].row.quiet PROVE \E e \in events' : Reported(e)
      <3>1. CASE Quiet(i, Old(r))
        <4>1. \E e \in events : Reported(e)
          BY <1>1, <1>2, <1>5, <2>4, <3>1 DEF UInv, NothingUnreported
        <4> QED BY <4>1 DEF Commit
      <3>2. CASE ~Quiet(i, Old(r))
        <4>1. i \notin Files /\ ~Old(r).grade /\ Seen(r).grade
          BY <2>4, <3>2 DEF Quiet
        <4>2. Emits(r) \/ Observation(r) \in events
          BY <1>5, <4>1 DEF Emits, Reports, IsGradeRelease
        <4> QED BY <1>3, <4>1, <4>2
      <3> QED BY <3>1, <3>2
    <2> QED BY <2>1, <2>2, <2>3, <2>4
  <1>6. OnlyRow'
    BY <1>1, <1>4, <1>5, Committed DEF UInv, OnlyRow
  <1>7. RowIsFresh'
    <2>1. \A s \in Runs : ~Storing(s)'
      BY <1>1 DEF OneAtATime, Commit, Goes, Storing, TInv, RunTypes
    <2> QED BY <2>1 DEF RowIsFresh
  <1>8. NothingUnreported'
    <2> SUFFICES ASSUME NEW j \in Items, NEW k \in DOMAIN rows'[j], Quiet(j, rows'[j][k].last)
                 PROVE  \/ rows'[j][k].quiet
                        \/ \E e \in events' : e.item = j /\ e.row = k /\ e.type \in {"graded", "new"}
      BY DEF NothingUnreported, Quiet
    <2>1. CASE j = i
      BY <1>4, <1>5, <2>1
    <2>2. CASE j # i
      <3>1. rows'[j] = rows[j]
        BY <1>1, <2>2, Committed
      <3>2. \/ rows[j][k].quiet
            \/ \E e \in events : e.item = j /\ e.row = k /\ e.type \in {"graded", "new"}
        BY <3>1 DEF UInv, NothingUnreported
      <3> QED BY <3>1, <3>2 DEF Commit
    <2> QED BY <2>1, <2>2
  <1> QED BY <1>6, <1>7, <1>8 DEF UInv

LEMMA StoreReports ==
    ASSUME OneAtATime, UInv, NEW r \in Runs, Store(r) \/ Download(r) PROVE UInv'
  <1>1. TInv'
    BY StoreTypes DEF UInv
  <1>2. CASE Store(r)
    BY <1>1, <1>2, CommitReports DEF Store, Storing
  <1>3. CASE Download(r)
    <2>1. Storing(r) /\ version[loaded[r].item] \in 0..MaxVersion
      BY <1>3, VersionTypes DEF Download, Storing, UInv, TInv, InHand
    <2> QED BY <1>1, <1>3, <2>1, CommitReports DEF Download
  <1> QED BY <1>2, <1>3

LEMMA CloseReports ==
    ASSUME OneAtATime, UInv, NEW r \in Runs, Compare(r) \/ Close(r) \/ Fail(r) PROVE UInv'
  <1>1. TInv'
    BY CloseTypes DEF UInv
  <1>2. RowIsFresh'
    <2>1. \A s \in Runs : ~Storing(s)'
      BY DEF OneAtATime, Compare, Close, Fail, Ends, Goes, Storing, UInv, TInv, RunTypes
    <2> QED BY <2>1 DEF RowIsFresh
  <1>3. \A i \in Items :
            /\ DOMAIN rows'[i] = DOMAIN rows[i]
            /\ \A k \in DOMAIN rows[i] :
                  rows'[i][k].last = rows[i][k].last /\ rows'[i][k].quiet = rows[i][k].quiet
    <2>1. CASE UNCHANGED rows
      BY <2>1
    <2>2. CASE Close(r)
      <3>1. \A i \in Items : /\ DOMAIN rows'[i] = DOMAIN rows[i]
                             /\ \A k \in DOMAIN rows[i] :
                                 rows'[i][k] \in {rows[i][k], [rows[i][k] EXCEPT !.removed = TRUE]}
        BY <2>2 DEF Close
      <3>2. \A row \in Row : [row EXCEPT !.removed = TRUE].quiet = row.quiet
                             /\ [row EXCEPT !.removed = TRUE].last = row.last
        BY DEF Row
      <3>3. \A i \in Items : \A k \in DOMAIN rows[i] : rows[i][k] \in Row
        BY VersionTypes DEF UInv
      <3>4. \A i \in Items : \A k \in DOMAIN rows[i] :
                rows'[i][k].last = rows[i][k].last /\ rows'[i][k].quiet = rows[i][k].quiet
        BY <3>1, <3>2, <3>3
      <3> QED BY <3>1, <3>4
    <2> QED BY <2>1, <2>2 DEF Compare, Fail, database
  <1>4. events \subseteq events'
    BY DEF Compare, Close, Fail, database
  <1> QED BY <1>1, <1>2, <1>3, <1>4, ReportsStay

LEMMA ReportsKept == ASSUME OneAtATime, UInv, [Next]_vars PROVE UInv'
  <1>1. CASE UNCHANGED vars
    <2>1. TInv'
      BY <1>1, TypesKept DEF UInv
    <2>2. UNCHANGED <<rows, events, loaded, pc>>
      BY <1>1 DEF vars, database, runs
    <2>3. RowIsFresh'
      BY <2>2 DEF UInv, RowIsFresh, Storing
    <2> QED BY <2>1, <2>2, <2>3, ReportsStay
  <1>2. CASE Teacher
    <2>1. TInv'
      BY <1>2, TeacherTypes DEF UInv
    <2>2. UNCHANGED <<rows, events, loaded, pc>>
      BY <1>2 DEF Teacher, database, runs
    <2>3. RowIsFresh'
      BY <2>2 DEF UInv, RowIsFresh, Storing
    <2> QED BY <2>1, <2>2, <2>3, ReportsStay
  <1> QED BY <1>1, <1>2, ReadReports, LookUpReports, StoreReports, CloseReports DEF Next, Step

(* For runs one at a time, a grade that is known to be released and a file *)
(* that is known have been reported, or were found by the baseline, in     *)
(* whatever order the lists were read and wherever runs failed             *)
(* (sync.py:1082-1141).  Runs that overlap break it: one that read an      *)
(* older state writes it over a newer one.                                 *)
THEOREM NothingStaysUnreported == ASSUME OneAtATime PROVE Spec => []NothingUnreported
  <1>1. UInv /\ [Next]_vars => UInv'
    BY ReportsKept
  <1>2. UInv => NothingUnreported
    BY DEF UInv
  <1> QED BY <1>1, <1>2, InitReports, PTL DEF Spec
=============================================================================
