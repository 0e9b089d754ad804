---------------------------- MODULE GoogleCalendar ----------------------------
(***************************************************************************)
(* The read-only copy of a Google calendar (services/google_calendar.py):  *)
(* the authorization, the calendar's row with its sync token, and the      *)
(* events.  The scheduler and requests run on different threads, and each  *)
(* awaits Google between what it loads and what it commits.  A commit      *)
(* writes the columns that differ from those loaded; it fails as a whole   *)
(* if a row it updates is gone or one it inserts is there.  A row added    *)
(* after all were deleted has the former one's id (SQLite reuses them).    *)
(***************************************************************************)
EXTENDS Integers

CONSTANTS Events, Values, Actors,
          None,          \* no event, no row, no token, no attempt
          MaxRevision,   \* bound on the changes made in Google
          MaxBegun       \* bound on the authorizations begun

VARIABLES
    remote,    \* the events in Google
    changed,   \* the revision of the last change to each
    conn,      \* the connection's row: state, refresh token, pending OAuth state
    row,       \* the calendar's row: selected and sync token
    events,    \* the copy
    work,      \* what each actor is doing, with what it has loaded
    begun,     \* authorizations begun
    left,      \* history: disconnected, and not connected since
    repaired   \* history: synced in full, and no sync was overlapped since

googleVars == <<remote, changed, conn, row, events, work, begun, left, repaired>>
World == <<remote, changed, begun>>

Idle == [step |-> "idle"]
NoRow == [present |-> FALSE, selected |-> FALSE, cursor |-> None]
NewRow == [NoRow EXCEPT !.present = TRUE]

Init ==
    /\ remote = [e \in Events |-> None]
    /\ changed = [e \in Events |-> 0]
    /\ conn = [state |-> "DISCONNECTED", token |-> FALSE, attempt |-> None]
    /\ row = NoRow
    /\ events = [e \in Events |-> None]
    /\ work = [a \in Actors |-> Idle]
    /\ begun = 0
    /\ left = TRUE
    /\ repaired = FALSE

Revision == CHOOSE r \in 0 .. MaxRevision :
    (\E e \in Events : changed[e] = r) /\ \A e \in Events : changed[e] <= r

Goes(a, to) == work' = [work EXCEPT ![a] = to]
Ends(a) == Goes(a, Idle)

\* When the calendar or its events are written, what the others are doing does not run alone.
Overlapped == [a \in Actors |-> IF work[a] = Idle THEN Idle ELSE [work[a] EXCEPT !.alone = FALSE]]
WritesAndGoes(a, to) == work' = [Overlapped EXCEPT ![a] = to]

\* The connection's columns that differ from those loaded.
Written(w, state, token) ==
    [conn EXCEPT !.state = IF state # w.conn.state THEN state ELSE @,
                 !.token = IF token # w.conn.token THEN token ELSE @]

\* An event is added, changed or removed in Google.
Edit(e, v) ==
    /\ v # remote[e] /\ Revision < MaxRevision
    /\ remote' = [remote EXCEPT ![e] = v]
    /\ changed' = [changed EXCEPT ![e] = Revision + 1]
    /\ UNCHANGED <<conn, row, events, work, begun, left, repaired>>

-----------------------------------------------------------------------------
(* Authorization.                                                          *)

Begin ==
    /\ begun < MaxBegun
    /\ begun' = begun + 1
    /\ conn' = [conn EXCEPT !.state = "CONNECTING", !.attempt = begun + 1]
    /\ UNCHANGED <<remote, changed, row, events, work, left, repaired>>

\* A callback with another state, or after ten minutes, ends the pending attempt as well.
RejectCallback ==
    /\ begun > 0
    /\ conn' = [conn EXCEPT !.state = "ERROR", !.attempt = None]
    /\ UNCHANGED <<World, row, events, work, left, repaired>>

Denied ==
    /\ conn.attempt # None
    /\ conn' = [conn EXCEPT !.state = "DISCONNECTED", !.attempt = None]
    /\ UNCHANGED <<World, row, events, work, left, repaired>>

Loaded == [state |-> conn.state, token |-> conn.token]
Start(for, step) == [step |-> step, for |-> for, conn |-> Loaded, alone |-> TRUE]

\* The pending state is cleared in memory, and for others with the commit.
Callback(a) ==
    /\ work[a] = Idle /\ conn.attempt # None
    /\ Goes(a, Start("finish", "exchange"))
    /\ UNCHANGED <<World, conn, row, events, left, repaired>>

ExchangeFails(a) ==
    /\ work[a].step = "exchange"
    /\ conn' = [Written(work[a], "ERROR", work[a].conn.token) EXCEPT !.attempt = None]
    /\ Ends(a)
    /\ UNCHANGED <<World, row, events, left, repaired>>

\* Without a refresh token the one loaded is kept, if there is one.
Exchanged(a, refresh) ==
    /\ work[a].step = "exchange"
    /\ IF refresh \/ work[a].conn.token
       THEN Goes(a, [work[a] EXCEPT !.step = "list"]) /\ UNCHANGED conn
       ELSE /\ conn' = [Written(work[a], "AUTH_REQUIRED", FALSE) EXCEPT !.attempt = None]
            /\ Ends(a)
    /\ UNCHANGED <<World, row, events, left, repaired>>

Disconnect ==
    /\ conn' = [state |-> "DISCONNECTED", token |-> FALSE, attempt |-> None]
    /\ row' = NoRow
    /\ events' = [e \in Events |-> None]
    /\ work' = Overlapped
    /\ left' = TRUE
    /\ UNCHANGED <<World, repaired>>

-----------------------------------------------------------------------------
(* The list of calendars, and which are selected.                          *)

\* A scheduled or requested sync, a refresh of the list, or a selection.
Ask(a, for) ==
    /\ work[a] = Idle /\ conn.token
    /\ for = "sync" => conn.state # "DISCONNECTED"
    /\ Goes(a, Start(for, "token"))
    /\ UNCHANGED <<World, conn, row, events, left, repaired>>

\* Without a refresh token the list is not asked for (a sync does nothing).
Unauthorized ==
    /\ ~conn.token
    /\ conn' = [conn EXCEPT !.state = "AUTH_REQUIRED"]
    /\ UNCHANGED <<World, row, events, work, left, repaired>>

AccessRefused(a) ==
    /\ work[a].step = "token"
    /\ \E s \in {"AUTH_REQUIRED", "DEGRADED"} : conn' = Written(work[a], s, work[a].conn.token)
    /\ Ends(a)
    /\ UNCHANGED <<World, row, events, left, repaired>>

Fetching(w, r) ==
    [step |-> "fetch", conn |-> w.conn, alone |-> w.alone,
     cursor |-> r.cursor, base |-> r.cursor]

\* The selected calendars are loaded; without one the sync succeeds at once.
SyncRow(a, r) ==
    IF r.selected
    THEN Goes(a, Fetching(work[a], r)) /\ UNCHANGED conn
    ELSE conn' = Written(work[a], "ACTIVE", work[a].conn.token) /\ Ends(a)

Access(a) ==
    /\ work[a].step = "token"
    /\ IF work[a].for = "sync" THEN SyncRow(a, row)
       ELSE Goes(a, [work[a] EXCEPT !.step = "list"]) /\ UNCHANGED conn
    /\ UNCHANGED <<World, row, events, left, repaired>>

\* The calendar's row is added or, when Google no longer lists it, deleted; its events stay.
Listed(listed) == IF ~listed THEN NoRow ELSE IF row.present THEN row ELSE NewRow

FinishList(a, listed) ==
    /\ work[a].step = "list" /\ work[a].for = "finish"
    /\ row' = Listed(listed)
    /\ conn' = [Written(work[a], "ACTIVE", TRUE) EXCEPT !.attempt = None]
    /\ left' = FALSE
    /\ WritesAndGoes(a, Idle)
    /\ UNCHANGED <<World, events, repaired>>

RefreshList(a, listed) ==
    /\ work[a].step = "list" /\ work[a].for = "refresh"
    /\ row' = Listed(listed)
    /\ conn' = Written(work[a], "ACTIVE", work[a].conn.token)
    /\ WritesAndGoes(a, Idle)
    /\ UNCHANGED <<World, events, left, repaired>>

\* A changed selection is synced in full, by the same request, with the connection it loaded.
Selected(r, want) ==
    IF r.present /\ r.selected # want THEN [r EXCEPT !.selected = want, !.cursor = None] ELSE r

SelectList(a, listed, want) ==
    /\ work[a].step = "list" /\ work[a].for = "select"
    /\ want => listed
    /\ row' = Selected(Listed(listed), want)
    /\ IF work[a].conn.state # "DISCONNECTED" /\ row'.selected
       THEN WritesAndGoes(a, Fetching(work[a], row')) /\ UNCHANGED conn
       ELSE /\ conn' = IF work[a].conn.state = "DISCONNECTED" THEN conn
                       ELSE Written(work[a], "ACTIVE", work[a].conn.token)
            /\ WritesAndGoes(a, Idle)
    /\ UNCHANGED <<World, events, left, repaired>>

-----------------------------------------------------------------------------
(* _sync_calendar.                                                         *)

\* 410: the token is too old, and everything is listed.
Gone(a) ==
    /\ work[a].step = "fetch" /\ work[a].base # None
    /\ Goes(a, [work[a] EXCEPT !.base = None])
    /\ UNCHANGED <<World, conn, row, events, left, repaired>>

\* Other errors of the API are recorded after a rollback.
Degrade(a) ==
    /\ work[a].step = "fetch"
    /\ conn' = [conn EXCEPT !.state = "DEGRADED"]
    /\ Ends(a)
    /\ UNCHANGED <<World, row, events, left, repaired>>

\* A timeout of any call, or a stopping process: nothing is committed.
Abort(a) ==
    /\ work[a] # Idle
    /\ Goes(a, Idle)
    /\ UNCHANGED <<World, conn, row, events, left, repaired>>

Answer(a) ==
    /\ work[a].step = "fetch"
    /\ LET w == work[a]
       IN  Goes(a, [step |-> "answered", conn |-> w.conn, alone |-> w.alone,
                    cursor |-> w.cursor, full |-> w.base = None, next |-> Revision,
                    items |-> [e \in {e \in Events : IF w.base = None THEN remote[e] # None
                                                     ELSE changed[e] > w.base} |-> remote[e]]])
    /\ UNCHANGED <<World, conn, row, events, left, repaired>>

\* What the copy should be after the answer; a full list removes what it does not have.
MergedKept(w, e) == IF e \in DOMAIN w.items THEN w.items[e] ELSE events[e]  \* seeded: nothing is removed
Merged(w, e) ==
    IF e \in DOMAIN w.items THEN w.items[e] ELSE IF w.full THEN None ELSE events[e]

Upsert(a) ==
    /\ work[a].step = "answered"
    /\ LET w == work[a]
       IN  Goes(a, [step |-> "commit", conn |-> w.conn, alone |-> w.alone,
                    cursor |-> w.cursor, full |-> w.full, next |-> w.next,
                    loaded |-> events, wanted |-> [e \in Events |-> Merged(w, e)]])
    /\ UNCHANGED <<World, conn, row, events, left, repaired>>

Writes(w) == {e \in Events : w.wanted[e] # w.loaded[e]}
Conflict(w) ==
    \/ ~row.present
    \/ \E e \in Writes(w) : w.loaded[e] = None /\ events[e] # None
    \/ \E e \in Writes(w) : w.loaded[e] # None /\ w.wanted[e] # None /\ events[e] = None

Commit(a) ==
    /\ work[a].step = "commit"
    /\ LET w == work[a]
       IN  IF Conflict(w) THEN Goes(a, Idle) /\ UNCHANGED <<conn, row, events, repaired>>
           ELSE /\ events' = [e \in Events |-> IF e \in Writes(w) THEN w.wanted[e] ELSE events[e]]
                /\ row' = [row EXCEPT !.cursor = IF w.next # w.cursor THEN w.next ELSE @]
                /\ conn' = Written(w, "ACTIVE", w.conn.token)
                /\ repaired' = (w.alone /\ (w.full \/ repaired))
                /\ WritesAndGoes(a, Idle)
    /\ UNCHANGED <<World, left>>

Act(a) ==
    \/ Callback(a) \/ ExchangeFails(a) \/ (\E r \in BOOLEAN : Exchanged(a, r))
    \/ \E for \in {"sync", "refresh", "select"} : Ask(a, for)
    \/ AccessRefused(a) \/ Access(a)
    \/ \E l \in BOOLEAN : FinishList(a, l) \/ RefreshList(a, l) \/ \E w \in BOOLEAN : SelectList(a, l, w)
    \/ Gone(a) \/ Degrade(a) \/ Abort(a) \/ Answer(a) \/ Upsert(a) \/ Commit(a)

Next ==
    \/ \E e \in Events, v \in Values \union {None} : Edit(e, v)
    \/ Begin \/ RejectCallback \/ Denied \/ Unauthorized \/ Disconnect
    \/ \E a \in Actors : Act(a)

Spec == Init /\ [][Next]_googleVars

-----------------------------------------------------------------------------

\* After a full sync, and as long as no sync was overlapped by another writer, whatever the
\* copy does not have as Google does has changed since the sync token: the next incremental
\* sync brings it, whichever calls failed or tokens expired (google_calendar.py:492-544).
CopyCatchesUp ==
    repaired /\ row.present /\ row.cursor # None =>
        \A e \in Events : events[e] # remote[e] => changed[e] > row.cursor

\* "service.disconnect(db)" leaves no event and no refresh token (tests/test_v054.py:195-197),
\* until the user connects again.
DisconnectedIsEmpty == left => ~conn.token /\ \A e \in Events : events[e] = None
=============================================================================
