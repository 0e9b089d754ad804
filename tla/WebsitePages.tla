----------------------------- MODULE WebsitePages -----------------------------
(* How the files of one course web site are read: sources/website.py, the   *)
(* web site's part of services/sync.py (default_adapters, run, the pending  *)
(* resources) and the switches in api/routes.py.  A run reads the landing   *)
(* page, then the files that earlier runs could not read, then those that   *)
(* the page links to, until it has read as many URLs as the user allows;    *)
(* afterwards it stores what it got, one commit after another.  Requests    *)
(* come in between.  Why a file could not be read, deeper pages, later      *)
(* versions (SyncEngine) and credentials (WebsiteAccess) are left out.      *)
EXTENDS Naturals, Sequences, SequencesExt, FiniteSets

CONSTANTS Files,       \* the URLs of files on this site
          Limits,      \* discovery_path_limit, landing page included: at least 2
          MaxFailures, \* bound: how often a run breaks off
          MaxEdits     \* bound: how often the user changes the limit

VARIABLES steady,    \* the files that the site serves from now on, whenever they are asked for
          offered,   \* the course is active and its source enabled
          limit,     \* CourseSource.config_json["discovery_path_limit"]
          item,      \* SourceItem: none, known without a snapshot, or read
          pending,   \* PendingResource.state: none, unread or FETCHED
          order,     \* the pending resources by last_attempt_at
          run,       \* the sync run: its limit, what it has to fetch and what it got
          failures, edits

rows == <<item, pending, order>>
user == <<offered, limit, edits>>
vars == <<steady, user, rows, run, failures>>

Idle == [pc |-> "idle", limit |-> 0, retries |-> <<>>, links |-> {}, got |-> <<>>]
Fetched == {run.got[i].file : i \in DOMAIN run.got}

Init ==
    /\ steady = {} /\ offered = TRUE
    /\ limit \in Limits
    /\ item = [f \in Files |-> "none"]
    /\ pending = [f \in Files |-> "none"] /\ order = <<>>
    /\ run = Idle
    /\ failures = 0 /\ edits = 0

-----------------------------------------------------------------------------
(* What the run fetches. *)

Prefix(s) == SubSeq(s, 1, IF Len(s) < limit THEN Len(s) ELSE limit)

RetriedById == Prefix(SelectSeq(SetToSeq(Files), LAMBDA f : pending[f] = "unread"))  \* seeded: by id
(* Those whose last attempt is the longest ago. *)
Retried == Prefix(SelectSeq(order, LAMBDA f : pending[f] = "unread"))

(* The adapter is built, and the landing page read; it may link to nothing, *)
(* or not be served.  Whoever switches the site off does not stop the run.  *)
Begin(linked) ==
    /\ run = Idle /\ offered
    /\ run' = [pc |-> "fetching", limit |-> limit, retries |-> Retried, links |-> linked, got |-> <<>>]
    /\ UNCHANGED <<steady, user, rows, failures>>

Following ==
    IF run.retries # <<>> THEN {Head(run.retries)} ELSE run.links \ Fetched

HasRoom == Len(run.got) + 1 < run.limit

Fetch(f, ok) ==
    /\ run.pc = "fetching" /\ HasRoom /\ f \in Following
    /\ f \in steady => ok
    /\ run' = [run EXCEPT !.got = Append(@, [file |-> f, ok |-> ok]),
                          !.retries = IF @ = <<>> THEN @ ELSE Tail(@)]
    /\ UNCHANGED <<steady, user, rows, failures>>

FetchesEnd ==
    /\ run.pc = "fetching" /\ ~(HasRoom /\ Following # {})
    /\ run' = [Idle EXCEPT !.pc = "storing", !.got = run.got]
    /\ UNCHANGED <<steady, user, rows, failures>>

-----------------------------------------------------------------------------
(* What it stores. *)

Attempted(f) == order' = Append(Remove(order, f), f)

(* _pending_source_item, _mark_pending: content that is there stays. *)
MarkPending(f) ==
    /\ item' = [item EXCEPT ![f] = IF @ = "none" THEN "known" ELSE @]
    /\ pending' = [pending EXCEPT ![f] = "unread"]
    /\ Attempted(f)

(* store_observation, _mark_fetched, and the download. *)
Observe(f) ==
    /\ item' = [item EXCEPT ![f] = "read"]
    /\ IF pending[f] = "none"
       THEN UNCHANGED <<pending, order>>
       ELSE pending' = [pending EXCEPT ![f] = "FETCHED"] /\ Attempted(f)

Store ==
    /\ run.pc = "storing" /\ run.got # <<>>
    /\ LET row == Head(run.got)
       IN IF row.ok THEN Observe(row.file) ELSE MarkPending(row.file)
    /\ run' = [run EXCEPT !.got = Tail(@)]
    /\ UNCHANGED <<steady, user, failures>>

RunEnds ==
    /\ run.pc = "storing" /\ run.got = <<>>
    /\ run' = Idle
    /\ UNCHANGED <<steady, user, rows, failures>>

(* A download or a commit fails, or the process stops: what is left is not stored. *)
BreaksOff ==
    /\ run # Idle
    /\ failures < MaxFailures /\ failures' = failures + 1
    /\ run' = Idle
    /\ UNCHANGED <<steady, user, rows>>

-----------------------------------------------------------------------------
(* The site, and the user. *)

Settles(f) ==
    /\ f \notin steady /\ steady' = steady \union {f}
    /\ UNCHANGED <<user, rows, run, failures>>

\* The course is archived or the source disabled.
SwitchOff ==
    /\ offered /\ offered' = FALSE
    /\ UNCHANGED <<steady, limit, edits, rows, run, failures>>

SwitchOn ==
    /\ ~offered /\ offered' = TRUE
    /\ UNCHANGED <<steady, limit, edits, rows, run, failures>>

EditLimit(n) ==
    /\ edits < MaxEdits /\ edits' = edits + 1
    /\ limit' = n
    /\ UNCHANGED <<steady, offered, rows, run, failures>>

RunStep ==
    \/ \E linked \in SUBSET Files : Begin(linked)
    \/ \E f \in Files, ok \in BOOLEAN : Fetch(f, ok)
    \/ FetchesEnd \/ Store \/ RunEnds

Next ==
    \/ RunStep
    \/ BreaksOff
    \/ \E f \in Files : Settles(f)
    \/ SwitchOff \/ SwitchOn
    \/ \E n \in Limits : EditLimit(n)

\* The scheduler starts a run every two minutes, and every fetch has a timeout.
Fairness == WF_vars(RunStep)

Spec == Init /\ [][Next]_vars /\ Fairness

-----------------------------------------------------------------------------
(* A file that could not be read is read in the end if the site serves it:  *)
(* however many others cannot be read, though the limit be lowered under    *)
(* their number, and whether or not it is still linked; unless the user     *)
(* switches it off.                                                         *)
EveryFileIsRetried ==
    \A f \in Files :
        (f \in steady /\ pending[f] = "unread")
            ~> ((pending[f] = "FETCHED" /\ item[f] = "read") \/ ~offered)
=============================================================================
