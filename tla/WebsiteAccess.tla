---------------------------- MODULE WebsiteAccess ----------------------------
(* One course web site and its NTLM credential: services/website_access.py, *)
(* services/source_connections.py, the NTLM part of services/auth.py and    *)
(* auth/fetchers.py. A candidate is probed in a slot of its own, for        *)
(* seconds; then the site's row and the credential are saved, one in the    *)
(* database and the other in the credential store. Coroutines share the     *)
(* API's event loop, clear_credential runs on a thread, and the scheduler's *)
(* sync fetches in a loop of its own. Path prefixes, pages and labels are   *)
(* left out; a profile's displayed state too.                               *)
EXTENDS FiniteSets

CONSTANTS Bases,    \* the URLs the site is moved between; one names its credential
          Origin,   \* of each of them
          Requests, \* each is made once
          None

VARIABLES conn,      \* SourceConnection: base URL, credential id and config_json
          source,    \* the CourseSource that sync reads
          profile,   \* CredentialProfile of each credential id: the base it is for
          slot,      \* CredentialStore: who entered each credential; a base, if long before
          sessions,  \* NtlmFetcher._sessions: for each credential id a credential and a session
          within,    \* the session that each fetch is sent in
          req,       \* every request
          mixed,     \* history: credentials whose installation may not match the site
          overlapped, \* history: an edit was saved over another that it had not seen
          restarted

rows == <<conn, source, profile>>
fetches == <<sessions, within>>
history == <<mixed, overlapped>>
vars == <<rows, slot, fetches, req, history, restarted>>

NoConn == [base |-> None, cid |-> None, config |-> [base |-> None, method |-> "none"]]
NoSource == [base |-> None, cid |-> None, method |-> "none"]
\* A session logs in with the credential that it was made with, its auth.
SessionOf(credential) == [auth |-> credential]
NotCached == [credential |-> None, session |-> SessionOf(None)]
Unmade == [pc |-> "unmade", kind |-> "none", base |-> None, method |-> "none", cid |-> None,
           seen |-> NoConn, previous |-> None, candidate |-> None, came |-> FALSE]

\* Requests that hold the API's event loop: they saved to the store and have not committed.
Committing == {q \in Requests : req[q].pc = "installed"}
Set(q, r) == req' = [req EXCEPT ![q] = r]
\* A request ends; what it entered, and for which base, is remembered if it was installed.
Done(q) == [Unmade EXCEPT !.pc = "done", !.base = IF req[q].candidate = q THEN req[q].base ELSE None]
Refuse(q) == Set(q, [Unmade EXCEPT !.pc = "done"])

(* A slot that changes and changes back looks untouched to who compares it. *)
Store(cid, object) == slot' = [slot EXCEPT ![cid] = object]
Notice(cid, rs) == [q \in Requests |->
    IF slot'[cid] # slot[cid] /\ rs[q].cid = cid /\ rs[q].pc \in {"probing", "probed"} THEN [rs[q] EXCEPT !.came = TRUE] ELSE rs[q]]

(* No site yet, or one that has a credential. *)
Init ==
    /\ \/ /\ conn = NoConn /\ source = NoSource
          /\ profile = [b \in Bases |-> None] /\ slot = [b \in Bases |-> None]
       \/ \E home \in Bases :
          /\ conn = [base |-> home, cid |-> home, config |-> [base |-> home, method |-> "ntlm"]]
          /\ source = [base |-> home, cid |-> home, method |-> "ntlm"]
          /\ profile = [b \in Bases |-> IF b = home THEN home ELSE None]
          /\ slot = [b \in Bases |-> IF b = home THEN home ELSE None]
    /\ sessions = [b \in Bases |-> NotCached]
    /\ within = [q \in Requests |-> SessionOf(None)]
    /\ req = [q \in Requests |-> Unmade]
    /\ mixed = {} /\ overlapped = FALSE /\ restarted = FALSE

-----------------------------------------------------------------------------
(* save_website: a site is added, or edited. *)

Named(base) == IF conn.cid # None THEN conn.cid ELSE base

Unchanged(base, method) ==
    conn # NoConn /\ conn.base = base /\ conn.config.method = method

\* What comes with a save: no login, a user name alone, or a password, too.
Logins == {"no login", "user name", "password"}

(* A user name alone must be that of the credential that is loaded, which   *)
(* the probe finds out; what comes with a method that is not NTLM is unused. *)
Begin(q, base, method, with) ==
    /\ req[q] = Unmade /\ Committing = {}
    /\ ~(Unchanged(base, method) /\ with = "no login")  \* labels only: no probe, no credential
    /\ LET cid == Named(base)
           previous == slot[cid]
           refused == \/ method = "ntlm" /\ with # "password" /\ previous = None
                      \/ method = "ntlm" /\ with # "password" /\ conn # NoConn
                         /\ Origin[base] # Origin[conn.base]
       IN IF refused
          THEN Refuse(q)
          ELSE Set(q, [Unmade EXCEPT
                !.pc = "probing", !.kind = "save", !.base = base, !.method = method,
                !.cid = cid, !.seen = conn, !.previous = previous,
                !.candidate = IF method # "ntlm" THEN None ELSE IF with = "password" THEN q ELSE previous])
    /\ UNCHANGED <<rows, slot, fetches, history, restarted>>

(* probe_website: protected access is verified, or only public pages are    *)
(* reached, which does not displace a credential that is loaded.            *)
Probed(q, verified) ==
    /\ req[q].pc = "probing" /\ req[q].kind \in {"save", "set"}
    /\ verified => req[q].candidate # None
    /\ IF ~verified /\ req[q].previous # None /\ req[q].candidate \notin {None, req[q].previous}
       THEN Refuse(q)
       ELSE Set(q, [req[q] EXCEPT !.pc = "probed"])
    /\ UNCHANGED <<rows, slot, fetches, history, restarted>>

ProbeFails(q) ==
    /\ req[q].pc = "probing" /\ req[q].kind \in {"save", "set"}
    /\ Refuse(q)
    /\ UNCHANGED <<rows, slot, fetches, history, restarted>>

Same(cid, previous) == slot[cid] = previous

(* replace_ntlm; with a vault it may fail, and then nothing is changed. *)
Replace(cid, expected, object) == Same(cid, expected) /\ Store(cid, object)

(* The row as it was read before the probe: columns that the edit does not  *)
(* change are not written.                                                  *)
Written(row, seen, new) ==
    [f \in DOMAIN row |-> IF new[f] = seen[f] THEN row[f] ELSE new[f]]

NewRow(q) ==
    LET cid == IF req[q].method # "ntlm" THEN None
               ELSE IF req[q].seen.cid # None THEN req[q].seen.cid ELSE req[q].base
    IN [base |-> req[q].base, cid |-> cid,
        config |-> [base |-> req[q].base, method |-> req[q].method]]

\* create_website_connection returns a site that another request added meanwhile.
Exists(q) == req[q].seen = NoConn /\ conn # NoConn
KnownTo(q) == IF Exists(q) THEN conn.cid ELSE NewRow(q).cid

InstallChanges(q) ==
    IF req[q].candidate # None THEN KnownTo(q) # None ELSE req[q].previous # None

Install(q) ==
    /\ req[q].pc = "probed" /\ req[q].kind = "save" /\ Committing = {}
    /\ Exists(q) => conn.base = req[q].base
    /\ \/ InstallChanges(q)
          /\ Replace(req[q].cid, req[q].previous, req[q].candidate)
          /\ req' = [Notice(req[q].cid, req) EXCEPT ![q].pc = "installed"]
       \/ /\ req[q].candidate = None /\ req[q].previous = None /\ Same(req[q].cid, None)
          /\ Set(q, [req[q] EXCEPT !.pc = "installed"])
          /\ UNCHANGED slot
    /\ UNCHANGED <<rows, fetches, history, restarted>>

(* The slot was changed meanwhile, or the vault does not take the change. *)
InstallFails(q) ==
    /\ req[q].pc = "probed" /\ Committing = {}
    /\ Refuse(q)
    /\ UNCHANGED <<rows, slot, fetches, history, restarted>>

\* A session that is taken out of the cache serves those who have it to the end.
Invalidate(cid) == sessions' = [sessions EXCEPT ![cid] = NotCached]

\* The source that sync reads and the profile follow the row.
Follows(q) ==
    /\ source' = [base |-> NewRow(q).base, cid |-> NewRow(q).cid, method |-> req[q].method]
    /\ profile' = IF NewRow(q).cid = None THEN profile
                  ELSE [profile EXCEPT ![NewRow(q).cid] = req[q].base]

Added(q) == conn = NoConn /\ conn' = NewRow(q) /\ Follows(q)

(* update_source_connection; what it checks was probed before.              *)
Edited(q) == conn # NoConn /\ conn' = Written(conn, req[q].seen, NewRow(q)) /\ Follows(q)

Commit(q) ==
    /\ req[q].pc = "installed"
    /\ \/ Exists(q) /\ UNCHANGED rows
       \/ ~Exists(q) /\ (Added(q) \/ Edited(q))
    /\ IF InstallChanges(q) THEN Invalidate(req[q].cid) ELSE UNCHANGED sessions
    /\ Set(q, Done(q))
    /\ UNCHANGED <<slot, within, mixed, restarted>>
    /\ overlapped' = (overlapped \/ conn # req[q].seen)

Rollback(q) ==
    IF InstallChanges(q) /\ slot[req[q].cid] = req[q].candidate
    THEN \/ Store(req[q].cid, req[q].previous) /\ UNCHANGED mixed
         \/ UNCHANGED slot /\ mixed' = mixed \union {req[q].candidate}  \* the vault fails, too
    ELSE UNCHANGED <<slot, mixed>>

CommitFails(q) ==
    /\ req[q].pc = "installed"
    /\ Rollback(q)
    /\ Set(q, Done(q))
    /\ UNCHANGED <<rows, fetches, overlapped, restarted>>

-----------------------------------------------------------------------------
(* set_and_verify: a credential for the site as its profile describes it,   *)
(* which stays as it is when the site stops to use it.                      *)

BeginSet(q, cid, password) ==
    /\ req[q] = Unmade /\ Committing = {} /\ profile[cid] # None
    /\ IF ~password /\ slot[cid] = None
       THEN Refuse(q)
       ELSE Set(q, [Unmade EXCEPT
                !.pc = "probing", !.kind = "set", !.base = profile[cid], !.method = "ntlm",
                !.cid = cid, !.previous = slot[cid], !.came = (conn.cid # cid),
                !.candidate = IF password THEN q ELSE slot[cid]])
    /\ UNCHANGED <<rows, slot, fetches, history, restarted>>

InstallSet(q) ==
    /\ req[q].pc = "probed" /\ req[q].kind = "set" /\ Committing = {}
    /\ Replace(req[q].cid, req[q].previous, req[q].candidate)
    /\ mixed' = IF req[q].candidate = q /\ (req[q].came \/ conn.cid # req[q].cid)
                THEN mixed \union {q} ELSE mixed
    /\ Invalidate(req[q].cid)
    /\ req' = [Notice(req[q].cid, req) EXCEPT ![q] = Done(q)]
    /\ UNCHANGED <<rows, within, overlapped, restarted>>

-----------------------------------------------------------------------------
(* Fetches: ResourceFetcher asks anonymously, then with the credential that *)
(* is loaded by then; NtlmFetcher keeps a session for each credential id.   *)

BeginFetch(q, kind, cid) ==
    /\ req[q] = Unmade
    /\ kind = "sync" => source.method = "ntlm" /\ cid = source.cid
    /\ kind = "verify" => profile[cid] # None /\ slot[cid] # None
    /\ Set(q, [Unmade EXCEPT !.pc = "asking", !.kind = kind, !.cid = cid])
    /\ UNCHANGED <<rows, slot, fetches, history, restarted>>

Challenged(q) ==
    /\ req[q].pc = "asking"
    /\ \/ Set(q, Done(q))  \* the page is public
       \/ slot[req[q].cid] = None /\ Refuse(q)
       \/ /\ slot[req[q].cid] # None
          /\ Set(q, [req[q] EXCEPT !.pc = "loaded", !.previous = slot[req[q].cid]])
    /\ UNCHANGED <<rows, slot, fetches, history, restarted>>

Anyone(q) == sessions[req[q].cid] # NotCached  \* seeded: whose session it is, is not compared
Mine(q) == sessions[req[q].cid].credential = req[q].previous

(* NtlmFetcher._session: the session that is cached for the id if it is of  *)
(* the very credential that was loaded, and else a new one, cached from now *)
(* on. Meanwhile others replaced, cleared and fetched on threads of theirs. *)
Send(q) ==
    /\ req[q].pc = "loaded"
    /\ \/ /\ Mine(q)
          /\ within' = [within EXCEPT ![q] = sessions[req[q].cid].session]
          /\ UNCHANGED sessions
       \/ /\ ~Mine(q)
          /\ within' = [within EXCEPT ![q] = SessionOf(req[q].previous)]
          /\ sessions' = [sessions EXCEPT ![req[q].cid] =
                            [credential |-> req[q].previous, session |-> SessionOf(req[q].previous)]]
    /\ Set(q, [req[q] EXCEPT !.pc = "sent"])
    /\ UNCHANGED <<rows, slot, history, restarted>>

(* verify clears the slot when the site refuses, whatever it holds by then. *)
Answered(q, refused) ==
    /\ req[q].pc = "sent"
    /\ IF refused /\ req[q].kind = "verify"
       THEN /\ Store(req[q].cid, None) /\ Invalidate(req[q].cid)
            /\ req' = [Notice(req[q].cid, req) EXCEPT ![q] = Done(q)]
       ELSE Set(q, Done(q)) /\ UNCHANGED <<slot, sessions>>
    /\ within' = [within EXCEPT ![q] = SessionOf(None)]
    /\ UNCHANGED <<rows, history, restarted>>

(* DELETE .../credential, on a thread of the pool. *)
Clear(cid) ==
    /\ slot[cid] # None
    /\ Store(cid, None) /\ Invalidate(cid)
    /\ req' = Notice(cid, req)
    /\ UNCHANGED <<rows, within, history, restarted>>

(* With a vault a restart finds the last credential that was stored. *)
Restart ==
    /\ ~restarted /\ restarted' = TRUE
    /\ \E kept \in BOOLEAN : slot' = IF kept THEN slot ELSE [b \in Bases |-> None]
    /\ mixed' = mixed \union {slot[req[q].cid] : q \in {p \in Committing : InstallChanges(p)}}
    /\ sessions' = [b \in Bases |-> NotCached]
    /\ within' = [q \in Requests |-> SessionOf(None)]
    /\ req' = [q \in Requests |-> IF req[q] = Unmade THEN Unmade
                                  ELSE IF req[q].pc = "done" THEN req[q] ELSE Done(q)]
    /\ UNCHANGED <<rows, overlapped>>

Next ==
    \/ \E q \in Requests, b \in Bases :
          \/ \E m \in {"none", "ntlm"}, with \in Logins : Begin(q, b, m, with)
          \/ \E password \in BOOLEAN : BeginSet(q, b, password)
    \/ \E q \in Requests :
          \/ \E yes \in BOOLEAN : Probed(q, yes) \/ Answered(q, yes)
          \/ ProbeFails(q) \/ Install(q) \/ InstallFails(q) \/ Commit(q) \/ CommitFails(q)
          \/ InstallSet(q) \/ Challenged(q) \/ Send(q)
    \/ \E q \in Requests, b \in Bases, k \in {"sync", "verify"} : BeginFetch(q, k, b)
    \/ \E b \in Bases : Clear(b)
    \/ Restart

Spec == Init /\ [][Next]_vars

-----------------------------------------------------------------------------
EnteredFor(x) == IF x \in Bases THEN x ELSE req[x].base

\* What the site's access rule uses was entered for the site at its present origin.
SiteIsWhole ==
    Committing = {} /\ ~overlapped /\ source.method = "ntlm"
        /\ slot[source.cid] \notin {None} \union mixed =>
            Origin[EnteredFor(slot[source.cid])] = Origin[source.base]

\* The session that a page is asked for in logs in with the credential that the fetch
\* loaded, whoever made that session, and whatever was replaced and cached meanwhile.
SessionsAreFresh == \A q \in Requests : req[q].pc = "sent" => within[q].auth = req[q].previous

(* "transactional source/credential installation" (website_access.py:1):    *)
(* whatever fails, is cleared or is saved by another request during a       *)
(* probe, the site is never left at one origin with a credential that was   *)
(* entered for another. It may be, which this says too, after a crash       *)
(* between the store and the commit, after a vault that fails as well, when *)
(* two edits overlap, and with a credential that is set, by its profile,    *)
(* while the site does not use it or whose slot was changed and changed     *)
(* back meanwhile. And a fetch that loaded a credential is never sent in    *)
(* the session of another, such as the one it replaced: a fetch that had    *)
(* loaded that one caches its session again after it was invalidated, and   *)
(* only the comparison keeps it from who comes next (fetchers.py:109-122).  *)
AccessFits == SiteIsWhole /\ SessionsAreFresh
=============================================================================
