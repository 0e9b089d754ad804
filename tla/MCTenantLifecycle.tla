------------------------- MODULE MCTenantLifecycle -------------------------
(* What an installation's timers are for: the tenants of invited accounts,  *)
(* with reconcile; or a tenant's sync, which reads a course's web site; or, *)
(* without a timer, the import into the owner's slot.                       *)
EXTENDS TenantLifecycle, TLC

CONSTANTS Passwords, MaxRuns, MaxReboots
CONSTANTS Files, Limits, MaxFailures, MaxEdits

VARIABLES focus,
          at, replace, source, content, database, vault, env, lock, key, on, up, unstopped, timer,
          starting, runs, reboots, owner, codeKnown, session, changing, passwords,
          steady, offered, limit, item, pending, order, run, failures, edits

Owner == INSTANCE OwnerAccess WITH data <- content, secrets <- key, enabled <- on, running <- up
Pages == INSTANCE WebsitePages

ownerVars == <<at, replace, source, content, database, vault, env, lock, key, on, up, unstopped, timer,
               starting, runs, reboots, owner, codeKnown, session, changing, passwords>>
pageVars == <<steady, offered, limit, item, pending, order, run, failures, edits>>

Symmetry == Permutations(Accounts) \union Permutations(Slots)

MCInit ==
    /\ focus \in {"tenants", "owner", "web_site"}
    /\ Init /\ Owner!Init /\ Pages!Init
    /\ focus # "owner" => content = "none"
    /\ focus # "web_site" => \A n \in Limits : limit <= n

\* A run of the web site breaks off, or the user changes its limit.
OneUpset == edits' + failures' < 2

MCNext ==
    /\ UNCHANGED focus
    /\ \/ focus = "tenants" /\ Next /\ UNCHANGED <<ownerVars, pageVars>>
       \/ focus = "owner" /\ Owner!Next /\ UNCHANGED <<vars, pageVars>>
       \/ focus = "owner" /\ at = "idle" /\ UNCHANGED <<vars, ownerVars, pageVars>>
       \/ focus = "web_site" /\ Pages!Next /\ OneUpset /\ UNCHANGED <<vars, ownerVars>>

MCSpec == MCInit /\ [][MCNext]_<<focus, vars, ownerVars, pageVars>>

\* The timers start reconcile, and a sync, again and again, and both come to an end.
MCFairSpec ==
    /\ MCSpec
    /\ WF_vars(focus = "tenants" /\ Reconciler)
    /\ WF_pageVars(focus = "web_site" /\ Pages!RunStep)

ImportIsWhole == Owner!ImportIsWhole
EveryFileIsRetried == Pages!EveryFileIsRetried
=============================================================================
