-------------------------- MODULE CanvasConnection --------------------------
(* How a Canvas profile is connected and disconnected: AuthService, the      *)
(* OAuth attempts of CanvasOAuth and the endpoints that call them. Requests  *)
(* await Canvas between what they read and what they write. A credential is  *)
(* the account it belongs to; the store's own steps are in CredentialStore,  *)
(* the browser session in BrokerChallenges.                                  *)
EXTENDS FiniteSets, Naturals

CONSTANTS Accounts,      \* Canvas accounts the user has
          Environment,   \* the account of CANVAS_ACCESS_TOKEN, if it is set
          Requests,
          MaxGeneration, \* bounds the changes of a method
          MaxBegun,      \* bounds the requests and OAuth attempts
          None

VARIABLES slot,    \* the account of each method's credential
          gen,     \* _generations
          blocked, \* canvas_blocked: the user removed a PAT, so the environment's is not used
          bound,   \* metadata_json["account"]["id"]
          state,   \* CredentialProfile.state
          grant,   \* CanvasOAuth.states: the attempt that is not yet consumed
          req,     \* what each request has read
          begun

cvars == <<slot, gen, blocked, bound, state, grant, req, begun>>

Modes == {"oauth", "pat", "browser_session"}
NoRequest == [kind |-> "idle"]
Connected(s) == \E m \in Modes : s[m] # None

Init ==
    /\ slot = [m \in Modes |-> None] /\ gen = [m \in Modes |-> 0] /\ blocked = FALSE
    /\ bound = None /\ state = "AUTH_REQUIRED"
    /\ grant = None /\ req = [q \in Requests |-> NoRequest] /\ begun = 0

-----------------------------------------------------------------------------
(* Every change of a method's slot, also the removal of an absent one,       *)
(* advances its generation. cut is set in OAuth attempts it overtakes.       *)
Cut(g) == IF g = None THEN None ELSE [g EXCEPT !.cut = TRUE]
Overtaken(r) == IF r.kind = "callback" THEN [r EXCEPT !.cut = TRUE] ELSE r

Change(m, a, others) ==
    /\ gen[m] < MaxGeneration
    /\ slot' = [slot EXCEPT ![m] = a] /\ gen' = [gen EXCEPT ![m] = @ + 1]
    /\ blocked' = IF m = "pat" THEN a = None ELSE blocked
    /\ grant' = IF m = "oauth" THEN Cut(grant) ELSE grant
    /\ req' = [q \in Requests |-> IF m = "oauth" THEN Overtaken(others[q]) ELSE others[q]]

(* canvas_credential: an installed one or, unless that was removed, the one   *)
(* of the environment.                                                        *)
Inherits == Environment # None /\ ~blocked /\ ~Connected(slot)
Usable == Connected(slot) \/ Inherits

Done(q) == [req EXCEPT ![q] = NoRequest]

Begins(q, r) ==
    /\ req[q] = NoRequest /\ begun < MaxBegun
    /\ req' = [req EXCEPT ![q] = r] /\ begun' = begun + 1

(* set_canvas_and_verify, set_canvas_session_and_verify: the candidate is     *)
(* probed; the profile was read before, and of it only what differs from what *)
(* was read is written.                                                       *)
Offer(q, m, a) ==
    /\ Begins(q, [kind |-> "offer", mode |-> m, account |-> a, seen |-> bound, was |-> state,
                  replacing |-> Usable])
    /\ UNCHANGED <<slot, gen, blocked, bound, state, grant>>

OfferToken(q, a) == Offer(q, "pat", a)
OfferSession(q, a) == Offer(q, "browser_session", a)

Fits(seen, a) == seen \in {None, a}

Written(q, s) == IF s = req[q].was THEN state ELSE s

Accepted(q) ==
    /\ req[q].kind = "offer" /\ Fits(req[q].seen, req[q].account)
    /\ Change(req[q].mode, req[q].account, Done(q))
    /\ \/ bound' = req[q].account
       \/ req[q].seen = req[q].account /\ UNCHANGED bound
    /\ state' = Written(q, "ACTIVE")
    /\ UNCHANGED begun

(* Refused by Canvas or of another account: the current ones stay.  Whether    *)
(* there are some is looked at before the probe of a PAT, after a session's.   *)
Replacing(q) == IF req[q].mode = "pat" THEN req[q].replacing ELSE Usable
Verdicts(q) == {"FAILED", "DEGRADED"} \union (IF req[q].mode = "pat" THEN {} ELSE {"AUTH_REQUIRED"})

Refused(q) ==
    /\ req[q].kind = "offer"
    /\ \/ UNCHANGED state /\ (Replacing(q) \/ ~Fits(req[q].seen, req[q].account))
       \/ ~Replacing(q) /\ \E s \in Verdicts(q) : state' = Written(q, s)
    /\ req' = Done(q)
    /\ UNCHANGED <<slot, gen, blocked, bound, grant, begun>>

(* _verify_canvas of an installed method.                                    *)
Verify(q, m) ==
    /\ \/ /\ slot[m] = None /\ state' = "AUTH_REQUIRED" /\ UNCHANGED <<req, begun>>
       \/ /\ slot[m] # None /\ state' = "VERIFYING"
          /\ Begins(q, [kind |-> "verify", mode |-> m, account |-> slot[m], seen |-> bound,
                        gen |-> gen[m], renewing |-> (m = "oauth")])
    /\ UNCHANGED <<slot, gen, blocked, bound, grant>>

(* The same of the environment's token, when nothing else is connected.       *)
VerifyEnvironment(q) ==
    /\ Inherits /\ state' = "VERIFYING"
    /\ Begins(q, [kind |-> "verify", mode |-> "pat", account |-> Environment, seen |-> bound,
                  gen |-> gen["pat"], renewing |-> FALSE])
    /\ UNCHANGED <<slot, gen, blocked, bound, grant>>

Current(q) == gen[req[q].mode] = req[q].gen

(* An OAuth token is renewed first if it is about to expire, and read again.  *)
Renew(q) ==
    /\ req[q].kind = "verify" /\ req[q].renewing /\ slot["oauth"] # None
    /\ LET Renewed(n) == [req EXCEPT ![q].gen = n, ![q].account = slot["oauth"], ![q].renewing = FALSE]
       IN  \/ req' = Renewed(gen["oauth"]) /\ UNCHANGED <<slot, gen, blocked, grant>>
           \/ /\ req[q].seen = slot["oauth"]
              /\ Change("oauth", slot["oauth"], Renewed(gen["oauth"] + 1))
    /\ UNCHANGED <<bound, state, begun>>

(* What it finds current is marked; the environment's token is installed if   *)
(* nothing is connected then.                                                  *)
Verified(q) ==
    /\ req[q].kind = "verify" /\ ~req[q].renewing
    /\ IF Fits(req[q].seen, req[q].account) /\ Current(q)
       THEN bound' = req[q].account /\ state' = "ACTIVE"
       ELSE UNCHANGED <<bound, state>>
    /\ IF Fits(req[q].seen, req[q].account) /\ Current(q) /\ ~Connected(slot)
       THEN Change("pat", req[q].account, Done(q))
       ELSE req' = Done(q) /\ UNCHANGED <<slot, gen, blocked, grant>>
    /\ UNCHANGED begun

(* An authentication failure removes the method, other failures do not.      *)
VerifyFails(q) ==
    /\ req[q].kind = "verify"
    /\ \/ slot[req[q].mode] # None /\ Current(q) /\ Change(req[q].mode, None, Done(q))
       \/ req' = Done(q) /\ UNCHANGED <<slot, gen, blocked, grant>>
    /\ state' = IF Connected(slot') THEN "ACTIVE" ELSE "AUTH_REQUIRED"
    /\ UNCHANGED <<bound, begun>>

(* remove_canvas_method; clear disables every method.                         *)
Remove(m) ==
    /\ Change(m, None, req)
    /\ state' = IF Connected(slot') THEN "ACTIVE" ELSE "AUTH_REQUIRED"
    /\ UNCHANGED <<bound, begun>>

Clear ==
    /\ \A m \in Modes : gen[m] < MaxGeneration
    /\ slot' = [m \in Modes |-> None] /\ gen' = [m \in Modes |-> gen[m] + 1]
    /\ blocked' = TRUE /\ grant' = Cut(grant) /\ req' = [q \in Requests |-> Overtaken(req[q])]
    /\ state' = "AUTH_REQUIRED"
    /\ UNCHANGED <<bound, begun>>

(* A routed read loses a method that Canvas refuses, and then the failure is  *)
(* recorded (mark_runtime_failure).                                           *)
Lapse(m) == slot[m] # None /\ Change(m, None, req) /\ UNCHANGED <<bound, state, begun>>

Mark ==
    /\ state' = IF Connected(slot) THEN "ACTIVE" ELSE "AUTH_REQUIRED"
    /\ UNCHANGED <<slot, gen, blocked, bound, grant, req, begun>>

(* ensure_profiles, before every request that names a profile: a PAT whose    *)
(* recorded expiry has passed is removed, and the state follows the store.    *)
Ensure(expired) ==
    /\ IF expired THEN gen["pat"] > 0 /\ Change("pat", None, req)
                  ELSE UNCHANGED <<slot, gen, blocked, grant, req>>
    /\ state' = IF Connected(slot') THEN "ACTIVE"
                ELSE IF expired \/ state \in {"ACTIVE", "VERIFYING"} \/ (Inherits' /\ state # "FAILED")
                THEN "AUTH_REQUIRED"
                ELSE state
    /\ UNCHANGED <<bound, begun>>

(* reset_after_restart: with a vault the credentials are kept. Who compares    *)
(* generations is gone by then, so they need not start anew.                  *)
Restart ==
    /\ \/ UNCHANGED <<slot, blocked>>
       \/ slot' = [m \in Modes |-> None] /\ blocked' = FALSE
    /\ state' = IF Connected(slot') THEN "ACTIVE" ELSE "AUTH_REQUIRED"
    /\ grant' = None /\ req' = [q \in Requests |-> NoRequest]
    /\ UNCHANGED <<gen, bound, begun>>

-----------------------------------------------------------------------------
(* begin: a newer attempt of the profile replaces the older one.              *)
Authorize ==
    /\ begun < MaxBegun /\ begun' = begun + 1
    /\ grant' = [gen |-> gen["oauth"], cut |-> FALSE]
    /\ UNCHANGED <<slot, gen, blocked, bound, state, req>>

Expire == grant # None /\ grant' = None /\ UNCHANGED <<slot, gen, blocked, bound, state, req, begun>>

(* callback: the state is consumed before the code is exchanged.              *)
Callback(q, a) ==
    /\ grant # None /\ req[q] = NoRequest
    /\ req' = [req EXCEPT ![q] = [kind |-> "callback", gen |-> grant.gen, account |-> a,
                                  cut |-> grant.cut]]
    /\ grant' = None
    /\ UNCHANGED <<slot, gen, blocked, bound, state, begun>>

PublishableAnyway(q) == Fits(bound, req[q].account)  \* seeded: the generation is not compared
Publishable(q) == gen["oauth"] = req[q].gen /\ Fits(bound, req[q].account)

(* The profile is read again, compared and written while the store is locked, *)
(* and so is the token after it: nobody's change of a method comes between.   *)
Publish(q) ==
    /\ req[q].kind = "callback" /\ Publishable(q)
    /\ Change("oauth", req[q].account, Done(q))
    /\ bound' = req[q].account /\ state' = "ACTIVE"
    /\ UNCHANGED begun

(* The profile is committed before the token is installed: if the vault        *)
(* refuses the token, the profile shows a connection that it has not.          *)
PublishIsCut(q) ==
    /\ req[q].kind = "callback" /\ Publishable(q) /\ req' = Done(q)
    /\ bound' = req[q].account /\ state' = "ACTIVE"
    /\ UNCHANGED <<slot, gen, blocked, grant, begun>>

CallbackFails(q) ==
    /\ req[q].kind = "callback" /\ req' = Done(q)
    /\ UNCHANGED <<slot, gen, blocked, bound, state, grant, begun>>

(* refresh: one at a time; what it exchanged is installed or, if Canvas no    *)
(* longer knows it or knows it as another account's, removed.                  *)
Refresh(q) ==
    /\ slot["oauth"] # None /\ \A r \in Requests : req[r].kind # "refresh"
    /\ Begins(q, [kind |-> "refresh", mode |-> "oauth", gen |-> gen["oauth"], account |-> slot["oauth"],
                  seen |-> bound])
    /\ UNCHANGED <<slot, gen, blocked, bound, state, grant>>

Refreshed(q) ==
    /\ req[q].kind = "refresh"
    /\ \/ /\ Current(q)
          /\ \/ req[q].seen = req[q].account /\ Change("oauth", req[q].account, Done(q))
             \/ Change("oauth", None, Done(q))
       \/ req' = Done(q) /\ UNCHANGED <<slot, gen, blocked, grant>>
    /\ UNCHANGED <<bound, state, begun>>

-----------------------------------------------------------------------------
Next ==
    \/ \E q \in Requests :
          \/ \E m \in Modes : Verify(q, m)
          \/ \E a \in Accounts : OfferToken(q, a) \/ OfferSession(q, a) \/ Callback(q, a)
          \/ Accepted(q) \/ Refused(q) \/ Renew(q) \/ Verified(q) \/ VerifyFails(q)
          \/ Publish(q) \/ PublishIsCut(q) \/ VerifyEnvironment(q) \/ CallbackFails(q) \/ Refresh(q) \/ Refreshed(q)
    \/ \E m \in Modes : Remove(m) \/ Lapse(m)
    \/ \E expired \in BOOLEAN : Ensure(expired)
    \/ Mark \/ Clear \/ Authorize \/ Expire \/ Restart

Spec == Init /\ [][Next]_cvars

-----------------------------------------------------------------------------
(* "State is scoped, single use" (tests/test_v070_canvas.py:82), and a       *)
(* disconnect is final for whoever asked before it: a callback installs a    *)
(* token only if, since its authorization was asked for, OAuth was neither   *)
(* disconnected nor renewed, and only for the account that the profile is    *)
(* bound to at that moment (api/canvas_oauth.py:59-70).                      *)
OnlyCurrentGrants ==
    \A q \in Requests :
        req[q].kind = "callback" /\ slot'["oauth"] # slot["oauth"] /\ slot'["oauth"] # None
            /\ req'[q] = NoRequest =>
                ~req[q].cut /\ bound \in {None, slot'["oauth"]}
GrantIsCurrent == [][OnlyCurrentGrants]_cvars
=============================================================================
