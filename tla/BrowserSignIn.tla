--------------------------- MODULE BrowserSignIn ---------------------------
(* One browser sign-in across its four processes: the page's component      *)
(* (BrowserSignIn), the gateway's map of outer to inner challenges          *)
(* (BrokerMap), the backend's challenge and the desktop broker with its     *)
(* login window. Requests are late or lost, and each process but the page   *)
(* restarts. What a challenge does to the stored credentials is in          *)
(* BrokerChallenges; here a challenge is only its state.                    *)
EXTENDS FiniteSets, Naturals

CONSTANTS Forms,     \* mounted BrowserSignIn components, in any tab
          Attempts,  \* bounds the challenges that are ever created
          MaxFaults, \* bounds the lost requests and restarts
          None

VARIABLES gateway,     \* whether a gateway stands before the backend
          sameTarget,  \* whether the forms are for the same profile
          owner,       \* the form each attempt was created for
          chal,        \* the backend's challenge of each attempt
          outer,       \* the gateway's row: "none", "held" or "exchanged"
          mounted, starting, ticket, busy,  \* refs and state of each form
          pc, value,   \* where a form's start() is, and the ticket it was given
          mine,        \* whether the intent is still that start()'s
          toBackend,   \* cancels on their way to the backend
          toDesktop,   \* logins and cancels on their way to the desktop
          gate,        \* the attempt that holds start_lock
          job,         \* the desktop's job of each attempt
          lost,        \* attempts that lost a request or a process
          faults       \* how often that happened

form == <<mounted, starting, ticket, busy, pc, value, mine>>
server == <<owner, chal, outer>>
desktop == <<gate, job>>
net == <<toBackend, toDesktop>>
fixed == <<gateway, sameTarget>>
fault == <<lost, faults>>
vars == <<fixed, form, server, desktop, net, fault>>

LiveStates == {"WAITING", "OPENED"}
Final == {"AUTHENTICATED", "CANCELLED", "FAILED", "TIMED_OUT"}
Running == {"login", "failing"}
Fault(affected) ==
    /\ faults < MaxFaults /\ faults' = faults + 1
    /\ lost' = lost \union affected

Login(a) == [kind |-> "login", a |-> a]
CancelOf(a) == [kind |-> "cancel", a |-> a]

Init ==
    /\ gateway \in BOOLEAN /\ sameTarget \in BOOLEAN
    /\ owner = [a \in Attempts |-> None]
    /\ chal = [a \in Attempts |-> "none"] /\ outer = [a \in Attempts |-> "none"]
    /\ mounted \in SUBSET Forms /\ starting = {} /\ busy = {}
    /\ ticket = [f \in Forms |-> None] /\ value = [f \in Forms |-> None]
    /\ pc = [f \in Forms |-> "idle"] /\ mine = [f \in Forms |-> FALSE]
    /\ toBackend = {} /\ toDesktop = {}
    /\ gate = None /\ job = [a \in Attempts |-> "none"] /\ lost = {} /\ faults \in 0 .. MaxFaults

-----------------------------------------------------------------------------
(* The page *)

Start(f) ==
    /\ f \in mounted \ (starting \union busy) /\ ticket[f] = None
    /\ starting' = starting \union {f} /\ busy' = busy \union {f}
    /\ pc' = [pc EXCEPT ![f] = "creating"]
    /\ mine' = [mine EXCEPT ![f] = TRUE]
    /\ UNCHANGED <<fixed, mounted, ticket, value, server, desktop, net, fault>>

(* cancel(a): both requests leave together; the form is busy until the   *)
(* backend has answered (the one to the desktop is given 2.5 s).          *)
Cancelling(f, a) ==
    /\ mine' = [mine EXCEPT ![f] = FALSE]
    /\ ticket' = [ticket EXCEPT ![f] = None]
    /\ IF a = None
       THEN busy' = busy \ {f} /\ UNCHANGED net
       ELSE /\ toBackend' = toBackend \union {a}
            /\ toDesktop' = toDesktop \union {CancelOf(a)}
            /\ UNCHANGED busy

Cancel(f) ==
    /\ f \in mounted \intersect busy
    /\ Cancelling(f, ticket[f])
    /\ UNCHANGED <<fixed, mounted, starting, pc, value, server, desktop, fault>>

(* A component that goes away cancels; its start() goes on without it. *)
Unmount(f) ==
    /\ f \in mounted /\ mounted' = mounted \ {f}
    /\ Cancelling(f, ticket[f])
    /\ UNCHANGED <<fixed, starting, pc, value, server, desktop, fault>>

(* start() has its ticket; the intent may be another's by now. *)
AbandonedNever(f) == FALSE  \* seeded: the intent is not looked at after the await
Abandoned(f) == f \notin mounted \/ ~mine[f]

GotTicket(f) ==
    /\ pc[f] = "created"
    /\ IF Abandoned(f)
       THEN /\ Cancelling(f, value[f])
            /\ pc' = [pc EXCEPT ![f] = "ending"]
       ELSE /\ ticket' = [ticket EXCEPT ![f] = value[f]]
            /\ toDesktop' = toDesktop \union {Login(value[f])}
            /\ pc' = [pc EXCEPT ![f] = "opening"]
            /\ UNCHANGED <<mine, busy, toBackend>>
    /\ UNCHANGED <<fixed, mounted, starting, value, server, desktop, fault>>

Returns(f) ==
    /\ pc' = [pc EXCEPT ![f] = "idle"] /\ starting' = starting \ {f}
    /\ value' = [value EXCEPT ![f] = None] /\ mine' = [mine EXCEPT ![f] = FALSE]

Opened(f) ==
    /\ pc[f] = "opening" /\ job[value[f]] \in Running \union {"done"}
    /\ Returns(f)
    /\ UNCHANGED <<fixed, mounted, ticket, busy, server, desktop, net, fault>>

(* A request is refused, lost or not answered in time. *)
StartFails(f) ==
    /\ pc[f] \in {"creating", "created", "opening"}
    /\ IF pc[f] = "created" THEN Fault({value[f]}) ELSE UNCHANGED fault
    /\ IF mine[f] THEN Cancelling(f, ticket[f]) ELSE UNCHANGED <<mine, ticket, busy, net>>
    /\ pc' = [pc EXCEPT ![f] = "ending"]
    /\ UNCHANGED <<fixed, mounted, starting, value, server, desktop>>

End(f) ==
    /\ pc[f] = "ending" /\ value[f] \notin toBackend
    /\ Returns(f)
    /\ UNCHANGED <<fixed, mounted, ticket, busy, server, desktop, net, fault>>

(* The gateway looks its row up before it asks the backend. *)
Answered(a) == (gateway => outer[a] # "none") /\ chal[a] \in LiveStates \union Final

(* The poll; an answer that is not final, or an error, is only shown. *)
Poll(f) ==
    /\ f \in mounted \intersect busy /\ ticket[f] # None
    /\ Answered(ticket[f]) /\ chal[ticket[f]] \in Final
    /\ ticket' = [ticket EXCEPT ![f] = None] /\ busy' = busy \ {f}
    /\ UNCHANGED <<fixed, mounted, starting, pc, value, mine, server, desktop, net, fault>>

-----------------------------------------------------------------------------
(* The backend and the gateway *)

Rowed(a) == gateway => outer[a] # "none"
Exchanged(a) == gateway => outer[a] = "exchanged"
Drop(a) == outer' = [outer EXCEPT ![a] = "none"]

(* A new challenge cancels the live ones of its profile. *)
Rival(b, f) == owner[b] # None /\ (sameTarget \/ owner[b] = f)

ServerCreates(f, a) ==
    /\ pc[f] = "creating" /\ owner[a] = None
    /\ owner' = [owner EXCEPT ![a] = f]
    /\ chal' = [b \in Attempts |-> IF b = a THEN "WAITING"
                                   ELSE IF Rival(b, f) /\ chal[b] \in LiveStates THEN "CANCELLED"
                                   ELSE chal[b]]
    /\ outer' = [outer EXCEPT ![a] = IF gateway THEN "held" ELSE "none"]
    /\ pc' = [pc EXCEPT ![f] = "created"] /\ value' = [value EXCEPT ![f] = a]
    /\ UNCHANGED <<fixed, mounted, starting, ticket, busy, mine, desktop, net, fault>>

(* The form that awaits the answer, or the error, is no longer busy. *)
Settles(a) ==
    /\ a \in toBackend /\ toBackend' = toBackend \ {a}
    /\ busy' = busy \ (mounted \intersect {owner[a]})
    /\ UNCHANGED <<mounted, starting, ticket, pc, value, mine>>

ServerCancels(a) ==
    /\ Settles(a)
    /\ chal' = IF Rowed(a) /\ chal[a] \in LiveStates THEN [chal EXCEPT ![a] = "CANCELLED"] ELSE chal
    /\ UNCHANGED <<fixed, owner, outer, desktop, toDesktop, fault>>

(* The inner and the outer deadline are as far apart as one answer. *)
Deadline(a) ==
    /\ chal[a] \in LiveStates
    /\ chal' = [chal EXCEPT ![a] = "TIMED_OUT"]
    /\ Drop(a)
    /\ UNCHANGED <<fixed, owner, form, desktop, net, fault>>

(* complete: the row ends with the challenge, unless the login is refused;  *)
(* the desktop learns the verdict, or nothing.                              *)
Complete(a) ==
    /\ job[a] = "login" /\ chal[a] = "OPENED" /\ Exchanged(a)
    /\ \/ chal' = [chal EXCEPT ![a] = "AUTHENTICATED"] /\ Drop(a)
       \/ chal' = [chal EXCEPT ![a] = "FAILED"] /\ UNCHANGED outer
    /\ \/ /\ job' = [job EXCEPT ![a] = IF chal'[a] = "AUTHENTICATED" THEN "done" ELSE "failing"]
          /\ UNCHANGED fault
       \/ job' = [job EXCEPT ![a] = "failing"] /\ Fault({a})
    /\ UNCHANGED <<fixed, owner, form, gate, net>>

Created == {a \in Attempts : owner[a] # None}

BackendRestarts ==
    /\ \E a \in Created : chal[a] # "gone"
    /\ chal' = [a \in Attempts |-> IF a \in Created THEN "gone" ELSE chal[a]]
    /\ Fault(Created)
    /\ UNCHANGED <<fixed, owner, outer, form, desktop, net>>

GatewayRestarts ==
    /\ \E a \in Attempts : outer[a] # "none"
    /\ outer' = [a \in Attempts |-> "none"]
    /\ Fault({a \in Attempts : outer[a] # "none"})
    /\ UNCHANGED <<fixed, owner, chal, form, desktop, net>>

-----------------------------------------------------------------------------
(* The desktop broker *)

MayEnterUnlocked == \A a \in Attempts : job[a] \notin Running  \* seeded: a claim on its way is not seen
MayEnter == gate = None /\ \A a \in Attempts : job[a] \notin Running

StartLogin(a) ==
    /\ Login(a) \in toDesktop /\ toDesktop' = toDesktop \ {Login(a)}
    /\ IF MayEnter THEN gate' = a /\ job' = [job EXCEPT ![a] = "claiming"] ELSE UNCHANGED desktop
    /\ UNCHANGED <<fixed, server, form, toBackend, fault>>

ClaimTaken(a) ==
    /\ job[a] = "claiming" /\ chal[a] = "WAITING" /\ Rowed(a)
    /\ chal' = [chal EXCEPT ![a] = "OPENED"]
    /\ job' = [job EXCEPT ![a] = "claimed"]
    /\ UNCHANGED <<fixed, owner, outer, form, gate, net, fault>>

(* jobs.clear() forgets the jobs that ended. *)
ClaimAnswered(a) ==
    /\ job[a] = "claimed" /\ Rowed(a)
    /\ outer' = [outer EXCEPT ![a] = IF gateway THEN "exchanged" ELSE "none"]
    /\ job' = [b \in Attempts |-> IF b = a THEN "login"
                                  ELSE IF job[b] = "done" THEN "none" ELSE job[b]]
    /\ gate' = None
    /\ UNCHANGED <<fixed, owner, chal, form, net, fault>>

ClaimFails(a) ==
    /\ job[a] \in {"claiming", "claimed"}
    /\ job' = [job EXCEPT ![a] = "none"] /\ gate' = None
    /\ UNCHANGED <<fixed, server, form, net, fault>>

(* The user closes the login window, or time is up, or complete is refused. *)
LoginEnds(a) ==
    /\ job[a] = "login" /\ job' = [job EXCEPT ![a] = "failing"]
    /\ UNCHANGED <<fixed, server, form, gate, net, fault>>

(* The failure is reported once, and the answer is not looked at. *)
ReportFailed(a) ==
    /\ job[a] = "failing" /\ job' = [job EXCEPT ![a] = "done"]
    /\ \/ /\ chal[a] = "OPENED" /\ Exchanged(a)
          /\ chal' = [chal EXCEPT ![a] = "FAILED"] /\ Drop(a)
          /\ UNCHANGED fault
       \/ /\ chal[a] # "OPENED" \/ ~Exchanged(a)
          /\ UNCHANGED <<chal, outer, fault>>
       \/ Fault({a}) /\ UNCHANGED <<chal, outer>>
    /\ UNCHANGED <<fixed, owner, form, gate, net>>

(* The login is cancelled, or else the report of its failure is.            *)
DesktopCancels(a) ==
    /\ CancelOf(a) \in toDesktop /\ toDesktop' = toDesktop \ {CancelOf(a)}
    /\ job' = [job EXCEPT ![a] = CASE @ = "login" -> "failing" [] @ = "failing" -> "done" [] OTHER -> @]
    /\ UNCHANGED <<fixed, server, form, gate, toBackend, fault>>

DesktopRestarts ==
    /\ gate # None \/ \E a \in Attempts : job[a] # "none"
    /\ gate' = None /\ job' = [a \in Attempts |-> "none"]
    /\ Fault({a \in Attempts : job[a] \in Running})
    /\ UNCHANGED <<fixed, server, form, net>>

Lose(a) ==
    /\ Fault({a})
    /\ \/ Settles(a) /\ UNCHANGED toDesktop
       \/ /\ \E m \in toDesktop : m.a = a /\ toDesktop' = toDesktop \ {m}
          /\ UNCHANGED <<form, toBackend>>
    /\ UNCHANGED <<fixed, server, desktop>>

-----------------------------------------------------------------------------
PageStep(f) ==
    \/ Start(f) \/ Cancel(f) \/ Unmount(f) \/ GotTicket(f) \/ Opened(f)
    \/ StartFails(f) \/ End(f) \/ Poll(f)
    \/ \E a \in Attempts : ServerCreates(f, a)

AttemptStep(a) ==
    \/ ServerCancels(a) \/ Deadline(a)
    \/ Complete(a)
    \/ StartLogin(a) \/ ClaimTaken(a) \/ ClaimAnswered(a) \/ ClaimFails(a)
    \/ LoginEnds(a) \/ ReportFailed(a) \/ DesktopCancels(a) \/ Lose(a)

Next ==
    \/ \E f \in Forms : PageStep(f)
    \/ \E a \in Attempts : AttemptStep(a)
    \/ BackendRestarts \/ GatewayRestarts \/ DesktopRestarts

Spec == Init /\ [][Next]_vars

-----------------------------------------------------------------------------
(* One login window at a time: the desktop never works on two attempts,     *)
(* whatever claims, cancels and restarts overlap ("One visible login at a   *)
(* time prevents profile-lock races and popup flooding").                   *)
OneLogin == \A a, b \in Attempts : job[a] \in Running /\ job[b] \in Running => a = b

(* An attempt nobody looks after is being cancelled: a challenge that can   *)
(* still be claimed or completed is the ticket of a mounted form, or on its *)
(* way to or from it, unless a request or a process was lost.               *)
Attended(a) ==
    \/ a \in toBackend \union lost
    \/ \E f \in Forms : \/ pc[f] = "created" /\ value[f] = a
                        \/ f \in mounted /\ ticket[f] = a
NoStrayAttempt == \A a \in Attempts : chal[a] \in LiveStates => Attended(a)

(* A form that waits learns that its sign-in succeeded: the page polls for  *)
(* the final states and says "Browser session updated.".                    *)
SuccessIsShown ==
    \A f \in mounted \intersect busy :
        ticket[f] # None /\ ticket[f] \notin lost /\ chal[ticket[f]] = "AUTHENTICATED" =>
            Answered(ticket[f])
=============================================================================
