------------------------------ MODULE MCSignIns ------------------------------
(* Sign-in attempts, two of them for one profile or every profile, and one   *)
(* among two profiles; and the credential of a web site.                     *)
EXTENDS BrokerChallenges, TLC

CONSTANT Main  \* the profile that two attempts are made for
CONSTANTS Bases, Origin, Requests

VARIABLES focus, conn, source, profile, slot, sessions, within, req, mixed, overlapped, restarted

Websites == INSTANCE WebsiteAccess

websiteVars == <<conn, source, profile, slot, sessions, within, req, mixed, overlapped, restarted>>

ASSUME WebsitesAssumption == None \notin Bases \union Requests /\ Bases \cap Requests = {}

MCOrigin == [b \in Bases |-> b]
Symmetry == Permutations(Challenges) \union Permutations(Requests)

MCInit ==
    /\ focus \in {"attempts", "profiles", "websites"}
    /\ Init /\ Websites!Init
    /\ focus # "websites" => conn = Websites!NoConn

\* The other profile is only signed out, by clear_all.
ForMain ==
    /\ \A c \in Challenges : state'[c] = "DRAFT" => target'[c] \in {Main, All}
    /\ \A p \in Profiles \ {Main} : ~Elsewhere(p)

\* Every request that the bound admits was made.
Exhausted ==
    /\ focus = "websites" /\ \A q \in Requests : req[q].pc = "done"
    /\ UNCHANGED <<vars, websiteVars>>

MCNext ==
    /\ UNCHANGED focus
    /\ \/ focus = "attempts" /\ Next /\ ForMain /\ UNCHANGED websiteVars
       \/ /\ focus = "profiles" /\ Next /\ UNCHANGED websiteVars
          /\ Cardinality({c \in Challenges : state'[c] # "UNUSED"}) <= 1
       \/ focus = "websites" /\ Websites!Next /\ UNCHANGED vars
       \/ Exhausted

MCSpec == MCInit /\ [][MCNext]_<<focus, vars, websiteVars>>

AccessFits == Websites!AccessFits
=============================================================================
