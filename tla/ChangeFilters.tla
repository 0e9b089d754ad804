----------------------------- MODULE ChangeFilters ----------------------------
(* The rules by which repeated noise is kept from the AI's review:          *)
(* services/change_filters.py, services/change_review.py and                *)
(* api/change_filters.py, with what ai/queue.py and ai/service.py do for    *)
(* them.  A rule belongs to one course, source, kind of change and field,   *)
(* its family; its pattern is the set of values it matches.  Only reviews   *)
(* create rules; the user switches them off and on.  Versions, counts, the  *)
(* audit and texts are left out.                                            *)
EXTENDS Naturals, FiniteSets

CONSTANTS Candidates, \* changes
          Families,   \* of one course and source
          Texts,
          Needed,     \* rejections that a rule takes
          MaxRules,
          None

VARIABLES rule,     \* ChangeFilterRule of each family
          review,   \* ChangeAnalysis: PENDING, REVIEWING, REJECTED, NOTIFY, SUPPRESSED
          context,  \* normalized_candidate: the family, whether other fields changed, the text
          cause,    \* history: the pattern that suppressed a candidate
          asked     \* the user's request, and the row as it read it

vars == <<rule, review, context, cause, asked>>

NoRule == [pattern |-> {}, enabled |-> FALSE, removed |-> FALSE]
NoContext == [family |-> None, several |-> FALSE, text |-> None]
Contexts == [family : Families, several : BOOLEAN, text : Texts]
Patterns == (SUBSET Texts) \ {{}}

Init ==
    /\ rule = [g \in Families |-> NoRule]
    /\ review = [e \in Candidates |-> "NONE"]
    /\ context = [e \in Candidates |-> NoContext]
    /\ cause = [e \in Candidates |-> {}]
    /\ asked = None

(* A rule about a title does not hide a deadline that changed with it. *)
Matches(g, pattern, c) == c.family = g /\ ~c.several /\ c.text \in pattern

MatchingRule(c) ==
    {g \in Families : rule[g].enabled /\ ~rule[g].removed /\ Matches(g, rule[g].pattern, c)}

-----------------------------------------------------------------------------
(* Candidates: filtered when they are enqueued, and again when their turn comes. *)

Filter(e, c, otherwise) ==
    \/ \E g \in MatchingRule(c) :
        /\ review' = [review EXCEPT ![e] = "SUPPRESSED"]
        /\ cause' = [cause EXCEPT ![e] = rule[g].pattern]
    \/ MatchingRule(c) = {} /\ review' = [review EXCEPT ![e] = otherwise] /\ UNCHANGED cause

Enqueue(e, c) ==
    /\ review[e] = "NONE"
    /\ Filter(e, c, "PENDING")
    /\ context' = [context EXCEPT ![e] = c]
    /\ UNCHANGED <<rule, asked>>

StartReview(e) ==
    /\ review[e] = "PENDING" /\ \A f \in Candidates : review[f] # "REVIEWING"
    /\ Filter(e, context[e], "REVIEWING")
    /\ UNCHANGED <<rule, context, asked>>

\* The answer comes after seconds, or not at all.
Interrupted(e) ==
    /\ review[e] = "REVIEWING" /\ review' = [review EXCEPT ![e] = "PENDING"]
    /\ UNCHANGED <<rule, context, cause, asked>>

Answered(e, verdict) ==
    review[e] = "REVIEWING" /\ review' = [review EXCEPT ![e] = verdict]

\* Also if the feedback on a rule is refused.
Decide(e, verdict) ==
    /\ Answered(e, verdict)
    /\ UNCHANGED <<rule, context, cause, asked>>

-----------------------------------------------------------------------------
(* mutate_from_review.  The verdict was flushed, which takes the database's *)
(* write lock: the rule is read and written in one step with it.            *)

Usable(g) == rule[g].enabled /\ ~rule[g].removed

HasRoom == Cardinality({g \in Families : rule[g] # NoRule}) < MaxRules

MayLearnAnyway(g) == rule[g] # NoRule \/ HasRoom  \* seeded: a rule that is off learns as well
MayLearn(g) == IF rule[g] = NoRule THEN HasRoom ELSE Usable(g)

Evidence(g, pattern) ==
    {f \in Candidates : review'[f] = "REJECTED" /\ Matches(g, pattern, context[f])}

Learn(e, g, pattern) ==
    /\ Answered(e, "REJECTED")
    /\ Matches(g, pattern, context[e])
    /\ MayLearn(g)
    /\ Cardinality(Evidence(g, pattern)) >= Needed
    /\ rule' = [rule EXCEPT ![g] = [pattern |-> pattern, enabled |-> TRUE, removed |-> FALSE]]
    /\ UNCHANGED <<context, cause, asked>>

\* Any rule of the same course and source.
Unlearn(e, g) ==
    /\ Answered(e, "REJECTED")
    /\ Usable(g)
    /\ rule' = [rule EXCEPT ![g].enabled = FALSE]
    /\ UNCHANGED <<context, cause, asked>>

-----------------------------------------------------------------------------
(* set_rule_enabled, by the user: the row is read, then the columns that    *)
(* the request changes are written.                                         *)

Ask(g, want) ==
    /\ asked = None /\ rule[g] # NoRule
    /\ asked' = [family |-> g, want |-> want, saw |-> rule[g]]
    /\ UNCHANGED <<rule, review, context, cause>>

Toggle ==
    /\ asked # None
    /\ LET on == asked.want = "enable"
           gone == asked.want = "remove"
       IN rule' = [rule EXCEPT
            ![asked.family].enabled = IF on = asked.saw.enabled THEN @ ELSE on,
            ![asked.family].removed = IF gone = asked.saw.removed THEN @ ELSE gone]
    /\ asked' = None
    /\ UNCHANGED <<review, context, cause>>

Next ==
    \/ \E e \in Candidates :
        \/ \E c \in Contexts : Enqueue(e, c)
        \/ StartReview(e) \/ Interrupted(e)
        \/ \E verdict \in {"REJECTED", "NOTIFY"} : Decide(e, verdict)
        \/ \E g \in Families, pattern \in Patterns : Learn(e, g, pattern)
        \/ \E g \in Families : Unlearn(e, g)
    \/ \E g \in Families, want \in {"enable", "disable", "remove"} : Ask(g, want)
    \/ Toggle

Spec == Init /\ [][Next]_vars

-----------------------------------------------------------------------------
(* What was kept from the review changed nothing but a text that the AI had *)
(* rejected often enough, in changes that it did see; whatever rules were   *)
(* widened, disabled and enabled in between.                                *)
Earned ==
    \A e \in Candidates : review[e] = "SUPPRESSED" =>
        /\ ~context[e].several
        /\ Cardinality({f \in Candidates : review[f] = "REJECTED" /\ context[f].family = context[e].family
                          /\ ~context[f].several /\ context[f].text \in cause[e]}) >= Needed

(* A rule that is off is not changed by a review, and only a user who asked *)
(* for it turns it on.                                                      *)
StaysOff ==
    \A g \in Families : rule[g] # NoRule /\ ~Usable(g) /\ rule'[g] # rule[g] =>
        asked # None /\ asked' = None /\ (Usable(g)' => asked.want = "enable")

(* Suppression is backed by rejections, and the user has the last word.     *)
SuppressionIsEarned == []Earned /\ [][StaysOff]_vars
=============================================================================
