-------------------------- MODULE MCCanvasRouting --------------------------
(* Reads of Canvas that change methods; the study calendar, with up to      *)
(* three manual events or with imported ones; or the tasks to which what is *)
(* read is linked.  Secrets and readers are interchangeable; the readers'   *)
(* names also stand for the user's requests.                                *)
EXTENDS CanvasRouting, Integers, Sequences, TLC

CONSTANTS Slots, Entries, Hours, Commutes, CalendarFiles, Expansion, Period, MaxEvents
CONSTANTS Canvas, Gradescope, Titles, Homework, Clicks

(* Canvas and Gradescope number their assignments apart, and nothing is named *)
(* like a missing value or like the answer that work is separate.             *)
ASSUME LinkingAssumption ==
    /\ IsFiniteSet(Gradescope) /\ Canvas \intersect Gradescope = {}
    /\ Homework \subseteq Titles /\ Titles \intersect (Canvas \union Gradescope) = {}
    /\ None \notin Canvas \union Gradescope \union Titles \union {"separate"}
    /\ "separate" \notin Canvas \union Gradescope

(* Events, also those that files bring, end after they start; the way to a    *)
(* class takes no negative time.                                              *)
Timed(e) == e.start \in Int /\ e.end \in Int /\ e.start < e.end /\ e.class \in BOOLEAN
HourRows == [start : Int, end : Int, enabled : BOOLEAN]
ASSUME CalendarAssumption ==
    /\ Slots \in Nat /\ Period \in Int /\ None \notin CalendarFiles
    /\ Commutes \subseteq Nat /\ Hours \subseteq Seq(HourRows)
    /\ \A e \in Entries : Timed(e)
    /\ \A f \in CalendarFiles, n \in 1..2 :
          IsFiniteSet(Expansion[f][n]) /\ \A p \in Expansion[f][n] : Timed(p.entry)

VARIABLES focus, events, rules, override, commute, classFirst,
          sources, removing, now, imported, raced,
    mapped, task, title, key, tool, gone, binding, form, run, named, confirmed

Calendar == INSTANCE StudyCalendar
Linking == INSTANCE ProviderTasks

calendarVars == <<events, rules, override, commute, classFirst,
                  sources, removing, now, imported, raced>>
taskVars == <<mapped, task, title, key, tool, gone, binding, form, run, named, confirmed>>

Symmetry == Permutations(Secrets) \union Permutations(Readers)

Entry(from, to, class, opaque, repeats) ==
    [start |-> from, end |-> to, class |-> class, opaque |-> opaque, repeats |-> repeats]
MCEntries ==
    {Entry(a, a + n, TRUE, TRUE, "no") : a \in {0, 1, 3}, n \in {1, 2}}
        \union {Entry(a, a + 1, FALSE, TRUE, "no") : a \in {1, 3}}
        \union {Entry(4, 5, TRUE, TRUE, "no"), Entry(2, 3, FALSE, FALSE, "no"),
                Entry(0, 1, TRUE, TRUE, "rule"), Entry(0, 1, TRUE, TRUE, "unsupported")}

Hour(from, to, enabled) == [start |-> from, end |-> to, enabled |-> enabled]
MCHours == {<<>>, <<Hour(0, 6, TRUE)>>, <<Hour(1, 4, TRUE), Hour(3, 5, TRUE)>>, <<Hour(0, 2, FALSE)>>}

Imported(uid, from, to) == [uid |-> uid, entry |-> Entry(from, to, FALSE, TRUE, "no")]
MCExpansion ==
    [f1 |-> <<{Imported("a", 0, 1)}, {Imported("a", 0, 1), Imported("b", 2, 3)}>>,
     f2 |-> <<{Imported("b", 2, 3)}, {Imported("b", 3, 4)}>>]

\* Two reads of courses; or one is the profile's, and one secret is another user's.
MCInit ==
    /\ focus \in {"routing", "hours", "imports", "tasks"}
    /\ Init /\ Calendar!Init /\ Linking!Init
    /\ Cardinality({r \in Readers : profile[r]}) < 2
    /\ Cardinality({s \in Secrets : quality[s] = "foreign"}) < 2
    /\ focus = "routing" =>
          ((\E s \in Secrets : quality[s] = "foreign") <=> \E r \in Readers : profile[r])
    /\ focus # "hours" => commute = 0 /\ classFirst
    /\ focus # "routing" => /\ slot = [m \in Modes |-> None] /\ preferred = CHOOSE m \in Modes : TRUE
                            /\ quality = [s \in Secrets |-> "bad"]
                            /\ profile = [r \in Readers |-> FALSE]

\* Other weekdays and overrides with at most one event, three events on a whole day.
ManualEvents ==
    /\ sources' = sources /\ now' = now
    /\ Cardinality(events') > 1 => override' = None /\ rules'["other"] = <<>>
    /\ Cardinality(events') > 2 => rules'["day"] = <<Hour(0, Slots, TRUE)>>
    /\ ~(override' # None /\ rules'["other"] # <<>>)

\* What names another assignment keeps to it; a task is renamed when an assignment is
\* linked to it, and not later.
Settled ==
    /\ \A c \in Canvas : tool[c] # None => tool'[c] = tool[c]
    /\ title' # title => task' # task

MCNext ==
    /\ UNCHANGED focus
    /\ \/ focus = "routing" /\ Next /\ UNCHANGED <<calendarVars, taskVars>>
       \/ focus = "hours" /\ Calendar!Next /\ ManualEvents /\ UNCHANGED <<vars, taskVars>>
       \/ /\ focus = "imports" /\ Calendar!Next
          /\ <<rules, override, commute>>' = <<rules, override, commute>> /\ UNCHANGED <<vars, taskVars>>
          /\ \A e \in events' : e.source # Calendar!Manual
       \/ focus = "tasks" /\ Linking!Next /\ Settled /\ UNCHANGED <<vars, calendarVars>>

MCSpec == MCInit /\ [][MCNext]_<<focus, vars, calendarVars, taskVars>>

FreeTimeIsReal == Calendar!FreeTimeIsReal
TitlesDecideNothing == Linking!TitlesDecideNothing
=============================================================================
