---------------------------- MODULE StudyCalendar ----------------------------
(* One day of the study calendar: its events, manual and imported, the      *)
(* hours in which the user studies, and what follows from them: the free    *)
(* minutes (services/calendar_capacity.py) and the layers that are drawn    *)
(* (services/calendar_view.py). Time is counted in slots of a quarter of an *)
(* hour. Files are imported by services/ics_calendar.py, on the event loop; *)
(* a source is removed on a thread. Summaries, places, all-day events and   *)
(* the parsing of files and recurrence rules are abstracted.                *)
EXTENDS Integers, Sequences, FiniteSetsExt, SequencesExt

CONSTANTS Slots,      \* the day's slots, 0 .. Slots - 1
          Entries,    \* what an event may be
          Hours,      \* what a weekday's rules, or an override, may be
          Commutes,   \* what the way to a class may take
          CalendarFiles, \* ICS files
          Expansion,  \* of each, at each time: its events, by their identity
          Period,     \* of recurring events
          MaxEvents,
          None

VARIABLES events,   \* calendar_events
          rules,    \* study_availability_rules of the day's weekday, and of another
          override, \* study_availability_overrides of the day, or None
          commute,  \* Course.commute_minutes
          classFirst, \* of two events at the same time, the class has the older row
          sources,  \* ics_calendar_import_sources: the file of each
          removing, \* a removal under way: its source and the events it found
          now,      \* which part of a file's events an import covers
          imported, \* history: what each source's last import brought
          raced     \* history: sources imported while they were being removed

calendar == <<events, rules, override, commute, classFirst>>
imports == <<sources, removing, now, imported, raced>>
vars == <<calendar, imports>>

Gap == 2       \* class_gap_minutes
Manual == 0    \* the source of manual events
SourceIds == 1..2
Event(source, uid, entry) == [source |-> source, uid |-> uid, entry |-> entry]

Init ==
    /\ events = {} /\ rules = [d \in {"day", "other"} |-> <<>>] /\ override = None
    /\ commute \in Commutes /\ classFirst \in BOOLEAN
    /\ sources = [s \in SourceIds |-> None] /\ removing = None /\ now = 1
    /\ imported = [s \in SourceIds |-> {}] /\ raced = {}

-----------------------------------------------------------------------------
(* Free time. An event may recur, by a rule that is understood or not.      *)

Interval(from, to, class) == [start |-> from, end |-> to, class |-> class]
Overlaps(i, lo, hi) == i.start < hi /\ i.end > lo

\* list_events: those that recur, and those in the window.
Listed(lo, hi) == {e.entry : e \in {v \in events : v.entry.repeats # "no" \/ Overlaps(v.entry, lo, hi)}}

Expand(e, lo, hi) ==
    IF e.repeats = "unsupported" THEN {Interval(lo, hi, FALSE)}  \* conservative
    ELSE {i \in {Interval(e.start + n * Period, e.end + n * Period, e.class) :
                    n \in IF e.repeats = "no" THEN {0} ELSE 0..Slots} : Overlaps(i, lo, hi)}

WithCommute(i) == IF i.class THEN Interval(i.start - commute, i.end + commute, TRUE) ELSE i

(* merge_busy: classes with a short gap between them are one block.         *)
Join(merged, i) ==
    IF merged = <<>> THEN <<i>>
    ELSE LET last == merged[Len(merged)] IN
         IF i.start <= last.end \/ (last.class /\ i.class /\ i.start - last.end < Gap)
         THEN [merged EXCEPT ![Len(merged)] =
                 Interval(last.start, Max({last.end, i.end}), last.class /\ i.class)]
         ELSE Append(merged, i)

Before(i, j) ==
    \/ i.start < j.start
    \/ i.start = j.start /\ i.end < j.end
    \/ i.start = j.start /\ i.end = j.end /\ i.class # j.class /\ i.class = classFirst
\* Each at the place that those before it leave.
InOrder(S) == [n \in 1..Cardinality(S) |-> CHOOSE i \in S : Cardinality({j \in S : Before(j, i)}) = n - 1]
MergeBusy(intervals) == FoldLeft(Join, <<>>, InOrder(intervals))

Cut(remaining, block) ==
    UNION {LET left == Interval(i.start, Min({block.start, i.end}), FALSE)
               right == Interval(Max({block.end, i.start}), i.end, FALSE)
           IN {p \in {left, right} : p.start < p.end} : i \in remaining}
Subtract(slot, busy) == FoldLeft(Cut, {slot}, MergeBusy(busy))

\* _day: its hours by their number, as they may overlap; None if none were ever configured.
Numbered(hours) == {<<k, hours[k]>> : k \in DOMAIN hours}
HoursOfDay == IF override # None THEN Numbered(override)
              ELSE IF rules["day"] = <<>> /\ rules["other"] = <<>> THEN None
              ELSE {h \in Numbered(rules["day"]) : h[2].enabled}

(* CapacityReader: loaded for a range, asked about windows in it.           *)
BusyAll(loaded, lo, hi) ==  \* seeded: events beside the window count, with their commute
    {WithCommute(i) : i \in UNION {Expand(e, 0, Slots) : e \in {v \in loaded : v.opaque}}}
Busy(loaded, lo, hi) ==
    LET near == {e \in loaded : e.repeats # "no" \/ Overlaps(e, lo, hi)}
    IN {WithCommute(i) : i \in UNION {Expand(e, lo, hi) : e \in {v \in near : v.opaque}}}

Clipped(hour, lo, hi) == Interval(Max({hour.start, lo}), Min({hour.end, hi}), FALSE)
Size(i) == i.end - i.start
Free(hour, busy, lo, hi) ==
    LET clipped == Clipped(hour, lo, hi)
    IN IF Size(clipped) <= 0 THEN 0 ELSE MapThenSumSet(Size, Subtract(clipped, busy))

FreeBeside(busy, lo, hi) == MapThenSumSet(LAMBDA h : Free(h[2], busy, lo, hi), HoursOfDay)
Between(loaded, lo, hi) ==
    IF HoursOfDay = None THEN None ELSE FreeBeside(Busy(loaded, lo, hi), lo, hi)

(* calendar_view: the gaps between classes that are drawn as short.          *)
Classes == {WithCommute(i) : i \in UNION {Expand(e, 0, Slots) :
               e \in {v \in Listed(0, Slots) : v.opaque /\ v.class /\ v.repeats # "unsupported"}}}
GapsShown == UNION {Subtract(b, {[c EXCEPT !.class = FALSE] : c \in Classes}) : b \in Range(MergeBusy(Classes))}

-----------------------------------------------------------------------------
(* What the user, or a plan of the assistant that the user confirmed, does. *)

CreateEvent(e) ==
    /\ Cardinality(events) < MaxEvents
    /\ events' = events \union {Event(Manual, None, e)}
    /\ UNCHANGED <<rules, override, commute, classFirst, imports>>

\* Imported events are read-only.
UpdateEvent(old, e) ==
    /\ old.source = Manual
    /\ events' = (events \ {old}) \union {Event(Manual, None, e)}
    /\ UNCHANGED <<rules, override, commute, classFirst, imports>>

DeleteEvent(old) ==
    /\ old.source = Manual
    /\ events' = events \ {old}
    /\ UNCHANGED <<rules, override, commute, classFirst, imports>>

ReplaceRules(day, other) ==
    /\ rules' = [d \in {"day", "other"} |-> IF d = "day" THEN day ELSE other]
    /\ UNCHANGED <<events, override, commute, classFirst, imports>>

SetWeekday(d, hours) ==
    /\ \A h \in Range(hours) : h.enabled
    /\ rules' = [rules EXCEPT ![d] = hours]
    /\ UNCHANGED <<events, override, commute, classFirst, imports>>

SetOverride(hours) ==
    /\ override' = hours
    /\ UNCHANGED <<events, rules, commute, classFirst, imports>>

SetCommute(minutes) ==
    /\ commute' = minutes
    /\ UNCHANGED <<events, rules, override, classFirst, imports>>

-----------------------------------------------------------------------------
(* Imports *)

Rows(s) == {e \in events : e.source = s}
Uids(rows) == {e.uid : e \in rows}
Parsed(f, s) == {Event(s, p.uid, p.entry) : p \in Expansion[f][now]}

\* SQLite gives the number of the last source that was removed out again.
NewSource == Max({0} \union {s \in SourceIds : sources[s] # None}) + 1

Store(s, f) ==
    LET rows == Parsed(f, s) IN
    /\ events' = (events \ Rows(s)) \union rows
    /\ sources' = [sources EXCEPT ![s] = f]
    /\ imported' = [imported EXCEPT ![s] = rows]
    /\ raced' = IF removing # None /\ removing.source = s THEN raced \union {s} ELSE raced \ {s}
    /\ UNCHANGED <<rules, override, commute, classFirst, removing, now>>

Import(f) ==
    /\ Expansion[f][now] # {} /\ NewSource \in SourceIds
    /\ Store(NewSource, f)

\* The same file again is answered without being read; what would be removed is confirmed.
Reimport(s, f, confirmed) ==
    /\ sources[s] \notin {None, f} /\ Expansion[f][now] # {}
    /\ Uids(Rows(s)) \subseteq Uids(Parsed(f, s)) \/ confirmed
    /\ Store(s, f)

BeginRemoval(s) ==
    /\ removing = None /\ sources[s] # None
    /\ removing' = [source |-> s, found |-> Uids(Rows(s))]
    /\ UNCHANGED <<calendar, sources, now, imported, raced>>

EndRemoval ==
    /\ removing # None
    /\ events' = {e \in events : ~(e.source = removing.source /\ e.uid \in removing.found)}
    /\ sources' = [sources EXCEPT ![removing.source] = None]
    /\ removing' = None
    /\ UNCHANGED <<rules, override, commute, classFirst, now, imported, raced>>

Later == now < 2 /\ now' = 2 /\ UNCHANGED <<calendar, sources, removing, imported, raced>>

Next ==
    \/ \E e \in Entries : CreateEvent(e) \/ \E old \in events : UpdateEvent(old, e)
    \/ \E old \in events : DeleteEvent(old)
    \/ \E h, o \in Hours : ReplaceRules(h, o)
    \/ \E h \in Hours, d \in {"day", "other"} : SetWeekday(d, h)
    \/ \E h \in Hours \union {None} : SetOverride(h)
    \/ \E m \in Commutes : SetCommute(m)
    \/ \E f \in CalendarFiles : Import(f) \/ \E s \in SourceIds, yes \in BOOLEAN : Reimport(s, f, yes)
    \/ \E s \in SourceIds : BeginRemoval(s)
    \/ EndRemoval \/ Later

Spec == Init /\ [][Next]_vars

-----------------------------------------------------------------------------
(* The reference: which slots are taken, and which are short gaps between   *)
(* classes: no other event touches the run of taken slots before the gap,   *)
(* and the run after it begins with a class.                                *)

Slot(i) == i.start..(i.end - 1)
Taken(busy) == UNION {Slot(i) : i \in busy}
Mixed(busy, from, to) == \E i \in busy : ~i.class /\ i.start <= to /\ i.end >= from

RunBefore(busy, c) ==
    CHOOSE r \in {i.start : i \in busy} :
        r < c /\ (\A d \in r..(c - 1) : d \in Taken(busy)) /\ r - 1 \notin Taken(busy)
BeginsWithClass(busy, c) ==
    \E i \in busy : i.start = c /\ i.class /\ \A j \in busy : j.start = c => ~Before(j, i)
Bridged(busy) ==
    UNION {gap[1]..(gap[1] + gap[2] - 1) : gap \in
        {g \in {i.end : i \in busy} \X (1..Gap - 1) :
            LET first == g[1]  next == g[1] + g[2] IN
            /\ first - 1 \in Taken(busy) /\ next \in Taken(busy)
            /\ first..(next - 1) \cap Taken(busy) = {}
            /\ ~Mixed(busy, RunBefore(busy, first), first)
            /\ BeginsWithClass(busy, next)}}

FreeSlots(hour, lo, hi) ==
    LET busy == Busy(Listed(lo, hi), lo, hi)
    IN (Slot(hour) \cap lo..(hi - 1)) \ (Taken(busy) \union Bridged(busy))

Windows == {w \in (0..Slots) \X (0..Slots) : w[1] < w[2]}

\* Each hour counts what is free of it: neither taken, nor a short gap between classes.
CapacityIsFree ==
    HoursOfDay # None =>
        \A w \in Windows :
            Between(Listed(w[1], w[2]), w[1], w[2]) =
                MapThenSumSet(LAMBDA h : Cardinality(FreeSlots(h[2], w[1], w[2])), HoursOfDay)

\* What was loaded for the day answers for a part of it as if loaded for that alone.
WindowsAgree ==
    HoursOfDay # None =>
        \A w \in Windows : Between(Listed(0, Slots), w[1], w[2]) = Between(Listed(w[1], w[2]), w[1], w[2])

\* What is drawn as a short gap is not counted as free, unless another event is at a class.
GapsAgree ==
    \A g \in GapsShown, c \in 0..(Slots - 1) :
        LET busy == Busy(Listed(0, Slots), 0, Slots)
        IN c \in Slot(g) => c \in Taken(busy) \union Bridged(busy) \/ \E i \in busy : ~i.class

\* A source has the events of its last import, and an event its source, ...
ImportsAreWhole ==
    /\ \A s \in SourceIds : sources[s] # None /\ s \notin raced => Rows(s) = imported[s]
    /\ \A e \in events : e.source # Manual /\ sources[e.source] = None => e.source \in raced

(* Whatever events, hours and commutes the user enters and whatever files   *)
(* are imported, imported anew and removed: the minutes that Today offers   *)
(* for study are those that are free, whichever window they are asked for,  *)
(* and an imported calendar is whole or gone. It may be neither after its   *)
(* removal overlapped an import, and a short gap may be drawn that counts   *)
(* as free where another event lies at a class.                             *)
FreeTimeIsReal == CapacityIsFree /\ WindowsAgree /\ GapsAgree /\ ImportsAreWhole
=============================================================================
