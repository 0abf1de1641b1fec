------------------------------ MODULE Schedules ------------------------------
(* The schedule page: items that each tab holds in memory and copies to        *)
(* localStorage, the calendar views that show them, the advisory conflicts and *)
(* the editor, whose form is filled from an item and written back to it.       *)
(* Times are counted in slots of half an hour, SlotsPerDay to a day; a day is  *)
(* a number, day 0 the Monday of the first week.                               *)
EXTENDS Integers, FiniteSets

CONSTANTS
    Windows,         \* tabs of one browser
    Agents, NoAgent,
    NoEnd, Closed,   \* an item without end; no editor, no item selected
    SlotsPerDay, FirstRow, LastRow,   \* the rows of the week view, in slots
    Offset,          \* of the browser's time zone, in slots
    Days,            \* the days an instance works with
    Today,           \* the page's anchor date
    Entries,         \* what the operator fills in: [agent, date, time, until]
    Defaults,        \* INITIAL_SCHEDULES: [ids -> items]
    MaxWrites        \* bound: ids of items, one for each write of the list

ASSUME CalendarAssumption ==
    /\ SlotsPerDay \in Nat \ {0} /\ Offset \in 0..SlotsPerDay - 1
    /\ Days \subseteq Nat /\ Today \in Days
    /\ MaxWrites \in Nat /\ DOMAIN Defaults \subseteq 1..MaxWrites

(* What the page takes for an item and for what is filled in.                  *)
Items == [agent : Agents \cup {NoAgent}, start : Int, end : Int \cup {NoEnd}]
ASSUME ItemsAssumption ==
    /\ NoEnd \notin Int /\ Closed \notin Int
    /\ \A S \in SUBSET (1..MaxWrites) : Closed \notin [S -> Items]
    /\ Defaults \in [DOMAIN Defaults -> Items]
    /\ \A e \in Entries :
          /\ e.agent \in Agents \cup {NoAgent} /\ e.date \in Nat
          /\ e.time \in 0..SlotsPerDay - 1 /\ e.until \in 0..SlotsPerDay - 1 \cup {NoEnd}

VARIABLES
    saved,       \* localStorage: Closed, or a list
    items,       \* of each tab: [ids -> items]
    mode,        \* "month", "week", "day", "agenda"
    anchor,      \* selectedDate
    selected,    \* the schedule named by the URL, or Closed
    form,        \* the editor's form, or Closed
    clock,       \* Date.now(), ticking with each write: the source of ids
    adrift       \* tabs whose last write failed, or that another tab wrote after

schedulesVars == <<saved, items, mode, anchor, selected, form, clock, adrift>>

-----------------------------------------------------------------------------
(* detectScheduleConflicts: pairs of one agent whose intervals overlap; an     *)
(* item without end is taken to last half an hour.                             *)
Ends(i) == IF i.end = NoEnd THEN i.start + 1 ELSE i.end
(* Mutant: intervals that only touch overlap.                                  *)
MutantOverlap(a, b) == a.start <= Ends(b) /\ Ends(a) >= b.start
Overlap(a, b) == a.start < Ends(b) /\ Ends(a) > b.start
Conflicts(list) ==
    {{x[1], x[2]} : x \in
        {y \in (DOMAIN list) \X (DOMAIN list) :
            /\ y[1] # y[2] /\ list[y[1]].agent = list[y[2]].agent
            /\ list[y[1]].agent # NoAgent
            /\ Overlap(list[y[1]], list[y[2]])}}

(* What a view puts on the screen: the month the first three items of a day    *)
(* (new items are put in front; the days of an instance lie in one month), the *)
(* week the rows from eight to twenty, the day one date, the agenda all.       *)
DateOf(i) == i.start \div SlotsPerDay
TimeOf(i) == i.start % SlotsPerDay
SameDay(list, i) == {j \in DOMAIN list : DateOf(list[j]) = DateOf(list[i])}
Monday(d) == d - (d % 7)
Earlier(j, i) == IF {i, j} \subseteq DOMAIN Defaults THEN j < i ELSE j > i
InMonthCell(list, i) == Cardinality({j \in SameDay(list, i) : Earlier(j, i)}) < 3
InWeek(list, i, d) ==
    /\ DateOf(list[i]) \in Monday(d)..Monday(d) + 6
    /\ TimeOf(list[i]) \in FirstRow..LastRow
InDay(list, i, d) == DateOf(list[i]) = d
InAgenda(list, i) == i \in DOMAIN list
Visible(t, i) ==
    LET list == items[t] IN
    CASE mode[t] = "month" -> InMonthCell(list, i)
      [] mode[t] = "week" -> InWeek(list, i, anchor[t])
      [] mode[t] = "day" -> InDay(list, i, anchor[t])
      [] OTHER -> InAgenda(list, i)

(* The editor reads the date in UTC and the time of day in the browser's zone, *)
(* and writes both back as UTC.  An item without end leaves the end that is in *)
(* the form: ten o'clock when the editor opens, since closing it emptied it.   *)
Local(time) == (time + Offset) % SlotsPerDay
FirstAgent == IF Agents = {} THEN NoAgent ELSE CHOOSE g \in Agents : TRUE
TenOClock == 20 % SlotsPerDay
EmptyForm(g) ==
    [of |-> Closed, item |-> Closed, titled |-> FALSE, agent |-> g, date |-> Today,
     time |-> 18 % SlotsPerDay, until |-> TenOClock]
(* Mutant: the date is read in the browser's zone as well.                     *)
MutantFormOf(id, i, until) ==
    [of |-> id, item |-> i, titled |-> TRUE, agent |-> i.agent,
     date |-> (i.start + Offset) \div SlotsPerDay,
     time |-> Local(i.start), until |-> IF i.end = NoEnd THEN until ELSE Local(i.end)]
FormOf(id, i, until) ==
    [of |-> id, item |-> i, titled |-> TRUE, agent |-> i.agent,
     date |-> DateOf(i), time |-> Local(i.start),
     until |-> IF i.end = NoEnd THEN until ELSE Local(i.end)]
Filled(f) ==
    [agent |-> f.agent, start |-> f.date * SlotsPerDay + f.time,
     end |-> IF f.until = NoEnd THEN NoEnd ELSE f.date * SlotsPerDay + f.until]

-----------------------------------------------------------------------------
(* saveSchedules and set: the tab's whole list replaces the stored one, unless *)
(* localStorage refuses it, which nobody is told of; the tab has it either way.*)
(* Mutant: what is written is the list before the change.                      *)
MutantKeep(t, list) ==
    /\ items' = [items EXCEPT ![t] = list]
    /\ \/ saved' = items[t] /\ adrift' = Windows \ {t}
       \/ UNCHANGED saved /\ adrift' = adrift \cup {t}
Keep(t, list) ==
    /\ items' = [items EXCEPT ![t] = list]
    /\ \/ saved' = list /\ adrift' = Windows \ {t}
       \/ UNCHANGED saved /\ adrift' = adrift \cup {t}
With(list, id, i) == [j \in DOMAIN list \cup {id} |-> IF j = id THEN i ELSE list[j]]

DetailOpen(t) == selected[t] \in DOMAIN items[t] /\ form[t] = Closed
PageFree(t) == ~DetailOpen(t) /\ form[t] = Closed

(* Moving about: the view, the anchor date, a click on a date.                 *)
SetMode(t, m) ==
    /\ PageFree(t) /\ mode[t] # m
    /\ mode' = [mode EXCEPT ![t] = m]
    /\ UNCHANGED <<saved, items, anchor, selected, form, clock, adrift>>
SetDate(t, d) ==
    /\ PageFree(t)
    /\ LET step == IF mode[t] = "week" THEN 7 ELSE 1
       IN  \/ /\ d \in {anchor[t] - step, anchor[t] + step, Today}
              /\ UNCHANGED mode
           \/ /\ \/ mode[t] = "month"
                 \/ mode[t] = "week" /\ d \in Monday(anchor[t])..Monday(anchor[t]) + 6
              /\ mode' = [mode EXCEPT ![t] = "day"]
    /\ anchor' = [anchor EXCEPT ![t] = d]
    /\ UNCHANGED <<saved, items, selected, form, clock, adrift>>

Select(t, id) ==
    /\ PageFree(t)
    /\ id \in DOMAIN items[t] /\ Visible(t, id)
    /\ selected' = [selected EXCEPT ![t] = id]
    /\ UNCHANGED <<saved, items, mode, anchor, form, clock, adrift>>
CloseDetail(t) ==
    /\ DetailOpen(t)
    /\ selected' = [selected EXCEPT ![t] = Closed]
    /\ UNCHANGED <<saved, items, mode, anchor, form, clock, adrift>>

(* Duplicate and Edit Draft close the detail first.                            *)
Duplicate(t) ==
    /\ DetailOpen(t) /\ clock < MaxWrites
    /\ clock' = clock + 1
    /\ Keep(t, With(items[t], clock', items[t][selected[t]]))
    /\ selected' = [selected EXCEPT ![t] = Closed]
    /\ UNCHANGED <<mode, anchor, form>>
EditDraft(t) ==
    /\ DetailOpen(t)
    /\ form' = [form EXCEPT ![t] = FormOf(selected[t], items[t][selected[t]], TenOClock)]
    /\ selected' = [selected EXCEPT ![t] = Closed]
    /\ UNCHANGED <<saved, items, mode, anchor, clock, adrift>>
CreateNew(t) ==
    /\ PageFree(t)
    /\ \E g \in {FirstAgent, NoAgent} : form' = [form EXCEPT ![t] = EmptyForm(g)]
    /\ UNCHANGED <<saved, items, mode, anchor, selected, clock, adrift>>

(* Typing; a new answer of the agent list fills the form anew.                 *)
Fill(t, e) ==
    /\ form[t] # Closed
    /\ form' = [form EXCEPT ![t] =
          [of |-> @.of, item |-> @.item, titled |-> TRUE, agent |-> e.agent,
           date |-> e.date, time |-> e.time, until |-> e.until]]
    /\ UNCHANGED <<saved, items, mode, anchor, selected, clock, adrift>>
AgentsChange(t) ==
    /\ form[t] # Closed
    /\ form' = [form EXCEPT ![t] = IF @.of # Closed THEN FormOf(@.of, @.item, @.until)
                                   ELSE EmptyForm(FirstAgent)]
    /\ UNCHANGED <<saved, items, mode, anchor, selected, clock, adrift>>
CloseEditor(t) ==
    /\ form[t] # Closed
    /\ form' = [form EXCEPT ![t] = Closed]
    /\ UNCHANGED <<saved, items, mode, anchor, selected, clock, adrift>>

(* addSchedule, or updateSchedule of the item the editor was opened for, which *)
(* changes nothing if the list no longer holds it.                             *)
SaveForm(t) ==
    /\ form[t] # Closed /\ form[t].titled
    /\ clock < MaxWrites /\ clock' = clock + 1
    /\ Keep(t, CASE form[t].of = Closed -> With(items[t], clock', Filled(form[t]))
                 [] form[t].of \in DOMAIN items[t] ->
                      With(items[t], form[t].of, Filled(form[t]))
                 [] OTHER -> items[t])
    /\ form' = [form EXCEPT ![t] = Closed]
    /\ UNCHANGED <<mode, anchor, selected>>

(* loadInitialSchedules: the stored list, or the defaults if there is none or  *)
(* it is empty.  The URL keeps the selected schedule.                          *)
Load(list) == IF list = Closed THEN Defaults ELSE IF DOMAIN list = {} THEN Defaults ELSE list
ReloadPage(t) ==
    /\ items' = [items EXCEPT ![t] = Load(saved)]
    /\ mode' = [mode EXCEPT ![t] = "month"]
    /\ anchor' = [anchor EXCEPT ![t] = Today]
    /\ form' = [form EXCEPT ![t] = Closed]
    /\ adrift' = adrift \ {t}
    /\ UNCHANGED <<saved, selected, clock>>

SchedulesInit ==
    /\ saved = Closed /\ items = [t \in Windows |-> Defaults]
    /\ mode = [t \in Windows |-> "month"] /\ anchor = [t \in Windows |-> Today]
    /\ selected = [t \in Windows |-> Closed] /\ form = [t \in Windows |-> Closed]
    /\ clock = Cardinality(DOMAIN Defaults) /\ adrift = {}

SchedulesNext ==
    \E t \in Windows :
        \/ \E m \in {"month", "week", "day", "agenda"} : SetMode(t, m)
        \/ \E d \in Days : SetDate(t, d)
        \/ \E id \in 1..MaxWrites : Select(t, id)
        \/ CloseDetail(t) \/ Duplicate(t) \/ EditDraft(t) \/ CreateNew(t)
        \/ \E e \in Entries : Fill(t, e)
        \/ AgentsChange(t) \/ CloseEditor(t) \/ SaveForm(t) \/ ReloadPage(t)

SchedulesSpec == SchedulesInit /\ [][SchedulesNext]_schedulesVars
-----------------------------------------------------------------------------
(* Two items are reported as a conflict exactly when an agent has a slot that  *)
(* belongs to both: half-open intervals, as the proposal's overlap condition   *)
(* says.  (Items whose end is not after their start, which the editor accepts, *)
(* occupy no slot and are left out.)                                           *)
Slots(i) == i.start..Ends(i) - 1
ConflictsAreSharedSlots ==
    \A t \in Windows :
        LET list == items[t]
            real == {i \in DOMAIN list : Slots(list[i]) # {} /\ list[i].agent # NoAgent}
        IN  \A i, j \in real : i # j =>
              ({i, j} \in Conflicts(list) <=>
                  /\ list[i].agent = list[j].agent
                  /\ Slots(list[i]) \cap Slots(list[j]) # {})

(* A tab loses nothing without another one, or a full localStorage, behind it: *)
(* while its writes succeed and no other tab has written since it last wrote   *)
(* or loaded, a reload shows what it showed, and what it writes drops no item  *)
(* that was stored.  (A tab that is adrift may overwrite the other's items.)   *)
NothingIsLostAlone ==
    [][\A t \in Windows \ adrift :
          /\ ReloadPage(t) => items'[t] = items[t]
          /\ (Duplicate(t) \/ SaveForm(t)) /\ saved # Closed =>
                DOMAIN saved \subseteq DOMAIN saved']_schedulesVars

(* Opening the editor on an item and saving it unchanged keeps the item on its *)
(* day, in every time zone (its hour moves with the zone: see EditDraft).      *)
EditKeepsTheDay ==
    [][\A t \in Windows :
          (/\ SaveForm(t) /\ form[t].of \in DOMAIN items[t]
           /\ form[t] = FormOf(form[t].of, form[t].item, form[t].until))
             => DateOf(items'[t][form[t].of]) = DateOf(form[t].item)]_schedulesVars
=============================================================================
