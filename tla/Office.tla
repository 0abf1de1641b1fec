------------------------------- MODULE Office -------------------------------
(* The office in motion: one character for each agent and each delegated       *)
(* worker, moved frame by frame (controller.ts, navigation.ts) while the data, *)
(* the filters, the renderer and the pointer change between two frames.        *)
(* A frame of the model takes a character as far as the next point of its      *)
(* route or the end of a posture; times are counted in such frames.            *)
EXTENDS OfficeScene

CONSTANTS
    Nobody,
    Filters,           \* what the controls are set to in an instance
    Settings,          \* [travel, reduced]: quality above LITE, reduced motion
    Windows, QuietWindow,   \* [mood, meeting] of a window of time; the first one
    Data, Worlds(_),   \* all the data there can be, and what can follow the data w
    StartWorld,
    RestFrames, VisitFrames, FinishFrames, TripLegs,
    MaxChanges         \* bound: changes of data, controls, pointer and scroll

ASSUME OfficeAssumption ==
    /\ {RestFrames, VisitFrames, FinishFrames, TripLegs, MaxChanges} \subseteq Nat
    /\ TripLegs > 0
ASSUME DataAssumption ==
    /\ StartWorld \in Data /\ \A w \in Data : Worlds(w) \subseteq Data
    /\ \A w \in Data : /\ w.fleet \subseteq Agents /\ w.asks \subseteq Agents
                       /\ w.deleg \in [Workers -> DelegationStates \cup {Gone}]
    /\ \A t \in Windows \cup {QuietWindow} : \A a \in Agents :
          t.mood[a] \in {"idle", "coffee", "stand"}

VARIABLES
    world,      \* the data of the page's queries
    filter,     \* the controls
    settings,   \* quality and reduced motion
    mode,       \* "2.5d", or another renderer, which has no characters
    hidden,     \* document.hidden
    now,        \* the window of time of the last frame: what idle agents do, who meets
    actors,     \* the characters of the last frame
    offscreen,  \* pausedRef: characters scrolled out of the viewport
    hovered,    \* the character under the pointer, as the layer knows it
    pointed,    \* hoveredAgentId, as the page knows it
    beat,       \* which of two animation frames this is
    changes     \* what the bound counts

vars == <<world, filter, settings, mode, hidden, now, actors,
          offscreen, hovered, pointed, beat, changes>>

-----------------------------------------------------------------------------
(* Behaviours, grouped by what the properties tell apart.                      *)
(* A meeting seats every member of its group, here no more than the three      *)
(* agents and two workers the table has places for.  t is a window of time.    *)
Collaborating(x, t) == t.meeting /\ x \in Meeting(world)
Blocked(a) == CurrentState(world, a) = "AWAITING_APPROVAL" \/ a \in world.asks
Behavior(a, t) ==
    CASE world.state[a] = "ACTIVE" ->
            IF Blocked(a) THEN "alert" ELSE IF Collaborating(a, t) THEN "meet" ELSE "work"
      [] world.state[a] = "IDLE" -> t.mood[a]
      [] world.state[a] = "RECENTLY_ACTIVE" -> IF t.mood[a] = "coffee" THEN "idle" ELSE t.mood[a]
      [] world.state[a] = "OFFLINE" -> "away"
      [] OTHER -> "alert"
WorkerBehavior(s) ==
    CASE s = "RUNNING" -> "work"
      [] s \in {"QUEUED", "CLAIMED"} -> "idle"
      [] s \in {"COMPLETED", "CANCELLED"} -> "stand"
      [] OTHER -> "alert"

(* Places, and the motion of a character: where it is, where it goes, whether  *)
(* it sits down there, how many points of the route are left, its posture.     *)
Chair(seat) == <<"chair", seat>>
Door(seat) == <<"door", seat>>
Table == <<"table", <<>>>>
Lounge == <<"lounge", <<>>>>
Path == <<"path", <<>>>>
Still(place, seated) ==
    [at |-> place, target |-> place, sit |-> seated, legs |-> 0,
     posture |-> IF seated THEN "SEATED" ELSE "STANDING"]
RequestMotion(m, place, legs, sit) ==
    IF m.target = place /\ m.sit = sit THEN m
    ELSE [m EXCEPT !.target = place, !.sit = sit, !.legs = legs,
                   !.posture = IF @ \in {"SEATED", "SIT_DOWN"} THEN "STAND_UP"
                               ELSE IF legs > 0 THEN "WALKING" ELSE "STANDING"]
LegsTo(m, place) == IF m.at = place THEN 0 ELSE IF m.at = Path THEN TripLegs ELSE 1
AdvanceMotion(m) ==
    CASE m.posture = "SIT_DOWN" -> [m EXCEPT !.posture = "SEATED"]
      [] m.posture = "STAND_UP" ->
            [m EXCEPT !.posture = IF m.legs > 0 THEN "WALKING" ELSE "STANDING"]
      [] m.legs > 0 /\ m.posture \notin {"SIT_DOWN", "STAND_UP"} ->
            [m EXCEPT !.legs = @ - 1,
                      !.at = IF m.legs = 1 THEN m.target ELSE Path,
                      !.posture = IF m.legs > 1 THEN "WALKING"
                                  ELSE IF m.sit THEN "SIT_DOWN" ELSE "STANDING"]
      [] OTHER -> IF m.sit /\ m.posture # "SEATED" THEN [m EXCEPT !.posture = "SIT_DOWN"] ELSE m
VisibleBehavior(b, m) ==
    IF b \in {"away", "alert"} THEN b
    ELSE CASE m.posture = "WALKING" -> "walk"
           [] m.posture \in {"STAND_UP", "SIT_DOWN"} -> "stand"
           [] OTHER -> b

-----------------------------------------------------------------------------
(* One character of the next frame.                                            *)
Paused == offscreen \cup {hovered, pointed}
Move(x, c) == IF x \in Paused THEN c ELSE [c EXCEPT !.motion = AdvanceMotion(@)]
Aged(c) ==
    [c EXCEPT !.clock = IF @ > VisitFrames + FinishFrames THEN @ ELSE @ + 1,
              !.rest = IF @ = 0 THEN 0 ELSE @ - 1]

Depart(c, wants, home, spot) ==
    IF c.journey = "HOME" /\ wants /\ c.rest = 0
    THEN [c EXCEPT !.motion = RequestMotion(@, spot, TripLegs, FALSE),
                   !.journey = "OUTBOUND", !.clock = 0]
    ELSE c
TurnBack(c, wants, home) ==
    IF \/ c.journey = "OUTBOUND" /\ ~wants
       \/ c.journey = "VISITING" /\ (~wants \/ c.clock > VisitFrames)
    THEN [c EXCEPT !.motion = RequestMotion(@, home, LegsTo(@, home), TRUE),
                   !.journey = "RETURNING"]
    ELSE c
Visit(c) ==
    IF c.journey = "OUTBOUND" /\ c.motion.legs = 0 /\ c.motion.posture = "STANDING"
    THEN [c EXCEPT !.journey = "VISITING", !.clock = 0] ELSE c
(* Mutant: who has come back is not at home again.                             *)
MutantBackHome(c, arrived) == [c EXCEPT !.rest = RestFrames]
BackHome(c, arrived) ==
    IF arrived /\ c.motion.posture = "SEATED"
    THEN [c EXCEPT !.journey = "HOME", !.rest = RestFrames] ELSE c

(* At home an agent sits, or stands to stretch, wherever its desk is now.      *)
StayHome(c, b, home) ==
    IF c.journey = "HOME"
    THEN [c EXCEPT !.motion = RequestMotion(@, home, LegsTo(@, home), b # "stand")]
    ELSE c

AgentFrame(a, t) ==
    LET seat == Desk(world, a)
        home == Chair(seat)
        b == Behavior(a, t)
        wants == settings.travel /\ ~settings.reduced /\ b \in {"coffee", "meet"}
        old == IF a \in DOMAIN actors THEN Aged(actors[a])
               ELSE [journey |-> "HOME", motion |-> Still(home, TRUE), clock |-> 0,
                     rest |-> RestFrames, seat |-> seat, state |-> Gone, behavior |-> b]
        char == [old EXCEPT !.seat = seat, !.behavior = b]
        gone == Depart(char, wants /\ char.motion.posture = "SEATED", home,
                       IF b = "coffee" THEN Lounge ELSE Table)
        moved == Visit(Move(a, StayHome(TurnBack(gone, wants, home), b, home)))
        back == BackHome(moved, moved.journey = "RETURNING" /\ moved.motion.at = home)
    IN  IF b = "away" \/ settings.reduced
        THEN [char EXCEPT !.motion = Still(home, b # "stand"), !.journey = "HOME"]
        ELSE [back EXCEPT !.behavior = IF @ = "coffee" /\ back.journey # "VISITING"
                                       THEN "idle" ELSE @]

(* A worker comes in by the door beside its dock and keeps the place it got.   *)
WorkerFrame(d, t) ==
    LET known == d \in DOMAIN actors
        seat == IF known THEN actors[d].seat ELSE Dock(world, d)
        home == Chair(seat)
        travel == settings.travel /\ ~settings.reduced
        b == IF Collaborating(d, t) THEN "meet" ELSE WorkerBehavior(world.deleg[d])
        wants == b = "meet" /\ travel
        old == IF known THEN Aged(actors[d])
               ELSE [journey |-> IF travel THEN "ARRIVING" ELSE "HOME",
                     motion |-> IF travel
                                THEN RequestMotion(Still(Door(seat), FALSE), home, 1, TRUE)
                                ELSE Still(home, TRUE),
                     clock |-> 0, rest |-> 0, seat |-> seat,
                     state |-> world.deleg[d], behavior |-> b]
        char == TurnBack(Depart(old, wants, home, Table), wants, home)
        moved == Visit(IF settings.reduced
                       THEN [char EXCEPT !.motion = Still(home, TRUE)] ELSE Move(d, char))
    IN  [BackHome(moved, moved.journey \in {"RETURNING", "ARRIVING"})
            EXCEPT !.state = world.deleg[d], !.behavior = b]

(* A worker whose delegation was seen to end shows its end and leaves.         *)
ExitFrame(d) ==
    LET home == Chair(actors[d].seat)
        char == [Aged(actors[d]) EXCEPT !.state = world.deleg[d],
                                       !.behavior = WorkerBehavior(world.deleg[d])]
        leaving == IF char.journey = "LEAVING" THEN char
                   ELSE [char EXCEPT
                           !.motion = RequestMotion(@, Door(char.seat), LegsTo(@, home) + 1, FALSE),
                           !.journey = "LEAVING", !.clock = 0]
    IN  IF leaving.clock >= FinishFrames THEN Move(d, leaving) ELSE leaving
StillLeaving(c) ==
    c.motion.legs > 0 \/ c.motion.posture = "STAND_UP" \/ c.clock < FinishFrames

(* Mutant: a worker that is merely not on screen leaves as well.               *)
MutantExits(shown) ==
    {d \in Workers \cap DOMAIN actors :
        /\ d \notin WorkersAt(world, shown)
        /\ settings.travel /\ ~settings.reduced}
Exits(shown) ==
    {d \in Workers \cap DOMAIN actors :
        /\ d \notin WorkersAt(world, shown) /\ ParentOf[d] \in shown
        /\ world.deleg[d] \notin ActiveDelegation \cup {Gone}
        /\ settings.travel /\ ~settings.reduced}

OnStage == mode = "2.5d"
(* requestAnimationFrame calls back as long as the tab is shown.               *)
Beat == OnStage /\ ~hidden /\ beat' = 1 - beat
Frame ==
    LET shown == Shown(world, filter)
        staff == WorkersAt(world, shown)
        leavers == {d \in Exits(shown) : StillLeaving(ExitFrame(d))}
    IN  /\ Beat
        /\ now' \in Windows
        /\ actors' = [x \in shown \cup staff \cup leavers |->
                        IF x \in shown THEN AgentFrame(x, now')
                        ELSE IF x \in staff THEN WorkerFrame(x, now') ELSE ExitFrame(x)]
        /\ UNCHANGED <<world, filter, settings, mode, hidden,
                       offscreen, hovered, pointed, changes>>

(* What a render makes of a character of the last frame and of the data of now.*)
(* Mutant: the behaviour of the last frame is drawn.                           *)
MutantEffective(x) == VisibleBehavior(actors[x].behavior, actors[x].motion)
Effective(x) ==
    LET c == actors[x] IN
    IF x \in Agents
    THEN IF x \notin Shown(world, filter) THEN "away"
         ELSE VisibleBehavior(IF Behavior(x, now) = "coffee" /\ c.journey # "VISITING"
                              THEN "idle" ELSE Behavior(x, now), c.motion)
    ELSE VisibleBehavior(IF world.deleg[x] \notin {Gone, c.state}
                         THEN WorkerBehavior(world.deleg[x]) ELSE c.behavior, c.motion)
Rendered ==
    {x \in DOMAIN actors :
        /\ Effective(x) # "away"
        /\ (IF x \in Agents THEN x ELSE ParentOf[x]) \in Shown(world, filter)}

-----------------------------------------------------------------------------
(* Between two frames.                                                         *)
Change == changes < MaxChanges /\ changes' = changes + 1
NewData ==
    /\ Change /\ world' \in Worlds(world)
    /\ UNCHANGED <<filter, settings, mode, hidden, now, actors,
                   offscreen, hovered, pointed, beat>>
SetFilter(f) ==
    /\ Change /\ f # filter /\ filter' = f
    /\ UNCHANGED <<world, settings, mode, hidden, now, actors,
                   offscreen, hovered, pointed, beat>>
SetSettings(s) ==
    /\ Change /\ s # settings /\ settings' = s
    /\ UNCHANGED <<world, filter, mode, hidden, now, actors,
                   offscreen, hovered, pointed, beat>>
(* Another renderer: the layer and all it holds are gone, the page's are not.  *)
SetMode(m) ==
    /\ Change /\ m # mode /\ mode' = m
    /\ actors' = <<>> /\ offscreen' = {} /\ hovered' = Nobody
    /\ UNCHANGED <<world, filter, settings, hidden, now, pointed, beat>>
ToggleTab ==
    /\ Change /\ hidden' = ~hidden
    /\ UNCHANGED <<world, filter, settings, mode, now, actors,
                   offscreen, hovered, pointed, beat>>

(* An element that is gone from under the pointer tells nobody.                *)
Hover(x) ==
    /\ OnStage /\ Change
    /\ x \in Rendered \ {hovered} /\ hovered' = x
    /\ pointed' = IF x \in Agents THEN x ELSE pointed
    /\ UNCHANGED <<world, filter, settings, mode, hidden, now, actors, offscreen,
                   beat>>
Leave ==
    /\ OnStage /\ hovered \in Rendered
    /\ hovered' = Nobody /\ pointed' = Nobody
    /\ UNCHANGED <<world, filter, settings, mode, hidden, now, actors,
                   offscreen, beat, changes>>
Scroll(x) ==
    /\ OnStage /\ Change
    /\ x \in Rendered
    /\ offscreen' = IF x \in offscreen THEN offscreen \ {x} ELSE offscreen \cup {x}
    /\ UNCHANGED <<world, filter, settings, mode, hidden, now, actors,
                   hovered, pointed, beat>>

Init ==
    /\ world = StartWorld /\ filter \in Filters /\ settings \in Settings
    /\ mode = "2.5d" /\ hidden = FALSE
    /\ now = QuietWindow
    /\ beat = 0 /\ actors = <<>> /\ offscreen = {} /\ hovered = Nobody /\ pointed = Nobody
    /\ changes = 0

Next ==
    \/ Frame \/ NewData \/ ToggleTab \/ Leave
    \/ \E f \in Filters : SetFilter(f)
    \/ \E s \in Settings : SetSettings(s)
    \/ \E m \in {"2.5d", "list"} : SetMode(m)
    \/ \E x \in Agents \cup Workers : Hover(x) \/ Scroll(x)

(* Only a frame beats.                                                         *)
Spec == Init /\ [][Next]_vars /\ WF_beat(Beat)
-----------------------------------------------------------------------------
(* Nobody is drawn at work who is not: an agent only while it is ACTIVE and    *)
(* nothing it waits for blocks it, a worker only while its delegation runs (or *)
(* is not listed at all, which the render-time guard does not look at).        *)
BusyMeansBusy ==
    OnStage => \A x \in Rendered : Effective(x) \in {"work", "meet"} =>
        IF x \in Agents THEN world.state[x] = "ACTIVE" /\ ~Blocked(x)
        ELSE world.deleg[x] \in {"RUNNING", Gone}

(* A worker only ever starts to leave in a frame in which its delegation was   *)
(* seen to have ended since the last one; not because of a filter, a missing   *)
(* answer or an old delegation that has just been loaded.                      *)
ExitsAreObserved ==
    [][\A d \in Workers \cap DOMAIN actors' :
          actors'[d].journey = "LEAVING" =>
              /\ d \in DOMAIN actors
              /\ \/ actors[d].journey = "LEAVING"
                 \/ /\ actors[d].state \in ActiveDelegation
                    /\ world.deleg[d] \in DelegationStates \ ActiveDelegation]_vars

(* The strip counts one worker for each that a row of the list counts, and     *)
(* what needs attention is what the banner lists and the agents that wait; the *)
(* phone counts every agent that the office draws as waiting for a task.       *)
OfficeAddsUp ==
    /\ SummaryWorkers(world)
         = Cardinality(UNION {{<<a, n>> : n \in 1..RowWorkers(world, a)} : a \in world.fleet})
    /\ SummaryAttention(world)
         = BannerItems(world) + Cardinality(InState(world, {"AWAITING_APPROVAL"}))
    /\ MobileWaiting(world)
         >= Cardinality({a \in world.fleet \ world.asks :
                            world.state[a] = "ACTIVE" /\ Behavior(a, now) = "alert"})

(* What is drawn and what is counted around it are both true.                  *)
DrawnAndCounted == BusyMeansBusy /\ OfficeAddsUp

(* Every trip, arrival and exit ends, unless the character stays out of sight  *)
(* or under the pointer.  Two ways remain to get stuck, and only these: the    *)
(* desk moved while its agent was on the way back, and a delegation that runs  *)
(* again while its worker is leaving.                                          *)
Stuck(x) ==
    LET c == actors[x] IN
    \/ /\ x \in Agents /\ c.journey = "RETURNING" /\ c.motion.posture = "SEATED"
       /\ c.motion.at # Chair(c.seat)
    \/ x \in Workers /\ c.journey = "LEAVING" /\ c.state \in ActiveDelegation
TripsEnd ==
    \A x \in Agents \cup Workers :
        []<>(\/ ~OnStage \/ hidden \/ x \in Paused \/ x \notin DOMAIN actors
             \/ actors[x].journey = "HOME" \/ Stuck(x))
=============================================================================
