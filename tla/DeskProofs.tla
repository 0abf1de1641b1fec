----------------------------- MODULE DeskProofs -----------------------------
(***************************************************************************)
(* Theorems about the Tasks and Approvals pages, for every set of tasks,   *)
(* approvals and filters, every length of run, and both providers.         *)
(*                                                                         *)
(* Two inductive invariants stand on the types.  CallsFit: a call whose    *)
(* dialog is still there is the one that dialog waits for.  CacheFits: an  *)
(* answer under way, or landed, is the store's unless something says that  *)
(* it is out of date, off the screen as well as on it; that needs          *)
(* UnseenFit, that a change made by a call is on record until the call is  *)
(* answered, and that its answer then invalidates that list.               *)
(***************************************************************************)
EXTENDS Desk, FiniteSetTheorems, TLAPS

ListsOf(k) == IF k.of = "tasks" THEN Snapshots(Tasks, TaskStates)
              ELSE Snapshots(Gates, ApprovalStates)
Desks == [candidate: Tasks \cup {None}, seen: TaskStates \cup {None}, busy: BOOLEAN,
          drawer: BOOLEAN]
Benches == [submitting: BOOLEAN, approving: BOOLEAN, rejecting: BOOLEAN, typed: BOOLEAN]
Kinds == {"dispatch", "create", "approve", "reject"}
Calls == [n: 1..Bounds["calls"], kind: Kinds, of: Tasks \cup Gates \cup {"DRAFT", "READY"},
          st: {"sent", "read", "ok", "refused"}, page: BOOLEAN, body: BOOLEAN]
Lists == {"tasks", "approvals"}

\* The stores, the cache and the address.
StoresOK ==
  /\ mock \in BOOLEAN
  /\ tasks \in [Tasks -> TaskStates \cup {Missing}]
  /\ gates \in [Gates -> ApprovalStates]
  /\ DOMAIN cache = Keys
  /\ \A k \in Keys : cache[k] \in Entries(ListsOf(k))
  /\ IsAddress(url) /\ IsAddress(behind)
  /\ unseen \in [Lists -> SUBSET (0..spent["calls"])]
  /\ spent \in [{"moves", "calls", "mishaps"} -> Nat] /\ spent["calls"] <= Bounds["calls"]

\* The calls under way beside the dialogs that wait for them, given how many calls
\* were sent.
CallsFit(cs, d, b, last) ==
  /\ cs \subseteq Calls /\ d \in Desks /\ b \in Benches
  /\ \A c \in cs : c.n <= last /\ (c.body => c.page)
  /\ \A c \in cs : c.kind = "create" => c.of \in {"DRAFT", "READY"}
  /\ \A c, e \in cs : c.n = e.n => c = e
  /\ \A c \in cs : c.body => /\ c.kind = "dispatch" => d.busy
                             /\ c.kind \in {"approve", "reject"} => b.submitting
  /\ \A c, e \in cs :
       c.body /\ e.body /\ DialogOf(c.kind) = DialogOf(e.kind) => c = e

\* What a call is remembered for as unseen: it was carried out, on a list that its
\* answer invalidates.
UnseenFit(cs, un) ==
  \A c \in cs, l \in Lists : c.n \in un[l] => c.st = "ok" /\ l \in Invalidates(c.kind)

\* An entry of the cache, on the screen or not, beside what its query would be
\* answered now; quiet when no change of the store waits to be heard of.
EntryOK(e, on, now, quiet) ==
  /\ e.flight = "answered" /\ ~e.late /\ quiet => e.answer = now
  /\ e.flight = "idle" /\ ~e.error /\ ~e.late /\ ~e.invalid /\ quiet /\ (on \/ e.data # Absent)
       => e.data = now
  /\ on /\ e.flight = "idle" /\ ~e.error => ~e.invalid
CacheFits ==
  \A k \in Keys : EntryOK(cache[k], k \in OnScreen(url), Answer(k), unseen[k.of] = {})

DeskInv ==
  /\ StoresOK
  /\ CallsFit(calls, desk, bench, spent["calls"])
  /\ UnseenFit(calls, unseen)
  /\ CacheFits

-----------------------------------------------------------------------------
\* Keys, addresses and lists.

LEMMA SnapshotType ==
  ASSUME NEW Ids, NEW States, NEW list
  PROVE  list \in Snapshots(Ids, States) <=>
           DOMAIN list \subseteq Ids /\ list \in [DOMAIN list -> States]
BY DEF Snapshots

LEMMA KeyTypes ==
  /\ \A k \in Keys : k.of \in Lists
  /\ \A f \in TaskFilters \cup {None} : Key("tasks", f) \in Keys /\ Key("tasks", f).of = "tasks"
  /\ \A f \in GateFilters \cup {None} :
       Key("approvals", f) \in Keys /\ Key("approvals", f).of = "approvals"
<1>1. \A l, f : Key(l, f).of = l
  BY DEF Key
<1>2. \A k \in Keys : \/ \E f \in TaskFilters \cup {None} : k = Key("tasks", f)
                     \/ \E f \in GateFilters \cup {None} : k = Key("approvals", f)
  BY Zenon DEF Keys
<1>3. /\ \A f \in TaskFilters \cup {None} : Key("tasks", f) \in Keys
      /\ \A f \in GateFilters \cup {None} : Key("approvals", f) \in Keys
  BY Zenon DEF Keys
<1> QED BY <1>1, <1>2, <1>3 DEF Lists

LEMMA Addresses ==
  /\ \A x : IsAddress(TasksUrl(x)) /\ IsAddress(ApprovalsUrl(x))
  /\ IsAddress(Elsewhere)
BY DeskAssumption, KeyTypes DEF IsAddress, TasksUrl, ApprovalsUrl, Elsewhere, Url, Primary

LEMMA ScreenKeys ==
  ASSUME NEW u, IsAddress(u)
  PROVE  /\ OnScreen(u) \subseteq Keys
         /\ u.page \in {"tasks", "approvals", "elsewhere"}
         /\ u.page # "elsewhere" => Primary(u) \in Keys /\ Primary(u) \in OnScreen(u)
         /\ u.page # "elsewhere" => Primary(u).of = u.page
<1>1. u.page \in {"tasks", "approvals", "elsewhere"}
      /\ (u.page # "elsewhere" => Primary(u) \in Keys)
  BY DEF IsAddress, Elsewhere, Url
<1>2. Primary(u).of = u.page
  BY DEF Primary, Key
<1>3. CASE u.page = "tasks"
  <2>1. OnScreen(u) = {Primary(u), Key("approvals", None)}
    BY <1>3, Zenon DEF OnScreen
  <2> QED BY <1>1, <1>2, <1>3, <2>1, KeyTypes
<1>4. CASE u.page = "approvals"
  <2>1. u.page # "tasks"
    BY <1>4
  <2>2. OnScreen(u) = {Primary(u), Key("tasks", None)}
    BY <1>4, <2>1, Zenon DEF OnScreen
  <2> QED BY <1>1, <1>2, <1>4, <2>2, KeyTypes
<1>5. CASE u.page = "elsewhere"
  <2>1. u.page # "tasks" /\ u.page # "approvals"
    BY <1>5
  <2>2. OnScreen(u) = {}
    BY <2>1, Zenon DEF OnScreen
  <2> QED BY <1>1, <1>5, <2>2
<1> QED BY <1>1, <1>3, <1>4, <1>5

\* Another id under the same page and filters, another filter of the same page.
LEMMA AddressMoves ==
  ASSUME NEW u, IsAddress(u), u.page # "elsewhere"
  PROVE  /\ \A x : IsAddress([u EXCEPT !.at = x])
         /\ \A f : Key(u.page, f) \in Keys => IsAddress([u EXCEPT !.by = f])
<1>1. u = [page |-> u.page, by |-> u.by, at |-> u.at] /\ u.page \in {"tasks", "approvals"}
      /\ Primary(u) \in Keys
  BY DEF IsAddress, Elsewhere, Url
<1>2. \A x : [u EXCEPT !.at = x] = [page |-> u.page, by |-> u.by, at |-> x]
  BY <1>1
<1>3. \A f : [u EXCEPT !.by = f] = [page |-> u.page, by |-> f, at |-> u.at]
  BY <1>1
<1> QED BY <1>1, <1>2, <1>3 DEF IsAddress, Primary, Url

LEMMA AnswerType ==
  ASSUME NEW k \in Keys
  PROVE  Answer(k) \in ListsOf(k)
<1>1. \A s : ShownState(s) \in TaskStates
  BY DEF ShownState, TaskStates
<1>2. \A s : ShownApproval(s) \in ApprovalStates
  BY DEF ShownApproval, ApprovalStates
<1>3. \A f : TaskList(tasks, f, mock) \in Snapshots(Tasks, TaskStates)
  <2> TAKE f
  <2> DEFINE S == {u \in Tasks : /\ tasks[u] # Missing
                                 /\ IF mock THEN MockKeeps(f, u, tasks[u])
                                            ELSE ServerKeeps(f, u, tasks[u])}
  <2>1. TaskList(tasks, f, mock) = [t \in S |-> ShownState(tasks[t])]
    BY DEF TaskList
  <2>2. S \subseteq Tasks
    OBVIOUS
  <2> HIDE DEF S
  <2> QED BY <1>1, <2>1, <2>2, SnapshotType
<1>4. \A f : GateList(gates, f, mock) \in Snapshots(Gates, ApprovalStates)
  <2> TAKE f
  <2> DEFINE S == {h \in Gates : GateKept(f, h, gates[h], mock)}
  <2>1. GateList(gates, f, mock) = [g \in S |-> ShownApproval(gates[g])]
    BY DEF GateList
  <2>2. S \subseteq Gates
    OBVIOUS
  <2> HIDE DEF S
  <2> QED BY <1>2, <2>1, <2>2, SnapshotType
<1> QED BY <1>3, <1>4 DEF Answer, ListsOf

-----------------------------------------------------------------------------
\* Entries of the cache.

LEMMA EntryFields ==
  ASSUME NEW S, NEW e \in Entries(S)
  PROVE  /\ e.data \in S \cup {Absent} /\ e.answer \in S \cup {Absent}
         /\ e.flight \in {"idle", "asked", "answered"} /\ e.tries \in 0..Retries
         /\ e.invalid \in BOOLEAN /\ e.error \in BOOLEAN /\ e.late \in BOOLEAN
BY DEF Entries

LEMMA AskedEntry ==
  ASSUME NEW S, NEW e \in Entries(S)
  PROVE  /\ Asked(e) \in Entries(S)
         /\ Asked(e).flight = "asked" /\ Asked(e).data = e.data /\ Asked(e).answer = Absent
<1>1. ASSUME NEW x \in BOOLEAN, NEW z \in 0..Retries
      PROVE  [e EXCEPT !.flight = "asked", !.answer = Absent, !.tries = z, !.late = FALSE,
                       !.error = @ /\ x] \in Entries(S)
  BY DEF Entries
<1>2. 0 \in 0..Retries /\ (e.data # Absent) \in BOOLEAN
  BY RetriesAssumption
<1>3. Asked(e) \in Entries(S)
  BY <1>1, <1>2, Zenon DEF Asked
<1> QED BY <1>3 DEF Asked, Entries

LEMMA ServedEntry ==
  ASSUME NEW S, NEW e \in Entries(S), NEW v \in S
  PROVE  /\ Served(e, v) \in Entries(S)
         /\ Served(e, v).flight = "answered" /\ Served(e, v).data = e.data
         /\ Served(e, v).answer = v /\ Served(e, v).late = e.late
BY DEF Served, Entries

LEMMA LandedEntry ==
  ASSUME NEW S, NEW e \in Entries(S)
  PROVE  /\ Landed(e) \in Entries(S)
         /\ Landed(e).flight = "idle" /\ Landed(e).data = e.answer /\ Landed(e).answer = Absent
         /\ Landed(e).late = e.late
BY DEF Landed, Entries

LEMMA FailedEntry ==
  ASSUME NEW S, NEW e \in Entries(S), NEW shown \in BOOLEAN
  PROVE  /\ Failed(e, shown) \in Entries(S)
         /\ \/ Failed(e, shown).flight = "asked"
            \/ Failed(e, shown).flight = "idle" /\ Failed(e, shown).error
         /\ Failed(e, shown).data = e.data /\ Failed(e, shown).answer = Absent
<1>1. CASE e.tries < Retries /\ shown
  <2>1. ASSUME NEW z \in 0..Retries
        PROVE  [e EXCEPT !.flight = "asked", !.answer = Absent, !.tries = z, !.late = FALSE]
                 \in Entries(S)
    BY DEF Entries
  <2>2. e.tries + 1 \in 0..Retries
    BY <1>1, RetriesAssumption, EntryFields
  <2>3. Failed(e, shown) = [e EXCEPT !.flight = "asked", !.answer = Absent, !.tries = e.tries + 1,
                                     !.late = FALSE]
    BY <1>1 DEF Failed
  <2> HIDE DEF Entries
  <2>4. Failed(e, shown) \in Entries(S)
    BY <2>1, <2>2, <2>3
  <2> QED BY <1>1, <2>3, <2>4 DEF Entries
<1>2. CASE ~(e.tries < Retries /\ shown)
  BY <1>2 DEF Failed, Entries
<1> QED BY <1>1, <1>2

\* What each operation of the cache leaves of an entry that fits.

LEMMA AskedOK ==
  ASSUME NEW S, NEW e \in Entries(S), NEW on, NEW now, NEW quiet
  PROVE  EntryOK(Asked(e), on, now, quiet)
BY AskedEntry DEF EntryOK

LEMMA MountedOK ==
  ASSUME NEW S, NEW e \in Entries(S), NEW now, NEW quiet, EntryOK(e, FALSE, now, quiet),
         NEW aged \in BOOLEAN
  PROVE  Mounted(e, aged) \in Entries(S) /\ EntryOK(Mounted(e, aged), TRUE, now, quiet)
<1>1. CASE e.flight = "idle" /\ (e.data = Absent \/ e.invalid \/ e.error \/ aged)
  <2>1. Mounted(e, aged) = Asked(e)
    BY <1>1 DEF Mounted
  <2> QED BY <2>1, AskedEntry, AskedOK
<1>2. CASE ~(e.flight = "idle" /\ (e.data = Absent \/ e.invalid \/ e.error \/ aged))
  <2>1. Mounted(e, aged) = e
    BY <1>2 DEF Mounted
  <2> QED BY <1>2, <2>1 DEF EntryOK
<1> QED BY <1>1, <1>2

LEMMA LandedOK ==
  ASSUME NEW S, NEW e \in Entries(S), NEW on, NEW now, NEW quiet, e.flight = "answered",
         EntryOK(e, on, now, quiet)
  PROVE  EntryOK(Landed(e), on, now, quiet)
<1>1. Landed(e).invalid = FALSE
  BY DEF Landed, Entries
<1> QED BY <1>1, LandedEntry DEF EntryOK

LEMMA ServedOK ==
  ASSUME NEW S, NEW e \in Entries(S), NEW now \in S, NEW on, NEW quiet
  PROVE  EntryOK(Served(e, now), on, now, quiet)
BY ServedEntry DEF EntryOK

LEMMA FailedOK ==
  ASSUME NEW S, NEW e \in Entries(S), NEW shown \in BOOLEAN, NEW on, NEW now, NEW quiet
  PROVE  EntryOK(Failed(e, shown), on, now, quiet)
BY FailedEntry DEF EntryOK

LEMMA RefetchedOK ==
  ASSUME NEW S, NEW e \in Entries(S), NEW on, NEW now, NEW quiet, EntryOK(e, on, now, quiet)
  PROVE  Refetched(e) \in Entries(S) /\ EntryOK(Refetched(e), on, now, quiet)
<1>1. Refetched(e) \in {e, Asked(e)}
  BY DEF Refetched
<1> QED BY <1>1, AskedEntry, AskedOK

\* An invalidated entry fits whatever the store became.
LEMMA InvalidatedOK ==
  ASSUME NEW S, NEW e \in Entries(S), NEW on \in BOOLEAN, NEW now, NEW quiet
  PROVE  Invalidated(e, on) \in Entries(S) /\ EntryOK(Invalidated(e, on), on, now, quiet)
<1> DEFINE m == [e EXCEPT !.invalid = TRUE, !.late = @ \/ e.flight = "answered"]
<1>1. /\ m \in Entries(S) /\ m.flight = e.flight /\ m.invalid
      /\ e.flight = "answered" => m.late
  BY DEF Entries
<1> DEFINE n == [Refetched(m) EXCEPT !.invalid = TRUE]
<1>2. Invalidated(e, on) = IF on THEN n ELSE m
  BY DEF Invalidated
<1>3. CASE on
  <2>1. /\ Refetched(m) \in Entries(S) /\ Refetched(m).flight # "idle"
        /\ Refetched(m).flight = "answered" => Refetched(m).late
    <3>1. CASE m.flight = "idle" \/ m.data # Absent
      BY <1>1, <3>1, AskedEntry DEF Refetched
    <3>2. CASE ~(m.flight = "idle" \/ m.data # Absent)
      BY <1>1, <3>2 DEF Refetched
    <3> QED BY <3>1, <3>2
  <2>2. /\ n \in Entries(S) /\ n.flight = Refetched(m).flight /\ n.late = Refetched(m).late
    BY <2>1 DEF Entries
  <2> HIDE DEF m, n
  <2> QED BY <1>2, <1>3, <2>1, <2>2 DEF EntryOK
<1>4. CASE ~on
  <2> HIDE DEF m, n
  <2> QED BY <1>1, <1>2, <1>4 DEF EntryOK
<1> QED BY <1>3, <1>4

\* While a change waits to be heard of, the store may be anything.
LEMMA LoudOK ==
  ASSUME NEW e, NEW on, NEW now, NEW quiet, EntryOK(e, on, now, quiet), NEW later
  PROVE  EntryOK(e, on, later, FALSE)
BY DEF EntryOK

\* Off the screen less is asked of an entry.
LEMMA HiddenOK ==
  ASSUME NEW e, NEW on, NEW now, NEW quiet, EntryOK(e, on, now, quiet)
  PROVE  EntryOK(e, FALSE, now, quiet)
BY DEF EntryOK

-----------------------------------------------------------------------------
\* Dialogs and calls.

\* A render forgets dialogs, and tells their calls so.
LEMMA RenderFits ==
  ASSUME NEW d, NEW b, NEW cs, NEW last, CallsFit(cs, d, b, last), Render(d, b, cs)
  PROVE  /\ CallsFit(calls', desk', bench', last)
         /\ \A c \in calls' : \E e \in cs : c.n = e.n /\ c.kind = e.kind /\ c.st = e.st
<1> DEFINE same == url'.page = url.page
           up == same /\ BodyUp'
           g(c, x, y) == [c EXCEPT !.page = @ /\ x, !.body = @ /\ x /\ y]
           f(c) == g(c, same, BodyUp')
<1>1. ASSUME NEW c \in Calls, NEW x \in BOOLEAN, NEW y \in BOOLEAN
      PROVE  /\ g(c, x, y) \in Calls /\ g(c, x, y).n = c.n /\ g(c, x, y).kind = c.kind
             /\ g(c, x, y).of = c.of /\ g(c, x, y).st = c.st
             /\ g(c, x, y).page <=> c.page /\ x
             /\ g(c, x, y).body <=> c.body /\ x /\ y
  BY DEF Calls
<1>2. same \in BOOLEAN /\ BodyUp' \in BOOLEAN
  BY DEF BodyUp
<1>3. \A c \in cs : /\ f(c) \in Calls /\ f(c).n = c.n /\ f(c).kind = c.kind /\ f(c).of = c.of
                    /\ f(c).st = c.st
                    /\ f(c).page <=> c.page /\ same
                    /\ f(c).body <=> c.body /\ up
  <2> HIDE DEF g, same
  <2> QED BY <1>1, <1>2 DEF CallsFit
<1>4. \A e : e \in calls' <=> \E c \in cs : e = f(c)
  BY DEF Render
<1>5. desk' \in Desks /\ (up => desk'.busy = d.busy)
  <2>1. CASE ~same
    <3>1. desk' = NoDesk
      BY <2>1 DEF Render
    <3> QED BY <2>1, <3>1 DEF NoDesk, Desks
  <2>2. CASE same /\ BodyUp'
    BY <2>2 DEF Render, CallsFit
  <2>3. CASE same /\ ~BodyUp'
    <3>1. desk' = [d EXCEPT !.busy = FALSE] /\ d \in Desks
      BY <2>3 DEF Render, CallsFit
    <3> QED BY <2>3, <3>1 DEF Desks
  <2> QED BY <2>1, <2>2, <2>3
<1>6. bench' \in Benches /\ (up => bench'.submitting = b.submitting)
  <2>1. CASE ~up
    <3>1. bench' = NoBench
      BY <2>1 DEF Render
    <3> QED BY <2>1, <3>1 DEF NoBench, Benches
  <2>2. CASE up
    <3>1. bench' \in {b, [b EXCEPT !.typed = FALSE]} /\ b \in Benches
      BY <2>2 DEF Render, CallsFit
    <3> QED BY <3>1 DEF Benches
  <2> QED BY <2>1, <2>2
<1> HIDE DEF f, g, up, same
<1>7. \A c, e \in calls' : c.n = e.n => c = e
  BY <1>3, <1>4 DEF CallsFit
<1>8. \A c, e \in calls' : c.body /\ e.body /\ DialogOf(c.kind) = DialogOf(e.kind) => c = e
  BY <1>3, <1>4 DEF CallsFit
<1>9. \A c \in calls' : c.body => /\ c.kind = "dispatch" => desk'.busy
                                  /\ c.kind \in {"approve", "reject"} => bench'.submitting
  BY <1>3, <1>4, <1>5, <1>6 DEF CallsFit
<1>10. /\ calls' \subseteq Calls
       /\ \A c \in calls' : c.n <= last /\ (c.body => c.page)
       /\ \A c \in calls' : c.kind = "create" => c.of \in {"DRAFT", "READY"}
  <2>1. \A c \in cs : c.body /\ up => c.page /\ same
    BY DEF CallsFit, up
  <2> QED BY <1>3, <1>4, <2>1 DEF CallsFit
<1> QED BY <1>3, <1>4, <1>5, <1>6, <1>7, <1>8, <1>9, <1>10 DEF CallsFit

LEMMA UnseenStays ==
  ASSUME NEW cs, NEW un, UnseenFit(cs, un), NEW es,
         \A c \in es : \E e \in cs : c.n = e.n /\ c.kind = e.kind /\ c.st = e.st
  PROVE  UnseenFit(es, un)
BY DEF UnseenFit

\* Fewer calls, and dialogs that wait for as many.
LEMMA FewerFit ==
  ASSUME NEW d, NEW b, NEW cs, NEW last, CallsFit(cs, d, b, last),
         NEW es \in SUBSET cs, NEW d2 \in Desks, NEW b2 \in Benches,
         \A c \in es : c.body => /\ c.kind = "dispatch" => d2.busy
                                 /\ c.kind \in {"approve", "reject"} => b2.submitting
  PROVE  CallsFit(es, d2, b2, last)
BY DEF CallsFit

\* A call more: its dialog had none under way and waits for it now.
LEMMA MoreFit ==
  ASSUME CallsFit(calls, desk, bench, spent["calls"]), StoresOK,
         NEW kind \in Kinds, NEW x \in Tasks \cup Gates \cup {"DRAFT", "READY"},
         kind = "create" => x \in {"DRAFT", "READY"},
         NEW d \in Desks, NEW b \in Benches,
         desk.busy => d.busy, bench.submitting => b.submitting,
         kind = "dispatch" => ~desk.busy /\ d.busy,
         kind \in {"approve", "reject"} => ~bench.submitting /\ b.submitting,
         kind = "create" => ~CreatePending,
         Send(kind, x, d, b)
  PROVE  /\ CallsFit(calls', desk', bench', spent'["calls"])
         /\ UnseenFit(calls, unseen) => UnseenFit(calls', unseen')
<1> DEFINE new == [n |-> spent.calls + 1, kind |-> kind, of |-> x, st |-> "sent",
                   page |-> TRUE, body |-> TRUE]
<1>1. spent["calls"] < Bounds["calls"] /\ spent'["calls"] = spent["calls"] + 1
      /\ spent["calls"] \in Nat /\ Bounds["calls"] \in Nat /\ spent.calls = spent["calls"]
  BY DeskAssumption DEF Send, Spend, StoresOK
<1>2. /\ new \in Calls /\ new.kind = kind /\ new.of = x /\ new.n = spent["calls"] + 1
      /\ new.page /\ new.body /\ new.st = "sent"
  BY <1>1 DEF Calls
<1>3. /\ Render(d, b, calls \cup {new}) /\ UNCHANGED unseen
  BY DEF Send, NoNews
<1> HIDE DEF new
<1>4. \A c \in calls : c.n \in Nat /\ c.n <= spent["calls"] /\ c.kind \in Kinds
  BY DEF CallsFit, Calls
<1>5. \A c \in calls : c.body => DialogOf(c.kind) # DialogOf(kind)
  <2>1. \A c \in calls : c.kind = "create" /\ c.body => CreatePending
    BY DEF CreatePending, CallsFit
  <2> QED BY <1>4, <2>1 DEF CallsFit, DialogOf, Kinds
<1>6. CallsFit(calls \cup {new}, d, b, spent'["calls"])
  <2>1. \A c, e \in calls \cup {new} : c.n = e.n => c = e
    BY <1>1, <1>2, <1>4 DEF CallsFit
  <2>2. \A c, e \in calls \cup {new} :
          c.body /\ e.body /\ DialogOf(c.kind) = DialogOf(e.kind) => c = e
    BY <1>2, <1>5 DEF CallsFit
  <2>3. \A c \in calls \cup {new} : c.n <= spent'["calls"] /\ (c.body => c.page)
    BY <1>1, <1>2, <1>4 DEF CallsFit
  <2>4. \A c \in calls \cup {new} :
          c.body => /\ c.kind = "dispatch" => d.busy
                    /\ c.kind \in {"approve", "reject"} => b.submitting
    BY <1>2 DEF CallsFit
  <2>5. calls \cup {new} \subseteq Calls
        /\ \A c \in calls \cup {new} : c.kind = "create" => c.of \in {"DRAFT", "READY"}
    BY <1>2 DEF CallsFit
  <2> QED BY <2>1, <2>2, <2>3, <2>4, <2>5 DEF CallsFit
<1>7. ASSUME UnseenFit(calls, unseen) PROVE UnseenFit(calls', unseen')
  <2>1. \A l \in Lists : new.n \notin unseen[l]
    BY <1>1, <1>2 DEF StoresOK
  <2>2. UnseenFit(calls \cup {new}, unseen)
    BY <1>7, <2>1 DEF UnseenFit
  <2> QED BY <1>3, <1>6, <2>2, RenderFits, UnseenStays
<1> QED BY <1>3, <1>6, <1>7, RenderFits

-----------------------------------------------------------------------------
\* Moving, clicking and sending.

LEMMA SpendType ==
  ASSUME StoresOK, NEW what \in {"moves", "mishaps"}, Spend(what)
  PROVE  spent' \in [{"moves", "calls", "mishaps"} -> Nat] /\ spent'["calls"] = spent["calls"]
BY DEF StoresOK, Spend

LEMMA SpendCallType ==
  ASSUME StoresOK, Spend("calls")
  PROVE  /\ spent' \in [{"moves", "calls", "mishaps"} -> Nat]
         /\ spent'["calls"] = spent["calls"] + 1 /\ spent'["calls"] <= Bounds["calls"]
BY DeskAssumption DEF StoresOK, Spend

LEMMA SpentStays ==
  ASSUME StoresOK, UNCHANGED spent
  PROVE  spent' \in [{"moves", "calls", "mishaps"} -> Nat] /\ spent'["calls"] = spent["calls"]
BY DEF StoresOK

LEMMA AnswersStay ==
  ASSUME UNCHANGED <<mock, tasks, gates>>
  PROVE  \A k : Answer(k)' = Answer(k)
BY DEF Answer

\* Nothing happens to the store; the address is another one, perhaps.
LEMMA CacheStep ==
  ASSUME DeskInv, UNCHANGED <<mock, tasks, gates, unseen>>, IsAddress(url'), IsAddress(behind'),
         spent' \in [{"moves", "calls", "mishaps"} -> Nat],
         spent'["calls"] \in {spent["calls"], spent["calls"] + 1}, spent'["calls"] <= Bounds["calls"],
         DOMAIN cache' = Keys,
         \A k \in Keys :
           /\ cache'[k] \in Entries(ListsOf(k))
           /\ EntryOK(cache'[k], k \in OnScreen(url'), Answer(k), unseen[k.of] = {})
  PROVE  StoresOK' /\ CacheFits'
<1>1. \A l \in Lists : unseen[l] \subseteq 0..spent'["calls"]
  BY DEF DeskInv, StoresOK
<1>2. unseen' \in [Lists -> SUBSET (0..spent'["calls"])]
  BY <1>1 DEF DeskInv, StoresOK
<1>3. StoresOK'
  BY <1>2 DEF DeskInv, StoresOK
<1>4. OnScreen(url)' = OnScreen(url')
  BY DEF OnScreen, Primary, Key
<1>5. CacheFits'
  BY <1>4, AnswersStay DEF CacheFits
<1> QED BY <1>3, <1>5

LEMMA CacheStays ==
  ASSUME DeskInv, UNCHANGED <<mock, tasks, gates, unseen, cache, url, behind>>,
         spent' \in [{"moves", "calls", "mishaps"} -> Nat],
         spent'["calls"] \in {spent["calls"], spent["calls"] + 1}, spent'["calls"] <= Bounds["calls"]
  PROVE  StoresOK' /\ CacheFits'
<1>1. /\ \A k \in Keys : /\ cache[k] \in Entries(ListsOf(k))
                         /\ EntryOK(cache[k], k \in OnScreen(url), Answer(k), unseen[k.of] = {})
      /\ IsAddress(url) /\ IsAddress(behind) /\ DOMAIN cache = Keys
  BY DEF DeskInv, StoresOK, CacheFits
<1> QED BY <1>1, CacheStep

LEMMA GoInv ==
  ASSUME DeskInv, NEW u, IsAddress(u), NEW d \in Desks, d.busy = desk.busy, Go(u, d)
  PROVE  DeskInv'
<1>1. StoresOK
  BY DEF DeskInv
<1>2. /\ spent' \in [{"moves", "calls", "mishaps"} -> Nat] /\ spent'["calls"] = spent["calls"]
      /\ url' = u /\ behind' = url /\ UNCHANGED <<mock, tasks, gates, unseen>>
      /\ Render(d, bench, calls)
  BY <1>1, SpendType DEF Go, NoNews, Rerender
<1>3. PICK aged \in BOOLEAN :
        cache' = [k \in Keys |-> IF k \in OnScreen(u) \ OnScreen(url)
                                 THEN Mounted(cache[k], aged) ELSE cache[k]]
  BY DEF Go
<1>4. ASSUME NEW k \in Keys
      PROVE  /\ cache'[k] \in Entries(ListsOf(k))
             /\ EntryOK(cache'[k], k \in OnScreen(url'), Answer(k), unseen[k.of] = {})
  <2>1. /\ cache[k] \in Entries(ListsOf(k))
        /\ EntryOK(cache[k], k \in OnScreen(url), Answer(k), unseen[k.of] = {})
    BY <1>1 DEF StoresOK, DeskInv, CacheFits
  <2>2. CASE k \in OnScreen(u) \ OnScreen(url)
    <3>1. cache'[k] = Mounted(cache[k], aged) /\ k \in OnScreen(url')
      BY <1>2, <1>3, <2>2
    <3>2. EntryOK(cache[k], FALSE, Answer(k), unseen[k.of] = {})
      BY <2>1, HiddenOK
    <3>3. /\ Mounted(cache[k], aged) \in Entries(ListsOf(k))
          /\ EntryOK(Mounted(cache[k], aged), TRUE, Answer(k), unseen[k.of] = {})
      BY <2>1, <3>2, MountedOK
    <3> QED BY <3>1, <3>3 DEF EntryOK
  <2>3. CASE k \notin OnScreen(u)
    <3>1. cache'[k] = cache[k] /\ (k \in OnScreen(url')) = FALSE
      BY <1>2, <1>3, <2>3
    <3> QED BY <2>1, <3>1, HiddenOK
  <2>4. CASE k \in OnScreen(u) /\ k \in OnScreen(url)
    <3>1. cache'[k] = cache[k] /\ (k \in OnScreen(url')) = (k \in OnScreen(url))
      BY <1>2, <1>3, <2>4
    <3> QED BY <2>1, <3>1
  <2> QED BY <2>2, <2>3, <2>4
<1>5. DOMAIN cache' = Keys
  BY <1>3
<1>6. StoresOK' /\ CacheFits'
  BY <1>1, <1>2, <1>4, <1>5, CacheStep DEF StoresOK
<1>7. CallsFit(calls, d, bench, spent'["calls"])
  BY <1>2 DEF DeskInv, CallsFit
<1> QED BY <1>2, <1>6, <1>7, RenderFits, UnseenStays DEF DeskInv

LEMMA ClickInv ==
  ASSUME DeskInv, NEW d \in Desks, NEW b \in Benches, desk.busy => d.busy,
         bench.submitting => b.submitting, Click(d, b)
  PROVE  DeskInv'
<1>1. /\ UNCHANGED <<mock, tasks, gates, unseen, cache, url, behind, spent>>
      /\ Render(d, b, calls) /\ StoresOK /\ spent["calls"] <= Bounds["calls"]
  BY DEF Click, NoMove, NoNews, Rerender, DeskInv, StoresOK
<1>2. StoresOK' /\ CacheFits'
  BY <1>1, SpentStays, CacheStays
<1>3. CallsFit(calls, d, b, spent'["calls"])
  BY <1>1 DEF DeskInv, CallsFit
<1> QED BY <1>1, <1>2, <1>3, RenderFits, UnseenStays DEF DeskInv

LEMMA SendInv ==
  ASSUME DeskInv,
         NEW kind \in Kinds, NEW x \in Tasks \cup Gates \cup {"DRAFT", "READY"},
         kind = "create" => x \in {"DRAFT", "READY"},
         NEW d \in Desks, NEW b \in Benches,
         desk.busy => d.busy, bench.submitting => b.submitting,
         kind = "dispatch" => ~desk.busy /\ d.busy,
         kind \in {"approve", "reject"} => ~bench.submitting /\ b.submitting,
         kind = "create" => ~CreatePending,
         Send(kind, x, d, b)
  PROVE  DeskInv'
<1>1. UNCHANGED <<mock, tasks, gates, unseen, cache, url, behind>> /\ StoresOK /\ Spend("calls")
  BY DEF Send, NoMove, NoNews, DeskInv
<1>2. StoresOK' /\ CacheFits'
  BY <1>1, SpendCallType, CacheStays
<1>3. CallsFit(calls, desk, bench, spent["calls"]) /\ UnseenFit(calls, unseen)
  BY DEF DeskInv
<1> QED BY <1>1, <1>2, <1>3, MoreFit DEF DeskInv

-----------------------------------------------------------------------------
\* The operator.

LEMMA Dialogs ==
  ASSUME DeskInv
  PROVE  desk \in Desks /\ bench \in Benches /\ desk.busy \in BOOLEAN /\ bench.submitting \in BOOLEAN
BY DEF DeskInv, CallsFit, Desks, Benches

LEMMA ShownType ==
  ASSUME DeskInv
  PROVE  /\ url.page = "tasks" =>
              DOMAIN Shown \subseteq Tasks /\ \A t \in DOMAIN Shown : Shown[t] \in TaskStates
         /\ url.page = "approvals" =>
              DOMAIN Shown \subseteq Gates /\ \A g \in DOMAIN Shown : Shown[g] \in ApprovalStates
<1> DEFINE k == Primary(url)
<1>1. ASSUME url.page \in {"tasks", "approvals"}
      PROVE  /\ cache[k] \in Entries(ListsOf(k)) /\ k.of = url.page
  BY <1>1, ScreenKeys DEF DeskInv, StoresOK
<1>2. DOMAIN <<>> = {}
  OBVIOUS
<1>3. CASE url.page = "tasks"
  <2>1. cache[k].data \in Snapshots(Tasks, TaskStates) \cup {Absent}
    BY <1>1, <1>3, EntryFields DEF ListsOf
  <2> HIDE DEF k
  <2>2. Shown = IF cache[k].data = Absent THEN <<>> ELSE cache[k].data
    BY DEF Shown, List, k
  <2> QED BY <1>2, <1>3, <2>1, <2>2, SnapshotType
<1>4. CASE url.page = "approvals"
  <2>1. cache[k].data \in Snapshots(Gates, ApprovalStates) \cup {Absent}
    BY <1>1, <1>4, EntryFields DEF ListsOf
  <2> HIDE DEF k
  <2>2. Shown = IF cache[k].data = Absent THEN <<>> ELSE cache[k].data
    BY DEF Shown, List, k
  <2> QED BY <1>2, <1>4, <2>1, <2>2, SnapshotType
<1> QED BY <1>3, <1>4

LEMMA SelectedTypes ==
  ASSUME DeskInv
  PROVE  /\ SelectedTask # None => SelectedTask \in Tasks /\ url.page = "tasks"
         /\ SelectedGate # None => SelectedGate \in Gates /\ url.page = "approvals"
BY ShownType DEF SelectedTask, SelectedGate, Selected

LEMMA CandidateType ==
  ASSUME DeskInv, url.page = "tasks", NEW t \in DOMAIN Shown
  PROVE  Candidate(t) \in Desks /\ Candidate(t).busy = desk.busy
<1>1. t \in Tasks /\ Shown[t] \in TaskStates /\ desk \in Desks
  BY ShownType, Dialogs
<1> QED BY <1>1 DEF Candidate, Desks

LEMMA MovesInv ==
  ASSUME DeskInv,
         \/ Back \/ FollowLink \/ CloseTask \/ CloseGate \/ InspectTask
         \/ \E f \in TaskFilters \cup GateFilters : SetFilter(f)
         \/ \E t \in Tasks : SelectTask(t) \/ \E g \in Gates : ReviewApproval(t, g)
         \/ \E g \in Gates : SelectGate(g)
  PROVE  DeskInv'
<1>1. IsAddress(url) /\ IsAddress(behind) /\ desk \in Desks
  BY Dialogs DEF DeskInv, StoresOK
<1>2. ASSUME NEW u, IsAddress(u), Go(u, desk) PROVE DeskInv'
  BY <1>1, <1>2, GoInv
<1>3. ASSUME NEW x, url.page # "elsewhere", Go([url EXCEPT !.at = x], desk) PROVE DeskInv'
  BY <1>1, <1>2, <1>3, AddressMoves
<1>4. CASE Back
  BY <1>1, <1>2, <1>4 DEF Back
<1>5. CASE FollowLink
  BY <1>2, <1>5, Addresses DEF FollowLink
<1>6. CASE CloseTask
  BY <1>3, <1>6, SelectedTypes DEF CloseTask
<1>7. CASE CloseGate
  BY <1>3, <1>7, SelectedTypes DEF CloseGate
<1>8. CASE InspectTask
  BY <1>2, <1>8, Addresses DEF InspectTask
<1>9. ASSUME NEW f, SetFilter(f) PROVE DeskInv'
  <2>1. Key(url.page, f) \in Keys /\ Go([url EXCEPT !.by = f], desk)
    BY <1>9 DEF SetFilter
  <2>2. url.page # "elsewhere"
    <3>1. Key(url.page, f).of = url.page
      BY DEF Key
    <3> QED BY <2>1, <3>1, KeyTypes DEF Lists
  <2> QED BY <1>1, <1>2, <2>1, <2>2, AddressMoves
<1>10. ASSUME NEW t \in Tasks, SelectTask(t) PROVE DeskInv'
  BY <1>3, <1>10 DEF SelectTask
<1>11. ASSUME NEW t \in Tasks, NEW g \in Gates, ReviewApproval(t, g) PROVE DeskInv'
  BY <1>2, <1>11, Addresses DEF ReviewApproval
<1>12. ASSUME NEW g \in Gates, SelectGate(g) PROVE DeskInv'
  BY <1>3, <1>12 DEF SelectGate
<1> QED BY <1>4, <1>5, <1>6, <1>7, <1>8, <1>9, <1>10, <1>11, <1>12

LEMMA DispatchInv ==
  ASSUME DeskInv,
         \/ \E t \in Tasks : PrepareDispatch(t)
         \/ ConfirmDispatch \/ CancelDispatch \/ OpenDrawer \/ CloseDrawer
         \/ \E s \in {"DRAFT", "READY"} : CreateTask(s)
  PROVE  DeskInv'
<1>1. desk \in Desks /\ bench \in Benches /\ IsAddress(url)
  BY Dialogs DEF DeskInv, StoresOK
<1>2. ASSUME NEW d \in Desks, d.busy = desk.busy, Click(d, bench) PROVE DeskInv'
  BY <1>1, <1>2, ClickInv
<1>3. ASSUME NEW t \in Tasks, PrepareDispatch(t) PROVE DeskInv'
  <2>1. url.page = "tasks" /\ t \in DOMAIN Shown
        /\ (Click(Candidate(t), bench) \/ Go([url EXCEPT !.at = None], Candidate(t)))
    BY <1>3 DEF PrepareDispatch
  <2>2. Candidate(t) \in Desks /\ Candidate(t).busy = desk.busy
    BY <2>1, CandidateType
  <2>3. IsAddress([url EXCEPT !.at = None])
    BY <1>1, <2>1, AddressMoves
  <2> QED BY <1>2, <2>1, <2>2, <2>3, GoInv
<1>4. CASE ConfirmDispatch
  <2>1. desk.candidate \in Tasks /\ ~desk.busy
        /\ Send("dispatch", desk.candidate, [desk EXCEPT !.busy = TRUE], bench)
    BY <1>1, <1>4 DEF ConfirmDispatch, Desks
  <2>2. [desk EXCEPT !.busy = TRUE] \in Desks /\ [desk EXCEPT !.busy = TRUE].busy
    BY <1>1 DEF Desks
  <2> QED BY <1>1, <2>1, <2>2, SendInv DEF Kinds
<1>5. CASE CancelDispatch
  <2>1. [desk EXCEPT !.candidate = None, !.seen = None] \in Desks
        /\ [desk EXCEPT !.candidate = None, !.seen = None].busy = desk.busy
    BY <1>1 DEF Desks
  <2> QED BY <1>2, <1>5, <2>1 DEF CancelDispatch
<1>6. ASSUME NEW x \in BOOLEAN, Click([desk EXCEPT !.drawer = x], bench) PROVE DeskInv'
  <2>1. [desk EXCEPT !.drawer = x] \in Desks /\ [desk EXCEPT !.drawer = x].busy = desk.busy
    BY <1>1 DEF Desks
  <2> QED BY <1>2, <1>6, <2>1
<1>7. ASSUME NEW s \in {"DRAFT", "READY"}, CreateTask(s) PROVE DeskInv'
  <2>1. ~CreatePending /\ Send("create", s, desk, bench)
    BY <1>7 DEF CreateTask
  <2> QED BY <1>1, <2>1, SendInv DEF Kinds
<1> QED BY <1>3, <1>4, <1>5, <1>6, <1>7 DEF OpenDrawer, CloseDrawer

LEMMA DecideInv ==
  ASSUME DeskInv,
         \/ ClickApprove \/ TypePhrase \/ ConfirmApprove \/ CancelApprove
         \/ ClickReject \/ ConfirmReject \/ CancelReject
  PROVE  DeskInv'
<1>1. desk \in Desks /\ bench \in Benches
  BY Dialogs
<1>2. ASSUME NEW b \in Benches, b.submitting = bench.submitting, Click(desk, b) PROVE DeskInv'
  BY <1>1, <1>2, ClickInv
<1>3. ASSUME NEW kind \in {"approve", "reject"}, SelectedGate # None, ~Submitting,
             Send(kind, SelectedGate, desk, [bench EXCEPT !.submitting = TRUE])
      PROVE  DeskInv'
  <2>1. [bench EXCEPT !.submitting = TRUE] \in Benches /\ [bench EXCEPT !.submitting = TRUE].submitting
    BY <1>1 DEF Benches
  <2>2. SelectedGate \in Gates /\ kind \in Kinds
    BY <1>3, SelectedTypes DEF Kinds
  <2> QED BY <1>1, <1>3, <2>1, <2>2, SendInv DEF Submitting
<1>4. \A x \in BOOLEAN : /\ [bench EXCEPT !.approving = x] \in Benches
                         /\ [bench EXCEPT !.approving = x].submitting = bench.submitting
                         /\ [bench EXCEPT !.rejecting = x] \in Benches
                         /\ [bench EXCEPT !.rejecting = x].submitting = bench.submitting
                         /\ [bench EXCEPT !.typed = x] \in Benches
                         /\ [bench EXCEPT !.typed = x].submitting = bench.submitting
  BY <1>1 DEF Benches
<1>5. [bench EXCEPT !.approving = FALSE, !.typed = FALSE] \in Benches
      /\ [bench EXCEPT !.approving = FALSE, !.typed = FALSE].submitting = bench.submitting
  BY <1>1 DEF Benches
<1>6. CASE ClickApprove
  BY <1>2, <1>3, <1>4, <1>6 DEF ClickApprove, Undecided, Approve
<1>7. CASE TypePhrase
  BY <1>2, <1>4, <1>7 DEF TypePhrase
<1>8. CASE ConfirmApprove
  BY <1>3, <1>8 DEF ConfirmApprove, Approve
<1>9. CASE CancelApprove
  BY <1>2, <1>5, <1>9 DEF CancelApprove
<1>10. CASE ClickReject
  BY <1>2, <1>4, <1>10 DEF ClickReject
<1>11. CASE ConfirmReject
  BY <1>3, <1>11 DEF ConfirmReject
<1>12. CASE CancelReject
  BY <1>2, <1>4, <1>12 DEF CancelReject
<1> QED BY <1>6, <1>7, <1>8, <1>9, <1>10, <1>11, <1>12

-----------------------------------------------------------------------------
\* The network.

LEMMA QueryInv ==
  ASSUME DeskInv, NEW k \in Keys, NEW e \in Entries(ListsOf(k)),
         EntryOK(e, k \in OnScreen(url), Answer(k), unseen[k.of] = {}),
         spent' \in [{"moves", "calls", "mishaps"} -> Nat], spent'["calls"] = spent["calls"],
         Query(k, e)
  PROVE  DeskInv'
<1>1. /\ UNCHANGED <<mock, tasks, gates, unseen, url, behind>>
      /\ Render(desk, bench, calls) /\ cache' = [cache EXCEPT ![k] = e]
  BY DEF Query, NoMove, NoNews, Rerender
<1>2. StoresOK' /\ CacheFits'
  <2>1. DOMAIN cache' = Keys /\ IsAddress(url) /\ IsAddress(behind) /\ spent["calls"] <= Bounds["calls"]
    BY <1>1 DEF DeskInv, StoresOK
  <2>2. ASSUME NEW j \in Keys
        PROVE  /\ cache'[j] \in Entries(ListsOf(j))
               /\ EntryOK(cache'[j], j \in OnScreen(url), Answer(j), unseen[j.of] = {})
    <3>1. CASE j = k
      BY <1>1, <3>1 DEF DeskInv, StoresOK
    <3>2. CASE j # k
      BY <1>1, <3>2 DEF DeskInv, StoresOK, CacheFits
    <3> QED BY <3>1, <3>2
  <2> QED BY <1>1, <2>1, <2>2, CacheStep
<1>3. CallsFit(calls, desk, bench, spent'["calls"])
  BY DEF DeskInv
<1> QED BY <1>1, <1>2, <1>3, RenderFits, UnseenStays DEF DeskInv

LEMMA QueriesInv ==
  ASSUME DeskInv,
         Refresh \/ \E k \in Keys : ServeQuery(k) \/ LandQuery(k) \/ FailQuery(k)
  PROVE  DeskInv'
<1>1. StoresOK /\ \A k \in Keys :
        /\ cache[k] \in Entries(ListsOf(k)) /\ Answer(k) \in ListsOf(k)
        /\ EntryOK(cache[k], k \in OnScreen(url), Answer(k), unseen[k.of] = {})
  BY AnswerType DEF DeskInv, StoresOK, CacheFits
<1>2. CASE Refresh
  <2>1. Primary(url) \in Keys
    BY <1>2, ScreenKeys DEF Refresh, DeskInv, StoresOK
  <2>2. spent' \in [{"moves", "calls", "mishaps"} -> Nat] /\ spent'["calls"] = spent["calls"]
    BY <1>1, <1>2, SpendType DEF Refresh
  <2> DEFINE k == Primary(url)
  <2>3. Query(k, Refetched(cache[k]))
    BY <1>2 DEF Refresh
  <2> HIDE DEF k
  <2>4. /\ Refetched(cache[k]) \in Entries(ListsOf(k))
        /\ EntryOK(Refetched(cache[k]), k \in OnScreen(url), Answer(k), unseen[k.of] = {})
    BY <1>1, <2>1, RefetchedOK DEF k
  <2> QED BY <2>1, <2>2, <2>3, <2>4, QueryInv DEF k
<1>3. ASSUME NEW k \in Keys, ServeQuery(k) PROVE DeskInv'
  <2> DEFINE e == Served(cache[k], Answer(k))
  <2>1. Query(k, IF mock THEN Landed(e) ELSE e)
    BY <1>3 DEF ServeQuery
  <2>2. spent' \in [{"moves", "calls", "mishaps"} -> Nat] /\ spent'["calls"] = spent["calls"]
    BY <1>1, <1>3, SpentStays DEF ServeQuery
  <2>3. /\ e \in Entries(ListsOf(k)) /\ e.flight = "answered"
        /\ EntryOK(e, k \in OnScreen(url), Answer(k), unseen[k.of] = {})
    BY <1>1, ServedEntry, ServedOK
  <2> HIDE DEF e
  <2>4. /\ Landed(e) \in Entries(ListsOf(k))
        /\ EntryOK(Landed(e), k \in OnScreen(url), Answer(k), unseen[k.of] = {})
    BY <2>3, LandedEntry, LandedOK
  <2>5. Query(k, e) \/ Query(k, Landed(e))
    BY <2>1
  <2> QED BY <2>2, <2>3, <2>4, <2>5, QueryInv
<1>4. ASSUME NEW k \in Keys, LandQuery(k) PROVE DeskInv'
  <2>1. /\ Landed(cache[k]) \in Entries(ListsOf(k))
        /\ EntryOK(Landed(cache[k]), k \in OnScreen(url), Answer(k), unseen[k.of] = {})
    BY <1>1, <1>4, LandedEntry, LandedOK DEF LandQuery
  <2> QED BY <1>1, <1>4, <2>1, SpentStays, QueryInv DEF LandQuery
<1>5. ASSUME NEW k \in Keys, FailQuery(k) PROVE DeskInv'
  <2>1. spent' \in [{"moves", "calls", "mishaps"} -> Nat] /\ spent'["calls"] = spent["calls"]
    BY <1>1, <1>5, SpendType, SpentStays DEF FailQuery
  <2>2. Query(k, Failed(cache[k], k \in OnScreen(url)))
    BY <1>5 DEF FailQuery
  <2>3. (k \in OnScreen(url)) \in BOOLEAN
    OBVIOUS
  <2>4. /\ Failed(cache[k], k \in OnScreen(url)) \in Entries(ListsOf(k))
        /\ EntryOK(Failed(cache[k], k \in OnScreen(url)), k \in OnScreen(url), Answer(k),
                   unseen[k.of] = {})
    BY <1>1, <2>3, FailedEntry, FailedOK
  <2> QED BY <2>1, <2>2, <2>4, QueryInv
<1> QED BY <1>2, <1>3, <1>4, <1>5

\* The store changes, and what changed is on record until its list is invalidated.
LEMMA StoreStep ==
  ASSUME DeskInv, UNCHANGED <<mock, url, behind>>,
         spent' \in [{"moves", "calls", "mishaps"} -> Nat], spent'["calls"] = spent["calls"],
         tasks' \in [Tasks -> TaskStates \cup {Missing}], gates' \in [Gates -> ApprovalStates],
         unseen' \in [Lists -> SUBSET (0..spent["calls"])],
         NEW lists \in SUBSET Lists,
         (UNCHANGED cache /\ lists = {}) \/ Invalidate(lists),
         "tasks" \notin lists => UNCHANGED tasks \/ unseen'["tasks"] # {},
         "approvals" \notin lists => UNCHANGED gates \/ unseen'["approvals"] # {},
         \A l \in Lists \ lists : unseen'[l] = {} => unseen[l] = {}
  PROVE  StoresOK' /\ CacheFits'
<1>1. \A k \in Keys : /\ cache[k] \in Entries(ListsOf(k)) /\ k.of \in Lists
                      /\ EntryOK(cache[k], k \in OnScreen(url), Answer(k), unseen[k.of] = {})
  BY KeyTypes DEF DeskInv, StoresOK, CacheFits
<1>2. \A k \in Keys :
        cache'[k] = IF k.of \in lists THEN Invalidated(cache[k], k \in OnScreen(url)) ELSE cache[k]
  BY DEF Invalidate
<1>3. DOMAIN cache' = Keys
  BY DEF Invalidate, DeskInv, StoresOK
<1>4. OnScreen(url)' = OnScreen(url)
  BY DEF OnScreen, Primary, Key
<1>5. ASSUME NEW k \in Keys
      PROVE  /\ cache'[k] \in Entries(ListsOf(k))
             /\ EntryOK(cache'[k], k \in OnScreen(url), Answer(k)', unseen'[k.of] = {})
  <2>1. CASE k.of \in lists
    <3>1. (k \in OnScreen(url)) \in BOOLEAN
      OBVIOUS
    <3>2. cache'[k] = Invalidated(cache[k], k \in OnScreen(url))
      BY <1>2, <2>1
    <3>3. \A now, quiet : EntryOK(Invalidated(cache[k], k \in OnScreen(url)), k \in OnScreen(url),
                                  now, quiet)
      <4> TAKE now, quiet
      <4> DEFINE on == k \in OnScreen(url)
      <4>1. on \in BOOLEAN
        OBVIOUS
      <4> HIDE DEF on
      <4>2. EntryOK(Invalidated(cache[k], on), on, now, quiet)
        BY <1>1, <4>1, InvalidatedOK
      <4> QED BY <4>2 DEF on
    <3>4. Invalidated(cache[k], k \in OnScreen(url)) \in Entries(ListsOf(k))
      BY <1>1, <3>1, InvalidatedOK
    <3> QED BY <3>2, <3>3, <3>4
  <2>2. CASE k.of \notin lists /\ unseen'[k.of] = {}
    <3>1. unseen[k.of] = {} /\ cache'[k] = cache[k]
      BY <1>1, <1>2, <2>2
    <3>2. Answer(k)' = Answer(k)
      BY <1>1, <2>2 DEF Answer, Lists
    <3> QED BY <1>1, <2>2, <3>1, <3>2
  <2>3. CASE k.of \notin lists /\ unseen'[k.of] # {}
    <3>1. cache'[k] = cache[k]
      BY <1>2, <2>3
    <3>2. EntryOK(cache[k], k \in OnScreen(url), Answer(k)', FALSE)
      BY <1>1, LoudOK
    <3> QED BY <1>1, <2>3, <3>1, <3>2 DEF EntryOK
  <2> QED BY <2>1, <2>2, <2>3
<1>6. StoresOK'
  BY <1>3, <1>5 DEF DeskInv, StoresOK, ListsOf
<1> QED BY <1>4, <1>5, <1>6 DEF CacheFits

\* What a call does to the store.
LEMMA EffectType ==
  ASSUME DeskInv, NEW c \in calls, Effect(c)
  PROVE  /\ tasks' \in [Tasks -> TaskStates \cup {Missing}] /\ gates' \in [Gates -> ApprovalStates]
         /\ ~Accepts(c) => UNCHANGED <<tasks, gates>>
         /\ c.kind \in {"dispatch", "create"} => UNCHANGED gates
         /\ c.kind \in {"approve", "reject"} /\ ~mock => UNCHANGED tasks
         /\ \A g \in Gates : gates'[g] = gates[g] \/ (c.kind \in {"approve", "reject"} /\ g = c.of)
<1>1. /\ tasks \in [Tasks -> TaskStates \cup {Missing}] /\ gates \in [Gates -> ApprovalStates]
      /\ c.kind \in Kinds /\ (c.kind = "create" => c.of \in {"DRAFT", "READY"})
  BY DEF DeskInv, StoresOK, CallsFit, Calls
<1>2. CASE ~Accepts(c)
  <2>1. UNCHANGED <<tasks, gates>>
    BY <1>2, Zenon DEF Effect
  <2> QED BY <1>1, <2>1
<1>3. ASSUME Accepts(c), c.kind = "dispatch" PROVE tasks' = Dispatched(c) /\ UNCHANGED gates
  BY <1>3, Zenon DEF Effect
<1>4. ASSUME Accepts(c), c.kind = "create" PROVE tasks' = Created(c) /\ UNCHANGED gates
  <2>1. c.kind # "dispatch"
    BY <1>4
  <2> QED BY <1>4, <2>1, Zenon DEF Effect
<1>5. ASSUME Accepts(c), c.kind = "approve" PROVE Approved(c)
  <2>1. c.kind # "dispatch" /\ c.kind # "create"
    BY <1>5
  <2> QED BY <1>5, <2>1, Zenon DEF Effect
<1>6. ASSUME Accepts(c), c.kind = "reject" PROVE Rejected(c)
  <2>1. c.kind # "dispatch" /\ c.kind # "create" /\ c.kind # "approve"
    BY <1>6
  <2> QED BY <1>6, <2>1, Zenon DEF Effect
<1>7. Dispatched(c) \in [Tasks -> TaskStates \cup {Missing}]
  BY <1>1 DEF Dispatched, TaskStates
<1>8. c.kind = "create" => Created(c) \in [Tasks -> TaskStates \cup {Missing}]
  BY <1>1 DEF Created, TaskStates
<1>9. \A s \in {"RUNNING", "BLOCKED"} : Resumed(c, s) \in [Tasks -> TaskStates \cup {Missing}]
                                       /\ (~mock => Resumed(c, s) = tasks)
  BY <1>1 DEF Resumed, TaskStates
<1>10. \A s \in {"APPROVED", "REJECTED"} : [gates EXCEPT ![c.of] = s] \in [Gates -> ApprovalStates]
  BY <1>1 DEF ApprovalStates
<1>11. CASE Accepts(c) /\ c.kind = "dispatch"
  BY <1>1, <1>3, <1>7, <1>11
<1>12. CASE Accepts(c) /\ c.kind = "create"
  BY <1>1, <1>4, <1>8, <1>12
<1>13. CASE Accepts(c) /\ c.kind = "approve"
  BY <1>1, <1>5, <1>9, <1>10, <1>13 DEF Approved
<1>14. CASE Accepts(c) /\ c.kind = "reject"
  BY <1>1, <1>6, <1>9, <1>10, <1>14 DEF Rejected
<1> QED BY <1>1, <1>2, <1>11, <1>12, <1>13, <1>14 DEF Kinds

LEMMA AfterTypes ==
  ASSUME DeskInv, NEW c \in calls, NEW ok \in BOOLEAN
  PROVE  /\ DeskAfter(c, ok) \in Desks /\ BenchAfter(c) \in Benches
         /\ DeskAfter(c, ok).busy = IF c.kind = "dispatch" THEN desk.busy /\ ~c.body ELSE desk.busy
         /\ BenchAfter(c).submitting =
              IF c.kind \in {"approve", "reject"} THEN bench.submitting /\ ~c.body
              ELSE bench.submitting
<1>1. desk \in Desks /\ bench \in Benches /\ c.body \in BOOLEAN /\ c.page \in BOOLEAN
      /\ c.kind \in Kinds /\ desk.busy \in BOOLEAN /\ bench.submitting \in BOOLEAN
  BY Dialogs DEF DeskInv, CallsFit, Calls
<1>2. /\ DeskAfter(c, ok) \in Desks
      /\ DeskAfter(c, ok).busy = IF c.kind = "dispatch" THEN desk.busy /\ ~c.body ELSE desk.busy
  <2> DEFINE closed(x, y, z) == [desk EXCEPT !.busy = @ /\ x, !.candidate = y, !.seen = z]
             shut(x) == [desk EXCEPT !.drawer = @ /\ x]
  <2>1. ASSUME NEW x \in BOOLEAN, NEW y \in {None, desk.candidate}, NEW z \in {None, desk.seen}
        PROVE  /\ closed(x, y, z) \in Desks
               /\ closed(x, y, z).busy = (desk.busy /\ x)
    BY <1>1 DEF Desks
  <2>2. ASSUME NEW x \in BOOLEAN PROVE shut(x) \in Desks /\ shut(x).busy = desk.busy
    BY <1>1 DEF Desks
  <2> DEFINE y == IF ok /\ c.page THEN None ELSE desk.candidate
             z == IF ok /\ c.page THEN None ELSE desk.seen
  <2>3. y \in {None, desk.candidate} /\ z \in {None, desk.seen}
    OBVIOUS
  <2>4. ASSUME c.kind = "dispatch" PROVE DeskAfter(c, ok) = closed(~c.body, y, z)
    BY <2>4, Zenon DEF DeskAfter
  <2>5. ASSUME c.kind # "dispatch", c.kind = "create" /\ ok PROVE DeskAfter(c, ok) = shut(~c.page)
    BY <2>5, Zenon DEF DeskAfter
  <2>6. ASSUME c.kind # "dispatch", ~(c.kind = "create" /\ ok) PROVE DeskAfter(c, ok) = desk
    BY <2>6, Zenon DEF DeskAfter
  <2>7. (~c.body) \in BOOLEAN /\ (~c.page) \in BOOLEAN
    OBVIOUS
  <2> HIDE DEF closed, shut, y, z
  <2>8. CASE c.kind = "dispatch"
    BY <2>1, <2>3, <2>4, <2>7, <2>8
  <2>9. CASE c.kind # "dispatch" /\ (c.kind = "create" /\ ok)
    BY <2>2, <2>5, <2>7, <2>9
  <2>10. CASE c.kind # "dispatch" /\ ~(c.kind = "create" /\ ok)
    BY <1>1, <2>6, <2>10
  <2> QED BY <2>8, <2>9, <2>10
<1>3. /\ BenchAfter(c) \in Benches
      /\ BenchAfter(c).submitting =
           IF c.kind \in {"approve", "reject"} THEN bench.submitting /\ ~c.body
           ELSE bench.submitting
  <2> DEFINE cleared(x, y, z) == [bench EXCEPT !.submitting = FALSE, !.approving = @ /\ x,
                                               !.rejecting = @ /\ y, !.typed = @ /\ z]
  <2>1. ASSUME NEW x \in BOOLEAN, NEW y \in BOOLEAN, NEW z \in BOOLEAN
        PROVE  cleared(x, y, z) \in Benches /\ cleared(x, y, z).submitting = FALSE
    BY <1>1 DEF Benches
  <2>2. CASE c.kind \in {"approve", "reject"} /\ c.body
    <3>1. BenchAfter(c) = cleared(c.kind = "reject", c.kind = "approve", c.kind = "reject")
      BY <2>2 DEF BenchAfter
    <3>2. (c.kind = "reject") \in BOOLEAN /\ (c.kind = "approve") \in BOOLEAN
      OBVIOUS
    <3> HIDE DEF cleared
    <3> QED BY <2>1, <2>2, <3>1, <3>2
  <2>3. CASE ~(c.kind \in {"approve", "reject"} /\ c.body)
    BY <1>1, <2>3 DEF BenchAfter
  <2> QED BY <2>2, <2>3
<1> QED BY <1>2, <1>3

\* The calls that stay beside an answered one.
LEMMA SettleFits ==
  ASSUME DeskInv, NEW c \in calls, NEW ok \in BOOLEAN, Settle(c, ok)
  PROVE  /\ CallsFit(calls', desk', bench', spent["calls"])
         /\ \A e \in calls' : \E a \in calls \ {c} : e.n = a.n /\ e.kind = a.kind /\ e.st = a.st
<1> DEFINE d == DeskAfter(c, ok)
           b == BenchAfter(c)
<1>1. CallsFit(calls, desk, bench, spent["calls"])
  BY DEF DeskInv
<1>2. \A e \in calls \ {c} : e.body => /\ e.kind = "dispatch" => d.busy
                                       /\ e.kind \in {"approve", "reject"} => b.submitting
  <2>1. \A e \in calls \ {c} : e.body /\ c.body => DialogOf(c.kind) # DialogOf(e.kind)
    BY <1>1 DEF CallsFit
  <2>2. \A e \in calls : e.body => /\ e.kind = "dispatch" => desk.busy
                                   /\ e.kind \in {"approve", "reject"} => bench.submitting
    BY <1>1 DEF CallsFit
  <2> HIDE DEF d, b
  <2> QED BY <2>1, <2>2, AfterTypes DEF DialogOf, d, b
<1>3. d \in Desks /\ b \in Benches
  BY AfterTypes
<1>4. Render(d, b, calls \ {c})
  BY DEF Settle
<1> HIDE DEF d, b
<1>5. CallsFit(calls \ {c}, d, b, spent["calls"])
  BY <1>1, <1>2, <1>3, FewerFit
<1> QED BY <1>4, <1>5, RenderFits

\* A call answered or given up: what of the store it changed is invalidated, or stays on record.
LEMMA SettleInv ==
  ASSUME DeskInv, NEW c \in calls, NEW ok \in BOOLEAN, Settle(c, ok), UNCHANGED mock,
         spent' \in [{"moves", "calls", "mishaps"} -> Nat], spent'["calls"] = spent["calls"],
         tasks' \in [Tasks -> TaskStates \cup {Missing}], gates' \in [Gates -> ApprovalStates],
         unseen' \in [Lists -> SUBSET (0..spent["calls"])],
         \A l \in Lists : unseen'[l] \subseteq unseen[l],
         ~(ok /\ "tasks" \in Invalidates(c.kind)) => UNCHANGED tasks,
         ~(ok /\ "approvals" \in Invalidates(c.kind)) => UNCHANGED gates,
         \A l \in Lists : ~(ok /\ l \in Invalidates(c.kind)) => unseen'[l] = unseen[l]
  PROVE  DeskInv'
<1> DEFINE lists == IF ok THEN Invalidates(c.kind) ELSE {}
<1>1. lists \in SUBSET Lists
  BY DEF Invalidates, Lists
<1>2. (UNCHANGED cache /\ lists = {}) \/ Invalidate(lists)
  BY DEF Settle
<1>3. UNCHANGED <<url, behind>>
  BY DEF Settle, NoMove
<1>4. \A l : l \in lists <=> ok /\ l \in Invalidates(c.kind)
  OBVIOUS
<1> HIDE DEF lists
<1>5. StoresOK' /\ CacheFits'
  BY <1>1, <1>2, <1>3, <1>4, StoreStep
<1>6. UnseenFit(calls, unseen')
  BY DEF DeskInv, UnseenFit
<1>7. UnseenFit(calls', unseen')
  <2>1. \A e \in calls' : \E a \in calls : e.n = a.n /\ e.kind = a.kind /\ e.st = a.st
    BY SettleFits
  <2> QED BY <1>6, <2>1, UnseenStays
<1> QED BY <1>5, <1>7, SettleFits DEF DeskInv

LEMMA ServeCallInv ==
  ASSUME DeskInv, NEW c \in calls, ServeCall(c)
  PROVE  DeskInv'
<1>1. /\ ~mock /\ c.st \in {"sent", "read"} /\ Effect(c)
      /\ UNCHANGED <<mock, url, behind, cache, desk, bench, spent>>
      /\ c \in Calls /\ c.n \in 1..spent["calls"] /\ spent["calls"] \in Nat
  <2>1. c \in Calls /\ c.n <= spent["calls"] /\ spent["calls"] \in Nat
    BY DEF DeskInv, CallsFit, StoresOK
  <2>2. c.n \in 1..Bounds["calls"] /\ Bounds["calls"] \in Nat
    BY <2>1, DeskAssumption DEF Calls
  <2> QED BY <2>1, <2>2 DEF ServeCall, NoMove
<1> DEFINE list == IF c.kind \in {"approve", "reject"} THEN "approvals" ELSE "tasks"
           after == [c EXCEPT !.st = IF Accepts(c) THEN "ok" ELSE "refused"]
<1>2. \A l \in Lists : unseen'[l] = IF Accepts(c) /\ l = list THEN unseen[l] \cup {c.n} ELSE unseen[l]
  BY DEF ServeCall, Lists
<1>3. unseen' \in [Lists -> SUBSET (0..spent["calls"])]
  <2>1. unseen' = [l \in Lists |-> unseen'[l]]
    BY DEF ServeCall, Lists
  <2>2. \A l \in Lists : unseen[l] \in SUBSET (0..spent["calls"])
    BY DEF DeskInv, StoresOK
  <2>3. \A l \in Lists : unseen'[l] \in SUBSET (0..spent["calls"])
    <3>1. {c.n} \subseteq 0..spent["calls"]
      BY <1>1
    <3>2. \A l \in Lists : unseen'[l] \in {unseen[l], unseen[l] \cup {c.n}}
      BY <1>2
    <3> QED BY <2>2, <3>1, <3>2
  <2> QED BY <2>1, <2>3
<1>4. /\ after \in Calls /\ after.n = c.n /\ after.kind = c.kind /\ after.of = c.of
      /\ after.page = c.page /\ after.body = c.body
      /\ after.st = IF Accepts(c) THEN "ok" ELSE "refused"
  BY <1>1 DEF Calls
<1>5. calls' = (calls \ {c}) \cup {after}
  BY DEF ServeCall
<1>6. list \in Invalidates(c.kind)
  BY DEF Invalidates
<1>7. /\ list = "tasks" => UNCHANGED gates \/ ~Accepts(c)
      /\ list = "approvals" => UNCHANGED tasks
      /\ ~Accepts(c) => UNCHANGED <<tasks, gates>>
  <2>1. c.kind \in Kinds
    BY <1>1 DEF Calls
  <2> QED BY <1>1, <2>1, EffectType DEF Kinds
<1>8. list \in Lists
  BY DEF Lists
<1> HIDE DEF after, list
<1>9. StoresOK' /\ CacheFits'
  <2>1. /\ UNCHANGED tasks \/ unseen'["tasks"] # {}
        /\ UNCHANGED gates \/ unseen'["approvals"] # {}
    BY <1>2, <1>7, <1>8 DEF Lists
  <2>2. \A l \in Lists : unseen'[l] = {} => unseen[l] = {}
    BY <1>2
  <2>3. spent' \in [{"moves", "calls", "mishaps"} -> Nat] /\ spent'["calls"] = spent["calls"]
    BY <1>1 DEF DeskInv, StoresOK
  <2>4. {} \in SUBSET Lists
    OBVIOUS
  <2> QED BY <1>1, <1>3, <2>1, <2>2, <2>3, <2>4, EffectType, StoreStep
<1>10. CallsFit(calls', desk', bench', spent'["calls"])
  <2>1. CallsFit(calls, desk, bench, spent["calls"])
    BY DEF DeskInv
  <2>2. \A e \in calls' : \E a \in calls :
          /\ e.n = a.n /\ e.kind = a.kind /\ e.of = a.of /\ e.page = a.page /\ e.body = a.body
          /\ (a = c => e = after) /\ (a # c => e = a)
    BY <1>4, <1>5
  <2>3. calls' \subseteq Calls
    BY <1>4, <1>5, <2>1 DEF CallsFit
  <2>4. \A e, a \in calls' : e.n = a.n => e = a
    BY <2>1, <2>2 DEF CallsFit
  <2>5. \A e, a \in calls' : e.body /\ a.body /\ DialogOf(e.kind) = DialogOf(a.kind) => e = a
    BY <2>1, <2>2 DEF CallsFit
  <2> QED BY <1>1, <2>1, <2>2, <2>3, <2>4, <2>5 DEF CallsFit
<1>11. UnseenFit(calls', unseen')
  <2>1. ASSUME NEW l \in Lists, c.n \in unseen[l] PROVE FALSE
    BY <1>1, <2>1 DEF DeskInv, UnseenFit
  <2>2. \A e \in calls \ {c} : e.n # c.n
    BY DEF DeskInv, CallsFit
  <2>3. \A e \in calls \ {c}, l \in Lists : e.n \in unseen'[l] => e.n \in unseen[l]
    BY <1>2, <2>2
  <2>4. \A e \in calls \ {c}, l \in Lists : e.n \in unseen'[l] => e.st = "ok" /\ l \in Invalidates(e.kind)
    BY <2>3 DEF DeskInv, UnseenFit
  <2>5. \A l \in Lists : after.n \in unseen'[l] => after.st = "ok" /\ l \in Invalidates(after.kind)
    BY <1>2, <1>4, <1>6, <2>1
  <2> QED BY <1>5, <2>4, <2>5 DEF UnseenFit
<1> QED BY <1>9, <1>10, <1>11 DEF DeskInv

LEMMA ReadTaskInv ==
  ASSUME DeskInv, NEW c \in calls, ReadTask(c)
  PROVE  DeskInv'
<1> DEFINE after == [c EXCEPT !.st = "read"]
<1>1. /\ c.st = "sent" /\ calls' = (calls \ {c}) \cup {after}
      /\ UNCHANGED <<mock, tasks, gates, unseen, url, behind, cache, desk, bench, spent>>
      /\ c \in Calls
  BY DEF ReadTask, NoMove, NoNews, DeskInv, CallsFit
<1>2. /\ after \in Calls /\ after.n = c.n /\ after.kind = c.kind /\ after.of = c.of
      /\ after.page = c.page /\ after.body = c.body /\ after.st = "read"
  BY <1>1 DEF Calls
<1> HIDE DEF after
<1>3. StoresOK' /\ CacheFits'
  <2>1. /\ tasks' \in [Tasks -> TaskStates \cup {Missing}] /\ gates' \in [Gates -> ApprovalStates]
        /\ unseen' \in [Lists -> SUBSET (0..spent["calls"])]
        /\ spent' \in [{"moves", "calls", "mishaps"} -> Nat] /\ spent'["calls"] = spent["calls"]
    BY <1>1 DEF DeskInv, StoresOK
  <2>2. {} \in SUBSET Lists
    OBVIOUS
  <2> QED BY <1>1, <2>1, <2>2, StoreStep
<1>4. CallsFit(calls', desk', bench', spent'["calls"])
  <2>1. CallsFit(calls, desk, bench, spent["calls"])
    BY DEF DeskInv
  <2>2. \A e \in calls' : \E a \in calls :
          /\ e.n = a.n /\ e.kind = a.kind /\ e.of = a.of /\ e.page = a.page /\ e.body = a.body
          /\ (a = c => e = after) /\ (a # c => e = a)
    BY <1>1, <1>2
  <2>3. calls' \subseteq Calls
    BY <1>1, <1>2, <2>1 DEF CallsFit
  <2>4. \A e, a \in calls' : e.n = a.n => e = a
    BY <2>1, <2>2 DEF CallsFit
  <2>5. \A e, a \in calls' : e.body /\ a.body /\ DialogOf(e.kind) = DialogOf(a.kind) => e = a
    BY <2>1, <2>2 DEF CallsFit
  <2> QED BY <1>1, <2>1, <2>2, <2>3, <2>4, <2>5 DEF CallsFit
<1>5. UnseenFit(calls', unseen')
  <2>1. \A l \in Lists : c.n \notin unseen[l]
    BY <1>1 DEF DeskInv, UnseenFit
  <2> QED BY <1>1, <1>2, <2>1 DEF DeskInv, UnseenFit
<1> QED BY <1>3, <1>4, <1>5 DEF DeskInv

LEMMA LandCallInv ==
  ASSUME DeskInv, NEW c \in calls, LandCall(c)
  PROVE  DeskInv'
<1> DEFINE ok == c.st = "ok"
<1>1. /\ c.st \in {"ok", "refused"} /\ Settle(c, ok) /\ ok \in BOOLEAN
      /\ UNCHANGED <<mock, tasks, gates, spent>>
      /\ unseen' = [l \in Lists |-> unseen[l] \ {c.n}]
  BY DEF LandCall, Lists
<1>2. \A l \in Lists : unseen[l] \in SUBSET (0..spent["calls"])
  BY DEF DeskInv, StoresOK
<1>3. \A l \in Lists : ~(ok /\ l \in Invalidates(c.kind)) => unseen'[l] = unseen[l]
  BY <1>1 DEF DeskInv, UnseenFit
<1>4. /\ unseen' \in [Lists -> SUBSET (0..spent["calls"])]
      /\ \A l \in Lists : unseen'[l] \subseteq unseen[l]
  BY <1>1, <1>2
<1>5. /\ tasks' \in [Tasks -> TaskStates \cup {Missing}] /\ gates' \in [Gates -> ApprovalStates]
      /\ spent' \in [{"moves", "calls", "mishaps"} -> Nat] /\ spent'["calls"] = spent["calls"]
  BY <1>1 DEF DeskInv, StoresOK
<1> HIDE DEF ok
<1> QED BY <1>1, <1>3, <1>4, <1>5, SettleInv

LEMMA LoseCallInv ==
  ASSUME DeskInv, NEW c \in calls, LoseCall(c)
  PROVE  DeskInv'
<1>1. Settle(c, FALSE) /\ UNCHANGED <<mock, tasks, gates, unseen>> /\ Spend("mishaps") /\ StoresOK
  BY DEF LoseCall, NoNews, DeskInv
<1>2. spent' \in [{"moves", "calls", "mishaps"} -> Nat] /\ spent'["calls"] = spent["calls"]
  BY <1>1, SpendType
<1>3. /\ tasks' \in [Tasks -> TaskStates \cup {Missing}] /\ gates' \in [Gates -> ApprovalStates]
      /\ unseen' \in [Lists -> SUBSET (0..spent["calls"])]
  BY <1>1 DEF StoresOK
<1> QED BY <1>1, <1>2, <1>3, SettleInv

LEMMA MockCallInv ==
  ASSUME DeskInv, NEW c \in calls, MockCall(c)
  PROVE  DeskInv'
<1> DEFINE ok == Accepts(c)
<1>1. mock /\ Effect(c) /\ Settle(c, ok) /\ UNCHANGED <<mock, unseen, spent>>
  BY DEF MockCall
<1>2. /\ unseen' \in [Lists -> SUBSET (0..spent["calls"])]
      /\ spent' \in [{"moves", "calls", "mishaps"} -> Nat] /\ spent'["calls"] = spent["calls"]
      /\ c.kind \in Kinds
  BY <1>1 DEF DeskInv, StoresOK, CallsFit, Calls
<1>3. ok \in BOOLEAN
  <2>1. CASE c.kind = "dispatch"
    <3>1. ok = (c.st = "read" \/ Dispatchable(tasks[c.of]))
      BY <2>1, Zenon DEF Accepts
    <3> QED BY <3>1
  <2>2. CASE c.kind \in {"approve", "reject"}
    <3>1. c.kind # "dispatch"
      BY <2>2
    <3>2. ok = IF mock THEN c.of \notin FailingGates ELSE gates[c.of] \notin Resolved
      BY <2>2, <3>1, Zenon DEF Accepts
    <3> QED BY <3>2
  <2>3. CASE c.kind = "create"
    <3>1. c.kind # "dispatch" /\ c.kind \notin {"approve", "reject"}
      BY <2>3
    <3>2. ok = TRUE
      BY <2>3, <3>1, Zenon DEF Accepts
    <3> QED BY <3>2
  <2> QED BY <1>2, <2>1, <2>2, <2>3 DEF Kinds
<1>4. /\ ~(ok /\ "tasks" \in Invalidates(c.kind)) => UNCHANGED tasks
      /\ ~(ok /\ "approvals" \in Invalidates(c.kind)) => UNCHANGED gates
  BY <1>1, <1>2, EffectType DEF Invalidates, Kinds
<1>5. tasks' \in [Tasks -> TaskStates \cup {Missing}] /\ gates' \in [Gates -> ApprovalStates]
  BY <1>1, EffectType
<1> HIDE DEF ok
<1> QED BY <1>1, <1>2, <1>3, <1>4, <1>5, SettleInv

LEMMA CallsInv ==
  ASSUME DeskInv, CallSteps \/ \E c \in calls : LoseCall(c)
  PROVE  DeskInv'
BY ReadTaskInv, ServeCallInv, LandCallInv, LoseCallInv, MockCallInv DEF CallSteps

\* Others change the store, and a delta of the stream tells of it.
LEMMA ChangeInv ==
  ASSUME DeskInv, Change
  PROVE  DeskInv'
<1>1. /\ StoresOK /\ UNCHANGED <<mock, cache, url, behind, desk, bench, calls>> /\ Spend("mishaps")
      /\ spent["calls"] \in Nat /\ unseen \in [Lists -> SUBSET (0..spent["calls"])]
      /\ tasks \in [Tasks -> TaskStates \cup {Missing}] /\ gates \in [Gates -> ApprovalStates]
  BY DEF Change, DeskInv, StoresOK
<1>2. spent' \in [{"moves", "calls", "mishaps"} -> Nat] /\ spent'["calls"] = spent["calls"]
  BY <1>1, SpendType
<1>3. PICK list \in Lists :
        /\ unseen' = [unseen EXCEPT ![list] = @ \cup {0}]
        /\ tasks' \in [Tasks -> TaskStates \cup {Missing}] /\ gates' \in [Gates -> ApprovalStates]
        /\ list = "tasks" => UNCHANGED gates
        /\ list = "approvals" => UNCHANGED tasks
  <2>1. ASSUME NEW t \in Tasks, NEW s \in Progress(tasks[t]) \cap News,
               tasks' = [tasks EXCEPT ![t] = s], unseen' = [unseen EXCEPT !["tasks"] = @ \cup {0}],
               UNCHANGED gates
        PROVE  /\ "tasks" \in Lists
               /\ tasks' \in [Tasks -> TaskStates \cup {Missing}] /\ gates' \in [Gates -> ApprovalStates]
    <3>1. s \in TaskStates
      <4>1. \A z : Progress(z) \subseteq TaskStates
        BY DEF Progress, TaskStates
      <4> QED BY <2>1, <4>1
    <3> QED BY <1>1, <2>1, <3>1 DEF Lists
  <2>2. ASSUME NEW g \in Gates, NEW s \in {"APPROVED", "EXPIRED"} \cap News,
               gates' = [gates EXCEPT ![g] = s], unseen' = [unseen EXCEPT !["approvals"] = @ \cup {0}],
               UNCHANGED tasks
        PROVE  /\ "approvals" \in Lists
               /\ tasks' \in [Tasks -> TaskStates \cup {Missing}] /\ gates' \in [Gates -> ApprovalStates]
    BY <1>1, <2>2 DEF Lists, ApprovalStates
  <2> QED BY <2>1, <2>2 DEF Change
<1>4. /\ unseen' \in [Lists -> SUBSET (0..spent["calls"])] /\ 0 \in unseen'[list]
      /\ \A l \in Lists : unseen[l] \subseteq unseen'[l] /\ unseen'[l] \subseteq unseen[l] \cup {0}
  BY <1>1, <1>3
<1>5. StoresOK' /\ CacheFits'
  <2>1. {} \in SUBSET Lists
    OBVIOUS
  <2>2. \A l \in Lists : unseen'[l] = {} => unseen[l] = {}
    BY <1>4
  <2>3. /\ UNCHANGED tasks \/ unseen'["tasks"] # {}
        /\ UNCHANGED gates \/ unseen'["approvals"] # {}
    BY <1>3, <1>4 DEF Lists
  <2> QED BY <1>1, <1>2, <1>3, <1>4, <2>1, <2>2, <2>3, StoreStep
<1>6. UnseenFit(calls, unseen')
  <2>1. \A c \in calls : c.n # 0
    BY DEF DeskInv, CallsFit, Calls
  <2> QED BY <1>4, <2>1 DEF DeskInv, UnseenFit
<1> QED BY <1>1, <1>2, <1>5, <1>6 DEF DeskInv

LEMMA HearDeltaInv ==
  ASSUME DeskInv, NEW list \in Lists, HearDelta(list)
  PROVE  DeskInv'
<1>1. /\ UNCHANGED <<mock, tasks, gates, spent, url, behind>> /\ Render(desk, bench, calls)
      /\ Invalidate({list}) /\ unseen' = [unseen EXCEPT ![list] = @ \ {0}]
      /\ unseen \in [Lists -> SUBSET (0..spent["calls"])]
  BY DEF HearDelta, NoMove, Rerender, DeskInv, StoresOK
<1>2. /\ unseen' \in [Lists -> SUBSET (0..spent["calls"])]
      /\ \A l \in Lists : unseen'[l] \subseteq unseen[l] /\ (l # list => unseen'[l] = unseen[l])
  BY <1>1
<1>3. /\ tasks' \in [Tasks -> TaskStates \cup {Missing}] /\ gates' \in [Gates -> ApprovalStates]
      /\ spent' \in [{"moves", "calls", "mishaps"} -> Nat] /\ spent'["calls"] = spent["calls"]
  BY <1>1 DEF DeskInv, StoresOK
<1>4. StoresOK' /\ CacheFits'
  <2>1. {list} \in SUBSET Lists
    OBVIOUS
  <2> QED BY <1>1, <1>2, <1>3, <2>1, StoreStep
<1>5. UnseenFit(calls, unseen')
  BY <1>2 DEF DeskInv, UnseenFit
<1>6. CallsFit(calls, desk, bench, spent'["calls"])
  BY <1>1 DEF DeskInv
<1> QED BY <1>1, <1>4, <1>5, <1>6, RenderFits, UnseenStays DEF DeskInv

-----------------------------------------------------------------------------
\* The invariant.

LEMMA EmptyFits ==
  ASSUME NEW S
  PROVE  /\ EmptyEntry \in Entries(S)
         /\ EmptyEntry.flight = "idle" /\ EmptyEntry.data = Absent /\ ~EmptyEntry.invalid
<1>1. \A z \in 0..Retries :
        LET e == [data |-> Absent, invalid |-> FALSE, error |-> FALSE, flight |-> "idle",
                  answer |-> Absent, tries |-> z, late |-> FALSE]
        IN  e \in Entries(S) /\ e.flight = "idle" /\ e.data = Absent /\ ~e.invalid
  BY DEF Entries
<1>2. 0 \in 0..Retries
  BY RetriesAssumption
<1> QED BY <1>1, <1>2, Zenon DEF EmptyEntry

LEMMA DeskInit ==
  ASSUME Init
  PROVE  DeskInv
<1>1. /\ mock \in BOOLEAN /\ calls = {} /\ unseen = [l \in Lists |-> {}]
      /\ tasks \in [Tasks -> TaskStates \cup {Missing}] /\ gates \in [Gates -> ApprovalStates]
      /\ IsAddress(url) /\ IsAddress(behind)
      /\ spent \in [{"moves", "calls", "mishaps"} -> Nat]
      /\ spent["calls"] = 0 /\ Bounds["calls"] \in Nat
      /\ DOMAIN cache = Keys
  BY DeskAssumption, AddressAssumption, Addresses DEF Init, Lists
<1>2. desk \in Desks /\ bench \in Benches
  BY DEF Init, NoDesk, NoBench, Desks, Benches
<1>3. \A k \in Keys : Answer(k) \in ListsOf(k)
  BY AnswerType
<1>4. ASSUME NEW k \in Keys
      PROVE  /\ cache[k] \in Entries(ListsOf(k))
             /\ EntryOK(cache[k], k \in OnScreen(url), Answer(k), unseen[k.of] = {})
  <2>1. CASE k \in OnScreen(url)
    <3> DEFINE e == Mounted(EmptyEntry, FALSE)
               a == Served(e, Answer(k))
    <3>1. cache[k] = Landed(a)
      BY <2>1 DEF Init
    <3>2. e = Asked(EmptyEntry)
      BY EmptyFits DEF Mounted
    <3>3. e \in Entries(ListsOf(k))
      BY <3>2, EmptyFits, AskedEntry
    <3> HIDE DEF e
    <3>4. a \in Entries(ListsOf(k)) /\ a.flight = "answered"
      BY <1>3, <3>3, ServedEntry
    <3>5. \A on, quiet : EntryOK(a, on, Answer(k), quiet)
      BY <1>3, <3>3, ServedOK
    <3> HIDE DEF a
    <3>6. \A on, quiet : EntryOK(Landed(a), on, Answer(k), quiet)
      BY <3>4, <3>5, LandedOK
    <3>7. Landed(a) \in Entries(ListsOf(k))
      BY <3>4, LandedEntry
    <3> QED BY <3>1, <3>6, <3>7
  <2>2. CASE k \notin OnScreen(url)
    <3>1. cache[k] = EmptyEntry
      BY <2>2 DEF Init
    <3> QED BY <2>2, <3>1, EmptyFits DEF EntryOK
  <2> QED BY <2>1, <2>2
<1>5. unseen \in [Lists -> SUBSET (0..spent["calls"])]
  BY <1>1
<1>6. StoresOK
  BY <1>1, <1>4, <1>5 DEF StoresOK
<1>7. CallsFit(calls, desk, bench, spent["calls"]) /\ UnseenFit(calls, unseen)
  BY <1>1, <1>2 DEF CallsFit, UnseenFit
<1> QED BY <1>4, <1>6, <1>7 DEF DeskInv, CacheFits

LEMMA DeskStep ==
  ASSUME DeskInv, [Next]_vars
  PROVE  DeskInv'
<1>1. CASE Operator
  BY <1>1, MovesInv, DispatchInv, DecideInv, QueriesInv DEF Operator
<1>2. CASE CallSteps \/ Network
  BY <1>2, CallsInv, QueriesInv, ChangeInv, HearDeltaInv DEF Network, Lists
<1>3. CASE UNCHANGED vars
  <2>1. UNCHANGED <<mock, tasks, gates, cache, url, behind, desk, bench, calls, unseen, spent>>
    BY <1>3 DEF vars
  <2>2. spent' \in [{"moves", "calls", "mishaps"} -> Nat] /\ spent["calls"] <= Bounds["calls"]
    BY <2>1 DEF DeskInv, StoresOK
  <2>3. StoresOK' /\ CacheFits'
    BY <2>1, <2>2, CacheStays
  <2> QED BY <2>1, <2>3 DEF DeskInv
<1> QED BY <1>1, <1>2, <1>3 DEF Next

\* Types, calls beside their dialogs, changes on record and the cache fit together in
\* every reachable state, with the server or the mock provider behind the pages.
THEOREM DeskInvariance == Spec => []DeskInv
<1>1. DeskInv /\ [Next]_vars => DeskInv'
  BY DeskStep
<1> QED BY <1>1, DeskInit, PTL DEF Spec

\* Every variable of the two pages holds what the pages and the store can put there.
THEOREM DeskTypeCorrect == Spec => []DeskTypeOK
<1>1. DeskInv => DeskTypeOK
  <2> SUFFICES ASSUME DeskInv PROVE DeskTypeOK
    OBVIOUS
  <2>1. /\ mock \in BOOLEAN /\ tasks \in [Tasks -> TaskStates \cup {Missing}]
        /\ gates \in [Gates -> ApprovalStates]
        /\ IsAddress(url)
    BY DEF DeskInv, StoresOK
  <2>2. \A k \in Keys : cache[k] \in Entries(IF k.of = "tasks"
                                             THEN Snapshots(Tasks, TaskStates)
                                             ELSE Snapshots(Gates, ApprovalStates))
    BY DEF DeskInv, StoresOK, ListsOf
  <2>3. desk.candidate \in Tasks \cup {None}
    BY Dialogs DEF Desks
  <2>4. bench \in [{"submitting", "approving", "rejecting", "typed"} -> BOOLEAN]
    BY Dialogs DEF Benches
  <2>5. \A c \in calls : c.n \in 1..Bounds.calls /\ (c.body => c.page)
    BY DEF DeskInv, CallsFit, Calls
  <2>6. url.page \in {"tasks", "approvals", "elsewhere"} /\ (url # Elsewhere => Primary(url) \in Keys)
    BY <2>1, ScreenKeys DEF IsAddress
  <2> QED BY <2>1, <2>2, <2>3, <2>4, <2>5, <2>6 DEF DeskTypeOK
<1> QED BY <1>1, DeskInvariance, PTL

\* While a dialog stays mounted one call at most is under way for it: no double
\* dispatch, no double decision and no double creation, however often its button
\* is pressed and wherever the operator goes meanwhile (the submitting flags of
\* DispatchReviewDialog and ApprovalDetailModal, isPending of the create drawer).
THEOREM OneCallHolds == Spec => []OneCallPerDialog
<1>1. DeskInv => OneCallPerDialog
  BY DEF DeskInv, CallsFit, OneCallPerDialog
<1> QED BY <1>1, DeskInvariance, PTL

Kept == ~mock => \A g \in Gates : gates[g] \in Resolved => gates'[g] = gates[g]

LEMMA DecidedStay ==
  ASSUME DeskInv, Next
  PROVE  Kept
<1>1. ASSUME DeskInv, NEW c \in calls, Effect(c), ~mock PROVE Kept
  <2>1. CASE ~Accepts(c)
    BY <1>1, <2>1, EffectType DEF Kept
  <2>2. CASE c.kind \in {"approve", "reject"} /\ Accepts(c)
    <3>1. c.kind # "dispatch"
      BY <2>2
    <3>2. Accepts(c) = (IF mock THEN c.of \notin FailingGates ELSE gates[c.of] \notin Resolved)
      BY <2>2, <3>1, Zenon DEF Accepts
    <3>3. gates[c.of] \notin Resolved
      BY <1>1, <2>2, <3>2
    <3> QED BY <1>1, <3>3, EffectType DEF Kept
  <2>3. CASE c.kind \notin {"approve", "reject"}
    BY <1>1, <2>3, EffectType DEF Kept
  <2> QED BY <2>1, <2>2, <2>3
<1>2. ASSUME UNCHANGED gates PROVE Kept
  BY <1>2 DEF Kept
<1>3. ASSUME Change, DeskInv PROVE Kept
  <2>1. gates \in [Gates -> ApprovalStates]
    BY <1>3 DEF DeskInv, StoresOK
  <2> QED BY <1>3, <2>1 DEF Change, Resolved, Kept
<1>4. ASSUME \E u, d : Go(u, d) PROVE Kept
  BY <1>2, <1>4 DEF Go, NoNews
<1>5. ASSUME \E k, x, d, b : Send(k, x, d, b) PROVE Kept
  BY <1>2, <1>5 DEF Send, NoNews
<1>6. ASSUME \E d, b : Click(d, b) PROVE Kept
  BY <1>2, <1>6 DEF Click, NoNews
<1>7. ASSUME \E k, e : Query(k, e) PROVE Kept
  BY <1>2, <1>7 DEF Query, NoNews
<1>8. CASE Operator
  <2>1. CASE \/ Back \/ FollowLink \/ CloseTask \/ CloseGate \/ InspectTask
             \/ \E f \in TaskFilters \cup GateFilters : SetFilter(f)
             \/ \E t \in Tasks : SelectTask(t) \/ \E g \in Gates : ReviewApproval(t, g)
             \/ \E g \in Gates : SelectGate(g)
    BY <1>4, <2>1 DEF Back, FollowLink, CloseTask, CloseGate, InspectTask, SetFilter, SelectTask,
         SelectGate, ReviewApproval
  <2>2. CASE \/ \E t \in Tasks : PrepareDispatch(t)
             \/ ConfirmDispatch \/ CancelDispatch \/ OpenDrawer \/ CloseDrawer
             \/ \E s \in {"DRAFT", "READY"} : CreateTask(s)
    BY <1>4, <1>5, <1>6, <2>2 DEF PrepareDispatch, ConfirmDispatch, CancelDispatch, OpenDrawer,
         CloseDrawer, CreateTask
  <2>3. CASE \/ ClickApprove \/ TypePhrase \/ ConfirmApprove \/ CancelApprove
             \/ ClickReject \/ ConfirmReject \/ CancelReject
    BY <1>5, <1>6, <2>3 DEF ClickApprove, TypePhrase, ConfirmApprove, CancelApprove, ClickReject,
         ConfirmReject, CancelReject, Approve
  <2>4. CASE Refresh
    BY <1>7, <2>4 DEF Refresh
  <2> QED BY <1>8, <2>1, <2>2, <2>3, <2>4 DEF Operator
<1>9. ASSUME DeskInv, CallSteps PROVE Kept
  <2>1. ASSUME NEW c \in calls, LandCall(c) PROVE Kept
    BY <1>2, <2>1 DEF LandCall
  <2>2. ASSUME NEW c \in calls, ServeCall(c) PROVE Kept
    BY <1>1, <1>9, <2>2 DEF ServeCall
  <2>3. ASSUME NEW c \in calls, MockCall(c) PROVE Kept
    BY <2>3 DEF MockCall, Kept
  <2>4. ASSUME NEW c \in calls, ReadTask(c) PROVE Kept
    BY <1>2, <2>4 DEF ReadTask, NoNews
  <2> QED BY <1>9, <2>1, <2>2, <2>3, <2>4 DEF CallSteps
<1>10. ASSUME DeskInv, Network PROVE Kept
  <2>1. CASE \E c \in calls : LoseCall(c)
    BY <1>2, <2>1 DEF LoseCall, NoNews
  <2>2. CASE \E k \in Keys : ServeQuery(k) \/ LandQuery(k) \/ FailQuery(k)
    BY <1>7, <2>2 DEF ServeQuery, LandQuery, FailQuery
  <2>3. CASE Change
    BY <1>3, <1>10, <2>3
  <2>4. CASE \E l \in {"tasks", "approvals"} : HearDelta(l)
    BY <1>2, <2>4 DEF HearDelta
  <2> QED BY <1>10, <2>1, <2>2, <2>3, <2>4 DEF Network
<1> QED BY <1>8, <1>9, <1>10 DEF Next

\* Against the server a decision is taken once: no call, delta or change by others
\* alters an approval that was resolved.
THEOREM DecisionsHold == Spec => DecisionsAreFinal
<1>1. DeskInv /\ [Next]_vars => [Kept]_vars
  BY DecidedStay
<1>2. DecisionsAreFinal <=> [][Kept]_vars
  BY DEF DecisionsAreFinal, Kept
<1> QED BY <1>1, <1>2, DeskInvariance, PTL DEF Spec

\* A list on screen that is neither loading nor failed shows the store as it is,
\* unless a change waits to be heard of or the answer was read before the last
\* invalidation and its query could not be asked again (hooks.ts).
THEOREM ListsAreCurrent == Spec => []SettledListsAreCurrent
<1>1. DeskInv => SettledListsAreCurrent
  <2> SUFFICES ASSUME DeskInv, NEW k \in OnScreen(url), cache[k].flight = "idle", ~cache[k].error,
                      ~cache[k].late, unseen[k.of] = {}
               PROVE  cache[k].data = Answer(k)
    BY DEF SettledListsAreCurrent
  <2>1. k \in Keys
    BY ScreenKeys DEF DeskInv, StoresOK
  <2>2. EntryOK(cache[k], k \in OnScreen(url), Answer(k), unseen[k.of] = {})
    BY <2>1 DEF DeskInv, CacheFits
  <2> QED BY <2>2 DEF EntryOK
<1> QED BY <1>1, DeskInvariance, PTL

-----------------------------------------------------------------------------
\* The parts of a page add up.

\* No two approvals fall together in all that the queue sorts by: of two that do,
\* the code keeps the order of the answer, which a list here does not have.
NoTies ==
  \A a, b \in Gates : a # b => \/ GateFacts[a].risk # GateFacts[b].risk
                               \/ GateFacts[a].expires # GateFacts[b].expires
                               \/ GateFacts[a].requested # GateFacts[b].requested

LEMMA BeforeOrders ==
  /\ \A a \in Gates : ~Before(a, a)
  /\ \A a, b, c \in Gates : Before(a, b) /\ Before(b, c) => Before(a, c)
  /\ NoTies => \A a, b \in Gates : a # b => Before(a, b) \/ Before(b, a)
<1> DEFINE w(g) == RISK_WEIGHT[GateFacts[g].risk]
           x(g) == GateFacts[g].expires
           r(g) == GateFacts[g].requested
<1>1. ASSUME NEW g \in Gates
      PROVE  w(g) \in 1..4 /\ x(g) \in Nat \cup {NoExpiry} /\ r(g) \in Nat
  BY GateFactsAssumption DEF RISK_WEIGHT
<1>2. \A a, b \in Gates : w(a) = w(b) => GateFacts[a].risk = GateFacts[b].risk
  BY GateFactsAssumption DEF RISK_WEIGHT
<1>3. \A a, b : Before(a, b) <=>
        \/ w(a) > w(b)
        \/ w(a) = w(b) /\ x(a) # NoExpiry /\ (x(b) = NoExpiry \/ x(a) < x(b))
        \/ w(a) = w(b) /\ x(a) = x(b) /\ r(a) < r(b)
  BY DEF Before
<1>4. NoTies <=> \A a, b \in Gates : a # b => \/ GateFacts[a].risk # GateFacts[b].risk
                                              \/ x(a) # x(b) \/ r(a) # r(b)
  BY DEF NoTies
<1> HIDE DEF w, x, r
<1>5. \A a \in Gates : ~Before(a, a)
  BY <1>1, <1>3
<1>6. \A a, b, c \in Gates : Before(a, b) /\ Before(b, c) => Before(a, c)
  BY <1>1, <1>3
<1>7. NoTies => \A a, b \in Gates : a # b => Before(a, b) \/ Before(b, a)
  BY <1>1, <1>2, <1>3, <1>4
<1> QED BY <1>5, <1>6, <1>7

\* Counting what comes before numbers a set of approvals without gaps.
LEMMA Ranks ==
  ASSUME NoTies, NEW S \in SUBSET Gates
  PROVE  {Cardinality({h \in S : Before(h, g)}) + 1 : g \in S} = 1..Cardinality(S)
<1> DEFINE Below(g) == {h \in S : Before(h, g)}
           rank == [g \in S |-> Cardinality(Below(g)) + 1]
           n == Cardinality(S)
<1>1. IsFiniteSet(S) /\ n \in Nat
  BY DeskAssumption, FS_Subset, FS_CardinalityType
<1>2. \A g \in S : g \notin Below(g) /\ Below(g) \in SUBSET S
  BY BeforeOrders
<1>3. \A g, h \in S : Before(h, g) => Below(h) \cup {h} \subseteq Below(g) /\ h \notin Below(h)
  BY BeforeOrders
<1> HIDE DEF Below, n
<1>4. \A g \in S : /\ IsFiniteSet(Below(g)) /\ Cardinality(Below(g)) \in Nat
                   /\ Cardinality(Below(g)) < n
  <2> TAKE g \in S
  <2>1. Below(g) \in SUBSET (S \ {g}) /\ IsFiniteSet(Below(g))
    BY <1>1, <1>2, FS_Subset
  <2>2. IsFiniteSet(S \ {g}) /\ Cardinality(S \ {g}) = n - 1
    BY <1>1, FS_RemoveElement DEF n
  <2>3. Cardinality(Below(g)) <= Cardinality(S \ {g}) /\ Cardinality(Below(g)) \in Nat
    BY <2>1, <2>2, FS_Subset, FS_CardinalityType
  <2> QED BY <1>1, <2>1, <2>2, <2>3
<1>5. \A g, h \in S : Before(h, g) => Cardinality(Below(h)) < Cardinality(Below(g))
  <2> SUFFICES ASSUME NEW g \in S, NEW h \in S, Before(h, g)
               PROVE  Cardinality(Below(h)) < Cardinality(Below(g))
    OBVIOUS
  <2>1. Below(h) \cup {h} \in SUBSET Below(g) /\ h \notin Below(h)
    BY <1>3
  <2>2. Cardinality(Below(h) \cup {h}) = Cardinality(Below(h)) + 1
    BY <1>4, <2>1, FS_AddElement
  <2>3. Cardinality(Below(h) \cup {h}) <= Cardinality(Below(g))
    BY <1>4, <2>1, FS_Subset
  <2> QED BY <1>4, <2>2, <2>3
<1>6. rank \in Injection(S, 1..n)
  <2>1. \A g \in S : rank[g] = Cardinality(Below(g)) + 1
    OBVIOUS
  <2>2. rank \in [S -> 1..n]
    BY <1>1, <1>4
  <2>3. \A g, h \in S : rank[g] = rank[h] => g = h
    <3> HIDE DEF rank
    <3> QED BY <1>4, <1>5, <2>1, BeforeOrders
  <2> QED BY <2>2, <2>3 DEF Injection, IsInjective
<1>7. IsFiniteSet(1..n) /\ Cardinality(1..n) = n
  <2>1. 1 \in Int /\ n \in Int
    BY <1>1
  <2>2. IsFiniteSet(1..n) /\ Cardinality(1..n) = IF 1 > n THEN 0 ELSE n - 1 + 1
    BY <2>1, FS_Interval
  <2> QED BY <1>1, <2>2
<1>8. rank \in Surjection(S, 1..n)
  BY <1>6, <1>7, FS_Injection DEF n
<1>9. {rank[g] : g \in S} = 1..n
  <2>1. \A g \in S : rank[g] \in 1..n
    BY <1>6 DEF Injection
  <2>2. \A m \in 1..n : \E g \in S : rank[g] = m
    BY <1>8 DEF Surjection
  <2> HIDE DEF rank
  <2> QED BY <2>1, <2>2
<1> QED BY <1>9 DEF Below, n

LEMMA CardinalitiesOfStrip ==
  ASSUME NEW list
  PROVE  /\ SummaryCount(list, "ATTENTION") = Cardinality(BoardColumn(list, "NEEDS_ATTENTION"))
         /\ SummaryCount(list, "RUNNING") = Cardinality(BoardColumn(list, "IN_PROGRESS"))
         /\ ApprovalCount(list, "Pending Reviews") = Cardinality(Queue(list))
<1> DEFINE Counts(s, card) ==
             CASE card = "ALL" -> TRUE
               [] card = "RUNNING" -> s \in {"RUNNING", "DISPATCHING", "QUEUED"}
               [] card = "ATTENTION" -> s \in {"AWAITING_APPROVAL", "BLOCKED", "FAILED"}
               [] OTHER -> s = card
<1>1. \A s : Counts(s, "RUNNING") = (s \in {"RUNNING", "DISPATCHING", "QUEUED"})
  BY "RUNNING" # "ALL", Zenon
<1>2. \A s : Counts(s, "ATTENTION") = (s \in {"AWAITING_APPROVAL", "BLOCKED", "FAILED"})
  BY "ATTENTION" # "ALL", "ATTENTION" # "RUNNING", Zenon
<1>3. \A s : (mapStateToKanbanColumn(s) = "IN_PROGRESS")
               = (s \in {"RUNNING", "DISPATCHING", "QUEUED"})
  BY DEF mapStateToKanbanColumn
<1>4. \A s : (mapStateToKanbanColumn(s) = "NEEDS_ATTENTION")
               = (s \in {"AWAITING_APPROVAL", "BLOCKED", "FAILED"})
  BY DEF mapStateToKanbanColumn
<1>5. \A card : SummaryCount(list, card) = Cardinality({t \in DOMAIN list : Counts(list[t], card)})
  BY DEF SummaryCount
<1>6. ApprovalCount(list, "Pending Reviews") = Cardinality({g \in DOMAIN list : list[g] = "PENDING"})
  BY Zenon DEF ApprovalCount
<1> HIDE DEF Counts
<1>7. {t \in DOMAIN list : Counts(list[t], "ATTENTION")} = BoardColumn(list, "NEEDS_ATTENTION")
  BY <1>2, <1>4 DEF BoardColumn
<1>8. {t \in DOMAIN list : Counts(list[t], "RUNNING")} = BoardColumn(list, "IN_PROGRESS")
  BY <1>1, <1>3 DEF BoardColumn
<1> QED BY <1>5, <1>6, <1>7, <1>8 DEF Queue

\* What the two pages show is the store, and its parts add up: the strip and the
\* board count the same tasks, every approval of the list is in the queue or in the
\* history, and the queue numbers the pending ones from one without gaps.
THEOREM ListsHold == NoTies => (Spec => []ListsAreTrue)
<1> SUFFICES ASSUME NoTies PROVE Spec => []ListsAreTrue
  OBVIOUS
<1>1. DeskInv => ListsAddUp
  <2> SUFFICES ASSUME DeskInv PROVE ListsAddUp
    OBVIOUS
  <2>1. ASSUME url.page = "approvals"
        PROVE  /\ ApprovalCount(Shown, "Pending Reviews") + Cardinality(History(Shown))
                    = Cardinality(DOMAIN Shown)
               /\ {QueuePosition(Shown, g) : g \in Queue(Shown)}
                    = 1..ApprovalCount(Shown, "Pending Reviews")
    <3> DEFINE Q == Queue(Shown)
               H == History(Shown)
    <3>1. DOMAIN Shown \in SUBSET Gates
      BY <2>1, ShownType
    <3>2. Q \cup H = DOMAIN Shown /\ Q \cap H = {} /\ Q \in SUBSET Gates /\ H \in SUBSET Gates
      BY <3>1 DEF Queue, History
    <3>3. ApprovalCount(Shown, "Pending Reviews") = Cardinality(Q)
      BY CardinalitiesOfStrip
    <3>4. {QueuePosition(Shown, g) : g \in Q} = {Cardinality({h \in Q : Before(h, g)}) + 1 : g \in Q}
      BY DEF QueuePosition
    <3> HIDE DEF Q, H
    <3>5. IsFiniteSet(Q) /\ IsFiniteSet(H)
      BY <3>2, DeskAssumption, FS_Subset
    <3>6. Cardinality(Q \cup H) = Cardinality(Q) + Cardinality(H)
      <4>1. Cardinality(Q \cup H) = Cardinality(Q) + Cardinality(H) - 0
        BY <3>2, <3>5, FS_Union, FS_EmptySet
      <4> QED BY <3>5, <4>1, FS_CardinalityType
    <3>7. {Cardinality({h \in Q : Before(h, g)}) + 1 : g \in Q} = 1..Cardinality(Q)
      BY <3>2, Ranks
    <3> QED BY <3>2, <3>3, <3>4, <3>6, <3>7 DEF Q, H
  <2> QED BY <2>1, CardinalitiesOfStrip DEF ListsAddUp
<1> QED BY <1>1, ListsAreCurrent, DeskInvariance, PTL DEF ListsAreTrue

=============================================================================
