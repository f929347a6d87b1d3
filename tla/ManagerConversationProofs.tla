----------------------- MODULE ManagerConversationProofs -----------------------
(***************************************************************************)
(* The manager's conversation, for any numbers of leads, visits, events,   *)
(* values, handlers at a time and messages.                                *)
(*                                                                         *)
(* Rows and plans fit their prompts, so that each of the ways to serve a   *)
(* message decides on what the row offers or on what the message itself    *)
(* asks for (Serves). While messages come one by one and prompts come      *)
(* through, the row is the prompt on the screen or gone (OneByOne).        *)
(*                                                                         *)
(* The repetitions so far and the handlers that may still change something *)
(* are one account (Balanced), which is paid by overlaps and breaks.       *)
(***************************************************************************)
EXTENDS ManagerConversation, FiniteSetTheorems, TLAPS

USE ManagerConversationAssumption

-----------------------------------------------------------------------------
(* What is decided.                                                        *)

Request == [op : Op \cup {None}, item : Item \cup {None}, value : Value \cup {None}]

Confirmable == {"assign", "schedule", "site", "type", "reassign", "delete"}

AboutItem == {"confirm", "action", "time", "duration", "fields", "types",
              "idle", "eta", "followup", "problem", "note"}

\* A row has what its prompt, or the one a pivot left, is about.
Fits(r, a) ==
    /\ a \in AboutItem => r.item # None
    /\ a = "worker" /\ r.op = "assign" => r.item # None
    /\ a = "confirm" => r.op \in Confirmable
    /\ a = "worker" => r.op \in {"assign", "reassign"}
    /\ a \in Picker => r.op \notin {"delete", "track", "status", "reschedule"}
    /\ a \in Picker /\ r.op = "reassign" => a = "worker"

RowFits(r) ==
    /\ r \in Row
    /\ Fits(r, r.at)
    /\ r.at = "pivot" => r.back \in Picker \cup {"confirm"} /\ Fits(r, r.back)
    /\ r.at \in {"pivot", "intent", "field", "multi", "disambig"} => r.changes # {}
    /\ \A c \in r.changes : c.op = "track" => c.item = None

\* What is served again leaves nothing, and what is changed is followed by a
\* prompt.
PlanFits(p) ==
    /\ p \in Plan
    /\ RowFits(p.next)
    /\ p.again => ~p.keep /\ p.next = NoRow /\ p.changes = {}
    /\ p.changes # {} => ~p.keep

\* Nothing is changed.
Asks(p) == PlanFits(p) /\ p.changes = {}

TextFits(t) ==
    /\ t.said.request \in Request
    /\ t.said.request.op = "track" => t.said.request.item = None
    /\ t.said.tapped \in [at : Prompt, op : Op \cup {None}]
    /\ t.seen.row \in Row
    /\ t = [said |-> t.said, seen |-> t.seen]
    /\ t.seen = [row |-> t.seen.row, number |-> t.seen.number]

LEMMA AtRow ==
    ASSUME NEW a \in Prompt
    PROVE  /\ At(a) \in Row /\ At(a).at = a /\ At(a).op = None /\ At(a).item = None
           /\ At(a).value = None /\ At(a).list = {} /\ At(a).changes = {}
BY DEF At, Row, Prompt

LEMMA AboutRow ==
    ASSUME NEW a \in Prompt, NEW o \in Op \cup {None}, NEW i \in Item \cup {None},
           NEW v \in Value \cup {None}
    PROVE  /\ About(a, o, i, v) \in Row /\ About(a, o, i, v).at = a
           /\ About(a, o, i, v).op = o /\ About(a, o, i, v).item = i
           /\ About(a, o, i, v).value = v /\ About(a, o, i, v).changes = {}
<1> DEFINE r == At(a)
<1>1. r \in Row /\ r.at = a /\ r.changes = {}
      BY AtRow
<1>2. About(a, o, i, v) = [r EXCEPT !.op = o, !.item = i, !.value = v]
      BY DEF About
<1> HIDE DEF r
<1> QED BY <1>1, <1>2 DEF Row

LEMMA ListingRow ==
    ASSUME NEW a \in Prompt, NEW o \in Op \cup {None}, NEW s \in SUBSET Item
    PROVE  /\ Listing(a, o, s) \in Row /\ Listing(a, o, s).at = a
           /\ Listing(a, o, s).op = o /\ Listing(a, o, s).item = None
           /\ Listing(a, o, s).list = s /\ Listing(a, o, s).changes = {}
<1> DEFINE r == At(a)
<1>1. r \in Row /\ r.at = a /\ r.changes = {} /\ r.item = None
      BY AtRow
<1>2. Listing(a, o, s) = [r EXCEPT !.op = o, !.list = s]
      BY DEF Listing
<1> HIDE DEF r
<1> QED BY <1>1, <1>2 DEF Row

LEMMA WaitingRow ==
    ASSUME NEW a \in Prompt, NEW c \in SUBSET Change
    PROVE  /\ Waiting(a, c) \in Row /\ Waiting(a, c).at = a
           /\ Waiting(a, c).op = None /\ Waiting(a, c).item = None
           /\ Waiting(a, c).changes = c
<1> DEFINE r == At(a)
<1>1. r \in Row /\ r.at = a /\ r.op = None /\ r.item = None
      BY AtRow
<1>2. Waiting(a, c) = [r EXCEPT !.changes = c]
      BY DEF Waiting
<1> HIDE DEF r
<1> QED BY <1>1, <1>2 DEF Row

LEMMA NoRowFits == RowFits(NoRow) /\ NoRow.at = "none" /\ NoRow.changes = {}
BY AtRow DEF NoRow, RowFits, Fits, AboutItem, Picker, Prompt

LEMMA StayAsks ==
    /\ Asks(Stay) /\ Stay.keep /\ ~Stay.again /\ Stay.caught
    /\ Stay \in Plan /\ Stay.changes = {} /\ Stay.next = NoRow
<1> DEFINE r == NoRow
<1>1. RowFits(r) /\ r \in Row
      BY NoRowFits DEF RowFits
<1>2. Stay = [changes |-> {}, caught |-> TRUE, keep |-> TRUE, next |-> r, again |-> FALSE]
      BY DEF Stay
<1> HIDE DEF r
<1>3. Stay \in Plan /\ Stay.keep /\ ~Stay.again /\ Stay.caught /\ Stay.changes = {}
      /\ Stay.next = r
      BY <1>1, <1>2 DEF Plan
<1> QED BY <1>1, <1>3 DEF Asks, PlanFits, r

LEMMA ToPlan ==
    ASSUME NEW r \in Row
    PROVE  /\ To(r) \in Plan /\ ~To(r).keep /\ To(r).next = r
           /\ To(r).changes = {} /\ ~To(r).again /\ To(r).caught
<1> DEFINE s == Stay
<1>1. s \in Plan /\ s.changes = {} /\ ~s.again /\ s.caught
      BY StayAsks
<1>2. To(r) = [s EXCEPT !.keep = FALSE, !.next = r]
      BY DEF To
<1> HIDE DEF s
<1> QED BY <1>1, <1>2 DEF Plan

LEMMA ToAsks ==
    ASSUME NEW r, RowFits(r)
    PROVE  Asks(To(r)) /\ ~To(r).again
BY ToPlan DEF Asks, PlanFits, RowFits

LEMMA ClearAsks == Asks(Clear) /\ ~Clear.again /\ Asks(Again(Clear))
<1>1. RowFits(NoRow) /\ NoRow \in Row
      BY NoRowFits DEF RowFits
<1> DEFINE p == Clear
<1>2. p \in Plan /\ ~p.keep /\ p.next = NoRow /\ p.changes = {} /\ ~p.again
      BY <1>1, ToPlan DEF Clear
<1>3. Again(Clear) = [p EXCEPT !.again = TRUE]
      BY DEF Again
<1> HIDE DEF p
<1>4. /\ Again(Clear) \in Plan /\ ~Again(Clear).keep /\ Again(Clear).next = NoRow
      /\ Again(Clear).changes = {}
      BY <1>2, <1>3 DEF Plan
<1>5. Asks(p) /\ ~p.again
      BY <1>1, <1>2 DEF Asks, PlanFits
<1> QED BY <1>1, <1>4, <1>5 DEF Asks, PlanFits, p

LEMMA DoFits ==
    ASSUME NEW c \in SUBSET Change
    PROVE  PlanFits(Do(c)) /\ Do(c).changes = c
<1> DEFINE p == Clear
<1>1. /\ p \in Plan /\ ~p.keep /\ p.next = NoRow /\ ~p.again /\ p.caught
      /\ RowFits(NoRow)
      BY NoRowFits, ToPlan DEF Clear, RowFits
<1>2. Do(c) = [p EXCEPT !.changes = c]
      BY DEF Do
<1> HIDE DEF p
<1>3. /\ Do(c) \in Plan /\ ~Do(c).keep /\ Do(c).next = NoRow /\ ~Do(c).again
      /\ Do(c).changes = c /\ Do(c).caught
      BY <1>1, <1>2 DEF Plan
<1> QED BY <1>1, <1>3 DEF PlanFits

LEMMA EachFits ==
    ASSUME NEW c \in SUBSET Change
    PROVE  PlanFits(Each(c)) /\ Each(c).changes = c /\ ~Each(c).again
<1> DEFINE p == Do(c)
<1>1. PlanFits(p) /\ p.changes = c /\ ~p.again
  <2>1. PlanFits(Clear) /\ Clear \in Plan /\ ~Clear.again
        BY ClearAsks DEF Asks, PlanFits
  <2>2. Do(c).again = Clear.again
        BY <2>1 DEF Do, Plan
  <2> QED BY <2>1, <2>2, DoFits
<1>2. Each(c) = [p EXCEPT !.caught = FALSE]
      BY DEF Each
<1> HIDE DEF p
<1>3. /\ Each(c) \in Plan /\ Each(c).keep = p.keep /\ Each(c).next = p.next
      /\ Each(c).again = p.again /\ Each(c).changes = c
      BY <1>1, <1>2 DEF Plan, PlanFits
<1> QED BY <1>1, <1>3 DEF PlanFits

LEMMA UncaughtFits ==
    ASSUME NEW c \in Change
    PROVE  PlanFits(Uncaught(c)) /\ Uncaught(c).changes = {c} /\ ~Uncaught(c).again
BY EachFits DEF Uncaught

LEMMA ThenFits ==
    ASSUME NEW c \in Change, NEW r, RowFits(r)
    PROVE  PlanFits(Then(Uncaught(c), r)) /\ Then(Uncaught(c), r).changes = {c}
<1> DEFINE p == Uncaught(c)
           q == Then(p, r)
<1>1. PlanFits(p) /\ p.changes = {c} /\ ~p.again
      BY UncaughtFits
<1>2. q = [p EXCEPT !.next = r]
      BY DEF Then
<1> HIDE DEF p
<1>3. /\ q \in Plan /\ q.keep = p.keep /\ q.next = r /\ q.again = p.again
      /\ q.changes = p.changes
      BY <1>1, <1>2 DEF Plan, PlanFits, RowFits
<1> HIDE DEF q
<1>4. PlanFits(q) /\ q.changes = {c}
      BY <1>1, <1>3 DEF PlanFits
<1> QED BY <1>4 DEF q, p

\* A plan that leaves the row may as well delete it.
LEMMA LeavesFits ==
    ASSUME NEW p, PlanFits(p)
    PROVE  PlanFits([p EXCEPT !.keep = FALSE]) /\ [p EXCEPT !.keep = FALSE].changes = p.changes
<1> DEFINE q == [p EXCEPT !.keep = FALSE]
<1>1. p \in Plan
      BY DEF PlanFits
<1>2. /\ q \in Plan /\ ~q.keep /\ q.next = p.next /\ q.again = p.again
      /\ q.changes = p.changes /\ q.caught = p.caught
      BY <1>1 DEF Plan
<1> HIDE DEF q
<1> QED BY <1>2 DEF PlanFits, q

-----------------------------------------------------------------------------
(* The flows.                                                              *)

AllAsk(S) == \A p \in S : Asks(p)

\* What is asked for, with what it is about, fits.
LEMMA AskedAbout ==
    ASSUME NEW a \in Prompt, NEW o \in Op \cup {None}, NEW i \in Item,
           NEW v \in Value \cup {None}, a \notin Picker \cup {"pivot", "intent", "field", "multi", "disambig"},
           a = "confirm" => o \in Confirmable
    PROVE  RowFits(About(a, o, i, v)) /\ Asks(To(About(a, o, i, v)))
<1> DEFINE r == About(a, o, i, v)
<1>1. /\ r \in Row /\ r.at = a /\ r.op = o /\ r.item = i /\ r.changes = {}
      /\ i # None /\ a # "worker"
      BY AboutRow DEF Item, None, Picker
<1> HIDE DEF r
<1>2. RowFits(r)
      BY <1>1 DEF RowFits, Fits, Picker
<1> QED BY <1>2, ToAsks DEF r

LEMMA VisitAsked ==
    ASSUME NEW a \in {"followup", "problem", "idle", "eta", "note"}, NEW i \in Item
    PROVE  RowFits(About(a, None, i, None)) /\ Asks(To(About(a, None, i, None)))
<1> DEFINE r == About(a, None, i, None)
<1>1. a \in Prompt
      BY DEF Prompt, Picker, Capture
<1>2. /\ r \in Row /\ r.at = a /\ r.op = None /\ r.item = i /\ r.changes = {}
      /\ i # None
      BY <1>1, AboutRow DEF Item, None
<1> HIDE DEF r
<1>3. RowFits(r)
      BY <1>2 DEF RowFits, Fits, Picker, None
<1> QED BY <1>3, ToAsks DEF r

LEMMA WorkerAsked ==
    ASSUME NEW o \in {"assign", "reassign"}, NEW i \in Item \cup {None},
           o = "assign" => i # None
    PROVE  Asks(To(About("worker", o, i, None)))
<1> DEFINE r == About("worker", o, i, None)
<1>1. /\ r \in Row /\ r.at = "worker" /\ r.op = o /\ r.item = i /\ r.changes = {}
      BY AboutRow DEF Prompt, Picker, Op, VisitOp
<1> HIDE DEF r
<1>2. RowFits(r)
      BY <1>1 DEF RowFits, Fits, AboutItem
<1> QED BY <1>2, ToAsks DEF r

LEMMA AskedAtAll ==
    ASSUME NEW a \in {"menu", "sub", "leads", "workers", "query", "search", "digest", "digest_time"}
    PROVE  Asks(To(At(a)))
<1> DEFINE r == At(a)
<1>1. a \in Prompt /\ a \notin AboutItem \cup {"pivot", "intent", "field", "multi", "disambig"}
      BY DEF Prompt, Picker, Capture, AboutItem
<1>2. r \in Row /\ r.at = a /\ r.op = None /\ r.changes = {}
      BY <1>1, AtRow
<1> HIDE DEF r
<1>3. RowFits(r)
      BY <1>1, <1>2 DEF RowFits, Fits, AboutItem, None
<1> QED BY <1>3, ToAsks DEF r

LEMMA HintAsked ==
    ASSUME NEW a \in {"hint", "vague"}, NEW o \in {"site", "type", "reassign", "track"},
           NEW v \in Value \cup {None}, a = "vague" => o = "site"
    PROVE  Asks(To(About(a, o, None, v)))
<1> DEFINE r == About(a, o, None, v)
<1>1. a \in Prompt /\ o \in Op
      BY DEF Prompt, Picker, Capture, Op, VisitOp
<1>2. r \in Row /\ r.at = a /\ r.op = o /\ r.changes = {}
      BY <1>1, AboutRow
<1> HIDE DEF r
<1>3. RowFits(r)
      BY <1>2 DEF RowFits, Fits, AboutItem, Picker
<1> QED BY <1>3, ToAsks DEF r

LEMMA Listed ==
    ASSUME NEW a \in {"pick", "visits"}, NEW o \in {"assign", "schedule", None}, NEW s \in SUBSET Item
    PROVE  Asks(To(Listing(a, o, s)))
<1> DEFINE r == Listing(a, o, s)
<1>1. a \in Prompt /\ o \in Op \cup {None}
      BY DEF Prompt, Picker, Op, VisitOp
<1>2. r \in Row /\ r.at = a /\ r.op = o /\ r.changes = {}
      BY <1>1, ListingRow
<1> HIDE DEF r
<1>3. RowFits(r)
      BY <1>2 DEF RowFits, Fits, AboutItem, None
<1> QED BY <1>3, ToAsks DEF r

LEMMA LeadAsked ==
    ASSUME NEW l \in Item, NEW v \in Value \cup {None}
    PROVE  Asks(LeadChosen(l, v))
<1>1. "confirm" \in Prompt /\ "confirm" \notin Picker \cup {"pivot", "intent", "field", "multi", "disambig"}
      BY DEF Prompt, Picker
<1>2. "assign" \in Op \cup {None} /\ "assign" \in Confirmable /\ l # None
      BY DEF Op, Confirmable, Item, None
<1>3. Asks(To(About("confirm", "assign", l, v)))
      BY <1>1, <1>2, AskedAbout
<1>4. Asks(To(About("worker", "assign", l, None)))
      BY <1>2, WorkerAsked
<1> QED BY <1>3, <1>4 DEF LeadChosen

LEMMA AssignAsks ==
    ASSUME NEW i \in Item \cup {None}, NEW v \in Value \cup {None}
    PROVE  AllAsk(startAssignLead(i, v))
<1>1. Unassigned \in SUBSET Item
      BY DEF Unassigned, Item
<1>2. Asks(To(Listing("pick", "assign", Unassigned)))
      BY <1>1, Listed
<1>3. i \in Item => Asks(To(About("confirm", "assign", i, v)))
      BY AskedAbout DEF Prompt, Picker, Confirmable, Op
<1>4. ASSUME NEW p \in startAssignLead(i, v)
      PROVE  \/ p = To(About("confirm", "assign", i, v)) /\ i \in Unassigned
             \/ p = Clear \/ p = To(Listing("pick", "assign", Unassigned))
      BY <1>4 DEF startAssignLead
<1> QED BY <1>1, <1>2, <1>3, <1>4, ClearAsks DEF AllAsk

LEMMA ScheduleAsks ==
    /\ \A i \in Item : AllAsk(scheduleProcessChosen(i))
    /\ \A i \in Item \cup {None} : AllAsk(startSchedule(i))
<1>1. ASSUME NEW i \in Item, NEW a \in {"time", "duration"}, NEW t \in Value \cup {None}
      PROVE  Asks(To(About(a, "schedule", i, t)))
      BY AskedAbout DEF Prompt, Picker, Op, VisitOp
<1>2. ASSUME NEW i \in Item PROVE AllAsk(scheduleProcessChosen(i))
      BY <1>1, ClearAsks DEF scheduleProcessChosen, AllAsk
<1>3. ASSUME NEW i \in Item \cup {None} PROVE AllAsk(startSchedule(i))
  <2>1. (IF i = None THEN Visit ELSE {i}) \in SUBSET Item
        BY DEF Item
  <2>2. Asks(To(Listing("pick", "schedule", IF i = None THEN Visit ELSE {i})))
        BY <2>1, Listed
  <2> QED BY <2>2, AskedAtAll, ClearAsks DEF startSchedule, AllAsk
<1> QED BY <1>2, <1>3

LEMMA CorrectionAsks ==
    ASSUME NEW o \in {"site", "type"}, NEW i \in Item \cup {None}
    PROVE  AllAsk(startCorrection(o, i))
<1>1. Asks(To(About("hint", o, None, None))) /\ Asks(To(About("vague", "site", None, None)))
      BY HintAsked
<1>2. i # None => Asks(To(About("fields", o, i, None))) /\ Asks(To(About("types", o, i, None)))
      BY AskedAbout DEF Prompt, Picker, Op, VisitOp
<1>3. ASSUME NEW p \in startCorrection(o, i)
      PROVE  \/ p = To(About("hint", o, None, None)) \/ p = Stay
             \/ p = To(About("vague", "site", None, None))
             \/ i # None /\ (p = To(About("fields", o, i, None)) \/ p = To(About("types", o, i, None)))
      BY <1>3 DEF startCorrection
<1> QED BY <1>1, <1>2, <1>3, StayAsks DEF AllAsk

LEMMA ReassignAsks ==
    ASSUME NEW i \in Item \cup {None}, NEW v \in Value \cup {None}
    PROVE  AllAsk(startReassign(i, v))
<1> DEFINE l == Listing("disambig", "reassign", Visit)
           r == [l EXCEPT !.changes = {Ask("reassign", i, v)}]
<1>1. Ask("reassign", i, v) \in Change /\ Ask("reassign", i, v).op = "reassign"
      BY DEF Ask, Change, Op, VisitOp
<1>2. l \in Row /\ l.at = "disambig"
      BY ListingRow DEF Prompt, Op, VisitOp, Item
<1> HIDE DEF l
<1>3. r \in Row /\ r.at = "disambig" /\ r.changes = {Ask("reassign", i, v)}
      BY <1>1, <1>2 DEF Row
<1> HIDE DEF r
<1>4. Asks(To(r))
  <2>1. RowFits(r)
        BY <1>1, <1>3 DEF RowFits, Fits, AboutItem, Picker
  <2> QED BY <2>1, ToAsks
<1>5. i # None => Asks(showWorkerList(i, v))
      BY AskedAbout, WorkerAsked DEF showWorkerList, Prompt, Picker, Confirmable, Op, VisitOp
<1>6. Asks(To(About("hint", "reassign", None, v)))
      BY HintAsked
<1> QED BY <1>4, <1>5, <1>6, StayAsks DEF startReassign, AllAsk, r, l

LEMMA DeleteAsks ==
    ASSUME NEW i \in Item \cup {None}
    PROVE  AllAsk(startDelete(i))
<1>1. i # None => Asks(To(About("confirm", "delete", i, None)))
      BY AskedAbout DEF Prompt, Picker, Confirmable, Op
<1> QED BY <1>1, StayAsks DEF startDelete, AllAsk

LEMMA ViewsAsk ==
    AllAsk(managerViews) /\ AllAsk(MenuRoutes) /\ AllAsk(SubRoutes)
<1>1. Asks(To(Listing("visits", None, Visit)))
      BY Listed DEF Item
<1>2. AllAsk(managerViews)
      BY <1>1, AskedAtAll, StayAsks, ClearAsks DEF managerViews, AllAsk
<1>3. AllAsk(MenuRoutes)
      BY <1>1, AskedAtAll, ClearAsks DEF MenuRoutes, AllAsk
<1>4. AllAsk(SubRoutes)
      BY <1>1, AskedAtAll, ClearAsks
      DEF SubRoutes, exceptionsSub, leadsSub, workersSub, searchSub, AllAsk
<1> QED BY <1>2, <1>3, <1>4

\* What a request changes at once: it enables tracking for whom it names.
Tracks(r) == IF r.op = "track" THEN {Ask("track", None, r.value)} ELSE {}

LEMMA TrackingAsks ==
    ASSUME NEW v \in Value \cup {None}
    PROVE  \A p \in startTracking(v) :
             PlanFits(p) /\ p.changes \subseteq {Ask("track", None, v)}
             /\ (v = None => p.changes = {})
<1>1. Asks(To(About("hint", "track", None, None)))
      BY HintAsked
<1>2. Ask("track", None, v) \in Change
      BY DEF Ask, Change, Op
<1>3. PlanFits(Do({Ask("track", None, v)}))
      /\ Do({Ask("track", None, v)}).changes = {Ask("track", None, v)}
      BY <1>2, DoFits
<1> QED BY <1>1, <1>3, ClearAsks DEF startTracking, Asks

LEMMA IntentFits ==
    ASSUME NEW r \in Request, r.op = "track" => r.item = None
    PROVE  \A p \in executeIntent(r) \cup routeIntent(r) :
             /\ PlanFits(p) /\ p.changes \subseteq Tracks(r)
             /\ r.value = None => p.changes = {}
<1>1. r.op \in Op \cup {None} /\ r.item \in Item \cup {None} /\ r.value \in Value \cup {None}
      BY DEF Request
<1>2. ASSUME NEW p \in executeIntent(r)
      PROVE  /\ PlanFits(p) /\ p.changes \subseteq Tracks(r)
             /\ r.value = None => p.changes = {}
  <2>1. CASE r.op = "track"
        BY <1>1, <1>2, <2>1, TrackingAsks DEF executeIntent, Tracks
  <2>2. CASE r.op # "track"
    <3>1. Asks(p)
      <4>1. CASE r.op = "assign"
            BY <1>1, <1>2, <4>1, AssignAsks DEF executeIntent, AllAsk
      <4>2. CASE r.op = "schedule"
            BY <1>1, <1>2, <4>2, ScheduleAsks DEF executeIntent, AllAsk
      <4>3. CASE r.op \in {"site", "type"}
            BY <1>1, <1>2, <4>3, CorrectionAsks DEF executeIntent, AllAsk
      <4>4. CASE r.op = "reassign"
            BY <1>1, <1>2, <4>4, ReassignAsks DEF executeIntent, AllAsk
      <4>5. CASE r.op = "delete"
            BY <1>1, <1>2, <4>5, DeleteAsks DEF executeIntent, AllAsk
      <4>6. CASE r.op \notin {"assign", "schedule", "site", "type", "reassign", "delete"}
            BY <1>2, <2>2, <4>6, ViewsAsk DEF executeIntent, AllAsk
      <4> QED BY <4>1, <4>2, <4>3, <4>4, <4>5, <4>6
    <3> QED BY <3>1 DEF Asks
  <2> QED BY <2>1, <2>2
<1>3. ASSUME NEW a \in {"intent", "field"}, r.op # None
      PROVE  Asks(To(Waiting(a, {r})))
  <2> DEFINE w == Waiting(a, {r})
  <2>1. r \in Change
        BY <1>1, <1>3 DEF Request, Change
  <2>2. w \in Row /\ w.at = a /\ w.changes = {r}
        BY <2>1, WaitingRow DEF Prompt
  <2> HIDE DEF w
  <2>3. RowFits(w)
        BY <1>3, <2>2 DEF RowFits, Fits, AboutItem, Picker
  <2> QED BY <2>3, ToAsks DEF w
<1>4. ASSUME NEW p \in routeIntent(r), p \notin executeIntent(r)
      PROVE  \/ p \in {Stay, To(At("menu"))}
             \/ r.op # None /\ p \in {To(Waiting("intent", {r})), To(Waiting("field", {r}))}
      BY <1>4 DEF routeIntent
<1> QED BY <1>2, <1>3, <1>4, StayAsks, AskedAtAll DEF Asks

-----------------------------------------------------------------------------
(* What each message leads to.                                             *)

MType ==
    /\ owner \in [Lead -> Value \cup {None}]
    /\ RowFits(row)
    /\ choice \in [at : Prompt, op : Op \cup {None}]
    /\ pc \in [Handler -> {"idle", "route", "write", "settle"}]
    /\ text = [h \in Handler |-> text[h]] /\ \A h \in Handler : TextFits(text[h])
    /\ plan = [h \in Handler |-> plan[h]] /\ \A h \in Handler : PlanFits(plan[h])
    /\ screen = [row |-> screen.row, number |-> screen.number]
    /\ screen.row \in Row

\* h decides on what was asked for or on offer.
Serves(h) ==
    /\ pc[h] = "route"
    /\ \E p : /\ Decide(h, p) /\ PlanFits(p)
              /\ p.changes \subseteq Offer(row) \cup {Said(h).request}

LEMMA Typed ==
    ASSUME MType, NEW h \in Handler
    PROVE  /\ row \in Row /\ row.at \in Prompt /\ row.op \in Op \cup {None}
           /\ row.item \in Item \cup {None} /\ row.value \in Value \cup {None}
           /\ row.list \subseteq Item /\ row.changes \subseteq Change
           /\ Fits(row, row.at)
           /\ Said(h).request \in Request
           /\ Said(h).request.item \in Item \cup {None}
           /\ Said(h).request.value \in Value \cup {None}
           /\ Said(h).request.op \in Op \cup {None}
           /\ Said(h).request.op = "track" => Said(h).request.item = None
<1>1. row \in Row /\ Fits(row, row.at)
      BY DEF MType, RowFits
<1>2. Said(h).request \in Request
      /\ (Said(h).request.op = "track" => Said(h).request.item = None)
      BY DEF MType, TextFits, Said
<1> QED BY <1>1, <1>2 DEF Row, Request

\* A request to track that is carried out is the one that was made.
LEMMA TrackRequested ==
    ASSUME NEW r \in Request, r.op = "track" => r.item = None
    PROVE  Tracks(r) \subseteq {r}
<1>1. CASE r.op = "track"
  <2>1. r = [op |-> "track", item |-> None, value |-> r.value]
        BY <1>1 DEF Request
  <2> QED BY <1>1, <2>1 DEF Tracks, Ask
<1>2. CASE r.op # "track"
      BY <1>2 DEF Tracks
<1> QED BY <1>1, <1>2

\* A sentence leads to what the model makes of it.
LEMMA RequestServes ==
    ASSUME MType, NEW h \in Handler, NEW p \in routeIntent(Said(h).request)
    PROVE  /\ PlanFits(p) /\ p.changes \subseteq {Said(h).request}
           /\ PlanFits([p EXCEPT !.keep = FALSE])
           /\ [p EXCEPT !.keep = FALSE].changes \subseteq {Said(h).request}
<1>1. Said(h).request \in Request
      /\ (Said(h).request.op = "track" => Said(h).request.item = None)
      BY Typed
<1>2. PlanFits(p) /\ p.changes \subseteq {Said(h).request}
      BY <1>1, IntentFits, TrackRequested
<1> QED BY <1>2, LeavesFits

\* So does a request that waited, if it is one the row was about.
LEMMA WaitedServes ==
    ASSUME MType, row.at \in {"intent", "field", "pivot", "disambig"},
           NEW c, c = FirstOf(row.changes),
           NEW v \in Value \cup {None}, 
           NEW r, r = [c EXCEPT !.value = IF @ = None THEN v ELSE @] \/ r = c,
           NEW p \in executeIntent(r) \cup routeIntent(r)
    PROVE  /\ PlanFits([p EXCEPT !.keep = FALSE])
           /\ [p EXCEPT !.keep = FALSE].changes \subseteq Offer(row)
<1>1. row.changes # {} /\ row.changes \subseteq Change
      /\ \A d \in row.changes : d.op = "track" => d.item = None
      BY DEF MType, RowFits, Row
<1>2. c \in row.changes
      BY <1>1 DEF FirstOf
<1>3. c \in Change /\ (c.op = "track" => c.item = None)
      BY <1>1, <1>2
<1>4. r \in Request /\ r.op = c.op /\ (r.op = "track" => r.item = None)
      BY <1>3 DEF Change, Request
<1>5. PlanFits(p) /\ p.changes \subseteq Tracks(r) /\ (r.value = None => p.changes = {})
      BY <1>4, IntentFits
<1>6. p.changes \subseteq {Ask(c.op, c.item, w) : w \in Value}
  <2>1. r.value \in Value \cup {None}
        BY <1>4 DEF Request
  <2> QED BY <1>3, <1>4, <1>5, <2>1 DEF Tracks
<1>7. {Ask(c.op, c.item, w) : w \in Value} \subseteq Offer(row)
  <2>1. Offer(row) = {Ask(d.op, d.item, w) : d \in row.changes, w \in Value}
        BY DEF Offer
  <2> QED BY <1>2, <2>1
<1> QED BY <1>5, <1>6, <1>7, LeavesFits

\* What is served afresh changes what the sentence asked for at most, whether
\* the row it leaves is another or not.
LEMMA FreshFits ==
    ASSUME MType, NEW h \in Handler, NEW p \in Fresh(Said(h))
    PROVE  PlanFits(p) /\ p.changes \subseteq {Said(h).request}
<1>1. AllAsk(MenuRoutes) /\ Asks(To(At("menu")))
      BY ViewsAsk, AskedAtAll
<1>2. \/ p \in MenuRoutes \/ p = To(At("menu"))
      \/ p \in routeIntent(Said(h).request)
      BY DEF Fresh
<1> QED BY <1>1, <1>2, RequestServes DEF AllAsk, Asks

\* A status that is written leaves the row of what comes next.
LEMMA TransitionFits ==
    ASSUME NEW i \in Item, NEW p \in performTransition(i)
    PROVE  PlanFits(p) /\ p.changes = {Ask("status", i, None)}
<1>1. Ask("status", i, None) \in Change
      BY DEF Ask, Change, Op, VisitOp
<1>2. PICK r \in {NoRow} \cup {About(a, None, i, None) : a \in {"eta", "idle", "followup"}} :
        p = Then(Uncaught(Ask("status", i, None)), r)
      BY DEF performTransition
<1>3. RowFits(r)
      BY <1>2, NoRowFits, VisitAsked
<1> QED BY <1>1, <1>2, <1>3, ThenFits

\* The prompts of the status, the problem and the note of one visit.
LEMMA StatusServes ==
    ASSUME MType, NEW h \in Handler, EtaReply(h) \/ NoteReply(h) \/ FollowUpReply(h)
    PROVE  Serves(h)
<1> DEFINE i == row.item
           c == Ask("status", i, None)
<1>1. pc[h] = "route" /\ row.at \in {"eta", "note", "followup", "problem"}
      BY DEF EtaReply, NoteReply, FollowUpReply, Conversing
<1>2. i \in Item /\ c \in Change
  <2>1. i \in Item
        BY <1>1, Typed DEF Fits, AboutItem
  <2> QED BY <2>1 DEF Ask, Change, Op, VisitOp
<1>3. row.at \in {"eta", "note", "problem"} => Offer(row) = {c}
      BY DEF Offer
<1>4. ASSUME NEW p, Decide(h, p), PlanFits(p),
             \/ p.changes = {}
             \/ p.changes = {c} /\ row.at \in {"eta", "note", "problem"}
             \/ p.changes \subseteq {Said(h).request}
      PROVE  Serves(h)
      BY <1>1, <1>3, <1>4 DEF Serves
<1>5. ASSUME NEW a \in {"note", "problem", "idle"}
      PROVE  RowFits(About(a, None, i, None)) /\ Asks(To(About(a, None, i, None)))
      BY <1>2, VisitAsked
<1>6. PlanFits(Uncaught(c)) /\ Uncaught(c).changes = {c}
      BY <1>2, UncaughtFits
<1>7. CASE EtaReply(h)
  <2> DEFINE q == About("idle", None, i, None)
             afresh(p) == IF p.keep THEN To(q) ELSE p
  <2>1. /\ row.at = "eta"
        /\ \/ \E p \in performTransition(i) : Decide(h, p)
           \/ Decide(h, Then(Uncaught(c), q))
           \/ \E p \in Fresh(Said(h)) : Decide(h, afresh(p))
        BY <1>7 DEF EtaReply, Conversing
  <2>2. \A p \in performTransition(i) : PlanFits(p) /\ p.changes = {c}
        BY <1>2, TransitionFits
  <2>3. PlanFits(Then(Uncaught(c), q)) /\ Then(Uncaught(c), q).changes = {c}
        BY <1>2, <1>5, ThenFits
  <2>4. ASSUME NEW p \in Fresh(Said(h))
        PROVE  PlanFits(afresh(p)) /\ afresh(p).changes \subseteq {Said(h).request}
        BY <1>5, FreshFits DEF Asks
  <2> HIDE DEF q, afresh, c, i
  <2> QED BY <1>4, <2>1, <2>2, <2>3, <2>4
<1>8. CASE NoteReply(h)
      BY <1>4, <1>6, <1>8 DEF NoteReply, Conversing
<1>9. CASE FollowUpReply(h)
  <2>1. \/ Decide(h, To(About("note", None, i, None)))
        \/ Decide(h, Clear)
        \/ Decide(h, To(About("problem", None, i, None)))
        \/ row.at = "problem" /\ Decide(h, Uncaught(c))
        \/ Decide(h, Stay)
        BY <1>9 DEF FollowUpReply
  <2> QED BY <1>4, <1>5, <1>6, <2>1, ClearAsks, StayAsks DEF Asks
<1> QED BY <1>7, <1>8, <1>9

LEMMA FreshServes ==
    ASSUME MType, NEW h \in Handler,
           FreshMessage(h) \/ Correction(h) \/ PivotReply(h) \/ CapturePivot(h)
             \/ MenuReply(h) \/ ViewReply(h) \/ SearchQuery(h) \/ DigestReply(h)
             \/ ScheduleSearch(h)
    PROVE  Serves(h)
<1>0. pc[h] = "route"
      BY DEF FreshMessage, Correction, PivotReply, CapturePivot, MenuReply, ViewReply,
             SearchQuery, DigestReply, ScheduleSearch, Conversing
<1>1. ASSUME NEW p, Decide(h, p), Asks(p) PROVE Serves(h)
      BY <1>0, <1>1 DEF Serves, Asks
<1>2. ASSUME NEW p, Decide(h, p), PlanFits(p),
             p.changes \subseteq Offer(row) \/ p.changes \subseteq {Said(h).request}
      PROVE  Serves(h)
      BY <1>0, <1>2 DEF Serves
<1>3. CASE FreshMessage(h)
  <2>1. CASE \E p \in Fresh(Said(h)) : Decide(h, p)
        BY <1>2, <2>1, FreshFits
  <2>2. CASE row.at = "idle" /\ \E p \in performTransition(row.item) : Decide(h, p)
    <3>1. row.item \in Item /\ Offer(row) = {Ask("status", row.item, None)}
          BY <2>2, Typed DEF Fits, AboutItem, Offer
    <3> QED BY <1>2, <2>2, <3>1, TransitionFits
  <2> QED BY <1>3, <2>1, <2>2 DEF FreshMessage
<1>4. CASE Correction(h)
      BY <1>1, <1>4, ClearAsks DEF Correction
<1>5. CASE PivotReply(h)
  <2>1. row.at = "pivot"
        BY <1>5 DEF PivotReply, Conversing
  <2>2. \/ \E p \in routeIntent(FirstOf(row.changes)) : Decide(h, [p EXCEPT !.keep = FALSE])
        \/ Decide(h, To(Restored(row)))
        \/ Decide(h, Stay)
        BY <1>5 DEF PivotReply
  <2>3. ASSUME NEW p \in routeIntent(FirstOf(row.changes))
        PROVE  /\ PlanFits([p EXCEPT !.keep = FALSE])
               /\ [p EXCEPT !.keep = FALSE].changes \subseteq Offer(row)
        BY <2>1, WaitedServes
  <2>4. RowFits(Restored(row))
    <3>1. /\ row \in Row /\ row.back \in Picker \cup {"confirm"} /\ Fits(row, row.back)
          BY <2>1 DEF MType, RowFits
    <3>2. /\ Restored(row) \in Row /\ Restored(row).at = row.back
          /\ Restored(row).op = row.op /\ Restored(row).item = row.item
          /\ Restored(row).changes = {}
          BY <3>1 DEF Restored, Row, Prompt
    <3> QED BY <3>1, <3>2 DEF RowFits, Fits, Picker
  <2> QED BY <1>1, <1>2, <2>2, <2>3, <2>4, StayAsks, ToAsks
<1>6. CASE CapturePivot(h)
  <2>1. \/ Decide(h, Again(Clear))
        \/ \E p \in routeIntent(Said(h).request) : Decide(h, [p EXCEPT !.keep = FALSE])
        BY <1>6 DEF CapturePivot
  <2> QED BY <1>1, <1>2, <2>1, ClearAsks, RequestServes
<1>7. CASE MenuReply(h)
      BY <1>1, <1>7, ViewsAsk, AskedAtAll, ClearAsks, StayAsks DEF MenuReply, AllAsk
<1>8. ASSUME NEW v \in Item PROVE Asks(showMgrTaskFieldDetail(v))
      BY AskedAbout DEF showMgrTaskFieldDetail, Prompt, Picker
<1>9. CASE ViewReply(h)
  <2>1. row.list \subseteq Item
        BY Typed
  <2> QED BY <1>1, <1>8, <1>9, <2>1, AskedAtAll, ClearAsks, StayAsks DEF ViewReply
<1>10. CASE SearchQuery(h)
  <2>1. Asks(To(Listing("visits", None, Visit)))
        BY Listed DEF Item
  <2> QED BY <1>1, <1>8, <1>10, <2>1, ClearAsks, StayAsks DEF SearchQuery, Item
<1>11. CASE DigestReply(h)
      BY <1>1, <1>11, AskedAtAll, ClearAsks, StayAsks DEF DigestReply
<1>12. CASE ScheduleSearch(h)
  <2>1. Asks(To(Listing("pick", "schedule", Visit)))
        BY Listed DEF Item
  <2> QED BY <1>1, <1>12, <2>1, ClearAsks, StayAsks DEF ScheduleSearch
<1> QED BY <1>3, <1>4, <1>5, <1>6, <1>7, <1>9, <1>10, <1>11, <1>12

\* A text in a picker: to the picker's own flow, with what is on the screen.
LEMMA MergeServes ==
    ASSUME MType, NEW r \in Request, Numeric, row.at \in Picker \cup {"confirm"},
           r.op = row.op, r.op # None,
           NEW p \in mergeIntoCurrentFlow(row, r)
    PROVE  PlanFits(p) /\ p.changes \subseteq Offer(row)
<1>0. /\ row \in Row /\ Fits(row, row.at) /\ RowFits(row)
      /\ row.item \in Item \cup {None} /\ row.value \in Value \cup {None}
      /\ row.list \subseteq Item
      /\ r.item \in Item \cup {None} /\ r.value \in Value \cup {None}
      /\ row.op \in Op
      BY DEF MType, RowFits, Row, Request
<1>1. row.op \in {"assign", "schedule", "site", "type", "reassign"}
  <2>1. row.op \notin {"delete", "track", "status", "reschedule"}
        BY <1>0 DEF Numeric, Fits, Confirmable
  <2> QED BY <1>0, <2>1 DEF Op, VisitOp
<1>2. CASE row.op = "assign"
  <2> DEFINE l == IF row.item # None THEN row.item ELSE r.item
             w == IF row.value # None THEN row.value ELSE r.value
  <2>1. l \in Item \cup {None} /\ w \in Value \cup {None}
        BY <1>0
  <2>2. p \in mergeAssignLead(row, r)
        BY <1>2 DEF mergeIntoCurrentFlow
  <2>3. \/ l # None /\ p = LeadChosen(l, w)
        \/ p = Stay
        \/ p = To([row EXCEPT !.value = w])
        BY <2>2 DEF mergeAssignLead
  <2> HIDE DEF l, w
  <2>4. RowFits([row EXCEPT !.value = w])
    <3> DEFINE q == [row EXCEPT !.value = w]
    <3>1. /\ q \in Row /\ q.at = row.at /\ q.op = row.op /\ q.item = row.item
          /\ q.changes = row.changes /\ q.back = row.back
          BY <1>0, <2>1 DEF Row
    <3> HIDE DEF q
    <3>2. RowFits(q)
          BY <1>0, <3>1 DEF RowFits, Fits
    <3> QED BY <3>2 DEF q
  <2>5. Asks(p)
        BY <2>1, <2>3, <2>4, LeadAsked, StayAsks, ToAsks
  <2> QED BY <2>5 DEF Asks
<1>3. CASE row.op = "schedule"
  <2>1. p \in mergeSchedule(row, r)
        BY <1>3 DEF mergeIntoCurrentFlow
  <2>2. \/ p = Again(Clear) \/ p = Stay
        \/ r.item \in row.list /\ p \in scheduleProcessChosen(r.item)
        BY <2>1 DEF mergeSchedule
  <2>3. Asks(p)
        BY <1>0, <2>2, ClearAsks, StayAsks, ScheduleAsks DEF AllAsk
  <2> QED BY <2>3 DEF Asks
<1>4. CASE row.op = "reassign"
  <2>1. row.at \in {"confirm", "worker"}
        BY <1>0, <1>4 DEF Fits
  <2>2. p \in mergeReassign(row, r)
        BY <1>4 DEF mergeIntoCurrentFlow
  <2>3. \/ p = Stay
        \/ /\ p = Uncaught(Ask("reassign", row.item, r.value))
           /\ r.value # None /\ (row.at = "confirm" => r.value = row.value)
        BY <2>2 DEF mergeReassign
  <2>4. CASE p = Stay
        BY <2>4, StayAsks DEF Asks
  <2>5. CASE /\ p = Uncaught(Ask("reassign", row.item, r.value))
             /\ r.value # None /\ (row.at = "confirm" => r.value = row.value)
    <3>1. Ask("reassign", row.item, r.value) \in Change
          BY <1>0 DEF Ask, Change, Op, VisitOp
    <3>2. PlanFits(p) /\ p.changes = {Ask("reassign", row.item, r.value)}
          BY <2>5, <3>1, UncaughtFits
    <3>3. Ask("reassign", row.item, r.value) \in Offer(row)
          BY <1>0, <1>4, <2>1, <2>5 DEF Offer
    <3> QED BY <3>2, <3>3
  <2> QED BY <2>3, <2>4, <2>5
<1>5. CASE row.op \in {"site", "type"}
  <2>1. p \in startCorrection(row.op, r.item)
        BY <1>5 DEF mergeIntoCurrentFlow, mergeCorrection
  <2>2. Asks(p)
        BY <1>0, <1>5, <2>1, CorrectionAsks DEF AllAsk
  <2> QED BY <2>2 DEF Asks
<1> QED BY <1>1, <1>2, <1>3, <1>4, <1>5

LEMMA EscapeServes ==
    ASSUME MType, NEW h \in Handler, SmartPickerEscape(h)
    PROVE  Serves(h)
<1> DEFINE r == Said(h).request
<1>1. /\ pc[h] = "route" /\ Numeric /\ row.at \in Picker \cup {"confirm"}
      /\ \/ Decide(h, Stay)
         \/ Decide(h, Again(Clear))
         \/ r.op = row.op /\ r.op # None /\ \E p \in mergeIntoCurrentFlow(row, r) : Decide(h, p)
         \/ r.op # None /\ Decide(h, promptPivotConfirm(row, r))
      BY DEF SmartPickerEscape, Conversing
<1>2. r \in Request /\ (r.op = "track" => r.item = None) /\ row \in Row /\ Fits(row, row.at)
      BY Typed
<1>3. ASSUME r.op # None PROVE Asks(promptPivotConfirm(row, r))
  <2> DEFINE q == [row EXCEPT !.at = "pivot", !.back = row.at, !.changes = {r}]
  <2>1. r \in Change
        BY <1>2, <1>3 DEF Request, Change
  <2>2. /\ q \in Row /\ q.at = "pivot" /\ q.back = row.at /\ q.changes = {r}
        /\ q.op = row.op /\ q.item = row.item
        BY <1>2, <2>1 DEF Row, Prompt
  <2>3. promptPivotConfirm(row, r) = To(q)
        BY DEF promptPivotConfirm
  <2> HIDE DEF q
  <2>4. RowFits(q)
        BY <1>1, <1>2, <2>2 DEF RowFits, Fits, Picker, AboutItem
  <2> QED BY <2>3, <2>4, ToAsks
<1>4. ASSUME r.op = row.op, r.op # None, NEW p \in mergeIntoCurrentFlow(row, r)
      PROVE  PlanFits(p) /\ p.changes \subseteq Offer(row)
      BY <1>1, <1>2, <1>4, MergeServes
<1> HIDE DEF r
<1> QED BY <1>1, <1>3, <1>4, StayAsks, ClearAsks DEF Serves, Asks

\* At the details of a visit one change is made at once; several, or one that
\* is only inferred, are put to a confirmation.
LEMMA DetailServes ==
    ASSUME MType, NEW h \in Handler, DetailAction(h)
    PROVE  Serves(h)
<1> DEFINE i == row.item
           t == TaskOf(row)
           x == Said(h).request.value
<1>1. /\ pc[h] = "route" /\ row.at = "action"
      /\ \/ \E p \in ActionRoutes(i, t) : Decide(h, p)
         \/ Decide(h, To(At("menu")))
         \/ Decide(h, Clear)
         \/ Decide(h, Stay)
         \/ \E p \in handleMgrActionFreeText(i, t, x) : Decide(h, p)
      BY DEF DetailAction, Conversing
<1>2. i \in Item /\ t \in Item \cup {None} /\ x \in Value \cup {None} /\ None \notin Value
      BY <1>1, Typed DEF Fits, AboutItem, None, TaskOf
<1>3. /\ Asks(To(About("fields", "site", i, None))) /\ Asks(To(About("types", "type", i, None)))
      /\ Asks(To(About("worker", "reassign", t, None)))
      BY <1>2, AskedAbout, WorkerAsked DEF Prompt, Picker, Op, VisitOp
<1>4. AllAsk(ActionRoutes(i, t))
      BY <1>3, AskedAtAll DEF ActionRoutes, AllAsk
<1>5. ASSUME NEW o \in {"site", "type", "reassign", "reschedule", "status"}, NEW v \in Value \cup {None}
      PROVE  /\ Ask(o, i, v) \in Change /\ Ask(o, i, v) \in Offer(row)
             /\ Ask(o, i, v).op # "track"
             /\ PlanFits(Do({Ask(o, i, v)})) /\ Do({Ask(o, i, v)}).changes \subseteq Offer(row)
  <2>1. Ask(o, i, v) \in Change /\ Ask(o, i, v).op # "track"
        BY <1>2 DEF Ask, Change, Op, VisitOp
  <2>2. Ask(o, i, v) \in Offer(row)
    <3>1. Offer(row) = {Ask(a, row.item, w) : a \in VisitOp, w \in Value \cup {None}}
          BY <1>1 DEF Offer
    <3> QED BY <3>1 DEF VisitOp
  <2> QED BY <2>1, <2>2, DoFits
<1>6. ASSUME NEW p \in confirmActions(i, t, x)
      PROVE  Asks(p)
  <2> DEFINE a == About("multi", None, i, None)
  <2>0. /\ Ask("reassign", t, x) \in Change /\ Ask("reassign", t, x).op # "track"
        /\ \A o \in {"site", "type", "reschedule"} :
              Ask(o, i, x) \in Change /\ Ask(o, i, x).op # "track"
    <3>1. Ask("reassign", t, x) \in Change /\ Ask("reassign", t, x).op # "track"
          BY <1>2 DEF Ask, Change, Op, VisitOp
    <3> QED BY <1>2, <1>5, <3>1
  <2>1. PICK s \in {{Ask("reassign", t, x)}} \cup
                     {{Ask("reassign", t, x), Ask(o, i, x)} : o \in {"site", "type", "reschedule"}} :
          p = To([a EXCEPT !.changes = s])
        BY <1>6 DEF confirmActions
  <2>2. s \subseteq Change /\ s # {} /\ \A c \in s : c.op # "track"
        BY <2>0, <2>1
  <2>3. a \in Row /\ a.at = "multi"
    <3>1. "multi" \in Prompt /\ i \in Item \cup {None}
          BY <1>2 DEF Prompt
    <3> QED BY <3>1, AboutRow
  <2> HIDE DEF a
  <2> DEFINE q == [a EXCEPT !.changes = s]
  <2>4. q \in Row /\ q.at = "multi" /\ q.changes = s
        BY <2>2, <2>3 DEF Row
  <2> HIDE DEF q
  <2>5. RowFits(q)
        BY <2>2, <2>4 DEF RowFits, Fits, AboutItem, Picker
  <2> QED BY <2>1, <2>5, ToAsks DEF q
<1>7. ASSUME NEW p \in inlineStatus(i)
      PROVE  PlanFits(p) /\ p.changes \subseteq Offer(row)
  <2>1. Ask("status", i, None) \in Offer(row)
        BY <1>5
  <2>2. CASE p \in performTransition(i)
        BY <1>2, <2>1, <2>2, TransitionFits
  <2>3. CASE p \in {To(About(a, None, i, None)) : a \in {"note", "problem"}}
        BY <1>2, <2>3, VisitAsked DEF Asks
  <2>4. CASE p = To(About("action", "status", i, None))
        BY <1>2, <2>4, AskedAbout DEF Asks, Prompt, Picker, Op, VisitOp
  <2> QED BY <1>7, <2>2, <2>3, <2>4 DEF inlineStatus
<1>8. ASSUME NEW p \in dispatchSingleAction(i, t, x)
      PROVE  PlanFits(p) /\ p.changes \subseteq Offer(row)
  <2>1. \/ p \in {Stay, Clear} \/ p \in ActionRoutes(i, t)
        \/ x # None /\ p = To(About("confirm", "site", i, x))
        \/ p = Do({Ask("reschedule", i, x)})
        \/ /\ x # None
           /\ \E s \in SUBSET Value : p = Each({Ask("site", i, w) : w \in s \cup {x}})
        BY <1>8 DEF dispatchSingleAction
  <2>2. CASE x # None /\ p = To(About("confirm", "site", i, x))
        BY <1>2, <2>2, AskedAbout DEF Asks, Prompt, Picker, Confirmable, Op, VisitOp
  <2>3. CASE x # None /\ \E s \in SUBSET Value : p = Each({Ask("site", i, w) : w \in s \cup {x}})
    <3>1. PICK s \in SUBSET Value : p = Each({Ask("site", i, w) : w \in s \cup {x}})
          BY <2>3
    <3> DEFINE c == {Ask("site", i, w) : w \in s \cup {x}}
    <3>2. c \in SUBSET Change /\ c \subseteq Offer(row)
          BY <1>2, <1>5, <2>3
    <3> HIDE DEF c
    <3>3. PlanFits(Each(c)) /\ Each(c).changes = c
          BY <3>2, EachFits
    <3> QED BY <3>1, <3>2, <3>3 DEF c
  <2>4. CASE p = Do({Ask("reschedule", i, x)})
        BY <1>2, <1>5, <2>4
  <2>5. CASE p \in {Stay, Clear} \/ p \in ActionRoutes(i, t)
        BY <1>4, <2>5, StayAsks, ClearAsks DEF AllAsk, Asks
  <2> QED BY <2>1, <2>2, <2>3, <2>4, <2>5
<1>9. ASSUME NEW p \in handleMgrActionFreeText(i, t, x)
      PROVE  PlanFits(p) /\ p.changes \subseteq Offer(row)
  <2>1. \/ p \in inlineStatus(i) \/ p \in dispatchSingleAction(i, t, x)
        \/ p \in confirmActions(i, t, x)
        BY <1>9 DEF handleMgrActionFreeText
  <2> QED BY <1>6, <1>7, <1>8, <2>1 DEF Asks
<1> HIDE DEF i, t, x
<1> QED BY <1>1, <1>4, <1>9, AskedAtAll, StayAsks, ClearAsks DEF Serves, Asks, AllAsk

LEMMA PickServes ==
    ASSUME MType, NEW h \in Handler, MultiReply(h) \/ PickReply(h)
    PROVE  Serves(h)
<1>0. /\ pc[h] = "route" /\ row.changes \subseteq Change /\ row.list \subseteq Item
      /\ Fits(row, row.at) /\ row.value \in Value \cup {None} /\ row.item \in Item \cup {None}
      BY Typed DEF MultiReply, PickReply, Conversing
<1>1. CASE MultiReply(h)
  <2>1. row.at = "multi" /\ (Decide(h, Do(row.changes)) \/ Decide(h, Clear))
        BY <1>1 DEF MultiReply, Conversing
  <2>2. Offer(row) = row.changes
        BY <2>1 DEF Offer
  <2>3. PlanFits(Do(row.changes)) /\ Do(row.changes).changes = row.changes
        BY <1>0, DoFits
  <2> QED BY <1>0, <2>1, <2>2, <2>3, ClearAsks DEF Serves, Asks
<1>2. CASE PickReply(h)
  <2>1. \/ row.at = "pick" /\ \E i \in row.list : \E p \in itemPicked(row, i) : Decide(h, p)
        \/ row.at = "worker" /\ \E w \in Value : Decide(h, workerPicked(row, w))
        \/ /\ row.at = "disambig"
           /\ \E p \in executeIntent(FirstOf(row.changes)) : Decide(h, [p EXCEPT !.keep = FALSE])
        \/ Decide(h, To(At("search"))) \/ Decide(h, Clear) \/ Decide(h, Stay)
        BY <1>2 DEF PickReply
  <2>2. ASSUME NEW i \in row.list PROVE AllAsk(itemPicked(row, i))
        BY <1>0, LeadAsked, ScheduleAsks DEF itemPicked, AllAsk
  <2>3. ASSUME NEW w \in Value, row.at = "worker"
        PROVE  /\ PlanFits(workerPicked(row, w))
               /\ workerPicked(row, w).changes \subseteq Offer(row)
    <3>1. row.op \in {"assign", "reassign"} /\ (row.op = "assign" => row.item \in Item)
          BY <1>0, <2>3 DEF Fits
    <3>2. CASE row.op = "assign"
      <4>1. Asks(To(About("confirm", "assign", row.item, w)))
            BY <3>1, <3>2, AskedAbout DEF Prompt, Picker, Confirmable, Op
      <4> QED BY <3>2, <4>1 DEF workerPicked, Asks
    <3>3. CASE row.op = "reassign"
      <4>1. Ask("reassign", row.item, w) \in Change
            BY <1>0 DEF Ask, Change, Op, VisitOp
      <4>2. Ask("reassign", row.item, w) \in Offer(row)
            BY <2>3, <3>3 DEF Offer
      <4> QED BY <3>3, <4>1, <4>2, UncaughtFits DEF workerPicked
    <3> QED BY <3>1, <3>2, <3>3
  <2>4. ASSUME row.at = "disambig", NEW p \in executeIntent(FirstOf(row.changes))
        PROVE  /\ PlanFits([p EXCEPT !.keep = FALSE])
               /\ [p EXCEPT !.keep = FALSE].changes \subseteq Offer(row)
        BY <2>4, WaitedServes
  <2> QED BY <1>0, <2>1, <2>2, <2>3, <2>4, AskedAtAll, StayAsks, ClearAsks
          DEF Serves, Asks, AllAsk
<1> QED BY <1>1, <1>2

LEMMA HintServes ==
    ASSUME MType, NEW h \in Handler, HintReply(h)
    PROVE  Serves(h)
<1>0. /\ pc[h] = "route" /\ row.at = "hint"
      /\ row.op \in Op \cup {None} /\ row.value \in Value \cup {None}
      BY Typed DEF HintReply, Conversing
<1>1. \/ Decide(h, Clear) \/ Decide(h, Stay)
      \/ \E w \in Value : Decide(h, Do({Ask("track", None, w)}))
      \/ /\ row.op # "track"
         /\ \E v \in Visit : \E p \in executeIntent(Ask(row.op, v, row.value)) : Decide(h, p)
      BY DEF HintReply
<1>2. ASSUME NEW w \in Value
      PROVE  /\ PlanFits(Do({Ask("track", None, w)}))
             /\ Do({Ask("track", None, w)}).changes \subseteq Offer(row)
  <2>1. Ask("track", None, w) \in Change
        BY DEF Ask, Change, Op
  <2>2. Ask("track", None, w) \in Offer(row)
        BY <1>0 DEF Offer
  <2> QED BY <2>1, <2>2, DoFits
<1>3. ASSUME row.op # "track", NEW v \in Visit, NEW p \in executeIntent(Ask(row.op, v, row.value))
      PROVE  Asks(p)
  <2> DEFINE r == Ask(row.op, v, row.value)
  <2>1. r \in Request /\ r.op # "track"
        BY <1>0, <1>3 DEF Ask, Request, Item
  <2> HIDE DEF r
  <2>2. PlanFits(p) /\ p.changes \subseteq Tracks(r)
        BY <1>3, <2>1, IntentFits DEF r
  <2> QED BY <2>1, <2>2 DEF Tracks, Asks
<1> QED BY <1>0, <1>1, <1>2, <1>3, StayAsks, ClearAsks DEF Serves, Asks

LEMMA ConfirmedFits ==
    ASSUME MType, row.at = "confirm"
    PROVE  PlanFits(Confirmed(row)) /\ Confirmed(row).changes \subseteq Offer(row)
<1> DEFINE c == Ask(row.op, row.item, row.value)
<1>1. /\ row \in Row /\ row.op \in Confirmable
      BY DEF MType, RowFits, Fits
<1>2. c \in Change
      BY <1>1 DEF Ask, Change, Row, Confirmable, Op, VisitOp
<1>3. Offer(row) = {c}
      BY DEF Offer
<1>4. Confirmed(row) = Uncaught(c) \/ Confirmed(row) = Do({c})
      BY DEF Confirmed
<1> QED BY <1>2, <1>3, <1>4, DoFits, UncaughtFits

LEMMA LastServes ==
    ASSUME MType, NEW h \in Handler,
           ScheduleTime(h) \/ ScheduleDuration(h) \/ SiteValueReply(h) \/ TypeReply(h)
             \/ ConfirmReply(h) \/ CalendarDeleteReply(h) \/ IntentReply(h)
    PROVE  Serves(h)
<1>0. /\ pc[h] = "route" /\ Fits(row, row.at) /\ row.item \in Item \cup {None}
      /\ row.value \in Value \cup {None}
      /\ Said(h).request.value \in Value \cup {None}
      BY Typed DEF ScheduleTime, ScheduleDuration, SiteValueReply, TypeReply, ConfirmReply,
                   CalendarDeleteReply, IntentReply, Conversing
<1>1. ASSUME NEW p, Decide(h, p), Asks(p) PROVE Serves(h)
      BY <1>0, <1>1 DEF Serves, Asks
<1>2. ASSUME NEW p, Decide(h, p), PlanFits(p), p.changes \subseteq Offer(row)
      PROVE  Serves(h)
      BY <1>0, <1>2 DEF Serves
<1>3. ASSUME row.at \in AboutItem, NEW a \in {"confirm", "duration", "fields"},
             NEW o \in {"schedule", "site", "type"}, NEW v \in Value \cup {None}
      PROVE  Asks(To(About(a, o, row.item, v)))
  <2>1. row.item \in Item
        BY <1>0, <1>3 DEF Fits
  <2> QED BY <2>1, AskedAbout DEF Prompt, Picker, Confirmable, Op, VisitOp
<1>4. CASE ScheduleTime(h)
  <2>1. row.at \in AboutItem
        BY <1>4 DEF ScheduleTime, Conversing, AboutItem
  <2> QED BY <1>0, <1>1, <1>3, <1>4, <2>1, StayAsks, ClearAsks DEF ScheduleTime
<1>5. CASE ScheduleDuration(h)
  <2>1. row.at \in AboutItem
        BY <1>5 DEF ScheduleDuration, Conversing, AboutItem
  <2> QED BY <1>0, <1>1, <1>3, <1>5, <2>1, StayAsks, ClearAsks DEF ScheduleDuration
<1>6. CASE SiteValueReply(h)
  <2> DEFINE v == Said(h).request.value
  <2>1. row.at = "fields" /\ row.at \in AboutItem
        BY <1>6 DEF SiteValueReply, Conversing, AboutItem
  <2>2. \/ v # None /\ Decide(h, Uncaught(Ask("site", row.item, v)))
        \/ Decide(h, To(About("confirm", "site", row.item, v)))
        \/ Decide(h, Stay)
        BY <1>6 DEF SiteValueReply
  <2>3. v # None => /\ PlanFits(Uncaught(Ask("site", row.item, v)))
                    /\ Uncaught(Ask("site", row.item, v)).changes \subseteq Offer(row)
    <3>1. Ask("site", row.item, v) \in Change
          BY <1>0 DEF Ask, Change, Op, VisitOp
    <3>2. v # None => Ask("site", row.item, v) \in Offer(row)
          BY <1>0, <2>1 DEF Offer
    <3> QED BY <3>1, <3>2, UncaughtFits
  <2> QED BY <1>0, <1>1, <1>2, <1>3, <2>1, <2>2, <2>3, StayAsks
<1>7. CASE TypeReply(h)
  <2>1. row.at \in AboutItem
        BY <1>7 DEF TypeReply, Conversing, AboutItem
  <2> QED BY <1>1, <1>3, <1>7, <2>1, StayAsks, ClearAsks DEF TypeReply
<1>8. CASE ConfirmReply(h)
  <2>1. row.at = "confirm" /\ row.at \in AboutItem
        BY <1>8 DEF ConfirmReply, Conversing, AboutItem
  <2>2. \/ Decide(h, Confirmed(row)) \/ Decide(h, Clear) \/ Decide(h, Stay)
        \/ Decide(h, To(About("fields", "site", row.item, None)))
        BY <1>8 DEF ConfirmReply
  <2> QED BY <1>1, <1>2, <1>3, <2>1, <2>2, ConfirmedFits, StayAsks, ClearAsks
<1>9. CASE CalendarDeleteReply(h)
  <2>1. row.at = "confirm" /\ (Decide(h, Confirmed(row)) \/ Decide(h, Clear))
        BY <1>9 DEF CalendarDeleteReply, Conversing
  <2> QED BY <1>1, <1>2, <2>1, ConfirmedFits, ClearAsks
<1>10. CASE IntentReply(h)
  <2> DEFINE c == FirstOf(row.changes)
  <2>1. row.at \in {"intent", "field"}
        BY <1>10 DEF IntentReply, Conversing
  <2>2. \/ Decide(h, Clear) \/ Decide(h, Again(Clear))
        \/ \E v \in {c.value, Said(h).request.value} :
             \E p \in executeIntent([c EXCEPT !.value = IF @ = None THEN v ELSE @]) :
                Decide(h, [p EXCEPT !.keep = FALSE])
        BY <1>10 DEF IntentReply
  <2>3. c.value \in Value \cup {None}
    <3>1. c \in row.changes /\ row.changes \subseteq Change
          BY <2>1, Typed DEF MType, RowFits, FirstOf
    <3> QED BY <3>1 DEF Change
  <2>4. ASSUME NEW v \in Value \cup {None},
               NEW p \in executeIntent([c EXCEPT !.value = IF @ = None THEN v ELSE @])
        PROVE  /\ PlanFits([p EXCEPT !.keep = FALSE])
               /\ [p EXCEPT !.keep = FALSE].changes \subseteq Offer(row)
        BY <2>1, <2>4, WaitedServes
  <2> HIDE DEF c
  <2> QED BY <1>0, <1>1, <1>2, <2>2, <2>3, <2>4, ClearAsks
<1> QED BY <1>4, <1>5, <1>6, <1>7, <1>8, <1>9, <1>10

LEMMA ServeServes ==
    ASSUME MType, NEW h \in Handler, Serve(h)
    PROVE  Serves(h)
<1>1. CASE \/ FreshMessage(h) \/ Correction(h) \/ PivotReply(h) \/ CapturePivot(h)
           \/ MenuReply(h) \/ ViewReply(h) \/ SearchQuery(h) \/ DigestReply(h)
           \/ ScheduleSearch(h)
      BY <1>1, FreshServes
<1>4. CASE EtaReply(h) \/ NoteReply(h) \/ FollowUpReply(h)
      BY <1>4, StatusServes
<1>2. CASE SmartPickerEscape(h) \/ DetailAction(h) \/ MultiReply(h) \/ PickReply(h) \/ HintReply(h)
      BY <1>2, EscapeServes, DetailServes, PickServes, HintServes
<1>3. CASE \/ ScheduleTime(h) \/ ScheduleDuration(h) \/ SiteValueReply(h) \/ TypeReply(h)
           \/ ConfirmReply(h) \/ CalendarDeleteReply(h) \/ IntentReply(h)
      BY <1>3, LastServes
<1> QED BY <1>1, <1>2, <1>3, <1>4, Zenon DEF Serve

-----------------------------------------------------------------------------
(* The inductive invariant.                                                *)

\* A handler that writes has something to write.
Occupied == \A h \in Handler : pc[h] = "write" => plan[h].changes # {}

Bounded ==
    /\ overlaps \in Nat
    /\ broken \in Nat
    /\ messages \in 0..MaxMessages
    /\ events \in 0..MaxEvents

\* Messages that come one by one are served one by one, the row is the prompt
\* on the screen or it is gone, and whoever decides saw that prompt.
OneByOne ==
    /\ \A g, h \in Handler : pc[g] # "idle" /\ pc[h] # "idle" => g = h
    /\ row \in {screen.row, NoRow}
    /\ \A h \in Handler : pc[h] = "route" => row \in {text[h].seen.row, NoRow}

MInv ==
    /\ MType
    /\ Occupied
    /\ Bounded
    /\ overlaps = 0 /\ broken = 0 => OneByOne

LEMMA NoTextFits == TextFits(NoText)
<1> DEFINE m == Says("menu", Nothing, NoTap)
<1>1. Nothing \in Request /\ Nothing.op = None
      BY DEF Nothing, Ask, Request
<1>2. NoTap \in [at : Prompt, op : Op \cup {None}]
      BY DEF NoTap, Prompt
<1>3. m.request = Nothing /\ m.tapped = NoTap
      BY DEF Says
<1>4. NoRow \in Row
      BY NoRowFits DEF RowFits
<1> HIDE DEF m
<1>5. NoText = [said |-> m, seen |-> [row |-> NoRow, number |-> 0]]
      BY DEF NoText, m
<1> QED BY <1>1, <1>2, <1>3, <1>4, <1>5 DEF TextFits, None

\* Whatever he sends has the form of a request.
LEMMA SentFits ==
    ASSUME MType, NEW m \in Message, NEW s \in Resolved(m)
    PROVE  /\ s.left \in [at : Prompt, op : Op \cup {None}]
           /\ TextFits([said |-> s.said, seen |-> screen])
<1>1. Nothing \in Request /\ Nothing.op = None
      BY DEF Nothing, Ask, Request
<1>2. NoTap \in [at : Prompt, op : Op \cup {None}]
      BY DEF NoTap, Prompt
<1>3. ASSUME NEW r \in Sentence
      PROVE  r \in Request /\ (r.op = "track" => r.item = None)
  <2>1. CASE r \in {Ask(None, None, v) : v \in Value}
        BY <2>1 DEF Ask, Request, None
  <2>2. CASE r \in [op : {"track"}, item : {None}, value : Value \cup {None}]
        BY <2>2 DEF Request, Op
  <2>3. CASE \/ r \in [op : {"assign"}, item : Lead \cup {None}, value : Value \cup {None}]
             \/ r \in [op : {"reassign"}, item : Visit \cup {None}, value : Value \cup {None}]
        BY <2>3 DEF Request, Op, VisitOp, Item
  <2>4. CASE \/ r \in [op : {"schedule", "site", "type"}, item : Visit \cup {None}, value : {None}]
             \/ r \in [op : {"delete"}, item : Event \cup {None}, value : {None}]
        BY <2>4 DEF Request, Op, VisitOp, Item
  <2> QED BY <2>1, <2>2, <2>3, <2>4 DEF Sentence
<1>4. /\ m.request \in Request /\ (m.request.op = "track" => m.request.item = None)
      /\ m.tapped = NoTap
  <2>1. CASE \E k \in PlainKind : m = Says(k, Nothing, NoTap)
        BY <1>1, <2>1 DEF Says, None
  <2>2. CASE \E r \in Sentence : m = Says("sentence", r, NoTap)
        BY <1>3, <2>2 DEF Says
  <2> QED BY <2>1, <2>2 DEF Message
<1>5. \/ s = [said |-> m, left |-> choice]
      \/ s = [said |-> Says("tap", Nothing, choice), left |-> NoTap]
      BY DEF Resolved
<1>6. /\ s.said.request \in Request /\ (s.said.request.op = "track" => s.said.request.item = None)
      /\ s.said.tapped \in [at : Prompt, op : Op \cup {None}]
      /\ s.left \in [at : Prompt, op : Op \cup {None}]
  <2>1. CASE s = [said |-> m, left |-> choice]
        BY <1>2, <1>4, <2>1 DEF MType
  <2>2. CASE s = [said |-> Says("tap", Nothing, choice), left |-> NoTap]
        BY <1>1, <1>2, <2>2 DEF MType, Says, None
  <2> QED BY <1>5, <2>1, <2>2
<1> QED BY <1>6 DEF TextFits, MType

LEMMA WrittenFits ==
    ASSUME NEW p, PlanFits(p), NEW c
    PROVE  PlanFits([p EXCEPT !.changes = @ \ {c}])
<1> DEFINE q == [p EXCEPT !.changes = @ \ {c}]
<1>1. p \in Plan
      BY DEF PlanFits
<1>2. /\ q \in Plan /\ q.keep = p.keep /\ q.next = p.next /\ q.again = p.again
      /\ q.changes = p.changes \ {c} /\ q.caught = p.caught
      BY <1>1 DEF Plan
<1> HIDE DEF q
<1>3. PlanFits(q)
      BY <1>2 DEF PlanFits
<1> QED BY <1>3 DEF q

LEMMA Initially == Init => MInv
<1> SUFFICES ASSUME Init PROVE MInv
    OBVIOUS
<1>1. RowFits(row) /\ row.at \in Prompt
  <2>1. RowFits(NoRow)
        BY NoRowFits
  <2>2. RowFits(At("menu"))
    <3> DEFINE r == At("menu")
    <3>1. r \in Row /\ r.at = "menu" /\ r.op = None /\ r.changes = {}
          BY AtRow DEF Prompt, Picker
    <3> HIDE DEF r
    <3>2. RowFits(r)
          BY <3>1 DEF RowFits, Fits, AboutItem, None
    <3> QED BY <3>2 DEF r
  <2>3. RowFits(Listing("visits", None, Visit))
    <3> DEFINE r == Listing("visits", None, Visit)
    <3>0. "visits" \in Prompt /\ Visit \in SUBSET Item
          BY DEF Prompt, Picker, Item
    <3>1. r \in Row /\ r.at = "visits" /\ r.op = None /\ r.changes = {}
          BY <3>0, ListingRow
    <3> HIDE DEF r
    <3>2. RowFits(r)
          BY <3>1 DEF RowFits, Fits, AboutItem, None
    <3> QED BY <3>2 DEF r
  <2>4. \A v \in Visit : RowFits(About("action", None, v, None))
        BY AskedAbout DEF Prompt, Picker, Item
  <2>5. RowFits(row)
        BY <2>1, <2>2, <2>3, <2>4 DEF Init, Begun
  <2> QED BY <2>5 DEF RowFits, Row
<1>2. owner \in [Lead -> Value \cup {None}]
      BY DEF Init
<1>3. choice \in [at : Prompt, op : Op \cup {None}]
      BY <1>1 DEF Init, Prompt
<1>4. pc \in [Handler -> {"idle", "route", "write", "settle"}] /\ \A h \in Handler : pc[h] = "idle"
      BY DEF Init
<1>5. text = [h \in Handler |-> text[h]] /\ \A h \in Handler : TextFits(text[h])
      BY NoTextFits DEF Init
<1>6. plan = [h \in Handler |-> plan[h]] /\ \A h \in Handler : PlanFits(plan[h])
      BY StayAsks DEF Init, Asks
<1>7. screen = [row |-> screen.row, number |-> screen.number] /\ screen.row = row
      BY DEF Init
<1>8. MType
      BY <1>1, <1>2, <1>3, <1>4, <1>5, <1>6, <1>7 DEF MType, RowFits
<1>9. Bounded
      BY DEF Init, Bounded
<1> QED BY <1>4, <1>7, <1>8, <1>9 DEF MInv, Occupied, OneByOne

-----------------------------------------------------------------------------
(* Each step keeps it.                                                     *)

Handled ==
    /\ pc \in [Handler -> {"idle", "route", "write", "settle"}]
    /\ text = [h \in Handler |-> text[h]] /\ \A h \in Handler : TextFits(text[h])
    /\ plan = [h \in Handler |-> plan[h]] /\ \A h \in Handler : PlanFits(plan[h])
    /\ Occupied

\* The others go on as they were, and h is no longer deciding.
Moves(h) ==
    /\ pc[h] # "idle"
    /\ \A g \in Handler \ {h} : pc'[g] = pc[g] /\ text'[g] = text[g]
    /\ pc'[h] # "route"

LEMMA Disposes ==
    ASSUME Handled, NEW h \in Handler, NEW p, PlanFits(p), NEW q, NEW t, TextFits(t),
           q = "write" => p.changes # {},
           q \in {"idle", "route", "write", "settle"},
           plan' = [plan EXCEPT ![h] = p],
           pc' = [pc EXCEPT ![h] = q],
           text' = [text EXCEPT ![h] = t]
    PROVE  /\ Handled' /\ pc'[h] = q /\ plan'[h] = p /\ text'[h] = t
           /\ \A g \in Handler \ {h} : pc'[g] = pc[g] /\ text'[g] = text[g]
<1>1. pc' \in [Handler -> {"idle", "route", "write", "settle"}] /\ pc'[h] = q
      /\ \A g \in Handler \ {h} : pc'[g] = pc[g]
      BY DEF Handled
<1>2. plan' = [g \in Handler |-> plan'[g]] /\ plan'[h] = p
      /\ \A g \in Handler \ {h} : plan'[g] = plan[g]
      BY DEF Handled
<1>3. text' = [g \in Handler |-> text'[g]] /\ text'[h] = t
      /\ \A g \in Handler \ {h} : text'[g] = text[g]
      BY DEF Handled
<1>4. \A g \in Handler : TextFits(text'[g])
      BY <1>3 DEF Handled
<1>5. \A g \in Handler : PlanFits(plan'[g])
      BY <1>2 DEF Handled
<1>6. \A g \in Handler : pc'[g] = "write" => plan'[g].changes # {}
      BY <1>1, <1>2 DEF Handled, Occupied
<1> HIDE DEF Handled
<1>7. Handled'
      BY <1>1, <1>2, <1>3, <1>4, <1>5, <1>6 DEF Handled, Occupied
<1> QED BY <1>1, <1>2, <1>3, <1>7

LEMMA EndsMoves ==
    ASSUME Handled, NEW h \in Handler, pc[h] # "idle", Ends(h)
    PROVE  Handled' /\ Moves(h) /\ pc'[h] = "idle"
<1> DEFINE q == "idle"
           p == Stay
           t == NoText
<1>1. /\ plan' = [plan EXCEPT ![h] = p]
      /\ pc' = [pc EXCEPT ![h] = q]
      /\ text' = [text EXCEPT ![h] = t]
      BY DEF Ends
<1>2. PlanFits(p) /\ TextFits(t)
      BY StayAsks, NoTextFits DEF Asks
<1>3. q \in {"idle", "route", "write", "settle"} /\ (q = "write" => p.changes # {})
      OBVIOUS
<1> HIDE DEF q, p, t
<1>4. /\ Handled' /\ pc'[h] = q /\ plan'[h] = p /\ text'[h] = t
      /\ \A g \in Handler \ {h} : pc'[g] = pc[g] /\ text'[g] = text[g]
      BY <1>1, <1>2, <1>3, Disposes
<1> QED BY <1>4 DEF Moves, q

LEMMA ContinuesMoves ==
    ASSUME Handled, NEW h \in Handler, pc[h] # "idle", NEW p, PlanFits(p), Continues(h, p)
    PROVE  Handled' /\ Moves(h)
<1> DEFINE q == IF p.changes = {} THEN "settle" ELSE "write"
           t == text[h]
<1>1. /\ plan' = [plan EXCEPT ![h] = p]
      /\ pc' = [pc EXCEPT ![h] = q]
      /\ text' = [text EXCEPT ![h] = t]
      BY DEF Continues, Handled
<1>2. TextFits(t)
      BY DEF Handled
<1>3. q \in {"settle", "write"} /\ (q = "write" => p.changes # {})
      OBVIOUS
<1>0. q \in {"idle", "route", "write", "settle"} /\ (q = "write" => p.changes # {})
      BY <1>3
<1> HIDE DEF q, t
<1>4. /\ Handled' /\ pc'[h] = q /\ plan'[h] = p /\ text'[h] = t
      /\ \A g \in Handler \ {h} : pc'[g] = pc[g] /\ text'[g] = text[g]
      BY <1>0, <1>1, <1>2, Disposes
<1> QED BY <1>3, <1>4 DEF Moves

LEMMA DecideMoves ==
    ASSUME Handled, NEW h \in Handler, pc[h] # "idle", NEW p, PlanFits(p), Decide(h, p)
    PROVE  Handled' /\ Moves(h) /\ plan'[h] = p
<1> DEFINE q == IF p.changes = {} THEN "settle" ELSE "write"
           n == IF p.changes = {} THEN 0 ELSE text[h].seen.number
           t == IF p.again THEN text[h] ELSE [NoText EXCEPT !.seen.number = n]
<1>1. /\ plan' = [plan EXCEPT ![h] = p]
      /\ pc' = [pc EXCEPT ![h] = q]
      /\ text' = [text EXCEPT ![h] = t]
      BY DEF Decide, Handled
<1>2. TextFits(t)
  <2>1. TextFits(text[h]) /\ TextFits(NoText)
        BY NoTextFits DEF Handled
  <2> DEFINE u == NoText
  <2> HIDE DEF u
  <2>2. TextFits(u)
        BY <2>1 DEF u
  <2>3. TextFits([u EXCEPT !.seen.number = n])
    <3> DEFINE w == [u EXCEPT !.seen.number = n]
    <3> HIDE DEF n
    <3>1. /\ u = [said |-> u.said, seen |-> u.seen]
          /\ u.seen = [row |-> u.seen.row, number |-> u.seen.number]
          BY <2>2 DEF TextFits
    <3>2. w = [said |-> u.said, seen |-> [row |-> u.seen.row, number |-> n]]
          BY <3>1
    <3> HIDE DEF w
    <3>3. TextFits(w)
          BY <2>2, <3>2 DEF TextFits
    <3> QED BY <3>3 DEF w
  <2> QED BY <2>1, <2>3 DEF u
<1>3. q \in {"settle", "write"} /\ (q = "write" => p.changes # {})
      OBVIOUS
<1>4. q \in {"idle", "route", "write", "settle"} /\ (q = "write" => p.changes # {})
      BY <1>3
<1> HIDE DEF n, q, t
<1>5. /\ Handled' /\ pc'[h] = q /\ plan'[h] = p /\ text'[h] = t
      /\ \A g \in Handler \ {h} : pc'[g] = pc[g] /\ text'[g] = text[g]
      BY <1>1, <1>2, <1>4, Disposes
<1> QED BY <1>3, <1>5 DEF Moves

\* While the row and the screen are what they were, so is their agreement.
LEMMA MovesKeeps ==
    ASSUME OneByOne, NEW h \in Handler, Moves(h), UNCHANGED <<row, screen>>
    PROVE  OneByOne'
BY DEF OneByOne, Moves

LEMMA Parts ==
    ASSUME owner' \in [Lead -> Value \cup {None}],
           RowFits(row'),
           choice' \in [at : Prompt, op : Op \cup {None}],
           screen' = [row |-> screen'.row, number |-> screen'.number],
           screen'.row \in Row,
           Handled'
    PROVE  (MType /\ Occupied)'
BY DEF MType, Handled

LEMMA Known ==
    ASSUME MInv
    PROVE  /\ owner \in [Lead -> Value \cup {None}]
           /\ RowFits(row)
           /\ choice \in [at : Prompt, op : Op \cup {None}]
           /\ screen = [row |-> screen.row, number |-> screen.number]
           /\ screen.row \in Row
           /\ Handled
BY DEF MInv, MType, Handled

LEMMA SendStep ==
    ASSUME MInv, NEW h \in Handler, NEW m \in Message, Send(h, m)
    PROVE  MInv'
<1>1. PICK s \in Resolved(m) :
          /\ text' = [text EXCEPT ![h] = [said |-> s.said, seen |-> screen]]
          /\ choice' = s.left
      BY DEF Send
<1>2. /\ pc' = [pc EXCEPT ![h] = "route"] /\ plan' = [plan EXCEPT ![h] = plan[h]]
      /\ owner' = owner /\ row' = row /\ screen' = screen /\ broken' = broken
      /\ messages < MaxMessages /\ messages' = messages + 1
      BY DEF Send, MInv, MType
<1>3. /\ s.left \in [at : Prompt, op : Op \cup {None}]
      /\ TextFits([said |-> s.said, seen |-> screen])
      BY <1>1, SentFits DEF MInv
<1> DEFINE t == [said |-> s.said, seen |-> screen]
           p == plan[h]
<1>4. t.seen.row = screen.row /\ PlanFits(p) /\ Handled
      BY DEF MInv, MType, Handled
<1> HIDE DEF t
<1>5. /\ Handled' /\ pc'[h] = "route" /\ text'[h] = t
      /\ \A g \in Handler \ {h} : pc'[g] = pc[g] /\ text'[g] = text[g]
  <2> DEFINE q == "route"
  <2>1. q \in {"idle", "route", "write", "settle"} /\ (q = "write" => p.changes # {})
        OBVIOUS
  <2>2. text' = [text EXCEPT ![h] = t] /\ TextFits(t)
        BY <1>1, <1>3 DEF t
  <2>3. plan' = [plan EXCEPT ![h] = p] /\ PlanFits(p) /\ pc' = [pc EXCEPT ![h] = q]
        BY <1>2, <1>4
  <2> HIDE DEF p, q
  <2>4. /\ Handled' /\ pc'[h] = q /\ plan'[h] = p /\ text'[h] = t
        /\ \A g \in Handler \ {h} : pc'[g] = pc[g] /\ text'[g] = text[g]
        BY <1>4, <2>1, <2>2, <2>3, Disposes
  <2> QED BY <2>4 DEF q
<1>6. (MType /\ Occupied)'
      BY <1>1, <1>2, <1>3, <1>5, Known, Parts
<1>7. Bounded' /\ (overlaps' = 0 => overlaps = 0 /\ \A g \in Handler : pc[g] = "idle")
  <2>1. CASE UNCHANGED <<overlaps, events>> /\ \A g \in Handler : pc[g] = "idle"
        BY <1>2, <2>1 DEF MInv, Bounded
  <2>2. CASE events < MaxEvents /\ events' = events + 1 /\ overlaps' = overlaps + 1
        BY <1>2, <2>2 DEF MInv, Bounded
  <2> QED BY <2>1, <2>2 DEF Send
<1>8. ASSUME overlaps' = 0, broken' = 0 PROVE OneByOne'
  <2>1. row \in {screen.row, NoRow} /\ \A g \in Handler : pc[g] = "idle"
        BY <1>2, <1>7, <1>8 DEF MInv, OneByOne
  <2> QED BY <1>2, <1>4, <1>5, <2>1 DEF OneByOne
<1> QED BY <1>6, <1>7, <1>8 DEF MInv

LEMMA ServeStep ==
    ASSUME MInv, NEW h \in Handler, Serve(h)
    PROVE  /\ MInv' /\ Moves(h) /\ pc[h] = "route"
           /\ plan'[h].changes \subseteq Offer(row) \cup {Said(h).request}
<1>1. pc[h] = "route"
      /\ \E p : /\ Decide(h, p) /\ PlanFits(p)
                /\ p.changes \subseteq Offer(row) \cup {Said(h).request}
      BY ServeServes DEF Serves, MInv
<1>2. PICK p : /\ Decide(h, p) /\ PlanFits(p)
               /\ p.changes \subseteq Offer(row) \cup {Said(h).request}
      BY <1>1
<1>3. Handled
      BY DEF MInv, MType, Handled
<1>4. Handled' /\ Moves(h) /\ plan'[h] = p
      BY <1>1, <1>2, <1>3, DecideMoves
<1>5. /\ owner' = owner /\ row' = row /\ choice' = choice /\ screen' = screen
      /\ overlaps' = overlaps /\ broken' = broken /\ messages' = messages /\ events' = events
      BY <1>2 DEF Decide, faults
<1>6. (MType /\ Occupied)'
      BY <1>4, <1>5, Known, Parts
<1>7. Bounded'
      BY <1>5 DEF MInv, Bounded
<1>8. ASSUME overlaps' = 0, broken' = 0 PROVE OneByOne'
      BY <1>4, <1>5, <1>8, MovesKeeps DEF MInv
<1> QED BY <1>1, <1>2, <1>4, <1>6, <1>7, <1>8 DEF MInv

LEMMA WriteStep ==
    ASSUME MInv, NEW h \in Handler, WriteOne(h) \/ Refuse(h)
    PROVE  MInv' /\ Moves(h) /\ pc[h] = "write"
<1> DEFINE c == FirstOf(plan[h].changes)
           q == [plan[h] EXCEPT !.changes = @ \ {c}]
<1>1. /\ pc[h] = "write" /\ (Ends(h) \/ Continues(h, q))
      /\ row' = row /\ choice' = choice /\ screen' = screen
      /\ overlaps' = overlaps /\ broken' \in {broken, broken + 1} /\ messages' = messages
      BY DEF WriteOne, Refuse, faults
<1>2. events' = events \/ (events < MaxEvents /\ events' = events + 1)
      BY DEF WriteOne, Refuse, faults
<1>3. Handled /\ PlanFits(plan[h])
      BY DEF MInv, MType, Handled
<1>4. PlanFits(q)
      BY <1>3, WrittenFits
<1>5. c \in Change
  <2>1. plan[h].changes # {} /\ plan[h].changes \subseteq Change
        BY <1>1, <1>3 DEF Handled, Occupied, PlanFits, Plan
  <2> QED BY <2>1 DEF FirstOf
<1>6. owner' \in [Lead -> Value \cup {None}]
  <2>1. c.value \in Value \cup {None} /\ owner \in [Lead -> Value \cup {None}]
        BY <1>5 DEF Change, MInv, MType
  <2>2. \/ owner' = owner
        \/ owner' = [l \in Lead |-> IF c.op = "assign" /\ l = c.item THEN c.value ELSE owner[l]]
        BY DEF WriteOne, Refuse
  <2> HIDE DEF c
  <2> QED BY <2>1, <2>2
<1> HIDE DEF c, q
<1>7. Handled' /\ Moves(h)
      BY <1>1, <1>3, <1>4, EndsMoves, ContinuesMoves
<1>8. (MType /\ Occupied)'
      BY <1>1, <1>6, <1>7, Known, Parts
<1>9. Bounded'
      BY <1>1, <1>2 DEF MInv, Bounded
<1>10. ASSUME overlaps' = 0, broken' = 0 PROVE OneByOne'
  <2>1. overlaps = 0 /\ broken = 0
        BY <1>1, <1>10 DEF MInv, Bounded
  <2> QED BY <1>1, <1>7, <2>1, MovesKeeps DEF MInv
<1> QED BY <1>1, <1>7, <1>8, <1>9, <1>10 DEF MInv

LEMMA SettleStep ==
    ASSUME MInv, NEW h \in Handler, Settle(h)
    PROVE  MInv' /\ pc[h] = "settle" /\ owner' = owner
<1> DEFINE p == plan[h]
           q == IF p.keep THEN row ELSE p.next
<1>1. /\ pc[h] = "settle" /\ row' = q
      /\ choice' \in (IF p.keep THEN {choice} ELSE Held(q))
      /\ screen' = (IF p.keep THEN screen ELSE [row |-> q, number |-> screen.number + 1])
      /\ \/ Ends(h)
         \/ /\ p.again /\ pc' = [pc EXCEPT ![h] = "route"]
            /\ plan' = [plan EXCEPT ![h] = Stay] /\ text' = text
      /\ owner' = owner /\ overlaps' = overlaps /\ broken' = broken
      /\ messages' = messages /\ events' = events
      BY DEF Settle, faults
<1>2. Handled /\ PlanFits(p)
      BY DEF MInv, MType, Handled
<1>3. RowFits(q) /\ q \in Row
      BY <1>2 DEF MInv, MType, PlanFits, RowFits
<1>4. choice' \in [at : Prompt, op : Op \cup {None}]
  <2>1. [at |-> q.at, op |-> q.op] \in [at : Prompt, op : Op \cup {None}]
        BY <1>3 DEF Row
  <2>2. choice' \in {choice, [at |-> q.at, op |-> q.op]}
        BY <1>1 DEF Held
  <2> QED BY <2>1, <2>2 DEF MInv, MType
<1>5. /\ Handled'
      /\ \A g \in Handler \ {h} : pc'[g] = pc[g] /\ text'[g] = text[g]
      /\ pc'[h] = "idle" \/ p.again
  <2>1. CASE Ends(h)
        BY <1>1, <1>2, <2>1, EndsMoves DEF Moves
  <2>2. CASE /\ p.again /\ pc' = [pc EXCEPT ![h] = "route"]
             /\ plan' = [plan EXCEPT ![h] = Stay] /\ text' = text
    <3> DEFINE t == text[h]
               s == Stay
               r == "route"
    <3>1. /\ text' = [text EXCEPT ![h] = t] /\ TextFits(t)
          /\ plan' = [plan EXCEPT ![h] = s] /\ PlanFits(s)
          /\ pc' = [pc EXCEPT ![h] = r]
          BY <1>2, <2>2, StayAsks DEF Handled, Asks
    <3>2. r \in {"idle", "route", "write", "settle"} /\ (r = "write" => s.changes # {})
          OBVIOUS
    <3> HIDE DEF t, s, r
    <3>3. /\ Handled' /\ pc'[h] = r /\ plan'[h] = s /\ text'[h] = t
          /\ \A g \in Handler \ {h} : pc'[g] = pc[g] /\ text'[g] = text[g]
          BY <1>2, <3>1, <3>2, Disposes
    <3> QED BY <2>2, <3>3
  <2> QED BY <1>1, <2>1, <2>2
<1>6. screen' = [row |-> screen'.row, number |-> screen'.number] /\ screen'.row \in Row
      /\ (~p.keep => screen'.row = q)
      BY <1>1, <1>3 DEF MInv, MType
<1>7. p.again => ~p.keep /\ p.next = NoRow
      BY <1>2 DEF PlanFits
<1>8. (MType /\ Occupied)'
      BY <1>1, <1>3, <1>4, <1>5, <1>6, Known, Parts
<1>9. Bounded'
      BY <1>1 DEF MInv, Bounded
<1>10. ASSUME overlaps' = 0, broken' = 0 PROVE OneByOne'
  <2>1. OneByOne
        BY <1>1, <1>10 DEF MInv
  <2>2. \A g \in Handler \ {h} : pc'[g] = "idle"
        BY <1>1, <1>5, <2>1 DEF OneByOne
  <2>3. row' \in {screen'.row, NoRow}
        BY <1>1, <1>6, <2>1 DEF OneByOne
  <2>4. p.again => row' = NoRow
        BY <1>1, <1>7
  <2> QED BY <1>5, <2>2, <2>3, <2>4 DEF OneByOne
<1> QED BY <1>1, <1>8, <1>9, <1>10 DEF MInv

LEMMA EventStep ==
    ASSUME MInv, (\E h \in Handler : LosePrompt(h) \/ Break(h)) \/ Expire
                   \/ \E l \in Lead : ColleagueAssigns(l)
    PROVE  MInv' /\ \A h \in Handler : pc'[h] = pc[h] \/ pc[h] \in {"write", "settle"}
<1>1. /\ events < MaxEvents /\ events' = events + 1 /\ overlaps' = overlaps
      /\ messages' = messages /\ choice' = choice /\ screen' = screen
      BY DEF LosePrompt, Break, Expire, ColleagueAssigns, Happens
<1>2. Handled /\ RowFits(NoRow)
      BY NoRowFits DEF MInv, MType, Handled
<1>3. ASSUME NEW h \in Handler, LosePrompt(h) \/ Break(h)
      PROVE  MInv' /\ \A g \in Handler : pc'[g] = pc[g] \/ pc[g] \in {"write", "settle"}
  <2>1. /\ pc[h] \in {"write", "settle"} /\ Ends(h) /\ broken' = broken + 1 /\ owner' = owner
        /\ row' = row \/ row' = plan[h].next
        BY <1>3 DEF LosePrompt, Break
  <2>2. Handled' /\ Moves(h)
        BY <1>2, <2>1, EndsMoves
  <2>3. RowFits(row')
        BY <1>2, <2>1 DEF MInv, MType, Handled, PlanFits
  <2>4. (MType /\ Occupied)'
        BY <1>1, <2>1, <2>2, <2>3, Known, Parts
  <2>5. Bounded' /\ broken' # 0
        BY <1>1, <2>1 DEF MInv, Bounded
  <2> QED BY <2>1, <2>2, <2>4, <2>5 DEF MInv, Moves
<1>4. CASE Expire \/ \E l \in Lead : ColleagueAssigns(l)
  <2>1. /\ UNCHANGED <<pc, text, plan>> /\ broken' = broken /\ row' \in {row, NoRow}
        BY <1>4 DEF Expire, ColleagueAssigns
  <2>2. Handled'
        BY <1>2, <2>1 DEF Handled, Occupied
  <2>3. RowFits(row')
        BY <1>2, <2>1 DEF MInv, MType
  <2>4. owner' \in [Lead -> Value \cup {None}]
        BY <1>4 DEF Expire, ColleagueAssigns, MInv, MType
  <2>5. (MType /\ Occupied)'
        BY <1>1, <2>2, <2>3, <2>4, Known, Parts
  <2>6. Bounded'
        BY <1>1, <2>1 DEF MInv, Bounded
  <2>7. ASSUME overlaps' = 0, broken' = 0 PROVE OneByOne'
    <3>1. OneByOne
          BY <1>1, <2>1, <2>7 DEF MInv
    <3> QED BY <1>1, <2>1, <3>1 DEF OneByOne
  <2> QED BY <2>1, <2>5, <2>6, <2>7 DEF MInv
<1> QED BY <1>3, <1>4

LEMMA Kept == MInv /\ [Next]_vars => MInv'
<1> SUFFICES ASSUME MInv, [Next]_vars PROVE MInv'
    OBVIOUS
<1>1. CASE UNCHANGED vars
  <2>1. UNCHANGED <<owner, row, choice, screen, pc, text, plan>>
        /\ UNCHANGED <<overlaps, broken, messages, events>>
        BY <1>1 DEF vars, faults
  <2>2. (MType /\ Occupied)'
        BY <2>1, Known, Parts DEF Handled, Occupied
  <2> QED BY <2>1, <2>2 DEF MInv, Bounded, OneByOne
<1>2. ASSUME NEW h \in Handler, NEW m \in Message, Send(h, m) PROVE MInv'
      BY <1>2, SendStep
<1>3. ASSUME NEW h \in Handler, Serve(h) \/ WriteOne(h) \/ Refuse(h) \/ Settle(h)
      PROVE  MInv'
      BY <1>3, ServeStep, WriteStep, SettleStep
<1>4. CASE (\E h \in Handler : LosePrompt(h) \/ Break(h)) \/ Expire
             \/ \E l \in Lead : ColleagueAssigns(l)
      BY <1>4, EventStep
<1> QED BY <1>1, <1>2, <1>3, <1>4 DEF Next

LEMMA Invariant == Spec => []MInv
BY Initially, Kept, PTL DEF Spec

-----------------------------------------------------------------------------
(* What follows.                                                           *)

\* Every row has what its prompt is about: a confirmation its operation and
\* item, a pivot the prompt to go back to, a request that waits the request.
THEOREM ManagerTypeCorrect == Spec => []TypeOK
<1>1. MInv => TypeOK
  <2> SUFFICES ASSUME MInv PROVE TypeOK
      OBVIOUS
  <2>1. row \in Row /\ (row.at = "confirm" => row.op # None /\ row.item # None)
        BY Known DEF RowFits, Fits, AboutItem, Confirmable, None
  <2>2. /\ row.at = "pivot" => row.back \in Picker \cup {"confirm"}
        /\ row.at \in {"pivot", "intent", "field", "multi", "disambig"} => row.changes # {}
        BY Known DEF RowFits
  <2>3. \A h \in Handler : plan[h].next \in Row
        BY Known DEF Handled, PlanFits, RowFits
  <2>4. pc \in [Handler -> {"idle", "route", "write", "settle"}]
        BY Known DEF Handled
  <2> QED BY <2>1, <2>2, <2>3, <2>4, Known DEF TypeOK, MInv, Bounded
<1> QED BY <1>1, Invariant, PTL

\* The change an answer carries out is one the prompt on the screen was about,
\* or one the manager has spelled out, while his messages come one by one and
\* his prompts come through.
THEOREM AsOffered == Spec => WrittenAsOffered
<1> DEFINE Offered(h) ==
             plan'[h].changes \subseteq Offer(text[h].seen.row) \cup {Said(h).request}
           OfferedStep ==
             \A h \in Handler :
               pc[h] = "route" /\ pc'[h] = "write" /\ overlaps = 0 /\ broken = 0 => Offered(h)
<1>1. MInv /\ [Next]_vars => OfferedStep
  <2> SUFFICES ASSUME MInv, [Next]_vars, NEW h \in Handler,
                      pc[h] = "route", pc'[h] = "write", overlaps = 0, broken = 0
               PROVE  Offered(h)
      OBVIOUS
  <2>1. ASSUME NEW g \in Handler, Serve(g) PROVE Offered(h)
    <3>1. g = h
          BY <2>1, ServeStep DEF Moves
    <3>2. plan'[h].changes \subseteq Offer(row) \cup {Said(h).request}
          BY <2>1, <3>1, ServeStep
    <3>3. row = text[h].seen.row \/ row = NoRow
          BY DEF MInv, OneByOne
    <3>4. Offer(NoRow) = {}
          BY NoRowFits DEF Offer
    <3> QED BY <3>2, <3>3, <3>4
  <2>2. ASSUME NEW g \in Handler, NEW m \in Message, Send(g, m) PROVE FALSE
    <3>1. pc[g] = "idle" /\ pc' = [pc EXCEPT ![g] = "route"]
          BY <2>2 DEF Send
    <3> QED BY <3>1, Known DEF Handled
  <2>3. ASSUME NEW g \in Handler, WriteOne(g) \/ Refuse(g) PROVE FALSE
        BY <2>3, WriteStep DEF Moves
  <2>4. ASSUME NEW g \in Handler, Settle(g) PROVE FALSE
    <3>1. /\ pc[g] = "settle"
          /\ pc' = [pc EXCEPT ![g] = "idle"] \/ pc' = [pc EXCEPT ![g] = "route"]
          BY <2>4 DEF Settle, Ends
    <3> QED BY <3>1, Known DEF Handled
  <2>5. ASSUME (\E g \in Handler : LosePrompt(g) \/ Break(g)) \/ Expire
                 \/ \E l \in Lead : ColleagueAssigns(l)
        PROVE  FALSE
        BY <2>5, EventStep
  <2>6. ~UNCHANGED vars
        BY DEF vars
  <2> QED BY <2>1, <2>2, <2>3, <2>4, <2>5, <2>6 DEF Next
<1>2. OfferedStep => [OfferedStep]_vars
      OBVIOUS
<1> QED BY <1>1, Invariant, PTL DEF Spec, WrittenAsOffered

\* A lead has one owner for good, whoever confirms at the same time.
THEOREM AssignedOnce == Spec => LeadAssignedOnce
<1> DEFINE Stays == \A l \in Lead : owner[l] # None => owner'[l] = owner[l]
<1>1. MInv /\ [Next]_vars => Stays
  <2> SUFFICES ASSUME MInv, [Next]_vars, NEW l \in Lead, owner[l] # None
               PROVE  owner'[l] = owner[l]
      OBVIOUS
  <2>1. ASSUME NEW h \in Handler, WriteOne(h) PROVE owner'[l] = owner[l]
    <3> DEFINE c == FirstOf(plan[h].changes)
    <3>1. /\ Accepted(c)
          /\ owner' = [k \in Lead |-> IF c.op = "assign" /\ k = c.item THEN c.value ELSE owner[k]]
          BY <2>1 DEF WriteOne
    <3> HIDE DEF c
    <3>2. c.op = "assign" => owner[c.item] = None
          BY <3>1 DEF Accepted, Assignable, Unassigned
    <3> QED BY <3>1, <3>2
  <2>2. ASSUME NEW k \in Lead, ColleagueAssigns(k) PROVE owner'[l] = owner[l]
    <3>1. owner[k] = None /\ \E w \in Value : owner' = [owner EXCEPT ![k] = w]
          BY <2>2 DEF ColleagueAssigns, Unassigned
    <3> QED BY <3>1, Known
  <2>3. ASSUME NEW h \in Handler, Serve(h) PROVE owner' = owner
        BY <2>3, ServeServes DEF MInv, Serves, Decide
  <2>4. ASSUME NEW h \in Handler, NEW m \in Message, Send(h, m) PROVE owner' = owner
        BY <2>4 DEF Send
  <2>5. ASSUME NEW h \in Handler, Refuse(h) \/ Settle(h) \/ LosePrompt(h) \/ Break(h)
        PROVE  owner' = owner
        BY <2>5 DEF Refuse, Settle, LosePrompt, Break
  <2>6. ASSUME Expire \/ UNCHANGED vars PROVE owner' = owner
        BY <2>6 DEF Expire, vars
  <2> QED BY <2>1, <2>2, <2>3, <2>4, <2>5, <2>6 DEF Next
<1>2. Stays => [Stays]_vars
      OBVIOUS
<1> QED BY <1>1, Invariant, PTL DEF Spec, LeadAssignedOnce

-----------------------------------------------------------------------------
(* Repetitions.                                                            *)

\* The prompt that was on the screen when the message of h was sent.
Number(h) == text[h].seen.number

\* The handlers that have changed nothing and still may.
ToAct == {h \in Handler :
            /\ h \notin acting
            /\ pc[h] \in {"route", "write"} \/ (pc[h] = "settle" /\ plan[h].again)}

\* Prompts are numbered in the order they come; who has changed something
\* leaves a new one when he settles.
Numbered ==
    /\ screen.number \in Nat /\ repeated \in Nat
    /\ \A n \in carried : n \in Nat /\ n <= screen.number
    /\ \A h \in Handler : Number(h) \in Nat /\ Number(h) <= screen.number
    /\ acting \subseteq Handler
    /\ \A h \in acting : /\ pc[h] \in {"write", "settle"}
                         /\ ~plan[h].keep /\ ~plan[h].again

\* The repetitions so far and those that may come.
Account == repeated + Cardinality(ToAct)

Paid == overlaps + broken

\* One who is to act may be the first to; not when somebody has acted already,
\* or the prompt of one was answered.  A prompt that stays on the screen after
\* its answer was left by a handler that broke off.
Balanced ==
    /\ Account <= Paid + 1
    /\ ToAct = {} \/ acting # {} \/ (\E h \in ToAct : Number(h) \in carried)
         => Account <= Paid
    /\ screen.number \in carried /\ acting = {} => Account <= Paid /\ repeated + 1 <= Paid

PInv == Numbered /\ Balanced

\* What the other handlers do is what they did.
Only(h) ==
    \A g \in Handler \ {h} :
        /\ pc'[g] = pc[g] /\ text'[g] = text[g] /\ plan'[g] = plan[g]
        /\ (g \in acting') = (g \in acting)

LEMMA Counting ==
    ASSUME NEW S \in SUBSET Handler, NEW T \in SUBSET Handler
    PROVE  /\ Cardinality(S) \in Nat /\ Cardinality(T) \in Nat
           /\ S = {} <=> Cardinality(S) = 0
           /\ \A h \in Handler \ S : T = S \cup {h} => Cardinality(T) = Cardinality(S) + 1
           /\ \A h \in S : T = S \ {h} => Cardinality(T) = Cardinality(S) - 1
<1>1. IsFiniteSet(S) /\ IsFiniteSet(T)
      BY FS_Subset
<1>2. Cardinality(S) \in Nat /\ Cardinality(T) \in Nat /\ (S = {} <=> Cardinality(S) = 0)
      BY <1>1, FS_CardinalityType, FS_EmptySet
<1>3. \A h \in Handler \ S : T = S \cup {h} => Cardinality(T) = Cardinality(S) + 1
      BY <1>1, FS_AddElement
<1>4. \A h \in S : T = S \ {h} => Cardinality(T) = Cardinality(S) - 1
      BY <1>1, FS_RemoveElement
<1> QED BY <1>2, <1>3, <1>4

\* A step of h changes whether h is to act.
LEMMA OnlyCounts ==
    ASSUME NEW h \in Handler, Only(h)
    PROVE  /\ Cardinality(ToAct) \in Nat /\ Cardinality(ToAct') \in Nat
           /\ ToAct = {} <=> Cardinality(ToAct) = 0
           /\ ToAct' = {} <=> Cardinality(ToAct') = 0
           /\ h \notin ToAct /\ h \in ToAct' =>
                Cardinality(ToAct') = Cardinality(ToAct) + 1
           /\ h \in ToAct /\ h \notin ToAct' =>
                Cardinality(ToAct') = Cardinality(ToAct) - 1
           /\ (h \in ToAct) = (h \in ToAct') => ToAct' = ToAct
           /\ \A g \in Handler \ {h} : /\ Number(g)' = Number(g)
                                       /\ g \in ToAct' <=> g \in ToAct
<1>1. \A g \in Handler \ {h} : Number(g)' = Number(g) /\ (g \in ToAct' <=> g \in ToAct)
      BY DEF Only, Number, ToAct
<1>2. ToAct \in SUBSET Handler /\ ToAct' \in SUBSET Handler
      BY DEF ToAct
<1>3. /\ h \notin ToAct /\ h \in ToAct' => ToAct' = ToAct \cup {h}
      /\ h \in ToAct /\ h \notin ToAct' => ToAct' = ToAct \ {h}
      /\ (h \in ToAct) = (h \in ToAct') => ToAct' = ToAct
      BY <1>1, <1>2
<1> HIDE DEF ToAct, Number
<1>4. /\ Cardinality(ToAct) \in Nat /\ Cardinality(ToAct') \in Nat
      /\ ToAct = {} <=> Cardinality(ToAct) = 0
      /\ ToAct' = {} <=> Cardinality(ToAct') = 0
      BY <1>2, Counting
<1>5. h \notin ToAct /\ h \in ToAct' => Cardinality(ToAct') = Cardinality(ToAct) + 1
      BY <1>2, <1>3, Counting
<1>6. h \in ToAct /\ h \notin ToAct' => Cardinality(ToAct') = Cardinality(ToAct) - 1
      BY <1>2, <1>3, Counting
<1> QED BY <1>1, <1>3, <1>4, <1>5, <1>6

\* The numbers, when h takes a step.
LEMMA NumberedKeeps ==
    ASSUME Numbered, NEW h \in Handler, Only(h),
           screen'.number \in Nat, screen'.number >= screen.number,
           carried' \subseteq carried \cup {Number(h)},
           Number(h)' \in {0, Number(h), screen.number},
           repeated' \in Nat, acting' \subseteq acting \cup {h},
           h \in acting' => /\ pc'[h] \in {"write", "settle"}
                            /\ ~plan'[h].keep /\ ~plan'[h].again
    PROVE  Numbered'
<1>1. \A g \in Handler : Number(g) \in Nat /\ Number(g) <= screen.number
      BY DEF Numbered
<1>2. \A n \in carried' : n \in Nat /\ n <= screen'.number
      BY <1>1 DEF Numbered
<1>3. \A g \in Handler \ {h} : Number(g)' = Number(g)
      BY DEF Only, Number
<1>4. \A g \in Handler : Number(g)' \in Nat /\ Number(g)' <= screen'.number
      BY <1>1, <1>3 DEF Numbered
<1>5. acting' \subseteq Handler
      BY DEF Numbered
<1>6. \A g \in acting' : /\ pc'[g] \in {"write", "settle"}
                         /\ ~plan'[g].keep /\ ~plan'[g].again
      BY <1>5 DEF Numbered, Only
<1> QED BY <1>2, <1>4, <1>5, <1>6 DEF Numbered

\* h may act no more, or as before; nothing is changed, and a prompt that was
\* answered does not come back.
LEMMA NothingCarried ==
    ASSUME PInv, Bounded, NEW h \in Handler, Only(h),
           UNCHANGED <<carried, acting, repeated, overlaps, broken>>,
           h \in ToAct' => h \in ToAct /\ Number(h)' = Number(h),
           screen'.number \in carried => screen'.number = screen.number
    PROVE  Balanced'
<1>1. /\ Account <= Paid + 1
      /\ ToAct = {} \/ acting # {} \/ (\E g \in ToAct : Number(g) \in carried)
           => Account <= Paid
      /\ screen.number \in carried /\ acting = {} => Account <= Paid /\ repeated + 1 <= Paid
      BY DEF PInv, Balanced
<1>2. repeated \in Nat /\ overlaps \in Nat /\ broken \in Nat
      BY DEF PInv, Numbered, Bounded
<1>3. Paid' = Paid /\ Paid \in Nat
      BY <1>2 DEF Paid
<1>4. CASE h \in ToAct /\ h \notin ToAct'
  <2>1. Account' <= Paid /\ Account' <= Account
        BY <1>1, <1>2, <1>3, <1>4, OnlyCounts DEF Account
  <2>2. Account \in Nat /\ Account' \in Nat
        BY <1>2, OnlyCounts DEF Account
  <2> QED BY <1>1, <1>2, <1>3, <2>1, <2>2 DEF Balanced
<1>5. CASE (h \in ToAct) = (h \in ToAct')
  <2>1. ToAct' = ToAct /\ Account' = Account
        BY <1>5, OnlyCounts DEF Account
  <2>2. \A g \in ToAct : Number(g)' = Number(g)
        BY <2>1, OnlyCounts DEF ToAct
  <2>3. (\E g \in ToAct' : Number(g)' \in carried') => \E g \in ToAct : Number(g) \in carried
        BY <2>1, <2>2
  <2> QED BY <1>1, <1>3, <2>1, <2>3 DEF Balanced
<1> QED BY <1>4, <1>5

\* One message at a time is to act for nothing; one sent while another is
\* being served is counted.
LEMMA SendBalanced ==
    ASSUME MInv, PInv, NEW h \in Handler, NEW m \in Message, Send(h, m)
    PROVE  PInv'
<1>1. /\ pc[h] = "idle" /\ pc'[h] = "route" /\ Number(h)' = screen.number /\ Only(h)
      /\ UNCHANGED <<carried, acting, repeated, broken, screen>>
      BY Known DEF Send, Handled, Only, Number, ghosts
<1>2. h \notin acting /\ h \notin ToAct /\ h \in ToAct'
      BY <1>1 DEF PInv, Numbered, ToAct
<1>3. Numbered'
  <2>1. Numbered /\ screen'.number \in Nat /\ screen'.number >= screen.number
        BY <1>1 DEF PInv, Numbered
  <2> QED BY <1>1, <1>2, <2>1, NumberedKeeps DEF Numbered
<1>4. repeated \in Nat /\ overlaps \in Nat /\ broken \in Nat
      BY DEF PInv, Numbered, MInv, Bounded
<1>5. /\ Account' = Account + 1 /\ Account \in Nat /\ Paid \in Nat
      /\ ToAct = {} => Account = repeated
      BY <1>1, <1>2, <1>4, OnlyCounts DEF Account, Paid
<1>6. \A g \in ToAct' : g # h => g \in ToAct /\ Number(g)' = Number(g)
      BY <1>1, OnlyCounts DEF ToAct
<1>7. /\ Account <= Paid + 1
      /\ ToAct = {} \/ acting # {} \/ (\E g \in ToAct : Number(g) \in carried)
           => Account <= Paid
      /\ screen.number \in carried /\ acting = {} => Account <= Paid /\ repeated + 1 <= Paid
      BY DEF PInv, Balanced
<1>8. CASE overlaps' = overlaps + 1
  <2>1. Paid' = Paid + 1
        BY <1>1, <1>4, <1>8 DEF Paid
  <2>2. (\E g \in ToAct' : Number(g)' \in carried')
          => (\E g \in ToAct : Number(g) \in carried) \/ screen.number \in carried
        BY <1>1, <1>6
  <2>3. acting' # {} \/ (\E g \in ToAct' : Number(g)' \in carried') => Account <= Paid
        BY <1>1, <1>7, <2>2
  <2> QED BY <1>1, <1>2, <1>3, <1>4, <1>5, <1>7, <2>1, <2>3 DEF PInv, Balanced
<1>9. CASE overlaps' = overlaps /\ \A g \in Handler : pc[g] = "idle"
  <2>1. ToAct = {} /\ acting = {} /\ Paid' = Paid
        BY <1>1, <1>9 DEF ToAct, PInv, Numbered, Paid
  <2>2. ToAct' = {h}
        BY <1>2, <1>6, <2>1
  <2>3. Account = repeated
        BY <1>5, <2>1
  <2>4. (\E g \in ToAct' : Number(g)' \in carried') => screen.number \in carried
        BY <1>1, <2>2
  <2> QED BY <1>1, <1>2, <1>3, <1>4, <1>5, <1>7, <2>1, <2>3, <2>4 DEF PInv, Balanced
<1> QED BY <1>8, <1>9 DEF Send

LEMMA ServeBalanced ==
    ASSUME MInv, PInv, NEW h \in Handler, Serve(h)
    PROVE  PInv'
<1>1. PICK p : Decide(h, p) /\ PlanFits(p)
      BY ServeServes DEF Serves, MInv
<1>2. /\ pc[h] = "route" /\ h \notin acting /\ h \in ToAct
      BY ServeStep DEF PInv, Numbered, ToAct
<1>3. /\ plan'[h] = p /\ pc'[h] = (IF p.changes = {} THEN "settle" ELSE "write")
      /\ Only(h) /\ UNCHANGED <<carried, acting, repeated, overlaps, broken, screen>>
      BY <1>1, Known DEF Decide, Handled, Only, ghosts, faults
<1>4. NoText.seen.number = 0 /\ \A n : [NoText EXCEPT !.seen.number = n].seen.number = n
      BY DEF NoText
<1>5. Number(h)' \in {0, Number(h)} /\ (p.again \/ p.changes # {} => Number(h)' = Number(h))
      BY <1>1, <1>4, Known DEF Decide, Handled, Number
<1>6. h \in ToAct' => p.again \/ p.changes # {}
      BY <1>3 DEF ToAct
<1>7. Numbered'
  <2>1. Numbered /\ screen'.number \in Nat /\ screen'.number >= screen.number
        BY <1>3 DEF PInv, Numbered
  <2> QED BY <1>2, <1>3, <1>5, <2>1, NumberedKeeps DEF Numbered
<1>8. Balanced'
      BY <1>2, <1>3, <1>5, <1>6, NothingCarried DEF MInv
<1> QED BY <1>7, <1>8 DEF PInv

\* A handler ends between its changes and its row, and is counted.
BreaksOff(h) ==
    /\ pc[h] \in {"write", "settle"}
    /\ Ends(h)
    /\ broken' = broken + 1
    /\ UNCHANGED <<screen, overlaps>>

\* The plan of a handler that is at its next change.
LEMMA NextChange ==
    ASSUME MInv, NEW h \in Handler, pc[h] = "write"
    PROVE  LET c == FirstOf(plan[h].changes)
               q == [plan[h] EXCEPT !.changes = @ \ {c}]
           IN  ~q.keep /\ ~q.again
<1> DEFINE p == plan[h]
           c == FirstOf(p.changes)
           q == [p EXCEPT !.changes = @ \ {c}]
<1>1. PlanFits(p) /\ p.changes # {}
      BY Known DEF Handled, Occupied
<1> HIDE DEF p, c
<1>2. p \in Plan /\ ~p.keep /\ ~p.again
      BY <1>1 DEF PlanFits
<1>3. ~q.keep /\ ~q.again
      BY <1>2 DEF Plan
<1> QED BY <1>3 DEF q, p, c

\* The first change of a message moves it from those that are to act to the
\* repetitions, if it is one.
LEMMA WriteBalanced ==
    ASSUME MInv, PInv, NEW h \in Handler, WriteOne(h)
    PROVE  PInv'
<1> DEFINE c == FirstOf(plan[h].changes)
           q == [plan[h] EXCEPT !.changes = @ \ {c}]
<1>1. /\ pc[h] = "write" /\ Continues(h, q)
      /\ carried' = carried \cup {Number(h)} /\ acting' = acting \cup {h}
      /\ repeated' = IF h \notin acting /\ Number(h) \in carried
                     THEN repeated + 1 ELSE repeated
      /\ UNCHANGED <<screen, overlaps, broken>>
      BY DEF WriteOne, Number, faults
<1>2. ~q.keep /\ ~q.again
      BY <1>1, NextChange
<1> HIDE DEF c, q
<1>3. /\ plan'[h] = q /\ pc'[h] = (IF q.changes = {} THEN "settle" ELSE "write")
      /\ Number(h)' = Number(h) /\ Only(h)
      BY <1>1, Known DEF Continues, Handled, Only, Number
<1>4. Numbered'
  <2>1. Numbered /\ screen'.number \in Nat /\ screen'.number >= screen.number
        /\ repeated' \in Nat
        BY <1>1 DEF PInv, Numbered
  <2> QED BY <1>1, <1>2, <1>3, <2>1, NumberedKeeps
<1>5. repeated \in Nat /\ overlaps \in Nat /\ broken \in Nat
      BY DEF PInv, Numbered, MInv, Bounded
<1>6. Paid' = Paid /\ Paid \in Nat
      BY <1>1, <1>5 DEF Paid
<1>7. h \notin ToAct' /\ h \in acting' /\ (h \in ToAct <=> h \notin acting)
      BY <1>1 DEF ToAct
<1>8. Account' <= Paid
  <2>1. /\ Account <= Paid + 1
        /\ acting # {} \/ (\E g \in ToAct : Number(g) \in carried) => Account <= Paid
        BY DEF PInv, Balanced
  <2>2. CASE h \in acting
    <3>1. ToAct' = ToAct /\ repeated' = repeated
          BY <1>1, <1>3, <1>7, <2>2, OnlyCounts
    <3> QED BY <2>1, <2>2, <3>1 DEF Account
  <2>3. CASE h \notin acting
    <3>1. h \in ToAct /\ Cardinality(ToAct') = Cardinality(ToAct) - 1
          /\ Cardinality(ToAct) \in Nat
          BY <1>3, <1>7, <2>3, OnlyCounts
    <3>2. CASE Number(h) \in carried
      <4>1. Account <= Paid /\ repeated' = repeated + 1
            BY <1>1, <2>1, <2>3, <3>1, <3>2
      <4> QED BY <1>5, <1>6, <3>1, <4>1 DEF Account
    <3>3. CASE Number(h) \notin carried
      <4>1. repeated' = repeated
            BY <1>1, <3>3
      <4> QED BY <1>5, <1>6, <2>1, <3>1, <4>1 DEF Account
    <3> QED BY <3>2, <3>3
  <2> QED BY <2>2, <2>3
<1>9. Account' \in Nat
  <2>1. repeated' \in Nat /\ Cardinality(ToAct') \in Nat
        BY <1>3, <1>4, OnlyCounts DEF Numbered
  <2> QED BY <2>1 DEF Account
<1> QED BY <1>4, <1>6, <1>7, <1>8, <1>9 DEF PInv, Balanced

\* A change that is refused after others, and not caught, is a break.
LEMMA RefuseBalanced ==
    ASSUME MInv, PInv, NEW h \in Handler, Refuse(h), ~BreaksOff(h)
    PROVE  PInv'
<1> DEFINE c == FirstOf(plan[h].changes)
           q == [plan[h] EXCEPT !.changes = @ \ {c}]
<1>1. /\ pc[h] = "write" /\ UNCHANGED <<screen, overlaps>>
      /\ \/ /\ ~plan[h].caught /\ Ends(h)
            /\ broken' = IF h \in acting THEN broken + 1 ELSE broken
         \/ plan[h].caught /\ Continues(h, q) /\ UNCHANGED <<ghosts, broken>>
      BY DEF Refuse
<1>2. ~q.keep /\ ~q.again
      BY <1>1, NextChange
<1> HIDE DEF c, q
<1>3. ~plan[h].caught /\ Ends(h) => h \notin acting
      BY <1>1 DEF BreaksOff
<1>4. /\ Only(h) /\ UNCHANGED <<carried, acting, repeated, broken>>
      /\ Number(h)' \in {0, Number(h)}
      /\ \/ pc'[h] = "idle" /\ h \notin acting
         \/ /\ plan'[h] = q
            /\ pc'[h] = (IF q.changes = {} THEN "settle" ELSE "write")
            /\ Number(h)' = Number(h)
  <2>1. CASE /\ ~plan[h].caught /\ Ends(h)
             /\ broken' = IF h \in acting THEN broken + 1 ELSE broken
    <3>1. /\ pc'[h] = "idle" /\ Number(h)' = 0 /\ acting' = acting
          /\ UNCHANGED <<carried, repeated, broken>>
          BY <1>3, <2>1, Known DEF Ends, Handled, Number, NoText
    <3>2. Only(h)
          BY <2>1, <3>1, Known DEF Ends, Handled, Only
    <3> QED BY <1>3, <2>1, <3>1, <3>2
  <2>2. CASE plan[h].caught /\ Continues(h, q) /\ UNCHANGED <<ghosts, broken>>
        BY <2>2, Known DEF Continues, Handled, Only, Number, ghosts
  <2> QED BY <1>1, <2>1, <2>2
<1>5. h \in ToAct' => h \in ToAct /\ Number(h)' = Number(h)
      BY <1>1, <1>2, <1>4 DEF ToAct
<1>6. Numbered'
  <2>1. Numbered /\ screen'.number \in Nat /\ screen'.number >= screen.number
        /\ repeated' \in Nat
        BY <1>1, <1>4 DEF PInv, Numbered
  <2> QED BY <1>2, <1>4, <2>1, NumberedKeeps
<1>7. Balanced'
      BY <1>1, <1>4, <1>5, NothingCarried DEF MInv
<1> QED BY <1>6, <1>7 DEF PInv

\* After a change there is a new prompt, which nobody has answered.
LEMMA SettleBalanced ==
    ASSUME MInv, PInv, NEW h \in Handler, Settle(h)
    PROVE  PInv'
<1> DEFINE p == plan[h]
<1>1. /\ pc[h] = "settle" /\ UNCHANGED <<overlaps, broken>>
      /\ p.keep => screen' = screen
      /\ ~p.keep => screen'.number = screen.number + 1
      /\ \/ ~p.again /\ Ends(h)
         \/ /\ p.again /\ pc' = [pc EXCEPT ![h] = "route"]
            /\ plan' = [plan EXCEPT ![h] = Stay] /\ UNCHANGED <<text, ghosts>>
      BY DEF Settle, faults
<1>2. p.again => ~p.keep /\ h \notin acting
      BY Known DEF Handled, PlanFits, PInv, Numbered
<1>3. h \in acting => ~p.keep
      BY DEF PInv, Numbered
<1> HIDE DEF p
<1>4. /\ Only(h) /\ UNCHANGED <<carried, repeated>> /\ acting' = acting \ {h}
      /\ Number(h)' \in {0, Number(h)}
      /\ p.again => Number(h)' = Number(h) /\ pc'[h] = "route"
      /\ ~p.again => pc'[h] = "idle"
  <2>1. CASE ~p.again /\ Ends(h)
    <3>1. /\ pc'[h] = "idle" /\ Number(h)' = 0 /\ acting' = acting \ {h}
          /\ UNCHANGED <<carried, repeated>>
          BY <2>1, Known DEF Ends, Handled, Number, NoText
    <3>2. Only(h)
          BY <2>1, <3>1, Known DEF Ends, Handled, Only
    <3> QED BY <2>1, <3>1, <3>2
  <2>2. CASE /\ p.again /\ pc' = [pc EXCEPT ![h] = "route"]
             /\ plan' = [plan EXCEPT ![h] = Stay] /\ UNCHANGED <<text, ghosts>>
        BY <1>2, <2>2, Known DEF Handled, Only, Number, ghosts
  <2> QED BY <1>1, <2>1, <2>2
<1>5. Numbered'
  <2>1. Numbered /\ screen.number \in Nat /\ repeated' \in Nat
        BY <1>4 DEF PInv, Numbered
  <2>2. screen'.number \in Nat /\ screen'.number >= screen.number
        BY <1>1, <2>1
  <2> QED BY <1>4, <2>1, <2>2, NumberedKeeps
<1>6. screen'.number \in carried => screen'.number = screen.number /\ p.keep
  <2>1. screen.number + 1 \notin carried
        BY DEF PInv, Numbered
  <2> QED BY <1>1, <2>1
<1>7. h \in ToAct' <=> h \in ToAct
      BY <1>1, <1>2, <1>4 DEF ToAct, p
<1>8. h \in ToAct' => Number(h)' = Number(h)
      BY <1>4 DEF ToAct
<1>9. CASE h \notin acting
  <2>1. acting' = acting
        BY <1>4, <1>9
  <2> QED BY <1>1, <1>4, <1>5, <1>6, <1>7, <1>8, <2>1, NothingCarried DEF PInv, MInv
<1>10. CASE h \in acting
  <2>1. screen'.number \notin carried'
        BY <1>3, <1>4, <1>6, <1>10
  <2>2. Account' = Account /\ Paid' = Paid /\ Account <= Paid
    <3>1. ToAct' = ToAct
          BY <1>4, <1>7, OnlyCounts
    <3> QED BY <1>1, <1>4, <1>10, <3>1 DEF Account, Paid, PInv, Balanced
  <2>3. Account \in Nat /\ Paid \in Nat
        BY <1>4, OnlyCounts DEF PInv, Numbered, MInv, Bounded, Account, Paid
  <2> QED BY <1>5, <2>1, <2>2, <2>3 DEF PInv, Balanced
<1> QED BY <1>9, <1>10

\* A prompt that is lost, or a handler that breaks off, is counted: the prompt
\* on the screen may have been answered.
LEMMA BreakBalanced ==
    ASSUME MInv, PInv, NEW h \in Handler, LosePrompt(h) \/ Break(h) \/ BreaksOff(h)
    PROVE  PInv'
<1>1. /\ pc[h] \in {"write", "settle"} /\ Ends(h) /\ broken' = broken + 1
      /\ UNCHANGED <<screen, overlaps>>
      BY DEF LosePrompt, Break, Happens, BreaksOff
<1>2. /\ pc'[h] = "idle" /\ Number(h)' = 0 /\ acting' = acting \ {h}
      /\ UNCHANGED <<carried, repeated>>
      BY <1>1, Known DEF Ends, Handled, Number, NoText
<1>3. Only(h)
      BY <1>1, <1>2, Known DEF Ends, Handled, Only
<1>4. Numbered'
  <2>1. Numbered /\ screen'.number \in Nat /\ screen'.number >= screen.number
        /\ repeated' \in Nat
        BY <1>1, <1>2 DEF PInv, Numbered
  <2> QED BY <1>2, <1>3, <2>1, NumberedKeeps
<1>5. repeated \in Nat /\ overlaps \in Nat /\ broken \in Nat
      BY DEF PInv, Numbered, MInv, Bounded
<1>6. Paid' = Paid + 1 /\ Paid \in Nat
      BY <1>1, <1>5 DEF Paid
<1>7. h \notin ToAct'
      BY <1>2 DEF ToAct
<1>8. Account' <= Account /\ Account \in Nat /\ Account' \in Nat
  <2>1. CASE h \in ToAct
        BY <1>2, <1>3, <1>5, <1>7, <2>1, OnlyCounts DEF Account
  <2>2. CASE h \notin ToAct
        BY <1>2, <1>3, <1>5, <1>7, <2>2, OnlyCounts DEF Account
  <2> QED BY <2>1, <2>2
<1>9. repeated <= Paid
  <2>1. /\ Account <= Paid + 1
        /\ ToAct = {} => Account <= Paid
        BY DEF PInv, Balanced
  <2>2. /\ ToAct = {} <=> Cardinality(ToAct) = 0
        /\ Cardinality(ToAct) \in Nat
        BY <1>3, OnlyCounts
  <2>3. Account = repeated + Cardinality(ToAct)
        BY DEF Account
  <2> QED BY <1>5, <1>6, <2>1, <2>2, <2>3
<1>10. Account <= Paid + 1
      BY DEF PInv, Balanced
<1> QED BY <1>2, <1>4, <1>5, <1>6, <1>8, <1>9, <1>10 DEF PInv, Balanced

LEMMA UnchangedBalanced ==
    ASSUME PInv, UNCHANGED <<screen, pc, text, plan, ghosts, overlaps, broken>>
    PROVE  PInv'
<1>1. ToAct' = ToAct
      BY DEF ToAct, ghosts
<1>2. \A h \in Handler : Number(h)' = Number(h)
      BY DEF Number
<1>3. Numbered'
      BY <1>2 DEF PInv, Numbered, ghosts
<1>4. \A h \in ToAct' : Number(h)' = Number(h)
      BY <1>2 DEF ToAct
<1>5. Account' = Account /\ Paid' = Paid /\ repeated' = repeated
      /\ carried' = carried /\ acting' = acting /\ screen' = screen
      BY <1>1 DEF Account, Paid, ghosts
<1> QED BY <1>1, <1>3, <1>4, <1>5 DEF PInv, Balanced

\* However many handlers at a time: a prompt is answered by a change once, and
\* once more at most for each message sent while another is served, each
\* prompt that is lost and each handler that breaks off, on its own or at a
\* refusal, nobody catching it, of one of several fields of a site.
THEOREM AnsweredOnce == Spec => []RepetitionsPaidFor
<1>1. Init => PInv
  <2> SUFFICES ASSUME Init PROVE PInv
      OBVIOUS
  <2>1. \A h \in Handler : Number(h) = 0
        BY DEF Init, Number, NoText
  <2>2. screen.number = 0 /\ repeated = 0 /\ carried = {} /\ acting = {}
        /\ overlaps = 0 /\ broken = 0
        BY DEF Init
  <2>3. ToAct = {}
        BY DEF Init, ToAct
  <2>4. Cardinality(ToAct) = 0
        BY <2>3, FS_EmptySet
  <2>5. Account = 0 /\ Paid = 0
        BY <2>2, <2>4 DEF Account, Paid
  <2> QED BY <2>1, <2>2, <2>3, <2>5 DEF PInv, Numbered, Balanced
<1>2. MInv /\ PInv /\ [Next]_vars => PInv'
  <2> SUFFICES ASSUME MInv, PInv, [Next]_vars PROVE PInv'
      OBVIOUS
  <2>1. ASSUME NEW h \in Handler, Serve(h) \/ WriteOne(h) \/ Refuse(h) \/ Settle(h)
                                    \/ LosePrompt(h) \/ Break(h)
        PROVE  PInv'
    <3>1. CASE Refuse(h)
          BY <3>1, RefuseBalanced, BreakBalanced
    <3>2. CASE ~Refuse(h)
          BY <2>1, <3>2, ServeBalanced, WriteBalanced, SettleBalanced, BreakBalanced
    <3> QED BY <3>1, <3>2
  <2>2. ASSUME NEW h \in Handler, NEW m \in Message, Send(h, m) PROVE PInv'
        BY <2>2, SendBalanced
  <2>3. CASE Expire \/ (\E l \in Lead : ColleagueAssigns(l)) \/ UNCHANGED vars
    <3>1. UNCHANGED <<screen, pc, text, plan, ghosts, overlaps, broken>>
          BY <2>3 DEF Expire, ColleagueAssigns, Happens, vars, faults
    <3> QED BY <3>1, UnchangedBalanced
  <2> QED BY <2>1, <2>2, <2>3 DEF Next
<1>3. MInv /\ PInv => RepetitionsPaidFor
  <2> SUFFICES ASSUME MInv, PInv PROVE repeated <= overlaps + broken
      BY DEF RepetitionsPaidFor
  <2>1. repeated \in Nat /\ Paid \in Nat /\ Paid = overlaps + broken
        BY DEF PInv, Numbered, MInv, Bounded, Paid
  <2>2. /\ ToAct = {} <=> Cardinality(ToAct) = 0
        /\ Cardinality(ToAct) \in Nat
    <3>1. ToAct \in SUBSET Handler
          BY DEF ToAct
    <3> QED BY <3>1, Counting
  <2>3. Account <= Paid + 1 /\ (ToAct = {} => Account <= Paid)
        BY DEF PInv, Balanced
  <2> QED BY <2>1, <2>2, <2>3 DEF Account
<1> QED BY <1>1, <1>2, <1>3, Initially, Kept, PTL DEF Spec
=============================================================================
