----------------------- MODULE WorkerConversationProofs -----------------------
(***************************************************************************)
(* The worker's conversation, for any number of visits, messages, handlers *)
(* at a time and events.                                                   *)
(*                                                                         *)
(* Whatever a handler holds - the row it read, the message with its        *)
(* button, quote and name, the plan it has made - names only visits that   *)
(* were the worker's. While messages come one by one, a message that       *)
(* starts over leaves a row that cannot send it round again, and whoever   *)
(* is at work leaves the pointer on the visit the worker is on, or on      *)
(* none.                                                                   *)
(***************************************************************************)
EXTENDS WorkerConversation, TLAPS

USE WorkerConversationAssumption

-----------------------------------------------------------------------------
(* What is decided.                                                        *)

AboutOne == {"status_choice", "problem_type_choice", "finished_followup",
             "missing_info_choice", "missing_info_note", "problem_type_note",
             "finished_notes", "inspection_decline_reason",
             "inspection_need_info_note", "pre_reminder_need_info_note",
             "status_eta_prompt"}

His == his \cup {NoVisit}

\* A row only names visits that were his, and a prompt about a visit names it.
RowNames(r) ==
    /\ r \in Row
    /\ r.about \in His /\ r.pointer \in His /\ r.list \subseteq his
    /\ r.awaiting \in AboutOne => r.about # NoVisit
    /\ r.awaiting = "status_eta_prompt" => r.pointer = r.about

\* So does a message.
TextNames(m) ==
    /\ m \in Message \cup {NoText}
    /\ m.visit \in His /\ m.quoted \in His

\* And what is to be written; what is to go round again leaves no prompt.
PlanNames(p) ==
    /\ p \in Plan
    /\ RowNames(p.next)
    /\ p.op # "none" => p.visit \in his /\ p.then \in {"idle", "agent"}
    /\ p.then = "route" => ~p.keep /\ p.next.awaiting \in Fresh

RoadOp == {"DEPARTED", "ARRIVED"}

\* The pointer that p leaves, if the one there was is q: that of the visit
\* departed for or arrived at, and none to the one that is finished.
PlanPoints(p, q) ==
    /\ p.then = "agent" => p.keep
    /\ p.keep => p.op \notin RoadOp \cup {"FINISHED"} \/ p.then = "agent"
    /\ ~p.keep /\ p.op = "FINISHED" => p.next.pointer = NoVisit
    /\ ~p.keep => p.next.pointer \in {NoVisit, IF p.op \in RoadOp THEN p.visit ELSE q}

GoodPlan(p) == PlanNames(p) /\ PlanPoints(p, row.pointer)

\* h goes round again only from a prompt.
Decides(h, p) ==
    /\ Decide(h, p)
    /\ GoodPlan(p)
    /\ p.then = "route" => row.awaiting \notin Fresh

WType ==
    /\ status \in [Visit -> FieldStatus]
    /\ mine \subseteq his /\ his \subseteq Visit
    /\ RowNames(row)
    /\ pc \in [Handler -> {"idle", "route", "menu", "intent", "agent", "write", "settle"}]
    /\ text = [h \in Handler |-> text[h]] /\ \A h \in Handler : TextNames(text[h])
    /\ plan = [h \in Handler |-> plan[h]] /\ \A h \in Handler : PlanNames(plan[h])
    /\ \A h \in Handler : pc[h] = "write" => plan[h].op # "none"
    /\ entered \in [Handler -> Nat]
    /\ moved \subseteq his /\ ended \subseteq his /\ on \in moved \cup {NoVisit}
    /\ disturbed \in BOOLEAN

\* What each kind of row and plan is.
LEMMA Rows ==
    /\ \A a, v : Asking(a, v) = [awaiting |-> a, about |-> v, list |-> {},
                    pending |-> "none", pointer |-> NoVisit, live |-> FALSE]
    /\ NoRow = [awaiting |-> "none", about |-> NoVisit, list |-> {},
                    pending |-> "none", pointer |-> NoVisit, live |-> FALSE]
    /\ NoRow \in Row
<1>1. \A a, v : Asking(a, v) = [awaiting |-> a, about |-> v, list |-> {},
                    pending |-> "none", pointer |-> NoVisit, live |-> FALSE]
      BY DEF Asking
<1> QED BY <1>1 DEF NoRow, Row, AwaitingKind

LEMMA ChoosingRow ==
    ASSUME NEW a \in AwaitingKind, NEW s \in SUBSET Visit, NEW t \in Move \cup {"none"}
    PROVE  /\ Choosing(a, s, t) \in Row
           /\ Choosing(a, s, t).awaiting = a /\ Choosing(a, s, t).about = NoVisit
           /\ Choosing(a, s, t).list = s /\ Choosing(a, s, t).pending = t
           /\ Choosing(a, s, t).pointer = NoVisit
<1>1. Asking(a, NoVisit) \in Row
      BY Rows DEF Row
<1>2. Asking(a, NoVisit).awaiting = a /\ Asking(a, NoVisit).about = NoVisit
      /\ Asking(a, NoVisit).pointer = NoVisit
      BY Rows
<1> QED BY <1>1, <1>2 DEF Choosing, Row

LEMMA PointingRow ==
    ASSUME NEW a \in AwaitingKind, NEW v \in Visit, NEW l \in BOOLEAN
    PROVE  /\ Pointing(a, v, l) \in Row
           /\ Pointing(a, v, l).awaiting = a /\ Pointing(a, v, l).about = v
           /\ Pointing(a, v, l).list = {} /\ Pointing(a, v, l).pointer = v
<1>1. Asking(a, v) \in Row
      BY Rows DEF Row
<1>2. Asking(a, v).awaiting = a /\ Asking(a, v).about = v /\ Asking(a, v).list = {}
      BY Rows
<1> QED BY <1>1, <1>2 DEF Pointing, Row

Where == {"idle", "route", "menu", "intent", "agent"}

LEMMA StayPlan ==
    /\ Stay \in Plan
    /\ Stay.op = "none" /\ Stay.keep /\ Stay.next = NoRow /\ Stay.then = "idle"
BY Rows DEF Stay, Plan

LEMMA ToPlan ==
    ASSUME NEW r \in Row
    PROVE  /\ To(r) \in Plan /\ To(r).op = "none" /\ ~To(r).keep
           /\ To(r).next = r /\ To(r).then = "idle"
BY StayPlan DEF To, Plan

LEMMA ThenPlan ==
    ASSUME NEW p \in Plan, NEW n \in Where
    PROVE  /\ Then(p, n) \in Plan /\ Then(p, n).op = p.op /\ Then(p, n).keep = p.keep
           /\ Then(p, n).visit = p.visit /\ Then(p, n).next = p.next /\ Then(p, n).then = n
BY DEF Then, Plan, Where

LEMMA WritePlan ==
    ASSUME NEW o \in Move \cup Report \cup Silent \cup {"none"},
           NEW v \in Visit \cup {NoVisit}, NEW r \in Row
    PROVE  /\ Write(o, v, r) \in Plan /\ Write(o, v, r).op = o
           /\ Write(o, v, r).visit = v /\ ~Write(o, v, r).keep
           /\ Write(o, v, r).next = r /\ Write(o, v, r).then = "idle"
<1> DEFINE p == To(r)
<1>1. p \in Plan /\ p.op = "none" /\ ~p.keep /\ p.next = r /\ p.then = "idle"
      BY ToPlan
<1>2. Write(o, v, r) = [p EXCEPT !.op = o, !.visit = v]
      BY DEF Write
<1> HIDE DEF p
<1> QED BY <1>1, <1>2 DEF Plan

LEMMA NoRowNames == RowNames(NoRow) /\ NoRow.pointer = NoVisit
BY Rows DEF RowNames, His, AboutOne

LEMMA AskingNames ==
    ASSUME NEW a \in AwaitingKind \ {"status_eta_prompt"}, NEW v \in His,
           a \in AboutOne => v # NoVisit, his \subseteq Visit
    PROVE  RowNames(Asking(a, v)) /\ Asking(a, v).pointer = NoVisit
<1>1. Asking(a, v) \in Row
      BY Rows DEF Row, His
<1> QED BY <1>1, Rows DEF RowNames, His

LEMMA ChoosingNames ==
    ASSUME NEW a \in Disambig, NEW s \in SUBSET his, NEW t \in Move \cup {"none"},
           his \subseteq Visit
    PROVE  RowNames(Choosing(a, s, t)) /\ Choosing(a, s, t).pointer = NoVisit
<1>1. a \in AwaitingKind /\ a \notin AboutOne
      BY DEF Disambig, AwaitingKind, AboutOne
<1> QED BY <1>1, ChoosingRow DEF RowNames, His, Disambig

LEMMA PointingNames ==
    ASSUME NEW a \in {"status_eta_prompt", "idle_active_inspection"}, NEW v \in his,
           NEW l \in BOOLEAN, his \subseteq Visit
    PROVE  RowNames(Pointing(a, v, l)) /\ Pointing(a, v, l).pointer = v
<1>1. a \in AwaitingKind
      BY DEF AwaitingKind
<1>2. v \in Visit /\ v # NoVisit
      BY DEF NoVisit
<1> QED BY <1>1, <1>2, PointingRow DEF RowNames, His

LEMMA ToIsGood ==
    ASSUME NEW r, RowNames(r), r.pointer = NoVisit
    PROVE  GoodPlan(To(r)) /\ To(r).then = "idle"
BY ToPlan DEF GoodPlan, PlanNames, PlanPoints, RowNames

LEMMA StayIsGood ==
    /\ GoodPlan(Stay) /\ Stay.then = "idle"
    /\ GoodPlan(Then(Stay, "agent"))
<1>1. RowNames(NoRow)
      BY NoRowNames
<1> QED BY <1>1, StayPlan, ThenPlan DEF GoodPlan, PlanNames, PlanPoints, RoadOp, Where

LEMMA WriteIsGood ==
    ASSUME NEW o \in {"CONFIRM"} \cup Report \cup Silent, NEW v \in his, his \subseteq Visit,
           NEW r, RowNames(r), r.pointer \in {NoVisit, row.pointer}
    PROVE  GoodPlan(Write(o, v, r)) /\ Write(o, v, r).then = "idle"
<1>1. o \notin RoadOp \cup {"FINISHED", "none"} /\ o \in Move \cup Report \cup Silent
      BY DEF RoadOp, Report, Silent, Move
<1> QED BY <1>1, WritePlan DEF GoodPlan, PlanNames, PlanPoints, RowNames

LEMMA TransitionIsGood ==
    ASSUME NEW v \in his, NEW t \in Move, his \subseteq Visit
    PROVE  /\ GoodPlan(performTransition(v, t))
           /\ performTransition(v, t).then = "idle"
<1> DEFINE r == AfterMove(v, t)
<1>0. v \in Visit /\ v # NoVisit /\ v \in His
      BY DEF NoVisit, His
<1>1. CASE t = "CONFIRM"
  <2>1. r = NoRow
        BY <1>1 DEF AfterMove
  <2> QED BY <1>1, <2>1, NoRowNames, WriteIsGood DEF performTransition
<1>2. CASE t \in RoadOp
  <2>1. r = Pointing("status_eta_prompt", v, TRUE)
        \/ r = Pointing("idle_active_inspection", v, TRUE)
    <3>1. CASE t = "DEPARTED"
          BY <3>1 DEF AfterMove
    <3>2. CASE t = "ARRIVED"
          BY <3>2 DEF AfterMove
    <3> QED BY <1>2, <3>1, <3>2 DEF RoadOp
  <2>2. RowNames(r) /\ r.pointer = v
        BY <2>1, PointingNames
  <2> HIDE DEF r
  <2>3. performTransition(v, t) = Write(t, v, r)
        BY DEF performTransition, r
  <2> QED BY <1>0, <1>2, <2>2, <2>3, WritePlan
          DEF GoodPlan, PlanNames, PlanPoints, RowNames, RoadOp
<1>3. CASE t = "FINISHED"
  <2>1. r = Asking("finished_followup", v)
        BY <1>3 DEF AfterMove
  <2>2. RowNames(r) /\ r.pointer = NoVisit
        BY <1>0, <2>1, AskingNames DEF AwaitingKind, Picker
  <2> HIDE DEF r
  <2>3. performTransition(v, t) = Write(t, v, r)
        BY DEF performTransition, r
  <2> QED BY <1>0, <1>3, <2>2, <2>3, WritePlan
          DEF GoodPlan, PlanNames, PlanPoints, RowNames, RoadOp
<1> QED BY <1>1, <1>2, <1>3 DEF Move, RoadOp

-----------------------------------------------------------------------------
(* What the replies come to.                                               *)

\* All that may be decided is good, and ends the handler.
AllGood(S) == \A p \in S : GoodPlan(p) /\ p.then = "idle"

LEMMA OpenIsHis == WType => Open \subseteq his /\ InProgress \subseteq his /\ his \subseteq Visit
BY DEF WType, Open, InProgress

LEMMA ValidIsHis == ASSUME WType, NEW v, Valid(v) PROVE v \in his
BY DEF WType, Valid

LEMMA AskingIsGood ==
    ASSUME WType, NEW a \in AwaitingKind \ {"status_eta_prompt"}, NEW v \in His,
           a \in AboutOne => v # NoVisit
    PROVE  GoodPlan(To(Asking(a, v))) /\ To(Asking(a, v)).then = "idle"
BY AskingNames, ToIsGood DEF WType

LEMMA NoRowIsGood == GoodPlan(To(NoRow)) /\ To(NoRow).then = "idle"
BY NoRowNames, ToIsGood

LEMMA ResolvedIsGood ==
    ASSUME WType, NEW none, GoodPlan(none) /\ none.then = "idle",
           NEW one, \A v \in his : GoodPlan(one[v]) /\ one[v].then = "idle",
           NEW disambig \in Disambig, NEW t \in Move \cup {"none"}
    PROVE  AllGood(Resolved(none, one, disambig, t))
<1>1. Open \in SUBSET his /\ his \subseteq Visit
      BY OpenIsHis
<1>2. GoodPlan(To(Choosing(disambig, Open, t))) /\ To(Choosing(disambig, Open, t)).then = "idle"
      BY <1>1, ChoosingNames, ToIsGood
<1>3. ASSUME NEW p \in Resolved(none, one, disambig, t)
      PROVE  \/ p = none
             \/ \E v \in Open : p = one[v]
             \/ p = To(Choosing(disambig, Open, t))
      BY <1>3 DEF Resolved
<1> QED BY <1>1, <1>2, <1>3 DEF AllGood

LEMMA StartFlowIsGood ==
    ASSUME WType, NEW disambig \in Disambig, 
           NEW choice \in {"status_choice", "problem_type_choice", "missing_info_choice"}
    PROVE  AllGood(StartFlow(disambig, choice))
<1> DEFINE ask == [v \in Visit |-> To(Asking(choice, v))]
<1>1. ASSUME NEW v \in his
      PROVE  GoodPlan(ask[v]) /\ ask[v].then = "idle"
  <2>1. v \in Visit /\ v \in His /\ v # NoVisit
        BY OpenIsHis DEF His, NoVisit
  <2>2. choice \in AwaitingKind \ {"status_eta_prompt"}
        BY DEF AwaitingKind, Picker
  <2>3. ask[v] = To(Asking(choice, v))
        BY <2>1
  <2> HIDE DEF ask
  <2> QED BY <2>1, <2>2, <2>3, AskingIsGood
<1>2. StartFlow(disambig, choice) = Resolved(To(NoRow), ask, disambig, "none")
      BY DEF StartFlow
<1> HIDE DEF ask
<1> QED BY <1>1, <1>2, NoRowIsGood, ResolvedIsGood

LEMMA AskedOfNone ==
    ASSUME WType,
           NEW a \in {"menu", "missing_equipment_choice", "day_summary_choice", "agent_confirm",
                      "equipment_missing_note", "callback_customer_note"}
    PROVE  GoodPlan(To(Asking(a, NoVisit))) /\ To(Asking(a, NoVisit)).then = "idle"
<1>1. a \in AwaitingKind \ {"status_eta_prompt"} /\ a \notin AboutOne
      BY DEF AwaitingKind, Picker, Capture, AboutOne
<1> QED BY <1>1, AskingIsGood DEF His

LEMMA AskedOfOne ==
    ASSUME WType, NEW v \in his, NEW a \in AboutOne \ {"status_eta_prompt"}
    PROVE  GoodPlan(To(Asking(a, v))) /\ To(Asking(a, v)).then = "idle"
<1>1. v \in His /\ v # NoVisit
      BY OpenIsHis DEF His, NoVisit
<1>2. a \in AwaitingKind
      BY DEF AwaitingKind, Picker, Capture, AboutOne
<1> QED BY <1>1, <1>2, AskingIsGood

LEMMA MenuRoutesAreGood == WType => AllGood(MenuRoutes)
<1> SUFFICES ASSUME WType PROVE AllGood(MenuRoutes)
    OBVIOUS
<1>1. /\ AllGood(StartFlow("status_disambig", "status_choice"))
      /\ AllGood(StartFlow("problem_disambig", "problem_type_choice"))
      /\ AllGood(StartFlow("missing_info_disambig", "missing_info_choice"))
      BY StartFlowIsGood DEF Disambig
<1> QED BY <1>1, NoRowIsGood, AskedOfNone DEF MenuRoutes, AllGood

LEMMA PickerRoutesAreGood ==
    ASSUME WType, NEW a \in Picker, NEW v \in His, a \in AboutOne => v # NoVisit
    PROVE  AllGood(PickerRoutes(a, v))
<1>0. a \in AboutOne => v \in his
      BY DEF His
<1>1. CASE a = "menu"
      BY <1>1, MenuRoutesAreGood DEF PickerRoutes
<1>2. CASE a = "status_choice"
  <2>1. v \in his /\ his \subseteq Visit
        BY <1>0, <1>2, OpenIsHis DEF AboutOne
  <2> QED BY <1>2, <2>1, TransitionIsGood DEF PickerRoutes, StatusChoice, AllGood
<1>3. CASE a = "problem_type_choice"
  <2>1. v \in his /\ his \subseteq Visit
        BY <1>0, <1>3, OpenIsHis DEF AboutOne
  <2>2. GoodPlan(Write("problem", v, NoRow)) /\ Write("problem", v, NoRow).then = "idle"
        BY <2>1, NoRowNames, WriteIsGood DEF Report
  <2>3. GoodPlan(To(Asking("problem_type_note", v)))
        /\ To(Asking("problem_type_note", v)).then = "idle"
        BY <2>1, AskedOfOne DEF AboutOne
  <2> QED BY <1>3, <2>2, <2>3 DEF PickerRoutes, ProblemTypeChoice, AllGood
<1>4. CASE a = "missing_info_choice"
  <2>1. v \in his /\ his \subseteq Visit
        BY <1>0, <1>4, OpenIsHis DEF AboutOne
  <2>2. GoodPlan(Write("missing", v, NoRow)) /\ Write("missing", v, NoRow).then = "idle"
        BY <2>1, NoRowNames, WriteIsGood DEF Report
  <2>3. GoodPlan(To(Asking("missing_info_note", v)))
        /\ To(Asking("missing_info_note", v)).then = "idle"
        BY <2>1, AskedOfOne DEF AboutOne
  <2> QED BY <1>4, <2>2, <2>3 DEF PickerRoutes, MissingInfoChoice, AllGood
<1>5. CASE a = "missing_equipment_choice"
      BY <1>5, NoRowIsGood, AskedOfNone DEF PickerRoutes, MissingEquipmentChoice, AllGood
<1>6. CASE a = "finished_followup"
  <2>1. v \in his
        BY <1>0, <1>6 DEF AboutOne
  <2>2. \A b \in {"finished_notes", "problem_type_choice", "missing_info_note"} :
          GoodPlan(To(Asking(b, v))) /\ To(Asking(b, v)).then = "idle"
        BY <2>1, AskedOfOne DEF AboutOne
  <2> QED BY <1>6, <2>2, NoRowIsGood DEF PickerRoutes, FinishedFollowUp, AllGood
<1>7. CASE a = "day_summary_choice"
  <2>1. /\ AllGood(StartFlow("problem_disambig", "problem_type_choice"))
        /\ AllGood(StartFlow("missing_info_disambig", "missing_info_choice"))
        BY StartFlowIsGood DEF Disambig
  <2> QED BY <1>7, <2>1, NoRowIsGood, AskedOfNone DEF PickerRoutes, DaySummaryChoice, AllGood
<1> QED BY <1>1, <1>2, <1>3, <1>4, <1>5, <1>6, <1>7 DEF Picker

LEMMA ChosenIsGood ==
    ASSUME WType, NEW a \in Disambig, NEW t \in Move \cup {"none"}, NEW v \in his
    PROVE  GoodPlan(Chosen(a, t, v)) /\ Chosen(a, t, v).then = "idle"
<1>1. \A b \in {"missing_info_note", "problem_type_choice", "status_choice"} :
        GoodPlan(To(Asking(b, v))) /\ To(Asking(b, v)).then = "idle"
      BY AskedOfOne DEF AboutOne
<1>2. CASE t \in Move
  <2>1. GoodPlan(performTransition(v, t)) /\ performTransition(v, t).then = "idle"
        BY <1>2, TransitionIsGood, OpenIsHis
  <2>2. \/ Chosen(a, t, v) = performTransition(v, t)
        \/ \E b \in {"missing_info_note", "problem_type_choice"} :
              Chosen(a, t, v) = To(Asking(b, v))
        BY <1>2 DEF Chosen
  <2> QED BY <1>1, <2>1, <2>2
<1>3. CASE t \notin Move
  <2>1. \E b \in {"missing_info_note", "problem_type_choice", "status_choice"} :
            Chosen(a, t, v) = To(Asking(b, v))
        BY <1>3 DEF Chosen
  <2> QED BY <1>1, <2>1
<1> QED BY <1>2, <1>3

-----------------------------------------------------------------------------
(* What each handler decides.                                              *)

LEMMA OfMessage ==
    ASSUME WType, NEW h \in Handler
    PROVE  /\ text[h].kind \in VisitTap \cup {"name"} => text[h].visit \in his
           /\ text[h].kind = "verb" => text[h].move \in Move
           /\ text[h].visit \in His /\ text[h].quoted \in His
<1> DEFINE m == text[h]
<1>1. m \in Message \cup {NoText} /\ m.visit \in His /\ m.quoted \in His
      BY DEF WType, TextNames
<1>2. \A k, v, t, q : Word(k, v, t, q).kind = k /\ Word(k, v, t, q).visit = v
                      /\ Word(k, v, t, q).move = t
      BY DEF Word
<1>3. m.kind \in VisitTap \cup {"name"} => m.visit \in Visit
      BY <1>1, <1>2 DEF Message, NoText, VisitTap, PlainKind
<1>4. m.kind = "verb" => m.move \in Move
      BY <1>1, <1>2 DEF Message, NoText, VisitTap, PlainKind
<1> QED BY <1>1, <1>3, <1>4 DEF His, NoVisit

\* A plan that ends the handler may send it elsewhere instead, if not to the
\* agent, and round again if it leaves no prompt.
LEMMA ThenIsGood ==
    ASSUME NEW p, GoodPlan(p), p.op = "none", p.keep = FALSE, NEW n \in {"menu", "intent", "route"},
           n = "route" => p.next.awaiting \in Fresh
    PROVE  GoodPlan(Then(p, n)) /\ Then(p, n).then = n
BY ThenPlan DEF GoodPlan, PlanNames, PlanPoints, Where

LEMMA MenuThen ==
    ASSUME WType
    PROVE  /\ GoodPlan(Then(To(Asking("menu", NoVisit)), "menu"))
           /\ Then(To(Asking("menu", NoVisit)), "menu").then = "menu"
<1>1. GoodPlan(To(Asking("menu", NoVisit)))
      BY AskedOfNone
<1>2. To(Asking("menu", NoVisit)).op = "none" /\ To(Asking("menu", NoVisit)).keep = FALSE
  <2>1. Asking("menu", NoVisit) \in Row
        BY Rows DEF Row, AwaitingKind, Picker
  <2> QED BY <2>1, ToPlan DEF Plan
<1> QED BY <1>1, <1>2, ThenIsGood

LEMMA TapsDecide ==
    ASSUME WType, NEW h \in Handler,
           EquipmentTap(h) \/ CardTap(h) \/ PreReminderTap(h) \/ MenuTap(h) \/ MenuRoute(h)
    PROVE  \E p : /\ Decide(h, p) /\ GoodPlan(p) /\ p.then # "route"
                  /\ pc[h] \in Where \ {"idle"}
<1> DEFINE v == text[h].visit
<1>1. CASE EquipmentTap(h)
      BY <1>1, NoRowIsGood, AskedOfNone DEF EquipmentTap, Routing, Where
<1>2. CASE CardTap(h)
  <2>1. v \in his /\ his \subseteq Visit /\ pc[h] = "route"
        BY <1>2, OfMessage, OpenIsHis DEF CardTap, VisitTap, Routing
  <2>2. GoodPlan(Write("CONFIRM", v, NoRow)) /\ Write("CONFIRM", v, NoRow).then = "idle"
        BY <2>1, NoRowNames, WriteIsGood
  <2>3. \A b \in {"inspection_decline_reason", "inspection_need_info_note"} :
          GoodPlan(To(Asking(b, v))) /\ To(Asking(b, v)).then = "idle"
        BY <2>1, AskedOfOne DEF AboutOne
  <2> QED BY <1>2, <2>1, <2>2, <2>3 DEF CardTap, Where
<1>3. CASE PreReminderTap(h)
  <2>1. v \in his /\ his \subseteq Visit /\ pc[h] = "route"
        BY <1>3, OfMessage, OpenIsHis DEF PreReminderTap, VisitTap, Routing
  <2>2. GoodPlan(performTransition(v, "DEPARTED"))
        /\ performTransition(v, "DEPARTED").then = "idle"
        BY <2>1, TransitionIsGood DEF Move
  <2>3. \A b \in {"pre_reminder_need_info_note", "problem_type_choice"} :
          GoodPlan(To(Asking(b, v))) /\ To(Asking(b, v)).then = "idle"
        BY <2>1, AskedOfOne DEF AboutOne
  <2> QED BY <1>3, <2>1, <2>2, <2>3, NoRowIsGood DEF PreReminderTap, Where
<1>4. CASE MenuTap(h)
      BY <1>4, MenuThen DEF MenuTap, Routing, Where
<1>5. CASE MenuRoute(h)
      BY <1>5, MenuRoutesAreGood DEF MenuRoute, AllGood, Where
<1> QED BY <1>1, <1>2, <1>3, <1>4, <1>5

LEMMA NoRowThen ==
    ASSUME NEW n \in {"menu", "intent", "route"}
    PROVE  GoodPlan(Then(To(NoRow), n)) /\ Then(To(NoRow), n).then = n
<1>1. To(NoRow).op = "none" /\ To(NoRow).keep = FALSE /\ To(NoRow).next.awaiting \in Fresh
      BY Rows, ToPlan DEF Fresh, Plan
<1> QED BY <1>1, NoRowIsGood, ThenIsGood

LEMMA FreshDecide ==
    ASSUME WType, NEW h \in Handler,
           FastPath(h) \/ FreshMenu(h) \/ StartAgent(h) \/ CallTool(h) \/ EndAgent(h)
             \/ AgentConfirm(h) \/ Correction(h)
    PROVE  \E p : /\ Decide(h, p) /\ GoodPlan(p) /\ p.then # "route"
                  /\ pc[h] \in Where \ {"idle"}
<1>1. CASE FastPath(h)
  <2>1. FastVisit(text[h]) \in his /\ his \subseteq Visit /\ text[h].move \in Move
        BY <1>1, OfMessage, ValidIsHis, OpenIsHis DEF FastPath, IsFast
  <2> QED BY <1>1, <2>1, TransitionIsGood DEF FastPath, Routing, Where
<1>2. CASE FreshMenu(h)
      BY <1>2, MenuThen, AskedOfNone DEF FreshMenu, Conversing, Routing, Where
<1>3. CASE StartAgent(h)
  <2>1. GoodPlan(Then(Stay, "agent")) /\ Then(Stay, "agent").then = "agent"
        BY StayIsGood, StayPlan, ThenPlan DEF Where
  <2> QED BY <1>3, <2>1 DEF StartAgent, Conversing, Routing, Where
<1>4. CASE CallTool(h)
  <2>1. PICK v \in Visit, o \in Move \cup {"problem", "missing"} :
          Valid(v) /\ Decide(h, [Stay EXCEPT !.op = o, !.visit = v, !.then = "agent"])
        BY <1>4 DEF CallTool
  <2> DEFINE p == [Stay EXCEPT !.op = o, !.visit = v, !.then = "agent"]
  <2>2. v \in his
        BY <2>1, ValidIsHis
  <2>3. /\ p \in Plan /\ p.op = o /\ p.visit = v /\ p.then = "agent" /\ p.keep
        /\ p.next = NoRow
        BY StayPlan DEF Plan, Report
  <2>4. Decide(h, p) /\ pc[h] = "agent"
        BY <1>4, <2>1 DEF CallTool
  <2> HIDE DEF p
  <2>5. GoodPlan(p)
        BY <2>2, <2>3, NoRowNames DEF GoodPlan, PlanNames, PlanPoints
  <2> QED BY <2>3, <2>4, <2>5 DEF Where
<1>5. CASE EndAgent(h)
      BY <1>5, StayIsGood, AskedOfNone DEF EndAgent, Where
<1>6. CASE AgentConfirm(h)
      BY <1>6, StayIsGood, NoRowIsGood DEF AgentConfirm, Conversing, Routing, Where
<1>7. CASE Correction(h)
      BY <1>7, NoRowIsGood DEF Correction, Conversing, Routing, Where
<1> QED BY <1>1, <1>2, <1>3, <1>4, <1>5, <1>6, <1>7

\* A note is written to the visit that the row was about.
LEMMA CapturedDecides ==
    ASSUME WType, NEW h \in Handler, NEW kinds \in SUBSET Capture,
           NEW o \in Report \cup Silent \cup {"none"}, Captured(h, kinds, o),
           o # "none" => kinds \subseteq AboutOne
    PROVE  \E p : /\ Decide(h, p) /\ GoodPlan(p) /\ p.then # "route"
                  /\ pc[h] \in Where \ {"idle"}
<1> DEFINE p == Write(o, row.about, NoRow)
<1>1. Decide(h, p) /\ pc[h] = "route" /\ row.awaiting \in kinds
      BY DEF Captured, Replying, Conversing, Routing
<1>2. RowNames(row) /\ his \subseteq Visit
      BY DEF WType
<1>3. GoodPlan(p) /\ p.then = "idle"
  <2>1. CASE o = "none"
    <3>1. row.about \in Visit \cup {NoVisit} /\ NoRow \in Row
          BY <1>2, Rows DEF RowNames, His
    <3>2. p \in Plan /\ p.op = "none" /\ ~p.keep /\ p.next = NoRow /\ p.then = "idle"
          BY <2>1, <3>1, WritePlan
    <3> HIDE DEF p
    <3> QED BY <3>2, NoRowNames DEF GoodPlan, PlanNames, PlanPoints
  <2>2. CASE o # "none"
    <3>1. row.about \in his
          BY <1>1, <1>2, <2>2 DEF RowNames, His
    <3> QED BY <1>2, <2>2, <3>1, NoRowNames, WriteIsGood
  <2> QED BY <2>1, <2>2
<1> QED BY <1>1, <1>3 DEF Where

LEMMA RepliesDecide ==
    ASSUME WType, NEW h \in Handler,
           MissingInfoNote(h) \/ ProblemTypeNote(h) \/ FinishedNotes(h) \/ DeclineReason(h)
             \/ NeedInfoNote(h) \/ OfficeNote(h) \/ PickerReply(h) \/ DisambigReply(h)
             \/ EtaVerb(h) \/ EtaTime(h)
    PROVE  \E p : /\ Decide(h, p) /\ GoodPlan(p) /\ p.then # "route"
                  /\ pc[h] \in Where \ {"idle"}
<1>0. RowNames(row) /\ his \subseteq Visit
      BY DEF WType
<1>1. CASE MissingInfoNote(h)
      BY <1>1, CapturedDecides DEF MissingInfoNote, Capture, Report, AboutOne
<1>2. CASE ProblemTypeNote(h)
      BY <1>2, CapturedDecides DEF ProblemTypeNote, Capture, Report, AboutOne
<1>3. CASE FinishedNotes(h)
      BY <1>3, CapturedDecides DEF FinishedNotes, Capture, Silent, AboutOne
<1>4. CASE DeclineReason(h)
      BY <1>4, CapturedDecides DEF DeclineReason, Capture, Report, AboutOne
<1>5. CASE NeedInfoNote(h)
      BY <1>5, CapturedDecides DEF NeedInfoNote, Capture, Report, AboutOne
<1>6. CASE OfficeNote(h)
      BY <1>6, CapturedDecides DEF OfficeNote, Capture
<1>7. CASE PickerReply(h)
  <2>1. row.awaiting \in Picker /\ pc[h] = "route"
        BY <1>7 DEF PickerReply, Replying, Conversing, Routing
  <2>2. AllGood(PickerRoutes(row.awaiting, row.about))
        BY <1>0, <2>1, PickerRoutesAreGood DEF RowNames
  <2> QED BY <1>7, <2>1, <2>2, StayIsGood DEF PickerReply, AllGood, Where
<1>8. CASE DisambigReply(h)
  <2>1. row.awaiting \in Disambig /\ pc[h] = "route"
        BY <1>8 DEF DisambigReply, Replying, Conversing, Routing
  <2>2. row.pending \in Move \cup {"none"} /\ row.list \subseteq his
        BY <1>0 DEF RowNames, Row
  <2>3. \A v \in his : GoodPlan(Chosen(row.awaiting, row.pending, v))
                       /\ Chosen(row.awaiting, row.pending, v).then = "idle"
        BY <2>1, <2>2, ChosenIsGood
  <2>4. Open \subseteq his
        BY OpenIsHis
  <2> QED BY <1>8, <2>1, <2>2, <2>3, <2>4, NoRowIsGood, StayIsGood DEF DisambigReply, Where
<1>9. CASE EtaVerb(h)
  <2>1. row.awaiting = "status_eta_prompt" /\ pc[h] = "route" /\ text[h].move \in Move
        BY <1>9, OfMessage DEF EtaVerb, Replying, Conversing, Routing
  <2>2. row.about \in his
        BY <1>0, <2>1 DEF RowNames, AboutOne, His
  <2> QED BY <1>0, <1>9, <2>1, <2>2, TransitionIsGood DEF EtaVerb, Where
<1>10. CASE EtaTime(h)
  <2> DEFINE r == Pointing("idle_active_inspection", row.about, row.live)
  <2>1. row.awaiting = "status_eta_prompt" /\ pc[h] = "route"
        BY <1>10 DEF EtaTime, Replying, Conversing, Routing
  <2>2. row.about \in his /\ row.pointer = row.about /\ row.live \in BOOLEAN
        BY <1>0, <2>1 DEF RowNames, AboutOne, His, Row
  <2>3. RowNames(r) /\ r.pointer = row.about
        BY <1>0, <2>2, PointingNames
  <2>4. GoodPlan(Write("eta", row.about, r)) /\ Write("eta", row.about, r).then = "idle"
        BY <1>0, <2>2, <2>3, WriteIsGood DEF Silent
  <2> QED BY <1>10, <2>1, <2>4 DEF EtaTime, Where
<1> QED BY <1>1, <1>2, <1>3, <1>4, <1>5, <1>6, <1>7, <1>8, <1>9, <1>10

LEMMA AgainDecide ==
    ASSUME WType, NEW h \in Handler,
           PickerEscape(h) \/ CaptureMenu(h) \/ Pivot(h) \/ EtaOther(h)
    PROVE  \E p : /\ Decide(h, p) /\ GoodPlan(p)
                  /\ pc[h] = "route" /\ row.awaiting \notin Fresh
<1>1. CASE PickerEscape(h)
  <2>1. pc[h] = "route" /\ row.awaiting \notin Fresh
        BY <1>1 DEF PickerEscape, Replying, Conversing, Routing, Picker, Fresh
  <2> QED BY <1>1, <2>1, NoRowThen DEF PickerEscape
<1>2. CASE CaptureMenu(h)
  <2>1. pc[h] = "route" /\ row.awaiting \notin Fresh
        BY <1>2 DEF CaptureMenu, Replying, Conversing, Routing, Capture, Fresh
  <2> QED BY <1>2, <2>1, NoRowThen DEF CaptureMenu
<1>3. CASE Pivot(h)
  <2>1. pc[h] = "route" /\ row.awaiting \notin Fresh
        BY <1>3 DEF Pivot, Replying, Conversing, Routing, Capture, Fresh
  <2> QED BY <1>3, <2>1, NoRowThen, NoRowIsGood DEF Pivot
<1>4. CASE EtaOther(h)
  <2> DEFINE r == Pointing("idle_active_inspection", row.about, row.live)
  <2>1. row.awaiting = "status_eta_prompt" /\ pc[h] = "route" /\ row.awaiting \notin Fresh
        BY <1>4 DEF EtaOther, Replying, Conversing, Routing, Fresh
  <2>2. RowNames(row) /\ his \subseteq Visit
        BY DEF WType
  <2>3. row.about \in his /\ row.pointer = row.about /\ row.live \in BOOLEAN
        BY <2>1, <2>2 DEF RowNames, AboutOne, His, Row
  <2>4. /\ RowNames(r) /\ r.pointer = row.pointer
        /\ r.awaiting = "idle_active_inspection"
    <3>1. row.about \in Visit /\ "idle_active_inspection" \in AwaitingKind
          BY <2>2, <2>3 DEF AwaitingKind
    <3> QED BY <2>2, <2>3, <3>1, PointingNames, PointingRow
  <2> HIDE DEF r
  <2>5. r \in Row
        BY <2>4 DEF RowNames
  <2>6. GoodPlan(To(r)) /\ To(r).op = "none" /\ To(r).keep = FALSE /\ To(r).next = r
    <3> DEFINE p == To(r)
    <3>1. p \in Plan /\ p.op = "none" /\ ~p.keep /\ p.next = r /\ p.then = "idle"
          BY <2>5, ToPlan
    <3>2. p.keep = FALSE
          BY <3>1 DEF Plan
    <3> HIDE DEF p
    <3>3. GoodPlan(p)
          BY <2>4, <3>1 DEF GoodPlan, PlanNames, PlanPoints, RoadOp
    <3> QED BY <3>1, <3>2, <3>3 DEF p
  <2>7. GoodPlan(Then(To(r), "route"))
        BY <2>4, <2>6, ThenIsGood DEF Fresh
  <2> QED BY <1>4, <2>1, <2>7 DEF EtaOther, r
<1> QED BY <1>1, <1>2, <1>3, <1>4

LEMMA IntentDecide ==
    ASSUME WType, NEW h \in Handler,
           ProblemDirect(h) \/ AdvanceNamed(h) \/ AdvanceCurrent(h) \/ AdvanceOpen(h)
    PROVE  \E p : /\ Decide(h, p) /\ GoodPlan(p) /\ p.then # "route"
                  /\ pc[h] \in Where \ {"idle"}
<1>0. /\ Open \in SUBSET his /\ InProgress \in SUBSET his /\ his \subseteq Visit
      /\ pc[h] = "intent" /\ "intent" \in Where \ {"idle"}
      BY OpenIsHis DEF ProblemDirect, AdvanceNamed, AdvanceCurrent, AdvanceOpen, Following, Where
<1>1. \A s \in SUBSET his, t \in Move :
        /\ GoodPlan(To(Choosing("status_disambig", s, t)))
        /\ To(Choosing("status_disambig", s, t)).then = "idle"
      BY <1>0, ChoosingNames, ToIsGood DEF Disambig
<1>2. CASE ProblemDirect(h)
  <2> DEFINE tell == [v \in Visit |-> [Stay EXCEPT !.op = "problem", !.visit = v]]
  <2>1. ASSUME NEW v \in his
        PROVE  GoodPlan(tell[v]) /\ tell[v].then = "idle"
    <3> DEFINE p == [Stay EXCEPT !.op = "problem", !.visit = v]
    <3>1. v \in Visit
          BY <1>0
    <3>2. tell[v] = p
          BY <3>1
    <3>3. /\ p \in Plan /\ p.op = "problem" /\ p.visit = v /\ p.then = "idle" /\ p.keep
          /\ p.next = NoRow
          BY <3>1, StayPlan DEF Plan, Report
    <3> HIDE DEF tell, p
    <3> QED BY <3>2, <3>3, NoRowNames DEF GoodPlan, PlanNames, PlanPoints, RoadOp
  <2>2. \E p \in Resolved(Stay, tell, "problem_disambig", "none") : Decide(h, p)
        BY <1>2 DEF ProblemDirect
  <2> HIDE DEF tell
  <2>3. AllGood(Resolved(Stay, tell, "problem_disambig", "none"))
        BY <2>1, StayIsGood, ResolvedIsGood DEF Disambig
  <2> QED BY <1>0, <2>2, <2>3 DEF AllGood
<1>3. CASE AdvanceNamed(h)
  <2>1. text[h].move \in Move
        BY <1>3, OfMessage DEF AdvanceNamed
  <2>2. \A v \in his : GoodPlan(performTransition(v, text[h].move))
                       /\ performTransition(v, text[h].move).then = "idle"
        BY <1>0, <2>1, TransitionIsGood
  <2> QED BY <1>0, <1>1, <1>3, <2>1, <2>2, StayIsGood DEF AdvanceNamed
<1>4. CASE AdvanceCurrent(h)
  <2> DEFINE t == text[h].move
  <2>1. t \in Move
        BY <1>4, OfMessage DEF AdvanceCurrent, Following
  <2>2. \A v \in his : GoodPlan(performTransition(v, t))
                       /\ performTransition(v, t).then = "idle"
        BY <1>0, <2>1, TransitionIsGood
  <2>3. CASE Pointer # NoVisit /\ Valid(Pointer)
        BY <1>0, <1>4, <2>2, <2>3, ValidIsHis DEF AdvanceCurrent
  <2>4. CASE ~(Pointer # NoVisit /\ Valid(Pointer))
    <3>1. PICK s \in SUBSET InProgress \ {{}} :
            IF Cardinality(s) = 1
            THEN \E v \in s : Decide(h, performTransition(v, t))
            ELSE Decide(h, To(Choosing("status_disambig", s, t)))
          BY <1>4, <2>4 DEF AdvanceCurrent
    <3>2. s \in SUBSET his
          BY <1>0
    <3> QED BY <1>0, <1>1, <2>1, <2>2, <3>1, <3>2
  <2> QED BY <2>3, <2>4
<1>5. CASE AdvanceOpen(h)
  <2> DEFINE t == text[h].move
             advance == [v \in Visit |-> performTransition(v, t)]
  <2>1. t \in Move
        BY <1>5, OfMessage DEF AdvanceOpen, Following
  <2>2. \A v \in his : GoodPlan(advance[v]) /\ advance[v].then = "idle"
        BY <1>0, <2>1, TransitionIsGood
  <2>3. \E p \in Resolved(Stay, advance, "status_disambig", t) : Decide(h, p)
        BY <1>5 DEF AdvanceOpen
  <2> HIDE DEF advance, t
  <2>4. AllGood(Resolved(Stay, advance, "status_disambig", t))
        BY <2>1, <2>2, StayIsGood, ResolvedIsGood DEF Disambig
  <2> QED BY <1>0, <2>3, <2>4 DEF AllGood
<1> QED BY <1>2, <1>3, <1>4, <1>5

-----------------------------------------------------------------------------
(* The invariant.                                                          *)

AtRest == \A h \in Handler : pc[h] \in Where \/ plan[h].keep

\* While messages come one by one.  A message that was served again finds no
\* prompt; the pointer is that of the visit he is on, and so is the one that
\* replaces it when the row is written.
Turn(h) ==
    /\ pc[h] # "idle" => \A g \in Handler \ {h} : pc[g] = "idle"
    /\ entered[h] \in {0, 1}
    /\ pc[h] = "idle" => entered[h] = 0
    /\ pc[h] = "route" /\ entered[h] # 0 => row.awaiting \in Fresh
    /\ pc[h] \in {"write", "settle"} /\ plan[h].then = "route" => entered[h] = 0
    /\ pc[h] = "settle" /\ ~plan[h].keep => plan[h].next.pointer \in {NoVisit, on}
    /\ pc[h] = "write" => PlanPoints(plan[h], on)

InTurn ==
    /\ \A h \in Handler : Turn(h)
    /\ AtRest => row.pointer \in {NoVisit, on}

WInv == WType /\ (disturbed \/ InTurn)

LEMMA Unquoted ==
    ASSUME NEW m \in Message \cup {NoText}
    PROVE  /\ [m EXCEPT !.quoted = NoVisit] \in Message \cup {NoText}
           /\ [m EXCEPT !.quoted = NoVisit].visit = m.visit
           /\ [m EXCEPT !.quoted = NoVisit].quoted = NoVisit
<1> DEFINE n == [m EXCEPT !.quoted = NoVisit]
<1>1. ASSUME NEW k, NEW v, NEW t, NEW q, m = Word(k, v, t, q)
      PROVE  n = Word(k, v, t, NoVisit)
  <2>1. m = [kind |-> k, visit |-> v, move |-> t, quoted |-> q]
        BY <1>1 DEF Word
  <2>2. n = [x \in DOMAIN m |-> IF x = "quoted" THEN NoVisit ELSE m[x]]
        OBVIOUS
  <2> QED BY <2>1, <2>2 DEF Word
<1>2. m.visit = n.visit /\ n.quoted = NoVisit
      BY DEF Message, NoText, Word
<1> HIDE DEF n
<1>3. n \in Message \cup {NoText}
  <2>1. CASE m = NoText
        BY <1>1, <2>1 DEF NoText
  <2>2. CASE \E k \in PlainKind : m = Word(k, NoVisit, "none", NoVisit)
        BY <1>1, <2>2 DEF Message
  <2>3. CASE \E k \in VisitTap \cup {"name"}, v \in Visit : m = Word(k, v, "none", NoVisit)
        BY <1>1, <2>3 DEF Message
  <2>4. CASE \E v \in Visit \cup {NoVisit}, t \in Move : m = Word("verb", v, t, NoVisit)
        BY <1>1, <2>4 DEF Message
  <2>5. CASE \E t \in Move, q \in Visit : m = Word("verb", NoVisit, t, q)
    <3>1. PICK t \in Move, q \in Visit : m = Word("verb", NoVisit, t, q)
          BY <2>5
    <3>2. n = Word("verb", NoVisit, t, NoVisit)
          BY <1>1, <3>1
    <3> QED BY <3>2 DEF Message
  <2> QED BY <2>1, <2>2, <2>3, <2>4, <2>5 DEF Message
<1> QED BY <1>2, <1>3 DEF n

LEMMA NoTextNames == TextNames(NoText)
BY DEF TextNames, NoText, Word, His

LEMMA InitConversation == Init => WInv
<1> SUFFICES ASSUME Init PROVE WInv
    OBVIOUS
<1>1. TextNames(NoText) /\ RowNames(NoRow) /\ PlanNames(Stay) /\ NoRow.pointer = NoVisit
      BY NoTextNames, NoRowNames, StayIsGood DEF GoodPlan
<1>2. "ASSIGNED" \in FieldStatus /\ First \subseteq Visit
      BY DEF FieldStatus, OpenStatus
<1> QED BY <1>1, <1>2 DEF Init, WInv, WType, InTurn, Turn

\* A decision is kept until it is written.
LEMMA DecideKeeps ==
    ASSUME WInv, NEW h \in Handler, NEW p, Decide(h, p), GoodPlan(p),
           pc[h] \in Where \ {"idle"},
           p.then = "route" => pc[h] = "route" /\ row.awaiting \notin Fresh
    PROVE  WInv'
<1>1. /\ WType /\ PlanNames(p) /\ PlanPoints(p, row.pointer)
      /\ plan' = [plan EXCEPT ![h] = p]
      /\ pc' = [pc EXCEPT ![h] = IF p.op = "none" THEN "settle" ELSE "write"]
      /\ UNCHANGED <<status, mine, row, entered, his, moved, ended, on, disturbed>>
      BY DEF WInv, GoodPlan, Decide, visits, past
<1>2. \A g \in Handler : TextNames(text'[g])
  <2>1. text'[h] = NoText \/ text'[h] = [text[h] EXCEPT !.quoted = NoVisit] \/ text'[h] = text[h]
        BY <1>1 DEF Decide, WType
  <2>2. TextNames(text'[h])
    <3>1. TextNames([text[h] EXCEPT !.quoted = NoVisit])
          BY <1>1, Unquoted DEF WType, TextNames, His
    <3> QED BY <1>1, <2>1, <3>1, NoTextNames DEF WType
  <2>3. \A g \in Handler \ {h} : text'[g] = text[g]
        BY <1>1 DEF Decide, WType
  <2> QED BY <1>1, <2>2, <2>3 DEF WType
<1>3. /\ row' = row /\ text' = [g \in Handler |-> text'[g]] /\ plan' = [g \in Handler |-> plan'[g]]
      /\ pc' \in [Handler -> {"idle", "route", "menu", "intent", "agent", "write", "settle"}]
      /\ plan'[h] = p /\ (p.op = "none" => pc'[h] = "settle") /\ (p.op # "none" => pc'[h] = "write")
      /\ \A g \in Handler \ {h} : plan'[g] = plan[g] /\ pc'[g] = pc[g]
      BY <1>1 DEF WType, Decide
<1>4. WType'
  <2>1. \A g \in Handler : PlanNames(plan'[g])
        BY <1>1, <1>3 DEF WType
  <2>2. \A g \in Handler : TextNames(text[g])'
        BY <1>1, <1>2 DEF TextNames, His
  <2>3. \A g \in Handler : PlanNames(plan[g])'
        BY <1>1, <2>1 DEF PlanNames, RowNames, His
  <2>4. RowNames(row)'
        BY <1>1 DEF WType, RowNames, His
  <2>5. \A g \in Handler : pc'[g] = "write" => plan'[g].op # "none"
        BY <1>1, <1>3 DEF WType
  <2> QED BY <1>1, <1>3, <2>2, <2>3, <2>4, <2>5 DEF WType
<1>5. ASSUME ~disturbed PROVE InTurn'
  <2>1. InTurn /\ \A g \in Handler \ {h} : pc[g] = "idle"
        BY <1>5 DEF WInv, InTurn, Turn
  <2>2. AtRest /\ row.pointer \in {NoVisit, on}
        BY <1>1, <2>1 DEF InTurn, AtRest, Where
  <2>3. PlanPoints(p, on)
        BY <1>1, <2>2 DEF PlanPoints
  <2>4. Turn(h)'
    <3>1. /\ entered' = entered /\ entered[h] \in {0, 1}
          /\ p.then = "route" => entered[h] = 0
          BY <1>1, <2>1 DEF InTurn, Turn
    <3>2. p.op = "none" /\ ~p.keep => p.next.pointer \in {NoVisit, on}
          BY <2>3 DEF PlanPoints, RoadOp
    <3> QED BY <1>1, <1>3, <2>1, <2>3, <3>1, <3>2 DEF Turn, PlanPoints
  <2>5. ASSUME NEW g \in Handler \ {h} PROVE Turn(g)'
    <3>1. pc'[g] = "idle" /\ entered' = entered /\ entered[g] = 0
          BY <1>1, <1>3, <2>1 DEF InTurn, Turn
    <3> QED BY <3>1 DEF Turn
  <2> QED BY <1>1, <2>2, <2>4, <2>5 DEF InTurn
<1> QED BY <1>1, <1>4, <1>5 DEF WInv

LEMMA HandleDecides ==
    ASSUME WType, NEW h \in Handler, Handle(h)
    PROVE  \/ WriteVisit(h) \/ Settle(h)
           \/ \E p : /\ Decide(h, p) /\ GoodPlan(p) /\ pc[h] \in Where \ {"idle"}
                     /\ p.then = "route" => pc[h] = "route" /\ row.awaiting \notin Fresh
<1>1. CASE \/ EquipmentTap(h) \/ CardTap(h) \/ PreReminderTap(h) \/ MenuTap(h)
           \/ MenuRoute(h)
      BY <1>1, TapsDecide
<1>2. CASE \/ FastPath(h) \/ FreshMenu(h) \/ StartAgent(h) \/ CallTool(h) \/ EndAgent(h)
           \/ AgentConfirm(h) \/ Correction(h)
      BY <1>2, FreshDecide
<1>3. CASE \/ MissingInfoNote(h) \/ ProblemTypeNote(h) \/ FinishedNotes(h)
           \/ DeclineReason(h) \/ NeedInfoNote(h) \/ OfficeNote(h) \/ PickerReply(h)
           \/ DisambigReply(h) \/ EtaVerb(h) \/ EtaTime(h)
      BY <1>3, RepliesDecide
<1>4. CASE PickerEscape(h) \/ CaptureMenu(h) \/ Pivot(h) \/ EtaOther(h)
      BY <1>4, AgainDecide DEF Where
<1>5. CASE ProblemDirect(h) \/ AdvanceNamed(h) \/ AdvanceCurrent(h) \/ AdvanceOpen(h)
      BY <1>5, IntentDecide
<1> QED BY <1>1, <1>2, <1>3, <1>4, <1>5, Zenon DEF Handle

LEMMA SendKeeps ==
    ASSUME WInv, NEW h \in Handler, NEW m \in Message, Send(h, m)
    PROVE  WInv'
<1>1. /\ WType /\ TextNames(m) /\ pc[h] = "idle"
      /\ pc' = [pc EXCEPT ![h] = "route"] /\ text' = [text EXCEPT ![h] = m]
      /\ disturbed' = (disturbed \/ \E g \in Handler : pc[g] # "idle")
      /\ UNCHANGED <<status, mine, row, plan, entered, his, moved, ended, on>>
      BY DEF WInv, Send, TextNames, Sendable, His, visits, past
<1>2. WType'
  <2>1. \A g \in Handler : TextNames(text'[g])
        BY <1>1 DEF WType
  <2>2. \A g \in Handler : TextNames(text[g])'
        BY <1>1, <2>1 DEF TextNames, His
  <2>3. \A g \in Handler : PlanNames(plan[g])'
        BY <1>1 DEF WType, PlanNames, RowNames, His
  <2>4. RowNames(row)'
        BY <1>1 DEF WType, RowNames, His
  <2>5. disturbed' \in BOOLEAN
        BY <1>1, Zenon DEF WType
  <2> QED BY <1>1, <2>2, <2>3, <2>4, <2>5 DEF WType
<1>3. ASSUME ~disturbed' PROVE InTurn'
  <2>1. ~disturbed /\ \A g \in Handler : pc[g] = "idle"
        BY <1>1, <1>3
  <2>2. InTurn /\ AtRest
        BY <2>1 DEF WInv, AtRest, Where
  <2>3. Turn(h)'
        BY <1>1, <2>1, <2>2 DEF InTurn, Turn, WType
  <2>4. ASSUME NEW g \in Handler \ {h} PROVE Turn(g)'
        BY <1>1, <2>1, <2>2 DEF InTurn, Turn, WType
  <2> QED BY <1>1, <2>2, <2>3, <2>4 DEF InTurn
<1> QED BY <1>2, <1>3 DEF WInv

LEMMA WrittenStatus ==
    ASSUME NEW o \in Move \cup Report \cup Silent, NEW v, status[v] \in FieldStatus
    PROVE  Written(o, v) \in FieldStatus
<1>1. CASE o \in Silent
      BY <1>1 DEF Written, Silent
<1>2. CASE o \in Move
      BY <1>2 DEF Written, Move, FieldStatus, OpenStatus, Closed
<1>3. CASE o \in Report
      BY <1>3 DEF Written, Report, FieldStatus, OpenStatus, Closed
<1> QED BY <1>1, <1>2, <1>3

LEMMA WriteKeeps ==
    ASSUME WInv, NEW h \in Handler, WriteVisit(h)
    PROVE  WInv' /\ plan[h].visit \in his
<1> DEFINE p == plan[h]
           o == p.op
           v == p.visit
<1>1. /\ WType /\ pc[h] = "write" /\ p \in Plan /\ RowNames(p.next) /\ o # "none"
      /\ v \in his /\ v \in Visit /\ v # NoVisit
      /\ p.then = "route" => ~p.keep /\ p.next.awaiting \in Fresh
      /\ p.then \in {"idle", "agent"}
      BY DEF WInv, WType, WriteVisit, PlanNames, NoVisit
<1>2. o \in Move \cup Report \cup Silent
      BY <1>1 DEF Plan
<1>3. /\ status' = [status EXCEPT ![v] = Written(o, v)]
      /\ moved' = IF p.then # "agent" /\ o \in RoadOp THEN moved \cup {v} ELSE moved
      /\ ended' = IF p.then # "agent" /\ o = "FINISHED" THEN ended \cup {v} ELSE ended
      /\ plan' = [plan EXCEPT ![h] = [@ EXCEPT !.op = "none", !.visit = NoVisit]]
      /\ pc' = [pc EXCEPT ![h] = "settle"]
      /\ UNCHANGED <<mine, row, text, entered, his, disturbed>>
      BY DEF WriteVisit, RoadOp
<1>4. /\ p.then # "agent" /\ o \in RoadOp => on' = v
      /\ p.then # "agent" /\ o = "FINISHED" /\ v = on => on' = NoVisit
      /\ ~(p.then # "agent" /\ o \in RoadOp \cup {"FINISHED"}) => on' = on
      /\ on' \in {on, v, NoVisit}
      /\ on' = v => (p.then # "agent" /\ o \in RoadOp) \/ on = v
      BY <1>1 DEF WriteVisit, RoadOp
<1>5. /\ plan'[h] \in Plan /\ plan'[h].op = "none" /\ plan'[h].keep = p.keep
      /\ plan'[h].next = p.next /\ plan'[h].then = p.then
      /\ \A g \in Handler \ {h} : plan'[g] = plan[g]
      /\ plan' = [g \in Handler |-> plan'[g]]
      BY <1>1, <1>3 DEF Plan, WType
<1>6. WType'
  <2>1. status' \in [Visit -> FieldStatus]
        BY <1>1, <1>2, <1>3, WrittenStatus DEF WType
  <2>2. \A g \in Handler : PlanNames(plan'[g])
    <3>1. PlanNames(plan'[h])
          BY <1>1, <1>5 DEF PlanNames
    <3> QED BY <1>1, <1>5, <3>1 DEF WType
  <2>3. \A g \in Handler : PlanNames(plan[g])'
        BY <1>3, <2>2 DEF PlanNames, RowNames, His
  <2>4. \A g \in Handler : TextNames(text[g])'
        BY <1>1, <1>3 DEF WType, TextNames, His
  <2>5. RowNames(row)'
        BY <1>1, <1>3 DEF WType, RowNames, His
  <2>6. moved' \subseteq his /\ ended' \subseteq his /\ on' \in moved' \cup {NoVisit}
        BY <1>1, <1>3, <1>4 DEF WType
  <2>7. /\ pc' \in [Handler -> {"idle", "route", "menu", "intent", "agent", "write", "settle"}]
        /\ \A g \in Handler : pc'[g] = "write" => plan'[g].op # "none"
        BY <1>1, <1>3, <1>5 DEF WType
  <2> QED BY <1>1, <1>3, <1>5, <2>1, <2>3, <2>4, <2>5, <2>6, <2>7 DEF WType
<1>7. ASSUME ~disturbed PROVE InTurn'
  <2>1. /\ InTurn /\ \A g \in Handler \ {h} : pc[g] = "idle"
        /\ PlanPoints(p, on) /\ entered[h] \in {0, 1}
        BY <1>1, <1>7 DEF WInv, InTurn, Turn
  <2>2. pc'[h] = "settle" /\ \A g \in Handler \ {h} : pc'[g] = "idle"
        BY <1>1, <1>3, <2>1 DEF WType
  <2>3. ~p.keep => p.next.pointer \in {NoVisit, on'}
        BY <1>1, <1>4, <2>1 DEF PlanPoints, RoadOp
  <2>4. Turn(h)'
        BY <1>1, <1>3, <1>5, <2>1, <2>2, <2>3 DEF Turn
  <2>5. ASSUME NEW g \in Handler \ {h} PROVE Turn(g)'
    <3>1. pc'[g] = "idle" /\ entered[g] = 0
          BY <2>1, <2>2 DEF InTurn, Turn
    <3> QED BY <1>3, <3>1 DEF Turn
  <2>6. AtRest' => row.pointer \in {NoVisit, on'}
    <3>1. ASSUME AtRest' PROVE p.keep
      <4>1. plan'[h].keep
            BY <2>2, <3>1 DEF AtRest, Where
      <4> QED BY <1>5, <4>1
    <3>2. p.keep => on' = on /\ AtRest
          BY <1>4, <2>1 DEF PlanPoints, AtRest, Where
    <3> QED BY <2>1, <3>1, <3>2 DEF InTurn
  <2> QED BY <1>3, <2>4, <2>5, <2>6 DEF InTurn
<1> QED BY <1>1, <1>3, <1>6, <1>7 DEF WInv

LEMMA SettleKeeps ==
    ASSUME WInv, NEW h \in Handler, Settle(h)
    PROVE  WInv'
<1> DEFINE p == plan[h]
<1>1. /\ WType /\ pc[h] = "settle" /\ PlanNames(p)
      /\ row' = IF p.keep THEN row ELSE p.next
      /\ pc' = [pc EXCEPT ![h] = p.then]
      /\ plan' = [plan EXCEPT ![h] = Stay]
      /\ UNCHANGED <<status, mine, text, his, moved, ended, on, disturbed>>
      BY DEF WInv, WType, Settle, visits, past
<1>2. p.then \in Where
      BY <1>1 DEF PlanNames, Plan, Where
<1>3. /\ entered' \in [Handler -> Nat]
      /\ \A g \in Handler \ {h} : entered'[g] = entered[g]
      /\ p.then = "route" => entered'[h] = entered[h] + 1
      /\ p.then = "idle" => entered'[h] = 0
      /\ p.then \notin {"route", "idle"} => entered'[h] = entered[h]
      BY <1>1 DEF Settle, WType
<1>4. /\ plan' = [g \in Handler |-> plan'[g]] /\ plan'[h] = Stay
      /\ \A g \in Handler \ {h} : plan'[g] = plan[g] /\ pc'[g] = pc[g]
      /\ pc'[h] = p.then
      /\ pc' \in [Handler -> {"idle", "route", "menu", "intent", "agent", "write", "settle"}]
      BY <1>1, <1>2 DEF WType, Where
<1>5. WType'
  <2>1. \A g \in Handler : PlanNames(plan'[g])
    <3>1. PlanNames(Stay)
          BY StayIsGood DEF GoodPlan
    <3> QED BY <1>1, <1>4, <3>1 DEF WType
  <2>2. \A g \in Handler : PlanNames(plan[g])'
        BY <1>1, <2>1 DEF PlanNames, RowNames, His
  <2>3. \A g \in Handler : TextNames(text[g])'
        BY <1>1 DEF WType, TextNames, His
  <2>4. RowNames(row')
        BY <1>1 DEF WType, PlanNames
  <2>5. RowNames(row)'
        BY <1>1, <2>4 DEF RowNames, His
  <2>6. \A g \in Handler : pc'[g] = "write" => plan'[g].op # "none"
        BY <1>1, <1>2, <1>4 DEF WType, Where
  <2> QED BY <1>1, <1>3, <1>4, <2>2, <2>3, <2>5, <2>6 DEF WType
<1>6. ASSUME ~disturbed PROVE InTurn'
  <2>1. /\ InTurn /\ \A g \in Handler \ {h} : pc[g] = "idle"
        /\ entered[h] \in {0, 1} /\ (p.then = "route" => entered[h] = 0)
        /\ ~p.keep => p.next.pointer \in {NoVisit, on}
        BY <1>1, <1>6 DEF WInv, InTurn, Turn
  <2>2. row'.pointer \in {NoVisit, on}
    <3>1. p.keep => AtRest
          BY <2>1 DEF AtRest, Where
    <3> QED BY <1>1, <2>1, <3>1 DEF InTurn
  <2>3. p.then = "route" => row'.awaiting \in Fresh
        BY <1>1 DEF PlanNames
  <2>4. entered'[h] \in {0, 1} /\ (p.then = "idle" => entered'[h] = 0)
        BY <1>3, <2>1
  <2>5. \A g \in Handler \ {h} : pc'[g] = "idle"
        BY <1>4, <2>1
  <2>6. Turn(h)'
        BY <1>2, <1>4, <2>3, <2>4, <2>5 DEF Turn, Where
  <2>7. ASSUME NEW g \in Handler \ {h} PROVE Turn(g)'
    <3>1. pc'[g] = "idle" /\ entered'[g] = 0
          BY <1>3, <2>1, <2>5 DEF InTurn, Turn
    <3> QED BY <3>1 DEF Turn
  <2> QED BY <1>1, <2>2, <2>6, <2>7 DEF InTurn
<1> QED BY <1>1, <1>5, <1>6 DEF WInv

LEMMA BreakKeeps ==
    ASSUME WInv, NEW h \in Handler, Break(h)
    PROVE  WInv'
<1>1. /\ WType /\ disturbed' = TRUE
      /\ pc' = [pc EXCEPT ![h] = "idle"] /\ text' = [text EXCEPT ![h] = NoText]
      /\ plan' = [plan EXCEPT ![h] = Stay] /\ entered' = [entered EXCEPT ![h] = 0]
      /\ UNCHANGED <<status, mine, row, his, moved, ended, on>>
      BY DEF WInv, Break, visits, past
<1>2. PlanNames(Stay) /\ TextNames(NoText)
      BY StayIsGood, NoTextNames DEF GoodPlan
<1>3. \A g \in Handler : PlanNames(plan'[g]) /\ TextNames(text'[g])
      BY <1>1, <1>2 DEF WType
<1>4. /\ \A g \in Handler : PlanNames(plan[g])' /\ TextNames(text[g])'
      /\ RowNames(row)'
  <2>1. \A g \in Handler : PlanNames(plan[g])'
        BY <1>1, <1>3 DEF PlanNames, RowNames, His
  <2>2. \A g \in Handler : TextNames(text[g])'
        BY <1>1, <1>3 DEF TextNames, His
  <2>3. RowNames(row)'
        BY <1>1 DEF WType, RowNames, His
  <2> QED BY <2>1, <2>2, <2>3
<1>5. WType'
      BY <1>1, <1>4 DEF WType
<1> QED BY <1>1, <1>5 DEF WInv

\* The office and time disturb no turn.
LEMMA OfficeKeeps ==
    ASSUME WInv, NEW v \in Visit, Reassign(v) \/ Cancel(v)
    PROVE  WInv'
<1>1. /\ WType /\ UNCHANGED <<row, pc, text, plan, entered, moved, ended, on, disturbed>>
      /\ his \subseteq his' /\ his' \subseteq Visit /\ mine' \subseteq his'
      /\ status' \in [Visit -> FieldStatus]
  <2>1. CASE Reassign(v)
        BY <2>1 DEF WInv, WType, Reassign, handlers
  <2>2. CASE Cancel(v)
        BY <2>2 DEF WInv, WType, Cancel, handlers, past, FieldStatus, Closed
  <2> QED BY <2>1, <2>2
<1>2. \A g \in Handler : PlanNames(plan[g])'
      BY <1>1 DEF WType, PlanNames, RowNames, His
<1>3. \A g \in Handler : TextNames(text[g])'
      BY <1>1 DEF WType, TextNames, His
<1>4. RowNames(row)'
      BY <1>1 DEF WType, RowNames, His
<1>5. WType'
      BY <1>1, <1>2, <1>3, <1>4 DEF WType
<1>6. InTurn => InTurn'
      BY <1>1 DEF InTurn, Turn, AtRest
<1> QED BY <1>1, <1>5, <1>6 DEF WInv

LEMMA ExpireKeeps ==
    ASSUME WInv, Expire
    PROVE  WInv'
<1>1. /\ WType
      /\ UNCHANGED <<status, mine, pc, text, plan, entered, his, moved, ended, on, disturbed>>
      /\ row' = [row EXCEPT !.live = FALSE] \/ row' = NoRow
      BY DEF WInv, Expire, visits, handlers, past
<1>2. RowNames(row) /\ row \in Row
      BY <1>1 DEF WType, RowNames
<1>3. RowNames(row') /\ row'.pointer \in {row.pointer, NoVisit}
      /\ row'.awaiting \in {row.awaiting, "none"}
  <2>1. CASE row' = NoRow
        BY <2>1, NoRowNames, Rows
  <2>2. CASE row' = [row EXCEPT !.live = FALSE]
        BY <1>2, <2>2 DEF RowNames, Row
  <2> QED BY <1>1, <2>1, <2>2
<1>4. RowNames(row)'
      BY <1>1, <1>3 DEF RowNames, His
<1>5. \A g \in Handler : PlanNames(plan[g])'
      BY <1>1 DEF WType, PlanNames, RowNames, His
<1>6. \A g \in Handler : TextNames(text[g])'
      BY <1>1 DEF WType, TextNames, His
<1>7. WType'
      BY <1>1, <1>4, <1>5, <1>6 DEF WType
<1>8. InTurn => InTurn'
      BY <1>1, <1>3 DEF InTurn, Turn, AtRest, Fresh
<1> QED BY <1>1, <1>7, <1>8 DEF WInv

LEMMA WNextKeeps ==
    ASSUME WInv, [Next]_vars
    PROVE  WInv'
<1>1. CASE UNCHANGED vars
  <2>1. UNCHANGED <<status, mine, row, pc, text, plan, entered, his, moved, ended, on, disturbed>>
        BY <1>1 DEF vars, past
  <2>2. \A g \in Handler : PlanNames(plan[g])'
        BY <2>1 DEF WInv, WType, PlanNames, RowNames, His
  <2>3. \A g \in Handler : TextNames(text[g])'
        BY <2>1 DEF WInv, WType, TextNames, His
  <2>4. RowNames(row)'
        BY <2>1 DEF WInv, WType, RowNames, His
  <2>5. WType'
        BY <2>1, <2>2, <2>3, <2>4 DEF WInv, WType
  <2>6. InTurn => InTurn'
        BY <2>1 DEF InTurn, Turn, AtRest
  <2> QED BY <2>1, <2>5, <2>6 DEF WInv
<1>2. ASSUME NEW h \in Handler, Handle(h) PROVE WInv'
      BY <1>2, HandleDecides, DecideKeeps, WriteKeeps, SettleKeeps DEF WInv
<1>3. ASSUME NEW h \in Handler, \E m \in Message : Send(h, m) PROVE WInv'
      BY <1>3, SendKeeps
<1> QED BY <1>1, <1>2, <1>3, BreakKeeps, OfficeKeeps, ExpireKeeps DEF Next

LEMMA WInvAlways == Spec => []WInv
<1>1. WInv /\ [Next]_vars => WInv'
      BY WNextKeeps
<1> QED BY <1>1, InitConversation, PTL DEF Spec

\* Every variable keeps its type; above all, "fieldStatus" only holds what its
\* CHECK constraint admits, and the row, the messages and what is decided only
\* name visits that have been the worker's.
THEOREM ConversationTypeCorrect == Spec => []TypeOK
<1>1. WInv => TypeOK
  <2> SUFFICES ASSUME WInv PROVE TypeOK
      OBVIOUS
  <2>1. text \in [Handler -> Message \cup {NoText}]
        BY DEF WInv, WType, TextNames
  <2>2. plan \in [Handler -> Plan]
        BY DEF WInv, WType, PlanNames
  <2> QED BY <2>1, <2>2 DEF WInv, WType, TypeOK, RowNames
<1> QED BY <1>1, WInvAlways, PTL

\* While messages come one by one, the pointer names the visit he departed for
\* or arrived at last and has not finished, or none: no menu, note, card,
\* escape or expiry brings an earlier one back.
THEOREM PointerIsCurrent == Spec => []CurrentPointer
<1>1. WInv => CurrentPointer
      BY DEF WInv, CurrentPointer, InTurn, AtRest, Where
<1> QED BY <1>1, WInvAlways, PTL

\* While messages come one by one, none is served from the start a third time:
\* whatever sends it round leaves no prompt behind that would do so again.
THEOREM EachEntersOnce == Spec => []EntersOnce
<1>1. WInv => EntersOnce
      BY DEF WInv, EntersOnce, InTurn, Turn
<1> QED BY <1>1, WInvAlways, PTL

\* Whatever is typed, tapped, quoted or made of it by the model, and whatever
\* overlaps, breaks off or expires: the router and the agent only ever write
\* the status of a visit that was the worker's.
THEOREM OnlyHisAreWritten == Spec => OnlyHisVisits
<1>1. ASSUME WInv, [Next]_vars
      PROVE  \A v \in Visit : status'[v] # status[v] => v \in his \/ status'[v] = "CANCELED"
  <2>1. status \in [Visit -> FieldStatus]
        BY <1>1 DEF WInv, WType
  <2>2. CASE UNCHANGED status
        BY <2>2
  <2>3. ASSUME NEW h \in Handler, Handle(h)
        PROVE  UNCHANGED status \/ WriteVisit(h)
        BY <1>1, <2>3, HandleDecides DEF WInv, Decide, Settle, visits
  <2>4. ASSUME NEW h \in Handler, WriteVisit(h)
        PROVE  \A v \in Visit : status'[v] # status[v] => v \in his
    <3>1. plan[h].visit \in his
          BY <1>1, <2>4, WriteKeeps
    <3>2. status' = [status EXCEPT ![plan[h].visit] = Written(plan[h].op, plan[h].visit)]
          BY <2>4 DEF WriteVisit
    <3> QED BY <2>1, <3>1, <3>2
  <2>5. ASSUME NEW w \in Visit, Cancel(w)
        PROVE  \A v \in Visit : status'[v] # status[v] => status'[v] = "CANCELED"
        BY <2>1, <2>5 DEF Cancel
  <2>6. \/ UNCHANGED status
        \/ \E h \in Handler : Handle(h)
        \/ \E v \in Visit : Cancel(v)
        BY <1>1 DEF Next, vars, Send, Break, Reassign, Expire, visits
  <2> QED BY <2>2, <2>3, <2>4, <2>5, <2>6
<1> QED BY <1>1, WInvAlways, PTL DEF Spec, OnlyHisVisits
=============================================================================
