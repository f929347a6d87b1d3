------------------------- MODULE WorkerConversation -------------------------
(***************************************************************************)
(* The conversation of one field worker with the bot: the context row of   *)
(* his phone number, the router that interprets a message by it, and the   *)
(* visits ("TaskField") his answers write.                                 *)
(*                                                                         *)
(* The router serves every message by itself: two messages of the worker   *)
(* sent in a hurry are two handlers, and each reads the row and the visits *)
(* (one step, the language model's choice included, which is free), writes *)
(* the visit and at last replaces or deletes the row.  Meanwhile the       *)
(* office reassigns and cancels visits, and rows expire.                   *)
(***************************************************************************)
EXTENDS Naturals, FiniteSets

CONSTANTS
    Visit,          \* ids of "TaskField" rows
    First,          \* those assigned to the worker at the beginning
    Handler,        \* slots for concurrently served messages
    MaxMessages,    \* bound: messages of the worker
    MaxEvents       \* bound: reassignments and cancellations by the office,
                    \* expiries, and queries the database refuses, together

ASSUME WorkerConversationAssumption ==
    /\ First \subseteq Visit
    /\ MaxMessages \in Nat
    /\ MaxEvents \in Nat
    /\ "none" \notin Visit

VARIABLES
    status,     \* status[v]: "TaskField"."fieldStatus"
    mine,       \* visits whose Task.ownerId is the worker
    row,        \* the row of his phone in "WhatsappConversationContext"
    pc,         \* pc[h]: where handler h is
    text,       \* text[h]: the message h serves
    plan,       \* plan[h]: what h has decided to write
    entered,    \* entered[h]: how often h served its message from the start again
    his,        \* visits that have ever been the worker's
    moved,      \* visits the router wrote as departed for or arrived at
    ended,      \* visits the router wrote as finished
    on,         \* the one he departed for or arrived at last, until finished
    disturbed,  \* two messages have overlapped, or a handler broke off
    messages, events

past   == <<his, moved, ended, on>>
bounds == <<messages, events>>
vars   == <<status, mine, row, pc, text, plan, entered, past, disturbed, bounds>>

NoVisit == "none"

OpenStatus == {"ASSIGNED", "CONFIRMED", "EN_ROUTE", "ARRIVED",
               "WAITING_FOR_INFO", "NEEDS_MORE_INFO"}
Closed     == {"CANCELED", "DECLINED", "FINISHED_FIELD"}
FieldStatus == OpenStatus \cup Closed \cup {"HAS_PROBLEM"}

Move   == {"CONFIRM", "DEPARTED", "ARRIVED", "FINISHED"}
Report == {"missing", "problem", "more_info", "decline"}
Silent == {"notes", "eta"}      \* written, without a change of fieldStatus

\* Numbered menus, which a text that is no number leaves.
Picker == {"menu", "status_choice", "problem_type_choice", "finished_followup",
           "day_summary_choice", "missing_info_choice",
           "missing_equipment_choice"}

\* Prompts whose answer is any text; a new request in it is a pivot.
Capture == {"missing_info_note", "problem_type_note", "finished_notes",
            "callback_customer_note", "equipment_missing_note",
            "inspection_decline_reason", "inspection_need_info_note",
            "pre_reminder_need_info_note"}

Disambig == {"status_disambig", "missing_info_disambig", "problem_disambig"}

AwaitingKind == Picker \cup Capture \cup Disambig \cup
    {"none", "status_eta_prompt", "idle_active_inspection", "agent_confirm"}

\* pointer is activeInspection, live until its own window is over; list is
\* what a "which inspection?" prompt offers, pending the move it is asked for.
Row == [awaiting : AwaitingKind, about : Visit \cup {NoVisit},
        list : SUBSET Visit, pending : Move \cup {"none"},
        pointer : Visit \cup {NoVisit}, live : BOOLEAN]

Asking(a, v) ==
    [awaiting |-> a, about |-> v, list |-> {}, pending |-> "none",
     pointer |-> NoVisit, live |-> FALSE]
NoRow == Asking("none", NoVisit)
Choosing(a, vs, t) == [Asking(a, NoVisit) EXCEPT !.list = vs, !.pending = t]
Pointing(a, v, l)  == [Asking(a, v) EXCEPT !.pointer = v, !.live = l]

\* A message: a tap of a button that carries the id of its visit, or a typed
\* text.  A "verb" is a text with one of the verbs of a status (visit: the one
\* it names besides, quoted: the one whose message it replies to).
VisitTap == {"card_confirm", "card_decline", "card_need_info",
             "pre_depart", "pre_need_info", "pre_problem"}
PlainKind == {"equip_all", "equip_missing", "menu_item", "number", "cancel",
              "correction", "menu", "minutes", "note"}
Word(k, v, t, q) == [kind |-> k, visit |-> v, move |-> t, quoted |-> q]
NoText == Word("none", NoVisit, "none", NoVisit)

Message ==
    {Word(k, NoVisit, "none", NoVisit) : k \in PlainKind}
    \cup {Word(k, v, "none", NoVisit) : k \in VisitTap \cup {"name"}, v \in Visit}
    \cup {Word("verb", v, t, NoVisit) : v \in Visit \cup {NoVisit}, t \in Move}
    \cup {Word("verb", NoVisit, t, q) : t \in Move, q \in Visit}

\* then: where the handler goes on when the row is written.
Plan == [op : Move \cup Report \cup Silent \cup {"none"},
         visit : Visit \cup {NoVisit}, keep : BOOLEAN, next : Row,
         then : {"idle", "route", "menu", "intent", "agent"}]
Stay == [op |-> "none", visit |-> NoVisit, keep |-> TRUE, next |-> NoRow,
         then |-> "idle"]
To(r) == [Stay EXCEPT !.keep = FALSE, !.next = r]
Write(o, v, r) == [To(r) EXCEPT !.op = o, !.visit = v]
Then(p, next) == [p EXCEPT !.then = next]

Init ==
    /\ status = [v \in Visit |-> "ASSIGNED"]
    /\ mine = First
    /\ row = NoRow
    /\ pc = [h \in Handler |-> "idle"]
    /\ text = [h \in Handler |-> NoText]
    /\ plan = [h \in Handler |-> Stay]
    /\ entered = [h \in Handler |-> 0]
    /\ his = First
    /\ moved = {}
    /\ ended = {}
    /\ on = NoVisit
    /\ disturbed = FALSE
    /\ messages = 0
    /\ events = 0

-----------------------------------------------------------------------------
(***************************************************************************)
(* What a handler reads of the visits.                                     *)
(***************************************************************************)

\* Mutant: a lookup that does not ask whose visit it is.
OpenOfAnyone == {v \in Visit : status[v] \in OpenStatus}

Open == {v \in mine : status[v] \in OpenStatus}

Valid(v) == v \in mine /\ status[v] \notin Closed

\* Some of these are too long ago; which ones is left open.
InProgress == {v \in mine : status[v] \in {"EN_ROUTE", "ARRIVED"}}

Pointer == IF row.live THEN row.pointer ELSE NoVisit

-----------------------------------------------------------------------------
(***************************************************************************)
(* Replies: what a handler decides to write.                               *)
(***************************************************************************)

\* Mutant: the follow-up menu keeps the pointer of the finished visit.
KeepsPointer(v, t) ==
    CASE t = "CONFIRM"  -> NoRow
      [] t = "DEPARTED" -> Pointing("status_eta_prompt", v, TRUE)
      [] t = "ARRIVED"  -> Pointing("idle_active_inspection", v, TRUE)
      [] t = "FINISHED" -> Pointing("finished_followup", v, TRUE)

AfterMove(v, t) ==
    CASE t = "CONFIRM"  -> NoRow
      [] t = "DEPARTED" -> Pointing("status_eta_prompt", v, TRUE)
      [] t = "ARRIVED"  -> Pointing("idle_active_inspection", v, TRUE)
      [] t = "FINISHED" -> Asking("finished_followup", v)

performTransition(v, t) == Write(t, v, AfterMove(v, t))

\* "You have several open visits, which one?", or what the only one is for.
Resolved(none, one, disambig, t) ==
    CASE Open = {} -> {none}
      [] Cardinality(Open) = 1 -> {one[v] : v \in Open}
      [] OTHER -> {To(Choosing(disambig, Open, t))}

StartFlow(disambig, choice) ==
    LET ask == [v \in Visit |-> To(Asking(choice, v))]
    IN  Resolved(To(NoRow), ask, disambig, "none")

MenuRoutes ==
    {To(NoRow), To(Asking("missing_equipment_choice", NoVisit)),
     To(Asking("day_summary_choice", NoVisit))}
    \cup StartFlow("status_disambig", "status_choice")
    \cup StartFlow("problem_disambig", "problem_type_choice")
    \cup StartFlow("missing_info_disambig", "missing_info_choice")

\* The numbers of each menu; every other number shows it again.
StatusChoice(v) == {performTransition(v, t) : t \in Move \ {"CONFIRM"}}

ProblemTypeChoice(v) ==
    {Write("problem", v, NoRow), To(Asking("problem_type_note", v))}

MissingInfoChoice(v) ==
    {Write("missing", v, NoRow), To(Asking("missing_info_note", v))}

MissingEquipmentChoice ==
    {To(NoRow), To(Asking("equipment_missing_note", NoVisit))}

FinishedFollowUp(v) ==
    {To(NoRow), To(Asking("finished_notes", v)),
     To(Asking("problem_type_choice", v)), To(Asking("missing_info_note", v))}

DaySummaryChoice ==
    {To(NoRow), To(Asking("callback_customer_note", NoVisit))}
    \cup StartFlow("missing_info_disambig", "missing_info_choice")
    \cup StartFlow("problem_disambig", "problem_type_choice")

PickerRoutes(a, v) ==
    CASE a = "menu" -> MenuRoutes
      [] a = "status_choice" -> StatusChoice(v)
      [] a = "problem_type_choice" -> ProblemTypeChoice(v)
      [] a = "missing_info_choice" -> MissingInfoChoice(v)
      [] a = "missing_equipment_choice" -> MissingEquipmentChoice
      [] a = "finished_followup" -> FinishedFollowUp(v)
      [] a = "day_summary_choice" -> DaySummaryChoice

Chosen(a, t, v) ==
    CASE a = "missing_info_disambig" -> To(Asking("missing_info_note", v))
      [] a = "problem_disambig" -> To(Asking("problem_type_choice", v))
      [] t \in Move -> performTransition(v, t)
      [] OTHER -> To(Asking("status_choice", v))

-----------------------------------------------------------------------------
(***************************************************************************)
(* Serving a message.                                                      *)
(***************************************************************************)

handlers == <<pc, text, plan, entered>>
visits   == <<status, mine>>

\* h has made up its mind: it is to write the visit, or at once the row.  It
\* keeps the message if it is to look at it again, and an escape that clears
\* the row forgets what the message replied to.
Decide(h, p) ==
    /\ plan' = [plan EXCEPT ![h] = p]
    /\ pc' = [pc EXCEPT ![h] = IF p.op = "none" THEN "settle" ELSE "write"]
    /\ text' = [text EXCEPT ![h] =
          CASE p.then \notin {"route", "intent"} -> NoText
            [] p.then = "route" /\ p.next = NoRow -> [@ EXCEPT !.quoted = NoVisit]
            [] OTHER -> @]
    /\ UNCHANGED <<visits, row, entered, past, disturbed, bounds>>

\* Cards, menus and messages to reply to stay on the phone.
Sendable(m) ==
    /\ m.visit \in his \cup {NoVisit}
    /\ m.quoted \in his \cup {NoVisit}

Send(h, m) ==
    /\ pc[h] = "idle"
    /\ messages < MaxMessages
    /\ Sendable(m)
    /\ messages' = messages + 1
    /\ pc' = [pc EXCEPT ![h] = "route"]
    /\ text' = [text EXCEPT ![h] = m]
    /\ disturbed' = (disturbed \/ \E g \in Handler : pc[g] # "idle")
    /\ UNCHANGED <<visits, row, plan, entered, past, events>>

Routing(h) == pc[h] = "route"

\* The button of a digest clears the row just as equip_all does.
EquipmentTap(h) ==
    /\ Routing(h)
    /\ \/ /\ text[h].kind = "equip_all"
          /\ Decide(h, To(NoRow))
       \/ /\ text[h].kind = "equip_missing"
          /\ Decide(h, To(Asking("missing_equipment_choice", NoVisit)))

CardTap(h) ==
    LET v == text[h].visit
    IN  /\ Routing(h)
        /\ \/ /\ text[h].kind = "card_confirm"
              /\ Decide(h, Write("CONFIRM", v, NoRow))
           \/ /\ text[h].kind = "card_decline"
              /\ Decide(h, To(Asking("inspection_decline_reason", v)))
           \/ /\ text[h].kind = "card_need_info"
              /\ Decide(h, To(Asking("inspection_need_info_note", v)))

PreReminderTap(h) ==
    LET v == text[h].visit
    IN  /\ Routing(h)
        /\ \/ /\ text[h].kind = "pre_depart"
              /\ Decide(h, IF status[v] \in {"EN_ROUTE", "ARRIVED", "FINISHED_FIELD"}
                           THEN To(NoRow) ELSE performTransition(v, "DEPARTED"))
           \/ /\ text[h].kind = "pre_need_info"
              /\ Decide(h, To(Asking("pre_reminder_need_info_note", v)))
           \/ /\ text[h].kind = "pre_problem"
              /\ Decide(h, To(Asking("problem_type_choice", v)))

\* A row of the menu: the menu is open again before the choice is served.
MenuTap(h) ==
    /\ Routing(h)
    /\ text[h].kind = "menu_item"
    /\ Decide(h, Then(To(Asking("menu", NoVisit)), "menu"))

MenuRoute(h) ==
    /\ pc[h] = "menu"
    /\ \E p \in MenuRoutes : Decide(h, p)

\* A verb moves the visit it replies to, or else the one he is on, if that
\* visit is still his and not closed.
FastVisit(m) == IF m.quoted # NoVisit THEN m.quoted ELSE Pointer

IsFast(m) == m.kind = "verb" /\ FastVisit(m) # NoVisit /\ Valid(FastVisit(m))

FastPath(h) ==
    /\ Routing(h)
    /\ IsFast(text[h])
    /\ Decide(h, performTransition(FastVisit(text[h]), text[h].move))

\* Everything else is about the row.
Conversing(h, kinds) ==
    /\ Routing(h)
    /\ row.awaiting \in kinds
    /\ text[h].kind \notin VisitTap \cup {"equip_all", "equip_missing", "menu_item"}
    /\ ~IsFast(text[h])

Fresh == {"none", "idle_active_inspection"}

FreshMenu(h) ==
    /\ Conversing(h, Fresh)
    /\ \/ /\ text[h].kind = "menu"
          /\ Decide(h, To(Asking("menu", NoVisit)))
       \/ /\ text[h].kind = "number"
          /\ Decide(h, Then(To(Asking("menu", NoVisit)), "menu"))

\* The agent loop: any number of tool calls, each on a visit it has checked.
StartAgent(h) ==
    /\ Conversing(h, Fresh)
    /\ text[h].kind # "menu"
    /\ Decide(h, Then(Stay, "agent"))

CallTool(h) ==
    /\ pc[h] = "agent"
    /\ \E v \in Visit, o \in Move \cup {"problem", "missing"} :
          /\ Valid(v)
          /\ Decide(h, [Stay EXCEPT !.op = o, !.visit = v, !.then = "agent"])

EndAgent(h) ==
    /\ pc[h] = "agent"
    /\ \E p \in {Stay, To(Asking("agent_confirm", NoVisit))} : Decide(h, p)

AgentConfirm(h) ==
    /\ Conversing(h, {"agent_confirm"})
    /\ \/ /\ text[h].kind \in {"cancel", "note"}        \* no, yes
          /\ Decide(h, To(NoRow))
       \/ /\ text[h].kind # "cancel"
          /\ Decide(h, Stay)

Correction(h) ==
    /\ Conversing(h, AwaitingKind \ (Fresh \cup {"agent_confirm"}))
    /\ text[h].kind = "correction"
    /\ Decide(h, To(NoRow))

Replying(h, kinds) == Conversing(h, kinds) /\ text[h].kind # "correction"

\* A text in a numbered menu leaves it and is served from the start.
PickerEscape(h) ==
    /\ Replying(h, Picker)
    /\ text[h].kind \notin {"number", "cancel"}
    /\ Decide(h, Then(To(NoRow), "route"))

PickerReply(h) ==
    /\ Replying(h, Picker)
    /\ text[h].kind \in {"number", "cancel"}
    /\ \/ /\ text[h].kind = "number"
          /\ \E p \in PickerRoutes(row.awaiting, row.about) : Decide(h, p)
       \/ Decide(h, Stay)

CaptureMenu(h) ==
    /\ Replying(h, Capture)
    /\ text[h].kind = "menu"
    /\ Decide(h, Then(To(NoRow), "route"))

\* The language model takes the note for a new request.
Pivot(h) ==
    /\ Replying(h, Capture)
    /\ \/ /\ text[h].kind = "verb"
          /\ Decide(h, Then(To(NoRow), "intent"))
       \/ /\ text[h].kind = "note"
          /\ row.awaiting # "problem_type_note"
          /\ Decide(h, Then(To(NoRow), "intent"))
       \/ /\ text[h].kind = "note"              \* a list, or nothing allowed
          /\ Decide(h, To(NoRow))

\* Any other text is the note, and written to the visit the prompt was about.
Captured(h, kinds, o) ==
    /\ Replying(h, kinds)
    /\ text[h].kind # "menu"
    /\ Decide(h, Write(o, row.about, NoRow))

MissingInfoNote(h) == Captured(h, {"missing_info_note"}, "missing")

ProblemTypeNote(h) == Captured(h, {"problem_type_note"}, "problem")

FinishedNotes(h) == Captured(h, {"finished_notes"}, "notes")

DeclineReason(h) == Captured(h, {"inspection_decline_reason"}, "decline")

NeedInfoNote(h) ==
    Captured(h, {"inspection_need_info_note", "pre_reminder_need_info_note"}, "more_info")

\* An alert to the office, and no visit is written.
OfficeNote(h) ==
    Captured(h, {"callback_customer_note", "equipment_missing_note"}, "none")

DisambigReply(h) ==
    /\ Replying(h, Disambig)
    /\ \/ /\ text[h].kind = "cancel"
          /\ Decide(h, To(NoRow))
       \/ /\ text[h].kind = "number"
          /\ \E v \in row.list : Decide(h, Chosen(row.awaiting, row.pending, v))
       \/ /\ text[h].kind = "name"
          /\ text[h].visit \in Open
          /\ Decide(h, Chosen(row.awaiting, row.pending, text[h].visit))
       \/ /\ text[h].kind # "cancel"
          /\ Decide(h, Stay)

\* The travel time is optional: another status or text is served as usual.
EtaVerb(h) ==
    /\ Replying(h, {"status_eta_prompt"})
    /\ text[h].kind = "verb"
    /\ Decide(h, performTransition(row.about, text[h].move))

EtaTime(h) ==
    /\ Replying(h, {"status_eta_prompt"})
    /\ text[h].kind \in {"number", "minutes"}
    /\ Decide(h, Write("eta", row.about,
                       Pointing("idle_active_inspection", row.about, row.live)))

\* Mutant: back to the start without leaving the prompt.
EtaTrap(h) ==
    /\ Replying(h, {"status_eta_prompt"})
    /\ text[h].kind \notin {"verb", "number", "minutes"}
    /\ Decide(h, Then(To(row), "route"))

EtaOther(h) ==
    /\ Replying(h, {"status_eta_prompt"})
    /\ text[h].kind \notin {"verb", "number", "minutes"}
    /\ Decide(h, Then(To(Pointing("idle_active_inspection", row.about, row.live)),
                      "route"))

\* What the language model has made of a pivot: a problem, or a move of the
\* visit it names, or of the one he is on, or of the only open one.
ProblemDirect(h) ==
    LET tell == [v \in Visit |-> [Stay EXCEPT !.op = "problem", !.visit = v]]
    IN  /\ pc[h] = "intent"
        /\ text[h].kind \in {"verb", "note"}
        /\ \E p \in Resolved(Stay, tell, "problem_disambig", "none") : Decide(h, p)

AdvanceNamed(h) ==
    LET m == text[h]
    IN  /\ pc[h] = "intent"
        /\ m.kind = "verb"
        /\ m.visit # NoVisit
        /\ \/ /\ m.visit \in Open
              /\ Decide(h, performTransition(m.visit, m.move))
           \/ /\ Cardinality(Open) > 1
              /\ Decide(h, To(Choosing("status_disambig", Open, m.move)))
           \/ Decide(h, Stay)

Following(h) ==
    /\ pc[h] = "intent"
    /\ text[h].kind = "verb"
    /\ text[h].visit = NoVisit

AdvanceCurrent(h) ==
    LET t == text[h].move
    IN  /\ Following(h)
        /\ t \in {"ARRIVED", "FINISHED"}
        /\ IF Pointer # NoVisit /\ Valid(Pointer)
           THEN Decide(h, performTransition(Pointer, t))
           ELSE \E s \in SUBSET InProgress \ {{}} :
                   IF Cardinality(s) = 1
                   THEN \E v \in s : Decide(h, performTransition(v, t))
                   ELSE Decide(h, To(Choosing("status_disambig", s, t)))

AdvanceOpen(h) ==
    LET t == text[h].move
        advance == [v \in Visit |-> performTransition(v, t)]
    IN  /\ Following(h)
        /\ t \in {"ARRIVED", "FINISHED"} => Pointer = NoVisit \/ ~Valid(Pointer)
        /\ \E p \in Resolved(Stay, advance, "status_disambig", t) : Decide(h, p)

\* Mutant: the name of the move goes into the column.
WrittenAsNamed(o, v) == IF o \in Silent THEN status[v] ELSE o

\* Every statement is an unconditional UPDATE of the row of the visit.
Written(o, v) ==
    CASE o = "CONFIRM"   -> "CONFIRMED"
      [] o = "DEPARTED"  -> "EN_ROUTE"
      [] o = "ARRIVED"   -> "ARRIVED"
      [] o = "FINISHED"  -> "FINISHED_FIELD"
      [] o = "missing"   -> "WAITING_FOR_INFO"
      [] o = "problem"   -> "HAS_PROBLEM"
      [] o = "more_info" -> "NEEDS_MORE_INFO"
      [] o = "decline"   -> "DECLINED"
      [] o \in Silent    -> status[v]

\* The agent writes the visit and nothing else.
WriteVisit(h) ==
    LET o == plan[h].op
        v == plan[h].visit
        router == plan[h].then # "agent"
    IN  /\ pc[h] = "write"
        /\ status' = [status EXCEPT ![v] = Written(o, v)]
        /\ moved' = IF router /\ o \in {"DEPARTED", "ARRIVED"} THEN moved \cup {v} ELSE moved
        /\ ended' = IF router /\ o = "FINISHED" THEN ended \cup {v} ELSE ended
        /\ on' = CASE router /\ o \in {"DEPARTED", "ARRIVED"} -> v
                   [] router /\ o = "FINISHED" /\ v = on -> NoVisit
                   [] OTHER -> on
        /\ plan' = [plan EXCEPT ![h].op = "none", ![h].visit = NoVisit]
        /\ pc' = [pc EXCEPT ![h] = "settle"]
        /\ UNCHANGED <<mine, row, text, entered, his, disturbed, bounds>>

\* setContext or clearContext, and on.
Settle(h) ==
    LET p == plan[h]
    IN  /\ pc[h] = "settle"
        /\ row' = IF p.keep THEN row ELSE p.next
        /\ pc' = [pc EXCEPT ![h] = p.then]
        /\ plan' = [plan EXCEPT ![h] = Stay]
        /\ entered' = [entered EXCEPT ![h] =
              CASE p.then = "route" -> @ + 1 [] p.then = "idle" -> 0 [] OTHER -> @]
        /\ UNCHANGED <<visits, text, past, disturbed, bounds>>

Happens == events < MaxEvents /\ events' = events + 1

\* A query is refused and the handler throws.
Break(h) ==
    /\ pc[h] # "idle"
    /\ Happens
    /\ disturbed' = TRUE
    /\ pc' = [pc EXCEPT ![h] = "idle"]
    /\ text' = [text EXCEPT ![h] = NoText]
    /\ plan' = [plan EXCEPT ![h] = Stay]
    /\ entered' = [entered EXCEPT ![h] = 0]
    /\ UNCHANGED <<visits, row, past, messages>>

-----------------------------------------------------------------------------
(***************************************************************************)
(* The office and time.                                                    *)
(***************************************************************************)

Reassign(v) ==
    /\ Happens
    /\ mine' = IF v \in mine THEN mine \ {v} ELSE mine \cup {v}
    /\ his' = his \cup mine'
    /\ UNCHANGED <<status, row, handlers, moved, ended, on, disturbed, messages>>

Cancel(v) ==
    /\ Happens
    /\ status' = [status EXCEPT ![v] = "CANCELED"]
    /\ UNCHANGED <<mine, row, handlers, past, disturbed, messages>>

\* A row lives as long as its pointer at least.
Expire ==
    /\ row # NoRow
    /\ Happens
    /\ row' = IF row.live THEN [row EXCEPT !.live = FALSE] ELSE NoRow
    /\ UNCHANGED <<visits, handlers, past, disturbed, messages>>

-----------------------------------------------------------------------------
Handle(h) ==
    \/ EquipmentTap(h) \/ CardTap(h) \/ PreReminderTap(h)
    \/ MenuTap(h) \/ MenuRoute(h) \/ FastPath(h) \/ FreshMenu(h)
    \/ StartAgent(h) \/ CallTool(h) \/ EndAgent(h) \/ AgentConfirm(h)
    \/ Correction(h) \/ PickerEscape(h) \/ PickerReply(h)
    \/ CaptureMenu(h) \/ Pivot(h) \/ MissingInfoNote(h) \/ ProblemTypeNote(h)
    \/ FinishedNotes(h) \/ DeclineReason(h) \/ NeedInfoNote(h) \/ OfficeNote(h)
    \/ DisambigReply(h)
    \/ EtaVerb(h) \/ EtaTime(h) \/ EtaOther(h)
    \/ ProblemDirect(h) \/ AdvanceNamed(h) \/ AdvanceCurrent(h) \/ AdvanceOpen(h)
    \/ WriteVisit(h) \/ Settle(h)

Next ==
    \/ \E h \in Handler :
          \/ \E m \in Message : Send(h, m)
          \/ Handle(h)
          \/ Break(h)
    \/ \E v \in Visit : Reassign(v) \/ Cancel(v)
    \/ Expire

Spec == Init /\ [][Next]_vars

-----------------------------------------------------------------------------
(***************************************************************************)
(* Properties.                                                             *)
(***************************************************************************)

\* Types; above all, the column "fieldStatus" only holds values its CHECK
\* constraint (migration 009) admits.
TypeOK ==
    /\ status \in [Visit -> FieldStatus]
    /\ mine \subseteq his
    /\ his \subseteq Visit
    /\ row \in Row
    /\ pc \in [Handler -> {"idle", "route", "menu", "intent", "agent", "write", "settle"}]
    /\ text \in [Handler -> Message \cup {NoText}]
    /\ plan \in [Handler -> Plan]
    /\ entered \in [Handler -> Nat]
    /\ moved \subseteq his
    /\ ended \subseteq his
    /\ on \in moved \cup {NoVisit}
    /\ disturbed \in BOOLEAN

\* As long as messages are served one after the other, the pointer names no
\* other visit than the one he departed for or arrived at last and has not
\* finished through the router: no menu, note, card, escape or expiry brings
\* an earlier one back.
CurrentPointer ==
    disturbed \/ (\E h \in Handler : pc[h] # "idle") \/ row.pointer \in {NoVisit, on}

\* No answer writes the status of a visit that never was the worker's: menus,
\* names and the model's choices only reach visits looked up as his, and cards
\* and quotes only those sent to him.
OnlyHisVisits ==
    [][\A v \in Visit :
          status'[v] # status[v] => v \in his \/ status'[v] = "CANCELED"]_vars

\* A message that is served from the start again (a text in a numbered menu,
\* in a travel time prompt, "menu" in a note prompt) is so once: what the row
\* was left as does not send it round another time.
EntersOnce == disturbed \/ \A h \in Handler : entered[h] <= 1
=============================================================================
