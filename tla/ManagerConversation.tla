------------------------ MODULE ManagerConversation ------------------------
(***************************************************************************)
(* The conversation of a manager with the bot: menus and lists, and the    *)
(* flows that give a lead to a worker, schedule, correct and reassign a    *)
(* visit, delete a calendar event and enable tracking.  The language       *)
(* model's reading of a text is a free choice among what the code lets it  *)
(* lead to; the agent loop is in WorkerConversation.                       *)
(*                                                                         *)
(* As there, each message has a handler of its own that reads the row (and *)
(* decides), calls the services, and at last replaces or deletes the row   *)
(* and sends the next prompt.  The phone shows the last prompt that came   *)
(* through: it is what the manager answers.                                *)
(***************************************************************************)
EXTENDS Naturals, FiniteSets

CONSTANTS
    Lead, Visit, Event,     \* what the manager deals with
    Value,                  \* what it is given: workers, types, times, texts
    Handler,                \* slots for concurrently served messages
    MaxMessages,            \* bound: messages of the manager
    MaxEvents               \* bound: messages sent while one is being served,
                            \* expiries, prompts that are not delivered,
                            \* refusals of the database, handlers that break
                            \* off, leads colleagues assign, together

ASSUME ManagerConversationAssumption ==
    /\ "none" \notin Lead \cup Visit \cup Event \cup Value
    /\ IsFiniteSet(Handler)
    /\ MaxMessages \in Nat
    /\ MaxEvents \in Nat

VARIABLES
    owner,      \* owner[l]: "IncomingLead"."ownerId"; "none" while NEW
    row,        \* his row in "WhatsappConversationContext"
    choice,     \* the prompt his "PendingChoice" maps numbers to commands of
    screen,     \* the last prompt delivered, and its number
    pc, text, plan,
    carried,    \* the prompts that were answered by a change
    acting,     \* handlers that have carried out a change of their message
    repeated,   \* messages that changed something at a prompt answered so before
    overlaps,   \* bound of repetitions: messages sent while another was served
    broken,     \* the events that leave row, screen and changes at odds
    messages, events

ghosts == <<carried, acting, repeated>>
faults == <<overlaps, broken, messages, events>>
vars == <<owner, row, choice, screen, pc, text, plan, ghosts, faults>>

None == "none"
Item == Lead \cup Visit \cup Event

VisitOp == {"schedule", "site", "type", "reassign", "reschedule", "status"}
Op == VisitOp \cup {"assign", "delete", "track"}

\* A change, or a request for one that need not name everything.
Change == [op : Op, item : Item \cup {None}, value : Value \cup {None}]
Ask(o, i, v) == [op |-> o, item |-> i, value |-> v]

\* The prompts.  Confirmations and pickers are told apart by the op they are
\* about: a confirm of assign is "assign_lead_confirm", and so on.
Picker == {"menu", "sub", "visits", "leads", "workers",     \* manager menus
           "pick", "worker", "vague", "followup", "problem"}
Capture == {"query", "hint", "note"}
Prompt == Picker \cup Capture \cup
    {"none", "idle", "eta", "action", "confirm", "multi", "pivot", "intent", "field",
     "disambig", "search", "time", "duration", "fields", "types",
     "digest", "digest_time"}

\* changes: the actions a confirmation of several is about, or the request
\* that waits; back: the prompt an unfinished pivot left.
Row == [at : Prompt, op : Op \cup {None}, item : Item \cup {None},
        value : Value \cup {None}, list : SUBSET Item,
        changes : SUBSET Change, back : Prompt]
At(a) == [at |-> a, op |-> None, item |-> None, value |-> None,
          list |-> {}, changes |-> {}, back |-> "none"]
NoRow == At("none")
About(a, o, i, v) == [At(a) EXCEPT !.op = o, !.item = i, !.value = v]
Listing(a, o, s)  == [At(a) EXCEPT !.op = o, !.list = s]
Waiting(a, c)     == [At(a) EXCEPT !.changes = c]

\* A word, a number, a command that the number stood for, or a sentence.
PlainKind == {"yes", "no", "number", "cancel", "back", "correction", "menu"}
Says(k, r, t) == [kind |-> k, request |-> r, tapped |-> t]
Nothing == Ask(None, None, None)
Sentence ==
    {Ask(None, None, v) : v \in Value}
    \cup [op : {"assign"}, item : Lead \cup {None}, value : Value \cup {None}]
    \cup [op : {"reassign"}, item : Visit \cup {None}, value : Value \cup {None}]
    \cup [op : {"schedule", "site", "type"}, item : Visit \cup {None}, value : {None}]
    \cup [op : {"delete"}, item : Event \cup {None}, value : {None}]
    \cup [op : {"track"}, item : {None}, value : Value \cup {None}]
NoTap == [at |-> "none", op |-> None]
Message == {Says(k, Nothing, NoTap) : k \in PlainKind}
    \cup {Says("sentence", r, NoTap) : r \in Sentence}

\* caught: a change that fails does not end the handler.  One that does ends
\* it there: what it has changed is changed, and the row is as it was.
Plan == [changes : SUBSET Change, caught : BOOLEAN, keep : BOOLEAN,
         next : Row, again : BOOLEAN]
Stay == [changes |-> {}, caught |-> TRUE, keep |-> TRUE, next |-> NoRow,
         again |-> FALSE]
To(r) == [Stay EXCEPT !.keep = FALSE, !.next = r]
Clear == To(NoRow)
Do(c) == [Clear EXCEPT !.changes = c]
Each(s) == [Do(s) EXCEPT !.caught = FALSE]
Uncaught(c) == Each({c})
Then(p, r) == [p EXCEPT !.next = r]
Again(p) == [p EXCEPT !.again = TRUE]

NoText == [said |-> Says("menu", Nothing, NoTap),
           seen |-> [row |-> NoRow, number |-> 0]]

\* He has looked at the menu, a list or a visit before, or at nothing.
Begun == {NoRow, At("menu"), Listing("visits", None, Visit)}
         \cup {About("action", None, v, None) : v \in Visit}

Init ==
    /\ owner = [l \in Lead |-> None]
    /\ row \in Begun
    /\ choice = [at |-> IF row.at \in {"menu", "action"} THEN row.at ELSE "none",
                 op |-> None]
    /\ screen = [row |-> row, number |-> 0]
    /\ pc = [h \in Handler |-> "idle"]
    /\ text = [h \in Handler |-> NoText]
    /\ plan = [h \in Handler |-> Stay]
    /\ carried = {}
    /\ acting = {}
    /\ repeated = 0
    /\ overlaps = 0
    /\ broken = 0
    /\ messages = 0
    /\ events = 0

-----------------------------------------------------------------------------
(***************************************************************************)
(* The flows: what each asks first, and what its answers lead to.          *)
(***************************************************************************)

Unassigned == {l \in Lead : owner[l] = None}

\* With a lead and a worker named the confirmation is the first prompt.
startAssignLead(i, v) ==
    CASE i \in Unassigned /\ v # None -> {To(About("confirm", "assign", i, v))}
      [] Unassigned = {} -> {Clear}
      [] OTHER -> {To(Listing("pick", "assign", Unassigned))}

\* A worker pinned by an earlier text is not asked for again.
LeadChosen(l, pinned) ==
    IF pinned # None THEN To(About("confirm", "assign", l, pinned))
    ELSE To(About("worker", "assign", l, None))

scheduleProcessChosen(v) ==
    {To(About("time", "schedule", v, None)), Clear}
    \cup {To(About("duration", "schedule", v, t)) : t \in Value}

startSchedule(i) ==
    {To(Listing("pick", "schedule", IF i = None THEN Visit ELSE {i})),
     To(At("search")), Clear}

\* The hint of a visit may fit none of them, one or several.
startCorrection(o, i) ==
    IF i = None THEN {To(About("hint", o, None, None))}
    ELSE {Stay,
          IF o = "site" THEN To(About("fields", o, i, None))
                        ELSE To(About("types", o, i, None)),
          IF o = "site" THEN To(About("vague", o, None, None))
                        ELSE To(About("hint", o, None, None))}

showWorkerList(i, v) ==
    To(IF v # None THEN About("confirm", "reassign", i, v)
                   ELSE About("worker", "reassign", i, None))

startReassign(i, v) ==
    IF i = None THEN {To(About("hint", "reassign", None, v))}
    ELSE {Stay, showWorkerList(i, v),
          To([Listing("disambig", "reassign", Visit) EXCEPT
                !.changes = {Ask("reassign", i, v)}])}

startDelete(i) ==
    IF i = None THEN {Stay} ELSE {Stay, To(About("confirm", "delete", i, None))}

startTracking(v) ==
    IF v = None THEN {To(About("hint", "track", None, None))}
    ELSE {Clear, Do({Ask("track", None, v)})}

managerViews ==
    {Stay, Clear, To(At("menu")), To(Listing("visits", None, Visit)),
     To(At("sub")), To(At("digest"))}

executeIntent(r) ==
    CASE r.op = "assign"   -> startAssignLead(r.item, r.value)
      [] r.op = "schedule" -> startSchedule(r.item)
      [] r.op \in {"site", "type"} -> startCorrection(r.op, r.item)
      [] r.op = "reassign" -> startReassign(r.item, r.value)
      [] r.op = "delete"   -> startDelete(r.item)
      [] r.op = "track"    -> startTracking(r.value)
      [] OTHER -> managerViews

\* How sure the model is decides whether it asks first.
routeIntent(r) ==
    executeIntent(r) \cup {Stay, To(At("menu"))}
    \cup IF r.op = None THEN {}
         ELSE {To(Waiting("intent", {r})), To(Waiting("field", {r}))}

MenuRoutes ==
    {Clear, To(At("sub")), To(Listing("visits", None, Visit)),
     To(At("query")), To(At("digest"))}

exceptionsSub == {Clear, To(At("sub")), To(Listing("visits", None, Visit))}

leadsSub == {Clear, To(At("sub")), To(At("leads"))}

workersSub == {Clear, To(At("sub")), To(At("workers"))}

searchSub == {Clear, To(At("query"))}

SubRoutes ==
    exceptionsSub \cup leadsSub \cup workersSub \cup searchSub \cup {To(At("menu"))}

showMgrTaskFieldDetail(v) == To(About("action", None, v, None))

\* The task of the visit on the screen.  After the question to which status
\* the row has, for its id, a name that the model has read, or nothing.
TaskOf(q) == IF q.op = "status" THEN None ELSE q.item

ActionRoutes(v, t) ==
    {To(About("fields", "site", v, None)), To(About("types", "type", v, None)),
     To(About("worker", "reassign", t, None)), To(At("menu"))}

\* A departure asks for the time it takes, an arrival leaves the pointer to the
\* visit, its end asks what else there is.
performTransition(v) ==
    {Then(Uncaught(Ask("status", v, None)), r) :
        r \in {NoRow} \cup {About(a, None, v, None) : a \in {"eta", "idle", "followup"}}}

\* A status, a problem or what is missing is written at once, asked for in a
\* flow of its own, or asked for with nothing but a question.
inlineStatus(v) ==
    performTransition(v)
    \cup {To(About(a, None, v, None)) : a \in {"note", "problem"}}
    \cup {To(About("action", "status", v, None))}

\* One change is put to the picker of its flow or carried out; the fields of a
\* site are written one after the other, and nobody catches an error.
dispatchSingleAction(v, t, x) ==
    {Stay, Clear} \cup ActionRoutes(v, t) \cup
    IF x = None THEN {}
    ELSE {To(About("confirm", "site", v, x)), Do({Ask("reschedule", v, x)})}
         \cup {Each({Ask("site", v, w) : w \in s \cup {x}}) : s \in SUBSET Value}

\* Several, or one that is only inferred, are put to a confirmation.
confirmActions(v, t, x) ==
    {To([About("multi", None, v, None) EXCEPT !.changes = s]) :
        s \in {{Ask("reassign", t, x)}}
             \cup {{Ask("reassign", t, x), Ask(o, v, x)} : o \in {"site", "type", "reschedule"}}}

handleMgrActionFreeText(v, t, x) ==
    inlineStatus(v) \cup dispatchSingleAction(v, t, x)
    \cup IF x = None THEN {} ELSE confirmActions(v, t, x)

\* What is chosen already stays, whatever else the text names.
mergeAssignLead(q, r) ==
    LET l == IF q.item # None THEN q.item ELSE r.item
        w == IF q.value # None THEN q.value ELSE r.value
    IN  IF l # None /\ (q.list # {} => l \in q.list) THEN {LeadChosen(l, w)}
        ELSE {Stay, To([q EXCEPT !.value = w])}

mergeSchedule(q, r) ==
    IF q.at # "pick" THEN {Again(Clear)}
    ELSE IF r.item \in q.list THEN scheduleProcessChosen(r.item) ELSE {Stay}

mergeCorrection(q, r) == startCorrection(q.op, r.item)

\* Mutant: any worker the text names, on the screen or not.
AnyWorkerNamed(q, r) == {Uncaught(Ask("reassign", q.item, r.value))}

\* A worker on the screen gets the visit of the screen, without more ado.
mergeReassign(q, r) ==
    IF r.value # None /\ (q.at = "confirm" => r.value = q.value)
    THEN {Uncaught(Ask("reassign", q.item, r.value))} ELSE {Stay}

\* A text in a picker that asks for what the picker is for.
mergeIntoCurrentFlow(q, r) ==
    CASE q.op = "assign"   -> mergeAssignLead(q, r)
      [] q.op = "schedule" -> mergeSchedule(q, r)
      [] q.op = "reassign" -> mergeReassign(q, r)
      [] q.op \in {"site", "type"} -> mergeCorrection(q, r)

\* Mutant: what the pivot interrupts is not kept.
PivotForgets(q, r) == To(Waiting("pivot", {r}))

promptPivotConfirm(q, r) ==
    To([q EXCEPT !.at = "pivot", !.back = q.at, !.changes = {r}])

Restored(q) == [q EXCEPT !.at = q.back, !.back = "none", !.changes = {}]

\* Several changes have an order, the same each time.
FirstOf(s) == CHOOSE c \in s : TRUE

-----------------------------------------------------------------------------
(***************************************************************************)
(* Serving a message.                                                      *)
(***************************************************************************)

\* The message is kept if it is to be served again, and of what the phone
\* showed the number of the prompt.
Decide(h, p) ==
    /\ plan' = [plan EXCEPT ![h] = p]
    /\ pc' = [pc EXCEPT ![h] = IF p.changes = {} THEN "settle" ELSE "write"]
    /\ text' = [text EXCEPT ![h] = IF p.again THEN @
                  ELSE [NoText EXCEPT !.seen.number = 
                            IF p.changes = {} THEN 0 ELSE text[h].seen.number]]
    /\ UNCHANGED <<owner, row, choice, screen, ghosts, faults>>

\* A number stands for the command of the prompt that is held, if it has one
\* for that number, and the choice is used up.
Resolved(m) ==
    {[said |-> m, left |-> choice]} \cup
    IF m.kind # "number" \/ choice = NoTap THEN {}
    ELSE {[said |-> Says("tap", Nothing, choice), left |-> NoTap]}

Send(h, m) ==
    /\ pc[h] = "idle"
    /\ messages < MaxMessages
    /\ \E s \in Resolved(m) :
          /\ text' = [text EXCEPT ![h] = [said |-> s.said, seen |-> screen]]
          /\ choice' = s.left
    /\ messages' = messages + 1
    /\ pc' = [pc EXCEPT ![h] = "route"]
    /\ \/ /\ \A g \in Handler : pc[g] = "idle"
          /\ UNCHANGED <<overlaps, events>>
       \/ /\ \E g \in Handler : pc[g] # "idle"
          /\ events < MaxEvents
          /\ events' = events + 1
          /\ overlaps' = overlaps + 1
    /\ UNCHANGED <<owner, row, screen, plan, ghosts, broken>>

Said(h) == text[h].said

Conversing(h, prompts, kinds) ==
    /\ pc[h] = "route"
    /\ row.at \in prompts
    /\ Said(h).kind \in kinds

Anything == PlainKind \cup {"sentence", "tap"}
Revised  == Anything \ {"correction"}

\* A menu is opened, and a number or a command of the menu is served at once.
Fresh(m) ==
    CASE m.kind = "menu" -> {To(At("menu"))}
      [] m.kind = "number" -> {To(At("menu"))} \cup MenuRoutes
      [] m.tapped.at = "menu" -> MenuRoutes
      [] OTHER -> routeIntent(m.request)

\* The row of a visit that has been arrived at is none: but for its pointer.
FreshMessage(h) ==
    /\ Conversing(h, {"none", "idle"}, Anything)
    /\ \/ \E p \in Fresh(Said(h)) : Decide(h, p)
       \/ /\ row.at = "idle"
          /\ Said(h).kind = "sentence"
          /\ \E p \in performTransition(row.item) : Decide(h, p)

Correction(h) ==
    /\ Conversing(h, Prompt \ {"none", "idle"}, {"correction"})
    /\ Decide(h, Clear)

\* What is neither a status nor a time is served as if nothing had been asked.
EtaReply(h) ==
    LET idle == About("idle", None, row.item, None)
    IN  /\ Conversing(h, {"eta"}, Revised)
        /\ \/ /\ Said(h).kind = "sentence"
              /\ \E p \in performTransition(row.item) : Decide(h, p)
           \/ /\ Said(h).kind \in {"sentence", "number"}
              /\ Decide(h, Then(Uncaught(Ask("status", row.item, None)), idle))
           \/ \E p \in Fresh(Said(h)) : Decide(h, IF p.keep THEN To(idle) ELSE p)

\* Anything that is not a pivot is the note.
NoteReply(h) ==
    /\ Conversing(h, {"note"}, Revised \ {"menu"})
    /\ Decide(h, Uncaught(Ask("status", row.item, None)))

FollowUpReply(h) ==
    /\ Conversing(h, {"followup", "problem"},
                  {"number", "tap", "cancel", "back", "yes", "no"})
    /\ \/ /\ Said(h).kind = "number" \/ Said(h).tapped.at = row.at
          /\ \/ Decide(h, To(About("note", None, row.item, None)))
             \/ /\ row.at = "followup"
                /\ \E p \in {Clear, To(About("problem", None, row.item, None))} : Decide(h, p)
             \/ /\ row.at = "problem"
                /\ Decide(h, Uncaught(Ask("status", row.item, None)))
       \/ Decide(h, Stay)

PivotReply(h) ==
    /\ Conversing(h, {"pivot"}, Revised)
    /\ \/ /\ Said(h).kind \in {"yes", "number"}
          /\ \E p \in routeIntent(FirstOf(row.changes)) :
                Decide(h, [p EXCEPT !.keep = FALSE])
       \/ /\ Said(h).kind \in {"no", "cancel", "number"}
          /\ Decide(h, To(Restored(row)))
       \/ Decide(h, Stay)

\* The prompts that take a number: words of their own are not taken for a
\* sentence.
Numeric == row.at \in Picker \/ (row.at = "confirm" /\ row.op # "delete")

SmartPickerEscape(h) ==
    LET r == Said(h).request
    IN  /\ Conversing(h, Picker \cup {"confirm"}, {"sentence", "menu"})
        /\ Numeric
        /\ \/ Decide(h, Stay)
           \/ Decide(h, Again(Clear))
           \/ /\ r.op = row.op
              /\ r.op # None
              /\ \E p \in mergeIntoCurrentFlow(row, r) : Decide(h, p)
           \/ /\ r.op \notin {row.op, None}
              /\ Decide(h, promptPivotConfirm(row, r))

CapturePivot(h) ==
    /\ Conversing(h, Capture, {"menu", "sentence"})
    /\ row.op # "track"
    /\ \/ /\ Said(h).kind = "menu"
          /\ Decide(h, Again(Clear))
       \/ /\ Said(h).request.op # None
          /\ \E p \in routeIntent(Said(h).request) : Decide(h, [p EXCEPT !.keep = FALSE])

MenuReply(h) ==
    /\ Conversing(h, {"menu", "sub"}, {"number", "tap", "cancel", "back"})
    /\ \/ /\ Said(h).kind = "number" \/ Said(h).tapped.at = row.at
          /\ \E p \in (IF row.at = "menu" THEN MenuRoutes ELSE SubRoutes) : Decide(h, p)
       \/ /\ Said(h).kind \in {"cancel", "back"}
          /\ \E p \in {Clear, To(At("menu"))} : Decide(h, p)
       \/ Decide(h, Stay)

\* Lists to look at: a visit opens its details, a lead stays in its list, a
\* worker leads back to the menu.
ViewReply(h) ==
    /\ Conversing(h, {"visits", "leads", "workers"},
                  {"number", "tap", "cancel", "back", "yes", "no"})
    /\ \/ /\ Said(h).kind = "number"
          /\ \/ \E v \in row.list : Decide(h, showMgrTaskFieldDetail(v))
             \/ /\ row.at = "workers"
                /\ \E a \in {"menu", "sub"} : Decide(h, To(At(a)))
       \/ /\ Said(h).kind \in {"cancel", "back"}
          /\ \E p \in {To(At("menu")), To(At("sub")), Clear} : Decide(h, p)
       \/ Decide(h, Stay)

SearchQuery(h) ==
    /\ Conversing(h, {"query"}, Revised \ {"menu"})
    /\ \E p \in {Stay, Clear, To(Listing("visits", None, Visit))}
                  \cup {showMgrTaskFieldDetail(v) : v \in Visit} : Decide(h, p)

DetailAction(h) ==
    /\ Conversing(h, {"action"}, Revised)
    /\ \/ /\ Said(h).kind = "number" \/ Said(h).tapped.at = "action"
          /\ \E p \in ActionRoutes(row.item, TaskOf(row)) : Decide(h, p)
       \/ /\ Said(h).kind \in {"back", "menu"}
          /\ Decide(h, To(At("menu")))
       \/ /\ row.op = "status"
          /\ Said(h).kind # "back"
          /\ Decide(h, Clear)
       \/ /\ Said(h).kind = "cancel"
          /\ Decide(h, Clear)
       \/ /\ Said(h).kind = "sentence"
          /\ \E p \in handleMgrActionFreeText(row.item, TaskOf(row), Said(h).request.value) :
                Decide(h, p)
       \/ /\ Said(h).kind \notin {"number", "sentence", "cancel", "back", "menu"}
          /\ Decide(h, Stay)

\* The confirmation of several changes takes anything else for a no.
MultiReply(h) ==
    /\ Conversing(h, {"multi"}, Revised)
    /\ \/ /\ Said(h).kind \in {"yes", "number"} \/ Said(h).tapped.at \in {"multi", "confirm"}
          /\ Decide(h, Do(row.changes))
       \/ /\ Said(h).kind # "yes"
          /\ Decide(h, Clear)

itemPicked(q, i) ==
    IF q.op = "assign" THEN {LeadChosen(i, q.value)} ELSE scheduleProcessChosen(i)

\* A worker for a lead is confirmed, one for a visit is not.
workerPicked(q, w) ==
    IF q.op = "assign" THEN To(About("confirm", "assign", q.item, w))
    ELSE Uncaught(Ask("reassign", q.item, w))

\* The number of a list, or the name of something on it.
PickReply(h) ==
    /\ Conversing(h, {"pick", "worker", "vague", "disambig"},
                  {"number", "tap", "cancel", "back", "yes", "no"})
    /\ \/ /\ Said(h).kind = "number"
          /\ \/ /\ row.at = "pick"
                /\ \E i \in row.list : \E p \in itemPicked(row, i) : Decide(h, p)
             \/ /\ row.at = "worker"
                /\ \E w \in Value : Decide(h, workerPicked(row, w))
             \/ /\ row.at = "disambig"
                /\ \E p \in executeIntent(FirstOf(row.changes)) :
                      Decide(h, [p EXCEPT !.keep = FALSE])
             \/ /\ row.at = "pick"
                /\ row.op = "schedule"
                /\ Decide(h, To(At("search")))
       \/ /\ Said(h).kind = "cancel"
          /\ Decide(h, Clear)
       \/ Decide(h, Stay)

HintReply(h) ==
    /\ Conversing(h, {"hint"}, Revised \ {"menu"})
    /\ \/ /\ Said(h).kind = "cancel"
          /\ Decide(h, Clear)
       \/ /\ Said(h).kind = "sentence"
          /\ \/ /\ row.op = "track"
                /\ \E w \in Value : Decide(h, Do({Ask("track", None, w)}))
             \/ /\ row.op # "track"
                /\ \E v \in Visit :
                      \E p \in executeIntent(Ask(row.op, v, row.value)) : Decide(h, p)
       \/ Decide(h, Stay)

ScheduleSearch(h) ==
    /\ Conversing(h, {"search"}, Revised)
    /\ \E p \in {Stay, Clear, To(Listing("pick", "schedule", Visit))} : Decide(h, p)

\* A time that has passed is refused.
ScheduleTime(h) ==
    /\ Conversing(h, {"time"}, Revised)
    /\ \/ /\ Said(h).kind = "cancel"
          /\ Decide(h, Clear)
       \/ /\ Said(h).request.value # None
          /\ Decide(h, To(About("duration", "schedule", row.item, Said(h).request.value)))
       \/ Decide(h, Stay)

ScheduleDuration(h) ==
    /\ Conversing(h, {"duration"}, Revised)
    /\ \/ /\ Said(h).kind = "cancel"
          /\ Decide(h, Clear)
       \/ Decide(h, To(About("confirm", "schedule", row.item, row.value)))
       \/ Decide(h, Stay)

\* A field that is tapped is asked for, and forgotten: the value is what the
\* next text is taken for.
SiteValueReply(h) ==
    LET v == Said(h).request.value
    IN  /\ Conversing(h, {"fields"}, Revised)
        /\ \/ /\ v # None
              /\ \/ Decide(h, Uncaught(Ask("site", row.item, v)))
                 \/ Decide(h, To(About("confirm", "site", row.item, v)))
           \/ Decide(h, Stay)

TypeReply(h) ==
    /\ Conversing(h, {"types"}, Revised)
    /\ \/ /\ Said(h).kind \in {"number", "sentence"}
          /\ \E t \in Value : Decide(h, To(About("confirm", "type", row.item, t)))
       \/ /\ Said(h).kind = "cancel"
          /\ Decide(h, Clear)
       \/ Decide(h, Stay)

\* What a confirmation takes for a yes and for a no: buttons of any other
\* confirmation too, except in reassign_confirm; and no number, for a type.
IsConfirmTap(h) ==
    /\ Said(h).tapped.at \in {"confirm", "multi"}
    /\ row.op = "reassign" => Said(h).tapped.op = "reassign"

Answers(h, word) ==
    \/ Said(h).kind \in word
    \/ Said(h).kind = "number" /\ row.op # "type"
    \/ IsConfirmTap(h)

\* Mutant: the row of an assignment stays until it expires.
ConfirmedAndKept(q) == [Stay EXCEPT !.changes = {Ask(q.op, q.item, q.value)}]

Confirmed(q) ==
    LET c == Ask(q.op, q.item, q.value)
    IN  IF q.op \in {"assign", "reassign", "site"} THEN Uncaught(c) ELSE Do({c})

ConfirmReply(h) ==
    /\ Conversing(h, {"confirm"}, Revised \ {"sentence", "menu"})
    /\ row.op # "delete"
    /\ \/ Answers(h, {"yes"}) /\ Decide(h, Confirmed(row))
       \/ /\ Answers(h, {"no", "cancel"})
          /\ Decide(h, IF row.op = "site" THEN To(About("fields", "site", row.item, None))
                       ELSE Clear)
       \/ Decide(h, Stay)

\* The word boundary after a Hebrew yes is never one, so it is a no as well.
CalendarDeleteReply(h) ==
    /\ Conversing(h, {"confirm"}, Revised)
    /\ row.op = "delete"
    /\ \/ /\ Said(h).kind = "sentence"          \* an English one
          /\ Decide(h, Confirmed(row))
       \/ Decide(h, Clear)

IntentReply(h) ==
    LET r == FirstOf(row.changes)
    IN  /\ Conversing(h, {"intent", "field"}, Revised)
        /\ \/ /\ Said(h).kind = "yes" \/ row.at = "field"
              /\ \E v \in IF Said(h).kind = "yes" THEN {r.value} ELSE {Said(h).request.value} :
                 \E p \in executeIntent([r EXCEPT !.value = IF @ = None THEN v ELSE @]) :
                    Decide(h, [p EXCEPT !.keep = FALSE])
           \/ /\ Said(h).kind \in {"no", "cancel"}
              /\ Decide(h, Clear)
           \/ /\ Said(h).kind \notin {"yes", "no", "cancel"}
              /\ Decide(h, Again(Clear))

DigestReply(h) ==
    /\ Conversing(h, {"digest", "digest_time"}, Revised)
    /\ \E p \in {Stay, Clear, To(At("menu")), To(At("digest")), To(At("digest_time"))} :
          Decide(h, p)

-----------------------------------------------------------------------------
(***************************************************************************)
(* The end of a handler.                                                   *)
(***************************************************************************)

\* Mutant: a lead goes to whoever is confirmed last.
AnyLead(c) == c.op = "assign"

\* UPDATE "IncomingLead" ... WHERE "status" = 'NEW'.
Assignable(c) == c.op = "assign" /\ c.item \in Unassigned

\* A task that is not there is not reassigned.
Accepted(c) ==
    /\ c.op = "assign" => Assignable(c)
    /\ c.op = "reassign" => c.item # None

Continues(h, p) ==
    /\ plan' = [plan EXCEPT ![h] = p]
    /\ pc' = [pc EXCEPT ![h] = IF p.changes = {} THEN "settle" ELSE "write"]
    /\ UNCHANGED text

Ends(h) ==
    /\ plan' = [plan EXCEPT ![h] = Stay]
    /\ pc' = [pc EXCEPT ![h] = "idle"]
    /\ text' = [text EXCEPT ![h] = NoText]
    /\ acting' = acting \ {h}
    /\ UNCHANGED <<carried, repeated>>

WriteOne(h) ==
    /\ pc[h] = "write"
    /\ LET c == FirstOf(plan[h].changes) IN
          /\ Accepted(c)
          /\ owner' = [l \in Lead |-> IF c.op = "assign" /\ l = c.item
                                      THEN c.value ELSE owner[l]]
          /\ carried' = carried \cup {text[h].seen.number}
          /\ acting' = acting \cup {h}
          /\ repeated' = IF h \notin acting /\ text[h].seen.number \in carried
                         THEN repeated + 1 ELSE repeated
          /\ Continues(h, [plan[h] EXCEPT !.changes = @ \ {c}])
    /\ UNCHANGED <<row, choice, screen, faults>>

\* A lead that is no longer NEW, or a database that refuses: where nobody
\* catches the error the row stays as it is, after the changes that went
\* before.
Refuse(h) ==
    /\ pc[h] = "write"
    /\ LET c == FirstOf(plan[h].changes) IN
          /\ \/ ~Accepted(c) /\ events' = events
             \/ events < MaxEvents /\ events' = events + 1
          /\ \/ /\ ~plan[h].caught
                /\ Ends(h)
                /\ broken' = IF h \in acting THEN broken + 1 ELSE broken
             \/ /\ plan[h].caught
                /\ Continues(h, [plan[h] EXCEPT !.changes = @ \ {c}])
                /\ UNCHANGED <<ghosts, broken>>
    /\ UNCHANGED <<owner, row, choice, screen, overlaps, messages>>

\* The prompts that save the commands their numbers stand for, before they
\* are sent.
Mapped(q) ==
    \/ q.at \in {"menu", "sub", "fields", "multi", "followup", "problem"}
    \/ q.at = "action" /\ q.op # "status"
    \/ q.at = "confirm" /\ q.op # "delete"

\* Some of these are sent as a plain text too, which saves nothing.
AlsoPlain(q) == q.at = "sub" \/ q.op = "assign"

Held(q) ==
    CASE ~Mapped(q) -> {choice}
      [] AlsoPlain(q) -> {choice, [at |-> q.at, op |-> q.op]}
      [] OTHER -> {[at |-> q.at, op |-> q.op]}

Settle(h) ==
    LET p == plan[h]
        q == IF p.keep THEN row ELSE p.next
    IN  /\ pc[h] = "settle"
        /\ row' = q
        /\ choice' \in IF p.keep THEN {choice} ELSE Held(q)
        /\ screen' = IF p.keep THEN screen
                     ELSE [row |-> q, number |-> screen.number + 1]
        /\ IF p.again
           THEN /\ pc' = [pc EXCEPT ![h] = "route"]
                /\ plan' = [plan EXCEPT ![h] = Stay]
                /\ UNCHANGED <<text, ghosts>>
           ELSE Ends(h)
        /\ UNCHANGED <<owner, faults>>

Happens ==
    /\ events < MaxEvents
    /\ events' = events + 1
    /\ UNCHANGED <<overlaps, messages>>

\* The row is set and the prompt does not come through.
LosePrompt(h) ==
    /\ pc[h] = "settle"
    /\ ~plan[h].keep
    /\ Happens
    /\ row' = plan[h].next
    /\ Ends(h)
    /\ broken' = broken + 1
    /\ UNCHANGED <<owner, choice, screen>>

\* Between two changes, or after the last and before the row.
Break(h) ==
    /\ pc[h] \in {"write", "settle"}
    /\ Happens
    /\ Ends(h)
    /\ broken' = broken + 1
    /\ UNCHANGED <<owner, row, choice, screen>>

Expire ==
    /\ Happens
    /\ row # NoRow
    /\ row' = NoRow
    /\ UNCHANGED <<owner, choice, screen, pc, text, plan, ghosts, broken>>

ColleagueAssigns(l) ==
    /\ Happens
    /\ l \in Unassigned
    /\ \E w \in Value : owner' = [owner EXCEPT ![l] = w]
    /\ UNCHANGED <<row, choice, screen, pc, text, plan, ghosts, broken>>

Serve(h) ==
    \/ FreshMessage(h) \/ Correction(h) \/ PivotReply(h)
    \/ EtaReply(h) \/ NoteReply(h) \/ FollowUpReply(h)
    \/ SmartPickerEscape(h) \/ CapturePivot(h)
    \/ MenuReply(h) \/ ViewReply(h) \/ SearchQuery(h) \/ DetailAction(h)
    \/ MultiReply(h) \/ PickReply(h) \/ HintReply(h)
    \/ ScheduleSearch(h) \/ ScheduleTime(h) \/ ScheduleDuration(h)
    \/ SiteValueReply(h) \/ TypeReply(h) \/ ConfirmReply(h)
    \/ CalendarDeleteReply(h) \/ IntentReply(h) \/ DigestReply(h)

Next ==
    \/ \E h \in Handler :
          \/ \E m \in Message : Send(h, m)
          \/ Serve(h)
          \/ WriteOne(h) \/ Refuse(h) \/ Settle(h) \/ LosePrompt(h) \/ Break(h)
    \/ Expire
    \/ \E l \in Lead : ColleagueAssigns(l)

Spec == Init /\ [][Next]_vars

-----------------------------------------------------------------------------
(***************************************************************************)
(* Properties.                                                             *)
(***************************************************************************)

Screen == [row : Row, number : Nat]

\* A row has what its prompt is about, and a handler is at one of its steps.
TypeOK ==
    /\ owner \in [Lead -> Value \cup {None}]
    /\ row \in Row
    /\ row.at = "confirm" => row.op # None /\ row.item # None
    /\ row.at = "pivot" => row.back \in Picker \cup {"confirm"}
    /\ row.at \in {"pivot", "intent", "field", "multi", "disambig"} => row.changes # {}
    /\ choice \in [at : Prompt, op : Op \cup {None}]
    /\ pc \in [Handler -> {"idle", "route", "write", "settle"}]
    /\ \A h \in Handler : plan[h].next \in Row
    /\ messages \in 0..MaxMessages
    /\ events \in 0..MaxEvents

\* What the answer to a prompt may carry out.
Offer(q) ==
    CASE q.at = "confirm" -> {Ask(q.op, q.item, q.value)}
      [] q.at = "multi"   -> q.changes
      [] q.at = "worker"  -> {Ask(q.op, q.item, w) : w \in Value}
      [] q.at = "fields"  -> {Ask("site", q.item, w) : w \in Value}
      [] q.at = "action"  -> {Ask(o, q.item, w) : o \in VisitOp, w \in Value \cup {None}}
      [] q.at \in {"intent", "field", "pivot", "disambig"} ->
            {Ask(c.op, c.item, w) : c \in q.changes, w \in Value}
      [] q.at \in {"eta", "idle", "note", "problem"} -> {Ask("status", q.item, None)}
      [] q.at = "hint"    -> {Ask("track", None, w) : w \in Value}
      [] OTHER -> {}

\* The manager gets what he was shown: while his messages come one by one and
\* his prompts come through, a change that an answer carries out is one the
\* prompt on his screen was about when he answered it, or one he has spelled
\* out -- through pickers, pivots that are taken back, corrections, rows that
\* expire and numbers that stand for the commands of an earlier prompt.
WrittenAsOffered ==
    [][\A h \in Handler :
          pc[h] = "route" /\ pc'[h] = "write" /\ overlaps = 0 /\ broken = 0 =>
              plan'[h].changes \subseteq Offer(text[h].seen.row) \cup {Said(h).request}]_vars

\* No prompt is answered by a change twice, whatever the changes, but for a
\* message sent while another is being served, a prompt that got lost, and a
\* handler that broke off: by itself, or since the database refused a later
\* one of several fields of a site (router.ts:7833) -- the answer is then given
\* again, and the fields before it are written again.
RepetitionsPaidFor == repeated <= overlaps + broken

\* A lead has one owner for good: two confirmations at a time, or that of a
\* colleague, do not take it from the first.
LeadAssignedOnce ==
    [][\A l \in Lead : owner[l] # None => owner'[l] = owner[l]]_vars

\* router.ts:3834, '"yes" -> delete': a Hebrew yes to the question whether to
\* delete a calendar event does not leave the event in the calendar.
YesDeletes ==
    [][\A h \in Handler :
          /\ pc[h] = "route" /\ pc'[h] # "route"
          /\ Said(h).kind = "yes"
          /\ row = text[h].seen.row
          /\ row.at = "confirm" /\ row.op = "delete"
          => plan'[h].changes = {Ask("delete", row.item, row.value)}]_vars
=============================================================================
