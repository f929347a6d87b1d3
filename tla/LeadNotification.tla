---------------------------- MODULE LeadNotification ----------------------------
(***************************************************************************)
(* Alerts about incoming leads.  A worker to whom a lead is assigned gets  *)
(* one alert, from the webhook the database fires on the assignment or     *)
(* from the poller that runs every 15 minutes; a lead nobody takes is      *)
(* escalated by the poller.  The table "WhatsappLeadNotification" is the   *)
(* ledger that keeps webhook, poller and their retries apart: claim a row  *)
(* as PENDING, send, mark it SENT, or release it when the send failed.     *)
(*                                                                         *)
(* Webhook handlers and the poller take one step per query or send; the    *)
(* poller is a single process (advisory lock), the handlers are many.      *)
(***************************************************************************)
EXTENDS Naturals, Sequences, FiniteSets

CONSTANTS
    Lead,           \* ids of incoming leads
    User,           \* users leads are assigned to
    NoPhone,        \* those of them without a phone number
    None,           \* no user
    Hook,           \* slots for concurrently served webhook requests
    PromptSenders,  \* TRUE: a claim is marked or released within 5 minutes
    MaxCrashes,     \* bound: crashes of the process
    MaxFaults,      \* bound: queries refused and sends failed
    MaxDrops        \* bound: sends the transport drops in silence

ASSUME LeadNotificationAssumption ==
    /\ NoPhone \subseteq User
    /\ None \notin User
    /\ "poller" \notin Hook
    /\ PromptSenders \in BOOLEAN
    /\ MaxCrashes \in Nat
    /\ {MaxFaults, MaxDrops} \subseteq Nat

VARIABLES
    active,      \* leads whose status is ACTIVE; the others are NEW
    owner,       \* owner[l]: the ownerId of lead l
    fired,       \* leads for which an assignment webhook has been fired
    ledger,      \* ledger[l]: status of the row of (l, ASSIGNED_TO_WORKER)
    stale,       \* rows whose notifiedAt is more than 5 minutes ago
    pc,          \* pc[w]: where process w is
    job,         \* job[w]: the lead w is working on
    target,      \* target[w]: the user w is going to alert
    batch,       \* rows the poller has still to go through
    alerts,      \* alerts[l]: the users alerted about l, in order
    dropped,     \* leads about which the transport dropped an alert in silence
    escalated,   \* leads that have a row (l, ESCALATED_1H)
    escalations, \* escalations[l]: how often l was escalated
    crashes, faults

lead    == <<active, owner, fired>>
process == <<pc, job, target, batch>>
history == <<alerts, dropped, escalations>>
vars    == <<active, owner, fired, ledger, stale, pc, job, target, batch,
             alerts, dropped, escalated, escalations, crashes, faults>>

Process == Hook \cup {"poller"}
Holding == {"fetch", "send", "mark", "release"}
Pc      == {"idle", "alerting", "escalating", "recording"} \cup Holding
Row     == [lead : Lead, to : User \cup {None}]
NoJob   == [lead |-> "none", to |-> None]

Init ==
    /\ active = {}
    /\ owner = [l \in Lead |-> None]
    /\ fired = {}
    /\ ledger = [l \in Lead |-> "none"]
    /\ stale = {}
    /\ pc = [w \in Process |-> "idle"]
    /\ job = [w \in Process |-> "none"]
    /\ target = [w \in Process |-> None]
    /\ batch = {}
    /\ alerts = [l \in Lead |-> <<>>]
    /\ dropped = {}
    /\ escalated = {}
    /\ escalations = [l \in Lead |-> 0]
    /\ crashes = 0
    /\ faults = 0

-----------------------------------------------------------------------------
(* The lead: assignLead, and the CRM, which writes the same table.         *)

\* The webhook fires on every update; isAssignmentTransition lets those pass
\* that make the lead ACTIVE or give an ACTIVE lead its owner.
Update(l, isActive, u) ==
    /\ active' = IF isActive THEN active \cup {l} ELSE active
    /\ owner' = [owner EXCEPT ![l] = u]
    /\ fired' = IF isActive THEN fired \cup {l} ELSE fired
    /\ UNCHANGED <<ledger, stale, process, history, escalated, crashes, faults>>

\* assignLead, and the claim of the CRM: both columns in one UPDATE, which is
\* guarded by status = 'NEW'.
AssignLead(l, u) == l \notin active /\ Update(l, TRUE, u)

\* Channels that write the columns apart: the owner of a NEW lead as a draft,
\* the status alone, the owner of an ACTIVE lead that has none.
DraftOwner(l, u) == l \notin active /\ owner[l] = None /\ Update(l, FALSE, u)
Activate(l)      == l \notin active /\ Update(l, TRUE, owner[l])
SetOwner(l, u)   == l \in active /\ owner[l] = None /\ Update(l, TRUE, u)

\* Mutant: a LEFT JOIN on the owner, without the filter.
AssignedByStatus(l) == l \in active

Assigned(l) == l \in active /\ owner[l] # None

-----------------------------------------------------------------------------
(* processAssignmentAlertForLead                                           *)

Goto(w, p) ==
    /\ pc' = [pc EXCEPT ![w] = p]
    /\ UNCHANGED <<job, target>>

\* The lead is dealt with: the poller goes on with its rows, a handler ends.
Leave(w) ==
    /\ pc' = [pc EXCEPT ![w] = IF w = "poller" THEN "alerting" ELSE "idle"]
    /\ job' = [job EXCEPT ![w] = "none"]
    /\ target' = [target EXCEPT ![w] = None]

\* Mutants: a row that exists is never reclaimed, and SENT rows are claimed
\* like others.
ClaimableNever(l)   == ledger[l] = "none"
ClaimableSent(l)    == ledger[l] \in {"none", "SENT"} \/ l \in stale

Claimable(l) == ledger[l] = "none" \/ (ledger[l] = "PENDING" /\ l \in stale)

\* tryClaimLeadNotification is one INSERT ... ON CONFLICT DO UPDATE.
TryClaim(w, l, to) ==
    \/ /\ Claimable(l)
       /\ ledger' = [ledger EXCEPT ![l] = "PENDING"]
       /\ stale' = stale \ {l}
       /\ pc' = [pc EXCEPT ![w] = IF to = None THEN "fetch" ELSE "send"]
       /\ job' = [job EXCEPT ![w] = l]
       /\ target' = [target EXCEPT ![w] = to]
    \/ /\ ~Claimable(l)
       /\ Leave(w)
       /\ UNCHANGED <<ledger, stale>>

\* A webhook request, which may be the first, a repeated or a late one.
HookClaim(h) ==
    /\ pc[h] = "idle"
    /\ \E l \in fired : TryClaim(h, l, None)
    /\ UNCHANGED <<lead, batch, history, escalated, crashes, faults>>

PollerClaim ==
    /\ pc["poller"] = "alerting"
    /\ \E r \in batch :
        /\ TryClaim("poller", r.lead, r.to)
        /\ batch' = batch \ {r}
    /\ UNCHANGED <<lead, history, escalated, crashes, faults>>

\* The claim throws: the row is left to the next tick.
PollerClaimFails ==
    /\ pc["poller"] = "alerting"
    /\ faults < MaxFaults
    /\ faults' = faults + 1
    /\ \E r \in batch : batch' = batch \ {r}
    /\ UNCHANGED <<lead, ledger, stale, pc, job, target, history, escalated,
                   crashes>>

\* findAssignedLeadById: not eligible yet means release and forget.
Fetch(w) ==
    /\ pc[w] = "fetch"
    /\ IF Assigned(job[w])
       THEN /\ target' = [target EXCEPT ![w] = owner[job[w]]]
            /\ pc' = [pc EXCEPT ![w] = "send"]
            /\ UNCHANGED job
       ELSE Goto(w, "release")
    /\ UNCHANGED <<lead, ledger, stale, batch, history, escalated, crashes,
                   faults>>

\* Without a phone there is nothing to send, and nothing to retry.  A send the
\* transport refuses by itself, its preflight or the kill switch, resolves
\* like one that went out.
Send(w) ==
    /\ pc[w] = "send"
    /\ \/ /\ target[w] \in NoPhone
          /\ UNCHANGED <<alerts, dropped>>
       \/ /\ target[w] \notin NoPhone
          /\ alerts' = [alerts EXCEPT ![job[w]] = Append(@, target[w])]
          /\ UNCHANGED dropped
       \/ /\ target[w] \notin NoPhone
          /\ Cardinality(dropped) < MaxDrops
          /\ dropped' = dropped \cup {job[w]}
          /\ UNCHANGED alerts
    /\ Goto(w, "mark")
    /\ UNCHANGED <<lead, ledger, stale, batch, escalations, escalated, crashes,
                   faults>>

\* markLeadNotificationSent flips a PENDING row, whoever claimed it.
MarkSent(w) ==
    /\ pc[w] = "mark"
    /\ IF ledger[job[w]] = "PENDING"
       THEN /\ ledger' = [ledger EXCEPT ![job[w]] = "SENT"]
            /\ stale' = stale \ {job[w]}
       ELSE UNCHANGED <<ledger, stale>>
    /\ Leave(w)
    /\ UNCHANGED <<lead, batch, history, escalated, crashes, faults>>

\* releaseLeadNotificationClaim deletes a PENDING row, whoever claimed it.
Release(w) ==
    /\ pc[w] = "release"
    /\ IF ledger[job[w]] = "PENDING"
       THEN /\ ledger' = [ledger EXCEPT ![job[w]] = "none"]
            /\ stale' = stale \ {job[w]}
       ELSE UNCHANGED <<ledger, stale>>
    /\ Leave(w)
    /\ UNCHANGED <<lead, batch, history, escalated, crashes, faults>>

\* Mutant: the row is marked SENT although the send failed.
FaultMarks(w) ==
    /\ faults < MaxFaults
    /\ faults' = faults + 1
    /\ \/ pc[w] \in {"fetch", "send"} /\ Goto(w, "mark")
       \/ pc[w] \in {"mark", "release"} /\ Leave(w)
    /\ UNCHANGED <<lead, ledger, stale, batch, history, escalated, crashes>>

\* The read or the send throws: release.  The last query throws: log, leave.
Fault(w) ==
    /\ faults < MaxFaults
    /\ faults' = faults + 1
    /\ \/ pc[w] = "fetch" /\ Goto(w, "release")
       \/ pc[w] = "send" /\ target[w] \notin NoPhone /\ Goto(w, "release")
       \/ pc[w] \in {"mark", "release"} /\ Leave(w)
    /\ UNCHANGED <<lead, ledger, stale, batch, history, escalated, crashes>>

-----------------------------------------------------------------------------
(* runLeadAssignmentNotifier                                               *)

\* findNewlyAssignedLeads, and the data loaded with it.
NewlyAssigned ==
    {[lead |-> l, to |-> owner[l]] : l \in {k \in Lead : Assigned(k) /\ Claimable(k)}}

Poll ==
    /\ pc["poller"] = "idle"
    /\ batch' = NewlyAssigned
    /\ Goto("poller", "alerting")
    /\ UNCHANGED <<lead, ledger, stale, history, escalated, crashes, faults>>

\* findEscalationCandidates; how many are more than an hour old is left open.
EscalationCandidates ==
    {[lead |-> l, to |-> None] : l \in Lead \ (active \cup escalated)}

PollEscalations ==
    /\ pc["poller"] = "alerting"
    /\ batch = {}
    /\ \E rs \in SUBSET EscalationCandidates : batch' = rs
    /\ Goto("poller", "escalating")
    /\ UNCHANGED <<lead, ledger, stale, history, escalated, crashes, faults>>

\* Sent to every leads viewer; it counts when a send to one of them resolves.
Escalate ==
    /\ pc["poller"] = "escalating"
    /\ \E r \in batch, delivered \in BOOLEAN :
        /\ batch' = batch \ {r}
        /\ IF r.lead \notin escalated /\ delivered
           THEN /\ escalations' = [escalations EXCEPT ![r.lead] = @ + 1]
                /\ job' = [job EXCEPT !["poller"] = r.lead]
                /\ pc' = [pc EXCEPT !["poller"] = "recording"]
           ELSE UNCHANGED <<escalations, job, pc>>
    /\ UNCHANGED <<lead, ledger, stale, target, alerts, dropped, escalated, crashes,
                   faults>>

\* claimLeadNotification: recorded after the send.  It may throw, too.
RecordEscalation ==
    /\ pc["poller"] = "recording"
    /\ \/ /\ escalated' = escalated \cup {job["poller"]}
          /\ UNCHANGED faults
       \/ /\ faults < MaxFaults
          /\ faults' = faults + 1
          /\ UNCHANGED escalated
    /\ job' = [job EXCEPT !["poller"] = "none"]
    /\ pc' = [pc EXCEPT !["poller"] = "escalating"]
    /\ UNCHANGED <<lead, ledger, stale, target, batch, history, crashes>>

EndPoll ==
    /\ pc["poller"] = "escalating"
    /\ batch = {}
    /\ Goto("poller", "idle")
    /\ UNCHANGED <<lead, ledger, stale, batch, history, escalated, crashes,
                   faults>>

-----------------------------------------------------------------------------
(* Time and crashes.                                                       *)

Holds(w, l) == pc[w] \in Holding /\ job[w] = l

GetStale(l) ==
    /\ ledger[l] = "PENDING"
    /\ l \notin stale
    /\ PromptSenders => \A w \in Process : ~Holds(w, l)
    /\ stale' = stale \cup {l}
    /\ UNCHANGED <<lead, ledger, process, history, escalated, crashes, faults>>

Crash ==
    /\ crashes < MaxCrashes
    /\ crashes' = crashes + 1
    /\ pc' = [w \in Process |-> "idle"]
    /\ job' = [w \in Process |-> "none"]
    /\ target' = [w \in Process |-> None]
    /\ batch' = {}
    /\ UNCHANGED <<lead, ledger, stale, history, escalated, faults>>

-----------------------------------------------------------------------------
LeadStep(l) ==
    \/ \E u \in User : AssignLead(l, u) \/ DraftOwner(l, u) \/ SetOwner(l, u)
    \/ Activate(l)

Step(w) == Fetch(w) \/ Send(w) \/ MarkSent(w) \/ Release(w)

PollerStep ==
    Poll \/ PollerClaim \/ PollEscalations \/ Escalate \/ RecordEscalation
        \/ EndPoll

Next ==
    \/ \E l \in Lead : LeadStep(l) \/ GetStale(l)
    \/ \E h \in Hook : HookClaim(h)
    \/ \E w \in Process : Step(w) \/ Fault(w)
    \/ PollerStep \/ PollerClaimFails
    \/ Crash

Spec == Init /\ [][Next]_vars

\* The poller is scheduled again and again, what was begun goes on and time
\* passes.  No webhook need ever arrive.
FairSpec ==
    /\ Spec
    /\ \A w \in Process : WF_vars(Step(w))
    /\ WF_vars(PollerStep)
    /\ \A l \in Lead : WF_vars(GetStale(l))

-----------------------------------------------------------------------------
(* Properties                                                              *)

\* Every variable has the type its declaration says; a row is stale only
\* while it is PENDING.
TypeOK ==
    /\ active \subseteq Lead
    /\ owner \in [Lead -> User \cup {None}]
    /\ fired \subseteq Lead
    /\ ledger \in [Lead -> {"none", "PENDING", "SENT"}]
    /\ stale \subseteq {l \in Lead : ledger[l] = "PENDING"}
    /\ pc \in [Process -> Pc]
    /\ job \in [Process -> Lead \cup {"none"}]
    /\ target \in [Process -> User \cup {None}]
    /\ batch \subseteq Row
    /\ alerts \in [Lead -> Seq(User)]
    /\ dropped \subseteq Lead
    /\ escalated \subseteq Lead
    /\ escalations \in [Lead -> Nat]
    /\ crashes \in Nat
    /\ faults \in Nat

\* A worker is alerted about a lead twice, or the lead escalated twice, only
\* on account of a crash or of a query that failed between the send and the
\* mark: webhook handlers, the poller, stale rows and releases never send the
\* same thing side by side.
AlertsPaidFor ==
    \A l \in Lead :
        /\ Len(alerts[l]) <= 1 + crashes + faults
        /\ escalations[l] <= 1 + crashes + faults

\* A lead is struck off as SENT only after the user it has finally been
\* assigned to was alerted, whichever read of ownerId the alert is based on,
\* or turned out to have no phone, or the transport dropped the alert without
\* saying so; no failed send and no crash leaves it so.
SentWasSent ==
    \A l \in Lead : ledger[l] = "SENT" =>
        \/ \E i \in 1 .. Len(alerts[l]) : alerts[l][i] = owner[l]
        \/ owner[l] \in NoPhone
        \/ l \in dropped

\* Every assigned lead is dealt with in the end, even if its webhooks are
\* lost, come too early or lose the race, and if a claim is left behind by a
\* crash.
AssignedIsSettled ==
    \A l \in Lead : Assigned(l) ~> ledger[l] = "SENT"
=============================================================================
