------------------------- MODULE LeadNotificationProofs -------------------------
(***************************************************************************)
(* For any number of leads, users, webhooks, crashes and failures: the     *)
(* types, that a lead struck off as SENT was told of, and that a second    *)
(* alert takes a crash or a failure.                                       *)
(***************************************************************************)
EXTENDS LeadNotification, SequenceTheorems, TLAPS

USE LeadNotificationAssumption

-----------------------------------------------------------------------------
(* The inductive invariant.                                                *)

\* What SentWasSent asks of one lead.
Told(l) ==
    \/ \E i \in 1 .. Len(alerts[l]) : alerts[l][i] = owner[l]
    \/ owner[l] \in NoPhone
    \/ l \in dropped

Working == Holding \cup {"recording"}

\* A process that is about to send, or to mark, does so for the owner, who is
\* the owner for good: no channel changes the owner of an ACTIVE lead.
Knows(w) ==
    /\ pc[w] \in Working => job[w] \in Lead
    /\ pc[w] \in {"send", "mark"} => Assigned(job[w]) /\ target[w] = owner[job[w]]
    /\ pc[w] = "mark" => Told(job[w])
    /\ pc[w] = "recording" => w = "poller"

Aimed == \A w \in Process : Knows(w)

\* The rows the poller alerts about were read when their lead had its owner.
BatchAimed ==
    pc["poller"] \in Holding \cup {"alerting"} =>
        \A r \in batch : Assigned(r.lead) /\ r.to = owner[r.lead]

SentTold == \A l \in Lead : ledger[l] = "SENT" => Assigned(l) /\ Told(l)

Inv == TypeOK /\ Aimed /\ BatchAimed /\ SentTold

LEMMA InvImplies == Inv => SentWasSent
BY DEF Inv, SentTold, Told, SentWasSent

-----------------------------------------------------------------------------
(* Owners and alerts only ever settle.                                     *)

\* Who owns an assigned lead, and what was said to him, stays so.
Settled ==
    /\ \A l \in Lead : Assigned(l) => Assigned(l)' /\ owner'[l] = owner[l]
    /\ \A l \in Lead : Assigned(l) /\ Told(l) => Told(l)'

LEMMA LeadSettled ==
    ASSUME Inv, NEW l \in Lead, NEW u \in User,
           AssignLead(l, u) \/ DraftOwner(l, u) \/ SetOwner(l, u)
    PROVE  /\ Settled
           /\ UNCHANGED <<ledger, stale, process, history, escalated, crashes, faults>>
           /\ active' \subseteq Lead /\ fired' \subseteq Lead
           /\ owner' \in [Lead -> User \cup {None}]
<1>1. /\ UNCHANGED <<ledger, stale, process, history, escalated, crashes, faults>>
      /\ active' \subseteq active \cup {l} /\ active \subseteq active'
      /\ fired' \subseteq fired \cup {l}
      /\ \E v \in User \cup {None} : owner' = [owner EXCEPT ![l] = v]
      /\ ~Assigned(l) \/ owner' = owner
      BY DEF AssignLead, DraftOwner, SetOwner, Update, Inv, TypeOK, Assigned
<1>2. owner' \in [Lead -> User \cup {None}]
      BY <1>1 DEF Inv, TypeOK
<1>3. \A k \in Lead : Assigned(k) => Assigned(k)' /\ owner'[k] = owner[k]
      BY <1>1 DEF Inv, TypeOK, Assigned
<1>4. UNCHANGED <<alerts, dropped>>
      BY <1>1 DEF history
<1>5. \A k \in Lead : Assigned(k) /\ Told(k) => Told(k)'
      BY <1>3, <1>4 DEF Told
<1> QED BY <1>1, <1>2, <1>3, <1>5 DEF Settled, Inv, TypeOK

\* All other steps leave the leads alone; sends add to the alerts.
LEMMA OthersSettled ==
    ASSUME UNCHANGED lead, UNCHANGED <<alerts, dropped>>
    PROVE  Settled /\ \A l : (Assigned(l)' <=> Assigned(l)) /\ (Told(l)' <=> Told(l))
BY DEF lead, Settled, Assigned, Told

-----------------------------------------------------------------------------
(* The steps.                                                              *)

LEMMA LeadStepKeeps ==
    ASSUME Inv, NEW l \in Lead, LeadStep(l)
    PROVE  Inv'
<1>1. /\ Settled
      /\ UNCHANGED <<ledger, stale, process, history, escalated, crashes, faults>>
      /\ active' \subseteq Lead /\ fired' \subseteq Lead
      /\ owner' \in [Lead -> User \cup {None}]
  <2>1. CASE Activate(l)
    <3>1. owner' = owner /\ ~Assigned(l)
        BY <2>1 DEF Activate, Update, Inv, TypeOK, Assigned
    <3> QED BY <2>1, <3>1 DEF Activate, Update, Inv, TypeOK, Assigned, Settled, Told, history
  <2>2. CASE ~Activate(l)
      BY <2>2, LeadSettled DEF LeadStep
  <2> QED BY <2>1, <2>2
<1>2. TypeOK'
      BY <1>1 DEF Inv, TypeOK, process, history
<1>3. Aimed'
      BY <1>1 DEF Inv, Aimed, Knows, Settled, process, Working, Holding
<1>4. BatchAimed'
      BY <1>1 DEF Inv, BatchAimed, Settled, process, TypeOK, Row
<1>5. SentTold'
      BY <1>1 DEF Inv, SentTold, Settled
<1> QED BY <1>2, <1>3, <1>4, <1>5 DEF Inv

\* A process goes on: what remains to be shown is what it knows by now.
LEMMA Turn ==
    ASSUME Inv, NEW w \in Process, Settled,
           NEW p \in Pc, NEW j \in Lead \cup {"none"}, NEW t \in User \cup {None},
           pc' = [pc EXCEPT ![w] = p],
           job' = [job EXCEPT ![w] = j],
           target' = [target EXCEPT ![w] = t],
           p \in Working => j \in Lead,
           p \in {"send", "mark"} => Assigned(j) /\ t = owner[j],
           p = "mark" => Told(j)',
           p = "recording" => w = "poller"
    PROVE  /\ pc' \in [Process -> Pc]
           /\ job' \in [Process -> Lead \cup {"none"}]
           /\ target' \in [Process -> User \cup {None}]
           /\ Aimed'
<1>1. /\ pc' \in [Process -> Pc]
      /\ job' \in [Process -> Lead \cup {"none"}]
      /\ target' \in [Process -> User \cup {None}]
      BY DEF Inv, TypeOK
<1>2. ASSUME NEW v \in Process
      PROVE  Knows(v)'
  <2>1. CASE v = w
    <3>1. pc'[v] = p /\ job'[v] = j /\ target'[v] = t
        BY <2>1 DEF Inv, TypeOK
    <3>2. p \in {"send", "mark"} => Assigned(j)' /\ t = owner'[j]
        BY DEF Settled, Working, Holding
    <3>3. p = "mark" => Told(job[v])'
        BY <3>1 DEF Told
    <3> QED BY <2>1, <3>1, <3>2, <3>3 DEF Knows, Assigned
  <2>2. CASE v # w
    <3>1. pc'[v] = pc[v] /\ job'[v] = job[v] /\ target'[v] = target[v]
        BY <2>2 DEF Inv, TypeOK
    <3>2. Knows(v)
        BY DEF Inv, Aimed
    <3>3. pc[v] \in {"send", "mark"} => job[v] \in Lead
        BY <3>2 DEF Knows, Working, Holding
    <3>4. pc[v] \in {"send", "mark"} =>
             Assigned(job[v])' /\ target[v] = owner'[job[v]]
        BY <3>1, <3>2, <3>3 DEF Settled, Knows, Assigned
    <3>5. pc[v] = "mark" => Told(job[v])'
        BY <3>1, <3>2, <3>3 DEF Settled, Knows, Told
    <3> QED BY <3>1, <3>2, <3>4, <3>5 DEF Knows
  <2> QED BY <2>1, <2>2
<1> QED BY <1>1, <1>2 DEF Aimed

\* Who leaves a lead knows nothing more.
LEMMA Leaving ==
    ASSUME Inv, NEW w \in Process, Settled, Leave(w)
    PROVE  /\ pc' \in [Process -> Pc]
           /\ job' \in [Process -> Lead \cup {"none"}]
           /\ target' \in [Process -> User \cup {None}]
           /\ Aimed'
<1> DEFINE p == IF w = "poller" THEN "alerting" ELSE "idle"
<1>1. p \in Pc /\ p \notin Working
      BY DEF Pc, Working, Holding
<1>2. p \notin {"send", "mark", "recording"}
      OBVIOUS
<1>3. pc' = [pc EXCEPT ![w] = p] /\ job' = [job EXCEPT ![w] = "none"]
      /\ target' = [target EXCEPT ![w] = None]
      BY DEF Leave
<1> HIDE DEF p
<1> QED BY <1>1, <1>2, <1>3, Turn

\* Who moves on to a step that needs no more than a lead.
LEMMA Moving ==
    ASSUME Inv, NEW w \in Process, Settled, NEW p, Goto(w, p),
           \/ p \in {"idle", "alerting", "escalating"}
           \/ p = "release" /\ pc[w] \in Working
    PROVE  /\ pc' \in [Process -> Pc]
           /\ job' \in [Process -> Lead \cup {"none"}]
           /\ target' \in [Process -> User \cup {None}]
           /\ Aimed'
<1>1. p \in Pc /\ p \notin {"send", "mark", "recording"}
      /\ (p \in Working => job[w] \in Lead)
      BY DEF Pc, Working, Holding, Inv, Aimed, Knows
<1>2. pc' = [pc EXCEPT ![w] = p] /\ job' = job /\ target' = target
      BY DEF Goto
<1>3. /\ job = [job EXCEPT ![w] = job[w]] /\ job[w] \in Lead \cup {"none"}
      /\ target = [target EXCEPT ![w] = target[w]] /\ target[w] \in User \cup {None}
      BY DEF Inv, TypeOK
<1> QED BY <1>1, <1>2, <1>3, Turn

Alerting == Holding \cup {"alerting"}

\* The rows of a batch stay right while the poller goes through it.
LEMMA BatchKept ==
    ASSUME Inv, Settled, batch' \subseteq batch,
           pc'["poller"] \in Alerting => pc["poller"] \in Alerting
    PROVE  BatchAimed'
<1>1. ASSUME NEW r \in batch, pc["poller"] \in Alerting
      PROVE  Assigned(r.lead)' /\ r.to = owner'[r.lead]
  <2>1. r.lead \in Lead /\ Assigned(r.lead) /\ r.to = owner[r.lead]
      BY <1>1 DEF Inv, TypeOK, BatchAimed, Row, Alerting
  <2> QED BY <2>1 DEF Settled
<1> QED BY <1>1 DEF BatchAimed, Alerting, Assigned

\* A lead becomes SENT only when its owner was told.
LEMMA SentKept ==
    ASSUME Inv, Settled,
           \A l \in Lead : ledger'[l] = "SENT" =>
               ledger[l] = "SENT" \/ (Assigned(l) /\ Told(l)')
    PROVE  SentTold'
<1>1. ASSUME NEW l \in Lead, ledger'[l] = "SENT"
      PROVE  Assigned(l)' /\ Told(l)'
      BY <1>1 DEF Inv, SentTold, Settled
<1> QED BY <1>1 DEF SentTold

\* tryClaimLeadNotification.
LEMMA Claiming ==
    ASSUME Inv, NEW w \in Process, NEW l \in Lead, NEW to \in User \cup {None},
           TryClaim(w, l, to), UNCHANGED <<lead, alerts, dropped>>,
           to # None => Assigned(l) /\ to = owner[l]
    PROVE  /\ pc' \in [Process -> Pc]
           /\ job' \in [Process -> Lead \cup {"none"}]
           /\ target' \in [Process -> User \cup {None}]
           /\ Aimed' /\ SentTold' /\ Settled
           /\ ledger' \in [Lead -> {"none", "PENDING", "SENT"}]
           /\ stale' \subseteq {k \in Lead : ledger'[k] = "PENDING"}
           /\ \A v \in Process \ {w} : pc'[v] = pc[v]
<1>0. Settled
      BY OthersSettled
<1>1. CASE Claimable(l)
  <2>1. /\ ledger' = [ledger EXCEPT ![l] = "PENDING"]
        /\ stale' = stale \ {l}
        /\ pc' = [pc EXCEPT ![w] = IF to = None THEN "fetch" ELSE "send"]
        /\ job' = [job EXCEPT ![w] = l]
        /\ target' = [target EXCEPT ![w] = to]
      BY <1>1 DEF TryClaim
  <2> DEFINE p == IF to = None THEN "fetch" ELSE "send"
  <2>2. p \in Pc /\ p \notin {"mark", "recording"} /\ (p = "send" => to # None)
      BY DEF Pc, Holding
  <2>3. pc' = [pc EXCEPT ![w] = p]
      BY <2>1
  <2>4. /\ pc' \in [Process -> Pc]
        /\ job' \in [Process -> Lead \cup {"none"}]
        /\ target' \in [Process -> User \cup {None}]
        /\ Aimed'
    <3> HIDE DEF p
    <3> QED BY <1>0, <2>1, <2>2, <2>3, Turn
  <2>5. SentTold'
      BY <1>0, <2>1, SentKept DEF Inv, TypeOK
  <2> QED BY <1>0, <2>1, <2>4, <2>5 DEF Inv, TypeOK
<1>2. CASE ~Claimable(l)
  <2>1. Leave(w) /\ UNCHANGED <<ledger, stale>>
      BY <1>2 DEF TryClaim
  <2>2. SentTold'
      BY <1>0, <2>1, SentKept
  <2>3. \A v \in Process \ {w} : pc'[v] = pc[v]
      BY <2>1 DEF Leave, Inv, TypeOK
  <2> QED BY <1>0, <2>1, <2>2, <2>3, Leaving DEF Inv, TypeOK
<1> QED BY <1>1, <1>2

LEMMA HookClaimKeeps ==
    ASSUME Inv, NEW h \in Hook, HookClaim(h)
    PROVE  Inv'
<1>1. /\ UNCHANGED <<lead, batch, history, escalated, crashes, faults>>
      /\ UNCHANGED <<alerts, dropped>>
      BY DEF HookClaim, history
<1>2. PICK l \in Lead : TryClaim(h, l, None)
      BY DEF HookClaim, Inv, TypeOK
<1>3. h \in Process /\ h # "poller" /\ "poller" \in Process
      BY LeadNotificationAssumption DEF Process
<1>4. /\ pc' \in [Process -> Pc]
      /\ job' \in [Process -> Lead \cup {"none"}]
      /\ target' \in [Process -> User \cup {None}]
      /\ Aimed' /\ SentTold' /\ Settled
      /\ ledger' \in [Lead -> {"none", "PENDING", "SENT"}]
      /\ stale' \subseteq {k \in Lead : ledger'[k] = "PENDING"}
      /\ pc'["poller"] = pc["poller"]
      BY <1>1, <1>2, <1>3, Claiming
<1>5. BatchAimed'
      BY <1>1, <1>4, BatchKept
<1>6. TypeOK'
      BY <1>1, <1>4 DEF Inv, TypeOK, lead, history
<1> QED BY <1>4, <1>5, <1>6 DEF Inv

LEMMA PollerClaimKeeps ==
    ASSUME Inv, PollerClaim
    PROVE  Inv'
<1>1. /\ UNCHANGED <<lead, history, escalated, crashes, faults>>
      /\ UNCHANGED <<alerts, dropped>>
      /\ pc["poller"] = "alerting" /\ "poller" \in Process
      BY DEF PollerClaim, history, Process
<1>2. PICK r \in batch : TryClaim("poller", r.lead, r.to) /\ batch' = batch \ {r}
      BY DEF PollerClaim
<1>3. /\ r.lead \in Lead /\ r.to \in User \cup {None}
      /\ Assigned(r.lead) /\ r.to = owner[r.lead]
      BY <1>1 DEF Inv, TypeOK, BatchAimed, Row
<1>4. /\ pc' \in [Process -> Pc]
      /\ job' \in [Process -> Lead \cup {"none"}]
      /\ target' \in [Process -> User \cup {None}]
      /\ Aimed' /\ SentTold' /\ Settled
      /\ ledger' \in [Lead -> {"none", "PENDING", "SENT"}]
      /\ stale' \subseteq {k \in Lead : ledger'[k] = "PENDING"}
      BY <1>1, <1>2, <1>3, Claiming
<1>5. BatchAimed'
      BY <1>1, <1>2, <1>4, BatchKept DEF Alerting
<1>6. TypeOK'
      BY <1>1, <1>2, <1>4 DEF Inv, TypeOK, lead, history
<1> QED BY <1>4, <1>5, <1>6 DEF Inv

LEMMA FetchKeeps ==
    ASSUME Inv, NEW w \in Process, Fetch(w)
    PROVE  Inv'
<1>1. /\ UNCHANGED <<lead, ledger, stale, batch, history, escalated, crashes, faults>>
      /\ UNCHANGED <<alerts, dropped>>
      /\ pc[w] = "fetch" /\ job[w] \in Lead
      BY DEF Fetch, history, Inv, Aimed, Knows, Working, Holding
<1>2. Settled
      BY <1>1, OthersSettled
<1>3. /\ pc' \in [Process -> Pc]
      /\ job' \in [Process -> Lead \cup {"none"}]
      /\ target' \in [Process -> User \cup {None}]
      /\ Aimed'
  <2>1. CASE Assigned(job[w])
    <3>1. /\ target' = [target EXCEPT ![w] = owner[job[w]]]
          /\ pc' = [pc EXCEPT ![w] = "send"]
          /\ job' = job
        BY <2>1 DEF Fetch
    <3>2. /\ job = [job EXCEPT ![w] = job[w]]
          /\ owner[job[w]] \in User \cup {None} /\ "send" \in Pc
        BY <1>1 DEF Inv, TypeOK, Pc, Holding
    <3> QED BY <1>1, <1>2, <2>1, <3>1, <3>2, Turn
  <2>2. CASE ~Assigned(job[w])
      BY <1>1, <1>2, <2>2, Moving DEF Fetch, Working, Holding
  <2> QED BY <2>1, <2>2
<1>4. pc'["poller"] \in Alerting => pc["poller"] \in Alerting
      BY <1>1 DEF Fetch, Goto, Inv, TypeOK, Alerting, Holding, Process
<1>5. BatchAimed' /\ SentTold'
      BY <1>1, <1>2, <1>4, BatchKept, SentKept
<1>6. TypeOK'
      BY <1>1, <1>3 DEF Inv, TypeOK, lead, history
<1> QED BY <1>3, <1>5, <1>6 DEF Inv

\* What is said is said to the owner, or to nobody who could hear it.
LEMMA SendKeeps ==
    ASSUME Inv, NEW w \in Process, Send(w)
    PROVE  Inv'
<1>1. /\ UNCHANGED <<lead, ledger, stale, batch, escalations, escalated, crashes, faults>>
      /\ pc[w] = "send" /\ job[w] \in Lead /\ Goto(w, "mark")
      /\ Assigned(job[w]) /\ target[w] = owner[job[w]] /\ target[w] \in User
      BY DEF Send, Inv, TypeOK, Aimed, Knows, Working, Holding, Assigned
<1> PICK j \in Lead : j = job[w]
      BY <1>1
<1>2. /\ alerts' \in [Lead -> Seq(User)] /\ dropped' \subseteq Lead
      /\ \A l \in Lead : Told(l) => Told(l)'
      /\ Told(j)'
  <2>1. UNCHANGED owner
      BY <1>1 DEF lead
  <2>2. CASE UNCHANGED <<alerts, dropped>> /\ target[w] \in NoPhone
      BY <1>1, <2>1, <2>2 DEF Told, Inv, TypeOK
  <2>3. CASE dropped' = dropped \cup {job[w]} /\ UNCHANGED alerts
      BY <1>1, <2>1, <2>3 DEF Told, Inv, TypeOK
  <2>4. CASE /\ alerts' = [alerts EXCEPT ![job[w]] = Append(@, target[w])]
             /\ UNCHANGED dropped
    <3>1. alerts[j] \in Seq(User) /\ Len(alerts[j]) \in Nat
        BY <1>1 DEF Inv, TypeOK
    <3> DEFINE s == alerts[j]
               t == Append(s, target[w])
    <3>2. /\ t \in Seq(User) /\ Len(t) = Len(s) + 1
          /\ \A i \in 1 .. Len(s) : t[i] = s[i]
          /\ t[Len(s) + 1] = target[w]
        BY <1>1, <3>1, AppendProperties
    <3>3. /\ alerts' \in [Lead -> Seq(User)]
          /\ alerts'[j] = t
          /\ \A l \in Lead \ {j} : alerts'[l] = alerts[l]
        BY <1>1, <2>4, <3>2 DEF Inv, TypeOK
    <3>4. Told(j)'
      <4>1. Len(t) \in 1 .. Len(t) /\ t[Len(t)] = owner[j]
          BY <1>1, <3>1, <3>2
      <4> QED BY <2>1, <3>3, <4>1 DEF Told
    <3>5. ASSUME NEW l \in Lead, Told(l)
          PROVE  Told(l)'
      <4>1. CASE l = j
          BY <3>4, <4>1
      <4>2. CASE l # j
          BY <2>1, <2>4, <3>3, <3>5, <4>2 DEF Told
      <4> QED BY <4>1, <4>2
    <3> QED BY <2>4, <3>3, <3>4, <3>5 DEF Inv, TypeOK
  <2> QED BY <2>2, <2>3, <2>4 DEF Send
<1>3. Settled
      BY <1>1, <1>2 DEF Settled, lead, Assigned
<1>4. /\ pc' \in [Process -> Pc]
      /\ job' \in [Process -> Lead \cup {"none"}]
      /\ target' \in [Process -> User \cup {None}]
      /\ Aimed'
  <2>1. /\ pc' = [pc EXCEPT ![w] = "mark"]
        /\ job' = job /\ target' = target
      BY <1>1 DEF Goto
  <2>2. /\ job = [job EXCEPT ![w] = job[w]]
        /\ target = [target EXCEPT ![w] = target[w]] /\ "mark" \in Pc
      BY <1>1 DEF Inv, TypeOK, Pc, Holding
  <2> QED BY <1>1, <1>2, <1>3, <2>1, <2>2, Turn
<1>5. pc'["poller"] \in Alerting => pc["poller"] \in Alerting
      BY <1>1 DEF Goto, Inv, TypeOK, Alerting, Holding, Process
<1>6. BatchAimed' /\ SentTold'
      BY <1>1, <1>3, <1>5, BatchKept, SentKept
<1>7. TypeOK'
      BY <1>1, <1>2, <1>4 DEF Inv, TypeOK, lead
<1> QED BY <1>4, <1>6, <1>7 DEF Inv

LEMMA EndKeeps ==
    ASSUME Inv, NEW w \in Process, MarkSent(w) \/ Release(w)
    PROVE  Inv'
<1>1. /\ UNCHANGED <<lead, batch, history, escalated, crashes, faults>>
      /\ UNCHANGED <<alerts, dropped>>
      /\ pc[w] \in {"mark", "release"} /\ job[w] \in Lead /\ Leave(w)
      BY DEF MarkSent, Release, history, Inv, Aimed, Knows, Working, Holding
<1>2. Settled
      BY <1>1, OthersSettled
<1>3. pc'["poller"] \in Alerting => pc["poller"] \in Alerting
      BY <1>1 DEF Leave, Inv, TypeOK, Alerting, Holding, Process
<1>4. /\ ledger' \in [Lead -> {"none", "PENDING", "SENT"}]
      /\ stale' \subseteq {k \in Lead : ledger'[k] = "PENDING"}
  <2>1. CASE MarkSent(w)
      BY <1>1, <2>1 DEF MarkSent, Inv, TypeOK
  <2>2. CASE Release(w)
      BY <1>1, <2>2 DEF Release, Inv, TypeOK
  <2> QED BY <2>1, <2>2
<1>5. SentTold'
  <2>1. CASE MarkSent(w)
    <3> PICK j \in Lead : j = job[w]
        BY <1>1
    <3>1. Assigned(j) /\ Told(j)
        BY <2>1 DEF MarkSent, Inv, Aimed, Knows
    <3>2. Told(j)'
        BY <1>2, <3>1 DEF Settled
    <3> QED BY <1>1, <1>2, <2>1, <3>1, <3>2, SentKept DEF MarkSent, Inv, TypeOK
  <2>2. CASE Release(w)
      BY <1>1, <1>2, <2>2, SentKept DEF Release, Inv, TypeOK
  <2> QED BY <2>1, <2>2
<1>6. BatchAimed'
      BY <1>1, <1>2, <1>3, BatchKept
<1>7. /\ pc' \in [Process -> Pc]
      /\ job' \in [Process -> Lead \cup {"none"}]
      /\ target' \in [Process -> User \cup {None}]
      /\ Aimed'
      BY <1>1, <1>2, Leaving
<1>8. TypeOK'
      BY <1>1, <1>4, <1>7 DEF Inv, TypeOK, lead, history
<1> QED BY <1>5, <1>6, <1>7, <1>8 DEF Inv

LEMMA FaultKeeps ==
    ASSUME Inv, NEW w \in Process, Fault(w)
    PROVE  Inv'
<1>1. /\ UNCHANGED <<lead, ledger, stale, batch, history, escalated, crashes>>
      /\ UNCHANGED <<alerts, dropped>> /\ faults' \in Nat
      /\ pc[w] \in Holding
      /\ Goto(w, "release") \/ Leave(w)
      BY DEF Fault, history, Holding, Inv, TypeOK
<1>2. Settled
      BY <1>1, OthersSettled
<1>3. /\ pc' \in [Process -> Pc]
      /\ job' \in [Process -> Lead \cup {"none"}]
      /\ target' \in [Process -> User \cup {None}]
      /\ Aimed'
      BY <1>1, <1>2, Moving, Leaving DEF Working
<1>4. pc'["poller"] \in Alerting => pc["poller"] \in Alerting
      BY <1>1 DEF Goto, Leave, Inv, TypeOK, Alerting, Process
<1>5. BatchAimed' /\ SentTold'
      BY <1>1, <1>2, <1>4, BatchKept, SentKept
<1>6. TypeOK'
      BY <1>1, <1>3 DEF Inv, TypeOK, lead, history
<1> QED BY <1>3, <1>5, <1>6 DEF Inv

\* The poller, beside its alerts.
LEMMA PollerKeeps ==
    ASSUME Inv, Poll \/ PollEscalations \/ Escalate \/ RecordEscalation \/ EndPoll
    PROVE  Inv'
<1>0. "poller" \in Process
      BY DEF Process
<1>1. /\ UNCHANGED <<lead, ledger, stale, alerts, dropped, crashes>>
      BY DEF Poll, PollEscalations, Escalate, RecordEscalation, EndPoll, history
<1>2. Settled
      BY <1>1, OthersSettled
<1>3. /\ pc' \in [Process -> Pc]
      /\ job' \in [Process -> Lead \cup {"none"}]
      /\ target' \in [Process -> User \cup {None}]
      /\ Aimed'
  <2>1. CASE Poll \/ PollEscalations \/ EndPoll
      BY <1>0, <1>2, <2>1, Moving DEF Poll, PollEscalations, EndPoll
  <2>2. CASE Escalate
    <3>1. target' = target /\ target = [target EXCEPT !["poller"] = target["poller"]]
          /\ target["poller"] \in User \cup {None}
        BY <1>0, <2>2 DEF Escalate, Inv, TypeOK
    <3>2. CASE UNCHANGED <<job, pc>>
        BY <1>2, <3>1, <3>2, Moving, <1>1 DEF Inv, TypeOK, Aimed, Knows, Assigned, Told, lead
    <3>3. CASE \E r \in batch : /\ job' = [job EXCEPT !["poller"] = r.lead]
                                 /\ pc' = [pc EXCEPT !["poller"] = "recording"]
      <4>1. PICK j \in Lead : /\ job' = [job EXCEPT !["poller"] = j]
                              /\ pc' = [pc EXCEPT !["poller"] = "recording"]
          BY <3>3 DEF Inv, TypeOK, Row
      <4>2. "recording" \in Pc
          BY DEF Pc
      <4> QED BY <1>0, <1>2, <3>1, <4>1, <4>2, Turn
    <3> QED BY <2>2, <3>2, <3>3 DEF Escalate
  <2>3. CASE RecordEscalation
    <3>1. /\ target' = target /\ target = [target EXCEPT !["poller"] = target["poller"]]
          /\ target["poller"] \in User \cup {None}
          /\ job' = [job EXCEPT !["poller"] = "none"]
          /\ pc' = [pc EXCEPT !["poller"] = "escalating"]
        BY <1>0, <2>3 DEF RecordEscalation, Inv, TypeOK
    <3>2. "escalating" \in Pc /\ "escalating" \notin Working
        BY DEF Pc, Working, Holding
    <3> QED BY <1>0, <1>2, <3>1, <3>2, Turn
  <2> QED BY <2>1, <2>2, <2>3
<1>4. batch' \subseteq Row
  <2>1. CASE Poll
      BY <2>1 DEF Poll, NewlyAssigned, Row, Inv, TypeOK
  <2>2. CASE PollEscalations
      BY <2>2 DEF PollEscalations, EscalationCandidates, Row
  <2>3. CASE Escalate \/ RecordEscalation \/ EndPoll
      BY <2>3 DEF Escalate, RecordEscalation, EndPoll, Inv, TypeOK
  <2> QED BY <2>1, <2>2, <2>3
<1>5. BatchAimed'
  <2>1. CASE Poll
    <3>1. \A r \in batch' : Assigned(r.lead) /\ r.to = owner[r.lead]
        BY <2>1 DEF Poll, NewlyAssigned
    <3> QED BY <1>1, <3>1 DEF BatchAimed, Assigned, lead
  <2>2. CASE PollEscalations \/ Escalate \/ RecordEscalation \/ EndPoll
    <3>1. pc'["poller"] \notin Alerting
        BY <1>0, <2>2 DEF PollEscalations, Escalate, RecordEscalation, EndPoll, Goto, Inv,
                          TypeOK, Alerting, Holding
    <3> QED BY <3>1 DEF BatchAimed, Alerting
  <2> QED BY <2>1, <2>2
<1>6. SentTold'
      BY <1>1, <1>2, SentKept
<1>7. /\ escalated' \subseteq Lead /\ escalations' \in [Lead -> Nat] /\ faults' \in Nat
  <2>1. CASE Poll \/ PollEscalations \/ EndPoll
      BY <2>1 DEF Poll, PollEscalations, EndPoll, history, Inv, TypeOK
  <2>2. CASE Escalate
    <3>1. \/ escalations' = escalations
          \/ \E l \in Lead :
                escalations' = [escalations EXCEPT ![l] = escalations[l] + 1]
        BY <2>2 DEF Escalate, Inv, TypeOK, Row
    <3>2. escalations \in [Lead -> Nat] /\ \A l \in Lead : escalations[l] + 1 \in Nat
        BY DEF Inv, TypeOK
    <3>3. escalations' \in [Lead -> Nat]
        BY <3>1, <3>2
    <3> QED BY <2>2, <3>3 DEF Escalate, Inv, TypeOK
  <2>3. CASE RecordEscalation
    <3>1. pc["poller"] \in Working => job["poller"] \in Lead
        BY <1>0 DEF Inv, Aimed, Knows
    <3> QED BY <2>3, <3>1 DEF RecordEscalation, Working, history, Inv, TypeOK
  <2> QED BY <2>1, <2>2, <2>3
<1>8. TypeOK'
      BY <1>1, <1>3, <1>4, <1>7 DEF Inv, TypeOK, lead
<1> QED BY <1>3, <1>5, <1>6, <1>8 DEF Inv

LEMMA EnvironmentKeeps ==
    ASSUME Inv, PollerClaimFails \/ Crash \/ \E l \in Lead : GetStale(l)
    PROVE  Inv'
<1>1. /\ UNCHANGED <<lead, ledger, history, escalated>>
      /\ UNCHANGED <<alerts, dropped>>
      /\ batch' \subseteq batch
      /\ stale' \subseteq {l \in Lead : ledger[l] = "PENDING"}
      /\ crashes' \in Nat /\ faults' \in Nat
  <2>1. CASE PollerClaimFails
      BY <2>1 DEF PollerClaimFails, history, Inv, TypeOK
  <2>2. CASE Crash
      BY <2>2 DEF Crash, history, Inv, TypeOK
  <2>3. ASSUME NEW l \in Lead, GetStale(l)
        PROVE  /\ UNCHANGED <<lead, ledger, history, escalated, batch, crashes, faults>>
               /\ stale' = stale \cup {l} /\ ledger[l] = "PENDING"
      BY <2>3 DEF GetStale, process
  <2> QED BY <2>1, <2>2, <2>3 DEF history, Inv, TypeOK
<1>2. Settled
      BY <1>1, OthersSettled
<1>3. /\ pc' \in [Process -> Pc]
      /\ job' \in [Process -> Lead \cup {"none"}]
      /\ target' \in [Process -> User \cup {None}]
      /\ Aimed'
      /\ pc'["poller"] \in Alerting => pc["poller"] \in Alerting
  <2>1. CASE Crash
    <3>1. /\ pc' = [w \in Process |-> "idle"] /\ job' = [w \in Process |-> "none"]
          /\ target' = [w \in Process |-> None]
          /\ "idle" \in Pc /\ "idle" \notin Alerting /\ "poller" \in Process
          /\ "idle" \notin Working
        BY <2>1 DEF Crash, Pc, Alerting, Working, Holding, Process
    <3> QED BY <3>1 DEF Aimed, Knows
  <2>2. CASE UNCHANGED <<pc, job, target>>
      BY <1>1, <2>2 DEF Inv, TypeOK, Aimed, Knows, Assigned, Told, lead
  <2> QED BY <2>1, <2>2 DEF PollerClaimFails, GetStale, process
<1>4. BatchAimed' /\ SentTold'
      BY <1>1, <1>2, <1>3, BatchKept, SentKept
<1>5. TypeOK'
      BY <1>1, <1>3 DEF Inv, TypeOK, lead, history
<1> QED BY <1>3, <1>4, <1>5 DEF Inv

-----------------------------------------------------------------------------
(* The theorems.                                                           *)

LEMMA InvStep == Inv /\ [Next]_vars => Inv'
<1> SUFFICES ASSUME Inv, [Next]_vars PROVE Inv'
    OBVIOUS
<1>1. CASE UNCHANGED vars
  <2>1. TypeOK'
      BY <1>1 DEF vars, Inv, TypeOK
  <2>2. Aimed' /\ BatchAimed' /\ SentTold'
      BY <1>1 DEF vars, Inv, Aimed, Knows, BatchAimed, SentTold, Assigned, Told
  <2> QED BY <2>1, <2>2 DEF Inv
<1>2. CASE Next
    BY <1>2, LeadStepKeeps, HookClaimKeeps, PollerClaimKeeps, FetchKeeps, SendKeeps,
       EndKeeps, FaultKeeps, PollerKeeps, EnvironmentKeeps
       DEF Next, Step, PollerStep
<1> QED BY <1>1, <1>2

LEMMA Invariance == Spec => []Inv
<1>1. Init => Inv
  <2> SUFFICES ASSUME Init PROVE Inv
      OBVIOUS
  <2>1. TypeOK
      BY DEF Init, TypeOK, Pc
  <2>2. Aimed
      BY DEF Init, Aimed, Knows, Working, Holding
  <2>3. BatchAimed /\ SentTold
      BY DEF Init, BatchAimed, SentTold
  <2> QED BY <2>1, <2>2, <2>3 DEF Inv
<1>2. Inv /\ [Next]_vars => Inv'
      BY InvStep
<1> QED BY <1>1, <1>2, PTL DEF Spec

\* Every variable keeps its type; a row is stale only while it is PENDING.
THEOREM TypeCorrect == Spec => []TypeOK
<1>1. Inv => TypeOK
      BY DEF Inv
<1> QED BY <1>1, Invariance, PTL

\* Of tryClaimLeadNotification, findAssignedLeadById and
\* markLeadNotificationSent: whatever webhooks, poller, stale claims, failures
\* and crashes do to each other, a lead is SENT only when its final owner was
\* alerted, has no phone, or the transport dropped the alert.
THEOREM OwnerWasTold == Spec => []SentWasSent
BY Invariance, InvImplies, PTL

-----------------------------------------------------------------------------
(***************************************************************************)
(* Alerts.  As long as a claim is marked or released within five minutes,  *)
(* one process at a time holds a lead, and its row is PENDING and fresh.   *)
(***************************************************************************)

HeldFresh(l) == \A w \in Process : Holds(w, l) => ledger[l] = "PENDING" /\ l \notin stale
HeldOnce(l)  == \A v, w \in Process : Holds(v, l) /\ Holds(w, l) => v = w

Exclusive == \A l \in Lead : HeldFresh(l) /\ HeldOnce(l)

\* Of the alerts about a lead one is free: that of the process that is about to
\* mark it, or has; and so for its escalations.
Marking(l)   == \E w \in Process : Holds(w, l) /\ pc[w] = "mark"
Recording(l) == pc["poller"] = "recording" /\ job["poller"] = l

Free(P) == IF P THEN 1 ELSE 0

AlertPaid(l) == Len(alerts[l]) <= crashes + faults + Free(ledger[l] = "SENT" \/ Marking(l))
EscalationPaid(l) == escalations[l] <= crashes + faults + Free(l \in escalated \/ Recording(l))

PaidInv == Exclusive /\ \A l \in Lead : AlertPaid(l) /\ EscalationPaid(l)

\* A step after which nobody holds what he did not hold, and whose row he would
\* find otherwise.
LEMMA ExclusiveKept ==
    ASSUME Exclusive,
           \A l \in Lead : \A w \in Process :
               Holds(w, l)' => /\ Holds(w, l)
                               /\ ledger'[l] = ledger[l]
                               /\ l \in stale' => l \in stale
    PROVE  Exclusive'
<1>1. ASSUME NEW l \in Lead
      PROVE  HeldFresh(l)' /\ HeldOnce(l)'
  <2>1. HeldFresh(l) /\ HeldOnce(l)
      BY DEF Exclusive
  <2>2. HeldFresh(l)'
      BY <2>1 DEF HeldFresh
  <2>3. HeldOnce(l)'
      BY <2>1 DEF HeldOnce
  <2> QED BY <2>2, <2>3
<1> QED BY <1>1 DEF Exclusive

\* What was said of a lead is as it was, or a crash or a fault pays for it.
LEMMA AlertKept ==
    ASSUME Inv, TypeOK', NEW l \in Lead, AlertPaid(l),
           Len(alerts'[l]) = Len(alerts[l]),
           crashes' + faults' >= crashes + faults,
           \/ ledger[l] = "SENT" \/ Marking(l) => ledger'[l] = "SENT" \/ Marking(l)'
           \/ crashes' + faults' > crashes + faults
    PROVE  AlertPaid(l)'
<1> DEFINE n == Len(alerts[l])
           m == Len(alerts'[l])
<1>1. /\ alerts[l] \in Seq(User) /\ alerts'[l] \in Seq(User)
      /\ crashes \in Nat /\ faults \in Nat /\ crashes' \in Nat /\ faults' \in Nat
      BY DEF Inv, TypeOK
<1>2. n \in Nat /\ m \in Nat /\ m = n
      BY <1>1
<1>3. n <= crashes + faults + (IF ledger[l] = "SENT" \/ Marking(l) THEN 1 ELSE 0)
      BY DEF AlertPaid, Free
<1>4. AlertPaid(l)' <=>
         m <= crashes' + faults' + (IF ledger'[l] = "SENT" \/ Marking(l)' THEN 1 ELSE 0)
      BY DEF AlertPaid, Free
<1> HIDE DEF n, m
<1> QED BY <1>1, <1>2, <1>3, <1>4

LEMMA PaidArithmetic ==
    \A n, c, f, d, g \in Nat : \A a, b \in {0, 1} :
        n <= c + f + a /\ d + g >= c + f /\ (a <= b \/ d + g > c + f) => n <= d + g + b
OBVIOUS

LEMMA EscalationKept ==
    ASSUME Inv, TypeOK', NEW l \in Lead, EscalationPaid(l),
           escalations'[l] = escalations[l],
           crashes' + faults' >= crashes + faults,
           \/ l \in escalated \/ Recording(l) => l \in escalated' \/ Recording(l)'
           \/ crashes' + faults' > crashes + faults
    PROVE  EscalationPaid(l)'
<1> DEFINE a == Free(l \in escalated \/ Recording(l))
           b == Free(l \in escalated' \/ Recording(l)')
<1>1. /\ escalations[l] \in Nat
      /\ crashes \in Nat /\ faults \in Nat /\ crashes' \in Nat /\ faults' \in Nat
      BY DEF Inv, TypeOK
<1>2. a \in {0, 1} /\ b \in {0, 1}
      BY DEF Free
<1>3. a <= b \/ crashes' + faults' > crashes + faults
      BY DEF Free
<1>4. escalations[l] <= crashes + faults + a
      BY DEF EscalationPaid
<1>5. EscalationPaid(l)' <=> escalations[l] <= crashes' + faults' + b
      BY DEF EscalationPaid, Free
<1> HIDE DEF a, b
<1>6. escalations[l] <= crashes' + faults' + b
      BY <1>1, <1>2, <1>3, <1>4, PaidArithmetic, Zenon
<1> QED BY <1>5, <1>6

\* Steps that say nothing and end nothing.
LEMMA PaidKept ==
    ASSUME Inv, TypeOK', PaidInv,
           UNCHANGED <<alerts, escalations, crashes, faults>>,
           escalated \subseteq escalated',
           \A l \in Lead : \A w \in Process :
               Holds(w, l)' => /\ Holds(w, l)
                               /\ ledger'[l] = ledger[l]
                               /\ l \in stale' => l \in stale,
           \A l \in Lead : ledger[l] = "SENT" \/ Marking(l) => ledger'[l] = "SENT" \/ Marking(l)',
           \A l \in Lead : Recording(l) => l \in escalated' \/ Recording(l)'
    PROVE  PaidInv'
<1>1. Exclusive'
      BY ExclusiveKept DEF PaidInv
<1>2. crashes \in Nat /\ faults \in Nat
      BY DEF Inv, TypeOK
<1>3. ASSUME NEW l \in Lead PROVE AlertPaid(l)' /\ EscalationPaid(l)'
  <2>1. AlertPaid(l) /\ EscalationPaid(l)
      BY DEF PaidInv
  <2>2. AlertPaid(l)'
      BY <1>2, <2>1, AlertKept
  <2>3. EscalationPaid(l)'
      BY <1>2, <2>1, EscalationKept
  <2> QED BY <2>2, <2>3
<1> QED BY <1>1, <1>3 DEF PaidInv

\* A fault or a crash pays for whatever is forgotten.
LEMMA PaidByMishap ==
    ASSUME Inv, TypeOK', PaidInv,
           UNCHANGED <<alerts, escalations, escalated, ledger, stale>>,
           crashes' + faults' > crashes + faults,
           \A l \in Lead : \A w \in Process : Holds(w, l)' => Holds(w, l)
    PROVE  PaidInv'
<1>1. Exclusive'
      BY ExclusiveKept DEF PaidInv
<1>2. crashes \in Nat /\ faults \in Nat /\ crashes' \in Nat /\ faults' \in Nat
      BY DEF Inv, TypeOK
<1>3. crashes' + faults' >= crashes + faults
  <2>1. \A a, b, c, d \in Nat : a + b > c + d => a + b >= c + d
      OBVIOUS
  <2> QED BY <1>2, <2>1, Zenon
<1>4. ASSUME NEW l \in Lead PROVE AlertPaid(l)' /\ EscalationPaid(l)'
  <2>1. AlertPaid(l) /\ EscalationPaid(l)
      BY DEF PaidInv
  <2>2. Len(alerts'[l]) = Len(alerts[l]) /\ escalations'[l] = escalations[l]
      OBVIOUS
  <2>3. AlertPaid(l)'
      BY <1>3, <2>1, <2>2, AlertKept
  <2>4. EscalationPaid(l)'
      BY <1>3, <2>1, <2>2, EscalationKept
  <2> QED BY <2>3, <2>4
<1> QED BY <1>1, <1>4 DEF PaidInv

\* The other processes hold what they held.
LEMMA OthersHold ==
    ASSUME NEW w \in Process, Inv, NEW p, NEW j,
           pc' = [pc EXCEPT ![w] = p], job' = [job EXCEPT ![w] = j]
    PROVE  /\ pc'[w] = p /\ job'[w] = j
           /\ \A v \in Process \ {w} : pc'[v] = pc[v] /\ job'[v] = job[v]
           /\ \A v \in Process \ {w} : \A l : Holds(v, l)' <=> Holds(v, l)
<1>1. /\ pc'[w] = p /\ job'[w] = j
      /\ \A v \in Process \ {w} : pc'[v] = pc[v] /\ job'[v] = job[v]
      BY DEF Inv, TypeOK
<1> QED BY <1>1 DEF Holds

LEMMA ClaimPaid ==
    ASSUME Inv, TypeOK', PaidInv, NEW w \in Process, NEW l \in Lead, NEW to,
           TryClaim(w, l, to), pc[w] \in {"idle", "alerting"},
           UNCHANGED <<alerts, escalations, escalated, crashes, faults>>
    PROVE  PaidInv'
<1>1. \A k : ~Holds(w, k)
      BY DEF Holds, Holding
<1>2. CASE ~Claimable(l)
  <2> DEFINE p == IF w = "poller" THEN "alerting" ELSE "idle"
  <2>1. /\ pc' = [pc EXCEPT ![w] = p] /\ job' = [job EXCEPT ![w] = "none"]
        /\ UNCHANGED <<ledger, stale>>
      BY <1>2 DEF TryClaim, Leave
  <2>2. p \in {"idle", "alerting"}
      OBVIOUS
  <2> HIDE DEF p
  <2>3. /\ pc'[w] = p
        /\ \A v \in Process \ {w} : pc'[v] = pc[v] /\ job'[v] = job[v]
        /\ \A v \in Process \ {w} : \A k : Holds(v, k)' <=> Holds(v, k)
      BY <2>1, OthersHold
  <2>4. \A k : ~Holds(w, k)'
      BY <2>2, <2>3 DEF Holds, Holding
  <2>5. \A k : Marking(k) => Marking(k)'
    <3> SUFFICES ASSUME NEW k, Marking(k) PROVE Marking(k)'
        OBVIOUS
    <3>1. PICK v \in Process : Holds(v, k) /\ pc[v] = "mark"
        BY DEF Marking
    <3>2. v # w
        BY <1>1, <3>1
    <3>3. Holds(v, k)' /\ pc'[v] = "mark"
        BY <2>3, <3>1, <3>2
    <3> QED BY <3>3 DEF Marking
  <2>6. \A k : Recording(k) => Recording(k)'
    <3>1. w = "poller" => \A k : ~Recording(k)
        BY DEF Recording
    <3>2. "poller" \in Process
        BY DEF Process
    <3> QED BY <2>3, <3>1, <3>2 DEF Recording
  <2> QED BY <1>1, <2>1, <2>3, <2>4, <2>5, <2>6, PaidKept
<1>3. CASE Claimable(l)
  <2> DEFINE p == IF to = None THEN "fetch" ELSE "send"
  <2>1. /\ pc' = [pc EXCEPT ![w] = p] /\ job' = [job EXCEPT ![w] = l]
        /\ ledger' = [ledger EXCEPT ![l] = "PENDING"]
        /\ stale' = stale \ {l}
      BY <1>3 DEF TryClaim
  <2>2. p \in {"fetch", "send"}
      OBVIOUS
  <2> HIDE DEF p
  <2>3. /\ pc'[w] = p /\ job'[w] = l
        /\ \A v \in Process \ {w} : pc'[v] = pc[v] /\ job'[v] = job[v]
        /\ \A v \in Process \ {w} : \A k : Holds(v, k)' <=> Holds(v, k)
      BY <2>1, OthersHold
  <2>4. \A v \in Process : ~Holds(v, l)
    <3>1. HeldFresh(l)
        BY DEF PaidInv, Exclusive
    <3> QED BY <1>3, <3>1 DEF HeldFresh, Claimable
  <2>5. /\ ledger'[l] = "PENDING" /\ l \notin stale'
        /\ \A k \in Lead \ {l} : ledger'[k] = ledger[k] /\ (k \in stale' => k \in stale)
      BY <2>1 DEF Inv, TypeOK
  <2>6. \A k : Holds(w, k)' => k = l
      BY <2>3 DEF Holds
  <2>7. Exclusive'
    <3> SUFFICES ASSUME NEW k \in Lead PROVE HeldFresh(k)' /\ HeldOnce(k)'
        BY DEF Exclusive
    <3>1. HeldFresh(k) /\ HeldOnce(k)
        BY DEF PaidInv, Exclusive
    <3>2. CASE k = l
        BY <2>3, <2>4, <2>5, <3>2 DEF HeldFresh, HeldOnce
    <3>3. CASE k # l
        BY <2>3, <2>5, <2>6, <3>1, <3>3 DEF HeldFresh, HeldOnce
    <3> QED BY <3>2, <3>3
  <2>8. \A k : Recording(k) => Recording(k)'
    <3>1. w = "poller" => \A k : ~Recording(k)
        BY DEF Recording
    <3>2. "poller" \in Process
        BY DEF Process
    <3> QED BY <2>3, <3>1, <3>2 DEF Recording
  <2>9. ASSUME NEW k \in Lead
        PROVE  ledger[k] = "SENT" \/ Marking(k) => ledger'[k] = "SENT" \/ Marking(k)'
    <3>1. CASE k = l
      <4>1. ledger[k] # "SENT"
          BY <1>3, <3>1 DEF Claimable, Inv, TypeOK
      <4> QED BY <2>4, <3>1, <4>1 DEF Marking
    <3>2. CASE k # l
      <4>1. ASSUME Marking(k) PROVE Marking(k)'
        <5>1. PICK v \in Process : Holds(v, k) /\ pc[v] = "mark"
            BY <4>1 DEF Marking
        <5>2. v # w
            BY <1>1, <5>1
        <5>3. Holds(v, k)' /\ pc'[v] = "mark"
            BY <2>3, <5>1, <5>2
        <5> QED BY <5>3 DEF Marking
      <4> QED BY <2>5, <3>2, <4>1
    <3> QED BY <3>1, <3>2
  <2>10. crashes \in Nat /\ faults \in Nat
      BY DEF Inv, TypeOK
  <2>11. ASSUME NEW k \in Lead PROVE AlertPaid(k)' /\ EscalationPaid(k)'
    <3>1. AlertPaid(k) /\ EscalationPaid(k)
        BY DEF PaidInv
    <3>2. AlertPaid(k)'
        BY <2>9, <2>10, <3>1, AlertKept
    <3>3. EscalationPaid(k)'
        BY <2>8, <2>10, <3>1, EscalationKept
    <3> QED BY <3>2, <3>3
  <2> QED BY <2>7, <2>11 DEF PaidInv
<1> QED BY <1>2, <1>3

LEMMA ClaimsPaid ==
    ASSUME Inv, TypeOK', PaidInv, PollerClaim \/ \E h \in Hook : HookClaim(h)
    PROVE  PaidInv'
<1>1. CASE PollerClaim
  <2>1. PICK r \in batch : TryClaim("poller", r.lead, r.to)
      BY <1>1 DEF PollerClaim
  <2>2. r.lead \in Lead /\ "poller" \in Process
      BY DEF Inv, TypeOK, Row, Process
  <2>3. UNCHANGED <<alerts, escalations, escalated, crashes, faults>> /\ pc["poller"] = "alerting"
      BY <1>1 DEF PollerClaim, history
  <2> QED BY <2>1, <2>2, <2>3, ClaimPaid
<1>2. CASE \E h \in Hook : HookClaim(h)
  <2>1. PICK h \in Hook : HookClaim(h)
      BY <1>2
  <2>2. PICK l \in fired : TryClaim(h, l, None)
      BY <2>1 DEF HookClaim
  <2>3. l \in Lead /\ h \in Process
      BY DEF Inv, TypeOK, Process
  <2>4. UNCHANGED <<alerts, escalations, escalated, crashes, faults>> /\ pc[h] = "idle"
      BY <2>1 DEF HookClaim, history
  <2> QED BY <2>2, <2>3, <2>4, ClaimPaid
<1> QED BY <1>1, <1>2

\* A process goes on with its lead, or leaves it, while its row stays.
LEMMA GoOnPaid ==
    ASSUME Inv, TypeOK', PaidInv, NEW w \in Process, NEW p, NEW j,
           pc' = [pc EXCEPT ![w] = p], job' = [job EXCEPT ![w] = j],
           pc[w] \notin {"mark", "recording"},
           p \in Holding => pc[w] \in Holding /\ j = job[w],
           UNCHANGED <<alerts, escalations, escalated, crashes, faults, ledger, stale>>
    PROVE  PaidInv'
<1>1. /\ pc'[w] = p /\ job'[w] = j
      /\ \A v \in Process \ {w} : pc'[v] = pc[v] /\ job'[v] = job[v]
      /\ \A v \in Process \ {w} : \A k : Holds(v, k)' <=> Holds(v, k)
      BY OthersHold
<1>2. \A k : Holds(w, k)' => Holds(w, k)
      BY <1>1 DEF Holds
<1>3. ASSUME NEW k, Marking(k) PROVE Marking(k)'
  <2>1. PICK v \in Process : Holds(v, k) /\ pc[v] = "mark"
      BY <1>3 DEF Marking
  <2>2. Holds(v, k)' /\ pc'[v] = "mark"
      BY <1>1, <2>1
  <2> QED BY <2>2 DEF Marking
<1>4. \A k : Recording(k) => Recording(k)'
  <2>1. "poller" \in Process
      BY DEF Process
  <2> QED BY <1>1, <2>1 DEF Recording
<1> QED BY <1>1, <1>2, <1>3, <1>4, PaidKept

LEMMA FetchPaid ==
    ASSUME Inv, TypeOK', PaidInv, NEW w \in Process, Fetch(w)
    PROVE  PaidInv'
<1>1. /\ UNCHANGED <<alerts, escalations, escalated, crashes, faults, ledger, stale>>
      /\ pc[w] = "fetch" /\ job' = job
      /\ \E p \in {"send", "release"} : pc' = [pc EXCEPT ![w] = p]
      BY DEF Fetch, Goto, history
<1>2. job' = [job EXCEPT ![w] = job[w]]
      BY <1>1 DEF Inv, TypeOK
<1>3. {"send", "release", "fetch"} \subseteq Holding
      BY DEF Holding
<1> QED BY <1>1, <1>2, <1>3, GoOnPaid

LEMMA AppendOne ==
    ASSUME NEW s \in Seq(User), NEW u \in User
    PROVE  Len(Append(s, u)) = Len(s) + 1
OBVIOUS

\* The one alert that is free.
LEMMA SendPaid ==
    ASSUME Inv, TypeOK', PaidInv, NEW w \in Process, Send(w)
    PROVE  PaidInv'
<1> DEFINE j == job[w]
<1>1. /\ UNCHANGED <<escalations, escalated, crashes, faults, ledger, stale>>
      /\ pc[w] = "send" /\ job' = job /\ pc' = [pc EXCEPT ![w] = "mark"]
      /\ j \in Lead /\ target[w] \in User
      BY DEF Send, Goto, Inv, TypeOK, Aimed, Knows, Working, Holding, Assigned
<1>2. job' = [job EXCEPT ![w] = j]
      BY <1>1 DEF Inv, TypeOK
<1>3. /\ pc'[w] = "mark" /\ job'[w] = j
      /\ \A v \in Process \ {w} : pc'[v] = pc[v] /\ job'[v] = job[v]
      /\ \A v \in Process \ {w} : \A k : Holds(v, k)' <=> Holds(v, k)
      BY <1>1, <1>2, OthersHold
<1>4. Holds(w, j) /\ \A k : Holds(w, k)' => Holds(w, k)
      BY <1>1, <1>3 DEF Holds, Holding
<1>5. Exclusive'
      BY <1>1, <1>3, <1>4, ExclusiveKept DEF PaidInv
<1>6. HeldFresh(j) /\ HeldOnce(j)
      BY <1>1 DEF PaidInv, Exclusive
<1>7. ledger[j] = "PENDING" /\ ~Marking(j)
      BY <1>1, <1>4, <1>6 DEF HeldFresh, HeldOnce, Marking
<1>8. ASSUME NEW k, Marking(k) PROVE Marking(k)'
  <2>1. PICK v \in Process : Holds(v, k) /\ pc[v] = "mark"
      BY <1>8 DEF Marking
  <2>2. Holds(v, k)' /\ pc'[v] = "mark"
      BY <1>1, <1>3, <2>1
  <2> QED BY <2>2 DEF Marking
<1>9. \A k : Recording(k) => Recording(k)'
  <2>1. "poller" \in Process
      BY DEF Process
  <2> QED BY <1>1, <1>3, <2>1 DEF Recording
<1>10. crashes \in Nat /\ faults \in Nat
      BY DEF Inv, TypeOK
<1>11. ASSUME NEW k \in Lead PROVE EscalationPaid(k)'
      BY <1>1, <1>9, <1>10, EscalationKept DEF PaidInv
<1>12. ASSUME NEW k \in Lead PROVE AlertPaid(k)'
  <2>1. AlertPaid(k)
      BY DEF PaidInv
  <2>2. CASE Len(alerts'[k]) = Len(alerts[k])
      BY <1>1, <1>8, <1>10, <2>1, <2>2, AlertKept
  <2>3. CASE Len(alerts'[k]) # Len(alerts[k])
    <3>1. alerts' = [alerts EXCEPT ![j] = Append(@, target[w])]
        BY <2>3 DEF Send
    <3>2. k = j /\ alerts'[k] = Append(alerts[k], target[w]) /\ alerts[k] \in Seq(User)
        BY <1>1, <2>3, <3>1 DEF Inv, TypeOK
    <3>3. Len(alerts'[k]) = Len(alerts[k]) + 1
        BY <1>1, <3>2, AppendOne
    <3>4. Marking(k)'
      <4>1. Holds(w, k)' /\ pc'[w] = "mark"
          BY <1>3, <3>2 DEF Holds, Holding
      <4> QED BY <4>1 DEF Marking
    <3> DEFINE n == Len(alerts[k])
               m == Len(alerts'[k])
    <3>5. n <= crashes + faults + 0
        BY <1>7, <2>1, <3>2 DEF AlertPaid, Free
    <3>6. AlertPaid(k)' <=> m <= crashes' + faults' + 1
        BY <3>4 DEF AlertPaid, Free
    <3>7. n \in Nat /\ m = n + 1
        BY <3>2, <3>3
    <3> HIDE DEF n, m
    <3>8. m <= crashes + faults + 1
        BY <1>10, <3>5, <3>7
    <3> QED BY <1>1, <3>6, <3>8
  <2> QED BY <2>2, <2>3
<1> QED BY <1>5, <1>11, <1>12 DEF PaidInv

LEMMA EndPaid ==
    ASSUME Inv, TypeOK', PaidInv, NEW w \in Process, MarkSent(w) \/ Release(w)
    PROVE  PaidInv'
<1> DEFINE j == job[w]
           p == IF w = "poller" THEN "alerting" ELSE "idle"
<1>1. /\ UNCHANGED <<alerts, escalations, escalated, crashes, faults>>
      /\ pc[w] \in {"mark", "release"} /\ j \in Lead
      /\ pc' = [pc EXCEPT ![w] = p] /\ job' = [job EXCEPT ![w] = "none"]
      BY DEF MarkSent, Release, Leave, history, Inv, Aimed, Knows, Working, Holding
<1>2. p \in {"alerting", "idle"}
      OBVIOUS
<1> HIDE DEF p
<1>3. /\ pc'[w] = p /\ job'[w] = "none"
      /\ \A v \in Process \ {w} : pc'[v] = pc[v] /\ job'[v] = job[v]
      /\ \A v \in Process \ {w} : \A k : Holds(v, k)' <=> Holds(v, k)
      BY <1>1, OthersHold
<1>4. Holds(w, j) /\ \A k : ~Holds(w, k)'
      BY <1>1, <1>2, <1>3 DEF Holds, Holding
<1>5. HeldFresh(j) /\ HeldOnce(j)
      BY <1>1 DEF PaidInv, Exclusive
<1>6. ledger[j] = "PENDING" /\ \A v \in Process \ {w} : ~Holds(v, j)
      BY <1>4, <1>5 DEF HeldFresh, HeldOnce
<1>7. /\ \A k \in Lead \ {j} : ledger'[k] = ledger[k] /\ (k \in stale' => k \in stale)
      /\ pc[w] = "mark" => ledger'[j] = "SENT"
  <2>1. CASE MarkSent(w)
      BY <1>1, <1>6, <2>1 DEF MarkSent, Inv, TypeOK
  <2>2. CASE Release(w)
      BY <1>1, <1>6, <2>2 DEF Release, Inv, TypeOK
  <2> QED BY <2>1, <2>2
<1>8. \A l \in Lead : \A v \in Process :
         Holds(v, l)' => Holds(v, l) /\ ledger'[l] = ledger[l] /\ (l \in stale' => l \in stale)
      BY <1>3, <1>4, <1>6, <1>7
<1>9. ASSUME NEW k \in Lead, ledger[k] = "SENT" \/ Marking(k)
      PROVE  ledger'[k] = "SENT" \/ Marking(k)'
  <2>1. CASE k = j
    <3>1. Marking(k)
        BY <1>6, <1>9, <2>1
    <3>2. pc[w] = "mark"
        BY <1>6, <2>1, <3>1 DEF Marking
    <3> QED BY <1>7, <2>1, <3>2
  <2>2. CASE k # j /\ ledger[k] = "SENT"
      BY <1>7, <2>2
  <2>3. CASE k # j /\ Marking(k)
    <3>1. PICK v \in Process : Holds(v, k) /\ pc[v] = "mark"
        BY <2>3 DEF Marking
    <3>2. v # w
        BY <2>3, <3>1 DEF Holds
    <3>3. Holds(v, k)' /\ pc'[v] = "mark"
        BY <1>3, <3>1, <3>2
    <3> QED BY <3>3 DEF Marking
  <2> QED BY <1>9, <2>1, <2>2, <2>3
<1>10. \A k : Recording(k) => Recording(k)'
  <2>1. "poller" \in Process
      BY DEF Process
  <2> QED BY <1>1, <1>3, <2>1 DEF Recording
<1> QED BY <1>1, <1>8, <1>9, <1>10, PaidKept

LEMMA OneMore == \A a, b, c, d \in Nat : (a = c + 1 /\ b = d) \/ (a = c /\ b = d + 1) => a + b > c + d
OBVIOUS

LEMMA MishapsPaid ==
    ASSUME Inv, TypeOK', PaidInv,
           \/ \E w \in Process : Fault(w)
           \/ PollerClaimFails
           \/ Crash
    PROVE  PaidInv'
<1>0. crashes \in Nat /\ faults \in Nat /\ crashes' \in Nat /\ faults' \in Nat
      BY DEF Inv, TypeOK
<1>1. UNCHANGED <<alerts, escalations, escalated, ledger, stale>>
      BY DEF Fault, PollerClaimFails, Crash, history
<1>2. (crashes' = crashes + 1 /\ faults' = faults) \/ (crashes' = crashes /\ faults' = faults + 1)
      BY DEF Fault, PollerClaimFails, Crash
<1>3. crashes' + faults' > crashes + faults
      BY <1>0, <1>2, OneMore, Zenon
<1>4. \A l \in Lead : \A w \in Process : Holds(w, l)' => Holds(w, l)
  <2>1. CASE PollerClaimFails
      BY <2>1 DEF PollerClaimFails, Holds
  <2>2. CASE Crash
      BY <2>2 DEF Crash, Holds, Holding
  <2>3. ASSUME NEW w \in Process, Fault(w)
        PROVE  \A l \in Lead : \A v \in Process : Holds(v, l)' => Holds(v, l)
    <3>1. /\ pc[w] \in Holding
          /\ \E p : pc' = [pc EXCEPT ![w] = p]
          /\ \E q : job' = [job EXCEPT ![w] = q]
          /\ job'[w] = job[w] \/ pc'[w] \notin Holding
        BY <2>3 DEF Fault, Goto, Leave, Holding, Inv, TypeOK
    <3>2. \A v \in Process \ {w} : \A l : Holds(v, l)' <=> Holds(v, l)
        BY <3>1, OthersHold
    <3>3. \A l : Holds(w, l)' => Holds(w, l)
        BY <3>1 DEF Holds
    <3> QED BY <3>2, <3>3
  <2> QED BY <2>1, <2>2, <2>3
<1> QED BY <1>1, <1>3, <1>4, PaidByMishap

\* A lead that is escalated is recorded next, or a fault pays for that it is not.
LEMMA PollerPaid ==
    ASSUME Inv, TypeOK', PaidInv,
           Poll \/ PollEscalations \/ Escalate \/ RecordEscalation \/ EndPoll
    PROVE  PaidInv'
<1>0. "poller" \in Process
      BY DEF Process
<1>1. CASE Poll \/ PollEscalations \/ EndPoll
  <2>1. /\ UNCHANGED <<alerts, escalations, escalated, crashes, faults, ledger, stale>>
        /\ pc["poller"] \notin {"mark", "recording"}
        /\ job' = job
        /\ \E p \in {"alerting", "escalating", "idle"} : pc' = [pc EXCEPT !["poller"] = p]
      BY <1>1 DEF Poll, PollEscalations, EndPoll, Goto, history
  <2>2. job' = [job EXCEPT !["poller"] = job["poller"]]
      BY <1>0, <2>1 DEF Inv, TypeOK
  <2>3. {"alerting", "escalating", "idle"} \cap Holding = {}
      BY DEF Holding
  <2> QED BY <1>0, <2>1, <2>2, <2>3, GoOnPaid
<1>2. CASE Escalate /\ UNCHANGED <<escalations, job, pc>>
  <2>1. UNCHANGED <<alerts, escalations, escalated, crashes, faults, ledger, stale>>
      BY <1>2 DEF Escalate
  <2> QED BY <1>2, <2>1, PaidKept DEF Holds, Marking, Recording
<1>3. CASE Escalate /\ ~UNCHANGED <<escalations, job, pc>>
  <2>1. PICK r \in batch : /\ r.lead \notin escalated
                           /\ escalations' = [escalations EXCEPT ![r.lead] = @ + 1]
                           /\ job' = [job EXCEPT !["poller"] = r.lead]
                           /\ pc' = [pc EXCEPT !["poller"] = "recording"]
      BY <1>3 DEF Escalate
  <2> DEFINE j == r.lead
  <2>2. /\ UNCHANGED <<alerts, escalated, crashes, faults, ledger, stale>>
        /\ pc["poller"] = "escalating" /\ j \in Lead
      BY <1>3 DEF Escalate, Inv, TypeOK, Row
  <2>3. /\ pc'["poller"] = "recording" /\ job'["poller"] = j
        /\ \A v \in Process \ {"poller"} : pc'[v] = pc[v] /\ job'[v] = job[v]
        /\ \A v \in Process \ {"poller"} : \A k : Holds(v, k)' <=> Holds(v, k)
      BY <1>0, <2>1, OthersHold
  <2>4. \A k : ~Holds("poller", k) /\ ~Holds("poller", k)'
      BY <2>2, <2>3 DEF Holds, Holding
  <2>5. Exclusive'
      BY <2>2, <2>3, <2>4, ExclusiveKept DEF PaidInv
  <2>6. ASSUME NEW k, Marking(k) PROVE Marking(k)'
    <3>1. PICK v \in Process : Holds(v, k) /\ pc[v] = "mark"
        BY <2>6 DEF Marking
    <3>2. Holds(v, k)' /\ pc'[v] = "mark"
        BY <2>3, <2>4, <3>1
    <3> QED BY <3>2 DEF Marking
  <2>7. crashes \in Nat /\ faults \in Nat
      BY DEF Inv, TypeOK
  <2>8. ASSUME NEW k \in Lead PROVE AlertPaid(k)'
      BY <2>2, <2>6, <2>7, AlertKept DEF PaidInv
  <2>9. ASSUME NEW k \in Lead PROVE EscalationPaid(k)'
    <3>1. EscalationPaid(k)
        BY DEF PaidInv
    <3>2. CASE k = j
      <4>1. escalations[k] <= crashes + faults + 0
          BY <2>1, <2>2, <3>1, <3>2 DEF EscalationPaid, Free, Recording
      <4>2. escalations'[k] = escalations[k] + 1 /\ escalations[k] \in Nat
          BY <2>1, <2>2, <3>2 DEF Inv, TypeOK
      <4>3. EscalationPaid(k)' <=> escalations'[k] <= crashes' + faults' + 1
          BY <2>3, <3>2 DEF EscalationPaid, Free, Recording
      <4>4. escalations'[k] <= crashes + faults + 1
          BY <2>7, <4>1, <4>2
      <4> QED BY <2>2, <4>3, <4>4
    <3>3. CASE k # j
      <4>1. escalations'[k] = escalations[k]
          BY <2>1, <3>3 DEF Inv, TypeOK
      <4>2. ~Recording(k)
          BY <2>2 DEF Recording
      <4> QED BY <2>2, <2>7, <3>1, <4>1, <4>2, EscalationKept
    <3> QED BY <3>2, <3>3
  <2> QED BY <2>5, <2>8, <2>9 DEF PaidInv
<1>4. CASE RecordEscalation
  <2>1. /\ UNCHANGED <<alerts, escalations, ledger, stale, crashes>>
        /\ pc["poller"] = "recording"
        /\ pc' = [pc EXCEPT !["poller"] = "escalating"]
        /\ job' = [job EXCEPT !["poller"] = "none"]
      BY <1>4 DEF RecordEscalation, history
  <2>2. /\ pc'["poller"] = "escalating"
        /\ \A v \in Process \ {"poller"} : pc'[v] = pc[v] /\ job'[v] = job[v]
        /\ \A v \in Process \ {"poller"} : \A k : Holds(v, k)' <=> Holds(v, k)
      BY <1>0, <2>1, OthersHold
  <2>3. \A k : ~Holds("poller", k) /\ ~Holds("poller", k)'
      BY <2>1, <2>2 DEF Holds, Holding
  <2>4. ASSUME NEW k, Marking(k) PROVE Marking(k)'
    <3>1. PICK v \in Process : Holds(v, k) /\ pc[v] = "mark"
        BY <2>4 DEF Marking
    <3>2. Holds(v, k)' /\ pc'[v] = "mark"
        BY <2>2, <2>3, <3>1
    <3> QED BY <3>2 DEF Marking
  <2>5. CASE escalated' = escalated \cup {job["poller"]} /\ faults' = faults
    <3>1. \A k \in Lead : Recording(k) => k \in escalated'
        BY <2>5 DEF Recording
    <3> QED BY <2>1, <2>2, <2>3, <2>4, <2>5, <3>1, PaidKept
  <2>6. CASE faults' = faults + 1 /\ escalated' = escalated
    <3>1. crashes \in Nat /\ faults \in Nat /\ crashes' \in Nat /\ faults' \in Nat
        BY DEF Inv, TypeOK
    <3>2. crashes' + faults' > crashes + faults
        BY <2>1, <2>6, <3>1, OneMore, Zenon
    <3> QED BY <2>1, <2>2, <2>3, <2>6, <3>2, PaidByMishap
  <2> QED BY <1>4, <2>5, <2>6 DEF RecordEscalation
<1> QED BY <1>1, <1>2, <1>3, <1>4

LEMMA LeadPaid ==
    ASSUME Inv, TypeOK', PaidInv, NEW l \in Lead, LeadStep(l)
    PROVE  PaidInv'
<1>1. /\ UNCHANGED <<alerts, escalations, escalated, crashes, faults, ledger, stale>>
      /\ UNCHANGED <<pc, job>>
      BY DEF LeadStep, AssignLead, DraftOwner, SetOwner, Activate, Update, process, history
<1> QED BY <1>1, PaidKept DEF Holds, Marking, Recording

\* A row gets stale when nobody holds it.
LEMMA StalePaid ==
    ASSUME Inv, TypeOK', PaidInv, PromptSenders, NEW l \in Lead, GetStale(l)
    PROVE  PaidInv'
<1>1. /\ UNCHANGED <<alerts, escalations, escalated, crashes, faults, ledger>>
      /\ UNCHANGED <<pc, job>>
      /\ stale' = stale \cup {l} /\ \A w \in Process : ~Holds(w, l)
      BY DEF GetStale, process, history
<1>2. \A k \in Lead : \A w \in Process :
         Holds(w, k)' => Holds(w, k) /\ ledger'[k] = ledger[k] /\ (k \in stale' => k \in stale)
      BY <1>1 DEF Holds
<1> QED BY <1>1, <1>2, PaidKept DEF Holds, Marking, Recording

LEMMA PaidStep == PromptSenders /\ Inv /\ PaidInv /\ [Next]_vars => PaidInv'
<1> SUFFICES ASSUME PromptSenders, Inv, PaidInv, [Next]_vars PROVE PaidInv'
    OBVIOUS
<1>1. TypeOK'
      BY InvStep DEF Inv
<1>2. CASE UNCHANGED vars
  <2>1. /\ UNCHANGED <<alerts, escalations, escalated, crashes, faults, ledger, stale>>
        /\ UNCHANGED <<pc, job>>
      BY <1>2 DEF vars
  <2> QED BY <1>1, <2>1, PaidKept DEF Holds, Marking, Recording
<1>3. CASE Next
      BY <1>1, <1>3, LeadPaid, StalePaid, ClaimsPaid, FetchPaid, SendPaid, EndPaid,
         MishapsPaid, PollerPaid DEF Next, Step, PollerStep
<1> QED BY <1>2, <1>3

LEMMA PaidInit == Init => PaidInv
<1> SUFFICES ASSUME Init PROVE PaidInv
    OBVIOUS
<1>1. \A w \in Process : \A l : ~Holds(w, l)
      BY DEF Init, Holds, Holding
<1>2. \A l \in Lead : Len(alerts[l]) = 0 /\ escalations[l] = 0
      BY DEF Init
<1>3. crashes = 0 /\ faults = 0
      BY DEF Init
<1>4. \A l \in Lead : AlertPaid(l) /\ EscalationPaid(l)
      BY <1>2, <1>3 DEF AlertPaid, EscalationPaid, Free
<1> QED BY <1>1, <1>4 DEF PaidInv, Exclusive, HeldFresh, HeldOnce

\* Of the claim on the ledger, the mark and the release, and of the escalation,
\* which is recorded after it is sent: if a claim is marked or released within
\* the five minutes after which it counts as left behind, a worker is alerted
\* about a lead once, and once more at most for each crash and each failure.
THEOREM AlertsArePaidFor == ASSUME PromptSenders PROVE Spec => []AlertsPaidFor
<1>1. Inv /\ PaidInv => AlertsPaidFor
  <2> SUFFICES ASSUME Inv, PaidInv, NEW l \in Lead
               PROVE  /\ Len(alerts[l]) <= 1 + crashes + faults
                      /\ escalations[l] <= 1 + crashes + faults
      BY DEF AlertsPaidFor
  <2> DEFINE n == Len(alerts[l])
             a == Free(ledger[l] = "SENT" \/ Marking(l))
             b == Free(l \in escalated \/ Recording(l))
  <2>1. alerts[l] \in Seq(User) /\ escalations[l] \in Nat /\ crashes \in Nat /\ faults \in Nat
      BY DEF Inv, TypeOK
  <2>2. n \in Nat /\ a \in {0, 1} /\ b \in {0, 1}
      BY <2>1 DEF Free
  <2>3. n <= crashes + faults + a /\ escalations[l] <= crashes + faults + b
      BY DEF PaidInv, AlertPaid, EscalationPaid
  <2> HIDE DEF n, a, b
  <2>4. n <= 1 + crashes + faults /\ escalations[l] <= 1 + crashes + faults
      BY <2>1, <2>2, <2>3
  <2> QED BY <2>4 DEF n
<1>2. Init => PaidInv
      BY PaidInit
<1>3. Inv /\ PaidInv /\ [Next]_vars => PaidInv'
      BY PaidStep
<1> QED BY <1>1, <1>2, <1>3, Invariance, PTL DEF Spec
=============================================================================
