------------------------------- MODULE Outbound -------------------------------
(***************************************************************************)
(* The Green API transport, seen from one phone.  A prompt with options is *)
(* sent as numbered text, and which command each number stands for is kept *)
(* in "PendingChoice", one row per phone.  Before a message goes out, the  *)
(* preflight asks whether the instance and the phone's socket are up, from *)
(* a snapshot not older than 30 seconds if it has one.  Green API accepts  *)
(* a message while the socket is down and keeps it in a queue.             *)
(*                                                                         *)
(* The user answers the last prompt on his screen with a number; the       *)
(* webhook turns the number into a command and enqueues it.  Webhooks are  *)
(* delivered again after a crash, and sometimes for no reason.             *)
(***************************************************************************)
EXTENDS Naturals, Sequences, FiniteSets

CONSTANTS
    Prompt,       \* numbered prompts sent to the phone, each once
    None,         \* no prompt
    MaxChanges,   \* bound: changes of the phone's socket
    MaxFaults,    \* bound: requests and queries that fail
    MaxRepeats,   \* bound: repeated or interrupted webhooks
    MaxExpiries   \* bound: choices that get older than 60 minutes

MaxAttempts == 3

ASSUME OutboundAssumption ==
    /\ None \notin Prompt \cup {"digit", "sent"}
    /\ Prompt \cap {"digit", "sent"} = {}
    /\ {MaxChanges, MaxFaults, MaxRepeats, MaxExpiries} \subseteq Nat

VARIABLES
    up,         \* messages can be delivered: state and socket are good
    snapshot,   \* lastSnapshot: "none", "good" or "bad"; expired means "none"
    flight,     \* a live check is in flight (inFlight)
    pc,         \* pc[p]: where the sending of p is
    tries,      \* tries[p]: attempts made to post p
    logged,     \* prompts with a row in the dead-letter log
    queue,      \* copies accepted by Green API and not yet delivered
    screen,     \* copies delivered, in order
    choice,     \* the prompt whose options "PendingChoice" holds
    saved,      \* prompts in the order their options were saved
    answered,   \* prompts the user has answered
    hook,       \* hook[p]: the text under way in the webhooks of the answer
    stored,     \* stored[p]: the text of the answer in the inbound queue
    changes, faults, repeats, expiries

sender  == <<pc, tries, logged>>
reply   == <<answered, hook, stored>>
check   == <<snapshot, flight>>
budget  == <<changes, faults, repeats, expiries>>
vars    == <<up, snapshot, flight, pc, tries, logged, queue, screen, choice,
             saved, answered, hook, stored, changes, faults, repeats, expiries>>

\* A text is the command of a prompt, or the bare digit.
Text == Prompt \cup {"digit"}

Init ==
    /\ up \in BOOLEAN
    /\ snapshot = "none"
    /\ flight = FALSE
    /\ pc = [p \in Prompt |-> "new"]
    /\ tries = [p \in Prompt |-> 0]
    /\ logged = {}
    /\ queue = <<>>
    /\ screen = <<>>
    /\ choice = None
    /\ saved = <<>>
    /\ answered = {}
    /\ hook = [p \in Prompt |-> {}]
    /\ stored = [p \in Prompt |-> None]
    /\ changes = 0
    /\ faults = 0
    /\ repeats = 0
    /\ expiries = 0

Fault == faults < MaxFaults /\ faults' = faults + 1

Goto(p, l) == pc' = [pc EXCEPT ![p] = l]

-----------------------------------------------------------------------------
(* Sending.                                                                *)

\* Mutant: an unanswered mapping is kept.
KeepChoice(p) ==
    /\ choice' = IF choice = None THEN p ELSE choice
    /\ saved' = Append(saved, p)

\* savePendingChoice: the newest mapping replaces the older one.
SaveChoice(p) ==
    /\ choice' = p
    /\ saved' = Append(saved, p)

\* sendNumbered saves the mapping first; if that fails the prompt goes out
\* all the same.
SendNumbered(p) ==
    /\ pc[p] = "new"
    /\ \/ SaveChoice(p) /\ UNCHANGED faults
       \/ Fault /\ UNCHANGED <<choice, saved>>
    /\ Goto(p, "check")
    /\ UNCHANGED <<up, check, tries, logged, queue, screen, reply, changes, repeats,
                   expiries>>

\* The kill switch of sender.ts: nothing is saved or sent, and the caller reads
\* null, as from a message that was.
Suppress(p) ==
    /\ pc[p] = "new"
    /\ Goto(p, "blocked")
    /\ UNCHANGED <<up, check, tries, logged, queue, screen, choice, saved, reply,
                   budget>>

\* decide: a bad state of the instance and an offline socket block the send,
\* which resolves with null.
Decide(p, good) == Goto(p, IF good THEN "post" ELSE "blocked")

\* checkOutboundHealth with a snapshot that is fresh.
CheckCached(p) ==
    /\ pc[p] = "check"
    /\ snapshot # "none"
    /\ Decide(p, snapshot = "good")
    /\ UNCHANGED <<up, check, tries, logged, queue, screen, choice, saved, reply,
                   budget>>

\* Without one, start a live check or join the one in flight.
CheckLive(p) ==
    /\ pc[p] = "check"
    /\ snapshot = "none"
    /\ flight' = TRUE
    /\ Goto(p, "wait")
    /\ UNCHANGED <<up, snapshot, tries, logged, queue, screen, choice, saved, reply,
                   budget>>

Waiting == {p \in Prompt : pc[p] = "wait"}

\* fetchLive answers all who wait for it, one after the other and with
\* nothing in between; if it fails they all send (fail open).
FetchLive ==
    /\ flight
    /\ flight' = FALSE
    /\ \/ /\ snapshot' = IF up THEN "good" ELSE "bad"
          /\ pc' = [p \in Prompt |-> IF p \notin Waiting THEN pc[p]
                                     ELSE IF up THEN "post" ELSE "blocked"]
          /\ UNCHANGED faults
       \/ /\ Fault
          /\ pc' = [p \in Prompt |-> IF p \in Waiting THEN "post" ELSE pc[p]]
          /\ UNCHANGED snapshot
    /\ UNCHANGED <<up, tries, logged, queue, screen, choice, saved, reply, changes,
                   repeats, expiries>>

\* CACHE_TTL_MS
ExpireSnapshot ==
    /\ snapshot # "none"
    /\ snapshot' = "none"
    /\ UNCHANGED <<up, flight, sender, queue, screen, choice, saved, reply, budget>>

\* Mutants: every error is tried again, for ever; the failure is thrown
\* without a row in the dead-letter log.
NeverGivesUp(p)  == FALSE
RejectUnlogged(p) ==
    /\ pc[p] = "log"
    /\ Goto(p, "rejected")
    /\ UNCHANGED <<up, check, tries, logged, queue, screen, choice, saved, reply,
                   budget>>

GivesUp(p) == tries[p] + 1 = MaxAttempts

\* writeSendFailure, which swallows an error of its own; then the error of the
\* send goes to the caller.
Reject(p) ==
    /\ pc[p] = "log"
    /\ Goto(p, "rejected")
    /\ \/ logged' = logged \cup {p} /\ UNCHANGED faults
       \/ Fault /\ UNCHANGED logged
    /\ UNCHANGED <<up, check, tries, queue, screen, choice, saved, reply, changes,
                   repeats, expiries>>

\* postJson succeeds: the message is accepted, whether it can be delivered
\* or not.
Post(p) ==
    /\ pc[p] = "post"
    /\ tries' = [tries EXCEPT ![p] = @ + 1]
    /\ queue' = Append(queue, p)
    /\ Goto(p, "resolved")
    /\ UNCHANGED <<up, check, logged, screen, choice, saved, reply, budget>>

\* It is refused, or its answer is lost: try again after a pause, or give up,
\* at once if the error is a final one.  The preflight is not asked again.
PostFails(p) ==
    /\ pc[p] = "post"
    /\ Fault
    /\ tries' = [tries EXCEPT ![p] = @ + 1]
    /\ \E q \in {queue, Append(queue, p)}, final \in BOOLEAN :
        /\ queue' = q
        /\ final => q = queue
        /\ IF final \/ GivesUp(p) THEN Goto(p, "log") ELSE UNCHANGED pc
    /\ UNCHANGED <<up, check, logged, screen, choice, saved, reply, changes, repeats,
                   expiries>>

-----------------------------------------------------------------------------
(* The phone.                                                              *)

Connection ==
    /\ changes < MaxChanges
    /\ changes' = changes + 1
    /\ up' = ~up
    /\ UNCHANGED <<check, sender, queue, screen, choice, saved, reply, faults,
                   repeats, expiries>>

Deliver ==
    /\ up
    /\ queue # <<>>
    /\ queue' = Tail(queue)
    /\ screen' = Append(screen, Head(queue))
    /\ UNCHANGED <<up, check, sender, choice, saved, reply, budget>>

\* The user answers the prompt he saw last, with a number it offers.
Answer ==
    /\ screen # <<>>
    /\ LET p == screen[Len(screen)]
       IN /\ p \notin answered
          /\ answered' = answered \cup {p}
          /\ hook' = [hook EXCEPT ![p] = {"sent"}]
    /\ UNCHANGED <<up, check, sender, queue, screen, choice, saved, stored, budget>>

-----------------------------------------------------------------------------
(* The webhook of an answer.                                               *)

\* The same notification is delivered once more, beside a first or later.
Redeliver(p) ==
    /\ p \in answered
    /\ repeats < MaxRepeats
    /\ repeats' = repeats + 1
    /\ hook' = [hook EXCEPT ![p] = @ \cup {"sent"}]
    /\ UNCHANGED <<up, check, sender, queue, screen, choice, saved, answered, stored,
                   changes, faults, expiries>>

\* Mutant: the row is read and stays.
ReadChoice(p) ==
    /\ hook' = [hook EXCEPT ![p] = (@ \ {"sent"})
                  \cup {IF choice = None THEN "digit" ELSE choice}]
    /\ UNCHANGED <<choice, faults>>

\* resolvePendingChoice is one DELETE ... RETURNING; without a fresh row, or
\* when it fails, the digit is taken as it is.
ResolveChoice(p) ==
    \/ /\ hook' = [hook EXCEPT ![p] = (@ \ {"sent"})
                     \cup {IF choice = None THEN "digit" ELSE choice}]
       /\ choice' = None
       /\ UNCHANGED faults
    \/ /\ Fault
       /\ hook' = [hook EXCEPT ![p] = (@ \ {"sent"}) \cup {"digit"}]
       /\ UNCHANGED choice

Resolve(p) ==
    /\ "sent" \in hook[p]
    /\ ResolveChoice(p)
    /\ UNCHANGED <<up, check, sender, queue, screen, saved, answered, stored, changes,
                   repeats, expiries>>

\* enqueueInbound: the id of the message is the key, the first text stays.
Enqueue(p) ==
    \E t \in hook[p] \ {"sent"} :
        /\ hook' = [hook EXCEPT ![p] = @ \ {t}]
        /\ stored' = [stored EXCEPT ![p] = IF @ = None THEN t ELSE @]
        /\ UNCHANGED <<up, check, sender, queue, screen, choice, saved, answered,
                       budget>>

\* The process dies between the two; Green API, without an answer, delivers
\* the notification again.
Interrupt(p) ==
    /\ repeats < MaxRepeats
    /\ repeats' = repeats + 1
    /\ \E t \in hook[p] \ {"sent"} :
         hook' = [hook EXCEPT ![p] = (@ \ {t}) \cup {"sent"}]
    /\ UNCHANGED <<up, check, sender, queue, screen, choice, saved, answered, stored,
                   changes, faults, expiries>>

\* PENDING_CHOICE_TTL_MINUTES
ExpireChoice ==
    /\ choice # None
    /\ expiries < MaxExpiries
    /\ expiries' = expiries + 1
    /\ choice' = None
    /\ UNCHANGED <<up, check, sender, queue, screen, saved, reply, changes, faults,
                   repeats>>

-----------------------------------------------------------------------------
Next ==
    \/ \E p \in Prompt :
         \/ SendNumbered(p) \/ Suppress(p) \/ CheckCached(p) \/ CheckLive(p) \/ Post(p)
         \/ PostFails(p) \/ Reject(p)
         \/ Redeliver(p) \/ Resolve(p) \/ Enqueue(p) \/ Interrupt(p)
    \/ FetchLive \/ ExpireSnapshot
    \/ Connection \/ Deliver \/ Answer \/ ExpireChoice

Spec == Init /\ [][Next]_vars

-----------------------------------------------------------------------------
(* Properties                                                              *)

IsIn(p, seq) == \E k \in 1 .. Len(seq) : seq[k] = p
Copies(p) == Cardinality({k \in 1 .. Len(queue) : queue[k] = p})
             + Cardinality({k \in 1 .. Len(screen) : screen[k] = p})

\* Every variable has the type its declaration says.
TypeOK ==
    /\ up \in BOOLEAN
    /\ snapshot \in {"none", "good", "bad"}
    /\ flight \in BOOLEAN
    /\ pc \in [Prompt -> {"new", "check", "wait", "post", "log", "resolved",
                          "blocked", "rejected"}]
    /\ tries \in [Prompt -> 0 .. MaxAttempts]
    /\ logged \subseteq Prompt
    /\ queue \in Seq(Prompt)
    /\ screen \in Seq(Prompt)
    /\ choice \in Prompt \cup {None}
    /\ saved \in Seq(Prompt)
    /\ answered \subseteq Prompt
    /\ hook \in [Prompt -> SUBSET (Text \cup {"sent"})]
    /\ stored \in [Prompt -> Text \cup {None}]
    /\ changes \in Nat /\ faults \in Nat /\ repeats \in Nat /\ expiries \in Nat

\* A caller was told of a failure that left no row in the dead-letter log.
Unlogged(p) == IF pc[p] = "rejected" /\ p \notin logged THEN 1 ELSE 0

\* The user reads a prompt twice only on account of an answer of Green API
\* that was lost; what the preflight blocked he never reads.  A caller is told
\* of a failure only after one, and finds it logged unless the INSERT of the
\* log failed as well: each fault pays for one copy, or for one row that is
\* missing.
CopiesPaidFor ==
    \A p \in Prompt :
        /\ Copies(p) <= 1 + faults
        /\ pc[p] = "blocked" => Copies(p) = 0
        /\ pc[p] = "rejected" => faults > 0 /\ Copies(p) + Unlogged(p) <= faults

SavedAfter(p, q) ==
    \E j, k \in 1 .. Len(saved) : saved[j] = p /\ saved[k] = q /\ j < k

NeverOlder ==
    \A p, q \in Prompt :
        stored[p] = q /\ q # p => SavedAfter(p, q) \/ ~IsIn(p, saved)

UsedOnce ==
    \A p, q \in Prompt : stored[p] \in Prompt /\ stored[p] = stored[q] => p = q

BareDigitPaidFor ==
    \A p \in Prompt :
        stored[p] = "digit" =>
            \/ faults + repeats + expiries > 0
            \/ \E q \in Prompt \ {p} :
                 SavedAfter(p, q) \/ stored[q] = p \/ p \in hook[q]

\* A number the user types never becomes the command of an older prompt than
\* the one he answered, and no prompt's command is carried out twice.  A
\* number that reaches the router as it was typed met a second delivery, an
\* interruption, a failed query, an expiry, a newer prompt whose options
\* took the place of those it meant, or the answer to another prompt, which
\* was given these options.
AnswersResolve == NeverOlder /\ UsedOnce /\ BareDigitPaidFor
=============================================================================
