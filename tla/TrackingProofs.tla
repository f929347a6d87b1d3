----------------------------- MODULE TrackingProofs -----------------------------
(***************************************************************************)
(* From the worker's phone to the customer's, for any numbers of workers,  *)
(* visits, handlers, messages, crashes, pauses, fixes, failures, lost      *)
(* answers, polls at once and restarts, any lifetime, ways and speeds.     *)
(*                                                                         *)
(* Live tracking: the types, that nobody is followed on two trips, that no *)
(* customer is told twice, and that of the visits nobody is to settle any  *)
(* more, the sessions that disagree with the status are at most as many as *)
(* the statements lost.                                                    *)
(*                                                                         *)
(* The page never asks more often than the customer comes to it; and while *)
(* he stays, it shows the worker go back only on account of a time-out.    *)
(* Polls under way and timers together are a single budget: a timer that   *)
(* fires becomes a poll, a poll that is answered becomes a timer at most, an *)
(* overwritten timer stays counted as an orphan, and only a return to the  *)
(* page starts one more.  So a page nobody returned to has its polls one   *)
(* after the other, and what makes it go back is a request the phone gave up *)
(* and the server served late: each is counted once, from the time-out to  *)
(* the poll that shows it.                                                 *)
(*                                                                         *)
(* The minutes never fall because time went by.  Every number composed is at *)
(* least Uncapped of what it came from, which does not depend on progress or *)
(* on the number before, and is Uncapped unless the worker was slow or the *)
(* cap held it up.                                                         *)
(***************************************************************************)
EXTENDS LiveTracking, TrackingPage, TrackingEta, FiniteSetTheorems, SequenceTheorems, TLAPS

-----------------------------------------------------------------------------
(* Finite sets.                                                            *)

\* A set that is at most what it was.
LEMMA AtMost ==
    ASSUME NEW S, NEW T, IsFiniteSet(S), T \subseteq S
    PROVE  IsFiniteSet(T) /\ Cardinality(T) <= Cardinality(S)
           /\ Cardinality(T) \in Nat /\ Cardinality(S) \in Nat
  BY FS_Subset, FS_CardinalityType

\* A set that gains one member.
LEMMA OneMore ==
    ASSUME NEW S, NEW T, NEW x, IsFiniteSet(S), T \subseteq S \cup {x}
    PROVE  IsFiniteSet(T) /\ Cardinality(T) <= Cardinality(S) + 1
           /\ Cardinality(T) \in Nat /\ Cardinality(S) \in Nat
<1>1. IsFiniteSet(S \cup {x}) /\ Cardinality(S \cup {x}) <= Cardinality(S) + 1
      /\ Cardinality(S) \in Nat
  BY FS_AddElement, FS_CardinalityType
<1> QED BY <1>1, AtMost

\* A set that loses one member.
LEMMA OneLess ==
    ASSUME NEW S, NEW T, NEW x \in S, IsFiniteSet(S), T \subseteq S \ {x}
    PROVE  IsFiniteSet(T) /\ Cardinality(T) <= Cardinality(S) - 1
           /\ Cardinality(T) \in Nat /\ Cardinality(S) \in Nat
<1>1. IsFiniteSet(S \ {x}) /\ Cardinality(S \ {x}) = Cardinality(S) - 1
      /\ Cardinality(S) \in Nat
  BY FS_RemoveElement, FS_CardinalityType
<1> QED BY <1>1, AtMost

USE LiveTrackingAssumption

-----------------------------------------------------------------------------
(***************************************************************************)
(* Live tracking.                                                          *)
(***************************************************************************)

-----------------------------------------------------------------------------
(* Sessions.  A row of TrackingSession is never removed, and never passes  *)
(* to another worker or visit.                                             *)

SameTrips(n, t) ==
    /\ t \in Seq(Session)
    /\ Len(t) = n
    /\ \A s \in 1 .. n : t[s].worker = sess[s].worker /\ t[s].field = sess[s].field

\* The UPDATEs of the status change the status of the rows they find.
LEMMA SetStatusSessions ==
    ASSUME sess \in Seq(Session), NEW S, NEW t \in SessionStatus
    PROVE  /\ SameTrips(Len(sess), SetStatus(S, t))
           /\ \A s \in 1 .. Len(sess) :
                 SetStatus(S, t)[s].status = IF s \in S THEN t ELSE sess[s].status
<1>0. ASSUME NEW r \in Session
      PROVE  /\ [r EXCEPT !.status = t] \in Session
             /\ [r EXCEPT !.status = t].status = t
             /\ [r EXCEPT !.status = t].worker = r.worker
             /\ [r EXCEPT !.status = t].field = r.field
      BY DEF Session
<1>00. DOMAIN sess = 1 .. Len(sess) /\ \A s \in 1 .. Len(sess) : sess[s] \in Session
      OBVIOUS
<1>1. SetStatus(S, t) \in [1 .. Len(sess) -> Session]
  <2>1. \A s \in 1 .. Len(sess) :
           (IF s \in S THEN [sess[s] EXCEPT !.status = t] ELSE sess[s]) \in Session
        BY <1>0, <1>00
  <2> QED BY <1>00, <2>1 DEF SetStatus
<1>2. Len(sess) \in Nat
      OBVIOUS
<1>3. SetStatus(S, t) \in Seq(Session)
      BY <1>1, <1>2, SeqDef
<1>4. Len(SetStatus(S, t)) = Len(sess)
      BY <1>1, <1>2, <1>3, LenProperties
<1>5. \A s \in 1 .. Len(sess) :
         SetStatus(S, t)[s] = IF s \in S THEN [sess[s] EXCEPT !.status = t] ELSE sess[s]
      BY <1>00 DEF SetStatus
<1> QED BY <1>0, <1>00, <1>3, <1>4, <1>5 DEF SameTrips

-----------------------------------------------------------------------------
(* Types.                                                                  *)

\* What a handler in the middle of a message knows.
Serving ==
    \A h \in Handler :
        /\ pc[h] # "idle" => msg[h] \in Message
        /\ pc[h] = "track" => msg[h].op \in {"ARRIVED", "FINISHED", "DECLINE"}
        /\ \A s \in snap[h] : pc[h] # "idle" /\ sess[s].worker = msg[h].worker

TInv == TypeOK /\ Serving

\* The steps that leave sess alone keep the types if they keep those of what
\* they write.
LEMMA GotoType ==
    ASSUME TInv, NEW h \in Handler, NEW p \in Pc, Goto(h, p),
           p # "idle" => msg[h] \in Message,
           p = "track" => msg[h].op \in {"ARRIVED", "FINISHED", "DECLINE"}
    PROVE  /\ pc' \in [Handler -> Pc]
           /\ msg' \in [Handler -> Message \cup {NoMessage}]
           /\ snap' \in [Handler -> SUBSET (DOMAIN sess)]
           /\ \A g \in Handler :
                 /\ pc'[g] # "idle" => msg'[g] \in Message
                 /\ pc'[g] = "track" => msg'[g].op \in {"ARRIVED", "FINISHED", "DECLINE"}
                 /\ \A s \in snap'[g] : pc'[g] # "idle" /\ sess[s].worker = msg'[g].worker
<1>1. /\ pc' = [pc EXCEPT ![h] = p]
      /\ msg' = IF p = "idle" THEN [msg EXCEPT ![h] = NoMessage] ELSE msg
      /\ snap' = [snap EXCEPT ![h] = {}]
      BY DEF Goto
<1>2. /\ pc \in [Handler -> Pc]
      /\ msg \in [Handler -> Message \cup {NoMessage}]
      /\ snap \in [Handler -> SUBSET (DOMAIN sess)]
      BY DEF TInv, TypeOK
<1>3. /\ pc' \in [Handler -> Pc]
      /\ msg' \in [Handler -> Message \cup {NoMessage}]
      /\ snap' \in [Handler -> SUBSET (DOMAIN sess)]
      BY <1>1, <1>2
<1>4. ASSUME NEW g \in Handler
      PROVE  /\ pc'[g] # "idle" => msg'[g] \in Message
             /\ pc'[g] = "track" => msg'[g].op \in {"ARRIVED", "FINISHED", "DECLINE"}
             /\ \A s \in snap'[g] : pc'[g] # "idle" /\ sess[s].worker = msg'[g].worker
  <2>1. CASE g = h
        BY <1>1, <1>2, <2>1
  <2>2. CASE g # h
    <3>1. pc'[g] = pc[g] /\ msg'[g] = msg[g] /\ snap'[g] = snap[g]
          BY <1>1, <1>2, <2>2
    <3> QED BY <3>1 DEF TInv, Serving
  <2> QED BY <2>1, <2>2
<1> QED BY <1>3, <1>4

LEMMA InitType == Init => TInv
<1> SUFFICES ASSUME Init PROVE TInv
    OBVIOUS
<1>1. sess \in Seq(Session) /\ links \in [Field -> Seq({0} \cup DOMAIN sess)]
      BY DEF Init
<1> QED BY <1>1 DEF Init, TInv, TypeOK, Serving, FieldStatus, Pc, Message, NoMessage

\* A step that changes sess only by appending and by changing statuses keeps
\* what refers to it.
LEMMA ReferencesKept ==
    ASSUME TInv, NEW n \in Nat, n >= Len(sess),
           sess' \in Seq(Session), Len(sess') = n,
           \A s \in 1 .. Len(sess) : sess'[s].worker = sess[s].worker
    PROVE  /\ links \in [Field -> Seq({0} \cup DOMAIN sess')]
           /\ \A S \in SUBSET (DOMAIN sess) : S \subseteq DOMAIN sess'
           /\ \A g \in Handler : \A s \in snap[g] : sess'[s].worker = sess[s].worker
<1>1. DOMAIN sess = 1 .. Len(sess) /\ DOMAIN sess' = 1 .. n /\ Len(sess) \in Nat
      BY DEF TInv, TypeOK
<1>2. DOMAIN sess \subseteq DOMAIN sess'
      BY <1>1
<1>3. links \in [Field -> Seq({0} \cup DOMAIN sess)] /\ snap \in [Handler -> SUBSET (DOMAIN sess)]
      BY DEF TInv, TypeOK
<1>4. ASSUME NEW f \in Field PROVE links[f] \in Seq({0} \cup DOMAIN sess')
  <2>1. links[f] \in Seq({0} \cup DOMAIN sess)
        BY <1>3
  <2>2. \A i \in 1 .. Len(links[f]) : links[f][i] \in {0} \cup DOMAIN sess'
        BY <1>2, <2>1
  <2>3. links[f] \in [1 .. Len(links[f]) -> {0} \cup DOMAIN sess'] /\ Len(links[f]) \in Nat
        BY <2>1, <2>2, LenProperties
  <2> QED BY <2>3, SeqDef
<1> QED BY <1>1, <1>2, <1>3, <1>4

\* A step of handler h to p that leaves sess, notified and links alone.
LEMMA ControlType ==
    ASSUME TInv, NEW h \in Handler, NEW p \in Pc, Goto(h, p),
           p # "idle" => msg[h] \in Message,
           p = "track" => msg[h].op \in {"ARRIVED", "FINISHED", "DECLINE"},
           UNCHANGED <<sess, links>>, fieldStatus' \in [Field -> FieldStatus],
           notified' \subseteq Field, \A n \in {messages, crashes, faults, untracked}' : n \in Nat
    PROVE  TInv'
<1>1. /\ pc' \in [Handler -> Pc]
      /\ msg' \in [Handler -> Message \cup {NoMessage}]
      /\ snap' \in [Handler -> SUBSET (DOMAIN sess)]
      /\ \A g \in Handler :
            /\ pc'[g] # "idle" => msg'[g] \in Message
            /\ pc'[g] = "track" => msg'[g].op \in {"ARRIVED", "FINISHED", "DECLINE"}
            /\ \A s \in snap'[g] : pc'[g] # "idle" /\ sess[s].worker = msg'[g].worker
      BY GotoType
<1>2. sess' = sess /\ links' = links
      OBVIOUS
<1>3. TypeOK'
      BY <1>1, <1>2 DEF TInv, TypeOK
<1>4. Serving'
      BY <1>1, <1>2 DEF Serving
<1> QED BY <1>3, <1>4 DEF TInv

\* A step of handler h to p that changes the sessions.
LEMMA SessionType ==
    ASSUME TInv, NEW h \in Handler, NEW p \in {"idle", "write"}, Goto(h, p),
           p # "idle" => msg[h] \in Message,
           NEW n \in Nat, n >= Len(sess), sess' \in Seq(Session), Len(sess') = n,
           \A s \in 1 .. Len(sess) : sess'[s].worker = sess[s].worker,
           UNCHANGED <<fieldStatus, notified, links, bounds>>
    PROVE  TInv'
<1>0. p \in Pc /\ p # "track"
      BY DEF Pc
<1>1. /\ pc' \in [Handler -> Pc]
      /\ msg' \in [Handler -> Message \cup {NoMessage}]
      /\ snap' \in [Handler -> SUBSET (DOMAIN sess)]
      /\ \A g \in Handler :
            /\ pc'[g] # "idle" => msg'[g] \in Message
            /\ pc'[g] = "track" => msg'[g].op \in {"ARRIVED", "FINISHED", "DECLINE"}
            /\ \A s \in snap'[g] : pc'[g] # "idle" /\ sess[s].worker = msg'[g].worker
      BY <1>0, GotoType
<1>2. /\ links \in [Field -> Seq({0} \cup DOMAIN sess')]
      /\ \A S \in SUBSET (DOMAIN sess) : S \subseteq DOMAIN sess'
      BY ReferencesKept
<1>3. \A g \in Handler : snap'[g] \subseteq DOMAIN sess /\ snap'[g] \subseteq DOMAIN sess'
      BY <1>1, <1>2
<1>4. DOMAIN sess = 1 .. Len(sess)
      BY DEF TInv, TypeOK
<1>5. TypeOK'
  <2>1. snap' \in [Handler -> SUBSET (DOMAIN sess')]
        BY <1>1, <1>3
  <2>2. UNCHANGED <<fieldStatus, notified, links, messages, crashes, faults, untracked>>
        BY DEF bounds
  <2> QED BY <1>1, <1>2, <2>1, <2>2 DEF TInv, TypeOK
<1>6. Serving'
      BY <1>1, <1>3, <1>4 DEF Serving
<1> QED BY <1>5, <1>6 DEF TInv

\* The sessions after OpenCommit.
Opened(h) ==
    Append(SetStatus(OpenOf(msg[h].worker), "SUPERSEDED"),
           [worker |-> msg[h].worker, field |-> msg[h].field, status |-> "ACTIVE"])

LEMMA OpenedSessions ==
    ASSUME TInv, NEW h \in Handler, msg[h] \in Message
    PROVE  /\ Opened(h) \in Seq(Session)
           /\ Len(Opened(h)) = Len(sess) + 1
           /\ Opened(h)[Len(sess) + 1] = [worker |-> msg[h].worker, field |-> msg[h].field,
                                          status |-> "ACTIVE"]
           /\ \A s \in 1 .. Len(sess) :
                 /\ Opened(h)[s].worker = sess[s].worker
                 /\ Opened(h)[s].field = sess[s].field
                 /\ Opened(h)[s].status = IF s \in OpenOf(msg[h].worker) THEN "SUPERSEDED"
                                          ELSE sess[s].status
<1> DEFINE t == SetStatus(OpenOf(msg[h].worker), "SUPERSEDED")
           r == [worker |-> msg[h].worker, field |-> msg[h].field, status |-> "ACTIVE"]
<1>1. sess \in Seq(Session) /\ "SUPERSEDED" \in SessionStatus
      BY DEF TInv, TypeOK, SessionStatus
<1>2. /\ t \in Seq(Session) /\ Len(t) = Len(sess)
      /\ \A s \in 1 .. Len(sess) :
            /\ t[s].worker = sess[s].worker /\ t[s].field = sess[s].field
            /\ t[s].status = IF s \in OpenOf(msg[h].worker) THEN "SUPERSEDED" ELSE sess[s].status
      BY <1>1, SetStatusSessions DEF SameTrips
<1>3. r \in Session
      BY DEF Session, SessionStatus, Message
<1>4. Opened(h) = Append(t, r)
      BY DEF Opened
<1> HIDE DEF t, r
<1>5. Len(sess) \in Nat
      BY <1>1
<1>6. /\ Append(t, r) \in Seq(Session)
      /\ Len(Append(t, r)) = Len(sess) + 1
      /\ Append(t, r)[Len(sess) + 1] = r
      /\ \A s \in 1 .. Len(sess) : Append(t, r)[s] = t[s]
      BY <1>2, <1>3, <1>5
<1> QED BY <1>2, <1>4, <1>6 DEF r

\* The session after an arrival, an end or a decline: nothing new is open.
LEMMA TrackedSessions ==
    ASSUME TInv, NEW h \in Handler, Track(h)
    PROVE  /\ SameTrips(Len(sess), sess')
           /\ \A s \in 1 .. Len(sess) : IsOpen(s)' => IsOpen(s)
<1>1. msg[h].op \in {"ARRIVED", "FINISHED", "DECLINE"} /\ sess \in Seq(Session)
      BY DEF Track, TInv, Serving, TypeOK
<1>2. PICK S, t : /\ t \in {"ARRIVED", "FINISHED", "CANCELED"}
                  /\ sess' = SetStatus(S, t)
                  /\ \A s \in S : IsOpen(s)
  <2>1. CASE msg[h].op = "ARRIVED"
    <3> DEFINE S == {s \in OpenOn(msg[h].field) : sess[s].status = "ACTIVE"}
    <3>1. sess' = SetStatus(S, "ARRIVED") /\ \A s \in S : IsOpen(s)
          BY <2>1 DEF Track, markArrived, OpenOn
    <3> QED BY <3>1
  <2>2. CASE msg[h].op = "FINISHED"
    <3>1. /\ sess' = SetStatus(OpenOn(msg[h].field), "FINISHED")
          /\ \A s \in OpenOn(msg[h].field) : IsOpen(s)
          BY <2>2 DEF Track, closeSession, OpenOn
    <3> QED BY <3>1
  <2>3. CASE msg[h].op = "DECLINE"
    <3>1. /\ sess' = SetStatus(OpenOn(msg[h].field), "CANCELED")
          /\ \A s \in OpenOn(msg[h].field) : IsOpen(s)
          BY <2>3 DEF Track, closeSession, OpenOn
    <3> QED BY <3>1
  <2> QED BY <1>1, <2>1, <2>2, <2>3
<1>3. t \in SessionStatus
      BY <1>2 DEF SessionStatus
<1>4. /\ SameTrips(Len(sess), sess')
      /\ \A s \in 1 .. Len(sess) : sess'[s].status = IF s \in S THEN t ELSE sess[s].status
      BY <1>1, <1>2, <1>3, SetStatusSessions
<1>5. \A s \in 1 .. Len(sess) : IsOpen(s)' => IsOpen(s)
      BY <1>2, <1>4 DEF IsOpen
<1> QED BY <1>4, <1>5

LEMMA NextType == TInv /\ [Next]_vars => TInv'
<1> SUFFICES ASSUME TInv, [Next]_vars PROVE TInv'
    OBVIOUS
<1>0. /\ sess \in Seq(Session) /\ Len(sess) \in Nat
      /\ notified \subseteq Field /\ fieldStatus \in [Field -> FieldStatus]
      /\ messages \in Nat /\ crashes \in Nat /\ faults \in Nat /\ untracked \in Nat
      /\ \A h \in Handler : pc[h] # "idle" => msg[h] \in Message
      BY DEF TInv, TypeOK, Serving
<1>1. CASE UNCHANGED vars
      BY <1>1 DEF vars, db, handler, bounds, TInv, TypeOK, Serving, OpenOf
<1>2. ASSUME NEW h \in Handler, NEW m \in Message, Receive(h, m) PROVE TInv'
  <2>1. /\ msg' = [msg EXCEPT ![h] = m]
        /\ \E p \in {"open", "write"} : pc' = [pc EXCEPT ![h] = p]
        /\ pc[h] = "idle" /\ messages' = messages + 1
        /\ UNCHANGED <<fieldStatus, sess, notified, links, snap, crashes, faults, untracked>>
        BY <1>2 DEF Receive, db
  <2>2. TypeOK'
        BY <2>1 DEF TInv, TypeOK, Pc
  <2>3. Serving'
    <3> SUFFICES ASSUME NEW g \in Handler
                 PROVE  /\ pc'[g] # "idle" => msg'[g] \in Message
                        /\ pc'[g] = "track" => msg'[g].op \in {"ARRIVED", "FINISHED", "DECLINE"}
                        /\ \A s \in snap'[g] : pc'[g] # "idle" /\ sess'[s].worker = msg'[g].worker
        BY DEF Serving
    <3>1. CASE g = h
          BY <2>1, <3>1 DEF TInv, TypeOK, Serving
    <3>2. CASE g # h
          BY <2>1, <3>2 DEF TInv, TypeOK, Serving
    <3> QED BY <3>1, <3>2
  <2> QED BY <2>2, <2>3 DEF TInv
<1>3. ASSUME NEW h \in Handler, OpenUpdate(h) PROVE TInv'
  <2>1. /\ pc[h] = "open" /\ pc' = [pc EXCEPT ![h] = "commit"]
        /\ snap' = [snap EXCEPT ![h] = OpenOf(msg[h].worker)]
        /\ UNCHANGED <<fieldStatus, sess, notified, links, msg, messages, crashes, faults, untracked>>
        BY <1>3 DEF OpenUpdate, db, bounds
  <2>2. OpenOf(msg[h].worker) \subseteq DOMAIN sess
        BY DEF OpenOf
  <2>3. \A s \in OpenOf(msg[h].worker) : sess[s].worker = msg[h].worker
        BY DEF OpenOf
  <2>4. TypeOK'
        BY <2>1, <2>2 DEF TInv, TypeOK, Pc
  <2>5. Serving'
    <3> SUFFICES ASSUME NEW g \in Handler
                 PROVE  /\ pc'[g] # "idle" => msg'[g] \in Message
                        /\ pc'[g] = "track" => msg'[g].op \in {"ARRIVED", "FINISHED", "DECLINE"}
                        /\ \A s \in snap'[g] : pc'[g] # "idle" /\ sess'[s].worker = msg'[g].worker
        BY DEF Serving
    <3>1. CASE g = h
          BY <1>0, <2>1, <2>3, <3>1 DEF TInv, TypeOK
    <3>2. CASE g # h
          BY <2>1, <3>2 DEF TInv, TypeOK, Serving
    <3> QED BY <3>1, <3>2
  <2> QED BY <2>4, <2>5 DEF TInv
<1>4. ASSUME NEW h \in Handler, OpenCommit(h) PROVE TInv'
  <2>1. /\ msg[h] \in Message /\ Goto(h, "write")
        /\ sess' = sess \/ sess' = Opened(h)
        /\ UNCHANGED <<fieldStatus, notified, links, bounds>>
        BY <1>0, <1>4 DEF OpenCommit, Opened
  <2>2. /\ Opened(h) \in Seq(Session) /\ Len(Opened(h)) = Len(sess) + 1
        /\ \A s \in 1 .. Len(sess) : Opened(h)[s].worker = sess[s].worker
        BY <2>1, OpenedSessions
  <2>3. CASE sess' = sess
        BY <1>0, <2>1, <2>3, SessionType
  <2>4. CASE sess' = Opened(h)
    <3> DEFINE n == Len(sess) + 1
    <3>1. n \in Nat /\ n >= Len(sess)
          BY <1>0
    <3>2. sess' \in Seq(Session) /\ Len(sess') = n
          BY <2>2, <2>4
    <3>3. \A s \in 1 .. Len(sess) : sess'[s].worker = sess[s].worker
          BY <2>2, <2>4
    <3> HIDE DEF n
    <3> QED BY <2>1, <3>1, <3>2, <3>3, SessionType
  <2> QED BY <2>1, <2>3, <2>4
<1>5. ASSUME NEW h \in Handler, WriteStatus(h) PROVE TInv'
  <2>1. /\ msg[h] \in Message /\ pc[h] = "write" /\ Goto(h, AfterWrite(msg[h]))
        /\ fieldStatus' = [fieldStatus EXCEPT ![msg[h].field] = Written[msg[h].op]]
        /\ untracked' \in {untracked, untracked + 1}
        /\ UNCHANGED <<sess, notified, links, messages, crashes, faults>>
        BY <1>0, <1>5 DEF WriteStatus
  <2>2. /\ AfterWrite(msg[h]) \in Pc
        /\ AfterWrite(msg[h]) = "track" => msg[h].op \in {"ARRIVED", "FINISHED", "DECLINE"}
        BY <2>1 DEF AfterWrite, Pc, Message, Transition
  <2>3. msg[h].op \in Transition /\ Written[msg[h].op] \in FieldStatus
        BY <2>1 DEF Message, Transition, Written, FieldStatus
  <2>4. fieldStatus' \in [Field -> FieldStatus]
        BY <1>0, <2>1, <2>3
  <2>5. \A n \in {messages, crashes, faults, untracked}' : n \in Nat
        BY <1>0, <2>1
  <2> QED BY <1>0, <2>1, <2>2, <2>4, <2>5, ControlType
<1>6. ASSUME NEW h \in Handler, Track(h) PROVE TInv'
  <2>1. Goto(h, "idle") /\ UNCHANGED <<fieldStatus, notified, links, bounds>>
        BY <1>6 DEF Track
  <2>2. SameTrips(Len(sess), sess')
        BY <1>6, TrackedSessions
  <2> QED BY <1>0, <2>1, <2>2, SessionType DEF SameTrips
<1>7. ASSUME NEW h \in Handler, Claim(h) PROVE TInv'
  <2>1. /\ msg[h] \in Message /\ notified' = notified \cup {msg[h].field}
        /\ \E p \in {"idle", "send"} : Goto(h, p)
        /\ UNCHANGED <<fieldStatus, sess, links, messages, crashes, faults, untracked>>
        BY <1>0, <1>7 DEF Claim, bounds
  <2>2. notified' \subseteq Field
        BY <1>0, <2>1 DEF Message
  <2> QED BY <1>0, <2>1, <2>2, ControlType DEF Pc
<1>8. ASSUME NEW h \in Handler, Send(h) PROVE TInv'
  <2>1. PICK t \in Tokens(msg[h].field) :
           links' = [links EXCEPT ![msg[h].field] = Append(@, t)]
        BY <1>8 DEF Send
  <2>2. /\ Goto(h, "idle")
        /\ UNCHANGED <<fieldStatus, sess, notified, messages, crashes, faults, untracked>>
        BY <1>8 DEF Send, bounds
  <2>3. t \in {0} \cup DOMAIN sess
        BY DEF Tokens, OpenOn
  <2>4. links' \in [Field -> Seq({0} \cup DOMAIN sess)]
    <3>1. links \in [Field -> Seq({0} \cup DOMAIN sess)]
          BY DEF TInv, TypeOK
    <3>2. \A q \in Seq({0} \cup DOMAIN sess) : Append(q, t) \in Seq({0} \cup DOMAIN sess)
          BY <2>3
    <3> QED BY <2>1, <3>1, <3>2
  <2>5. /\ pc' \in [Handler -> Pc]
        /\ msg' \in [Handler -> Message \cup {NoMessage}]
        /\ snap' \in [Handler -> SUBSET (DOMAIN sess)]
        /\ \A g \in Handler :
              /\ pc'[g] # "idle" => msg'[g] \in Message
              /\ pc'[g] = "track" => msg'[g].op \in {"ARRIVED", "FINISHED", "DECLINE"}
              /\ \A s \in snap'[g] : pc'[g] # "idle" /\ sess[s].worker = msg'[g].worker
        BY <2>2, GotoType DEF Pc
  <2>6. TypeOK'
        BY <2>2, <2>4, <2>5 DEF TInv, TypeOK
  <2> QED BY <2>2, <2>5, <2>6 DEF TInv, Serving
<1>9. ASSUME NEW h \in Handler, Fail(h) PROVE TInv'
  <2>1. /\ \E p \in {"idle", "write"} : Goto(h, p) /\ (p = "write" => pc[h] # "idle")
        /\ faults' = faults + 1
        /\ UNCHANGED <<fieldStatus, sess, notified, links, messages, crashes, untracked>>
    <3>1. CASE OpenFails(h)
          BY <3>1 DEF OpenFails, db
    <3>2. CASE WriteFails(h)
          BY <3>2 DEF WriteFails, db
    <3>3. CASE TrackFails(h)
          BY <3>3 DEF TrackFails, db
    <3>4. CASE NotifyFails(h)
          BY <3>4 DEF NotifyFails, db
    <3> QED BY <1>9, <3>1, <3>2, <3>3, <3>4 DEF Fail
  <2>2. \A n \in {messages, crashes, faults, untracked}' : n \in Nat
        BY <1>0, <2>1
  <2> QED BY <1>0, <2>1, <2>2, ControlType DEF Pc
<1>10. CASE Crash
      BY <1>10 DEF Crash, db, TInv, TypeOK, Serving, Pc
<1> QED BY <1>1, <1>2, <1>3, <1>4, <1>5, <1>6, <1>7, <1>8, <1>9, <1>10 DEF Next, Step

\* Every variable keeps its type: what refers to a session refers to one that
\* exists.
THEOREM TypeCorrect == Spec => []TypeOK
<1>1. TInv => TypeOK
      BY DEF TInv
<1> QED BY <1>1, InitType, NextType, PTL DEF Spec

-----------------------------------------------------------------------------
(* One trip at a time.                                                     *)

OInv == TInv /\ OneOpenSession

\* Only OpenCommit opens a session; every other step changes statuses so that
\* at most what was open is open.
LEMMA NoneOpened ==
    ASSUME OInv, TInv', SameTrips(Len(sess), sess'),
           \A s \in 1 .. Len(sess) : IsOpen(s)' => IsOpen(s)
    PROVE  OInv'
<1>1. DOMAIN sess = 1 .. Len(sess) /\ DOMAIN sess' = 1 .. Len(sess)
      BY DEF OInv, TInv, TypeOK, SameTrips
<1> QED BY <1>1 DEF OInv, OneOpenSession, SameTrips

\* The UPDATE ends the trips of the worker; a trip to the same visit that is
\* not among them makes the INSERT fail.
LEMMA CommitOpensOne ==
    ASSUME OInv, TInv', NEW h \in Handler, OpenCommit(h)
    PROVE  OInv'
<1> DEFINE n == Len(sess)
           w == msg[h].worker
           f == msg[h].field
<1>1. /\ msg[h] \in Message /\ n \in Nat /\ sess \in Seq(Session)
      /\ \A s \in snap[h] : s \in DOMAIN sess /\ sess[s].worker = w
      /\ DOMAIN sess = 1 .. n
      BY DEF OpenCommit, OInv, TInv, TypeOK, Serving
<1>2. CASE Clash(h)
  <2>1. sess' = sess
        BY <1>2 DEF OpenCommit
  <2> QED BY <2>1 DEF OInv, OneOpenSession, IsOpen
<1>3. CASE ~Clash(h)
  <2>1. sess' = Opened(h)
        BY <1>3 DEF OpenCommit, Opened
  <2>2. /\ DOMAIN sess' = 1 .. n + 1
        /\ sess'[n + 1].worker = w /\ sess'[n + 1].field = f
        /\ \A s \in 1 .. n : /\ sess'[s].worker = sess[s].worker
                             /\ sess'[s].field = sess[s].field
                             /\ sess'[s].status = IF s \in OpenOf(w) THEN "SUPERSEDED"
                                                  ELSE sess[s].status
    <3>1. /\ Opened(h) \in Seq(Session) /\ Len(Opened(h)) = n + 1
          /\ Opened(h)[n + 1] = [worker |-> w, field |-> f, status |-> "ACTIVE"]
          /\ \A s \in 1 .. n :
                /\ Opened(h)[s].worker = sess[s].worker
                /\ Opened(h)[s].field = sess[s].field
                /\ Opened(h)[s].status = IF s \in OpenOf(w) THEN "SUPERSEDED"
                                         ELSE sess[s].status
          BY <1>1, OpenedSessions DEF OInv
    <3>2. DOMAIN Opened(h) = 1 .. n + 1
          BY <3>1
    <3> QED BY <2>1, <3>1, <3>2
  <2>3. ASSUME NEW s \in 1 .. n, IsOpen(s)'
        PROVE  IsOpen(s) /\ s \notin OpenOf(w)
        BY <2>2, <2>3 DEF IsOpen
  <2>4. ASSUME NEW s \in 1 .. n, IsOpen(s)'
        PROVE  sess[s].worker # w /\ sess[s].field # f
    <3>1. IsOpen(s) /\ s \notin OpenOf(w)
          BY <2>3, <2>4
    <3>2. sess[s].worker # w
          BY <1>1, <3>1 DEF OpenOf
    <3>3. s \notin snap[h]
          BY <1>1, <3>2
    <3>4. sess[s].field # f
          BY <1>1, <1>3, <3>1, <3>3 DEF Clash, OpenOn
    <3> QED BY <3>2, <3>4
  <2> HIDE DEF n, w, f
  <2>5. ASSUME NEW s \in DOMAIN sess', NEW t \in DOMAIN sess', IsOpen(s)', IsOpen(t)',
               sess'[s].worker = sess'[t].worker \/ sess'[s].field = sess'[t].field
        PROVE  s = t
    <3>1. s \in 1 .. n \/ s = n + 1
          BY <1>1, <2>2
    <3>2. t \in 1 .. n \/ t = n + 1
          BY <1>1, <2>2
    <3>3. CASE s \in 1 .. n /\ t \in 1 .. n
      <4>1. IsOpen(s) /\ IsOpen(t)
            BY <2>3, <2>5, <3>3
      <4> QED BY <1>1, <2>2, <2>5, <3>3, <4>1 DEF OInv, OneOpenSession
    <3>4. CASE s \in 1 .. n /\ t = n + 1
          BY <2>2, <2>4, <2>5, <3>4
    <3>5. CASE s = n + 1 /\ t \in 1 .. n
          BY <2>2, <2>4, <2>5, <3>5
    <3> QED BY <3>1, <3>2, <3>3, <3>4, <3>5
  <2> QED BY <2>5 DEF OInv, OneOpenSession
<1> QED BY <1>2, <1>3

LEMMA NextOpen == OInv /\ [Next]_vars => OInv'
<1> SUFFICES ASSUME OInv, [Next]_vars PROVE OInv'
    OBVIOUS
<1>1. TInv'
      BY NextType DEF OInv
<1>2. ASSUME NEW h \in Handler, Track(h) PROVE OInv'
      BY <1>1, <1>2, TrackedSessions, NoneOpened DEF OInv
<1>3. CASE UNCHANGED sess
      BY <1>1, <1>3 DEF OInv, OneOpenSession, IsOpen
<1>4. UNCHANGED sess \/ \E h \in Handler : OpenCommit(h) \/ Track(h)
      BY DEF Next, Step, Fail, vars, db, Receive, OpenUpdate, OpenFails, WriteStatus,
             WriteFails, TrackFails, NotifyFails, Claim, Send, Crash
<1> QED BY <1>1, <1>2, <1>3, <1>4, CommitOpensOne

\* Whatever departures run into each other, and however often statements fail:
\* a worker is on one trip at a time, and one worker is on the way to a visit.
THEOREM OneTripAtATime == Spec => []OneOpenSession
<1>1. Init => OInv
      BY InitType DEF Init, OInv, OneOpenSession
<1>2. OInv => OneOpenSession
      BY DEF OInv
<1> QED BY <1>1, <1>2, NextOpen, PTL DEF Spec

-----------------------------------------------------------------------------
(* The customer.                                                           *)

\* Who is about to tell the customer of a field has claimed its row, alone;
\* nobody is told without a row.
Claimed ==
    \A f \in Field :
        /\ f \notin notified => links[f] = <<>>
        /\ \A g, h \in Handler :
              /\ pc[g] = "send" /\ msg[g].field = f
              /\ pc[h] = "send" /\ msg[h].field = f
              => g = h /\ f \in notified /\ links[f] = <<>>

CInv == TInv /\ Claimed /\ CustomerToldOnce

\* A step after which the same handlers, or fewer, are about to tell the
\* customers, and nobody has been told.
LEMMA NobodyTold ==
    ASSUME CInv, TInv', NEW n \in Nat, n >= Len(sess),
           DOMAIN sess' = 1 .. n,
           \A s \in 1 .. Len(sess) : sess'[s].field = sess[s].field,
           UNCHANGED <<notified, links>>,
           \A h \in Handler : pc'[h] = "send" => pc[h] = "send" /\ msg'[h] = msg[h]
    PROVE  CInv'
<1>1. Claimed'
      BY DEF CInv, Claimed
<1>2. CustomerToldOnce'
  <2>1. links \in [Field -> Seq({0} \cup DOMAIN sess)] /\ DOMAIN sess = 1 .. Len(sess)
        BY DEF CInv, TInv, TypeOK
  <2>2. ASSUME NEW f \in Field, NEW i \in 1 .. Len(links[f]), links[f][i] # 0
        PROVE  sess'[links[f][i]].field = f
    <3>1. links[f] \in Seq({0} \cup DOMAIN sess)
          BY <2>1
    <3>2. links[f][i] \in {0} \cup DOMAIN sess
          BY <3>1
    <3>3. links[f][i] \in 1 .. Len(sess) /\ sess[links[f][i]].field = f
          BY <2>1, <2>2, <3>2 DEF CInv, CustomerToldOnce
    <3> QED BY <3>3
  <2> QED BY <2>2 DEF CInv, CustomerToldOnce
<1> QED BY <1>1, <1>2 DEF CInv

LEMMA NextClaimed == CInv /\ [Next]_vars => CInv'
<1> SUFFICES ASSUME CInv, [Next]_vars PROVE CInv'
    OBVIOUS
<1>1. TInv'
      BY NextType DEF CInv
<1>2. /\ sess \in Seq(Session) /\ Len(sess) \in Nat /\ DOMAIN sess = 1 .. Len(sess)
      /\ pc \in [Handler -> Pc] /\ links \in [Field -> Seq({0} \cup DOMAIN sess)]
      /\ \A h \in Handler : pc[h] # "idle" => msg[h] \in Message
      BY DEF CInv, TInv, TypeOK, Serving
<1>3. ASSUME UNCHANGED <<sess, notified, links>>,
             \A h \in Handler : pc'[h] = "send" => pc[h] = "send" /\ msg'[h] = msg[h]
      PROVE  CInv'
  <2>1. DOMAIN sess' = 1 .. Len(sess) /\ \A s \in 1 .. Len(sess) : sess'[s].field = sess[s].field
        BY <1>2, <1>3
  <2>2. Len(sess) >= Len(sess)
        BY <1>2
  <2> QED BY <1>1, <1>2, <1>3, <2>1, <2>2, NobodyTold
<1>4. ASSUME NEW h \in Handler, NEW p \in Pc \ {"send"}, Goto(h, p)
      PROVE  \A g \in Handler : pc'[g] = "send" => pc[g] = "send" /\ msg'[g] = msg[g]
      BY <1>2, <1>4 DEF Goto, CInv, TInv, TypeOK
<1>5. ASSUME NEW h \in Handler, OpenCommit(h) PROVE CInv'
  <2>1. \A g \in Handler : pc'[g] = "send" => pc[g] = "send" /\ msg'[g] = msg[g]
        BY <1>4, <1>5 DEF OpenCommit, Pc
  <2>2. msg[h] \in Message /\ (sess' = sess \/ sess' = Opened(h)) /\ UNCHANGED <<notified, links>>
        BY <1>2, <1>5 DEF OpenCommit, Opened
  <2>3. CASE sess' = Opened(h)
    <3> DEFINE n == Len(sess) + 1
    <3>1. /\ Opened(h) \in Seq(Session) /\ Len(Opened(h)) = Len(sess) + 1
          /\ \A s \in 1 .. Len(sess) : Opened(h)[s].field = sess[s].field
          BY <2>2, OpenedSessions DEF CInv
    <3>2. n \in Nat /\ n >= Len(sess) /\ DOMAIN sess' = 1 .. n
          BY <1>2, <2>3, <3>1
    <3> HIDE DEF n
    <3> QED BY <1>1, <2>1, <2>2, <2>3, <3>1, <3>2, NobodyTold
  <2> QED BY <1>3, <2>1, <2>2, <2>3
<1>6. ASSUME NEW h \in Handler, Track(h) PROVE CInv'
  <2>1. \A g \in Handler : pc'[g] = "send" => pc[g] = "send" /\ msg'[g] = msg[g]
        BY <1>4, <1>6 DEF Track, Pc
  <2>2. UNCHANGED <<notified, links>>
        BY <1>6 DEF Track
  <2>3. SameTrips(Len(sess), sess')
        BY <1>6, TrackedSessions DEF CInv
  <2>4. /\ DOMAIN sess' = 1 .. Len(sess)
        /\ \A s \in 1 .. Len(sess) : sess'[s].field = sess[s].field
        BY <1>2, <2>3 DEF SameTrips
  <2>5. Len(sess) >= Len(sess)
        BY <1>2
  <2> QED BY <1>1, <1>2, <2>1, <2>2, <2>4, <2>5, NobodyTold
<1>7. ASSUME NEW h \in Handler, Claim(h) PROVE CInv'
  <2> DEFINE f == msg[h].field
  <2>1. /\ msg[h] \in Message /\ notified' = notified \cup {f}
        /\ UNCHANGED <<sess, links>>
        /\ Goto(h, IF f \in notified THEN "idle" ELSE "send")
        BY <1>2, <1>7 DEF Claim
  <2>2. CASE f \in notified
    <3>1. notified' = notified /\ Goto(h, "idle")
          BY <2>1, <2>2
    <3>2. \A g \in Handler : pc'[g] = "send" => pc[g] = "send" /\ msg'[g] = msg[g]
          BY <1>4, <3>1 DEF Pc
    <3> QED BY <1>3, <2>1, <3>1, <3>2
  <2>3. CASE f \notin notified
    <3>1. pc' = [pc EXCEPT ![h] = "send"] /\ msg' = msg
          BY <2>1, <2>3 DEF Goto
    <3>2. \A g \in Handler : ~(pc[g] = "send" /\ msg[g].field = f)
      <4>1. f \in Field
            BY <2>1 DEF Message
      <4> QED BY <2>3, <4>1 DEF CInv, Claimed
    <3>3. f \in Field /\ links[f] = <<>>
      <4>1. f \in Field
            BY <2>1 DEF Message
      <4> QED BY <2>3, <4>1 DEF CInv, Claimed
    <3>4. \A g \in Handler : pc'[g] = "send" => g = h \/ (pc[g] = "send" /\ msg[g].field # f)
          BY <1>2, <3>1, <3>2
    <3> HIDE DEF f
    <3>5. Claimed'
      <4> SUFFICES ASSUME NEW e \in Field
                   PROVE  /\ e \notin notified' => links'[e] = <<>>
                          /\ \A g, k \in Handler :
                                /\ pc'[g] = "send" /\ msg'[g].field = e
                                /\ pc'[k] = "send" /\ msg'[k].field = e
                                => g = k /\ e \in notified' /\ links'[e] = <<>>
          BY DEF Claimed
      <4>1. CASE e = f
            BY <2>1, <3>1, <3>3, <3>4, <4>1
      <4>2. CASE e # f
            BY <1>2, <2>1, <3>1, <3>4, <4>2 DEF CInv, Claimed, f
      <4> QED BY <4>1, <4>2
    <3>6. CustomerToldOnce'
          BY <2>1 DEF CInv, CustomerToldOnce
    <3> QED BY <1>1, <3>5, <3>6 DEF CInv
  <2> QED BY <2>2, <2>3
<1>8. ASSUME NEW h \in Handler, Send(h) PROVE CInv'
  <2> DEFINE f == msg[h].field
  <2>1. /\ msg[h] \in Message /\ f \in Field /\ pc[h] = "send" /\ Goto(h, "idle")
        /\ UNCHANGED <<sess, notified>>
        BY <1>2, <1>8 DEF Send, Message
  <2>2. PICK t \in Tokens(f) : links' = [links EXCEPT ![f] = Append(@, t)]
        BY <1>8 DEF Send
  <2>3. \A g \in Handler : pc'[g] = "send" => pc[g] = "send" /\ msg'[g] = msg[g]
        BY <1>4, <2>1 DEF Pc
  <2>4. links[f] = <<>> /\ f \in notified
        BY <2>1 DEF CInv, Claimed
  <2>5. links'[f] = <<t>> /\ \A e \in Field \ {f} : links'[e] = links[e]
        BY <1>2, <2>1, <2>2, <2>4
  <2>6. \A g \in Handler : pc'[g] = "send" => msg'[g].field # f
    <3>1. pc'[h] # "send"
          BY <1>2, <2>1 DEF Goto
    <3>2. \A g \in Handler : pc[g] = "send" /\ msg[g].field = f => g = h
          BY <2>1 DEF CInv, Claimed
    <3> QED BY <2>3, <3>1, <3>2
  <2>7. t # 0 => sess[t].field = f
        BY DEF Tokens, OpenOn
  <2> HIDE DEF f
  <2>8. Claimed'
        BY <2>1, <2>3, <2>4, <2>5, <2>6 DEF CInv, Claimed
  <2>9. CustomerToldOnce'
    <3> SUFFICES ASSUME NEW e \in Field
                 PROVE  /\ Len(links'[e]) <= 1
                        /\ \A i \in 1 .. Len(links'[e]) :
                              links'[e][i] # 0 => sess'[links'[e][i]].field = e
        BY DEF CustomerToldOnce
    <3>1. CASE e = f
      <4>1. Len(<<t>>) = 1 /\ <<t>>[1] = t
            OBVIOUS
      <4>2. \A i \in 1 .. 1 : i = 1
            OBVIOUS
      <4>3. links'[e] = <<t>> /\ (t # 0 => sess'[t].field = e)
            BY <2>1, <2>5, <2>7, <3>1
      <4>4. Len(links'[e]) = 1 /\ links'[e][1] = t
            BY <4>1, <4>3
      <4> QED BY <4>2, <4>3, <4>4
    <3>2. CASE e # f
          BY <2>1, <2>5, <3>2 DEF CInv, CustomerToldOnce
    <3> QED BY <3>1, <3>2
  <2> QED BY <1>1, <2>8, <2>9 DEF CInv
<1>9. ASSUME NEW h \in Handler, NEW m \in Message, Receive(h, m) PROVE CInv'
  <2>1. /\ pc[h] = "idle" /\ UNCHANGED <<sess, notified, links>>
        /\ \E p \in {"open", "write"} : pc' = [pc EXCEPT ![h] = p]
        /\ msg' = [msg EXCEPT ![h] = m]
        BY <1>9 DEF Receive, db
  <2>2. \A g \in Handler : pc'[g] = "send" => pc[g] = "send" /\ msg'[g] = msg[g]
        BY <1>2, <2>1 DEF CInv, TInv, TypeOK
  <2> QED BY <1>3, <2>1, <2>2
<1>10. ASSUME NEW h \in Handler, OpenUpdate(h) PROVE CInv'
       BY <1>2, <1>3, <1>10 DEF OpenUpdate, db
<1>11. ASSUME NEW h \in Handler, WriteStatus(h) PROVE CInv'
  <2>1. UNCHANGED <<sess, notified, links>> /\ Goto(h, AfterWrite(msg[h]))
        BY <1>11 DEF WriteStatus
  <2>2. AfterWrite(msg[h]) \in Pc \ {"send"}
        BY DEF AfterWrite, Pc
  <2> QED BY <1>3, <1>4, <2>1, <2>2
<1>12. ASSUME NEW h \in Handler, Fail(h) PROVE CInv'
  <2>1. /\ UNCHANGED <<sess, notified, links>>
        /\ \E p \in {"idle", "write"} : Goto(h, p)
    <3>1. CASE OpenFails(h)
          BY <3>1 DEF OpenFails, db
    <3>2. CASE WriteFails(h)
          BY <3>2 DEF WriteFails, db
    <3>3. CASE TrackFails(h)
          BY <3>3 DEF TrackFails, db
    <3>4. CASE NotifyFails(h)
          BY <3>4 DEF NotifyFails, db
    <3> QED BY <1>12, <3>1, <3>2, <3>3, <3>4 DEF Fail
  <2>2. \A g \in Handler : pc'[g] = "send" => pc[g] = "send" /\ msg'[g] = msg[g]
        BY <1>4, <2>1 DEF Pc
  <2> QED BY <1>3, <2>1, <2>2
<1>13. CASE Crash
       BY <1>3, <1>13 DEF Crash, db
<1>14. CASE UNCHANGED vars
       BY <1>3, <1>14 DEF vars, db, handler
<1> QED BY <1>5, <1>6, <1>7, <1>8, <1>9, <1>10, <1>11, <1>12, <1>13, <1>14 DEF Next, Step

\* However often a departure is reported, by whichever messages at once: the
\* customer reads of it once at most, with a link to his own visit or none.
THEOREM ToldOnce == Spec => []CustomerToldOnce
<1>1. Init => CInv
  <2> SUFFICES ASSUME Init PROVE CInv
      OBVIOUS
  <2>1. TInv
        BY InitType
  <2> QED BY <2>1 DEF Init, CInv, Claimed, CustomerToldOnce
<1>2. CInv => CustomerToldOnce
      BY DEF CInv
<1> QED BY <1>1, <1>2, NextClaimed, PTL DEF Spec

-----------------------------------------------------------------------------
(* Sessions and statuses.                                                  *)

\* The session of f does not agree with its status.
Disagrees(f) ==
    \/ fieldStatus[f] \in {"FINISHED_FIELD", "DECLINED"} /\ OpenOn(f) # {}
    \/ fieldStatus[f] = "ARRIVED" /\ \E s \in OpenOn(f) : sess[s].status = "ACTIVE"

\* h is to write the status of f, or to bring the session to it.
Settles(h, f) ==
    /\ pc[h] # "idle" /\ msg[h].field = f
    /\ \/ pc[h] \in {"open", "commit", "write"}
       \/ pc[h] = "track" /\ (msg[h].op # "ARRIVED" \/ fieldStatus[f] = "ARRIVED")

\* Nobody is to settle it.
Unsettled == {f \in Field : Disagrees(f) /\ \A h \in Handler : ~Settles(h, f)}

Charged == IsFiniteSet(Unsettled) /\ Cardinality(Unsettled) <= Losses

\* The losses are a number, and every step adds what it says.
LEMMA LossesCount ==
    ASSUME TInv, TInv'
    PROVE  /\ Losses \in Nat /\ Losses' \in Nat /\ Cardinality(Handler) \in Nat
           /\ UNCHANGED <<crashes, faults, untracked>> => Losses' = Losses
           /\ UNCHANGED <<crashes, untracked>> /\ faults' = faults + 1
                => Losses' = Losses + 1
           /\ UNCHANGED <<crashes, faults>> /\ untracked' = untracked + 1
                => Losses' = Losses + 1
           /\ UNCHANGED <<faults, untracked>> /\ crashes' = crashes + 1
                => Losses' = Losses + Cardinality(Handler)
<1> DEFINE n == Cardinality(Handler)
<1>1. n \in Nat
      BY FS_CardinalityType
<1>2. /\ crashes \in Nat /\ faults \in Nat /\ untracked \in Nat
      /\ crashes' \in Nat /\ faults' \in Nat /\ untracked' \in Nat
      BY DEF TInv, TypeOK
<1>3. Losses = n * crashes + faults + untracked
      BY DEF Losses
<1>4. Losses' = n * crashes' + faults' + untracked'
      BY DEF Losses
<1> HIDE DEF n
<1>5. n * crashes \in Nat /\ n * crashes' \in Nat
  <2>1. \A a, b \in Nat : a * b \in Nat
        OBVIOUS
  <2> QED BY <1>1, <1>2, <2>1
<1>6. Losses \in Nat /\ Losses' \in Nat
      BY <1>2, <1>3, <1>4, <1>5
<1>7. ASSUME crashes' = crashes + 1 PROVE n * crashes' = n * crashes + n
      BY <1>1, <1>2, <1>7
<1>8. UNCHANGED crashes => n * crashes' = n * crashes
      OBVIOUS
<1>9. /\ UNCHANGED <<crashes, faults, untracked>> => Losses' = Losses
      /\ UNCHANGED <<crashes, untracked>> /\ faults' = faults + 1 => Losses' = Losses + 1
      /\ UNCHANGED <<crashes, faults>> /\ untracked' = untracked + 1
           => Losses' = Losses + 1
      BY <1>2, <1>3, <1>4, <1>5, <1>8
<1>10. UNCHANGED <<faults, untracked>> /\ crashes' = crashes + 1 => Losses' = Losses + n
      BY <1>1, <1>2, <1>3, <1>4, <1>5, <1>7
<1> QED BY <1>1, <1>6, <1>9, <1>10 DEF n

\* No visit is left behind.
LEMMA NoneUnsettled ==
    ASSUME TInv, TInv', Charged, UNCHANGED <<crashes, faults, untracked>>,
           Unsettled' \subseteq Unsettled
    PROVE  Charged'
<1>1. IsFiniteSet(Unsettled') /\ Cardinality(Unsettled') <= Cardinality(Unsettled)
      /\ Cardinality(Unsettled') \in Nat /\ Cardinality(Unsettled) \in Nat
      BY AtMost DEF Charged
<1>2. Losses' = Losses /\ Losses \in Nat
      BY LossesCount
<1> QED BY <1>1, <1>2 DEF Charged

\* One is, and a loss pays for it.
LEMMA OneUnsettled ==
    ASSUME TInv, TInv', Charged, Losses' = Losses + 1, NEW e,
           Unsettled' \subseteq Unsettled \cup {e}
    PROVE  Charged'
<1>1. IsFiniteSet(Unsettled') /\ Cardinality(Unsettled') <= Cardinality(Unsettled) + 1
      /\ Cardinality(Unsettled') \in Nat /\ Cardinality(Unsettled) \in Nat
      BY OneMore DEF Charged
<1>2. Losses \in Nat
      BY LossesCount
<1> QED BY <1>1, <1>2 DEF Charged

\* Of another visit than that of h, a step of h changes neither whether it
\* disagrees nor who is to settle it.
LEMMA OthersKeep ==
    ASSUME TInv, NEW h \in Handler, NEW f \in Field, msg[h] \in Message, pc[h] # "idle",
           msg[h].field # f, fieldStatus'[f] = fieldStatus[f],
           Disagrees(f)' => Disagrees(f),
           \A g \in Handler \ {h} : pc'[g] = pc[g] /\ msg'[g] = msg[g]
    PROVE  f \in Unsettled' => f \in Unsettled
<1>1. \A g \in Handler : Settles(g, f) => g # h
      BY DEF Settles
<1>2. \A g \in Handler : Settles(g, f) => Settles(g, f)'
      BY <1>1 DEF Settles
<1> QED BY <1>2 DEF Unsettled

\* Only h goes on.
LEMMA OneGoes ==
    ASSUME TInv, NEW h \in Handler, NEW p, Goto(h, p)
    PROVE  /\ \A g \in Handler \ {h} : pc'[g] = pc[g] /\ msg'[g] = msg[g]
           /\ pc'[h] = p
           /\ p # "idle" => msg'[h] = msg[h]
BY DEF Goto, TInv, TypeOK

\* What is open on f is as before, or was closed.
LEMMA FewerOpen ==
    ASSUME NEW f \in Field, fieldStatus'[f] = fieldStatus[f],
           \A s \in OpenOn(f)' : s \in OpenOn(f) /\ sess'[s].status = sess[s].status
    PROVE  Disagrees(f)' => Disagrees(f)
BY DEF Disagrees

\* Who opens a session is still to write the status.
LEMMA CommitCharged ==
    ASSUME TInv, TInv', Charged, NEW h \in Handler, OpenCommit(h)
    PROVE  Charged'
<1>0. PICK e : e = msg[h].field
      OBVIOUS
<1>1. /\ msg[h] \in Message /\ pc[h] = "commit" /\ Goto(h, "write")
      /\ sess' = sess \/ sess' = Opened(h)
      /\ UNCHANGED <<fieldStatus, crashes, faults, untracked>>
      BY DEF OpenCommit, Opened, TInv, Serving, bounds
<1>2. /\ \A g \in Handler \ {h} : pc'[g] = pc[g] /\ msg'[g] = msg[g]
      /\ pc'[h] = "write" /\ msg'[h] = msg[h]
      BY <1>1, OneGoes
<1>3. sess \in Seq(Session) /\ DOMAIN sess = 1 .. Len(sess) /\ Len(sess) \in Nat
      BY DEF TInv, TypeOK
<1>4. ASSUME NEW f \in Field, f # e, NEW s \in OpenOn(f)'
      PROVE  s \in OpenOn(f) /\ sess'[s].status = sess[s].status
  <2>1. CASE sess' = sess
        BY <1>4, <2>1 DEF OpenOn, IsOpen
  <2>2. CASE sess' = Opened(h)
    <3>0. /\ Opened(h) \in Seq(Session)
          /\ Len(Opened(h)) = Len(sess) + 1
          /\ Opened(h)[Len(sess) + 1] = [worker |-> msg[h].worker, field |-> msg[h].field,
                                         status |-> "ACTIVE"]
          /\ \A k \in 1 .. Len(sess) :
                /\ Opened(h)[k].field = sess[k].field
                /\ Opened(h)[k].status = IF k \in OpenOf(msg[h].worker) THEN "SUPERSEDED"
                                         ELSE sess[k].status
          BY <1>1, OpenedSessions
    <3>1. Opened(h)[Len(sess) + 1].field = e
          BY <1>0, <3>0
    <3>2. s \in DOMAIN sess' /\ IsOpen(s)' /\ sess'[s].field = f
          BY <1>4 DEF OpenOn
    <3>3. DOMAIN Opened(h) = 1 .. Len(sess) + 1
          BY <3>0
    <3>4. s # Len(sess) + 1
          BY <1>4, <2>2, <3>1, <3>2
    <3>5. s \in 1 .. Len(sess)
          BY <1>3, <2>2, <3>2, <3>3, <3>4
    <3>6. s \notin OpenOf(msg[h].worker)
          BY <2>2, <3>0, <3>2, <3>5 DEF IsOpen
    <3>7. sess'[s].status = sess[s].status /\ sess[s].field = f
          BY <2>2, <3>0, <3>2, <3>5, <3>6
    <3> QED BY <1>3, <3>2, <3>5, <3>7 DEF OpenOn, IsOpen
  <2> QED BY <1>1, <2>1, <2>2
<1>5. ASSUME NEW f \in Field, f \in Unsettled' PROVE f \in Unsettled
  <2>1. CASE f = e
    <3>1. Settles(h, f)'
          BY <1>0, <1>1, <1>2, <2>1 DEF Settles
    <3> QED BY <1>5, <3>1 DEF Unsettled
  <2>2. CASE f # e
    <3>1. Disagrees(f)' => Disagrees(f)
          BY <1>1, <1>4, <2>2, FewerOpen
    <3> QED BY <1>0, <1>1, <1>2, <1>5, <2>2, <3>1, OthersKeep
  <2> QED BY <2>1, <2>2
<1>6. Unsettled' \subseteq Unsettled
      BY <1>5 DEF Unsettled
<1> QED BY <1>1, <1>6, NoneUnsettled

\* The report is brought to the session next, or it says nothing of the trip;
\* only the agent leaves the session out.
LEMMA WriteCharged ==
    ASSUME TInv, TInv', Charged, NEW h \in Handler, WriteStatus(h)
    PROVE  Charged'
<1>0. PICK e : e = msg[h].field
      OBVIOUS
<1>1. /\ msg[h] \in Message /\ pc[h] = "write" /\ Goto(h, AfterWrite(msg[h]))
      /\ fieldStatus' = [fieldStatus EXCEPT ![e] = Written[msg[h].op]]
      /\ untracked' = IF msg[h].agent THEN untracked + 1 ELSE untracked
      /\ UNCHANGED <<sess, crashes, faults>>
      BY <1>0 DEF WriteStatus, TInv, Serving
<1>2. /\ \A g \in Handler \ {h} : pc'[g] = pc[g] /\ msg'[g] = msg[g]
      /\ pc'[h] = AfterWrite(msg[h])
      /\ AfterWrite(msg[h]) # "idle" => msg'[h] = msg[h]
      BY <1>1, OneGoes
<1>3. e \in Field /\ fieldStatus \in [Field -> FieldStatus]
      BY <1>0, <1>1 DEF Message, TInv, TypeOK
<1>4. ASSUME NEW f \in Field, f # e, f \in Unsettled' PROVE f \in Unsettled
  <2>1. fieldStatus'[f] = fieldStatus[f]
        BY <1>1, <1>3, <1>4
  <2>2. Disagrees(f)' => Disagrees(f)
        BY <1>1, <2>1 DEF Disagrees, OpenOn, IsOpen
  <2> QED BY <1>0, <1>1, <1>2, <1>4, <2>1, <2>2, OthersKeep
<1>5. Unsettled' \subseteq Unsettled \cup {e}
      BY <1>4 DEF Unsettled
<1>6. CASE msg[h].agent
  <2>1. Losses' = Losses + 1
        BY <1>1, <1>6, LossesCount
  <2> QED BY <1>5, <2>1, OneUnsettled
<1>7. CASE ~msg[h].agent
  <2>1. fieldStatus'[e] = Written[msg[h].op] /\ msg[h].op \in Transition
        BY <1>1, <1>3 DEF Message
  <2>2. ASSUME msg[h].op \in {"CONFIRM", "DEPARTED"} PROVE e \notin Unsettled'
    <3>1. fieldStatus'[e] \in {"CONFIRMED", "EN_ROUTE"}
          BY <2>1, <2>2 DEF Written
    <3>2. ~Disagrees(e)'
          BY <3>1 DEF Disagrees
    <3> QED BY <3>2 DEF Unsettled
  <2>3. ASSUME msg[h].op \notin {"CONFIRM", "DEPARTED"} PROVE e \notin Unsettled'
    <3>1. pc'[h] = "track" /\ msg'[h] = msg[h]
          BY <1>2, <1>7, <2>3 DEF AfterWrite
    <3>2. msg[h].op = "ARRIVED" => fieldStatus'[e] = "ARRIVED"
          BY <2>1 DEF Written
    <3>3. Settles(h, e)'
          BY <1>0, <3>1, <3>2 DEF Settles
    <3> QED BY <3>3 DEF Unsettled
  <2>4. e \notin Unsettled'
        BY <2>2, <2>3
  <2>5. Unsettled' \subseteq Unsettled
        BY <1>5, <2>4
  <2>6. UNCHANGED <<crashes, faults, untracked>>
        BY <1>1, <1>7
  <2> QED BY <2>5, <2>6, NoneUnsettled
<1> QED BY <1>6, <1>7

\* What Track does to the sessions.
LEMMA TrackedStatus ==
    ASSUME TInv, NEW h \in Handler, NEW e, e = msg[h].field, Track(h)
    PROVE  /\ DOMAIN sess' = DOMAIN sess
           /\ \A s \in DOMAIN sess :
                 /\ sess'[s].field = sess[s].field
                 /\ sess[s].field # e => sess'[s].status = sess[s].status
                 /\ IsOpen(s)' => IsOpen(s)
           /\ msg[h].op # "ARRIVED" => OpenOn(e)' = {}
           /\ msg[h].op = "ARRIVED" => \A s \in OpenOn(e)' : sess'[s].status # "ACTIVE"
<1>1. msg[h].op \in {"ARRIVED", "FINISHED", "DECLINE"} /\ sess \in Seq(Session)
      BY DEF Track, TInv, Serving, TypeOK
<1>2. DOMAIN sess = 1 .. Len(sess)
      BY <1>1
<1>3. PICK S, t :
         /\ t \in {"ARRIVED", "FINISHED", "CANCELED"} /\ sess' = SetStatus(S, t)
         /\ S \subseteq OpenOn(e)
         /\ msg[h].op # "ARRIVED" => S = OpenOn(e) /\ t # "ARRIVED"
         /\ msg[h].op = "ARRIVED" => /\ t = "ARRIVED"
                                     /\ S = {s \in OpenOn(e) : sess[s].status = "ACTIVE"}
  <2>1. CASE msg[h].op = "ARRIVED"
        BY <2>1 DEF Track, markArrived
  <2>2. CASE msg[h].op = "FINISHED"
        BY <2>2 DEF Track, closeSession
  <2>3. CASE msg[h].op = "DECLINE"
        BY <2>3 DEF Track, closeSession
  <2> QED BY <1>1, <2>1, <2>2, <2>3
<1>4. t \in SessionStatus
      BY <1>3 DEF SessionStatus
<1>5. /\ SameTrips(Len(sess), sess')
      /\ \A s \in 1 .. Len(sess) : sess'[s].status = IF s \in S THEN t ELSE sess[s].status
      BY <1>1, <1>3, <1>4, SetStatusSessions
<1>6. DOMAIN sess' = 1 .. Len(sess)
      BY <1>5 DEF SameTrips
<1>7. \A s \in DOMAIN sess : sess'[s].field = sess[s].field
      BY <1>2, <1>5 DEF SameTrips
<1>8. \A s \in S : IsOpen(s) /\ sess[s].field = e
      BY <1>3 DEF OpenOn
<1>9. \A s \in DOMAIN sess : IsOpen(s)' => IsOpen(s)
      BY <1>2, <1>5, <1>8 DEF IsOpen
<1>10. \A s \in DOMAIN sess : sess[s].field # e => sess'[s].status = sess[s].status
      BY <1>2, <1>5, <1>8
<1>11. ASSUME NEW s \in OpenOn(e)'
       PROVE  s \in OpenOn(e) /\ s \in DOMAIN sess /\ IsOpen(s)'
       BY <1>2, <1>6, <1>7, <1>9 DEF OpenOn
<1>12. ASSUME msg[h].op # "ARRIVED" PROVE OpenOn(e)' = {}
  <2> SUFFICES ASSUME NEW s \in OpenOn(e)' PROVE FALSE
      OBVIOUS
  <2>1. s \in S /\ s \in 1 .. Len(sess)
        BY <1>2, <1>3, <1>11, <1>12
  <2>2. sess'[s].status \in {"FINISHED", "CANCELED"}
        BY <1>3, <1>5, <1>12, <2>1
  <2> QED BY <1>11, <2>2 DEF IsOpen
<1>13. ASSUME msg[h].op = "ARRIVED", NEW s \in OpenOn(e)' PROVE sess'[s].status # "ACTIVE"
  <2>1. s \in OpenOn(e) /\ s \in 1 .. Len(sess)
        BY <1>2, <1>11
  <2>2. CASE s \in S
        BY <1>3, <1>5, <2>1, <2>2
  <2>3. CASE s \notin S
        BY <1>3, <1>5, <1>13, <2>1, <2>3
  <2> QED BY <2>2, <2>3
<1> QED BY <1>2, <1>6, <1>7, <1>9, <1>10, <1>12, <1>13

\* The session is brought to the status; an arrival that comes after the end
\* was not to settle anything.
LEMMA TrackCharged ==
    ASSUME TInv, TInv', Charged, NEW h \in Handler, Track(h)
    PROVE  Charged'
<1>0. PICK e : e = msg[h].field
      OBVIOUS
<1>1. /\ msg[h] \in Message /\ pc[h] = "track" /\ Goto(h, "idle")
      /\ msg[h].op \in {"ARRIVED", "FINISHED", "DECLINE"}
      /\ UNCHANGED <<fieldStatus, crashes, faults, untracked>>
      BY DEF Track, TInv, Serving, bounds
<1>2. \A g \in Handler \ {h} : pc'[g] = pc[g] /\ msg'[g] = msg[g]
      BY <1>1, OneGoes
<1>3. /\ DOMAIN sess' = DOMAIN sess
      /\ \A s \in DOMAIN sess :
            /\ sess'[s].field = sess[s].field
            /\ sess[s].field # e => sess'[s].status = sess[s].status
            /\ IsOpen(s)' => IsOpen(s)
      /\ msg[h].op # "ARRIVED" => OpenOn(e)' = {}
      /\ msg[h].op = "ARRIVED" => \A s \in OpenOn(e)' : sess'[s].status # "ACTIVE"
      BY <1>0, TrackedStatus
<1>4. \A f \in Field : OpenOn(f)' \subseteq OpenOn(f)
      BY <1>3 DEF OpenOn
<1>5. ASSUME NEW f \in Field, f \in Unsettled' PROVE f \in Unsettled
  <2>1. CASE f # e
    <3>1. \A s \in OpenOn(f)' : s \in OpenOn(f) /\ sess'[s].status = sess[s].status
      <4>1. \A s \in OpenOn(f) : s \in DOMAIN sess /\ sess[s].field # e
            BY <2>1 DEF OpenOn
      <4> QED BY <1>3, <1>4, <4>1
    <3>2. Disagrees(f)' => Disagrees(f)
          BY <1>1, <3>1, FewerOpen
    <3> QED BY <1>0, <1>1, <1>2, <1>5, <2>1, <3>2, OthersKeep
  <2>2. CASE f = e
    <3>1. Disagrees(f)'
          BY <1>5 DEF Unsettled
    <3>2. /\ msg[h].op = "ARRIVED"
          /\ fieldStatus[f] \in {"FINISHED_FIELD", "DECLINED"} /\ OpenOn(f)' # {}
          BY <1>1, <1>3, <2>2, <3>1 DEF Disagrees
    <3>3. Disagrees(f)
          BY <1>4, <3>2 DEF Disagrees
    <3>4. ~Settles(h, f)
          BY <1>1, <3>2 DEF Settles
    <3>5. \A g \in Handler : Settles(g, f) => Settles(g, f)'
          BY <1>1, <1>2, <3>4 DEF Settles
    <3> QED BY <1>5, <3>3, <3>5 DEF Unsettled
  <2> QED BY <2>1, <2>2
<1>6. Unsettled' \subseteq Unsettled
      BY <1>5 DEF Unsettled
<1> QED BY <1>1, <1>6, NoneUnsettled

\* A crash leaves a visit for each handler at most.
LEMMA CrashCharged ==
    ASSUME TInv, TInv', Charged, Crash
    PROVE  Charged'
<1> DEFINE place == [h \in Handler |-> msg[h].field]
           T == {place[h] : h \in Handler}
<1>1. /\ UNCHANGED <<fieldStatus, sess, faults, untracked>> /\ crashes' = crashes + 1
      BY DEF Crash, db
<1>2. place \in Surjection(Handler, T)
      BY DEF Surjection
<1>3. IsFiniteSet(T) /\ Cardinality(T) <= Cardinality(Handler)
      BY <1>2, FS_Surjection
<1>4. Unsettled' \subseteq Unsettled \cup T
  <2> SUFFICES ASSUME NEW f \in Field, f \in Unsettled', f \notin Unsettled PROVE f \in T
      BY DEF Unsettled
  <2>1. Disagrees(f)
        BY <1>1 DEF Unsettled, Disagrees, OpenOn, IsOpen
  <2>2. PICK h \in Handler : Settles(h, f)
        BY <2>1 DEF Unsettled
  <2> QED BY <2>2 DEF Settles
<1> HIDE DEF T
<1>5. /\ IsFiniteSet(Unsettled \cup T)
      /\ Cardinality(Unsettled \cup T) <= Cardinality(Unsettled) + Cardinality(T)
      /\ Cardinality(Unsettled) \in Nat /\ Cardinality(T) \in Nat
  <2>1. IsFiniteSet(Unsettled)
        BY DEF Charged
  <2>2. /\ IsFiniteSet(Unsettled \cup T)
        /\ Cardinality(Unsettled \cup T)
             = Cardinality(Unsettled) + Cardinality(T) - Cardinality(Unsettled \cap T)
        BY <1>3, <2>1, FS_Union
  <2>3. IsFiniteSet(Unsettled \cap T)
        BY <2>1, FS_Subset
  <2>4. Cardinality(Unsettled) \in Nat /\ Cardinality(T) \in Nat
        /\ Cardinality(Unsettled \cap T) \in Nat
        BY <1>3, <2>1, <2>3, FS_CardinalityType
  <2> QED BY <2>2, <2>4
<1>6. /\ IsFiniteSet(Unsettled') /\ Cardinality(Unsettled') <= Cardinality(Unsettled \cup T)
      /\ Cardinality(Unsettled') \in Nat /\ Cardinality(Unsettled \cup T) \in Nat
      BY <1>4, <1>5, AtMost
<1>7. /\ Losses' = Losses + Cardinality(Handler)
      /\ Losses \in Nat /\ Cardinality(Handler) \in Nat
      BY <1>1, LossesCount
<1> QED BY <1>3, <1>5, <1>6, <1>7 DEF Charged

\* A statement that fails leaves the visit of its handler.
LEMMA FailCharged ==
    ASSUME TInv, TInv', Charged, NEW h \in Handler, Fail(h)
    PROVE  Charged'
<1> DEFINE e == msg[h].field
<1>1. /\ \E p : Goto(h, p)
      /\ pc[h] # "idle" /\ faults' = faults + 1
      /\ UNCHANGED <<fieldStatus, sess, crashes, untracked>>
  <2>1. CASE OpenFails(h)
        BY <2>1 DEF OpenFails, db
  <2>2. CASE WriteFails(h)
        BY <2>2 DEF WriteFails, db
  <2>3. CASE TrackFails(h)
        BY <2>3 DEF TrackFails, db
  <2>4. CASE NotifyFails(h)
        BY <2>4 DEF NotifyFails, db
  <2> QED BY <2>1, <2>2, <2>3, <2>4 DEF Fail
<1>2. msg[h] \in Message /\ \A g \in Handler \ {h} : pc'[g] = pc[g] /\ msg'[g] = msg[g]
      BY <1>1, OneGoes DEF TInv, Serving
<1>3. ASSUME NEW f \in Field, f # e, f \in Unsettled' PROVE f \in Unsettled
  <2>1. Disagrees(f)' => Disagrees(f)
        BY <1>1 DEF Disagrees, OpenOn, IsOpen
  <2> QED BY <1>1, <1>2, <1>3, <2>1, OthersKeep
<1>4. Unsettled' \subseteq Unsettled \cup {e}
      BY <1>3 DEF Unsettled
<1>5. Losses' = Losses + 1
      BY <1>1, LossesCount
<1> QED BY <1>4, <1>5, OneUnsettled

\* The steps that change neither statuses nor sessions, of handlers that had
\* nothing to settle or still have.
LEMMA QuietlyCharged ==
    ASSUME TInv, TInv', Charged, UNCHANGED <<fieldStatus, sess, crashes, faults, untracked>>,
           \A f \in Field, g \in Handler : Settles(g, f) => Settles(g, f)'
    PROVE  Charged'
<1>1. \A f \in Field : Disagrees(f)' => Disagrees(f)
      BY DEF Disagrees, OpenOn, IsOpen
<1>2. Unsettled' \subseteq Unsettled
      BY <1>1 DEF Unsettled
<1> QED BY <1>2, NoneUnsettled

LEMMA NextCharged == TInv /\ Charged /\ [Next]_vars => Charged'
<1> SUFFICES ASSUME TInv, Charged, [Next]_vars PROVE Charged'
    OBVIOUS
<1>1. TInv'
      BY NextType
<1>2. pc \in [Handler -> Pc] /\ msg \in [Handler -> Message \cup {NoMessage}]
      BY DEF TInv, TypeOK
<1>3. CASE UNCHANGED vars
      BY <1>1, <1>3, QuietlyCharged DEF vars, db, handler, bounds, Settles
<1>4. ASSUME NEW h \in Handler, NEW m \in Message, Receive(h, m) PROVE Charged'
  <2>1. /\ pc[h] = "idle" /\ UNCHANGED <<fieldStatus, sess, crashes, faults, untracked>>
        /\ \A g \in Handler \ {h} : pc'[g] = pc[g] /\ msg'[g] = msg[g]
        BY <1>2, <1>4 DEF Receive, db
  <2>2. \A f \in Field, g \in Handler : Settles(g, f) => Settles(g, f)'
        BY <2>1 DEF Settles
  <2> QED BY <1>1, <2>1, <2>2, QuietlyCharged
<1>5. ASSUME NEW h \in Handler, OpenUpdate(h) PROVE Charged'
  <2>1. /\ UNCHANGED <<fieldStatus, sess, msg, crashes, faults, untracked>>
        /\ pc[h] = "open" /\ pc'[h] = "commit"
        /\ \A g \in Handler \ {h} : pc'[g] = pc[g]
        BY <1>2, <1>5 DEF OpenUpdate, db, bounds
  <2>2. \A f \in Field, g \in Handler : Settles(g, f) => Settles(g, f)'
        BY <2>1 DEF Settles
  <2> QED BY <1>1, <2>1, <2>2, QuietlyCharged
<1>6. ASSUME NEW h \in Handler, Claim(h) \/ Send(h) PROVE Charged'
  <2>1. /\ UNCHANGED <<fieldStatus, sess, crashes, faults, untracked>>
        /\ pc[h] \in {"claim", "send"} /\ \E p : Goto(h, p)
        BY <1>6 DEF Claim, Send, bounds
  <2>2. \A g \in Handler \ {h} : pc'[g] = pc[g] /\ msg'[g] = msg[g]
        BY <2>1, OneGoes
  <2>3. \A f \in Field, g \in Handler : Settles(g, f) => Settles(g, f)'
        BY <2>1, <2>2 DEF Settles
  <2> QED BY <1>1, <2>1, <2>3, QuietlyCharged
<1> QED BY <1>1, <1>3, <1>4, <1>5, <1>6, CommitCharged, WriteCharged, TrackCharged,
           FailCharged, CrashCharged DEF Next, Step

\* However the statements of reports interleave: of the visits with nothing
\* under way, no more disagree with their session than statements were lost.
THEOREM DisagreementsArePaidFor == Spec => []DisagreementsPaidFor
<1>1. Init => TInv /\ Charged
  <2> SUFFICES ASSUME Init PROVE Charged
      BY InitType
  <2>1. Unsettled = {}
        BY DEF Init, Unsettled, Disagrees
  <2>2. Losses = 0
    <3>1. Cardinality(Handler) \in Nat
          BY FS_CardinalityType
    <3> QED BY <3>1 DEF Init, Losses
  <2>3. IsFiniteSet({}) /\ Cardinality({}) = 0
        BY FS_EmptySet
  <2> QED BY <2>1, <2>2, <2>3 DEF Charged
<1>2. TInv /\ Charged /\ [Next]_vars => TInv' /\ Charged'
      BY NextType, NextCharged
<1>3. TInv /\ Charged => DisagreementsPaidFor
  <2> SUFFICES ASSUME TInv, Charged PROVE DisagreementsPaidFor
      OBVIOUS
  <2> DEFINE D == {f \in Field :
                     /\ Quiet(f)
                     /\ \/ /\ fieldStatus[f] \in {"FINISHED_FIELD", "DECLINED"}
                           /\ OpenOn(f) # {}
                        \/ /\ fieldStatus[f] = "ARRIVED"
                           /\ \E s \in OpenOn(f) : sess[s].status = "ACTIVE"}
  <2>1. D \subseteq Unsettled
    <3> SUFFICES ASSUME NEW f \in Field, Quiet(f), Disagrees(f) PROVE f \in Unsettled
        BY DEF Disagrees
    <3>1. \A h \in Handler : pc[h] # "idle" => msg[h] # NoMessage
          BY DEF TInv, Serving, Message, NoMessage, Transition
    <3> QED BY <3>1 DEF Unsettled, Settles, Quiet
  <2>2. Cardinality(D) <= Cardinality(Unsettled)
        /\ Cardinality(D) \in Nat /\ Cardinality(Unsettled) \in Nat
        BY <2>1, AtMost DEF Charged
  <2>3. Losses \in Nat
    <3>1. /\ Cardinality(Handler) \in Nat
          /\ crashes \in Nat /\ faults \in Nat /\ untracked \in Nat
          BY FS_CardinalityType DEF TInv, TypeOK
    <3> QED BY <3>1 DEF Losses
  <2>4. Cardinality(D) <= Losses
        BY <2>2, <2>3 DEF Charged
  <2> HIDE DEF D
  <2> QED BY <2>4 DEF DisagreementsPaidFor, D
<1> QED BY <1>1, <1>2, <1>3, PTL DEF Spec

HIDE LiveTrackingAssumption

-----------------------------------------------------------------------------
(***************************************************************************)
(* The page.                                                               *)
(***************************************************************************)

Busy   == {v \in Visit : poll[v] # NoPoll}
Timers == (orphans \cup {page.timer}) \ {NoTimer}

Shape ==
    /\ DOMAIN page = {"status", "n", "visible", "timer"}
    /\ poll = [v \in Visit |-> poll[v]]
    /\ returns \in Nat
    /\ page.timer \notin orphans /\ NoTimer \notin orphans

Budget ==
    /\ IsFiniteSet(Busy) /\ IsFiniteSet(Timers)
    /\ Cardinality(Busy) + Cardinality(Timers) <= 1 + returns

BInv == Shape /\ Budget

-----------------------------------------------------------------------------
(* What the steps do to the budget.                                        *)

\* Nothing is added.
LEMMA Within ==
    ASSUME BInv, Shape', Busy' \subseteq Busy, Timers' \subseteq Timers,
           returns' >= returns
    PROVE  BInv'
<1>0. IsFiniteSet(Busy) /\ IsFiniteSet(Timers)
  BY DEF BInv, Budget
<1>1. /\ IsFiniteSet(Busy') /\ Cardinality(Busy') <= Cardinality(Busy)
      /\ Cardinality(Busy') \in Nat /\ Cardinality(Busy) \in Nat
  BY <1>0, AtMost
<1>2. /\ IsFiniteSet(Timers') /\ Cardinality(Timers') <= Cardinality(Timers)
      /\ Cardinality(Timers') \in Nat /\ Cardinality(Timers) \in Nat
  BY <1>0, AtMost
<1>3. returns \in Nat /\ Cardinality(Busy) + Cardinality(Timers) <= 1 + returns
  BY DEF BInv, Budget, Shape
<1>4. returns' \in Nat
  BY DEF Shape
<1>5. Cardinality(Busy') + Cardinality(Timers') <= 1 + returns'
  BY <1>1, <1>2, <1>3, <1>4
<1> QED BY <1>1, <1>2, <1>5 DEF BInv, Budget

\* A timer becomes a poll.
LEMMA TimerToPoll ==
    ASSUME BInv, Shape', NEW v, NEW t \in Timers,
           Busy' \subseteq Busy \cup {v}, Timers' \subseteq Timers \ {t},
           returns' = returns
    PROVE  BInv'
<1>0. IsFiniteSet(Busy) /\ IsFiniteSet(Timers)
  BY DEF BInv, Budget
<1>1. /\ IsFiniteSet(Busy') /\ Cardinality(Busy') <= Cardinality(Busy) + 1
      /\ Cardinality(Busy') \in Nat /\ Cardinality(Busy) \in Nat
  BY <1>0, OneMore
<1>2. /\ IsFiniteSet(Timers') /\ Cardinality(Timers') <= Cardinality(Timers) - 1
      /\ Cardinality(Timers') \in Nat /\ Cardinality(Timers) \in Nat
  BY <1>0, OneLess
<1>3. returns \in Nat /\ Cardinality(Busy) + Cardinality(Timers) <= 1 + returns
  BY DEF BInv, Budget, Shape
<1>4. returns' \in Nat
  BY DEF Shape
<1>5. Cardinality(Busy') + Cardinality(Timers') <= 1 + returns'
  BY <1>1, <1>2, <1>3, <1>4
<1> QED BY <1>1, <1>2, <1>5 DEF BInv, Budget

\* A poll becomes a timer, or ceases.
LEMMA PollToTimer ==
    ASSUME BInv, Shape', NEW v \in Busy, NEW t,
           Busy' \subseteq Busy \ {v}, Timers' \subseteq Timers \cup {t},
           returns' = returns
    PROVE  BInv'
<1>0. IsFiniteSet(Busy) /\ IsFiniteSet(Timers)
  BY DEF BInv, Budget
<1>1. /\ IsFiniteSet(Busy') /\ Cardinality(Busy') <= Cardinality(Busy) - 1
      /\ Cardinality(Busy') \in Nat /\ Cardinality(Busy) \in Nat
  BY <1>0, OneLess
<1>2. /\ IsFiniteSet(Timers') /\ Cardinality(Timers') <= Cardinality(Timers) + 1
      /\ Cardinality(Timers') \in Nat /\ Cardinality(Timers) \in Nat
  BY <1>0, OneMore
<1>3. returns \in Nat /\ Cardinality(Busy) + Cardinality(Timers) <= 1 + returns
  BY DEF BInv, Budget, Shape
<1>4. returns' \in Nat
  BY DEF Shape
<1>5. Cardinality(Busy') + Cardinality(Timers') <= 1 + returns'
  BY <1>1, <1>2, <1>3, <1>4
<1> QED BY <1>1, <1>2, <1>5 DEF BInv, Budget

\* The customer comes back.
LEMMA NewPoll ==
    ASSUME BInv, Shape', NEW v,
           Busy' \subseteq Busy \cup {v}, Timers' \subseteq Timers,
           returns' = returns + 1
    PROVE  BInv'
<1>0. IsFiniteSet(Busy) /\ IsFiniteSet(Timers)
  BY DEF BInv, Budget
<1>1. /\ IsFiniteSet(Busy') /\ Cardinality(Busy') <= Cardinality(Busy) + 1
      /\ Cardinality(Busy') \in Nat /\ Cardinality(Busy) \in Nat
  BY <1>0, OneMore
<1>2. /\ IsFiniteSet(Timers') /\ Cardinality(Timers') <= Cardinality(Timers)
      /\ Cardinality(Timers') \in Nat /\ Cardinality(Timers) \in Nat
  BY <1>0, AtMost
<1>3. returns \in Nat /\ Cardinality(Busy) + Cardinality(Timers) <= 1 + returns
  BY DEF BInv, Budget, Shape
<1>4. returns' \in Nat
  BY DEF Shape
<1>5. Cardinality(Busy') + Cardinality(Timers') <= 1 + returns'
  BY <1>1, <1>2, <1>3, <1>4
<1> QED BY <1>1, <1>2, <1>5 DEF BInv, Budget

-----------------------------------------------------------------------------
(* The steps.                                                              *)

\* The page opens with one timer.
LEMMA Initially == PageInit => BInv
<1> SUFFICES ASSUME PageInit PROVE BInv
  OBVIOUS
<1>1. Shape
  BY DEF PageInit, Shape
<1>2. Busy = {} /\ Timers \subseteq {<<1, 0>>}
  BY DEF PageInit, Busy, Timers
<1>3. /\ IsFiniteSet({}) /\ Cardinality({}) = 0
      /\ IsFiniteSet({<<1, 0>>}) /\ Cardinality({<<1, 0>>}) = 1
  BY FS_EmptySet, FS_Singleton
<1>4. /\ IsFiniteSet(Timers) /\ Cardinality(Timers) <= 1
      /\ Cardinality(Timers) \in Nat
  BY <1>2, <1>3, AtMost
<1> QED BY <1>1, <1>2, <1>3, <1>4 DEF BInv, Budget, PageInit

\* poll() up to the answer.
LEMMA Fetching ==
    ASSUME BInv, NEW v \in Visit, NEW visible, Fetch(v, visible)
    PROVE  /\ Busy' = Busy \cup {v}
           /\ page'.timer = NoTimer
           /\ DOMAIN page' = DOMAIN page
           /\ poll' = [w \in Visit |-> poll'[w]]
  BY DEF BInv, Shape, Fetch, Busy, NoPoll

\* A poll that has its answer sets a timer of its own.
LEMMA TimerSet ==
    ASSUME BInv, NEW v \in Busy, NEW shown, NEW d, SetTimer(shown, d),
           DOMAIN shown = DOMAIN page, shown.timer = page.timer,
           Busy' \subseteq Busy \ {v}, poll' = [w \in Visit |-> poll'[w]],
           returns' = returns
    PROVE  BInv'
<1>1. PICK k \in 0 .. MaxReturns :
        /\ {j \in 0 .. k : <<now + d, j>> \notin orphans \cup {page.timer}} = {k}
        /\ page' = [shown EXCEPT !.timer = <<now + d, k>>]
        /\ orphans' = orphans \cup ({page.timer} \ {NoTimer})
  BY DEF SetTimer
<1> DEFINE t == <<now + d, k>>
<1>2. t \notin orphans \cup {page.timer}
  BY <1>1
<1> HIDE DEF t
<1>3. page'.timer = t /\ DOMAIN page' = DOMAIN page
  BY <1>1 DEF BInv, Shape, t
<1>4. Timers' \subseteq Timers \cup {t}
  BY <1>1, <1>3 DEF Timers
<1>5. Shape'
  BY <1>1, <1>2, <1>3 DEF BInv, Shape
<1> QED BY <1>4, <1>5, PollToTimer

\* Every step keeps the budget.
LEMMA PageStep == BInv /\ [PageNext]_pvars => BInv'
<1> SUFFICES ASSUME BInv, [PageNext]_pvars PROVE BInv'
  OBVIOUS
<1> USE DEF phone, screen
<1>1. CASE UNCHANGED <<poll, screen>>
  BY <1>1 DEF BInv, Budget, Shape, Busy, Timers
<1>2. ASSUME NEW v \in Visit, TimerFires(v) PROVE BInv'
  <2>1. Fetch(v, page.visible) /\ orphans' = orphans /\ returns' = returns
    BY <1>2 DEF TimerFires
  <2>2. page.timer # NoTimer /\ page.timer \notin orphans
    BY <1>2 DEF TimerFires, IsDue, BInv, Shape
  <2>3. page.timer \in Timers /\ Timers' \subseteq Timers \ {page.timer}
    BY <2>1, <2>2, Fetching DEF Timers
  <2>4. Shape'
    BY <2>1, Fetching DEF BInv, Shape
  <2> QED BY <2>1, <2>3, <2>4, Fetching, TimerToPoll
<1>3. ASSUME NEW v \in Visit, OrphanFires(v) PROVE BInv'
  <2>1. Fetch(v, page.visible) /\ returns' = returns
    BY <1>3 DEF OrphanFires
  <2>2. PICK t \in orphans : t # NoTimer /\ orphans' = orphans \ {t}
    BY <1>3 DEF OrphanFires, IsDue
  <2>3. t \in Timers /\ Timers' \subseteq Timers \ {t}
    BY <2>1, <2>2, Fetching DEF Timers
  <2>4. Shape'
    BY <2>1, <2>2, Fetching DEF BInv, Shape
  <2> QED BY <2>1, <2>3, <2>4, Fetching, TimerToPoll
<1>4. CASE Hide
  <2>1. UNCHANGED <<poll, orphans, returns>>
    BY <1>4 DEF Hide
  <2>2. page'.timer = NoTimer /\ DOMAIN page' = DOMAIN page
    BY <1>4 DEF Hide, BInv, Shape
  <2>3. Shape'
    BY <2>1, <2>2 DEF BInv, Shape
  <2>4. Busy' = Busy /\ Timers' \subseteq Timers
    BY <2>1, <2>2 DEF Busy, Timers
  <2> QED BY <2>1, <2>3, <2>4, Within DEF BInv, Shape
<1>5. ASSUME NEW v \in Visit, Show(v) PROVE BInv'
  <2>1. Fetch(v, TRUE) /\ orphans' = orphans /\ returns' = returns + 1
    BY <1>5 DEF Show
  <2>2. Timers' \subseteq Timers
    BY <2>1, Fetching DEF Timers
  <2>3. returns' \in Nat
    BY <2>1 DEF BInv, Shape
  <2>4. Shape'
    BY <2>1, <2>3, Fetching DEF BInv, Shape
  <2> QED BY <2>1, <2>2, <2>4, Fetching, NewPoll
<1>6. ASSUME NEW v \in Visit, ApplyState(v) PROVE BInv'
  <2>1. v \in Busy
    BY <1>6 DEF ApplyState, Busy, NoPoll
  <2>2. returns' = returns /\ poll' = [poll EXCEPT ![v] = NoPoll]
    BY <1>6 DEF ApplyState
  <2>3. Busy' \subseteq Busy \ {v} /\ poll' = [w \in Visit |-> poll'[w]]
    BY <2>2 DEF Busy, BInv, Shape
  <2> DEFINE a     == poll[v]
             shown == [page EXCEPT !.status = a.status,
                                   !.n = IF a.n = 0 THEN @ ELSE a.n]
  <2>4. DOMAIN shown = DOMAIN page /\ shown.timer = page.timer
    BY DEF BInv, Shape
  <2>5. \/ page' = shown /\ orphans' = orphans
        \/ SetTimer(shown, Delay(a.status))
    BY <1>6 DEF ApplyState
  <2> HIDE DEF shown
  <2>6. CASE page' = shown /\ orphans' = orphans
    <3>1. Timers' = Timers /\ Shape'
      BY <2>2, <2>3, <2>4, <2>6 DEF BInv, Shape, Timers
    <3> QED BY <2>2, <2>3, <3>1, Within DEF BInv, Shape
  <2>7. CASE SetTimer(shown, Delay(a.status))
    BY <2>1, <2>2, <2>3, <2>4, <2>7, TimerSet
  <2> QED BY <2>5, <2>6, <2>7
<1>7. ASSUME NEW v \in Visit, Catch(v) PROVE BInv'
  <2>1. v \in Busy
    BY <1>7 DEF Catch, Busy, NoPoll
  <2>2. returns' = returns /\ poll' = [poll EXCEPT ![v] = NoPoll]
    BY <1>7 DEF Catch
  <2>3. Busy' \subseteq Busy \ {v} /\ poll' = [w \in Visit |-> poll'[w]]
    BY <2>2 DEF Busy, BInv, Shape
  <2>4. PICK d : SetTimer(page, d)
    BY <1>7 DEF Catch
  <2> QED BY <2>1, <2>2, <2>3, <2>4, TimerSet
<1>8. ASSUME NEW v \in Visit, Lose(v) \/ ReadSession(v) PROVE BInv'
  <2>1. v \in Busy /\ UNCHANGED screen
    BY <1>8 DEF Lose, ReadSession, Busy, NoPoll
  <2>2. PICK p : poll' = [poll EXCEPT ![v] = p]
    BY <1>8 DEF Lose, ReadSession
  <2>3. Busy' \subseteq Busy /\ Shape' /\ Timers' = Timers
    BY <2>1, <2>2 DEF Busy, Timers, BInv, Shape
  <2> QED BY <2>1, <2>3, Within DEF BInv, Shape
<1>9. CASE UNCHANGED pvars
  BY <1>1, <1>9 DEF pvars
<1>10. CASE \/ Tick \/ TakeFix
            \/ \E s \in Watched \cup Terminal : ChangeSession(s)
            \/ \E r \in Request :
                 Post(r) \/ GiveUp(r) \/ UpsertLiveLocation(r) \/ FanOutFails(r)
  BY <1>1, <1>10 DEF Tick, TakeFix, ChangeSession, Post, GiveUp,
                     UpsertLiveLocation, FanOutFails
<1> QED
  BY <1>2, <1>3, <1>4, <1>5, <1>6, <1>7, <1>8, <1>9, <1>10 DEF PageNext, PollOn

\* However polls, pauses, failures and returns interleave: polls under way
\* and timers set are at most one more than the returns to the page.
THEOREM NeverMore == PageSpec => []PollsPaidFor
<1>1. BInv => PollsPaidFor
  BY DEF BInv, Budget, Busy, Timers, PollsPaidFor
<1> QED BY <1>1, Initially, PageStep, PTL DEF PageSpec

-----------------------------------------------------------------------------
(* A page that stays on the screen goes back only after a time-out.        *)

\* The oldest fix that is not acknowledged, or the last one: none later has
\* left the phone.
Front == IF outbox = <<>> THEN taken ELSE taken - Len(outbox) + 1

View(v) == poll[v].pc = "answer" /\ poll[v].status # "error" /\ poll[v].n > 0

PhoneInv ==
    /\ taken \in Nat /\ outbox \in Seq(Nat) /\ Len(outbox) <= taken
    /\ \A i \in 1 .. Len(outbox) : outbox[i] = taken - Len(outbox) + i
    /\ ping \in [Request -> [n : Nat, waits : BOOLEAN]]
    /\ \A r \in Request :
         /\ ping[r] = NoPing \/ ping[r].n \in 1 .. Front
         /\ ping[r].waits => outbox # <<>> /\ ping[r].n = Front
    /\ \A q, r \in Request : ping[q].waits /\ ping[r].waits => q = r
    /\ live \in 0 .. Front

SeenInv ==
    /\ page.n \in 0 .. Front
    /\ \A v \in Visit : poll[v].pc = "answer" => poll[v].n \in 0 .. Front

\* Requests the phone gave up that may still be served.
Abandoned == {r \in Request : ping[r] # NoPing /\ ~ping[r].waits}

Down(x, y) == IF 0 < y /\ y < x THEN 1 ELSE 0

\* Times the page went back or is bound to, and requests that may make it.
PaidInv ==
    /\ backs \in Nat /\ timeouts \in Nat
    /\ IsFiniteSet(Abandoned)
    /\ returns = 0 =>
         /\ backs + Cardinality(Abandoned) + Down(page.n, live) <= timeouts
         /\ \A v \in Visit : View(v) =>
              backs + Cardinality(Abandoned)
                + Down(page.n, poll[v].n) + Down(poll[v].n, live) <= timeouts

JInv == BInv /\ PhoneInv /\ SeenInv /\ PaidInv

\* No more fixes wait than were taken.
LEMMA FrontIsNatural == ASSUME PhoneInv PROVE Front \in Nat
<1>1. Len(outbox) \in Nat
  BY LenProperties DEF PhoneInv
<1> QED BY <1>1 DEF PhoneInv, Front

\* A page nobody returned to waits for one answer at most.
LEMMA OnePoll ==
    ASSUME BInv, returns = 0, NEW v \in Busy, NEW w \in Busy
    PROVE  v = w
<1> SUFFICES ASSUME v # w PROVE FALSE
  OBVIOUS
<1>1. IsFiniteSet(Busy) /\ Cardinality(Busy) <= 1
      /\ Cardinality(Busy) \in Nat
  <2>1. IsFiniteSet(Busy) /\ IsFiniteSet(Timers)
        /\ Cardinality(Busy) + Cardinality(Timers) <= 1
    BY DEF BInv, Budget
  <2>2. Cardinality(Busy) \in Nat /\ Cardinality(Timers) \in Nat
    BY <2>1, FS_CardinalityType
  <2> QED BY <2>1, <2>2
<1>2. /\ IsFiniteSet(Busy \ {v})
      /\ Cardinality(Busy \ {v}) = Cardinality(Busy) - 1
      /\ Cardinality(Busy \ {v}) \in Nat
  BY <1>1, FS_RemoveElement, FS_CardinalityType
<1>3. Cardinality(Busy \ {v}) = 0
  BY <1>1, <1>2
<1> QED BY <1>2, <1>3, FS_EmptySet

\* The initial state.
LEMMA JInitially == PageInit => JInv
<1> SUFFICES ASSUME PageInit PROVE JInv
  OBVIOUS
<1>1. PhoneInv
  BY DEF PageInit, PhoneInv, Front, NoPing
<1>2. SeenInv
  BY DEF PageInit, SeenInv, Front, NoPoll
<1>3. Abandoned = {}
  BY DEF PageInit, Abandoned
<1>4. PaidInv
  BY <1>3, FS_EmptySet DEF PageInit, PaidInv, View, Down, NoPoll
<1> QED BY <1>1, <1>2, <1>4, Initially DEF JInv

\* A step that leaves the phone, the fix shown and the count alone: a poll
\* that goes on learns nothing but the row as it is.
LEMMA PageQuiet ==
    ASSUME JInv, UNCHANGED phone, page'.n = page.n, backs' = backs,
           returns' = 0 => returns = 0,
           \A v \in Visit : \/ poll'[v] = poll[v]
                            \/ poll'[v].pc # "answer"
                            \/ poll'[v].n \in {0, live}
    PROVE  PhoneInv' /\ SeenInv' /\ PaidInv'
<1>1. PhoneInv' /\ Front' = Front /\ Abandoned' = Abandoned
  BY DEF JInv, PhoneInv, Front, Abandoned, phone
<1>2. Front \in Nat /\ live \in 0 .. Front
  BY FrontIsNatural DEF JInv, PhoneInv
<1>3. SeenInv'
  BY <1>1, <1>2 DEF JInv, SeenInv
<1>4. PaidInv'
  <2> SUFFICES ASSUME returns' = 0
               PROVE  /\ backs + Cardinality(Abandoned) + Down(page.n, live)
                           <= timeouts
                      /\ \A v \in Visit : View(v)' =>
                           backs + Cardinality(Abandoned)
                             + Down(page.n, poll'[v].n) + Down(poll'[v].n, live)
                             <= timeouts
    BY <1>1 DEF JInv, PaidInv, phone, Down
  <2>1. backs + Cardinality(Abandoned) + Down(page.n, live) <= timeouts
    BY DEF JInv, PaidInv
  <2>2. ASSUME NEW v \in Visit, View(v)'
        PROVE  backs + Cardinality(Abandoned)
                 + Down(page.n, poll'[v].n) + Down(poll'[v].n, live) <= timeouts
    <3>1. CASE poll'[v] = poll[v]
      BY <2>2, <3>1 DEF JInv, PaidInv, View
    <3>2. CASE poll'[v].n = live
      <4>1. Down(live, live) = 0
        BY <1>2 DEF Down
      <4>2. Cardinality(Abandoned) \in Nat /\ backs \in Nat
            /\ Down(page.n, live) \in Nat
        BY FS_CardinalityType DEF JInv, PaidInv, Down
      <4> QED BY <2>1, <3>2, <4>1, <4>2
    <3> QED BY <2>2, <3>1, <3>2 DEF View
  <2> QED BY <2>1, <2>2
<1> QED BY <1>1, <1>3, <1>4

\* An outbox is empty if its length is zero.
LEMMA FrontByLength ==
    ASSUME NEW s \in Seq(Nat)
    PROVE  Len(s) \in Nat /\ (s = <<>> <=> Len(s) = 0)
  BY EmptySeq, LenProperties

\* A request is served: what the phone knows stays in order, and a request
\* it had given up is counted no longer.
LEMMA Served ==
    ASSUME JInv, NEW r \in Request, ping[r] # NoPing, Acknowledge(r),
           live' \in {live, ping[r].n}
    PROVE  PhoneInv' /\ Front' >= Front /\ Abandoned' = Abandoned \ {r}
<1>0. /\ outbox' = IF ping[r].waits THEN Tail(outbox) ELSE outbox
      /\ ping' = [ping EXCEPT ![r] = NoPing]
      /\ taken' = taken
  BY DEF Acknowledge
<1>1. Front \in Nat /\ PhoneInv
  BY FrontIsNatural DEF JInv
<1>2. CASE ping[r].waits
  <2>1. outbox # <<>> /\ outbox \in Seq(Nat) /\ outbox' = Tail(outbox)
    BY <1>0, <1>1, <1>2 DEF PhoneInv
  <2>2. /\ outbox' \in Seq(Nat) /\ Len(outbox') = Len(outbox) - 1
        /\ \A i \in 1 .. Len(outbox') : outbox'[i] = outbox[i + 1]
        /\ Len(outbox) \in Nat \ {0}
    BY <2>1, HeadTailProperties, EmptySeq
  <2>3. taken \in Nat /\ Len(outbox) <= taken /\ Len(outbox') \in Nat
    BY <1>1, <2>2 DEF PhoneInv
  <2>4. outbox' = <<>> <=> Len(outbox') = 0
    BY <2>2, FrontByLength
  <2>5. Front = taken - Len(outbox) + 1
    BY <2>1 DEF Front
  <2>6. Front' = IF Len(outbox') = 0 THEN taken ELSE taken - Len(outbox') + 1
    BY <1>0, <2>4 DEF Front
  <2>7. Front' \in Nat /\ Front' >= Front
    BY <2>2, <2>3, <2>5, <2>6
  <2>8. \A i \in 1 .. Len(outbox') : outbox'[i] = taken' - Len(outbox') + i
    <3> SUFFICES ASSUME NEW i \in 1 .. Len(outbox')
                 PROVE  outbox'[i] = taken - Len(outbox') + i
      BY <1>0
    <3>1. i + 1 \in 1 .. Len(outbox)
      BY <2>2
    <3>2. outbox[i + 1] = taken - Len(outbox) + (i + 1)
      BY <1>1, <3>1 DEF PhoneInv
    <3> QED BY <2>2, <2>3, <3>2
  <2>9. \A q \in Request : ~ping'[q].waits
    BY <1>0, <1>1, <1>2 DEF PhoneInv, NoPing
  <2>10. /\ ping' \in [Request -> [n : Nat, waits : BOOLEAN]]
         /\ \A q \in Request : ping'[q] = NoPing \/ ping'[q].n \in 1 .. Front'
    <3>1. \A q \in Request :
            ping'[q] = NoPing \/ ping'[q] = ping[q]
      BY <1>0, <1>1 DEF PhoneInv
    <3>2. ping' \in [Request -> [n : Nat, waits : BOOLEAN]]
      BY <1>0, <1>1 DEF PhoneInv, NoPing
    <3>3. \A q \in Request : ping[q] = NoPing \/ ping[q].n \in 1 .. Front'
      BY <1>1, <2>7 DEF PhoneInv
    <3> QED BY <3>1, <3>2, <3>3
  <2>11. live' \in 0 .. Front'
    BY <1>1, <2>7 DEF PhoneInv
  <2>12. Len(outbox') <= taken
    BY <2>2, <2>3
  <2>13. \A q \in Request : ping'[q].waits =>
          outbox' # <<>> /\ ping'[q].n = Front'
    BY <2>9
  <2>14. \A p, q \in Request : ping'[p].waits /\ ping'[q].waits => p = q
    BY <2>9
  <2>15. PhoneInv'
    BY <1>0, <2>2, <2>3, <2>8, <2>10, <2>11, <2>12, <2>13, <2>14 DEF PhoneInv
  <2>16. Abandoned' = Abandoned \ {r}
    BY <1>0, <1>1 DEF PhoneInv, Abandoned
  <2> QED BY <1>1, <2>7, <2>15, <2>16
<1>3. CASE ~ping[r].waits
  <2>1. outbox' = outbox /\ Front' = Front
    BY <1>0, <1>3 DEF Front
  <2>2. /\ ping' \in [Request -> [n : Nat, waits : BOOLEAN]]
        /\ \A q \in Request : ping'[q] = ping[q] \/ ping'[q] = NoPing
    BY <1>0, <1>1 DEF PhoneInv, NoPing
  <2>3. live' \in 0 .. Front
    BY <1>1 DEF PhoneInv
  <2>4. ~NoPing.waits
    BY DEF NoPing
  <2>5. \A q \in Request :
          /\ ping'[q] = NoPing \/ ping'[q].n \in 1 .. Front
          /\ ping'[q].waits =>
               ping[q].waits /\ outbox # <<>> /\ ping'[q].n = Front
    BY <1>1, <2>2, <2>4 DEF PhoneInv
  <2>6. PhoneInv'
    BY <1>0, <1>1, <2>1, <2>2, <2>3, <2>5 DEF PhoneInv
  <2>7. Abandoned' = Abandoned \ {r}
    BY <1>0, <1>1 DEF PhoneInv, Abandoned
  <2> QED BY <1>1, <2>1, <2>6, <2>7
<1> QED BY <1>2, <1>3

\* A fix is taken, or the one at the head of the outbox is sent.
LEMMA Sending ==
    ASSUME JInv, TakeFix \/ \E r \in Request : Post(r)
    PROVE  PhoneInv' /\ Front' >= Front /\ Abandoned' = Abandoned
<1>1. Front \in Nat /\ PhoneInv /\ outbox \in Seq(Nat)
      /\ Len(outbox) \in Nat /\ taken \in Nat
  BY FrontIsNatural, LenProperties DEF JInv, PhoneInv
<1>2. CASE TakeFix
  <2>1. /\ taken' = taken + 1 /\ outbox' = Append(outbox, taken + 1)
        /\ ping' = ping /\ live' = live
    BY <1>2 DEF TakeFix
  <2>2. /\ outbox' \in Seq(Nat) /\ Len(outbox') = Len(outbox) + 1
        /\ \A i \in 1 .. Len(outbox) : outbox'[i] = outbox[i]
        /\ outbox'[Len(outbox) + 1] = taken + 1 /\ outbox' # <<>>
    BY <1>1, <2>1, AppendProperties
  <2>3. \A i \in 1 .. Len(outbox') : outbox'[i] = taken' - Len(outbox') + i
    <3>1. \A i \in 1 .. Len(outbox) : outbox'[i] = taken - Len(outbox) + i
      BY <1>1, <2>2 DEF PhoneInv
    <3>2. \A i \in 1 .. Len(outbox') :
            i \in 1 .. Len(outbox) \/ i = Len(outbox) + 1
      BY <1>1, <2>2
    <3> QED BY <1>1, <2>1, <2>2, <3>1, <3>2
  <2>4. Front' >= Front /\ Front' \in Nat /\ (outbox # <<>> => Front' = Front)
    BY <1>1, <2>1, <2>2 DEF PhoneInv, Front
  <2>5. PhoneInv'
    BY <1>1, <2>1, <2>2, <2>3, <2>4 DEF PhoneInv
  <2> QED BY <2>1, <2>4, <2>5 DEF Abandoned
<1>3. ASSUME NEW r \in Request, Post(r)
      PROVE  PhoneInv' /\ Front' >= Front /\ Abandoned' = Abandoned
  <2>1. /\ outbox # <<>> /\ ping[r] = NoPing
        /\ \A q \in Request : ~ping[q].waits
        /\ ping' = [ping EXCEPT ![r] = [n |-> Head(outbox), waits |-> TRUE]]
        /\ UNCHANGED <<outbox, taken, live>>
    BY <1>3 DEF Post
  <2>2. Front' = Front /\ Front \in 1 .. Front /\ Head(outbox) = Front
    BY <1>1, <2>1 DEF PhoneInv, Front
  <2>3. /\ ping' \in [Request -> [n : Nat, waits : BOOLEAN]]
        /\ \A q \in Request \ {r} : ping'[q] = ping[q]
        /\ ping'[r].n = Front /\ ping'[r].waits
    BY <1>1, <2>1, <2>2 DEF PhoneInv
  <2>4. PhoneInv'
    BY <1>1, <2>1, <2>2, <2>3 DEF PhoneInv
  <2>5. Abandoned' = Abandoned
    BY <2>1, <2>3 DEF Abandoned
  <2> QED BY <1>1, <2>2, <2>4, <2>5
<1> QED BY <1>2, <1>3

\* What the page has seen stays behind the front.
LEMMA Behind ==
    ASSUME JInv, Front' \in Nat, Front' >= Front, UNCHANGED <<page, poll>>
    PROVE  SeenInv'
<1>1. Front \in Nat
  BY FrontIsNatural DEF JInv
<1> QED BY <1>1 DEF JInv, SeenInv

\* The sums of PaidInv are of natural numbers.
LEMMA Naturals ==
    ASSUME PaidInv
    PROVE  /\ backs \in Nat /\ timeouts \in Nat
           /\ Cardinality(Abandoned) \in Nat
           /\ \A x, y : Down(x, y) \in {0, 1}
  BY FS_CardinalityType DEF PaidInv, Down

\* A fix is taken or sent: nothing is promised yet.
LEMMA PaidSending ==
    ASSUME JInv, TakeFix \/ \E r \in Request : Post(r)
    PROVE  PhoneInv' /\ SeenInv' /\ PaidInv'
<1>1. PhoneInv' /\ Front' >= Front /\ Abandoned' = Abandoned
  BY Sending
<1>2. UNCHANGED <<page, poll, live, backs, timeouts, returns>>
  BY DEF TakeFix, Post, screen
<1>3. Front' \in Nat
  <2>1. outbox' \in Seq(Nat) /\ taken' \in Nat /\ Len(outbox') <= taken'
    BY <1>1 DEF PhoneInv
  <2>2. Len(outbox') \in Nat
    BY <2>1, LenProperties
  <2> QED BY <2>1, <2>2 DEF Front
<1>4. PaidInv'
  BY <1>1, <1>2 DEF JInv, PaidInv, View, Down
<1> QED BY <1>1, <1>2, <1>3, <1>4, Behind

\* The phone gives a request up: a time-out is counted for it.
LEMMA PaidGiveUp ==
    ASSUME JInv, NEW r \in Request, GiveUp(r)
    PROVE  PhoneInv' /\ SeenInv' /\ PaidInv'
<1>1. /\ ping[r].waits
      /\ timeouts' = timeouts + 1
      /\ ping' = [ping EXCEPT ![r].waits = FALSE]
      /\ UNCHANGED <<page, poll, live, backs, returns, outbox, taken>>
  BY DEF GiveUp, screen
<1>2. PhoneInv /\ Front' = Front /\ Front \in Nat
  BY <1>1, FrontIsNatural DEF JInv, Front
<1>3. /\ ping' \in [Request -> [n : Nat, waits : BOOLEAN]]
      /\ \A q \in Request \ {r} : ping'[q] = ping[q]
      /\ ping'[r].n = ping[r].n /\ ~ping'[r].waits
  BY <1>1, <1>2 DEF PhoneInv
<1>4. ping[r].n \in 1 .. Front
  BY <1>1, <1>2 DEF PhoneInv, NoPing
<1>5. PhoneInv'
  BY <1>1, <1>2, <1>3, <1>4 DEF PhoneInv
<1>6. Abandoned' \subseteq Abandoned \cup {r}
  BY <1>3 DEF Abandoned
<1>7. /\ IsFiniteSet(Abandoned')
      /\ Cardinality(Abandoned') <= Cardinality(Abandoned) + 1
      /\ Cardinality(Abandoned') \in Nat
  BY <1>6, OneMore DEF JInv, PaidInv
<1>8. SeenInv'
  BY <1>1, <1>2, Behind
<1>9. PaidInv'
  <2>1. timeouts' \in Nat /\ backs' \in Nat
    BY <1>1 DEF JInv, PaidInv
  <2>2. ASSUME returns' = 0
        PROVE  backs' + Cardinality(Abandoned') + Down(page'.n, live')
                 <= timeouts'
    <3>1. backs + Cardinality(Abandoned) + Down(page.n, live) <= timeouts
      BY <1>1, <2>2 DEF JInv, PaidInv
    <3> QED BY <1>1, <1>7, <3>1, Naturals DEF JInv
  <2>3. ASSUME returns' = 0, NEW v \in Visit, View(v)'
        PROVE  backs' + Cardinality(Abandoned')
                 + Down(page'.n, poll'[v].n) + Down(poll'[v].n, live')
                 <= timeouts'
    <3>1. backs + Cardinality(Abandoned)
            + Down(page.n, poll[v].n) + Down(poll[v].n, live) <= timeouts
      BY <1>1, <2>3 DEF JInv, PaidInv, View
    <3> QED BY <1>1, <1>7, <3>1, Naturals DEF JInv
  <2> QED BY <1>7, <2>1, <2>2, <2>3 DEF PaidInv
<1> QED BY <1>5, <1>8, <1>9

\* The server answers: the request the phone waits for carries the front, and
\* one it gave up is counted no longer.
LEMMA PaidServed ==
    ASSUME JInv, NEW r \in Request, UpsertLiveLocation(r) \/ FanOutFails(r)
    PROVE  PhoneInv' /\ SeenInv' /\ PaidInv'
<1>1. /\ ping[r] # NoPing /\ Acknowledge(r)
      /\ live' \in {live, ping[r].n}
      /\ UNCHANGED <<page, poll, backs, returns, timeouts>>
  BY DEF UpsertLiveLocation, FanOutFails, Acknowledge, screen
<1>2. PhoneInv' /\ Front' >= Front /\ Abandoned' = Abandoned \ {r}
  BY <1>1, Served
<1>3. Front' \in Nat
  <2>1. outbox' \in Seq(Nat) /\ taken' \in Nat /\ Len(outbox') <= taken'
    BY <1>2 DEF PhoneInv
  <2>2. Len(outbox') \in Nat
    BY <2>1, LenProperties
  <2> QED BY <2>1, <2>2 DEF Front
<1>4. SeenInv'
  BY <1>1, <1>2, <1>3, Behind
<1>5. /\ IsFiniteSet(Abandoned')
      /\ Cardinality(Abandoned') <= Cardinality(Abandoned)
      /\ Cardinality(Abandoned') \in Nat
  BY <1>2, AtMost DEF JInv, PaidInv
\* Nothing that is in the row, shown or read falls behind by it unpaid.
<1>6. ASSUME NEW x \in 0 .. Front
      PROVE  Cardinality(Abandoned') + Down(x, live')
               <= Cardinality(Abandoned) + Down(x, live)
  <2>1. CASE live' = live
    BY <1>5, <2>1, Naturals DEF JInv
  <2>2. CASE live' = ping[r].n /\ ping[r].waits
    <3>1. live' = Front
      BY <2>2 DEF JInv, PhoneInv
    <3>2. Front \in Nat
      BY FrontIsNatural DEF JInv
    <3>3. Down(x, live') = 0
      BY <3>1, <3>2 DEF Down
    <3> QED BY <1>5, <3>3, Naturals DEF JInv
  <2>3. CASE ~ping[r].waits
    <3>1. r \in Abandoned
      BY <1>1, <2>3 DEF Abandoned
    <3>2. Cardinality(Abandoned') <= Cardinality(Abandoned) - 1
      BY <1>2, <3>1, OneLess DEF JInv, PaidInv
    <3> QED BY <1>5, <3>2, Naturals DEF JInv
  <2> QED BY <1>1, <2>1, <2>2, <2>3
<1>7. PaidInv'
  <2>1. ASSUME returns' = 0
        PROVE  backs' + Cardinality(Abandoned') + Down(page'.n, live')
                 <= timeouts'
    <3>1. backs + Cardinality(Abandoned) + Down(page.n, live) <= timeouts
      BY <1>1, <2>1 DEF JInv, PaidInv
    <3>2. page.n \in 0 .. Front
      BY DEF JInv, SeenInv
    <3>3. Cardinality(Abandoned') + Down(page.n, live')
            <= Cardinality(Abandoned) + Down(page.n, live)
      BY <1>6, <3>2
    <3> QED BY <1>1, <1>5, <3>1, <3>3, Naturals DEF JInv
  <2>2. ASSUME returns' = 0, NEW v \in Visit, View(v)'
        PROVE  backs' + Cardinality(Abandoned')
                 + Down(page'.n, poll'[v].n) + Down(poll'[v].n, live')
                 <= timeouts'
    <3>1. backs + Cardinality(Abandoned)
            + Down(page.n, poll[v].n) + Down(poll[v].n, live) <= timeouts
      BY <1>1, <2>2 DEF JInv, PaidInv, View
    <3>2. poll[v].n \in 0 .. Front
      BY <1>1, <2>2 DEF JInv, SeenInv, View
    <3>3. Cardinality(Abandoned') + Down(poll[v].n, live')
            <= Cardinality(Abandoned) + Down(poll[v].n, live)
      BY <1>6, <3>2
    <3> QED BY <1>1, <1>5, <3>1, <3>3, Naturals DEF JInv
  <2>3. timeouts' \in Nat /\ backs' \in Nat
    BY <1>1 DEF JInv, PaidInv
  <2> QED BY <1>5, <2>1, <2>2, <2>3 DEF PaidInv
<1> QED BY <1>2, <1>4, <1>7

\* An answer is shown: a page nobody returned to has no other under way, and
\* the way back was counted when the answer was read.
LEMMA PaidApply ==
    ASSUME JInv, NEW v \in Visit, ApplyState(v)
    PROVE  PhoneInv' /\ SeenInv' /\ PaidInv'
<1>1. /\ poll[v].pc = "answer" /\ poll[v].status # "error"
      /\ backs' = IF 0 < poll[v].n /\ poll[v].n < page.n
                  THEN backs + 1 ELSE backs
      /\ poll' = [poll EXCEPT ![v] = NoPoll]
      /\ UNCHANGED <<outbox, taken, ping, live, timeouts, returns>>
  BY DEF ApplyState, phone
<1>2. page'.n = IF poll[v].n = 0 THEN page.n ELSE poll[v].n
  <2> DEFINE shown == [page EXCEPT !.status = poll[v].status,
                                   !.n = IF poll[v].n = 0 THEN @
                                                          ELSE poll[v].n]
  <2>1. DOMAIN page = {"status", "n", "visible", "timer"}
    BY DEF JInv, BInv, Shape
  <2>2. /\ DOMAIN shown = DOMAIN page
        /\ shown.n = IF poll[v].n = 0 THEN page.n ELSE poll[v].n
    BY <2>1
  <2>3. page' = shown \/ \E d : page' = [shown EXCEPT !.timer = d]
    BY DEF ApplyState, SetTimer
  <2> HIDE DEF shown
  <2> QED BY <2>1, <2>2, <2>3
<1>3. PhoneInv' /\ Front' = Front /\ Abandoned' = Abandoned
  BY <1>1 DEF JInv, PhoneInv, Front, Abandoned
<1>4. \A w \in Visit : poll'[w].pc = "answer" => w # v /\ poll'[w] = poll[w]
  BY <1>1 DEF JInv, BInv, Shape, NoPoll
<1>5. Front \in Nat /\ poll[v].n \in 0 .. Front /\ page.n \in 0 .. Front
  BY <1>1, FrontIsNatural DEF JInv, SeenInv
<1>6. SeenInv'
  BY <1>2, <1>3, <1>4, <1>5 DEF JInv, SeenInv
<1>7. backs' \in Nat /\ timeouts' \in Nat /\ IsFiniteSet(Abandoned')
  BY <1>1, <1>3 DEF JInv, PaidInv
<1>8. ASSUME returns' = 0
      PROVE  backs' + Cardinality(Abandoned') + Down(page'.n, live')
               <= timeouts'
  <2>1. CASE poll[v].n = 0
    <3>1. backs + Cardinality(Abandoned) + Down(page.n, live) <= timeouts
      BY <1>1, <1>8 DEF JInv, PaidInv
    <3>2. page'.n = page.n /\ backs' = backs
      BY <1>1, <1>2, <2>1
    <3> QED BY <1>1, <1>3, <3>1, <3>2
  <2>2. CASE poll[v].n # 0
    <3>1. poll[v].n > 0
      BY <1>5, <2>2
    <3>2. backs + Cardinality(Abandoned)
            + Down(page.n, poll[v].n) + Down(poll[v].n, live) <= timeouts
      BY <1>1, <1>8, <3>1 DEF JInv, PaidInv, View
    <3>3. backs' = backs + Down(page.n, poll[v].n)
      <4>1. backs \in Nat
        BY DEF JInv, PaidInv
      <4> QED BY <1>1, <4>1 DEF Down
    <3>4. page'.n = poll[v].n
      BY <1>2, <2>2
    <3> QED BY <1>1, <1>3, <3>2, <3>3, <3>4, Naturals DEF JInv
  <2> QED BY <2>1, <2>2
<1>9. ASSUME returns' = 0, NEW w \in Visit, View(w)' PROVE FALSE
  <2>1. w # v /\ poll'[w] = poll[w] /\ poll'[w].pc = "answer"
    BY <1>4, <1>9 DEF View
  <2>2. v \in Busy /\ w \in Busy
    BY <1>1, <2>1 DEF Busy, NoPoll
  <2> QED BY <1>1, <1>9, <2>1, <2>2, OnePoll DEF JInv
<1>10. PaidInv'
  BY <1>7, <1>8, <1>9 DEF PaidInv
<1> QED BY <1>3, <1>6, <1>10

\* A poll begins.
LEMMA PaidFetch ==
    ASSUME JInv, NEW v \in Visit, TimerFires(v) \/ OrphanFires(v) \/ Show(v)
    PROVE  PhoneInv' /\ SeenInv' /\ PaidInv'
<1>1. PICK visible : Fetch(v, visible)
  BY DEF TimerFires, OrphanFires, Show
<1>2. /\ UNCHANGED phone /\ backs' = backs
      /\ returns' = returns \/ returns' = returns + 1
  BY DEF TimerFires, OrphanFires, Show
<1>3. page'.n = page.n
  BY <1>1 DEF Fetch, JInv, BInv, Shape
<1>4. \A w \in Visit : poll'[w] = poll[w] \/ poll'[w].pc # "answer"
  BY <1>1 DEF Fetch, JInv, BInv, Shape
<1>5. returns' = 0 => returns = 0
  BY <1>2 DEF JInv, BInv, Shape
<1> QED BY <1>2, <1>3, <1>4, <1>5, PageQuiet

\* Every step keeps the account.
LEMMA JStep == JInv /\ [PageNext]_pvars => JInv'
<1> SUFFICES ASSUME JInv, [PageNext]_pvars
             PROVE  PhoneInv' /\ SeenInv' /\ PaidInv'
  BY PageStep DEF JInv
<1>0. /\ DOMAIN page = {"status", "n", "visible", "timer"}
      /\ poll = [v \in Visit |-> poll[v]]
  BY DEF JInv, BInv, Shape
<1>1. CASE Tick \/ (\E s \in Watched \cup Terminal : ChangeSession(s))
           \/ UNCHANGED pvars
  BY <1>1, PageQuiet DEF Tick, ChangeSession, pvars, screen, phone
<1>2. CASE Hide
  BY <1>0, <1>2, PageQuiet DEF Hide
<1>3. CASE TakeFix \/ \E r \in Request : Post(r)
  BY <1>3, PaidSending
<1>4. CASE \E r \in Request : GiveUp(r)
  BY <1>4, PaidGiveUp
<1>5. CASE \E r \in Request : UpsertLiveLocation(r) \/ FanOutFails(r)
  BY <1>5, PaidServed
<1>6. CASE \E v \in Visit : TimerFires(v) \/ OrphanFires(v) \/ Show(v)
  BY <1>6, PaidFetch
<1>7. ASSUME NEW v \in Visit, ReadSession(v) \/ Lose(v)
      PROVE  PhoneInv' /\ SeenInv' /\ PaidInv'
  <2>1. UNCHANGED phone /\ UNCHANGED screen
    BY <1>7 DEF ReadSession, Lose
  <2>2. PICK p : poll' = [poll EXCEPT ![v] = p] /\ p.n \in {0, live}
    <3> DEFINE n == IF EffectiveStatus \in Terminal THEN 0 ELSE live
               answer == [pc |-> "answer", status |-> EffectiveStatus, n |-> n]
    <3>1. \/ poll' = [poll EXCEPT ![v] = answer]
          \/ poll' = [poll EXCEPT ![v] = Failed]
      BY <1>7 DEF ReadSession, Lose
    <3>2. answer.n \in {0, live} /\ Failed.n \in {0, live}
      BY DEF Failed
    <3> HIDE DEF answer, n
    <3> QED BY <3>1, <3>2
  <2>3. \A w \in Visit : poll'[w] = poll[w] \/ poll'[w].n \in {0, live}
    BY <1>0, <2>2
  <2> QED BY <2>1, <2>3, PageQuiet DEF screen
<1>8. ASSUME NEW v \in Visit, Catch(v)
      PROVE  PhoneInv' /\ SeenInv' /\ PaidInv'
  <2>1. /\ UNCHANGED <<phone, backs, returns>>
        /\ poll' = [poll EXCEPT ![v] = NoPoll]
        /\ \E d : page' = [page EXCEPT !.timer = d]
    BY <1>8 DEF Catch, SetTimer
  <2>2. page'.n = page.n
    BY <1>0, <2>1
  <2>3. \A w \in Visit : poll'[w] = poll[w] \/ poll'[w].pc # "answer"
    BY <1>0, <2>1 DEF NoPoll
  <2> QED BY <2>1, <2>2, <2>3, PageQuiet
<1>9. CASE \E v \in Visit : ApplyState(v)
  BY <1>9, PaidApply
<1> QED BY <1>1, <1>2, <1>3, <1>4, <1>5, <1>6, <1>7, <1>8, <1>9
        DEF PageNext, PollOn

\* A page that stays on the screen shows the worker jump back only on account
\* of a request the phone gave up, however fixes, requests, polls, failures
\* and the end of the trip interleave.
THEOREM BackIsPaidFor == PageSpec => []BacksPaidFor
<1>1. JInv => BacksPaidFor
  <2> SUFFICES ASSUME JInv, returns = 0 PROVE backs <= timeouts
    BY DEF BacksPaidFor
  <2>1. backs + Cardinality(Abandoned) + Down(page.n, live) <= timeouts
    BY DEF JInv, PaidInv
  <2> QED BY <2>1, Naturals DEF JInv
<1> QED BY <1>1, JInitially, JStep, PTL DEF PageSpec

-----------------------------------------------------------------------------
(***************************************************************************)
(* The minutes.                                                            *)
(***************************************************************************)

Ratio  == [num : Nat, den : Nat \ {0}]
Input  == Nat \X Ratio \X Nat \X Nat
ServedPoll == [pc : {"resolve", "estimate"}, place : Place \cup {0},
           at : 0 .. Horizon, fresh : BOOLEAN, travel : Nat]

\* The minutes of a source, without slow progress and without a cap.
Plain(raw, base) ==
    Larger(FloorMinutes(base),
           Rounding(base) * CeilDiv(Composed(raw, base, FALSE),
                                    60 * Rounding(base) * 4 * raw.den))

Uncapped(from) ==
    Plain(PickRawSeconds(from[1], from[2], from[3], from[4]), from[1])

Explained(q) ==
    /\ q.eta \in Nat
    /\ q.eta > 0 =>
         /\ q.eta >= Uncapped(q.from)
         /\ q.slow \/ q.capped \/ q.eta = Uncapped(q.from)

\* Only a poll that has a position waits for a route.
CallsTyped ==
    /\ call \in [Caller -> {NoCall} \cup ServedPoll]
    /\ \A c \in Caller : call[c].pc = "estimate" => call[c].place # 0

Typed ==
    /\ time \in 0 .. Horizon
    /\ fix.place \in Place \cup {0}
    /\ declared \in Nat
    /\ CallsTyped

Remembered == memory.shown \in Nat /\ memory.ratio \in Ratio

EInv == Typed /\ Remembered /\ Explained(quote)

-----------------------------------------------------------------------------
(* Arithmetic.                                                             *)

\* The quotient and its remainder.
LEMMA DivBounds ==
    ASSUME NEW a \in Nat, NEW d \in Nat \ {0}
    PROVE  a \div d \in Nat /\ d * (a \div d) <= a /\ a < d * (a \div d) + d
  BY SMT

\* Multiplication by a number that is not negative keeps the order.
LEMMA TimesMonotone ==
    ASSUME NEW x \in Int, NEW y \in Int, NEW d \in Nat, x <= y
    PROVE  d * x <= d * y
  BY SMT

\* Rounding up keeps the order.
LEMMA CeilMonotone ==
    ASSUME NEW a \in Nat, NEW b \in Nat, NEW d \in Nat \ {0}, a <= b
    PROVE  /\ CeilDiv(a, d) \in Nat /\ CeilDiv(b, d) \in Nat
           /\ CeilDiv(a, d) <= CeilDiv(b, d)
<1> DEFINE p == (a + d - 1) \div d
           q == (b + d - 1) \div d
<1>1. p \in Nat /\ d * p <= a + d - 1
  BY DivBounds
<1>2. q \in Nat /\ b + d - 1 < d * q + d
  BY DivBounds
<1> HIDE DEF p, q
<1>3. ASSUME p > q PROVE FALSE
  <2>1. d * (q + 1) <= d * p
    BY <1>1, <1>2, <1>3, TimesMonotone
  <2>2. d * (q + 1) = d * q + d
    BY <1>2
  <2> QED BY <2>1, <2>2, <1>1, <1>2
<1> QED BY <1>3, <1>1, <1>2 DEF CeilDiv, p, q

\* A source is a fraction, whatever layer it comes from.
LEMMA RawIsRatio ==
    ASSUME NEW base \in Nat, NEW ratio \in Ratio, NEW load \in Nat,
           NEW travel \in Nat
    PROVE  PickRawSeconds(base, ratio, load, travel) \in Ratio
<1>1. base * ratio.num \in Nat /\ ratio.den \in Nat \ {0}
  BY SMT DEF Ratio
<1>2. base * load \in Nat /\ 60 * travel \in Nat
  BY SMT
<1> QED BY <1>1, <1>2 DEF PickRawSeconds, Ratio

\* The worker's estimate makes a fraction, or none.
LEMMA CalibrationIsRatio ==
    ASSUME NEW travel \in Nat, NEW base \in Nat
    PROVE  Calibrate(travel, base) \in Ratio
  BY DEF Calibrate, NoRatio, Ratio

\* What slow progress, or the cap, does to the number shown.
LEMMA NumberShown ==
    ASSUME NEW raw \in Ratio, NEW base \in Nat, NEW slow \in BOOLEAN,
           NEW prev \in Nat
    PROVE  LET eta == ComputeConservativeEta(raw, base, slow, prev)
           IN  /\ eta \in Nat
               /\ eta > 0 => eta >= Plain(raw, base)
               /\ eta > 0 => \/ slow
                             \/ Cap(raw, base, prev) > Composed(raw, base, slow)
                             \/ eta = Plain(raw, base)
<1> DEFINE step   == Rounding(base)
           floor  == FloorMinutes(base)
           plain  == Composed(raw, base, FALSE)
           before == Composed(raw, base, slow)
           cap    == Cap(raw, base, prev)
           all    == Larger(before, cap)
           unit   == 60 * step * 4 * raw.den
           low    == CeilDiv(plain, unit)
           top    == CeilDiv(all, unit)
<1>10. Plain(raw, base) = Larger(floor, step * low)
  BY DEF Plain
<1>11. ComputeConservativeEta(raw, base, slow, prev) =
         IF raw.num = 0 THEN 0 ELSE Larger(floor, step * top)
  BY DEF ComputeConservativeEta
<1>12. all = plain => top = low
  OBVIOUS
<1> HIDE DEF step, floor, plain, before, cap, all, unit, low, top
<1>1. step \in {1, 5} /\ floor \in {1, 3}
  BY DEF step, floor, Rounding, FloorMinutes, RoundTo, MinDisplay
<1>2. raw.num \in Nat /\ raw.den \in Nat \ {0}
  BY DEF Ratio
<1>3. unit \in Nat \ {0}
  BY <1>1, <1>2 DEF unit
<1>4. plain \in Nat /\ before \in Nat /\ plain <= before
      /\ (~slow => before = plain)
  <2>1. FloorMinutes(base) \in {1, 3}
    BY <1>1 DEF floor
  <2> QED BY <1>2, <2>1 DEF plain, before, Composed, Larger, Buffer, LastBuffer
<1>5. cap \in Nat
  <2>1. 30 * prev * 4 \in Nat
    OBVIOUS
  <2>2. (30 * prev * 4) * raw.den \in Nat
    BY <1>2, <2>1
  <2> QED BY <2>2 DEF cap, Cap
<1>6. all \in Nat /\ plain <= all
  BY <1>4, <1>5 DEF Larger, all
<1>7. slow \/ cap > before \/ all = plain
  BY <1>4, <1>5 DEF Larger, all
<1>8. low \in Nat /\ top \in Nat /\ low <= top
  BY <1>3, <1>4, <1>6, CeilMonotone DEF low, top
<1>9. /\ Larger(floor, step * top) \in Nat
      /\ Larger(floor, step * low) \in Nat
      /\ Larger(floor, step * low) <= Larger(floor, step * top)
  BY <1>1, <1>8 DEF Larger
<1> QED BY <1>10, <1>11, <1>12, <1>7, <1>9 DEF before, cap

-----------------------------------------------------------------------------
(* The steps.                                                              *)

\* The seconds of a road.
LEMMA DriveTime ==
    ASSUME NEW p \in Place
    PROVE  Road[p] \div Speed \in Nat
<1>1. Road[p] \in Nat /\ Speed \in Nat \ {0}
  <2>1. Road \in Seq(Nat \ {0}) /\ Speed \in Nat \ {0}
    BY TrackingEtaAssumption
  <2> QED BY <2>1, LenProperties DEF Place
<1> QED BY <1>1, DivBounds

\* The last turn of a poll.
LEMMA ComposeKeeps ==
    ASSUME NEW c \in Caller, NEW base \in Nat, NEW dist, NEW route,
           EInv, call[c] \in ServedPoll, Compose(c, base, dist, route)
    PROVE  CallsTyped' /\ Remembered' /\ Explained(quote)'
<1> DEFINE p     == call[c]
           ratio == ResolveCalibration(memory.ratio, p.travel, base, p.at)
           raw   == Source(p, base, ratio)
           slow  == SampleProgress(memory.samples, dist, p.at) = "slow"
           prev  == memory.shown
           eta   == ComputeConservativeEta(raw, base, slow, prev)
           from  == <<base, ratio, LoadAt[p.at + 1], p.travel>>
<1>1. p.travel \in Nat /\ p.at \in 0 .. Horizon
  BY DEF ServedPoll
<1>2. memory.ratio \in Ratio /\ prev \in Nat
  BY DEF EInv, Remembered
<1>3. LoadAt[p.at + 1] \in Nat
  <2>1. LoadAt \in Seq(Nat \ {0}) /\ Len(LoadAt) = Horizon + 1
        /\ Horizon \in Nat
    BY TrackingEtaAssumption
  <2>2. p.at + 1 \in 1 .. Len(LoadAt)
    BY <1>1, <2>1
  <2> QED BY <2>1, <2>2, ElementOfSeq
<1>4. ratio \in Ratio
  BY <1>1, <1>2, CalibrationIsRatio DEF ResolveCalibration
<1>5. raw = PickRawSeconds(from[1], from[2], from[3], from[4])
  BY DEF Source
<1>6. raw \in Ratio
  BY <1>1, <1>3, <1>4, RawIsRatio DEF Source
<1>7. slow \in BOOLEAN
  OBVIOUS
<1>8. memory'.shown = (IF eta = 0 THEN prev ELSE eta) /\ memory'.ratio = ratio
  BY DEF Compose
<1>9. quote' = IF eta = 0 THEN quote
               ELSE [eta |-> eta, slow |-> slow,
                     capped |-> Cap(raw, base, prev)
                                  > Composed(raw, base, slow),
                     from |-> from]
  BY DEF Compose
<1>10. CallsTyped'
  BY DEF Compose, Return, CallsTyped, EInv, Typed, NoCall
<1>11. from[1] = base
  OBVIOUS
<1> HIDE DEF p, ratio, raw, slow, prev, from
<1>12. /\ eta \in Nat
       /\ eta > 0 => eta >= Plain(raw, base)
       /\ eta > 0 => \/ slow
                     \/ Cap(raw, base, prev) > Composed(raw, base, slow)
                     \/ eta = Plain(raw, base)
  BY <1>2, <1>6, <1>7, NumberShown
<1>13. Uncapped(from) = Plain(raw, base)
  BY <1>5, <1>11 DEF Uncapped
<1> HIDE DEF eta
<1>14. Remembered'
  BY <1>2, <1>4, <1>8, <1>12 DEF Remembered
<1>15. CASE eta = 0
  BY <1>9, <1>10, <1>14, <1>15 DEF EInv, Explained
<1>16. CASE eta # 0
  <2>1. /\ quote'.eta = eta /\ quote'.slow = slow /\ quote'.from = from
        /\ quote'.capped = (Cap(raw, base, prev) > Composed(raw, base, slow))
    BY <1>9, <1>16
  <2>2. Explained(quote')
    BY <1>12, <1>13, <1>16, <2>1 DEF Explained
  <2> QED BY <1>10, <1>14, <2>2 DEF Explained
<1> QED BY <1>15, <1>16

\* Going on once the destination is known.
LEMMA EstimateKeeps ==
    ASSUME NEW c \in Caller, NEW dest \in BOOLEAN,
           EInv, call[c] \in ServedPoll, Estimate(c, dest)
    PROVE  CallsTyped' /\ Remembered' /\ Explained(quote)'
<1> DEFINE place == call[c].place
<1>1. place \in Place \cup {0}
  BY DEF ServedPoll
<1>2. CASE \E dist, route : Compose(c, 0, dist, route)
  BY <1>2, ComposeKeeps
<1>3. CASE /\ place # 0
           /\ \E dist, route : Compose(c, Road[place] \div Speed, dist, route)
  <2>1. Road[place] \div Speed \in Nat
    BY <1>1, <1>3, DriveTime
  <2> QED BY <1>3, <2>1, ComposeKeeps
<1>4. CASE /\ place # 0
           /\ call' = [call EXCEPT ![c].pc = "estimate"]
           /\ UNCHANGED notes
  <2>1. [call[c] EXCEPT !.pc = "estimate"] \in ServedPoll
    BY DEF ServedPoll
  <2>2. CallsTyped'
    BY <1>4, <2>1 DEF CallsTyped, EInv, Typed
  <2> QED BY <1>4, <2>2 DEF EInv, notes, Remembered, Explained
<1> QED BY <1>2, <1>3, <1>4 DEF Estimate

\* The initial state satisfies the invariant.
LEMMA EtaInitially == EtaInit => EInv
  BY TrackingEtaAssumption
     DEF EtaInit, EInv, Typed, CallsTyped, Remembered, Explained, NoFix,
         NoCall, Forgot, NoRatio, Ratio, NoQuote

\* What a poll that waits has read.
LEMMA Waiting ==
    ASSUME NEW c \in Caller, Typed, call[c].pc \in {"resolve", "estimate"}
    PROVE  call[c] \in ServedPoll
  BY DEF Typed, CallsTyped, NoCall

\* Every step keeps it.
LEMMA EtaStep == EInv /\ [EtaNext]_evars => EInv'
<1> SUFFICES ASSUME EInv, [EtaNext]_evars PROVE EInv'
  OBVIOUS
<1> USE DEF EInv
<1>1. CASE EtaTick
  BY <1>1, TrackingEtaAssumption
     DEF EtaTick, row, notes, Typed, CallsTyped, Remembered, Explained
<1>2. CASE StoreFix
  BY <1>2 DEF StoreFix, notes, Typed, CallsTyped, Remembered, Explained
<1>3. CASE \E m \in Minutes : WriteTravelEta(m)
  BY <1>3, TrackingEtaAssumption
     DEF WriteTravelEta, notes, Typed, CallsTyped, Remembered, Explained
<1>4. ASSUME NEW c \in Caller, ReadRow(c) PROVE EInv'
  <2> DEFINE read == [pc |-> "resolve", place |-> fix.place, at |-> time,
                      fresh |-> time - fix.seen <= StaleAfter,
                      travel |-> declared]
  <2>1. read \in ServedPoll
    BY DEF Typed, ServedPoll
  <2>2. read.pc # "estimate"
    OBVIOUS
  <2>3. UNCHANGED call \/ call' = [call EXCEPT ![c] = read]
    BY <1>4 DEF ReadRow
  <2> HIDE DEF read
  <2>4. CallsTyped'
    BY <2>1, <2>2, <2>3 DEF Typed, CallsTyped
  <2> QED BY <1>4, <2>4 DEF ReadRow, row, notes, Typed, Remembered, Explained
<1>5. ASSUME NEW c \in Caller, ResolveDestination(c) PROVE EInv'
  <2>1. call[c] \in ServedPoll
    BY <1>5, Waiting DEF ResolveDestination
  <2>2. PICK dest \in BOOLEAN : Estimate(c, dest)
    BY <1>5 DEF ResolveDestination
  <2>3. CallsTyped' /\ Remembered' /\ Explained(quote)'
    BY <2>1, <2>2, EstimateKeeps
  <2> QED BY <1>5, <2>3 DEF ResolveDestination, row, Typed, CallsTyped
<1>6. ASSUME NEW c \in Caller, Geocode(c) PROVE EInv'
  <2>1. call[c] \in ServedPoll
    BY <1>6, Waiting DEF Geocode
  <2>2. PICK dest \in BOOLEAN : Estimate(c, dest)
    BY <1>6 DEF Geocode
  <2>3. CallsTyped' /\ Remembered' /\ Explained(quote)'
    BY <2>1, <2>2, EstimateKeeps
  <2> QED BY <1>6, <2>3 DEF Geocode, row, Typed, CallsTyped
<1>7. ASSUME NEW c \in Caller, RouteAnswers(c) PROVE EInv'
  <2>1. call[c] \in ServedPoll
    BY <1>7, Waiting DEF RouteAnswers
  <2>2. PICK base \in {0, Road[call[c].place] \div Speed} :
          \E dist, route : Compose(c, base, dist, route)
    BY <1>7 DEF RouteAnswers
  <2>3. call[c].place \in Place
    BY <1>7, <2>1 DEF RouteAnswers, ServedPoll, Typed, CallsTyped
  <2>4. base \in Nat
    BY <2>2, <2>3, DriveTime
  <2>5. CallsTyped' /\ Remembered' /\ Explained(quote)'
    BY <2>1, <2>2, <2>4, ComposeKeeps
  <2> QED BY <1>7, <2>5 DEF RouteAnswers, row, Typed, CallsTyped
<1>8. CASE Reboot
  BY <1>8 DEF Reboot, row, Typed, CallsTyped, NoCall, Remembered, Explained,
              Forgot, NoRatio, Ratio, NoQuote
<1>9. CASE UNCHANGED evars
  BY <1>9 DEF evars, Typed, CallsTyped, Remembered, Explained
<1> QED BY <1>1, <1>2, <1>3, <1>4, <1>5, <1>6, <1>7, <1>8, <1>9 DEF EtaNext

\* In every reachable state the number shown is at least Uncapped of what it
\* came from, and equal to it unless the worker was slow or the cap held it.
THEOREM Invariant == EtaSpec => []EInv
  BY EtaInitially, EtaStep, PTL DEF EtaSpec

\* The number falls only because the worker was slow before, the number
\* before was held up by the cap, or its route, the ratio, the load of the
\* hour or the declared time changed (computeConservativeEta).
THEOREM NeverByTime == EtaSpec => EtaFallsExplained
<1>1. ASSUME EInv, EInv' PROVE
        quote.eta > 0 /\ quote'.eta > 0 /\ quote'.from = quote.from
          => quote'.eta >= quote.eta \/ quote.slow \/ quote.capped
  BY <1>1 DEF EInv, Explained
<1> QED BY <1>1, Invariant, PTL DEF EtaFallsExplained
=============================================================================
