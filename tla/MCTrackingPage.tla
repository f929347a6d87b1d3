----------------------------- MODULE MCTrackingPage -----------------------------
(***************************************************************************)
(* The page that shows a trip to the customer, and the minutes left.       *)
(* TrackingPage is about what a poll brings back and when, TrackingEta     *)
(* about how the number in it is composed; they share no state, so a       *)
(* behaviour follows one of them while the other is as it begins.          *)
(*                                                                         *)
(* Page: two fixes, two polls at once.  Minutes: two polls at once and     *)
(* three places, the last of them within the last mile; from the first to  *)
(* the second progress is slow, and the load of the hour falls at the      *)
(* third tick.                                                             *)
(***************************************************************************)
EXTENDS TrackingPage, TrackingEta

VARIABLE side

all == <<side, pvars, evars>>

MCRoad    == <<9000, 8700, 2000>>
MCLine    == <<7000, 6500, 1500>>
MCLoadAt  == [i \in 1 .. Horizon + 1 |-> IF i <= 2 THEN 150 ELSE 100]
OnePlace  == <<9000>>

MCInit ==
    /\ side \in {"page", "minutes"}
    /\ PageInit /\ EtaInit

Page    == side = "page" /\ PageNext /\ UNCHANGED <<side, evars>>
Minute  == side = "minutes" /\ EtaNext /\ UNCHANGED <<side, pvars>>

OnPage == side = "page" /\ UNCHANGED <<side, evars>>

MCSpec ==
    /\ MCInit
    /\ [][Page \/ Minute]_all
    /\ WF_all(Tick /\ OnPage)
    /\ \A v \in Visit : WF_all(PollOn(v) /\ OnPage)
=============================================================================
