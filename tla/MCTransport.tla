---------------------------- MODULE MCTransport ----------------------------
(***************************************************************************)
(* Instances of Transport for TLC, with the tables whose repair was lost.  *)
(***************************************************************************)
EXTENDS Transport

\* The tables where a dish was served after the running announcement, or the
\* last one, took its snapshots and before it published the table's.
VARIABLE overtaken

InBatch(t) == main.at = "publishing" /\ main.then = "online" /\ t \in main.left

MCTransportInit == TInit /\ overtaken = {}

MarkOvertaken ==
    overtaken' =
        {t \in Tables :
            IF main'.at = "publishing" /\ main.at # "publishing" THEN FALSE
            ELSE IF version'[t] # version[t] THEN InBatch(t)
            ELSE t \in overtaken}

MCTransportNext == TNext /\ MarkOvertaken

MCTransportSpec ==
    /\ MCTransportInit
    /\ [][MCTransportNext]_<<tvars, overtaken>>
    /\ WF_tvars(SessionSteps \/ MainResumes)
    /\ SF_tvars(SessionEnds)
    /\ WF_tvars(WillFires)
    /\ \A i \in 1..MaxOrders : WF_tvars(Cook(i))

\* The resynchronisation repairs every table but those where a dish was served
\* while the tables were being announced (kitchen.py:109-110, app.py:79-80).
ResyncRepairsUnlessOvertaken ==
    session = "serving" /\ link = "up" =>
        \A t \in Tables \ (Pending \cup overtaken) : retained[t] = Snapshot(t)
=============================================================================
