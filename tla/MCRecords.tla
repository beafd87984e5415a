------------------------------- MODULE MCRecords -------------------------------
(***************************************************************************)
(* The event broker with a polling client, and the catalogue of models and *)
(* pipelines, for TLC.  They share no state: a behaviour is about one of   *)
(* them, "part" says which, and leaves the other as it starts.             *)
(***************************************************************************)
EXTENDS EventPolling, Catalog

VARIABLE part

RecordsInit == part \in {"events", "catalog"} /\ PollingInit /\ Init

EventsStep == part = "events" /\ PollingNext /\ UNCHANGED <<part, vars>>
CatalogStep == part = "catalog" /\ Next /\ UNCHANGED <<part, pollingVars>>

RecordsSpec ==
    /\ RecordsInit /\ [][EventsStep \/ CatalogStep]_<<part, pollingVars, vars>>
    /\ part = "events" => WF_pollingVars(Poll)
===============================================================================
