-------------------------------- MODULE MCJobs --------------------------------
(***************************************************************************)
(* The two job dispatchers of the service for TLC.  They share no state:   *)
(* each behaviour exercises one of them, "part" says which, and leaves the *)
(* other as it starts.                                                     *)
(***************************************************************************)
EXTENDS Naturals, Sequences

CONSTANTS Requests, MaximumRetained, MaxJobs, MaxPages, MaxMonitors, MaxRestarts

VARIABLES part,
          table, queue, worker, ended, phase, callback, closed,
          board, accepted, waiting, files, stopped, restarts, page, mounted, shown, session,
          current, monitors

Models == INSTANCE ModelJobs
Desk == INSTANCE ReconstructionDesk WITH queue <- waiting, closed <- stopped

ASSUME JobsAssumption ==
    /\ MaximumRetained \in Nat \ {0}
    /\ {MaxJobs, MaxPages, MaxMonitors, MaxRestarts} \subseteq Nat
    /\ Models!NoRequest \notin Requests

modelVars == <<table, queue, worker, ended, phase, callback, closed>>
deskVars == <<board, accepted, waiting, files, stopped, restarts, page, mounted, shown, session,
              current, monitors>>
vars == <<part, modelVars, deskVars>>

Init == part \in {"models", "desk"} /\ Models!Init /\ Desk!Init

ModelStep == part = "models" /\ Models!Next /\ UNCHANGED <<part, deskVars>>
DeskStep == part = "desk" /\ Desk!Next /\ UNCHANGED <<part, modelVars>>
Next == ModelStep \/ DeskStep

Spec ==
    /\ Init /\ [][Next]_vars
    /\ part = "models" => Models!Fairness
    /\ part = "desk" => Desk!Fairness

(* model_jobs.py: an unfinished job is never trimmed from the table.       *)
UnfinishedKept == Models!UnfinishedKept

(* ValidationPage.tsx: what is shown as completed is complete on disk.     *)
ShownIsComplete == Desk!ShownIsComplete

(* Both dispatchers: the outcome of a job is never overwritten.            *)
OutcomeKept == Models!FinalStays /\ Desk!OutcomeKept

(* Both dispatchers: every job accepted is carried out, after close() too. *)
AcceptedEnds ==
    /\ part = "models" => Models!AcceptedEnds
    /\ part = "desk" => Desk!AcceptedEnds

(* client.ts: every polling loop ends.                                     *)
MonitorsEnd == part = "desk" => Desk!MonitorsEnd
===============================================================================
