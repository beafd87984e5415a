------------------------------ MODULE RunContract ------------------------------
(***************************************************************************)
(* What the coordination of one inspection run promises to the rest of the *)
(* application, whoever executes it and however often it fails: a stage    *)
(* counts as done only on top of the stages it depends on, a run is        *)
(* completed only with all of them, cancelled only if somebody asked, and  *)
(* a completed or cancelled run stays what it is.                          *)
(***************************************************************************)
EXTENDS FiniteSets

VARIABLES
    phase,      \* the state of the run as its clients see it
    accepted,   \* the stages with a completed checkpoint
    requested   \* somebody has asked to cancel the run

contractVars == <<phase, accepted, requested>>

RunStages == {"reconstruction", "inference", "validation", "publication"}

Prerequisites(s) ==
    CASE s = "validation"  -> {"reconstruction", "inference"}
      [] s = "publication" -> {"reconstruction", "inference", "validation"}
      [] OTHER             -> {}

Created ==
    /\ phase = "created"
    /\ accepted = {}
    /\ requested = FALSE

Request ==
    /\ requested' = TRUE
    /\ UNCHANGED <<phase, accepted>>

\* A run that has not ended for good is taken up, for the first time or again.
TakeUp ==
    /\ phase \in {"created", "running", "failed"}
    /\ phase' = "running"
    /\ UNCHANGED <<accepted, requested>>

Accept(s) ==
    /\ phase = "running"
    /\ Prerequisites(s) \subseteq accepted
    /\ accepted' = accepted \cup {s}
    /\ UNCHANGED <<phase, requested>>

\* Evidence that cannot be trusted any more is given up.
Withdraw(s) ==
    /\ phase = "running"
    /\ accepted' = accepted \ {s}
    /\ UNCHANGED <<phase, requested>>

Complete ==
    /\ phase = "running"
    /\ accepted = RunStages
    /\ phase' = "completed"
    /\ UNCHANGED <<accepted, requested>>

Fail ==
    /\ phase = "running"
    /\ phase' = "failed"
    /\ UNCHANGED <<accepted, requested>>

Cancel ==
    /\ phase = "running"
    /\ requested
    /\ phase' = "cancelled"
    /\ UNCHANGED <<accepted, requested>>

ContractNext ==
    \/ Request
    \/ TakeUp
    \/ \E s \in RunStages : Accept(s) \/ Withdraw(s)
    \/ Complete
    \/ Fail
    \/ Cancel

Contract == Created /\ [][ContractNext]_contractVars
=============================================================================
