------------------------------ MODULE Publication ------------------------------
(***************************************************************************)
(* How the service puts files and directories in place.  Six operations    *)
(* follow one protocol, staging beside the target and os.replace, with     *)
(* differences that matter:                                                *)
(*   "intake"         OfflineAcquisitionIntakeService.intake               *)
(*   "render"         render_reconstruction                                *)
(*   "preview"        render_reconstruction_preview                        *)
(*   "center"         apply_center_completion_to_preview                   *)
(*   "configuration"  AtomicConfigurationStore.save                        *)
(*   "reference"      CenterReferenceLibrary.install                       *)
(* Several callers work on one target; the process may die at any point,   *)
(* with the machine or without.  No operation forces the directory of its  *)
(* target to the disk: a power failure can take the replacement back.      *)
(* That a staging file can be removed is assumed (unlink and rmtree of     *)
(* files that nobody else has open).                                       *)
(***************************************************************************)
EXTENDS Naturals

CONSTANTS Callers,
          MaxCrashes \* bound: crashes

VARIABLES operation, \* which of the six the callers are in
          target,    \* Absent, or whose content is there and its condition
          disk,      \* what a power failure may find under that name
          staging,   \* by caller: "none", "part", "damaged" or "whole"
          at,        \* by caller: the point of the operation it has reached
          crashes

pubVars == <<operation, target, disk, staging, at, crashes>>

Content(who, state) == [of |-> who, state |-> state]
Absent == Content("nobody", "absent")

Operations == {"intake", "render", "preview", "center", "configuration", "reference"}

(* Refuse a target that exists ...                                         *)
CreateOnly == {"intake", "render", "preview"}
(* ... and replace a directory, which os.replace refuses on its own when   *)
(* the target has come into being meanwhile.                               *)
OfDirectory == {"intake", "render"}
(* Copy bytes, and compare the checksum of the copy.                       *)
Copying == {"intake", "reference"}
(* fsync the staging file before the replacement.                          *)
Synced == {"configuration", "reference"}
(* Read the target back after the replacement.                             *)
ReadingBack == {"render", "preview", "center", "reference"}

Busy == {"looked", "staged", "filled", "checked", "replaced"}
Outcome == {"returned", "raised", "refused"}

Init ==
    /\ operation \in Operations
    /\ target \in {Absent, Content("original", "whole")}
    /\ disk = {target}
    /\ staging = [c \in Callers |-> "none"]
    /\ at = [c \in Callers |-> "idle"]
    /\ crashes = 0

Go(c, place) == at' = [at EXCEPT ![c] = place]
Put(c, what) == staging' = [staging EXCEPT ![c] = what]

(* The inputs are valid; output.exists(), or the decoding of the preview   *)
(* to be completed.  (intake has an empty staging directory by then, and   *)
(* removes it when it refuses.)                                            *)
Look(c) ==
    /\ at[c] = "idle"
    /\ Go(c, IF \/ operation \in CreateOnly /\ target # Absent
                \/ operation = "center" /\ target = Absent
             THEN "refused" ELSE "looked")
    /\ UNCHANGED <<operation, target, disk, staging, crashes>>

Stage(c) ==
    /\ at[c] = "looked"
    /\ Go(c, "staged")
    /\ Put(c, "part")
    /\ UNCHANGED <<operation, target, disk, crashes>>

(* The content is written; a copy can go wrong without an error.           *)
Fill(c) ==
    /\ at[c] = "staged"
    /\ Go(c, "filled")
    /\ \E what \in {"whole"} \cup (IF operation \in Copying THEN {"damaged"} ELSE {}) : Put(c, what)
    /\ UNCHANGED <<operation, target, disk, crashes>>

(* Reopened, validated or compared with the checksum of its source.        *)
Check(c) ==
    /\ at[c] = "filled"
    /\ staging[c] = "whole"
    /\ Go(c, "checked")
    /\ UNCHANGED <<operation, target, disk, staging, crashes>>

(* An operation that leaves its staging behind when it gives up.           *)
Bug_Raise(c) ==
    /\ at[c] \in Busy \ {"replaced"}
    /\ Go(c, "raised")
    /\ UNCHANGED <<operation, target, disk, staging, crashes>>

(* An error, a cancellation between two tiles, a failed comparison: the    *)
(* staging is removed and the exception goes on.                           *)
Raise(c) ==
    /\ at[c] \in Busy \ {"replaced"}
    /\ Go(c, "raised")
    /\ Put(c, "none")
    /\ UNCHANGED <<operation, target, disk, crashes>>

Bug_Refused == FALSE

Refused == operation \in OfDirectory /\ target # Absent

(* What the disk may hold of a content that was published since the        *)
(* machine was started: whole, or torn if it was not forced there.         *)
OnDisk(content) ==
    {content} \cup (IF operation \in Synced THEN {} ELSE {Content(content.of, "torn")})

(* os.replace(staging, final).  The disk may go on holding what was there. *)
Replace(c) ==
    /\ at[c] = "checked"
    /\ Put(c, "none")
    /\ IF Refused
       THEN Go(c, "raised") /\ UNCHANGED <<target, disk>>
       ELSE /\ Go(c, "replaced")
            /\ target' = Content(c, staging[c])
            /\ disk' = disk \cup OnDisk(target')
    /\ UNCHANGED <<operation, crashes>>

(* The result is put together, from the published file where it reports a  *)
(* checksum of it.  Reading may fail: the caller hears of an error though  *)
(* its content is in place.                                                *)
Finish(c) ==
    /\ at[c] = "replaced"
    /\ \E o \in {"returned"} \cup (IF operation \in ReadingBack THEN {"raised"} ELSE {}) : Go(c, o)
    /\ UNCHANGED <<operation, target, disk, staging, crashes>>

(* The process dies and leaves the staging files where they are.           *)
Crash ==
    /\ crashes < MaxCrashes
    /\ crashes' = crashes + 1
    /\ at' = [c \in Callers |-> IF at[c] \in Busy THEN "dead" ELSE at[c]]
    /\ UNCHANGED <<operation, target, disk, staging>>

(* It dies with the machine.  Under the name of the target is one of the   *)
(* contents it has stood for, or none.  What may have been staged is there *)
(* or not, also when it had been moved or removed; "part" stands for any   *)
(* condition of it, since nobody looks at it again.                        *)
PowerFailure ==
    /\ crashes < MaxCrashes
    /\ crashes' = crashes + 1
    /\ at' = [c \in Callers |-> IF at[c] = "idle" THEN "idle" ELSE "dead"]
    /\ target' \in disk
    /\ disk' = {target'}
    /\ \E left \in SUBSET {c \in Callers : at[c] \notin {"idle", "looked", "refused"}} :
          staging' = [c \in Callers |-> IF c \in left THEN "part" ELSE "none"]
    /\ UNCHANGED operation

Step(c) == Look(c) \/ Stage(c) \/ Fill(c) \/ Check(c) \/ Raise(c) \/ Replace(c) \/ Finish(c)
Next == (\E c \in Callers : Step(c)) \/ Crash \/ PowerFailure

Spec == Init /\ [][Next]_pubVars

Targets == {Absent} \cup [of : Callers \cup {"original"}, state : {"whole", "torn"}]

TypeOK ==
    /\ operation \in Operations
    /\ target \in Targets
    /\ disk \subseteq Targets
    /\ staging \in [Callers -> {"none", "part", "damaged", "whole"}]
    /\ at \in [Callers -> {"idle", "dead"} \cup Busy \cup Outcome]
    /\ crashes \in 0..MaxCrashes

(* The published target as its readers see it.                             *)
Readers == INSTANCE AtomicTarget WITH
    Authors <- Callers \cup {"original"},
    once <- operation \in OfDirectory,
    safe <- operation \in Synced

(* Readers see the target absent or whole, changed in one step, and the    *)
(* death of the process does not change it; a frame directory or a         *)
(* rendering is never replaced, although both callers have found no        *)
(* directory.  A power failure may bring back what was there before, or    *)
(* nothing, and tears what was not forced to the disk: not what save() and *)
(* install() have published, if it is there.                               *)
Published == Readers!Spec

(* Staging files are left behind by a process that died, alone or with the *)
(* machine: every other way out of the operation has removed them.         *)
StagingOwned == \A c \in Callers : staging[c] # "none" => at[c] \in Busy \cup {"dead"}
===============================================================================
