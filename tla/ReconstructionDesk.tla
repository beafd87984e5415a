-------------------------- MODULE ReconstructionDesk --------------------------
(***************************************************************************)
(* Offline reconstruction as its user meets it: the page that submits and  *)
(* polls (frontend/src/pages/ValidationPage.tsx), the desktop bridge       *)
(* between them, the job table and worker thread of the service            *)
(* (api/reconstruction_jobs.py) and the artifacts each stage of            *)
(* OfflineReconstructionService.reconstruct leaves on disk.                *)
(*                                                                         *)
(* A monitor is one running waitForReconstructionJob with its abort        *)
(* controller; it outlives the page instance that started it.              *)
(***************************************************************************)
EXTENDS Naturals, Sequences, SequencesExt

CONSTANTS MaxJobs,     \* bound: submissions the service accepts
          MaxPages,    \* bound: times the page is mounted
          MaxMonitors, \* bound: monitors started
          MaxRestarts  \* bound: crashes of the service process

VARIABLES board,    \* _jobs of the service, with the stage of each job
          accepted, \* jobs accepted so far; identifiers are never reused
          queue,    \* jobs the executor has not begun
          files,    \* what is in incoming/ and completed/ for each job
          closed,   \* _closed of the dispatcher
          restarts, \* crashes so far
          page,     \* number of the last instance of the page
          mounted,  \* whether that instance is on the screen
          shown,    \* its "job" state
          session,  \* the job saved in the session storage of the browser
          current,  \* pollingController.current, 0 for null
          monitors  \* the monitors started, in order

serverVars == <<board, accepted, queue, files, closed, restarts>>
pageVars == <<page, mounted, shown, session, current>>
deskVars == <<serverVars, pageVars, monitors>>

Jobs == 1..MaxJobs
NoJob == 0
Stages == <<"verifying", "rendering", "completing_center", "reporting">>
Running == ToSet(Stages)
Final == {"completed", "failed"}
Artifacts == {"frames", "preview", "center", "report"}

Blank == [job |-> NoJob, status |-> "none"]

(* What a stage leaves on disk when it ends.  Registration and validation  *)
(* compute only: they are part of "rendering" here.                        *)
Published(stage) ==
    CASE stage = "verifying" -> {"frames"}
      [] stage = "rendering" -> {"preview"}
      [] stage = "completing_center" -> {"center"}
      [] stage = "reporting" -> {"report"}
      [] OTHER -> {}

(* The status GET /reconstruction-jobs/{job_id} answers.                   *)
Answer(j) ==
    CASE board[j] = "unknown" -> "not_found"
      [] board[j] \in Running -> "running"
      [] OTHER -> board[j]

Init ==
    /\ board = [j \in Jobs |-> "unknown"]
    /\ accepted = 0
    /\ queue = <<>>
    /\ files = [j \in Jobs |-> {}]
    /\ closed = FALSE
    /\ restarts = 0
    /\ page = 0
    /\ mounted = FALSE
    /\ shown = Blank
    /\ session = NoJob
    /\ current = 0
    /\ monitors = <<>>

-------------------------------------------------------------------------------
(* The worker thread of the service.                                       *)

Busy == \E j \in Jobs : board[j] \in Running

Execute ==
    /\ ~Busy
    /\ queue # <<>>
    /\ board' = [board EXCEPT ![Head(queue)] = Head(Stages)]
    /\ queue' = Tail(queue)
    /\ UNCHANGED <<accepted, files, closed, restarts, pageVars, monitors>>

(* A result recorded before the report is written.                         *)
Bug_Following(n) == IF n >= Len(Stages) - 1 THEN "completed" ELSE Stages[n + 1]

Following(n) == IF n = Len(Stages) THEN "completed" ELSE Stages[n + 1]

(* A stage ends: its artifact is in place and progress names the next one; *)
(* after the last one _execute records the result.  ("reporting", in which *)
(* the report is written, has no progress name of its own in the code.)    *)
Advance(j) ==
    \E n \in DOMAIN Stages :
        /\ board[j] = Stages[n]
        /\ files' = [files EXCEPT ![j] = @ \cup Published(Stages[n])]
        /\ board' = [board EXCEPT ![j] = Following(n)]
        /\ UNCHANGED <<accepted, queue, closed, restarts, pageVars, monitors>>

(* A stage raises: whatever is on disk stays there.                        *)
FailStage(j) ==
    /\ board[j] \in Running
    /\ board' = [board EXCEPT ![j] = "failed"]
    /\ UNCHANGED <<accepted, queue, files, closed, restarts, pageVars, monitors>>

Close ==
    /\ ~closed
    /\ closed' = TRUE
    /\ UNCHANGED <<board, accepted, queue, files, restarts, pageVars, monitors>>

(* The process ends and another takes its place: the table was in memory.  *)
Restart ==
    /\ restarts < MaxRestarts
    /\ restarts' = restarts + 1
    /\ board' = [j \in Jobs |-> "unknown"]
    /\ queue' = <<>>
    /\ closed' = FALSE
    /\ UNCHANGED <<accepted, files, pageVars, monitors>>

-------------------------------------------------------------------------------
(* The page and its monitors.                                              *)

OnScreen(m) == mounted /\ monitors[m].page = page

Started(at, job, restored) ==
    [page |-> page', job |-> job, at |-> at, answer |-> "none", aborted |-> FALSE,
     restored |-> restored]
Over == [page |-> 0, job |-> NoJob, at |-> "ended", answer |-> "none", aborted |-> FALSE,
         restored |-> FALSE]

(* controller.abort(): only a monitor in wait() hears it, for the bridge   *)
(* takes no signal and wait() does not look for an abort that is past.     *)
Abort(ms, m) ==
    IF m \notin DOMAIN ms THEN ms
    ELSE IF ms[m].at = "waiting" /\ ~ms[m].aborted
         THEN [ms EXCEPT ![m] = Over]
         ELSE [ms EXCEPT ![m].aborted = TRUE]

(* A monitor comes to its end; monitorJob clears its own controller.       *)
End(m) ==
    /\ monitors' = [monitors EXCEPT ![m] = Over]
    /\ current' = IF current = m /\ monitors[m].job # NoJob THEN 0 ELSE current

(* The page appears; a saved session is monitored again.                   *)
Mount ==
    /\ ~mounted
    /\ page < MaxPages
    /\ session # NoJob => Len(monitors) < MaxMonitors
    /\ mounted' = TRUE
    /\ page' = page + 1
    /\ shown' = Blank
    /\ monitors' = monitors \o (IF session = NoJob THEN <<>>
                                ELSE <<Started("asking", session, TRUE)>>)
    /\ current' = IF session = NoJob THEN 0 ELSE Len(monitors')
    /\ UNCHANGED <<session, serverVars>>

(* The page goes: its cleanup aborts the monitor its mounting started, and *)
(* no other.                                                               *)
Unmount ==
    /\ mounted
    /\ mounted' = FALSE
    /\ LET own == SelectInSeq(monitors, LAMBDA m : m.page = page /\ m.restored)
       IN  monitors' = Abort(monitors, own)
    /\ current' = 0
    /\ UNCHANGED <<page, shown, session, serverVars>>

(* Another folder is chosen: nothing is shown, nothing stays saved.        *)
SelectFolder ==
    /\ mounted
    /\ shown' = Blank
    /\ session' = NoJob
    /\ UNCHANGED <<page, mounted, current, monitors, serverVars>>

(* reconstruct(): refused while the displayed job is queued or running;    *)
(* the current monitor is aborted and a POST goes out.                     *)
Reconstruct ==
    /\ mounted
    /\ shown.status \notin {"queued", "running"}
    /\ Len(monitors) < MaxMonitors
    /\ UNCHANGED <<page, mounted, shown, session, serverVars>>
    /\ monitors' = Append(Abort(monitors, current), Started("posting", NoJob, FALSE))
    /\ current' = Len(monitors')

Handed == Append(queue, accepted')

(* ReconstructionJobDispatcher.submit at the service.                      *)
Submit(m) ==
    /\ monitors[m].at = "posting"
    /\ ~closed
    /\ accepted < MaxJobs
    /\ accepted' = accepted + 1
    /\ board' = [board EXCEPT ![accepted'] = "queued"]
    /\ queue' = Handed
    /\ monitors' = [monitors EXCEPT ![m].at = "posted", ![m].job = accepted']
    /\ UNCHANGED <<files, closed, restarts, pageVars>>

(* The answer of the POST reaches the page, which shows and saves the job  *)
(* and starts polling it; the saving happens even when the page is gone.   *)
Submitted(m) ==
    /\ monitors[m].at = "posted"
    /\ shown' = IF OnScreen(m) THEN [job |-> monitors[m].job, status |-> "queued"] ELSE shown
    /\ session' = monitors[m].job
    /\ monitors' = [monitors EXCEPT ![m].at = "asking"]
    /\ UNCHANGED <<page, mounted, current, serverVars>>

(* The bridge gives up after ten seconds, the service refuses or is gone:  *)
(* the page learns nothing of a job that may have been accepted.           *)
PostFails(m) ==
    /\ monitors[m].at \in {"posting", "posted"}
    /\ monitors' = [monitors EXCEPT ![m] = Over]
    /\ UNCHANGED <<pageVars, serverVars>>

(* The service answers a poll with what the table says now ...             *)
AnswerPoll(m) ==
    /\ monitors[m].at = "asking"
    /\ monitors' = [monitors EXCEPT ![m].at = "answered", ![m].answer = Answer(monitors[m].job)]
    /\ UNCHANGED <<pageVars, serverVars>>

(* A loop that waits for completed only.                                   *)
Bug_Settled == {"completed", "not_found"}

Settled == Final \cup {"not_found"}

(* ... and the page takes the answer in later.                             *)
TakeAnswer(m) ==
    LET answer == monitors[m].answer
    IN  /\ monitors[m].at = "answered"
        /\ shown' = IF OnScreen(m) /\ answer # "not_found"
                    THEN [job |-> monitors[m].job, status |-> answer] ELSE shown
        /\ IF answer \in Settled
           THEN End(m)
           ELSE /\ monitors' = [monitors EXCEPT ![m].at = "waiting", ![m].answer = "none"]
                /\ UNCHANGED current
        /\ UNCHANGED <<page, mounted, session, serverVars>>

(* The bridge gives up on a poll: the monitor ends with an error.          *)
PollFails(m) ==
    /\ monitors[m].at \in {"asking", "answered"}
    /\ End(m)
    /\ UNCHANGED <<page, mounted, shown, session, serverVars>>

(* Half a second is over.                                                  *)
PollAgain(m) ==
    /\ monitors[m].at = "waiting"
    /\ monitors' = [monitors EXCEPT ![m].at = "asking"]
    /\ UNCHANGED <<pageVars, serverVars>>

Network(m) == Submitted(m) \/ AnswerPoll(m) \/ TakeAnswer(m) \/ PollAgain(m)
Work == Execute \/ \E j \in Jobs : Advance(j) \/ FailStage(j)
Next ==
    \/ Work \/ Close \/ Restart
    \/ Mount \/ Unmount \/ SelectFolder \/ Reconstruct
    \/ \E m \in DOMAIN monitors : Network(m) \/ Submit(m) \/ PostFails(m) \/ PollFails(m)

(* The worker thread runs, every request is answered or given up, and the  *)
(* timers of the page go off.                                              *)
Fairness ==
    /\ WF_deskVars(Work)
    /\ \A m \in 1..MaxMonitors : WF_deskVars(m \in DOMAIN monitors /\ (Network(m) \/ PostFails(m)))

Spec == Init /\ [][Next]_deskVars /\ Fairness

TypeOK ==
    /\ board \in [Jobs -> {"unknown", "queued"} \cup Running \cup Final]
    /\ accepted \in 0..MaxJobs
    /\ ToSet(queue) \subseteq Jobs
    /\ files \in [Jobs -> SUBSET Artifacts]
    /\ page \in 0..MaxPages /\ mounted \in BOOLEAN
    /\ session \in {NoJob} \cup Jobs
    /\ current \in 0..MaxMonitors
    /\ \A m \in DOMAIN monitors :
          monitors[m].at \in {"posting", "posted", "asking", "answered", "waiting", "ended"}

(* A page that shows a completed reconstruction shows one whose frames,    *)
(* preview, completed center and report are all on disk: nothing a failed  *)
(* stage or a crashed service left behind is offered for review, however   *)
(* late the answer arrives.                                                *)
ShownIsComplete == shown.status = "completed" => files[shown.job] = Artifacts

(* A job whose outcome is on the board keeps it until the process ends.    *)
OutcomeKept ==
    [][\A j \in Jobs : board[j] \in Final =>
          board'[j] = board[j] \/ restarts' # restarts]_board

(* Every accepted job is carried out or dies with the process, after       *)
(* close() as well.                                                        *)
AcceptedEnds == \A j \in Jobs : board[j] = "queued" ~> board[j] \in Final \cup {"unknown"}

(* Every monitor ends, the aborted ones that poll on included.             *)
MonitorsEnd ==
    \A m \in 1..MaxMonitors :
        m \in DOMAIN monitors ~> (m \in DOMAIN monitors /\ monitors[m].at = "ended")
===============================================================================
