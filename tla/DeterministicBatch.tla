------------------------- MODULE DeterministicBatch -------------------------
(***************************************************************************)
(* What a concurrent batch promises: its answer is a function of the job   *)
(* alone, or it was stopped.  Which worker ran what, and in which order    *)
(* things completed, never shows.                                          *)
(***************************************************************************)
CONSTANTS Jobs,          \* what may be submitted
          Expected(_),   \* the answer a job deserves
          StopReasons,   \* answers of a batch that was stopped
          NoJob, NoAnswer

VARIABLES job, answer

(* A submission may be answered at once. *)
Submit ==
  /\ job = NoJob
  /\ job' \in Jobs
  /\ answer' \in {NoAnswer, Expected(job')} \cup StopReasons

Finish ==
  /\ job # NoJob /\ answer = NoAnswer
  /\ answer' \in {Expected(job)} \cup StopReasons
  /\ UNCHANGED job

BatchSpec ==
  /\ job = NoJob /\ answer = NoAnswer
  /\ [][Submit \/ Finish]_<<job, answer>>
=============================================================================
