------------------------------ MODULE WeeklyCheck ------------------------------
(***************************************************************************)
(* The weekly check of official sources                                    *)
(* (tools/standards/local-weekly-check.mjs).                               *)
(*                                                                         *)
(* A scheduled check captures a candidate snapshot, compares it with the   *)
(* baseline, and replaces the candidate directory, the review directory    *)
(* and the state file, in that order.  A maintainer initializes the        *)
(* baseline, and accepts a candidate as the new one after a review.  The   *)
(* scheduler and the maintainer each run one command at a time, and the    *)
(* two may overlap; a command may die at any step, and its file operations *)
(* may fail.                                                               *)
(*                                                                         *)
(* A snapshot is a number; Broken is a directory of which a failed removal *)
(* left some files.  The review directory holds the snapshots it compares. *)
(* What lies aside is in old, in a directory of its own name per command.  *)
(***************************************************************************)
EXTENDS Integers, Sequences

CONSTANTS Captures,      \* what the sources may say
          Weekly,        \* the actors: a scheduler and a maintainer
          Scheduler,
          Overlap,       \* may the scheduler and the maintainer run at the same time?
          MaxCommands,   \* bound: commands that are run
          MaxDeaths,     \* bound: commands that die
          MaxFailures    \* bound: file operations that fail

ASSUME WeeklyAssumption ==
  /\ Scheduler \in Weekly /\ Overlap \in BOOLEAN /\ Captures \subseteq Nat \ {0}
  /\ MaxCommands \in Nat /\ MaxDeaths \in Nat /\ MaxFailures \in Nat

(* One maintainer works at a time, as one scheduler does: no lock keeps two acceptances apart. *)
ASSUME OneMaintainer == \E maintainer \in Weekly : Weekly = {Scheduler, maintainer}

VARIABLES directory,   \* baseline, candidate and review
          stateFile,   \* state.json: the status and the candidate it is about
          weekly,      \* actor -> the command it runs
          old,         \* what the command of an actor moved aside
          stray,       \* what commands that died left aside
          commands, deaths, failures,
          accepted     \* history: the baseline that was last put in place

weeklyVars == <<directory, stateFile, weekly, old, stray, commands, deaths, failures, accepted>>

Nothing == 0
Broken == -1
NoCommand == [pc |-> "idle"]
Entry(name, content) == [name |-> name, content |-> content]
NoEntry == Entry("none", Nothing)

WeeklyInit ==
  /\ directory = [baseline |-> Nothing, candidate |-> Nothing, review |-> Nothing]
  /\ stateFile = [status |-> "none", candidate |-> Nothing]
  /\ weekly = [w \in Weekly |-> NoCommand]
  /\ old = [w \in Weekly |-> NoEntry] /\ stray = {}
  /\ commands = 0 /\ deaths = 0 /\ failures = 0 /\ accepted = Nothing

-----------------------------------------------------------------------------
WeeklyAt(w, pc) == weekly[w].pc = pc
WeeklyEnds(w) == weekly' = [weekly EXCEPT ![w] = NoCommand]

(* The directories a command is to replace, the state it then writes and, for an acceptance,
   what the review directory was about (history). *)
Replacing(todo, status, candidate, reviewed) ==
  [pc |-> "replace", todo |-> todo, status |-> status, candidate |-> candidate,
   reviewed |-> reviewed]

Starts(w) ==
  /\ WeeklyAt(w, "idle") /\ commands < MaxCommands /\ commands' = commands + 1
  /\ Overlap \/ \A v \in Weekly : WeeklyAt(v, "idle")

(* runLocalWeeklyCheck up to the first replacement: the capture, then the baseline. *)
Check(w, initialize, s) ==
  /\ Starts(w)
  /\ w = Scheduler => ~initialize
  /\ \/ /\ directory.baseline = Nothing /\ initialize
        /\ weekly' = [weekly EXCEPT ![w] =
             Replacing(<<Entry("candidate", s), Entry("baseline", s)>>, "baseline-initialized", s,
                       Nothing)]
     \/ /\ directory.baseline \in Captures
        /\ LET changed == s # directory.baseline
           IN weekly' = [weekly EXCEPT ![w] =
                Replacing(<<Entry("candidate", s)>> \o IF changed THEN <<Entry("review", s)>> ELSE <<>>,
                          IF changed THEN "changed" ELSE "unchanged", s, Nothing)]
  /\ UNCHANGED <<directory, stateFile, old, stray, deaths, failures, accepted>>

(* The acceptance reads the candidate, then the state. *)
Accept(w) ==
  /\ w # Scheduler /\ Starts(w)
  /\ directory.candidate \in Captures
  /\ weekly' = [weekly EXCEPT ![w] =
       [pc |-> "accept", candidate |-> directory.candidate]]
  /\ UNCHANGED <<directory, stateFile, old, stray, deaths, failures, accepted>>

AcceptChanged(w) ==
  /\ WeeklyAt(w, "accept")
  /\ IF stateFile.status = "changed"
       THEN weekly' = [weekly EXCEPT ![w] =
              Replacing(<<Entry("baseline", @.candidate)>>, "baseline-accepted", @.candidate,
                        directory.review)]
       ELSE WeeklyEnds(w)
  /\ UNCHANGED <<directory, stateFile, old, stray, commands, deaths, failures, accepted>>

-----------------------------------------------------------------------------
(* replaceDirectory, one rename or removal at a time. *)
Target(w) == Head(weekly[w].todo).name

PlacesBaseline(w) == Target(w) = "baseline"

(* Faulty variant: the old directory is removed to make room. *)
MoveAsideRemoving(w) ==
  /\ WeeklyAt(w, "replace") /\ weekly[w].todo # <<>>
  /\ directory' = [directory EXCEPT ![Target(w)] = Nothing]
  /\ weekly' = [weekly EXCEPT ![w].pc = "moved"]
  /\ UNCHANGED <<stateFile, old, stray, commands, deaths, failures, accepted>>

(* Move the old directory aside, if there is one. *)
MoveAside(w) ==
  /\ WeeklyAt(w, "replace") /\ weekly[w].todo # <<>>
  /\ old' = [old EXCEPT ![w] = Entry(Target(w), directory[Target(w)])]
  /\ directory' = [directory EXCEPT ![Target(w)] = Nothing]
  /\ weekly' = [weekly EXCEPT ![w].pc = "moved"]
  /\ UNCHANGED <<stateFile, stray, commands, deaths, failures, accepted>>

(* Move the new one into place, unless someone else's is there. *)
MoveInto(w) ==
  /\ WeeklyAt(w, "moved") /\ directory[Target(w)] = Nothing
  /\ directory' = [directory EXCEPT ![Target(w)] = Head(weekly[w].todo).content]
  /\ accepted' = IF PlacesBaseline(w) THEN directory'.baseline ELSE accepted
  /\ weekly' = [weekly EXCEPT ![w].pc = "placed"]
  /\ UNCHANGED <<stateFile, old, stray, commands, deaths, failures>>

(* Remove what lies aside. *)
RemoveOld(w) ==
  /\ WeeklyAt(w, "placed")
  /\ old' = [old EXCEPT ![w] = NoEntry]
  /\ weekly' = [weekly EXCEPT ![w].pc = "replace", ![w].todo = Tail(@)]
  /\ UNCHANGED <<directory, stateFile, stray, commands, deaths, failures, accepted>>

(* The catch of replaceDirectory: after a failed rename, a failed removal that took some
   of the files aside, or with another directory in the way, the target is removed ... *)
ReplaceFails(w) ==
  /\ \/ /\ failures < MaxFailures /\ failures' = failures + 1
        /\ \/ WeeklyAt(w, "replace") /\ weekly[w].todo # <<>>
           \/ weekly[w].pc \in {"moved", "placed"}
     \/ WeeklyAt(w, "moved") /\ directory[Target(w)] # Nothing /\ UNCHANGED failures
  /\ directory' = [directory EXCEPT ![Target(w)] = Nothing]
  /\ \/ UNCHANGED old
     \/ /\ WeeklyAt(w, "placed") /\ old[w].content # Nothing
        /\ old' = [old EXCEPT ![w].content = Broken]
  /\ weekly' = [weekly EXCEPT ![w].pc = "catch"]
  /\ UNCHANGED <<stateFile, stray, commands, deaths, accepted>>

(* ... and what lies aside is moved back, if nothing is in its way. *)
CatchRestores(w) ==
  /\ WeeklyAt(w, "catch")
  /\ IF directory[Target(w)] = Nothing
       THEN directory' = [directory EXCEPT ![Target(w)] = old[w].content] /\ UNCHANGED stray
       ELSE stray' = stray \cup {old[w]} /\ UNCHANGED directory
  /\ old' = [old EXCEPT ![w] = NoEntry]
  /\ WeeklyEnds(w)
  /\ UNCHANGED <<stateFile, commands, deaths, failures, accepted>>

(* A step between two replacements fails, as for a review directory that is refused. *)
StageFails(w) ==
  /\ WeeklyAt(w, "replace")
  /\ failures < MaxFailures /\ failures' = failures + 1
  /\ WeeklyEnds(w)
  /\ UNCHANGED <<directory, stateFile, old, stray, commands, deaths, accepted>>

(* writeJsonAtomically. *)
WriteState(w) ==
  /\ WeeklyAt(w, "replace") /\ weekly[w].todo = <<>>
  /\ stateFile' = [status |-> weekly[w].status, candidate |-> weekly[w].candidate]
  /\ WeeklyEnds(w)
  /\ UNCHANGED <<directory, old, stray, commands, deaths, failures, accepted>>

(* A command dies; what it moved aside stays under its own name. *)
Dies(w) ==
  /\ weekly[w].pc # "idle" /\ deaths < MaxDeaths /\ deaths' = deaths + 1
  /\ stray' = stray \cup {old[w]} /\ old' = [old EXCEPT ![w] = NoEntry]
  /\ WeeklyEnds(w)
  /\ UNCHANGED <<directory, stateFile, commands, failures, accepted>>

WeeklyNext ==
  \E w \in Weekly :
    \/ \E initialize \in BOOLEAN, s \in Captures : Check(w, initialize, s)
    \/ Accept(w) \/ AcceptChanged(w)
    \/ MoveAside(w) \/ MoveInto(w) \/ RemoveOld(w) \/ ReplaceFails(w)
    \/ CatchRestores(w) \/ StageFails(w) \/ WriteState(w) \/ Dies(w)

WeeklySpec == WeeklyInit /\ [][WeeklyNext]_weeklyVars

-----------------------------------------------------------------------------
(* Whichever command dies at whichever step, and however the scheduler and the maintainer
   overlap, the baseline that was last put in place is still on disk as a whole, in its
   place or aside, as long as no file operation failed. *)
BaselineRetained ==
  accepted # Nothing /\ failures = 0 =>
    \/ directory.baseline = accepted
    \/ Entry("baseline", accepted) \in stray \cup {old[w] : w \in Weekly}

(* docs/user/standards.md: acceptance promotes the reviewed candidate.  A baseline is
   replaced by nothing but the snapshot that the review directory was about when the
   acceptance found the state to be a change. *)
AcceptedIsReviewed ==
  \A w \in Weekly :
    weekly[w].pc = "moved" /\ weekly[w].status = "baseline-accepted" =>
      weekly[w].candidate \in {weekly[w].reviewed, old[w].content}
=============================================================================
