--------------------------- MODULE CompareAndSwap ---------------------------
(***************************************************************************)
(* What RepositoryAtomicWriter.write promises to its callers: a file is    *)
(* replaced at once, by the whole replacement, and only while it is still  *)
(* the file, with the contents, that the caller analysed; the answer tells *)
(* whether the replacement happened.  No locks, temporary files, retries   *)
(* or cleanup.                                                             *)
(***************************************************************************)
CONSTANTS Calls, Inodes, Contents

VARIABLES
  file,    \* the file the target path names: inode number and contents
  phase,   \* phase[o]: is call o under way, and did it replace the file?
  exp,     \* exp[o]: the file call o expects to replace
  new      \* new[o]: the replacement

vars == <<file, phase, exp, new>>

File == [ino : Inodes, body : Contents]

Init ==
  /\ file \in File
  /\ phase = [o \in Calls |-> "idle"]
  /\ exp \in [Calls -> File]
  /\ new \in [Calls -> Contents]

Request(o, expected, replacement) ==
  /\ phase[o] = "idle"
  /\ phase' = [phase EXCEPT ![o] = "asked"]
  /\ exp' = [exp EXCEPT ![o] = expected]
  /\ new' = [new EXCEPT ![o] = replacement]
  /\ UNCHANGED file

\* The replacement is prepared under an inode number of its own.
Swap(o) ==
  /\ phase[o] = "asked"
  /\ file = exp[o]
  /\ \E i \in Inodes \ {file.ino} : file' = [ino |-> i, body |-> new[o]]
  /\ phase' = [phase EXCEPT ![o] = "swapped"]
  /\ UNCHANGED <<exp, new>>

\* What a call may answer: success, or an error that says whether it committed.
Answers(o) == IF phase[o] = "swapped" THEN {"ok", "committed"} ELSE {"refused"}

\* The call answers, or its process dies.
Return(o) ==
  /\ phase[o] # "idle"
  /\ phase' = [phase EXCEPT ![o] = "idle"]
  /\ UNCHANGED <<file, exp, new>>

Next ==
  \E o \in Calls :
    \/ \E e \in File, c \in Contents : Request(o, e, c)
    \/ Swap(o)
    \/ Return(o)

Spec == Init /\ [][Next]_vars
=============================================================================
