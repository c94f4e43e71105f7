------------------------------ MODULE SafeFix ------------------------------
(***************************************************************************)
(* Preview and application of mechanical fixes                             *)
(* (packages/evidence/src/safe-fix-pipeline.ts).                           *)
(*                                                                         *)
(* preview() composes the selected edits over the text that was analysed   *)
(* and mints a preview; apply() takes one preview once, reads the file     *)
(* again, compares, and hands the write to the atomic writer.  Calls of    *)
(* apply overlap at their awaits, and editors change the file meanwhile.   *)
(*                                                                         *)
(* The atomic writer's lock keeps other fixes out between its last         *)
(* comparison and its rename, and nobody else: an editor that saves in     *)
(* between is overwritten.  One source file is modelled with its text, a   *)
(* sequence of marks; plans that touch several files, or create or move    *)
(* files, are kinds of preview.                                            *)
(* Validation, confidence and suppression gates refuse a preview and       *)
(* change nothing.                                                         *)
(***************************************************************************)
EXTENDS Naturals, Sequences, SequencesExt, FiniteSets

CONSTANTS Pipelines,     \* instances of RepositorySafeFixPipeline
          Previews,      \* previews that may be minted
          Applies,       \* calls of apply
          Marks,         \* the characters of texts
          NewTexts,      \* the replacement texts of edits
          EditorTexts,   \* the texts editors leave behind
          Inodes,
          FirstText,     \* the text at the start
          MaximumBytes,  \* options.maximumBytes
          MaxPlanEdits,  \* bound: edits in one preview
          None

ASSUME FixAssumption ==
  /\ MaximumBytes \in Nat /\ MaxPlanEdits \in Nat
  /\ NewTexts \subseteq Seq(Marks) /\ EditorTexts \subseteq Seq(Marks)
  /\ FirstText \in Seq(Marks) /\ Len(FirstText) <= MaximumBytes

VARIABLES document,   \* the file in the repository: inode and text
          preview,    \* PREVIEW_STATE
          applied,    \* APPLIED_PREVIEWS
          fix,        \* call of apply -> its progress
          commits,    \* history: preview -> how often the file was replaced for it
          raced       \* history: calls for which an editor saved between the writer's
                      \* last comparison and its rename

fixVars == <<document, preview, applied, fix, commits, raced>>

FixInit ==
  /\ document = [inode |-> CHOOSE i \in Inodes : TRUE, text |-> FirstText]
  /\ preview = [p \in Previews |-> None]
  /\ applied = {}
  /\ fix = [a \in Applies |-> [pc |-> "idle"]]
  /\ commits = [p \in Previews |-> 0]
  /\ raced = {}

-----------------------------------------------------------------------------
(* Half-open ranges of positions in a text, and the text that replaces them. *)
EditsOf(text) ==
  {e \in [start : 0..Len(text), end : 0..Len(text), new : NewTexts] : e.start <= e.end}

(* Faulty variant: an insertion at the start of a replacement is not an overlap. *)
RangesOverlapStrictly(left, right) == left.start < right.end /\ right.start < left.end

RangesOverlap(left, right) ==
  \/ left.start = right.start
  \/ left.start < right.end /\ right.start < left.end

(* The sort of preview(): by start, then by end.  Edits of one start and end follow one
   another in the order of their plans, which is any. *)
Precedes(left, right) == left.start < right.start \/ (left.start = right.start /\ left.end <= right.end)

Sortings(edits) ==
  {s \in [1..Cardinality(edits) -> edits] :
     ToSet(s) = edits /\ \A i, j \in DOMAIN s : i < j => Precedes(s[i], s[j])}

(* Only neighbours in the sorted order are compared. *)
NeighboursApart(s) == \A i \in 2..Len(s) : ~RangesOverlap(s[i - 1], s[i])

(* Rebuild the text from the left: what lies between the end of the last edit and the next
   one, then the replacement, and at last the rest. *)
ApplyEdits(text, s) ==
  LET cursor(i) == IF i = 0 THEN 0 ELSE s[i].end
      rest == SubSeq(text, cursor(Len(s)) + 1, Len(text))
      parts == [i \in 1..Len(s) |-> SubSeq(text, cursor(i - 1) + 1, s[i].start) \o s[i].new]
  IN FlattenSeq(Append(parts, rest))

(* The kinds of change a selection of plans asks for. *)
Kinds == {"none", "single", "several", "unsupported"}

MakePreview(p, f) ==
  /\ preview[p] = None
  /\ \E kind \in Kinds, edits \in UNION {kSubset(n, EditsOf(document.text)) : n \in 0..MaxPlanEdits} :
     \E s \in Sortings(edits) :
       /\ (kind = "single") <=> (edits # {})
       /\ NeighboursApart(s)
       /\ LET after == ApplyEdits(document.text, s)
          IN /\ kind = "single" => Len(after) <= MaximumBytes /\ after # document.text
             /\ preview' = [preview EXCEPT ![p] =
                  [owner |-> f, kind |-> kind, before |-> document, after |-> after,
                   edits |-> edits]]
  /\ UNCHANGED <<document, applied, fix, commits, raced>>

-----------------------------------------------------------------------------
FixAt(a, pc) == fix[a].pc = pc
FixGoto(a, pc) == fix' = [fix EXCEPT ![a].pc = pc]
Done(p, result) == [pc |-> "done", preview |-> p, result |-> result]
Ends(a, result) == fix' = [fix EXCEPT ![a] = Done(fix[a].preview, result)]

(* Faulty variant: starting to apply a preview does not spend it. *)
ApplyBeginsUnspent(a, p, f) ==
  /\ FixAt(a, "idle") /\ preview[p] # None
  /\ preview[p].owner = f /\ preview[p].kind = "single"
  /\ fix' = [fix EXCEPT ![a] = [pc |-> "read", preview |-> p]]
  /\ UNCHANGED <<document, preview, applied, commits, raced>>

(* apply() up to its first await.  The preview is spent by the first call on the pipeline
   that owns it, also when that call ends at once: cancelled, with creations, moves or
   several files, or with nothing to change. *)
ApplyBegins(a, p, f) ==
  /\ FixAt(a, "idle") /\ preview[p] # None
  /\ \/ /\ preview[p].owner # f \/ p \in applied
        /\ fix' = [fix EXCEPT ![a] = Done(p, "refused")]
        /\ UNCHANGED applied
     \/ /\ preview[p].owner = f /\ p \notin applied
        /\ applied' = applied \cup {p}
        /\ \/ fix' = [fix EXCEPT ![a] = Done(p, "refused")]
           \/ /\ preview[p].kind = "none"
              /\ fix' = [fix EXCEPT ![a] = Done(p, "applied")]
           \/ /\ preview[p].kind = "single"
              /\ fix' = [fix EXCEPT ![a] = [pc |-> "read", preview |-> p]]
  /\ UNCHANGED <<document, preview, commits, raced>>

(* The file is read again and compared with the one that was analysed. *)
Revalidate(a) ==
  /\ FixAt(a, "read")
  /\ \/ document = preview[fix[a].preview].before /\ FixGoto(a, "write")
     \/ Ends(a, "refused")
  /\ UNCHANGED <<document, preview, applied, commits, raced>>

(* The atomic writer's last comparison, under the lock of the file: no other fix is
   between its own comparison and its rename. *)
WriterCompares(a) ==
  /\ FixAt(a, "write")
  /\ document = preview[fix[a].preview].before
  /\ \A b \in Applies : ~FixAt(b, "rename")
  /\ FixGoto(a, "rename")
  /\ UNCHANGED <<document, preview, applied, commits, raced>>

(* The rename replaces whatever is there by now, under a new inode number. *)
WriterCommits(a) ==
  /\ FixAt(a, "rename")
  /\ LET p == fix[a].preview
     IN /\ \E i \in Inodes \ {document.inode} : document' = [inode |-> i, text |-> preview[p].after]
        /\ commits' = [commits EXCEPT ![p] = @ + 1]
  /\ raced' = raced \ {a}
  /\ FixGoto(a, "committed")
  /\ UNCHANGED <<preview, applied>>

(* The writer answers: success after a commit, or an error that says whether it
   committed; cancellation is only ever reported without a commit. *)
ApplyReturns(a) ==
  /\ fix[a].pc \in {"write", "rename", "committed"}
  /\ \E result \in IF FixAt(a, "committed") THEN {"applied", "failed-committed"} ELSE {"refused"} :
       Ends(a, result)
  /\ raced' = raced \ {a}
  /\ UNCHANGED <<document, preview, applied, commits>>

(* An editor saves the file, in place or under a new inode number, and looks at no lock. *)
EditorSaves ==
  /\ \E text \in EditorTexts, i \in Inodes : document' = [inode |-> i, text |-> text]
  /\ document' # document
  /\ raced' = raced \cup {a \in Applies : FixAt(a, "rename")}
  /\ UNCHANGED <<preview, applied, fix, commits>>

FixNext ==
  \/ \E p \in Previews, f \in Pipelines : MakePreview(p, f)
  \/ \E a \in Applies :
       \/ \E p \in Previews, f \in Pipelines : ApplyBegins(a, p, f)
       \/ Revalidate(a)
       \/ WriterCompares(a)
       \/ WriterCommits(a)
       \/ ApplyReturns(a)
  \/ EditorSaves

FixSpec == FixInit /\ [][FixNext]_fixVars

-----------------------------------------------------------------------------
(* What the edits mean, position by position: the text of the edit that starts there,
   then the mark after it unless an edit covers it. *)
Edited(text, edits) ==
  LET at(g) == IF \E e \in edits : e.start = g THEN (CHOOSE e \in edits : e.start = g).new ELSE <<>>
      kept(g) == IF g < Len(text) /\ \A e \in edits : ~(e.start <= g /\ g < e.end)
                 THEN <<text[g + 1]>> ELSE <<>>
  IN FlattenSeq([i \in 1..(Len(text) + 1) |-> at(i - 1) \o kept(i - 1)])

(* A fix writes the text that was analysed with each selected edit made in place:
   comparing neighbours and rebuilding from the left lose no edit and no other mark.
   And the file it replaces is the one that was analysed, whatever other fixes do,
   unless an editor saved after the comparison that precedes this very rename. *)
FixReplacesAnalysed ==
  [][\A a \in Applies :
       fix[a].pc = "rename" /\ fix'[a].pc = "committed" =>
         LET p == preview[fix[a].preview]
         IN /\ document = p.before \/ a \in raced
            /\ document'.text = Edited(p.before.text, p.edits)]_fixVars

(* A preview is applied at most once, whichever calls race for it, also when an editor
   brings the analysed file back in between; and a call says that the file was replaced
   exactly when it was replaced for its preview. *)
AppliedOnce ==
  /\ \A p \in Previews : commits[p] <= 1
  /\ \A a \in Applies : fix[a].pc = "done" =>
       LET p == fix[a].preview
       IN /\ fix[a].result = "failed-committed" => commits[p] = 1
          /\ fix[a].result = "applied" /\ preview[p].kind = "single" => commits[p] = 1
          /\ (\A b \in Applies : fix[b].pc # "idle" /\ fix[b].preview = p
                 => fix[b].pc = "done" /\ fix[b].result = "refused")
               => commits[p] = 0
=============================================================================
