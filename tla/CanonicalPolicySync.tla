-------------------------- MODULE CanonicalPolicySync --------------------------
(***************************************************************************)
(* Synchronisation of vendor instruction files with a canonical AGENTS.md  *)
(* (packages/resolver/src/canonical-policy-sync.ts).                       *)
(*                                                                         *)
(* preview() compares three texts of a target: the one generated from the  *)
(* canonical source, the one in the repository and the one of the prior    *)
(* base that the caller kept from an earlier preview.  Only a file that is *)
(* still the prior base is replaced; apply() takes an issued target once   *)
(* and leaves the write to the safe fix pipeline, whose writer compares    *)
(* the file with the previewed one and then renames.  The lock it holds    *)
(* keeps other calls out of that window, not an editor.  The canonical     *)
(* source, the vendor file and the kept base change between the reads, the *)
(* preview, the comparison and the rename.                                 *)
(*                                                                         *)
(* One target is modelled: targets of one preview only share the limits    *)
(* that fail the whole call.  The text generated from version v of the     *)
(* canonical source is [by |-> "generator", of |-> v]; a text written by   *)
(* hand may have kept the header of a generated one or not.                *)
(***************************************************************************)
EXTENDS Naturals, FiniteSets

CONSTANTS MaxVersions,      \* bound: versions of the canonical source
          Unrepresentable,  \* the versions this target cannot express
          Synchronizers,    \* instances of RepositoryCanonicalPolicySynchronizer
          SyncCalls,        \* calls of preview() and the targets they issue
          MaxHandEdits      \* bound: edits and deletions by hand

ASSUME SyncAssumption == MaxVersions \in Nat /\ MaxHandEdits \in Nat

VARIABLES canonical,    \* the version of the canonical source
          vendor,       \* the text of the vendor file, or Missing
          priorBase,    \* what the caller keeps: NoBase, Damaged or the text of a nextBase
          sync,         \* call -> its progress, and the target it issued
          usedTargets,  \* USED_TARGETS
          handEdits,    \* counts the edits by hand
          overtaken,    \* history: calls an edit fell between comparison and rename of
          inStep,       \* history: calls since whose preview or write the file is the same
          settled       \* history: the base kept last is of such a call

syncVars == <<canonical, vendor, priorBase, sync, usedTargets, handEdits,
              overtaken, inStep, settled>>
history == <<overtaken, inStep, settled>>

PolicyVersions == 1 .. MaxVersions
Generated(v) == [by |-> "generator", of |-> v]
ByHand(header) == [by |-> "hand", of |-> header]     \* header 0: none that parses
Missing == [by |-> "nobody", of |-> 0]
NoBase == [by |-> "nobody", of |-> 1]
Damaged == [by |-> "nobody", of |-> 2]

SyncInit ==
  /\ canonical = 1 /\ vendor = Missing /\ priorBase = NoBase
  /\ sync = [c \in SyncCalls |-> [pc |-> "idle"]]
  /\ usedTargets = {} /\ handEdits = 0
  /\ overtaken = {} /\ inStep = {} /\ settled = FALSE

-----------------------------------------------------------------------------
(* validateGeneratedSyntax: the header of any version passes, whatever follows it. *)
ValidSyntax(text) == text.of # 0

(* Faulty variant: a file is taken for its base when the header says so. *)
MergeStateByHeader(version, current, prior) ==
  LET generated == Generated(version)
  IN IF version \in Unrepresentable THEN "unrepresentable"
     ELSE IF current = Missing
       THEN IF prior = NoBase THEN "create-preview" ELSE "missing-current"
     ELSE IF ~ValidSyntax(current) THEN "malformed-current"
     ELSE IF prior = Damaged THEN "malformed-prior-base"
     ELSE IF current = generated THEN "already-current"
     ELSE IF prior = NoBase THEN "untracked-existing"
     ELSE IF current.of # prior.of THEN "hand-edit-conflict"
     ELSE "clean-update"

(* Faulty variant: a file is taken for current when the header says so. *)
MergeStateByDigest(version, current, prior) ==
  LET generated == Generated(version)
  IN IF version \in Unrepresentable THEN "unrepresentable"
     ELSE IF current = Missing
       THEN IF prior = NoBase THEN "create-preview" ELSE "missing-current"
     ELSE IF ~ValidSyntax(current) THEN "malformed-current"
     ELSE IF prior = Damaged THEN "malformed-prior-base"
     ELSE IF current.of = generated.of THEN "already-current"
     ELSE IF prior = NoBase THEN "untracked-existing"
     ELSE IF current # prior THEN "hand-edit-conflict"
     ELSE "clean-update"

(* The decision of preview() for one target, in the order of its conditions. *)
MergeState(version, current, prior) ==
  LET generated == Generated(version)
  IN IF version \in Unrepresentable THEN "unrepresentable"
     ELSE IF current = Missing
       THEN IF prior = NoBase THEN "create-preview" ELSE "missing-current"
     ELSE IF ~ValidSyntax(current) THEN "malformed-current"
     ELSE IF prior = Damaged THEN "malformed-prior-base"
     ELSE IF current = generated THEN "already-current"
     ELSE IF prior = NoBase THEN "untracked-existing"
     ELSE IF current # prior THEN "hand-edit-conflict"
     ELSE "clean-update"

SyncAt(c, pc) == sync[c].pc = pc

(* The caller reads the canonical source ... *)
ReadCanonical(c, s) ==
  /\ SyncAt(c, "idle")
  /\ sync' = [sync EXCEPT ![c] = [pc |-> "read", owner |-> s, version |-> canonical]]
  /\ UNCHANGED <<canonical, vendor, priorBase, usedTargets, handEdits, history>>

(* ... then the target, takes the base it keeps, and asks for a preview. *)
Preview(c) ==
  /\ SyncAt(c, "read")
  /\ \/ /\ sync' = [sync EXCEPT ![c] =
             [pc |-> "issued", owner |-> @.owner, version |-> @.version, before |-> vendor,
              state |-> MergeState(@.version, vendor, priorBase)]]
        /\ inStep' = inStep \cup {c}
     \/ sync' = [sync EXCEPT ![c] = [pc |-> "failed"]]    \* limits, deadline, cancellation
        /\ UNCHANGED inStep
  /\ UNCHANGED <<canonical, vendor, priorBase, usedTargets, handEdits, overtaken, settled>>

(* The caller keeps nextBase where the file is, by the preview, what was generated. *)
KeepBase(c) ==
  /\ \/ SyncAt(c, "issued") /\ sync[c].state = "already-current"
     \/ SyncAt(c, "applied")
  /\ priorBase' = Generated(sync[c].version)
  /\ settled' = (c \in inStep)
  /\ UNCHANGED <<canonical, vendor, sync, usedTargets, handEdits, overtaken, inStep>>

(* apply() up to the pipeline: the issuing synchronizer takes a target once, and refuses
   what is not ready with the target spent. *)
Apply(c, s) ==
  /\ SyncAt(c, "issued") /\ sync[c].state \in {"clean-update", "create-preview"}
  /\ sync[c].owner = s /\ c \notin usedTargets
  /\ usedTargets' = usedTargets \cup {c}
  /\ sync' = [sync EXCEPT ![c].pc = IF sync[c].state = "clean-update" THEN "pipeline" ELSE @]
  /\ UNCHANGED <<canonical, vendor, priorBase, handEdits, history>>

(* pipeline.apply, up to the writer's last comparison with the file that was previewed;
   the writer's lock is held, so no other call is between its comparison and rename. *)
PipelineCompares(c) ==
  /\ SyncAt(c, "pipeline")
  /\ \/ /\ vendor = sync[c].before /\ \A d \in SyncCalls : ~SyncAt(d, "rename")
        /\ sync' = [sync EXCEPT ![c].pc = "rename"]
     \/ sync' = [sync EXCEPT ![c].pc = "failed"]
  /\ UNCHANGED <<canonical, vendor, priorBase, usedTargets, handEdits, history>>

(* The file is c's to be from here on. *)
Writes(c) ==
  /\ vendor' = Generated(sync[c].version)
  /\ inStep' = {c} /\ settled' = FALSE

(* The rename replaces whatever the file is by now; what follows it may still fail. *)
PipelineReplaces(c) ==
  /\ SyncAt(c, "rename")
  /\ \/ /\ Writes(c)
        /\ \E outcome \in {"applied", "failed"} : sync' = [sync EXCEPT ![c].pc = outcome]
     \/ sync' = [sync EXCEPT ![c].pc = "failed"] /\ UNCHANGED <<vendor, inStep, settled>>
  /\ overtaken' = overtaken \ {c}
  /\ UNCHANGED <<canonical, priorBase, usedTargets, handEdits>>

(* A reviewer makes the file of a creation preview, exactly as shown. *)
CreateReviewed(c) ==
  /\ SyncAt(c, "issued") /\ sync[c].state = "create-preview" /\ vendor = Missing
  /\ Writes(c)
  /\ sync' = [sync EXCEPT ![c].pc = "applied"]
  /\ UNCHANGED <<canonical, priorBase, usedTargets, handEdits, overtaken>>

CanonicalChanges ==
  /\ \E v \in PolicyVersions : v # canonical /\ canonical' = v
  /\ UNCHANGED <<vendor, priorBase, sync, usedTargets, handEdits, history>>

(* Someone writes over the vendor file, keeping its header or not, or deletes it, and
   looks at no lock. *)
EditByHand ==
  /\ handEdits < MaxHandEdits /\ handEdits' = handEdits + 1
  /\ \/ vendor' \in {ByHand(0), Missing}
     \/ vendor # Missing /\ vendor' = ByHand(vendor.of)
  /\ inStep' = {} /\ settled' = FALSE
  /\ overtaken' = overtaken \cup {c \in SyncCalls : SyncAt(c, "rename")}
  /\ UNCHANGED <<canonical, priorBase, sync, usedTargets>>

(* The caller's state is lost or damaged. *)
LoseBase ==
  /\ priorBase' \in {NoBase, Damaged}
  /\ settled' = FALSE
  /\ UNCHANGED <<canonical, vendor, sync, usedTargets, handEdits, overtaken, inStep>>

SyncNext ==
  \/ \E c \in SyncCalls :
       \/ \E s \in Synchronizers : ReadCanonical(c, s) \/ Apply(c, s)
       \/ Preview(c) \/ KeepBase(c) \/ CreateReviewed(c)
       \/ PipelineCompares(c) \/ PipelineReplaces(c)
  \/ CanonicalChanges \/ EditByHand \/ LoseBase

SyncSpec == SyncInit /\ [][SyncNext]_syncVars

-----------------------------------------------------------------------------
(* Nothing but a hand writes over work done by hand, however previews, applies and edits
   interleave and whatever base the caller still keeps: what the pipeline or a reviewer
   replaces is a text that was generated, or nothing, unless the edit fell between the
   writer's last comparison and the rename of this very call. *)
HandEditsSurvive ==
  [][\A c \in SyncCalls :
       vendor' # vendor /\ sync'[c] # sync[c] =>
         vendor = Missing \/ vendor.by = "generator" \/ c \in overtaken]_syncVars

(* A base that the caller keeps of a preview or an apply since which the file stayed as it
   is, whatever other calls, lost bases and failures after the rename came before, is
   the text of the file: the next preview updates it or finds it current, and refuses it
   neither as untracked nor as edited by hand. *)
KeptBaseServes ==
  settled => \A v \in PolicyVersions \ Unrepresentable :
               MergeState(v, vendor, priorBase) \in {"already-current", "clean-update"}
=============================================================================
