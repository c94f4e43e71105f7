--------------------------- MODULE TrustedUpdate ---------------------------
(***************************************************************************)
(* Checking for a standards update and verifying it                        *)
(* (packages/standards/src/standards-check.ts and tuf-trust.ts).           *)
(*                                                                         *)
(* A check reads the trusted state once, then fetches, one await at a      *)
(* time: the next roots until one is missing, a timestamp, and the         *)
(* snapshot, targets, channel metadata and pack it is led to.  One         *)
(* synchronous verifyUpdate then accepts all of it or nothing, and the     *)
(* result is adopted only over the state the check started from            *)
(* (standards-update.ts).  Meanwhile the publisher rotates keys and        *)
(* releases packs, and a lagging or confused mirror may answer any request *)
(* with any object of that role ever published.                            *)
(*                                                                         *)
(* Abstractions: the keys of a role are one key generation; a digest is    *)
(* the object itself, so a signed parent contains its children; an object  *)
(* that fails its schema, its engine minimum or its times is a rejection   *)
(* that may happen.                                                        *)
(***************************************************************************)
EXTENDS Naturals, Sequences, FiniteSets

CONSTANTS Checks,        \* calls of StandardsChecker.check
          MaxRootChain,  \* MAX_TUF_ROOT_CHAIN
          MaxRoots,      \* bound: roots the publisher ever signs
          MaxReleases,   \* bound: releases the publisher ever signs
          MaxFetching,   \* bound: checks that fetch at the same time
          MaxMisplaced,  \* bound: objects served under a wrong address, per check
          None

ASSUME TrustAssumption ==
  /\ MaxRootChain \in Nat \ {0}
  /\ MaxRoots \in Nat \ {0}
  /\ MaxReleases \in Nat \ {0}
  /\ MaxFetching \in Nat \ {0}
  /\ MaxMisplaced \in Nat

Channels == {"stable", "preview"}
OnlineRoles == {"timestamp", "snapshot"}
Roles == {"root", "targets"} \cup OnlineRoles
OtherChannel(channel) == IF channel = "stable" THEN "preview" ELSE "stable"

(* The objects of the registry (external); None is not one of them. *)
RootObject == [version : Nat, keys : [Roles -> Nat], signers : SUBSET Nat]
DelegatedObject == [channel : Channels, version : Nat, signer : Nat]
TargetsObject == [version : Nat, signer : Nat, delegates : Nat]
SnapshotObject ==
  [version : Nat, signer : Nat, targets : TargetsObject, channel : [Channels -> DelegatedObject]]
TimestampObject == [version : Nat, signer : Nat, snapshot : SnapshotObject]

ASSUME NoneAssumption == None \notin TimestampObject

VARIABLES roots,      \* published roots, in order
          releases,   \* published timestamps, each with all it binds, in order
          trust,      \* the trusted state in use
          check       \* check -> its progress

trustVars == <<roots, releases, trust, check>>

LastOf(s) == s[Len(s)]

-----------------------------------------------------------------------------
(* The publisher (external): what the registry's objects look like.  A root is signed
   by the old and the new root keys; every other object by its role's current key. *)
FirstRoot == [version |-> 1, keys |-> [r \in Roles |-> 1], signers |-> {1}]

ChannelMetadata(channel, version, targetsKey) ==
  [channel |-> channel, version |-> version, signer |-> targetsKey]

TargetsMetadata(version, key) == [version |-> version, signer |-> key, delegates |-> key]

ReleaseOf(version, root, targets, stable, preview) ==
  [version  |-> version,
   signer   |-> root.keys["timestamp"],
   snapshot |-> [version |-> version,
                 signer  |-> root.keys["snapshot"],
                 targets |-> targets,
                 channel |-> [c \in Channels |-> IF c = "stable" THEN stable ELSE preview]]]

Rotate(role) ==
  /\ Len(roots) < MaxRoots
  /\ LET old == LastOf(roots)
         new == [old.keys EXCEPT ![role] = @ + 1]
     IN roots' = Append(roots, [version |-> old.version + 1, keys |-> new,
                                signers |-> {old.keys["root"], new["root"]}])
  /\ UNCHANGED <<releases, trust, check>>

(* A new pack in one channel.  Rotated targets keys re-sign the targets metadata and
   the channels; once an online key was rotated, online versions may start anew. *)
Release(channel, restart) ==
  /\ Len(releases) < MaxReleases
  /\ LET root == LastOf(roots)
         last == LastOf(releases)
         key == root.keys["targets"]
         resign == last.snapshot.targets.signer # key
         next(c) == LET d == last.snapshot.channel[c]
                    IN IF c = channel \/ resign THEN ChannelMetadata(c, d.version + 1, key) ELSE d
         targets == IF resign THEN TargetsMetadata(last.snapshot.targets.version + 1, key)
                              ELSE last.snapshot.targets
         rotated == \/ root.keys["timestamp"] # last.signer
                    \/ root.keys["snapshot"] # last.snapshot.signer
     IN /\ restart => rotated
        /\ releases' = Append(releases, ReleaseOf(IF restart THEN 1 ELSE last.version + 1,
                                                  root, targets, next("stable"), next("preview")))
  /\ UNCHANGED <<roots, trust, check>>

Timestamps == {releases[i] : i \in 1..Len(releases)}
Snapshots == {t.snapshot : t \in Timestamps}
TargetsServed == {s.targets : s \in Snapshots}
DelegatedServed == {s.channel[c] : s \in Snapshots, c \in Channels}

-----------------------------------------------------------------------------
(* OfflineTufTrustStore.bootstrap: a root and nothing else. *)
Bootstrap(root) ==
  [root |-> root, timestamp |-> None, snapshot |-> None, targets |-> None,
   delegated |-> [c \in Channels |-> None]]

Idle == [pc |-> "idle"]

TrustInit ==
  /\ roots = <<FirstRoot>>
  /\ releases = <<ReleaseOf(1, FirstRoot, TargetsMetadata(1, 1),
                            ChannelMetadata("stable", 1, 1), ChannelMetadata("preview", 1, 1))>>
  /\ trust = Bootstrap(FirstRoot)
  /\ check = [k \in Checks |-> Idle]

(* verifyDelegate: the threshold of a role's current keys. *)
SignedBy(object, key) == object.signer = key

(* Exactly the next version, signed by the old and by its own root keys. *)
RootFollows(old, new) ==
  /\ new.version = old.version + 1
  /\ old.keys["root"] \in new.signers
  /\ new.keys["root"] \in new.signers

ChainOf(state, fetched) == <<state.root>> \o fetched

(* The chain of fetched roots, and whether it changes the keys of an online role. *)
ChainHolds(chain) == \A i \in 1..(Len(chain) - 1) : RootFollows(chain[i], chain[i + 1])

(* Faulty variant: only a rotation of the timestamp keys counts. *)
OnlineTimestampOnly(chain) ==
  \E i \in 1..(Len(chain) - 1) : chain[i].keys["timestamp"] # chain[i + 1].keys["timestamp"]

OnlineAuthorityRotated(chain) ==
  \E i \in 1..(Len(chain) - 1), r \in OnlineRoles : chain[i].keys[r] # chain[i + 1].keys[r]

(* A timestamp that is older than, or equal to, the one already trusted. *)
Replays(prior, timestamp) == prior # None /\ timestamp.version = prior.version

RollsBack(prior, timestamp) ==
  /\ prior # None
  /\ \/ timestamp.version < prior.version
     \/ timestamp.snapshot.version < prior.snapshot.version

(* A snapshot that takes targets or channel metadata back. *)
SnapshotRollsBack(prior, snapshot) ==
  /\ prior # None
  /\ \/ snapshot.targets.version < prior.targets.version
     \/ \E c \in Channels : snapshot.channel[c].version < prior.channel[c].version

(* retainDelegated: the other channel stays only while the snapshot still binds it. *)
RetainDelegated(previous, binding) == IF previous = binding THEN previous ELSE None

(* Faulty variant: the channel metadata is not compared with the snapshot's binding. *)
BoundLoosely(b, channel) ==
  /\ b.snapshot = b.timestamp.snapshot
  /\ b.targets = b.snapshot.targets
  /\ b.delegated.channel = channel
  /\ b.pack = b.delegated

(* Every object is the one its signed parent binds, down to the pack. *)
Bound(b, channel) ==
  /\ b.snapshot = b.timestamp.snapshot
  /\ b.targets = b.snapshot.targets
  /\ b.delegated = b.snapshot.channel[channel]
  /\ b.pack = b.delegated

(* Every object carries the signatures that its delegator asks for. *)
Signed(b, root) ==
  /\ SignedBy(b.timestamp, root.keys["timestamp"])
  /\ SignedBy(b.snapshot, root.keys["snapshot"])
  /\ SignedBy(b.targets, root.keys["targets"])
  /\ SignedBy(b.delegated, b.targets.delegates)

(* verifyUpdate, without the rejections that depend on the time or on the schema. *)
Verdict(state, b, channel) ==
  LET chain == ChainOf(state, b.roots)
      root == LastOf(chain)
      reset == OnlineAuthorityRotated(chain)
      priorTimestamp == IF reset THEN None ELSE state.timestamp
      priorSnapshot == IF reset THEN None ELSE state.snapshot
  IN IF ~ChainHolds(chain) \/ ~SignedBy(b.timestamp, root.keys["timestamp"]) THEN "rejected"
     ELSE IF Replays(priorTimestamp, b.timestamp) THEN "replay"
     ELSE IF RollsBack(priorTimestamp, b.timestamp) \/ SnapshotRollsBack(priorSnapshot, b.snapshot)
       THEN "rejected"
     ELSE IF ~Bound(b, channel) \/ ~Signed(b, root) THEN "rejected"
     ELSE "accepted"

(* The state verifyUpdate returns. *)
Candidate(state, b, channel) ==
  LET chain == ChainOf(state, b.roots)
      other == OtherChannel(channel)
      kept == IF OnlineAuthorityRotated(chain) THEN None
              ELSE RetainDelegated(state.delegated[other], b.snapshot.channel[other])
  IN [root |-> LastOf(chain), timestamp |-> b.timestamp, snapshot |-> b.snapshot,
      targets |-> b.targets,
      delegated |-> [c \in Channels |-> IF c = channel THEN b.delegated ELSE kept]]

-----------------------------------------------------------------------------
(* StandardsChecker.check. *)
CheckAt(k, pc) == check[k].pc = pc

Becomes(k, value) ==
  /\ check' = [check EXCEPT ![k] = value]
  /\ UNCHANGED <<roots, releases, trust>>

EmptyBundle ==
  [roots |-> <<>>, timestamp |-> None, snapshot |-> None, targets |-> None,
   delegated |-> None, pack |-> None]

CheckBegins(k, channel) ==
  /\ CheckAt(k, "idle")
  /\ Cardinality({j \in Checks : check[j].pc \notin {"idle", "accepted"}}) < MaxFetching
  /\ Becomes(k, [pc |-> "root", channel |-> channel, current |-> trust,
                 bundle |-> EmptyBundle, misplaced |-> 0])

(* Any registry failure but the missing root that ends the chain, and routing data that
   cannot be read. *)
RegistryFails(k) ==
  /\ check[k].pc \in {"root", "timestamp", "snapshot", "targets", "delegated", "pack"}
  /\ Becomes(k, Idle)

(* An answer of the registry: the object asked for or, at most MaxMisplaced times in one
   check, another object of its kind.  It becomes field of the bundle. *)
Answers(k, next, field, objects, Asked(_)) ==
  LET b == check[k].bundle
  IN \E object \in objects :
       /\ Asked(object) \/ check[k].misplaced < MaxMisplaced
       /\ Becomes(k, [check[k] EXCEPT
            !.pc = next,
            !.misplaced = IF Asked(object) THEN @ ELSE @ + 1,
            !.bundle = [b EXCEPT ![field] = IF field = "roots" THEN Append(b.roots, object) ELSE object]])

(* The next root.  A missing one ends the chain; one beyond the limit ends the check. *)
FetchRoot(k) ==
  /\ CheckAt(k, "root")
  /\ LET b == check[k].bundle
         wanted == check[k].current.root.version + Len(b.roots) + 1
         Asked(r) == r.version = wanted
     IN \/ Becomes(k, [check[k] EXCEPT !.pc = "timestamp"])
        \/ /\ Len(b.roots) < MaxRootChain
           /\ Answers(k, "root", "roots", {roots[i] : i \in 2..Len(roots)}, Asked)
        \/ /\ Len(b.roots) = MaxRootChain
           /\ wanted <= Len(roots) \/ check[k].misplaced < MaxMisplaced
           /\ Becomes(k, Idle)

(* The timestamp has no version in its address: a mirror may be behind. *)
FetchTimestamp(k) ==
  LET Asked(t) == TRUE
  IN CheckAt(k, "timestamp") /\ Answers(k, "snapshot", "timestamp", Timestamps, Asked)

(* Each further request is led by an object that is not verified yet. *)
FetchSnapshot(k) ==
  LET Asked(s) == s.version = check[k].bundle.timestamp.snapshot.version
  IN CheckAt(k, "snapshot") /\ Answers(k, "targets", "snapshot", Snapshots, Asked)

FetchTargets(k) ==
  LET Asked(t) == t.version = check[k].bundle.snapshot.targets.version
  IN CheckAt(k, "targets") /\ Answers(k, "delegated", "targets", TargetsServed, Asked)

FetchDelegated(k) ==
  LET binding == check[k].bundle.snapshot.channel[check[k].channel]
      Asked(d) == d.channel = binding.channel /\ d.version = binding.version
  IN CheckAt(k, "delegated") /\ Answers(k, "pack", "delegated", DelegatedServed, Asked)

(* A pack is named by the metadata that binds it. *)
FetchPack(k) ==
  LET Asked(p) == p = check[k].bundle.delegated
  IN CheckAt(k, "pack") /\ Answers(k, "verify", "pack", DelegatedServed, Asked)

(* The single verification at the end, against the state read at the start. *)
Verify(k) ==
  /\ CheckAt(k, "verify")
  /\ LET c == check[k]
         verdict == Verdict(c.current, c.bundle, c.channel)
     IN \/ Becomes(k, Idle)                   \* times, engine or schema
        \/ /\ verdict = "accepted"
           /\ Becomes(k, [pc |-> "accepted", current |-> c.current,
                          candidate |-> Candidate(c.current, c.bundle, c.channel)])
        \/ /\ verdict # "accepted"
           /\ Becomes(k, [pc |-> verdict])

(* The failed check returns; nothing else has changed. *)
CheckFails(k) ==
  /\ check[k].pc \in {"rejected", "replay"}
  /\ Becomes(k, Idle)

(* Faulty variant: the candidate is adopted over whatever state is there now. *)
AdoptOver(k) ==
  /\ CheckAt(k, "accepted")
  /\ trust' = check[k].candidate
  /\ check' = [check EXCEPT ![k] = Idle]
  /\ UNCHANGED <<roots, releases>>

(* The candidate is adopted only over the state that it was verified against. *)
Adopt(k) ==
  /\ CheckAt(k, "accepted")
  /\ trust' = IF trust = check[k].current THEN check[k].candidate ELSE trust
  /\ check' = [check EXCEPT ![k] = Idle]
  /\ UNCHANGED <<roots, releases>>

CheckStep(k) ==
  \/ \E channel \in Channels : CheckBegins(k, channel)
  \/ RegistryFails(k)
  \/ FetchRoot(k)
  \/ FetchTimestamp(k)
  \/ FetchSnapshot(k)
  \/ FetchTargets(k)
  \/ FetchDelegated(k)
  \/ FetchPack(k)
  \/ Verify(k)
  \/ CheckFails(k)
  \/ Adopt(k)

TrustNext ==
  \/ \E role \in Roles : Rotate(role)
  \/ \E channel \in Channels, restart \in BOOLEAN : Release(channel, restart)
  \/ \E k \in Checks : CheckStep(k)

TrustSpec == TrustInit /\ [][TrustNext]_trustVars

-----------------------------------------------------------------------------
(* A state is only ever trusted as a whole: root, timestamp, snapshot, targets and both
   channels are what one release of the publisher binds together, signed with the keys
   of the trusted root, however the mirror mixes old and new objects. *)
TrustIsOneRelease ==
  \/ trust = Bootstrap(FirstRoot)
  \/ /\ trust.root \in {roots[i] : i \in 1..Len(roots)}
     /\ trust.timestamp \in Timestamps
     /\ trust.snapshot = trust.timestamp.snapshot
     /\ trust.targets = trust.snapshot.targets
     /\ \A c \in Channels : trust.delegated[c] \in {None, trust.snapshot.channel[c]}
     /\ trust.timestamp.signer = trust.root.keys["timestamp"]
     /\ trust.snapshot.signer = trust.root.keys["snapshot"]
     /\ trust.targets.signer = trust.root.keys["targets"]

IndexOf(timestamp) ==
  IF timestamp = None THEN 0 ELSE CHOOSE i \in 1..Len(releases) : releases[i] = timestamp

(* The trusted state only moves to a later release and never to an older root: stale
   mirrors, concurrent checks and even version numbers that start anew after a rotation
   (the reset of verifyUpdate) cannot take it back. *)
TrustMovesForward ==
  [][trust' # trust =>
       /\ IndexOf(trust.timestamp)' > IndexOf(trust.timestamp)
       /\ trust'.root.version >= trust.root.version]_trustVars

(* What an up-to-date mirror serves to a check that starts from state. *)
IsLatest(state, b, channel) ==
  LET last == LastOf(releases)
  IN /\ b = [roots |-> SubSeq(roots, state.root.version + 1, Len(roots)),
             timestamp |-> last, snapshot |-> last.snapshot, targets |-> last.snapshot.targets,
             delegated |-> last.snapshot.channel[channel], pack |-> last.snapshot.channel[channel]]
     /\ Signed(b, LastOf(roots))

(* Recovery: a client that receives the publisher's current objects accepts them or has
   them already, whatever it trusted before and however many rotations it missed; it is
   never told that they are a rollback, a replay or badly signed. *)
LatestIsAccepted ==
  [][\A k \in Checks :
       /\ check[k].pc = "verify" /\ check'[k].pc \in {"rejected", "replay"}
       /\ check[k].bundle.timestamp # check[k].current.timestamp
       => ~IsLatest(check[k].current, check[k].bundle, check[k].channel)]_trustVars
=============================================================================
