------------------------- MODULE TrustedUpdateProofs -------------------------
(***************************************************************************)
(* Proofs about the verification of standards updates, for any number of   *)
(* overlapping checks, roots and releases and however the mirror mixes     *)
(* what it serves.                                                         *)
(***************************************************************************)
EXTENDS TrustedUpdate, SequenceTheorems, TLAPS

(* What the publisher promises: roots follow one another and their key generations only
   grow; versions of releases under the same online keys, and of everything they bind, grow. *)
RootKey(i, r) == roots[i].keys[r]

RootsInOrder ==
  /\ roots \in Seq(RootObject) /\ Len(roots) > 0 /\ roots[1] = FirstRoot
  /\ \A i \in 1 .. Len(roots) : roots[i].version = i
  /\ \A i \in 1 .. Len(roots) - 1 : RootFollows(roots[i], roots[i + 1])

KeysOnlyGrow ==
  \A r \in Roles : \A i, j \in 1 .. Len(roots) : i <= j => RootKey(i, r) <= RootKey(j, r)

(* A key that changes between two roots changes from one root to the next. *)
KeysChangeInSteps ==
  \A r \in Roles : \A i, j \in 1 .. Len(roots) :
    /\ i <= j
    /\ \A m \in i .. (j - 1) : RootKey(m, r) = RootKey(m + 1, r)
    => RootKey(i, r) = RootKey(j, r)

Precedes(a, b) ==
  /\ a.signer <= b.signer /\ a.snapshot.signer <= b.snapshot.signer
  /\ a.signer = b.signer /\ a.snapshot.signer = b.snapshot.signer => a.version < b.version
  /\ a.snapshot.targets.version <= b.snapshot.targets.version
  /\ \A c \in Channels : a.snapshot.channel[c].version <= b.snapshot.channel[c].version
  /\ \E c \in Channels : a.snapshot.channel[c].version < b.snapshot.channel[c].version

ReleasesInOrder ==
  /\ releases \in Seq(TimestampObject) /\ Len(releases) > 0
  /\ \A i \in 1 .. Len(releases) :
       /\ releases[i].snapshot.version = releases[i].version
       /\ releases[i].signer <= RootKey(Len(roots), "timestamp")
       /\ releases[i].snapshot.signer <= RootKey(Len(roots), "snapshot")
  /\ \A i, j \in 1 .. Len(releases) : i < j => Precedes(releases[i], releases[j])

PublisherInvariant == RootsInOrder /\ KeysOnlyGrow /\ KeysChangeInSteps /\ ReleasesInOrder

LEMMA FirstRootIsObject == FirstRoot \in RootObject
BY DEF FirstRoot, RootObject

LEMMA ReleaseIsObject ==
  ASSUME NEW version \in Nat, NEW root \in RootObject, NEW targets \in TargetsObject,
         NEW stable \in DelegatedObject, NEW preview \in DelegatedObject
  PROVE  LET release == ReleaseOf(version, root, targets, stable, preview)
         IN /\ release \in TimestampObject /\ release.version = version
            /\ release.signer = root.keys["timestamp"]
            /\ release.snapshot \in SnapshotObject
            /\ release.snapshot.version = version
            /\ release.snapshot.signer = root.keys["snapshot"]
            /\ release.snapshot.targets = targets
            /\ release.snapshot.channel["stable"] = stable
            /\ release.snapshot.channel["preview"] = preview
<1> DEFINE channel == [c \in Channels |-> IF c = "stable" THEN stable ELSE preview]
           snapshot == [version |-> version, signer |-> root.keys["snapshot"], targets |-> targets,
                        channel |-> channel]
<1>1. root.keys["timestamp"] \in Nat /\ root.keys["snapshot"] \in Nat
  BY DEF RootObject, Roles, OnlineRoles
<1>2. /\ channel \in [Channels -> DelegatedObject]
      /\ channel["stable"] = stable /\ channel["preview"] = preview
  BY DEF Channels
<1> HIDE DEF channel
<1>3. snapshot \in SnapshotObject
  BY <1>1, <1>2 DEF SnapshotObject
<1>4. ReleaseOf(version, root, targets, stable, preview)
        = [version |-> version, signer |-> root.keys["timestamp"], snapshot |-> snapshot]
  BY DEF ReleaseOf, channel
<1>5. /\ snapshot.version = version /\ snapshot.signer = root.keys["snapshot"]
      /\ snapshot.targets = targets /\ snapshot.channel = channel
  OBVIOUS
<1> HIDE DEF snapshot
<1>. QED
  BY <1>1, <1>2, <1>3, <1>4, <1>5 DEF TimestampObject

LEMMA TimestampFields ==
  ASSUME NEW t \in TimestampObject
  PROVE  /\ t.version \in Nat /\ t.signer \in Nat /\ t.snapshot \in SnapshotObject
         /\ t.snapshot.version \in Nat /\ t.snapshot.signer \in Nat
         /\ t.snapshot.targets \in TargetsObject /\ t.snapshot.targets.version \in Nat
         /\ t.snapshot.targets.signer \in Nat
         /\ \A c \in Channels : /\ t.snapshot.channel[c] \in DelegatedObject
                                /\ t.snapshot.channel[c].version \in Nat
BY DEF TimestampObject, SnapshotObject, TargetsObject, DelegatedObject

LEMMA PrecedesIsTransitive ==
  ASSUME NEW a \in TimestampObject, NEW b \in TimestampObject, NEW d \in TimestampObject,
         Precedes(a, b), Precedes(b, d)
  PROVE  Precedes(a, d)
<1>1. /\ a.signer \in Nat /\ b.signer \in Nat /\ d.signer \in Nat
      /\ a.snapshot.signer \in Nat /\ b.snapshot.signer \in Nat /\ d.snapshot.signer \in Nat
      /\ a.version \in Nat /\ b.version \in Nat /\ d.version \in Nat
      /\ a.snapshot.targets.version \in Nat /\ b.snapshot.targets.version \in Nat
      /\ d.snapshot.targets.version \in Nat
      /\ \A c \in Channels : /\ a.snapshot.channel[c].version \in Nat
                             /\ b.snapshot.channel[c].version \in Nat
                             /\ d.snapshot.channel[c].version \in Nat
  BY TimestampFields
<1>2. \A c \in Channels : a.snapshot.channel[c].version <= d.snapshot.channel[c].version
  BY <1>1 DEF Precedes
<1>3. \E c \in Channels : a.snapshot.channel[c].version < d.snapshot.channel[c].version
  BY <1>1 DEF Precedes
<1>4. /\ a.signer <= d.signer /\ a.snapshot.signer <= d.snapshot.signer
      /\ a.signer = d.signer /\ a.snapshot.signer = d.snapshot.signer => a.version < d.version
      /\ a.snapshot.targets.version <= d.snapshot.targets.version
  BY <1>1 DEF Precedes
<1>. QED
  BY <1>2, <1>3, <1>4 DEF Precedes

LEMMA PublisherInitially == TrustInit => PublisherInvariant
<1> SUFFICES ASSUME TrustInit PROVE PublisherInvariant
  OBVIOUS
<1>1. roots = <<FirstRoot>> /\ Len(roots) = 1 /\ roots[1] = FirstRoot
  BY DEF TrustInit
<1>2. RootsInOrder
  <2>1. roots \in Seq(RootObject)
    BY <1>1, FirstRootIsObject
  <2>2. FirstRoot.version = 1
    BY DEF FirstRoot
  <2>. QED
    BY <1>1, <2>1, <2>2 DEF RootsInOrder
<1>3. KeysOnlyGrow /\ KeysChangeInSteps
  <2>1. \A r \in Roles : RootKey(1, r) \in Nat
    BY <1>1, FirstRootIsObject DEF RootKey, RootObject
  <2>. QED
    BY <1>1, <2>1 DEF KeysOnlyGrow, KeysChangeInSteps
<1>4. ReleasesInOrder
  <2> DEFINE first == ReleaseOf(1, FirstRoot, TargetsMetadata(1, 1), ChannelMetadata("stable", 1, 1),
                                ChannelMetadata("preview", 1, 1))
  <2>1. /\ TargetsMetadata(1, 1) \in TargetsObject
        /\ ChannelMetadata("stable", 1, 1) \in DelegatedObject
        /\ ChannelMetadata("preview", 1, 1) \in DelegatedObject
    BY DEF TargetsMetadata, ChannelMetadata, TargetsObject, DelegatedObject, Channels
  <2>2. /\ first \in TimestampObject /\ first.version = 1 /\ first.snapshot.version = 1
        /\ first.signer = FirstRoot.keys["timestamp"]
        /\ first.snapshot.signer = FirstRoot.keys["snapshot"]
    BY <2>1, FirstRootIsObject, ReleaseIsObject
  <2>3. releases = <<first>>
    BY DEF TrustInit
  <2> HIDE DEF first
  <2>4. releases \in Seq(TimestampObject) /\ Len(releases) = 1 /\ releases[1] = first
    BY <2>2, <2>3
  <2>5. FirstRoot.keys["timestamp"] \in Nat /\ FirstRoot.keys["snapshot"] \in Nat
    BY FirstRootIsObject DEF RootObject, Roles, OnlineRoles
  <2>6. RootKey(1, "timestamp") = FirstRoot.keys["timestamp"] /\ RootKey(1, "snapshot") = FirstRoot.keys["snapshot"]
    BY <1>1 DEF RootKey
  <2>. QED
    BY <1>1, <2>2, <2>4, <2>5, <2>6 DEF ReleasesInOrder
<1>. QED
  BY <1>2, <1>3, <1>4 DEF PublisherInvariant

LEMMA LastRoot ==
  ASSUME RootsInOrder
  PROVE  /\ Len(roots) \in Nat \ {0} /\ LastOf(roots) \in RootObject
         /\ LastOf(roots) = roots[Len(roots)] /\ LastOf(roots).version = Len(roots)
         /\ \A i \in 1 .. Len(roots) : roots[i] \in RootObject /\ \A r \in Roles : RootKey(i, r) \in Nat
<1>1. Len(roots) \in Nat \ {0} /\ LastOf(roots) = roots[Len(roots)]
  BY DEF RootsInOrder, LastOf
<1>2. \A i \in 1 .. Len(roots) : roots[i] \in RootObject
  BY ElementOfSeq DEF RootsInOrder
<1>. QED
  BY <1>1, <1>2 DEF RootsInOrder, RootKey, RootObject

LEMMA RotateKeepsOrder ==
  ASSUME PublisherInvariant, NEW role \in Roles, Rotate(role)
  PROVE  PublisherInvariant'
<1>n. PICK n \in Nat : n = Len(roots)
  BY LastRoot DEF PublisherInvariant
<1> DEFINE old == roots[n]
           new == [version |-> n + 1, keys |-> [old.keys EXCEPT ![role] = @ + 1],
                   signers |-> {old.keys["root"], [old.keys EXCEPT ![role] = @ + 1]["root"]}]
<1>1. /\ n \in Nat \ {0} /\ old \in RootObject /\ old.version = n /\ LastOf(roots) = old
      /\ \A i \in 1 .. n : roots[i] \in RootObject /\ \A r \in Roles : RootKey(i, r) \in Nat
  BY <1>n, LastRoot DEF PublisherInvariant
<1>2. roots' = Append(roots, new) /\ UNCHANGED releases
  BY <1>1, <1>n DEF Rotate
<1>3. /\ new \in RootObject /\ new.version = n + 1 /\ RootFollows(old, new)
      /\ \A r \in Roles : old.keys[r] \in Nat /\ new.keys[r] \in Nat /\ old.keys[r] <= new.keys[r]
  <2>1. old.keys \in [Roles -> Nat] /\ "root" \in Roles
    BY <1>1 DEF RootObject, Roles
  <2>2. new.keys \in [Roles -> Nat] /\ \A r \in Roles : old.keys[r] <= new.keys[r]
    BY <2>1
  <2>. QED
    BY <1>1, <2>1, <2>2 DEF RootObject, RootFollows
<1> HIDE DEF new
<1>4. /\ roots' \in Seq(RootObject) /\ Len(roots') = n + 1 /\ roots'[n + 1] = new
      /\ \A i \in 1 .. n : roots'[i] = roots[i]
  BY <1>n, <1>2, <1>3, AppendProperties DEF PublisherInvariant, RootsInOrder
<1>5. RootsInOrder'
  <2>1. \A i \in 1 .. n : roots'[i].version = i
    BY <1>n, <1>4 DEF PublisherInvariant, RootsInOrder
  <2>2. \A i \in 1 .. n - 1 : RootFollows(roots'[i], roots'[i + 1])
    BY <1>n, <1>1, <1>4 DEF PublisherInvariant, RootsInOrder
  <2>3. RootFollows(roots'[n], roots'[n + 1])
    BY <1>1, <1>3, <1>4
  <2>4. roots'[1] = FirstRoot
    BY <1>n, <1>1, <1>4 DEF PublisherInvariant, RootsInOrder
  <2>5. \A i \in 1 .. Len(roots') : roots'[i].version = i
    BY <1>1, <1>3, <1>4, <2>1
  <2>6. \A i \in 1 .. Len(roots') - 1 : RootFollows(roots'[i], roots'[i + 1])
    BY <1>1, <1>4, <2>2, <2>3
  <2>. QED
    BY <1>1, <1>4, <2>4, <2>5, <2>6 DEF RootsInOrder, RootFollows
<1>6. \A r \in Roles : /\ \A i \in 1 .. n : RootKey(i, r)' = RootKey(i, r)
                       /\ RootKey(n + 1, r)' = new.keys[r]
                       /\ RootKey(n, r) <= new.keys[r] /\ new.keys[r] \in Nat
  BY <1>3, <1>4 DEF RootKey
<1>7. KeysOnlyGrow'
  <2> SUFFICES ASSUME NEW r \in Roles, NEW i \in 1 .. n + 1, NEW j \in 1 .. n + 1, i <= j
               PROVE  RootKey(i, r)' <= RootKey(j, r)'
    BY <1>4 DEF KeysOnlyGrow
  <2>1. CASE j <= n
    BY <1>n, <1>1, <1>6, <2>1 DEF PublisherInvariant, KeysOnlyGrow
  <2>2. CASE j = n + 1 /\ i <= n
    <3>1. RootKey(i, r) <= RootKey(n, r) /\ RootKey(i, r) \in Nat /\ RootKey(n, r) \in Nat
      BY <1>n, <1>1, <2>2 DEF PublisherInvariant, KeysOnlyGrow
    <3>. QED
      BY <1>1, <1>6, <2>2, <3>1
  <2>3. CASE j = n + 1 /\ i = n + 1
    BY <1>6, <2>3
  <2>. QED
    BY <1>1, <2>1, <2>2, <2>3
<1>8. KeysChangeInSteps'
  <2> SUFFICES ASSUME NEW r \in Roles, NEW i \in 1 .. n + 1, NEW j \in 1 .. n + 1, i <= j,
                      \A m \in i .. (j - 1) : RootKey(m, r)' = RootKey(m + 1, r)'
               PROVE  RootKey(i, r)' = RootKey(j, r)'
    BY <1>4 DEF KeysChangeInSteps
  <2>1. CASE j <= n
    <3>1. \A m \in i .. (j - 1) : RootKey(m, r) = RootKey(m + 1, r)
      BY <1>1, <1>6, <2>1
    <3>. QED
      BY <1>n, <1>1, <1>6, <2>1, <3>1 DEF PublisherInvariant, KeysChangeInSteps
  <2>2. CASE j = n + 1 /\ i <= n
    <3>1. \A m \in i .. (n - 1) : RootKey(m, r) = RootKey(m + 1, r)
      BY <1>1, <1>6, <2>2
    <3>2. RootKey(i, r) = RootKey(n, r)
      BY <1>n, <1>1, <2>2, <3>1, SMTT(30) DEF PublisherInvariant, KeysChangeInSteps
    <3>3. RootKey(n, r)' = RootKey(n + 1, r)'
      BY <1>1, <2>2
    <3>. QED
      BY <1>1, <1>6, <2>2, <3>2, <3>3
  <2>3. CASE j = n + 1 /\ i = n + 1
    BY <2>3
  <2>. QED
    BY <1>1, <2>1, <2>2, <2>3
<1>9. ReleasesInOrder'
  <2>1. /\ RootKey(n, "timestamp") <= RootKey(n + 1, "timestamp")'
        /\ RootKey(n, "snapshot") <= RootKey(n + 1, "snapshot")'
        /\ RootKey(n, "timestamp") \in Nat /\ RootKey(n + 1, "timestamp")' \in Nat
        /\ RootKey(n, "snapshot") \in Nat /\ RootKey(n + 1, "snapshot")' \in Nat
    BY <1>1, <1>6 DEF Roles, OnlineRoles
  <2>2. \A i \in 1 .. Len(releases) : releases[i].signer \in Nat /\ releases[i].snapshot.signer \in Nat
    BY TimestampFields, ElementOfSeq DEF PublisherInvariant, ReleasesInOrder
  <2>. QED
    <3>1. RootKey(Len(roots), "timestamp")' = RootKey(n + 1, "timestamp")'
      BY <1>4 DEF RootKey
    <3>2. RootKey(Len(roots), "snapshot")' = RootKey(n + 1, "snapshot")'
      BY <1>4 DEF RootKey
    <3>3. \A i \in 1 .. Len(releases) :
            /\ releases[i].snapshot.version = releases[i].version
            /\ releases[i].signer <= RootKey(n, "timestamp")
            /\ releases[i].snapshot.signer <= RootKey(n, "snapshot")
      BY <1>n DEF PublisherInvariant, ReleasesInOrder
    <3>4. \A i \in 1 .. Len(releases) :
            /\ releases[i].signer <= RootKey(Len(roots), "timestamp")'
            /\ releases[i].snapshot.signer <= RootKey(Len(roots), "snapshot")'
      BY <2>1, <2>2, <3>1, <3>2, <3>3
    <3>5. /\ releases \in Seq(TimestampObject) /\ Len(releases) > 0
          /\ \A i, j \in 1 .. Len(releases) : i < j => Precedes(releases[i], releases[j])
      BY DEF PublisherInvariant, ReleasesInOrder
    <3>. QED
      BY <1>2, <3>3, <3>4, <3>5 DEF ReleasesInOrder
<1>. QED
  BY <1>5, <1>7, <1>8, <1>9 DEF PublisherInvariant

(* Whatever the publisher releases next comes after the release before it. *)
LEMMA ReleaseComesAfter ==
  ASSUME PublisherInvariant, NEW channel \in Channels, NEW restart \in BOOLEAN, Release(channel, restart)
  PROVE  \E new \in TimestampObject :
           /\ releases' = Append(releases, new)
           /\ Precedes(LastOf(releases), new)
           /\ new.snapshot.version = new.version
           /\ new.signer = LastOf(roots).keys["timestamp"]
           /\ new.snapshot.signer = LastOf(roots).keys["snapshot"]
<1> DEFINE root == LastOf(roots)
           last == LastOf(releases)
           key == root.keys["targets"]
           resign == last.snapshot.targets.signer # key
           next(c) == IF c = channel \/ resign
                        THEN ChannelMetadata(c, last.snapshot.channel[c].version + 1, key)
                        ELSE last.snapshot.channel[c]
           targets == IF resign THEN TargetsMetadata(last.snapshot.targets.version + 1, key)
                                ELSE last.snapshot.targets
           version == IF restart THEN 1 ELSE last.version + 1
           new == ReleaseOf(version, root, targets, next("stable"), next("preview"))
<1>1. /\ root \in RootObject /\ root.keys["timestamp"] \in Nat /\ root.keys["snapshot"] \in Nat
      /\ key \in Nat
  BY LastRoot DEF PublisherInvariant, RootObject, Roles, OnlineRoles
<1>2. last \in TimestampObject
  BY ElementOfSeq DEF PublisherInvariant, ReleasesInOrder, LastOf
<1>3. /\ releases' = Append(releases, new)
      /\ restart => (root.keys["timestamp"] # last.signer \/ root.keys["snapshot"] # last.snapshot.signer)
  BY DEF Release
<1>4. /\ last.signer <= root.keys["timestamp"] /\ last.snapshot.signer <= root.keys["snapshot"]
  BY DEF PublisherInvariant, ReleasesInOrder, LastOf, RootKey
<1> HIDE DEF root, last
<1>5. /\ last.version \in Nat /\ last.signer \in Nat /\ last.snapshot.signer \in Nat
      /\ last.snapshot.targets \in TargetsObject /\ last.snapshot.targets.version \in Nat
      /\ \A c \in Channels : /\ last.snapshot.channel[c] \in DelegatedObject
                             /\ last.snapshot.channel[c].version \in Nat
  BY <1>2, TimestampFields
<1> HIDE DEF key
<1>6. \A c \in Channels :
        LET d == ChannelMetadata(c, last.snapshot.channel[c].version + 1, key)
        IN d \in DelegatedObject /\ d.version = last.snapshot.channel[c].version + 1
  BY <1>1, <1>5 DEF ChannelMetadata, DelegatedObject
<1> HIDE DEF resign
<1>7. /\ \A c \in Channels : /\ next(c) \in DelegatedObject /\ next(c).version \in Nat
                             /\ last.snapshot.channel[c].version <= next(c).version
      /\ last.snapshot.channel[channel].version < next(channel).version
  BY <1>5, <1>6
<1>8. targets \in TargetsObject /\ last.snapshot.targets.version <= targets.version
  <2>1. LET t == TargetsMetadata(last.snapshot.targets.version + 1, key)
        IN t \in TargetsObject /\ t.version = last.snapshot.targets.version + 1
    BY <1>1, <1>5 DEF TargetsMetadata, TargetsObject
  <2>. QED
    BY <1>5, <2>1
<1>9. version \in Nat
  BY <1>5
<1>10. "stable" \in Channels /\ "preview" \in Channels /\ \A c \in Channels : c \in {"stable", "preview"}
  BY DEF Channels
<1> HIDE DEF next, targets
<1>11. /\ new \in TimestampObject /\ new.version = version /\ new.snapshot.version = version
       /\ new.signer = root.keys["timestamp"] /\ new.snapshot.signer = root.keys["snapshot"]
       /\ new.snapshot.targets = targets
       /\ new.snapshot.channel["stable"] = next("stable")
       /\ new.snapshot.channel["preview"] = next("preview")
  <2> HIDE DEF version
  <2>1. next("stable") \in DelegatedObject /\ next("preview") \in DelegatedObject
    BY <1>7, <1>10, Zenon
  <2>2. root \in RootObject /\ targets \in TargetsObject
    BY <1>1, <1>8, Zenon
  <2>3. PICK a \in DelegatedObject, b \in DelegatedObject : a = next("stable") /\ b = next("preview")
    BY <2>1, Zenon
  <2> DEFINE made == ReleaseOf(version, root, targets, a, b)
  <2>4. /\ made \in TimestampObject /\ made.version = version /\ made.snapshot.version = version
        /\ made.signer = root.keys["timestamp"] /\ made.snapshot.signer = root.keys["snapshot"]
        /\ made.snapshot.targets = targets
        /\ made.snapshot.channel["stable"] = a
        /\ made.snapshot.channel["preview"] = b
    BY <1>9, <2>2, ReleaseIsObject
  <2>5. made = new
    BY <2>3, Zenon
  <2>. QED
    BY <2>3, <2>4, <2>5, Zenon
<1> HIDE DEF new
<1>12. \A c \in Channels : new.snapshot.channel[c] = next(c)
  BY <1>10, <1>11
<1>13. Precedes(last, new)
  <2>1. /\ last.signer <= new.signer /\ last.snapshot.signer <= new.snapshot.signer
        /\ last.signer = new.signer /\ last.snapshot.signer = new.snapshot.signer => last.version < new.version
    BY <1>3, <1>4, <1>5, <1>11
  <2>2. \A c \in Channels : last.snapshot.channel[c].version <= new.snapshot.channel[c].version
    BY <1>7, <1>12
  <2>3. last.snapshot.channel[channel].version < new.snapshot.channel[channel].version
    BY <1>7, <1>12
  <2>. QED
    BY <1>8, <1>11, <2>1, <2>2, <2>3 DEF Precedes
<1>. QED
  BY <1>3, <1>11, <1>13 DEF root, last

LEMMA ReleaseKeepsOrder ==
  ASSUME PublisherInvariant, NEW channel \in Channels, NEW restart \in BOOLEAN, Release(channel, restart)
  PROVE  PublisherInvariant'
<1>n. PICK n \in Nat \ {0} : n = Len(releases)
  BY DEF PublisherInvariant, ReleasesInOrder
<1>1. PICK new \in TimestampObject :
        /\ releases' = Append(releases, new)
        /\ Precedes(releases[n], new)
        /\ new.snapshot.version = new.version
        /\ new.signer = RootKey(Len(roots), "timestamp")
        /\ new.snapshot.signer = RootKey(Len(roots), "snapshot")
  BY <1>n, ReleaseComesAfter DEF LastOf, RootKey
<1>2. UNCHANGED roots
  BY DEF Release
<1>3. /\ releases \in Seq(TimestampObject) /\ releases' \in Seq(TimestampObject)
      /\ Len(releases') = n + 1 /\ releases'[n + 1] = new
      /\ \A i \in 1 .. n : releases'[i] = releases[i] /\ releases[i] \in TimestampObject
  BY <1>n, <1>1, AppendProperties, ElementOfSeq DEF PublisherInvariant, ReleasesInOrder
<1>4. /\ new.signer \in Nat /\ new.snapshot.signer \in Nat
  BY TimestampFields
<1>5. \A i \in 1 .. n + 1 :
        /\ releases'[i].snapshot.version = releases'[i].version
        /\ releases'[i].signer <= RootKey(Len(roots), "timestamp")
        /\ releases'[i].snapshot.signer <= RootKey(Len(roots), "snapshot")
  BY <1>n, <1>1, <1>3, <1>4 DEF PublisherInvariant, ReleasesInOrder
<1>6. ASSUME NEW i \in 1 .. n + 1, NEW j \in 1 .. n + 1, i < j PROVE Precedes(releases'[i], releases'[j])
  <2>1. CASE j <= n
    BY <1>n, <1>3, <1>6, <2>1 DEF PublisherInvariant, ReleasesInOrder
  <2>2. CASE j = n + 1 /\ i = n
    BY <1>1, <1>3, <2>2
  <2>3. CASE j = n + 1 /\ i < n
    <3>1. Precedes(releases[i], releases[n])
      BY <1>n, <2>3 DEF PublisherInvariant, ReleasesInOrder
    <3>. QED
      BY <1>1, <1>3, <2>3, <3>1, PrecedesIsTransitive
  <2>. QED
    BY <1>6, <2>1, <2>2, <2>3
<1>7. ReleasesInOrder'
  BY <1>2, <1>3, <1>5, <1>6 DEF ReleasesInOrder, RootKey, Precedes
<1>8. RootsInOrder' /\ KeysOnlyGrow' /\ KeysChangeInSteps'
  BY <1>2 DEF PublisherInvariant, RootsInOrder, KeysOnlyGrow, KeysChangeInSteps, RootKey
<1>. QED
  BY <1>7, <1>8 DEF PublisherInvariant

-----------------------------------------------------------------------------
(* A chain of fetched roots that holds is a run of the published roots, so that it is known
   from its first and its last root whether the keys of a role changed. *)
Published == {roots[i] : i \in 1 .. Len(roots)}

RunOfRoots(chain, v) ==
  /\ chain \in Seq(RootObject) /\ Len(chain) > 0
  /\ v \in 1 .. Len(roots) /\ v + Len(chain) - 1 <= Len(roots)
  /\ \A i \in 1 .. Len(chain) : chain[i] = roots[v + i - 1]

LEMMA RunAuthority ==
  ASSUME PublisherInvariant, NEW chain, NEW v, RunOfRoots(chain, v)
  PROVE  /\ LastOf(chain) = roots[v + Len(chain) - 1] /\ LastOf(chain) \in Published
         /\ LastOf(chain).version >= v
         /\ ~OnlineAuthorityRotated(chain) =>
              \A r \in OnlineRoles : roots[v].keys[r] = LastOf(chain).keys[r]
         /\ OnlineAuthorityRotated(chain) =>
              \E r \in OnlineRoles : roots[v].keys[r] < LastOf(chain).keys[r]
<1> DEFINE n == Len(chain)
           w == v + n - 1
<1>1. /\ n \in Nat \ {0} /\ v \in Nat \ {0} /\ w \in 1 .. Len(roots) /\ Len(roots) \in Nat
      /\ \A i \in 1 .. n : chain[i] = roots[v + i - 1]
  BY LastRoot DEF RunOfRoots, PublisherInvariant
<1>2. LastOf(chain) = roots[w]
  BY <1>1 DEF LastOf
<1>3. LastOf(chain) \in Published /\ LastOf(chain).version >= v
  BY <1>1, <1>2 DEF Published, PublisherInvariant, RootsInOrder
<1>4. \A i \in 1 .. Len(roots) : \A r \in Roles : RootKey(i, r) \in Nat
  BY LastRoot DEF PublisherInvariant
<1>5. OnlineRoles \subseteq Roles
  BY DEF Roles
<1>6. ASSUME ~OnlineAuthorityRotated(chain), NEW r \in OnlineRoles PROVE RootKey(v, r) = RootKey(w, r)
  <2>1. ASSUME NEW m \in v .. (w - 1) PROVE RootKey(m, r) = RootKey(m + 1, r)
    <3>1. m - v + 1 \in 1 .. n - 1 /\ v + (m - v + 1) - 1 = m /\ v + (m - v + 2) - 1 = m + 1
      BY <1>1
    <3>2. chain[m - v + 1].keys[r] = chain[m - v + 1 + 1].keys[r]
      BY <1>6, <3>1 DEF OnlineAuthorityRotated
    <3>3. chain[m - v + 1] = roots[m] /\ chain[m - v + 1 + 1] = roots[m + 1]
      BY <1>1, <3>1
    <3>. QED
      BY <3>2, <3>3 DEF RootKey
  <2>. QED
    BY <1>1, <1>5, <2>1 DEF PublisherInvariant, KeysChangeInSteps
<1>7. ASSUME OnlineAuthorityRotated(chain) PROVE \E r \in OnlineRoles : RootKey(v, r) < RootKey(w, r)
  <2>1. PICK i \in 1 .. n - 1, r \in OnlineRoles : chain[i].keys[r] # chain[i + 1].keys[r]
    BY <1>7 DEF OnlineAuthorityRotated
  <2> DEFINE a == v + i - 1
             b == v + i
  <2>2. a \in 1 .. Len(roots) /\ b \in 1 .. Len(roots) /\ v <= a /\ a <= b /\ b <= w
    BY <1>1
  <2>3. chain[i] = roots[a]
    <3>1. i \in 1 .. n
      BY <1>1
    <3>. QED
      BY <1>1, <3>1
  <2>4. chain[i + 1] = roots[b]
    <3>1. i + 1 \in 1 .. n /\ v + (i + 1) - 1 = b
      BY <1>1
    <3>. QED
      BY <1>1, <3>1
  <2>5. v \in 1 .. Len(roots) /\ w \in 1 .. Len(roots) /\ r \in Roles
    BY <1>1, <1>5, <2>2
  <2> HIDE DEF a, b, w
  <2>6. RootKey(a, r) # RootKey(b, r)
    BY <2>1, <2>3, <2>4 DEF RootKey
  <2>7. RootKey(v, r) <= RootKey(a, r) /\ RootKey(a, r) <= RootKey(b, r) /\ RootKey(b, r) <= RootKey(w, r)
    BY <2>2, <2>5 DEF PublisherInvariant, KeysOnlyGrow
  <2>8. /\ RootKey(v, r) \in Nat /\ RootKey(a, r) \in Nat /\ RootKey(b, r) \in Nat
        /\ RootKey(w, r) \in Nat
    BY <1>4, <2>2, <2>5
  <2>. QED
    BY <2>6, <2>7, <2>8
<1>. QED
  BY <1>2, <1>3, <1>6, <1>7 DEF RootKey

(* What is trusted, as one release. *)
OneReleaseIn(state, published, timestamps) ==
  \/ state = Bootstrap(FirstRoot)
  \/ /\ state.root \in published
     /\ state.timestamp \in timestamps
     /\ state.snapshot = state.timestamp.snapshot
     /\ state.targets = state.snapshot.targets
     /\ \A c \in Channels : state.delegated[c] \in {None, state.snapshot.channel[c]}
     /\ state.timestamp.signer = state.root.keys["timestamp"]
     /\ state.snapshot.signer = state.root.keys["snapshot"]
     /\ state.targets.signer = state.root.keys["targets"]

OneRelease(state) == OneReleaseIn(state, Published, Timestamps)

(* As long as the roots of a chain follow one another, their versions count up. *)
CountsUp(chain) ==
  ChainHolds(chain) => \A i \in 1 .. Len(chain) : chain[i].version = chain[1].version + (i - 1)

LEMMA TrustedRoot ==
  ASSUME PublisherInvariant, NEW state, OneRelease(state)
  PROVE  /\ state.root \in Published /\ state.root \in RootObject
         /\ state.root.version \in 1 .. Len(roots) /\ roots[state.root.version] = state.root
<1>1. state.root \in Published
  BY LastRoot DEF OneRelease, OneReleaseIn, Bootstrap, Published, PublisherInvariant, RootsInOrder
<1>. QED
  BY <1>1, LastRoot DEF Published, PublisherInvariant, RootsInOrder

LEMMA ChainFields ==
  ASSUME NEW root \in RootObject, NEW fetched \in Seq(RootObject)
  PROVE  LET chain == <<root>> \o fetched
         IN /\ chain \in Seq(RootObject) /\ Len(chain) = Len(fetched) + 1 /\ chain[1] = root
            /\ \A i \in 1 .. Len(fetched) : chain[i + 1] = fetched[i]
OBVIOUS

LEMMA FetchedIsRun ==
  ASSUME PublisherInvariant, NEW state, OneRelease(state), NEW fetched \in Seq(RootObject),
         \A i \in 1 .. Len(fetched) : fetched[i] \in Published,
         CountsUp(ChainOf(state, fetched)), ChainHolds(ChainOf(state, fetched))
  PROVE  RunOfRoots(ChainOf(state, fetched), state.root.version)
<1> DEFINE chain == ChainOf(state, fetched)
           v == state.root.version
<1>1. state.root \in RootObject /\ v \in 1 .. Len(roots) /\ state.root \in Published
  BY TrustedRoot
<1>2. /\ chain \in Seq(RootObject) /\ Len(chain) = Len(fetched) + 1 /\ chain[1] = state.root
      /\ \A i \in 1 .. Len(fetched) : chain[i + 1] = fetched[i]
  BY <1>1, ChainFields DEF ChainOf
<1>3. Len(fetched) \in Nat /\ Len(roots) \in Nat
  BY LastRoot DEF PublisherInvariant
<1>4. ASSUME NEW i \in 1 .. Len(chain) PROVE chain[i] \in Published /\ chain[i].version = v + (i - 1)
  <2>1. chain[i].version = v + (i - 1)
    BY <1>2 DEF CountsUp
  <2>2. CASE i = 1
    BY <1>1, <1>2, <2>1, <2>2
  <2>3. CASE i # 1
    BY <1>2, <1>3, <2>1, <2>3
  <2>. QED
    BY <2>2, <2>3
<1> HIDE DEF chain
<1>5. ASSUME NEW i \in 1 .. Len(chain) PROVE v + i - 1 <= Len(roots) /\ chain[i] = roots[v + i - 1]
  <2>1. PICK w \in 1 .. Len(roots) : chain[i] = roots[w]
    BY <1>4 DEF Published
  <2>2. roots[w].version = w
    BY DEF PublisherInvariant, RootsInOrder
  <2>3. w = v + i - 1
    BY <1>1, <1>2, <1>3, <1>4, <2>1, <2>2
  <2>. QED
    BY <2>1, <2>3
<1>. QED
  BY <1>1, <1>2, <1>3, <1>5 DEF RunOfRoots, chain

(* Two releases: newer keys, or a greater version under the same keys, make the later one. *)
LEMMA LaterRelease ==
  ASSUME PublisherInvariant, NEW i \in 1 .. Len(releases), NEW j \in 1 .. Len(releases),
         \/ releases[i].signer < releases[j].signer
         \/ releases[i].snapshot.signer < releases[j].snapshot.signer
         \/ /\ releases[i].signer = releases[j].signer
            /\ releases[i].snapshot.signer = releases[j].snapshot.signer
            /\ releases[i].version < releases[j].version
  PROVE  i < j
<1>1. /\ releases[i].signer \in Nat /\ releases[j].signer \in Nat
      /\ releases[i].snapshot.signer \in Nat /\ releases[j].snapshot.signer \in Nat
      /\ releases[i].version \in Nat /\ releases[j].version \in Nat
  BY TimestampFields, ElementOfSeq DEF PublisherInvariant, ReleasesInOrder
<1>2. i # j
  BY <1>1
<1>3. ~(j < i)
  BY <1>1, SMTT(30) DEF PublisherInvariant, ReleasesInOrder, Precedes
<1>. QED
  BY <1>2, <1>3

-----------------------------------------------------------------------------
(* What verifyUpdate accepts is one release, later than the one it was compared with. *)
AdvancesIn(old, new, published) ==
  /\ new.root.version >= old.root.version
  /\ \E j \in 1 .. Len(published) : published[j] = new.timestamp
  /\ old.timestamp # None =>
       \E i, j \in 1 .. Len(published) :
         i < j /\ published[i] = old.timestamp /\ published[j] = new.timestamp

Advances(old, new) == AdvancesIn(old, new, releases)

LEMMA AcceptedMeans ==
  ASSUME NEW state, NEW b, NEW channel, Verdict(state, b, channel) = "accepted"
  PROVE  LET chain == ChainOf(state, b.roots)
             root == LastOf(chain)
         IN /\ ChainHolds(chain) /\ Bound(b, channel) /\ Signed(b, root)
            /\ ~OnlineAuthorityRotated(chain) =>
                 ~Replays(state.timestamp, b.timestamp) /\ ~RollsBack(state.timestamp, b.timestamp)
BY DEF Verdict

LEMMA VerifiedIsOneRelease ==
  ASSUME NEW state, NEW b, NEW channel \in Channels, b.timestamp \in Timestamps,
         Bound(b, channel), Signed(b, LastOf(ChainOf(state, b.roots))),
         LastOf(ChainOf(state, b.roots)) \in Published
  PROVE  OneRelease(Candidate(state, b, channel))
<1> DEFINE root == LastOf(ChainOf(state, b.roots))
           other == OtherChannel(channel)
           kept == IF OnlineAuthorityRotated(ChainOf(state, b.roots)) THEN None
                   ELSE RetainDelegated(state.delegated[other], b.snapshot.channel[other])
           delegated == [c \in Channels |-> IF c = channel THEN b.delegated ELSE kept]
<1>1. kept \in {None, b.snapshot.channel[other]}
  BY DEF RetainDelegated
<1>2. \A c \in Channels : c = channel \/ c = other
  BY DEF Channels, OtherChannel
<1>3. \A c \in Channels : delegated[c] \in {None, b.snapshot.channel[c]}
  <2> HIDE DEF kept, other
  <2>. QED
    BY <1>1, <1>2 DEF Bound
<1>4. Candidate(state, b, channel) = [root |-> root, timestamp |-> b.timestamp, snapshot |-> b.snapshot,
                                      targets |-> b.targets, delegated |-> delegated]
  BY DEF Candidate
<1> HIDE DEF root, delegated
<1>5. /\ root \in Published /\ b.timestamp.signer = root.keys["timestamp"]
      /\ b.snapshot.signer = root.keys["snapshot"] /\ b.targets.signer = root.keys["targets"]
      /\ b.snapshot = b.timestamp.snapshot /\ b.targets = b.snapshot.targets
  BY DEF Signed, SignedBy, Bound, root
<1>. QED
  BY <1>3, <1>4, <1>5 DEF OneRelease, OneReleaseIn

LEMMA VerifiedAdvances ==
  ASSUME PublisherInvariant, NEW state, OneRelease(state), NEW b, NEW channel \in Channels,
         b.roots \in Seq(RootObject), \A i \in 1 .. Len(b.roots) : b.roots[i] \in Published,
         CountsUp(ChainOf(state, b.roots)), b.timestamp \in Timestamps,
         Verdict(state, b, channel) = "accepted"
  PROVE  /\ OneRelease(Candidate(state, b, channel))
         /\ Advances(state, Candidate(state, b, channel))
<1> DEFINE chain == ChainOf(state, b.roots)
           root == LastOf(chain)
           v == state.root.version
           new == Candidate(state, b, channel)
<1>1. /\ ChainHolds(chain) /\ Bound(b, channel) /\ Signed(b, root)
      /\ ~OnlineAuthorityRotated(chain) =>
           ~Replays(state.timestamp, b.timestamp) /\ ~RollsBack(state.timestamp, b.timestamp)
  BY AcceptedMeans
<1>2. RunOfRoots(chain, v)
  BY <1>1, FetchedIsRun
<1>3. /\ root \in Published /\ root.version >= v
      /\ ~OnlineAuthorityRotated(chain) => \A r \in OnlineRoles : roots[v].keys[r] = root.keys[r]
      /\ OnlineAuthorityRotated(chain) => \E r \in OnlineRoles : roots[v].keys[r] < root.keys[r]
  BY <1>2, RunAuthority
<1>4. roots[v] = state.root
  BY TrustedRoot
<1>5. OneRelease(new)
  BY <1>1, <1>3, VerifiedIsOneRelease
<1>6. new.root = root /\ new.timestamp = b.timestamp
  BY DEF Candidate
<1> HIDE DEF new, root, chain
<1>7. ASSUME state.timestamp # None
      PROVE  \E i, j \in 1 .. Len(releases) :
               i < j /\ releases[i] = state.timestamp /\ releases[j] = b.timestamp
  <2>1. /\ state.timestamp \in Timestamps /\ state.snapshot = state.timestamp.snapshot
        /\ state.timestamp.signer = state.root.keys["timestamp"]
        /\ state.snapshot.signer = state.root.keys["snapshot"]
    BY <1>7 DEF OneRelease, OneReleaseIn, Bootstrap
  <2>2. PICK i \in 1 .. Len(releases) : releases[i] = state.timestamp
    BY <2>1 DEF Timestamps
  <2>3. PICK j \in 1 .. Len(releases) : releases[j] = b.timestamp
    BY DEF Timestamps
  <2>4. /\ releases[i].signer = state.root.keys["timestamp"]
        /\ releases[i].snapshot.signer = state.root.keys["snapshot"]
        /\ releases[j].signer = root.keys["timestamp"]
        /\ releases[j].snapshot.signer = root.keys["snapshot"]
    BY <1>1, <2>1, <2>2, <2>3 DEF Bound, Signed, SignedBy
  <2>5. CASE OnlineAuthorityRotated(chain)
    BY <1>3, <1>4, <2>2, <2>3, <2>4, <2>5, LaterRelease DEF OnlineRoles
  <2>6. CASE ~OnlineAuthorityRotated(chain)
    <3>1. releases[i].signer = releases[j].signer /\ releases[i].snapshot.signer = releases[j].snapshot.signer
      BY <1>3, <1>4, <2>4, <2>6 DEF OnlineRoles
    <3>2. releases[j].version # releases[i].version /\ ~(releases[j].version < releases[i].version)
      BY <1>1, <1>7, <2>2, <2>3, <2>6 DEF Replays, RollsBack
    <3>3. releases[i].version \in Nat /\ releases[j].version \in Nat
      BY TimestampFields, ElementOfSeq DEF PublisherInvariant, ReleasesInOrder
    <3>4. releases[i].version < releases[j].version
      BY <3>2, <3>3
    <3>. QED
      BY <2>2, <2>3, <3>1, <3>4, LaterRelease
  <2>. QED
    BY <2>5, <2>6
<1>8. Advances(state, new)
  BY <1>3, <1>6, <1>7 DEF Advances, AdvancesIn, Timestamps
<1>. QED
  BY <1>5, <1>8 DEF new

-----------------------------------------------------------------------------
(* A check has fetched nothing but published objects, for a state that was one release. *)
FetchPCs == {"root", "timestamp", "snapshot", "targets", "delegated", "pack", "verify"}

TrustedStates ==
  [root : RootObject, timestamp : TimestampObject \cup {None}, snapshot : SnapshotObject \cup {None},
   targets : TargetsObject \cup {None}, delegated : [Channels -> DelegatedObject \cup {None}]]

Bundles ==
  [roots : Seq(RootObject), timestamp : TimestampObject \cup {None},
   snapshot : SnapshotObject \cup {None}, targets : TargetsObject \cup {None},
   delegated : DelegatedObject \cup {None}, pack : DelegatedObject \cup {None}]

IdleCheck == [pc : {"idle", "rejected", "replay"}]
FetchCheck ==
  [pc : FetchPCs, channel : Channels, current : TrustedStates, bundle : Bundles, misplaced : Nat]
AcceptedCheck == [pc : {"accepted"}, current : TrustedStates, candidate : TrustedStates]
CheckShapes == IdleCheck \cup FetchCheck \cup AcceptedCheck

FetchHoldsIn(c, published, timestamps) ==
  /\ OneReleaseIn(c.current, published, timestamps)
  /\ \A i \in 1 .. Len(c.bundle.roots) : c.bundle.roots[i] \in published
  /\ c.pc \notin {"root", "timestamp"} => c.bundle.timestamp \in timestamps
  /\ CountsUp(ChainOf(c.current, c.bundle.roots))

CheckHoldsIn(c, published, timestamps, sequence) ==
  /\ c.pc \in FetchPCs => FetchHoldsIn(c, published, timestamps)
  /\ c.pc = "accepted" => /\ OneReleaseIn(c.candidate, published, timestamps)
                          /\ AdvancesIn(c.current, c.candidate, sequence)

CheckHolds(c) == CheckHoldsIn(c, Published, Timestamps, releases)

TrustInvariant ==
  /\ PublisherInvariant
  /\ trust \in TrustedStates /\ OneRelease(trust)
  /\ check \in [Checks -> CheckShapes]
  /\ \A k \in Checks : CheckHolds(check[k])

LEMMA CheckShape ==
  ASSUME TrustInvariant, NEW k \in Checks
  PROVE  /\ check[k].pc \in FetchPCs => check[k] \in FetchCheck /\ FetchHoldsIn(check[k], Published, Timestamps)
         /\ check[k].pc = "accepted" => check[k] \in AcceptedCheck
BY DEF TrustInvariant, CheckShapes, IdleCheck, FetchCheck, AcceptedCheck, FetchPCs, CheckHolds, CheckHoldsIn

LEMMA HoldsAsPublished ==
  ASSUME NEW c, NEW published, NEW timestamps, NEW sequence, NEW published2, NEW timestamps2, NEW sequence2,
         CheckHoldsIn(c, published, timestamps, sequence),
         published \subseteq published2, timestamps \subseteq timestamps2,
         \A i \in 1 .. Len(sequence) : i \in 1 .. Len(sequence2) /\ sequence2[i] = sequence[i]
  PROVE  CheckHoldsIn(c, published2, timestamps2, sequence2)
<1>1. ASSUME NEW s, OneReleaseIn(s, published, timestamps) PROVE OneReleaseIn(s, published2, timestamps2)
  BY <1>1 DEF OneReleaseIn
<1>2. ASSUME FetchHoldsIn(c, published, timestamps) PROVE FetchHoldsIn(c, published2, timestamps2)
  BY <1>1, <1>2 DEF FetchHoldsIn
<1>3. ASSUME NEW s, NEW u, AdvancesIn(s, u, sequence) PROVE AdvancesIn(s, u, sequence2)
  BY <1>3 DEF AdvancesIn
<1>. QED
  BY <1>1, <1>2, <1>3 DEF CheckHoldsIn

LEMMA PublisherGrows ==
  ASSUME PublisherInvariant,
         \/ \E role \in Roles : Rotate(role)
         \/ \E channel \in Channels, restart \in BOOLEAN : Release(channel, restart)
  PROVE  /\ PublisherInvariant' /\ UNCHANGED <<trust, check>>
         /\ Published \subseteq Published' /\ Timestamps \subseteq Timestamps'
         /\ \A i \in 1 .. Len(releases) : i \in 1 .. Len(releases') /\ releases'[i] = releases[i]
<1>1. roots \in Seq(RootObject) /\ releases \in Seq(TimestampObject)
  BY DEF PublisherInvariant, RootsInOrder, ReleasesInOrder
<1>2. ASSUME NEW role \in Roles, Rotate(role)
      PROVE  /\ \A i \in 1 .. Len(roots) : i \in 1 .. Len(roots') /\ roots'[i] = roots[i]
             /\ UNCHANGED <<releases, trust, check>>
  <2>1. PICK new : roots' = Append(roots, new)
    BY <1>2 DEF Rotate
  <2>. QED
    BY <1>1, <1>2, <2>1 DEF Rotate
<1>3. ASSUME NEW channel \in Channels, NEW restart \in BOOLEAN, Release(channel, restart)
      PROVE  /\ \A i \in 1 .. Len(releases) : i \in 1 .. Len(releases') /\ releases'[i] = releases[i]
             /\ UNCHANGED <<roots, trust, check>>
  <2>1. PICK new : releases' = Append(releases, new)
    BY <1>3, ReleaseComesAfter
  <2>. QED
    BY <1>1, <1>3, <2>1 DEF Release
<1>4. PublisherInvariant'
  BY RotateKeepsOrder, ReleaseKeepsOrder
<1>5. /\ \A i \in 1 .. Len(roots) : i \in 1 .. Len(roots') /\ roots'[i] = roots[i]
      /\ \A i \in 1 .. Len(releases) : i \in 1 .. Len(releases') /\ releases'[i] = releases[i]
      /\ UNCHANGED <<trust, check>>
  BY <1>2, <1>3
<1>. QED
  BY <1>4, <1>5 DEF Published, Timestamps

LEMMA PublisherStep ==
  ASSUME TrustInvariant,
         \/ \E role \in Roles : Rotate(role)
         \/ \E channel \in Channels, restart \in BOOLEAN : Release(channel, restart)
  PROVE  TrustInvariant'
<1>1. /\ PublisherInvariant' /\ UNCHANGED <<trust, check>>
      /\ Published \subseteq Published' /\ Timestamps \subseteq Timestamps'
      /\ \A i \in 1 .. Len(releases) : i \in 1 .. Len(releases') /\ releases'[i] = releases[i]
  BY PublisherGrows DEF TrustInvariant
<1>2. OneRelease(trust)'
  BY <1>1 DEF TrustInvariant, OneRelease, OneReleaseIn
<1>3. ASSUME NEW k \in Checks PROVE CheckHolds(check[k])'
  <2>1. CheckHoldsIn(check[k], Published', Timestamps', releases')
    BY <1>1, HoldsAsPublished DEF TrustInvariant, CheckHolds
  <2>. QED
    BY <1>1, <2>1 DEF CheckHolds
<1>. QED
  BY <1>1, <1>2, <1>3 DEF TrustInvariant

LEMMA CheckBecomes ==
  ASSUME TrustInvariant, NEW k \in Checks, NEW c \in CheckShapes, CheckHolds(c), Becomes(k, c)
  PROVE  TrustInvariant'
<1>1. UNCHANGED <<roots, releases, trust>> /\ check' = [check EXCEPT ![k] = c]
  BY DEF Becomes
<1>2. PublisherInvariant' /\ OneRelease(trust)' /\ trust' \in TrustedStates
  BY <1>1 DEF TrustInvariant, PublisherInvariant, RootsInOrder, KeysOnlyGrow, KeysChangeInSteps,
     ReleasesInOrder, RootKey, OneRelease, Published, Timestamps
<1>3. ASSUME NEW j \in Checks PROVE CheckHolds(check[j])'
  <2>1. CheckHolds(check'[j])
    BY <1>1 DEF TrustInvariant
  <2>2. Published' = Published /\ Timestamps' = Timestamps
    BY <1>1 DEF Published, Timestamps
  <2>. QED
    BY <1>1, <2>1, <2>2 DEF CheckHolds
<1>. QED
  BY <1>1, <1>2, <1>3 DEF TrustInvariant

LEMMA IdleHolds == Idle \in CheckShapes /\ CheckHolds(Idle)
BY DEF Idle, CheckShapes, IdleCheck, CheckHolds, CheckHoldsIn, FetchPCs

LEMMA FetchedHolds ==
  ASSUME NEW c \in FetchCheck, FetchHoldsIn(c, Published, Timestamps)
  PROVE  c \in CheckShapes /\ CheckHolds(c)
BY DEF FetchCheck, CheckShapes, CheckHolds, CheckHoldsIn, FetchPCs

LEMMA CountsUpAppend ==
  ASSUME NEW chain \in Seq(RootObject), Len(chain) > 0, CountsUp(chain), NEW r \in RootObject
  PROVE  CountsUp(Append(chain, r))
<1>n. PICK n \in Nat \ {0} : n = Len(chain)
  OBVIOUS
<1> DEFINE longer == Append(chain, r)
<1>1. /\ Len(longer) = n + 1 /\ longer[n + 1] = r
      /\ \A i \in 1 .. n : longer[i] = chain[i] /\ chain[i] \in RootObject
  BY <1>n, AppendProperties, ElementOfSeq
<1> HIDE DEF longer
<1> SUFFICES ASSUME ChainHolds(longer), NEW i \in 1 .. n + 1
             PROVE  longer[i].version = longer[1].version + (i - 1)
  BY <1>1 DEF CountsUp, longer
<1>2. ChainHolds(chain)
  <2> SUFFICES ASSUME NEW j \in 1 .. n - 1 PROVE RootFollows(chain[j], chain[j + 1])
    BY <1>n DEF ChainHolds
  <2>1. RootFollows(longer[j], longer[j + 1])
    BY <1>1 DEF ChainHolds
  <2>. QED
    BY <1>1, <2>1
<1>3. \A j \in 1 .. n : chain[j].version = chain[1].version + (j - 1)
  BY <1>n, <1>2 DEF CountsUp
<1>4. longer[n + 1].version = longer[n].version + 1
  BY <1>1 DEF ChainHolds, RootFollows
<1>5. chain[1].version \in Nat
  BY <1>1 DEF RootObject
<1>6. CASE i <= n
  BY <1>1, <1>3, <1>6
<1>7. CASE i = n + 1
  <2>1. longer[1] = chain[1] /\ longer[n] = chain[n] /\ chain[n].version = chain[1].version + (n - 1)
    BY <1>1, <1>3
  <2>. QED
    BY <1>4, <1>5, <1>7, <2>1
<1>. QED
  BY <1>6, <1>7

LEMMA ChainAppend ==
  ASSUME NEW root \in RootObject, NEW fetched \in Seq(RootObject), NEW r \in RootObject
  PROVE  <<root>> \o Append(fetched, r) = Append(<<root>> \o fetched, r)
OBVIOUS

LEMMA PublishedObjects ==
  ASSUME PublisherInvariant
  PROVE  /\ Published \subseteq RootObject /\ Timestamps \subseteq TimestampObject
         /\ Snapshots \subseteq SnapshotObject /\ TargetsServed \subseteq TargetsObject
         /\ DelegatedServed \subseteq DelegatedObject
<1>1. Published \subseteq RootObject
  BY LastRoot DEF PublisherInvariant, Published
<1>2. Timestamps \subseteq TimestampObject
  BY ElementOfSeq DEF PublisherInvariant, ReleasesInOrder, Timestamps
<1>3. Snapshots \subseteq SnapshotObject
  BY <1>2, TimestampFields DEF Snapshots
<1>4. TargetsServed \subseteq TargetsObject /\ DelegatedServed \subseteq DelegatedObject
  BY <1>3 DEF TargetsServed, DelegatedServed, SnapshotObject
<1>. QED
  BY <1>1, <1>2, <1>3, <1>4

LEMMA TrustInitially == TrustInit => TrustInvariant
<1> SUFFICES ASSUME TrustInit PROVE TrustInvariant
  OBVIOUS
<1>1. PublisherInvariant
  BY PublisherInitially
<1>2. trust \in TrustedStates /\ OneRelease(trust)
  BY FirstRootIsObject DEF TrustInit, Bootstrap, TrustedStates, OneRelease, OneReleaseIn
<1>3. check \in [Checks -> CheckShapes] /\ \A k \in Checks : CheckHolds(check[k])
  BY IdleHolds DEF TrustInit
<1>. QED
  BY <1>1, <1>2, <1>3 DEF TrustInvariant

LEMMA BeginsHolds ==
  ASSUME TrustInvariant, NEW k \in Checks, NEW channel \in Channels, CheckBegins(k, channel)
  PROVE  TrustInvariant'
<1> DEFINE c == [pc |-> "root", channel |-> channel, current |-> trust, bundle |-> EmptyBundle,
                 misplaced |-> 0]
<1>1. EmptyBundle \in Bundles /\ EmptyBundle.roots = <<>>
  BY DEF EmptyBundle, Bundles
<1>2. c \in FetchCheck
  BY <1>1 DEF TrustInvariant, FetchCheck, FetchPCs
<1>3. CountsUp(ChainOf(trust, <<>>))
  <2>1. trust.root \in RootObject
    BY DEF TrustInvariant, TrustedStates
  <2>2. Len(ChainOf(trust, <<>>)) = 1
    BY <2>1 DEF ChainOf
  <2>3. ChainOf(trust, <<>>)[1].version \in Nat
    BY <2>1 DEF ChainOf, RootObject
  <2>. QED
    BY <2>2, <2>3 DEF CountsUp
<1>4. FetchHoldsIn(c, Published, Timestamps)
  BY <1>1, <1>3 DEF FetchHoldsIn, TrustInvariant, OneRelease
<1>5. Becomes(k, c)
  BY DEF CheckBegins
<1> HIDE DEF c
<1>. QED
  BY <1>2, <1>4, <1>5, FetchedHolds, CheckBecomes

(* A published root, put into the bundle; a missing one ends the chain. *)
LEMMA FetchRootHolds ==
  ASSUME TrustInvariant, NEW k \in Checks, FetchRoot(k)
  PROVE  TrustInvariant'
<1>1. check[k] \in FetchCheck /\ FetchHoldsIn(check[k], Published, Timestamps) /\ check[k].pc = "root"
  BY CheckShape DEF FetchRoot, CheckAt, FetchPCs
<1>2. CASE Becomes(k, [check[k] EXCEPT !.pc = "timestamp"])
  <2> DEFINE c == [check[k] EXCEPT !.pc = "timestamp"]
  <2>1. /\ c \in FetchCheck /\ c.pc = "timestamp" /\ c.current = check[k].current
        /\ c.bundle = check[k].bundle
    BY <1>1 DEF FetchCheck, FetchPCs
  <2> HIDE DEF c
  <2>2. FetchHoldsIn(c, Published, Timestamps)
    BY <1>1, <2>1 DEF FetchHoldsIn
  <2>. QED
    BY <1>2, <2>1, <2>2, FetchedHolds, CheckBecomes DEF c
<1>3. CASE Becomes(k, Idle)
  BY <1>3, IdleHolds, CheckBecomes
<1>4. ASSUME NEW object \in {roots[i] : i \in 2 .. Len(roots)}, NEW misplaced \in Nat,
             Becomes(k, [check[k] EXCEPT !.pc = "root", !.misplaced = misplaced,
                           !.bundle = [check[k].bundle EXCEPT
                                       !.roots = Append(check[k].bundle.roots, object)]])
      PROVE  TrustInvariant'
  <2> DEFINE b == [check[k].bundle EXCEPT !.roots = Append(check[k].bundle.roots, object)]
             c == [check[k] EXCEPT !.pc = "root", !.misplaced = misplaced, !.bundle = b]
             fetched == check[k].bundle.roots
  <2>1. object \in Published /\ object \in RootObject
    BY PublishedObjects, LastRoot DEF Published, TrustInvariant, PublisherInvariant
  <2>2. /\ check[k].bundle \in Bundles /\ fetched \in Seq(RootObject)
        /\ check[k].current \in TrustedStates /\ check[k].current.root \in RootObject
    BY <1>1 DEF FetchCheck, Bundles, TrustedStates
  <2>3. b \in Bundles /\ b.roots = Append(fetched, object)
    <3>1. Append(fetched, object) \in Seq(RootObject)
      BY <2>1, <2>2, AppendProperties
    <3>2. b = [check[k].bundle EXCEPT !.roots = Append(fetched, object)]
      OBVIOUS
    <3> HIDE DEF b, fetched
    <3>. QED
      BY <2>2, <3>1, <3>2 DEF Bundles
  <2> HIDE DEF b
  <2>4. c \in FetchCheck /\ c.pc = "root" /\ c.current = check[k].current /\ c.bundle = b
    BY <1>1, <2>3 DEF FetchCheck, FetchPCs
  <2> HIDE DEF c, fetched
  <2>5. \A i \in 1 .. Len(b.roots) : b.roots[i] \in Published
    <3>1. \A i \in 1 .. Len(fetched) : fetched[i] \in Published
      BY <1>1 DEF FetchHoldsIn, fetched
    <3>. QED
      BY <2>1, <2>2, <2>3, <3>1, AppendProperties
  <2>6. CountsUp(ChainOf(check[k].current, b.roots))
    <3>1. CountsUp(ChainOf(check[k].current, fetched))
      BY <1>1 DEF FetchHoldsIn, fetched
    <3>2. ChainOf(check[k].current, b.roots) = Append(ChainOf(check[k].current, fetched), object)
      BY <2>1, <2>2, <2>3, ChainAppend DEF ChainOf
    <3>3. /\ ChainOf(check[k].current, fetched) \in Seq(RootObject)
          /\ Len(ChainOf(check[k].current, fetched)) > 0
      BY <2>2, ChainFields DEF ChainOf
    <3>. QED
      BY <2>1, <3>1, <3>2, <3>3, CountsUpAppend
  <2>7. FetchHoldsIn(c, Published, Timestamps)
    BY <1>1, <2>4, <2>5, <2>6 DEF FetchHoldsIn
  <2>8. Becomes(k, c)
    BY <1>4 DEF c, b
  <2>. QED
    BY <2>4, <2>7, <2>8, FetchedHolds, CheckBecomes
<1>5. CASE \E object \in {roots[i] : i \in 2 .. Len(roots)}, misplaced \in Nat :
             Becomes(k, [check[k] EXCEPT !.pc = "root", !.misplaced = misplaced,
                           !.bundle = [check[k].bundle EXCEPT
                                       !.roots = Append(check[k].bundle.roots, object)]])
  BY <1>4, <1>5
<1>6. \/ Becomes(k, [check[k] EXCEPT !.pc = "timestamp"]) \/ Becomes(k, Idle)
      \/ \E object \in {roots[i] : i \in 2 .. Len(roots)}, misplaced \in Nat :
           Becomes(k, [check[k] EXCEPT !.pc = "root", !.misplaced = misplaced,
                         !.bundle = [check[k].bundle EXCEPT
                                       !.roots = Append(check[k].bundle.roots, object)]])
  <2>1. check[k].misplaced \in Nat
    BY <1>1 DEF FetchCheck
  <2> DEFINE wanted == check[k].current.root.version + Len(check[k].bundle.roots) + 1
             Asked(r) == r.version = wanted
  <2>2. CASE Answers(k, "root", "roots", {roots[i] : i \in 2 .. Len(roots)}, Asked)
    <3>1. PICK object \in {roots[i] : i \in 2 .. Len(roots)} :
            Becomes(k, [check[k] EXCEPT !.pc = "root",
                          !.misplaced = IF Asked(object) THEN @ ELSE @ + 1,
                          !.bundle = [check[k].bundle EXCEPT
                                        !["roots"] = IF "roots" = "roots"
                                                       THEN Append(check[k].bundle.roots, object)
                                                       ELSE object]])
      BY <2>2, Zenon DEF Answers
    <3> DEFINE used == IF Asked(object) THEN check[k].misplaced ELSE check[k].misplaced + 1
    <3>2. used \in Nat
      BY <2>1
    <3>3. Becomes(k, [check[k] EXCEPT !.pc = "root", !.misplaced = used,
                        !.bundle = [check[k].bundle EXCEPT
                                      !.roots = Append(check[k].bundle.roots, object)]])
      BY <3>1
    <3> HIDE DEF used
    <3>. QED
      BY <3>2, <3>3
  <2>. QED
    BY <2>2, Zenon DEF FetchRoot
<1>. QED
  BY <1>2, <1>3, <1>5, <1>6

(* Any object but a root, put into the bundle. *)
LEMMA PutHolds ==
  ASSUME TrustInvariant, NEW k \in Checks, check[k].pc \in FetchPCs,
         NEW next \in FetchPCs, NEW used \in Nat, NEW b \in Bundles,
         b.roots = check[k].bundle.roots, b.timestamp \in Timestamps,
         Becomes(k, [check[k] EXCEPT !.pc = next, !.misplaced = used, !.bundle = b])
  PROVE  TrustInvariant'
<1>1. check[k] \in FetchCheck /\ FetchHoldsIn(check[k], Published, Timestamps)
  BY CheckShape
<1> DEFINE c == [check[k] EXCEPT !.pc = next, !.misplaced = used, !.bundle = b]
<1>2. c \in FetchCheck /\ c.current = check[k].current /\ c.bundle = b
  BY <1>1 DEF FetchCheck
<1> HIDE DEF c
<1>3. FetchHoldsIn(c, Published, Timestamps)
  BY <1>1, <1>2 DEF FetchHoldsIn
<1>. QED
  BY <1>2, <1>3, FetchedHolds, CheckBecomes DEF c

LEMMA FetchTimestampHolds ==
  ASSUME TrustInvariant, NEW k \in Checks, FetchTimestamp(k)
  PROVE  TrustInvariant'
<1> DEFINE Asked(t) == TRUE
<1>1. /\ check[k].pc = "timestamp" /\ check[k].pc \in FetchPCs /\ check[k] \in FetchCheck
      /\ FetchHoldsIn(check[k], Published, Timestamps)
  BY CheckShape DEF FetchTimestamp, CheckAt, FetchPCs
<1>2. PICK object \in Timestamps :
        Becomes(k, [check[k] EXCEPT !.pc = "snapshot",
                      !.misplaced = IF Asked(object) THEN @ ELSE @ + 1,
                      !.bundle = [check[k].bundle EXCEPT
                                    !["timestamp"] = IF "timestamp" = "roots"
                                      THEN Append(check[k].bundle.roots, object) ELSE object]])
  BY Zenon DEF FetchTimestamp, Answers
<1> DEFINE used == IF Asked(object) THEN check[k].misplaced ELSE check[k].misplaced + 1
           b == [check[k].bundle EXCEPT !.timestamp = object]
<1>3. used \in Nat
  BY <1>1 DEF FetchCheck
<1>4. Becomes(k, [check[k] EXCEPT !.pc = "snapshot", !.misplaced = used, !.bundle = b])
  BY <1>2
<1>5. object \in TimestampObject
  BY PublishedObjects DEF TrustInvariant
<1>6. b \in Bundles /\ b.roots = check[k].bundle.roots /\ b.timestamp = object
  BY <1>1, <1>5 DEF FetchCheck, Bundles
<1>7. b.timestamp \in Timestamps
  BY <1>1, <1>6 DEF FetchHoldsIn
<1> HIDE DEF used, b
<1>. QED
  BY <1>1, <1>3, <1>4, <1>6, <1>7, PutHolds DEF FetchPCs

LEMMA FetchSnapshotHolds ==
  ASSUME TrustInvariant, NEW k \in Checks, FetchSnapshot(k)
  PROVE  TrustInvariant'
<1> DEFINE Asked(s) == s.version = check[k].bundle.timestamp.snapshot.version
<1>1. /\ check[k].pc = "snapshot" /\ check[k].pc \in FetchPCs /\ check[k] \in FetchCheck
      /\ FetchHoldsIn(check[k], Published, Timestamps)
  BY CheckShape DEF FetchSnapshot, CheckAt, FetchPCs
<1>2. PICK object \in Snapshots :
        Becomes(k, [check[k] EXCEPT !.pc = "targets",
                      !.misplaced = IF Asked(object) THEN @ ELSE @ + 1,
                      !.bundle = [check[k].bundle EXCEPT
                                    !["snapshot"] = IF "snapshot" = "roots"
                                      THEN Append(check[k].bundle.roots, object) ELSE object]])
  BY Zenon DEF FetchSnapshot, Answers
<1> DEFINE used == IF Asked(object) THEN check[k].misplaced ELSE check[k].misplaced + 1
           b == [check[k].bundle EXCEPT !.snapshot = object]
<1>3. used \in Nat
  BY <1>1 DEF FetchCheck
<1>4. Becomes(k, [check[k] EXCEPT !.pc = "targets", !.misplaced = used, !.bundle = b])
  BY <1>2
<1>5. object \in SnapshotObject
  BY PublishedObjects DEF TrustInvariant
<1>6. b \in Bundles /\ b.roots = check[k].bundle.roots /\ b.timestamp = check[k].bundle.timestamp
  BY <1>1, <1>5 DEF FetchCheck, Bundles
<1>7. b.timestamp \in Timestamps
  BY <1>1, <1>6 DEF FetchHoldsIn
<1> HIDE DEF used, b
<1>. QED
  BY <1>1, <1>3, <1>4, <1>6, <1>7, PutHolds DEF FetchPCs

LEMMA FetchTargetsHolds ==
  ASSUME TrustInvariant, NEW k \in Checks, FetchTargets(k)
  PROVE  TrustInvariant'
<1> DEFINE Asked(t) == t.version = check[k].bundle.snapshot.targets.version
<1>1. /\ check[k].pc = "targets" /\ check[k].pc \in FetchPCs /\ check[k] \in FetchCheck
      /\ FetchHoldsIn(check[k], Published, Timestamps)
  BY CheckShape DEF FetchTargets, CheckAt, FetchPCs
<1>2. PICK object \in TargetsServed :
        Becomes(k, [check[k] EXCEPT !.pc = "delegated",
                      !.misplaced = IF Asked(object) THEN @ ELSE @ + 1,
                      !.bundle = [check[k].bundle EXCEPT
                                    !["targets"] = IF "targets" = "roots"
                                      THEN Append(check[k].bundle.roots, object) ELSE object]])
  BY Zenon DEF FetchTargets, Answers
<1> DEFINE used == IF Asked(object) THEN check[k].misplaced ELSE check[k].misplaced + 1
           b == [check[k].bundle EXCEPT !.targets = object]
<1>3. used \in Nat
  BY <1>1 DEF FetchCheck
<1>4. Becomes(k, [check[k] EXCEPT !.pc = "delegated", !.misplaced = used, !.bundle = b])
  BY <1>2
<1>5. object \in TargetsObject
  BY PublishedObjects DEF TrustInvariant
<1>6. b \in Bundles /\ b.roots = check[k].bundle.roots /\ b.timestamp = check[k].bundle.timestamp
  BY <1>1, <1>5 DEF FetchCheck, Bundles
<1>7. b.timestamp \in Timestamps
  BY <1>1, <1>6 DEF FetchHoldsIn
<1> HIDE DEF used, b
<1>. QED
  BY <1>1, <1>3, <1>4, <1>6, <1>7, PutHolds DEF FetchPCs

LEMMA FetchDelegatedHolds ==
  ASSUME TrustInvariant, NEW k \in Checks, FetchDelegated(k)
  PROVE  TrustInvariant'
<1> DEFINE binding == check[k].bundle.snapshot.channel[check[k].channel]
           Asked(d) == d.channel = binding.channel /\ d.version = binding.version
<1>1. /\ check[k].pc = "delegated" /\ check[k].pc \in FetchPCs /\ check[k] \in FetchCheck
      /\ FetchHoldsIn(check[k], Published, Timestamps)
  BY CheckShape DEF FetchDelegated, CheckAt, FetchPCs
<1>2. PICK object \in DelegatedServed :
        Becomes(k, [check[k] EXCEPT !.pc = "pack",
                      !.misplaced = IF Asked(object) THEN @ ELSE @ + 1,
                      !.bundle = [check[k].bundle EXCEPT
                                    !["delegated"] = IF "delegated" = "roots"
                                      THEN Append(check[k].bundle.roots, object) ELSE object]])
  BY Zenon DEF FetchDelegated, Answers
<1> DEFINE used == IF Asked(object) THEN check[k].misplaced ELSE check[k].misplaced + 1
           b == [check[k].bundle EXCEPT !.delegated = object]
<1>3. used \in Nat
  BY <1>1 DEF FetchCheck
<1>4. Becomes(k, [check[k] EXCEPT !.pc = "pack", !.misplaced = used, !.bundle = b])
  BY <1>2
<1>5. object \in DelegatedObject
  BY PublishedObjects DEF TrustInvariant
<1>6. b \in Bundles /\ b.roots = check[k].bundle.roots /\ b.timestamp = check[k].bundle.timestamp
  BY <1>1, <1>5 DEF FetchCheck, Bundles
<1>7. b.timestamp \in Timestamps
  BY <1>1, <1>6 DEF FetchHoldsIn
<1> HIDE DEF used, b
<1>. QED
  BY <1>1, <1>3, <1>4, <1>6, <1>7, PutHolds DEF FetchPCs

LEMMA FetchPackHolds ==
  ASSUME TrustInvariant, NEW k \in Checks, FetchPack(k)
  PROVE  TrustInvariant'
<1> DEFINE Asked(p) == p = check[k].bundle.delegated
<1>1. /\ check[k].pc = "pack" /\ check[k].pc \in FetchPCs /\ check[k] \in FetchCheck
      /\ FetchHoldsIn(check[k], Published, Timestamps)
  BY CheckShape DEF FetchPack, CheckAt, FetchPCs
<1>2. PICK object \in DelegatedServed :
        Becomes(k, [check[k] EXCEPT !.pc = "verify",
                      !.misplaced = IF Asked(object) THEN @ ELSE @ + 1,
                      !.bundle = [check[k].bundle EXCEPT
                                    !["pack"] = IF "pack" = "roots"
                                      THEN Append(check[k].bundle.roots, object) ELSE object]])
  BY Zenon DEF FetchPack, Answers
<1> DEFINE used == IF Asked(object) THEN check[k].misplaced ELSE check[k].misplaced + 1
           b == [check[k].bundle EXCEPT !.pack = object]
<1>3. used \in Nat
  BY <1>1 DEF FetchCheck
<1>4. Becomes(k, [check[k] EXCEPT !.pc = "verify", !.misplaced = used, !.bundle = b])
  BY <1>2
<1>5. object \in DelegatedObject
  BY PublishedObjects DEF TrustInvariant
<1>6. b \in Bundles /\ b.roots = check[k].bundle.roots /\ b.timestamp = check[k].bundle.timestamp
  BY <1>1, <1>5 DEF FetchCheck, Bundles
<1>7. b.timestamp \in Timestamps
  BY <1>1, <1>6 DEF FetchHoldsIn
<1> HIDE DEF used, b
<1>. QED
  BY <1>1, <1>3, <1>4, <1>6, <1>7, PutHolds DEF FetchPCs

LEMMA CandidateIsState ==
  ASSUME PublisherInvariant, NEW state, NEW b, NEW channel \in Channels,
         OneRelease(Candidate(state, b, channel)), b.timestamp \in Timestamps, Bound(b, channel),
         LastOf(ChainOf(state, b.roots)) \in Published
  PROVE  Candidate(state, b, channel) \in TrustedStates
<1> DEFINE root == LastOf(ChainOf(state, b.roots))
           other == OtherChannel(channel)
           kept == IF OnlineAuthorityRotated(ChainOf(state, b.roots)) THEN None
                   ELSE RetainDelegated(state.delegated[other], b.snapshot.channel[other])
           delegated == [c \in Channels |-> IF c = channel THEN b.delegated ELSE kept]
<1>1. /\ root \in RootObject /\ b.timestamp \in TimestampObject /\ b.snapshot \in SnapshotObject
      /\ b.targets \in TargetsObject /\ \A c \in Channels : b.snapshot.channel[c] \in DelegatedObject
  BY PublishedObjects, TimestampFields DEF Bound
<1>2. kept \in {None, b.snapshot.channel[other]} /\ other \in Channels
  BY DEF RetainDelegated, OtherChannel, Channels
<1>3. b.delegated \in DelegatedObject
  BY <1>1 DEF Bound
<1> HIDE DEF kept, other
<1>4. delegated \in [Channels -> DelegatedObject \cup {None}]
  BY <1>1, <1>2, <1>3
<1>5. Candidate(state, b, channel) = [root |-> root, timestamp |-> b.timestamp, snapshot |-> b.snapshot,
                                      targets |-> b.targets, delegated |-> delegated]
  BY DEF Candidate, kept, other
<1> HIDE DEF root, delegated
<1>. QED
  BY <1>1, <1>4, <1>5 DEF TrustedStates

LEMMA VerifyHolds ==
  ASSUME TrustInvariant, NEW k \in Checks, Verify(k)
  PROVE  TrustInvariant'
<1> DEFINE c == check[k]
           verdict == Verdict(c.current, c.bundle, c.channel)
           new == Candidate(c.current, c.bundle, c.channel)
<1>1. c.pc = "verify" /\ c \in FetchCheck /\ FetchHoldsIn(c, Published, Timestamps)
  BY CheckShape DEF Verify, CheckAt, FetchPCs
<1>2. /\ PublisherInvariant /\ OneRelease(c.current) /\ c.channel \in Channels
      /\ c.bundle.roots \in Seq(RootObject)
      /\ \A i \in 1 .. Len(c.bundle.roots) : c.bundle.roots[i] \in Published
      /\ CountsUp(ChainOf(c.current, c.bundle.roots)) /\ c.bundle.timestamp \in Timestamps
      /\ c.current \in TrustedStates
  BY <1>1 DEF TrustInvariant, FetchHoldsIn, FetchCheck, Bundles, OneRelease
<1>3. CASE Becomes(k, Idle)
  BY <1>3, IdleHolds, CheckBecomes
<1>4. CASE verdict = "accepted" /\ Becomes(k, [pc |-> "accepted", current |-> c.current, candidate |-> new])
  <2>1. OneRelease(new) /\ Advances(c.current, new)
    BY <1>2, <1>4, VerifiedAdvances
  <2>2. /\ ChainHolds(ChainOf(c.current, c.bundle.roots)) /\ Bound(c.bundle, c.channel)
    BY <1>4, AcceptedMeans
  <2>3. LastOf(ChainOf(c.current, c.bundle.roots)) \in Published
    BY <1>2, <2>2, FetchedIsRun, RunAuthority
  <2>4. new \in TrustedStates
    BY <1>2, <2>1, <2>2, <2>3, CandidateIsState
  <2> DEFINE a == [pc |-> "accepted", current |-> c.current, candidate |-> new]
  <2> HIDE DEF new, c
  <2>5. a \in AcceptedCheck /\ a.pc = "accepted" /\ a.current = c.current /\ a.candidate = new
    BY <1>2, <2>4 DEF AcceptedCheck
  <2>6. Becomes(k, a)
    BY <1>4
  <2> HIDE DEF a
  <2>7. a \in CheckShapes /\ CheckHolds(a)
    BY <2>1, <2>5 DEF CheckShapes, CheckHolds, CheckHoldsIn, OneRelease, Advances, FetchPCs
  <2>. QED
    BY <2>6, <2>7, CheckBecomes
<1>5. CASE verdict # "accepted" /\ Becomes(k, [pc |-> verdict])
  <2>1. verdict \in {"rejected", "replay"}
    BY <1>5 DEF Verdict
  <2> HIDE DEF verdict
  <2>2. [pc |-> verdict] \in CheckShapes /\ CheckHolds([pc |-> verdict])
    BY <2>1 DEF CheckShapes, IdleCheck, CheckHolds, CheckHoldsIn, FetchPCs
  <2>. QED
    BY <1>5, <2>2, CheckBecomes
<1>. QED
  BY <1>3, <1>4, <1>5 DEF Verify

LEMMA AdoptHolds ==
  ASSUME TrustInvariant, NEW k \in Checks, Adopt(k)
  PROVE  TrustInvariant'
<1>1. check[k] \in AcceptedCheck /\ check[k].pc = "accepted" /\ CheckHolds(check[k])
  BY CheckShape DEF Adopt, CheckAt, TrustInvariant
<1>2. check[k].candidate \in TrustedStates /\ OneRelease(check[k].candidate)
  BY <1>1 DEF AcceptedCheck, CheckHolds, CheckHoldsIn, OneRelease
<1>3. UNCHANGED <<roots, releases>> /\ check' = [check EXCEPT ![k] = Idle]
  BY DEF Adopt
<1>4. trust' \in TrustedStates /\ OneRelease(trust')
  BY <1>2 DEF Adopt, TrustInvariant
<1>5. Published' = Published /\ Timestamps' = Timestamps
  BY <1>3 DEF Published, Timestamps
<1>6. OneRelease(trust)'
  BY <1>4, <1>5 DEF OneRelease
<1>7. ASSUME NEW j \in Checks PROVE CheckHolds(check[j])'
  <2>1. CheckHolds(check'[j])
    BY <1>3, IdleHolds DEF TrustInvariant
  <2>. QED
    BY <1>3, <1>5, <2>1 DEF CheckHolds
<1>8. PublisherInvariant'
  BY <1>3 DEF TrustInvariant, PublisherInvariant, RootsInOrder, KeysOnlyGrow, KeysChangeInSteps,
     ReleasesInOrder, RootKey
<1>9. check' \in [Checks -> CheckShapes]
  BY <1>3, IdleHolds DEF TrustInvariant
<1>. QED
  BY <1>4, <1>6, <1>7, <1>8, <1>9 DEF TrustInvariant

LEMMA TrustStep == TrustInvariant /\ [TrustNext]_trustVars => TrustInvariant'
<1> SUFFICES ASSUME TrustInvariant, [TrustNext]_trustVars PROVE TrustInvariant'
  OBVIOUS
<1>1. CASE \/ \E role \in Roles : Rotate(role)
           \/ \E channel \in Channels, restart \in BOOLEAN : Release(channel, restart)
  BY <1>1, PublisherStep
<1>2. ASSUME NEW k \in Checks, CheckStep(k) PROVE TrustInvariant'
  <2>1. ASSUME Becomes(k, Idle) PROVE TrustInvariant'
    BY <2>1, IdleHolds, CheckBecomes
  <2>2. CASE RegistryFails(k) \/ CheckFails(k)
    BY <2>1, <2>2 DEF RegistryFails, CheckFails
  <2>. QED
    BY <1>2, <2>2, BeginsHolds, FetchRootHolds, FetchTimestampHolds, FetchSnapshotHolds,
       FetchTargetsHolds, FetchDelegatedHolds, FetchPackHolds, VerifyHolds, AdoptHolds DEF CheckStep
<1>3. CASE UNCHANGED trustVars
  <2>1. UNCHANGED <<roots, releases, trust, check>>
    BY <1>3 DEF trustVars
  <2>2. Published' = Published /\ Timestamps' = Timestamps
    BY <2>1 DEF Published, Timestamps
  <2>3. PublisherInvariant'
    BY <2>1 DEF TrustInvariant, PublisherInvariant, RootsInOrder, KeysOnlyGrow, KeysChangeInSteps,
       ReleasesInOrder, RootKey
  <2>. QED
    BY <2>1, <2>2, <2>3 DEF TrustInvariant, CheckHolds, OneRelease
<1>. QED
  BY <1>1, <1>2, <1>3 DEF TrustNext

LEMMA TrustInvariantHolds == TrustSpec => []TrustInvariant
BY TrustInitially, TrustStep, PTL DEF TrustSpec

(* For any number of overlapping checks, roots and releases, whatever the mirror serves: the
   state that verifyUpdate produced is one release of the publisher (tuf-trust.ts). *)
THEOREM TrustedIsOneRelease == TrustSpec => []TrustIsOneRelease
<1>1. TrustInvariant => TrustIsOneRelease
  BY DEF TrustInvariant, OneRelease, OneReleaseIn, TrustIsOneRelease, Published
<1>. QED
  BY <1>1, TrustInvariantHolds, PTL

LEMMA IndexOfRelease ==
  ASSUME PublisherInvariant, NEW i \in 1 .. Len(releases)
  PROVE  IndexOf(releases[i]) = i
<1>1. \A j \in 1 .. Len(releases) : releases[j] \in TimestampObject
  BY ElementOfSeq DEF PublisherInvariant, ReleasesInOrder
<1>2. releases[i] # None
  BY <1>1, NoneAssumption
<1>3. ASSUME NEW j \in 1 .. Len(releases), j # i PROVE releases[j] # releases[i]
  <2>1. \A c \in Channels : releases[i].snapshot.channel[c].version \in Nat
    BY <1>1, TimestampFields
  <2>2. Precedes(releases[i], releases[j]) \/ Precedes(releases[j], releases[i])
    BY <1>3 DEF PublisherInvariant, ReleasesInOrder
  <2>. QED
    BY <2>1, <2>2, SMTT(30) DEF Precedes
<1>. QED
  BY <1>2, <1>3 DEF IndexOf

(* For any number of overlapping checks, roots and releases: adopting a verified update moves
   the trusted state to a later release under a root that is no older (tuf-trust.ts,
   standards-update.ts #prepare). *)
THEOREM TrustOnlyMovesForward == TrustSpec => TrustMovesForward
<1> DEFINE Forward == trust' # trust => /\ IndexOf(trust.timestamp)' > IndexOf(trust.timestamp)
                                        /\ trust'.root.version >= trust.root.version
<1>1. TrustInvariant /\ [TrustNext]_trustVars => [Forward]_trustVars
  <2> SUFFICES ASSUME TrustInvariant, TrustNext, trust' # trust
               PROVE  /\ IndexOf(trust.timestamp)' > IndexOf(trust.timestamp)
                      /\ trust'.root.version >= trust.root.version
    BY DEF trustVars
  <2>1. PICK k \in Checks : Adopt(k)
    <3>1. ASSUME NEW k \in Checks, CheckStep(k) PROVE Adopt(k)
      BY <3>1, Zenon DEF CheckStep, CheckBegins, RegistryFails, FetchRoot, FetchTimestamp, FetchSnapshot,
         FetchTargets, FetchDelegated, FetchPack, Verify, CheckFails, Answers, Becomes
    <3>. QED
      BY <3>1 DEF TrustNext, Rotate, Release
  <2>2. check[k].pc = "accepted" /\ trust = check[k].current /\ trust' = check[k].candidate /\ releases' = releases
    BY <2>1 DEF Adopt, CheckAt
  <2>3. AdvancesIn(trust, trust', releases)
    BY <2>2 DEF TrustInvariant, CheckHolds, CheckHoldsIn
  <2>4. IndexOf(trust.timestamp)' = IndexOf(trust'.timestamp)
    BY <2>2 DEF IndexOf
  <2>5. CASE trust.timestamp = None
    <3>1. IndexOf(trust.timestamp) = 0
      BY <2>5 DEF IndexOf
    <3>2. PICK j \in 1 .. Len(releases) : releases[j] = trust'.timestamp
      BY <2>3 DEF AdvancesIn
    <3>3. IndexOf(trust'.timestamp) = j
      BY <3>2, IndexOfRelease DEF TrustInvariant
    <3>. QED
      BY <2>3, <2>4, <3>1, <3>3 DEF AdvancesIn
  <2>6. CASE trust.timestamp # None
    <3>1. PICK i \in 1 .. Len(releases), j \in 1 .. Len(releases) :
            i < j /\ releases[i] = trust.timestamp /\ releases[j] = trust'.timestamp
      BY <2>3, <2>6 DEF AdvancesIn
    <3>2. IndexOf(trust.timestamp) = i /\ IndexOf(trust'.timestamp) = j
      BY <3>1, IndexOfRelease DEF TrustInvariant
    <3>. QED
      BY <2>3, <2>4, <3>1, <3>2 DEF AdvancesIn
  <2>. QED
    BY <2>5, <2>6
<1>. QED
  BY <1>1, TrustInvariantHolds, PTL DEF TrustSpec, TrustMovesForward

-----------------------------------------------------------------------------
(* The publisher's current objects are accepted by whoever trusts an earlier release. *)
LEMMA LatestChain ==
  ASSUME PublisherInvariant, NEW state, OneRelease(state)
  PROVE  LET chain == ChainOf(state, SubSeq(roots, state.root.version + 1, Len(roots)))
         IN /\ RunOfRoots(chain, state.root.version) /\ ChainHolds(chain)
            /\ LastOf(chain) = LastOf(roots)
<1>v. PICK v \in 1 .. Len(roots) : v = state.root.version
  BY TrustedRoot
<1>n. PICK n \in Nat \ {0} : n = Len(roots)
  BY LastRoot DEF PublisherInvariant
<1> DEFINE fetched == SubSeq(roots, v + 1, n)
           chain == ChainOf(state, fetched)
<1>1. state.root \in RootObject /\ roots[v] = state.root /\ roots \in Seq(RootObject)
  BY <1>v, TrustedRoot DEF PublisherInvariant, RootsInOrder
<1>2. /\ fetched \in Seq(RootObject) /\ Len(fetched) = n - v
      /\ \A i \in 1 .. n - v : fetched[i] = roots[v + i]
  <2>1. v + 1 \in 1 .. n + 1 /\ n \in v .. n
    BY <1>n
  <2>2. CASE v = n
    BY <1>1, <1>n, <2>2
  <2>3. CASE v < n
    BY <1>1, <1>n, <2>1, <2>3
  <2>. QED
    BY <1>n, <2>2, <2>3
<1> HIDE DEF fetched
<1>3. /\ chain \in Seq(RootObject) /\ Len(chain) = n - v + 1 /\ chain[1] = roots[v]
      /\ \A i \in 1 .. n - v : chain[i + 1] = roots[v + i]
  <2>1. /\ chain \in Seq(RootObject) /\ Len(chain) = Len(fetched) + 1 /\ chain[1] = state.root
        /\ \A i \in 1 .. Len(fetched) : chain[i + 1] = fetched[i]
    BY <1>1, <1>2, ChainFields DEF ChainOf
  <2> HIDE DEF chain
  <2>. QED
    BY <1>1, <1>2, <2>1
<1> HIDE DEF chain
<1>4. ASSUME NEW i \in 1 .. Len(chain) PROVE chain[i] = roots[v + i - 1]
  <2>1. CASE i = 1
    BY <1>3, <2>1
  <2>2. CASE i # 1
    <3>1. i - 1 \in 1 .. n - v /\ i = (i - 1) + 1 /\ v + (i - 1) = v + i - 1
      BY <1>n, <1>3, <2>2
    <3>. QED
      BY <1>3, <3>1
  <2>. QED
    BY <2>1, <2>2
<1>5. RunOfRoots(chain, v)
  BY <1>n, <1>3, <1>4 DEF RunOfRoots
<1>6. LastOf(chain) = roots[n]
  <2>1. v + Len(chain) - 1 = n
    BY <1>n, <1>3
  <2>. QED
    BY <1>5, <2>1, RunAuthority
<1>7. ChainHolds(chain)
  <2> SUFFICES ASSUME NEW i \in 1 .. Len(chain) - 1 PROVE RootFollows(chain[i], chain[i + 1])
    BY DEF ChainHolds
  <2>1. v + i - 1 \in 1 .. n - 1 /\ i \in 1 .. Len(chain) /\ i \in 1 .. n - v
    BY <1>n, <1>3
  <2>2. chain[i] = roots[v + i - 1] /\ chain[i + 1] = roots[v + i] /\ v + i = (v + i - 1) + 1
    BY <1>3, <1>4, <2>1
  <2>3. RootFollows(roots[v + i - 1], roots[(v + i - 1) + 1])
    BY <1>n, <2>1 DEF PublisherInvariant, RootsInOrder
  <2>. QED
    BY <2>2, <2>3
<1>. QED
  BY <1>v, <1>n, <1>5, <1>6, <1>7 DEF chain, fetched, LastOf

LEMMA LatestVerdict ==
  ASSUME PublisherInvariant, NEW state, OneRelease(state), NEW b, NEW channel \in Channels,
         IsLatest(state, b, channel), b.timestamp # state.timestamp
  PROVE  Verdict(state, b, channel) = "accepted"
<1> DEFINE chain == ChainOf(state, b.roots)
           v == state.root.version
           last == LastOf(releases)
<1>1. /\ b.roots = SubSeq(roots, v + 1, Len(roots)) /\ b.timestamp = last
      /\ b.snapshot = last.snapshot /\ b.targets = last.snapshot.targets
      /\ b.delegated = last.snapshot.channel[channel] /\ b.pack = last.snapshot.channel[channel]
      /\ Signed(b, LastOf(roots))
  BY DEF IsLatest
<1>2. RunOfRoots(chain, v) /\ ChainHolds(chain) /\ LastOf(chain) = LastOf(roots)
  BY <1>1, LatestChain
<1>3. Bound(b, channel)
  BY <1>1 DEF Bound
<1>4. PICK n \in Nat \ {0} : n = Len(releases) /\ n \in 1 .. Len(releases) /\ releases[n] = last
  BY DEF PublisherInvariant, ReleasesInOrder, LastOf
<1> HIDE DEF last
<1>5. ASSUME ~OnlineAuthorityRotated(chain), state.timestamp # None
      PROVE  /\ ~Replays(state.timestamp, b.timestamp) /\ ~RollsBack(state.timestamp, b.timestamp)
             /\ ~SnapshotRollsBack(state.snapshot, b.snapshot)
  <2>1. /\ state.timestamp \in Timestamps /\ state.snapshot = state.timestamp.snapshot
        /\ state.timestamp.signer = state.root.keys["timestamp"]
        /\ state.snapshot.signer = state.root.keys["snapshot"]
    BY <1>5 DEF OneRelease, OneReleaseIn, Bootstrap
  <2>2. PICK i \in 1 .. Len(releases) : releases[i] = state.timestamp
    BY <2>1 DEF Timestamps
  <2>3. Precedes(releases[i], releases[n])
    BY <1>1, <1>4, <2>2 DEF PublisherInvariant, ReleasesInOrder
  <2>4. \A r \in OnlineRoles : state.root.keys[r] = LastOf(roots).keys[r]
    BY <1>2, <1>5, RunAuthority, TrustedRoot
  <2>5. state.timestamp.signer = last.signer /\ state.timestamp.snapshot.signer = last.snapshot.signer
    BY <1>1, <2>1, <2>4 DEF Signed, SignedBy, OnlineRoles
  <2>6. /\ state.timestamp.version < last.version
        /\ state.timestamp.snapshot.targets.version <= last.snapshot.targets.version
        /\ \A c \in Channels :
             state.timestamp.snapshot.channel[c].version <= last.snapshot.channel[c].version
    BY <1>4, <2>2, <2>3, <2>5 DEF Precedes
  <2>7. state.timestamp \in TimestampObject /\ last \in TimestampObject
    BY <1>4, <2>2, ElementOfSeq DEF PublisherInvariant, ReleasesInOrder
  <2>8. /\ state.timestamp.version \in Nat /\ last.version \in Nat
        /\ state.timestamp.snapshot.targets.version \in Nat /\ last.snapshot.targets.version \in Nat
        /\ \A c \in Channels : /\ state.timestamp.snapshot.channel[c].version \in Nat
                               /\ last.snapshot.channel[c].version \in Nat
    BY <2>7, TimestampFields
  <2>9. /\ state.timestamp.snapshot.version = state.timestamp.version
        /\ last.snapshot.version = last.version
    BY <1>4, <2>2 DEF PublisherInvariant, ReleasesInOrder
  <2>10. ~Replays(state.timestamp, b.timestamp) /\ ~RollsBack(state.timestamp, b.timestamp)
    BY <1>1, <2>6, <2>8, <2>9 DEF Replays, RollsBack
  <2>11. ~SnapshotRollsBack(state.snapshot, b.snapshot)
    BY <1>1, <2>1, <2>6, <2>8 DEF SnapshotRollsBack
  <2>. QED
    BY <2>10, <2>11
<1>6. ASSUME state.timestamp = None PROVE state.snapshot = None
  <2>1. \A t \in Timestamps : t # None
    BY PublishedObjects, NoneAssumption
  <2>. QED
    BY <1>6, <2>1 DEF OneRelease, OneReleaseIn, Bootstrap
<1>7. \A x : ~Replays(None, x) /\ ~RollsBack(None, x) /\ ~SnapshotRollsBack(None, x)
  BY DEF Replays, RollsBack, SnapshotRollsBack
<1>8. SignedBy(b.timestamp, LastOf(chain).keys["timestamp"])
  BY <1>1, <1>2 DEF Signed
<1>9. CASE OnlineAuthorityRotated(chain)
  BY <1>1, <1>2, <1>3, <1>7, <1>8, <1>9 DEF Verdict
<1>10. CASE ~OnlineAuthorityRotated(chain) /\ state.timestamp = None
  BY <1>1, <1>2, <1>3, <1>6, <1>7, <1>8, <1>10 DEF Verdict
<1>11. CASE ~OnlineAuthorityRotated(chain) /\ state.timestamp # None
  BY <1>1, <1>2, <1>3, <1>5, <1>8, <1>11 DEF Verdict
<1>. QED
  BY <1>9, <1>10, <1>11

(* For any number of overlapping checks, roots and releases: verifyUpdate never refuses the
   publisher's current objects to a client that does not have them (tuf-trust.ts). *)
THEOREM LatestIsNeverRefused == TrustSpec => LatestIsAccepted
<1> DEFINE NotRefused ==
             \A k \in Checks :
               /\ check[k].pc = "verify" /\ check'[k].pc \in {"rejected", "replay"}
               /\ check[k].bundle.timestamp # check[k].current.timestamp
               => ~IsLatest(check[k].current, check[k].bundle, check[k].channel)
<1>1. TrustInvariant /\ [TrustNext]_trustVars => [NotRefused]_trustVars
  <2> SUFFICES ASSUME TrustInvariant, TrustNext, NEW k \in Checks,
                      check[k].pc = "verify", check'[k].pc \in {"rejected", "replay"},
                      check[k].bundle.timestamp # check[k].current.timestamp,
                      IsLatest(check[k].current, check[k].bundle, check[k].channel)
               PROVE  FALSE
    BY DEF trustVars
  <2>1. check \in [Checks -> CheckShapes]
    BY DEF TrustInvariant
  <2>2. PICK j \in Checks : CheckStep(j)
    BY DEF TrustNext, Rotate, Release
  <2>3. \E value : check' = [check EXCEPT ![j] = value]
    BY <2>2, Zenon DEF CheckStep, CheckBegins, RegistryFails, FetchRoot, FetchTimestamp, FetchSnapshot,
       FetchTargets, FetchDelegated, FetchPack, Verify, CheckFails, Answers, Becomes, Adopt
  <2>4. j = k
    BY <2>1, <2>3
  <2>5. Verify(k)
    BY <2>2, <2>4 DEF CheckStep, CheckBegins, RegistryFails, FetchRoot, FetchTimestamp, FetchSnapshot,
       FetchTargets, FetchDelegated, FetchPack, CheckFails, Adopt, CheckAt
  <2>6. /\ PublisherInvariant /\ OneRelease(check[k].current) /\ check[k].channel \in Channels
    BY CheckShape DEF TrustInvariant, FetchPCs, FetchHoldsIn, OneRelease, FetchCheck
  <2>7. Verdict(check[k].current, check[k].bundle, check[k].channel) = "accepted"
    BY <2>6, LatestVerdict
  <2>8. \/ Becomes(k, Idle)
        \/ \E candidate, current :
             Becomes(k, [pc |-> "accepted", current |-> current, candidate |-> candidate])
    BY <2>5, <2>7, Zenon DEF Verify
  <2>. QED
    BY <2>1, <2>8 DEF Becomes, Idle
<1>. QED
  BY <1>1, TrustInvariantHolds, PTL DEF TrustSpec, LatestIsAccepted
=============================================================================
