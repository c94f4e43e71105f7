----------------------------- MODULE IgnoreEngine -----------------------------
(***************************************************************************)
(* The ordered ignore engine (packages/evidence/src/ignore-engine.ts).     *)
(*                                                                         *)
(* applyIgnoreRules collects patterns from four kinds of sources, reads    *)
(* the .gitignore files of a repository without an index from the root to  *)
(* the leaves, and decides for every path whether a rule excludes it or a  *)
(* directory above it.  Rules are kept in one list, with a rank for their  *)
(* source and a running number.                                            *)
(*                                                                         *)
(* A path is a sequence of names.  A pattern is what makeRule makes of a   *)
(* line: its components are names, "*" or, in a pattern with a slash,      *)
(* "**".  Comments, empty and invalid lines never match and are left out.  *)
(***************************************************************************)
EXTENDS Naturals, Sequences, SequencesExt, FiniteSets, FiniteSetsExt

CONSTANTS IgnoreFiles,         \* the directories that hold a .gitignore
          Candidates,          \* the paths of the enumeration
          IgnorePatterns,      \* the patterns of .gitignore files
          PolicyPatterns,      \* the patterns of configuration and profile facts
          BuiltInPatterns,     \* BUILT_IN_IGNORE_PATTERNS, a sequence
          MaxLines,            \* bound: lines of the .gitignore in the root; others have one at most
          MaximumPatterns      \* limits.maximumPatterns

(* The names in the paths, and the patterns that rules are made of. *)
Names == UNION {Range(p) : p \in Candidates \cup IgnoreFiles}
Patterns == IgnorePatterns \cup PolicyPatterns \cup Range(BuiltInPatterns)

(* A pattern has a component at least; the built-in ones have no "**". *)
ASSUME IgnoreAssumption ==
  /\ MaxLines \in Nat /\ MaximumPatterns \in Nat
  /\ Candidates \cup IgnoreFiles \subseteq Seq(Names) /\ <<>> \notin Candidates
  /\ BuiltInPatterns \in Seq(Patterns)
  /\ \A p \in Patterns : p.components \in Seq(Range(p.components)) \ {<<>>}
  /\ \A p \in Range(BuiltInPatterns) : "**" \notin Range(p.components)

VARIABLES gitignore,    \* directory -> the lines of its .gitignore
          policy,       \* configuration and known-active profile patterns, fallback
          rules,        \* the rules so far, in the order of their numbers
          pending,      \* the directories whose .gitignore is still to be considered
          readIgnores,  \* the directories whose .gitignore was read
          ignoreAt,     \* "idle", "reading", "returned" or "failed"
          excludedPaths \* the result

ignoreVars == <<gitignore, policy, rules, pending, readIgnores, ignoreAt, excludedPaths>>

SourceRank == [gitignore |-> 1, profile |-> 2, configuration |-> 3, builtIn |-> 4]
NoPolicy == [configuration |-> <<>>, profile |-> <<>>, fallback |-> FALSE]

IgnoreInit ==
  /\ gitignore = [d \in IgnoreFiles |-> <<>>]
  /\ policy = NoPolicy /\ rules = <<>> /\ pending = {} /\ readIgnores = {}
  /\ ignoreAt = "idle" /\ excludedPaths = {}

-----------------------------------------------------------------------------
(* Patterns *)
ComponentMatches(component, name) == component \in {"*", name}

TrailingGlobstar(p) ==
  p.hasSlash /\ Len(p.components) > 1 /\ Last(p.components) = "**"

NextRow(row, component, path) ==
  IF component = "**" THEN {k \in 0 .. Len(path) : \E j \in row : j <= k}
  ELSE {k \in 1 .. Len(path) : k - 1 \in row /\ ComponentMatches(component, path[k])}

(* The rows of the matching table, each as the set of prefixes of the path, by length, that
   the components so far can match. *)
Rows(components, path) ==
  LET row[i \in 0 .. Len(components)] ==
        IF i = 0 THEN {0} ELSE NextRow(row[i - 1], components[i], path)
  IN row

CompiledMatches(p, path) ==
  IF ~p.hasSlash THEN ComponentMatches(p.components[1], Last(path))
  ELSE /\ TrailingGlobstar(p) => Len(path) >= Len(p.components)
       /\ Len(path) \in Rows(p.components, path)[Len(p.components)]

RelativeToBase(path, base) == SubSeq(path, Len(base) + 1, Len(path))

(* The rules that match a path, as numbers. *)
MatchingRules(path, directory, list) ==
  {n \in DOMAIN list :
     /\ list[n].pattern.directoryOnly => directory
     /\ IsStrictPrefix(list[n].base, path)
     /\ CompiledMatches(list[n].pattern, RelativeToBase(path, list[n].base))}

(* The rule of the highest rank, and of these the last. *)
MatchingRule(path, directory, list) ==
  LET matching == MatchingRules(path, directory, list)
      Over(n, m) == list[n].rank > list[m].rank \/ (list[n].rank = list[m].rank /\ n >= m)
  IN {n \in matching : \A m \in matching : Over(n, m)}

Excludes(path, directory, list) ==
  \E n \in MatchingRule(path, directory, list) : ~list[n].pattern.negative

(* Faulty variant: only the path itself is tried. *)
ExcludedByItself(path, file, list) == Excludes(path, ~file, list)

(* excludedBy: a directory above the path decides before the path itself. *)
ExcludedBy(path, file, list) ==
  \/ \E depth \in 1 .. Len(path) - (IF file THEN 1 ELSE 0) :
       Excludes(SubSeq(path, 1, depth), TRUE, list)
  \/ file /\ Excludes(path, FALSE, list)

-----------------------------------------------------------------------------
RulesOf(lines, rank, base) ==
  [i \in DOMAIN lines |-> [pattern |-> lines[i], rank |-> rank, base |-> base]]

(* addRule, for several lines: one too many fails the call. *)
AddRules(added) ==
  IF Len(rules) + Len(added) > MaximumPatterns
    THEN ignoreAt' = "failed" /\ UNCHANGED rules
    ELSE ignoreAt' = "reading" /\ rules' = rules \o added

(* What the .gitignore files may hold. *)
Gitignores ==
  {g \in [IgnoreFiles -> BoundedSeq(IgnorePatterns, MaxLines)] :
     \A d \in IgnoreFiles : d # <<>> => Len(g[d]) <= 1}

(* The call: built-in patterns, configuration and profile facts come first.  Without a
   fallback the paths are tracked and no .gitignore counts. *)
CollectPolicy ==
  /\ ignoreAt = "idle"
  /\ \E configuration, profile \in BoundedSeq(PolicyPatterns, 1), fallback \in BOOLEAN :
       policy' = [configuration |-> configuration, profile |-> profile, fallback |-> fallback]
  /\ gitignore' \in Gitignores
  /\ AddRules(RulesOf(BuiltInPatterns, SourceRank.builtIn, <<>>)
                \o RulesOf(policy'.configuration, SourceRank.configuration, <<>>)
                \o RulesOf(policy'.profile, SourceRank.profile, <<>>))
  /\ pending' = IF policy'.fallback THEN IgnoreFiles ELSE {}
  /\ UNCHANGED <<readIgnores, excludedPaths>>

(* The next .gitignore, from the root to the leaves. *)
NextIgnore == {d \in pending : \A e \in pending : Len(d) <= Len(e)}

(* One .gitignore: skipped below an excluded directory, skipped with a problem when it
   cannot be read or is a link, or read; what is changed meanwhile fails the call. *)
ReadIgnoreFile(d) ==
  /\ ignoreAt = "reading" /\ d \in NextIgnore
  /\ pending' = pending \ {d}
  /\ IF d # <<>> /\ ExcludedBy(d, FALSE, rules)
       THEN UNCHANGED <<gitignore, rules, readIgnores, ignoreAt>>
       ELSE \/ /\ readIgnores' = readIgnores \cup {d}
               /\ AddRules(RulesOf(gitignore[d], SourceRank.gitignore, d))
               /\ UNCHANGED gitignore
            \/ /\ gitignore' = [gitignore EXCEPT ![d] = <<>>]
               /\ UNCHANGED <<rules, readIgnores, ignoreAt>>
            \/ ignoreAt' = "failed" /\ UNCHANGED <<gitignore, rules, readIgnores>>
  /\ UNCHANGED <<policy, excludedPaths>>

Decide ==
  /\ ignoreAt = "reading" /\ pending = {}
  /\ excludedPaths' = {p \in Candidates : ExcludedBy(p, TRUE, rules)}
  /\ ignoreAt' = "returned"
  /\ UNCHANGED <<gitignore, policy, rules, pending, readIgnores>>

IgnoreNext == CollectPolicy \/ (\E d \in IgnoreFiles : ReadIgnoreFile(d)) \/ Decide

IgnoreSpec == IgnoreInit /\ [][IgnoreNext]_ignoreVars

-----------------------------------------------------------------------------
(* What gitignore(5) says of a pattern: the components cover the path in order, a name
   or "*" one name, "**" any number of them, at its end one at least. *)
GitMatches(p, path) ==
  LET n == Len(p.components)
  IN IF ~p.hasSlash THEN ComponentMatches(p.components[1], Last(path))
     ELSE \E cut \in [0 .. n -> 0 .. Len(path)] :
            /\ cut[0] = 0 /\ cut[n] = Len(path)
            /\ \A i \in 1 .. n :
                 IF p.components[i] = "**" THEN cut[i] >= cut[i - 1] + (IF i = n THEN 1 ELSE 0)
                 ELSE cut[i] = cut[i - 1] + 1 /\ ComponentMatches(p.components[i], path[cut[i]])

(* Lists of patterns for a path, the one that decides first: linter policy, then the
   .gitignore files from the deepest to the root. *)
Layers(path) ==
  LET git == IF policy.fallback
             THEN [i \in 1 .. Len(path) |->
                     LET d == SubSeq(path, 1, Len(path) - i)
                     IN [base |-> d, lines |-> IF d \in IgnoreFiles THEN gitignore[d] ELSE <<>>]]
             ELSE <<>>
      root(lines) == [base |-> <<>>, lines |-> lines]
  IN <<root(BuiltInPatterns), root(policy.configuration), root(policy.profile)>> \o git

(* The last pattern that matches, in the first list where one does. *)
GitVerdict(path, directory) ==
  LET layers == Layers(path)
      hits == {h \in (1 .. Len(layers)) \X (1 .. MaximumPatterns) :
                 /\ h[2] \in DOMAIN layers[h[1]].lines
                 /\ layers[h[1]].lines[h[2]].directoryOnly => directory
                 /\ GitMatches(layers[h[1]].lines[h[2]], RelativeToBase(path, layers[h[1]].base))}
      first == {h \in hits : \A g \in hits : h[1] < g[1] \/ (h[1] = g[1] /\ h[2] >= g[2])}
  IN \E h \in first : ~layers[h[1]].lines[h[2]].negative

(* A path is ignored with the first directory above it that is. *)
GitIgnores(path) ==
  \E depth \in 1 .. Len(path) : GitVerdict(SubSeq(path, 1, depth), depth < Len(path))

(* A trailing "**" next to another one: where the engine does not follow the grammar. *)
TwoGlobstars(p) == TrailingGlobstar(p) /\ \E i \in 1 .. Len(p.components) - 1 : p.components[i] = "**"

PatternsInForce ==
  Range(policy.configuration) \cup Range(policy.profile) \cup UNION {Range(gitignore[d]) : d \in IgnoreFiles}

(* No .gitignore below an ignored directory is read. *)
ReadsOutsideIgnored ==
  \A d \in readIgnores :
    (\A p \in PatternsInForce : ~TwoGlobstars(p)) =>
      ~(\E depth \in 1 .. Len(d) : GitVerdict(SubSeq(d, 1, depth), TRUE))

(* The flat, numbered list of rules decides every path as the layers of sources and of
   .gitignore files do, with parents first and the last match winning, whatever was
   skipped or could not be read on the way, and reads nothing below an ignored directory;
   patterns with a second "**" excepted. *)
DecisionsFollowGit ==
  /\ ReadsOutsideIgnored
  /\ ignoreAt = "returned" /\ ~(\E p \in PatternsInForce : TwoGlobstars(p)) =>
       excludedPaths = {p \in Candidates : GitIgnores(p)}

(* Repository patterns have the meaning Git's documentation gives them. *)
GrammarIsGits ==
  ignoreAt = "returned" => excludedPaths = {p \in Candidates : GitIgnores(p)}
=============================================================================
