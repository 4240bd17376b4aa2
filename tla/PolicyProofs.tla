---------------------------- MODULE PolicyProofs ----------------------------
(***************************************************************************)
(* What holds of versions and of the policy for every pair of versions.    *)
(* The numbers of a version have no bound here, and neither have the sets  *)
(* of releases and flagged versions.                                       *)
(***************************************************************************)
EXTENDS Policy, TLAPS

\* Two versions cannot each come before the other.
LEMMA BeforeAsymmetric ==
    ASSUME NEW a \in Version, NEW b \in Version, Before(a, b)
    PROVE  ~Before(b, a)
BY DEF Version, Before, NumbersBefore, SameNumbers, PreBefore

\* The order of versions chains, across numbers, pre-releases and builds: the
\* releases Between picks form a range, and sorting them is well defined.
THEOREM BeforeTransitive ==
    ASSUME NEW a \in Version, NEW b \in Version, NEW c \in Version,
           Before(a, b), Before(b, c)
    PROVE  Before(a, c)
<1>1. CASE NumbersBefore(a, b)
  <2>1. CASE NumbersBefore(b, c)
    BY <1>1, <2>1 DEF Version, Before, NumbersBefore
  <2>2. CASE SameNumbers(b, c)
    BY <1>1, <2>2 DEF Version, Before, NumbersBefore, SameNumbers
  <2> QED BY <2>1, <2>2 DEF Before
<1>2. CASE SameNumbers(a, b)
  <2>1. CASE NumbersBefore(b, c)
    BY <1>2, <2>1 DEF Version, Before, NumbersBefore, SameNumbers
  <2>2. CASE SameNumbers(b, c) /\ ~NumbersBefore(b, c)
    <3>1. SameNumbers(a, c)
      BY <1>2, <2>2 DEF SameNumbers
    <3>2. ~NumbersBefore(a, b)
      BY <1>2 DEF Version, NumbersBefore, SameNumbers
    <3>3. PreBefore(a, b) \/ (a.pre = b.pre /\ a.build < b.build)
      BY <3>2 DEF Before
    <3>4. PreBefore(b, c) \/ (b.pre = c.pre /\ b.build < c.build)
      BY <2>2 DEF Before
    <3>5. PreBefore(a, c) \/ (a.pre = c.pre /\ a.build < c.build)
      BY <3>3, <3>4 DEF PreBefore, Version
    <3> QED BY <3>1, <3>5 DEF Before
  <2> QED BY <2>1, <2>2 DEF Before
<1> QED BY <1>1, <1>2 DEF Before

\* Comparing the other way round gives the opposite result.
THEOREM CompareReverses ==
    ASSUME NEW a \in Version, NEW b \in Version
    PROVE  Compare(a, b) = -Compare(b, a)
BY BeforeAsymmetric DEF Compare

\* The order is total: two versions compare as equal only when they agree in
\* every field that Parse reads, the build number included.
THEOREM CompareEqual ==
    ASSUME NEW a \in Version, NEW b \in Version, Compare(a, b) = 0
    PROVE  a = b
<1>1. ~Before(a, b) /\ ~Before(b, a)
  BY DEF Compare
<1>2. SameNumbers(a, b)
  BY <1>1 DEF Version, Before, NumbersBefore, SameNumbers
<1>3. a.pre = b.pre
  BY <1>1, <1>2 DEF Version, Before, SameNumbers, PreBefore
<1>4. a.build = b.build
  BY <1>1, <1>2, <1>3 DEF Version, Before, SameNumbers
<1> QED BY <1>2, <1>3, <1>4 DEF Version, SameNumbers

-----------------------------------------------------------------------------
\* When Decide says "update", the step goes up, within one major version, and
\* within one minor version while the major version is 0.
THEOREM UpdateIsSafe ==
    ASSUME NEW policy \in Policies, NEW protected \in BOOLEAN,
           NEW old \in Version \cup {Unknown}, NEW new \in Version \cup {Unknown},
           NEW breaking \in BOOLEAN,
           Decide(policy, protected, [old |-> old, new |-> new, breaking |-> breaking]) = "update"
    PROVE  /\ policy = "auto" /\ ~protected /\ ~breaking
           /\ Parsed(old) /\ Parsed(new)
           /\ Compare(old, new) <= 0
           /\ new.major = old.major
           /\ old.major = 0 => new.minor = old.minor
<1> DEFINE info == [old |-> old, new |-> new, breaking |-> breaking]
<1>1. /\ policy = "auto" /\ ~protected /\ ~info.breaking
      /\ Parsed(info.old) /\ Parsed(info.new)
      /\ Diff(info.old, info.new) \in {"none", "patch", "minor"}
  BY DEF Decide, Policies
<1>2. Diff(old, new) \in {"none", "patch", "minor"} /\ Parsed(old) /\ Parsed(new)
  BY <1>1
<1>3. old \in Version /\ new \in Version
  BY <1>2 DEF Parsed
<1>4. Compare(old, new) \in {-1, 0, 1}
  BY DEF Compare
<1>5. Compare(old, new) <= 0
  BY <1>2, <1>4 DEF Diff
<1>6. CASE Compare(old, new) = 0
  BY <1>1, <1>2, <1>3, <1>5, <1>6, CompareEqual
<1>7. CASE Compare(old, new) < 0
  <2>1. new.major = old.major
    BY <1>2, <1>7 DEF Diff
  <2>2. old.major = 0 => new.minor = old.minor
    BY <1>2, <1>7, <2>1 DEF Diff
  <2> QED BY <1>1, <1>2, <1>5, <2>1, <2>2
<1> QED BY <1>4, <1>5, <1>6, <1>7

\* Classify and Decide agree: an update that describe found not breaking, from
\* one known version to another, is no major step and no downgrade.  So the
\* last branch of Decide is never taken for what describe returns.
THEOREM MajorIsBreaking ==
    ASSUME NEW old \in Version, NEW new \in Version, NEW releases, NEW flagged,
           Parsed(old), Parsed(new),
           ~Classify(old, new, releases, flagged)
    PROVE  /\ Diff(old, new) \in {"none", "patch", "minor"}
           /\ Compare(old, new) <= 0 /\ new.major = old.major
<1>1. Diff(old, new) \notin {"major", "downgrade"}
  BY DEF Classify
<1>2. Compare(old, new) \in {-1, 0, 1}
  BY DEF Compare
<1>3. Diff(old, new) \in Changes
  BY <1>2 DEF Diff, Changes
<1>4. Diff(old, new) \in {"none", "patch", "minor"}
  BY <1>1, <1>3 DEF Changes
<1>5. Compare(old, new) <= 0
  BY <1>1, <1>2 DEF Diff
<1>6. CASE Compare(old, new) = 0
  BY <1>4, <1>5, <1>6, CompareEqual
<1>7. CASE Compare(old, new) < 0
  BY <1>1, <1>4, <1>5, <1>7 DEF Diff
<1> QED BY <1>2, <1>5, <1>6, <1>7

\* Release notes can only make a verdict stricter: with more notes an update
\* that was breaking stays breaking.
THEOREM NotesOnlyAdd ==
    ASSUME NEW old, NEW new, NEW less, NEW more, NEW flagged, less \subseteq more,
           Classify(old, new, Between(less, old, new), flagged)
    PROVE  Classify(old, new, Between(more, old, new), flagged)
<1>1. Between(less, old, new) \subseteq Between(more, old, new)
  BY DEF Between
<1> QED BY <1>1 DEF Classify
=============================================================================
