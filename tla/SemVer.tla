------------------------------- MODULE SemVer -------------------------------
(***************************************************************************)
(* Versions of container images, their order and the size of the step      *)
(* between two of them (internal/semver/semver.go).                        *)
(*                                                                         *)
(* A version is what Parse returns.  The suffix of a pre-release is        *)
(* compared as text only, so a suffix is a number here: 0 for none, and    *)
(* larger numbers for suffixes that sort later.  hasRev is only printed,   *)
(* and left out.                                                           *)
(***************************************************************************)
EXTENDS Integers

Version == [major : Nat, minor : Nat, patch : Nat, rev : Nat, build : Nat, pre : Nat]

\* What Parse fails on: no label, or a label that is not a version.
Unknown == [unknown |-> TRUE]

Parsed(v) == v # Unknown

SameNumbers(a, b) ==
    a.major = b.major /\ a.minor = b.minor /\ a.patch = b.patch /\ a.rev = b.rev

\* The first of the four numbers that differs decides.
NumbersBefore(a, b) ==
    \/ a.major < b.major
    \/ a.major = b.major /\ a.minor < b.minor
    \/ a.major = b.major /\ a.minor = b.minor /\ a.patch < b.patch
    \/ a.major = b.major /\ a.minor = b.minor /\ a.patch = b.patch /\ a.rev < b.rev

\* A pre-release comes before its release.
PreBefore(a, b) == a.pre # 0 /\ (b.pre = 0 \/ a.pre < b.pre)

\* The build number only breaks a tie between equal versions.
Before(a, b) ==
    \/ NumbersBefore(a, b)
    \/ SameNumbers(a, b) /\ PreBefore(a, b)
    \/ SameNumbers(a, b) /\ a.pre = b.pre /\ a.build < b.build

Compare(a, b) == IF Before(a, b) THEN -1 ELSE IF Before(b, a) THEN 1 ELSE 0

Changes == {"none", "patch", "minor", "major", "downgrade"}

\* While both are 0.x a minor step counts as major.
Diff(from, to) ==
    CASE Compare(from, to) > 0 -> "downgrade"
      [] Compare(from, to) = 0 -> "none"
      [] Compare(from, to) < 0 /\ to.major # from.major -> "major"
      [] Compare(from, to) < 0 /\ to.major = from.major /\ to.minor # from.minor ->
           IF from.major = 0 THEN "major" ELSE "minor"
      [] OTHER -> "patch"
=============================================================================
