------------------------------- MODULE Policy -------------------------------
(***************************************************************************)
(* What is said about an available update and what is done with it: the    *)
(* release notes between two versions (internal/changelog/github.go), the  *)
(* breaking verdict (internal/classify/classify.go) and the action that    *)
(* the policy of a container allows (internal/policy/policy.go).           *)
(*                                                                         *)
(* A release is [tag, prerelease, keyword], where keyword says whether its *)
(* text contains one of the words that suggest manual work.  The order of  *)
(* the notes and the wording of the reasons are left out.                  *)
(***************************************************************************)
EXTENDS SemVer

Policies == {"notify", "auto", "never"}
Actions  == {"notify", "update", "skip"}

\* The versions after old, up to new; only new itself when old is unknown.
InRange(v, old, new) ==
    IF Parsed(old)
      THEN Compare(v, old) > 0 /\ Compare(v, new) <= 0
      ELSE Compare(v, new) = 0

\* The releases that an update from old to new brings in.
Between(releases, old, new) ==
    {r \in releases :
       /\ Parsed(new) /\ Parsed(r.tag)
       /\ r.prerelease => new.pre # 0
       /\ InRange(r.tag, old, new)}

\* Whether an update from old to new is breaking, given the release notes in
\* between and the versions that the community mapping flags.
Classify(old, new, releases, flagged) ==
    \/ Parsed(old) /\ Parsed(new) /\ Diff(old, new) \in {"major", "downgrade"}
    \/ Parsed(new) /\ \E f \in flagged : Parsed(f) /\ InRange(f, old, new)
    \/ \E r \in releases : r.keyword

\* The action for one available update, described by its versions and verdict.
Decide(policy, protected, info) ==
    CASE policy = "never" -> "skip"
      [] policy = "auto" /\ ~protected /\ ~info.breaking
           /\ Parsed(info.old) /\ Parsed(info.new)
           /\ Diff(info.old, info.new) \in {"none", "patch", "minor"} -> "update"
      [] OTHER -> "notify"
=============================================================================
