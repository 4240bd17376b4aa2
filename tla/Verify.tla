------------------------------- MODULE Verify -------------------------------
(***************************************************************************)
(* The check of a new container (internal/verify/verify.go) with the       *)
(* window a container is given in its settings                             *)
(* (internal/engine/verifier.go): how long it polls, and what a container  *)
(* may do meanwhile without being rejected.                                *)
(*                                                                         *)
(* The container goes its own way between two polls: it ends, Docker       *)
(* restarts it, its health check begins and decides.  Time is counted in   *)
(* intervals of the poll; a call of Docker takes up to Slack of them.      *)
(*                                                                         *)
(* Left out: the text of reasons.                                          *)
(***************************************************************************)
EXTENDS Integers

CONSTANTS
    Windows,      \* the windows of settings and default, in intervals of the poll
    BaseWindow,   \* the default, for a container whose setting is 0
    MaxRestarts,  \* Check.MaxRestarts
    Slack,        \* bound: how long a call of Docker may take
    MaxDeaths     \* bound: how often the container ends

ASSUME VerifyAssumption ==
    /\ Windows \subseteq Nat /\ BaseWindow \in Windows
    /\ MaxRestarts \in Nat \ {0} /\ Slack \in Nat /\ MaxDeaths \in Nat

VARIABLES
    status,    \* State.Status of the container: created, running, restarting or exited
    health,    \* State.Health.Status, or "none" for a container without a health check
    deaths,    \* how often it has ended; RestartCount, once Docker restarted it
    policy,    \* whether Docker restarts it
    polling,   \* the verifier: its step
    window,    \* Check.Window
    url,       \* whether Check.HTTPURL is set
    spent,     \* time since the verifier began
    calling,   \* how long the call under way has taken
    seen,      \* what the last inspect returned
    verdict    \* the result: "none", "ok" or "fail"

container  == <<status, health, deaths, policy>>
verifyVars == <<container, polling, window, url, spent, calling, seen, verdict>>

Statuses == {"created", "running", "restarting", "exited"}
Healths  == {"none", "starting", "healthy", "unhealthy"}
View     == [status |-> status, health |-> health, restarts |-> deaths]
Unseen   == [status |-> "created", health |-> "none", restarts |-> 0]

VerifyTypeOK ==
    /\ status \in Statuses /\ health \in Healths
    /\ deaths \in 0..MaxDeaths /\ policy \in BOOLEAN
    /\ polling \in {"idle", "inspect", "judge", "sleep", "http", "done"}
    /\ window \in Windows /\ url \in BOOLEAN
    /\ spent \in Nat /\ calling \in 0..Slack
    /\ seen \in [status : Statuses, health : Healths, restarts : 0..MaxDeaths]
    /\ verdict \in {"none", "ok", "fail"}

VerifyInit ==
    /\ status = "created" /\ deaths = 0
    /\ health \in {"none", "starting"} /\ policy \in BOOLEAN
    /\ polling = "idle"
    /\ window = BaseWindow /\ url = FALSE
    /\ spent = 0 /\ calling = 0
    /\ seen = Unseen
    /\ verdict = "none"

-----------------------------------------------------------------------------
(* The container                                                           *)

ContainerRuns ==
    /\ status \in {"created", "restarting"}
    /\ status' = "running"
    /\ health' = IF health = "none" THEN "none" ELSE "starting"
    /\ UNCHANGED <<deaths, policy>>

\* Docker counts the restart and waits a while before it makes it.
ContainerEnds ==
    /\ status = "running" /\ deaths < MaxDeaths
    /\ status' = IF policy THEN "restarting" ELSE "exited"
    /\ deaths' = deaths + 1
    /\ UNCHANGED <<health, policy>>

HealthDecides ==
    /\ status = "running" /\ health \notin {"none"}
    /\ health' \in {"healthy", "unhealthy"}
    /\ UNCHANGED <<status, deaths, policy>>

ContainerStep ==
    /\ polling # "done"
    /\ ContainerRuns \/ ContainerEnds \/ HealthDecides
    /\ UNCHANGED <<polling, window, url, spent, calling, seen, verdict>>

-----------------------------------------------------------------------------
(* The verifier                                                            *)

Verdict(v) == polling' = "done" /\ verdict' = v

\* The settings of the container come on top of the default.
BeginVerify(w, hasUrl) ==
    /\ polling = "idle"
    /\ \/ /\ window' = IF w > 0 THEN w ELSE BaseWindow
          /\ url' = hasUrl
          /\ polling' = "inspect" /\ UNCHANGED verdict
       \/ Verdict("fail") /\ UNCHANGED <<window, url>>
    /\ UNCHANGED <<container, spent, calling, seen>>

\* Time passes while Docker is asked.
CallTakesTime ==
    /\ polling = "inspect" /\ calling < Slack
    /\ calling' = calling + 1 /\ spent' = spent + 1
    /\ UNCHANGED <<container, polling, window, url, seen, verdict>>

Inspect ==
    /\ polling = "inspect"
    /\ \/ seen' = View /\ polling' = "judge" /\ UNCHANGED verdict
       \/ Verdict("fail") /\ UNCHANGED seen
    /\ calling' = 0
    /\ UNCHANGED <<container, window, url, spent>>

Rejected == \/ seen.restarts >= MaxRestarts
            \/ seen.status = "exited"
            \/ seen.health = "unhealthy"

Accepts == IF url THEN polling' = "http" /\ UNCHANGED verdict ELSE Verdict("ok")

\* Mutant: a container that restarts gets another window.
JudgeWaits ==
    /\ polling = "judge"
    /\ CASE Rejected -> Verdict("fail")
         [] ~Rejected /\ seen.health = "healthy" -> Accepts
         [] ~Rejected /\ seen.health # "healthy" /\ spent > window /\ seen.status = "running" ->
              IF seen.health = "none" THEN Accepts ELSE Verdict("fail")
         [] OTHER -> polling' = "sleep" /\ UNCHANGED verdict
    /\ UNCHANGED <<container, window, url, spent, calling, seen>>

\* A container with a health check must become healthy; without one it is
\* enough that it was not rejected when the window is over.
Judge ==
    /\ polling = "judge"
    /\ CASE Rejected -> Verdict("fail")
         [] ~Rejected /\ seen.health = "healthy" -> Accepts
         [] ~Rejected /\ seen.health # "healthy" /\ spent > window ->
              IF seen.health = "none" THEN Accepts ELSE Verdict("fail")
         [] OTHER -> polling' = "sleep" /\ UNCHANGED verdict
    /\ UNCHANGED <<container, window, url, spent, calling, seen>>

\* A signal cancels the context of a scheduled update.
Sleep ==
    /\ polling = "sleep"
    /\ \/ spent' = spent + 1 /\ polling' = "inspect" /\ UNCHANGED verdict
       \/ Verdict("fail") /\ UNCHANGED spent
    /\ UNCHANGED <<container, window, url, calling, seen>>

CheckHTTP ==
    /\ polling = "http"
    /\ \E v \in {"ok", "fail"} : Verdict(v)
    /\ UNCHANGED <<container, window, url, spent, calling, seen>>

VerifyNext ==
    \/ \E w \in Windows \cup {0}, hasUrl \in BOOLEAN : BeginVerify(w, hasUrl)
    \/ ContainerStep \/ CallTakesTime \/ Inspect \/ Judge \/ Sleep \/ CheckHTTP

VerifySpec == VerifyInit /\ [][VerifyNext]_verifyVars

-----------------------------------------------------------------------------
(* Properties                                                              *)

\* The verdict comes in time: the container polls no longer than its window, one
\* interval and the call that was under way, whatever the container does.
VerdictInTime == spent <= window + 1 + Slack
=============================================================================
