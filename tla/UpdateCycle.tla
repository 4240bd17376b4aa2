---------------------------- MODULE UpdateCycle ----------------------------
(***************************************************************************)
(* The cycle of checks and updates: the scheduler                          *)
(* (internal/scheduler/scheduler.go), the checks and updates of the engine *)
(* (internal/engine/engine.go), the jobs that the API starts for the user  *)
(* (internal/api/updates.go and jobs.go) and the tables they share         *)
(* (internal/store).                                                       *)
(*                                                                         *)
(* They run concurrently: the scheduler, at most one check job and at most *)
(* one job per container.  Updates take the engine's mutex; checks do not. *)
(* Each step is one call to the registry, to Docker or to the database, so *)
(* that another process may come in between any two of them.               *)
(*                                                                         *)
(* An image is its digest.  The replacement of a container is one step     *)
(* here, with the outcomes that RunUpdate explains.                        *)
(*                                                                         *)
(* Left out: the removal of old images, containers that come and go, and   *)
(* database errors.                                                        *)
(***************************************************************************)
EXTENDS Policy, FiniteSets

CONSTANTS
    Containers,    \* the containers, by name
    Protected,     \* those whose image is a database or socket proxy
    Digests,       \* the images the registry may serve
    None,          \* no digest, no container
    VersionOf,     \* the version label of each digest, or Unknown
    Releases,      \* the releases on GitHub
    Flagged,       \* the versions the community mapping flags
    MaxPublishes,  \* bound: images published
    MaxRequests,   \* bound: requests of the user
    MaxOutages,    \* bound: calls to the registry or GitHub that fail
    MaxCrashes     \* bound: crashes of the process

ASSUME DigestsAssumption ==
    /\ None \notin Digests /\ None \notin Containers
    /\ VersionOf \in [Digests -> Version \cup {Unknown}]
    /\ Protected \subseteq Containers
ASSUME KeysAssumption == Containers \cap {"sched", "check", "free"} = {}
ASSUME LimitsAssumption == {MaxPublishes, MaxRequests, MaxOutages, MaxCrashes} \subseteq Nat

VARIABLES
    remote,     \* remote[c]: what the registry serves for c
    running,    \* running[c]: what c runs
    previous,   \* previous[c]: what the last update of c in the history replaced
    policy,     \* policy[c]: table container_settings
    available,  \* available[c]: the remote digest in table available
    info,       \* info[c]: the row of c in table available_info
    seen,       \* seen[c]: table seen, for "available" and "attempted"
    mu,         \* the process that holds Engine.mu
    pc,         \* where each process is
    loc,        \* the local variables of each process
    told,       \* history: the digest last announced, and how often in a row
    everTold,   \* history: the digests announced
    tried,      \* history: the digest last chosen for an attempt, and how often tried
    rejected,   \* history: digests that an automatic update pulled and undid
    quiet,      \* history: nothing came between since the scheduler's check began
    used        \* what the environment has done so far, against its bounds

tables  == <<previous, policy, available, info, seen>>
ghosts  == <<told, everTold, tried, rejected, quiet>>
vars    == <<remote, running, tables, mu, pc, loc, ghosts, used>>

\* The scheduler, the check job, and a job for each container: the keys of Jobs.
Procs    == {"sched", "check"} \cup Containers
Updaters == {"sched"} \cup Containers

Pcs == {"idle", "scan", "describe", "save_info", "list", "read_info", "next", "announce",
        "mark", "attempt", "lock", "pull", "replace", "record", "remove"}

Rows     == [Containers -> Digests \cup {None}]
NoRows   == [c \in Containers |-> None]
InfoRows == [old : Version \cup {Unknown}, new : Version \cup {Unknown}, breaking : BOOLEAN]
NoInfo   == [old |-> Unknown, new |-> Unknown, breaking |-> FALSE]
Outcomes == {"unchanged", "ok", "rolled_back", "failed"}

\* The local variables of Check (at: the digests Discover saw; todo, cur, out,
\* infos), RunOnce (todo, cur, out, infos) and Update and Rollback (kind, cur,
\* from, got, outcome).
Fresh == [todo |-> {}, cur |-> None, at |-> NoRows, out |-> NoRows, infos |-> NoRows,
          kind |-> "update", from |-> None, got |-> None, outcome |-> "failed"]

TypeOK ==
    /\ remote \in [Containers -> Digests] /\ running \in [Containers -> Digests]
    /\ previous \in Rows /\ available \in Rows
    /\ policy \in [Containers -> Policies]
    /\ \A c \in Containers : info[c] = None \/ info[c] \in InfoRows
    /\ seen \in [Containers -> [available : Digests \cup {None}, attempted : Digests \cup {None}]]
    /\ mu \in {"free"} \cup Updaters
    /\ pc \in [Procs -> Pcs]
    /\ \A p \in Procs :
         /\ loc[p].todo \subseteq Containers
         /\ loc[p].cur \in Containers \cup {None}
         /\ {loc[p].from, loc[p].got} \subseteq Digests \cup {None}
         /\ loc[p].kind \in {"update", "rollback"} /\ loc[p].outcome \in Outcomes
         /\ {loc[p].at, loc[p].out} \subseteq Rows
         /\ pc[p] \in {"replace", "record", "remove"} => {loc[p].from, loc[p].got} \subseteq Digests
    /\ quiet \in BOOLEAN

Init ==
    /\ remote \in [Containers -> Digests]
    /\ running = remote
    /\ previous = NoRows
    /\ policy \in [Containers -> Policies]
    /\ available = NoRows /\ info = NoRows
    /\ seen = [c \in Containers |-> [available |-> None, attempted |-> None]]
    /\ mu = "free"
    /\ pc = [p \in Procs |-> "idle"]
    /\ loc = [p \in Procs |-> Fresh]
    /\ told = [c \in Containers |-> [digest |-> None, times |-> 0]]
    /\ tried = [c \in Containers |-> [digest |-> None, times |-> 0]]
    /\ everTold = [c \in Containers |-> {}]
    /\ rejected = [c \in Containers |-> {}]
    /\ quiet = TRUE
    /\ used = [publishes |-> 0, requests |-> 0, outages |-> 0, crashes |-> 0]

-----------------------------------------------------------------------------
(* The environment                                                         *)

Spend(what, limit) == used[what] < limit /\ used' = [used EXCEPT ![what] = @ + 1]

\* A new image, or an old one again, appears under the reference of c.
Publish(c, d) ==
    /\ Spend("publishes", MaxPublishes)
    /\ d # remote[c]
    /\ remote' = [remote EXCEPT ![c] = d]
    /\ quiet' = FALSE
    /\ UNCHANGED <<running, tables, mu, pc, loc, told, everTold, tried, rejected>>

\* handleSaveSettings: the user sets a policy.
SetPolicy(c, value) ==
    /\ Spend("requests", MaxRequests)
    /\ value # policy[c]
    /\ policy' = [policy EXCEPT ![c] = value]
    /\ quiet' = FALSE
    /\ UNCHANGED <<remote, running, previous, available, info, seen, mu, pc, loc,
                   told, everTold, tried, rejected>>

\* The process dies and starts again.  A replacement under way is finished or
\* undone before anything else happens: RunUpdate shows how.
Crash ==
    /\ Spend("crashes", MaxCrashes)
    /\ mu' = "free"
    /\ pc' = [p \in Procs |-> "idle"]
    /\ loc' = [p \in Procs |-> Fresh]
    /\ UNCHANGED <<remote, running, tables, ghosts>>

-----------------------------------------------------------------------------
(* Engine.Check, by the scheduler or by the check job                      *)

Goto(p, l)     == pc' = [pc EXCEPT ![p] = l]
SetLoc(p, new) == loc' = [loc EXCEPT ![p] = new]

\* Discover, for the ticker of Run, or for handleCheck when none is running.
BeginCheck(p) ==
    /\ pc[p] = "idle"
    /\ IF p = "sched" THEN UNCHANGED used ELSE Spend("requests", MaxRequests)
    /\ Goto(p, "scan")
    /\ SetLoc(p, [Fresh EXCEPT !.todo = Containers, !.at = running])
    /\ quiet' = (quiet \/ p = "sched")
    /\ UNCHANGED <<remote, running, tables, mu, told, everTold, tried, rejected>>

\* Compare the digest c ran with the one the registry serves; when the registry
\* does not answer, c is left out.
CompareDigests(p, c, answers) ==
    /\ pc[p] = "scan"
    /\ c \in loc[p].todo
    /\ IF answers THEN UNCHANGED used ELSE Spend("outages", MaxOutages)
    /\ IF answers /\ remote[c] # loc[p].at[c]
         THEN /\ SetLoc(p, [loc[p] EXCEPT !.todo = @ \ {c}, !.cur = c, !.out[c] = remote[c]])
              /\ Goto(p, "describe")
         ELSE /\ SetLoc(p, [loc[p] EXCEPT !.todo = @ \ {c}])
              /\ UNCHANGED pc
    /\ UNCHANGED <<remote, running, tables, mu, ghosts>>

\* What describe finds out about an update of an image to another one.
InfoFor(old, new, releases) ==
    [old |-> old, new |-> new,
     breaking |-> Classify(old, new, Between(releases, old, new), Flagged)]

\* describe asks the registry again, by tag, for the labels, and GitHub for the
\* release notes; either may fail, and the update is described without.
Describe(p, labels, notes) ==
    LET c   == loc[p].cur
        old == VersionOf[loc[p].at[c]]
        new == IF labels THEN VersionOf[remote[c]] ELSE Unknown
    IN  /\ pc[p] = "describe"
        /\ IF labels /\ notes THEN UNCHANGED used ELSE Spend("outages", MaxOutages)
        /\ SetLoc(p, [loc[p] EXCEPT !.infos[c] = InfoFor(old, new, IF notes THEN Releases ELSE {})])
        /\ Goto(p, "scan")
        /\ quiet' = (quiet /\ (notes \/ p = "check"))
        /\ UNCHANGED <<remote, running, tables, mu, told, everTold, tried, rejected>>

\* Mutant: a container that is up to date keeps its row.
SaveAvailableMerges(p) ==
    /\ pc[p] = "scan"
    /\ loc[p].todo = {}
    /\ available' = [c \in Containers |->
                       IF loc[p].out[c] = None THEN available[c] ELSE loc[p].out[c]]
    /\ Goto(p, "save_info")
    /\ UNCHANGED <<remote, running, previous, policy, info, seen, mu, loc, ghosts, used>>

\* ReplaceAvailable and ReplaceInfo are two transactions.
SaveAvailable(p) ==
    /\ pc[p] = "scan"
    /\ loc[p].todo = {}
    /\ available' = loc[p].out
    /\ SetLoc(p, [Fresh EXCEPT !.infos = loc[p].infos])
    /\ Goto(p, "save_info")
    /\ quiet' = (quiet /\ p = "sched")
    /\ UNCHANGED <<remote, running, previous, policy, info, seen, mu,
                   told, everTold, tried, rejected, used>>

\* Mutant: a row that exists is not overwritten.
SaveInfoKeeps(p) ==
    /\ pc[p] = "save_info"
    /\ info' = [c \in Containers |-> IF info[c] = None THEN loc[p].infos[c] ELSE info[c]]
    /\ SetLoc(p, Fresh)
    /\ Goto(p, IF p = "sched" THEN "list" ELSE "idle")
    /\ quiet' = (quiet /\ p = "sched")
    /\ UNCHANGED <<remote, running, previous, policy, available, seen, mu,
                   told, everTold, tried, rejected, used>>

\* The check job ends here: it does not use what Check returns.
SaveInfo(p) ==
    /\ pc[p] = "save_info"
    /\ info' = loc[p].infos
    /\ SetLoc(p, Fresh)
    /\ Goto(p, IF p = "sched" THEN "list" ELSE "idle")
    /\ quiet' = (quiet /\ p = "sched")
    /\ UNCHANGED <<remote, running, previous, policy, available, seen, mu,
                   told, everTold, tried, rejected, used>>

-----------------------------------------------------------------------------
(* RunOnce, once Check has saved its result                                *)

\* ListAvailable, the result of Check: the table, not what this check found.
List ==
    /\ pc["sched"] = "list"
    /\ SetLoc("sched", [Fresh EXCEPT !.out = available])
    /\ Goto("sched", "read_info")
    /\ UNCHANGED <<remote, running, tables, mu, ghosts, used>>

ReadInfo ==
    /\ pc["sched"] = "read_info"
    /\ SetLoc("sched", [loc["sched"] EXCEPT !.infos = info,
                          !.todo = {c \in Containers : loc["sched"].out[c] # None}])
    /\ Goto("sched", "next")
    /\ UNCHANGED <<remote, running, tables, mu, ghosts, used>>

\* The action for c, after Decide and what was done before.  A container with
\* no row in available_info has the zero Info.  Only this process writes seen.
ActionFor(c) ==
    LET row    == loc["sched"].infos[c]
        digest == loc["sched"].out[c]
        action == Decide(policy[c], c \in Protected, IF row = None THEN NoInfo ELSE row)
    IN  CASE action = "notify" /\ seen[c].available # digest -> "announce"
          [] action = "update" /\ seen[c].attempted # digest -> "attempt"
          [] OTHER -> "next"

\* Mutant: an update is marked as announced without telling anybody.
DecideForMarksOnly(c) ==
    /\ pc["sched"] = "next"
    /\ c \in loc["sched"].todo
    /\ SetLoc("sched", [loc["sched"] EXCEPT !.todo = @ \ {c}, !.cur = c])
    /\ Goto("sched", IF ActionFor(c) = "announce" THEN "mark" ELSE ActionFor(c))
    /\ UNCHANGED <<remote, running, tables, mu, ghosts, used>>

\* The next container; their order does not matter.
DecideFor(c) ==
    /\ pc["sched"] = "next"
    /\ c \in loc["sched"].todo
    /\ SetLoc("sched", [loc["sched"] EXCEPT !.todo = @ \ {c}, !.cur = c])
    /\ Goto("sched", ActionFor(c))
    /\ UNCHANGED <<remote, running, tables, mu, ghosts, used>>

EndCycle ==
    /\ pc["sched"] = "next"
    /\ loc["sched"].todo = {}
    /\ Goto("sched", "idle")
    /\ SetLoc("sched", Fresh)
    /\ UNCHANGED <<remote, running, tables, mu, ghosts, used>>

\* How often in a row the same digest.
Again(run, d) == [digest |-> d, times |-> IF run.digest = d THEN run.times + 1 ELSE 1]

\* announce tells the user first and records it second.
Announce ==
    LET c == loc["sched"].cur
        d == loc["sched"].out[c]
    IN  /\ pc["sched"] = "announce"
        /\ told' = [told EXCEPT ![c] = Again(told[c], d)]
        /\ everTold' = [everTold EXCEPT ![c] = @ \cup {d}]
        /\ Goto("sched", "mark")
        /\ UNCHANGED <<remote, running, tables, mu, loc, tried, rejected, quiet, used>>

\* Done with one container: the scheduler goes on to the next, a job is over.
Return(u) ==
    /\ Goto(u, IF u = "sched" THEN "next" ELSE "idle")
    /\ SetLoc(u, IF u = "sched"
                   THEN [Fresh EXCEPT !.todo = loc[u].todo, !.out = loc[u].out, !.infos = loc[u].infos]
                   ELSE Fresh)

\* Mutant: the announcement is recorded under the wrong kind.
MarkAnnouncedWrong ==
    /\ pc["sched"] = "mark"
    /\ seen' = [seen EXCEPT ![loc["sched"].cur].attempted = loc["sched"].out[loc["sched"].cur]]
    /\ Return("sched")
    /\ UNCHANGED <<remote, running, previous, policy, available, info, mu, ghosts, used>>

MarkAnnounced ==
    /\ pc["sched"] = "mark"
    /\ seen' = [seen EXCEPT ![loc["sched"].cur].available = loc["sched"].out[loc["sched"].cur]]
    /\ Return("sched")
    /\ UNCHANGED <<remote, running, previous, policy, available, info, mu, ghosts, used>>

\* History: the digest chosen for an attempt, and how often it was tried in a row.
Chosen == [tried EXCEPT ![loc["sched"].cur] =
             IF @.digest = loc["sched"].out[loc["sched"].cur] THEN @
             ELSE [digest |-> loc["sched"].out[loc["sched"].cur], times |-> 0]]

\* Mutant: the attempt is recorded only when it succeeded, so not here.
MarkAttemptedLater ==
    /\ pc["sched"] = "attempt"
    /\ Goto("sched", "lock")
    /\ tried' = Chosen
    /\ UNCHANGED <<remote, running, tables, mu, loc, told, everTold, rejected, quiet, used>>

\* apply records the attempt first and tries second.
MarkAttempted ==
    /\ pc["sched"] = "attempt"
    /\ seen' = [seen EXCEPT ![loc["sched"].cur].attempted = loc["sched"].out[loc["sched"].cur]]
    /\ Goto("sched", "lock")
    /\ tried' = Chosen
    /\ UNCHANGED <<remote, running, previous, policy, available, info, mu, loc,
                   told, everTold, rejected, quiet, used>>

-----------------------------------------------------------------------------
(* Engine.Update and Engine.Rollback, by the scheduler or by a job          *)

\* handleApply and handleRollback: one job per container at a time.
StartJob(c, kind) ==
    /\ Spend("requests", MaxRequests)
    /\ pc[c] = "idle"
    /\ SetLoc(c, [Fresh EXCEPT !.cur = c, !.kind = kind])
    /\ Goto(c, "lock")
    /\ UNCHANGED <<remote, running, tables, mu, ghosts>>

\* Mutant: the engine has no mutex.
LockNothing(u) ==
    LET c == loc[u].cur
    IN  /\ pc[u] = "lock"
        /\ loc[u].kind = "update"
        /\ SetLoc(u, [loc[u] EXCEPT !.from = running[c]])
        /\ Goto(u, "pull")
        /\ UNCHANGED <<remote, running, tables, mu, ghosts, used>>

\* Mutant: a rollback goes ahead when no earlier update is recorded.
LockBlindly(u) ==
    LET c == loc[u].cur
    IN  /\ pc[u] = "lock"
        /\ mu = "free"
        /\ mu' = u
        /\ IF loc[u].kind = "update"
             THEN /\ SetLoc(u, [loc[u] EXCEPT !.from = running[c]])
                  /\ Goto(u, "pull")
             ELSE /\ SetLoc(u, [loc[u] EXCEPT !.from = running[c], !.got = previous[c]])
                  /\ Goto(u, "replace")
        /\ UNCHANGED <<remote, running, tables, ghosts, used>>

\* Take the mutex and see what c runs.  A rollback takes the image the last
\* update replaced, tags it and skips the pull.  It fails with no such image, or
\* when that update is not among the last 200 rows of the history.
Lock(u) ==
    LET c    == loc[u].cur
        back == loc[u].kind = "rollback"
    IN  /\ pc[u] = "lock"
        /\ mu = "free"
        /\ \/ back /\ Return(u) /\ UNCHANGED mu
           \/ /\ back => previous[c] # None
              /\ mu' = u
              /\ SetLoc(u, [loc[u] EXCEPT !.from = running[c],
                                          !.got = IF back THEN previous[c] ELSE None])
              /\ Goto(u, IF back THEN "replace" ELSE "pull")
        /\ tried' = IF u = "sched" THEN [tried EXCEPT ![c].times = tried[c].times + 1] ELSE tried
        /\ UNCHANGED <<remote, running, tables, told, everTold, rejected, quiet, used>>

\* Mutant: an early return forgets the mutex.
PullKeepsLock(u, answers) ==
    /\ pc[u] = "pull"
    /\ IF answers
         THEN /\ SetLoc(u, [loc[u] EXCEPT !.got = remote[loc[u].cur]])
              /\ Goto(u, "replace") /\ UNCHANGED <<mu, used>>
         ELSE /\ Spend("outages", MaxOutages)
              /\ Return(u) /\ UNCHANGED mu
    /\ UNCHANGED <<remote, running, tables, ghosts>>

\* The pull is by tag: it gets what the registry serves now.
Pull(u, answers) ==
    /\ pc[u] = "pull"
    /\ IF answers
         THEN /\ SetLoc(u, [loc[u] EXCEPT !.got = remote[loc[u].cur]])
              /\ Goto(u, "replace") /\ UNCHANGED <<mu, used>>
         ELSE /\ Spend("outages", MaxOutages)
              /\ Return(u) /\ mu' = "free"
    /\ UNCHANGED <<remote, running, tables, ghosts>>

\* Replace the container, as RunUpdate does; a failure may leave either image.
Replace(u, outcome, left) ==
    LET c == loc[u].cur
    IN  /\ pc[u] = "replace"
        /\ (outcome = "unchanged") <=> (loc[u].got = loc[u].from)
        /\ left = (CASE outcome = "ok" -> loc[u].got
                     [] outcome \in {"unchanged", "rolled_back"} -> running[c]
                     [] OTHER -> left)
        /\ left \in {running[c], loc[u].got}
        /\ running' = [running EXCEPT ![c] = left]
        /\ SetLoc(u, [loc[u] EXCEPT !.outcome = outcome])
        /\ Goto(u, "record")
        /\ rejected' = IF u = "sched" /\ outcome \in {"rolled_back", "failed"}
                         THEN [rejected EXCEPT ![c] = @ \cup {loc[u].got}] ELSE rejected
        /\ quiet' = (quiet /\ u = "sched")
        /\ UNCHANGED <<remote, tables, mu, told, everTold, tried, used>>

\* AddHistory: the last successful change of image is what a rollback undoes.
Record(u) ==
    /\ pc[u] = "record"
    /\ previous' = IF loc[u].outcome = "ok"
                     THEN [previous EXCEPT ![loc[u].cur] = loc[u].from] ELSE previous
    /\ IF loc[u].kind = "update" /\ loc[u].outcome \in {"ok", "unchanged"}
         THEN Goto(u, "remove") /\ UNCHANGED <<mu, loc>>
         ELSE Return(u) /\ mu' = "free"
    /\ UNCHANGED <<remote, running, policy, available, info, seen, ghosts, used>>

\* RemoveAvailable; the row in available_info stays until the next check.
RemoveRow(u) ==
    /\ pc[u] = "remove"
    /\ available' = [available EXCEPT ![loc[u].cur] = None]
    /\ Return(u) /\ mu' = "free"
    /\ UNCHANGED <<remote, running, previous, policy, info, seen, ghosts, used>>

-----------------------------------------------------------------------------
CheckStep(p) ==
    \/ \E c \in Containers, answers \in BOOLEAN : CompareDigests(p, c, answers)
    \/ \E labels, notes \in BOOLEAN : Describe(p, labels, notes)
    \/ SaveAvailable(p)
    \/ SaveInfo(p)

CycleStep ==
    \/ List \/ ReadInfo \/ EndCycle
    \/ \E c \in Containers : DecideFor(c)
    \/ Announce \/ MarkAnnounced \/ MarkAttempted

UpdateStep(u) ==
    \/ Lock(u)
    \/ \E answers \in BOOLEAN : Pull(u, answers)
    \/ \E outcome \in Outcomes, left \in Digests : Replace(u, outcome, left)
    \/ Record(u)
    \/ RemoveRow(u)

Scheduler == BeginCheck("sched") \/ CheckStep("sched") \/ CycleStep \/ UpdateStep("sched")
Job(c)    == UpdateStep(c)

User ==
    \/ BeginCheck("check")
    \/ \E c \in Containers, kind \in {"update", "rollback"} : StartJob(c, kind)
    \/ \E c \in Containers, value \in Policies : SetPolicy(c, value)

Next ==
    \/ Scheduler \/ CheckStep("check") \/ \E c \in Containers : Job(c)
    \/ User
    \/ \E c \in Containers, d \in Digests : Publish(c, d)
    \/ Crash

Spec == Init /\ [][Next]_vars

\* The ticker fires, calls return and goroutines get their turn.
FairSpec ==
    /\ Spec
    /\ WF_vars(Scheduler)
    /\ WF_vars(CheckStep("check"))
    /\ \A c \in Containers : WF_vars(Job(c))

-----------------------------------------------------------------------------
(* Properties                                                              *)

\* Updates and rollbacks are one at a time: what Update replaces is what it saw
\* when it took Engine.mu, whoever else wants to update or roll back.
ReplacesWhatItSaw ==
    \A u \in Updaters : pc[u] = "replace" => running[loc[u].cur] = loc[u].from

\* The README's "announced once": a digest is told again only after another one
\* was, or once more for each crash between Notify and MarkSeen.
AnnouncedOnce == \A c \in Containers : told[c].times <= 1 + used.crashes

\* What the database records as announced was announced, crashes or not.
RecordedWasTold == \A c \in Containers : seen[c].available \in everTold[c] \cup {None}

\* The scheduler tries a digest that it found once, whatever comes of it and
\* whenever the process dies: the attempt is recorded before it begins.
TriedOnce == \A c \in Containers : tried[c].times <= 1

\* The scheduler replaces c by another image.
AutoReplaces(c) == pc["sched"] = "replace" /\ loc["sched"].cur = c /\ running'[c] # running[c]

\* The step from the image c runs to the one it gets is one the README allows.
SafeStep(c) ==
    LET old == VersionOf[running[c]]
        new == VersionOf[running'[c]]
    IN  Decide(policy[c], c \in Protected, InfoFor(old, new, Releases)) = "update"

\* In a cycle that nothing disturbs and that gets the release notes, what the
\* scheduler installs is a step that the policy allows, judged by the images
\* themselves: rows of an earlier check or a failing registry do not matter.
QuietCycleIsSafe == [][quiet => \A c \in Containers : AutoReplaces(c) => SafeStep(c)]_vars

\* The README: breaking updates, major jumps, databases and unknown versions
\* are never automatic.
OnlySafeAutomatic == [][\A c \in Containers : AutoReplaces(c) => SafeStep(c)]_vars

\* The README's step 5: a digest that failed is not retried automatically.
FailedNotRetried ==
    [][\A c \in Containers : AutoReplaces(c) => running'[c] \notin rejected[c]]_vars

\* An update that stays available is announced or tried.  A crash right after
\* the attempt was recorded is the exception.
EventuallyHandled ==
    \A c \in Containers, d \in Digests :
      <>[](remote[c] = d /\ running[c] # d /\ policy[c] # "never") =>
        <>(\/ d \in everTold[c]
           \/ tried[c].digest = d /\ tried[c].times > 0
           \/ seen[c].attempted = d /\ used.crashes > 0)

\* Once nothing changes any more, what the UI shows as available becomes and
\* stays what is: a row that an older, concurrent check wrote does not last.
TablesConverge ==
    <>[](\A c \in Containers :
           /\ available[c] = IF remote[c] = running[c] THEN None ELSE remote[c]
           /\ (info[c] = None) <=> (remote[c] = running[c]))
=============================================================================
