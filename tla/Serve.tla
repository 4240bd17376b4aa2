------------------------------- MODULE Serve -------------------------------
(***************************************************************************)
(* The command serve (cmd/nextupdate/main.go): the order in which it       *)
(* starts, and how it stops while handlers, jobs (internal/api/jobs.go)    *)
(* and the scheduler are at work.                                          *)
(*                                                                         *)
(* A signal cancels the context of the scheduler, but not that of the      *)
(* jobs.  The server then closes, which waits for its handlers for ten     *)
(* seconds, waits for the jobs, and at last for the scheduler.  A handler  *)
(* that outlives the ten seconds may still start a job.                    *)
(*                                                                         *)
(* Left out: the list of failed jobs, requests that start no job.          *)
(***************************************************************************)
CONSTANTS
    Handlers,  \* requests that are handled at the same time
    JobKeys,   \* the keys of Jobs: names of containers, and CheckKey
    CheckKey,  \* the key of the check, which needs no mutex
    NoOne      \* nobody holds Engine.mu, nothing is asked for

ASSUME KeysDiffer == NoOne \notin JobKeys \cup {"sched"} /\ "sched" \notin JobKeys

VARIABLES
    phase,      \* how far serve is
    signalled,  \* whether the process got a signal: the context of the scheduler is done
    asks,       \* asks[h]: the key of the job that handler h is about to start, or NoOne
    works,      \* works[k]: what the job with key k does
    cycle,      \* what the scheduler does
    engineMu,   \* who holds Engine.mu: a job, "sched" or NoOne
    failed,     \* whether serve ended with an error
    outlived    \* history: keys asked for by handlers that outlived Shutdown

serveVars == <<phase, signalled, asks, works, cycle, engineMu, failed, outlived>>
mainVars  == <<phase, signalled, failed, outlived>>

Alive    == phase # "exited"
Handling == {h \in Handlers : asks[h] # NoOne}
Working  == {k \in JobKeys : works[k] # "none"}

ServeTypeOK ==
    /\ phase \in {"repair", "keys", "serving", "closing", "waiting", "joining", "exited"}
    /\ asks \in [Handlers -> JobKeys \cup {NoOne}]
    /\ works \in [JobKeys -> {"none", "checking", "queued", "updating"}]
    /\ cycle \in {"off", "cycle", "queued", "updating", "waiting", "stopped"}
    /\ engineMu \in JobKeys \cup {"sched", NoOne}
    /\ {signalled, failed} \subseteq BOOLEAN
    /\ outlived \subseteq JobKeys

ServeInit ==
    /\ phase = "repair" /\ signalled = FALSE /\ failed = FALSE
    /\ asks = [h \in Handlers |-> NoOne]
    /\ works = [k \in JobKeys |-> "none"]
    /\ cycle = "off" /\ engineMu = NoOne
    /\ outlived = {}

Signal ==
    /\ Alive /\ ~signalled
    /\ signalled' = TRUE
    /\ UNCHANGED <<phase, asks, works, cycle, engineMu, failed, outlived>>

-----------------------------------------------------------------------------
(* serve                                                                   *)

FailsStart == phase' = "exited" /\ failed' = TRUE /\ UNCHANGED cycle

\* Reconcile, then EnsureKeys; an error ends the start.
Repairs ==
    /\ phase = "repair"
    /\ (phase' = "keys" /\ UNCHANGED <<failed, cycle>>) \/ FailsStart
    /\ UNCHANGED <<signalled, asks, works, engineMu, outlived>>

\* Then the server listens and the scheduler begins its first cycle.
StartsServing ==
    /\ phase = "keys"
    /\ (phase' = "serving" /\ cycle' = "cycle" /\ UNCHANGED failed) \/ FailsStart
    /\ UNCHANGED <<signalled, asks, works, engineMu, outlived>>

\* serve returns at once, whatever is going on.
ListenFails ==
    /\ phase = "serving"
    /\ FailsStart
    /\ UNCHANGED <<signalled, asks, works, engineMu, outlived>>

Step(from, to) ==
    /\ phase = from /\ phase' = to
    /\ UNCHANGED <<signalled, asks, works, cycle, engineMu, failed>>

Shutdown == signalled /\ Step("serving", "closing") /\ UNCHANGED outlived

ShutdownReturns == Handling = {} /\ Step("closing", "waiting") /\ UNCHANGED outlived

ShutdownTimesOut ==
    /\ Step("closing", "waiting")
    /\ outlived' = {asks[h] : h \in Handling}

\* Mutant: serve does not wait for the jobs.
WaitNothing == Step("waiting", "joining") /\ UNCHANGED outlived

Wait == Working = {} /\ Step("waiting", "joining") /\ UNCHANGED outlived

Return == cycle = "stopped" /\ Step("joining", "exited") /\ UNCHANGED outlived

-----------------------------------------------------------------------------
(* Handlers and jobs                                                       *)

\* A request comes in while the server listens.
Request(h, k) ==
    /\ phase = "serving"
    /\ asks[h] = NoOne
    /\ asks' = [asks EXCEPT ![h] = k]
    /\ UNCHANGED <<mainVars, works, cycle, engineMu>>

\* Jobs.Start: at most one job for each key, the others are answered "busy".
StartJob(h) ==
    /\ Alive /\ asks[h] # NoOne
    /\ works' = IF works[asks[h]] # "none" THEN works ELSE
                [works EXCEPT ![asks[h]] = IF asks[h] = CheckKey THEN "checking" ELSE "queued"]
    /\ asks' = [asks EXCEPT ![h] = NoOne]
    /\ UNCHANGED <<mainVars, cycle, engineMu>>

JobLocks(k) ==
    /\ Alive /\ works[k] = "queued" /\ engineMu = NoOne
    /\ works' = [works EXCEPT ![k] = "updating"]
    /\ engineMu' = k
    /\ UNCHANGED <<mainVars, asks, cycle>>

\* Mutant: the job forgets to unlock the engine.
JobEndsLocked(k) ==
    /\ Alive /\ works[k] \in {"checking", "updating"}
    /\ works' = [works EXCEPT ![k] = "none"]
    /\ UNCHANGED <<mainVars, asks, cycle, engineMu>>

JobEnds(k) ==
    /\ Alive /\ works[k] \in {"checking", "updating"}
    /\ works' = [works EXCEPT ![k] = "none"]
    /\ engineMu' = IF engineMu = k THEN NoOne ELSE engineMu
    /\ UNCHANGED <<mainVars, asks, cycle>>

-----------------------------------------------------------------------------
(* The scheduler                                                           *)

Cycles(from, to) ==
    /\ Alive /\ cycle = from /\ cycle' = to
    /\ UNCHANGED <<mainVars, asks, works>>

\* The context is looked at before each update, but not while it waits for the
\* mutex; an update that has begun is ended early when the signal comes.
CycleApplies == ~signalled /\ Cycles("cycle", "queued") /\ UNCHANGED engineMu
CycleLocks   == engineMu = NoOne /\ Cycles("queued", "updating") /\ engineMu' = "sched"
CycleUpdated == Cycles("updating", "cycle") /\ engineMu' = NoOne
CycleEnds    == Cycles("cycle", "waiting") /\ UNCHANGED engineMu

\* The ticker may win over the context that is done, but not for ever.
CycleTicks == Cycles("waiting", "cycle") /\ UNCHANGED engineMu
CycleStops == signalled /\ Cycles("waiting", "stopped") /\ UNCHANGED engineMu

-----------------------------------------------------------------------------
Main == \/ Repairs \/ StartsServing \/ Shutdown \/ ShutdownReturns \/ ShutdownTimesOut
        \/ Wait \/ Return

Work == \/ \E k \in JobKeys : JobEnds(k)
        \/ CycleUpdated \/ CycleEnds

ServeNext ==
    \/ Signal \/ ListenFails \/ Main
    \/ \E h \in Handlers : StartJob(h) \/ \E k \in JobKeys : Request(h, k)
    \/ \E k \in JobKeys : JobLocks(k)
    \/ Work \/ CycleApplies \/ CycleLocks \/ CycleTicks \/ CycleStops

ServeSpec == ServeInit /\ [][ServeNext]_serveVars

-----------------------------------------------------------------------------
(* Properties                                                              *)

\* "let a running update finish; it never gets cancelled halfway": when serve
\* ends, no job and no scheduled update is under way, unless the server could
\* not listen, or a handler that outlived Shutdown has started the job.
ExitLeavesNoWork ==
    ~Alive /\ ~failed => Working \subseteq outlived /\ cycle = "stopped" /\ engineMu # "sched"

\* After a signal the process ends, whoever holds or waits for the mutex.
ShutdownEnds == signalled ~> ~Alive
=============================================================================
