-------------------------- MODULE UpdateCycleProofs --------------------------
(***************************************************************************)
(* Theorems about UpdateCycle, for any containers, images, releases and    *)
(* bounds.                                                                 *)
(***************************************************************************)
EXTENDS UpdateCycle, FiniteSetTheorems, TLAPS

InfoTable == [Containers -> InfoRows \cup {None}]
Runs      == [digest : Digests \cup {None}, times : Nat]

Locals == [todo : SUBSET Containers, cur : Containers \cup {None}, at : Rows, out : Rows,
           infos : InfoTable, kind : {"update", "rollback"}, from : Digests \cup {None},
           got : Digests \cup {None}, outcome : Outcomes]

\* The types, with those of the history, and what a process has at hand where it is.
TypeInv ==
    /\ remote \in [Containers -> Digests] /\ running \in [Containers -> Digests]
    /\ previous \in Rows /\ available \in Rows
    /\ policy \in [Containers -> Policies]
    /\ info \in InfoTable
    /\ seen \in [Containers -> [available : Digests \cup {None}, attempted : Digests \cup {None}]]
    /\ mu \in {"free"} \cup Updaters
    /\ pc \in [Procs -> Pcs]
    /\ loc \in [Procs -> Locals]

AtHand ==
    \A p \in Procs :
      /\ pc[p] \in {"scan", "describe"} => loc[p].at \in [Containers -> Digests]
      /\ pc[p] \in {"describe", "announce", "mark", "attempt", "lock", "pull", "replace",
                    "record", "remove"} => loc[p].cur \in Containers
      /\ pc[p] \in {"pull", "replace", "record", "remove"} => loc[p].from \in Digests
      /\ pc[p] \in {"replace", "record", "remove"} => loc[p].got \in Digests

TInv == TypeInv /\ AtHand

-----------------------------------------------------------------------------
(* Types                                                                   *)

\* A process that has nothing at hand.
LEMMA FreshType == Fresh \in Locals /\ NoRows \in Rows /\ NoRows \in InfoTable
<1>1. NoRows \in Rows /\ NoRows \in InfoTable
  BY DEF NoRows, Rows, InfoTable
<1>. QED BY <1>1 DEF Fresh, Locals, Outcomes

\* What describe finds is a row of available_info.
LEMMA InfoForType ==
    ASSUME NEW old \in Version \cup {Unknown}, NEW new \in Version \cup {Unknown}, NEW releases
    PROVE  InfoFor(old, new, releases) \in InfoRows
<1>1. Classify(old, new, Between(releases, old, new), Flagged) \in BOOLEAN
  BY DEF Classify
<1>. QED BY <1>1 DEF InfoFor, InfoRows

\* Where a process goes, and what it takes along.
LEMMA Moves ==
    ASSUME TInv, NEW p \in Procs, NEW l \in Pcs, Goto(p, l), NEW new \in Locals, SetLoc(p, new),
           l \in {"scan", "describe"} => new.at \in [Containers -> Digests],
           l \in {"describe", "announce", "mark", "attempt", "lock", "pull", "replace",
                  "record", "remove"} => new.cur \in Containers,
           l \in {"pull", "replace", "record", "remove"} => new.from \in Digests,
           l \in {"replace", "record", "remove"} => new.got \in Digests
    PROVE  pc' \in [Procs -> Pcs] /\ loc' \in [Procs -> Locals] /\ AtHand'
BY DEF TInv, TypeInv, AtHand, Goto, SetLoc

\* The keys of Jobs are no containers, and nobody is called "free".
LEMMA ProcsAre ==
    /\ "sched" \in Procs /\ "check" \in Procs /\ Updaters \subseteq Procs
    /\ \A c \in Containers : c \in Updaters /\ c # "sched" /\ c # "check" /\ c # "free"
    /\ "sched" \in Updaters /\ "free" \notin Updaters
BY KeysAssumption DEF Procs, Updaters

\* A process that is done with a container has nothing of it left at hand.
LEMMA ReturnType ==
    ASSUME TInv, NEW u \in Updaters, Return(u)
    PROVE  pc' \in [Procs -> Pcs] /\ loc' \in [Procs -> Locals] /\ AtHand'
<1>1. loc[u] \in Locals
  BY ProcsAre DEF TInv, TypeInv
<1>2. [Fresh EXCEPT !.todo = loc[u].todo, !.out = loc[u].out, !.infos = loc[u].infos] \in Locals
  BY <1>1, FreshType DEF Locals
<1>. QED BY <1>2, FreshType, Moves, ProcsAre DEF Return, Pcs

\* Every step of every process keeps the types.
LEMMA TypeInvariance == Spec => []TInv
<1>1. Init => TInv
  <2>. SUFFICES ASSUME Init PROVE TInv
    OBVIOUS
  <2>. QED BY FreshType DEF Init, TInv, TypeInv, AtHand, Pcs
<1>2. ASSUME TInv, [Next]_vars PROVE TInv'
  <2>. USE <1>2, ProcsAre DEF TInv
  <2>. USE DEF tables, ghosts
  <2>1. ASSUME NEW c \in Containers, NEW d \in Digests, Publish(c, d) PROVE TInv'
    BY <2>1 DEF Publish, TypeInv, AtHand
  <2>2. ASSUME NEW c \in Containers, NEW value \in Policies, SetPolicy(c, value) PROVE TInv'
    BY <2>2 DEF SetPolicy, TypeInv, AtHand
  <2>3. ASSUME Crash PROVE TInv'
    BY <2>3, FreshType DEF Crash, TypeInv, AtHand, Pcs
  <2>4. ASSUME NEW p \in {"sched", "check"}, BeginCheck(p) PROVE TInv'
    <3>1. [Fresh EXCEPT !.todo = Containers, !.at = running] \in Locals
      BY FreshType DEF Locals, TypeInv, Rows
    <3>2. [Fresh EXCEPT !.todo = Containers, !.at = running].at = running
      BY DEF Fresh
    <3>. QED BY <2>4, <3>1, <3>2, Moves DEF BeginCheck, TypeInv, Pcs
  <2>5. ASSUME NEW p \in {"sched", "check"}, NEW c \in Containers, NEW answers \in BOOLEAN,
               CompareDigests(p, c, answers)
        PROVE  TInv'
    <3>1. loc[p] \in Locals
      BY DEF TypeInv
    <3>. DEFINE less == [loc[p] EXCEPT !.todo = loc[p].todo \ {c}]
                more == [loc[p] EXCEPT !.todo = loc[p].todo \ {c}, !.cur = c, !.out[c] = remote[c]]
    <3>2. /\ less \in Locals /\ less.cur = loc[p].cur /\ less.at = loc[p].at
          /\ less.from = loc[p].from /\ less.got = loc[p].got
      BY <3>1 DEF Locals
    <3>3. more \in Locals /\ more.cur = c /\ more.at = loc[p].at
      <4>1. remote[c] \in Digests /\ loc[p].out \in Rows
        BY <3>1 DEF Locals, TypeInv
      <4>2. [loc[p].out EXCEPT ![c] = remote[c]] \in Rows
        BY <4>1 DEF Rows
      <4>. QED BY <3>1, <4>2 DEF Locals
    <3>4. CASE answers /\ remote[c] # loc[p].at[c]
      <4>1. Goto(p, "describe") /\ SetLoc(p, more)
        BY <2>5, <3>4 DEF CompareDigests
      <4>. HIDE DEF more
      <4>. QED BY <2>5, <3>3, <4>1, Moves DEF CompareDigests, TypeInv, AtHand, Pcs
    <3>5. CASE ~(answers /\ remote[c] # loc[p].at[c])
      <4>1. Goto(p, pc[p]) /\ SetLoc(p, less)
        BY <2>5, <3>5 DEF CompareDigests, Goto, TypeInv
      <4>2. pc[p] \in Pcs
        BY DEF TypeInv
      <4>. HIDE DEF less
      <4>. QED BY <2>5, <3>2, <4>1, <4>2, Moves DEF CompareDigests, TypeInv, AtHand
    <3>. QED BY <3>4, <3>5
  <2>6. ASSUME NEW p \in {"sched", "check"}, NEW labels \in BOOLEAN, NEW notes \in BOOLEAN,
               Describe(p, labels, notes)
        PROVE  TInv'
    <3>. DEFINE c    == loc[p].cur
                old  == VersionOf[loc[p].at[c]]
                new  == IF labels THEN VersionOf[remote[c]] ELSE Unknown
                row  == InfoFor(old, new, IF notes THEN Releases ELSE {})
                next == [loc[p] EXCEPT !.infos[c] = row]
    <3>1. loc[p] \in Locals /\ c \in Containers /\ loc[p].at \in [Containers -> Digests]
      BY <2>6 DEF Describe, TypeInv, AtHand
    <3>2. Goto(p, "scan") /\ SetLoc(p, next)
      BY <2>6 DEF Describe
    <3>3. row \in InfoRows
      <4>1. old \in Version \cup {Unknown} /\ new \in Version \cup {Unknown}
        BY <3>1, DigestsAssumption DEF TypeInv
      <4>. HIDE DEF old, new
      <4>. QED BY <4>1, InfoForType
    <3>4. next \in Locals /\ next.at = loc[p].at
      BY <3>1, <3>3 DEF Locals, InfoTable
    <3>. HIDE DEF next
    <3>. QED BY <2>6, <3>1, <3>2, <3>4, Moves DEF Describe, TypeInv, Pcs
  <2>7. ASSUME NEW p \in {"sched", "check"}, SaveAvailable(p) PROVE TInv'
    <3>1. [Fresh EXCEPT !.infos = loc[p].infos] \in Locals /\ loc[p].out \in Rows
      BY FreshType DEF Locals, TypeInv
    <3>. QED BY <2>7, <3>1, Moves DEF SaveAvailable, TypeInv, Pcs
  <2>8. ASSUME NEW p \in {"sched", "check"}, SaveInfo(p) PROVE TInv'
    <3>1. loc[p].infos \in InfoTable
      BY DEF Locals, TypeInv
    <3>. QED BY <2>8, <3>1, FreshType, Moves DEF SaveInfo, TypeInv, Pcs
  <2>9. ASSUME List PROVE TInv'
    <3>1. [Fresh EXCEPT !.out = available] \in Locals
      BY FreshType DEF Locals, TypeInv
    <3>. QED BY <2>9, <3>1, Moves DEF List, TypeInv, Pcs
  <2>10. ASSUME ReadInfo PROVE TInv'
    <3>0. loc["sched"] \in Locals /\ {c \in Containers : loc["sched"].out[c] # None} \in SUBSET Containers
      BY DEF TypeInv
    <3>1. [loc["sched"] EXCEPT !.infos = info,
                           !.todo = {c \in Containers : loc["sched"].out[c] # None}] \in Locals
      BY <3>0 DEF Locals, TypeInv
    <3>. QED BY <2>10, <3>1, Moves DEF ReadInfo, TypeInv, Pcs
  <2>11. ASSUME EndCycle PROVE TInv'
    BY <2>11, FreshType, Moves DEF EndCycle, TypeInv, Pcs
  <2>12. ASSUME NEW c \in Containers, DecideFor(c) PROVE TInv'
    <3>. DEFINE next == [loc["sched"] EXCEPT !.todo = loc["sched"].todo \ {c}, !.cur = c]
    <3>1. next \in Locals /\ next.cur = c
      <4>1. loc["sched"] \in Locals
        BY DEF TypeInv
      <4>. QED BY <4>1 DEF Locals
    <3>2. ActionFor(c) \in {"announce", "attempt", "next"}
      BY DEF ActionFor
    <3>3. SetLoc("sched", next) /\ Goto("sched", ActionFor(c))
      BY <2>12 DEF DecideFor
    <3>. HIDE DEF next
    <3>. QED BY <2>12, <3>1, <3>2, <3>3, Moves DEF DecideFor, TypeInv, Pcs
  <2>13. ASSUME Announce PROVE TInv'
    BY <2>13 DEF Announce, Goto, TypeInv, AtHand, Pcs
  <2>14. ASSUME MarkAnnounced PROVE TInv'
    <3>1. loc["sched"].cur \in Containers /\ loc["sched"].out \in Rows
      BY <2>14 DEF MarkAnnounced, TypeInv, AtHand, Locals
    <3>2. loc["sched"].out[loc["sched"].cur] \in Digests \cup {None}
      BY <3>1 DEF Rows
    <3>. QED BY <2>14, <3>1, <3>2, ReturnType DEF MarkAnnounced, TypeInv
  <2>15. ASSUME MarkAttempted PROVE TInv'
    <3>1. loc["sched"].cur \in Containers /\ loc["sched"].out \in Rows
      BY <2>15 DEF MarkAttempted, TypeInv, AtHand, Locals
    <3>2. loc["sched"].out[loc["sched"].cur] \in Digests \cup {None}
      BY <3>1 DEF Rows
    <3>. QED BY <2>15, <3>1, <3>2 DEF MarkAttempted, Goto, TypeInv, AtHand, Pcs
  <2>16. ASSUME NEW c \in Containers, NEW kind \in {"update", "rollback"},
               StartJob(c, kind)
        PROVE  TInv'
    <3>1. [Fresh EXCEPT !.cur = c, !.kind = kind] \in Locals
      BY FreshType DEF Locals
    <3>2. [Fresh EXCEPT !.cur = c, !.kind = kind].cur = c
      BY DEF Fresh
    <3>. QED BY <2>16, <3>1, <3>2, Moves DEF StartJob, TypeInv, Pcs
  <2>17. ASSUME NEW u \in Updaters, Lock(u) PROVE TInv'
    <3>1. loc[u] \in Locals /\ loc[u].cur \in Containers
      BY <2>17 DEF Lock, TypeInv, AtHand
    <3>2. CASE Return(u)
      BY <2>17, <3>2, ReturnType DEF Lock, TypeInv
    <3>3. CASE loc[u].kind # "rollback"
      <4>1. [loc[u] EXCEPT !.from = running[loc[u].cur], !.got = None] \in Locals
        BY <3>1 DEF Locals, TypeInv
      <4>. QED BY <2>17, <3>1, <3>3, <4>1, Moves DEF Lock, TypeInv, Locals, Pcs
    <3>4. CASE loc[u].kind = "rollback" /\ previous[loc[u].cur] # None /\ ~Return(u)
      <4>1. previous[loc[u].cur] \in Digests /\ running[loc[u].cur] \in Digests
        BY <3>1, <3>4 DEF TypeInv, Rows
      <4>2. [loc[u] EXCEPT !.from = running[loc[u].cur], !.got = previous[loc[u].cur]] \in Locals
        BY <3>1, <4>1 DEF Locals
      <4>. QED BY <2>17, <3>1, <3>4, <4>1, <4>2, Moves DEF Lock, TypeInv, Locals, Pcs
    <3>. QED BY <2>17, <3>2, <3>3, <3>4 DEF Lock
  <2>18. ASSUME NEW u \in Updaters, NEW answers \in BOOLEAN, Pull(u, answers) PROVE TInv'
    <3>1. loc[u] \in Locals /\ loc[u].cur \in Containers /\ loc[u].from \in Digests
      BY <2>18 DEF Pull, TypeInv, AtHand
    <3>2. remote[loc[u].cur] \in Digests
      BY <3>1 DEF TypeInv
    <3>3. [loc[u] EXCEPT !.got = remote[loc[u].cur]] \in Locals
      BY <3>1, <3>2 DEF Locals
    <3>4. CASE answers
      BY <2>18, <3>1, <3>2, <3>3, <3>4, Moves DEF Pull, TypeInv, Locals, Pcs
    <3>5. CASE ~answers
      BY <2>18, <3>5, ReturnType DEF Pull, TypeInv
    <3>. QED BY <3>4, <3>5
  <2>19. ASSUME NEW u \in Updaters, NEW outcome \in Outcomes, NEW left \in Digests,
               Replace(u, outcome, left)
        PROVE  TInv'
    <3>1. /\ loc[u] \in Locals /\ loc[u].cur \in Containers
          /\ loc[u].from \in Digests /\ loc[u].got \in Digests
      BY <2>19 DEF Replace, TypeInv, AtHand
    <3>2. [loc[u] EXCEPT !.outcome = outcome] \in Locals
      BY <3>1 DEF Locals
    <3>. QED BY <2>19, <3>1, <3>2, Moves DEF Replace, TypeInv, Locals, Pcs
  <2>20. ASSUME NEW u \in Updaters, Record(u) PROVE TInv'
    <3>1. loc[u].cur \in Containers /\ loc[u].from \in Digests
      BY <2>20 DEF Record, AtHand
    <3>2. previous' \in Rows
      BY <2>20, <3>1 DEF Record, TypeInv, Rows
    <3>3. CASE Return(u)
      BY <2>20, <3>2, <3>3, ReturnType DEF Record, TypeInv
    <3>4. CASE Goto(u, "remove") /\ UNCHANGED <<mu, loc>>
      BY <2>20, <3>2, <3>4 DEF Record, Goto, TypeInv, AtHand, Pcs
    <3>. QED BY <2>20, <3>3, <3>4 DEF Record
  <2>21. ASSUME NEW u \in Updaters, RemoveRow(u) PROVE TInv'
    <3>1. available' \in Rows
      BY <2>21 DEF RemoveRow, TypeInv, Rows
    <3>. QED BY <2>21, <3>1, ReturnType DEF RemoveRow, TypeInv
  <2>22. CASE UNCHANGED vars
    BY <2>22 DEF vars, TypeInv, AtHand
  <2>. QED
    BY <1>2, <2>1, <2>2, <2>3, <2>4, <2>5, <2>6, <2>7, <2>8, <2>9, <2>10, <2>11, <2>12, <2>13,
       <2>14, <2>15, <2>16, <2>17, <2>18, <2>19, <2>20, <2>21, <2>22
       DEF Next, Scheduler, CheckStep, CycleStep, UpdateStep, Job, User
<1>. QED BY <1>1, <1>2, PTL DEF Spec

QuietIsBoolean == quiet \in BOOLEAN

\* The history of a quiet cycle is a truth value.
LEMMA QuietType == Spec => []QuietIsBoolean
<1>1. Init => QuietIsBoolean
  BY DEF Init, QuietIsBoolean
<1>2. QuietIsBoolean /\ [Next]_vars => QuietIsBoolean'
  BY DEF QuietIsBoolean, Next, Scheduler, CheckStep, CycleStep, UpdateStep, Job, User, Publish,
     SetPolicy, Crash,
         BeginCheck, CompareDigests, Describe, SaveAvailable, SaveInfo, List, ReadInfo, DecideFor,
         EndCycle, Announce, MarkAnnounced, MarkAttempted, StartJob, Lock, Pull, Replace, Record,
         RemoveRow, vars, ghosts
<1>. QED BY <1>1, <1>2, PTL DEF Spec

\* Tables, images and the processes keep their types, whatever runs concurrently.
THEOREM TypeCorrect == Spec => []TypeOK
<1>1. ASSUME TInv, QuietIsBoolean PROVE TypeOK
  <2>1. \A p \in Procs : loc[p] \in Locals
    BY <1>1 DEF TInv, TypeInv
  <2>2. \A p \in Procs :
          /\ loc[p].todo \subseteq Containers
          /\ loc[p].cur \in Containers \cup {None}
          /\ {loc[p].from, loc[p].got} \subseteq Digests \cup {None}
          /\ loc[p].kind \in {"update", "rollback"} /\ loc[p].outcome \in Outcomes
          /\ {loc[p].at, loc[p].out} \subseteq Rows
    BY <2>1 DEF Locals
  <2>3. \A c \in Containers : info[c] = None \/ info[c] \in InfoRows
    BY <1>1 DEF TInv, TypeInv, InfoTable
  <2>. QED BY <1>1, <2>2, <2>3 DEF TInv, TypeInv, AtHand, QuietIsBoolean, TypeOK
<1>. QED BY TypeInvariance, QuietType, <1>1, PTL

-----------------------------------------------------------------------------
(* Engine.mu                                                               *)

\* Who holds the mutex is where it is held, and nobody else replaces a
\* container before that process does.
MutexInv ==
    \A u \in Updaters :
      /\ pc[u] \in {"pull", "replace", "record", "remove"} <=> mu = u
      /\ pc[u] \in {"pull", "replace"} => running[loc[u].cur] = loc[u].from

\* The mutex is taken by Lock and given back by every way out of an update.
LEMMA MutexInvariance == Spec => []MutexInv
<1>1. Init => MutexInv
  BY ProcsAre DEF Init, MutexInv
<1>2. ASSUME TInv, MutexInv, [Next]_vars PROVE MutexInv'
  <2>. USE <1>2, ProcsAre DEF TInv, TypeInv, tables, ghosts, Goto, SetLoc
  <2>1. ASSUME NEW c \in Containers, NEW d \in Digests, Publish(c, d) PROVE MutexInv'
    BY <2>1 DEF Publish, MutexInv
  <2>2. ASSUME NEW c \in Containers, NEW value \in Policies, SetPolicy(c, value) PROVE MutexInv'
    BY <2>2 DEF SetPolicy, MutexInv
  <2>3. ASSUME Crash PROVE MutexInv'
    BY <2>3 DEF Crash, MutexInv
  <2>4. ASSUME NEW p \in {"sched", "check"}, BeginCheck(p) PROVE MutexInv'
    BY <2>4 DEF BeginCheck, MutexInv
  <2>5. ASSUME NEW p \in {"sched", "check"}, NEW c \in Containers, NEW answers \in BOOLEAN,
               CompareDigests(p, c, answers)
        PROVE  MutexInv'
    BY <2>5 DEF CompareDigests, MutexInv
  <2>6. ASSUME NEW p \in {"sched", "check"}, NEW labels \in BOOLEAN, NEW notes \in BOOLEAN,
               Describe(p, labels, notes)
        PROVE  MutexInv'
    BY <2>6 DEF Describe, MutexInv
  <2>7. ASSUME NEW p \in {"sched", "check"}, SaveAvailable(p) PROVE MutexInv'
    BY <2>7 DEF SaveAvailable, MutexInv
  <2>8. ASSUME NEW p \in {"sched", "check"}, SaveInfo(p) PROVE MutexInv'
    BY <2>8 DEF SaveInfo, MutexInv
  <2>9. ASSUME List PROVE MutexInv'
    BY <2>9 DEF List, MutexInv
  <2>10. ASSUME ReadInfo PROVE MutexInv'
    BY <2>10 DEF ReadInfo, MutexInv
  <2>11. ASSUME EndCycle PROVE MutexInv'
    BY <2>11 DEF EndCycle, MutexInv
  <2>12. ASSUME NEW c \in Containers, DecideFor(c) PROVE MutexInv'
    <3>1. ActionFor(c) \in {"announce", "attempt", "next"}
      BY DEF ActionFor
    <3>. QED BY <2>12, <3>1 DEF DecideFor, MutexInv
  <2>13. ASSUME Announce PROVE MutexInv'
    BY <2>13 DEF Announce, MutexInv
  <2>14. ASSUME MarkAnnounced PROVE MutexInv'
    BY <2>14 DEF MarkAnnounced, Return, MutexInv
  <2>15. ASSUME MarkAttempted PROVE MutexInv'
    BY <2>15 DEF MarkAttempted, MutexInv
  <2>16. ASSUME NEW c \in Containers, NEW kind \in {"update", "rollback"},
               StartJob(c, kind)
        PROVE  MutexInv'
    BY <2>16 DEF StartJob, MutexInv
  <2>17. ASSUME NEW u \in Updaters, Lock(u) PROVE MutexInv'
    <3>1. loc[u] \in Locals
      BY DEF TypeInv
    <3>2. CASE Return(u) /\ UNCHANGED mu
      BY <2>17, <3>2 DEF Lock, Return, MutexInv
    <3>3. CASE /\ mu' = u /\ pc' = [pc EXCEPT ![u] = IF loc[u].kind = "rollback" THEN "replace" ELSE "pull"]
              /\ loc'[u].from = running[loc[u].cur] /\ loc'[u].cur = loc[u].cur
      BY <2>17, <3>3 DEF Lock, MutexInv
    <3>5. CASE ~(Return(u) /\ UNCHANGED mu)
      <4>1. loc'[u].from = running[loc[u].cur] /\ loc'[u].cur = loc[u].cur
        <5>. DEFINE next == [loc[u] EXCEPT !.from = running[loc[u].cur],
                               !.got = IF loc[u].kind = "rollback" THEN previous[loc[u].cur] ELSE None]
        <5>1. loc' = [loc EXCEPT ![u] = next]
          BY <2>17, <3>5 DEF Lock
        <5>2. next.from = running[loc[u].cur] /\ next.cur = loc[u].cur
          BY <3>1 DEF Locals
        <5>. HIDE DEF next
        <5>. QED BY <5>1, <5>2
      <4>. QED BY <2>17, <3>3, <3>5, <4>1 DEF Lock
    <3>. QED BY <3>2, <3>5
  <2>18. ASSUME NEW u \in Updaters, NEW answers \in BOOLEAN, Pull(u, answers) PROVE MutexInv'
    <3>1. loc[u] \in Locals
      BY DEF TypeInv
    <3>2. CASE Return(u) /\ mu' = "free"
      BY <2>18, <3>2 DEF Pull, Return, MutexInv
    <3>3. CASE /\ mu' = mu /\ pc' = [pc EXCEPT ![u] = "replace"]
              /\ loc'[u].from = loc[u].from /\ loc'[u].cur = loc[u].cur
      BY <2>18, <3>3 DEF Pull, MutexInv
    <3>4. CASE answers
      <4>1. loc'[u].from = loc[u].from /\ loc'[u].cur = loc[u].cur
        BY <2>18, <3>1, <3>4 DEF Pull, Locals
      <4>. QED BY <2>18, <3>3, <3>4, <4>1 DEF Pull
    <3>. QED BY <2>18, <3>2, <3>4 DEF Pull
  <2>19. ASSUME NEW u \in Updaters, NEW outcome \in Outcomes, NEW left \in Digests,
               Replace(u, outcome, left)
        PROVE  MutexInv'
    BY <2>19 DEF Replace, MutexInv
  <2>20. ASSUME NEW u \in Updaters, Record(u) PROVE MutexInv'
    <3>1. CASE Return(u) /\ mu' = "free"
      BY <2>20, <3>1 DEF Record, Return, MutexInv
    <3>2. CASE Goto(u, "remove") /\ UNCHANGED <<mu, loc>>
      BY <2>20, <3>2 DEF Record, MutexInv
    <3>. QED BY <2>20, <3>1, <3>2 DEF Record
  <2>21. ASSUME NEW u \in Updaters, RemoveRow(u) PROVE MutexInv'
    BY <2>21 DEF RemoveRow, Return, MutexInv
  <2>22. CASE UNCHANGED vars
    BY <2>22 DEF vars, MutexInv
  <2>. QED
    BY <1>2, <2>1, <2>2, <2>3, <2>4, <2>5, <2>6, <2>7, <2>8, <2>9, <2>10, <2>11, <2>12, <2>13,
       <2>14, <2>15, <2>16, <2>17, <2>18, <2>19, <2>20, <2>21, <2>22
       DEF Next, Scheduler, CheckStep, CycleStep, UpdateStep, Job, User
<1>. QED BY TypeInvariance, <1>1, <1>2, PTL DEF Spec

\* Update replaces what it saw when it took Engine.mu, whoever else wants to
\* update, roll back or check, and whenever the process dies.
THEOREM ReplacesSeen == Spec => []ReplacesWhatItSaw
<1>1. MutexInv => ReplacesWhatItSaw
  BY DEF MutexInv, ReplacesWhatItSaw
<1>. QED BY MutexInvariance, <1>1, PTL

-----------------------------------------------------------------------------
(* Announcements and attempts                                              *)

\* The container and the digest the scheduler has at hand.
Cur   == loc["sched"].cur
Found == loc["sched"].out[Cur]

HistoryTypes ==
    /\ told \in [Containers -> Runs] /\ tried \in [Containers -> Runs]
    /\ everTold \in [Containers -> SUBSET (Digests \cup {None})]
    /\ used \in [publishes : Nat, requests : Nat, outages : Nat, crashes : Nat]

\* A digest that is not recorded as announced was told once per crash at most.
AnnounceInv ==
    /\ RecordedWasTold /\ AnnouncedOnce
    /\ \A c \in Containers :
         told[c].times <= used.crashes
           \/ told[c].digest = seen[c].available \/ (pc["sched"] = "mark" /\ Cur = c)
    /\ pc["sched"] = "announce" => seen[Cur].available # Found
    /\ pc["sched"] = "mark" => told[Cur].digest = Found /\ Found \in everTold[Cur]

\* What was tried is recorded as attempted, so that what is chosen next differs.
AttemptInv ==
    /\ TriedOnce
    /\ \A c \in Containers : tried[c].times = 0 \/ tried[c].digest = seen[c].attempted
    /\ pc["sched"] = "attempt" => seen[Cur].attempted # Found
    /\ pc["sched"] = "lock" => tried[Cur].times = 0 /\ tried[Cur].digest = seen[Cur].attempted

SeenInv == HistoryTypes /\ AnnounceInv /\ AttemptInv

\* The environment's counters only grow, one at a time.
LEMMA SpendType ==
    ASSUME HistoryTypes, NEW what \in {"publishes", "requests", "outages", "crashes"}, NEW limit,
           Spend(what, limit)
    PROVE  /\ used' \in [publishes : Nat, requests : Nat, outages : Nat, crashes : Nat]
           /\ used'.crashes >= used.crashes
           /\ what = "crashes" => used'.crashes = used.crashes + 1
BY DEF HistoryTypes, Spend

\* A step that leaves the history, the marks, and the scheduler where they are.
LEMMA SchedulerElsewhere ==
    ASSUME TInv, SeenInv, UNCHANGED <<told, tried, everTold, seen>>,
           \/ pc'["sched"] \notin {"announce", "mark", "attempt", "lock"}
           \/ pc'["sched"] = pc["sched"] /\ Cur' = Cur /\ Found' = Found,
           pc["sched"] = "mark" => pc'["sched"] = "mark" \/ used'.crashes > used.crashes,
           used' = used \/ (/\ used' \in [publishes : Nat, requests : Nat, outages : Nat, crashes : Nat]
                            /\ used'.crashes >= used.crashes)
    PROVE  SeenInv'
<1>1. used.crashes \in Nat /\ used'.crashes \in Nat /\ used'.crashes >= used.crashes
  BY DEF SeenInv, HistoryTypes
<1>2. \A c \in Containers : told[c].times \in Nat /\ tried[c].times \in Nat
  BY DEF SeenInv, HistoryTypes, Runs
<1>3. HistoryTypes'
  BY DEF SeenInv, HistoryTypes
<1>4. AnnounceInv'
  BY <1>1, <1>2 DEF SeenInv, AnnounceInv, RecordedWasTold, AnnouncedOnce
<1>5. AttemptInv'
  BY <1>2 DEF SeenInv, AttemptInv, TriedOnce
<1>. QED BY <1>3, <1>4, <1>5 DEF SeenInv

\* Only the scheduler announces and attempts, and what it decided on stays
\* undone until it does it.
LEMMA SeenInvariance == Spec => []SeenInv
<1>1. Init => SeenInv
  BY ProcsAre DEF Init, SeenInv, HistoryTypes, AnnounceInv, AttemptInv, RecordedWasTold,
     AnnouncedOnce, TriedOnce, Runs
<1>2. ASSUME TInv, SeenInv, [Next]_vars PROVE SeenInv'
  <2>. USE <1>2, ProcsAre DEF tables, ghosts
  <2>1. ASSUME NEW c \in Containers, NEW d \in Digests, Publish(c, d) PROVE SeenInv'
    <3>1. used' = used \/ (/\ used' \in [publishes : Nat, requests : Nat, outages : Nat, crashes : Nat]
                            /\ used'.crashes >= used.crashes)
      BY <2>1, SpendType DEF Publish, SeenInv
    <3>. QED BY <2>1, <3>1, SchedulerElsewhere DEF Publish, Goto, SetLoc, TInv, TypeInv, Cur, Found
  <2>2. ASSUME NEW c \in Containers, NEW value \in Policies, SetPolicy(c, value) PROVE SeenInv'
    <3>1. used' = used \/ (/\ used' \in [publishes : Nat, requests : Nat, outages : Nat, crashes : Nat]
                            /\ used'.crashes >= used.crashes)
      BY <2>2, SpendType DEF SetPolicy, SeenInv
    <3>. QED BY <2>2, <3>1, SchedulerElsewhere DEF SetPolicy, Goto, SetLoc, TInv, TypeInv, Cur, Found
  <2>3. ASSUME Crash PROVE SeenInv'
    <3>1. used' \in [publishes : Nat, requests : Nat, outages : Nat, crashes : Nat]
          /\ used'.crashes = used.crashes + 1
      BY <2>3, SpendType DEF Crash, SeenInv
    <3>2. used.crashes \in Nat
      BY DEF SeenInv, HistoryTypes
    <3>. QED BY <2>3, <3>1, <3>2, SchedulerElsewhere DEF Crash
  <2>4. ASSUME NEW p \in {"sched", "check"}, BeginCheck(p) PROVE SeenInv'
    <3>1. used' = used \/ (/\ used' \in [publishes : Nat, requests : Nat, outages : Nat, crashes : Nat]
                            /\ used'.crashes >= used.crashes)
      BY <2>4, SpendType DEF BeginCheck, SeenInv
    <3>. QED BY <2>4, <3>1, SchedulerElsewhere DEF BeginCheck, Goto, SetLoc, TInv, TypeInv, Cur, Found
  <2>5. ASSUME NEW p \in {"sched", "check"}, NEW c \in Containers, NEW answers \in BOOLEAN,
               CompareDigests(p, c, answers)
        PROVE  SeenInv'
    <3>1. used' = used \/ (/\ used' \in [publishes : Nat, requests : Nat, outages : Nat, crashes : Nat]
                            /\ used'.crashes >= used.crashes)
      BY <2>5, SpendType DEF CompareDigests, SeenInv
    <3>. QED BY <2>5, <3>1, SchedulerElsewhere DEF CompareDigests, Goto, SetLoc, TInv, TypeInv,
       Cur, Found
  <2>6. ASSUME NEW p \in {"sched", "check"}, NEW labels \in BOOLEAN, NEW notes \in BOOLEAN,
               Describe(p, labels, notes)
        PROVE  SeenInv'
    <3>1. used' = used \/ (/\ used' \in [publishes : Nat, requests : Nat, outages : Nat, crashes : Nat]
                            /\ used'.crashes >= used.crashes)
      BY <2>6, SpendType DEF Describe, SeenInv
    <3>. QED BY <2>6, <3>1, SchedulerElsewhere DEF Describe, Goto, SetLoc, TInv, TypeInv, Cur, Found
  <2>7. ASSUME NEW p \in {"sched", "check"}, SaveAvailable(p) PROVE SeenInv'
    BY <2>7, SchedulerElsewhere DEF SaveAvailable, Goto, SetLoc, TInv, TypeInv, Cur, Found
  <2>8. ASSUME NEW p \in {"sched", "check"}, SaveInfo(p) PROVE SeenInv'
    BY <2>8, SchedulerElsewhere DEF SaveInfo, Goto, SetLoc, TInv, TypeInv, Cur, Found
  <2>9. ASSUME List PROVE SeenInv'
    BY <2>9, SchedulerElsewhere DEF List, Goto, SetLoc, TInv, TypeInv, Cur, Found
  <2>10. ASSUME ReadInfo PROVE SeenInv'
    BY <2>10, SchedulerElsewhere DEF ReadInfo, Goto, SetLoc, TInv, TypeInv, Cur, Found
  <2>11. ASSUME EndCycle PROVE SeenInv'
    BY <2>11, SchedulerElsewhere DEF EndCycle, Goto, SetLoc, TInv, TypeInv, Cur, Found
  <2>12. ASSUME NEW c \in Containers, DecideFor(c) PROVE SeenInv'
    <3>. DEFINE next == [loc["sched"] EXCEPT !.todo = loc["sched"].todo \ {c}, !.cur = c]
    <3>1. loc' = [loc EXCEPT !["sched"] = next] /\ loc["sched"] \in Locals
      BY <2>12 DEF DecideFor, SetLoc, TInv, TypeInv
    <3>2. next.cur = c /\ next.out = loc["sched"].out
      BY <3>1 DEF Locals
    <3>3. Cur' = c /\ Found' = loc["sched"].out[c]
      <4>. HIDE DEF next
      <4>. QED BY <3>1, <3>2 DEF TInv, TypeInv, Cur, Found
    <3>4. CASE ActionFor(c) = "announce" /\ seen[c].available # loc["sched"].out[c]
      BY <2>12, <3>3, <3>4 DEF DecideFor, Goto, TInv, TypeInv, SeenInv, HistoryTypes, AnnounceInv,
         AttemptInv,
         RecordedWasTold, AnnouncedOnce, TriedOnce
    <3>5. CASE ActionFor(c) = "attempt" /\ seen[c].attempted # loc["sched"].out[c]
      BY <2>12, <3>3, <3>5 DEF DecideFor, Goto, TInv, TypeInv, SeenInv, HistoryTypes, AnnounceInv,
         AttemptInv,
         RecordedWasTold, AnnouncedOnce, TriedOnce
    <3>6. CASE ActionFor(c) = "next"
      BY <2>12, <3>6, SchedulerElsewhere DEF DecideFor, Goto, TInv, TypeInv
    <3>. QED BY <3>4, <3>5, <3>6 DEF ActionFor
  <2>13. ASSUME Announce PROVE SeenInv'
    <3>1. Cur \in Containers /\ Found \in Digests \cup {None} /\ used.crashes \in Nat
      BY <2>13 DEF Announce, TInv, TypeInv, AtHand, Locals, Rows, Cur, Found, SeenInv, HistoryTypes
    <3>2. told[Cur].digest = Found => told[Cur].times <= used.crashes
      BY <2>13, <3>1 DEF Announce, SeenInv, AnnounceInv
    <3>3. Cur' = Cur /\ Found' = Found /\ pc'["sched"] = "mark" /\ UNCHANGED <<seen, tried, used>>
      BY <2>13 DEF Announce, Goto, TInv, TypeInv, Cur, Found
    <3>4. /\ told' = [told EXCEPT ![Cur] = Again(told[Cur], Found)]
          /\ everTold' = [everTold EXCEPT ![Cur] = everTold[Cur] \cup {Found}]
      BY <2>13 DEF Announce, Cur, Found
    <3>5. \A c \in Containers : told[c] \in Runs /\ told[c].times \in Nat
      BY DEF SeenInv, HistoryTypes, Runs
    <3>6. Again(told[Cur], Found) \in Runs /\ Again(told[Cur], Found).times <= 1 + used.crashes
      BY <3>1, <3>2, <3>5 DEF Again, Runs
    <3>7. Again(told[Cur], Found).digest = Found
      BY DEF Again
    <3>8. HistoryTypes'
      BY <3>1, <3>3, <3>4, <3>6 DEF SeenInv, HistoryTypes
    <3>9. AnnounceInv'
      BY <3>1, <3>3, <3>4, <3>6, <3>7
         DEF SeenInv, HistoryTypes, AnnounceInv, RecordedWasTold, AnnouncedOnce
    <3>10. AttemptInv'
      BY <3>3 DEF SeenInv, AttemptInv, TriedOnce
    <3>. QED BY <3>8, <3>9, <3>10 DEF SeenInv
  <2>14. ASSUME MarkAnnounced PROVE SeenInv'
    <3>1. Cur \in Containers /\ Found \in Digests \cup {None}
      BY <2>14 DEF MarkAnnounced, TInv, TypeInv, AtHand, Locals, Rows, Cur, Found
    <3>2. /\ pc'["sched"] = "next" /\ UNCHANGED <<told, tried, everTold, used>>
          /\ seen' = [seen EXCEPT ![Cur].available = Found]
      BY <2>14 DEF MarkAnnounced, Return, Goto, TInv, TypeInv, Cur, Found
    <3>3. told[Cur].digest = Found /\ Found \in everTold[Cur]
      BY <2>14 DEF MarkAnnounced, SeenInv, AnnounceInv
    <3>4. \A c \in Containers :
            /\ seen'[c].available = IF c = Cur THEN Found ELSE seen[c].available
            /\ seen'[c].attempted = seen[c].attempted
      BY <3>1, <3>2 DEF TInv, TypeInv
    <3>5. pc["sched"] = "mark"
      BY <2>14 DEF MarkAnnounced
    <3>6. AnnounceInv'
      BY <3>2, <3>3, <3>4, <3>5 DEF SeenInv, AnnounceInv, RecordedWasTold, AnnouncedOnce
    <3>7. AttemptInv' /\ HistoryTypes'
      BY <3>2, <3>4 DEF SeenInv, AttemptInv, TriedOnce, HistoryTypes
    <3>. QED BY <3>6, <3>7 DEF SeenInv
  <2>15. ASSUME MarkAttempted PROVE SeenInv'
    <3>1. Cur \in Containers /\ Found \in Digests \cup {None}
      BY <2>15 DEF MarkAttempted, TInv, TypeInv, AtHand, Locals, Rows, Cur, Found
    <3>2. /\ pc["sched"] = "attempt" /\ pc'["sched"] = "lock" /\ Cur' = Cur
          /\ UNCHANGED <<told, everTold, used>>
          /\ seen' = [seen EXCEPT ![Cur].attempted = Found]
          /\ tried' = Chosen
      BY <2>15 DEF MarkAttempted, Goto, TInv, TypeInv, Cur, Found
    <3>3. tried[Cur].digest = Found => tried[Cur].times = 0
      BY <3>1, <3>2 DEF SeenInv, AttemptInv
    <3>4. \A c \in Containers :
            /\ seen'[c].attempted = IF c = Cur THEN Found ELSE seen[c].attempted
            /\ seen'[c].available = seen[c].available
      BY <3>1, <3>2 DEF TInv, TypeInv
    <3>5. \A c \in Containers : tried[c] \in Runs /\ tried[c].times \in Nat
      BY DEF SeenInv, HistoryTypes, Runs
    <3>6. tried' \in [Containers -> Runs] /\ tried'[Cur].times = 0 /\ tried'[Cur].digest = Found
      BY <3>1, <3>2, <3>3, <3>5 DEF Chosen, Cur, Found, Runs, SeenInv, HistoryTypes
    <3>7. \A c \in Containers : c # Cur => tried'[c] = tried[c]
      BY <3>2 DEF Chosen, Cur, SeenInv, HistoryTypes
    <3>8. AttemptInv'
      BY <3>1, <3>2, <3>4, <3>6, <3>7 DEF SeenInv, AttemptInv, TriedOnce
    <3>9. AnnounceInv' /\ HistoryTypes'
      BY <3>2, <3>4, <3>6 DEF SeenInv, AnnounceInv, RecordedWasTold, AnnouncedOnce, HistoryTypes
    <3>. QED BY <3>8, <3>9 DEF SeenInv
  <2>16. ASSUME NEW c \in Containers, NEW kind \in {"update", "rollback"},
               StartJob(c, kind)
        PROVE  SeenInv'
    <3>1. used' = used \/ (/\ used' \in [publishes : Nat, requests : Nat, outages : Nat, crashes : Nat]
                            /\ used'.crashes >= used.crashes)
      BY <2>16, SpendType DEF StartJob, SeenInv
    <3>. QED BY <2>16, <3>1, SchedulerElsewhere DEF StartJob, Goto, SetLoc, TInv, TypeInv, Cur, Found
  <2>17. ASSUME NEW u \in Updaters, Lock(u) PROVE SeenInv'
    <3>1. CASE u # "sched"
      BY <2>17, <3>1, SchedulerElsewhere DEF Lock, Return, Goto, SetLoc, TInv, TypeInv, Cur, Found
    <3>2. CASE u = "sched"
      <4>1. Cur \in Containers
        BY <2>17, <3>2 DEF Lock, TInv, AtHand, Cur
      <4>2. /\ pc["sched"] = "lock" /\ pc'["sched"] \in {"next", "replace", "pull"}
            /\ UNCHANGED <<told, everTold, seen, used>>
            /\ tried' = [tried EXCEPT ![Cur].times = tried[Cur].times + 1]
        BY <2>17, <3>2 DEF Lock, Return, Goto, TInv, TypeInv, Cur
      <4>3. tried[Cur].times = 0 /\ tried[Cur].digest = seen[Cur].attempted
        BY <4>2 DEF SeenInv, AttemptInv
      <4>4. /\ tried' \in [Containers -> Runs]
            /\ tried'[Cur].times = 1 /\ tried'[Cur].digest = tried[Cur].digest
            /\ \A c \in Containers : c # Cur => tried'[c] = tried[c]
        BY <4>1, <4>2, <4>3 DEF SeenInv, HistoryTypes, Runs
      <4>5. AttemptInv'
        BY <4>2, <4>3, <4>4 DEF SeenInv, AttemptInv, TriedOnce
      <4>6. AnnounceInv' /\ HistoryTypes'
        BY <4>2, <4>4 DEF SeenInv, AnnounceInv, RecordedWasTold, AnnouncedOnce, HistoryTypes
      <4>. QED BY <4>5, <4>6 DEF SeenInv
    <3>. QED BY <3>1, <3>2
  <2>18. ASSUME NEW u \in Updaters, NEW answers \in BOOLEAN, Pull(u, answers) PROVE SeenInv'
    <3>1. used' = used \/ (/\ used' \in [publishes : Nat, requests : Nat, outages : Nat, crashes : Nat]
                            /\ used'.crashes >= used.crashes)
      BY <2>18, SpendType DEF Pull, SeenInv
    <3>. QED BY <2>18, <3>1, SchedulerElsewhere DEF Pull, Goto, SetLoc, TInv, TypeInv, Cur, Found,
       Return
  <2>19. ASSUME NEW u \in Updaters, NEW outcome \in Outcomes, NEW left \in Digests,
               Replace(u, outcome, left)
        PROVE  SeenInv'
    BY <2>19, SchedulerElsewhere DEF Replace, Goto, SetLoc, TInv, TypeInv, Cur, Found
  <2>20. ASSUME NEW u \in Updaters, Record(u) PROVE SeenInv'
    BY <2>20, SchedulerElsewhere DEF Record, Goto, SetLoc, TInv, TypeInv, Cur, Found, Return
  <2>21. ASSUME NEW u \in Updaters, RemoveRow(u) PROVE SeenInv'
    BY <2>21, SchedulerElsewhere DEF RemoveRow, Goto, SetLoc, TInv, TypeInv, Cur, Found, Return
  <2>22. CASE UNCHANGED vars
    BY <2>22 DEF vars, SeenInv, HistoryTypes, AnnounceInv, AttemptInv, RecordedWasTold,
       AnnouncedOnce, TriedOnce, Cur, Found
  <2>. QED
    BY <1>2, <2>1, <2>2, <2>3, <2>4, <2>5, <2>6, <2>7, <2>8, <2>9, <2>10, <2>11, <2>12, <2>13,
       <2>14, <2>15, <2>16, <2>17, <2>18, <2>19, <2>20, <2>21, <2>22
       DEF Next, Scheduler, CheckStep, CycleStep, UpdateStep, Job, User
<1>. QED BY TypeInvariance, <1>1, <1>2, PTL DEF Spec

\* A digest is told again only after another one was, or once more for each
\* crash between Notify and MarkSeen.
THEOREM ToldOnce == Spec => []AnnouncedOnce
<1>1. SeenInv => AnnouncedOnce
  BY DEF SeenInv, AnnounceInv
<1>. QED BY SeenInvariance, <1>1, PTL

\* What the database records as announced was announced, crashes or not.
THEOREM RecordedTold == Spec => []RecordedWasTold
<1>1. SeenInv => RecordedWasTold
  BY DEF SeenInv, AnnounceInv
<1>. QED BY SeenInvariance, <1>1, PTL

\* The scheduler tries a digest once, whatever comes of it and wherever it dies.
THEOREM AttemptedOnce == Spec => []TriedOnce
<1>1. SeenInv => TriedOnce
  BY DEF SeenInv, AttemptInv
<1>. QED BY SeenInvariance, <1>1, PTL

-----------------------------------------------------------------------------
(* What an undisturbed cycle installs                                      *)

WithContainer == {"announce", "mark", "attempt", "lock", "pull", "replace", "record", "remove"}

\* The scheduler only updates, and is done with a container it takes up.
PlanInv ==
    /\ loc["sched"].kind = "update"
    /\ pc["sched"] \in WithContainer => Cur \notin loc["sched"].todo

\* When it is done with a container it goes on with the others.
LEMMA SchedulerReturns ==
    ASSUME TInv, Return("sched")
    PROVE  /\ pc'["sched"] = "next"
           /\ loc'["sched"].infos = loc["sched"].infos
           /\ loc'["sched"].todo = loc["sched"].todo
           /\ loc'["sched"].kind = "update"
BY ProcsAre DEF Return, Goto, SetLoc, Fresh, TInv, TypeInv

\* No job and no check gives the scheduler another plan.
LEMMA PlanInvariance == Spec => []PlanInv
<1>1. Init => PlanInv
  BY ProcsAre DEF Init, PlanInv, Fresh, WithContainer
<1>2. ASSUME TInv, PlanInv, [Next]_vars PROVE PlanInv'
  <2>. USE <1>2, ProcsAre DEF tables, ghosts, PlanInv, WithContainer, Cur, Goto, SetLoc
  <2>0. loc \in [Procs -> Locals] /\ pc \in [Procs -> Pcs] /\ loc["sched"] \in Locals
    BY DEF TInv, TypeInv
  <2>. USE <2>0
  <2>1. ASSUME NEW c \in Containers, NEW d \in Digests, Publish(c, d) PROVE PlanInv'
    BY <2>1 DEF Publish
  <2>2. ASSUME NEW c \in Containers, NEW value \in Policies, SetPolicy(c, value) PROVE PlanInv'
    BY <2>2 DEF SetPolicy
  <2>3. ASSUME Crash PROVE PlanInv'
    BY <2>3 DEF Crash, Fresh
  <2>4. ASSUME NEW p \in {"sched", "check"}, BeginCheck(p) PROVE PlanInv'
    BY <2>4 DEF BeginCheck, Fresh
  <2>5. ASSUME NEW p \in {"sched", "check"}, NEW c \in Containers, NEW answers \in BOOLEAN,
               CompareDigests(p, c, answers)
        PROVE  PlanInv'
    <3>. DEFINE less == [loc[p] EXCEPT !.todo = loc[p].todo \ {c}]
                more == [loc[p] EXCEPT !.todo = loc[p].todo \ {c}, !.cur = c, !.out[c] = remote[c]]
    <3>1. /\ loc' = [loc EXCEPT ![p] = less] \/ loc' = [loc EXCEPT ![p] = more]
          /\ pc'[p] \in {"scan", "describe"}
          /\ \A q \in Procs : q # p => pc'[q] = pc[q]
      BY <2>5 DEF CompareDigests
    <3>2. loc[p] \in Locals
      BY DEF TInv, TypeInv
    <3>3. less.kind = loc[p].kind /\ more.kind = loc[p].kind
      BY <3>2 DEF Locals
    <3>. HIDE DEF less, more
    <3>. QED BY <3>1, <3>3
  <2>6. ASSUME NEW p \in {"sched", "check"}, NEW labels \in BOOLEAN, NEW notes \in BOOLEAN,
               Describe(p, labels, notes)
        PROVE  PlanInv'
    <3>. DEFINE row == InfoFor(VersionOf[loc[p].at[loc[p].cur]],
                               IF labels THEN VersionOf[remote[loc[p].cur]] ELSE Unknown,
                               IF notes THEN Releases ELSE {})
                next == [loc[p] EXCEPT !.infos[loc[p].cur] = row]
    <3>1. loc' = [loc EXCEPT ![p] = next] /\ pc' = [pc EXCEPT ![p] = "scan"]
      BY <2>6 DEF Describe
    <3>2. loc[p] \in Locals
      BY DEF TInv, TypeInv
    <3>3. next.kind = loc[p].kind
      BY <3>2 DEF Locals
    <3>. HIDE DEF next
    <3>. QED BY <3>1, <3>3
  <2>7. ASSUME NEW p \in {"sched", "check"}, SaveAvailable(p) PROVE PlanInv'
    BY <2>7 DEF SaveAvailable, Fresh
  <2>8. ASSUME NEW p \in {"sched", "check"}, SaveInfo(p) PROVE PlanInv'
    BY <2>8 DEF SaveInfo, Fresh
  <2>9. ASSUME List PROVE PlanInv'
    BY <2>9 DEF List, Fresh
  <2>10. ASSUME ReadInfo PROVE PlanInv'
    <3>. DEFINE next == [loc["sched"] EXCEPT !.infos = info,
                           !.todo = {c \in Containers : loc["sched"].out[c] # None}]
    <3>1. loc' = [loc EXCEPT !["sched"] = next] /\ pc' = [pc EXCEPT !["sched"] = "next"]
      BY <2>10 DEF ReadInfo
    <3>2. next.kind = loc["sched"].kind
      BY DEF Locals
    <3>. HIDE DEF next
    <3>. QED BY <3>1, <3>2
  <2>11. ASSUME EndCycle PROVE PlanInv'
    BY <2>11 DEF EndCycle, Fresh
  <2>12. ASSUME NEW c \in Containers, DecideFor(c) PROVE PlanInv'
    <3>. DEFINE next == [loc["sched"] EXCEPT !.todo = loc["sched"].todo \ {c}, !.cur = c]
    <3>1. loc' = [loc EXCEPT !["sched"] = next]
      BY <2>12 DEF DecideFor
    <3>2. next.cur = c /\ next.todo = loc["sched"].todo \ {c} /\ next.kind = loc["sched"].kind
      BY DEF Locals
    <3>. HIDE DEF next
    <3>. QED BY <3>1, <3>2
  <2>13. ASSUME Announce PROVE PlanInv'
    BY <2>13 DEF Announce
  <2>14. ASSUME MarkAnnounced PROVE PlanInv'
    BY <2>14 DEF MarkAnnounced, Return, Fresh
  <2>15. ASSUME MarkAttempted PROVE PlanInv'
    BY <2>15 DEF MarkAttempted
  <2>16. ASSUME NEW c \in Containers, NEW kind \in {"update", "rollback"},
               StartJob(c, kind)
        PROVE  PlanInv'
    BY <2>16 DEF StartJob
  <2>17. ASSUME NEW u \in Updaters, Lock(u) PROVE PlanInv'
    <3>1. CASE u # "sched"
      BY <2>17, <3>1 DEF Lock, Return
    <3>2. CASE u = "sched"
      <4>. DEFINE next == [loc["sched"] EXCEPT !.from = running[Cur], !.got = None]
      <4>1. loc' = [loc EXCEPT !["sched"] = next] /\ pc' = [pc EXCEPT !["sched"] = "pull"]
        BY <2>17, <3>2 DEF Lock
      <4>2. next.kind = loc["sched"].kind /\ next.cur = Cur /\ next.todo = loc["sched"].todo
        BY DEF Locals
      <4>3. pc["sched"] = "lock"
        BY <2>17, <3>2 DEF Lock
      <4>. HIDE DEF next
      <4>. QED BY <4>1, <4>2, <4>3
    <3>. QED BY <3>1, <3>2
  <2>18. ASSUME NEW u \in Updaters, NEW answers \in BOOLEAN, Pull(u, answers) PROVE PlanInv'
    <3>1. CASE u # "sched"
      BY <2>18, <3>1 DEF Pull, Return
    <3>2. CASE u = "sched" /\ answers
      <4>. DEFINE next == [loc["sched"] EXCEPT !.got = remote[Cur]]
      <4>1. loc' = [loc EXCEPT !["sched"] = next] /\ pc' = [pc EXCEPT !["sched"] = "replace"]
        BY <2>18, <3>2 DEF Pull
      <4>2. next.kind = loc["sched"].kind /\ next.cur = Cur /\ next.todo = loc["sched"].todo
        BY DEF Locals
      <4>3. pc["sched"] = "pull"
        BY <2>18, <3>2 DEF Pull
      <4>. HIDE DEF next
      <4>. QED BY <4>1, <4>2, <4>3
    <3>3. CASE u = "sched" /\ ~answers
      BY <2>18, <3>3, SchedulerReturns DEF Pull
    <3>. QED BY <3>1, <3>2, <3>3
  <2>19. ASSUME NEW u \in Updaters, NEW outcome \in Outcomes, NEW left \in Digests,
               Replace(u, outcome, left)
        PROVE  PlanInv'
    <3>. DEFINE next == [loc[u] EXCEPT !.outcome = outcome]
    <3>1. loc' = [loc EXCEPT ![u] = next] /\ pc' = [pc EXCEPT ![u] = "record"] /\ pc[u] = "replace"
      BY <2>19 DEF Replace
    <3>2. loc[u] \in Locals
      BY DEF TInv, TypeInv
    <3>3. next.kind = loc[u].kind /\ next.cur = loc[u].cur /\ next.todo = loc[u].todo
      BY <3>2 DEF Locals
    <3>. HIDE DEF next
    <3>. QED BY <3>1, <3>3
  <2>20. ASSUME NEW u \in Updaters, Record(u) PROVE PlanInv'
    <3>1. CASE u # "sched"
      BY <2>20, <3>1 DEF Record, Return
    <3>2. CASE u = "sched"
      <4>1. pc["sched"] = "record"
        BY <2>20, <3>2 DEF Record
      <4>2. CASE Return("sched")
        BY <4>1, <4>2, SchedulerReturns
      <4>3. CASE Goto("sched", "remove") /\ UNCHANGED loc
        BY <4>1, <4>3
      <4>. QED BY <2>20, <3>2, <4>2, <4>3 DEF Record
    <3>. QED BY <3>1, <3>2
  <2>21. ASSUME NEW u \in Updaters, RemoveRow(u) PROVE PlanInv'
    BY <2>21 DEF RemoveRow, Return, Fresh
  <2>22. CASE UNCHANGED vars
    BY <2>22 DEF vars, PlanInv
  <2>. QED
    BY <1>2, <2>1, <2>2, <2>3, <2>4, <2>5, <2>6, <2>7, <2>8, <2>9, <2>10, <2>11, <2>12, <2>13,
       <2>14, <2>15, <2>16, <2>17, <2>18, <2>19, <2>20, <2>21, <2>22
       DEF Next, Scheduler, CheckStep, CycleStep, UpdateStep, Job, User
<1>. QED BY TypeInvariance, <1>1, <1>2, PTL DEF Spec

\* A row that describes the update of c as it is, or without the new version.
Judged(c, row) ==
    row \in {InfoFor(VersionOf[running[c]], VersionOf[remote[c]], Releases),
             InfoFor(VersionOf[running[c]], Unknown, Releases)}

AllJudged(rows, cs) == \A c \in cs : rows[c] = None \/ Judged(c, rows[c])

\* The policy of c allows the update of c as it is.
Allowed(c) ==
    Decide(policy[c], c \in Protected,
           InfoFor(VersionOf[running[c]], VersionOf[remote[c]], Releases)) = "update"

\* While nothing disturbs the cycle, what the scheduler carries from its check
\* to the replacement stays true of the images.
QuietFacts ==
    /\ pc["sched"] \in {"scan", "describe"} => loc["sched"].at = running
    /\ pc["sched"] \in {"scan", "describe", "save_info"} => AllJudged(loc["sched"].infos, Containers)
    /\ pc["sched"] \in {"list", "read_info"} => AllJudged(info, Containers)
    /\ pc["sched"] \in {"next"} \cup WithContainer => AllJudged(loc["sched"].infos, loc["sched"].todo)
    /\ pc["sched"] \in {"attempt", "lock", "pull", "replace"} => Allowed(Cur)
    /\ pc["sched"] = "replace" => loc["sched"].got = remote[Cur]

QuietInv == quiet => QuietFacts

\* An update whose new version is not known is never automatic.
LEMMA UnknownIsNotAutomatic ==
    ASSUME NEW c \in Containers, NEW row,
           Judged(c, row) \/ row = NoInfo,
           Decide(policy[c], c \in Protected, row) = "update"
    PROVE  Allowed(c)
<1>1. ASSUME NEW old, row = InfoFor(old, Unknown, Releases) PROVE FALSE
  BY <1>1 DEF InfoFor, Decide, Parsed
<1>2. row # NoInfo
  BY DEF NoInfo, Decide, Parsed
<1>. QED BY <1>1, <1>2 DEF Judged, Allowed

\* Steps that leave the scheduler and what its rows speak of alone.
LEMMA SchedulerUndisturbed ==
    ASSUME QuietInv, UNCHANGED <<remote, running, policy, info>>,
           pc'["sched"] = pc["sched"], loc'["sched"] = loc["sched"], quiet' => quiet
    PROVE  QuietInv'
BY DEF QuietInv, QuietFacts, AllJudged, Judged, Allowed, Cur

\* Whoever changes what the rows speak of ends the quiet; the scheduler's own
\* replacement concerns a container it has taken from its list.
LEMMA QuietInvariance == Spec => []QuietInv
<1>1. Init => QuietInv
  BY ProcsAre DEF Init, QuietInv, QuietFacts, WithContainer
<1>2. ASSUME TInv, PlanInv, QuietInv, [Next]_vars PROVE QuietInv'
  <2>. USE <1>2, ProcsAre DEF tables, ghosts
  <2>0. loc \in [Procs -> Locals] /\ pc \in [Procs -> Pcs] /\ loc["sched"] \in Locals
    BY DEF TInv, TypeInv
  <2>. USE <2>0
  <2>1. ASSUME NEW c \in Containers, NEW d \in Digests, Publish(c, d) PROVE QuietInv'
    BY <2>1 DEF Publish, QuietInv
  <2>2. ASSUME NEW c \in Containers, NEW value \in Policies, SetPolicy(c, value) PROVE QuietInv'
    BY <2>2 DEF SetPolicy, QuietInv
  <2>3. ASSUME Crash PROVE QuietInv'
    BY <2>3 DEF Crash, QuietInv, QuietFacts, WithContainer
  <2>4. ASSUME NEW p \in {"sched", "check"}, BeginCheck(p) PROVE QuietInv'
    <3>1. CASE p # "sched"
      BY <2>4, <3>1, SchedulerUndisturbed DEF BeginCheck, Goto, SetLoc, Return
    <3>2. CASE p = "sched"
      <4>1. /\ pc'["sched"] = "scan" /\ loc'["sched"].at = running /\ loc'["sched"].infos = NoRows
            /\ running' = running
        BY <2>4, <3>2 DEF BeginCheck, Goto, SetLoc, Fresh
      <4>. QED BY <4>1 DEF QuietInv, QuietFacts, WithContainer, AllJudged, NoRows
    <3>. QED BY <3>1, <3>2
  <2>5. ASSUME NEW p \in {"sched", "check"}, NEW c \in Containers, NEW answers \in BOOLEAN,
               CompareDigests(p, c, answers)
        PROVE  QuietInv'
    <3>1. CASE p # "sched"
      BY <2>5, <3>1, SchedulerUndisturbed DEF CompareDigests, Goto, SetLoc, Return
    <3>2. CASE p = "sched"
      <4>. DEFINE less == [loc["sched"] EXCEPT !.todo = loc["sched"].todo \ {c}]
                  more == [loc["sched"] EXCEPT !.todo = loc["sched"].todo \ {c}, !.cur = c,
                                               !.out[c] = remote[c]]
      <4>1. /\ loc' = [loc EXCEPT !["sched"] = less] \/ loc' = [loc EXCEPT !["sched"] = more]
            /\ pc["sched"] = "scan" /\ pc'["sched"] \in {"scan", "describe"}
            /\ UNCHANGED <<remote, running, policy, quiet>>
        BY <2>5, <3>2 DEF CompareDigests, Goto, SetLoc
      <4>2. /\ less.at = loc["sched"].at /\ less.infos = loc["sched"].infos
            /\ more.at = loc["sched"].at /\ more.infos = loc["sched"].infos
        BY DEF Locals
      <4>. HIDE DEF less, more
      <4>. QED BY <4>1, <4>2 DEF QuietInv, QuietFacts, WithContainer, AllJudged, Judged
    <3>. QED BY <3>1, <3>2
  <2>6. ASSUME NEW p \in {"sched", "check"}, NEW labels \in BOOLEAN, NEW notes \in BOOLEAN,
               Describe(p, labels, notes)
        PROVE  QuietInv'
    <3>1. CASE p # "sched"
      BY <2>6, <3>1, SchedulerUndisturbed DEF Describe, Goto, SetLoc, Return
    <3>2. CASE p = "sched"
      <4>. DEFINE old  == VersionOf[loc["sched"].at[Cur]]
                  new  == IF labels THEN VersionOf[remote[Cur]] ELSE Unknown
                  row  == InfoFor(old, new, IF notes THEN Releases ELSE {})
                  next == [loc["sched"] EXCEPT !.infos[Cur] = row]
      <4>1. /\ loc' = [loc EXCEPT !["sched"] = next]
            /\ pc["sched"] = "describe" /\ pc'["sched"] = "scan"
            /\ UNCHANGED <<remote, running, policy>>
            /\ quiet' = (quiet /\ notes)
        BY <2>6, <3>2 DEF Describe, Goto, SetLoc, Cur
      <4>2. next.at = loc["sched"].at /\ next.infos = [loc["sched"].infos EXCEPT ![Cur] = row]
        BY DEF Locals
      <4>3. loc["sched"].infos \in InfoTable
        BY DEF Locals
      <4>4. ASSUME quiet, notes PROVE Judged(Cur, row)
        BY <4>1, <4>4 DEF QuietInv, QuietFacts, Judged
      <4>. HIDE DEF row, next
      <4>5. ASSUME quiet, notes PROVE AllJudged(loc'["sched"].infos, Containers)
        BY <4>1, <4>2, <4>3, <4>4, <4>5 DEF QuietInv, QuietFacts, AllJudged, InfoTable
      <4>. QED BY <4>1, <4>2, <4>5 DEF QuietInv, QuietFacts, WithContainer, AllJudged, Judged
    <3>. QED BY <3>1, <3>2
  <2>7. ASSUME NEW p \in {"sched", "check"}, SaveAvailable(p) PROVE QuietInv'
    <3>1. CASE p # "sched"
      BY <2>7, <3>1, SchedulerUndisturbed DEF SaveAvailable, Goto, SetLoc, Return
    <3>2. CASE p = "sched"
      <4>1. /\ loc'["sched"].infos = loc["sched"].infos
            /\ pc["sched"] = "scan" /\ pc'["sched"] = "save_info"
            /\ UNCHANGED <<remote, running, policy>>
            /\ quiet' => quiet
        BY <2>7, <3>2 DEF SaveAvailable, Goto, SetLoc, Fresh
      <4>. QED BY <4>1 DEF QuietInv, QuietFacts, WithContainer, AllJudged, Judged
    <3>. QED BY <3>1, <3>2
  <2>8. ASSUME NEW p \in {"sched", "check"}, SaveInfo(p) PROVE QuietInv'
    <3>1. CASE p # "sched"
      BY <2>8, <3>1 DEF SaveInfo, QuietInv
    <3>2. CASE p = "sched"
      <4>1. /\ info' = loc["sched"].infos
            /\ pc["sched"] = "save_info" /\ pc'["sched"] = "list"
            /\ UNCHANGED <<remote, running, policy>>
            /\ quiet' => quiet
        BY <2>8, <3>2 DEF SaveInfo, Goto, SetLoc
      <4>. QED BY <4>1 DEF QuietInv, QuietFacts, WithContainer, AllJudged, Judged
    <3>. QED BY <3>1, <3>2
  <2>9. ASSUME List PROVE QuietInv'
    <3>1. /\ pc["sched"] = "list" /\ pc'["sched"] = "read_info"
          /\ UNCHANGED <<remote, running, policy, info, quiet>>
      BY <2>9 DEF List, Goto
    <3>. QED BY <3>1 DEF QuietInv, QuietFacts, WithContainer, AllJudged, Judged
  <2>10. ASSUME ReadInfo PROVE QuietInv'
    <3>. DEFINE found == {c \in Containers : loc["sched"].out[c] # None}
                next == [loc["sched"] EXCEPT !.infos = info, !.todo = found]
    <3>1. /\ loc' = [loc EXCEPT !["sched"] = next]
          /\ pc["sched"] = "read_info" /\ pc'["sched"] = "next"
          /\ UNCHANGED <<remote, running, policy, quiet>>
      BY <2>10 DEF ReadInfo, Goto, SetLoc
    <3>2. next.infos = info /\ next.todo = found /\ found \subseteq Containers
      BY DEF Locals
    <3>. HIDE DEF next, found
    <3>. QED BY <3>1, <3>2 DEF QuietInv, QuietFacts, WithContainer, AllJudged, Judged
  <2>11. ASSUME EndCycle PROVE QuietInv'
    BY <2>11 DEF EndCycle, Goto, QuietInv, QuietFacts, WithContainer
  <2>12. ASSUME NEW c \in Containers, DecideFor(c) PROVE QuietInv'
    <3>. DEFINE next == [loc["sched"] EXCEPT !.todo = loc["sched"].todo \ {c}, !.cur = c]
    <3>1. /\ loc' = [loc EXCEPT !["sched"] = next]
          /\ pc["sched"] = "next" /\ pc'["sched"] = ActionFor(c)
          /\ c \in loc["sched"].todo
          /\ UNCHANGED <<remote, running, policy, quiet>>
      BY <2>12 DEF DecideFor, Goto, SetLoc
    <3>2. next.infos = loc["sched"].infos /\ next.todo = loc["sched"].todo \ {c} /\ next.cur = c
      BY DEF Locals
    <3>3. ActionFor(c) \in {"announce", "attempt", "next"}
      BY DEF ActionFor
    <3>4. ASSUME quiet, ActionFor(c) = "attempt" PROVE Allowed(c)
      <4>. DEFINE row == IF loc["sched"].infos[c] = None THEN NoInfo ELSE loc["sched"].infos[c]
      <4>1. Decide(policy[c], c \in Protected, row) = "update"
        BY <3>4 DEF ActionFor
      <4>2. Judged(c, row) \/ row = NoInfo
        BY <3>1, <3>4 DEF QuietInv, QuietFacts, AllJudged
      <4>. HIDE DEF row
      <4>. QED BY <4>1, <4>2, UnknownIsNotAutomatic
    <3>5. Cur' = c
      <4>. HIDE DEF next
      <4>. QED BY <3>1, <3>2 DEF Cur
    <3>6. ASSUME quiet PROVE AllJudged(loc'["sched"].infos, loc'["sched"].todo)
      <4>. HIDE DEF next
      <4>. QED BY <3>1, <3>2, <3>6 DEF QuietInv, QuietFacts, AllJudged
    <3>. HIDE DEF next
    <3>. QED BY <3>1, <3>3, <3>4, <3>5, <3>6 DEF QuietInv, QuietFacts, WithContainer, AllJudged,
       Judged, Allowed
  <2>13. ASSUME Announce PROVE QuietInv'
    <3>1. /\ pc["sched"] = "announce" /\ pc'["sched"] = "mark" /\ loc' = loc
          /\ UNCHANGED <<remote, running, policy, quiet>>
      BY <2>13 DEF Announce, Goto
    <3>. QED BY <3>1 DEF QuietInv, QuietFacts, WithContainer, AllJudged, Judged
  <2>14. ASSUME MarkAnnounced PROVE QuietInv'
    <3>1. /\ pc["sched"] = "mark" /\ pc'["sched"] = "next"
          /\ loc'["sched"].infos = loc["sched"].infos /\ loc'["sched"].todo = loc["sched"].todo
          /\ UNCHANGED <<remote, running, policy, quiet>>
      BY <2>14 DEF MarkAnnounced, Return, Goto, SetLoc, Fresh
    <3>. QED BY <3>1 DEF QuietInv, QuietFacts, WithContainer, AllJudged, Judged
  <2>15. ASSUME MarkAttempted PROVE QuietInv'
    <3>1. /\ pc["sched"] = "attempt" /\ pc'["sched"] = "lock" /\ loc' = loc
          /\ UNCHANGED <<remote, running, policy, quiet>>
      BY <2>15 DEF MarkAttempted, Goto
    <3>. QED BY <3>1 DEF QuietInv, QuietFacts, WithContainer, AllJudged, Judged, Allowed, Cur
  <2>16. ASSUME NEW c \in Containers, NEW kind \in {"update", "rollback"},
               StartJob(c, kind)
        PROVE  QuietInv'
    BY <2>16, SchedulerUndisturbed DEF StartJob, Goto, SetLoc
  <2>17. ASSUME NEW u \in Updaters, Lock(u) PROVE QuietInv'
    <3>1. CASE u # "sched"
      BY <2>17, <3>1, SchedulerUndisturbed DEF Lock, Goto, SetLoc, Return
    <3>2. CASE u = "sched"
      <4>. DEFINE next == [loc["sched"] EXCEPT !.from = running[Cur], !.got = None]
      <4>1. /\ loc' = [loc EXCEPT !["sched"] = next]
            /\ pc["sched"] = "lock" /\ pc'["sched"] = "pull"
            /\ UNCHANGED <<remote, running, policy, quiet>>
        BY <2>17, <3>2 DEF Lock, Goto, SetLoc, PlanInv, Cur
      <4>2. next.infos = loc["sched"].infos /\ next.todo = loc["sched"].todo /\ next.cur = Cur
        BY DEF Locals, Cur
      <4>. HIDE DEF next
      <4>3. Cur' = Cur /\ loc'["sched"].infos = loc["sched"].infos /\ loc'["sched"].todo = loc["sched"].todo
        BY <4>1, <4>2 DEF Cur
      <4>. QED BY <4>1, <4>3 DEF QuietInv, QuietFacts, WithContainer, AllJudged, Judged, Allowed
    <3>. QED BY <3>1, <3>2
  <2>18. ASSUME NEW u \in Updaters, NEW answers \in BOOLEAN, Pull(u, answers) PROVE QuietInv'
    <3>1. CASE u # "sched"
      BY <2>18, <3>1, SchedulerUndisturbed DEF Pull, Goto, SetLoc, Return
    <3>2. CASE u = "sched"
      <4>. DEFINE next == [loc["sched"] EXCEPT !.got = remote[Cur]]
      <4>1. pc["sched"] = "pull" /\ UNCHANGED <<remote, running, policy, quiet>>
        BY <2>18, <3>2 DEF Pull
      <4>2. CASE answers
        <5>1. loc' = [loc EXCEPT !["sched"] = next] /\ pc'["sched"] = "replace"
          BY <2>18, <3>2, <4>2 DEF Pull, Goto, SetLoc, Cur
        <5>2. /\ next.infos = loc["sched"].infos /\ next.todo = loc["sched"].todo /\ next.cur = Cur
              /\ next.got = remote[Cur]
          BY DEF Locals, Cur
        <5>. HIDE DEF next
        <5>3. /\ Cur' = Cur /\ loc'["sched"].infos = loc["sched"].infos
              /\ loc'["sched"].todo = loc["sched"].todo /\ loc'["sched"].got = remote[Cur]
          BY <5>1, <5>2 DEF Cur
        <5>. QED BY <4>1, <5>1, <5>3 DEF QuietInv, QuietFacts, WithContainer, AllJudged, Judged, Allowed
      <4>3. CASE ~answers
        <5>1. /\ pc'["sched"] = "next"
              /\ loc'["sched"].infos = loc["sched"].infos /\ loc'["sched"].todo = loc["sched"].todo
          BY <2>18, <3>2, <4>3, SchedulerReturns DEF Pull
        <5>. QED BY <4>1, <5>1 DEF QuietInv, QuietFacts, WithContainer, AllJudged, Judged
      <4>. QED BY <4>2, <4>3
    <3>. QED BY <3>1, <3>2
  <2>19. ASSUME NEW u \in Updaters, NEW outcome \in Outcomes, NEW left \in Digests,
               Replace(u, outcome, left)
        PROVE  QuietInv'
    <3>1. CASE u # "sched"
      BY <2>19, <3>1 DEF Replace, QuietInv
    <3>2. CASE u = "sched"
      <4>. DEFINE next == [loc["sched"] EXCEPT !.outcome = outcome]
      <4>1. /\ loc' = [loc EXCEPT !["sched"] = next]
            /\ pc["sched"] = "replace" /\ pc'["sched"] = "record"
            /\ running' = [running EXCEPT ![Cur] = left]
            /\ UNCHANGED <<remote, policy>>
            /\ quiet' => quiet
        BY <2>19, <3>2 DEF Replace, Goto, SetLoc, Cur
      <4>2. next.infos = loc["sched"].infos /\ next.todo = loc["sched"].todo
        BY DEF Locals
      <4>. HIDE DEF next
      <4>3. Cur \notin loc["sched"].todo /\ loc["sched"].todo \subseteq Containers
        BY <4>1 DEF PlanInv, WithContainer, Locals
      <4>4. \A c \in loc["sched"].todo : running'[c] = running[c]
        BY <4>1, <4>3 DEF TInv, TypeInv
      <4>5. ASSUME quiet PROVE AllJudged(loc["sched"].infos, loc["sched"].todo)'
        BY <4>1, <4>2, <4>4, <4>5 DEF QuietInv, QuietFacts, WithContainer, AllJudged, Judged
      <4>. QED BY <4>1, <4>5 DEF QuietInv, QuietFacts, WithContainer
    <3>. QED BY <3>1, <3>2
  <2>20. ASSUME NEW u \in Updaters, Record(u) PROVE QuietInv'
    <3>1. CASE u # "sched"
      BY <2>20, <3>1, SchedulerUndisturbed DEF Record, Goto, SetLoc, Return
    <3>2. CASE u = "sched"
      <4>1. /\ pc["sched"] = "record" /\ pc'["sched"] \in {"next", "remove"}
            /\ loc'["sched"].infos = loc["sched"].infos /\ loc'["sched"].todo = loc["sched"].todo
            /\ UNCHANGED <<remote, running, policy, quiet>>
        <5>1. CASE Return("sched")
          BY <2>20, <3>2, <5>1, SchedulerReturns DEF Record
        <5>2. CASE Goto("sched", "remove") /\ UNCHANGED loc
          BY <2>20, <3>2, <5>2 DEF Record, Goto
        <5>. QED BY <2>20, <3>2, <5>1, <5>2 DEF Record
      <4>. QED BY <4>1 DEF QuietInv, QuietFacts, WithContainer, AllJudged, Judged
    <3>. QED BY <3>1, <3>2
  <2>21. ASSUME NEW u \in Updaters, RemoveRow(u) PROVE QuietInv'
    <3>1. CASE u # "sched"
      BY <2>21, <3>1, SchedulerUndisturbed DEF RemoveRow, Goto, SetLoc, Return
    <3>2. CASE u = "sched"
      <4>1. /\ pc["sched"] = "remove" /\ pc'["sched"] = "next"
            /\ loc'["sched"].infos = loc["sched"].infos /\ loc'["sched"].todo = loc["sched"].todo
            /\ UNCHANGED <<remote, running, policy, quiet>>
        BY <2>21, <3>2 DEF RemoveRow, Return, Goto, SetLoc, Fresh
      <4>. QED BY <4>1 DEF QuietInv, QuietFacts, WithContainer, AllJudged, Judged
    <3>. QED BY <3>1, <3>2
  <2>22. CASE UNCHANGED vars
    BY <2>22 DEF vars, QuietInv, QuietFacts, AllJudged, Judged, Allowed, Cur
  <2>. QED
    BY <1>2, <2>1, <2>2, <2>3, <2>4, <2>5, <2>6, <2>7, <2>8, <2>9, <2>10, <2>11, <2>12, <2>13,
       <2>14, <2>15, <2>16, <2>17, <2>18, <2>19, <2>20, <2>21, <2>22
       DEF Next, Scheduler, CheckStep, CycleStep, UpdateStep, Job, User
<1>. QED BY TypeInvariance, PlanInvariance, <1>1, <1>2, PTL DEF Spec

\* In a cycle that nothing disturbs and that gets the release notes, what the
\* scheduler installs is a step that the policy allows, for any history of
\* earlier checks, failed calls and crashes.
THEOREM QuietCycleSafe == Spec => QuietCycleIsSafe
<1>1. ASSUME TInv, MutexInv, QuietInv, Next, quiet, NEW c \in Containers, AutoReplaces(c)
      PROVE  SafeStep(c)
  <2>. USE <1>1 DEF tables
  <2>1. pc["sched"] = "replace" /\ Cur = c /\ running'[c] # running[c]
    BY DEF AutoReplaces, Cur
  <2>2. PICK u \in Updaters, outcome \in Outcomes, left \in Digests : Replace(u, outcome, left)
    BY <2>1, ProcsAre
       DEF Next, Scheduler, CheckStep, CycleStep, UpdateStep, Job, User, Publish, SetPolicy, Crash,
           BeginCheck, CompareDigests, Describe, SaveAvailable, SaveInfo, List, ReadInfo, DecideFor,
           EndCycle, Announce, MarkAnnounced, MarkAttempted, StartJob, Lock, Pull, Record, RemoveRow
  <2>3. u = "sched"
    BY <2>1, <2>2, ProcsAre DEF Replace, MutexInv
  <2>4. running'[c] = remote[c]
    BY <2>1, <2>2, <2>3 DEF Replace, TInv, TypeInv, Cur, QuietInv, QuietFacts
  <2>. QED BY <2>1, <2>4 DEF QuietInv, QuietFacts, Allowed, SafeStep
<1>2. TInv /\ MutexInv /\ QuietInv /\ [Next]_vars =>
        [quiet => \A c \in Containers : AutoReplaces(c) => SafeStep(c)]_vars
  BY <1>1
<1>. QED BY TypeInvariance, MutexInvariance, QuietInvariance, <1>2, PTL DEF Spec, QuietCycleIsSafe

-----------------------------------------------------------------------------
(* Every check, cycle and job comes to an end.                              *)

\* The steps left with the container at hand: no path through Update, Rollback
\* or announce is longer.
ContainerSteps(l) ==
    CASE l = "attempt"               -> 7
      [] l = "lock"                  -> 6
      [] l = "pull"                  -> 5
      [] l = "replace"               -> 4
      [] l = "record"                -> 3
      [] l = "announce"              -> 2
      [] l \in {"mark", "remove"}    -> 1
      [] OTHER                       -> 0

\* The steps left from l on, with t containers still to come: a check, and then
\* the rows it found.
Steps(l, t) ==
    CASE l = "idle"      -> 0
      [] l = "scan"      -> 8 * Cardinality(Containers) + 5 + 2 * t
      [] l = "describe"  -> 8 * Cardinality(Containers) + 6 + 2 * t
      [] l = "save_info" -> 8 * Cardinality(Containers) + 4
      [] l = "list"      -> 8 * Cardinality(Containers) + 3
      [] l = "read_info" -> 8 * Cardinality(Containers) + 2
      [] OTHER           -> 8 * t + 1 + ContainerSteps(l)

\* What process p still has to do at most.
StepsLeft(p) == Steps(pc[p], Cardinality(loc[p].todo))

\* Nothing that anybody does gives a process at work more to do.
StayOrShrink ==
    \A p \in Procs : pc[p] # "idle" =>
      \/ pc'[p] = pc[p] /\ loc'[p] = loc[p]
      \/ StepsLeft(p)' < StepsLeft(p)

WorkShrinks == [][StayOrShrink]_vars

FewStepsLeft == \A p \in Procs : StepsLeft(p) \in 0 .. 10 * Cardinality(Containers) + 8

\* A set of containers has as many members as Containers at most.
LEMMA TodoFinite ==
    ASSUME IsFiniteSet(Containers), TInv, NEW p \in Procs
    PROVE  /\ IsFiniteSet(loc[p].todo)
           /\ Cardinality(loc[p].todo) \in Nat
           /\ Cardinality(loc[p].todo) <= Cardinality(Containers)
           /\ Cardinality(Containers) \in Nat
<1>1. loc[p].todo \in SUBSET Containers
  BY DEF TInv, TypeInv, Locals
<1>. QED BY <1>1, FS_Subset, FS_CardinalityType

\* A step of q leaves the others where they are.
LEMMA OthersStay ==
    ASSUME TInv, NEW q \in Procs, NEW l, NEW new, Goto(q, l), SetLoc(q, new)
    PROVE  /\ pc'[q] = l /\ loc'[q] = new
           /\ \A p \in Procs \ {q} : pc'[p] = pc[p] /\ loc'[p] = loc[p]
BY DEF TInv, TypeInv, Goto, SetLoc

\* Progress of q alone.
Advances(q) ==
    /\ \A p \in Procs \ {q} : pc'[p] = pc[p] /\ loc'[p] = loc[p]
    /\ StepsLeft(q)' < StepsLeft(q)

\* A check comes closer to its end with each container and each table.
LEMMA CheckAdvances ==
    ASSUME IsFiniteSet(Containers), TInv, NEW q \in {"sched", "check"}, CheckStep(q)
    PROVE  Advances(q)
<1>. DEFINE t == Cardinality(loc[q].todo)
            n == Cardinality(Containers)
<1>1. q \in Procs /\ loc[q] \in Locals /\ pc[q] \in Pcs
  BY ProcsAre DEF TInv, TypeInv
<1>2. t \in Nat /\ n \in Nat /\ t <= n /\ IsFiniteSet(loc[q].todo)
  BY <1>1, TodoFinite
<1>3. ASSUME NEW c \in Containers, NEW answers \in BOOLEAN, CompareDigests(q, c, answers)
      PROVE  Advances(q)
  <2>1. pc[q] = "scan" /\ c \in loc[q].todo
    BY <1>3 DEF CompareDigests
  <2>2. Cardinality(loc[q].todo \ {c}) = t - 1
    BY <1>2, <2>1, FS_RemoveElement
  <2>3. StepsLeft(q) = 8 * n + 5 + 2 * t
    BY <2>1 DEF StepsLeft, Steps
  <2>4. CASE answers /\ remote[c] # loc[q].at[c]
    <3>. DEFINE new == [loc[q] EXCEPT !.todo = @ \ {c}, !.cur = c, !.out[c] = remote[c]]
    <3>1. Goto(q, "describe") /\ SetLoc(q, new)
      BY <1>3, <2>4 DEF CompareDigests
    <3>2. new.todo = loc[q].todo \ {c}
      BY <1>1 DEF Locals
    <3>. HIDE DEF new
    <3>3. /\ pc'[q] = "describe" /\ loc'[q] = new
          /\ \A p \in Procs \ {q} : pc'[p] = pc[p] /\ loc'[p] = loc[p]
      BY <1>1, <3>1, OthersStay
    <3>4. StepsLeft(q)' = 8 * n + 6 + 2 * (t - 1)
      BY <2>2, <3>2, <3>3 DEF StepsLeft, Steps
    <3>. QED BY <1>2, <2>3, <3>3, <3>4 DEF Advances
  <2>5. CASE ~(answers /\ remote[c] # loc[q].at[c])
    <3>. DEFINE new == [loc[q] EXCEPT !.todo = @ \ {c}]
    <3>1. Goto(q, "scan") /\ SetLoc(q, new)
      BY <1>1, <1>3, <2>1, <2>5 DEF CompareDigests, Goto, TInv, TypeInv
    <3>2. new.todo = loc[q].todo \ {c}
      BY <1>1 DEF Locals
    <3>. HIDE DEF new
    <3>3. /\ pc'[q] = "scan" /\ loc'[q] = new
          /\ \A p \in Procs \ {q} : pc'[p] = pc[p] /\ loc'[p] = loc[p]
      BY <1>1, <3>1, OthersStay
    <3>4. StepsLeft(q)' = 8 * n + 5 + 2 * (t - 1)
      BY <2>2, <3>2, <3>3 DEF StepsLeft, Steps
    <3>. QED BY <1>2, <2>3, <3>3, <3>4 DEF Advances
  <2>. QED BY <2>4, <2>5
<1>4. ASSUME NEW labels \in BOOLEAN, NEW notes \in BOOLEAN, Describe(q, labels, notes)
      PROVE  Advances(q)
  <2>. DEFINE row == InfoFor(VersionOf[loc[q].at[loc[q].cur]],
                             IF labels THEN VersionOf[remote[loc[q].cur]] ELSE Unknown,
                             IF notes THEN Releases ELSE {})
              new == [loc[q] EXCEPT !.infos[loc[q].cur] = row]
  <2>1. pc[q] = "describe" /\ Goto(q, "scan") /\ SetLoc(q, new)
    BY <1>4 DEF Describe
  <2>2. new.todo = loc[q].todo
    BY <1>1 DEF Locals
  <2>. HIDE DEF new
  <2>3. /\ pc'[q] = "scan" /\ loc'[q] = new
        /\ \A p \in Procs \ {q} : pc'[p] = pc[p] /\ loc'[p] = loc[p]
    BY <1>1, <2>1, OthersStay
  <2>4. StepsLeft(q)' = 8 * n + 5 + 2 * t /\ StepsLeft(q) = 8 * n + 6 + 2 * t
    BY <2>1, <2>2, <2>3 DEF StepsLeft, Steps
  <2>. QED BY <1>2, <2>3, <2>4 DEF Advances
<1>5. CASE SaveAvailable(q)
  <2>1. /\ pc[q] = "scan" /\ pc'[q] = "save_info"
        /\ \A p \in Procs \ {q} : pc'[p] = pc[p] /\ loc'[p] = loc[p]
    BY <1>1, <1>5, OthersStay DEF SaveAvailable
  <2>2. StepsLeft(q)' = 8 * n + 4 /\ StepsLeft(q) = 8 * n + 5 + 2 * t
    BY <2>1 DEF StepsLeft, Steps
  <2>. QED BY <1>2, <2>1, <2>2 DEF Advances
<1>6. CASE SaveInfo(q)
  <2>1. /\ pc[q] = "save_info" /\ pc'[q] \in {"list", "idle"}
        /\ \A p \in Procs \ {q} : pc'[p] = pc[p] /\ loc'[p] = loc[p]
    BY <1>1, <1>6, OthersStay DEF SaveInfo
  <2>2. StepsLeft(q)' \in {8 * n + 3, 0} /\ StepsLeft(q) = 8 * n + 4
    BY <2>1 DEF StepsLeft, Steps
  <2>. QED BY <1>2, <2>1, <2>2 DEF Advances
<1>. QED BY <1>3, <1>4, <1>5, <1>6 DEF CheckStep

\* A process that is done with a container has no step with it left.
LEMMA ReturnAdvances ==
    ASSUME IsFiniteSet(Containers), TInv, NEW u \in Updaters, Return(u),
           ContainerSteps(pc[u]) > 0, pc[u] \notin {"idle", "scan", "describe", "save_info", "list", "read_info"}
    PROVE  Advances(u)
<1>. DEFINE t == Cardinality(loc[u].todo)
<1>1. u \in Procs /\ t \in Nat
  BY ProcsAre, TodoFinite
<1>2. StepsLeft(u) = 8 * t + 1 + ContainerSteps(pc[u]) /\ ContainerSteps(pc[u]) \in Nat
  BY DEF StepsLeft, Steps, ContainerSteps
<1>3. CASE u = "sched"
  <2>. DEFINE new == [Fresh EXCEPT !.todo = loc[u].todo, !.out = loc[u].out, !.infos = loc[u].infos]
  <2>1. Goto(u, "next") /\ SetLoc(u, new) /\ new.todo = loc[u].todo
    BY <1>3 DEF Return, Fresh
  <2>. HIDE DEF new
  <2>2. /\ pc'[u] = "next" /\ loc'[u] = new
        /\ \A p \in Procs \ {u} : pc'[p] = pc[p] /\ loc'[p] = loc[p]
    BY <1>1, <2>1, OthersStay
  <2>3. StepsLeft(u)' = 8 * t + 1
    BY <1>1, <2>1, <2>2 DEF StepsLeft, Steps, ContainerSteps
  <2>. QED BY <1>1, <1>2, <2>2, <2>3 DEF Advances
<1>4. CASE u # "sched"
  <2>1. /\ pc'[u] = "idle"
        /\ \A p \in Procs \ {u} : pc'[p] = pc[p] /\ loc'[p] = loc[p]
    BY <1>1, <1>4, OthersStay DEF Return
  <2>2. StepsLeft(u)' = 0
    BY <2>1 DEF StepsLeft, Steps
  <2>. QED BY <1>1, <1>2, <2>1, <2>2 DEF Advances
<1>. QED BY <1>3, <1>4

\* A process goes on with the container at hand, and fewer steps are left with it.
LEMMA GoesOn ==
    ASSUME IsFiniteSet(Containers), TInv, NEW u \in Procs, NEW l, NEW new, Goto(u, l), SetLoc(u, new),
           new.todo = loc[u].todo,
           {l, pc[u]} \subseteq Pcs \ {"idle", "scan", "describe", "save_info", "list", "read_info"},
           ContainerSteps(l) < ContainerSteps(pc[u])
    PROVE  Advances(u)
<1>. DEFINE t == Cardinality(loc[u].todo)
<1>1. t \in Nat
  BY TodoFinite
<1>2. /\ pc'[u] = l /\ loc'[u] = new
      /\ \A p \in Procs \ {u} : pc'[p] = pc[p] /\ loc'[p] = loc[p]
  BY OthersStay
<1>3. /\ StepsLeft(u) = 8 * t + 1 + ContainerSteps(pc[u])
      /\ StepsLeft(u)' = 8 * t + 1 + ContainerSteps(l)
  BY <1>2 DEF StepsLeft, Steps, ContainerSteps
<1>4. ContainerSteps(pc[u]) \in Nat /\ ContainerSteps(l) \in Nat
  BY DEF ContainerSteps
<1>. QED BY <1>1, <1>2, <1>3, <1>4 DEF Advances

\* An update or a rollback comes closer to its return with each step.
LEMMA UpdateAdvances ==
    ASSUME IsFiniteSet(Containers), TInv, NEW u \in Updaters, UpdateStep(u)
    PROVE  Advances(u)
<1>1. u \in Procs /\ loc[u] \in Locals
  BY ProcsAre DEF TInv, TypeInv
<1>2. CASE Lock(u)
  <2>. DEFINE back == loc[u].kind = "rollback"
              new  == [loc[u] EXCEPT !.from = running[loc[u].cur],
                                     !.got = IF back THEN previous[loc[u].cur] ELSE None]
  <2>1. pc[u] = "lock"
    BY <1>2 DEF Lock
  <2>2. CASE Return(u)
    BY <2>1, <2>2, ReturnAdvances DEF ContainerSteps
  <2>3. CASE ~Return(u)
    <3>1. Goto(u, IF back THEN "replace" ELSE "pull") /\ SetLoc(u, new) /\ new.todo = loc[u].todo
      BY <1>1, <1>2, <2>3 DEF Lock, Locals
    <3>. HIDE DEF new, back
    <3>2. CASE back
      BY <1>1, <2>1, <3>1, <3>2, GoesOn DEF ContainerSteps, Pcs
    <3>3. CASE ~back
      BY <1>1, <2>1, <3>1, <3>3, GoesOn DEF ContainerSteps, Pcs
    <3>. QED BY <3>2, <3>3
  <2>. QED BY <2>2, <2>3
<1>3. ASSUME NEW answers \in BOOLEAN, Pull(u, answers) PROVE Advances(u)
  <2>. DEFINE new == [loc[u] EXCEPT !.got = remote[loc[u].cur]]
  <2>1. pc[u] = "pull"
    BY <1>3 DEF Pull
  <2>2. CASE answers
    <3>1. Goto(u, "replace") /\ SetLoc(u, new) /\ new.todo = loc[u].todo
      BY <1>1, <1>3, <2>2 DEF Pull, Locals
    <3>. HIDE DEF new
    <3>. QED BY <1>1, <2>1, <3>1, GoesOn DEF ContainerSteps, Pcs
  <2>3. CASE ~answers
    BY <1>3, <2>1, <2>3, ReturnAdvances DEF Pull, ContainerSteps
  <2>. QED BY <2>2, <2>3
<1>4. ASSUME NEW outcome \in Outcomes, NEW left \in Digests, Replace(u, outcome, left) PROVE Advances(u)
  <2>. DEFINE new == [loc[u] EXCEPT !.outcome = outcome]
  <2>1. pc[u] = "replace" /\ Goto(u, "record") /\ SetLoc(u, new) /\ new.todo = loc[u].todo
    BY <1>1, <1>4 DEF Replace, Locals
  <2>. HIDE DEF new
  <2>. QED BY <1>1, <2>1, GoesOn DEF ContainerSteps, Pcs
<1>5. CASE Record(u)
  <2>1. pc[u] = "record"
    BY <1>5 DEF Record
  <2>2. \/ Goto(u, "remove") /\ SetLoc(u, loc[u])
        \/ Return(u)
    BY <1>1, <1>5 DEF Record, SetLoc, TInv, TypeInv
  <2>3. CASE Goto(u, "remove") /\ SetLoc(u, loc[u])
    BY <1>1, <2>1, <2>3, GoesOn DEF ContainerSteps, Pcs
  <2>4. CASE Return(u)
    BY <2>1, <2>4, ReturnAdvances DEF ContainerSteps
  <2>. QED BY <2>2, <2>3, <2>4
<1>6. CASE RemoveRow(u)
  BY <1>6, ReturnAdvances DEF RemoveRow, ContainerSteps
<1>. QED BY <1>2, <1>3, <1>4, <1>5, <1>6 DEF UpdateStep

\* The rest of a cycle comes closer to its end with each row.
LEMMA CycleAdvances ==
    ASSUME IsFiniteSet(Containers), TInv, CycleStep
    PROVE  Advances("sched")
<1>. DEFINE q == "sched"
            t == Cardinality(loc[q].todo)
            n == Cardinality(Containers)
<1>1. q \in Procs /\ q \in Updaters /\ loc[q] \in Locals
  BY ProcsAre DEF TInv, TypeInv
<1>2. t \in Nat /\ n \in Nat /\ t <= n /\ IsFiniteSet(loc[q].todo)
  BY <1>1, TodoFinite
<1>3. CASE List
  <2>1. /\ pc[q] = "list" /\ pc'[q] = "read_info"
        /\ \A p \in Procs \ {q} : pc'[p] = pc[p] /\ loc'[p] = loc[p]
    BY <1>1, <1>3, OthersStay DEF List
  <2>2. StepsLeft(q)' = 8 * n + 2 /\ StepsLeft(q) = 8 * n + 3
    BY <2>1 DEF StepsLeft, Steps
  <2>. QED BY <1>2, <2>1, <2>2 DEF Advances
<1>4. CASE ReadInfo
  <2>. DEFINE plan == {c \in Containers : loc[q].out[c] # None}
              new  == [loc[q] EXCEPT !.infos = info, !.todo = plan]
  <2>1. pc[q] = "read_info" /\ Goto(q, "next") /\ SetLoc(q, new) /\ new.todo = plan
    BY <1>1, <1>4 DEF ReadInfo, Locals
  <2>2. Cardinality(plan) \in Nat /\ Cardinality(plan) <= n
    BY FS_Subset, FS_CardinalityType
  <2>. HIDE DEF new, plan
  <2>3. /\ pc'[q] = "next" /\ loc'[q] = new
        /\ \A p \in Procs \ {q} : pc'[p] = pc[p] /\ loc'[p] = loc[p]
    BY <1>1, <2>1, OthersStay
  <2>4. StepsLeft(q)' = 8 * Cardinality(plan) + 1 /\ StepsLeft(q) = 8 * n + 2
    BY <2>1, <2>2, <2>3 DEF StepsLeft, Steps, ContainerSteps
  <2>. QED BY <1>2, <2>2, <2>3, <2>4 DEF Advances
<1>5. CASE EndCycle
  <2>1. /\ pc[q] = "next" /\ pc'[q] = "idle"
        /\ \A p \in Procs \ {q} : pc'[p] = pc[p] /\ loc'[p] = loc[p]
    BY <1>1, <1>5, OthersStay DEF EndCycle
  <2>2. StepsLeft(q)' = 0 /\ StepsLeft(q) = 8 * t + 1
    BY <1>2, <2>1 DEF StepsLeft, Steps, ContainerSteps
  <2>. QED BY <1>2, <2>1, <2>2 DEF Advances
<1>6. ASSUME NEW c \in Containers, DecideFor(c) PROVE Advances(q)
  <2>. DEFINE new == [loc[q] EXCEPT !.todo = @ \ {c}, !.cur = c]
              l   == ActionFor(c)
  <2>1. pc[q] = "next" /\ c \in loc[q].todo /\ Goto(q, l) /\ SetLoc(q, new)
    BY <1>6 DEF DecideFor
  <2>2. new.todo = loc[q].todo \ {c}
    BY <1>1 DEF Locals
  <2>3. Cardinality(loc[q].todo \ {c}) = t - 1
    BY <1>2, <2>1, FS_RemoveElement
  <2>4. l \in {"announce", "attempt", "next"}
    BY DEF ActionFor
  <2>. HIDE DEF new, l
  <2>5. /\ pc'[q] = l /\ loc'[q] = new
        /\ \A p \in Procs \ {q} : pc'[p] = pc[p] /\ loc'[p] = loc[p]
    BY <1>1, <2>1, OthersStay
  <2>6. ContainerSteps(l) \in 0..7
    BY DEF ContainerSteps
  <2>7. StepsLeft(q)' = 8 * (t - 1) + 1 + ContainerSteps(l)
    BY <2>2, <2>3, <2>4, <2>5 DEF StepsLeft, Steps
  <2>8. StepsLeft(q) = 8 * t + 1
    BY <1>2, <2>1 DEF StepsLeft, Steps, ContainerSteps
  <2>. QED BY <1>2, <2>5, <2>6, <2>7, <2>8 DEF Advances
<1>7. CASE Announce
  <2>1. pc[q] = "announce" /\ Goto(q, "mark") /\ SetLoc(q, loc[q])
    BY <1>1, <1>7 DEF Announce, SetLoc, TInv, TypeInv
  <2>. QED BY <1>1, <2>1, GoesOn DEF ContainerSteps, Pcs
<1>8. CASE MarkAnnounced
  BY <1>1, <1>8, ReturnAdvances DEF MarkAnnounced, ContainerSteps
<1>9. CASE MarkAttempted
  <2>1. pc[q] = "attempt" /\ Goto(q, "lock") /\ SetLoc(q, loc[q])
    BY <1>1, <1>9 DEF MarkAttempted, SetLoc, TInv, TypeInv
  <2>. QED BY <1>1, <2>1, GoesOn DEF ContainerSteps, Pcs
<1>. QED BY <1>3, <1>4, <1>5, <1>6, <1>7, <1>8, <1>9 DEF CycleStep

\* A process at work is not yet at its end, and never far from it.
LEMMA StepsBounded ==
    ASSUME IsFiniteSet(Containers), TInv, NEW p \in Procs
    PROVE  /\ StepsLeft(p) \in 0 .. 10 * Cardinality(Containers) + 8
           /\ pc[p] # "idle" => StepsLeft(p) > 0
<1>1. ContainerSteps(pc[p]) \in 0..7
  BY DEF ContainerSteps
<1>. QED BY <1>1, TodoFinite DEF StepsLeft, Steps

\* Neither a cycle of the scheduler, nor a check, nor an update, nor a rollback
\* goes on for ever, or is given more to do by what publishes, users and other
\* processes do meanwhile: whatever happens, a process at work stays where it is
\* or comes closer to its end, of which it is never more than ten steps for
\* each container and eight away.
THEOREM WorkEnds ==
    IsFiniteSet(Containers) => (Spec => WorkShrinks /\ []FewStepsLeft)
<1>. SUFFICES ASSUME IsFiniteSet(Containers) PROVE Spec => WorkShrinks /\ []FewStepsLeft
  OBVIOUS
<1>1. ASSUME TInv, [Next]_vars, NEW p \in Procs, pc[p] # "idle"
      PROVE  (pc'[p] = pc[p] /\ loc'[p] = loc[p]) \/ StepsLeft(p)' < StepsLeft(p)
  <2>1. ASSUME NEW q \in Procs, Advances(q)
        PROVE  (pc'[p] = pc[p] /\ loc'[p] = loc[p]) \/ StepsLeft(p)' < StepsLeft(p)
    BY <2>1 DEF Advances
  <2>2. CASE Scheduler
    <3>1. CASE BeginCheck("sched")
      BY <1>1, <3>1, ProcsAre, OthersStay DEF BeginCheck
    <3>2. CASE CheckStep("sched")
      BY <1>1, <2>1, <3>2, ProcsAre, CheckAdvances
    <3>3. CASE CycleStep
      BY <1>1, <2>1, <3>3, ProcsAre, CycleAdvances
    <3>4. CASE UpdateStep("sched")
      BY <1>1, <2>1, <3>4, ProcsAre, UpdateAdvances
    <3>. QED BY <2>2, <3>1, <3>2, <3>3, <3>4 DEF Scheduler
  <2>3. CASE CheckStep("check")
    BY <1>1, <2>1, <2>3, ProcsAre, CheckAdvances
  <2>4. ASSUME NEW c \in Containers, Job(c)
        PROVE  (pc'[p] = pc[p] /\ loc'[p] = loc[p]) \/ StepsLeft(p)' < StepsLeft(p)
    BY <1>1, <2>1, <2>4, ProcsAre, UpdateAdvances DEF Job
  <2>5. CASE User
    <3>1. CASE BeginCheck("check")
      BY <1>1, <3>1, ProcsAre, OthersStay DEF BeginCheck
    <3>2. ASSUME NEW c \in Containers, NEW kind \in {"update", "rollback"}, StartJob(c, kind)
          PROVE  pc'[p] = pc[p] /\ loc'[p] = loc[p]
      BY <1>1, <3>2, ProcsAre, OthersStay DEF StartJob
    <3>3. ASSUME NEW c \in Containers, NEW value \in Policies, SetPolicy(c, value)
          PROVE  pc'[p] = pc[p] /\ loc'[p] = loc[p]
      BY <3>3 DEF SetPolicy
    <3>. QED BY <2>5, <3>1, <3>2, <3>3 DEF User
  <2>6. ASSUME NEW c \in Containers, NEW d \in Digests, Publish(c, d)
        PROVE  pc'[p] = pc[p] /\ loc'[p] = loc[p]
    BY <2>6 DEF Publish
  <2>7. CASE Crash
    <3>1. StepsLeft(p)' = 0
      BY <2>7 DEF Crash, StepsLeft, Steps
    <3>. QED BY <1>1, <3>1, StepsBounded
  <2>8. CASE UNCHANGED vars
    BY <2>8 DEF vars
  <2>. QED BY <1>1, <2>2, <2>3, <2>4, <2>5, <2>6, <2>7, <2>8 DEF Next
<1>2. TInv => FewStepsLeft
  BY StepsBounded DEF FewStepsLeft
<1>3. TInv /\ [Next]_vars => StayOrShrink
  BY <1>1 DEF StayOrShrink
<1>. QED BY <1>2, <1>3, TypeInvariance, PTL DEF Spec, WorkShrinks
=============================================================================
