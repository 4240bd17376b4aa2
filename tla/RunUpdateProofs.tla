-------------------------- MODULE RunUpdateProofs --------------------------
(***************************************************************************)
(* Theorems about RunUpdate, for every set of images and every number of   *)
(* updates and crashes.                                                    *)
(***************************************************************************)
EXTENDS RunUpdate, FiniteSetTheorems, TLAPS

\* Where upd.jid names the entry the process works on.
AtWork == pc \in (UpdatePcs \cup RepairPcs) \ {"rec_next"}

\* While the process has a new container at hand, it is the one of its entry.
TInv ==
    /\ TypeOK
    /\ AtWork => upd.jid \in Entries
    /\ pc \in {"mark_created", "start", "verify", "mark_verified", "remove_old", "rb_remove"} =>
         upd.new = upd.jid

-----------------------------------------------------------------------------
(* Containers and the entries they belong to.                              *)

\* Entry j creates container j, and never replaces it by itself.
EntryIds ==
    \A j \in Entries : journal[j].new \in {NoId, j} /\ journal[j].old # j

\* A container that exists belongs to an entry that has begun.
NoForeigner == \A c \in live : c = 0 \/ journal[c].step # "none"

\* So does the update in progress, and what it replaces is older.
UpdateHasBegun ==
    pc \in UpdatePcs =>
      journal[upd.jid].step # "none" /\ upd.old # upd.jid /\ upd.old \in Ids

FInv == TInv /\ EntryIds /\ NoForeigner /\ UpdateHasBegun

-----------------------------------------------------------------------------
(* The names and the running containers.                                   *)

NamesUnique == \A c, d \in live : name[c] = name[d] => c = d

\* A container that is kept aside runs only when nothing else is there.
AsideIsStopped == \A c \in live : up[c] /\ name[c] = "app-nu-old" => live = {c}

\* What each place in Update and Reconcile knows about the containers.
Located ==
    /\ pc \in {"pull", "inspect", "stop"} =>
         upd.old \in live /\ name[upd.old] = "app" /\ up[upd.old] = upd.wasRunning
    /\ pc = "rename"      => upd.old \in live /\ name[upd.old] = "app" /\ ~up[upd.old]
    /\ pc = "restart_old" => name[upd.old] = "app" \/ live = {upd.old}
    /\ pc \in {"mark_renamed", "create"} => live = {upd.old} /\ ~up[upd.old]
    /\ pc \in {"mark_created", "start"}  => name[upd.new] = "app"
    /\ pc = "rb_start"    => name[upd.old] = "app"
    /\ pc = "rec_start"   => name[entry.old] = "app"

RInv == FInv /\ NamesUnique /\ AsideIsStopped /\ Located

-----------------------------------------------------------------------------
(* The journal and the containers known to work.                           *)

\* A container was verified, but the journal does not say so: the write failed.
Unrecorded == \E c \in good \ {0} : journal[c].step # "verified"

\* Entries are begun in the order of their numbers, and replace what is older.
InOrder ==
    \A j, k \in Entries :
      /\ journal[j].step = "none" /\ journal[k].step # "none" => k < j
      /\ journal[j].step # "none" => journal[j].old \in Ids /\ journal[j].old < j

\* What works belongs to an entry that has begun; a verified entry has made one.
GoodHasEntry ==
    /\ \A c \in good : c = 0 \/ journal[c].step # "none"
    /\ \A j \in Entries : journal[j].step = "verified" => j \in good

\* Where Update and Reconcile are with the newest entry, or the one to repair.
AtHand ==
    /\ pc \in UpdatePcs =>
         /\ upd.old < upd.jid
         /\ \A k \in Entries : journal[k].step # "none" => k <= upd.jid
    /\ pc \in UpdatePcs \ {"remove_old", "close"} => upd.jid \notin good
    /\ pc \in {"mark_created", "start", "verify", "mark_verified"} => upd.jid \in live
    /\ pc = "remove_old" => upd.jid \in good
    /\ pc = "rec_finish" => journal[upd.jid].step = "verified"
    /\ pc = "rec_remove" => journal[upd.jid].step # "verified"

EInv == FInv /\ InOrder /\ GoodHasEntry /\ AtHand

\* The last container that was found to work exists.
NewestLives == \E g \in good \cap live : \A c \in good : c <= g

-----------------------------------------------------------------------------
(* Types                                                                   *)

\* Init has the right types, and no entry is at work yet.
LEMMA InitTypes == Init => TInv
<1> SUFFICES ASSUME Init PROVE TInv
  OBVIOUS
<1>1. 0 \in Ids /\ 0 \in 0..MaxUpdates /\ 0 \in 0..MaxCrashes
  BY BoundsAssumption DEF Ids
<1>2. image \in [Ids -> Images] /\ tag \in Images
  BY <1>1 DEF Init
<1>3. NoEntry \in Rows /\ NoUpdate \in Locals
  BY <1>1 DEF NoEntry, NoUpdate, Rows, Locals, StepNames, Outcomes
<1> QED
  BY <1>1, <1>2, <1>3 DEF Init, TInv, TypeOK, AtWork, Pcs, UpdatePcs, RepairPcs

\* The entry at hand is typed, and the idle value of upd is.
LEMMA EntryType ==
    ASSUME TInv, AtWork
    PROVE  /\ entry \in Rows
           /\ entry.new \in Ids \cup {NoId}
           /\ entry.old \in Ids \cup {NoId}
           /\ upd.jid \in Entries /\ upd.jid \in Ids
BY BoundsAssumption DEF TInv, TypeOK, entry, Entries, Ids, Rows

\* The local variables of an update are of the right type, field by field.
LEMMA LocalsType ==
    ASSUME NEW u \in Locals
    PROVE  /\ \A o \in Outcomes : [u EXCEPT !.outcome = o] \in Locals
           /\ \A c \in Ids : [u EXCEPT !.new = c] \in Locals
           /\ \A j \in Entries : [NoUpdate EXCEPT !.jid = j] \in Locals
           /\ NoUpdate \in Locals
           /\ u.old \in Ids \cup {NoId} /\ u.new \in Ids \cup {NoId} /\ u.wasRunning \in BOOLEAN
<1>1. NoUpdate \in Locals
  <2>1. 0 \in 0..MaxUpdates
    BY BoundsAssumption
  <2> QED
    BY <2>1 DEF Locals, NoUpdate, Outcomes
<1>2. \A j \in Entries : j \in 0..MaxUpdates
  BY BoundsAssumption DEF Entries
<1> QED
  BY <1>1, <1>2 DEF Locals

\* Journal.Step keeps the journal a journal.
LEMMA JournalStepType ==
    ASSUME TInv, AtWork, NEW s \in StepNames, NEW c \in Ids \cup {NoId}, NEW written,
           JournalStep(upd.jid, s, c, written)
    PROVE  journal' \in [Entries -> Rows]
BY DEF JournalStep, TInv, TypeOK, Rows

\* Journal.Close keeps the journal a journal.
LEMMA CloseType ==
    ASSUME TInv, NEW j \in Entries
    PROVE  [journal EXCEPT ![j].closed = TRUE] \in [Entries -> Rows]
BY DEF TInv, TypeOK, Rows

\* The daemon's calls keep the types of what they change.
LEMMA DockerTypes ==
    ASSUME TInv, NEW c, NEW reply
    PROVE  /\ \A b \in BOOLEAN : SetRunning(c, b, reply) => up' \in [Ids -> BOOLEAN]
           /\ \A n \in {"app", "app-nu-old"} :
                Rename(c, n, reply) => name' \in [Ids -> {"app", "app-nu-old"}]
           /\ Remove(c, reply) => live' \subseteq Ids
BY DEF TInv, TypeOK, SetRunning, Rename, Remove

\* Every step of the program, the operator and the environment keeps the types.
LEMMA NextTypes == TInv /\ [Next]_vars => TInv'
<1> SUFFICES ASSUME TInv, [Next]_vars PROVE TInv'
  OBVIOUS
<1> USE DEF TInv, TypeOK, AtWork, Pcs, UpdatePcs, RepairPcs, docker
<1>0. /\ upd \in Locals
      /\ {"ok", "unchanged", "rolled_back", "failed"} \subseteq Outcomes
      /\ {"renamed_old", "created_new", "verified"} \subseteq StepNames
  BY DEF Outcomes, StepNames
<1>1. CASE OperatorToggles
  BY <1>0, <1>1, LocalsType DEF OperatorToggles
<1>2. CASE StartUpdate
  <2>1. PICK c \in Ids, j \in Entries, skipPull \in BOOLEAN, i \in Images : Begin(c, j, skipPull, i)
    BY <1>2 DEF StartUpdate
  <2>2. up[c] \in BOOLEAN /\ j \in 0..MaxUpdates
    BY BoundsAssumption DEF Entries
  <2>3. journal' \in [Entries -> Rows]
    BY <2>1, <2>2 DEF Begin, Rows, StepNames
  <2>4. upd' \in Locals /\ upd'.jid = j
    BY <2>1, <2>2 DEF Begin, Locals, Outcomes
  <2> QED
    BY <2>1, <2>3, <2>4 DEF Begin
<1>3. ASSUME NEW reply \in Replies, DockerStep(reply) PROVE TInv'
  <2>0. \A o \in Outcomes : /\ [upd EXCEPT !.outcome = o] \in Locals
                            /\ [upd EXCEPT !.outcome = o].jid = upd.jid
    BY <1>0, LocalsType DEF Locals
  <2>1. CASE Pull(reply)
    BY <1>0, <2>0, <2>1 DEF Pull, Finish
  <2>2. CASE InspectNew(reply)
    BY <1>0, <2>0, <2>2 DEF InspectNew, Finish
  <2>3. CASE Stop(reply)
    BY <1>0, <2>0, <2>3, DockerTypes DEF Stop, Finish
  <2>4. CASE RenameOld(reply)
    BY <1>0, <2>0, <2>4, DockerTypes DEF RenameOld
  <2>5. CASE RestartOld(reply)
    BY <2>5, DockerTypes DEF RestartOld
  <2>6. CASE Create(reply)
    <3>1. /\ upd.jid \in Ids
          /\ [upd EXCEPT !.new = upd.jid] \in Locals
          /\ [upd EXCEPT !.new = upd.jid].jid = upd.jid
          /\ [upd EXCEPT !.new = upd.jid].new = upd.jid
      BY <1>0, <2>6, EntryType, LocalsType DEF Create, Locals
    <3> QED
      BY <2>6, <3>1 DEF Create
  <2>7. CASE StartNew(reply)
    BY <2>7, DockerTypes DEF StartNew
  <2>8. CASE RemoveOld(reply)
    BY <1>0, <2>0, <2>8, DockerTypes DEF RemoveOld, Finish
  <2>9. CASE RollbackRemove(reply)
    BY <1>0, <2>0, <2>9, DockerTypes DEF RollbackRemove, Abandon
  <2>10. CASE RollbackRename(reply)
    BY <1>0, <2>0, <2>10, DockerTypes DEF RollbackRename, Abandon, Finish
  <2>11. CASE RollbackStart(reply)
    BY <1>0, <2>0, <2>11, DockerTypes DEF RollbackStart, Abandon, Finish
  <2>12. CASE ReconcileFinish(reply)
    BY <1>0, <2>12, DockerTypes, LocalsType DEF ReconcileFinish, Exit
  <2>13. CASE ReconcileRemove(reply)
    BY <1>0, <2>13, DockerTypes, LocalsType DEF ReconcileRemove, Exit
  <2>14. CASE ReconcileRestore(reply)
    BY <1>0, <2>14, DockerTypes, LocalsType DEF ReconcileRestore, Exit
  <2>15. CASE ReconcileStart(reply)
    BY <1>0, <2>15, DockerTypes, LocalsType DEF ReconcileStart, Exit
  <2> QED
    BY <1>3, <2>1, <2>2, <2>3, <2>4, <2>5, <2>6, <2>7, <2>8, <2>9, <2>10, <2>11, <2>12,
       <2>13, <2>14, <2>15 DEF DockerStep
<1>4. ASSUME NEW ok \in BOOLEAN, Verify(ok) PROVE TInv'
  BY <1>4 DEF Verify
<1>5. ASSUME NEW written \in Writes, JournalWrite(written) PROVE TInv'
  <2>1. CASE MarkRenamed(written)
    BY <1>0, <2>1, JournalStepType DEF MarkRenamed
  <2>2. CASE MarkCreated(written)
    BY <1>0, <2>2, JournalStepType, LocalsType DEF MarkCreated
  <2>3. CASE MarkVerified(written)
    <3>1. AtWork /\ AtWork'
      BY <2>3 DEF MarkVerified
    <3>2. journal[upd.jid].new \in Ids \cup {NoId} /\ upd.new \in Ids \cup {NoId}
      BY <1>0, <3>1, EntryType, LocalsType DEF entry
    <3>3. journal' \in [Entries -> Rows]
      BY <1>0, <2>3, <3>1, <3>2, JournalStepType DEF MarkVerified
    <3>4. upd.new \in Ids
      BY <2>3, <3>1, EntryType DEF MarkVerified
    <3> QED
      BY <2>3, <3>3, <3>4 DEF MarkVerified
  <2>4. CASE Close(written)
    BY <2>4, CloseType DEF Close
  <2>5. CASE ReconcileClose(written)
    BY <1>0, <2>5, CloseType, LocalsType DEF ReconcileClose, Exit
  <2> QED
    BY <1>5, <2>1, <2>2, <2>3, <2>4, <2>5 DEF JournalWrite
<1>6. CASE ProcessStarts
  BY <1>0, <1>6, LocalsType DEF ProcessStarts
<1>7. CASE ReconcileNext
  <2>1. \A j \in Entries : /\ [NoUpdate EXCEPT !.jid = j] \in Locals
                           /\ [NoUpdate EXCEPT !.jid = j].jid = j
    BY <1>0, LocalsType DEF NoUpdate
  <2> QED
    BY <1>7, <2>1 DEF ReconcileNext, Open
<1>8. CASE Crash
  BY <1>0, <1>8, LocalsType, BoundsAssumption DEF Crash
<1>9. CASE UNCHANGED vars
  BY <1>9 DEF vars
<1> QED
  BY <1>1, <1>2, <1>3, <1>4, <1>5, <1>6, <1>7, <1>8, <1>9 DEF Next, Program

\* Every variable keeps its type in every reachable state.
THEOREM TypeCorrect == Spec => []TypeOK
<1>1. TInv => TypeOK
  BY DEF TInv
<1> QED
  BY <1>1, InitTypes, NextTypes, PTL DEF Spec

-----------------------------------------------------------------------------
(* Containers and entries                                                  *)

\* At the start only the original container exists.
LEMMA InitFresh == Init => FInv
BY InitTypes, BoundsAssumption
   DEF Init, FInv, EntryIds, NoForeigner, UpdateHasBegun, Entries, NoEntry, NoId, UpdatePcs

\* A write of the journal about entry j, whose new container is still unknown
\* or j, keeps the entries and the containers apart.
LEMMA StepKeepsFresh ==
    ASSUME TInv, EntryIds, NoForeigner, NEW j \in Entries, NEW s \in StepNames \ {"none"},
           NEW c \in {NoId, j}, NEW written, JournalStep(j, s, c, written), live' = live
    PROVE  /\ EntryIds' /\ NoForeigner'
           /\ \A k \in Entries : journal[k].step # "none" => journal'[k].step # "none"
<1>1. \A k \in live : k # 0 => k \in Entries
  BY BoundsAssumption DEF TInv, TypeOK, Ids, Entries
<1>2. CASE ~written
  BY <1>2 DEF JournalStep, EntryIds, NoForeigner
<1>3. CASE written
  <2>1. /\ \A k \in Entries \ {j} : journal'[k] = journal[k]
        /\ journal'[j].step = s /\ journal'[j].new = c /\ journal'[j].old = journal[j].old
    BY <1>3 DEF TInv, TypeOK, Rows, JournalStep
  <2> QED
    BY <1>1, <2>1 DEF EntryIds, NoForeigner
<1> QED
  BY <1>2, <1>3

\* Closing an entry says nothing new about containers.
LEMMA CloseKeepsFresh ==
    ASSUME TInv, EntryIds, NoForeigner, NEW j \in Entries, live' = live,
           journal' = [journal EXCEPT ![j].closed = TRUE]
    PROVE  /\ EntryIds' /\ NoForeigner'
           /\ \A k \in Entries : journal'[k].step = journal[k].step
BY DEF TInv, TypeOK, Rows, EntryIds, NoForeigner

\* Every step keeps containers and journal entries matched.
LEMMA NextFresh == FInv /\ [Next]_vars => FInv'
<1> SUFFICES ASSUME FInv, [Next]_vars PROVE EntryIds' /\ NoForeigner' /\ UpdateHasBegun'
  BY NextTypes DEF FInv
<1>0. TInv /\ EntryIds /\ NoForeigner /\ UpdateHasBegun /\ TInv'
  BY NextTypes DEF FInv
\* Most steps leave the journal alone, create nothing, and stay in the update.
<1>s. ASSUME live' \subseteq live, UNCHANGED journal,
             pc' \in UpdatePcs => pc \in UpdatePcs /\ upd'.jid = upd.jid /\ upd'.old = upd.old
      PROVE  EntryIds' /\ NoForeigner' /\ UpdateHasBegun'
  BY <1>0, <1>s DEF EntryIds, NoForeigner, UpdateHasBegun
<1>t. /\ \A o : [upd EXCEPT !.outcome = o].jid = upd.jid /\ [upd EXCEPT !.outcome = o].old = upd.old
      /\ \A c : [upd EXCEPT !.new = c].jid = upd.jid /\ [upd EXCEPT !.new = c].old = upd.old
  BY <1>0 DEF TInv, TypeOK, Locals
<1> USE DEF UpdatePcs, docker
<1>1. CASE OperatorToggles
  BY <1>1, <1>s DEF OperatorToggles
<1>2. CASE StartUpdate
  <2>1. PICK c \in Ids, j \in Entries, skipPull \in BOOLEAN, i \in Images : Begin(c, j, skipPull, i)
    BY <1>2 DEF StartUpdate
  <2>2. c # j
    BY <1>0, <2>1, BoundsAssumption DEF Begin, Unused, NoForeigner, Entries
  <2>3. NoId # j
    BY BoundsAssumption DEF Entries, NoId
  <2> QED
    BY <1>0, <2>1, <2>2, <2>3
       DEF Begin, EntryIds, NoForeigner, UpdateHasBegun, TInv, TypeOK
<1>3. ASSUME NEW reply \in Replies, DockerStep(reply)
      PROVE  EntryIds' /\ NoForeigner' /\ UpdateHasBegun'
  <2>1. CASE Pull(reply)
    BY <1>s, <1>t, <2>1 DEF Pull, Finish
  <2>2. CASE InspectNew(reply)
    BY <1>s, <1>t, <2>2 DEF InspectNew, Finish
  <2>3. CASE Stop(reply)
    BY <1>s, <1>t, <2>3 DEF Stop, Finish
  <2>4. CASE RenameOld(reply)
    BY <1>s, <1>t, <2>4 DEF RenameOld
  <2>5. CASE RestartOld(reply)
    BY <1>s, <2>5 DEF RestartOld
  <2>6. CASE Create(reply)
    <3>1. pc \in UpdatePcs /\ pc' \in UpdatePcs /\ journal' = journal
          /\ live' \subseteq live \cup {upd.jid} /\ upd'.jid = upd.jid /\ upd'.old = upd.old
      BY <1>t, <2>6 DEF Create
    <3> QED
      BY <1>0, <3>1 DEF EntryIds, NoForeigner, UpdateHasBegun
  <2>7. CASE StartNew(reply)
    BY <1>s, <2>7 DEF StartNew
  <2>8. CASE RemoveOld(reply)
    BY <1>s, <1>t, <2>8 DEF RemoveOld, Remove, Finish
  <2>9. CASE RollbackRemove(reply)
    BY <1>s, <1>t, <2>9 DEF RollbackRemove, Remove, Abandon
  <2>10. CASE RollbackRename(reply)
    BY <1>s, <1>t, <2>10 DEF RollbackRename, Abandon, Finish
  <2>11. CASE RollbackStart(reply)
    BY <1>s, <1>t, <2>11 DEF RollbackStart, Abandon, Finish
  <2>12. CASE ReconcileFinish(reply)
    BY <1>s, <2>12 DEF ReconcileFinish, Remove, Exit
  <2>13. CASE ReconcileRemove(reply)
    BY <1>s, <2>13 DEF ReconcileRemove, Remove, Exit
  <2>14. CASE ReconcileRestore(reply)
    BY <1>s, <2>14 DEF ReconcileRestore, Exit
  <2>15. CASE ReconcileStart(reply)
    BY <1>s, <2>15 DEF ReconcileStart, Exit
  <2> QED
    BY <1>3, <2>1, <2>2, <2>3, <2>4, <2>5, <2>6, <2>7, <2>8, <2>9, <2>10, <2>11, <2>12,
       <2>13, <2>14, <2>15 DEF DockerStep
<1>4. ASSUME NEW ok \in BOOLEAN, Verify(ok) PROVE EntryIds' /\ NoForeigner' /\ UpdateHasBegun'
  BY <1>4, <1>s DEF Verify
<1>5. ASSUME NEW written \in Writes, JournalWrite(written)
      PROVE  EntryIds' /\ NoForeigner' /\ UpdateHasBegun'
  <2>1. CASE MarkRenamed(written)
    BY <1>0, <2>1, StepKeepsFresh DEF MarkRenamed, UpdateHasBegun, TInv, AtWork, RepairPcs, StepNames
  <2>2. CASE MarkCreated(written)
    BY <1>0, <2>2, StepKeepsFresh DEF MarkCreated, UpdateHasBegun, TInv, AtWork, RepairPcs, StepNames
  <2>3. CASE MarkVerified(written)
    <3>1. upd.jid \in Entries /\ journal[upd.jid].new \in {NoId, upd.jid}
      BY <1>0, <2>3 DEF MarkVerified, TInv, AtWork, RepairPcs, EntryIds
    <3> QED
      BY <1>0, <2>3, <3>1, StepKeepsFresh DEF MarkVerified, UpdateHasBegun, StepNames
  <2>4. CASE Close(written)
    BY <1>0, <1>s, <2>4, CloseKeepsFresh DEF Close, UpdateHasBegun, TInv, AtWork, RepairPcs
  <2>5. CASE ReconcileClose(written)
    BY <1>0, <1>s, <2>5, CloseKeepsFresh
       DEF ReconcileClose, Exit, UpdateHasBegun, TInv, AtWork, RepairPcs
  <2> QED
    BY <1>5, <2>1, <2>2, <2>3, <2>4, <2>5 DEF JournalWrite
<1>6. CASE ProcessStarts
  BY <1>s, <1>6 DEF ProcessStarts
<1>7. CASE ReconcileNext
  BY <1>s, <1>7 DEF ReconcileNext
<1>8. CASE Crash
  BY <1>s, <1>8 DEF Crash
<1>9. CASE UNCHANGED vars
  BY <1>s, <1>9 DEF vars
<1> QED
  BY <1>1, <1>2, <1>3, <1>4, <1>5, <1>6, <1>7, <1>8, <1>9 DEF Next, Program

-----------------------------------------------------------------------------
(* At most one container of the service runs                               *)

\* At the start the service is one container with its own name.
LEMMA InitNames == Init => RInv
BY InitFresh DEF Init, RInv, NamesUnique, AsideIsStopped, Located

\* The four kinds of Docker calls that change containers.
LEMMA RemoveKeepsNames ==
    ASSUME NamesUnique, AsideIsStopped, live' \subseteq live, UNCHANGED <<name, up>>
    PROVE  NamesUnique' /\ AsideIsStopped'
BY DEF NamesUnique, AsideIsStopped

\* Stopping a container cannot make two of them run.
LEMMA StopKeepsNames ==
    ASSUME TInv, NamesUnique, AsideIsStopped, NEW c, NEW reply,
           SetRunning(c, FALSE, reply), UNCHANGED <<live, name>>
    PROVE  NamesUnique' /\ AsideIsStopped'
BY DEF TInv, TypeOK, NamesUnique, AsideIsStopped, SetRunning

\* Nor can starting one when no other runs.
LEMMA StartKeepsNames ==
    ASSUME TInv, NamesUnique, AsideIsStopped, NEW c, NEW reply,
           name[c] = "app" \/ live = {c},
           SetRunning(c, TRUE, reply), UNCHANGED <<live, name>>
    PROVE  NamesUnique' /\ AsideIsStopped'
BY DEF TInv, TypeOK, NamesUnique, AsideIsStopped, SetRunning

\* Nor can giving the old container its name back.
LEMMA RestoreKeepsNames ==
    ASSUME TInv, NamesUnique, AsideIsStopped, NEW c, NEW reply,
           Rename(c, "app", reply), UNCHANGED <<live, up>>
    PROVE  NamesUnique' /\ AsideIsStopped'
BY DEF TInv, TypeOK, NamesUnique, AsideIsStopped, Rename, Renames, NameFree

\* Every step keeps names unique and at most one container running.
LEMMA NextNames == RInv /\ [Next]_vars => RInv'
<1> SUFFICES ASSUME RInv, [Next]_vars PROVE NamesUnique' /\ AsideIsStopped' /\ Located'
  BY NextFresh DEF RInv
<1>0. TInv /\ NamesUnique /\ AsideIsStopped /\ Located
  BY DEF RInv, FInv
<1>f. FInv /\ FInv'
  BY NextFresh DEF RInv
<1>s. ASSUME UNCHANGED <<live, name, up>> PROVE NamesUnique' /\ AsideIsStopped'
  BY <1>0, <1>s DEF NamesUnique, AsideIsStopped
<1>t. /\ \A o : LET u == [upd EXCEPT !.outcome = o]
                IN  u.old = upd.old /\ u.new = upd.new /\ u.wasRunning = upd.wasRunning
      /\ \A c : LET u == [upd EXCEPT !.new = c]
                IN  u.old = upd.old /\ u.new = c /\ u.wasRunning = upd.wasRunning
  BY <1>0 DEF TInv, TypeOK, Locals
<1> USE DEF docker
<1>1. CASE OperatorToggles
  BY <1>0, <1>1 DEF OperatorToggles, NamesUnique, AsideIsStopped, Located, TInv, TypeOK
<1>2. CASE StartUpdate
  <2>1. PICK c \in Ids, j \in Entries, skipPull \in BOOLEAN, i \in Images : Begin(c, j, skipPull, i)
    BY <1>2 DEF StartUpdate
  <2> QED
    BY <1>s, <2>1 DEF Begin, Located
<1>3. ASSUME NEW reply \in Replies, DockerStep(reply)
      PROVE  NamesUnique' /\ AsideIsStopped' /\ Located'
  <2>1. CASE Pull(reply)
    BY <1>0, <1>s, <1>t, <2>1 DEF Pull, Finish, Located
  <2>2. CASE InspectNew(reply)
    BY <1>0, <1>s, <1>t, <2>2 DEF InspectNew, Finish, Located
  <2>3. CASE Stop(reply)
    <3>1. NamesUnique' /\ AsideIsStopped'
      BY <1>0, <2>3, StopKeepsNames DEF Stop
    <3>2. Located'
      BY <1>0, <1>t, <2>3 DEF Stop, SetRunning, Finish, Located, TInv, TypeOK
    <3> QED
      BY <3>1, <3>2
  <2>4. CASE RenameOld(reply)
    <3>1. upd.old \in live /\ name[upd.old] = "app" /\ ~up[upd.old]
      BY <1>0, <2>4 DEF RenameOld, Located
    <3>2. CASE Renames(upd.old, "app-nu-old", reply)
      <4>1. live = {upd.old}
        BY <1>0, <3>1, <3>2 DEF Renames, NameFree, NamesUnique, TInv, TypeOK
      <4> QED
        BY <1>t, <2>4, <3>1, <4>1 DEF RenameOld, NamesUnique, AsideIsStopped, Located
    <3>3. CASE ~Renames(upd.old, "app-nu-old", reply)
      <4>1. UNCHANGED <<live, name, up>> /\ pc' \in {"restart_old", "close"} /\ upd'.old = upd.old
        BY <1>t, <2>4, <3>3 DEF RenameOld, Rename, Renames, RenameOK
      <4> QED
        BY <1>s, <3>1, <4>1 DEF Located
    <3> QED
      BY <3>2, <3>3
  <2>5. CASE RestartOld(reply)
    <3>1. name[upd.old] = "app" \/ live = {upd.old}
      BY <1>0, <2>5 DEF RestartOld, Located
    <3> QED
      BY <1>0, <2>5, <3>1, StartKeepsNames DEF RestartOld, Located
  <2>6. CASE Create(reply)
    <3>1. live = {upd.old} /\ ~up[upd.old] /\ upd.jid \in Ids
      BY <1>0, <2>6, EntryType DEF Create, Located, AtWork, UpdatePcs
    <3>2. CASE reply # "error" /\ NameFree("app", upd.jid)
      <4>1. NamesUnique' /\ AsideIsStopped'
        BY <1>0, <2>6, <3>1, <3>2 DEF Create, NameFree, NamesUnique, AsideIsStopped, TInv, TypeOK
      <4>2. Located'
        <5>1. CASE reply = "ok"
          <6>1. pc' = "mark_created" /\ upd' = [upd EXCEPT !.new = upd.jid]
            BY <2>6, <3>2, <5>1 DEF Create
          <6>2. upd'.new = upd.jid /\ name'[upd.jid] = "app"
            BY <1>0, <1>t, <2>6, <3>1, <3>2, <6>1 DEF Create, TInv, TypeOK
          <6> QED
            BY <6>1, <6>2 DEF Located
        <5>2. CASE reply # "ok"
          BY <2>6, <5>2 DEF Create, Located
        <5> QED
          BY <5>1, <5>2
      <4> QED
        BY <4>1, <4>2
    <3>3. CASE ~(reply # "error" /\ NameFree("app", upd.jid))
      BY <1>s, <2>6, <3>3 DEF Create, Located
    <3> QED
      BY <3>2, <3>3
  <2>7. CASE StartNew(reply)
    <3>1. name[upd.new] = "app"
      BY <1>0, <2>7 DEF StartNew, Located
    <3> QED
      BY <1>0, <2>7, <3>1, StartKeepsNames DEF StartNew, Located
  <2>8. CASE RemoveOld(reply)
    BY <1>0, <2>8, RemoveKeepsNames DEF RemoveOld, Remove, Finish, Located
  <2>9. CASE RollbackRemove(reply)
    BY <1>0, <2>9, RemoveKeepsNames DEF RollbackRemove, Remove, Abandon, Located
  <2>10. CASE RollbackRename(reply)
    <3>1. NamesUnique' /\ AsideIsStopped'
      BY <1>0, <2>10, RestoreKeepsNames DEF RollbackRename
    <3>2. pc' = "rb_start" => name'[upd.old] = "app" /\ upd' = upd
      <4>1. upd.old \in Ids
        BY <1>f, <2>10 DEF FInv, UpdateHasBegun, RollbackRename, UpdatePcs
      <4> QED
        BY <1>0, <2>10, <4>1
           DEF RollbackRename, Rename, Renames, RenameOK, Abandon, Finish, TInv, TypeOK
    <3> QED
      BY <2>10, <3>1, <3>2 DEF RollbackRename, Abandon, Finish, Located
  <2>11. CASE RollbackStart(reply)
    <3>1. name[upd.old] = "app"
      BY <1>0, <2>11 DEF RollbackStart, Located
    <3> QED
      BY <1>0, <2>11, <3>1, StartKeepsNames DEF RollbackStart, Abandon, Finish, Located
  <2>12. CASE ReconcileFinish(reply)
    BY <1>0, <2>12, RemoveKeepsNames DEF ReconcileFinish, Remove, Exit, Located
  <2>13. CASE ReconcileRemove(reply)
    BY <1>0, <2>13, RemoveKeepsNames DEF ReconcileRemove, Remove, Exit, Located
  <2>14. CASE ReconcileRestore(reply)
    <3>1. NamesUnique' /\ AsideIsStopped'
      BY <1>0, <1>s, <2>14, RestoreKeepsNames DEF ReconcileRestore
    <3>2. pc' = "rec_start" => name'[entry.old] = "app" /\ upd' = upd /\ journal' = journal
      BY <1>0, <2>14
         DEF ReconcileRestore, Rename, Renames, RenameOK, Exit, TInv, TypeOK
    <3> QED
      BY <2>14, <3>1, <3>2 DEF ReconcileRestore, Exit, Located, entry
  <2>15. CASE ReconcileStart(reply)
    <3>1. name[entry.old] = "app"
      BY <1>0, <2>15 DEF ReconcileStart, Located
    <3>2. NamesUnique' /\ AsideIsStopped'
      BY <1>0, <1>s, <2>15, <3>1, StartKeepsNames DEF ReconcileStart
    <3> QED
      BY <2>15, <3>2 DEF ReconcileStart, Exit, Located
  <2> QED
    BY <1>3, <2>1, <2>2, <2>3, <2>4, <2>5, <2>6, <2>7, <2>8, <2>9, <2>10, <2>11, <2>12,
       <2>13, <2>14, <2>15 DEF DockerStep
<1>4. ASSUME NEW ok \in BOOLEAN, Verify(ok) PROVE NamesUnique' /\ AsideIsStopped' /\ Located'
  BY <1>4, <1>s DEF Verify, Located
<1>5. ASSUME NEW written \in Writes, JournalWrite(written)
      PROVE  NamesUnique' /\ AsideIsStopped' /\ Located'
  BY <1>0, <1>5, <1>s
     DEF JournalWrite, MarkRenamed, MarkCreated, MarkVerified, Close, ReconcileClose, Exit, Located
<1>6. CASE ProcessStarts \/ Crash
  BY <1>6, <1>s DEF ProcessStarts, Crash, Located
<1>7. CASE ReconcileNext
  BY <1>7, <1>s DEF ReconcileNext, Located
<1>8. CASE UNCHANGED vars
  BY <1>0, <1>8, <1>s DEF vars, Located, entry
<1> QED
  BY <1>1, <1>2, <1>3, <1>4, <1>5, <1>6, <1>7, <1>8 DEF Next, Program

\* Two containers of the service never run at the same time, whatever fails:
\* Docker calls, journal writes, the process.
THEOREM NeverTwoRunning == Spec => []AtMostOneRunning
<1>1. RInv => AtMostOneRunning
  BY DEF RInv, FInv, TInv, TypeOK, NamesUnique, AsideIsStopped, AtMostOneRunning
<1> QED
  BY <1>1, InitNames, NextNames, PTL DEF Spec

-----------------------------------------------------------------------------
(* A container known to work survives, unless the journal does not know it  *)

\* At the start the original container is known to work, and no entry has begun.
LEMMA InitGood == Init => EInv /\ NewestLives
<1> SUFFICES ASSUME Init PROVE EInv /\ NewestLives
  OBVIOUS
<1>1. \A j \in Entries : journal[j].step = "none"
  BY DEF Init, NoEntry
<1> QED
  BY <1>1, InitFresh DEF Init, EInv, InOrder, GoodHasEntry, AtHand, NewestLives, UpdatePcs

\* Entries other than the one at hand are as they were, and it has begun before.
LEMMA StepKeepsEntries ==
    ASSUME EInv, NEW j \in Entries, journal[j].step # "none",
           \A k \in Entries : k # j => journal'[k] = journal[k],
           journal'[j].step # "none", journal'[j].old = journal[j].old,
           good \subseteq good', good' \subseteq good \cup {j},
           journal'[j].step = "verified" => j \in good'
    PROVE  InOrder' /\ GoodHasEntry' /\ \A k \in Entries : journal'[k].step # "none" <=> journal[k].step # "none"
<1>1. \A c \in good : c # 0 => c \in Entries
  BY BoundsAssumption DEF EInv, FInv, TInv, TypeOK, Ids, Entries
<1>2. \A k \in Entries : journal'[k].step # "none" <=> journal[k].step # "none"
  OBVIOUS
<1>3. InOrder'
  BY <1>2 DEF EInv, InOrder
<1>4. GoodHasEntry'
  BY <1>1, <1>2 DEF EInv, GoodHasEntry
<1> QED
  BY <1>2, <1>3, <1>4

\* Every step of the program keeps the entries and what works in order, whatever
\* calls and writes fail.
LEMMA NextEntries == EInv /\ [Next]_vars => EInv'
<1> SUFFICES ASSUME EInv, [Next]_vars PROVE InOrder' /\ GoodHasEntry' /\ AtHand'
  BY NextFresh DEF EInv
<1>0. /\ FInv /\ FInv' /\ TInv /\ TInv' /\ EntryIds /\ NoForeigner /\ UpdateHasBegun
      /\ InOrder /\ GoodHasEntry /\ AtHand
  BY NextFresh DEF EInv, FInv
<1>t. /\ \A o : [upd EXCEPT !.outcome = o].jid = upd.jid /\ [upd EXCEPT !.outcome = o].old = upd.old
      /\ \A c : [upd EXCEPT !.new = c].jid = upd.jid /\ [upd EXCEPT !.new = c].old = upd.old
  BY <1>0 DEF TInv, TypeOK, Locals
<1>j. AtWork => upd.jid \in Entries
  BY <1>0 DEF TInv
<1>s. ASSUME UNCHANGED <<journal, good>> PROVE InOrder' /\ GoodHasEntry'
  BY <1>0, <1>s DEF InOrder, GoodHasEntry
<1>e. ASSUME pc' \in {"idle", "down", "exited", "rec_next", "rec_restore", "rec_start", "rec_close"}
      PROVE  AtHand'
  BY <1>e DEF AtHand, UpdatePcs
<1> USE DEF docker, UpdatePcs
<1>1. CASE OperatorToggles
  BY <1>1, <1>s, <1>e DEF OperatorToggles
<1>2. CASE StartUpdate
  <2>1. PICK c \in Ids, j \in Entries, skipPull \in BOOLEAN, i \in Images : Begin(c, j, skipPull, i)
    BY <1>2 DEF StartUpdate
  <2>2. /\ journal[j].step = "none" /\ c \in live /\ good' = good
        /\ journal'[j].step = "started" /\ journal'[j].old = c
        /\ \A k \in Entries : k # j => journal'[k] = journal[k]
        /\ \A k \in Entries : journal[k].step = "none" => j <= k
    BY <1>0, <2>1 DEF Begin, Unused, TInv, TypeOK
  <2>3. \A k \in Entries : journal[k].step # "none" => k < j
    BY <1>0, <2>2 DEF InOrder
  <2>4. c \in Ids /\ c < j
    <3>1. c = 0 \/ (c \in Entries /\ journal[c].step # "none")
      BY <1>0, <2>2, BoundsAssumption DEF NoForeigner, Ids, Entries
    <3> QED
      BY <2>3, <3>1, BoundsAssumption DEF Entries
  <2>5. \A d \in good : d # 0 => d \in Entries /\ d # j
    BY <1>0, <2>2, BoundsAssumption DEF TInv, TypeOK, GoodHasEntry, Ids, Entries
  <2>6. InOrder'
    BY <1>0, <2>2, <2>3, <2>4, BoundsAssumption DEF InOrder, Entries
  <2>7. GoodHasEntry'
    BY <1>0, <2>2, <2>5 DEF GoodHasEntry
  <2>8. AtHand'
    <3>1. /\ pc' \in {"inspect", "pull"} /\ upd'.jid = j /\ upd'.old = c
      BY <2>1 DEF Begin
    <3>2. \A k \in Entries : journal'[k].step # "none" => k <= j
      BY <2>2, <2>3, BoundsAssumption DEF Entries
    <3>3. j \notin good'
      BY <2>2, <2>5, BoundsAssumption DEF Entries
    <3> QED
      BY <2>4, <3>1, <3>2, <3>3 DEF AtHand
  <2> QED
    BY <2>6, <2>7, <2>8
<1>3. ASSUME NEW reply \in Replies, DockerStep(reply) PROVE InOrder' /\ GoodHasEntry' /\ AtHand'
  <2>1. UNCHANGED <<journal, good>>
    BY <1>3 DEF DockerStep, Pull, InspectNew, Stop, RenameOld, RestartOld, Create, StartNew, RemoveOld,
       RollbackRemove, RollbackRename, RollbackStart, ReconcileFinish, ReconcileRemove,
       ReconcileRestore, ReconcileStart
  <2>2. CASE Pull(reply) \/ InspectNew(reply) \/ Stop(reply) \/ RenameOld(reply) \/ RestartOld(reply)
    <3>1. /\ pc \in {"pull", "inspect", "stop", "rename", "restart_old"}
          /\ pc' \in {"inspect", "stop", "rename", "restart_old", "mark_renamed", "close"}
          /\ upd'.jid = upd.jid /\ upd'.old = upd.old
      BY <1>t, <2>2 DEF Pull, InspectNew, Stop, RenameOld, RestartOld, Finish
    <3> QED
      BY <1>0, <1>s, <2>1, <3>1 DEF AtHand
  <2>3. CASE Create(reply)
    <3>1. /\ pc = "create" /\ upd'.jid = upd.jid /\ upd'.old = upd.old
          /\ pc' = "rb_rename" \/ (pc' = "mark_created" /\ upd.jid \in live')
      BY <1>t, <2>3 DEF Create
    <3> QED
      BY <1>0, <1>s, <2>1, <3>1 DEF AtHand
  <2>4. CASE StartNew(reply) \/ RollbackRemove(reply) \/ RollbackRename(reply) \/ RollbackStart(reply)
    <3>1. /\ \/ pc = "start" /\ pc' \in {"verify", "rb_remove"} /\ live' = live
             \/ pc \in {"rb_remove", "rb_rename", "rb_start"}
                  /\ pc' \in {"rb_rename", "rb_start", "close", "idle"}
          /\ upd'.jid = upd.jid /\ upd'.old = upd.old
      <4>1. CASE StartNew(reply)
        BY <4>1 DEF StartNew
      <4>2. CASE RollbackRemove(reply)
        BY <1>t, <4>2 DEF RollbackRemove, Abandon
      <4>3. CASE RollbackRename(reply)
        BY <1>t, <4>3 DEF RollbackRename, Finish, Abandon
      <4>4. CASE RollbackStart(reply)
        BY <1>t, <4>4 DEF RollbackStart, Finish, Abandon
      <4> QED
        BY <2>4, <4>1, <4>2, <4>3, <4>4
    <3> QED
      BY <1>0, <1>s, <2>1, <3>1 DEF AtHand
  <2>5. CASE RemoveOld(reply)
    <3>1. pc = "remove_old" /\ pc' = "close" /\ upd'.jid = upd.jid /\ upd'.old = upd.old
      BY <1>t, <2>5 DEF RemoveOld, Finish
    <3> QED
      BY <1>0, <1>s, <2>1, <3>1 DEF AtHand
  <2>6. CASE \/ ReconcileFinish(reply) \/ ReconcileRemove(reply)
             \/ ReconcileRestore(reply) \/ ReconcileStart(reply)
    <3>1. pc' \in {"exited", "rec_restore", "rec_start", "rec_close"}
      BY <2>6 DEF ReconcileFinish, ReconcileRemove, ReconcileRestore, ReconcileStart, Exit
    <3> QED
      BY <1>s, <1>e, <2>1, <3>1
  <2> QED
    BY <1>3, <2>2, <2>3, <2>4, <2>5, <2>6 DEF DockerStep
<1>4. ASSUME NEW ok \in BOOLEAN, Verify(ok) PROVE InOrder' /\ GoodHasEntry' /\ AtHand'
  BY <1>0, <1>4, <1>s DEF Verify, AtHand
<1>5. ASSUME NEW written \in Writes, JournalWrite(written)
      PROVE  InOrder' /\ GoodHasEntry' /\ AtHand'
  <2>1. ASSUME pc \in {"mark_renamed", "mark_created", "mark_verified"}, upd' = upd, live' = live,
               NEW s \in StepNames \ {"none"}, NEW newId, JournalStep(upd.jid, s, newId, written),
               \/ s # "verified" /\ good' = good /\ pc' \in {"create", "start", "mark_verified"}
                    /\ (pc' # "create" => pc = "mark_created")
               \/ s = "verified" /\ good' = good \cup {upd.jid} /\ pc' = "remove_old"
        PROVE  InOrder' /\ GoodHasEntry' /\ AtHand'
    <3>1. upd.jid \in Entries /\ journal[upd.jid].step # "none" /\ upd.jid \notin good
      BY <1>0, <1>j, <2>1 DEF AtWork, UpdateHasBegun, AtHand
    <3>2. /\ \A k \in Entries : k # upd.jid => journal'[k] = journal[k]
          /\ journal'[upd.jid].step \in {journal[upd.jid].step, s}
          /\ journal'[upd.jid].old = journal[upd.jid].old
      BY <1>0, <2>1, <3>1 DEF JournalStep, TInv, TypeOK, Rows
    <3>3. journal[upd.jid].step # "verified"
      BY <1>0, <3>1 DEF GoodHasEntry
    <3>4. /\ InOrder' /\ GoodHasEntry'
          /\ \A k \in Entries : journal'[k].step # "none" <=> journal[k].step # "none"
      BY <2>1, <3>1, <3>2, <3>3, StepKeepsEntries
    <3> QED
      BY <1>0, <2>1, <3>1, <3>4 DEF AtHand
  <2>2. CASE MarkRenamed(written)
    BY <2>1, <2>2 DEF MarkRenamed, StepNames
  <2>3. CASE MarkCreated(written)
    BY <2>1, <2>3 DEF MarkCreated, StepNames
  <2>4. CASE MarkVerified(written)
    <3>1. upd.new = upd.jid
      BY <1>0, <2>4 DEF MarkVerified, TInv
    <3> QED
      BY <2>1, <2>4, <3>1 DEF MarkVerified, StepNames
  <2>5. CASE Close(written) \/ ReconcileClose(written)
    <3>1. /\ journal' \in {journal, [journal EXCEPT ![upd.jid].closed = TRUE]} /\ good' = good
          /\ pc \in {"close", "rec_close"} /\ pc' \in {"idle", "rec_next", "exited"}
      BY <2>5 DEF Close, ReconcileClose, Exit
    <3>2. \A k \in Entries : journal'[k].step = journal[k].step /\ journal'[k].old = journal[k].old
      BY <1>0, <3>1 DEF TInv, TypeOK, Rows
    <3>3. \A c \in good : c # 0 => c \in Entries
      BY <1>0, BoundsAssumption DEF TInv, TypeOK, Ids, Entries
    <3>4. InOrder' /\ GoodHasEntry'
      BY <1>0, <3>1, <3>2, <3>3 DEF InOrder, GoodHasEntry
    <3> QED
      BY <1>e, <3>1, <3>4
  <2> QED
    BY <1>5, <2>2, <2>3, <2>4, <2>5 DEF JournalWrite
<1>6. CASE ProcessStarts \/ Crash
  BY <1>6, <1>s, <1>e DEF ProcessStarts, Crash
<1>7. CASE ReconcileNext
  <2>1. UNCHANGED <<journal, good>>
    BY <1>7 DEF ReconcileNext
  <2>2. ASSUME NEW j \in Open, upd' = [NoUpdate EXCEPT !.jid = j],
               pc' = IF journal[j].step = "verified" THEN "rec_finish" ELSE "rec_remove"
        PROVE  AtHand'
    <3>1. upd'.jid = j
      BY <2>2 DEF NoUpdate
    <3> QED
      BY <2>1, <2>2, <3>1 DEF AtHand
  <2> QED
    BY <1>7, <1>s, <1>e, <2>1, <2>2 DEF ReconcileNext
<1>8. CASE UNCHANGED vars
  BY <1>0, <1>8, <1>s DEF vars, AtHand
<1> QED
  BY <1>1, <1>2, <1>3, <1>4, <1>5, <1>6, <1>7, <1>8 DEF Next, Program

\* What was verified and not recorded stays so.
LEMMA StaysUnrecorded == EInv /\ Unrecorded /\ [Next]_vars => Unrecorded'
<1> SUFFICES ASSUME EInv, [Next]_vars, NEW c \in good \ {0}, journal[c].step # "verified"
             PROVE  c \in good' /\ journal'[c].step # "verified"
  BY DEF Unrecorded
<1>0. TInv /\ AtHand /\ GoodHasEntry /\ c \in Entries
  BY BoundsAssumption DEF EInv, FInv, TInv, TypeOK, Ids, Entries
<1>1. CASE StartUpdate
  <2>1. PICK d \in Ids, j \in Entries, skipPull \in BOOLEAN, i \in Images : Begin(d, j, skipPull, i)
    BY <1>1 DEF StartUpdate
  <2>2. c # j
    BY <1>0, <2>1 DEF Begin, Unused, GoodHasEntry
  <2> QED
    BY <1>0, <2>1, <2>2 DEF Begin, TInv, TypeOK
<1>2. ASSUME NEW written \in Writes, JournalWrite(written)
      PROVE  c \in good' /\ journal'[c].step # "verified"
  <2>1. CASE MarkRenamed(written) \/ MarkCreated(written) \/ MarkVerified(written)
    <3>1. upd.jid \notin good /\ good \subseteq good'
      BY <1>0, <2>1 DEF MarkRenamed, MarkCreated, MarkVerified, AtHand, UpdatePcs
    <3>2. journal'[c] = journal[c]
      BY <1>0, <2>1, <3>1 DEF MarkRenamed, MarkCreated, MarkVerified, JournalStep, TInv, TypeOK
    <3> QED
      BY <3>1, <3>2
  <2>2. CASE Close(written) \/ ReconcileClose(written)
    <3>1. journal' \in {journal, [journal EXCEPT ![upd.jid].closed = TRUE]} /\ good' = good
      BY <2>2 DEF Close, ReconcileClose
    <3> QED
      BY <1>0, <3>1 DEF TInv, TypeOK, Rows
  <2> QED
    BY <1>2, <2>1, <2>2 DEF JournalWrite
<1>3. CASE UNCHANGED <<journal, good>>
  BY <1>3
<1>4. ASSUME NEW reply \in Replies, DockerStep(reply) PROVE UNCHANGED <<journal, good>>
  BY <1>4 DEF DockerStep, Pull, InspectNew, Stop, RenameOld, RestartOld, Create, StartNew, RemoveOld,
     RollbackRemove, RollbackRename, RollbackStart, ReconcileFinish, ReconcileRemove,
     ReconcileRestore, ReconcileStart
<1>5. ASSUME NEW ok \in BOOLEAN, Verify(ok) PROVE UNCHANGED <<journal, good>>
  BY <1>5 DEF Verify
<1>6. CASE OperatorToggles \/ ProcessStarts \/ ReconcileNext \/ Crash \/ UNCHANGED vars
  BY <1>3, <1>6 DEF OperatorToggles, ProcessStarts, ReconcileNext, Crash, vars
<1> QED
  BY <1>1, <1>2, <1>3, <1>4, <1>5, <1>6 DEF Next, Program

\* No step removes the last container that was found to work: what an update
\* removes is older, and what a rollback or a repair removes was not found to
\* work, or that was not recorded.
LEMMA NewestKept ==
    ASSUME EInv, EInv', NewestLives, [Next]_vars
    PROVE  NewestLives' \/ Unrecorded'
<1>0. /\ TInv /\ AtHand /\ GoodHasEntry /\ InOrder /\ EntryIds
      /\ \A c \in good : c \in Ids /\ (c # 0 => c \in Entries)
  BY BoundsAssumption DEF EInv, FInv, TInv, TypeOK, Ids, Entries
<1>j. AtWork => upd.jid \in Entries
  BY <1>0 DEF TInv
<1>g. PICK g \in good \cap live : \A c \in good : c <= g
  BY DEF NewestLives
<1>s. ASSUME good' = good, g \in live' PROVE NewestLives'
  BY <1>g, <1>s DEF NewestLives
<1> USE DEF docker, UpdatePcs
<1>1. ASSUME NEW reply \in Replies, DockerStep(reply) PROVE NewestLives' \/ Unrecorded'
  <2>1. CASE \/ Pull(reply) \/ InspectNew(reply) \/ Stop(reply) \/ RenameOld(reply) \/ RestartOld(reply)
             \/ Create(reply) \/ StartNew(reply) \/ RollbackRename(reply) \/ RollbackStart(reply)
             \/ ReconcileRestore(reply) \/ ReconcileStart(reply)
    <3>1. good' = good /\ live \subseteq live'
      BY <2>1 DEF Pull, InspectNew, Stop, RenameOld, RestartOld, Create, StartNew, RollbackRename,
         RollbackStart, ReconcileRestore, ReconcileStart
    <3> QED
      BY <1>s, <3>1
  <2>2. CASE RemoveOld(reply)
    <3>1. /\ pc = "remove_old" /\ good' = good /\ live' \in {live, live \ {upd.old}}
      BY <2>2 DEF RemoveOld, Remove
    <3>2. upd.jid \in good /\ upd.old < upd.jid /\ upd.old \in Ids
      BY <1>0, <3>1 DEF AtHand, EInv, FInv, UpdateHasBegun
    <3>3. g # upd.old
      BY <1>0, <1>g, <3>2, BoundsAssumption DEF Ids
    <3> QED
      BY <1>s, <3>1, <3>3
  <2>3. CASE RollbackRemove(reply)
    <3>1. good' = good /\ live' \in {live, live \ {upd.jid}} /\ upd.jid \notin good
      BY <1>0, <2>3 DEF RollbackRemove, Remove, TInv, AtHand
    <3> QED
      BY <1>s, <3>1
  <2>4. CASE ReconcileFinish(reply)
    <3>1. /\ pc = "rec_finish" /\ good' = good /\ live' \in {live, live \ {entry.old}}
      BY <2>4 DEF ReconcileFinish, Remove
    <3>2. upd.jid \in Entries /\ upd.jid \in good /\ entry.old \in Ids /\ entry.old < upd.jid
      BY <1>0, <1>j, <3>1 DEF AtWork, RepairPcs, AtHand, GoodHasEntry, InOrder, entry
    <3>3. g # entry.old
      BY <1>0, <1>g, <3>2, BoundsAssumption DEF Ids
    <3> QED
      BY <1>s, <3>1, <3>3
  <2>5. CASE ReconcileRemove(reply)
    <3>1. /\ pc = "rec_remove" /\ UNCHANGED <<good, journal>>
          /\ live' = live \/ (entry.new # NoId /\ live' = live \ {entry.new})
      BY <2>5 DEF ReconcileRemove, Remove
    <3>2. upd.jid \in Entries /\ entry.new \in {NoId, upd.jid} /\ journal[upd.jid].step # "verified"
      BY <1>0, <1>j, <3>1 DEF AtWork, RepairPcs, AtHand, EntryIds, entry
    <3>3. CASE upd.jid \in good
      <4>1. Unrecorded'
        BY <3>1, <3>2, <3>3, BoundsAssumption DEF Unrecorded, Entries
      <4> QED
        BY <4>1
    <3>4. CASE upd.jid \notin good
      BY <1>s, <3>1, <3>2, <3>4
    <3> QED
      BY <3>3, <3>4
  <2> QED
    BY <1>1, <2>1, <2>2, <2>3, <2>4, <2>5 DEF DockerStep
<1>2. ASSUME NEW written \in Writes, JournalWrite(written) PROVE NewestLives'
  <2>1. CASE MarkVerified(written)
    <3>1. /\ upd.jid \in Entries /\ upd.jid \in live /\ live' = live /\ good' = good \cup {upd.jid}
          /\ \A k \in Entries : journal[k].step # "none" => k <= upd.jid
      BY <1>0, <1>j, <2>1 DEF MarkVerified, TInv, AtWork, AtHand
    <3>2. \A c \in good' : c <= upd.jid
      BY <1>0, <3>1, BoundsAssumption DEF GoodHasEntry, Entries
    <3> QED
      BY <3>1, <3>2 DEF NewestLives
  <2>2. CASE ~MarkVerified(written)
    BY <1>2, <1>s, <2>2 DEF JournalWrite, MarkRenamed, MarkCreated, Close, ReconcileClose
  <2> QED
    BY <2>1, <2>2
<1>3. ASSUME NEW ok \in BOOLEAN, Verify(ok) PROVE NewestLives'
  BY <1>3, <1>s DEF Verify
<1>4. CASE OperatorToggles \/ StartUpdate \/ ProcessStarts \/ ReconcileNext \/ Crash \/ UNCHANGED vars
  BY <1>4, <1>s DEF OperatorToggles, StartUpdate, Begin, ProcessStarts, ReconcileNext, Crash, vars
<1> QED
  BY <1>1, <1>2, <1>3, <1>4 DEF Next, Program

GInv == EInv /\ (NewestLives \/ Unrecorded)

\* The service keeps the last container that was found to work, or the journal
\* was not told of one.
LEMMA NextGood == GInv /\ [Next]_vars => GInv'
<1> SUFFICES ASSUME GInv, [Next]_vars PROVE GInv'
  OBVIOUS
<1>1. EInv'
  BY NextEntries DEF GInv
<1>2. NewestLives' \/ Unrecorded'
  BY <1>1, NewestKept, StaysUnrecorded DEF GInv
<1> QED
  BY <1>1, <1>2 DEF GInv

\* Whatever calls and writes fail and wherever the process dies: a container that
\* is known to work exists, unless the write that one was verified has failed.
THEOREM GoodLostOnlyUnrecorded == Spec => [](KnownGoodSurvives \/ Unrecorded)
<1>1. Init => GInv
  BY InitGood DEF GInv
<1>2. GInv => KnownGoodSurvives \/ Unrecorded
  BY DEF GInv, NewestLives, KnownGoodSurvives
<1> QED
  BY <1>1, <1>2, NextGood, PTL DEF Spec

\* When journal writes succeed, what was verified is recorded.
LEMMA AllRecorded ==
    ASSUME "journal" \notin Faults, EInv, ~Unrecorded, [Next]_vars
    PROVE  ~Unrecorded'
<1> SUFFICES ASSUME NEW c \in good' \ {0} PROVE journal'[c].step = "verified"
  BY DEF Unrecorded
<1>0. /\ TInv /\ AtHand /\ GoodHasEntry
      /\ \A d \in good \ {0} : d \in Entries /\ journal[d].step = "verified"
  BY BoundsAssumption DEF EInv, FInv, TInv, TypeOK, Ids, Entries, Unrecorded
<1>j. AtWork => upd.jid \in Entries
  BY <1>0 DEF TInv
<1>1. CASE StartUpdate
  <2>1. PICK d \in Ids, j \in Entries, skipPull \in BOOLEAN, i \in Images : Begin(d, j, skipPull, i)
    BY <1>1 DEF StartUpdate
  <2> QED
    BY <1>0, <2>1 DEF Begin, Unused, TInv, TypeOK
<1>2. ASSUME NEW written \in Writes, JournalWrite(written) PROVE journal'[c].step = "verified"
  <2>w. written = TRUE
    BY <1>2 DEF Writes
  <2>1. CASE MarkRenamed(written) \/ MarkCreated(written)
    <3>1. upd.jid \notin good /\ good' = good
      BY <1>0, <2>1 DEF MarkRenamed, MarkCreated, AtHand, UpdatePcs
    <3>2. journal'[c] = journal[c]
      BY <1>0, <2>1, <3>1 DEF MarkRenamed, MarkCreated, JournalStep, TInv, TypeOK
    <3> QED
      BY <1>0, <3>1, <3>2
  <2>2. CASE MarkVerified(written)
    <3>1. upd.jid \in Entries /\ good' = good \cup {upd.jid}
      BY <1>0, <1>j, <2>2 DEF MarkVerified, TInv, AtWork, UpdatePcs
    <3>2. /\ journal'[upd.jid].step = "verified"
          /\ \A k \in Entries : k # upd.jid => journal'[k] = journal[k]
      BY <1>0, <2>2, <2>w, <3>1 DEF MarkVerified, JournalStep, TInv, TypeOK, Rows
    <3> QED
      BY <1>0, <3>1, <3>2
  <2>3. CASE Close(written) \/ ReconcileClose(written)
    <3>1. journal' \in {journal, [journal EXCEPT ![upd.jid].closed = TRUE]} /\ good' = good
      BY <2>3 DEF Close, ReconcileClose
    <3> QED
      BY <1>0, <3>1 DEF TInv, TypeOK, Rows
  <2> QED
    BY <1>2, <2>1, <2>2, <2>3 DEF JournalWrite
<1>3. CASE UNCHANGED <<journal, good>>
  BY <1>0, <1>3
<1>4. ASSUME NEW reply \in Replies, DockerStep(reply) PROVE UNCHANGED <<journal, good>>
  BY <1>4 DEF DockerStep, Pull, InspectNew, Stop, RenameOld, RestartOld, Create, StartNew, RemoveOld,
     RollbackRemove, RollbackRename, RollbackStart, ReconcileFinish, ReconcileRemove,
     ReconcileRestore, ReconcileStart
<1>5. ASSUME NEW ok \in BOOLEAN, Verify(ok) PROVE UNCHANGED <<journal, good>>
  BY <1>5 DEF Verify
<1>6. CASE OperatorToggles \/ ProcessStarts \/ ReconcileNext \/ Crash \/ UNCHANGED vars
  BY <1>3, <1>6 DEF OperatorToggles, ProcessStarts, ReconcileNext, Crash, vars
<1> QED
  BY <1>1, <1>2, <1>3, <1>4, <1>5, <1>6 DEF Next, Program

\* As long as the journal can be written, the service keeps a container that
\* is known to work, whichever Docker calls fail and wherever the process dies.
THEOREM GoodSurvives == ("journal" \notin Faults) => (Spec => []KnownGoodSurvives)
<1> SUFFICES ASSUME "journal" \notin Faults PROVE Spec => []KnownGoodSurvives
  OBVIOUS
<1>1. Init => GInv /\ ~Unrecorded
  BY InitGood DEF Init, GInv, Unrecorded
<1>2. GInv /\ ~Unrecorded /\ [Next]_vars => GInv' /\ ~Unrecorded'
  BY NextGood, AllRecorded DEF GInv
<1>3. GInv /\ ~Unrecorded => KnownGoodSurvives
  BY DEF GInv, NewestLives, KnownGoodSurvives
<1> QED
  BY <1>1, <1>2, <1>3, PTL DEF Spec

-----------------------------------------------------------------------------
(* What Update returns                                                      *)

\* What an outcome says of the containers.
ResultTrue ==
    /\ upd.outcome = "ok" =>
         /\ upd.new \in live /\ name[upd.new] = "app"
         /\ up[upd.new] = upd.wasRunning
         /\ image[upd.new] # image[upd.old]
    /\ upd.outcome = "rolled_back" =>
         /\ upd.old \in live /\ name[upd.old] = "app"
         /\ up[upd.old] = upd.wasRunning
         /\ upd.new \notin live

\* The new container and the old one, on the way to an outcome.
OnTheWay ==
    /\ pc \in {"pull", "inspect", "stop", "rename", "mark_renamed", "create"} => upd.new = NoId
    /\ pc \in {"stop", "rename", "mark_renamed", "create"} => tag # image[upd.old]
    /\ pc \in {"mark_created", "start", "verify", "mark_verified", "remove_old"} =>
         /\ upd.new \in live /\ name[upd.new] = "app"
         /\ image[upd.new] # image[upd.old]
    /\ pc \in {"mark_created", "start"} => ~up[upd.new]
    /\ pc = "verify" => up[upd.new]
    /\ pc \in {"mark_verified", "remove_old"} => up[upd.new] = upd.wasRunning
    /\ pc \in {"start", "verify", "rb_start"} => upd.wasRunning
    /\ pc \in {"mark_created", "start", "verify", "rb_remove", "rb_rename", "rb_start"} =>
         upd.old \in live /\ ~up[upd.old]
    /\ pc \in {"rb_rename", "rb_start"} => upd.new \notin live
    /\ pc = "restart_old" => upd.outcome = "failed"
    /\ pc \in RepairPcs => upd.outcome = "none"
    /\ pc \in {"close", "idle"} => ResultTrue

OInv == RInv /\ OnTheWay

\* Every step that decides on an outcome makes it true first.
LEMMA NextOutcome == OInv /\ [Next]_vars => OInv'
<1> SUFFICES ASSUME OInv, [Next]_vars PROVE OnTheWay'
  BY NextNames DEF OInv
<1>0. TInv /\ UpdateHasBegun /\ Located /\ OnTheWay /\ TInv'
  BY NextNames DEF OInv, RInv, FInv
<1>1. /\ live \subseteq Ids /\ NoId \notin Ids
      /\ name \in [Ids -> {"app", "app-nu-old"}] /\ image \in [Ids -> Images] /\ up \in [Ids -> BOOLEAN]
      /\ upd \in Locals /\ upd.wasRunning \in BOOLEAN
      /\ NoUpdate.outcome = "none"
  BY <1>0, BoundsAssumption DEF TInv, TypeOK, Ids, NoId, NoUpdate, Locals
<1>2. pc \in UpdatePcs => upd.old \in Ids /\ upd.jid \in Ids /\ upd.old # upd.jid
  BY <1>0, BoundsAssumption DEF UpdateHasBegun, TInv, AtWork, UpdatePcs, RepairPcs, Entries, Ids
<1>3. pc \in {"mark_created", "start", "verify", "mark_verified", "remove_old", "rb_remove"} =>
        upd.new = upd.jid
  BY <1>0 DEF TInv
<1>t. \A o : LET u == [upd EXCEPT !.outcome = o]
             IN  /\ u.old = upd.old /\ u.new = upd.new /\ u.wasRunning = upd.wasRunning
                 /\ u.outcome = o
  BY <1>1 DEF Locals
<1> USE <1>0, <1>1, <1>2, <1>3, <1>t DEF docker, UpdatePcs, RepairPcs
<1>4. CASE OperatorToggles
  BY <1>4 DEF OperatorToggles, OnTheWay, ResultTrue
<1>5. CASE StartUpdate
  BY <1>5 DEF StartUpdate, Begin, OnTheWay
<1>6. ASSUME NEW reply \in Replies, DockerStep(reply) PROVE OnTheWay'
  <2>1. CASE Pull(reply)
    BY <2>1 DEF Pull, Finish, OnTheWay, ResultTrue
  <2>2. CASE InspectNew(reply)
    BY <2>2 DEF InspectNew, Finish, OnTheWay, ResultTrue
  <2>3. CASE Stop(reply)
    BY <2>3 DEF Stop, SetRunning, Finish, OnTheWay, ResultTrue
  <2>4. CASE RenameOld(reply)
    BY <2>4 DEF RenameOld, OnTheWay, ResultTrue
  <2>5. CASE RestartOld(reply)
    BY <2>5 DEF RestartOld, OnTheWay, ResultTrue
  <2>6. CASE Create(reply)
    <3>1. /\ pc = "create" /\ live = {upd.old} /\ ~up[upd.old]
          /\ upd.new = NoId /\ tag # image[upd.old]
      BY <2>6 DEF Create, Located, OnTheWay
    <3>2. CASE reply # "error" /\ NameFree("app", upd.jid) /\ reply = "ok"
      <4>1. /\ live' = live \cup {upd.jid} /\ name'[upd.jid] = "app"
            /\ image'[upd.jid] = tag /\ image'[upd.old] = image[upd.old]
            /\ up'[upd.jid] = FALSE /\ up'[upd.old] = up[upd.old]
            /\ pc' = "mark_created" /\ upd' = [upd EXCEPT !.new = upd.jid]
        BY <2>6, <3>1, <3>2 DEF Create
      <4>2. upd'.new = upd.jid /\ upd'.old = upd.old
        BY <4>1 DEF Locals
      <4> QED
        BY <3>1, <4>1, <4>2 DEF OnTheWay
    <3>3. CASE reply # "error" /\ NameFree("app", upd.jid) /\ reply # "ok"
      <4>1. /\ live' = live \cup {upd.jid} /\ up'[upd.old] = up[upd.old]
            /\ pc' = "rb_rename" /\ upd' = upd
        BY <2>6, <3>1, <3>3 DEF Create
      <4> QED
        BY <3>1, <4>1 DEF OnTheWay
    <3>4. CASE ~(reply # "error" /\ NameFree("app", upd.jid))
      BY <2>6, <3>1, <3>4 DEF Create, OnTheWay
    <3> QED
      BY <3>2, <3>3, <3>4
  <2>7. CASE StartNew(reply)
    BY <2>7 DEF StartNew, SetRunning, OnTheWay
  <2>8. CASE RemoveOld(reply)
    BY <2>8 DEF RemoveOld, Remove, Finish, OnTheWay, ResultTrue
  <2>9. CASE RollbackRemove(reply)
    BY <2>9 DEF RollbackRemove, Remove, Abandon, OnTheWay, ResultTrue
  <2>10. CASE RollbackRename(reply)
    <3>1. /\ pc = "rb_rename" /\ upd.old \in live /\ ~up[upd.old] /\ upd.new \notin live
          /\ UNCHANGED <<live, image, up>>
      BY <2>10 DEF RollbackRename, OnTheWay
    <3>2. CASE RenameOK(upd.old, "app", reply)
      <4>1. name'[upd.old] = "app"
        BY <2>10, <3>1, <3>2 DEF RollbackRename, Rename, Renames, RenameOK
      <4>2. CASE upd.wasRunning
        BY <2>10, <3>1, <3>2, <4>1, <4>2 DEF RollbackRename, OnTheWay
      <4>3. CASE ~upd.wasRunning
        <5>1. up[upd.old] = upd.wasRunning
          BY <3>1, <4>3
        <5>2. pc' = "close" /\ upd' = [upd EXCEPT !.outcome = "rolled_back"]
          BY <2>10, <3>2, <4>3 DEF RollbackRename, Finish
        <5> QED
          BY <3>1, <4>1, <5>1, <5>2 DEF OnTheWay, ResultTrue
      <4> QED
        BY <4>2, <4>3
    <3>3. CASE ~RenameOK(upd.old, "app", reply)
      BY <2>10, <3>3 DEF RollbackRename, Abandon, OnTheWay, ResultTrue
    <3> QED
      BY <3>2, <3>3
  <2>11. CASE RollbackStart(reply)
    <3>1. /\ pc = "rb_start" /\ upd.old \in live /\ name[upd.old] = "app" /\ upd.new \notin live
          /\ upd.wasRunning = TRUE /\ UNCHANGED <<live, name>>
      BY <2>11 DEF RollbackStart, Located, OnTheWay
    <3>2. CASE reply = "ok"
      <4>1. /\ up' = [up EXCEPT ![upd.old] = TRUE]
            /\ pc' = "close" /\ upd' = [upd EXCEPT !.outcome = "rolled_back"]
        BY <2>11, <3>2 DEF RollbackStart, SetRunning, Finish
      <4>2. up'[upd.old] = TRUE
        BY <3>1, <4>1
      <4>3. /\ upd'.wasRunning = TRUE /\ upd'.old = upd.old /\ upd'.new = upd.new
            /\ upd'.outcome = "rolled_back"
        BY <3>1, <4>1 DEF Locals
      <4>4. up'[upd'.old] = upd'.wasRunning
        BY <4>2, <4>3
      <4>5. upd'.old \in live' /\ name'[upd'.old] = "app" /\ upd'.new \notin live'
        BY <3>1, <4>3
      <4>6. ResultTrue'
        BY <4>3, <4>4, <4>5 DEF ResultTrue
      <4> QED
        BY <4>1, <4>6 DEF OnTheWay
    <3>3. CASE reply # "ok"
      BY <2>11, <3>3 DEF RollbackStart, Abandon, OnTheWay, ResultTrue
    <3> QED
      BY <3>2, <3>3
  <2>12. CASE ReconcileFinish(reply)
    BY <2>12 DEF ReconcileFinish, Exit, OnTheWay
  <2>13. CASE ReconcileRemove(reply)
    BY <2>13 DEF ReconcileRemove, Exit, OnTheWay
  <2>14. CASE ReconcileRestore(reply)
    BY <2>14 DEF ReconcileRestore, Exit, OnTheWay
  <2>15. CASE ReconcileStart(reply)
    BY <2>15 DEF ReconcileStart, Exit, OnTheWay
  <2> QED
    BY <1>6, <2>1, <2>2, <2>3, <2>4, <2>5, <2>6, <2>7, <2>8, <2>9, <2>10, <2>11, <2>12,
       <2>13, <2>14, <2>15 DEF DockerStep
<1>7. ASSUME NEW ok \in BOOLEAN, Verify(ok) PROVE OnTheWay'
  BY <1>7 DEF Verify, OnTheWay
<1>8. ASSUME NEW written \in Writes, JournalWrite(written) PROVE OnTheWay'
  BY <1>8
     DEF JournalWrite, MarkRenamed, MarkCreated, MarkVerified, Close, ReconcileClose, Exit,
         OnTheWay, ResultTrue
<1>9. CASE ProcessStarts \/ Crash
  BY <1>9 DEF ProcessStarts, Crash, OnTheWay
<1>10. CASE ReconcileNext
  <2>1. pc' \in {"idle", "rec_finish", "rec_remove"} /\ upd'.outcome = "none"
    <3>1. pc = "rec_next" /\ upd.outcome = "none"
      BY <1>10 DEF ReconcileNext, OnTheWay
    <3>2. \/ pc' = "idle" /\ upd' = upd
          \/ pc' \in {"rec_finish", "rec_remove"} /\ \E j \in Open : upd' = [NoUpdate EXCEPT !.jid = j]
      BY <1>10 DEF ReconcileNext
    <3> QED
      BY <3>1, <3>2 DEF NoUpdate
  <2> QED
    BY <2>1 DEF OnTheWay, ResultTrue
<1>11. CASE UNCHANGED vars
  BY <1>11 DEF vars, OnTheWay, ResultTrue
<1> QED
  BY <1>4, <1>5, <1>6, <1>7, <1>8, <1>9, <1>10, <1>11 DEF Next, Program

\* At the first start no update has a result yet.
LEMMA InitOutcome == Init => OInv
BY InitNames, BoundsAssumption DEF Init, OInv, OnTheWay, ResultTrue, NoUpdate, RepairPcs

\* After "ok" the service is the new container, after "rolled_back" the old one
\* and the new one is gone, running exactly if it ran before: whichever Docker
\* calls and journal writes failed or took effect unseen.
THEOREM OutcomesTrue == Spec => []OutcomeIsTrue
<1>1. Init => OInv
  BY InitOutcome
<1>2. OInv => OutcomeIsTrue
  BY DEF OInv, OnTheWay, ResultTrue, OutcomeIsTrue
<1> QED
  BY <1>1, <1>2, NextOutcome, PTL DEF Spec

-----------------------------------------------------------------------------
(* Damage and its repair, while Docker answers and the journal is written    *)

DockerAnswers == Faults \subseteq {"crash"}

\* What an open entry knows of the containers: an update that is not verified
\* has the old container, alone or kept aside under the new one; a verified one
\* has the new container in place.
Shape(j) ==
    LET o == journal[j].old
    IN  /\ journal[j].wasRunning = wanted
        /\ journal[j].step # "verified" =>
             \/ live = {o} /\ (up[o] => wanted)
             \/ live = {o, j} /\ name[j] = "app" /\ name[o] = "app-nu-old" /\ ~up[o]
        /\ journal[j].step = "verified" =>
             j \in live /\ live \subseteq {o, j} /\ name[j] = "app" /\ up[j] = wanted

\* There is one entry at most, the process knows what it says, and where
\* nothing is open nothing is damaged.
Accounted ==
    /\ \A j, k \in Open : j = k
    /\ \A j \in Open : Shape(j)
    /\ pc \in UpdatePcs =>
         upd.jid \in Open /\ upd.old = entry.old /\ upd.wasRunning = entry.wasRunning
    /\ pc \in RepairPcs \ {"rec_next"} => upd.jid \in Open
    /\ pc = "idle" => Open = {}
    /\ Open = {} => Intact
    /\ pc \in {"close", "rec_close"} => Intact
    /\ pc = "exited" => Orphan

\* Where in the update and in the repair which containers exist.
Stage ==
    /\ pc \in UpdatePcs \ {"remove_old", "close"} => entry.step # "verified"
    /\ pc \in {"rec_remove", "rec_restore", "rec_start"} => entry.step # "verified"
    /\ pc \in {"remove_old", "rec_finish"} => entry.step = "verified"
    /\ pc # "restart_old"
    /\ pc \in {"pull", "inspect", "stop", "rename"} => live = {upd.old}
    /\ pc \in {"pull", "inspect", "stop"} => up[upd.old] = wanted
    /\ pc \in {"mark_renamed", "create"} => live = {upd.old} /\ name[upd.old] = "app-nu-old"
    /\ pc \in {"mark_created", "start", "verify", "mark_verified", "rb_remove"} =>
         live = {upd.old, upd.jid}
    /\ pc \in {"rb_rename", "rb_start"} => live = {upd.old}
    /\ pc = "rec_restore" => live = {entry.old} \/ entry.new = NoId
    /\ pc = "rec_start" => live = {entry.old}

CInv == OInv /\ Accounted /\ Stage

\* Steps that touch neither the containers nor the journal.
LEMMA StillAccounted ==
    ASSUME Accounted, UNCHANGED <<live, name, up, wanted, journal>>
    PROVE  /\ \A j, k \in Open' : j = k
           /\ \A j \in Open' : Shape(j)'
           /\ Open' = Open /\ (Intact' <=> Intact) /\ (Orphan' <=> Orphan)
           /\ Open' = {} => Intact'
BY DEF Accounted, Open, Shape, Intact, Orphan

\* Steps on the containers under the one open entry.
LEMMA EntryShape ==
    ASSUME Accounted, NEW j \in Open, UNCHANGED <<journal, wanted>>, Shape(j)'
    PROVE  /\ \A i, k \in Open' : i = k
           /\ \A k \in Open' : Shape(k)'
           /\ Open' = Open /\ Open' # {}
BY DEF Accounted, Open

\* Every step keeps the damage accounted for, while Docker answers.
LEMMA NextAccounted ==
    ASSUME DockerAnswers, CInv, [Next]_vars
    PROVE  CInv'
<1> SUFFICES Accounted' /\ Stage'
  BY NextOutcome DEF CInv
<1>0. OInv /\ OInv' /\ Accounted /\ Stage /\ TInv /\ UpdateHasBegun /\ Located /\ OnTheWay /\ EntryIds
  BY NextOutcome DEF CInv, OInv, RInv, FInv
<1>1. /\ live \subseteq Ids /\ NoId \notin Ids
      /\ name \in [Ids -> {"app", "app-nu-old"}] /\ up \in [Ids -> BOOLEAN]
      /\ upd \in Locals /\ upd.wasRunning \in BOOLEAN /\ wanted \in BOOLEAN
      /\ journal \in [Entries -> Rows] /\ Entries \subseteq Ids
  BY <1>0, BoundsAssumption DEF TInv, TypeOK, Ids, NoId, Locals, Entries
<1>2. pc \in UpdatePcs =>
        /\ upd.old \in Ids /\ upd.jid \in Entries /\ upd.old # upd.jid
        /\ entry.old = upd.old /\ entry.wasRunning = upd.wasRunning
  BY <1>0, BoundsAssumption
     DEF UpdateHasBegun, TInv, AtWork, UpdatePcs, RepairPcs, Entries, Ids, Accounted
<1>3. pc \in {"mark_created", "start", "verify", "mark_verified", "remove_old", "rb_remove"} =>
        upd.new = upd.jid
  BY <1>0 DEF TInv
<1>4. Replies = {"ok"} /\ Writes = {TRUE}
  BY DEF DockerAnswers, Replies, Writes
<1>t. \A o : LET u == [upd EXCEPT !.outcome = o]
             IN  /\ u.old = upd.old /\ u.new = upd.new /\ u.wasRunning = upd.wasRunning
                 /\ u.jid = upd.jid
  BY <1>1 DEF Locals
<1> USE <1>0, <1>1, <1>2, <1>3, <1>4, <1>t DEF docker, UpdatePcs, RepairPcs
<1>5. CASE OperatorToggles
  <2>1. Open' = {} /\ pc' = "idle"
    BY <1>5 DEF OperatorToggles, Accounted, Open
  <2>2. Intact'
    BY <1>5 DEF OperatorToggles, Accounted, Intact
  <2> QED
    BY <2>1, <2>2 DEF Accounted, Stage
<1>6. CASE StartUpdate
  <2>1. PICK c \in Ids, j \in Entries, skipPull \in BOOLEAN, i \in Images : Begin(c, j, skipPull, i)
    BY <1>6 DEF StartUpdate
  <2>2. Intact /\ Open = {} /\ c \in live
    BY <2>1 DEF Begin, Accounted
  <2>3. live = {c} /\ up[c] = wanted
    BY <2>2 DEF Intact
  <2>4. /\ journal'[j].old = c /\ journal'[j].wasRunning = up[c] /\ journal'[j].step = "started"
        /\ ~journal'[j].closed /\ \A k \in Entries : k # j => journal'[k] = journal[k]
    BY <2>1 DEF Begin
  <2>5. Open' = {j}
    BY <2>2, <2>4 DEF Open
  <2>6. Shape(j)'
    BY <2>1, <2>3, <2>4 DEF Begin, Shape
  <2>7. upd'.jid = j /\ upd'.old = c /\ upd'.wasRunning = up[c] /\ pc' \in {"pull", "inspect"}
    BY <2>1 DEF Begin
  <2> QED
    BY <2>1, <2>3, <2>4, <2>5, <2>6, <2>7 DEF Begin, Accounted, Stage, entry
<1>7. ASSUME NEW reply \in Replies, DockerStep(reply) PROVE Accounted' /\ Stage'
  <2>0. reply = "ok"
    OBVIOUS
  <2>1. CASE Pull(reply)
    BY <2>0, <2>1, StillAccounted DEF Pull, Accounted, Stage, entry
  <2>2. CASE InspectNew(reply)
    <3>1. pc = "inspect" /\ live = {upd.old} /\ name[upd.old] = "app" /\ up[upd.old] = wanted
      BY <2>2 DEF InspectNew, Stage, Located
    <3>2. Intact
      BY <3>1 DEF Intact
    <3>3. /\ pc' \in {"stop", "rename", "close"} /\ UNCHANGED <<live, name, up, journal, wanted>>
          /\ upd'.jid = upd.jid /\ upd'.old = upd.old /\ upd'.wasRunning = upd.wasRunning
      BY <2>0, <2>2 DEF InspectNew, Finish
    <3> QED
      BY <3>1, <3>2, <3>3, StillAccounted DEF Accounted, Stage, entry
  <2>3. CASE Stop(reply)
    <3>1. /\ pc = "stop" /\ pc' = "rename" /\ live' = {upd.old} /\ ~up'[upd.old]
          /\ UNCHANGED <<live, name, journal, upd, wanted>>
      BY <2>0, <2>3 DEF Stop, SetRunning, Stage
    <3>2. Shape(upd.jid)'
      BY <3>1 DEF Accounted, Shape, Stage, entry
    <3> QED
      BY <3>1, <3>2, EntryShape DEF Accounted, Stage, entry
  <2>4. CASE RenameOld(reply)
    <3>1. pc = "rename" /\ live = {upd.old} /\ ~up[upd.old]
      BY <2>4 DEF RenameOld, Stage, Located
    <3>2. RenameOK(upd.old, "app-nu-old", reply)
      BY <2>0, <3>1 DEF RenameOK, NameFree
    <3>3. /\ pc' = "mark_renamed" /\ name'[upd.old] = "app-nu-old"
          /\ UNCHANGED <<live, up, journal, upd, wanted>>
      BY <2>0, <2>4, <3>2 DEF RenameOld, Rename, Renames, RenameOK
    <3>4. Shape(upd.jid)'
      BY <3>1, <3>3 DEF Accounted, Shape, Stage, entry
    <3> QED
      BY <3>1, <3>3, <3>4, EntryShape DEF Accounted, Stage, entry
  <2>5. CASE RestartOld(reply)
    BY <2>5 DEF RestartOld, Stage
  <2>6. CASE Create(reply)
    <3>1. pc = "create" /\ live = {upd.old} /\ name[upd.old] = "app-nu-old" /\ ~up[upd.old]
      BY <2>6 DEF Create, Stage, Located
    <3>2. NameFree("app", upd.jid)
      BY <3>1 DEF NameFree
    <3>3. /\ live' = {upd.old, upd.jid} /\ name'[upd.jid] = "app" /\ name'[upd.old] = "app-nu-old"
          /\ ~up'[upd.old] /\ pc' = "mark_created" /\ upd' = [upd EXCEPT !.new = upd.jid]
          /\ UNCHANGED <<journal, wanted>>
      BY <2>0, <2>6, <3>1, <3>2 DEF Create
    <3>4. upd'.jid = upd.jid /\ upd'.old = upd.old /\ upd'.wasRunning = upd.wasRunning
      BY <3>3 DEF Locals
    <3>5. Shape(upd.jid)'
      BY <3>1, <3>3 DEF Accounted, Shape, Stage, entry
    <3> QED
      BY <3>1, <3>3, <3>4, <3>5, EntryShape DEF Accounted, Stage, entry
  <2>7. CASE StartNew(reply)
    <3>1. /\ pc = "start" /\ pc' = "verify" /\ up' = [up EXCEPT ![upd.jid] = TRUE]
          /\ UNCHANGED <<live, name, journal, upd, wanted>>
      BY <2>0, <2>7 DEF StartNew, SetRunning
    <3>2. /\ live = {upd.old, upd.jid} /\ ~up[upd.old] /\ entry.step # "verified"
          /\ Shape(upd.jid)
      BY <3>1 DEF Accounted, Stage, OnTheWay
    <3>3. name[upd.jid] = "app" /\ name[upd.old] = "app-nu-old"
      BY <3>1, <3>2 DEF Shape, entry
    <3>4. ~up'[upd.old]
      BY <3>1, <3>2
    <3>5. Shape(upd.jid)'
      BY <3>1, <3>2, <3>3, <3>4 DEF Shape, entry
    <3> QED
      BY <3>1, <3>5, EntryShape DEF Accounted, Stage, entry
  <2>8. CASE RemoveOld(reply)
    <3>1. /\ pc = "remove_old" /\ pc' = "close" /\ live' = live \ {upd.old}
          /\ upd'.jid = upd.jid /\ upd'.old = upd.old /\ upd'.wasRunning = upd.wasRunning
          /\ UNCHANGED <<name, up, journal, wanted>>
      BY <2>0, <2>8 DEF RemoveOld, Remove, Finish
    <3>2. Shape(upd.jid)' /\ live' = {upd.jid} /\ name[upd.jid] = "app" /\ up[upd.jid] = wanted
      BY <3>1 DEF Accounted, Shape, Stage, entry
    <3>3. Intact'
      BY <3>1, <3>2 DEF Intact
    <3> QED
      BY <3>1, <3>2, <3>3, EntryShape DEF Accounted, Stage, entry
  <2>9. CASE RollbackRemove(reply)
    <3>1. /\ pc = "rb_remove" /\ pc' = "rb_rename" /\ live' = {upd.old} /\ ~up[upd.old]
          /\ UNCHANGED <<name, up, journal, upd, wanted>>
      BY <2>0, <2>9 DEF RollbackRemove, Remove, Stage, OnTheWay
    <3>2. Shape(upd.jid)'
      BY <3>1 DEF Accounted, Shape, Stage, entry
    <3> QED
      BY <3>1, <3>2, EntryShape DEF Accounted, Stage, entry
  <2>10. CASE RollbackRename(reply)
    <3>1. pc = "rb_rename" /\ live = {upd.old} /\ ~up[upd.old]
      BY <2>10 DEF RollbackRename, Stage, OnTheWay
    <3>2. RenameOK(upd.old, "app", reply)
      BY <2>0, <3>1 DEF RenameOK, NameFree
    <3>3. /\ name'[upd.old] = "app" /\ UNCHANGED <<live, up, journal, wanted>>
          /\ pc' = (IF upd.wasRunning THEN "rb_start" ELSE "close")
          /\ upd'.jid = upd.jid /\ upd'.old = upd.old /\ upd'.wasRunning = upd.wasRunning
      BY <2>0, <2>10, <3>2 DEF RollbackRename, Rename, Renames, RenameOK, Finish
    <3>4. Shape(upd.jid)'
      BY <3>1, <3>3 DEF Accounted, Shape, Stage, entry
    <3>5. ~upd.wasRunning => Intact'
      BY <3>1, <3>3 DEF Accounted, Shape, Intact, entry
    <3> QED
      BY <3>1, <3>3, <3>4, <3>5, EntryShape DEF Accounted, Stage, entry
  <2>11. CASE RollbackStart(reply)
    <3>1. /\ pc = "rb_start" /\ up' = [up EXCEPT ![upd.old] = TRUE] /\ pc' = "close"
          /\ upd' = [upd EXCEPT !.outcome = "rolled_back"]
          /\ UNCHANGED <<live, name, journal, wanted>>
      BY <2>0, <2>11 DEF RollbackStart, SetRunning, Finish
    <3>2. /\ live = {upd.old} /\ name[upd.old] = "app" /\ upd.wasRunning
          /\ entry.step # "verified" /\ Shape(upd.jid)
      BY <3>1 DEF Accounted, Stage, Located, OnTheWay
    <3>a. upd.wasRunning = wanted
      <4>1. journal[upd.jid].wasRunning = wanted
        BY <3>2 DEF Shape
      <4>2. journal[upd.jid].wasRunning = upd.wasRunning
        BY <3>1 DEF entry
      <4> QED
        BY <4>1, <4>2
    <3>3. wanted = TRUE
      <4>1. CASE wanted = FALSE
        <5>1. upd.wasRunning = FALSE
          BY <3>a, <4>1
        <5> QED
          BY <5>1, <3>2
      <4> QED
        BY <4>1
    <3>4. up'[upd.old] = TRUE
      BY <3>1
    <3>5. Shape(upd.jid)'
      BY <3>1, <3>2, <3>3, <3>4 DEF Shape, entry
    <3>6. Intact'
      BY <3>1, <3>2, <3>3, <3>4 DEF Intact
    <3>7. upd'.jid = upd.jid /\ upd'.old = upd.old /\ upd'.wasRunning = upd.wasRunning
      BY <3>1
    <3> QED
      BY <3>1, <3>5, <3>6, <3>7, EntryShape DEF Accounted, Stage, entry
  <2>12. CASE ReconcileFinish(reply)
    <3>1. /\ pc = "rec_finish" /\ pc' = "rec_close" /\ live' = live \ {entry.old}
          /\ upd.jid \in Open /\ UNCHANGED <<name, up, journal, upd, wanted>>
      BY <2>0, <2>12 DEF ReconcileFinish, Remove, Accounted
    <3>2. upd.jid \in Entries /\ entry.old # upd.jid
      BY <3>1 DEF Open, EntryIds, entry
    <3>3. Shape(upd.jid)' /\ live' = {upd.jid} /\ name[upd.jid] = "app" /\ up[upd.jid] = wanted
      BY <3>1, <3>2 DEF Accounted, Shape, Stage, entry
    <3>4. Intact'
      BY <3>1, <3>2, <3>3 DEF Intact
    <3> QED
      BY <3>1, <3>3, <3>4, EntryShape DEF Accounted, Stage, entry
  <2>13. CASE ReconcileRemove(reply)
    <3>1. /\ pc = "rec_remove" /\ pc' = "rec_restore"
          /\ live' = IF entry.new = NoId THEN live ELSE live \ {entry.new}
          /\ upd.jid \in Open /\ UNCHANGED <<name, up, journal, upd, wanted>>
      BY <2>0, <2>13 DEF ReconcileRemove, Remove, Accounted
    <3>2. upd.jid \in Entries /\ entry.old # upd.jid /\ entry.new \in {NoId, upd.jid}
      BY <3>1 DEF Open, EntryIds, entry
    <3>3. Shape(upd.jid)' /\ (live' = {entry.old} \/ entry.new = NoId)
      BY <3>1, <3>2 DEF Accounted, Shape, Stage, entry
    <3> QED
      BY <3>1, <3>3, EntryShape DEF Accounted, Stage, entry
  <2>14. CASE ReconcileRestore(reply)
    <3>1. pc = "rec_restore" /\ upd.jid \in Open /\ UNCHANGED <<live, up, journal, wanted>>
      BY <2>14 DEF ReconcileRestore, Accounted
    <3>2. upd.jid \in Entries /\ entry.old # upd.jid /\ entry.old \in live
      BY <3>1 DEF Open, EntryIds, Accounted, Shape, Stage, entry
    <3>3. CASE live = {entry.old}
      <4>1. RenameOK(entry.old, "app", reply)
        BY <2>0, <3>3 DEF RenameOK, NameFree
      <4>2. pc' = "rec_start" /\ name'[entry.old] = "app" /\ upd' = upd
        BY <2>0, <2>14, <3>2, <4>1 DEF ReconcileRestore, Rename, Renames, RenameOK
      <4>3. Shape(upd.jid)'
        BY <3>1, <3>2, <3>3, <4>2 DEF Accounted, Shape, Stage, entry
      <4> QED
        BY <3>1, <3>3, <4>2, <4>3, EntryShape DEF Accounted, Stage, entry
    <3>4. CASE live # {entry.old}
      <4>1. /\ live = {entry.old, upd.jid} /\ name[upd.jid] = "app" /\ name[entry.old] # "app"
            /\ entry.new = NoId
        BY <3>1, <3>4 DEF Accounted, Shape, Stage, entry
      <4>2. ~NameFree("app", entry.old)
        BY <3>2, <4>1 DEF NameFree
      <4>3. UNCHANGED name /\ pc' = "exited"
        BY <2>14, <4>1, <4>2 DEF ReconcileRestore, Rename, Renames, RenameOK, Exit
      <4>4. Orphan
        BY <3>1, <3>2, <4>1 DEF Accounted, Orphan, entry
      <4> QED
        BY <3>1, <4>3, <4>4, StillAccounted DEF Accounted, Stage
    <3> QED
      BY <3>3, <3>4
  <2>15. CASE ReconcileStart(reply)
    <3>1. /\ pc = "rec_start" /\ pc' = "rec_close" /\ upd.jid \in Open
          /\ live = {entry.old} /\ name[entry.old] = "app"
          /\ up' = IF entry.wasRunning /\ ~up[entry.old] THEN [up EXCEPT ![entry.old] = TRUE] ELSE up
          /\ UNCHANGED <<live, name, journal, upd, wanted>>
      BY <2>0, <2>15 DEF ReconcileStart, SetRunning, Accounted, Stage, Located
    <3>2. /\ entry.wasRunning = wanted /\ upd.jid \in Entries /\ entry.old \in Ids
          /\ (up[entry.old] => wanted) /\ entry.old # upd.jid
      BY <3>1 DEF Accounted, Shape, Stage, Open, EntryIds, entry
    <3>3. up'[entry.old] = wanted
      BY <3>1, <3>2
    <3>4. Shape(upd.jid)' /\ Intact'
      BY <3>1, <3>2, <3>3 DEF Shape, Stage, Intact, entry
    <3> QED
      BY <3>1, <3>4, EntryShape DEF Accounted, Stage, entry
  <2> QED
    BY <1>7, <2>1, <2>2, <2>3, <2>4, <2>5, <2>6, <2>7, <2>8, <2>9, <2>10, <2>11, <2>12,
       <2>13, <2>14, <2>15 DEF DockerStep
<1>8. ASSUME NEW ok \in BOOLEAN, Verify(ok) PROVE Accounted' /\ Stage'
  BY <1>8, StillAccounted DEF Verify, Accounted, Stage, entry
<1>9. ASSUME NEW written \in Writes, JournalWrite(written) PROVE Accounted' /\ Stage'
  <2> DEFINE Written(step, new) ==
               /\ entry'.step = step /\ entry'.new = new
               /\ entry'.old = entry.old /\ entry'.wasRunning = entry.wasRunning
               /\ Open' = Open /\ Open = {upd.jid}
  <2>0. written
    OBVIOUS
  <2>w. ASSUME upd.jid \in Open, upd' = upd, NEW step \in StepNames, NEW new \in Ids \cup {NoId},
               journal' = [journal EXCEPT ![upd.jid].step = step, ![upd.jid].new = new]
        PROVE  Written(step, new)
    <3>1. Open = {upd.jid} /\ upd.jid \in Entries /\ journal[upd.jid] \in Rows
      BY <2>w DEF Accounted, Open
    <3>2. /\ entry'.step = step /\ entry'.new = new /\ entry'.closed = entry.closed
          /\ entry'.old = entry.old /\ entry'.wasRunning = entry.wasRunning
      BY <2>w, <3>1 DEF entry, Rows
    <3>3. \A k \in Entries : journal'[k].closed = journal[k].closed
      BY <2>w, <3>1, <3>2 DEF entry
    <3> QED
      BY <3>1, <3>2, <3>3 DEF Open
  <2> HIDE DEF Written
  <2>1. CASE MarkRenamed(written)
    <3>1. /\ pc = "mark_renamed" /\ pc' = "create" /\ upd.jid \in Open
          /\ journal' = [journal EXCEPT ![upd.jid].step = "renamed_old", ![upd.jid].new = NoId]
          /\ UNCHANGED <<live, name, up, upd, wanted>>
      BY <2>0, <2>1 DEF Accounted, MarkRenamed, JournalStep
    <3>2. Written("renamed_old", NoId)
      BY <2>w, <3>1 DEF StepNames
    <3>3. Shape(upd.jid)'
      BY <3>1, <3>2 DEF Written, Accounted, Shape, Stage, entry
    <3> QED
      BY <3>1, <3>2, <3>3 DEF Written, Accounted, Stage, entry
  <2>2. CASE MarkCreated(written)
    <3>1. /\ pc = "mark_created" /\ pc' \in {"start", "mark_verified"} /\ upd.jid \in Open
          /\ journal' = [journal EXCEPT ![upd.jid].step = "created_new", ![upd.jid].new = upd.jid]
          /\ UNCHANGED <<live, name, up, upd, wanted>>
      BY <2>0, <2>2 DEF Accounted, MarkCreated, JournalStep
    <3>2. Written("created_new", upd.jid)
      BY <2>w, <3>1 DEF StepNames
    <3>3. Shape(upd.jid)'
      BY <3>1, <3>2 DEF Written, Accounted, Shape, Stage, entry
    <3> QED
      BY <3>1, <3>2, <3>3 DEF Written, Accounted, Stage, entry
  <2>3. CASE MarkVerified(written)
    <3>1. /\ pc = "mark_verified" /\ pc' = "remove_old" /\ upd.jid \in Open
          /\ journal' = [journal EXCEPT ![upd.jid].step = "verified", ![upd.jid].new = entry.new]
          /\ UNCHANGED <<live, name, up, upd, wanted>>
      BY <2>0, <2>3 DEF entry, Accounted, MarkVerified, JournalStep
    <3>4. entry.new \in Ids \cup {NoId}
      BY <3>1 DEF Open, EntryIds, entry
    <3>2. Written("verified", entry.new)
      BY <2>w, <3>1, <3>4 DEF StepNames
    <3>3. Shape(upd.jid)'
      BY <3>1, <3>2 DEF Written, Accounted, Shape, Stage, OnTheWay, entry
    <3> QED
      BY <3>1, <3>2, <3>3 DEF Written, Accounted, Stage, entry
  <2>4. CASE Close(written)
    <3>1. /\ pc = "close" /\ pc' = "idle" /\ upd.jid \in Open
          /\ journal' = [journal EXCEPT ![upd.jid].closed = TRUE]
          /\ UNCHANGED <<live, name, up, wanted>>
      BY <2>0, <2>4 DEF Close, Accounted
    <3>2. Open' = {}
      BY <3>1 DEF Accounted, Open
    <3>3. Intact'
      BY <3>1 DEF Accounted, Intact
    <3> QED
      BY <3>1, <3>2, <3>3 DEF Accounted, Stage
  <2>5. CASE ReconcileClose(written)
    <3>1. /\ pc = "rec_close" /\ pc' = "rec_next" /\ upd.jid \in Open
          /\ journal' = [journal EXCEPT ![upd.jid].closed = TRUE]
          /\ UNCHANGED <<live, name, up, wanted>>
      BY <2>0, <2>5 DEF ReconcileClose, Accounted
    <3>2. Open' = {}
      BY <3>1 DEF Accounted, Open
    <3>3. Intact'
      BY <3>1 DEF Accounted, Intact
    <3> QED
      BY <3>1, <3>2, <3>3 DEF Accounted, Stage
  <2> QED
    BY <1>9, <2>1, <2>2, <2>3, <2>4, <2>5 DEF JournalWrite
<1>10. CASE ProcessStarts \/ Crash
  BY <1>10, StillAccounted DEF ProcessStarts, Crash, Accounted, Stage
<1>11. CASE ReconcileNext
  <2>1. /\ pc = "rec_next" /\ UNCHANGED <<live, name, up, wanted, journal>>
        /\ \/ Open = {} /\ pc' = "idle"
           \/ \E j \in Open : /\ upd' = [NoUpdate EXCEPT !.jid = j]
                              /\ pc' = IF journal[j].step = "verified" THEN "rec_finish" ELSE "rec_remove"
    BY <1>11 DEF ReconcileNext
  <2>2. CASE pc' = "idle"
    BY <2>1, <2>2, StillAccounted DEF Accounted, Stage
  <2>3. ASSUME NEW j \in Open, upd' = [NoUpdate EXCEPT !.jid = j],
               pc' = IF journal[j].step = "verified" THEN "rec_finish" ELSE "rec_remove"
        PROVE  Accounted' /\ Stage'
    <3>1. upd'.jid = j
      BY <2>3 DEF NoUpdate
    <3> QED
      BY <2>1, <2>3, <3>1, StillAccounted DEF Accounted, Stage, entry
  <2> QED
    BY <2>1, <2>2, <2>3
<1>12. CASE UNCHANGED vars
  BY <1>12, StillAccounted DEF vars, Accounted, Stage, entry
<1> QED
  BY <1>5, <1>6, <1>7, <1>8, <1>9, <1>10, <1>11, <1>12 DEF Next, Program

\* At the first start nothing is open and the service is intact.
LEMMA InitAccounted == Init => CInv
<1> SUFFICES ASSUME Init PROVE CInv
  OBVIOUS
<1>1. OInv
  BY InitOutcome
<1>2. Open = {}
  BY DEF Init, Open, NoEntry
<1>3. Intact
  BY BoundsAssumption DEF Init, Intact, Ids
<1> QED
  BY <1>1, <1>2, <1>3 DEF Init, CInv, Accounted, Stage, UpdatePcs, RepairPcs

\* While Docker answers, whatever an interrupted update left behind has an
\* open journal entry that says so, at every moment a crash can come.
THEOREM DamageCovered == DockerAnswers => (Spec => []JournalCoversDamage)
<1> SUFFICES ASSUME DockerAnswers PROVE Spec => []JournalCoversDamage
  OBVIOUS
<1>1. Init => CInv
  BY InitAccounted
<1>2. CInv /\ [Next]_vars => CInv'
  BY NextAccounted
<1>3. CInv => JournalCoversDamage
  BY DEF CInv, Accounted, JournalCoversDamage
<1> QED
  BY <1>1, <1>2, <1>3, PTL DEF Spec

\* While Docker answers, the only thing that makes the repair give up is the
\* container that Create made just before a crash and no entry names yet.
THEOREM RepairMeetsOrphan == DockerAnswers => (Spec => []RepairFailsOnlyOnOrphan)
<1> SUFFICES ASSUME DockerAnswers PROVE Spec => []RepairFailsOnlyOnOrphan
  OBVIOUS
<1>1. Init => CInv
  BY InitAccounted
<1>2. CInv /\ [Next]_vars => CInv'
  BY NextAccounted
<1>3. CInv => RepairFailsOnlyOnOrphan
  BY DEF CInv, Accounted, RepairFailsOnlyOnOrphan
<1> QED
  BY <1>1, <1>2, <1>3, PTL DEF Spec

\* What the runs find wrong after a failed update is the work of failing calls
\* alone: while Docker answers, a failed update leaves the service up and no
\* container under the name of an old one, wherever the process died before.
THEOREM FailureIsHarmless == DockerAnswers => (Spec => [](FailureLeavesServiceUp /\ NoLeftover))
<1> SUFFICES ASSUME DockerAnswers PROVE Spec => [](FailureLeavesServiceUp /\ NoLeftover)
  OBVIOUS
<1>1. Init => CInv
  BY InitAccounted
<1>2. CInv /\ [Next]_vars => CInv'
  BY NextAccounted
<1>3. CInv => FailureLeavesServiceUp /\ NoLeftover
  BY DEF CInv, Accounted, Intact, FailureLeavesServiceUp, NoLeftover
<1> QED
  BY <1>1, <1>2, <1>3, PTL DEF Spec

-----------------------------------------------------------------------------
(* The contract of the adapters                                             *)

\* The image of the service and whether it runs, as the contract sees them.
TheImage == IF Service = {} THEN NoId ELSE image[CHOOSE c \in Service : TRUE]
Runs     == \E c \in Service : up[c]

\* The contract's image of a service is one, if there is a service.
LEMMA ServiceTypes == TInv => TheImage \in Images \cup {NoId}
<1> SUFFICES ASSUME TInv PROVE TheImage \in Images \cup {NoId}
  OBVIOUS
<1>1. CASE Service = {}
  BY <1>1 DEF TheImage
<1>2. CASE Service # {}
  <2>1. (CHOOSE c \in Service : TRUE) \in Service
    BY <1>2
  <2> QED
    BY <1>2, <2>1 DEF TheImage, Service, TInv, TypeOK
<1> QED
  BY <1>1, <1>2

\* The service is the container that has its name.
LEMMA ServiceIs ==
    ASSUME NamesUnique, NEW c \in live, name[c] = "app"
    PROVE  Service = {c} /\ TheImage = image[c] /\ (Runs <=> up[c])
<1>1. Service = {c}
  BY DEF NamesUnique, Service
<1>2. (CHOOSE d \in Service : TRUE) = c
  BY <1>1
<1> QED
  BY <1>1, <1>2 DEF TheImage, Runs

\* Where nothing is open, the service runs if it is wanted.
LEMMA ServiceCovered == CInv => (wanted => Runs) \/ Open # {}
<1> SUFFICES ASSUME CInv, Open = {} PROVE wanted => Runs
  OBVIOUS
<1>1. PICK c \in live : name[c] = "app" /\ up[c] = wanted
  BY DEF CInv, Accounted, Intact
<1> QED
  BY <1>1, ServiceIs DEF CInv, OInv, RInv

\* Both hold of the next state as well.
LEMMA ServiceNext ==
    /\ TInv' => TheImage' \in Images \cup {NoId}
    /\ CInv' => (wanted' => Runs') \/ Open' # {}
<1>1. (TInv => TheImage \in Images \cup {NoId})'
  BY ServiceTypes, PTL
<1>2. (CInv => (wanted => Runs) \/ Open # {})'
  BY ServiceCovered, PTL
<1> QED
  BY <1>1, <1>2

\* What Update returns, and whom it leaves when nothing was to be done.
ReturnOK ==
    /\ pc = "close" => upd.outcome # "none"
    /\ pc = "close" /\ upd.outcome = "unchanged" => upd.old \in live

\* What Update returns, and when, holds in every state.
LEMMA NextReturn ==
    ASSUME CInv, ReturnOK, [Next]_vars
    PROVE  ReturnOK'
<1>1. Located /\ upd \in Locals
  BY DEF CInv, OInv, RInv, FInv, TInv, TypeOK
<1> USE <1>1 DEF docker, ReturnOK
<1>2. ASSUME NEW reply \in Replies, DockerStep(reply) PROVE ReturnOK'
  <2>1. CASE InspectNew(reply)
    BY <2>1 DEF InspectNew, Finish, Locals, Located
  <2>2. CASE Pull(reply) \/ Stop(reply) \/ RenameOld(reply)
    BY <2>2 DEF Pull, Stop, RenameOld, Finish, Locals
  <2>3. CASE RestartOld(reply)
    BY <2>3 DEF RestartOld, CInv, OInv, OnTheWay
  <2>4. CASE Create(reply) \/ StartNew(reply) \/ RemoveOld(reply)
    BY <2>4 DEF Create, StartNew, RemoveOld, Finish, Locals
  <2>5. CASE RollbackRemove(reply) \/ RollbackRename(reply) \/ RollbackStart(reply)
    BY <2>5 DEF RollbackRemove, RollbackRename, RollbackStart, Finish, Abandon, Locals
  <2>6. CASE ReconcileFinish(reply) \/ ReconcileRemove(reply) \/ ReconcileRestore(reply)
               \/ ReconcileStart(reply)
    BY <2>6 DEF ReconcileFinish, ReconcileRemove, ReconcileRestore, ReconcileStart, Exit
  <2> QED
    BY <1>2, <2>1, <2>2, <2>3, <2>4, <2>5, <2>6 DEF DockerStep
<1>3. ASSUME NEW written \in Writes, JournalWrite(written) PROVE ReturnOK'
  BY <1>3 DEF JournalWrite, MarkRenamed, MarkCreated, MarkVerified, Close, ReconcileClose, Exit
<1>4. CASE OperatorToggles \/ StartUpdate \/ ProcessStarts \/ ReconcileNext \/ Crash
  BY <1>4 DEF OperatorToggles, StartUpdate, Begin, ProcessStarts, ReconcileNext, Crash
<1>5. ASSUME NEW ok \in BOOLEAN, Verify(ok) PROVE ReturnOK'
  BY <1>5 DEF Verify
<1>6. CASE UNCHANGED vars
  BY <1>6 DEF vars
<1> QED
  BY <1>2, <1>3, <1>4, <1>5, <1>6 DEF Next, Program

\* A step inside an update is work under its open entry.
LEMMA WorkStep ==
    ASSUME TInv, TInv', pc \in UpdatePcs, pc' \in UpdatePcs, Open' = Open, wanted' = wanted,
           upd'.old = upd.old, image'[upd.old] = image[upd.old]
    PROVE  Contract!Work
<1>1. Phase = "updating" /\ Phase' = "updating" /\ pc # "idle" /\ pc' # "idle"
  BY DEF Phase, UpdatePcs, RepairPcs
<1>2. TheImage' \in Images \cup {NoId}
  BY ServiceNext
<1> QED
  BY <1>1, <1>2 DEF TheImage, Contract!Work

\* A step of the repair keeps what should run covered by an entry.
LEMMA RepairStep ==
    ASSUME CInv, CInv', pc \in RepairPcs \cup {"down", "exited"},
           pc' \in RepairPcs \cup {"down", "exited"}, Open' \subseteq Open, wanted' = wanted
    PROVE  Contract!Repair
<1>1. Phase = "repairing" /\ Phase' = "repairing" /\ pc # "idle" /\ pc' # "idle"
  BY DEF Phase, RepairPcs
<1>2. TheImage' \in Images \cup {NoId}
  <2>1. TInv'
    BY DEF CInv, OInv, RInv, FInv
  <2> QED BY <2>1, ServiceNext
<1>3. (wanted' => Runs') \/ Open' # {}
  BY ServiceNext
<1> QED
  BY <1>1, <1>2, <1>3 DEF TheImage, Runs, Contract!Repair, Contract!Covered

\* Update returns an outcome that is true of the service it leaves.
LEMMA ReturnStep ==
    ASSUME CInv, CInv', pc \in UpdatePcs, pc' = "idle", wanted' = wanted,
           NEW o \in Contract!Outcomes, upd'.outcome = o,
           o = "ok" => TheImage' # image[upd.old] /\ TheImage' # NoId,
           o \in {"unchanged", "rolled_back"} => TheImage' = image[upd.old],
           o \in {"ok", "rolled_back"} => (wanted => Runs')
    PROVE  Contract!Return(o)
<1>1. Phase = "updating" /\ Phase' = "idle"
  BY DEF Phase, UpdatePcs, RepairPcs
<1>2. TheImage' \in Images \cup {NoId}
  <2>1. TInv'
    BY DEF CInv, OInv, RInv, FInv
  <2> QED BY <2>1, ServiceNext
<1>3. (wanted' => Runs') \/ Open' # {}
  BY ServiceNext
<1>4. Contract!Truth(o, TheImage')
  BY <1>1 DEF Contract!Truth, Contract!Outcomes
<1> QED
  BY <1>1, <1>2, <1>3, <1>4 DEF TheImage, Runs, Contract!Return, Contract!Covered

\* Steps that leave the containers alone keep the service as it is.
LEMMA SameService ==
    ASSUME UNCHANGED <<live, name, image, up>>
    PROVE  TheImage' = TheImage /\ (Runs' <=> Runs)
BY DEF TheImage, Runs, Service

\* Steps that leave the journal alone keep its entries open.
LEMMA SameEntries ==
    ASSUME UNCHANGED journal
    PROVE  Open' = Open
BY DEF Open

\* At the first start the service is container 0, and nothing is open.
LEMMA InitContract == Init => Contract!Init
<1> SUFFICES ASSUME Init PROVE Contract!Init
  OBVIOUS
<1>1. 0 \in live /\ name[0] = "app" /\ NamesUnique
  BY BoundsAssumption DEF Init, NamesUnique, Ids
<1>2. TheImage = image[0] /\ (Runs <=> up[0])
  BY <1>1, ServiceIs
<1>3. image[0] \in Images /\ up[0] \in BOOLEAN /\ wanted = up[0]
  BY BoundsAssumption DEF Init, Ids
<1>4. Runs = wanted
  BY <1>2, <1>3 DEF Runs
<1>5. Open = {}
  BY DEF Init, Open, NoEntry
<1>6. upd.outcome = "none" /\ pc = "idle"
  BY DEF Init, NoUpdate
<1>7. Phase = "idle"
  BY <1>6 DEF Phase, RepairPcs
<1> QED
  BY <1>2, <1>3, <1>4, <1>5, <1>6, <1>7 DEF TheImage, Runs, Contract!Init

\* The journal's own steps inside an update do not close its entry.
LEMMA StaysOpen ==
    ASSUME TInv, NEW step, NEW new, NEW written, JournalStep(upd.jid, step, new, written)
    PROVE  Open' = Open
<1>1. journal \in [Entries -> Rows]
  BY DEF TInv, TypeOK
<1>2. \A k \in Entries : journal'[k].closed = journal[k].closed
  BY <1>1 DEF JournalStep, Rows
<1> QED
  BY <1>2 DEF Open

\* Run.Update and Reconcile keep the contract of the adapters while Docker
\* answers and the journal can be written, for any number of updates and
\* crashes: each of their steps is one of the contract or changes nothing that
\* it speaks of.
THEOREM ContractKept == DockerAnswers => (Spec => KeepsContract)
<1> SUFFICES ASSUME DockerAnswers PROVE Spec => KeepsContract
  OBVIOUS
<1>1. Init => Contract!Init
  BY InitContract
<1>2. Init => CInv /\ ReturnOK
  BY InitAccounted DEF Init, ReturnOK
<1>3. CInv /\ ReturnOK /\ [Next]_vars => CInv' /\ ReturnOK'
  BY NextAccounted, NextReturn
<1>4. ASSUME CInv, CInv', ReturnOK, [Next]_vars PROVE [Contract!Next]_(Contract!vars)
  <2>1. /\ TInv /\ TInv' /\ UpdateHasBegun /\ NamesUnique /\ NamesUnique' /\ OnTheWay /\ Accounted
        /\ upd \in Locals /\ upd' \in Locals
    BY <1>4 DEF CInv, OInv, RInv, FInv, TInv, TypeOK
  <2>2. Replies = {"ok"} /\ Writes = {TRUE}
    BY DEF DockerAnswers, Replies, Writes
  <2>3. CASE OperatorToggles
    <3>1. PICK c \in live : /\ live = {c} /\ name[c] = "app" /\ up[c] = wanted
                            /\ up' = [up EXCEPT ![c] = ~up[c]] /\ wanted' = ~up[c]
      BY <2>1, <2>3 DEF OperatorToggles, Accounted, Intact
    <3>2. /\ pc = "idle" /\ pc' = "idle" /\ upd'.outcome = "none"
          /\ UNCHANGED <<live, name, image, journal>>
      BY <2>3 DEF OperatorToggles, NoUpdate
    <3>3. up[c] \in BOOLEAN /\ up'[c] = ~up[c]
      BY <2>1, <3>1 DEF TInv, TypeOK
    <3>4. Service = {c} /\ Service' = {c}
      BY <2>1, <3>1, <3>2, ServiceIs DEF Service
    <3>5. Runs = up[c] /\ Runs' = ~up[c]
      BY <3>3, <3>4 DEF Runs
    <3>6. TheImage' = TheImage
      BY <3>2, <3>4 DEF TheImage
    <3>7. Phase = "idle" /\ Phase' = "idle"
      BY <3>2 DEF Phase, RepairPcs
    <3>9. Open' = Open
      BY <3>2, SameEntries
    <3>8. Contract!OperatorToggles
      BY <3>1, <3>2, <3>5, <3>6, <3>7, <3>9 DEF TheImage, Runs, Contract!OperatorToggles
    <3> QED
      BY <3>8 DEF Contract!Next
  <2>4. CASE StartUpdate
    <3>1. PICK c \in Ids, j \in Entries, skipPull \in BOOLEAN, i \in Images : Begin(c, j, skipPull, i)
      BY <2>4 DEF StartUpdate
    <3>2. TheImage = image[c] /\ image[c] \in Images
      BY <2>1, <3>1, ServiceIs DEF Begin, TInv, TypeOK
    <3>3. j \in Open'
      BY <2>1, <3>1 DEF Begin, Open, TInv, TypeOK
    <3>4. TheImage' = TheImage /\ (Runs' <=> Runs)
      BY <3>1, SameService DEF Begin
    <3>5. Phase = "idle" /\ Phase' = "updating" /\ pc' # "idle" /\ image'[upd'.old] = image[c]
      BY <3>1 DEF Begin, Phase, RepairPcs
    <3>6. Contract!Begin
      BY <3>1, <3>2, <3>3, <3>4, <3>5, ImagesAssumption DEF TheImage, Runs, Begin, Contract!Begin
    <3> QED
      BY <3>6 DEF Contract!Next
  <2>5. ASSUME NEW reply \in Replies, DockerStep(reply) PROVE Contract!Next
    <3>0. reply = "ok"
      BY <2>2
    <3>1. CASE \/ Pull(reply) \/ InspectNew(reply) \/ Stop(reply) \/ RenameOld(reply)
               \/ RestartOld(reply) \/ StartNew(reply) \/ RemoveOld(reply)
      <4>1. /\ pc \in UpdatePcs /\ pc' \in UpdatePcs /\ UNCHANGED <<image, journal, wanted>>
            /\ upd'.old = upd.old
        BY <2>1, <3>0, <3>1
           DEF Pull, InspectNew, Stop, RenameOld, RestartOld, StartNew, RemoveOld, Finish, docker,
               Locals, UpdatePcs
      <4> QED
        BY <2>1, <4>1, WorkStep, SameEntries DEF Contract!Next
    <3>2. CASE Create(reply)
      <4>1. /\ pc \in UpdatePcs /\ pc' \in UpdatePcs /\ UNCHANGED <<journal, wanted>>
            /\ upd'.old = upd.old
        BY <2>1, <3>2 DEF Create, Locals, UpdatePcs
      <4>2. image'[upd.old] = image[upd.old]
        BY <2>1, <3>2, <4>1 DEF Create, UpdateHasBegun, TInv, TypeOK
      <4> QED
        BY <2>1, <4>1, <4>2, WorkStep, SameEntries DEF Contract!Next
    <3>3. CASE RollbackRemove(reply) \/ RollbackRename(reply) \/ RollbackStart(reply)
      <4>1. /\ pc \in UpdatePcs /\ UNCHANGED <<image, journal, wanted>> /\ upd'.old = upd.old
            /\ pc' \in UpdatePcs \/ (pc' = "idle" /\ upd'.outcome = "failed")
        BY <2>1, <3>3
           DEF RollbackRemove, RollbackRename, RollbackStart, Finish, Abandon, Locals, UpdatePcs
      <4>2. CASE pc' \in UpdatePcs
        BY <2>1, <4>1, <4>2, WorkStep, SameEntries DEF Contract!Next
      <4>3. CASE pc' = "idle" /\ upd'.outcome = "failed"
        <5>1. Contract!Return("failed")
          BY <1>4, <4>1, <4>3, ReturnStep DEF Contract!Outcomes
        <5> QED
          BY <5>1 DEF Contract!Next, Contract!Outcomes
      <4> QED
        BY <4>1, <4>2, <4>3
    <3>4. CASE \/ ReconcileFinish(reply) \/ ReconcileRemove(reply)
               \/ ReconcileRestore(reply) \/ ReconcileStart(reply)
      <4>1. /\ pc \in RepairPcs \cup {"down", "exited"} /\ pc' \in RepairPcs \cup {"down", "exited"}
            /\ UNCHANGED <<journal, wanted>>
        BY <3>4 DEF ReconcileFinish, ReconcileRemove, ReconcileRestore, ReconcileStart, Exit, RepairPcs
      <4> QED
        BY <1>4, <4>1, RepairStep, SameEntries DEF Contract!Next
    <3> QED
      BY <2>5, <3>1, <3>2, <3>3, <3>4 DEF DockerStep
  <2>6. ASSUME NEW ok \in BOOLEAN, Verify(ok) PROVE Contract!Next
    <3>1. /\ pc \in UpdatePcs /\ pc' \in UpdatePcs /\ UNCHANGED <<image, journal, wanted, upd>>
      BY <2>6 DEF Verify, docker, UpdatePcs
    <3> QED
      BY <2>1, <3>1, WorkStep, SameEntries DEF Contract!Next
  <2>7. ASSUME NEW written \in Writes, JournalWrite(written) PROVE Contract!Next
    <3>0. written = TRUE
      BY <2>2
    <3>1. CASE MarkRenamed(written) \/ MarkCreated(written) \/ MarkVerified(written)
      <4>1. pc \in UpdatePcs /\ pc' \in UpdatePcs /\ UNCHANGED <<image, wanted, upd>>
        BY <3>1 DEF MarkRenamed, MarkCreated, MarkVerified, docker, UpdatePcs
      <4>2. Open' = Open
        BY <2>1, <3>1, StaysOpen DEF MarkRenamed, MarkCreated, MarkVerified
      <4> QED
        BY <2>1, <4>1, <4>2, WorkStep DEF Contract!Next
    <3>2. CASE Close(written)
      <4>1. pc = "close" /\ pc' = "idle" /\ UNCHANGED <<docker, upd, wanted>>
        BY <3>2 DEF Close
      <4>2. PICK c \in live : live = {c} /\ name[c] = "app" /\ up[c] = wanted
        BY <2>1, <4>1 DEF Accounted, Intact
      <4>3. TheImage' = image[c] /\ (Runs' <=> up[c]) /\ image[c] \in Images
        BY <2>1, <4>1, <4>2, ServiceIs, SameService DEF docker, TInv, TypeOK
      <4>4. ResultTrue /\ upd.outcome \in Contract!Outcomes
        BY <1>4, <2>1, <4>1 DEF OnTheWay, ReturnOK, Locals, Outcomes, Contract!Outcomes
      <4>5. upd.outcome = "ok" => TheImage' # image[upd.old] /\ TheImage' # NoId
        BY <4>2, <4>3, <4>4, ImagesAssumption DEF ResultTrue
      <4>6. upd.outcome \in {"unchanged", "rolled_back"} => TheImage' = image[upd.old]
        BY <1>4, <4>1, <4>2, <4>3, <4>4 DEF ResultTrue, ReturnOK
      <4>7. wanted => Runs'
        BY <4>2, <4>3
      <4>8. PICK o \in Contract!Outcomes : o = upd.outcome
        BY <4>4
      <4>9. pc \in UpdatePcs /\ pc' = "idle" /\ wanted' = wanted /\ upd'.outcome = o
        BY <4>1, <4>8 DEF UpdatePcs
      <4>10. /\ o = "ok" => TheImage' # image[upd.old] /\ TheImage' # NoId
             /\ o \in {"unchanged", "rolled_back"} => TheImage' = image[upd.old]
             /\ o \in {"ok", "rolled_back"} => (wanted => Runs')
        BY <4>5, <4>6, <4>7, <4>8
      <4>11. Contract!Return(o)
        BY <1>4, <4>9, <4>10, ReturnStep
      <4> QED
        BY <4>11 DEF Contract!Next
    <3>3. CASE ReconcileClose(written)
      <4>1. /\ pc = "rec_close" /\ pc' = "rec_next" /\ UNCHANGED wanted
            /\ journal' = [journal EXCEPT ![upd.jid].closed = TRUE]
        BY <3>0, <3>3 DEF ReconcileClose
      <4>2. Open' \subseteq Open
        BY <2>1, <4>1 DEF Open, TInv, TypeOK, Rows
      <4> QED
        BY <1>4, <4>1, <4>2, RepairStep DEF RepairPcs, Contract!Next
    <3> QED
      BY <2>7, <3>1, <3>2, <3>3 DEF JournalWrite
  <2>8. CASE ProcessStarts
    BY <1>4, <2>8, RepairStep, SameEntries DEF ProcessStarts, RepairPcs, Contract!Next
  <2>9. CASE ReconcileNext
    <3>1. CASE pc' # "idle"
      <4>1. /\ pc = "rec_next" /\ pc' \in {"rec_finish", "rec_remove"}
            /\ UNCHANGED <<journal, wanted>>
        BY <2>9, <3>1 DEF ReconcileNext
      <4> QED
        BY <1>4, <4>1, RepairStep, SameEntries DEF RepairPcs, Contract!Next
    <3>2. CASE pc' = "idle"
      <4>1. Open = {} /\ pc = "rec_next" /\ UNCHANGED <<docker, journal, wanted, upd>>
        BY <2>9, <3>2 DEF ReconcileNext
      <4>2. upd.outcome = "none"
        BY <2>1, <4>1 DEF OnTheWay, RepairPcs
      <4>3. wanted => Runs
        BY <1>4, <4>1, ServiceCovered
      <4>4. Phase = "repairing" /\ Phase' = "idle"
        BY <3>2, <4>1 DEF Phase, RepairPcs
      <4>5. TheImage' = TheImage /\ (Runs' <=> Runs) /\ Open' = Open
        BY <4>1, SameService, SameEntries DEF docker
      <4>6. Contract!ServeAgain
        BY <3>2, <4>1, <4>2, <4>3, <4>4, <4>5 DEF TheImage, Runs, Contract!ServeAgain
      <4> QED
        BY <4>6 DEF Contract!Next
    <3> QED
      BY <3>1, <3>2
  <2>10. CASE Crash
    <3>1. pc' = "down" /\ UNCHANGED <<docker, journal, wanted>>
      BY <2>10 DEF Crash
    <3>2. Phase' = "repairing" /\ Phase' # "updating"
      BY <3>1 DEF Phase
    <3>3. TheImage' = TheImage /\ (Runs' <=> Runs) /\ Open' = Open
      BY <3>1, SameService, SameEntries DEF docker
    <3>4. TheImage' \in Images \cup {NoId}
      BY <2>1, ServiceNext
    <3>5. Contract!Die
      BY <3>1, <3>2, <3>3, <3>4 DEF TheImage, Runs, Contract!Die
    <3> QED
      BY <3>5 DEF Contract!Next
  <2>11. CASE UNCHANGED vars
    <3>1. TheImage' = TheImage /\ (Runs' <=> Runs) /\ Open' = Open
      BY <2>11, SameService, SameEntries DEF vars
    <3> QED
      BY <2>11, <3>1 DEF vars, TheImage, Runs, Phase, Contract!vars
  <2> QED
    BY <1>4, <2>3, <2>4, <2>5, <2>6, <2>7, <2>8, <2>9, <2>10, <2>11 DEF Next, Program
<1> QED
  BY <1>1, <1>2, <1>3, <1>4, PTL DEF Spec, KeepsContract, Contract!Spec

-----------------------------------------------------------------------------
(* Every update and every repair comes to an end.                           *)

\* How far an update is from its end at most: the rollback comes after every
\* step that can lead to it.
UpdateRank ==
    CASE pc = "pull"          -> 16
      [] pc = "inspect"       -> 15
      [] pc = "stop"          -> 14
      [] pc = "rename"        -> 13
      [] pc \in {"restart_old", "mark_renamed"} -> 12
      [] pc = "create"        -> 11
      [] pc = "mark_created"  -> 10
      [] pc = "start"         -> 9
      [] pc = "verify"        -> 8
      [] pc = "mark_verified" -> 7
      [] pc = "remove_old"    -> 6
      [] pc = "rb_remove"     -> 5
      [] pc = "rb_rename"     -> 4
      [] pc = "rb_start"      -> 3
      [] pc = "close"         -> 2
      [] OTHER                -> 0

\* How far a repair is from the end of the entry at hand.
RepairRank ==
    CASE pc = "rec_next"                      -> 6
      [] pc \in {"rec_finish", "rec_remove"}  -> 5
      [] pc = "rec_restore"                   -> 4
      [] pc = "rec_start"                     -> 3
      [] pc = "rec_close"                     -> 2
      [] OTHER                                -> 0

\* The steps that are left at most, until the process waits or has given up.
StepsLeft == IF pc \in RepairPcs THEN 6 * Cardinality(Open) + RepairRank ELSE UpdateRank

\* The process repairs entries that are open.
RepairsOpen == pc \in RepairPcs \ {"rec_next"} => upd.jid \in Open

LInv == TInv /\ RepairsOpen

\* Whatever the process is in the middle of, its own steps bring it closer to the end.
OwnStepsEnd == [][Program /\ pc \notin {"down", "exited"} => StepsLeft' < StepsLeft]_vars

\* The repair works on an entry that is open until it closes it.
LEMMA NextRepairs == LInv /\ [Next]_vars => LInv'
<1> SUFFICES ASSUME LInv, [Next]_vars PROVE RepairsOpen'
  BY NextTypes DEF LInv
<1> USE DEF LInv, RepairsOpen, RepairPcs
<1>1. CASE OperatorToggles
  BY <1>1 DEF OperatorToggles, Open
<1>2. CASE StartUpdate
  BY <1>2 DEF StartUpdate, Begin
<1>3. ASSUME NEW reply \in Replies, DockerStep(reply) PROVE RepairsOpen'
  <2>1. journal' = journal
    BY <1>3 DEF DockerStep, docker, Pull, InspectNew, Stop, RenameOld, RestartOld, Create,
       StartNew, RemoveOld, RollbackRemove, RollbackRename, RollbackStart,
       ReconcileFinish, ReconcileRemove, ReconcileRestore, ReconcileStart
  <2>2. pc' \in RepairPcs => pc \in RepairPcs \ {"rec_next"} /\ upd' = upd
    BY <1>3 DEF DockerStep, Pull, InspectNew, Stop, RenameOld, RestartOld, Create,
       StartNew, RemoveOld, RollbackRemove, RollbackRename, RollbackStart, Finish, Abandon, Exit,
       ReconcileFinish, ReconcileRemove, ReconcileRestore, ReconcileStart
  <2> QED
    BY <2>1, <2>2 DEF Open
<1>4. ASSUME NEW ok \in BOOLEAN, Verify(ok) PROVE RepairsOpen'
  BY <1>4 DEF Verify
<1>5. ASSUME NEW written \in Writes, JournalWrite(written) PROVE RepairsOpen'
  BY <1>5 DEF JournalWrite, MarkRenamed, MarkCreated, MarkVerified, Close, ReconcileClose, Exit
<1>6. CASE ProcessStarts
  BY <1>6 DEF ProcessStarts
<1>7. CASE ReconcileNext
  BY <1>7 DEF ReconcileNext, Open, NoUpdate
<1>8. CASE Crash
  BY <1>8 DEF Crash
<1>9. CASE UNCHANGED vars
  BY <1>9 DEF vars, Open
<1> QED
  BY <1>1, <1>2, <1>3, <1>4, <1>5, <1>6, <1>7, <1>8, <1>9 DEF Next, Program

\* No more entries can be open than there are.
LEMMA FewOpen ==
    IsFiniteSet(Open) /\ Cardinality(Open) \in Nat /\ Cardinality(Open) <= MaxUpdates
<1>1. Cardinality(Entries) = MaxUpdates /\ IsFiniteSet(Entries)
  BY FS_Interval, BoundsAssumption DEF Entries
<1>2. Open \in SUBSET Entries
  BY DEF Open
<1> QED
  BY <1>1, <1>2, FS_Subset, FS_CardinalityType

\* Closing an open entry leaves one open entry less.
LEMMA OneLess ==
    ASSUME NEW j \in Open, journal \in [Entries -> Rows],
           journal' = [journal EXCEPT ![j].closed = TRUE]
    PROVE  Cardinality(Open') = Cardinality(Open) - 1
<1>1. IsFiniteSet(Open)
  BY FewOpen
<1>2. Open' = Open \ {j}
  BY DEF Open, Rows
<1> QED
  BY <1>1, <1>2, FS_RemoveElement

\* There are no more steps left than six for each entry and those of an update.
LEMMA StepsBounded == TInv => StepsLeft \in 0 .. 6 * MaxUpdates + 16
<1> SUFFICES ASSUME TInv PROVE StepsLeft \in 0 .. 6 * MaxUpdates + 16
  OBVIOUS
<1>2. Cardinality(Open) \in Nat /\ Cardinality(Open) <= MaxUpdates
  BY FewOpen
<1>3. UpdateRank \in 0..16
  BY DEF UpdateRank
<1>4. RepairRank \in 0..6
  BY DEF RepairRank
<1> QED
  BY <1>2, <1>3, <1>4, BoundsAssumption DEF StepsLeft

\* An update, its rollback and a repair cannot go on for ever, whichever calls
\* and writes fail: each step the process takes by itself, from the pull or
\* the first open entry on, brings it closer to its return, of which it is never
\* more than 6 * MaxUpdates + 16 steps away.
THEOREM UpdatesEnd == Spec => OwnStepsEnd /\ [](StepsLeft \in 0 .. 6 * MaxUpdates + 16)
<1>1. Init => LInv
  BY InitTypes DEF Init, LInv, RepairsOpen, RepairPcs
<1>2. LInv /\ [Next]_vars => LInv'
  BY NextRepairs
<1>3. LInv /\ Program /\ pc \notin {"down", "exited"} => StepsLeft' < StepsLeft
  <2> SUFFICES ASSUME LInv, Program, pc \notin {"down", "exited"} PROVE StepsLeft' < StepsLeft
    OBVIOUS
  <2>0. IsFiniteSet(Open) /\ Cardinality(Open) \in Nat
    BY FewOpen
  <2> USE DEF StepsLeft, UpdateRank, RepairRank, RepairPcs
  <2>1. ASSUME NEW reply \in Replies, DockerStep(reply) PROVE StepsLeft' < StepsLeft
    <3>1. Open' = Open
      BY <2>1 DEF Open, DockerStep, docker, Pull, InspectNew, Stop, RenameOld, RestartOld, Create,
         StartNew, RemoveOld, RollbackRemove, RollbackRename, RollbackStart,
         ReconcileFinish, ReconcileRemove, ReconcileRestore, ReconcileStart
    <3>2. CASE Pull(reply)
      BY <3>2 DEF Pull, Finish
    <3>3. CASE InspectNew(reply)
      BY <3>3 DEF InspectNew, Finish
    <3>4. CASE Stop(reply)
      BY <3>4 DEF Stop, Finish
    <3>5. CASE RenameOld(reply)
      BY <3>5 DEF RenameOld
    <3>6. CASE RestartOld(reply)
      BY <3>6 DEF RestartOld
    <3>7. CASE Create(reply)
      BY <3>7 DEF Create
    <3>8. CASE StartNew(reply)
      BY <3>8 DEF StartNew
    <3>9. CASE RemoveOld(reply)
      BY <3>9 DEF RemoveOld, Finish
    <3>10. CASE RollbackRemove(reply)
      BY <3>10 DEF RollbackRemove, Abandon
    <3>11. CASE RollbackRename(reply)
      BY <3>11 DEF RollbackRename, Abandon, Finish
    <3>12. CASE RollbackStart(reply)
      BY <3>12 DEF RollbackStart, Abandon, Finish
    <3>13. CASE ReconcileFinish(reply)
      BY <2>0, <3>1, <3>13 DEF ReconcileFinish, Exit
    <3>14. CASE ReconcileRemove(reply)
      BY <2>0, <3>1, <3>14 DEF ReconcileRemove, Exit
    <3>15. CASE ReconcileRestore(reply)
      BY <2>0, <3>1, <3>15 DEF ReconcileRestore, Exit
    <3>16. CASE ReconcileStart(reply)
      <4>1. pc = "rec_start" /\ pc' \in {"rec_close", "exited"}
        BY <3>16, Zenon DEF ReconcileStart, Exit
      <4> QED
        BY <2>0, <3>1, <4>1
    <3> QED
      BY <2>1, <3>2, <3>3, <3>4, <3>5, <3>6, <3>7, <3>8,
         <3>9, <3>10, <3>11, <3>12, <3>13, <3>14, <3>15, <3>16 DEF DockerStep
  <2>2. ASSUME NEW ok \in BOOLEAN, Verify(ok) PROVE StepsLeft' < StepsLeft
    BY <2>2 DEF Verify
  <2>3. ASSUME NEW written \in Writes, JournalWrite(written) PROVE StepsLeft' < StepsLeft
    <3>1. CASE ReconcileClose(written)
      <4>1. CASE written
        <5>1. upd.jid \in Open /\ journal \in [Entries -> Rows]
          BY <3>1 DEF LInv, RepairsOpen, TInv, TypeOK, ReconcileClose
        <5>2. Cardinality(Open') = Cardinality(Open) - 1
          BY <3>1, <4>1, <5>1, OneLess DEF ReconcileClose
        <5> QED
          BY <2>0, <3>1, <4>1, <5>2 DEF ReconcileClose
      <4>2. CASE ~written
        BY <2>0, <3>1, <4>2 DEF ReconcileClose, Exit
      <4> QED
        BY <4>1, <4>2
    <3>2. CASE ~ReconcileClose(written)
      BY <2>3, <3>2 DEF JournalWrite, MarkRenamed, MarkCreated, MarkVerified, Close
    <3> QED
      BY <3>1, <3>2
  <2>4. CASE ReconcileNext
    <3>1. Open' = Open
      BY <2>4 DEF ReconcileNext, Open
    <3> QED
      BY <2>0, <2>4, <3>1 DEF ReconcileNext
  <2>5. CASE ProcessStarts
    BY <2>5 DEF ProcessStarts
  <2> QED
    BY <2>1, <2>2, <2>3, <2>4, <2>5 DEF Program
<1>4. LInv => StepsLeft \in 0 .. 6 * MaxUpdates + 16
  BY StepsBounded DEF LInv
<1> QED
  BY <1>1, <1>2, <1>3, <1>4, PTL DEF Spec, OwnStepsEnd
=============================================================================
