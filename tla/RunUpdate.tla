----------------------------- MODULE RunUpdate -----------------------------
(***************************************************************************)
(* The `docker run` adapter (internal/updater/run.go), the journal it      *)
(* writes (internal/store/journal.go) and the repair of interrupted        *)
(* updates at the next start (internal/updater/reconcile.go).              *)
(*                                                                         *)
(* One service, i.e. one container name, and the containers that ever      *)
(* carried it: container 0 is the original and container k is the one that *)
(* update k creates.  Every Docker call and every journal write is a step  *)
(* of its own, so that the process can die between any two of them.        *)
(*                                                                         *)
(* What can go wrong is the constant Faults:                               *)
(*   "crash"    the process dies and is started again                      *)
(*   "error"    a Docker call fails and changed nothing                    *)
(*   "lost"     a Docker call took effect, but its caller sees an error    *)
(*              (dropped connection, cancelled context)                    *)
(*   "journal"  a journal write fails                                      *)
(*                                                                         *)
(* Left out: the settings a new container inherits (BuildSpec), the text   *)
(* of logs and reasons, other containers, and containers that stop or      *)
(* vanish behind the program's back other than by the operator between     *)
(* updates.                                                                *)
(***************************************************************************)
EXTENDS Integers, FiniteSets

CONSTANTS
    Images,      \* image IDs the reference of the service can resolve to
    Faults,      \* the faults of the environment, see above
    MaxUpdates,  \* bound: journal entries (updates and manual rollbacks)
    MaxCrashes   \* bound: crashes of the process

ASSUME BoundsAssumption == MaxUpdates \in Nat /\ MaxCrashes \in Nat
ASSUME FaultsAssumption == Faults \subseteq {"crash", "error", "lost", "journal"}

VARIABLES
    live,     \* containers that exist
    name,     \* name[c]: "app", or "app-nu-old" while it is kept aside
    image,    \* image[c]: the image c was created from
    up,       \* up[c]: State.Running
    tag,      \* the image the reference of the service points to locally
    journal,  \* journal[j]: row j of the journal table
    pc,       \* where the process is
    upd,      \* the local variables of Run.Update, or of Reconcile
    wanted,   \* history: the operator wants the service to run
    good,     \* history: containers the operator ran, or that were verified
    crashes   \* crashes so far

docker == <<live, name, image, up, tag>>
vars   == <<live, name, image, up, tag, journal, pc, upd, wanted, good, crashes>>

Ids     == 0..MaxUpdates
Entries == 1..MaxUpdates
NoId    == -1

\* NoId stands for no container where the contract expects an image.
ASSUME ImagesAssumption == NoId \notin Images

StepNames  == {"none", "started", "renamed_old", "created_new", "verified"}
Outcomes   == {"none", "ok", "unchanged", "rolled_back", "failed"}
UpdatePcs  == {"pull", "inspect", "stop", "rename", "restart_old", "mark_renamed",
               "create", "mark_created", "start", "verify", "mark_verified",
               "remove_old", "close", "rb_remove", "rb_rename", "rb_start"}
RepairPcs  == {"rec_next", "rec_finish", "rec_remove", "rec_restore",
               "rec_start", "rec_close"}
Pcs        == {"idle", "down", "exited"} \cup UpdatePcs \cup RepairPcs

\* A row that is not written yet, and the state of a process between updates.
NoEntry  == [step |-> "none", old |-> NoId, new |-> NoId, wasRunning |-> FALSE, closed |-> TRUE]
NoUpdate == [jid |-> 0, old |-> NoId, new |-> NoId, wasRunning |-> FALSE, outcome |-> "none"]

Rows   == [step : StepNames, old : Ids \cup {NoId}, new : Ids \cup {NoId},
           wasRunning : BOOLEAN, closed : BOOLEAN]
Locals == [jid : 0..MaxUpdates, old : Ids \cup {NoId}, new : Ids \cup {NoId},
           wasRunning : BOOLEAN, outcome : Outcomes]

TypeOK ==
    /\ live \subseteq Ids
    /\ name \in [Ids -> {"app", "app-nu-old"}]
    /\ image \in [Ids -> Images]
    /\ up \in [Ids -> BOOLEAN]
    /\ tag \in Images
    /\ journal \in [Entries -> Rows]
    /\ pc \in Pcs
    /\ upd \in Locals
    /\ wanted \in BOOLEAN
    /\ good \subseteq Ids
    /\ crashes \in 0..MaxCrashes

-----------------------------------------------------------------------------
(* The Docker daemon and the journal, as the adapter sees them.            *)

\* The answers a Docker call can get.
Replies == {"ok"} \cup (Faults \cap {"error", "lost"})

\* Whether a journal write succeeds.
Writes == {TRUE} \cup (IF "journal" \in Faults THEN {FALSE} ELSE {})

\* Docker refuses a name that another container holds.
NameFree(n, c) == \A d \in live \ {c} : name[d] # n

\* The rename of c to n takes effect, and its caller learns that it did.
Renames(c, n, reply)  == reply # "error" /\ NameFree(n, c)
RenameOK(c, n, reply) == reply = "ok" /\ NameFree(n, c)

SetRunning(c, b, reply) == up' = IF reply = "error" THEN up ELSE [up EXCEPT ![c] = b]
Rename(c, n, reply)     == name' = IF Renames(c, n, reply) THEN [name EXCEPT ![c] = n] ELSE name
Remove(c, reply)        == live' = IF reply = "error" THEN live ELSE live \ {c}

\* Journal.Step: its error is ignored by every caller.
JournalStep(j, s, newId, written) ==
    journal' = IF written THEN [journal EXCEPT ![j].step = s, ![j].new = newId] ELSE journal

\* Journal.Open: the rows Reconcile works on, lowest id first.
Open == {j \in Entries : ~journal[j].closed}

\* Rows are numbered in the order they are begun.
Unused == {j \in Entries : journal[j].step = "none"}

-----------------------------------------------------------------------------
Init ==
    /\ live = {0}
    /\ name = [c \in Ids |-> "app"]
    /\ image \in {[c \in Ids |-> i] : i \in Images}
    /\ up \in {[c \in Ids |-> b /\ c = 0] : b \in BOOLEAN}
    /\ tag = image[0]
    /\ journal = [j \in Entries |-> NoEntry]
    /\ pc = "idle"
    /\ upd = NoUpdate
    /\ wanted = up[0]
    /\ good = {0}
    /\ crashes = 0

\* The operator stops or starts the service between updates.
OperatorToggles ==
    /\ pc = "idle"
    /\ \E c \in live :
         /\ name[c] = "app"
         /\ up' = [up EXCEPT ![c] = ~@]
         /\ wanted' = ~up[c]
    /\ upd' = NoUpdate
    /\ UNCHANGED <<live, name, image, tag, journal, pc, good, crashes>>

-----------------------------------------------------------------------------
(* Run.Update                                                              *)

\* Inspect the container and begin the journal entry.  A manual rollback has
\* first pointed the reference at the previous image, and skips the pull.
Begin(c, j, skipPull, img) ==
    /\ pc = "idle"
    /\ c \in live /\ name[c] = "app"
    /\ j \in Unused /\ \A k \in Unused : j <= k
    /\ skipPull \/ img = tag
    /\ tag' = img
    /\ journal' = [journal EXCEPT ![j] = [step |-> "started", old |-> c, new |-> NoId,
                                          wasRunning |-> up[c], closed |-> FALSE]]
    /\ upd' = [jid |-> j, old |-> c, new |-> NoId, wasRunning |-> up[c], outcome |-> "none"]
    /\ pc' = IF skipPull THEN "inspect" ELSE "pull"
    /\ UNCHANGED <<live, name, image, up, wanted, good, crashes>>

\* Close the journal entry and return with the given outcome.
Finish(outcome) ==
    /\ upd' = [upd EXCEPT !.outcome = outcome]
    /\ pc' = "close"

\* The pull moves the reference to whatever the registry serves now.
Pull(reply) ==
    /\ pc = "pull"
    /\ \/ reply # "error" /\ \E i \in Images : tag' = i
       \/ reply = "error" /\ tag' = tag
    /\ IF reply = "ok" THEN pc' = "inspect" /\ UNCHANGED upd ELSE Finish("failed")
    /\ UNCHANGED <<live, name, image, up, journal, wanted, good, crashes>>

\* Mutant: the old container is renamed without being stopped.
InspectNewNoStop(reply) ==
    /\ pc = "inspect"
    /\ IF reply = "ok" /\ tag # image[upd.old]
         THEN pc' = "rename" /\ UNCHANGED upd
         ELSE Finish(IF reply = "ok" THEN "unchanged" ELSE "failed")
    /\ UNCHANGED <<docker, journal, wanted, good, crashes>>

\* Resolve the reference; nothing to do when it is the image already in use.
InspectNew(reply) ==
    /\ pc = "inspect"
    /\ IF reply = "ok" /\ tag # image[upd.old]
         THEN pc' = (IF upd.wasRunning THEN "stop" ELSE "rename") /\ UNCHANGED upd
         ELSE Finish(IF reply = "ok" THEN "unchanged" ELSE "failed")
    /\ UNCHANGED <<docker, journal, wanted, good, crashes>>

Stop(reply) ==
    /\ pc = "stop"
    /\ SetRunning(upd.old, FALSE, reply)
    /\ IF reply = "ok" THEN pc' = "rename" /\ UNCHANGED upd ELSE Finish("failed")
    /\ UNCHANGED <<live, name, image, tag, journal, wanted, good, crashes>>

\* Mutant: another suffix than discovery.OldSuffix.
RenameOldOther(reply) ==
    /\ pc = "rename"
    /\ Rename(upd.old, "app-old", reply)
    /\ pc' = "mark_renamed"
    /\ UNCHANGED <<live, image, up, tag, journal, upd, wanted, good, crashes>>

RenameOld(reply) ==
    /\ pc = "rename"
    /\ Rename(upd.old, "app-nu-old", reply)
    /\ IF RenameOK(upd.old, "app-nu-old", reply)
         THEN pc' = "mark_renamed" /\ UNCHANGED upd
         ELSE /\ upd' = [upd EXCEPT !.outcome = "failed"]
              /\ pc' = IF upd.wasRunning THEN "restart_old" ELSE "close"
    /\ UNCHANGED <<live, image, up, tag, journal, wanted, good, crashes>>

\* The rename failed: start the old container again, ignoring an error.
RestartOld(reply) ==
    /\ pc = "restart_old"
    /\ SetRunning(upd.old, TRUE, reply)
    /\ pc' = "close"
    /\ UNCHANGED <<live, name, image, tag, journal, upd, wanted, good, crashes>>

MarkRenamed(written) ==
    /\ pc = "mark_renamed"
    /\ JournalStep(upd.jid, "renamed_old", NoId, written)
    /\ pc' = "create"
    /\ UNCHANGED <<docker, upd, wanted, good, crashes>>

\* Create the new container under the name of the service.
Create(reply) ==
    LET new     == upd.jid
        creates == reply # "error" /\ NameFree("app", new)
    IN  /\ pc = "create"
        /\ IF creates
             THEN /\ live' = live \cup {new}
                  /\ name' = [name EXCEPT ![new] = "app"]
                  /\ image' = [image EXCEPT ![new] = tag]
                  /\ up' = [up EXCEPT ![new] = FALSE]
             ELSE UNCHANGED <<live, name, image, up>>
        /\ IF creates /\ reply = "ok"
             THEN pc' = "mark_created" /\ upd' = [upd EXCEPT !.new = new]
             ELSE pc' = "rb_rename" /\ UNCHANGED upd
        /\ UNCHANGED <<tag, journal, wanted, good, crashes>>

\* Only now does the journal learn of the new container.
MarkCreated(written) ==
    /\ pc = "mark_created"
    /\ JournalStep(upd.jid, "created_new", upd.new, written)
    /\ pc' = IF upd.wasRunning THEN "start" ELSE "mark_verified"
    /\ UNCHANGED <<docker, upd, wanted, good, crashes>>

StartNew(reply) ==
    /\ pc = "start"
    /\ SetRunning(upd.new, TRUE, reply)
    /\ pc' = IF reply = "ok" THEN "verify" ELSE "rb_remove"
    /\ UNCHANGED <<live, name, image, tag, journal, upd, wanted, good, crashes>>

\* The verdict of internal/verify, which can go either way.
Verify(ok) ==
    /\ pc = "verify"
    /\ pc' = IF ok THEN "mark_verified" ELSE "rb_remove"
    /\ UNCHANGED <<docker, journal, upd, wanted, good, crashes>>

\* Mutant: the journal entry is closed before the old container is removed.
MarkVerifiedCloses(written) ==
    /\ pc = "mark_verified"
    /\ journal' = [journal EXCEPT ![upd.jid].step = "verified", ![upd.jid].closed = TRUE]
    /\ good' = good \cup {upd.new}
    /\ pc' = "remove_old"
    /\ UNCHANGED <<docker, upd, wanted, crashes>>

MarkVerified(written) ==
    /\ pc = "mark_verified"
    /\ JournalStep(upd.jid, "verified", journal[upd.jid].new, written)
    /\ good' = good \cup {upd.new}
    /\ pc' = "remove_old"
    /\ UNCHANGED <<docker, upd, wanted, crashes>>

\* A failure to remove the old container is logged and forgotten.
RemoveOld(reply) ==
    /\ pc = "remove_old"
    /\ Remove(upd.old, reply)
    /\ Finish("ok")
    /\ UNCHANGED <<name, image, up, tag, journal, wanted, good, crashes>>

\* Journal.Close, whose error is ignored, and return.
Close(written) ==
    /\ pc = "close"
    /\ journal' = IF written THEN [journal EXCEPT ![upd.jid].closed = TRUE] ELSE journal
    /\ pc' = "idle"
    /\ UNCHANGED <<docker, upd, wanted, good, crashes>>

-----------------------------------------------------------------------------
(* rollback, inside Run.Update.  When a step fails the entry stays open.    *)

Abandon ==
    /\ upd' = [upd EXCEPT !.outcome = "failed"]
    /\ pc' = "idle"

RollbackRemove(reply) ==
    /\ pc = "rb_remove"
    /\ Remove(upd.new, reply)
    /\ IF reply = "ok" THEN pc' = "rb_rename" /\ UNCHANGED upd ELSE Abandon
    /\ UNCHANGED <<name, image, up, tag, journal, wanted, good, crashes>>

\* Mutant: a rollback ends once the old container has its name back.
RollbackRenameOnly(reply) ==
    /\ pc = "rb_rename"
    /\ Rename(upd.old, "app", reply)
    /\ IF RenameOK(upd.old, "app", reply) THEN Finish("rolled_back") ELSE Abandon
    /\ UNCHANGED <<live, image, up, tag, journal, wanted, good, crashes>>

RollbackRename(reply) ==
    /\ pc = "rb_rename"
    /\ Rename(upd.old, "app", reply)
    /\ IF RenameOK(upd.old, "app", reply)
         THEN IF upd.wasRunning THEN pc' = "rb_start" /\ UNCHANGED upd ELSE Finish("rolled_back")
         ELSE Abandon
    /\ UNCHANGED <<live, image, up, tag, journal, wanted, good, crashes>>

RollbackStart(reply) ==
    /\ pc = "rb_start"
    /\ SetRunning(upd.old, TRUE, reply)
    /\ IF reply = "ok" THEN Finish("rolled_back") ELSE Abandon
    /\ UNCHANGED <<live, name, image, tag, journal, wanted, good, crashes>>

-----------------------------------------------------------------------------
(* Reconcile, at the start of the process.  upd.jid is the entry at hand;   *)
(* the first error ends the start ("exited") and leaves the rest open.      *)

entry == journal[upd.jid]
Exit  == pc' = "exited" /\ upd' = NoUpdate

ProcessStarts ==
    /\ pc \in {"down", "exited"}
    /\ pc' = "rec_next"
    /\ upd' = NoUpdate
    /\ UNCHANGED <<docker, journal, wanted, good, crashes>>

\* Mutant: an update whose new container was created counts as verified.
ReconcileNextTrusting ==
    /\ pc = "rec_next"
    /\ \/ /\ Open = {}
          /\ pc' = "idle" /\ UNCHANGED upd
       \/ \E j \in Open :
            /\ \A k \in Open : j <= k
            /\ upd' = [NoUpdate EXCEPT !.jid = j]
            /\ pc' = IF journal[j].step \in {"created_new", "verified"}
                       THEN "rec_finish" ELSE "rec_remove"
    /\ UNCHANGED <<docker, journal, wanted, good, crashes>>

ReconcileNext ==
    /\ pc = "rec_next"
    /\ \/ /\ Open = {}
          /\ pc' = "idle" /\ UNCHANGED upd
       \/ \E j \in Open :
            /\ \A k \in Open : j <= k
            /\ upd' = [NoUpdate EXCEPT !.jid = j]
            /\ pc' = IF journal[j].step = "verified" THEN "rec_finish" ELSE "rec_remove"
    /\ UNCHANGED <<docker, journal, wanted, good, crashes>>

\* A verified update only lacks the removal of the old container.
ReconcileFinish(reply) ==
    /\ pc = "rec_finish"
    /\ Remove(entry.old, reply)
    /\ IF reply = "ok" THEN pc' = "rec_close" /\ UNCHANGED upd ELSE Exit
    /\ UNCHANGED <<name, image, up, tag, journal, wanted, good, crashes>>

\* Mutant: the new container is left where it is.
ReconcileRemoveNothing(reply) ==
    /\ pc = "rec_remove"
    /\ pc' = "rec_restore"
    /\ UNCHANGED <<docker, journal, upd, wanted, good, crashes>>

\* Anything else is undone: remove the new container, if the entry names one,
ReconcileRemove(reply) ==
    /\ pc = "rec_remove"
    /\ IF entry.new = NoId
         THEN pc' = "rec_restore" /\ UNCHANGED <<live, upd>>
         ELSE /\ Remove(entry.new, reply)
              /\ IF reply = "ok" THEN pc' = "rec_restore" /\ UNCHANGED upd ELSE Exit
    /\ UNCHANGED <<name, image, up, tag, journal, wanted, good, crashes>>

\* inspect the old one and give it its name back, unless it is gone or has it,
ReconcileRestore(reply) ==
    /\ pc = "rec_restore"
    /\ \/ /\ reply # "ok"
          /\ Exit /\ UNCHANGED name
       \/ /\ reply = "ok" /\ entry.old \notin live
          /\ pc' = "rec_close" /\ UNCHANGED <<name, upd>>
       \/ /\ reply = "ok" /\ entry.old \in live /\ name[entry.old] = "app"
          /\ pc' = "rec_start" /\ UNCHANGED <<name, upd>>
       \/ /\ entry.old \in live /\ name[entry.old] # "app"
          /\ Rename(entry.old, "app", reply)
          /\ IF RenameOK(entry.old, "app", reply)
               THEN pc' = "rec_start" /\ UNCHANGED upd
               ELSE Exit
    /\ UNCHANGED <<live, image, up, tag, journal, wanted, good, crashes>>

\* Mutant: the old container is not started again.
ReconcileStartNothing(reply) ==
    /\ pc = "rec_start"
    /\ pc' = "rec_close"
    /\ UNCHANGED <<docker, journal, upd, wanted, good, crashes>>

\* and start it when it was running.
ReconcileStart(reply) ==
    /\ pc = "rec_start"
    /\ IF entry.wasRunning /\ ~up[entry.old]
         THEN /\ SetRunning(entry.old, TRUE, reply)
              /\ IF reply = "ok" THEN pc' = "rec_close" /\ UNCHANGED upd ELSE Exit
         ELSE pc' = "rec_close" /\ UNCHANGED <<up, upd>>
    /\ UNCHANGED <<live, name, image, tag, journal, wanted, good, crashes>>

\* Here the error of Journal.Close is reported.
ReconcileClose(written) ==
    /\ pc = "rec_close"
    /\ IF written
         THEN /\ journal' = [journal EXCEPT ![upd.jid].closed = TRUE]
              /\ pc' = "rec_next" /\ upd' = NoUpdate
         ELSE Exit /\ UNCHANGED journal
    /\ UNCHANGED <<docker, wanted, good, crashes>>

-----------------------------------------------------------------------------
Crash ==
    /\ "crash" \in Faults
    /\ crashes < MaxCrashes
    /\ pc # "down"
    /\ pc' = "down"
    /\ upd' = NoUpdate
    /\ crashes' = crashes + 1
    /\ UNCHANGED <<docker, journal, wanted, good>>

StartUpdate == \E c \in Ids, j \in Entries, skipPull \in BOOLEAN, i \in Images : Begin(c, j, skipPull, i)

DockerStep(reply) ==
    \/ Pull(reply) \/ InspectNew(reply) \/ Stop(reply) \/ RenameOld(reply)
    \/ RestartOld(reply) \/ Create(reply) \/ StartNew(reply) \/ RemoveOld(reply)
    \/ RollbackRemove(reply) \/ RollbackRename(reply) \/ RollbackStart(reply)
    \/ ReconcileFinish(reply) \/ ReconcileRemove(reply)
    \/ ReconcileRestore(reply) \/ ReconcileStart(reply)

JournalWrite(written) ==
    \/ MarkRenamed(written) \/ MarkCreated(written) \/ MarkVerified(written)
    \/ Close(written) \/ ReconcileClose(written)

\* What the process does by itself once it runs: an update or a repair in
\* progress goes on, and the container's restart policy starts the process.
Program ==
    \/ \E reply \in Replies : DockerStep(reply)
    \/ \E ok \in BOOLEAN : Verify(ok)
    \/ \E written \in Writes : JournalWrite(written)
    \/ ProcessStarts
    \/ ReconcileNext

Next == OperatorToggles \/ StartUpdate \/ Program \/ Crash

Spec     == Init /\ [][Next]_vars
FairSpec == Spec /\ WF_vars(Program)

-----------------------------------------------------------------------------
(* Properties                                                              *)

\* Two containers of the service never run at the same time: they would share
\* its volumes and ports.  Update, rollback and repair all stop or remove one
\* before they start the other, whichever calls fail.
AtMostOneRunning == \A c, d \in live : up[c] /\ up[d] => c = d

\* The service never loses its last container that is known to work: the old
\* one is removed only once the new one is verified, and a repair after a
\* crash removes only what the journal says is not verified.
KnownGoodSurvives == good \cap live # {}

\* What Update returns is true of Docker: after "ok" the service is the new
\* container, after "rolled_back" it is the old one and the new one is gone;
\* and it runs exactly if it ran before.
OutcomeIsTrue ==
    pc = "idle" =>
      /\ upd.outcome = "ok" =>
           /\ upd.new \in live /\ name[upd.new] = "app"
           /\ up[upd.new] = upd.wasRunning
           /\ image[upd.new] # image[upd.old]
      /\ upd.outcome = "rolled_back" =>
           /\ upd.old \in live /\ name[upd.old] = "app"
           /\ up[upd.old] = upd.wasRunning
           /\ upd.new \notin live

\* The service is one container, under its own name, running if wanted.
Intact == \E c \in live : live = {c} /\ name[c] = "app" /\ up[c] = wanted

\* While the service is not intact a journal entry is open, so a crash at that
\* moment is repaired at the next start.
JournalCoversDamage == Intact \/ Open # {}

\* A repair is due, and a container that no open entry names holds the name of
\* the service.
Orphan ==
    /\ Open # {}
    /\ \E c \in live : name[c] = "app" /\ \A j \in Open : c \notin {journal[j].old, journal[j].new}

\* When Docker answers every call, only such a container can make the repair
\* fail: one that Create made just before the crash.
RepairFailsOnlyOnOrphan == pc = "exited" => Orphan

\* An interrupted update is repaired, unless such a container stands in the way.
RepairCompletes == pc = "down" ~> (pc = "idle" /\ Intact) \/ Orphan

\* Reconcile, as the design document has it: on startup it finishes or undoes
\* every half-done update, so it never gives up while Docker answers.
RepairNeverFails == pc # "exited"

\* The README's step 5: after a failed update the previous container is back.
\* Once Update has returned and its journal entry is closed, nothing else will
\* bring it back.
FailureLeavesServiceUp == pc = "idle" /\ upd.outcome = "failed" /\ Open = {} => Intact

\* The design document: a leftover old container is finished or undone.  When
\* no entry is open any more, none must be left, or later updates cannot
\* rename theirs.
NoLeftover == pc = "idle" /\ Open = {} => \A c \in live : name[c] # "app-nu-old"

-----------------------------------------------------------------------------
(* Refinement                                                              *)

Phase ==
    CASE pc = "idle"                              -> "idle"
      [] pc \in {"down", "exited"} \cup RepairPcs -> "repairing"
      [] OTHER                                    -> "updating"

\* The container that stands under the name of the service.
Service == {c \in live : name[c] = "app"}

Contract == INSTANCE UpdateContract WITH
    None       <- NoId,
    phase      <- Phase,
    image      <- IF Service = {} THEN NoId ELSE image[CHOOSE c \in Service : TRUE],
    up         <- \E c \in Service : up[c],
    before     <- IF Phase = "updating" THEN image[upd.old] ELSE NoId,
    unfinished <- Open # {},
    outcome    <- IF pc = "idle" THEN upd.outcome ELSE "none"

\* While Docker answers, the adapter and its repair keep the contract of
\* internal/updater, wherever the process dies.  FailureLeavesServiceUp shows
\* that a lost reply breaks it.
KeepsContract == Contract!Spec
=============================================================================
