--------------------------- MODULE ComposeUpdate ---------------------------
(***************************************************************************)
(* The Compose adapter (internal/updater/compose.go), the journal entries  *)
(* it writes and their repair at the next start (reconcileCompose in       *)
(* internal/updater/reconcile.go), for one service of one container.       *)
(*                                                                         *)
(* Compose owns the container: `up` replaces it when the reference of the  *)
(* service points to another image, and starts it.  A rollback moves the   *)
(* reference back and brings the service up again.  When `up` fails or is  *)
(* cut off by a crash, it may have done none, a part or all of that.       *)
(*                                                                         *)
(* Faults: "crash", the process dies and is started again; "error", a call *)
(* of Docker or the compose CLI fails.                                     *)
(*                                                                         *)
(* Left out: projects and files of compose, services with more than one    *)
(* container, failing journal writes, removal of images.                   *)
(***************************************************************************)
EXTENDS Integers

CONSTANTS
    Images,      \* image IDs the reference of the service can point to
    None,        \* no container
    Faults,      \* the faults of the environment, see above
    MaxUpdates,  \* bound: journal entries (updates and manual rollbacks)
    MaxCrashes   \* bound: crashes of the process

ASSUME ImagesAssumption == None \notin Images
ASSUME FaultsAssumption == Faults \subseteq {"crash", "error"}
ASSUME BoundsAssumption == MaxUpdates \in Nat /\ MaxCrashes \in Nat

VARIABLES
    image,     \* the image the container of the service was created from, or None
    up,        \* whether the container runs
    tag,       \* the image the reference of the service points to locally
    journal,   \* journal[j]: row j of the journal table
    pc,        \* where the process is
    upd,       \* the local variables of Compose.Update, or of Reconcile
    wanted,    \* history: the operator wants the service to run
    verified,  \* history: the image of the last update if that was verified, or None
    gaveUp,    \* history: a rollback has failed
    crashes    \* crashes so far

docker  == <<image, up, tag>>
history == <<wanted, verified, gaveUp, crashes>>
vars    == <<docker, journal, pc, upd, history>>

Entries   == 1..MaxUpdates
Open      == {j \in Entries : ~journal[j].closed}
Unused    == {j \in Entries : journal[j].step = "none"}
StepNames == {"none", "started", "verified"}
Outcomes  == {"none", "ok", "unchanged", "rolled_back", "failed"}
Pcs       == {"idle", "down", "exited", "pull", "inspect", "up", "find", "verify",
              "mark_verified", "close", "rb_tag", "rb_up", "rec_next", "rec_tag", "rec_up",
              "rec_close"}

Rows   == [step : StepNames, old : Images \cup {None}, closed : BOOLEAN]
Locals == [jid : 0..MaxUpdates, old : Images \cup {None}, new : Images \cup {None},
           wasRunning : BOOLEAN, outcome : Outcomes]

NoEntry  == [step |-> "none", old |-> None, closed |-> TRUE]
Cursor(j) == [jid |-> j, old |-> None, new |-> None, wasRunning |-> FALSE, outcome |-> "none"]
NoUpdate == Cursor(0)

TypeOK ==
    /\ image \in Images \cup {None}
    /\ up \in BOOLEAN /\ (up => image # None)
    /\ tag \in Images
    /\ journal \in [Entries -> Rows]
    /\ \A j \in Open : journal[j].old \in Images
    /\ pc \in Pcs
    /\ upd \in Locals
    /\ wanted \in BOOLEAN
    /\ verified \in Images \cup {None}
    /\ gaveUp \in BOOLEAN
    /\ crashes \in 0..MaxCrashes

Replies == {"ok"} \cup (Faults \cap {"error"})

\* `compose up`, and what remains of it when it fails.
UpDone    == image' = tag /\ up' = TRUE
UpPartial == \/ UNCHANGED <<image, up>>
             \/ image # tag /\ image' \in {None, tag} /\ up' = FALSE
             \/ UpDone
ComposeUp(reply) == (IF reply = "ok" THEN UpDone ELSE UpPartial) /\ UNCHANGED tag

\* `docker tag`; when it reports an error, it may have taken effect.
Tag(i, reply) == tag' \in (IF reply = "ok" THEN {i} ELSE {i, tag}) /\ UNCHANGED <<image, up>>

Init ==
    /\ image \in Images /\ tag = image
    /\ up \in BOOLEAN /\ wanted = up
    /\ journal = [j \in Entries |-> NoEntry]
    /\ pc = "idle"
    /\ upd = NoUpdate
    /\ verified = None
    /\ gaveUp = FALSE
    /\ crashes = 0

\* The operator stops or starts the service between updates.
OperatorToggles ==
    /\ pc = "idle"
    /\ image # None
    /\ up' = ~up /\ wanted' = ~up
    /\ upd' = NoUpdate
    /\ UNCHANGED <<image, tag, journal, pc, verified, gaveUp, crashes>>

-----------------------------------------------------------------------------
(* Compose.Update                                                          *)

\* Mutant: the update goes on when there is no container to inspect.
BeginBlindly(j, skipPull, img) ==
    /\ pc = "idle"
    /\ j \in Unused /\ \A k \in Unused : j <= k
    /\ skipPull \/ img = tag
    /\ tag' = img
    /\ journal' = [journal EXCEPT ![j] = [step |-> "started", old |-> image, closed |-> FALSE]]
    /\ upd' = [jid |-> j, old |-> image, new |-> None, wasRunning |-> up, outcome |-> "none"]
    /\ pc' = IF skipPull THEN "inspect" ELSE "pull"
    /\ UNCHANGED <<image, up, history>>

\* Inspect the container, which must exist, and begin the journal entry.  A
\* manual rollback has moved the reference to img before and skips the pull.
Begin(j, skipPull, img) ==
    /\ pc = "idle"
    /\ image # None
    /\ j \in Unused /\ \A k \in Unused : j <= k
    /\ skipPull \/ img = tag
    /\ tag' = img
    /\ journal' = [journal EXCEPT ![j] = [step |-> "started", old |-> image, closed |-> FALSE]]
    /\ upd' = [jid |-> j, old |-> image, new |-> None, wasRunning |-> up, outcome |-> "none"]
    /\ pc' = IF skipPull THEN "inspect" ELSE "pull"
    /\ UNCHANGED <<image, up, history>>

Finish(outcome) == upd' = [upd EXCEPT !.outcome = outcome] /\ pc' = "close"

\* The pull moves the reference to what the registry serves; when it fails, it
\* may have done so already.
Pull(reply) ==
    /\ pc = "pull"
    /\ tag' \in Images
    /\ IF reply = "ok" THEN pc' = "inspect" /\ UNCHANGED upd ELSE Finish("failed")
    /\ UNCHANGED <<image, up, journal, history>>

InspectNew(reply) ==
    /\ pc = "inspect"
    /\ IF reply = "ok" /\ tag # image
         THEN pc' = "up" /\ upd' = [upd EXCEPT !.new = tag]
         ELSE Finish(IF reply = "ok" THEN "unchanged" ELSE "failed")
    /\ UNCHANGED <<docker, journal, history>>

\* Mutant: a failed `up` ends the update.
UpNoRollback(reply) ==
    /\ pc = "up"
    /\ ComposeUp(reply)
    /\ IF reply = "ok" THEN pc' = "find" /\ UNCHANGED upd ELSE Finish("failed")
    /\ UNCHANGED <<journal, history>>

\* A service that did not run is started all the same, and not verified.
Up(reply) ==
    /\ pc = "up"
    /\ ComposeUp(reply)
    /\ pc' = CASE reply # "ok" -> "rb_tag"
               [] reply = "ok" /\ upd.wasRunning -> "find"
               [] OTHER -> "mark_verified"
    /\ UNCHANGED <<journal, upd, history>>

\* FindService: the container may be gone again, or the call fail.
Find(reply) ==
    /\ pc = "find"
    /\ pc' = IF reply = "ok" /\ image # None THEN "verify" ELSE "rb_tag"
    /\ UNCHANGED <<docker, journal, upd, history>>

Verify(ok) ==
    /\ pc = "verify"
    /\ pc' = IF ok THEN "mark_verified" ELSE "rb_tag"
    /\ UNCHANGED <<docker, journal, upd, history>>

MarkVerified ==
    /\ pc = "mark_verified"
    /\ journal' = [journal EXCEPT ![upd.jid].step = "verified"]
    /\ verified' = IF upd.wasRunning THEN upd.new ELSE None
    /\ Finish("ok")
    /\ UNCHANGED <<docker, wanted, gaveUp, crashes>>

Close ==
    /\ pc = "close"
    /\ journal' = [journal EXCEPT ![upd.jid].closed = TRUE]
    /\ pc' = "idle"
    /\ UNCHANGED <<docker, upd, history>>

\* A rollback that fails leaves the entry open.
Abandon ==
    /\ upd' = [upd EXCEPT !.outcome = "failed"] /\ pc' = "idle"
    /\ gaveUp' = TRUE
    /\ UNCHANGED <<wanted, verified, crashes>>

RollbackTag(reply) ==
    /\ pc = "rb_tag"
    /\ Tag(upd.old, reply)
    /\ IF reply = "ok" THEN pc' = "rb_up" /\ UNCHANGED <<upd, history>> ELSE Abandon
    /\ UNCHANGED journal

\* Mutant: the exit status of the second `up` is ignored.
RollbackUpTrusting(reply) ==
    /\ pc = "rb_up"
    /\ ComposeUp(reply)
    /\ Finish("rolled_back")
    /\ UNCHANGED <<journal, history>>

RollbackUp(reply) ==
    /\ pc = "rb_up"
    /\ ComposeUp(reply)
    /\ IF reply = "ok" THEN Finish("rolled_back") /\ UNCHANGED history ELSE Abandon
    /\ UNCHANGED journal

-----------------------------------------------------------------------------
(* Reconcile; the first error ends the start.                              *)

entry == journal[upd.jid]
Exit  == pc' = "exited" /\ upd' = NoUpdate

ProcessStarts ==
    /\ pc \in {"down", "exited"}
    /\ pc' = "rec_next"
    /\ upd' = NoUpdate
    /\ UNCHANGED <<docker, journal, history>>

\* Mutant: every open entry is rolled back.
ReconcileNextAll ==
    /\ pc = "rec_next"
    /\ \/ /\ Open = {}
          /\ pc' = "idle" /\ UNCHANGED upd
       \/ \E j \in Open :
            /\ \A k \in Open : j <= k
            /\ upd' = Cursor(j)
            /\ pc' = "rec_tag"
    /\ UNCHANGED <<docker, journal, history>>

\* A verified update lacks nothing but the closing of its entry.
ReconcileNext ==
    /\ pc = "rec_next"
    /\ \/ /\ Open = {}
          /\ pc' = "idle" /\ UNCHANGED upd
       \/ \E j \in Open :
            /\ \A k \in Open : j <= k
            /\ upd' = Cursor(j)
            /\ pc' = IF journal[j].step = "verified" THEN "rec_close" ELSE "rec_tag"
    /\ UNCHANGED <<docker, journal, history>>

ReconcileTag(reply) ==
    /\ pc = "rec_tag"
    /\ Tag(entry.old, reply)
    /\ IF reply = "ok" THEN pc' = "rec_up" /\ UNCHANGED upd ELSE Exit
    /\ UNCHANGED <<journal, history>>

\* Mutant: the reference is moved back, but the service is not brought up.
ReconcileUpNothing(reply) ==
    /\ pc = "rec_up"
    /\ pc' = "rec_close"
    /\ UNCHANGED <<docker, journal, upd, history>>

ReconcileUp(reply) ==
    /\ pc = "rec_up"
    /\ ComposeUp(reply)
    /\ IF reply = "ok" THEN pc' = "rec_close" /\ UNCHANGED upd ELSE Exit
    /\ UNCHANGED <<journal, history>>

ReconcileClose ==
    /\ pc = "rec_close"
    /\ journal' = [journal EXCEPT ![upd.jid].closed = TRUE]
    /\ pc' = "rec_next" /\ upd' = NoUpdate
    /\ UNCHANGED <<docker, history>>

-----------------------------------------------------------------------------
\* A crash during `compose up` cuts it off somewhere.
Crash ==
    /\ "crash" \in Faults
    /\ crashes < MaxCrashes
    /\ pc # "down"
    /\ IF pc \in {"up", "rb_up", "rec_up"} THEN UpPartial ELSE UNCHANGED <<image, up>>
    /\ pc' = "down"
    /\ upd' = NoUpdate
    /\ crashes' = crashes + 1
    /\ UNCHANGED <<tag, journal, wanted, verified, gaveUp>>

StartUpdate == \E j \in Entries, skipPull \in BOOLEAN, i \in Images : Begin(j, skipPull, i)

Call(reply) ==
    \/ Pull(reply) \/ InspectNew(reply) \/ Up(reply) \/ Find(reply)
    \/ RollbackTag(reply) \/ RollbackUp(reply)
    \/ ReconcileTag(reply) \/ ReconcileUp(reply)

Program ==
    \/ \E reply \in Replies : Call(reply)
    \/ \E ok \in BOOLEAN : Verify(ok)
    \/ MarkVerified \/ Close
    \/ ProcessStarts \/ ReconcileNext \/ ReconcileClose

Next == OperatorToggles \/ StartUpdate \/ Program \/ Crash

Spec == Init /\ [][Next]_vars

\* The process goes on and is started again when it exits; a call of the repair
\* that is tried again and again succeeds in the end.
FairSpec ==
    /\ Spec
    /\ WF_vars(Program)
    /\ SF_vars(ReconcileTag("ok"))
    /\ SF_vars(ReconcileUp("ok"))

-----------------------------------------------------------------------------
(* Properties                                                              *)

\* What Update returns is true of Docker: after "ok" the service runs the new
\* image, after "rolled_back" the one it had before.
OutcomeIsTrue ==
    pc = "idle" =>
      /\ upd.outcome = "ok" => up /\ image = upd.new /\ image # upd.old
      /\ upd.outcome = "rolled_back" => up /\ image = upd.old

\* While a service that should run is down, a journal entry is open: whichever
\* calls failed and wherever the process died, the next start works on it.
DownIsCovered == (wanted => up) \/ Open # {}

\* After a crash the process gets to serve again, with the service up, however
\* often the calls of its repair fail first.
RepairCompletes == pc = "down" ~> pc = "idle" /\ (wanted => up)

RepairKeepsVerified == pc = "rec_up" /\ image \in Images /\ image = verified => image' = image

\* The comment on Reconcile: anything not verified is rolled back; verified
\* updates are finished.  So the repair never takes away an image that was
\* verified.
VerifiedStays == [][RepairKeepsVerified]_vars

\* While no rollback has failed, that is so: wherever in `up` or between two
\* journal writes of whichever update the process died.
CleanRepairKeepsVerified == [][~gaveUp => RepairKeepsVerified]_vars

-----------------------------------------------------------------------------
(* Refinement                                                              *)

Phase ==
    CASE pc = "idle" -> "idle"
      [] pc \in {"down", "exited", "rec_next", "rec_tag", "rec_up", "rec_close"} -> "repairing"
      [] OTHER -> "updating"

Contract == INSTANCE UpdateContract WITH
    phase      <- Phase,
    before     <- IF Phase = "updating" THEN upd.old ELSE None,
    unfinished <- Open # {},
    outcome    <- IF pc = "idle" THEN upd.outcome ELSE "none"

\* The adapter and its repair keep the contract of internal/updater: over all
\* interleavings of failing calls, partial `up`s and crashes, outcomes are
\* true, damage is covered by an open entry, and serving waits for the repair.
KeepsContract == Contract!Spec
=============================================================================
