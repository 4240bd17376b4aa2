----------------------------- MODULE Retention -----------------------------
(***************************************************************************)
(* Old images (internal/engine/engine.go: Update, Rollback, Cleanup; table *)
(* old_images of internal/store/info.go): how long the image that an       *)
(* update replaced stays on disk, for services of one image reference.     *)
(*                                                                         *)
(* Updates and rollbacks hold Engine.mu, so there is one job at a time.    *)
(* Cleanup does not take the mutex: it reads the rows that are due and     *)
(* removes the images one by one while a job of the user runs.  Docker     *)
(* refuses to remove an image that a container uses.  The run adapter      *)
(* keeps its old container until the update is verified; compose does not. *)
(*                                                                         *)
(* Left out: crashes and failing calls of the adapters (RunUpdate and      *)
(* ComposeUpdate), failing database calls.                                 *)
(***************************************************************************)
EXTENDS Integers

CONSTANTS
    Services,         \* the services of the reference
    ComposeServices,  \* those updated by the compose adapter
    ImageIds,         \* the images the reference can point to
    NoImage,          \* no image
    Retention,        \* Engine.Retention, in steps of the clock
    MaxJobs           \* bound: updates and rollbacks

ASSUME ServicesAssumption == ComposeServices \subseteq Services
ASSUME ImageIdsAssumption == NoImage \notin ImageIds
ASSUME RetentionAssumption == Retention \in Nat \ {0} /\ MaxJobs \in Nat

VARIABLES
    onDisk,      \* the images Docker has
    reference,   \* the image the reference points to, or NoImage
    imageOf,     \* imageOf[s]: the image of the container of s
    heldOf,      \* heldOf[s]: the image of the <name>-nu-old container of s, or NoImage
    previousOf,  \* previousOf[s]: from_image of the last update of s in the history
    dueIn,       \* dueIn[i]: time until the row of i in old_images is due, or NoRow
    job,         \* the update or rollback that holds Engine.mu
    sweep,       \* Cleanup: the rows it read and has not handled, the image just removed
    promised,    \* history: promised[s]: how long previousOf[s] must still be on disk
    exposed,     \* history: services whose last update left an image that a sweep was already at
    jobs         \* updates and rollbacks so far

containers    == <<imageOf, heldOf>>
images        == <<onDisk, reference>>
records       == <<previousOf, dueIn, promised, exposed>>
retentionVars == <<containers, images, records, job, sweep, jobs>>

NoRow   == -1
NoJob   == [step |-> "idle"]
NoSweep == [todo |-> {}, removed |-> NoImage]

Jobs == [step : {"tag", "inspect", "replace", "verify", "restore", "up", "record"},
         svc : Services, old : ImageIds, pulls : BOOLEAN, listed : BOOLEAN]

RetentionTypeOK ==
    /\ onDisk \subseteq ImageIds
    /\ reference \in ImageIds \cup {NoImage}
    /\ imageOf \in [Services -> ImageIds]
    /\ heldOf \in [Services -> ImageIds \cup {NoImage}]
    /\ previousOf \in [Services -> ImageIds \cup {NoImage}]
    /\ dueIn \in [ImageIds -> NoRow..Retention]
    /\ job \in Jobs \cup {NoJob}
    /\ sweep \in [todo : SUBSET ImageIds, removed : ImageIds \cup {NoImage}]
    /\ promised \in [Services -> 0..Retention]
    /\ exposed \subseteq Services
    /\ jobs \in 0..MaxJobs

InUse(i)  == \E s \in Services : i \in {imageOf[s], heldOf[s]}
HasRow(i) == dueIn[i] # NoRow

RetentionInit ==
    /\ reference \in ImageIds
    /\ onDisk = {reference}
    /\ imageOf = [s \in Services |-> reference]
    /\ heldOf = [s \in Services |-> NoImage]
    /\ previousOf = [s \in Services |-> NoImage]
    /\ dueIn = [i \in ImageIds |-> NoRow]
    /\ job = NoJob
    /\ sweep = NoSweep
    /\ promised = [s \in Services |-> 0]
    /\ exposed = {}
    /\ jobs = 0

ClockTicks ==
    /\ dueIn' = [i \in ImageIds |-> IF dueIn[i] > 0 THEN dueIn[i] - 1 ELSE dueIn[i]]
    /\ promised' = [s \in Services |-> IF promised[s] > 0 THEN promised[s] - 1 ELSE 0]
    /\ UNCHANGED <<containers, images, previousOf, job, sweep, exposed, jobs>>

-----------------------------------------------------------------------------
(* Update and Rollback                                                     *)

Take(s, step, pulls) ==
    /\ job = NoJob
    /\ jobs < MaxJobs /\ jobs' = jobs + 1
    /\ job' = [step |-> step, svc |-> s, old |-> imageOf[s], pulls |-> pulls,
               listed |-> HasRow(imageOf[s])]
    /\ UNCHANGED <<containers, records, sweep>>

Goto(step) == job' = [job EXCEPT !.step = step]

\* An update pulls the reference, whatever the registry serves for it.
BeginUpdate(s, i) ==
    /\ Take(s, "inspect", TRUE)
    /\ reference' = i
    /\ onDisk' = onDisk \cup {i}

\* A rollback finds the image of the last update, which must be on disk, and the
\* update among the last 200 rows of the history; otherwise it changes nothing.
BeginRollback(s) ==
    /\ previousOf[s] \in onDisk
    /\ Take(s, "tag", FALSE)
    /\ UNCHANGED images

\* The image may be gone again: then nothing has changed.
TagPrevious ==
    /\ job.step = "tag"
    /\ IF previousOf[job.svc] \in onDisk
         THEN reference' = previousOf[job.svc] /\ Goto("inspect")
         ELSE job' = NoJob /\ UNCHANGED reference
    /\ UNCHANGED <<containers, onDisk, records, sweep, jobs>>

InspectReference ==
    /\ job.step = "inspect"
    /\ IF reference \in {NoImage, job.old} THEN job' = NoJob ELSE Goto("replace")
    /\ UNCHANGED <<containers, images, records, sweep, jobs>>

\* The container is created from the reference; `compose up` of an update pulls
\* again when that image is gone.
ReplaceContainer ==
    /\ job.step = "replace"
    /\ \E i \in ImageIds :
         /\ i = reference \/ (reference = NoImage /\ job.pulls /\ job.svc \in ComposeServices)
         /\ reference' = i
         /\ onDisk' = onDisk \cup {i}
         /\ imageOf' = [imageOf EXCEPT ![job.svc] = i]
    /\ heldOf' = [heldOf EXCEPT ![job.svc] =
                      IF job.svc \in ComposeServices THEN NoImage ELSE job.old]
    /\ Goto("verify")
    /\ UNCHANGED <<records, sweep, jobs>>

\* Without an image the run adapter undoes the update at once.
ReplaceFails ==
    /\ job.step = "replace" /\ reference = NoImage
    /\ IF job.svc \in ComposeServices THEN ~job.pulls /\ Goto("restore") ELSE job' = NoJob
    /\ UNCHANGED <<containers, images, records, sweep, jobs>>

\* Mutant: the old container is removed before the new one is verified.
VerifyReleases(ok) ==
    /\ job.step = "verify"
    /\ heldOf' = [heldOf EXCEPT ![job.svc] = NoImage]
    /\ Goto(IF ok THEN "record" ELSE "restore")
    /\ UNCHANGED <<imageOf, images, records, sweep, jobs>>

\* A verified update removes the container that was kept.
VerifyContainer(ok) ==
    /\ job.step = "verify"
    /\ heldOf' = IF ok THEN [heldOf EXCEPT ![job.svc] = NoImage] ELSE heldOf
    /\ Goto(IF ok THEN "record" ELSE "restore")
    /\ UNCHANGED <<imageOf, images, records, sweep, jobs>>

\* The run adapter puts the container back that it kept.
PutBack ==
    /\ job.step = "restore" /\ job.svc \notin ComposeServices
    /\ imageOf' = [imageOf EXCEPT ![job.svc] = job.old]
    /\ heldOf' = [heldOf EXCEPT ![job.svc] = NoImage]
    /\ job' = NoJob
    /\ UNCHANGED <<images, records, sweep, jobs>>

\* Compose points the reference back, and fails when the image is gone.
PointBack ==
    /\ job.step = "restore" /\ job.svc \in ComposeServices
    /\ IF job.old \in onDisk THEN reference' = job.old /\ Goto("up")
                             ELSE job' = NoJob /\ UNCHANGED reference
    /\ UNCHANGED <<containers, onDisk, records, sweep, jobs>>

UpOld ==
    /\ job.step = "up"
    /\ imageOf' = IF reference # NoImage THEN [imageOf EXCEPT ![job.svc] = reference] ELSE imageOf
    /\ job' = NoJob
    /\ UNCHANGED <<heldOf, images, records, sweep, jobs>>

Retain(date) ==
    /\ job.step = "record"
    /\ previousOf' = [previousOf EXCEPT ![job.svc] = job.old]
    /\ dueIn' = [dueIn EXCEPT ![job.old] = date]
    /\ promised' = [promised EXCEPT ![job.svc] = Retention]
    /\ exposed' = IF job.old \in sweep.todo \/ job.old \notin onDisk
                    THEN exposed \cup {job.svc} ELSE exposed \ {job.svc}
    /\ job' = NoJob
    /\ UNCHANGED <<containers, images, sweep, jobs>>

\* Mutant: a row that exists keeps its date.
RetainOldOnce == Retain(IF HasRow(job.old) THEN dueIn[job.old] ELSE Retention)

\* AddHistory, and AddOldImage, which sets the date anew when there is a row.
RetainOld == Retain(Retention)

-----------------------------------------------------------------------------
(* Cleanup                                                                 *)

BeginCleanup ==
    /\ sweep = NoSweep
    /\ sweep' = [sweep EXCEPT !.todo = {i \in ImageIds : dueIn[i] = 0}]
    /\ UNCHANGED <<containers, images, records, job, jobs>>

\* Docker removes an image with its tag, or says that it is not there.
RemoveImage(i) ==
    /\ sweep.removed = NoImage /\ i \in sweep.todo
    /\ ~InUse(i)
    /\ onDisk' = onDisk \ {i}
    /\ reference' = IF reference = i THEN NoImage ELSE reference
    /\ sweep' = [todo |-> sweep.todo \ {i}, removed |-> i]
    /\ UNCHANGED <<containers, records, job, jobs>>

\* It refuses an image that a container uses, or fails: the row stays.
RemoveImageFails(i) ==
    /\ sweep.removed = NoImage /\ i \in sweep.todo
    /\ sweep' = [sweep EXCEPT !.todo = @ \ {i}]
    /\ UNCHANGED <<containers, images, records, job, jobs>>

\* Mutant: the row of a removed image stays.
DeleteNoRow ==
    /\ sweep.removed # NoImage
    /\ sweep' = [sweep EXCEPT !.removed = NoImage]
    /\ UNCHANGED <<containers, images, records, job, jobs>>

DeleteRow ==
    /\ sweep.removed # NoImage
    /\ dueIn' = [dueIn EXCEPT ![sweep.removed] = NoRow]
    /\ sweep' = [sweep EXCEPT !.removed = NoImage]
    /\ UNCHANGED <<containers, images, previousOf, promised, exposed, job, jobs>>

-----------------------------------------------------------------------------
JobStep ==
    \/ TagPrevious \/ InspectReference \/ ReplaceContainer \/ ReplaceFails
    \/ \E ok \in BOOLEAN : VerifyContainer(ok)
    \/ PutBack \/ PointBack \/ UpOld \/ RetainOld

CleanupStep ==
    \/ \E i \in ImageIds : RemoveImage(i) \/ RemoveImageFails(i)
    \/ DeleteRow

RetentionNext ==
    \/ ClockTicks
    \/ \E s \in Services, i \in ImageIds : BeginUpdate(s, i)
    \/ \E s \in Services : BeginRollback(s)
    \/ JobStep
    \/ BeginCleanup \/ CleanupStep

RetentionSpec == RetentionInit /\ [][RetentionNext]_retentionVars

-----------------------------------------------------------------------------
(* Properties                                                              *)

\* While an update may still have to undo what it did, the image it goes back
\* to is on disk, whatever Cleanup does meanwhile.  Only compose can lose it,
\* and only an image that had a row already: one that was replaced and then
\* brought back by a rollback.
UndoImageKept ==
    job.step \in {"verify", "restore"} =>
      \/ job.old \in onDisk
      \/ job.svc \in ComposeServices /\ job.listed

\* Rollback: "It keeps the previous image on disk for Retention, so this works
\* until Cleanup has removed it", unless a sweep that was under way when the
\* update was recorded had read an older row of the image.  That the row of the
\* update is among the 200 that Rollback searches is another matter.
RollbackStaysPossible ==
    \A s \in Services : promised[s] > 0 => previousOf[s] \in onDisk \/ s \in exposed

\* What an update left behind is removed in the end: when the updates are over,
\* only images in use keep a row.
OldImagesGo == []<>(\A i \in ImageIds : HasRow(i) => InUse(i))
=============================================================================
