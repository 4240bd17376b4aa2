-------------------------- MODULE RetentionProofs --------------------------
(***************************************************************************)
(* Theorems about Retention, for any services, images, retention and       *)
(* number of jobs.                                                         *)
(***************************************************************************)
EXTENDS Retention, TLAPS

Busy == job.step # "idle"

\* Docker has the image of every container, and the one the reference points to.
InUseOnDisk ==
    /\ \A i \in ImageIds : InUse(i) => i \in onDisk
    /\ reference # NoImage => reference \in onDisk

\* Which container keeps the image a job may go back to.
OldIsHeld ==
    /\ job.step \in {"tag", "inspect", "replace"} => imageOf[job.svc] = job.old
    /\ job.step \in {"verify", "restore"} /\ job.svc \notin ComposeServices =>
         heldOf[job.svc] = job.old

\* Cleanup works on rows only.
SweepsRows == \A i \in sweep.todo : HasRow(i) /\ i # sweep.removed

\* Without a row, nothing removes the image of the job.
UnlistedIsSafe ==
    Busy /\ ~job.listed => ~HasRow(job.old) /\ job.old \in onDisk

\* Cleanup is not at an image that is promised, and its row is not due before.
PromiseIsKept ==
    \A s \in Services :
      promised[s] > 0 /\ s \notin exposed =>
        /\ previousOf[s] \in onDisk \ sweep.todo
        /\ dueIn[previousOf[s]] = NoRow \/ dueIn[previousOf[s]] >= promised[s]

RInv ==
    /\ RetentionTypeOK /\ InUseOnDisk /\ OldIsHeld
    /\ SweepsRows /\ UnlistedIsSafe /\ PromiseIsKept

USE ServicesAssumption, ImageIdsAssumption, RetentionAssumption

\* The invariant holds at the start.
LEMMA InitHolds == RetentionInit => RInv
BY DEF RetentionInit, RInv, RetentionTypeOK, InUseOnDisk, OldIsHeld, SweepsRows, UnlistedIsSafe,
       PromiseIsKept, Busy, InUse, HasRow, NoJob, NoRow, NoSweep

-----------------------------------------------------------------------------
(* Steps of the clock and of Cleanup.                                      *)

\* Time makes rows due no sooner than it uses up what was promised.
LEMMA ClockKeeps == RInv /\ ClockTicks => RInv'
<1> SUFFICES ASSUME RInv, ClockTicks
             PROVE  RInv'
  OBVIOUS
<1>. USE DEF RInv, ClockTicks, containers, images
<1>1. RetentionTypeOK'
  BY DEF RetentionTypeOK, NoRow
<1>2. \A i \in ImageIds : HasRow(i)' <=> HasRow(i)
  BY DEF RetentionTypeOK, HasRow, NoRow
<1>3. InUseOnDisk' /\ OldIsHeld'
  BY DEF InUseOnDisk, OldIsHeld, InUse
<1>4. SweepsRows' /\ UnlistedIsSafe'
  <2>1. Busy => job.old \in ImageIds
    BY DEF Busy, RetentionTypeOK, Jobs, NoJob
  <2>. QED BY <1>2, <2>1 DEF SweepsRows, UnlistedIsSafe, Busy, RetentionTypeOK
<1>5. PromiseIsKept'
  BY DEF PromiseIsKept, RetentionTypeOK, NoRow
<1>. QED BY <1>1, <1>3, <1>4, <1>5

\* Cleanup removes only images whose row it read and that no container uses.
LEMMA CleanupKeeps == RInv /\ (BeginCleanup \/ CleanupStep) => RInv'
<1> SUFFICES ASSUME RInv, BeginCleanup \/ CleanupStep
             PROVE  RInv'
  OBVIOUS
<1>. USE DEF RInv, containers, images, records
<1>0. /\ Busy => job.old \in ImageIds
      /\ \A s \in Services : promised[s] > 0 /\ s \notin exposed => previousOf[s] \in ImageIds
  BY DEF Busy, RetentionTypeOK, Jobs, NoJob, PromiseIsKept
<1>1. CASE BeginCleanup
  <2>. USE <1>1 DEF BeginCleanup
  <2>1. sweep'.todo = {i \in ImageIds : dueIn[i] = 0} /\ sweep'.removed = NoImage
    BY DEF NoSweep
  <2>2. RetentionTypeOK'
    BY DEF RetentionTypeOK
  <2>3. InUseOnDisk' /\ OldIsHeld' /\ UnlistedIsSafe'
    BY DEF InUseOnDisk, OldIsHeld, UnlistedIsSafe, InUse, HasRow, Busy
  <2>4. SweepsRows'
    BY <2>1 DEF SweepsRows, HasRow, NoRow
  <2>5. PromiseIsKept'
    BY <1>0, <2>1 DEF PromiseIsKept, RetentionTypeOK, NoRow
  <2>. QED BY <2>2, <2>3, <2>4, <2>5
<1>2. ASSUME NEW i \in ImageIds, RemoveImage(i)
      PROVE  RInv'
  <2>. USE <1>2 DEF RemoveImage
  <2>1. sweep' = [todo |-> sweep.todo \ {i}, removed |-> i] /\ i \in sweep.todo
    OBVIOUS
  <2>2. RetentionTypeOK'
    BY <2>1 DEF RetentionTypeOK
  <2>3. InUseOnDisk' /\ OldIsHeld'
    BY DEF InUseOnDisk, OldIsHeld, InUse, RetentionTypeOK
  <2>4. UnlistedIsSafe' /\ SweepsRows'
    BY <1>0, <2>1 DEF UnlistedIsSafe, SweepsRows, HasRow, Busy
  <2>5. PromiseIsKept'
    BY <2>1 DEF PromiseIsKept
  <2>. QED BY <2>2, <2>3, <2>4, <2>5
<1>3. ASSUME NEW i \in ImageIds, RemoveImageFails(i)
      PROVE  RInv'
  <2>. USE <1>3 DEF RemoveImageFails
  <2>1. sweep'.todo = sweep.todo \ {i} /\ sweep'.removed = sweep.removed
    BY DEF RetentionTypeOK
  <2>2. RetentionTypeOK'
    BY DEF RetentionTypeOK
  <2>3. InUseOnDisk' /\ OldIsHeld' /\ UnlistedIsSafe'
    BY DEF InUseOnDisk, OldIsHeld, UnlistedIsSafe, InUse, HasRow, Busy
  <2>4. SweepsRows' /\ PromiseIsKept'
    BY <2>1 DEF SweepsRows, PromiseIsKept, HasRow
  <2>. QED BY <2>2, <2>3, <2>4
<1>4. CASE DeleteRow
  <2>. USE <1>4 DEF DeleteRow
  <2>1. sweep'.todo = sweep.todo /\ sweep'.removed = NoImage /\ sweep.removed \in ImageIds
    BY DEF RetentionTypeOK
  <2>2. /\ dueIn' \in [ImageIds -> NoRow..Retention]
        /\ \A i \in ImageIds : dueIn'[i] = IF i = sweep.removed THEN NoRow ELSE dueIn[i]
    BY <2>1 DEF RetentionTypeOK, NoRow
  <2>3. RetentionTypeOK'
    BY <2>1, <2>2 DEF RetentionTypeOK
  <2>4. InUseOnDisk' /\ OldIsHeld'
    BY DEF InUseOnDisk, OldIsHeld, InUse
  <2>5. UnlistedIsSafe' /\ SweepsRows'
    BY <1>0, <2>1, <2>2 DEF UnlistedIsSafe, SweepsRows, HasRow, Busy, RetentionTypeOK
  <2>6. PromiseIsKept'
    BY <1>0, <2>1, <2>2 DEF PromiseIsKept
  <2>. QED BY <2>3, <2>4, <2>5, <2>6
<1>. QED BY <1>1, <1>2, <1>3, <1>4 DEF CleanupStep

-----------------------------------------------------------------------------
(* Steps of an update or a rollback.                                       *)

\* An update or a rollback begins.
LEMMA BeginKeeps ==
    ASSUME RInv,
           \/ \E s \in Services, i \in ImageIds : BeginUpdate(s, i)
           \/ \E s \in Services : BeginRollback(s)
    PROVE  RInv'
<1>. USE DEF RInv
<1>1. PICK s \in Services, step \in {"tag", "inspect"}, pulls \in BOOLEAN :
        /\ Take(s, step, pulls)
        /\ onDisk \subseteq onDisk' /\ onDisk' \subseteq ImageIds
        /\ reference' \in ImageIds \cup {NoImage}
        /\ reference' # NoImage => reference' \in onDisk'
  BY DEF BeginUpdate, BeginRollback, images, RetentionTypeOK, InUseOnDisk
<1>. USE <1>1 DEF Take, containers, records
<1>2. /\ job'.step \in {"tag", "inspect"} /\ job'.svc = s /\ job'.old = imageOf[s]
      /\ job'.listed = HasRow(imageOf[s]) /\ job' \in Jobs
  <2>1. HasRow(imageOf[s]) \in BOOLEAN
    BY DEF HasRow
  <2>. QED BY <2>1 DEF Jobs, RetentionTypeOK
<1>3. RetentionTypeOK'
  BY <1>2 DEF RetentionTypeOK
<1>4. InUseOnDisk'
  BY DEF InUseOnDisk, InUse
<1>5. OldIsHeld'
  BY <1>2 DEF OldIsHeld
<1>6. UnlistedIsSafe'
  <2>1. imageOf[s] \in onDisk
    BY DEF InUseOnDisk, InUse, RetentionTypeOK
  <2>. QED BY <1>2, <2>1 DEF UnlistedIsSafe, HasRow
<1>7. SweepsRows' /\ PromiseIsKept'
  BY DEF SweepsRows, PromiseIsKept, HasRow
<1>. QED BY <1>3, <1>4, <1>5, <1>6, <1>7

\* Most steps of a job change no image: they end it or take it further.
LEMMA QuietStep ==
    ASSUME RInv, UNCHANGED <<onDisk, imageOf, records, sweep, jobs>>,
           job \in Jobs,
           job' = NoJob \/ \E step \in {"inspect", "replace", "verify", "restore", "up", "record"} :
                             job' = [job EXCEPT !.step = step],
           job'.step \in {"inspect", "replace"} => job.step \in {"tag", "inspect"},
           job'.step \in {"verify", "restore"} /\ job.svc \notin ComposeServices =>
             heldOf'[job.svc] = job.old,
           heldOf' \in [Services -> ImageIds \cup {NoImage}],
           \A s \in Services : heldOf'[s] \in {heldOf[s], NoImage},
           reference' \in ImageIds \cup {NoImage},
           reference' # NoImage => reference' \in onDisk
    PROVE  RInv'
<1>. USE DEF RInv, records
<1>1. job' = NoJob \/ (/\ job' \in Jobs /\ job'.svc = job.svc /\ job'.old = job.old
                       /\ job'.listed = job.listed)
  BY DEF Jobs
<1>2. RetentionTypeOK'
  BY <1>1 DEF RetentionTypeOK
<1>3. InUseOnDisk'
  BY DEF InUseOnDisk, InUse
<1>4. OldIsHeld'
  BY <1>1 DEF OldIsHeld, NoJob, Jobs
<1>5. UnlistedIsSafe'
  BY <1>1 DEF UnlistedIsSafe, Busy, HasRow, NoJob, Jobs
<1>6. SweepsRows' /\ PromiseIsKept'
  BY DEF SweepsRows, PromiseIsKept, HasRow
<1>. QED BY <1>2, <1>3, <1>4, <1>5, <1>6

\* Each step of an update or a rollback.
LEMMA JobKeeps == RInv /\ JobStep => RInv'
<1> SUFFICES ASSUME RInv, JobStep
             PROVE  RInv'
  OBVIOUS
<1>0. job \in Jobs
  BY DEF JobStep, TagPrevious, InspectReference, ReplaceContainer, ReplaceFails, VerifyContainer,
         PutBack, PointBack, UpOld, RetainOld, Retain, NoJob, RInv, RetentionTypeOK
<1>00. /\ job.old \in ImageIds /\ job.svc \in Services
       /\ \A s \in Services : heldOf[s] \in ImageIds \cup {NoImage}
       /\ heldOf \in [Services -> ImageIds \cup {NoImage}]
       /\ reference \in ImageIds \cup {NoImage} /\ (reference # NoImage => reference \in onDisk)
  BY <1>0 DEF Jobs, RInv, RetentionTypeOK, InUseOnDisk
<1>1. CASE TagPrevious
  <2>1. previousOf[job.svc] \in onDisk => previousOf[job.svc] \in ImageIds
    BY DEF RInv, RetentionTypeOK
  <2>. QED BY <1>0, <1>00, <1>1, <2>1, QuietStep DEF TagPrevious, Goto, containers, records, Jobs, NoJob
<1>2. CASE InspectReference
  BY <1>0, <1>00, <1>2, QuietStep DEF InspectReference, Goto, containers, images, records, Jobs, NoJob
<1>3. CASE ReplaceFails
  BY <1>0, <1>00, <1>3, QuietStep DEF ReplaceFails, Goto, containers, images, records, Jobs, NoJob
<1>4. ASSUME NEW ok \in BOOLEAN, VerifyContainer(ok)
      PROVE  RInv'
  <2>1. job.svc \notin ComposeServices => heldOf[job.svc] = job.old
    BY <1>4 DEF VerifyContainer, RInv, OldIsHeld
  <2>2. CASE ok
    BY <1>0, <1>00, <1>4, <2>2, QuietStep DEF VerifyContainer, Goto, images, records, Jobs, NoJob
  <2>3. CASE ~ok
    BY <1>0, <1>00, <1>4, <2>1, <2>3, QuietStep DEF VerifyContainer, Goto, images, records, Jobs, NoJob
  <2>. QED BY <2>2, <2>3
<1>5. CASE PointBack
  BY <1>0, <1>00, <1>5, QuietStep DEF PointBack, Goto, containers, records, Jobs, NoJob
<1>6. CASE ReplaceContainer
  <2>. USE <1>6 DEF ReplaceContainer, RInv, records
  <2>1. PICK i \in ImageIds : /\ reference' = i
                              /\ onDisk' = onDisk \cup {i}
                              /\ imageOf' = [imageOf EXCEPT ![job.svc] = i]
    OBVIOUS
  <2>2. /\ job' \in Jobs /\ job'.step = "verify" /\ job'.svc = job.svc /\ job'.old = job.old
        /\ job'.listed = job.listed
    BY <1>0 DEF Goto, Jobs
  <2>3. /\ heldOf' \in [Services -> ImageIds \cup {NoImage}]
        /\ job.svc \notin ComposeServices => heldOf'[job.svc] = job.old
        /\ \A s \in Services : heldOf'[s] \in {heldOf[s], job.old, NoImage}
    BY <1>00 DEF RetentionTypeOK
  <2>4. job.old \in onDisk /\ imageOf[job.svc] = job.old
    BY <1>0, <1>00 DEF OldIsHeld, InUseOnDisk, InUse
  <2>5. RetentionTypeOK'
    BY <1>00, <2>1, <2>2, <2>3 DEF RetentionTypeOK
  <2>6. InUseOnDisk'
    BY <1>00, <2>1, <2>3, <2>4 DEF InUseOnDisk, InUse, RetentionTypeOK
  <2>7. OldIsHeld' /\ UnlistedIsSafe'
    BY <1>0, <2>1, <2>2, <2>3 DEF OldIsHeld, UnlistedIsSafe, Busy, HasRow
  <2>8. SweepsRows' /\ PromiseIsKept'
    BY <2>1 DEF SweepsRows, PromiseIsKept, HasRow
  <2>. QED BY <2>5, <2>6, <2>7, <2>8
<1>7. CASE PutBack \/ UpOld
  <2>. USE <1>7 DEF PutBack, UpOld, RInv, records, images
  <2>1. /\ job' = NoJob
        /\ imageOf' \in [Services -> ImageIds]
        /\ \A s \in Services : imageOf'[s] \in {imageOf[s], job.old, reference} \cap ImageIds
        /\ PutBack => \A s \in Services : imageOf'[s] \in {imageOf[s], job.old}
        /\ UpOld => \A s \in Services : imageOf'[s] \in {imageOf[s], reference}
        /\ heldOf' \in [Services -> ImageIds \cup {NoImage}]
        /\ \A s \in Services : heldOf'[s] \in {heldOf[s], NoImage}
    BY <1>00 DEF RetentionTypeOK
  <2>2. PutBack => job.old \in onDisk
    BY <1>0, <1>00 DEF OldIsHeld, InUseOnDisk, InUse
  <2>3. RetentionTypeOK'
    BY <2>1 DEF RetentionTypeOK
  <2>4. InUseOnDisk'
    BY <1>00, <2>1, <2>2 DEF InUseOnDisk, InUse, RetentionTypeOK
  <2>5. OldIsHeld' /\ UnlistedIsSafe'
    BY <2>1 DEF OldIsHeld, UnlistedIsSafe, Busy, NoJob
  <2>6. SweepsRows' /\ PromiseIsKept'
    BY DEF SweepsRows, PromiseIsKept, HasRow
  <2>. QED BY <2>3, <2>4, <2>5, <2>6
<1>8. CASE RetainOld
  <2>. USE <1>8 DEF RetainOld, Retain, RInv, containers, images
  <2>1. /\ job' = NoJob
        /\ dueIn' = [dueIn EXCEPT ![job.old] = Retention]
        /\ promised' = [promised EXCEPT ![job.svc] = Retention]
        /\ previousOf' = [previousOf EXCEPT ![job.svc] = job.old]
        /\ exposed' \subseteq Services
        /\ \A s \in Services \ {job.svc} : s \in exposed' <=> s \in exposed
        /\ job.svc \notin exposed' => job.old \in onDisk \ sweep.todo
    BY <1>00 DEF RetentionTypeOK
  <2>2. Retention >= 1 /\ Retention \in NoRow..Retention /\ Retention \in Nat
    BY DEF NoRow
  <2>3. RetentionTypeOK'
    BY <1>00, <2>1, <2>2 DEF RetentionTypeOK
  <2>4. InUseOnDisk' /\ OldIsHeld' /\ UnlistedIsSafe'
    BY <2>1 DEF InUseOnDisk, InUse, OldIsHeld, UnlistedIsSafe, Busy, NoJob
  <2>5. SweepsRows'
    BY <1>00, <2>1, <2>2 DEF SweepsRows, HasRow, NoRow, RetentionTypeOK
  <2>6. PromiseIsKept'
    <3> SUFFICES ASSUME NEW s \in Services, promised'[s] > 0, s \notin exposed'
                 PROVE  /\ previousOf'[s] \in onDisk \ sweep.todo
                        /\ dueIn'[previousOf'[s]] = NoRow \/ dueIn'[previousOf'[s]] >= promised'[s]
      BY DEF PromiseIsKept
    <3>1. CASE s = job.svc
      BY <1>00, <2>1, <2>2, <3>1 DEF RetentionTypeOK
    <3>2. CASE s # job.svc
      <4>1. promised'[s] = promised[s] /\ previousOf'[s] = previousOf[s] /\ s \notin exposed
        BY <2>1, <3>2 DEF RetentionTypeOK
      <4>2. /\ previousOf[s] \in onDisk \ sweep.todo /\ previousOf[s] \in ImageIds
            /\ dueIn[previousOf[s]] = NoRow \/ dueIn[previousOf[s]] >= promised[s]
        BY <4>1 DEF PromiseIsKept, RetentionTypeOK
      <4>3. promised[s] <= Retention
        BY DEF RetentionTypeOK
      <4>. QED BY <1>00, <2>1, <2>2, <4>1, <4>2, <4>3 DEF RetentionTypeOK
    <3>. QED BY <3>1, <3>2
  <2>. QED BY <2>3, <2>4, <2>5, <2>6
<1>. QED BY <1>1, <1>2, <1>3, <1>4, <1>5, <1>6, <1>7, <1>8 DEF JobStep

-----------------------------------------------------------------------------
\* Every step keeps the invariant.
LEMMA NextKeeps == RInv /\ [RetentionNext]_retentionVars => RInv'
<1>1. RInv /\ UNCHANGED retentionVars => RInv'
  BY DEF RInv, retentionVars, containers, images, records, RetentionTypeOK, InUseOnDisk, OldIsHeld,
         SweepsRows, UnlistedIsSafe, PromiseIsKept, Busy, InUse, HasRow
<1>. QED BY <1>1, ClockKeeps, CleanupKeeps, BeginKeeps, JobKeeps DEF RetentionNext

\* The variables keep to their types.
THEOREM RetentionTypeCorrect == RetentionSpec => []RetentionTypeOK
<1>1. RInv => RetentionTypeOK
  BY DEF RInv
<1>. QED BY <1>1, InitHolds, NextKeeps, PTL DEF RetentionSpec

\* Whatever Cleanup does meanwhile, an update can be undone, unless it is one by
\* compose of an image that had a row in old_images already.
THEOREM UndoAlwaysPossible == RetentionSpec => []UndoImageKept
<1>1. RInv => UndoImageKept
  <2> SUFFICES ASSUME RInv, job.step \in {"verify", "restore"}
               PROVE  job.old \in onDisk \/ (job.svc \in ComposeServices /\ job.listed)
    BY DEF UndoImageKept
  <2>1. job \in Jobs
    BY DEF RInv, RetentionTypeOK, NoJob
  <2>2. CASE job.svc \in ComposeServices
    BY <2>1, <2>2 DEF RInv, UnlistedIsSafe, Busy, Jobs
  <2>3. CASE job.svc \notin ComposeServices
    BY <2>1, <2>3 DEF RInv, OldIsHeld, InUseOnDisk, InUse, Jobs
  <2>. QED BY <2>2, <2>3
<1>. QED BY <1>1, InitHolds, NextKeeps, PTL DEF RetentionSpec

\* The image of the last update stays for the whole retention, unless a sweep was
\* at it when the update was recorded.
THEOREM RollbackAlwaysPossible == RetentionSpec => []RollbackStaysPossible
<1>1. RInv => RollbackStaysPossible
  BY DEF RInv, PromiseIsKept, RollbackStaysPossible
<1>. QED BY <1>1, InitHolds, NextKeeps, PTL DEF RetentionSpec
=============================================================================
