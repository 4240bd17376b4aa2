------------------------ MODULE ComposeUpdateProofs ------------------------
(***************************************************************************)
(* Proofs about ComposeUpdate, for any images, faults and bounds.          *)
(***************************************************************************)
EXTENDS ComposeUpdate, FiniteSetTheorems, TLAPS

Updating  == {"pull", "inspect", "up", "find", "verify", "mark_verified", "rb_tag", "rb_up"}
Repairing == {"rec_tag", "rec_up", "rec_close"}
Started   == {j \in Open : journal[j].step = "started"}

\* The entry the process works on is open, and says what the process knows.
CursorOK ==
    /\ pc \in Updating \cup Repairing \cup {"close"} => upd.jid \in Open
    /\ pc \in Updating => upd.jid \in Started /\ upd.old = entry.old
    /\ pc \in {"rec_tag", "rec_up"} => upd.jid \in Started
    /\ \A j \in Open : journal[j].step # "none"

\* Where the container and the reference are between two calls.
ImageOK ==
    /\ pc \in {"pull", "inspect", "up"} => image = upd.old
    /\ pc \in {"up", "find", "verify", "mark_verified"} => upd.new # upd.old
    /\ pc = "up" => tag = upd.new
    /\ pc \in {"find", "verify", "mark_verified"} => up /\ image = upd.new
    /\ pc = "rb_up" => tag = upd.old
    /\ pc = "rec_up" => tag = entry.old

\* Whatever is down waits for an entry that will not be closed without `up`.
CoverOK ==
    /\ (wanted => up) \/ Started # {}
    /\ pc \in {"pull", "inspect", "close"} => (wanted => up) \/ Started \ {upd.jid} # {}
    /\ pc = "rec_close" => up \/ entry.step = "verified"

OutcomeOK ==
    pc \in {"idle", "close", "rec_next"} =>
      /\ upd.outcome = "ok" => up /\ image = upd.new /\ image # upd.old
      /\ upd.outcome = "rolled_back" => up /\ image = upd.old

\* While no rollback has failed there is one open entry at most, and what was
\* verified is the image it started from, or the one that runs.
VerifiedOK == ~gaveUp =>
    /\ \A j, k \in Open : j = k
    /\ pc = "idle" => Open = {}
    /\ \A j \in Started : verified \in {None, journal[j].old}
    /\ (Started = {} \/ pc \in {"close", "rec_close"}) => verified \in {None, image}

IInv == TypeOK /\ CursorOK /\ ImageOK /\ CoverOK /\ OutcomeOK /\ VerifiedOK

\* What `up` may leave, failed or not.
ComposeUpOutcome == UpDone \/ UpPartial

\* The local variables of a process that has just started are of their type.
LEMMA NoUpdateType == NoUpdate \in Locals
BY BoundsAssumption DEF NoUpdate, Cursor, Locals, Outcomes

\* So are those of an update or a repair that has just taken up entry j.
LEMMA CursorType ==
    ASSUME NEW j \in Entries
    PROVE  /\ \A o \in Images, r \in BOOLEAN :
                [jid |-> j, old |-> o, new |-> None, wasRunning |-> r, outcome |-> "none"] \in Locals
           /\ Cursor(j) \in Locals
           /\ Cursor(j).jid = j
<1>1. j \in 0..MaxUpdates
  BY BoundsAssumption DEF Entries
<1>. QED BY <1>1 DEF Cursor, Locals, Outcomes

\* The six parts hold together after every step of the program and its environment.
LEMMA Invariance == Spec => []IInv
<1>1. ASSUME Init PROVE IInv
  <2>1. TypeOK
    <3>1. journal \in [Entries -> Rows] /\ Open = {}
      <4>1. NoEntry \in Rows
        BY DEF NoEntry, Rows, StepNames
      <4>2. journal \in [Entries -> Rows]
        BY <1>1, <4>1 DEF Init
      <4>. QED BY <1>1, <4>2 DEF Init, NoEntry, Open
    <3>2. up \in BOOLEAN /\ wanted \in BOOLEAN /\ gaveUp \in BOOLEAN
      BY <1>1 DEF Init
    <3>3. image \in Images \cup {None} /\ image # None /\ tag \in Images /\ verified \in Images \cup {None}
      BY <1>1, ImagesAssumption DEF Init
    <3>4. pc \in Pcs /\ upd \in Locals /\ crashes \in 0..MaxCrashes
      BY <1>1, NoUpdateType, BoundsAssumption DEF Init, Pcs
    <3>. QED BY <3>1, <3>2, <3>3, <3>4 DEF TypeOK
  <2>2. Open = {} /\ Started = {}
    BY <1>1 DEF Init, NoEntry, Open, Started
  <2>3. upd.outcome = "none"
    BY <1>1 DEF Init, NoUpdate, Cursor
  <2>. QED BY <1>1, <2>1, <2>2, <2>3
     DEF Init, IInv, CursorOK, ImageOK, CoverOK, OutcomeOK, VerifiedOK, Updating, Repairing
<1>2. ASSUME IInv, Next PROVE IInv'
  <2>. USE <1>2, ImagesAssumption, BoundsAssumption
     DEF IInv, docker, history, Updating, Repairing, Started, Open, entry
  <2>1. ASSUME OperatorToggles PROVE IInv'
    <3>1. TypeOK'
      BY <2>1 DEF OperatorToggles, NoUpdate, Cursor, TypeOK, Locals, Outcomes
    <3>2. CursorOK'
      BY <2>1 DEF OperatorToggles, CursorOK
    <3>3. ImageOK'
      BY <2>1 DEF OperatorToggles, ImageOK
    <3>4. CoverOK'
      BY <2>1 DEF OperatorToggles, CoverOK
    <3>5. OutcomeOK'
      BY <2>1 DEF OperatorToggles, NoUpdate, Cursor, OutcomeOK
    <3>6. VerifiedOK'
      BY <2>1 DEF OperatorToggles, VerifiedOK
    <3>. QED BY <3>1, <3>2, <3>3, <3>4, <3>5, <3>6 DEF IInv
  <2>2. ASSUME NEW j \in Entries, NEW skipPull \in BOOLEAN, NEW i \in Images, Begin(j, skipPull, i) PROVE IInv'
    <3>1. TypeOK'
      <4>1. /\ image \in Images
            /\ upd' = [jid |-> j, old |-> image, new |-> None, wasRunning |-> up, outcome |-> "none"]
            /\ journal' = [journal EXCEPT ![j] = [step |-> "started", old |-> image, closed |-> FALSE]]
        BY <2>2 DEF Begin, TypeOK
      <4>2. upd' \in Locals
        BY <2>2, <4>1, CursorType DEF TypeOK
      <4>3. /\ journal' \in [Entries -> Rows]
            /\ \A k \in Open' : journal'[k].old \in Images
        BY <2>2, <4>1 DEF TypeOK, Rows, StepNames
      <4>. QED BY <2>2, <4>2, <4>3 DEF Begin, TypeOK, Pcs
    <3>2. CursorOK'
      BY <2>2 DEF Begin, TypeOK, CursorOK
    <3>3. ImageOK'
      BY <2>2 DEF Begin, ImageOK
    <3>4. CoverOK'
      BY <2>2 DEF Begin, Unused, CoverOK
    <3>5. OutcomeOK'
      BY <2>2 DEF Begin, OutcomeOK
    <3>6. VerifiedOK'
      BY <2>2 DEF Begin, VerifiedOK
    <3>. QED BY <3>1, <3>2, <3>3, <3>4, <3>5, <3>6 DEF IInv
  <2>3. ASSUME NEW reply \in Replies, Pull(reply) PROVE IInv'
    <3>1. TypeOK'
      BY <2>3 DEF Pull, Finish, TypeOK, Locals, Outcomes, Pcs
    <3>2. CursorOK'
      BY <2>3 DEF Pull, Finish, TypeOK, Locals, CursorOK
    <3>3. ImageOK'
      BY <2>3 DEF Pull, Finish, ImageOK
    <3>4. CoverOK'
      BY <2>3 DEF Pull, Finish, CursorOK, CoverOK
    <3>5. OutcomeOK'
      BY <2>3 DEF Pull, Finish, TypeOK, Locals, OutcomeOK
    <3>6. VerifiedOK'
      BY <2>3 DEF Pull, Finish, CursorOK, ImageOK, VerifiedOK
    <3>. QED BY <3>1, <3>2, <3>3, <3>4, <3>5, <3>6 DEF IInv
  <2>4. ASSUME NEW reply \in Replies, InspectNew(reply) PROVE IInv'
    <3>1. TypeOK'
      BY <2>4 DEF InspectNew, Finish, TypeOK, Locals, Outcomes, Pcs
    <3>2. CursorOK'
      BY <2>4 DEF InspectNew, Finish, TypeOK, Locals, CursorOK
    <3>3. ImageOK'
      BY <2>4 DEF InspectNew, Finish, TypeOK, Locals, ImageOK
    <3>4. CoverOK'
      BY <2>4 DEF InspectNew, Finish, CursorOK, CoverOK
    <3>5. OutcomeOK'
      BY <2>4 DEF InspectNew, Finish, TypeOK, Locals, OutcomeOK
    <3>6. VerifiedOK'
      BY <2>4 DEF InspectNew, Finish, CursorOK, ImageOK, VerifiedOK
    <3>. QED BY <3>1, <3>2, <3>3, <3>4, <3>5, <3>6 DEF IInv
  <2>5. ASSUME NEW reply \in Replies, Up(reply) PROVE IInv'
    <3>1. TypeOK'
      BY <2>5 DEF Up, ComposeUp, UpDone, UpPartial, TypeOK, Pcs
    <3>2. CursorOK'
      BY <2>5 DEF Up, CursorOK
    <3>3. ImageOK'
      BY <2>5 DEF Up, ComposeUp, UpDone, ImageOK
    <3>4. CoverOK'
      BY <2>5 DEF Up, CursorOK, CoverOK
    <3>5. OutcomeOK'
      BY <2>5 DEF Up, OutcomeOK
    <3>6. VerifiedOK'
      BY <2>5 DEF Up, CursorOK, VerifiedOK
    <3>. QED BY <3>1, <3>2, <3>3, <3>4, <3>5, <3>6 DEF IInv
  <2>6. ASSUME NEW reply \in Replies, Find(reply) PROVE IInv'
    <3>1. TypeOK'
      BY <2>6 DEF Find, TypeOK, Pcs
    <3>2. CursorOK'
      BY <2>6 DEF Find, CursorOK
    <3>3. ImageOK'
      BY <2>6 DEF Find, ImageOK
    <3>4. CoverOK'
      BY <2>6 DEF Find, CoverOK
    <3>5. OutcomeOK'
      BY <2>6 DEF Find, OutcomeOK
    <3>6. VerifiedOK'
      BY <2>6 DEF Find, VerifiedOK
    <3>. QED BY <3>1, <3>2, <3>3, <3>4, <3>5, <3>6 DEF IInv
  <2>7. ASSUME NEW reply \in Replies, RollbackTag(reply) PROVE IInv'
    <3>1. TypeOK'
      BY <2>7 DEF RollbackTag, Tag, Abandon, TypeOK, Locals, Outcomes, Pcs, CursorOK
    <3>2. CursorOK'
      BY <2>7 DEF RollbackTag, Abandon, CursorOK
    <3>3. ImageOK'
      BY <2>7 DEF RollbackTag, Tag, Abandon, ImageOK
    <3>4. CoverOK'
      BY <2>7 DEF RollbackTag, Tag, Abandon, CoverOK
    <3>5. OutcomeOK'
      BY <2>7 DEF RollbackTag, Abandon, TypeOK, Locals, OutcomeOK
    <3>6. VerifiedOK'
      BY <2>7 DEF RollbackTag, Tag, Abandon, VerifiedOK
    <3>. QED BY <3>1, <3>2, <3>3, <3>4, <3>5, <3>6 DEF IInv
  <2>8. ASSUME NEW reply \in Replies, RollbackUp(reply) PROVE IInv'
    <3>1. TypeOK'
      BY <2>8
         DEF RollbackUp, ComposeUp, UpDone, UpPartial, Finish, Abandon, TypeOK, Locals, Outcomes, Pcs
    <3>2. CursorOK'
      BY <2>8 DEF RollbackUp, Finish, Abandon, TypeOK, Locals, CursorOK
    <3>3. ImageOK'
      BY <2>8 DEF RollbackUp, Finish, Abandon, ImageOK
    <3>4. CoverOK'
      BY <2>8 DEF RollbackUp, ComposeUp, UpDone, Abandon, CursorOK, CoverOK
    <3>5. OutcomeOK'
      BY <2>8 DEF RollbackUp, ComposeUp, UpDone, Finish, Abandon, TypeOK, Locals, ImageOK, OutcomeOK
    <3>6. VerifiedOK'
      BY <2>8 DEF RollbackUp, ComposeUp, UpDone, Finish, Abandon, CursorOK, ImageOK, VerifiedOK
    <3>. QED BY <3>1, <3>2, <3>3, <3>4, <3>5, <3>6 DEF IInv
  <2>9. ASSUME NEW reply \in Replies, ReconcileTag(reply) PROVE IInv'
    <3>1. TypeOK'
      BY <2>9, NoUpdateType DEF ReconcileTag, Tag, Exit, TypeOK, CursorOK, Pcs
    <3>2. CursorOK'
      BY <2>9 DEF ReconcileTag, Exit, CursorOK
    <3>3. ImageOK'
      BY <2>9 DEF ReconcileTag, Tag, Exit, ImageOK
    <3>4. CoverOK'
      BY <2>9 DEF ReconcileTag, Tag, Exit, CoverOK
    <3>5. OutcomeOK'
      BY <2>9 DEF ReconcileTag, Exit, OutcomeOK
    <3>6. VerifiedOK'
      BY <2>9 DEF ReconcileTag, Tag, Exit, VerifiedOK
    <3>. QED BY <3>1, <3>2, <3>3, <3>4, <3>5, <3>6 DEF IInv
  <2>10. ASSUME NEW reply \in Replies, ReconcileUp(reply) PROVE IInv'
    <3>1. TypeOK'
      BY <2>10, NoUpdateType DEF ReconcileUp, ComposeUp, UpDone, UpPartial, Exit, TypeOK, Pcs
    <3>2. CursorOK'
      BY <2>10 DEF ReconcileUp, Exit, CursorOK
    <3>3. ImageOK'
      BY <2>10 DEF ReconcileUp, Exit, ImageOK
    <3>4. CoverOK'
      BY <2>10 DEF ReconcileUp, ComposeUp, UpDone, Exit, CursorOK, CoverOK
    <3>5. OutcomeOK'
      BY <2>10 DEF ReconcileUp, Exit, OutcomeOK
    <3>6. VerifiedOK'
      BY <2>10 DEF ReconcileUp, ComposeUp, UpDone, Exit, CursorOK, ImageOK, VerifiedOK
    <3>. QED BY <3>1, <3>2, <3>3, <3>4, <3>5, <3>6 DEF IInv
  <2>11. ASSUME NEW ok \in BOOLEAN, Verify(ok) PROVE IInv'
    <3>1. TypeOK'
      BY <2>11 DEF Verify, TypeOK, Pcs
    <3>2. CursorOK'
      BY <2>11 DEF Verify, CursorOK
    <3>3. ImageOK'
      BY <2>11 DEF Verify, ImageOK
    <3>4. CoverOK'
      BY <2>11 DEF Verify, CoverOK
    <3>5. OutcomeOK'
      BY <2>11 DEF Verify, OutcomeOK
    <3>6. VerifiedOK'
      BY <2>11 DEF Verify, VerifiedOK
    <3>. QED BY <3>1, <3>2, <3>3, <3>4, <3>5, <3>6 DEF IInv
  <2>12. ASSUME MarkVerified PROVE IInv'
    <3>1. TypeOK'
      BY <2>12 DEF MarkVerified, Finish, TypeOK, Rows, Locals, Outcomes, Pcs, StepNames, CursorOK
    <3>2. CursorOK'
      BY <2>12 DEF MarkVerified, Finish, CursorOK
    <3>3. ImageOK'
      BY <2>12 DEF MarkVerified, Finish, ImageOK
    <3>4. CoverOK'
      BY <2>12 DEF MarkVerified, ImageOK, CoverOK
    <3>5. OutcomeOK'
      BY <2>12 DEF MarkVerified, Finish, ImageOK, OutcomeOK
    <3>6. VerifiedOK'
      BY <2>12 DEF MarkVerified, Finish, TypeOK, CursorOK, ImageOK, VerifiedOK
    <3>. QED BY <3>1, <3>2, <3>3, <3>4, <3>5, <3>6 DEF IInv
  <2>13. ASSUME Close PROVE IInv'
    <3>1. TypeOK'
      <4>1. journal' \in [Entries -> Rows] /\ (\A k \in Open : journal[k].old \in Images)
        BY <2>13 DEF Close, TypeOK, Rows
      <4>2. \A k \in Open' : k \in Open /\ journal'[k].old = journal[k].old
        BY <2>13 DEF Close
      <4>. QED BY <2>13, <4>1, <4>2 DEF Close, TypeOK, Pcs
    <3>2. CursorOK'
      BY <2>13 DEF Close, CursorOK
    <3>3. ImageOK'
      BY <2>13 DEF Close, ImageOK
    <3>4. CoverOK'
      BY <2>13 DEF Close, CoverOK
    <3>5. OutcomeOK'
      BY <2>13 DEF Close, OutcomeOK
    <3>6. VerifiedOK'
      BY <2>13 DEF Close, TypeOK, CursorOK, VerifiedOK
    <3>. QED BY <3>1, <3>2, <3>3, <3>4, <3>5, <3>6 DEF IInv
  <2>14. ASSUME ProcessStarts PROVE IInv'
    <3>1. TypeOK'
      BY <2>14 DEF ProcessStarts, NoUpdate, Cursor, TypeOK, Locals, Outcomes, Pcs
    <3>2. CursorOK'
      BY <2>14 DEF ProcessStarts, CursorOK
    <3>3. ImageOK'
      BY <2>14 DEF ProcessStarts, ImageOK
    <3>4. CoverOK'
      BY <2>14 DEF ProcessStarts, CoverOK
    <3>5. OutcomeOK'
      BY <2>14 DEF ProcessStarts, NoUpdate, Cursor, OutcomeOK
    <3>6. VerifiedOK'
      BY <2>14 DEF ProcessStarts, VerifiedOK
    <3>. QED BY <3>1, <3>2, <3>3, <3>4, <3>5, <3>6 DEF IInv
  <2>15. ASSUME ReconcileNext PROVE IInv'
    <3>1. TypeOK'
      <4>1. \A j \in Entries : Cursor(j) \in Locals
        BY CursorType
      <4>. QED BY <2>15, <4>1 DEF ReconcileNext, TypeOK, Pcs
    <3>2. CursorOK'
      <4>1. \A j \in Entries : Cursor(j).jid = j
        BY CursorType
      <4>2. CASE Open = {}
        BY <2>15, <4>2 DEF ReconcileNext, CursorOK
      <4>3. ASSUME NEW j \in Open,
                   upd' = Cursor(j),
                   pc' = IF journal[j].step = "verified" THEN "rec_close" ELSE "rec_tag"
            PROVE  CursorOK'
        <5>1. upd'.jid = j /\ journal[j].step \in StepNames
          BY <4>1, <4>3 DEF TypeOK, Rows
        <5>. QED BY <2>15, <4>3, <5>1 DEF ReconcileNext, StepNames, CursorOK
      <4>. QED BY <2>15, <4>2, <4>3 DEF ReconcileNext
    <3>3. ImageOK'
      BY <2>15 DEF ReconcileNext, ImageOK
    <3>4. CoverOK'
      BY <2>15 DEF ReconcileNext, Cursor, CoverOK
    <3>5. OutcomeOK'
      BY <2>15 DEF ReconcileNext, OutcomeOK
    <3>6. VerifiedOK'
      BY <2>15 DEF ReconcileNext, VerifiedOK
    <3>. QED BY <3>1, <3>2, <3>3, <3>4, <3>5, <3>6 DEF IInv
  <2>16. ASSUME ReconcileClose PROVE IInv'
    <3>1. TypeOK'
      <4>1. journal' \in [Entries -> Rows] /\ (\A k \in Open : journal[k].old \in Images)
        BY <2>16 DEF ReconcileClose, TypeOK, Rows
      <4>2. \A k \in Open' : k \in Open /\ journal'[k].old = journal[k].old
        BY <2>16 DEF ReconcileClose
      <4>. QED BY <2>16, <4>1, <4>2, NoUpdateType DEF ReconcileClose, TypeOK, Pcs
    <3>2. CursorOK'
      BY <2>16 DEF ReconcileClose, CursorOK
    <3>3. ImageOK'
      BY <2>16 DEF ReconcileClose, ImageOK
    <3>4. CoverOK'
      BY <2>16 DEF ReconcileClose, CoverOK
    <3>5. OutcomeOK'
      BY <2>16 DEF ReconcileClose, NoUpdate, Cursor, OutcomeOK
    <3>6. VerifiedOK'
      BY <2>16 DEF ReconcileClose, VerifiedOK
    <3>. QED BY <3>1, <3>2, <3>3, <3>4, <3>5, <3>6 DEF IInv
  <2>17. ASSUME Crash PROVE IInv'
    <3>1. TypeOK'
      <4>1. crashes' \in 0..MaxCrashes
        BY <2>17 DEF Crash, TypeOK
      <4>. QED BY <2>17, <4>1, NoUpdateType DEF Crash, UpPartial, UpDone, TypeOK, Pcs
    <3>2. CursorOK'
      BY <2>17 DEF Crash, CursorOK
    <3>3. ImageOK'
      BY <2>17 DEF Crash, ImageOK
    <3>4. CoverOK'
      BY <2>17 DEF Crash, CursorOK, CoverOK
    <3>5. OutcomeOK'
      BY <2>17 DEF Crash, OutcomeOK
    <3>6. VerifiedOK'
      BY <2>17 DEF Crash, CursorOK, VerifiedOK
    <3>. QED BY <3>1, <3>2, <3>3, <3>4, <3>5, <3>6 DEF IInv
  <2>. QED
    BY <1>2, <2>1, <2>2, <2>3, <2>4, <2>5, <2>6, <2>7, <2>8, <2>9, <2>10, <2>11, <2>12, <2>13, <2>14, <2>15, <2>16, <2>17
       DEF Next, StartUpdate, Program, Call
<1>3. IInv /\ UNCHANGED vars => IInv'
  BY
     DEF IInv, TypeOK, CursorOK, ImageOK, CoverOK, OutcomeOK, VerifiedOK, vars, docker, history, Started, Open, entry
<1>. QED BY <1>1, <1>2, <1>3, PTL DEF Spec

\* Every variable keeps its type; the reference and every open entry name an image.
THEOREM TypeCorrect == Spec => []TypeOK
<1>1. IInv => TypeOK
  BY DEF IInv
<1>. QED BY Invariance, <1>1, PTL

\* The journal never loses a service that is down: for any faults of Docker and
\* compose and any crashes, a stopped service that should run has an open entry.
THEOREM DamageCovered == Spec => []DownIsCovered
<1>1. IInv => DownIsCovered
  BY DEF IInv, CoverOK, Started, DownIsCovered
<1>. QED BY Invariance, <1>1, PTL

\* What Update returns is true of Docker when it returns.
THEOREM OutcomesTrue == Spec => []OutcomeIsTrue
<1>1. IInv => OutcomeIsTrue
  BY DEF IInv, OutcomeOK, OutcomeIsTrue
<1>. QED BY Invariance, <1>1, PTL

\* While no rollback has failed, a repair keeps the image that was verified.
THEOREM VerifiedKept == Spec => CleanRepairKeepsVerified
<1>1. IInv /\ [Next]_vars => [~gaveUp => RepairKeepsVerified]_vars
  <2>. SUFFICES ASSUME IInv, Next, ~gaveUp, pc = "rec_up", image \in Images, image = verified
                PROVE  image' = image
    BY DEF RepairKeepsVerified
  <2>1. tag = image
    BY ImagesAssumption DEF IInv, TypeOK, CursorOK, ImageOK, VerifiedOK, Started, entry
  <2>2. ASSUME ComposeUpOutcome PROVE image' = image
    BY <2>1, <2>2 DEF ComposeUpOutcome, UpDone, UpPartial
  <2>3. ComposeUpOutcome
    BY DEF Next, OperatorToggles, StartUpdate, Begin, Program, Call, Pull, InspectNew, Up, Find,
           RollbackTag, RollbackUp, ReconcileTag, ReconcileUp, Verify, MarkVerified, Close,
           ProcessStarts, ReconcileNext, ReconcileClose, Crash, ComposeUp, ComposeUpOutcome
  <2>. QED BY <2>2, <2>3
<1>. QED BY Invariance, <1>1, PTL DEF Spec, CleanRepairKeepsVerified

-----------------------------------------------------------------------------
(* Refinement                                                              *)

\* What the contract needs beyond IInv: an update that closes its entry has an
\* outcome, "unchanged" is true of the image, and the repair has none to tell.
ReturnOK ==
    /\ pc = "close" => upd.outcome # "none"
    /\ pc = "close" /\ upd.outcome = "unchanged" => image = upd.old
    /\ pc = "rec_next" => upd.outcome = "none"

\* What Update returns, and when, holds in every state.
LEMMA ReturnInvariance == Spec => []ReturnOK
<1>1. Init => ReturnOK
  BY DEF Init, ReturnOK
<1>2. ASSUME IInv, ReturnOK, Next PROVE ReturnOK'
  <2>. USE <1>2 DEF IInv, ReturnOK, docker, history
  <2>1. ASSUME NEW reply \in Replies, Call(reply) PROVE ReturnOK'
    <3>1. ASSUME Pull(reply) PROVE ReturnOK'
      BY <3>1 DEF Pull, Finish, TypeOK, Locals
    <3>2. ASSUME InspectNew(reply) PROVE ReturnOK'
      BY <3>2 DEF InspectNew, Finish, TypeOK, Locals, ImageOK
    <3>3. ASSUME Up(reply) \/ Find(reply) \/ RollbackTag(reply) PROVE ReturnOK'
      BY <3>3 DEF Up, Find, RollbackTag, Abandon
    <3>4. ASSUME RollbackUp(reply) PROVE ReturnOK'
      BY <3>4 DEF RollbackUp, Finish, Abandon, TypeOK, Locals
    <3>5. ASSUME ReconcileTag(reply) \/ ReconcileUp(reply) PROVE ReturnOK'
      BY <3>5 DEF ReconcileTag, ReconcileUp, Exit
    <3>. QED BY <2>1, <3>1, <3>2, <3>3, <3>4, <3>5 DEF Call
  <2>2. ASSUME MarkVerified PROVE ReturnOK'
    BY <2>2 DEF MarkVerified, Finish, TypeOK, Locals
  <2>3. ASSUME ReconcileClose \/ ProcessStarts PROVE ReturnOK'
    BY <2>3 DEF ReconcileClose, ProcessStarts, NoUpdate, Cursor
  <2>. QED BY <2>1, <2>2, <2>3
     DEF Next, OperatorToggles, StartUpdate, Begin, Program, Verify, Close, ReconcileNext, Crash
<1>3. ReturnOK /\ UNCHANGED vars => ReturnOK'
  BY DEF ReturnOK, vars, docker, history
<1>. QED BY Invariance, <1>1, <1>2, <1>3, PTL DEF Spec

\* Where the process stands, as the contract sees it.
RepairPcs == {"down", "exited", "rec_next", "rec_tag", "rec_up", "rec_close"}

\* Closing an entry is the only step that makes the set of open entries smaller.
LEMMA SameOpen ==
    ASSUME UNCHANGED journal
    PROVE  Open' = Open
BY DEF Open

\* Compose.Update and Reconcile keep the contract of the adapters for any
\* images, faults and bounds: each of their steps is one of the contract or
\* changes nothing that it speaks of.
THEOREM ContractKept == Spec => KeepsContract
<1>1. Init => Contract!Init
  BY DEF Init, NoEntry, NoUpdate, Cursor, Open, Phase, Contract!Init
<1>2. ASSUME IInv, IInv', ReturnOK, [Next]_vars PROVE [Contract!Next]_(Contract!vars)
  <2>1. DownIsCovered' /\ image' \in Images \cup {None} /\ up' \in BOOLEAN
    BY <1>2 DEF IInv, TypeOK, CoverOK, Started, DownIsCovered
  <2>2. ASSUME OperatorToggles PROVE Contract!OperatorToggles
    BY <2>2, SameOpen
       DEF OperatorToggles, NoUpdate, Cursor, Phase, Contract!OperatorToggles
  <2>3. ASSUME NEW j \in Entries, NEW skipPull \in BOOLEAN, NEW i \in Images, Begin(j, skipPull, i)
        PROVE  Contract!Begin
    <3>1. j \in Open'
      BY <1>2, <2>3 DEF Begin, Open, IInv, TypeOK
    <3>2. pc' \in {"inspect", "pull"}
      BY <2>3 DEF Begin
    <3>. QED BY <2>3, <3>1, <3>2 DEF Begin, history, Phase, Contract!Begin
  <2>4. ASSUME pc \notin RepairPcs \cup {"idle"}, pc' \notin RepairPcs \cup {"idle"},
               Open' = Open, upd'.old = upd.old, wanted' = wanted
        PROVE  Contract!Work
    BY <2>1, <2>4 DEF RepairPcs, Phase, Contract!Work
  <2>5. ASSUME NEW o \in Contract!Outcomes,
               pc \notin RepairPcs \cup {"idle"}, pc' = "idle", upd'.outcome = o, wanted' = wanted,
               o = "ok" => image' # upd.old /\ image' # None,
               o \in {"unchanged", "rolled_back"} => image' = upd.old,
               o \in {"ok", "rolled_back"} => (wanted => up')
        PROVE  Contract!Return(o)
    <3>1. Phase = "updating" /\ Phase' = "idle"
      BY <2>5 DEF RepairPcs, Phase
    <3>2. Contract!Truth(o, image')
      BY <2>5, <3>1 DEF Contract!Truth, Contract!Outcomes
    <3>. QED BY <2>1, <2>5, <3>1, <3>2 DEF DownIsCovered, Contract!Return, Contract!Covered
  <2>6. ASSUME pc \in RepairPcs, pc' \in RepairPcs, wanted' = wanted,
               Open' \subseteq Open
        PROVE  Contract!Repair
    <3>1. Phase = "repairing" /\ Phase' = "repairing" /\ pc # "idle" /\ pc' # "idle"
      BY <2>6 DEF RepairPcs, Phase
    <3>. QED BY <2>1, <2>6, <3>1 DEF DownIsCovered, Contract!Repair, Contract!Covered
  <2>7. ASSUME NEW reply \in Replies, Call(reply) PROVE [Contract!Next]_(Contract!vars)
    <3>1. CASE Pull(reply) \/ InspectNew(reply) \/ Up(reply) \/ Find(reply)
      <4>1. /\ pc \notin RepairPcs \cup {"idle"} /\ pc' \notin RepairPcs \cup {"idle"}
            /\ upd'.old = upd.old /\ wanted' = wanted /\ Open' = Open
        BY <1>2, <3>1, SameOpen
           DEF Pull, InspectNew, Up, Find, Finish, IInv, TypeOK, Locals, RepairPcs, history
      <4>. QED BY <2>4, <4>1 DEF Contract!Next
    <3>2. CASE (RollbackTag(reply) \/ RollbackUp(reply)) /\ pc' # "idle"
      <4>1. /\ pc \notin RepairPcs \cup {"idle"} /\ pc' \notin RepairPcs \cup {"idle"}
            /\ upd'.old = upd.old /\ wanted' = wanted /\ Open' = Open
        BY <1>2, <3>2, SameOpen
           DEF RollbackTag, RollbackUp, Finish, Abandon, IInv, TypeOK, Locals, RepairPcs, history
      <4>. QED BY <2>4, <4>1 DEF Contract!Next
    <3>3. CASE (RollbackTag(reply) \/ RollbackUp(reply)) /\ pc' = "idle"
      <4>1. /\ pc \notin RepairPcs \cup {"idle"}
            /\ upd'.outcome = "failed" /\ wanted' = wanted
        BY <1>2, <3>3
           DEF RollbackTag, RollbackUp, Finish, Abandon, IInv, TypeOK, Locals, RepairPcs, history
      <4>2. Contract!Return("failed")
        BY <2>5, <3>3, <4>1 DEF Contract!Outcomes
      <4>. QED BY <4>2 DEF Contract!Next, Contract!Outcomes
    <3>4. CASE ReconcileTag(reply) \/ ReconcileUp(reply)
      <4>1. pc \in RepairPcs /\ pc' \in RepairPcs /\ wanted' = wanted /\ Open' = Open
        BY <3>4, SameOpen DEF ReconcileTag, ReconcileUp, Exit, RepairPcs, history
      <4>. QED BY <2>6, <4>1 DEF Contract!Next
    <3>. QED BY <2>7, <3>1, <3>2, <3>3, <3>4 DEF Call
  <2>8. ASSUME NEW ok \in BOOLEAN, Verify(ok) PROVE Contract!Work
    BY <2>4, <2>8, SameOpen DEF Verify, RepairPcs, history
  <2>9. ASSUME MarkVerified PROVE Contract!Work
    <3>1. Open' = Open
      BY <1>2, <2>9 DEF MarkVerified, Open, IInv, TypeOK
    <3>. QED BY <1>2, <2>4, <2>9, <3>1 DEF MarkVerified, Finish, IInv, TypeOK, Locals, RepairPcs
  <2>10. ASSUME Close PROVE Contract!Next
    <3>1. upd.outcome \in Contract!Outcomes
      BY <1>2, <2>10
         DEF Close, ReturnOK, IInv, TypeOK, Locals, Outcomes, Contract!Outcomes
    <3>2. upd.outcome = "ok" => up /\ image # upd.old /\ image # None
      BY <1>2, <2>10, ImagesAssumption DEF Close, IInv, TypeOK, OutcomeOK
    <3>3. upd.outcome \in {"unchanged", "rolled_back"} => image = upd.old
      BY <1>2, <2>10 DEF Close, ReturnOK, IInv, OutcomeOK
    <3>4. Contract!Return(upd.outcome)
      BY <1>2, <2>5, <2>10, <3>1, <3>2, <3>3 DEF Close, IInv, OutcomeOK, RepairPcs, docker, history
    <3>. QED BY <3>1, <3>4 DEF Contract!Next
  <2>11. ASSUME ProcessStarts PROVE Contract!Repair
    BY <2>6, <2>11, SameOpen DEF ProcessStarts, RepairPcs, history
  <2>12. ASSUME ReconcileNext PROVE Contract!Next
    <3>1. CASE pc' \in RepairPcs
      BY <2>6, <2>12, <3>1, SameOpen DEF ReconcileNext, RepairPcs, history, Contract!Next
    <3>2. CASE pc' \notin RepairPcs
      <4>1. Open = {} /\ pc = "rec_next" /\ pc' = "idle" /\ UNCHANGED <<docker, journal, upd, history>>
        BY <2>12, <3>2 DEF ReconcileNext, RepairPcs
      <4>2. Contract!ServeAgain
        BY <1>2, <4>1, SameOpen
           DEF IInv, CoverOK, Started, ReturnOK, docker, history, Phase, Contract!ServeAgain
      <4>. QED BY <4>2 DEF Contract!Next
    <3>. QED BY <3>1, <3>2
  <2>13. ASSUME ReconcileClose PROVE Contract!Repair
    <3>1. Open' \subseteq Open
      BY <1>2, <2>13 DEF ReconcileClose, Open, IInv, TypeOK
    <3>. QED BY <2>6, <2>13, <3>1 DEF ReconcileClose, RepairPcs, history
  <2>14. ASSUME Crash PROVE Contract!Die
    <3>1. Phase' = "repairing" /\ Open' = Open
      BY <2>14, SameOpen DEF Crash, Phase
    <3>2. Phase = "idle" => UNCHANGED <<image, up>>
      BY <2>14 DEF Crash, Phase
    <3>. QED BY <2>1, <2>14, <3>1, <3>2 DEF Crash, Contract!Die
  <2>15. CASE UNCHANGED vars
    BY <2>15, SameOpen DEF vars, docker, history, Phase, Contract!vars
  <2>. QED
    BY <1>2, <2>2, <2>3, <2>7, <2>8, <2>9, <2>10, <2>11, <2>12, <2>13, <2>14, <2>15
       DEF Next, StartUpdate, Program, Contract!Next
<1>. QED BY Invariance, ReturnInvariance, <1>1, <1>2, PTL DEF Spec, KeepsContract, Contract!Spec

-----------------------------------------------------------------------------
(* Every update and every repair comes to an end.                           *)

\* How far an update is from its end at most: the rollback comes after every
\* step that can lead to it.
UpdateRank ==
    CASE pc = "pull"    -> 8
      [] pc = "inspect" -> 7
      [] pc = "up"      -> 6
      [] pc = "find"    -> 5
      [] pc = "verify"  -> 4
      [] pc \in {"mark_verified", "rb_tag"} -> 3
      [] pc = "rb_up"   -> 2
      [] pc = "close"   -> 1
      [] OTHER          -> 0

\* How far a repair is from the end of the entry at hand.
RepairRank ==
    CASE pc = "rec_next"  -> 4
      [] pc = "rec_tag"   -> 3
      [] pc = "rec_up"    -> 2
      [] pc = "rec_close" -> 1
      [] OTHER            -> 0

\* The steps that are left at most, until the process waits or has given up.
StepsLeft ==
    IF pc \in {"rec_next"} \cup Repairing THEN 4 * Cardinality(Open) + RepairRank ELSE UpdateRank

\* Whatever the process is in the middle of, its own steps bring it closer to the end.
OwnStepsEnd == [][Program /\ pc \notin {"down", "exited"} => StepsLeft' < StepsLeft]_vars

\* No more entries can be open than there are.
LEMMA FewOpen ==
    IsFiniteSet(Open) /\ Cardinality(Open) \in Nat /\ Cardinality(Open) <= MaxUpdates
<1>1. Cardinality(Entries) = MaxUpdates /\ IsFiniteSet(Entries)
  BY FS_Interval, BoundsAssumption DEF Entries
<1>2. Open \in SUBSET Entries
  BY DEF Open
<1>. QED BY <1>1, <1>2, FS_Subset, FS_CardinalityType

\* Closing an open entry leaves one open entry less.
LEMMA OneLess ==
    ASSUME NEW j \in Open, journal \in [Entries -> Rows],
           journal' = [journal EXCEPT ![j].closed = TRUE]
    PROVE  Cardinality(Open') = Cardinality(Open) - 1
<1>1. IsFiniteSet(Open)
  BY FewOpen
<1>2. Open' = Open \ {j}
  BY DEF Open, Rows
<1>. QED BY <1>1, <1>2, FS_RemoveElement

\* There are no more steps left than four for each entry and those of an update.
LEMMA StepsBounded == StepsLeft \in 0 .. 4 * MaxUpdates + 8
<1>1. UpdateRank \in 0..8
  BY DEF UpdateRank
<1>2. RepairRank \in 0..4
  BY DEF RepairRank
<1>. QED BY <1>1, <1>2, FewOpen, BoundsAssumption DEF StepsLeft

\* An update, its rollback and a repair cannot go on for ever, whichever calls
\* fail: each step the process takes by itself, from the pull or the first open
\* entry on, brings it closer to its return, of which it is never more than
\* 4 * MaxUpdates + 8 steps away.
THEOREM UpdatesEnd == Spec => OwnStepsEnd /\ [](StepsLeft \in 0 .. 4 * MaxUpdates + 8)
<1>1. ASSUME IInv, Program, pc \notin {"down", "exited"} PROVE StepsLeft' < StepsLeft
  <2>1. Cardinality(Open) \in Nat
    BY FewOpen
  <2>. USE DEF StepsLeft, UpdateRank, RepairRank, Repairing
  <2>2. ASSUME NEW reply \in Replies, Call(reply) PROVE StepsLeft' < StepsLeft
    <3>1. Open' = Open
      BY <2>2 DEF Call, Open, Pull, InspectNew, Up, Find, RollbackTag, RollbackUp, ReconcileTag, ReconcileUp, docker
    <3>2. CASE Pull(reply)
      BY <3>2 DEF Pull, Finish
    <3>3. CASE InspectNew(reply)
      BY <3>3 DEF InspectNew, Finish
    <3>4. CASE Up(reply)
      BY <3>4 DEF Up
    <3>5. CASE Find(reply)
      BY <3>5 DEF Find
    <3>6. CASE RollbackTag(reply)
      BY <3>6 DEF RollbackTag, Abandon
    <3>7. CASE RollbackUp(reply)
      BY <3>7 DEF RollbackUp, Finish, Abandon
    <3>8. CASE ReconcileTag(reply)
      BY <2>1, <3>1, <3>8 DEF ReconcileTag, Exit
    <3>9. CASE ReconcileUp(reply)
      BY <2>1, <3>1, <3>9 DEF ReconcileUp, Exit
    <3>. QED BY <2>2, <3>2, <3>3, <3>4, <3>5, <3>6, <3>7, <3>8, <3>9 DEF Call
  <2>3. ASSUME NEW ok \in BOOLEAN, Verify(ok) PROVE StepsLeft' < StepsLeft
    BY <2>3 DEF Verify
  <2>4. CASE MarkVerified
    BY <2>4 DEF MarkVerified, Finish
  <2>5. CASE Close
    BY <2>5 DEF Close
  <2>6. CASE ReconcileNext
    <3>1. Open' = Open
      BY <2>6 DEF ReconcileNext, Open
    <3>. QED BY <2>1, <2>6, <3>1 DEF ReconcileNext
  <2>7. CASE ReconcileClose
    <3>1. upd.jid \in Open /\ journal \in [Entries -> Rows]
      BY <1>1, <2>7 DEF IInv, CursorOK, TypeOK, ReconcileClose
    <3>2. Cardinality(Open') = Cardinality(Open) - 1
      BY <2>7, <3>1, OneLess DEF ReconcileClose
    <3>. QED BY <2>1, <2>7, <3>2 DEF ReconcileClose
  <2>8. CASE ProcessStarts
    BY <1>1, <2>8 DEF ProcessStarts
  <2>. QED BY <1>1, <2>2, <2>3, <2>4, <2>5, <2>6, <2>7, <2>8 DEF Program
<1>2. Spec => [](StepsLeft \in 0 .. 4 * MaxUpdates + 8)
  BY StepsBounded, PTL
<1>. QED BY <1>1, <1>2, Invariance, PTL DEF Spec, OwnStepsEnd
=============================================================================
