---------------------------- MODULE PartsProofs ----------------------------
(***************************************************************************)
(* Theorems about Serve, Notifiers, Verify and Notes, and about the        *)
(* components of MCParts side by side, for any values of their constants.  *)
(***************************************************************************)
EXTENDS MCParts, RetentionProofs, AccountsProofs, SettingsProofs, TLAPS

-----------------------------------------------------------------------------
(* Notifiers                                                               *)

\* The history variables know of every notifier there ever was.
WasTyped ==
    /\ \A i \in NotifierIds : notifier[i].there => typed[i] # Mask
    /\ \A e \in Editors : edit[e] # NoEdit => typed[edit[e].id] # Mask

\* An update that is under way keeps the secret last typed, or it was under way
\* when that secret was saved.
KeepsLastTyped ==
    \A e \in Editors : edit[e] # NoEdit =>
      edit[e].kept = typed[edit[e].id] \/ edit[e].id \in crossed

EditsInv == NotifiersTypeOK /\ WasTyped /\ KeepsLastTyped /\ SecretIsLastTyped

\* Who is still to be told is on the list that the dispatcher works on, or will
\* be on the next one.
ToldInv ==
    /\ sending.step = "idle" => untold = {}
    /\ sending.step = "notifiers" => untold \subseteq sending.left \cup subs
    /\ sending.step = "subs" => untold \subseteq sending.left

\* A row and an edit are told from their absence by their fields.
LEMMA RowsAndEdits ==
    /\ \A row \in NotifierRows : row.there /\ row.secret \in Secrets /\ row.enabled \in BOOLEAN
    /\ ~Absent.there
    /\ \A s \in Secrets, b \in BOOLEAN : Row(s, b) \in NotifierRows /\ Row(s, b).secret = s /\ Row(s, b).there
    /\ \A ed \in Edits : ed.id \in NotifierIds /\ ed.kept \in Secrets
    /\ \A i \in NotifierIds, s \in Secrets : [id |-> i, kept |-> s] \in Edits
BY DEF NotifierRows, Absent, Row, Edits

\* At the start there is nothing, and nobody to be told.
LEMMA NotifiersInitHolds == NotifiersInit => EditsInv /\ ToldInv
BY MaskAssumption, RowsAndEdits
   DEF NotifiersInit, EditsInv, ToldInv, NotifiersTypeOK, WasTyped, KeepsLastTyped,
       SecretIsLastTyped, Idle

\* No handler and no step of the dispatcher takes a secret from a notifier that
\* was not typed for it last, unless an update was under way when it was saved.
LEMMA EditsKept == EditsInv /\ [NotifiersNext]_notifiersVars => EditsInv'
<1> SUFFICES ASSUME EditsInv, [NotifiersNext]_notifiersVars
             PROVE  EditsInv'
  OBVIOUS
<1>. USE MaskAssumption, RowsAndEdits DEF EditsInv, tables
<1>1. ASSUME NEW i \in NotifierIds, NEW s \in Secrets, NEW enabled \in BOOLEAN, CreateNotifier(i, s, enabled)
      PROVE  EditsInv'
  <2>. USE <1>1 DEF CreateNotifier
  <2>1. NotifiersTypeOK'
    BY DEF NotifiersTypeOK
  <2>2. /\ notifier'[i] = Row(s, enabled) /\ typed'[i] = s
        /\ \A j \in NotifierIds \ {i} : notifier'[j] = notifier[j] /\ typed'[j] = typed[j]
    BY DEF NotifiersTypeOK
  <2>3. \A e \in Editors : edit[e] # NoEdit => edit[e].id \in NotifierIds \ {i}
    BY DEF WasTyped, NotifiersTypeOK
  <2>. QED BY <2>1, <2>2, <2>3 DEF WasTyped, KeepsLastTyped, SecretIsLastTyped
<1>2. ASSUME NEW e \in Editors, NEW i \in NotifierIds, BeginEdit(e, i)
      PROVE  EditsInv'
  <2>. USE <1>2 DEF BeginEdit
  <2>1. notifier[i].secret \in Secrets
    BY DEF NotifiersTypeOK
  <2>2. NotifiersTypeOK'
    BY <2>1 DEF NotifiersTypeOK
  <2>3. /\ edit'[e].id = i /\ edit'[e].kept = notifier[i].secret
        /\ \A f \in Editors \ {e} : edit'[f] = edit[f]
    BY DEF NotifiersTypeOK
  <2>. QED BY <2>2, <2>3 DEF WasTyped, KeepsLastTyped, SecretIsLastTyped
<1>3. ASSUME NEW e \in Editors, NEW s \in Secrets \cup {Mask}, NEW enabled \in BOOLEAN,
             SaveEdit(e, s, enabled)
      PROVE  EditsInv'
  <2>. USE <1>3 DEF SaveEdit, Write
  <2>. DEFINE i == edit[e].id
  <2>1. i \in NotifierIds /\ edit[e].kept \in Secrets
    BY DEF NotifiersTypeOK
  <2>2. KeptOrTyped(e, s) \in Secrets
    BY <2>1 DEF KeptOrTyped
  <2>3. /\ notifier'[i] = Row(KeptOrTyped(e, s), enabled)
        /\ \A j \in NotifierIds \ {i} : notifier'[j] = notifier[j]
        /\ \A j \in NotifierIds \ {i} : typed'[j] = typed[j] /\ (j \in crossed' <=> j \in crossed)
        /\ edit'[e] = NoEdit /\ \A f \in Editors \ {e} : edit'[f] = edit[f]
    BY <2>1 DEF NotifiersTypeOK
  <2>4. NotifiersTypeOK'
    <3>1. typed' \in [NotifierIds -> Secrets \cup {Mask}] /\ crossed' \subseteq NotifierIds
      <4>1. CASE s = Mask
        BY <4>1 DEF NotifiersTypeOK
      <4>2. CASE s # Mask
        <5>1. typed' = [typed EXCEPT ![i] = s] /\ crossed' \subseteq crossed \cup {i}
          BY <4>2
        <5>. QED BY <2>1, <4>2, <5>1 DEF NotifiersTypeOK
      <4>. QED BY <4>1, <4>2
    <3>2. notifier' \in [NotifierIds -> NotifierRows \cup {Absent}] /\ edit' \in [Editors -> Edits \cup {NoEdit}]
      BY <2>1, <2>2 DEF NotifiersTypeOK
    <3>. QED BY <3>1, <3>2 DEF NotifiersTypeOK
  <2>5. CASE s = Mask
    <3>1. KeptOrTyped(e, s) = edit[e].kept /\ typed' = typed /\ crossed' = crossed
      BY <2>5 DEF KeptOrTyped
    <3>. QED BY <2>1, <2>2, <2>3, <2>4, <3>1 DEF WasTyped, KeepsLastTyped, SecretIsLastTyped
  <2>6. CASE s # Mask
    <3>1. KeptOrTyped(e, s) = s /\ typed'[i] = s
      BY <2>1, <2>6 DEF KeptOrTyped, NotifiersTypeOK
    <3>2. \A f \in Editors : edit'[f] # NoEdit /\ edit'[f].id = i => i \in crossed'
      BY <2>1, <2>3, <2>6
    <3>3. WasTyped'
      BY <2>1, <2>3, <2>6, <3>1 DEF WasTyped, NotifiersTypeOK
    <3>4. KeepsLastTyped'
      <4>. SUFFICES ASSUME NEW f \in Editors, edit'[f] # NoEdit
                    PROVE  edit'[f].kept = typed'[edit'[f].id] \/ edit'[f].id \in crossed'
        BY DEF KeepsLastTyped
      <4>1. f # e /\ edit'[f] = edit[f] /\ edit[f].id \in NotifierIds
        BY <2>3 DEF NotifiersTypeOK
      <4>. QED BY <2>3, <3>2, <4>1 DEF KeepsLastTyped
    <3>5. SecretIsLastTyped'
      BY <2>1, <2>2, <2>3, <3>1 DEF SecretIsLastTyped
    <3>. QED BY <2>4, <3>3, <3>4, <3>5
  <2>. QED BY <2>5, <2>6
<1>4. ASSUME NEW e \in Editors, EditFails(e)
      PROVE  EditsInv'
  BY <1>4 DEF EditFails, NotifiersTypeOK, WasTyped, KeepsLastTyped, SecretIsLastTyped
<1>5. ASSUME NEW i \in NotifierIds, DeleteNotifier(i)
      PROVE  EditsInv'
  BY <1>5 DEF DeleteNotifier, NotifiersTypeOK, WasTyped, KeepsLastTyped, SecretIsLastTyped
<1>6. ASSUME UNCHANGED <<notifier, edit, typed, crossed>>, NotifiersTypeOK'
      PROVE  EditsInv'
  BY <1>6 DEF WasTyped, KeepsLastTyped, SecretIsLastTyped
<1>7. ASSUME NEW p \in Endpoints, Subscribe(p) \/ Unsubscribe(p) \/ BrowserGone(p)
                                       \/ TestPush(p) \/ RemoveTested(p)
      PROVE  EditsInv'
  BY <1>6, <1>7 DEF Subscribe, Unsubscribe, TestPush, RemoveTested, BrowserGone, NotifiersTypeOK
<1>8. CASE BeginNotify
  <2>1. Enabled \subseteq NotifierIds
    BY DEF Enabled
  <2>. QED BY <1>6, <1>8, <2>1 DEF BeginNotify, Idle, NotifiersTypeOK
<1>9. CASE Dispatch
  <2>1. ASSUME NEW i \in NotifierIds, SendNotifier(i) PROVE EditsInv'
    BY <1>6, <2>1 DEF SendNotifier, NotifiersTypeOK
  <2>2. CASE ListSubs
    BY <1>6, <2>2 DEF ListSubs, NotifiersTypeOK
  <2>3. CASE EndNotify
    BY <1>6, <2>3 DEF EndNotify, Idle, NotifiersTypeOK
  <2>4. ASSUME NEW p \in Endpoints, SendPush(p) PROVE EditsInv'
    BY <1>6, <2>4 DEF SendPush, NotifiersTypeOK
  <2>5. ASSUME NEW p \in Endpoints, RemoveSub(p) PROVE EditsInv'
    BY <1>6, <2>5 DEF RemoveSub, NotifiersTypeOK
  <2>. QED BY <1>9, <2>1, <2>2, <2>3, <2>4, <2>5 DEF Dispatch
<1>10. CASE UNCHANGED notifiersVars
  BY <1>6, <1>10 DEF notifiersVars, NotifiersTypeOK
<1>. QED BY <1>1, <1>2, <1>3, <1>4, <1>5, <1>7, <1>8, <1>9, <1>10 DEF NotifiersNext

\* Whoever is deleted or unsubscribes need not be told; everybody else stays on
\* a list until it is its turn.
LEMMA ToldKept == EditsInv /\ ToldInv /\ [NotifiersNext]_notifiersVars => ToldInv'
<1> SUFFICES ASSUME NotifiersTypeOK, ToldInv, [NotifiersNext]_notifiersVars
             PROVE  ToldInv'
  BY DEF EditsInv
<1>. USE DEF ToldInv, tables
<1>1. CASE UNCHANGED <<subs, sending, untold>>
  BY <1>1
<1>2. ASSUME NEW i \in NotifierIds, DeleteNotifier(i)
      PROVE  ToldInv'
  BY <1>2 DEF DeleteNotifier
<1>3. ASSUME NEW p \in Endpoints, Subscribe(p) \/ Unsubscribe(p) \/ TestPush(p) \/ RemoveTested(p)
      PROVE  ToldInv'
  BY <1>3 DEF Subscribe, Unsubscribe, TestPush, RemoveTested
<1>4. CASE BeginNotify
  BY <1>4 DEF BeginNotify, Idle
<1>5. ASSUME NEW i \in NotifierIds, SendNotifier(i)
      PROVE  ToldInv'
  BY <1>5 DEF SendNotifier, NotifiersTypeOK
<1>6. CASE ListSubs
  BY <1>6 DEF ListSubs, NotifiersTypeOK
<1>7. CASE EndNotify
  BY <1>7 DEF EndNotify, Idle
<1>8. ASSUME NEW p \in Endpoints, SendPush(p)
      PROVE  ToldInv'
  BY <1>8 DEF SendPush, NotifiersTypeOK
<1>9. ASSUME NEW p \in Endpoints, RemoveSub(p)
      PROVE  ToldInv'
  BY <1>9 DEF RemoveSub, NotifiersTypeOK
<1>. QED BY <1>1, <1>2, <1>3, <1>4, <1>5, <1>6, <1>7, <1>8, <1>9
         DEF NotifiersNext, notifiersVars, Dispatch, CreateNotifier, BeginEdit, SaveEdit, Write,
             EditFails, BrowserGone

\* The variables keep to their types.
THEOREM NotifiersTypeCorrect == NotifiersSpec => []NotifiersTypeOK
<1>1. EditsInv => NotifiersTypeOK
  BY DEF EditsInv
<1>. QED BY <1>1, NotifiersInitHolds, EditsKept, PTL DEF NotifiersSpec

\* However many edits of however many browsers overlap, a notifier has the secret
\* typed last, unless one of them was under way when that secret was saved.
THEOREM SecretStays == NotifiersSpec => []SecretIsLastTyped
<1>1. EditsInv => SecretIsLastTyped
  BY DEF EditsInv
<1>. QED BY <1>1, NotifiersInitHolds, EditsKept, PTL DEF NotifiersSpec

\* Whatever fails and whoever comes and goes meanwhile, the round of an event
\* leaves out nobody who was there when it came and still is.
THEOREM AllTold == NotifiersSpec => []EveryoneTold
<1>1. ToldInv => EveryoneTold
  BY DEF ToldInv, EveryoneTold, Idle
<1>. QED BY <1>1, NotifiersInitHolds, EditsKept, ToldKept, PTL DEF NotifiersSpec

\* No update that is under way brings a deleted notifier back.
THEOREM DeletedForGood == NotifiersSpec => DeletedStaysDeleted
<1>1. ASSUME EditsInv, [NotifiersNext]_notifiersVars,
             NEW i \in NotifierIds, typed[i] # Mask, ~notifier[i].there
      PROVE  ~notifier'[i].there
  <2>. USE <1>1 DEF tables
  <2>1. ASSUME NEW j \in NotifierIds, NEW s \in Secrets, NEW enabled \in BOOLEAN, CreateNotifier(j, s, enabled)
        PROVE  notifier'[i] = notifier[i]
    BY <2>1 DEF CreateNotifier, EditsInv, NotifiersTypeOK
  <2>2. ASSUME NEW e \in Editors, NEW s \in Secrets \cup {Mask}, NEW enabled \in BOOLEAN,
               SaveEdit(e, s, enabled)
        PROVE  notifier'[i] = notifier[i]
    BY <2>2 DEF SaveEdit, Write, EditsInv, NotifiersTypeOK
  <2>3. ASSUME NEW j \in NotifierIds, DeleteNotifier(j)
        PROVE  ~notifier'[i].there
    BY <2>3, RowsAndEdits DEF DeleteNotifier, EditsInv, NotifiersTypeOK
  <2>4. ASSUME NEW e \in Editors, (\E j \in NotifierIds : BeginEdit(e, j)) \/ EditFails(e)
        PROVE  notifier' = notifier
    BY <2>4 DEF BeginEdit, EditFails
  <2>5. ASSUME NEW p \in Endpoints, Subscribe(p) \/ Unsubscribe(p) \/ BrowserGone(p)
                                       \/ TestPush(p) \/ RemoveTested(p)
        PROVE  notifier' = notifier
    BY <2>5 DEF Subscribe, Unsubscribe, TestPush, RemoveTested, BrowserGone
  <2>6. ASSUME BeginNotify \/ Dispatch
        PROVE  notifier' = notifier
    <3>1. CASE BeginNotify \/ ListSubs \/ EndNotify
      BY <3>1 DEF BeginNotify, ListSubs, EndNotify
    <3>2. ASSUME NEW j \in NotifierIds, SendNotifier(j) PROVE notifier' = notifier
      BY <3>2 DEF SendNotifier
    <3>3. ASSUME NEW p \in Endpoints, SendPush(p) \/ RemoveSub(p) PROVE notifier' = notifier
      BY <3>3 DEF SendPush, RemoveSub
    <3>. QED BY <2>6, <3>1, <3>2, <3>3 DEF Dispatch
  <2>. QED BY <2>1, <2>2, <2>3, <2>4, <2>5, <2>6 DEF NotifiersNext, notifiersVars
<1>2. EditsInv /\ [NotifiersNext]_notifiersVars =>
        [\A i \in NotifierIds : typed[i] # Mask /\ ~notifier[i].there => ~notifier'[i].there]_notifiersVars
  BY <1>1
<1>. QED BY <1>2, NotifiersInitHolds, EditsKept, PTL DEF NotifiersSpec, DeletedStaysDeleted

-----------------------------------------------------------------------------
(* Verify                                                                  *)

\* Sleep begins only within the window, so a poll begins at most one interval
\* after its end and takes no longer than its call.
PollsInTime ==
    /\ polling = "idle" => spent = 0 /\ calling = 0
    /\ polling = "inspect" => spent <= window + 1 + calling
    /\ polling \in {"judge", "sleep", "http", "done"} => calling = 0
    /\ polling = "sleep" => spent <= window

PollInv == VerifyTypeOK /\ PollsInTime /\ VerdictInTime

\* The verifier has spent no time when it begins.
LEMMA VerifyInitHolds == VerifyInit => PollInv
<1> SUFFICES ASSUME VerifyInit PROVE PollInv
  OBVIOUS
<1>1. BaseWindow \in Nat /\ 0 \in 0..MaxDeaths /\ 0 \in 0..Slack
  BY VerifyAssumption
<1>2. seen \in [status : Statuses, health : Healths, restarts : 0..MaxDeaths]
  BY <1>1 DEF VerifyInit, Unseen, Statuses, Healths
<1>3. VerifyTypeOK
  BY <1>1, <1>2, VerifyAssumption DEF VerifyInit, VerifyTypeOK, Statuses, Healths
<1>4. PollsInTime /\ VerdictInTime
  BY <1>1, VerifyAssumption DEF VerifyInit, PollsInTime, VerdictInTime
<1>. QED BY <1>3, <1>4 DEF PollInv

\* Neither the container nor a slow call makes the verifier poll on after its
\* window.
LEMMA PollsKept == PollInv /\ [VerifyNext]_verifyVars => PollInv'
<1> SUFFICES ASSUME PollInv, [VerifyNext]_verifyVars
             PROVE  PollInv'
  OBVIOUS
<1>. USE VerifyAssumption DEF PollInv, PollsInTime, VerdictInTime, container
<1>1. ASSUME NEW w \in Windows \cup {0}, NEW hasUrl \in BOOLEAN, BeginVerify(w, hasUrl)
      PROVE  PollInv'
  BY <1>1 DEF BeginVerify, Verdict, VerifyTypeOK
<1>2. CASE ContainerStep
  <2>1. /\ status' \in Statuses /\ health' \in Healths
        /\ deaths' \in 0..MaxDeaths /\ policy' \in BOOLEAN
    BY <1>2 DEF ContainerStep, ContainerRuns, ContainerEnds, HealthDecides, VerifyTypeOK, Statuses, Healths
  <2>. QED BY <1>2, <2>1 DEF ContainerStep, VerifyTypeOK
<1>3. CASE CallTakesTime
  BY <1>3 DEF CallTakesTime, VerifyTypeOK
<1>4. CASE Inspect
  BY <1>4 DEF Inspect, Verdict, View, VerifyTypeOK
<1>5. CASE Judge
  <2>1. \/ polling' \in {"http", "done"} /\ verdict' \in {"none", "ok", "fail"}
        \/ polling' = "sleep" /\ verdict' = verdict /\ ~(spent > window)
    <3>1. CASE Rejected
      BY <1>5, <3>1 DEF Judge, Verdict
    <3>2. CASE ~Rejected /\ seen.health = "healthy"
      BY <1>5, <3>2 DEF Judge, Verdict, Accepts, VerifyTypeOK
    <3>3. CASE ~Rejected /\ seen.health # "healthy" /\ spent > window
      BY <1>5, <3>3 DEF Judge, Verdict, Accepts, VerifyTypeOK
    <3>4. CASE ~Rejected /\ seen.health # "healthy" /\ ~(spent > window)
      BY <1>5, <3>4 DEF Judge
    <3>. QED BY <3>1, <3>2, <3>3, <3>4
  <2>2. polling = "judge" /\ UNCHANGED <<container, window, url, spent, calling, seen>>
    BY <1>5 DEF Judge
  <2>. QED BY <2>1, <2>2 DEF VerifyTypeOK
<1>6. CASE Sleep
  BY <1>6 DEF Sleep, Verdict, VerifyTypeOK
<1>7. CASE CheckHTTP
  BY <1>7 DEF CheckHTTP, Verdict, VerifyTypeOK
<1>8. CASE UNCHANGED verifyVars
  BY <1>8 DEF verifyVars, VerifyTypeOK
<1>. QED BY <1>1, <1>2, <1>3, <1>4, <1>5, <1>6, <1>7, <1>8 DEF VerifyNext

\* The variables keep to their types.
THEOREM VerifyTypeCorrect == VerifySpec => []VerifyTypeOK
<1>1. PollInv => VerifyTypeOK
  BY DEF PollInv
<1>. QED BY <1>1, VerifyInitHolds, PollsKept, PTL DEF VerifySpec

\* For any windows and settings, and whatever the container does, the verifier
\* polls no longer than its window, one interval and one call.
THEOREM VerdictAlwaysInTime == VerifySpec => []VerdictInTime
<1>1. PollInv => VerdictInTime
  BY DEF PollInv
<1>. QED BY <1>1, VerifyInitHolds, PollsKept, PTL DEF VerifySpec

-----------------------------------------------------------------------------
(* Notes                                                                   *)

Calls == [step : {"idle", "ask", "save"}, begun : Versions, etag : Versions, body : Versions,
          got : Versions \cup {Failed}]

\* An ETag and the notes next to it belong together and are no newer than what
\* GitHub has; those that a call got from GitHub are as new as its begin.
NotesBelong ==
    /\ cache.etag = cache.body /\ cache.body <= notes
    /\ \A c \in Callers :
         /\ call[c].begun <= notes
         /\ call[c].step = "ask" => call[c].etag = call[c].body /\ call[c].got = 0
         /\ call[c].step = "save" =>
              /\ call[c].etag = call[c].body /\ call[c].got = 0
              /\ call[c].begun <= call[c].body /\ call[c].body <= notes

NotesInv == NotesTypeOK /\ NotesBelong /\ NotesWereCurrent

\* Before the first call nothing is in the cache.
LEMMA NotesInitHolds == NotesInit => NotesInv
BY ReleasesAssumption
   DEF NotesInit, NotesInv, NotesTypeOK, NotesBelong, NotesWereCurrent, NoCall, Versions, Failed

\* What one call saves, however late, does not make another return old notes.
LEMMA NotesKept == NotesInv /\ [NotesNext]_notesVars => NotesInv'
<1> SUFFICES ASSUME NotesInv, [NotesNext]_notesVars
             PROVE  NotesInv'
  OBVIOUS
<1>. USE ReleasesAssumption DEF NotesInv, Versions, Failed
<1>1. CASE NotesChange
  <2>1. notes' = notes + 1 /\ notes' \in 1..MaxReleases + 1 /\ UNCHANGED <<cache, call>>
    BY <1>1 DEF NotesChange, NotesTypeOK
  <2>2. NotesTypeOK'
    BY <2>1 DEF NotesTypeOK
  <2>3. \A c \in Callers : call[c].begun \in Nat /\ call[c].body \in Nat /\ call[c].got \in Int
    BY DEF NotesTypeOK
  <2>4. NotesBelong'
    BY <2>1, <2>3 DEF NotesBelong, NotesTypeOK
  <2>5. NotesWereCurrent'
    BY <2>1, <2>3 DEF NotesWereCurrent, NotesTypeOK
  <2>. QED BY <2>2, <2>4, <2>5
<1>2. ASSUME NEW c \in Callers,
             ReadCache(c) \/ NotModified(c) \/ Modified(c) \/ AskFails(c) \/ SaveNotes(c)
      PROVE  NotesInv'
  <2>0. /\ notes \in 1..MaxReleases + 1 /\ notes' = notes
        /\ cache.etag \in Versions /\ cache.body \in Versions
        /\ call[c].begun \in Versions /\ call[c].etag \in Versions /\ call[c].body \in Versions
        /\ call \in [Callers -> [step : {"idle", "ask", "save"}, begun : Versions,
                                 etag : Versions, body : Versions, got : Versions \cup {Failed}]]
    BY <1>2 DEF NotesTypeOK, ReadCache, NotModified, Modified, AskFails, SaveNotes
  <2>1. \A d \in Callers \ {c} : call'[d] = call[d]
    BY <1>2, <2>0 DEF ReadCache, NotModified, Modified, AskFails, SaveNotes, Returns
  <2>2. /\ cache' \in [etag : Versions, body : Versions]
        /\ cache'.etag = cache'.body /\ cache'.body <= notes
    <3>1. CASE SaveNotes(c)
      BY <2>0, <3>1 DEF SaveNotes, NotesBelong, NotesTypeOK
    <3>2. CASE ~SaveNotes(c)
      BY <1>2, <3>2 DEF NotesBelong, NotesTypeOK, ReadCache, NotModified, Modified, AskFails
    <3>. QED BY <3>1, <3>2
  <2>3. CASE ReadCache(c)
    <3>1. call' = [call EXCEPT ![c] = [step |-> "ask", begun |-> notes, etag |-> cache.etag,
                                       body |-> cache.body, got |-> 0]]
      BY <2>3 DEF ReadCache
    <3>. QED BY <2>0, <2>1, <2>2, <3>1 DEF NotesTypeOK, NotesBelong, NotesWereCurrent
  <2>4. CASE NotModified(c)
    <3>1. call[c].step = "ask" /\ call[c].etag = notes
          /\ call' = [call EXCEPT ![c].step = "idle", ![c].got = call[c].body]
      BY <2>4 DEF NotModified, Returns
    <3>. QED BY <2>0, <2>1, <2>2, <3>1 DEF NotesTypeOK, NotesBelong, NotesWereCurrent
  <2>5. CASE Modified(c)
    <3>1. call[c].step = "ask"
          /\ call' = [call EXCEPT ![c].step = "save", ![c].etag = notes, ![c].body = notes]
      BY <2>5 DEF Modified
    <3>2. NotesTypeOK'
      <4>0. call[c] \in Calls /\ notes \in Versions
        BY <2>0 DEF Calls
      <4>1. call'[c] \in Calls
        <5>1. call'[c] = [call[c] EXCEPT !.step = "save", !.etag = notes, !.body = notes]
          BY <2>0, <3>1
        <5>. QED BY <4>0, <5>1 DEF Calls
      <4>2. call' \in [Callers -> Calls]
        BY <2>0, <2>1, <3>1, <4>1 DEF Calls
      <4>. QED BY <2>0, <2>2, <4>2 DEF NotesTypeOK, Calls
    <3>3. NotesBelong'
      BY <2>0, <2>1, <2>2, <3>1 DEF NotesBelong
    <3>4. NotesWereCurrent'
      BY <2>0, <2>1, <3>1 DEF NotesBelong, NotesWereCurrent
    <3>. QED BY <3>2, <3>3, <3>4
  <2>6. CASE AskFails(c)
    <3>1. call' = [call EXCEPT ![c].step = "idle", ![c].got = -1]
      BY <2>6 DEF AskFails, Returns
    <3>2. NotesTypeOK'
      <4>1. call'[c] \in Calls
        BY <2>0, <3>1 DEF Calls
      <4>2. call' \in [Callers -> Calls]
        BY <2>0, <2>1, <3>1, <4>1 DEF Calls
      <4>. QED BY <2>0, <2>2, <4>2 DEF NotesTypeOK, Calls
    <3>3. NotesBelong'
      BY <2>0, <2>1, <2>2, <3>1 DEF NotesBelong
    <3>4. NotesWereCurrent'
      BY <2>0, <2>1, <3>1 DEF NotesBelong, NotesWereCurrent
    <3>. QED BY <3>2, <3>3, <3>4
  <2>7. CASE SaveNotes(c)
    <3>1. call[c].step = "save"
          /\ call' = [call EXCEPT ![c].step = "idle", ![c].got = call[c].body]
      BY <2>7 DEF SaveNotes, Returns
    <3>2. NotesTypeOK'
      <4>1. call'[c] \in Calls
        BY <2>0, <3>1 DEF Calls
      <4>2. call' \in [Callers -> Calls]
        BY <2>0, <2>1, <3>1, <4>1 DEF Calls
      <4>. QED BY <2>0, <2>2, <4>2 DEF NotesTypeOK, Calls
    <3>3. NotesBelong'
      BY <2>0, <2>1, <2>2, <3>1 DEF NotesBelong
    <3>4. NotesWereCurrent'
      BY <2>0, <2>1, <3>1 DEF NotesBelong, NotesWereCurrent
    <3>. QED BY <3>2, <3>3, <3>4
  <2>. QED BY <1>2, <2>3, <2>4, <2>5, <2>6, <2>7
<1>3. CASE UNCHANGED notesVars
  BY <1>3 DEF notesVars, NotesTypeOK, NotesBelong, NotesWereCurrent
<1>. QED BY <1>1, <1>2, <1>3 DEF NotesNext

\* The variables keep to their types.
THEOREM NotesTypeCorrect == NotesSpec => []NotesTypeOK
<1>1. NotesInv => NotesTypeOK
  BY DEF NotesInv
<1>. QED BY <1>1, NotesInitHolds, NotesKept, PTL DEF NotesSpec

\* Any number of calls at the same time, in any order of their reads and saves,
\* return notes that GitHub had while they ran.
THEOREM NotesAlwaysCurrent == NotesSpec => []NotesWereCurrent
<1>1. NotesInv => NotesWereCurrent
  BY DEF NotesInv
<1>. QED BY <1>1, NotesInitHolds, NotesKept, PTL DEF NotesSpec

-----------------------------------------------------------------------------
(* Serve                                                                    *)

\* The scheduler holds the mutex exactly while it updates, which it does not
\* before it was started.
MutexOfCycle ==
    /\ engineMu = "sched" <=> cycle = "updating"
    /\ phase \in {"repair", "keys"} => cycle = "off"

\* After Shutdown only handlers that outlived it may still start jobs.
NothingNew ==
    ~failed =>
      /\ phase \in {"waiting", "joining", "exited"} =>
           \A h \in Handlers : asks[h] \in outlived \cup {NoOne}
      /\ phase \in {"joining", "exited"} => \A k \in JobKeys : works[k] = "none" \/ k \in outlived
      /\ phase = "exited" => cycle = "stopped"

SInv == ServeTypeOK /\ MutexOfCycle /\ NothingNew /\ (failed => ~Alive)

\* The invariant holds when the process starts.
LEMMA ServeInitHolds == ServeInit => SInv
BY KeysDiffer DEF ServeInit, SInv, ServeTypeOK, MutexOfCycle, NothingNew, Alive

\* Every step of serve, its handlers, jobs and scheduler keeps the invariant.
LEMMA ServeKept == SInv /\ [ServeNext]_serveVars => SInv'
<1> SUFFICES ASSUME SInv, [ServeNext]_serveVars
             PROVE  SInv'
  OBVIOUS
<1>. USE KeysDiffer DEF SInv, ServeTypeOK, MutexOfCycle, NothingNew, Alive, mainVars
<1>1. CASE Signal
  BY <1>1 DEF Signal
<1>2. CASE ListenFails
  BY <1>2 DEF ListenFails, FailsStart
<1>3. CASE Repairs
  <2>1. CASE failed'
    BY <1>3, <2>1 DEF Repairs, FailsStart
  <2>2. CASE ~failed'
    BY <1>3, <2>2 DEF Repairs, FailsStart
  <2>. QED BY <2>1, <2>2
<1>4. CASE StartsServing
  <2>1. CASE failed'
    BY <1>4, <2>1 DEF StartsServing, FailsStart
  <2>2. CASE ~failed'
    BY <1>4, <2>2 DEF StartsServing, FailsStart
  <2>. QED BY <2>1, <2>2
<1>5. CASE Shutdown \/ ShutdownReturns \/ Wait \/ Return
  BY <1>5 DEF Shutdown, ShutdownReturns, Wait, Return, Step, Handling, Working
<1>6. CASE ShutdownTimesOut
  <2>1. \A h \in Handlers : asks[h] \in outlived' \cup {NoOne}
    BY <1>6 DEF ShutdownTimesOut, Handling
  <2>2. outlived' \subseteq JobKeys
    BY <1>6 DEF ShutdownTimesOut, Handling
  <2>. QED BY <1>6, <2>1, <2>2 DEF ShutdownTimesOut, Step
<1>7. ASSUME NEW h \in Handlers, NEW k \in JobKeys, Request(h, k)
      PROVE  SInv'
  BY <1>7 DEF Request
<1>8. ASSUME NEW h \in Handlers, StartJob(h)
      PROVE  SInv'
  <2>1. asks[h] \in JobKeys
    BY <1>8 DEF StartJob
  <2>2. \A k \in JobKeys : works'[k] = "none" \/ works[k] # "none" \/ k = asks[h]
    BY <1>8, <2>1 DEF StartJob
  <2>3. works' \in [JobKeys -> {"none", "checking", "queued", "updating"}]
    BY <1>8 DEF StartJob
  <2>4. asks' \in [Handlers -> JobKeys \cup {NoOne}] /\ \A g \in Handlers : asks'[g] \in {asks[g], NoOne}
    BY <1>8 DEF StartJob
  <2>. QED BY <1>8, <2>1, <2>2, <2>3, <2>4 DEF StartJob
<1>9. ASSUME NEW k \in JobKeys, JobLocks(k)
      PROVE  SInv'
  BY <1>9 DEF JobLocks
<1>10. ASSUME NEW k \in JobKeys, JobEnds(k)
       PROVE  SInv'
  BY <1>10 DEF JobEnds
<1>11. CASE CycleApplies \/ CycleLocks \/ CycleUpdated \/ CycleEnds \/ CycleTicks \/ CycleStops
  BY <1>11 DEF CycleApplies, CycleLocks, CycleUpdated, CycleEnds, CycleTicks, CycleStops, Cycles
<1>12. CASE UNCHANGED serveVars
  BY <1>12 DEF serveVars
<1>. QED BY <1>1, <1>2, <1>3, <1>4, <1>5, <1>6, <1>7, <1>8, <1>9, <1>10, <1>11, <1>12
         DEF ServeNext, Main, Work

\* A process that ends without an error leaves no update under way, but for jobs
\* of handlers that outlived Shutdown.
THEOREM NoWorkLeft == ServeSpec => []ExitLeavesNoWork
<1>1. SInv => ExitLeavesNoWork
  BY DEF SInv, NothingNew, MutexOfCycle, ExitLeavesNoWork, Alive, Working
<1>. QED BY <1>1, ServeInitHolds, ServeKept, PTL DEF ServeSpec

\* The variables keep to their types.
THEOREM ServeTypeCorrect == ServeSpec => []ServeTypeOK
<1>1. SInv => ServeTypeOK
  BY DEF SInv
<1>. QED BY <1>1, ServeInitHolds, ServeKept, PTL DEF ServeSpec

-----------------------------------------------------------------------------
(* The components side by side                                             *)

\* What runs beside a component leaves it alone: a behaviour of MCParts is one of
\* each component.
THEOREM PartsAreTheComponents ==
    PartsSpec => /\ RetentionSpec /\ AccountsSpec /\ ServeSpec /\ NotifiersSpec
                 /\ SettingsSpec /\ VerifySpec /\ NotesSpec
<1>1. PartsInit => /\ RetentionInit /\ AccountsInit /\ ServeInit /\ NotifiersInit
                   /\ SettingsInit /\ VerifyInit /\ NotesInit
  BY DEF PartsInit
<1>2. [PartsNext]_partVars =>
        /\ [RetentionNext]_retentionVars /\ [AccountsNext]_accountsVars /\ [ServeNext]_serveVars
        /\ [NotifiersNext]_notifiersVars /\ [SettingsNext]_settingsVars
        /\ [VerifyNext]_verifyVars /\ [NotesNext]_notesVars
  BY DEF PartsNext, partVars
<1>. QED
  BY <1>1, <1>2, PTL
     DEF PartsSpec, RetentionSpec, AccountsSpec, ServeSpec, NotifiersSpec, SettingsSpec, VerifySpec,
         NotesSpec

\* Every component keeps to its types.
THEOREM PartsTypeCorrect == PartsSpec => []TypesOK
BY PartsAreTheComponents, RetentionTypeCorrect, AccountsTypeCorrect, ServeTypeCorrect,
   NotifiersTypeCorrect, SettingsTypeCorrect, VerifyTypeCorrect, NotesTypeCorrect, PTL DEF TypesOK
=============================================================================
