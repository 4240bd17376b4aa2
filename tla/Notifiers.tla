----------------------------- MODULE Notifiers -----------------------------
(***************************************************************************)
(* The notifiers and push subscriptions (internal/store/notifiers.go), the *)
(* handlers that change them (internal/api/notifiers.go), and the          *)
(* dispatcher that sends an event to all of them (internal/notify).        *)
(*                                                                         *)
(* An update of a notifier reads its row, takes from it the secret that    *)
(* the browser only knows masked, and writes the row back; nothing spans   *)
(* the two.  The dispatcher sends to the rows it has listed, one after the *)
(* other, whatever becomes of them meanwhile; of the subscriptions it      *)
(* deletes those that the push service says are gone.                      *)
(*                                                                         *)
(* Left out: the fields that are not secret, the messages, tests of a      *)
(* notifier, which change nothing, failing database calls.                 *)
(***************************************************************************)
CONSTANTS
    Editors,       \* browsers in which the user edits a notifier
    NotifierIds,   \* notifier IDs, each given once
    Secrets,       \* what the user can type as a secret
    Mask,          \* what the browser sends for a secret it leaves alone
    Endpoints      \* push subscriptions

ASSUME MaskAssumption == Mask \notin Secrets

VARIABLES
    notifier,   \* notifier[i]: the row of i
    edit,       \* edit[e]: the update that e has begun, after its read
    subs,       \* the endpoints in table push_subscriptions
    gone,       \* endpoints whose browser dropped the subscription
    tested,     \* endpoints of which a test push was told "gone" and that it still deletes
    sending,    \* the dispatcher: what it still has to send to, and the answer "gone" it got
    typed,      \* history: typed[i]: the secret last typed for i in a change that was saved
    crossed,    \* history: notifiers of which an update was under way when that was saved
    untold      \* history: what was to be told when the event came, and was not yet

notifiersVars == <<notifier, edit, subs, gone, tested, sending, typed, crossed, untold>>
tables        == <<notifier, subs>>

Absent  == [there |-> FALSE]
NotifierRows == [there : {TRUE}, secret : Secrets, enabled : BOOLEAN]
NoEdit  == [id |-> Mask]
Edits   == [id : NotifierIds, kept : Secrets]
Idle    == [step |-> "idle", left |-> {}, removes |-> {}]
Row(secret, enabled) == [there |-> TRUE, secret |-> secret, enabled |-> enabled]
Enabled == {i \in NotifierIds : notifier[i].there /\ notifier[i].enabled}

NotifiersTypeOK ==
    /\ notifier \in [NotifierIds -> NotifierRows \cup {Absent}]
    /\ edit \in [Editors -> Edits \cup {NoEdit}]
    /\ subs \subseteq Endpoints /\ gone \subseteq Endpoints /\ tested \subseteq Endpoints
    /\ sending \in [step    : {"idle", "notifiers", "subs"},
                    left    : SUBSET (NotifierIds \cup Endpoints),
                    removes : SUBSET Endpoints]
    /\ typed \in [NotifierIds -> Secrets \cup {Mask}]
    /\ crossed \subseteq NotifierIds
    /\ untold \subseteq NotifierIds \cup Endpoints

NotifiersInit ==
    /\ notifier = [i \in NotifierIds |-> Absent]
    /\ edit = [e \in Editors |-> NoEdit]
    /\ subs = {} /\ gone = {} /\ tested = {}
    /\ sending = Idle
    /\ typed = [i \in NotifierIds |-> Mask]
    /\ crossed = {}
    /\ untold = {}

-----------------------------------------------------------------------------
(* The handlers                                                            *)

\* AUTOINCREMENT: an ID that was used is not used again.
CreateNotifier(i, secret, enabled) ==
    /\ typed[i] = Mask
    /\ notifier' = [notifier EXCEPT ![i] = Row(secret, enabled)]
    /\ typed' = [typed EXCEPT ![i] = secret]
    /\ UNCHANGED <<edit, subs, gone, tested, sending, crossed, untold>>

\* GetNotifier; what the body of the request asks for shows when it is saved.
BeginEdit(e, i) ==
    /\ edit[e] = NoEdit /\ notifier[i].there
    /\ edit' = [edit EXCEPT ![e] = [id |-> i, kept |-> notifier[i].secret]]
    /\ UNCHANGED <<tables, gone, tested, sending, typed, crossed, untold>>

\* Mutant: the mask is taken for a secret.
MaskOrTyped(e, secret) == secret

KeptOrTyped(e, secret) == IF secret = Mask THEN edit[e].kept ELSE secret

Write(e, i, secret, enabled) ==
    /\ edit' = [edit EXCEPT ![e] = NoEdit]
    /\ notifier' = [notifier EXCEPT ![i] = Row(KeptOrTyped(e, secret), enabled)]
    /\ IF secret # Mask
         THEN /\ typed' = [typed EXCEPT ![i] = secret]
              /\ crossed' = IF \E f \in Editors \ {e} : edit[f].id = i
                              THEN crossed \cup {i} ELSE crossed \ {i}
         ELSE UNCHANGED <<typed, crossed>>
    /\ UNCHANGED <<subs, gone, tested, sending, untold>>

\* Mutant: the row is written whether it is still there or not.
SaveEditAnyway(e, secret, enabled) == edit[e] # NoEdit /\ Write(e, edit[e].id, secret, enabled)

\* UpdateNotifier: a row that was deleted meanwhile is not written.
SaveEdit(e, secret, enabled) ==
    /\ edit[e] # NoEdit /\ notifier[edit[e].id].there
    /\ Write(e, edit[e].id, secret, enabled)

\* The body is refused, or the row is gone: the handler answers with an error.
EditFails(e) ==
    /\ edit[e] # NoEdit
    /\ edit' = [edit EXCEPT ![e] = NoEdit]
    /\ UNCHANGED <<tables, gone, tested, sending, typed, crossed, untold>>

DeleteNotifier(i) ==
    /\ notifier[i].there
    /\ notifier' = [notifier EXCEPT ![i] = Absent]
    /\ untold' = untold \ {i}
    /\ UNCHANGED <<edit, subs, gone, tested, sending, typed, crossed>>

\* A browser subscribes, anew when the subscription was gone, or unsubscribes.
Subscribe(p) ==
    /\ subs' = subs \cup {p} /\ gone' = gone \ {p}
    /\ UNCHANGED <<notifier, edit, tested, sending, typed, crossed, untold>>

Unsubscribe(p) ==
    /\ p \in subs
    /\ subs' = subs \ {p}
    /\ untold' = untold \ {p}
    /\ UNCHANGED <<notifier, edit, gone, tested, sending, typed, crossed>>

\* A test push gets the answer that the subscription is gone,
TestPush(p) ==
    /\ p \in gone
    /\ tested' = tested \cup {p}
    /\ UNCHANGED <<tables, edit, gone, sending, typed, crossed, untold>>

\* and deletes it, whatever became of it meanwhile.  Another test may have got
\* the same answer.
RemoveTested(p) ==
    /\ p \in tested
    /\ tested' \in {tested, tested \ {p}}
    /\ subs' = subs \ {p}
    /\ untold' = untold \ {p}
    /\ UNCHANGED <<notifier, edit, gone, sending, typed, crossed>>

BrowserGone(p) ==
    /\ p \in subs
    /\ gone' = gone \cup {p}
    /\ UNCHANGED <<tables, edit, tested, sending, typed, crossed, untold>>

-----------------------------------------------------------------------------
(* Dispatcher.Notify                                                       *)

\* An event comes; the enabled notifiers are listed.
BeginNotify ==
    /\ sending = Idle
    /\ sending' = [Idle EXCEPT !.step = "notifiers", !.left = Enabled]
    /\ untold' = Enabled \cup subs
    /\ UNCHANGED <<tables, edit, gone, tested, typed, crossed>>

\* Mutant: the first failure ends the round.
SendNotifierStops(i) ==
    /\ sending.step = "notifiers" /\ i \in sending.left
    /\ untold' = untold \ {i}
    /\ sending' \in {[sending EXCEPT !.left = @ \ {i}], Idle}
    /\ UNCHANGED <<tables, edit, gone, tested, typed, crossed>>

\* Sending may fail or time out; the next one has its turn all the same.
SendNotifier(i) ==
    /\ sending.step = "notifiers" /\ i \in sending.left
    /\ sending' = [sending EXCEPT !.left = @ \ {i}]
    /\ untold' = untold \ {i}
    /\ UNCHANGED <<tables, edit, gone, tested, typed, crossed>>

\* Then the subscriptions are listed.
ListSubs ==
    /\ sending.step = "notifiers" /\ sending.left = {}
    /\ sending' = [sending EXCEPT !.step = "subs", !.left = subs]
    /\ UNCHANGED <<tables, edit, gone, tested, typed, crossed, untold>>

SendPush(p) ==
    /\ sending.step = "subs" /\ p \in sending.left /\ sending.removes = {}
    /\ sending' = [sending EXCEPT !.left = @ \ {p}, !.removes = gone \cap {p}]
    /\ untold' = untold \ {p}
    /\ UNCHANGED <<tables, edit, gone, tested, typed, crossed>>

\* Mutant: the subscription stays although it is gone.
RemoveNoSub(p) ==
    /\ p \in sending.removes
    /\ sending' = [sending EXCEPT !.removes = {}]
    /\ UNCHANGED <<tables, edit, gone, tested, typed, crossed, untold>>

\* ErrGone: the subscription is deleted, after the answer.
RemoveSub(p) ==
    /\ p \in sending.removes
    /\ sending' = [sending EXCEPT !.removes = {}]
    /\ subs' = subs \ {p}
    /\ untold' = untold \ {p}
    /\ UNCHANGED <<notifier, edit, gone, tested, typed, crossed>>

EndNotify ==
    /\ sending.step = "subs" /\ sending.left = {} /\ sending.removes = {}
    /\ sending' = Idle
    /\ UNCHANGED <<tables, edit, gone, tested, typed, crossed, untold>>

-----------------------------------------------------------------------------
Dispatch ==
    \/ \E i \in NotifierIds : SendNotifier(i)
    \/ ListSubs \/ EndNotify
    \/ \E p \in Endpoints : SendPush(p) \/ RemoveSub(p)

NotifiersNext ==
    \/ \E i \in NotifierIds, s \in Secrets, enabled \in BOOLEAN : CreateNotifier(i, s, enabled)
    \/ \E e \in Editors :
         \/ \E i \in NotifierIds : BeginEdit(e, i)
         \/ \E s \in Secrets \cup {Mask}, enabled \in BOOLEAN : SaveEdit(e, s, enabled)
         \/ EditFails(e)
    \/ \E i \in NotifierIds : DeleteNotifier(i)
    \/ \E p \in Endpoints : 
         \/ Subscribe(p) \/ Unsubscribe(p) \/ BrowserGone(p)
         \/ TestPush(p) \/ RemoveTested(p)
    \/ BeginNotify \/ Dispatch

NotifiersSpec == NotifiersInit /\ [][NotifiersNext]_notifiersVars

-----------------------------------------------------------------------------
(* Properties                                                              *)

\* A notifier has the secret that the user typed last, however edits overlap
\* that leave it alone, unless one was under way when that secret was saved.
SecretIsLastTyped ==
    \A i \in NotifierIds : notifier[i].there => notifier[i].secret = typed[i] \/ i \in crossed

\* When the round of an event is over, whoever was there when it came and still
\* is was sent to, whatever failed before.
EveryoneTold == sending = Idle => untold = {}

\* A notifier that was deleted does not come back by an update that had read it.
DeletedStaysDeleted ==
    [][\A i \in NotifierIds : typed[i] # Mask /\ ~notifier[i].there => ~notifier'[i].there]_notifiersVars

\* A subscription that is gone is deleted at one of the next events.
GoneIsForgotten == \A p \in Endpoints : p \in gone /\ p \in subs ~> p \notin gone \/ p \notin subs
=============================================================================
