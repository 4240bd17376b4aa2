------------------------------ MODULE MCParts ------------------------------
(***************************************************************************)
(* One instance for TLC of the components that share no state with each    *)
(* other.  A behaviour runs one of them and leaves the others where they   *)
(* began: what one does cannot depend on another, so interleaving them     *)
(* would only multiply the states.                                         *)
(***************************************************************************)
EXTENDS Retention, Accounts, Serve, Notifiers, Settings, Verify, Notes

VARIABLE part  \* the component that runs

partVars == <<retentionVars, accountsVars, serveVars, notifiersVars, settingsVars, verifyVars,
              notesVars, part>>

HomeOf  == [b \in Browsers |-> "lan"]

Parts == {"retention", "accounts", "serve", "notifiers", "settings", "verify", "notes"}

\* A component that does not run has one initial state.
PartsInit ==
    /\ RetentionInit /\ AccountsInit /\ ServeInit /\ NotifiersInit /\ SettingsInit
    /\ VerifyInit /\ NotesInit
    /\ part \in Parts
    /\ part # "retention" => reference = CHOOSE i \in ImageIds : TRUE
    /\ part # "verify" => health = "none" /\ policy

PartsNext ==
    /\ UNCHANGED part
    /\ \/ part = "retention" /\ RetentionNext
       \/ part # "retention" /\ UNCHANGED retentionVars
    /\ \/ part = "accounts" /\ AccountsNext
       \/ part # "accounts" /\ UNCHANGED accountsVars
    /\ \/ part = "serve" /\ ServeNext
       \/ part # "serve" /\ UNCHANGED serveVars
    /\ \/ part = "notifiers" /\ NotifiersNext
       \/ part # "notifiers" /\ UNCHANGED notifiersVars
    /\ \/ part = "settings" /\ SettingsNext
       \/ part # "settings" /\ UNCHANGED settingsVars
    /\ \/ part = "verify" /\ VerifyNext
       \/ part # "verify" /\ UNCHANGED verifyVars
    /\ \/ part = "notes" /\ NotesNext
       \/ part # "notes" /\ UNCHANGED notesVars

\* Time passes, jobs end, and each cycle cleans up; a removal that is tried again
\* and again succeeds in the end.
RetentionFairness ==
    /\ WF_retentionVars(part = "retention" /\ ClockTicks)
    /\ WF_retentionVars(part = "retention" /\ JobStep)
    /\ WF_retentionVars(part = "retention" /\ BeginCleanup)
    /\ WF_retentionVars(part = "retention" /\ CleanupStep)
    /\ SF_retentionVars(part = "retention" /\ \E i \in ImageIds : RemoveImage(i))

AccountsFairness ==
    /\ WF_accountsVars(part = "accounts" /\ TimePasses)
    /\ \A b \in Browsers : WF_accountsVars(part = "accounts" /\ RequestStep(b))

\* Work ends, the mutex is given to whoever keeps waiting for it, and the select
\* of the scheduler chooses fairly.  A handler may hang.
ServeFairness ==
    /\ WF_serveVars(part = "serve" /\ Main)
    /\ WF_serveVars(part = "serve" /\ CycleUpdated)
    /\ WF_serveVars(part = "serve" /\ CycleEnds)
    /\ \A k \in JobKeys : WF_serveVars(part = "serve" /\ JobEnds(k))
    /\ \A k \in JobKeys \ {CheckKey} : SF_serveVars(part = "serve" /\ JobLocks(k))
    /\ SF_serveVars(part = "serve" /\ CycleLocks)
    /\ SF_serveVars(part = "serve" /\ CycleStops)

\* Events keep coming, and each call has a timeout.
NotifiersFairness ==
    /\ WF_notifiersVars(part = "notifiers" /\ BeginNotify)
    /\ WF_notifiersVars(part = "notifiers" /\ Dispatch)

PartsSpec ==
    /\ PartsInit /\ [][PartsNext]_partVars
    /\ RetentionFairness /\ AccountsFairness /\ ServeFairness /\ NotifiersFairness

\* Every component keeps to the types of its variables.
TypesOK ==
    /\ RetentionTypeOK /\ AccountsTypeOK /\ ServeTypeOK /\ NotifiersTypeOK /\ SettingsTypeOK
    /\ VerifyTypeOK /\ NotesTypeOK
=============================================================================
