--------------------------- MODULE UpdateContract ---------------------------
(***************************************************************************)
(* What an adapter and the repair at the start promise the engine for one  *)
(* service (Adapter and Result in internal/updater/updater.go), whatever   *)
(* calls fail and wherever the process dies:                               *)
(*                                                                         *)
(*   - the outcome that Update returns is true of the service;             *)
(*   - while a service that should run is down, a journal entry is open;   *)
(*   - the process serves again only once the repair has brought up what   *)
(*     should run and has closed every entry.                              *)
(*                                                                         *)
(* How a container is replaced does not matter here.  ComposeUpdate        *)
(* implements this contract under all its faults, RunUpdate while Docker   *)
(* answers.                                                                *)
(***************************************************************************)
CONSTANTS
    Images,  \* image IDs
    None     \* no container under the name of the service

VARIABLES
    phase,    \* "idle", "updating", or "repairing": from a crash until serving again
    image,    \* the image the service was created from, or None
    up,       \* whether the service runs
    wanted,   \* whether the operator wants it to run
    before,   \* while updating: the image the service had before
    unfinished, \* whether a journal entry is open
    outcome   \* what the last Update returned, "none" when it is not the last event

vars == <<phase, image, up, wanted, before, unfinished, outcome>>

Outcomes == {"ok", "unchanged", "rolled_back", "failed"}

\* A service that should run does, or the next start works on it.
Covered == (wanted => up) \/ unfinished

Init ==
    /\ phase = "idle"
    /\ image \in Images /\ up \in BOOLEAN /\ wanted = up
    /\ before = None /\ unfinished = FALSE /\ outcome = "none"

OperatorToggles ==
    /\ phase = "idle"
    /\ up' = ~up /\ wanted' = ~up
    /\ outcome' = "none"
    /\ UNCHANGED <<phase, image, before, unfinished>>

\* The journal entry is written before anything is changed.
Begin ==
    /\ phase = "idle" /\ image # None
    /\ phase' = "updating"
    /\ before' = image
    /\ unfinished' = TRUE
    /\ outcome' = "none"
    /\ UNCHANGED <<image, up, wanted>>

\* An update replaces and restores under its open entry.
Work ==
    /\ phase = "updating"
    /\ image' \in Images \cup {None} /\ up' \in BOOLEAN
    /\ UNCHANGED <<phase, wanted, before, unfinished, outcome>>

\* What each outcome says of the service that Update leaves behind.
Truth(o, img) ==
    CASE o = "ok"                         -> img # before /\ img # None
      [] o \in {"unchanged", "rolled_back"} -> img = before
      [] OTHER                            -> TRUE

Return(o) ==
    /\ phase = "updating"
    /\ phase' = "idle"
    /\ outcome' = o
    /\ image' \in Images \cup {None} /\ up' \in BOOLEAN /\ unfinished' \in BOOLEAN
    /\ Truth(o, image')
    /\ o \in {"ok", "rolled_back"} => (wanted => up')
    /\ Covered'
    /\ before' = None
    /\ UNCHANGED wanted

\* The process dies, in the middle of a call or not; the journal survives.
Die ==
    /\ phase' = "repairing"
    /\ image' \in Images \cup {None} /\ up' \in BOOLEAN
    /\ phase = "idle" => UNCHANGED <<image, up>>
    /\ before' = None /\ outcome' = "none"
    /\ UNCHANGED <<wanted, unfinished>>

\* The repair closes entries as it goes, but none before what it covers is whole.
Repair ==
    /\ phase = "repairing"
    /\ image' \in Images \cup {None} /\ up' \in BOOLEAN
    /\ unfinished' \in {unfinished, FALSE}
    /\ Covered'
    /\ UNCHANGED <<phase, wanted, before, outcome>>

ServeAgain ==
    /\ phase = "repairing"
    /\ ~unfinished /\ (wanted => up)
    /\ phase' = "idle"
    /\ UNCHANGED <<image, up, wanted, before, unfinished, outcome>>

Next ==
    \/ OperatorToggles \/ Begin \/ Work \/ Die \/ Repair \/ ServeAgain
    \/ \E o \in Outcomes : Return(o)

Spec == Init /\ [][Next]_vars
=============================================================================
