------------------------------- MODULE Notes -------------------------------
(***************************************************************************)
(* Release notes from GitHub and their cache (internal/changelog/github.go *)
(* and table changelog_cache of internal/store/info.go), for one           *)
(* repository that several checks and pages ask for at the same time.      *)
(*                                                                         *)
(* A call reads the cache, asks GitHub with the ETag it found, and saves   *)
(* what it gets; nothing spans the three.                                  *)
(*                                                                         *)
(* Left out: the text of the notes and what it parses to, and the answer   *)
(* for a repository that does not exist, which is that there are none.     *)
(***************************************************************************)
EXTENDS Integers

CONSTANTS
    Callers,     \* calls at the same time
    MaxReleases  \* bound: how often the notes change

ASSUME ReleasesAssumption == MaxReleases \in Nat

VARIABLES
    notes,   \* how often the notes on GitHub have changed; the ETag changes with them
    cache,   \* the row of the repository: the notes that its ETag and its body belong to,
             \* 0 for none
    call     \* call[c]: its step, the notes at its begin, what it found and what it got

notesVars == <<notes, cache, call>>

Versions == 0..MaxReleases + 1
Failed   == -1
NoCall   == [step |-> "idle", begun |-> 0, etag |-> 0, body |-> 0, got |-> 0]

NotesTypeOK ==
    /\ notes \in 1..MaxReleases + 1
    /\ cache \in [etag : Versions, body : Versions]
    /\ call \in [Callers -> [step : {"idle", "ask", "save"}, begun : Versions,
                             etag : Versions, body : Versions,
                             got : Versions \cup {Failed}]]

NotesInit ==
    /\ notes = 1
    /\ cache = [etag |-> 0, body |-> 0]
    /\ call = [c \in Callers |-> NoCall]

Returns(c, got) == call' = [call EXCEPT ![c].step = "idle", ![c].got = got]

NotesChange ==
    /\ notes <= MaxReleases
    /\ notes' = notes + 1
    /\ UNCHANGED <<cache, call>>

\* The ETag and the body are read together.
ReadCache(c) ==
    /\ call[c].step = "idle"
    /\ call' = [call EXCEPT ![c] = [step |-> "ask", begun |-> notes, etag |-> cache.etag,
                                    body |-> cache.body, got |-> 0]]
    /\ UNCHANGED <<notes, cache>>

\* 304: the notes are still those of the ETag that was sent.
NotModified(c) ==
    /\ call[c].step = "ask" /\ call[c].etag = notes
    /\ Returns(c, call[c].body)
    /\ UNCHANGED <<notes, cache>>

\* 200: the notes come with their ETag.
Modified(c) ==
    /\ call[c].step = "ask" /\ call[c].etag # notes
    /\ call' = [call EXCEPT ![c].step = "save", ![c].etag = notes, ![c].body = notes]
    /\ UNCHANGED <<notes, cache>>

\* The rate limit, an error, no answer.
AskFails(c) ==
    /\ call[c].step = "ask"
    /\ Returns(c, Failed)
    /\ UNCHANGED <<notes, cache>>

\* Mutant: the ETag is saved that the notes have by then.
SaveNotesLater(c) ==
    /\ call[c].step = "save"
    /\ cache' = [etag |-> notes, body |-> call[c].body]
    /\ Returns(c, call[c].body)
    /\ UNCHANGED notes

\* The last call that saves wins, be its notes older; a failure is ignored.
SaveNotes(c) ==
    /\ call[c].step = "save"
    /\ cache' \in {cache, [etag |-> call[c].etag, body |-> call[c].body]}
    /\ Returns(c, call[c].body)
    /\ UNCHANGED notes

NotesNext ==
    \/ NotesChange
    \/ \E c \in Callers :
         ReadCache(c) \/ NotModified(c) \/ Modified(c) \/ AskFails(c) \/ SaveNotes(c)

NotesSpec == NotesInit /\ [][NotesNext]_notesVars

-----------------------------------------------------------------------------
(* Properties                                                              *)

\* A call returns notes that GitHub had while it ran, never older ones from the
\* cache, whichever calls save theirs in between.
NotesWereCurrent ==
    \A c \in Callers : call[c].got > 0 => call[c].begun <= call[c].got /\ call[c].got <= notes
=============================================================================
