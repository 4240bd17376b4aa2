------------------------------ MODULE Settings ------------------------------
(***************************************************************************)
(* Secrets that are made on first use and kept in table settings: the key  *)
(* pair of Web Push (EnsureKeys in internal/push/push.go), which is made   *)
(* at the start and written as two settings, and the token of the widget   *)
(* (internal/api/notifiers.go), which is made when it is first asked for.  *)
(*                                                                         *)
(* Each call on the table is a transaction of its own; the process may die *)
(* or a call may fail between two of them.                                 *)
(*                                                                         *)
(* Left out: last_check, which is only written and shown.                  *)
(***************************************************************************)
EXTENDS Integers, FiniteSets

CONSTANTS
    Askers,    \* requests for the token of the widget at the same time
    MaxStarts, \* bound: starts of the process
    MaxTokens  \* bound: tokens made

ASSUME SettingsAssumption == MaxStarts \in Nat /\ MaxTokens \in Nat /\ IsFiniteSet(Askers)

VARIABLES
    public,    \* setting vapid_public: the number of the pair it belongs to, or 0
    private,   \* setting vapid_private
    keys,      \* push.Keys of the process, with pub = 0 while it does not serve
    starting,  \* EnsureKeys: its step
    starts,    \* starts so far; each makes at most one pair, of that number
    served,    \* history: the pair the process served with last, or 0
    token,     \* setting widget_token: a number, or 0
    tokens,    \* tokens made so far
    asking,    \* asking[a]: what the request a is about to do
    lateReads, \* history: requests that had found no token when the first was made
    rotations  \* history: rotations that have begun

keyVars      == <<public, private, keys, starting, starts, served>>
tokenVars    == <<token, tokens, asking, lateReads, rotations>>
settingsVars == <<keyVars, tokenVars>>

NoKeys == [pub |-> 0, priv |-> 0]
Made   == 0..MaxStarts
Making == {a \in Askers : asking[a] # "idle"}

SettingsTypeOK ==
    /\ public \in Made /\ private \in Made
    /\ keys \in [pub : Made, priv : Made]
    /\ starting \in {"down", "read", "public", "private", "serving"}
    /\ {starts, served} \subseteq Made
    /\ token \in 0..MaxTokens /\ tokens \in 0..MaxTokens
    /\ asking \in [Askers -> {"idle", "first", "rotate"}]
    /\ lateReads \subseteq Askers
    /\ rotations \in Nat

SettingsInit ==
    /\ public = 0 /\ private = 0 /\ keys = NoKeys
    /\ starting = "down" /\ starts = 0 /\ served = 0
    /\ token = 0 /\ tokens = 0
    /\ asking = [a \in Askers |-> "idle"]
    /\ lateReads = {} /\ rotations = 0

-----------------------------------------------------------------------------
(* EnsureKeys                                                              *)

Starts ==
    /\ starting = "down" /\ starts < MaxStarts
    /\ starting' = "read" /\ starts' = starts + 1
    /\ UNCHANGED <<public, private, keys, served, tokenVars>>

Serves(pub, priv) == starting' = "serving" /\ keys' = [pub |-> pub, priv |-> priv] /\ served' = pub

\* Mutant: one half is enough.
ReadKeysHalf ==
    /\ starting = "read"
    /\ IF public # 0
         THEN Serves(public, private)
         ELSE starting' = "public" /\ UNCHANGED <<keys, served>>
    /\ UNCHANGED <<public, private, starts, tokenVars>>

\* A pair that is complete is used; otherwise a new one is made.
ReadKeys ==
    /\ starting = "read"
    /\ IF public # 0 /\ private # 0
         THEN Serves(public, private)
         ELSE starting' = "public" /\ UNCHANGED <<keys, served>>
    /\ UNCHANGED <<public, private, starts, tokenVars>>

WritePublic ==
    /\ starting = "public"
    /\ public' = starts
    /\ starting' = "private"
    /\ UNCHANGED <<private, keys, starts, served, tokenVars>>

\* Mutant: the process serves with its new pair before it is saved.
WritePrivateLater ==
    /\ starting = "private"
    /\ Serves(starts, starts)
    /\ UNCHANGED <<public, private, starts, tokenVars>>

WritePrivate ==
    /\ starting = "private"
    /\ private' = starts
    /\ Serves(starts, starts)
    /\ UNCHANGED <<public, starts, tokenVars>>

\* The process dies, or a write fails and ends the start.
Dies ==
    /\ starting # "down"
    /\ starting' = "down" /\ keys' = NoKeys
    /\ asking' = [a \in Askers |-> "idle"]
    /\ UNCHANGED <<public, private, starts, served, token, tokens, lateReads, rotations>>

-----------------------------------------------------------------------------
(* The token of the widget                                                 *)

\* Mutant: every request makes a token.
AskTokenMakes(a) ==
    /\ starting = "serving" /\ asking[a] = "idle"
    /\ asking' = [asking EXCEPT ![a] = "first"]
    /\ UNCHANGED <<keyVars, token, tokens, lateReads, rotations>>

\* widgetToken, for the settings page and for each request of a widget: one that
\* finds a token changes nothing.
AskToken(a) ==
    /\ starting = "serving" /\ asking[a] = "idle"
    /\ token = 0
    /\ asking' = [asking EXCEPT ![a] = "first"]
    /\ UNCHANGED <<keyVars, token, tokens, lateReads, rotations>>

Rotate(a) ==
    /\ starting = "serving" /\ asking[a] = "idle"
    /\ rotations < MaxTokens
    /\ asking' = [asking EXCEPT ![a] = "rotate"]
    /\ rotations' = rotations + 1
    /\ UNCHANGED <<keyVars, token, tokens, lateReads>>

\* rotateWidgetToken
MakeToken(a) ==
    /\ a \in Making
    /\ tokens < MaxTokens
    /\ tokens' = tokens + 1 /\ token' = tokens + 1
    /\ asking' = [asking EXCEPT ![a] = "idle"]
    /\ lateReads' = IF token = 0 THEN {b \in Askers \ {a} : asking[b] = "first"} ELSE lateReads
    /\ UNCHANGED <<keyVars, rotations>>

SettingsNext ==
    \/ Starts \/ ReadKeys \/ WritePublic \/ WritePrivate \/ Dies
    \/ \E a \in Askers : AskToken(a) \/ Rotate(a) \/ MakeToken(a)

SettingsSpec == SettingsInit /\ [][SettingsNext]_settingsVars

-----------------------------------------------------------------------------
(* Properties                                                              *)

\* The process never serves with halves of two pairs, wherever earlier starts
\* were cut off.
KeysMatch == keys.pub = keys.priv /\ (starting = "serving" => keys.pub # 0)

\* Browsers subscribe with the public key: once the process has served with a
\* pair, every later start serves with the same.
KeysStay == [][served # 0 => served' = served]_settingsVars

\* A token that was shown goes on working: it is replaced only by a rotation, or
\* by a first request that overlapped the one that made it.
TokensBounded == tokens <= 1 + rotations + Cardinality(lateReads)
=============================================================================
