------------------------------ MODULE Accounts ------------------------------
(***************************************************************************)
(* The admin account and the limit on logins (internal/auth/auth.go, the   *)
(* table users, and the handlers of internal/api/api.go that use them),    *)
(* with requests that overlap.                                             *)
(*                                                                         *)
(* A setup looks for an account, hashes its password and inserts the       *)
(* account; a login asks the limiter, compares the password, and only then *)
(* reports a failure to the limiter.  The limiter has a lock of its own,   *)
(* but nothing spans these steps.                                          *)
(*                                                                         *)
(* Left out: sessions and cookies, which no other request touches; the     *)
(* rules for names and passwords; failing database calls.                  *)
(***************************************************************************)
EXTENDS Integers, FiniteSets

CONSTANTS
    Browsers,   \* the browsers, each with one request at a time
    Remotes,    \* the addresses they come from
    RemoteOf,   \* RemoteOf[b]: the address of b
    Names,      \* account names that differ in more than their case
    MaxFails,   \* Limiter.max
    Window      \* Limiter.window, in steps of the clock

ASSUME BrowsersAssumption ==
    /\ IsFiniteSet(Browsers)
    /\ RemoteOf \in [Browsers -> Remotes]
ASSUME RemotesAssumption  == \A a \in Remotes : \E b \in Browsers : RemoteOf[b] = a
ASSUME LimiterAssumption  == {MaxFails, Window} \subseteq Nat \ {0}

VARIABLES
    accounts,  \* the names in table users
    fails,     \* fails[a]: Limiter.fails: count of failures, and time since the first
    request,   \* request[b]: the step of the request of b, its name, and whether its
               \* password is right
    late,      \* history: setups that had found no account when the first was created
    failedAgo  \* history: failedAgo[a][k]: how long ago the k-th last failed attempt of
               \* a was, of those since its last right login; at most Window

accountsVars == <<accounts, fails, request, late, failedAgo>>

NoRequest == [step |-> "idle"]
Requests  == [step : {"insert", "allow", "compare"}, name : Names, right : BOOLEAN]
NoFails   == [count |-> 0, age |-> 0]
At(step)  == {b \in Browsers : request[b].step = step}

\* The failures that one window of the limiter can hold for a: those that it
\* counts up to its limit, and the others that passed it together with the last.
Of(a)          == {b \in Browsers : RemoteOf[b] = a}
WindowHolds(a) == MaxFails + Cardinality(Of(a)) - 1
Attempts       == 1..(2 * (MaxFails + Cardinality(Browsers)))

AccountsTypeOK ==
    /\ accounts \subseteq Names
    /\ fails \in [Remotes -> [count : Nat, age : 0..Window]]
    /\ request \in [Browsers -> Requests \cup {NoRequest}]
    /\ late \subseteq Browsers
    /\ failedAgo \in [Remotes -> [Attempts -> 0..Window]]

AccountsInit ==
    /\ accounts = {}
    /\ fails = [a \in Remotes |-> NoFails]
    /\ request = [b \in Browsers |-> NoRequest]
    /\ late = {}
    /\ failedAgo = [a \in Remotes |-> [k \in Attempts |-> Window]]

TimePasses ==
    /\ fails' = [a \in Remotes |-> IF fails[a].count > 0 /\ fails[a].age < Window
                                     THEN [fails[a] EXCEPT !.age = @ + 1] ELSE fails[a]]
    /\ failedAgo' = [a \in Remotes |-> [k \in Attempts |->
                       IF failedAgo[a][k] < Window THEN failedAgo[a][k] + 1 ELSE Window]]
    /\ UNCHANGED <<accounts, request, late>>

Goes(b, step) == request' = [request EXCEPT ![b].step = step]
Ends(b)       == request' = [request EXCEPT ![b] = NoRequest]

\* Mutant: the setup does not look for an account.
SetupBlindly(b, name) ==
    /\ request[b] = NoRequest
    /\ request' = [request EXCEPT ![b] = [step |-> "insert", name |-> name, right |-> TRUE]]
    /\ UNCHANGED <<accounts, fails, late, failedAgo>>

\* NeedsSetup: no account yet.  The hash of the password takes its time.
Setup(b, name) ==
    /\ request[b] = NoRequest
    /\ accounts = {}
    /\ request' = [request EXCEPT ![b] = [step |-> "insert", name |-> name, right |-> TRUE]]
    /\ UNCHANGED <<accounts, fails, late, failedAgo>>

\* The name must be new; then the setup signs in.
CreateUser(b) ==
    /\ b \in At("insert")
    /\ IF request[b].name \in accounts THEN Ends(b) ELSE Goes(b, "allow")
    /\ accounts' = accounts \cup {request[b].name}
    /\ late' = IF accounts = {} THEN At("insert") \ {b} ELSE late
    /\ UNCHANGED <<fails, failedAgo>>

BeginLogin(b, name, right) ==
    /\ request[b] = NoRequest
    /\ request' = [request EXCEPT ![b] = [step |-> "allow", name |-> name, right |-> right]]
    /\ UNCHANGED <<accounts, fails, late, failedAgo>>

Locked(a) == fails[a].count >= MaxFails /\ fails[a].age < Window

\* Mutant: the limiter lets one attempt too many through.
AllowOneMore(b) ==
    /\ b \in At("allow")
    /\ IF Locked(RemoteOf[b]) /\ fails[RemoteOf[b]].count > MaxFails
         THEN Ends(b) ELSE Goes(b, "compare")
    /\ UNCHANGED <<accounts, fails, late, failedAgo>>

\* Mutant: every refused attempt starts the window anew.
AllowExtends(b) ==
    /\ b \in At("allow")
    /\ IF Locked(RemoteOf[b])
         THEN fails' = [fails EXCEPT ![RemoteOf[b]].age = 0] /\ Ends(b)
         ELSE Goes(b, "compare") /\ UNCHANGED fails
    /\ UNCHANGED <<accounts, late, failedAgo>>

\* Limiter.Allow refuses while the window of the failures lasts, and forgets
\* them when it is over.
Allow(b) ==
    /\ b \in At("allow")
    /\ IF Locked(RemoteOf[b]) THEN Ends(b) ELSE Goes(b, "compare")
    /\ fails' = IF fails[RemoteOf[b]].age < Window THEN fails
                ELSE [fails EXCEPT ![RemoteOf[b]] = NoFails]
    /\ UNCHANGED <<accounts, late, failedAgo>>

\* Limiter.Fail opens a new window when there is none, or the last is over.
Fail(a) ==
    /\ fails' = [fails EXCEPT ![a] =
                     IF fails[a].count = 0 \/ fails[a].age >= Window
                       THEN [count |-> 1, age |-> 0]
                       ELSE [count |-> fails[a].count + 1, age |-> fails[a].age]]
    /\ failedAgo' = [failedAgo EXCEPT ![a] =
                        [k \in Attempts |-> IF k = 1 THEN 0 ELSE failedAgo[a][k - 1]]]

Reset(a) ==
    /\ fails' = [fails EXCEPT ![a] = NoFails]
    /\ failedAgo' = [failedAgo EXCEPT ![a] = [k \in Attempts |-> Window]]

\* bcrypt, and what the limiter is told of it.
ComparePassword(b) ==
    /\ b \in At("compare")
    /\ IF request[b].right /\ request[b].name \in accounts
         THEN Reset(RemoteOf[b]) ELSE Fail(RemoteOf[b])
    /\ Ends(b)
    /\ UNCHANGED <<accounts, late>>

RequestStep(b) == CreateUser(b) \/ Allow(b) \/ ComparePassword(b)

AccountsNext ==
    \/ TimePasses
    \/ \E b \in Browsers :
         \/ \E name \in Names : Setup(b, name) \/ \E right \in BOOLEAN : BeginLogin(b, name, right)
         \/ RequestStep(b)

AccountsSpec == AccountsInit /\ [][AccountsNext]_accountsVars

-----------------------------------------------------------------------------
(* Properties                                                              *)

\* What the limiter does hold an address to that sends n requests at a time:
\* in less time than its window, and without a right login between them, fewer
\* than 2 * (MaxFails + n - 1) attempts fail.  The limit is passed by the n - 1
\* that Allow let through beside the last one it counts, and n is not limited;
\* it is had twice where one window ends and the next begins; and a right login
\* starts anew.
FailuresBounded ==
    \A a \in Remotes : failedAgo[a][2 * WindowHolds(a)] >= Window

\* The README: "limited to five failed attempts per address in fifteen minutes".
\* The attempt that is one more than the limit is a window away.
FailuresLimited ==
    \A a \in Remotes : failedAgo[a][MaxFails + 1] >= Window

\* There is a single admin account, but for one more by each setup that was
\* already past its check when the first was created.
OneAccountUnlessLate == Cardinality(accounts) <= 1 + Cardinality(late)

\* A lock ends, also when the locked address goes on trying.
LockEnds == \A a \in Remotes : Locked(a) ~> ~Locked(a)
=============================================================================
