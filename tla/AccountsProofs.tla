--------------------------- MODULE AccountsProofs ---------------------------
(***************************************************************************)
(* Theorems about Accounts, for any number of browsers, addresses and      *)
(* names, and any limit.                                                   *)
(***************************************************************************)
EXTENDS Accounts, FiniteSetTheorems, TLAPS

\* The browsers of an address whose password is being compared.
Comparing(a) == {b \in Of(a) : request[b].step = "compare"}

\* A request under way may become one more failure.
FailuresToCome ==
    \A a \in Remotes :
      fails[a].count + Cardinality(Comparing(a)) < MaxFails + Cardinality(Of(a))

\* The failures of an address, the newest first: as many as the limiter counts
\* belong to its window, which began with the oldest of them.  The window before
\* began at least its length earlier, and held no more than a window can.
Spans(a) ==
    /\ \A i, j \in Attempts : i <= j => failedAgo[a][i] <= failedAgo[a][j]
    /\ fails[a].count > 0 => failedAgo[a][fails[a].count] = fails[a].age
    /\ failedAgo[a][fails[a].count + WindowHolds(a)] = Window

\* Once there is an account, only late setups can still insert another.
InsertsAreLate ==
    /\ IsFiniteSet(accounts)
    /\ accounts = {} => late = {}
    /\ accounts # {} => At("insert") \subseteq late
    /\ Cardinality(accounts) <= 1 + Cardinality(late \ At("insert"))

USE BrowsersAssumption, LimiterAssumption

-----------------------------------------------------------------------------
(* Counting browsers.                                                      *)

\* Sets of browsers are finite, so they can be counted.
LEMMA BrowsersFinite ==
    /\ \A S \in SUBSET Browsers : IsFiniteSet(S) /\ Cardinality(S) \in Nat
    /\ \A a \in Remotes : Of(a) \subseteq Browsers /\ Comparing(a) \subseteq Of(a)
    /\ \A a \in Remotes : /\ Cardinality(Of(a)) \in Nat \ {0}
                          /\ Cardinality(Of(a)) <= Cardinality(Browsers)
<1>1. \A S \in SUBSET Browsers : IsFiniteSet(S)
  BY FS_Subset
<1>2. \A a \in Remotes : /\ Cardinality(Of(a)) \in Nat \ {0}
                         /\ Cardinality(Of(a)) <= Cardinality(Browsers)
  <2> SUFFICES ASSUME NEW a \in Remotes
               PROVE  /\ Cardinality(Of(a)) \in Nat \ {0}
                      /\ Cardinality(Of(a)) <= Cardinality(Browsers)
    OBVIOUS
  <2>1. Of(a) \subseteq Browsers /\ Of(a) # {}
    BY RemotesAssumption DEF Of
  <2>. QED BY <1>1, <2>1, FS_Subset, FS_EmptySet, FS_CardinalityType
<1>. QED BY <1>1, <1>2, FS_CardinalityType DEF Of, Comparing

\* The attempts are numbered from 1 without a gap.
LEMMA AttemptsCounted ==
    /\ Attempts \subseteq Nat \ {0}
    /\ 1 \in Attempts
    /\ \A n \in Attempts : \A m \in Nat \ {0} : m <= n => m \in Attempts
<1>1. Cardinality(Browsers) \in Nat
  BY FS_CardinalityType
<1>. QED BY <1>1 DEF Attempts

\* What the failures of an address are counted with, and where they end.
LEMMA Counted ==
    ASSUME AccountsTypeOK, FailuresToCome, NEW a \in Remotes
    PROVE  /\ WindowHolds(a) \in Nat \ {0}
           /\ fails[a].count \in 0..WindowHolds(a)
           /\ fails[a].count + WindowHolds(a) \in Attempts
           /\ 2 * WindowHolds(a) \in Attempts /\ WindowHolds(a) \in Attempts
<1>1. /\ Cardinality(Of(a)) \in Nat \ {0} /\ Cardinality(Browsers) \in Nat
      /\ Cardinality(Of(a)) <= Cardinality(Browsers)
      /\ Cardinality(Comparing(a)) \in Nat
  BY BrowsersFinite
<1>2. fails[a].count \in Nat /\ fails[a].count + Cardinality(Comparing(a)) < MaxFails + Cardinality(Of(a))
  BY DEF AccountsTypeOK, FailuresToCome
<1>. QED BY <1>1, <1>2 DEF WindowHolds, Attempts

-----------------------------------------------------------------------------
(* Types.                                                                  *)

\* At the start the variables have their types.
LEMMA AccountsInitTypes == AccountsInit => AccountsTypeOK
<1>1. Window \in 0..Window
  OBVIOUS
<1>. QED BY <1>1 DEF AccountsInit, AccountsTypeOK, NoFails, NoRequest

\* Every step keeps the types.
LEMMA AccountsNextTypes == AccountsTypeOK /\ [AccountsNext]_accountsVars => AccountsTypeOK'
<1> SUFFICES ASSUME AccountsTypeOK, [AccountsNext]_accountsVars
             PROVE  AccountsTypeOK'
  OBVIOUS
<1>a. request \in [Browsers -> Requests \cup {NoRequest}]
  BY DEF AccountsTypeOK
<1>b. fails \in [Remotes -> [count : Nat, age : 0..Window]]
  BY DEF AccountsTypeOK
<1>c. failedAgo \in [Remotes -> [Attempts -> 0..Window]]
  BY DEF AccountsTypeOK
<1>1. CASE TimePasses
  <2>1. \A a \in Remotes : fails'[a] \in [count : Nat, age : 0..Window]
    BY <1>1, <1>b DEF TimePasses
  <2>2. failedAgo' \in [Remotes -> [Attempts -> 0..Window]]
    BY <1>1, <1>c DEF TimePasses
  <2>. QED BY <1>1, <2>1, <2>2 DEF TimePasses, AccountsTypeOK
<1>2. ASSUME NEW b \in Browsers, NEW name \in Names, Setup(b, name)
      PROVE  AccountsTypeOK'
  <2>1. request' \in [Browsers -> Requests \cup {NoRequest}]
    BY <1>2, <1>a DEF Setup, Requests
  <2>. QED BY <1>2, <2>1 DEF Setup, AccountsTypeOK
<1>3. ASSUME NEW b \in Browsers, NEW name \in Names, NEW right \in BOOLEAN, BeginLogin(b, name, right)
      PROVE  AccountsTypeOK'
  <2>1. request' \in [Browsers -> Requests \cup {NoRequest}]
    BY <1>3, <1>a DEF BeginLogin, Requests
  <2>. QED BY <1>3, <2>1 DEF BeginLogin, AccountsTypeOK
<1>4. ASSUME NEW b \in Browsers, CreateUser(b)
      PROVE  AccountsTypeOK'
  <2>1. request[b] \in Requests
    BY <1>4, <1>a DEF CreateUser, At, NoRequest
  <2>2. request' \in [Browsers -> Requests \cup {NoRequest}]
    BY <1>4, <1>a, <2>1 DEF CreateUser, Ends, Goes, Requests
  <2>3. late' \subseteq Browsers
    BY <1>4 DEF CreateUser, At, AccountsTypeOK
  <2>. QED BY <1>4, <2>1, <2>2, <2>3 DEF CreateUser, AccountsTypeOK, Requests
<1>5. ASSUME NEW b \in Browsers, Allow(b)
      PROVE  AccountsTypeOK'
  <2>1. request[b] \in Requests
    BY <1>5, <1>a DEF Allow, At, NoRequest
  <2>2. request' \in [Browsers -> Requests \cup {NoRequest}]
    BY <1>5, <1>a, <2>1 DEF Allow, Ends, Goes, Requests
  <2>. QED BY <1>5, <2>2 DEF Allow, AccountsTypeOK, NoFails
<1>6. ASSUME NEW b \in Browsers, ComparePassword(b)
      PROVE  AccountsTypeOK'
  <2>1. fails' \in [Remotes -> [count : Nat, age : 0..Window]]
    BY <1>6, <1>b DEF ComparePassword, Fail, Reset, NoFails
  <2>2. [k \in Attempts |-> IF k = 1 THEN 0 ELSE failedAgo[RemoteOf[b]][k - 1]]
          \in [Attempts -> 0..Window]
    <3>1. \A k \in Attempts : k # 1 => k - 1 \in Attempts
      BY AttemptsCounted
    <3>2. RemoteOf[b] \in Remotes /\ Window \in Nat
      OBVIOUS
    <3>3. failedAgo[RemoteOf[b]] \in [Attempts -> 0..Window]
      BY <1>c, <3>2
    <3>. QED BY <3>1, <3>2, <3>3
  <2>3. failedAgo' \in [Remotes -> [Attempts -> 0..Window]]
    BY <1>6, <1>c, <2>2 DEF ComparePassword, Fail, Reset
  <2>4. request' \in [Browsers -> Requests \cup {NoRequest}]
    BY <1>6, <1>a DEF ComparePassword, Ends
  <2>. QED BY <1>6, <2>1, <2>3, <2>4 DEF ComparePassword, AccountsTypeOK
<1>7. CASE UNCHANGED accountsVars
  BY <1>7 DEF accountsVars, AccountsTypeOK
<1>. QED BY <1>1, <1>2, <1>3, <1>4, <1>5, <1>6, <1>7 DEF AccountsNext, RequestStep

\* The variables keep to their types.
THEOREM AccountsTypeCorrect == AccountsSpec => []AccountsTypeOK
<1>. QED BY AccountsInitTypes, AccountsNextTypes, PTL DEF AccountsSpec

-----------------------------------------------------------------------------
(* The limiter.                                                            *)

\* What changes of one request b, and of the failures at its address, keeps the
\* bound if it does for that address.
LEMMA OneAddress ==
    ASSUME FailuresToCome, AccountsTypeOK, AccountsTypeOK', NEW b \in Browsers,
           \A c \in Browsers \ {b} : request'[c] = request[c],
           \A a \in Remotes \ {RemoteOf[b]} : fails'[a] = fails[a],
           fails'[RemoteOf[b]].count + Cardinality(Comparing(RemoteOf[b])')
             < MaxFails + Cardinality(Of(RemoteOf[b]))
    PROVE  FailuresToCome'
<1> SUFFICES ASSUME NEW a \in Remotes
             PROVE  fails'[a].count + Cardinality(Comparing(a)') < MaxFails + Cardinality(Of(a))
  BY DEF FailuresToCome, Of
<1>1. CASE a = RemoteOf[b]
  BY <1>1
<1>2. CASE a # RemoteOf[b]
  <2>1. Comparing(a)' = Comparing(a)
    BY <1>2 DEF Comparing, Of
  <2>. QED BY <1>2, <2>1 DEF FailuresToCome
<1>. QED BY <1>1, <1>2

\* At the start no failure is counted.
LEMMA InitFailures == AccountsInit => FailuresToCome
<1> SUFFICES ASSUME AccountsInit, NEW a \in Remotes
             PROVE  fails[a].count + Cardinality(Comparing(a)) < MaxFails + Cardinality(Of(a))
  BY DEF FailuresToCome
<1>1. Comparing(a) = {}
  BY DEF AccountsInit, Comparing, Of, NoRequest
<1>2. fails[a].count = 0 /\ Cardinality(Comparing(a)) = 0
  BY <1>1, FS_EmptySet DEF AccountsInit, NoFails
<1>3. Cardinality(Of(a)) \in Nat
  BY BrowsersFinite
<1>. QED BY <1>2, <1>3

\* No step lets more failures come than there are browsers comparing.
LEMMA NextFailures ==
    /\ AccountsTypeOK /\ AccountsTypeOK' /\ FailuresToCome
    /\ [AccountsNext]_accountsVars
    => FailuresToCome'
<1> SUFFICES ASSUME AccountsTypeOK, AccountsTypeOK', FailuresToCome, [AccountsNext]_accountsVars
             PROVE  FailuresToCome'
  OBVIOUS
<1>0. \A a \in Remotes : /\ Cardinality(Of(a)) \in Nat
                         /\ Cardinality(Comparing(a)) \in Nat
                         /\ fails[a].count \in Nat /\ fails'[a].count \in Nat
  BY BrowsersFinite DEF AccountsTypeOK
<1>1. CASE TimePasses
  <2>1. \A a \in Remotes : fails'[a].count = fails[a].count
    BY <1>1 DEF TimePasses, AccountsTypeOK
  <2>2. \A a \in Remotes : Comparing(a)' = Comparing(a)
    BY <1>1 DEF TimePasses, Comparing, Of
  <2>. QED BY <2>1, <2>2 DEF FailuresToCome, Of
<1>2. ASSUME NEW b \in Browsers,
             UNCHANGED fails,
             \A c \in Browsers \ {b} : request'[c] = request[c],
             request'[b].step # "compare"
      PROVE  FailuresToCome'
  <2>1. RemoteOf[b] \in Remotes
    OBVIOUS
  <2>2. /\ Comparing(RemoteOf[b])' \subseteq Comparing(RemoteOf[b])
        /\ Comparing(RemoteOf[b]) \subseteq Browsers
    BY <1>2 DEF Comparing, Of
  <2>3. /\ Cardinality(Comparing(RemoteOf[b])') <= Cardinality(Comparing(RemoteOf[b]))
        /\ Cardinality(Comparing(RemoteOf[b])') \in Nat
    BY <2>2, BrowsersFinite, FS_Subset
  <2>4. fails'[RemoteOf[b]].count + Cardinality(Comparing(RemoteOf[b])')
          < MaxFails + Cardinality(Of(RemoteOf[b]))
    BY <1>0, <1>2, <2>1, <2>3 DEF FailuresToCome
  <2>. QED BY <1>2, <2>4, OneAddress
<1>3. ASSUME NEW b \in Browsers, NEW name \in Names, Setup(b, name)
      PROVE  FailuresToCome'
  BY <1>2, <1>3 DEF Setup, AccountsTypeOK
<1>4. ASSUME NEW b \in Browsers, NEW name \in Names, NEW right \in BOOLEAN, BeginLogin(b, name, right)
      PROVE  FailuresToCome'
  BY <1>2, <1>4 DEF BeginLogin, AccountsTypeOK
<1>5. ASSUME NEW b \in Browsers, CreateUser(b)
      PROVE  FailuresToCome'
  <2>1. request[b] \in Requests
    BY <1>5 DEF CreateUser, At, NoRequest, AccountsTypeOK
  <2>2. request'[b].step # "compare" /\ \A c \in Browsers \ {b} : request'[c] = request[c]
    BY <1>5, <2>1 DEF CreateUser, Ends, Goes, NoRequest, Requests, AccountsTypeOK
  <2>. QED BY <1>2, <1>5, <2>2 DEF CreateUser
<1>6. ASSUME NEW b \in Browsers, Allow(b)
      PROVE  FailuresToCome'
  <2>1. request[b] \in Requests /\ RemoteOf[b] \in Remotes
    BY <1>6 DEF Allow, At, NoRequest, AccountsTypeOK
  <2>2. CASE Locked(RemoteOf[b])
    <3>1. UNCHANGED fails
      BY <1>6, <2>2 DEF Allow, Locked
    <3>2. request'[b].step # "compare" /\ \A c \in Browsers \ {b} : request'[c] = request[c]
      BY <1>6, <2>1, <2>2 DEF Allow, Ends, NoRequest, AccountsTypeOK
    <3>. QED BY <1>2, <3>1, <3>2
  <2>3. CASE ~Locked(RemoteOf[b])
    <3>1. fails'[RemoteOf[b]].count < MaxFails
      BY <1>6, <2>1, <2>3 DEF Allow, Locked, NoFails, AccountsTypeOK
    <3>2. /\ \A c \in Browsers \ {b} : request'[c] = request[c]
          /\ \A a \in Remotes \ {RemoteOf[b]} : fails'[a] = fails[a]
      BY <1>6, <2>1, <2>3 DEF Allow, Goes, AccountsTypeOK
    <3>3. Comparing(RemoteOf[b])' \subseteq Of(RemoteOf[b]) /\ Of(RemoteOf[b]) \subseteq Browsers
      BY DEF Comparing, Of
    <3>4. /\ Cardinality(Comparing(RemoteOf[b])') <= Cardinality(Of(RemoteOf[b]))
          /\ Cardinality(Comparing(RemoteOf[b])') \in Nat
      BY <3>3, BrowsersFinite, FS_Subset
    <3>5. fails'[RemoteOf[b]].count + Cardinality(Comparing(RemoteOf[b])')
            < MaxFails + Cardinality(Of(RemoteOf[b]))
      BY <1>0, <2>1, <3>1, <3>4
    <3>. QED BY <3>2, <3>5, OneAddress
  <2>. QED BY <2>2, <2>3
<1>7. ASSUME NEW b \in Browsers, ComparePassword(b)
      PROVE  FailuresToCome'
  <2>1. RemoteOf[b] \in Remotes /\ b \in Comparing(RemoteOf[b])
    BY <1>7 DEF ComparePassword, At, Comparing, Of
  <2>2. /\ \A c \in Browsers \ {b} : request'[c] = request[c]
        /\ \A a \in Remotes \ {RemoteOf[b]} : fails'[a] = fails[a]
    BY <1>7, <2>1 DEF ComparePassword, Fail, Reset, Ends, AccountsTypeOK
  <2>3. fails'[RemoteOf[b]].count <= fails[RemoteOf[b]].count + 1
    BY <1>7, <2>1 DEF ComparePassword, Fail, Reset, NoFails, AccountsTypeOK
  <2>4. Comparing(RemoteOf[b])' = Comparing(RemoteOf[b]) \ {b}
    BY <1>7, <2>1, <2>2 DEF ComparePassword, Ends, Comparing, Of, NoRequest, AccountsTypeOK
  <2>5. Cardinality(Comparing(RemoteOf[b])') = Cardinality(Comparing(RemoteOf[b])) - 1
    <3>1. IsFiniteSet(Comparing(RemoteOf[b]))
      BY <2>1, BrowsersFinite
    <3>2. Cardinality(Comparing(RemoteOf[b]) \ {b}) = Cardinality(Comparing(RemoteOf[b])) - 1
      BY <2>1, <3>1, FS_RemoveElement
    <3>. QED BY <2>4, <3>2
  <2>6. fails'[RemoteOf[b]].count + Cardinality(Comparing(RemoteOf[b])')
          < MaxFails + Cardinality(Of(RemoteOf[b]))
    BY <1>0, <2>1, <2>3, <2>5 DEF FailuresToCome
  <2>. QED BY <2>2, <2>6, OneAddress
<1>8. CASE UNCHANGED accountsVars
  BY <1>8 DEF accountsVars, FailuresToCome, Comparing, Of
<1>. QED BY <1>1, <1>3, <1>4, <1>5, <1>6, <1>7, <1>8 DEF AccountsNext, RequestStep

\* At the start no attempt has failed.
LEMMA InitSpans == AccountsInit => \A a \in Remotes : Spans(a)
<1> SUFFICES ASSUME AccountsInit, NEW a \in Remotes
             PROVE  Spans(a)
  OBVIOUS
<1>1. fails[a].count = 0 /\ \A k \in Attempts : failedAgo[a][k] = Window
  BY DEF AccountsInit, NoFails
<1>2. 0 + WindowHolds(a) \in Attempts
  BY <1>1, AccountsInitTypes, InitFailures, Counted
<1>. QED BY <1>1, <1>2 DEF Spans

\* One more failure of an address.
LEMMA FailSpans ==
    ASSUME AccountsTypeOK, AccountsTypeOK', FailuresToCome, FailuresToCome',
           NEW a \in Remotes, Spans(a), Fail(a)
    PROVE  Spans(a)'
<1>. DEFINE L == WindowHolds(a)
            c == fails[a].count
            s == failedAgo[a]
            t == failedAgo'[a]
<1>1. /\ L \in Nat \ {0} /\ c \in 0..L /\ c + L \in Attempts /\ L \in Attempts
      /\ fails[a].age \in 0..Window
      /\ s \in [Attempts -> 0..Window]
  BY Counted DEF AccountsTypeOK
<1>2. fails'[a].count \in 0..L /\ fails'[a].count + L \in Attempts
  <2>1. fails'[a].count \in Nat /\ Cardinality(Comparing(a)') \in Nat
    <3>1. Comparing(a)' \subseteq Browsers
      BY DEF Comparing, Of
    <3>. QED BY <3>1, BrowsersFinite DEF AccountsTypeOK
  <2>2. fails'[a].count + Cardinality(Comparing(a)') < MaxFails + Cardinality(Of(a))
    BY DEF FailuresToCome, Of
  <2>3. fails'[a].count \in 0..L
    BY <2>1, <2>2, BrowsersFinite DEF WindowHolds
  <2>4. L + L \in Attempts
    BY <1>1, Counted
  <2>. QED BY <1>1, <2>1, <2>3, <2>4, AttemptsCounted
<1>3. t = [k \in Attempts |-> IF k = 1 THEN 0 ELSE s[k - 1]]
  BY DEF Fail, AccountsTypeOK
<1>4. 1 \in Attempts /\ \A k \in Attempts : k \in Nat \ {0} /\ (k # 1 => k - 1 \in Attempts)
  BY AttemptsCounted
<1>5. \A i, j \in Attempts : i <= j => s[i] <= s[j]
  BY DEF Spans
<1>6. \A i, j \in Attempts : i <= j => t[i] <= t[j]
  <2> SUFFICES ASSUME NEW i \in Attempts, NEW j \in Attempts, i <= j
               PROVE  t[i] <= t[j]
    OBVIOUS
  <2>. HIDE DEF s, t
  <2>1. CASE i = 1
    <3>1. t[i] = 0 /\ t[j] \in 0..Window
      BY <1>1, <1>3, <1>4, <2>1
    <3>. QED BY <3>1
  <2>2. CASE i # 1
    <3>1. i - 1 <= j - 1 /\ j # 1 /\ i - 1 \in Attempts /\ j - 1 \in Attempts
      BY <1>4, <2>2
    <3>. QED BY <1>3, <1>5, <2>2, <3>1
  <2>. QED BY <2>1, <2>2
<1>7. CASE c = 0 \/ fails[a].age >= Window
  <2>1. fails'[a].count = 1 /\ fails'[a].age = 0
    BY <1>7 DEF Fail, AccountsTypeOK
  <2>2. s[L] = Window
    <3>1. CASE c = 0
      BY <1>1, <3>1 DEF Spans
    <3>2. CASE c # 0
      <4>1. c \in Attempts /\ c <= L /\ s[c] = Window
        BY <1>1, <1>7, <3>2, AttemptsCounted DEF Spans
      <4>2. s[c] <= s[L] /\ s[L] \in 0..Window
        BY <1>1, <1>5, <4>1
      <4>. QED BY <4>1, <4>2
    <3>. QED BY <3>1, <3>2
  <2>3. t[1] = 0 /\ t[1 + L] = Window
    <3>1. 1 + L \in Attempts /\ 1 + L # 1 /\ (1 + L) - 1 = L
      BY <1>1, <1>2, <2>1
    <3>. HIDE DEF s, t, L
    <3>. QED BY <1>3, <1>4, <2>2, <3>1
  <2>. QED BY <1>6, <2>1, <2>3 DEF Spans, WindowHolds, Of, Attempts
<1>8. CASE c # 0 /\ fails[a].age < Window
  <2>1. fails'[a].count = c + 1 /\ fails'[a].age = fails[a].age
    BY <1>1, <1>8 DEF Fail, AccountsTypeOK
  <2>2. s[c] = fails[a].age /\ s[c + L] = Window
    BY <1>1, <1>8 DEF Spans
  <2>3. t[c + 1] = fails[a].age /\ t[(c + 1) + L] = Window
    <3>1. /\ c + 1 \in Attempts /\ c + 1 # 1 /\ (c + 1) - 1 = c
          /\ (c + 1) + L \in Attempts /\ (c + 1) + L # 1 /\ ((c + 1) + L) - 1 = c + L
      BY <1>1, <1>2, <1>8, <2>1, AttemptsCounted
    <3>. HIDE DEF s, t, L, c
    <3>. QED BY <1>3, <2>2, <3>1
  <2>. QED BY <1>6, <2>1, <2>3 DEF Spans, WindowHolds, Of, Attempts
<1>. QED BY <1>1, <1>7, <1>8

\* Every step keeps what the limiter counts in line with what failed.
LEMMA NextSpans ==
    /\ AccountsTypeOK /\ AccountsTypeOK' /\ FailuresToCome /\ FailuresToCome'
    /\ \A a \in Remotes : Spans(a)
    /\ [AccountsNext]_accountsVars
    => (\A a \in Remotes : Spans(a))'
<1> SUFFICES ASSUME AccountsTypeOK, AccountsTypeOK', FailuresToCome, FailuresToCome',
                    \A a \in Remotes : Spans(a),
                    [AccountsNext]_accountsVars,
                    NEW a \in Remotes
             PROVE  Spans(a)'
  OBVIOUS
<1>. DEFINE L == WindowHolds(a)
            c == fails[a].count
            s == failedAgo[a]
<1>0. /\ L \in Nat \ {0} /\ c \in 0..L /\ c + L \in Attempts /\ L \in Attempts
      /\ fails[a].age \in 0..Window
      /\ s \in [Attempts -> 0..Window]
      /\ Spans(a)
  BY Counted DEF AccountsTypeOK
<1>1. ASSUME fails'[a] = fails[a], failedAgo'[a] = failedAgo[a]
      PROVE  Spans(a)'
  BY <1>0, <1>1 DEF Spans, WindowHolds, Of, Attempts
<1>2. CASE TimePasses
  <2>1. /\ fails'[a] = IF c > 0 /\ fails[a].age < Window
                         THEN [fails[a] EXCEPT !.age = @ + 1] ELSE fails[a]
        /\ failedAgo'[a] = [k \in Attempts |-> IF s[k] < Window THEN s[k] + 1 ELSE Window]
    BY <1>2 DEF TimePasses
  <2>2. /\ fails'[a].count = c
        /\ c > 0 => fails'[a].age = IF fails[a].age < Window THEN fails[a].age + 1 ELSE fails[a].age
    BY <2>1 DEF AccountsTypeOK
  <2>3. \A i, j \in Attempts : i <= j => failedAgo'[a][i] <= failedAgo'[a][j]
    <3> SUFFICES ASSUME NEW i \in Attempts, NEW j \in Attempts, i <= j
                 PROVE  failedAgo'[a][i] <= failedAgo'[a][j]
      OBVIOUS
    <3>1. s[i] <= s[j] /\ s[i] \in 0..Window /\ s[j] \in 0..Window
      BY <1>0 DEF Spans
    <3>. QED BY <2>1, <3>1
  <2>4. c > 0 => failedAgo'[a][c] = fails'[a].age
    <3> SUFFICES ASSUME c > 0
                 PROVE  failedAgo'[a][c] = fails'[a].age
      OBVIOUS
    <3>1. c \in Attempts /\ s[c] = fails[a].age
      BY <1>0, AttemptsCounted DEF Spans
    <3>. QED BY <1>0, <2>1, <2>2, <3>1
  <2>5. failedAgo'[a][c + L] = Window
    BY <1>0, <2>1 DEF Spans
  <2>. QED BY <2>2, <2>3, <2>4, <2>5 DEF Spans, WindowHolds, Of, Attempts
<1>3. ASSUME NEW b \in Browsers, Allow(b)
      PROVE  Spans(a)'
  <2>1. failedAgo'[a] = failedAgo[a]
    BY <1>3 DEF Allow
  <2>2. CASE fails'[a] = fails[a]
    BY <1>1, <2>1, <2>2
  <2>3. CASE fails'[a] # fails[a]
    <3>1. fails'[a] = NoFails /\ fails[a].age >= Window
      BY <1>3, <2>3 DEF Allow, AccountsTypeOK
    <3>2. s[L] = Window
      <4>1. CASE c = 0
        BY <1>0, <4>1 DEF Spans
      <4>2. CASE c # 0
        <5>1. c \in Attempts /\ c <= L /\ s[c] = Window
          BY <1>0, <3>1, <4>2, AttemptsCounted DEF Spans
        <5>2. s[c] <= s[L] /\ s[L] \in 0..Window
          BY <1>0, <5>1 DEF Spans
        <5>. QED BY <5>1, <5>2
      <4>. QED BY <4>1, <4>2
    <3>3. fails'[a].count = 0 /\ 0 + L = L
      BY <1>0, <3>1 DEF NoFails
    <3>. QED BY <1>0, <2>1, <3>2, <3>3 DEF Spans, WindowHolds, Of, Attempts
  <2>. QED BY <2>2, <2>3
<1>4. ASSUME NEW b \in Browsers, ComparePassword(b)
      PROVE  Spans(a)'
  <2>1. CASE RemoteOf[b] # a
    BY <1>1, <1>4, <2>1 DEF ComparePassword, Fail, Reset, AccountsTypeOK
  <2>2. CASE RemoteOf[b] = a /\ Fail(a)
    BY <1>0, <2>2, FailSpans
  <2>3. CASE RemoteOf[b] = a /\ Reset(a)
    <3>1. fails'[a].count = 0 /\ failedAgo'[a] = [k \in Attempts |-> Window]
      BY <2>3 DEF Reset, NoFails, AccountsTypeOK
    <3>2. 0 + L = L
      BY <1>0
    <3>. QED BY <1>0, <3>1, <3>2 DEF Spans, WindowHolds, Of, Attempts
  <2>. QED BY <1>4, <2>1, <2>2, <2>3 DEF ComparePassword
<1>5. CASE UNCHANGED <<fails, failedAgo>>
  BY <1>1, <1>5
<1>. QED BY <1>2, <1>3, <1>4, <1>5
         DEF AccountsNext, RequestStep, Setup, BeginLogin, CreateUser, accountsVars

\* However the requests of an address overlap and wherever its windows begin and
\* end, fewer than twice as many of its attempts fail in less than a window as
\* the limiter can let into one, without a right login between them.
THEOREM FailuresStayBounded == AccountsSpec => []FailuresBounded
<1>1. ASSUME AccountsTypeOK, FailuresToCome, \A a \in Remotes : Spans(a)
      PROVE  FailuresBounded
  <2> SUFFICES ASSUME NEW a \in Remotes
               PROVE  failedAgo[a][2 * WindowHolds(a)] >= Window
    BY DEF FailuresBounded
  <2>1. /\ fails[a].count + WindowHolds(a) \in Attempts /\ 2 * WindowHolds(a) \in Attempts
        /\ fails[a].count + WindowHolds(a) <= 2 * WindowHolds(a)
    <3>1. /\ WindowHolds(a) \in Nat /\ fails[a].count \in 0..WindowHolds(a)
          /\ fails[a].count + WindowHolds(a) \in Attempts /\ 2 * WindowHolds(a) \in Attempts
      BY <1>1, Counted
    <3>. QED BY <3>1
  <2>2. failedAgo[a][fails[a].count + WindowHolds(a)] <= failedAgo[a][2 * WindowHolds(a)]
    BY <1>1, <2>1 DEF Spans
  <2>. QED BY <1>1, <2>1, <2>2 DEF Spans, AccountsTypeOK
<1>2. (AccountsTypeOK /\ FailuresToCome /\ \A a \in Remotes : Spans(a)) => FailuresBounded
  BY <1>1
<1>. QED BY <1>2, AccountsTypeCorrect, InitFailures, NextFailures, InitSpans, NextSpans, PTL
         DEF AccountsSpec

-----------------------------------------------------------------------------
(* The accounts.                                                           *)

\* At the start no setup inserts an account.
LEMMA InitAccounts == AccountsInit => InsertsAreLate
<1> SUFFICES ASSUME AccountsInit
             PROVE  InsertsAreLate
  OBVIOUS
<1>1. late \ At("insert") = {} /\ accounts = {} /\ late = {}
  BY DEF AccountsInit
<1>. QED BY <1>1, FS_EmptySet DEF InsertsAreLate

\* Every step keeps the setups that still insert among the late ones.
LEMMA NextAccounts ==
    AccountsTypeOK /\ InsertsAreLate /\ [AccountsNext]_accountsVars => InsertsAreLate'
<1> SUFFICES ASSUME AccountsTypeOK, InsertsAreLate, [AccountsNext]_accountsVars
             PROVE  InsertsAreLate'
  OBVIOUS
<1>a. request \in [Browsers -> Requests \cup {NoRequest}]
  BY DEF AccountsTypeOK
<1>1. ASSUME UNCHANGED <<accounts, late>>, At("insert")' = At("insert")
      PROVE  InsertsAreLate'
  BY <1>1 DEF InsertsAreLate
<1>2. ASSUME NEW b \in Browsers, NEW name \in Names, Setup(b, name)
      PROVE  InsertsAreLate'
  <2>1. accounts' = {} /\ late' = {} /\ late' \ At("insert")' = {}
    BY <1>2 DEF Setup, InsertsAreLate
  <2>. QED BY <2>1, FS_EmptySet DEF InsertsAreLate
<1>3. ASSUME NEW b \in Browsers, CreateUser(b)
      PROVE  InsertsAreLate'
  <2>1. request[b] \in Requests /\ b \in At("insert") /\ late \subseteq Browsers
    BY <1>3 DEF CreateUser, At, NoRequest, AccountsTypeOK
  <2>2. At("insert")' = At("insert") \ {b}
    BY <1>3, <2>1 DEF CreateUser, Ends, Goes, At, NoRequest, Requests, AccountsTypeOK
  <2>3. /\ IsFiniteSet(accounts')
        /\ accounts' # {}
        /\ Cardinality(accounts') <= Cardinality(accounts) + 1
        /\ Cardinality(accounts) \in Nat /\ Cardinality(accounts') \in Nat
    <3>1. accounts' = accounts \cup {request[b].name} /\ IsFiniteSet(accounts)
      BY <1>3 DEF CreateUser, InsertsAreLate
    <3>2. /\ IsFiniteSet(accounts')
          /\ Cardinality(accounts) \in Nat
          /\ Cardinality(accounts') \in {Cardinality(accounts), Cardinality(accounts) + 1}
      BY <3>1, FS_AddElement, FS_CardinalityType
    <3>. QED BY <3>1, <3>2
  <2>4. CASE accounts = {}
    <3>1. late' = At("insert") \ {b} /\ late' \subseteq Browsers
      BY <1>3, <2>4 DEF CreateUser, At
    <3>2. late' \ At("insert")' = {}
      BY <2>2, <3>1
    <3>. QED BY <2>2, <2>3, <2>4, <3>1, <3>2, FS_EmptySet DEF InsertsAreLate
  <2>5. CASE accounts # {}
    <3>1. late' = late /\ b \in late /\ At("insert") \subseteq late
      BY <1>3, <2>1, <2>5 DEF CreateUser, InsertsAreLate
    <3>2. late' \ At("insert")' = (late \ At("insert")) \cup {b}
      BY <2>1, <2>2, <3>1
    <3>3. late \ At("insert") \in SUBSET Browsers
      BY <2>1
    <3>4. Cardinality(late' \ At("insert")') = Cardinality(late \ At("insert")) + 1
      BY <2>1, <3>2, <3>3, BrowsersFinite, FS_AddElement
    <3>5. Cardinality(late \ At("insert")) \in Nat
      BY <3>3, BrowsersFinite
    <3>6. Cardinality(accounts') <= 1 + Cardinality(late' \ At("insert")')
      BY <2>3, <3>4, <3>5 DEF InsertsAreLate
    <3>. QED BY <2>2, <2>3, <3>1, <3>6 DEF InsertsAreLate
  <2>. QED BY <2>4, <2>5
<1>4. ASSUME NEW b \in Browsers, NEW name \in Names, NEW right \in BOOLEAN, BeginLogin(b, name, right)
      PROVE  InsertsAreLate'
  <2>1. At("insert")' = At("insert")
    BY <1>4, <1>a DEF BeginLogin, At, NoRequest
  <2>. QED BY <1>1, <1>4, <2>1 DEF BeginLogin
<1>5. ASSUME NEW b \in Browsers, Allow(b)
      PROVE  InsertsAreLate'
  <2>1. request[b] \in Requests
    BY <1>5, <1>a DEF Allow, At, NoRequest
  <2>2. At("insert")' = At("insert")
    BY <1>5, <1>a, <2>1 DEF Allow, Goes, Ends, At, NoRequest, Requests
  <2>. QED BY <1>1, <1>5, <2>2 DEF Allow
<1>6. ASSUME NEW b \in Browsers, ComparePassword(b)
      PROVE  InsertsAreLate'
  <2>1. At("insert")' = At("insert")
    BY <1>6, <1>a DEF ComparePassword, Ends, At, NoRequest
  <2>. QED BY <1>1, <1>6, <2>1 DEF ComparePassword
<1>7. CASE TimePasses
  BY <1>1, <1>7 DEF TimePasses, At
<1>8. CASE UNCHANGED accountsVars
  BY <1>1, <1>8 DEF accountsVars, At
<1>. QED BY <1>2, <1>3, <1>4, <1>5, <1>6, <1>7, <1>8 DEF AccountsNext, RequestStep

\* However many first visits overlap, each account beyond the first comes from a
\* setup that was past its check when the first was created.
THEOREM AccountsStayBounded == AccountsSpec => []OneAccountUnlessLate
<1>1. AccountsTypeOK /\ InsertsAreLate => OneAccountUnlessLate
  <2> SUFFICES ASSUME AccountsTypeOK, InsertsAreLate
               PROVE  Cardinality(accounts) <= 1 + Cardinality(late)
    BY DEF OneAccountUnlessLate
  <2>1. late \in SUBSET Browsers /\ late \ At("insert") \in SUBSET late
    BY DEF AccountsTypeOK
  <2>2. /\ Cardinality(late) \in Nat /\ Cardinality(late \ At("insert")) \in Nat
        /\ Cardinality(late \ At("insert")) <= Cardinality(late)
    BY <2>1, BrowsersFinite, FS_Subset
  <2>3. Cardinality(accounts) \in Nat
    BY FS_CardinalityType DEF InsertsAreLate
  <2>. QED BY <2>2, <2>3 DEF InsertsAreLate
<1>. QED BY <1>1, AccountsTypeCorrect, InitAccounts, NextAccounts, PTL DEF AccountsSpec
=============================================================================
