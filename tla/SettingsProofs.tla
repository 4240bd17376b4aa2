--------------------------- MODULE SettingsProofs ---------------------------
(***************************************************************************)
(* Theorems about Settings, for any number of starts, requests and tokens. *)
(***************************************************************************)
EXTENDS Settings, FiniteSetTheorems, TLAPS

\* A pair that is complete belongs together and is never written again.
KeysWhole ==
    /\ private \in {0, public}
    /\ starting \in {"read", "public", "private"} => starts # 0
    /\ starting \in {"public", "private"} => private = 0
    /\ starting = "private" => public = starts
    /\ served # 0 => private = served
    /\ IF starting = "serving" THEN keys = [pub |-> public, priv |-> private] /\ private # 0
                               ELSE keys = NoKeys

First    == {a \in Askers : asking[a] = "first"}
Rotating == {a \in Askers : asking[a] = "rotate"}

\* Each token but the first is paid for: by a rotation that is over, or by a late
\* request that is.
TokensPaid ==
    /\ Cardinality(Rotating) <= rotations
    /\ token = 0 => tokens = 0 /\ lateReads = {}
    /\ token # 0 =>
         /\ First \subseteq lateReads
         /\ tokens + Cardinality(Rotating) <= 1 + rotations + Cardinality(lateReads \ First)

USE SettingsAssumption

-----------------------------------------------------------------------------
(* Types.                                                                  *)

\* At the start the variables have their types.
LEMMA SettingsInitTypes == SettingsInit => SettingsTypeOK
BY DEF SettingsInit, SettingsTypeOK, NoKeys, Made

\* Every step keeps the types.
LEMMA SettingsNextTypes == SettingsTypeOK /\ [SettingsNext]_settingsVars => SettingsTypeOK'
<1> SUFFICES ASSUME SettingsTypeOK, [SettingsNext]_settingsVars
             PROVE  SettingsTypeOK'
  OBVIOUS
<1>. USE DEF SettingsTypeOK, keyVars, tokenVars
<1>1. CASE Starts
  BY <1>1 DEF Starts, Made
<1>2. CASE ReadKeys
  BY <1>2 DEF ReadKeys, Serves
<1>3. CASE WritePublic \/ WritePrivate
  BY <1>3 DEF WritePublic, WritePrivate, Serves
<1>4. CASE Dies
  BY <1>4 DEF Dies, NoKeys, Made
<1>5. ASSUME NEW a \in Askers, AskToken(a) \/ Rotate(a)
      PROVE  SettingsTypeOK'
  BY <1>5 DEF AskToken, Rotate
<1>6. ASSUME NEW a \in Askers, MakeToken(a)
      PROVE  SettingsTypeOK'
  BY <1>6 DEF MakeToken
<1>7. CASE UNCHANGED settingsVars
  BY <1>7 DEF settingsVars
<1>. QED BY <1>1, <1>2, <1>3, <1>4, <1>5, <1>6, <1>7 DEF SettingsNext

\* The variables keep to their types.
THEOREM SettingsTypeCorrect == SettingsSpec => []SettingsTypeOK
<1>. QED BY SettingsInitTypes, SettingsNextTypes, PTL DEF SettingsSpec

-----------------------------------------------------------------------------
(* The key pair.                                                           *)

\* At the start there is no pair of keys.
LEMMA InitKeys == SettingsInit => KeysWhole
BY DEF SettingsInit, KeysWhole, NoKeys

\* Every step keeps the pair whole, and a pair that served is served again.
LEMMA NextKeys ==
    SettingsTypeOK /\ KeysWhole /\ [SettingsNext]_settingsVars
      => KeysWhole' /\ (served # 0 => served' = served)
<1> SUFFICES ASSUME SettingsTypeOK, KeysWhole, [SettingsNext]_settingsVars
             PROVE  KeysWhole' /\ (served # 0 => served' = served)
  OBVIOUS
<1>. USE DEF SettingsTypeOK, Made, KeysWhole, keyVars, tokenVars
<1>1. CASE Starts
  BY <1>1 DEF Starts
<1>2. CASE ReadKeys
  BY <1>2 DEF ReadKeys, Serves
<1>3. CASE WritePublic
  BY <1>3 DEF WritePublic
<1>4. CASE WritePrivate
  BY <1>4 DEF WritePrivate, Serves
<1>5. CASE Dies
  BY <1>5 DEF Dies
<1>6. ASSUME NEW a \in Askers, AskToken(a) \/ Rotate(a) \/ MakeToken(a)
      PROVE  KeysWhole' /\ (served # 0 => served' = served)
  BY <1>6 DEF AskToken, Rotate, MakeToken
<1>7. CASE UNCHANGED settingsVars
  BY <1>7 DEF settingsVars
<1>. QED BY <1>1, <1>2, <1>3, <1>4, <1>5, <1>6, <1>7 DEF SettingsNext

\* Wherever starts were cut off, the process serves with a pair that was made
\* together.
THEOREM KeysAlwaysMatch == SettingsSpec => []KeysMatch
<1>1. KeysWhole => KeysMatch
  BY DEF KeysWhole, KeysMatch, NoKeys
<1>. QED BY <1>1, SettingsTypeCorrect, InitKeys, NextKeys, PTL DEF SettingsSpec

\* No later start serves with another pair: subscriptions stay valid.
THEOREM KeysNeverChange == SettingsSpec => KeysStay
<1>1. SettingsTypeOK /\ KeysWhole /\ [SettingsNext]_settingsVars
        => [served # 0 => served' = served]_settingsVars
  BY NextKeys DEF settingsVars, keyVars
<1>. QED BY <1>1, SettingsTypeCorrect, InitKeys, NextKeys, PTL DEF SettingsSpec, KeysStay

-----------------------------------------------------------------------------
(* The token of the widget.                                                *)

\* Sets of requests are finite, so they can be counted.
LEMMA AskersFinite ==
    \A S \in SUBSET Askers : /\ IsFiniteSet(S) /\ Cardinality(S) \in Nat
                             /\ \A a \in S : Cardinality(S \ {a}) = Cardinality(S) - 1
                             /\ \A T \in SUBSET S : Cardinality(T) <= Cardinality(S)
BY FS_Subset, FS_CardinalityType, FS_RemoveElement

\* At the start no token was made.
LEMMA InitTokens == SettingsInit => TokensPaid
<1> SUFFICES ASSUME SettingsInit
             PROVE  TokensPaid
  OBVIOUS
<1>1. Rotating = {}
  BY DEF SettingsInit, Rotating
<1>. QED BY <1>1, FS_EmptySet DEF SettingsInit, TokensPaid

\* Every step has a reason for each token that is made or about to be.
LEMMA NextTokens ==
    SettingsTypeOK /\ TokensPaid /\ [SettingsNext]_settingsVars => TokensPaid'
<1> SUFFICES ASSUME SettingsTypeOK, TokensPaid, [SettingsNext]_settingsVars
             PROVE  TokensPaid'
  OBVIOUS
<1>0. /\ First \in SUBSET Askers /\ Rotating \in SUBSET Askers /\ lateReads \in SUBSET Askers
      /\ tokens \in Nat /\ rotations \in Nat
  BY DEF First, Rotating, SettingsTypeOK
<1>1. CASE UNCHANGED tokenVars
  BY <1>1 DEF tokenVars, TokensPaid, First, Rotating
<1>2. CASE Dies
  <2>1. First' = {} /\ Rotating' = {} /\ UNCHANGED <<token, tokens, lateReads, rotations>>
    BY <1>2 DEF Dies, First, Rotating
  <2>2. Cardinality(Rotating') = 0
    BY <2>1, FS_EmptySet
  <2>3. Cardinality(lateReads \ First) <= Cardinality(lateReads \ First')
    BY <1>0, <2>1, AskersFinite
  <2>4. /\ Cardinality(lateReads \ First) \in Nat /\ Cardinality(lateReads \ First') \in Nat
        /\ Cardinality(Rotating) \in Nat
    BY <1>0, <2>1, AskersFinite
  <2>. QED BY <1>0, <2>1, <2>2, <2>3, <2>4 DEF TokensPaid
<1>3. ASSUME NEW a \in Askers, AskToken(a)
      PROVE  TokensPaid'
  <2>1. Rotating' = Rotating
    BY <1>3 DEF AskToken, Rotating, SettingsTypeOK
  <2>. QED BY <1>3, <2>1 DEF AskToken, TokensPaid
<1>4. ASSUME NEW a \in Askers, Rotate(a)
      PROVE  TokensPaid'
  <2>1. /\ First' = First
        /\ Rotating' = Rotating \cup {a} /\ a \notin Rotating
        /\ rotations' = rotations + 1
        /\ UNCHANGED <<token, tokens, lateReads>>
    BY <1>4 DEF Rotate, First, Rotating, SettingsTypeOK
  <2>2. Cardinality(Rotating') = Cardinality(Rotating) + 1
    BY <1>0, <2>1, AskersFinite, FS_AddElement
  <2>3. Cardinality(Rotating) \in Nat /\ Cardinality(lateReads \ First) \in Nat
    BY <1>0, AskersFinite
  <2>. QED BY <1>0, <2>1, <2>2, <2>3 DEF TokensPaid
<1>5. ASSUME NEW a \in Askers, MakeToken(a)
      PROVE  TokensPaid'
  <2>1. /\ First' = First \ {a} /\ Rotating' = Rotating \ {a}
        /\ a \in First \/ a \in Rotating
        /\ ~(a \in First /\ a \in Rotating)
        /\ tokens' = tokens + 1 /\ token' = tokens + 1 /\ rotations' = rotations
        /\ lateReads' = IF token = 0 THEN First \ {a} ELSE lateReads
    BY <1>5 DEF MakeToken, Making, First, Rotating, SettingsTypeOK
  <2>2. /\ Cardinality(Rotating) \in Nat /\ Cardinality(Rotating') \in Nat
        /\ Cardinality(Rotating') <= Cardinality(Rotating)
        /\ a \in Rotating => Cardinality(Rotating') = Cardinality(Rotating) - 1
        /\ a \notin Rotating => Rotating' = Rotating
    BY <1>0, <2>1, AskersFinite
  <2>3. CASE token = 0
    <3>1. First' \subseteq lateReads' /\ lateReads' \ First' = {}
      BY <2>1, <2>3
    <3>2. Cardinality(lateReads' \ First') = 0
      BY <3>1, FS_EmptySet
    <3>3. tokens' = 1 /\ token' = 1
      BY <2>1, <2>3 DEF TokensPaid
    <3>. QED BY <1>0, <2>1, <2>2, <3>1, <3>2, <3>3 DEF TokensPaid
  <2>4. CASE token # 0
    <3>1. First \subseteq lateReads /\ lateReads' = lateReads
      BY <2>1, <2>4 DEF TokensPaid
    <3>2. CASE a \in First
      <4>1. (lateReads' \ First') \ {a} = lateReads \ First /\ a \in lateReads' \ First'
        BY <2>1, <3>1, <3>2
      <4>2. Cardinality(lateReads' \ First') = Cardinality(lateReads \ First) + 1
        <5>1. lateReads' \ First' \in SUBSET Askers
          BY <1>0, <3>1
        <5>2. Cardinality((lateReads' \ First') \ {a}) = Cardinality(lateReads' \ First') - 1
          BY <4>1, <5>1, AskersFinite
        <5>3. Cardinality(lateReads' \ First') \in Nat
          BY <5>1, AskersFinite
        <5>4. Cardinality((lateReads' \ First') \ {a}) = Cardinality(lateReads \ First)
          BY <4>1, Zenon
        <5>. QED BY <5>2, <5>3, <5>4
      <4>3. Cardinality(lateReads \ First) \in Nat /\ token' # 0
        BY <1>0, <2>1, AskersFinite
      <4>. QED BY <1>0, <2>1, <2>2, <2>4, <3>1, <3>2, <4>2, <4>3 DEF TokensPaid
    <3>3. CASE a \in Rotating
      <4>1. First' = First
        BY <2>1, <3>3
      <4>2. Cardinality(lateReads \ First) \in Nat /\ token' # 0
        BY <1>0, <2>1, AskersFinite
      <4>. QED BY <1>0, <2>1, <2>2, <2>4, <3>1, <3>3, <4>1, <4>2 DEF TokensPaid
    <3>. QED BY <2>1, <3>2, <3>3
  <2>. QED BY <2>3, <2>4
<1>. QED BY <1>1, <1>2, <1>3, <1>4, <1>5
         DEF SettingsNext, settingsVars, Starts, ReadKeys, WritePublic, WritePrivate

\* However requests overlap, a token is replaced only by a rotation or by a first
\* request that was under way when the first was made.
THEOREM TokensStayBounded == SettingsSpec => []TokensBounded
<1>1. SettingsTypeOK /\ TokensPaid => TokensBounded
  <2> SUFFICES ASSUME SettingsTypeOK, TokensPaid
               PROVE  tokens <= 1 + rotations + Cardinality(lateReads)
    BY DEF TokensBounded
  <2>1. /\ lateReads \in SUBSET Askers /\ lateReads \ First \in SUBSET lateReads
        /\ Rotating \in SUBSET Askers
    BY DEF SettingsTypeOK, Rotating
  <2>2. /\ Cardinality(lateReads) \in Nat /\ Cardinality(lateReads \ First) \in Nat
        /\ Cardinality(Rotating) \in Nat
        /\ Cardinality(lateReads \ First) <= Cardinality(lateReads)
    BY <2>1, AskersFinite
  <2>. QED BY <2>2 DEF TokensPaid, SettingsTypeOK
<1>. QED BY <1>1, SettingsTypeCorrect, InitTokens, NextTokens, PTL DEF SettingsSpec
=============================================================================
