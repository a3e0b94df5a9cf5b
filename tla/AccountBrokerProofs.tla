------------------------ MODULE AccountBrokerProofs ------------------------
(***************************************************************************)
(* What AccountBroker promises for every value of its constants.           *)
(***************************************************************************)
EXTENDS AccountBroker, FiniteSetTheorems, TLAPS

-----------------------------------------------------------------------------
(* refresh_time *)

\* The time a refresh is scheduled for is later than now and no later than the
\* expiry of the access token, whatever the margin and the jitter are.
LEMMA RefreshTimesBound ==
    ASSUME NEW now \in Nat, NEW life \in Nat \ {0}, NEW t \in RefreshTimes(now, life)
    PROVE  t \in Nat /\ now < t /\ t <= now + life
<1>1. Margin(life) \in Nat /\ Margin(life) >= 1
  BY ConstantsAssumption, SMT DEF Margin, Lesser, Greater
<1>2. PICK jitter \in 0 .. Greater(1, Lesser(MaxJitter, Margin(life))) - 1 :
        t = now + Greater(1, life - Margin(life) - jitter)
  BY DEF RefreshTimes
<1>3. jitter \in Nat
  BY <1>1, <1>2, ConstantsAssumption DEF Greater, Lesser
<1> QED
  BY <1>1, <1>2, <1>3 DEF Greater

-----------------------------------------------------------------------------
(* The inductive invariant *)

\* What every row satisfies on its own.
RowInv(r) ==
    /\ r.ext # None => r.provider = "ggg"
    /\ r.preferred => r.status \notin {"absent", "disconnected"}
    /\ r.refreshing => r.status = "active"
    /\ r.status = "absent" => r.epoch = 1 /\ r.version = 0
    /\ r.status \in {"absent", "unverified", "disconnected"} =>
         r.secret = None /\ r.accessExp = None /\ r.refreshExp = None /\ r.next = None
    /\ r.secret # None => r.secret.version = r.version /\ r.secret.sub = r.ext
    /\ r.status = "active" =>
         /\ r.verified /\ r.secret # None /\ r.accessExp # None
         /\ r.refreshExp # None => r.secret.token # None
         /\ r.refreshExp # None /\ r.next = None => r.refreshExp <= r.accessExp

GoodRow == {r \in Row : RowInv(r)}

\* What a request remembers of a row is what the row still holds, or the row has
\* moved to a later version.
Remembered(r) ==
    /\ r.version <= row[r.id].version
    /\ SameLink(r) =>
         /\ row[r.id].secret # None
         /\ row[r.id].secret.sub = r.sub /\ row[r.id].secret.token = r.token
         /\ row[r.id].refreshExp = r.refreshExp

CallbackShape ==
    callback # None /\ callback.phase = "profile" => callback.sub \in Subjects

SessionInv ==
    /\ TypeOK
    /\ row \in [AccountIds -> GoodRow]
    /\ IsFiniteSet(Present)
    /\ CallbackShape
    /\ \A r \in batch : Remembered(r)
    /\ inflight # None => Remembered(inflight)

-----------------------------------------------------------------------------
(* What each UPDATE of a row preserves *)

LEMMA GoodIsRow == GoodRow \subseteq Row
BY DEF GoodRow

LEMMA NewRowGood ==
    ASSUME NEW provider \in {"ggg", "kakao"}, NEW name \in Names
    PROVE  NewRow(provider, name) \in GoodRow
BY NoneAssumption DEF GoodRow, Row, RowInv, Time, NewRow, AbsentRow

LEMMA AbsentRowGood == AbsentRow("ggg") \in GoodRow
BY NoneAssumption DEF GoodRow, Row, RowInv, Time, AbsentRow

LEMMA PreferredGood ==
    ASSUME NEW r \in GoodRow, NEW b \in BOOLEAN,
           b => r.status \notin {"absent", "disconnected"}
    PROVE  [r EXCEPT !.preferred = b] \in GoodRow
BY DEF GoodRow, Row, RowInv

LEMMA AutoGood ==
    ASSUME NEW r \in GoodRow, NEW b \in BOOLEAN
    PROVE  [r EXCEPT !.auto = b] \in GoodRow
BY DEF GoodRow, Row, RowInv

LEMMA ClaimGood ==
    ASSUME NEW r \in GoodRow, r.status = "active"
    PROVE  [r EXCEPT !.refreshing = TRUE] \in GoodRow
BY DEF GoodRow, Row, RowInv

LEMMA DisconnectedGood ==
    ASSUME NEW r \in GoodRow
    PROVE  Disconnected(r) \in GoodRow
BY DEF GoodRow, Row, RowInv, Time, Disconnected

LEMMA NeedsLoginGood ==
    ASSUME NEW r \in GoodRow
    PROVE  NeedsLogin(r) \in GoodRow
BY ZenonT(60) DEF GoodRow, Row, RowInv, Time, NeedsLogin

LEMMA DeferredGood ==
    ASSUME NEW r \in GoodRow, r.secret # None, NEW t \in Nat
    PROVE  Deferred(r, t) \in GoodRow
BY NoneAssumption, ZenonT(60) DEF GoodRow, Row, RowInv, Time, Deferred

LEMMA GrantedGood ==
    ASSUME NEW r \in GoodRow, r.provider = "ggg", NEW name \in Names,
           NEW c \in Callback, c.sub \in Subjects, NEW next \in Nat
    PROVE  Granted(r, name, c, next) \in GoodRow
<1> DEFINE g == Granted(r, name, c, next)
<1>1. g \in Row
  BY ConstantsAssumption DEF Granted, GoodRow, Row, Time, Secret, Callback
<1>2. RowInv(g)
  BY ConstantsAssumption, NoneAssumption, AbsentAssumption
     DEF Granted, GoodRow, Row, RowInv, Time, Secret, Callback
<1> QED BY <1>1, <1>2 DEF GoodRow

LEMMA RotatedGood ==
    ASSUME NEW r \in GoodRow, inflight \in Call, issued \in Nat,
           r.status = "active", r.ext = inflight.sub, r.refreshExp = inflight.refreshExp,
           NEW life \in Nat, NEW next \in Nat, next <= inflight.at + life
    PROVE  Rotated(r, life, next) \in GoodRow
<1> DEFINE g == Rotated(r, life, next)
<1>1. g \in Row
  BY DEF Rotated, GoodRow, Row, Time, Secret, Call
<1>2. RowInv(g)
  BY NoneAssumption, AbsentAssumption
     DEF Rotated, GoodRow, Row, RowInv, Time, Secret, Call
<1> QED BY <1>1, <1>2 DEF GoodRow

-----------------------------------------------------------------------------
(* Rows only move forward *)

\* A row is left in its version, with its credential and deadline, or it moves to
\* a later version. Its deadline changes only with its epoch, and its epoch only by
\* a disconnect or by the login that nothing has cancelled.
Advances(r, q) ==
    /\ \/ q.version > r.version
       \/ /\ q.version = r.version /\ q.epoch = r.epoch
          /\ q.secret = r.secret /\ q.refreshExp = r.refreshExp
    /\ q.refreshExp # r.refreshExp => q.epoch > r.epoch
    /\ q.epoch # r.epoch =>
         q.status = "disconnected" \/ (callback # None /\ NotCancelled)

RowsAdvance ==
    /\ row' \in [AccountIds -> GoodRow]
    /\ \A a \in AccountIds : Advances(row[a], row'[a])
    /\ \E a : Present' \subseteq Present \cup {a}

LEMMA OperationsAdvance ==
    ASSUME NEW r \in GoodRow
    PROVE  /\ Advances(r, r)
           /\ Advances(r, Disconnected(r))
           /\ Advances(r, NeedsLogin(r))
           /\ \A t \in Nat : Advances(r, Deferred(r, t))
           /\ \A b \in BOOLEAN : Advances(r, [r EXCEPT !.preferred = b])
           /\ \A b \in BOOLEAN : Advances(r, [r EXCEPT !.auto = b])
           /\ Advances(r, [r EXCEPT !.refreshing = TRUE])
<1>1. Advances(r, r) /\ Advances(r, Disconnected(r))
  BY DEF Advances, GoodRow, Row, Disconnected
<1>2. Advances(r, NeedsLogin(r)) /\ \A t \in Nat : Advances(r, Deferred(r, t))
  BY DEF Advances, GoodRow, Row, NeedsLogin, Deferred
<1>3. \A b \in BOOLEAN : /\ Advances(r, [r EXCEPT !.preferred = b])
                         /\ Advances(r, [r EXCEPT !.auto = b])
  BY DEF Advances, GoodRow, Row
<1>4. Advances(r, [r EXCEPT !.refreshing = TRUE])
  BY DEF Advances, GoodRow, Row
<1> QED BY <1>1, <1>2, <1>3, <1>4

LEMMA RegisterAdvances ==
    ASSUME NEW r \in GoodRow, r.status = "absent",
           NEW provider \in {"ggg", "kakao"}, NEW name \in Names
    PROVE  Advances(r, NewRow(provider, name))
BY DEF Advances, GoodRow, Row, RowInv, NewRow, AbsentRow

\* A row is written by one UPDATE: the others stay as they are.
LEMMA OneRowAdvances ==
    ASSUME row \in [AccountIds -> GoodRow], NEW a \in AccountIds, NEW q \in GoodRow,
           row' = [row EXCEPT ![a] = q], Advances(row[a], q)
    PROVE  RowsAdvance
BY OperationsAdvance DEF RowsAdvance, Present

LEMMA NoRowAdvances ==
    ASSUME row \in [AccountIds -> GoodRow], row' = row
    PROVE  RowsAdvance
BY OperationsAdvance DEF RowsAdvance, Present

LEMMA GrantAdvances ==
    ASSUME SessionInv, callback # None, callback.phase = "profile",
           NEW name \in Names, NEW a \in GrantTargets(callback.sub, name),
           NEW next \in RefreshTimes(callback.at, callback.life), SaveGrant(a, name, next),
           NotCancelled
    PROVE  RowsAdvance
<1> DEFINE r == IF row[a].status = "absent" THEN NewRow("ggg", name) ELSE row[a]
           q == Granted(r, name, callback, next)
<1>1. /\ row \in [AccountIds -> GoodRow] /\ callback \in Callback
      /\ callback.sub \in Subjects
  BY DEF SessionInv, TypeOK, CallbackShape
<1>2. a \in AccountIds /\ (row[a].status # "absent" => row[a].provider = "ggg")
  BY DEF GrantTargets, Registered, Linked, Present, FreshIds
<1>3. NewRow("ggg", name).provider = "ggg"
  BY DEF NewRow, AbsentRow
<1>4. r \in GoodRow /\ r.provider = "ggg"
  BY <1>1, <1>2, <1>3, NewRowGood
<1>5. next \in Nat
  BY <1>1, ConstantsAssumption DEF RefreshTimes, Callback, Margin, Greater, Lesser
<1>6. q \in GoodRow
  BY <1>1, <1>4, <1>5, GrantedGood
<1>7. Advances(row[a], q)
  <2>1. q.version = r.version + 1 /\ q.epoch = r.epoch + 1
    BY DEF Granted
  <2>2. row[a].status = "absent" =>
          row[a].version = 0 /\ r.version = 0 /\ row[a].epoch = 1 /\ r.epoch = 1
    BY <1>1, <1>2 DEF GoodRow, RowInv, NewRow, AbsentRow
  <2> HIDE DEF q
  <2> QED BY <2>1, <2>2, <1>1, <1>2, <1>4 DEF Advances, GoodRow, Row
<1>8. row' = [row EXCEPT ![a] = q]
  BY DEF SaveGrant
<1> QED
  BY <1>1, <1>2, <1>6, <1>7, <1>8, OneRowAdvances

LEMMA AnswerAdvances ==
    ASSUME SessionInv, NEW life \in AccessLives,
           NEW next \in RefreshTimes(inflight.at, life), RefreshAnswered(life, next)
    PROVE  RowsAdvance
<1>1. /\ row \in [AccountIds -> GoodRow] /\ inflight \in Call /\ issued \in Nat
      /\ Remembered(inflight) /\ inflight.id \in AccountIds /\ inflight.at \in Nat
  BY DEF SessionInv, TypeOK, RefreshAnswered, Call
<1>2. life \in Nat \ {0} /\ next \in Nat /\ next <= inflight.at + life
  BY <1>1, ConstantsAssumption, RefreshTimesBound
<1> DEFINE r == row[inflight.id]
           q == Rotated(r, life, next)
<1>3. CASE SameLink(inflight) /\ r.refreshing /\ r.status = "active"
  <2>1. r \in GoodRow /\ r.ext = inflight.sub /\ r.refreshExp = inflight.refreshExp
    BY <1>1, <1>3 DEF Remembered, GoodRow, RowInv
  <2>2. q \in GoodRow
    BY <1>1, <1>2, <1>3, <2>1, RotatedGood
  <2>3. /\ q.version = r.version + 1 /\ r.version \in Nat
        /\ q.epoch = r.epoch /\ q.refreshExp = r.refreshExp
    BY <1>3, <2>1 DEF Rotated, SameLink, GoodRow, Row
  <2>4. row' = [row EXCEPT ![inflight.id] = q]
    BY <1>3 DEF RefreshAnswered
  <2> HIDE DEF q
  <2>5. Advances(r, q)
    BY <2>3 DEF Advances
  <2> QED BY <1>1, <2>2, <2>4, <2>5, OneRowAdvances
<1>4. CASE ~(SameLink(inflight) /\ r.refreshing /\ r.status = "active")
  BY <1>1, <1>4, NoRowAdvances DEF RefreshAnswered
<1> QED BY <1>3, <1>4

LEMMA RowStep ==
    ASSUME SessionInv, [Next]_vars
    PROVE  RowsAdvance
<1>1. row \in [AccountIds -> GoodRow] /\ GoodRow \subseteq Row
  BY GoodIsRow DEF SessionInv
<1>2. ASSUME NEW p \in Principals, NEW provider \in Providers, NEW name \in Names,
             Register(p, provider, name)
      PROVE  RowsAdvance
  <2>1. PICK a \in FreshIds : row' = [row EXCEPT ![a] = NewRow(provider, name)]
    BY <1>2 DEF Register
  <2>2. a \in AccountIds /\ row[a].status = "absent"
    BY <2>1 DEF FreshIds, Present
  <2>3. provider \in {"ggg", "kakao"}
    BY ConstantsAssumption
  <2> QED BY <1>1, <2>1, <2>2, <2>3, NewRowGood, RegisterAdvances, OneRowAdvances
<1>3. ASSUME NEW p \in Principals, NEW a \in AccountIds, SetDefault(p, a)
      PROVE  RowsAdvance
  <2>1. row' = [b \in AccountIds |-> [row[b] EXCEPT !.preferred = (b = a)]]
    BY <1>3 DEF SetDefault
  <2>2. row[a].status \notin {"absent", "disconnected"}
    BY <1>3 DEF SetDefault, Linked, Present
  <2>3. \A b \in AccountIds : [row[b] EXCEPT !.preferred = (b = a)] \in GoodRow
    BY <1>1, <2>2, PreferredGood
  <2>4. \A b \in AccountIds : row'[b].status = row[b].status
    BY <1>1, <2>1 DEF Row
  <2>5. Present' = Present
    BY <2>4 DEF Present
  <2> QED BY <1>1, <2>1, <2>3, <2>5, OperationsAdvance DEF RowsAdvance
<1>4. ASSUME NEW p \in Principals, NEW a \in AccountIds, Disconnect(p, a)
      PROVE  RowsAdvance
  BY <1>1, <1>4, DisconnectedGood, OperationsAdvance, OneRowAdvances DEF Disconnect
<1>5. ASSUME NEW p \in Principals, NEW a \in AccountIds, NEW b \in BOOLEAN,
             RefreshSetting(p, a, b)
      PROVE  RowsAdvance
  <2>1. row' = [row EXCEPT ![a] = [row[a] EXCEPT !.auto = b]]
    BY <1>5 DEF RefreshSetting
  <2> QED BY <1>1, <2>1, AutoGood, OperationsAdvance, OneRowAdvances
<1>6. ASSUME NEW name \in Names, CallbackProfiled(name)
      PROVE  RowsAdvance
  BY <1>6, GrantAdvances DEF CallbackProfiled, SessionInv
<1>7. ASSUME NEW r \in batch, RefreshHeld(r)
      PROVE  RowsAdvance
  <2>1. r.id \in AccountIds /\ cooldown \in Nat /\ Remembered(r)
    BY DEF SessionInv, TypeOK, Pending
  <2>2. row[r.id].secret # None
    BY <1>7, <2>1 DEF RefreshHeld, Claimable, Remembered
  <2> QED BY <1>1, <1>7, <2>1, <2>2, DeferredGood, OperationsAdvance, OneRowAdvances
          DEF RefreshHeld
<1>8. ASSUME NEW r \in batch, RefreshSend(r)
      PROVE  RowsAdvance
  <2>1. r.id \in AccountIds
    BY DEF SessionInv, TypeOK, Pending
  <2>2. row' = [row EXCEPT ![r.id] = [row[r.id] EXCEPT !.refreshing = TRUE]]
    BY <1>8 DEF RefreshSend
  <2>3. row[r.id].status = "active"
    BY <1>8 DEF RefreshSend, Claimable
  <2> QED BY <1>1, <2>1, <2>2, <2>3, ClaimGood, OperationsAdvance, OneRowAdvances
<1>9. ASSUME NEW life \in AccessLives, NEW next \in RefreshTimes(inflight.at, life),
             RefreshAnswered(life, next)
      PROVE  RowsAdvance
  BY <1>9, AnswerAdvances
<1>10. ASSUME NEW w \in RetryWaits, RefreshLimited(w)
       PROVE  RowsAdvance
  <2>1. inflight.id \in AccountIds /\ clock + w \in Nat /\ Remembered(inflight)
    BY <1>10, ConstantsAssumption DEF RefreshLimited, SessionInv, TypeOK, Call
  <2>2. CASE SameLink(inflight)
    <3> DEFINE q == Deferred(row[inflight.id], clock + w)
    <3>1. row' = [row EXCEPT ![inflight.id] = q]
      BY <1>10, <2>2 DEF RefreshLimited
    <3>2. q \in GoodRow /\ Advances(row[inflight.id], q)
      BY <1>1, <2>1, <2>2, DeferredGood, OperationsAdvance DEF Remembered
    <3> QED BY <1>1, <2>1, <3>1, <3>2, OneRowAdvances
  <2>3. CASE ~SameLink(inflight)
    BY <1>1, <1>10, <2>3, NoRowAdvances DEF RefreshLimited
  <2> QED BY <2>2, <2>3
<1>11. ASSUME RefreshRefused
       PROVE  RowsAdvance
  <2>1. inflight.id \in AccountIds
    BY <1>11 DEF RefreshRefused, SessionInv, TypeOK, Call
  <2>2. CASE SameLink(inflight)
    BY <1>1, <1>11, <2>1, <2>2, NeedsLoginGood, OperationsAdvance, OneRowAdvances
       DEF RefreshRefused
  <2>3. CASE ~SameLink(inflight)
    BY <1>1, <1>11, <2>3, NoRowAdvances DEF RefreshRefused
  <2> QED BY <2>2, <2>3
<1>12. ASSUME Restart
       PROVE  RowsAdvance
  <2>1. Present' \subseteq Present
    BY <1>1, <1>12 DEF Restart, Present, GoodRow, RowInv
  <2> QED BY <1>1, <1>12, <2>1, NeedsLoginGood, OperationsAdvance DEF Restart, RowsAdvance
<1>13. ASSUME InvalidateRestored
       PROVE  RowsAdvance
  <2>1. Present' \subseteq Present
    BY <1>1, <1>13 DEF InvalidateRestored, Present
  <2> QED BY <1>1, <1>13, <2>1, DisconnectedGood, OperationsAdvance
          DEF InvalidateRestored, RowsAdvance
<1>14. ASSUME row' = row
       PROVE  RowsAdvance
  BY <1>1, <1>14, NoRowAdvances
<1> QED
  BY <1>2, <1>3, <1>4, <1>5, <1>6, <1>7, <1>8, <1>9, <1>10, <1>11, <1>12, <1>13, <1>14
     DEF Next, Requests, CallbackSteps, RefreshSteps, vars, Read, Start, CallbackBegin,
         Prepare, CallbackExchanged, CallbackFailed, CallbackLimited, CallbackRejected,
         RefreshBegin, RefreshSkip, Tick

-----------------------------------------------------------------------------
(* Type correctness *)

LEMMA RememberedStep ==
    ASSUME NEW r, r.id \in AccountIds, r.version \in Nat,
           row \in [AccountIds -> GoodRow], Remembered(r), RowsAdvance
    PROVE  Remembered(r)'
<1>1. row[r.id] \in Row /\ row'[r.id] \in Row /\ Advances(row[r.id], row'[r.id])
  BY GoodIsRow DEF RowsAdvance
<1>2. row[r.id].version \in Nat /\ row'[r.id].version \in Nat
  BY <1>1 DEF Row
<1> QED BY <1>1, <1>2 DEF Remembered, SameLink, Advances

LEMMA TableTypes ==
    ASSUME TypeOK
    PROVE  /\ PurgedAttempts \in [States -> Attempt \cup {None}]
           /\ PurgedIntents \in [IntentIds -> Intent \cup {None}]
           /\ \A a \in AccountIds : CancelIntents(a) =>
                intent' \in [IntentIds -> Intent \cup {None}]
<1>1. PurgedAttempts \in [States -> Attempt \cup {None}]
  BY DEF TypeOK, PurgedAttempts
<1>2. PurgedIntents \in [IntentIds -> Intent \cup {None}]
  BY DEF TypeOK, PurgedIntents
<1>3. \A e \in Intent : [e EXCEPT !.status = "cancelled"] \in Intent
  BY DEF Intent
<1>4. \A a \in AccountIds : CancelIntents(a) =>
        intent' \in [IntentIds -> Intent \cup {None}]
  BY <1>3 DEF TypeOK, CancelIntents
<1> QED BY <1>1, <1>2, <1>4

LEMMA RowsType ==
    ASSUME RowsAdvance
    PROVE  row' \in [AccountIds -> Row]
BY GoodIsRow DEF RowsAdvance

\* Requests that are only finished or dropped remember what they did.
LEMMA RequestsRemembered ==
    ASSUME SessionInv, RowsAdvance, batch' \subseteq batch, inflight' \in {inflight, None}
    PROVE  (\A r \in batch : Remembered(r))' /\ (inflight # None => Remembered(inflight))'
<1>1. row \in [AccountIds -> GoodRow]
  BY DEF SessionInv
<1>2. ASSUME NEW r \in batch' PROVE Remembered(r)'
  <2>1. r \in Pending /\ Remembered(r)
    BY <1>2 DEF SessionInv, TypeOK
  <2> QED BY <1>1, <2>1, RememberedStep DEF Pending
<1>3. ASSUME inflight' # None PROVE Remembered(inflight)'
  <2>1. PICK c : c = inflight
    OBVIOUS
  <2>2. c \in Call /\ Remembered(c) /\ inflight' = c
    BY <1>3, <2>1 DEF SessionInv, TypeOK
  <2>3. Remembered(c)'
    BY <1>1, <2>2, RememberedStep DEF Call
  <2> QED BY <2>2, <2>3 DEF Remembered, SameLink
<1> QED BY <1>2, <1>3

LEMMA SessionStep ==
    ASSUME SessionInv, [Next]_vars
    PROVE  SessionInv'
<1> USE ConstantsAssumption, NoneAssumption, AbsentAssumption
<1>1. /\ TypeOK /\ CallbackShape
      /\ row' \in [AccountIds -> GoodRow] /\ row' \in [AccountIds -> Row]
      /\ IsFiniteSet(Present)'
  <2>1. PICK a : Present' \subseteq Present \cup {a}
    BY RowStep DEF RowsAdvance
  <2>2. IsFiniteSet(Present \cup {a})
    BY FS_AddElement DEF SessionInv
  <2>3. IsFiniteSet(Present')
    BY <2>1, <2>2, FS_Subset
  <2> QED BY <2>3, RowStep, RowsType DEF SessionInv, RowsAdvance
<1>2. batch' \subseteq batch /\ inflight' \in {inflight, None}
        => (\A r \in batch : Remembered(r))' /\ (inflight # None => Remembered(inflight))'
  BY RowStep, RequestsRemembered
<1>3. ASSUME NEW p \in Principals, Read(p)
      PROVE  SessionInv'
  BY <1>1, <1>2, <1>3, TableTypes DEF Read, Request, Authorized, SessionInv, TypeOK, CallbackShape
<1>4. ASSUME NEW p \in Principals, NEW provider \in Providers, NEW name \in Names, Register(p, provider, name)
      PROVE  SessionInv'
  BY <1>1, <1>2, <1>4, TableTypes DEF Register, Request, Authorized, SessionInv, TypeOK, CallbackShape
<1>5. ASSUME NEW p \in Principals, NEW a \in AccountIds, SetDefault(p, a)
      PROVE  SessionInv'
  BY <1>1, <1>2, <1>5, TableTypes DEF SetDefault, Request, Authorized, SessionInv, TypeOK, CallbackShape
<1>6. ASSUME NEW p \in Principals, NEW a \in AccountIds, Disconnect(p, a)
      PROVE  SessionInv'
  BY <1>1, <1>2, <1>6, TableTypes DEF Disconnect, Request, Authorized, Attempt, SessionInv, TypeOK, CallbackShape
<1>7. ASSUME NEW p \in Principals, NEW a \in AccountIds, NEW b \in BOOLEAN, RefreshSetting(p, a, b)
      PROVE  SessionInv'
  BY <1>1, <1>2, <1>7, TableTypes DEF RefreshSetting, Request, Authorized, SessionInv, TypeOK, CallbackShape
<1>8. ASSUME NEW p \in Principals, NEW w \in Browsers, Start(p, w)
      PROVE  SessionInv'
  BY <1>1, <1>2, <1>8, TableTypes DEF Start, Request, Authorized, Attempt, SessionInv, TypeOK, CallbackShape
<1>9. ASSUME NEW p \in Principals, NEW s \in States, NEW w \in Browsers, CallbackBegin(p, s, w)
      PROVE  SessionInv'
  BY <1>1, <1>2, <1>9, TableTypes DEF CallbackBegin, Request, Authorized, Attempt, Callback, SessionInv, TypeOK, CallbackShape
<1>10. ASSUME NEW p \in Principals, NEW c \in AccountIds \cup {None}, Prepare(p, c)
      PROVE  SessionInv'
  <2>1. PICK a \in HandoffAccount(c), E \in Evictions(PurgedIntents) :
          LET kept == [i \in IntentIds |-> IF i \in E THEN None ELSE PurgedIntents[i]]
          IN  \/ \E i \in IntentIds : intent' = [kept EXCEPT ![i] =
                   [account |-> a, epoch |-> row[a].epoch, created |-> clock,
                    expires |-> clock + IntentLife, status |-> "prepared"]]
              \/ intent' = kept
    BY <1>10 DEF Prepare
  <2>2. a \in AccountIds /\ row[a].epoch \in Nat
    BY <1>1, <2>1 DEF HandoffAccount, Linked, Present, TypeOK, Row
  <2>3. intent' \in [IntentIds -> Intent \cup {None}]
    <3> DEFINE kept == [i \in IntentIds |-> IF i \in E THEN None ELSE PurgedIntents[i]]
               new == [account |-> a, epoch |-> row[a].epoch, created |-> clock,
                       expires |-> clock + IntentLife, status |-> "prepared"]
    <3>1. kept \in [IntentIds -> Intent \cup {None}]
      BY <1>1, TableTypes
    <3>2. new \in Intent
      BY <1>1, <2>2 DEF Intent, TypeOK
    <3> HIDE DEF new
    <3> QED BY <2>1, <3>1, <3>2 DEF new
  <2>4. TypeOK'
    BY <1>1, <1>10, <2>3, TableTypes DEF Prepare, Request, Authorized, TypeOK
  <2> QED BY <1>1, <1>2, <1>10, <2>4 DEF Prepare, SessionInv, CallbackShape
<1>11. ASSUME NEW u \in Subjects, NEW life \in AccessLives, NEW b \in BOOLEAN, CallbackExchanged(u, life, b)
      PROVE  SessionInv'
  <2> DEFINE token == IF b THEN issued + 1 ELSE None
             answered == [callback EXCEPT !.phase = "profile", !.sub = u, !.life = life,
                                          !.token = token]
  <2>0. callback \in Callback /\ life \in Nat /\ token \in Nat \cup {None}
    BY <1>1, <1>11 DEF CallbackExchanged, TypeOK
  <2>3. answered \in Callback /\ answered.sub = u
    BY <2>0 DEF Callback
  <2>4. callback' \in {None, answered}
    BY <1>11 DEF CallbackExchanged
  <2> HIDE DEF answered
  <2>1. callback' \in Callback \cup {None} /\ CallbackShape'
    BY <2>3, <2>4 DEF CallbackShape
  <2>2. TypeOK'
    BY <1>1, <1>11, <2>1 DEF CallbackExchanged, TypeOK
  <2> QED BY <1>1, <1>2, <1>11, <2>1, <2>2 DEF CallbackExchanged, SessionInv
<1>12. ASSUME CallbackFailed
      PROVE  SessionInv'
  BY <1>1, <1>2, <1>12, TableTypes DEF CallbackFailed, SessionInv, TypeOK, CallbackShape
<1>13. ASSUME NEW w \in RetryWaits, CallbackLimited(w)
      PROVE  SessionInv'
  BY <1>1, <1>2, <1>13, TableTypes DEF CallbackLimited, SessionInv, TypeOK, CallbackShape
<1>14. ASSUME NEW name \in Names, CallbackProfiled(name)
      PROVE  SessionInv'
  <2>1. PICK a \in GrantTargets(callback.sub, name),
            next \in RefreshTimes(callback.at, callback.life) : SaveGrant(a, name, next)
    BY <1>14 DEF CallbackProfiled
  <2>2. a \in AccountIds
    BY <2>1 DEF GrantTargets, Registered, Linked, Present, FreshIds
  <2>3. intent' \in [IntentIds -> Intent \cup {None}]
    BY <1>1, <2>1, <2>2, TableTypes DEF SaveGrant
  <2>4. TypeOK'
    BY <1>1, <1>14, <2>3 DEF CallbackProfiled, TypeOK
  <2> QED BY <1>1, <1>2, <1>14, <2>4 DEF CallbackProfiled, SessionInv, CallbackShape
<1>15. ASSUME NEW name \in Names, CallbackRejected(name)
      PROVE  SessionInv'
  BY <1>1, <1>2, <1>15, TableTypes DEF CallbackRejected, SessionInv, TypeOK, CallbackShape
<1>16. ASSUME RefreshBegin
      PROVE  SessionInv'
  <2>1. row' = row /\ inflight' = None /\ callback' = callback
    BY <1>16 DEF RefreshBegin
  <2>2. ASSUME NEW r \in batch' PROVE r \in Pending /\ Remembered(r)'
    <3>1. PICK a \in AccountIds : Due(a) /\ r = Snapshot(a)
      BY <1>16, <2>2 DEF RefreshBegin
    <3>2. row[a] \in Row /\ RowInv(row[a])
      BY DEF SessionInv, GoodRow
    <3>3. /\ row[a].secret \in Secret /\ row[a].secret.token \in Nat
          /\ row[a].secret.sub \in Subjects
          /\ row[a].next \in Nat /\ row[a].refreshExp \in Nat
      BY <3>1, <3>2 DEF Due, Unexpired, Row, RowInv, Time, Secret
    <3>4. r \in Pending
      BY <3>1, <3>2, <3>3 DEF Snapshot, Pending, Row
    <3>5. Remembered(r)
      BY <3>1, <3>2, <3>3 DEF Snapshot, Remembered, SameLink, Row
    <3> QED BY <3>4, <3>5, <2>1 DEF Remembered, SameLink
  <2>3. TypeOK'
    BY <1>1, <1>16, <2>2, TableTypes DEF RefreshBegin, TypeOK
  <2> QED BY <1>1, <2>1, <2>2, <2>3 DEF SessionInv, CallbackShape
<1>17. ASSUME NEW r \in batch, RefreshSkip(r)
      PROVE  SessionInv'
  BY <1>1, <1>2, <1>17, TableTypes DEF RefreshSkip, SessionInv, TypeOK, CallbackShape
<1>18. ASSUME NEW r \in batch, RefreshHeld(r)
      PROVE  SessionInv'
  BY <1>1, <1>2, <1>18, TableTypes DEF RefreshHeld, SessionInv, TypeOK, CallbackShape
<1>19. ASSUME NEW r \in batch, RefreshSend(r)
      PROVE  SessionInv'
  <2>1. r \in Pending /\ Remembered(r) /\ inflight = None
    BY <1>19 DEF RefreshSend, SessionInv, TypeOK
  <2>0. PICK c : c = [id |-> r.id, version |-> r.version, epoch |-> r.epoch,
                      refreshExp |-> r.refreshExp, sub |-> r.sub, token |-> r.token,
                      at |-> clock]
    OBVIOUS
  <2>2. c \in Call /\ inflight' = c /\ Remembered(c)
    BY <1>1, <1>19, <2>0, <2>1 DEF RefreshSend, TypeOK, Pending, Call, Remembered, SameLink
  <2>3. TypeOK'
    BY <1>1, <1>19, <2>1, <2>2 DEF RefreshSend, TypeOK, Pending
  <2>4. Remembered(c)'
    BY <2>2, RowStep, RememberedStep DEF Call, SessionInv
  <2>5. (\A q \in batch : Remembered(q))'
    <3> SUFFICES ASSUME NEW q \in batch' PROVE Remembered(q)'
      OBVIOUS
    <3>1. q \in Pending /\ Remembered(q)
      BY <1>19 DEF RefreshSend, SessionInv, TypeOK
    <3> QED BY <3>1, RowStep, RememberedStep DEF Pending, SessionInv
  <2>6. CallbackShape'
    BY <1>1, <1>19 DEF RefreshSend, CallbackShape
  <2>7. Remembered(inflight)'
    BY <2>2, <2>4 DEF Remembered, SameLink
  <2> QED BY <1>1, <2>3, <2>5, <2>6, <2>7 DEF SessionInv
<1>20. ASSUME NEW life \in AccessLives, NEW next \in RefreshTimes(inflight.at, life), RefreshAnswered(life, next)
      PROVE  SessionInv'
  BY <1>1, <1>2, <1>20, TableTypes DEF RefreshAnswered, SessionInv, TypeOK, CallbackShape
<1>21. ASSUME NEW w \in RetryWaits, RefreshLimited(w)
      PROVE  SessionInv'
  <2>0. clock + w \in Nat
    BY <1>1 DEF TypeOK
  <2>1. TypeOK'
    BY <1>1, <1>21, <2>0 DEF RefreshLimited, TypeOK
  <2>2. batch' \subseteq batch /\ inflight' = None /\ callback' = callback
    BY <1>21 DEF RefreshLimited
  <2> QED BY <1>1, <1>2, <2>1, <2>2 DEF SessionInv, CallbackShape
<1>22. ASSUME RefreshRefused
      PROVE  SessionInv'
  BY <1>1, <1>2, <1>22, TableTypes DEF RefreshRefused, SessionInv, TypeOK, CallbackShape
<1>23. ASSUME Tick
      PROVE  SessionInv'
  BY <1>1, <1>2, <1>23, TableTypes DEF Tick, SessionInv, TypeOK, CallbackShape
<1>24. ASSUME Restart
      PROVE  SessionInv'
  BY <1>1, <1>2, <1>24, TableTypes DEF Restart, SessionInv, TypeOK, CallbackShape
<1>25. ASSUME InvalidateRestored
      PROVE  SessionInv'
  <2>1. Cardinality(Present) \in Nat
    BY FS_CardinalityType DEF SessionInv
  <2>2. intent' \in [IntentIds -> Intent \cup {None}]
    BY <1>1, <1>25 DEF InvalidateRestored, TypeOK, Intent
  <2>3. attempt' \in [States -> Attempt \cup {None}]
    BY <1>1, <1>25 DEF InvalidateRestored, TypeOK
  <2>4. TypeOK'
    BY <1>1, <1>25, <2>1, <2>2, <2>3 DEF InvalidateRestored, TypeOK
  <2> QED BY <1>1, <1>25, <2>4 DEF InvalidateRestored, SessionInv, CallbackShape
<1>26. ASSUME UNCHANGED vars
      PROVE  SessionInv'
  BY <1>1, <1>2, <1>26 DEF vars, SessionInv, TypeOK, CallbackShape
<1> QED
  BY <1>3, <1>4, <1>5, <1>6, <1>7, <1>8, <1>9, <1>10, <1>11, <1>12, <1>13, <1>14, <1>15, <1>16, <1>17, <1>18, <1>19, <1>20, <1>21, <1>22, <1>23, <1>24, <1>25, <1>26
     DEF Next, Requests, CallbackSteps, RefreshSteps

LEMMA SessionInit == Init => SessionInv
<1> SUFFICES ASSUME Init PROVE SessionInv
  OBVIOUS
<1>1. row \in [AccountIds -> GoodRow]
  BY AbsentRowGood DEF Init
<1>2. Present = {}
  BY DEF Init, Present, AbsentRow
<1>3. TypeOK
  BY <1>1, GoodIsRow DEF Init, TypeOK
<1> QED
  BY <1>1, <1>2, <1>3, FS_EmptySet DEF Init, SessionInv, CallbackShape

LEMMA SessionInvariant == Spec => []SessionInv
<1>1. SessionInv /\ [Next]_vars => SessionInv'
  BY SessionStep
<1> QED BY <1>1, SessionInit, PTL DEF Spec

\* The tables, the suspended handlers and the clock keep their types.
THEOREM TypeCorrect == Spec => []TypeOK
<1>1. SessionInv => TypeOK
  BY DEF SessionInv
<1> QED BY <1>1, SessionInvariant, PTL

\* The stored credential always opens under the version of its row and belongs to
\* the row's UUID, whatever logins and late answers cross each other.
THEOREM CredentialOpens == Spec => []SecretOpens
<1>1. SessionInv => SecretOpens
  BY DEF SessionInv, GoodRow, RowInv, SecretOpens
<1> QED BY <1>1, SessionInvariant, PTL

\* No session without a verified link, and nothing left of it after a disconnect.
THEOREM NothingAfterDisconnect == Spec => []SessionOnlyWhenLinked
<1>1. SessionInv => SessionOnlyWhenLinked
  BY DEF SessionInv, GoodRow, RowInv, SessionOnlyWhenLinked
<1> QED BY <1>1, SessionInvariant, PTL

\* "refresh_pending" is shown only for an account whose refresh is scheduled.
THEOREM PendingRefreshComes == Spec => []PendingIsScheduled
<1>1. SessionInv => PendingIsScheduled
  <2> SUFFICES ASSUME SessionInv, NEW a \in AccountIds,
                      ViewStatus(a) = "refresh_pending", row[a].next = None
               PROVE  FALSE
    BY DEF PendingIsScheduled
  <2>1. row[a] \in Row /\ RowInv(row[a]) /\ clock \in Nat
    BY DEF SessionInv, GoodRow, TypeOK
  <2>2. row[a].status = "active" /\ ~Unexpired(row[a].accessExp)
        /\ Unexpired(row[a].refreshExp)
    BY <2>1 DEF ViewStatus, Row
  <2>3. row[a].accessExp \in Nat /\ row[a].refreshExp \in Nat
    BY <2>1, <2>2 DEF RowInv, Row, Time, Unexpired
  <2> QED BY <2>1, <2>2, <2>3 DEF RowInv, Unexpired
<1> QED BY <1>1, SessionInvariant, PTL

\* Rotation never extends the absolute deadline of a refresh token.
THEOREM RotationInheritsDeadline == Spec => DeadlineInherited
<1>1. SessionInv /\ [Next]_vars =>
        \A a \in AccountIds :
          row'[a].refreshExp # row[a].refreshExp => row'[a].epoch > row[a].epoch
  BY RowStep DEF RowsAdvance, Advances
<1>2. [][SessionInv /\ [Next]_vars]_vars =>
        [][\A a \in AccountIds :
          row'[a].refreshExp # row[a].refreshExp => row'[a].epoch > row[a].epoch]_vars
  BY <1>1, PTL
<1> QED BY <1>2, SessionInvariant, PTL DEF Spec, DeadlineInherited

-----------------------------------------------------------------------------
(* Logins and disconnects *)

\* Every open login attempt is younger than the last disconnect, and a suspended
\* callback compares with the generation its attempt was made in.
LoginInv ==
    /\ \A s \in States : attempt[s] # None => attempt[s].born = linkGen
    /\ callback # None => callback.born = callback.gen

LEMMA LoginStep ==
    ASSUME SessionInv, LoginInv, [Next]_vars
    PROVE  LoginInv'
<1> USE AbsentAssumption DEF LoginInv
<1>1. attempt \in [States -> Attempt \cup {None}]
  BY DEF SessionInv, TypeOK
<1>2. ASSUME NEW p \in Principals, NEW a \in AccountIds, Disconnect(p, a)
      PROVE  LoginInv'
  BY <1>2 DEF Disconnect
<1>3. ASSUME NEW p \in Principals, NEW w \in Browsers, Start(p, w)
      PROVE  LoginInv'
  BY <1>1, <1>3 DEF Start, PurgedAttempts
<1>4. ASSUME NEW p \in Principals, NEW s \in States, NEW w \in Browsers,
             CallbackBegin(p, s, w)
      PROVE  LoginInv'
  BY <1>1, <1>4 DEF CallbackBegin
<1>5. ASSUME NEW p \in Principals, NEW c \in AccountIds \cup {None}, Prepare(p, c)
      PROVE  LoginInv'
  BY <1>1, <1>5 DEF Prepare, PurgedAttempts
<1>6. ASSUME NEW u \in Subjects, NEW life \in AccessLives, NEW b \in BOOLEAN,
             CallbackExchanged(u, life, b)
      PROVE  LoginInv'
  <2>1. callback \in Callback
    BY <1>6 DEF CallbackExchanged, SessionInv, TypeOK
  <2> QED BY <1>6, <2>1 DEF CallbackExchanged, Callback
<1>7. ASSUME RefreshBegin
      PROVE  LoginInv'
  BY <1>1, <1>7 DEF RefreshBegin, PurgedAttempts
<1>8. ASSUME InvalidateRestored
      PROVE  LoginInv'
  <2>1. CASE Present = {}
    <3>1. linkGen' = linkGen /\ attempt' = attempt /\ callback' = None
      BY <1>8, <2>1, FS_EmptySet DEF InvalidateRestored, SessionInv, TypeOK
    <3> QED BY <3>1
  <2>2. CASE Present # {}
    BY <1>8, <2>2 DEF InvalidateRestored
  <2> QED BY <2>1, <2>2
<1>9. ASSUME linkGen' = linkGen, attempt' = attempt, callback' \in {callback, None}
      PROVE  LoginInv'
  BY <1>9
<1> QED
  BY <1>2, <1>3, <1>4, <1>5, <1>6, <1>7, <1>8, <1>9
     DEF Next, Requests, CallbackSteps, RefreshSteps, vars, Read, Register, SetDefault,
         RefreshSetting, CallbackFailed, CallbackLimited, CallbackProfiled,
         CallbackRejected, RefreshSkip, RefreshHeld, RefreshSend, RefreshAnswered,
         RefreshLimited, RefreshRefused, Tick, Restart

\* A login begun before a disconnect never links an account after it.
THEOREM DisconnectIsFinal == Spec => NotRevived
<1>1. Init => LoginInv
  BY DEF Init, LoginInv
<1>2. SessionInv /\ LoginInv /\ [Next]_vars => LoginInv'
  BY LoginStep
<1>3. SessionInv /\ LoginInv /\ [Next]_vars =>
        \A a \in AccountIds :
          row'[a].epoch # row[a].epoch /\ row'[a].status = "active" =>
            callback # None /\ callback.born = linkGen
  BY RowStep DEF RowsAdvance, Advances, NotCancelled, LoginInv
<1>4. Spec => []LoginInv
  BY <1>1, <1>2, SessionInvariant, PTL DEF Spec
<1>5. [][SessionInv /\ LoginInv /\ [Next]_vars]_vars =>
        [][\A a \in AccountIds :
          row'[a].epoch # row[a].epoch /\ row'[a].status = "active" =>
            callback # None /\ callback.born = linkGen]_vars
  BY <1>3, PTL
<1> QED BY <1>4, <1>5, SessionInvariant, PTL DEF Spec, NotRevived

-----------------------------------------------------------------------------
(* Refresh tokens *)

\* Refresh tokens are numbered in the order the provider hands them out, each is in
\* one place, and one that may have been consumed is in no schedulable row.
Holds(a, t) == row[a].secret # None /\ row[a].secret.token = t

TokenInv ==
    /\ \A t \in submitted : t <= issued
    /\ \A a \in AccountIds, t \in Nat : Holds(a, t) => t <= issued
    /\ \A a, b \in AccountIds, t \in Nat : Holds(a, t) /\ Holds(b, t) => a = b
    /\ callback # None /\ callback.token # None =>
         /\ callback.token <= issued /\ callback.token \notin submitted
         /\ \A a \in AccountIds : ~Holds(a, callback.token)
    /\ inflight # None => inflight.token \in submitted

CallInv == ClaimHasCall /\ TokenInv /\ TokenUnused

\* An UPDATE that brings in no credential and claims or releases nothing.
Quiet(r, q) ==
    /\ q.secret \in {None, r.secret}
    /\ q.status = "active" => r.status = "active" /\ q.refreshing = r.refreshing
    /\ q.refreshing => /\ r.refreshing /\ q.status = "active"
                       /\ q.version = r.version /\ q.epoch = r.epoch

LEMMA QuietStep ==
    ASSUME SessionInv, CallInv, row' \in [AccountIds -> GoodRow],
           \A a \in AccountIds : Quiet(row[a], row'[a]),
           issued' = issued, submitted' = submitted, inflight' = inflight,
           callback' # None => callback' = callback \/ callback'.token = None
    PROVE  CallInv'
<1>1. row \in [AccountIds -> GoodRow]
  BY DEF SessionInv
<1>2. \A a \in AccountIds : row'[a].status = "active" => row'[a].secret # None
  BY DEF GoodRow, RowInv
<1>3. ClaimHasCall'
  BY DEF CallInv, ClaimHasCall, SameLink, Quiet
<1>4. TokenInv'
  <2>1. \A a \in AccountIds : \A t : Holds(a, t)' => Holds(a, t)
    BY DEF Quiet, Holds
  <2>2. TokenInv
    BY DEF CallInv
  <2>3. CASE callback' = callback
    BY <2>1, <2>2, <2>3 DEF TokenInv
  <2>4. CASE callback' = None \/ callback'.token = None
    BY <2>1, <2>2, <2>4 DEF TokenInv
  <2> QED BY <2>3, <2>4
<1>5. TokenUnused'
  BY <1>2 DEF CallInv, TokenUnused, Quiet
<1> QED BY <1>3, <1>4, <1>5 DEF CallInv

LEMMA RowsAreQuiet ==
    ASSUME SessionInv
    PROVE  \A a \in AccountIds : Quiet(row[a], row[a])
BY DEF SessionInv, GoodRow, RowInv, Quiet

LEMMA QuietActions ==
    ASSUME SessionInv,
           \/ \E p \in Principals :
                \/ \E provider \in Providers, name \in Names : Register(p, provider, name)
                \/ \E a \in AccountIds : SetDefault(p, a) \/ Disconnect(p, a)
                \/ \E a \in AccountIds, b \in BOOLEAN : RefreshSetting(p, a, b)
           \/ \E r \in batch : RefreshHeld(r)
    PROVE  /\ \A a \in AccountIds : Quiet(row[a], row'[a])
           /\ issued' = issued /\ submitted' = submitted /\ inflight' = inflight
           /\ callback' = callback
<1> DEFINE Goal == /\ \A a \in AccountIds : Quiet(row[a], row'[a])
                   /\ issued' = issued /\ submitted' = submitted
                   /\ inflight' = inflight /\ callback' = callback
<1>1. row \in [AccountIds -> GoodRow] /\ \A a \in AccountIds : Quiet(row[a], row[a])
  BY RowsAreQuiet DEF SessionInv
<1>2. ASSUME NEW p \in Principals, NEW provider \in Providers, NEW name \in Names, Register(p, provider, name)
      PROVE  Goal
  <2>1. PICK a \in FreshIds : row' = [row EXCEPT ![a] = NewRow(provider, name)]
    BY <1>2 DEF Register
  <2>2. Quiet(row[a], NewRow(provider, name))
    BY DEF NewRow, AbsentRow, Quiet
  <2> QED BY <1>1, <1>2, <2>1, <2>2 DEF Register
<1>3. ASSUME NEW p \in Principals, NEW a \in AccountIds, SetDefault(p, a)
      PROVE  Goal
  BY <1>1, <1>3 DEF SetDefault, Quiet, GoodRow, Row, RowInv
<1>4. ASSUME NEW p \in Principals, NEW a \in AccountIds, Disconnect(p, a)
      PROVE  Goal
  BY <1>1, <1>4 DEF Disconnect, Disconnected, Quiet, GoodRow, Row, RowInv
<1>5. ASSUME NEW p \in Principals, NEW a \in AccountIds, NEW b \in BOOLEAN, RefreshSetting(p, a, b)
      PROVE  Goal
  BY <1>1, <1>5 DEF RefreshSetting, Quiet, GoodRow, Row, RowInv
<1>6. ASSUME NEW r \in batch, RefreshHeld(r)
      PROVE  Goal
  <2>1. r.id \in AccountIds
    BY DEF SessionInv, TypeOK, Pending
  <2> DEFINE q == Deferred(row[r.id], cooldown)
  <2>3. row[r.id] \in Row /\ row[r.id].status = "active" /\ ~row[r.id].refreshing
    BY <1>1, <1>6, <2>1 DEF RefreshHeld, Claimable, GoodRow
  <2>4. /\ q.refreshing = FALSE /\ row[r.id].refreshing = FALSE
        /\ q.secret = row[r.id].secret /\ q.status = row[r.id].status
    BY <2>3 DEF Deferred, Row
  <2> HIDE DEF q
  <2>2. Quiet(row[r.id], q)
    BY <2>3, <2>4 DEF Quiet
  <2>5. row' = [row EXCEPT ![r.id] = q]
    BY <1>6 DEF RefreshHeld, q
  <2> QED BY <1>1, <1>6, <2>1, <2>2, <2>5 DEF RefreshHeld
<1> QED BY <1>2, <1>3, <1>4, <1>5, <1>6

\* Without a request out no row is claimed.
LEMMA NoClaim ==
    ASSUME SessionInv, ClaimHasCall, NEW a \in AccountIds,
           inflight = None \/ inflight.id # a \/ ~SameLink(inflight)
    PROVE  row[a].refreshing = FALSE
BY DEF SessionInv, GoodRow, Row, ClaimHasCall

LEMMA ProfiledTokens ==
    ASSUME SessionInv, CallInv, NEW name \in Names, CallbackProfiled(name)
    PROVE  CallInv'
<1>1. PICK a \in GrantTargets(callback.sub, name),
          next \in RefreshTimes(callback.at, callback.life) : SaveGrant(a, name, next)
  BY DEF CallbackProfiled
<1>2. a \in AccountIds
  BY <1>1 DEF GrantTargets, Registered, Linked, Present, FreshIds
<1> DEFINE r == IF row[a].status = "absent" THEN NewRow("ggg", name) ELSE row[a]
           q == Granted(r, name, callback, next)
<1>3. row' = [row EXCEPT ![a] = q]
  BY <1>1 DEF SaveGrant
<1>4. ~q.refreshing /\ q.secret.token = callback.token
  BY DEF Granted
<1> HIDE DEF q
<1>5. /\ callback # None /\ callback' = None /\ inflight' = inflight
      /\ issued' = issued /\ submitted' = submitted
  BY DEF CallbackProfiled
<1>6. row \in [AccountIds -> GoodRow] /\ row'[a] = q
      /\ \A b \in AccountIds \ {a} : row'[b] = row[b]
  BY <1>2, <1>3 DEF SessionInv
<1>7. ClaimHasCall'
  <2> SUFFICES ASSUME NEW b \in AccountIds, row'[b].refreshing
               PROVE  /\ row'[b].status = "active"
                      /\ inflight' # None /\ inflight'.id = b /\ SameLink(inflight)'
    BY DEF ClaimHasCall
  <2>1. b # a
    BY <1>4, <1>6
  <2> QED BY <1>5, <1>6, <2>1 DEF CallInv, ClaimHasCall, SameLink
<1>8. \A b \in AccountIds, t \in Nat : Holds(b, t)' =>
        (b # a /\ Holds(b, t)) \/ (b = a /\ t = callback.token)
  BY <1>4, <1>6 DEF Holds
<1>9. TokenInv'
  BY <1>5, <1>8, NoneAssumption DEF CallInv, TokenInv
<1>10. TokenUnused'
  <2> SUFFICES ASSUME NEW b \in AccountIds, row'[b].status = "active",
                      ~row'[b].refreshing, row'[b].secret.token # None
               PROVE  row'[b].secret.token \notin submitted
    BY <1>5 DEF TokenUnused
  <2>1. CASE b = a
    BY <1>4, <1>5, <1>6, <2>1 DEF CallInv, TokenInv
  <2>2. CASE b # a
    BY <1>6, <2>2 DEF CallInv, TokenUnused
  <2> QED BY <2>1, <2>2
<1> QED BY <1>7, <1>9, <1>10 DEF CallInv

LEMMA ExchangedTokens ==
    ASSUME SessionInv, CallInv, NEW u \in Subjects, NEW life \in AccessLives,
           NEW b \in BOOLEAN, CallbackExchanged(u, life, b)
    PROVE  CallInv'
<1>1. /\ row' = row /\ inflight' = inflight /\ submitted' = submitted
      /\ issued \in Nat /\ issued' \in {issued, issued + 1} /\ callback \in Callback
  BY DEF CallbackExchanged, SessionInv, TypeOK
<1>2. callback' # None => callback'.token \in {None, issued + 1}
                          /\ (callback'.token # None => issued' = issued + 1)
  BY <1>1, NoneAssumption DEF CallbackExchanged, Callback
<1>3. \A a \in AccountIds : ~Holds(a, issued + 1)
  BY <1>1 DEF CallInv, TokenInv
<1>4. \A t \in submitted : t <= issued /\ t \in Nat
  BY DEF CallInv, TokenInv, SessionInv, TypeOK
<1>5. \A a \in AccountIds, t \in Nat : Holds(a, t)' = Holds(a, t)
  BY <1>1 DEF Holds
<1>6. TokenInv'
  <2>1. \A t \in submitted' : t <= issued'
    BY <1>1, <1>4
  <2>2. \A a \in AccountIds, t \in Nat : Holds(a, t)' => t <= issued'
    BY <1>1, <1>5 DEF CallInv, TokenInv
  <2>3. \A a, c \in AccountIds, t \in Nat : Holds(a, t)' /\ Holds(c, t)' => a = c
    BY <1>5 DEF CallInv, TokenInv
  <2>4. callback' # None /\ callback'.token # None =>
          /\ callback'.token <= issued' /\ callback'.token \notin submitted'
          /\ \A a \in AccountIds : ~Holds(a, callback.token)'
    <3> SUFFICES ASSUME callback' # None, callback'.token # None
                 PROVE  /\ callback'.token <= issued' /\ callback'.token \notin submitted'
                        /\ \A a \in AccountIds : ~Holds(a, callback.token)'
      OBVIOUS
    <3>1. callback'.token = issued + 1 /\ issued' = issued + 1
      BY <1>2
    <3> QED BY <1>1, <1>3, <1>4, <3>1 DEF Holds
  <2>5. inflight' # None => inflight'.token \in submitted'
    BY <1>1 DEF CallInv, TokenInv
  <2> QED BY <2>1, <2>2, <2>3, <2>4, <2>5 DEF TokenInv
<1> QED BY <1>1, <1>6 DEF CallInv, ClaimHasCall, TokenUnused, SameLink

LEMMA SentTokens ==
    ASSUME SessionInv, CallInv, NEW r \in batch, RefreshSend(r)
    PROVE  CallInv' /\ r.token \notin submitted
<1>1. /\ r \in Pending /\ r.id \in AccountIds /\ r.token \in Nat /\ Remembered(r)
      /\ row \in [AccountIds -> GoodRow] /\ issued \in Nat
  BY DEF SessionInv, TypeOK, Pending
<1>2. /\ SameLink(r) /\ row[r.id].status = "active" /\ ~row[r.id].refreshing
      /\ inflight = None
  BY DEF RefreshSend, Claimable
<1>3. row[r.id].secret # None /\ row[r.id].secret.token = r.token /\ Holds(r.id, r.token)
  BY <1>1, <1>2 DEF Remembered, Holds
<1>4. r.token \notin submitted /\ r.token <= issued
  BY <1>1, <1>2, <1>3, NoneAssumption DEF CallInv, TokenUnused, TokenInv
<1> DEFINE q == [row[r.id] EXCEPT !.refreshing = TRUE]
<1>5. row' = [row EXCEPT ![r.id] = q]
  BY DEF RefreshSend
<1>6. /\ q.secret = row[r.id].secret /\ q.refreshing = TRUE /\ q.status = "active"
      /\ q.version = row[r.id].version /\ q.epoch = row[r.id].epoch
  BY <1>1, <1>2 DEF GoodRow, Row
<1> HIDE DEF q
<1>7. row'[r.id] = q /\ \A b \in AccountIds \ {r.id} : row'[b] = row[b]
  BY <1>1, <1>5
<1>8. /\ inflight' # None /\ inflight'.id = r.id /\ inflight'.version = r.version
      /\ inflight'.epoch = r.epoch /\ inflight'.token = r.token
      /\ submitted' = submitted \cup {r.token} /\ issued' = issued /\ callback' = callback
  <2>1. inflight' \in Call
    BY SessionStep DEF SessionInv, TypeOK, RefreshSend, Next, RefreshSteps, Call, Pending
  <2> QED BY <2>1, AbsentAssumption DEF RefreshSend
<1>9. ClaimHasCall'
  <2>1. \A b \in AccountIds \ {r.id} : row'[b].refreshing = FALSE
    BY <1>2, <1>7, NoClaim DEF CallInv
  <2>2. SameLink(inflight)'
    BY <1>2, <1>6, <1>7, <1>8 DEF SameLink
  <2> QED BY <1>6, <1>7, <1>8, <2>1, <2>2 DEF ClaimHasCall
<1>10. \A b \in AccountIds, t \in Nat : Holds(b, t)' = Holds(b, t)
  BY <1>6, <1>7 DEF Holds
<1>11. TokenInv'
  <2>1. callback # None /\ callback.token # None => callback.token # r.token
    BY <1>1, <1>3 DEF CallInv, TokenInv
  <2>2. callback # None /\ callback.token # None => callback.token \in Nat
    BY DEF SessionInv, TypeOK, Callback
  <2> QED BY <1>4, <1>8, <1>10, <2>1, <2>2 DEF CallInv, TokenInv
<1>12. TokenUnused'
  <2> SUFFICES ASSUME NEW b \in AccountIds, row'[b].status = "active",
                      ~row'[b].refreshing, row'[b].secret.token # None
               PROVE  row'[b].secret.token \notin submitted'
    BY DEF TokenUnused
  <2>1. b # r.id /\ row'[b] = row[b] /\ row[b].secret \in Secret
    BY <1>1, <1>6, <1>7 DEF GoodRow, Row, RowInv
  <2>2. row[b].secret.token \in Nat /\ Holds(b, row[b].secret.token)
    BY <2>1, AbsentAssumption DEF Secret, Holds
  <2>3. row[b].secret.token # r.token
    BY <1>1, <1>3, <2>1, <2>2 DEF CallInv, TokenInv
  <2> QED BY <1>8, <2>1, <2>3 DEF CallInv, TokenUnused
<1> QED BY <1>4, <1>9, <1>11, <1>12 DEF CallInv

\* The request is over: no row is claimed, and a row that may be refreshed again
\* had no claim, or its token was not consumed.
LEMMA ReleaseStep ==
    ASSUME SessionInv, CallInv, row' \in [AccountIds -> GoodRow],
           \A a \in AccountIds :
             /\ row'[a].refreshing = FALSE
             /\ row'[a].secret \in {None, row[a].secret}
             /\ row'[a].status = "active" =>
                  /\ row[a].status = "active"
                  /\ row[a].refreshing => row'[a].secret.token \notin submitted',
           issued' = issued, submitted' \subseteq submitted, inflight' = None,
           callback' # None => callback' = callback
    PROVE  CallInv'
<1>1. \A a \in AccountIds : row'[a].status = "active" => row'[a].secret # None
  BY DEF GoodRow, RowInv
<1>2. ClaimHasCall'
  BY DEF ClaimHasCall
<1>3. \A a \in AccountIds, t \in Nat : Holds(a, t)' => Holds(a, t)
  BY DEF Holds
<1>4. callback' # None => callback'.token \in Nat \cup {None}
  BY DEF SessionInv, TypeOK, Callback
<1>5. TokenInv'
  BY <1>3, <1>4, NoneAssumption DEF CallInv, TokenInv
<1>6. TokenUnused'
  <2> SUFFICES ASSUME NEW a \in AccountIds, row'[a].status = "active",
                      row'[a].secret.token # None
               PROVE  row'[a].secret.token \notin submitted'
    BY DEF TokenUnused
  <2>1. row'[a].secret = row[a].secret /\ row[a].status = "active"
    BY <1>1
  <2>2. CASE row[a].refreshing
    BY <2>2
  <2>3. CASE ~row[a].refreshing
    BY <2>1, <2>3 DEF CallInv, TokenUnused
  <2> QED BY <2>2, <2>3
<1> QED BY <1>2, <1>5, <1>6 DEF CallInv

\* What the request in flight knows of a row that is still in the same link.
LEMMA CallFacts ==
    ASSUME SessionInv, CallInv, inflight # None
    PROVE  /\ inflight \in Call /\ inflight.id \in AccountIds
           /\ inflight.version \in Nat /\ inflight.token \in Nat
           /\ row[inflight.id] \in GoodRow
           /\ SameLink(inflight) =>
                /\ row[inflight.id].secret # None
                /\ row[inflight.id].secret.token = inflight.token
           /\ \A a \in AccountIds : a # inflight.id => row[a].refreshing = FALSE
           /\ ~SameLink(inflight) => row[inflight.id].refreshing = FALSE
BY NoClaim, AbsentAssumption DEF SessionInv, TypeOK, Call, CallInv, Remembered

LEMMA LimitedTokens ==
    ASSUME SessionInv, CallInv, SessionInv', NEW wait \in RetryWaits, RefreshLimited(wait)
    PROVE  CallInv'
<1>1. /\ inflight # None /\ inflight' = None /\ callback' = callback /\ issued' = issued
      /\ submitted' = submitted \ {inflight.token}
      /\ row \in [AccountIds -> GoodRow] /\ row' \in [AccountIds -> GoodRow]
  BY DEF RefreshLimited, SessionInv
<1>2. PICK q : q = Deferred(row[inflight.id], clock + wait)
  OBVIOUS
<1>3. /\ q.refreshing = FALSE /\ q.status = row[inflight.id].status
      /\ q.secret = row[inflight.id].secret
  BY <1>1, <1>2, CallFacts DEF Deferred, GoodRow, Row
<1>4. row' = IF SameLink(inflight) THEN [row EXCEPT ![inflight.id] = q] ELSE row
  BY <1>2 DEF RefreshLimited
<1>5. \A a \in AccountIds :
        /\ row'[a].refreshing = FALSE
        /\ row'[a].secret = row[a].secret
        /\ row'[a].status = row[a].status
        /\ row[a].refreshing => a = inflight.id /\ SameLink(inflight)
  BY <1>1, <1>3, <1>4, CallFacts
<1>6. \A a \in AccountIds : row[a].refreshing => row'[a].secret.token \notin submitted'
  BY <1>1, <1>5, CallFacts
<1> QED BY <1>1, <1>5, <1>6, ReleaseStep

LEMMA RefusedTokens ==
    ASSUME SessionInv, CallInv, SessionInv', RefreshRefused
    PROVE  CallInv'
<1>1. /\ inflight # None /\ inflight' = None /\ callback' = callback /\ issued' = issued
      /\ submitted' = submitted
      /\ row \in [AccountIds -> GoodRow] /\ row' \in [AccountIds -> GoodRow]
  BY DEF RefreshRefused, SessionInv
<1>2. PICK q : q = NeedsLogin(row[inflight.id])
  OBVIOUS
<1>3. /\ q.refreshing = FALSE /\ q.status = "reauth_required"
      /\ q.secret = row[inflight.id].secret
  BY <1>1, <1>2, CallFacts DEF NeedsLogin, GoodRow, Row
<1>4. row' = IF SameLink(inflight) THEN [row EXCEPT ![inflight.id] = q] ELSE row
  BY <1>2 DEF RefreshRefused
<1>5. \A a \in AccountIds :
        /\ row'[a].refreshing = FALSE
        /\ row'[a].secret = row[a].secret
        /\ row'[a].status = "active" => row[a].status = "active" /\ ~row[a].refreshing
  BY <1>1, <1>3, <1>4, CallFacts
<1> QED BY <1>1, <1>5, ReleaseStep

LEMMA RestartTokens ==
    ASSUME SessionInv, CallInv, SessionInv', Restart \/ InvalidateRestored
    PROVE  CallInv'
<1>1. /\ inflight' = None /\ callback' = None /\ issued' = issued /\ submitted' = submitted
      /\ row \in [AccountIds -> GoodRow] /\ row' \in [AccountIds -> GoodRow]
  BY DEF Restart, InvalidateRestored, SessionInv
<1>2. \A a \in AccountIds :
        /\ row'[a].refreshing = FALSE
        /\ row'[a].secret \in {None, row[a].secret}
        /\ row'[a].status = "active" => row[a].status = "active" /\ ~row[a].refreshing
  <2> SUFFICES ASSUME NEW a \in AccountIds
               PROVE  /\ row'[a].refreshing = FALSE
                      /\ row'[a].secret \in {None, row[a].secret}
                      /\ row'[a].status = "active" =>
                           row[a].status = "active" /\ ~row[a].refreshing
    OBVIOUS
  <2>1. row[a] \in Row /\ RowInv(row[a]) /\ row[a].refreshing \in BOOLEAN
    BY <1>1 DEF GoodRow, Row
  <2>2. CASE Restart
    BY <2>1, <2>2 DEF Restart, NeedsLogin, Row
  <2>3. CASE InvalidateRestored
    BY <2>1, <2>3 DEF InvalidateRestored, Disconnected, Present, RowInv
  <2> QED BY <2>2, <2>3
<1> QED BY <1>1, <1>2, ReleaseStep

\* A rotation brings in a token that was never handed out before.
LEMMA AnsweredTokens ==
    ASSUME SessionInv, CallInv, NEW life \in AccessLives,
           NEW next \in RefreshTimes(inflight.at, life), RefreshAnswered(life, next)
    PROVE  CallInv'
<1>1. /\ inflight # None /\ inflight' = None /\ callback' = callback
      /\ issued \in Nat /\ issued' = issued + 1 /\ submitted' = submitted
      /\ row \in [AccountIds -> GoodRow]
  BY DEF RefreshAnswered, SessionInv, TypeOK
<1>2. PICK q : q = Rotated(row[inflight.id], life, next)
  OBVIOUS
<1>3. /\ q.refreshing = FALSE /\ q.secret.token = issued + 1
  BY <1>2 DEF Rotated
<1>4. \/ row' = [row EXCEPT ![inflight.id] = q]
      \/ row' = row /\ row[inflight.id].refreshing = FALSE
  <2>1. row[inflight.id].refreshing => SameLink(inflight) /\ row[inflight.id].status = "active"
    BY <1>1, CallFacts DEF CallInv, ClaimHasCall
  <2>2. row[inflight.id].refreshing \in BOOLEAN
    BY <1>1, CallFacts DEF GoodRow, Row
  <2> QED BY <1>2, <2>1, <2>2 DEF RefreshAnswered
<1>5. \A a \in AccountIds :
        /\ row'[a].refreshing = FALSE
        /\ \/ row'[a] = row[a] /\ ~row[a].refreshing
           \/ row'[a].secret.token = issued + 1 /\ a = inflight.id
  BY <1>1, <1>3, <1>4, CallFacts
<1>6. \A t \in submitted : t \in Nat /\ t <= issued
  BY DEF CallInv, TokenInv, SessionInv, TypeOK
<1>7. \A a \in AccountIds, t \in Nat : Holds(a, t)' =>
        Holds(a, t) \/ (t = issued + 1 /\ a = inflight.id)
  BY <1>5 DEF Holds
<1>8. \A a \in AccountIds, t \in Nat : Holds(a, t) => t <= issued
  BY DEF CallInv, TokenInv
<1>9. ClaimHasCall'
  BY <1>5 DEF ClaimHasCall
<1>10. TokenInv'
  <2>1. \A t \in submitted' : t <= issued'
    BY <1>1, <1>6
  <2>2. \A a \in AccountIds, t \in Nat : Holds(a, t)' => t <= issued'
    BY <1>1, <1>7, <1>8
  <2>3. \A a, b \in AccountIds, t \in Nat : Holds(a, t)' /\ Holds(b, t)' => a = b
    <3> SUFFICES ASSUME NEW a \in AccountIds, NEW b \in AccountIds, NEW t \in Nat,
                        Holds(a, t)', Holds(b, t)'
                 PROVE  a = b
      OBVIOUS
    <3>1. CASE t = issued + 1
      BY <1>1, <1>7, <1>8, <3>1
    <3>2. CASE t # issued + 1
      BY <1>7, <3>2 DEF CallInv, TokenInv
    <3> QED BY <3>1, <3>2
  <2>4. callback' # None /\ callback'.token # None =>
          /\ callback'.token <= issued' /\ callback'.token \notin submitted'
          /\ \A a \in AccountIds : ~Holds(a, callback.token)'
    <3> SUFFICES ASSUME callback # None, callback.token # None
                 PROVE  /\ callback.token <= issued' /\ callback.token \notin submitted
                        /\ \A a \in AccountIds : ~Holds(a, callback.token)'
      BY <1>1
    <3>1. callback.token \in Nat
      BY DEF SessionInv, TypeOK, Callback
    <3>2. callback.token <= issued /\ callback.token \notin submitted
          /\ \A a \in AccountIds : ~Holds(a, callback.token)
      BY DEF CallInv, TokenInv
    <3>3. callback.token # issued + 1 /\ callback.token <= issued'
      BY <1>1, <3>1, <3>2
    <3> QED BY <1>1, <1>7, <3>1, <3>2, <3>3
  <2> QED BY <1>1, <2>1, <2>2, <2>3, <2>4 DEF TokenInv
<1>11. TokenUnused'
  <2> SUFFICES ASSUME NEW a \in AccountIds, row'[a].status = "active",
                      row'[a].secret.token # None
               PROVE  row'[a].secret.token \notin submitted
    BY <1>1 DEF TokenUnused
  <2>1. CASE row'[a] = row[a] /\ ~row[a].refreshing
    BY <2>1 DEF CallInv, TokenUnused
  <2>2. CASE row'[a].secret.token = issued + 1
    BY <1>1, <1>6, <2>2
  <2> QED BY <1>5, <2>1, <2>2
<1> QED BY <1>9, <1>10, <1>11 DEF CallInv

LEMMA CallStep ==
    ASSUME SessionInv, CallInv, [Next]_vars
    PROVE  /\ CallInv'
           /\ inflight' # None /\ inflight' # inflight => inflight'.token \notin submitted
<1> DEFINE Fresh == inflight' # None /\ inflight' # inflight => inflight'.token \notin submitted
<1>1. SessionInv'
  BY SessionStep
<1>2. row' \in [AccountIds -> GoodRow]
  BY <1>1 DEF SessionInv
<1>3. ASSUME \/ \E p \in Principals :
                  \/ \E provider \in Providers, name \in Names : Register(p, provider, name)
                  \/ \E a \in AccountIds : SetDefault(p, a) \/ Disconnect(p, a)
                  \/ \E a \in AccountIds, b \in BOOLEAN : RefreshSetting(p, a, b)
             \/ \E r \in batch : RefreshHeld(r)
      PROVE  CallInv' /\ Fresh
  BY <1>2, <1>3, QuietActions, QuietStep
<1>4. ASSUME row' = row, issued' = issued, submitted' = submitted, inflight' = inflight,
             callback' # None => callback' = callback \/ callback'.token = None
      PROVE  CallInv' /\ Fresh
  BY <1>2, <1>4, RowsAreQuiet, QuietStep
<1>5. ASSUME NEW p \in Principals, NEW s \in States, NEW w \in Browsers,
             CallbackBegin(p, s, w)
      PROVE  CallInv' /\ Fresh
  BY <1>4, <1>5 DEF CallbackBegin
<1>6. ASSUME NEW u \in Subjects, NEW life \in AccessLives, NEW b \in BOOLEAN,
             CallbackExchanged(u, life, b)
      PROVE  CallInv' /\ Fresh
  BY <1>6, ExchangedTokens DEF CallbackExchanged
<1>7. ASSUME NEW name \in Names, CallbackProfiled(name)
      PROVE  CallInv' /\ Fresh
  BY <1>7, ProfiledTokens DEF CallbackProfiled
<1>8. ASSUME NEW r \in batch, RefreshSend(r)
      PROVE  CallInv' /\ Fresh
  <2>1. inflight'.token = r.token
    BY <1>8 DEF RefreshSend
  <2> QED BY <1>8, <2>1, SentTokens
<1>9. ASSUME NEW life \in AccessLives, inflight # None,
             NEW next \in RefreshTimes(inflight.at, life), RefreshAnswered(life, next)
      PROVE  CallInv' /\ Fresh
  BY <1>9, AnsweredTokens DEF RefreshAnswered
<1>10. ASSUME NEW wait \in RetryWaits, RefreshLimited(wait)
       PROVE  CallInv' /\ Fresh
  BY <1>1, <1>10, LimitedTokens DEF RefreshLimited
<1>11. ASSUME RefreshRefused
       PROVE  CallInv' /\ Fresh
  BY <1>1, <1>11, RefusedTokens DEF RefreshRefused
<1>12. ASSUME Restart \/ InvalidateRestored
       PROVE  CallInv' /\ Fresh
  BY <1>1, <1>12, RestartTokens DEF Restart, InvalidateRestored
<1>13. ASSUME UNCHANGED <<row, issued, submitted, inflight>>, callback' \in {None, callback}
       PROVE  CallInv' /\ Fresh
  BY <1>4, <1>13
<1> QED
  BY <1>3, <1>5, <1>6, <1>7, <1>8, <1>9, <1>10, <1>11, <1>12, <1>13
     DEF Next, Requests, CallbackSteps, RefreshSteps, vars, Read, Start, Prepare,
         CallbackFailed, CallbackLimited, CallbackRejected, RefreshBegin, RefreshSkip, Tick

LEMMA CallInit == Init => CallInv
BY NoneAssumption DEF Init, AbsentRow, CallInv, ClaimHasCall, TokenInv, TokenUnused, Holds

LEMMA CallInvariant == Spec => []CallInv
<1>1. SessionInv /\ CallInv /\ [Next]_vars => CallInv'
  BY CallStep
<1> QED BY CallInit, <1>1, SessionInvariant, PTL DEF Spec

\* The durable claim of a row is set only while a request awaits its answer.
THEOREM ClaimIsHeld == Spec => []ClaimHasCall
<1>1. CallInv => ClaimHasCall
  BY DEF CallInv
<1> QED BY <1>1, CallInvariant, PTL

\* No row that may be refreshed holds a token the provider may have consumed.
THEOREM TokenIsUnused == Spec => []TokenUnused
<1>1. CallInv => TokenUnused
  BY DEF CallInv
<1> QED BY <1>1, CallInvariant, PTL

\* A refresh token is submitted once, unless the provider said it did not take it:
\* over passes, logins, disconnects and restarts in any order.
THEOREM TokenNeverReplayed == Spec => NoReplay
<1>1. SessionInv /\ CallInv /\ [Next]_vars =>
        (inflight' # None /\ inflight' # inflight => inflight'.token \notin submitted)
  BY CallStep
<1>2. [][SessionInv /\ CallInv /\ [Next]_vars]_vars =>
        [][inflight' # None /\ inflight' # inflight => inflight'.token \notin submitted]_vars
  BY <1>1, PTL
<1> QED BY <1>2, SessionInvariant, CallInvariant, PTL DEF Spec, NoReplay

\* A session and a claim stand on a link that still is.
THEOREM LinkIsHeld == Spec => []LinkHeld
BY NothingAfterDisconnect, ClaimIsHeld, PTL DEF LinkHeld

\* The credential of a schedulable row opens, is unused and will be asked for.
THEOREM CredentialIsUsable == Spec => []CredentialUsable
BY CredentialOpens, TokenIsUnused, PendingRefreshComes, PTL DEF CredentialUsable

\* No token is submitted twice and no rotation moves the deadline.
THEOREM RotationIsSafe == Spec => RotationSafe
BY TokenNeverReplayed, RotationInheritsDeadline DEF RotationSafe

-----------------------------------------------------------------------------
(* Quotas of the tables *)

LEMMA FewerRows ==
    ASSUME NEW S, IsFiniteSet(S), NEW n \in Nat, Cardinality(S) <= n,
           NEW T, T \subseteq S
    PROVE  IsFiniteSet(T) /\ Cardinality(T) <= n
<1>1. IsFiniteSet(T) /\ Cardinality(T) <= Cardinality(S)
  BY FS_Subset
<1>2. Cardinality(T) \in Nat /\ Cardinality(S) \in Nat
  BY <1>1, FS_CardinalityType
<1> QED BY <1>1, <1>2

LEMMA OneRowMore ==
    ASSUME NEW S, IsFiniteSet(S), NEW n \in Nat, Cardinality(S) < n,
           NEW x, NEW T, T \subseteq S \cup {x}
    PROVE  IsFiniteSet(T) /\ Cardinality(T) <= n
<1>1. /\ IsFiniteSet(S \cup {x}) /\ Cardinality(S) \in Nat
      /\ Cardinality(S \cup {x}) \in {Cardinality(S), Cardinality(S) + 1}
  BY FS_AddElement, FS_CardinalityType
<1>2. Cardinality(S \cup {x}) <= n
  BY <1>1
<1> QED BY <1>1, <1>2, FewerRows

AttemptInv ==
    /\ IsFiniteSet(UsedStates(attempt))
    /\ Cardinality(UsedStates(attempt)) <= MaxAttempts

LEMMA AttemptStep ==
    ASSUME SessionInv, AttemptInv, [Next]_vars
    PROVE  AttemptInv'
<1>1. attempt \in [States -> Attempt \cup {None}] /\ MaxAttempts \in Nat
  BY ConstantsAssumption DEF SessionInv, TypeOK
<1>2. UsedStates(PurgedAttempts) \subseteq UsedStates(attempt)
  BY DEF UsedStates, PurgedAttempts
<1>3. ASSUME UsedStates(attempt)' \subseteq UsedStates(attempt)
      PROVE  AttemptInv'
  BY <1>1, <1>3, FewerRows DEF AttemptInv
<1>4. ASSUME NEW p \in Principals, NEW browser \in Browsers, Start(p, browser)
      PROVE  AttemptInv'
  <2>1. CASE AttemptRoom(PurgedAttempts)
    <3>1. PICK s \in States \ UsedStates(PurgedAttempts) :
            attempt' = [PurgedAttempts EXCEPT ![s] =
              [browser |-> browser, expires |-> clock + AttemptLife, born |-> linkGen]]
      BY <1>4, <2>1 DEF Start
    <3>2. UsedStates(attempt)' \subseteq UsedStates(PurgedAttempts) \cup {s}
      BY <3>1 DEF UsedStates, PurgedAttempts
    <3>3. IsFiniteSet(UsedStates(PurgedAttempts))
      BY <1>2, FS_Subset DEF AttemptInv
    <3> QED
      BY <1>1, <2>1, <3>2, <3>3, OneRowMore DEF AttemptInv, AttemptRoom
  <2>2. CASE ~AttemptRoom(PurgedAttempts)
    <3>1. attempt' = PurgedAttempts
      BY <1>4, <2>2 DEF Start
    <3> QED
      BY <1>2, <1>3, <3>1 DEF UsedStates
  <2> QED BY <2>1, <2>2
<1>5. ASSUME attempt' = PurgedAttempts PROVE AttemptInv'
  BY <1>2, <1>3, <1>5 DEF UsedStates
<1>6. ASSUME \A s \in States : attempt'[s] \in {attempt[s], None} PROVE AttemptInv'
  BY <1>3, <1>6 DEF UsedStates
<1>7. ASSUME NEW p \in Principals, NEW a \in AccountIds, Disconnect(p, a)
      PROVE  AttemptInv'
  BY <1>6, <1>7 DEF Disconnect
<1>8. ASSUME NEW p \in Principals, NEW s \in States, NEW browser \in Browsers,
             CallbackBegin(p, s, browser)
      PROVE  AttemptInv'
  BY <1>1, <1>6, <1>8 DEF CallbackBegin
<1>9. ASSUME NEW p \in Principals, NEW choice \in AccountIds \cup {None}, Prepare(p, choice)
      PROVE  AttemptInv'
  BY <1>5, <1>9 DEF Prepare
<1>10. ASSUME RefreshBegin PROVE AttemptInv'
  BY <1>5, <1>10 DEF RefreshBegin
<1>11. ASSUME InvalidateRestored PROVE AttemptInv'
  BY <1>6, <1>11 DEF InvalidateRestored
<1>12. ASSUME attempt' = attempt PROVE AttemptInv'
  BY <1>6, <1>12
<1> QED
  BY <1>4, <1>7, <1>8, <1>9, <1>10, <1>11, <1>12
     DEF Next, Requests, CallbackSteps, RefreshSteps, vars, Read, Register, SetDefault,
         RefreshSetting, CallbackExchanged, CallbackFailed, CallbackLimited,
         CallbackProfiled, CallbackRejected, RefreshSkip, RefreshHeld, RefreshSend,
         RefreshAnswered, RefreshLimited, RefreshRefused, Tick, Restart

LEMMA AttemptInvariant == Spec => []AttemptInv
<1>1. Init => AttemptInv
  <2> SUFFICES ASSUME Init PROVE AttemptInv
    OBVIOUS
  <2>1. UsedStates(attempt) = {}
    BY DEF Init, UsedStates
  <2> QED BY <2>1, FS_EmptySet, ConstantsAssumption DEF AttemptInv
<1>2. SessionInv /\ AttemptInv /\ [Next]_vars => AttemptInv'
  BY AttemptStep
<1> QED BY <1>1, <1>2, SessionInvariant, PTL DEF Spec

-----------------------------------------------------------------------------
(* Accounts and the links their receipts follow *)

\* An UPDATE that gives no row a UUID, brings no row into use and ends no link.
Settles(r, q) ==
    /\ q.ext = r.ext
    /\ q.status = "absent" <=> r.status = "absent"
    /\ r.status # "disconnected" => q.status # "disconnected"
    /\ q.epoch = r.epoch

LEMMA SettledRows ==
    ASSUME NEW r \in GoodRow
    PROVE  /\ Settles(r, r)
           /\ \A b \in BOOLEAN : /\ Settles(r, [r EXCEPT !.preferred = b])
                                 /\ Settles(r, [r EXCEPT !.auto = b])
           /\ Settles(r, [r EXCEPT !.refreshing = TRUE])
           /\ \A t : Settles(r, Deferred(r, t))
           /\ r.status # "absent" => Settles(r, NeedsLogin(r))
<1>1. Settles(r, r) /\ Settles(r, [r EXCEPT !.refreshing = TRUE])
  BY DEF Settles, GoodRow, Row
<1>2. \A b \in BOOLEAN : /\ Settles(r, [r EXCEPT !.preferred = b])
                         /\ Settles(r, [r EXCEPT !.auto = b])
  BY DEF Settles, GoodRow, Row
<1>3. \A t : Settles(r, Deferred(r, t))
  BY DEF Settles, GoodRow, Row, Deferred
<1>4. r.status # "absent" => Settles(r, NeedsLogin(r))
  BY DEF Settles, GoodRow, Row, NeedsLogin
<1> QED BY <1>1, <1>2, <1>3, <1>4

RowsSettle == \A a \in AccountIds : Settles(row[a], row'[a])

LEMMA OneRowSettles ==
    ASSUME row \in [AccountIds -> GoodRow], NEW a \in AccountIds, NEW q,
           row' = [row EXCEPT ![a] = q], Settles(row[a], q)
    PROVE  RowsSettle
BY SettledRows DEF RowsSettle

\* Every step but a registration, a login, a disconnect and the invalidation of a
\* restored store settles the rows.
LEMMA SettledStep ==
    ASSUME SessionInv, [Next]_vars
    PROVE  \/ RowsSettle
           \/ \E p \in Principals, provider \in Providers, name \in Names :
                Register(p, provider, name)
           \/ \E p \in Principals, a \in AccountIds : Disconnect(p, a)
           \/ \E name \in Names : CallbackProfiled(name)
           \/ InvalidateRestored
<1>1. row \in [AccountIds -> GoodRow] /\ \A a \in AccountIds : Settles(row[a], row[a])
  BY SettledRows DEF SessionInv
<1>2. ASSUME NEW p \in Principals, NEW a \in AccountIds, SetDefault(p, a)
      PROVE  RowsSettle
  <2>1. row' = [b \in AccountIds |-> [row[b] EXCEPT !.preferred = (b = a)]]
    BY <1>2 DEF SetDefault
  <2> QED BY <1>1, <2>1, SettledRows DEF RowsSettle
<1>3. ASSUME NEW p \in Principals, NEW a \in AccountIds, NEW b \in BOOLEAN,
             RefreshSetting(p, a, b)
      PROVE  RowsSettle
  <2>1. row' = [row EXCEPT ![a] = [row[a] EXCEPT !.auto = b]]
    BY <1>3 DEF RefreshSetting
  <2>2. Settles(row[a], [row[a] EXCEPT !.auto = b])
    BY <1>1, SettledRows
  <2> QED BY <1>1, <2>1, <2>2, OneRowSettles
<1>4. ASSUME NEW r \in batch, RefreshHeld(r)
      PROVE  RowsSettle
  <2>1. r.id \in AccountIds
    BY DEF SessionInv, TypeOK, Pending
  <2>2. Settles(row[r.id], Deferred(row[r.id], cooldown))
    BY <1>1, <2>1, SettledRows
  <2> QED BY <1>1, <1>4, <2>1, <2>2, OneRowSettles DEF RefreshHeld
<1>5. ASSUME NEW r \in batch, RefreshSend(r)
      PROVE  RowsSettle
  <2>1. r.id \in AccountIds
    BY DEF SessionInv, TypeOK, Pending
  <2>2. row' = [row EXCEPT ![r.id] = [row[r.id] EXCEPT !.refreshing = TRUE]]
    BY <1>5 DEF RefreshSend
  <2>3. Settles(row[r.id], [row[r.id] EXCEPT !.refreshing = TRUE])
    BY <1>1, <2>1, SettledRows
  <2> QED BY <1>1, <2>1, <2>2, <2>3, OneRowSettles
<1>6. ASSUME NEW life \in AccessLives, NEW next, RefreshAnswered(life, next)
      PROVE  RowsSettle
  <2>1. inflight \in Call /\ inflight.id \in AccountIds /\ Remembered(inflight)
    BY <1>6 DEF RefreshAnswered, SessionInv, TypeOK, Call
  <2> DEFINE q == Rotated(row[inflight.id], life, next)
  <2>2. /\ q.ext = row[inflight.id].ext /\ q.status = row[inflight.id].status
        /\ q.epoch = row[inflight.id].epoch
    BY DEF Rotated
  <2>3. row' = row \/ row' = [row EXCEPT ![inflight.id] = q]
    BY <1>6 DEF RefreshAnswered
  <2> HIDE DEF q
  <2>4. Settles(row[inflight.id], q)
    BY <2>2 DEF Settles
  <2>5. CASE row' = row
    BY <1>1, <2>5 DEF RowsSettle
  <2>6. CASE row' = [row EXCEPT ![inflight.id] = q]
    BY <1>1, <2>1, <2>4, <2>6, OneRowSettles
  <2> QED BY <2>3, <2>5, <2>6
<1>7. ASSUME NEW wait \in RetryWaits, RefreshLimited(wait)
      PROVE  RowsSettle
  <2>1. inflight.id \in AccountIds
    BY <1>7 DEF RefreshLimited, SessionInv, TypeOK, Call
  <2>2. Settles(row[inflight.id], Deferred(row[inflight.id], clock + wait))
    BY <1>1, <2>1, SettledRows
  <2>3. CASE row' = row
    BY <1>1, <2>3 DEF RowsSettle
  <2>4. CASE row' = [row EXCEPT ![inflight.id] = Deferred(row[inflight.id], clock + wait)]
    BY <1>1, <2>1, <2>2, <2>4, OneRowSettles
  <2> QED BY <1>7, <2>3, <2>4 DEF RefreshLimited
<1>8. ASSUME RefreshRefused
      PROVE  RowsSettle
  <2>1. inflight.id \in AccountIds /\ Remembered(inflight)
    BY <1>8 DEF RefreshRefused, SessionInv, TypeOK, Call
  <2>2. CASE row' = row
    BY <1>1, <2>2 DEF RowsSettle
  <2>3. CASE SameLink(inflight) /\ row' = [row EXCEPT ![inflight.id] = NeedsLogin(row[inflight.id])]
    <3>1. row[inflight.id].status # "absent"
      BY <1>1, <2>1, <2>3 DEF Remembered, GoodRow, RowInv
    <3>2. Settles(row[inflight.id], NeedsLogin(row[inflight.id]))
      BY <1>1, <2>1, <3>1, SettledRows
    <3> QED BY <1>1, <2>1, <2>3, <3>2, OneRowSettles
  <2> QED BY <1>8, <2>2, <2>3 DEF RefreshRefused
<1>9. ASSUME Restart
      PROVE  RowsSettle
  <2>1. \A a \in AccountIds : row[a].refreshing => row[a].status # "absent"
    BY <1>1 DEF GoodRow, RowInv
  <2> QED BY <1>1, <1>9, <2>1, SettledRows DEF Restart, RowsSettle
<1>10. ASSUME row' = row
       PROVE  RowsSettle
  BY <1>1, <1>10 DEF RowsSettle
<1> HIDE DEF RowsSettle
<1> QED
  BY <1>2, <1>3, <1>4, <1>5, <1>6, <1>7, <1>8, <1>9, <1>10
     DEF Next, Requests, CallbackSteps, RefreshSteps, vars, Read, Start, CallbackBegin,
         Prepare, CallbackExchanged, CallbackFailed, CallbackLimited, CallbackRejected,
         RefreshBegin, RefreshSkip, Tick

\* A row a login has no other choice for: nobody else has its UUID.
LEMMA TargetIsOwner ==
    ASSUME SessionInv, ExternalIdUnique, NEW sub \in Subjects, NEW name \in Names,
           NEW a \in GrantTargets(sub, name)
    PROVE  /\ a \in AccountIds /\ (a \in Present \/ a \in FreshIds)
           /\ \A b \in Present : row[b].ext = sub => b = a
<1> DEFINE ggg    == {b \in Present : row[b].provider = "ggg"}
           byUuid == {b \in ggg : row[b].ext = sub}
<1>1. \A b \in Present : row[b].ext = sub => b \in byUuid
  BY NoneAssumption DEF SessionInv, GoodRow, RowInv, Present
<1>2. a \in AccountIds /\ (a \in Present \/ a \in FreshIds)
  BY DEF GrantTargets, Registered, Linked, Present, FreshIds
<1>3. CASE byUuid = {}
  BY <1>1, <1>2, <1>3
<1>4. CASE byUuid # {}
  <2>1. a \in byUuid
    BY <1>4 DEF GrantTargets
  <2> QED BY <1>2, <2>1, NoneAssumption DEF ExternalIdUnique
<1> QED BY <1>3, <1>4

\* What a login does to the rows: one of them is granted, in a new version and link.
LEMMA ProfiledRow ==
    ASSUME SessionInv, ExternalIdUnique, NEW name \in Names, CallbackProfiled(name)
    PROVE  \E a \in AccountIds :
             /\ a \in Present \/ a \in FreshIds
             /\ \A b \in Present : row[b].ext = callback.sub => b = a
             /\ row'[a].status = "active" /\ row'[a].ext = callback.sub
             /\ \A b \in AccountIds : b # a => row'[b] = row[b]
             /\ CancelIntents(a)
<1>1. callback.sub \in Subjects /\ row \in [AccountIds -> GoodRow]
  BY DEF CallbackProfiled, SessionInv, CallbackShape
<1>2. PICK a \in GrantTargets(callback.sub, name),
           next \in RefreshTimes(callback.at, callback.life) : SaveGrant(a, name, next)
  BY DEF CallbackProfiled
<1>3. /\ a \in AccountIds /\ (a \in Present \/ a \in FreshIds)
      /\ \A b \in Present : row[b].ext = callback.sub => b = a
  BY <1>1, <1>2, TargetIsOwner
<1>4. PICK r : row' = [row EXCEPT ![a] = Granted(r, name, callback, next)]
  BY <1>2 DEF SaveGrant
<1>5. /\ Granted(r, name, callback, next).status = "active"
      /\ Granted(r, name, callback, next).ext = callback.sub
  BY DEF Granted
<1>6. /\ row'[a] = Granted(r, name, callback, next)
      /\ \A b \in AccountIds : b # a => row'[b] = row[b]
  BY <1>1, <1>3, <1>4
<1>7. CancelIntents(a)
  BY <1>2 DEF SaveGrant
<1> QED BY <1>3, <1>5, <1>6, <1>7

AccountInv == Cardinality(Present) <= MaxAccounts /\ ExternalIdUnique

LEMMA AccountStep ==
    ASSUME SessionInv, AccountInv, [Next]_vars
    PROVE  AccountInv'
<1>1. /\ row \in [AccountIds -> GoodRow] /\ IsFiniteSet(Present) /\ MaxAccounts \in Nat
      /\ ExternalIdUnique /\ Cardinality(Present) <= MaxAccounts
  BY ConstantsAssumption DEF SessionInv, AccountInv
<1>2. ASSUME NEW a \in AccountIds, a \in Present \/ a \in FreshIds,
             \A b \in AccountIds : b # a /\ b \in Present' => b \in Present
      PROVE  Cardinality(Present)' <= MaxAccounts
  <2>1. CASE a \in Present
    <3>1. Present' \subseteq Present
      BY <1>2, <2>1 DEF Present
    <3> QED BY <1>1, <3>1, FewerRows
  <2>2. CASE a \in FreshIds
    <3>1. Present' \subseteq Present \cup {a} /\ Cardinality(Present) < MaxAccounts
      BY <1>2, <2>2 DEF Present, FreshIds
    <3> QED BY <1>1, <3>1, OneRowMore
  <2> QED BY <1>2, <2>1, <2>2
<1>3. ASSUME Present' \subseteq Present,
             \A a \in Present' : row'[a].ext = row[a].ext
      PROVE  AccountInv'
  <2>1. Cardinality(Present)' <= MaxAccounts
    BY <1>1, <1>3, FewerRows
  <2>2. ExternalIdUnique'
    BY <1>1, <1>3 DEF ExternalIdUnique
  <2> QED BY <2>1, <2>2 DEF AccountInv
<1>4. CASE RowsSettle
  <2>1. Present' \subseteq Present /\ \A a \in Present' : row'[a].ext = row[a].ext
    BY <1>4 DEF RowsSettle, Settles, Present
  <2> QED BY <1>3, <2>1
<1>5. ASSUME NEW p \in Principals, NEW provider \in Providers, NEW name \in Names,
             Register(p, provider, name)
      PROVE  AccountInv'
  <2>1. PICK a \in FreshIds : row' = [row EXCEPT ![a] = NewRow(provider, name)]
    BY <1>5 DEF Register
  <2>2. a \in AccountIds /\ NewRow(provider, name).ext = None
    BY <2>1 DEF FreshIds, Present, NewRow, AbsentRow
  <2>3. row'[a].ext = None /\ \A b \in AccountIds : b # a => row'[b] = row[b]
    BY <1>1, <2>1, <2>2
  <2>4. \A b \in AccountIds : b # a /\ b \in Present' => b \in Present
    BY <2>3 DEF Present
  <2>5. ExternalIdUnique'
    BY <1>1, <2>3, <2>4 DEF ExternalIdUnique, Present
  <2> QED BY <1>2, <2>1, <2>2, <2>4, <2>5 DEF AccountInv
<1>6. ASSUME NEW p \in Principals, NEW a \in AccountIds, Disconnect(p, a)
      PROVE  AccountInv'
  <2>1. row' = [row EXCEPT ![a] = Disconnected(row[a])] /\ a \in Present
    BY <1>6 DEF Disconnect
  <2>2. Disconnected(row[a]).ext = row[a].ext
    BY DEF Disconnected
  <2>3. Present' \subseteq Present /\ \A b \in Present' : row'[b].ext = row[b].ext
    BY <1>1, <2>1, <2>2 DEF Present
  <2> QED BY <1>3, <2>3
<1>7. ASSUME NEW name \in Names, CallbackProfiled(name)
      PROVE  AccountInv'
  <2>1. PICK a \in AccountIds :
          /\ a \in Present \/ a \in FreshIds
          /\ \A b \in Present : row[b].ext = callback.sub => b = a
          /\ row'[a].ext = callback.sub
          /\ \A b \in AccountIds : b # a => row'[b] = row[b]
    BY <1>1, <1>7, ProfiledRow
  <2>2. \A b \in AccountIds : b # a /\ b \in Present' => b \in Present
    BY <2>1 DEF Present
  <2>3. ExternalIdUnique'
    BY <1>1, <2>1, <2>2 DEF ExternalIdUnique, Present
  <2> QED BY <1>2, <2>1, <2>2, <2>3 DEF AccountInv
<1>8. CASE InvalidateRestored
  <2>1. \A a \in AccountIds : Disconnected(row[a]).ext = row[a].ext
    BY DEF Disconnected
  <2>2. \A a \in AccountIds :
          row'[a] = IF a \in Present THEN Disconnected(row[a]) ELSE row[a]
    BY <1>8 DEF InvalidateRestored
  <2>3. Present' \subseteq Present /\ \A a \in Present' : row'[a].ext = row[a].ext
    BY <2>1, <2>2 DEF Present
  <2> QED BY <1>3, <2>3
<1> QED
  BY <1>4, <1>5, <1>6, <1>7, <1>8, SettledStep

LEMMA AccountInvariant == Spec => []AccountInv
<1>1. Init => AccountInv
  <2> SUFFICES ASSUME Init PROVE AccountInv
    OBVIOUS
  <2>1. Present = {}
    BY DEF Init, Present, AbsentRow
  <2> QED BY <2>1, FS_EmptySet, ConstantsAssumption DEF AccountInv, ExternalIdUnique
<1>2. SessionInv /\ AccountInv /\ [Next]_vars => AccountInv'
  BY AccountStep
<1> QED BY <1>1, <1>2, SessionInvariant, PTL DEF Spec

ReceiptInv ==
    /\ IsFiniteSet(UsedIntents(intent)) /\ Cardinality(UsedIntents(intent)) <= MaxIntents
    /\ \A i \in IntentIds : intent[i] # None =>
         intent[i].expires = intent[i].created + IntentLife
    /\ ReceiptsFollowLink

\* Receipts are cancelled or dropped, and only those are dropped that have expired.
IntentsDecline ==
    /\ intent' \in [IntentIds -> Intent \cup {None}]
    /\ \A i \in IntentIds :
         \/ intent'[i] = intent[i]
         \/ intent[i] # None /\ intent'[i] = [intent[i] EXCEPT !.status = "cancelled"]
         \/ intent'[i] = None /\ (intent[i] # None => intent[i].expires <= clock)

LEMMA PurgedDecline ==
    ASSUME SessionInv, ReceiptInv, NEW i \in IntentIds
    PROVE  \/ PurgedIntents[i] = intent[i]
           \/ PurgedIntents[i] = None /\ intent[i] # None /\ intent[i].expires <= clock
<1>1. /\ intent \in [IntentIds -> Intent \cup {None}] /\ clock \in Nat
      /\ IntentLife \in Nat /\ IntentKeep \in Nat /\ IntentLife <= IntentKeep
  BY ConstantsAssumption DEF SessionInv, TypeOK
<1>2. PurgedIntents[i] = IF intent[i] # None /\ intent[i].created < clock - IntentKeep
                         THEN None ELSE intent[i]
  BY DEF PurgedIntents
<1>3. ASSUME intent[i] # None, intent[i].created < clock - IntentKeep
      PROVE  intent[i].expires <= clock
  <2>1. intent[i].created \in Nat /\ intent[i].expires = intent[i].created + IntentLife
    BY <1>1, <1>3 DEF Intent, ReceiptInv
  <2> QED BY <1>1, <1>3, <2>1
<1> QED BY <1>2, <1>3

\* Cancelling the receipts of an account leaves the others alone.
LEMMA CancelDeclines ==
    ASSUME SessionInv, NEW a \in AccountIds, CancelIntents(a)
    PROVE  /\ IntentsDecline
           /\ \A i \in IntentIds : intent'[i] # None /\ intent'[i].status = "prepared" =>
                intent'[i] = intent[i] /\ intent[i].account # a
<1>1. intent \in [IntentIds -> Intent \cup {None}] /\ intent' \in [IntentIds -> Intent \cup {None}]
  BY TableTypes DEF SessionInv, TypeOK
<1>2. \A i \in IntentIds : intent'[i] = IF intent[i] # None /\ intent[i].account = a
                                       THEN [intent[i] EXCEPT !.status = "cancelled"]
                                       ELSE intent[i]
  BY DEF CancelIntents
<1>3. \A i \in IntentIds : intent[i] # None =>
        [intent[i] EXCEPT !.status = "cancelled"].status = "cancelled"
  BY <1>1 DEF Intent
<1> QED BY <1>1, <1>2, <1>3 DEF IntentsDecline

\* Receipts that only decline follow links that are kept or end with them.
LEMMA DeclineKeeps ==
    ASSUME SessionInv, ReceiptInv, IntentsDecline,
           \A i \in IntentIds :
             intent[i] # None /\ intent[i].status = "prepared" /\ intent'[i] = intent[i] =>
               \/ Settles(row[intent[i].account], row'[intent[i].account])
               \/ row'[intent[i].account] = row[intent[i].account]
    PROVE  ReceiptInv'
<1>1. /\ intent \in [IntentIds -> Intent \cup {None}]
      /\ intent' \in [IntentIds -> Intent \cup {None}] /\ MaxIntents \in Nat
  BY ConstantsAssumption DEF SessionInv, TypeOK, IntentsDecline
<1>2. \A i \in IntentIds : intent[i] # None =>
        /\ [intent[i] EXCEPT !.status = "cancelled"].status = "cancelled"
        /\ [intent[i] EXCEPT !.status = "cancelled"].expires = intent[i].expires
        /\ [intent[i] EXCEPT !.status = "cancelled"].created = intent[i].created
  BY <1>1 DEF Intent
<1>3. UsedIntents(intent)' \subseteq UsedIntents(intent)
  BY DEF UsedIntents, IntentsDecline
<1>4. IsFiniteSet(UsedIntents(intent))' /\ Cardinality(UsedIntents(intent))' <= MaxIntents
  BY <1>1, <1>3, FewerRows DEF ReceiptInv
<1>5. \A i \in IntentIds : intent'[i] # None =>
        intent'[i].expires = intent'[i].created + IntentLife
  BY <1>2, ZenonT(60) DEF ReceiptInv, IntentsDecline
<1>6. ASSUME NEW i \in IntentIds, intent'[i] # None, intent'[i].status = "prepared"
      PROVE  /\ intent'[i].account \in Linked'
             /\ row'[intent'[i].account].epoch = intent'[i].epoch
  <2>1. intent'[i] = intent[i]
    BY <1>2, <1>6 DEF IntentsDecline
  <2>2. /\ intent[i].account \in Linked /\ row[intent[i].account].epoch = intent[i].epoch
    BY <1>6, <2>1 DEF ReceiptInv, ReceiptsFollowLink
  <2>3. \/ Settles(row[intent[i].account], row'[intent[i].account])
        \/ row'[intent[i].account] = row[intent[i].account]
    BY <1>6, <2>1
  <2> QED BY <2>1, <2>2, <2>3 DEF Settles, Linked, Present
<1> QED BY <1>4, <1>5, <1>6 DEF ReceiptInv, ReceiptsFollowLink

\* A handoff drops expired receipts and may add one, in the account's present link.
LEMMA PrepareStep ==
    ASSUME SessionInv, ReceiptInv, NEW p \in Principals,
           NEW choice \in AccountIds \cup {None}, Prepare(p, choice)
    PROVE  /\ ReceiptInv'
           /\ \A i \in IntentIds : intent[i] # None /\ intent[i].expires > clock =>
                intent'[i] # None
<1>1. /\ intent \in [IntentIds -> Intent \cup {None}] /\ row \in [AccountIds -> Row]
      /\ clock \in Nat /\ MaxIntents \in Nat /\ IntentLife \in Nat /\ row' = row
  BY ConstantsAssumption DEF SessionInv, TypeOK, Prepare
<1>2. PICK a \in HandoffAccount(choice), E \in Evictions(PurgedIntents) :
        LET kept == [i \in IntentIds |-> IF i \in E THEN None ELSE PurgedIntents[i]]
        IN  IF Cardinality(UsedIntents(kept)) < MaxIntents
            THEN \E i \in IntentIds \ UsedIntents(PurgedIntents) :
                   intent' = [kept EXCEPT ![i] =
                       [account |-> a, epoch |-> row[a].epoch, created |-> clock,
                        expires |-> clock + IntentLife, status |-> "prepared"]]
            ELSE intent' = kept
  BY DEF Prepare
<1> DEFINE kept == [i \in IntentIds |-> IF i \in E THEN None ELSE PurgedIntents[i]]
           new  == [account |-> a, epoch |-> row[a].epoch, created |-> clock,
                    expires |-> clock + IntentLife, status |-> "prepared"]
<1>3. a \in Linked /\ a \in AccountIds
  BY DEF HandoffAccount, Linked, Present
<1>4. E \subseteq {i \in UsedIntents(PurgedIntents) : PurgedIntents[i].expires <= clock}
  BY DEF Evictions
<1>5. \A i \in IntentIds :
        \/ kept[i] = intent[i]
        \/ kept[i] = None /\ intent[i] # None /\ intent[i].expires <= clock
  BY <1>4, PurgedDecline DEF UsedIntents
<1>6. kept \in [IntentIds -> Intent \cup {None}]
  BY <1>1, <1>5
<1>7. /\ new \in Intent /\ new.account = a /\ new.epoch = row[a].epoch
      /\ new.expires = new.created + IntentLife
  BY <1>1, <1>3 DEF Intent, Row
<1>8. /\ UsedIntents(kept) \subseteq UsedIntents(intent) /\ IsFiniteSet(UsedIntents(kept))
  <2>1. UsedIntents(kept) \subseteq UsedIntents(intent)
    BY <1>5 DEF UsedIntents
  <2> QED BY <2>1, FS_Subset DEF ReceiptInv
<1> HIDE DEF kept, new
<1>9. CASE intent' = kept
  <2>1. IntentsDecline
    BY <1>5, <1>6, <1>9 DEF IntentsDecline
  <2>2. ReceiptInv'
    BY <1>1, <2>1, DeclineKeeps
  <2> QED BY <1>1, <1>5, <1>9, <2>2 DEF Intent
<1>10. ASSUME Cardinality(UsedIntents(kept)) < MaxIntents,
              NEW i \in IntentIds, i \notin UsedIntents(PurgedIntents),
              intent' = [kept EXCEPT ![i] = new]
       PROVE  /\ ReceiptInv'
              /\ \A j \in IntentIds : intent[j] # None /\ intent[j].expires > clock =>
                   intent'[j] # None
  <2>1. intent'[i] = new /\ new # None /\ \A j \in IntentIds : j # i => intent'[j] = kept[j]
    BY <1>6, <1>7, <1>10, AbsentAssumption
  <2>2. UsedIntents(intent)' \subseteq UsedIntents(kept) \cup {i}
    BY <2>1 DEF UsedIntents
  <2>3. IsFiniteSet(UsedIntents(intent))' /\ Cardinality(UsedIntents(intent))' <= MaxIntents
    BY <1>1, <1>8, <1>10, <2>2, OneRowMore
  <2>4. \A j \in IntentIds : intent'[j] # None =>
          intent'[j].expires = intent'[j].created + IntentLife
    BY <1>5, <1>7, <2>1 DEF ReceiptInv
  <2>5. Linked' = Linked
    BY <1>1 DEF Linked, Present
  <2>6. ReceiptsFollowLink'
    BY <1>1, <1>3, <1>5, <1>7, <2>1, <2>5 DEF ReceiptInv, ReceiptsFollowLink
  <2>7. \A j \in IntentIds : intent[j] # None /\ intent[j].expires > clock =>
          intent'[j] # None
    BY <1>1, <1>5, <2>1 DEF Intent
  <2> QED BY <2>3, <2>4, <2>6, <2>7 DEF ReceiptInv
<1>11. \/ intent' = kept
       \/ /\ Cardinality(UsedIntents(kept)) < MaxIntents
          /\ \E i \in IntentIds \ UsedIntents(PurgedIntents) : intent' = [kept EXCEPT ![i] = new]
  BY <1>2 DEF kept, new
<1> QED BY <1>9, <1>10, <1>11

\* One step of the broker: the receipts still follow their links, and a receipt that
\* could be used is not dropped.
LEMMA ReceiptStep ==
    ASSUME SessionInv, AccountInv, ReceiptInv, [Next]_vars
    PROVE  /\ ReceiptInv'
           /\ \A i \in IntentIds : intent[i] # None /\ intent[i].expires > clock =>
                intent'[i] # None
<1> DEFINE Kept == \A i \in IntentIds :
                     intent[i] # None /\ intent[i].expires > clock => intent'[i] # None
<1>1. /\ intent \in [IntentIds -> Intent \cup {None}] /\ row \in [AccountIds -> GoodRow]
      /\ clock \in Nat /\ ExternalIdUnique
      /\ \A i \in IntentIds : intent[i] # None => intent[i] \in Intent /\ intent[i].account \in AccountIds
  BY DEF SessionInv, TypeOK, AccountInv, Intent
<1>2. ASSUME IntentsDecline PROVE Kept
  BY <1>1, <1>2, AbsentAssumption DEF IntentsDecline, Intent
<1>3. ASSUME RowsSettle, IntentsDecline PROVE ReceiptInv' /\ Kept
  BY <1>1, <1>2, <1>3, DeclineKeeps DEF RowsSettle
<1>4. intent' = intent => IntentsDecline
  BY <1>1 DEF IntentsDecline
<1>5. intent' = PurgedIntents => IntentsDecline
  <2>1. PurgedIntents \in [IntentIds -> Intent \cup {None}]
    BY TableTypes DEF SessionInv
  <2> QED BY <2>1, PurgedDecline DEF IntentsDecline
<1>6. ASSUME NEW p \in Principals, NEW provider \in Providers, NEW name \in Names,
             Register(p, provider, name)
      PROVE  ReceiptInv' /\ Kept
  <2>1. PICK a \in FreshIds : row' = [row EXCEPT ![a] = NewRow(provider, name)]
    BY <1>6 DEF Register
  <2>2. a \notin Linked /\ \A b \in AccountIds : b # a => row'[b] = row[b]
    BY <1>1, <2>1 DEF FreshIds, Present, Linked
  <2>3. \A i \in IntentIds : intent[i] # None /\ intent[i].status = "prepared" =>
          row'[intent[i].account] = row[intent[i].account]
    BY <1>1, <2>2 DEF ReceiptInv, ReceiptsFollowLink
  <2>4. IntentsDecline
    BY <1>4, <1>6 DEF Register
  <2> QED BY <1>2, <2>3, <2>4, DeclineKeeps
<1>7. ASSUME NEW a \in AccountIds, CancelIntents(a),
             \A b \in AccountIds : b # a => row'[b] = row[b]
      PROVE  ReceiptInv' /\ Kept
  <2>1. /\ IntentsDecline
        /\ \A i \in IntentIds : intent'[i] # None /\ intent'[i].status = "prepared" =>
             intent'[i] = intent[i] /\ intent[i].account # a
    BY <1>7, CancelDeclines
  <2>2. \A i \in IntentIds :
          intent[i] # None /\ intent[i].status = "prepared" /\ intent'[i] = intent[i] =>
            row'[intent[i].account] = row[intent[i].account]
    BY <1>1, <1>7, <2>1
  <2> QED BY <1>2, <2>1, <2>2, DeclineKeeps
<1>8. ASSUME NEW p \in Principals, NEW a \in AccountIds, Disconnect(p, a)
      PROVE  ReceiptInv' /\ Kept
  BY <1>1, <1>7, <1>8 DEF Disconnect
<1>9. ASSUME NEW name \in Names, CallbackProfiled(name)
      PROVE  ReceiptInv' /\ Kept
  <2>1. PICK a \in AccountIds :
          CancelIntents(a) /\ \A b \in AccountIds : b # a => row'[b] = row[b]
    BY <1>1, <1>9, ProfiledRow
  <2> QED BY <1>7, <2>1
<1>10. ASSUME InvalidateRestored
       PROVE  ReceiptInv' /\ Kept
  <2>1. \A i \in IntentIds : intent'[i] = IF intent[i] # None
                                         THEN [intent[i] EXCEPT !.status = "cancelled"]
                                         ELSE None
    BY <1>10 DEF InvalidateRestored
  <2>2. \A e \in Intent : /\ [e EXCEPT !.status = "cancelled"] \in Intent
                          /\ [e EXCEPT !.status = "cancelled"].status = "cancelled"
    BY DEF Intent
  <2>3. intent' \in [IntentIds -> Intent \cup {None}]
    BY <1>1, <1>10, <2>1, <2>2 DEF InvalidateRestored
  <2>4. IntentsDecline
    BY <2>1, <2>3 DEF IntentsDecline
  <2>5. \A i \in IntentIds : ~(intent[i] # None /\ intent[i].status = "prepared"
                               /\ intent'[i] = intent[i])
    BY <1>1, <2>1, <2>2
  <2> QED BY <1>2, <2>4, <2>5, DeclineKeeps
<1>11. ASSUME NEW p \in Principals, NEW choice \in AccountIds \cup {None}, Prepare(p, choice)
       PROVE  ReceiptInv' /\ Kept
  BY <1>11, PrepareStep
<1> HIDE DEF Kept
<1>12. ASSUME RowsSettle
       PROVE  ReceiptInv' /\ Kept
  <2>1. ASSUME NEW p \in Principals, NEW browser \in Browsers, Start(p, browser)
        PROVE  ReceiptInv' /\ Kept
    BY <1>3, <1>5, <1>12, <2>1 DEF Start
  <2>2. ASSUME RefreshBegin PROVE ReceiptInv' /\ Kept
    BY <1>3, <1>5, <1>12, <2>2 DEF RefreshBegin
  <2>3. ASSUME intent' = intent PROVE ReceiptInv' /\ Kept
    BY <1>3, <1>4, <1>12, <2>3
  <2> QED
    BY <1>6, <1>8, <1>9, <1>10, <1>11, <2>1, <2>2, <2>3
       DEF Next, Requests, CallbackSteps, RefreshSteps, vars, Read, SetDefault,
           RefreshSetting, CallbackBegin, CallbackExchanged, CallbackFailed,
           CallbackLimited, CallbackRejected, RefreshSkip, RefreshHeld, RefreshSend,
           RefreshAnswered, RefreshLimited, RefreshRefused, Tick, Restart
<1>13. ReceiptInv' /\ Kept
  BY <1>6, <1>8, <1>9, <1>10, <1>12, SettledStep
<1> QED BY <1>13 DEF Kept

LEMMA ReceiptInvariant == Spec => []ReceiptInv
<1>1. Init => ReceiptInv
  <2> SUFFICES ASSUME Init PROVE ReceiptInv
    OBVIOUS
  <2>1. UsedIntents(intent) = {} /\ \A i \in IntentIds : intent[i] = None
    BY DEF Init, UsedIntents
  <2> QED BY <2>1, FS_EmptySet, ConstantsAssumption DEF ReceiptInv, ReceiptsFollowLink
<1>2. SessionInv /\ AccountInv /\ ReceiptInv /\ [Next]_vars => ReceiptInv'
  BY ReceiptStep
<1> QED BY <1>1, <1>2, SessionInvariant, AccountInvariant, PTL DEF Spec

\* The accounts, login attempts and receipts stay within their quotas, and no two rows
\* hold one UUID, although a login may register a row of its own and write to one
\* that another login has just registered.
THEOREM TablesAreSound == Spec => []TablesSound
<1>1. AccountInv /\ AttemptInv /\ ReceiptInv => TablesSound
  BY DEF AccountInv, AttemptInv, ReceiptInv, TablesSound, Quotas
<1> QED BY <1>1, AccountInvariant, AttemptInvariant, ReceiptInvariant, PTL

\* A stored receipt that is not cancelled belongs to the present link of its account,
\* however logins, disconnects and restorations follow each other.
THEOREM ReceiptsAreOfLink == Spec => []ReceiptsFollowLink
<1>1. ReceiptInv => ReceiptsFollowLink
  BY DEF ReceiptInv
<1> QED BY <1>1, ReceiptInvariant, PTL

\* A receipt that still reads "prepared" is dropped neither by the purge of old
\* receipts nor to make room for another one.
THEOREM LiveReceiptsStay == Spec => LiveReceiptRetained
<1>1. SessionInv /\ AccountInv /\ ReceiptInv /\ [Next]_vars =>
        \A i \in IntentIds : Receipt(i) = "prepared" => intent'[i] # None
  <2> SUFFICES ASSUME SessionInv, AccountInv, ReceiptInv, [Next]_vars,
                      NEW i \in IntentIds, Receipt(i) = "prepared"
               PROVE  intent'[i] # None
    OBVIOUS
  <2>1. intent[i] # None /\ ~(intent[i].expires <= clock)
    BY DEF Receipt
  <2>2. intent[i].expires \in Nat /\ clock \in Nat
    BY <2>1 DEF SessionInv, TypeOK, Intent
  <2> QED BY <2>1, <2>2, ReceiptStep
<1>2. [][SessionInv /\ AccountInv /\ ReceiptInv /\ [Next]_vars]_vars =>
        [][\A i \in IntentIds : Receipt(i) = "prepared" => intent'[i] # None]_vars
  BY <1>1, PTL
<1> QED BY <1>2, SessionInvariant, AccountInvariant, ReceiptInvariant, PTL
        DEF Spec, LiveReceiptRetained

=============================================================================
