--------------------------- MODULE AuthStoreProofs ---------------------------
(***************************************************************************)
(* AuthStore, for every number of processes, logins, tokens and passwords  *)
(* and every value of the limits: the stored sessions belong to the        *)
(* current account, their number is bounded, a token never becomes valid   *)
(* again, and no window of time sees more passwords tried than the limit.  *)
(***************************************************************************)
EXTENDS AuthStore, FiniteSetTheorems, TLAPS

\* An empty database satisfies the invariant.
LEMMA InitAuthInv == Init => AuthInv
<1> SUFFICES ASSUME Init PROVE AuthInv
  OBVIOUS
<1>1. TypeOK
  BY LimitsAssumption DEF Init, TypeOK, Time, Account, Login, Idle
<1>2. LoginsReadAccounts /\ SessionsMatchAccount /\ SessionsWereIssued
  BY DEF Init, LoginsReadAccounts, SessionsMatchAccount, SessionsWereIssued, Idle
<1>3. IsFiniteSet(sessions) /\ SessionsAreBounded
  BY FS_EmptySet, LimitsAssumption DEF Init, SessionsAreBounded
<1> QED
  BY <1>1, <1>2, <1>3 DEF AuthInv

(* Dropping sessions disturbs nothing that is said about those that stay.  *)
LEMMA FewerSessions ==
  ASSUME AuthInv, sessions' \subseteq sessions, UNCHANGED <<account, issued>>
  PROVE  /\ sessions' \subseteq Session /\ SessionsMatchAccount' /\ SessionsWereIssued'
         /\ IsFiniteSet(sessions)' /\ SessionsAreBounded'
<1>1. IsFiniteSet(sessions') /\ Cardinality(sessions') <= Cardinality(sessions)
  BY FS_Subset DEF AuthInv
<1>2. Cardinality(sessions') \in Nat /\ Cardinality(sessions) \in Nat
  BY <1>1, FS_CardinalityType DEF AuthInv
<1> QED
  BY <1>1, <1>2, LimitsAssumption
     DEF AuthInv, TypeOK, SessionsMatchAccount, SessionsWereIssued, SessionsAreBounded

(* A step that leaves account, sessions and issued tokens alone only has   *)
(* to keep the types and the logins in order.                              *)
LEMMA SameSessions ==
  ASSUME AuthInv, TypeOK', LoginsReadAccounts', UNCHANGED <<account, sessions, issued>>
  PROVE  AuthInv'
  BY FewerSessions DEF AuthInv

\* The limiter touches neither the account nor the sessions.
LEMMA LimiterStep ==
  ASSUME AuthInv, NEW a \in Attempt,
         \/ LoginLimited(a)
         \/ \E password \in Password \cup {Unacceptable} : Reserve(a, password)
  PROVE  AuthInv'
<1>1. Pruned \in [Time -> Nat]
  BY DEF Pruned, AuthInv, TypeOK
<1>2. now \in Time /\ Increment(Pruned) \in [Time -> Nat] /\ Increment(reserved) \in [Time -> Nat]
  BY <1>1 DEF Increment, AuthInv, TypeOK
<1>3. TypeOK'
  BY <1>1, <1>2 DEF LoginLimited, Reserve, AuthInv, TypeOK, Login
<1>4. LoginsReadAccounts'
  BY DEF LoginLimited, Reserve, AuthInv, TypeOK, LoginsReadAccounts
<1> QED
  BY <1>3, <1>4, SameSessions DEF LoginLimited, Reserve

\* The account a login reads is the current one.
LEMMA ReadAccountStep ==
  ASSUME AuthInv, NEW a \in Attempt, ReadAccount(a)
  PROVE  AuthInv'
<1>1. logins[a].stage = "reserved" => logins[a].password \in Password
  BY DEF AuthInv, TypeOK, Login
<1>2. TypeOK'
  BY <1>1 DEF ReadAccount, AuthInv, TypeOK, Login, Idle
<1>3. LoginsReadAccounts'
  BY DEF ReadAccount, AuthInv, TypeOK, LoginsReadAccounts, Account, Idle
<1> QED
  BY <1>2, <1>3, SameSessions DEF ReadAccount

\* A refused login only leaves its slot.
LEMMA LoginInvalidStep ==
  ASSUME AuthInv, NEW a \in Attempt, LoginInvalid(a)
  PROVE  AuthInv'
<1>1. TypeOK'
  BY DEF LoginInvalid, AuthInv, TypeOK, Login, Idle
<1>2. LoginsReadAccounts'
  BY DEF LoginInvalid, AuthInv, TypeOK, LoginsReadAccounts, Idle
<1> QED
  BY <1>1, <1>2, SameSessions DEF LoginInvalid

(* The transaction that creates a session compares revisions, and an equal *)
(* revision means an equal password.                                       *)
LEMMA LoginSucceedsStep ==
  ASSUME AuthInv, NEW a \in Attempt, NEW token \in Token, LoginSucceeds(a, token)
  PROVE  AuthInv'
<1> DEFINE new == [token |-> token, expires |-> now + Lifetime, issuedAt |-> now,
                   revision |-> account.revision, password |-> logins[a].password]
<1>1. PICK kept \in SUBSET Unexpired : KeptAtLimit(kept) /\ sessions' = kept \cup {new}
  BY DEF LoginSucceeds
<1>2. /\ logins[a].password \in Password /\ logins[a].password = account.password
      /\ account.revision \in 1..MaxRevision
  BY DEF LoginSucceeds, AuthInv, TypeOK, Login, LoginsReadAccounts, Account
<1>3. kept \subseteq sessions
  BY <1>1 DEF Unexpired
<1>4. new \in Session
  BY <1>2, LimitsAssumption DEF AuthInv, TypeOK, Session, Time
<1>5. TypeOK'
  BY <1>1, <1>3, <1>4 DEF LoginSucceeds, AuthInv, TypeOK, Login, Idle
<1>6. LoginsReadAccounts'
  BY DEF LoginSucceeds, AuthInv, TypeOK, LoginsReadAccounts, Idle
<1>7. SessionsMatchAccount' /\ SessionsWereIssued'
  BY <1>1, <1>2, <1>3 DEF LoginSucceeds, AuthInv, SessionsMatchAccount, SessionsWereIssued
<1>8. IsFiniteSet(kept) /\ Cardinality(kept) < SessionLimit
  <2>1. IsFiniteSet(Unexpired) /\ IsFiniteSet(kept) /\ Cardinality(kept) \in Nat
    BY <1>1, <1>3, FS_Subset, FS_CardinalityType DEF Unexpired, AuthInv
  <2> QED
    BY <1>1, <2>1, LimitsAssumption DEF KeptAtLimit
<1>9. IsFiniteSet(sessions)' /\ SessionsAreBounded'
  <2>1. Cardinality(kept) \in Nat /\ Cardinality(kept) + 1 <= SessionLimit
    BY <1>8, FS_CardinalityType, LimitsAssumption
  <2>2. /\ IsFiniteSet(kept \cup {new})
        /\ Cardinality(kept \cup {new}) \in {Cardinality(kept), Cardinality(kept) + 1}
    BY <1>8, FS_AddElement
  <2> QED
    BY <1>1, <2>1, <2>2, LimitsAssumption DEF SessionsAreBounded
<1> QED
  BY <1>5, <1>6, <1>7, <1>9 DEF AuthInv

\* Pruning and revoking only take sessions away.
LEMMA SessionStep ==
  ASSUME AuthInv, ValidateSession \/ \E token \in Token : RevokeSession(token)
  PROVE  AuthInv'
<1>1. sessions' \subseteq sessions /\ UNCHANGED <<now, account, attempts, logins, admins, issued, reserved>>
  BY DEF ValidateSession, RevokeSession, Unexpired
<1>2. TypeOK'
  BY <1>1 DEF AuthInv, TypeOK
<1>3. LoginsReadAccounts'
  BY <1>1 DEF AuthInv, LoginsReadAccounts
<1> QED
  BY <1>1, <1>2, <1>3, FewerSessions DEF AuthInv

\* Starting an owner command changes nothing that is stored.
LEMMA BeginAdminStep ==
  ASSUME AuthInv, NEW password \in Password, BeginBootstrap(password) \/ BeginRecover(password)
  PROVE  AuthInv'
<1>1. TypeOK'
  BY DEF BeginBootstrap, BeginRecover, AuthInv, TypeOK, Admin
<1>2. LoginsReadAccounts'
  BY DEF BeginBootstrap, BeginRecover, AuthInv, LoginsReadAccounts
<1> QED
  BY <1>1, <1>2, SameSessions DEF BeginBootstrap, BeginRecover

(* Replacing the account empties the table and outdates every login in     *)
(* progress.                                                               *)
LEMMA FinishAdminStep ==
  ASSUME AuthInv, NEW call \in admins, FinishBootstrap(call) \/ FinishRecover(call)
  PROVE  AuthInv'
<1>1. call.password \in Password /\ admins' \subseteq Admin
      /\ UNCHANGED <<now, logins, issued>>
  BY DEF FinishBootstrap, FinishRecover, AuthInv, TypeOK, Admin
<1>2. CASE UNCHANGED <<account, attempts, reserved, sessions>>
  <2>1. TypeOK' /\ LoginsReadAccounts'
    BY <1>1, <1>2 DEF AuthInv, TypeOK, LoginsReadAccounts
  <2> QED
    BY <1>1, <1>2, <2>1, SameSessions
<1>3. CASE ReplaceAccount(call.password)
  <2>1. /\ account.revision \in Nat /\ account.revision + 1 \in 0..MaxRevision
        /\ account' = [password |-> call.password, revision |-> account.revision + 1]
    BY <1>3, LimitsAssumption DEF ReplaceAccount, AuthInv, TypeOK, Account
  <2>2. TypeOK'
    BY <1>1, <1>3, <2>1 DEF ReplaceAccount, AuthInv, TypeOK, Account
  <2>3. \A a \in Attempt : logins[a].stage = "hashing" =>
            /\ logins[a].read.revision \in Nat
            /\ logins[a].read.revision # 0
            /\ logins[a].read.revision <= account.revision
    BY DEF AuthInv, TypeOK, Login, Account, LoginsReadAccounts
  <2>4. LoginsReadAccounts'
    BY <1>1, <2>1, <2>3 DEF LoginsReadAccounts
  <2>5. sessions' = {}
    BY <1>3 DEF ReplaceAccount
  <2> QED
    BY <2>2, <2>4, <2>5, FS_EmptySet, LimitsAssumption
       DEF AuthInv, SessionsMatchAccount, SessionsWereIssued, SessionsAreBounded
<1> QED
  BY <1>2, <1>3 DEF FinishBootstrap, FinishRecover

\* No part of the invariant compares with the clock.
LEMMA TickStep ==
  ASSUME AuthInv, Tick
  PROVE  AuthInv'
<1>1. TypeOK' /\ LoginsReadAccounts'
  BY LimitsAssumption DEF Tick, AuthInv, TypeOK, Time, LoginsReadAccounts
<1> QED
  BY <1>1, SameSessions DEF Tick

\* The induction step: every action preserves AuthInv.
LEMMA NextAuthInv == AuthInv /\ [Next]_vars => AuthInv'
<1> SUFFICES ASSUME AuthInv, [Next]_vars PROVE AuthInv'
  OBVIOUS
<1>1. CASE UNCHANGED vars
  <2>1. TypeOK' /\ LoginsReadAccounts'
    BY <1>1 DEF vars, AuthInv, TypeOK, LoginsReadAccounts
  <2> QED
    BY <1>1, <2>1, SameSessions DEF vars
<1>2. CASE Next
  BY <1>2, TickStep, SessionStep, LimiterStep, ReadAccountStep, LoginInvalidStep, LoginSucceedsStep,
     BeginAdminStep, FinishAdminStep DEF Next
<1> QED
  BY <1>1, <1>2

(* Types, the sessions' account and their number, together with what they  *)
(* rest on: a login deriving its hash (src/lib/auth-store.ts,              *)
(* authenticateOwner) read an account that is not newer than the stored    *)
(* one, and every stored session's token was issued.                       *)
THEOREM AuthInvariant == Spec => []AuthInv
  BY InitAuthInv, NextAuthInv, PTL DEF Spec

(* Every variable keeps its type.                                          *)
THEOREM AuthTypeCorrect == Spec => []TypeOK
<1>1. AuthInv => TypeOK
  BY DEF AuthInv
<1> QED
  BY <1>1, AuthInvariant, PTL

(* No login that raced a password change leaves a session behind.          *)
THEOREM SessionsBelongToCurrentAccount == Spec => []SessionsMatchAccount
<1>1. AuthInv => SessionsMatchAccount
  BY DEF AuthInv
<1> QED
  BY <1>1, AuthInvariant, PTL

(* The session table never holds more than SessionLimit rows.              *)
THEOREM SessionTableIsBounded == Spec => []SessionsAreBounded
<1>1. AuthInv => SessionsAreBounded
  BY DEF AuthInv
<1> QED
  BY <1>1, AuthInvariant, PTL

-----------------------------------------------------------------------------
(* Validity only comes with a fresh token.                                 *)

OnlyFreshTokensBecomeValid ==
    \A k \in Token : IsValidSession(k)' => IsValidSession(k) \/ k \notin issued

\* No step makes a token valid again that was issued before.
LEMMA StepValidity == AuthInv /\ [Next]_vars => OnlyFreshTokensBecomeValid
<1> SUFFICES ASSUME AuthInv, [Next]_vars, NEW k \in Token, IsValidSession(k)', k \in issued
             PROVE  IsValidSession(k)
  BY DEF OnlyFreshTokensBecomeValid
<1>1. PICK s \in sessions' : s.token = k /\ s.expires > now' /\ s.revision = account'.revision
  BY DEF IsValidSession
<1>2. CASE sessions' \subseteq sessions /\ UNCHANGED <<now, account>>
  BY <1>1, <1>2 DEF IsValidSession
<1>3. CASE Tick
  <2>1. s \in sessions /\ s.expires \in Nat /\ now \in Nat /\ now' = now + 1
    BY <1>1, <1>3 DEF Tick, AuthInv, TypeOK, Session, Time
  <2> QED
    BY <1>1, <1>3, <2>1 DEF Tick, IsValidSession
<1>4. ASSUME NEW a \in Attempt, NEW token \in Token, LoginSucceeds(a, token)
      PROVE  IsValidSession(k)
  <2>1. s.token = token \/ s \in sessions
    BY <1>1, <1>4 DEF LoginSucceeds, Unexpired
  <2>2. token \notin issued /\ UNCHANGED <<now, account>>
    BY <1>4 DEF LoginSucceeds
  <2> QED
    BY <1>1, <2>1, <2>2 DEF IsValidSession
<1>5. ASSUME NEW call \in admins, FinishBootstrap(call) \/ FinishRecover(call)
      PROVE  IsValidSession(k)
  <2>1. sessions' = {} \/ UNCHANGED <<now, account, sessions>>
    BY <1>5 DEF FinishBootstrap, FinishRecover, ReplaceAccount
  <2> QED
    BY <1>1, <1>2, <2>1
<1> QED
  BY <1>2, <1>3, <1>4, <1>5
     DEF Next, vars, ValidateSession, RevokeSession, Unexpired, LoginLimited, Reserve, ReadAccount,
         LoginInvalid, BeginBootstrap, BeginRecover

(* A token that was logged out, expired, evicted or overtaken by a         *)
(* recovery is never accepted again.                                       *)
THEOREM TokensStayInvalid == Spec => InvalidTokensStayInvalid
<1>1. AuthInv /\ [Next]_vars => [OnlyFreshTokensBecomeValid]_vars
  BY StepValidity
<1> QED
  BY <1>1, AuthInvariant, PTL DEF Spec, InvalidTokensStayInvalid, OnlyFreshTokensBecomeValid

-----------------------------------------------------------------------------
(* The limiter.  What it has kept of the current window is all that was    *)
(* let through in it; earlier reservations no longer matter to it.         *)

KeepsTheWindow == \A u \in Time : u + Window > now => attempts[u] = reserved[u]

\* What the bound on the rate of logins relies on.
RateIInv == AuthInv /\ KeepsTheWindow /\ LoginRateIsBounded

\* The times of a window of the limiter.
WindowFrom(t) == {u \in Time : t <= u /\ u < t + Window}

\* What CountIn counts.
Counted(bag, T) == {e \in T \X (1..AttemptLimit + 1) : e[2] <= bag[e[1]]}

\* A count is a natural number.
LEMMA CountedFinite ==
  ASSUME NEW bag, NEW T \in SUBSET Time
  PROVE  /\ IsFiniteSet(Counted(bag, T))
         /\ CountIn(bag, T) = Cardinality(Counted(bag, T))
         /\ CountIn(bag, T) \in Nat
<1>1. IsFiniteSet(Time)
  BY FS_Interval, LimitsAssumption DEF Time
<1>2. IsFiniteSet(T)
  BY <1>1, FS_Subset
<1>3. IsFiniteSet(1..AttemptLimit + 1)
  BY FS_Interval, LimitsAssumption
<1>4. IsFiniteSet(T \X (1..AttemptLimit + 1))
  BY <1>2, <1>3, FS_Product
<1>5. IsFiniteSet(Counted(bag, T))
  BY <1>4, FS_Subset DEF Counted
<1> QED
  BY <1>5, FS_CardinalityType DEF CountIn, Counted

\* More times or more entries give no smaller count.
LEMMA CountGrows ==
  ASSUME NEW bag, NEW other, NEW T \in SUBSET Time, NEW U \in SUBSET Time, T \subseteq U,
         \A u \in T : bag[u] = other[u]
  PROVE  CountIn(bag, T) <= CountIn(other, U)
<1>1. Counted(bag, T) \subseteq Counted(other, U)
  BY DEF Counted
<1> QED
  BY <1>1, CountedFinite, FS_Subset

\* One entry more raises a count by one at most.
LEMMA CountIncremented ==
  ASSUME NEW bag \in [Time -> Nat], NEW T \in SUBSET Time, now \in Time
  PROVE  CountIn(Increment(bag), T) <= CountIn(bag, T) + 1
<1> DEFINE new == <<now, bag[now] + 1>>
<1>1. Counted(Increment(bag), T) \subseteq Counted(bag, T) \cup {new}
  <2> SUFFICES ASSUME NEW e \in Counted(Increment(bag), T), e # new
               PROVE  e \in Counted(bag, T)
    OBVIOUS
  <2>1. PICK u \in T, i \in 1..AttemptLimit + 1 : e = <<u, i>> /\ i <= Increment(bag)[u]
    BY DEF Counted
  <2>2. i <= bag[u]
    BY <2>1, LimitsAssumption DEF Increment, Time
  <2> QED
    BY <2>1, <2>2 DEF Counted
<1>2. /\ IsFiniteSet(Counted(bag, T) \cup {new})
      /\ Cardinality(Counted(bag, T) \cup {new}) <= Cardinality(Counted(bag, T)) + 1
  <2> HIDE DEF new
  <2>1. IsFiniteSet(Counted(bag, T)) /\ Cardinality(Counted(bag, T)) \in Nat
    BY CountedFinite
  <2>2. /\ IsFiniteSet(Counted(bag, T) \cup {new})
        /\ Cardinality(Counted(bag, T) \cup {new}) =
              IF new \in Counted(bag, T) THEN Cardinality(Counted(bag, T))
              ELSE Cardinality(Counted(bag, T)) + 1
    BY <2>1, FS_AddElement, Zenon
  <2> QED
    BY <2>1, <2>2
<1>3. Cardinality(Counted(Increment(bag), T)) <= Cardinality(Counted(bag, T) \cup {new})
  BY <1>1, <1>2, FS_Subset
<1>4. Cardinality(Counted(bag, T) \cup {new}) \in Nat
  BY <1>2, FS_CardinalityType
<1> QED
  BY <1>2, <1>3, <1>4, CountedFinite

\* Nothing is counted in an empty table.
LEMMA CountOfNone ==
  ASSUME NEW T \in SUBSET Time
  PROVE  CountIn([t \in Time |-> 0], T) = 0
<1>1. Counted([t \in Time |-> 0], T) = {}
  BY LimitsAssumption DEF Counted
<1> QED
  BY <1>1, CountedFinite, FS_EmptySet

\* An empty database has let nobody through.
LEMMA InitRate == Init => RateIInv
<1> SUFFICES ASSUME Init PROVE RateIInv
  OBVIOUS
<1>1. LoginRateIsBounded
  BY CountOfNone, LimitsAssumption DEF Init, LoginRateIsBounded
<1> QED
  BY <1>1, InitAuthInv DEF RateIInv, KeepsTheWindow, Init

\* A window that ends before now is not touched; one with now in it is what the
\* limiter has kept.
LEMMA ReserveRate ==
  ASSUME AuthInv, KeepsTheWindow, LoginRateIsBounded, NEW a \in Attempt,
         NEW password, Reserve(a, password)
  PROVE  KeepsTheWindow' /\ LoginRateIsBounded'
<1>1. /\ now \in Time /\ attempts \in [Time -> Nat] /\ reserved \in [Time -> Nat]
      /\ Pruned \in [Time -> Nat]
  BY DEF AuthInv, TypeOK, Pruned
<1>2. /\ now' = now /\ attempts' = Increment(Pruned) /\ reserved' = Increment(reserved)
      /\ CountIn(Pruned, Time) < AttemptLimit
  <2>1. CountIn(Pruned, Time) \in Nat
    BY CountedFinite
  <2> QED
    BY <2>1, LimitsAssumption DEF Reserve, Limited
<1>3. \A u \in Time : u + Window > now => Pruned[u] = reserved[u]
  BY <1>1, LimitsAssumption DEF KeepsTheWindow, Pruned, Time
<1>4. KeepsTheWindow'
  BY <1>1, <1>2, <1>3 DEF KeepsTheWindow, Increment
<1>5. ASSUME NEW t \in Time
      PROVE  CountIn(Increment(reserved), WindowFrom(t)) <= AttemptLimit
  <2>1. WindowFrom(t) \in SUBSET Time
    BY DEF WindowFrom
  <2>2. CASE now \in WindowFrom(t)
    <3>1. \A u \in WindowFrom(t) : reserved[u] = Pruned[u]
      BY <1>3, <2>2, LimitsAssumption DEF WindowFrom, Time
    <3>2. CountIn(reserved, WindowFrom(t)) <= CountIn(Pruned, Time)
      BY <2>1, <3>1, CountGrows
    <3>3. CountIn(Increment(reserved), WindowFrom(t)) <= CountIn(reserved, WindowFrom(t)) + 1
      BY <1>1, <2>1, CountIncremented
    <3>4. /\ CountIn(reserved, WindowFrom(t)) \in Nat /\ CountIn(Pruned, Time) \in Nat
          /\ CountIn(Increment(reserved), WindowFrom(t)) \in Nat
      BY <2>1, CountedFinite
    <3> QED
      BY <1>2, <3>2, <3>3, <3>4, LimitsAssumption
  <2>3. CASE now \notin WindowFrom(t)
    <3>1. \A u \in WindowFrom(t) : Increment(reserved)[u] = reserved[u]
      BY <1>1, <2>1, <2>3 DEF Increment
    <3>2. CountIn(Increment(reserved), WindowFrom(t)) <= CountIn(reserved, WindowFrom(t))
      BY <2>1, <3>1, CountGrows
    <3>3. CountIn(reserved, WindowFrom(t)) <= AttemptLimit
      BY DEF LoginRateIsBounded, WindowFrom
    <3>4. /\ CountIn(reserved, WindowFrom(t)) \in Nat
          /\ CountIn(Increment(reserved), WindowFrom(t)) \in Nat
      BY <2>1, CountedFinite
    <3> QED
      BY <3>2, <3>3, <3>4, LimitsAssumption
  <2> QED
    BY <2>2, <2>3
<1>6. LoginRateIsBounded'
  BY <1>2, <1>5 DEF LoginRateIsBounded, WindowFrom, CountIn, Time
<1> QED
  BY <1>4, <1>6

\* No other step lets anybody through, or it starts from nothing.
LEMMA NextRate == RateIInv /\ [Next]_vars => RateIInv'
<1> SUFFICES ASSUME RateIInv, [Next]_vars PROVE KeepsTheWindow' /\ LoginRateIsBounded'
  BY NextAuthInv DEF RateIInv
<1> USE DEF RateIInv
<1>1. ASSUME UNCHANGED <<now, attempts, reserved>> PROVE KeepsTheWindow' /\ LoginRateIsBounded'
  BY <1>1 DEF KeepsTheWindow, LoginRateIsBounded, CountIn
<1>2. CASE Tick
  <2>1. KeepsTheWindow'
    BY <1>2, LimitsAssumption DEF Tick, KeepsTheWindow, AuthInv, TypeOK, Time
  <2> QED
    BY <1>2, <2>1 DEF Tick, LoginRateIsBounded, CountIn
<1>3. ASSUME NEW a \in Attempt, LoginLimited(a) PROVE KeepsTheWindow' /\ LoginRateIsBounded'
  <2>1. KeepsTheWindow'
    BY <1>3, LimitsAssumption DEF LoginLimited, Pruned, KeepsTheWindow, AuthInv, TypeOK, Time
  <2> QED
    BY <1>3, <2>1 DEF LoginLimited, LoginRateIsBounded, CountIn
<1>4. ASSUME NEW call \in admins, FinishBootstrap(call) \/ FinishRecover(call)
      PROVE  KeepsTheWindow' /\ LoginRateIsBounded'
  <2>1. CASE UNCHANGED <<now, attempts, reserved>>
    BY <1>1, <2>1
  <2>2. CASE now' = now /\ ReplaceAccount(call.password)
    <3>1. attempts' = [t \in Time |-> 0] /\ reserved' = [t \in Time |-> 0]
      BY <2>2 DEF ReplaceAccount
    <3>2. LoginRateIsBounded'
      BY <3>1, CountOfNone, LimitsAssumption DEF LoginRateIsBounded
    <3> QED
      BY <2>2, <3>1, <3>2 DEF KeepsTheWindow
  <2> QED
    BY <1>4, <2>1, <2>2 DEF FinishBootstrap, FinishRecover
<1>5. ASSUME NEW a \in Attempt, NEW password, Reserve(a, password)
      PROVE  KeepsTheWindow' /\ LoginRateIsBounded'
  BY <1>5, ReserveRate
<1> QED
  BY <1>1, <1>2, <1>3, <1>4, <1>5
     DEF Next, vars, ValidateSession, RevokeSession, ReadAccount, LoginInvalid, LoginSucceeds,
         BeginBootstrap, BeginRecover

(* However many logins run at once and in however many processes, no       *)
(* window of the limiter lets more than AttemptLimit through.              *)
THEOREM LoginRateBounded == Spec => []LoginRateIsBounded
<1>1. RateIInv => LoginRateIsBounded
  BY DEF RateIInv
<1> QED
  BY <1>1, InitRate, NextRate, PTL DEF Spec
=============================================================================
