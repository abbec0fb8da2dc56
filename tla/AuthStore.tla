------------------------------ MODULE AuthStore ------------------------------
(***************************************************************************)
(* src/lib/auth-store.ts: the owner's account, its sessions and the login  *)
(* limiter, in one SQLite file that several processes share (the server,   *)
(* an old server being replaced, and the `owner' command line).            *)
(*                                                                         *)
(* A BEGIN IMMEDIATE transaction is one action.  A login is three: the     *)
(* limiter's reservation, the account read that its password hash is       *)
(* derived from, and the transaction that creates the session; deriving    *)
(* the hash takes time, and another process may act between any two.       *)
(***************************************************************************)
EXTENDS Naturals, FiniteSets

CONSTANTS
    Password,              \* passwords of an acceptable length
    Unacceptable,          \* a password of the wrong length
    Attempt,               \* concurrent logins
    Token,                 \* session tokens; random, so each is issued once
    Free,                  \* "this login slot is idle" and "no password yet"
    AttemptLimit,          \* RATE_LIMIT_ATTEMPTS
    Window,                \* RATE_LIMIT_WINDOW_MS, in ticks
    SessionLimit,          \* SESSION_LIMIT
    Lifetime,              \* SESSION_MAX_AGE_SECONDS, in ticks
    MaxTime,               \* bound: the clock
    MaxRevision,           \* bound: password changes
    MaxAdmins              \* bound: owner commands running at once

ASSUME LimitsAssumption ==
    /\ AttemptLimit \in Nat \ {0}
    /\ Window \in Nat \ {0}
    /\ SessionLimit \in Nat \ {0}
    /\ Lifetime \in Nat \ {0}
    /\ MaxTime \in Nat
    /\ MaxRevision \in Nat
    /\ MaxAdmins \in Nat
ASSUME PasswordAssumption == Unacceptable \notin Password /\ Free \notin Password

VARIABLES
    now,                   \* Date.now(), shared by the processes
    account,               \* owner_account: the password it hashes, its revision (0: no row)
    attempts,              \* login_attempt: the multiset of times, as time -> count
    sessions,              \* owner_session
    logins,                \* authenticateOwner calls in progress
    admins,                \* bootstrapOwner and recoverOwner calls deriving their hash
    issued,                \* history: tokens given out so far
    reserved               \* history: reservations since the limiter was last reset

vars == <<now, account, attempts, sessions, logins, admins, issued, reserved>>

Time == 0..MaxTime

Session == [token : Token, expires : Nat, issuedAt : Time, revision : 1..MaxRevision,
            password : Password]      \* the password is history: which login made it

Account == [password : Password \cup {Free}, revision : 0..MaxRevision]

Login == [stage : {"free"}]
    \cup [stage : {"reserved"}, password : Password]
    \cup [stage : {"hashing"}, password : Password, read : Account]

Admin == [kind : {"bootstrap", "recover"}, password : Password]

TypeOK ==
    /\ now \in Time
    /\ account \in Account
    /\ attempts \in [Time -> Nat]
    /\ sessions \subseteq Session
    /\ logins \in [Attempt -> Login]
    /\ admins \subseteq Admin
    /\ issued \subseteq Token
    /\ reserved \in [Time -> Nat]

Idle == [stage |-> "free"]

Init ==
    /\ now = 0
    /\ account = [password |-> Free, revision |-> 0]
    /\ attempts = [t \in Time |-> 0]
    /\ sessions = {}
    /\ logins = [a \in Attempt |-> Idle]
    /\ admins = {}
    /\ issued = {}
    /\ reserved = [t \in Time |-> 0]

\* The number of entries of `bag' whose time is in the set T.
CountIn(bag, T) == Cardinality({e \in T \X (1..AttemptLimit + 1) : e[2] <= bag[e[1]]})

Increment(bag) == [bag EXCEPT ![now] = @ + 1]

Tick ==
    /\ now < MaxTime
    /\ now' = now + 1
    /\ UNCHANGED <<account, attempts, sessions, logins, admins, issued, reserved>>

-----------------------------------------------------------------------------
(* authenticateOwner.                                                      *)

\* Reservations that have left the window are deleted first.
Pruned == [t \in Time |-> IF t + Window <= now THEN 0 ELSE attempts[t]]

\* Faulty variant: refuses one attempt too late.
LimitedLate == CountIn(Pruned, Time) > AttemptLimit

Limited == CountIn(Pruned, Time) >= AttemptLimit

LoginLimited(a) ==
    /\ logins[a] = Idle
    /\ Limited
    /\ attempts' = Pruned
    /\ UNCHANGED <<now, account, sessions, logins, admins, issued, reserved>>

\* Faulty variant: a password of any length goes on to be hashed.
ReserveAny(a, password) ==
    /\ logins[a] = Idle
    /\ ~Limited
    /\ attempts' = Increment(Pruned)
    /\ reserved' = Increment(reserved)
    /\ logins' = [logins EXCEPT ![a] = [stage |-> "reserved", password |-> password]]
    /\ UNCHANGED <<now, account, sessions, admins, issued>>

\* The attempt counts even if its password is then refused for its length.
Reserve(a, password) ==
    /\ logins[a] = Idle
    /\ ~Limited
    /\ attempts' = Increment(Pruned)
    /\ reserved' = Increment(reserved)
    /\ logins' = IF password = Unacceptable THEN logins
                 ELSE [logins EXCEPT ![a] = [stage |-> "reserved", password |-> password]]
    /\ UNCHANGED <<now, account, sessions, admins, issued>>

\* The hash is derived with the salt read here; without an account the login ends.
ReadAccount(a) ==
    /\ logins[a].stage = "reserved"
    /\ logins' = [logins EXCEPT ![a] =
          IF account.revision = 0 THEN Idle
          ELSE [stage |-> "hashing", password |-> @.password, read |-> account]]
    /\ UNCHANGED <<now, account, attempts, sessions, admins, issued, reserved>>

LoginInvalid(a) ==
    /\ logins[a].stage = "hashing"
    /\ \/ logins[a].password # logins[a].read.password
       \/ account.revision # logins[a].read.revision
    /\ logins' = [logins EXCEPT ![a] = Idle]
    /\ UNCHANGED <<now, account, attempts, sessions, admins, issued, reserved>>

Unexpired == {s \in sessions : s.expires > now}

\* Faulty variant: keeps SessionLimit rows before inserting one more.
KeptPastLimit(kept) ==
    /\ kept \subseteq Unexpired
    /\ \A s \in kept, dropped \in Unexpired \ kept : s.issuedAt <= dropped.issuedAt
    /\ IF Cardinality(Unexpired) <= SessionLimit
          THEN kept = Unexpired
          ELSE Cardinality(kept) = SessionLimit

(* ORDER BY issued_at_ms, token_hash LIMIT -1 OFFSET SessionLimit - 1: the *)
(* rows kept are the SessionLimit - 1 oldest.  The hash order of sessions  *)
(* issued in the same tick is arbitrary.                                   *)
KeptAtLimit(kept) ==
    /\ kept \subseteq Unexpired
    /\ \A s \in kept, dropped \in Unexpired \ kept : s.issuedAt <= dropped.issuedAt
    /\ IF Cardinality(Unexpired) < SessionLimit
          THEN kept = Unexpired
          ELSE Cardinality(kept) = SessionLimit - 1

\* Faulty variant: trusts the account that was read before hashing.
LoginSucceedsStale(a, token) ==
    /\ logins[a].stage = "hashing"
    /\ logins[a].password = logins[a].read.password
    /\ token \notin issued
    /\ \E kept \in SUBSET Unexpired :
          /\ KeptAtLimit(kept)
          /\ sessions' = kept \cup
                {[token |-> token, expires |-> now + Lifetime, issuedAt |-> now,
                  revision |-> account.revision, password |-> logins[a].password]}
    /\ issued' = issued \cup {token}
    /\ logins' = [logins EXCEPT ![a] = Idle]
    /\ UNCHANGED <<now, account, attempts, admins, reserved>>

(* createSession, in the transaction that has re-read the account.         *)
LoginSucceeds(a, token) ==
    /\ logins[a].stage = "hashing"
    /\ logins[a].password = logins[a].read.password
    /\ account.revision = logins[a].read.revision
    /\ token \notin issued
    /\ \E kept \in SUBSET Unexpired :
          /\ KeptAtLimit(kept)
          /\ sessions' = kept \cup
                {[token |-> token, expires |-> now + Lifetime, issuedAt |-> now,
                  revision |-> account.revision, password |-> logins[a].password]}
    /\ issued' = issued \cup {token}
    /\ logins' = [logins EXCEPT ![a] = Idle]
    /\ UNCHANGED <<now, account, attempts, admins, reserved>>

-----------------------------------------------------------------------------
(* Sessions.                                                               *)

\* isValidSession's query.
IsValidSession(token) ==
    \E s \in sessions : s.token = token /\ s.expires > now /\ s.revision = account.revision

\* Faulty variant: using a session extends it, before expired ones are pruned.
ValidateAndExtend ==
    /\ sessions' = {[s EXCEPT !.expires = now + Lifetime] : s \in sessions}
    /\ UNCHANGED <<now, account, attempts, logins, admins, issued, reserved>>

\* isValidSession also deletes what has expired.
ValidateSession ==
    /\ sessions' = Unexpired
    /\ UNCHANGED <<now, account, attempts, logins, admins, issued, reserved>>

\* Logging out requires the session to be valid first.
RevokeSession(token) ==
    /\ IsValidSession(token)
    /\ sessions' = {s \in Unexpired : s.token # token}
    /\ UNCHANGED <<now, account, attempts, logins, admins, issued, reserved>>

-----------------------------------------------------------------------------
(* The owner command: bootstrapOwner and recoverOwner.                     *)

BeginBootstrap(password) ==
    /\ Cardinality(admins) < MaxAdmins
    /\ admins' = admins \cup {[kind |-> "bootstrap", password |-> password]}
    /\ UNCHANGED <<now, account, attempts, sessions, logins, issued, reserved>>

BeginRecover(password) ==
    /\ Cardinality(admins) < MaxAdmins
    /\ account.revision # 0
    /\ admins' = admins \cup {[kind |-> "recover", password |-> password]}
    /\ UNCHANGED <<now, account, attempts, sessions, logins, issued, reserved>>

\* Both end by emptying the limiter and the sessions in the same transaction.
ReplaceAccount(password) ==
    /\ account.revision < MaxRevision
    /\ account' = [password |-> password, revision |-> account.revision + 1]
    /\ attempts' = [t \in Time |-> 0]
    /\ reserved' = [t \in Time |-> 0]
    /\ sessions' = {}

\* A second bootstrap finds the account and changes nothing.
FinishBootstrap(call) ==
    /\ call.kind = "bootstrap"
    /\ admins' = admins \ {call}
    /\ IF account.revision = 0
          THEN ReplaceAccount(call.password)
          ELSE UNCHANGED <<account, attempts, reserved, sessions>>
    /\ UNCHANGED <<now, logins, issued>>

FinishRecover(call) ==
    /\ call.kind = "recover"
    /\ admins' = admins \ {call}
    /\ ReplaceAccount(call.password)
    /\ UNCHANGED <<now, logins, issued>>

Next ==
    \/ Tick
    \/ ValidateSession
    \/ \E a \in Attempt :
          \/ LoginLimited(a) \/ ReadAccount(a) \/ LoginInvalid(a)
          \/ \E password \in Password \cup {Unacceptable} : Reserve(a, password)
          \/ \E token \in Token : LoginSucceeds(a, token)
    \/ \E token \in Token : RevokeSession(token)
    \/ \E password \in Password : BeginBootstrap(password) \/ BeginRecover(password)
    \/ \E call \in admins : FinishBootstrap(call) \/ FinishRecover(call)

Spec == Init /\ [][Next]_vars

-----------------------------------------------------------------------------
(* Properties.                                                             *)

(* README, "Authentication boundary": in no interval of Window ticks are   *)
(* more than AttemptLimit attempts let through to password hashing,        *)
(* however many logins run at once; only a password change resets it.      *)
LoginRateIsBounded ==
    \A t \in Time : CountIn(reserved, {u \in Time : t <= u /\ u < t + Window}) <= AttemptLimit

(* Every stored session was opened with the password that is current: a    *)
(* login that began before a recovery, in whatever process, never leaves   *)
(* one behind.                                                             *)
SessionsMatchAccount ==
    \A s \in sessions : s.revision = account.revision /\ s.password = account.password

(* The session table is bounded.                                           *)
SessionsAreBounded == Cardinality(sessions) <= SessionLimit

(* A token that stops being valid (logout, expiry, recovery, eviction)     *)
(* stays invalid: only a token not issued before becomes valid.            *)
InvalidTokensStayInvalid ==
    [][\A k \in Token : IsValidSession(k)' => IsValidSession(k) \/ k \notin issued]_vars

-----------------------------------------------------------------------------
(* The inductive invariant behind them.                                    *)

(* A login deriving a hash read an account that exists; if its revision is *)
(* still current then so is its password, because every replacement of the *)
(* account raises the revision.                                            *)
LoginsReadAccounts ==
    \A a \in Attempt : logins[a].stage = "hashing" =>
        LET read == logins[a].read IN
        /\ read.revision # 0
        /\ read.revision <= account.revision
        /\ read.revision = account.revision => read.password = account.password

SessionsWereIssued == \A s \in sessions : s.token \in issued

AuthInv ==
    /\ TypeOK
    /\ LoginsReadAccounts
    /\ SessionsMatchAccount
    /\ SessionsWereIssued
    /\ IsFiniteSet(sessions)
    /\ SessionsAreBounded
=============================================================================
