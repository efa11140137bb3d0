------------------------------- MODULE Accounts -------------------------------
(***************************************************************************)
(* Signing in, changing password and address, and the lock against         *)
(* guessing (app/routers/auth.py, app/routers/account.py,                  *)
(* app/services/account.py, auth.py, login_guard.py, app/dependencies.py)  *)
(* for one account.                                                        *)
(*                                                                         *)
(* Handlers run in threads: a request reads its row, spends a while with   *)
(* the hash and commits, and others do so in between.  Sessions are        *)
(* cookies; the stamp in them says when they began.  Browsers that are     *)
(* signed in do not log in again.                                          *)
(***************************************************************************)
EXTENDS Integers, FiniteSets

CONSTANTS
    Browser,        \* each sends one request at a time
    Password, Email,
    Ip,             \* Ip[b]: its address
    Window,         \* LOGIN_FAILURE_WINDOW_SECONDS
    Lockout,        \* LOGIN_LOCKOUT_SECONDS
    MaxPerIp,       \* LOGIN_MAX_FAILURES_PER_IP
    MaxPerAccount,  \* LOGIN_MAX_FAILURES_PER_ACCOUNT
    MaxTime,        \* bound on the clock
    MaxAttempts,    \* bound on recorded attempts
    Nothing         \* no session, no row

ASSUME AccountNumbers ==
    /\ {Window, Lockout, MaxPerIp, MaxPerAccount} \subseteq Nat \ {0} /\ {MaxTime, MaxAttempts} \subseteq Nat
    /\ IsFiniteSet(Browser) /\ Nothing \notin Nat

Time == 0 .. MaxTime

\* User; changed is credentials_changed_at, -1 for NULL
User == [email: Email, password: Password, changed: Time \cup {-1}]

\* id tells equal rows apart
LoginAttempt ==
    [id: Nat \ {0}, kind: {"login", "account"}, ip_address: {Ip[b] : b \in Browser}, account: Email, success: BOOLEAN,
     created_at: Time]

VARIABLES
    now,         \* the clock; a tick is longer than the tolerance of session_is_current
    user,        \* the row
    attempts,    \* rows of LoginAttempt
    session,     \* session[b]: its stamp and the password it began with (history), or Nothing
    request,     \* request[b]: where it stands, what it has read and what it asks for
    spared      \* sessions that began while another request changed the password (history)

accountVars == <<now, user, attempts, session, request, spared>>

\* since is when the lock was asked, stamp when the change was made; crossed is history
RequestState == [phase: {"none", "admitted", "right", "wrong", "begin", "loaded", "checked", "commit"}, row: User \cup {Nothing},
            email: Email \cup {Nothing}, password: Password \cup {Nothing}, since: Time, stamp: Time, crossed: BOOLEAN]

NoRequest == [phase |-> "none", row |-> Nothing, email |-> Nothing, password |-> Nothing, since |-> 0, stamp |-> 0,
              crossed |-> FALSE]

AccountsTypeOK ==
    /\ now \in Time /\ user \in User
    /\ attempts \subseteq LoginAttempt /\ Cardinality(attempts) \in 0 .. MaxAttempts
    /\ session \in [Browser -> [iat: Time, proof: Password] \cup {Nothing}]
    /\ request \in [Browser -> RequestState] /\ spared \subseteq Browser

AccountsInit ==
    /\ now = 0 /\ user \in [email: Email, password: Password, changed: {-1}] /\ attempts = {}
    /\ session = [b \in Browser |-> Nothing] /\ request = [b \in Browser |-> NoRequest] /\ spared = {}

-----------------------------------------------------------------------------
(* The lock *)

\* What is recorded for an address or an account
Recorded(kind, column, value, success) ==
    {a \in attempts : a.kind = kind /\ a[column] = value /\ a.success = success}

\* Failures after the last success that are younger than the window
Failures(kind, column, value, at) ==
    {a \in Recorded(kind, column, value, FALSE) :
        /\ a.created_at > at - Window
        /\ \A s \in Recorded(kind, column, value, TRUE) : a.created_at > s.created_at}

\* Plausible slip: one failure more than the limit allows
LockedLate(kind, column, value, limit) ==
    LET found == Failures(kind, column, value, now)
    IN  Cardinality(found) > limit /\ \E a \in found : a.created_at + Lockout > now

\* The last of them is not long ago
_locked_until(kind, column, value, limit) ==
    LET found == Failures(kind, column, value, now)
    IN  Cardinality(found) >= limit /\ \E a \in found : a.created_at + Lockout > now

locked_until(kind, ip, account) ==
    \/ _locked_until(kind, "ip_address", ip, MaxPerIp)
    \/ _locked_until(kind, "account", account, MaxPerAccount)

record_attempt(kind, b, account, success, at) ==
    LET row(n) == [id |-> n, kind |-> kind, ip_address |-> Ip[b], account |-> account, success |-> success, created_at |-> at]
        alike == {a \in attempts : a = row(a.id)}
    IN  attempts' = attempts \cup {row(Cardinality(alike) + 1)}

-----------------------------------------------------------------------------
(* Logging in *)

Stands(b, here) == request[b].phase = here

Becomes(b, r) == request' = [request EXCEPT ![b] = r]

\* The bound leaves room for the requests under way
Asking == {b \in Browser : request[b].phase \notin {"none", "begin"}}

Room == Cardinality(attempts) + Cardinality(Asking) < MaxAttempts

\* During a lock nothing happens
login(b, e) ==
    /\ Stands(b, "none") /\ Room /\ session[b] = Nothing /\ ~locked_until("login", Ip[b], e)
    /\ Becomes(b, [NoRequest EXCEPT !.phase = "admitted", !.email = e])
    /\ UNCHANGED <<now, user, attempts, session, spared>>

\* The row is read, and the hash takes its time
authenticate_user(b, p) ==
    /\ Stands(b, "admitted")
    /\ LET found == request[b].email = user.email /\ p = user.password
       IN  Becomes(b, [request[b] EXCEPT !.phase = IF found THEN "right" ELSE "wrong", !.password = p])
    /\ UNCHANGED <<now, user, attempts, session, spared>>

LoginFails(b) ==
    /\ Stands(b, "wrong") /\ Becomes(b, NoRequest)
    /\ record_attempt("login", b, request[b].email, FALSE, now)
    /\ UNCHANGED <<now, user, session, spared>>

LoginWorks(b) ==
    /\ Stands(b, "right") /\ Becomes(b, [request[b] EXCEPT !.phase = "begin"])
    /\ record_attempt("login", b, request[b].email, TRUE, now)
    /\ UNCHANGED <<now, user, session, spared>>

\* A new password that is stamped and not yet committed
Changing(b) == Stands(b, "commit") /\ request[b].password # request[b].row.password

\* The session begins with the stamp and the password of the request
SignIn(b, at) ==
    /\ session' = [session EXCEPT ![b] = [iat |-> at, proof |-> request[b].password]]
    /\ spared' = IF request[b].crossed \/ \E c \in Browser \ {b} : Changing(c) THEN spared \cup {b} ELSE spared \ {b}

start_session(b) == Stands(b, "begin") /\ Becomes(b, NoRequest) /\ SignIn(b, now) /\ UNCHANGED <<now, user, attempts>>

SignOut(b) == session' = [session EXCEPT ![b] = Nothing] /\ spared' = spared \ {b}

logout(b) == Stands(b, "none") /\ SignOut(b) /\ UNCHANGED <<now, user, attempts, request>>

-----------------------------------------------------------------------------
(* Changing the password or the address *)

session_is_current(b) == session[b] # Nothing /\ session[b].iat >= user.changed

\* A session that has ended is cleared
get_current_user(b) ==
    /\ Stands(b, "none") /\ Room /\ session[b] # Nothing
    /\ IF session_is_current(b)
         THEN Becomes(b, [NoRequest EXCEPT !.phase = "loaded", !.row = user]) /\ UNCHANGED <<session, spared>>
         ELSE SignOut(b) /\ UNCHANGED request
    /\ UNCHANGED <<now, user, attempts>>

\* change_profile with a new address and change_password come here; the lock is asked first
check_current_password(b) ==
    /\ Stands(b, "loaded")
    /\ Becomes(b, IF locked_until("account", Ip[b], request[b].row.email) THEN NoRequest
                  ELSE [request[b] EXCEPT !.phase = "checked", !.since = now])
    /\ UNCHANGED <<now, user, attempts, session, spared>>

AccountRecorded(b, success) == record_attempt("account", b, request[b].row.email, success, request[b].since)

\* The failure is committed although the change is refused
WrongPassword(b) ==
    /\ Stands(b, "checked") /\ Becomes(b, NoRequest) /\ AccountRecorded(b, FALSE)
    /\ UNCHANGED <<now, user, session, spared>>

\* The password agrees with the row that was read.  The row is to get another address or another password
RightPassword(b, e, p) ==
    /\ Stands(b, "checked")
    /\ (e = request[b].row.email) # (p = request[b].row.password)
    /\ Becomes(b, [request[b] EXCEPT !.phase = "commit", !.email = e, !.password = p, !.stamp = now])
    /\ UNCHANGED <<now, user, attempts, session, spared>>

change_profile(b) ==
    /\ Stands(b, "commit") /\ ~Changing(b) /\ Becomes(b, NoRequest) /\ AccountRecorded(b, TRUE)
    /\ user' = [user EXCEPT !.email = request[b].email]
    /\ UNCHANGED <<now, session, spared>>

\* The session that goes on gets the stamp of the change
ChangeCommits(b, at) ==
    /\ Changing(b) /\ AccountRecorded(b, TRUE) /\ SignIn(b, request[b].stamp)
    /\ user' = [user EXCEPT !.password = request[b].password, !.changed = at]
    /\ request' = [c \in Browser |-> IF c = b THEN NoRequest
                                    ELSE [request[c] EXCEPT !.crossed = request[c].phase \notin {"none", "admitted"}]]
    /\ now' = now

\* Plausible slip: the moment of the change is left as it is
ChangeUnstamped(b) == Changing(b) /\ ChangeCommits(b, user.changed)

change_password(b) == Changing(b) /\ ChangeCommits(b, request[b].stamp)

ClockTicks ==
    /\ now < MaxTime /\ now' = now + 1
    /\ UNCHANGED <<user, attempts, session, request, spared>>

AccountsNext ==
    \/ ClockTicks
    \/ \E b \in Browser :
          \/ \E e \in Email : login(b, e)
          \/ \E p \in Password : authenticate_user(b, p)
          \/ LoginFails(b) \/ LoginWorks(b)
          \/ start_session(b) \/ logout(b)
          \/ get_current_user(b) \/ check_current_password(b) \/ WrongPassword(b)
          \/ \E e \in Email, p \in Password : RightPassword(b, e, p)
          \/ change_profile(b) \/ change_password(b)

AccountsSpec == AccountsInit /\ [][AccountsNext]_accountVars

-----------------------------------------------------------------------------
(* Properties *)

(* A new password ends every other session of the user (the module comment of app/services/account.py): sessions that
   are current began with the present password, unless a change by another session was under way when they did. *)
OldSessionsEnd ==
    \A b \in Browser : 
        session_is_current(b) /\ session[b].iat # user.changed => session[b].proof = user.password \/ b \in spared

Keys == {<<"ip_address", Ip[b], MaxPerIp>> : b \in Browser} \cup {<<"account", e, MaxPerAccount>> : e \in Email}

(* As long as locks are not shorter than the window, the failures within it stay below the limit, up to attempts that
   had asked for the lock before it was there (app/routers/auth.py, line 141, app/services/account.py, line 48). *)
GuessesAreBounded ==
    Lockout >= Window =>
        \A kind \in {"login", "account"}, k \in Keys :
            Cardinality(Failures(kind, k[1], k[2], now)) < k[3] + Cardinality(Browser)

(* The module comment of login_guard.py: too many failures within the window lock for LOGIN_LOCKOUT_SECONDS after the
   last one.  The window moves on with the clock, so that they are no longer too many when the first has left it. *)
LockLasts ==
    \A k \in Keys :
        LET failures == Recorded("login", k[1], k[2], FALSE)
            last == CHOOSE t \in {a.created_at : a \in failures} : \A a \in failures : a.created_at <= t
        IN  failures # {} /\ Cardinality(Failures("login", k[1], k[2], last)) >= k[3] /\ now < last + Lockout
                => _locked_until("login", k[1], k[2], k[3])
=============================================================================
