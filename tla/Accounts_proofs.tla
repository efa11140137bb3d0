-------------------------- MODULE Accounts_proofs ---------------------------
(***************************************************************************)
(* Proofs about what counts the attempts of others: Accounts for any       *)
(* browsers, passwords, addresses, limits, windows and bounds, and         *)
(* RateWindows for any peers, mailboxes, threads, limits and lengths of    *)
(* the window.                                                             *)
(***************************************************************************)
EXTENDS Accounts, RateWindows, FiniteSetTheorems, SequenceTheorems, TLAPS

-----------------------------------------------------------------------------
(* A set with one more element counts at most one more. *)
LEMMA CountMore ==
    ASSUME NEW S, IsFiniteSet(S), NEW T, NEW x, T \subseteq S \cup {x}
    PROVE  Cardinality(T) <= Cardinality(S) + 1
<1>1. IsFiniteSet(S \cup {x}) /\ Cardinality(S \cup {x}) <= Cardinality(S) + 1 /\ Cardinality(S) \in Nat
  BY FS_AddElement, FS_CardinalityType
<1>2. IsFiniteSet(T) /\ Cardinality(T) <= Cardinality(S \cup {x})
  BY <1>1, FS_Subset
<1>3. Cardinality(T) \in Nat /\ Cardinality(S \cup {x}) \in Nat
  BY <1>1, <1>2, FS_CardinalityType
<1> QED
  BY <1>1, <1>2, <1>3

\* What a request has read and asks for is there once it needs it
RequestsTyped ==
    \A b \in Browser :
        /\ request[b].phase \in {"admitted", "right", "wrong", "begin", "commit"} => request[b].email \in Email
        /\ request[b].phase \in {"right", "wrong", "begin", "commit"} => request[b].password \in Password
        /\ request[b].phase \in {"loaded", "checked", "commit"} => request[b].row \in User

RowsTyped ==
    /\ now \in Time /\ user \in User
    /\ attempts \subseteq LoginAttempt /\ IsFiniteSet(attempts)
    /\ session \in [Browser -> [iat: Time, proof: Password] \cup {Nothing}]
    /\ request \in [Browser -> RequestState] /\ spared \subseteq Browser

\* Requests under way have room to be recorded
RoomKept == Cardinality(attempts) + Cardinality(Asking) <= MaxAttempts

AccountsInv == RowsTyped /\ RequestsTyped

LEMMA Recording ==
    ASSUME AccountsInv, NEW kind \in {"login", "account"}, NEW b \in Browser, NEW e \in Email, NEW success \in BOOLEAN,
           NEW t \in Time, record_attempt(kind, b, e, success, t)
    PROVE  \E a \in LoginAttempt :
              /\ attempts' = attempts \cup {a} /\ IsFiniteSet(attempts')
              /\ a.kind = kind /\ a.ip_address = Ip[b] /\ a.account = e /\ a.success = success /\ a.created_at = t
<1> DEFINE row(n) == [id |-> n, kind |-> kind, ip_address |-> Ip[b], account |-> e, success |-> success, created_at |-> t]
           alike == {a \in attempts : a = row(a.id)}
           n == Cardinality(alike) + 1
<1>1. IsFiniteSet(attempts) /\ alike \subseteq attempts
  BY DEF AccountsInv, RowsTyped
<1>2. n \in Nat \ {0}
  <2>1. Cardinality(alike) \in Nat
    BY <1>1, FS_Subset, FS_CardinalityType
  <2> QED
    BY <2>1
<1>3. row(n) \in LoginAttempt
  <2> HIDE DEF n
  <2> QED
    BY <1>2 DEF LoginAttempt
<1>4. attempts' = attempts \cup {row(n)}
  BY DEF record_attempt
<1>5. IsFiniteSet(attempts')
  BY <1>1, <1>4, FS_AddElement
<1> QED
  BY <1>3, <1>4, <1>5

LEMMA Becoming ==
    ASSUME AccountsInv, NEW b \in Browser, NEW r, Becomes(b, r)
    PROVE  request'[b] = r /\ \A c \in Browser \ {b} : request'[c] = request[c]
BY DEF AccountsInv, RowsTyped, Becomes

LEMMA BecomingTyped ==
    ASSUME AccountsInv, NEW b \in Browser, NEW r \in RequestState, Becomes(b, r),
           r.phase \in {"admitted", "right", "wrong", "begin", "commit"} => r.email \in Email,
           r.phase \in {"right", "wrong", "begin", "commit"} => r.password \in Password,
           r.phase \in {"loaded", "checked", "commit"} => r.row \in User
    PROVE  request' \in [Browser -> RequestState] /\ RequestsTyped'
<1>1. request' \in [Browser -> RequestState]
  BY DEF AccountsInv, RowsTyped, Becomes
<1> QED
  BY <1>1, Becoming DEF AccountsInv, RequestsTyped

LEMMA RestTyped == NoRequest \in RequestState /\ NoRequest.phase = "none"
<1>1. 0 \in Time
  BY AccountNumbers DEF Time
<1> QED
  BY <1>1 DEF NoRequest, RequestState

(* A session that begins gets a stamp and a password of their types. *)
LEMMA SigningIn ==
    ASSUME AccountsInv, NEW b \in Browser, NEW t \in Time, SignIn(b, t), request[b].password \in Password
    PROVE  /\ session' \in [Browser -> [iat: Time, proof: Password] \cup {Nothing}] /\ spared' \subseteq Browser
           /\ session'[b] = [iat |-> t, proof |-> request[b].password]
           /\ \A c \in Browser \ {b} : session'[c] = session[c] /\ (c \in spared' <=> c \in spared)
           /\ (request[b].crossed \/ \E c \in Browser \ {b} : Changing(c)) => b \in spared'
<1>1. spared' = IF request[b].crossed \/ \E c \in Browser \ {b} : Changing(c) THEN spared \cup {b} ELSE spared \ {b}
  BY DEF SignIn
<1>2. session' = [session EXCEPT ![b] = [iat |-> t, proof |-> request[b].password]]
  BY DEF SignIn
<1>3. session \in [Browser -> [iat: Time, proof: Password] \cup {Nothing}] /\ spared \subseteq Browser
  BY DEF AccountsInv, RowsTyped
<1> QED
  BY <1>1, <1>2, <1>3

LEMMA AccountsStart == AccountsInit => AccountsInv
<1> SUFFICES ASSUME AccountsInit PROVE AccountsInv
  OBVIOUS
<1>1. now \in Time /\ user \in User
  BY AccountNumbers DEF AccountsInit, Time, User
<1>2. attempts \subseteq LoginAttempt /\ IsFiniteSet(attempts) /\ spared \subseteq Browser
  BY FS_EmptySet DEF AccountsInit
<1>3. session \in [Browser -> [iat: Time, proof: Password] \cup {Nothing}]
  BY DEF AccountsInit
<1>4. request \in [Browser -> RequestState] /\ RequestsTyped
  BY RestTyped DEF AccountsInit, RequestsTyped
<1> QED
  BY <1>1, <1>2, <1>3, <1>4 DEF AccountsInv, RowsTyped

LEMMA AccountsStep == AccountsInv /\ [AccountsNext]_accountVars => AccountsInv'
<1> SUFFICES ASSUME AccountsInv, [AccountsNext]_accountVars PROVE AccountsInv'
  OBVIOUS
<1>0. /\ now \in Time /\ user \in User /\ RowsTyped /\ RequestsTyped
      /\ \A b \in Browser : request[b] \in RequestState
  BY DEF AccountsInv, RowsTyped
<1>1. CASE UNCHANGED accountVars
  BY <1>0, <1>1 DEF accountVars, AccountsInv, RowsTyped, RequestsTyped
<1>2. CASE ClockTicks
  <2>1. now' \in Time
    BY <1>0, <1>2, AccountNumbers DEF ClockTicks, Time
  <2> QED
    BY <1>0, <1>2, <2>1 DEF ClockTicks, AccountsInv, RowsTyped, RequestsTyped
<1>3. ASSUME NEW b \in Browser, NEW e \in Email, login(b, e) PROVE AccountsInv'
  <2> DEFINE r == [NoRequest EXCEPT !.phase = "admitted", !.email = e]
  <2>1. r \in RequestState /\ r.phase = "admitted" /\ r.email = e
    BY RestTyped DEF RequestState, NoRequest
  <2>2. Becomes(b, r)
    BY <1>3 DEF login
  <2> HIDE DEF r
  <2>3. request' \in [Browser -> RequestState] /\ RequestsTyped'
    BY <2>1, <2>2, BecomingTyped
  <2> QED
    BY <1>0, <1>3, <2>3 DEF login, AccountsInv, RowsTyped
<1>4. ASSUME NEW b \in Browser, NEW p \in Password, authenticate_user(b, p) PROVE AccountsInv'
  <2>1. PICK ph \in {"right", "wrong"} : Becomes(b, [request[b] EXCEPT !.phase = ph, !.password = p])
    BY <1>4 DEF authenticate_user
  <2> DEFINE r == [request[b] EXCEPT !.phase = ph, !.password = p]
  <2>2. r \in RequestState /\ r.phase = ph /\ r.email = request[b].email /\ r.password = p
    BY <1>0 DEF RequestState
  <2>3. r.email \in Email
    BY <1>0, <1>4, <2>2 DEF authenticate_user, Stands, RequestsTyped
  <2> HIDE DEF r
  <2>4. Becomes(b, r)
    BY <2>1 DEF r
  <2>5. request' \in [Browser -> RequestState] /\ RequestsTyped'
    BY <2>1, <2>2, <2>3, <2>4, BecomingTyped
  <2> QED
    BY <1>0, <1>4, <2>5 DEF authenticate_user, AccountsInv, RowsTyped
<1>5. ASSUME NEW b \in Browser, LoginFails(b) \/ LoginWorks(b) PROVE AccountsInv'
  <2>1. PICK success \in BOOLEAN : record_attempt("login", b, request[b].email, success, now)
    BY <1>5 DEF LoginFails, LoginWorks
  <2>2. request[b].email \in Email /\ (LoginWorks(b) => request[b].password \in Password)
    BY <1>0, <1>5 DEF LoginFails, LoginWorks, Stands, RequestsTyped
  <2>3. attempts' \subseteq LoginAttempt /\ IsFiniteSet(attempts')
    BY <1>0, <2>1, <2>2, Recording DEF RowsTyped
  <2>4. request' \in [Browser -> RequestState] /\ RequestsTyped'
    <3>1. CASE LoginFails(b)
      BY <3>1, RestTyped, BecomingTyped DEF LoginFails
    <3>2. CASE LoginWorks(b)
      <4> DEFINE r == [request[b] EXCEPT !.phase = "begin"]
      <4>1. r \in RequestState /\ r.phase = "begin" /\ r.email = request[b].email /\ r.password = request[b].password
        BY <1>0 DEF RequestState
      <4>2. Becomes(b, r)
        BY <3>2 DEF LoginWorks
      <4> HIDE DEF r
      <4> QED
        BY <2>2, <3>2, <4>1, <4>2, BecomingTyped
    <3> QED
      BY <1>5, <3>1, <3>2
  <2> QED
    BY <1>0, <1>5, <2>3, <2>4 DEF LoginFails, LoginWorks, AccountsInv, RowsTyped
<1>6. ASSUME NEW b \in Browser, start_session(b) PROVE AccountsInv'
  <2>1. request[b].password \in Password
    BY <1>0, <1>6 DEF start_session, Stands, RequestsTyped
  <2>2. session' \in [Browser -> [iat: Time, proof: Password] \cup {Nothing}] /\ spared' \subseteq Browser
    BY <1>0, <1>6, <2>1, SigningIn DEF start_session
  <2>3. request' \in [Browser -> RequestState] /\ RequestsTyped'
    BY <1>6, RestTyped, BecomingTyped DEF start_session
  <2> QED
    BY <1>0, <1>6, <2>2, <2>3 DEF start_session, AccountsInv, RowsTyped
<1>7. ASSUME NEW b \in Browser, SignOut(b), UNCHANGED <<now, user, attempts, request>> PROVE AccountsInv'
  BY <1>0, <1>7 DEF SignOut, AccountsInv, RowsTyped, RequestsTyped
<1>8. ASSUME NEW b \in Browser, get_current_user(b) PROVE AccountsInv'
  <2>1. CASE session_is_current(b)
    <3> DEFINE r == [NoRequest EXCEPT !.phase = "loaded", !.row = user]
    <3>1. r \in RequestState /\ r.phase = "loaded" /\ r.row = user
      BY <1>0, RestTyped DEF RequestState, NoRequest
    <3>2. Becomes(b, r) /\ UNCHANGED <<session, spared, now, user, attempts>>
      BY <1>8, <2>1 DEF get_current_user
    <3> HIDE DEF r
    <3>3. request' \in [Browser -> RequestState] /\ RequestsTyped'
      BY <1>0, <3>1, <3>2, BecomingTyped
    <3> QED
      BY <1>0, <3>2, <3>3 DEF AccountsInv, RowsTyped
  <2>2. CASE ~session_is_current(b)
    BY <1>7, <1>8, <2>2 DEF get_current_user
  <2> QED
    BY <2>1, <2>2
<1>9. ASSUME NEW b \in Browser, check_current_password(b) PROVE AccountsInv'
  <2>1. PICK r \in {NoRequest, [request[b] EXCEPT !.phase = "checked", !.since = now]} : Becomes(b, r)
    BY <1>9 DEF check_current_password
  <2>2. request' \in [Browser -> RequestState] /\ RequestsTyped'
    <3>1. CASE r = NoRequest
      BY <2>1, <3>1, RestTyped, BecomingTyped
    <3>2. CASE r = [request[b] EXCEPT !.phase = "checked", !.since = now]
      <4>1. r \in RequestState /\ r.phase = "checked" /\ r.row = request[b].row
        BY <1>0, <3>2 DEF RequestState
      <4>2. r.row \in User
        BY <1>0, <1>9, <4>1 DEF check_current_password, Stands, RequestsTyped
      <4> QED
        BY <2>1, <4>1, <4>2, BecomingTyped
    <3> QED
      BY <2>1, <3>1, <3>2
  <2> QED
    BY <1>0, <1>9, <2>2 DEF check_current_password, AccountsInv, RowsTyped
<1>10. ASSUME NEW b \in Browser, NEW success \in BOOLEAN, AccountRecorded(b, success), request[b].phase \in {"checked", "commit"}
       PROVE  attempts' \subseteq LoginAttempt /\ IsFiniteSet(attempts')
  <2>1. request[b].row.email \in Email /\ request[b].since \in Time
    <3>1. request[b].row \in User /\ request[b] \in RequestState
      BY <1>0, <1>10 DEF RequestsTyped
    <3> QED
      BY <3>1 DEF User, RequestState
  <2> QED
    BY <1>0, <1>10, <2>1, Recording DEF AccountRecorded, RowsTyped
<1>11. ASSUME NEW b \in Browser, WrongPassword(b) PROVE AccountsInv'
  <2>1. attempts' \subseteq LoginAttempt /\ IsFiniteSet(attempts')
    BY <1>10, <1>11 DEF WrongPassword, Stands
  <2>2. request' \in [Browser -> RequestState] /\ RequestsTyped'
    BY <1>11, RestTyped, BecomingTyped DEF WrongPassword
  <2> QED
    BY <1>0, <1>11, <2>1, <2>2 DEF WrongPassword, AccountsInv, RowsTyped
<1>12. ASSUME NEW b \in Browser, NEW e \in Email, NEW p \in Password, RightPassword(b, e, p) PROVE AccountsInv'
  <2> DEFINE r == [request[b] EXCEPT !.phase = "commit", !.email = e, !.password = p, !.stamp = now]
  <2>1. r \in RequestState /\ r.phase = "commit" /\ r.email = e /\ r.password = p /\ r.row = request[b].row
    BY <1>0 DEF RequestState
  <2>2. Becomes(b, r) /\ request[b].row \in User
    BY <1>0, <1>12 DEF RightPassword, Stands, RequestsTyped
  <2> HIDE DEF r
  <2>3. request' \in [Browser -> RequestState] /\ RequestsTyped'
    BY <2>1, <2>2, BecomingTyped
  <2> QED
    BY <1>0, <1>12, <2>3 DEF RightPassword, AccountsInv, RowsTyped
<1>13. ASSUME NEW b \in Browser, change_profile(b) PROVE AccountsInv'
  <2>1. attempts' \subseteq LoginAttempt /\ IsFiniteSet(attempts')
    BY <1>10, <1>13 DEF change_profile, Stands
  <2>2. request' \in [Browser -> RequestState] /\ RequestsTyped'
    BY <1>13, RestTyped, BecomingTyped DEF change_profile
  <2>3. user' \in User
    <3>1. request[b].email \in Email
      BY <1>0, <1>13 DEF change_profile, Stands, RequestsTyped
    <3> QED
      BY <1>0, <1>13, <3>1 DEF change_profile, User
  <2> QED
    BY <1>0, <1>13, <2>1, <2>2, <2>3 DEF change_profile, AccountsInv, RowsTyped
<1>14. ASSUME NEW b \in Browser, change_password(b) PROVE AccountsInv'
  <2>1. request[b].phase = "commit" /\ ChangeCommits(b, request[b].stamp)
    BY <1>14 DEF change_password, Changing, Stands
  <2>2. request[b].password \in Password /\ request[b].stamp \in Time
    BY <1>0, <2>1 DEF RequestsTyped, RequestState
  <2>3. attempts' \subseteq LoginAttempt /\ IsFiniteSet(attempts')
    BY <1>10, <2>1 DEF ChangeCommits
  <2>4. session' \in [Browser -> [iat: Time, proof: Password] \cup {Nothing}] /\ spared' \subseteq Browser
    BY <1>0, <2>1, <2>2, SigningIn DEF ChangeCommits
  <2>5. user' \in User
    BY <1>0, <2>1, <2>2 DEF ChangeCommits, User
  <2>6. /\ request' \in [Browser -> RequestState]
        /\ \A c \in Browser : request'[c] = NoRequest \/ /\ request'[c].phase = request[c].phase
                                                          /\ request'[c].email = request[c].email
                                                          /\ request'[c].password = request[c].password
                                                          /\ request'[c].row = request[c].row
    <3>1. request' = [c \in Browser |-> IF c = b THEN NoRequest
                                    ELSE [request[c] EXCEPT !.crossed = request[c].phase \notin {"none", "admitted"}]]
      BY <2>1 DEF ChangeCommits
    <3>2. ASSUME NEW c \in Browser \ {b}
          PROVE  /\ request'[c] \in RequestState /\ request'[c].phase = request[c].phase
                 /\ request'[c].email = request[c].email /\ request'[c].password = request[c].password
                 /\ request'[c].row = request[c].row
      <4> DEFINE x == request[c].phase \notin {"none", "admitted"}
      <4>1. request'[c] = [request[c] EXCEPT !.crossed = x] /\ x \in BOOLEAN
        BY <3>1
      <4> HIDE DEF x
      <4> QED
        BY <1>0, <4>1 DEF RequestState
    <3>3. request'[b] = NoRequest
      BY <3>1
    <3>4. request' \in [Browser -> RequestState]
      <4>1. request' = [c \in Browser |-> request'[c]]
        BY <3>1
      <4> QED
        BY <3>2, <3>3, <4>1, RestTyped
    <3> QED
      BY <3>2, <3>3, <3>4
  <2>7. RequestsTyped'
    BY <1>0, <2>6, RestTyped DEF RequestsTyped
  <2>8. now' = now
    BY <2>1 DEF ChangeCommits
  <2> QED
    BY <1>0, <2>3, <2>4, <2>5, <2>6, <2>7, <2>8 DEF AccountsInv, RowsTyped
<1> QED
  BY <1>1, <1>2, <1>3, <1>4, <1>5, <1>6, <1>7, <1>8, <1>9, <1>11, <1>12, <1>13, <1>14 DEF AccountsNext, logout

-----------------------------------------------------------------------------
\* No stamp is ahead of the clock
StampsPast ==
    /\ user.changed <= now
    /\ \A b \in Browser : request[b].stamp <= now /\ (session[b] # Nothing => session[b].iat <= now)

\* A login that found the password right knows the present one, unless it was crossed by a change
RightsKnown ==
    \A b \in Browser : request[b].phase \in {"right", "begin"} => request[b].password = user.password \/ request[b].crossed

\* Sessions that are younger than a change that is under way began beside it
LateSpared ==
    \A b, c \in Browser :
        b # c /\ Changing(b) /\ session[c] # Nothing /\ session[c].iat > request[b].stamp => c \in spared

SessionInv == AccountsInv /\ StampsPast /\ RightsKnown /\ LateSpared /\ OldSessionsEnd

LEMMA TimesAreNumbers ==
    ASSUME AccountsInv
    PROVE  /\ now \in Int /\ user.changed \in Int
           /\ \A b \in Browser : request[b].stamp \in Int /\ (session[b] # Nothing => session[b].iat \in Int)
<1>1. Time \subseteq Int
  BY AccountNumbers DEF Time
<1>2. now \in Time /\ user.changed \in Time \cup {-1}
  BY DEF AccountsInv, RowsTyped, User
<1>3. ASSUME NEW b \in Browser PROVE request[b].stamp \in Time
  BY DEF AccountsInv, RowsTyped, RequestState
<1>4. ASSUME NEW b \in Browser, session[b] # Nothing PROVE session[b].iat \in Time
  <2>1. session[b] \in [iat: Time, proof: Password]
    BY <1>4 DEF AccountsInv, RowsTyped
  <2> QED
    BY <2>1
<1>5. user.changed \in Int
  <2>1. -1 \in Int
    OBVIOUS
  <2>2. user.changed \in Time \/ user.changed = -1
    BY <1>2
  <2> QED
    BY <1>1, <2>1, <2>2
<1>6. \A b \in Browser : request[b].stamp \in Int /\ (session[b] # Nothing => session[b].iat \in Int)
  BY <1>1, <1>3, <1>4
<1> QED
  BY <1>1, <1>2, <1>5, <1>6

(* Steps in which no session begins and no password changes. *)
LEMMA QuietSessions ==
    ASSUME SessionInv, AccountsInv', UNCHANGED <<spared, user>>,
           \A b \in Browser : session'[b] = session[b] \/ session'[b] = Nothing,
           now' \in {now, now + 1}, RightsKnown',
           \A b \in Browser : request'[b].stamp = 0 \/ request'[b].stamp = now \/ request'[b].stamp = request[b].stamp,
           \A b \in Browser : Changing(b)' => request'[b].stamp = now \/ (Changing(b) /\ request'[b].stamp = request[b].stamp)
    PROVE  SessionInv'
<1> USE DEF SessionInv
<1>1. /\ now \in Int /\ 0 <= now
      /\ \A b \in Browser : session[b] # Nothing => session[b].iat \in Int
  BY TimesAreNumbers, AccountNumbers DEF AccountsInv, RowsTyped, Time
<1>2. StampsPast'
  BY <1>1, TimesAreNumbers DEF StampsPast
<1>3. LateSpared'
  <2> SUFFICES ASSUME NEW b \in Browser, NEW c \in Browser, b # c, Changing(b)', session'[c] # Nothing,
                      session'[c].iat > request'[b].stamp
               PROVE  c \in spared
    BY DEF LateSpared
  <2>1. session'[c] = session[c]
    OBVIOUS
  <2>2. CASE request'[b].stamp = now
    <3>1. session[c].iat <= now
      BY <2>1 DEF StampsPast
    <3> QED
      BY <1>1, <2>1, <2>2, <3>1
  <2>3. CASE Changing(b) /\ request'[b].stamp = request[b].stamp
    BY <2>1, <2>3 DEF LateSpared
  <2> QED
    BY <2>2, <2>3
<1>4. OldSessionsEnd'
  BY DEF OldSessionsEnd, session_is_current
<1> QED
  BY <1>2, <1>3, <1>4

LEMMA SessionStep == SessionInv /\ [AccountsNext]_accountVars => SessionInv'
<1> SUFFICES ASSUME SessionInv, [AccountsNext]_accountVars PROVE SessionInv'
  OBVIOUS
<1>0. AccountsInv /\ AccountsInv' /\ \A b \in Browser : request[b] \in RequestState
  BY AccountsStep DEF SessionInv, AccountsInv, RowsTyped
<1>1. CASE UNCHANGED accountVars
  BY <1>0, <1>1 DEF accountVars, SessionInv, StampsPast, RightsKnown, LateSpared, Changing, Stands, OldSessionsEnd, session_is_current
<1>2. CASE ClockTicks
  <2>1. UNCHANGED <<user, attempts, session, request, spared>> /\ now' = now + 1
    BY <1>2 DEF ClockTicks
  <2>2. RightsKnown' /\ \A b \in Browser : Changing(b)' => Changing(b)
    BY <2>1 DEF SessionInv, RightsKnown, Changing, Stands
  <2> QED
    BY <1>0, <2>1, <2>2, QuietSessions
<1>3. ASSUME NEW b \in Browser, NEW r, Becomes(b, r), UNCHANGED <<user, spared>>, now' = now,
             \A c \in Browser : session'[c] = session[c] \/ session'[c] = Nothing,
             r.phase \in {"right", "begin"} => r.password = user.password \/ r.crossed,
             r.stamp \in {0, now, request[b].stamp}, r.phase = "commit" => r.stamp = now
      PROVE  SessionInv'
  <2>1. request'[b] = r /\ \A c \in Browser \ {b} : request'[c] = request[c]
    BY <1>0, <1>3, Becoming
  <2>2. RightsKnown'
    BY <1>3, <2>1 DEF SessionInv, RightsKnown
  <2>3. \A c \in Browser : Changing(c)' => request'[c].stamp = now \/ (Changing(c) /\ request'[c].stamp = request[c].stamp)
    BY <1>3, <2>1 DEF Changing, Stands
  <2>4. \A c \in Browser : request'[c].stamp = 0 \/ request'[c].stamp = now \/ request'[c].stamp = request[c].stamp
    BY <1>3, <2>1
  <2> QED
    BY <1>0, <1>3, <2>2, <2>3, <2>4, QuietSessions
<1>4. NoRequest.phase = "none" /\ NoRequest.stamp = 0
  BY DEF NoRequest
<1>5. ASSUME NEW b \in Browser, NEW e \in Email, login(b, e) PROVE SessionInv'
  <2> DEFINE r == [NoRequest EXCEPT !.phase = "admitted", !.email = e]
  <2>1. r.phase = "admitted" /\ r.stamp = 0
    BY DEF NoRequest
  <2>2. Becomes(b, r) /\ UNCHANGED <<now, user, session, spared>>
    BY <1>5 DEF login
  <2> HIDE DEF r
  <2> QED
    BY <1>3, <2>1, <2>2
<1>6. ASSUME NEW b \in Browser, NEW p \in Password, authenticate_user(b, p) PROVE SessionInv'
  <2> DEFINE found == request[b].email = user.email /\ p = user.password
             r == [request[b] EXCEPT !.phase = IF found THEN "right" ELSE "wrong", !.password = p]
  <2>1. r.phase \in {"right", "wrong"} /\ (r.phase = "right" => r.password = user.password) /\ r.stamp = request[b].stamp
    BY <1>0 DEF RequestState
  <2>2. Becomes(b, r) /\ UNCHANGED <<now, user, session, spared>>
    BY <1>6 DEF authenticate_user
  <2> HIDE DEF r
  <2> QED
    BY <1>3, <2>1, <2>2
<1>7. ASSUME NEW b \in Browser, LoginFails(b) \/ WrongPassword(b) PROVE SessionInv'
  BY <1>3, <1>4, <1>7 DEF LoginFails, WrongPassword
<1>8. ASSUME NEW b \in Browser, LoginWorks(b) PROVE SessionInv'
  <2> DEFINE r == [request[b] EXCEPT !.phase = "begin"]
  <2>1. r.phase = "begin" /\ r.password = request[b].password /\ r.crossed = request[b].crossed /\ r.stamp = request[b].stamp
    BY <1>0 DEF RequestState
  <2>2. request[b].password = user.password \/ request[b].crossed
    BY <1>8 DEF LoginWorks, Stands, SessionInv, RightsKnown
  <2>3. Becomes(b, r) /\ UNCHANGED <<now, user, session, spared>>
    BY <1>8 DEF LoginWorks
  <2> HIDE DEF r
  <2> QED
    BY <1>3, <2>1, <2>2, <2>3
<1>9. ASSUME NEW b \in Browser, start_session(b) PROVE SessionInv'
  <2>1. /\ request[b].phase = "begin" /\ SignIn(b, now) /\ Becomes(b, NoRequest) /\ UNCHANGED <<now, user, attempts>>
        /\ now \in Time /\ request[b].password \in Password
    BY <1>0, <1>9 DEF start_session, Stands, AccountsInv, RowsTyped, RequestsTyped
  <2>2. /\ session'[b] = [iat |-> now, proof |-> request[b].password]
        /\ \A c \in Browser \ {b} : session'[c] = session[c] /\ (c \in spared' <=> c \in spared)
        /\ (request[b].crossed \/ \E c \in Browser \ {b} : Changing(c)) => b \in spared'
    BY <1>0, <2>1, SigningIn
  <2>3. request'[b] = NoRequest /\ \A c \in Browser \ {b} : request'[c] = request[c]
    BY <1>0, <2>1, Becoming
  <2>4. \A c \in Browser : Changing(c)' => c # b /\ Changing(c)
    BY <1>4, <2>1, <2>3 DEF Changing, Stands
  <2>5. StampsPast'
    <3>1. now \in Int /\ 0 <= now
      BY <2>1, AccountNumbers DEF Time
    <3>2. user'.changed <= now' /\ \A c \in Browser : request'[c].stamp <= now'
      BY <1>4, <2>1, <2>3, <3>1 DEF SessionInv, StampsPast
    <3>3. \A c \in Browser : session'[c] # Nothing => session'[c].iat <= now'
      BY <2>1, <2>2, <3>1 DEF SessionInv, StampsPast
    <3> QED
      BY <3>2, <3>3 DEF StampsPast
  <2>6. RightsKnown'
    BY <1>4, <2>1, <2>3 DEF SessionInv, RightsKnown
  <2>7. LateSpared'
    BY <2>2, <2>3, <2>4 DEF SessionInv, LateSpared
  <2>8. OldSessionsEnd'
    BY <2>1, <2>2 DEF SessionInv, RightsKnown, OldSessionsEnd, session_is_current
  <2> QED
    BY <1>0, <2>5, <2>6, <2>7, <2>8 DEF SessionInv
<1>10. ASSUME NEW b \in Browser, SignOut(b), UNCHANGED <<now, user, attempts, request>> PROVE SessionInv'
  <2>1. /\ session'[b] = Nothing /\ \A c \in Browser \ {b} : session'[c] = session[c] /\ (c \in spared' <=> c \in spared)
    BY <1>0, <1>10 DEF SignOut, AccountsInv, RowsTyped
  <2>2. \A c \in Browser : Changing(c)' <=> Changing(c)
    BY <1>10 DEF Changing, Stands
  <2>3. StampsPast' /\ RightsKnown'
    BY <1>10, <2>1 DEF SessionInv, StampsPast, RightsKnown
  <2>4. LateSpared'
    BY <1>10, <2>1, <2>2 DEF SessionInv, LateSpared
  <2>5. OldSessionsEnd'
    BY <1>10, <2>1 DEF SessionInv, OldSessionsEnd, session_is_current
  <2> QED
    BY <1>0, <2>3, <2>4, <2>5 DEF SessionInv
<1>11. ASSUME NEW b \in Browser, get_current_user(b) PROVE SessionInv'
  <2>1. CASE session_is_current(b)
    <3> DEFINE r == [NoRequest EXCEPT !.phase = "loaded", !.row = user]
    <3>1. r.phase = "loaded" /\ r.stamp = 0
      BY DEF NoRequest
    <3>2. Becomes(b, r) /\ UNCHANGED <<now, user, session, spared>>
      BY <1>11, <2>1 DEF get_current_user
    <3> HIDE DEF r
    <3> QED
      BY <1>3, <3>1, <3>2
  <2>2. CASE ~session_is_current(b)
    BY <1>10, <1>11, <2>2 DEF get_current_user
  <2> QED
    BY <2>1, <2>2
<1>12. ASSUME NEW b \in Browser, check_current_password(b) PROVE SessionInv'
  <2>1. PICK r \in {NoRequest, [request[b] EXCEPT !.phase = "checked", !.since = now]} : Becomes(b, r)
    BY <1>12 DEF check_current_password
  <2>2. r.phase \in {"none", "checked"} /\ r.stamp \in {0, request[b].stamp}
    <3>1. CASE r = NoRequest
      BY <1>4, <3>1
    <3>2. CASE r = [request[b] EXCEPT !.phase = "checked", !.since = now]
      BY <1>0, <3>2 DEF RequestState
    <3> QED
      BY <2>1, <3>1, <3>2
  <2>3. UNCHANGED <<now, user, session, spared>>
    BY <1>12 DEF check_current_password
  <2> QED
    BY <1>3, <2>1, <2>2, <2>3
<1>13. ASSUME NEW b \in Browser, NEW e \in Email, NEW p \in Password, RightPassword(b, e, p) PROVE SessionInv'
  <2> DEFINE r == [request[b] EXCEPT !.phase = "commit", !.email = e, !.password = p, !.stamp = now]
  <2>1. r.phase = "commit" /\ r.stamp = now
    BY <1>0 DEF RequestState
  <2>2. Becomes(b, r) /\ UNCHANGED <<now, user, session, spared>>
    BY <1>13 DEF RightPassword
  <2> HIDE DEF r
  <2> QED
    BY <1>3, <2>1, <2>2
<1>14. ASSUME NEW b \in Browser, change_profile(b) PROVE SessionInv'
  <2>1. /\ UNCHANGED <<now, session, spared>> /\ Becomes(b, NoRequest)
        /\ user'.changed = user.changed /\ user'.password = user.password
    BY <1>0, <1>14 DEF change_profile, AccountsInv, RowsTyped, User
  <2>2. request'[b] = NoRequest /\ \A c \in Browser \ {b} : request'[c] = request[c]
    BY <1>0, <2>1, Becoming
  <2>3. \A c \in Browser : Changing(c)' => c # b /\ Changing(c)
    BY <1>4, <2>1, <2>2 DEF Changing, Stands
  <2>4. StampsPast'
    <3>1. 0 <= now
      BY <1>0, AccountNumbers DEF AccountsInv, RowsTyped, Time
    <3> QED
      BY <1>4, <2>1, <2>2, <3>1 DEF SessionInv, StampsPast
  <2>5. RightsKnown'
    BY <1>4, <2>1, <2>2 DEF SessionInv, RightsKnown
  <2>6. LateSpared'
    BY <2>1, <2>2, <2>3 DEF SessionInv, LateSpared
  <2>7. OldSessionsEnd'
    BY <2>1 DEF SessionInv, OldSessionsEnd, session_is_current
  <2> QED
    BY <1>0, <2>4, <2>5, <2>6, <2>7 DEF SessionInv
<1>15. ASSUME NEW b \in Browser, change_password(b) PROVE SessionInv'
  <2> DEFINE t == request[b].stamp
  <2>1. /\ request[b].phase = "commit" /\ ChangeCommits(b, t) /\ Changing(b) /\ now' = now
        /\ request[b].password \in Password /\ t \in Time
    BY <1>0, <1>15 DEF change_password, ChangeCommits, Changing, Stands, AccountsInv, RequestsTyped, RequestState
  <2>2. user'.changed = t /\ user'.password = request[b].password
    BY <1>0, <2>1 DEF ChangeCommits, AccountsInv, RowsTyped, User
  <2>3. /\ session'[b] = [iat |-> t, proof |-> request[b].password]
        /\ \A c \in Browser \ {b} : session'[c] = session[c] /\ (c \in spared' <=> c \in spared)
        /\ (request[b].crossed \/ \E c \in Browser \ {b} : Changing(c)) => b \in spared'
    BY <1>0, <2>1, SigningIn DEF ChangeCommits
  <2>4. request'[b] = NoRequest
    BY <2>1 DEF ChangeCommits
  <2>5. ASSUME NEW c \in Browser \ {b}
        PROVE  /\ request'[c].phase = request[c].phase /\ request'[c].password = request[c].password
               /\ request'[c].row = request[c].row /\ request'[c].stamp = request[c].stamp
               /\ request'[c].crossed = (request[c].phase \notin {"none", "admitted"})
    <3> DEFINE x == request[c].phase \notin {"none", "admitted"}
    <3>1. request'[c] = [request[c] EXCEPT !.crossed = x]
      BY <2>1 DEF ChangeCommits
    <3> HIDE DEF x
    <3>2. /\ request'[c].phase = request[c].phase /\ request'[c].password = request[c].password
          /\ request'[c].row = request[c].row /\ request'[c].stamp = request[c].stamp /\ request'[c].crossed = x
      BY <1>0, <3>1 DEF RequestState
    <3> QED
      BY <3>2 DEF x
  <2>6. t <= now /\ t \in Int /\ now \in Int /\ 0 <= now
    BY <1>0, <2>1, TimesAreNumbers, AccountNumbers DEF SessionInv, StampsPast, AccountsInv, RowsTyped, Time
  <2>7. StampsPast'
    <3>1. \A c \in Browser : request'[c].stamp <= now
      BY <1>4, <2>4, <2>5, <2>6 DEF SessionInv, StampsPast
    <3>2. \A c \in Browser : session'[c] # Nothing => session'[c].iat <= now
      BY <2>3, <2>6 DEF SessionInv, StampsPast
    <3> QED
      BY <2>1, <2>2, <2>6, <3>1, <3>2 DEF StampsPast
  <2>8. RightsKnown'
    BY <1>4, <2>4, <2>5 DEF RightsKnown
  <2>9. LateSpared'
    <3> SUFFICES ASSUME NEW d \in Browser, NEW c \in Browser, d # c, Changing(d)', session'[c] # Nothing,
                        session'[c].iat > request'[d].stamp
                 PROVE  c \in spared'
      BY DEF LateSpared
    <3>1. d # b /\ Changing(d) /\ request'[d].stamp = request[d].stamp
      BY <1>4, <2>4, <2>5 DEF Changing, Stands
    <3>2. CASE c = b
      BY <2>3, <3>1, <3>2
    <3>3. CASE c # b
      BY <2>3, <3>1, <3>3 DEF SessionInv, LateSpared
    <3> QED
      BY <3>2, <3>3
  <2>10. OldSessionsEnd'
    <3> SUFFICES ASSUME NEW c \in Browser, session'[c] # Nothing, session'[c].iat >= t, session'[c].iat # t
                 PROVE  c \in spared'
      BY <2>2 DEF OldSessionsEnd, session_is_current
    <3>1. c # b /\ session'[c] = session[c]
      BY <2>3
    <3>2. session[c].iat \in Int
      BY <1>0, <3>1, TimesAreNumbers
    <3> QED
      BY <2>1, <2>3, <2>6, <3>1, <3>2 DEF SessionInv, LateSpared
  <2> QED
    BY <1>0, <2>7, <2>8, <2>9, <2>10 DEF SessionInv
<1> QED
  BY <1>1, <1>2, <1>5, <1>6, <1>7, <1>8, <1>9, <1>10, <1>11, <1>12, <1>13, <1>14, <1>15 DEF AccountsNext, logout

(* A new password ends every other session (change_password and session_is_current): a session that is current began with
   the present password, unless the change of another session was under way when it did, for any number of browsers. *)
THEOREM OldSessionsAreEnded == AccountsSpec => []OldSessionsEnd
<1>1. AccountsInit => SessionInv
  <2> SUFFICES ASSUME AccountsInit PROVE SessionInv
    OBVIOUS
  <2>1. \A b \in Browser : session[b] = Nothing /\ request[b] = NoRequest
    BY DEF AccountsInit
  <2>2. now = 0 /\ user.changed = -1
    BY DEF AccountsInit
  <2>3. StampsPast /\ RightsKnown /\ LateSpared /\ OldSessionsEnd
    BY <2>1, <2>2 DEF StampsPast, RightsKnown, LateSpared, OldSessionsEnd, session_is_current, NoRequest
  <2> QED
    BY <2>3, AccountsStart DEF SessionInv
<1>2. SessionInv => OldSessionsEnd
  BY DEF SessionInv
<1> QED
  BY <1>1, <1>2, SessionStep, PTL DEF AccountsSpec

-----------------------------------------------------------------------------
\* What a request is recorded under, and the requests that have asked for the lock and are not recorded
GuessPhases == [login |-> {"admitted", "right", "wrong"}, account |-> {"checked", "commit"}]
ValueOf(b, kind, column) ==
    IF column = "ip_address" THEN Ip[b] ELSE IF kind = "login" THEN request[b].email ELSE request[b].row.email
Guessing(kind, column, value) ==
    {b \in Browser : request[b].phase \in GuessPhases[kind] /\ ValueOf(b, kind, column) = value}

FailuresNow(kind, k) == Failures(kind, k[1], k[2], now)

\* What is recorded and what is about to be
GuessBound(kind, k) ==
    Cardinality(FailuresNow(kind, k)) + Cardinality(Guessing(kind, k[1], k[2])) <= k[3] - 1 + Cardinality(Browser)

GuessInv == AccountsInv /\ (Lockout >= Window => \A kind \in {"login", "account"}, k \in Keys : GuessBound(kind, k))

LEMMA KeyParts ==
    ASSUME NEW k \in Keys
    PROVE  /\ k[1] \in {"ip_address", "account"} /\ k[3] \in Nat \ {0}
           /\ k[3] = IF k[1] = "ip_address" THEN MaxPerIp ELSE MaxPerAccount
BY AccountNumbers DEF Keys

Countable ==
    \A kind, k : /\ IsFiniteSet(FailuresNow(kind, k)) /\ Cardinality(FailuresNow(kind, k)) \in Nat
                 /\ IsFiniteSet(Guessing(kind, k[1], k[2])) /\ Cardinality(Guessing(kind, k[1], k[2])) \in Nat
                 /\ Cardinality(Guessing(kind, k[1], k[2])) <= Cardinality(Browser) /\ Cardinality(Browser) \in Nat

LEMMA GuessesCountable == AccountsInv => Countable
<1> SUFFICES ASSUME AccountsInv, NEW kind, NEW k
             PROVE  /\ IsFiniteSet(FailuresNow(kind, k)) /\ Cardinality(FailuresNow(kind, k)) \in Nat
                    /\ IsFiniteSet(Guessing(kind, k[1], k[2])) /\ Cardinality(Guessing(kind, k[1], k[2])) \in Nat
                    /\ Cardinality(Guessing(kind, k[1], k[2])) <= Cardinality(Browser) /\ Cardinality(Browser) \in Nat
  BY DEF Countable
<1>1. IsFiniteSet(attempts) /\ FailuresNow(kind, k) \subseteq attempts
  BY DEF AccountsInv, RowsTyped, FailuresNow, Failures, Recorded
<1>2. Guessing(kind, k[1], k[2]) \subseteq Browser
  BY DEF Guessing
<1> QED
  BY <1>1, <1>2, AccountNumbers, FS_Subset, FS_CardinalityType

LEMMA FailuresFinite ==
    ASSUME AccountsInv, NEW kind, NEW k
    PROVE  /\ IsFiniteSet(FailuresNow(kind, k)) /\ Cardinality(FailuresNow(kind, k)) \in Nat
           /\ IsFiniteSet(Guessing(kind, k[1], k[2])) /\ Cardinality(Guessing(kind, k[1], k[2])) \in Nat
           /\ Cardinality(Guessing(kind, k[1], k[2])) <= Cardinality(Browser) /\ Cardinality(Browser) \in Nat
BY GuessesCountable DEF Countable

LEMMA FailuresFiniteThen ==
    ASSUME AccountsInv', NEW kind, NEW k
    PROVE  /\ Cardinality(FailuresNow(kind, k)') \in Nat
           /\ Cardinality(Guessing(kind, k[1], k[2])') \in Nat
           /\ Cardinality(Guessing(kind, k[1], k[2])') <= Cardinality(Browser)
<1>1. AccountsInv' => Countable'
  BY GuessesCountable, PTL
<1> QED
  BY <1>1 DEF Countable

(* While locks are not shorter than the window, who is not locked out has room for another guess. *)
LEMMA NotLocked ==
    ASSUME AccountsInv, Lockout >= Window, NEW kind, NEW k \in Keys, ~_locked_until(kind, k[1], k[2], k[3])
    PROVE  Cardinality(FailuresNow(kind, k)) < k[3]
<1> SUFFICES ASSUME Cardinality(FailuresNow(kind, k)) >= k[3] PROVE FALSE
  BY KeyParts, FailuresFinite
<1>1. Cardinality(FailuresNow(kind, k)) # 0
  BY KeyParts, FailuresFinite
<1>2. PICK a \in FailuresNow(kind, k) : TRUE
  BY <1>1, FS_EmptySet
<1>3. a \in LoginAttempt /\ a.created_at > now - Window
  BY <1>2 DEF FailuresNow, Failures, Recorded, AccountsInv, RowsTyped
<1>4. a.created_at \in Int /\ now \in Int /\ Lockout \in Int /\ Window \in Int
  BY <1>3, AccountNumbers DEF LoginAttempt, Time, AccountsInv, RowsTyped
<1>5. a.created_at + Lockout > now
  BY <1>3, <1>4
<1> QED
  BY <1>2, <1>5 DEF _locked_until, FailuresNow

LEMMA BoundStays ==
    ASSUME AccountsInv, AccountsInv', NEW kind, NEW k \in Keys, GuessBound(kind, k),
           FailuresNow(kind, k)' \subseteq FailuresNow(kind, k), Guessing(kind, k[1], k[2])' \subseteq Guessing(kind, k[1], k[2])
    PROVE  GuessBound(kind, k)'
<1>1. /\ Cardinality(FailuresNow(kind, k)') <= Cardinality(FailuresNow(kind, k))
      /\ Cardinality(Guessing(kind, k[1], k[2])') <= Cardinality(Guessing(kind, k[1], k[2]))
  BY FailuresFinite, FS_Subset
<1> QED
  BY <1>1, KeyParts, FailuresFinite, FailuresFiniteThen DEF GuessBound

LEMMA BoundWhenAdmitted ==
    ASSUME AccountsInv, AccountsInv', Lockout >= Window, NEW kind, NEW k \in Keys, ~_locked_until(kind, k[1], k[2], k[3]),
           FailuresNow(kind, k)' = FailuresNow(kind, k)
    PROVE  GuessBound(kind, k)'
BY NotLocked, KeyParts, FailuresFinite, FailuresFiniteThen DEF GuessBound

LEMMA BoundWhenRecorded ==
    ASSUME AccountsInv, AccountsInv', NEW kind, NEW k \in Keys, GuessBound(kind, k), NEW a, NEW b \in Guessing(kind, k[1], k[2]),
           FailuresNow(kind, k)' \subseteq FailuresNow(kind, k) \cup {a},
           Guessing(kind, k[1], k[2])' \subseteq Guessing(kind, k[1], k[2]) \ {b}
    PROVE  GuessBound(kind, k)'
<1> DEFINE G == Guessing(kind, k[1], k[2])
           H == Guessing(kind, k[1], k[2])'
<1>1. Cardinality(FailuresNow(kind, k)') <= Cardinality(FailuresNow(kind, k)) + 1
  BY FailuresFinite, CountMore
<1>2. Cardinality(H) <= Cardinality(G) - 1
  <2>1. IsFiniteSet(G) /\ Cardinality(G) \in Nat
    BY FailuresFinite
  <2>2. IsFiniteSet(G \ {b}) /\ Cardinality(G \ {b}) = Cardinality(G) - 1
    BY <2>1, FS_RemoveElement
  <2> HIDE DEF G, H
  <2> QED
    BY <2>1, <2>2, FS_Subset DEF G, H
<1> QED
  BY <1>1, <1>2, KeyParts, FailuresFinite, FailuresFiniteThen DEF GuessBound

(* Steps that record nothing and let nobody ask. *)
LEMMA QuietGuesses ==
    ASSUME GuessInv, AccountsInv', attempts' = attempts, now' \in {now, now + 1},
           \A b \in Browser, kind \in {"login", "account"} :
              request'[b].phase \in GuessPhases[kind] =>
                  request[b].phase \in GuessPhases[kind] /\ request'[b].row = request[b].row
                  /\ (kind = "login" => request'[b].email = request[b].email)
    PROVE  GuessInv'
<1> SUFFICES ASSUME Lockout >= Window, NEW kind \in {"login", "account"}, NEW k \in Keys PROVE GuessBound(kind, k)'
  BY DEF GuessInv
<1>1. AccountsInv /\ GuessBound(kind, k)
  BY DEF GuessInv
<1>2. FailuresNow(kind, k)' \subseteq FailuresNow(kind, k)
  <2>1. \A a \in attempts : a.created_at \in Int
    BY <1>1, AccountNumbers DEF AccountsInv, RowsTyped, LoginAttempt, Time
  <2>2. now \in Int /\ Window \in Int
    BY <1>1, AccountNumbers DEF AccountsInv, RowsTyped, Time
  <2>3. \A a \in attempts : a.created_at > now' - Window => a.created_at > now - Window
    BY <2>1, <2>2
  <2> QED
    BY <2>3 DEF FailuresNow, Failures, Recorded
<1>3. Guessing(kind, k[1], k[2])' \subseteq Guessing(kind, k[1], k[2])
  BY DEF Guessing, ValueOf
<1> QED
  BY <1>1, <1>2, <1>3, BoundStays

(* A request that is recorded was among those that had asked. *)
LEMMA RecordedGuess ==
    ASSUME GuessInv, AccountsInv', NEW b \in Browser, NEW kind \in {"login", "account"}, request[b].phase \in GuessPhases[kind],
           NEW success \in BOOLEAN, NEW t \in Time, NEW e \in Email, record_attempt(kind, b, e, success, t),
           e = ValueOf(b, kind, "account"), now' = now,
           \A q \in {"login", "account"} : request'[b].phase \notin GuessPhases[q],
           \A c \in Browser \ {b} : request'[c].phase = request[c].phase /\ request'[c].row = request[c].row
                                    /\ request'[c].email = request[c].email
    PROVE  GuessInv'
<1> SUFFICES ASSUME Lockout >= Window, NEW q \in {"login", "account"}, NEW k \in Keys PROVE GuessBound(q, k)'
  BY DEF GuessInv
<1>1. AccountsInv /\ GuessBound(q, k)
  BY DEF GuessInv
<1>2. PICK a \in LoginAttempt :
              /\ attempts' = attempts \cup {a}
              /\ a.kind = kind /\ a.ip_address = Ip[b] /\ a.account = e /\ a.success = success /\ a.created_at = t
  BY <1>1, Recording
<1>3. FailuresNow(q, k)' \subseteq FailuresNow(q, k) \cup {a}
  BY <1>2 DEF FailuresNow, Failures, Recorded
<1>4. \A c \in Browser \ {b}, column \in {"ip_address", "account"} : ValueOf(c, q, column)' = ValueOf(c, q, column)
  BY DEF ValueOf
<1>5. Guessing(q, k[1], k[2])' \subseteq Guessing(q, k[1], k[2]) \ {b}
  BY <1>4, KeyParts DEF Guessing
<1>6. CASE b \in Guessing(q, k[1], k[2])
  BY <1>1, <1>3, <1>5, <1>6, BoundWhenRecorded
<1>7. CASE b \notin Guessing(q, k[1], k[2])
  <2>1. q # kind \/ ValueOf(b, q, k[1]) # k[2]
    BY <1>7 DEF Guessing
  <2>2. a[k[1]] = ValueOf(b, kind, k[1])
    BY <1>2, KeyParts DEF ValueOf
  <2>3. a.kind # q \/ a[k[1]] # k[2]
    BY <1>2, <2>1, <2>2
  <2>4. FailuresNow(q, k)' \subseteq FailuresNow(q, k)
    BY <1>2, <2>3 DEF FailuresNow, Failures, Recorded
  <2> QED
    BY <1>1, <1>5, <2>4, BoundStays
<1> QED
  BY <1>6, <1>7

(* A request that is let in has just asked. *)
LEMMA AdmittedGuess ==
    ASSUME GuessInv, AccountsInv', NEW b \in Browser, NEW kind \in {"login", "account"}, NEW e,
           ~locked_until(kind, Ip[b], e), UNCHANGED <<attempts, now>>,
           e = ValueOf(b, kind, "account")', request'[b].phase \in GuessPhases[kind],
           \A c \in Browser \ {b} : request'[c] = request[c]
    PROVE  GuessInv'
<1> SUFFICES ASSUME Lockout >= Window, NEW q \in {"login", "account"}, NEW k \in Keys PROVE GuessBound(q, k)'
  BY DEF GuessInv
<1>1. AccountsInv /\ GuessBound(q, k)
  BY DEF GuessInv
<1>2. FailuresNow(q, k)' = FailuresNow(q, k)
  BY DEF FailuresNow, Failures, Recorded
<1>3. CASE q = kind /\ ValueOf(b, kind, k[1])' = k[2]
  <2>1. ~_locked_until(kind, "ip_address", Ip[b], MaxPerIp) /\ ~_locked_until(kind, "account", e, MaxPerAccount)
    BY DEF locked_until
  <2>2. k[2] = IF k[1] = "ip_address" THEN Ip[b] ELSE e
    BY <1>3, KeyParts DEF ValueOf
  <2>3. ~_locked_until(kind, k[1], k[2], k[3])
    BY <2>1, <2>2, KeyParts
  <2> QED
    BY <1>1, <1>2, <1>3, <2>3, BoundWhenAdmitted
<1>4. CASE ~(q = kind /\ ValueOf(b, kind, k[1])' = k[2])
  <2>1. q # kind => request'[b].phase \notin GuessPhases[q]
    BY DEF GuessPhases
  <2>2. b \notin Guessing(q, k[1], k[2])'
    BY <1>4, <2>1 DEF Guessing
  <2>3. \A c \in Browser \ {b} : ValueOf(c, q, k[1])' = ValueOf(c, q, k[1])
    BY DEF ValueOf
  <2>4. Guessing(q, k[1], k[2])' \subseteq Guessing(q, k[1], k[2])
    BY <2>2, <2>3 DEF Guessing
  <2> QED
    BY <1>1, <1>2, <2>4, BoundStays
<1> QED
  BY <1>3, <1>4

LEMMA RequestFields ==
    ASSUME AccountsInv, NEW b \in Browser
    PROVE  /\ request[b] \in RequestState
           /\ request[b].phase \in {"admitted", "right", "wrong"} => request[b].email \in Email
           /\ request[b].phase \in {"checked", "commit"} => request[b].row.email \in Email
           /\ request[b].since \in Time
<1>1. request[b] \in RequestState
  BY DEF AccountsInv, RowsTyped
<1>2. request[b].phase \in {"checked", "commit"} => request[b].row \in User
  BY DEF AccountsInv, RequestsTyped
<1>3. request[b].phase \in {"checked", "commit"} => request[b].row.email \in Email
  BY <1>2 DEF User
<1> QED
  BY <1>1, <1>3 DEF AccountsInv, RequestsTyped, RequestState

LEMMA GuessStep == GuessInv /\ [AccountsNext]_accountVars => GuessInv'
<1> SUFFICES ASSUME GuessInv, [AccountsNext]_accountVars PROVE GuessInv'
  OBVIOUS
<1>0. AccountsInv /\ AccountsInv' /\ \A b \in Browser : request[b] \in RequestState
  BY AccountsStep DEF GuessInv, AccountsInv, RowsTyped
<1> USE DEF GuessPhases
<1>1. CASE UNCHANGED accountVars
  BY <1>0, <1>1, QuietGuesses DEF accountVars
<1>2. CASE ClockTicks
  BY <1>0, <1>2, QuietGuesses DEF ClockTicks
<1>3. ASSUME NEW b \in Browser, NEW r, Becomes(b, r), UNCHANGED <<now, attempts>>,
             \/ r.phase \notin {"admitted", "right", "wrong", "checked", "commit"}
             \/ /\ r.phase \in {"right", "wrong"} /\ request[b].phase = "admitted"
                /\ r.email = request[b].email /\ r.row = request[b].row
             \/ r.phase = "commit" /\ request[b].phase = "checked" /\ r.row = request[b].row
      PROVE  GuessInv'
  <2>1. request'[b] = r /\ \A c \in Browser \ {b} : request'[c] = request[c]
    BY <1>0, <1>3, Becoming
  <2>2. ASSUME NEW c \in Browser, NEW kind \in {"login", "account"}, request'[c].phase \in GuessPhases[kind]
        PROVE  /\ request[c].phase \in GuessPhases[kind] /\ request'[c].row = request[c].row
               /\ kind = "login" => request'[c].email = request[c].email
    BY <1>3, <2>1, <2>2
  <2> QED
    BY <1>0, <1>3, <2>2, QuietGuesses
<1>4. NoRequest.phase = "none"
  BY DEF NoRequest
<1>5. ASSUME NEW b \in Browser, NEW e \in Email, login(b, e) PROVE GuessInv'
  <2> DEFINE r == [NoRequest EXCEPT !.phase = "admitted", !.email = e]
  <2>1. r.phase = "admitted" /\ r.email = e
    BY DEF NoRequest
  <2>2. Becomes(b, r) /\ UNCHANGED <<attempts, now>> /\ ~locked_until("login", Ip[b], e)
    BY <1>5 DEF login
  <2> HIDE DEF r
  <2>3. request'[b] = r /\ \A c \in Browser \ {b} : request'[c] = request[c]
    BY <1>0, <2>2, Becoming
  <2>4. e = ValueOf(b, "login", "account")'
    BY <2>1, <2>3 DEF ValueOf
  <2>5. request'[b].phase \in GuessPhases["login"]
    BY <2>1, <2>3
  <2> QED
    BY <1>0, <2>2, <2>3, <2>4, <2>5, AdmittedGuess
<1>6. ASSUME NEW b \in Browser, NEW p \in Password, authenticate_user(b, p) PROVE GuessInv'
  <2> DEFINE found == request[b].email = user.email /\ p = user.password
             r == [request[b] EXCEPT !.phase = IF found THEN "right" ELSE "wrong", !.password = p]
  <2>1. r.phase \in {"right", "wrong"} /\ r.email = request[b].email /\ r.row = request[b].row
    BY <1>0 DEF RequestState
  <2>2. Becomes(b, r) /\ UNCHANGED <<now, attempts>> /\ request[b].phase = "admitted"
    BY <1>6 DEF authenticate_user, Stands
  <2> HIDE DEF r
  <2> QED
    BY <1>3, <2>1, <2>2
<1>7. ASSUME NEW b \in Browser, NEW r, Becomes(b, r), now' = now, r.phase \notin {"admitted", "right", "wrong", "checked", "commit"},
             NEW kind \in {"login", "account"}, request[b].phase \in GuessPhases[kind],
             NEW success \in BOOLEAN, NEW t \in Time, record_attempt(kind, b, ValueOf(b, kind, "account"), success, t)
      PROVE  GuessInv'
  <2>1. request'[b] = r /\ \A c \in Browser \ {b} : request'[c] = request[c]
    BY <1>0, <1>7, Becoming
  <2>2. ValueOf(b, kind, "account") \in Email
    BY <1>0, <1>7, RequestFields DEF ValueOf
  <2>3. \A q \in {"login", "account"} : request'[b].phase \notin GuessPhases[q]
    BY <1>7, <2>1
  <2> QED
    BY <1>0, <1>7, <2>1, <2>2, <2>3, RecordedGuess
<1>8. ASSUME NEW b \in Browser, LoginFails(b) PROVE GuessInv'
  <2>1. now \in Time /\ request[b].phase \in GuessPhases["login"] /\ ValueOf(b, "login", "account") = request[b].email
    BY <1>0, <1>8 DEF LoginFails, Stands, AccountsInv, RowsTyped, ValueOf
  <2> QED
    BY <1>4, <1>7, <1>8, <2>1 DEF LoginFails
<1>9. ASSUME NEW b \in Browser, LoginWorks(b) PROVE GuessInv'
  <2> DEFINE r == [request[b] EXCEPT !.phase = "begin"]
  <2>1. r.phase = "begin"
    BY <1>0 DEF RequestState
  <2>2. now \in Time /\ request[b].phase \in GuessPhases["login"] /\ ValueOf(b, "login", "account") = request[b].email
    BY <1>0, <1>9 DEF LoginWorks, Stands, AccountsInv, RowsTyped, ValueOf
  <2>3. Becomes(b, r)
    BY <1>9 DEF LoginWorks
  <2> HIDE DEF r
  <2> QED
    BY <1>7, <1>9, <2>1, <2>2, <2>3 DEF LoginWorks
<1>10. ASSUME NEW b \in Browser, start_session(b) PROVE GuessInv'
  BY <1>3, <1>4, <1>10 DEF start_session
<1>11. ASSUME UNCHANGED <<now, attempts, request>> PROVE GuessInv'
  BY <1>0, <1>11, QuietGuesses
<1>12. ASSUME NEW b \in Browser, get_current_user(b) PROVE GuessInv'
  <2>1. CASE session_is_current(b)
    <3> DEFINE r == [NoRequest EXCEPT !.phase = "loaded", !.row = user]
    <3>1. r.phase = "loaded"
      BY DEF NoRequest
    <3>2. Becomes(b, r) /\ UNCHANGED <<now, attempts>>
      BY <1>12, <2>1 DEF get_current_user
    <3> HIDE DEF r
    <3> QED
      BY <1>3, <3>1, <3>2
  <2>2. CASE ~session_is_current(b)
    BY <1>11, <1>12, <2>2 DEF get_current_user
  <2> QED
    BY <2>1, <2>2
<1>13. ASSUME NEW b \in Browser, check_current_password(b) PROVE GuessInv'
  <2>1. CASE locked_until("account", Ip[b], request[b].row.email)
    BY <1>3, <1>4, <1>13, <2>1 DEF check_current_password
  <2>2. CASE ~locked_until("account", Ip[b], request[b].row.email)
    <3> DEFINE r == [request[b] EXCEPT !.phase = "checked", !.since = now]
    <3>1. r.phase = "checked" /\ r.row = request[b].row
      BY <1>0 DEF RequestState
    <3>2. Becomes(b, r) /\ UNCHANGED <<attempts, now>>
      BY <1>13, <2>2 DEF check_current_password
    <3> HIDE DEF r
    <3>3. request'[b] = r /\ \A c \in Browser \ {b} : request'[c] = request[c]
      BY <1>0, <3>2, Becoming
    <3>4. request[b].row.email = ValueOf(b, "account", "account")'
      BY <3>1, <3>3 DEF ValueOf
    <3>5. request'[b].phase \in GuessPhases["account"]
      BY <3>1, <3>3
    <3> QED
      BY <1>0, <2>2, <3>2, <3>3, <3>4, <3>5, AdmittedGuess
  <2> QED
    BY <2>1, <2>2
<1>14. ASSUME NEW b \in Browser, request[b].phase \in {"checked", "commit"}
       PROVE  /\ request[b].since \in Time /\ request[b].phase \in GuessPhases["account"]
              /\ ValueOf(b, "account", "account") = request[b].row.email
  BY <1>0, <1>14, RequestFields DEF ValueOf
<1>15. ASSUME NEW b \in Browser, WrongPassword(b) PROVE GuessInv'
  <2>1. request[b].phase = "checked" /\ Becomes(b, NoRequest) /\ now' = now
        /\ record_attempt("account", b, request[b].row.email, FALSE, request[b].since)
    BY <1>15 DEF WrongPassword, Stands, AccountRecorded
  <2> QED
    BY <1>4, <1>7, <1>14, <2>1
<1>16. ASSUME NEW b \in Browser, NEW e \in Email, NEW p \in Password, RightPassword(b, e, p) PROVE GuessInv'
  <2> DEFINE r == [request[b] EXCEPT !.phase = "commit", !.email = e, !.password = p, !.stamp = now]
  <2>1. r.phase = "commit" /\ r.row = request[b].row
    BY <1>0 DEF RequestState
  <2>2. Becomes(b, r) /\ UNCHANGED <<now, attempts>> /\ request[b].phase = "checked"
    BY <1>16 DEF RightPassword, Stands
  <2> HIDE DEF r
  <2> QED
    BY <1>3, <2>1, <2>2
<1>17. ASSUME NEW b \in Browser, change_profile(b) PROVE GuessInv'
  <2>1. request[b].phase = "commit" /\ Becomes(b, NoRequest) /\ now' = now
        /\ record_attempt("account", b, request[b].row.email, TRUE, request[b].since)
    BY <1>17 DEF change_profile, Stands, AccountRecorded
  <2> QED
    BY <1>4, <1>7, <1>14, <2>1
<1>18. ASSUME NEW b \in Browser, change_password(b) PROVE GuessInv'
  <2>1. /\ request[b].phase = "commit" /\ now' = now /\ request'[b] = NoRequest
        /\ record_attempt("account", b, request[b].row.email, TRUE, request[b].since)
    BY <1>18 DEF change_password, ChangeCommits, Changing, Stands, AccountRecorded
  <2>2. ASSUME NEW c \in Browser \ {b}
        PROVE  /\ request'[c].phase = request[c].phase /\ request'[c].email = request[c].email
               /\ request'[c].row = request[c].row
    <3> DEFINE x == request[c].phase \notin {"none", "admitted"}
    <3>1. request'[c] = [request[c] EXCEPT !.crossed = x]
      BY <1>18 DEF change_password, ChangeCommits
    <3> HIDE DEF x
    <3> QED
      BY <1>0, <3>1 DEF RequestState
  <2>3. request[b].row.email \in Email /\ \A q \in {"login", "account"} : request'[b].phase \notin GuessPhases[q]
    BY <1>0, <1>4, <2>1, RequestFields
  <2> QED
    BY <1>0, <1>14, <2>1, <2>2, <2>3, RecordedGuess
<1> QED
  BY <1>1, <1>2, <1>5, <1>6, <1>8, <1>9, <1>10, <1>11, <1>12, <1>13, <1>15, <1>16, <1>17, <1>18 DEF AccountsNext, logout

(* Failures within the window stay below the limit of login_guard.py, up to the requests that had asked for the lock
   before it was there (login, check_current_password), for any number of browsers, limits and windows, as long as a lock is
   not shorter than the window. *)
THEOREM GuessesStayBounded == AccountsSpec => []GuessesAreBounded
<1>1. AccountsInit => GuessInv
  <2> SUFFICES ASSUME AccountsInit, NEW kind \in {"login", "account"}, NEW k \in Keys PROVE GuessBound(kind, k)
    BY AccountsStart DEF GuessInv
  <2>1. FailuresNow(kind, k) = {}
    BY DEF AccountsInit, FailuresNow, Failures, Recorded
  <2>2. Guessing(kind, k[1], k[2]) = {}
    BY DEF AccountsInit, Guessing, NoRequest, GuessPhases
  <2>3. Cardinality(FailuresNow(kind, k)) = 0 /\ Cardinality(Guessing(kind, k[1], k[2])) = 0
    BY <2>1, <2>2, FS_EmptySet
  <2>4. Cardinality(Browser) \in Nat
    BY AccountNumbers, FS_CardinalityType
  <2> QED
    BY <2>3, <2>4, KeyParts DEF GuessBound
<1>2. GuessInv => GuessesAreBounded
  <2> SUFFICES ASSUME GuessInv, Lockout >= Window, NEW kind \in {"login", "account"}, NEW k \in Keys
               PROVE  Cardinality(Failures(kind, k[1], k[2], now)) < k[3] + Cardinality(Browser)
    BY DEF GuessesAreBounded
  <2>1. GuessBound(kind, k) /\ AccountsInv
    BY DEF GuessInv
  <2>2. Cardinality(FailuresNow(kind, k)) < k[3] + Cardinality(Browser)
    BY <2>1, FailuresFinite, KeyParts DEF GuessBound
  <2> QED
    BY <2>2 DEF FailuresNow
<1> QED
  BY <1>1, <1>2, GuessStep, PTL DEF AccountsSpec

-----------------------------------------------------------------------------
RoomInv == AccountsInv /\ RoomKept

LEMMA RoomCounts ==
    AccountsInv => /\ IsFiniteSet(attempts) /\ Cardinality(attempts) \in Nat
                   /\ IsFiniteSet(Asking) /\ Cardinality(Asking) \in Nat
<1> SUFFICES ASSUME AccountsInv PROVE /\ IsFiniteSet(attempts) /\ Cardinality(attempts) \in Nat
                                      /\ IsFiniteSet(Asking) /\ Cardinality(Asking) \in Nat
  OBVIOUS
<1>1. IsFiniteSet(attempts) /\ IsFiniteSet(Asking)
  BY FS_Subset, AccountNumbers DEF AccountsInv, RowsTyped, Asking
<1> QED
  BY <1>1, FS_CardinalityType

LEMMA RoomCountsThen ==
    AccountsInv' => (/\ IsFiniteSet(attempts) /\ Cardinality(attempts) \in Nat
                     /\ IsFiniteSet(Asking) /\ Cardinality(Asking) \in Nat)'
BY RoomCounts, PTL

(* A step keeps the room when no request joins, or one joins that was given room, or one leaves and is recorded. *)
LEMMA RoomStays ==
    ASSUME RoomInv, AccountsInv', NEW b \in Browser,
           \/ attempts' = attempts /\ Asking' \subseteq Asking
           \/ attempts' = attempts /\ Room /\ Asking' \subseteq Asking \cup {b}
           \/ \E a : attempts' = attempts \cup {a} /\ b \in Asking /\ Asking' \subseteq Asking \ {b}
    PROVE  RoomKept'
<1>1. /\ AccountsInv /\ Cardinality(attempts) + Cardinality(Asking) <= MaxAttempts /\ MaxAttempts \in Nat
      /\ IsFiniteSet(attempts) /\ Cardinality(attempts) \in Nat
      /\ IsFiniteSet(Asking) /\ Cardinality(Asking) \in Nat
  BY RoomCounts, AccountNumbers DEF RoomInv, RoomKept
<1>2. Cardinality(attempts') \in Nat /\ Cardinality(Asking') \in Nat
  BY RoomCountsThen
<1> SUFFICES Cardinality(attempts') + Cardinality(Asking') <= MaxAttempts
  BY DEF RoomKept
<1>3. CASE attempts' = attempts /\ Asking' \subseteq Asking
  <2>1. Cardinality(Asking') <= Cardinality(Asking)
    BY <1>1, <1>3, FS_Subset
  <2> QED
    BY <1>1, <1>2, <1>3, <2>1
<1>4. CASE attempts' = attempts /\ Room /\ Asking' \subseteq Asking \cup {b}
  <2>1. Cardinality(Asking') <= Cardinality(Asking) + 1
    BY <1>1, <1>4, CountMore
  <2>2. Cardinality(attempts) + Cardinality(Asking) < MaxAttempts
    BY <1>4 DEF Room
  <2> QED
    BY <1>1, <1>2, <1>4, <2>1, <2>2
<1>5. ASSUME NEW a, attempts' = attempts \cup {a}, b \in Asking, Asking' \subseteq Asking \ {b}
      PROVE  Cardinality(attempts') + Cardinality(Asking') <= MaxAttempts
  <2>1. Cardinality(attempts') <= Cardinality(attempts) + 1
    BY <1>1, <1>5, CountMore
  <2>2. IsFiniteSet(Asking \ {b}) /\ Cardinality(Asking \ {b}) = Cardinality(Asking) - 1
    BY <1>1, <1>5, FS_RemoveElement
  <2>3. Cardinality(Asking') <= Cardinality(Asking \ {b})
    BY <1>5, <2>2, FS_Subset
  <2> QED
    BY <1>1, <1>2, <2>1, <2>2, <2>3
<1> QED
  BY <1>3, <1>4, <1>5

LEMMA RoomStep == RoomInv /\ [AccountsNext]_accountVars => RoomInv'
<1> SUFFICES ASSUME RoomInv, [AccountsNext]_accountVars PROVE RoomKept'
  BY AccountsStep DEF RoomInv
<1>0. AccountsInv /\ AccountsInv' /\ \A b \in Browser : request[b] \in RequestState
  BY AccountsStep DEF RoomInv, AccountsInv, RowsTyped
<1>1. ASSUME UNCHANGED <<attempts, request>> PROVE RoomKept'
  BY <1>1 DEF RoomInv, RoomKept, Asking
<1>2. NoRequest.phase = "none"
  BY DEF NoRequest
<1>3. ASSUME NEW b \in Browser, NEW r, Becomes(b, r)
      PROVE  /\ Asking' \subseteq Asking \cup {b}
             /\ r.phase \in {"none", "begin"} => Asking' \subseteq Asking \ {b}
             /\ b \in Asking => Asking' \subseteq Asking
  <2>1. request'[b] = r /\ \A c \in Browser \ {b} : request'[c] = request[c]
    BY <1>0, <1>3, Becoming
  <2> QED
    BY <2>1 DEF Asking
<1>4. ASSUME NEW b \in Browser, request[b].phase \notin {"none", "begin"} PROVE b \in Asking
  BY <1>4 DEF Asking
<1>5. ASSUME NEW b \in Browser, NEW kind \in {"login", "account"}, NEW e, NEW success \in BOOLEAN, NEW t,
             record_attempt(kind, b, e, success, t)
      PROVE  \E a : attempts' = attempts \cup {a}
  BY <1>5 DEF record_attempt
<1>6. ASSUME NEW b \in Browser, NEW e \in Email, login(b, e) PROVE RoomKept'
  BY <1>0, <1>3, <1>6, RoomStays DEF login
<1>7. ASSUME NEW b \in Browser, NEW p \in Password, authenticate_user(b, p) PROVE RoomKept'
  <2>1. \E r : Becomes(b, r)
    BY <1>7 DEF authenticate_user
  <2>2. b \in Asking /\ attempts' = attempts
    BY <1>4, <1>7 DEF authenticate_user, Stands
  <2> QED
    BY <1>0, <1>3, <2>1, <2>2, RoomStays
<1>8. ASSUME NEW b \in Browser, LoginFails(b) PROVE RoomKept'
  <2>1. b \in Asking /\ Becomes(b, NoRequest) /\ \E a : attempts' = attempts \cup {a}
    BY <1>4, <1>5, <1>8 DEF LoginFails, Stands
  <2> QED
    BY <1>0, <1>2, <1>3, <2>1, RoomStays
<1>9. ASSUME NEW b \in Browser, LoginWorks(b) PROVE RoomKept'
  <2> DEFINE r == [request[b] EXCEPT !.phase = "begin"]
  <2>1. r.phase = "begin"
    BY <1>0 DEF RequestState
  <2>2. b \in Asking /\ Becomes(b, r) /\ \E a : attempts' = attempts \cup {a}
    BY <1>4, <1>5, <1>9 DEF LoginWorks, Stands
  <2> HIDE DEF r
  <2> QED
    BY <1>0, <1>3, <2>1, <2>2, RoomStays
<1>10. ASSUME NEW b \in Browser, start_session(b) PROVE RoomKept'
  <2>1. Asking' \subseteq Asking \ {b} /\ attempts' = attempts
    BY <1>2, <1>3, <1>10 DEF start_session
  <2> QED
    BY <1>0, <2>1, RoomStays
<1>11. ASSUME NEW b \in Browser, get_current_user(b) PROVE RoomKept'
  <2>1. CASE session_is_current(b)
    <3>1. Room /\ attempts' = attempts /\ \E r : Becomes(b, r)
      BY <1>11, <2>1 DEF get_current_user
    <3> QED
      BY <1>0, <1>3, <3>1, RoomStays
  <2>2. CASE ~session_is_current(b)
    BY <1>1, <1>11, <2>2 DEF get_current_user
  <2> QED
    BY <2>1, <2>2
<1>12. ASSUME NEW b \in Browser, check_current_password(b) PROVE RoomKept'
  <2>1. b \in Asking /\ attempts' = attempts /\ \E r : Becomes(b, r)
    BY <1>4, <1>12 DEF check_current_password, Stands
  <2> QED
    BY <1>0, <1>3, <2>1, RoomStays
<1>13. ASSUME NEW b \in Browser, WrongPassword(b) \/ change_profile(b) PROVE RoomKept'
  <2>1. b \in Asking /\ Becomes(b, NoRequest) /\ \E a : attempts' = attempts \cup {a}
    BY <1>4, <1>5, <1>13 DEF WrongPassword, change_profile, AccountRecorded, Stands
  <2> QED
    BY <1>0, <1>2, <1>3, <2>1, RoomStays
<1>14. ASSUME NEW b \in Browser, NEW e \in Email, NEW p \in Password, RightPassword(b, e, p) PROVE RoomKept'
  <2>1. b \in Asking /\ attempts' = attempts /\ \E r : Becomes(b, r)
    BY <1>4, <1>14 DEF RightPassword, Stands
  <2> QED
    BY <1>0, <1>3, <2>1, RoomStays
<1>15. ASSUME NEW b \in Browser, change_password(b) PROVE RoomKept'
  <2>1. b \in Asking /\ \E a : attempts' = attempts \cup {a}
    BY <1>4, <1>5, <1>15 DEF change_password, ChangeCommits, Changing, AccountRecorded, Stands
  <2>2. /\ request'[b] = NoRequest
        /\ \A c \in Browser \ {b} : request'[c].phase = request[c].phase
    <3>1. request' = [c \in Browser |-> IF c = b THEN NoRequest
                                    ELSE [request[c] EXCEPT !.crossed = request[c].phase \notin {"none", "admitted"}]]
      BY <1>15 DEF change_password, ChangeCommits
    <3>2. ASSUME NEW c \in Browser \ {b} PROVE request'[c].phase = request[c].phase
      <4> DEFINE x == request[c].phase \notin {"none", "admitted"}
      <4>1. request'[c] = [request[c] EXCEPT !.crossed = x]
        BY <3>1
      <4> HIDE DEF x
      <4> QED
        BY <1>0, <4>1 DEF RequestState
    <3> QED
      BY <3>1, <3>2
  <2>3. Asking' \subseteq Asking \ {b}
    BY <1>2, <2>2 DEF Asking
  <2> QED
    BY <1>0, <2>1, <2>3, RoomStays
<1> QED
  BY <1>1, <1>6, <1>7, <1>8, <1>9, <1>10, <1>11, <1>12, <1>13, <1>14, <1>15
     DEF AccountsNext, accountVars, ClockTicks, logout

(* The row, the attempts, the sessions and the requests keep their types, and the attempts stay within their bound. *)
THEOREM AccountsTypeCorrect == AccountsSpec => []AccountsTypeOK
<1>1. AccountsInit => RoomInv
  <2> SUFFICES ASSUME AccountsInit PROVE RoomKept
    BY AccountsStart DEF RoomInv
  <2>1. attempts = {} /\ Asking = {}
    BY DEF AccountsInit, Asking, NoRequest
  <2>2. Cardinality(attempts) = 0 /\ Cardinality(Asking) = 0 /\ MaxAttempts \in Nat
    BY <2>1, FS_EmptySet, AccountNumbers
  <2> QED
    BY <2>2 DEF RoomKept
<1>2. RoomInv => AccountsTypeOK
  <2> SUFFICES ASSUME RoomInv PROVE AccountsTypeOK
    OBVIOUS
  <2>1. Cardinality(attempts) \in 0 .. MaxAttempts
    BY RoomCounts, AccountNumbers DEF RoomInv, RoomKept
  <2> QED
    BY <2>1 DEF RoomInv, AccountsInv, RowsTyped, AccountsTypeOK
<1> QED
  BY <1>1, <1>2, RoomStep, PTL DEF AccountsSpec

-----------------------------------------------------------------------------
(* The windows of the receiver: each holds, of the last hour, exactly what the history says was let in *)

WindowKind == {"peer", "mailbox"}

KeysOf(w) == IF w = "peer" THEN Peer ELSE Mailbox

Times(w, k) == IF w = "peer" THEN _ip_counts[k] ELSE _rcpt_counts[k]

Accepted(w, k) == {e \in log : e.window = w /\ e.key = k /\ e.answer}

Since(S, t) == {e \in S : e.at >= t}

\* The entries of a window before and after a time; those after it are as many as the history has
SplitAt(times, t, n) == (\A i \in 1 .. n : times[i] < t) /\ (\A i \in n + 1 .. Len(times) : times[i] >= t)

Counted(times, S) ==
    \A t \in Int : t >= clock - Hour =>
        \E n \in 0 .. Len(times) : SplitAt(times, t, n) /\ Cardinality(Since(S, t)) = Len(times) - n

WindowInv(w, k) ==
    /\ Times(w, k) \in Seq(Nat) /\ \A i \in 1 .. Len(Times(w, k)) : Times(w, k)[i] <= clock
    /\ Len(Times(w, k)) <= LimitOf(w)
    /\ Counted(Times(w, k), Accepted(w, k))

CallTyped(j, n) == j = Unused \/ j \in [at : {"peer", "lookup", "mailbox"}, peer : Peer, mailbox : Mailbox, number : 1 .. n]

LogTyped ==
    /\ IsFiniteSet(log)
    /\ \A e \in log : /\ e.window \in WindowKind /\ e.key \in KeysOf(e.window) /\ e.answer \in BOOLEAN
                      /\ e.at \in Nat /\ e.at <= clock /\ e.call \in 1 .. calls

RateTyped ==
    /\ clock \in 0 .. MaxClock /\ calls \in 0 .. MaxCalls /\ LogTyped
    /\ DOMAIN _ip_counts = Peer /\ DOMAIN _rcpt_counts = Mailbox
    /\ DOMAIN judged = Connection /\ \A c \in Connection : CallTyped(judged[c], calls)

\* No two calls have a number together
CallsApart ==
    \A c, d \in Connection : c # d /\ judged[c] # Unused /\ judged[d] # Unused => judged[c].number # judged[d].number

\* A call comes to each window once, and to that of the mailbox when the peer has let it in
Progress(j) ==
    /\ j.at = "peer" => \A e \in log : e.call # j.number
    /\ j.at \in {"lookup", "mailbox"} =>
          /\ \A e \in log : e.window = "mailbox" => e.call # j.number
          /\ \E f \in log : f.window = "peer" /\ f.call = j.number /\ f.answer

RateInv ==
    /\ RateTyped /\ CallsApart /\ WindowsHold
    /\ \A w \in WindowKind : \A k \in KeysOf(w) : WindowInv(w, k)
    /\ \A c \in Connection : Progress(judged[c])

LEMMA LimitsAreNumbers == Hour \in Nat /\ \A w \in WindowKind : LimitOf(w) \in Nat
BY RateAssumption DEF LimitOf, WindowKind

LEMMA PopsWhatIsOld ==
    ASSUME NEW times \in Seq(Nat), NEW cutoff \in Int, NEW n \in 0 .. Len(times), SplitAt(times, cutoff, n)
    PROVE  Popped(times, cutoff) = SubSeq(times, n + 1, Len(times))
<1> DEFINE Stops(i) == (\A j \in 1 .. i : times[j] < cutoff) /\ (i = Len(times) \/ times[i + 1] >= cutoff)
<1>1. Stops(n)
  BY DEF SplitAt
<1>2. ASSUME NEW i \in 0 .. Len(times), Stops(i) PROVE i = n
  <2>1. ~(i < n)
    <3> SUFFICES ASSUME i < n PROVE FALSE
      OBVIOUS
    <3>1. i + 1 \in 1 .. n /\ i + 1 \in 1 .. Len(times) /\ i # Len(times)
      OBVIOUS
    <3>2. times[i + 1] < cutoff /\ times[i + 1] >= cutoff /\ times[i + 1] \in Nat
      BY <1>2, <3>1 DEF SplitAt
    <3> QED
      BY <3>2
  <2>2. ~(n < i)
    <3> SUFFICES ASSUME n < i PROVE FALSE
      OBVIOUS
    <3>1. n + 1 \in 1 .. i /\ n + 1 \in n + 1 .. Len(times) /\ n + 1 \in 1 .. Len(times)
      OBVIOUS
    <3>2. times[n + 1] < cutoff /\ times[n + 1] >= cutoff /\ times[n + 1] \in Nat
      BY <1>2, <3>1 DEF SplitAt
    <3> QED
      BY <3>2
  <2> QED
    BY <2>1, <2>2
<1>3. (CHOOSE i \in 0 .. Len(times) : Stops(i)) = n
  <2> HIDE DEF Stops
  <2> QED
    BY <1>1, <1>2
<1> QED
  BY <1>3 DEF Popped

LEMMA SinceIsFinite == ASSUME NEW S, IsFiniteSet(S), NEW t PROVE IsFiniteSet(Since(S, t)) /\ Cardinality(Since(S, t)) \in Nat
<1>1. Since(S, t) \in SUBSET S
  BY DEF Since
<1> QED
  BY <1>1, FS_Subset, FS_CardinalityType

(* Taking off the left what is older than an hour loses nothing that counts. *)
LEMMA PoppedCounts ==
    ASSUME NEW times \in Seq(Nat), NEW S, Counted(times, S), clock \in Nat, NEW left, left = _count_within_window(times)
    PROVE  /\ left \in Seq(Nat) /\ Len(left) <= Len(times) /\ Counted(left, S)
           /\ Cardinality(Since(S, clock - Hour)) = Len(left)
           /\ \A i \in 1 .. Len(left) : \E j \in 1 .. Len(times) : left[i] = times[j]
<1> DEFINE cutoff == clock - Hour
<1>1. cutoff \in Int /\ Hour \in Nat
  BY LimitsAreNumbers
<1>2. PICK m \in 0 .. Len(times) : SplitAt(times, cutoff, m) /\ Cardinality(Since(S, cutoff)) = Len(times) - m
  BY <1>1 DEF Counted
<1>3. left = SubSeq(times, m + 1, Len(times))
  BY <1>1, <1>2, PopsWhatIsOld DEF _count_within_window
<1>4. Len(times) \in Nat /\ left \in Seq(Nat) /\ Len(left) = Len(times) - m /\ \A i \in 1 .. Len(left) : left[i] = times[i + m]
  <2>1. Len(times) \in Nat /\ m + 1 \in 1 .. Len(times) + 1
    OBVIOUS
  <2> QED
    <3>1. m \in Int /\ Len(times) \in Int /\ m + 1 \in Int /\ \A i \in m + 1 .. Len(times) : times[i] \in Nat
      BY <2>1
    <3>2. left \in Seq(Nat) /\ Len(left) = (IF m + 1 <= Len(times) THEN Len(times) - (m + 1) + 1 ELSE 0)
      BY <1>3, <3>1, SubSeqProperties
    <3>3. \A i \in 1 .. Len(times) - (m + 1) + 1 : left[i] = times[(m + 1) + i - 1]
      BY <1>3, <3>1, SubSeqProperties
    <3>4. Len(left) = Len(times) - m
      BY <2>1, <3>2
    <3>5. ASSUME NEW i \in 1 .. Len(left) PROVE left[i] = times[i + m]
      <4>1. i \in 1 .. Len(times) - (m + 1) + 1 /\ (m + 1) + i - 1 = i + m
        BY <2>1, <3>4
      <4> QED
        BY <3>3, <4>1
    <3> QED
      BY <2>1, <3>2, <3>4, <3>5
<1>5. Counted(left, S)
  <2> SUFFICES ASSUME NEW t \in Int, t >= cutoff
               PROVE  \E n \in 0 .. Len(left) : SplitAt(left, t, n) /\ Cardinality(Since(S, t)) = Len(left) - n
    BY DEF Counted
  <2>1. PICK n \in 0 .. Len(times) : SplitAt(times, t, n) /\ Cardinality(Since(S, t)) = Len(times) - n
    BY DEF Counted
  <2>2. n >= m
    <3> SUFFICES ASSUME n < m PROVE FALSE
      OBVIOUS
    <3>1. n + 1 \in 1 .. m /\ n + 1 \in n + 1 .. Len(times) /\ n + 1 \in 1 .. Len(times)
      BY <1>4
    <3>2. times[n + 1] < cutoff /\ times[n + 1] >= t /\ times[n + 1] \in Nat
      BY <1>2, <2>1, <3>1 DEF SplitAt
    <3> QED
      BY <1>1, <3>2
  <2>3. n - m \in 0 .. Len(left) /\ Len(times) - n = Len(left) - (n - m)
    BY <1>4, <2>2
  <2>4. SplitAt(left, t, n - m)
    <3>1. ASSUME NEW i \in 1 .. n - m PROVE left[i] < t
      <4>1. i + m \in 1 .. n /\ i \in 1 .. Len(left)
        BY <1>4
      <4> QED
        BY <1>4, <2>1, <4>1 DEF SplitAt
    <3>2. ASSUME NEW i \in (n - m) + 1 .. Len(left) PROVE left[i] >= t
      <4>1. Len(left) = Len(times) - m /\ Len(times) \in Nat
        BY <1>4
      <4>2. i \in Int /\ i >= (n - m) + 1 /\ i <= Len(left)
        BY <4>1
      <4>3. i + m >= n + 1 /\ i + m <= Len(times) /\ i >= 1
        BY <2>2, <4>1, <4>2
      <4>4. i + m \in n + 1 .. Len(times) /\ i \in 1 .. Len(left)
        BY <4>1, <4>2, <4>3
      <4> QED
        BY <1>4, <2>1, <4>4 DEF SplitAt
    <3> QED
      BY <3>1, <3>2 DEF SplitAt
  <2> QED
    BY <2>1, <2>3, <2>4
<1>6. \A i \in 1 .. Len(left) : i + m \in 1 .. Len(times)
  BY <1>4
<1>7. \A i \in 1 .. Len(left) : \E j \in 1 .. Len(times) : left[i] = times[j]
  BY <1>4, <1>6
<1>8. Cardinality(Since(S, clock - Hour)) = Len(left) /\ Len(left) <= Len(times)
  BY <1>2, <1>4
<1> QED
  BY <1>4, <1>5, <1>7, <1>8

(* A new entry counts from the time it is made. *)
LEMMA AppendedCounts ==
    ASSUME NEW times \in Seq(Nat), NEW S, IsFiniteSet(S), NEW e, e \notin S, clock \in Nat, e.at = clock,
           \A i \in 1 .. Len(times) : times[i] <= clock, \A f \in S : f.at \in Nat /\ f.at <= clock,
           Counted(times, S)
    PROVE  Counted(Append(times, clock), S \cup {e})
<1> DEFINE longer == Append(times, clock)
<1>1. Len(times) \in Nat /\ longer \in Seq(Nat) /\ Len(longer) = Len(times) + 1
      /\ (\A i \in 1 .. Len(times) : longer[i] = times[i] /\ longer[i] \in Nat) /\ longer[Len(times) + 1] = clock
  OBVIOUS
<1> HIDE DEF longer
<1> SUFFICES ASSUME NEW t \in Int, t >= clock - Hour
             PROVE  \E n \in 0 .. Len(longer) : SplitAt(longer, t, n) /\ Cardinality(Since(S \cup {e}, t)) = Len(longer) - n
  BY DEF Counted, longer
<1>2. PICK n \in 0 .. Len(times) : SplitAt(times, t, n) /\ Cardinality(Since(S, t)) = Len(times) - n
  BY DEF Counted
<1>3. CASE t <= clock
  <2>1. Since(S \cup {e}, t) = Since(S, t) \cup {e} /\ e \notin Since(S, t)
    BY <1>3 DEF Since
  <2>2. Cardinality(Since(S \cup {e}, t)) = Cardinality(Since(S, t)) + 1
    BY <2>1, SinceIsFinite, FS_AddElement
  <2>3. ASSUME NEW i \in n + 1 .. Len(longer) PROVE longer[i] >= t
    <3>1. CASE i \in 1 .. Len(times)
      BY <1>1, <1>2, <3>1 DEF SplitAt
    <3>2. CASE i = Len(times) + 1
      BY <1>1, <1>3, <3>2
    <3> QED
      BY <1>1, <3>1, <3>2
  <2>4. SplitAt(longer, t, n)
    <3>1. ASSUME NEW i \in 1 .. n PROVE longer[i] < t
      <4>1. i \in 1 .. Len(times)
        BY <1>1
      <4> QED
        BY <1>1, <1>2, <4>1 DEF SplitAt
    <3> QED
      BY <2>3, <3>1 DEF SplitAt
  <2>5. Cardinality(Since(S \cup {e}, t)) = Len(longer) - n /\ n \in 0 .. Len(longer)
    BY <1>1, <1>2, <2>2
  <2> QED
    BY <2>4, <2>5
<1>4. CASE t > clock
  <2>1. Since(S \cup {e}, t) = {}
    BY <1>4 DEF Since
  <2>2. \A i \in 1 .. Len(longer) : longer[i] < t
    <3> SUFFICES ASSUME NEW i \in 1 .. Len(longer) PROVE longer[i] < t
      OBVIOUS
    <3>1. CASE i \in 1 .. Len(times)
      <4>1. longer[i] <= clock /\ longer[i] \in Nat
        BY <1>1, <3>1
      <4> QED
        BY <1>4, <4>1
    <3>2. CASE i = Len(times) + 1
      BY <1>1, <1>4, <3>2
    <3> QED
      BY <1>1, <3>1, <3>2
  <2>3. Cardinality(Since(S \cup {e}, t)) = Len(longer) - Len(longer)
    <3>1. Cardinality(Since(S \cup {e}, t)) = 0
      BY <2>1, FS_EmptySet
    <3>2. Len(longer) - Len(longer) = 0
      BY <1>1
    <3> QED
      BY <3>1, <3>2
  <2>4. \A i \in Len(longer) + 1 .. Len(longer) : longer[i] >= t
    BY <1>1
  <2>5. SplitAt(longer, t, Len(longer))
    BY <2>2, <2>4 DEF SplitAt
  <2> QED
    BY <1>1, <2>3, <2>5
<1>5. t <= clock \/ t > clock
  OBVIOUS
<1> QED
  BY <1>3, <1>4, <1>5

(* One look into a window, with the entry it leaves *)

\* Call c comes to window w of key k and gets the entry e of the history
Judges(w, k, e) ==
    LET times == _count_within_window(Times(w, k))
    IN  /\ clock' = clock /\ e \notin log /\ log' = log \cup {e}
        /\ e.window = w /\ e.key = k /\ e.at = clock /\ e.answer = (Len(times) < LimitOf(w))
        /\ Times(w, k)' = IF e.answer THEN Append(times, clock) ELSE times
        /\ \A v \in WindowKind : \A l \in KeysOf(v) : v # w \/ l # k => Times(v, l)' = Times(v, l)

LEMMA JudgedWindow ==
    ASSUME RateTyped, NEW w \in WindowKind, NEW k \in KeysOf(w), NEW e, Judges(w, k, e), WindowInv(w, k)
    PROVE  /\ WindowInv(w, k)'
           /\ e.answer <=> Cardinality(Since(Accepted(w, k), clock - Hour)) < LimitOf(w)
           /\ ~e.answer => Cardinality(Since(Accepted(w, k), clock - Hour)) = LimitOf(w)
<1> DEFINE S == Accepted(w, k)
           left == _count_within_window(Times(w, k))
           after == Times(w, k)'
<1>1. Times(w, k) \in Seq(Nat) /\ Counted(Times(w, k), S) /\ clock \in Nat /\ Len(Times(w, k)) <= LimitOf(w)
      /\ \A i \in 1 .. Len(Times(w, k)) : Times(w, k)[i] <= clock
  BY DEF WindowInv, RateTyped
<1>2. S \in SUBSET log /\ IsFiniteSet(S) /\ \A f \in S : f.at \in Nat /\ f.at <= clock
  <2>1. S \in SUBSET log /\ IsFiniteSet(log)
    BY DEF Accepted, RateTyped, LogTyped
  <2> QED
    BY <2>1, FS_Subset DEF RateTyped, LogTyped
<1>3. /\ left \in Seq(Nat) /\ Len(left) <= Len(Times(w, k)) /\ Counted(left, S)
      /\ Cardinality(Since(S, clock - Hour)) = Len(left)
      /\ \A i \in 1 .. Len(left) : \E j \in 1 .. Len(Times(w, k)) : left[i] = Times(w, k)[j]
  <2> HIDE DEF S, left
  <2>1. left = _count_within_window(Times(w, k))
    BY DEF left
  <2> QED
    BY <1>1, <2>1, PoppedCounts
<1>4. e \notin log /\ log' = log \cup {e} /\ e.window = w /\ e.key = k /\ e.at = clock /\ clock' = clock
      /\ e.answer = (Len(left) < LimitOf(w)) /\ after = IF e.answer THEN Append(left, clock) ELSE left
  BY DEF Judges
<1>5. LimitOf(w) \in Nat /\ LimitOf(w)' = LimitOf(w)
  BY LimitsAreNumbers DEF LimitOf
<1>6. \A i \in 1 .. Len(left) : left[i] <= clock
  BY <1>1, <1>3
<1>7. Len(left) \in Nat /\ Len(Times(w, k)) \in Nat
  BY <1>1, <1>3
<1>8. Accepted(w, k)' = IF e.answer THEN S \cup {e} ELSE S
  BY <1>4 DEF Accepted
<1>9. \A times, T : Counted(times, T)' <=> Counted(times, T)
  BY <1>4 DEF Counted
<1> HIDE DEF S, left, after
<1>10. CASE e.answer
  <2>1. after = Append(left, clock) /\ Accepted(w, k)' = S \cup {e} /\ Len(left) < LimitOf(w)
    BY <1>4, <1>8, <1>10
  <2>2. Counted(after, S \cup {e})
    <3>1. e \notin S
      BY <1>2, <1>4
    <3> QED
      BY <1>1, <1>2, <1>3, <1>4, <1>6, <2>1, <3>1, AppendedCounts
  <2>3. Len(after) = Len(left) + 1 /\ after \in Seq(Nat) /\ \A i \in 1 .. Len(after) : after[i] <= clock
    BY <1>1, <1>3, <1>6, <1>7, <2>1
  <2>4. WindowInv(w, k)'
    BY <1>4, <1>5, <1>7, <1>9, <2>1, <2>2, <2>3 DEF WindowInv, after
  <2> QED
    BY <1>3, <1>10, <2>1, <2>4 DEF S
<1>11. CASE ~e.answer
  <2>1. after = left /\ Accepted(w, k)' = S /\ ~(Len(left) < LimitOf(w))
    BY <1>4, <1>8, <1>11
  <2>2. Len(left) = LimitOf(w)
    BY <1>1, <1>3, <1>5, <1>7, <2>1
  <2>3. WindowInv(w, k)'
    BY <1>3, <1>4, <1>5, <1>6, <1>7, <1>9, <2>1, <2>2 DEF WindowInv, after
  <2> QED
    BY <1>3, <1>11, <2>1, <2>2, <2>3 DEF S
<1> QED
  BY <1>10, <1>11

LEMMA JudgedWindows ==
    ASSUME RateTyped, NEW w \in WindowKind, NEW k \in KeysOf(w), NEW e, Judges(w, k, e),
           \A v \in WindowKind : \A l \in KeysOf(v) : WindowInv(v, l)
    PROVE  \A v \in WindowKind : \A l \in KeysOf(v) : WindowInv(v, l)'
<1> SUFFICES ASSUME NEW v \in WindowKind, NEW l \in KeysOf(v) PROVE WindowInv(v, l)'
  OBVIOUS
<1>1. CASE v = w /\ l = k
  BY <1>1, JudgedWindow
<1>2. CASE v # w \/ l # k
  <2>1. Times(v, l)' = Times(v, l) /\ Accepted(v, l)' = Accepted(v, l) /\ clock' = clock
    BY <1>2 DEF Judges, Accepted
  <2>2. LimitOf(v)' = LimitOf(v)
    BY DEF LimitOf
  <2>3. Counted(Times(v, l), Accepted(v, l)) => Counted(Times(v, l), Accepted(v, l))'
    BY <2>1 DEF Counted
  <2>4. WindowInv(v, l)
    OBVIOUS
  <2> QED
    BY <2>1, <2>2, <2>3, <2>4 DEF WindowInv
<1> QED
  BY <1>1, <1>2

Limited(e) == e.answer => Cardinality(Let(e.window, e.key, e.at, e.at + Hour)) <= LimitOf(e.window)

UsedUp(e) == ~e.answer => Cardinality(Let(e.window, e.key, e.at - Hour, e.at)) = LimitOf(e.window)

(* What a window holds bounds what the history says of the hour after each of its entries. *)
WindowsBound ==
    LogTyped /\ clock \in Nat /\ (\A w \in WindowKind : \A k \in KeysOf(w) : WindowInv(w, k)) =>
        \A e \in log : e.at >= clock - Hour => Limited(e)

LEMMA EntryLimited == WindowsBound
<1> SUFFICES ASSUME LogTyped, clock \in Nat, \A w \in WindowKind : \A k \in KeysOf(w) : WindowInv(w, k),
                    NEW e \in log, e.at >= clock - Hour
             PROVE  Limited(e)
  BY DEF WindowsBound
<1>0. WindowInv(e.window, e.key)
  BY DEF LogTyped
<1> DEFINE w == e.window
           S == Accepted(e.window, e.key)
           times == Times(e.window, e.key)
<1>1. e.at \in Nat /\ times \in Seq(Nat) /\ Len(times) <= LimitOf(e.window) /\ Counted(times, S)
      /\ IsFiniteSet(log)
  BY <1>0 DEF LogTyped, WindowInv
<1>2. PICK n \in 0 .. Len(times) : Cardinality(Since(S, e.at)) = Len(times) - n
  BY <1>1 DEF Counted
<1>3. Let(e.window, e.key, e.at, e.at + Hour) \in SUBSET Since(S, e.at)
  BY DEF Let, Since, Accepted
<1>4. IsFiniteSet(Since(S, e.at)) /\ S \in SUBSET log
  <2>1. S \in SUBSET log
    BY DEF Accepted
  <2> QED
    BY <1>1, <2>1, FS_Subset, SinceIsFinite
<1>5. Cardinality(Let(e.window, e.key, e.at, e.at + Hour)) <= Cardinality(Since(S, e.at))
      /\ Cardinality(Let(e.window, e.key, e.at, e.at + Hour)) \in Nat
  BY <1>3, <1>4, FS_Subset, FS_CardinalityType
<1>6. Len(times) \in Nat /\ LimitOf(e.window) \in Nat
  BY <1>1, RateAssumption DEF LimitOf
<1> HIDE DEF S, times
<1>7. Cardinality(Let(e.window, e.key, e.at, e.at + Hour)) <= LimitOf(e.window)
  BY <1>1, <1>2, <1>5, <1>6
<1> QED
  BY <1>7 DEF Limited

LEMMA HistoryHolds ==
    ASSUME RateTyped, LogTyped', NEW w \in WindowKind, NEW k \in KeysOf(w), NEW e, Judges(w, k, e),
           \A v \in WindowKind : \A l \in KeysOf(v) : WindowInv(v, l),
           \A f \in log : Limited(f) /\ UsedUp(f)
    PROVE  \A f \in log' : Limited(f)' /\ UsedUp(f)'
<1>1. clock' = clock /\ clock \in Nat /\ e \notin log /\ log' = log \cup {e} /\ e.window = w /\ e.key = k /\ e.at = clock
      /\ e.answer \in BOOLEAN
  BY DEF Judges, RateTyped, LogTyped
<1>2. \A v \in WindowKind : \A l \in KeysOf(v) : WindowInv(v, l)'
  BY JudgedWindows
<1>3. Hour \in Nat /\ LimitOf(w) \in Nat
  BY LimitsAreNumbers
<1>4. ASSUME NEW f \in log' PROVE Limited(f)'
  <2>1. f.at \in Nat /\ f.at <= clock /\ f.window \in WindowKind /\ f.key \in KeysOf(f.window)
    BY <1>1, <1>4 DEF LogTyped, KeysOf
  <2>2. CASE f.at >= clock - Hour
    <3>1. WindowsBound'
      BY EntryLimited, PTL
    <3>2. \A g \in log' : g.at >= clock' - Hour => Limited(g)'
      BY <1>1, <1>2, <3>1 DEF WindowsBound
    <3> QED
      BY <1>1, <1>4, <2>2, <3>2
  <2>3. CASE f.at < clock - Hour
    <3>1. f \in log /\ f.at + Hour < clock
      BY <1>1, <1>3, <1>4, <2>1, <2>3
    <3>2. Let(f.window, f.key, f.at, f.at + Hour)' = Let(f.window, f.key, f.at, f.at + Hour)
      BY <1>1, <1>3, <2>1, <3>1 DEF Let
    <3> QED
      BY <3>1, <3>2 DEF Limited, LimitOf
  <2> QED
    BY <1>1, <1>3, <2>1, <2>2, <2>3
<1>5. ASSUME NEW f \in log' PROVE UsedUp(f)'
  <2>1. f.at \in Nat /\ f.at <= clock /\ f.window \in WindowKind /\ f.key \in KeysOf(f.window)
    BY <1>1, <1>5 DEF LogTyped, KeysOf
  <2>2. /\ e.answer <=> Cardinality(Since(Accepted(w, k), clock - Hour)) < LimitOf(w)
        /\ ~e.answer => Cardinality(Since(Accepted(w, k), clock - Hour)) = LimitOf(w)
    BY JudgedWindow
  <2>3. Let(w, k, clock - Hour, clock) = Since(Accepted(w, k), clock - Hour)
    BY DEF Let, Since, Accepted, RateTyped, LogTyped
  <2>4. CASE f = e
    <3> SUFFICES ASSUME ~e.answer PROVE Cardinality(Let(e.window, e.key, e.at - Hour, e.at)') = LimitOf(e.window)
      BY <2>4 DEF UsedUp, LimitOf
    <3>1. Let(e.window, e.key, e.at - Hour, e.at)' = Let(w, k, clock - Hour, clock)
      BY <1>1 DEF Let
    <3> QED
      BY <1>1, <2>2, <2>3, <3>1
  <2>5. CASE f \in log
    <3> SUFFICES ASSUME ~f.answer
                 PROVE  Let(f.window, f.key, f.at - Hour, f.at)' = Let(f.window, f.key, f.at - Hour, f.at)
      BY <2>5 DEF UsedUp, LimitOf
    <3>1. CASE f.at < clock \/ ~e.answer \/ f.window # w \/ f.key # k
      BY <1>1, <1>3, <2>1, <3>1 DEF Let
    <3>2. CASE f.at = clock /\ e.answer /\ f.window = w /\ f.key = k
      <4>1. Cardinality(Let(w, k, clock - Hour, clock)) = LimitOf(w)
        BY <2>5, <3>2 DEF UsedUp
      <4> QED
        BY <1>3, <2>2, <2>3, <3>2, <4>1
    <3> QED
      BY <1>1, <2>1, <3>1, <3>2
  <2> QED
    BY <1>1, <1>5, <2>4, <2>5
<1> QED
  BY <1>4, <1>5

-----------------------------------------------------------------------------
(* The steps *)

LEMMA WindowsStart == WindowsInit => RateInv
<1> SUFFICES ASSUME WindowsInit PROVE RateInv
  OBVIOUS
<1>1. log = {} /\ clock = 0 /\ calls = 0
  BY DEF WindowsInit
<1>2. RateTyped
  BY <1>1, RateAssumption, FS_EmptySet DEF WindowsInit, RateTyped, LogTyped, CallTyped
<1>3. ASSUME NEW w \in WindowKind, NEW k \in KeysOf(w) PROVE WindowInv(w, k)
  <2>1. Times(w, k) = <<>>
    BY DEF WindowsInit, Times, KeysOf, WindowKind
  <2>2. Accepted(w, k) = {}
    BY <1>1 DEF Accepted
  <2>3. Counted(<<>>, {})
    <3>1. \A t : Cardinality(Since({}, t)) = 0 /\ SplitAt(<<>>, t, 0)
      BY FS_EmptySet DEF Since, SplitAt
    <3> QED
      BY <3>1 DEF Counted
  <2> QED
    BY <2>1, <2>2, <2>3, LimitsAreNumbers DEF WindowInv
<1>4. CallsApart /\ \A c \in Connection : Progress(judged[c])
  BY DEF WindowsInit, CallsApart, Progress, Unused
<1> QED
  BY <1>1, <1>2, <1>3, <1>4 DEF RateInv, WindowsHold

\* A step that leaves windows and history as they are, at a time that has passed on perhaps
LEMMA WindowsWait ==
    ASSUME RateInv, UNCHANGED <<_ip_counts, _rcpt_counts, log>>, clock' \in Nat, clock' >= clock
    PROVE  WindowsHold' /\ \A w \in WindowKind : \A k \in KeysOf(w) : WindowInv(w, k)'
<1>1. WindowsHold'
  BY DEF RateInv, WindowsHold, Let, LimitOf
<1>2. ASSUME NEW w \in WindowKind, NEW k \in KeysOf(w) PROVE WindowInv(w, k)'
  <2>1. WindowInv(w, k) /\ clock \in Nat /\ Hour \in Nat
    BY LimitsAreNumbers DEF RateInv, RateTyped
  <2>2. Times(w, k)' = Times(w, k) /\ Accepted(w, k)' = Accepted(w, k) /\ LimitOf(w)' = LimitOf(w)
    BY DEF Times, Accepted, LimitOf
  <2>3. Counted(Times(w, k), Accepted(w, k))'
    <3>1. ASSUME NEW t \in Int, t >= clock' - Hour PROVE t >= clock - Hour
      <4>1. \A x \in Nat, y \in Nat, h \in Nat, z \in Int : y >= x /\ z >= y - h => z >= x - h
        OBVIOUS
      <4> QED
        BY <2>1, <3>1, <4>1
    <3>2. Counted(Times(w, k), Accepted(w, k))
      BY <2>1 DEF WindowInv
    <3> QED
      BY <2>2, <3>1, <3>2 DEF Counted
  <2>4. \A i \in 1 .. Len(Times(w, k)) : Times(w, k)[i] <= clock'
    BY <2>1 DEF WindowInv
  <2> QED
    BY <2>1, <2>2, <2>3, <2>4 DEF WindowInv
<1> QED
  BY <1>1, <1>2

LEMMA Waits == RateInv /\ UNCHANGED rateVars => RateInv'
<1> SUFFICES ASSUME RateInv, UNCHANGED rateVars PROVE RateInv'
  OBVIOUS
<1>1. clock' = clock /\ clock \in Nat /\ UNCHANGED <<calls, judged, log, _ip_counts, _rcpt_counts>>
  BY DEF rateVars, RateInv, RateTyped
<1>2. WindowsHold' /\ \A w \in WindowKind : \A k \in KeysOf(w) : WindowInv(w, k)'
  BY <1>1, WindowsWait
<1> QED
  BY <1>1, <1>2 DEF RateInv, RateTyped, LogTyped, CallTyped, CallsApart, Progress

LEMMA CallStarts ==
    ASSUME RateInv, NEW c \in Connection, NEW p \in Peer, NEW m \in Mailbox, RcptTo(c, p, m)
    PROVE  RateInv'
<1> DEFINE call == [at |-> "peer", peer |-> p, mailbox |-> m, number |-> calls + 1]
<1>1. /\ calls < MaxCalls /\ calls' = calls + 1 /\ judged' = [judged EXCEPT ![c] = call]
      /\ UNCHANGED <<clock, _ip_counts, _rcpt_counts, log>>
  BY DEF RcptTo
<1>2. calls \in Nat /\ MaxCalls \in Nat /\ clock \in Nat /\ DOMAIN judged = Connection
  BY RateAssumption DEF RateInv, RateTyped
<1>3. CallTyped(call, calls') /\ call.at = "peer" /\ call.number = calls + 1
  <2>1. calls + 1 \in 1 .. calls'
    BY <1>1, <1>2
  <2> QED
    BY <2>1 DEF CallTyped
<1> HIDE DEF call
<1>4. \A d \in Connection : judged'[d] = IF d = c THEN call ELSE judged[d]
  BY <1>1, <1>2
<1>5. LogTyped'
  BY <1>1, <1>2 DEF RateInv, RateTyped, LogTyped
<1>6. ASSUME NEW d \in Connection PROVE CallTyped(judged[d], calls)'
  <2>1. 1 .. calls \subseteq 1 .. calls'
    BY <1>1, <1>2
  <2>2. CallTyped(judged[d], calls) => CallTyped(judged[d], calls')
    BY <2>1 DEF CallTyped
  <2>3. CallTyped(judged'[d], calls')
    BY <1>3, <1>4, <2>2 DEF RateInv, RateTyped
  <2> QED
    BY <2>3 DEF CallTyped
<1>7. RateTyped'
  BY <1>1, <1>2, <1>5, <1>6 DEF RateInv, RateTyped
<1>8. \A d \in Connection : judged[d] # Unused => judged[d].number \in 1 .. calls
  BY DEF RateInv, RateTyped, CallTyped
<1>9. CallsApart'
  BY <1>2, <1>3, <1>4, <1>8 DEF RateInv, CallsApart
<1>10. ASSUME NEW d \in Connection PROVE Progress(judged[d])'
  <2>1. \A e \in log : e.call \in 1 .. calls
    BY DEF RateInv, RateTyped, LogTyped
  <2>2. \A e \in log : e.call # calls + 1
    BY <1>2, <2>1
  <2>3. CASE d = c
    BY <1>1, <1>3, <1>4, <2>2, <2>3 DEF Progress
  <2>4. CASE d # c
    BY <1>1, <1>4, <2>4 DEF RateInv, Progress
  <2> QED
    BY <2>3, <2>4
<1> QED
  BY <1>1, <1>2, <1>7, <1>9, <1>10, WindowsWait DEF RateInv

\* The entry of call c in window w; it goes on to "lookup" or is answered
LEMMA CallJudged ==
    ASSUME RateInv, NEW c \in Connection, NEW w \in WindowKind, NEW k \in KeysOf(w), NEW e, Judges(w, k, e),
           judged[c] # Unused, judged[c].at = w, e.call = judged[c].number,
           DOMAIN _ip_counts' = Peer, DOMAIN _rcpt_counts' = Mailbox, calls' = calls,
           judged' = [judged EXCEPT ![c] = IF w = "peer" /\ e.answer THEN [judged[c] EXCEPT !.at = "lookup"] ELSE Unused]
    PROVE  RateInv'
<1> DEFINE next == IF w = "peer" /\ e.answer THEN [judged[c] EXCEPT !.at = "lookup"] ELSE Unused
<1>1. /\ clock' = clock /\ log' = log \cup {e} /\ e.window = w /\ e.key = k /\ e.at = clock /\ e.answer \in BOOLEAN
      /\ clock \in Nat /\ DOMAIN judged = Connection
  BY DEF Judges, RateInv, RateTyped
<1>2. judged[c] \in [at : {"peer", "lookup", "mailbox"}, peer : Peer, mailbox : Mailbox, number : 1 .. calls]
  BY DEF RateInv, RateTyped, CallTyped
<1>3. next = Unused \/ (w = "peer" /\ e.answer /\ next.at = "lookup" /\ next.number = judged[c].number /\ CallTyped(next, calls))
  BY <1>2 DEF CallTyped
<1>4. \A d \in Connection : judged'[d] = IF d = c THEN next ELSE judged[d]
  BY <1>1
<1> HIDE DEF next
<1>5. LogTyped'
  <2>1. IsFiniteSet(log')
    BY <1>1, FS_AddElement DEF RateInv, RateTyped, LogTyped
  <2>2. ASSUME NEW f \in log' PROVE f.window \in WindowKind /\ f.key \in KeysOf(f.window) /\ f.answer \in BOOLEAN
                                    /\ f.at \in Nat /\ f.at <= clock /\ f.call \in 1 .. calls
    BY <1>1, <1>2, <2>2 DEF RateInv, RateTyped, LogTyped
  <2> QED
    BY <1>1, <2>1, <2>2 DEF LogTyped, KeysOf
<1>6. RateTyped'
  <2>1. \A d \in Connection : CallTyped(judged[d], calls)'
    BY <1>3, <1>4 DEF RateInv, RateTyped, CallTyped
  <2> QED
    BY <1>1, <1>5, <2>1 DEF RateInv, RateTyped
<1>7. \A v \in WindowKind : \A l \in KeysOf(v) : WindowInv(v, l)'
  BY JudgedWindows DEF RateInv
<1>8. CallsApart'
  BY <1>3, <1>4 DEF RateInv, CallsApart
<1>9. ASSUME NEW d \in Connection PROVE Progress(judged[d])'
  <2>1. CASE d = c
    <3>1. next.at = "lookup" => /\ \A f \in log' : f.window = "mailbox" => f.call # next.number
                                /\ e \in log' /\ e.window = "peer" /\ e.call = next.number /\ e.answer
      <4>1. Progress(judged[c])
        BY DEF RateInv
      <4> QED
        BY <1>1, <1>3, <4>1 DEF Progress, Unused
    <3>2. next.at \in {"idle", "lookup"}
      BY <1>3 DEF Unused
    <3> QED
      BY <1>4, <2>1, <3>1, <3>2 DEF Progress
  <2>2. CASE d # c
    <3>1. judged'[d] = judged[d] /\ Progress(judged[d])
      BY <1>4, <2>2 DEF RateInv
    <3>2. judged[d].at \in {"peer", "lookup", "mailbox"} => e.call # judged[d].number
      BY <2>2 DEF RateInv, CallsApart, Unused
    <3> QED
      BY <1>1, <3>1, <3>2 DEF Progress
  <2> QED
    BY <2>1, <2>2
<1>10. \A f \in log' : Limited(f)' /\ UsedUp(f)'
  <2>1. \A f \in log : Limited(f) /\ UsedUp(f)
    BY DEF RateInv, WindowsHold, Limited, UsedUp
  <2> QED
    BY <1>5, <2>1, HistoryHolds DEF RateInv
<1>11. ASSUME NEW f \in log', f.window = "mailbox" PROVE \E g \in log' : g.window = "peer" /\ g.call = f.call /\ g.answer
  <2>1. CASE f \in log
    BY <1>1, <1>11, <2>1 DEF RateInv, WindowsHold
  <2>2. CASE f = e
    <3>1. Progress(judged[c]) /\ judged[c].at = "mailbox"
      BY <1>1, <1>11, <2>2 DEF RateInv
    <3> QED
      BY <1>1, <2>2, <3>1 DEF Progress
  <2> QED
    BY <1>1, <1>11, <2>1, <2>2
<1>12. WindowsHold'
  BY <1>10, <1>11 DEF WindowsHold, Limited, UsedUp
<1> QED
  BY <1>6, <1>7, <1>8, <1>9, <1>12 DEF RateInv

LEMMA PeerStep == ASSUME RateInv, NEW c \in Connection, record_and_check_ip_rate(c) PROVE RateInv'
<1> DEFINE call == judged[c]
           times == _count_within_window(_ip_counts[call.peer])
<1>a. PICK k : k = call.peer
  OBVIOUS
<1>b. PICK e : e = Answered("peer", k, call, Len(times) < PerPeer)
  OBVIOUS
<1>1. call.at = "peer" /\ call # Unused /\ k \in Peer /\ Progress(call) /\ DOMAIN _ip_counts = Peer
  <2>1. call.at = "peer" /\ CallTyped(call, calls) /\ Progress(call) /\ DOMAIN _ip_counts = Peer
    BY DEF record_and_check_ip_rate, RateInv, RateTyped
  <2> QED
    BY <1>a, <2>1 DEF CallTyped, Unused
<1>2. /\ e.window = "peer" /\ e.key = k /\ e.at = clock /\ e.call = call.number
      /\ e.answer = (Len(times) < PerPeer)
  BY <1>b DEF Answered
<1>3. e \notin log
  BY <1>1, <1>2 DEF Progress
<1>4. "peer" \in WindowKind /\ k \in KeysOf("peer") /\ LimitOf("peer") = PerPeer
  BY <1>1 DEF WindowKind, KeysOf, LimitOf
<1>5. /\ _ip_counts' = [_ip_counts EXCEPT ![k] = IF e.answer THEN Append(times, clock) ELSE times]
      /\ judged' = [judged EXCEPT ![c] = IF e.answer THEN [call EXCEPT !.at = "lookup"] ELSE Unused]
      /\ log' = log \cup {e} /\ UNCHANGED <<clock, calls, _rcpt_counts>>
  BY <1>a, <1>b, <1>2 DEF record_and_check_ip_rate
<1>6. Judges("peer", k, e)
  <2>1. times = _count_within_window(Times("peer", k))
    BY <1>a DEF Times
  <2>2. Times("peer", k)' = IF e.answer THEN Append(times, clock) ELSE times
    BY <1>1, <1>5 DEF Times
  <2>3. \A v \in WindowKind : \A l \in KeysOf(v) : v # "peer" \/ l # k => Times(v, l)' = Times(v, l)
    BY <1>1, <1>5 DEF Times, KeysOf, WindowKind
  <2> HIDE DEF times
  <2> QED
    BY <1>2, <1>3, <1>4, <1>5, <2>1, <2>2, <2>3 DEF Judges
<1>7. DOMAIN _ip_counts' = Peer /\ DOMAIN _rcpt_counts' = Mailbox
  BY <1>5 DEF RateInv, RateTyped
<1> QED
  BY <1>1, <1>2, <1>4, <1>5, <1>6, <1>7, CallJudged

LEMMA MailboxStep == ASSUME RateInv, NEW c \in Connection, record_and_check_recipient_rate(c) PROVE RateInv'
<1> DEFINE call == judged[c]
           times == _count_within_window(_rcpt_counts[call.mailbox])
<1>a. PICK k : k = call.mailbox
  OBVIOUS
<1>b. PICK e : e = Answered("mailbox", k, call, Len(times) < PerMailbox)
  OBVIOUS
<1>1. call.at = "mailbox" /\ call # Unused /\ k \in Mailbox /\ Progress(call) /\ DOMAIN _rcpt_counts = Mailbox
  <2>1. call.at = "mailbox" /\ CallTyped(call, calls) /\ Progress(call) /\ DOMAIN _rcpt_counts = Mailbox
    BY DEF record_and_check_recipient_rate, RateInv, RateTyped
  <2> QED
    BY <1>a, <2>1 DEF CallTyped, Unused
<1>2. /\ e.window = "mailbox" /\ e.key = k /\ e.at = clock /\ e.call = call.number
      /\ e.answer = (Len(times) < PerMailbox)
  BY <1>b DEF Answered
<1>3. e \notin log
  BY <1>1, <1>2 DEF Progress
<1>4. "mailbox" \in WindowKind /\ k \in KeysOf("mailbox") /\ LimitOf("mailbox") = PerMailbox
  BY <1>1 DEF WindowKind, KeysOf, LimitOf
<1>5. /\ _rcpt_counts' = [_rcpt_counts EXCEPT ![k] = IF e.answer THEN Append(times, clock) ELSE times]
      /\ judged' = [judged EXCEPT ![c] = Unused]
      /\ log' = log \cup {e} /\ UNCHANGED <<clock, calls, _ip_counts>>
  BY <1>a, <1>b, <1>2 DEF record_and_check_recipient_rate
<1>6. Judges("mailbox", k, e)
  <2>1. times = _count_within_window(Times("mailbox", k))
    BY <1>a DEF Times
  <2>2. Times("mailbox", k)' = IF e.answer THEN Append(times, clock) ELSE times
    BY <1>1, <1>5 DEF Times
  <2>3. \A v \in WindowKind : \A l \in KeysOf(v) : v # "mailbox" \/ l # k => Times(v, l)' = Times(v, l)
    BY <1>1, <1>5 DEF Times, KeysOf, WindowKind
  <2> HIDE DEF times
  <2> QED
    BY <1>2, <1>3, <1>4, <1>5, <2>1, <2>2, <2>3 DEF Judges
<1>7. DOMAIN _ip_counts' = Peer /\ DOMAIN _rcpt_counts' = Mailbox
  BY <1>5 DEF RateInv, RateTyped
<1> QED
  BY <1>1, <1>2, <1>4, <1>5, <1>6, <1>7, CallJudged

LEMMA LookupStep == ASSUME RateInv, NEW c \in Connection, validate_for_smtp(c) PROVE RateInv'
<1> DEFINE next == IF judged[c].mailbox \in Known THEN [judged[c] EXCEPT !.at = "mailbox"] ELSE Unused
<1>1. judged[c].at = "lookup" /\ UNCHANGED <<clock, calls, _ip_counts, _rcpt_counts, log>>
      /\ judged' = [judged EXCEPT ![c] = next] /\ clock \in Nat /\ DOMAIN judged = Connection /\ CallTyped(judged[c], calls)
  BY DEF validate_for_smtp, RateInv, RateTyped
<1>2. next = Unused \/ (next.at = "mailbox" /\ next.number = judged[c].number /\ CallTyped(next, calls))
  BY <1>1 DEF CallTyped, Unused
<1>3. \A d \in Connection : judged'[d] = IF d = c THEN next ELSE judged[d]
  BY <1>1
<1> HIDE DEF next
<1>4. RateTyped'
  <2>1. \A d \in Connection : CallTyped(judged[d], calls)'
    BY <1>1, <1>2, <1>3 DEF RateInv, RateTyped, CallTyped
  <2> QED
    BY <1>1, <2>1 DEF RateInv, RateTyped, LogTyped
<1>5. CallsApart'
  BY <1>1, <1>2, <1>3 DEF RateInv, CallsApart, Unused
<1>6. \A d \in Connection : Progress(judged[d])'
  BY <1>1, <1>2, <1>3 DEF RateInv, Progress, Unused
<1> QED
  BY <1>1, <1>4, <1>5, <1>6, WindowsWait DEF RateInv

LEMMA TimePasses == ASSUME RateInv, Seconds PROVE RateInv'
<1>1. clock' = clock + 1 /\ clock < MaxClock /\ UNCHANGED <<calls, judged, log, _ip_counts, _rcpt_counts>>
      /\ clock \in Nat /\ MaxClock \in Nat
  BY RateAssumption DEF Seconds, RateInv, RateTyped
<1>2. WindowsHold' /\ \A w \in WindowKind : \A k \in KeysOf(w) : WindowInv(w, k)'
  BY <1>1, WindowsWait
<1>3. LogTyped'
  BY <1>1 DEF RateInv, RateTyped, LogTyped
<1> QED
  BY <1>1, <1>2, <1>3 DEF RateInv, RateTyped, CallTyped, CallsApart, Progress

LEMMA WindowsEmptied == ASSUME RateInv, ReceiverRestarts PROVE RateInv'
<1>1. log' = {} /\ clock' = clock /\ calls' = calls
  BY DEF ReceiverRestarts
<1>2. RateTyped'
  BY <1>1, FS_EmptySet DEF ReceiverRestarts, RateInv, RateTyped, LogTyped, CallTyped
<1>3. ASSUME NEW w \in WindowKind, NEW k \in KeysOf(w) PROVE WindowInv(w, k)'
  <2>1. Times(w, k)' = <<>>
    BY DEF ReceiverRestarts, Times, KeysOf, WindowKind
  <2>2. Accepted(w, k)' = {}
    BY <1>1 DEF Accepted
  <2>3. Counted(<<>>, {})'
    <3>1. \A t : Cardinality(Since({}, t)) = 0 /\ SplitAt(<<>>, t, 0)
      BY FS_EmptySet DEF Since, SplitAt
    <3> QED
      BY <3>1 DEF Counted
  <2> QED
    BY <2>1, <2>2, <2>3, LimitsAreNumbers DEF WindowInv, LimitOf
<1>4. CallsApart' /\ \A c \in Connection : Progress(judged[c])'
  BY DEF ReceiverRestarts, CallsApart, Progress, Unused
<1> QED
  BY <1>1, <1>2, <1>3, <1>4 DEF RateInv, WindowsHold

LEMMA RateStep == RateInv /\ [WindowsNext]_rateVars => RateInv'
BY CallStarts, PeerStep, LookupStep, MailboxStep, TimePasses, WindowsEmptied, Waits DEF WindowsNext

(* For any limits, peers, mailboxes, threads and times: no hour has more entries of a peer or a mailbox than its limit, only
   a window that is full of them puts off, and what comes to a mailbox has passed the window of its peer
   (_count_within_window, record_and_check_ip_rate, record_and_check_recipient_rate, validate_recipient). *)
THEOREM LimitsPerHour == RateSpec => []WindowsHold
<1>1. RateInv => WindowsHold
  BY DEF RateInv
<1> QED
  BY <1>1, WindowsStart, RateStep, PTL DEF RateSpec

(* The windows hold times, calls are somewhere between the windows. *)
THEOREM WindowsTypeCorrect == RateSpec => []WindowsTypeOK
<1>1. RateInv => WindowsTypeOK
  <2> SUFFICES ASSUME RateInv PROVE WindowsTypeOK
    OBVIOUS
  <2>1. clock \in 0 .. MaxClock /\ calls \in 0 .. MaxCalls /\ \A c \in Connection : CallTyped(judged[c], calls)
    BY DEF RateInv, RateTyped
  <2>2. \A c \in Connection : judged[c].at \in {"idle", "peer", "lookup", "mailbox"}
    BY <2>1 DEF CallTyped, Unused
  <2>3. ASSUME NEW w \in WindowKind, NEW k \in KeysOf(w) PROVE Times(w, k) \in Seq(0 .. MaxClock)
    <3>1. Times(w, k) \in Seq(Nat) /\ \A i \in 1 .. Len(Times(w, k)) : Times(w, k)[i] <= clock
      BY DEF RateInv, WindowInv
    <3> DEFINE times == Times(w, k)
    <3> HIDE DEF times
    <3>2. times \in Seq(Nat) => \A i \in 1 .. Len(times) : times[i] \in Nat
      OBVIOUS
    <3>3. MaxClock \in Nat
      BY RateAssumption
    <3>4. \A i \in 1 .. Len(times) : times[i] \in 0 .. MaxClock
      BY <2>1, <3>1, <3>2, <3>3 DEF times
    <3>5. times \in Seq(0 .. MaxClock)
      <4>1. times \in Seq(Nat) => times = [i \in 1 .. Len(times) |-> times[i]] /\ Len(times) \in Nat
        OBVIOUS
      <4>2. times \in [1 .. Len(times) -> 0 .. MaxClock] /\ Len(times) \in Nat
        BY <3>1, <3>4, <4>1 DEF times
      <4> QED
        BY <4>2, SeqDef
    <3> QED
      BY <3>5 DEF times
  <2>4. ASSUME NEW p \in Peer PROVE _ip_counts[p] \in Seq(0 .. MaxClock)
    BY <2>3 DEF WindowKind, KeysOf, Times
  <2>5. ASSUME NEW m \in Mailbox PROVE _rcpt_counts[m] \in Seq(0 .. MaxClock)
    BY <2>3 DEF WindowKind, KeysOf, Times
  <2> QED
    BY <2>1, <2>2, <2>4, <2>5 DEF WindowsTypeOK
<1> QED
  BY <1>1, WindowsStart, RateStep, PTL DEF RateSpec
=============================================================================
