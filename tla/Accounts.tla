------------------------------- MODULE Accounts -------------------------------
(***************************************************************************)
(* The operator's account: logins, password changes, pages and log-outs    *)
(* over one user row, the login throttle and cookies that carry the whole  *)
(* session.                                                                *)
(*                                                                         *)
(* Every request works on copies: of the row, which it loads before it     *)
(* decides and writes column by column later, and of the session, which it *)
(* got from the browser and gives back with its answer, in whatever order  *)
(* answers arrive.  The throttle is in memory and is asked before the      *)
(* first await and told after the last.                                    *)
(***************************************************************************)
EXTENDS Integers, Sequences, FiniteSets

CONSTANTS
  Browsers, NoBrowser,
  Addresses, NoAddress,         \* where logins come from
  Requests,                     \* requests that can be in flight at once
  Threshold, LockBase, LockMax, \* the lock-out of the account
  MaxAttempts, Window,          \* the limit of an address, and its window
  MaxTracked,                   \* addresses the throttle keeps
  Absolute, Idle,               \* the two lifetimes of a session
  MaxTime, MaxFailures, MaxSessions \* bounds of the model

ASSUME AccountsAssumption ==
  /\ IsFiniteSet(Requests)
  /\ NoBrowser \notin Browsers /\ NoAddress \notin Addresses
  /\ {Threshold, LockBase, LockMax, MaxAttempts} \subseteq Nat \ {0}
  /\ {Window, MaxTracked, Absolute, Idle} \subseteq Nat
  /\ {MaxTime, MaxFailures, MaxSessions} \subseteq Nat

VARIABLES
  now,       \* the clock
  account,   \* the committed user row
  attempts,  \* the throttle's buckets: times of failures
  tracked,   \* the addresses it holds a bucket for
  request,   \* progress of each request
  cookie,    \* the session each browser holds
  sessions,  \* how many sessions were started
  life,      \* when each was started, and last used (history)
  ahead      \* the requests that loaded the row before its lock (history)

vars == <<now, account, attempts, tracked, request, cookie, sessions, life, ahead>>

row == <<account, ahead>>
throttle == <<attempts, tracked>>
browser == <<cookie, sessions, life>>

Time == 0..MaxTime
Deadline == 0..(MaxTime + LockMax)
Never == 0   \* locked_until is NULL; a lock always ends later than 0

User == [failures : 0..MaxFailures, lockedUntil : Deadline]
Unlocked == [failures |-> 0, lockedUntil |-> Never]

Session == [sid : 1..MaxSessions, created : Time, seen : Time]
NoSession == [sid |-> 0, created |-> 0, seen |-> 0]

Kinds == {"login", "page", "change"}
Phases == {"idle", "sent", "admitted", "checking", "failing", "failed", "passing", "passed",
           "answered"}
Request == [kind : Kinds, phase : Phases, browser : Browsers \union {NoBrowser},
            address : Addresses \union {NoAddress},
            session : Session \union {NoSession},
            copy : User,        \* the row as loaded
            until : Deadline]   \* the lock it decided
NoRequest == [kind |-> "page", phase |-> "idle", browser |-> NoBrowser,
              address |-> NoAddress, session |-> NoSession,
              copy |-> Unlocked, until |-> Never]

TypeOK ==
  /\ now \in Time
  /\ account \in User
  /\ attempts \in [Addresses -> Seq(Time)] /\ tracked \in SUBSET Addresses
  /\ request \in [Requests -> Request]
  /\ \A r \in Requests : request[r].phase # "idle" => request[r].browser \in Browsers
  /\ \A r \in Requests : request[r].kind = "login" => request[r].address \in Addresses
  /\ cookie \in [Browsers -> Session \union {NoSession}]
  /\ sessions \in 0..MaxSessions
  /\ life \in [1..MaxSessions -> [opened : Time, used : Time]]
  /\ ahead \in SUBSET Requests

\* The row as the bootstrap created it.
Init ==
  /\ now = 0
  /\ account = Unlocked
  /\ attempts = [a \in Addresses |-> <<>>] /\ tracked = {}
  /\ request = [r \in Requests |-> NoRequest]
  /\ cookie = [b \in Browsers |-> NoSession]
  /\ sessions = 0 /\ life = [s \in 1..MaxSessions |-> [opened |-> 0, used |-> 0]]
  /\ ahead = {}

Becomes(r, new) == request' = [request EXCEPT ![r] = new]
Moves(r, phase) == Becomes(r, [request[r] EXCEPT !.phase = phase])
\* An answer that changed the session is on its way; any other is over.
Answers(r, session) ==
  Becomes(r, [NoRequest EXCEPT !.phase = "answered", !.browser = request[r].browser,
                               !.session = session])
Ends(r) == Becomes(r, NoRequest)

-----------------------------------------------------------------------------
(* The browser and the network. *)

\* A request leaves with the cookie its browser holds at that moment.  Bound:
\* no change and no login begins once MaxSessions have been started.
Send(r) ==
  /\ request[r].phase = "idle"
  /\ \E b \in Browsers, k \in Kinds \ {"login"} :
       /\ k = "change" => sessions < MaxSessions
       /\ Becomes(r, [NoRequest EXCEPT !.kind = k, !.phase = "sent", !.browser = b,
                                       !.session = cookie[b]])
  /\ UNCHANGED <<now, row, throttle, browser>>

\* The answer arrives, perhaps long after later ones, and sets the cookie.
Deliver(r) ==
  /\ request[r].phase = "answered"
  /\ cookie' = [cookie EXCEPT ![request[r].browser] = request[r].session]
  /\ Ends(r)
  /\ UNCHANGED <<now, row, throttle, sessions, life>>

\* The answer is lost.
DeliverNothing(r) ==
  /\ request[r].phase = "answered"
  /\ Ends(r)
  /\ UNCHANGED <<now, row, throttle, browser>>

-----------------------------------------------------------------------------
(* Middleware and gate. *)

\* CSRFMiddleware refuses a form whose token is not its session's, or has none.
Reject(r) ==
  /\ request[r].phase = "sent" /\ request[r].kind = "change"
  /\ Ends(r)
  /\ UNCHANGED <<now, row, throttle, browser>>

Live(s) == s # NoSession /\ now - s.created <= Absolute /\ now - s.seen <= Idle

\* current_user_id(): an expired session is cleared, and the page redirects.
Gate(r) ==
  /\ request[r].phase = "sent" /\ request[r].kind \in {"page", "change"}
  /\ IF Live(request[r].session) THEN Moves(r, "admitted") ELSE Answers(r, NoSession)
  /\ UNCHANGED <<now, row, throttle, browser>>

\* Mutant: touch() restarts the session's clock.
TouchedAnew(s) == [s EXCEPT !.created = now, !.seen = now]

Touched(s) == [s EXCEPT !.seen = now]

\* get_current_user(): the row is loaded and the session touched; a page is
\* served, or sends the user to the password form.
LoadUser(r) ==
  LET q == request[r]
  IN  /\ q.phase = "admitted" /\ q.kind \in {"page", "change"}
      /\ IF q.kind = "page" THEN Answers(r, Touched(q.session))
         ELSE Becomes(r, [q EXCEPT !.phase = "checking", !.copy = account,
                                   !.session = Touched(q.session)])
      /\ life' = [life EXCEPT ![q.session.sid].used = now]
      /\ UNCHANGED <<now, row, throttle, cookie, sessions>>

\* logout() clears whatever session came with it.
Logout(r) ==
  /\ request[r].phase = "idle"
  /\ \E b \in Browsers :
       Becomes(r, [NoRequest EXCEPT !.phase = "answered", !.browser = b])
  /\ UNCHANGED <<now, row, throttle, browser>>

-----------------------------------------------------------------------------
(* The throttle. *)

\* _prune(): the clock is monotonic, so what left the window comes first.
Pruned(a) ==
  LET old == {i \in DOMAIN attempts[a] : attempts[a][i] <= now - Window}
  IN  SubSeq(attempts[a], Cardinality(old) + 1, Len(attempts[a]))

\* record_failure(): a full table is emptied for a new address.
RecordFailure(a) ==
  LET kept == IF Cardinality(tracked) >= MaxTracked /\ a \notin tracked THEN {} ELSE tracked
  IN  /\ tracked' = kept \union {a}
      /\ attempts' = [o \in Addresses |-> IF o = a THEN Append(Pruned(a), now)
                                          ELSE IF o \in kept THEN attempts[o] ELSE <<>>]

-----------------------------------------------------------------------------
(* authenticate() *)

\* Mutant: a limited address is told so, and let in.
LoginUnlimited(r) ==
  /\ request[r].phase = "idle" /\ sessions < MaxSessions
  /\ \E b \in Browsers, a \in Addresses :
       /\ attempts' = [attempts EXCEPT ![a] = Pruned(a)]
       /\ Becomes(r, [NoRequest EXCEPT !.kind = "login", !.phase = "admitted",
                                       !.browser = b, !.address = a])
  /\ UNCHANGED <<now, row, tracked, browser>>

\* login(): is_limited() prunes the bucket and counts what is left; the
\* session that came with the form is not looked at.
Login(r) ==
  /\ request[r].phase = "idle" /\ sessions < MaxSessions
  /\ \E b \in Browsers, a \in Addresses :
       /\ attempts' = [attempts EXCEPT ![a] = Pruned(a)]
       /\ IF Len(Pruned(a)) >= MaxAttempts THEN UNCHANGED request
          ELSE Becomes(r, [NoRequest EXCEPT !.kind = "login", !.phase = "admitted",
                                            !.browser = b, !.address = a])
  /\ UNCHANGED <<now, row, tracked, browser>>

\* A login loads the row here; a change keeps the copy its gate loaded.
Load(r) ==
  /\ request[r].phase = "admitted" /\ request[r].kind = "login"
  /\ Becomes(r, [request[r] EXCEPT !.phase = "checking", !.copy = account])
  /\ UNCHANGED <<now, row, throttle, browser>>

\* Mutant: the backoff is not clamped.
LockoutsUnclamped(n) == {LockBase * 2 ^ (IF n > Threshold THEN n - Threshold ELSE 0)}

\* _lockout_duration()
Lockouts(n) ==
  LET doubled == LockBase * 2 ^ (IF n > Threshold THEN n - Threshold ELSE 0)
  IN  {d \in 1..LockMax : d = doubled \/ (d = LockMax /\ doubled > LockMax)}

\* The copy is locked: nothing is written, but the throttle counts a login.
RefuseLocked(r) ==
  LET q == request[r]
  IN  /\ q.phase = "checking" /\ q.copy.lockedUntil > now
      /\ IF q.kind = "login" THEN Ends(r) /\ RecordFailure(q.address)
         ELSE Answers(r, q.session) /\ UNCHANGED throttle
      /\ ahead' = ahead \ {r}
      /\ UNCHANGED <<now, account, browser>>

\* The wrong password: the lock, if any, is computed from the copy.
Mismatch(r) ==
  LET q == request[r]
  IN  /\ q.phase = "checking" /\ q.copy.lockedUntil <= now
      /\ q.copy.failures < MaxFailures
      /\ IF q.copy.failures + 1 >= Threshold
         THEN \E d \in Lockouts(q.copy.failures + 1) :
                Becomes(r, [q EXCEPT !.phase = "failing", !.until = now + d])
         ELSE Becomes(r, [q EXCEPT !.phase = "failing", !.until = q.copy.lockedUntil])
      /\ UNCHANGED <<now, row, throttle, browser>>

\* Mutant: the password is looked at before the lock.
MatchFirst(r) ==
  LET q == request[r]
  IN  /\ q.phase = "checking"
      /\ Moves(r, "passing")
      /\ UNCHANGED <<now, row, throttle, browser>>

\* The right one.
Match(r) ==
  LET q == request[r]
  IN  /\ q.phase = "checking" /\ q.copy.lockedUntil <= now
      /\ Moves(r, "passing")
      /\ UNCHANGED <<now, row, throttle, browser>>

\* Written: the copy has nothing left to write.
Decided(q, phase) == [q EXCEPT !.phase = phase, !.copy = Unlocked, !.until = Never]

Deciding == {r \in Requests : request[r].phase \in {"checking", "failing", "passing"}}

\* The count is written, and the lock if it changed.
CommitFailure(r) ==
  LET q == request[r]
  IN  /\ q.phase = "failing"
      /\ account' = [account EXCEPT
           !.failures = q.copy.failures + 1,
           !.lockedUntil = IF q.until # q.copy.lockedUntil THEN q.until ELSE @]
      /\ ahead' = (IF q.until # q.copy.lockedUntil THEN Deciding ELSE ahead) \ {r}
      /\ Becomes(r, Decided(q, "failed"))
      /\ UNCHANGED <<now, throttle, browser>>

\* Back in the handler: the throttle is told of a failed login.
Fail(r) ==
  LET q == request[r]
  IN  /\ q.phase = "failed"
      /\ IF q.kind = "login" THEN Ends(r) /\ RecordFailure(q.address)
         ELSE Answers(r, q.session) /\ UNCHANGED throttle
      /\ UNCHANGED <<now, row, browser>>

\* Count and lock are cleared where the copy had any.
CommitSuccess(r) ==
  LET q == request[r]
  IN  /\ q.phase = "passing"
      /\ account' = [account EXCEPT
           !.failures = IF q.copy.failures # 0 THEN 0 ELSE @,
           !.lockedUntil = IF q.copy.lockedUntil # Never THEN Never ELSE @]
      /\ ahead' = ahead \ {r}
      /\ Becomes(r, Decided(q, "passed"))
      /\ UNCHANGED <<now, throttle, browser>>

-----------------------------------------------------------------------------
(* After the password was right. *)

\* start_session(): whatever the browser came with is replaced.
StartSession(r) ==
  LET s == sessions + 1
  IN  /\ sessions < MaxSessions /\ sessions' = s
      /\ life' = [life EXCEPT ![s] = [opened |-> now, used |-> now]]
      /\ Answers(r, [sid |-> s, created |-> now, seen |-> now])

\* login(): the throttle forgets the address.
Open(r) ==
  LET a == request[r].address
  IN  /\ request[r].phase = "passed" /\ request[r].kind = "login"
      /\ StartSession(r)
      /\ attempts' = [attempts EXCEPT ![a] = <<>>] /\ tracked' = tracked \ {a}
      /\ UNCHANGED <<now, row, cookie>>

\* change_password() refuses the new password: too short, or not a new one.
RefuseNew(r) ==
  /\ request[r].phase = "passed" /\ request[r].kind = "change"
  /\ Answers(r, request[r].session)
  /\ UNCHANGED <<now, row, throttle, browser>>

\* set_password() and a new session for the browser that changed it; the
\* copy's count and lock are clear by now, so what others wrote of them
\* meanwhile stays.
SetPassword(r) ==
  /\ request[r].phase = "passed" /\ request[r].kind = "change"
  /\ StartSession(r)
  /\ UNCHANGED <<now, row, throttle, cookie>>

\* A commit raises (the database stays locked): the answer is a bare 500.
CommitRaises(r) ==
  /\ \/ request[r].phase \in {"failing", "passing"}
     \/ request[r].phase = "passed" /\ request[r].kind = "change"
  /\ Ends(r)
  /\ ahead' = ahead \ {r}
  /\ UNCHANGED <<now, account, throttle, browser>>

-----------------------------------------------------------------------------
(* Beside the requests. *)

\* reset-password is a process of its own; it clears the columns that were
\* not clear in its copy, which may be older than the row.
ResetPassword ==
  /\ \E n \in {0, account.failures}, t \in {Never, account.lockedUntil} :
       account' = [failures |-> n, lockedUntil |-> t]
  /\ UNCHANGED <<now, ahead, throttle, request, browser>>

\* The process is restarted: its memory is gone, cookies are not.
Crash ==
  /\ request' = [r \in Requests |-> NoRequest]
  /\ attempts' = [a \in Addresses |-> <<>>] /\ tracked' = {}
  /\ ahead' = {}
  /\ UNCHANGED <<now, account, browser>>

Tick ==
  /\ now < MaxTime /\ now' = now + 1
  /\ UNCHANGED <<row, throttle, request, browser>>

-----------------------------------------------------------------------------
Handler(r) ==
  \/ Send(r) \/ Deliver(r) \/ DeliverNothing(r) \/ Reject(r)
  \/ Gate(r) \/ LoadUser(r) \/ Logout(r)
  \/ Login(r) \/ Load(r) \/ RefuseLocked(r) \/ Mismatch(r) \/ Match(r)
  \/ CommitFailure(r) \/ Fail(r) \/ CommitSuccess(r) \/ CommitRaises(r)
  \/ Open(r) \/ RefuseNew(r) \/ SetPassword(r)

Next ==
  \/ \E r \in Requests : Handler(r)
  \/ ResetPassword \/ Crash \/ Tick

Spec == Init /\ [][Next]_vars

-----------------------------------------------------------------------------
(* Properties. *)

\* "A session dies this long after login no matter how active", and this long
\* after its last use: whichever of its cookies a browser brings back, and
\* whenever an answer overtakes another, no page is served past either.
SessionsExpire == [][\A r \in Requests :
  request[r].phase = "sent" /\ request'[r].phase = "admitted"
  /\ request[r].kind \in {"page", "change"} =>
    LET l == life[request[r].session.sid]
    IN  now - l.opened <= Absolute /\ now - l.used <= Idle]_vars

\* An address is asked about before the database and charged after it, so the
\* limit is not exact; what an address can overrun it by is the number of
\* logins in flight at once, never more.
BurstIsBounded == \A a \in Addresses :
  Len(attempts[a]) < MaxAttempts + Cardinality(Requests)

\* A lock in force turns away whoever loads the account after it, the right
\* password included.  Until it ends, only the command line changes it, or a
\* request that had loaded the account before the lock was written: that one by
\* presenting the password, or by a failure that reached the threshold in its
\* own copy and writes the lock it decided, which may end earlier.
LocksHold == [][account.lockedUntil > now /\ account'.lockedUntil # account.lockedUntil =>
  \/ UNCHANGED request
  \/ \E r \in ahead :
       \/ request[r].phase = "passing" /\ request'[r].phase = "passed"
       \/ /\ request[r].phase = "failing" /\ request'[r].phase = "failed"
          /\ request[r].copy.failures + 1 >= Threshold
          /\ account'.lockedUntil = request[r].until]_vars
=============================================================================
