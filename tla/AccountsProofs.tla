---------------------------- MODULE AccountsProofs ----------------------------
(***************************************************************************)
(* Theorems about Accounts, for any browsers, addresses, limits and number *)
(* of requests in flight.                                                  *)
(*                                                                         *)
(* Three facts carry them.  A session, wherever a copy of it travels, was  *)
(* opened when it says and was last used no earlier than it says.  A       *)
(* failure that writes a lock has reached the threshold in its own copy.   *)
(* And the attempts counted against an address, together with its logins   *)
(* in flight, stay below the limit plus the number of requests: a login is *)
(* admitted below the limit, and charged when it leaves.                   *)
(***************************************************************************)
EXTENDS Accounts, FiniteSetTheorems, TLAPS

\* The session s is what the history l of n sessions says of it.
Fits(s, n, l) == s # NoSession =>
  /\ s.sid \in 1..n
  /\ s.created = l[s.sid].opened
  /\ s.seen <= l[s.sid].used

\* What holds of a request whatever its phase.
Sound(q, n, l) ==
  /\ q \in Request
  /\ q.phase # "idle" => q.browser \in Browsers
  /\ q.kind = "login" => q.address \in Addresses
  /\ q.phase \in {"admitted", "checking"} /\ q.kind # "login" => q.session # NoSession
  /\ q.phase = "failing" =>
       /\ q.copy.failures < MaxFailures
       /\ q.until # q.copy.lockedUntil => q.copy.failures + 1 >= Threshold
  /\ Fits(q.session, n, l)

RequestInv == \A r \in Requests : Sound(request[r], sessions, life)
CookieInv == \A b \in Browsers : Fits(cookie[b], sessions, life)
LifeInv == \A s \in 1..MaxSessions : life[s].used <= now

\* The logins in flight from an address.
InFlight(a) == {r \in Requests : request[r].kind = "login" /\ request[r].address = a}
BurstInv == \A a \in Addresses :
  Len(attempts[a]) + Cardinality(InFlight(a)) < MaxAttempts + Cardinality(Requests)

IInv == TypeOK /\ RequestInv /\ CookieInv /\ LifeInv /\ BurstInv

-----------------------------------------------------------------------------
(* Data. *)

LEMMA Constants ==
  /\ IsFiniteSet(Requests) /\ Cardinality(Requests) \in Nat
  /\ Threshold \in Nat /\ LockMax \in Nat /\ LockMax > 0
  /\ MaxAttempts \in Nat /\ MaxAttempts > 0
  /\ Window \in Nat /\ Absolute \in Nat /\ Idle \in Nat
  /\ MaxTime \in Nat /\ MaxFailures \in Nat /\ MaxSessions \in Nat
<1>1. IsFiniteSet(Requests) /\ Cardinality(Requests) \in Nat
  BY AccountsAssumption, FS_CardinalityType
<1> QED BY <1>1, AccountsAssumption

LEMMA Nulls ==
  /\ Unlocked \in User
  /\ NoSession \notin Session
  /\ NoRequest \in Request
BY Constants DEF Unlocked, User, Deadline, Never, NoSession, Session, NoRequest, Request,
  Kinds, Phases

\* Pruning keeps a bucket a bucket, and no longer than it was.
LEMMA PrunedIsShorter ==
  ASSUME TypeOK, NEW a \in Addresses
  PROVE  Pruned(a) \in Seq(Time) /\ Len(Pruned(a)) <= Len(attempts[a])
<1> DEFINE s == attempts[a]
           old == {i \in DOMAIN s : s[i] <= now - Window}
<1>1. s \in Seq(Time) /\ Len(s) \in Nat /\ DOMAIN s = 1..Len(s)
  BY DEF TypeOK
<1>2. IsFiniteSet(1..Len(s)) /\ Cardinality(1..Len(s)) = Len(s)
  <2>1. 1 \in Int /\ Len(s) \in Int
    BY <1>1
  <2>2. IsFiniteSet(1..Len(s)) /\ Cardinality(1..Len(s)) = IF 1 > Len(s) THEN 0 ELSE Len(s) - 1 + 1
    BY <2>1, FS_Interval
  <2> QED BY <1>1, <2>2
<1>3. Cardinality(old) \in Nat /\ Cardinality(old) <= Len(s)
  <2>1. old \subseteq 1..Len(s)
    BY <1>1
  <2>2. IsFiniteSet(old) /\ Cardinality(old) <= Cardinality(1..Len(s))
    BY <1>2, <2>1, FS_Subset
  <2> QED BY <1>2, <2>2, FS_CardinalityType
<1>4. \A k \in Nat : k <= Len(s) =>
        /\ SubSeq(s, k + 1, Len(s)) \in Seq(Time)
        /\ Len(SubSeq(s, k + 1, Len(s))) <= Len(s)
  BY <1>1
<1>5. Pruned(a) = SubSeq(s, Cardinality(old) + 1, Len(s))
  BY DEF Pruned
<1> HIDE DEF old
<1> QED BY <1>3, <1>4, <1>5

LEMMA InitIInv == Init => IInv
<1> SUFFICES ASSUME Init PROVE IInv
  OBVIOUS
<1> USE DEF Init
<1>1. TypeOK
  BY Constants, Nulls DEF TypeOK, Time, NoRequest
<1>2. RequestInv
  BY Nulls DEF RequestInv, Sound, Fits, NoRequest
<1>3. CookieInv /\ LifeInv
  BY Constants DEF CookieInv, LifeInv, Fits
<1>4. BurstInv
  <2> SUFFICES ASSUME NEW a \in Addresses
      PROVE Len(attempts[a]) + Cardinality(InFlight(a)) < MaxAttempts + Cardinality(Requests)
    BY DEF BurstInv
  <2>1. InFlight(a) = {}
    BY DEF InFlight, NoRequest
  <2>2. Cardinality(InFlight(a)) = 0
    BY <2>1, FS_EmptySet
  <2>3. Len(attempts[a]) = 0
    OBVIOUS
  <2> QED BY <2>2, <2>3, Constants
<1> QED BY <1>1, <1>2, <1>3, <1>4 DEF IInv

-----------------------------------------------------------------------------
(* Sessions. *)

\* The handlers that touch or start a session.
Touches(r) == LoadUser(r)
Starts(r) == Open(r) \/ SetPassword(r)

LEMMA OthersLeaveSessions ==
  ASSUME NEW r \in Requests, Handler(r), ~Touches(r), ~Starts(r)
  PROVE  sessions' = sessions /\ life' = life
BY DEF Handler, Touches, Starts, Send, Deliver, DeliverNothing, Reject, Gate, LoadUser, Logout,
  Login, Load, RefuseLocked, Mismatch, Match, CommitFailure, Fail, CommitSuccess, CommitRaises,
  Open, RefuseNew, SetPassword, browser

\* What a session says stays true whoever touches it or starts another.
LEMMA SessionsGrow ==
  ASSUME IInv, NEW r \in Requests, Handler(r)
  PROVE  /\ sessions' \in 0..MaxSessions
         /\ life' \in [1..MaxSessions -> [opened : Time, used : Time]]
         /\ \A s \in 1..MaxSessions : life'[s].used <= now
         /\ \A s \in Session \union {NoSession} :
              Fits(s, sessions, life) => Fits(s, sessions', life')
<1> USE Constants
<1>1. /\ sessions \in 0..MaxSessions /\ now \in Time /\ now \in Nat
      /\ life \in [1..MaxSessions -> [opened : Time, used : Time]]
      /\ \A s \in 1..MaxSessions : life[s].used <= now
  BY DEF IInv, TypeOK, LifeInv, Time
<1>2. CASE ~Touches(r) /\ ~Starts(r)
  BY <1>1, <1>2, OthersLeaveSessions
<1>3. CASE Touches(r)
  <2> DEFINE k == request[r].session.sid
  <2>1. sessions' = sessions /\ life' = [life EXCEPT ![k].used = now]
    BY <1>3 DEF Touches, LoadUser
  <2>2. life' \in [1..MaxSessions -> [opened : Time, used : Time]]
    BY <1>1, <2>1
  <2>3. ASSUME NEW s \in 1..MaxSessions
        PROVE  /\ life'[s].opened = life[s].opened
               /\ life'[s].used = IF s = k THEN now ELSE life[s].used
    <3>1. life[s] \in [opened : Time, used : Time]
      BY <1>1
    <3>2. life'[s] = IF s = k THEN [life[s] EXCEPT !.used = now] ELSE life[s]
      BY <1>1, <2>1
    <3> QED BY <3>1, <3>2
  <2>4. \A s \in 1..MaxSessions : life[s].used \in Nat
    BY <1>1 DEF Time
  <2> HIDE DEF k
  <2>5. ASSUME NEW s \in Session \union {NoSession}, Fits(s, sessions, life)
        PROVE  Fits(s, sessions', life')
    <3> SUFFICES ASSUME s # NoSession
        PROVE s.sid \in 1..sessions /\ s.created = life'[s.sid].opened /\ s.seen <= life'[s.sid].used
      BY <2>1 DEF Fits
    <3>1. s.sid \in 1..sessions /\ s.created = life[s.sid].opened /\ s.seen <= life[s.sid].used
      BY <2>5 DEF Fits
    <3>2. s.sid \in 1..MaxSessions
      BY <1>1, <3>1
    <3>3. CASE s.sid = k
      <4>1. s.seen \in Nat
        BY <1>1 DEF Session, Time
      <4>2. s.seen <= now
        BY <1>1, <2>4, <3>1, <3>2, <4>1
      <4> QED BY <2>3, <3>1, <3>2, <3>3, <4>2
    <3>4. CASE s.sid # k
      BY <2>3, <3>1, <3>2, <3>4
    <3> QED BY <3>3, <3>4
  <2>6. \A s \in 1..MaxSessions : life'[s].used <= now
    BY <1>1, <2>3
  <2>7. \A s \in Session \union {NoSession} :
          Fits(s, sessions, life) => Fits(s, sessions', life')
    BY <2>5
  <2> QED BY <1>1, <2>1, <2>2, <2>6, <2>7
<1>4. CASE Starts(r)
  <2> DEFINE n == sessions + 1
  <2>1. n \in 1..MaxSessions /\ sessions' = n
    BY <1>1, <1>4 DEF Starts, Open, SetPassword, StartSession
  <2>2. life' = [life EXCEPT ![n] = [opened |-> now, used |-> now]]
    BY <1>4 DEF Starts, Open, SetPassword, StartSession
  <2>3. life' \in [1..MaxSessions -> [opened : Time, used : Time]]
    BY <1>1, <2>1, <2>2
  <2>4. \A s \in 1..MaxSessions : life'[s] = IF s = n THEN [opened |-> now, used |-> now] ELSE life[s]
    BY <1>1, <2>2
  <2>5. \A s \in 1..sessions : s # n /\ s \in 1..MaxSessions /\ s \in 1..n
    BY <1>1
  <2> HIDE DEF n
  <2> QED BY <1>1, <2>1, <2>3, <2>4, <2>5 DEF Fits
<1> QED BY <1>2, <1>3, <1>4

-----------------------------------------------------------------------------
(* Requests. *)

\* What a handler makes of its request.
LEMMA RequestStep ==
  ASSUME IInv, NEW r \in Requests, Handler(r)
  PROVE  /\ now' = now
         /\ \E new : /\ request' = [request EXCEPT ![r] = new]
                     /\ Sound(new, sessions', life')
<1> USE Constants
<1> DEFINE q == request[r]
<1>1. /\ Sound(q, sessions, life) /\ q \in Request /\ request \in [Requests -> Request]
      /\ now \in Time /\ account \in User
  BY DEF IInv, RequestInv, TypeOK
<1>2. \A s \in Session \union {NoSession} :
        Fits(s, sessions, life) => Fits(s, sessions', life')
  BY SessionsGrow
<1>3. Sound(q, sessions', life')
  <2>1. q.session \in Session \union {NoSession}
    BY <1>1 DEF Request
  <2> QED BY <1>1, <1>2, <2>1 DEF Sound
<1>4. now' = now
  BY DEF Handler, Send, Deliver, DeliverNothing, Reject, Gate, LoadUser, Logout, Login, Load,
    RefuseLocked, Mismatch, Match, CommitFailure, Fail, CommitSuccess, CommitRaises, Open,
    RefuseNew, SetPassword
<1>5. Sound(NoRequest, sessions', life')
  BY Nulls DEF Sound, NoRequest, Fits
\* An answer carries a session that fits.
<1>6. ASSUME NEW s \in Session \union {NoSession}, Fits(s, sessions', life'), Answers(r, s),
             q.phase # "idle"
      PROVE  \E new : request' = [request EXCEPT ![r] = new] /\ Sound(new, sessions', life')
  <2> DEFINE new == [NoRequest EXCEPT !.phase = "answered", !.browser = q.browser, !.session = s]
  <2>1. request' = [request EXCEPT ![r] = new]
    BY <1>6 DEF Answers, Becomes
  <2>2. q.browser \in Browsers
    BY <1>1, <1>6 DEF Sound
  <2>3. Sound(new, sessions', life')
    BY <1>6, <2>2, Nulls DEF Sound, NoRequest, Request, Phases
  <2> HIDE DEF new
  <2> QED BY <2>1, <2>3
<1> DEFINE Done == \E new : request' = [request EXCEPT ![r] = new] /\ Sound(new, sessions', life')
<1> SUFFICES Done
  BY <1>4
<1>7. ASSUME Ends(r) PROVE Done
  BY <1>5, <1>7 DEF Ends, Becomes
\* A move to a phase that asks no more than the one before.
<1>8. ASSUME NEW p \in Phases, Moves(r, p), q.phase # "idle",
             p = "failing" => FALSE,
             p \in {"admitted", "checking"} /\ q.kind # "login" => q.session # NoSession
      PROVE  Done
  <2> DEFINE new == [q EXCEPT !.phase = p]
  <2>1. request' = [request EXCEPT ![r] = new]
    BY <1>8 DEF Moves, Becomes
  <2>2. Sound(new, sessions', life')
    BY <1>1, <1>3, <1>8 DEF Sound, Request
  <2> HIDE DEF new
  <2> QED BY <2>1, <2>2
\* A session as it came, or touched.
<1>9. q.session \in Session \union {NoSession} /\ Fits(q.session, sessions', life')
  BY <1>1, <1>3 DEF Sound, Request
<1>10. CASE Send(r)
  <2>1. PICK b \in Browsers, k \in Kinds \ {"login"} :
          request' = [request EXCEPT ![r] = [NoRequest EXCEPT !.kind = k, !.phase = "sent",
                                               !.browser = b, !.session = cookie[b]]]
    BY <1>10 DEF Send, Becomes
  <2> DEFINE new == [NoRequest EXCEPT !.kind = k, !.phase = "sent", !.browser = b,
                                      !.session = cookie[b]]
  <2>2. cookie[b] \in Session \union {NoSession} /\ Fits(cookie[b], sessions', life')
    BY <1>2 DEF IInv, TypeOK, CookieInv
  <2>3. Sound(new, sessions', life')
    BY <2>2, Nulls DEF Sound, NoRequest, Request, Phases, Kinds
  <2> HIDE DEF new
  <2> QED BY <2>1, <2>3 DEF new
<1>11. CASE Deliver(r) \/ DeliverNothing(r) \/ Reject(r) \/ CommitRaises(r)
  BY <1>7, <1>11 DEF Deliver, DeliverNothing, Reject, CommitRaises
<1>12. CASE Gate(r)
  <2>1. CASE Live(q.session)
    BY <1>8, <1>12, <2>1 DEF Gate, Live, Phases
  <2>2. CASE ~Live(q.session)
    BY <1>6, <1>12, <2>2 DEF Gate, Fits
  <2> QED BY <2>1, <2>2
<1>13. CASE LoadUser(r)
  <2> DEFINE t == Touched(q.session)
  <2>1. q.session \in Session /\ q.phase = "admitted" /\ q.kind # "login"
    BY <1>1, <1>9, <1>13 DEF LoadUser, Sound
  <2>2. t \in Session /\ t.sid = q.session.sid /\ t.created = q.session.created /\ t.seen = now
    BY <1>1, <2>1 DEF Touched, Session
  <2>3. t.sid \in 1..sessions /\ t.created = life[t.sid].opened
    BY <1>1, <2>1, <2>2, Nulls DEF Sound, Fits
  <2>4. sessions' = sessions /\ life' = [life EXCEPT ![t.sid].used = now]
    BY <1>13, <2>2 DEF LoadUser
  <2>5. /\ t.sid \in 1..MaxSessions /\ life[t.sid] \in [opened : Time, used : Time]
        /\ life \in [1..MaxSessions -> [opened : Time, used : Time]] /\ now \in Nat
    BY <2>3 DEF IInv, TypeOK, Time
  <2>6. life'[t.sid].opened = life[t.sid].opened /\ life'[t.sid].used = now
    <3>1. life'[t.sid] = [life[t.sid] EXCEPT !.used = now]
      BY <2>4, <2>5
    <3> QED BY <2>5, <3>1
  <2>7. Fits(t, sessions', life')
    BY <2>2, <2>3, <2>4, <2>5, <2>6 DEF Fits
  <2> HIDE DEF t
  <2>8. CASE q.kind = "page"
    BY <1>6, <1>13, <2>1, <2>2, <2>7, <2>8 DEF LoadUser, t
  <2>9. CASE q.kind # "page"
    <3> DEFINE new == [q EXCEPT !.phase = "checking", !.copy = account, !.session = t]
    <3>1. request' = [request EXCEPT ![r] = new]
      BY <1>13, <2>9 DEF LoadUser, Becomes, t
    <3>2. new \in Request
      BY <1>1, <2>2 DEF Request, Phases
    <3>3. Sound(new, sessions', life')
      BY <1>1, <2>1, <2>2, <2>7, <3>2, Nulls DEF Sound
    <3> HIDE DEF new
    <3> QED BY <3>1, <3>3
  <2> QED BY <2>8, <2>9
<1>14. CASE Logout(r)
  <2>1. PICK b \in Browsers :
          request' = [request EXCEPT ![r] = [NoRequest EXCEPT !.phase = "answered", !.browser = b]]
    BY <1>14 DEF Logout, Becomes
  <2>2. Sound([NoRequest EXCEPT !.phase = "answered", !.browser = b], sessions', life')
    BY Nulls DEF Sound, Fits, NoRequest, Request, Phases
  <2> QED BY <2>1, <2>2
<1>15. CASE Login(r)
  <2>1. PICK b \in Browsers, a \in Addresses :
          \/ request' = request
          \/ request' = [request EXCEPT ![r] = [NoRequest EXCEPT !.kind = "login",
               !.phase = "admitted", !.browser = b, !.address = a]]
    BY <1>15 DEF Login, Becomes
  <2>2. CASE request' = request
    <3>1. request' = [request EXCEPT ![r] = q]
      BY <1>1, <2>2
    <3> QED BY <1>3, <3>1
  <2> DEFINE new == [NoRequest EXCEPT !.kind = "login", !.phase = "admitted", !.browser = b,
                                      !.address = a]
  <2>3. Sound(new, sessions', life')
    BY Nulls DEF Sound, Fits, NoRequest, Request, Phases, Kinds
  <2> HIDE DEF new
  <2> QED BY <2>1, <2>2, <2>3 DEF new
<1>16. CASE Load(r)
  <2> DEFINE new == [q EXCEPT !.phase = "checking", !.copy = account]
  <2>1. request' = [request EXCEPT ![r] = new]
    BY <1>16 DEF Load, Becomes
  <2>2. Sound(new, sessions', life')
    BY <1>1, <1>3, <1>16 DEF Load, Sound, Request, Phases
  <2> HIDE DEF new
  <2> QED BY <2>1, <2>2
<1>17. CASE RefuseLocked(r) \/ Fail(r) \/ RefuseNew(r)
  <2>1. (Ends(r) \/ Answers(r, q.session)) /\ q.phase # "idle"
    BY <1>17 DEF RefuseLocked, Fail, RefuseNew
  <2> QED BY <1>6, <1>7, <1>9, <2>1
<1>18. CASE Mismatch(r)
  <2>1. PICK u \in Deadline :
          /\ request' = [request EXCEPT ![r] = [q EXCEPT !.phase = "failing", !.until = u]]
          /\ u # q.copy.lockedUntil => q.copy.failures + 1 >= Threshold
    <3>1. q.copy \in User /\ q.copy.lockedUntil \in Deadline
      BY <1>1 DEF Request, User
    <3>2. CASE q.copy.failures + 1 >= Threshold
      <4>1. PICK d \in 1..LockMax : Becomes(r, [q EXCEPT !.phase = "failing", !.until = now + d])
        BY <1>18, <3>2 DEF Mismatch, Lockouts
      <4>2. now + d \in Deadline
        BY <1>1, <4>1 DEF Deadline, Time
      <4> QED BY <3>2, <4>1, <4>2 DEF Becomes
    <3>3. CASE ~(q.copy.failures + 1 >= Threshold)
      <4>1. Becomes(r, [q EXCEPT !.phase = "failing", !.until = q.copy.lockedUntil])
        BY <1>18, <3>3 DEF Mismatch
      <4> QED BY <3>1, <4>1 DEF Becomes
    <3> QED BY <3>2, <3>3
  <2> DEFINE new == [q EXCEPT !.phase = "failing", !.until = u]
  <2>2. new \in Request /\ new.phase = "failing" /\ new.until = u /\ new.copy = q.copy
        /\ new.session = q.session /\ new.browser = q.browser /\ new.address = q.address
        /\ new.kind = q.kind
    BY <1>1 DEF Request, Phases
  <2>3. q.copy.failures < MaxFailures /\ q.phase # "idle"
    BY <1>18 DEF Mismatch
  <2> HIDE DEF new
  <2>4. Sound(new, sessions', life')
    BY <1>3, <2>1, <2>2, <2>3 DEF Sound
  <2> QED BY <2>1, <2>4 DEF new
<1>19. CASE Match(r)
  BY <1>8, <1>19 DEF Match, Phases
<1>20. CASE CommitFailure(r) \/ CommitSuccess(r)
  <2>1. PICK p \in {"failed", "passed"} : request' = [request EXCEPT ![r] = Decided(q, p)]
    BY <1>20 DEF CommitFailure, CommitSuccess, Becomes
  <2>2. Decided(q, p) \in Request
    <3>1. Unlocked \in User /\ Never \in Deadline /\ p \in Phases
      BY Nulls, Constants, <2>1 DEF Deadline, Never, Phases
    <3> QED BY <1>1, <3>1 DEF Decided, Request
  <2>3. q.phase # "idle"
    BY <1>20 DEF CommitFailure, CommitSuccess
  <2>4. /\ Decided(q, p).phase = p /\ Decided(q, p).browser = q.browser
        /\ Decided(q, p).kind = q.kind /\ Decided(q, p).address = q.address
        /\ Decided(q, p).session = q.session
    BY <1>1 DEF Decided, Request
  <2>5. Sound(Decided(q, p), sessions', life')
    BY <1>3, <2>1, <2>2, <2>3, <2>4 DEF Sound
  <2> QED BY <2>1, <2>5
<1>21. CASE Open(r) \/ SetPassword(r)
  <2> DEFINE s == [sid |-> sessions + 1, created |-> now, seen |-> now]
  <2>1. /\ q.phase # "idle" /\ Answers(r, s) /\ sessions < MaxSessions
        /\ sessions' = sessions + 1
        /\ life' = [life EXCEPT ![sessions + 1] = [opened |-> now, used |-> now]]
    BY <1>21 DEF Open, SetPassword, StartSession
  <2>2. /\ sessions \in 0..MaxSessions /\ now \in Nat
        /\ life \in [1..MaxSessions -> [opened : Time, used : Time]]
    BY DEF IInv, TypeOK, Time
  <2>3. s \in Session
    BY <1>1, <2>1, <2>2 DEF Session
  <2>4. life'[sessions + 1] = [opened |-> now, used |-> now]
    BY <2>1, <2>2
  <2>5. Fits(s, sessions', life')
    BY <2>1, <2>2, <2>4 DEF Fits
  <2> HIDE DEF s
  <2> QED BY <1>6, <2>1, <2>3, <2>5
<1> QED
  BY <1>10, <1>11, <1>12, <1>13, <1>14, <1>15, <1>16, <1>17, <1>18, <1>19, <1>20, <1>21
  DEF Handler

-----------------------------------------------------------------------------
(* The throttle. *)

\* How a handler changes the throttle together with the logins in flight.
Keeps(r) ==
  /\ UNCHANGED throttle
  /\ \E new : /\ request' = [request EXCEPT ![r] = new]
              /\ new.kind = "login" =>
                   request[r].kind = "login" /\ new.address = request[r].address
Admits(r, a) ==
  /\ attempts' = [attempts EXCEPT ![a] = Pruned(a)] /\ tracked' = tracked
  /\ \/ request' = request
     \/ Len(Pruned(a)) < MaxAttempts
        /\ \E new : request' = [request EXCEPT ![r] = new] /\ new.kind = "login" /\ new.address = a
Charges(r, a) == RecordFailure(a) /\ Ends(r) /\ request[r].kind = "login" /\ request[r].address = a
Forgets(r, a) ==
  /\ attempts' = [attempts EXCEPT ![a] = <<>>] /\ tracked' = tracked \ {a}
  /\ \E new : request' = [request EXCEPT ![r] = new] /\ new.kind # "login"

LEMMA ThrottleSteps ==
  ASSUME IInv, NEW r \in Requests, Handler(r)
  PROVE  Keeps(r) \/ \E a \in Addresses : Admits(r, a) \/ Charges(r, a) \/ Forgets(r, a)
<1> DEFINE q == request[r]
<1>1. /\ q \in Request /\ request \in [Requests -> Request]
      /\ q.kind = "login" => q.address \in Addresses
      /\ \A a \in Addresses : Pruned(a) \in Seq(Time)
  BY PrunedIsShorter DEF IInv, TypeOK
<1>2. ASSUME Ends(r) \/ \E s : Answers(r, s)
      PROVE  \E new : request' = [request EXCEPT ![r] = new] /\ new.kind # "login"
  <2>1. CASE Ends(r)
    <3>1. request' = [request EXCEPT ![r] = NoRequest]
      BY <2>1 DEF Ends, Becomes
    <3>2. NoRequest.kind # "login"
      BY DEF NoRequest
    <3> QED BY <3>1, <3>2
  <2>2. ASSUME NEW s, Answers(r, s)
        PROVE  \E new : request' = [request EXCEPT ![r] = new] /\ new.kind # "login"
    <3> DEFINE new == [NoRequest EXCEPT !.phase = "answered", !.browser = q.browser, !.session = s]
    <3>1. request' = [request EXCEPT ![r] = new] /\ new.kind = "page"
      BY <2>2 DEF Answers, Becomes, NoRequest
    <3> HIDE DEF new
    <3> QED BY <3>1
  <2> QED BY <1>2, <2>1, <2>2
<1>3. ASSUME NEW p, Moves(r, p)
      PROVE  \E new : request' = [request EXCEPT ![r] = new] /\ new.kind = q.kind
                     /\ new.address = q.address
  <2> DEFINE new == [q EXCEPT !.phase = p]
  <2>1. request' = [request EXCEPT ![r] = new] /\ new.kind = q.kind /\ new.address = q.address
    BY <1>1, <1>3 DEF Moves, Becomes, Request
  <2> HIDE DEF new
  <2> QED BY <2>1
<1>4. CASE Send(r)
  <2>1. PICK b \in Browsers, k \in Kinds \ {"login"} :
          request' = [request EXCEPT ![r] = [NoRequest EXCEPT !.kind = k, !.phase = "sent",
                                               !.browser = b, !.session = cookie[b]]]
    BY <1>4 DEF Send, Becomes
  <2> DEFINE new == [NoRequest EXCEPT !.kind = k, !.phase = "sent", !.browser = b,
                                      !.session = cookie[b]]
  <2>2. new.kind # "login"
    BY DEF NoRequest
  <2>3. request' = [request EXCEPT ![r] = new]
    BY <2>1
  <2>4. UNCHANGED throttle
    BY <1>4 DEF Send
  <2> HIDE DEF new
  <2> QED BY <2>2, <2>3, <2>4 DEF Keeps
<1>5. CASE Deliver(r) \/ DeliverNothing(r) \/ Reject(r) \/ CommitRaises(r) \/ RefuseNew(r)
           \/ SetPassword(r)
  <2>1. UNCHANGED throttle /\ (Ends(r) \/ \E s : Answers(r, s))
    BY <1>5 DEF Deliver, DeliverNothing, Reject, CommitRaises, RefuseNew, SetPassword, StartSession
  <2> QED BY <1>2, <2>1 DEF Keeps
<1>6. CASE Gate(r) \/ Match(r)
  <2>1. /\ UNCHANGED throttle
        /\ Ends(r) \/ (\E s : Answers(r, s)) \/ (\E p : Moves(r, p))
    BY <1>6 DEF Gate, Match
  <2> QED BY <1>2, <1>3, <2>1 DEF Keeps
<1>7. CASE LoadUser(r)
  <2>1. UNCHANGED throttle /\ q.kind # "login"
    BY <1>7 DEF LoadUser
  <2>2. CASE q.kind = "page"
    <3>1. \E s : Answers(r, s)
      BY <1>7, <2>2 DEF LoadUser
    <3> QED BY <1>2, <2>1, <3>1 DEF Keeps
  <2>3. CASE q.kind # "page"
    <3> DEFINE new == [q EXCEPT !.phase = "checking", !.copy = account,
                                !.session = Touched(q.session)]
    <3>1. request' = [request EXCEPT ![r] = new]
      BY <1>7, <2>3 DEF LoadUser, Becomes
    <3>2. new.kind # "login"
      BY <1>1, <2>1 DEF Request
    <3> HIDE DEF new
    <3> QED BY <2>1, <3>1, <3>2 DEF Keeps
  <2> QED BY <2>2, <2>3
<1>8. CASE Logout(r)
  <2>1. PICK b \in Browsers :
          request' = [request EXCEPT ![r] = [NoRequest EXCEPT !.phase = "answered", !.browser = b]]
    BY <1>8 DEF Logout, Becomes
  <2>2. [NoRequest EXCEPT !.phase = "answered", !.browser = b].kind # "login"
    BY DEF NoRequest
  <2>3. UNCHANGED throttle
    BY <1>8 DEF Logout
  <2> QED BY <2>1, <2>2, <2>3 DEF Keeps
<1>9. CASE Login(r)
  <2>1. PICK b \in Browsers, a \in Addresses :
          /\ attempts' = [attempts EXCEPT ![a] = Pruned(a)]
          /\ \/ request' = request
             \/ ~(Len(Pruned(a)) >= MaxAttempts) /\ request' = [request EXCEPT ![r] =
                  [NoRequest EXCEPT !.kind = "login", !.phase = "admitted", !.browser = b,
                                    !.address = a]]
    BY <1>9 DEF Login, Becomes
  <2> DEFINE new == [NoRequest EXCEPT !.kind = "login", !.phase = "admitted", !.browser = b,
                                      !.address = a]
  <2>2. new.kind = "login" /\ new.address = a
    BY DEF NoRequest
  <2>3. tracked' = tracked
    BY <1>9 DEF Login
  <2>4. ~(Len(Pruned(a)) >= MaxAttempts) => Len(Pruned(a)) < MaxAttempts
    <3>1. Len(Pruned(a)) \in Nat
      BY <1>1
    <3> QED BY <3>1, Constants
  <2>5. \/ request' = request
        \/ Len(Pruned(a)) < MaxAttempts /\ request' = [request EXCEPT ![r] = new]
    BY <2>1, <2>4
  <2> HIDE DEF new
  <2>6. Admits(r, a)
    BY <2>1, <2>2, <2>3, <2>5 DEF Admits
  <2> QED BY <2>6
<1>10. CASE Load(r)
  <2> DEFINE new == [q EXCEPT !.phase = "checking", !.copy = account]
  <2>1. request' = [request EXCEPT ![r] = new] /\ UNCHANGED throttle
    BY <1>10 DEF Load, Becomes
  <2>2. new.kind = q.kind /\ new.address = q.address
    BY <1>1 DEF Request
  <2> HIDE DEF new
  <2> QED BY <2>1, <2>2 DEF Keeps
<1>11. CASE RefuseLocked(r) \/ Fail(r)
  <2>1. CASE q.kind = "login"
    <3>1. Charges(r, q.address)
      BY <1>11, <2>1 DEF RefuseLocked, Fail, Charges
    <3> QED BY <1>1, <2>1, <3>1
  <2>2. CASE q.kind # "login"
    <3>1. UNCHANGED throttle /\ \E s : Answers(r, s)
      BY <1>11, <2>2 DEF RefuseLocked, Fail
    <3> QED BY <1>2, <3>1 DEF Keeps
  <2> QED BY <2>1, <2>2
<1>12. CASE Mismatch(r)
  <2>1. PICK u : request' = [request EXCEPT ![r] = [q EXCEPT !.phase = "failing", !.until = u]]
    <3>1. CASE q.copy.failures + 1 >= Threshold
      BY <1>12, <3>1 DEF Mismatch, Becomes
    <3>2. CASE ~(q.copy.failures + 1 >= Threshold)
      BY <1>12, <3>2 DEF Mismatch, Becomes
    <3> QED BY <3>1, <3>2
  <2> DEFINE new == [q EXCEPT !.phase = "failing", !.until = u]
  <2>2. new.kind = q.kind /\ new.address = q.address /\ UNCHANGED throttle
    BY <1>1, <1>12 DEF Request, Mismatch
  <2>3. request' = [request EXCEPT ![r] = new]
    BY <2>1
  <2> HIDE DEF new
  <2> QED BY <2>2, <2>3 DEF Keeps
<1>13. CASE CommitFailure(r) \/ CommitSuccess(r)
  <2>1. PICK p : request' = [request EXCEPT ![r] = Decided(q, p)]
    BY <1>13 DEF CommitFailure, CommitSuccess, Becomes
  <2>2. Decided(q, p).kind = q.kind /\ Decided(q, p).address = q.address /\ UNCHANGED throttle
    BY <1>1, <1>13 DEF Decided, Request, CommitFailure, CommitSuccess
  <2> QED BY <2>1, <2>2 DEF Keeps
<1>14. CASE Open(r)
  <2>1. q.kind = "login" /\ (\E s : Answers(r, s))
        /\ attempts' = [attempts EXCEPT ![q.address] = <<>>] /\ tracked' = tracked \ {q.address}
    BY <1>14 DEF Open, StartSession
  <2>2. Forgets(r, q.address)
    BY <1>2, <2>1 DEF Forgets
  <2> QED BY <1>1, <2>1, <2>2
<1> QED
  BY <1>4, <1>5, <1>6, <1>7, <1>8, <1>9, <1>10, <1>11, <1>12, <1>13, <1>14 DEF Handler

\* A request counted against an address no longer than before adds nothing.
LEMMA InFlightShrinks ==
  ASSUME TypeOK, NEW r \in Requests, NEW new, request' = [request EXCEPT ![r] = new],
         NEW a \in Addresses,
         new.kind = "login" /\ new.address = a =>
           request[r].kind = "login" /\ request[r].address = a
  PROVE  /\ Cardinality(InFlight(a)') \in Nat /\ Cardinality(InFlight(a)) \in Nat
         /\ Cardinality(InFlight(a)') <= Cardinality(InFlight(a))
         /\ (r \in InFlight(a) /\ new.kind # "login") =>
              Cardinality(InFlight(a)') + 1 <= Cardinality(InFlight(a))
<1>1. \A s \in Requests : request'[s] = IF s = r THEN new ELSE request[s]
  BY DEF TypeOK
<1>2. InFlight(a)' \subseteq InFlight(a) /\ InFlight(a) \subseteq Requests
  BY <1>1 DEF InFlight
<1>3. IsFiniteSet(InFlight(a)) /\ IsFiniteSet(InFlight(a) \ {r})
  BY <1>2, Constants, FS_Subset, FS_RemoveElement
<1>4. /\ Cardinality(InFlight(a)') \in Nat /\ Cardinality(InFlight(a)) \in Nat
      /\ Cardinality(InFlight(a)') <= Cardinality(InFlight(a))
  BY <1>2, <1>3, FS_Subset, FS_CardinalityType
<1>5. ASSUME r \in InFlight(a), new.kind # "login"
      PROVE  Cardinality(InFlight(a)') + 1 <= Cardinality(InFlight(a))
  <2>1. InFlight(a)' \subseteq InFlight(a) \ {r}
    BY <1>1, <1>2, <1>5 DEF InFlight
  <2>2. Cardinality(InFlight(a)') <= Cardinality(InFlight(a) \ {r})
    BY <1>3, <2>1, FS_Subset
  <2>3. Cardinality(InFlight(a) \ {r}) = Cardinality(InFlight(a)) - 1
    BY <1>3, <1>5, FS_RemoveElement
  <2> QED BY <1>4, <2>2, <2>3
<1> QED BY <1>4, <1>5

\* Every handler keeps the sum below its bound.
LEMMA BurstStep ==
  ASSUME IInv, NEW r \in Requests, Handler(r)
  PROVE  /\ attempts' \in [Addresses -> Seq(Time)] /\ tracked' \in SUBSET Addresses
         /\ BurstInv'
<1> DEFINE N == Cardinality(Requests)
           Bounded(a) == Len(attempts[a]) + Cardinality(InFlight(a)) < MaxAttempts + N
<1>1. /\ TypeOK /\ now \in Time
      /\ attempts \in [Addresses -> Seq(Time)] /\ tracked \in SUBSET Addresses
      /\ \A a \in Addresses : Len(attempts[a]) \in Nat /\ Bounded(a)
      /\ \A a \in Addresses : Pruned(a) \in Seq(Time) /\ Len(Pruned(a)) <= Len(attempts[a])
                              /\ Len(Pruned(a)) \in Nat
  BY PrunedIsShorter DEF IInv, TypeOK, BurstInv
<1>2. N \in Nat /\ MaxAttempts \in Nat
  BY Constants
<1>3. CASE Keeps(r)
  <2>1. PICK new : /\ request' = [request EXCEPT ![r] = new]
                   /\ new.kind = "login" =>
                        request[r].kind = "login" /\ new.address = request[r].address
    BY <1>3 DEF Keeps
  <2>2. attempts' = attempts /\ tracked' = tracked
    BY <1>3 DEF Keeps, throttle
  <2>3. ASSUME NEW a \in Addresses PROVE Bounded(a)'
    <3>1. /\ Cardinality(InFlight(a)') <= Cardinality(InFlight(a))
          /\ Cardinality(InFlight(a)') \in Nat /\ Cardinality(InFlight(a)) \in Nat
      BY <1>1, <2>1, InFlightShrinks
    <3> QED BY <1>1, <1>2, <2>2, <3>1
  <2> QED BY <1>1, <2>2, <2>3 DEF BurstInv
<1>4. ASSUME NEW a \in Addresses, Admits(r, a) PROVE BurstInv' /\ attempts' \in [Addresses -> Seq(Time)]
  <2>1. attempts' = [attempts EXCEPT ![a] = Pruned(a)]
    BY <1>4 DEF Admits
  <2>2. \A o \in Addresses : attempts'[o] = IF o = a THEN Pruned(a) ELSE attempts[o]
    BY <1>1, <2>1
  <2>3. ASSUME NEW o \in Addresses PROVE Bounded(o)'
    <3>1. Len(attempts'[o]) <= Len(attempts[o]) /\ Len(attempts'[o]) \in Nat
      BY <1>1, <2>2
    <3>2. CASE request' = request
      <4>1. InFlight(o)' = InFlight(o) /\ Cardinality(InFlight(o)) \in Nat
        <5>1. InFlight(o)' = InFlight(o) /\ InFlight(o) \subseteq Requests
          BY <3>2 DEF InFlight
        <5> QED BY <5>1, Constants, FS_Subset, FS_CardinalityType
      <4> QED BY <1>1, <1>2, <3>1, <4>1
    <3>3. CASE Len(Pruned(a)) < MaxAttempts
               /\ \E new : request' = [request EXCEPT ![r] = new] /\ new.kind = "login"
                           /\ new.address = a
      <4>1. PICK new : request' = [request EXCEPT ![r] = new] /\ new.kind = "login"
                       /\ new.address = a
        BY <3>3
      <4>2. CASE o = a
        <5>1. InFlight(o)' \subseteq Requests
          BY DEF InFlight
        <5>2. Cardinality(InFlight(o)') <= N /\ Cardinality(InFlight(o)') \in Nat
          BY <5>1, Constants, FS_Subset, FS_CardinalityType
        <5> QED BY <1>1, <1>2, <2>2, <3>3, <4>2, <5>2
      <4>3. CASE o # a
        <5>1. /\ Cardinality(InFlight(o)') <= Cardinality(InFlight(o))
              /\ Cardinality(InFlight(o)') \in Nat /\ Cardinality(InFlight(o)) \in Nat
          BY <1>1, <4>1, <4>3, InFlightShrinks
        <5> QED BY <1>1, <1>2, <3>1, <5>1
      <4> QED BY <4>2, <4>3
    <3> QED BY <1>4, <3>2, <3>3 DEF Admits
  <2>4. attempts' \in [Addresses -> Seq(Time)]
    BY <1>1, <2>1
  <2> QED BY <2>3, <2>4 DEF BurstInv
<1>5. ASSUME NEW a \in Addresses, Charges(r, a)
      PROVE  /\ BurstInv' /\ attempts' \in [Addresses -> Seq(Time)]
             /\ tracked' \in SUBSET Addresses
  <2>1. /\ request' = [request EXCEPT ![r] = NoRequest] /\ r \in InFlight(a)
        /\ NoRequest.kind # "login"
    BY <1>5 DEF Charges, Ends, Becomes, InFlight, NoRequest
  <2>2. PICK kept \in SUBSET Addresses :
          /\ tracked' = kept \union {a}
          /\ attempts' = [o \in Addresses |-> IF o = a THEN Append(Pruned(a), now)
                                              ELSE IF o \in kept THEN attempts[o] ELSE <<>>]
    BY <1>1, <1>5 DEF Charges, RecordFailure
  <2>3. /\ Append(Pruned(a), now) \in Seq(Time)
        /\ Len(Append(Pruned(a), now)) = Len(Pruned(a)) + 1
    BY <1>1
  <2>4. ASSUME NEW o \in Addresses
        PROVE  Bounded(o)' /\ attempts'[o] \in Seq(Time)
    <3>1. /\ Cardinality(InFlight(o)') <= Cardinality(InFlight(o))
          /\ Cardinality(InFlight(o)') \in Nat /\ Cardinality(InFlight(o)) \in Nat
          /\ o = a => Cardinality(InFlight(o)') + 1 <= Cardinality(InFlight(o))
      <4>1. NoRequest.kind = "login" /\ NoRequest.address = o =>
              request[r].kind = "login" /\ request[r].address = o
        BY <2>1
      <4>2. /\ Cardinality(InFlight(o)') \in Nat /\ Cardinality(InFlight(o)) \in Nat
            /\ Cardinality(InFlight(o)') <= Cardinality(InFlight(o))
            /\ (r \in InFlight(o) /\ NoRequest.kind # "login") =>
                 Cardinality(InFlight(o)') + 1 <= Cardinality(InFlight(o))
        BY <1>1, <2>1, <4>1, InFlightShrinks
      <4> QED BY <2>1, <4>2
    <3>2. CASE o = a
      <4>1. attempts'[o] = Append(Pruned(a), now)
        BY <2>2, <3>2
      <4> QED BY <1>1, <1>2, <2>3, <3>1, <3>2, <4>1
    <3>3. CASE o # a /\ o \in kept
      <4>1. attempts'[o] = attempts[o]
        BY <2>2, <3>3
      <4> QED BY <1>1, <1>2, <3>1, <4>1
    <3>4. CASE o # a /\ o \notin kept
      <4>1. attempts'[o] = <<>> /\ Len(<<>>) = 0 /\ <<>> \in Seq(Time)
        BY <2>2, <3>4
      <4> QED BY <1>1, <1>2, <3>1, <4>1
    <3> QED BY <3>2, <3>3, <3>4
  <2> QED BY <2>2, <2>4 DEF BurstInv
<1>6. ASSUME NEW a \in Addresses, Forgets(r, a)
      PROVE  /\ BurstInv' /\ attempts' \in [Addresses -> Seq(Time)]
             /\ tracked' \in SUBSET Addresses
  <2>1. attempts' = [attempts EXCEPT ![a] = <<>>] /\ tracked' = tracked \ {a}
    BY <1>6 DEF Forgets
  <2>2. PICK new : request' = [request EXCEPT ![r] = new] /\ new.kind # "login"
    BY <1>6 DEF Forgets
  <2>3. ASSUME NEW o \in Addresses PROVE Bounded(o)'
    <3>1. /\ Cardinality(InFlight(o)') <= Cardinality(InFlight(o))
          /\ Cardinality(InFlight(o)') \in Nat /\ Cardinality(InFlight(o)) \in Nat
      BY <1>1, <2>2, InFlightShrinks
    <3>2. Len(attempts'[o]) \in Nat /\ Len(attempts'[o]) <= Len(attempts[o])
      <4>1. attempts'[o] = IF o = a THEN <<>> ELSE attempts[o]
        BY <1>1, <2>1
      <4> QED BY <1>1, <4>1
    <3> QED BY <1>1, <1>2, <3>1, <3>2
  <2>4. attempts' \in [Addresses -> Seq(Time)]
    BY <1>1, <2>1
  <2> QED BY <1>1, <2>1, <2>3, <2>4 DEF BurstInv
<1>7. ASSUME NEW a \in Addresses, Admits(r, a) PROVE tracked' = tracked
  BY <1>7 DEF Admits
<1> QED BY <1>1, <1>3, <1>4, <1>5, <1>6, <1>7, ThrottleSteps

-----------------------------------------------------------------------------
(* The row and the cookies. *)

\* Who writes the row, and what: all else leaves it alone.
LEMMA AccountStep ==
  ASSUME IInv, NEW r \in Requests, Handler(r)
  PROVE  account' \in User /\ (account' = account \/ CommitFailure(r) \/ CommitSuccess(r))
<1> DEFINE q == request[r]
<1>1. q \in Request /\ account \in User /\ Sound(q, sessions, life)
  BY DEF IInv, RequestInv, TypeOK
<1>2. CASE CommitFailure(r)
  <2>1. q.phase = "failing" /\ q.copy.failures \in Nat /\ q.copy.failures < MaxFailures
        /\ q.until \in Deadline
    BY <1>1, <1>2 DEF CommitFailure, Sound, Request, User
  <2>2. q.copy.failures + 1 \in 0..MaxFailures
    BY <2>1, Constants
  <2>3. account' = [account EXCEPT !.failures = q.copy.failures + 1,
          !.lockedUntil = IF q.until # q.copy.lockedUntil THEN q.until ELSE account.lockedUntil]
    BY <1>2 DEF CommitFailure
  <2>4. account' \in User
    BY <1>1, <2>1, <2>2, <2>3 DEF User
  <2> QED BY <1>2, <2>4
<1>3. CASE CommitSuccess(r)
  <2>1. 0 \in 0..MaxFailures /\ Never \in Deadline
    BY Constants DEF Never, Deadline
  <2>2. account' \in User
    BY <1>1, <1>3, <2>1 DEF CommitSuccess, User
  <2> QED BY <1>3, <2>2
<1>4. CASE ~CommitFailure(r) /\ ~CommitSuccess(r)
  <2>1. account' = account
    BY <1>4 DEF Handler, Send, Deliver, DeliverNothing, Reject, Gate, LoadUser, Logout, Login,
      Load, RefuseLocked, Mismatch, Match, Fail, CommitRaises, Open, RefuseNew, SetPassword, row
  <2> QED BY <1>1, <2>1
<1> QED BY <1>2, <1>3, <1>4

\* Only requests are ahead of a lock.
LEMMA AheadStep ==
  ASSUME IInv, NEW r \in Requests, Handler(r)
  PROVE  ahead' \in SUBSET Requests
<1>1. ahead \in SUBSET Requests /\ Deciding \in SUBSET Requests
  BY DEF IInv, TypeOK, Deciding
<1>2. CASE CommitFailure(r) \/ CommitSuccess(r) \/ CommitRaises(r) \/ RefuseLocked(r)
  BY <1>1, <1>2 DEF CommitFailure, CommitSuccess, CommitRaises, RefuseLocked
<1>3. CASE ~(CommitFailure(r) \/ CommitSuccess(r) \/ CommitRaises(r) \/ RefuseLocked(r))
  <2>1. ahead' = ahead
    BY <1>3 DEF Handler, Send, Deliver, DeliverNothing, Reject, Gate, LoadUser, Logout, Login,
      Load, Mismatch, Match, Fail, Open, RefuseNew, SetPassword, row
  <2> QED BY <1>1, <2>1
<1> QED BY <1>2, <1>3

\* A browser takes the session of an answer, and only that.
LEMMA CookieStep ==
  ASSUME IInv, NEW r \in Requests, Handler(r)
  PROVE  /\ cookie' \in [Browsers -> Session \union {NoSession}]
         /\ CookieInv'
<1>1. /\ cookie \in [Browsers -> Session \union {NoSession}] /\ CookieInv
      /\ request[r] \in Request /\ Fits(request[r].session, sessions, life)
  BY DEF IInv, RequestInv, Sound, TypeOK
<1>2. /\ cookie' \in [Browsers -> Session \union {NoSession}]
      /\ \A b \in Browsers : cookie'[b] \in {cookie[b], request[r].session}
  <2>1. CASE Deliver(r)
    <3>1. cookie' = [cookie EXCEPT ![request[r].browser] = request[r].session]
      BY <2>1 DEF Deliver
    <3>2. request[r].session \in Session \union {NoSession}
      BY <1>1 DEF Request
    <3> QED BY <1>1, <3>1, <3>2
  <2>2. CASE ~Deliver(r)
    <3>1. cookie' = cookie
      BY <2>2 DEF Handler, Send, DeliverNothing, Reject, Gate, LoadUser, Logout, Login, Load,
        RefuseLocked, Mismatch, Match, CommitFailure, Fail, CommitSuccess, CommitRaises, Open,
        RefuseNew, SetPassword, browser
    <3> QED BY <1>1, <3>1
  <2> QED BY <2>1, <2>2
<1>3. \A s \in Session \union {NoSession} :
        Fits(s, sessions, life) => Fits(s, sessions', life')
  BY SessionsGrow
<1>4. ASSUME NEW b \in Browsers PROVE Fits(cookie'[b], sessions', life')
  <2>1. cookie'[b] \in Session \union {NoSession}
    BY <1>2
  <2>2. Fits(cookie'[b], sessions, life)
    BY <1>1, <1>2 DEF CookieInv
  <2> QED BY <1>3, <2>1, <2>2
<1> QED BY <1>2, <1>4 DEF CookieInv

-----------------------------------------------------------------------------
(* The invariant is inductive. *)

LEMMA HandlerStep ==
  ASSUME IInv, NEW r \in Requests, Handler(r)
  PROVE  IInv'
<1>1. /\ now' = now /\ now \in Time
      /\ request \in [Requests -> Request]
  BY RequestStep DEF IInv, TypeOK
<1>2. PICK new : request' = [request EXCEPT ![r] = new] /\ Sound(new, sessions', life')
  BY RequestStep
<1>3. \A s \in Session \union {NoSession} :
        Fits(s, sessions, life) => Fits(s, sessions', life')
  BY SessionsGrow
<1>4. ASSUME NEW s \in Requests PROVE Sound(request'[s], sessions', life')
  <2>1. CASE s = r
    <3>1. request'[s] = new
      BY <1>1, <1>2, <2>1
    <3> QED BY <1>2, <3>1
  <2>2. CASE s # r
    <3>1. request'[s] = request[s] /\ request[s] \in Request /\ Sound(request[s], sessions, life)
      BY <1>1, <1>2, <2>2 DEF IInv, RequestInv
    <3>2. request[s].session \in Session \union {NoSession}
      BY <3>1 DEF Request
    <3>3. Fits(request[s].session, sessions, life)
      BY <3>1 DEF Sound
    <3>4. Fits(request[s].session, sessions', life')
      BY <1>3, <3>2, <3>3
    <3>5. Sound(request[s], sessions', life')
      BY <3>1, <3>4 DEF Sound
    <3> QED BY <3>1, <3>5
  <2> QED BY <2>1, <2>2
<1>5. RequestInv'
  BY <1>4 DEF RequestInv
<1>6. request' \in [Requests -> Request]
  <2>1. new \in Request
    BY <1>2 DEF Sound
  <2> QED BY <1>1, <1>2, <2>1
<1>7. TypeOK'
  <2>1. now' \in Time
    BY <1>1
  <2>2. /\ \A s \in Requests : request'[s].phase # "idle" => request'[s].browser \in Browsers
        /\ \A s \in Requests : request'[s].kind = "login" => request'[s].address \in Addresses
    BY <1>4 DEF Sound
  <2>3. account' \in User
    BY AccountStep
  <2>4. attempts' \in [Addresses -> Seq(Time)] /\ tracked' \in SUBSET Addresses
    BY BurstStep
  <2>5. cookie' \in [Browsers -> Session \union {NoSession}]
    BY CookieStep
  <2>6. sessions' \in 0..MaxSessions /\ life' \in [1..MaxSessions -> [opened : Time, used : Time]]
    BY SessionsGrow
  <2>7. ahead' \in SUBSET Requests
    BY AheadStep
  <2> QED BY <1>6, <2>1, <2>2, <2>3, <2>4, <2>5, <2>6, <2>7 DEF TypeOK
<1>8. LifeInv'
  BY <1>1, SessionsGrow DEF LifeInv
<1> QED BY <1>5, <1>7, <1>8, CookieStep, BurstStep DEF IInv

LEMMA CrashStep == IInv /\ Crash => IInv'
<1> SUFFICES ASSUME IInv, Crash PROVE IInv'
  OBVIOUS
<1> USE DEF Crash, browser
<1>1. TypeOK'
  BY Nulls DEF IInv, TypeOK, NoRequest
<1>2. RequestInv'
  BY Nulls DEF RequestInv, Sound, Fits, NoRequest
<1>3. CookieInv' /\ LifeInv'
  BY DEF IInv, CookieInv, LifeInv, Fits
<1>4. BurstInv'
  <2> SUFFICES ASSUME NEW a \in Addresses
      PROVE Len(attempts'[a]) + Cardinality(InFlight(a)') < MaxAttempts + Cardinality(Requests)
    BY DEF BurstInv
  <2>1. InFlight(a)' = {}
    BY DEF InFlight, NoRequest
  <2>2. Cardinality(InFlight(a)') = 0
    BY <2>1, FS_EmptySet
  <2>3. Len(attempts'[a]) = 0
    OBVIOUS
  <2> QED BY <2>2, <2>3, Constants
<1> QED BY <1>1, <1>2, <1>3, <1>4 DEF IInv

\* The clock and the command line leave requests, sessions and throttle alone.
LEMMA QuietStep == IInv /\ (Tick \/ ResetPassword \/ UNCHANGED vars) => IInv'
<1> SUFFICES ASSUME IInv, Tick \/ ResetPassword \/ UNCHANGED vars PROVE IInv'
  OBVIOUS
<1>1. UNCHANGED <<throttle, request, browser>>
  BY DEF Tick, ResetPassword, vars, throttle, browser
<1>2. now' \in Time /\ now' >= now
  BY Constants DEF IInv, TypeOK, Time, Tick, ResetPassword, vars
<1>3. account' \in User
  <2>1. account \in User /\ 0 \in 0..MaxFailures /\ Never \in Deadline
    BY Constants DEF IInv, TypeOK, Never, Deadline
  <2>2. CASE ResetPassword
    <3>1. account.failures \in 0..MaxFailures /\ account.lockedUntil \in Deadline
      BY <2>1 DEF User
    <3> QED BY <2>1, <2>2, <3>1 DEF ResetPassword, User
  <2>3. CASE Tick \/ UNCHANGED vars
    BY <2>1, <2>3 DEF Tick, vars, row
  <2> QED BY <2>2, <2>3
<1>4. TypeOK'
  <2>1. ahead' = ahead
    BY DEF Tick, ResetPassword, vars, row
  <2> QED BY <1>1, <1>2, <1>3, <2>1 DEF IInv, TypeOK, throttle, browser
<1>5. LifeInv'
  <2>1. \A s \in 1..MaxSessions : life[s].used \in Nat /\ life[s].used <= now
    BY DEF IInv, TypeOK, LifeInv, Time
  <2>2. now \in Nat /\ now' \in Nat
    BY <1>2 DEF IInv, TypeOK, Time
  <2> QED BY <1>1, <1>2, <2>1, <2>2 DEF LifeInv, browser
<1>6. RequestInv' /\ CookieInv'
  BY <1>1 DEF IInv, RequestInv, CookieInv, Sound, Fits, browser
<1>7. BurstInv'
  BY <1>1 DEF IInv, BurstInv, InFlight, throttle
<1> QED BY <1>4, <1>5, <1>6, <1>7 DEF IInv

\* Every step keeps the invariant.
LEMMA StepIInv == IInv /\ [Next]_vars => IInv'
BY HandlerStep, CrashStep, QuietStep DEF Next

-----------------------------------------------------------------------------
(* The lock. *)

Decides(q) == q.phase \in {"checking", "failing", "passing"}

\* A request that is not ahead of the lock on record loaded that very lock, or
\* the lock is gone; and who is past the check loaded none that was in force.
LockInv == \A r \in Requests :
  /\ Decides(request[r]) /\ r \notin ahead =>
       account.lockedUntil \in {Never, request[r].copy.lockedUntil}
  /\ request[r].phase \in {"failing", "passing"} => request[r].copy.lockedUntil <= now

\* So a lock in force was written after everyone past the check had loaded.
LEMMA BehindIsOver ==
  ASSUME IInv, LockInv, NEW r \in Requests, request[r].phase \in {"failing", "passing"},
         account.lockedUntil > now
  PROVE  r \in ahead
<1>1. /\ now \in Nat /\ account.lockedUntil \in Nat /\ request[r].copy.lockedUntil \in Nat
  BY Constants DEF IInv, TypeOK, Time, User, Deadline, Request
<1> QED BY <1>1 DEF LockInv, Decides, Never

\* What a handler does to its own request, as far as the row is concerned.
LEMMA DecidingStep ==
  ASSUME IInv, NEW r \in Requests, Handler(r), Decides(request'[r])
  PROVE  /\ account' = account
         /\ \/ request'[r].copy = account /\ request'[r].phase = "checking"
            \/ /\ ahead' = ahead
               /\ request'[r].copy = request[r].copy /\ Decides(request[r])
               /\ \/ request'[r].phase = request[r].phase
                  \/ request[r].copy.lockedUntil <= now
<1> DEFINE q == request[r]
<1>1. q \in Request /\ request \in [Requests -> Request]
  BY DEF IInv, TypeOK
<1>2. ASSUME Ends(r) PROVE FALSE
  <2>1. request'[r] = NoRequest
    BY <1>1, <1>2 DEF Ends, Becomes
  <2> QED BY <2>1 DEF NoRequest, Decides
<1>3. ASSUME NEW t, Answers(r, t) PROVE FALSE
  <2>1. request'[r].phase = "answered"
    BY <1>1, <1>3 DEF Answers, Becomes, NoRequest
  <2> QED BY <2>1 DEF Decides
<1>4. ASSUME NEW p, Moves(r, p) PROVE request'[r].phase = p /\ request'[r].copy = q.copy
  BY <1>1, <1>4 DEF Moves, Becomes, Request
<1>5. ~(Deliver(r) \/ DeliverNothing(r) \/ Reject(r) \/ CommitRaises(r) \/ RefuseNew(r)
        \/ SetPassword(r) \/ Open(r) \/ RefuseLocked(r) \/ Fail(r))
  BY <1>2, <1>3 DEF Deliver, DeliverNothing, Reject, CommitRaises, RefuseNew, SetPassword, Open,
    StartSession, RefuseLocked, Fail
<1>6. ~Gate(r)
  BY <1>3, <1>4 DEF Gate, Decides
<1>7. ~(Send(r) \/ Logout(r))
  <2>1. ASSUME NEW b, NEW k, NEW p \in {"sent", "answered"}, NEW c,
               request' = [request EXCEPT ![r] = [NoRequest EXCEPT !.kind = k, !.phase = p,
                                                    !.browser = b, !.session = c]]
        PROVE  FALSE
    BY <1>1, <2>1 DEF NoRequest, Decides
  <2>2. ~Send(r)
    BY <2>1 DEF Send, Becomes
  <2>3. ~Logout(r)
    <3> SUFFICES ASSUME Logout(r) PROVE FALSE
      OBVIOUS
    <3>1. PICK b \in Browsers :
            request' = [request EXCEPT ![r] = [NoRequest EXCEPT !.phase = "answered", !.browser = b]]
      BY DEF Logout, Becomes
    <3> QED BY <1>1, <3>1 DEF NoRequest, Decides
  <2> QED BY <2>2, <2>3
<1>8. ~(CommitFailure(r) \/ CommitSuccess(r))
  <2>1. ASSUME NEW p \in {"failed", "passed"}, request' = [request EXCEPT ![r] = Decided(q, p)]
        PROVE  FALSE
    <3>1. request'[r].phase = p
      BY <1>1, <2>1 DEF Decided, Request
    <3> QED BY <3>1 DEF Decides
  <2> QED BY <2>1 DEF CommitFailure, CommitSuccess, Becomes
<1>9. CASE Login(r)
  <2>1. PICK b \in Browsers, a \in Addresses :
          \/ request' = request
          \/ request' = [request EXCEPT ![r] = [NoRequest EXCEPT !.kind = "login",
               !.phase = "admitted", !.browser = b, !.address = a]]
    BY <1>9 DEF Login, Becomes
  <2>2. request' # request => request'[r].phase = "admitted"
    BY <1>1, <2>1 DEF NoRequest
  <2>3. q.phase = "idle"
    BY <1>9 DEF Login
  <2> QED BY <2>2, <2>3 DEF Decides
<1>10. CASE Load(r)
  <2>1. request'[r] = [q EXCEPT !.phase = "checking", !.copy = account]
    BY <1>1, <1>10 DEF Load, Becomes
  <2>2. request'[r].phase = "checking" /\ request'[r].copy = account
    BY <1>1, <2>1 DEF Request
  <2> QED BY <1>10, <2>2 DEF Load, row
<1>11. CASE LoadUser(r)
  <2>1. q.kind # "page"
    BY <1>3, <1>11 DEF LoadUser
  <2>2. request'[r] = [q EXCEPT !.phase = "checking", !.copy = account,
                               !.session = Touched(q.session)]
    BY <1>1, <1>11, <2>1 DEF LoadUser, Becomes
  <2>3. request'[r].phase = "checking" /\ request'[r].copy = account
    BY <1>1, <2>2 DEF Request
  <2> QED BY <1>11, <2>3 DEF LoadUser, row
<1>12. CASE Mismatch(r)
  <2>1. PICK u : request' = [request EXCEPT ![r] = [q EXCEPT !.phase = "failing", !.until = u]]
    <3>1. CASE q.copy.failures + 1 >= Threshold
      BY <1>12, <3>1 DEF Mismatch, Becomes
    <3>2. CASE ~(q.copy.failures + 1 >= Threshold)
      BY <1>12, <3>2 DEF Mismatch, Becomes
    <3> QED BY <3>1, <3>2
  <2>2. request'[r].copy = q.copy
    BY <1>1, <2>1 DEF Request
  <2>3. account' = account /\ ahead' = ahead /\ Decides(q) /\ q.copy.lockedUntil <= now
    BY <1>12 DEF Mismatch, row, Decides
  <2> QED BY <2>2, <2>3
<1>13. CASE Match(r)
  BY <1>4, <1>13 DEF Match, row, Decides
<1> QED
  BY <1>5, <1>6, <1>7, <1>8, <1>9, <1>10, <1>11, <1>12, <1>13 DEF Handler

\* What it does to the row, as far as the other requests are concerned.
LEMMA RowStep ==
  ASSUME IInv, NEW r \in Requests, Handler(r)
  PROVE  \/ account'.lockedUntil \in {Never, account.lockedUntil} /\ ahead \ {r} \subseteq ahead'
         \/ \A s \in Requests \ {r} : Decides(request[s]) => s \in ahead'
<1> DEFINE q == request[r]
<1>1. account \in User
  BY DEF IInv, TypeOK
<1>2. CASE CommitFailure(r)
  <2>1. CASE q.until # q.copy.lockedUntil
    BY <1>2, <2>1 DEF CommitFailure, Deciding, Decides
  <2>2. CASE q.until = q.copy.lockedUntil
    BY <1>1, <1>2, <2>2 DEF CommitFailure, User
  <2> QED BY <2>1, <2>2
<1>3. CASE CommitSuccess(r)
  BY <1>1, <1>3 DEF CommitSuccess, User
<1>4. CASE ~CommitFailure(r) /\ ~CommitSuccess(r)
  <2>1. account' = account /\ ahead \ {r} \subseteq ahead'
    BY <1>4 DEF Handler, Send, Deliver, DeliverNothing, Reject, Gate, LoadUser, Logout, Login,
      Load, RefuseLocked, Mismatch, Match, Fail, CommitRaises, Open, RefuseNew, SetPassword, row
  <2> QED BY <2>1
<1> QED BY <1>2, <1>3, <1>4

LEMMA HandlerLock ==
  ASSUME IInv, LockInv, NEW r \in Requests, Handler(r)
  PROVE  LockInv'
<1>1. now' = now /\ request \in [Requests -> Request]
      /\ \E new : request' = [request EXCEPT ![r] = new]
  BY RequestStep DEF IInv, TypeOK
<1>2. ASSUME NEW s \in Requests
      PROVE  /\ Decides(request'[s]) /\ s \notin ahead' =>
                  account'.lockedUntil \in {Never, request'[s].copy.lockedUntil}
             /\ request'[s].phase \in {"failing", "passing"} => request'[s].copy.lockedUntil <= now'
  <2>1. CASE s = r
    <3> SUFFICES ASSUME Decides(request'[r])
        PROVE  /\ r \notin ahead' =>
                    account'.lockedUntil \in {Never, request'[r].copy.lockedUntil}
               /\ request'[r].phase \in {"failing", "passing"} => request'[r].copy.lockedUntil <= now
      BY <1>1, <2>1 DEF Decides
    <3>1. /\ account' = account
          /\ \/ request'[r].copy = account /\ request'[r].phase = "checking"
             \/ /\ ahead' = ahead
                /\ request'[r].copy = request[r].copy /\ Decides(request[r])
                /\ \/ request'[r].phase = request[r].phase
                   \/ request[r].copy.lockedUntil <= now
      BY DecidingStep
    <3> QED BY <3>1 DEF LockInv
  <2>2. CASE s # r
    <3>1. request'[s] = request[s]
      BY <1>1, <2>2
    <3> QED BY <1>1, <2>2, <3>1, RowStep DEF LockInv
  <2> QED BY <2>1, <2>2
<1> QED BY <1>2 DEF LockInv, Decides

-----------------------------------------------------------------------------
(* The theorems. *)

\* The invariant holds of every reachable state.
THEOREM Inductive == Spec => []IInv
<1>1. Init => IInv
  BY InitIInv
<1>2. IInv /\ [Next]_vars => IInv'
  BY StepIInv
<1> QED BY <1>1, <1>2, PTL DEF Spec

\* The lock invariant holds of every reachable state.
THEOREM LocksInductive == Spec => []LockInv
<1>1. Init => LockInv
  BY DEF Init, LockInv, NoRequest, Decides
<1>2. IInv /\ LockInv /\ [Next]_vars => LockInv'
  <2> SUFFICES ASSUME IInv, LockInv, [Next]_vars PROVE LockInv'
    OBVIOUS
  <2>1. CASE \E r \in Requests : Handler(r)
    BY <2>1, HandlerLock
  <2>2. CASE Crash
    BY <2>2 DEF Crash, LockInv, NoRequest, Decides
  <2>3. CASE ResetPassword
    <3>1. account'.lockedUntil \in {Never, account.lockedUntil}
      BY <2>3 DEF ResetPassword
    <3>2. UNCHANGED <<now, ahead, request>>
      BY <2>3 DEF ResetPassword
    <3> QED BY <3>1, <3>2 DEF LockInv, Decides
  <2>4. CASE Tick
    <3>1. \A r \in Requests : request[r].copy.lockedUntil \in Nat
      BY Constants DEF IInv, TypeOK, Request, User, Deadline
    <3>2. now \in Nat /\ now' = now + 1 /\ UNCHANGED <<account, ahead, request>>
      BY <2>4 DEF IInv, TypeOK, Time, Tick, row
    <3> QED BY <3>1, <3>2 DEF LockInv, Decides
  <2>5. CASE UNCHANGED vars
    BY <2>5 DEF vars, LockInv, Decides
  <2> QED BY <2>1, <2>2, <2>3, <2>4, <2>5 DEF Next
<1> QED BY <1>1, <1>2, Inductive, PTL DEF Spec

\* The state has its type; the lock ends within the model's clock and the
\* longest lock.
THEOREM TypeCorrect == Spec => []TypeOK
<1>1. IInv => TypeOK
  BY DEF IInv
<1> QED BY <1>1, Inductive, PTL

\* Failures counted against an address stay below the limit plus the number
\* of requests in flight, whatever is restarted or pruned in between.
THEOREM BurstsAreBounded == Spec => []BurstIsBounded
<1>1. IInv => BurstIsBounded
  <2> SUFFICES ASSUME IInv, NEW a \in Addresses
      PROVE Len(attempts[a]) < MaxAttempts + Cardinality(Requests)
    BY DEF BurstIsBounded
  <2>1. Len(attempts[a]) \in Nat
        /\ Len(attempts[a]) + Cardinality(InFlight(a)) < MaxAttempts + Cardinality(Requests)
    BY DEF IInv, TypeOK, BurstInv
  <2>2. InFlight(a) \subseteq Requests
    BY DEF InFlight
  <2>3. Cardinality(InFlight(a)) \in Nat
    BY <2>2, Constants, FS_Subset, FS_CardinalityType
  <2> QED BY <2>1, <2>3, Constants
<1> QED BY <1>1, Inductive, PTL

\* The only handler that admits a page asks the session it came with.
LEMMA OnlyGateAdmits ==
  ASSUME IInv, NEW s \in Requests, NEW r \in Requests, Handler(s),
         request[r].phase = "sent", request'[r].phase = "admitted",
         request[r].kind \in {"page", "change"}
  PROVE  Gate(r) /\ Live(request[r].session)
<1> DEFINE q == request[r]
<1>1. q \in Request /\ request \in [Requests -> Request]
  BY DEF IInv, TypeOK
<1>2. s = r
  <2>1. PICK new : request' = [request EXCEPT ![s] = new]
    BY RequestStep
  <2> QED BY <1>1, <2>1
<1>3. ~Ends(r) /\ \A t : ~Answers(r, t)
  <2>1. ASSUME Ends(r) PROVE FALSE
    <3>1. request'[r] = NoRequest
      BY <1>1, <2>1 DEF Ends, Becomes
    <3> QED BY <3>1 DEF NoRequest
  <2>2. ASSUME NEW t, Answers(r, t) PROVE FALSE
    <3>1. request'[r].phase = "answered"
      BY <1>1, <2>2 DEF Answers, Becomes, NoRequest
    <3> QED BY <3>1
  <2> QED BY <2>1, <2>2
<1>4. Gate(r)
  BY <1>2, <1>3 DEF Handler, Send, Deliver, DeliverNothing, Reject, LoadUser, Logout, Login, Load,
    RefuseLocked, Mismatch, Match, CommitFailure, Fail, CommitSuccess, CommitRaises, Open,
    RefuseNew, SetPassword
<1>5. Live(q.session)
  BY <1>3, <1>4 DEF Gate
<1> QED BY <1>4, <1>5

\* A page is served only within both lifetimes of the session it names,
\* counted from the opening and the last use the server itself saw: a cookie
\* brought back late, or by an answer that was overtaken, says no more than
\* that.
THEOREM SessionsDoExpire == Spec => SessionsExpire
<1> DEFINE Expires == \A r \in Requests :
      request[r].phase = "sent" /\ request'[r].phase = "admitted"
      /\ request[r].kind \in {"page", "change"} =>
        LET l == life[request[r].session.sid]
        IN  now - l.opened <= Absolute /\ now - l.used <= Idle
<1>1. IInv /\ [Next]_vars => [Expires]_vars
  <2> SUFFICES ASSUME IInv, Next, NEW r \in Requests,
                      request[r].phase = "sent", request'[r].phase = "admitted",
                      request[r].kind \in {"page", "change"}
      PROVE /\ now - life[request[r].session.sid].opened <= Absolute
            /\ now - life[request[r].session.sid].used <= Idle
    OBVIOUS
  <2>1. request \in [Requests -> Request] /\ now \in Nat
        /\ life \in [1..MaxSessions -> [opened : Time, used : Time]]
        /\ sessions \in 0..MaxSessions
    BY DEF IInv, TypeOK, Time
  <2>2. PICK s \in Requests : Handler(s)
    <3>1. ~Tick /\ ~ResetPassword
      BY DEF Tick, ResetPassword
    <3>2. ~Crash
      BY DEF Crash, NoRequest
    <3> QED BY <3>1, <3>2 DEF Next
  <2>3. Live(request[r].session)
    BY <2>2, OnlyGateAdmits
  <2> DEFINE c == request[r].session
  <2>4. c \in Session /\ Fits(c, sessions, life)
    BY <2>1, <2>3 DEF Live, Request, IInv, RequestInv, Sound
  <2>5. c.sid \in 1..MaxSessions /\ c.created = life[c.sid].opened /\ c.seen <= life[c.sid].used
    BY <2>1, <2>3, <2>4, Constants DEF Fits, Live
  <2>6. life[c.sid].used \in Nat /\ life[c.sid].opened \in Nat /\ c.seen \in Nat
    BY <2>1, <2>4, <2>5 DEF Session, Time
  <2>7. now - c.created <= Absolute /\ now - c.seen <= Idle
    BY <2>3 DEF Live
  <2> HIDE DEF c
  <2>8. now - life[c.sid].opened <= Absolute /\ now - life[c.sid].used <= Idle
    BY <2>1, <2>5, <2>6, <2>7, Constants
  <2> QED BY <2>8 DEF c
<1> QED BY <1>1, Inductive, PTL DEF Spec, SessionsExpire

\* A lock in force outlasts every request that loaded the account after it: it
\* is changed by the command line, or by a request that was ahead of it and has
\* the password or reached the threshold itself.
THEOREM LocksDoHold == Spec => LocksHold
<1> DEFINE ByWho == \/ UNCHANGED request
                    \/ \E r \in ahead :
                         \/ request[r].phase = "passing" /\ request'[r].phase = "passed"
                         \/ /\ request[r].phase = "failing" /\ request'[r].phase = "failed"
                            /\ request[r].copy.failures + 1 >= Threshold
                            /\ account'.lockedUntil = request[r].until
           Holds == account.lockedUntil > now /\ account'.lockedUntil # account.lockedUntil => ByWho
<1>1. IInv /\ LockInv /\ [Next]_vars => [Holds]_vars
  <2> SUFFICES ASSUME IInv, LockInv, Next, account.lockedUntil > now,
                      account'.lockedUntil # account.lockedUntil
      PROVE  ByWho
    OBVIOUS
  <2>1. CASE ResetPassword
    BY <2>1 DEF ResetPassword
  <2>2. CASE Tick \/ Crash
    BY <2>2 DEF Tick, Crash, row
  <2>3. ASSUME NEW r \in Requests, Handler(r)
        PROVE  ByWho
    <3>1. /\ request \in [Requests -> Request] /\ request[r] \in Request /\ account \in User
          /\ Sound(request[r], sessions, life)
      BY DEF IInv, TypeOK, RequestInv
    <3>2. ASSUME NEW p, request' = [request EXCEPT ![r] = Decided(request[r], p)]
          PROVE  request'[r].phase = p
      BY <3>1, <3>2 DEF Decided, Request
    <3>3. ASSUME request[r].phase \in {"failing", "passing"}
          PROVE  r \in ahead
      BY <3>3, BehindIsOver
    <3>4. CASE CommitSuccess(r)
      BY <3>2, <3>3, <3>4 DEF CommitSuccess, Becomes
    <3>5. CASE CommitFailure(r)
      <4>1. request[r].phase = "failing" /\ request'[r].phase = "failed"
        BY <3>2, <3>5 DEF CommitFailure, Becomes
      <4>2. account'.lockedUntil = IF request[r].until # request[r].copy.lockedUntil
                                   THEN request[r].until ELSE account.lockedUntil
        BY <3>1, <3>5 DEF CommitFailure, User
      <4>3. request[r].until # request[r].copy.lockedUntil /\ account'.lockedUntil = request[r].until
        BY <4>2
      <4> QED BY <3>1, <3>3, <4>1, <4>3 DEF Sound
    <3> QED BY <2>3, <3>4, <3>5, AccountStep
  <2> QED BY <2>1, <2>2, <2>3 DEF Next
<1> QED BY <1>1, Inductive, LocksInductive, PTL DEF Spec, LocksHold
=============================================================================
