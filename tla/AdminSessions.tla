---------------------------- MODULE AdminSessions ----------------------------
(* Who may use the panel: AdminAuth (src/src/ingress/admin/auth.ts) and the     *)
(* requests of AdminServer that reach it (server.ts).  A request is suspended   *)
(* while its body arrives and while a password is hashed, and other requests,   *)
(* a change of the password among them, go on in between.  A hash is the        *)
(* password with its salt, a token the number of its session.                   *)
EXTENDS Integers, Sequences, FiniteSets

CONSTANTS Requests,      \* requests the server may have in flight
          ClientOf,      \* [Requests -> transport addresses]
          Names, Secrets, Malformed,  \* user names, passwords; what no account can match
          MaxAttempts,   \* MAX_FAILED_ATTEMPTS
          Lockout,       \* LOCKOUT_MS, in ticks
          MaxTracked,    \* MAX_TRACKED_CLIENTS
          MaxHashes,     \* MAX_CONCURRENT_HASHES
          SessionTicks,  \* session_ttl_hours, in ticks
          TokenBound, TimeBound  \* bounds of the exploration

ASSUME SessionsAssumption ==
    /\ IsFiniteSet(Requests)
    /\ Malformed \notin Names \cup Secrets
    /\ {MaxAttempts, Lockout, MaxTracked, MaxHashes, SessionTicks} \subseteq Nat \ {0}

VARIABLES users,     \* admin_users, by id
          sessions,  \* admin_sessions
          failures,  \* #failures, by client; before: the clients that stand before it
          hashing,   \* #hashing
          requests,  \* the requests in flight
          time,      \* the clock
          issued,    \* tokens given out so far
          attempts   \* history: [client -> times of its guesses since it was last let in]

sessionVars == <<users, sessions, failures, hashing, requests, time, issued, attempts>>

Clients == {ClientOf[q] : q \in Requests}
Free == [kind |-> "none", stage |-> "free", user |-> 0, hash |-> Malformed,
         name |-> Malformed, secret |-> Malformed, since |-> 0]
NoFailures == [k \in {} |-> Free]

SessionsInit ==
    /\ users = <<>> /\ sessions = {} /\ failures = NoFailures /\ hashing = 0 /\ time = 0
    /\ requests = [q \in Requests |-> Free]
    /\ issued = 0
    /\ attempts = [k \in Clients |-> <<>>]

-------------------------------------------------------------------------------
(* Sessions *)

\* setupRequired
SetupRequired == users = <<>>

\* purgeExpired
Current(rows, at) == {s \in rows : s.expires > at}

\* #createSession, inside the caller's transaction on rows that it may have changed
CreateSession(rows, user, hash, at) ==
    /\ sessions' = Current(rows, at)
          \cup {[token |-> issued + 1, user |-> user, expires |-> at + SessionTicks, hash |-> hash]}
    /\ issued' = issued + 1

\* authenticate: the user of the token's session, or 0
UserOf(token) ==
    IF \E s \in sessions : s.token = token /\ s.expires > time
    THEN (CHOOSE s \in sessions : s.token = token).user ELSE 0

\* authenticate: what is left of the sessions
AfterLookup(token) == {s \in sessions : s.token # token \/ s.expires > time}

-------------------------------------------------------------------------------
(* The login throttle *)

Kept(rows, clients) ==
    [k \in clients |-> [rows[k] EXCEPT !.before = @ \cap clients]]

\* #sweepFailures: lastAt + LOCKOUT_MS is never before lockedUntil
Swept(rows) == Kept(rows, {k \in DOMAIN rows : rows[k].lastAt + Lockout > time})

Without(rows, client) == Kept(rows, DOMAIN rows \ {client})

\* What is written of a client that has failed, behind the rows of the others
Failure(rows, count) ==
    [count |-> count, lastAt |-> time, before |-> DOMAIN rows,
     lockedUntil |-> IF count >= MaxAttempts THEN time + Lockout ELSE 0]

\* MAX_TRACKED_CLIENTS: the client that failed longest ago is forgotten
Capped(rows) ==
    IF Cardinality(DOMAIN rows) <= MaxTracked THEN rows
    ELSE Kept(rows, {k \in DOMAIN rows : rows[k].before # {}})

\* #recordFailure: the client moves to the end
RecordFailure(rows, client) ==
    LET others == Without(rows, client)
        count == IF client \in DOMAIN rows THEN rows[client].count + 1 ELSE 1
    IN Capped([k \in DOMAIN others \cup {client} |->
                  IF k = client THEN Failure(others, count) ELSE others[k]])

Locked(rows, client) == client \in DOMAIN rows /\ rows[client].lockedUntil > time

\* A guess is one password of an account that may exist; the throttle knows no
\* more of a client it has forgotten.
Guessed(rows, client) ==
    attempts' = [k \in Clients |->
                    IF k = client THEN Append(attempts[k], time)
                    ELSE IF k \in DOMAIN rows THEN attempts[k] ELSE <<>>]

-------------------------------------------------------------------------------
(* Requests *)

Reply(q) == requests' = [requests EXCEPT ![q] = Free]
Suspend(q, fields) == requests' = [requests EXCEPT ![q] = fields]

\* handle, #api: what needs no body is answered at once, after the lookup of its
\* cookie; a change of the credentials is suspended with the user it found.
Arrive(q) ==
    /\ requests[q].stage = "free"
    /\ \/ /\ \E kind \in {"setup", "login"} :
                Suspend(q, [Free EXCEPT !.kind = kind, !.stage = "body"])
          /\ UNCHANGED sessions
       \/ \E token \in 1..issued :
             /\ sessions' = AfterLookup(token)
             /\ IF UserOf(token) = 0 THEN UNCHANGED requests
                ELSE Suspend(q, [Free EXCEPT !.kind = "change", !.stage = "body",
                                             !.user = UserOf(token)])
       \/ \E token \in 1..issued :
             sessions' = {s \in sessions : s.token # token} /\ UNCHANGED requests
    /\ UNCHANGED <<users, failures, hashing, time, issued, attempts>>

\* #withHashSlot: its work begins, or the request is turned away
TakeSlot(q, fields) ==
    IF hashing >= MaxHashes THEN Reply(q) /\ UNCHANGED hashing
    ELSE Suspend(q, fields) /\ hashing' = hashing + 1

\* createFirstUser, up to the hash
SetupBody(q, name, secret) ==
    /\ IF Malformed \in {name, secret} \/ ~SetupRequired THEN Reply(q) /\ UNCHANGED hashing
       ELSE TakeSlot(q, [requests[q] EXCEPT !.stage = "hash", !.name = name, !.secret = secret,
                                            !.since = time])
    /\ UNCHANGED <<users, sessions, failures, time, issued, attempts>>

\* changeCredentials, up to the hash
ChangeBody(q, name, secret) ==
    /\ IF Malformed \in {name, secret} THEN Reply(q)
       ELSE Suspend(q, [requests[q] EXCEPT !.stage = "hash", !.name = name, !.secret = secret,
                                           !.since = time])
    /\ UNCHANGED <<users, sessions, failures, hashing, time, issued, attempts>>

\* login, up to the verification: a locked client is refused, an attempt that no
\* account can match is counted, any other is counted once it has its slot.
LoginBody(q, name, secret) ==
    LET client == ClientOf[q]
        swept == Swept(failures)
        known == {u \in DOMAIN users : users[u].name = name}
        user == IF known = {} THEN 0 ELSE CHOOSE u \in known : TRUE
        counted == RecordFailure(swept, client)
    IN /\ IF Locked(swept, client) THEN Reply(q) /\ failures' = swept /\ UNCHANGED <<hashing, attempts>>
          ELSE IF Malformed \in {name, secret}
          THEN Reply(q) /\ failures' = counted /\ Guessed(counted, client) /\ UNCHANGED hashing
          ELSE /\ TakeSlot(q, [requests[q] EXCEPT !.stage = "hash", !.user = user,
                                  !.hash = IF user = 0 THEN Malformed ELSE users[user].hash,
                                  !.secret = secret, !.since = time])
               /\ IF hashing >= MaxHashes THEN failures' = swept /\ UNCHANGED attempts
                  ELSE failures' = counted /\ Guessed(counted, client)
       /\ UNCHANGED <<users, sessions, time, issued>>

\* readCredentials: the body has arrived, or it is none
Body(q) ==
    /\ requests[q].stage = "body"
    /\ \/ \E name \in Names \cup {Malformed}, secret \in Secrets \cup {Malformed} :
             CASE requests[q].kind = "setup"  -> SetupBody(q, name, secret)
               [] requests[q].kind = "change" -> ChangeBody(q, name, secret)
               [] requests[q].kind = "login"  -> LoginBody(q, name, secret)
       \/ Reply(q) /\ UNCHANGED <<users, sessions, failures, hashing, time, issued, attempts>>

\* #withHashSlot's finally
ReturnSlot == hashing' = hashing - 1

\* hash: salted anew each time
HashOf(secret) == [secret |-> secret, salt |-> issued + 1]

\* createFirstUser's transaction, that looks again whether it is the first
SetupStored(q) ==
    LET r == requests[q]
        hash == HashOf(r.secret)
    IN /\ ReturnSlot
       /\ IF ~SetupRequired THEN UNCHANGED <<users, sessions, issued>>
          ELSE /\ users' = Append(users, [name |-> r.name, hash |-> hash])
               /\ CreateSession(sessions, Len(users) + 1, hash, r.since)
       /\ UNCHANGED <<failures, attempts>>

\* changeCredentials' transaction: every session of the user ends, one begins.
ChangeStored(q) ==
    LET r == requests[q]
        hash == HashOf(r.secret)
    IN /\ IF \E u \in DOMAIN users \ {r.user} : users[u].name = r.name
          THEN UNCHANGED <<users, sessions, issued>>
          ELSE /\ users' = [users EXCEPT ![r.user] = [name |-> r.name, hash |-> hash]]
               /\ CreateSession({s \in sessions : s.user # r.user}, r.user, hash, r.since)
       /\ UNCHANGED <<failures, hashing, attempts>>

\* Faulty: the account is not read again.
LoginVerifiedAnyway(q) ==
    LET r == requests[q]
        verified == r.user # 0 /\ r.hash.secret = r.secret
    IN /\ ReturnSlot
       /\ IF ~verified THEN UNCHANGED <<failures, attempts, sessions, issued>>
          ELSE /\ failures' = Without(failures, ClientOf[q])
               /\ attempts' = [attempts EXCEPT ![ClientOf[q]] = <<>>]
               /\ CreateSession(sessions, r.user, r.hash, r.since)
       /\ UNCHANGED users

\* login once the password is verified; the account is read again, since its
\* password may have changed meanwhile.
LoginVerified(q) ==
    LET r == requests[q]
        verified == r.user # 0 /\ r.hash.secret = r.secret
    IN /\ ReturnSlot
       /\ IF ~verified THEN UNCHANGED <<failures, attempts, sessions, issued>>
          ELSE /\ failures' = Without(failures, ClientOf[q])
               /\ attempts' = [attempts EXCEPT ![ClientOf[q]] = <<>>]
               /\ IF users[r.user].hash # r.hash THEN UNCHANGED <<sessions, issued>>
                  ELSE CreateSession(sessions, r.user, r.hash, r.since)
       /\ UNCHANGED users

\* The hash is ready and the transaction runs, or the hash has failed.
Hashed(q) ==
    /\ requests[q].stage = "hash"
    /\ Reply(q)
    /\ UNCHANGED time
    /\ \/ /\ issued < TokenBound
          /\ CASE requests[q].kind = "setup"  -> SetupStored(q)
               [] requests[q].kind = "change" -> ChangeStored(q)
               [] requests[q].kind = "login"  -> LoginVerified(q)
       \/ /\ hashing' = IF requests[q].kind = "change" THEN hashing ELSE hashing - 1
          /\ UNCHANGED <<users, sessions, failures, issued, attempts>>

\* start(): the throttle is in memory, the sessions are not.
RestartPanel ==
    /\ requests' = [q \in Requests |-> Free]
    /\ hashing' = 0 /\ failures' = NoFailures /\ attempts' = [k \in Clients |-> <<>>]
    /\ sessions' = Current(sessions, time)
    /\ UNCHANGED <<users, time, issued>>

SessionsTick ==
    /\ time < TimeBound
    /\ time' = time + 1
    /\ UNCHANGED <<users, sessions, failures, hashing, requests, issued, attempts>>

SessionsNext ==
    \/ \E q \in Requests : Arrive(q) \/ Body(q) \/ Hashed(q)
    \/ RestartPanel \/ SessionsTick

SessionsSpec == SessionsInit /\ [][SessionsNext]_sessionVars

-------------------------------------------------------------------------------
(* Properties *)

SessionsTypeOK ==
    /\ \A u \in DOMAIN users : users[u].name \in Names /\ users[u].hash.secret \in Secrets
    /\ \A s \in sessions : s.token \in 1..issued /\ s.user \in DOMAIN users
    /\ \A q \in Requests :
          /\ requests[q].kind \in {"none", "setup", "login", "change"}
          /\ requests[q].stage \in {"free", "body", "hash"}
    /\ hashing \in 0..MaxHashes /\ Cardinality(DOMAIN failures) <= MaxTracked

\* createFirstUser: however many setups race each other, one account comes of it.
OneAccount == Len(users) <= 1

\* login: a change of the password ends every session, and none begins for a
\* password that was current only when its verification began.
SessionsOfCurrentPassword ==
    \A s \in sessions : users[s.user].hash = s.hash

\* The panel is open to whoever knows the current password, and to them alone.
SessionsAreCurrent == SessionsTypeOK /\ OneAccount /\ SessionsOfCurrentPassword

\* login: counted before the slow verification, concurrent guesses of one client
\* are no more than MAX_FAILED_ATTEMPTS within a lockout.
GuessesAreBounded ==
    \A k \in Clients :
        Cardinality({i \in DOMAIN attempts[k] : attempts[k][i] + Lockout > time}) <= MaxAttempts

\* #withHashSlot: every slot that is out is a sign-in under way.
SlotsComeBack ==
    hashing = Cardinality({q \in Requests :
                  requests[q].stage = "hash" /\ requests[q].kind \in {"setup", "login"}})

\* The unauthenticated paths stay within their bounds and wait for nothing.
SignInIsBounded == GuessesAreBounded /\ SlotsComeBack

\* Both, under every overlap of the requests.
PanelIsGuarded == SessionsAreCurrent /\ SignInIsBounded

=============================================================================
