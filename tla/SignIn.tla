-------------------------------- MODULE SignIn --------------------------------
(***************************************************************************)
(* Signing in: the limit on the requests of one address, and the lock on   *)
(* an account after failed attempts. Both are counters in Redis that one   *)
(* command raises and a second one makes expire, and requests and the      *)
(* death of the server come between the two. A session is a token of the   *)
(* identity service: the program keeps none.                               *)
(***************************************************************************)
EXTENDS Tenancy

CONSTANTS
    Addresses,
    RequestLimit,           \* requests of an address in a window
    loginBackoffThreshold,  \* failures that lock an account
    LongestLock,            \* loginBackoffMaxWindow, counted in doublings
    Accounts,               \* bound: users who sign in
    Attempts,               \* bound: requests at a time
    MaxFailures             \* bound: failures counted for an account

ASSUME SignInAssumption ==
    /\ {loginBackoffThreshold, LongestLock} \subseteq Nat \ {0}
    /\ {RequestLimit, MaxFailures} \subseteq Nat
    /\ NoPlan \notin Accounts

VARIABLES
    hits,      \* address -> requests counted, and whether the key expires
    fails,     \* account -> failures counted, and the lock: 0 when it does not expire
    attempt,   \* requests that try to sign in
    broken,    \* ghost: keys a command was lost for
    raced      \* ghost: accounts with several attempts at a time

signVars == <<hits, fails, attempt, broken, raced>>

-----------------------------------------------------------------------------
NoKey == [count |-> 0, expires |-> FALSE]
NoFailures == [count |-> 0, lock |-> 0]
NoAttempt == [at |-> "idle", who |-> NoPlan, from |-> NoPlan, count |-> 0]

Goto(r, from, to) == attempt[r].at = from /\ attempt' = [attempt EXCEPT ![r].at = to]
Answered(r, from) == attempt[r].at = from /\ attempt' = [attempt EXCEPT ![r] = NoAttempt]

Arrives(r, u, a, place) ==
    /\ "Login" \in team /\ attempt[r] = NoAttempt
    /\ attempt' = [attempt EXCEPT ![r] = [at |-> place, who |-> u, from |-> a, count |-> 0]]
    /\ raced' = IF \E o \in Attempts : attempt[o].who = u THEN raced \union {u} ELSE raced
    /\ UNCHANGED <<tenancyVars, fails, broken>>

\* The request over the limit is refused: 429.
Count(a) == hits[a].count < RequestLimit /\ hits' = [hits EXCEPT ![a].count = @ + 1]

\* mutant: the first request does not go on to set the expiry
AllowOnly(r, u, a) == Count(a) /\ Arrives(r, u, a, "allowed")

\* The first request of a window goes on to set its expiry.
Allow(r, u, a) == Count(a) /\ Arrives(r, u, a, IF hits[a].count = 0 THEN "first" ELSE "allowed")

SetExpiry(r) ==
    /\ Goto(r, "first", "allowed")
    /\ hits' = [hits EXCEPT ![attempt[r].from].expires = TRUE]
    /\ UNCHANGED <<tenancyVars, fails, broken, raced>>

\* A limiter that fails lets the request pass.
RateLimitFails(r, u, a) == Arrives(r, u, a, "allowed") /\ UNCHANGED hits

WindowOver(a) ==
    /\ hits[a].expires /\ hits' = [hits EXCEPT ![a] = NoKey]
    /\ UNCHANGED <<tenancyVars, fails, attempt, broken, raced>>

-----------------------------------------------------------------------------
IsLocked(u) == fails[u].count >= loginBackoffThreshold /\ fails[u].lock > 0

\* A key that cannot be read, or that never expires, locks nobody.
checkLoginBackoff(r) ==
    /\ attempt[r].at = "allowed"
    /\ \/ ~IsLocked(attempt[r].who) /\ Goto(r, "allowed", "checked") /\ UNCHANGED broken
       \/ IsLocked(attempt[r].who) /\ Answered(r, "allowed") /\ UNCHANGED broken
       \/ Goto(r, "allowed", "checked") /\ broken' = broken \union {attempt[r].who}
    /\ UNCHANGED <<tenancyVars, hits, fails, raced>>

\* The identity service refuses the password: the failure is counted, and
\* from the threshold on the request goes on to lock the account.
LoginFails(r) ==
    LET u == attempt[r].who
        n == fails[u].count + 1
    IN  /\ attempt[r].at = "checked" /\ n <= MaxFailures
        /\ IF n < loginBackoffThreshold THEN Answered(r, "checked")
           ELSE attempt' = [attempt EXCEPT ![r].at = "locking", ![r].count = n]
        /\ fails' = [fails EXCEPT ![u].count = n]
        /\ UNCHANGED <<tenancyVars, hits, broken, raced>>

\* The lock doubles with every failure over the threshold. The key may be
\* gone, or count from 1 again, by now.
recordLoginFailure(r) ==
    LET u == attempt[r].who
        over == attempt[r].count - loginBackoffThreshold + 1
    IN  /\ Answered(r, "locking")
        /\ fails' = IF fails[u].count = 0 THEN fails
                    ELSE [fails EXCEPT ![u].lock = IF over < LongestLock THEN over ELSE LongestLock]
        /\ UNCHANGED <<tenancyVars, hits, broken, raced>>

LockOver(u) ==
    /\ fails[u].lock > 0 /\ fails' = [fails EXCEPT ![u] = NoFailures]
    /\ UNCHANGED <<tenancyVars, hits, attempt, broken, raced>>

\* The password is right: a suspended user is refused and his failures stay.
Login(r) ==
    /\ Answered(r, "checked")
    /\ fails' = IF attempt[r].who \in suspended THEN fails
                ELSE [fails EXCEPT ![attempt[r].who] = NoFailures]
    /\ UNCHANGED <<tenancyVars, hits, broken, raced>>

\* The server dies, or Redis is lost for a moment.
Die(r) ==
    /\ \E place \in {"first", "allowed", "checked", "locking"} : Answered(r, place)
    /\ broken' = CASE attempt[r].at = "first" -> broken \union {attempt[r].from}
                   [] attempt[r].at = "locking" -> broken \union {attempt[r].who}
                   [] OTHER -> broken
    /\ UNCHANGED <<tenancyVars, hits, fails, raced>>

-----------------------------------------------------------------------------
SignInInit ==
    /\ hits = [a \in Addresses |-> NoKey] /\ fails = [u \in Accounts |-> NoFailures]
    /\ attempt = [r \in Attempts |-> NoAttempt] /\ broken = {} /\ raced = {}

SignInNext ==
    \/ \E r \in Attempts :
          \/ \E u \in Accounts, a \in Addresses : Allow(r, u, a) \/ RateLimitFails(r, u, a)
          \/ SetExpiry(r) \/ checkLoginBackoff(r)
          \/ LoginFails(r) \/ recordLoginFailure(r) \/ Login(r) \/ Die(r)
    \/ \E a \in Addresses : WindowOver(a)
    \/ \E u \in Accounts : LockOver(u)

SignInSpec == SignInInit /\ [][SignInNext]_signVars

-----------------------------------------------------------------------------
(* Properties                                                              *)

\* Whom the program keeps out it lets in again: an address that is counted
\* and an account that is locked have a key that expires, or a request about
\* to make it expire, unless that request died. And an account is locked for
\* longer than the shortest time only when attempts on it overlapped: one
\* after the other, each lock's end forgets the failures before it.
LockoutsEnd ==
    /\ \A a \in Addresses :
          hits[a].count > 0 /\ ~hits[a].expires =>
              a \in broken \/ \E r \in Attempts : attempt[r].from = a /\ attempt[r].at = "first"
    /\ \A u \in Accounts :
          /\ fails[u].count >= loginBackoffThreshold /\ fails[u].lock = 0 =>
                u \in broken \/ \E r \in Attempts : attempt[r].who = u /\ attempt[r].at = "locking"
          /\ fails[u].lock > 1 => u \in raced \union broken
=============================================================================
