-------------------------- MODULE OrganizationProofs --------------------------
(***************************************************************************)
(* Theorems about an organisation: who joins it, what its podcasts refer   *)
(* to, what its videos are played from, whom signing in keeps out, what    *)
(* moderators took out of a thread, whom the worker writes to, what was    *)
(* called against a limit, who completed a simulation and what the SCORM   *)
(* runtime stores. A component's specification lets the variables of the   *)
(* others change while its own stay, so each theorem holds whatever runs   *)
(* beside it.                                                              *)
(***************************************************************************)
EXTENDS Podcasts, Uploads, SignIn, Community, Metering, Simulations, Scorm, RowLemmas

-----------------------------------------------------------------------------
(* Signing in                                                              *)

Places == {"first", "allowed", "checked", "locking"}

SignInTypes ==
  /\ hits \in [Addresses -> [count : Nat, expires : BOOLEAN]]
  /\ fails \in [Accounts -> [count : Nat, lock : Nat]]
  /\ attempt \in [Attempts -> [at : Places, who : Accounts, from : Addresses, count : Nat] \cup {NoAttempt}]
  /\ \A r \in Attempts :
        attempt[r] # NoAttempt /\ attempt[r].at = "locking" => attempt[r].count >= loginBackoffThreshold

(* Of an account whose attempts never overlapped, and for which no command  *)
(* was lost, one attempt at most is in progress and the count stops at the  *)
(* threshold.                                                               *)
Calm(u) ==
  /\ \A r, o \in Attempts : attempt[r].who = u /\ attempt[o].who = u => r = o
  /\ fails[u].count <= loginBackoffThreshold /\ fails[u].lock <= 1
  /\ fails[u].lock > 0 => fails[u].count = loginBackoffThreshold
  /\ \A r \in Attempts : attempt[r].who = u =>
        /\ attempt[r].at = "checked" => fails[u].count < loginBackoffThreshold
        /\ attempt[r].at = "locking" => /\ attempt[r].count = loginBackoffThreshold
                                        /\ fails[u].count = loginBackoffThreshold
                                        /\ fails[u].lock = 0

CalmOnesStayCalm == \A u \in Accounts : u \notin raced \cup broken => Calm(u)

SignInInv == SignInTypes /\ CalmOnesStayCalm /\ LockoutsEnd

(* The state without attempts satisfies the invariant.                      *)
LEMMA SignInStarts == SignInInit => SignInInv
BY SignInAssumption DEF SignInInit, SignInInv, SignInTypes, CalmOnesStayCalm, Calm, LockoutsEnd,
   NoKey, NoFailures, NoAttempt

(* An attempt arrives: no counter of an account changes.                    *)
LEMMA ArrivesKeepsAccounts ==
  ASSUME SignInInv, NEW r \in Attempts, NEW u \in Accounts, NEW a \in Addresses,
         NEW place \in {"first", "allowed"}, Arrives(r, u, a, place)
  PROVE  /\ CalmOnesStayCalm'
         /\ attempt' \in [Attempts -> [at : Places, who : Accounts, from : Addresses, count : Nat] \cup {NoAttempt}]
         /\ \A o \in Attempts : IF o = r THEN attempt'[o].at = place /\ attempt'[o].from = a
                                ELSE attempt'[o] = attempt[o]
         /\ attempt[r].at = "idle"
<1> USE SignInAssumption
<1>1. \A o \in Attempts : attempt'[o] = IF o = r THEN [at |-> place, who |-> u, from |-> a, count |-> 0]
                                         ELSE attempt[o]
  BY DEF Arrives, SignInInv, SignInTypes
<1>2. attempt[r] = NoAttempt /\ fails' = fails /\ broken' = broken
  BY DEF Arrives
<1>3. ASSUME NEW v \in Accounts, v \notin raced' \cup broken' PROVE Calm(v)'
  <2>1. v \notin raced \cup broken /\ (v = u => \A o \in Attempts : attempt[o].who # u)
    BY <1>2, <1>3 DEF Arrives
  <2>2. Calm(v)
    BY <2>1 DEF SignInInv, CalmOnesStayCalm
  <2> QED
    BY <1>1, <1>2, <2>1, <2>2 DEF Calm
<1> QED
  BY <1>1, <1>2, <1>3 DEF CalmOnesStayCalm, Arrives, SignInInv, SignInTypes, Places, NoAttempt

(* An attempt moves on, or is answered, and counters change only for its    *)
(* account: what Calm says of the other accounts stays.                     *)
LEMMA OthersStayCalm ==
  ASSUME SignInInv, NEW r \in Attempts, attempt[r] # NoAttempt,
         NEW u \in Accounts, attempt[r].who = u,
         NEW after \in [at : Places, who : Accounts, from : Addresses, count : Nat] \cup {NoAttempt},
         attempt' = [attempt EXCEPT ![r] = after],
         after # NoAttempt => after.who = u,
         UNCHANGED raced, broken \subseteq broken',
         NEW f \in [count : Nat, lock : Nat], fails' = [fails EXCEPT ![u] = f],
         u \notin raced' \cup broken' => Calm(u)'
  PROVE  CalmOnesStayCalm'
<1> USE SignInAssumption
<1> SUFFICES ASSUME NEW v \in Accounts, v \notin raced' \cup broken', v # u PROVE Calm(v)'
  BY DEF CalmOnesStayCalm
<1>1. Calm(v)
  BY DEF SignInInv, CalmOnesStayCalm
<1>2. fails'[v] = fails[v] /\ \A o \in Attempts : attempt'[o] = IF o = r THEN after ELSE attempt[o]
  BY DEF SignInInv, SignInTypes
<1>3. after.who # v
  BY DEF NoAttempt
<1> QED
  BY <1>1, <1>2, <1>3 DEF Calm

(* Every step of every attempt keeps it: the six handlers' commands in turn. *)
LEMMA SignInSteps == SignInInv /\ [SignInNext]_signVars => SignInInv'
<1> SUFFICES ASSUME SignInInv, [SignInNext]_signVars PROVE SignInInv'
  OBVIOUS
<1> USE SignInAssumption
<1>t. SignInTypes /\ LockoutsEnd
  BY DEF SignInInv
<1>1. ASSUME NEW r \in Attempts, NEW u \in Accounts, NEW a \in Addresses, Allow(r, u, a) PROVE SignInInv'
  <2> DEFINE place == IF hits[a].count = 0 THEN "first" ELSE "allowed"
  <2>1. Arrives(r, u, a, place) /\ place \in {"first", "allowed"} /\ Count(a)
    BY <1>1 DEF Allow
  <2>2. /\ CalmOnesStayCalm'
        /\ attempt' \in [Attempts -> [at : Places, who : Accounts, from : Addresses, count : Nat] \cup {NoAttempt}]
        /\ \A o \in Attempts : IF o = r THEN attempt'[o].at = place /\ attempt'[o].from = a
                               ELSE attempt'[o] = attempt[o]
        /\ attempt[r].at = "idle"
    BY <2>1, ArrivesKeepsAccounts
  <2>3. /\ hits' = [hits EXCEPT ![a].count = @ + 1] /\ UNCHANGED <<fails, broken>>
    BY <2>1 DEF Count, Arrives
  <2>4. SignInTypes'
    <3>1. hits' \in [Addresses -> [count : Nat, expires : BOOLEAN]]
      BY <1>t, <2>3 DEF SignInTypes
    <3> QED
      BY <1>t, <2>1, <2>2, <2>3, <3>1 DEF SignInTypes
  <2>5. LockoutsEnd'
    <3>1. ASSUME NEW b \in Addresses, hits'[b].count > 0, ~hits'[b].expires
          PROVE  b \in broken' \/ \E o \in Attempts : attempt'[o].from = b /\ attempt'[o].at = "first"
      BY <1>t, <2>2, <2>3, <3>1 DEF SignInTypes, LockoutsEnd
    <3>2. ASSUME NEW v \in Accounts
          PROVE  /\ fails'[v].count >= loginBackoffThreshold /\ fails'[v].lock = 0 =>
                      v \in broken' \/ \E o \in Attempts : attempt'[o].who = v /\ attempt'[o].at = "locking"
      BY <1>t, <2>2, <2>3 DEF LockoutsEnd
    <3> QED
      BY <3>1, <3>2, <1>t, <2>3, <2>1 DEF LockoutsEnd, Arrives
  <2> QED
    BY <2>2, <2>4, <2>5 DEF SignInInv
<1>2. ASSUME NEW r \in Attempts, NEW u \in Accounts, NEW a \in Addresses, RateLimitFails(r, u, a) PROVE SignInInv'
  <2>1. Arrives(r, u, a, "allowed") /\ UNCHANGED <<hits, fails, broken>>
    BY <1>2 DEF RateLimitFails, Arrives
  <2>2. /\ CalmOnesStayCalm'
        /\ attempt' \in [Attempts -> [at : Places, who : Accounts, from : Addresses, count : Nat] \cup {NoAttempt}]
        /\ \A o \in Attempts : IF o = r THEN attempt'[o].at = "allowed" /\ attempt'[o].from = a
                               ELSE attempt'[o] = attempt[o]
        /\ attempt[r].at = "idle"
    BY <2>1, ArrivesKeepsAccounts
  <2>3. SignInTypes'
    BY <1>t, <2>1, <2>2 DEF SignInTypes
  <2>4. LockoutsEnd'
    BY <1>t, <2>1, <2>2 DEF LockoutsEnd, Arrives
  <2> QED
    BY <2>2, <2>3, <2>4 DEF SignInInv
<1>3. ASSUME NEW r \in Attempts, SetExpiry(r) PROVE SignInInv'
  <2> DEFINE after == [attempt[r] EXCEPT !.at = "allowed"]
  <2>1. /\ attempt[r] # NoAttempt /\ attempt[r].at = "first" /\ attempt' = [attempt EXCEPT ![r] = after]
        /\ after \in [at : Places, who : Accounts, from : Addresses, count : Nat]
        /\ after.who = attempt[r].who /\ after.at = "allowed"
        /\ hits' = [hits EXCEPT ![attempt[r].from].expires = TRUE] /\ UNCHANGED <<fails, broken, raced>>
    BY <1>t, <1>3 DEF SetExpiry, Goto, SignInTypes, NoAttempt, Places
  <2>2. CalmOnesStayCalm'
    BY <1>t, <2>1 DEF SignInInv, SignInTypes, CalmOnesStayCalm, Calm
  <2>3. SignInTypes'
    BY <1>t, <2>1 DEF SignInTypes
  <2>4. LockoutsEnd'
    BY <1>t, <2>1 DEF SignInTypes, LockoutsEnd
  <2> QED
    BY <2>2, <2>3, <2>4 DEF SignInInv
<1>4. ASSUME NEW r \in Attempts, checkLoginBackoff(r) PROVE SignInInv'
  <2>u. PICK u \in Accounts : u = attempt[r].who /\ attempt[r] # NoAttempt
    BY <1>t, <1>4 DEF checkLoginBackoff, SignInTypes, NoAttempt
  <2>1. attempt[r].at = "allowed" /\ attempt[r] # NoAttempt /\ u \in Accounts /\ UNCHANGED <<hits, fails, raced>>
    BY <1>t, <1>4 DEF checkLoginBackoff, SignInTypes, NoAttempt
  <2>2. PICK after \in [at : Places, who : Accounts, from : Addresses, count : Nat] \cup {NoAttempt} :
          /\ attempt' = [attempt EXCEPT ![r] = after]
          /\ after = NoAttempt \/ (after.at = "checked" /\ after.who = u)
          /\ broken \subseteq broken' /\ (after # NoAttempt => ~IsLocked(u) \/ u \in broken')
    <3>1. CASE ~IsLocked(u) /\ Goto(r, "allowed", "checked") /\ UNCHANGED broken
      BY <1>t, <2>u, <2>1, <3>1 DEF Goto, SignInTypes, Places
    <3>2. CASE IsLocked(u) /\ Answered(r, "allowed") /\ UNCHANGED broken
      BY <2>u, <3>2 DEF Answered
    <3>3. CASE Goto(r, "allowed", "checked") /\ broken' = broken \union {u}
      BY <1>t, <2>u, <2>1, <3>3 DEF Goto, SignInTypes, Places
    <3> QED
      BY <2>u, <1>4, <3>1, <3>2, <3>3 DEF checkLoginBackoff
  <2>3. \A o \in Attempts : attempt'[o] = IF o = r THEN after ELSE attempt[o]
    BY <1>t, <2>2 DEF SignInTypes
  <2>4. SignInTypes'
    BY <1>t, <2>u, <2>1, <2>2, <2>3 DEF SignInTypes, NoAttempt
  <2>5. LockoutsEnd'
    BY <1>t, <2>u, <2>1, <2>2, <2>3 DEF LockoutsEnd, NoAttempt
  <2>6. ASSUME u \notin raced' \cup broken' PROVE Calm(u)'
    <3>1. Calm(u) /\ u \notin broken
      BY <2>u, <2>1, <2>2, <2>6 DEF SignInInv, CalmOnesStayCalm
    <3>2. after # NoAttempt => fails[u].count < loginBackoffThreshold
      <4> SUFFICES ASSUME after # NoAttempt, fails[u].count >= loginBackoffThreshold PROVE FALSE
        BY <1>t, <2>u, <2>1 DEF SignInTypes
      <4>1. fails[u].lock = 0
        BY <1>t, <2>u, <2>1, <2>2, <2>6 DEF IsLocked, SignInTypes
      <4>2. PICK o \in Attempts : attempt[o].who = u /\ attempt[o].at = "locking"
        BY <1>t, <2>u, <2>1, <3>1, <4>1 DEF LockoutsEnd
      <4> QED
        BY <2>u, <2>1, <3>1, <4>2 DEF Calm
    <3>3. NoAttempt.who = NoPlan /\ u # NoPlan
      BY <2>u, <2>1 DEF NoAttempt
    <3> QED
      BY <2>u, <2>1, <2>2, <2>3, <3>1, <3>2, <3>3 DEF Calm
  <2>7. CalmOnesStayCalm'
    <3>1. fails[u] \in [count : Nat, lock : Nat] /\ fails' = [fails EXCEPT ![u] = fails[u]]
      BY <1>t, <2>u, <2>1 DEF SignInTypes
    <3>2. /\ attempt[r] # NoAttempt /\ attempt[r].who = u /\ UNCHANGED raced /\ broken \subseteq broken'
          /\ after # NoAttempt => after.who = u
      BY <2>u, <2>1, <2>2
    <3>3. u \notin raced' \cup broken' => Calm(u)'
      BY <2>6
    <3> HIDE DEF Calm, CalmOnesStayCalm
    <3> QED
      BY <2>2, <3>1, <3>2, <3>3, OthersStayCalm
  <2> QED
    BY <2>4, <2>5, <2>7 DEF SignInInv
<1>5. ASSUME NEW r \in Attempts, LoginFails(r) PROVE SignInInv'
  <2>u. PICK u \in Accounts : u = attempt[r].who /\ attempt[r] # NoAttempt
    BY <1>t, <1>5 DEF LoginFails, SignInTypes, NoAttempt
  <2> DEFINE n == fails[u].count + 1
             after == IF n < loginBackoffThreshold THEN NoAttempt
                      ELSE [attempt[r] EXCEPT !.at = "locking", !.count = n]
             f == [fails[u] EXCEPT !.count = n]
  <2>1. /\ attempt[r].at = "checked" /\ attempt[r] # NoAttempt /\ u \in Accounts
        /\ UNCHANGED <<hits, broken, raced>> /\ n \in Nat /\ f \in [count : Nat, lock : Nat]
        /\ f.count = n /\ f.lock = fails[u].lock
    BY <1>t, <1>5 DEF LoginFails, SignInTypes, NoAttempt
  <2>2. /\ attempt' = [attempt EXCEPT ![r] = after]
        /\ after \in [at : Places, who : Accounts, from : Addresses, count : Nat] \cup {NoAttempt}
        /\ IF n < loginBackoffThreshold THEN after = NoAttempt
           ELSE after.at = "locking" /\ after.who = u /\ after.count = n
    <3>1. attempt[r] \in [at : Places, who : Accounts, from : Addresses, count : Nat]
      BY <1>t, <2>1 DEF SignInTypes
    <3>2. CASE n < loginBackoffThreshold
      BY <2>u, <1>5, <2>1, <3>2 DEF LoginFails, Answered
    <3>3. CASE ~(n < loginBackoffThreshold)
      <4>1. after = [at |-> "locking", who |-> u, from |-> attempt[r].from, count |-> n]
        BY <2>u, <3>1, <3>3
      <4>2. attempt' = [attempt EXCEPT ![r].at = "locking", ![r].count = n]
        BY <2>u, <1>5, <3>3 DEF LoginFails
      <4>3. attempt' = [attempt EXCEPT ![r] = after]
        BY <1>t, <3>1, <3>3, <4>2 DEF SignInTypes
      <4> QED
        BY <2>1, <3>1, <3>3, <4>1, <4>3 DEF Places
    <3> QED
      BY <3>2, <3>3
  <2>3. /\ \A o \in Attempts : attempt'[o] = IF o = r THEN after ELSE attempt[o]
        /\ fails' = [fails EXCEPT ![u] = f] /\ \A v \in Accounts : fails'[v] = IF v = u THEN f ELSE fails[v]
    <3>1. attempt' = [attempt EXCEPT ![r] = after] /\ fails' = [fails EXCEPT ![u].count = n]
      BY <2>u, <1>5, <2>2 DEF LoginFails
    <3>2. [fails EXCEPT ![u].count = n] = [fails EXCEPT ![u] = f]
      BY <1>t DEF SignInTypes
    <3>3. \A o \in Attempts : attempt'[o] = IF o = r THEN after ELSE attempt[o]
      BY <1>t, <3>1 DEF SignInTypes
    <3> HIDE DEF f
    <3> QED
      BY <1>t, <3>1, <3>2, <3>3 DEF SignInTypes
  <2> HIDE DEF after, f
  <2>4. SignInTypes'
    BY <1>t, <2>u, <2>1, <2>2, <2>3 DEF SignInTypes, NoAttempt
  <2>5. LockoutsEnd'
    BY <1>t, <2>u, <2>1, <2>2, <2>3 DEF LockoutsEnd, NoAttempt, SignInTypes
  <2>6. ASSUME u \notin raced' \cup broken' PROVE Calm(u)'
    <3>1. Calm(u)
      BY <2>u, <2>1, <2>6 DEF SignInInv, CalmOnesStayCalm
    <3>2. fails[u].count < loginBackoffThreshold /\ fails[u].lock = 0
      BY <1>t, <2>u, <2>1, <3>1 DEF Calm, SignInTypes
    <3>3. NoAttempt.who = NoPlan /\ u # NoPlan
      BY <2>u, <2>1 DEF NoAttempt
    <3> QED
      BY <1>t, <2>u, <2>1, <2>2, <2>3, <3>1, <3>2, <3>3 DEF Calm, SignInTypes
  <2>7. CalmOnesStayCalm'
    BY <2>u, <2>1, <2>2, <2>3, <2>6, OthersStayCalm
  <2> QED
    BY <2>4, <2>5, <2>7 DEF SignInInv
<1>6. ASSUME NEW r \in Attempts, recordLoginFailure(r) PROVE SignInInv'
  <2>u. PICK u \in Accounts : u = attempt[r].who /\ attempt[r] # NoAttempt
    BY <1>t, <1>6 DEF recordLoginFailure, Answered, SignInTypes, NoAttempt
  <2> DEFINE over == attempt[r].count - loginBackoffThreshold + 1
             lock == IF over < LongestLock THEN over ELSE LongestLock
             f == IF fails[u].count = 0 THEN fails[u] ELSE [fails[u] EXCEPT !.lock = lock]
  <2>1. /\ attempt[r].at = "locking" /\ attempt[r] # NoAttempt /\ u \in Accounts
        /\ UNCHANGED <<hits, broken, raced>> /\ attempt' = [attempt EXCEPT ![r] = NoAttempt]
    BY <1>t, <1>6 DEF recordLoginFailure, Answered, SignInTypes, NoAttempt
  <2>2. /\ over \in Nat \ {0} /\ lock \in Nat \ {0} /\ f \in [count : Nat, lock : Nat] /\ f.count = fails[u].count
        /\ f.lock = IF fails[u].count = 0 THEN fails[u].lock ELSE lock
    BY <1>t, <2>u, <2>1 DEF SignInTypes
  <2>3. /\ \A o \in Attempts : attempt'[o] = IF o = r THEN NoAttempt ELSE attempt[o]
        /\ fails' = [fails EXCEPT ![u] = f] /\ \A v \in Accounts : fails'[v] = IF v = u THEN f ELSE fails[v]
    BY <1>t, <2>u, <1>6, <2>1, <2>2 DEF recordLoginFailure, SignInTypes
  <2>4. attempt[r].count = loginBackoffThreshold => lock = 1
    BY DEF lock, over
  <2> HIDE DEF f, lock, over
  <2>5. SignInTypes'
    BY <1>t, <2>u, <2>1, <2>2, <2>3 DEF SignInTypes
  <2>6. LockoutsEnd'
    BY <1>t, <2>u, <2>1, <2>2, <2>3, <2>4 DEF LockoutsEnd, NoAttempt, SignInTypes, SignInInv, CalmOnesStayCalm, Calm
  <2>7. ASSUME u \notin raced' \cup broken' PROVE Calm(u)'
    <3>1. Calm(u)
      BY <2>u, <2>1, <2>7 DEF SignInInv, CalmOnesStayCalm
    <3>2. f.count = loginBackoffThreshold /\ f.lock = 1
      BY <1>t, <2>u, <2>1, <2>2, <2>4, <3>1 DEF Calm, SignInTypes
    <3>3. NoAttempt.who = NoPlan /\ u # NoPlan
      BY <2>u, <2>1 DEF NoAttempt
    <3>4. \A o \in Attempts : attempt'[o].who # u
      BY <2>u, <2>1, <2>3, <3>1, <3>3 DEF Calm
    <3> QED
      BY <2>3, <3>2, <3>4, <2>1 DEF Calm
  <2>8. CalmOnesStayCalm'
    BY <2>u, <2>1, <2>2, <2>3, <2>7, OthersStayCalm
  <2> QED
    BY <2>5, <2>6, <2>8 DEF SignInInv
<1>7. ASSUME NEW r \in Attempts, Login(r) PROVE SignInInv'
  <2>u. PICK u \in Accounts : u = attempt[r].who /\ attempt[r] # NoAttempt
    BY <1>t, <1>7 DEF Login, Answered, SignInTypes, NoAttempt
  <2> DEFINE f == IF u \in suspended THEN fails[u] ELSE NoFailures
  <2>1. /\ attempt[r].at = "checked" /\ attempt[r] # NoAttempt /\ u \in Accounts
        /\ UNCHANGED <<hits, broken, raced>> /\ attempt' = [attempt EXCEPT ![r] = NoAttempt]
        /\ f \in [count : Nat, lock : Nat] /\ (f = fails[u] \/ f = NoFailures)
    BY <1>t, <2>u, <1>7 DEF Login, Answered, SignInTypes, NoAttempt, NoFailures
  <2>2. /\ \A o \in Attempts : attempt'[o] = IF o = r THEN NoAttempt ELSE attempt[o]
        /\ fails' = [fails EXCEPT ![u] = f] /\ \A v \in Accounts : fails'[v] = IF v = u THEN f ELSE fails[v]
    BY <1>t, <2>u, <1>7, <2>1 DEF Login, SignInTypes
  <2>3. f \in [count : Nat, lock : Nat] /\ (f = fails[u] \/ f = NoFailures)
    BY <1>t, <2>u, <2>1 DEF SignInTypes, NoFailures
  <2> HIDE DEF f
  <2>4. SignInTypes'
    BY <1>t, <2>u, <2>1, <2>2, <2>3 DEF SignInTypes
  <2>5. LockoutsEnd'
    BY <1>t, <2>u, <2>1, <2>2, <2>3 DEF LockoutsEnd, NoAttempt, NoFailures, SignInTypes
  <2>6. ASSUME u \notin raced' \cup broken' PROVE Calm(u)'
    <3>1. Calm(u)
      BY <2>u, <2>1, <2>6 DEF SignInInv, CalmOnesStayCalm
    <3>2. NoAttempt.who = NoPlan /\ u # NoPlan
      BY <2>u, <2>1 DEF NoAttempt
    <3>3. \A o \in Attempts : attempt'[o].who # u
      BY <2>u, <2>1, <2>2, <3>1, <3>2 DEF Calm
    <3> QED
      BY <2>u, <2>1, <2>2, <2>3, <3>1, <3>3 DEF Calm, NoFailures
  <2>7. CalmOnesStayCalm'
    BY <2>u, <2>1, <2>2, <2>3, <2>6, OthersStayCalm
  <2> QED
    BY <2>4, <2>5, <2>7 DEF SignInInv
<1>8. ASSUME NEW r \in Attempts, Die(r) PROVE SignInInv'
  <2>1. /\ attempt[r] # NoAttempt /\ attempt[r].who \in Accounts /\ attempt' = [attempt EXCEPT ![r] = NoAttempt]
        /\ UNCHANGED <<hits, fails, raced>> /\ broken \subseteq broken'
        /\ attempt[r].at = "first" => attempt[r].from \in broken'
        /\ attempt[r].at = "locking" => attempt[r].who \in broken'
    BY <1>t, <1>8 DEF Die, Answered, SignInTypes, NoAttempt
  <2>2. \A o \in Attempts : attempt'[o] = IF o = r THEN NoAttempt ELSE attempt[o]
    BY <1>t, <2>1 DEF SignInTypes
  <2>3. SignInTypes'
    BY <1>t, <2>1, <2>2 DEF SignInTypes
  <2>4. LockoutsEnd'
    BY <1>t, <2>1, <2>2 DEF LockoutsEnd, NoAttempt
  <2>5. CalmOnesStayCalm'
    <3> SUFFICES ASSUME NEW v \in Accounts, v \notin raced' \cup broken' PROVE Calm(v)'
      BY DEF CalmOnesStayCalm
    <3>1. Calm(v)
      BY <2>1 DEF SignInInv, CalmOnesStayCalm
    <3> QED
      BY <2>1, <2>2, <3>1 DEF Calm, NoAttempt
  <2> QED
    BY <2>3, <2>4, <2>5 DEF SignInInv
<1>9. ASSUME NEW a \in Addresses, WindowOver(a) PROVE SignInInv'
  <2>1. hits' \in [Addresses -> [count : Nat, expires : BOOLEAN]]
    BY <1>t, <1>9 DEF WindowOver, SignInTypes, NoKey
  <2>2. \A b \in Addresses : hits'[b].count > 0 => hits'[b] = hits[b]
    BY <1>t, <1>9 DEF WindowOver, SignInTypes, NoKey
  <2> QED
    BY <1>t, <1>9, <2>1, <2>2 DEF WindowOver, SignInInv, SignInTypes, CalmOnesStayCalm, Calm, LockoutsEnd
<1>10. ASSUME NEW u \in Accounts, LockOver(u) PROVE SignInInv'
  <2>1. /\ UNCHANGED <<hits, attempt, broken, raced>> /\ fails[u].lock > 0
        /\ fails' \in [Accounts -> [count : Nat, lock : Nat]]
        /\ \A v \in Accounts : fails'[v] = IF v = u THEN [count |-> 0, lock |-> 0] ELSE fails[v]
    BY <1>t, <1>10 DEF LockOver, SignInTypes, NoFailures
  <2>2. CalmOnesStayCalm'
    BY <1>t, <2>1 DEF SignInInv, SignInTypes, CalmOnesStayCalm, Calm
  <2> QED
    BY <1>t, <2>1, <2>2 DEF SignInInv, SignInTypes, LockoutsEnd
<1>11. CASE UNCHANGED signVars
  BY <1>11 DEF signVars, SignInInv, SignInTypes, CalmOnesStayCalm, Calm, LockoutsEnd
<1> QED
  BY <1>1, <1>2, <1>3, <1>4, <1>5, <1>6, <1>7, <1>8, <1>9, <1>10, <1>11 DEF SignInNext

(* Whom the limiter or the lock of an account keeps out is let in again,    *)
(* unless a command was lost, and locks last longest only where attempts    *)
(* overlapped: for any thresholds and any number of requests.               *)
THEOREM Lockouts == SignInSpec => []LockoutsEnd
<1>1. SignInInv => LockoutsEnd
  BY DEF SignInInv
<1> QED
  BY <1>1, SignInStarts, SignInSteps, PTL DEF SignInSpec

-----------------------------------------------------------------------------
(* Podcasts                                                                *)

PodcastTypes ==
  /\ show \in [Shows -> SUBSET [published : BOOLEAN]]
  /\ episodes \in [Episodes -> SUBSET [show : Shows, published : BOOLEAN, at : Nat, edited : BOOLEAN]]
  /\ playlist \subseteq Playlists
  /\ items \subseteq [playlist : Playlists, episode : Episodes]
  /\ listened \in [Episodes -> [Users -> SUBSET [position : {0, 1}, completed : BOOLEAN]]]
  /\ tick \in Nat
  /\ hand \in [Hands -> [kind : {"idle", "AddPodcastPlaylistItem", "ReportPodcastProgress"},
                         who : Users \cup Listeners \cup {NoPlan}, on : Playlists \cup {NoPlan},
                         episode : Episodes \cup {NoPlan}]]
  /\ \A h \in Hands : hand[h].kind # "idle" => hand[h].episode \in Episodes

ParentsExist ==
  /\ \A i \in items : episodes[i.episode] # {} /\ i.playlist \in playlist
  /\ \A e \in Episodes, u \in Users : listened[e][u] # {} => episodes[e] # {}
  /\ \A e \in Episodes : \A r \in episodes[e] : show[r.show] # {}

(* A publication date is a time that has passed, of one episode.            *)
DatesApart ==
  \A e, f \in Episodes : \A a \in episodes[e], b \in episodes[f] :
     /\ a.at <= tick /\ (a.at = b.at /\ a.at # 0 => e = f)
     /\ e = f => a = b

PodcastInv == PodcastTypes /\ ParentsExist /\ DatesApart

(* An organisation without shows satisfies the invariant.                   *)
LEMMA PodcastsStart == PodcastsInit => PodcastInv
BY DEF PodcastsInit, PodcastInv, PodcastTypes, ParentsExist, DatesApart, NoHand

(* The invariant gives the property: nothing refers to a row that is gone.  *)
LEMMA PodcastsSound == PodcastInv => NothingDangles
<1> SUFFICES ASSUME PodcastInv PROVE NothingDangles
  OBVIOUS
<1>1. ASSUME NEW l \in Playlists
      PROVE  /\ \A e \in GetPodcastPlaylist(l) : episodes[e] # {}
             /\ GetPodcastPlaylist(l) # {} => l \in playlist
  BY DEF PodcastInv, ParentsExist, GetPodcastPlaylist
<1>2. ASSUME NEW s \in Shows, NEW e \in PodcastRSS(s)
      PROVE  e \in Episodes /\ \E r \in episodes[e] : r.at # 0
  BY <1>2 DEF PodcastRSS, ListPublishedByShow, EpisodesOf
<1>3. ASSUME NEW s \in Shows, NEW t \in Shows, NEW e \in PodcastRSS(s), NEW f \in PodcastRSS(t),
             NEW a \in episodes[e], NEW b \in episodes[f], a.at = b.at
      PROVE  e = f
  BY <1>2, <1>3 DEF PodcastInv, DatesApart
<1> QED
  BY <1>1, <1>3 DEF NothingDangles, PodcastInv, ParentsExist

(* An episode and all that refers to it go together.                        *)
LEMMA WithoutEpisodesKeeps ==
  ASSUME PodcastInv, NEW gone \in SUBSET Episodes, WithoutEpisodes(gone), UNCHANGED <<playlist, hand, tick>>,
         show' \in [Shows -> SUBSET [published : BOOLEAN]],
         \A e \in Episodes \ gone : \A r \in episodes[e] : show'[r.show] # {}
  PROVE  PodcastInv'
<1>1. /\ \A e \in Episodes : /\ episodes'[e] = IF e \in gone THEN {} ELSE episodes[e]
                             /\ listened'[e] = IF e \in gone THEN [u \in Users |-> {}] ELSE listened[e]
      /\ items' = {i \in items : i.episode \notin gone}
  BY DEF WithoutEpisodes
<1>2. PodcastTypes'
  BY DEF PodcastInv, PodcastTypes, WithoutEpisodes
<1>3. ParentsExist'
  BY <1>1 DEF PodcastInv, PodcastTypes, ParentsExist
<1>4. DatesApart'
  BY <1>1 DEF PodcastInv, DatesApart
<1> QED
  BY <1>2, <1>3, <1>4 DEF PodcastInv

(* A row of one episode is written, with a date of its own or none.         *)
LEMMA OneEpisodeKeeps ==
  ASSUME PodcastInv, NEW e \in Episodes,
         NEW row \in [show : Shows, published : BOOLEAN, at : Nat, edited : BOOLEAN],
         episodes' = [episodes EXCEPT ![e] = {row}], UNCHANGED <<show, playlist, items, listened, hand>>,
         tick' \in Nat, tick <= tick', row.at <= tick', show[row.show] # {},
         \A f \in Episodes \ {e} : \A b \in episodes[f] : row.at = b.at => row.at = 0
  PROVE  PodcastInv'
<1>t. PodcastTypes /\ ParentsExist /\ DatesApart
  BY DEF PodcastInv
<1>1. /\ episodes' \in [Episodes -> SUBSET [show : Shows, published : BOOLEAN, at : Nat, edited : BOOLEAN]]
      /\ \A f \in Episodes : episodes'[f] = IF f = e THEN {row} ELSE episodes[f]
  BY <1>t DEF PodcastTypes
<1>2. PodcastTypes'
  BY <1>t, <1>1 DEF PodcastTypes
<1>3. ParentsExist'
  <2>1. \A f \in Episodes : episodes[f] # {} => episodes'[f] # {}
    BY <1>1
  <2>2. \A i \in items : i.episode \in Episodes
    BY <1>t DEF PodcastTypes
  <2>3. ASSUME NEW f \in Episodes, NEW r \in episodes'[f] PROVE show[r.show] # {}
    BY <1>t, <1>1, <2>3 DEF ParentsExist
  <2> QED
    BY <1>t, <2>1, <2>2, <2>3 DEF ParentsExist
<1>4. DatesApart'
  <2>1. ASSUME NEW f \in Episodes, NEW b \in episodes[f] PROVE b.at \in Nat /\ b.at <= tick'
    BY <1>t DEF PodcastTypes, DatesApart
  <2> QED
    BY <1>t, <1>1, <2>1 DEF DatesApart
<1> QED
  BY <1>2, <1>3, <1>4 DEF PodcastInv

(* Every handler of shows, episodes and playlists keeps it.                 *)
LEMMA PodcastSteps == PodcastInv /\ [PodcastsNext]_podcastVars => PodcastInv'
<1> SUFFICES ASSUME PodcastInv, [PodcastsNext]_podcastVars PROVE PodcastInv'
  OBVIOUS
<1>t. PodcastTypes /\ ParentsExist /\ DatesApart
  BY DEF PodcastInv
<1>1. ASSUME NEW s \in Shows, CreatePodcastShow(s) PROVE PodcastInv'
  <2>1. PodcastTypes'
    BY <1>t, <1>1 DEF CreatePodcastShow, PutShow, PodcastTypes
  <2>2. ParentsExist'
    BY <1>t, <1>1 DEF CreatePodcastShow, PutShow, PodcastTypes, ParentsExist
  <2>3. DatesApart'
    BY <1>t, <1>1 DEF CreatePodcastShow, PutShow, PodcastTypes, DatesApart
  <2> QED
    BY <2>1, <2>2, <2>3 DEF PodcastInv
<1>2. ASSUME NEW s \in Shows, UpdatePodcastShow(s) PROVE PodcastInv'
  <2>1. PodcastTypes'
    BY <1>t, <1>2 DEF UpdatePodcastShow, PutShow, PodcastTypes
  <2>2. ParentsExist'
    <3>1. \A x \in Shows : show[x] # {} => show'[x] # {}
      BY <1>t, <1>2 DEF UpdatePodcastShow, PutShow, PodcastTypes
    <3>2. \A e \in Episodes : \A r \in episodes[e] : r.show \in Shows
      BY <1>t DEF PodcastTypes
    <3> QED
      BY <1>t, <1>2, <3>1, <3>2 DEF UpdatePodcastShow, PutShow, ParentsExist
  <2>3. DatesApart'
    BY <1>t, <1>2 DEF UpdatePodcastShow, PutShow, PodcastTypes, DatesApart
  <2> QED
    BY <2>1, <2>2, <2>3 DEF PodcastInv
<1>3. ASSUME NEW s \in Shows, DeletePodcastShow(s) PROVE PodcastInv'
  <2>1. /\ show' = [show EXCEPT ![s] = {}] /\ EpisodesOf(s) \in SUBSET Episodes /\ WithoutEpisodes(EpisodesOf(s))
        /\ UNCHANGED <<playlist, hand, tick>>
    BY <1>3 DEF DeletePodcastShow, EpisodesOf
  <2>2. show' \in [Shows -> SUBSET [published : BOOLEAN]]
    BY <1>t, <2>1 DEF PodcastTypes
  <2>3. ASSUME NEW e \in Episodes \ EpisodesOf(s), NEW r \in episodes[e] PROVE show'[r.show] # {}
    BY <1>t, <2>1, <2>3 DEF PodcastTypes, ParentsExist, EpisodesOf
  <2> QED
    BY <2>1, <2>2, <2>3, WithoutEpisodesKeeps
<1>4. ASSUME NEW e \in Episodes, CreatePodcastEpisode(e) PROVE PodcastInv'
  <2>1. PICK s \in Shows : show[s] # {} /\ episodes' = [episodes EXCEPT ![e] = {NewEpisode(s)}]
    BY <1>4 DEF CreatePodcastEpisode
  <2> PICK row : row = NewEpisode(s)
    OBVIOUS
  <2>2. /\ row \in [show : Shows, published : BOOLEAN, at : Nat, edited : BOOLEAN]
        /\ row.at = 0 /\ row.show = s
    BY DEF NewEpisode
  <2>3. tick \in Nat /\ UNCHANGED <<show, playlist, items, listened, hand, tick>>
    BY <1>t, <1>4 DEF PodcastTypes, CreatePodcastEpisode
  <2>4. episodes' = [episodes EXCEPT ![e] = {row}] /\ show[row.show] # {}
    BY <2>1, <2>2
  <2>5. tick' \in Nat /\ tick <= tick' /\ row.at <= tick'
    BY <2>2, <2>3
  <2> QED
    BY <2>2, <2>3, <2>4, <2>5, OneEpisodeKeeps
<1>5. ASSUME NEW e \in Episodes, UpdatePodcastEpisode(e) PROVE PodcastInv'
  <2>1. PICK r \in episodes[e] : TRUE
    BY <1>5 DEF UpdatePodcastEpisode
  <2>2. r \in [show : Shows, published : BOOLEAN, at : Nat, edited : BOOLEAN] /\ episodes[e] = {r}
    BY <1>t, <2>1 DEF PodcastTypes, DatesApart
  <2>w. PICK row : row = [r EXCEPT !.edited = TRUE]
    OBVIOUS
  <2>3. /\ row \in [show : Shows, published : BOOLEAN, at : Nat, edited : BOOLEAN]
        /\ row.at = r.at /\ row.show = r.show
    BY <2>2, <2>w
  <2>4. episodes' = [episodes EXCEPT ![e] = {row}]
    BY <1>5, <2>2, <2>w DEF UpdatePodcastEpisode
  <2>5. tick \in Nat /\ UNCHANGED <<show, playlist, items, listened, hand, tick>>
    BY <1>t, <1>5 DEF PodcastTypes, UpdatePodcastEpisode
  <2>6. /\ show[row.show] # {} /\ row.at <= tick
        /\ \A f \in Episodes \ {e} : \A b \in episodes[f] : row.at = b.at => row.at = 0
    <3>1. show[r.show] # {}
      BY <1>t, <2>1 DEF ParentsExist
    <3>2. r.at <= tick /\ \A f \in Episodes \ {e} : \A b \in episodes[f] : r.at = b.at => r.at = 0
      BY <1>t, <2>1 DEF DatesApart
    <3> QED
      BY <2>3, <3>1, <3>2
  <2>7. tick' \in Nat /\ tick <= tick' /\ row.at <= tick'
    BY <2>5, <2>6
  <2> QED
    BY <2>3, <2>4, <2>5, <2>6, <2>7, OneEpisodeKeeps
<1>6. ASSUME NEW e \in Episodes, SetPodcastEpisodePublished(e) PROVE PodcastInv'
  <2>1. PICK r \in episodes[e], published \in BOOLEAN :
             /\ tick' = IF Stamped(r, published).at > tick THEN tick + 1 ELSE tick
             /\ episodes' = [episodes EXCEPT ![e] = {Stamped(r, published)}]
    BY <1>6 DEF SetPodcastEpisodePublished
  <2>2. r \in [show : Shows, published : BOOLEAN, at : Nat, edited : BOOLEAN] /\ tick \in Nat /\ r.at <= tick
    BY <1>t, <2>1 DEF PodcastTypes, DatesApart
  <2> PICK row : row = Stamped(r, published)
    OBVIOUS
  <2>3. /\ row \in [show : Shows, published : BOOLEAN, at : Nat, edited : BOOLEAN]
        /\ row.show = r.show /\ (row.at = r.at \/ row.at = tick + 1)
    <3>1. CASE published /\ r.at = 0
      <4>1. published = TRUE
        BY <2>1, <3>1
      <4>2. row = [r EXCEPT !.published = TRUE, !.at = tick + 1]
        BY <3>1, <4>1 DEF Stamped
      <4>3. /\ tick + 1 \in Nat /\ tick \in Nat
            /\ r \in [show : Shows, published : BOOLEAN, at : Nat, edited : BOOLEAN]
        BY <2>2
      <4>4. row \in [show : Shows, published : BOOLEAN, at : Nat, edited : BOOLEAN]
        BY <4>2, <4>3
      <4>5. row.at = tick + 1
        BY <4>2, <4>3
      <4>6. row.show = r.show
        BY <4>2, <4>3
      <4> QED
        BY <4>4, <4>5, <4>6
    <3>2. CASE ~(published /\ r.at = 0)
      BY <2>2, <3>2 DEF Stamped
    <3> QED
      BY <3>1, <3>2
  <2>4. tick' \in Nat /\ tick <= tick' /\ row.at <= tick'
    BY <2>1, <2>2, <2>3
  <2>5. /\ show[row.show] # {}
        /\ \A f \in Episodes \ {e} : \A b \in episodes[f] : row.at = b.at => row.at = 0
    <3>1. \A f \in Episodes : \A b \in episodes[f] : b.at \in Nat /\ b.at <= tick
      BY <1>t DEF PodcastTypes, DatesApart
    <3> QED
      BY <1>t, <2>1, <2>2, <2>3, <3>1 DEF ParentsExist, DatesApart
  <2>6. UNCHANGED <<show, playlist, items, listened, hand>>
    BY <1>6 DEF SetPodcastEpisodePublished
  <2>7. episodes' = [episodes EXCEPT ![e] = {row}]
    BY <2>1
  <2> QED
    BY <2>3, <2>4, <2>5, <2>6, <2>7, OneEpisodeKeeps
<1>7. ASSUME NEW e \in Episodes, DeletePodcastEpisode(e) PROVE PodcastInv'
  BY <1>t, <1>7, WithoutEpisodesKeeps DEF DeletePodcastEpisode, PodcastTypes, ParentsExist
<1>8. ASSUME NEW l \in Playlists, CreatePodcastPlaylist(l) PROVE PodcastInv'
  <2>1. PodcastTypes'
    BY <1>t, <1>8 DEF CreatePodcastPlaylist, PodcastTypes
  <2>2. ParentsExist'
    BY <1>t, <1>8 DEF CreatePodcastPlaylist, PodcastTypes, ParentsExist
  <2>3. DatesApart'
    BY <1>t, <1>8 DEF CreatePodcastPlaylist, PodcastTypes, DatesApart
  <2> QED
    BY <2>1, <2>2, <2>3 DEF PodcastInv
<1>9. ASSUME NEW l \in Playlists, DeletePodcastPlaylist(l) PROVE PodcastInv'
  <2>1. PodcastTypes'
    BY <1>t, <1>9 DEF DeletePodcastPlaylist, PodcastTypes
  <2>2. ParentsExist'
    BY <1>t, <1>9 DEF DeletePodcastPlaylist, PodcastTypes, ParentsExist
  <2>3. DatesApart'
    BY <1>t, <1>9 DEF DeletePodcastPlaylist, PodcastTypes, DatesApart
  <2> QED
    BY <2>1, <2>2, <2>3 DEF PodcastInv
<1>10. ASSUME NEW l \in Playlists, RemovePodcastPlaylistItem(l) PROVE PodcastInv'
  <2>1. PodcastTypes'
    BY <1>t, <1>10 DEF RemovePodcastPlaylistItem, PodcastTypes
  <2>2. ParentsExist'
    BY <1>t, <1>10 DEF RemovePodcastPlaylistItem, PodcastTypes, ParentsExist
  <2>3. DatesApart'
    BY <1>t, <1>10 DEF RemovePodcastPlaylistItem, PodcastTypes, DatesApart
  <2> QED
    BY <2>1, <2>2, <2>3 DEF PodcastInv
<1>11. ASSUME NEW u \in Users, UpdatePodcastSettings(u) PROVE PodcastInv'
  <2>1. PodcastTypes'
    BY <1>t, <1>11 DEF UpdatePodcastSettings, PodcastTypes
  <2>2. ParentsExist'
    BY <1>t, <1>11 DEF UpdatePodcastSettings, PodcastTypes, ParentsExist
  <2>3. DatesApart'
    BY <1>t, <1>11 DEF UpdatePodcastSettings, PodcastTypes, DatesApart
  <2> QED
    BY <2>1, <2>2, <2>3 DEF PodcastInv
<1>12. ASSUME NEW h \in Hands, AddPodcastPlaylistItem(h) PROVE PodcastInv'
  <2>1. PodcastTypes'
    <3>1. PICK u \in Authors, l \in playlist, e \in Episodes : Grasp(h, "AddPodcastPlaylistItem", u, l, e)
      BY <1>12 DEF AddPodcastPlaylistItem
    <3>2. u \in Users /\ l \in Playlists
      BY <1>t DEF Authors, PodcastTypes
    <3> QED
      BY <1>t, <3>1, <3>2 DEF Grasp, PodcastTypes
  <2>2. ParentsExist'
    BY <1>t, <1>12 DEF AddPodcastPlaylistItem, Grasp, PodcastTypes, ParentsExist
  <2>3. DatesApart'
    BY <1>t, <1>12 DEF AddPodcastPlaylistItem, Grasp, PodcastTypes, DatesApart
  <2> QED
    BY <2>1, <2>2, <2>3 DEF PodcastInv
<1>13. ASSUME NEW h \in Hands, AddItem(h) PROVE PodcastInv'
  <2>1. PodcastTypes'
    BY <1>t, <1>13 DEF AddItem, NoHand, PodcastTypes
  <2>2. ParentsExist'
    <3>1. \A i \in items' : i \in items \/ (i.playlist = hand[h].on /\ i.episode = hand[h].episode)
      BY <1>13 DEF AddItem
    <3> QED
      BY <1>t, <1>13, <3>1 DEF AddItem, ParentsExist
  <2>3. DatesApart'
    BY <1>t, <1>13 DEF AddItem, NoHand, PodcastTypes, DatesApart
  <2> QED
    BY <2>1, <2>2, <2>3 DEF PodcastInv
<1>14. ASSUME NEW h \in Hands, UpsertProgress(h) PROVE PodcastInv'
  <2>1. PodcastTypes'
    <3> DEFINE e == hand[h]
    <3>1. e.episode \in Episodes
      BY <1>t, <1>14 DEF UpsertProgress, PodcastTypes
    <3>2. PICK position \in {0, 1}, completed \in BOOLEAN :
               listened' = [listened EXCEPT ![e.episode][e.who] =
                  {[position |-> position,
                    completed |-> completed \/ \E p \in listened[e.episode][e.who] : p.completed]}]
      BY <1>14 DEF UpsertProgress
    <3> PICK row : row = [position |-> position,
                          completed |-> completed \/ \E p \in listened[e.episode][e.who] : p.completed]
      OBVIOUS
    <3>3. row \in [position : {0, 1}, completed : BOOLEAN]
      OBVIOUS
    <3>4. [listened[e.episode] EXCEPT ![e.who] = {row}]
              \in [Users -> SUBSET [position : {0, 1}, completed : BOOLEAN]]
      BY <1>t, <3>1, <3>3 DEF PodcastTypes
    <3>5. listened' = [listened EXCEPT ![e.episode] = [listened[e.episode] EXCEPT ![e.who] = {row}]]
      BY <1>t, <3>1, <3>2 DEF PodcastTypes
    <3>6. listened' \in [Episodes -> [Users -> SUBSET [position : {0, 1}, completed : BOOLEAN]]]
      BY <1>t, <3>4, <3>5 DEF PodcastTypes
    <3> QED
      BY <1>t, <1>14, <3>6 DEF UpsertProgress, NoHand, PodcastTypes
  <2>2. ParentsExist'
    BY <1>t, <1>14 DEF UpsertProgress, NoHand, PodcastTypes, ParentsExist
  <2>3. DatesApart'
    BY <1>t, <1>14 DEF UpsertProgress, NoHand, PodcastTypes, DatesApart
  <2> QED
    BY <2>1, <2>2, <2>3 DEF PodcastInv
<1>15. ASSUME NEW h \in Hands, Drop(h) PROVE PodcastInv'
  <2>1. PodcastTypes'
    BY <1>t, <1>15 DEF Drop, NoHand, PodcastTypes
  <2>2. ParentsExist'
    BY <1>t, <1>15 DEF Drop, NoHand, PodcastTypes, ParentsExist
  <2>3. DatesApart'
    BY <1>t, <1>15 DEF Drop, NoHand, PodcastTypes, DatesApart
  <2> QED
    BY <2>1, <2>2, <2>3 DEF PodcastInv
<1>16. ASSUME NEW h \in Hands, NEW u \in Listeners, ReportPodcastProgress(h, u) PROVE PodcastInv'
  <2>1. PodcastTypes'
    BY <1>t, <1>16 DEF ReportPodcastProgress, Grasp, PodcastTypes
  <2>2. ParentsExist'
    BY <1>t, <1>16 DEF ReportPodcastProgress, Grasp, PodcastTypes, ParentsExist
  <2>3. DatesApart'
    BY <1>t, <1>16 DEF ReportPodcastProgress, Grasp, PodcastTypes, DatesApart
  <2> QED
    BY <2>1, <2>2, <2>3 DEF PodcastInv
<1>17. CASE UNCHANGED podcastVars
  BY <1>t, <1>17 DEF podcastVars, PodcastInv, PodcastTypes, ParentsExist, DatesApart
<1> QED
  BY <1>1, <1>2, <1>3, <1>4, <1>5, <1>6, <1>7, <1>8, <1>9, <1>10, <1>11, <1>12, <1>13, <1>14, <1>15, <1>16, <1>17 DEF PodcastsNext

(* Nothing refers to an episode, a show or a playlist that is gone, and     *)
(* dates of a feed are apart: for any number of shows, episodes, playlists  *)
(* and requests that found their rows before a deletion.                    *)
THEOREM PodcastsNeverDangle == PodcastsSpec => []NothingDangles
BY PodcastsStart, PodcastSteps, PodcastsSound, PTL DEF PodcastsSpec

-----------------------------------------------------------------------------
(* Uploads                                                                 *)

UploadRows == [who : Users \cup {NoPlan}, video : Videos \cup {NoPlan},
               library : Libraries \cup {NoLibrary}, new : BOOLEAN, alone : BOOLEAN]
VideoRows == [library : Libraries \cup {NoLibrary}, said : Seq(BOOLEAN), alone : BOOLEAN,
              written : Nat, disordered : BOOLEAN]

UploadTypes ==
  /\ library \in Libraries \cup {NoLibrary}
  /\ asset \in [Videos \cup Files -> {"none", "pending", "ready", "failed"}]
  /\ upload \in [Uploads -> UploadRows]
  /\ video \in [Videos -> VideoRows]
  /\ object \in [Files -> {"none", "fits", "large"}]
  /\ tasks \subseteq [video : Videos, report : Nat, status : {"ready", "failed"}]

(* Each upload in progress is of a video of its own, that has no row yet.   *)
UploadsApart ==
  \A h \in Uploads : upload[h] # NoUpload =>
     /\ upload[h].video \in Videos /\ asset[upload[h].video] = "none"
     /\ \A o \in Uploads : upload[o].video = upload[h].video => o = h

(* An upload that is alone so far knows the library, and what was uploaded  *)
(* alone fixed it: whoever came after it saw that one.                      *)
AloneFixes ==
  /\ \A h \in Uploads : upload[h] # NoUpload /\ upload[h].alone =>
        /\ \A o \in Uploads : upload[o] # NoUpload => o = h
        /\ ~upload[h].new => upload[h].library = library
  /\ \A v \in Videos : asset[v] # "none" /\ video[v].alone =>
        /\ library # NoLibrary /\ video[v].library = library
        /\ \A h \in Uploads : upload[h] # NoUpload => upload[h].library # NoLibrary /\ ~upload[h].new

StatusOf(said) == IF said THEN "ready" ELSE "failed"

(* A task carries a report that was made, and the row the last one written. *)
TasksReport ==
  /\ \A t \in tasks : /\ t.report \in DOMAIN video[t.video].said
                      /\ t.status = StatusOf(video[t.video].said[t.report])
  /\ \A v \in Videos :
        /\ asset[v] = "none" => video[v].said = <<>>
        /\ asset[v] = "ready" => \E n \in DOMAIN video[v].said : video[v].said[n]
        /\ video[v].written > 0 =>
              /\ video[v].written \in DOMAIN video[v].said
              /\ ~video[v].disordered => asset[v] = StatusOf(video[v].said[video[v].written])

FilesFit == \A f \in Files : asset[f] = "ready" => object[f] = "fits"

UploadInv == UploadTypes /\ UploadsApart /\ AloneFixes /\ TasksReport /\ FilesFit

(* An organisation without uploads satisfies the invariant.                 *)
LEMMA UploadsStart == UploadsInit => UploadInv
BY UploadsAssumption DEF UploadsInit, UploadInv, UploadTypes, UploadRows, VideoRows, UploadsApart, AloneFixes,
   TasksReport, FilesFit, NoUpload

(* The invariant gives the property: what is ready can be played.           *)
LEMMA UploadsSound == UploadInv => ReadyToPlay
<1> SUFFICES ASSUME UploadInv PROVE ReadyToPlay
  OBVIOUS
<1>1. ASSUME NEW v \in Videos, asset[v] # "none"
      PROVE  /\ video[v].alone => Playback(v) = video[v].library
             /\ asset[v] = "ready" => \E n \in DOMAIN video[v].said : video[v].said[n]
  BY <1>1 DEF UploadInv, AloneFixes, TasksReport, Playback
<1>2. ASSUME NEW v \in Videos, ~video[v].disordered, video[v].written = Len(video[v].said), video[v].written > 0
      PROVE  (asset[v] = "ready") = video[v].said[Len(video[v].said)]
  <2> DEFINE last == video[v].said[Len(video[v].said)]
  <2>1. video[v].said \in Seq(BOOLEAN) /\ video[v].written \in DOMAIN video[v].said
    BY <1>2 DEF UploadInv, UploadTypes, VideoRows, TasksReport
  <2>2. last \in BOOLEAN
    BY <1>2, <2>1
  <2>3. asset[v] = StatusOf(last)
    BY <1>2 DEF UploadInv, TasksReport
  <2> HIDE DEF last
  <2>4. (asset[v] = "ready") = last
    BY <2>2, <2>3 DEF StatusOf
  <2> QED
    BY <2>4 DEF last
<1> QED
  BY <1>1, <1>2 DEF ReadyToPlay, UploadInv, FilesFit

(* Every request, report and task of the media pipeline keeps it.           *)
LEMMA UploadSteps == UploadInv /\ [UploadsNext]_uploadVars => UploadInv'
<1> SUFFICES ASSUME UploadInv, [UploadsNext]_uploadVars PROVE UploadInv'
  OBVIOUS
<1> USE UploadsAssumption
<1>t. UploadTypes /\ UploadsApart /\ AloneFixes /\ TasksReport /\ FilesFit
  BY DEF UploadInv
<1>1. ASSUME NEW h \in Uploads, NEW u \in Users, NEW v \in Videos, UploadVideo(h, u, v) PROVE UploadInv'
  <2>1. /\ UNCHANGED <<library, asset, video, object, tasks>>
        /\ asset[v] = "none" /\ upload[h] = NoUpload /\ \A o \in Uploads : upload[o].video # v
    BY <1>1 DEF UploadVideo, MayUpload
  <2> PICK new : new = [who |-> u, video |-> v, library |-> library, new |-> FALSE, alone |-> OpenUploads = {}]
    OBVIOUS
  <2>2. \A o \in Uploads : upload'[o] = IF o = h THEN new
                              ELSE IF upload[o] # NoUpload THEN [upload[o] EXCEPT !.alone = FALSE] ELSE upload[o]
    BY <1>1 DEF UploadVideo, OpenUploads
  <2>3. /\ new \in UploadRows /\ new.video = v /\ new.library = library /\ new.new = FALSE /\ new # NoUpload
        /\ new.alone <=> \A o \in Uploads : upload[o] = NoUpload
    BY <1>t DEF UploadTypes, UploadRows, OpenUploads, NoUpload
  <2>4. \A o \in Uploads : upload[o] \in UploadRows
    BY <1>t DEF UploadTypes
  <2>5. \A o \in Uploads \ {h} :
          /\ upload'[o].video = upload[o].video
          /\ upload[o] = NoUpload => upload'[o] = NoUpload
          /\ upload[o] # NoUpload => /\ upload'[o] \in UploadRows /\ ~upload'[o].alone
                                     /\ upload'[o].library = upload[o].library /\ upload'[o].new = upload[o].new
    <3> TAKE o \in Uploads \ {h}
    <3>1. CASE upload[o] = NoUpload
      BY <2>2, <3>1
    <3>2. CASE upload[o] # NoUpload
      <4>1. upload'[o] = [upload[o] EXCEPT !.alone = FALSE] /\ upload[o] \in UploadRows
        BY <2>2, <2>4, <3>2
      <4> QED
        BY <3>2, <4>1 DEF UploadRows
    <3> QED
      BY <3>1, <3>2
  <2>6. UploadTypes'
    <3>1. upload' = [o \in Uploads |-> upload'[o]] /\ \A o \in Uploads : upload'[o] \in UploadRows
      BY <1>1, <2>2, <2>3, <2>4, <2>5 DEF UploadVideo
    <3>2. upload' \in [Uploads -> UploadRows]
      BY <3>1
    <3> QED
      BY <1>t, <2>1, <3>2 DEF UploadTypes
  <2>7. UploadsApart'
    <3>1. upload'[h].video = v /\ \A o \in Uploads \ {h} : upload'[o].video # v
      <4>1. upload'[h].video = v
        BY <2>2, <2>3
      <4> QED
        BY <2>1, <2>5, <4>1
    <3>2. ASSUME NEW o \in Uploads, o # h, upload'[o] # NoUpload
          PROVE  /\ upload'[o].video \in Videos /\ asset'[upload'[o].video] = "none"
                 /\ \A p \in Uploads : upload'[p].video = upload'[o].video => p = o
      BY <1>t, <2>1, <2>5, <3>1, <3>2 DEF UploadsApart
    <3> QED
      BY <2>1, <3>1, <3>2 DEF UploadsApart
  <2>8. AloneFixes'
    <3>1. upload'[h].library = library /\ ~upload'[h].new
      BY <2>2, <2>3
    <3>2. upload'[h].alone => \A o \in Uploads : upload'[o] # NoUpload => o = h
      BY <2>2, <2>3, <2>5
    <3>3. \A o \in Uploads : upload'[o] # NoUpload /\ upload'[o].alone => o = h
      BY <2>5
    <3>4. ASSUME NEW w \in Videos, asset[w] # "none", video[w].alone, NEW o \in Uploads, upload'[o] # NoUpload
          PROVE  upload'[o].library # NoLibrary /\ ~upload'[o].new
      BY <1>t, <2>5, <3>1, <3>4 DEF AloneFixes
    <3> QED
      BY <1>t, <2>1, <3>1, <3>2, <3>3, <3>4 DEF AloneFixes
  <2> QED
    BY <1>t, <2>1, <2>6, <2>7, <2>8 DEF UploadInv, TasksReport, FilesFit
<1>2. ASSUME NEW h \in Uploads, CreateLibrary(h) PROVE UploadInv'
  <2>1. PICK l \in Libraries : upload' = [upload EXCEPT ![h].library = l, ![h].new = TRUE]
    BY <1>2 DEF CreateLibrary
  <2>2. upload[h] # NoUpload /\ upload[h].library = NoLibrary /\ UNCHANGED <<library, asset, video, object, tasks>>
    BY <1>2 DEF CreateLibrary
  <2>3. /\ upload'[h] \in UploadRows /\ upload'[h].video = upload[h].video /\ upload'[h].alone = upload[h].alone
        /\ upload'[h].new /\ upload'[h].library = l /\ upload'[h] # NoUpload
        /\ \A o \in Uploads \ {h} : upload'[o] = upload[o]
    <3>1. upload[h] \in UploadRows /\ DOMAIN upload = Uploads
      BY <1>t, <2>2 DEF UploadTypes
    <3>2. upload'[h] = [upload[h] EXCEPT !.library = l, !.new = TRUE]
      BY <2>1, <3>1
    <3>3. \A o \in Uploads \ {h} : upload'[o] = upload[o]
      BY <2>1, <3>1
    <3>4. /\ upload'[h] \in UploadRows /\ upload'[h].video = upload[h].video
          /\ upload'[h].alone = upload[h].alone /\ upload'[h].new /\ upload'[h].library = l
      BY <3>1, <3>2 DEF UploadRows
    <3> QED
      BY <3>3, <3>4 DEF NoUpload
  <2>4. UploadTypes'
    BY <1>t, <2>1, <2>2, <2>3 DEF UploadTypes
  <2>5. UploadsApart'
    BY <1>t, <2>2, <2>3 DEF UploadsApart
  <2>6. AloneFixes'
    BY <1>t, <2>2, <2>3 DEF AloneFixes
  <2> QED
    BY <1>t, <2>2, <2>4, <2>5, <2>6 DEF UploadInv, TasksReport, FilesFit
<1>3. ASSUME NEW h \in Uploads, CommitUpload(h) PROVE UploadInv'
  <2> PICK e : e = upload[h]
    OBVIOUS
  <2>1. e # NoUpload /\ e.library # NoLibrary /\ e \in UploadRows /\ e.video \in Videos
    BY <1>t, <1>3 DEF CommitUpload, NoUpload, UploadTypes, UploadsApart
  <2>2. /\ UNCHANGED <<object, tasks>> /\ library' = IF e.new THEN e.library ELSE library
        /\ upload' = [upload EXCEPT ![h] = NoUpload] /\ asset' = [asset EXCEPT ![e.video] = "pending"]
        /\ video' = [video EXCEPT ![e.video] = [library |-> e.library, said |-> <<>>, alone |-> e.alone,
                                                written |-> 0, disordered |-> FALSE]]
    BY <1>3 DEF CommitUpload
  <2>3. /\ \A o \in Uploads : upload'[o] = IF o = h THEN NoUpload ELSE upload[o]
        /\ asset'[e.video] = "pending" /\ asset[e.video] = "none"
        /\ \A a \in (Videos \cup Files) \ {e.video} : asset'[a] = asset[a]
        /\ \A v \in Videos \ {e.video} : video'[v] = video[v]
    BY <1>t, <2>1, <2>2 DEF UploadTypes, UploadsApart
  <2>4. /\ video'[e.video].library = e.library /\ video'[e.video].alone = e.alone
        /\ video'[e.video].said = <<>> /\ video'[e.video].written = 0
        /\ video'[e.video] \in VideoRows
    BY <1>t, <2>1, <2>2 DEF UploadTypes, UploadRows, VideoRows
  <2>5. UploadTypes'
    <3>1. NoUpload \in UploadRows
      BY DEF NoUpload, UploadRows
    <3>2. library' \in Libraries \cup {NoLibrary}
      BY <1>t, <2>1, <2>2 DEF UploadTypes, UploadRows
    <3> QED
      BY <1>t, <2>1, <2>2, <2>4, <3>1, <3>2 DEF UploadTypes
  <2>6. UploadsApart'
    <3>1. upload'[h].video = NoPlan
      BY <2>3 DEF NoUpload
    <3>2. ASSUME NEW o \in Uploads, upload'[o] # NoUpload
          PROVE  /\ upload'[o] = upload[o] /\ upload[o].video \in Videos /\ asset[upload[o].video] = "none"
                 /\ upload[o].video # e.video
      BY <1>t, <2>1, <2>3, <3>2 DEF UploadsApart
    <3> QED
      BY <1>t, <2>3, <3>1, <3>2 DEF UploadsApart
  <2>7. AloneFixes'
    <3>1. ASSUME NEW o \in Uploads, upload'[o] # NoUpload, upload'[o].alone
          PROVE  FALSE
      BY <1>t, <2>1, <2>3, <3>1 DEF AloneFixes
    <3>2. ASSUME NEW v \in Videos, asset'[v] # "none", video'[v].alone, v # e.video
          PROVE  /\ library' = library /\ library # NoLibrary /\ video'[v].library = library
                 /\ \A o \in Uploads : upload'[o] # NoUpload => upload'[o].library # NoLibrary /\ ~upload'[o].new
      BY <1>t, <2>1, <2>2, <2>3, <3>2 DEF AloneFixes
    <3>3. ASSUME e.alone
          PROVE  /\ library' # NoLibrary /\ video'[e.video].library = library'
                 /\ \A o \in Uploads : upload'[o] = NoUpload
      BY <1>t, <2>1, <2>2, <2>3, <2>4, <3>3 DEF AloneFixes
    <3> QED
      BY <2>4, <3>1, <3>2, <3>3 DEF AloneFixes
  <2>8. TasksReport'
    <3>1. \A t \in tasks : t.video # e.video
      BY <1>t, <2>1, <2>3 DEF TasksReport
    <3>2. \A t \in tasks : t.video \in Videos
      BY <1>t DEF UploadTypes
    <3> QED
      BY <1>t, <2>1, <2>2, <2>3, <2>4, <3>1, <3>2 DEF TasksReport
  <2>9. FilesFit'
    BY <1>t, <2>1, <2>2, <2>3 DEF FilesFit
  <2> QED
    BY <2>5, <2>6, <2>7, <2>8, <2>9 DEF UploadInv
<1>4. ASSUME NEW h \in Uploads, DropUpload(h) PROVE UploadInv'
  <2>1. /\ UNCHANGED <<library, asset, video, object, tasks>> /\ upload' = [upload EXCEPT ![h] = NoUpload]
        /\ \A o \in Uploads : upload'[o] = IF o = h THEN NoUpload ELSE upload[o]
    BY <1>t, <1>4 DEF DropUpload, UploadTypes
  <2>2. UploadTypes'
    BY <1>t, <2>1 DEF UploadTypes, UploadRows, NoUpload
  <2>3. UploadsApart'
    <3>1. upload'[h].video = NoPlan
      BY <2>1 DEF NoUpload
    <3> QED
      BY <1>t, <2>1, <3>1 DEF UploadsApart
  <2>4. AloneFixes'
    BY <1>t, <2>1 DEF AloneFixes
  <2> QED
    BY <1>t, <2>1, <2>2, <2>3, <2>4 DEF UploadInv, TasksReport, FilesFit
<1>5. ASSUME NEW v \in Videos, Report(v) PROVE UploadInv'
  <2>1. PICK done \in BOOLEAN : video' = [video EXCEPT ![v].said = Append(@, done)]
    BY <1>5 DEF Report
  <2>2. asset[v] # "none" /\ UNCHANGED <<library, asset, upload, object, tasks>>
    BY <1>5 DEF Report
  <2>3. video[v] \in VideoRows /\ video[v].said \in Seq(BOOLEAN) /\ video[v].written \in Nat
    BY <1>t DEF UploadTypes, VideoRows
  <2>4. /\ video'[v].said = Append(video[v].said, done) /\ video'[v].alone = video[v].alone
        /\ video'[v].library = video[v].library /\ video'[v].written = video[v].written
        /\ video'[v].disordered = video[v].disordered
        /\ video'[v] \in VideoRows /\ \A w \in Videos \ {v} : video'[w] = video[w]
    <3> PICK said : said = Append(video[v].said, done)
      OBVIOUS
    <3>1. said \in Seq(BOOLEAN)
      BY <2>3
    <3>2. video' = [video EXCEPT ![v] = [video[v] EXCEPT !.said = said]]
      BY <1>t, <2>1 DEF UploadTypes
    <3> QED
      BY <1>t, <2>3, <3>1, <3>2 DEF UploadTypes, VideoRows
  <2>5. \A n \in DOMAIN video[v].said :
           n \in DOMAIN video'[v].said /\ video'[v].said[n] = video[v].said[n]
    BY <2>3, <2>4
  <2>6. UploadTypes'
    BY <1>t, <2>1, <2>2, <2>4 DEF UploadTypes
  <2>7. UploadsApart' /\ AloneFixes' /\ FilesFit'
    BY <1>t, <2>2, <2>4 DEF UploadsApart, AloneFixes, FilesFit
  <2>8. TasksReport'
    <3>1. \A t \in tasks : t.video \in Videos
      BY <1>t DEF UploadTypes
    <3>2. \A w \in Videos : \A n \in DOMAIN video[w].said :
             n \in DOMAIN video'[w].said /\ video'[w].said[n] = video[w].said[n]
      BY <2>4, <2>5
    <3>3. \A w \in Videos : /\ video'[w].written = video[w].written
                            /\ video'[w].disordered = video[w].disordered
                            /\ asset[w] = "none" => video'[w] = video[w]
      BY <2>2, <2>4
    <3>4. \A t \in tasks' : /\ t.report \in DOMAIN video'[t.video].said
                            /\ t.status = StatusOf(video'[t.video].said[t.report])
      BY <1>t, <2>2, <3>1, <3>2 DEF TasksReport
    <3>5. ASSUME NEW w \in Videos
          PROVE  /\ asset'[w] = "none" => video'[w].said = <<>>
                 /\ asset'[w] = "ready" => \E n \in DOMAIN video'[w].said : video'[w].said[n]
                 /\ video'[w].written > 0 =>
                      /\ video'[w].written \in DOMAIN video'[w].said
                      /\ ~video'[w].disordered => asset'[w] = StatusOf(video'[w].said[video'[w].written])
      <4>1. asset' = asset
        BY <2>2
      <4>a. video'[w].written = video[w].written
        BY <3>3
      <4>b. ~video'[w].disordered => ~video[w].disordered
        BY <3>3
      <4>c. asset[w] = "none" => video'[w] = video[w]
        BY <3>3
      <4>2. asset'[w] = "none" => video'[w].said = <<>>
        BY <1>t, <4>1, <4>c DEF TasksReport
      <4>3. asset'[w] = "ready" => \E n \in DOMAIN video'[w].said : video'[w].said[n]
        BY <1>t, <3>2, <4>1 DEF TasksReport
      <4>4. video[w].written > 0 => video'[w].written \in DOMAIN video'[w].said
        BY <1>t, <3>2, <4>a DEF TasksReport
      <4>5. video[w].written > 0 /\ ~video[w].disordered =>
               asset'[w] = StatusOf(video'[w].said[video'[w].written])
        <5> SUFFICES ASSUME video[w].written > 0, ~video[w].disordered
                     PROVE  asset'[w] = StatusOf(video'[w].said[video'[w].written])
          OBVIOUS
        <5>1. /\ video[w].written \in DOMAIN video[w].said
              /\ asset[w] = StatusOf(video[w].said[video[w].written])
          BY <1>t DEF TasksReport
        <5> QED
          BY <3>2, <4>1, <4>a, <5>1
      <4> QED
        BY <4>a, <4>b, <4>2, <4>3, <4>4, <4>5
    <3> QED
      BY <3>4, <3>5 DEF TasksReport
  <2> QED
    BY <2>6, <2>7, <2>8 DEF UploadInv
<1>6. ASSUME NEW v \in Videos, BunnyWebhook(v) PROVE UploadInv'
  <2>1. PICK n \in DOMAIN video[v].said :
               tasks' = tasks \cup {[video |-> v, report |-> n, status |-> StatusOf(video[v].said[n])]}
    BY <1>6 DEF BunnyWebhook, StatusOf
  <2>2. UNCHANGED <<library, asset, upload, video, object>>
    BY <1>6 DEF BunnyWebhook
  <2>3. n \in Nat
    BY <1>t DEF UploadTypes, VideoRows
  <2>4. UploadTypes'
    BY <1>t, <2>1, <2>2, <2>3 DEF UploadTypes, StatusOf
  <2>5. TasksReport'
    BY <1>t, <2>1, <2>2 DEF TasksReport
  <2> QED
    BY <1>t, <2>2, <2>4, <2>5 DEF UploadInv, UploadsApart, AloneFixes, FilesFit
<1>7. ASSUME NEW t \in tasks, TranscodeComplete(t) PROVE UploadInv'
  <2> PICK v : v = t.video
    OBVIOUS
  <2>1. /\ v \in Videos /\ t.report \in Nat /\ t.status \in {"ready", "failed"} /\ video[v] \in VideoRows
        /\ t.report \in DOMAIN video[v].said /\ t.status = StatusOf(video[v].said[t.report])
        /\ video[v].said \in Seq(BOOLEAN) /\ video[v].written \in Nat
    BY <1>t, <1>7 DEF UploadTypes, VideoRows, TasksReport
  <2>2. /\ UNCHANGED <<library, upload, object>> /\ tasks' \subseteq tasks
        /\ asset[v] # "none" /\ asset' = [asset EXCEPT ![v] = t.status]
        /\ video' = [video EXCEPT ![v].written = IF t.report > @ THEN t.report ELSE @,
                                  ![v].disordered = @ \/ t.report < video[v].written]
    BY <1>7 DEF TranscodeComplete
  <2>3. /\ video'[v].said = video[v].said /\ video'[v].alone = video[v].alone
        /\ video'[v].library = video[v].library
        /\ video'[v].written = IF t.report > video[v].written THEN t.report ELSE video[v].written
        /\ \A w \in Videos \ {v} : video'[w] = video[w]
        /\ asset'[v] = t.status /\ \A a \in (Videos \cup Files) \ {v} : asset'[a] = asset[a]
    BY <1>t, <2>1, <2>2 DEF UploadTypes, VideoRows
  <2>4. /\ video' \in [Videos -> VideoRows]
        /\ video'[v].disordered <=> video[v].disordered \/ t.report < video[v].written
    <3>1. video[v].disordered \in BOOLEAN
      BY <2>1 DEF VideoRows
    <3> PICK disordered \in BOOLEAN : disordered = (video[v].disordered \/ t.report < video[v].written)
      BY <3>1
    <3> PICK written : written = IF t.report > video[v].written THEN t.report ELSE video[v].written
      OBVIOUS
    <3>2. video' = [video EXCEPT ![v] = [video[v] EXCEPT !.written = written, !.disordered = disordered]]
      BY <1>t, <2>1, <2>2 DEF UploadTypes
    <3>3. [video[v] EXCEPT !.written = written, !.disordered = disordered] \in VideoRows
      BY <2>1 DEF VideoRows
    <3>4. video' \in [Videos -> VideoRows]
      BY <1>t, <3>2, <3>3 DEF UploadTypes
    <3>5. video'[v].disordered = disordered
      BY <1>t, <2>1, <3>2 DEF UploadTypes, VideoRows
    <3> QED
      BY <3>4, <3>5
  <2>5. UploadTypes'
    BY <1>t, <2>1, <2>2, <2>4 DEF UploadTypes
  <2>6. UploadsApart'
    <3>1. upload' = upload /\ \A w \in Videos : asset[w] = "none" => asset'[w] = "none"
      BY <2>1, <2>2, <2>3
    <3> QED
      BY <1>t, <3>1 DEF UploadsApart
  <2>9. AloneFixes'
    <3>1. ASSUME NEW w \in Videos, asset'[w] # "none", video'[w].alone
          PROVE  asset[w] # "none" /\ video[w].alone /\ video'[w].library = video[w].library
      BY <2>2, <2>3, <3>1
    <3>2. library' = library /\ upload' = upload
      BY <2>2
    <3>3. ASSUME NEW w \in Videos, asset'[w] # "none", video'[w].alone
          PROVE  /\ library' # NoLibrary /\ video'[w].library = library'
                 /\ \A h \in Uploads : upload'[h] # NoUpload => upload'[h].library # NoLibrary /\ ~upload'[h].new
      BY <1>t, <3>1, <3>2, <3>3 DEF AloneFixes
    <3> QED
      BY <1>t, <3>2, <3>3 DEF AloneFixes
  <2>7. TasksReport'
    <3>1. ASSUME NEW o \in tasks' PROVE o.report \in DOMAIN video'[o.video].said
                                        /\ o.status = StatusOf(video'[o.video].said[o.report])
      <4>1. /\ o.video \in Videos /\ o.report \in DOMAIN video[o.video].said
            /\ o.status = StatusOf(video[o.video].said[o.report])
        BY <1>t, <2>2, <3>1 DEF TasksReport, UploadTypes
      <4>2. video'[o.video].said = video[o.video].said
        BY <2>3, <4>1
      <4> QED
        BY <4>1, <4>2
    <3>2. ASSUME asset'[v] = "ready" PROVE \E n \in DOMAIN video'[v].said : video'[v].said[n]
      BY <2>1, <2>3, <3>2 DEF StatusOf
    <3>3. video'[v].written \in DOMAIN video'[v].said
      <4>1. t.report > 0
        BY <2>1
      <4> QED
        BY <1>t, <2>1, <2>3, <4>1 DEF TasksReport
    <3>4. ASSUME ~video'[v].disordered PROVE asset'[v] = StatusOf(video'[v].said[video'[v].written])
      <4>1. video'[v].written = t.report
        BY <2>1, <2>3, <2>4, <3>4
      <4> QED
        BY <2>1, <2>3, <4>1
    <3>5. asset'[v] # "none"
      BY <2>1, <2>3
    <3> QED
      BY <1>t, <2>3, <3>1, <3>2, <3>3, <3>4, <3>5 DEF TasksReport
  <2>8. FilesFit'
    BY <1>t, <2>1, <2>2, <2>3 DEF FilesFit
  <2> QED
    BY <2>5, <2>6, <2>7, <2>8, <2>9 DEF UploadInv
<1>8. ASSUME NEW f \in Files, NEW status \in {"pending", "ready", "failed"}, asset' = [asset EXCEPT ![f] = status],
             UNCHANGED <<library, upload, video, object, tasks>>, status = "ready" => object[f] = "fits"
      PROVE  UploadInv'
  <2>1. /\ f \notin Videos /\ asset'[f] = status
        /\ \A a \in (Videos \cup Files) \ {f} : asset'[a] = asset[a]
    BY <1>t, <1>8 DEF UploadTypes
  <2>2. UploadTypes'
    BY <1>t, <1>8 DEF UploadTypes
  <2>3. UploadsApart' /\ AloneFixes'
    BY <1>t, <1>8, <2>1 DEF UploadsApart, AloneFixes
  <2>4. TasksReport' /\ FilesFit'
    BY <1>t, <1>8, <2>1 DEF TasksReport, FilesFit
  <2> QED
    BY <2>2, <2>3, <2>4 DEF UploadInv
<1>9. ASSUME NEW f \in Files, UploadFile(f) PROVE UploadInv'
  BY <1>8, <1>9 DEF UploadFile
<1>10. ASSUME NEW f \in Files, UploadFileComplete(f) PROVE UploadInv'
  BY <1>8, <1>10 DEF UploadFileComplete
<1>11. ASSUME NEW f \in Files, PutObject(f) PROVE UploadInv'
  <2>1. PICK size \in {"fits", "large"} : object' = [object EXCEPT ![f] = size]
    BY <1>11 DEF PutObject
  <2>2. object[f] = "none" /\ UNCHANGED <<library, asset, upload, video, tasks>>
    BY <1>11 DEF PutObject
  <2>3. UploadTypes'
    BY <1>t, <2>1, <2>2 DEF UploadTypes
  <2>4. FilesFit'
    BY <1>t, <2>1, <2>2 DEF FilesFit, UploadTypes
  <2> QED
    BY <1>t, <2>2, <2>3, <2>4 DEF UploadInv, UploadsApart, AloneFixes, TasksReport
<1>12. CASE UNCHANGED uploadVars
  BY <1>t, <1>12 DEF uploadVars, UploadInv, UploadTypes, UploadsApart, AloneFixes, TasksReport, FilesFit
<1> QED
  BY <1>1, <1>2, <1>3, <1>4, <1>5, <1>6, <1>7, <1>9, <1>10, <1>11, <1>12 DEF UploadsNext

(* A video is played from the library it is in, and ready when the service  *)
(* said so, for any number of uploads and reports in any order; only an     *)
(* upload that overlapped another may be looked for in the wrong library.   *)
THEOREM UploadsPlay == UploadsSpec => []ReadyToPlay
BY UploadsStart, UploadSteps, UploadsSound, PTL DEF UploadsSpec

-----------------------------------------------------------------------------
(* Membership                                                              *)

OfUsers == {"CreateOrg", "DeleteOrg", "ChangeMemberRole", "RemoveMember"}
OfInvitations == {"CreateInvitation", "RevokeInvitation", "AcceptInvitation", "DeclineInvitation"}
Targets == Users \cup Invites \cup Titles
RequestRows == [kind : OfUsers \cup OfInvitations \cup {"CreateCourse", "idle"}, who : Users \cup {NoPlan},
                on : Targets \cup {NoPlan}, phase : {"none", "resolved", "started", "wrote"},
                to : Roles \cup {"none", "gone", "draft", "pending", "accepted", "declined", "revoked"},
                overtaken : BOOLEAN]

(* What a request of a kind is about.                                      *)
Apt(e) ==
  /\ e.kind \in OfUsers => e.on \in Users
  /\ e.kind \in OfInvitations => e.on \in Invites
  /\ e.kind = "CreateCourse" => e.on \in Titles
  /\ e.kind = "idle" => e.phase = "none"
  /\ e.kind = "CreateOrg" => e.to = "owner"
  /\ e.kind = "RemoveMember" => e.to = "none"
  /\ e.kind = "AcceptInvitation" => e.who = To[e.on] /\ e.to = "accepted"

AllApt == req \in [Requests -> RequestRows] /\ \A r \in Requests : Apt(req[r])

(* A request that wrote holds its rows, and they stay as it found them.     *)
HoldsRows ==
  \A r \in Requests : req[r].phase = "wrote" =>
     /\ Found(req[r])
     /\ \A o \in Requests : req[o].phase = "wrote" /\ o # r => Takes(req[o]) \cap Takes(req[r]) = {}

TenancyInv == AllApt /\ HoldsRows

(* No request runs at first, so that none is inapt and none holds a row.    *)
LEMMA TenancyStarts == TenancyInit => TenancyInv
BY DEF TenancyInit, TenancyInv, AllApt, HoldsRows, Apt, RequestRows, Idle, OfUsers, OfInvitations

(* A request takes the row it is about, and only rows.                      *)
LEMMA TakesTarget ==
  ASSUME NEW e \in RequestRows, Apt(e), e.kind # "idle"
  PROVE  e.on \in Takes(e) /\ Takes(e) \subseteq Targets
BY TenancyAssumption DEF RequestRows, Apt, Takes, Targets, OfUsers, OfInvitations

(* One request changes; what the others hold does not.                      *)
LEMMA OthersHold ==
  ASSUME TenancyInv, UNCHANGED rows, NEW r \in Requests, NEW e \in RequestRows, Apt(e),
         req' = [req EXCEPT ![r] = e],
         e.phase = "wrote" => Found(e) /\ \A o \in Requests :
                                req[o].phase = "wrote" /\ o # r => Takes(req[o]) \cap Takes(e) = {}
  PROVE  TenancyInv'
<1>1. AllApt' /\ \A o \in Requests : req'[o] = IF o = r THEN e ELSE req[o]
  BY DEF TenancyInv, AllApt, Apt
<1>2. ASSUME NEW o \in Requests, req'[o].phase = "wrote" PROVE Found(req[o])'
  <2> PICK d : d = req'[o]
    OBVIOUS
  <2>1. Found(d)
    BY <1>1, <1>2 DEF TenancyInv, HoldsRows
  <2> QED
    BY <2>1 DEF Found, IsMember, rows
<1>3. ASSUME NEW o \in Requests, NEW p \in Requests, req'[o].phase = "wrote", req'[p].phase = "wrote", o # p
      PROVE  Takes(req'[o]) \cap Takes(req'[p]) = {}
  BY <1>1, <1>3 DEF TenancyInv, HoldsRows
<1>4. HoldsRows'
  BY <1>2, <1>3 DEF HoldsRows, Takes
<1> QED
  BY <1>1, <1>4 DEF TenancyInv

(* A commit marks others as overtaken, and changes nothing else of them.    *)
Alike(d, e) == /\ d.kind = e.kind /\ d.who = e.who /\ d.on = e.on /\ d.to = e.to /\ d.phase = e.phase

(* Two requests that agree on these fields pass the same checks.            *)
LEMMA PassedAlike ==
  ASSUME AllApt, NEW o \in Requests
  PROVE  Passed(req)[o] \in RequestRows /\ Apt(Passed(req)[o]) /\ Alike(Passed(req)[o], req[o])
<1>1. req[o] \in RequestRows /\ Apt(req[o])
  BY DEF AllApt
<1>2. [req[o] EXCEPT !.overtaken = TRUE] \in RequestRows /\ Alike([req[o] EXCEPT !.overtaken = TRUE], req[o])
  BY <1>1 DEF RequestRows, Alike
<1>3. Apt([req[o] EXCEPT !.overtaken = TRUE])
  BY <1>1, <1>2 DEF Apt, Alike
<1> QED
  BY <1>1, <1>2, <1>3 DEF Passed, Alike

(* What every request about its rows found stays so while these rows stay,  *)
(* whatever is said of who was overtaken.                                   *)
LEMMA FoundStays ==
  ASSUME TenancyInv, req' \in [Requests -> RequestRows], \A o \in Requests : Apt(req'[o]),
         \A o \in Requests : req'[o].phase = "wrote" =>
            /\ req[o].phase = "wrote" /\ Alike(req'[o], req[o])
            /\ req[o].kind = "CreateOrg" => org' = org
            /\ org \in {"open", "closed"} => org' \in {"open", "closed"}
            /\ org # "gone" => org' # "gone"
            /\ req[o].on \in Users => role'[req[o].on] = role[req[o].on]
            /\ req[o].on \in Invites => invite'[req[o].on] = invite[req[o].on]
            /\ req[o].on \in courses' => req[o].on \in courses
  PROVE  TenancyInv'
<1>1. ASSUME NEW o \in Requests, req'[o].phase = "wrote" PROVE Found(req[o])'
  <2> PICK d : d = req'[o]
    OBVIOUS
  <2> PICK e : e = req[o]
    OBVIOUS
  <2>1. Found(e) /\ d.kind = e.kind /\ d.on = e.on /\ e \in RequestRows /\ Apt(e)
    BY <1>1 DEF TenancyInv, AllApt, HoldsRows, Alike
  <2>2. CASE e.kind \in {"CreateOrg", "DeleteOrg"}
    BY <1>1, <2>1, <2>2 DEF Found
  <2>3. CASE e.kind \in {"ChangeMemberRole", "RemoveMember"}
    BY <1>1, <2>1, <2>3 DEF Found, Apt, OfUsers, IsMember
  <2>4. CASE e.kind \in OfInvitations
    BY <1>1, <2>1, <2>4 DEF Found, Apt, OfInvitations
  <2>5. CASE e.kind = "CreateCourse"
    BY <1>1, <2>1, <2>5 DEF Found
  <2>6. e.kind # "idle"
    BY <1>1, <2>1 DEF Apt
  <2> QED
    BY <2>1, <2>2, <2>3, <2>4, <2>5, <2>6 DEF RequestRows, OfUsers
<1>2. ASSUME NEW o \in Requests, NEW p \in Requests, req'[o].phase = "wrote", req'[p].phase = "wrote", o # p
      PROVE  Takes(req'[o]) \cap Takes(req'[p]) = {}
  <2>1. Takes(req'[o]) = Takes(req[o]) /\ Takes(req'[p]) = Takes(req[p])
    BY <1>2 DEF Alike, Takes
  <2> QED
    BY <1>2, <2>1 DEF TenancyInv, HoldsRows
<1>3. HoldsRows'
  BY <1>1, <1>2 DEF HoldsRows, Takes
<1> QED
  BY <1>3 DEF TenancyInv, AllApt, Apt

(* Every statement, write, commit and end of a request keeps it.            *)
LEMMA TenancySteps == TenancyInv /\ [TenancyNext]_tenancyVars => TenancyInv'
<1> SUFFICES ASSUME TenancyInv, [TenancyNext]_tenancyVars PROVE TenancyInv'
  OBVIOUS
<1> USE TenancyAssumption
<1>t. AllApt /\ HoldsRows
  BY DEF TenancyInv
<1>1. ASSUME NEW r \in Requests, NEW u \in Users, Request(r, u) PROVE TenancyInv'
  <2>1. PICK kind \in OfUsers \cup OfInvitations \cup {"CreateCourse"}, on \in Targets,
             to \in Roles \cup {"none", "gone", "draft", "pending", "accepted", "declined", "revoked"} :
             /\ Arrive(r, kind, u, on, to)
             /\ kind \in OfUsers => on \in Users
             /\ kind \in OfInvitations => on \in Invites
             /\ kind = "CreateCourse" => on \in Titles
             /\ kind = "CreateOrg" => to = "owner"
             /\ kind = "RemoveMember" => to = "none"
             /\ kind = "AcceptInvitation" => u = To[on] /\ to = "accepted"
    BY <1>1 DEF Request, CreateOrg, DeleteOrg, ChangeMemberRole, RemoveMember, CreateInvitation, RevokeInvitation,
       AcceptInvitation, DeclineInvitation, CreateCourse, Known, Roles, OfUsers, OfInvitations, Targets
  <2> PICK e : e = [Idle EXCEPT !.kind = kind, !.who = u, !.on = on, !.to = to, !.phase = "resolved"]
    OBVIOUS
  <2>a. /\ e.kind = kind /\ e.who = u /\ e.on = on /\ e.to = to /\ e.phase = "resolved"
        /\ e \in RequestRows
    BY DEF Idle, RequestRows
  <2>2. e \in RequestRows /\ Apt(e) /\ e.phase = "resolved"
    BY <2>1, <2>a DEF Apt, OfUsers, OfInvitations
  <2>3. req' = [req EXCEPT ![r] = e] /\ UNCHANGED rows
    BY <2>1 DEF Arrive, rows
  <2> QED
    BY <2>2, <2>3, OthersHold
<1>2. ASSUME NEW r \in Requests, Start(r) PROVE TenancyInv'
  <2> PICK e : e = [req[r] EXCEPT !.phase = "started"]
    OBVIOUS
  <2>1. req[r] \in RequestRows /\ Apt(req[r]) /\ req[r].phase = "resolved"
    BY <1>t, <1>2 DEF AllApt, Start
  <2>2. e \in RequestRows /\ Apt(e) /\ e.phase = "started"
    BY <2>1 DEF RequestRows, Apt
  <2>3. req' = [req EXCEPT ![r] = e] /\ UNCHANGED rows
    BY <1>t, <1>2 DEF Start, AllApt
  <2> QED
    BY <2>2, <2>3, OthersHold
<1>3. ASSUME NEW r \in Requests, Write(r) PROVE TenancyInv'
  <2> PICK e : e = [req[r] EXCEPT !.phase = "wrote"]
    OBVIOUS
  <2>1. req[r] \in RequestRows /\ Apt(req[r]) /\ req[r].phase = "started" /\ Found(req[r])
    BY <1>t, <1>3 DEF AllApt, Write
  <2>2. e \in RequestRows /\ Apt(e) /\ e.kind = req[r].kind /\ e.on = req[r].on
    BY <2>1 DEF RequestRows, Apt
  <2>3. req' = [req EXCEPT ![r] = e] /\ UNCHANGED rows
    BY <1>t, <1>3 DEF Write, AllApt
  <2>4. Found(e)
    BY <2>1, <2>2 DEF Found
  <2>5. Takes(e) = Takes(req[r])
    BY <2>2 DEF Takes
  <2>6. ASSUME NEW o \in Requests, req[o].phase = "wrote" PROVE Takes(req[o]) \cap Takes(e) = {}
    BY <1>3, <2>5, <2>6 DEF Write, Locked
  <2> QED
    BY <2>2, <2>3, <2>4, <2>6, OthersHold
<1>4. ASSUME NEW r \in Requests, Commit(r) PROVE TenancyInv'
  <2> PICK e : e = req[r]
    OBVIOUS
  <2>1. e \in RequestRows /\ Apt(e) /\ e.phase = "wrote" /\ e.kind # "idle" /\ Found(e)
    BY <1>t, <1>4 DEF Commit, AllApt, HoldsRows, Apt
  <2>2. /\ org' = OrgAfter(e) /\ courses' = CoursesAfter(e)
        /\ \A u \in Users : role'[u] = RoleAfter(e, u)
        /\ \A i \in Invites : invite'[i] = InviteAfter(e, i)
    BY <1>4 DEF Commit
  <2>3. Idle \in RequestRows /\ Apt(Idle) /\ Idle.phase = "none"
    BY DEF Idle, RequestRows, Apt, OfUsers, OfInvitations
  <2>4. /\ req' = [Passed(req) EXCEPT ![r] = Idle]
        /\ Passed(req) \in [Requests -> RequestRows]
    <3>1. Passed(req) = [o \in Requests |-> Passed(req)[o]]
      BY DEF Passed
    <3> QED
      BY <1>t, <1>4, <3>1, PassedAlike DEF Commit, End
  <2>5. /\ req' \in [Requests -> RequestRows] /\ \A o \in Requests : Apt(req'[o])
        /\ req'[r] = Idle /\ \A o \in Requests \ {r} : Alike(req'[o], req[o])
    BY <1>t, <2>3, <2>4, PassedAlike
  <2>6. ASSUME NEW o \in Requests, req'[o].phase = "wrote"
        PROVE  /\ req[o].phase = "wrote" /\ Alike(req'[o], req[o])
               /\ org' = org
               /\ req[o].on \in Users => role'[req[o].on] = role[req[o].on]
               /\ req[o].on \in Invites => invite'[req[o].on] = invite[req[o].on]
               /\ req[o].on \in courses' => req[o].on \in courses
    <3>1. o # r /\ Alike(req'[o], req[o]) /\ req[o].phase = "wrote"
      BY <2>3, <2>5, <2>6 DEF Alike
    <3> PICK d : d = req[o]
      OBVIOUS
    <3>2. d \in RequestRows /\ Apt(d) /\ d.kind # "idle"
      BY <1>t, <3>1 DEF AllApt, Apt
    <3>3. /\ d.on \in Takes(d) /\ Takes(d) \subseteq Targets
          /\ e.on \in Takes(e) /\ Takes(e) \subseteq Targets
      BY <2>1, <3>2, TakesTarget
    <3>4. Takes(d) \cap Takes(e) = {}
      BY <1>t, <2>1, <3>1 DEF HoldsRows
    <3>5. e.kind \notin {"CreateOrg", "DeleteOrg"} /\ d.kind \notin {"CreateOrg", "DeleteOrg"}
      BY <3>3, <3>4 DEF Takes, Targets
    <3>6. org' = org
      BY <2>2, <3>5 DEF OrgAfter
    <3>7. d.on # e.on
      BY <3>3, <3>4
    <3>8. ASSUME d.on \in Users PROVE role'[d.on] = role[d.on]
      <4>1. e.kind = "AcceptInvitation" => e.who # d.on
        BY <2>1, <3>3, <3>4 DEF Apt, Takes
      <4> QED
        BY <2>2, <3>5, <3>7, <3>8, <4>1 DEF RoleAfter
    <3>9. ASSUME d.on \in Invites PROVE invite'[d.on] = invite[d.on]
      BY <2>2, <3>5, <3>7, <3>9 DEF InviteAfter
    <3>10. d.on \in courses' => d.on \in courses
      BY <2>2, <3>5, <3>7 DEF CoursesAfter
    <3> QED
      BY <3>1, <3>5, <3>6, <3>8, <3>9, <3>10
  <2> QED
    BY <2>5, <2>6, FoundStays
<1>5. ASSUME NEW r \in Requests, Fail(r) PROVE TenancyInv'
  <2>1. Idle \in RequestRows /\ Apt(Idle) /\ Idle.phase = "none"
    BY DEF Idle, RequestRows, Apt, OfUsers, OfInvitations
  <2> QED
    BY <1>5, <2>1, OthersHold DEF Fail
<1>6. ASSUME NEW handler, Overtaking(handler) PROVE TenancyInv'
  <2>1. Passed(req) \in [Requests -> RequestRows]
    <3>1. Passed(req) = [o \in Requests |-> Passed(req)[o]]
      BY DEF Passed
    <3> QED
      BY <1>t, <3>1, PassedAlike
  <2>2. req' = Passed(req) /\ UNCHANGED rows
    BY <1>6 DEF Overtaking
  <2>3. \A o \in Requests : Apt(req'[o]) /\ Alike(req'[o], req[o])
    BY <1>t, <2>2, PassedAlike
  <2> QED
    BY <2>1, <2>2, <2>3, FoundStays DEF rows, Alike
<1>7. ASSUME UNCHANGED <<role, invite, courses, req>>, org' = org \/ {org, org'} \subseteq {"open", "closed"}
      PROVE  TenancyInv'
  <2>1. req' \in [Requests -> RequestRows] /\ \A o \in Requests : Apt(req'[o]) /\ Alike(req'[o], req[o])
    BY <1>t, <1>7 DEF AllApt, Alike
  <2>2. /\ org \in {"open", "closed"} => org' \in {"open", "closed"}
        /\ org # "gone" => org' # "gone"
        /\ org = "absent" => org' = org
    BY <1>7
  <2>3. \A o \in Requests : req[o].phase = "wrote" /\ req[o].kind = "CreateOrg" => org = "absent"
    BY <1>t DEF HoldsRows, Found
  <2> QED
    BY <1>7, <2>1, <2>2, <2>3, FoundStays DEF Alike
<1>8. ASSUME \/ \E p \in Plans : CreatePlan(p) \/ UpdatePlan(p)
             \/ AssignOrgPlan
      PROVE  TenancyInv'
  BY <1>6, <1>8 DEF CreatePlan, UpdatePlan, PutPlan, AssignOrgPlan
<1>9. ASSUME \/ \E u \in Users : SuspendUser(u) \/ ReactivateUser(u)
             \/ \E i \in Invites : Expire(i)
             \/ DeactivateOrg \/ ReactivateOrg
             \/ UNCHANGED tenancyVars
      PROVE  TenancyInv'
  <2>1. UNCHANGED <<role, invite, courses, req>> /\ (org' = org \/ {org, org'} \subseteq {"open", "closed"})
    BY <1>9 DEF SuspendUser, ReactivateUser, Expire, DeactivateOrg, ReactivateOrg, SetOrgActive, tenancyVars, rows
  <2> QED
    BY <1>7, <2>1
<1> QED
  BY <1>1, <1>2, <1>3, <1>4, <1>5, <1>8, <1>9 DEF TenancyNext

(* The commits that make members or answer an invitation.                  *)
LEMMA JoiningSteps ==
  ASSUME TenancyInv, NEW r \in Requests, Commit(r)
  PROVE  /\ \A u \in Users :
              ~IsMember(u) /\ role'[u] # "none" =>
                 \/ org = "absent" /\ role'[u] = "owner"
                 \/ \E i \in Invites : /\ To[i] = u /\ role'[u] = As[i]
                                       /\ invite[i] = "pending" /\ invite'[i] = "accepted"
         /\ \A i \in Invites :
              invite[i] \notin {"none", "pending"} => invite'[i] = invite[i] \/ org' = "gone"
<1> USE TenancyAssumption
<1> PICK e : e = req[r]
  OBVIOUS
<1>1. e \in RequestRows /\ Apt(e) /\ Found(e) /\ e.kind # "idle"
  BY DEF TenancyInv, AllApt, HoldsRows, Commit, Apt
<1>2. /\ org' = OrgAfter(e)
      /\ \A u \in Users : role'[u] = RoleAfter(e, u)
      /\ \A i \in Invites : invite'[i] = InviteAfter(e, i)
  BY DEF Commit
<1>3. ASSUME NEW u \in Users, ~IsMember(u), role'[u] # "none"
      PROVE  \/ org = "absent" /\ role'[u] = "owner"
             \/ \E i \in Invites : /\ To[i] = u /\ role'[u] = As[i]
                                   /\ invite[i] = "pending" /\ invite'[i] = "accepted"
  <2>1. CASE e.kind = "CreateOrg"
    BY <1>1, <1>2, <1>3, <2>1 DEF RoleAfter, Found, Apt, IsMember
  <2>2. CASE e.kind = "AcceptInvitation"
    <3>1. e.on \in Invites /\ e.who = To[e.on] /\ e.to = "accepted" /\ invite[e.on] = "pending"
      BY <1>1, <2>2 DEF Apt, Found, OfInvitations
    <3>2. u = e.who /\ role'[u] = As[e.on]
      BY <1>2, <1>3, <2>2 DEF RoleAfter, IsMember
    <3>3. invite'[e.on] = "accepted"
      BY <1>2, <2>2, <3>1 DEF InviteAfter
    <3> QED
      BY <3>1, <3>2, <3>3
  <2>3. CASE e.kind \notin {"CreateOrg", "AcceptInvitation"}
    BY <1>1, <1>2, <1>3, <2>3 DEF RoleAfter, Found, Apt, IsMember
  <2> QED
    BY <2>1, <2>2, <2>3
<1>4. ASSUME NEW i \in Invites, invite[i] \notin {"none", "pending"}, e.kind # "DeleteOrg"
      PROVE  invite'[i] = invite[i]
  <2>1. e.on # i
    BY <1>1, <1>4 DEF Apt, Found, OfUsers, OfInvitations, RequestRows
  <2> QED
    BY <1>2, <1>4, <2>1 DEF InviteAfter
<1>5. e.kind = "DeleteOrg" => org' = "gone"
  BY <1>2 DEF OrgAfter
<1> QED
  BY <1>3, <1>4, <1>5

(* Roles and invitations change by commits alone.                           *)
LEMMA RolesStay ==
  ASSUME [TenancyNext]_tenancyVars
  PROVE  (\E r \in Requests : Commit(r)) \/ UNCHANGED <<role, invite>>
<1>1. ASSUME NEW r \in Requests, NEW u \in Users, Request(r, u) PROVE UNCHANGED <<role, invite>>
  BY <1>1 DEF Request, CreateOrg, DeleteOrg, ChangeMemberRole, RemoveMember, CreateInvitation, RevokeInvitation,
     AcceptInvitation, DeclineInvitation, CreateCourse, Arrive, rows
<1>2. ASSUME NEW r \in Requests, Start(r) \/ Write(r) \/ Fail(r) PROVE UNCHANGED <<role, invite>>
  BY <1>2 DEF Start, Write, Fail, rows
<1>3. ASSUME NEW p \in Plans, CreatePlan(p) \/ UpdatePlan(p) PROVE UNCHANGED <<role, invite>>
  BY <1>3 DEF CreatePlan, UpdatePlan, PutPlan, Overtaking, rows
<1>4. ASSUME NEW u \in Users, SuspendUser(u) \/ ReactivateUser(u) PROVE UNCHANGED <<role, invite>>
  BY <1>4 DEF SuspendUser, ReactivateUser, rows
<1>5. ASSUME \/ \E i \in Invites : Expire(i)
             \/ AssignOrgPlan \/ DeactivateOrg \/ ReactivateOrg
             \/ UNCHANGED tenancyVars
      PROVE  UNCHANGED <<role, invite>>
  BY <1>5 DEF Expire, AssignOrgPlan, Overtaking, DeactivateOrg, ReactivateOrg, SetOrgActive, tenancyVars, rows
<1> QED
  BY <1>1, <1>2, <1>3, <1>4, <1>5 DEF TenancyNext

(* Nobody becomes a member but by founding the organisation or by an        *)
(* invitation that was open and addressed to him, and no answer is changed: *)
(* for any number of users, invitations and overlapping requests.           *)
THEOREM MembersAreInvited == TenancySpec => JoinedByInvitation
<1> DEFINE Joined ==
             /\ \A u \in Users :
                   ~IsMember(u) /\ role'[u] # "none" =>
                       \/ org = "absent" /\ role'[u] = "owner"
                       \/ \E i \in Invites : /\ To[i] = u /\ role'[u] = As[i]
                                             /\ invite[i] = "pending" /\ invite'[i] = "accepted"
             /\ \A i \in Invites :
                   invite[i] \notin {"none", "pending"} => invite'[i] = invite[i] \/ org' = "gone"
<1>1. TenancyInv /\ [TenancyNext]_tenancyVars => [Joined]_tenancyVars
  <2> SUFFICES ASSUME TenancyInv, [TenancyNext]_tenancyVars PROVE Joined
    OBVIOUS
  <2>1. CASE \E r \in Requests : Commit(r)
    BY <2>1, JoiningSteps
  <2>2. CASE UNCHANGED <<role, invite>>
    BY <2>2 DEF IsMember
  <2> QED
    BY <2>1, <2>2, RolesStay
<1> QED
  BY <1>1, TenancyStarts, TenancySteps, PTL DEF TenancySpec, JoinedByInvitation

(* An owner's request that nothing overtook since its statement started is  *)
(* still an owner's.                                                        *)
OwnersStand ==
  \A r \in Requests :
     /\ req[r].phase \in {"started", "wrote"} /\ ~req[r].overtaken
     /\ req[r].kind \in {"ChangeMemberRole", "RemoveMember"}
     => req[r].who \in Owners

(* Where roles stay, only the request that changed is judged again.         *)
LEMMA StandingKept ==
  ASSUME TenancyInv, OwnersStand, UNCHANGED role, NEW r \in Requests, NEW e,
         req' = [req EXCEPT ![r] = e],
         /\ e.phase \in {"started", "wrote"} /\ ~e.overtaken
         /\ e.kind \in {"ChangeMemberRole", "RemoveMember"}
         => e.who \in Owners
  PROVE  OwnersStand'
<1>1. \A o \in Requests : req'[o] = req[o] \/ req'[o] = e
  BY DEF TenancyInv, AllApt
<1>2. Owners' = Owners
  BY DEF Owners
<1> QED
  BY <1>1, <1>2 DEF OwnersStand

(* What is overtaken need not stand.                                        *)
LEMMA PassedStand ==
  ASSUME TenancyInv, NEW o \in Requests
  PROVE  Passed(req)[o].phase \in {"started", "wrote"} => Passed(req)[o].overtaken
<1>1. req[o] \in RequestRows
  BY DEF TenancyInv, AllApt
<1> QED
  BY <1>1 DEF Passed, RequestRows

(* A statement starts for an owner; a commit overtakes all that started.    *)
LEMMA StandingSteps == TenancyInv /\ OwnersStand /\ [TenancyNext]_tenancyVars => OwnersStand'
<1> SUFFICES ASSUME TenancyInv, OwnersStand, [TenancyNext]_tenancyVars PROVE OwnersStand'
  OBVIOUS
<1>t. req \in [Requests -> RequestRows]
  BY DEF TenancyInv, AllApt
<1>1. ASSUME NEW r \in Requests, NEW u \in Users, Request(r, u) PROVE OwnersStand'
  <2>1. PICK kind, on, to : Arrive(r, kind, u, on, to)
    BY <1>1 DEF Request, CreateOrg, DeleteOrg, ChangeMemberRole, RemoveMember, CreateInvitation, RevokeInvitation,
       AcceptInvitation, DeclineInvitation, CreateCourse
  <2> PICK e : e = [Idle EXCEPT !.kind = kind, !.who = u, !.on = on, !.to = to, !.phase = "resolved"]
    OBVIOUS
  <2>2. e.phase = "resolved"
    BY DEF Idle
  <2>3. req' = [req EXCEPT ![r] = e] /\ UNCHANGED role
    BY <2>1 DEF Arrive, rows
  <2> QED
    BY <2>2, <2>3, StandingKept
<1>2. ASSUME NEW r \in Requests, Start(r) PROVE OwnersStand'
  <2> PICK e : e = [req[r] EXCEPT !.phase = "started"]
    OBVIOUS
  <2>1. e.kind = req[r].kind /\ e.who = req[r].who
    BY <1>t DEF RequestRows
  <2>2. e.kind \in {"ChangeMemberRole", "RemoveMember"} => e.who \in Owners
    BY <1>2, <2>1 DEF Start, Allowed
  <2>3. req' = [req EXCEPT ![r] = e] /\ UNCHANGED role
    BY <1>t, <1>2 DEF Start, rows
  <2> QED
    BY <2>2, <2>3, StandingKept
<1>3. ASSUME NEW r \in Requests, Write(r) PROVE OwnersStand'
  <2> PICK e : e = [req[r] EXCEPT !.phase = "wrote"]
    OBVIOUS
  <2>1. e.kind = req[r].kind /\ e.who = req[r].who /\ e.overtaken = req[r].overtaken /\ req[r].phase = "started"
    BY <1>t, <1>3 DEF RequestRows, Write
  <2>2. ~e.overtaken /\ e.kind \in {"ChangeMemberRole", "RemoveMember"} => e.who \in Owners
    BY <2>1 DEF OwnersStand
  <2>3. req' = [req EXCEPT ![r] = e] /\ UNCHANGED role
    BY <1>t, <1>3 DEF Write, rows
  <2> QED
    BY <2>2, <2>3, StandingKept
<1>4. ASSUME NEW r \in Requests, Commit(r) PROVE OwnersStand'
  <2>1. Passed(req) = [o \in Requests |-> Passed(req)[o]]
    BY DEF Passed
  <2>2. \A o \in Requests : req'[o] = Passed(req)[o] \/ req'[o] = Idle
    BY <1>4, <2>1 DEF Commit, End
  <2>3. \A o \in Requests : req'[o].phase \in {"started", "wrote"} => req'[o].overtaken
    BY <2>2, PassedStand DEF Idle
  <2> QED
    BY <2>3 DEF OwnersStand
<1>5. ASSUME NEW r \in Requests, Fail(r) PROVE OwnersStand'
  <2>1. req' = [req EXCEPT ![r] = Idle] /\ UNCHANGED role /\ Idle.phase = "none"
    BY <1>5 DEF Fail, rows, Idle
  <2> QED
    BY <2>1, StandingKept
<1>6. ASSUME req' = Passed(req) PROVE OwnersStand'
  BY <1>6, PassedStand DEF OwnersStand
<1>7. ASSUME \/ \E p \in Plans : CreatePlan(p) \/ UpdatePlan(p)
             \/ AssignOrgPlan
      PROVE  OwnersStand'
  BY <1>6, <1>7 DEF CreatePlan, UpdatePlan, PutPlan, AssignOrgPlan, Overtaking
<1>8. ASSUME \/ \E u \in Users : SuspendUser(u) \/ ReactivateUser(u)
             \/ \E i \in Invites : Expire(i)
             \/ DeactivateOrg \/ ReactivateOrg
             \/ UNCHANGED tenancyVars
      PROVE  OwnersStand'
  <2>1. UNCHANGED <<role, req>>
    BY <1>8 DEF SuspendUser, ReactivateUser, Expire, DeactivateOrg, ReactivateOrg, SetOrgActive, tenancyVars, rows
  <2> QED
    BY <2>1 DEF OwnersStand, Owners
<1> QED
  BY <1>1, <1>2, <1>3, <1>4, <1>5, <1>7, <1>8 DEF TenancyNext

(* The commits that leave no owner: of the last owner, or overtaken.        *)
LEMMA LeavingSteps ==
  ASSUME TenancyInv, OwnersStand, NEW r \in Requests, Commit(r),
         Owners # {}, Owners' = {}, org' # "gone"
  PROVE  Commits(r) /\ (req[r].overtaken \/ Owners = {req[r].who})
<1> PICK e : e = req[r]
  OBVIOUS
<1>1. e \in RequestRows /\ Apt(e) /\ e.phase = "wrote" /\ e.kind # "idle"
  BY DEF TenancyInv, AllApt, HoldsRows, Commit, Apt
<1>2. org' = OrgAfter(e) /\ \A u \in Users : role'[u] = RoleAfter(e, u)
  BY DEF Commit
<1>3. req'[r] = Idle
  <2>1. Passed(req) = [o \in Requests |-> Passed(req)[o]]
    BY DEF Passed
  <2> QED
    BY <2>1 DEF Commit, End
<1>4. role' # role
  BY DEF Owners
<1>5. Commits(r)
  BY <1>1, <1>3, <1>4 DEF Commits, rows
<1>6. \A u \in Owners : RoleAfter(e, u) # "owner"
  BY <1>2 DEF Owners
<1>7. CASE e.kind = "CreateOrg"
  BY <1>1, <1>2, <1>7 DEF RoleAfter, Apt, OfUsers, Owners
<1>8. CASE e.kind = "DeleteOrg"
  BY <1>2, <1>8 DEF OrgAfter
<1>9. CASE e.kind = "AcceptInvitation"
  <2>1. \A u \in Owners : u = e.who
    BY <1>6, <1>9 DEF RoleAfter, Owners
  <2> QED
    BY <1>5, <2>1
<1>10. CASE e.kind \in {"ChangeMemberRole", "RemoveMember"}
  <2>1. \A u \in Owners : u = e.on
    BY <1>6, <1>10 DEF RoleAfter, Owners
  <2>2. ~e.overtaken => e.who \in Owners
    BY <1>1, <1>10 DEF OwnersStand
  <2> QED
    BY <1>5, <2>1, <2>2
<1>11. CASE e.kind \notin {"CreateOrg", "DeleteOrg", "AcceptInvitation", "ChangeMemberRole", "RemoveMember"}
  BY <1>6, <1>11 DEF RoleAfter, Owners
<1> QED
  BY <1>7, <1>8, <1>9, <1>10, <1>11

(* The last owner goes only by a request of his own or one another commit   *)
(* overtook: for any number of owners and overlapping requests.             *)
THEOREM OwnersRemain == TenancySpec => LastOwnerStepsDown
<1> DEFINE Left == Owners # {} /\ Owners' = {} /\ org' # "gone" =>
                      \E r \in Requests : Commits(r) /\ (req[r].overtaken \/ Owners = {req[r].who})
<1>1. TenancyInit => OwnersStand
  BY DEF TenancyInit, OwnersStand, Idle
<1>2. TenancyInv /\ OwnersStand /\ [TenancyNext]_tenancyVars => [Left]_tenancyVars
  <2> SUFFICES ASSUME TenancyInv, OwnersStand, [TenancyNext]_tenancyVars PROVE Left
    OBVIOUS
  <2>1. CASE \E r \in Requests : Commit(r)
    BY <2>1, LeavingSteps
  <2>2. CASE UNCHANGED role
    BY <2>2 DEF Owners
  <2> QED
    BY <2>1, <2>2, RolesStay
<1> QED
  BY <1>1, <1>2, TenancyStarts, TenancySteps, StandingSteps, PTL DEF TenancySpec, LastOwnerStepsDown

(* Quotas: what the proof of the quota report adds to the invariant. A plan *)
(* has one row at most, one plan at most is the default, and there are      *)
(* finitely many courses.                                                   *)
PlanRows == [courses : Nat, members : Nat, default : BOOLEAN]
PlansInv ==
  /\ plans \in [Plans -> SUBSET PlanRows] /\ assigned \in Plans \cup {NoPlan} /\ IsFiniteSet(courses)
  /\ \A p \in Plans : \A x, y \in plans[p] : x = y
  /\ \A p, q \in Default : p = q

(* Whoever may add something, and was not overtaken since that was judged,   *)
(* may add it still.                                                        *)
RoomStands ==
  \A r \in Requests :
     req[r].phase \in {"started", "wrote"} /\ ~req[r].overtaken =>
        /\ req[r].kind = "CreateCourse" => Check("courses")
        /\ req[r].kind = "CreateInvitation" => Check("members")

(* A request begins, starts its statement, writes or ends, and every plan,   *)
(* membership and course stays; or all that started are overtaken.          *)
Undisturbed ==
  /\ UNCHANGED <<role, courses, plans, assigned>>
  /\ \A o \in Requests :
       \/ req'[o] = req[o] \/ req'[o].phase \in {"none", "resolved"}
       \/ req[o].phase = "resolved" /\ Allowed(req[o]) /\ req'[o].kind = req[o].kind
       \/ /\ req[o].phase = "started" /\ req'[o].kind = req[o].kind
          /\ req'[o].overtaken = req[o].overtaken
Overtaken == \A o \in Requests : req'[o].phase \in {"started", "wrote"} => req'[o].overtaken

(* So every step goes.                                                      *)
LEMMA QuietOrOvertaken == TenancyInv /\ [TenancyNext]_tenancyVars => Undisturbed \/ Overtaken
<1> SUFFICES ASSUME TenancyInv, [TenancyNext]_tenancyVars PROVE Undisturbed \/ Overtaken
  OBVIOUS
<1>t. req \in [Requests -> RequestRows]
  BY DEF TenancyInv, AllApt
<1>1. ASSUME NEW r \in Requests, NEW u \in Users, Request(r, u) PROVE Undisturbed
  <2>1. PICK kind, on, to : Arrive(r, kind, u, on, to)
    BY <1>1 DEF Request, CreateOrg, DeleteOrg, ChangeMemberRole, RemoveMember, CreateInvitation, RevokeInvitation,
       AcceptInvitation, DeclineInvitation, CreateCourse
  <2> PICK e : e = [Idle EXCEPT !.kind = kind, !.who = u, !.on = on, !.to = to, !.phase = "resolved"]
    OBVIOUS
  <2>2. e.phase = "resolved"
    BY DEF Idle
  <2>3. req' = [req EXCEPT ![r] = e] /\ UNCHANGED <<role, courses, plans, assigned>>
    BY <2>1 DEF Arrive, rows
  <2> QED
    BY <1>t, <2>2, <2>3 DEF Undisturbed
<1>2. ASSUME NEW r \in Requests, Start(r) PROVE Undisturbed
  <2> PICK e : e = [req[r] EXCEPT !.phase = "started"]
    OBVIOUS
  <2>1. e.kind = req[r].kind /\ req[r].phase = "resolved" /\ Allowed(req[r])
    BY <1>t, <1>2 DEF RequestRows, Start
  <2>2. req' = [req EXCEPT ![r] = e] /\ UNCHANGED <<role, courses, plans, assigned>>
    BY <1>t, <1>2 DEF Start, rows
  <2> QED
    BY <1>t, <2>1, <2>2 DEF Undisturbed
<1>3. ASSUME NEW r \in Requests, Write(r) PROVE Undisturbed
  <2> PICK e : e = [req[r] EXCEPT !.phase = "wrote"]
    OBVIOUS
  <2>1. e.kind = req[r].kind /\ e.overtaken = req[r].overtaken /\ req[r].phase = "started"
    BY <1>t, <1>3 DEF RequestRows, Write
  <2>2. req' = [req EXCEPT ![r] = e] /\ UNCHANGED <<role, courses, plans, assigned>>
    BY <1>t, <1>3 DEF Write, rows
  <2> QED
    BY <1>t, <2>1, <2>2 DEF Undisturbed
<1>4. ASSUME NEW r \in Requests, Commit(r) PROVE Overtaken
  <2>1. Passed(req) = [o \in Requests |-> Passed(req)[o]]
    BY DEF Passed
  <2>2. \A o \in Requests : req'[o] = Passed(req)[o] \/ req'[o] = Idle
    BY <1>4, <2>1 DEF Commit, End
  <2> QED
    BY <2>2, PassedStand DEF Idle, Overtaken
<1>5. ASSUME NEW r \in Requests, Fail(r) PROVE Undisturbed
  <2>1. req' = [req EXCEPT ![r] = Idle] /\ UNCHANGED <<role, courses, plans, assigned>> /\ Idle.phase = "none"
    BY <1>5 DEF Fail, rows, Idle
  <2> QED
    BY <1>t, <2>1 DEF Undisturbed
<1>6. ASSUME req' = Passed(req) PROVE Overtaken
  BY <1>6, PassedStand DEF Overtaken
<1>7. ASSUME \/ \E p \in Plans : CreatePlan(p) \/ UpdatePlan(p)
             \/ AssignOrgPlan
      PROVE  Overtaken
  BY <1>6, <1>7 DEF CreatePlan, UpdatePlan, PutPlan, AssignOrgPlan, Overtaking
<1>8. ASSUME \/ \E u \in Users : SuspendUser(u) \/ ReactivateUser(u)
             \/ \E i \in Invites : Expire(i)
             \/ DeactivateOrg \/ ReactivateOrg
             \/ UNCHANGED tenancyVars
      PROVE  Undisturbed
  <2>1. UNCHANGED <<role, courses, plans, assigned, req>>
    BY <1>8 DEF SuspendUser, ReactivateUser, Expire, DeactivateOrg, ReactivateOrg, SetOrgActive, tenancyVars, rows
  <2> QED
    BY <2>1 DEF Undisturbed
<1> QED
  BY <1>1, <1>2, <1>3, <1>4, <1>5, <1>7, <1>8 DEF TenancyNext

(* Room is judged when a statement starts, and stays while nobody commits.   *)
LEMMA RoomSteps == TenancyInv /\ RoomStands /\ [TenancyNext]_tenancyVars => RoomStands'
<1> SUFFICES ASSUME TenancyInv, RoomStands, [TenancyNext]_tenancyVars PROVE RoomStands'
  OBVIOUS
<1>1. CASE Undisturbed
  <2>1. \A dim : Check(dim) => Check(dim)'
    BY <1>1 DEF Undisturbed, Check, PlanOf, Default, Usage, IsMember
  <2>2. ASSUME NEW o \in Requests, req'[o].phase \in {"started", "wrote"}, ~req'[o].overtaken
        PROVE  /\ req'[o].kind = "CreateCourse" => Check("courses")
               /\ req'[o].kind = "CreateInvitation" => Check("members")
    <3>1. CASE req'[o] = req[o]
      BY <2>2, <3>1 DEF RoomStands
    <3>2. CASE Allowed(req[o]) /\ req'[o].kind = req[o].kind
      BY <3>2 DEF Allowed
    <3>3. CASE req[o].phase = "started" /\ req'[o].kind = req[o].kind /\ req'[o].overtaken = req[o].overtaken
      BY <2>2, <3>3 DEF RoomStands
    <3> QED
      BY <1>1, <2>2, <3>1, <3>2, <3>3 DEF Undisturbed
  <2> QED
    BY <2>1, <2>2 DEF RoomStands
<1>2. CASE Overtaken
  BY <1>2 DEF Overtaken, RoomStands
<1> QED
  BY <1>1, <1>2, QuietOrOvertaken

(* A plan is written by one administrator's request, or assigned by one.    *)
LEMMA PlansSteps == TenancyInv /\ PlansInv /\ [TenancyNext]_tenancyVars => PlansInv'
<1> SUFFICES ASSUME TenancyInv, PlansInv, [TenancyNext]_tenancyVars PROVE PlansInv'
  OBVIOUS
<1>1. ASSUME NEW handler, NEW p \in Plans, PutPlan(handler, p) PROVE PlansInv'
  <2>1. PICK x \in Limits, default \in BOOLEAN :
          /\ default => Default \subseteq {p}
          /\ plans' = [plans EXCEPT ![p] = {[courses |-> x.courses, members |-> x.members, default |-> default]}]
          /\ assigned' = assigned /\ Overtaking(handler)
    BY <1>1 DEF PutPlan
  <2> PICK row : row = [courses |-> x.courses, members |-> x.members, default |-> default]
    OBVIOUS
  <2>2. row \in PlanRows /\ row.default = default /\ plans' = [plans EXCEPT ![p] = {row}]
    BY <2>1, TenancyAssumption DEF PlanRows
  <2>3. courses' = courses
    BY <2>1 DEF Overtaking, rows
  <2>4. plans' \in [Plans -> SUBSET PlanRows] /\ \A q \in Plans : \A a, b \in plans'[q] : a = b
    BY <2>2 DEF PlansInv
  <2>5. \A q \in Plans : q # p => plans'[q] = plans[q]
    BY <2>2 DEF PlansInv
  <2>6. \A q \in Default' : q # p => q \in Default
    BY <2>5 DEF Default
  <2>7. p \in Default' => default
    BY <2>2 DEF Default, PlansInv
  <2>8. ASSUME NEW q \in Default', NEW o \in Default' PROVE q = o
    <3>1. CASE p \in Default'
      BY <2>1, <2>6, <2>7, <3>1, <2>8
    <3>2. CASE p \notin Default'
      BY <2>6, <2>8, <3>2 DEF PlansInv
    <3> QED
      BY <3>1, <3>2
  <2> QED
    BY <2>1, <2>3, <2>4, <2>8 DEF PlansInv
<1>2. CASE AssignOrgPlan
  BY <1>2 DEF AssignOrgPlan, Overtaking, rows, PlansInv, Default
<1>3. ASSUME NEW r \in Requests, Commit(r) PROVE PlansInv'
  <2>1. courses' = CoursesAfter(req[r]) /\ UNCHANGED <<plans, assigned>>
    BY <1>3 DEF Commit
  <2>2. IsFiniteSet(courses')
    BY <2>1, FS_EmptySet, FS_AddElement DEF CoursesAfter, PlansInv
  <2> QED
    BY <2>1, <2>2 DEF PlansInv, Default
<1>4. CASE UNCHANGED <<courses, plans, assigned>>
  BY <1>4 DEF PlansInv, Default
<1>5. ASSUME NEW r \in Requests, NEW u \in Users, Request(r, u) PROVE UNCHANGED <<courses, plans, assigned>>
  BY <1>5 DEF Request, CreateOrg, DeleteOrg, ChangeMemberRole, RemoveMember, CreateInvitation, RevokeInvitation,
     AcceptInvitation, DeclineInvitation, CreateCourse, Arrive, rows
<1>6. ASSUME NEW r \in Requests, Start(r) \/ Write(r) \/ Fail(r) PROVE UNCHANGED <<courses, plans, assigned>>
  BY <1>6 DEF Start, Write, Fail, rows
<1>7. ASSUME \/ \E u \in Users : SuspendUser(u) \/ ReactivateUser(u)
             \/ \E i \in Invites : Expire(i)
             \/ DeactivateOrg \/ ReactivateOrg
             \/ UNCHANGED tenancyVars
      PROVE  UNCHANGED <<courses, plans, assigned>>
  BY <1>7 DEF SuspendUser, ReactivateUser, Expire, DeactivateOrg, ReactivateOrg, SetOrgActive, tenancyVars, rows
<1> QED
  BY <1>1, <1>2, <1>3, <1>4, <1>5, <1>6, <1>7 DEF TenancyNext, CreatePlan, UpdatePlan

(* What may be added is not shown as exhausted.                             *)
LEMMA RoomIsShown ==
  ASSUME PlansInv, NEW dim \in {"courses", "members"}, Check(dim)
  PROVE  dim \notin Exceeded
<1>1. \A x, y \in PlanOf : x = y
  BY DEF PlanOf, PlansInv, Default
<1>2. \A x \in PlanOf : x \in PlanRows
  BY DEF PlanOf, PlansInv, Default
<1>3. \A x \in PlanOf : x[dim] \in Nat
  BY <1>2 DEF PlanRows
<1>4. Usage[dim] \in Nat
  <2>1. Cardinality(courses) \in Nat
    BY FS_CardinalityType DEF PlansInv
  <2>2. IsFiniteSet({u \in Users : IsMember(u)})
    BY FS_Subset, TenancyAssumption
  <2>3. Cardinality({u \in Users : IsMember(u)}) \in Nat
    BY <2>2, FS_CardinalityType
  <2> QED
    BY <2>1, <2>3 DEF Usage
<1>5. PICK x \in PlanOf : x[dim] = 0 \/ Usage[dim] + 1 <= x[dim]
  BY DEF Check
<1> QED
  BY <1>1, <1>3, <1>4, <1>5 DEF Exceeded

(* Nothing is added beyond what the quota report allows but by a request     *)
(* another commit overtook: for any plans, members and overlapping requests. *)
THEOREM QuotasHold == TenancySpec => NothingBeyondReport
<1> DEFINE Within == \A r \in Requests :
          Commits(r) /\ ~req[r].overtaken =>
              /\ req[r].kind = "CreateCourse" => "courses" \notin Exceeded
              /\ req[r].kind = "CreateInvitation" => "members" \notin Exceeded
<1>1. TenancyInit => RoomStands /\ PlansInv
  <2> SUFFICES ASSUME TenancyInit PROVE RoomStands /\ PlansInv
    OBVIOUS
  <2>1. RoomStands
    BY DEF TenancyInit, RoomStands, Idle
  <2>2. plans = Seeded /\ assigned = NoPlan /\ IsFiniteSet(courses)
    BY FS_EmptySet DEF TenancyInit
  <2>3. \A p \in Plans : \A x, y \in plans[p] : x = y
    BY <2>2, TenancyAssumption
  <2>4. \A p, q \in Default : p = q
    BY <2>2, TenancyAssumption DEF Default
  <2> QED
    BY <2>1, <2>2, <2>3, <2>4, TenancyAssumption DEF PlansInv, PlanRows
<1>2. RoomStands /\ PlansInv => Within
  <2> SUFFICES ASSUME RoomStands, PlansInv, NEW r \in Requests, Commits(r), ~req[r].overtaken
               PROVE  /\ req[r].kind = "CreateCourse" => "courses" \notin Exceeded
                      /\ req[r].kind = "CreateInvitation" => "members" \notin Exceeded
    OBVIOUS
  <2> QED
    BY RoomIsShown DEF RoomStands, Commits
<1>3. RoomStands /\ PlansInv => [Within]_tenancyVars
  BY <1>2
<1> HIDE DEF Within
<1>4. TenancySpec => [][Within]_tenancyVars
  BY <1>1, <1>3, TenancyStarts, TenancySteps, RoomSteps, PlansSteps, PTL DEF TenancySpec
<1> QED
  BY <1>4 DEF Within, NothingBeyondReport

-----------------------------------------------------------------------------
(* Discussions                                                             *)

(* A post is written once, into a thread with one row, and a request that   *)
(* still believes a locked thread open was overtaken.                       *)
DraftFields == {"thread", "parent", "author", "mentioned", "overtaken"}
OpenWhenRead ==
  /\ DOMAIN thread = Threads /\ DOMAIN post = Posts /\ DOMAIN drafting = Posts
  /\ \A t \in Threads : \A a, b \in thread[t] : a = b
  /\ \A t \in Threads : \A a \in thread[t] : DOMAIN a = {"by", "ofCourse", "locked", "pinned"}
  /\ \A p \in Posts : \A a \in post[p] : DOMAIN a = {"thread", "parent", "author", "status"}
  /\ \A p \in Posts : \A d \in drafting[p] :
       /\ DOMAIN d = DraftFields /\ d.thread \in Threads /\ post[p] = {}
       /\ \A e \in drafting[p] : d = e
       /\ \A row \in thread[d.thread] : ~row.locked \/ d.overtaken
  /\ \A p \in Posts : \A a, b \in post[p] : a = b

(* A request of a reader, of a moderator's desk or of the worker leaves     *)
(* threads, posts and drafts alone.                                         *)
ForumAlone == UNCHANGED <<thread, post, drafting>>

LEMMA ForumRests ==
  ASSUME CommunityNext
  PROVE  \/ ForumAlone
         \/ \E t \in Threads, u \in Chatters :
              CreateOrgThread(t, u) \/ CreateCourseThread(t, u) \/ SetThreadPinned(t, u) \/ SetThreadLocked(t, u)
         \/ \E p \in Posts, u \in Chatters : BeginPost(p, u) \/ HidePost(p, u) \/ DeletePost(p, u) \/ EditPost(p, u)
         \/ \E p \in Posts : CreatePost(p)
<1>1. ASSUME NEW p \in Posts, NEW u \in Chatters, ReactToPost(p, u) \/ Unreact(p, u) PROVE ForumAlone
  BY <1>1 DEF ReactToPost, Unreact, ForumAlone
<1>2. ASSUME NEW p \in Posts, NEW u \in Chatters, NEW r \in Reports, NEW j \in FreeJobs, ReportPost(r, p, u, j)
      PROVE  ForumAlone
  BY <1>2 DEF ReportPost, ForumAlone
<1>3. ASSUME NEW r \in Reports, NEW u \in Chatters, ResolveReport(r, u) \/ DismissReport(r, u) PROVE ForumAlone
  BY <1>3 DEF ResolveReport, DismissReport, CloseReport, ForumAlone
<1>4. ASSUME NEW j \in FreeJobs, NEW u \in Chatters, CreateBroadcast(j, u) PROVE ForumAlone
  BY <1>4 DEF CreateBroadcast, forumVars, ForumAlone
<1>5. ASSUME NEW j \in Jobs, Attempt(j) \/ ReadChoice(j) \/ SendEmail(j) \/ Failed(j) \/ Finish(j) \/ ResolveAlert(j)
      PROVE  ForumAlone
  BY <1>5 DEF Attempt, ReadChoice, SendEmail, Failed, Finish, ResolveAlert, forumVars, ForumAlone
<1>6. ASSUME NEW j \in Jobs, NEW u \in Users, WriteNotification(j, u) PROVE ForumAlone
  BY <1>6 DEF WriteNotification, forumVars, ForumAlone
<1>7. ASSUME NEW u \in Chatters, MarkAllNotificationsRead(u) \/ UpdateNotificationPreference(u) PROVE ForumAlone
  BY <1>7 DEF MarkAllNotificationsRead, UpdateNotificationPreference, forumVars, ForumAlone
<1>8. ASSUME NEW u \in Chatters, NEW j \in Jobs, ReadOne(u, j) \/ Unsubscribe(u, j) PROVE ForumAlone
  BY <1>8 DEF ReadOne, Unsubscribe, forumVars, ForumAlone
<1> QED
  BY <1>1, <1>2, <1>3, <1>4, <1>5, <1>6, <1>7, <1>8 DEF CommunityNext

(* Nothing is drafted at first.                                             *)
LEMMA OpenAtFirst == CommunityInit => OpenWhenRead
BY DEF CommunityInit, OpenWhenRead

(* A new thread is unlocked.                                                *)
LEMMA ThreadsBeginOpen ==
  ASSUME OpenWhenRead, NEW handler, NEW t \in Threads, NEW u, PutThread(handler, t, u)
  PROVE  OpenWhenRead'
<1> DEFINE row == [by |-> u, ofCourse |-> handler = "CreateCourseThread", locked |-> FALSE, pinned |-> FALSE]
<1>1. DOMAIN row = {"by", "ofCourse", "locked", "pinned"} /\ ~row.locked /\ thread' = [thread EXCEPT ![t] = {row}]
  BY DEF PutThread
<1> HIDE DEF row
<1>2. post' = post /\ drafting' = drafting
  BY DEF PutThread
<1> QED
  BY <1>1, <1>2 DEF OpenWhenRead

(* Locking a thread overtakes the requests that found it open.              *)
LEMMA LocksOvertake ==
  ASSUME OpenWhenRead, NEW handler, NEW t \in Threads, NEW u \in Chatters, NEW field,
         SetThread(handler, t, u, field)
  PROVE  OpenWhenRead'
<1>1. PICK row \in thread[t], value \in BOOLEAN : thread' = [thread EXCEPT ![t] = {[row EXCEPT ![field] = value]}]
  BY DEF SetThread
<1>2. DOMAIN thread' = Threads /\ \A o \in Threads : \A a, b \in thread'[o] : a = b
  BY <1>1 DEF OpenWhenRead
<1>3. \A o \in Threads : \A a \in thread'[o] : DOMAIN a = {"by", "ofCourse", "locked", "pinned"}
  BY <1>1 DEF OpenWhenRead
<1>4. post' = post /\ drafting' = [p \in Posts |-> {[d EXCEPT !.overtaken = TRUE] : d \in drafting[p]}]
  BY DEF SetThread
<1>5. ASSUME NEW p \in Posts, NEW d \in drafting'[p]
      PROVE  /\ DOMAIN d = DraftFields /\ d.thread \in Threads /\ post'[p] = {} /\ d.overtaken
             /\ \A e \in drafting'[p] : d = e
  <2>1. PICK e \in drafting[p] : d = [e EXCEPT !.overtaken = TRUE]
    BY <1>4
  <2> QED
    BY <1>4, <2>1 DEF OpenWhenRead, DraftFields
<1> QED
  BY <1>2, <1>3, <1>4, <1>5 DEF OpenWhenRead

(* A request begins with an open thread.                                    *)
LEMMA RequestsFindOpen ==
  ASSUME OpenWhenRead, NEW p \in Posts, NEW u \in Chatters, BeginPost(p, u)
  PROVE  OpenWhenRead'
<1>1. PICK t \in Threads, parent \in Posts \cup {Nobody}, mentioned \in Users \cup {Nobody} :
         /\ \E row \in thread[t] : ~row.locked
         /\ drafting' = [drafting EXCEPT ![p] = {[thread |-> t, parent |-> parent, author |-> u,
                                                   mentioned |-> mentioned, overtaken |-> FALSE]}]
  BY DEF BeginPost
<1> DEFINE d == [thread |-> t, parent |-> parent, author |-> u, mentioned |-> mentioned, overtaken |-> FALSE]
<1>2. post[p] = {} /\ post' = post /\ thread' = thread
  BY DEF BeginPost
<1>3. DOMAIN d = DraftFields /\ d.thread = t /\ drafting' = [drafting EXCEPT ![p] = {d}]
  BY <1>1 DEF DraftFields
<1> HIDE DEF d
<1>4. \A row \in thread[t] : ~row.locked
  BY <1>1 DEF OpenWhenRead
<1>5. ASSUME NEW o \in Posts, NEW e \in drafting'[o]
      PROVE  (o = p /\ e = d) \/ (o # p /\ e \in drafting[o])
  BY <1>3 DEF OpenWhenRead
<1>6. ASSUME NEW o \in Posts, NEW e \in drafting'[o]
      PROVE  /\ DOMAIN e = DraftFields /\ e.thread \in Threads /\ post[o] = {}
             /\ \A f \in drafting'[o] : e = f
             /\ \A row \in thread[e.thread] : ~row.locked \/ e.overtaken
  <2>1. \A f \in drafting'[o] : (o = p /\ f = d) \/ (o # p /\ f \in drafting[o])
    BY <1>5
  <2> QED
    BY <1>2, <1>3, <1>4, <1>5, <1>6, <2>1 DEF OpenWhenRead
<1> QED
  BY <1>2, <1>3, <1>6 DEF OpenWhenRead

(* Moderating and editing a post writes its one row.                        *)
LEMMA RowsStaySingle ==
  ASSUME OpenWhenRead, NEW p \in Posts, NEW q \in post[p], NEW row,
         DOMAIN row = {"thread", "parent", "author", "status"},
         post' = [post EXCEPT ![p] = {row}], UNCHANGED <<thread, drafting>>
  PROVE  OpenWhenRead'
BY DEF OpenWhenRead

(* A request that ends writes its draft, or nothing.                        *)
LEMMA RequestsEnd ==
  ASSUME OpenWhenRead, NEW p \in Posts, CreatePost(p)
  PROVE  OpenWhenRead'
<1>1. PICK d \in drafting[p] : post' = [post EXCEPT ![p] = NewPost(d)] \/ UNCHANGED post
  BY DEF CreatePost
<1>2. drafting' = [drafting EXCEPT ![p] = {}] /\ thread' = thread
  BY DEF CreatePost
<1> QED
  BY <1>1, <1>2 DEF OpenWhenRead, NewPost, DraftFields

(* What one step makes visible.                                             *)
Shown(p) ==
  \A t \in Threads : p \in GetThread(t)' /\ p \notin GetThread(t) =>
      post[p] = {} /\ \A row \in thread[t], d \in drafting[p] : ~row.locked \/ d.overtaken

(* A step that leaves posts alone shows none.                               *)
LEMMA NothingShown == ASSUME UNCHANGED post PROVE \A p \in Posts : Shown(p)
BY DEF Shown, GetThread

(* A post whose status is written and is not visible is not shown; one whose *)
(* status stays is shown as before.                                         *)
LEMMA RewrittenNotShown ==
  ASSUME OpenWhenRead, NEW p \in Posts, NEW q \in post[p], NEW row,
         row.status = "visible" => row = q,
         post' = [post EXCEPT ![p] = {row}], UNCHANGED <<thread, drafting>>
  PROVE  \A o \in Posts : Shown(o)
BY DEF Shown, GetThread, OpenWhenRead

(* Every step keeps the invariant and shows only what was just written.     *)
LEMMA ForumStep ==
  ASSUME OpenWhenRead, [CommunityNext]_communityVars
  PROVE  OpenWhenRead' /\ \A p \in Posts : Shown(p)
<1>1. CASE ForumAlone
  BY <1>1, NothingShown DEF ForumAlone, OpenWhenRead
<1>2. CASE UNCHANGED communityVars
  BY <1>2, NothingShown DEF communityVars, forumVars, OpenWhenRead
<1>3. ASSUME NEW t \in Threads, NEW u \in Chatters, CreateOrgThread(t, u) \/ CreateCourseThread(t, u)
      PROVE  OpenWhenRead' /\ \A p \in Posts : Shown(p)
  <2>1. PICK handler \in {"CreateOrgThread", "CreateCourseThread"} : PutThread(handler, t, u)
    BY <1>3 DEF CreateOrgThread, CreateCourseThread
  <2> QED
    BY <2>1, ThreadsBeginOpen, NothingShown DEF PutThread
<1>4. ASSUME NEW t \in Threads, NEW u \in Chatters, SetThreadPinned(t, u) \/ SetThreadLocked(t, u)
      PROVE  OpenWhenRead' /\ \A p \in Posts : Shown(p)
  <2>1. PICK handler \in {"SetThreadPinned", "SetThreadLocked"}, field \in {"pinned", "locked"} :
           SetThread(handler, t, u, field)
    BY <1>4 DEF SetThreadPinned, SetThreadLocked
  <2> QED
    BY <2>1, LocksOvertake, NothingShown DEF SetThread
<1>5. ASSUME NEW p \in Posts, NEW u \in Chatters, BeginPost(p, u)
      PROVE  OpenWhenRead' /\ \A o \in Posts : Shown(o)
  BY <1>5, RequestsFindOpen, NothingShown DEF BeginPost
<1>6. ASSUME NEW p \in Posts, NEW u \in Chatters, HidePost(p, u) \/ DeletePost(p, u)
      PROVE  OpenWhenRead' /\ \A o \in Posts : Shown(o)
  <2>1. PICK q \in post[p], status \in {"hidden", "deleted"} :
           post' = [post EXCEPT ![p] = {[q EXCEPT !.status = status]}]
    BY <1>6 DEF HidePost, DeletePost, SetPost
  <2>2. thread' = thread /\ drafting' = drafting
    BY <1>6 DEF HidePost, DeletePost, SetPost
  <2> DEFINE row == [q EXCEPT !.status = status]
  <2>3. DOMAIN row = {"thread", "parent", "author", "status"} /\ row.status # "visible"
    BY <2>1 DEF OpenWhenRead
  <2> HIDE DEF row
  <2> QED
    BY <2>1, <2>2, <2>3, RowsStaySingle, RewrittenNotShown DEF row
<1>7. ASSUME NEW p \in Posts, NEW u \in Chatters, EditPost(p, u)
      PROVE  OpenWhenRead' /\ \A o \in Posts : Shown(o)
  <2>1. PICK q \in post[p] : post' = [post EXCEPT ![p] = {q}]
    BY <1>7 DEF EditPost
  <2>2. thread' = thread /\ drafting' = drafting
    BY <1>7 DEF EditPost
  <2>3. DOMAIN q = {"thread", "parent", "author", "status"}
    BY <2>1 DEF OpenWhenRead
  <2> QED
    BY <2>1, <2>2, <2>3, RowsStaySingle, RewrittenNotShown
<1>8. ASSUME NEW p \in Posts, CreatePost(p)
      PROVE  OpenWhenRead' /\ \A o \in Posts : Shown(o)
  <2>1. PICK d \in drafting[p] : post' = [post EXCEPT ![p] = NewPost(d)] \/ UNCHANGED post
    BY <1>8 DEF CreatePost
  <2>2. \A e \in drafting[p] : e = d
    BY <2>1 DEF OpenWhenRead
  <2>3. post[p] = {} /\ \A row \in thread[d.thread] : ~row.locked \/ d.overtaken
    BY <2>1 DEF OpenWhenRead
  <2>4. \A o \in Posts : Shown(o)
    BY <2>1, <2>2, <2>3 DEF Shown, GetThread, NewPost, OpenWhenRead
  <2> QED
    BY <1>8, <2>4, RequestsEnd
<1> QED
  BY <1>1, <1>2, <1>3, <1>4, <1>5, <1>6, <1>7, <1>8, ForumRests

(* What moderators took out of a thread is not shown in it again, and a      *)
(* locked thread gets posts only of requests that found it open, whatever   *)
(* users, threads and posts there are.                                      *)
THEOREM ModeratorsAreObeyed == CommunitySpec => ModerationHolds
<1>1. OpenWhenRead /\ [CommunityNext]_communityVars =>
        OpenWhenRead' /\ [\A t \in Threads : \A p \in GetThread(t)' \ GetThread(t) :
          post[p] = {} /\ \A row \in thread[t], d \in drafting[p] : ~row.locked \/ d.overtaken]_communityVars
  <2> SUFFICES ASSUME OpenWhenRead, [CommunityNext]_communityVars
               PROVE  OpenWhenRead' /\ \A t \in Threads : \A p \in GetThread(t)' \ GetThread(t) :
                        post[p] = {} /\ \A row \in thread[t], d \in drafting[p] : ~row.locked \/ d.overtaken
    OBVIOUS
  <2>1. \A t \in Threads : \A p \in GetThread(t)' \ GetThread(t) : p \in Posts
    BY DEF GetThread
  <2> QED
    BY <2>1, ForumStep DEF Shown
<1> QED
  BY <1>1, OpenAtFirst, PTL DEF CommunitySpec, ModerationHolds

-----------------------------------------------------------------------------
(* Notifications                                                           *)

JobFields == {"kind", "recipient", "state", "try", "to", "left", "at", "step", "overtaken"}

(* A task is at a recipient only while it runs.                             *)
Placed(row) ==
  /\ DOMAIN row = JobFields /\ row.at \in Users \cup {Nobody}
  /\ row.step = "none" <=> row.at = Nobody
  /\ row.state # "running" => row.at = Nobody
  /\ row.at # Nobody => row.at \in row.left

(* A mail about to be sent was allowed when the worker read the choice, or   *)
(* the choice changed since.                                                *)
Permitted(j) ==
  job[j].step = "mailing" /\ CategoryOf(job[j].kind) # Nobody /\ ~job[j].overtaken
    => choice[job[j].at][CategoryOf(job[j].kind)] # "off"

MailInv ==
  /\ DOMAIN job = Jobs /\ \A j \in Jobs : Placed(job[j]) /\ Permitted(j)
  /\ DOMAIN choice = Users /\ \A u \in Users : DOMAIN choice[u] = Categories
  /\ mails \in [Users -> [Jobs -> Nat]]

(* A mail sent in a step, and a recipient passed over in one.               *)
MailAllowed(u, j) ==
  mails[u][j] < mails'[u][j] /\ CategoryOf(job[j].kind) # Nobody
    => CategoryOf(job[j].kind) \in GetNotificationPreferences(u) \/ job[j].overtaken
PassedOver(u, j) ==
  job[j].step = "written" /\ job[j].at = u /\ job'[j].at # u /\ job'[j].state = "running"
    => CategoryOf(job[j].kind) # Nobody /\ CategoryOf(job[j].kind) \notin GetNotificationPreferences(u)
Respected == \A u \in Users, j \in Jobs : MailAllowed(u, j) /\ PassedOver(u, j)

(* A kind of notification has a category the preferences list, or none.     *)
LEMMA CategoriesListed == \A kind : CategoryOf(kind) \in Categories \cup {Nobody}
BY DEF CategoryOf, Categories

(* Nothing is sent at first.                                                *)
LEMMA MailsAtFirst == CommunityInit => MailInv
<1> SUFFICES ASSUME CommunityInit PROVE MailInv
  OBVIOUS
<1>1. DOMAIN Ready = JobFields /\ Ready.at = Nobody /\ Ready.step = "none"
  BY DEF Ready, JobFields
<1>2. mails = [u \in Users |-> [j \in Jobs |-> 0]] /\ job = [j \in Jobs |-> Ready]
      /\ choice = [u \in Users |-> [c \in Categories |-> "unset"]]
  BY DEF CommunityInit
<1> QED
  BY <1>1, <1>2 DEF MailInv, Placed, Permitted

(* A request that writes no task, mail or choice.                           *)
LEMMA MailsRest == ASSUME MailInv, UNCHANGED <<job, mails, choice>> PROVE MailInv' /\ Respected
BY DEF MailInv, Placed, Permitted, Respected, MailAllowed, PassedOver

(* A request that enqueues tasks.                                           *)
LEMMA TasksBegin ==
  ASSUME MailInv, UNCHANGED <<mails, choice>>, DOMAIN job' = Jobs,
         \A j \in Jobs : job'[j] = job[j] \/
            (job[j].state = "none" /\ DOMAIN job'[j] = JobFields /\ job'[j].at = Nobody /\ job'[j].step = "none")
  PROVE  MailInv' /\ Respected
<1>1. \A j \in Jobs : Placed(job[j])' /\ Permitted(j)'
  BY DEF MailInv, Placed, Permitted
<1>2. \A u \in Users, j \in Jobs : MailAllowed(u, j)
  BY DEF MailInv, MailAllowed
<1>3. \A u \in Users, j \in Jobs : PassedOver(u, j)
  BY CommunityAssumption DEF MailInv, Placed, PassedOver
<1> QED
  BY <1>1, <1>2, <1>3 DEF MailInv, Respected

(* A request that changes what a user chose overtakes the tasks at the user. *)
LEMMA ChoicesOvertake ==
  ASSUME MailInv, NEW u \in Users, UNCHANGED mails, job' = ChoiceChanged(u),
         NEW chosen, DOMAIN chosen = Categories, choice' = [choice EXCEPT ![u] = chosen]
  PROVE  MailInv' /\ Respected
<1>1. \A j \in Jobs : job'[j] = IF job[j].at = u THEN [job[j] EXCEPT !.overtaken = TRUE] ELSE job[j]
  BY DEF ChoiceChanged
<1>2. \A j \in Jobs : /\ DOMAIN job'[j] = JobFields /\ job'[j].at = job[j].at /\ job'[j].step = job[j].step
                      /\ job'[j].state = job[j].state /\ job'[j].kind = job[j].kind /\ job'[j].left = job[j].left
                      /\ IF job[j].at = u THEN job'[j].overtaken ELSE job'[j].overtaken = job[j].overtaken
  BY <1>1 DEF MailInv, Placed, JobFields
<1>3. \A o \in Users : o # u => choice'[o] = choice[o]
  BY DEF MailInv
<1>4. \A j \in Jobs : Placed(job[j])'
  BY <1>2 DEF MailInv, Placed
<1>5. \A j \in Jobs : job[j].at \in Users \/ job[j].step # "mailing"
  BY DEF MailInv, Placed
<1>6. \A j \in Jobs : Permitted(j)'
  BY <1>2, <1>3, <1>5 DEF MailInv, Permitted
<1>7. \A o \in Users, j \in Jobs : MailAllowed(o, j)
  BY DEF MailInv, MailAllowed
<1>8. \A o \in Users, j \in Jobs : PassedOver(o, j)
  BY <1>2 DEF PassedOver
<1>9. DOMAIN job' = Jobs /\ DOMAIN choice' = Users /\ \A o \in Users : DOMAIN choice'[o] = Categories
  BY <1>3 DEF ChoiceChanged, MailInv
<1> QED
  BY <1>4, <1>6, <1>7, <1>8, <1>9 DEF MailInv, Respected

(* What the row a step leaves may say, the choices being as they are.        *)
MayMail(row) ==
  row.step = "mailing" /\ CategoryOf(row.kind) # Nobody /\ ~row.overtaken
    => choice[row.at][CategoryOf(row.kind)] # "off"
MayPass(j, row) ==
  job[j].step = "written" /\ row.at # job[j].at /\ row.state = "running"
    => CategoryOf(row.kind) # Nobody /\ choice[job[j].at][CategoryOf(row.kind)] = "off"
Mailed(j) ==
  \/ mails' = mails
  \/ job[j].step = "mailing" /\ mails' = [mails EXCEPT ![job[j].at][j] = @ + 1]

(* A step of the worker at one task: the row it leaves, and the mail it      *)
(* sends.                                                                   *)
LEMMA WorkerSteps ==
  ASSUME MailInv, NEW j \in Jobs, NEW row, job' = [job EXCEPT ![j] = row], UNCHANGED choice,
         Placed(row), row.kind = job[j].kind,
         MayMail(row), MayPass(j, row), Mailed(j)
  PROVE  MailInv' /\ Respected
<1> USE DEF MayMail, MayPass, Mailed
<1>1. job'[j] = row /\ DOMAIN job' = Jobs /\ \A o \in Jobs : o # j => job'[o] = job[o]
  BY DEF MailInv
<1>2. \A o \in Jobs : Placed(job[o])' /\ Permitted(o)'
  BY <1>1 DEF MailInv, Placed, Permitted
<1>3. job[j].step = "mailing" => job[j].at \in Users
  BY DEF MailInv, Placed
<1>4. mails' \in [Users -> [Jobs -> Nat]]
  <2>1. CASE mails' = mails
    BY <2>1 DEF MailInv
  <2>2. CASE job[j].step = "mailing" /\ mails' = [mails EXCEPT ![job[j].at][j] = @ + 1]
    <3> DEFINE u == job[j].at
    <3>1. mails' = [mails EXCEPT ![u] = [mails[u] EXCEPT ![j] = @ + 1]] /\ u \in Users
      BY <1>3, <2>2
    <3> HIDE DEF u
    <3>2. [mails[u] EXCEPT ![j] = @ + 1] \in [Jobs -> Nat]
      BY <3>1 DEF MailInv
    <3> QED
      BY <3>1, <3>2 DEF MailInv
  <2> QED
    BY <2>1, <2>2
<1>5. ASSUME NEW u \in Users, NEW o \in Jobs PROVE MailAllowed(u, o)
  <2>1. mails[u][o] < mails'[u][o] => job[j].step = "mailing" /\ u = job[j].at /\ o = j
    BY <1>3 DEF MailInv
  <2> QED
    BY <2>1, CategoriesListed DEF MailInv, MailAllowed, Permitted, GetNotificationPreferences
<1>6. ASSUME NEW u \in Users, NEW o \in Jobs PROVE PassedOver(u, o)
  BY <1>1, CategoriesListed DEF PassedOver, GetNotificationPreferences
<1> QED
  BY <1>1, <1>2, <1>4, <1>5, <1>6 DEF MailInv, Respected

(* The worker takes a task up, again or for the first time.                 *)
LEMMA AttemptMails == ASSUME MailInv, NEW j \in Jobs, Attempt(j) PROVE MailInv' /\ Respected
<1> DEFINE row == [job[j] EXCEPT !.state = "running", !.try = @ + 1, !.to = Recipients(j), !.left = Recipients(j)]
<1>1. job' = [job EXCEPT ![j] = row] /\ mails' = mails /\ choice' = choice /\ job[j].state = "queued"
  BY DEF Attempt
<1>2. DOMAIN row = JobFields /\ row.at = Nobody /\ row.step = "none" /\ job[j].step = "none"
      /\ row.state = "running" /\ row.kind = job[j].kind
  BY <1>1 DEF MailInv, Placed, JobFields
<1> HIDE DEF row
<1>3. Placed(row) /\ MayMail(row) /\ MayPass(j, row) /\ Mailed(j)
  BY <1>1, <1>2 DEF Placed, MayMail, MayPass, Mailed
<1> QED
  BY <1>1, <1>2, <1>3, WorkerSteps

(* It writes a recipient's notification.                                    *)
LEMMA WriteMails ==
  ASSUME MailInv, NEW j \in Jobs, NEW u \in Users, WriteNotification(j, u) PROVE MailInv' /\ Respected
<1> DEFINE row == [job[j] EXCEPT !.at = u, !.step = "written"]
<1>1. job' = [job EXCEPT ![j] = row] /\ mails' = mails /\ choice' = choice
      /\ job[j].state = "running" /\ job[j].at = Nobody /\ u \in job[j].left
  BY DEF WriteNotification
<1>2. DOMAIN row = JobFields /\ row.at = u /\ row.step = "written" /\ row.state = "running"
      /\ row.kind = job[j].kind /\ job[j].step = "none" /\ row.left = job[j].left
  BY <1>1 DEF MailInv, Placed, JobFields
<1> HIDE DEF row
<1>3. Placed(row) /\ MayMail(row) /\ MayPass(j, row) /\ Mailed(j)
  BY <1>1, <1>2, CommunityAssumption DEF Placed, MayMail, MayPass, Mailed
<1> QED
  BY <1>1, <1>2, <1>3, WorkerSteps

(* What passing to the next recipient leaves of a row.                      *)
LEMMA NextRow ==
  ASSUME MailInv, NEW j \in Jobs, ReachedNext(j)
  PROVE  \E row : /\ job' = [job EXCEPT ![j] = row] /\ Placed(row) /\ row.at = Nobody /\ row.step = "none"
                  /\ row.kind = job[j].kind /\ row.state = job[j].state
<1> DEFINE row == [job[j] EXCEPT !.left = @ \ {job[j].at}, !.at = Nobody, !.step = "none", !.overtaken = FALSE]
<1>1. job' = [job EXCEPT ![j] = row]
  BY DEF ReachedNext
<1>2. DOMAIN row = JobFields /\ row.at = Nobody /\ row.step = "none"
      /\ row.kind = job[j].kind /\ row.state = job[j].state
  BY DEF MailInv, Placed, JobFields
<1> HIDE DEF row
<1>3. Placed(row)
  BY <1>2 DEF Placed
<1> QED
  BY <1>1, <1>2, <1>3

(* It reads the recipient's choice.                                         *)
LEMMA ReadMails == ASSUME MailInv, NEW j \in Jobs, ReadChoice(j) PROVE MailInv' /\ Respected
<1>1. job[j].step = "written" /\ mails' = mails /\ choice' = choice
  BY DEF ReadChoice
<1>2. job[j].at \in Users /\ job[j].at # Nobody
  BY <1>1 DEF MailInv, Placed
<1>3. CASE IsEmailEnabled(job[j].at, job[j].kind)
  <2> DEFINE row == [job[j] EXCEPT !.step = "mailing", !.overtaken = FALSE]
  <2>1. job' = [job EXCEPT ![j] = row]
    BY <1>3 DEF ReadChoice
  <2>2. DOMAIN row = JobFields /\ row.at = job[j].at /\ row.step = "mailing" /\ row.kind = job[j].kind
        /\ row.state = job[j].state /\ row.left = job[j].left
    BY DEF MailInv, Placed, JobFields
  <2> HIDE DEF row
  <2>3. Placed(row)
    BY <1>1, <2>2 DEF MailInv, Placed
  <2>4. MayMail(row) /\ MayPass(j, row) /\ Mailed(j)
    BY <1>1, <1>3, <2>2 DEF IsEmailEnabled, MayMail, MayPass, Mailed
  <2> QED
    BY <1>1, <2>1, <2>2, <2>3, <2>4, WorkerSteps
<1>4. CASE ~IsEmailEnabled(job[j].at, job[j].kind)
  <2>1. ReachedNext(j)
    BY <1>4 DEF ReadChoice
  <2>2. CategoryOf(job[j].kind) # Nobody /\ choice[job[j].at][CategoryOf(job[j].kind)] = "off"
    BY <1>4 DEF IsEmailEnabled
  <2>3. PICK row : /\ job' = [job EXCEPT ![j] = row] /\ Placed(row) /\ row.at = Nobody /\ row.step = "none"
                   /\ row.kind = job[j].kind /\ row.state = job[j].state
    BY <2>1, NextRow
  <2>4. MayMail(row) /\ MayPass(j, row) /\ Mailed(j)
    BY <1>1, <2>2, <2>3 DEF MayMail, MayPass, Mailed
  <2> QED
    BY <1>1, <2>3, <2>4, WorkerSteps
<1> QED
  BY <1>3, <1>4

(* It sends.                                                                *)
LEMMA SendMails == ASSUME MailInv, NEW j \in Jobs, SendEmail(j) PROVE MailInv' /\ Respected
<1>1. job[j].step = "mailing" /\ choice' = choice /\ mails' = [mails EXCEPT ![job[j].at][j] = @ + 1] /\ ReachedNext(j)
  BY DEF SendEmail
<1>2. PICK row : /\ job' = [job EXCEPT ![j] = row] /\ Placed(row) /\ row.at = Nobody /\ row.step = "none"
                 /\ row.kind = job[j].kind /\ row.state = job[j].state
  BY <1>1, NextRow
<1>3. MayMail(row) /\ MayPass(j, row) /\ Mailed(j)
  BY <1>1, <1>2 DEF MayMail, MayPass, Mailed
<1> QED
  BY <1>1, <1>2, <1>3, WorkerSteps

(* An attempt ends, well or not.                                            *)
LEMMA EndMails == ASSUME MailInv, NEW j \in Jobs, Failed(j) \/ Finish(j) PROVE MailInv' /\ Respected
<1>1. CASE Failed(j)
  <2> DEFINE row == [job[j] EXCEPT !.state = IF job[j].try < Tries THEN "queued" ELSE "archived",
                                   !.left = {}, !.at = Nobody, !.step = "none", !.overtaken = FALSE]
  <2>1. job' = [job EXCEPT ![j] = row] /\ mails' = mails /\ choice' = choice
    BY <1>1 DEF Failed
  <2>2. DOMAIN row = JobFields /\ row.at = Nobody /\ row.step = "none" /\ row.kind = job[j].kind
        /\ row.state # "running"
    BY DEF MailInv, Placed, JobFields
  <2> HIDE DEF row
  <2>3. Placed(row) /\ MayMail(row) /\ MayPass(j, row) /\ Mailed(j)
    BY <2>1, <2>2 DEF Placed, MayMail, MayPass, Mailed
  <2> QED
    BY <2>1, <2>2, <2>3, WorkerSteps
<1>2. CASE Finish(j)
  <2> DEFINE row == [job[j] EXCEPT !.state = "done"]
  <2>1. job' = [job EXCEPT ![j] = row] /\ mails' = mails /\ choice' = choice /\ job[j].state = "running" /\ job[j].left = {}
    BY <1>2 DEF Finish
  <2>2. job[j].at = Nobody /\ job[j].step = "none"
    BY <2>1 DEF MailInv, Placed
  <2>3. DOMAIN row = JobFields /\ row.at = Nobody /\ row.step = "none" /\ row.kind = job[j].kind
        /\ row.state = "done"
    BY <2>2 DEF MailInv, Placed, JobFields
  <2> HIDE DEF row
  <2>4. Placed(row) /\ MayMail(row) /\ MayPass(j, row) /\ Mailed(j)
    BY <2>1, <2>3 DEF Placed, MayMail, MayPass, Mailed
  <2> QED
    BY <2>1, <2>3, <2>4, WorkerSteps
<1> QED
  BY <1>1, <1>2

(* A request that enqueues one task.                                        *)
LEMMA EnqueueMails ==
  ASSUME MailInv, NEW j \in FreeJobs, NEW kind, NEW recipient, Enqueue(j, kind, recipient), UNCHANGED <<mails, choice>>
  PROVE  MailInv' /\ Respected
<1> DEFINE row == [Ready EXCEPT !.kind = kind, !.recipient = recipient, !.state = "queued"]
<1>1. job' = [job EXCEPT ![j] = row] /\ j \in Jobs /\ job[j].state = "none"
  BY DEF Enqueue, FreeJobs
<1>2. DOMAIN row = JobFields /\ row.at = Nobody /\ row.step = "none"
  BY DEF Ready, JobFields
<1> HIDE DEF row
<1> QED
  BY <1>1, <1>2, TasksBegin DEF MailInv

(* A post enqueues a task for each whom it concerns, or none.               *)
LEMMA PostMails == ASSUME MailInv, NEW p \in Posts, CreatePost(p) PROVE MailInv' /\ Respected
<1>1. PICK d \in drafting[p] : NotifyPost(d)
  BY DEF CreatePost
<1>2. PICK jobs \in [Mentioned(d) \X {"mention"} \cup RepliedTo(d) \X {"reply"} -> FreeJobs \cup {Nobody}] :
        job' = [j \in Jobs |->
              IF \E a \in DOMAIN jobs : jobs[a] = j
              THEN LET a == CHOOSE a \in DOMAIN jobs : jobs[a] = j
                   IN  [Ready EXCEPT !.kind = a[2], !.recipient = a[1], !.state = "queued"]
              ELSE job[j]]
  BY <1>1 DEF NotifyPost
<1> DEFINE row(a) == [Ready EXCEPT !.kind = a[2], !.recipient = a[1], !.state = "queued"]
<1>3. \A a : DOMAIN row(a) = JobFields /\ row(a).at = Nobody /\ row(a).step = "none"
  BY DEF Ready, JobFields
<1>4. ASSUME NEW j \in Jobs, job'[j] # job[j]
      PROVE  job[j].state = "none" /\ \E a : job'[j] = row(a)
  <2>1. PICK a \in DOMAIN jobs : jobs[a] = j
    BY <1>2, <1>4
  <2>2. j \in FreeJobs
    BY <2>1, CommunityAssumption
  <2>3. job'[j] = row(CHOOSE b \in DOMAIN jobs : jobs[b] = j)
    BY <1>2, <2>1
  <2> QED
    BY <2>2, <2>3 DEF FreeJobs
<1> HIDE DEF row
<1>5. mails' = mails /\ choice' = choice /\ DOMAIN job' = Jobs
  BY <1>2 DEF CreatePost
<1> QED
  BY <1>3, <1>4, <1>5, TasksBegin

(* A request that changes a user's choice.                                  *)
LEMMA ChoiceMails ==
  ASSUME MailInv, NEW u \in Chatters, UpdateNotificationPreference(u) \/ \E j \in Jobs : Unsubscribe(u, j)
  PROVE  MailInv' /\ Respected
<1>1. u \in Users
  BY CommunityAssumption
<1>2. CASE UpdateNotificationPreference(u)
  <2>1. PICK c \in Chosen, value \in {"on", "off"} : choice' = [choice EXCEPT ![u][c] = value]
    BY <1>2 DEF UpdateNotificationPreference
  <2>2. DOMAIN [choice[u] EXCEPT ![c] = value] = Categories
    BY <1>1 DEF MailInv
  <2>3. choice' = [choice EXCEPT ![u] = [choice[u] EXCEPT ![c] = value]]
    BY <2>1
  <2>4. job' = ChoiceChanged(u) /\ mails' = mails
    BY <1>2 DEF UpdateNotificationPreference
  <2> QED
    BY <1>1, <2>2, <2>3, <2>4, ChoicesOvertake
<1>3. ASSUME NEW j \in Jobs, Unsubscribe(u, j) PROVE MailInv' /\ Respected
  <2>1. choice' = [choice EXCEPT ![u] = SwitchedOff(u, CategoryOf(job[j].kind))]
        /\ job' = ChoiceChanged(u) /\ mails' = mails
    BY <1>3 DEF Unsubscribe
  <2>2. DOMAIN SwitchedOff(u, CategoryOf(job[j].kind)) = Categories
    BY DEF SwitchedOff
  <2> QED
    BY <1>1, <2>1, <2>2, ChoicesOvertake
<1> QED
  BY <1>2, <1>3

(* Every step keeps the invariant and respects the choices.                 *)
LEMMA MailStep == ASSUME MailInv, [CommunityNext]_communityVars PROVE MailInv' /\ Respected
<1> DEFINE Goal == MailInv' /\ Respected
<1>1. CASE UNCHANGED communityVars
  BY <1>1, MailsRest DEF communityVars, noticeVars
<1>2. ASSUME NEW t \in Threads, NEW u \in Chatters,
             \/ CreateOrgThread(t, u) \/ CreateCourseThread(t, u)
             \/ SetThreadPinned(t, u) \/ SetThreadLocked(t, u)
      PROVE  Goal
  <2>1. UNCHANGED <<job, mails, choice>>
    BY <1>2 DEF CreateOrgThread, CreateCourseThread, PutThread, SetThreadPinned, SetThreadLocked, SetThread, noticeVars
  <2> QED
    BY <2>1, MailsRest
<1>3. ASSUME NEW p \in Posts, NEW u \in Chatters,
             \/ BeginPost(p, u) \/ HidePost(p, u) \/ DeletePost(p, u) \/ EditPost(p, u)
             \/ ReactToPost(p, u) \/ Unreact(p, u)
      PROVE  Goal
  <2>1. UNCHANGED <<job, mails, choice>>
    BY <1>3 DEF BeginPost, HidePost, DeletePost, SetPost, EditPost, ReactToPost, Unreact, noticeVars
  <2> QED
    BY <2>1, MailsRest
<1>4. ASSUME NEW p \in Posts, NEW u \in Chatters, NEW r \in Reports, NEW j \in FreeJobs, ReportPost(r, p, u, j)
      PROVE  Goal
  <2>1. UNCHANGED <<mails, choice>> /\ (Enqueue(j, "report_filed", Nobody) \/ UNCHANGED job)
    BY <1>4 DEF ReportPost
  <2> QED
    BY <2>1, MailsRest, EnqueueMails
<1>5. ASSUME NEW p \in Posts, CreatePost(p) PROVE Goal
  BY <1>5, PostMails
<1>6. ASSUME NEW r \in Reports, NEW u \in Chatters, ResolveReport(r, u) \/ DismissReport(r, u) PROVE Goal
  <2>1. UNCHANGED <<job, mails, choice>>
    BY <1>6 DEF ResolveReport, DismissReport, CloseReport, noticeVars
  <2> QED
    BY <2>1, MailsRest
<1>7. ASSUME NEW j \in FreeJobs, NEW u \in Chatters, CreateBroadcast(j, u) PROVE Goal
  BY <1>7, EnqueueMails DEF CreateBroadcast
<1>8. ASSUME NEW j \in Jobs,
             Attempt(j) \/ ReadChoice(j) \/ SendEmail(j) \/ Failed(j) \/ Finish(j) \/ ResolveAlert(j)
      PROVE  Goal
  BY <1>8, AttemptMails, ReadMails, SendMails, EndMails, MailsRest DEF ResolveAlert
<1>9. ASSUME NEW j \in Jobs, NEW u \in Users, WriteNotification(j, u) PROVE Goal
  BY <1>9, WriteMails
<1>10. ASSUME NEW u \in Chatters, MarkAllNotificationsRead(u) PROVE Goal
  BY <1>10, MailsRest DEF MarkAllNotificationsRead
<1>11. ASSUME NEW u \in Chatters, UpdateNotificationPreference(u) PROVE Goal
  BY <1>11, ChoiceMails
<1>12. ASSUME NEW u \in Chatters, NEW j \in Jobs, ReadOne(u, j) \/ Unsubscribe(u, j) PROVE Goal
  BY <1>12, MailsRest, ChoiceMails DEF ReadOne
<1> QED
  BY <1>1, <1>2, <1>3, <1>4, <1>5, <1>6, <1>7, <1>8, <1>9, <1>10, <1>11, <1>12 DEF CommunityNext

(* A mail goes to whom its category's choice allowed when the worker read it, *)
(* and the recipients it passes over chose so, whatever users, posts and     *)
(* tasks there are.                                                         *)
THEOREM ChoicesAreKept == CommunitySpec => MailRespectsChoice
<1>1. Respected => \A u \in Users, j \in Jobs : LET c == CategoryOf(job[j].kind) IN
          /\ mails[u][j] < mails'[u][j] /\ c # Nobody => c \in GetNotificationPreferences(u) \/ job[j].overtaken
          /\ job[j].step = "written" /\ job[j].at = u /\ job'[j].at # u /\ job'[j].state = "running"
                => c # Nobody /\ c \notin GetNotificationPreferences(u)
  BY DEF Respected, MailAllowed, PassedOver
<1> QED
  BY <1>1, MailsAtFirst, MailStep, PTL DEF CommunitySpec, MailRespectsChoice

-----------------------------------------------------------------------------
(* Deliveries                                                              *)

(* A task waits only with an attempt left and is given up with none, and an *)
(* alert is about one given up.                                             *)
TaskFits(row, told) ==
  /\ row.try \in Nat
  /\ row.state = "none" => row.try = 0
  /\ row.state = "queued" => row.try < Tries
  /\ row.state = "running" => row.try <= Tries
  /\ told = "open" => row.state = "archived" /\ row.try = Tries

(* What a task's row says of a user's notifications n, mails m and unread   *)
(* ones r of it: the attempt under way has written to whom it passed and to *)
(* whom it is at, whose mail is still to come, and not yet to the rest.     *)
CountsFit(row, n, m, r, u) ==
  /\ n \in Nat /\ m \in Nat /\ r \in Nat
  /\ m <= n /\ r <= n /\ n <= row.try
  /\ row.at = u => m < n
  /\ row.state = "running" /\ u \in row.left /\ row.at # u => n < row.try
  /\ row.state \in {"running", "done"} /\ u \in row.to \ row.left => n > 0
  /\ row.state = "done" => row.left = {}

DeliveryInv ==
  /\ MailInv /\ alert = [j \in Jobs |-> alert[j]]
  /\ inbox \in [Users -> [Jobs -> Nat]] /\ unread \in [Users -> [Jobs -> Nat]]
  /\ \A j \in Jobs : TaskFits(job[j], alert[j])
  /\ \A j \in Jobs, u \in Users : CountsFit(job[j], inbox[u][j], mails[u][j], unread[u][j], u)

(* Nothing is delivered at first.                                           *)
LEMMA DeliveriesAtFirst == CommunityInit => DeliveryInv
<1> SUFFICES ASSUME CommunityInit PROVE DeliveryInv
  OBVIOUS
<1>1. Ready.state = "none" /\ Ready.try = 0 /\ Ready.at = Nobody /\ Ready.left = {}
  BY DEF Ready
<1>2. /\ job = [j \in Jobs |-> Ready] /\ alert = [j \in Jobs |-> "none"]
      /\ inbox = [u \in Users |-> [j \in Jobs |-> 0]] /\ unread = inbox /\ mails = inbox
  BY DEF CommunityInit
<1>3. \A j \in Jobs : TaskFits(job[j], alert[j])
  BY <1>1, <1>2 DEF TaskFits
<1>4. \A j \in Jobs, u \in Users : CountsFit(job[j], inbox[u][j], mails[u][j], unread[u][j], u)
  BY <1>1, <1>2, CommunityAssumption DEF CountsFit
<1> QED
  BY <1>2, <1>3, <1>4, MailsAtFirst DEF DeliveryInv

(* A step that leaves every task where it was or begins it, and delivers     *)
(* nothing.                                                                 *)
LEMMA DeliveriesRest ==
  ASSUME DeliveryInv, MailInv', UNCHANGED <<alert, inbox, unread, mails>>,
         \A j \in Jobs :
           \/ /\ job'[j].state = job[j].state /\ job'[j].try = job[j].try /\ job'[j].to = job[j].to
              /\ job'[j].left = job[j].left /\ job'[j].at = job[j].at
           \/ /\ job[j].state = "none" /\ job'[j].state = "queued" /\ job'[j].try = 0 /\ job'[j].at = Nobody
  PROVE  DeliveryInv'
<1>1. ASSUME NEW j \in Jobs PROVE TaskFits(job'[j], alert[j])
  BY CommunityAssumption DEF DeliveryInv, TaskFits
<1>2. ASSUME NEW j \in Jobs, NEW u \in Users
      PROVE  CountsFit(job'[j], inbox[u][j], mails[u][j], unread[u][j], u)
  <2>1. TaskFits(job[j], alert[j]) /\ CountsFit(job[j], inbox[u][j], mails[u][j], unread[u][j], u)
    BY DEF DeliveryInv
  <2>2. CASE /\ job'[j].state = job[j].state /\ job'[j].try = job[j].try /\ job'[j].to = job[j].to
             /\ job'[j].left = job[j].left /\ job'[j].at = job[j].at
    BY <2>1, <2>2 DEF CountsFit
  <2>3. CASE job[j].state = "none" /\ job'[j].state = "queued" /\ job'[j].try = 0 /\ job'[j].at = Nobody
    BY <2>1, <2>3, CommunityAssumption DEF CountsFit, TaskFits
  <2> QED
    BY <2>2, <2>3
<1> QED
  BY <1>1, <1>2 DEF DeliveryInv

(* A step at one task, and what it delivers to whom.                        *)
LEMMA WorkerDelivers ==
  ASSUME DeliveryInv, MailInv', NEW j \in Jobs, NEW row, job' = [job EXCEPT ![j] = row],
         NEW told, alert' = [alert EXCEPT ![j] = told], TaskFits(row, told),
         inbox' \in [Users -> [Jobs -> Nat]], unread' \in [Users -> [Jobs -> Nat]],
         \A u \in Users, o \in Jobs \ {j} :
            inbox'[u][o] = inbox[u][o] /\ mails'[u][o] = mails[u][o] /\ unread'[u][o] = unread[u][o],
         \A u \in Users : CountsFit(row, inbox'[u][j], mails'[u][j], unread'[u][j], u)
  PROVE  DeliveryInv'
<1>1. DOMAIN job = Jobs /\ DOMAIN alert = Jobs
  BY DEF DeliveryInv, MailInv
<1>2. alert' = [o \in Jobs |-> alert'[o]] /\ \A o \in Jobs : TaskFits(job'[o], alert'[o])
  BY <1>1 DEF DeliveryInv
<1>3. ASSUME NEW o \in Jobs, NEW u \in Users
      PROVE  CountsFit(job'[o], inbox'[u][o], mails'[u][o], unread'[u][o], u)
  <2>1. CASE o = j
    BY <1>1, <2>1
  <2>2. CASE o # j
    <3>1. job'[o] = job[o] /\ CountsFit(job[o], inbox[u][o], mails[u][o], unread[u][o], u)
      BY <1>1, <2>2 DEF DeliveryInv
    <3> QED
      BY <2>2, <3>1
  <2> QED
    BY <2>1, <2>2
<1> QED
  BY <1>2, <1>3 DEF DeliveryInv

(* A step at one task that delivers nothing.                                *)
LEMMA WorkerWaits ==
  ASSUME DeliveryInv, MailInv', NEW j \in Jobs, NEW row, job' = [job EXCEPT ![j] = row],
         NEW told, alert' = [alert EXCEPT ![j] = told], TaskFits(row, told), UNCHANGED <<inbox, unread, mails>>,
         \A u \in Users : CountsFit(row, inbox[u][j], mails[u][j], unread[u][j], u)
  PROVE  DeliveryInv'
<1>1. inbox' \in [Users -> [Jobs -> Nat]] /\ unread' \in [Users -> [Jobs -> Nat]]
  BY DEF DeliveryInv
<1>2. \A u \in Users, o \in Jobs \ {j} :
         inbox'[u][o] = inbox[u][o] /\ mails'[u][o] = mails[u][o] /\ unread'[u][o] = unread[u][o]
  OBVIOUS
<1>3. \A u \in Users : CountsFit(row, inbox'[u][j], mails'[u][j], unread'[u][j], u)
  OBVIOUS
<1> QED
  BY <1>1, <1>2, <1>3, WorkerDelivers

(* What the invariant says of one task.                                     *)
LEMMA OneTask ==
  ASSUME DeliveryInv, NEW j \in Jobs
  PROVE  /\ Placed(job[j]) /\ DOMAIN job[j] = JobFields /\ TaskFits(job[j], alert[j])
         /\ alert = [alert EXCEPT ![j] = alert[j]]
         /\ \A u \in Users : CountsFit(job[j], inbox[u][j], mails[u][j], unread[u][j], u)
<1>1. Placed(job[j]) /\ DOMAIN job[j] = JobFields
  BY DEF DeliveryInv, MailInv, Placed
<1>2. TaskFits(job[j], alert[j]) /\ \A u \in Users : CountsFit(job[j], inbox[u][j], mails[u][j], unread[u][j], u)
  BY DEF DeliveryInv
<1>3. alert = [alert EXCEPT ![j] = alert[j]]
  BY DEF DeliveryInv
<1> QED
  BY <1>1, <1>2, <1>3

(* An attempt begins with everybody it is for to be written to.             *)
LEMMA AttemptDelivers == ASSUME DeliveryInv, MailInv', NEW j \in Jobs, Attempt(j) PROVE DeliveryInv'
<1> DEFINE row == [job[j] EXCEPT !.state = "running", !.try = @ + 1, !.to = Recipients(j), !.left = Recipients(j)]
<1>1. job' = [job EXCEPT ![j] = row] /\ UNCHANGED <<alert, inbox, unread, mails>> /\ job[j].state = "queued"
  BY DEF Attempt
<1>2. row.state = "running" /\ row.try = job[j].try + 1 /\ row.left = row.to /\ row.at = Nobody
  BY <1>1, OneTask DEF Placed, JobFields
<1> HIDE DEF row
<1>3. TaskFits(row, alert[j])
  BY <1>1, <1>2, OneTask, CommunityAssumption DEF TaskFits
<1>4. ASSUME NEW u \in Users PROVE CountsFit(row, inbox[u][j], mails[u][j], unread[u][j], u)
  BY <1>1, <1>2, OneTask, CommunityAssumption DEF TaskFits, CountsFit
<1> QED
  BY <1>1, <1>3, <1>4, OneTask, WorkerWaits

(* A notification is written to one who has fewer than there were attempts. *)
LEMMA WriteDelivers ==
  ASSUME DeliveryInv, MailInv', NEW j \in Jobs, NEW u \in Users, WriteNotification(j, u) PROVE DeliveryInv'
<1> DEFINE row == [job[j] EXCEPT !.at = u, !.step = "written"]
<1>1. /\ job' = [job EXCEPT ![j] = row] /\ UNCHANGED <<alert, mails>>
      /\ job[j].state = "running" /\ job[j].at = Nobody /\ u \in job[j].left
      /\ inbox' = [inbox EXCEPT ![u][j] = @ + 1] /\ unread' = [unread EXCEPT ![u][j] = @ + 1]
  BY DEF WriteNotification
<1>2. /\ row.state = "running" /\ row.try = job[j].try /\ row.left = job[j].left /\ row.to = job[j].to /\ row.at = u
  BY <1>1, OneTask DEF JobFields
<1> HIDE DEF row
<1>3. TaskFits(row, alert[j])
  BY <1>1, <1>2, OneTask DEF TaskFits
<1>4. inbox' \in [Users -> [Jobs -> Nat]] /\ unread' \in [Users -> [Jobs -> Nat]]
  <2>1. [inbox[u] EXCEPT ![j] = @ + 1] \in [Jobs -> Nat] /\ [unread[u] EXCEPT ![j] = @ + 1] \in [Jobs -> Nat]
    BY DEF DeliveryInv
  <2>2. /\ inbox' = [inbox EXCEPT ![u] = [inbox[u] EXCEPT ![j] = @ + 1]]
        /\ unread' = [unread EXCEPT ![u] = [unread[u] EXCEPT ![j] = @ + 1]]
    BY <1>1
  <2> QED
    BY <2>1, <2>2 DEF DeliveryInv
<1>5. \A o \in Users, i \in Jobs : o # u \/ i # j => inbox'[o][i] = inbox[o][i] /\ unread'[o][i] = unread[o][i]
  BY <1>1 DEF DeliveryInv
<1>6. inbox'[u][j] = inbox[u][j] + 1 /\ unread'[u][j] = unread[u][j] + 1 /\ mails' = mails
  BY <1>1 DEF DeliveryInv
<1>7. ASSUME NEW o \in Users PROVE CountsFit(row, inbox'[o][j], mails'[o][j], unread'[o][j], o)
  <2>1. /\ CountsFit(job[j], inbox[o][j], mails[o][j], unread[o][j], o) /\ job[j].try \in Nat
        /\ o # Nobody /\ job[j].state = "running" /\ job[j].at = Nobody
    BY <1>1, OneTask, CommunityAssumption DEF TaskFits
  <2>2. CASE o = u
    BY <1>1, <1>2, <1>6, <2>1, <2>2 DEF CountsFit
  <2>3. CASE o # u
    <3>1. inbox'[o][j] = inbox[o][j] /\ unread'[o][j] = unread[o][j] /\ mails'[o][j] = mails[o][j]
      BY <1>5, <1>6, <2>3
    <3> QED
      BY <1>2, <2>1, <2>3, <3>1 DEF CountsFit
  <2> QED
    BY <2>2, <2>3
<1>8. \A o \in Users, i \in Jobs \ {j} :
         inbox'[o][i] = inbox[o][i] /\ mails'[o][i] = mails[o][i] /\ unread'[o][i] = unread[o][i]
  BY <1>1, <1>5
<1>9. alert' = [alert EXCEPT ![j] = alert[j]]
  BY <1>1, OneTask
<1> QED
  BY <1>1, <1>3, <1>4, <1>7, <1>8, <1>9, WorkerDelivers

(* What passing to the next leaves of a task's row.                         *)
LEMMA RowPassed ==
  ASSUME DeliveryInv, NEW j \in Jobs, ReachedNext(j)
  PROVE  \E row : /\ job' = [job EXCEPT ![j] = row] /\ row.at = Nobody /\ row.left = job[j].left \ {job[j].at}
                  /\ row.state = job[j].state /\ row.try = job[j].try /\ row.to = job[j].to
<1> DEFINE row == [job[j] EXCEPT !.left = @ \ {job[j].at}, !.at = Nobody, !.step = "none", !.overtaken = FALSE]
<1>1. job' = [job EXCEPT ![j] = row]
  BY DEF ReachedNext
<1>2. /\ row.at = Nobody /\ row.left = job[j].left \ {job[j].at}
      /\ row.state = job[j].state /\ row.try = job[j].try /\ row.to = job[j].to
  BY OneTask DEF JobFields
<1> HIDE DEF row
<1> QED
  BY <1>1, <1>2

(* The choice is read: a mail is to come, or the next recipient.            *)
LEMMA ReadDelivers == ASSUME DeliveryInv, MailInv', NEW j \in Jobs, ReadChoice(j) PROVE DeliveryInv'
<1>1. job[j].step = "written" /\ UNCHANGED <<alert, inbox, unread, mails>>
  BY DEF ReadChoice
<1>2. job[j].at \in Users /\ job[j].state = "running" /\ job[j].at # Nobody
  BY <1>1, OneTask DEF Placed
<1>3. CASE IsEmailEnabled(job[j].at, job[j].kind)
  <2>1. job' = [job EXCEPT ![j] = [job[j] EXCEPT !.step = "mailing", !.overtaken = FALSE]]
    BY <1>3 DEF ReadChoice
  <2>2. \A o \in Jobs : /\ job'[o].state = job[o].state /\ job'[o].try = job[o].try /\ job'[o].to = job[o].to
                        /\ job'[o].left = job[o].left /\ job'[o].at = job[o].at
    BY <2>1, OneTask DEF JobFields, DeliveryInv, MailInv
  <2> QED
    BY <1>1, <2>2, DeliveriesRest
<1>4. CASE ~IsEmailEnabled(job[j].at, job[j].kind)
  <2>1. ReachedNext(j)
    BY <1>4 DEF ReadChoice
  <2>2. PICK row : /\ job' = [job EXCEPT ![j] = row] /\ row.at = Nobody /\ row.left = job[j].left \ {job[j].at}
                   /\ row.state = job[j].state /\ row.try = job[j].try /\ row.to = job[j].to
    BY <2>1, RowPassed
  <2>3. TaskFits(row, alert[j])
    BY <2>2, OneTask DEF TaskFits
  <2>4. ASSUME NEW u \in Users PROVE CountsFit(row, inbox[u][j], mails[u][j], unread[u][j], u)
    BY <1>2, <2>2, OneTask, CommunityAssumption DEF CountsFit, TaskFits
  <2>5. alert' = [alert EXCEPT ![j] = alert[j]]
    BY <1>1, OneTask
  <2> QED
    BY <1>1, <2>2, <2>3, <2>4, <2>5, WorkerWaits
<1> QED
  BY <1>3, <1>4

(* A mail follows the notification written before it.                       *)
LEMMA SendDelivers == ASSUME DeliveryInv, MailInv', NEW j \in Jobs, SendEmail(j) PROVE DeliveryInv'
<1>1. /\ job[j].step = "mailing" /\ UNCHANGED <<alert, inbox, unread>> /\ ReachedNext(j)
      /\ mails' = [mails EXCEPT ![job[j].at][j] = @ + 1]
  BY DEF SendEmail
<1>2. job[j].at \in Users /\ job[j].state = "running" /\ job[j].at # Nobody
  BY <1>1, OneTask DEF Placed
<1>3. PICK row : /\ job' = [job EXCEPT ![j] = row] /\ row.at = Nobody /\ row.left = job[j].left \ {job[j].at}
                 /\ row.state = job[j].state /\ row.try = job[j].try /\ row.to = job[j].to
  BY <1>1, RowPassed
<1>4. TaskFits(row, alert[j])
  BY <1>3, OneTask DEF TaskFits
<1>5. PICK at : at = job[j].at
  OBVIOUS
<1>6. /\ \A u \in Users, o \in Jobs : u # at \/ o # j => mails'[u][o] = mails[u][o]
      /\ mails'[at][j] = mails[at][j] + 1
  BY <1>1, <1>2, <1>5 DEF DeliveryInv, MailInv
<1>7. ASSUME NEW u \in Users PROVE CountsFit(row, inbox[u][j], mails'[u][j], unread[u][j], u)
  <2>1. CountsFit(job[j], inbox[u][j], mails[u][j], unread[u][j], u) /\ u # Nobody
    BY OneTask, CommunityAssumption
  <2>2. CASE u = at
    BY <1>2, <1>3, <1>5, <1>6, <2>1, <2>2 DEF CountsFit
  <2>3. CASE u # at
    BY <1>2, <1>3, <1>5, <1>6, <2>1, <2>3 DEF CountsFit
  <2> QED
    BY <2>2, <2>3
<1>8. inbox' \in [Users -> [Jobs -> Nat]] /\ unread' \in [Users -> [Jobs -> Nat]]
  BY <1>1 DEF DeliveryInv
<1>9. \A u \in Users, o \in Jobs \ {j} :
         inbox'[u][o] = inbox[u][o] /\ mails'[u][o] = mails[u][o] /\ unread'[u][o] = unread[u][o]
  BY <1>1, <1>6
<1>10. \A u \in Users : CountsFit(row, inbox'[u][j], mails'[u][j], unread'[u][j], u)
  BY <1>1, <1>7
<1>11. alert' = [alert EXCEPT ![j] = alert[j]]
  BY <1>1, OneTask
<1> QED
  BY <1>3, <1>4, <1>8, <1>9, <1>10, <1>11, WorkerDelivers

(* An attempt fails, and a task without another is alerted, perhaps.        *)
LEMMA FailedDelivers == ASSUME DeliveryInv, MailInv', NEW j \in Jobs, Failed(j) PROVE DeliveryInv'
<1> DEFINE row == [job[j] EXCEPT !.state = IF job[j].try < Tries THEN "queued" ELSE "archived",
                                 !.left = {}, !.at = Nobody, !.step = "none", !.overtaken = FALSE]
<1>1. job' = [job EXCEPT ![j] = row] /\ UNCHANGED <<inbox, unread, mails>> /\ job[j].state = "running"
  BY DEF Failed
<1>2. /\ row.state = IF job[j].try < Tries THEN "queued" ELSE "archived"
      /\ row.try = job[j].try /\ row.left = {} /\ row.at = Nobody
  BY OneTask DEF JobFields
<1> HIDE DEF row
<1>3. PICK told : /\ alert' = [alert EXCEPT ![j] = told]
                  /\ told = alert[j] \/ (told = "open" /\ job[j].try = Tries)
  BY OneTask DEF Failed
<1>4. TaskFits(row, told)
  BY <1>1, <1>2, <1>3, OneTask, CommunityAssumption DEF TaskFits
<1>5. ASSUME NEW u \in Users PROVE CountsFit(row, inbox[u][j], mails[u][j], unread[u][j], u)
  BY <1>2, OneTask, CommunityAssumption DEF CountsFit
<1> QED
  BY <1>1, <1>3, <1>4, <1>5, WorkerWaits

(* A task is done when nobody is left.                                      *)
LEMMA FinishDelivers == ASSUME DeliveryInv, MailInv', NEW j \in Jobs, Finish(j) PROVE DeliveryInv'
<1> DEFINE row == [job[j] EXCEPT !.state = "done"]
<1>1. /\ job' = [job EXCEPT ![j] = row] /\ UNCHANGED <<alert, inbox, unread, mails>>
      /\ job[j].state = "running" /\ job[j].left = {}
  BY DEF Finish
<1>2. /\ row.state = "done" /\ row.try = job[j].try /\ row.left = {} /\ row.to = job[j].to /\ row.at = job[j].at
  BY <1>1, OneTask DEF JobFields
<1> HIDE DEF row
<1>3. TaskFits(row, alert[j])
  BY <1>1, <1>2, OneTask DEF TaskFits
<1>4. ASSUME NEW u \in Users PROVE CountsFit(row, inbox[u][j], mails[u][j], unread[u][j], u)
  BY <1>1, <1>2, OneTask DEF CountsFit
<1>5. alert' = [alert EXCEPT ![j] = alert[j]]
  BY <1>1, OneTask
<1> QED
  BY <1>1, <1>3, <1>4, <1>5, WorkerWaits

(* A request of a member's forum, or a moderator's, enqueues at most.       *)
OnlyBegins(j) ==
  \/ job'[j] = job[j]
  \/ job[j].state = "none" /\ job'[j].state = "queued" /\ job'[j].try = 0 /\ job'[j].at = Nobody

LEMMA BeginningsDeliver ==
  ASSUME DeliveryInv, MailInv', UNCHANGED <<alert, inbox, unread, mails>>, \A j \in Jobs : OnlyBegins(j)
  PROVE  DeliveryInv'
BY DeliveriesRest DEF OnlyBegins

(* A request that enqueues one task.                                        *)
LEMMA EnqueueDelivers ==
  ASSUME DeliveryInv, MailInv', NEW j \in FreeJobs, NEW kind, NEW recipient, Enqueue(j, kind, recipient),
         UNCHANGED <<alert, inbox, unread, mails>>
  PROVE  DeliveryInv'
<1> DEFINE row == [Ready EXCEPT !.kind = kind, !.recipient = recipient, !.state = "queued"]
<1>1. job' = [job EXCEPT ![j] = row] /\ j \in Jobs /\ job[j].state = "none"
  BY DEF Enqueue, FreeJobs
<1>2. row.state = "queued" /\ row.try = 0 /\ row.at = Nobody
  BY DEF Ready
<1> HIDE DEF row
<1>3. \A o \in Jobs : OnlyBegins(o)
  BY <1>1, <1>2 DEF OnlyBegins, DeliveryInv, MailInv
<1> QED
  BY <1>3, BeginningsDeliver

(* A post enqueues a task for each whom it concerns, or none.               *)
LEMMA PostDelivers == ASSUME DeliveryInv, MailInv', NEW p \in Posts, CreatePost(p) PROVE DeliveryInv'
<1>1. PICK d \in drafting[p] : NotifyPost(d)
  BY DEF CreatePost
<1>2. PICK jobs \in [Mentioned(d) \X {"mention"} \cup RepliedTo(d) \X {"reply"} -> FreeJobs \cup {Nobody}] :
        job' = [j \in Jobs |->
              IF \E a \in DOMAIN jobs : jobs[a] = j
              THEN LET a == CHOOSE a \in DOMAIN jobs : jobs[a] = j
                   IN  [Ready EXCEPT !.kind = a[2], !.recipient = a[1], !.state = "queued"]
              ELSE job[j]]
  BY <1>1 DEF NotifyPost
<1> DEFINE row(a) == [Ready EXCEPT !.kind = a[2], !.recipient = a[1], !.state = "queued"]
<1>3. \A a : row(a).state = "queued" /\ row(a).try = 0 /\ row(a).at = Nobody
  BY DEF Ready
<1>4. ASSUME NEW j \in Jobs, job'[j] # job[j]
      PROVE  job[j].state = "none" /\ \E a : job'[j] = row(a)
  <2>1. PICK a \in DOMAIN jobs : jobs[a] = j
    BY <1>2, <1>4
  <2>2. j \in FreeJobs
    BY <2>1, CommunityAssumption
  <2>3. job'[j] = row(CHOOSE b \in DOMAIN jobs : jobs[b] = j)
    BY <1>2, <2>1
  <2> QED
    BY <2>2, <2>3 DEF FreeJobs
<1> HIDE DEF row
<1>5. \A j \in Jobs : OnlyBegins(j)
  BY <1>3, <1>4 DEF OnlyBegins
<1>6. UNCHANGED <<alert, inbox, unread, mails>>
  BY DEF CreatePost
<1> QED
  BY <1>5, <1>6, BeginningsDeliver

(* A change of choice marks the tasks that are at the user, and no more.    *)
LEMMA ChoiceDelivers ==
  ASSUME DeliveryInv, MailInv', NEW u \in Chatters, job' = ChoiceChanged(u), UNCHANGED <<alert, inbox, unread, mails>>
  PROVE  DeliveryInv'
<1>1. ASSUME NEW j \in Jobs
      PROVE  /\ job'[j].state = job[j].state /\ job'[j].try = job[j].try /\ job'[j].to = job[j].to
             /\ job'[j].left = job[j].left /\ job'[j].at = job[j].at
  BY OneTask DEF ChoiceChanged, JobFields
<1> QED
  BY <1>1, DeliveriesRest

(* What is read is unread no longer.                                        *)
LEMMA ReadingDelivers ==
  ASSUME DeliveryInv, MailInv', NEW u \in Chatters,
         MarkAllNotificationsRead(u) \/ \E j \in Jobs : ReadOne(u, j)
  PROVE  DeliveryInv'
<1>1. u \in Users /\ UNCHANGED <<job, alert, inbox, mails>>
  BY CommunityAssumption DEF MarkAllNotificationsRead, ReadOne
<1>2. unread[u] \in [Jobs -> Nat] /\ unread \in [Users -> [Jobs -> Nat]]
  BY <1>1 DEF DeliveryInv
<1>3. PICK kept \in [Jobs -> Nat] : unread' = [unread EXCEPT ![u] = kept] /\ \A j \in Jobs : kept[j] <= unread[u][j]
  <2>1. CASE MarkAllNotificationsRead(u)
    <3>1. [j \in Jobs |-> 0] \in [Jobs -> Nat] /\ \A j \in Jobs : [i \in Jobs |-> 0][j] <= unread[u][j]
      BY <1>2
    <3> QED
      BY <2>1, <3>1 DEF MarkAllNotificationsRead
  <2>2. ASSUME NEW j \in Jobs, ReadOne(u, j)
        PROVE  \E kept \in [Jobs -> Nat] :
                  unread' = [unread EXCEPT ![u] = kept] /\ \A i \in Jobs : kept[i] <= unread[u][i]
    <3> DEFINE kept == [unread[u] EXCEPT ![j] = @ - 1]
    <3>1. unread[u][j] > 0 /\ unread' = [unread EXCEPT ![u] = kept]
      BY <2>2 DEF ReadOne
    <3>2. kept \in [Jobs -> Nat] /\ \A i \in Jobs : kept[i] <= unread[u][i]
      BY <1>2, <3>1
    <3> QED
      BY <3>1, <3>2
  <2> QED
    BY <2>1, <2>2
<1>4. unread' \in [Users -> [Jobs -> Nat]] /\ \A o \in Users, j \in Jobs : unread'[o][j] <= unread[o][j]
  <2>1. unread' \in [Users -> [Jobs -> Nat]]
    BY <1>2, <1>3
  <2>2. ASSUME NEW o \in Users, NEW j \in Jobs PROVE unread'[o][j] <= unread[o][j]
    <3>1. unread[o][j] \in Nat
      BY <1>2
    <3>2. CASE o = u
      BY <1>1, <1>2, <1>3, <3>2
    <3>3. CASE o # u
      BY <1>2, <1>3, <3>1, <3>3
    <3> QED
      BY <3>2, <3>3
  <2> QED
    BY <2>1, <2>2
<1>5. ASSUME NEW j \in Jobs, NEW o \in Users
      PROVE  CountsFit(job[j], inbox[o][j], mails[o][j], unread'[o][j], o)
  <2>1. CountsFit(job[j], inbox[o][j], mails[o][j], unread[o][j], o) /\ unread'[o][j] \in Nat
        /\ unread'[o][j] <= unread[o][j]
    BY <1>4 DEF DeliveryInv
  <2> QED
    BY <2>1 DEF CountsFit
<1> QED
  BY <1>1, <1>4, <1>5 DEF DeliveryInv

(* Every step keeps it.                                                     *)
LEMMA DeliveryStep == ASSUME DeliveryInv, [CommunityNext]_communityVars PROVE DeliveryInv'
<1> USE DEF OnlyBegins
<1>1. MailInv'
  BY MailStep DEF DeliveryInv
<1>2. CASE UNCHANGED communityVars
  BY <1>1, <1>2, BeginningsDeliver DEF communityVars, noticeVars
<1>3. ASSUME NEW t \in Threads, NEW u \in Chatters,
             \/ CreateOrgThread(t, u) \/ CreateCourseThread(t, u)
             \/ SetThreadPinned(t, u) \/ SetThreadLocked(t, u)
      PROVE  DeliveryInv'
  <2>1. UNCHANGED <<job, alert, inbox, unread, mails>>
    BY <1>3 DEF CreateOrgThread, CreateCourseThread, PutThread, SetThreadPinned, SetThreadLocked, SetThread, noticeVars
  <2> QED
    BY <1>1, <2>1, BeginningsDeliver
<1>4. ASSUME NEW p \in Posts, NEW u \in Chatters,
             \/ BeginPost(p, u) \/ HidePost(p, u) \/ DeletePost(p, u) \/ EditPost(p, u)
             \/ ReactToPost(p, u) \/ Unreact(p, u)
      PROVE  DeliveryInv'
  <2>1. UNCHANGED <<job, alert, inbox, unread, mails>>
    BY <1>4 DEF BeginPost, HidePost, DeletePost, SetPost, EditPost, ReactToPost, Unreact, noticeVars
  <2> QED
    BY <1>1, <2>1, BeginningsDeliver
<1>5. ASSUME NEW p \in Posts, NEW u \in Chatters, NEW r \in Reports, NEW j \in FreeJobs, ReportPost(r, p, u, j)
      PROVE  DeliveryInv'
  <2>1. UNCHANGED <<alert, inbox, unread, mails>> /\ (Enqueue(j, "report_filed", Nobody) \/ UNCHANGED job)
    BY <1>5 DEF ReportPost
  <2> QED
    BY <1>1, <2>1, BeginningsDeliver, EnqueueDelivers
<1>6. ASSUME NEW p \in Posts, CreatePost(p) PROVE DeliveryInv'
  BY <1>1, <1>6, PostDelivers
<1>7. ASSUME NEW r \in Reports, NEW u \in Chatters, ResolveReport(r, u) \/ DismissReport(r, u) PROVE DeliveryInv'
  <2>1. UNCHANGED <<job, alert, inbox, unread, mails>>
    BY <1>7 DEF ResolveReport, DismissReport, CloseReport, noticeVars
  <2> QED
    BY <1>1, <2>1, BeginningsDeliver
<1>8. ASSUME NEW j \in FreeJobs, NEW u \in Chatters, CreateBroadcast(j, u) PROVE DeliveryInv'
  BY <1>1, <1>8, EnqueueDelivers DEF CreateBroadcast
<1>9. ASSUME NEW j \in Jobs, Attempt(j) \/ ReadChoice(j) \/ SendEmail(j) \/ Failed(j) \/ Finish(j)
      PROVE  DeliveryInv'
  BY <1>1, <1>9, AttemptDelivers, ReadDelivers, SendDelivers, FailedDelivers, FinishDelivers
<1>10. ASSUME NEW j \in Jobs, ResolveAlert(j) PROVE DeliveryInv'
  <2>1. alert' = [alert EXCEPT ![j] = "resolved"] /\ UNCHANGED <<job, inbox, unread, mails>>
    BY <1>10 DEF ResolveAlert
  <2>2. \A o \in Jobs : TaskFits(job[o], alert'[o])
    BY <2>1 DEF DeliveryInv, TaskFits
  <2> QED
    BY <1>1, <2>1, <2>2 DEF DeliveryInv
<1>11. ASSUME NEW j \in Jobs, NEW u \in Users, WriteNotification(j, u) PROVE DeliveryInv'
  BY <1>1, <1>11, WriteDelivers
<1>12. ASSUME NEW u \in Chatters,
              MarkAllNotificationsRead(u) \/ UpdateNotificationPreference(u)
              \/ \E j \in Jobs : ReadOne(u, j) \/ Unsubscribe(u, j)
       PROVE  DeliveryInv'
  BY <1>1, <1>12, ReadingDelivers, ChoiceDelivers DEF UpdateNotificationPreference, Unsubscribe
<1> QED
  BY <1>2, <1>3, <1>4, <1>5, <1>6, <1>7, <1>8, <1>9, <1>10, <1>11, <1>12 DEF CommunityNext

(* A bell that counts something has something to list.                      *)
LEMMA BellLists ==
  ASSUME DeliveryInv, NEW u \in Users, NotificationsUnreadCount(u) > 0
  PROVE  ListNotifications(u) # {}
<1>1. NotificationsUnreadCount(u) = Total(unread[u], Jobs)
  BY Zenon DEF NotificationsUnreadCount, Total
<1>2. \A j \in Jobs : unread[u][j] \in Nat
  BY DEF DeliveryInv
<1>3. IsFiniteSet(Jobs)
  BY CommunityAssumption
<1>4. Total(unread[u], Jobs) = 0 <=> \A j \in Jobs : unread[u][j] = 0
  BY <1>2, <1>3, TotalNatural
<1>5. PICK j \in Jobs : unread[u][j] # 0
  BY <1>1, <1>4
<1>6. unread[u][j] <= inbox[u][j] /\ inbox[u][j] \in Nat
  BY DEF DeliveryInv, CountsFit
<1> QED
  BY <1>2, <1>5, <1>6 DEF ListNotifications

(* A task that is done has reached everybody its last attempt was for, and   *)
(* nobody more often than it was attempted, whatever users and tasks there   *)
(* are and however often the worker fails.                                  *)
THEOREM TasksReachAll == CommunitySpec => []DeliveredToAll
<1>1. DeliveryInv => DeliveredToAll
  <2> SUFFICES ASSUME DeliveryInv, NEW j \in Jobs, NEW u \in Users
               PROVE  /\ job[j].state = "done" /\ u \in job[j].to => j \in ListNotifications(u)
                      /\ inbox[u][j] <= job[j].try /\ mails[u][j] <= inbox[u][j] /\ unread[u][j] <= inbox[u][j]
                      /\ NotificationsUnreadCount(u) > 0 => ListNotifications(u) # {}
                      /\ j \in ListAlerts => job[j].state = "archived" /\ job[j].try = Tries
    BY DEF DeliveredToAll
  <2>1. TaskFits(job[j], alert[j]) /\ CountsFit(job[j], inbox[u][j], mails[u][j], unread[u][j], u)
    BY OneTask
  <2>2. job[j].state = "done" /\ u \in job[j].to => j \in ListNotifications(u)
    BY <2>1 DEF CountsFit, ListNotifications
  <2>3. j \in ListAlerts => job[j].state = "archived" /\ job[j].try = Tries
    BY <2>1 DEF TaskFits, ListAlerts
  <2> QED
    BY <2>1, <2>2, <2>3, BellLists DEF CountsFit
<1> QED
  BY <1>1, DeliveriesAtFirst, DeliveryStep, PTL DEF CommunitySpec

-----------------------------------------------------------------------------
(* Metering                                                                *)

(* A call under way has a number of its own, no larger than the number of   *)
(* calls, and no row yet.                                                   *)
CallFits(e, n) ==
  /\ DOMAIN e = {"kind", "who", "service", "on", "period", "number", "phase", "result", "overtaken"}
  /\ e.service \in Services /\ e.period \in 0 .. LastPeriod
  /\ e.kind = "idle" => e.phase = "none"
  /\ e.phase = "working" => e.result = "none"
  /\ e.kind # "idle" => e.number \in 1 .. n
  /\ e.kind = "TutorAsk" => e.service = "ai"
CallsFit ==
  /\ calls \in Nat /\ period \in 0 .. LastPeriod
  /\ DOMAIN call = Calls /\ \A c \in Calls : CallFits(call[c], calls)
  /\ \A c, d \in Calls : call[c].kind # "idle" /\ call[d].kind # "idle" /\ call[c].number = call[d].number => c = d

RowFields == {"number", "service", "status", "on", "charged"}
LedgerFits ==
  /\ IsFiniteSet(ledger)
  /\ \A x \in ledger : DOMAIN x = RowFields /\ x.number \in 1 .. calls
  /\ \A x, y \in ledger : x.number = y.number => x = y
  /\ \A x \in ledger, c \in Calls : call[c].kind # "idle" => x.number # call[c].number

CountersFit ==
  /\ usage \in [Services -> [0 .. LastPeriod -> Nat]]
  /\ settings \in [Services -> [enabled : BOOLEAN, limit : Overrides \cup {Unset}]]

(* A call that nothing overtook found, and still finds, its counter below   *)
(* the limit.                                                               *)
Below(e) == Limit(e.service) = 0 \/ usage[e.service][e.period] < Limit(e.service)
LimitsFound ==
  \A c \in Calls : LET e == call[c]
                   IN  e.kind # "idle" /\ e.result # "blocked_limit" /\ ~e.overtaken => Below(e)

(* The rows that count for a service and a period.                          *)
Counted(s, p) == {x \in ledger : x.service = s /\ Counts(x) /\ x.charged = p}
CountersMatch == \A s \in Services, p \in 0 .. LastPeriod : usage[s][p] = Cost[s] * Cardinality(Counted(s, p))
TurnsKept ==
  /\ \A y \in sessions : \E m \in messages : m[1] = y[1]
  /\ \A m \in messages :
        /\ \E y \in sessions : y[1] = m[1]
        /\ {<<m[1], m[2], "user">>, <<m[1], m[2], "assistant">>} \subseteq messages
        /\ \E x \in ledger : x.number = m[2] /\ x.status = "succeeded" /\ x.service = "ai"

MeterInv == CallsFit /\ LedgerFits /\ CountersFit /\ LimitsFound /\ CountersMatch /\ TurnsKept

(* Nothing is used at first.                                                *)
LEMMA MeterStarts == MeterInit => MeterInv
<1> SUFFICES ASSUME MeterInit PROVE MeterInv
  OBVIOUS
<1>1. CallsFit
  BY MeteringAssumption DEF MeterInit, CallsFit, CallFits, Rest, Services
<1>2. LedgerFits /\ TurnsKept /\ \A s \in Services, p \in 0 .. LastPeriod : Counted(s, p) = {}
  BY FS_EmptySet DEF MeterInit, LedgerFits, TurnsKept, Counted
<1>3. CountersFit /\ \A s \in Services, p \in 0 .. LastPeriod : usage[s][p] = 0
  BY DEF MeterInit, CountersFit
<1>4. CountersMatch
  <2>1. \A s \in Services : Cost[s] * 0 = 0
    BY MeteringAssumption
  <2> QED
    BY <1>2, <1>3, <2>1, FS_EmptySet DEF CountersMatch
<1>5. LimitsFound
  BY DEF MeterInit, LimitsFound, Rest
<1> QED
  BY <1>1, <1>2, <1>3, <1>4, <1>5 DEF MeterInv

(* With every row its counter, the dashboards show no use without rows.     *)
LEMMA MeterSound == MeterInv => CountersMatchLedger
<1> SUFFICES ASSUME MeterInv PROVE CountersMatchLedger
  OBVIOUS
<1>1. ASSUME NEW s \in Services, {x \in ledger : x.service = s} = {} PROVE usage[s][period] = 0
  <2>1. Counted(s, period) = {}
    BY <1>1 DEF Counted
  <2>2. period \in 0 .. LastPeriod
    BY DEF MeterInv, CallsFit
  <2>3. usage[s][period] = Cost[s] * 0
    BY <2>1, <2>2, FS_EmptySet DEF MeterInv, CountersMatch
  <2>4. Cost[s] \in Nat
    BY MeteringAssumption
  <2> QED
    BY <2>3, <2>4
<1>2. \A shown \in {CodeExecUsageDashboard, AIUsageDashboard} : shown.recent = {} => shown.used = 0
  BY <1>1 DEF CodeExecUsageDashboard, AIUsageDashboard, Services
<1> QED
  BY <1>2 DEF MeterInv, CountersMatch, TurnsKept, Counted, CountersMatchLedger

(* A limit is a number, whatever an owner set.                              *)
LEMMA LimitsAreNumbers == ASSUME CountersFit, NEW s \in Services PROVE Limit(s) \in Nat
BY MeteringAssumption DEF CountersFit, Limit

(* What a step does to the calls other than writing a row: they end, or     *)
(* keep what they are about, and stay overtaken.                            *)
GoesOn(e, f) ==
  \/ f = Rest
  \/ /\ DOMAIN f = DOMAIN e /\ f.kind = e.kind /\ f.service = e.service /\ f.period = e.period /\ f.number = e.number
     /\ e.kind = "idle" => f.phase = e.phase
     /\ f.phase = "working" => e.phase = "working" /\ f.result = e.result
     /\ f.result # "blocked_limit" => e.result # "blocked_limit"
     /\ ~f.overtaken => ~e.overtaken
CallsGoOn == DOMAIN call' = Calls /\ \A c \in Calls : GoesOn(call[c], call'[c])

LEMMA CallsKept ==
  ASSUME CallsFit, CallsGoOn, calls' = calls, period' \in 0 .. LastPeriod
  PROVE  /\ CallsFit'
         /\ \A c \in Calls : call'[c].kind # "idle" => call[c].kind # "idle" /\ call'[c].number = call[c].number
<1>1. CallFits(Rest, calls) /\ Rest.kind = "idle"
  BY MeteringAssumption DEF CallFits, Rest, Services
<1>2. \A e, f : CallFits(e, calls) /\ GoesOn(e, f) =>
        CallFits(f, calls) /\ (f.kind # "idle" => e.kind # "idle" /\ f.number = e.number)
  BY <1>1 DEF CallFits, GoesOn
<1>3. \A c \in Calls : /\ CallFits(call'[c], calls)
                       /\ call'[c].kind # "idle" => call[c].kind # "idle" /\ call'[c].number = call[c].number
  BY <1>2 DEF CallsFit, CallsGoOn
<1> QED
  BY <1>3 DEF CallsFit, CallsGoOn

(* No row is written.                                                       *)
LEMMA LedgerKept ==
  ASSUME CallsFit, LedgerFits, CallsGoOn, UNCHANGED <<ledger, calls>>, period' \in 0 .. LastPeriod
  PROVE  LedgerFits'
<1>1. \A c \in Calls : call'[c].kind # "idle" => call[c].kind # "idle" /\ call'[c].number = call[c].number
  BY CallsKept DEF CallsFit
<1> QED
  BY <1>1 DEF LedgerFits

(* Neither a counter nor a limit changes, or every call is overtaken.       *)
LEMMA LimitsKept ==
  ASSUME LimitsFound, CallsGoOn,
         \/ UNCHANGED <<usage, settings>>
         \/ \A c \in Calls : call'[c].kind # "idle" => call'[c].overtaken
  PROVE  LimitsFound'
<1>1. CASE \A c \in Calls : call'[c].kind # "idle" => call'[c].overtaken
  BY <1>1 DEF LimitsFound
<1>2. CASE UNCHANGED <<usage, settings>>
  <2>1. \A f : Below(f)' <=> Below(f)
    BY <1>2 DEF Below, Limit
  <2>2. Rest.kind = "idle"
    BY DEF Rest
  <2>3. \A e, f : GoesOn(e, f) =>
          \/ f.kind = "idle"
          \/ /\ f.kind = e.kind /\ (Below(e) <=> Below(f))
             /\ f.result # "blocked_limit" /\ ~f.overtaken => e.result # "blocked_limit" /\ ~e.overtaken
    BY <2>2 DEF GoesOn, Below
  <2> QED
    BY <2>1, <2>3 DEF LimitsFound, CallsGoOn
<1> QED
  BY <1>1, <1>2

(* Counters, rows and transcripts stay.                                     *)
LEMMA CountedKept ==
  ASSUME UNCHANGED <<usage, ledger, messages, sessions>>
  PROVE  (CountersMatch => CountersMatch') /\ (TurnsKept => TurnsKept')
BY DEF CountersMatch, Counted, TurnsKept

(* A call that the gate lets through found room; a blocked one is marked.   *)
LEMMA PassKeeps ==
  ASSUME MeterInv, NEW c \in Calls, NEW handler, handler # "idle", NEW u, NEW s \in Services, NEW x,
         handler = "TutorAsk" => s = "ai", Pass(c, handler, u, s, x)
  PROVE  MeterInv'
<1>s. CallsFit /\ LedgerFits /\ CountersFit /\ LimitsFound /\ CountersMatch /\ TurnsKept
  BY DEF MeterInv
<1>1. PICK e : /\ DOMAIN e = {"kind", "who", "service", "on", "period", "number", "phase", "result", "overtaken"}
               /\ e.kind = handler /\ e.service = s /\ e.period = period /\ e.number = calls + 1
               /\ (e.result # "blocked_limit" => ~Blocked(s)) /\ (e.phase = "working" => e.result = "none")
               /\ call' = [call EXCEPT ![c] = e]
  <2> PICK e : e = [Rest EXCEPT !.kind = handler, !.who = u, !.service = s, !.on = x,
                                !.period = period, !.number = calls + 1,
                                !.phase = IF Blocked(s) THEN "done" ELSE "working",
                                !.result = IF Blocked(s) THEN "blocked_limit" ELSE "none"]
    OBVIOUS
  <2>1. /\ DOMAIN e = {"kind", "who", "service", "on", "period", "number", "phase", "result", "overtaken"}
        /\ e.kind = handler /\ e.service = s /\ e.period = period /\ e.number = calls + 1
        /\ (e.result # "blocked_limit" => ~Blocked(s)) /\ (e.phase = "working" => e.result = "none")
    BY DEF Rest
  <2> QED
    BY <2>1 DEF Pass
<1>2. calls \in Nat /\ calls' = calls + 1 /\ call[c].kind = "idle" /\ UNCHANGED <<settings, period, usage, ledger, messages, sessions>>
  BY <1>s DEF Pass, CallsFit
<1>3. DOMAIN call' = Calls /\ \A d \in Calls : call'[d] = IF d = c THEN e ELSE call[d]
  BY <1>s, <1>1 DEF CallsFit
<1>4. CallsFit'
  <2>1. CallFits(e, calls')
    BY <1>s, <1>1, <1>2 DEF CallFits, CallsFit
  <2>2. \A d \in Calls : CallFits(call[d], calls')
    BY <1>s, <1>2 DEF CallFits, CallsFit
  <2>3. \A d \in Calls : CallFits(call'[d], calls')
    BY <1>3, <2>1, <2>2
  <2>5. \A d \in Calls : d # c /\ call[d].kind # "idle" => call[d].number # calls + 1
    BY <1>s, <1>2 DEF CallsFit, CallFits
  <2> QED
    BY <1>s, <1>1, <1>2, <1>3, <2>3, <2>5 DEF CallsFit
<1>5. LedgerFits'
  <2>1. \A y \in ledger : y.number \in 1 .. calls' /\ y.number # calls + 1
    BY <1>s, <1>2 DEF LedgerFits
  <2>2. \A y \in ledger, d \in Calls : call'[d].kind # "idle" => y.number # call'[d].number
    BY <1>s, <1>1, <1>3, <2>1 DEF LedgerFits
  <2> QED
    BY <1>s, <1>2, <2>1, <2>2 DEF LedgerFits
<1>6. CountersFit'
  BY <1>s, <1>2 DEF CountersFit
<1>7. LimitsFound'
  <2>1. e.result # "blocked_limit" => Below(e)
    <3>1. usage[s][period] \in Nat /\ Limit(s) \in Nat
      BY <1>s, LimitsAreNumbers DEF CallsFit, CountersFit
    <3> QED
      BY <1>1, <3>1 DEF Below, Blocked
  <2>2. \A f : Below(f)' <=> Below(f)
    BY <1>2 DEF Below, Limit
  <2> QED
    BY <1>s, <1>3, <2>1, <2>2 DEF LimitsFound
<1> QED
  BY <1>s, <1>2, <1>4, <1>5, <1>6, <1>7, CountedKept DEF MeterInv

(* A step that writes neither rows nor counters.                            *)
LEMMA QuietSteps ==
  ASSUME MeterInv, CallsGoOn, UNCHANGED <<calls, usage, ledger, messages, sessions>>, period' \in 0 .. LastPeriod,
         CountersFit',
         settings' = settings \/ \A c \in Calls : call'[c].kind # "idle" => call'[c].overtaken
  PROVE  MeterInv'
<1>1. CallsFit' /\ LedgerFits'
  BY CallsKept, LedgerKept DEF MeterInv
<1>2. LimitsFound'
  BY LimitsKept DEF MeterInv
<1> QED
  BY <1>1, <1>2, CountedKept DEF MeterInv

(* The answer of the runner or the model comes, or a call gives up.         *)
LEMMA AnswersKeep == ASSUME MeterInv, NEW c \in Calls, Answer(c) \/ GiveUp(c) PROVE MeterInv'
<1>s. CallsFit /\ CountersFit
  BY DEF MeterInv
<1>1. UNCHANGED <<calls, usage, ledger, messages, sessions, settings, period>>
  BY DEF Answer, GiveUp
<1>2. \A d \in Calls : GoesOn(call[d], call[d])
  BY DEF GoesOn
<1>3. CallsGoOn
  <2>1. CASE GiveUp(c)
    <3>1. GoesOn(call[c], Rest)
      BY DEF GoesOn
    <3>2. DOMAIN call' = Calls /\ \A d \in Calls : call'[d] = IF d = c THEN Rest ELSE call[d]
      BY <1>s, <2>1 DEF GiveUp, CallsFit
    <3> QED
      BY <1>2, <3>1, <3>2 DEF CallsGoOn
  <2>2. CASE Answer(c)
    <3>1. PICK result \in Execute \cup Generation : call' = [call EXCEPT ![c].phase = "done", ![c].result = result]
      BY <2>2 DEF Answer, Execute, Generation
    <3> PICK f : f = [call[c] EXCEPT !.phase = "done", !.result = result]
      OBVIOUS
    <3>2. call' = [call EXCEPT ![c] = f]
      BY <1>s, <3>1 DEF CallsFit
    <3>3. call[c].phase = "working" /\ CallFits(call[c], calls)
      BY <1>s, <2>2 DEF Answer, CallsFit
    <3>4. GoesOn(call[c], f)
      BY <3>3 DEF GoesOn, CallFits
    <3>5. DOMAIN call' = Calls /\ \A d \in Calls : call'[d] = IF d = c THEN f ELSE call[d]
      BY <1>s, <3>2 DEF CallsFit
    <3> QED
      BY <1>2, <3>4, <3>5 DEF CallsGoOn
  <2> QED
    BY <2>1, <2>2
<1>4. CountersFit' /\ period' \in 0 .. LastPeriod
  BY <1>s, <1>1 DEF CountersFit, CallsFit
<1> QED
  BY <1>1, <1>3, <1>4, QuietSteps

(* Settings overtake every call that is under way.                          *)
LEMMA SettingsKeep == ASSUME MeterInv, NEW s \in Services, NEW u, UpdateSettings(s, u) PROVE MeterInv'
<1>s. CallsFit /\ CountersFit
  BY DEF MeterInv
<1>1. UNCHANGED <<calls, usage, ledger, messages, sessions, period>>
  BY DEF UpdateSettings
<1>2. DOMAIN call' = Calls /\ \A c \in Calls : call'[c] = [call[c] EXCEPT !.overtaken = @ \/ call[c].kind # "idle"]
  BY DEF UpdateSettings
<1>3. ASSUME NEW c \in Calls PROVE GoesOn(call[c], call'[c]) /\ (call'[c].kind # "idle" => call'[c].overtaken)
  <2>1. CallFits(call[c], calls)
    BY <1>s DEF CallsFit
  <2>2. PICK e : e = call[c]
    OBVIOUS
  <2>3. PICK f : f = [e EXCEPT !.overtaken = @ \/ e.kind # "idle"]
    OBVIOUS
  <2>4. GoesOn(e, f) /\ (f.kind # "idle" => f.overtaken)
    BY <2>1, <2>2, <2>3 DEF GoesOn, CallFits
  <2> QED
    BY <1>2, <2>2, <2>3, <2>4
<1>4. CountersFit'
  <2>1. PICK on \in BOOLEAN, limit \in Overrides : settings' = [settings EXCEPT ![s] = [enabled |-> on, limit |-> limit]]
    BY DEF UpdateSettings
  <2> QED
    BY <1>s, <1>1, <2>1 DEF CountersFit
<1>5. CallsGoOn /\ period' \in 0 .. LastPeriod
  BY <1>s, <1>1, <1>2, <1>3 DEF CallsGoOn, CallsFit
<1> QED
  BY <1>1, <1>3, <1>4, <1>5, QuietSteps

(* Exercises and days change; a row keeps its number, service and charge    *)
(* when the exercise it is about is deleted.                                *)
LEMMA CallsRest ==
  ASSUME MeterInv, UNCHANGED <<call, calls, usage, ledger, messages, sessions, settings>>, period' \in 0 .. LastPeriod
  PROVE  MeterInv'
<1>1. CallsGoOn
  BY DEF MeterInv, CallsFit, CallsGoOn, GoesOn
<1>2. CountersFit'
  BY DEF MeterInv, CountersFit
<1> QED
  BY <1>1, <1>2, QuietSteps

(* Rows that keep their numbers, services, states and charges.              *)
LEMMA RowsRewritten ==
  ASSUME MeterInv, NEW f, ledger' = {f[y] : y \in ledger},
         \A y \in ledger : /\ DOMAIN f[y] = RowFields /\ f[y].number = y.number /\ f[y].service = y.service
                           /\ f[y].status = y.status /\ f[y].charged = y.charged,
         UNCHANGED <<call, calls, usage, messages, sessions, settings>>, period' \in 0 .. LastPeriod
  PROVE  MeterInv'
<1>s. CallsFit /\ LedgerFits /\ CountersFit /\ LimitsFound /\ CountersMatch /\ TurnsKept
  BY DEF MeterInv
<1>1. CallsFit' /\ LimitsFound'
  <2>1. CallsGoOn
    BY <1>s DEF CallsFit, CallsGoOn, GoesOn
  <2> QED
    BY <1>s, <2>1, CallsKept, LimitsKept
<1>2. CountersFit'
  BY <1>s DEF CountersFit
<1>m. ASSUME NEW S \in SUBSET ledger
      PROVE  /\ IsFiniteSet(S) /\ IsFiniteSet({f[y] : y \in S})
             /\ Cardinality({f[y] : y \in S}) = Cardinality(S)
  <2> DEFINE g == [y \in S |-> f[y]]
             T == {f[y] : y \in S}
  <2>1. IsFiniteSet(S)
    BY <1>s, FS_Subset DEF LedgerFits
  <2>2. g \in [S -> T] /\ \A t \in T : \E y \in S : g[y] = t
    OBVIOUS
  <2>3. \A y \in S : g[y] = f[y] /\ f[y].number = y.number
    OBVIOUS
  <2> HIDE DEF g, T
  <2>4. \A x, y \in S : g[x] = g[y] => x = y
    BY <1>s, <2>3 DEF LedgerFits
  <2>5. g \in Bijection(S, T)
    BY <2>2, <2>4 DEF Bijection, Injection, Surjection, IsInjective
  <2>6. IsFiniteSet(T) /\ Cardinality(T) = Cardinality(S)
    BY <2>1, <2>5, FS_Bijection DEF ExistsBijection
  <2> QED
    BY <2>1, <2>6 DEF T
<1>3. LedgerFits'
  <2>1. IsFiniteSet(ledger')
    BY <1>m
  <2>2. \A x \in ledger' : \E y \in ledger : x = f[y] /\ x.number = y.number /\ DOMAIN x = RowFields
    OBVIOUS
  <2>3. \A x, z \in ledger' : x.number = z.number => x = z
    BY <1>s, <2>2 DEF LedgerFits
  <2> QED
    BY <1>s, <2>1, <2>2, <2>3 DEF LedgerFits
<1>4. CountersMatch'
  <2> SUFFICES ASSUME NEW s \in Services, NEW p \in 0 .. LastPeriod
               PROVE  usage[s][p] = Cost[s] * Cardinality(Counted(s, p)')
    BY DEF CountersMatch
  <2>1. Counted(s, p)' = {f[y] : y \in Counted(s, p)}
    BY DEF Counted, Counts
  <2>2. Counted(s, p) \in SUBSET ledger
    BY DEF Counted
  <2>3. Cardinality({f[y] : y \in Counted(s, p)}) = Cardinality(Counted(s, p))
    BY <1>m, <2>2
  <2> QED
    BY <1>s, <2>1, <2>3 DEF CountersMatch
<1>5. TurnsKept'
  <2>1. \A n : (\E x \in ledger : x.number = n /\ x.status = "succeeded" /\ x.service = "ai")
                 => \E x \in ledger' : x.number = n /\ x.status = "succeeded" /\ x.service = "ai"
    OBVIOUS
  <2> QED
    BY <1>s, <2>1 DEF TurnsKept
<1> QED
  BY <1>1, <1>2, <1>3, <1>4, <1>5 DEF MeterInv

(* Exercises come and go; a deleted one leaves its rows without it.         *)
LEMMA AuthorsKeep ==
  ASSUME MeterInv, NEW x \in Exercises,
         \/ CreateCodeExercise(x) \/ UpdateCodeExercise(x) \/ SetCodeExercisePublished(x) \/ DeleteCodeExercise(x)
  PROVE  MeterInv'
<1>1. /\ UNCHANGED <<call, calls, usage, messages, sessions, settings>>
      /\ period' = period
  BY DEF CreateCodeExercise, UpdateCodeExercise, SetCodeExercisePublished, DeleteCodeExercise, Author
<1>2. period' \in 0 .. LastPeriod
  BY <1>1 DEF MeterInv, CallsFit
<1>3. CASE DeleteCodeExercise(x)
  <2> DEFINE f == [y \in ledger |-> IF y.on = x THEN [y EXCEPT !.on = Nothing] ELSE y]
  <2>1. ledger' = {f[y] : y \in ledger}
    BY <1>3 DEF DeleteCodeExercise
  <2>2. \A y \in ledger : DOMAIN y = RowFields
    BY DEF MeterInv, LedgerFits
  <2>3. \A y \in ledger : /\ DOMAIN f[y] = RowFields /\ f[y].number = y.number /\ f[y].service = y.service
                          /\ f[y].status = y.status /\ f[y].charged = y.charged
    BY <2>2 DEF RowFields
  <2> HIDE DEF f
  <2> QED
    BY <1>1, <1>2, <2>1, <2>3, RowsRewritten
<1>4. CASE ~DeleteCodeExercise(x)
  <2>1. UNCHANGED ledger
    BY <1>4 DEF CreateCodeExercise, UpdateCodeExercise, SetCodeExercisePublished
  <2> QED
    BY <1>1, <1>2, <2>1, CallsRest
<1> QED
  BY <1>3, <1>4

(* A call that ends writes its row, and charges if it ran: one row more     *)
(* counts, for the period the gate saw.                                     *)
LEMMA CommitKeeps ==
  ASSUME MeterInv, NEW c \in Calls, CommitCall(c)
  PROVE  /\ MeterInv'
         /\ usage' # usage /\ ~call[c].overtaken => Below(call[c])
<1>s. CallsFit /\ LedgerFits /\ CountersFit /\ LimitsFound /\ CountersMatch /\ TurnsKept
  BY DEF MeterInv
<1> PICK e : e = call[c]
  OBVIOUS
<1> PICK x : x = IF e.service = "code" THEN LogSubmission(e) ELSE LogGeneration(e)
  OBVIOUS
<1>1. CallFits(e, calls) /\ e.phase = "done" /\ e.kind # "idle"
  <2>1. CallFits(e, calls) /\ e.phase = "done"
    BY <1>s DEF CommitCall, CallsFit
  <2> QED
    BY <2>1 DEF CallFits
<1>2. /\ DOMAIN x = RowFields /\ x.number = e.number /\ x.service = e.service
      /\ x.status = e.result /\ x.charged = e.period
  BY DEF LogSubmission, LogGeneration, Row, RowFields
<1>3. ledger' = ledger \cup {x} /\ usage' = Charge(e) /\ UNCHANGED <<settings, period, calls>>
  BY DEF CommitCall
<1>4. DOMAIN call' = Calls /\ \A d \in Calls : call'[d] = IF d = c THEN Rest
                                                          ELSE [call[d] EXCEPT !.overtaken = @ \/ call[d].kind # "idle"]
  BY DEF CommitCall
<1>5. ASSUME NEW d \in Calls PROVE GoesOn(call[d], call'[d]) /\ (call'[d].kind # "idle" => call'[d].overtaken /\ d # c)
  <2>1. CASE d = c
    BY <1>4, <2>1 DEF GoesOn, Rest
  <2>2. CASE d # c
    <3>1. CallFits(call[d], calls)
      BY <1>s DEF CallsFit
    <3>2. PICK a : a = call[d]
      OBVIOUS
    <3>3. PICK f : f = [a EXCEPT !.overtaken = @ \/ a.kind # "idle"]
      OBVIOUS
    <3>4. GoesOn(a, f) /\ (f.kind # "idle" => f.overtaken)
      BY <3>1, <3>2, <3>3 DEF GoesOn, CallFits
    <3> QED
      BY <1>4, <2>2, <3>2, <3>3, <3>4
  <2> QED
    BY <2>1, <2>2
<1>6. CallsGoOn /\ period' \in 0 .. LastPeriod
  BY <1>s, <1>3, <1>4, <1>5 DEF CallsGoOn, CallsFit
<1>7. CallsFit' /\ LimitsFound'
  BY <1>s, <1>3, <1>5, <1>6, CallsKept, LimitsKept
<1>8. \A y \in ledger : y.number # x.number
  BY <1>s, <1>1, <1>2 DEF LedgerFits
<1>9. LedgerFits'
  <2>1. IsFiniteSet(ledger')
    BY <1>s, <1>3, FS_AddElement DEF LedgerFits
  <2>2. \A y \in ledger' : DOMAIN y = RowFields /\ y.number \in 1 .. calls'
    BY <1>s, <1>1, <1>2, <1>3 DEF LedgerFits, CallFits
  <2>3. \A y, z \in ledger' : y.number = z.number => y = z
    BY <1>s, <1>3, <1>8 DEF LedgerFits
  <2>4. ASSUME NEW y \in ledger', NEW d \in Calls, call'[d].kind # "idle" PROVE y.number # call'[d].number
    <3>1. call[d].kind # "idle" /\ call'[d].number = call[d].number /\ d # c
      BY <1>3, <1>5, <1>6, <2>4, CallsKept, <1>s
    <3>2. call[d].number # e.number
      BY <1>1, <1>s, <3>1 DEF CallsFit
    <3> QED
      BY <1>2, <1>3, <1>s, <3>1, <3>2 DEF LedgerFits
  <2> QED
    BY <2>1, <2>2, <2>3, <2>4 DEF LedgerFits
<1>10. e.service \in Services /\ e.period \in 0 .. LastPeriod
  BY <1>1 DEF CallFits
<1>11. ASSUME NEW s \in Services, NEW p \in 0 .. LastPeriod
       PROVE  /\ usage[s][p] \in Nat /\ Cost[s] \in Nat /\ IsFiniteSet(Counted(s, p)) /\ Cardinality(Counted(s, p)) \in Nat
  <2>1. IsFiniteSet(Counted(s, p))
    BY <1>s, FS_Subset DEF LedgerFits, Counted
  <2>2. usage[s][p] \in Nat /\ Cost[s] \in Nat
    BY <1>s, MeteringAssumption DEF CountersFit
  <2> QED
    BY <2>1, <2>2, FS_CardinalityType
<1>12. CountersFit' /\ CountersMatch' /\ (usage' # usage => e.result # "blocked_limit")
  <2>1. CASE e.result = "blocked_limit"
    <3>1. usage' = usage
      BY <1>3, <2>1 DEF Charge
    <3>2. \A s, p : Counted(s, p)' = Counted(s, p)
      BY <1>2, <1>3, <2>1 DEF Counted, Counts
    <3>3. CountersFit'
      BY <1>s, <1>3, <3>1 DEF CountersFit
    <3>4. CountersMatch'
      BY <1>s, <3>1, <3>2 DEF CountersMatch
    <3> QED
      BY <3>1, <3>3, <3>4
  <2>2. CASE e.result # "blocked_limit"
    <3>1. usage' = [usage EXCEPT ![e.service][e.period] = @ + Cost[e.service]]
      BY <1>3, <2>2 DEF Charge
    <3>2. \A s \in Services, p \in 0 .. LastPeriod :
             usage'[s][p] = IF s = e.service /\ p = e.period THEN usage[s][p] + Cost[s] ELSE usage[s][p]
      BY <1>s, <1>10, <3>1 DEF CountersFit
    <3>3. CountersFit'
      <4>1. usage[e.service][e.period] + Cost[e.service] \in Nat
        BY <1>10, <1>11
      <4>2. usage' \in [Services -> [0 .. LastPeriod -> Nat]]
        BY <1>s, <1>10, <3>1, <4>1 DEF CountersFit
      <4> QED
        BY <1>s, <1>3, <4>2 DEF CountersFit
    <3>4. ASSUME NEW s \in Services, NEW p \in 0 .. LastPeriod
          PROVE  usage'[s][p] = Cost[s] * Cardinality(Counted(s, p)')
      <4>1. CASE s = e.service /\ p = e.period
        <5>1. Counted(s, p)' = Counted(s, p) \cup {x} /\ x \notin Counted(s, p)
          BY <1>2, <1>3, <1>8, <2>2, <4>1 DEF Counted, Counts
        <5>2. Cardinality(Counted(s, p)') = Cardinality(Counted(s, p)) + 1
          BY <1>11, <5>1, FS_AddElement
        <5>3. Cost[s] * (Cardinality(Counted(s, p)) + 1) = Cost[s] * Cardinality(Counted(s, p)) + Cost[s]
          BY <1>11
        <5> QED
          BY <1>s, <3>2, <4>1, <5>2, <5>3 DEF CountersMatch
      <4>2. CASE ~(s = e.service /\ p = e.period)
        <5>1. Counted(s, p)' = Counted(s, p)
          BY <1>2, <1>3, <4>2 DEF Counted, Counts
        <5> QED
          BY <1>s, <3>2, <4>2, <5>1 DEF CountersMatch
      <4> QED
        BY <4>1, <4>2
    <3>5. CountersMatch'
      BY <3>4 DEF CountersMatch
    <3> QED
      BY <2>2, <3>3, <3>5
  <2> QED
    BY <2>1, <2>2
<1>13. TurnsKept'
  <2>1. CASE e.kind = "TutorAsk" /\ e.result = "succeeded"
    <3>1. /\ sessions' = sessions \cup {<<e.on, e.who>>}
          /\ messages' = messages \cup {<<e.on, e.number, "user">>, <<e.on, e.number, "assistant">>}
      BY <2>1 DEF CommitCall, AppendMessage
    <3>2. x.number = e.number /\ x.status = "succeeded" /\ x.service = "ai"
      BY <1>1, <1>2, <2>1 DEF CallFits
    <3>a. \A m \in messages' : m \in messages \/ (m[1] = e.on /\ m[2] = e.number)
      BY <3>1
    <3>b. messages \subseteq messages' /\ sessions \subseteq sessions' /\ ledger \subseteq ledger' /\ x \in ledger'
      BY <1>3, <3>1
    <3>c. {<<e.on, e.number, "user">>, <<e.on, e.number, "assistant">>} \subseteq messages' /\ <<e.on, e.who>> \in sessions'
      BY <3>1
    <3>d. \A y \in sessions' : y \in sessions \/ y[1] = e.on
      BY <3>1
    <3>3. ASSUME NEW y \in sessions' PROVE \E m \in messages' : m[1] = y[1]
      <4>1. CASE y \in sessions
        BY <1>s, <3>b, <4>1 DEF TurnsKept
      <4>2. CASE y[1] = e.on
        <5>1. <<e.on, e.number, "user">> \in messages' /\ <<e.on, e.number, "user">>[1] = e.on
          BY <3>c
        <5> QED
          BY <4>2, <5>1
      <4> QED
        BY <3>d, <4>1, <4>2
    <3>4. ASSUME NEW m \in messages'
          PROVE  /\ \E y \in sessions' : y[1] = m[1]
                 /\ {<<m[1], m[2], "user">>, <<m[1], m[2], "assistant">>} \subseteq messages'
                 /\ \E y \in ledger' : y.number = m[2] /\ y.status = "succeeded" /\ y.service = "ai"
      <4>1. CASE m \in messages
        <5>1. /\ \E y \in sessions : y[1] = m[1]
              /\ {<<m[1], m[2], "user">>, <<m[1], m[2], "assistant">>} \subseteq messages
              /\ \E y \in ledger : y.number = m[2] /\ y.status = "succeeded" /\ y.service = "ai"
          BY <1>s, <4>1 DEF TurnsKept
        <5> QED
          BY <3>b, <5>1
      <4>2. CASE m[1] = e.on /\ m[2] = e.number
        <5>1. <<e.on, e.who>> \in sessions' /\ <<e.on, e.who>>[1] = m[1]
          BY <3>c, <4>2
        <5>2. {<<m[1], m[2], "user">>, <<m[1], m[2], "assistant">>} \subseteq messages'
          BY <3>c, <4>2
        <5>3. x \in ledger' /\ x.number = m[2] /\ x.status = "succeeded" /\ x.service = "ai"
          BY <3>2, <3>b, <4>2
        <5> QED
          BY <5>1, <5>2, <5>3
      <4> QED
        BY <3>a, <4>1, <4>2
    <3> QED
      BY <3>3, <3>4 DEF TurnsKept
  <2>2. CASE ~(e.kind = "TutorAsk" /\ e.result = "succeeded")
    <3>1. UNCHANGED <<sessions, messages>>
      BY <2>2 DEF CommitCall
    <3> QED
      BY <1>s, <1>3, <3>1 DEF TurnsKept
  <2> QED
    BY <2>1, <2>2
<1>14. usage' # usage /\ ~e.overtaken => Below(e)
  BY <1>1, <1>12, <1>s DEF LimitsFound
<1> QED
  BY <1>7, <1>9, <1>12, <1>13, <1>14 DEF MeterInv

(* The counters stay as they are, or a call that ended adds to them.        *)
LEMMA MeterSteps ==
  ASSUME MeterInv, [MeterNext]_meterVars
  PROVE  /\ MeterInv'
         /\ \A c \in Calls : usage' # usage /\ call[c].phase = "done" /\ call'[c] = Rest /\ ~call[c].overtaken
               => Below(call[c])
<1> DEFINE Goal == /\ MeterInv'
                   /\ \A c \in Calls : usage' # usage /\ call[c].phase = "done" /\ call'[c] = Rest /\ ~call[c].overtaken
                         => Below(call[c])
<1>1. ASSUME NEW c \in Calls, NEW u \in Users, Call(c, u) PROVE Goal
  <2>1. PICK handler \in {"RunCode", "SubmitCodeExercise", "TutorAsk", "GenerateOutline", "GenerateLesson", "GenerateQuiz"},
             s \in Services : (handler = "TutorAsk" => s = "ai") /\ \E x : Pass(c, handler, u, s, x)
    BY <1>1 DEF Call, RunCode, SubmitCodeExercise, TutorAsk, Generate, GenerateGated, Services
  <2>2. MeterInv'
    BY <2>1, PassKeeps
  <2>3. usage' = usage
    BY <2>1 DEF Pass
  <2> QED
    BY <2>2, <2>3
<1>2. ASSUME NEW c \in Calls, Answer(c) \/ GiveUp(c) PROVE Goal
  BY <1>2, AnswersKeep DEF Answer, GiveUp
<1>3. ASSUME NEW c \in Calls, CommitCall(c) PROVE Goal
  <2>1. MeterInv' /\ (usage' # usage /\ ~call[c].overtaken => Below(call[c]))
    BY <1>3, CommitKeeps
  <2>2. ASSUME NEW d \in Calls, d # c, call[d].phase = "done" PROVE call'[d] # Rest
    <3>1. CallFits(call[d], calls) /\ call[d].kind # "idle"
      BY <2>2 DEF MeterInv, CallsFit, CallFits
    <3>2. call'[d] = [call[d] EXCEPT !.overtaken = @ \/ call[d].kind # "idle"]
      BY <1>3, <2>2 DEF CommitCall
    <3>3. call'[d].kind = call[d].kind
      BY <3>1, <3>2 DEF CallFits
    <3> QED
      BY <3>1, <3>3 DEF Rest
  <2> QED
    BY <2>1, <2>2
<1>4. ASSUME NEW u \in Users, UpdateCodeExecSettings(u) \/ UpdateAISettings(u) PROVE Goal
  <2>1. PICK s \in Services : UpdateSettings(s, u)
    BY <1>4 DEF UpdateCodeExecSettings, UpdateAISettings, Services
  <2> QED
    BY <2>1, SettingsKeep DEF UpdateSettings
<1>5. ASSUME NEW x \in Exercises,
             \/ CreateCodeExercise(x) \/ UpdateCodeExercise(x) \/ SetCodeExercisePublished(x) \/ DeleteCodeExercise(x)
      PROVE  Goal
  <2>1. usage' = usage
    BY <1>5 DEF CreateCodeExercise, UpdateCodeExercise, SetCodeExercisePublished, DeleteCodeExercise, Author
  <2> QED
    BY <1>5, <2>1, AuthorsKeep
<1>6. CASE NextPeriod \/ UNCHANGED meterVars
  <2>1. period' \in 0 .. LastPeriod
    BY <1>6, MeteringAssumption DEF NextPeriod, meterVars, MeterInv, CallsFit
  <2> QED
    BY <1>6, <2>1, CallsRest DEF NextPeriod, meterVars
<1> QED
  BY <1>1, <1>2, <1>3, <1>4, <1>5, <1>6 DEF MeterNext

(* Counters equal the rows that count for any number of calls, whichever    *)
(* overlap, end in a later period, fail or lose the exercise they are about.*)
THEOREM CountersFollowRows == MeterSpec => []CountersMatchLedger
BY MeterStarts, MeterSteps, MeterSound, PTL DEF MeterSpec

(* The counter passes a limit only by calls that were under way together,   *)
(* or by settings that changed under a call.                                *)
THEOREM LimitsAreHeld == MeterSpec => LimitHeldAlone
<1>1. MeterInv /\ [MeterNext]_meterVars =>
        [\A c \in Calls :
          LET e == call[c]
          IN  usage' # usage /\ e.phase = "done" /\ call'[c] = Rest /\ ~e.overtaken
                  => Limit(e.service) = 0 \/ usage[e.service][e.period] < Limit(e.service)]_meteringVars
  BY MeterSteps DEF Below
<1> QED
  BY <1>1, MeterStarts, MeterSteps, PTL DEF MeterSpec, LimitHeldAlone

-----------------------------------------------------------------------------
(* Simulations                                                             *)

(* A simulation is one row with one body, and a threshold that is a number. *)
RowFits(s) ==
  /\ DOMAIN s = {"spec", "threshold", "published"} /\ s.threshold \in Nat
  /\ (s.spec.diagram = NoBody) # (s.spec.simulation = NoBody)
SimulationsFit ==
  /\ DOMAIN simulation = Slugs
  /\ \A x \in Slugs : \A s \in simulation[x] : RowFits(s) /\ \A t \in simulation[x] : t = s

(* A learner's row counts, and is judged by the threshold there is now.     *)
ReachedFits(p) == DOMAIN p = {"count", "scored", "complete", "judged"} /\ p.count \in Nat
Judged(p, s) == p.judged /\ s.threshold > 0 /\ p.count >= s.threshold => p.complete
ReachedFit ==
  /\ DOMAIN reached = Slugs
  /\ \A x \in Slugs : /\ DOMAIN reached[x] = Users
                      /\ \A u \in Users : \A p \in reached[x][u] :
                            ReachedFits(p) /\ \A s \in simulation[x] : Judged(p, s)

(* A record under way holds the threshold there is now, unless the          *)
(* simulation was edited or deleted since it was read.                      *)
VisitFits(e, x) ==
  /\ DOMAIN e = {"on", "who", "threshold", "done", "scored", "overtaken", "orphan"}
  /\ e.on = x /\ e.who \in Users /\ e.threshold \in Nat
VisitsFit ==
  /\ DOMAIN visit = Visits
  /\ \A v \in Visits : visit[v] # NoVisit =>
        \E x \in Slugs : /\ VisitFits(visit[v], x)
                         /\ ~visit[v].overtaken /\ ~visit[v].orphan =>
                               \E s \in simulation[x] : s.threshold = visit[v].threshold

SimulationInv == SimulationsFit /\ ReachedFit /\ VisitsFit

(* There is no simulation at first.                                         *)
LEMMA SimulationsStart == SimulationsInit => SimulationInv
BY DEF SimulationsInit, SimulationInv, SimulationsFit, ReachedFit, VisitsFit

LEMMA SimulationsSound == SimulationInv => CompleteByThreshold
BY DEF SimulationInv, SimulationsFit, ReachedFit, Judged, RowFits, CompleteByThreshold,
   SimulationReport, GetMySimulationProgress

(* What is stored has the one body of its kind.                             *)
LEMMA OneBody ==
  ASSUME NEW a \in Artifacts, NEW t \in Thresholds, NEW published,
         NEW spec \in ParseSpec(a), NEW threshold \in ParseConfig(t)
  PROVE  RowFits(StoredSimulation(spec, threshold, published))
<1>1. threshold \in Nat
  BY SimulationsAssumption DEF ParseConfig
<1>2. (spec.diagram = NoBody) # (spec.simulation = NoBody)
  <2>1. DOMAIN a = {"kind", "diagram", "simulation"}
    BY SimulationsAssumption
  <2>2. CASE ValidDiagram(a.diagram) /\ spec = [a EXCEPT !.simulation = NoBody]
    BY <2>1, <2>2 DEF ValidDiagram
  <2>3. CASE ValidSimulation(a.simulation) /\ spec = [a EXCEPT !.diagram = NoBody]
    BY <2>1, <2>3 DEF ValidSimulation
  <2> QED
    BY <2>2, <2>3 DEF ParseSpec
<1> QED
  BY <1>1, <1>2 DEF RowFits, StoredSimulation

(* An edit replaces the row; whoever has read the old one is marked.        *)
LEMMA PutKeeps ==
  ASSUME SimulationInv, NEW x \in Slugs, NEW handler, PutSimulation(handler, x)
  PROVE  SimulationInv'
<1>s. SimulationsFit /\ ReachedFit /\ VisitsFit
  BY DEF SimulationInv
<1>1. PICK row : RowFits(row) /\ simulation' = [simulation EXCEPT ![x] = {row}]
  BY OneBody DEF PutSimulation
<1>2. DOMAIN simulation' = Slugs /\ \A y \in Slugs : simulation'[y] = IF y = x THEN {row} ELSE simulation[y]
  BY <1>s, <1>1 DEF SimulationsFit
<1>3. SimulationsFit'
  BY <1>s, <1>1, <1>2 DEF SimulationsFit
<1>4. ReachedFit'
  <2>1. /\ DOMAIN reached' = Slugs /\ \A y \in Slugs : DOMAIN reached'[y] = Users
        /\ \A y \in Slugs, u \in Users :
              reached'[y][u] = IF y = x THEN {[p EXCEPT !.judged = FALSE] : p \in reached[x][u]} ELSE reached[y][u]
    BY <1>s DEF PutSimulation, Aged, ReachedFit
  <2>2. ASSUME NEW u \in Users, NEW q \in reached'[x][u] PROVE ReachedFits(q) /\ \A s : Judged(q, s)
    <3>0. reached'[x][u] = {[p EXCEPT !.judged = FALSE] : p \in reached[x][u]}
      BY <2>1
    <3>1. PICK p \in reached[x][u] : q = [p EXCEPT !.judged = FALSE]
      BY <2>2, <3>0
    <3>2. ReachedFits(p)
      BY <1>s DEF ReachedFit
    <3> QED
      BY <3>1, <3>2 DEF ReachedFits, Judged
  <2>3. ASSUME NEW y \in Slugs, NEW u \in Users, NEW q \in reached'[y][u]
        PROVE  ReachedFits(q) /\ \A s \in simulation'[y] : Judged(q, s)
    <3>1. CASE y = x
      BY <2>2, <3>1
    <3>2. CASE y # x
      BY <1>s, <1>2, <2>1, <3>2 DEF ReachedFit
    <3> QED
      BY <3>1, <3>2
  <2> QED
    BY <2>1, <2>3 DEF ReachedFit
<1>5. VisitsFit'
  <2>1. DOMAIN visit' = Visits
    BY DEF PutSimulation, Aged
  <2>2. ASSUME NEW v \in Visits, visit'[v] # NoVisit
        PROVE  \E y \in Slugs : /\ VisitFits(visit'[v], y)
                                /\ ~visit'[v].overtaken /\ ~visit'[v].orphan =>
                                      \E s \in simulation'[y] : s.threshold = visit'[v].threshold
    <3> PICK e : e = visit[v]
      OBVIOUS
    <3>1. visit'[v] = IF e.on = x THEN [e EXCEPT !.overtaken = TRUE] ELSE e
      BY DEF PutSimulation, Aged
    <3>2. e # NoVisit
      BY <2>2, <3>1, SimulationsAssumption DEF NoVisit
    <3>3. PICK y \in Slugs : VisitFits(e, y) /\ (~e.overtaken /\ ~e.orphan => \E s \in simulation[y] : s.threshold = e.threshold)
      BY <1>s, <3>2 DEF VisitsFit
    <3>4. CASE y = x
      <4>1. VisitFits(visit'[v], y) /\ visit'[v].overtaken
        BY <3>1, <3>3, <3>4 DEF VisitFits
      <4> QED
        BY <4>1
    <3>5. CASE y # x
      BY <1>2, <3>1, <3>3, <3>5 DEF VisitFits
    <3> QED
      BY <3>4, <3>5
  <2> QED
    BY <2>1, <2>2 DEF VisitsFit
<1> QED
  BY <1>3, <1>4, <1>5 DEF SimulationInv

(* A deletion takes the learners' rows, and marks the records under way.    *)
LEMMA DeletionKeeps ==
  ASSUME SimulationInv, NEW x \in Slugs, DeleteSimulation(x)
  PROVE  SimulationInv'
<1>s. SimulationsFit /\ ReachedFit /\ VisitsFit
  BY DEF SimulationInv
<1>1. /\ DOMAIN simulation' = Slugs /\ DOMAIN reached' = Slugs
      /\ \A y \in Slugs : simulation'[y] = IF y = x THEN {} ELSE simulation[y]
      /\ \A y \in Slugs : reached'[y] = IF y = x THEN [u \in Users |-> {}] ELSE reached[y]
  BY <1>s DEF DeleteSimulation, SimulationsFit, ReachedFit
<1>2. SimulationsFit' /\ ReachedFit'
  BY <1>s, <1>1 DEF SimulationsFit, ReachedFit
<1>3. ASSUME NEW v \in Visits, visit'[v] # NoVisit
      PROVE  \E y \in Slugs : /\ VisitFits(visit'[v], y)
                              /\ ~visit'[v].overtaken /\ ~visit'[v].orphan =>
                                    \E s \in simulation'[y] : s.threshold = visit'[v].threshold
  <2> PICK e : e = visit[v]
    OBVIOUS
  <2>1. visit'[v] = IF e.on = x THEN [e EXCEPT !.orphan = TRUE] ELSE e
    BY DEF DeleteSimulation
  <2>2. e # NoVisit
    BY <1>3, <2>1, SimulationsAssumption DEF NoVisit
  <2>3. PICK y \in Slugs : VisitFits(e, y) /\ (~e.overtaken /\ ~e.orphan => \E s \in simulation[y] : s.threshold = e.threshold)
    BY <1>s, <2>2 DEF VisitsFit
  <2>4. CASE y = x
    <3>1. VisitFits(visit'[v], y) /\ visit'[v].orphan
      BY <2>1, <2>3, <2>4 DEF VisitFits
    <3> QED
      BY <3>1
  <2>5. CASE y # x
    BY <1>1, <2>1, <2>3, <2>5 DEF VisitFits
  <2> QED
    BY <2>4, <2>5
<1>4. VisitsFit'
  BY <1>3 DEF VisitsFit, DeleteSimulation
<1> QED
  BY <1>2, <1>4 DEF SimulationInv

(* Publishing changes no threshold.                                         *)
LEMMA PublishingKeeps ==
  ASSUME SimulationInv, NEW x \in Slugs, SetSimulationPublished(x)
  PROVE  SimulationInv'
<1>s. SimulationsFit /\ ReachedFit /\ VisitsFit
  BY DEF SimulationInv
<1>1. PICK published : simulation' = [simulation EXCEPT ![x] = {[s EXCEPT !.published = published] : s \in simulation[x]}]
  BY DEF SetSimulationPublished
<1>2. /\ DOMAIN simulation' = Slugs
      /\ \A y \in Slugs : simulation'[y] = IF y = x THEN {[s EXCEPT !.published = published] : s \in simulation[x]}
                                                    ELSE simulation[y]
  BY <1>s, <1>1 DEF SimulationsFit
<1>3. \A s : RowFits(s) => /\ RowFits([s EXCEPT !.published = published])
                           /\ [s EXCEPT !.published = published].threshold = s.threshold
  BY DEF RowFits
<1>4. ASSUME NEW y \in Slugs
      PROVE  /\ \A t \in simulation'[y] : RowFits(t) /\ \E s \in simulation[y] : t.threshold = s.threshold
             /\ \A s \in simulation[y] : \E t \in simulation'[y] : t.threshold = s.threshold
             /\ \A s, t \in simulation'[y] : s = t
  <2>1. CASE y = x
    <3> DEFINE new(s) == [s EXCEPT !.published = published]
    <3>1. simulation'[y] = {new(s) : s \in simulation[y]}
      BY <1>2, <2>1
    <3>2. \A s \in simulation[y] : RowFits(new(s)) /\ new(s).threshold = s.threshold
      BY <1>s, <1>3 DEF SimulationsFit
    <3> HIDE DEF new
    <3> QED
      BY <1>s, <3>1, <3>2 DEF SimulationsFit
  <2>2. CASE y # x
    BY <1>s, <1>2, <2>2 DEF SimulationsFit
  <2> QED
    BY <2>1, <2>2
<1>5. UNCHANGED <<reached, visit>>
  BY DEF SetSimulationPublished
<1>6. SimulationsFit'
  BY <1>2, <1>4 DEF SimulationsFit
<1>7. ReachedFit'
  <2>1. \A p, s, t : t.threshold = s.threshold /\ Judged(p, s) => Judged(p, t)
    BY DEF Judged
  <2> QED
    BY <1>s, <1>4, <1>5, <2>1 DEF ReachedFit
<1>8. VisitsFit'
  <2> HIDE <1>1
  <2> QED
    BY <1>s, <1>4, <1>5 DEF VisitsFit
<1> QED
  BY <1>6, <1>7, <1>8 DEF SimulationInv

(* A record reads the threshold there is.                                   *)
LEMMA ReadingKeeps ==
  ASSUME SimulationInv, NEW v \in Visits, NEW u \in Guests, RecordSimulationProgress(v, u)
  PROVE  SimulationInv'
<1>s. SimulationsFit /\ ReachedFit /\ VisitsFit /\ UNCHANGED <<simulation, reached>>
  BY DEF SimulationInv, RecordSimulationProgress
<1>1. PICK x \in ListSimulationCatalog, done \in BOOLEAN, scored \in BOOLEAN : \E s \in simulation[x] :
         visit' = [visit EXCEPT ![v] = [NoVisit EXCEPT !.on = x, !.who = u, !.threshold = s.threshold,
                                                         !.done = done, !.scored = scored]]
  BY DEF RecordSimulationProgress
<1>2. PICK s \in simulation[x] :
         visit' = [visit EXCEPT ![v] = [NoVisit EXCEPT !.on = x, !.who = u, !.threshold = s.threshold,
                                                         !.done = done, !.scored = scored]]
  BY <1>1
<1> PICK e : e = [NoVisit EXCEPT !.on = x, !.who = u, !.threshold = s.threshold, !.done = done, !.scored = scored]
  OBVIOUS
<1>3. x \in Slugs /\ u \in Users /\ s.threshold \in Nat
  BY <1>s, SimulationsAssumption DEF ListSimulationCatalog, SimulationsFit, RowFits
<1>4. VisitFits(e, x) /\ e.threshold = s.threshold
  BY <1>3 DEF VisitFits, NoVisit
<1>5. visit' = [visit EXCEPT ![v] = e]
  BY <1>2
<1>6. DOMAIN visit' = Visits /\ \A w \in Visits : visit'[w] = IF w = v THEN e ELSE visit[w]
  BY <1>s, <1>5 DEF VisitsFit
<1>7. VisitsFit'
  BY <1>s, <1>3, <1>4, <1>6 DEF VisitsFit
<1> QED
  BY <1>s, <1>7 DEF SimulationInv, SimulationsFit, ReachedFit

(* A record counts one interaction, and completes at the threshold it read. *)
LEMMA RecordFits ==
  ASSUME NEW p, ReachedFits(p), NEW e, e.threshold \in Nat
  PROVE  /\ ReachedFits(Record(p, e))
         /\ \A s : (~e.overtaken => s.threshold = e.threshold) => Judged(Record(p, e), s)
<1> PICK q : q = Record(p, e)
  OBVIOUS
<1>1. /\ DOMAIN q = {"count", "scored", "complete", "judged"} /\ q.count = p.count + 1
      /\ q.judged = ~e.overtaken
      /\ q.complete = (p.complete \/ e.done \/ (e.threshold > 0 /\ p.count + 1 >= e.threshold))
  BY DEF Record, ReachedFits
<1>2. ReachedFits(q)
  BY <1>1 DEF ReachedFits
<1>3. ASSUME NEW s, ~e.overtaken => s.threshold = e.threshold, q.judged, s.threshold > 0, q.count >= s.threshold
      PROVE  q.complete
  BY <1>1, <1>3
<1> QED
  BY <1>2, <1>3 DEF Judged

(* A written row is judged by the threshold there is, when nobody overtook  *)
(* the record.                                                              *)
LEMMA WritingKeeps ==
  ASSUME SimulationInv, NEW v \in Visits, WriteProgress(v)
  PROVE  SimulationInv'
<1>s. SimulationsFit /\ ReachedFit /\ VisitsFit /\ UNCHANGED simulation
  BY DEF SimulationInv, WriteProgress
<1> PICK e : e = visit[v]
  OBVIOUS
<1>1. e # NoVisit /\ ~e.orphan
  BY DEF WriteProgress
<1>2. PICK x \in Slugs : VisitFits(e, x) /\ (~e.overtaken /\ ~e.orphan => \E s \in simulation[x] : s.threshold = e.threshold)
  BY <1>s, <1>1 DEF VisitsFit
<1> PICK u : u = e.who
  OBVIOUS
<1>3. x = e.on /\ u \in Users /\ e.threshold \in Nat
  BY <1>2 DEF VisitFits
<1>4. PICK S : S = {Record(p, e) : p \in Progress(x, u)} /\ reached' = [reached EXCEPT ![x][u] = S]
  <2>1. reached' = [reached EXCEPT ![e.on][e.who] = {Record(p, e) : p \in Progress(e.on, e.who)}]
    BY DEF WriteProgress
  <2>2. reached' = [reached EXCEPT ![x][u] = {Record(p, e) : p \in Progress(x, u)}]
    BY <1>3, <2>1, Zenon
  <2> QED
    BY <2>2
<1>5. \A s \in simulation[x] : ~e.overtaken => s.threshold = e.threshold
  BY <1>s, <1>1, <1>2 DEF SimulationsFit
<1>6. ASSUME NEW q \in S PROVE ReachedFits(q) /\ \A s \in simulation[x] : Judged(q, s)
  <2>1. PICK p \in Progress(x, u) : q = Record(p, e)
    BY <1>4
  <2>2. ReachedFits(p)
    BY <1>s, <1>3 DEF Progress, ReachedFit, ReachedFits
  <2> QED
    BY <1>3, <1>5, <2>1, <2>2, RecordFits
<1>7. /\ DOMAIN reached' = Slugs /\ \A y \in Slugs : DOMAIN reached'[y] = Users
      /\ \A y \in Slugs, w \in Users : reached'[y][w] = IF y = x /\ w = u THEN S ELSE reached[y][w]
  <2> HIDE <1>4
  <2> QED
    BY <1>s, <1>3, <1>4 DEF ReachedFit
<1>8. ReachedFit'
  BY <1>s, <1>6, <1>7 DEF ReachedFit
<1>9. VisitsFit'
  BY <1>s DEF VisitsFit, WriteProgress
<1> QED
  BY <1>s, <1>8, <1>9 DEF SimulationInv, SimulationsFit

LEMMA SimulationSteps == SimulationInv /\ [SimulationsNext]_simulationVars => SimulationInv'
<1> SUFFICES ASSUME SimulationInv, [SimulationsNext]_simulationVars PROVE SimulationInv'
  OBVIOUS
<1>1. ASSUME NEW x \in Slugs, CreateSimulation(x) \/ UpdateSimulation(x) PROVE SimulationInv'
  BY <1>1, PutKeeps DEF CreateSimulation, UpdateSimulation
<1>2. ASSUME NEW v \in Visits, Leave(v) PROVE SimulationInv'
  BY <1>2 DEF Leave, SimulationInv, SimulationsFit, ReachedFit, VisitsFit
<1>3. CASE UNCHANGED <<simulation, reached, visit>>
  BY <1>3 DEF SimulationInv, SimulationsFit, ReachedFit, VisitsFit
<1>4. CASE UNCHANGED simulationVars \/ \E u \in Users : UpdateSimulationSettings(u)
  BY <1>3, <1>4 DEF simulationVars, UpdateSimulationSettings
<1> QED
  BY <1>1, <1>2, <1>4, PublishingKeeps, DeletionKeeps, ReadingKeeps, WritingKeeps DEF SimulationsNext

(* A learner completes at the threshold for any thresholds, artifacts and   *)
(* records under way, unless an author changed it under his last record.    *)
THEOREM ThresholdsComplete == SimulationsSpec => []CompleteByThreshold
BY SimulationsStart, SimulationSteps, SimulationsSound, PTL DEF SimulationsSpec

-----------------------------------------------------------------------------
(* Packages: what the parser makes of a manifest                           *)

(* Lists of items, and the entry of one that launches: the first that names *)
(* a file, if any does.                                                     *)
Listed == {Head(s) : s \in Outlines \ {<<>>}}
Finds(m, listed, launch) ==
  \/ launch = NoHref /\ \A i \in DOMAIN listed : HrefOf(m, listed[i].ref) = NoHref
  \/ /\ launch # NoHref
     /\ \E i \in DOMAIN listed :
          /\ HrefOf(m, listed[i].ref) = launch
          /\ \A j \in 1 .. i - 1 : HrefOf(m, listed[j].ref) = NoHref

(* A function of the outlines that satisfies a recursion along them exists: *)
(* one for the outlines of n items yields one for those of n + 1.           *)
RecursionSolved(f, V, base, step) ==
  /\ f \in [Outlines -> V]
  /\ \A s \in Outlines : f[s] = IF s = <<>> THEN base ELSE step[<<s, f[Head(s).items], f[Tail(s)]>>]

LEMMA OutlinesEnd ==
  /\ MaxItems \in Nat
  /\ \E size \in [Outlines -> Nat] :
       /\ \A s \in Outlines : size[s] < MaxItems + 1
       /\ \A s \in Outlines \ {<<>>} :
            /\ Head(s).items \in Outlines /\ size[Head(s).items] < size[s]
            /\ Tail(s) \in Outlines /\ size[Tail(s)] < size[s]
<1>1. MaxItems \in Nat
  BY OutlinesAssumption
<1>2. PICK size \in [Outlines -> 0 .. MaxItems] :
         \A s \in Outlines \ {<<>>} : \A t \in {Head(s).items, Tail(s)} : t \in Outlines /\ size[t] < size[s]
  BY OutlinesAssumption
<1>3. size \in [Outlines -> Nat] /\ \A s \in Outlines : size[s] < MaxItems + 1
  BY <1>1, <1>2
<1>4. ASSUME NEW s \in Outlines, s # <<>>
      PROVE  /\ Head(s).items \in Outlines /\ size[Head(s).items] < size[s]
             /\ Tail(s) \in Outlines /\ size[Tail(s)] < size[s]
  <2>1. Head(s).items \in {Head(s).items, Tail(s)} /\ Tail(s) \in {Head(s).items, Tail(s)}
    OBVIOUS
  <2> QED
    BY <1>2, <1>4, <2>1, Zenon
<1> QED
  BY <1>1, <1>3, <1>4

LEMMA RecursionsExist ==
  ASSUME NEW V, NEW base \in V, NEW step \in [(Outlines \ {<<>>}) \X V \X V -> V]
  PROVE  \E f : RecursionSolved(f, V, base, step)
<1>1. PICK size \in [Outlines -> Nat] :
         /\ \A s \in Outlines : size[s] < MaxItems + 1
         /\ \A s \in Outlines \ {<<>>} :
              /\ Head(s).items \in Outlines /\ size[Head(s).items] < size[s]
              /\ Tail(s) \in Outlines /\ size[Tail(s)] < size[s]
  BY OutlinesEnd
<1> DEFINE value(f, s) == IF s = <<>> THEN base ELSE step[<<s, f[Head(s).items], f[Tail(s)]>>]
           Upto(n) == \E f \in [Outlines -> V] : \A s \in Outlines : size[s] < n => f[s] = value(f, s)
<1>2. Upto(0)
  <2> DEFINE f == [s \in Outlines |-> base]
  <2>1. f \in [Outlines -> V] /\ \A s \in Outlines : ~(size[s] < 0)
    BY <1>1
  <2> HIDE DEF f
  <2> QED
    BY <2>1
<1>3. ASSUME NEW n \in Nat, Upto(n) PROVE Upto(n + 1)
  <2>1. PICK f \in [Outlines -> V] : \A s \in Outlines : size[s] < n => f[s] = value(f, s)
    BY <1>3
  <2> DEFINE g == [s \in Outlines |-> value(f, s)]
  <2>2. \A s \in Outlines : value(f, s) \in V
    BY <1>1, <2>1
  <2>3. g \in [Outlines -> V] /\ \A s \in Outlines : g[s] = value(f, s)
    <3> HIDE DEF value
    <3> QED
      BY <2>2
  <2>4. ASSUME NEW s \in Outlines, size[s] < n + 1 PROVE value(g, s) = value(f, s)
    <3>1. CASE s = <<>>
      BY <3>1
    <3>2. CASE s # <<>>
      <4>1. Head(s).items \in Outlines /\ size[Head(s).items] < n /\ Tail(s) \in Outlines /\ size[Tail(s)] < n
        BY <1>1, <2>4, <3>2
      <4>2. g[Head(s).items] = f[Head(s).items] /\ g[Tail(s)] = f[Tail(s)]
        <5> HIDE DEF value, g
        <5> QED
          BY <2>1, <2>3, <4>1
      <4> HIDE DEF g
      <4> QED
        BY <3>2, <4>2
    <3> QED
      BY <3>1, <3>2
  <2> HIDE DEF g, value
  <2>5. \A s \in Outlines : size[s] < n + 1 => g[s] = value(g, s)
    BY <2>3, <2>4
  <2> QED
    BY <2>3, <2>5
<1>4. Upto(MaxItems + 1)
  <2> HIDE DEF Upto
  <2> DEFINE Fails == {n \in Nat : ~Upto(n)}
  <2>1. Fails = {}
    <3> SUFFICES ASSUME Fails # {} PROVE FALSE
      OBVIOUS
    <3>1. PICK n \in Fails : \A k \in Fails : n <= k
      BY LeastNumber
    <3>2. n \in Nat \ {0}
      BY <1>2, <3>1
    <3>3. Upto(n - 1)
      BY <3>1, <3>2
    <3>4. Upto(n - 1 + 1)
      BY <1>3, <3>2, <3>3
    <3> QED
      BY <3>1, <3>2, <3>4
  <2> QED
    BY <2>1, OutlinesEnd
<1>5. PICK f \in [Outlines -> V] : \A s \in Outlines : size[s] < MaxItems + 1 => f[s] = value(f, s)
  BY <1>4
<1> QED
  BY <1>1, <1>5 DEF RecursionSolved

(* What holds of an outline when it holds of the list below its first item  *)
(* and of the rest of it, holds of every outline.                           *)
LEMMA OutlineInduction ==
  ASSUME NEW Holds,
         \A s \in Outlines :
            (s # <<>> => Head(s).items \in Holds /\ Tail(s) \in Holds) => s \in Holds
  PROVE  \A s \in Outlines : s \in Holds
<1>1. PICK size \in [Outlines -> Nat] :
         /\ \A s \in Outlines : size[s] < MaxItems + 1
         /\ \A s \in Outlines \ {<<>>} :
              /\ Head(s).items \in Outlines /\ size[Head(s).items] < size[s]
              /\ Tail(s) \in Outlines /\ size[Tail(s)] < size[s]
  BY OutlinesEnd
<1> DEFINE Fails == {s \in Outlines : s \notin Holds}
           Sizes == {n \in Nat : \E s \in Fails : size[s] = n}
<1> SUFFICES ASSUME Fails # {} PROVE FALSE
  OBVIOUS
<1>2. Sizes # {}
  BY <1>1
<1>3. PICK n \in Sizes : \A k \in Sizes : n <= k
  BY <1>2, LeastNumber
<1>4. PICK s \in Fails : size[s] = n
  BY <1>3
<1>5. s # <<>> /\ (Head(s).items \notin Holds \/ Tail(s) \notin Holds)
  BY <1>4
<1> QED
  BY <1>1, <1>3, <1>4, <1>5

(* The listing of an outline is its first item, what is below it and the    *)
(* rest of it.                                                              *)
LEMMA OutlineUnfolds ==
  /\ Outline \in [Outlines -> Seq(Listed)]
  /\ \A s \in Outlines :
       Outline[s] = IF s = <<>> THEN <<>>
                    ELSE <<Head(s)>> \o Outline[Head(s).items] \o Outline[Tail(s)]
<1> DEFINE step == [x \in (Outlines \ {<<>>}) \X Seq(Listed) \X Seq(Listed) |-> <<Head(x[1])>> \o x[2] \o x[3]]
<1>1. <<>> \in Seq(Listed) /\ step \in [(Outlines \ {<<>>}) \X Seq(Listed) \X Seq(Listed) -> Seq(Listed)]
  BY DEF Listed
<1>2. PICK f : RecursionSolved(f, Seq(Listed), <<>>, step)
  <2> HIDE DEF step
  <2> QED
    BY <1>1, RecursionsExist
<1>3. \A s \in Outlines \ {<<>>} : Head(s).items \in Outlines /\ Tail(s) \in Outlines
  BY OutlinesEnd
<1>4. ASSUME NEW s \in Outlines
      PROVE  f[s] = IF s = <<>> THEN <<>> ELSE <<Head(s)>> \o f[Head(s).items] \o f[Tail(s)]
  BY <1>2, <1>3 DEF RecursionSolved
<1> HIDE DEF step
<1> DEFINE Unfolds(g) == g = [s \in Outlines |-> IF s = <<>> THEN <<>> ELSE <<Head(s)>> \o g[Head(s).items] \o g[Tail(s)]]
           h == CHOOSE g : Unfolds(g)
<1>5. Unfolds(f)
  BY <1>2, <1>4 DEF RecursionSolved
<1>6. Unfolds(h)
  <2> HIDE DEF Unfolds
  <2> QED
    BY <1>5
<1>7. Outline = h
  BY DEF Outline
<1> HIDE DEF h
<1>8. DOMAIN h = Outlines
  BY <1>6
<1>9. \A s \in Outlines : h[s] = IF s = <<>> THEN <<>> ELSE <<Head(s)>> \o h[Head(s).items] \o h[Tail(s)]
  BY <1>6
<1> DEFINE Listings == {s \in Outlines : h[s] \in Seq(Listed)}
<1>10. ASSUME NEW s \in Outlines, s # <<>> => Head(s).items \in Listings /\ Tail(s) \in Listings
       PROVE  s \in Listings
  <2> HIDE DEF Unfolds
  <2>1. CASE s = <<>>
    BY <1>1, <1>9, <2>1
  <2>2. CASE s # <<>>
    <3>1. Head(s) \in Listed /\ h[Head(s).items] \in Seq(Listed) /\ h[Tail(s)] \in Seq(Listed)
      BY <1>10, <2>2 DEF Listed
    <3>2. \A x \in Listed, A, B \in Seq(Listed) : <<x>> \o A \o B \in Seq(Listed)
      OBVIOUS
    <3>3. h[s] \in Seq(Listed)
      BY <1>9, <2>2, <3>1, <3>2
    <3> QED
      BY <3>3
  <2> QED
    BY <2>1, <2>2
<1>11. \A s \in Outlines : s \in Listings
  <2> HIDE DEF Listings
  <2> QED
    BY <1>10, OutlineInduction
<1>12. h = [s \in Outlines |-> h[s]]
  BY <1>6
<1> QED
  BY <1>7, <1>9, <1>11, <1>12

(* The search of an outline: its first item, what is below it, the rest.    *)
LEMMA SearchUnfolds ==
  ASSUME NEW m, NEW s \in Outlines
  PROVE  FirstLaunchHref(m, s) =
           IF s = <<>> THEN NoHref
           ELSE IF HrefOf(m, Head(s).ref) # NoHref THEN HrefOf(m, Head(s).ref)
           ELSE IF FirstLaunchHref(m, Head(s).items) # NoHref THEN FirstLaunchHref(m, Head(s).items)
           ELSE FirstLaunchHref(m, Tail(s))
<1> DEFINE own(u) == HrefOf(m, Head(u).ref)
           V == {own(u) : u \in Outlines \ {<<>>}} \cup {NoHref}
           step == [x \in (Outlines \ {<<>>}) \X V \X V |->
                      IF own(x[1]) # NoHref THEN own(x[1]) ELSE IF x[2] # NoHref THEN x[2] ELSE x[3]]
           value(f, u) == IF u = <<>> THEN NoHref
                          ELSE IF own(u) # NoHref THEN own(u)
                          ELSE IF f[Head(u).items] # NoHref THEN f[Head(u).items] ELSE f[Tail(u)]
           Unfolds(g) == g = [u \in Outlines |-> value(g, u)]
           h == CHOOSE g : Unfolds(g)
<1>1. NoHref \in V /\ step \in [(Outlines \ {<<>>}) \X V \X V -> V]
  <2> HIDE DEF own
  <2> QED
    OBVIOUS
<1>2. PICK f : RecursionSolved(f, V, NoHref, step)
  <2> HIDE DEF step, V
  <2> QED
    BY <1>1, RecursionsExist
<1>3. \A u \in Outlines \ {<<>>} : Head(u).items \in Outlines /\ Tail(u) \in Outlines
  BY OutlinesEnd
<1>4. \A u \in Outlines : f[u] = value(f, u)
  <2> HIDE DEF own, V
  <2> QED
    BY <1>2, <1>3 DEF RecursionSolved
<1>5. Unfolds(f)
  <2> HIDE DEF value, V, step
  <2> QED
    BY <1>2, <1>4 DEF RecursionSolved
<1>6. Unfolds(h)
  <2> HIDE DEF Unfolds
  <2> QED
    BY <1>5
<1>7. \A u : FirstLaunchHref(m, u) = h[u]
  BY DEF FirstLaunchHref
<1> HIDE DEF h, own
<1>8. h[s] = value(h, s)
  <2> HIDE DEF value
  <2> QED
    BY <1>6
<1> QED
  BY <1>7, <1>8 DEF own

(* The first file of a list is that of its first part, or else the second's. *)
LEMMA FindsInParts ==
  ASSUME NEW m, NEW A \in Seq(Listed), NEW B \in Seq(Listed), NEW a, NEW b, Finds(m, A, a), Finds(m, B, b)
  PROVE  Finds(m, A \o B, IF a # NoHref THEN a ELSE b)
<1> DEFINE href(x) == HrefOf(m, x.ref)
<1>1. /\ Len(A) \in Nat /\ Len(B) \in Nat /\ DOMAIN A = 1 .. Len(A) /\ DOMAIN B = 1 .. Len(B)
      /\ DOMAIN (A \o B) = 1 .. Len(A) + Len(B)
      /\ \A i \in 1 .. Len(A) : (A \o B)[i] = A[i]
      /\ \A i \in 1 .. Len(B) : (A \o B)[Len(A) + i] = B[i]
      /\ \A i \in 1 .. Len(A) + Len(B) : i \in 1 .. Len(A) \/ (i - Len(A) \in 1 .. Len(B) /\ (A \o B)[i] = B[i - Len(A)])
  OBVIOUS
<1>2. CASE a # NoHref
  <2>1. PICK i \in DOMAIN A : href(A[i]) = a /\ \A j \in 1 .. i - 1 : href(A[j]) = NoHref
    BY <1>2 DEF Finds
  <2>2. i \in DOMAIN (A \o B) /\ (A \o B)[i] = A[i] /\ \A j \in 1 .. i - 1 : (A \o B)[j] = A[j]
    BY <1>1
  <2> HIDE DEF href
  <2>3. href((A \o B)[i]) = a /\ \A j \in 1 .. i - 1 : href((A \o B)[j]) = NoHref
    BY <2>1, <2>2
  <2> QED
    BY <1>2, <2>2, <2>3 DEF Finds, href
<1>3. CASE a = NoHref
  <2>1. \A i \in 1 .. Len(A) : href((A \o B)[i]) = NoHref
    BY <1>1, <1>3 DEF Finds
  <2>2. CASE b = NoHref
    <3>1. \A i \in 1 .. Len(B) : href(B[i]) = NoHref
      BY <1>1, <2>2 DEF Finds
    <3> HIDE DEF href
    <3>2. \A i \in 1 .. Len(A) + Len(B) : href((A \o B)[i]) = NoHref
      BY <1>1, <2>1, <3>1
    <3> QED
      BY <1>1, <1>3, <2>2, <3>2 DEF Finds, href
  <2>3. CASE b # NoHref
    <3>1. PICK i \in DOMAIN B : href(B[i]) = b /\ \A j \in 1 .. i - 1 : href(B[j]) = NoHref
      BY <2>3 DEF Finds
    <3> HIDE DEF href
    <3>2. Len(A) + i \in DOMAIN (A \o B) /\ href((A \o B)[Len(A) + i]) = b
      BY <1>1, <3>1
    <3>3. ASSUME NEW j \in 1 .. Len(A) + i - 1 PROVE href((A \o B)[j]) = NoHref
      <4>1. CASE j \in 1 .. Len(A)
        BY <2>1, <4>1
      <4>2. CASE j \notin 1 .. Len(A)
        <5>1. j \in 1 .. Len(A) + Len(B) /\ j - Len(A) \in 1 .. i - 1
          BY <1>1, <4>2
        <5> QED
          BY <1>1, <3>1, <4>2, <5>1
      <4> QED
        BY <4>1, <4>2
    <3>4. \E k \in DOMAIN (A \o B) : href((A \o B)[k]) = b /\ \A j \in 1 .. k - 1 : href((A \o B)[j]) = NoHref
      BY <3>2, <3>3
    <3> QED
      BY <1>3, <2>3, <3>4 DEF Finds, href
  <2> QED
    BY <2>2, <2>3
<1> QED
  BY <1>2, <1>3

(* The search finds the first file of the listing.                          *)
LEMMA SearchFinds == ASSUME NEW m PROVE \A s \in Outlines : Finds(m, Outline[s], FirstLaunchHref(m, s))
<1> DEFINE Searched == {s \in Outlines : Finds(m, Outline[s], FirstLaunchHref(m, s))}
<1>1. ASSUME NEW s \in Outlines, s # <<>> => Head(s).items \in Searched /\ Tail(s) \in Searched
      PROVE  s \in Searched
  <2>1. CASE s = <<>>
    <3>1. Outline[s] = <<>> /\ FirstLaunchHref(m, s) = NoHref
      BY <2>1, OutlineUnfolds, SearchUnfolds
    <3>2. Finds(m, <<>>, NoHref)
      BY DEF Finds
    <3> QED
      BY <3>1, <3>2
  <2>2. CASE s # <<>>
    <3> DEFINE x == Head(s)
               A == Outline[x.items]
               B == Outline[Tail(s)]
               own == HrefOf(m, x.ref)
               a == FirstLaunchHref(m, x.items)
               b == FirstLaunchHref(m, Tail(s))
    <3>1. x.items \in Outlines /\ Tail(s) \in Outlines /\ x \in Listed /\ Finds(m, A, a) /\ Finds(m, B, b)
      BY <1>1, <2>2 DEF Listed
    <3>2. A \in Seq(Listed) /\ B \in Seq(Listed) /\ Outline[s] = <<x>> \o A \o B
      BY <2>2, <3>1, OutlineUnfolds
    <3>3. FirstLaunchHref(m, s) = IF own # NoHref THEN own ELSE IF a # NoHref THEN a ELSE b
      BY <2>2, SearchUnfolds
    <3> HIDE DEF x, A, B, own, a, b
    <3>4. Finds(m, <<x>>, own)
      BY DEF Finds, own
    <3>5. <<x>> \in Seq(Listed) /\ <<x>> \o A \in Seq(Listed)
      BY <3>1, <3>2
    <3>6. Finds(m, <<x>> \o A, IF own # NoHref THEN own ELSE a)
      BY <3>1, <3>2, <3>4, <3>5, FindsInParts
    <3>7. Finds(m, <<x>> \o A \o B, IF (IF own # NoHref THEN own ELSE a) # NoHref
                                     THEN IF own # NoHref THEN own ELSE a ELSE b)
      BY <3>1, <3>2, <3>5, <3>6, FindsInParts
    <3>8. FirstLaunchHref(m, s) = IF (IF own # NoHref THEN own ELSE a) # NoHref
                                  THEN IF own # NoHref THEN own ELSE a ELSE b
      BY <3>3
    <3> QED
      BY <3>2, <3>7, <3>8
  <2> QED
    BY <2>1, <2>2
<1> HIDE DEF Searched
<1>2. \A s \in Outlines : s \in Searched
  BY <1>1, OutlineInduction
<1> QED
  BY <1>2 DEF Searched

(* What the parser returns opens the first file of the manifest's outline.  *)
LEMMA ParserLaunchesFirst ==
  ASSUME NEW m \in Manifests, NEW parsed \in ParseManifest(m) PROVE LaunchesFirst(m, parsed.launch)
<1>1. \A o, p \in DefaultOrganization(m) : o = p /\ o.items \in Outlines
  BY ScormAssumption DEF DefaultOrganization, FirstWhere
<1>2. PICK o \in DefaultOrganization(m) :
         parsed.launch \in IF FirstLaunchHref(m, o.items) # NoHref THEN {FirstLaunchHref(m, o.items)}
                           ELSE FallbackLaunchHref(m)
  BY DEF ParseManifest
<1>3. o.items \in Outlines /\ Finds(m, Outline[o.items], FirstLaunchHref(m, o.items))
  BY <1>1, SearchFinds
<1>4. DOMAIN Outline[o.items] \subseteq Nat
  BY <1>3, OutlineUnfolds
<1> DEFINE Href(i) == HrefOf(m, Outline[o.items][i].ref)
<1>5. ASSUME NEW i \in DOMAIN Outline[o.items], Href(i) # NoHref, \A j \in 1 .. i - 1 : Href(j) = NoHref
      PROVE  parsed.launch = Href(i)
  <2>1. PICK k \in DOMAIN Outline[o.items] :
           Href(k) = FirstLaunchHref(m, o.items) /\ Href(k) # NoHref /\ \A j \in 1 .. k - 1 : Href(j) = NoHref
    BY <1>3, <1>5 DEF Finds
  <2> HIDE DEF Href
  <2>2. k \in Nat /\ i \in Nat /\ ~(i < k) /\ ~(k < i)
    <3>1. DOMAIN Outline[o.items] \subseteq Nat \ {0}
      BY <1>3, OutlineUnfolds, RowIds
    <3> QED
      BY <1>5, <2>1, <3>1
  <2>3. k = i
    BY <2>2
  <2> QED
    BY <1>2, <2>1, <2>3
<1> QED
  BY <1>1, <1>5 DEF LaunchesFirst

-----------------------------------------------------------------------------
(* Attempts at packages                                                    *)

ElementNames == {"lesson_status", "completion_status", "success_status", "session_time", "suspend_data"}
ElementValues == Nat \cup {"passed", "completed", "failed", "incomplete", "browsed", "not attempted", "unknown",
                           "page 1", "page 2", ""}

(* Elements stored for an attempt: a session time is a number.              *)
Elements ==
  {c \in UNION {[K -> ElementValues] : K \in SUBSET ElementNames} :
     "session_time" \in DOMAIN c => c["session_time"] \in Nat}

(* An attempt's session is the one its elements report, 0 when they do not. *)
AttemptRows ==
  {a \in [cmi : Elements, lesson_status : ElementValues, session : Nat, total : Nat,
          complete : BOOLEAN, completed_at : BOOLEAN] :
     a.session = In(a.cmi, "session_time", 0) /\ a.complete = a.completed_at}

(* A package's row is what the parser returned of its manifest.             *)
PackagesFit ==
  /\ package = [x \in Packages |-> package[x]]
  /\ \A x \in Packages : package[x] # {} => x \in imported
  /\ \A x \in Packages : \A p \in package[x] :
       \E m \in Manifests, published \in BOOLEAN : \E parsed \in ParseManifest(m) :
         p = [manifest |-> m, version |-> parsed.version, launch |-> parsed.launch, published |-> published]

AttemptsFit ==
  /\ attempts \in [Packages -> [Users -> Seq(AttemptRows)]]
  /\ \A x \in Packages, u \in Users :
       /\ package[x] = {} => attempts[x][u] = <<>>
       /\ \A n \in DOMAIN attempts[x][u] : n < Len(attempts[x][u]) => attempts[x][u][n].complete

(* A launch goes by attempts that are complete, and a commit that nobody    *)
(* overtook by the elements there are, of an attempt that is open.          *)
Follows(e, own) ==
  /\ e.kind = "LaunchScormPackage" /\ e.number > 1 =>
       e.number - 1 \in DOMAIN own /\ own[e.number - 1].complete
  /\ e.kind # "LaunchScormPackage" =>
       /\ e.number \in DOMAIN own
       /\ ~e.overtaken => /\ e.read = own[e.number].cmi
                          /\ own[e.number].complete => e.kind = "FinishScormAttempt"

PlayFields == {"kind", "who", "on", "number", "sent", "read", "overtaken"}
PlayFits(e) ==
  /\ DOMAIN e = PlayFields
  /\ e.kind # "idle" =>
       /\ e.kind \in {"LaunchScormPackage", "CommitScormRuntime", "FinishScormAttempt"}
       /\ e.on \in imported /\ e.on \in Packages /\ e.who \in Users
       /\ e.number \in Nat \ {0} /\ e.read \in Elements
       /\ package[e.on] # {} => Follows(e, attempts[e.on][e.who])

PlayersFit == DOMAIN player = Players /\ \A s \in Players : PlayFits(player[s])

ScormInv == PackagesFit /\ AttemptsFit /\ PlayersFit

(* An organisation without packages satisfies the invariant.                *)
LEMMA ScormStarts == ScormInit => ScormInv
<1> SUFFICES ASSUME ScormInit PROVE ScormInv
  OBVIOUS
<1>1. PackagesFit
  BY DEF ScormInit, PackagesFit
<1>2. AttemptsFit
  BY DEF ScormInit, AttemptsFit
<1>3. DOMAIN Waiting = PlayFields /\ Waiting.kind = "idle"
  BY DEF Waiting, PlayFields
<1>4. PlayersFit
  BY <1>3 DEF ScormInit, PlayersFit, PlayFits
<1> QED
  BY <1>1, <1>2, <1>4 DEF ScormInv

(* No elements are elements.                                                *)
LEMMA NoElements == <<>> \in Elements
<1>1. <<>> \in Seq(ElementValues) /\ DOMAIN <<>> = {}
  BY EmptySeq
<1>2. <<>> \in [{} -> ElementValues]
  BY <1>1, LenProperties
<1> QED
  BY <1>1, <1>2 DEF Elements

(* Names and values of the elements that are written.                       *)
LEMMA WritableElements ==
  ASSUME NEW version, NEW k \in DOMAIN Writable(version)
  PROVE  k \in ElementNames /\ Writable(version)[k] \subseteq ElementValues /\ (k = "session_time" => Writable(version)[k] = Nat)
<1> DEFINE status == {"passed", "completed", "failed", "incomplete", "browsed", "not attempted"}
           completion == {"completed", "incomplete", "not attempted", "unknown"}
           success == {"passed", "failed", "unknown"}
<1>1. /\ status \subseteq ElementValues /\ completion \subseteq ElementValues /\ success \subseteq ElementValues
      /\ Nat \subseteq ElementValues /\ Texts \subseteq ElementValues
  BY DEF ElementValues, Texts
<1>2. CASE version = "1.2"
  <2>1. Writable(version) = [lesson_status |-> status, session_time |-> Nat, suspend_data |-> Texts]
    BY <1>2 DEF Writable
  <2> HIDE DEF status
  <2>2. k \in {"lesson_status", "session_time", "suspend_data"}
    BY <2>1
  <2>3. /\ Writable(version)["lesson_status"] = status /\ Writable(version)["session_time"] = Nat
        /\ Writable(version)["suspend_data"] = Texts
    BY <2>1
  <2> QED
    BY <1>1, <2>2, <2>3 DEF ElementNames
<1>3. CASE version # "1.2"
  <2>1. Writable(version) = [completion_status |-> completion, success_status |-> success,
                             session_time |-> Nat, suspend_data |-> Texts]
    BY <1>3 DEF Writable
  <2> HIDE DEF completion, success
  <2>2. k \in {"completion_status", "success_status", "session_time", "suspend_data"}
    BY <2>1
  <2>3. /\ Writable(version)["completion_status"] = completion /\ Writable(version)["success_status"] = success
        /\ Writable(version)["session_time"] = Nat /\ Writable(version)["suspend_data"] = Texts
    BY <2>1
  <2> QED
    BY <1>1, <2>2, <2>3 DEF ElementNames
<1> QED
  BY <1>2, <1>3

(* What is sent is written over what was read.                              *)
LEMMA MergeFits ==
  ASSUME NEW read \in Elements, NEW sent, NEW version,
         \A k \in DOMAIN sent : ValidateElement(version, k, sent[k])
  PROVE  /\ Merge(sent, read) \in Elements
         /\ DOMAIN read \subseteq DOMAIN Merge(sent, read)
         /\ "session_time" \notin DOMAIN sent => In(Merge(sent, read), "session_time", 0) = In(read, "session_time", 0)
<1> DEFINE c == Merge(sent, read)
<1>1. c = [k \in DOMAIN sent \cup DOMAIN read |-> IF k \in DOMAIN sent THEN sent[k] ELSE read[k]]
  BY DEF Merge
<1>2. ASSUME NEW k \in DOMAIN sent
      PROVE  k \in ElementNames /\ sent[k] \in ElementValues /\ (k = "session_time" => sent[k] \in Nat)
  <2>1. k \in DOMAIN Writable(version) /\ sent[k] \in Writable(version)[k]
    BY DEF ValidateElement
  <2> QED
    BY <2>1, WritableElements
<1>3. /\ DOMAIN read \subseteq ElementNames /\ \A k \in DOMAIN read : read[k] \in ElementValues
      /\ "session_time" \in DOMAIN read => read["session_time"] \in Nat
  BY DEF Elements
<1> HIDE DEF c
<1>4. DOMAIN c = DOMAIN sent \cup DOMAIN read /\ c \in [DOMAIN c -> ElementValues]
  BY <1>1, <1>2, <1>3
<1>5. c \in Elements
  BY <1>1, <1>2, <1>3, <1>4 DEF Elements
<1>6. "session_time" \notin DOMAIN sent => In(c, "session_time", 0) = In(read, "session_time", 0)
  BY <1>1, <1>4 DEF In
<1> QED
  BY <1>4, <1>5, <1>6 DEF c

(* A commit keeps what was read, adds to the time when it reports another   *)
(* time than the stored one, at most what it reports, and leaves a complete *)
(* attempt complete.                                                        *)
FoldsInto(a, merged, b) ==
  /\ b \in AttemptRows /\ b.cmi = merged
  /\ a.complete => b.complete
  /\ a.session = In(a.cmi, "session_time", 0) /\ b.session = In(merged, "session_time", 0)
  /\ b.session = a.session => b.total = a.total
  /\ b.total <= a.total + b.session

LEMMA CommitFolds ==
  ASSUME NEW a \in AttemptRows, NEW merged \in Elements, NEW version, NEW force \in BOOLEAN
  PROVE  FoldsInto(a, merged, CommitRow(a, merged, Summarize(version, merged), force))
<1> DEFINE st == Summarize(version, merged)
           b == CommitRow(a, merged, st, force)
<1>1. \A k \in ElementNames : In(merged, k, "") \in ElementValues
  <2>1. "" \in ElementValues
    BY DEF ElementValues
  <2> QED
    BY <2>1 DEF Elements, In
<1>2. In(merged, "session_time", 0) \in Nat
  BY DEF Elements, In
<1>3. st.lesson_status \in ElementValues /\ st.session = In(merged, "session_time", 0) /\ st.complete \in BOOLEAN
  <2>1. \A x, y \in ElementValues : DeriveLessonStatus(x, y) \in ElementValues
    BY DEF DeriveLessonStatus, ElementValues
  <2>2. {"lesson_status", "completion_status", "success_status"} \subseteq ElementNames
    BY DEF ElementNames
  <2>3. /\ In(merged, "lesson_status", "") \in ElementValues
        /\ DeriveLessonStatus(In(merged, "completion_status", ""), In(merged, "success_status", "")) \in ElementValues
    BY <1>1, <2>1, <2>2
  <2>4. IsComplete(version, merged) \in BOOLEAN
    <3>1. CASE version = "1.2"
      BY <3>1 DEF IsComplete
    <3>2. CASE version # "1.2"
      BY <3>2 DEF IsComplete
    <3> QED
      BY <3>1, <3>2
  <2> QED
    BY <2>3, <2>4 DEF Summarize
<1> HIDE DEF st
<1>4. a \in [cmi : Elements, lesson_status : ElementValues, session : Nat, total : Nat,
             complete : BOOLEAN, completed_at : BOOLEAN]
      /\ a.session = In(a.cmi, "session_time", 0) /\ a.complete = a.completed_at
  BY DEF AttemptRows
<1>5. /\ b = [cmi |-> b.cmi, lesson_status |-> b.lesson_status, session |-> b.session, total |-> b.total,
              complete |-> b.complete, completed_at |-> b.completed_at]
      /\ b.cmi = merged /\ b.lesson_status = st.lesson_status /\ b.session = st.session
      /\ b.total = a.total + (IF st.session >= a.session THEN st.session - a.session ELSE st.session)
      /\ b.complete = (a.complete \/ st.complete \/ force)
      /\ b.completed_at = (a.completed_at \/ st.complete \/ force)
  <2> DEFINE more == IF st.session >= a.session THEN st.session - a.session ELSE st.session
             done == a.complete \/ st.complete \/ force
             dated == a.completed_at \/ st.complete \/ force
  <2>1. b = [a EXCEPT !.cmi = merged, !.lesson_status = st.lesson_status, !.total = a.total + more,
                      !.session = st.session, !.complete = done, !.completed_at = dated]
    BY <1>4 DEF CommitRow
  <2> HIDE DEF b, more, done, dated
  <2>2. /\ b = [cmi |-> b.cmi, lesson_status |-> b.lesson_status, session |-> b.session, total |-> b.total,
                complete |-> b.complete, completed_at |-> b.completed_at]
        /\ b.cmi = merged /\ b.lesson_status = st.lesson_status /\ b.session = st.session
        /\ b.total = a.total + more /\ b.complete = done /\ b.completed_at = dated
    BY <1>4, <2>1
  <2> QED
    BY <2>2 DEF more, done, dated
<1> HIDE DEF b
<1>6. b.total \in Nat /\ (b.session = a.session => b.total = a.total) /\ b.total <= a.total + b.session
  BY <1>2, <1>3, <1>4, <1>5
<1>7. b \in AttemptRows
  <2>1. b.complete \in BOOLEAN /\ b.completed_at \in BOOLEAN /\ b.complete = b.completed_at
    BY <1>3, <1>4, <1>5
  <2>2. b \in [cmi : Elements, lesson_status : ElementValues, session : Nat, total : Nat,
               complete : BOOLEAN, completed_at : BOOLEAN]
    BY <1>2, <1>3, <1>5, <1>6, <2>1
  <2> QED
    BY <1>3, <1>5, <2>1, <2>2 DEF AttemptRows
<1>8. a.complete => b.complete
  BY <1>5
<1> QED
  BY <1>3, <1>4, <1>5, <1>6, <1>7, <1>8 DEF b, st, FoldsInto

(* The invariant gives the property.                                        *)
LEMMA ScormSound == ASSUME ScormInv PROVE LaunchesSound
<1>1. \A x \in Packages, u \in Users, n \in 1 .. MaxAttempts :
         n < Len(attempts[x][u]) => attempts[x][u][n].complete
  <2>1. \A x \in Packages, u \in Users : attempts[x][u] \in Seq(AttemptRows)
    BY DEF ScormInv, AttemptsFit
  <2>2. \A s \in Seq(AttemptRows), n \in 1 .. MaxAttempts : n < Len(s) => n \in DOMAIN s
    OBVIOUS
  <2> QED
    BY <2>1, <2>2 DEF ScormInv, AttemptsFit
<1>2. \A x \in Packages : package[x] = {} => ScormPackageReport(x) = {}
  <2>1. DOMAIN <<>> = {}
    BY EmptySeq
  <2> QED
    BY <2>1 DEF ScormInv, AttemptsFit, ScormPackageReport, Range
<1>3. \A u \in Users : \A a \in ListMyScormAttempts(u) : a.complete = a.completed_at
  <2>1. ASSUME NEW x \in Packages, NEW u \in Users, NEW a \in Range(attempts[x][u]) PROVE a \in AttemptRows
    <3>1. attempts[x][u] \in Seq(AttemptRows) /\ \E n \in DOMAIN attempts[x][u] : a = attempts[x][u][n]
      BY DEF ScormInv, AttemptsFit, Range
    <3> QED
      BY <3>1, RowIds
  <2> QED
    BY <2>1 DEF ListMyScormAttempts, AttemptRows
<1>4. ASSUME NEW x \in Packages, NEW p \in package[x]
      PROVE  LaunchesFirst(p.manifest, p.launch) /\ (p.published => p.launch \in ListScormCatalog)
  <2>1. LaunchesFirst(p.manifest, p.launch)
    <3>1. PICK m \in Manifests, published \in BOOLEAN : \E parsed \in ParseManifest(m) :
             p = [manifest |-> m, version |-> parsed.version, launch |-> parsed.launch, published |-> published]
      BY DEF ScormInv, PackagesFit
    <3>2. p.manifest = m /\ \E parsed \in ParseManifest(m) : p.launch = parsed.launch
      BY <3>1
    <3> QED
      BY <3>2, ParserLaunchesFirst
  <2> QED
    BY <2>1 DEF ListScormCatalog, Published
<1> QED
  BY <1>1, <1>2, <1>3, <1>4 DEF LaunchesSound

(* Requests that read rows a step leaves alone still follow them.           *)
LEMMA PlayersStay ==
  ASSUME PlayersFit, UNCHANGED player, imported \subseteq imported',
         \A x \in imported \cap Packages : package'[x] # {} => package[x] # {} /\ attempts'[x] = attempts[x]
  PROVE  PlayersFit'
<1>1. ASSUME NEW s \in Players, player[s].kind # "idle", package'[player[s].on] # {}
      PROVE  Follows(player[s], attempts'[player[s].on][player[s].who])
  BY <1>1 DEF PlayersFit, PlayFits
<1> QED
  BY <1>1 DEF PlayersFit, PlayFits

(* A package's row is written: a new one, or the one there is.              *)
LEMMA PackageWritten ==
  ASSUME ScormInv, NEW x \in Packages, NEW row, row # {}, package' = [package EXCEPT ![x] = row],
         x \in imported', imported \subseteq imported', package[x] = {} => x \notin imported,
         UNCHANGED <<attempts, player>>,
         \A p \in row : \E m \in Manifests, published \in BOOLEAN : \E parsed \in ParseManifest(m) :
            p = [manifest |-> m, version |-> parsed.version, launch |-> parsed.launch, published |-> published]
  PROVE  ScormInv'
<1>1. PackagesFit /\ AttemptsFit /\ PlayersFit
  BY DEF ScormInv
<1>2. /\ package' = [y \in Packages |-> package'[y]]
      /\ \A y \in Packages : package'[y] = IF y = x THEN row ELSE package[y]
  BY <1>1 DEF PackagesFit
<1>3. PackagesFit'
  BY <1>1, <1>2 DEF PackagesFit
<1>4. AttemptsFit'
  BY <1>1, <1>2 DEF AttemptsFit
<1>5. PlayersFit'
  BY <1>1, <1>2, PlayersStay
<1> QED
  BY <1>3, <1>4, <1>5 DEF ScormInv

(* Authors' handlers keep the invariant.                                    *)
LEMMA AuthoringKeeps ==
  ASSUME ScormInv, NEW x \in Packages,
         CreateScormPackage(x) \/ UpdateScormPackage(x) \/ SetScormPackagePublished(x) \/ DeleteScormPackage(x)
  PROVE  ScormInv'
<1>0. PackagesFit /\ AttemptsFit /\ PlayersFit
  BY DEF ScormInv
<1>1. CASE CreateScormPackage(x)
  <2>1. PICK m \in Manifests, published \in BOOLEAN :
           NewPackage(m, published) # {} /\ package' = [package EXCEPT ![x] = NewPackage(m, published)]
    BY <1>1 DEF CreateScormPackage, AuthorPackage
  <2>2. /\ x \notin imported /\ imported' = imported \cup {x} /\ UNCHANGED <<attempts, player>>
    BY <1>1 DEF CreateScormPackage, AuthorPackage
  <2>3. \A p \in NewPackage(m, published) : \E parsed \in ParseManifest(m) :
           p = [manifest |-> m, version |-> parsed.version, launch |-> parsed.launch, published |-> published]
    BY DEF NewPackage
  <2> QED
    BY <2>1, <2>2, <2>3, PackageWritten
<1>2. CASE UpdateScormPackage(x) \/ SetScormPackagePublished(x)
  <2>1. PICK published \in BOOLEAN :
           package' = [package EXCEPT ![x] = {[p EXCEPT !.published = published] : p \in package[x]}]
    BY <1>2 DEF UpdateScormPackage, SetScormPackagePublished, SetPublished, AuthorPackage
  <2>2. package[x] # {} /\ UNCHANGED <<imported, attempts, player>>
    BY <1>2 DEF UpdateScormPackage, SetScormPackagePublished, SetPublished, AuthorPackage
  <2> DEFINE row == {[p EXCEPT !.published = published] : p \in package[x]}
  <2>3. ASSUME NEW p \in row
        PROVE  \E m \in Manifests, flag \in BOOLEAN : \E parsed \in ParseManifest(m) :
                 p = [manifest |-> m, version |-> parsed.version, launch |-> parsed.launch, published |-> flag]
    <3>1. PICK q \in package[x] : p = [q EXCEPT !.published = published]
      OBVIOUS
    <3>2. PICK m \in Manifests, flag \in BOOLEAN : \E parsed \in ParseManifest(m) :
             q = [manifest |-> m, version |-> parsed.version, launch |-> parsed.launch, published |-> flag]
      BY <1>0 DEF PackagesFit
    <3>3. PICK parsed \in ParseManifest(m) :
             q = [manifest |-> m, version |-> parsed.version, launch |-> parsed.launch, published |-> flag]
      BY <3>2
    <3>4. p = [manifest |-> m, version |-> parsed.version, launch |-> parsed.launch, published |-> published]
      BY <3>1, <3>3
    <3> QED
      BY <3>4
  <2>4. row # {} /\ x \in imported
    BY <1>0, <2>2 DEF PackagesFit
  <2> HIDE DEF row
  <2> QED
    BY <2>1, <2>2, <2>3, <2>4, PackageWritten DEF row
<1>3. CASE DeleteScormPackage(x)
  <2>1. /\ package' = [package EXCEPT ![x] = {}] /\ UNCHANGED <<imported, player>>
        /\ attempts' = [attempts EXCEPT ![x] = [u \in Users |-> <<>>]]
    BY <1>3 DEF DeleteScormPackage, AuthorPackage
  <2>2. /\ package' = [y \in Packages |-> package'[y]]
        /\ \A y \in Packages : package'[y] = IF y = x THEN {} ELSE package[y]
    BY <1>0, <2>1 DEF PackagesFit
  <2>3. /\ attempts' = [y \in Packages |-> attempts'[y]]
        /\ \A y \in Packages : attempts'[y] = IF y = x THEN [u \in Users |-> <<>>] ELSE attempts[y]
    BY <1>0, <2>1 DEF AttemptsFit
  <2>4. PackagesFit'
    BY <1>0, <2>1, <2>2 DEF PackagesFit
  <2>5. AttemptsFit'
    <3>1. <<>> \in Seq(AttemptRows) /\ DOMAIN <<>> = {}
      BY EmptySeq
    <3>2. \A y \in Packages : attempts'[y] \in [Users -> Seq(AttemptRows)]
      <4>1. [u \in Users |-> <<>>] \in [Users -> Seq(AttemptRows)]
        BY <3>1
      <4> QED
        BY <1>0, <2>3, <4>1 DEF AttemptsFit
    <3>3. attempts' \in [Packages -> [Users -> Seq(AttemptRows)]]
      BY <2>3, <3>2
    <3>4. ASSUME NEW y \in Packages, NEW u \in Users
          PROVE  /\ package'[y] = {} => attempts'[y][u] = <<>>
                 /\ \A n \in DOMAIN attempts'[y][u] : n < Len(attempts'[y][u]) => attempts'[y][u][n].complete
      <4>1. CASE y = x
        BY <2>2, <2>3, <3>1, <4>1
      <4>2. CASE y # x
        BY <1>0, <2>2, <2>3, <4>2 DEF AttemptsFit
      <4> QED
        BY <4>1, <4>2
    <3> QED
      BY <3>3, <3>4 DEF AttemptsFit
  <2>6. PlayersFit'
    BY <1>0, <2>1, <2>2, <2>3, PlayersStay
  <2> QED
    BY <2>4, <2>5, <2>6 DEF ScormInv
<1> QED
  BY <1>1, <1>2, <1>3

(* A learner's request begins or ends.                                      *)
LEMMA PlayerBegins ==
  ASSUME ScormInv, NEW s \in Players, NEW e, PlayFits(e), player' = [player EXCEPT ![s] = e],
         UNCHANGED <<package, imported, attempts>>
  PROVE  ScormInv'
<1>1. PlayersFit'
  BY DEF ScormInv, PlayersFit, PlayFits
<1> QED
  BY <1>1 DEF ScormInv, PackagesFit, AttemptsFit

(* What a request has read when it begins.                                  *)
LEMMA PlayingKeeps ==
  ASSUME ScormInv, NEW s \in Players, NEW u \in Learners,
         LaunchScormPackage(s, u) \/ CommitScormRuntime(s, u) \/ FinishScormAttempt(s, u)
  PROVE  ScormInv'
<1>0. PackagesFit /\ AttemptsFit /\ PlayersFit /\ u \in Users
  BY ScormAssumption DEF ScormInv
<1>1. PICK handler, x, number, sent, read :
         /\ Play(s, handler, u, x, number, sent, read)
         /\ x \in Packages /\ x \in imported /\ number \in Nat \ {0} /\ read \in Elements
         /\ \/ /\ handler = "LaunchScormPackage"
               /\ number > 1 => number - 1 \in DOMAIN attempts[x][u] /\ attempts[x][u][number - 1].complete
            \/ /\ handler \in {"CommitScormRuntime", "FinishScormAttempt"}
               /\ number \in DOMAIN attempts[x][u] /\ read = attempts[x][u][number].cmi
               /\ attempts[x][u][number].complete => handler = "FinishScormAttempt"
  <2>1. CASE LaunchScormPackage(s, u)
    <3>1. PICK x \in Published :
             /\ Len(attempts[x][u]) > 0 => attempts[x][u][Len(attempts[x][u])].complete
             /\ Play(s, "LaunchScormPackage", u, x, Len(attempts[x][u]) + 1, <<>>, <<>>)
      BY <2>1 DEF LaunchScormPackage
    <3>2. x \in Packages /\ x \in imported /\ attempts[x][u] \in Seq(AttemptRows)
      BY <1>0 DEF Published, PackagesFit, AttemptsFit
    <3>3. \A r \in Seq(AttemptRows) : Len(r) \in Nat /\ (Len(r) > 0 => Len(r) \in DOMAIN r)
      OBVIOUS
    <3> PICK n : n = Len(attempts[x][u])
      OBVIOUS
    <3>4. /\ n + 1 \in Nat \ {0} /\ n + 1 - 1 = n /\ Play(s, "LaunchScormPackage", u, x, n + 1, <<>>, <<>>)
          /\ n + 1 > 1 => n \in DOMAIN attempts[x][u] /\ attempts[x][u][n].complete
      BY <3>1, <3>2, <3>3
    <3> QED
      BY <3>2, <3>4, NoElements
  <2>2. CASE CommitScormRuntime(s, u) \/ FinishScormAttempt(s, u)
    <3>1. PICK handler \in {"CommitScormRuntime", "FinishScormAttempt"}, y \in OwnAttempts(u), sent \in Batches :
             /\ Play(s, handler, u, y[1], y[2], sent, attempts[y[1]][u][y[2]].cmi)
             /\ attempts[y[1]][u][y[2]].complete => handler = "FinishScormAttempt"
      BY <2>2 DEF CommitScormRuntime, FinishScormAttempt
    <3> PICK x, n : x = y[1] /\ n = y[2]
      OBVIOUS
    <3>2. x \in Packages /\ n \in 1 .. MaxAttempts /\ n <= Len(attempts[x][u]) /\ attempts[x][u] \in Seq(AttemptRows)
      BY <1>0 DEF OwnAttempts, AttemptsFit
    <3>3. n \in Nat \ {0} /\ n \in DOMAIN attempts[x][u] /\ attempts[x][u] # <<>>
      BY <3>2
    <3>4. x \in imported
      BY <1>0, <3>2, <3>3 DEF PackagesFit, AttemptsFit
    <3>5. attempts[x][u][n] \in AttemptRows
      BY <3>2, <3>3, RowIds
    <3>6. attempts[x][u][n].cmi \in Elements
      BY <3>5 DEF AttemptRows
    <3> QED
      BY <3>1, <3>2, <3>3, <3>4, <3>6
  <2> QED
    BY <2>1, <2>2
<1> PICK e : e = [Waiting EXCEPT !.kind = handler, !.who = u, !.on = x, !.number = number, !.sent = sent, !.read = read]
  OBVIOUS
<1>2. /\ player' = [player EXCEPT ![s] = e] /\ UNCHANGED <<package, imported, attempts>>
  BY <1>1 DEF Play
<1>3. /\ DOMAIN e = PlayFields /\ e.kind = handler /\ e.who = u /\ e.on = x /\ e.number = number
      /\ e.read = read /\ e.overtaken = FALSE
  BY DEF Waiting, PlayFields
<1>4. PlayFits(e)
  BY <1>0, <1>1, <1>3 DEF PlayFits, Follows
<1> QED
  BY <1>2, <1>4, PlayerBegins

(* A learner's rows of a package are written by one request: the others of  *)
(* the learner are overtaken.                                               *)
WritesRows(s, x, u, written) ==
  /\ x = player[s].on /\ u = player[s].who /\ x \in Packages /\ u \in Users /\ package[x] # {}
  /\ written \in Seq(AttemptRows) /\ attempts' = [attempts EXCEPT ![x][u] = written]
  /\ Overtake(s) /\ UNCHANGED <<package, imported>>
  /\ \A n \in DOMAIN written : n < Len(written) => written[n].complete
  /\ \A n \in DOMAIN attempts[x][u] :
       n \in DOMAIN written /\ (attempts[x][u][n].complete => written[n].complete)

LEMMA RowsWritten ==
  ASSUME ScormInv, NEW s \in Players, NEW x, NEW u, NEW written, WritesRows(s, x, u, written)
  PROVE  ScormInv' /\ player'[s] = Waiting
<1> USE DEF WritesRows
<1>0. PackagesFit /\ AttemptsFit /\ PlayersFit
  BY DEF ScormInv
<1>1. /\ attempts' \in [Packages -> [Users -> Seq(AttemptRows)]]
      /\ \A y \in Packages, v \in Users : attempts'[y][v] = IF y = x /\ v = u THEN written ELSE attempts[y][v]
  BY <1>0 DEF AttemptsFit
<1>2. AttemptsFit'
  <2>1. ASSUME NEW y \in Packages, NEW v \in Users, package[y] = {} PROVE attempts'[y][v] = <<>>
    BY <1>0, <1>1, <2>1 DEF AttemptsFit
  <2>2. ASSUME NEW y \in Packages, NEW v \in Users
        PROVE  \A n \in DOMAIN attempts'[y][v] : n < Len(attempts'[y][v]) => attempts'[y][v][n].complete
    <3>1. CASE y = x /\ v = u
      BY <1>1, <3>1
    <3>2. CASE ~(y = x /\ v = u)
      BY <1>0, <1>1, <3>2 DEF AttemptsFit
    <3> QED
      BY <3>1, <3>2
  <2> QED
    BY <1>1, <2>1, <2>2 DEF AttemptsFit
<1>3. PackagesFit'
  BY <1>0 DEF PackagesFit
<1>4. DOMAIN Waiting = PlayFields /\ Waiting.kind = "idle"
  BY DEF Waiting, PlayFields
<1>5. ASSUME NEW o \in Players PROVE PlayFits(player[o])'
  <2> PICK e : e = player[o]
    OBVIOUS
  <2>0. PlayFits(e)
    BY <1>0 DEF PlayersFit
  <2>1. CASE o = s
    <3>1. player'[o] = Waiting
      BY <2>1 DEF Overtake
    <3> QED
      BY <1>4, <3>1 DEF PlayFits
  <2>2. CASE o # s /\ e.on = x /\ e.who = u
    <3> PICK f : f = [e EXCEPT !.overtaken = TRUE]
      OBVIOUS
    <3>1. player'[o] = f
      BY <2>2 DEF Overtake
    <3>2. /\ DOMAIN f = PlayFields /\ f.kind = e.kind /\ f.on = e.on /\ f.who = e.who /\ f.number = e.number
          /\ f.read = e.read /\ f.overtaken
      BY <2>0 DEF PlayFits, PlayFields
    <3>3. e.kind # "idle" => Follows(f, written)
      BY <2>0, <2>2, <3>2 DEF PlayFits, Follows
    <3> QED
      BY <1>1, <2>0, <2>2, <3>1, <3>2, <3>3 DEF PlayFits
  <2>3. CASE o # s /\ ~(e.on = x /\ e.who = u)
    <3>1. player'[o] = e
      BY <2>3 DEF Overtake
    <3>2. e.kind # "idle" => attempts'[e.on][e.who] = attempts[e.on][e.who]
      BY <1>1, <2>0, <2>3 DEF PlayFits
    <3> QED
      BY <2>0, <3>1, <3>2 DEF PlayFits
  <2> QED
    BY <2>1, <2>2, <2>3
<1>6. PlayersFit' /\ player'[s] = Waiting
  BY <1>5 DEF PlayersFit, Overtake
<1> QED
  BY <1>2, <1>3, <1>6 DEF ScormInv

(* What a step does to an attempt that no package's deletion takes along.    *)
Folded(x, u, n) ==
  LET a == attempts[x][u][n]
      b == attempts'[x][u][n]
  IN  /\ a.complete => b.complete
      /\ b.session = a.session => b.total = a.total
      /\ b # a => \E s \in Players :
            /\ Writes(s, x, u, n)
            /\ b.total <= a.total + b.session
            /\ \/ "session_time" \in DOMAIN player[s].sent
               \/ b.session = In(player[s].read, "session_time", 0)
            /\ player[s].overtaken \/
                 /\ DOMAIN a.cmi \subseteq DOMAIN b.cmi
                 /\ b.total > a.total => "session_time" \in DOMAIN player[s].sent
                 /\ a.complete => player[s].kind = "FinishScormAttempt"
AllFolded ==
  \A x \in Packages, u \in Users, n \in 1 .. MaxAttempts :
    n <= Len(attempts[x][u]) /\ package'[x] # {} => Folded(x, u, n)

(* A step that leaves the attempts alone, or takes them with their package.  *)
LEMMA AttemptsRest ==
  ASSUME \A x \in Packages : package'[x] # {} => attempts'[x] = attempts[x]
  PROVE  AllFolded
BY DEF AllFolded, Folded

(* A launch starts the next attempt.                                        *)
LEMMA StartKeeps ==
  ASSUME ScormInv, NEW s \in Players, StartAttempt(s)
  PROVE  ScormInv' /\ AllFolded
<1>0. AttemptsFit /\ PlayFits(player[s])
  BY DEF ScormInv, PlayersFit
<1>k. PICK x, u, number, own :
         x = player[s].on /\ u = player[s].who /\ number = player[s].number /\ own = attempts[x][u]
  OBVIOUS
<1> DEFINE new == [cmi |-> <<>>, lesson_status |-> "not attempted", session |-> 0, total |-> 0,
                   complete |-> FALSE, completed_at |-> FALSE]
<1>1. /\ player[s].kind = "LaunchScormPackage" /\ package[x] # {} /\ Len(own) = number - 1
      /\ attempts' = [attempts EXCEPT ![x][u] = Append(@, new)] /\ Overtake(s)
      /\ UNCHANGED <<package, imported>>
  BY <1>k DEF StartAttempt
<1>2. /\ x \in Packages /\ u \in Users /\ number \in Nat \ {0}
      /\ number > 1 => number - 1 \in DOMAIN own /\ own[number - 1].complete
  BY <1>0, <1>1, <1>k DEF PlayFits, Follows
<1>3. new \in AttemptRows
  <2>1. In(<<>>, "session_time", 0) = 0
    <3>1. DOMAIN <<>> = {}
      BY EmptySeq
    <3> QED
      BY <3>1 DEF In
  <2>2. "not attempted" \in ElementValues
    BY DEF ElementValues
  <2> QED
    BY <2>1, <2>2, NoElements DEF AttemptRows
<1> HIDE DEF new
<1>4. own \in Seq(AttemptRows)
  BY <1>0, <1>2, <1>k DEF AttemptsFit
<1>w. PICK written : written = Append(own, new)
  OBVIOUS
<1>5. /\ written \in Seq(AttemptRows) /\ Len(written) = number /\ DOMAIN own = 1 .. number - 1
      /\ DOMAIN written = 1 .. number /\ \A n \in DOMAIN own : written[n] = own[n]
  <2>1. \A r \in Seq(AttemptRows), a \in AttemptRows :
           /\ Append(r, a) \in Seq(AttemptRows) /\ Len(r) \in Nat /\ Len(Append(r, a)) = Len(r) + 1
           /\ DOMAIN r = 1 .. Len(r) /\ DOMAIN Append(r, a) = 1 .. Len(r) + 1
           /\ \A n \in DOMAIN r : Append(r, a)[n] = r[n]
    OBVIOUS
  <2>2. Len(own) + 1 = number
    BY <1>1, <1>2
  <2> QED
    BY <1>1, <1>3, <1>4, <1>w, <2>1, <2>2
<1>6. attempts' = [attempts EXCEPT ![x][u] = written]
  BY <1>0, <1>1, <1>2, <1>k, <1>w DEF AttemptsFit
<1>7. ASSUME NEW n \in DOMAIN written, n < Len(written) PROVE written[n].complete
  <2>0. n \in Nat /\ n < number /\ n >= 1 /\ Len(own) = number - 1
    BY <1>1, <1>2, <1>5, <1>7
  <2>1. n \in DOMAIN own /\ written[n] = own[n]
    BY <1>2, <1>5, <2>0
  <2>2. CASE n = number - 1
    <3>1. number > 1
      BY <1>2, <1>5, <2>1, <2>2
    <3> QED
      BY <1>2, <2>1, <2>2, <3>1
  <2>3. CASE n # number - 1
    <3>1. n < Len(own)
      BY <1>2, <2>0, <2>3
    <3>2. own[n].complete
      BY <1>0, <1>2, <1>k, <2>1, <3>1 DEF AttemptsFit
    <3> QED
      BY <2>1, <3>2
  <2> QED
    BY <2>2, <2>3
<1>8. \A n \in DOMAIN own : n \in DOMAIN written /\ (own[n].complete => written[n].complete)
  BY <1>2, <1>5, <1>k
<1>9. ScormInv'
  <2>1. WritesRows(s, x, u, written)
    BY <1>1, <1>2, <1>5, <1>6, <1>7, <1>8, <1>k DEF WritesRows
  <2> QED
    BY <2>1, RowsWritten
<1>10. \A y \in Packages, v \in Users : attempts'[y][v] = IF y = x /\ v = u THEN written ELSE attempts[y][v]
  BY <1>0, <1>2, <1>6, <1>k DEF AttemptsFit
<1>11. ASSUME NEW y \in Packages, NEW v \in Users, NEW n \in 1 .. MaxAttempts, n <= Len(attempts[y][v])
       PROVE  attempts'[y][v][n] = attempts[y][v][n]
  <2>1. CASE y = x /\ v = u
    <3>1. n \in DOMAIN own
      <4>1. n \in Nat /\ n >= 1 /\ n <= Len(own)
        BY <1>11, <1>k, <2>1
      <4> QED
        BY <1>1, <1>2, <1>5, <4>1
    <3> QED
      BY <1>5, <1>10, <1>k, <2>1, <3>1
  <2>2. CASE ~(y = x /\ v = u)
    BY <1>10, <2>2
  <2> QED
    BY <2>1, <2>2
<1>12. AllFolded
  BY <1>11 DEF AllFolded, Folded
<1> QED
  BY <1>9, <1>12

(* A commit folds into the attempt it is about, and changes no other.       *)
LEMMA ApplyKeeps ==
  ASSUME ScormInv, NEW s \in Players, ApplyScormCommit(s)
  PROVE  ScormInv' /\ AllFolded
<1>0. AttemptsFit /\ PlayFits(player[s])
  BY DEF ScormInv, PlayersFit
<1>e. PICK e : e = player[s]
  OBVIOUS
<1>k. PICK x, u, number, kind, merged, own :
         /\ x = e.on /\ u = e.who /\ number = e.number /\ kind = e.kind
         /\ merged = Merge(e.sent, e.read) /\ own = attempts[x][u]
  OBVIOUS
<1>1. PICK p \in package[x] :
         /\ \A k \in DOMAIN e.sent : ValidateElement(p.version, k, e.sent[k])
         /\ attempts' = [attempts EXCEPT ![x][u][number] =
                           CommitRow(@, merged, Summarize(p.version, merged), kind = "FinishScormAttempt")]
  BY <1>e, <1>k DEF ApplyScormCommit
<1>2. /\ kind \in {"CommitScormRuntime", "FinishScormAttempt"} /\ number <= Len(own) /\ package[x] # {}
      /\ Overtake(s) /\ UNCHANGED <<package, imported>>
  BY <1>e, <1>k DEF ApplyScormCommit
<1>3. /\ x \in Packages /\ u \in Users /\ number \in Nat \ {0} /\ e.read \in Elements /\ number \in DOMAIN own
      /\ ~e.overtaken => /\ e.read = own[number].cmi
                         /\ own[number].complete => kind = "FinishScormAttempt"
  BY <1>0, <1>2, <1>e, <1>k DEF PlayFits, Follows
<1>4. own \in Seq(AttemptRows) /\ own[number] \in AttemptRows
  <2>1. own \in Seq(AttemptRows)
    BY <1>0, <1>3, <1>k DEF AttemptsFit
  <2> QED
    BY <1>3, <2>1, RowIds
<1>a. PICK a, b : a = own[number] /\ b = CommitRow(a, merged, Summarize(p.version, merged), kind = "FinishScormAttempt")
  OBVIOUS
<1>5. /\ merged \in Elements /\ DOMAIN e.read \subseteq DOMAIN merged
      /\ "session_time" \notin DOMAIN e.sent => In(merged, "session_time", 0) = In(e.read, "session_time", 0)
  BY <1>1, <1>3, <1>k, MergeFits
<1>6. /\ b \in AttemptRows /\ b.cmi = merged /\ (a.complete => b.complete)
      /\ a.session = In(a.cmi, "session_time", 0) /\ b.session = In(merged, "session_time", 0)
      /\ b.session = a.session => b.total = a.total
      /\ b.total <= a.total + b.session
  <2>1. a \in AttemptRows /\ merged \in Elements
    BY <1>4, <1>5, <1>a
  <2>2. \A force \in BOOLEAN : FoldsInto(a, merged, CommitRow(a, merged, Summarize(p.version, merged), force))
    BY <2>1, CommitFolds
  <2>3. CASE kind = "FinishScormAttempt"
    <3>1. b = CommitRow(a, merged, Summarize(p.version, merged), TRUE)
      BY <1>a, <2>3
    <3>2. FoldsInto(a, merged, CommitRow(a, merged, Summarize(p.version, merged), TRUE))
      BY <2>2
    <3> QED
      BY <3>1, <3>2 DEF FoldsInto
  <2>4. CASE kind # "FinishScormAttempt"
    <3>1. b = CommitRow(a, merged, Summarize(p.version, merged), FALSE)
      BY <1>a, <2>4
    <3>2. FoldsInto(a, merged, CommitRow(a, merged, Summarize(p.version, merged), FALSE))
      BY <2>2
    <3> QED
      BY <3>1, <3>2 DEF FoldsInto
  <2> QED
    BY <2>3, <2>4
<1>w. PICK written : written = [own EXCEPT ![number] = b]
  OBVIOUS
<1>7. /\ written \in Seq(AttemptRows) /\ DOMAIN written = DOMAIN own /\ Len(written) = Len(own)
      /\ \A n \in DOMAIN own : written[n] = IF n = number THEN b ELSE own[n]
  <2>1. /\ written \in Seq(AttemptRows) /\ DOMAIN written = DOMAIN own
        /\ \A n \in DOMAIN own : written[n] = IF n = number THEN b ELSE own[n]
    BY <1>3, <1>4, <1>6, <1>w, SeqExcept
  <2>2. \A r, w \in Seq(AttemptRows) : DOMAIN r = DOMAIN w => Len(r) = Len(w)
    OBVIOUS
  <2> QED
    BY <1>4, <2>1, <2>2
<1>8. attempts' = [attempts EXCEPT ![x][u] = written]
  BY <1>0, <1>1, <1>3, <1>a, <1>k, <1>w DEF AttemptsFit
<1>9. \A n \in DOMAIN own : n \in DOMAIN written /\ (own[n].complete => written[n].complete)
  BY <1>6, <1>7, <1>a
<1>10. \A n \in DOMAIN written : n < Len(written) => written[n].complete
  <2>1. \A n \in DOMAIN own : n < Len(own) => own[n].complete
    BY <1>0, <1>3, <1>k DEF AttemptsFit
  <2>2. \A n \in DOMAIN written : n \in DOMAIN own /\ (own[n].complete => written[n].complete)
    BY <1>7, <1>9
  <2>3. Len(written) = Len(own)
    BY <1>7
  <2> QED
    BY <2>1, <2>2, <2>3
<1>11. ScormInv' /\ player'[s] = Waiting
  <2>1. WritesRows(s, x, u, written)
    BY <1>2, <1>3, <1>7, <1>8, <1>9, <1>10, <1>e, <1>k DEF WritesRows
  <2> QED
    BY <2>1, RowsWritten
<1>12. /\ \A y \in Packages, v \in Users : attempts'[y][v] = IF y = x /\ v = u THEN written ELSE attempts[y][v]
       /\ attempts[x][u] = own
  BY <1>0, <1>3, <1>8, <1>k DEF AttemptsFit
<1>13. Folded(x, u, number)
  <2>1. attempts'[x][u][number] = b /\ attempts[x][u][number] = a
    BY <1>3, <1>7, <1>12, <1>a
  <2>2. Writes(s, x, u, number)
    BY <1>11, <1>e, <1>k DEF Writes
  <2>3. a.total \in Nat /\ b.total \in Nat
    BY <1>4, <1>6, <1>a DEF AttemptRows
  <2>4. ~e.overtaken => e.read = a.cmi /\ (a.complete => kind = "FinishScormAttempt")
    BY <1>3, <1>a
  <2>5. ~e.overtaken => DOMAIN a.cmi \subseteq DOMAIN b.cmi
    BY <1>5, <1>6, <2>4
  <2>6. ~e.overtaken => (b.total > a.total => "session_time" \in DOMAIN e.sent)
    <3>1. ASSUME ~e.overtaken, "session_time" \notin DOMAIN e.sent PROVE b.total = a.total
      BY <1>5, <1>6, <2>4, <3>1
    <3> QED
      BY <2>3, <3>1
  <2> QED
    BY <1>5, <1>6, <1>e, <1>k, <2>1, <2>2, <2>4, <2>5, <2>6 DEF Folded
<1>14. ASSUME NEW y \in Packages, NEW v \in Users, NEW n \in 1 .. MaxAttempts,
              n <= Len(attempts[y][v]), ~(y = x /\ v = u /\ n = number)
       PROVE  attempts'[y][v][n] = attempts[y][v][n]
  <2>1. CASE y = x /\ v = u
    <3>1. n \in DOMAIN own /\ n # number
      BY <1>4, <1>12, <1>14, <2>1
    <3>2. attempts'[y][v] = written /\ attempts[y][v] = own
      BY <1>12, <2>1
    <3> QED
      BY <1>7, <3>1, <3>2
  <2>2. CASE ~(y = x /\ v = u)
    BY <1>12, <2>2
  <2> QED
    BY <2>1, <2>2
<1>15. AllFolded
  <2>1. ASSUME NEW y \in Packages, NEW v \in Users, NEW n \in 1 .. MaxAttempts, n <= Len(attempts[y][v])
        PROVE  Folded(y, v, n)
    <3>1. CASE y = x /\ v = u /\ n = number
      BY <1>13, <3>1
    <3>2. CASE ~(y = x /\ v = u /\ n = number)
      <4>1. attempts'[y][v][n] = attempts[y][v][n]
        BY <1>14, <2>1, <3>2
      <4> QED
        BY <4>1 DEF Folded
    <3> QED
      BY <3>1, <3>2
  <2> QED
    BY <2>1 DEF AllFolded
<1> QED
  BY <1>11, <1>15

(* Every handler of packages and attempts keeps the invariant and folds.    *)
LEMMA ScormSteps == ASSUME ScormInv, [ScormNext]_scormVars PROVE ScormInv' /\ AllFolded
<1>0. AttemptsFit
  BY DEF ScormInv
<1>1. CASE UNCHANGED <<package, imported, attempts, player>>
  <2>1. ScormInv'
    BY <1>1 DEF ScormInv, PackagesFit, AttemptsFit, PlayersFit, PlayFits
  <2> QED
    BY <1>1, <2>1, AttemptsRest
<1>2. CASE UNCHANGED scormVars \/ \E u \in Users : UpdateScormSettings(u)
  BY <1>1, <1>2 DEF scormVars, UpdateScormSettings
<1>3. ASSUME NEW x \in Packages,
             CreateScormPackage(x) \/ UpdateScormPackage(x) \/ SetScormPackagePublished(x) \/ DeleteScormPackage(x)
      PROVE  ScormInv' /\ AllFolded
  <2>1. CASE UNCHANGED attempts
    BY <1>3, <2>1, AuthoringKeeps, AttemptsRest
  <2>2. CASE DeleteScormPackage(x)
    <3>1. package' = [package EXCEPT ![x] = {}] /\ attempts' = [attempts EXCEPT ![x] = [u \in Users |-> <<>>]]
      BY <2>2 DEF DeleteScormPackage, AuthorPackage
    <3>2. package'[x] = {} /\ \A y \in Packages : y # x => attempts'[y] = attempts[y]
      BY <3>1 DEF ScormInv, PackagesFit, AttemptsFit
    <3>3. AllFolded
      BY <3>2, AttemptsRest
    <3> QED
      BY <1>3, <3>3, AuthoringKeeps
  <2> QED
    BY <1>3, <2>1, <2>2 DEF CreateScormPackage, UpdateScormPackage, SetScormPackagePublished, SetPublished
<1>4. ASSUME NEW s \in Players, NEW u \in Learners,
             LaunchScormPackage(s, u) \/ CommitScormRuntime(s, u) \/ FinishScormAttempt(s, u)
      PROVE  ScormInv' /\ AllFolded
  <2>1. UNCHANGED attempts
    BY <1>4 DEF LaunchScormPackage, CommitScormRuntime, FinishScormAttempt, Play
  <2> QED
    BY <1>4, <2>1, PlayingKeeps, AttemptsRest
<1>5. ASSUME NEW s \in Players, Refuse(s) PROVE ScormInv' /\ AllFolded
  <2>1. player' = [player EXCEPT ![s] = Waiting] /\ UNCHANGED <<package, imported, attempts>>
    BY <1>5 DEF Refuse
  <2>2. PlayFits(Waiting)
    BY DEF PlayFits, Waiting, PlayFields
  <2> QED
    BY <2>1, <2>2, PlayerBegins, AttemptsRest
<1> QED
  BY <1>2, <1>3, <1>4, <1>5, StartKeeps, ApplyKeeps DEF ScormNext

(* A learner's attempts follow one another, and a launch opens the first    *)
(* file of the manifest's outline, whatever packages and requests there are. *)
THEOREM LaunchesAreSound == ScormSpec => []LaunchesSound
<1>1. ScormInv => LaunchesSound
  BY ScormSound
<1> QED
  BY <1>1, ScormStarts, ScormSteps, PTL DEF ScormSpec

(* A commit folds into the attempt, whatever packages, elements and requests *)
(* there are: the stored reading counts once however the commits cross, and  *)
(* what was sent before is kept unless another request overtook this one.    *)
THEOREM CommitsAreFolded == ScormSpec => CommitsFold
<1>1. ScormInv /\ [ScormNext]_scormVars => ScormInv' /\ [AllFolded]_scormVars
  BY ScormSteps
<1> QED
  BY <1>1, ScormStarts, PTL DEF ScormSpec, CommitsFold, AllFolded, Folded
=============================================================================
