-------------------------------- MODULE Scorm --------------------------------
(***************************************************************************)
(* SCORM packages of an organisation and the learners' attempts at them.   *)
(* The runtime in the learner's browser sends CMI elements; a request      *)
(* reads the attempt, folds the elements into the map it read, summarises  *)
(* the map and writes the row. Requests of one attempt may cross.          *)
(***************************************************************************)
EXTENDS Tenancy, ScormManifest

CONSTANTS
    ScormOnPlatform,   \* the platform's flag
    Packages,
    Manifests,         \* the manifests teachers upload
    Batches,           \* the elements the runtimes send in a request
    Learners,          \* bound: the users who learn
    Players,           \* bound: learners' requests at a time
    MaxAttempts,       \* bound: attempts at a package by a learner
    MaxSends           \* bound: commits and finishes asked for

ASSUME ScormAssumption ==
    /\ Learners \subseteq Users
    /\ \A m \in Manifests : DOMAIN m.orgs \subseteq Nat
    /\ \A m \in Manifests : \A i \in DOMAIN m.orgs : m.orgs[i].items \in Outlines

VARIABLES
    scormEnabled,   \* the organisation's flag
    package,        \* package -> its row: {} before and after
    imported,       \* packages that have existed
    attempts,       \* package -> learner -> attempts, by number
    player,         \* learners' requests
    sends           \* commits and finishes asked for so far

scormVars == <<scormEnabled, package, imported, attempts, player, sends>>

-----------------------------------------------------------------------------
(* CMI elements                                                            *)

Texts == {"page 1", "page 2"}

\* Elements of both versions a runtime may write, and the values allowed.
Writable(version) ==
    IF version = "1.2"
    THEN [lesson_status |-> {"passed", "completed", "failed", "incomplete", "browsed", "not attempted"},
          session_time |-> Nat, suspend_data |-> Texts]
    ELSE [completion_status |-> {"completed", "incomplete", "not attempted", "unknown"},
          success_status |-> {"passed", "failed", "unknown"},
          session_time |-> Nat, suspend_data |-> Texts]

\* An element unknown to the version, one only the platform writes
\* (total_time, student_id, ...) and a value out of range are refused.
ValidateElement(version, k, v) == k \in DOMAIN Writable(version) /\ v \in Writable(version)[k]

In(cmi, k, none) == IF k \in DOMAIN cmi THEN cmi[k] ELSE none

DeriveLessonStatus(completion, success) ==
    CASE success \in {"passed", "failed"} -> success
      [] success \notin {"passed", "failed"} /\ completion \in {"completed", "not attempted"} -> completion
      [] OTHER -> "incomplete"

\* 1.2 has one status; 2004 is complete by completion or by a judged success.
IsComplete(version, cmi) ==
    IF version = "1.2"
    THEN In(cmi, "lesson_status", "") \in {"passed", "completed", "failed"}
    ELSE \/ In(cmi, "completion_status", "") = "completed"
         \/ In(cmi, "success_status", "") \in {"passed", "failed"}

\* The columns reports read, from the map of elements.
Summarize(version, cmi) ==
    [lesson_status |-> IF version = "1.2" THEN In(cmi, "lesson_status", "")
                       ELSE DeriveLessonStatus(In(cmi, "completion_status", ""),
                                               In(cmi, "success_status", "")),
     session |-> In(cmi, "session_time", 0),
     complete |-> IsComplete(version, cmi)]

-----------------------------------------------------------------------------
(* Packages                                                                *)

ScormGate == ScormOnPlatform /\ scormEnabled
Published == {x \in Packages : \E p \in package[x] : p.published}

AuthorPackage(handler, row, x) ==
    /\ handler \in team /\ ScormGate /\ Authors # {}
    /\ package' = [package EXCEPT ![x] = row]
    /\ UNCHANGED <<tenancyVars, scormEnabled, player, sends>>

NewPackage(m, published) ==
    {[manifest |-> m, version |-> parsed.version, launch |-> parsed.launch, published |-> published]
        : parsed \in ParseManifest(m)}

CreateScormPackage(x) ==
    /\ x \notin imported /\ imported' = imported \union {x}
    /\ \E m \in Manifests, published \in BOOLEAN :
          NewPackage(m, published) # {} /\ AuthorPackage("CreateScormPackage", NewPackage(m, published), x)
    /\ UNCHANGED attempts

\* Both take a flag: the update overwrites it with everything else.
SetPublished(handler, x) ==
    /\ package[x] # {}
    /\ \E published \in BOOLEAN :
          AuthorPackage(handler, {[p EXCEPT !.published = published] : p \in package[x]}, x)
    /\ UNCHANGED <<imported, attempts>>
UpdateScormPackage(x) == SetPublished("UpdateScormPackage", x)
SetScormPackagePublished(x) == SetPublished("SetScormPackagePublished", x)

\* The attempts go with their package.
DeleteScormPackage(x) ==
    /\ package[x] # {}
    /\ AuthorPackage("DeleteScormPackage", {}, x)
    /\ attempts' = [attempts EXCEPT ![x] = [u \in Users |-> <<>>]]
    /\ UNCHANGED imported

UpdateScormSettings(u) ==
    /\ "UpdateScormSettings" \in team /\ HasRole(u, {"owner"}) /\ u \in Owners
    /\ scormEnabled' \in BOOLEAN
    /\ UNCHANGED <<tenancyVars, package, imported, attempts, player, sends>>

-----------------------------------------------------------------------------
(* A learner's request reads                                               *)

Waiting == [kind |-> "idle", who |-> NoPlan, on |-> NoPlan, number |-> 0, sent |-> <<>>,
            read |-> <<>>, overtaken |-> FALSE]

Play(s, handler, u, x, number, sent, read) ==
    /\ handler \in team /\ ScormGate /\ Resolves(u)
    /\ player[s].kind = "idle"
    /\ player' = [player EXCEPT ![s] = [Waiting EXCEPT !.kind = handler, !.who = u, !.on = x,
                                          !.number = number, !.sent = sent, !.read = read]]
    /\ sends' = IF handler = "LaunchScormPackage" THEN sends ELSE sends + 1
    /\ sends' <= MaxSends
    /\ UNCHANGED <<tenancyVars, scormEnabled, package, imported, attempts>>

\* mutant: a new attempt although the last one is open
LaunchAnew(s, u) ==
    \E x \in Published :
        /\ Len(attempts[x][u]) < MaxAttempts
        /\ Play(s, "LaunchScormPackage", u, x, Len(attempts[x][u]) + 1, <<>>, <<>>)

\* StartOrResume: the last attempt is resumed while it is open, which writes
\* nothing; else the next number is taken.
LaunchScormPackage(s, u) ==
    \E x \in Published :
        LET n == Len(attempts[x][u])
        IN  /\ n > 0 => attempts[x][u][n].complete
            /\ n < MaxAttempts
            /\ Play(s, "LaunchScormPackage", u, x, n + 1, <<>>, <<>>)

\* A package that was unpublished does not end its attempts.
OwnAttempts(u) == {y \in Packages \X (1 .. MaxAttempts) : y[2] <= Len(attempts[y[1]][u])}

CommitScormRuntime(s, u) ==
    \E y \in OwnAttempts(u), sent \in Batches :
        LET a == attempts[y[1]][u][y[2]]
        IN  /\ sent # <<>> /\ ~a.complete
            /\ Play(s, "CommitScormRuntime", u, y[1], y[2], sent, a.cmi)

\* Finishing again, and with nothing to send, is allowed.
FinishScormAttempt(s, u) ==
    \E y \in OwnAttempts(u), sent \in Batches :
        Play(s, "FinishScormAttempt", u, y[1], y[2], sent, attempts[y[1]][u][y[2]].cmi)

-----------------------------------------------------------------------------
(* ... and writes                                                          *)

\* What other requests of the attempt have read is old from now on.
Overtake(s) ==
    player' = [o \in Players |->
                 IF o = s THEN Waiting
                 ELSE IF player[o].on = player[s].on /\ player[o].who = player[s].who
                 THEN [player[o] EXCEPT !.overtaken = TRUE] ELSE player[o]]

\* The row is inserted with the defaults of its columns; the number may have
\* been taken by another launch, and the package be deleted.
StartAttempt(s) ==
    LET e == player[s]
        new == [cmi |-> <<>>, lesson_status |-> "not attempted", session |-> 0, total |-> 0,
                complete |-> FALSE, completed_at |-> FALSE]
    IN  /\ e.kind = "LaunchScormPackage" /\ package[e.on] # {} /\ IsMember(e.who)
        /\ Len(attempts[e.on][e.who]) = e.number - 1
        /\ attempts' = [attempts EXCEPT ![e.on][e.who] = Append(@, new)]
        /\ Overtake(s)
        /\ UNCHANGED <<tenancyVars, scormEnabled, package, imported, sends>>

\* The UPDATE: a reading below the stored one is taken for a new session.
CommitRow(a, cmi, st, force) ==
    [a EXCEPT !.cmi = cmi, !.lesson_status = st.lesson_status,
              !.total = @ + IF st.session >= a.session THEN st.session - a.session ELSE st.session,
              !.session = st.session,
              !.complete = @ \/ st.complete \/ force,
              !.completed_at = @ \/ st.complete \/ force]

\* The elements sent are written over those the request has read.
Merge(sent, read) ==
    [k \in DOMAIN sent \union DOMAIN read |-> IF k \in DOMAIN sent THEN sent[k] ELSE read[k]]

\* mutant: the growth is counted from the reading the request has read
ApplyReadGrowth(s) ==
    LET e == player[s]
        merged == Merge(e.sent, e.read)
        grown == In(merged, "session_time", 0) - In(e.read, "session_time", 0)
    IN  /\ e.kind \in {"CommitScormRuntime", "FinishScormAttempt"}
        /\ e.number <= Len(attempts[e.on][e.who])
        /\ \E p \in package[e.on] :
              /\ \A k \in DOMAIN e.sent : ValidateElement(p.version, k, e.sent[k])
              /\ attempts' = [attempts EXCEPT ![e.on][e.who][e.number] =
                                [CommitRow(@, merged, Summarize(p.version, merged),
                                           e.kind = "FinishScormAttempt")
                                   EXCEPT !.total = attempts[e.on][e.who][e.number].total + grown]]
        /\ Overtake(s)
        /\ UNCHANGED <<tenancyVars, scormEnabled, package, imported, sends>>

\* applyScormCommit: an element that is refused refuses the request.
ApplyScormCommit(s) ==
    LET e == player[s]
        merged == Merge(e.sent, e.read)
    IN  /\ e.kind \in {"CommitScormRuntime", "FinishScormAttempt"}
        /\ e.number <= Len(attempts[e.on][e.who])
        /\ \E p \in package[e.on] :
              /\ \A k \in DOMAIN e.sent : ValidateElement(p.version, k, e.sent[k])
              /\ attempts' = [attempts EXCEPT ![e.on][e.who][e.number] =
                                CommitRow(@, merged, Summarize(p.version, merged),
                                          e.kind = "FinishScormAttempt")]
        /\ Overtake(s)
        /\ UNCHANGED <<tenancyVars, scormEnabled, package, imported, sends>>

\* 400, 404, 500, or a caller who went away.
Refuse(s) ==
    /\ player[s].kind # "idle"
    /\ player' = [player EXCEPT ![s] = Waiting]
    /\ UNCHANGED <<tenancyVars, scormEnabled, package, imported, attempts, sends>>

-----------------------------------------------------------------------------
ScormInit ==
    /\ scormEnabled = TRUE
    /\ package = [x \in Packages |-> {}]
    /\ imported = {}
    /\ attempts = [x \in Packages |-> [u \in Users |-> <<>>]]
    /\ sends = 0
    /\ player = [s \in Players |-> Waiting]

ScormNext ==
    \/ \E x \in Packages : \/ CreateScormPackage(x) \/ UpdateScormPackage(x)
                           \/ SetScormPackagePublished(x) \/ DeleteScormPackage(x)
    \/ \E u \in Users : UpdateScormSettings(u)
    \/ \E s \in Players : \/ \E u \in Learners : \/ LaunchScormPackage(s, u) \/ CommitScormRuntime(s, u)
                                                 \/ FinishScormAttempt(s, u)
                          \/ StartAttempt(s) \/ ApplyScormCommit(s) \/ Refuse(s)

ScormSpec == ScormInit /\ [][ScormNext]_scormVars

-----------------------------------------------------------------------------
(* Properties                                                              *)

\* The views: the learner's own attempts, and the report of a package.
ListMyScormAttempts(u) == UNION {Range(attempts[x][u]) : x \in Packages}
ScormPackageReport(x) == UNION {Range(attempts[x][u]) : u \in Users}
ListScormCatalog == {p.launch : p \in UNION {package[x] : x \in Published}}

\* However launches, endings and deletions cross, a learner's attempts at a
\* package follow one another: only the last one is open, and none outlives
\* its package. What a report shows as complete has its date. A launch opens
\* the first file of the outline of the package's manifest.
LaunchesSound ==
    /\ \A x \in Packages, u \in Users, n \in 1 .. MaxAttempts :
          n < Len(attempts[x][u]) => attempts[x][u][n].complete
    /\ \A x \in Packages : package[x] = {} => ScormPackageReport(x) = {}
    /\ \A u \in Users : \A a \in ListMyScormAttempts(u) : a.complete = a.completed_at
    /\ \A x \in Packages : \A p \in package[x] :
          LaunchesFirst(p.manifest, p.launch) /\ (p.published => p.launch \in ListScormCatalog)

\* The request of the attempt that wrote in this step.
Writes(s, x, u, n) ==
    player[s].on = x /\ player[s].who = u /\ player[s].number = n /\ player'[s] = Waiting

\* A commit folds into the attempt. A reading of the time that is stored
\* counts once, however many requests report it and however they cross, and a
\* commit adds at most its reading. It keeps what was sent before, adds time
\* only if it reports time, and leaves a complete attempt to Finish, unless
\* another request of the attempt overtook it between its read and its write:
\* then it may write the older reading it has read, which counts anew.
CommitsFold ==
    [][\A x \in Packages, u \in Users, n \in 1 .. MaxAttempts :
          n <= Len(attempts[x][u]) /\ package'[x] # {} =>
              LET a == attempts[x][u][n]
                  b == attempts'[x][u][n]
              IN  /\ a.complete => b.complete
                  /\ b.session = a.session => b.total = a.total
                  /\ b # a => \E s \in Players :
                        /\ Writes(s, x, u, n)
                        /\ b.total <= a.total + b.session
                        /\ \/ "session_time" \in DOMAIN player[s].sent
                           \/ b.session = In(player[s].read, "session_time", 0)
                        /\ player[s].overtaken \/
                             /\ DOMAIN a.cmi \subseteq DOMAIN b.cmi
                             /\ b.total > a.total => "session_time" \in DOMAIN player[s].sent
                             /\ a.complete => player[s].kind = "FinishScormAttempt"]_scormVars
=============================================================================
