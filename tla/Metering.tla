------------------------------- MODULE Metering -------------------------------
(***************************************************************************)
(* Two metered services of an organisation: code runs against a daily      *)
(* limit and AI generations against a monthly one. A call reads settings   *)
(* and usage, works outside the database, and then writes its row of the   *)
(* ledger, adds to the counter and commits; other calls run in between.    *)
(* Code exercises and tutor sessions are what such calls are about.        *)
(***************************************************************************)
EXTENDS Tenancy, FiniteSetsExt

CONSTANTS
    Platform,     \* services the platform's configuration enables
    PlatformLimit, Cost,    \* service -> default limit, and units a call uses
    Overrides,    \* limits an owner may set; Unset leaves the default
    Unset,
    LastPeriod,   \* bound: days (months) that pass
    MaxCalls,     \* bound: calls that reach the services
    Calls,        \* bound: calls at a time
    Exercises, Sessions, Nothing

Services == {"code", "ai"}

ASSUME MeteringAssumption ==
    /\ Platform \subseteq Services
    /\ PlatformLimit \in [Services -> Nat] /\ Cost \in [Services -> Nat \ {0}]
    /\ Overrides \ {Unset} \subseteq Nat
    /\ Nothing \notin Exercises \union Sessions
    /\ LastPeriod \in Nat

VARIABLES
    settings,   \* service -> whether the organisation enabled it, and its limit
    period,     \* today, and this month: they end together here
    usage,      \* service -> period -> counter
    ledger,     \* rows of code_submissions and ai_generations, numbered
    exercise,   \* code exercise -> "none", "draft" or "published"
    messages,   \* tutor messages: session, number of the call, role
    sessions,   \* tutor sessions, with the learner each belongs to
    call,       \* calls under way
    calls       \* calls that reached the services so far

meterVars == <<settings, period, usage, ledger, exercise, messages, sessions, call, calls>>
meteringVars == <<tenancyVars, meterVars>>

-----------------------------------------------------------------------------
(* The gate                                                                *)

Enabled(s) == s \in Platform /\ settings[s].enabled

\* dailyLimit, monthlyLimit: the organisation's own, else the platform's.
Limit(s) == IF settings[s].limit = Unset THEN PlatformLimit[s] ELSE settings[s].limit

\* mutant: one more than the limit
BlockedLate(s) == Limit(s) > 0 /\ usage[s][period] > Limit(s)

\* A limit of 0 is none.
Blocked(s) == Limit(s) > 0 /\ usage[s][period] >= Limit(s)

Rest == [kind |-> "idle", who |-> Nothing, service |-> "code", on |-> Nothing,
         period |-> 0, number |-> 0, phase |-> "none", result |-> "none", overtaken |-> FALSE]

\* executeGated, generateGated: the period and the limit are read once. A
\* blocked call only writes its row.
Pass(c, handler, u, s, x) ==
    /\ handler \in team /\ call[c].kind = "idle" /\ calls < MaxCalls /\ Enabled(s)
    /\ calls' = calls + 1
    /\ call' = [call EXCEPT ![c] =
                  [Rest EXCEPT !.kind = handler, !.who = u, !.service = s, !.on = x,
                               !.period = period, !.number = calls + 1,
                               !.phase = IF Blocked(s) THEN "done" ELSE "working",
                               !.result = IF Blocked(s) THEN "blocked_limit" ELSE "none"]]
    /\ UNCHANGED <<tenancyVars, settings, period, usage, ledger, exercise, messages, sessions>>

GenerateGated(c, handler, u, x) == Pass(c, handler, u, "ai", x)

RunCode(c, u) == Resolves(u) /\ Pass(c, "RunCode", u, "code", Nothing)

\* The learner's catalogue holds published exercises only, and so does a
\* submission.
Catalog == {x \in Exercises : exercise[x] = "published"}
SubmitCodeExercise(c, u) ==
    Resolves(u) /\ \E x \in Catalog : Pass(c, "SubmitCodeExercise", u, "code", x)

\* Authoring calls: outline, lesson, quiz. The course's routes look at the
\* membership only.
Generate(c, u, kind) ==
    /\ kind \in {"GenerateOutline", "GenerateLesson", "GenerateQuiz"}
    /\ IsMember(u) => role[u] \in {"owner", "teacher"}
    /\ IsMember(u) \/ u \in PlatformOwners
    /\ GenerateGated(c, kind, u, Nothing)

\* With an own session, or without one.
OwnSessions(u) == {x \in Sessions : <<x, u>> \in sessions}
Untaken == {x \in Sessions : (\A u \in Users : <<x, u>> \notin sessions)
                             /\ \A c \in Calls : call[c].on # x}
TutorAsk(c, u) ==
    IsMember(u) /\ \E x \in OwnSessions(u) \union Untaken : GenerateGated(c, "TutorAsk", u, x)

-----------------------------------------------------------------------------
(* The answer of the runner or the model, and what is written              *)

\* A refused source or language, a row or a commit that fails: 400 or 500.
\* After an error of the runner or the model the row is written, but the
\* answer is 502 and WithRequestTx keeps nothing of such a request.
GiveUp(c) ==
    /\ call[c].kind # "idle"
    /\ call' = [call EXCEPT ![c] = Rest]
    /\ UNCHANGED <<tenancyVars, settings, period, usage, ledger, exercise, messages, sessions, calls>>

\* A run that fails, is killed or answers wrongly is a run.
Execute == {"succeeded", "failed", "error"}
Generation == {"succeeded", "error"}

Answer(c) ==
    LET e == call[c]
        busy == \E o \in Calls : call[o].phase = "done" /\ call[o].service = e.service
                                  /\ call[o].period = e.period /\ call[o].result \in {"succeeded", "failed"}
    IN  /\ e.phase = "working"
        /\ ~busy                          \* AddUsage waits for the counter's row
        /\ e.kind = "SubmitCodeExercise" => exercise[e.on] # "none"    \* foreign key
        /\ \E result \in IF e.service = "code" THEN Execute ELSE Generation :
              call' = [call EXCEPT ![c].phase = "done", ![c].result = result]
        /\ UNCHANGED <<tenancyVars, settings, period, usage, ledger, exercise, messages, sessions, calls>>

Row(e, x) == [number |-> e.number, service |-> e.service, status |-> e.result, on |-> x,
              charged |-> e.period]
LogSubmission(e) == Row(e, e.on)
LogGeneration(e) == Row(e, Nothing)
AppendMessage(e, by) == <<e.on, e.number, by>>
Counts(x) == x.status # "blocked_limit"

\* mutant: the period is computed anew after the run
ChargeToday(e) ==
    IF e.result = "blocked_limit" THEN usage
    ELSE [usage EXCEPT ![e.service][period] = @ + Cost[e.service]]

Charge(e) ==
    IF e.result = "blocked_limit" THEN usage
    ELSE [usage EXCEPT ![e.service][e.period] = @ + Cost[e.service]]

CommitCall(c) ==
    LET e == call[c]
        turn == e.kind = "TutorAsk" /\ e.result = "succeeded"
    IN  /\ e.phase = "done" /\ e.result # "error"
        /\ ledger' = ledger \union {IF e.service = "code" THEN LogSubmission(e) ELSE LogGeneration(e)}
        /\ usage' = Charge(e)
        /\ sessions' = IF turn THEN sessions \union {<<e.on, e.who>>} ELSE sessions
        /\ messages' = IF turn THEN messages \union {AppendMessage(e, "user"), AppendMessage(e, "assistant")}
                               ELSE messages
        /\ call' = [o \in Calls |->
                      IF o = c THEN Rest
                      ELSE [call[o] EXCEPT !.overtaken = @ \/ call[o].kind # "idle"]]
        /\ UNCHANGED <<tenancyVars, settings, period, exercise, calls>>

-----------------------------------------------------------------------------
(* Settings, exercises, time                                               *)

UpdateSettings(s, u) ==
    /\ HasRole(u, {"owner"}) /\ u \in Owners
    /\ \E on \in BOOLEAN, limit \in Overrides :
          settings' = [settings EXCEPT ![s] = [enabled |-> on, limit |-> limit]]
    /\ call' = [c \in Calls |-> [call[c] EXCEPT !.overtaken = @ \/ call[c].kind # "idle"]]
    /\ UNCHANGED <<tenancyVars, period, usage, ledger, exercise, messages, sessions, calls>>

UpdateCodeExecSettings(u) == "UpdateCodeExecSettings" \in team /\ UpdateSettings("code", u)
UpdateAISettings(u) == "UpdateAISettings" \in team /\ UpdateSettings("ai", u)

Author(handler, x, from, to) ==
    /\ handler \in team /\ Enabled("code")
    /\ \E u \in Users : IsMember(u) /\ HasRole(u, {"owner", "teacher"})
    /\ exercise[x] \in from /\ exercise' = [exercise EXCEPT ![x] = to]
    /\ UNCHANGED <<tenancyVars, settings, period, usage, messages, sessions, call, calls>>

CreateCodeExercise(x) ==
    \E to \in {"draft", "published"} : Author("CreateCodeExercise", x, {"none"}, to) /\ UNCHANGED ledger
\* The body of an update holds the flag, too.
UpdateCodeExercise(x) ==
    \E to \in {"draft", "published"} :
        Author("UpdateCodeExercise", x, {"draft", "published"}, to) /\ UNCHANGED ledger
SetCodeExercisePublished(x) ==
    \E to \in {"draft", "published"} :
        Author("SetCodeExercisePublished", x, {"draft", "published"}, to) /\ UNCHANGED ledger
\* ON DELETE SET NULL; it waits for a row that refers to it.
DeleteCodeExercise(x) ==
    /\ Author("DeleteCodeExercise", x, {"draft", "published"}, "none")
    /\ \A c \in Calls : call[c].phase = "done" => call[c].on # x
    /\ ledger' = {IF y.on = x THEN [y EXCEPT !.on = Nothing] ELSE y : y \in ledger}

NextPeriod ==
    /\ "NextPeriod" \in team /\ period < LastPeriod /\ period' = period + 1
    /\ UNCHANGED <<tenancyVars, settings, usage, ledger, exercise, messages, sessions, call, calls>>

-----------------------------------------------------------------------------
MeterInit ==
    /\ settings = [s \in Services |-> [enabled |-> TRUE, limit |-> Unset]]
    /\ period = 0
    /\ usage = [s \in Services |-> [p \in 0 .. LastPeriod |-> 0]]
    /\ ledger = {} /\ messages = {} /\ sessions = {} /\ calls = 0
    /\ exercise = [x \in Exercises |-> "none"]
    /\ call = [c \in Calls |-> Rest]

Call(c, u) ==
    \/ RunCode(c, u) \/ SubmitCodeExercise(c, u) \/ TutorAsk(c, u)
    \/ \E kind \in {"GenerateOutline", "GenerateLesson", "GenerateQuiz"} : Generate(c, u, kind)

MeterNext ==
    \/ \E c \in Calls : (\E u \in Users : Call(c, u)) \/ Answer(c) \/ CommitCall(c) \/ GiveUp(c)
    \/ \E u \in Users : UpdateCodeExecSettings(u) \/ UpdateAISettings(u)
    \/ \E x \in Exercises : \/ CreateCodeExercise(x) \/ UpdateCodeExercise(x)
                            \/ SetCodeExercisePublished(x) \/ DeleteCodeExercise(x)
    \/ NextPeriod

MeterSpec == MeterInit /\ [][MeterNext]_meterVars

-----------------------------------------------------------------------------
(* Properties                                                              *)

\* The counter of the current period, next to the rows.
CodeExecUsageDashboard ==
    [used |-> usage["code"][period], recent |-> {x \in ledger : x.service = "code"}]
AIUsageDashboard ==
    [used |-> usage["ai"][period], recent |-> {x \in ledger : x.service = "ai"}]

\* The counter of a period is the sum over the rows of the calls the gate let
\* through in it, although a call may end in the next period, two may add at
\* once, and one that fails late takes both back. A tutor's transcript is of
\* calls in the ledger: a session holds a turn at least, each of a question
\* and its answer.
CountersMatchLedger ==
    /\ \A s \in Services, p \in 0 .. LastPeriod :
          usage[s][p] = Cost[s] * Cardinality({x \in ledger : x.service = s /\ Counts(x) /\ x.charged = p})
    /\ \A shown \in {CodeExecUsageDashboard, AIUsageDashboard} : shown.recent = {} => shown.used = 0
    /\ \A y \in sessions : \E m \in messages : m[1] = y[1]
    /\ \A m \in messages :
          /\ \E y \in sessions : y[1] = m[1]
          /\ {<<m[1], m[2], "user">>, <<m[1], m[2], "assistant">>} \subseteq messages
          /\ \E x \in ledger : x.number = m[2] /\ x.status = "succeeded" /\ x.service = "ai"

\* What a call adds was below the limit unless another commit (of a call, or
\* of the settings) overtook it: the overshoot is the calls under way.
LimitHeldAlone ==
    [][\A c \in Calls :
          LET e == call[c]
          IN  usage' # usage /\ e.phase = "done" /\ call'[c] = Rest /\ ~e.overtaken
                  => Limit(e.service) = 0 \/ usage[e.service][e.period] < Limit(e.service)]_meteringVars
=============================================================================
