----------------------------- MODULE Simulations -----------------------------
(***************************************************************************)
(* Interactive simulations and diagrams of an organisation, and how far    *)
(* each learner got with them. A record of an interaction reads the        *)
(* simulation and its threshold, and then writes the learner's row in one  *)
(* statement; authors change the threshold in between.                     *)
(***************************************************************************)
EXTENDS Tenancy, Integers

CONSTANTS
    SimulationsOnPlatform,
    Slugs,               \* simulations, by slug
    Artifacts,           \* what authors send: kind, diagram and simulation bodies
    Thresholds,          \* completion_interactions authors send
    MaxParameters,
    Guests,              \* bound: the users who learn
    Visits,              \* bound: records at a time
    MaxInteractions,     \* bound: interactions counted
    NoBody

ASSUME SimulationsAssumption ==
    /\ \A a \in Artifacts : DOMAIN a = {"kind", "diagram", "simulation"}
    /\ Thresholds \subseteq Int /\ Guests \subseteq Users
    /\ NoPlan \notin Slugs

VARIABLES
    simulationsEnabled,
    simulation,   \* slug -> its row, {} without one
    reached,      \* slug -> learner -> row of simulation_progress, {} without one
    visit         \* records under way

simulationVars == <<simulationsEnabled, simulation, reached, visit>>

-----------------------------------------------------------------------------
(* What may be stored                                                      *)

\* Names of a sequence of parameters or outputs, all there and all different.
DistinctNames(s) ==
    /\ \A i \in DOMAIN s : s[i].name # ""
    /\ \A i, j \in DOMAIN s : s[i].name = s[j].name => i = j

\* A select needs options, and a number's range must not be empty.
NormalParam(p) ==
    /\ p.type \in {"number", "boolean", "select"}
    /\ p.type = "select" => p.options # {}
    /\ p.type = "number" => p.min <= p.max

ValidDiagram(d) ==
    d # NoBody /\ d.format \in {"mermaid", "dot", "excalidraw"} /\ d.source = "fits"

ValidSimulation(b) ==
    /\ b # NoBody /\ b.parameters # <<>> /\ Len(b.parameters) <= MaxParameters
    /\ DistinctNames(b.parameters) /\ \A i \in DOMAIN b.parameters : NormalParam(b.parameters[i])
    /\ DistinctNames(b.outputs) /\ \A i \in DOMAIN b.outputs : b.outputs[i].expr # ""

\* The body of the other kind is dropped; a refused spec is none.
ParseSpec(a) ==
    IF a.kind = "diagram" /\ ValidDiagram(a.diagram) THEN {[a EXCEPT !.simulation = NoBody]}
    ELSE IF a.kind = "simulation" /\ ValidSimulation(a.simulation) THEN {[a EXCEPT !.diagram = NoBody]}
    ELSE {}

\* completion_interactions; 0 leaves completion to the learner's own word.
ParseConfig(t) == {x \in {t} : x >= 0}

-----------------------------------------------------------------------------
(* Authors                                                                 *)

SimGate == SimulationsOnPlatform /\ simulationsEnabled

\* Rows the learner reached under a threshold that may have changed, and
\* requests that have read it.
Aged(x) ==
    /\ reached' = [reached EXCEPT ![x] = [u \in Users |-> {[p EXCEPT !.judged = FALSE] : p \in @[u]}]]
    /\ visit' = [v \in Visits |-> IF visit[v].on = x THEN [visit[v] EXCEPT !.overtaken = TRUE] ELSE visit[v]]

Edit(handler) == handler \in team /\ SimGate /\ Authors # {}

StoredSimulation(spec, threshold, published) == [spec |-> spec, threshold |-> threshold, published |-> published]

\* Both validate the whole payload, and store it with its flag.
PutSimulation(handler, x) ==
    /\ Edit(handler)
    /\ \E a \in Artifacts, t \in Thresholds, published \in BOOLEAN :
          \E spec \in ParseSpec(a), threshold \in ParseConfig(t) :
              simulation' = [simulation EXCEPT ![x] = {StoredSimulation(spec, threshold, published)}]
    /\ Aged(x)
    /\ UNCHANGED <<tenancyVars, simulationsEnabled>>
CreateSimulation(x) == simulation[x] = {} /\ PutSimulation("CreateSimulation", x)
UpdateSimulation(x) == simulation[x] # {} /\ PutSimulation("UpdateSimulation", x)

SetSimulationPublished(x) ==
    /\ Edit("SetSimulationPublished") /\ simulation[x] # {}
    /\ \E published \in BOOLEAN :
          simulation' = [simulation EXCEPT ![x] = {[s EXCEPT !.published = published] : s \in @}]
    /\ UNCHANGED <<tenancyVars, simulationsEnabled, reached, visit>>

\* The learners' rows go with it, and a record under way finds no parent: a
\* simulation created under the same slug is another one.
DeleteSimulation(x) ==
    /\ Edit("DeleteSimulation") /\ simulation[x] # {}
    /\ simulation' = [simulation EXCEPT ![x] = {}]
    /\ reached' = [reached EXCEPT ![x] = [u \in Users |-> {}]]
    /\ visit' = [v \in Visits |-> IF visit[v].on = x THEN [visit[v] EXCEPT !.orphan = TRUE] ELSE visit[v]]
    /\ UNCHANGED <<tenancyVars, simulationsEnabled>>

UpdateSimulationSettings(u) ==
    /\ "UpdateSimulationSettings" \in team /\ HasRole(u, {"owner"}) /\ u \in Owners
    /\ simulationsEnabled' \in BOOLEAN
    /\ UNCHANGED <<tenancyVars, simulation, reached, visit>>

-----------------------------------------------------------------------------
(* Learners                                                                *)

NoVisit == [on |-> NoPlan, who |-> NoPlan, threshold |-> 0, done |-> FALSE, scored |-> FALSE,
            overtaken |-> FALSE, orphan |-> FALSE]

ListSimulationCatalog == {x \in Slugs : \E s \in simulation[x] : s.published}

\* The simulation is read with its threshold: 403 unless it is published.
RecordSimulationProgress(v, u) ==
    /\ "RecordSimulationProgress" \in team /\ SimGate /\ Resolves(u)
    /\ visit[v] = NoVisit
    /\ \E x \in ListSimulationCatalog, done, scored \in BOOLEAN : \E s \in simulation[x] :
          visit' = [visit EXCEPT ![v] = [NoVisit EXCEPT !.on = x, !.who = u, !.threshold = s.threshold,
                                                          !.done = done, !.scored = scored]]
    /\ UNCHANGED <<tenancyVars, simulationsEnabled, simulation, reached>>

\* mutant: the count before this interaction is compared
RecordLate(p, v) ==
    [p EXCEPT !.count = @ + 1, !.scored = @ \/ v.scored, !.judged = ~v.overtaken,
              !.complete = @ \/ v.done \/ (v.threshold > 0 /\ p.count >= v.threshold)]

\* The upsert on an existing row: a missing score keeps the last one.
Record(p, v) ==
    [p EXCEPT !.count = @ + 1, !.scored = @ \/ v.scored, !.judged = ~v.overtaken,
              !.complete = @ \/ v.done \/ (v.threshold > 0 /\ p.count + 1 >= v.threshold)]

Progress(x, u) ==
    IF reached[x][u] # {} THEN reached[x][u]
    ELSE {[count |-> 0, scored |-> FALSE, complete |-> FALSE, judged |-> TRUE]}

WriteProgress(v) ==
    LET e == visit[v]
    IN  /\ e # NoVisit /\ ~e.orphan
        /\ reached[e.on][e.who] = {} => IsMember(e.who)
        /\ reached' = [reached EXCEPT ![e.on][e.who] = {Record(p, e) : p \in Progress(e.on, e.who)}]
        /\ \A p \in reached'[e.on][e.who] : p.count <= MaxInteractions
        /\ visit' = [visit EXCEPT ![v] = NoVisit]
        /\ UNCHANGED <<tenancyVars, simulationsEnabled, simulation>>

Leave(v) ==
    /\ visit[v] # NoVisit /\ visit' = [visit EXCEPT ![v] = NoVisit]
    /\ UNCHANGED <<tenancyVars, simulationsEnabled, simulation, reached>>

SimulationsInit ==
    /\ simulationsEnabled = TRUE
    /\ simulation = [x \in Slugs |-> {}]
    /\ reached = [x \in Slugs |-> [u \in Users |-> {}]]
    /\ visit = [v \in Visits |-> NoVisit]

SimulationsNext ==
    \/ \E x \in Slugs : \/ CreateSimulation(x) \/ UpdateSimulation(x)
                        \/ SetSimulationPublished(x) \/ DeleteSimulation(x)
    \/ \E u \in Users : UpdateSimulationSettings(u)
    \/ \E v \in Visits : (\E u \in Guests : RecordSimulationProgress(v, u)) \/ WriteProgress(v) \/ Leave(v)

SimulationsSpec == SimulationsInit /\ [][SimulationsNext]_simulationVars

-----------------------------------------------------------------------------
(* Properties                                                              *)

\* What a learner and a report are shown.
GetMySimulationProgress(x, u) == reached[x][u]
SimulationReport(x) == UNION {GetMySimulationProgress(x, u) : u \in Users}

\* A learner whose interactions reached the threshold has completed the
\* simulation, although his records cross each other, unless an author changed
\* it after his last record had read it; and what is stored has the one body
\* of its kind, also after the kind was changed.
CompleteByThreshold ==
    \A x \in Slugs : \A s \in simulation[x] :
        /\ \A p \in SimulationReport(x) :
              p.judged /\ s.threshold > 0 /\ p.count >= s.threshold => p.complete
        /\ (s.spec.diagram = NoBody) # (s.spec.simulation = NoBody)
=============================================================================
