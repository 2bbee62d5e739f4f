----------------------------- MODULE ScormManifest -----------------------------
(***************************************************************************)
(* What an imported SCORM package is launched by: the parser of its        *)
(* imsmanifest.xml. A manifest has a schema version, organisations (one    *)
(* may be named as the default) of nested items, and resources.            *)
(***************************************************************************)
EXTENDS Naturals, Sequences, SequencesExt

CONSTANTS
    NoHref,
    Outlines,   \* bound: lists of items, with the lists below them and the rests of lists
    MaxItems    \* bound: items of a list and below

\* Outlines end: what is below an item and what follows it is smaller.
ASSUME OutlinesAssumption ==
    MaxItems \in Nat /\ \E size \in [Outlines -> 0 .. MaxItems] :
        \A s \in Outlines \ {<<>>} : \A t \in {Head(s).items, Tail(s)} :
            t \in Outlines /\ size[t] < size[s]

\* The first member of a sequence that satisfies a test, as a set of at most one.
FirstWhere(s, Test(_)) ==
    LET good == {i \in DOMAIN s : Test(s[i])}
    IN  {s[i] : i \in {j \in good : \A k \in good : j <= k}}

\* "1.2" anywhere in schemaversion is SCORM 1.2; "2004" and "1.3" are 2004.
DetectVersion(m) ==
    CASE m.schema = "1.2" -> {"1.2"}
      [] m.schema \in {"2004 3rd Edition", "CAM 1.3"} -> {"2004"}
      [] OTHER -> {}

\* The one named as default, when it is there, else the first.
DefaultOrganization(m) ==
    LET named == FirstWhere(m.orgs, LAMBDA o : o.id = m.default)
    IN  IF named # {} THEN named ELSE FirstWhere(m.orgs, LAMBDA o : TRUE)

\* A later resource of the same identifier wins, and one without href is none.
HrefOf(m, ref) ==
    LET at == {i \in DOMAIN m.resources : m.resources[i].id = ref /\ m.resources[i].href # NoHref}
    IN  IF at = {} THEN NoHref
        ELSE m.resources[CHOOSE i \in at : \A k \in at : k <= i].href

\* Depth first: an item, then its children, then the next item.
FirstLaunchHref(m, items) ==
    LET First[s \in Outlines] ==
            IF s = <<>> THEN NoHref
            ELSE LET own == HrefOf(m, Head(s).ref)
                     below == First[Head(s).items]
                 IN  IF own # NoHref THEN own
                     ELSE IF below # NoHref THEN below
                     ELSE First[Tail(s)]
    IN  First[items]

\* The first SCO with a href, else the first resource with one.
FallbackLaunchHref(m) ==
    LET sco == FirstWhere(m.resources, LAMBDA r : r.sco /\ r.href # NoHref)
        any == FirstWhere(m.resources, LAMBDA r : r.href # NoHref)
    IN  {r.href : r \in IF sco # {} THEN sco ELSE any}

\* What the parser returns of a manifest: nothing when it refuses it.
ParseManifest(m) ==
    {[version |-> v, launch |-> h] :
        v \in DetectVersion(m),
        h \in UNION {LET own == FirstLaunchHref(m, o.items)
                     IN  IF own # NoHref THEN {own} ELSE FallbackLaunchHref(m)
                     : o \in DefaultOrganization(m)}}

-----------------------------------------------------------------------------
\* What is meant: the first item of the outline, read from top to bottom,
\* that names a resource with a file.
Outline[s \in Outlines] ==
    IF s = <<>> THEN <<>>
    ELSE <<Head(s)>> \o Outline[Head(s).items] \o Outline[Tail(s)]

LaunchesFirst(m, launch) ==
    \A o \in DefaultOrganization(m) :
        LET Href(i) == HrefOf(m, Outline[o.items][i].ref)
        IN  \A i \in DOMAIN Outline[o.items] :
                Href(i) # NoHref /\ (\A j \in 1 .. i - 1 : Href(j) = NoHref) => launch = Href(i)
=============================================================================
