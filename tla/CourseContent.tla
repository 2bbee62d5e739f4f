--------------------------- MODULE CourseContent ---------------------------
(***************************************************************************)
(* The content of one course: chapters, their lessons and the lessons'     *)
(* blocks, each list kept in a sort order, under staff requests that run   *)
(* as transactions beside each other, and the restoring of a version,      *)
(* which replaces every chapter.                                           *)
(*                                                                         *)
(* A row is a name and the restore that made it (Original for the others), *)
(* so that a restored chapter is another row than the one it replaces.     *)
(* Orders are counted in ticks: Unit ticks stand for 1.0 and two orders    *)
(* less than a tick apart for two within renormalizeThreshold.             *)
(***************************************************************************)
EXTENDS Naturals, FiniteSets, FiniteSetsExt

CONSTANTS
    Names,       \* chapters, lessons and blocks that may ever exist
    ParentOf,    \* the name each is created under, Root for chapters
    Root,
    TypeOf,      \* of a block: "text", "video", "quiz", "assignment"
    Original,
    Initial,     \* orders of the rows there are at first
    Version,     \* orders of the rows of the version that may be restored
    Requests,    \* bound: staff requests
    Unit,
    MaxOrder,    \* bound: orders a client asks for
    Handlers     \* handlers that take part, a set of sets: one per behaviour

\* Three tables, each with a foreign key to the one above it.
ASSUME ContentAssumption ==
    /\ IsFiniteSet(Names) /\ IsFiniteSet(Requests) /\ Original \notin Requests
    /\ ParentOf \in [Names -> Names \union {Root}]
    /\ \A n \in Names : ParentOf[n] # Root /\ ParentOf[ParentOf[n]] # Root
                           => ParentOf[ParentOf[ParentOf[n]]] = Root
    /\ Root \notin Names \union (Names \X (Requests \union {Original}))
    /\ Unit \in Nat \ {0} /\ MaxOrder \in Nat
    /\ \A saved \in {Initial, Version} :
          /\ DOMAIN saved \subseteq Names /\ saved \in [DOMAIN saved -> Nat]
          /\ \A n \in DOMAIN saved : ParentOf[n] \in DOMAIN saved \union {Root}

VARIABLES
    order,    \* rows of chapters, lessons and blocks with their sort_order
    ready,    \* blocks whose content a learner can work on
    used,     \* ids given out
    edit,     \* staff requests: what their transaction has done so far
    team      \* the handlers that take part in this behaviour

contentVars == <<order, ready, used, edit, team>>

Row == Names \X (Requests \union {Original})
Present == DOMAIN order

Parent(x) == IF ParentOf[x[1]] = Root THEN Root ELSE <<ParentOf[x[1]], x[2]>>
IsChapter(x) == Parent(x) = Root
IsLesson(x)  == ~IsChapter(x) /\ IsChapter(Parent(x))
IsBlock(x)   == ~IsChapter(x) /\ ~IsLesson(x)

Siblings(p) == {x \in Present : Parent(x) = p}

\* ON DELETE CASCADE: the rows with the children of their children.
Below(S, rows) ==
    LET children(T) == {y \in rows : Parent(y) \in T}
    IN  S \union children(S) \union children(children(S))

-----------------------------------------------------------------------------
(* Sort orders                                                             *)

NextSortOrder(p) ==
    IF Siblings(p) = {} THEN Unit
    ELSE Max({order[x] : x \in Siblings(p)}) + Unit

NeedsRenormalize(f, S) == \E x, y \in S : x # y /\ f[x] = f[y]

\* Lists on which two rows have the same order.
Tied == {p \in {Parent(x) : x \in Present} : NeedsRenormalize(order, Siblings(p))}

\* Whole numbers in the order of the list; equal orders come in any order.
Renormalize(f, S) ==
    {g \in [S -> {i * Unit : i \in 1 .. Cardinality(S)}] :
        \A x, y \in S : x # y => /\ g[x] # g[y]
                                 /\ f[x] < f[y] => g[x] < g[y]}

-----------------------------------------------------------------------------
(* Transactions                                                            *)

\* held: rows whose lock it has; tied, since: ghosts, the lists with equal
\* orders when it began and the rows that others placed and committed since.
None == [x \in {} |-> 0]
Idle == [kind |-> "idle", set |-> None, new |-> None, fill |-> {}, blank |-> {},
         doomed |-> {}, lists |-> {}, held |-> {}, tied |-> {}, since |-> {}]
Over == [Idle EXCEPT !.kind = "over"]

Open(r) == edit[r].kind \notin {"idle", "over"}
OpenEdits == {r \in Requests : Open(r)}

\* Rows it updates or deletes, with what the deletion takes along.
Touched(e) == DOMAIN e.set \union e.fill \union e.blank
                \union Below(e.doomed \intersect Present, Present)

\* Rows whose lock another transaction holds.
Locked(r) == UNION {edit[o].held : o \in OpenEdits \ {r}}

\* A request starts: e is what its transaction read and wrote so far. For a
\* row that another has locked it waits.
Begin(r, handler, e) ==
    /\ handler \in team
    /\ edit[r].kind = "idle"
    /\ edit' = [edit EXCEPT ![r] = [e EXCEPT !.kind = handler, !.tied = Tied,
                                             !.held = Touched(e) \ Locked(r)]]
    /\ used' = used \union DOMAIN e.new
    /\ UNCHANGED <<order, ready, team>>

\* The end of the list as it was read; the parent must be there for the
\* foreign key, and is of the same restore.
Create(r, handler, x, isReady) ==
    /\ IF IsChapter(x) THEN x[2] = Original ELSE Parent(x) \in Present
    /\ Begin(r, handler,
             [Idle EXCEPT !.new = [y \in {x} |-> NextSortOrder(Parent(x))],
                          !.fill = IF isReady THEN {x} ELSE {},
                          !.lists = {Parent(x)}])

CreateChapter(r) == \E x \in Row \ used : IsChapter(x) /\ Create(r, "CreateChapter", x, FALSE)
CreateLesson(r)  == \E x \in Row \ used : IsLesson(x) /\ Create(r, "CreateLesson", x, FALSE)
CreateBlock(r) ==
    \E x \in Row \ used, full \in BOOLEAN : IsBlock(x) /\ Create(r, "CreateBlock", x, full)

\* The editor's forms create the same rows; its blocks start without content.
CourseEditorCreateChapter(r) ==
    \E x \in Row \ used : IsChapter(x) /\ Create(r, "CourseEditorCreateChapter", x, FALSE)
CourseEditorCreateLesson(r) ==
    \E x \in Row \ used : IsLesson(x) /\ Create(r, "CourseEditorCreateLesson", x, FALSE)
CourseEditorCreateBlock(r) ==
    \E x \in Row \ used : IsBlock(x) /\ Create(r, "CourseEditorCreateBlock", x, FALSE)

\* A new order is written as given; without one only the title changes.
Update(r, handler, x, e) ==
    /\ x \in Present \ Locked(r)
    /\ \/ Begin(r, handler, e)
       \/ \E o \in 1 .. MaxOrder :
             Begin(r, handler, [e EXCEPT !.set = [y \in {x} |-> o],
                                         !.lists = {Parent(x)}])

UpdateChapter(r) == \E x \in Present : IsChapter(x) /\ Update(r, "UpdateChapter", x, Idle)
UpdateLesson(r)  == \E x \in Present : IsLesson(x) /\ Update(r, "UpdateLesson", x, Idle)

\* Content that a learner can work on, or not, such as a quiz without questions.
Filled(x) == {[Idle EXCEPT !.fill = {x}], [Idle EXCEPT !.blank = {x}]}
UpdateBlock(r) ==
    \E x \in Present : IsBlock(x) /\ \E e \in Filled(x) : Update(r, "UpdateBlock", x, e)

AutosaveBlock(r) ==
    \E x \in Present \ Locked(r) :
        IsBlock(x) /\ \E e \in Filled(x) : Begin(r, "AutosaveBlock", e)

\* The editor saves text, whatever the type of the block.
CourseEditorAutosaveBlock(r) ==
    \E x \in Present \ Locked(r) :
        /\ IsBlock(x)
        /\ Begin(r, "CourseEditorAutosaveBlock",
                 IF TypeOf[x[1]] = "text" THEN [Idle EXCEPT !.fill = {x}]
                                          ELSE [Idle EXCEPT !.blank = {x}])

\* Counts the children, then deletes; what is below goes with it.
Delete(r, handler, x) ==
    /\ IsBlock(x) \/ Siblings(x) = {}
    /\ Begin(r, handler, [Idle EXCEPT !.doomed = {x}])

DeleteChapter(r) == \E x \in Present : IsChapter(x) /\ Delete(r, "DeleteChapter", x)
DeleteLesson(r)  == \E x \in Present : IsLesson(x) /\ Delete(r, "DeleteLesson", x)
DeleteBlock(r)   == \E x \in Present : IsBlock(x) /\ Delete(r, "DeleteBlock", x)

\* Writes the orders of the request, reads the list again and, when two are
\* too close, numbers it anew.
Reorder(r, handler, p) ==
    handler \in team /\ \E S \in SUBSET (Siblings(p) \ Locked(r)) : \E f \in [S -> 1 .. MaxOrder] :
        LET list == Siblings(p)
            read == [x \in list |-> IF x \in S THEN f[x] ELSE order[x]]
        IN  /\ S # {}
            /\ \E g \in IF NeedsRenormalize(read, list)
                        THEN Renormalize(read, list) ELSE {f} :
                  Begin(r, handler, [Idle EXCEPT !.set = g, !.lists = {p}])

ReorderChapters(r) == Reorder(r, "ReorderChapters", Root)
ReorderLessons(r)  == \E x \in Present : IsChapter(x) /\ Reorder(r, "ReorderLessons", x)
ReorderBlocks(r)   == \E x \in Present : IsLesson(x) /\ Reorder(r, "ReorderBlocks", x)

\* Swaps the orders of two neighbours, as they were read without a lock.
CourseEditorMoveChapter(r) ==
    \E x, y \in Siblings(Root) :
        /\ x # y /\ order[x] <= order[y]
        /\ ~\E z \in Siblings(Root) \ {x, y} : order[x] < order[z] /\ order[z] < order[y]
        /\ Begin(r, "CourseEditorMoveChapter",
                 [Idle EXCEPT !.set = [z \in {x, y} |-> IF z = x THEN order[y] ELSE order[x]],
                              !.lists = {Root}])

\* mutant: the chapters there are stay
RestoreBeside(r, handler) ==
    Begin(r, handler,
          [Idle EXCEPT
             !.new = [x \in {<<n, r>> : n \in DOMAIN Version} |-> Version[x[1]]],
             !.fill = {<<n, r>> : n \in DOMAIN Version},
             !.lists = {Root}])

\* Deletes the chapters it sees and inserts those of the version.
Restore(r, handler) ==
    Begin(r, handler,
          [Idle EXCEPT
             !.doomed = Siblings(Root),
             !.new = [x \in {<<n, r>> : n \in DOMAIN Version} |-> Version[x[1]]],
             !.fill = {<<n, r>> : n \in DOMAIN Version},
             !.lists = {Root}])
RestoreVersion(r) == Restore(r, "RestoreVersion")
CourseEditorRestoreVersion(r) == Restore(r, "CourseEditorRestoreVersion")

-----------------------------------------------------------------------------
(* The end of a transaction                                                *)

\* The rows a deletion takes away when it commits.
Lost(r) == Below(edit[r].doomed \intersect Present, Present)

\* It has the locks it waited for; a deletion waits for the transactions that
\* inserted below what it takes away too.
MayCommit(r) ==
    /\ (Touched(edit[r]) \ edit[r].held) \intersect Locked(r) = {}
    /\ \A o \in OpenEdits \ {r} : \A x \in DOMAIN edit[o].new : Parent(x) \notin Lost(r)

Reorders == {"ReorderChapters", "ReorderLessons", "ReorderBlocks"}

\* A reorder whose UPDATE finds a row gone is answered 500 and rolls back. The
\* editor's move ignores that error and keeps what it could write.
Stale(r) == edit[r].kind \in Reorders /\ ~(DOMAIN edit[r].set \subseteq Present)

Commit(r) ==
    LET e == edit[r]
        kept == (Present \ Lost(r)) \union DOMAIN e.new
    IN  /\ Open(r) /\ MayCommit(r) /\ ~Stale(r)
        /\ order' = [x \in kept |-> IF x \in DOMAIN e.new THEN e.new[x]
                                    ELSE IF x \in DOMAIN e.set THEN e.set[x] ELSE order[x]]
        /\ ready' = ((ready \union e.fill) \ e.blank) \intersect kept
        /\ edit' = [o \in Requests |->
                      IF o = r THEN Over
                      ELSE IF Open(o) THEN [edit[o] EXCEPT !.since = @ \union DOMAIN e.new
                                                                      \union DOMAIN e.set]
                      ELSE edit[o]]
        /\ UNCHANGED <<used, team>>

\* Any error: a lost row, a deadlock broken by Postgres, an answer above 499.
Fail(r) ==
    /\ Open(r)
    /\ edit' = [edit EXCEPT ![r] = Over]
    /\ UNCHANGED <<order, ready, used, team>>

Request(r) ==
    /\ edit[r].kind = "idle"
    /\ \/ CreateChapter(r) \/ CreateLesson(r) \/ CreateBlock(r)
       \/ CourseEditorCreateChapter(r) \/ CourseEditorCreateLesson(r) \/ CourseEditorCreateBlock(r)
       \/ UpdateChapter(r) \/ UpdateLesson(r) \/ UpdateBlock(r)
       \/ AutosaveBlock(r) \/ CourseEditorAutosaveBlock(r)
       \/ DeleteChapter(r) \/ DeleteLesson(r) \/ DeleteBlock(r)
       \/ ReorderChapters(r) \/ ReorderLessons(r) \/ ReorderBlocks(r)
       \/ CourseEditorMoveChapter(r)
       \/ RestoreVersion(r) \/ CourseEditorRestoreVersion(r)

ContentInit ==
    /\ order = [x \in {<<n, Original>> : n \in DOMAIN Initial} |-> Initial[x[1]]]
    /\ ready = {x \in DOMAIN order : IsBlock(x)}
    /\ used = DOMAIN order
    /\ edit = [r \in Requests |-> Idle]
    /\ team \in Handlers

=============================================================================
