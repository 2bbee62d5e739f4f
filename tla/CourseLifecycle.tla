---------------------------- MODULE CourseLifecycle ----------------------------
(***************************************************************************)
(* The status of one course.  Every request runs in a transaction of its   *)
(* own: the course is read, the handler decides, an UPDATE takes the row   *)
(* lock, publishing and restoring also insert a numbered version, and the  *)
(* transaction commits after the response.  The decision is not repeated   *)
(* under the lock.  A sweep of the worker publishes courses whose date has *)
(* come.  Visitors read a cached catalog, and authors signed asset URLs    *)
(* whose lifetime depends on the status: publishing and unpublishing drop  *)
(* the one and unpublishing revokes the other, before they commit.         *)
(***************************************************************************)
EXTENDS Naturals

CONSTANTS
  Requests,     \* concurrent HTTP requests about the course
  Sweep,        \* the worker's publishing sweep
  Nobody,
  Visitors,     \* concurrent requests for the public catalog
  Authors,      \* concurrent requests for an asset URL
  Ops,          \* the handlers in use
  MaxRequests,  \* bound on the requests about the course
  MaxFaults     \* bound on failures and on changes of the videos' readiness

Tx == Requests \cup {Sweep}

Staff     == {"TransitionCourse", "PublishCourse", "UnpublishCourse", "UpdateCourse",
              "DeleteCourse", "RestoreCourseVersion", "CourseEditorTransition",
              "CourseEditorPublish", "CourseEditorUnpublish"}
Admin     == {"TakedownCourse", "RestoreCourse"}
Statuses  == {"draft", "review", "scheduled", "published", "unpublished", "archived"}
Dates     == {"none", "future", "past"}

ASSUME CourseAssumption ==
  /\ Sweep \notin Requests /\ Nobody \notin Tx
  /\ Visitors \cap Authors = {} /\ {"catalog", "url"} \cap (Visitors \cup Authors) = {}
  /\ Ops \subseteq Staff \cup Admin
  /\ MaxRequests \in Nat /\ MaxFaults \in Nat

VARIABLES
  status,    \* courses.status, "deleted" once the row is gone
  date,      \* courses.publish_date against now()
  versions,  \* MAX(version_number) of course_versions
  lock,      \* the transaction that holds the course row
  tx,        \* what each transaction is doing
  ready,     \* whether every video of the course is processed
  catalog,   \* the cached catalog: does it show the course?
  visit,     \* what each visitor loaded for the cache
  longURL,   \* does the asset's signed URL have the lifetime of a published course?
  refresh,   \* the lifetime each author's request chose
  revoking,  \* an unpublish has cleared the URL and holds the asset's row
  unreached, \* "catalog", "url", and those about to store one, if the last
             \* change of the status did not reach them (history)
  begun, faults

row  == <<status, date, versions>>
shown == <<catalog, visit, unreached>>
seen  == <<shown, longURL, refresh, revoking>>
vars == <<row, lock, tx, ready, seen, begun, faults>>

Idle   == [at |-> "idle"]
Busy   == [at : {"begun", "updated", "numbered", "written", "revoked", "dropped"},
           op : Staff \cup Admin \cup {"Sweep"},
           to : Statuses \cup {"same", "deleted"},
           date : Dates \cup {"keep"}, number : Nat]

Publishers   == {"PublishCourse", "CourseEditorPublish", "Sweep"}
Snapshotters == Publishers \cup {"RestoreCourseVersion"}

validTransitions ==
  [draft       |-> {"review", "archived"},
   review      |-> {"draft", "published", "scheduled", "archived"},
   scheduled   |-> {"review", "published", "archived"},
   published   |-> {"unpublished", "archived"},
   unpublished |-> {"archived"},
   archived    |-> {},
   deleted     |-> {}]

Init ==
  /\ status = "draft" /\ date = "none" /\ versions = 0
  /\ lock = Nobody
  /\ tx = [t \in Tx |-> Idle]
  /\ ready \in BOOLEAN
  /\ catalog = "empty"
  /\ visit = [v \in Visitors |-> "idle"]
  /\ longURL = FALSE
  /\ refresh = [l \in Authors |-> "idle"]
  /\ revoking = FALSE /\ unreached = {}
  /\ begun = 0 /\ faults = 0

Fault == faults < MaxFaults /\ faults' = faults + 1

-----------------------------------------------------------------------------
(* The decisions of the handlers, on the course as ResolveCourseOrg read it *)

Start(t, op, to, d) ==
  /\ status # "deleted"
  /\ tx' = [tx EXCEPT ![t] = [at |-> "begun", op |-> op, to |-> to, date |-> d,
                              number |-> 0]]
  /\ UNCHANGED <<row, lock, ready, seen, faults>>

Request(r, op, to, d) ==
  /\ op \in Ops /\ tx[r] = Idle
  /\ begun < MaxRequests /\ begun' = begun + 1
  /\ Start(r, op, to, d)

\* Archive, SetScheduled with the date of the request, or SetStatus
TransitionCourse(r) ==
  \E to \in Statuses \ {"published"} :
    /\ to \in validTransitions[status]
    /\ \E d \in IF to = "scheduled" THEN {"future", "past"} ELSE {"keep"} :
         Request(r, "TransitionCourse", to, d)

PublishCourse(r) ==
  /\ status \in {"review", "scheduled", "unpublished"} /\ ready
  /\ Request(r, "PublishCourse", "published", "none")

UnpublishCourse(r) ==
  /\ status = "published"
  /\ Request(r, "UnpublishCourse", "unpublished", "keep")

UpdateCourse(r) == Request(r, "UpdateCourse", "same", "keep")

DeleteCourse(r) ==
  /\ status = "draft"
  /\ Request(r, "DeleteCourse", "deleted", "none")

\* also CourseEditorRestoreVersion, which only answers differently
RestoreCourseVersion(r) ==
  /\ versions > 0
  /\ Request(r, "RestoreCourseVersion", "same", "keep")

\* SetStatus along any edge, publishing and scheduling included
CourseEditorTransition(r) ==
  \E to \in Statuses :
    /\ to \in validTransitions[status]
    /\ Request(r, "CourseEditorTransition", to, "keep")

CourseEditorPublish(r) ==
  /\ ready
  /\ Request(r, "CourseEditorPublish", "published", "none")

CourseEditorUnpublish(r) == Request(r, "CourseEditorUnpublish", "unpublished", "keep")

TakedownCourse(r) == Request(r, "TakedownCourse", "archived", "keep")

RestoreCourse(r) == Request(r, "RestoreCourse", "draft", "keep")

\* faulty variant: the comparison with now() is the wrong way round
SweepFindsEarly ==
  /\ tx[Sweep] = Idle
  /\ status = "scheduled" /\ date = "future"
  /\ tx' = [tx EXCEPT ![Sweep] = [at |-> "due"]]
  /\ UNCHANGED <<row, lock, ready, seen, begun, faults>>

\* sweepScheduledPublishes lists the courses that are due ...
SweepFinds ==
  /\ tx[Sweep] = Idle
  /\ status = "scheduled" /\ date = "past"
  /\ tx' = [tx EXCEPT ![Sweep] = [at |-> "due"]]
  /\ UNCHANGED <<row, lock, ready, seen, begun, faults>>

\* ... and publishOneScheduledCourse reads each again in its transaction,
SweepBegins ==
  /\ tx[Sweep].at = "due"
  /\ status = "scheduled" /\ ready
  /\ Start(Sweep, "Sweep", "published", "none")
  /\ UNCHANGED begun

\* where it may leave it for a later sweep.
SweepSkips ==
  /\ tx[Sweep].at = "due"
  /\ status # "scheduled" \/ ~ready
  /\ tx' = [tx EXCEPT ![Sweep] = Idle]
  /\ UNCHANGED <<row, lock, ready, seen, begun, faults>>

-----------------------------------------------------------------------------
(* The transaction                                                         *)

Goto(t, at) == tx' = [tx EXCEPT ![t].at = at]

\* UPDATE or DELETE of the course, which waits for the row
Update(t) ==
  /\ tx[t].at = "begun"
  /\ status # "deleted" /\ lock = Nobody
  /\ lock' = t
  /\ Goto(t, "updated")
  /\ UNCHANGED <<row, ready, seen, begun, faults>>

\* No row is left to update: the request changes nothing.
UpdateMisses(t) ==
  /\ tx[t].at = "begun" /\ status = "deleted"
  /\ tx' = [tx EXCEPT ![t] = Idle]
  /\ UNCHANGED <<row, lock, ready, seen, begun, faults>>

\* Snapshot: the number of the next version ...
Number(t) ==
  /\ tx[t].at = "updated" /\ tx[t].op \in Snapshotters
  /\ tx' = [tx EXCEPT ![t].at = "numbered", ![t].number = versions + 1]
  /\ UNCHANGED <<row, lock, ready, seen, begun, faults>>

\* ... and its row, under UNIQUE (course_id, version_number).
Insert(t) ==
  /\ tx[t].at = "numbered" /\ tx[t].number > versions
  /\ Goto(t, "written")
  /\ UNCHANGED <<row, lock, ready, seen, begun, faults>>

\* faulty variant: the URL is left to its lifetime
RevokeNothing(t) ==
  /\ tx[t].at = "updated" /\ tx[t].op = "UnpublishCourse"
  /\ Goto(t, "revoked")
  /\ UNCHANGED <<row, lock, ready, seen, begun, faults>>

\* RevokeSignedURLsForCourse clears the URL it finds and so holds its row.
Revoke(t) ==
  /\ tx[t].at = "updated" /\ tx[t].op = "UnpublishCourse"
  /\ revoking' = longURL
  /\ Goto(t, "revoked")
  /\ UNCHANGED <<row, lock, ready, shown, longURL, refresh, begun, faults>>

Dropping(t) ==
  /\ tx[t].at = "revoked" \/ (tx[t].at = "written" /\ tx[t].op = "PublishCourse")
  /\ Goto(t, "dropped")
  /\ UNCHANGED <<row, lock, ready, visit, longURL, refresh, revoking, begun>>

\* PublishCourse and UnpublishCourse drop the cached catalog before they
\* commit ...
Invalidate(t) ==
  /\ Dropping(t)
  /\ catalog' = "empty" /\ unreached' = unreached \ {"catalog"}
  /\ UNCHANGED faults

\* ... unless the cache does not answer, which nobody notices.
InvalidateFails(t) ==
  /\ Dropping(t) /\ Fault
  /\ unreached' = unreached \cup {"catalog"}
  /\ UNCHANGED catalog

Done(t) ==
  \/ tx[t].at = "dropped"
  \/ tx[t].at = "written" /\ tx[t].op # "PublishCourse"
  \/ tx[t].at = "updated" /\ tx[t].op \notin Snapshotters \cup {"UnpublishCourse"}

Release(t) ==
  /\ tx' = [tx EXCEPT ![t] = Idle]
  /\ lock' = IF lock = t THEN Nobody ELSE lock
  /\ revoking' = (revoking /\ lock # t)

\* The transaction that holds the row will put the course on the public site
\* or take it off.
Changing ==
  /\ lock # Nobody
  /\ tx[lock].to # "same" /\ (tx[lock].to = "published") # (status = "published")

\* What a change of the status leaves behind: whoever read the old one and has
\* not stored yet, and the views its handler does not touch.
Missed(t) ==
  {v \in Visitors : visit[v] # "idle"} \cup {l \in Authors : refresh[l] # "idle"}
  \cup (IF tx[t].op \in {"PublishCourse", "UnpublishCourse"} THEN {} ELSE {"catalog"})
  \cup (IF tx[t].op = "UnpublishCourse" THEN {} ELSE {"url"})

Commit(t) ==
  /\ Done(t)
  /\ Release(t)
  /\ status' = IF tx[t].to = "same" THEN status ELSE tx[t].to
  /\ date' = IF tx[t].date = "keep" THEN date ELSE tx[t].date
  /\ versions' = CASE tx[t].to = "deleted" -> 0
                    [] tx[t].number > 0     -> tx[t].number
                    [] OTHER                -> versions
  /\ longURL' = (longURL /\ ~revoking /\ tx[t].to # "deleted")
  /\ unreached' = IF Changing THEN unreached \cup Missed(t) ELSE unreached
  /\ UNCHANGED <<ready, catalog, visit, refresh, begun, faults>>

\* faulty variant: the transaction goes on after a failed snapshot
FailInside(t) ==
  /\ tx[t].at = "numbered" /\ Fault
  /\ tx' = [tx EXCEPT ![t].at = "written", ![t].number = 0]
  /\ UNCHANGED <<row, lock, ready, seen, begun>>

\* A statement or the commit fails, or the process dies: all is rolled back.
Fail(t) ==
  /\ tx[t].at \notin {"idle", "due"} /\ Fault
  /\ Release(t)
  /\ UNCHANGED <<row, ready, shown, longURL, refresh, begun>>

-----------------------------------------------------------------------------
(* Visitors and asset URLs                                                 *)

Marked(x, late) == IF late THEN unreached \cup {x} ELSE unreached \ {x}

\* GetOrLoad, when the catalog is not cached or the cache does not answer
Load(v) ==
  /\ visit[v] = "idle"
  /\ \/ catalog = "empty" /\ UNCHANGED faults
     \/ catalog # "empty" /\ Fault
  /\ visit' = [visit EXCEPT ![v] = IF status = "published" THEN "shown" ELSE "hidden"]
  /\ unreached' = Marked(v, Changing)
  /\ UNCHANGED <<row, lock, tx, ready, catalog, longURL, refresh, revoking, begun>>

\* What was loaded is stored, or the cache does not answer.
Store(v) ==
  /\ visit[v] # "idle"
  /\ visit' = [visit EXCEPT ![v] = "idle"]
  /\ \/ /\ catalog' = visit[v]
        /\ unreached' = Marked("catalog", v \in unreached \/ Changing) \ {v}
     \/ UNCHANGED catalog /\ unreached' = unreached \ {v}
  /\ UNCHANGED <<row, lock, tx, ready, longURL, refresh, revoking, begun, faults>>

\* catalogTTL has passed.
Expire ==
  /\ catalog # "empty"
  /\ catalog' = "empty" /\ unreached' = unreached \ {"catalog"}
  /\ UNCHANGED <<row, lock, tx, ready, visit, longURL, refresh, revoking, begun, faults>>

\* RefreshAssetURL: signedURLTTL picks the lifetime from the status ...
ChooseTTL(l) ==
  /\ refresh[l] = "idle" /\ status # "deleted"
  /\ refresh' = [refresh EXCEPT ![l] = IF status = "published" THEN "long" ELSE "short"]
  /\ unreached' = Marked(l, Changing)
  /\ UNCHANGED <<row, lock, tx, ready, catalog, visit, longURL, revoking, begun, faults>>

\* ... and the URL the storage service returned is saved with it, once the
\* asset's row is free, or the request fails or finds the asset gone.
SaveURL(l) ==
  /\ refresh[l] # "idle" /\ ~revoking
  /\ refresh' = [refresh EXCEPT ![l] = "idle"]
  /\ \/ /\ status # "deleted"
        /\ longURL' = (refresh[l] = "long")
        /\ unreached' = Marked("url", l \in unreached \/ Changing) \ {l}
     \/ UNCHANGED longURL /\ unreached' = unreached \ {l}
  /\ UNCHANGED <<row, lock, tx, ready, catalog, visit, revoking, begun, faults>>

\* The URL's lifetime has passed.
URLExpires ==
  /\ longURL /\ longURL' = FALSE
  /\ UNCHANGED <<row, lock, tx, ready, shown, refresh, revoking, begun, faults>>

-----------------------------------------------------------------------------
(* The environment                                                         *)

DateComes ==
  /\ date = "future"
  /\ date' = "past"
  /\ UNCHANGED <<status, versions, lock, tx, ready, seen, begun, faults>>

\* A video is added, processed or fails.
VideosChange ==
  /\ Fault
  /\ ready' = ~ready
  /\ UNCHANGED <<row, lock, tx, seen, begun>>

-----------------------------------------------------------------------------
Handle(r) ==
  \/ TransitionCourse(r) \/ PublishCourse(r) \/ UnpublishCourse(r)
  \/ UpdateCourse(r) \/ DeleteCourse(r) \/ RestoreCourseVersion(r)
  \/ CourseEditorTransition(r) \/ CourseEditorPublish(r) \/ CourseEditorUnpublish(r)
  \/ TakedownCourse(r) \/ RestoreCourse(r)


Finishing(t) ==
  \/ UpdateMisses(t) \/ Number(t) \/ Insert(t)
  \/ Revoke(t) \/ Invalidate(t) \/ InvalidateFails(t) \/ Commit(t)

Run(t) == Update(t) \/ Finishing(t) \/ Fail(t)

Next ==
  \/ \E r \in Requests : Handle(r)
  \/ \E t \in Tx : Run(t)
  \/ SweepFinds \/ SweepBegins \/ SweepSkips
  \/ \E v \in Visitors : Load(v) \/ Store(v)
  \/ \E l \in Authors : ChooseTTL(l) \/ SaveURL(l)
  \/ Expire \/ URLExpires \/ DateComes \/ VideosChange

\* Postgres hands a row to its waiters in turn; a transaction that can go on
\* does; the sweep runs every minute.
Fairness ==
  /\ \A t \in Tx : SF_vars(Update(t)) /\ WF_vars(Finishing(t))
  /\ WF_vars(SweepFinds) /\ WF_vars(SweepBegins \/ SweepSkips)

Spec == Init /\ [][Next]_vars /\ Fairness

-----------------------------------------------------------------------------
(* Properties                                                              *)

\* Every transaction keeps its shape, and only a request that schedules the
\* course carries a date of its own.
TypeOK ==
  /\ status \in Statuses \cup {"deleted"} /\ date \in Dates /\ versions \in Nat
  /\ lock \in Tx \cup {Nobody}
  /\ tx \in [Tx -> {Idle, [at |-> "due"]} \cup Busy]
  /\ \A t \in Tx : tx[t] \in Busy /\ tx[t].date \in {"future", "past"}
                     => tx[t].to = "scheduled"
  /\ ready \in BOOLEAN
  /\ catalog \in {"empty", "shown", "hidden"}
  /\ visit \in [Visitors -> {"idle", "shown", "hidden"}]
  /\ longURL \in BOOLEAN
  /\ refresh \in [Authors -> {"idle", "short", "long"}]
  /\ revoking \in BOOLEAN
  /\ unreached \subseteq Visitors \cup Authors \cup {"catalog", "url"}
  /\ begun \in 0..MaxRequests /\ faults \in 0..MaxFaults

\* The number a snapshot computed is still the next one when it is inserted
\* and when it is committed, whatever runs beside it: no publish or restore
\* fails on UNIQUE (course_id, version_number), and no number is skipped.
VersionsNumbered ==
  \A t \in Tx :
    /\ tx[t].at = "numbered" => tx[t].number = versions + 1
    /\ tx[t].at = "written"  => tx[t].number = versions + 1
    /\ tx[t].at = "dropped" /\ tx[t].op = "PublishCourse" => tx[t].number = versions + 1

\* Nothing a request decided while the course existed brings it, its date or
\* its versions back after DeleteCourse committed.
DeletedStays == [][status = "deleted" => row' = row]_vars

Publishing(t) == tx[t].at \in {"updated", "numbered", "written", "dropped"} /\ tx[t].op \in Publishers

\* "Publish always snapshots": the status set by PublishCourse, by
\* CourseEditorPublish, which drops the error of Snapshot, or by the sweep
\* is never committed without the new version, nor the version without it.
PublishSnapshots ==
  [][\A t \in Tx :
       Publishing(t) /\ lock = t /\ lock' # t =>
         \/ UNCHANGED row
         \/ status' = "published" /\ versions' = versions + 1]_vars

\* The edges the handlers' comments document, and what a platform owner may
\* force on any course.
Documented(from, to) ==
  \/ to \in validTransitions[from]
  \/ from = "unpublished" /\ to = "published"
  \/ from = "draft" /\ to = "deleted"

\* "Transitions outside this documented flow must never silently apply": the
\* status moves along a documented edge, or by the hand of a platform owner.
DocumentedEdges ==
  [][status' # status =>
       \/ Documented(status, status')
       \/ lock # Nobody /\ tx[lock].op \in Admin]_vars

\* A scheduled course whose date has come and whose videos are processed
\* does not stay that way.
Due == status = "scheduled" /\ date = "past" /\ ready
DuePublished == Due ~> ~Due

\* The public catalog differs from the status, and a URL with the lifetime of
\* a published course outlives its publication, only if the last change did
\* not reach them: they were read before it or while it was under way and
\* stored after it had dropped the old ones, they were left by a handler that
\* drops none, or the cache did not answer.  In particular an unpublish leaves
\* neither an entry nor a long URL of anybody who was done when it began
\* ("must not remain trustable after unpublish").
ViewsFollowStatus ==
  /\ catalog = "shown" /\ status # "published" => "catalog" \in unreached
  /\ catalog = "hidden" /\ status = "published" => "catalog" \in unreached
  /\ longURL /\ status # "published" => "url" \in unreached
=============================================================================
