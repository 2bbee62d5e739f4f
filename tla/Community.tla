------------------------------ MODULE Community ------------------------------
(***************************************************************************)
(* Discussion threads of an organisation, their moderation, and the        *)
(* worker's notifications: a row in the recipient's list and, as the       *)
(* recipient chose, an e-mail with a link to unsubscribe.                  *)
(*                                                                         *)
(* A task is enqueued before the request commits, and a task that fails    *)
(* at one recipient starts again at the first.                             *)
(***************************************************************************)
EXTENDS Tenancy, FiniteSetsExt

CONSTANTS
    Threads, Posts, Reports,
    Jobs,            \* bound: tasks of the worker
    Tries,           \* bound: asynq's attempts at a task
    Chatters,        \* bound: the users who write, react and choose
    Chosen,          \* bound: the categories they change
    Nobody           \* no parent, no recipient

ASSUME CommunityAssumption ==
    /\ Nobody \notin Users \cup Jobs /\ Chatters \subseteq Users
    /\ IsFiniteSet(Jobs) /\ Tries \in Nat \ {0}

Kinds == {"mention", "reply", "report_filed", "broadcast"}
Categories == {"mentions", "replies", "broadcasts"}
CategoryOf(kind) == CASE kind = "mention" -> "mentions" [] kind = "reply" -> "replies"
                      [] kind = "broadcast" -> "broadcasts" [] OTHER -> Nobody

VARIABLES
    thread,      \* thread -> its row, {} without one
    post,        \* post -> its row, {} without one
    drafting,    \* post -> the open request of CreatePost, {} without one
    reactions,   \* post, user
    report,      \* report -> its row, {} without one
    job,         \* task -> what the worker has done of it
    inbox,       \* user, task -> notifications written
    unread,      \* user, task -> those not read
    alert,       \* task -> its system alert: "none", "open", "resolved"
    mails,       \* user, task -> e-mails sent
    choice,      \* user, category -> "on", "off", "unset" without a row
    links        \* user, category -> unsubscribe tokens that are not used

forumVars == <<thread, post, drafting, reactions, report>>
noticeVars == <<job, alert, inbox, unread, mails, choice, links>>
communityVars == <<forumVars, noticeVars>>
-----------------------------------------------------------------------------
\* stampOrgContext: members, whether or not the organisation is frozen, and
\* platform owners without a membership.
Enters(u) == org \in {"open", "closed"} /\ (IsMember(u) \/ u \in PlatformOwners)

\* The policies of the tables let only members insert.
Belongs(u) == Enters(u) /\ IsMember(u)

\* RequireRole and isModeratorOrOwner let a platform owner who is no member
\* pass; the policies then ask for a moderator or the row's author.
IsModeratorOrOwner(u) == Enters(u) /\ (IsMember(u) => role[u] \in {"owner", "moderator"})
Moderates(u) == Belongs(u) /\ IsModeratorOrOwner(u)
MayUpdate(u, author) == author = u \/ Moderates(u)

Ready == [kind |-> "none", recipient |-> Nobody, state |-> "none", try |-> 0, to |-> {}, left |-> {},
          at |-> Nobody, step |-> "none", overtaken |-> FALSE]
FreeJobs == {j \in Jobs : job[j].state = "none"}
Enqueue(j, kind, recipient) ==
    job' = [job EXCEPT ![j] = [Ready EXCEPT !.kind = kind, !.recipient = recipient, !.state = "queued"]]

PutThread(handler, t, u) ==
    /\ handler \in team /\ thread[t] = {}
    /\ thread' = [thread EXCEPT ![t] = {[by |-> u, ofCourse |-> handler = "CreateCourseThread",
                                               locked |-> FALSE, pinned |-> FALSE]}]
    /\ UNCHANGED <<tenancyVars, post, drafting, reactions, report, noticeVars>>
CreateOrgThread(t, u) == Resolves(u) /\ IsMember(u) /\ PutThread("CreateOrgThread", t, u)
CreateCourseThread(t, u) == Belongs(u) /\ PutThread("CreateCourseThread", t, u)

SetThread(handler, t, u, field) ==
    /\ handler \in team /\ IsModeratorOrOwner(u)
    /\ \E row \in thread[t], value \in BOOLEAN :
          MayUpdate(u, row.by) /\ thread' = [thread EXCEPT ![t] = {[row EXCEPT ![field] = value]}]
    /\ drafting' = [p \in Posts |-> {[d EXCEPT !.overtaken = TRUE] : d \in drafting[p]}]
    /\ UNCHANGED <<tenancyVars, post, reactions, report, noticeVars>>
SetThreadPinned(t, u) == SetThread("SetThreadPinned", t, u, "pinned")
SetThreadLocked(t, u) == SetThread("SetThreadLocked", t, u, "locked")

\* The middleware reads the thread, the handler the parent: a post of the
\* same thread that is not itself a reply.
BeginPost(p, u) ==
    /\ "CreatePost" \in team /\ Belongs(u) /\ post[p] = {} /\ drafting[p] = {}
    /\ \E t \in Threads, parent \in Posts \cup {Nobody}, mentioned \in Users \cup {Nobody} :
          /\ \E row \in thread[t] : ~row.locked
          /\ parent # Nobody => \E q \in post[parent] : q.thread = t /\ q.parent = Nobody
          /\ drafting' = [drafting EXCEPT ![p] = {[thread |-> t, parent |-> parent, author |-> u,
                                                   mentioned |-> mentioned, overtaken |-> FALSE]}]
    /\ UNCHANGED <<tenancyVars, thread, post, reactions, report, noticeVars>>

NewPost(d) == {[thread |-> d.thread, parent |-> d.parent, author |-> d.author, status |-> "visible"]}

\* fanOutMentions: members other than the author.
Mentioned(d) == {u \in Users \ {d.author} : u = d.mentioned /\ IsMember(u)}
RepliedTo(d) == IF d.parent = Nobody THEN {} ELSE {q.author : q \in post[d.parent]} \ {d.author}

\* One task for the mention and one for the reply; Redis may refuse either.
NotifyPost(d) ==
    \E jobs \in [Mentioned(d) \X {"mention"} \cup RepliedTo(d) \X {"reply"} -> FreeJobs \cup {Nobody}] :
        /\ \A a, b \in DOMAIN jobs : a # b /\ jobs[a] = jobs[b] => jobs[a] = Nobody
        /\ job' = [j \in Jobs |->
              IF \E a \in DOMAIN jobs : jobs[a] = j
              THEN LET a == CHOOSE a \in DOMAIN jobs : jobs[a] = j
                   IN  [Ready EXCEPT !.kind = a[2], !.recipient = a[1], !.state = "queued"]
              ELSE job[j]]

\* The tasks are out whether or not the transaction commits.
CreatePost(p) ==
    /\ \E d \in drafting[p] :
          /\ NotifyPost(d)
          /\ post' = [post EXCEPT ![p] = NewPost(d)] \/ UNCHANGED post
    /\ drafting' = [drafting EXCEPT ![p] = {}]
    /\ UNCHANGED <<tenancyVars, thread, reactions, report, alert, inbox, unread, mails, choice, links>>

SetPost(handler, p, u, status) ==
    /\ handler \in team /\ Enters(u)
    /\ \E q \in post[p] :
          MayUpdate(u, q.author) /\ post' = [post EXCEPT ![p] = {[q EXCEPT !.status = status]}]
    /\ UNCHANGED <<tenancyVars, thread, drafting, reactions, report, noticeVars>>

HidePost(p, u) == IsModeratorOrOwner(u) /\ SetPost("HidePost", p, u, "hidden")
\* Deleted or edited by the author or a moderator, visible or not.
DeletePost(p, u) == SetPost("DeletePost", p, u, "deleted")
\* mutant: an edit publishes again
EditPostShown(p, u) == SetPost("EditPost", p, u, "visible")
\* The body is not modelled; whom the new one mentions is not told.
EditPost(p, u) ==
    /\ "EditPost" \in team /\ Enters(u)
    /\ \E q \in post[p] : MayUpdate(u, q.author) /\ post' = [post EXCEPT ![p] = {q}]
    /\ UNCHANGED <<tenancyVars, thread, drafting, reactions, report, noticeVars>>

ReactToPost(p, u) ==
    /\ "ReactToPost" \in team /\ Belongs(u) /\ post[p] # {}
    /\ reactions' = reactions \cup {<<p, u>>}
    /\ UNCHANGED <<tenancyVars, thread, post, drafting, report, noticeVars>>
Unreact(p, u) ==
    /\ "ReactToPost" \in team /\ Enters(u) /\ post[p] # {}
    /\ reactions' = reactions \ {<<p, u>>}
    /\ UNCHANGED <<tenancyVars, thread, post, drafting, report, noticeVars>>

\* What a reader of the thread gets.
GetThread(t) == {p \in Posts : \E q \in post[p] : q.thread = t /\ q.status = "visible"}

ReportPost(r, p, u, j) ==
    /\ "ReportPost" \in team /\ Belongs(u) /\ post[p] # {} /\ report[r] = {}
    /\ report' = [report EXCEPT ![r] = {[post |-> p, status |-> "open"]}] \/ UNCHANGED report
    /\ Enqueue(j, "report_filed", Nobody) \/ UNCHANGED job
    /\ UNCHANGED <<tenancyVars, thread, post, drafting, reactions, alert, inbox, unread, mails, choice, links>>

\* A report that is closed already is closed again.
CloseReport(handler, r, u, status) ==
    /\ handler \in team /\ Moderates(u) /\ Resolves(u)
    /\ \E row \in report[r] : report' = [report EXCEPT ![r] = {[row EXCEPT !.status = status]}]
    /\ UNCHANGED <<tenancyVars, thread, post, drafting, reactions, noticeVars>>
ResolveReport(r, u) == CloseReport("ResolveReport", r, u, "resolved")
DismissReport(r, u) == CloseReport("DismissReport", r, u, "dismissed")
-----------------------------------------------------------------------------
CreateBroadcast(j, u) ==
    /\ "CreateBroadcast" \in team /\ HasRole(u, {"owner", "teacher"})
    /\ Enqueue(j, "broadcast", Nobody)
    /\ UNCHANGED <<tenancyVars, forumVars, alert, inbox, unread, mails, choice, links>>

\* Whom an attempt is for, from the memberships it reads.
Recipients(j) ==
    CASE job[j].kind = "broadcast" -> {u \in Users : IsMember(u)}
      [] job[j].kind = "report_filed" -> {u \in Users : role[u] \in {"owner", "moderator"}}
      [] OTHER -> {job[j].recipient}

\* The worker is a process of its own: it may be down, and the tasks wait.
Attempt(j) ==
    /\ "Dispatch" \in team /\ job[j].state = "queued"
    /\ job' = [job EXCEPT ![j].state = "running", ![j].try = @ + 1, ![j].to = Recipients(j), ![j].left = Recipients(j)]
    /\ UNCHANGED <<tenancyVars, forumVars, alert, inbox, unread, mails, choice, links>>

\* dispatch: the row comes first, outside any transaction.
WriteNotification(j, u) ==
    /\ job[j].state = "running" /\ job[j].at = Nobody /\ u \in job[j].left
    /\ job' = [job EXCEPT ![j].at = u, ![j].step = "written"]
    /\ inbox' = [inbox EXCEPT ![u][j] = @ + 1] /\ unread' = [unread EXCEPT ![u][j] = @ + 1]
    /\ UNCHANGED <<tenancyVars, forumVars, alert, mails, choice, links>>

\* mutant: no row counts as off, and everything else as on
IsEmailEnabledUnset(u, kind) == CategoryOf(kind) # Nobody => choice[u][CategoryOf(kind)] # "unset"

\* Report mails follow the profile's opt-out alone, which nothing sets.
IsEmailEnabled(u, kind) == CategoryOf(kind) # Nobody => choice[u][CategoryOf(kind)] # "off"

ReachedNext(j) == job' = [job EXCEPT ![j].left = @ \ {job[j].at}, ![j].at = Nobody, ![j].step = "none",
                                     ![j].overtaken = FALSE]

ReadChoice(j) ==
    /\ job[j].step = "written"
    /\ LET u == job[j].at IN
       IF IsEmailEnabled(u, job[j].kind)
       THEN /\ links' = [links EXCEPT ![u][CategoryOf(job[j].kind)] = @ + 1]
            /\ job' = [job EXCEPT ![j].step = "mailing", ![j].overtaken = FALSE]
       ELSE ReachedNext(j) /\ UNCHANGED links
    /\ UNCHANGED <<tenancyVars, forumVars, alert, inbox, unread, mails, choice>>

SendEmail(j) ==
    /\ job[j].step = "mailing"
    /\ mails' = [mails EXCEPT ![job[j].at][j] = @ + 1]
    /\ ReachedNext(j)
    /\ UNCHANGED <<tenancyVars, forumVars, alert, inbox, unread, choice, links>>

\* mutant: a recipient who fails is passed over
FailedPassesOver(j) ==
    /\ job[j].state = "running"
    /\ \E u \in job[j].left : job' = [job EXCEPT ![j].left = @ \ {u}, ![j].at = Nobody, ![j].step = "none"]
    /\ UNCHANGED <<tenancyVars, forumVars, alert, inbox, unread, mails, choice, links>>

\* An error, or the worker's end, anywhere: another attempt, or none is left
\* and an alert is recorded, if the database takes it.
Failed(j) ==
    /\ job[j].state = "running"
    /\ job' = [job EXCEPT ![j].state = IF job[j].try < Tries THEN "queued" ELSE "archived",
                          ![j].left = {}, ![j].at = Nobody, ![j].step = "none", ![j].overtaken = FALSE]
    /\ \/ UNCHANGED alert
       \/ job[j].try = Tries /\ alert' = [alert EXCEPT ![j] = "open"]
    /\ UNCHANGED <<tenancyVars, forumVars, inbox, unread, mails, choice, links>>

\* A platform owner's; an alert that is resolved is not found.
ListAlerts == {j \in Jobs : alert[j] = "open"}
ResolveAlert(j) ==
    /\ "ResolveAlert" \in team /\ j \in ListAlerts
    /\ alert' = [alert EXCEPT ![j] = "resolved"]
    /\ UNCHANGED <<tenancyVars, forumVars, job, inbox, unread, mails, choice, links>>

Finish(j) ==
    /\ job[j].state = "running" /\ job[j].left = {}
    /\ job' = [job EXCEPT ![j].state = "done"]
    /\ UNCHANGED <<tenancyVars, forumVars, alert, inbox, unread, mails, choice, links>>
-----------------------------------------------------------------------------
ReadOne(u, j) ==
    /\ "MarkNotificationRead" \in team /\ unread[u][j] > 0
    /\ unread' = [unread EXCEPT ![u][j] = @ - 1]
    /\ UNCHANGED <<tenancyVars, forumVars, job, alert, inbox, mails, choice, links>>
\* What the bell shows.
ListNotifications(u) == {j \in Jobs : inbox[u][j] > 0}
NotificationsUnreadCount(u) == MapThenSumSet(LAMBDA j : unread[u][j], Jobs)

MarkAllNotificationsRead(u) ==
    /\ "MarkNotificationRead" \in team
    /\ unread' = [unread EXCEPT ![u] = [j \in Jobs |-> 0]]
    /\ UNCHANGED <<tenancyVars, forumVars, job, alert, inbox, mails, choice, links>>

ChoiceChanged(u) == [j \in Jobs |-> IF job[j].at = u THEN [job[j] EXCEPT !.overtaken = TRUE] ELSE job[j]]

\* The page: a category without a row is on.
GetNotificationPreferences(u) == {c \in Categories : choice[u][c] # "off"}

UpdateNotificationPreference(u) ==
    /\ "UpdateNotificationPreference" \in team /\ Resolves(u) /\ IsMember(u)
    /\ \E c \in Chosen, value \in {"on", "off"} :
          choice' = [choice EXCEPT ![u][c] = value]
    /\ job' = ChoiceChanged(u)
    /\ UNCHANGED <<tenancyVars, forumVars, alert, inbox, unread, mails, links>>

\* resolve_unsubscribe: without a category it changes the rows there are.
SwitchedOff(u, c) ==
    [k \in Categories |-> IF k = c \/ (c = Nobody /\ choice[u][k] # "unset") THEN "off" ELSE choice[u][k]]

\* The link of a mail that arrived.
Unsubscribe(u, j) ==
    LET c == CategoryOf(job[j].kind) IN
    /\ "Unsubscribe" \in team /\ mails[u][j] > 0 /\ links[u][c] > 0
    /\ links' = [links EXCEPT ![u][c] = @ - 1]
    /\ choice' = [choice EXCEPT ![u] = SwitchedOff(u, c)]
    /\ job' = ChoiceChanged(u)
    /\ UNCHANGED <<tenancyVars, forumVars, alert, inbox, unread, mails>>
-----------------------------------------------------------------------------
CommunityInit ==
    /\ thread = [t \in Threads |-> {}] /\ post = [p \in Posts |-> {}] /\ drafting = [p \in Posts |-> {}]
    /\ reactions = {} /\ report = [r \in Reports |-> {}]
    /\ job = [j \in Jobs |-> Ready] /\ alert = [j \in Jobs |-> "none"]
    /\ inbox = [u \in Users |-> [j \in Jobs |-> 0]] /\ unread = inbox /\ mails = inbox
    /\ choice = [u \in Users |-> [c \in Categories |-> "unset"]]
    /\ links = [u \in Users |-> [c \in Categories \cup {Nobody} |-> 0]]

CommunityNext ==
    \/ \E t \in Threads, u \in Chatters :
          CreateOrgThread(t, u) \/ CreateCourseThread(t, u) \/ SetThreadPinned(t, u) \/ SetThreadLocked(t, u)
    \/ \E p \in Posts, u \in Chatters :
          \/ BeginPost(p, u) \/ HidePost(p, u) \/ DeletePost(p, u) \/ EditPost(p, u)
          \/ ReactToPost(p, u) \/ Unreact(p, u)
          \/ \E r \in Reports, j \in FreeJobs : ReportPost(r, p, u, j)
    \/ \E p \in Posts : CreatePost(p)
    \/ \E r \in Reports, u \in Chatters : ResolveReport(r, u) \/ DismissReport(r, u)
    \/ \E j \in FreeJobs, u \in Chatters : CreateBroadcast(j, u)
    \/ \E j \in Jobs : Attempt(j) \/ ReadChoice(j) \/ SendEmail(j) \/ Failed(j) \/ Finish(j) \/ ResolveAlert(j)
    \/ \E j \in Jobs, u \in Users : WriteNotification(j, u)
    \/ \E u \in Chatters : MarkAllNotificationsRead(u) \/ UpdateNotificationPreference(u)
    \/ \E u \in Chatters, j \in Jobs : ReadOne(u, j) \/ Unsubscribe(u, j)

CommunitySpec == CommunityInit /\ [][CommunityNext]_communityVars
-----------------------------------------------------------------------------
\* A moderator's word stands: what was taken out of a thread is not shown in it
\* again, and nothing is added to a locked thread except by a request that
\* found it open.
ModerationHolds ==
    [][\A t \in Threads : \A p \in GetThread(t)' \ GetThread(t) :
          post[p] = {} /\ \A row \in thread[t], d \in drafting[p] : ~row.locked \/ d.overtaken]_communityVars

\* A task that is done has reached everybody its last attempt was for - a
\* broadcast every member, though one recipient's failure starts it again -
\* and nobody has more notifications or mails of it than it had attempts; an
\* alert is about a task that has none left.
DeliveredToAll ==
    \A j \in Jobs, u \in Users :
        /\ job[j].state = "done" /\ u \in job[j].to => j \in ListNotifications(u)
        /\ inbox[u][j] <= job[j].try /\ mails[u][j] <= inbox[u][j] /\ unread[u][j] <= inbox[u][j]
        /\ NotificationsUnreadCount(u) > 0 => ListNotifications(u) # {}
        /\ j \in ListAlerts => job[j].state = "archived" /\ job[j].try = Tries

\* A mail goes only to those who did not switch its category off - by the
\* preferences or by the link of an earlier mail - before the worker read it,
\* and those who never chose are written to.
MailRespectsChoice ==
    [][\A u \in Users, j \in Jobs : LET c == CategoryOf(job[j].kind) IN
          /\ mails[u][j] < mails'[u][j] /\ c # Nobody => c \in GetNotificationPreferences(u) \/ job[j].overtaken
          /\ job[j].step = "written" /\ job[j].at = u /\ job'[j].at # u /\ job'[j].state = "running"
                => c # Nobody /\ c \notin GetNotificationPreferences(u)]_communityVars
=============================================================================
