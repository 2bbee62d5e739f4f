------------------------------- MODULE Uploads -------------------------------
(***************************************************************************)
(* Videos and files that authors upload: the video library an organisation *)
(* gets with its first video, the asset rows, what the storage services    *)
(* hold, and the reports of the video service about its encoding, which    *)
(* the worker writes to the rows in whatever order the tasks run.          *)
(***************************************************************************)
EXTENDS Tenancy

CONSTANTS
    Videos, Files,   \* assets that may be uploaded
    Libraries,       \* libraries the video service may provision
    NoLibrary,
    Uploads,         \* bound: uploads of videos at a time
    MaxReports       \* bound: reports of the service

ASSUME UploadsAssumption ==
    /\ NoLibrary \notin Libraries /\ NoPlan \notin Videos
    /\ Videos \intersect Files = {}

VARIABLES
    library,   \* bunny_library_id of the organisation
    made,      \* libraries the video service has provisioned
    asset,     \* asset -> processing_status of its row, "none" without one
    upload,    \* uploads of videos in progress
    video,     \* at the video service: library and reports; ghosts of the upload and the tasks
    object,    \* at the storage service: file -> "none", "fits", "large"
    tasks,     \* transcode tasks: video, number of the report, status
    bound      \* processes whose database role row security binds

uploadVars == <<library, made, asset, upload, video, object, tasks, bound>>

\* Both processes open a pool from the URL they are configured with: the
\* policies are written for a server they bind, the worker's tasks for a role
\* they do not bind, and one URL for both binds both or neither.
Processes == {"server", "worker"}
MemberIfBound(u) == "server" \in bound => IsMember(u)
Uploaders == {u \in Users : HasRole(u, {"owner", "teacher"}) /\ MemberIfBound(u)}

-----------------------------------------------------------------------------
(* A video: the request reads the library, provisions one when there is    *)
(* none, creates the video in it and commits the asset                     *)

NoUpload == [who |-> NoPlan, video |-> NoPlan, library |-> NoLibrary, new |-> FALSE, alone |-> TRUE]
OpenUploads == {h \in Uploads : upload[h] # NoUpload}

MayUpload(h, u, v) ==
    /\ "UploadVideo" \in team /\ u \in Uploaders
    /\ upload[h] = NoUpload /\ asset[v] = "none" /\ \A o \in Uploads : upload[o].video # v

\* mutant: the library is provisioned for every upload
UploadVideoAnew(h, u, v) ==
    /\ MayUpload(h, u, v)
    /\ upload' = [upload EXCEPT ![h] = [NoUpload EXCEPT !.who = u, !.video = v, !.alone = OpenUploads = {}]]
    /\ UNCHANGED <<tenancyVars, library, made, asset, video, object, tasks, bound>>

UploadVideo(h, u, v) ==
    /\ MayUpload(h, u, v)
    /\ upload' = [o \in Uploads |->
          IF o = h THEN [who |-> u, video |-> v, library |-> library, new |-> FALSE, alone |-> OpenUploads = {}]
          ELSE IF o \in OpenUploads THEN [upload[o] EXCEPT !.alone = FALSE] ELSE upload[o]]
    /\ UNCHANGED <<tenancyVars, library, made, asset, video, object, tasks, bound>>

\* The service provisions a library; the row of the organisation, which the
\* policies let its owners write, is locked until the commit.
CreateLibrary(h) ==
    /\ upload[h] # NoUpload /\ upload[h].library = NoLibrary
    /\ "server" \in bound => upload[h].who \in Owners
    /\ \A o \in Uploads : ~upload[o].new
    /\ \E l \in Libraries \ made :
          /\ upload' = [upload EXCEPT ![h].library = l, ![h].new = TRUE]
          /\ made' = made \union {l}
    /\ UNCHANGED <<tenancyVars, library, asset, video, object, tasks, bound>>

CommitUpload(h) ==
    LET e == upload[h]
    IN  /\ e.library # NoLibrary /\ MemberIfBound(e.who)
        /\ video' = [video EXCEPT ![e.video] = [library |-> e.library, said |-> <<>>, alone |-> e.alone,
                                                written |-> 0, disordered |-> FALSE]]
        /\ asset' = [asset EXCEPT ![e.video] = "pending"]
        /\ library' = IF e.new THEN e.library ELSE library
        /\ upload' = [upload EXCEPT ![h] = NoUpload]
        /\ UNCHANGED <<tenancyVars, made, object, tasks, bound>>

\* A refusal of either service, of row security, or of the commit.
DropUpload(h) ==
    /\ upload[h] # NoUpload /\ upload' = [upload EXCEPT ![h] = NoUpload]
    /\ UNCHANGED <<tenancyVars, library, made, asset, video, object, tasks, bound>>

-----------------------------------------------------------------------------
(* The video service reports; the tasks run in any order, again and again  *)

Sayings == UNION {{<<v, n>> : n \in DOMAIN video[v].said} : v \in Videos}

Report(v) ==
    /\ "BunnyWebhook" \in team /\ asset[v] # "none" /\ Cardinality(Sayings) < MaxReports
    /\ \E done \in BOOLEAN : video' = [video EXCEPT ![v].said = Append(@, done)]
    /\ UNCHANGED <<tenancyVars, library, made, asset, upload, object, tasks, bound>>

\* Delivered once, again, or never. Whatever is no success is a failure.
BunnyWebhook(v) ==
    /\ \E n \in DOMAIN video[v].said :
          tasks' = tasks \union {[video |-> v, report |-> n,
                                  status |-> IF video[v].said[n] THEN "ready" ELSE "failed"]}
    /\ UNCHANGED <<tenancyVars, library, made, asset, upload, video, object, bound>>

\* The task may run once more: it is acknowledged after the row is written. A
\* worker that is bound is a member of nothing: it finds no row and fails.
TranscodeComplete(t) ==
    /\ "worker" \notin bound /\ asset[t.video] # "none"
    /\ asset' = [asset EXCEPT ![t.video] = t.status]
    /\ video' = [video EXCEPT ![t.video].written = IF t.report > @ THEN t.report ELSE @,
                              ![t.video].disordered = @ \/ t.report < video[t.video].written]
    /\ tasks' \in {tasks, tasks \ {t}}
    /\ UNCHANGED <<tenancyVars, library, made, upload, object, bound>>

-----------------------------------------------------------------------------
(* A file: a row and a signed URL, the file itself, a confirmation         *)

UploadFile(f) ==
    /\ "UploadFile" \in team /\ Uploaders # {} /\ asset[f] = "none"
    /\ asset' = [asset EXCEPT ![f] = "pending"]
    /\ UNCHANGED <<tenancyVars, library, made, upload, video, object, tasks, bound>>

PutObject(f) ==
    /\ asset[f] # "none" /\ object[f] = "none"
    /\ \E size \in {"fits", "large"} : object' = [object EXCEPT ![f] = size]
    /\ UNCHANGED <<tenancyVars, library, made, asset, upload, video, tasks, bound>>

\* A file that is too large is marked: the 413 commits.
UploadFileComplete(f) ==
    /\ "UploadFileComplete" \in team /\ Uploaders # {}
    /\ asset[f] # "none" /\ object[f] # "none"
    /\ asset' = [asset EXCEPT ![f] = IF object[f] = "fits" THEN "ready" ELSE "failed"]
    /\ UNCHANGED <<tenancyVars, library, made, upload, video, object, tasks, bound>>

-----------------------------------------------------------------------------
UploadsInit ==
    /\ library = NoLibrary /\ made = {}
    /\ asset = [a \in Videos \union Files |-> "none"]
    /\ upload = [h \in Uploads |-> NoUpload]
    /\ video = [v \in Videos |-> [library |-> NoLibrary, said |-> <<>>, alone |-> TRUE,
                                  written |-> 0, disordered |-> FALSE]]
    /\ object = [f \in Files |-> "none"] /\ tasks = {}
    /\ bound \in IF "UploadVideo" \in team THEN SUBSET Processes ELSE {{"server"}}

UploadsNext ==
    \/ \E h \in Uploads : \/ \E u \in Users, v \in Videos : UploadVideo(h, u, v)
                          \/ CreateLibrary(h) \/ CommitUpload(h) \/ DropUpload(h)
    \/ \E v \in Videos : Report(v) \/ BunnyWebhook(v)
    \/ \E t \in tasks : TranscodeComplete(t)
    \/ \E f \in Files : UploadFile(f) \/ PutObject(f) \/ UploadFileComplete(f)

UploadsSpec == UploadsInit /\ [][UploadsNext]_uploadVars

-----------------------------------------------------------------------------
(* Properties                                                              *)

\* The library a playback URL of the asset is built from.
Playback(v) == library

\* A video is played from the library it was uploaded to, unless its upload
\* overlapped another; it is ready when the service said so, and it is what
\* the newest of its reports says once that is written, unless an older one
\* was written after a newer; and a file is ready only if the storage holds it at its size.
ReadyToPlay ==
    /\ \A v \in Videos : asset[v] # "none" =>
          LET e == video[v]
          IN  /\ e.alone => Playback(v) = e.library
              /\ asset[v] = "ready" => \E n \in DOMAIN e.said : e.said[n]
              /\ ~e.disordered /\ e.written = Len(e.said) /\ e.written > 0 =>
                    (asset[v] = "ready") = e.said[Len(e.said)]
    /\ \A f \in Files : asset[f] = "ready" => object[f] = "fits"
=============================================================================
