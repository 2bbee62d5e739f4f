--------------------------- MODULE MCOrganization ---------------------------
(* Two owners, one of them a platform owner too, and an outsider; a plan     *)
(* with room for one course and three members.                               *)
EXTENDS Metering, Scorm, Simulations, Podcasts, Community, Uploads, SignIn

CONSTANTS ann, bob, eve, i1, i2, free, team2, intro, course, nohref, none,
          r1, r2, k1, k2, q1, q2, v1, v2, h1, h2

MCMembers == [u \in {ann, bob, eve} |-> IF u = eve THEN "none" ELSE "owner"]
MCTo == [i \in {i1, i2} |-> IF i = i1 THEN eve ELSE ann]
MCAs == [i \in {i1, i2} |-> IF i = i1 THEN "learner" ELSE "teacher"]
MCSeeded == [p \in {free, team2} |->
               IF p = free THEN {[courses |-> 1, members |-> 3, default |-> TRUE]} ELSE {}]
MCLimits == {[courses |-> 2, members |-> 0], [courses |-> 1, members |-> 2]}
MCPlatformLimit == [code |-> 1, ai |-> 2]
MCCost == [code |-> 1, ai |-> 2]

\* One file at the second level of the outline; none in the outline; refused.
MCFile(id, href, sco) == [id |-> id, href |-> href, sco |-> sco]
MCManifest(schema, outline) ==
    [schema |-> schema, default |-> "o2",
     orgs |-> <<[id |-> "o1", items |-> <<>>], [id |-> "o2", items |-> outline]>>,
     resources |-> <<MCFile("img", nohref, FALSE), MCFile("intro", intro, TRUE), MCFile("course", course, FALSE)>>]
MCItem(ref, below) == [ref |-> ref, items |-> below]
MCNested == <<MCItem("img", <<MCItem("course", <<>>)>>), MCItem("intro", <<>>)>>
MCEmpty == <<MCItem("img", <<>>)>>
MCOutlines == {<<>>, MCNested, Tail(MCNested), MCNested[1].items, MCEmpty}
MCManifests == {MCManifest("1.2", MCNested), MCManifest("CAM 1.3", MCEmpty),
                MCManifest("", MCNested)}
MCBatches == {<<>>, [session_time |-> 1], [session_time |-> 2], [suspend_data |-> "page 1"],
              [lesson_status |-> "passed"], [success_status |-> "failed"]}

MCParameter(name, type) == [name |-> name, type |-> type, options |-> {}, min |-> 0, max |-> 1]
MCBody(p) == [parameters |-> <<p>>, outputs |-> <<>>]
MCChart == [format |-> "dot", source |-> "fits"]
MCArtifacts == {[kind |-> "diagram", diagram |-> MCChart, simulation |-> MCBody(MCParameter("x", "number"))],
                [kind |-> "simulation", diagram |-> MCChart, simulation |-> MCBody(MCParameter("x", "number"))],
                [kind |-> "simulation", diagram |-> none, simulation |-> MCBody(MCParameter("", "number"))],
                [kind |-> "simulation", diagram |-> none, simulation |-> MCBody(MCParameter("x", "select"))]}
MCThresholds == {-1, 0, 2}

\* Which handlers run together in a behaviour.
Roleplay == {"ChangeMemberRole", "RemoveMember"}
Inviting == {"CreateInvitation", "RevokeInvitation", "AcceptInvitation", "DeclineInvitation"}
Joining == {"AcceptInvitation", "ChangeMemberRole"}   \* the invitations are out
Leaving == {"AcceptInvitation", "RemoveMember"}
Growing == {"CreateCourse", "CreatePlan", "UpdatePlan", "AssignOrgPlan"}
Closing == {"CreateOrg", "DeleteOrg", "CreateCourse", "SuspendUser",
            "ReactivateUser", "DeactivateOrg", "ReactivateOrg"}
Running == {"RunCode", "UpdateCodeExecSettings", "NextPeriod"}
Coding == {"SubmitCodeExercise", "CreateCodeExercise", "UpdateCodeExercise",
           "SetCodeExercisePublished", "DeleteCodeExercise"}
Tutoring == {"TutorAsk", "UpdateAISettings"}
Generating == {"GenerateOutline", "TutorAsk", "NextPeriod"}
Authoring == {"GenerateLesson", "GenerateQuiz"}
Packing == {"CreateScormPackage", "UpdateScormPackage", "SetScormPackagePublished",
            "UpdateScormSettings", "LaunchScormPackage"}
Unpacking == {"CreateScormPackage", "DeleteScormPackage", "LaunchScormPackage", "FinishScormAttempt"}
Playing == {"CreateScormPackage", "LaunchScormPackage", "CommitScormRuntime", "FinishScormAttempt"}
Simulating == {"CreateSimulation", "UpdateSimulation", "RecordSimulationProgress"}
Withdrawing == {"CreateSimulation", "DeleteSimulation", "SetSimulationPublished",
                "UpdateSimulationSettings", "RecordSimulationProgress"}
Producing == {"CreatePodcastShow", "UpdatePodcastShow", "DeletePodcastShow", "CreatePodcastEpisode",
              "SetPodcastEpisodePublished", "DeletePodcastEpisode", "UpdatePodcastEpisode",
              "UpdatePodcastSettings"}
Listening == {"CreatePodcastShow", "DeletePodcastShow", "CreatePodcastEpisode",
              "DeletePodcastEpisode", "ReportPodcastProgress"}
Listing == {"CreatePodcastShow", "DeletePodcastShow", "CreatePodcastEpisode", "CreatePodcastPlaylist",
            "DeletePodcastPlaylist", "AddPodcastPlaylistItem", "RemovePodcastPlaylistItem"}
Posting == {"CreateOrgThread", "CreatePost", "SetThreadLocked", "HidePost", "DeletePost", "EditPost"}
Departing == {"RemoveMember", "CreateOrgThread", "SetThreadLocked"}
Flagging == {"CreateCourseThread", "SetThreadPinned", "CreatePost", "ReactToPost", "ReportPost",
             "ResolveReport", "DismissReport"}
Broadcasting == {"Dispatch", "CreateBroadcast", "UpdateNotificationPreference", "Unsubscribe"}
Reading == {"Dispatch", "CreateBroadcast", "MarkNotificationRead", "ResolveAlert"}
Mentioning == {"Dispatch", "CreateOrgThread", "CreatePost", "Unsubscribe"}
Encoding == {"UploadVideo", "BunnyWebhook"}
Filming == {"UploadVideo", "UploadFile", "UploadFileComplete"}
Signing == {"Login", "SuspendUser", "ReactivateUser"}
Teams == {Filming, Encoding, Signing, Posting, Departing, Flagging, Broadcasting, Reading, Mentioning, Packing,
          Unpacking, Playing, Simulating, Withdrawing, Producing, Listening, Listing, Roleplay, Inviting,
          Joining, Leaving, Growing, Closing, Running, Coding, Tutoring, Generating, Authoring}

\* The two requests of every kind are alike, and no team has two kinds: they
\* all trade places at once.
Other == (r1 :> r2) @@ (r2 :> r1) @@ (k1 :> k2) @@ (k2 :> k1) @@ (q1 :> q2) @@ (q2 :> q1)
         @@ (v1 :> v2) @@ (v2 :> v1) @@ (h1 :> h2) @@ (h2 :> h1)
Symmetric == {[x \in DOMAIN Other |-> IF f[r1] = r1 THEN x ELSE Other[x]] : f \in Permutations(Requests)}

organizationVars == <<tenancyVars, meterVars, scormVars, simulationVars, podcastVars, communityVars,
                      uploadVars, signVars>>

\* A component whose handlers are not in the team stands still.
Init == /\ TenancyInit /\ MeterInit /\ ScormInit /\ SimulationsInit /\ PodcastsInit /\ CommunityInit
        /\ UploadsInit /\ SignInInit
Next == \/ team \in {Roleplay, Inviting, Joining, Leaving, Growing, Closing, Signing, Departing} /\ TenancyNext /\ UNCHANGED <<meterVars, scormVars, simulationVars, podcastVars, communityVars, uploadVars, signVars>>
        \/ team \in {Running, Coding, Tutoring, Generating, Authoring} /\ MeterNext /\ UNCHANGED <<scormVars, simulationVars, podcastVars, communityVars, uploadVars, signVars>>
        \/ team \in {Packing, Unpacking, Playing} /\ ScormNext /\ UNCHANGED <<meterVars, simulationVars, podcastVars, communityVars, uploadVars, signVars>>
        \/ team \in {Simulating, Withdrawing} /\ SimulationsNext /\ UNCHANGED <<meterVars, scormVars, podcastVars, communityVars, uploadVars, signVars>>
        \/ team \in {Producing, Listening, Listing} /\ PodcastsNext /\ UNCHANGED <<meterVars, scormVars, simulationVars, communityVars, uploadVars, signVars>>
        \/ team \in {Posting, Departing, Flagging, Broadcasting, Reading, Mentioning} /\ CommunityNext /\ UNCHANGED <<meterVars, scormVars, simulationVars, podcastVars, uploadVars, signVars>>
        \/ team \in {Filming, Encoding} /\ UploadsNext /\ UNCHANGED <<meterVars, scormVars, simulationVars, podcastVars, communityVars, signVars>>
        \/ team \in {Signing} /\ SignInNext /\ UNCHANGED <<meterVars, scormVars, simulationVars, podcastVars, communityVars, uploadVars>>
Spec == Init /\ [][Next]_organizationVars
=============================================================================
