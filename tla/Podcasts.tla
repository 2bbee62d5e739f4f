------------------------------- MODULE Podcasts -------------------------------
(***************************************************************************)
(* Podcast shows of an organisation, their episodes, playlists across      *)
(* shows, what each learner listened to, and the public feed. Requests     *)
(* that find a row first and write another one later cross deletions.      *)
(***************************************************************************)
EXTENDS Tenancy

CONSTANTS
    PodcastsOnPlatform,
    Shows, Episodes, Playlists,
    Listeners,       \* bound: the users who listen
    Hands,           \* bound: two-step requests at a time
    LastTick         \* bound: publications told apart by their time

VARIABLES
    podcastsEnabled,
    show,        \* show -> its row, {} without one
    episodes,    \* episode -> its row, {} without one
    playlist,    \* playlists that exist
    items,       \* playlist, episode, sort order
    listened,    \* episode -> learner -> position and completed, {} without a row
    hand,        \* requests that have read and will write
    tick         \* time of the last publication

podcastVars == <<podcastsEnabled, show, episodes, playlist, items, listened, hand, tick>>

-----------------------------------------------------------------------------
PodcastGate == PodcastsOnPlatform /\ podcastsEnabled
Produce(handler) == handler \in team /\ PodcastGate /\ Authors # {}

\* What is deleted with an episode.
WithoutEpisodes(gone) ==
    /\ episodes' = [e \in Episodes |-> IF e \in gone THEN {} ELSE episodes[e]]
    /\ items' = {i \in items : i.episode \notin gone}
    /\ listened' = [e \in Episodes |-> IF e \in gone THEN [u \in Users |-> {}] ELSE listened[e]]

EpisodesOf(s) == {e \in Episodes : \E r \in episodes[e] : r.show = s}

PutShow(handler, s) ==
    /\ Produce(handler)
    /\ \E published \in BOOLEAN : show' = [show EXCEPT ![s] = {[published |-> published]}]
    /\ UNCHANGED <<tenancyVars, podcastsEnabled, episodes, playlist, items, listened, hand, tick>>
CreatePodcastShow(s) == show[s] = {} /\ PutShow("CreatePodcastShow", s)
UpdatePodcastShow(s) == show[s] # {} /\ PutShow("UpdatePodcastShow", s)

\* mutant: only the show's row
DeleteShowAlone(s) ==
    /\ Produce("DeletePodcastShow") /\ show[s] # {}
    /\ show' = [show EXCEPT ![s] = {}]
    /\ UNCHANGED <<tenancyVars, podcastsEnabled, episodes, items, listened, playlist, hand, tick>>

\* ON DELETE CASCADE, twice: episodes, and what refers to them.
DeletePodcastShow(s) ==
    /\ Produce("DeletePodcastShow") /\ show[s] # {}
    /\ show' = [show EXCEPT ![s] = {}]
    /\ WithoutEpisodes(EpisodesOf(s))
    /\ UNCHANGED <<tenancyVars, podcastsEnabled, playlist, hand, tick>>

\* A new episode is a draft.
NewEpisode(s) == [show |-> s, published |-> FALSE, at |-> 0, edited |-> FALSE]

CreatePodcastEpisode(e) ==
    /\ Produce("CreatePodcastEpisode") /\ episodes[e] = {} /\ \A h \in Hands : hand[h].episode # e
    /\ \E s \in Shows :
          /\ show[s] # {}
          /\ episodes' = [episodes EXCEPT ![e] = {NewEpisode(s)}]
    /\ UNCHANGED <<tenancyVars, podcastsEnabled, show, playlist, items, listened, hand, tick>>

\* An update changes neither the flag nor the date.
UpdatePodcastEpisode(e) ==
    /\ Produce("UpdatePodcastEpisode") /\ episodes[e] # {}
    /\ episodes' = [episodes EXCEPT ![e] = {[r EXCEPT !.edited = TRUE] : r \in @}]
    /\ UNCHANGED <<tenancyVars, podcastsEnabled, show, playlist, items, listened, hand, tick>>

\* The first publication sets the date.
Stamped(r, published) ==
    [r EXCEPT !.published = published, !.at = IF published /\ @ = 0 THEN tick + 1 ELSE @]

SetPodcastEpisodePublished(e) ==
    /\ Produce("SetPodcastEpisodePublished") /\ tick < LastTick
    /\ \E r \in episodes[e], published \in BOOLEAN :
          /\ tick' = IF Stamped(r, published).at > tick THEN tick + 1 ELSE tick
          /\ episodes' = [episodes EXCEPT ![e] = {Stamped(r, published)}]
    /\ UNCHANGED <<tenancyVars, podcastsEnabled, show, playlist, items, listened, hand>>

DeletePodcastEpisode(e) ==
    /\ Produce("DeletePodcastEpisode") /\ episodes[e] # {}
    /\ WithoutEpisodes({e})
    /\ UNCHANGED <<tenancyVars, podcastsEnabled, show, playlist, hand, tick>>

CreatePodcastPlaylist(l) ==
    /\ Produce("CreatePodcastPlaylist") /\ playlist' = playlist \union {l}
    /\ \A h \in Hands : hand[h].on # l
    /\ UNCHANGED <<tenancyVars, podcastsEnabled, show, episodes, items, listened, hand, tick>>

DeletePodcastPlaylist(l) ==
    /\ Produce("DeletePodcastPlaylist") /\ l \in playlist
    /\ playlist' = playlist \ {l}
    /\ items' = {i \in items : i.playlist # l}
    /\ UNCHANGED <<tenancyVars, podcastsEnabled, show, episodes, listened, hand, tick>>

RemovePodcastPlaylistItem(l) ==
    /\ Produce("RemovePodcastPlaylistItem")
    /\ \E i \in items : i.playlist = l /\ items' = items \ {i}
    /\ UNCHANGED <<tenancyVars, podcastsEnabled, show, episodes, playlist, listened, hand, tick>>

UpdatePodcastSettings(u) ==
    /\ "UpdatePodcastSettings" \in team /\ HasRole(u, {"owner"}) /\ u \in Owners
    /\ podcastsEnabled' \in BOOLEAN
    /\ UNCHANGED <<tenancyVars, show, episodes, playlist, items, listened, hand, tick>>

-----------------------------------------------------------------------------
(* Requests that find rows and write another                               *)

NoHand == [kind |-> "idle", who |-> NoPlan, on |-> NoPlan, episode |-> NoPlan]

Grasp(h, handler, u, l, e) ==
    /\ handler \in team /\ PodcastGate /\ hand[h] = NoHand /\ episodes[e] # {}
    /\ hand' = [hand EXCEPT ![h] = [kind |-> handler, who |-> u, on |-> l, episode |-> e]]
    /\ UNCHANGED <<tenancyVars, podcastsEnabled, show, episodes, playlist, items, listened, tick>>

\* Of any show of the organisation, published or not.
AddPodcastPlaylistItem(h) ==
    \E u \in Authors, l \in playlist, e \in Episodes : Grasp(h, "AddPodcastPlaylistItem", u, l, e)

ReportPodcastProgress(h, u) ==
    Resolves(u) /\ \E e \in Episodes : Grasp(h, "ReportPodcastProgress", u, NoPlan, e)

\* An item that is there only gets the new place. Both parents must exist.
AddItem(h) ==
    LET e == hand[h]
    IN  /\ e.kind = "AddPodcastPlaylistItem"
        /\ e.on \in playlist /\ episodes[e.episode] # {}
        /\ items' = items \union {[playlist |-> e.on, episode |-> e.episode]}
        /\ hand' = [hand EXCEPT ![h] = NoHand]
        /\ UNCHANGED <<tenancyVars, podcastsEnabled, show, episodes, playlist, listened, tick>>

\* The position is the last one written; completed stays.
UpsertProgress(h) ==
    LET e == hand[h]
        old == listened[e.episode][e.who]
    IN  /\ e.kind = "ReportPodcastProgress"
        /\ episodes[e.episode] # {} /\ (old = {} => IsMember(e.who))
        /\ \E position \in {0, 1}, completed \in BOOLEAN :
              listened' = [listened EXCEPT ![e.episode][e.who] =
                             {[position |-> position, completed |-> completed \/ \E p \in old : p.completed]}]
        /\ hand' = [hand EXCEPT ![h] = NoHand]
        /\ UNCHANGED <<tenancyVars, podcastsEnabled, show, episodes, playlist, items, tick>>

Drop(h) ==
    /\ hand[h] # NoHand /\ hand' = [hand EXCEPT ![h] = NoHand]
    /\ UNCHANGED <<tenancyVars, podcastsEnabled, show, episodes, playlist, items, listened, tick>>

-----------------------------------------------------------------------------
PodcastsInit ==
    /\ podcastsEnabled = TRUE
    /\ show = [s \in Shows |-> {}] /\ episodes = [e \in Episodes |-> {}]
    /\ playlist = {} /\ items = {}
    /\ listened = [e \in Episodes |-> [u \in Users |-> {}]]
    /\ hand = [h \in Hands |-> NoHand]
    /\ tick = 0

PodcastsNext ==
    \/ \E s \in Shows : CreatePodcastShow(s) \/ UpdatePodcastShow(s) \/ DeletePodcastShow(s)
    \/ \E e \in Episodes : \/ CreatePodcastEpisode(e) \/ UpdatePodcastEpisode(e)
                           \/ SetPodcastEpisodePublished(e) \/ DeletePodcastEpisode(e)
    \/ \E l \in Playlists : \/ CreatePodcastPlaylist(l) \/ DeletePodcastPlaylist(l)
                            \/ RemovePodcastPlaylistItem(l)
    \/ \E u \in Users : UpdatePodcastSettings(u)
    \/ \E h \in Hands : \/ AddPodcastPlaylistItem(h) \/ AddItem(h) \/ UpsertProgress(h) \/ Drop(h)
                        \/ \E u \in Listeners : ReportPodcastProgress(h, u)

PodcastsSpec == PodcastsInit /\ [][PodcastsNext]_podcastVars

-----------------------------------------------------------------------------
(* Properties                                                              *)

\* The RSS feed of a show, and the episodes of a playlist: both join tables.
GetPublishedShow(s) == {x \in show[s] : x.published /\ podcastsEnabled}
ListPublishedByShow(s) == {e \in EpisodesOf(s) : \E r \in episodes[e] : r.published /\ r.at # 0}
PodcastRSS(s) ==
    IF PodcastsOnPlatform /\ GetPublishedShow(s) # {} THEN ListPublishedByShow(s) ELSE {}
GetPodcastPlaylist(l) == {i.episode : i \in {x \in items : x.playlist = l}}

\* However deletions of shows, episodes and playlists cross a learner's report
\* and an item being added: nothing refers to an episode or a playlist that is
\* gone, an episode has its show, and a feed has dates for what it shows, each
\* of one publication.
NothingDangles ==
    /\ \A l \in Playlists : /\ \A e \in GetPodcastPlaylist(l) : episodes[e] # {}
                            /\ GetPodcastPlaylist(l) # {} => l \in playlist
    /\ \A e \in Episodes, u \in Users : listened[e][u] # {} => episodes[e] # {}
    /\ \A e \in Episodes : \A r \in episodes[e] : show[r.show] # {}
    /\ \A s, t \in Shows : \A e \in PodcastRSS(s), f \in PodcastRSS(t) :
          \A a \in episodes[e], b \in episodes[f] : a.at = b.at => e = f
=============================================================================
