----------------------------- MODULE TrackQueue -----------------------------
(***************************************************************************)
(* The library crack-testing: CrackTrackClient resolves queries to tracks  *)
(* and keeps a CrackTrackQueue for each guild.  Clones of the client share *)
(* the map of queues, clones of a queue share its tracks; each call takes  *)
(* the lock anew.                                                          *)
(*                                                                         *)
(* A remote service answers a query with a video, something else, or not   *)
(* at all.  Tracks are numbered as they are accepted.                      *)
(***************************************************************************)
EXTENDS Discord, SequencesExt

CONSTANT MaxTracks   \* bound: tracks that are accepted

ASSUME TracksAssumption == MaxTracks \in Nat

VARIABLES
    queueOf,    \* the client's map: the queue of a guild
    queues,     \* the tracks of each queue that was ever made
    calls,      \* per task: the call of the client or of a queue it is in
    accepted,   \* history: tracks given to a call that enqueues
    taken,      \* history: tracks that were popped, removed or cleared
    disturbed   \* history: a call came between the two halves of another

trackVars == <<queueOf, queues, calls, accepted, taken, disturbed>>

-----------------------------------------------------------------------------
(* Resolving *)

Answers == {"video", "other", "gone"}
Unresolved == <<"failed">>

\* A result of n tracks, in their order.
TracksOf(n) == <<"tracks", n>>

Videos(answers) == SelectSeq(answers, LAMBDA a : a = "video")

\* resolve_track, of a link or of keywords; resolve_search_one ends in it.
ResolveTrack(answer) == IF answer = "video" THEN TracksOf(1) ELSE Unresolved

\* resolve_track_many: the first query without a track fails them all.
ResolveTrackMany(answers) ==
    IF Videos(answers) = answers THEN TracksOf(Len(answers)) ELSE Unresolved

\* resolve_search drops what is not a video.
ResolveSearch(answers) ==
    IF "gone" \in ToSet(answers) THEN Unresolved ELSE TracksOf(Len(Videos(answers)))

\* resolve_search_faster keeps the videos in the order in which they are resolved.
ResolveSearchFaster(answers) == ResolveSearch(answers)

\* resolve_playlist_limit: every video of the list up to the limit, unresolved.
ResolvePlaylist(answers, limit) ==
    IF answers = <<>> THEN Unresolved
    ELSE TracksOf(IF Len(answers) < limit THEN Len(answers) ELSE limit)

\* resolve_query_to_tracks.
ResolveQueryToTracks(kind, answers, limit) ==
    CASE kind \in {"VideoLink", "Keywords", "NewYoutubeDl"} ->
           IF answers = <<>> THEN Unresolved ELSE ResolveTrack(Head(answers))
      [] kind \in {"KeywordList", "SpotifyTracks"} -> ResolveTrackMany(answers)
      [] kind = "PlaylistLink" -> ResolvePlaylist(answers, limit)
      [] OTHER -> Unresolved

\* yt_url_type.
YtUrlType(isPlaylist) == IF isPlaylist THEN "PlaylistLink" ELSE "VideoLink"

\* What is known of a track decides where its title, its link and its duration are
\* taken from.
FirstKnown(order, known) ==
    LET hits == SelectSeq(order, LAMBDA part : part \in known)
    IN  IF hits = <<>> THEN "unknown" ELSE Head(hits)
GetTitle(known) == FirstKnown(<<"search_video", "metadata", "details">>, known)
GetUrl(known) == FirstKnown(<<"search_video", "metadata", "details">>, known)
GetDuration(known) == FirstKnown(<<"metadata", "details", "search_video">>, known)

-----------------------------------------------------------------------------
NoCall == [at |-> "none", guild |-> None, queue |-> 0, tracks |-> <<>>]

TrackInit ==
    /\ queueOf = <<>>
    /\ queues = <<>>
    /\ calls = [t \in Tasks |-> NoCall]
    /\ accepted = 0
    /\ taken = {}
    /\ disturbed = FALSE

CallAt(t, place) == calls[t].at = place
\* Some other task is halfway through a call on the same guild.
Halfway(t, places) == \E u \in Tasks \ {t} : calls[u].at \in places

\* n new tracks are about to be enqueued one by one.
AcceptTracks(t, g, n) ==
    /\ n <= MaxTracks - accepted
    /\ accepted' = accepted + n
    /\ calls' = [calls EXCEPT ![t] =
         IF n = 0 THEN NoCall
         ELSE [at |-> "ensure", guild |-> g, queue |-> 0,
               tracks |-> [i \in 1..n |-> accepted + i]]]

\* enqueue_query and enqueue_track: one track.
Enqueue(t, g) ==
    /\ CallAt(t, "none")
    /\ \E answer \in Answers :
         ResolveTrack(answer) # Unresolved /\ AcceptTracks(t, g, ResolveTrack(answer)[2])
    /\ UNCHANGED <<queueOf, queues, taken, disturbed>>

\* append_queue, of what a query resolves to; match_cli calls it with a link.
AppendQueue(t, g) ==
    /\ CallAt(t, "none")
    /\ \E kind \in {YtUrlType(TRUE), YtUrlType(FALSE), "KeywordList"} :
       \E answers \in BoundedSeq(Answers, 2) :
         LET result == ResolveQueryToTracks(kind, answers, MaxTracks)
         IN  result # Unresolved /\ AcceptTracks(t, g, result[2])
    /\ UNCHANGED <<queueOf, queues, taken, disturbed>>

\* Mutant: ensure_queue makes a queue each time.
EnsureQueueAnew(t) ==
    /\ CallAt(t, "ensure") /\ calls' = [calls EXCEPT ![t].at = "make"]
    /\ disturbed' = (disturbed \/ Halfway(t, {"make"}))
    /\ UNCHANGED <<queueOf, queues, accepted, taken>>

\* ensure_queue, before each push: the guild's queue is looked for.
EnsureQueue(t) ==
    /\ CallAt(t, "ensure")
    /\ IF calls[t].guild \in DOMAIN queueOf
       THEN /\ calls' = [calls EXCEPT ![t].at = "push", ![t].queue = queueOf[calls[t].guild]]
            /\ UNCHANGED disturbed
       ELSE /\ calls' = [calls EXCEPT ![t].at = "make"]
            /\ disturbed' = (disturbed \/ Halfway(t, {"make"}))
    /\ UNCHANGED <<queueOf, queues, accepted, taken>>

\* A queue that another call has inserted meanwhile is replaced.
MakeQueue(t) ==
    /\ CallAt(t, "make")
    /\ queues' = Append(queues, <<>>)
    /\ queueOf' = Put(queueOf, calls[t].guild, Len(queues'))
    /\ calls' = [calls EXCEPT ![t].at = "push", ![t].queue = Len(queues')]
    /\ UNCHANGED <<accepted, taken, disturbed>>

\* A call that has pushed a track goes on with the next one.
Pushed(c) ==
    IF Len(c.tracks) = 1 THEN NoCall
    ELSE [c EXCEPT !.at = "ensure", !.queue = 0, !.tracks = Tail(c.tracks)]

\* push_back of the next track.
PushBack(t) ==
    /\ CallAt(t, "push")
    /\ queues' = [queues EXCEPT ![calls[t].queue] = Append(@, Head(calls[t].tracks))]
    /\ calls' = [calls EXCEPT ![t] = Pushed(calls[t])]
    /\ disturbed' = (disturbed \/ Halfway(t, {"shuffle"}))
    /\ UNCHANGED <<queueOf, accepted, taken>>

-----------------------------------------------------------------------------
(* Calls on the guild's queue *)

Changes(t, g, tracks) ==
    /\ CallAt(t, "none") /\ g \in DOMAIN queueOf
    /\ queues' = [queues EXCEPT ![queueOf[g]] = tracks]
    /\ disturbed' = (disturbed \/ Halfway(t, {"shuffle"}))
    /\ UNCHANGED <<queueOf, calls>>

Tracks(g) == IF g \in DOMAIN queueOf THEN queues[queueOf[g]] ELSE <<>>

\* dequeue, pop_front, pop_back and remove(index).
Take(t, g) ==
    /\ \E i \in DOMAIN Tracks(g) :
         /\ Changes(t, g, RemoveAt(Tracks(g), i))
         /\ taken' = taken \union {Tracks(g)[i]}
    /\ UNCHANGED accepted

ClearTracks(t, g) ==
    /\ Tracks(g) # <<>> /\ Changes(t, g, <<>>)
    /\ taken' = taken \union ToSet(Tracks(g))
    /\ UNCHANGED accepted

\* push_front and insert(index): an index beyond the end panics and changes nothing.
\* append_front is append.
InsertTrack(t, g) ==
    /\ accepted < MaxTracks /\ accepted' = accepted + 1
    /\ \E i \in 1..Len(Tracks(g)) + 1 : Changes(t, g, InsertAt(Tracks(g), i, accepted'))
    /\ UNCHANGED taken

AppendTracks(t, g) ==
    /\ accepted < MaxTracks /\ accepted' = accepted + 1
    /\ Changes(t, g, Append(Tracks(g), accepted'))
    /\ UNCHANGED taken

\* shuffle copies the tracks and gives the lock back.
ShuffleCopies(t, g) ==
    /\ CallAt(t, "none") /\ g \in DOMAIN queueOf
    /\ calls' = [calls EXCEPT ![t] =
         [at |-> "shuffle", guild |-> g, queue |-> queueOf[g], tracks |-> Tracks(g)]]
    /\ UNCHANGED <<queueOf, queues, accepted, taken, disturbed>>

\* The copy, in any order, replaces the tracks.
ShuffleWrites(t) ==
    /\ CallAt(t, "shuffle") /\ calls' = [calls EXCEPT ![t] = NoCall]
    /\ \E p \in Bijection(DOMAIN calls[t].tracks, DOMAIN calls[t].tracks) :
         queues' = [queues EXCEPT ![calls[t].queue] =
                      [i \in DOMAIN calls[t].tracks |-> calls[t].tracks[p[i]]]]
    /\ disturbed' = (disturbed \/ Halfway(t, {"shuffle"}))
    /\ UNCHANGED <<queueOf, accepted, taken>>

\* build_display works on the clone that ensure_queue returns: the queue that the map
\* keeps has no display, and get_display of the client is empty.
BuildDisplay(t, g) ==
    /\ CallAt(t, "none") /\ g \notin DOMAIN queueOf
    /\ calls' = [calls EXCEPT ![t].at = "display", ![t].guild = g]
    /\ UNCHANGED <<queueOf, queues, accepted, taken, disturbed>>

MakeEmptyQueue(t) ==
    /\ CallAt(t, "display")
    /\ queues' = Append(queues, <<>>)
    /\ queueOf' = Put(queueOf, calls[t].guild, Len(queues'))
    /\ disturbed' = (disturbed \/ calls[t].guild \in DOMAIN queueOf
                       \/ Halfway(t, {"make"}))
    /\ calls' = [calls EXCEPT ![t] = NoCall]
    /\ UNCHANGED <<accepted, taken>>

TrackNext ==
    \E t \in Tasks :
      \/ EnsureQueue(t) \/ MakeQueue(t) \/ PushBack(t) \/ ShuffleWrites(t)
      \/ MakeEmptyQueue(t)
      \/ \E g \in Guilds :
           \/ Enqueue(t, g) \/ AppendQueue(t, g) \/ Take(t, g) \/ ClearTracks(t, g)
           \/ InsertTrack(t, g) \/ AppendTracks(t, g) \/ ShuffleCopies(t, g)
           \/ BuildDisplay(t, g)

TrackSpec == TrackInit /\ [][TrackNext]_trackVars

-----------------------------------------------------------------------------
\* A task at these points of a call has tracks that it has still to push.
InHand == {"ensure", "make", "push"}

\* Sequences of the first n tracks that were accepted.
TrackSeqs(n) == {s \in Seq(Nat) : ToSet(s) \subseteq 1..n}

\* The map, the queues and the calls are well formed: the map names queues that exist, as
\* does a call about to push or to end its shuffle; queues hold tracks that were accepted.
TrackTypeOK ==
    /\ DOMAIN queueOf \subseteq Guilds
    /\ \A g \in DOMAIN queueOf : queueOf[g] \in DOMAIN queues
    /\ queues \in Seq(TrackSeqs(accepted))
    /\ accepted \in 0..MaxTracks /\ taken \subseteq 1..accepted /\ disturbed \in BOOLEAN
    /\ \A t \in Tasks :
         /\ calls[t].at \in InHand \union {"none", "shuffle", "display"}
         /\ calls[t].queue \in Nat /\ calls[t].tracks \in TrackSeqs(accepted)
         /\ calls[t].at # "none" => calls[t].guild \in Guilds
         /\ calls[t].at \in InHand => calls[t].tracks # <<>>
         /\ calls[t].at \in {"push", "shuffle"} => calls[t].queue \in DOMAIN queues

\* Tracks that a task has still to push.
Pending == UNION {ToSet(calls[t].tracks) : t \in {u \in Tasks : calls[u].at \in InHand}}

\* No track is ever there twice, in the queues of guilds or among the tracks that are still
\* to be pushed, not even after calls that overlap: a shuffle that writes back an old copy
\* may bring back what was taken, or lose what was pushed, but doubles nothing.  And as
\* long as nothing gets between the two halves of a shuffle or of ensure_queue, no track
\* is lost, whichever calls follow one another: what was accepted and not taken is queued
\* for its guild, or about to be.
TracksKept ==
    /\ \A g, h \in Guilds : \A i \in DOMAIN Tracks(g), j \in DOMAIN Tracks(h) :
         Tracks(g)[i] = Tracks(h)[j] => g = h /\ i = j
    /\ \A g \in Guilds : ToSet(Tracks(g)) \cap Pending = {}
    /\ ~disturbed =>
         UNION {ToSet(Tracks(g)) : g \in Guilds} = ((1..accepted) \ taken) \ Pending
=============================================================================
