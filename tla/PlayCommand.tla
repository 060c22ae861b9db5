----------------------------- MODULE PlayCommand -----------------------------
(***************************************************************************)
(* play and its variants, from the words of the user to the reply: what    *)
(* mode and what kind of query they ask for, which tracks are queued in    *)
(* which steps, and what the reply says about a queue that is read anew    *)
(* after them.  Several commands run on the queue of one guild; Playback   *)
(* has the queue in all detail, here its order is all that counts.         *)
(*                                                                         *)
(* A remote service finds something, finds nothing or does not answer.     *)
(***************************************************************************)
EXTENDS Discord, SequencesExt

CONSTANTS
    MaxPlays,   \* bound: commands that are issued
    MaxList,    \* bound: tracks of a list
    ChunkSize   \* tracks of a list that are queued at a time

\* Chunks of a list are of at least one track.
ASSUME ListsAssumption == MaxPlays \in Nat /\ MaxList \in Nat /\ ChunkSize \in Nat \ {0}

VARIABLES
    playQueue,  \* the tracks of the guild: the task whose command queued it, and its place there
    plays,      \* per task: the command it runs, or the last one
    issued      \* commands so far

playVars == <<playQueue, plays, issued>>

-----------------------------------------------------------------------------
(* Words *)

ModeWords == {"Next", "All", "Reverse", "Shuffle", "Jump", "DownloadMKV", "DownloadMP3",
              "Search"}
Kinds == {"Keywords", "KeywordList", "VideoLink", "SpotifyTracks", "PlaylistLink", "File",
          "NewYoutubeDl", "YoutubeSearch", "None"}
Lists == {"PlaylistLink", "KeywordList", "SpotifyTracks"}

\* get_msg: the option comes in front of a prefix command's words.
GetMsg(isPrefix, mode, words) == IF isPrefix THEN mode \o words ELSE words

\* get_mode: a prefix command's first word, whatever it was meant for; a single word is
\* the query as well.
GetMode(isPrefix, msg, mode) ==
    LET first == IF isPrefix THEN msg ELSE mode
    IN  IF first = <<>> \/ first[1] \notin ModeWords THEN "End" ELSE first[1]
QueryOf(isPrefix, msg) ==
    IF isPrefix /\ GetMode(TRUE, msg, <<>>) # "End" /\ Len(msg) > 1 THEN Tail(msg) ELSE msg

\* What Spotify::extract makes of each media type.  An entry of a playlist without a track
\* panics.
TrackInfo == {"Keywords", "error"}
AlbumInfo == {"KeywordList", "error"}
PlaylistInfo == {"KeywordList", "error", "panic"}
MediaTypes == {"track", "album", "playlist"}
SpotifyExtract(media) ==
    CASE media = "track" -> TrackInfo
      [] media = "album" -> AlbumInfo
      [] media = "playlist" -> PlaylistInfo
      [] OTHER -> {"error"}

\* query_type_from_url: what a link or words can turn out to be.  check_banned_domains
\* lets everything pass, but the guild must have settings.
QueryTypeFromUrl(link, hasFile) ==
    CASE link = "spotify" -> UNION {SpotifyExtract(m) : m \in MediaTypes \union {"other"}}
      [] link = "spotify uri" -> SpotifyExtract("track")
      [] link = "attachment" -> IF hasFile THEN {"File"} ELSE {"panic"}
      [] link = "youtube list" -> {"PlaylistLink"}
      [] link = "youtube" -> {"VideoLink"}
      [] link = "other site" -> {"NewYoutubeDl", "error"}
      [] OTHER -> {"Keywords"}
CheckBannedDomains(kind, hasSettings) == IF hasSettings THEN kind ELSE "error"

-----------------------------------------------------------------------------
(* What a query comes to *)

Found == {"some", "nothing", "gone"}

\* search_query_to_source_and_metadata_rusty.
SearchRusty(found) == IF found = "some" THEN "ready" ELSE "error"

\* get_track_source_and_metadata: a search for a list can come back without any metadata.
SourceAndMetadata(kind, found) ==
    CASE kind = "None" -> "panic"
      [] kind \in {"File", "NewYoutubeDl"} -> "ready"
      [] kind = "SpotifyTracks" /\ found # "some" -> "panic"
      [] kind \in {"PlaylistLink", "YoutubeSearch"} /\ found = "nothing" -> "empty"
      [] OTHER -> SearchRusty(found)
\* ready_query takes the first metadata.
ReadyQuery(kind, found) ==
    IF SourceAndMetadata(kind, found) = "empty" THEN "error" ELSE SourceAndMetadata(kind, found)

\* queue_track_back asks the track client first, and ready_query when that fails.
ResolveBack(kind, found) ==
    IF kind \in {"Keywords", "VideoLink", "NewYoutubeDl"} /\ found = "some" THEN "ready"
    ELSE ReadyQuery(kind, found)

\* get_download_status_and_filename, and the attachment that mode_download makes of it: yt-dlp
\* may fail, a file may not be where it is looked for, and what was searched for may not be
\* found or have no title or address, which is a panic.
Downloads(kind) ==
    IF kind \in {"YoutubeSearch", "None", "File"} THEN {"error"} ELSE {"sent", "error", "panic"}

\* What is resolved for a batch: a list is queued as the keywords or links that it holds.
Item(kind) == IF kind \in Lists THEN "Keywords" ELSE kind

\* How the tracks are put into the queue, a number of them under each lock of the Call.
Work(how, batches) == [how |-> how, batches |-> batches]
Stops(answer) == Work(answer, <<>>)
Singles(n) == [i \in 1..n |-> 1]

\* queue_keyword_list_back: the first track alone, then chunks.
KeywordListBack(n) ==
    LET full == (n - 1) \div ChunkSize
        rest == (n - 1) % ChunkSize
    IN  IF n = 0 THEN Stops("error")
        ELSE Work("back", <<1>> \o [i \in 1..full |-> ChunkSize]
                               \o (IF rest = 0 THEN <<>> ELSE <<rest>>))

\* queue_query_list_offset: behind a queue of one, all at once at the end.
QueryListOffset(n) ==
    IF Len(playQueue) > 1 THEN Work("offset", Singles(n)) ELSE Work("back", <<n>>)

ModeSearch(kind) ==
    IF kind \in {"Keywords", "SpotifyTracks", "YoutubeSearch"} THEN Work("select", <<1>>)
    ELSE Stops("error")

ModeEnd(kind, n) ==
    CASE kind \in {"Keywords", "VideoLink", "NewYoutubeDl", "File"} -> Work("back", <<1>>)
      [] kind \in {"PlaylistLink", "SpotifyTracks"} -> KeywordListBack(n)
      [] kind = "KeywordList" -> Work("back", Singles(n))
      [] OTHER -> Work("back", <<>>)

ModeNext(kind, n) ==
    CASE kind \in {"Keywords", "VideoLink", "NewYoutubeDl", "File"} -> Work("front", <<1>>)
      [] kind \in Lists -> QueryListOffset(n)
      [] kind = "YoutubeSearch" -> Stops("error")
      [] OTHER -> Work("back", <<>>)

\* mode_rest ignores which of its modes it is.  Its own reply to what it cannot play is
\* overwritten by that of play_internal.
ModeRest(kind, n) ==
    CASE kind \in {"VideoLink", "PlaylistLink"} -> Work("back", <<1>>)
      [] kind \in {"KeywordList", "SpotifyTracks"} -> KeywordListBack(n)
      [] OTHER -> Work("back", <<>>)

\* match_mode.
MatchMode(mode, kind, n, download) ==
    CASE mode = "Search" -> ModeSearch(kind)
      [] mode \in {"DownloadMKV", "DownloadMP3"} ->
           IF download = "sent" THEN Work("back", <<>>) ELSE Stops(download)
      [] mode = "End" -> ModeEnd(kind, n)
      [] mode = "Next" -> ModeNext(kind, n)
      [] mode = "Jump" -> Stops("error")
      [] OTHER -> ModeRest(kind, n)

-----------------------------------------------------------------------------
(* The reply *)

Says(about, track) == [about |-> about, track |-> track]
NoTrack == [by |-> None, nth |-> 0]
LastTrack == playQueue[Len(playQueue)]

\* The queries that are one track and are reported as such.
Single == {"VideoLink", "Keywords", "NewYoutubeDl"}

\* Mutant: a track that was put next is looked for at the end.
BuildPlayEmbedLast(mode, kind) ==
    IF playQueue = <<>> THEN Says("empty", NoTrack)
    ELSE IF Len(playQueue) = 1 THEN Says("playing", playQueue[1])
    ELSE CASE kind \in Single /\ mode \in {"Next", "End"} -> Says("queued", LastTrack)
           [] kind \in {"PlaylistLink", "KeywordList"} -> Says("list", NoTrack)
           [] OTHER -> Says("playing", playQueue[1])

\* build_play_embed, of a queue that is read after the command has changed it.
BuildPlayEmbed(mode, kind) ==
    IF playQueue = <<>> THEN Says("empty", NoTrack)
    ELSE IF Len(playQueue) = 1 THEN Says("playing", playQueue[1])
    ELSE CASE kind \in Single /\ mode = "Next" -> Says("queued", playQueue[2])
           [] kind \in Single /\ mode = "End" -> Says("queued", LastTrack)
           [] kind \in {"PlaylistLink", "KeywordList"} -> Says("list", NoTrack)
           [] OTHER -> Says("playing", playQueue[1])

\* calculate_time_until_play subtracts what has been played from this, and panics when
\* the head has played longer than its metadata says.  What lies between is taken to be as
\* long as the head.
TimeUntilPlay(mode, length) ==
    IF mode = "Next" THEN length ELSE (Len(playQueue) - 2) * length + length

-----------------------------------------------------------------------------
NoPlay == [at |-> "none", mode |-> "End", link |-> "words", file |-> FALSE, kind |-> "None",
           work |-> Work("back", <<>>), mine |-> 0, crossed |-> FALSE,
           reply |-> Says("nothing", NoTrack)]

PlayInit ==
    /\ playQueue = <<>>
    /\ plays = [t \in Tasks |-> NoPlay]
    /\ issued = 0

PlayAt(t, place) == plays[t].at = place
Goes(t, changed) == plays' = [plays EXCEPT ![t] = changed]
AnswersPlay(t, about) ==
    Goes(t, [NoPlay EXCEPT !.at = "done", !.reply = Says(about, NoTrack)])

\* play, playnext, search, optplay and playfile, with the words that play_internal gets.
\* Without any, what is paused is resumed or the user is told.
Play(t, isPrefix, option, words, file) ==
    /\ plays[t].at \in {"none", "done"} /\ issued < MaxPlays /\ issued' = issued + 1
    /\ LET msg == GetMsg(isPrefix, option, words)
           query == QueryOf(isPrefix, msg)
       IN  Goes(t, IF msg = <<>> /\ ~file
                   THEN [NoPlay EXCEPT !.at = "done", !.reply = Says("no query", NoTrack)]
                   ELSE [NoPlay EXCEPT !.at = "parse", !.mode = GetMode(isPrefix, msg, option),
                         !.file = file, !.link = IF file THEN "attachment" ELSE query[1]])
    /\ UNCHANGED playQueue

\* playytplaylist resolves a playlist and shows it, and queues nothing.
PlayYtPlaylist(t) ==
    /\ plays[t].at \in {"none", "done"} /\ issued < MaxPlays /\ issued' = issued + 1
    /\ Goes(t, [NoPlay EXCEPT !.at = "display"])
    /\ UNCHANGED playQueue
ShowPlaylist(t) ==
    /\ PlayAt(t, "display")
    /\ \E about \in {"display", "error"} : AnswersPlay(t, about)
    /\ UNCHANGED <<playQueue, issued>>

\* get_call_or_join_author fails.
JoinFails(t) == PlayAt(t, "parse") /\ AnswersPlay(t, "error") /\ UNCHANGED <<playQueue, issued>>

\* The bot has joined and the message that the reply is written into is there.
Parse(t) ==
    /\ PlayAt(t, "parse")
    /\ \E outcome \in QueryTypeFromUrl(plays[t].link, plays[t].file), known \in BOOLEAN :
         LET kind == CheckBannedDomains(outcome, known)
         IN  IF kind \in Kinds
             THEN Goes(t, [NoPlay EXCEPT !.at = "match", !.mode = plays[t].mode, !.kind = kind])
             ELSE AnswersPlay(t, kind)
    /\ UNCHANGED <<playQueue, issued>>

\* Lists are fetched, and the queue's length is read, before anything is queued.
Match(t) ==
    /\ PlayAt(t, "match")
    /\ \E n \in 0..MaxList, download \in Downloads(plays[t].kind) :
         LET work == MatchMode(plays[t].mode, plays[t].kind, n, download)
         IN  CASE work.how \in {"error", "panic"} -> AnswersPlay(t, work.how)
               [] work.how = "select" ->
                    Goes(t, [plays[t] EXCEPT !.at = "select", !.work = Work("back", <<1>>)])
               [] OTHER -> Goes(t, [plays[t] EXCEPT !.at = "queue", !.work = work])
    /\ UNCHANGED <<playQueue, issued>>

\* yt_search_select: what the user picks is a link; nobody waits for ever.
Select(t) ==
    /\ PlayAt(t, "select")
    /\ Goes(t, [plays[t] EXCEPT !.at = "queue"]) \/ AnswersPlay(t, "error")
    /\ UNCHANGED <<playQueue, issued>>

\* Commands that have queued tracks and not yet looked at the queue again.
Crossing(t) ==
    [u \in Tasks |-> IF u # t /\ PlayAt(u, "queue") /\ plays[u].mine > 0
                     THEN [plays[u] EXCEPT !.crossed = TRUE] ELSE plays[u]]

\* The tracks of the next batch are ready and queued under one lock.  Of an offset that
\* is beyond the queue by now, the insert panics and the track is in no queue.
QueueBatch(t) ==
    /\ PlayAt(t, "queue") /\ plays[t].work.batches # <<>>
    /\ LET size == Head(plays[t].work.batches)
           left == [plays[t] EXCEPT !.work.batches = Tail(@), !.mine = @ + size]
           own == [i \in 1..size |-> [by |-> t, nth |-> plays[t].mine + i]]
           at == plays[t].mine + 2
       IN  CASE plays[t].work.how = "front" /\ Len(playQueue) > 1 ->
                  /\ playQueue' = InsertAt(playQueue, 2, own[1])
                  /\ plays' = [Crossing(t) EXCEPT ![t] = left]
             [] plays[t].work.how = "offset" /\ at > Len(playQueue) + 1 ->
                  UNCHANGED playQueue /\ AnswersPlay(t, "panic")
             [] plays[t].work.how = "offset" /\ at <= Len(playQueue) + 1 ->
                  /\ playQueue' = InsertAt(playQueue, at, own[1])
                  /\ plays' = [Crossing(t) EXCEPT ![t] = left]
             [] OTHER ->
                  /\ playQueue' = playQueue \o own
                  /\ plays' = [Crossing(t) EXCEPT ![t] = left]
    /\ UNCHANGED issued

\* A track of the batch cannot be resolved: those of the batches before stay queued.
\* queue_query_list_offset resolves all of them before the first.
BatchFails(t) ==
    /\ PlayAt(t, "queue") /\ plays[t].work.batches # <<>>
    /\ plays[t].work.how = "offset" => plays[t].mine = 0
    /\ \E found \in Found :
         /\ ResolveBack(Item(plays[t].kind), found) # "ready"
         /\ AnswersPlay(t, ResolveBack(Item(plays[t].kind), found))
    /\ UNCHANGED <<playQueue, issued>>

\* play_internal reads the queue again and writes the reply; the time that it gives may
\* panic.
Reply(t) ==
    /\ PlayAt(t, "queue") /\ plays[t].work.batches = <<>>
    /\ \/ Goes(t, [NoPlay EXCEPT !.at = "done", !.mine = plays[t].mine,
                   !.crossed = plays[t].crossed,
                   !.reply = BuildPlayEmbed(plays[t].mode, plays[t].kind)])
       \/ /\ Len(playQueue) > 1
          /\ \E length, played \in 0..2 : played > TimeUntilPlay(plays[t].mode, length)
          /\ AnswersPlay(t, "panic")
    /\ UNCHANGED <<playQueue, issued>>

\* The head ends, or is skipped.
TrackEnds ==
    /\ playQueue # <<>> /\ playQueue' = Tail(playQueue)
    /\ plays' = Crossing(None)
    /\ UNCHANGED issued

PlayNext ==
    \/ \E t \in Tasks :
         \/ \E isPrefix, file \in BOOLEAN, option \in BoundedSeq(ModeWords, 1),
               words \in {<<>>, <<"Next">>, <<"words">>, <<"Search", "words">>,
                          <<"youtube">>, <<"youtube list">>, <<"spotify">>,
                          <<"spotify uri">>, <<"other site">>, <<"attachment">>} :
              Play(t, isPrefix, option, words, file)
         \/ PlayYtPlaylist(t) \/ ShowPlaylist(t) \/ JoinFails(t) \/ Parse(t) \/ Match(t) \/ Select(t)
         \/ QueueBatch(t) \/ BatchFails(t) \/ Reply(t)
    \/ TrackEnds

PlaySpec == PlayInit /\ [][PlayNext]_playVars

-----------------------------------------------------------------------------
\* A track of the queue; what a command has left to queue, where only a list that goes to
\* the end comes in more than one track at a time; and what a reply can say.
Track == [by : Tasks, nth : Nat]
Batches == [how : {"back"}, batches : Seq(Nat)]
             \union [how : {"front", "offset"}, batches : Seq({1})]
Replies == [about : {"nothing", "no query", "display", "error", "panic", "empty", "playing",
                     "queued", "list"},
            track : Track \union {NoTrack}]
Words == ModeWords \union {"words", "youtube", "youtube list", "spotify", "spotify uri",
                           "other site", "attachment"}

\* The queue holds tracks of commands, and commands are well formed.
PlayTypeOK ==
    /\ playQueue \in Seq(Track)
    /\ issued \in 0..MaxPlays
    /\ DOMAIN plays = Tasks
    /\ \A t \in Tasks :
         /\ plays[t].at \in {"none", "display", "parse", "match", "select", "queue", "done"}
         /\ plays[t].mode \in ModeWords \union {"End"} /\ plays[t].kind \in Kinds
         /\ plays[t].link \in Words /\ plays[t].file \in BOOLEAN
         /\ plays[t].work \in Batches /\ plays[t].mine \in Nat
         /\ plays[t].crossed \in BOOLEAN /\ plays[t].reply \in Replies

\* A reply that says which track was queued names one of the command's own, unless
\* another command or the end of a track changed the queue between the command's own
\* change and the moment it reads the queue for the reply.
ReplyNamesItsTrack ==
    \A t \in Tasks :
      (plays[t].reply.about = "queued" /\ plays[t].mine > 0 /\ ~plays[t].crossed)
        => plays[t].reply.track.by = t
=============================================================================
