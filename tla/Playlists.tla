------------------------------ MODULE Playlists ------------------------------
(***************************************************************************)
(* The playlists that users keep in the database, and the playlist commands *)
(* statement by statement: none of them uses a transaction, and the foreign *)
(* keys of the tables are all that one command sees of another.             *)
(***************************************************************************)
EXTENDS Discord, SequencesExt

CONSTANTS
    Owners,         \* users who keep playlists
    PlaylistNames,  \* names of playlists, which need not be unique
    Songs,          \* rows of metadata, see PlayHistory
    MaxPlaylists,   \* bound: playlists that are ever created
    MaxSaved        \* bound: rows of playlist_track that are ever inserted, songs of a load

ASSUME PlaylistsAssumption == MaxPlaylists \in Nat /\ MaxSaved \in Nat

VARIABLES
    known,      \* users that have a row in "user"
    playlists,  \* table playlist: by id the name and the owner
    serial,     \* the id of the next playlist
    rows,       \* the id of the next row of playlist_track
    saved,      \* table playlist_track: rows that name a playlist and a song
    queries,    \* per task: the command it runs and the statement that comes next
    reported    \* ids of playlists whose deletion has been reported

playlistVars == <<known, playlists, serial, rows, saved, queries, reported>>

NoQuery == [at |-> "idle", who |-> None, name |-> None, list |-> 0, songs |-> <<>>]

\* Rows of "user" are written by the votes, not here.
PlaylistInit ==
    /\ known \in SUBSET Owners
    /\ playlists = <<>> /\ serial = 1 /\ rows = 1 /\ saved = {}
    /\ queries = [t \in Tasks |-> NoQuery]
    /\ reported = {}

-----------------------------------------------------------------------------
KnownUser(u) == u \in known

\* What get, list and pplay read: by the id any user's, by name all of one's own.
GetPlaylistsByUser(u) == {id \in DOMAIN playlists : playlists[id].owner = u}
GetPlaylistByName(u, n) == {id \in GetPlaylistsByUser(u) : playlists[id].name = n}
TracksInPlaylist(id) == {row \in saved : row.list = id}
TracksForName(u, n) == {row \in saved : row.list \in GetPlaylistByName(u, n)}

Queries(t, place) == queries[t].at = place
Query(t, next) == queries' = [queries EXCEPT ![t] = next]

-----------------------------------------------------------------------------
(* The commands *)

CreatePlaylist(t, u, n) ==
    /\ Queries(t, "idle")
    /\ Query(t, [NoQuery EXCEPT !.at = "create", !.who = u, !.name = n])
    /\ UNCHANGED <<known, playlists, serial, rows, saved, reported>>

\* The song is the one that plays; nothing is saved when none does.
AddToPlaylist(t, u, n, song) ==
    /\ Queries(t, "idle")
    /\ Query(t, [NoQuery EXCEPT !.at = "find", !.who = u, !.name = n, !.songs = <<song>>])
    /\ UNCHANGED <<known, playlists, serial, rows, saved, reported>>

\* loadspotify always creates a playlist, whether or not there is one of that name.
LoadSpotify(t, u, n, songs) ==
    /\ Queries(t, "idle")
    /\ Query(t, [NoQuery EXCEPT !.at = "create", !.who = u, !.name = n, !.songs = songs])
    /\ UNCHANGED <<known, playlists, serial, rows, saved, reported>>

\* delete takes any id, whoever the playlist belongs to.
DeletePlaylist(t, id) ==
    /\ Queries(t, "idle")
    /\ Query(t, [NoQuery EXCEPT !.at = "tracks", !.list = id])
    /\ UNCHANGED <<known, playlists, serial, rows, saved, reported>>

\* One of the rows that the name finds.
DeletePlaylistByName(t, u, n) ==
    /\ Queries(t, "idle")
    /\ \E id \in GetPlaylistByName(u, n) :
         Query(t, [NoQuery EXCEPT !.at = "tracks", !.list = id])
    /\ UNCHANGED <<known, playlists, serial, rows, saved, reported>>

\* pplay reads the rows at once, in the order in which the database has them, and
\* queues the songs later.
PlayPlaylist(t, tracks) ==
    /\ Queries(t, "idle")
    /\ \E order \in SetToSeqs(tracks) :
         Query(t, [NoQuery EXCEPT !.at = "play", !.songs = [i \in DOMAIN order |-> order[i].song]])
    /\ UNCHANGED <<known, playlists, serial, rows, saved, reported>>

UpdatePlaylistName(id, n) ==
    /\ id \in DOMAIN playlists
    /\ playlists' = [playlists EXCEPT ![id].name = n]
    /\ UNCHANGED <<known, serial, rows, saved, queries, reported>>

-----------------------------------------------------------------------------
(* Their statements *)

\* addto takes a failed query for an absent playlist, and creates another one.
FindPlaylist(t) ==
    /\ Queries(t, "find")
    /\ \/ \E id \in GetPlaylistByName(queries[t].who, queries[t].name) :
            Query(t, [queries[t] EXCEPT !.at = "insert", !.list = id])
       \/ Query(t, [queries[t] EXCEPT !.at = "create"])
    /\ UNCHANGED <<known, playlists, serial, rows, saved, reported>>

\* Playlist::create, for a user who is known.
InsertPlaylist(t) ==
    /\ Queries(t, "create") /\ KnownUser(queries[t].who) /\ serial <= MaxPlaylists
    /\ playlists' = Put(playlists, serial, [name |-> queries[t].name, owner |-> queries[t].who])
    /\ serial' = serial + 1
    /\ Query(t, IF queries[t].songs = <<>> THEN NoQuery
                ELSE [queries[t] EXCEPT !.at = "insert", !.list = serial])
    /\ UNCHANGED <<known, rows, saved, reported>>

\* Metadata::get_or_create and add_track, whose row must name a playlist that exists.
AddTrack(t) ==
    /\ Queries(t, "insert") /\ queries[t].list \in DOMAIN playlists /\ rows <= MaxSaved
    /\ saved' = saved \union
         {[id |-> rows, list |-> queries[t].list, song |-> Head(queries[t].songs)]}
    /\ rows' = rows + 1
    /\ Query(t, IF Len(queries[t].songs) = 1 THEN NoQuery
                ELSE [queries[t] EXCEPT !.songs = Tail(@)])
    /\ UNCHANGED <<known, playlists, serial, reported>>

DeleteTracks(t) ==
    /\ Queries(t, "tracks")
    /\ saved' = saved \ TracksInPlaylist(queries[t].list)
    /\ Query(t, [queries[t] EXCEPT !.at = "row"])
    /\ UNCHANGED <<known, playlists, serial, rows, reported>>

\* Mutant: the error of the second statement is dropped like that of a log message.
DeletePlaylistRowQuietly(t) ==
    /\ Queries(t, "row")
    /\ playlists' = IF TracksInPlaylist(queries[t].list) = {}
                    THEN Drop(playlists, {queries[t].list}) ELSE playlists
    /\ reported' = reported \union {queries[t].list}
    /\ Query(t, NoQuery)
    /\ UNCHANGED <<known, serial, rows, saved>>

\* A row that tracks refer to cannot be deleted; one that is absent is no error.
DeletePlaylistRow(t) ==
    /\ Queries(t, "row") /\ TracksInPlaylist(queries[t].list) = {}
    /\ playlists' = Drop(playlists, {queries[t].list})
    /\ reported' = reported \union {queries[t].list}
    /\ Query(t, NoQuery)
    /\ UNCHANGED <<known, serial, rows, saved>>

\* queue_aux_metadata: a playlist command of Playback.
QueuePlaylist(t) ==
    /\ Queries(t, "play")
    /\ Query(t, NoQuery)
    /\ UNCHANGED <<known, playlists, serial, rows, saved, reported>>

\* A statement fails, for a reason of its own or because of a foreign key or an
\* unknown user; what the statements before it did stays done.
StatementFails(t) ==
    /\ queries[t].at \in {"create", "insert", "tracks", "row"}
    /\ Query(t, NoQuery)
    /\ UNCHANGED <<known, playlists, serial, rows, saved, reported>>

-----------------------------------------------------------------------------
PlaylistCommand(t) ==
    \/ \E u \in Owners, n \in PlaylistNames :
         \/ CreatePlaylist(t, u, n)
         \/ \E song \in Songs : AddToPlaylist(t, u, n, song)
         \/ \E songs \in BoundedSeq(Songs, MaxSaved) : LoadSpotify(t, u, n, songs)
         \/ DeletePlaylistByName(t, u, n)
         \/ PlayPlaylist(t, TracksForName(u, n))
    \/ \E id \in 1..serial - 1 : DeletePlaylist(t, id) \/ PlayPlaylist(t, TracksInPlaylist(id))

PlaylistStatement(t) ==
    FindPlaylist(t) \/ InsertPlaylist(t) \/ AddTrack(t) \/ DeleteTracks(t)
      \/ DeletePlaylistRow(t) \/ QueuePlaylist(t) \/ StatementFails(t)

PlaylistNext ==
    \/ \E t \in Tasks : PlaylistCommand(t) \/ PlaylistStatement(t)
    \/ \E id \in 1..MaxPlaylists, n \in PlaylistNames : UpdatePlaylistName(id, n)

PlaylistSpec == PlaylistInit /\ [][PlaylistNext]_playlistVars

-----------------------------------------------------------------------------
\* The statement that comes next knows its user and its name, has songs left to add, or
\* an id that has been given out.
QueryPlaces == {"idle", "create", "find", "insert", "tracks", "row", "play"}
QueryShape(q) ==
    /\ q.at \in QueryPlaces
    /\ q.at \in {"create", "find"} => q.who \in Owners /\ q.name \in PlaylistNames
    /\ q.at \in {"find", "insert"} => q.songs # <<>>
    /\ q.at # "play" => q.songs \in Seq(Songs)
    /\ q.at = "play" => \A i \in DOMAIN q.songs : q.songs[i] \in Songs
    /\ q.at \in {"tracks", "row"} => q.list > 0

\* Every playlist has an owner with a row, every saved row names a playlist that is there,
\* and ids are below the next one.
PlaylistTypeOK ==
    /\ known \subseteq Owners
    /\ DOMAIN playlists \subseteq 1..serial - 1 /\ serial \in 1..MaxPlaylists + 1
    /\ \A id \in DOMAIN playlists : playlists[id] \in [name : PlaylistNames, owner : known]
    /\ rows \in Nat /\ rows > 0
    /\ saved \subseteq [id : 1..rows - 1, list : DOMAIN playlists, song : Songs]
    /\ DOMAIN queries = Tasks
    /\ \A t \in Tasks : QueryShape(queries[t]) /\ queries[t].list \in 0..serial - 1
    /\ reported \subseteq 1..serial - 1

\* A playlist whose deletion was reported is gone for good, and its tracks with it: also
\* when a command that found or created it before goes on adding tracks between the two
\* statements of the deletion or after them, and when two deletions overlap.
DeletedPlaylistsAreGone ==
    \A id \in reported : id \notin DOMAIN playlists /\ TracksInPlaylist(id) = {}
=============================================================================
