---------------------------- MODULE ServiceProofs ----------------------------
(***************************************************************************)
(* For any number of tasks, users, playlists, rows and messages: every     *)
(* service keeps its variables well formed; a playlist that was reported   *)
(* as deleted is gone, a user who was deauthorised stays so, every stored  *)
(* vote is accounted for, an ignored channel is told nothing, a saved      *)
(* profile is what a start loads, clean reports what it deleted, the reply *)
(* of play names its own track, the track queues of the library keep every *)
(* track in one place, and a jump of the interpreter ends at the partner.  *)
(***************************************************************************)
EXTENDS MCServices, QueueLemmas, FiniteSetTheorems, TLAPS

LEMMA PutDomain ==
    ASSUME NEW map, NEW key, NEW value
    PROVE  DOMAIN Put(map, key, value) = DOMAIN map \union {key}
BY DEF Put

LEMMA DropDomain ==
    ASSUME NEW map, NEW keys
    PROVE  DOMAIN Drop(map, keys) = DOMAIN map \ keys
BY DEF Drop

-----------------------------------------------------------------------------
(* Playlists *)

\* A query that names no playlist, or one whose id has been given out.
QueryOK(q, next) ==
    /\ DOMAIN q = {"at", "who", "name", "list", "songs"}
    /\ q.list \in Nat /\ q.list < next

\* The inductive invariant.  Ids are never used twice, because all of them are below
\* the next one, and what is saved belongs to a playlist that exists, because of the
\* foreign key of playlist_track.
ListInv ==
    /\ serial \in Nat /\ serial > 0
    /\ \A id \in DOMAIN playlists \union reported : id \in Nat /\ id < serial
    /\ \A row \in saved : row.list \in DOMAIN playlists
    /\ reported \intersect DOMAIN playlists = {}
    /\ DOMAIN queries = Tasks
    /\ \A t \in Tasks : QueryOK(queries[t], serial)

LEMMA NoQueryOK ==
    ASSUME NEW next \in Nat, next > 0
    PROVE  QueryOK(NoQuery, next)
BY DEF QueryOK, NoQuery

\* The commands start their query from NoQuery.
LEMMA NewQueryOK ==
    ASSUME NEW next \in Nat, next > 0, NEW at, NEW who, NEW name, NEW songs
    PROVE  /\ QueryOK([NoQuery EXCEPT !.at = at, !.who = who, !.name = name], next)
           /\ QueryOK([NoQuery EXCEPT !.at = at, !.who = who, !.name = name, !.songs = songs], next)
           /\ QueryOK([NoQuery EXCEPT !.at = at, !.songs = songs], next)
BY DEF QueryOK, NoQuery

LEMMA ListQueryOK ==
    ASSUME NEW next \in Nat, NEW q, QueryOK(q, next), NEW at, NEW list \in Nat, list < next
    PROVE  /\ QueryOK([q EXCEPT !.at = at, !.list = list], next)
           /\ [q EXCEPT !.at = at, !.list = list].list = list
BY DEF QueryOK

LEMMA MovedQueryOK ==
    ASSUME NEW next \in Nat, NEW q, QueryOK(q, next), NEW at, NEW songs
    PROVE  QueryOK([q EXCEPT !.at = at], next) /\ QueryOK([q EXCEPT !.songs = songs], next)
BY DEF QueryOK

\* Only the query of the task itself changes.
LEMMA QueryStep ==
    ASSUME ListInv, NEW t \in Tasks, NEW next, NEW bound \in Nat, bound >= serial,
           QueryOK(next, bound), Query(t, next)
    PROVE  DOMAIN queries' = Tasks /\ \A u \in Tasks : QueryOK(queries'[u], bound)
<1>1. \A u \in Tasks : QueryOK(queries[u], bound)
  BY DEF ListInv, QueryOK
<1>2. \A u \in Tasks : queries'[u] = IF u = t THEN next ELSE queries[u]
  BY DEF ListInv, Query
<1>3. DOMAIN queries' = Tasks
  BY DEF ListInv, Query
<1> QED BY <1>1, <1>2, <1>3

\* A step that changes nothing but the query of its task.
LEMMA OnlyQuery ==
    ASSUME ListInv, NEW t \in Tasks, NEW next, QueryOK(next, serial), Query(t, next),
           UNCHANGED <<playlists, serial, saved, reported>>
    PROVE  ListInv'
<1>1. serial \in Nat /\ serial >= serial
  BY DEF ListInv
<1>2. DOMAIN queries' = Tasks /\ \A u \in Tasks : QueryOK(queries'[u], serial)
  BY <1>1, QueryStep
<1> QED BY <1>2 DEF ListInv

LEMMA ListInvInit == PlaylistInit => ListInv
BY NoQueryOK DEF PlaylistInit, ListInv

LEMMA CommandKeepsListInv ==
    ASSUME ListInv, NEW t \in Tasks, PlaylistCommand(t)
    PROVE  ListInv'
<1>1. serial \in Nat /\ serial > 0
  BY DEF ListInv
<1>2. ASSUME NEW u, NEW n, CreatePlaylist(t, u, n)
      PROVE  ListInv'
  BY <1>1, <1>2, NewQueryOK, OnlyQuery DEF CreatePlaylist
<1>3. ASSUME NEW u, NEW n, NEW song, AddToPlaylist(t, u, n, song)
      PROVE  ListInv'
  BY <1>1, <1>3, NewQueryOK, OnlyQuery DEF AddToPlaylist
<1>4. ASSUME NEW u, NEW n, NEW songs, LoadSpotify(t, u, n, songs)
      PROVE  ListInv'
  BY <1>1, <1>4, NewQueryOK, OnlyQuery DEF LoadSpotify
<1>5. ASSUME NEW id \in Nat, id < serial,
             Query(t, [NoQuery EXCEPT !.at = "tracks", !.list = id]),
             UNCHANGED <<known, playlists, serial, rows, saved, reported>>
      PROVE  ListInv'
  <2>1. QueryOK(NoQuery, serial)
    BY <1>1, NoQueryOK
  <2>2. QueryOK([NoQuery EXCEPT !.at = "tracks", !.list = id], serial)
    BY <1>1, <1>5, <2>1, ListQueryOK
  <2> QED BY <1>5, <2>2, OnlyQuery
<1>6. ASSUME NEW u, NEW n, DeletePlaylistByName(t, u, n)
      PROVE  ListInv'
  <2>1. PICK id \in GetPlaylistByName(u, n) :
          Query(t, [NoQuery EXCEPT !.at = "tracks", !.list = id])
    BY <1>6 DEF DeletePlaylistByName
  <2>2. id \in Nat /\ id < serial
    BY <2>1 DEF ListInv, GetPlaylistByName, GetPlaylistsByUser
  <2> QED BY <1>5, <1>6, <2>1, <2>2 DEF DeletePlaylistByName
<1>7. ASSUME NEW id \in 1..serial - 1, DeletePlaylist(t, id)
      PROVE  ListInv'
  <2>1. id \in Nat /\ id < serial
    BY <1>1
  <2> QED BY <1>5, <1>7, <2>1 DEF DeletePlaylist
<1>8. ASSUME NEW tracks, PlayPlaylist(t, tracks)
      PROVE  ListInv'
  <2>1. PICK songs : Query(t, [NoQuery EXCEPT !.at = "play", !.songs = songs])
    BY <1>8 DEF PlayPlaylist
  <2>2. QueryOK([NoQuery EXCEPT !.at = "play", !.songs = songs], serial)
    BY <1>1, NewQueryOK
  <2> QED BY <1>8, <2>1, <2>2, OnlyQuery DEF PlayPlaylist
<1> QED BY <1>2, <1>3, <1>4, <1>6, <1>7, <1>8 DEF PlaylistCommand

\* One step of the proof for each statement: the foreign key guards the insertion, and
\* the deletion of a row that tracks refer to.
LEMMA StatementKeepsListInv ==
    ASSUME ListInv, NEW t \in Tasks, PlaylistStatement(t)
    PROVE  ListInv'
<1>1. /\ serial \in Nat /\ serial > 0
      /\ serial + 1 \in Nat /\ serial + 1 >= serial /\ serial < serial + 1
  BY DEF ListInv
<1>2. QueryOK(queries[t], serial) /\ QueryOK(NoQuery, serial) /\ QueryOK(NoQuery, serial + 1)
  BY <1>1, NoQueryOK DEF ListInv
<1>3. CASE FindPlaylist(t)
  <2>1. ASSUME NEW id \in GetPlaylistByName(queries[t].who, queries[t].name)
        PROVE  QueryOK([queries[t] EXCEPT !.at = "insert", !.list = id], serial)
    <3>1. id \in Nat /\ id < serial
      BY DEF ListInv, GetPlaylistByName, GetPlaylistsByUser
    <3> QED BY <1>1, <1>2, <3>1, ListQueryOK
  <2>2. QueryOK([queries[t] EXCEPT !.at = "create"], serial)
    BY <1>1, <1>2, MovedQueryOK
  <2> QED BY <1>3, <2>1, <2>2, OnlyQuery DEF FindPlaylist
<1>4. CASE InsertPlaylist(t)
  <2>1. PICK next : Query(t, next) /\ QueryOK(next, serial + 1)
    <3>1. QueryOK(queries[t], serial + 1)
      BY <1>1, <1>2 DEF QueryOK
    <3>2. QueryOK([queries[t] EXCEPT !.at = "insert", !.list = serial], serial + 1)
      BY <1>1, <3>1, ListQueryOK
    <3> QED BY <1>2, <1>4, <3>2 DEF InsertPlaylist
  <2>2. DOMAIN queries' = Tasks /\ \A u \in Tasks : QueryOK(queries'[u], serial + 1)
    BY <1>1, <2>1, QueryStep
  <2>3. DOMAIN playlists' = DOMAIN playlists \union {serial}
    BY <1>4, PutDomain DEF InsertPlaylist
  <2>4. serial' = serial + 1 /\ saved' = saved /\ reported' = reported
    BY <1>4 DEF InsertPlaylist
  <2> QED BY <1>1, <2>2, <2>3, <2>4 DEF ListInv
<1>5. CASE AddTrack(t)
  <2>1. PICK next : Query(t, next) /\ QueryOK(next, serial)
    <3>1. QueryOK([queries[t] EXCEPT !.songs = Tail(@)], serial)
      BY <1>1, <1>2, MovedQueryOK
    <3> QED BY <1>2, <1>5, <3>1 DEF AddTrack
  <2>2. DOMAIN queries' = Tasks /\ \A u \in Tasks : QueryOK(queries'[u], serial)
    BY <1>1, <2>1, QueryStep
  <2>3. \A row \in saved' : row.list \in DOMAIN playlists
    BY <1>5 DEF AddTrack, ListInv
  <2>4. UNCHANGED <<playlists, serial, reported>>
    BY <1>5 DEF AddTrack
  <2> QED BY <2>2, <2>3, <2>4 DEF ListInv
<1>6. CASE DeleteTracks(t)
  <2>1. QueryOK([queries[t] EXCEPT !.at = "row"], serial)
    BY <1>1, <1>2, MovedQueryOK
  <2>2. DOMAIN queries' = Tasks /\ \A u \in Tasks : QueryOK(queries'[u], serial)
    BY <1>1, <1>6, <2>1, QueryStep DEF DeleteTracks
  <2>3. saved' \subseteq saved
    BY <1>6 DEF DeleteTracks
  <2>4. UNCHANGED <<playlists, serial, reported>>
    BY <1>6 DEF DeleteTracks
  <2> QED BY <2>2, <2>3, <2>4 DEF ListInv
<1>7. CASE DeletePlaylistRow(t)
  <2>1. DOMAIN queries' = Tasks /\ \A u \in Tasks : QueryOK(queries'[u], serial)
    BY <1>1, <1>2, <1>7, QueryStep DEF DeletePlaylistRow
  <2>2. DOMAIN playlists' = DOMAIN playlists \ {queries[t].list}
    BY <1>7, DropDomain DEF DeletePlaylistRow
  <2>3. \A row \in saved : row.list # queries[t].list
    BY <1>7 DEF DeletePlaylistRow, TracksInPlaylist
  <2>4. /\ UNCHANGED <<serial, saved>>
        /\ reported' = reported \union {queries[t].list}
    BY <1>7 DEF DeletePlaylistRow
  <2>5. queries[t].list \in Nat /\ queries[t].list < serial
    BY <1>2 DEF QueryOK
  <2> QED BY <2>1, <2>2, <2>3, <2>4, <2>5 DEF ListInv
<1>8. CASE QueuePlaylist(t) \/ StatementFails(t)
  BY <1>2, <1>8, OnlyQuery DEF QueuePlaylist, StatementFails
<1> QED BY <1>3, <1>4, <1>5, <1>6, <1>7, <1>8 DEF PlaylistStatement

LEMMA ListInvNext == ListInv /\ [PlaylistNext]_playlistVars => ListInv'
<1> SUFFICES ASSUME ListInv, [PlaylistNext]_playlistVars
             PROVE  ListInv'
  OBVIOUS
<1>1. ASSUME NEW id, NEW n, UpdatePlaylistName(id, n)
      PROVE  ListInv'
  <2>1. DOMAIN playlists' = DOMAIN playlists
    BY <1>1 DEF UpdatePlaylistName
  <2>2. UNCHANGED <<serial, saved, queries, reported>>
    BY <1>1 DEF UpdatePlaylistName
  <2> QED BY <2>1, <2>2 DEF ListInv
<1>2. CASE UNCHANGED playlistVars
  BY <1>2 DEF playlistVars, ListInv
<1> QED BY <1>1, <1>2, CommandKeepsListInv, StatementKeepsListInv DEF PlaylistNext

\* A playlist whose deletion was reported is gone with its tracks, however many commands
\* on it overlap (Playlist::delete_playlist, Playlist::add_track).
THEOREM DeletionIsFinal == PlaylistSpec => []DeletedPlaylistsAreGone
<1>1. ListInv => DeletedPlaylistsAreGone
  BY DEF ListInv, DeletedPlaylistsAreGone, TracksInPlaylist
<1> QED BY <1>1, ListInvInit, ListInvNext, PTL DEF PlaylistSpec

ListShape ==
    /\ known \subseteq Owners
    /\ serial <= MaxPlaylists + 1
    /\ rows \in Nat /\ rows > 0
    /\ \A id \in DOMAIN playlists :
         id > 0 /\ playlists[id] \in [name : PlaylistNames, owner : known]
    /\ saved \subseteq [id : 1..rows - 1, list : Nat, song : Songs]
    /\ \A id \in reported : id > 0
    /\ \A t \in Tasks : QueryShape(queries[t])

LEMMA NoQueryShape == QueryShape(NoQuery)
<1>1. <<>> \in Seq(Songs)
  OBVIOUS
<1> QED BY <1>1 DEF QueryShape, NoQuery, QueryPlaces

LEMMA StartedShape ==
    ASSUME NEW u \in Owners, NEW n \in PlaylistNames, NEW songs \in Seq(Songs)
    PROVE  /\ QueryShape([NoQuery EXCEPT !.at = "create", !.who = u, !.name = n])
           /\ QueryShape([NoQuery EXCEPT !.at = "create", !.who = u, !.name = n, !.songs = songs])
           /\ songs # <<>> =>
                QueryShape([NoQuery EXCEPT !.at = "find", !.who = u, !.name = n, !.songs = songs])
<1>1. <<>> \in Seq(Songs)
  OBVIOUS
<1> QED BY <1>1 DEF QueryShape, NoQuery, QueryPlaces

LEMMA OtherShape ==
    ASSUME NEW id, NEW songs
    PROVE  /\ id > 0 => QueryShape([NoQuery EXCEPT !.at = "tracks", !.list = id])
           /\ (\A i \in DOMAIN songs : songs[i] \in Songs) =>
                QueryShape([NoQuery EXCEPT !.at = "play", !.songs = songs])
<1>1. <<>> \in Seq(Songs)
  OBVIOUS
<1> QED BY <1>1 DEF QueryShape, NoQuery, QueryPlaces

LEMMA MovedShape ==
    ASSUME NEW q, NEW next, QueryOK(q, next), QueryShape(q), NEW id
    PROVE  /\ q.at = "find" => /\ QueryShape([q EXCEPT !.at = "insert", !.list = id])
                               /\ QueryShape([q EXCEPT !.at = "create"])
           /\ q.at = "create" /\ q.songs # <<>> =>
                QueryShape([q EXCEPT !.at = "insert", !.list = id])
           /\ q.at = "tracks" => QueryShape([q EXCEPT !.at = "row"])
BY DEF QueryShape, QueryOK, QueryPlaces

\* What is left of more than one song.
LEMMA RestIs ==
    ASSUME NEW s \in Seq(Songs), s # <<>>, Len(s) # 1
    PROVE  Tail(s) \in Seq(Songs) /\ Tail(s) # <<>>
<1>1. Len(s) \in Nat /\ Len(s) # 0
  OBVIOUS
<1>2. Len(s) > 1 /\ Tail(s) \in Seq(Songs)
  BY <1>1
<1>3. Len(Tail(s)) = Len(s) - 1
  BY <1>1
<1>4. Len(Tail(s)) # 0
  BY <1>1, <1>2, <1>3
<1> QED BY <1>2, <1>4

LEMMA TailShape ==
    ASSUME NEW q, NEW next, QueryOK(q, next), QueryShape(q), q.at = "insert", Len(q.songs) # 1
    PROVE  QueryShape([q EXCEPT !.songs = Tail(@)])
<1> DEFINE s == q.songs
           r == Tail(s)
<1>1. s \in Seq(Songs) /\ s # <<>> /\ Len(s) # 1
  BY DEF QueryShape
<1> HIDE DEF s
<1>2. r \in Seq(Songs) /\ r # <<>>
  BY <1>1, RestIs
<1> HIDE DEF r
<1>3. [q EXCEPT !.songs = r].at = "insert" /\ [q EXCEPT !.songs = r].songs = r
  BY DEF QueryOK
<1>4. QueryShape([q EXCEPT !.songs = r])
  BY <1>2, <1>3 DEF QueryShape, QueryPlaces
<1> QED BY <1>4 DEF r, s

\* Only the query of the task itself changes.
LEMMA ShapeStep ==
    ASSUME ListInv, ListShape, NEW t \in Tasks, NEW next, QueryShape(next), Query(t, next)
    PROVE  \A u \in Tasks : QueryShape(queries'[u])
<1>1. \A u \in Tasks : queries'[u] = IF u = t THEN next ELSE queries[u]
  BY DEF ListInv, Query
<1> QED BY <1>1 DEF ListShape

LEMMA OnlyShape ==
    ASSUME ListInv, ListShape, NEW t \in Tasks, NEW next, QueryShape(next), Query(t, next),
           UNCHANGED <<known, playlists, serial, rows, saved, reported>>
    PROVE  ListShape'
<1>1. \A u \in Tasks : QueryShape(queries'[u])
  BY ShapeStep
<1> QED BY <1>1 DEF ListShape

LEMMA CommandKeepsListShape ==
    ASSUME ListInv, ListShape, NEW t \in Tasks, PlaylistCommand(t)
    PROVE  ListShape'
<1>1. ASSUME NEW u \in Owners, NEW n \in PlaylistNames, CreatePlaylist(t, u, n)
      PROVE  ListShape'
  <2>1. <<>> \in Seq(Songs)
    OBVIOUS
  <2>2. QueryShape([NoQuery EXCEPT !.at = "create", !.who = u, !.name = n])
    BY <2>1, StartedShape
  <2> QED BY <1>1, <2>2, OnlyShape DEF CreatePlaylist
<1>2. ASSUME NEW u \in Owners, NEW n \in PlaylistNames, NEW song \in Songs, AddToPlaylist(t, u, n, song)
      PROVE  ListShape'
  <2> DEFINE songs == <<song>>
  <2>1. songs \in Seq(Songs) /\ songs # <<>>
    OBVIOUS
  <2>2. Query(t, [NoQuery EXCEPT !.at = "find", !.who = u, !.name = n, !.songs = songs])
    BY <1>2 DEF AddToPlaylist
  <2> HIDE DEF songs
  <2>3. QueryShape([NoQuery EXCEPT !.at = "find", !.who = u, !.name = n, !.songs = songs])
    BY <2>1, StartedShape
  <2> QED BY <1>2, <2>2, <2>3, OnlyShape DEF AddToPlaylist
<1>3. ASSUME NEW u \in Owners, NEW n \in PlaylistNames, NEW songs \in BoundedSeq(Songs, MaxSaved),
             LoadSpotify(t, u, n, songs)
      PROVE  ListShape'
  <2>1. songs \in Seq(Songs)
    BY PlaylistsAssumption DEF BoundedSeq, SeqOf
  <2>2. QueryShape([NoQuery EXCEPT !.at = "create", !.who = u, !.name = n, !.songs = songs])
    BY <2>1, StartedShape
  <2> QED BY <1>3, <2>2, OnlyShape DEF LoadSpotify
<1>4. ASSUME NEW u, NEW n, DeletePlaylistByName(t, u, n)
      PROVE  ListShape'
  <2>1. PICK id \in GetPlaylistByName(u, n) :
          Query(t, [NoQuery EXCEPT !.at = "tracks", !.list = id])
    BY <1>4 DEF DeletePlaylistByName
  <2>2. id > 0
    BY <2>1 DEF ListShape, GetPlaylistByName, GetPlaylistsByUser
  <2> QED BY <1>4, <2>1, <2>2, OtherShape, OnlyShape DEF DeletePlaylistByName
<1>5. ASSUME NEW id \in 1..serial - 1, DeletePlaylist(t, id)
      PROVE  ListShape'
  <2>1. id > 0
    BY DEF ListInv
  <2> QED BY <1>5, <2>1, OtherShape, OnlyShape DEF DeletePlaylist
<1>6. ASSUME NEW tracks \in SUBSET saved, PlayPlaylist(t, tracks)
      PROVE  ListShape'
  <2>1. PICK order \in SetToSeqs(tracks) :
          Query(t, [NoQuery EXCEPT !.at = "play", !.songs = [i \in DOMAIN order |-> order[i].song]])
    BY <1>6 DEF PlayPlaylist
  <2> DEFINE songs == [i \in DOMAIN order |-> order[i].song]
  <2>2. \A i \in DOMAIN order : order[i] \in tracks
    BY DEF SetToSeqs
  <2>3. \A row \in saved : row.song \in Songs
    BY DEF ListShape
  <2>4. \A i \in DOMAIN songs : songs[i] \in Songs
    BY <2>2, <2>3
  <2>5. Query(t, [NoQuery EXCEPT !.at = "play", !.songs = songs])
    BY <2>1
  <2> HIDE DEF songs
  <2> QED BY <1>6, <2>4, <2>5, OtherShape, OnlyShape DEF PlayPlaylist
<1>7. \A u, n : TracksForName(u, n) \in SUBSET saved
  BY DEF TracksForName
<1>8. \A id : TracksInPlaylist(id) \in SUBSET saved
  BY DEF TracksInPlaylist
<1> QED BY <1>1, <1>2, <1>3, <1>4, <1>5, <1>6, <1>7, <1>8 DEF PlaylistCommand

LEMMA StatementKeepsListShape ==
    ASSUME ListInv, ListShape, NEW t \in Tasks, PlaylistStatement(t)
    PROVE  ListShape'
<1>1. /\ serial \in Nat /\ serial > 0 /\ rows \in Nat /\ rows > 0
      /\ QueryOK(queries[t], serial) /\ QueryShape(queries[t])
  BY DEF ListInv, ListShape
<1>2. CASE FindPlaylist(t)
  <2>1. queries[t].at = "find"
    BY <1>2 DEF FindPlaylist, Queries
  <2>2. QueryShape([queries[t] EXCEPT !.at = "create"])
    BY <1>1, <2>1, MovedShape
  <2>3. \A id : QueryShape([queries[t] EXCEPT !.at = "insert", !.list = id])
    BY <1>1, <2>1, MovedShape
  <2> QED BY <1>2, <2>2, <2>3, OnlyShape DEF FindPlaylist
<1>3. CASE InsertPlaylist(t)
  <2> DEFINE new == [name |-> queries[t].name, owner |-> queries[t].who]
  <2>1. queries[t].at = "create" /\ queries[t].who \in known
    BY <1>3 DEF InsertPlaylist, Queries, KnownUser
  <2>2. new \in [name : PlaylistNames, owner : known]
    BY <1>1, <2>1 DEF QueryShape
  <2>3. playlists' = Put(playlists, serial, new) /\ serial' = serial + 1 /\ serial <= MaxPlaylists
    BY <1>3 DEF InsertPlaylist
  <2> HIDE DEF new
  <2>4. \A id \in DOMAIN playlists' :
          id > 0 /\ playlists'[id] \in [name : PlaylistNames, owner : known]
    BY <1>1, <2>2, <2>3 DEF Put, ListShape
  <2>5. queries[t].songs # <<>> => QueryShape([queries[t] EXCEPT !.at = "insert", !.list = serial])
    BY <1>1, <2>1, MovedShape
  <2>6. PICK next : Query(t, next) /\ QueryShape(next)
    BY <1>3, <2>5, NoQueryShape DEF InsertPlaylist
  <2>7. \A u \in Tasks : QueryShape(queries'[u])
    BY <2>6, ShapeStep
  <2>8. serial' <= MaxPlaylists + 1
    BY <1>1, <2>3, PlaylistsAssumption
  <2> QED BY <1>3, <2>4, <2>7, <2>8 DEF InsertPlaylist, ListShape
<1>4. CASE AddTrack(t)
  <2> DEFINE row == [id |-> rows, list |-> queries[t].list, song |-> Head(queries[t].songs)]
  <2>1. queries[t].at = "insert"
    BY <1>4 DEF AddTrack, Queries
  <2>2. Head(queries[t].songs) \in Songs
    BY <1>1, <2>1 DEF QueryShape
  <2>3. queries[t].list \in Nat
    BY <1>1 DEF QueryOK
  <2>4. row \in [id : 1..rows, list : Nat, song : Songs]
    BY <1>1, <2>2, <2>3
  <2>5. saved' = saved \union {row} /\ rows' = rows + 1
    BY <1>4 DEF AddTrack
  <2> HIDE DEF row
  <2>6. saved' \subseteq [id : 1..rows' - 1, list : Nat, song : Songs]
    <3>1. \A i \in 1..rows - 1 : i \in 1..rows
      BY <1>1
    <3>2. saved \subseteq [id : 1..rows, list : Nat, song : Songs]
      BY <3>1 DEF ListShape
    <3>3. rows' - 1 = rows
      BY <1>1, <2>5
    <3> QED BY <2>4, <2>5, <3>2, <3>3
  <2>7. Len(queries[t].songs) # 1 => QueryShape([queries[t] EXCEPT !.songs = Tail(@)])
    BY <1>1, <2>1, TailShape
  <2>8. PICK next : Query(t, next) /\ QueryShape(next)
    BY <1>4, <2>7, NoQueryShape DEF AddTrack
  <2>9. \A u \in Tasks : QueryShape(queries'[u])
    BY <2>8, ShapeStep
  <2>10. rows' \in Nat /\ rows' > 0
    BY <1>1, <2>5
  <2> QED BY <1>4, <2>6, <2>9, <2>10 DEF AddTrack, ListShape
<1>5. CASE DeleteTracks(t)
  <2>1. QueryShape([queries[t] EXCEPT !.at = "row"])
    BY <1>1, <1>5, MovedShape DEF DeleteTracks, Queries
  <2>2. \A u \in Tasks : QueryShape(queries'[u])
    BY <1>5, <2>1, ShapeStep DEF DeleteTracks
  <2>3. saved' \subseteq saved
    BY <1>5 DEF DeleteTracks
  <2> QED BY <1>5, <2>2, <2>3 DEF DeleteTracks, ListShape
<1>6. CASE DeletePlaylistRow(t)
  <2>1. \A u \in Tasks : QueryShape(queries'[u])
    BY <1>6, NoQueryShape, ShapeStep DEF DeletePlaylistRow
  <2>2. \A id \in DOMAIN playlists' : id \in DOMAIN playlists /\ playlists'[id] = playlists[id]
    BY <1>6 DEF DeletePlaylistRow, Drop
  <2>3. UNCHANGED <<known, serial, rows, saved>>
    BY <1>6 DEF DeletePlaylistRow
  <2>4. queries[t].list > 0 /\ reported' = reported \union {queries[t].list}
    BY <1>1, <1>6 DEF DeletePlaylistRow, Queries, QueryShape
  <2> QED BY <2>1, <2>2, <2>3, <2>4 DEF ListShape
<1>7. CASE QueuePlaylist(t) \/ StatementFails(t)
  BY <1>7, NoQueryShape, OnlyShape DEF QueuePlaylist, StatementFails
<1> QED BY <1>2, <1>3, <1>4, <1>5, <1>6, <1>7 DEF PlaylistStatement

LEMMA ListShapeNext == ListInv /\ ListShape /\ [PlaylistNext]_playlistVars => ListShape'
<1> SUFFICES ASSUME ListInv, ListShape, [PlaylistNext]_playlistVars
             PROVE  ListShape'
  OBVIOUS
<1>1. ASSUME NEW id, NEW n \in PlaylistNames, UpdatePlaylistName(id, n)
      PROVE  ListShape'
  <2>1. \A p \in [name : PlaylistNames, owner : known] :
          [p EXCEPT !.name = n] \in [name : PlaylistNames, owner : known]
    OBVIOUS
  <2>2. \A k \in DOMAIN playlists' :
          k > 0 /\ playlists'[k] \in [name : PlaylistNames, owner : known]
    BY <1>1, <2>1 DEF UpdatePlaylistName, ListShape
  <2> QED BY <1>1, <2>2 DEF UpdatePlaylistName, ListShape
<1>2. CASE UNCHANGED playlistVars
  BY <1>2 DEF playlistVars, ListShape
<1> QED BY <1>1, <1>2, CommandKeepsListShape, StatementKeepsListShape DEF PlaylistNext

LEMMA ListShapeInit == PlaylistInit => ListShape
BY NoQueryShape, PlaylistsAssumption DEF PlaylistInit, ListShape

\* Every playlist has an owner who has a row, and every saved track names a playlist that
\* is there, whatever statements overlap and fail.
THEOREM PlaylistsTyped == PlaylistSpec => []PlaylistTypeOK
<1>1. ListInv /\ ListShape => PlaylistTypeOK
  <2> SUFFICES ASSUME ListInv, ListShape
               PROVE  PlaylistTypeOK
    OBVIOUS
  <2>1. serial \in 1..MaxPlaylists + 1 /\ DOMAIN playlists \subseteq 1..serial - 1
    <3>1. \A id \in DOMAIN playlists : id \in Nat /\ id < serial /\ id > 0
      BY DEF ListInv, ListShape
    <3> QED BY <3>1, PlaylistsAssumption DEF ListInv, ListShape
  <2>2. saved \subseteq [id : 1..rows - 1, list : DOMAIN playlists, song : Songs]
    BY DEF ListInv, ListShape
  <2>3. \A t \in Tasks : QueryShape(queries[t]) /\ queries[t].list \in 0..serial - 1
    <3>1. \A k \in Nat : k < serial => k \in 0..serial - 1
      BY DEF ListInv
    <3> QED BY <3>1 DEF ListInv, ListShape, QueryOK
  <2>4. reported \subseteq 1..serial - 1
    <3>1. \A id \in reported : id \in Nat /\ id < serial /\ id > 0
      BY DEF ListInv, ListShape
    <3> QED BY <3>1 DEF ListInv
  <2>5. DOMAIN queries = Tasks
    BY DEF ListInv
  <2> QED BY <2>1, <2>2, <2>3, <2>4, <2>5 DEF ListShape, PlaylistTypeOK
<1> QED BY <1>1, ListInvInit, ListInvNext, ListShapeInit, ListShapeNext, PTL DEF PlaylistSpec

-----------------------------------------------------------------------------
(* Access *)

\* The guild has settings or not, and the users in them are not revoked.
AccessInv ==
    /\ access = <<>> \/ access = <<access[1]>>
    /\ access # <<>> => access[1] = [authorized |-> access[1].authorized, music |-> access[1].music]
    /\ access # <<>> => access[1].authorized \intersect revoked = {}

\* A user who was deauthorised is not authorised again by a reload, a denial or a music
\* channel (GuildSettings::authorize_user, deauthorize, From<GuildSettingsRead>).
THEOREM RevocationLasts == AccessSpec => []RevokedStaysRevoked
<1>1. AccessInit => AccessInv
  BY DEF AccessInit, AccessInv
<1>2. AccessInv /\ [AccessNext]_accessVars => AccessInv'
  <2> SUFFICES ASSUME AccessInv, [AccessNext]_accessVars
               PROVE  AccessInv'
    OBVIOUS
  <2>1. /\ Present = [authorized |-> Present.authorized, music |-> Present.music]
        /\ Present.authorized \intersect revoked = {}
        /\ access # <<>> => Present = access[1]
    BY DEF AccessInv, Present, FreshAccess
  <2>2. ASSUME NEW authorized, NEW music, access' = <<[authorized |-> authorized, music |-> music]>>,
               authorized \intersect revoked' = {}
        PROVE  AccessInv'
    BY <2>2 DEF AccessInv
  <2>3. ASSUME NEW user, Authorize(user)
        PROVE  AccessInv'
    <3>1. [Present EXCEPT !.authorized = @ \union {user}] =
            [authorized |-> Present.authorized \union {user}, music |-> Present.music]
      BY SMTT(20), <2>1
    <3> QED BY <2>1, <2>2, <2>3, <3>1 DEF Authorize
  <2>4. ASSUME NEW user, Deauthorize(user)
        PROVE  AccessInv'
    <3>1. [Present EXCEPT !.authorized = @ \ {user}] =
            [authorized |-> Present.authorized \ {user}, music |-> Present.music]
      BY <2>1
    <3> QED BY <2>1, <2>2, <2>4, <3>1 DEF Deauthorize
  <2>5. ASSUME NEW music, UNCHANGED revoked, access' = <<[Present EXCEPT !.music = music]>>
        PROVE  AccessInv'
    <3>1. [Present EXCEPT !.music = music] =
            [authorized |-> Present.authorized, music |-> music]
      BY <2>1
    <3> QED BY <2>1, <2>2, <2>5, <3>1
  <2>6. ASSUME NEW user, DenyMusicUser(user)
        PROVE  AccessInv'
    BY <2>5, <2>6 DEF DenyMusicUser
  <2>7. ASSUME NEW channel, SetMusicChannel(channel)
        PROVE  AccessInv'
    <3>1. CASE access = <<>>
      BY <2>2, <2>7, <3>1 DEF SetMusicChannel, FreshAccess
    <3>2. CASE access # <<>>
      BY <2>1, <2>5, <2>7, <3>2 DEF SetMusicChannel
    <3> QED BY <3>1, <3>2
  <2>8. CASE ReloadAccess
    BY <2>2, <2>8 DEF ReloadAccess
  <2>9. CASE UNCHANGED <<access, revoked>>
    BY <2>9 DEF AccessInv
  <2>10. ASSUME NEW channel, \/ InsertPermissions(channel)
                             \/ \E id \in DOMAIN permissionRows : KeepPermissions(channel, id)
         PROVE  AccessInv'
    BY <2>9, <2>10 DEF InsertPermissions, KeepPermissions
  <2>11. CASE \/ WriteAuthorized \/ WriteAuthorizedFails \/ InsertCommandChannel
              \/ InsertCommandChannelFails \/ UNCHANGED accessVars
    BY <2>9, <2>11 DEF WriteAuthorized, WriteAuthorizedFails, InsertCommandChannel,
         InsertCommandChannelFails, accessVars
  <2> QED BY <2>3, <2>4, <2>6, <2>7, <2>8, <2>10, <2>11 DEF AccessNext
<1>3. AccessInv => RevokedStaysRevoked
  BY DEF AccessInv, RevokedStaysRevoked
<1> QED BY <1>1, <1>2, <1>3, PTL DEF AccessSpec

AccessShape ==
    /\ access = <<>> \/ access \in {<<a>> : a \in AccessEntry}
    /\ authorizedRows \subseteq Members /\ saving \subseteq Members /\ revoked \subseteq Members
    /\ permissionRows \in Seq(Permissions)
    /\ DOMAIN commandRows \subseteq Channels
    /\ \A c \in DOMAIN commandRows : commandRows[c] \in 1..Len(permissionRows)
    /\ storing = <<>> \/ storing \in Channels \X (1..Len(permissionRows))

LEMMA EntriesAre ==
    ASSUME AccessShape
    PROVE  /\ Present \in AccessEntry
           /\ access # <<>> => access[1] = Present
           /\ \A a \in AccessEntry : Music(a) \in Permissions
           /\ \A music \in CommandSettings :
                music \subseteq Permissions /\ \A p, q \in music : p = q
<1>1. FreshAccess \in AccessEntry
  BY DEF FreshAccess, AccessEntry
<1>2. Present \in AccessEntry /\ (access # <<>> => access[1] = Present)
  BY <1>1 DEF Present, AccessShape
<1>3. NoRestriction \in Permissions
  BY DEF NoRestriction, Permissions
<1>4. ASSUME NEW a \in AccessEntry
      PROVE  Music(a) \in Permissions
  <2>1. a.music \subseteq Permissions
    BY DEF AccessEntry
  <2> QED BY <1>3, <2>1 DEF Music
<1>5. \A music \in CommandSettings : music \subseteq Permissions /\ \A p, q \in music : p = q
  <2>1. \A c \in DOMAIN commandRows : permissionRows[commandRows[c]] \in Permissions
    BY DEF AccessShape
  <2> QED BY <2>1 DEF CommandSettings, ReadBack
<1> QED BY <1>2, <1>4, <1>5

LEMMA EditsAre ==
    ASSUME NEW p \in Permissions
    PROVE  /\ \A user \in Members : WithDeniedUser(p, user) \in Permissions
           /\ \A channel \in Channels : WithMusicChannel(p, channel) \in Permissions
<1>1. ASSUME NEW q \in Permissions, NEW s \in SUBSET Members
      PROVE  [q EXCEPT !["denied"] = s] \in Permissions
  BY DEF Permissions
<1>2. ASSUME NEW q \in Permissions, NEW s \in SUBSET Channels
      PROVE  /\ [q EXCEPT !["allowedIn"] = s] \in Permissions
             /\ [q EXCEPT !["deniedIn"] = s] \in Permissions
  BY DEF Permissions
<1>3. p.denied \in SUBSET Members
  BY DEF Permissions
<1>4. ASSUME NEW user \in Members
      PROVE  WithDeniedUser(p, user) \in Permissions
  <2>1. p.denied \union {user} \in SUBSET Members
    BY <1>3
  <2> QED BY <1>1, <2>1 DEF WithDeniedUser, Edited
<1>5. ASSUME NEW channel \in Channels
      PROVE  WithMusicChannel(p, channel) \in Permissions
  <2> DEFINE q == [p EXCEPT !["allowedIn"] = {channel}]
  <2>1. q \in Permissions
    BY <1>2
  <2>2. WithMusicChannel(p, channel) = [q EXCEPT !["deniedIn"] = {}]
    BY DEF WithMusicChannel, Edited
  <2> HIDE DEF q
  <2> QED BY <1>2, <2>1, <2>2
<1> QED BY <1>4, <1>5

\* An entry that is changed or made.
LEMMA EntryChanges ==
    ASSUME NEW a \in AccessEntry
    PROVE  /\ \A s \in SUBSET Members : [a EXCEPT !.authorized = s] \in AccessEntry
           /\ \A p \in Permissions : [a EXCEPT !.music = {p}] \in AccessEntry
BY DEF AccessEntry

LEMMA AccessShapeStep == AccessShape /\ [AccessNext]_accessVars => AccessShape'
<1> SUFFICES ASSUME AccessShape, [AccessNext]_accessVars
             PROVE  AccessShape'
  OBVIOUS
<1>1. /\ Present \in AccessEntry /\ (access # <<>> => access[1] = Present)
      /\ Music(Present) \in Permissions
      /\ \A music \in CommandSettings : music \subseteq Permissions /\ \A p, q \in music : p = q
  BY EntriesAre
<1>2. ASSUME access' \in {<<a>> : a \in AccessEntry} \/ UNCHANGED access, saving' \subseteq Members,
             revoked' \subseteq revoked \union Members,
             UNCHANGED <<authorizedRows, permissionRows, commandRows, storing>>
      PROVE  AccessShape'
  BY <1>2 DEF AccessShape
<1>3. Present.authorized \subseteq Members /\ saving \subseteq Members
  BY <1>1 DEF AccessEntry, AccessShape
<1>4. ASSUME NEW user \in Members, Authorize(user)
      PROVE  AccessShape'
  <2>1. Present.authorized \union {user} \in SUBSET Members
    BY <1>3
  <2>2. [Present EXCEPT !.authorized = Present.authorized \union {user}] \in AccessEntry
    BY <1>1, <2>1, EntryChanges
  <2> QED BY <1>4, <2>1, <2>2, <1>2 DEF Authorize
<1>5. ASSUME NEW user \in Members, Deauthorize(user)
      PROVE  AccessShape'
  <2>1. Present.authorized \ {user} \in SUBSET Members
    BY <1>3
  <2>2. [Present EXCEPT !.authorized = Present.authorized \ {user}] \in AccessEntry
    BY <1>1, <2>1, EntryChanges
  <2> QED BY <1>3, <1>5, <2>1, <2>2, <1>2 DEF Deauthorize
<1>6. ASSUME NEW user \in Members, DenyMusicUser(user)
      PROVE  AccessShape'
  <2>1. WithDeniedUser(Music(Present), user) \in Permissions
    BY <1>1, EditsAre
  <2>2. [Present EXCEPT !.music = {WithDeniedUser(Music(Present), user)}] \in AccessEntry
    BY <1>1, <2>1, EntryChanges
  <2> QED BY <1>3, <1>6, <2>2, <1>2 DEF DenyMusicUser
<1>7. ASSUME NEW channel \in Channels, SetMusicChannel(channel)
      PROVE  AccessShape'
  <2>1. WithMusicChannel(Music(Present), channel) \in Permissions
    BY <1>1, EditsAre
  <2>2. [Present EXCEPT !.music = {WithMusicChannel(Music(Present), channel)}] \in AccessEntry
    BY <1>1, <2>1, EntryChanges
  <2>3. FreshAccess \in AccessEntry
    BY DEF FreshAccess, AccessEntry
  <2>4. access' \in {<<a>> : a \in AccessEntry}
    BY <1>1, <1>7, <2>2, <2>3 DEF SetMusicChannel
  <2> QED BY <1>3, <1>7, <2>4, <1>2 DEF SetMusicChannel
<1>8. CASE WriteAuthorized
  BY <1>8 DEF WriteAuthorized, AccessShape
<1>9. CASE WriteAuthorizedFails
  BY <1>9 DEF WriteAuthorizedFails, AccessShape, Idle
<1>10. CASE ReloadAccess
  <2>1. PICK music \in CommandSettings : access' = <<[authorized |-> {}, music |-> music]>>
    BY <1>10 DEF ReloadAccess
  <2>2. [authorized |-> {}, music |-> music] \in AccessEntry
    BY <1>1, <2>1 DEF AccessEntry
  <2> QED BY <1>3, <1>10, <2>1, <2>2, <1>2 DEF ReloadAccess
<1>11. ASSUME NEW channel \in Channels, InsertPermissions(channel)
       PROVE  AccessShape'
  <2> DEFINE p == Music(Present)
  <2>1. p \in Permissions /\ permissionRows \in Seq(Permissions)
    BY <1>1 DEF AccessShape
  <2>2. permissionRows' = Append(permissionRows, p) /\ storing' = <<channel, Len(permissionRows) + 1>>
    BY <1>11 DEF InsertPermissions
  <2> HIDE DEF p
  <2>3. /\ permissionRows' \in Seq(Permissions) /\ Len(permissionRows') = Len(permissionRows) + 1
        /\ Len(permissionRows) \in Nat
    BY <2>1, <2>2
  <2>4. storing' \in Channels \X (1..Len(permissionRows'))
    BY <2>2, <2>3
  <2>5. \A c \in DOMAIN commandRows : commandRows[c] \in 1..Len(permissionRows')
    BY <2>3 DEF AccessShape
  <2> QED BY <1>11, <2>3, <2>4, <2>5 DEF InsertPermissions, AccessShape
<1>12. ASSUME NEW channel \in Channels, NEW id \in DOMAIN permissionRows, KeepPermissions(channel, id)
       PROVE  AccessShape'
  BY <1>12 DEF KeepPermissions, AccessShape
<1>13. CASE InsertCommandChannel
  <2>1. storing[2] \in 1..Len(permissionRows)
    BY <1>13 DEF InsertCommandChannel, AccessShape
  <2>2. /\ DOMAIN commandRows' \subseteq Channels
        /\ \A c \in DOMAIN commandRows' : commandRows'[c] \in 1..Len(permissionRows)
    BY <1>13, <2>1 DEF InsertCommandChannel, AccessShape, Put
  <2> QED BY <1>13, <2>2 DEF InsertCommandChannel, AccessShape
<1>14. CASE InsertCommandChannelFails
  BY <1>14 DEF InsertCommandChannelFails, AccessShape
<1>15. CASE UNCHANGED accessVars
  BY <1>15 DEF accessVars, AccessShape
<1> QED BY <1>4, <1>5, <1>6, <1>7, <1>8, <1>9, <1>10, <1>11, <1>12, <1>13, <1>14, <1>15 DEF AccessNext

LEMMA AccessShapeInit == AccessInit => AccessShape
BY DEF AccessInit, AccessShape, Idle

\* Memory and tables are well formed, and every channel's permissions exist, although they
\* are written by two statements: for any number of users, channels and rows.
THEOREM AccessTyped == AccessSpec => []AccessTypeOK
<1>1. AccessShape => AccessTypeOK
  <2> SUFFICES ASSUME AccessShape
               PROVE  AccessTypeOK
    OBVIOUS
  <2>1. Len(access) <= 1 /\ \A i \in DOMAIN access : access[i] \in AccessEntry
    <3>1. CASE access = <<>>
      BY <3>1
    <3>2. CASE access # <<>>
      <4>1. PICK a \in AccessEntry : access = <<a>>
        BY <3>2 DEF AccessShape
      <4>2. Len(access) = 1 /\ \A i \in DOMAIN access : access[i] = a
        BY <4>1
      <4> QED BY <4>2
    <3> QED BY <3>1, <3>2
  <2>2. DOMAIN permissionRows = 1..Len(permissionRows)
    BY DEF AccessShape
  <2> QED BY <2>1, <2>2 DEF AccessShape, AccessTypeOK
<1> QED BY <1>1, AccessShapeInit, AccessShapeStep, PTL DEF AccessSpec

-----------------------------------------------------------------------------
(* Votes *)

\* The inductive invariant: besides the property, requests that are under way have a
\* user who votes, so that the counters are defined where they are changed.
VoteInv ==
    /\ request \in [Tasks -> [user : Voters \union {None}, at : RequestPlaces]]
    /\ \A t \in Tasks : request[t].at # "none" => request[t].user \in Voters
    /\ webhookRows \in [Voters -> Nat]
    /\ answered \in [Voters -> Nat] /\ unanswered \in [Voters -> Nat]
    /\ WebhookRowsExplained

LEMMA MovedRecord ==
    ASSUME NEW U, NEW f \in [Tasks -> [user : U, at : RequestPlaces]], NEW t \in Tasks, NEW place
    PROVE  [f EXCEPT ![t].at = place] = [f EXCEPT ![t] = [user |-> f[t].user, at |-> place]]
<1>1. f[t] \in [user : U, at : RequestPlaces]
  OBVIOUS
<1>2. [f[t] EXCEPT !.at = place] = [user |-> f[t].user, at |-> place]
  BY <1>1
<1> QED BY <1>2

\* A request that is changed counts as stored before, after, both or neither.
LEMMA StoredStep ==
    ASSUME VoteInv, NEW t \in Tasks, NEW r, request' = [request EXCEPT ![t] = r], NEW u
    PROVE  Stored(u)' = (Stored(u) \ {t}) \union
                          (IF r.user = u /\ r.at = "stored" THEN {t} ELSE {})
BY DEF Stored, VoteInv

LEMMA StoredFinite ==
    ASSUME NEW u
    PROVE  IsFiniteSet(Stored(u)) /\ Cardinality(Stored(u)) \in Nat
BY TasksAssumption, FS_Subset, FS_CardinalityType DEF Stored

\* Moving to a place other than stored, from a place other than stored.
LEMMA Unstored ==
    ASSUME VoteInv, NEW t \in Tasks, request[t].at # "stored",
           NEW r \in [user : Voters \union {None}, at : RequestPlaces],
           r.at # "stored", r.at # "none" => r.user \in Voters,
           request' = [request EXCEPT ![t] = r],
           UNCHANGED <<acknowledged, answered, webhookRows, unanswered>>
    PROVE  VoteInv'
<1>1. \A u \in Voters : Stored(u)' = Stored(u)
  BY StoredStep DEF Stored
<1>2. WebhookRowsExplained'
  BY <1>1 DEF VoteInv, WebhookRowsExplained
<1>3. /\ request' \in [Tasks -> [user : Voters \union {None}, at : RequestPlaces]]
      /\ \A x \in Tasks : request'[x].at # "none" => request'[x].user \in Voters
  BY DEF VoteInv
<1> QED BY <1>2, <1>3 DEF VoteInv

\* A stored request ends: it has been answered with success, or never will be.
LEMMA StoredEnds ==
    ASSUME VoteInv, NEW t \in Tasks, NEW v \in Voters, request[t].at = "stored",
           request[t].user = v, request' = [request EXCEPT ![t] = NoRequest],
           UNCHANGED webhookRows,
           \/ /\ UNCHANGED <<acknowledged, answered>>
              /\ unanswered' = More(unanswered, v)
           \/ /\ acknowledged' = acknowledged \union {v}
              /\ answered' = More(answered, v)
              /\ UNCHANGED unanswered
    PROVE  VoteInv'
<1>1. \A u \in Voters : Stored(u)' = Stored(u) \ {t}
  BY DEF VoteInv, Stored, NoRequest
<1>2. t \in Stored(v) /\ \A u \in Voters \ {v} : t \notin Stored(u)
  BY DEF Stored
<1>3. Cardinality(Stored(v)') = Cardinality(Stored(v)) - 1
  BY <1>1, <1>2, StoredFinite, FS_RemoveElement
<1>4. \A u \in Voters \ {v} : Stored(u)' = Stored(u)
  BY <1>1, <1>2
<1>5. WebhookRowsExplained'
  <2> SUFFICES ASSUME NEW u \in Voters
               PROVE  /\ webhookRows'[u] = answered'[u] + unanswered'[u]
                                            + Cardinality(Stored(u)')
                      /\ u \in acknowledged' => answered'[u] > 0
    BY DEF WebhookRowsExplained
  <2>1. /\ webhookRows[u] = answered[u] + unanswered[u] + Cardinality(Stored(u))
        /\ u \in acknowledged => answered[u] > 0
    BY DEF VoteInv, WebhookRowsExplained
  <2>2. answered[u] \in Nat /\ unanswered[u] \in Nat /\ Cardinality(Stored(u)) \in Nat
    BY StoredFinite DEF VoteInv
  <2>3. CASE u = v
    <3>1. CASE UNCHANGED <<acknowledged, answered>> /\ unanswered' = More(unanswered, v)
      <4>1. unanswered'[u] = unanswered[u] + 1
        BY <2>3, <3>1 DEF More, VoteInv
      <4> QED BY <1>3, <2>1, <2>2, <2>3, <3>1, <4>1
    <3>2. CASE answered' = More(answered, v) /\ UNCHANGED unanswered
      <4>1. answered'[u] = answered[u] + 1
        BY <2>3, <3>2 DEF More, VoteInv
      <4> QED BY <1>3, <2>1, <2>2, <2>3, <3>2, <4>1
    <3> QED BY <3>1, <3>2
  <2>4. CASE u # v
    <3>1. /\ unanswered'[u] = unanswered[u] /\ answered'[u] = answered[u]
          /\ u \in acknowledged' <=> u \in acknowledged
      BY <2>4 DEF More, VoteInv
    <3> QED BY <1>4, <2>1, <2>4, <3>1
  <2> QED BY <2>3, <2>4
<1>6. /\ request' \in [Tasks -> [user : Voters \union {None}, at : RequestPlaces]]
      /\ \A x \in Tasks : request'[x].at # "none" => request'[x].user \in Voters
  BY DEF VoteInv, NoRequest, RequestPlaces
<1>7. answered' \in [Voters -> Nat] /\ unanswered' \in [Voters -> Nat]
  BY DEF More, VoteInv
<1> QED BY <1>5, <1>6, <1>7 DEF VoteInv

\* The second statement of a request: a row more, and a stored request more.
LEMMA WriteKeepsVoteInv ==
    ASSUME VoteInv, NEW t \in Tasks, WriteWebhook(t)
    PROVE  VoteInv'
<1>0. PICK v \in Voters : v = request[t].user
  BY DEF WriteWebhook, VoteInv
<1>1. request[t].at = "voter"
  BY DEF WriteWebhook
<1>2. request' = [request EXCEPT ![t] = [user |-> v, at |-> "stored"]]
  <2>1. request \in [Tasks -> [user : Voters \union {None}, at : RequestPlaces]]
    BY DEF VoteInv
  <2>2. request' = [request EXCEPT ![t].at = "stored"]
    BY DEF WriteWebhook, RequestMoves
  <2>3. [request EXCEPT ![t].at = "stored"] =
          [request EXCEPT ![t] = [user |-> request[t].user, at |-> "stored"]]
    BY ZenonT(40), <2>1, MovedRecord
  <2> QED BY <1>0, <2>2, <2>3
<1>3. \A u \in Voters : Stored(u)' = Stored(u) \union (IF v = u THEN {t} ELSE {})
  BY <1>0, <1>1, <1>2 DEF VoteInv, Stored
<1>4. Cardinality(Stored(v)') = Cardinality(Stored(v)) + 1
  <2>1. t \notin Stored(v)
    BY <1>1 DEF Stored
  <2> QED BY <1>3, <2>1, StoredFinite, FS_AddElement
<1>5. WebhookRowsExplained'
  <2>1. SUFFICES ASSUME NEW u \in Voters
                 PROVE  /\ webhookRows'[u] = answered'[u] + unanswered'[u]
                                              + Cardinality(Stored(u)')
                        /\ u \in acknowledged' => answered'[u] > 0
    BY DEF WebhookRowsExplained
  <2>2. /\ webhookRows[u] = answered[u] + unanswered[u] + Cardinality(Stored(u))
        /\ u \in acknowledged => answered[u] > 0
    BY DEF VoteInv, WebhookRowsExplained
  <2>3. answered[u] \in Nat /\ unanswered[u] \in Nat /\ Cardinality(Stored(u)) \in Nat
    BY StoredFinite DEF VoteInv
  <2>4. acknowledged' = acknowledged /\ answered' = answered /\ unanswered' = unanswered
    BY DEF WriteWebhook
  <2>5. webhookRows'[u] = IF u = v THEN webhookRows[u] + 1 ELSE webhookRows[u]
    BY <1>0 DEF WriteWebhook, More, VoteInv
  <2>6. Cardinality(Stored(u)') = IF u = v THEN Cardinality(Stored(u)) + 1 ELSE Cardinality(Stored(u))
    BY <1>3, <1>4
  <2> QED BY <2>2, <2>3, <2>4, <2>5, <2>6
<1>6. /\ request' \in [Tasks -> [user : Voters \union {None}, at : RequestPlaces]]
      /\ \A x \in Tasks : request'[x].at # "none" => request'[x].user \in Voters
  BY <1>2 DEF VoteInv, RequestPlaces
<1>7. webhookRows' \in [Voters -> Nat] /\ answered' = answered /\ unanswered' = unanswered
  BY <1>0 DEF WriteWebhook, More, VoteInv
<1> QED BY <1>5, <1>6, <1>7 DEF VoteInv

\* Every row of a vote is a delivery whose answer was given, lost or is still due
\* (process_webhook and write_webhook_to_db of crack-voting).
THEOREM RowsExplained == VoteSpec => []WebhookRowsExplained
<1>1. VoteInit => VoteInv
  <2> SUFFICES ASSUME VoteInit
               PROVE  VoteInv
    OBVIOUS
  <2>1. \A u \in Voters : Stored(u) = {}
    BY DEF VoteInit, NoRequest, Stored
  <2>2. WebhookRowsExplained
    <3>1. \A u \in Voters : Cardinality(Stored(u)) = 0
      BY <2>1, FS_EmptySet
    <3>2. \A u \in Voters : webhookRows[u] = 0 /\ answered[u] = 0 /\ unanswered[u] = 0
      BY DEF VoteInit, Zero
    <3>3. acknowledged = {}
      BY DEF VoteInit
    <3> QED BY <3>1, <3>2, <3>3 DEF WebhookRowsExplained
  <2>3. Zero \in [Voters -> Nat]
    BY DEF Zero
  <2>4. NoRequest \in [user : Voters \union {None}, at : RequestPlaces] /\ NoRequest.at = "none"
    BY DEF NoRequest, RequestPlaces
  <2> QED BY <2>2, <2>3, <2>4 DEF VoteInit, VoteInv
<1>2. VoteInv /\ [VoteNext]_voteVars => VoteInv'
  <2> SUFFICES ASSUME VoteInv, [VoteNext]_voteVars
               PROVE  VoteInv'
    OBVIOUS
  <2>1. ASSUME UNCHANGED <<acknowledged, answered, request, webhookRows, unanswered>>
        PROVE  VoteInv'
    BY <2>1 DEF VoteInv, WebhookRowsExplained, Stored
  <2>2. ASSUME NEW t \in Tasks, NEW u \in Voters, PostVote(t, u)
        PROVE  VoteInv'
    <3>1. [user |-> u, at |-> "posted"] \in [user : Voters \union {None}, at : RequestPlaces]
      BY DEF RequestPlaces
    <3>2. request[t].at # "stored"
      BY <2>2 DEF PostVote, NoRequest
    <3> QED BY <2>2, <3>1, <3>2, Unstored DEF PostVote
  <2>3. ASSUME NEW t \in Tasks, NEW place \in {"accepted", "voter"}, RequestMoves(t, place),
               request[t].at \in {"posted", "accepted"},
               UNCHANGED <<acknowledged, answered, webhookRows, unanswered>>
        PROVE  VoteInv'
    <3> DEFINE r == [user |-> request[t].user, at |-> place]
    <3>1. request[t].user \in Voters
      BY <2>3 DEF VoteInv
    <3>2. request' = [request EXCEPT ![t] = r]
      BY ZenonT(40), <2>3, MovedRecord DEF VoteInv, RequestMoves
    <3>3. r \in [user : Voters \union {None}, at : RequestPlaces] /\ r.at # "stored"
      BY <3>1 DEF RequestPlaces
    <3> QED BY <2>3, <3>1, <3>2, <3>3, Unstored
  <2>4. ASSUME NEW t \in Tasks, RequestEnds(t), request[t].at # "stored",
               UNCHANGED <<acknowledged, answered, webhookRows, unanswered>>
        PROVE  VoteInv'
    <3>1. /\ NoRequest \in [user : Voters \union {None}, at : RequestPlaces]
          /\ NoRequest.at = "none"
      BY DEF NoRequest, RequestPlaces
    <3> QED BY <2>4, <3>1, Unstored DEF RequestEnds
  <2>5. ASSUME NEW t \in Tasks, Acknowledge(t)
        PROVE  VoteInv'
    <3>1. request[t].at = "stored" /\ request[t].user \in Voters
      BY <2>5 DEF Acknowledge, VoteInv
    <3> QED BY <2>5, <3>1, StoredEnds DEF Acknowledge, RequestEnds
  <2>6. ASSUME NEW t \in Tasks, AnswerLost(t)
        PROVE  VoteInv'
    <3>1. CASE request[t].at = "stored"
      <4>1. request[t].user \in Voters
        BY <3>1 DEF VoteInv
      <4> QED BY <2>6, <3>1, <4>1, StoredEnds DEF AnswerLost, RequestEnds
    <3>2. CASE request[t].at # "stored"
      BY <2>4, <2>6, <3>2 DEF AnswerLost
    <3> QED BY <3>1, <3>2
  <2>7. ASSUME NEW t \in Tasks,
               \/ \E u \in Voters : AskVoted(t, u)
               \/ EndsUnrecorded(t) \/ FindsNewVote(t) \/ RecordUser(t) \/ RecordVote(t)
               \/ RecordFails(t)
        PROVE  VoteInv'
    BY <2>1, <2>7 DEF AskVoted, EndsUnrecorded, FindsNewVote, RecordUser, RecordVote, RecordFails
  <2>8. ASSUME NEW t \in Tasks, Accept(t) \/ WriteVoter(t)
        PROVE  VoteInv'
    BY <2>3, <2>8 DEF Accept, WriteVoter
  <2>9. ASSUME NEW t \in Tasks, Refuse(t) \/ WriteFails(t)
        PROVE  VoteInv'
    BY <2>4, <2>9 DEF Refuse, WriteFails
  <2>10. CASE UNCHANGED voteVars
    BY <2>1, <2>10 DEF voteVars
  <2> QED BY <2>2, <2>5, <2>6, <2>7, <2>8, <2>9, <2>10, WriteKeepsVoteInv DEF VoteNext
<1>3. VoteInv => WebhookRowsExplained
  BY DEF VoteInv
<1> QED BY <1>1, <1>2, <1>3, PTL DEF VoteSpec

NamesOK(names) ==
    DOMAIN names \subseteq Voters /\ \A u \in DOMAIN names : names[u] \in {"NULL", "name"}

\* Whoever is dealt with is a voter, and has a row once a statement has made one.
VoteShape ==
    /\ posts \in [Voters -> 0..MaxPosts] /\ acknowledged \subseteq Voters
    /\ request \in [Tasks -> [user : Voters \union {None}, at : RequestPlaces]]
    /\ voteCommand \in [Tasks -> [user : Voters \union {None}, at : CommandPlaces]]
    /\ \A t \in Tasks : request[t].at # "none" => request[t].user \in Voters
    /\ \A t \in Tasks : voteCommand[t].at # "none" => voteCommand[t].user \in Voters
    /\ \A t \in Tasks : request[t].at \in {"voter", "stored"} => request[t].user \in DOMAIN userRows
    /\ \A t \in Tasks : voteCommand[t].at = "known" => voteCommand[t].user \in DOMAIN userRows
    /\ NamesOK(userRows)
    /\ answered \in [Voters -> Nat] /\ unanswered \in [Voters -> Nat]
    /\ webhookRows \in [Voters -> Nat] /\ userVotes \in [Voters -> Nat]
    /\ \A u \in Voters : webhookRows[u] + userVotes[u] > 0 => u \in DOMAIN userRows

\* A row that is written has a name or none.
LEMMA NameWritten ==
    ASSUME NEW names, NamesOK(names), NEW u \in Voters, NEW name \in {"NULL", "name"}
    PROVE  NamesOK(Put(names, u, name)) /\ NamesOK(SeenUser(names, u, name))
BY DEF NamesOK, Put, SeenUser

LEMMA MoreIs ==
    ASSUME NEW n \in [Voters -> Nat], NEW u \in Voters
    PROVE  /\ More(n, u) \in [Voters -> Nat]
           /\ \A v \in Voters : More(n, u)[v] = IF v = u THEN n[v] + 1 ELSE n[v]
BY DEF More

\* Requests that go on, or end.
LEMMA RequestsMove ==
    ASSUME VoteShape, NEW t \in Tasks, NEW place \in RequestPlaces \ {"none"}, request[t].at # "none",
           RequestMoves(t, place), DOMAIN userRows \subseteq DOMAIN userRows',
           place \in {"voter", "stored"} => request[t].user \in DOMAIN userRows'
    PROVE  /\ request' \in [Tasks -> [user : Voters \union {None}, at : RequestPlaces]]
           /\ \A s \in Tasks : request'[s].at # "none" => request'[s].user \in Voters
           /\ \A s \in Tasks : request'[s].at \in {"voter", "stored"} =>
                request'[s].user \in DOMAIN userRows'
<1>1. /\ request' \in [Tasks -> [user : Voters \union {None}, at : RequestPlaces]]
      /\ \A s \in Tasks \ {t} : request'[s] = request[s]
      /\ request'[t].at = place /\ request'[t].user = request[t].user
  BY DEF RequestMoves, VoteShape
<1> QED BY <1>1 DEF VoteShape

LEMMA RequestsEnd ==
    ASSUME VoteShape, NEW t \in Tasks, RequestEnds(t), UNCHANGED userRows
    PROVE  /\ request' \in [Tasks -> [user : Voters \union {None}, at : RequestPlaces]]
           /\ \A s \in Tasks : request'[s].at # "none" => request'[s].user \in Voters
           /\ \A s \in Tasks : request'[s].at \in {"voter", "stored"} =>
                request'[s].user \in DOMAIN userRows'
<1>1. /\ request' \in [Tasks -> [user : Voters \union {None}, at : RequestPlaces]]
      /\ \A s \in Tasks \ {t} : request'[s] = request[s]
      /\ request'[t].at = "none"
  BY DEF RequestEnds, NoRequest, VoteShape, RequestPlaces
<1> QED BY <1>1 DEF VoteShape

LEMMA CommandsMove ==
    ASSUME VoteShape, NEW t \in Tasks, NEW place \in CommandPlaces \ {"none"}, voteCommand[t].at # "none",
           CommandMoves(t, place), DOMAIN userRows \subseteq DOMAIN userRows',
           place = "known" => voteCommand[t].user \in DOMAIN userRows'
    PROVE  /\ voteCommand' \in [Tasks -> [user : Voters \union {None}, at : CommandPlaces]]
           /\ \A s \in Tasks : voteCommand'[s].at # "none" => voteCommand'[s].user \in Voters
           /\ \A s \in Tasks : voteCommand'[s].at = "known" => voteCommand'[s].user \in DOMAIN userRows'
<1>1. /\ voteCommand' \in [Tasks -> [user : Voters \union {None}, at : CommandPlaces]]
      /\ \A s \in Tasks \ {t} : voteCommand'[s] = voteCommand[s]
      /\ voteCommand'[t].at = place /\ voteCommand'[t].user = voteCommand[t].user
  BY DEF CommandMoves, VoteShape
<1> QED BY <1>1 DEF VoteShape

LEMMA CommandsEnd ==
    ASSUME VoteShape, NEW t \in Tasks, CommandEnds(t), UNCHANGED userRows
    PROVE  /\ voteCommand' \in [Tasks -> [user : Voters \union {None}, at : CommandPlaces]]
           /\ \A s \in Tasks : voteCommand'[s].at # "none" => voteCommand'[s].user \in Voters
           /\ \A s \in Tasks : voteCommand'[s].at = "known" => voteCommand'[s].user \in DOMAIN userRows'
<1>1. /\ voteCommand' \in [Tasks -> [user : Voters \union {None}, at : CommandPlaces]]
      /\ \A s \in Tasks \ {t} : voteCommand'[s] = voteCommand[s]
      /\ voteCommand'[t].at = "none"
  BY DEF CommandEnds, NoRequest, VoteShape, CommandPlaces
<1> QED BY <1>1 DEF VoteShape

\* The steps of the web service.
LEMMA ServiceShape ==
    ASSUME VoteShape, NEW t \in Tasks,
           \/ \E u \in Voters : PostVote(t, u)
           \/ Accept(t) \/ Refuse(t) \/ WriteVoter(t) \/ WriteWebhook(t) \/ WriteFails(t)
           \/ Acknowledge(t) \/ AnswerLost(t)
    PROVE  VoteShape'
<1>1. ASSUME NEW u \in Voters, PostVote(t, u)
      PROVE  VoteShape'
  <2>1. posts' \in [Voters -> 0..MaxPosts]
    <3>1. posts[u] + 1 \in 0..MaxPosts
      BY <1>1, PostsAssumption DEF PostVote, VoteShape
    <3> QED BY <1>1, <3>1 DEF PostVote, More, VoteShape
  <2>2. /\ request' \in [Tasks -> [user : Voters \union {None}, at : RequestPlaces]]
        /\ \A s \in Tasks \ {t} : request'[s] = request[s]
        /\ request'[t].user = u /\ request'[t].at = "posted"
    BY <1>1 DEF PostVote, VoteShape, RequestPlaces
  <2> QED BY <1>1, <2>1, <2>2 DEF PostVote, VoteShape
<1>2. CASE Accept(t)
  <2>1. RequestMoves(t, "accepted") /\ request[t].at # "none" /\ UNCHANGED userRows
    BY <1>2 DEF Accept
  <2>2. "accepted" \in RequestPlaces \ {"none"}
    BY DEF RequestPlaces
  <2> QED BY <1>2, <2>1, <2>2, RequestsMove DEF Accept, VoteShape
<1>3. CASE Refuse(t)
  BY <1>3, RequestsEnd DEF Refuse, VoteShape
<1>4. CASE WriteVoter(t)
  <2>1. RequestMoves(t, "voter") /\ request[t].at # "none"
    BY <1>4 DEF WriteVoter
  <2>2. "voter" \in RequestPlaces \ {"none"}
    BY DEF RequestPlaces
  <2>3. DOMAIN userRows' = DOMAIN userRows \union {request[t].user}
    BY <1>4, PutDomain DEF WriteVoter, SeenUser
  <2>4. /\ request' \in [Tasks -> [user : Voters \union {None}, at : RequestPlaces]]
        /\ \A s \in Tasks : request'[s].at # "none" => request'[s].user \in Voters
        /\ \A s \in Tasks : request'[s].at \in {"voter", "stored"} =>
             request'[s].user \in DOMAIN userRows'
    BY <2>1, <2>2, <2>3, RequestsMove
  <2>5. request[t].user \in Voters
    BY <2>1 DEF VoteShape
  <2>6. NamesOK(userRows')
    BY <1>4, <2>5, NameWritten DEF WriteVoter, VoteShape
  <2> QED BY <1>4, <2>3, <2>4, <2>6 DEF WriteVoter, VoteShape
<1>5. CASE WriteWebhook(t)
  <2>1. RequestMoves(t, "stored") /\ request[t].at = "voter" /\ UNCHANGED userRows
    BY <1>5 DEF WriteWebhook
  <2>2. "stored" \in RequestPlaces \ {"none"}
    BY DEF RequestPlaces
  <2>3. request[t].user \in DOMAIN userRows /\ request[t].user \in Voters
    BY <2>1 DEF VoteShape
  <2>4. /\ request' \in [Tasks -> [user : Voters \union {None}, at : RequestPlaces]]
        /\ \A s \in Tasks : request'[s].at # "none" => request'[s].user \in Voters
        /\ \A s \in Tasks : request'[s].at \in {"voter", "stored"} =>
             request'[s].user \in DOMAIN userRows'
    BY <2>1, <2>2, <2>3, RequestsMove
  <2>5. /\ webhookRows' \in [Voters -> Nat]
        /\ \A v \in Voters : webhookRows'[v] =
             IF v = request[t].user THEN webhookRows[v] + 1 ELSE webhookRows[v]
    <3> DEFINE u == request[t].user
    <3>1. u \in Voters /\ webhookRows \in [Voters -> Nat] /\ webhookRows' = More(webhookRows, u)
      BY <1>5, <2>3 DEF WriteWebhook, VoteShape
    <3> HIDE DEF u
    <3>2. /\ webhookRows' \in [Voters -> Nat]
          /\ \A v \in Voters : webhookRows'[v] = IF v = u THEN webhookRows[v] + 1
                                                 ELSE webhookRows[v]
      BY <3>1, MoreIs
    <3> QED BY <3>2 DEF u
  <2>6. \A v \in Voters : webhookRows'[v] + userVotes'[v] > 0 => v \in DOMAIN userRows'
    BY <1>5, <2>3, <2>5 DEF WriteWebhook, VoteShape
  <2> QED BY <1>5, <2>4, <2>5, <2>6 DEF WriteWebhook, VoteShape
<1>6. CASE WriteFails(t)
  BY <1>6, RequestsEnd DEF WriteFails, VoteShape
<1>7. CASE Acknowledge(t)
  <2>1. request[t].user \in Voters
    BY <1>7 DEF Acknowledge, VoteShape
  <2>2. answered' \in [Voters -> Nat]
    BY <1>7, <2>1, MoreIs DEF Acknowledge, VoteShape
  <2> QED BY <1>7, <2>1, <2>2, RequestsEnd DEF Acknowledge, VoteShape
<1>8. CASE AnswerLost(t)
  <2>1. request[t].user \in Voters
    BY <1>8 DEF AnswerLost, VoteShape
  <2>2. unanswered' \in [Voters -> Nat]
    BY <1>8, <2>1, MoreIs DEF AnswerLost, VoteShape
  <2> QED BY <1>8, <2>1, <2>2, RequestsEnd DEF AnswerLost, VoteShape
<1> QED BY <1>1, <1>2, <1>3, <1>4, <1>5, <1>6, <1>7, <1>8

\* The steps of the vote command.
LEMMA CommandShape ==
    ASSUME VoteShape, NEW t \in Tasks,
           \/ \E u \in Voters : AskVoted(t, u)
           \/ EndsUnrecorded(t) \/ FindsNewVote(t) \/ RecordUser(t) \/ RecordVote(t)
           \/ RecordFails(t)
    PROVE  VoteShape'
<1>1. ASSUME NEW u \in Voters, AskVoted(t, u)
      PROVE  VoteShape'
  <2>1. /\ voteCommand' \in [Tasks -> [user : Voters \union {None}, at : CommandPlaces]]
        /\ \A s \in Tasks \ {t} : voteCommand'[s] = voteCommand[s]
        /\ voteCommand'[t].user = u /\ voteCommand'[t].at = "asked"
    BY <1>1 DEF AskVoted, VoteShape, CommandPlaces
  <2> QED BY <1>1, <2>1 DEF AskVoted, VoteShape
<1>2. CASE EndsUnrecorded(t)
  BY <1>2, CommandsEnd DEF EndsUnrecorded, VoteShape
<1>3. CASE FindsNewVote(t)
  <2>1. CommandMoves(t, "new") /\ voteCommand[t].at # "none" /\ UNCHANGED userRows
    BY <1>3 DEF FindsNewVote
  <2>2. "new" \in CommandPlaces \ {"none"}
    BY DEF CommandPlaces
  <2> QED BY <1>3, <2>1, <2>2, CommandsMove DEF FindsNewVote, VoteShape
<1>4. CASE RecordUser(t)
  <2>1. CommandMoves(t, "known") /\ voteCommand[t].at # "none"
    BY <1>4 DEF RecordUser
  <2>2. "known" \in CommandPlaces \ {"none"}
    BY DEF CommandPlaces
  <2>3. DOMAIN userRows' = DOMAIN userRows \union {voteCommand[t].user}
    BY <1>4, PutDomain DEF RecordUser
  <2>4. /\ voteCommand' \in [Tasks -> [user : Voters \union {None}, at : CommandPlaces]]
        /\ \A s \in Tasks : voteCommand'[s].at # "none" => voteCommand'[s].user \in Voters
        /\ \A s \in Tasks : voteCommand'[s].at = "known" => voteCommand'[s].user \in DOMAIN userRows'
    BY <2>1, <2>2, <2>3, CommandsMove
  <2>5. voteCommand[t].user \in Voters
    BY <2>1 DEF VoteShape
  <2>6. NamesOK(userRows')
    BY <1>4, <2>5, NameWritten DEF RecordUser, VoteShape
  <2> QED BY <1>4, <2>3, <2>4, <2>6 DEF RecordUser, VoteShape
<1>5. CASE RecordVote(t)
  <2>1. voteCommand[t].user \in Voters /\ voteCommand[t].user \in DOMAIN userRows
    BY <1>5 DEF RecordVote, VoteShape
  <2>2. /\ userVotes' \in [Voters -> Nat]
        /\ \A v \in Voters : userVotes'[v] =
             IF v = voteCommand[t].user THEN userVotes[v] + 1 ELSE userVotes[v]
    BY <1>5, <2>1, MoreIs DEF RecordVote, VoteShape
  <2>3. \A v \in Voters : webhookRows'[v] + userVotes'[v] > 0 => v \in DOMAIN userRows'
    BY <1>5, <2>1, <2>2 DEF RecordVote, VoteShape
  <2>4. CommandEnds(t) /\ UNCHANGED userRows
    BY <1>5 DEF RecordVote
  <2> QED BY <1>5, <2>2, <2>3, <2>4, CommandsEnd DEF RecordVote, VoteShape
<1>6. CASE RecordFails(t)
  BY <1>6, CommandsEnd DEF RecordFails, VoteShape
<1> QED BY <1>1, <1>2, <1>3, <1>4, <1>5, <1>6

LEMMA VoteShapeStep == VoteShape /\ [VoteNext]_voteVars => VoteShape'
<1>1. VoteShape /\ UNCHANGED voteVars => VoteShape'
  BY DEF voteVars, VoteShape
<1> QED BY <1>1, ServiceShape, CommandShape DEF VoteNext

LEMMA VoteShapeInit == VoteInit => VoteShape
<1> SUFFICES ASSUME VoteInit
             PROVE  VoteShape
  OBVIOUS
<1>1. posts \in [Voters -> 0..MaxPosts]
  BY PostsAssumption DEF VoteInit, Zero
<1>2. /\ webhookRows = Zero /\ userVotes = Zero /\ answered = Zero /\ unanswered = Zero
      /\ Zero \in [Voters -> Nat] /\ \A u \in Voters : Zero[u] = 0
  BY DEF VoteInit, Zero
<1>3. /\ request = [t \in Tasks |-> NoRequest] /\ voteCommand = [t \in Tasks |-> NoRequest]
      /\ acknowledged = {} /\ NamesOK(userRows)
  BY DEF VoteInit, NamesOK
<1> QED BY <1>1, <1>2, <1>3 DEF VoteShape, NoRequest, RequestPlaces, CommandPlaces

\* Requests, commands, tables and counters are well formed, and every row of a vote names a
\* user who has a row, although the rows are written by two statements of two programs.
THEOREM VotesTyped == VoteSpec => []VoteTypeOK
<1>1. VoteShape => VoteTypeOK
  BY DEF VoteShape, VoteTypeOK, NamesOK
<1> QED BY <1>1, VoteShapeInit, VoteShapeStep, PTL DEF VoteSpec

-----------------------------------------------------------------------------
(* The event log *)

\* What a task knows of ignored channels is still in the settings, and it has not chosen
\* one of them.
TaskQuiet(task, map) ==
    /\ DOMAIN task = {"guild", "route", "steps", "bot", "channel", "barred"}
    /\ task.steps # <<>> => task.guild \in Guilds
    /\ task.barred \subseteq Ignored(map, task.guild)
    /\ task.channel \notin task.barred

\* The inductive invariant.  Settings, in memory or in the database, ignore channels only.
QuietInv ==
    /\ \A g \in DOMAIN channels : channels[g].ignored \subseteq Channels
    /\ \A g \in Guilds : logRows[g].ignored \subseteq Channels
    /\ DOMAIN handling = Tasks
    /\ \A t \in Tasks : TaskQuiet(handling[t], channels)

\* A task without an event has chosen nothing.
LEMMA AtRestQuiet ==
    ASSUME NEW map
    PROVE  TaskQuiet(AtRest, map)
BY DEF TaskQuiet, AtRest

\* Going on to the next step keeps what the task knows.
LEMMA AfterQuiet ==
    ASSUME NEW map, NEW task, TaskQuiet(task, map), task.steps # <<>>
    PROVE  TaskQuiet(After(task), map)
<1>1. TaskQuiet([task EXCEPT !.steps = Tail(@)], map)
  BY DEF TaskQuiet
<1> QED BY <1>1, AtRestQuiet DEF After

\* Only the task t changes.
LEMMA OneTaskMoves ==
    ASSUME QuietInv, NEW t \in Tasks, NEW next, TaskQuiet(next, channels),
           handling' = [handling EXCEPT ![t] = next], UNCHANGED <<channels, logRows>>
    PROVE  QuietInv'
<1>1. \A u \in Tasks : handling'[u] = IF u = t THEN next ELSE handling[u]
  BY DEF QuietInv
<1>2. \A u \in Tasks : TaskQuiet(handling'[u], channels)
  BY <1>1 DEF QuietInv
<1> QED BY <1>2 DEF QuietInv

\* A step that goes on, or ends the handler, and leaves the settings alone.
LEMMA ProceedQuiet ==
    ASSUME QuietInv, NEW t \in Tasks, Steps(t) # <<>>, Proceed(t) \/ End(t),
           UNCHANGED <<channels, logRows>>
    PROVE  QuietInv'
<1>1. TaskQuiet(After(handling[t]), channels)
  BY AfterQuiet DEF QuietInv, Steps
<1> QED BY <1>1, AtRestQuiet, OneTaskMoves DEF Proceed, End

\* An event finds the settings of the moment at which it arrives.
LEMMA HandleQuiet ==
    ASSUME QuietInv, NEW t \in Tasks, NEW g \in Guilds, NEW kind, NEW bot,
           Handle(t, g, kind, bot), UNCHANGED <<channels, logRows>>
    PROVE  QuietInv'
<1> DEFINE task == [guild |-> g, route |-> Route(kind), steps |-> Arms[kind], bot |-> bot,
                    channel |-> None, barred |-> Ignored(channels, g)]
<1>1. Ignored(channels, g) \subseteq Channels
  BY DEF QuietInv, Ignored
<1>2. None \notin Ignored(channels, g)
  BY <1>1, NoneAssumption
<1>3. TaskQuiet(task, channels)
  BY <1>2 DEF TaskQuiet
<1>4. handling' = [handling EXCEPT ![t] = IF Arms[kind] = <<>> THEN AtRest ELSE task]
  BY DEF Handle
<1>5. TaskQuiet(IF Arms[kind] = <<>> THEN AtRest ELSE task, channels)
  BY <1>3, AtRestQuiet
<1> QED BY <1>4, <1>5, OneTaskMoves

\* A channel that is not ignored may be chosen.
LEMMA ChosenQuiet ==
    ASSUME NEW map, NEW task, TaskQuiet(task, map), NEW channel,
           channel \notin Ignored(map, task.guild)
    PROVE  /\ TaskQuiet([task EXCEPT !.channel = channel], map)
           /\ [task EXCEPT !.channel = channel].steps = task.steps
BY DEF TaskQuiet

\* get_channel_id does not return a channel that is ignored now.
LEMMA GetChannelIdHeeds ==
    ASSUME NEW g, NEW route, GetChannelId(g, route) # None
    PROVE  GetChannelId(g, route) \notin Ignored(channels, g)
BY DEF GetChannelId, Ignored

\* The settings are read and the channel is chosen in one step.
LEMMA ChooseChannelQuiet ==
    ASSUME QuietInv, NEW t \in Tasks, ChooseChannel(t)
    PROVE  QuietInv'
<1> DEFINE channel == GetChannelId(handling[t].guild, handling[t].route)
           chosen == [handling[t] EXCEPT !.channel = channel]
<1>1. Steps(t) # <<>> /\ UNCHANGED <<channels, logRows>>
  BY DEF ChooseChannel, At
<1>2. CASE channel = None
  BY <1>1, <1>2, ProceedQuiet DEF ChooseChannel
<1>3. CASE channel # None
  <2>1. TaskQuiet(handling[t], channels)
    BY DEF QuietInv
  <2>2. channel \notin Ignored(channels, handling[t].guild)
    BY <1>3, GetChannelIdHeeds
  <2>3. TaskQuiet(chosen, channels) /\ chosen.steps # <<>>
    BY <1>1, <2>1, <2>2, ChosenQuiet DEF Steps
  <2>4. TaskQuiet(After(chosen), channels)
    BY <2>3, AfterQuiet
  <2>5. handling' = [handling EXCEPT ![t] = After(chosen)]
    BY <1>3 DEF ChooseChannel
  <2> QED BY <1>1, <2>4, <2>5, OneTaskMoves
<1> QED BY <1>2, <1>3

\* New settings of a guild take out of barred what they no longer ignore.
LEMMA SettledQuiet ==
    ASSUME NEW map, NEW task, TaskQuiet(task, map), NEW g, NEW setting
    PROVE  TaskQuiet(IF task.guild = g
                       THEN [task EXCEPT !.barred = @ \intersect setting.ignored] ELSE task,
                     Put(map, g, setting))
<1>1. CASE task.guild = g
  BY <1>1 DEF TaskQuiet, Ignored, Put
<1>2. CASE task.guild # g
  BY <1>2 DEF TaskQuiet, Ignored, Put
<1> QED BY <1>1, <1>2

\* New settings of a guild: its tasks forget channels that are no longer ignored.
LEMMA SettleQuiet ==
    ASSUME QuietInv, NEW g, NEW setting, setting.ignored \subseteq Channels,
           NEW tasks, DOMAIN tasks = Tasks, \A t \in Tasks : TaskQuiet(tasks[t], channels),
           Settle(g, setting, tasks), UNCHANGED logRows
    PROVE  QuietInv'
<1>1. DOMAIN handling' = Tasks
  BY DEF Settle
<1>2. \A t \in Tasks : handling'[t] = IF tasks[t].guild = g
                                      THEN [tasks[t] EXCEPT !.barred = @ \intersect setting.ignored]
                                      ELSE tasks[t]
  BY DEF Settle
<1>3. \A t \in Tasks : TaskQuiet(handling'[t], channels')
  BY <1>2, SettledQuiet DEF Settle
<1>4. \A h \in DOMAIN channels' : channels'[h].ignored \subseteq Channels
  BY DEF Settle, Put, QuietInv
<1> QED BY <1>1, <1>3, <1>4 DEF QuietInv

\* The guild is read from its row, in the middle of its own handler.
LEMMA ReloadGuildQuiet ==
    ASSUME QuietInv, NEW t \in Tasks, ReloadGuild(t)
    PROVE  QuietInv'
<1> DEFINE tasks == [handling EXCEPT ![t] = After(@)]
           g == handling[t].guild
<1>1. Steps(t) # <<>>
  BY DEF ReloadGuild, At
<1>2. TaskQuiet(After(handling[t]), channels) /\ handling[t].guild \in Guilds
  BY <1>1, AfterQuiet DEF QuietInv, Steps, TaskQuiet
<1>3. DOMAIN tasks = Tasks /\ \A u \in Tasks : TaskQuiet(tasks[u], channels)
  BY <1>2 DEF QuietInv
<1>4. logRows[g].ignored \subseteq Channels
  BY <1>2 DEF QuietInv
<1>5. Settle(g, logRows[g], tasks) /\ UNCHANGED logRows
  BY DEF ReloadGuild
<1> HIDE DEF tasks, g
<1> QED BY <1>3, <1>4, <1>5, SettleQuiet

\* A command replaces the settings while handlers run.
LEMMA SettingsChangeQuiet ==
    ASSUME QuietInv, NEW g \in Guilds, SettingsChange(g)
    PROVE  QuietInv'
<1>1. PICK setting \in {logRows[g], FreshSetting} : Settle(g, setting, handling)
  BY DEF SettingsChange
<1>2. setting.ignored \subseteq Channels
  BY <1>1 DEF QuietInv, FreshSetting
<1>3. UNCHANGED logRows
  BY DEF SettingsChange
<1> QED BY <1>1, <1>2, <1>3, SettleQuiet DEF QuietInv

\* All other steps of a handler leave settings and channel alone.
LEMMA HandlerStepQuiet ==
    ASSUME QuietInv, NEW t \in Tasks, HandlerStep(t)
    PROVE  QuietInv'
<1>1. ASSUME WriteLog(t) \/ LookUp(t) \/ PassAuthor(t) \/ StepFails(t) \/ SendLog(t) \/ Tell(t)
      PROVE  Steps(t) # <<>> /\ (Proceed(t) \/ End(t)) /\ UNCHANGED <<channels, logRows>>
  BY <1>1 DEF WriteLog, LookUp, PassAuthor, StepFails, SendLog, Tell, Post, At
<1> QED BY <1>1, ProceedQuiet, ChooseChannelQuiet, ReloadGuildQuiet DEF HandlerStep

\* Every step keeps it.
LEMMA QuietInvNext == QuietInv /\ [EventNext]_eventVars => QuietInv'
<1> SUFFICES ASSUME QuietInv, [EventNext]_eventVars
             PROVE  QuietInv'
  OBVIOUS
<1>1. ASSUME NEW t \in Tasks, NEW g \in Guilds, Arrive(t, g) \/ Echo(t, g)
      PROVE  QuietInv'
  BY <1>1, HandleQuiet DEF Arrive, Echo
<1>2. ASSUME UNCHANGED eventVars
      PROVE  QuietInv'
  BY <1>2 DEF QuietInv, eventVars
<1> QED BY <1>1, <1>2, HandlerStepQuiet, SettingsChangeQuiet DEF EventNext

\* It holds at the start.
LEMMA QuietInvInit == EventInit => QuietInv
BY AtRestQuiet DEF EventInit, QuietInv, Setting

\* A channel that has been in ignored_channels since an event arrived gets no announcement
\* of it, although commands and guild_create replace the settings while handlers run:
\* get_channel_id reads them when it chooses.
THEOREM IgnoredQuiet == EventSpec => []IgnoredStaysQuiet
<1>1. QuietInv => IgnoredStaysQuiet
  BY DEF QuietInv, TaskQuiet, IgnoredStaysQuiet
<1> QED BY <1>1, QuietInvInit, QuietInvNext, PTL DEF EventSpec

\* What the steps of a handler are called.
Texts == Seq(StepNames)

\* A message is sent only after its channel was chosen.
Planned(steps) == \A i \in 1..Len(steps) :
    steps[i] = "send" => \E j \in 1..i - 1 : steps[j] = "route"

Plans == {steps \in Texts : Planned(steps)}

LEMMA MergedIs ==
    ASSUME NEW tables
    PROVE  /\ \A f \in tables : DOMAIN f \subseteq DOMAIN Merged(tables)
           /\ \A k \in DOMAIN Merged(tables) :
                \E f \in tables : k \in DOMAIN f /\ Merged(tables)[k] = f[k]
BY DEF Merged

LEMMA MergedLists ==
    ASSUME NEW S, NEW tables, \A f \in tables : \A k \in DOMAIN f : f[k] \in S
    PROVE  \A k \in DOMAIN Merged(tables) : Merged(tables)[k] \in S
BY MergedIs

LEMMA BehindIs ==
    ASSUME NEW S, NEW a \in Seq(S), NEW b \in Seq(S)
    PROVE  /\ a \o b \in Seq(S) /\ Len(a \o b) = Len(a) + Len(b)
           /\ \A i \in 1..Len(a) + Len(b) :
                (a \o b)[i] = IF i <= Len(a) THEN a[i] ELSE b[i - Len(a)]
OBVIOUS

LEMMA LoggedPlan ==
    ASSUME NEW steps \in Texts
    PROVE  Logged(steps) \in Plans
<1> DEFINE head == <<"write", "route">>
<1>1. head \in Texts /\ Len(head) = 2 /\ head[1] = "write" /\ head[2] = "route"
  BY DEF Texts, StepNames
<1> HIDE DEF head
<1>2. /\ head \o steps \in Texts /\ Len(head \o steps) = 2 + Len(steps)
      /\ (head \o steps)[1] = "write" /\ (head \o steps)[2] = "route"
  <2>1. Len(steps) \in Nat
    BY DEF Texts
  <2>2. /\ head \o steps \in Texts /\ Len(head \o steps) = 2 + Len(steps)
        /\ \A i \in 1..2 + Len(steps) :
             (head \o steps)[i] = IF i <= 2 THEN head[i] ELSE steps[i - 2]
    <3>1. head \in Seq(StepNames) /\ steps \in Seq(StepNames)
      BY <1>1 DEF Texts
    <3>2. /\ head \o steps \in Seq(StepNames) /\ Len(head \o steps) = Len(head) + Len(steps)
          /\ \A i \in 1..Len(head) + Len(steps) :
               (head \o steps)[i] = IF i <= Len(head) THEN head[i] ELSE steps[i - Len(head)]
      BY <3>1, BehindIs, Zenon
    <3> QED BY <1>1, <3>2, Zenon DEF Texts
  <2>3. 1 \in 1..2 + Len(steps) /\ 2 \in 1..2 + Len(steps)
    BY <2>1
  <2> QED BY <1>1, <2>2, <2>3
<1>3. Planned(head \o steps)
  BY <1>2 DEF Planned, Texts
<1> QED BY <1>2, <1>3 DEF Logged, Plans, head

\* Steps in front of a plan in which nothing is sent.
LEMMA LongerPlan ==
    ASSUME NEW a \in Texts, \A i \in 1..Len(a) : a[i] # "send", NEW b \in Plans
    PROVE  a \o b \in Plans
<1>1. a \in Texts /\ b \in Texts /\ Len(a) \in Nat /\ Len(b) \in Nat
  BY DEF Texts, Plans
<1>2. /\ a \o b \in Texts /\ Len(a \o b) = Len(a) + Len(b)
      /\ \A i \in 1..Len(a) + Len(b) : (a \o b)[i] = IF i <= Len(a) THEN a[i] ELSE b[i - Len(a)]
  BY <1>1 DEF Texts
<1>3. ASSUME NEW i \in 1..Len(a) + Len(b), (a \o b)[i] = "send"
      PROVE  \E j \in 1..i - 1 : (a \o b)[j] = "route"
  <2>1. i > Len(a) /\ b[i - Len(a)] = "send"
    BY <1>1, <1>2, <1>3
  <2>2. i - Len(a) \in 1..Len(b)
    BY <1>1, <2>1
  <2>3. PICK j \in 1..i - Len(a) - 1 : b[j] = "route"
    BY <2>1, <2>2 DEF Plans, Planned
  <2>4. j + Len(a) \in 1..i - 1 /\ j + Len(a) > Len(a) /\ j + Len(a) - Len(a) = j
    BY <1>1, <2>3
  <2>5. (a \o b)[j + Len(a)] = "route"
    <3>1. j + Len(a) \in 1..Len(a) + Len(b)
      BY <1>1, <2>4
    <3>2. (a \o b)[j + Len(a)] = b[j + Len(a) - Len(a)]
      BY <1>1, <1>2, <2>4, <3>1
    <3> QED BY <2>3, <2>4, <3>2
  <2> QED BY <2>4, <2>5
<1> QED BY <1>2, <1>3 DEF Plans, Planned

AnnouncingKinds ==
    {"integration_update", "integration_delete", "integration_create",
     "interaction_create", "invite_delete", "invite_create",
     "guild_stickers_update", "guild_scheduled_event_delete", "guild_scheduled_event_user_add",
     "guild_scheduled_event_user_remove", "guild_scheduled_event_update",
     "guild_create", "guild_delete", "guild_role_create", "guild_role_delete",
     "auto_mod_rule_update", "guild_scheduled_event_create", "auto_mod_rule_create",
     "auto_mod_action_execution", "command_permissions_update", "channel_delete",
     "message_delete", "user_update", "reaction_remove", "reaction_add", "message_update",
     "guild_ban_addition", "guild_ban_removal", "guild_role_update", "guild_member_removal",
     "guild_member_addition", "voice_channel_status_update", "voice_state_update",
     "typing_start", "message"}

\* Every kind whose arm announces has a function that does.
LEMMA LogsAre ==
    /\ AnnouncingKinds \subseteq DOMAIN Logs
    /\ \A k \in DOMAIN Logs : Logs[k] \in Texts
<1> DEFINE tables == {IntegrationLogs, InviteLogs, StickerAndEventLogs, ScheduledEventLogs, GuildLogs,
            RoleAndRuleLogs, AutoModLogs, ChannelAndUserLogs, ReactionLogs, MessageUpdateLog,
            BanLogs, RoleUpdateLog, MemberLogs, VoiceStatusLog, VoiceStateLog, TypingNoop,
            MessageLog}
<1>1. Logs = Merged(tables)
  BY DEF Logs
<1>2. Announce \in Texts /\ <<>> \in Texts
  BY DEF Announce, Texts, StepNames
<1>3. \A s \in Texts : <<"author">> \o s \in Texts /\ <<"user", "user">> \o s \in Texts
  BY DEF Texts, StepNames
<1>4. \A kinds : DOMAIN ByAnnouncing(kinds) = kinds
                 /\ \A k \in kinds : ByAnnouncing(kinds)[k] \in Texts
  BY <1>2 DEF ByAnnouncing
<1>5. /\ DOMAIN MessageUpdateLog = {"message_update"} /\ MessageUpdateLog["message_update"] \in Texts
      /\ DOMAIN VoiceStateLog = {"voice_state_update"} /\ VoiceStateLog["voice_state_update"] \in Texts
      /\ DOMAIN TypingNoop = {"typing_start"} /\ TypingNoop["typing_start"] \in Texts
      /\ DOMAIN MessageLog = {"message"} /\ MessageLog["message"] \in Texts
  BY <1>2, <1>3 DEF MessageUpdateLog, VoiceStateLog, TypingNoop, MessageLog
<1>6. \A f \in tables : \A k \in DOMAIN f : f[k] \in Texts
  BY <1>4, <1>5
  DEF IntegrationLogs, InviteLogs, StickerAndEventLogs, ScheduledEventLogs, GuildLogs,
      RoleAndRuleLogs, AutoModLogs, ChannelAndUserLogs, ReactionLogs, BanLogs, RoleUpdateLog,
      MemberLogs, VoiceStatusLog
<1>7. \A k \in AnnouncingKinds : \E f \in tables : k \in DOMAIN f
  BY <1>4, <1>5
  DEF AnnouncingKinds, IntegrationLogs, InviteLogs, StickerAndEventLogs, ScheduledEventLogs,
      GuildLogs, RoleAndRuleLogs, AutoModLogs, ChannelAndUserLogs, ReactionLogs, BanLogs,
      RoleUpdateLog, MemberLogs, VoiceStatusLog
<1> HIDE DEF tables
<1>8. AnnouncingKinds \subseteq DOMAIN Logs
  BY <1>1, <1>7, MergedIs
<1>9. \A k \in DOMAIN Merged(tables) : Merged(tables)[k] \in Texts
  <2> HIDE DEF Texts
  <2> QED BY <1>6, MergedLists
<1> QED BY <1>1, <1>8, <1>9

\* In every arm the channel is chosen before anything is sent.
LEMMA ArmsArePlanned == \A kind \in DOMAIN Arms : Arms[kind] \in Plans
<1>1. \A kinds : kinds \subseteq AnnouncingKinds =>
        DOMAIN ByLog(kinds) = kinds /\ \A k \in kinds : ByLog(kinds)[k] \in Plans
  BY LogsAre, LoggedPlan DEF ByLog
<1>2. \A kinds : /\ DOMAIN NotImplemented(kinds) = kinds
                 /\ \A k \in kinds : NotImplemented(kinds)[k] \in Plans
  <2>1. Unimplemented \in Texts
    BY DEF Unimplemented, Texts, StepNames
  <2> QED BY <2>1, LoggedPlan DEF NotImplemented
<1>3. /\ <<"write">> \in Plans /\ <<>> \in Plans /\ <<"tell", "write">> \in Plans
  BY DEF Plans, Planned, Texts, StepNames
<1>4. \A kinds : /\ DOMAIN FileOnly(kinds) = kinds
                 /\ \A k \in kinds : FileOnly(kinds)[k] \in Plans
  BY <1>3 DEF FileOnly
<1>5. /\ \A s \in Plans : <<"user", "author">> \o s \in Plans
      /\ \A s \in Plans : <<"reload">> \o s \in Plans
      /\ \A s \in Plans : <<"author">> \o s \in Plans
      /\ \A s \in Plans : <<"user">> \o s \in Plans
  <2> DEFINE Quiet(a) == a \in Texts /\ \A i \in 1..Len(a) : a[i] # "send"
  <2>1. Quiet(<<"user", "author">>) /\ Quiet(<<"reload">>) /\ Quiet(<<"author">>) /\ Quiet(<<"user">>)
    BY DEF Texts, StepNames
  <2>2. \A a, s : Quiet(a) /\ s \in Plans => a \o s \in Plans
    BY LongerPlan
  <2> HIDE DEF Quiet
  <2> QED BY <2>1, <2>2
<1>6. /\ Logged(Logs["message"]) \in Plans /\ Logged(Logs["guild_create"]) \in Plans
      /\ Logged(Logs["message_update"]) \in Plans /\ Logged(Logs["user_update"]) \in Plans
  BY LogsAre, LoggedPlan DEF AnnouncingKinds
<1> DEFINE Fine(f) == \A k \in DOMAIN f : f[k] \in Plans
<1>7. /\ Fine(PresenceArm) /\ Fine(MessageArm) /\ Fine(GuildCreateArm)
      /\ Fine(MemberUpdateArm) /\ Fine(MessageUpdateArm) /\ Fine(UserUpdateArm)
  <2> HIDE DEF Plans
  <2>1. Fine(PresenceArm) /\ Fine(MemberUpdateArm)
    BY <1>3 DEF PresenceArm, MemberUpdateArm
  <2>2. \A s \in Plans : /\ Fine([message |-> s]) /\ Fine([guild_create |-> s])
                        /\ Fine([message_update |-> s]) /\ Fine([user_update |-> s])
    OBVIOUS
  <2>3. /\ <<"user", "author">> \o Logged(Logs["message"]) \in Plans
        /\ <<"reload">> \o Logged(Logs["guild_create"]) \in Plans
        /\ <<"author">> \o Logged(Logs["message_update"]) \in Plans
        /\ <<"user">> \o Logged(Logs["user_update"]) \in Plans
    BY <1>5, <1>6, Zenon
  <2> HIDE DEF Fine
  <2>4. Fine(MessageArm) /\ Fine(GuildCreateArm) /\ Fine(MessageUpdateArm) /\ Fine(UserUpdateArm)
    BY <2>2, <2>3, Zenon DEF MessageArm, GuildCreateArm, MessageUpdateArm, UserUpdateArm
  <2> QED BY <2>1, <2>4
<1>8. /\ \A kinds : kinds \subseteq AnnouncingKinds => Fine(ByLog(kinds))
      /\ \A kinds : Fine(NotImplemented(kinds)) /\ Fine(FileOnly(kinds))
  BY <1>1, <1>2, <1>4
<1>9. Fine([k \in {"cache_ready", "other"} |-> <<>>])
  BY <1>3
<1>10. \A tables : (\A f \in tables : Fine(f)) => Fine(Merged(tables))
  <2> HIDE DEF Plans
  <2> QED BY MergedLists
<1> HIDE DEF Fine
<1>11. /\ Fine(MemberArms) /\ Fine(TypingArms) /\ Fine(BanArms) /\ Fine(GuildDeleteArm)
       /\ Fine(ScheduledEventArms)
  BY <1>8
  DEF AnnouncingKinds, MemberArms, TypingArms, BanArms, GuildDeleteArm, ScheduledEventArms
<1>12. Fine(EmojiArms) /\ Fine(ThreadArms)
  BY <1>8 DEF EmojiArms, ThreadArms
<1>13. \A f, h : Fine(f) /\ Fine(h) => Fine(Merged({f, h}))
  BY <1>10
<1>14. Fine(AutoModArms) /\ Fine(ChannelArms) /\ Fine(RoleArms)
  BY <1>8, <1>13 DEF AnnouncingKinds, AutoModArms, ChannelArms, RoleArms
<1>15. Fine(GuildArms) /\ Fine(IntegrationArms) /\ Fine(ReactionArms)
  BY <1>8, <1>13 DEF AnnouncingKinds, GuildArms, IntegrationArms, ReactionArms
<1>16. Fine(LastArms)
  <2>1. \A f, h, g : Fine(f) /\ Fine(h) /\ Fine(g) => Fine(Merged({f, h, g}))
    BY <1>10
  <2>2. {"voice_channel_status_update"} \subseteq AnnouncingKinds
    BY DEF AnnouncingKinds
  <2> QED BY <1>8, <1>9, <2>1, <2>2 DEF LastArms
<1> DEFINE tables == {PresenceArm, MemberArms, MessageArm, TypingArms, AutoModArms, ChannelArms,
            BanArms, GuildCreateArm, GuildDeleteArm, EmojiArms, MemberUpdateArm, RoleArms,
            ScheduledEventArms, GuildArms, IntegrationArms, MessageUpdateArm, ReactionArms,
            ThreadArms, UserUpdateArm, LastArms}
<1>17. \A f \in tables : Fine(f)
  BY <1>7, <1>11, <1>12, <1>14, <1>15, <1>16
<1>18. Arms = Merged(tables)
  BY DEF Arms
<1> HIDE DEF tables
<1>19. Fine(Arms)
  BY <1>10, <1>17, <1>18
<1> QED BY <1>19 DEF Fine

LEMMA RouteIs ==
    ASSUME NEW kind
    PROVE  Route(kind) \in Routes
BY DEF Route, Routes

\* A task of an event has steps left, and chooses its channel before it sends.
TaskBusy(task) ==
    /\ task.guild \in Guilds /\ task.route \in Routes
    /\ task.steps \in Texts /\ task.steps # <<>>
    /\ task.bot \in BOOLEAN
    /\ task.channel \in Channel \union {Global}
    /\ task.channel = None => Planned(task.steps)

TaskShape(task) == task = AtRest \/ TaskBusy(task)

EventShape ==
    /\ DOMAIN channels \subseteq Guilds
    /\ \A g \in DOMAIN channels : channels[g] \in Setting
    /\ logRows \in [Guilds -> Setting]
    /\ ownPosts \in [Guilds -> Nat] /\ arrived \in Nat
    /\ \A t \in Tasks : TaskShape(handling[t])

\* The rest of a plan is one, unless it was the choice of the channel that has been done.
LEMMA RestPlanned ==
    ASSUME NEW s \in Texts, s # <<>>, Len(s) # 1
    PROVE  /\ Tail(s) \in Texts /\ Tail(s) # <<>>
           /\ Planned(s) /\ Head(s) # "route" => Planned(Tail(s))
<1>1. Len(s) \in Nat /\ Len(s) # 0
  BY DEF Texts
<1>2. Len(s) > 1 /\ Tail(s) \in Texts
  BY <1>1 DEF Texts
<1>3. Len(Tail(s)) = Len(s) - 1 /\ Head(s) = s[1]
  BY <1>1 DEF Texts
<1>4. \A i \in 1..Len(s) - 1 : Tail(s)[i] = s[i + 1]
  BY <1>1 DEF Texts
<1> DEFINE r == Tail(s)
           n == Len(s)
<1>5. r # <<>>
  <2>1. Len(r) # 0
    BY <1>1, <1>2, <1>3
  <2> HIDE DEF r
  <2> QED BY <2>1
<1> HIDE DEF r
<1>6. ASSUME Planned(s), s[1] # "route"
      PROVE  Planned(r)
  <2> SUFFICES ASSUME NEW i \in 1..n - 1, r[i] = "send"
               PROVE  \E j \in 1..i - 1 : r[j] = "route"
    BY <1>3 DEF Planned, r
  <2>1. n \in Nat /\ \A k \in 1..n - 1 : r[k] = s[k + 1]
    BY <1>1, <1>4 DEF r
  <2>2. s[i + 1] = "send" /\ i + 1 \in 1..n
    BY <2>1
  <2>3. PICK j \in 1..(i + 1) - 1 : s[j] = "route"
    BY <1>6, <2>2 DEF Planned
  <2> HIDE DEF n
  <2>4. j # 1 /\ j - 1 \in 1..i - 1 /\ j - 1 \in 1..n - 1 /\ (j - 1) + 1 = j
    BY <1>6, <2>1, <2>3
  <2>5. r[j - 1] = s[(j - 1) + 1]
    BY <2>1, <2>4
  <2> QED BY <2>3, <2>4, <2>5
<1> QED BY <1>2, <1>3, <1>5, <1>6 DEF r

LEMMA AfterShape ==
    ASSUME NEW map, NEW task, TaskQuiet(task, map), TaskBusy(task),
           task.channel # None \/ Head(task.steps) # "route"
    PROVE  TaskShape(After(task))
<1>1. CASE Len(task.steps) = 1
  BY <1>1 DEF After, TaskShape
<1>2. CASE Len(task.steps) # 1
  <2> DEFINE r == Tail(task.steps)
             next == [task EXCEPT !.steps = r]
  <2>1. r \in Texts /\ r # <<>> /\ (task.channel = None => Planned(r))
    BY <1>2, RestPlanned DEF TaskBusy
  <2> HIDE DEF r
  <2>2. /\ next.guild = task.guild /\ next.route = task.route /\ next.channel = task.channel
        /\ next.steps = r /\ next.bot = task.bot
    BY DEF TaskQuiet
  <2>3. After(task) = next
    BY <1>2 DEF After, r
  <2> HIDE DEF next
  <2>4. TaskBusy(next)
    BY <2>1, <2>2 DEF TaskBusy
  <2> QED BY <2>3, <2>4 DEF TaskShape
<1> QED BY <1>1, <1>2

LEMMA ChosenShape ==
    ASSUME NEW map, NEW task, TaskQuiet(task, map), TaskBusy(task),
           NEW channel \in Channel \union {Global}, channel # None,
           NEW next, next = [task EXCEPT !.channel = channel]
    PROVE  TaskBusy(next) /\ next.channel # None
<1>1. /\ next.guild = task.guild /\ next.route = task.route /\ next.channel = channel
      /\ next.steps = task.steps /\ next.bot = task.bot
  BY DEF TaskQuiet
<1> QED BY <1>1 DEF TaskBusy

LEMMA GetChannelIdType ==
    ASSUME EventShape, NEW g, NEW route \in Routes
    PROVE  GetChannelId(g, route) \in Channel \union {Global}
<1>1. ASSUME NEW setting \in Setting
      PROVE  Target(setting, route) \in Channel
  BY DEF Target, Setting, Routes, Channel
<1>2. None \in Channel
  BY DEF Channel
<1> QED BY <1>1, <1>2 DEF GetChannelId, EventShape

\* Only the task t changes, and what was posted.
LEMMA OneTaskShape ==
    ASSUME QuietInv, EventShape, NEW t \in Tasks, NEW next, TaskShape(next),
           handling' = [handling EXCEPT ![t] = next], UNCHANGED <<channels, logRows>>,
           ownPosts' \in [Guilds -> Nat], arrived' \in Nat
    PROVE  EventShape'
<1>1. \A u \in Tasks : handling'[u] = IF u = t THEN next ELSE handling[u]
  BY DEF QuietInv
<1>2. \A u \in Tasks : TaskShape(handling'[u])
  BY <1>1 DEF EventShape
<1> QED BY <1>2 DEF EventShape

LEMMA BusyAt ==
    ASSUME EventShape, NEW t \in Tasks, Steps(t) # <<>>
    PROVE  TaskBusy(handling[t])
<1>1. AtRest.steps = <<>>
  BY DEF AtRest
<1> QED BY <1>1 DEF EventShape, TaskShape, Steps

LEMMA ProceedShape ==
    ASSUME QuietInv, EventShape, NEW t \in Tasks, Steps(t) # <<>>,
           (Proceed(t) /\ Head(Steps(t)) # "route") \/ End(t),
           UNCHANGED <<channels, logRows>>, ownPosts' \in [Guilds -> Nat], arrived' \in Nat
    PROVE  EventShape'
<1>1. CASE End(t)
  BY <1>1, OneTaskShape DEF End, TaskShape
<1>2. CASE Proceed(t) /\ Head(Steps(t)) # "route"
  <2>1. TaskShape(After(handling[t]))
    BY <1>2, BusyAt, AfterShape DEF QuietInv, Steps
  <2> QED BY <1>2, <2>1, OneTaskShape DEF Proceed
<1> QED BY <1>1, <1>2

LEMMA HandleShape ==
    ASSUME QuietInv, EventShape, NEW t \in Tasks, NEW g \in Guilds, NEW kind \in DOMAIN Arms,
           NEW bot \in BOOLEAN, Handle(t, g, kind, bot), UNCHANGED <<channels, logRows>>,
           ownPosts' \in [Guilds -> Nat], arrived' \in Nat
    PROVE  EventShape'
<1> DEFINE task == [guild |-> g, route |-> Route(kind), steps |-> Arms[kind], bot |-> bot,
                    channel |-> None, barred |-> Ignored(channels, g)]
<1>1. Arms[kind] \in Texts /\ Planned(Arms[kind])
  BY ArmsArePlanned DEF Plans
<1>2. None \in Channel
  BY DEF Channel
<1>3. /\ task.guild = g /\ task.route = Route(kind) /\ task.steps = Arms[kind]
      /\ task.channel = None /\ task.bot = bot
  OBVIOUS
<1>4. handling' = [handling EXCEPT ![t] = IF Arms[kind] = <<>> THEN AtRest ELSE task]
  BY DEF Handle
<1> HIDE DEF task
<1>5. Arms[kind] # <<>> => TaskBusy(task)
  BY <1>1, <1>2, <1>3, RouteIs DEF TaskBusy
<1>6. TaskShape(IF Arms[kind] = <<>> THEN AtRest ELSE task)
  BY <1>5 DEF TaskShape
<1> QED BY <1>4, <1>6, OneTaskShape

LEMMA SettledShape ==
    ASSUME NEW map, NEW task, TaskQuiet(task, map), TaskShape(task), NEW s
    PROVE  TaskShape([task EXCEPT !.barred = @ \intersect s])
<1>1. CASE task = AtRest
  <2>1. AtRest.barred \intersect s = AtRest.barred
    BY DEF AtRest
  <2>2. [AtRest EXCEPT !.barred = AtRest.barred] = AtRest
    BY DEF AtRest
  <2> QED BY <1>1, <2>1, <2>2 DEF TaskShape
<1>2. CASE TaskBusy(task)
  <2> DEFINE b == task.barred \intersect s
             next == [task EXCEPT !.barred = b]
  <2> HIDE DEF b
  <2>1. /\ next.guild = task.guild /\ next.route = task.route /\ next.channel = task.channel
        /\ next.steps = task.steps /\ next.bot = task.bot
    BY DEF TaskQuiet
  <2>2. next = [task EXCEPT !.barred = @ \intersect s]
    BY DEF b
  <2> HIDE DEF next
  <2>3. TaskBusy(next)
    BY <1>2, <2>1 DEF TaskBusy
  <2> QED BY <2>2, <2>3 DEF TaskShape
<1> QED BY <1>1, <1>2 DEF TaskShape

LEMMA SettleShape ==
    ASSUME QuietInv, EventShape, NEW g \in Guilds, NEW setting \in Setting,
           NEW tasks, DOMAIN tasks = Tasks,
           \A t \in Tasks : TaskQuiet(tasks[t], channels) /\ TaskShape(tasks[t]),
           Settle(g, setting, tasks), UNCHANGED <<logRows, ownPosts, arrived>>
    PROVE  EventShape'
<1>1. \A t \in Tasks : handling'[t] = IF tasks[t].guild = g
                                      THEN [tasks[t] EXCEPT !.barred = @ \intersect setting.ignored]
                                      ELSE tasks[t]
  BY DEF Settle
<1>2. ASSUME NEW t \in Tasks
      PROVE  TaskShape(handling'[t])
  <2>1. TaskShape([tasks[t] EXCEPT !.barred = @ \intersect setting.ignored])
    BY SettledShape
  <2> QED BY <1>1, <2>1
<1>3. channels' = Put(channels, g, setting)
  BY DEF Settle
<1>4. DOMAIN channels' \subseteq Guilds /\ \A h \in DOMAIN channels' : channels'[h] \in Setting
  BY <1>3 DEF Put, EventShape
<1> QED BY <1>2, <1>4 DEF EventShape

LEMMA HandlerStepShape ==
    ASSUME QuietInv, EventShape, NEW t \in Tasks, HandlerStep(t)
    PROVE  EventShape'
<1>0. arrived' \in Nat
  BY DEF HandlerStep, WriteLog, ChooseChannel, LookUp, PassAuthor, SendLog, Tell, ReloadGuild,
         StepFails, EventShape
<1>1. ASSUME NEW g \in Guilds, NEW channel, Post(t, g, channel)
      PROVE  ownPosts' \in [Guilds -> Nat]
  BY <1>1 DEF Post, EventShape
<1>2. ASSUME Steps(t) # <<>>
      PROVE  TaskBusy(handling[t]) /\ handling[t].guild \in Guilds
  BY <1>2, BusyAt DEF TaskBusy
<1>3. ASSUME WriteLog(t) \/ LookUp(t) \/ PassAuthor(t) \/ StepFails(t)
      PROVE  EventShape'
  <2>1. /\ Steps(t) # <<>> /\ ((Proceed(t) /\ Head(Steps(t)) # "route") \/ End(t))
        /\ UNCHANGED <<channels, logRows, ownPosts>>
    BY <1>3 DEF WriteLog, LookUp, PassAuthor, StepFails, At
  <2>2. ownPosts' \in [Guilds -> Nat]
    BY <2>1 DEF EventShape
  <2> QED BY <1>0, <2>1, <2>2, ProceedShape
<1>4. CASE SendLog(t)
  <2>1. /\ Steps(t) # <<>> /\ Head(Steps(t)) # "route" /\ UNCHANGED <<channels, logRows>>
        /\ Proceed(t) /\ Post(t, handling[t].guild, handling[t].channel)
    BY <1>4 DEF SendLog, At, Post
  <2>2. ownPosts' \in [Guilds -> Nat]
    BY <1>1, <1>2, <2>1
  <2> QED BY <1>0, <2>1, <2>2, ProceedShape
<1>5. CASE Tell(t)
  <2>1. /\ Steps(t) # <<>> /\ Head(Steps(t)) # "route" /\ UNCHANGED <<channels, logRows>>
        /\ Proceed(t)
        /\ UNCHANGED ownPosts \/ \E channel : Post(t, handling[t].guild, channel)
    BY <1>5 DEF Tell, At, Post
  <2>2. ownPosts' \in [Guilds -> Nat]
    BY <1>1, <1>2, <2>1 DEF EventShape
  <2> QED BY <1>0, <2>1, <2>2, ProceedShape
<1>6. CASE ChooseChannel(t)
  <2> DEFINE channel == GetChannelId(handling[t].guild, handling[t].route)
             chosen == [handling[t] EXCEPT !.channel = channel]
  <2>1. Steps(t) # <<>> /\ UNCHANGED <<channels, logRows, ownPosts>>
    BY <1>6 DEF ChooseChannel, At
  <2>2. ownPosts' \in [Guilds -> Nat]
    BY <2>1 DEF EventShape
  <2>3. CASE channel = None
    BY <1>0, <1>6, <2>1, <2>2, <2>3, ProceedShape DEF ChooseChannel
  <2>4. CASE channel # None
    <3>1. TaskBusy(handling[t]) /\ TaskQuiet(handling[t], channels)
      BY <1>2, <2>1 DEF QuietInv
    <3>2. channel \in Channel \union {Global}
      BY <3>1, GetChannelIdType DEF TaskBusy
    <3>3. channel \notin Ignored(channels, handling[t].guild)
      BY <2>4, GetChannelIdHeeds
    <3>4. handling' = [handling EXCEPT ![t] = After(chosen)]
      BY <1>6, <2>4 DEF ChooseChannel
    <3>5. TaskQuiet(chosen, channels)
      BY <3>1, <3>3, ChosenQuiet
    <3> HIDE DEF channel
    <3>6. TaskBusy(chosen) /\ chosen.channel # None
      BY <2>4, <3>1, <3>2, ChosenShape
    <3> HIDE DEF chosen
    <3>7. TaskShape(After(chosen))
      BY <3>5, <3>6, AfterShape
    <3> QED BY <1>0, <2>1, <2>2, <3>4, <3>7, OneTaskShape
  <2> QED BY <2>3, <2>4
<1>7. CASE ReloadGuild(t)
  <2> DEFINE tasks == [handling EXCEPT ![t] = After(@)]
             g == handling[t].guild
  <2>1. Steps(t) # <<>> /\ Head(Steps(t)) # "route" /\ UNCHANGED <<logRows, ownPosts, arrived>>
    BY <1>7 DEF ReloadGuild, At
  <2>2. g \in Guilds /\ TaskBusy(handling[t])
    BY <1>2, <2>1
  <2>3. TaskQuiet(After(handling[t]), channels) /\ TaskShape(After(handling[t]))
    BY <2>1, <2>2, AfterQuiet, AfterShape DEF QuietInv, Steps
  <2>4. /\ DOMAIN tasks = Tasks
        /\ \A u \in Tasks : TaskQuiet(tasks[u], channels) /\ TaskShape(tasks[u])
    BY <2>3 DEF QuietInv, EventShape
  <2>5. logRows[g] \in Setting
    BY <2>2 DEF EventShape
  <2>6. Settle(g, logRows[g], tasks)
    BY <1>7 DEF ReloadGuild
  <2> HIDE DEF tasks, g
  <2> QED BY <2>1, <2>2, <2>4, <2>5, <2>6, SettleShape
<1> QED BY <1>3, <1>4, <1>5, <1>6, <1>7 DEF HandlerStep

LEMMA EventShapeNext == QuietInv /\ EventShape /\ [EventNext]_eventVars => EventShape'
<1> SUFFICES ASSUME QuietInv, EventShape, [EventNext]_eventVars
             PROVE  EventShape'
  OBVIOUS
<1>1. ASSUME NEW t \in Tasks, NEW g \in Guilds, Arrive(t, g)
      PROVE  EventShape'
  <2>1. PICK kind \in DOMAIN Arms, bot \in BOOLEAN : Handle(t, g, kind, bot)
    BY <1>1 DEF Arrive
  <2>2. UNCHANGED <<channels, logRows>> /\ ownPosts' \in [Guilds -> Nat] /\ arrived' \in Nat
    BY <1>1 DEF Arrive, EventShape
  <2> QED BY <2>1, <2>2, HandleShape
<1>2. ASSUME NEW t \in Tasks, NEW g \in Guilds, Echo(t, g)
      PROVE  EventShape'
  <2>1. "message" \in DOMAIN Arms
    <3>1. "message" \in DOMAIN MessageArm
      BY DEF MessageArm
    <3> QED BY <3>1, MergedIs DEF Arms
  <2>2. ownPosts' \in [Guilds -> Nat]
    <3>1. ownPosts[g] \in Nat /\ ownPosts[g] > 0
      BY <1>2 DEF Echo, EventShape
    <3>2. ownPosts[g] - 1 \in Nat
      BY <3>1
    <3> QED BY <1>2, <3>2 DEF Echo, EventShape
  <2>3. arrived' \in Nat
    BY <1>2 DEF Echo, EventShape
  <2> QED BY <1>2, <2>1, <2>2, <2>3, HandleShape DEF Echo
<1>3. ASSUME NEW g \in Guilds, SettingsChange(g)
      PROVE  EventShape'
  <2>1. PICK setting \in {logRows[g], FreshSetting} : Settle(g, setting, handling)
    BY <1>3 DEF SettingsChange
  <2>2. FreshSetting \in Setting
    BY DEF FreshSetting, Setting, Channel
  <2>3. setting \in Setting
    BY <2>1, <2>2 DEF EventShape
  <2>4. UNCHANGED <<logRows, ownPosts, arrived>>
    BY <1>3 DEF SettingsChange
  <2>5. DOMAIN handling = Tasks /\ \A t \in Tasks : TaskQuiet(handling[t], channels) /\ TaskShape(handling[t])
    BY DEF QuietInv, EventShape
  <2> QED BY <2>1, <2>3, <2>4, <2>5, SettleShape
<1>4. CASE UNCHANGED eventVars
  BY <1>4 DEF eventVars, EventShape
<1> QED BY <1>1, <1>2, <1>3, <1>4, HandlerStepShape DEF EventNext

LEMMA EventShapeInit == EventInit => EventShape
BY DEF EventInit, EventShape, TaskShape

LEMMA EventShapeTypes == QuietInv /\ EventShape => EventTypeOK
<1> SUFFICES ASSUME QuietInv, EventShape
             PROVE  EventTypeOK
  OBVIOUS
<1>1. ASSUME NEW t \in Tasks, handling[t] = AtRest
      PROVE  /\ handling[t].guild \in Guilds \union {None} /\ handling[t].route \in Routes
             /\ handling[t].steps \in Texts /\ handling[t].bot \in BOOLEAN
             /\ handling[t].channel \in Channel \union {Global} /\ Steps(t) = <<>>
  BY <1>1 DEF AtRest, Routes, Channel, Steps, Texts
<1>2. ASSUME NEW t \in Tasks, TaskBusy(handling[t])
      PROVE  /\ handling[t].guild \in Guilds \union {None} /\ handling[t].route \in Routes
             /\ handling[t].steps \in Texts /\ handling[t].bot \in BOOLEAN
             /\ handling[t].channel \in Channel \union {Global} /\ Steps(t) # <<>>
             /\ At(t, "send") => handling[t].channel # None
  <2>1. ASSUME At(t, "send"), Planned(handling[t].steps)
        PROVE  FALSE
    <3> DEFINE s == handling[t].steps
    <3>1. s \in Seq(StepNames) /\ s # <<>> /\ Head(s) = "send" /\ Planned(s)
      BY <1>2, <2>1 DEF TaskBusy, At, Steps, Texts
    <3> HIDE DEF s
    <3>2. 1 \in 1..Len(s) /\ s[1] = "send"
      BY <3>1
    <3>3. \E j \in 1..1 - 1 : s[j] = "route"
      BY <3>1, <3>2 DEF Planned
    <3> QED BY <3>3
  <2> QED BY <1>2, <2>1 DEF TaskBusy, Steps
<1>3. \A t \in Tasks :
         /\ handling[t].guild \in Guilds \union {None} /\ handling[t].route \in Routes
         /\ handling[t].steps \in Texts /\ handling[t].bot \in BOOLEAN
         /\ handling[t].channel \in Channel \union {Global}
         /\ handling[t] # AtRest => Steps(t) # <<>>
         /\ At(t, "send") => handling[t].channel # None
  BY <1>1, <1>2 DEF EventShape, TaskShape, At
<1>4. \A t \in Tasks : handling[t].barred \subseteq Channels
  <2>1. \A g : Ignored(channels, g) \subseteq Channels
    BY DEF QuietInv, Ignored
  <2> QED BY <2>1 DEF QuietInv, TaskQuiet
<1> QED BY <1>3, <1>4 DEF EventShape, EventTypeOK, Texts

\* The tasks, settings and counters of the event log are well formed; in particular no arm of
\* handle_event sends an announcement before its channel was chosen.
THEOREM EventsTyped == EventSpec => []EventTypeOK
BY QuietInvInit, QuietInvNext, EventShapeInit, EventShapeNext, EventShapeTypes, PTL DEF EventSpec

-----------------------------------------------------------------------------
(* The settings of a guild *)

\* Something, or nothing.
Optional(S) == {<<>>} \union {<<x>> : x \in S}

Edit == [at : Places, copy : Optional(Profile), alone : BOOLEAN]

\* The tables hold the copy's columns, its welcome settings and its log settings if it has
\* some.
RowSaved(p, row) == row = <<RowOf(p)>>
WelcomeSaved(p, welcome) == p.welcome # {} => welcome = WithoutPassword(p.welcome)
LogsSaved(p, logs) == p.logs # {} => logs = p.logs

\* A task at some statement has a copy to write, and the row that its statement refers to;
\* one that nothing came between has its earlier statements still in the tables.
EditOK(e, prof, row, welcome) ==
    /\ e \in Edit
    /\ e.at = "copy" => prof # <<>>
    /\ e.at \in {"guild", "settings", "welcome", "logs", "premium", "own welcome"}
         => e.copy # <<>>
    /\ e.at \in {"settings", "welcome", "logs"} => row # <<>>
    /\ e.alone =>
         /\ e.at \in {"welcome", "logs"} => RowSaved(e.copy[1], row)
         /\ e.at = "logs" => WelcomeSaved(e.copy[1], welcome)

TablesOK(row, welcome, logs) ==
    /\ row \in Optional(Columns)
    /\ welcome \subseteq {w \in Welcome : ~w.password}
    /\ logs \subseteq Logging
    /\ welcome # {} \/ logs # {} => row # <<>>

\* The inductive invariant.
SavedInv ==
    /\ profile \in Optional(Profile)
    /\ TablesOK(settingsRow, welcomeRow, logRow)
    /\ DOMAIN editing = Tasks
    /\ \A t \in Tasks : EditOK(editing[t], profile, settingsRow, welcomeRow)
    /\ durable \in Optional(Profile)
    /\ durable # <<>> =>
         /\ RowSaved(durable[1], settingsRow)
         /\ WelcomeSaved(durable[1], welcomeRow)
         /\ LogsSaved(durable[1], logRow)

\* What is known of an optional value.
LEMMA OptionalFacts ==
    ASSUME NEW S, NEW o \in Optional(S)
    PROVE  /\ o # <<>> => o[1] \in S /\ o = <<o[1]>> /\ DOMAIN o = {1}
           /\ \A i \in DOMAIN o : i = 1
BY DEF Optional

\* Nothing and something are optional values.
LEMMA OptionalIntro ==
    ASSUME NEW S
    PROVE  /\ <<>> \in Optional(S)
           /\ \A x \in S : <<x>> \in Optional(S) /\ <<x>> # <<>>
BY DEF Optional

\* The entry that the program makes is well formed.
LEMMA NewProfileType == NewProfile \in Profile
BY DEF NewProfile, Profile

\* What is stored of the welcome settings has no password.
LEMMA WithoutPasswordType ==
    ASSUME NEW W \in SUBSET Welcome
    PROVE  WithoutPassword(W) \subseteq {w \in Welcome : ~w.password}
BY DEF WithoutPassword, Welcome

\* So is the one that commands read, whether it exists or not.
LEMMA EntryType == SavedInv => Entry \in Profile
BY NewProfileType, OptionalFacts DEF SavedInv, Entry

\* And what the setters make of it.
LEMMA SettersType ==
    ASSUME NEW p \in Profile
    PROVE  /\ ToggleSelfDeafen(p) \in Profile
           /\ \A kind \in {"all", "joinLeave"} : WithLogChannel(p, kind) \in Profile
           /\ WithTimeout(p) \in Profile
           /\ \A b \in BOOLEAN : WithPrefixes(p, b) \in Profile /\ WithPremium(p, b) \in Profile
           /\ WithGreeting(p) \in Profile
           /\ \A role \in Roles : WithAutoRole(p, role) \in Profile
<1>1. ToggleSelfDeafen(p) \in Profile
  BY DEF Profile, ToggleSelfDeafen
<1>2. ASSUME NEW kind \in {"all", "joinLeave"}
      PROVE  WithLogChannel(p, kind) \in Profile
  <2>1. [NoLogging EXCEPT ![kind] = TRUE] \in Logging
    BY DEF NoLogging, Logging
  <2>2. \A l \in Logging : [l EXCEPT ![kind] = TRUE] \in Logging
    BY DEF Logging
  <2>3. (IF p.logs = {} THEN {[NoLogging EXCEPT ![kind] = TRUE]}
                        ELSE {[l EXCEPT ![kind] = TRUE] : l \in p.logs}) \in SUBSET Logging
    BY <2>1, <2>2 DEF Profile
  <2> QED BY <2>3 DEF Profile, WithLogChannel
<1>3. WithTimeout(p) \in Profile
  BY DEF Profile, WithTimeout
<1>4. \A b \in BOOLEAN : WithPrefixes(p, b) \in Profile /\ WithPremium(p, b) \in Profile
  BY DEF Profile, WithPrefixes, WithPremium
<1>5. WithGreeting(p) \in Profile
  <2>1. [NoWelcome EXCEPT !.greeting = TRUE] \in Welcome
    BY DEF NoWelcome, Welcome
  <2>2. \A w \in Welcome : [w EXCEPT !.greeting = TRUE, !.password = FALSE] \in Welcome
    BY DEF Welcome
  <2> DEFINE Greeted(w) == [w EXCEPT !.greeting = TRUE, !.password = FALSE]
  <2>3. (IF p.welcome = {} THEN {[NoWelcome EXCEPT !.greeting = TRUE]}
         ELSE {Greeted(w) : w \in p.welcome}) \in SUBSET Welcome
    <3>1. \A w \in Welcome : Greeted(w) \in Welcome
      BY <2>2
    <3> HIDE DEF Greeted
    <3> QED BY <2>1, <3>1 DEF Profile
  <2> QED BY <2>3 DEF Profile, WithGreeting
<1>6. ASSUME NEW role \in Roles
      PROVE  WithAutoRole(p, role) \in Profile
  <2>1. [NoWelcome EXCEPT !.role = role] \in Welcome
    BY DEF NoWelcome, Welcome
  <2>2. \A w \in Welcome : [w EXCEPT !.role = role] \in Welcome
    BY DEF Welcome
  <2>3. (IF p.welcome = {} THEN {[NoWelcome EXCEPT !.role = role]}
         ELSE {[w EXCEPT !.role = role] : w \in p.welcome}) \in SUBSET Welcome
    BY <2>1, <2>2 DEF Profile
  <2> QED BY <2>3 DEF Profile, WithAutoRole
<1> QED BY <1>1, <1>2, <1>3, <1>4, <1>5, <1>6

\* The row of an entry.
LEMMA RowOfType ==
    ASSUME NEW p \in Profile
    PROVE  RowOf(p) \in Columns
BY DEF RowOf, Profile, Columns

\* The entry that is loaded from a row.
LEMMA LoadedType ==
    ASSUME NEW row \in Columns, NEW welcome \in SUBSET Welcome, NEW logs \in SUBSET Logging
    PROVE  LoadProfile(row, welcome, logs) \in Profile
<1>1. WithoutPassword(welcome) \in SUBSET Welcome
  BY WithoutPasswordType
<1> QED BY <1>1 DEF LoadProfile, Columns, Profile, GetWelcomeSettings, GetLogSettings

\* Loading what was saved.
LEMMA PasswordsOnce ==
    ASSUME NEW W \in SUBSET Welcome
    PROVE  WithoutPassword(WithoutPassword(W)) = WithoutPassword(W)
<1>1. \A w \in WithoutPassword(W) : w \in Welcome /\ w.password = FALSE
  BY DEF WithoutPassword, Welcome
<1>2. \A w \in WithoutPassword(W) : [w EXCEPT !.password = FALSE] = w
  BY <1>1 DEF Welcome
<1> DEFINE V == WithoutPassword(W)
<1>3. {[w EXCEPT !.password = FALSE] : w \in V} = V
  <2> HIDE DEF V
  <2>1. \A w \in V : [w EXCEPT !.password = FALSE] = w
    BY <1>2 DEF V
  <2> QED BY <2>1
<1> QED BY <1>3 DEF WithoutPassword

\* Under the invariant, loading gives what was saved.
LEMMA SavedLoads == SavedInv => SavedProfileLoads
<1> SUFFICES ASSUME SavedInv, NEW i \in DOMAIN durable
             PROVE  LET loaded == LoadProfile(settingsRow[1], welcomeRow, logRow)
                        s == durable[i]
                    IN  /\ RowOf(loaded) = RowOf(s)
                        /\ s.welcome # {} => loaded.welcome = WithoutPassword(s.welcome)
                        /\ s.logs # {} => loaded.logs = s.logs
  BY DEF SavedProfileLoads
<1>1. i = 1 /\ durable # <<>> /\ durable[1] \in Profile
  <2>1. durable \in Optional(Profile)
    BY DEF SavedInv
  <2> QED BY <2>1, OptionalFacts
<1>2. /\ RowSaved(durable[1], settingsRow)
      /\ WelcomeSaved(durable[1], welcomeRow)
      /\ LogsSaved(durable[1], logRow)
  BY <1>1 DEF SavedInv
<1>3. durable[1].welcome \in SUBSET Welcome
  BY <1>1 DEF Profile
<1>4. WithoutPassword(WithoutPassword(durable[1].welcome)) = WithoutPassword(durable[1].welcome)
  BY <1>3, PasswordsOnce
<1> QED BY <1>1, <1>2, <1>4
        DEF RowSaved, WelcomeSaved, LogsSaved, LoadProfile, RowOf, GetWelcomeSettings,
            GetLogSettings

\* A step that changes the entry and one task, and no table.
LEMMA EditsSaved ==
    ASSUME SavedInv, NEW t \in Tasks, NEW next, NEW prof \in Optional(Profile),
           EditOK(next, prof, settingsRow, welcomeRow),
           profile' = prof, profile # <<>> => prof # <<>>,
           editing' = [editing EXCEPT ![t] = next],
           UNCHANGED <<settingsRow, welcomeRow, logRow, durable>>
    PROVE  SavedInv'
<1>1. \A u \in Tasks : editing'[u] = IF u = t THEN next ELSE editing[u]
  BY DEF SavedInv
<1>2. \A u \in Tasks : EditOK(editing[u], prof, settingsRow, welcomeRow)
  BY DEF SavedInv, EditOK
<1>3. \A u \in Tasks : EditOK(editing'[u], prof, settingsRow, welcomeRow)
  BY <1>1, <1>2
<1>4. DOMAIN editing' = Tasks
  BY DEF SavedInv
<1> QED BY <1>3, <1>4 DEF SavedInv

\* A statement: the rows change, and nobody else's save is untouched any more.
LEMMA StatementSaved ==
    ASSUME SavedInv, NEW t \in Tasks, NEW next, NEW row, NEW welcome, NEW logs,
           EditOK(next, profile, row, welcome), TablesOK(row, welcome, logs),
           settingsRow # <<>> => row # <<>>,
           settingsRow' = row, welcomeRow' = welcome, logRow' = logs, UNCHANGED profile,
           editing' = [u \in Tasks |-> IF u = t THEN next
                                       ELSE [editing[u] EXCEPT !.alone = FALSE]],
           durable' \in Optional(Profile),
           durable' # <<>> => /\ RowSaved(durable'[1], row)
                              /\ WelcomeSaved(durable'[1], welcome)
                              /\ LogsSaved(durable'[1], logs)
    PROVE  SavedInv'
<1>1. \A u \in Tasks : EditOK([editing[u] EXCEPT !.alone = FALSE], profile, row, welcome)
  <2> SUFFICES ASSUME NEW u \in Tasks
               PROVE  EditOK([editing[u] EXCEPT !.alone = FALSE], profile, row, welcome)
    OBVIOUS
  <2> DEFINE e == editing[u]
  <2>1. EditOK(e, profile, settingsRow, welcomeRow)
    BY DEF SavedInv
  <2> HIDE DEF e
  <2>2. EditOK([e EXCEPT !.alone = FALSE], profile, row, welcome)
    BY <2>1 DEF EditOK, Edit
  <2> QED BY <2>2 DEF e
<1>2. \A u \in Tasks : EditOK(editing'[u], profile, row, welcome)
  BY <1>1
<1>3. DOMAIN editing' = Tasks
  OBVIOUS
<1>4. profile' = profile /\ profile \in Optional(Profile)
  BY DEF SavedInv
<1> QED BY <1>2, <1>3, <1>4 DEF SavedInv

-----------------------------------------------------------------------------
\* A task that saves nothing.
LEMMA NotEditingOK ==
    ASSUME NEW prof, NEW row, NEW welcome
    PROVE  EditOK(NotEditing, prof, row, welcome)
BY OptionalIntro DEF EditOK, NotEditing, Edit, Places

\* A command that is about to save, or a member who is about to be welcomed.
LEMMA StartedOK ==
    ASSUME NEW prof, NEW row, NEW welcome, NEW copy \in Optional(Profile),
           NEW at \in {"guild", "premium", "own welcome", "greet", "role", "copy"},
           at \notin {"copy", "greet", "role"} => copy # <<>>, at = "copy" => prof # <<>>
    PROVE  EditOK([at |-> at, copy |-> copy, alone |-> TRUE], prof, row, welcome)
BY DEF EditOK, Edit, Places

\* What a command makes of the entry is saved, or only kept in memory.
LEMMA CommandSaved ==
    ASSUME SavedInv, NEW t \in Tasks, Issue(t), NEW p \in Profile, profile' = <<p>>,
           \/ UNCHANGED editing
           \/ \E at \in {"guild", "own welcome"} : Edits(t, at, <<p>>)
           \/ Edits(t, "copy", <<>>)
    PROVE  SavedInv'
<1>1. <<p>> \in Optional(Profile) /\ <<p>> # <<>> /\ <<>> \in Optional(Profile)
  BY OptionalIntro
<1>2. UNCHANGED <<settingsRow, welcomeRow, logRow, durable>>
  BY DEF Issue
<1>3. CASE UNCHANGED editing
  <2>1. \A u \in Tasks : EditOK(editing[u], <<p>>, settingsRow, welcomeRow)
    BY <1>1 DEF SavedInv, EditOK
  <2> QED BY <1>1, <1>2, <1>3, <2>1 DEF SavedInv
<1>4. ASSUME NEW at \in {"guild", "own welcome"}, Edits(t, at, <<p>>)
      PROVE  SavedInv'
  <2>1. EditOK([at |-> at, copy |-> <<p>>, alone |-> TRUE], <<p>>, settingsRow, welcomeRow)
    BY <1>1, StartedOK
  <2> QED BY <1>1, <1>2, <1>4, <2>1, EditsSaved DEF Edits
<1>5. CASE Edits(t, "copy", <<>>)
  <2>1. EditOK([at |-> "copy", copy |-> <<>>, alone |-> TRUE], <<p>>, settingsRow, welcomeRow)
    BY <1>1, StartedOK
  <2> QED BY <1>1, <1>2, <1>5, <2>1, EditsSaved DEF Edits
<1> QED BY <1>3, <1>4, <1>5

\* A command that finds no entry to change.
LEMMA NothingToChangeSaved ==
    ASSUME SavedInv, NEW t \in Tasks, Issue(t), UNCHANGED <<profile, editing>>
    PROVE  SavedInv'
BY DEF SavedInv, Issue

\* Each command that changes the entry, and what it starts.
LEMMA PasswordVerifySaved ==
    ASSUME SavedInv, NEW t \in Tasks, NEW role \in Roles, PasswordVerify(t, role)
    PROVE  SavedInv'
<1> DEFINE verify == [greeting |-> TRUE, role |-> role, password |-> TRUE]
           p == IF profile # <<>> THEN WithGreeting(Entry)
                ELSE [NewProfile EXCEPT !.welcome = {verify}]
<1>1. WithGreeting(Entry) \in Profile
  BY EntryType, SettersType
<1>2. [NewProfile EXCEPT !.welcome = {verify}] \in Profile
  <2>1. {verify} \in SUBSET Welcome
    BY DEF Welcome
  <2> HIDE DEF verify
  <2> QED BY <2>1, NewProfileType DEF Profile
<1>3. p \in Profile
  BY <1>1, <1>2
<1>4. profile' = <<p>> /\ Issue(t) /\ Edits(t, "own welcome", profile')
  BY DEF PasswordVerify
<1> HIDE DEF p
<1> QED BY <1>3, <1>4, CommandSaved

\* premium goes to the entry if there is one, and to the table in any case.
LEMMA SetPremiumSaved ==
    ASSUME SavedInv, NEW t \in Tasks, NEW premium \in BOOLEAN, SetPremium(t, premium)
    PROVE  SavedInv'
<1> DEFINE p == WithPremium(Entry, premium)
           prof == IF profile = <<>> THEN <<>> ELSE <<p>>
<1>1. p \in Profile
  BY EntryType, SettersType
<1>2. profile' = prof /\ Issue(t) /\ Edits(t, "premium", <<p>>)
  BY DEF SetPremium
<1> HIDE DEF p
<1>3. /\ prof \in Optional(Profile) /\ (profile # <<>> => prof # <<>>)
      /\ <<p>> \in Optional(Profile) /\ <<p>> # <<>>
  BY <1>1, OptionalIntro
<1>4. EditOK([at |-> "premium", copy |-> <<p>>, alone |-> TRUE], prof, settingsRow, welcomeRow)
  BY <1>3, StartedOK
<1> QED BY <1>2, <1>3, <1>4, EditsSaved DEF Edits, Issue

\* The prefixes of an entry that exists are saved later, if at all.
LEMMA ChangePrefixesSaved ==
    ASSUME SavedInv, NEW t \in Tasks, ChangePrefixes(t)
    PROVE  SavedInv'
<1>1. PICK some \in BOOLEAN :
        profile' = IF profile = <<>> THEN <<>> ELSE <<WithPrefixes(Entry, some)>>
  BY DEF ChangePrefixes
<1>2. WithPrefixes(Entry, some) \in Profile
  BY EntryType, SettersType
<1>3. Issue(t) /\ UNCHANGED editing
  BY DEF ChangePrefixes
<1> QED BY <1>1, <1>2, <1>3, CommandSaved, NothingToChangeSaved

\* Commands that change an entry only if it exists.
LEMMA ChangeExistingSaved ==
    ASSUME SavedInv, NEW t \in Tasks, NEW p \in Profile, ChangeExisting(t, p)
    PROVE  SavedInv'
BY CommandSaved, NothingToChangeSaved DEF ChangeExisting

\* The commands that are those.
LEMMA SettersSaved ==
    ASSUME SavedInv, NEW t \in Tasks,
           \/ ToggleDeafen(t) \/ AllLogChannel(t) \/ JoinLeaveLogChannel(t) \/ GetAll(t)
           \/ IdleTimeout(t) \/ WelcomeSettings(t)
           \/ \E role \in Roles : AutoRole(t, role)
    PROVE  SavedInv'
<1> DEFINE e == Entry
<1>1. e \in Profile
  BY EntryType
<1>2. /\ ToggleSelfDeafen(e) \in Profile
      /\ WithLogChannel(e, "all") \in Profile /\ WithLogChannel(e, "joinLeave") \in Profile
      /\ WithTimeout(e) \in Profile /\ WithGreeting(e) \in Profile
      /\ \A role \in Roles : WithAutoRole(e, role) \in Profile
  BY <1>1, SettersType
<1>3. CASE ToggleDeafen(t)
  BY <1>2, <1>3, CommandSaved DEF ToggleDeafen
<1>4. CASE AllLogChannel(t)
  BY <1>2, <1>4, CommandSaved DEF AllLogChannel
<1>5. CASE JoinLeaveLogChannel(t)
  BY <1>2, <1>5, ChangeExistingSaved DEF JoinLeaveLogChannel
<1>6. CASE GetAll(t)
  BY <1>1, <1>6, CommandSaved DEF GetAll
<1>7. CASE IdleTimeout(t)
  BY <1>2, <1>7, CommandSaved DEF IdleTimeout
<1>8. CASE WelcomeSettings(t)
  BY <1>2, <1>8, CommandSaved DEF WelcomeSettings
<1>9. CASE \E role \in Roles : AutoRole(t, role)
  BY <1>2, <1>9, ChangeExistingSaved DEF AutoRole
<1> QED BY <1>3, <1>4, <1>5, <1>6, <1>7, <1>8, <1>9

\* The entry is copied under its lock before it is saved.
LEMMA TakeCopySaved ==
    ASSUME SavedInv, NEW t \in Tasks, TakeCopy(t)
    PROVE  SavedInv'
<1>1. profile \in Optional(Profile) /\ profile # <<>>
  BY DEF SavedInv, TakeCopy, EditAt, EditOK
<1>2. EditOK([at |-> "guild", copy |-> profile, alone |-> TRUE], profile, settingsRow, welcomeRow)
  BY <1>1, StartedOK
<1> QED BY <1>1, <1>2, EditsSaved DEF TakeCopy, Edits

\* A new member is welcomed with a copy of the settings.
LEMMA WelcomingSaved ==
    ASSUME SavedInv, NEW t \in Tasks, GuildMemberAddition(t) \/ Greet(t)
    PROVE  SavedInv'
<1>1. PICK at \in {"greet", "role"}, copy \in Optional(Profile) : Edits(t, at, copy)
  BY DEF GuildMemberAddition, Greet, SavedInv, EditOK, Edit
<1>2. EditOK([at |-> at, copy |-> copy, alone |-> TRUE], profile, settingsRow, welcomeRow)
  BY StartedOK
<1>3. UNCHANGED <<profile, settingsRow, welcomeRow, logRow, durable>>
  BY DEF GuildMemberAddition, Greet
<1> QED BY <1>1, <1>2, <1>3, EditsSaved DEF Edits, SavedInv

\* The last step of a task.
LEMMA EndsSaved ==
    ASSUME SavedInv, NEW t \in Tasks, AddRole(t) \/ EditFails(t)
    PROVE  SavedInv'
BY NotEditingOK, EditsSaved DEF AddRole, EditFails, EditEnds, SavedInv

-----------------------------------------------------------------------------
\* The statements of save, one after the other: the first makes the row if there is none.
LEMMA WriteGuildSaved ==
    ASSUME SavedInv, NEW t \in Tasks, WriteGuild(t)
    PROVE  SavedInv'
<1> DEFINE next == [editing[t] EXCEPT !.at = "settings"]
           row == IF settingsRow = <<>> THEN <<ColumnDefaults>> ELSE settingsRow
<1>1. EditOK(editing[t], profile, settingsRow, welcomeRow) /\ editing[t].at = "guild"
  BY DEF SavedInv, WriteGuild, EditAt
<1>2. ColumnDefaults \in Columns
  BY DEF ColumnDefaults, RowOf, NewProfile, Columns
<1>3. row \in Optional(Columns) /\ row # <<>> /\ <<>> \in Optional(Profile)
  BY <1>2, OptionalIntro DEF SavedInv, TablesOK
<1>4. EditOK(next, profile, row, welcomeRow)
  BY <1>1, <1>3 DEF EditOK, Edit, Places
<1>5. TablesOK(row, welcomeRow, logRow)
  BY <1>3 DEF TablesOK, SavedInv
<1>6. /\ editing' = [u \in Tasks |-> IF u = t THEN next ELSE [editing[u] EXCEPT !.alone = FALSE]]
      /\ settingsRow' = row /\ durable' = <<>>
      /\ UNCHANGED <<profile, welcomeRow, logRow>>
  BY DEF WriteGuild, Writes
<1> HIDE DEF next, row
<1> QED BY <1>3, <1>4, <1>5, <1>6, StatementSaved

\* The second writes the columns: they are the row of the copy.
LEMMA WriteSettingsSaved ==
    ASSUME SavedInv, NEW t \in Tasks, WriteSettings(t)
    PROVE  SavedInv'
<1> DEFINE next == [editing[t] EXCEPT !.at = "welcome"]
           row == <<RowOf(editing[t].copy[1])>>
<1>1. EditOK(editing[t], profile, settingsRow, welcomeRow) /\ editing[t].at = "settings"
  BY DEF SavedInv, WriteSettings, EditAt
<1>2. editing[t].copy[1] \in Profile
  BY <1>1, OptionalFacts DEF EditOK, Edit
<1>3. row \in Optional(Columns) /\ row # <<>> /\ <<>> \in Optional(Profile)
  BY <1>2, RowOfType, OptionalIntro
<1>4. EditOK(next, profile, row, welcomeRow)
  BY <1>1 DEF EditOK, Edit, Places, RowSaved
<1>5. TablesOK(row, welcomeRow, logRow)
  BY <1>3 DEF TablesOK, SavedInv
<1>6. /\ editing' = [u \in Tasks |-> IF u = t THEN next ELSE [editing[u] EXCEPT !.alone = FALSE]]
      /\ settingsRow' = row /\ durable' = <<>>
      /\ UNCHANGED <<profile, welcomeRow, logRow>>
  BY DEF WriteSettings, Writes
<1> HIDE DEF next, row
<1> QED BY <1>3, <1>4, <1>5, <1>6, StatementSaved

\* The third writes the welcome settings, if the copy has some.
LEMMA WriteWelcomeSaved ==
    ASSUME SavedInv, NEW t \in Tasks, WriteWelcome(t)
    PROVE  SavedInv'
<1> DEFINE next == [editing[t] EXCEPT !.at = "logs"]
           copy == editing[t].copy[1]
           welcome == IF copy.welcome = {} THEN welcomeRow ELSE WithoutPassword(copy.welcome)
<1>1. EditOK(editing[t], profile, settingsRow, welcomeRow) /\ editing[t].at = "welcome"
  BY DEF SavedInv, WriteWelcome, EditAt
<1>2. copy \in Profile /\ settingsRow # <<>>
  BY <1>1, OptionalFacts DEF EditOK, Edit
<1>3. welcome \subseteq {w \in Welcome : ~w.password}
  BY <1>2, WithoutPasswordType DEF SavedInv, TablesOK, Profile
<1>4. <<>> \in Optional(Profile)
  BY OptionalIntro
<1>5. EditOK(next, profile, settingsRow, welcome)
  BY <1>1, <1>2 DEF EditOK, Edit, Places, WelcomeSaved
<1>6. TablesOK(settingsRow, welcome, logRow)
  BY <1>2, <1>3 DEF TablesOK, SavedInv
<1>7. /\ editing' = [u \in Tasks |-> IF u = t THEN next ELSE [editing[u] EXCEPT !.alone = FALSE]]
      /\ welcomeRow' = welcome /\ durable' = <<>>
      /\ UNCHANGED <<profile, settingsRow, logRow>>
  BY DEF WriteWelcome, Writes
<1> HIDE DEF next, welcome
<1> QED BY <1>4, <1>5, <1>6, <1>7, StatementSaved

\* The last statement: a save that was alone has all its rows in the tables now.
LEMMA WriteLogsSaved ==
    ASSUME SavedInv, NEW t \in Tasks, WriteLogs(t)
    PROVE  SavedInv'
<1> DEFINE copy == editing[t].copy[1]
           logs == IF copy.logs = {} THEN logRow ELSE copy.logs
           saves == IF editing[t].alone THEN editing[t].copy ELSE <<>>
<1>1. EditOK(editing[t], profile, settingsRow, welcomeRow) /\ editing[t].at = "logs"
  BY DEF SavedInv, WriteLogs, EditAt
<1>2. copy \in Profile /\ settingsRow # <<>> /\ editing[t].copy \in Optional(Profile)
  BY <1>1, OptionalFacts DEF EditOK, Edit
<1>3. logs \subseteq Logging
  BY <1>2 DEF SavedInv, TablesOK, Profile
<1>4. TablesOK(settingsRow, welcomeRow, logs)
  BY <1>2, <1>3 DEF TablesOK, SavedInv
<1>5. saves \in Optional(Profile)
  BY <1>2, OptionalIntro
<1>6. saves # <<>> => /\ RowSaved(saves[1], settingsRow)
                      /\ WelcomeSaved(saves[1], welcomeRow)
                      /\ LogsSaved(saves[1], logs)
  BY <1>1 DEF EditOK, LogsSaved
<1>7. EditOK(NotEditing, profile, settingsRow, welcomeRow)
  BY NotEditingOK
<1>8. /\ editing' = [u \in Tasks |->
           IF u = t THEN NotEditing ELSE [editing[u] EXCEPT !.alone = FALSE]]
      /\ logRow' = logs /\ durable' = saves
      /\ UNCHANGED <<profile, settingsRow, welcomeRow>>
  BY DEF WriteLogs
<1> HIDE DEF logs, saves
<1> QED BY <1>4, <1>5, <1>6, <1>7, <1>8, StatementSaved

\* welcome writes its table by itself.
LEMMA WriteOwnWelcomeSaved ==
    ASSUME SavedInv, NEW t \in Tasks, WriteOwnWelcome(t)
    PROVE  SavedInv'
<1> DEFINE next == [editing[t] EXCEPT !.at = "none"]
           welcome == WithoutPassword(editing[t].copy[1].welcome)
<1>1. EditOK(editing[t], profile, settingsRow, welcomeRow) /\ editing[t].at = "own welcome"
  BY DEF SavedInv, WriteOwnWelcome, EditAt
<1>2. editing[t].copy[1] \in Profile
  BY <1>1, OptionalFacts DEF EditOK, Edit
<1>3. welcome \subseteq {w \in Welcome : ~w.password}
  BY <1>2, WithoutPasswordType DEF Profile
<1>4. <<>> \in Optional(Profile)
  BY OptionalIntro
<1>5. EditOK(next, profile, settingsRow, welcome)
  BY <1>1 DEF EditOK, Edit, Places
<1>6. TablesOK(settingsRow, welcome, logRow)
  BY <1>3 DEF TablesOK, SavedInv, WriteOwnWelcome
<1>7. /\ editing' = [u \in Tasks |-> IF u = t THEN next ELSE [editing[u] EXCEPT !.alone = FALSE]]
      /\ welcomeRow' = welcome /\ durable' = <<>>
      /\ UNCHANGED <<profile, settingsRow, logRow>>
  BY DEF WriteOwnWelcome, Writes
<1> HIDE DEF next, welcome
<1> QED BY <1>4, <1>5, <1>6, <1>7, StatementSaved

\* premium writes its column by itself.
LEMMA WritePremiumSaved ==
    ASSUME SavedInv, NEW t \in Tasks, WritePremium(t)
    PROVE  SavedInv'
<1> DEFINE next == [editing[t] EXCEPT !.at = "none"]
           columns == [settingsRow[1] EXCEPT !.premium = editing[t].copy[1].premium]
           row == <<columns>>
<1>1. EditOK(editing[t], profile, settingsRow, welcomeRow) /\ editing[t].at = "premium"
  BY DEF SavedInv, WritePremium, EditAt
<1>2. editing[t].copy[1] \in Profile
  BY <1>1, OptionalFacts DEF EditOK, Edit
<1>3. settingsRow[1] \in Columns
  BY OptionalFacts DEF WritePremium, SavedInv, TablesOK
<1>4. columns \in Columns
  BY <1>2, <1>3 DEF Columns, Profile
<1>5. row \in Optional(Columns) /\ row # <<>> /\ <<>> \in Optional(Profile)
  BY <1>4, OptionalIntro
<1>6. EditOK(next, profile, row, welcomeRow)
  BY <1>1 DEF EditOK, Edit, Places
<1>7. TablesOK(row, welcomeRow, logRow)
  BY <1>5 DEF TablesOK, SavedInv
<1>8. /\ editing' = [u \in Tasks |-> IF u = t THEN next ELSE [editing[u] EXCEPT !.alone = FALSE]]
      /\ settingsRow' = row /\ durable' = <<>>
      /\ UNCHANGED <<profile, welcomeRow, logRow>>
  BY DEF WritePremium, Writes
<1> HIDE DEF next, row
<1> QED BY <1>5, <1>6, <1>7, <1>8, StatementSaved

\* The start keeps the tables, and nothing else.
LEMMA RestartSaved ==
    ASSUME SavedInv, RestartAndLoad
    PROVE  SavedInv'
<1> DEFINE p == LoadProfile(settingsRow[1], welcomeRow, logRow)
<1>1. settingsRow[1] \in Columns
  BY OptionalFacts DEF RestartAndLoad, SavedInv, TablesOK
<1>2. welcomeRow \in SUBSET Welcome /\ logRow \in SUBSET Logging
  BY DEF SavedInv, TablesOK
<1>3. p \in Profile
  BY <1>1, <1>2, LoadedType
<1>4. profile' = <<p>> /\ editing' = [t \in Tasks |-> NotEditing]
      /\ UNCHANGED <<settingsRow, welcomeRow, logRow, durable>>
  BY DEF RestartAndLoad
<1> HIDE DEF p
<1>5. profile' \in Optional(Profile)
  BY <1>3, <1>4, OptionalIntro
<1>6. DOMAIN editing' = Tasks
      /\ \A t \in Tasks : EditOK(editing'[t], profile', settingsRow', welcomeRow')
  BY <1>4, NotEditingOK
<1> QED BY <1>4, <1>5, <1>6 DEF SavedInv

\* It holds at the start.
LEMMA SavedInvInit == ProfileInit => SavedInv
BY OptionalIntro, NotEditingOK DEF ProfileInit, SavedInv, TablesOK

\* Every step keeps it.
LEMMA SavedInvNext == SavedInv /\ [ProfileNext]_profileVars => SavedInv'
<1> SUFFICES ASSUME SavedInv, [ProfileNext]_profileVars
             PROVE  SavedInv'
  OBVIOUS
<1>1. ASSUME NEW t \in Tasks,
             \/ ToggleDeafen(t) \/ AllLogChannel(t) \/ JoinLeaveLogChannel(t) \/ GetAll(t)
             \/ IdleTimeout(t) \/ ChangePrefixes(t) \/ WelcomeSettings(t)
             \/ \E role \in Roles : AutoRole(t, role) \/ PasswordVerify(t, role)
             \/ \E premium \in BOOLEAN : SetPremium(t, premium)
      PROVE  SavedInv'
  BY <1>1, SettersSaved, ChangePrefixesSaved, PasswordVerifySaved, SetPremiumSaved
<1>2. ASSUME NEW t \in Tasks,
             \/ TakeCopy(t) \/ WriteGuild(t) \/ WriteSettings(t) \/ WriteWelcome(t)
             \/ WriteLogs(t) \/ WriteOwnWelcome(t) \/ WritePremium(t) \/ EditFails(t)
             \/ GuildMemberAddition(t) \/ Greet(t) \/ AddRole(t)
      PROVE  SavedInv'
  BY <1>2, TakeCopySaved, WriteGuildSaved, WriteSettingsSaved, WriteWelcomeSaved,
     WriteLogsSaved, WriteOwnWelcomeSaved, WritePremiumSaved, WelcomingSaved, EndsSaved
<1>3. CASE UNCHANGED profileVars
  BY <1>3 DEF SavedInv, profileVars
<1> QED BY <1>1, <1>2, <1>3, RestartSaved DEF ProfileNext

\* The entry, the rows and what tasks are saving are well formed, and no password is in the
\* database.
THEOREM ProfileTyped == ProfileSpec => []ProfileTypeOK
<1> DEFINE Counted == changes \in Nat
<1>1. SavedInv /\ Counted => ProfileTypeOK
  <2> SUFFICES ASSUME SavedInv, changes \in Nat
               PROVE  ProfileTypeOK
    OBVIOUS
  <2>1. ASSUME NEW S, NEW o \in Optional(S)
        PROVE  Perhaps(S, o)
    <3>1. CASE o = <<>>
      BY <3>1 DEF Perhaps
    <3>2. CASE o # <<>>
      <4>1. PICK x \in S : o = <<x>>
        BY <3>2 DEF Optional
      <4> QED BY <4>1 DEF Perhaps
    <3> QED BY <3>1, <3>2
  <2>2. /\ profile \in Optional(Profile) /\ durable \in Optional(Profile)
        /\ settingsRow \in Optional(Columns)
        /\ TablesOK(settingsRow, welcomeRow, logRow)
    BY DEF SavedInv, TablesOK
  <2>3. \A t \in Tasks :
          /\ editing[t] \in Edit
          /\ editing[t].at \in {"guild", "settings", "welcome", "logs", "premium", "own welcome"}
               => editing[t].copy # <<>>
    BY DEF SavedInv, EditOK
  <2>4. \A t \in Tasks : /\ editing[t].at \in Places /\ editing[t].alone \in BOOLEAN
                         /\ editing[t].copy \in Optional(Profile)
    BY <2>3 DEF Edit
  <2> HIDE DEF Edit, SavedInv
  <2>5. /\ Perhaps(Profile, profile) /\ Perhaps(Profile, durable)
        /\ Perhaps(Columns, settingsRow) /\ \A t \in Tasks : Perhaps(Profile, editing[t].copy)
    BY <2>1, <2>2, <2>4
  <2> QED BY <2>2, <2>3, <2>4, <2>5 DEF ProfileTypeOK, TablesOK
<1>2. ProfileInit => Counted
  BY DEF ProfileInit
<1>3. Counted /\ [ProfileNext]_profileVars => Counted'
  <2> SUFFICES ASSUME changes \in Nat, [ProfileNext]_profileVars
               PROVE  changes' \in Nat
    OBVIOUS
  <2>1. ASSUME NEW t, Issue(t)
        PROVE  changes' \in Nat
    BY <2>1 DEF Issue
  <2> QED BY <2>1 DEF ProfileNext, profileVars, ToggleDeafen, AllLogChannel, JoinLeaveLogChannel,
             GetAll, IdleTimeout, ChangePrefixes, WelcomeSettings, AutoRole, ChangeExisting,
             PasswordVerify, SetPremium, TakeCopy, WriteGuild, WriteSettings, WriteWelcome,
             WriteLogs, WriteOwnWelcome, WritePremium, Writes, EditFails, GuildMemberAddition,
             Greet, AddRole, RestartAndLoad
<1> HIDE DEF Counted
<1> QED BY <1>1, <1>2, <1>3, SavedInvInit, SavedInvNext, PTL DEF ProfileSpec

\* A save that ended well and that no other statement touched is what the next start loads,
\* whatever other commands do to the entry between the statements of the save.
THEOREM SavedProfilesLoad == ProfileSpec => []SavedProfileLoads
BY SavedLoads, SavedInvInit, SavedInvNext, PTL DEF ProfileSpec

-----------------------------------------------------------------------------
(* The cache of messages and clean *)

\* The messages that a command deleted, and those that may be deleted.
DeletedBy(sent, no) == {m \in 1..Len(sent) : sent[m].gone = no}
PastTime(entries, number, id) == {entries[id][i] : i \in 1..number[id]}

CacheOK(sent, entries, number, no) ==
    /\ sent \in Seq(Message)
    /\ entries \in [CacheIds -> Seq(Nat)]
    /\ number \in [CacheIds -> Nat]
    /\ no \in 0..MaxCommands
    /\ \A m \in 1..Len(sent) : sent[m].gone <= no \/ sent[m].gone = Others
    /\ \A id \in CacheIds :
         /\ number[id] <= Len(entries[id])
         /\ \A i \in 1..Len(entries[id]) :
              entries[id][i] \in 1..Len(sent) /\ sent[entries[id][i]].place = id

\* A clean that is under way, and one that has reported.
Cleans(job) == job.at \in {"sweep", "delete", "finish", "report"} \/ job.reported

\* The count is that of the messages which the clean has deleted; it is ahead by one while
\* the status names the next.
JobOK(job, sent, entries, number, no) ==
    /\ job \in Job /\ job.no <= no
    /\ job.at # "idle" =>
         /\ job.place \in CacheIds
         /\ job.message \in 1..Len(sent) /\ sent[job.message].place = job.place
    /\ Cleans(job) =>
         /\ job.no > 0 /\ job.place \in CacheIds
         /\ DeletedBy(sent, job.no) \subseteq PastTime(entries, number, job.place)
         /\ Cardinality(DeletedBy(sent, job.no)) = IF job.at = "delete" THEN job.count - 1
                                                   ELSE job.count
    /\ job.at = "delete" => job.left \in 1..number[job.place] /\ job.count > 0
    /\ job.at = "cache" => job.copies > 0
    /\ job.reported => job.at \in {"idle", "cache"}

\* The inductive invariant.  No two commands have the same number.
CleanInv ==
    /\ CacheOK(messages, cached, old, commands)
    /\ DOMAIN jobs = Tasks
    /\ \A t \in Tasks : JobOK(jobs[t], messages, cached, old, commands)
    /\ \A t, u \in Tasks : t # u /\ jobs[t].no = jobs[u].no => jobs[t].no = Here

-----------------------------------------------------------------------------
\* What may change beneath a job: messages that it did not delete itself, entries that
\* are put behind the others, entries that become old.
LEMMA JobKept ==
    ASSUME NEW job, NEW sent, NEW entries, NEW number, NEW no \in Nat,
           JobOK(job, sent, entries, number, no),
           NEW sent2, NEW entries2, NEW number2, NEW no2 \in Nat,
           Len(sent) \in Nat, Len(sent2) \in Nat, Len(sent2) >= Len(sent), no2 >= no,
           \A m \in 1..Len(sent) : sent2[m].place = sent[m].place,
           job.no > 0 => DeletedBy(sent2, job.no) = DeletedBy(sent, job.no),
           \A id \in CacheIds : PastTime(entries, number, id) \subseteq PastTime(entries2, number2, id),
           \A id \in CacheIds : number[id] \in Nat /\ number2[id] \in Nat /\ number2[id] >= number[id]
    PROVE  JobOK(job, sent2, entries2, number2, no2)
<1>1. job.at # "idle" =>
         /\ job.place \in CacheIds
         /\ job.message \in 1..Len(sent2) /\ sent2[job.message].place = job.place
  BY DEF JobOK
<1>2. Cleans(job) =>
         /\ job.no > 0 /\ job.place \in CacheIds
         /\ DeletedBy(sent2, job.no) \subseteq PastTime(entries2, number2, job.place)
         /\ Cardinality(DeletedBy(sent2, job.no)) = IF job.at = "delete" THEN job.count - 1
                                                    ELSE job.count
  BY DEF JobOK
<1>3. job.at = "delete" => job.left \in 1..number2[job.place] /\ job.count > 0
  BY <1>1 DEF JobOK
<1>4. job.no <= no2
  BY DEF JobOK, Job
<1> QED BY <1>1, <1>2, <1>3, <1>4 DEF JobOK

\* The messages that a command deleted can be counted.
LEMMA DeletedFinite ==
    ASSUME NEW sent, Len(sent) \in Nat, NEW no
    PROVE  IsFiniteSet(DeletedBy(sent, no)) /\ Cardinality(DeletedBy(sent, no)) \in Nat
<1>1. IsFiniteSet(1..Len(sent))
  BY FS_Interval
<1>2. DeletedBy(sent, no) \subseteq 1..Len(sent)
  BY DEF DeletedBy
<1>3. IsFiniteSet(DeletedBy(sent, no))
  BY <1>1, <1>2, FS_Subset
<1> QED BY <1>3, FS_CardinalityType

-----------------------------------------------------------------------------
(* The two ways in which messages change *)

Sent(sent, new) == Append(sent, new)
Gone(sent, m, by) == [sent EXCEPT ![m].gone = by]

\* One more message, which nobody has deleted.
LEMMA SendFacts ==
    ASSUME NEW entries, NEW number, NEW no, NEW sent, CacheOK(sent, entries, number, no),
           NEW new \in Message, new.gone = Here, NEW sent2, sent2 = Sent(sent, new)
    PROVE  /\ CacheOK(sent2, entries, number, no)
           /\ Len(sent) \in Nat /\ Len(sent2) = Len(sent) + 1
           /\ \A m \in 1..Len(sent) : sent2[m] = sent[m]
           /\ sent2[Len(sent) + 1] = new
           /\ \A n \in Nat : n > 0 => DeletedBy(sent2, n) = DeletedBy(sent, n)
<1>1. sent \in Seq(Message) /\ no \in Nat /\ new.gone = 0
  BY DEF CacheOK, Here
<1>2. /\ sent2 \in Seq(Message)
      /\ Len(sent) \in Nat /\ Len(sent2) = Len(sent) + 1
      /\ \A m \in 1..Len(sent) : sent2[m] = sent[m]
      /\ sent2[Len(sent) + 1] = new
  BY <1>1 DEF Sent
<1>3. \A m \in 1..Len(sent2) : sent2[m].gone <= no \/ sent2[m].gone = Others
  <2> SUFFICES ASSUME NEW m \in 1..Len(sent2)
               PROVE  sent2[m].gone <= no \/ sent2[m].gone = Others
    OBVIOUS
  <2>1. CASE m = Len(sent) + 1
    BY <1>1, <1>2, <2>1
  <2>2. CASE m \in 1..Len(sent)
    BY <1>2, <2>2 DEF CacheOK
  <2> QED BY <1>2, <2>1, <2>2
<1>4. \A id \in CacheIds : \A i \in 1..Len(entries[id]) :
        entries[id][i] \in 1..Len(sent2) /\ sent2[entries[id][i]].place = id
  BY <1>2 DEF CacheOK
<1>5. CacheOK(sent2, entries, number, no)
  BY <1>2, <1>3, <1>4 DEF CacheOK
<1>6. \A n \in Nat : n > 0 => DeletedBy(sent2, n) = DeletedBy(sent, n)
  <2> SUFFICES ASSUME NEW n \in Nat, n > 0
               PROVE  DeletedBy(sent2, n) = DeletedBy(sent, n)
    OBVIOUS
  <2>1. \A m \in 1..Len(sent2) : sent2[m].gone = n => m \in 1..Len(sent)
    BY <1>1, <1>2
  <2> QED BY <1>2, <2>1 DEF DeletedBy
<1> QED BY <1>1, <1>2, <1>5, <1>6

\* A message is deleted, and was deleted by nobody before.
LEMMA DeleteFacts ==
    ASSUME NEW entries, NEW number, NEW no, NEW sent, CacheOK(sent, entries, number, no),
           NEW m \in 1..Len(sent), sent[m].gone = Here, NEW by \in 0..Others,
           by <= no \/ by = Others, by > 0,
           NEW sent2, sent2 = Gone(sent, m, by)
    PROVE  /\ CacheOK(sent2, entries, number, no)
           /\ Len(sent) \in Nat /\ Len(sent2) = Len(sent)
           /\ \A k \in 1..Len(sent) : sent2[k].place = sent[k].place
           /\ \A n \in Nat : n > 0 /\ n # by => DeletedBy(sent2, n) = DeletedBy(sent, n)
           /\ m \notin DeletedBy(sent, by) /\ DeletedBy(sent2, by) = DeletedBy(sent, by) \union {m}
<1> DEFINE new == [sent[m] EXCEPT !.gone = by]
<1>1. sent \in Seq(Message) /\ Len(sent) \in Nat /\ sent[m] \in Message
  BY DEF CacheOK
<1>2. new \in Message /\ new.place = sent[m].place /\ new.gone = by
  BY <1>1 DEF Message
<1>3. sent2 = [sent EXCEPT ![m] = new]
  BY DEF Gone
<1> HIDE DEF new
<1>4. /\ sent2 \in Seq(Message) /\ Len(sent2) = Len(sent)
      /\ \A k \in 1..Len(sent) : sent2[k] = IF k = m THEN new ELSE sent[k]
  BY <1>1, <1>2, <1>3
<1>5. \A k \in 1..Len(sent) : sent2[k].place = sent[k].place
  BY <1>2, <1>4
<1>6. \A k \in 1..Len(sent2) : sent2[k].gone <= no \/ sent2[k].gone = Others
  BY <1>2, <1>4 DEF CacheOK
<1>7. CacheOK(sent2, entries, number, no)
  <2>1. \A id \in CacheIds : \A i \in 1..Len(entries[id]) :
          entries[id][i] \in 1..Len(sent2) /\ sent2[entries[id][i]].place = id
    BY <1>4, <1>5 DEF CacheOK
  <2> QED BY <1>4, <1>6, <2>1 DEF CacheOK
<1>8. \A k \in 1..Len(sent) : k # m => sent2[k].gone = sent[k].gone
  BY <1>4
<1>9. sent[m].gone = 0 /\ sent2[m].gone = by
  BY <1>2, <1>4 DEF Here
<1>10. \A n \in Nat : n > 0 /\ n # by => DeletedBy(sent2, n) = DeletedBy(sent, n)
  BY <1>4, <1>8, <1>9 DEF DeletedBy
<1>11. m \notin DeletedBy(sent, by) /\ DeletedBy(sent2, by) = DeletedBy(sent, by) \union {m}
  BY <1>4, <1>8, <1>9 DEF DeletedBy
<1> QED BY <1>1, <1>4, <1>5, <1>7, <1>10, <1>11

\* The numbers of the cache are numbers.
LEMMA SizesOK ==
    ASSUME CleanInv
    PROVE  /\ commands \in Nat /\ Len(messages) \in Nat
           /\ messages \in Seq(Message)
           /\ \A id \in CacheIds : old[id] \in Nat /\ Len(cached[id]) \in Nat
                                   /\ cached[id] \in Seq(Nat)
BY CommandsAssumption DEF CleanInv, CacheOK

\* One task moves, and the jobs of the others fit the cache that it leaves.
LEMMA JobsMove ==
    ASSUME CleanInv, NEW t \in Tasks, NEW next,
           JobOK(next, messages', cached', old', commands'),
           \A u \in Tasks : u # t => JobOK(jobs[u], messages', cached', old', commands'),
           CacheOK(messages', cached', old', commands'),
           jobs' = [jobs EXCEPT ![t] = next],
           next.no = Here \/ next.no = jobs[t].no \/ next.no > commands
    PROVE  CleanInv'
<1>1. \A u \in Tasks : jobs'[u] = IF u = t THEN next ELSE jobs[u]
  BY DEF CleanInv
<1>2. \A u \in Tasks : JobOK(jobs'[u], messages', cached', old', commands')
  BY <1>1
<1>3. DOMAIN jobs' = Tasks
  BY DEF CleanInv
<1>4. \A u \in Tasks : jobs[u].no <= commands /\ jobs[u].no \in Nat
  BY CommandsAssumption DEF CleanInv, JobOK, Job
<1>5. commands \in Nat
  BY SizesOK
<1>6. \A u, v \in Tasks : u # v /\ jobs'[u].no = jobs'[v].no => jobs'[u].no = Here
  <2>1. ASSUME NEW u \in Tasks, u # t, jobs[u].no = next.no
        PROVE  next.no = Here
    BY <1>4, <1>5, <2>1 DEF CleanInv
  <2> QED BY <1>1, <2>1 DEF CleanInv
<1> QED BY <1>2, <1>3, <1>6 DEF CleanInv

\* The jobs of the others when nothing but messages that they did not delete, new entries
\* and the age of entries changes.
LEMMA OthersKept ==
    ASSUME CleanInv, NEW S \in SUBSET Tasks,
           Len(messages') \in Nat, Len(messages') >= Len(messages),
           commands' \in Nat, commands' >= commands,
           \A m \in 1..Len(messages) : messages'[m].place = messages[m].place,
           \A u \in S : jobs[u].no > 0 =>
              DeletedBy(messages', jobs[u].no) = DeletedBy(messages, jobs[u].no),
           \A id \in CacheIds : PastTime(cached, old, id) \subseteq PastTime(cached', old', id),
           \A id \in CacheIds : old'[id] \in Nat /\ old'[id] >= old[id]
    PROVE  \A u \in S : JobOK(jobs[u], messages', cached', old', commands')
<1> SUFFICES ASSUME NEW u \in S
             PROVE  JobOK(jobs[u], messages', cached', old', commands')
  OBVIOUS
<1>1. JobOK(jobs[u], messages, cached, old, commands)
  BY DEF CleanInv
<1>2. \A id \in CacheIds : old[id] \in Nat /\ old'[id] \in Nat /\ old'[id] >= old[id]
  BY SizesOK
<1> QED BY <1>1, <1>2, SizesOK, JobKept

\* A task without a job.
LEMMA NoJobOK ==
    ASSUME NEW sent, NEW entries, NEW number, NEW no \in Nat
    PROVE  JobOK(NoJob, sent, entries, number, no) /\ NoJob.no = Here
BY CommandsAssumption DEF JobOK, NoJob, Job, Cleans, Here

\* A step that changes nothing but its own job.
LEMMA OnlyJob ==
    ASSUME CleanInv, NEW t \in Tasks, NEW next, JobOK(next, messages, cached, old, commands),
           Turn(t, next), UNCHANGED <<messages, cached, old, commands>>,
           next.no = Here \/ next.no = jobs[t].no
    PROVE  CleanInv'
<1>1. /\ JobOK(next, messages', cached', old', commands')
      /\ CacheOK(messages', cached', old', commands')
      /\ \A u \in Tasks : JobOK(jobs[u], messages', cached', old', commands')
  BY DEF CleanInv
<1> QED BY <1>1, JobsMove DEF Turn

\* A command ends; a clean that has reported is remembered.
LEMMA DropOK ==
    ASSUME NEW job, NEW sent, NEW entries, NEW number, NEW no \in Nat,
           JobOK(job, sent, entries, number, no),
           NEW next, next = IF job.reported THEN [job EXCEPT !.at = "idle"] ELSE NoJob
    PROVE  /\ JobOK(next, sent, entries, number, no)
           /\ next.no = Here \/ next.no = job.no
<1>1. CASE job.reported
  <2>1. next = [job EXCEPT !.at = "idle"]
    BY <1>1
  <2>2. next \in Job /\ next.at = "idle" /\ next.no = job.no /\ next.place = job.place
        /\ next.count = job.count /\ next.reported
    BY <1>1, <2>1 DEF JobOK, Job
  <2> QED BY <1>1, <2>2 DEF JobOK, Cleans
<1>2. CASE ~job.reported
  BY <1>2, NoJobOK
<1> QED BY <1>1, <1>2

-----------------------------------------------------------------------------
\* The next command has deleted nothing.
LEMMA NewNumber ==
    ASSUME NEW entries, NEW number, NEW no, NEW sent, CacheOK(sent, entries, number, no),
           no < MaxCommands
    PROVE  /\ CacheOK(sent, entries, number, no + 1)
           /\ DeletedBy(sent, no + 1) = {} /\ Cardinality(DeletedBy(sent, no + 1)) = 0
<1>1. no \in Nat /\ no + 1 \in 0..MaxCommands /\ MaxCommands \in Nat /\ Others = MaxCommands + 1
  BY CommandsAssumption DEF CacheOK, Others
<1>2. \A m \in 1..Len(sent) : sent[m] \in Message
  BY DEF CacheOK
<1>3. \A m \in 1..Len(sent) : sent[m].gone \in 0..Others
  BY <1>2 DEF Message
<1>4. \A m \in 1..Len(sent) : sent[m].gone <= no \/ sent[m].gone = Others
  BY DEF CacheOK
<1>5. \A m \in 1..Len(sent) : /\ sent[m].gone <= no + 1 \/ sent[m].gone = Others
                              /\ sent[m].gone # no + 1
  BY <1>1, <1>3, <1>4
<1>6. DeletedBy(sent, no + 1) = {}
  BY <1>5 DEF DeletedBy
<1> QED BY <1>1, <1>5, <1>6, FS_EmptySet DEF CacheOK

\* The jobs that commands start with.
CachingJob(no, place, message, copies) ==
    [NoJob EXCEPT !.at = "cache", !.no = no, !.place = place, !.message = message,
                  !.copies = copies]
SweepJob(no, place, message, left) ==
    [NoJob EXCEPT !.at = "sweep", !.no = no, !.place = place, !.message = message,
                  !.left = left]

\* The job of a command that has sent a message.
LEMMA CachingJobFacts ==
    ASSUME NEW no \in 0..MaxCommands, NEW place \in CacheIds, NEW message \in Nat,
           NEW copies \in Nat, NEW new, new = CachingJob(no, place, message, copies)
    PROVE  /\ new \in Job /\ new.no = no /\ new.place = place /\ new.message = message
           /\ new.copies = copies /\ ~new.reported /\ new.at = "cache"
BY DEF NoJob, Job, CachingJob

\* The job of a clean that has sent its status.
LEMMA SweepJobFacts ==
    ASSUME NEW no \in 0..MaxCommands, NEW place \in CacheIds, NEW message \in Nat,
           NEW left \in Nat, NEW new, new = SweepJob(no, place, message, left)
    PROVE  /\ new \in Job /\ new.no = no /\ new.place = place /\ new.message = message
           /\ new.count = 0 /\ ~new.reported /\ new.at = "sweep"
BY DEF NoJob, Job, SweepJob

\* A command starts and sends a message.
LEMMA StartSends ==
    ASSUME CleanInv, NEW place \in CacheIds, Start, Send(place), UNCHANGED <<cached, old>>
    PROVE  /\ CacheOK(messages', cached', old', commands')
           /\ \A u \in Tasks : JobOK(jobs[u], messages', cached', old', commands')
           /\ Len(messages) \in Nat /\ Len(messages') = Len(messages) + 1
           /\ messages'[Len(messages) + 1].place = place
           /\ commands \in Nat /\ commands' = commands + 1 /\ commands' \in 0..MaxCommands
           /\ DeletedBy(messages', commands') = {}
           /\ Cardinality(DeletedBy(messages', commands')) = 0
<1> DEFINE sent2 == messages'
           new == [place |-> place, gone |-> Here]
<1>1. /\ CacheOK(messages, cached, old, commands)
      /\ sent2 = Sent(messages, new)
      /\ new \in Message /\ new.gone = Here /\ new.place = place
  BY CommandsAssumption DEF CleanInv, Send, Sent, Message, Here, Others
<1>2. commands \in Nat /\ commands < MaxCommands /\ commands' = commands + 1
      /\ commands' \in 0..MaxCommands
  BY SizesOK, CommandsAssumption DEF Start
<1> HIDE DEF sent2, new
<1>3. /\ CacheOK(sent2, cached, old, commands)
      /\ Len(messages) \in Nat /\ Len(sent2) = Len(messages) + 1
      /\ \A m \in 1..Len(messages) : sent2[m] = messages[m]
      /\ sent2[Len(messages) + 1] = new
      /\ \A n \in Nat : n > 0 => DeletedBy(sent2, n) = DeletedBy(messages, n)
  BY <1>1, SendFacts
<1>4. /\ CacheOK(sent2, cached, old, commands + 1)
      /\ DeletedBy(sent2, commands + 1) = {}
      /\ Cardinality(DeletedBy(sent2, commands + 1)) = 0
  BY <1>2, <1>3, NewNumber
<1>5. \A u \in Tasks : jobs[u].no \in Nat
  BY DEF CleanInv, JobOK, Job
<1>6. cached' = cached /\ old' = old /\ \A id \in CacheIds : old[id] \in Nat
  BY SizesOK
<1>7. \A u \in Tasks : JobOK(jobs[u], messages', cached', old', commands')
  BY <1>2, <1>3, <1>5, <1>6, OthersKept DEF sent2
<1> QED BY <1>1, <1>2, <1>3, <1>4, <1>6, <1>7 DEF sent2

\* Each step of a command keeps the invariant.
LEMMA SendMessageKeeps ==
    ASSUME CleanInv, NEW t \in Tasks, NEW place \in CacheIds, NEW how \in {"say", "reply", "skip"},
           SendMessage(t, place, how)
    PROVE  CleanInv'
<1> DEFINE new == CachingJob(commands + 1, place, Len(messages) + 1, Copies(how))
<1>1. Start /\ Send(place) /\ UNCHANGED <<cached, old>>
  BY DEF SendMessage
<1>2. /\ CacheOK(messages', cached', old', commands')
      /\ \A u \in Tasks : JobOK(jobs[u], messages', cached', old', commands')
      /\ Len(messages) \in Nat /\ Len(messages') = Len(messages) + 1
      /\ messages'[Len(messages) + 1].place = place
      /\ commands \in Nat /\ commands' = commands + 1 /\ commands' \in 0..MaxCommands
  BY <1>1, StartSends
<1>3. CASE Copies(how) = 0
  <2>1. jobs' = [jobs EXCEPT ![t] = NoJob]
    BY <1>3 DEF SendMessage, Turn
  <2>2. commands' \in Nat
    BY <1>2
  <2> QED BY <1>2, <2>1, <2>2, NoJobOK, JobsMove
<1>4. CASE Copies(how) # 0
  <2>1. jobs' = [jobs EXCEPT ![t] = new]
    BY <1>4 DEF SendMessage, Turn, CachingJob
  <2>2. Copies(how) \in Nat /\ Copies(how) > 0
    BY <1>4 DEF Copies
  <2>3. commands + 1 \in 0..MaxCommands /\ Len(messages) + 1 \in Nat
    BY <1>2
  <2>4. /\ new \in Job /\ new.no = commands + 1 /\ new.place = place
        /\ new.message = Len(messages) + 1
        /\ new.at = "cache" /\ new.copies = Copies(how) /\ ~new.reported
    BY <2>2, <2>3, CachingJobFacts
  <2> HIDE DEF new
  <2>5. JobOK(new, messages', cached', old', commands')
    BY <1>2, <2>2, <2>4 DEF JobOK, Cleans
  <2>6. new.no > commands
    BY <1>2, <2>4
  <2> QED BY <1>2, <2>1, <2>5, <2>6, JobsMove
<1> QED BY <1>3, <1>4

\* clean takes a number of its own.
LEMMA CleanKeeps ==
    ASSUME CleanInv, NEW t \in Tasks, NEW g \in Guilds, Clean(t, g)
    PROVE  CleanInv'
<1> DEFINE new == SweepJob(commands + 1, g, Len(messages) + 1, Len(cached[g]))
<1>1. Start /\ UNCHANGED <<cached, old>> /\ g \in CacheIds
  BY DEF Clean, CacheIds
<1>2. CASE cached[g] = <<>>
  <2>1. UNCHANGED <<messages, jobs>>
    BY <1>2 DEF Clean
  <2>2. CacheOK(messages, cached, old, commands) /\ commands < MaxCommands
        /\ commands' = commands + 1 /\ commands \in Nat
    BY <1>1, SizesOK DEF CleanInv, Start
  <2>3. CacheOK(messages, cached, old, commands + 1)
    BY <2>2, NewNumber
  <2>4. \A u \in Tasks : JobOK(jobs[u], messages', cached', old', commands')
    BY <1>1, <2>1, <2>2, SizesOK, OthersKept
  <2> QED BY <1>1, <2>1, <2>2, <2>3, <2>4 DEF CleanInv
<1>3. CASE cached[g] # <<>>
  <2>1. Send(g) /\ jobs' = [jobs EXCEPT ![t] = new]
    BY <1>3 DEF Clean, Turn, SweepJob
  <2>2. /\ CacheOK(messages', cached', old', commands')
        /\ \A u \in Tasks : JobOK(jobs[u], messages', cached', old', commands')
        /\ Len(messages) \in Nat /\ Len(messages') = Len(messages) + 1
        /\ messages'[Len(messages) + 1].place = g
        /\ commands \in Nat /\ commands' = commands + 1 /\ commands' \in 0..MaxCommands
        /\ DeletedBy(messages', commands') = {}
        /\ Cardinality(DeletedBy(messages', commands')) = 0
    BY <1>1, <2>1, StartSends
  <2>3. commands + 1 \in 0..MaxCommands /\ Len(messages) + 1 \in Nat /\ Len(cached[g]) \in Nat
    BY <1>1, <2>2, SizesOK
  <2>4. /\ new \in Job /\ new.no = commands + 1 /\ new.place = g
        /\ new.message = Len(messages) + 1 /\ new.count = 0
        /\ new.at = "sweep" /\ ~new.reported
    BY <1>1, <2>3, SweepJobFacts
  <2> HIDE DEF new
  <2>5. JobOK(new, messages', cached', old', commands')
    BY <1>1, <2>2, <2>4 DEF JobOK, Cleans
  <2>6. new.no > commands
    BY <2>2, <2>4
  <2> QED BY <2>1, <2>2, <2>5, <2>6, JobsMove
<1> QED BY <1>2, <1>3

\* Steps of a job that leave the messages and the cache alone.
LEMMA FinishOK ==
    ASSUME NEW job, NEW sent, NEW entries, NEW number, NEW no,
           JobOK(job, sent, entries, number, no), job.at = "sweep"
    PROVE  JobOK([job EXCEPT !.at = "finish"], sent, entries, number, no)
<1> DEFINE next == [job EXCEPT !.at = "finish"]
<1>1. job \in Job /\ ~job.reported
  BY DEF JobOK
<1>2. /\ next \in Job /\ next.at = "finish" /\ next.no = job.no /\ next.place = job.place
      /\ next.count = job.count /\ next.reported = job.reported /\ next.message = job.message
  BY <1>1 DEF Job
<1> HIDE DEF next
<1>3. JobOK(next, sent, entries, number, no)
  BY <1>1, <1>2 DEF JobOK, Cleans
<1> QED BY <1>3 DEF next

Named(job) == [job EXCEPT !.at = "delete", !.count = @ + 1]
Swept(job) == [job EXCEPT !.at = "sweep", !.left = @ - 1]

\* The status names the next message, and counts it.
LEMMA NamedFacts ==
    ASSUME NEW job \in Job
    PROVE  /\ Named(job) \in Job /\ Named(job).at = "delete" /\ Named(job).no = job.no
           /\ Named(job).place = job.place /\ Named(job).count = job.count + 1
           /\ Named(job).reported = job.reported /\ Named(job).message = job.message
           /\ Named(job).left = job.left
<1> DEFINE c == job.count + 1
<1>1. c \in Nat
  BY DEF Job
<1>2. Named(job) = [job EXCEPT !.at = "delete", !.count = c]
  BY DEF Named
<1> HIDE DEF c
<1>3. /\ Named(job) \in Job /\ Named(job).at = "delete" /\ Named(job).no = job.no
      /\ Named(job).place = job.place /\ Named(job).count = c
      /\ Named(job).reported = job.reported /\ Named(job).message = job.message
      /\ Named(job).left = job.left
  BY <1>1, <1>2 DEF Job
<1> QED BY <1>3 DEF c

\* The message is gone.
LEMMA SweptFacts ==
    ASSUME NEW job \in Job, job.left > 0
    PROVE  /\ Swept(job) \in Job /\ Swept(job).at = "sweep" /\ Swept(job).no = job.no
           /\ Swept(job).place = job.place /\ Swept(job).count = job.count
           /\ Swept(job).reported = job.reported /\ Swept(job).message = job.message
<1> DEFINE l == job.left - 1
<1>1. l \in Nat
  BY DEF Job
<1>2. Swept(job) = [job EXCEPT !.at = "sweep", !.left = l]
  BY DEF Swept
<1> HIDE DEF l
<1> QED BY <1>1, <1>2 DEF Job

\* The count is ahead of the messages by the one that is named.
LEMMA NamedOK ==
    ASSUME NEW job, NEW sent, NEW entries, NEW number, NEW no,
           JobOK(job, sent, entries, number, no), job.at = "sweep",
           job.left \in 1..number[job.place]
    PROVE  JobOK(Named(job), sent, entries, number, no)
<1> DEFINE next == Named(job)
<1>1. job \in Job /\ ~job.reported /\ job.count \in Nat
  BY DEF JobOK, Job
<1>2. /\ next \in Job /\ next.at = "delete" /\ next.no = job.no /\ next.place = job.place
      /\ next.count = job.count + 1 /\ next.reported = job.reported
      /\ next.message = job.message /\ next.left = job.left
  BY <1>1, NamedFacts
<1> HIDE DEF next
<1>3. next.count > 0 /\ next.count - 1 = job.count
  BY <1>1, <1>2
<1>4. JobOK(next, sent, entries, number, no)
  BY <1>1, <1>2, <1>3 DEF JobOK, Cleans
<1> QED BY <1>4 DEF next

\* The message that was named is deleted: the count is right again.
LEMMA SweptOK ==
    ASSUME NEW job, NEW sent, NEW entries, NEW number, NEW no, Len(sent) \in Nat,
           JobOK(job, sent, entries, number, no), job.at = "delete",
           NEW m, m = entries[job.place][job.left],
           NEW sent2, Len(sent2) = Len(sent),
           \A k \in 1..Len(sent) : sent2[k].place = sent[k].place,
           m \notin DeletedBy(sent, job.no),
           DeletedBy(sent2, job.no) = DeletedBy(sent, job.no) \union {m}
    PROVE  JobOK(Swept(job), sent2, entries, number, no)
<1> DEFINE next == Swept(job)
<1>1. job \in Job /\ ~job.reported /\ job.count \in Nat /\ job.left \in Nat /\ job.left > 0
  BY DEF JobOK, Job
<1>2. /\ next \in Job /\ next.at = "sweep" /\ next.no = job.no /\ next.place = job.place
      /\ next.count = job.count /\ next.reported = job.reported
      /\ next.message = job.message
  BY <1>1, SweptFacts
<1> HIDE DEF next
<1>3. /\ Cardinality(DeletedBy(sent, job.no)) = job.count - 1
      /\ DeletedBy(sent, job.no) \subseteq PastTime(entries, number, job.place)
      /\ job.left \in 1..number[job.place]
  BY DEF JobOK, Cleans
<1>4. Cardinality(DeletedBy(sent2, job.no)) = job.count
  <2>1. IsFiniteSet(DeletedBy(sent, job.no))
    BY DeletedFinite
  <2>2. Cardinality(DeletedBy(sent, job.no) \union {m}) = Cardinality(DeletedBy(sent, job.no)) + 1
    BY <2>1, FS_AddElement
  <2> QED BY <1>1, <1>3, <2>2
<1>5. DeletedBy(sent2, job.no) \subseteq PastTime(entries, number, job.place)
  BY <1>3 DEF PastTime
<1>6. JobOK(next, sent2, entries, number, no)
  BY <1>1, <1>2, <1>4, <1>5 DEF JobOK, Cleans
<1> QED BY <1>6 DEF next

\* The status is no longer needed.
LEMMA ReportNextOK ==
    ASSUME NEW job, NEW sent, NEW entries, NEW number, NEW no,
           JobOK(job, sent, entries, number, no), job.at = "finish"
    PROVE  JobOK([job EXCEPT !.at = "report"], sent, entries, number, no)
<1> DEFINE next == [job EXCEPT !.at = "report"]
<1>1. job \in Job /\ ~job.reported
  BY DEF JobOK
<1>2. /\ next \in Job /\ next.at = "report" /\ next.no = job.no /\ next.place = job.place
      /\ next.count = job.count /\ next.reported = job.reported /\ next.message = job.message
  BY <1>1 DEF Job
<1> HIDE DEF next
<1>3. JobOK(next, sent, entries, number, no)
  BY <1>1, <1>2 DEF JobOK, Cleans
<1> QED BY <1>3 DEF next

\* The report is sent, and is cached itself.
LEMMA ReportedOK ==
    ASSUME NEW job, NEW sent, NEW entries, NEW number, NEW no,
           JobOK(job, sent, entries, number, no), job.at = "report",
           NEW message \in 1..Len(sent), sent[message].place = job.place
    PROVE  JobOK([job EXCEPT !.at = "cache", !.copies = 1, !.message = message,
                             !.reported = TRUE], sent, entries, number, no)
<1> DEFINE next == [job EXCEPT !.at = "cache", !.copies = 1, !.message = message,
                               !.reported = TRUE]
<1>1. job \in Job /\ ~job.reported /\ message \in Nat
  BY DEF JobOK
<1>2. /\ next \in Job /\ next.at = "cache" /\ next.no = job.no /\ next.place = job.place
      /\ next.count = job.count /\ next.reported /\ next.message = message /\ next.copies = 1
  BY <1>1 DEF Job
<1> HIDE DEF next
<1>3. JobOK(next, sent, entries, number, no)
  BY <1>1, <1>2 DEF JobOK, Cleans
<1> QED BY <1>3 DEF next

\* A message is cached as often as the command says.
LEMMA OnceMoreOK ==
    ASSUME NEW job, NEW sent, NEW entries, NEW number, NEW no,
           JobOK(job, sent, entries, number, no), job.at = "cache", job.copies # 1
    PROVE  JobOK([job EXCEPT !.copies = @ - 1], sent, entries, number, no)
<1> DEFINE next == [job EXCEPT !.copies = @ - 1]
<1>1. job \in Job /\ job.copies \in Nat /\ job.copies > 0
  BY DEF JobOK, Job
<1>2. /\ next \in Job /\ next.at = "cache" /\ next.no = job.no /\ next.place = job.place
      /\ next.count = job.count /\ next.reported = job.reported /\ next.message = job.message
      /\ next.copies > 0
  BY <1>1 DEF Job
<1> HIDE DEF next
<1>3. JobOK(next, sent, entries, number, no)
  BY <1>1, <1>2 DEF JobOK, Cleans
<1> QED BY <1>3 DEF next

-----------------------------------------------------------------------------
\* A job keeps its number.
LEMMA SameNo ==
    ASSUME NEW job \in Job
    PROVE  /\ [job EXCEPT !.at = "finish"].no = job.no
           /\ [job EXCEPT !.at = "report"].no = job.no
           /\ [job EXCEPT !.copies = @ - 1].no = job.no
           /\ \A m \in Nat : [job EXCEPT !.at = "cache", !.copies = 1, !.message = m,
                                         !.reported = TRUE].no = job.no
BY DEF Job

\* Steps that send and delete nothing.
LEMMA QuietTurnsKeep ==
    ASSUME CleanInv, NEW t \in Tasks, SweepEnds(t) \/ EditStatus(t) \/ IntoMessageFails(t) \/ Refused(t)
    PROVE  CleanInv'
<1> DEFINE job == jobs[t]
<1>1. JobOK(job, messages, cached, old, commands) /\ commands \in Nat
  BY SizesOK DEF CleanInv
<1>2. job \in Job /\ job.place \in CacheIds \union {None} /\ job.left \in Nat
  BY <1>1 DEF JobOK, Job
<1>3. CASE SweepEnds(t)
  <2>1. JobOK([job EXCEPT !.at = "finish"], messages, cached, old, commands)
    BY <1>1, <1>3, FinishOK DEF SweepEnds, JobAt
  <2> QED BY <1>2, <1>3, <2>1, SameNo, OnlyJob DEF SweepEnds
<1>4. CASE EditStatus(t)
  <2>1. job.at = "sweep" /\ job.place \in CacheIds
    BY <1>1, <1>4 DEF EditStatus, JobAt, JobOK
  <2>2. job.left \in 1..old[job.place]
    BY <1>2, <1>4, <2>1, SizesOK DEF EditStatus, IsOld
  <2>3. JobOK(Named(job), messages, cached, old, commands)
    BY <1>1, <2>1, <2>2, NamedOK
  <2>4. Turn(t, Named(job)) /\ UNCHANGED <<messages, cached, old, commands>>
    BY <1>4 DEF EditStatus, Named
  <2> QED BY <1>2, <2>3, <2>4, NamedFacts, OnlyJob
<1>5. CASE IntoMessageFails(t) \/ Refused(t)
  <2> DEFINE next == IF job.reported THEN [job EXCEPT !.at = "idle"] ELSE NoJob
  <2>1. Turn(t, next) /\ UNCHANGED <<messages, cached, old, commands>>
    BY <1>5 DEF IntoMessageFails, Refused, Drops
  <2>2. JobOK(next, messages, cached, old, commands) /\ (next.no = Here \/ next.no = job.no)
    BY <1>1, DropOK
  <2> HIDE DEF next
  <2> QED BY <2>1, <2>2, OnlyJob
<1> QED BY <1>3, <1>4, <1>5

\* Somebody deletes a message that is there; the counts of all who did not are right still.
LEMMA DeletionKeepsOthers ==
    ASSUME CleanInv, NEW m \in 1..Len(messages), messages[m].gone = Here,
           NEW by \in 0..Others, by <= commands \/ by = Others, by > 0,
           Delete(m, by), UNCHANGED <<cached, old, commands>>
    PROVE  /\ CacheOK(messages', cached', old', commands')
           /\ \A u \in Tasks : jobs[u].no # by =>
                JobOK(jobs[u], messages', cached', old', commands')
           /\ Len(messages') = Len(messages)
           /\ \A k \in 1..Len(messages) : messages'[k].place = messages[k].place
           /\ m \notin DeletedBy(messages, by)
           /\ DeletedBy(messages', by) = DeletedBy(messages, by) \union {m}
<1> DEFINE sent2 == messages'
<1>1. CacheOK(messages, cached, old, commands) /\ sent2 = Gone(messages, m, by)
  BY DEF CleanInv, Delete, Gone
<1>2. /\ cached' = cached /\ old' = old /\ commands' = commands /\ commands \in Nat
      /\ \A id \in CacheIds : old[id] \in Nat
  BY SizesOK
<1> HIDE DEF sent2
<1>3. /\ CacheOK(sent2, cached, old, commands)
      /\ Len(messages) \in Nat /\ Len(sent2) = Len(messages)
      /\ \A k \in 1..Len(messages) : sent2[k].place = messages[k].place
      /\ \A n \in Nat : n > 0 /\ n # by => DeletedBy(sent2, n) = DeletedBy(messages, n)
      /\ m \notin DeletedBy(messages, by)
      /\ DeletedBy(sent2, by) = DeletedBy(messages, by) \union {m}
  BY <1>1, DeleteFacts
<1> DEFINE S == {u \in Tasks : jobs[u].no # by}
<1>4. \A u \in S : jobs[u].no > 0 => DeletedBy(sent2, jobs[u].no) = DeletedBy(messages, jobs[u].no)
  <2>1. \A u \in S : jobs[u].no \in Nat
    BY DEF CleanInv, JobOK, Job
  <2> QED BY <1>3, <2>1
<1>5. S \in SUBSET Tasks
  OBVIOUS
<1> HIDE DEF S
<1>6. \A u \in S : JobOK(jobs[u], messages', cached', old', commands')
  BY <1>2, <1>3, <1>4, <1>5, OthersKept DEF sent2
<1> QED BY <1>2, <1>3, <1>6 DEF sent2, S

\* The number of a command is not that of anybody else.
LEMMA NumbersFit ==
    ASSUME CleanInv, NEW t \in Tasks
    PROVE  /\ Others \in 0..Others /\ Others > 0 /\ jobs[t].no # Others
           /\ jobs[t].no \in 0..Others /\ jobs[t].no <= commands /\ jobs[t].no \in Nat
BY CommandsAssumption DEF CleanInv, JobOK, Job, Others

\* clean deletes the message that its status names.
LEMMA DeleteOldKeeps ==
    ASSUME CleanInv, NEW t \in Tasks, DeleteOld(t)
    PROVE  CleanInv'
<1> DEFINE job == jobs[t]
           m == cached[job.place][job.left]
<1>1. /\ JobOK(job, messages, cached, old, commands) /\ job.at = "delete" /\ job \in Job
      /\ CacheOK(messages, cached, old, commands)
  BY DEF CleanInv, DeleteOld, JobAt, JobOK
<1>2. job.place \in CacheIds /\ job.no > 0 /\ job.left \in 1..old[job.place]
  BY <1>1 DEF JobOK, Cleans
<1>3. job.left \in 1..Len(cached[job.place])
  BY <1>2, SizesOK DEF CleanInv, CacheOK
<1>4. m \in 1..Len(messages)
  BY <1>1, <1>2, <1>3 DEF CacheOK
<1>5. /\ messages[m].gone = Here /\ Delete(m, job.no) /\ Turn(t, Swept(job))
      /\ UNCHANGED <<cached, old, commands>>
  BY DEF DeleteOld, Swept
<1>6. /\ CacheOK(messages', cached', old', commands')
      /\ \A u \in Tasks : jobs[u].no # job.no =>
           JobOK(jobs[u], messages', cached', old', commands')
      /\ Len(messages') = Len(messages) /\ Len(messages) \in Nat
      /\ \A k \in 1..Len(messages) : messages'[k].place = messages[k].place
      /\ m \notin DeletedBy(messages, job.no)
      /\ DeletedBy(messages', job.no) = DeletedBy(messages, job.no) \union {m}
  BY <1>2, <1>4, <1>5, NumbersFit, DeletionKeepsOthers, SizesOK
<1>7. JobOK(Swept(job), messages', cached, old, commands)
  BY <1>1, <1>6, SweptOK
<1>8. \A u \in Tasks : u # t => jobs[u].no # job.no
  BY <1>2 DEF CleanInv, Here
<1>9. Swept(job).no = job.no
  BY <1>1, <1>2, SweptFacts
<1>10. jobs' = [jobs EXCEPT ![t] = Swept(job)] /\ JobOK(Swept(job), messages', cached', old', commands')
  BY <1>5, <1>7 DEF Turn
<1> HIDE DEF m
<1> QED BY <1>6, <1>8, <1>9, <1>10, JobsMove

\* A moderator deletes a message.
LEMMA ModerateKeeps ==
    ASSUME CleanInv, NEW m \in DOMAIN messages, Moderate(m)
    PROVE  CleanInv'
<1>1. m \in 1..Len(messages)
  BY SizesOK
<1>2. \A u \in Tasks : jobs[u].no # Others
  BY NumbersFit
<1>3. Others \in 0..Others /\ Others > 0
  BY CommandsAssumption DEF Others
<1>4. /\ CacheOK(messages', cached', old', commands')
      /\ \A u \in Tasks : JobOK(jobs[u], messages', cached', old', commands')
  BY <1>1, <1>2, <1>3, DeletionKeepsOthers DEF Moderate
<1> QED BY <1>4 DEF Moderate, CleanInv

\* clean deletes its status: it is newer than all that may be deleted.
LEMMA DeleteStatusKeeps ==
    ASSUME CleanInv, NEW t \in Tasks, DeleteStatus(t)
    PROVE  CleanInv'
<1> DEFINE job == jobs[t]
           next == [job EXCEPT !.at = "report"]
<1>1. /\ JobOK(job, messages, cached, old, commands) /\ job.at = "finish" /\ job \in Job
      /\ job.message \in 1..Len(messages)
  BY DEF CleanInv, DeleteStatus, JobAt, JobOK
<1>2. \A u \in Tasks : jobs[u].no # Others
  BY NumbersFit
<1>3. Others \in 0..Others /\ Others > 0
  BY CommandsAssumption DEF Others
<1>4. JobOK(next, messages, cached, old, commands)
  BY <1>1, ReportNextOK
<1>5. next.no = job.no
  BY <1>1, SameNo
<1>6. /\ messages[job.message].gone = Here /\ Delete(job.message, Others)
      /\ jobs' = [jobs EXCEPT ![t] = next] /\ UNCHANGED <<cached, old, commands>>
  BY DEF DeleteStatus, Turn
<1> HIDE DEF next
<1>7. /\ CacheOK(messages', cached', old', commands')
      /\ \A u \in Tasks : JobOK(jobs[u], messages', cached', old', commands')
      /\ Len(messages') = Len(messages) /\ Len(messages) \in Nat
      /\ \A k \in 1..Len(messages) : messages'[k].place = messages[k].place
  BY <1>1, <1>2, <1>3, <1>6, DeletionKeepsOthers, SizesOK
<1>8. JobOK(job, messages', cached', old', commands')
  BY <1>7
<1>9. JobOK(next, messages', cached', old', commands')
  BY <1>1, <1>8, ReportNextOK DEF next
<1> QED BY <1>5, <1>6, <1>7, <1>9, JobsMove

\* clean sends its report.
LEMMA ReportKeeps ==
    ASSUME CleanInv, NEW t \in Tasks, Report(t)
    PROVE  CleanInv'
<1> DEFINE job == jobs[t]
           message == Len(messages) + 1
           next == [job EXCEPT !.at = "cache", !.copies = 1, !.message = message,
                               !.reported = TRUE]
           sent2 == messages'
           new == [place |-> job.place, gone |-> Here]
<1>1. /\ JobOK(job, messages, cached, old, commands) /\ job.at = "report" /\ job \in Job
      /\ job.place \in CacheIds /\ CacheOK(messages, cached, old, commands)
  BY DEF CleanInv, Report, JobAt, JobOK
<1>2. /\ jobs' = [jobs EXCEPT ![t] = next] /\ UNCHANGED <<cached, old, commands>>
      /\ sent2 = Sent(messages, new)
  BY DEF Report, Turn, Send, Sent
<1>3. new \in Message /\ new.gone = Here /\ new.place = job.place
  BY <1>1, CommandsAssumption DEF Message, Here, Others
<1>4. message \in Nat
  BY SizesOK
<1>5. next.no = job.no
  <2> HIDE DEF message
  <2> QED BY <1>1, <1>4, SameNo
<1> HIDE DEF sent2, new, next
<1>6. /\ CacheOK(sent2, cached, old, commands)
      /\ Len(messages) \in Nat /\ Len(sent2) = Len(messages) + 1
      /\ \A m \in 1..Len(messages) : sent2[m] = messages[m]
      /\ sent2[Len(messages) + 1] = new
      /\ \A n \in Nat : n > 0 => DeletedBy(sent2, n) = DeletedBy(messages, n)
  BY <1>1, <1>2, <1>3, SendFacts
<1>7. \A u \in Tasks : jobs[u].no \in Nat
  BY NumbersFit
<1>8. /\ cached' = cached /\ old' = old /\ commands' = commands /\ commands \in Nat
      /\ \A id \in CacheIds : old[id] \in Nat
  BY <1>2, SizesOK
<1>9. \A u \in Tasks : JobOK(jobs[u], messages', cached', old', commands')
  BY <1>6, <1>7, <1>8, OthersKept DEF sent2
<1>10. JobOK(job, sent2, cached, old, commands)
  BY <1>8, <1>9 DEF sent2
<1>11. message \in 1..Len(sent2) /\ sent2[message].place = job.place
  BY <1>3, <1>6
<1>12. JobOK(next, sent2, cached, old, commands)
  BY <1>1, <1>10, <1>11, ReportedOK DEF next
<1>13. JobOK(next, messages', cached', old', commands')
       /\ CacheOK(messages', cached', old', commands')
  BY <1>6, <1>8, <1>12 DEF sent2
<1> QED BY <1>2, <1>5, <1>9, <1>13, JobsMove

Longer(entries, id, m) == [entries EXCEPT ![id] = Append(@, m)]

\* The cache only grows at its end, so that what was past its time stays so.
LEMMA AppendFacts ==
    ASSUME NEW sent, NEW entries, NEW number, NEW no, CacheOK(sent, entries, number, no),
           NEW id \in CacheIds, NEW m \in 1..Len(sent), sent[m].place = id,
           NEW entries2, entries2 = Longer(entries, id, m)
    PROVE  /\ CacheOK(sent, entries2, number, no)
           /\ \A k \in CacheIds : PastTime(entries, number, k) \subseteq PastTime(entries2, number, k)
<1> DEFINE list == Append(entries[id], m)
<1>1. /\ entries \in [CacheIds -> Seq(Nat)] /\ entries[id] \in Seq(Nat) /\ m \in Nat
      /\ Len(entries[id]) \in Nat /\ number \in [CacheIds -> Nat]
  BY DEF CacheOK
<1>2. /\ list \in Seq(Nat) /\ Len(list) = Len(entries[id]) + 1
      /\ \A i \in 1..Len(entries[id]) : list[i] = entries[id][i]
      /\ list[Len(entries[id]) + 1] = m
  BY <1>1
<1>3. entries2 = [entries EXCEPT ![id] = list]
  BY DEF Longer
<1> HIDE DEF list
<1>4. /\ entries2 \in [CacheIds -> Seq(Nat)]
      /\ \A k \in CacheIds : entries2[k] = IF k = id THEN list ELSE entries[k]
  BY <1>1, <1>2, <1>3
<1>5. \A k \in CacheIds : number[k] <= Len(entries[k]) /\ Len(entries[k]) \in Nat /\ number[k] \in Nat
  BY <1>1 DEF CacheOK
<1>6. ASSUME NEW k \in CacheIds
      PROVE  /\ number[k] <= Len(entries2[k])
             /\ \A i \in 1..Len(entries2[k]) :
                  entries2[k][i] \in 1..Len(sent) /\ sent[entries2[k][i]].place = k
  <2>1. \A i \in 1..Len(entries[k]) :
          entries[k][i] \in 1..Len(sent) /\ sent[entries[k][i]].place = k
    BY DEF CacheOK
  <2>2. CASE k # id
    BY <1>4, <1>5, <2>1, <2>2
  <2>3. CASE k = id
    <3>1. entries2[k] = list
      BY <1>4, <2>3
    <3>2. number[k] <= Len(list)
      BY <1>2, <1>5, <2>3
    <3>3. ASSUME NEW i \in 1..Len(list)
          PROVE  list[i] \in 1..Len(sent) /\ sent[list[i]].place = k
      <4>1. i \in 1..Len(entries[id]) \/ i = Len(entries[id]) + 1
        BY <1>1, <1>2
      <4> QED BY <1>2, <2>1, <2>3, <4>1
    <3> QED BY <3>1, <3>2, <3>3
  <2> QED BY <2>2, <2>3
<1>7. CacheOK(sent, entries2, number, no)
  BY <1>4, <1>6 DEF CacheOK
<1>8. ASSUME NEW k \in CacheIds
      PROVE  PastTime(entries, number, k) \subseteq PastTime(entries2, number, k)
  <2>1. \A i \in 1..number[k] : i \in 1..Len(entries[k])
    BY <1>5
  <2>2. \A i \in 1..number[k] : entries2[k][i] = entries[k][i]
    BY <1>2, <1>4, <2>1
  <2> QED BY <2>2 DEF PastTime
<1> QED BY <1>7, <1>8

\* A message is cached behind those of its place.
LEMMA AddMsgToCacheKeeps ==
    ASSUME CleanInv, NEW t \in Tasks, AddMsgToCache(t)
    PROVE  CleanInv'
<1> DEFINE job == jobs[t]
           done == IF job.reported THEN [job EXCEPT !.at = "idle"] ELSE NoJob
           more == [job EXCEPT !.copies = @ - 1]
           next == IF job.copies = 1 THEN done ELSE more
           entries2 == cached'
<1>1. /\ JobOK(job, messages, cached, old, commands) /\ job.at = "cache" /\ job \in Job
      /\ job.place \in CacheIds /\ CacheOK(messages, cached, old, commands)
      /\ job.message \in 1..Len(messages) /\ messages[job.message].place = job.place
  BY DEF CleanInv, AddMsgToCache, JobAt, JobOK
<1>2. /\ entries2 = Longer(cached, job.place, job.message)
      /\ UNCHANGED <<messages, old, commands>>
      /\ jobs' = [jobs EXCEPT ![t] = next]
  BY DEF AddMsgToCache, Turn, Drops, Longer
<1> HIDE DEF entries2, next
<1>3. /\ CacheOK(messages, entries2, old, commands)
      /\ \A k \in CacheIds : PastTime(cached, old, k) \subseteq PastTime(entries2, old, k)
  BY <1>1, <1>2, AppendFacts
<1>4. /\ messages' = messages /\ old' = old /\ commands' = commands /\ commands \in Nat
      /\ \A id \in CacheIds : old[id] \in Nat
      /\ Len(messages) \in Nat
  BY <1>2, SizesOK
<1>5. \A u \in Tasks : JobOK(jobs[u], messages', cached', old', commands')
  BY <1>3, <1>4, OthersKept DEF entries2
<1>6. JobOK(job, messages, entries2, old, commands)
  BY <1>4, <1>5 DEF entries2
<1>7. JobOK(next, messages, entries2, old, commands) /\ (next.no = Here \/ next.no = job.no)
  <2>1. CASE job.copies = 1
    BY <1>4, <1>6, <2>1, DropOK DEF next
  <2>2. CASE job.copies # 1
    BY <1>1, <1>6, <2>2, OnceMoreOK, SameNo DEF next
  <2> QED BY <2>1, <2>2
<1>8. JobOK(next, messages', cached', old', commands')
      /\ CacheOK(messages', cached', old', commands')
  BY <1>3, <1>4, <1>7 DEF entries2
<1> QED BY <1>2, <1>5, <1>7, <1>8, JobsMove

\* One more message of a cache is past its time.
LEMMA AgesKeeps ==
    ASSUME CleanInv, NEW id \in CacheIds, Ages(id)
    PROVE  CleanInv'
<1> DEFINE number2 == old'
<1>1. /\ CacheOK(messages, cached, old, commands)
      /\ old[id] < Len(cached[id]) /\ number2 = [old EXCEPT ![id] = old[id] + 1]
      /\ UNCHANGED <<messages, cached, jobs, commands>>
  BY DEF CleanInv, Ages
<1>2. \A k \in CacheIds : old[k] \in Nat /\ Len(cached[k]) \in Nat
  BY SizesOK
<1> HIDE DEF number2
<1>3. /\ number2 \in [CacheIds -> Nat]
      /\ \A k \in CacheIds : number2[k] = IF k = id THEN old[k] + 1 ELSE old[k]
  BY <1>1, <1>2 DEF CacheOK
<1>4. \A k \in CacheIds : number2[k] \in Nat /\ number2[k] >= old[k]
                          /\ number2[k] <= Len(cached[k])
  BY <1>1, <1>2, <1>3 DEF CacheOK
<1>5. CacheOK(messages, cached, number2, commands)
  BY <1>1, <1>3, <1>4 DEF CacheOK
<1>6. ASSUME NEW k \in CacheIds
      PROVE  PastTime(cached, old, k) \subseteq PastTime(cached, number2, k)
  <2>1. \A i \in 1..old[k] : i \in 1..number2[k]
    BY <1>2, <1>4
  <2> QED BY <2>1 DEF PastTime
<1>7. \A u \in Tasks : JobOK(jobs[u], messages', cached', old', commands')
  <2>1. commands \in Nat /\ Len(messages) \in Nat
    BY SizesOK
  <2>2. messages' = messages /\ cached' = cached /\ commands' = commands
    BY <1>1
  <2> QED BY <1>4, <1>6, <2>1, <2>2, OthersKept DEF number2
<1>8. CacheOK(messages', cached', old', commands')
  BY <1>1, <1>5 DEF number2
<1> QED BY <1>1, <1>7, <1>8 DEF CleanInv

\* It holds at the start.
LEMMA CleanInvInit == MessageInit => CleanInv
<1> SUFFICES ASSUME MessageInit
             PROVE  CleanInv
  OBVIOUS
<1>1. CacheOK(messages, cached, old, commands)
  BY CommandsAssumption DEF MessageInit, CacheOK
<1>2. \A t \in Tasks : jobs[t] = NoJob
  BY DEF MessageInit
<1>3. commands \in Nat
  BY DEF MessageInit
<1>4. \A t \in Tasks : JobOK(jobs[t], messages, cached, old, commands) /\ jobs[t].no = Here
  BY <1>2, <1>3, NoJobOK
<1> QED BY <1>1, <1>4 DEF CleanInv, MessageInit

\* Every step keeps it.
LEMMA CleanInvNext == CleanInv /\ [MessageNext]_messageVars => CleanInv'
<1> SUFFICES ASSUME CleanInv, [MessageNext]_messageVars
             PROVE  CleanInv'
  OBVIOUS
<1>1. CASE UNCHANGED messageVars
  BY <1>1 DEF CleanInv, messageVars
<1> QED BY <1>1, SendMessageKeeps, CleanKeeps, AddMsgToCacheKeeps, QuietTurnsKeep,
           DeleteOldKeeps, DeleteStatusKeeps, ReportKeeps, AgesKeeps, ModerateKeeps
        DEF MessageNext

\* The count that clean reports is the number of messages that this clean deleted, all of
\* them in the cache of its guild and past their time, however many cleans run at once.
THEOREM CleanTellsTheTruth == MessageSpec => []CleanReportsAreTrue
<1>1. CleanInv => CleanReportsAreTrue
  <2> SUFFICES ASSUME CleanInv, NEW t \in Tasks, jobs[t].reported
               PROVE  LET g == jobs[t].place
                          deleted == {m \in DOMAIN messages : messages[m].gone = jobs[t].no}
                      IN  /\ Cardinality(deleted) = jobs[t].count
                          /\ deleted \subseteq {cached[g][i] : i \in 1..old[g]}
    BY DEF CleanReportsAreTrue
  <2>1. JobOK(jobs[t], messages, cached, old, commands)
    BY DEF CleanInv
  <2>2. DOMAIN messages = 1..Len(messages)
    BY SizesOK
  <2> QED BY <2>1, <2>2 DEF JobOK, Cleans, DeletedBy, PastTime
<1> QED BY <1>1, CleanInvInit, CleanInvNext, PTL DEF MessageSpec

\* The cache of a place holds messages that were sent there, and jobs are well formed.
THEOREM MessagesTyped == MessageSpec => []MessageTypeOK
<1>1. CleanInv => MessageTypeOK
  <2> SUFFICES ASSUME CleanInv
               PROVE  MessageTypeOK
    OBVIOUS
  <2>1. \A id \in CacheIds : old[id] \in 0..Len(cached[id])
    BY SizesOK DEF CleanInv, CacheOK
  <2>2. \A id \in CacheIds : \A i \in DOMAIN cached[id] : messages[cached[id][i]].place = id
    BY SMTT(20), SizesOK DEF CleanInv, CacheOK
  <2>3. DOMAIN jobs = Tasks /\ \A t \in Tasks : jobs[t] \in Job
    BY DEF CleanInv, JobOK
  <2>4. \A id \in CacheIds : \A i \in DOMAIN cached[id] : cached[id][i] \in DOMAIN messages
    BY SMTT(20), SizesOK DEF CleanInv, CacheOK
  <2>5. /\ messages \in Seq(Message) /\ cached \in [CacheIds -> Seq(Nat)]
        /\ DOMAIN old = CacheIds /\ commands \in 0..MaxCommands
    BY DEF CleanInv, CacheOK
  <2> QED BY <2>1, <2>2, <2>3, <2>4, <2>5 DEF MessageTypeOK
<1> QED BY <1>1, CleanInvInit, CleanInvNext, PTL DEF MessageSpec

-----------------------------------------------------------------------------
(* The play command *)

\* A single track has one batch, which goes where the mode says, and is then queued.
Aims(p) ==
    p.kind \in Single =>
      /\ p.mode = "Next" => p.work.how = "front"
      /\ p.mode = "End" => p.work.how = "back"
      /\ p.mode \in {"Next", "End"} => \/ p.mine = 0 /\ p.work.batches = <<1>>
                                       \/ p.mine = 1 /\ p.work.batches = <<>>

\* Where the track is, as long as nobody else has changed the queue.
Lies(p, t, q) ==
    p.kind \in Single =>
      /\ p.mode = "Next" /\ Len(q) > 1 => q[2].by = t
      /\ p.mode = "End" /\ Len(q) > 0 => q[Len(q)].by = t

\* A command that has queued its track knows where it lies, until somebody crosses it; one
\* that has replied has named it.
CommandOK(p, t, q) ==
    /\ DOMAIN p = {"at", "mode", "link", "file", "kind", "work", "mine", "crossed", "reply"}
    /\ p.at \in {"none", "display", "parse", "match", "select", "queue", "done"}
    /\ p.mode \in ModeWords \union {"End"} /\ p.kind \in Kinds
    /\ p.work \in Batches /\ p.mine \in Nat
    /\ p.at \in {"match", "select"} => p.mine = 0
    /\ p.at = "select" => p.mode = "Search"
    /\ p.at = "queue" => Aims(p)
    /\ p.at = "queue" /\ p.mine > 0 /\ ~p.crossed => Lies(p, t, q)
    /\ p.at # "done" => p.reply.about # "queued"
    /\ p.reply.about = "queued" /\ p.mine > 0 /\ ~p.crossed => p.reply.track.by = t

\* The inductive invariant.
ReplyInv ==
    /\ playQueue \in Seq(Track)
    /\ DOMAIN plays = Tasks
    /\ \A t \in Tasks : CommandOK(plays[t], t, playQueue)

-----------------------------------------------------------------------------
(* The commands by themselves *)

\* The fields of a task without a command.
LEMMA NoPlayFacts ==
    /\ DOMAIN NoPlay = {"at", "mode", "link", "file", "kind", "work", "mine", "crossed", "reply"}
    /\ NoPlay.at = "none" /\ NoPlay.mode = "End" /\ NoPlay.kind = "None"
    /\ NoPlay.work \in Batches /\ NoPlay.mine = 0 /\ ~NoPlay.crossed
    /\ NoPlay.reply.about = "nothing"
<1>1. Work("back", <<>>) \in Batches
  BY DEF Work, Batches
<1>2. Says("nothing", NoTrack).about = "nothing"
  BY DEF Says
<1> QED BY <1>1, <1>2 DEF NoPlay

\* Such a task is in order.
LEMMA NoPlayOK ==
    ASSUME NEW t, NEW q
    PROVE  CommandOK(NoPlay, t, q)
BY NoPlayFacts DEF CommandOK, Kinds, ModeWords

Fields == {"at", "mode", "link", "file", "kind", "work", "mine", "crossed", "reply"}

\* A command that has not queued anything, and does not yet know what it will.
LEMMA BareOK ==
    ASSUME NEW p, NEW t, NEW q, DOMAIN p = Fields,
           p.at \in {"none", "display", "parse", "match", "done"},
           p.mode \in ModeWords \union {"End"}, p.kind \in Kinds, p.work \in Batches,
           p.mine = 0, ~p.crossed, p.at # "done" => p.reply.about = "nothing"
    PROVE  CommandOK(p, t, q)
BY DEF CommandOK, Fields

\* An answer that is not about a track.
Answer(about) == [NoPlay EXCEPT !.at = "done", !.reply = Says(about, NoTrack)]

\* What play_internal gets, and what query_type_from_url makes of it.
Parsing(mode, file, link) ==
    [NoPlay EXCEPT !.at = "parse", !.mode = mode, !.file = file, !.link = link]
Matching(mode, kind) == [NoPlay EXCEPT !.at = "match", !.mode = mode, !.kind = kind]
Displaying == [NoPlay EXCEPT !.at = "display"]

\* The fields of these.
LEMMA StepsFacts ==
    /\ \A about : LET p == Answer(about)
                  IN  /\ DOMAIN p = Fields /\ p.at = "done" /\ p.mode = "End" /\ p.kind = "None"
                      /\ p.work = NoPlay.work /\ p.mine = 0 /\ ~p.crossed
    /\ \A mode, file, link :
         LET p == Parsing(mode, file, link)
         IN  /\ DOMAIN p = Fields /\ p.at = "parse" /\ p.mode = mode /\ p.kind = "None"
             /\ p.work = NoPlay.work /\ p.mine = 0 /\ ~p.crossed
             /\ p.reply = NoPlay.reply
    /\ \A mode, kind :
         LET p == Matching(mode, kind)
         IN  /\ DOMAIN p = Fields /\ p.at = "match" /\ p.mode = mode /\ p.kind = kind
             /\ p.work = NoPlay.work /\ p.mine = 0 /\ ~p.crossed
             /\ p.reply = NoPlay.reply
    /\ LET p == Displaying
       IN  /\ DOMAIN p = Fields /\ p.at = "display" /\ p.mode = "End" /\ p.kind = "None"
           /\ p.work = NoPlay.work /\ p.mine = 0 /\ ~p.crossed
           /\ p.reply = NoPlay.reply
BY NoPlayFacts DEF Answer, Parsing, Matching, Displaying, Fields

\* Where NoPlay stands.
LEMMA EndAndNone == "End" \in ModeWords \union {"End"} /\ "None" \in Kinds
BY DEF Kinds

\* All of these are in order.
LEMMA AnswerOK ==
    ASSUME NEW t, NEW q, NEW about
    PROVE  CommandOK(Answer(about), t, q)
BY StepsFacts, NoPlayFacts, EndAndNone, BareOK

\* So is a command before its query is parsed,
LEMMA ParsingOK ==
    ASSUME NEW t, NEW q, NEW mode \in ModeWords \union {"End"}, NEW file, NEW link
    PROVE  CommandOK(Parsing(mode, file, link), t, q)
<1> DEFINE p == Parsing(mode, file, link)
<1>1. /\ DOMAIN p = Fields /\ p.at = "parse" /\ p.mode = mode /\ p.kind = "None"
      /\ p.work = NoPlay.work /\ p.mine = 0 /\ ~p.crossed
      /\ p.reply = NoPlay.reply
  BY StepsFacts
<1> HIDE DEF p
<1>2. CommandOK(p, t, q)
  BY <1>1, NoPlayFacts, EndAndNone, BareOK
<1> QED BY <1>2 DEF p

\* one whose kind of query is known,
LEMMA MatchingOK ==
    ASSUME NEW t, NEW q, NEW mode \in ModeWords \union {"End"}, NEW kind \in Kinds
    PROVE  CommandOK(Matching(mode, kind), t, q)
<1> DEFINE p == Matching(mode, kind)
<1>1. /\ DOMAIN p = Fields /\ p.at = "match" /\ p.mode = mode /\ p.kind = kind
      /\ p.work = NoPlay.work /\ p.mine = 0 /\ ~p.crossed
      /\ p.reply = NoPlay.reply
  BY StepsFacts
<1> HIDE DEF p
<1>2. CommandOK(p, t, q)
  BY <1>1, NoPlayFacts, BareOK
<1> QED BY <1>2 DEF p

\* and one that shows a playlist.
LEMMA DisplayingOK ==
    ASSUME NEW t, NEW q
    PROVE  CommandOK(Displaying, t, q)
BY StepsFacts, NoPlayFacts, EndAndNone, BareOK

-----------------------------------------------------------------------------
(* What match_mode decides *)

\* What a command has to do.
LEMMA WorkFacts ==
    ASSUME NEW how, NEW batches
    PROVE  /\ Work(how, batches).how = how /\ Work(how, batches).batches = batches
           /\ how = "back" /\ batches \in Seq(Nat) => Work(how, batches) \in Batches
           /\ how \in {"front", "offset"} /\ batches \in Seq({1})
                => Work(how, batches) \in Batches
BY DEF Work, Batches

\* Tracks one by one.
LEMMA SinglesType ==
    ASSUME NEW n \in Nat
    PROVE  Singles(n) \in Seq(Nat) /\ Singles(n) \in Seq({1})
BY DEF Singles

\* Whatever its length, a list comes in batches of tracks, or is an error.
LEMMA ListBackFacts ==
    ASSUME NEW n \in Nat
    PROVE  KeywordListBack(n).how = "error" \/ KeywordListBack(n) \in Batches
<1>1. CASE n = 0
  BY <1>1, WorkFacts DEF KeywordListBack, Stops
<1>2. CASE n # 0
  <2> DEFINE full == (n - 1) \div ChunkSize
             rest == (n - 1) % ChunkSize
             chunks == [i \in 1..full |-> ChunkSize]
             last == IF rest = 0 THEN <<>> ELSE <<rest>>
             batches == <<1>> \o chunks \o last
  <2>1. n - 1 \in Nat /\ ChunkSize \in Nat /\ ChunkSize > 0
    BY <1>2, ListsAssumption
  <2>2. full \in Nat /\ rest \in Nat
    BY <2>1
  <2>3. chunks \in Seq(Nat) /\ last \in Seq(Nat)
    <3> HIDE DEF full, rest
    <3> QED BY <2>1, <2>2
  <2> HIDE DEF chunks, last
  <2>4. batches \in Seq(Nat)
    BY <2>3
  <2>5. KeywordListBack(n) = Work("back", batches)
    BY <1>2 DEF KeywordListBack, batches, chunks, last
  <2> HIDE DEF batches
  <2> QED BY <2>4, <2>5, WorkFacts
<1> QED BY <1>1, <1>2

\* Aims, of a command that has queued nothing yet.
Starts(mode, kind, work) ==
    /\ work \in Batches
    /\ kind \in Single =>
         /\ mode = "Next" => work = Work("front", <<1>>)
         /\ mode = "End" => work = Work("back", <<1>>)

\* A match is an error, a search, or work that a command can start with.
LEMMA MatchFacts ==
    ASSUME NEW mode \in ModeWords \union {"End"}, NEW kind \in Kinds, NEW n \in Nat,
           NEW download \in Downloads(kind)
    PROVE  \/ MatchMode(mode, kind, n, download).how \in {"error", "panic"}
           \/ MatchMode(mode, kind, n, download).how = "select" /\ mode = "Search"
           \/ Starts(mode, kind, MatchMode(mode, kind, n, download))
<1>a. /\ Work("back", <<>>) \in Batches /\ Work("back", <<1>>) \in Batches
      /\ Work("front", <<1>>) \in Batches
      /\ Work("back", Singles(n)) \in Batches /\ Work("offset", Singles(n)) \in Batches
      /\ Work("back", <<n>>) \in Batches
  <2>1. /\ <<>> \in Seq(Nat) /\ <<1>> \in Seq(Nat) /\ <<1>> \in Seq({1})
        /\ <<n>> \in Seq(Nat) /\ Singles(n) \in Seq(Nat) /\ Singles(n) \in Seq({1})
    BY SinglesType
  <2> QED BY <2>1, WorkFacts
<1>b. Stops("error").how = "error" /\ Stops(download).how = download
      /\ Work("select", <<1>>).how = "select"
  BY WorkFacts DEF Stops
<1>1. CASE mode = "Search"
  BY <1>1, <1>b DEF MatchMode, ModeSearch
<1>2. CASE mode \in {"DownloadMKV", "DownloadMP3"}
  BY <1>2, <1>a, <1>b DEF MatchMode, Downloads, Starts
<1>3. CASE mode = "End"
  <2>1. MatchMode(mode, kind, n, download) = ModeEnd(kind, n)
    BY <1>3 DEF MatchMode
  <2>2. CASE kind \in {"Keywords", "VideoLink", "NewYoutubeDl", "File"}
    BY <1>3, <1>a, <2>1, <2>2 DEF ModeEnd, Starts, Single
  <2>3. CASE kind \in {"PlaylistLink", "SpotifyTracks"}
    BY <1>3, <2>1, <2>3, ListBackFacts DEF ModeEnd, Starts, Single
  <2>4. CASE kind \in {"KeywordList", "YoutubeSearch", "None"}
    BY <1>3, <1>a, <2>1, <2>4 DEF ModeEnd, Starts, Single
  <2> QED BY <2>2, <2>3, <2>4 DEF Kinds
<1>4. CASE mode = "Next"
  <2>1. MatchMode(mode, kind, n, download) = ModeNext(kind, n)
    BY <1>4 DEF MatchMode
  <2>2. CASE kind \in {"Keywords", "VideoLink", "NewYoutubeDl", "File"}
    <3>1. kind \notin Lists /\ kind # "YoutubeSearch"
      BY <2>2 DEF Lists
    <3>2. ModeNext(kind, n) = Work("front", <<1>>)
      BY <2>2, <3>1 DEF ModeNext
    <3> QED BY <1>4, <1>a, <2>1, <3>2 DEF Starts
  <2>3. CASE kind \in Lists
    BY <1>4, <1>a, <2>1, <2>3 DEF ModeNext, QueryListOffset, Starts, Single, Lists
  <2>4. CASE kind \in {"YoutubeSearch", "None"}
    BY <1>4, <1>a, <1>b, <2>1, <2>4 DEF ModeNext, Starts, Single, Lists
  <2> QED BY <2>2, <2>3, <2>4 DEF Kinds, Lists
<1>5. CASE mode = "Jump"
  BY <1>5, <1>b DEF MatchMode
<1>6. CASE mode \in {"All", "Reverse", "Shuffle"}
  <2>1. MatchMode(mode, kind, n, download) = ModeRest(kind, n)
    BY <1>6 DEF MatchMode
  <2>2. ModeRest(kind, n).how = "error" \/ ModeRest(kind, n) \in Batches
    BY <1>a, ListBackFacts DEF ModeRest
  <2> QED BY <1>6, <2>1, <2>2 DEF Starts
<1> QED BY <1>1, <1>2, <1>3, <1>4, <1>5, <1>6 DEF ModeWords

-----------------------------------------------------------------------------
(* Steps *)

\* The mode of a command is one of the words, whatever its first word is.
LEMMA GetModeType ==
    ASSUME NEW isPrefix, NEW msg, NEW mode
    PROVE  GetMode(isPrefix, msg, mode) \in ModeWords \union {"End"}
BY DEF GetMode

\* A step that changes one command and not the queue.
LEMMA OneCommandMoves ==
    ASSUME ReplyInv, NEW t \in Tasks, NEW next, CommandOK(next, t, playQueue),
           Goes(t, next), UNCHANGED playQueue
    PROVE  ReplyInv'
<1>1. \A u \in Tasks : plays'[u] = IF u = t THEN next ELSE plays[u]
  BY DEF ReplyInv, Goes
<1>2. \A u \in Tasks : CommandOK(plays'[u], u, playQueue)
  BY <1>1 DEF ReplyInv
<1>3. DOMAIN plays' = Tasks
  BY DEF ReplyInv, Goes
<1> QED BY <1>2, <1>3 DEF ReplyInv

\* A command ends without having queued, or without saying so.
LEMMA AnswersKeep ==
    ASSUME ReplyInv, NEW t \in Tasks, NEW about, AnswersPlay(t, about), UNCHANGED playQueue
    PROVE  ReplyInv'
<1>1. Goes(t, Answer(about))
  BY DEF AnswersPlay, Answer
<1> QED BY <1>1, AnswerOK, OneCommandMoves

\* The commands that lead to play_internal.
LEMMA PlayKeeps ==
    ASSUME ReplyInv, NEW t \in Tasks, NEW isPrefix, NEW option, NEW words, NEW file,
           Play(t, isPrefix, option, words, file)
    PROVE  ReplyInv'
<1> DEFINE msg == GetMsg(isPrefix, option, words)
           query == QueryOf(isPrefix, msg)
           mode == GetMode(isPrefix, msg, option)
           link == IF file THEN "attachment" ELSE query[1]
<1>1. Goes(t, IF msg = <<>> /\ ~file THEN Answer("no query") ELSE Parsing(mode, file, link))
  BY DEF Play, Answer, Parsing
<1>2. mode \in ModeWords \union {"End"} /\ UNCHANGED playQueue
  BY GetModeType DEF Play
<1> HIDE DEF msg, mode, link
<1>3. CASE msg = <<>> /\ ~file
  <2>1. Goes(t, Answer("no query"))
    BY <1>1, <1>3
  <2> QED BY <1>2, <2>1, AnswerOK, OneCommandMoves
<1>4. CASE ~(msg = <<>> /\ ~file)
  <2>1. Goes(t, Parsing(mode, file, link))
    BY <1>1, <1>4
  <2> QED BY <1>2, <2>1, ParsingOK, OneCommandMoves
<1> QED BY <1>3, <1>4

\* playytplaylist, and a command whose author is in no channel.
LEMMA PlaylistShownKeeps ==
    ASSUME ReplyInv, NEW t \in Tasks, PlayYtPlaylist(t) \/ ShowPlaylist(t) \/ JoinFails(t)
    PROVE  ReplyInv'
<1>1. CASE PlayYtPlaylist(t)
  BY <1>1, DisplayingOK, OneCommandMoves DEF PlayYtPlaylist, Displaying
<1>2. CASE ShowPlaylist(t) \/ JoinFails(t)
  BY <1>2, AnswersKeep DEF ShowPlaylist, JoinFails
<1> QED BY <1>1, <1>2

\* The kind of the query is found out.
LEMMA ParseKeeps ==
    ASSUME ReplyInv, NEW t \in Tasks, Parse(t)
    PROVE  ReplyInv'
<1>1. plays[t].mode \in ModeWords \union {"End"}
  BY DEF ReplyInv, CommandOK
<1>2. PICK outcome \in QueryTypeFromUrl(plays[t].link, plays[t].file), hasSettings \in BOOLEAN :
        LET kind == CheckBannedDomains(outcome, hasSettings)
        IN  IF kind \in Kinds
            THEN Goes(t, [NoPlay EXCEPT !.at = "match", !.mode = plays[t].mode, !.kind = kind])
            ELSE AnswersPlay(t, kind)
  BY DEF Parse
<1> DEFINE kind == CheckBannedDomains(outcome, hasSettings)
<1>3. CASE kind \in Kinds
  <2>1. Goes(t, Matching(plays[t].mode, kind))
    BY <1>2, <1>3 DEF Matching
  <2> QED BY <1>1, <1>3, <2>1, MatchingOK, OneCommandMoves DEF Parse
<1>4. CASE kind \notin Kinds
  BY <1>2, <1>4, AnswersKeep DEF Parse
<1> QED BY <1>3, <1>4

\* The work of a command that has matched its mode.
Working(p, at, work) == [p EXCEPT !.at = at, !.work = work]

\* With work that fits its mode and kind, a command may go on.
LEMMA WorkingOK ==
    ASSUME NEW p, NEW t, NEW q, CommandOK(p, t, q), p.at = "match", NEW work
    PROVE  /\ Starts(p.mode, p.kind, work) => CommandOK(Working(p, "queue", work), t, q)
           /\ p.mode = "Search" /\ work \in Batches => CommandOK(Working(p, "select", work), t, q)
<1>1. ASSUME NEW at \in {"queue", "select"}
      PROVE  LET n == Working(p, at, work)
             IN  /\ DOMAIN n = Fields /\ n.at = at /\ n.mode = p.mode /\ n.kind = p.kind
                 /\ n.work = work /\ n.mine = p.mine /\ n.reply = p.reply
  BY DEF Working, CommandOK, Fields
<1>2. p.mine = 0 /\ p.reply.about # "queued"
  BY DEF CommandOK
<1>3. ASSUME Starts(p.mode, p.kind, work)
      PROVE  CommandOK(Working(p, "queue", work), t, q)
  <2> DEFINE n == Working(p, "queue", work)
  <2>1. /\ DOMAIN n = Fields /\ n.at = "queue" /\ n.mode = p.mode /\ n.kind = p.kind
        /\ n.work = work /\ n.mine = p.mine /\ n.reply = p.reply
    BY <1>1
  <2> HIDE DEF n
  <2>2. Aims(n)
    BY <1>2, <1>3, <2>1, WorkFacts DEF Aims, Starts
  <2>3. CommandOK(n, t, q)
    BY <1>2, <1>3, <2>1, <2>2 DEF CommandOK, Fields, Starts
  <2> QED BY <2>3 DEF n
<1>4. ASSUME p.mode = "Search", work \in Batches
      PROVE  CommandOK(Working(p, "select", work), t, q)
  <2> DEFINE n == Working(p, "select", work)
  <2>1. /\ DOMAIN n = Fields /\ n.at = "select" /\ n.mode = p.mode /\ n.kind = p.kind
        /\ n.work = work /\ n.mine = p.mine /\ n.reply = p.reply
    BY <1>1
  <2> HIDE DEF n
  <2>2. CommandOK(n, t, q)
    BY <1>2, <1>4, <2>1 DEF CommandOK, Fields
  <2> QED BY <2>2 DEF n
<1> QED BY <1>3, <1>4

\* The mode is matched.
LEMMA MatchKeeps ==
    ASSUME ReplyInv, NEW t \in Tasks, Match(t)
    PROVE  ReplyInv'
<1> DEFINE p == plays[t]
<1>1. CommandOK(p, t, playQueue) /\ p.at = "match" /\ UNCHANGED playQueue
  BY DEF ReplyInv, Match, PlayAt
<1>2. p.mode \in ModeWords \union {"End"} /\ p.kind \in Kinds
  BY <1>1 DEF CommandOK
<1>3. PICK n \in 0..MaxList, download \in Downloads(p.kind) :
        LET work == MatchMode(p.mode, p.kind, n, download)
        IN  CASE work.how \in {"error", "panic"} -> AnswersPlay(t, work.how)
              [] work.how = "select" ->
                   Goes(t, [p EXCEPT !.at = "select", !.work = Work("back", <<1>>)])
              [] OTHER -> Goes(t, [p EXCEPT !.at = "queue", !.work = work])
  BY DEF Match
<1> DEFINE work == MatchMode(p.mode, p.kind, n, download)
<1>4. n \in Nat
  BY ListsAssumption
<1>5. \/ work.how \in {"error", "panic"}
      \/ work.how = "select" /\ p.mode = "Search"
      \/ Starts(p.mode, p.kind, work)
  BY <1>2, <1>4, MatchFacts
<1>6. CASE work.how \in {"error", "panic"}
  BY <1>1, <1>3, <1>6, AnswersKeep
<1>7. CASE work.how = "select"
  <2>1. p.mode = "Search"
    BY <1>5, <1>7 DEF Starts, Batches
  <2>2. Work("back", <<1>>) \in Batches
    <3>1. <<1>> \in Seq(Nat)
      OBVIOUS
    <3> QED BY <3>1, WorkFacts
  <2>3. Goes(t, Working(p, "select", Work("back", <<1>>)))
    BY <1>3, <1>7 DEF Working
  <2>4. CommandOK(Working(p, "select", Work("back", <<1>>)), t, playQueue)
    BY <1>1, <2>1, <2>2, WorkingOK
  <2> QED BY <1>1, <2>3, <2>4, OneCommandMoves
<1>8. CASE work.how \notin {"error", "panic", "select"}
  <2>1. Goes(t, Working(p, "queue", work))
    BY <1>3, <1>8 DEF Working
  <2>2. Starts(p.mode, p.kind, work)
    BY <1>5, <1>8
  <2> HIDE DEF work
  <2>3. CommandOK(Working(p, "queue", work), t, playQueue)
    BY <1>1, <2>2, WorkingOK
  <2> QED BY <1>1, <2>1, <2>3, OneCommandMoves
<1> QED BY <1>6, <1>7, <1>8

\* A search has been answered.
LEMMA SelectKeeps ==
    ASSUME ReplyInv, NEW t \in Tasks, Select(t)
    PROVE  ReplyInv'
<1> DEFINE p == plays[t]
           n == [p EXCEPT !.at = "queue"]
<1>1. CommandOK(p, t, playQueue) /\ p.at = "select" /\ UNCHANGED playQueue
  BY DEF ReplyInv, Select, PlayAt
<1>2. CASE Goes(t, n)
  <2>1. /\ DOMAIN n = Fields /\ n.at = "queue" /\ n.mode = p.mode /\ n.kind = p.kind
        /\ n.work = p.work /\ n.mine = p.mine /\ n.reply = p.reply
    BY <1>1 DEF CommandOK, Fields
  <2> HIDE DEF n
  <2>2. p.mode = "Search" /\ p.mine = 0
    BY <1>1 DEF CommandOK
  <2>3. Aims(n)
    BY <2>1, <2>2 DEF Aims
  <2>4. CommandOK(n, t, playQueue)
    BY <1>1, <2>1, <2>2, <2>3 DEF CommandOK, Fields
  <2> QED BY <1>1, <1>2, <2>4, OneCommandMoves
<1>3. CASE AnswersPlay(t, "error")
  BY <1>1, <1>3, AnswersKeep
<1> QED BY <1>2, <1>3 DEF Select

-----------------------------------------------------------------------------
(* The queue changes *)

\* What a change does to the commands of others.
Crossed(p) == [p EXCEPT !.crossed = TRUE]

\* Whoever is crossed has no claim on the queue any more; whoever is not has none yet.
LEMMA CrossingFacts ==
    ASSUME ReplyInv, NEW t, NEW u \in Tasks, u # t, NEW q
    PROVE  CommandOK(Crossing(t)[u], u, q)
<1> DEFINE p == plays[u]
<1>1. CommandOK(p, u, playQueue)
  BY DEF ReplyInv
<1>2. CASE PlayAt(u, "queue") /\ plays[u].mine > 0
  <2>1. Crossing(t)[u] = Crossed(p)
    BY <1>2 DEF Crossing, Crossed
  <2> DEFINE n == Crossed(p)
  <2>2. /\ DOMAIN n = Fields /\ n.at = p.at /\ n.mode = p.mode /\ n.kind = p.kind
        /\ n.work = p.work /\ n.mine = p.mine /\ n.reply = p.reply /\ n.crossed
    BY <1>1 DEF Crossed, CommandOK, Fields
  <2> HIDE DEF n, p
  <2>3. Aims(p) => Aims(n)
    BY <2>2 DEF Aims
  <2>4. CommandOK(n, u, q)
    BY <1>1, <2>2, <2>3 DEF CommandOK, Fields
  <2> QED BY <2>1, <2>4 DEF p, n
<1>3. CASE ~(PlayAt(u, "queue") /\ plays[u].mine > 0)
  <2>1. Crossing(t)[u] = p
    BY <1>3 DEF Crossing
  <2>2. ~(p.at = "queue" /\ p.mine > 0)
    BY <1>3 DEF PlayAt
  <2>3. CommandOK(p, u, q)
    BY <1>1, <2>2 DEF CommandOK
  <2> QED BY <2>1, <2>3
<1> QED BY <1>2, <1>3

\* A task changes the queue and goes on, which crosses the others.
LEMMA QueueMoves ==
    ASSUME ReplyInv, NEW t \in Tasks, NEW q \in Seq(Track), NEW next, CommandOK(next, t, q),
           playQueue' = q, plays' = [Crossing(t) EXCEPT ![t] = next]
    PROVE  ReplyInv'
<1>1. DOMAIN plays' = Tasks
  BY DEF Crossing
<1>2. \A u \in Tasks : plays'[u] = IF u = t THEN next ELSE Crossing(t)[u]
  BY DEF Crossing
<1>3. \A u \in Tasks : CommandOK(plays'[u], u, q)
  BY <1>2, CrossingFacts
<1> QED BY <1>1, <1>3 DEF ReplyInv

\* The end of a track crosses everybody.
LEMMA TrackEndsKeeps ==
    ASSUME ReplyInv, TrackEnds
    PROVE  ReplyInv'
<1>1. playQueue' \in Seq(Track)
  BY DEF ReplyInv, TrackEnds
<1>2. plays' = Crossing(None) /\ None \notin Tasks
  BY NoneAssumption DEF TrackEnds
<1>3. DOMAIN plays' = Tasks
  BY <1>2 DEF Crossing
<1>4. \A u \in Tasks : CommandOK(plays'[u], u, playQueue')
  BY <1>2, CrossingFacts
<1> QED BY <1>1, <1>3, <1>4 DEF ReplyInv

\* The command after one of its batches.
Queued(p, size) == [p EXCEPT !.work.batches = Tail(@), !.mine = @ + size]

\* The fields of that.
LEMMA QueuedFacts ==
    ASSUME NEW p, NEW t, NEW q, CommandOK(p, t, q), p.work.batches # <<>>
    PROVE  /\ Head(p.work.batches) \in Nat
           /\ p.work.how # "back" => Head(p.work.batches) = 1
           /\ LET n == Queued(p, Head(p.work.batches))
              IN  /\ DOMAIN n = Fields /\ n.at = p.at /\ n.mode = p.mode /\ n.kind = p.kind
                  /\ n.work \in Batches /\ n.work.how = p.work.how
                  /\ n.work.batches = Tail(p.work.batches)
                  /\ n.mine = p.mine + Head(p.work.batches) /\ n.reply = p.reply
<1> DEFINE work == [p.work EXCEPT !.batches = Tail(@)]
           size == Head(p.work.batches)
           mine == p.mine + size
           n == Queued(p, size)
<1>1. p.work \in Batches /\ p.mine \in Nat /\ DOMAIN p = Fields
  BY DEF CommandOK, Fields
<1>2. \/ p.work.how = "back" /\ p.work.batches \in Seq(Nat)
      \/ p.work.how \in {"front", "offset"} /\ p.work.batches \in Seq({1})
  BY <1>1 DEF Batches
<1>3. \/ p.work.how = "back" /\ size \in Nat /\ Tail(p.work.batches) \in Seq(Nat)
      \/ /\ p.work.how \in {"front", "offset"}
         /\ size = 1 /\ Tail(p.work.batches) \in Seq({1})
  BY <1>2
<1>a. DOMAIN p.work = {"how", "batches"}
  BY <1>1 DEF Batches
<1>4. /\ work.how = p.work.how /\ work.batches = Tail(p.work.batches)
      /\ work \in Batches
  BY <1>1, <1>3, <1>a DEF Batches
<1>5. n = [p EXCEPT !.work = work, !.mine = mine]
  BY <1>1 DEF Queued, Fields
<1> HIDE DEF work, mine, size
<1>6. /\ DOMAIN n = Fields /\ n.at = p.at /\ n.mode = p.mode /\ n.kind = p.kind
      /\ n.work = work /\ n.mine = mine /\ n.reply = p.reply
  BY <1>1, <1>5 DEF Fields
<1> QED BY <1>3, <1>4, <1>6 DEF mine, size

\* The command of one track has queued it.
LEMMA QueuedOK ==
    ASSUME NEW p, NEW t, NEW q, CommandOK(p, t, q), p.at = "queue", p.work.batches # <<>>,
           NEW q2, Lies(p, t, q2)
    PROVE  CommandOK(Queued(p, Head(p.work.batches)), t, q2)
<1> DEFINE n == Queued(p, Head(p.work.batches))
           size == Head(p.work.batches)
<1>1. /\ size \in Nat
      /\ DOMAIN n = Fields /\ n.at = p.at /\ n.mode = p.mode /\ n.kind = p.kind
      /\ n.work \in Batches /\ n.work.how = p.work.how
      /\ n.work.batches = Tail(p.work.batches)
      /\ n.mine = p.mine + size /\ n.reply = p.reply
  BY QueuedFacts
<1>2. Aims(p) /\ p.mine \in Nat
  BY DEF CommandOK
<1>3. p.kind \in Single /\ p.mode \in {"Next", "End"} =>
        p.mine = 0 /\ size = 1 /\ Tail(p.work.batches) = <<>>
  <2>1. p.kind \in Single /\ p.mode \in {"Next", "End"} => p.mine = 0 /\ p.work.batches = <<1>>
    BY <1>2 DEF Aims
  <2>2. Head(<<1>>) = 1 /\ Tail(<<1>>) = <<>>
    OBVIOUS
  <2> QED BY <2>1, <2>2
<1> HIDE DEF n, size
<1>4. Aims(n)
  BY <1>1, <1>2, <1>3 DEF Aims
<1>5. Lies(n, t, q2)
  BY <1>1 DEF Lies
<1>6. n.mine \in Nat
  BY <1>1, <1>2
<1>7. CommandOK(n, t, q2)
  BY <1>1, <1>4, <1>5, <1>6 DEF CommandOK, Fields
<1> QED BY <1>7 DEF n

\* The tracks of a batch.
Own(t, mine, size) == [i \in 1..size |-> [by |-> t, nth |-> mine + i]]

\* They are as many, and of the task.
LEMMA OwnFacts ==
    ASSUME NEW t \in Tasks, NEW mine \in Nat, NEW size \in Nat
    PROVE  /\ Own(t, mine, size) \in Seq(Track) /\ Len(Own(t, mine, size)) = size
           /\ \A i \in 1..size : Own(t, mine, size)[i] \in Track /\ Own(t, mine, size)[i].by = t
<1>1. \A i \in 1..size : [by |-> t, nth |-> mine + i] \in Track
  BY DEF Track
<1> QED BY <1>1 DEF Own

\* What comes behind a queue.
LEMMA BehindFacts ==
    ASSUME NEW q \in Seq(Track), NEW own \in Seq(Track)
    PROVE  /\ q \o own \in Seq(Track) /\ Len(q \o own) = Len(q) + Len(own)
           /\ Len(own) = 1 => (q \o own)[Len(q) + 1] = own[1]
OBVIOUS

\* What a batch makes of the queue: its tracks are where the mode wants them.
LEMMA BatchLies ==
    ASSUME NEW t \in Tasks, NEW p, NEW q \in Seq(Track), NEW own \in Seq(Track),
           NEW size \in Nat, NEW at \in Nat, at >= 2, Len(own) = size,
           size = 1 => own[1] \in Track /\ own[1].by = t,
           p.work.how # "back" => size = 1,
           p.kind \in Single =>
             /\ p.mode = "Next" => p.work.how = "front"
             /\ p.mode = "End" => p.work.how = "back"
             /\ p.mode \in {"Next", "End"} => size = 1
    PROVE  /\ p.work.how = "front" /\ Len(q) > 1 =>
                /\ InsertAt(q, 2, own[1]) \in Seq(Track)
                /\ Lies(p, t, InsertAt(q, 2, own[1]))
           /\ p.work.how = "offset" /\ at <= Len(q) + 1 =>
                /\ InsertAt(q, at, own[1]) \in Seq(Track)
                /\ Lies(p, t, InsertAt(q, at, own[1]))
           /\ q \o own \in Seq(Track)
           /\ ~(p.work.how = "front" /\ Len(q) > 1) /\ p.work.how # "offset" =>
                Lies(p, t, q \o own)
<1>1. ASSUME p.work.how = "front", Len(q) > 1
      PROVE  /\ InsertAt(q, 2, own[1]) \in Seq(Track)
             /\ Lies(p, t, InsertAt(q, 2, own[1]))
  <2> DEFINE r == InsertAt(q, 2, own[1])
  <2>1. own[1] \in Track /\ own[1].by = t /\ 2 \in 1..Len(q) + 1
    BY <1>1
  <2>2. r \in Seq(Track) /\ Len(r) = Len(q) + 1
    BY <2>1, InsertAtProperties
  <2>3. \A j \in 1..Len(q) + 1 :
          r[j] = IF j < 2 THEN q[j] ELSE IF j = 2 THEN own[1] ELSE q[j - 1]
    BY SMTT(20), <2>1, InsertAtProperties
  <2> HIDE DEF r
  <2>4. r[2] = own[1]
    BY <2>1, <2>3
  <2>5. Lies(p, t, r)
    BY <1>1, <2>1, <2>4 DEF Lies
  <2> QED BY <2>2, <2>5 DEF r
<1>2. ASSUME p.work.how = "offset", at <= Len(q) + 1
      PROVE  /\ InsertAt(q, at, own[1]) \in Seq(Track)
             /\ Lies(p, t, InsertAt(q, at, own[1]))
  <2>1. own[1] \in Track /\ at \in 1..Len(q) + 1
    BY <1>2
  <2>2. InsertAt(q, at, own[1]) \in Seq(Track)
    BY <2>1, InsertAtProperties
  <2>3. Lies(p, t, InsertAt(q, at, own[1]))
    BY <1>2 DEF Lies
  <2> QED BY <2>2, <2>3
<1>3. q \o own \in Seq(Track)
  BY BehindFacts
<1>4. ASSUME ~(p.work.how = "front" /\ Len(q) > 1), p.work.how # "offset"
      PROVE  Lies(p, t, q \o own)
  <2> DEFINE r == q \o own
  <2>1. /\ Len(r) = Len(q) + size
        /\ size = 1 => r[Len(q) + 1] = own[1]
    BY BehindFacts
  <2> HIDE DEF r
  <2>2. ASSUME p.kind \in Single, p.mode = "Next", Len(r) > 1
        PROVE  r[2].by = t
    <3>1. size = 1 /\ ~(Len(q) > 1)
      BY <1>4, <2>2
    <3>2. Len(q) = 1
      BY <2>1, <2>2, <3>1
    <3> QED BY <2>1, <3>1, <3>2
  <2>3. ASSUME p.kind \in Single, p.mode = "End", Len(r) > 0
        PROVE  r[Len(r)].by = t
    BY <2>1, <2>3
  <2> QED BY <2>2, <2>3 DEF Lies, r
<1> QED BY <1>1, <1>2, <1>3, <1>4

\* A batch is as BatchLies wants it.
LEMMA BatchFacts ==
    ASSUME NEW t \in Tasks, NEW p, NEW q, CommandOK(p, t, q), p.at = "queue",
           p.work.batches # <<>>, NEW size, size = Head(p.work.batches)
    PROVE  /\ p.mine \in Nat /\ size \in Nat
           /\ p.work.how # "back" => size = 1
           /\ p.kind \in Single =>
                /\ p.mode = "Next" => p.work.how = "front"
                /\ p.mode = "End" => p.work.how = "back"
                /\ p.mode \in {"Next", "End"} => size = 1
<1>1. Aims(p) /\ p.mine \in Nat
  BY DEF CommandOK
<1>2. size \in Nat /\ (p.work.how # "back" => size = 1)
  BY QueuedFacts
<1>3. p.kind \in Single /\ p.mode \in {"Next", "End"} => size = 1
  <2>1. p.kind \in Single /\ p.mode \in {"Next", "End"} => p.work.batches = <<1>>
    BY <1>1 DEF Aims
  <2>2. Head(<<1>>) = 1
    OBVIOUS
  <2> QED BY <2>1, <2>2
<1> QED BY <1>1, <1>2, <1>3 DEF Aims

\* A batch is queued.
LEMMA QueueBatchKeeps ==
    ASSUME ReplyInv, NEW t \in Tasks, QueueBatch(t)
    PROVE  ReplyInv'
<1> DEFINE p == plays[t]
           q == playQueue
           size == Head(p.work.batches)
           left == Queued(p, size)
           own == Own(t, p.mine, size)
           at == p.mine + 2
           front == InsertAt(q, 2, own[1])
           offset == InsertAt(q, at, own[1])
           back == q \o own
<1>1. PlayAt(t, "queue") /\ p.at = "queue" /\ p.work.batches # <<>> /\ CommandOK(p, t, q)
  BY DEF ReplyInv, QueueBatch, PlayAt
<1>a. at > Len(q) + 1 <=> ~(at <= Len(q) + 1)
  <2>1. p.mine \in Nat /\ Len(q) \in Nat
    BY <1>1 DEF CommandOK, ReplyInv
  <2> HIDE DEF p, q
  <2> QED BY <2>1
<1>2. /\ p.work.how = "front" /\ Len(q) > 1 =>
           playQueue' = front /\ plays' = [Crossing(t) EXCEPT ![t] = left]
      /\ p.work.how = "offset" /\ at > Len(q) + 1 =>
           UNCHANGED playQueue /\ AnswersPlay(t, "panic")
      /\ p.work.how = "offset" /\ at <= Len(q) + 1 =>
           playQueue' = offset /\ plays' = [Crossing(t) EXCEPT ![t] = left]
      /\ ~(p.work.how = "front" /\ Len(q) > 1) /\ p.work.how # "offset" =>
           playQueue' = back /\ plays' = [Crossing(t) EXCEPT ![t] = left]
  <2>1. (CASE p.work.how = "front" /\ Len(q) > 1 ->
                /\ playQueue' = front
                /\ plays' = [Crossing(t) EXCEPT ![t] = left]
           [] p.work.how = "offset" /\ at > Len(q) + 1 ->
                UNCHANGED playQueue /\ AnswersPlay(t, "panic")
           [] p.work.how = "offset" /\ at <= Len(q) + 1 ->
                /\ playQueue' = offset
                /\ plays' = [Crossing(t) EXCEPT ![t] = left]
           [] OTHER ->
                /\ playQueue' = back
                /\ plays' = [Crossing(t) EXCEPT ![t] = left])
    BY DEF QueueBatch, Queued, Own
  <2> HIDE DEF p, q, size, left, own, at, front, offset, back
  <2>2. CASE p.work.how = "front" /\ Len(q) > 1
    BY <2>1, <2>2
  <2>3. CASE p.work.how = "offset" /\ at > Len(q) + 1
    BY <1>a, <2>1, <2>3
  <2>4. CASE p.work.how = "offset" /\ at <= Len(q) + 1
    BY <1>a, <2>1, <2>4
  <2>5. CASE ~(p.work.how = "front" /\ Len(q) > 1) /\ p.work.how # "offset"
    BY <2>1, <2>5
  <2> QED BY <2>2, <2>3, <2>4, <2>5
<1>3. /\ p.work.how = "front" /\ Len(q) > 1 => front \in Seq(Track) /\ Lies(p, t, front)
      /\ p.work.how = "offset" /\ at <= Len(q) + 1 =>
           offset \in Seq(Track) /\ Lies(p, t, offset)
      /\ back \in Seq(Track)
      /\ ~(p.work.how = "front" /\ Len(q) > 1) /\ p.work.how # "offset" => Lies(p, t, back)
  <2>1. /\ p.mine \in Nat /\ size \in Nat
        /\ p.work.how # "back" => size = 1
        /\ p.kind \in Single =>
             /\ p.mode = "Next" => p.work.how = "front"
             /\ p.mode = "End" => p.work.how = "back"
             /\ p.mode \in {"Next", "End"} => size = 1
    BY <1>1, BatchFacts
  <2>2. q \in Seq(Track)
    BY DEF ReplyInv
  <2> HIDE DEF p, q, size
  <2>3. /\ own \in Seq(Track) /\ Len(own) = size
        /\ size = 1 => own[1] \in Track /\ own[1].by = t
    <3>1. \A m, n \in Nat : /\ Own(t, m, n) \in Seq(Track) /\ Len(Own(t, m, n)) = n
                            /\ \A i \in 1..n : Own(t, m, n)[i] \in Track /\ Own(t, m, n)[i].by = t
      BY OwnFacts
    <3>2. /\ own \in Seq(Track) /\ Len(own) = size
          /\ \A i \in 1..size : own[i] \in Track /\ own[i].by = t
      BY <2>1, <3>1, Zenon
    <3> QED BY <3>2
  <2>4. at \in Nat /\ at >= 2
    BY <2>1
  <2> HIDE DEF own, at
  <2> QED BY <2>1, <2>2, <2>3, <2>4, BatchLies
<1>4. ASSUME NEW q2, Lies(p, t, q2)
      PROVE  CommandOK(left, t, q2)
  BY <1>1, <1>4, QueuedOK
<1> HIDE DEF p, q, size, left, own, at, front, offset, back
<1>5. ASSUME NEW q2 \in Seq(Track), Lies(p, t, q2), playQueue' = q2,
             plays' = [Crossing(t) EXCEPT ![t] = left]
      PROVE  ReplyInv'
  BY <1>4, <1>5, QueueMoves
<1>6. CASE p.work.how = "front" /\ Len(q) > 1
  BY <1>2, <1>3, <1>5, <1>6
<1>7. CASE p.work.how = "offset" /\ at > Len(q) + 1
  <2>1. UNCHANGED playQueue /\ AnswersPlay(t, "panic")
    BY <1>2, <1>7
  <2> QED BY <2>1, AnswersKeep
<1>8. CASE p.work.how = "offset" /\ at <= Len(q) + 1
  BY <1>2, <1>3, <1>5, <1>8
<1>9. CASE ~(p.work.how = "front" /\ Len(q) > 1) /\ p.work.how # "offset"
  BY <1>2, <1>3, <1>5, <1>9
<1> QED BY <1>a, <1>6, <1>7, <1>8, <1>9

\* A batch cannot be resolved.
LEMMA BatchFailsKeeps ==
    ASSUME ReplyInv, NEW t \in Tasks, BatchFails(t)
    PROVE  ReplyInv'
BY AnswersKeep DEF BatchFails

\* What the reply says of the queue, when it says that something was queued.
LEMMA EmbedFacts ==
    ASSUME playQueue \in Seq(Track), NEW mode, NEW kind,
           BuildPlayEmbed(mode, kind).about = "queued"
    PROVE  /\ kind \in Single /\ Len(playQueue) > 1
           /\ \/ mode = "Next" /\ BuildPlayEmbed(mode, kind).track = playQueue[2]
              \/ /\ mode = "End"
                 /\ BuildPlayEmbed(mode, kind).track = playQueue[Len(playQueue)]
<1>1. /\ Says("empty", NoTrack).about # "queued" /\ Says("list", NoTrack).about # "queued"
      /\ Says("playing", playQueue[1]).about # "queued"
      /\ Says("queued", playQueue[2]).track = playQueue[2]
      /\ Says("queued", LastTrack).track = LastTrack
  BY DEF Says
<1>2. Len(playQueue) \in Nat
  OBVIOUS
<1>3. Len(playQueue) # 0 /\ Len(playQueue) # 1
  <2>1. playQueue = <<>> => BuildPlayEmbed(mode, kind) = Says("empty", NoTrack)
    BY DEF BuildPlayEmbed
  <2>2. playQueue # <<>> /\ Len(playQueue) = 1 =>
          BuildPlayEmbed(mode, kind) = Says("playing", playQueue[1])
    BY DEF BuildPlayEmbed
  <2>3. Len(playQueue) = 0 => playQueue = <<>>
    OBVIOUS
  <2> QED BY <1>1, <2>1, <2>2, <2>3
<1>4. Len(playQueue) > 1
  BY <1>2, <1>3
<1>5. CASE kind \in Single /\ mode = "Next"
  <2>1. BuildPlayEmbed(mode, kind) = Says("queued", playQueue[2])
    BY <1>3, <1>5 DEF BuildPlayEmbed, Single
  <2> QED BY <1>1, <1>4, <1>5, <2>1
<1>6. CASE kind \in Single /\ mode = "End"
  <2>1. BuildPlayEmbed(mode, kind) = Says("queued", LastTrack)
    BY <1>3, <1>6 DEF BuildPlayEmbed, Single
  <2> QED BY <1>1, <1>4, <1>6, <2>1 DEF LastTrack
<1>7. CASE ~(kind \in Single /\ mode \in {"Next", "End"})
  <2>1. BuildPlayEmbed(mode, kind) \in {Says("list", NoTrack), Says("playing", playQueue[1])}
    BY <1>3, <1>7 DEF BuildPlayEmbed, Single
  <2> QED BY <1>1, <2>1
<1> QED BY <1>5, <1>6, <1>7

Replied(p, reply) ==
    [NoPlay EXCEPT !.at = "done", !.mine = p.mine, !.crossed = p.crossed, !.reply = reply]

\* The fields of a command that has replied.
LEMMA RepliedFacts ==
    ASSUME NEW p, NEW reply
    PROVE  LET n == Replied(p, reply)
           IN  /\ DOMAIN n = Fields /\ n.at = "done" /\ n.mode = "End" /\ n.kind = "None"
               /\ n.work = NoPlay.work /\ n.mine = p.mine /\ n.crossed = p.crossed
               /\ n.reply = reply
BY NoPlayFacts DEF Replied, Fields

\* The reply is read from the queue.
LEMMA ReplyKeeps ==
    ASSUME ReplyInv, NEW t \in Tasks, Reply(t)
    PROVE  ReplyInv'
<1> DEFINE p == plays[t]
           reply == BuildPlayEmbed(p.mode, p.kind)
           n == Replied(p, reply)
<1>1. /\ CommandOK(p, t, playQueue) /\ p.at = "queue" /\ p.work.batches = <<>>
      /\ UNCHANGED playQueue
  BY DEF ReplyInv, Reply, PlayAt
<1>2. CASE Goes(t, n)
  <2>1. reply.about = "queued" /\ p.mine > 0 /\ ~p.crossed => reply.track.by = t
    <3> SUFFICES ASSUME reply.about = "queued", p.mine > 0, ~p.crossed
                 PROVE  reply.track.by = t
      OBVIOUS
    <3>1. /\ p.kind \in Single /\ Len(playQueue) > 1
          /\ \/ p.mode = "Next" /\ reply.track = playQueue[2]
             \/ p.mode = "End" /\ reply.track = playQueue[Len(playQueue)]
      BY EmbedFacts DEF ReplyInv
    <3>2. Lies(p, t, playQueue)
      BY <1>1 DEF CommandOK
    <3>3. Len(playQueue) > 0
      BY <3>1 DEF ReplyInv
    <3> QED BY <3>1, <3>2, <3>3 DEF Lies
  <2>2. /\ DOMAIN n = Fields /\ n.at = "done" /\ n.mode = "End" /\ n.kind = "None"
        /\ n.work = NoPlay.work /\ n.mine = p.mine /\ n.crossed = p.crossed
        /\ n.reply = reply
    BY RepliedFacts
  <2>3. p.mine \in Nat
    BY <1>1 DEF CommandOK
  <2> HIDE DEF n, reply, p
  <2>4. CommandOK(n, t, playQueue)
    BY <2>1, <2>2, <2>3, NoPlayFacts, EndAndNone DEF CommandOK, Fields
  <2> QED BY <1>1, <1>2, <2>4, OneCommandMoves
<1>3. CASE AnswersPlay(t, "panic")
  BY <1>1, <1>3, AnswersKeep
<1> QED BY <1>2, <1>3 DEF Reply, Replied

-----------------------------------------------------------------------------
\* It holds at the start.
LEMMA ReplyInvInit == PlayInit => ReplyInv
BY NoPlayOK DEF PlayInit, ReplyInv

\* Every step keeps it.
LEMMA ReplyInvNext == ReplyInv /\ [PlayNext]_playVars => ReplyInv'
<1> SUFFICES ASSUME ReplyInv, [PlayNext]_playVars
             PROVE  ReplyInv'
  OBVIOUS
<1>1. CASE UNCHANGED playVars
  BY <1>1 DEF playVars, ReplyInv
<1>2. CASE TrackEnds
  BY <1>2, TrackEndsKeeps
<1>3. ASSUME NEW t \in Tasks, NEW isPrefix \in BOOLEAN, NEW file \in BOOLEAN,
             NEW option, NEW words, Play(t, isPrefix, option, words, file)
      PROVE  ReplyInv'
  BY <1>3, PlayKeeps
<1>4. ASSUME NEW t \in Tasks,
             \/ PlayYtPlaylist(t) \/ ShowPlaylist(t) \/ JoinFails(t)
             \/ Parse(t) \/ Match(t) \/ Select(t)
             \/ QueueBatch(t) \/ BatchFails(t) \/ Reply(t)
      PROVE  ReplyInv'
  BY <1>4, PlaylistShownKeeps, ParseKeeps, MatchKeeps, SelectKeeps, QueueBatchKeeps,
     BatchFailsKeeps, ReplyKeeps
<1> QED BY <1>1, <1>2, <1>3, <1>4 DEF PlayNext

-----------------------------------------------------------------------------
(* What the reply does not depend on *)

\* The other fields of a command.
Side(p) ==
    /\ p.link \in Words /\ p.file \in BOOLEAN
    /\ p.crossed \in BOOLEAN /\ p.reply \in Replies
Sides == issued \in 0..MaxPlays /\ \A t \in Tasks : Side(plays[t])

\* What a command answers that queues nothing.
Refusals == {"no query", "display", "error", "panic"}

\* A command with the same of these.
LEMMA SameSide ==
    ASSUME NEW p, NEW n, Side(p), n.link = p.link, n.file = p.file, n.crossed = p.crossed,
           n.reply = p.reply
    PROVE  Side(n)
BY DEF Side

LEMMA NoPlaySide == Side(NoPlay)
<1>1. Says("nothing", NoTrack) \in Replies
  BY DEF Says, Replies
<1> QED BY <1>1 DEF Side, NoPlay, Words

\* The commands that start and end.
LEMMA StepSides ==
    /\ \A about \in Refusals : Side(Answer(about))
    /\ \A mode : \A file \in BOOLEAN, link \in Words : Side(Parsing(mode, file, link))
    /\ \A mode, kind : Side(Matching(mode, kind))
    /\ Side(Displaying)
<1>1. ASSUME NEW about \in Refusals
      PROVE  Side(Answer(about))
  <2> DEFINE reply == Says(about, NoTrack)
             n == [NoPlay EXCEPT !.at = "done", !.reply = reply]
  <2>1. reply \in Replies
    BY DEF Says, Replies, Refusals
  <2> HIDE DEF reply
  <2>2. n.link = NoPlay.link /\ n.file = NoPlay.file /\ n.crossed = NoPlay.crossed
        /\ n.reply = reply
    BY NoPlayFacts
  <2> HIDE DEF n
  <2>3. Side(n)
    BY <2>1, <2>2, NoPlaySide DEF Side
  <2> QED BY <2>3 DEF n, reply, Answer
<1>2. ASSUME NEW mode, NEW file \in BOOLEAN, NEW link \in Words
      PROVE  Side(Parsing(mode, file, link))
  <2> DEFINE n == Parsing(mode, file, link)
  <2>1. n.link = link /\ n.file = file /\ n.crossed = NoPlay.crossed /\ n.reply = NoPlay.reply
    BY NoPlayFacts DEF Parsing
  <2> HIDE DEF n
  <2>2. Side(n)
    BY <2>1, NoPlaySide DEF Side
  <2> QED BY <2>2 DEF n
<1>3. ASSUME NEW mode, NEW kind
      PROVE  Side(Matching(mode, kind))
  <2> DEFINE n == Matching(mode, kind)
  <2>1. n.link = NoPlay.link /\ n.file = NoPlay.file /\ n.crossed = NoPlay.crossed
        /\ n.reply = NoPlay.reply
    BY NoPlayFacts DEF Matching
  <2> HIDE DEF n
  <2>2. Side(n)
    BY <2>1, NoPlaySide, SameSide
  <2> QED BY <2>2 DEF n
<1>4. Side(Displaying)
  <2> DEFINE n == Displaying
  <2>1. n.link = NoPlay.link /\ n.file = NoPlay.file /\ n.crossed = NoPlay.crossed
        /\ n.reply = NoPlay.reply
    BY NoPlayFacts DEF Displaying
  <2> HIDE DEF n
  <2>2. Side(n)
    BY <2>1, NoPlaySide, SameSide
  <2> QED BY <2>2 DEF n
<1> QED BY <1>1, <1>2, <1>3, <1>4

\* A command moves, and the queue stays or not.
LEMMA OneSide ==
    ASSUME ReplyInv, Sides, NEW t \in Tasks, NEW next, Side(next), Goes(t, next),
           issued' \in 0..MaxPlays
    PROVE  Sides'
<1>1. \A u \in Tasks : plays'[u] = IF u = t THEN next ELSE plays[u]
  BY DEF ReplyInv, Goes
<1>2. \A u \in Tasks : Side(plays'[u])
  BY <1>1 DEF Sides
<1> QED BY <1>2 DEF Sides

LEMMA AnswerSide ==
    ASSUME ReplyInv, Sides, NEW t \in Tasks, NEW about \in Refusals,
           AnswersPlay(t, about), UNCHANGED issued
    PROVE  Sides'
<1>1. Goes(t, Answer(about))
  BY DEF AnswersPlay, Answer
<1>2. Side(Answer(about)) /\ issued' \in 0..MaxPlays
  BY StepSides DEF Sides
<1> QED BY <1>1, <1>2, OneSide

\* The first word of what is looked for.
LEMMA LinkType ==
    ASSUME NEW isPrefix \in BOOLEAN, NEW msg \in Seq(Words), msg # <<>>
    PROVE  QueryOf(isPrefix, msg)[1] \in Words
<1>1. Len(msg) \in Nat /\ Len(msg) # 0 /\ msg[1] \in Words
  OBVIOUS
<1>2. Len(msg) > 1 => Tail(msg)[1] \in Words
  BY <1>1
<1> QED BY <1>1, <1>2 DEF QueryOf

LEMMA PlaySide ==
    ASSUME ReplyInv, Sides, NEW t \in Tasks, NEW isPrefix \in BOOLEAN, NEW option \in Seq(Words),
           NEW words \in Seq(Words), NEW file \in BOOLEAN, Play(t, isPrefix, option, words, file)
    PROVE  Sides'
<1> DEFINE msg == GetMsg(isPrefix, option, words)
           query == QueryOf(isPrefix, msg)
           mode == GetMode(isPrefix, msg, option)
           link == IF file THEN "attachment" ELSE query[1]
<1>1. Goes(t, IF msg = <<>> /\ ~file THEN Answer("no query") ELSE Parsing(mode, file, link))
  BY DEF Play, Answer, Parsing
<1>2. issued' \in 0..MaxPlays
  BY ListsAssumption DEF Play, Sides
<1>3. msg \in Seq(Words)
  BY DEF GetMsg
<1>4. msg # <<>> \/ file => link \in Words
  <2> HIDE DEF msg
  <2>1. msg # <<>> => query[1] \in Words
    BY <1>3, LinkType
  <2>2. "attachment" \in Words
    BY DEF Words
  <2> QED BY <2>1, <2>2
<1> HIDE DEF msg, mode, link
<1>5. CASE msg = <<>> /\ ~file
  <2>1. Goes(t, Answer("no query"))
    BY <1>1, <1>5
  <2> DEFINE next == Answer("no query")
  <2>2. Side(next)
    <3>1. "no query" \in Refusals
      BY Zenon DEF Refusals
    <3> QED BY <3>1, StepSides, Zenon
  <2>3. Goes(t, next)
    BY <2>1
  <2> HIDE DEF next
  <2> QED BY <1>2, <2>2, <2>3, OneSide
<1>6. CASE ~(msg = <<>> /\ ~file)
  <2>1. Goes(t, Parsing(mode, file, link))
    BY <1>1, <1>6
  <2>2. Side(Parsing(mode, file, link))
    BY <1>4, <1>6, StepSides
  <2> QED BY <1>2, <2>1, <2>2, OneSide
<1> QED BY <1>5, <1>6

\* What a link turns out to be, if it is no kind of query.
LEMMA OutcomeType ==
    ASSUME NEW link, NEW file, NEW outcome \in QueryTypeFromUrl(link, file), NEW hasSettings \in BOOLEAN,
           CheckBannedDomains(outcome, hasSettings) \notin Kinds
    PROVE  CheckBannedDomains(outcome, hasSettings) \in {"error", "panic"}
<1>1. outcome \in Kinds \union {"error", "panic"}
  <2>1. \A media : SpotifyExtract(media) \subseteq {"Keywords", "KeywordList", "error", "panic"}
    BY DEF SpotifyExtract, TrackInfo, AlbumInfo, PlaylistInfo
  <2>2. UNION {SpotifyExtract(m) : m \in MediaTypes \union {"other"}}
          \subseteq {"Keywords", "KeywordList", "error", "panic"}
    BY <2>1
  <2> QED BY <2>1, <2>2 DEF QueryTypeFromUrl, Kinds
<1> QED BY <1>1 DEF CheckBannedDomains

\* The steps up to the queue.
LEMMA ParseSide ==
    ASSUME ReplyInv, Sides, NEW t \in Tasks, Parse(t)
    PROVE  Sides'
<1>1. PICK outcome \in QueryTypeFromUrl(plays[t].link, plays[t].file), hasSettings \in BOOLEAN :
        LET kind == CheckBannedDomains(outcome, hasSettings)
        IN  IF kind \in Kinds
            THEN Goes(t, [NoPlay EXCEPT !.at = "match", !.mode = plays[t].mode, !.kind = kind])
            ELSE AnswersPlay(t, kind)
  BY DEF Parse
<1> DEFINE kind == CheckBannedDomains(outcome, hasSettings)
<1>2. UNCHANGED issued /\ issued \in 0..MaxPlays
  BY DEF Parse, Sides
<1>3. CASE kind \in Kinds
  <2>1. Goes(t, Matching(plays[t].mode, kind))
    BY <1>1, <1>3 DEF Matching
  <2>2. Side(Matching(plays[t].mode, kind))
    BY StepSides
  <2> QED BY <1>2, <2>1, <2>2, OneSide
<1>4. CASE kind \notin Kinds
  <2>1. AnswersPlay(t, kind) /\ kind \in Refusals
    BY <1>1, <1>4, OutcomeType, Zenon DEF Refusals
  <2> HIDE DEF kind
  <2> QED BY <1>2, <2>1, AnswerSide
<1> QED BY <1>3, <1>4

LEMMA MatchSide ==
    ASSUME ReplyInv, Sides, NEW t \in Tasks, Match(t) \/ Select(t)
    PROVE  Sides'
<1> DEFINE p == plays[t]
<1>1. DOMAIN p = Fields /\ Side(p) /\ UNCHANGED issued /\ issued \in 0..MaxPlays
  BY DEF ReplyInv, CommandOK, Fields, Sides, Match, Select
<1>2. ASSUME NEW at, NEW work
      PROVE  Side([p EXCEPT !.at = at, !.work = work]) /\ Side([p EXCEPT !.at = at])
  <2> HIDE DEF p
  <2> DEFINE n == [p EXCEPT !.at = at, !.work = work]
             m == [p EXCEPT !.at = at]
  <2>1. /\ n.link = p.link /\ n.file = p.file /\ n.crossed = p.crossed /\ n.reply = p.reply
        /\ m.link = p.link /\ m.file = p.file /\ m.crossed = p.crossed /\ m.reply = p.reply
    BY <1>1 DEF Fields
  <2> HIDE DEF n, m
  <2>2. Side(n) /\ Side(m)
    BY <1>1, <2>1, SameSide
  <2> QED BY <2>2 DEF n, m
<1>3. CASE Match(t)
  <2>1. PICK next : \/ next \in Refusals /\ AnswersPlay(t, next)
                    \/ Side(next) /\ Goes(t, next)
    <3>1. {"error", "panic"} \subseteq Refusals
      BY Zenon DEF Refusals
    <3> QED BY <1>2, <1>3, <3>1 DEF Match
  <2> QED BY <1>1, <2>1, AnswerSide, OneSide
<1>4. CASE Select(t)
  <2>1. "error" \in Refusals
    BY Zenon DEF Refusals
  <2> QED BY <1>1, <1>2, <1>4, <2>1, AnswerSide, OneSide DEF Select
<1> QED BY <1>3, <1>4

\* The queue changes, and with it what others know of it.
LEMMA CrossingSide ==
    ASSUME ReplyInv, Sides, NEW t, NEW u \in Tasks
    PROVE  Side(Crossing(t)[u])
<1> DEFINE p == plays[u]
           n == Crossed(p)
<1>1. DOMAIN p = Fields /\ Side(p)
  BY DEF ReplyInv, CommandOK, Fields, Sides
<1>2. Crossing(t)[u] = p \/ Crossing(t)[u] = n
  BY DEF Crossing, Crossed
<1> HIDE DEF p
<1>3. n.link = p.link /\ n.file = p.file /\ n.crossed = TRUE /\ n.reply = p.reply
  BY <1>1 DEF Crossed, Fields
<1> HIDE DEF n
<1>4. Side(n)
  BY <1>1, <1>3 DEF Side
<1> QED BY <1>1, <1>2, <1>4

LEMMA BatchSide ==
    ASSUME ReplyInv, Sides, NEW t \in Tasks, QueueBatch(t)
    PROVE  Sides'
<1> DEFINE p == plays[t]
           size == Head(p.work.batches)
           batch == Tail(p.work.batches)
           work == [p.work EXCEPT !.batches = batch]
           mine == p.mine + size
           n == [p EXCEPT !.work = work, !.mine = mine]
<1>1. DOMAIN p = Fields /\ Side(p) /\ UNCHANGED issued /\ issued \in 0..MaxPlays
  BY DEF ReplyInv, CommandOK, Fields, Sides, QueueBatch
<1>2. Queued(p, size) = n
  BY <1>1 DEF Queued, Fields
<1>3. AnswersPlay(t, "panic") \/ plays' = [Crossing(t) EXCEPT ![t] = Queued(p, size)]
  BY DEF QueueBatch, Queued
<1> HIDE DEF p, size, work, mine
<1>4. n.link = p.link /\ n.file = p.file /\ n.crossed = p.crossed /\ n.reply = p.reply
  BY <1>1 DEF Fields
<1> HIDE DEF n
<1>5. Side(n)
  BY <1>1, <1>4, SameSide
<1>6. CASE plays' = [Crossing(t) EXCEPT ![t] = Queued(p, size)]
  <2>1. \A u \in Tasks : plays'[u] = IF u = t THEN n ELSE Crossing(t)[u]
    BY <1>2, <1>6 DEF Crossing
  <2>2. \A u \in Tasks : Side(plays'[u])
    BY <1>5, <2>1, CrossingSide
  <2> QED BY <1>1, <2>2 DEF Sides
<1>7. CASE AnswersPlay(t, "panic")
  <2>1. "panic" \in Refusals
    BY Zenon DEF Refusals
  <2> QED BY <1>1, <1>7, <2>1, AnswerSide
<1> QED BY <1>3, <1>6, <1>7

\* What is in a queue that is not empty.
LEMMA QueueEnds ==
    ASSUME NEW q \in Seq(Track), q # <<>>
    PROVE  /\ q[1] \in Track /\ q[Len(q)] \in Track
           /\ Len(q) # 1 => q[2] \in Track
<1> DEFINE n == Len(q)
<1>1. n \in Nat /\ n # 0
  OBVIOUS
<1>2. \A i \in 1..n : q[i] \in Track
  OBVIOUS
<1> HIDE DEF n
<1>3. 1 \in 1..n /\ n \in 1..n /\ (n # 1 => 2 \in 1..n)
  BY <1>1
<1> QED BY <1>2, <1>3 DEF n

LEMMA ReplySide ==
    ASSUME ReplyInv, Sides, NEW t \in Tasks, Reply(t)
    PROVE  Sides'
<1> DEFINE p == plays[t]
           reply == BuildPlayEmbed(p.mode, p.kind)
           n == Replied(p, reply)
<1>1. Side(p) /\ UNCHANGED issued /\ issued \in 0..MaxPlays
  BY DEF Sides, Reply
<1>2. reply \in Replies
  <2>1. playQueue \in Seq(Track)
    BY DEF ReplyInv
  <2>4. /\ playQueue # <<>> => playQueue[1] \in Track /\ playQueue[Len(playQueue)] \in Track
        /\ playQueue # <<>> /\ Len(playQueue) # 1 => playQueue[2] \in Track
    BY <2>1, QueueEnds
  <2>5. /\ \A track \in Track :
             Says("playing", track) \in Replies /\ Says("queued", track) \in Replies
        /\ Says("empty", NoTrack) \in Replies /\ Says("list", NoTrack) \in Replies
    BY DEF Says, Replies
  <2> HIDE DEF p
  <2>6. reply \in {Says("empty", NoTrack), Says("list", NoTrack), Says("playing", playQueue[1]),
                   Says("queued", playQueue[2]), Says("queued", LastTrack)}
    BY DEF BuildPlayEmbed
  <2>7. CASE playQueue = <<>>
    BY <2>5, <2>7 DEF BuildPlayEmbed
  <2>8. CASE playQueue # <<>> /\ Len(playQueue) = 1
    BY <2>4, <2>5, <2>8 DEF BuildPlayEmbed
  <2>9. CASE playQueue # <<>> /\ Len(playQueue) # 1
    BY <2>4, <2>5, <2>6, <2>9 DEF LastTrack
  <2> QED BY <2>7, <2>8, <2>9
<1>3. CASE Goes(t, n)
  <2> HIDE DEF p, reply
  <2>1. n.link = NoPlay.link /\ n.file = NoPlay.file /\ n.crossed = p.crossed /\ n.reply = reply
    BY NoPlayFacts DEF Replied
  <2> HIDE DEF n
  <2>2. Side(n)
    BY <1>1, <1>2, <2>1, NoPlaySide DEF Side
  <2> QED BY <1>1, <1>3, <2>2, OneSide
<1>4. CASE AnswersPlay(t, "panic")
  <2>1. "panic" \in Refusals
    BY Zenon DEF Refusals
  <2> QED BY <1>1, <1>4, <2>1, AnswerSide
<1> QED BY <1>3, <1>4 DEF Reply, Replied

LEMMA OptionType ==
    ASSUME NEW option \in BoundedSeq(ModeWords, 1)
    PROVE  option \in Seq(Words)
<1>1. option \in Seq(ModeWords)
  <2>1. PICK m \in 0..1 : option \in [1..m -> ModeWords]
    BY DEF BoundedSeq, SeqOf
  <2>2. m \in Nat
    OBVIOUS
  <2> QED BY <2>1, <2>2
<1>2. ModeWords \subseteq Words
  BY DEF Words
<1> HIDE DEF Words
<1> QED BY <1>1, <1>2

\* The words of the commands.
LEMMA WordsType ==
    /\ <<>> \in Seq(Words)
    /\ \A v, w \in Words : <<v>> \in Seq(Words) /\ <<v, w>> \in Seq(Words)
OBVIOUS

LEMMA SidesInit == PlayInit => Sides
BY NoPlaySide, ListsAssumption DEF PlayInit, Sides

LEMMA SidesNext == ReplyInv /\ Sides /\ [PlayNext]_playVars => Sides'
<1> SUFFICES ASSUME ReplyInv, Sides, [PlayNext]_playVars
             PROVE  Sides'
  OBVIOUS
<1>1. CASE UNCHANGED playVars
  BY <1>1 DEF playVars, Sides, Side
<1>2. CASE TrackEnds
  <2>1. \A u \in Tasks : Side(plays'[u])
    BY <1>2, CrossingSide DEF TrackEnds
  <2> QED BY <1>2, <2>1 DEF TrackEnds, Sides
<1>3. ASSUME NEW t \in Tasks, NEW isPrefix \in BOOLEAN, NEW file \in BOOLEAN,
             NEW option \in BoundedSeq(ModeWords, 1),
             NEW words \in {<<>>, <<"Next">>, <<"words">>, <<"Search", "words">>,
                            <<"youtube">>, <<"youtube list">>, <<"spotify">>,
                            <<"spotify uri">>, <<"other site">>, <<"attachment">>},
             Play(t, isPrefix, option, words, file)
      PROVE  Sides'
  <2>1. option \in Seq(Words)
    BY OptionType, Zenon
  <2>2. words \in Seq(Words)
    <3>1. {"Next", "words", "Search", "youtube", "youtube list", "spotify", "spotify uri",
           "other site", "attachment"} \subseteq Words
      BY Zenon DEF Words, ModeWords
    <3> QED BY <3>1, WordsType, Zenon
  <2> QED BY <1>3, <2>1, <2>2, PlaySide, Zenon
<1>4. ASSUME NEW t \in Tasks, PlayYtPlaylist(t)
      PROVE  Sides'
  <2>1. Goes(t, Displaying) /\ issued' \in 0..MaxPlays
    BY <1>4, ListsAssumption DEF PlayYtPlaylist, Displaying, Sides
  <2> QED BY <2>1, StepSides, OneSide
<1>5. ASSUME NEW t \in Tasks, ShowPlaylist(t) \/ JoinFails(t)
      PROVE  Sides'
  <2>1. {"display", "error"} \subseteq Refusals
    BY Zenon DEF Refusals
  <2> QED BY <1>5, <2>1, AnswerSide DEF ShowPlaylist, JoinFails
<1>6. ASSUME NEW t \in Tasks, BatchFails(t)
      PROVE  Sides'
  <2>1. PICK found \in Found :
          /\ ResolveBack(Item(plays[t].kind), found) # "ready"
          /\ AnswersPlay(t, ResolveBack(Item(plays[t].kind), found))
    BY <1>6 DEF BatchFails
  <2> DEFINE about == ResolveBack(Item(plays[t].kind), found)
  <2>2. about \in Refusals
    <3>1. about \in {"error", "panic"}
      BY <2>1 DEF ResolveBack, ReadyQuery, SourceAndMetadata, SearchRusty
    <3> QED BY <3>1, Zenon DEF Refusals
  <2>3. AnswersPlay(t, about) /\ UNCHANGED issued
    BY <1>6, <2>1 DEF BatchFails
  <2> HIDE DEF about
  <2> QED BY <2>2, <2>3, AnswerSide
<1> QED BY <1>1, <1>2, <1>3, <1>4, <1>5, <1>6, ParseSide, MatchSide, BatchSide, ReplySide DEF PlayNext

\* The queue of a guild holds nothing but tracks of commands, each batch of a command puts a
\* number of them there, and every field of a command is well formed (doplay.rs, query.rs).
THEOREM PlaysTyped == PlaySpec => []PlayTypeOK
<1>1. ReplyInv /\ Sides => PlayTypeOK
  BY DEF ReplyInv, CommandOK, Sides, Side, PlayTypeOK
<1> QED BY <1>1, ReplyInvInit, ReplyInvNext, SidesInit, SidesNext, PTL DEF PlaySpec

\* A reply that says which track was queued names one of the command's own, unless the queue
\* was changed by somebody else after the command changed it: match_mode puts a single track
\* where build_play_embed looks for it.
THEOREM RepliesName == PlaySpec => []ReplyNamesItsTrack
<1>1. ReplyInv => ReplyNamesItsTrack
  BY DEF ReplyInv, CommandOK, ReplyNamesItsTrack
<1> QED BY <1>1, ReplyInvInit, ReplyInvNext, PTL DEF PlaySpec

-----------------------------------------------------------------------------
(* The track queue library *)

LEMMA AppendKeeps ==
    ASSUME NEW q \in Seq(Nat), NEW e \in Nat
    PROVE  /\ Append(q, e) \in Seq(Nat)
           /\ ToSet(Append(q, e)) = ToSet(q) \union {e}
           /\ IsInjective(q) /\ e \notin ToSet(q) => IsInjective(Append(q, e))
<1> DEFINE r == Append(q, e)
<1>1. /\ r \in Seq(Nat) /\ Len(r) = Len(q) + 1
      /\ \A j \in 1..Len(q) : r[j] = q[j]
      /\ r[Len(q) + 1] = e
  OBVIOUS
<1>2. DOMAIN q = 1..Len(q) /\ DOMAIN r = 1..Len(q) + 1 /\ Len(q) \in Nat
  BY <1>1
<1> HIDE DEF r
<1>3. ASSUME IsInjective(q), e \notin ToSet(q) PROVE IsInjective(r)
  <2>1. \A j \in 1..Len(q) : r[j] # e
    BY <1>1, <1>2, <1>3 DEF ToSet
  <2>2. ASSUME NEW j \in DOMAIN r, NEW k \in DOMAIN r, r[j] = r[k] PROVE j = k
    <3>1. CASE j \in 1..Len(q) /\ k \in 1..Len(q)
      BY <1>1, <1>2, <1>3, <2>2, <3>1 DEF IsInjective
    <3>2. CASE ~(j \in 1..Len(q) /\ k \in 1..Len(q))
      BY <1>1, <1>2, <2>1, <2>2, <3>2
    <3> QED BY <3>1, <3>2
  <2> QED BY <2>2 DEF IsInjective
<1>4. ToSet(r) \subseteq ToSet(q) \union {e}
  BY <1>1, <1>2 DEF ToSet
<1>5. ToSet(q) \union {e} \subseteq ToSet(r)
  BY <1>1, <1>2 DEF ToSet
<1> QED BY <1>1, <1>3, <1>4, <1>5 DEF r

LEMMA InsertAtKeeps ==
    ASSUME NEW S, NEW q \in Seq(S), NEW e \in S, NEW i \in 1..Len(q) + 1
    PROVE  /\ InsertAt(q, i, e) \in Seq(S)
           /\ ToSet(InsertAt(q, i, e)) = ToSet(q) \union {e}
           /\ IsInjective(q) /\ e \notin ToSet(q) => IsInjective(InsertAt(q, i, e))
<1> DEFINE r == InsertAt(q, i, e)
           from(j) == IF j < i THEN j ELSE j - 1
<1>0. /\ r \in Seq(S) /\ Len(r) = Len(q) + 1
      /\ \A j \in 1..Len(q) + 1 :
           r[j] = IF j < i THEN q[j] ELSE IF j = i THEN e ELSE q[j - 1]
  BY InsertAtProperties
<1>1. DOMAIN q = 1..Len(q) /\ DOMAIN r = 1..Len(q) + 1 /\ Len(q) \in Nat
  BY <1>0
<1> HIDE DEF r
<1>2. i \in DOMAIN r /\ r[i] = e
  BY <1>0, <1>1
<1>3. ASSUME NEW j \in DOMAIN r, j # i
      PROVE  from(j) \in DOMAIN q /\ r[j] = q[from(j)]
  BY <1>0, <1>1, <1>3
<1>4. ASSUME NEW j \in DOMAIN r, NEW k \in DOMAIN r, j # i, k # i, from(j) = from(k)
      PROVE  j = k
  BY <1>1, <1>4
<1>5. ASSUME NEW k \in DOMAIN q PROVE \E j \in DOMAIN r : j # i /\ from(j) = k
  <2>1. CASE k < i
    BY <1>1, <2>1
  <2>2. CASE ~(k < i)
    <3>1. k + 1 \in DOMAIN r /\ k + 1 # i /\ from(k + 1) = k
      BY <1>1, <2>2
    <3> QED BY <3>1
  <2> QED BY <2>1, <2>2
<1> HIDE DEF from
<1>6. IsInjective(q) /\ e \notin ToSet(q) => IsInjective(r)
  BY <1>2, <1>3, <1>4 DEF IsInjective, ToSet
<1>7. ToSet(r) = ToSet(q) \union {e}
  BY <1>2, <1>3, <1>5 DEF ToSet
<1> QED BY <1>0, <1>6, <1>7 DEF r

LEMMA RemoveAtKeeps ==
    ASSUME NEW q \in Seq(Nat), NEW i \in 1..Len(q)
    PROVE  /\ RemoveAt(q, i) \in Seq(Nat)
           /\ ToSet(RemoveAt(q, i)) \subseteq ToSet(q)
           /\ IsInjective(q) => /\ IsInjective(RemoveAt(q, i))
                             /\ ToSet(RemoveAt(q, i)) = ToSet(q) \ {q[i]}
<1> DEFINE r == RemoveAt(q, i)
<1>1. /\ r \in Seq(Nat) /\ Len(r) = Len(q) - 1
      /\ \A j \in 1..Len(q) - 1 : r[j] = IF j < i THEN q[j] ELSE q[j + 1]
  BY RemoveAtProperties
<1>2. DOMAIN q = 1..Len(q) /\ DOMAIN r = 1..Len(q) - 1 /\ Len(q) \in Nat
  BY <1>1
<1> HIDE DEF r
<1> DEFINE from(j) == IF j < i THEN j ELSE j + 1
<1>3. ASSUME NEW j \in DOMAIN r
      PROVE  from(j) \in DOMAIN q /\ from(j) # i /\ r[j] = q[from(j)]
  <2>1. j \in 1..Len(q) - 1
    BY <1>2
  <2>2. CASE j < i
    BY <1>1, <1>2, <2>1, <2>2
  <2>3. CASE ~(j < i)
    <3>1. from(j) = j + 1 /\ r[j] = q[j + 1]
      BY <1>1, <2>1, <2>3
    <3>2. j + 1 \in 1..Len(q) /\ j + 1 # i
      BY <1>2, <2>1, <2>3
    <3> QED BY <1>2, <3>1, <3>2
  <2> QED BY <2>2, <2>3
<1>4. ASSUME NEW j \in DOMAIN r, NEW k \in DOMAIN r, from(j) = from(k) PROVE j = k
  BY <1>2, <1>4
<1>5. ASSUME NEW k \in DOMAIN q, k # i PROVE \E j \in DOMAIN r : from(j) = k
  <2>1. CASE k < i
    BY <1>2, <2>1
  <2>2. CASE ~(k < i)
    <3>1. k - 1 \in DOMAIN r /\ from(k - 1) = k
      BY <1>2, <1>5, <2>2
    <3> QED BY <3>1
  <2> QED BY <2>1, <2>2
<1>6. i \in DOMAIN q
  BY <1>2
<1> HIDE DEF from
<1>7. IsInjective(q) => IsInjective(r)
  BY <1>3, <1>4 DEF IsInjective
<1>8. ToSet(r) \subseteq ToSet(q)
  BY <1>3 DEF ToSet
<1>9. IsInjective(q) => ToSet(r) = ToSet(q) \ {q[i]}
  BY <1>3, <1>5, <1>6 DEF ToSet, IsInjective
<1> QED BY <1>1, <1>7, <1>8, <1>9 DEF r

LEMMA TailKeeps ==
    ASSUME NEW q \in Seq(Nat), q # <<>>
    PROVE  /\ Tail(q) \in Seq(Nat) /\ Head(q) \in ToSet(q)
           /\ ToSet(Tail(q)) \subseteq ToSet(q)
           /\ Len(q) = 1 => ToSet(q) = {Head(q)}
           /\ IsInjective(q) => IsInjective(Tail(q)) /\ ToSet(Tail(q)) = ToSet(q) \ {Head(q)}
           /\ Len(q) # 1 => Tail(q) # <<>>
<1> DEFINE r == Tail(q)
<1>1. /\ r \in Seq(Nat) /\ Len(r) = Len(q) - 1 /\ Head(q) = q[1]
      /\ \A j \in 1..Len(q) - 1 : r[j] = q[j + 1]
  OBVIOUS
<1>2. /\ DOMAIN q = 1..Len(q) /\ DOMAIN r = 1..Len(q) - 1
      /\ Len(q) \in Nat /\ Len(q) > 0
  BY <1>1
<1> HIDE DEF r
<1>3. ASSUME NEW j \in DOMAIN r
      PROVE  j + 1 \in DOMAIN q /\ j + 1 # 1 /\ r[j] = q[j + 1]
  BY <1>1, <1>2
<1>4. ASSUME NEW k \in DOMAIN q, k # 1 PROVE \E j \in DOMAIN r : j + 1 = k
  <2>1. k - 1 \in DOMAIN r /\ (k - 1) + 1 = k
    BY <1>2, <1>4
  <2> QED BY <2>1
<1>5. 1 \in DOMAIN q /\ Head(q) = q[1]
  BY <1>1, <1>2
<1>6. Head(q) \in ToSet(q) /\ ToSet(r) \subseteq ToSet(q)
  BY <1>3, <1>5 DEF ToSet
<1>7. ASSUME Len(q) = 1 PROVE ToSet(q) = {Head(q)}
  <2>1. DOMAIN q = {1}
    BY <1>2, <1>7
  <2> QED BY <1>5, <2>1 DEF ToSet
<1>8. ASSUME IsInjective(q) PROVE IsInjective(r) /\ ToSet(r) = ToSet(q) \ {Head(q)}
  <2>1. IsInjective(r)
    <3> SUFFICES ASSUME NEW j \in DOMAIN r, NEW k \in DOMAIN r, r[j] = r[k] PROVE j = k
      BY DEF IsInjective
    <3>1. j + 1 = k + 1
      BY <1>3, <1>8 DEF IsInjective
    <3> QED BY <1>2, <3>1
  <2>2. ToSet(r) = ToSet(q) \ {Head(q)}
    BY <1>3, <1>4, <1>5, <1>8 DEF IsInjective, ToSet
  <2> QED BY <2>1, <2>2
<1>9. Len(q) # 1 => r # <<>>
  BY <1>1, <1>2
<1> QED BY <1>1, <1>6, <1>7, <1>8, <1>9 DEF r

\* Any order of the same tracks.
LEMMA PermutationKeeps ==
    ASSUME NEW q \in Seq(Nat), NEW p \in Bijection(DOMAIN q, DOMAIN q)
    PROVE  LET r == [i \in DOMAIN q |-> q[p[i]]]
           IN  r \in Seq(Nat) /\ ToSet(r) = ToSet(q) /\ (IsInjective(q) => IsInjective(r))
<1> DEFINE r == [i \in DOMAIN q |-> q[p[i]]]
           D == DOMAIN q
<1>1. /\ p \in [D -> D] /\ \A w \in D : \E v \in D : p[v] = w
      /\ \A i, j \in D : p[i] = p[j] => i = j
  BY DEF Bijection, Injection, Surjection, IsInjective
<1>2. D = 1..Len(q) /\ Len(q) \in Nat
  OBVIOUS
<1>3. r \in Seq(Nat)
  <2>1. \A i \in D : q[p[i]] \in Nat
    BY SMTT(20), <1>1
  <2> QED BY <1>2, <2>1
<1>4. ToSet(r) = ToSet(q)
  BY <1>1 DEF ToSet
<1>5. IsInjective(q) => IsInjective(r)
  BY <1>1, <1>2 DEF IsInjective
<1> QED BY <1>3, <1>4, <1>5

CallPlaces == InHand \union {"none", "shuffle", "display"}

CallShape(c, n, made) ==
    /\ DOMAIN c = {"at", "guild", "queue", "tracks"}
    /\ c.at \in CallPlaces /\ c.queue \in Nat
    /\ c.tracks \in TrackSeqs(n)
    /\ c.at # "none" => c.guild \in Guilds
    /\ c.at \in InHand => c.tracks # <<>>
    /\ c.at \in {"push", "shuffle"} => c.queue \in 1..made

\* The map, the queues and the calls are well formed.
TrackShape ==
    /\ DOMAIN queueOf \subseteq Guilds
    /\ \A g \in DOMAIN queueOf : queueOf[g] \in 1..Len(queues)
    /\ queues \in Seq(TrackSeqs(accepted))
    /\ DOMAIN calls = Tasks
    /\ \A t \in Tasks : CallShape(calls[t], accepted, Len(queues))
    /\ accepted \in 0..MaxTracks /\ taken \subseteq 1..accepted

\* One call changes, the others stay.
OneCall(t, c) ==
    /\ DOMAIN calls' = DOMAIN calls /\ calls'[t] = c
    /\ \A u \in Tasks \ {t} : calls'[u] = calls[u]

LEMMA OneCallChanges ==
    ASSUME DOMAIN calls = Tasks, NEW t \in Tasks, NEW c, calls' = [calls EXCEPT ![t] = c]
    PROVE  OneCall(t, c)
BY DEF OneCall

LEMMA NoCallShape ==
    ASSUME NEW n \in Nat, NEW made \in Nat
    PROVE  CallShape(NoCall, n, made) /\ NoCall.at = "none"
BY DEF CallShape, NoCall, CallPlaces, InHand, TrackSeqs, ToSet

\* What is well formed stays so when there are more tracks and more queues.
LEMMA ShapesGrow ==
    ASSUME NEW n \in Nat, NEW m \in Nat, n <= m
    PROVE  /\ TrackSeqs(n) \subseteq TrackSeqs(m)
           /\ \A c : \A made \in Nat, more \in Nat :
                made <= more /\ CallShape(c, n, made) => CallShape(c, m, more)
<1>1. TrackSeqs(n) \subseteq TrackSeqs(m)
  <2>1. 1..n \subseteq 1..m
    OBVIOUS
  <2> QED BY <2>1 DEF TrackSeqs
<1>2. ASSUME NEW made \in Nat, NEW more \in Nat, NEW c, made <= more, CallShape(c, n, made)
      PROVE  CallShape(c, m, more)
  <2>1. 1..made \subseteq 1..more
    BY <1>2
  <2> QED BY <1>1, <1>2, <2>1 DEF CallShape
<1> QED BY <1>1, <1>2

\* n more tracks are accepted for a call.
NewTracks(n) == [i \in 1..n |-> accepted + i]

LEMMA NewTracksAre ==
    ASSUME NEW n \in Nat, accepted \in Nat
    PROVE  /\ NewTracks(n) \in TrackSeqs(accepted + n)
           /\ IsInjective(NewTracks(n))
           /\ ToSet(NewTracks(n)) = (1..accepted + n) \ (1..accepted)
           /\ n # 0 => NewTracks(n) # <<>>
<1> DEFINE s == NewTracks(n)
<1>1. DOMAIN s = 1..n /\ \A i \in 1..n : s[i] = accepted + i
  BY DEF NewTracks
<1>2. s \in Seq(Nat) /\ Len(s) = n
  <2>1. \A i \in 1..n : accepted + i \in Nat
    OBVIOUS
  <2>2. s \in [1..n -> Nat]
    BY <2>1 DEF NewTracks
  <2> QED BY <2>2
<1> HIDE DEF s
<1>3. IsInjective(s)
  BY <1>1 DEF IsInjective
<1>4. ToSet(s) = (1..accepted + n) \ (1..accepted)
  <2>1. ToSet(s) \subseteq (1..accepted + n) \ (1..accepted)
    BY <1>1 DEF ToSet
  <2>2. ASSUME NEW k \in (1..accepted + n) \ (1..accepted) PROVE k \in ToSet(s)
    <3>1. k - accepted \in 1..n /\ accepted + (k - accepted) = k
      OBVIOUS
    <3>2. s[k - accepted] = k
      BY <1>1, <3>1
    <3> QED BY <1>1, <3>1, <3>2 DEF ToSet
  <2> QED BY <2>1, <2>2
<1>5. s \in TrackSeqs(accepted + n)
  BY <1>2, <1>4 DEF TrackSeqs
<1>6. n # 0 => s # <<>>
  BY <1>2
<1> QED BY <1>3, <1>4, <1>5, <1>6 DEF s

\* What AcceptTracks makes of a call.
Accepting(g, n) ==
    IF n = 0 THEN NoCall
    ELSE [at |-> "ensure", guild |-> g, queue |-> 0, tracks |-> NewTracks(n)]

LEMMA AcceptingShape ==
    ASSUME NEW g \in Guilds, NEW n \in Nat, accepted \in Nat, NEW made \in Nat
    PROVE  /\ CallShape(Accepting(g, n), accepted + n, made)
           /\ n = 0 => Accepting(g, n) = NoCall
           /\ n # 0 => /\ Accepting(g, n).at = "ensure"
                       /\ Accepting(g, n).tracks = NewTracks(n)
<1> DEFINE s == NewTracks(n)
<1>1. s \in TrackSeqs(accepted + n) /\ (n # 0 => s # <<>>)
  BY NewTracksAre
<1>2. CASE n = 0
  BY <1>2, NoCallShape DEF Accepting
<1>3. CASE n # 0
  <2>1. Accepting(g, n) = [at |-> "ensure", guild |-> g, queue |-> 0, tracks |-> s]
    BY <1>3 DEF Accepting
  <2> HIDE DEF s
  <2>2. CallShape(Accepting(g, n), accepted + n, made)
    BY <1>1, <1>3, <2>1 DEF CallShape, CallPlaces, InHand
  <2> QED BY <1>3, <2>1, <2>2 DEF s
<1> QED BY <1>2, <1>3

\* Enqueueing accepts a number of tracks.
LEMMA Accepts ==
    ASSUME TrackShape, NEW t \in Tasks, NEW g \in Guilds, Enqueue(t, g) \/ AppendQueue(t, g)
    PROVE  /\ calls[t].at = "none"
           /\ \E n \in Nat : /\ accepted' = accepted + n /\ accepted + n <= MaxTracks
                             /\ OneCall(t, Accepting(g, n))
           /\ UNCHANGED <<queueOf, queues, taken, disturbed>>
<1>1. ASSUME NEW n \in Nat, AcceptTracks(t, g, n)
      PROVE  /\ accepted' = accepted + n /\ accepted + n <= MaxTracks
             /\ OneCall(t, Accepting(g, n))
  <2>1. accepted' = accepted + n /\ accepted + n <= MaxTracks
    BY <1>1, TracksAssumption DEF AcceptTracks, TrackShape
  <2>2. calls' = [calls EXCEPT ![t] = Accepting(g, n)]
    BY <1>1 DEF AcceptTracks, Accepting, NewTracks
  <2> QED BY <2>1, <2>2, OneCallChanges DEF TrackShape
<1>2. CASE Enqueue(t, g)
  <2>1. AcceptTracks(t, g, 1)
    BY <1>2 DEF Enqueue, ResolveTrack, TracksOf, Unresolved
  <2> QED BY <1>1, <1>2, <2>1 DEF Enqueue, CallAt
<1>3. CASE AppendQueue(t, g)
  <2>1. PICK kind \in {YtUrlType(TRUE), YtUrlType(FALSE), "KeywordList"},
             answers \in BoundedSeq(Answers, 2) :
          LET result == ResolveQueryToTracks(kind, answers, MaxTracks)
          IN  result # Unresolved /\ AcceptTracks(t, g, result[2])
    BY <1>3 DEF AppendQueue
  <2> DEFINE result == ResolveQueryToTracks(kind, answers, MaxTracks)
  <2>2. Len(answers) \in Nat
    <3>1. PICK m \in 0..2 : answers \in [1..m -> Answers]
      BY DEF BoundedSeq, SeqOf
    <3> QED BY <3>1
  <2>3. ASSUME NEW n PROVE TracksOf(n)[2] = n
    BY DEF TracksOf
  <2>4. result = Unresolved \/ \E n \in Nat : result = TracksOf(n)
    BY <2>2, TracksAssumption
    DEF ResolveQueryToTracks, ResolveTrack, ResolveTrackMany, ResolvePlaylist, YtUrlType
  <2> HIDE DEF result
  <2>5. PICK n \in Nat : AcceptTracks(t, g, n)
    BY <2>1, <2>3, <2>4 DEF result
  <2> QED BY <1>1, <1>3, <2>5 DEF AppendQueue, CallAt
<1> QED BY <1>2, <1>3

\* A call that keeps its guild and its tracks.
MovedTo(c, d, place, queue) ==
    /\ DOMAIN d = DOMAIN c /\ d.at = place /\ d.queue = queue
    /\ d.guild = c.guild /\ d.tracks = c.tracks

LEMMA CallMoves ==
    ASSUME TrackShape, NEW t \in Tasks, NEW place, NEW queue,
           \/ calls' = [calls EXCEPT ![t].at = place] /\ queue = calls[t].queue
           \/ calls' = [calls EXCEPT ![t].at = place, ![t].queue = queue]
    PROVE  OneCall(t, calls'[t]) /\ MovedTo(calls[t], calls'[t], place, queue)
<1> DEFINE c == calls[t]
<1>1. DOMAIN c = {"at", "guild", "queue", "tracks"} /\ DOMAIN calls = Tasks
  BY DEF TrackShape, CallShape
<1>2. CASE calls' = [calls EXCEPT ![t].at = place] /\ queue = c.queue
  <2> DEFINE d == [c EXCEPT !.at = place]
  <2>1. calls' = [calls EXCEPT ![t] = d]
    BY <1>2
  <2>2. MovedTo(c, d, place, queue)
    BY <1>1, <1>2 DEF MovedTo
  <2> HIDE DEF c, d
  <2>3. calls'[t] = d
    BY <1>1, <2>1
  <2> QED BY <1>1, <2>1, <2>2, <2>3, OneCallChanges DEF c
<1>3. CASE calls' = [calls EXCEPT ![t].at = place, ![t].queue = queue]
  <2> DEFINE d == [c EXCEPT !.at = place, !.queue = queue]
  <2>1. calls' = [calls EXCEPT ![t] = d]
    BY <1>1, <1>3
  <2>2. MovedTo(c, d, place, queue)
    BY <1>1 DEF MovedTo
  <2> HIDE DEF c, d
  <2>3. calls'[t] = d
    BY <1>1, <2>1
  <2> QED BY <1>1, <2>1, <2>2, <2>3, OneCallChanges DEF c
<1> QED BY <1>2, <1>3

\* What PushBack makes of a call.
LEMMA PushedShape ==
    ASSUME NEW c, NEW n \in Nat, NEW made \in Nat, CallShape(c, n, made), c.at = "push"
    PROVE  /\ CallShape(Pushed(c), n, made)
           /\ Len(c.tracks) = 1 => Pushed(c) = NoCall
           /\ Len(c.tracks) # 1 => Pushed(c).at = "ensure" /\ Pushed(c).tracks = Tail(c.tracks)
<1> DEFINE rest == Tail(c.tracks)
<1>1. c.tracks \in Seq(Nat) /\ ToSet(c.tracks) \subseteq 1..n /\ c.tracks # <<>>
  BY DEF CallShape, TrackSeqs, InHand
<1>2. rest \in Seq(Nat) /\ ToSet(rest) \subseteq 1..n /\ (Len(c.tracks) # 1 => rest # <<>>)
  BY <1>1, TailKeeps
<1>3. CASE Len(c.tracks) = 1
  BY <1>3, NoCallShape DEF Pushed
<1>4. CASE Len(c.tracks) # 1
  <2>1. Pushed(c) = [c EXCEPT !.at = "ensure", !.queue = 0, !.tracks = rest]
    BY <1>4 DEF Pushed, CallShape
  <2> HIDE DEF rest
  <2>2. /\ DOMAIN Pushed(c) = DOMAIN c /\ Pushed(c).at = "ensure" /\ Pushed(c).queue = 0
        /\ Pushed(c).guild = c.guild /\ Pushed(c).tracks = rest
    BY <2>1 DEF CallShape
  <2>3. CallShape(Pushed(c), n, made)
    BY <1>2, <1>4, <2>2 DEF CallShape, TrackSeqs, CallPlaces, InHand
  <2> QED BY <1>4, <2>2, <2>3 DEF rest
<1> QED BY <1>3, <1>4

\* The step of one task keeps the shape if what it makes is well formed.
LEMMA ShapeFrom ==
    ASSUME TrackShape, NEW t \in Tasks, NEW c, OneCall(t, c),
           accepted' \in accepted..MaxTracks, taken' \subseteq 1..accepted',
           queues' \in Seq(TrackSeqs(accepted')), Len(queues) <= Len(queues'),
           CallShape(c, accepted', Len(queues')),
           DOMAIN queueOf' \subseteq Guilds,
           \A g \in DOMAIN queueOf' : queueOf'[g] \in 1..Len(queues')
    PROVE  TrackShape'
<1>1. accepted \in Nat /\ accepted' \in Nat /\ accepted <= accepted' /\ accepted' \in 0..MaxTracks
  BY TracksAssumption DEF TrackShape
<1>2. Len(queues) \in Nat /\ Len(queues') \in Nat
  BY DEF TrackShape
<1>3. \A u \in Tasks \ {t} : CallShape(calls[u], accepted', Len(queues'))
  BY <1>1, <1>2, ShapesGrow DEF TrackShape
<1>4. \A u \in Tasks : CallShape(calls'[u], accepted', Len(queues'))
  BY <1>3 DEF OneCall
<1>5. DOMAIN calls' = Tasks
  BY DEF OneCall, TrackShape
<1> QED BY <1>1, <1>4, <1>5 DEF TrackShape

\* Nothing happens to the tracks: the invariant's shape, and facts, of such a step.
LEMMA QuietShape ==
    ASSUME TrackShape, NEW t \in Tasks, NEW c, OneCall(t, c),
           UNCHANGED <<accepted, taken>>,
           \/ UNCHANGED <<queueOf, queues>>
           \/ \E g \in Guilds : /\ queues' = Append(queues, <<>>)
                                /\ queueOf' = Put(queueOf, g, Len(queues'))
    PROVE  /\ CallShape(c, accepted, Len(queues')) => TrackShape'
           /\ Len(queues') \in Nat /\ Len(queues) <= Len(queues')
<1>1. <<>> \in TrackSeqs(accepted)
  BY DEF TrackSeqs, ToSet
<1>2. /\ queues \in Seq(TrackSeqs(accepted)) /\ accepted \in accepted..MaxTracks
      /\ taken \subseteq 1..accepted /\ DOMAIN queueOf \subseteq Guilds
      /\ \A g \in DOMAIN queueOf : queueOf[g] \in 1..Len(queues)
  BY TracksAssumption DEF TrackShape
<1>3. CASE UNCHANGED <<queueOf, queues>>
  BY <1>2, <1>3, ShapeFrom
<1>4. ASSUME NEW g \in Guilds, queues' = Append(queues, <<>>),
             queueOf' = Put(queueOf, g, Len(queues'))
      PROVE  /\ CallShape(c, accepted, Len(queues')) => TrackShape'
             /\ Len(queues') \in Nat /\ Len(queues) <= Len(queues')
  <2>1. /\ queues' \in Seq(TrackSeqs(accepted)) /\ Len(queues') = Len(queues) + 1
        /\ Len(queues) \in Nat
    BY <1>1, <1>2, <1>4
  <2>2. DOMAIN queueOf' \subseteq Guilds /\ \A h \in DOMAIN queueOf' : queueOf'[h] \in 1..Len(queues')
    BY <1>2, <1>4, <2>1 DEF Put
  <2> QED BY <1>2, <2>1, <2>2, ShapeFrom
<1> QED BY <1>3, <1>4

LEMMA EditShape ==
    ASSUME TrackShape, NEW q \in 1..Len(queues), NEW n \in accepted..MaxTracks,
           NEW s \in TrackSeqs(n), queues' = [queues EXCEPT ![q] = s]
    PROVE  queues' \in Seq(TrackSeqs(n)) /\ Len(queues') = Len(queues)
<1>1. /\ accepted \in Nat /\ n \in Nat /\ accepted <= n
      /\ queues \in Seq(TrackSeqs(accepted))
  BY TracksAssumption DEF TrackShape
<1>2. TrackSeqs(accepted) \subseteq TrackSeqs(n)
  BY <1>1, ShapesGrow
<1> QED BY <1>1, <1>2

LEMMA TracksShape ==
    ASSUME TrackShape, NEW g \in Guilds
    PROVE  /\ Tracks(g) \in Seq(Nat) /\ ToSet(Tracks(g)) \subseteq 1..accepted
           /\ g \in DOMAIN queueOf => /\ Tracks(g) = queues[queueOf[g]]
                                      /\ queueOf[g] \in 1..Len(queues)
<1>1. CASE g \in DOMAIN queueOf
  <2>1. queueOf[g] \in 1..Len(queues) /\ queues \in Seq(TrackSeqs(accepted))
    BY <1>1 DEF TrackShape
  <2>2. queues[queueOf[g]] \in TrackSeqs(accepted)
    BY <2>1
  <2> QED BY <1>1, <2>1, <2>2 DEF Tracks, TrackSeqs
<1>2. CASE g \notin DOMAIN queueOf
  BY <1>2 DEF Tracks, ToSet
<1> QED BY <1>1, <1>2

\* One call on the guild's queue replaces its tracks.
LEMMA ChangesShape ==
    ASSUME TrackShape, NEW t \in Tasks, NEW g \in Guilds, NEW s \in Seq(Nat), Changes(t, g, s),
           accepted' \in accepted..MaxTracks, taken' \subseteq 1..accepted',
           ToSet(s) \subseteq 1..accepted'
    PROVE  TrackShape'
<1>1. /\ g \in DOMAIN queueOf /\ queues' = [queues EXCEPT ![queueOf[g]] = s]
      /\ queueOf' = queueOf /\ calls' = calls
  BY DEF Changes
<1>2. queueOf[g] \in 1..Len(queues)
  BY <1>1, TracksShape
<1>3. s \in TrackSeqs(accepted')
  BY DEF TrackSeqs
<1>4. queues' \in Seq(TrackSeqs(accepted')) /\ Len(queues') = Len(queues) /\ Len(queues) \in Nat
  <2> DEFINE q == queueOf[g]
             n == accepted'
  <2>1. /\ q \in 1..Len(queues) /\ n \in accepted..MaxTracks /\ s \in TrackSeqs(n)
        /\ queues' = [queues EXCEPT ![q] = s]
    BY <1>1, <1>2, <1>3
  <2> HIDE DEF q, n
  <2>2. queues' \in Seq(TrackSeqs(n)) /\ Len(queues') = Len(queues)
    BY <2>1, EditShape
  <2> QED BY <2>2 DEF n, TrackShape
<1>5. OneCall(t, calls[t])
  BY <1>1 DEF OneCall
<1>6. CallShape(calls[t], accepted', Len(queues'))
  <2>1. accepted \in Nat /\ accepted' \in Nat /\ accepted <= accepted'
    BY TracksAssumption DEF TrackShape
  <2> QED BY <1>4, <2>1, ShapesGrow DEF TrackShape
<1> QED BY <1>1, <1>4, <1>5, <1>6, ShapeFrom DEF TrackShape

\* What the calls on a guild's queue make of its tracks.
LEMMA EditedTracks ==
    ASSUME TrackShape, NEW t \in Tasks, NEW g \in Guilds,
           Take(t, g) \/ ClearTracks(t, g) \/ InsertTrack(t, g) \/ AppendTracks(t, g)
    PROVE  \E s \in Seq(Nat), in \in SUBSET Nat, out \in SUBSET ToSet(Tracks(g)) :
             /\ Changes(t, g, s)
             /\ taken' = taken \union out
             /\ ToSet(s) \subseteq ToSet(Tracks(g)) \union in
             /\ accepted' \in accepted..MaxTracks
             /\ in = (1..accepted') \ (1..accepted)
             /\ IsInjective(Tracks(g)) =>
                  IsInjective(s) /\ ToSet(s) = (ToSet(Tracks(g)) \ out) \union in
<1> DEFINE q == Tracks(g)
<1>0. /\ q \in Seq(Nat) /\ ToSet(q) \subseteq 1..accepted
      /\ accepted \in Nat /\ accepted \in 0..MaxTracks
  BY TracksShape, TracksAssumption DEF TrackShape
<1> HIDE DEF q
<1>1. CASE Take(t, g)
  <2>1. PICK i \in DOMAIN q : Changes(t, g, RemoveAt(q, i)) /\ taken' = taken \union {q[i]}
    BY <1>1 DEF Take, q
  <2>2. i \in 1..Len(q) /\ {q[i]} \subseteq ToSet(q)
    BY <1>0, <2>1 DEF ToSet
  <2>3. accepted' = accepted /\ {} = (1..accepted') \ (1..accepted)
        /\ accepted' \in accepted..MaxTracks
    BY <1>0, <1>1, TracksAssumption DEF Take
  <2> DEFINE s == RemoveAt(q, i)
  <2>4. /\ s \in Seq(Nat) /\ ToSet(s) \subseteq ToSet(q) \union {}
        /\ IsInjective(q) => IsInjective(s) /\ ToSet(s) = (ToSet(q) \ {q[i]}) \union {}
    BY <1>0, <2>2, RemoveAtKeeps
  <2> HIDE DEF s
  <2> QED BY <2>1, <2>2, <2>3, <2>4 DEF q, s
<1>2. CASE ClearTracks(t, g)
  <2>1. Changes(t, g, <<>>) /\ taken' = taken \union ToSet(q) /\ accepted' = accepted
    BY <1>2 DEF ClearTracks, q
  <2>2. {} = (1..accepted') \ (1..accepted) /\ accepted' \in accepted..MaxTracks
    BY <1>0, <2>1, TracksAssumption
  <2>3. /\ <<>> \in Seq(Nat) /\ ToSet(<<>>) = {} /\ IsInjective(<<>>)
    BY DEF ToSet, IsInjective
  <2>4. ToSet(<<>>) = (ToSet(q) \ ToSet(q)) \union {} /\ ToSet(q) \in SUBSET ToSet(q)
    BY <2>3
  <2> QED BY <2>1, <2>2, <2>3, <2>4 DEF q
<1>3. ASSUME accepted < MaxTracks, accepted' = accepted + 1
      PROVE  /\ accepted' \in Nat /\ accepted' \in accepted..MaxTracks
             /\ {accepted'} = (1..accepted') \ (1..accepted)
             /\ accepted' \notin ToSet(q)
  BY <1>0, <1>3, TracksAssumption
<1>4. CASE InsertTrack(t, g)
  <2>1. accepted < MaxTracks /\ accepted' = accepted + 1 /\ taken' = taken
    BY <1>4 DEF InsertTrack
  <2> DEFINE e == accepted'
  <2>2. /\ e \in Nat /\ accepted' \in accepted..MaxTracks
        /\ {e} = (1..accepted') \ (1..accepted) /\ e \notin ToSet(q)
    BY <1>3, <2>1
  <2>3. PICK i \in 1..Len(q) + 1 : Changes(t, g, InsertAt(q, i, e))
    BY <1>4 DEF InsertTrack, q
  <2> HIDE DEF e
  <2> DEFINE s == InsertAt(q, i, e)
  <2>4. /\ s \in Seq(Nat) /\ ToSet(s) = ToSet(q) \union {e}
        /\ IsInjective(q) /\ e \notin ToSet(q) => IsInjective(s)
    BY <1>0, <2>2, InsertAtKeeps
  <2> HIDE DEF s
  <2>5. taken' = taken \union {} /\ {} \in SUBSET ToSet(q) /\ {e} \in SUBSET Nat
    BY <2>1, <2>2
  <2>6. Changes(t, g, s)
    BY <2>3 DEF s
  <2>7. ToSet(s) \subseteq ToSet(q) \union {e} /\ ToSet(s) = (ToSet(q) \ {}) \union {e}
    BY <2>4
  <2> QED BY <2>2, <2>4, <2>5, <2>6, <2>7 DEF q
<1>5. CASE AppendTracks(t, g)
  <2>1. accepted < MaxTracks /\ accepted' = accepted + 1 /\ taken' = taken
    BY <1>5 DEF AppendTracks
  <2> DEFINE e == accepted'
  <2>2. /\ e \in Nat /\ accepted' \in accepted..MaxTracks
        /\ {e} = (1..accepted') \ (1..accepted) /\ e \notin ToSet(q)
    BY <1>3, <2>1
  <2>3. Changes(t, g, Append(q, e))
    BY <1>5 DEF AppendTracks, q
  <2> HIDE DEF e
  <2> DEFINE s == Append(q, e)
  <2>4. /\ s \in Seq(Nat) /\ ToSet(s) = ToSet(q) \union {e}
        /\ IsInjective(q) /\ e \notin ToSet(q) => IsInjective(s)
    BY <1>0, <2>2, AppendKeeps
  <2> HIDE DEF s
  <2>5. taken' = taken \union {} /\ {} \in SUBSET ToSet(q) /\ {e} \in SUBSET Nat
    BY <2>1, <2>2
  <2>6. Changes(t, g, s)
    BY <2>3 DEF s
  <2>7. ToSet(s) \subseteq ToSet(q) \union {e} /\ ToSet(s) = (ToSet(q) \ {}) \union {e}
    BY <2>4
  <2> QED BY <2>2, <2>4, <2>5, <2>6, <2>7 DEF q
<1> QED BY <1>1, <1>2, <1>4, <1>5

LEMMA Pushes ==
    ASSUME TrackShape, NEW t \in Tasks, PushBack(t)
    PROVE  LET c == calls[t]
               q == queues[c.queue]
           IN  /\ c.at = "push" /\ c.queue \in 1..Len(queues)
               /\ c.tracks \in Seq(Nat) /\ c.tracks # <<>> /\ ToSet(c.tracks) \subseteq 1..accepted
               /\ q \in Seq(Nat) /\ ToSet(q) \subseteq 1..accepted
               /\ OneCall(t, Pushed(c))
               /\ queues' = [queues EXCEPT ![c.queue] = Append(q, Head(c.tracks))]
               /\ disturbed' = (disturbed \/ Halfway(t, {"shuffle"}))
               /\ UNCHANGED <<queueOf, accepted, taken>>
<1> DEFINE c == calls[t]
           q == queues[c.queue]
<1>1. c.at = "push" /\ CallShape(c, accepted, Len(queues)) /\ DOMAIN calls = Tasks
  BY DEF PushBack, CallAt, TrackShape
<1>2. /\ c.queue \in 1..Len(queues) /\ c.tracks \in Seq(Nat) /\ c.tracks # <<>>
      /\ ToSet(c.tracks) \subseteq 1..accepted
  BY <1>1 DEF CallShape, TrackSeqs, InHand
<1>3. q \in Seq(Nat) /\ ToSet(q) \subseteq 1..accepted
  <2>1. q \in TrackSeqs(accepted)
    BY <1>2 DEF TrackShape
  <2> QED BY <2>1 DEF TrackSeqs
<1>4. OneCall(t, Pushed(c))
  <2>1. calls' = [calls EXCEPT ![t] = Pushed(c)]
    BY <1>1 DEF PushBack
  <2> QED BY <1>1, <2>1, OneCallChanges
<1>5. queues' = [queues EXCEPT ![c.queue] = Append(q, Head(c.tracks))]
  BY DEF PushBack
<1> QED BY <1>1, <1>2, <1>3, <1>4, <1>5 DEF PushBack

LEMMA Shuffles ==
    ASSUME TrackShape, NEW t \in Tasks, ShuffleWrites(t)
    PROVE  LET c == calls[t]
           IN  /\ c.at = "shuffle" /\ c.queue \in 1..Len(queues)
               /\ OneCall(t, NoCall)
               /\ \E s \in TrackSeqs(accepted) :
                    /\ queues' = [queues EXCEPT ![c.queue] = s]
                    /\ ToSet(s) = ToSet(c.tracks)
                    /\ IsInjective(c.tracks) => IsInjective(s)
               /\ disturbed' = (disturbed \/ Halfway(t, {"shuffle"}))
               /\ UNCHANGED <<queueOf, accepted, taken>>
<1> DEFINE c == calls[t]
<1>1. c.at = "shuffle" /\ CallShape(c, accepted, Len(queues)) /\ DOMAIN calls = Tasks
  BY DEF ShuffleWrites, CallAt, TrackShape
<1>2. /\ c.queue \in 1..Len(queues) /\ c.tracks \in Seq(Nat)
      /\ ToSet(c.tracks) \subseteq 1..accepted
  BY <1>1 DEF CallShape, TrackSeqs
<1>3. OneCall(t, NoCall)
  BY <1>1, OneCallChanges DEF ShuffleWrites
<1>4. PICK p \in Bijection(DOMAIN c.tracks, DOMAIN c.tracks) :
        queues' = [queues EXCEPT ![c.queue] = [i \in DOMAIN c.tracks |-> c.tracks[p[i]]]]
  BY DEF ShuffleWrites
<1> DEFINE s == [i \in DOMAIN c.tracks |-> c.tracks[p[i]]]
<1>5. /\ s \in Seq(Nat) /\ ToSet(s) = ToSet(c.tracks)
      /\ IsInjective(c.tracks) => IsInjective(s)
  BY <1>2, PermutationKeeps
<1>6. queues' = [queues EXCEPT ![c.queue] = s]
  BY <1>4
<1> HIDE DEF s
<1>7. s \in TrackSeqs(accepted)
  BY <1>2, <1>5 DEF TrackSeqs
<1> QED BY <1>1, <1>2, <1>3, <1>5, <1>6, <1>7 DEF ShuffleWrites

\* Every step keeps the queues and the calls well formed, disturbed or not.
LEMMA TrackShapeStep == TrackShape /\ [TrackNext]_trackVars => TrackShape'
<1> SUFFICES ASSUME TrackShape, [TrackNext]_trackVars PROVE TrackShape'
  OBVIOUS
<1>0. /\ accepted \in Nat /\ Len(queues) \in Nat /\ accepted \in accepted..MaxTracks
      /\ taken \subseteq 1..accepted /\ DOMAIN queueOf \subseteq Guilds
      /\ \A g \in DOMAIN queueOf : queueOf[g] \in 1..Len(queues)
      /\ queues \in Seq(TrackSeqs(accepted))
  BY TracksAssumption DEF TrackShape
<1>1. ASSUME NEW t \in Tasks, EnsureQueue(t) PROVE TrackShape'
  <2> DEFINE c == calls[t]
             d == calls'[t]
  <2>1. c.at = "ensure" /\ CallShape(c, accepted, Len(queues)) /\ c.guild \in Guilds
    BY <1>1 DEF EnsureQueue, CallAt, TrackShape, CallShape
  <2>2. UNCHANGED <<queueOf, queues, accepted, taken>>
    BY <1>1 DEF EnsureQueue
  <2>3. \E place \in {"push", "make"}, queue \in Nat :
          /\ OneCall(t, d) /\ MovedTo(c, d, place, queue)
          /\ place = "push" => queue \in 1..Len(queues)
    <3>1. CASE c.guild \in DOMAIN queueOf
      <4> DEFINE queue == queueOf[c.guild]
      <4>1. calls' = [calls EXCEPT ![t].at = "push", ![t].queue = queue]
        BY <1>1, <3>1 DEF EnsureQueue
      <4>2. queue \in 1..Len(queues)
        BY <1>0, <3>1
      <4> HIDE DEF queue
      <4>3. OneCall(t, d) /\ MovedTo(c, d, "push", queue)
        BY <4>1, CallMoves
      <4> HIDE DEF c, d
      <4> QED BY <1>0, <4>2, <4>3
    <3>2. CASE c.guild \notin DOMAIN queueOf
      <4>1. calls' = [calls EXCEPT ![t].at = "make"]
        BY <1>1, <3>2 DEF EnsureQueue
      <4>2. OneCall(t, d) /\ MovedTo(c, d, "make", c.queue)
        BY <4>1, CallMoves
      <4>3. c.queue \in Nat
        BY <2>1 DEF CallShape
      <4> HIDE DEF c, d
      <4> QED BY <4>2, <4>3
    <3> QED BY <3>1, <3>2
  <2> HIDE DEF c, d
  <2>4. CallShape(d, accepted, Len(queues)) /\ OneCall(t, d)
    BY <2>1, <2>3 DEF CallShape, MovedTo, CallPlaces, InHand
  <2> QED BY <2>2, <2>4, QuietShape
<1>2. ASSUME NEW t \in Tasks, MakeQueue(t) PROVE TrackShape'
  <2> DEFINE c == calls[t]
             d == calls'[t]
  <2>1. c.at = "make" /\ CallShape(c, accepted, Len(queues)) /\ c.guild \in Guilds
    BY <1>2 DEF MakeQueue, CallAt, TrackShape, CallShape
  <2>2. /\ UNCHANGED <<accepted, taken>> /\ queues' = Append(queues, <<>>)
        /\ queueOf' = Put(queueOf, c.guild, Len(queues'))
    BY <1>2 DEF MakeQueue
  <2>3. OneCall(t, d) /\ MovedTo(c, d, "push", Len(queues'))
    <3> DEFINE queue == Len(queues')
    <3>1. calls' = [calls EXCEPT ![t].at = "push", ![t].queue = queue]
      BY <1>2 DEF MakeQueue
    <3> HIDE DEF queue
    <3>2. OneCall(t, d) /\ MovedTo(c, d, "push", queue)
      BY <3>1, CallMoves
    <3> QED BY <3>2 DEF queue
  <2>4. Len(queues') = Len(queues) + 1
    BY <1>0, <2>2
  <2> HIDE DEF c, d
  <2>5. CallShape(d, accepted, Len(queues'))
    BY <1>0, <2>1, <2>3, <2>4 DEF CallShape, MovedTo, CallPlaces, InHand
  <2> QED BY <2>1, <2>2, <2>3, <2>5, QuietShape
<1>3. ASSUME NEW t \in Tasks, PushBack(t) PROVE TrackShape'
  <2> DEFINE c == calls[t]
             q == queues[c.queue]
             e == Head(c.tracks)
  <2>1. /\ c.at = "push" /\ c.queue \in 1..Len(queues)
        /\ c.tracks \in Seq(Nat) /\ c.tracks # <<>> /\ ToSet(c.tracks) \subseteq 1..accepted
        /\ q \in Seq(Nat) /\ ToSet(q) \subseteq 1..accepted
        /\ OneCall(t, Pushed(c))
        /\ queues' = [queues EXCEPT ![c.queue] = Append(q, e)]
        /\ UNCHANGED <<queueOf, accepted, taken>>
    BY <1>3, Pushes
  <2>2. CallShape(c, accepted, Len(queues))
    BY DEF TrackShape
  <2>3. e \in ToSet(c.tracks)
    BY <2>1, TailKeeps
  <2>4. CallShape(Pushed(c), accepted, Len(queues))
    BY <1>0, <2>1, <2>2, PushedShape
  <2> HIDE DEF c, q, e
  <2>5. e \in Nat /\ e \in 1..accepted
    BY <1>0, <2>1, <2>3
  <2> DEFINE s == Append(q, e)
  <2>6. s \in TrackSeqs(accepted)
    BY <2>1, <2>5, AppendKeeps DEF TrackSeqs
  <2> HIDE DEF s
  <2>7. queues' \in Seq(TrackSeqs(accepted)) /\ Len(queues') = Len(queues)
    BY <1>0, <2>1, <2>6, EditShape DEF s
  <2> QED BY <1>0, <2>1, <2>4, <2>7, ShapeFrom
<1>4. ASSUME NEW t \in Tasks, ShuffleWrites(t) PROVE TrackShape'
  <2> DEFINE q == calls[t].queue
  <2>1. /\ q \in 1..Len(queues) /\ OneCall(t, NoCall)
        /\ \E s \in TrackSeqs(accepted) : queues' = [queues EXCEPT ![q] = s]
        /\ UNCHANGED <<queueOf, accepted, taken>>
    BY <1>4, Shuffles
  <2> HIDE DEF q
  <2>2. queues' \in Seq(TrackSeqs(accepted)) /\ Len(queues') = Len(queues)
    BY <1>0, <2>1, EditShape
  <2>3. CallShape(NoCall, accepted, Len(queues))
    BY <1>0, NoCallShape
  <2> QED BY <1>0, <2>1, <2>2, <2>3, ShapeFrom
<1>5. ASSUME NEW t \in Tasks, MakeEmptyQueue(t) PROVE TrackShape'
  <2> DEFINE g == calls[t].guild
  <2>1. /\ UNCHANGED <<accepted, taken>> /\ queues' = Append(queues, <<>>)
        /\ queueOf' = Put(queueOf, g, Len(queues')) /\ calls' = [calls EXCEPT ![t] = NoCall]
    BY <1>5 DEF MakeEmptyQueue
  <2>2. g \in Guilds
    BY <1>5 DEF MakeEmptyQueue, CallAt, TrackShape, CallShape
  <2>3. OneCall(t, NoCall)
    BY <2>1, OneCallChanges DEF TrackShape
  <2> HIDE DEF g
  <2>4. Len(queues') = Len(queues) + 1
    BY <1>0, <2>1
  <2>5. CallShape(NoCall, accepted, Len(queues'))
    BY <1>0, <2>4, NoCallShape
  <2> QED BY <2>1, <2>2, <2>3, <2>5, QuietShape
<1>6. ASSUME NEW t \in Tasks, NEW g \in Guilds, Enqueue(t, g) \/ AppendQueue(t, g)
      PROVE  TrackShape'
  <2>1. PICK n \in Nat : /\ accepted' = accepted + n /\ accepted + n <= MaxTracks
                         /\ OneCall(t, Accepting(g, n))
    BY <1>6, Accepts
  <2>2. UNCHANGED <<queueOf, queues, taken, disturbed>>
    BY <1>6, Accepts
  <2> DEFINE c == Accepting(g, n)
             m == accepted + n
  <2>3. CallShape(c, m, Len(queues))
    BY <1>0, AcceptingShape
  <2>4. m \in Nat /\ accepted <= m /\ m \in accepted..MaxTracks /\ 1..accepted \subseteq 1..m
    BY <1>0, <2>1, TracksAssumption
  <2>5. accepted' = m /\ OneCall(t, c)
    BY <2>1
  <2> HIDE DEF c, m
  <2>6. TrackSeqs(accepted) \subseteq TrackSeqs(m)
    BY <1>0, <2>4, ShapesGrow
  <2>7. queues \in Seq(TrackSeqs(m))
    BY <1>0, <2>6
  <2> QED BY <1>0, <2>2, <2>3, <2>4, <2>5, <2>7, ShapeFrom
<1>7. ASSUME NEW t \in Tasks, NEW g \in Guilds,
             Take(t, g) \/ ClearTracks(t, g) \/ InsertTrack(t, g) \/ AppendTracks(t, g)
      PROVE  TrackShape'
  <2>1. PICK s \in Seq(Nat), in \in SUBSET Nat, out \in SUBSET ToSet(Tracks(g)) :
             /\ Changes(t, g, s)
             /\ taken' = taken \union out
             /\ ToSet(s) \subseteq ToSet(Tracks(g)) \union in
             /\ accepted' \in accepted..MaxTracks
             /\ in = (1..accepted') \ (1..accepted)
    BY <1>7, EditedTracks
  <2>2. ToSet(Tracks(g)) \subseteq 1..accepted
    BY TracksShape
  <2>3. 1..accepted \subseteq 1..accepted'
    BY <1>0, <2>1, TracksAssumption
  <2>4. taken' \subseteq 1..accepted' /\ ToSet(s) \subseteq 1..accepted'
    BY <1>0, <2>1, <2>2, <2>3
  <2> QED BY <2>1, <2>4, ChangesShape
<1>8. ASSUME NEW t \in Tasks, NEW g \in Guilds, ShuffleCopies(t, g) PROVE TrackShape'
  <2> DEFINE q == queueOf[g]
             s == Tracks(g)
             c == [at |-> "shuffle", guild |-> g, queue |-> q, tracks |-> s]
  <2>1. /\ g \in DOMAIN queueOf /\ calls' = [calls EXCEPT ![t] = c]
        /\ UNCHANGED <<queueOf, queues, accepted, taken, disturbed>>
    BY <1>8 DEF ShuffleCopies
  <2>2. q \in 1..Len(queues) /\ s \in TrackSeqs(accepted)
    BY <2>1, TracksShape DEF TrackSeqs
  <2> HIDE DEF q, s
  <2>3. CallShape(c, accepted, Len(queues))
    BY <1>0, <2>2 DEF CallShape, CallPlaces, InHand
  <2> HIDE DEF c
  <2>4. OneCall(t, c)
    BY <2>1, OneCallChanges DEF TrackShape
  <2> QED BY <2>1, <2>3, <2>4, QuietShape
<1>9. ASSUME NEW t \in Tasks, NEW g \in Guilds, BuildDisplay(t, g) PROVE TrackShape'
  <2> DEFINE c == calls[t]
             d == [c EXCEPT !.at = "display", !.guild = g]
  <2>1. /\ calls' = [calls EXCEPT ![t] = d]
        /\ UNCHANGED <<queueOf, queues, accepted, taken, disturbed>>
    BY <1>9 DEF BuildDisplay, TrackShape
  <2>2. CallShape(c, accepted, Len(queues))
    BY DEF TrackShape
  <2> HIDE DEF c
  <2>3. CallShape(d, accepted, Len(queues))
    <3>1. /\ DOMAIN d = DOMAIN c /\ d.at = "display" /\ d.guild = g
          /\ d.queue = c.queue /\ d.tracks = c.tracks
      BY <2>2 DEF CallShape
    <3> HIDE DEF d
    <3> QED BY <2>2, <3>1 DEF CallShape, CallPlaces, InHand
  <2> HIDE DEF d
  <2>4. OneCall(t, d)
    BY <2>1, OneCallChanges DEF TrackShape
  <2> QED BY <2>1, <2>3, <2>4, QuietShape
<1>10. CASE UNCHANGED trackVars
  BY <1>10 DEF trackVars, TrackShape, CallShape
<1> QED
  BY <1>1, <1>2, <1>3, <1>4, <1>5, <1>6, <1>7, <1>8, <1>9, <1>10 DEF TrackNext

LEMMA TrackShapeInit == TrackInit => TrackShape
<1> SUFFICES ASSUME TrackInit PROVE TrackShape
  OBVIOUS
<1>1. 0 \in 0..MaxTracks /\ Len(queues) = 0 /\ queues \in Seq(TrackSeqs(accepted))
  BY TracksAssumption DEF TrackInit
<1>2. \A t \in Tasks : CallShape(calls[t], accepted, Len(queues))
  BY <1>1, NoCallShape DEF TrackInit
<1>3. DOMAIN queueOf = {}
  BY DEF TrackInit
<1> QED BY <1>1, <1>2, <1>3 DEF TrackInit, TrackShape

\* The queues of the library are well formed, also where calls get into each other's way.
THEOREM TracksTyped == TrackSpec => []TrackTypeOK
<1> DEFINE Marked == disturbed \in BOOLEAN
<1>1. TrackShape /\ Marked => TrackTypeOK
  <2> SUFFICES ASSUME TrackShape, disturbed \in BOOLEAN PROVE TrackTypeOK
    OBVIOUS
  <2>1. DOMAIN queues = 1..Len(queues)
    BY DEF TrackShape
  <2>2. ASSUME NEW t \in Tasks
        PROVE  /\ calls[t].at \in InHand \union {"none", "shuffle", "display"}
               /\ calls[t].queue \in Nat /\ calls[t].tracks \in TrackSeqs(accepted)
               /\ calls[t].at # "none" => calls[t].guild \in Guilds
               /\ calls[t].at \in InHand => calls[t].tracks # <<>>
               /\ calls[t].at \in {"push", "shuffle"} => calls[t].queue \in DOMAIN queues
    BY <2>1 DEF TrackShape, CallShape, CallPlaces
  <2> QED BY <2>1, <2>2 DEF TrackShape, TrackTypeOK
<1>2. TrackInit => Marked
  BY DEF TrackInit
<1>3. Marked /\ [TrackNext]_trackVars => Marked'
  <2>1. ASSUME NEW t, \/ EnsureQueue(t) \/ MakeQueue(t) \/ PushBack(t)
                     \/ ShuffleWrites(t) \/ MakeEmptyQueue(t)
        PROVE  Marked => Marked'
    BY <2>1 DEF EnsureQueue, MakeQueue, PushBack, ShuffleWrites, MakeEmptyQueue
  <2>2. ASSUME NEW t, NEW g, \/ Enqueue(t, g) \/ AppendQueue(t, g)
                            \/ ShuffleCopies(t, g) \/ BuildDisplay(t, g)
        PROVE  Marked => Marked'
    BY <2>2 DEF Enqueue, AppendQueue, ShuffleCopies, BuildDisplay
  <2>3. ASSUME NEW t, NEW g, \/ Take(t, g) \/ ClearTracks(t, g)
                            \/ InsertTrack(t, g) \/ AppendTracks(t, g)
        PROVE  Marked => Marked'
    BY <2>3 DEF Take, ClearTracks, InsertTrack, AppendTracks, Changes
  <2>4. UNCHANGED trackVars => (Marked => Marked')
    BY DEF trackVars
  <2> HIDE DEF Marked
  <2> QED BY <2>1, <2>2, <2>3, <2>4 DEF TrackNext
<1> HIDE DEF Marked
<1> QED BY <1>1, <1>2, <1>3, TrackShapeInit, TrackShapeStep, PTL DEF TrackSpec

\* Each track is in one place: the queue of a guild, the hands of a task, or taken.
Ledger(queued, held, gone, n) ==
    /\ \A g, h \in Guilds : g # h => queued[g] \cap queued[h] = {}
    /\ \A t, u \in Tasks : t # u => held[t] \cap held[u] = {}
    /\ \A g \in Guilds, t \in Tasks : queued[g] \cap held[t] = {}
    /\ \A g \in Guilds : queued[g] \subseteq (1..n) \ gone
    /\ \A t \in Tasks : held[t] \subseteq (1..n) \ gone
    /\ gone \subseteq 1..n
    /\ \A k \in (1..n) \ gone :
         (\E g \in Guilds : k \in queued[g]) \/ (\E t \in Tasks : k \in held[t])

\* A step moves tracks between one queue, one task, the taken and the new ones.
LEMMA LedgerStep ==
    ASSUME NEW Q, NEW H, NEW K, NEW n \in Nat, NEW R, NEW J, NEW L, NEW m \in Nat, n <= m,
           Ledger(Q, H, K, n), NEW g \in Guilds, NEW t \in Tasks,
           \A h \in Guilds \ {g} : R[h] = Q[h],
           \A u \in Tasks \ {t} : J[u] = H[u],
           K \subseteq L, R[g] \cap J[t] = {}, R[g] \cap L = {}, J[t] \cap L = {},
           R[g] \union J[t] \union (L \ K)
             = Q[g] \union H[t] \union ((1..m) \ (1..n))
    PROVE  Ledger(R, J, L, m)
<1> DEFINE N == 1..n
           M == 1..m
<1>1. N \subseteq M
  OBVIOUS
<1>2. /\ \A h, i \in Guilds : h # i => Q[h] \cap Q[i] = {}
      /\ \A u, v \in Tasks : u # v => H[u] \cap H[v] = {}
      /\ \A h \in Guilds, u \in Tasks : Q[h] \cap H[u] = {}
      /\ \A h \in Guilds : Q[h] \subseteq N \ K
      /\ \A u \in Tasks : H[u] \subseteq N \ K
      /\ K \subseteq N
      /\ \A k \in N \ K : (\E h \in Guilds : k \in Q[h]) \/ (\E u \in Tasks : k \in H[u])
  BY DEF Ledger
<1>3. R[g] \union J[t] \union (L \ K) = Q[g] \union H[t] \union (M \ N)
  OBVIOUS
<1> HIDE DEF N, M
<1>4. L \subseteq M
  BY <1>1, <1>2, <1>3
<1>5. ASSUME NEW h \in Guilds \ {g} PROVE R[h] \cap R[g] = {} /\ R[h] \cap J[t] = {}
  BY <1>2, <1>3
<1>6. ASSUME NEW u \in Tasks \ {t} PROVE J[u] \cap J[t] = {} /\ J[u] \cap R[g] = {}
  BY <1>2, <1>3
<1>7. \A h, i \in Guilds : h # i => R[h] \cap R[i] = {}
  BY <1>2, <1>5
<1>8. \A u, v \in Tasks : u # v => J[u] \cap J[v] = {}
  BY <1>2, <1>6
<1>9. \A h \in Guilds, u \in Tasks : R[h] \cap J[u] = {}
  BY <1>2, <1>5, <1>6
<1>10. ASSUME NEW h \in Guilds PROVE R[h] \subseteq M \ L
  <2>1. CASE h = g
    BY <1>1, <1>2, <1>3, <2>1
  <2>2. CASE h # g
    BY <1>1, <1>2, <1>3, <2>2
  <2> QED BY <2>1, <2>2
<1>11. ASSUME NEW u \in Tasks PROVE J[u] \subseteq M \ L
  <2>1. CASE u = t
    BY <1>1, <1>2, <1>3, <2>1
  <2>2. CASE u # t
    BY <1>1, <1>2, <1>3, <2>2
  <2> QED BY <2>1, <2>2
<1>12. ASSUME NEW k \in M \ L
       PROVE  (\E h \in Guilds : k \in R[h]) \/ (\E u \in Tasks : k \in J[u])
  <2>1. CASE k \in N
    <3>1. (\E h \in Guilds : k \in Q[h]) \/ (\E u \in Tasks : k \in H[u])
      BY <1>2, <2>1
    <3>2. CASE k \in Q[g] \/ k \in H[t]
      BY <1>3, <3>2
    <3>3. ASSUME NEW h \in Guilds \ {g}, k \in Q[h] PROVE k \in R[h]
      BY <3>3
    <3>4. ASSUME NEW u \in Tasks \ {t}, k \in H[u] PROVE k \in J[u]
      BY <3>4
    <3> QED BY <3>1, <3>2, <3>3, <3>4
  <2>2. CASE k \notin N
    BY <1>3, <2>2
  <2> QED BY <2>1, <2>2
<1> QED BY <1>4, <1>7, <1>8, <1>9, <1>10, <1>11, <1>12 DEF Ledger, M

Held(c) == IF c.at \in InHand THEN ToSet(c.tracks) ELSE {}
QueuedTracks == [g \in Guilds |-> ToSet(Tracks(g))]
InHands == [t \in Tasks |-> Held(calls[t])]

LEMMA HandsStep ==
    ASSUME NEW t \in Tasks, NEW c, OneCall(t, c)
    PROVE  InHands'[t] = Held(c) /\ \A u \in Tasks \ {t} : InHands'[u] = InHands[u]
BY DEF OneCall, InHands

\* A call agrees with the map and with the queue it has read.
Placed(c) ==
    /\ c.at = "push" => c.guild \in DOMAIN queueOf /\ c.queue = queueOf[c.guild]
    /\ c.at = "make" => c.guild \notin DOMAIN queueOf
    /\ c.at = "shuffle" => /\ c.guild \in DOMAIN queueOf /\ c.queue = queueOf[c.guild]
                           /\ c.tracks = queues[c.queue]
    /\ c.at \in InHand => IsInjective(c.tracks)

\* Where the calls are as long as none came between the two halves of another.
CallsPlaced ==
    /\ \A t \in Tasks : Placed(calls[t])
    /\ \A t, u \in Tasks : calls[t].at = "make" /\ calls[u].at = "make" => t = u
    /\ \A g, h \in DOMAIN queueOf : queueOf[g] = queueOf[h] => g = h
    /\ \A g \in Guilds : IsInjective(Tracks(g))

Calm == CallsPlaced /\ Ledger(QueuedTracks, InHands, taken, accepted)

\* A call that leaves the map and the queues alone.
LEMMA CallsPlacedByCall ==
    ASSUME CallsPlaced, NEW t \in Tasks, NEW c, OneCall(t, c), UNCHANGED <<queueOf, queues>>,
           Placed(c), c.at = "make" => ~Halfway(t, {"make"})
    PROVE  CallsPlaced' /\ \A g \in Guilds : Tracks(g)' = Tracks(g)
<1>1. \A d : Placed(d)' = Placed(d)
  BY DEF Placed
<1>2. \A g \in Guilds : Tracks(g)' = Tracks(g)
  BY DEF Tracks
<1>3. \A u \in Tasks : Placed(calls'[u])
  BY DEF CallsPlaced, OneCall
<1>4. \A u, v \in Tasks : calls'[u].at = "make" /\ calls'[v].at = "make" => u = v
  BY DEF CallsPlaced, OneCall, Halfway
<1>5. \A u \in Tasks : Placed(calls[u])'
  BY <1>3 DEF Placed
<1> QED BY <1>2, <1>4, <1>5 DEF CallsPlaced

\* A call that makes the queue of a guild that has none.
LEMMA CallsPlacedByQueue ==
    ASSUME TrackShape, CallsPlaced, NEW t \in Tasks, NEW c, OneCall(t, c),
           NEW g \in Guilds, g \notin DOMAIN queueOf, ~Halfway(t, {"make"}),
           queues' = Append(queues, <<>>), queueOf' = Put(queueOf, g, Len(queues')),
           c.at = "none" \/ (c.at = "push" /\ c.guild = g /\ c.queue = Len(queues')
                               /\ IsInjective(c.tracks))
    PROVE  CallsPlaced' /\ \A h \in Guilds : Tracks(h)' = Tracks(h)
<1> DEFINE n == Len(queues')
<1>1. /\ n = Len(queues) + 1 /\ Len(queues) \in Nat /\ queues'[n] = <<>>
      /\ \A q \in 1..Len(queues) : queues'[q] = queues[q]
      /\ \A h \in DOMAIN queueOf : queueOf[h] \in 1..Len(queues)
  BY DEF TrackShape
<1>2. /\ DOMAIN queueOf' = DOMAIN queueOf \union {g} /\ queueOf'[g] = n
      /\ \A h \in DOMAIN queueOf : queueOf'[h] = queueOf[h]
  BY DEF Put
<1>3. n \notin 1..Len(queues)
  BY <1>1
<1> HIDE DEF n
<1>4. ASSUME NEW h \in Guilds PROVE Tracks(h)' = Tracks(h)
  <2>1. CASE h = g
    BY <1>1, <1>2, <2>1 DEF Tracks
  <2>2. CASE h # g /\ h \in DOMAIN queueOf
    BY <1>1, <1>2, <2>2 DEF Tracks
  <2>3. CASE h # g /\ h \notin DOMAIN queueOf
    BY <1>2, <2>3 DEF Tracks
  <2> QED BY <2>1, <2>2, <2>3
<1>5. ASSUME NEW u \in Tasks \ {t} PROVE Placed(calls[u])'
  <2>1. calls'[u] = calls[u] /\ Placed(calls[u]) /\ calls[u].at # "make"
    BY DEF OneCall, CallsPlaced, Halfway
  <2>2. calls[u].at = "shuffle" => queues'[calls[u].queue] = queues[calls[u].queue]
    BY <1>1, <2>1 DEF Placed
  <2> QED BY <1>2, <2>1, <2>2 DEF Placed, InHand
<1>6. Placed(calls[t])'
  <2>1. calls'[t] = c
    BY DEF OneCall
  <2> QED BY <1>2, <2>1 DEF Placed, InHand, n
<1>7. \A u, v \in Tasks : calls'[u].at = "make" /\ calls'[v].at = "make" => u = v
  BY DEF OneCall, Halfway
<1>8. \A h, i \in DOMAIN queueOf' : queueOf'[h] = queueOf'[i] => h = i
  BY <1>1, <1>2, <1>3 DEF CallsPlaced
<1> QED BY <1>4, <1>5, <1>6, <1>7, <1>8 DEF CallsPlaced

\* A call that changes the tracks of one guild's queue.
LEMMA CallsPlacedByEdit ==
    ASSUME TrackShape, CallsPlaced, NEW t \in Tasks, NEW c, OneCall(t, c),
           NEW g \in DOMAIN queueOf, NEW s, IsInjective(s),
           queues' = [queues EXCEPT ![queueOf[g]] = s], queueOf' = queueOf,
           ~Halfway(t, {"shuffle"}),
           c.at = "none" \/ (c.at = "ensure" /\ IsInjective(c.tracks))
    PROVE  /\ CallsPlaced' /\ Tracks(g)' = s
           /\ \A h \in Guilds \ {g} : Tracks(h)' = Tracks(h)
<1>1. /\ \A h \in DOMAIN queueOf : queueOf[h] \in DOMAIN queues
      /\ DOMAIN queues' = DOMAIN queues
  BY DEF TrackShape
<1>2. queues'[queueOf[g]] = s /\ \A q \in DOMAIN queues \ {queueOf[g]} : queues'[q] = queues[q]
  BY <1>1
<1>3. Tracks(g)' = s
  BY <1>2 DEF Tracks
<1>4. ASSUME NEW h \in Guilds \ {g} PROVE Tracks(h)' = Tracks(h)
  <2>1. CASE h \in DOMAIN queueOf
    <3>1. queueOf[h] # queueOf[g]
      BY <2>1 DEF CallsPlaced
    <3> QED BY <1>1, <1>2, <2>1, <3>1 DEF Tracks
  <2>2. CASE h \notin DOMAIN queueOf
    BY <2>2 DEF Tracks
  <2> QED BY <2>1, <2>2
<1>5. ASSUME NEW u \in Tasks \ {t} PROVE Placed(calls[u])'
  <2>1. calls'[u] = calls[u] /\ Placed(calls[u]) /\ calls[u].at # "shuffle"
    BY DEF OneCall, CallsPlaced, Halfway
  <2> QED BY <2>1 DEF Placed
<1>6. Placed(calls[t])'
  <2>1. calls'[t] = c
    BY DEF OneCall
  <2> QED BY <2>1 DEF Placed, InHand
<1>7. \A u, v \in Tasks : calls'[u].at = "make" /\ calls'[v].at = "make" => u = v
  BY DEF OneCall, CallsPlaced
<1>8. \A h, i \in DOMAIN queueOf' : queueOf'[h] = queueOf'[i] => h = i
  BY DEF CallsPlaced
<1>9. \A h \in Guilds : IsInjective(Tracks(h)')
  BY <1>3, <1>4 DEF CallsPlaced
<1>10. \A h \in Guilds : IsInjective(Tracks(h))'
  BY <1>9
<1> QED BY <1>3, <1>4, <1>5, <1>6, <1>7, <1>8, <1>10 DEF CallsPlaced

\* A call that moves no track.
LEMMA QuietCalm ==
    ASSUME TrackShape, Calm, CallsPlaced', NEW t \in Tasks, NEW c, OneCall(t, c),
           Held(c) = Held(calls[t]), NEW g \in Guilds,
           \A h \in Guilds : Tracks(h)' = Tracks(h), UNCHANGED <<accepted, taken>>
    PROVE  Calm'
<1> DEFINE Q == QueuedTracks
           H == InHands
           R == QueuedTracks'
           J == InHands'
<1>1. \A h \in Guilds : R[h] = Q[h]
  BY DEF QueuedTracks
<1>2. J[t] = Held(c) /\ H[t] = Held(calls[t]) /\ \A u \in Tasks \ {t} : J[u] = H[u]
  <2>1. H[t] = Held(calls[t])
    BY DEF InHands
  <2> QED BY <2>1, HandsStep
<1>3. Ledger(Q, H, taken, accepted) /\ accepted \in Nat
  BY TracksAssumption DEF Calm, TrackShape
<1> HIDE DEF Q, H, R, J
<1>4. Ledger(R, J, taken, accepted)
  <2>1. /\ R[g] = Q[g] /\ J[t] = H[t] /\ \A h \in Guilds \ {g} : R[h] = Q[h]
        /\ accepted <= accepted /\ taken \subseteq taken
        /\ R[g] \union J[t] \union (taken \ taken)
             = Q[g] \union H[t] \union ((1..accepted) \ (1..accepted))
    BY <1>1, <1>2, <1>3
  <2>2. R[g] \cap J[t] = {} /\ R[g] \cap taken = {} /\ J[t] \cap taken = {}
    BY <1>3, <2>1 DEF Ledger
  <2> QED BY <1>2, <1>3, <2>1, <2>2, LedgerStep
<1> QED BY <1>4 DEF Calm, R, J

\* Without a disturbance, as long as none has come, the calls keep all tracks.
LEMMA CalmQuiet ==
    ASSUME TrackShape, Calm, ~disturbed', NEW t \in Tasks, NEW g \in Guilds,
           \/ EnsureQueue(t) \/ MakeQueue(t) \/ MakeEmptyQueue(t)
           \/ ShuffleCopies(t, g) \/ BuildDisplay(t, g)
    PROVE  Calm'
<1> DEFINE c == calls[t]
<1>0. /\ DOMAIN calls = Tasks /\ CallShape(c, accepted, Len(queues))
      /\ CallsPlaced /\ Placed(c)
  BY DEF TrackShape, Calm, CallsPlaced
<1>1. CASE EnsureQueue(t)
  <2> DEFINE d == calls'[t]
  <2>1. c.at = "ensure" /\ UNCHANGED <<queueOf, queues, accepted, taken>>
    BY <1>1 DEF EnsureQueue, CallAt
  <2>2. OneCall(t, d) /\ d.guild = c.guild /\ d.tracks = c.tracks
        /\ \/ d.at = "push" /\ d.guild \in DOMAIN queueOf /\ d.queue = queueOf[d.guild]
           \/ d.at = "make" /\ d.guild \notin DOMAIN queueOf /\ ~Halfway(t, {"make"})
    <3>1. CASE c.guild \in DOMAIN queueOf
      <4> DEFINE queue == queueOf[c.guild]
      <4>1. calls' = [calls EXCEPT ![t].at = "push", ![t].queue = queue]
        BY <1>1, <3>1 DEF EnsureQueue
      <4> HIDE DEF queue
      <4>2. OneCall(t, d) /\ MovedTo(c, d, "push", queue)
        BY <4>1, CallMoves
      <4> HIDE DEF c, d
      <4> QED BY <3>1, <4>2 DEF MovedTo, queue
    <3>2. CASE c.guild \notin DOMAIN queueOf
      <4>1. calls' = [calls EXCEPT ![t].at = "make"] /\ ~Halfway(t, {"make"})
        BY <1>1, <3>2 DEF EnsureQueue
      <4>2. OneCall(t, d) /\ MovedTo(c, d, "make", c.queue)
        BY <4>1, CallMoves
      <4> HIDE DEF c, d
      <4> QED BY <3>2, <4>1, <4>2 DEF MovedTo
    <3> QED BY <3>1, <3>2
  <2> HIDE DEF c, d
  <2>3. Placed(d) /\ Held(d) = Held(c) /\ (d.at = "make" => ~Halfway(t, {"make"}))
    BY <1>0, <2>1, <2>2 DEF Placed, Held, InHand
  <2>4. CallsPlaced' /\ \A h \in Guilds : Tracks(h)' = Tracks(h)
    BY <1>0, <2>1, <2>2, <2>3, CallsPlacedByCall
  <2> QED BY <2>1, <2>2, <2>3, <2>4, QuietCalm DEF c
<1>2. CASE MakeQueue(t)
  <2> DEFINE d == calls'[t]
  <2>1. /\ c.at = "make" /\ queues' = Append(queues, <<>>)
        /\ queueOf' = Put(queueOf, c.guild, Len(queues')) /\ UNCHANGED <<accepted, taken>>
    BY <1>2 DEF MakeQueue, CallAt
  <2>2. OneCall(t, d) /\ MovedTo(c, d, "push", Len(queues'))
    <3> DEFINE queue == Len(queues')
    <3>1. calls' = [calls EXCEPT ![t].at = "push", ![t].queue = queue]
      BY <1>2 DEF MakeQueue
    <3> HIDE DEF queue
    <3>2. OneCall(t, d) /\ MovedTo(c, d, "push", queue)
      BY <3>1, CallMoves
    <3> QED BY <3>2 DEF queue
  <2>3. ~Halfway(t, {"make"})
    BY <1>0, <2>1 DEF CallsPlaced, Halfway
  <2> HIDE DEF c, d
  <2>4. /\ c.guild \in Guilds /\ c.guild \notin DOMAIN queueOf /\ Held(d) = Held(c)
        /\ d.at = "push" /\ d.guild = c.guild /\ d.queue = Len(queues') /\ IsInjective(d.tracks)
    BY <1>0, <2>1, <2>2 DEF CallShape, Placed, MovedTo, Held, InHand
  <2> DEFINE k == c.guild
  <2>5. /\ k \in Guilds /\ k \notin DOMAIN queueOf /\ queueOf' = Put(queueOf, k, Len(queues'))
        /\ d.guild = k
    BY <2>1, <2>4
  <2> HIDE DEF k
  <2>6. CallsPlaced' /\ \A h \in Guilds : Tracks(h)' = Tracks(h)
    BY <1>0, <2>1, <2>2, <2>3, <2>4, <2>5, CallsPlacedByQueue
  <2> QED BY <2>1, <2>2, <2>4, <2>6, QuietCalm DEF c
<1>3. CASE MakeEmptyQueue(t)
  <2>1. /\ c.at = "display" /\ queues' = Append(queues, <<>>)
        /\ queueOf' = Put(queueOf, c.guild, Len(queues')) /\ UNCHANGED <<accepted, taken>>
        /\ c.guild \notin DOMAIN queueOf /\ ~Halfway(t, {"make"})
    BY <1>3 DEF MakeEmptyQueue, CallAt
  <2>2. OneCall(t, NoCall)
    BY <1>0, <1>3, OneCallChanges DEF MakeEmptyQueue
  <2> HIDE DEF c
  <2>3. c.guild \in Guilds /\ Held(NoCall) = Held(c) /\ NoCall.at = "none"
    BY <1>0, <2>1 DEF CallShape, Held, InHand, NoCall
  <2> DEFINE k == c.guild
             d == NoCall
  <2>4. /\ k \in Guilds /\ k \notin DOMAIN queueOf /\ queueOf' = Put(queueOf, k, Len(queues'))
        /\ OneCall(t, d) /\ d.at = "none" /\ Held(d) = Held(c)
    BY <2>1, <2>2, <2>3
  <2> HIDE DEF k, d
  <2>5. CallsPlaced' /\ \A h \in Guilds : Tracks(h)' = Tracks(h)
    BY <1>0, <2>1, <2>4, CallsPlacedByQueue
  <2> QED BY <2>1, <2>4, <2>5, QuietCalm DEF c
<1>4. CASE ShuffleCopies(t, g)
  <2> DEFINE d == [at |-> "shuffle", guild |-> g, queue |-> queueOf[g], tracks |-> Tracks(g)]
  <2>1. /\ c.at = "none" /\ g \in DOMAIN queueOf /\ calls' = [calls EXCEPT ![t] = d]
        /\ UNCHANGED <<queueOf, queues, accepted, taken, disturbed>>
    BY <1>4 DEF ShuffleCopies, CallAt
  <2>2. /\ d.at = "shuffle" /\ d.guild = g /\ d.queue = queueOf[g]
        /\ d.tracks = queues[queueOf[g]]
    BY <2>1 DEF Tracks
  <2> HIDE DEF c, d
  <2>3. OneCall(t, d)
    BY <1>0, <2>1, OneCallChanges
  <2>4. Placed(d) /\ Held(d) = Held(c)
    BY <2>1, <2>2 DEF Placed, Held, InHand
  <2>5. CallsPlaced' /\ \A h \in Guilds : Tracks(h)' = Tracks(h)
    BY <1>0, <2>1, <2>2, <2>3, <2>4, CallsPlacedByCall
  <2> QED BY <2>1, <2>3, <2>4, <2>5, QuietCalm DEF c
<1>5. CASE BuildDisplay(t, g)
  <2> DEFINE d == [c EXCEPT !.at = "display", !.guild = g]
  <2>1. /\ c.at = "none" /\ calls' = [calls EXCEPT ![t] = d]
        /\ UNCHANGED <<queueOf, queues, accepted, taken, disturbed>>
    BY <1>0, <1>5 DEF BuildDisplay, CallAt
  <2>2. d.at = "display"
    BY <1>0 DEF CallShape
  <2> HIDE DEF c, d
  <2>3. OneCall(t, d)
    BY <1>0, <2>1, OneCallChanges
  <2>4. Placed(d) /\ Held(d) = Held(c)
    BY <2>1, <2>2 DEF Placed, Held, InHand
  <2>5. CallsPlaced' /\ \A h \in Guilds : Tracks(h)' = Tracks(h)
    BY <1>0, <2>1, <2>2, <2>3, <2>4, CallsPlacedByCall
  <2> QED BY <2>1, <2>3, <2>4, <2>5, QuietCalm DEF c
<1> QED BY <1>1, <1>2, <1>3, <1>4, <1>5

LEMMA CalmAccepts ==
    ASSUME TrackShape, Calm, ~disturbed', NEW t \in Tasks, NEW g \in Guilds,
           Enqueue(t, g) \/ AppendQueue(t, g)
    PROVE  Calm'
<1>1. /\ calls[t].at = "none" /\ UNCHANGED <<queueOf, queues, taken, disturbed>>
      /\ \E n \in Nat : /\ accepted' = accepted + n /\ accepted + n <= MaxTracks
                        /\ OneCall(t, Accepting(g, n))
  BY Accepts
<1>2. PICK n \in Nat : accepted' = accepted + n /\ OneCall(t, Accepting(g, n))
  BY <1>1
<1>3. accepted \in Nat /\ CallsPlaced
  BY TracksAssumption DEF TrackShape, Calm
<1> DEFINE c == Accepting(g, n)
           m == accepted + n
           s == NewTracks(n)
<1>4. /\ IsInjective(s) /\ ToSet(s) = (1..m) \ (1..accepted)
      /\ n = 0 => c = NoCall
      /\ n # 0 => c.at = "ensure" /\ c.tracks = s
  BY <1>3, NewTracksAre, AcceptingShape
<1>5. m \in Nat /\ accepted <= m /\ (n = 0 => m = accepted)
  BY <1>3
<1>6. accepted' = m /\ OneCall(t, c)
  BY <1>2
<1> HIDE DEF c, m, s
<1>7. Placed(c) /\ Held(c) = (1..m) \ (1..accepted) /\ c.at # "make"
  <2>1. CASE n = 0
    BY <1>4, <1>5, <2>1 DEF NoCall, Placed, Held, InHand
  <2>2. CASE n # 0
    BY <1>4, <2>2 DEF Placed, Held, InHand
  <2> QED BY <2>1, <2>2
<1>8. CallsPlaced' /\ \A h \in Guilds : Tracks(h)' = Tracks(h)
  BY <1>1, <1>3, <1>6, <1>7, CallsPlacedByCall
<1> DEFINE Q == QueuedTracks
           H == InHands
           R == QueuedTracks'
           J == InHands'
<1>9. \A h \in Guilds : R[h] = Q[h]
  BY <1>8 DEF QueuedTracks
<1>10. H[t] = {} /\ J[t] = Held(c) /\ \A u \in Tasks \ {t} : J[u] = H[u]
  <2>1. H[t] = {}
    BY <1>1 DEF InHands, Held, InHand
  <2> QED BY <1>6, <2>1, HandsStep
<1>11. Ledger(Q, H, taken, accepted)
  BY DEF Calm
<1> HIDE DEF Q, H, R, J
<1>12. Ledger(R, J, taken, m)
  <2>1. R[g] \subseteq 1..accepted /\ R[g] \cap taken = {} /\ taken \subseteq 1..accepted
    BY <1>9, <1>11 DEF Ledger
  <2>2. /\ R[g] \cap J[t] = {} /\ J[t] \cap taken = {} /\ taken \subseteq taken
        /\ R[g] \union J[t] \union (taken \ taken)
             = Q[g] \union H[t] \union ((1..m) \ (1..accepted))
    BY <1>7, <1>9, <1>10, <2>1
  <2>3. \A h \in Guilds \ {g} : R[h] = Q[h]
    BY <1>9
  <2> QED BY <1>3, <1>5, <1>10, <1>11, <2>1, <2>2, <2>3, LedgerStep
<1> QED BY <1>1, <1>6, <1>8, <1>12 DEF Calm, R, J

\* A change of one guild's queue that moves tracks from a task or to the taken ones.
LEMMA EditCalm ==
    ASSUME TrackShape, Calm, NEW t \in Tasks, NEW c, OneCall(t, c),
           NEW g \in DOMAIN queueOf, NEW s, IsInjective(s),
           queues' = [queues EXCEPT ![queueOf[g]] = s], queueOf' = queueOf,
           ~Halfway(t, {"shuffle"}),
           c.at = "none" \/ (c.at = "ensure" /\ IsInjective(c.tracks)),
           NEW m \in Nat, accepted' = m, accepted <= m, taken \subseteq taken',
           ToSet(s) \cap Held(c) = {}, ToSet(s) \cap taken' = {}, Held(c) \cap taken' = {},
           ToSet(s) \union Held(c) \union (taken' \ taken)
             = ToSet(Tracks(g)) \union Held(calls[t]) \union ((1..m) \ (1..accepted))
    PROVE  Calm'
<1>1. accepted \in Nat /\ CallsPlaced /\ g \in Guilds
  BY TracksAssumption DEF TrackShape, Calm
<1>2. /\ CallsPlaced' /\ Tracks(g)' = s
      /\ \A h \in Guilds \ {g} : Tracks(h)' = Tracks(h)
  BY <1>1, CallsPlacedByEdit
<1> DEFINE Q == QueuedTracks
           H == InHands
           R == QueuedTracks'
           J == InHands'
           L == taken'
<1>3. R[g] = ToSet(s) /\ Q[g] = ToSet(Tracks(g)) /\ \A h \in Guilds \ {g} : R[h] = Q[h]
  <2>1. Q[g] = ToSet(Tracks(g)) /\ R[g] = ToSet(Tracks(g)')
    BY <1>1 DEF QueuedTracks
  <2>2. \A h \in Guilds \ {g} : R[h] = Q[h]
    BY <1>2 DEF QueuedTracks
  <2> QED BY <1>2, <2>1, <2>2
<1>4. J[t] = Held(c) /\ H[t] = Held(calls[t]) /\ \A u \in Tasks \ {t} : J[u] = H[u]
  <2>1. H[t] = Held(calls[t])
    BY DEF InHands
  <2> QED BY <2>1, HandsStep
<1>5. Ledger(Q, H, taken, accepted)
  BY DEF Calm
<1>6. /\ taken \subseteq L /\ R[g] \cap J[t] = {} /\ R[g] \cap L = {} /\ J[t] \cap L = {}
      /\ R[g] \union J[t] \union (L \ taken)
           = Q[g] \union H[t] \union ((1..m) \ (1..accepted))
  BY <1>3, <1>4
<1> HIDE DEF Q, H, R, J, L
<1>7. Ledger(R, J, L, m)
  BY <1>1, <1>3, <1>4, <1>5, <1>6, LedgerStep
<1> QED BY <1>2, <1>7 DEF Calm, R, J, L

\* What the ledger says of one guild and one task.
LEMMA LedgerSays ==
    ASSUME Calm, NEW g \in Guilds, NEW t \in Tasks
    PROVE  /\ ToSet(Tracks(g)) \cap Held(calls[t]) = {}
           /\ ToSet(Tracks(g)) \subseteq (1..accepted) \ taken
           /\ Held(calls[t]) \subseteq (1..accepted) \ taken
           /\ IsInjective(Tracks(g)) /\ Placed(calls[t]) /\ taken \subseteq 1..accepted
<1>1. QueuedTracks[g] = ToSet(Tracks(g)) /\ InHands[t] = Held(calls[t])
  BY DEF QueuedTracks, InHands
<1> QED BY <1>1 DEF Calm, Ledger, CallsPlaced

LEMMA CalmPushes ==
    ASSUME TrackShape, Calm, ~disturbed', NEW t \in Tasks, PushBack(t)
    PROVE  Calm'
<1> DEFINE c == calls[t]
           g == c.guild
           q == Tracks(g)
           e == Head(c.tracks)
           d == Pushed(c)
           s == Append(q, e)
           rest == Tail(c.tracks)
<1>1. c.at = "push" /\ CallShape(c, accepted, Len(queues)) /\ Placed(c)
  BY Pushes DEF TrackShape, Calm, CallsPlaced
<1>2. /\ g \in DOMAIN queueOf /\ c.queue = queueOf[g] /\ IsInjective(c.tracks)
      /\ q = queues[queueOf[g]] /\ g \in Guilds
  BY <1>1 DEF Placed, CallShape, InHand, Tracks
<1>3. /\ c.tracks \in Seq(Nat) /\ c.tracks # <<>> /\ q \in Seq(Nat)
      /\ OneCall(t, d) /\ queues' = [queues EXCEPT ![queueOf[g]] = s]
      /\ ~Halfway(t, {"shuffle"}) /\ UNCHANGED <<queueOf, accepted, taken>>
  BY <1>2, Pushes
<1>4. /\ q \in Seq(Nat) /\ ToSet(q) \cap Held(c) = {} /\ IsInjective(q)
      /\ ToSet(q) \subseteq (1..accepted) \ taken /\ Held(c) \subseteq (1..accepted) \ taken
  BY <1>2, <1>3, LedgerSays
<1>5. Held(c) = ToSet(c.tracks)
  BY <1>1 DEF Held, InHand
<1>6. /\ e \in ToSet(c.tracks) /\ ToSet(rest) = ToSet(c.tracks) \ {e} /\ IsInjective(rest)
      /\ Len(c.tracks) = 1 => ToSet(c.tracks) = {e}
  BY <1>2, <1>3, TailKeeps
<1>7. accepted \in Nat /\ Len(queues) \in Nat
  BY TracksAssumption DEF TrackShape
<1>8. /\ Len(c.tracks) = 1 => d = NoCall
      /\ Len(c.tracks) # 1 => d.at = "ensure" /\ d.tracks = rest
  BY <1>1, <1>7, PushedShape
<1>9. e \in Nat /\ e \notin ToSet(q)
  <2>1. e \in 1..accepted
    BY <1>4, <1>5, <1>6
  <2> QED BY <1>4, <1>5, <1>6, <2>1
<1> HIDE DEF c, g, q, e, d, rest
<1>10. IsInjective(s) /\ ToSet(s) = ToSet(q) \union {e}
  BY <1>3, <1>4, <1>9, AppendKeeps
<1> HIDE DEF s
<1>11. /\ d.at = "none" \/ (d.at = "ensure" /\ IsInjective(d.tracks))
       /\ Held(d) = Held(c) \ {e}
  <2>1. CASE Len(c.tracks) = 1
    BY <1>5, <1>6, <1>8, <2>1 DEF NoCall, Held, InHand
  <2>2. CASE Len(c.tracks) # 1
    BY <1>5, <1>6, <1>8, <2>2 DEF Held, InHand
  <2> QED BY <2>1, <2>2
<1>12. /\ ToSet(s) \cap Held(d) = {} /\ ToSet(s) \cap taken = {} /\ Held(d) \cap taken = {}
       /\ ToSet(s) \union Held(d) \union (taken \ taken)
            = ToSet(q) \union Held(c) \union ((1..accepted) \ (1..accepted))
  BY <1>4, <1>5, <1>6, <1>10, <1>11
<1> QED
  <2> DEFINE m == accepted'
  <2>1. /\ m \in Nat /\ accepted' = m /\ accepted <= m /\ m = accepted
        /\ taken' = taken
    BY <1>3, <1>7
  <2> HIDE DEF m
  <2>2. /\ taken \subseteq taken' /\ ToSet(s) \cap taken' = {} /\ Held(d) \cap taken' = {}
        /\ ToSet(s) \union Held(d) \union (taken' \ taken)
             = ToSet(Tracks(g)) \union Held(calls[t]) \union ((1..m) \ (1..accepted))
    BY <1>12, <2>1 DEF c, q
  <2>3. queueOf' = queueOf /\ ToSet(s) \cap Held(d) = {}
    BY <1>3, <1>12
  <2> QED BY ZenonT(40), <1>2, <1>3, <1>10, <1>11, <2>1, <2>2, <2>3, EditCalm

LEMMA CalmEdits ==
    ASSUME TrackShape, Calm, ~disturbed', NEW t \in Tasks, NEW g \in Guilds,
           Take(t, g) \/ ClearTracks(t, g) \/ InsertTrack(t, g) \/ AppendTracks(t, g)
    PROVE  Calm'
<1> DEFINE q == Tracks(g)
           c == calls[t]
           m == accepted'
<1>1. /\ IsInjective(q) /\ ToSet(q) \subseteq (1..accepted) \ taken /\ taken \subseteq 1..accepted
  BY LedgerSays
<1>2. PICK s \in Seq(Nat), in \in SUBSET Nat, out \in SUBSET ToSet(q) :
             /\ Changes(t, g, s)
             /\ taken' = taken \union out
             /\ ToSet(s) \subseteq ToSet(q) \union in
             /\ accepted' \in accepted..MaxTracks
             /\ in = (1..accepted') \ (1..accepted)
             /\ IsInjective(q) => IsInjective(s) /\ ToSet(s) = (ToSet(q) \ out) \union in
  BY EditedTracks
<1>3. /\ c.at = "none" /\ g \in DOMAIN queueOf /\ queues' = [queues EXCEPT ![queueOf[g]] = s]
      /\ ~Halfway(t, {"shuffle"}) /\ queueOf' = queueOf /\ calls' = calls
  BY <1>2 DEF Changes, CallAt
<1>4. OneCall(t, c) /\ Held(c) = {}
  BY <1>3 DEF OneCall, Held, InHand
<1>5. m \in Nat /\ accepted' = m /\ accepted <= m
  BY <1>2, TracksAssumption DEF TrackShape
<1>6. in \cap (1..accepted) = {}
  BY <1>2
<1> HIDE DEF q, c, m
<1>7. /\ taken \subseteq taken' /\ ToSet(s) \cap Held(c) = {} /\ ToSet(s) \cap taken' = {}
      /\ Held(c) \cap taken' = {}
      /\ ToSet(s) \union Held(c) \union (taken' \ taken)
           = ToSet(q) \union Held(c) \union in
  BY <1>1, <1>2, <1>4, <1>6
<1>8. /\ ToSet(s) \union Held(c) \union (taken' \ taken)
           = ToSet(Tracks(g)) \union Held(calls[t]) \union ((1..m) \ (1..accepted))
      /\ IsInjective(s)
  BY <1>1, <1>2, <1>5, <1>7 DEF c, q
<1> QED BY <1>3, <1>4, <1>5, <1>7, <1>8, EditCalm

LEMMA CalmShuffles ==
    ASSUME TrackShape, Calm, ~disturbed', NEW t \in Tasks, ShuffleWrites(t)
    PROVE  Calm'
<1> DEFINE c == calls[t]
           g == c.guild
           d == NoCall
<1>1. /\ c.at = "shuffle" /\ CallShape(c, accepted, Len(queues)) /\ Placed(c)
      /\ OneCall(t, d) /\ ~Halfway(t, {"shuffle"}) /\ UNCHANGED <<queueOf, accepted, taken>>
  BY Shuffles DEF TrackShape, Calm, CallsPlaced
<1>2. PICK s \in TrackSeqs(accepted) :
        /\ queues' = [queues EXCEPT ![c.queue] = s]
        /\ ToSet(s) = ToSet(c.tracks)
        /\ IsInjective(c.tracks) => IsInjective(s)
  BY Shuffles
<1>3. /\ g \in Guilds /\ g \in DOMAIN queueOf /\ c.queue = queueOf[g]
      /\ c.tracks = Tracks(g)
  BY <1>1 DEF Placed, CallShape, Tracks
<1>4. /\ IsInjective(Tracks(g)) /\ ToSet(Tracks(g)) \subseteq (1..accepted) \ taken
  BY <1>3, LedgerSays
<1>5. Held(c) = {} /\ Held(d) = {} /\ d.at = "none"
  BY <1>1 DEF Held, InHand, NoCall
<1>6. IsInjective(s) /\ ToSet(s) = ToSet(Tracks(g)) /\ queues' = [queues EXCEPT ![queueOf[g]] = s]
  BY <1>2, <1>3, <1>4
<1> DEFINE m == accepted'
<1>7. m \in Nat /\ accepted' = m /\ accepted <= m /\ m = accepted /\ taken' = taken
  BY <1>1, TracksAssumption DEF TrackShape
<1> HIDE DEF m, d, g
<1>8. /\ taken \subseteq taken' /\ ToSet(s) \cap taken' = {} /\ Held(d) \cap taken' = {}
      /\ ToSet(s) \cap Held(d) = {}
      /\ ToSet(s) \union Held(d) \union (taken' \ taken)
           = ToSet(Tracks(g)) \union Held(calls[t]) \union ((1..m) \ (1..accepted))
  BY <1>4, <1>5, <1>6, <1>7
<1> QED BY <1>1, <1>3, <1>5, <1>6, <1>7, <1>8, EditCalm

-----------------------------------------------------------------------------
(* The tracks under calls that overlap *)

\* The tracks of the queue with a number, and of a shuffle's copy of it.
InQueue(k) == IF k \in DOMAIN queues THEN ToSet(queues[k]) ELSE {}
CopyOf(c, k) == IF c.at = "shuffle" /\ c.queue = k THEN ToSet(c.tracks) ELSE {}
Stock == [k \in Nat |-> InQueue(k) \union UNION {CopyOf(calls[t], k) : t \in Tasks}]

\* No track of the first n is in two stocks, in two hands, or in a stock and a hand.
Separate(stock, held, n) ==
    /\ \A j, k \in Nat : j # k => stock[j] \cap stock[k] = {}
    /\ \A t, u \in Tasks : t # u => held[t] \cap held[u] = {}
    /\ \A k \in Nat, t \in Tasks : stock[k] \cap held[t] = {}
    /\ \A k \in Nat : stock[k] \subseteq 1..n
    /\ \A t \in Tasks : held[t] \subseteq 1..n

\* Whatever overlaps: a queue and the copies of it share their tracks with nothing else.
Apart ==
    /\ Separate(Stock, InHands, accepted)
    /\ \A k \in DOMAIN queues : IsInjective(queues[k])
    /\ \A t \in Tasks : calls[t].at \in InHand \union {"shuffle"} => IsInjective(calls[t].tracks)
    /\ \A g, h \in DOMAIN queueOf : queueOf[g] = queueOf[h] => g = h

\* A step moves tracks from one task to one stock, and adds new ones.
LEMMA SeparateStep ==
    ASSUME NEW S, NEW H, NEW n \in Nat, NEW R, NEW J, NEW m \in Nat, n <= m,
           Separate(S, H, n), NEW k \in Nat, NEW t \in Tasks,
           \A j \in Nat \ {k} : R[j] \subseteq S[j],
           \A u \in Tasks \ {t} : J[u] = H[u],
           R[k] \subseteq S[k] \union H[t] \union ((1..m) \ (1..n)),
           J[t] \subseteq H[t] \union ((1..m) \ (1..n)),
           R[k] \cap J[t] = {}
    PROVE  Separate(R, J, m)
<1> DEFINE N == 1..n
           M == 1..m
<1>1. N \subseteq M
  OBVIOUS
<1>2. /\ \A j, i \in Nat : j # i => S[j] \cap S[i] = {}
      /\ \A u, v \in Tasks : u # v => H[u] \cap H[v] = {}
      /\ \A j \in Nat, u \in Tasks : S[j] \cap H[u] = {}
      /\ \A j \in Nat : S[j] \subseteq N
      /\ \A u \in Tasks : H[u] \subseteq N
  BY DEF Separate
<1>3. /\ R[k] \subseteq S[k] \union H[t] \union (M \ N)
      /\ J[t] \subseteq H[t] \union (M \ N)
  OBVIOUS
<1> HIDE DEF N, M
<1>4. ASSUME NEW j \in Nat \ {k} PROVE R[j] \cap R[k] = {} /\ R[j] \cap J[t] = {}
  BY <1>2, <1>3
<1>5. ASSUME NEW u \in Tasks \ {t} PROVE J[u] \cap J[t] = {} /\ J[u] \cap R[k] = {}
  BY <1>2, <1>3
<1>6. ASSUME NEW j \in Nat \ {k}, NEW i \in Nat \ {k}, j # i PROVE R[j] \cap R[i] = {}
  <2>1. R[j] \subseteq S[j] /\ R[i] \subseteq S[i] /\ S[j] \cap S[i] = {}
    BY <1>2, <1>6
  <2> QED BY <2>1
<1>7. \A j, i \in Nat : j # i => R[j] \cap R[i] = {}
  BY <1>4, <1>6
<1>8. \A u, v \in Tasks : u # v => J[u] \cap J[v] = {}
  BY <1>2, <1>5
<1>9. \A j \in Nat, u \in Tasks : R[j] \cap J[u] = {}
  <2>1. ASSUME NEW j \in Nat \ {k}, NEW u \in Tasks \ {t} PROVE R[j] \cap J[u] = {}
    BY <1>2
  <2> QED BY <1>4, <1>5, <2>1
<1>10. (\A j \in Nat : R[j] \subseteq M) /\ \A u \in Tasks : J[u] \subseteq M
  BY <1>1, <1>2, <1>3
<1> QED BY <1>7, <1>8, <1>9, <1>10 DEF Separate, M

\* What the step of one task makes of a stock.
LEMMA StockStep ==
    ASSUME NEW t \in Tasks, NEW c, OneCall(t, c), NEW k \in Nat
    PROVE  /\ Stock'[k] \subseteq Stock[k] \union InQueue(k)' \union CopyOf(c, k)
           /\ InQueue(k) \subseteq Stock[k]
           /\ \A u \in Tasks : CopyOf(calls[u], k) \subseteq Stock[k]
<1>1. Stock[k] = InQueue(k) \union UNION {CopyOf(calls[u], k) : u \in Tasks}
  BY DEF Stock
<1>2. Stock'[k] = InQueue(k)' \union UNION {CopyOf(calls'[u], k) : u \in Tasks}
  BY DEF Stock, CopyOf
<1>3. calls'[t] = c /\ \A u \in Tasks \ {t} : calls'[u] = calls[u]
  BY DEF OneCall
<1>4. ASSUME NEW u \in Tasks PROVE CopyOf(calls'[u], k) \subseteq Stock[k] \union CopyOf(c, k)
  BY <1>1, <1>3
<1> QED BY <1>1, <1>2, <1>4

\* The step of one task keeps the tracks apart if it takes tracks to one stock only, from
\* the task's hands or new ones.
LEMMA ApartStep ==
    ASSUME TrackShape, Apart, NEW t \in Tasks, NEW c, OneCall(t, c), NEW k \in Nat,
           NEW m \in Nat, accepted' = m, accepted <= m,
           c.at \in InHand \union {"shuffle"} => IsInjective(c.tracks),
           \A j \in Nat \ {k} : InQueue(j)' \union CopyOf(c, j) \subseteq Stock[j],
           InQueue(k)' \union CopyOf(c, k)
             \subseteq Stock[k] \union Held(calls[t]) \union ((1..m) \ (1..accepted)),
           Held(c) \subseteq Held(calls[t]) \union ((1..m) \ (1..accepted)),
           (InQueue(k)' \union CopyOf(c, k)) \cap Held(c) = {},
           \A j \in DOMAIN queues' : IsInjective(queues'[j]),
           \A g, h \in DOMAIN queueOf' : queueOf'[g] = queueOf'[h] => g = h
    PROVE  Apart'
<1> DEFINE S == Stock
           H == InHands
           R == Stock'
           J == InHands'
           X == InQueue(k)' \union CopyOf(c, k)
           n == accepted
<1>1. n \in Nat /\ n <= m /\ Separate(S, H, n)
  BY TracksAssumption DEF TrackShape, Apart
<1>2. R[k] \subseteq S[k] \union X
  BY StockStep
<1>3. \A j \in Nat \ {k} : R[j] \subseteq S[j]
  BY StockStep
<1>4. J[t] = Held(c) /\ H[t] = Held(calls[t]) /\ \A u \in Tasks \ {t} : J[u] = H[u]
  <2>1. H[t] = Held(calls[t])
    BY DEF InHands
  <2> QED BY <2>1, HandsStep
<1>5. /\ X \subseteq S[k] \union H[t] \union ((1..m) \ (1..n))
      /\ J[t] \subseteq H[t] \union ((1..m) \ (1..n))
      /\ X \cap J[t] = {}
  BY <1>4
<1>6. \A u \in Tasks : calls'[u].at \in InHand \union {"shuffle"} => IsInjective(calls'[u].tracks)
  BY DEF OneCall, Apart
<1> HIDE DEF S, H, R, J, X, n
<1>7. S[k] \cap H[t] = {} /\ S[k] \subseteq 1..n
  BY <1>1 DEF Separate
<1>8. R[k] \subseteq S[k] \union H[t] \union ((1..m) \ (1..n)) /\ R[k] \cap J[t] = {}
  BY <1>2, <1>5, <1>7
<1>9. Separate(R, J, m)
  BY <1>1, <1>3, <1>4, <1>5, <1>8, SeparateStep
<1>10. Separate(Stock', InHands', accepted')
  BY <1>9 DEF R, J
<1> QED BY <1>6, <1>10 DEF Apart

\* What the parts of Apart that are about queues become in a step that edits one queue.
LEMMA ApartQueues ==
    ASSUME TrackShape, Apart, NEW q \in 1..Len(queues), NEW s, IsInjective(s),
           queues' = [queues EXCEPT ![q] = s], queueOf' = queueOf
    PROVE  /\ InQueue(q)' = ToSet(s) /\ InQueue(q) = ToSet(queues[q])
           /\ \A j \in Nat \ {q} : InQueue(j)' = InQueue(j)
           /\ \A j \in DOMAIN queues' : IsInjective(queues'[j])
           /\ \A g, h \in DOMAIN queueOf' : queueOf'[g] = queueOf'[h] => g = h
<1>1. DOMAIN queues' = DOMAIN queues /\ q \in DOMAIN queues
  BY DEF TrackShape
<1>2. queues'[q] = s /\ \A j \in DOMAIN queues \ {q} : queues'[j] = queues[j]
  BY <1>1
<1> QED BY <1>1, <1>2 DEF InQueue, Apart

\* A step that adds no track to a queue and takes none into the task's hands.
LEMMA ApartQuiet ==
    ASSUME TrackShape, Apart, NEW t \in Tasks, NEW c, OneCall(t, c), UNCHANGED accepted,
           \/ UNCHANGED <<queueOf, queues>>
           \/ \E g \in Guilds : /\ queues' = Append(queues, <<>>)
                                /\ queueOf' = Put(queueOf, g, Len(queues')),
           c.at \in InHand \union {"shuffle"} => IsInjective(c.tracks),
           Held(c) \subseteq Held(calls[t]),
           \A j \in Nat : CopyOf(c, j) \subseteq InQueue(j)
    PROVE  Apart'
<1> DEFINE Kept ==
      /\ \A j \in Nat : InQueue(j)' \subseteq InQueue(j)
      /\ \A j \in DOMAIN queues' : IsInjective(queues'[j])
      /\ \A g, h \in DOMAIN queueOf' : queueOf'[g] = queueOf'[h] => g = h
<1>1. Kept
  <2>1. CASE UNCHANGED <<queueOf, queues>>
    BY <2>1 DEF InQueue, Apart
  <2>2. ASSUME NEW g \in Guilds, queues' = Append(queues, <<>>),
               queueOf' = Put(queueOf, g, Len(queues'))
        PROVE  Kept
    <3> DEFINE n == Len(queues')
    <3>1. /\ n = Len(queues) + 1 /\ Len(queues) \in Nat /\ queues'[n] = <<>>
          /\ DOMAIN queues = 1..Len(queues) /\ DOMAIN queues' = 1..n
          /\ \A j \in 1..Len(queues) : queues'[j] = queues[j]
          /\ \A h \in DOMAIN queueOf : queueOf[h] \in 1..Len(queues)
      BY <2>2 DEF TrackShape
    <3>2. /\ DOMAIN queueOf' = DOMAIN queueOf \union {g} /\ queueOf'[g] = n
          /\ \A h \in DOMAIN queueOf \ {g} : queueOf'[h] = queueOf[h]
      BY <2>2 DEF Put
    <3>3. n \notin 1..Len(queues) /\ ToSet(<<>>) = {} /\ IsInjective(<<>>)
      BY <3>1 DEF ToSet, IsInjective
    <3>4. \A j \in DOMAIN queues' : j \in DOMAIN queues \/ j = n
      BY <3>1
    <3> HIDE DEF n
    <3>5. \A j \in Nat : InQueue(j)' \subseteq InQueue(j)
      BY <3>1, <3>3, <3>4 DEF InQueue
    <3>6. \A j \in DOMAIN queues' : IsInjective(queues'[j])
      BY <3>1, <3>3, <3>4 DEF Apart
    <3>7. \A h, i \in DOMAIN queueOf' : queueOf'[h] = queueOf'[i] => h = i
      BY <3>1, <3>2, <3>3 DEF Apart
    <3> QED BY <3>5, <3>6, <3>7
  <2> QED BY <2>1, <2>2
<1>2. \A j \in Nat : InQueue(j)' \union CopyOf(c, j) \subseteq Stock[j]
  BY <1>1, StockStep
<1>3. Stock[0] \cap Held(calls[t]) = {}
  <2>1. InHands[t] = Held(calls[t]) /\ 0 \in Nat
    BY DEF InHands
  <2> QED BY <2>1 DEF Apart, Separate
<1> DEFINE m == accepted'
<1>4. m \in Nat /\ accepted' = m /\ accepted <= m
  BY TracksAssumption DEF TrackShape
<1> HIDE DEF m
<1>5. /\ 0 \in Nat
      /\ InQueue(0)' \union CopyOf(c, 0)
           \subseteq Stock[0] \union Held(calls[t]) \union ((1..m) \ (1..accepted))
      /\ Held(c) \subseteq Held(calls[t]) \union ((1..m) \ (1..accepted))
      /\ (InQueue(0)' \union CopyOf(c, 0)) \cap Held(c) = {}
      /\ \A j \in Nat \ {0} : InQueue(j)' \union CopyOf(c, j) \subseteq Stock[j]
  BY <1>2, <1>3
<1> QED BY <1>1, <1>4, <1>5, ApartStep

\* The calls that only look for a queue, make one or copy one.
LEMMA ApartByCall ==
    ASSUME TrackShape, Apart, NEW t \in Tasks, NEW g \in Guilds,
           \/ EnsureQueue(t) \/ MakeQueue(t) \/ MakeEmptyQueue(t)
           \/ ShuffleCopies(t, g) \/ BuildDisplay(t, g)
    PROVE  Apart'
<1> DEFINE c == calls[t]
           d == calls'[t]
<1>1. /\ DOMAIN calls = Tasks /\ CallShape(c, accepted, Len(queues))
      /\ c.at \in InHand \union {"shuffle"} => IsInjective(c.tracks)
  BY DEF TrackShape, Apart
<1>2. ASSUME EnsureQueue(t) \/ MakeQueue(t)
      PROVE  /\ OneCall(t, d) /\ d.at \in InHand /\ c.at \in InHand /\ d.tracks = c.tracks
             /\ UNCHANGED accepted
             /\ \/ UNCHANGED <<queueOf, queues>>
                \/ \E h \in Guilds : /\ queues' = Append(queues, <<>>)
                                     /\ queueOf' = Put(queueOf, h, Len(queues'))
  <2>1. PICK place, queue :
             place \in InHand /\ OneCall(t, d) /\ MovedTo(c, d, place, queue)
    <3>1. CASE EnsureQueue(t) /\ c.guild \in DOMAIN queueOf
      <4> DEFINE queue == queueOf[c.guild]
      <4>1. calls' = [calls EXCEPT ![t].at = "push", ![t].queue = queue]
        BY <3>1 DEF EnsureQueue
      <4> HIDE DEF queue
      <4> QED BY <4>1, CallMoves DEF InHand
    <3>2. CASE EnsureQueue(t) /\ c.guild \notin DOMAIN queueOf
      <4>1. calls' = [calls EXCEPT ![t].at = "make"]
        BY <3>2 DEF EnsureQueue
      <4> QED BY <4>1, CallMoves DEF InHand
    <3>3. CASE MakeQueue(t)
      <4> DEFINE queue == Len(queues')
      <4>1. calls' = [calls EXCEPT ![t].at = "push", ![t].queue = queue]
        BY <3>3 DEF MakeQueue
      <4> HIDE DEF queue
      <4> QED BY <4>1, CallMoves DEF InHand
    <3> QED BY <1>2, <3>1, <3>2, <3>3
  <2>2. c.at \in InHand /\ c.guild \in Guilds
    BY <1>1, <1>2 DEF EnsureQueue, MakeQueue, CallAt, InHand, CallShape
  <2>3. /\ UNCHANGED accepted
        /\ \/ UNCHANGED <<queueOf, queues>>
           \/ \E h \in Guilds : /\ queues' = Append(queues, <<>>)
                                /\ queueOf' = Put(queueOf, h, Len(queues'))
    BY <1>2, <2>2 DEF EnsureQueue, MakeQueue
  <2> QED BY <2>1, <2>2, <2>3 DEF MovedTo
<1>3. ASSUME MakeEmptyQueue(t) \/ BuildDisplay(t, g)
      PROVE  /\ OneCall(t, d) /\ d.at \in {"none", "display"}
             /\ UNCHANGED accepted
             /\ \/ UNCHANGED <<queueOf, queues>>
                \/ \E h \in Guilds : /\ queues' = Append(queues, <<>>)
                                     /\ queueOf' = Put(queueOf, h, Len(queues'))
  <2>1. CASE MakeEmptyQueue(t)
    <3>1. c.guild \in Guilds
      BY <1>1, <2>1 DEF MakeEmptyQueue, CallAt, CallShape
    <3>2. OneCall(t, d) /\ d = NoCall
      BY <1>1, <2>1, OneCallChanges DEF MakeEmptyQueue
    <3> QED BY <2>1, <3>1, <3>2 DEF MakeEmptyQueue, NoCall
  <2>2. CASE BuildDisplay(t, g)
    <3> DEFINE e == [c EXCEPT !.at = "display", !.guild = g]
    <3>1. calls' = [calls EXCEPT ![t] = e] /\ e.at = "display"
      BY <1>1, <2>2 DEF BuildDisplay, CallShape
    <3> HIDE DEF e
    <3>2. OneCall(t, e) /\ d = e
      BY <1>1, <3>1, OneCallChanges
    <3> QED BY <2>2, <3>1, <3>2 DEF BuildDisplay
  <2> QED BY <1>3, <2>1, <2>2
<1>4. ASSUME ShuffleCopies(t, g)
      PROVE  /\ OneCall(t, d) /\ d.at = "shuffle" /\ d.queue \in DOMAIN queues
             /\ d.tracks = queues[d.queue] /\ UNCHANGED <<accepted, queueOf, queues>>
  <2> DEFINE e == [at |-> "shuffle", guild |-> g, queue |-> queueOf[g], tracks |-> Tracks(g)]
  <2>1. g \in DOMAIN queueOf /\ calls' = [calls EXCEPT ![t] = e]
    BY <1>4 DEF ShuffleCopies
  <2>2. /\ e.at = "shuffle" /\ e.queue = queueOf[g] /\ e.tracks = queues[e.queue]
        /\ e.queue \in DOMAIN queues
    BY <2>1 DEF Tracks, TrackShape
  <2> HIDE DEF e
  <2>3. OneCall(t, e) /\ d = e
    BY <1>1, <2>1, OneCallChanges
  <2> QED BY <1>4, <2>2, <2>3 DEF ShuffleCopies
<1> HIDE DEF c, d
<1>5. CASE EnsureQueue(t) \/ MakeQueue(t)
  <2>1. /\ d.at \in InHand \union {"shuffle"} => IsInjective(d.tracks)
        /\ Held(d) \subseteq Held(c) /\ \A j \in Nat : CopyOf(d, j) \subseteq InQueue(j)
    BY <1>1, <1>2, <1>5 DEF Held, CopyOf, InHand
  <2> QED BY <1>2, <1>5, <2>1, ApartQuiet DEF c
<1>6. CASE MakeEmptyQueue(t) \/ BuildDisplay(t, g)
  <2>1. /\ d.at \in InHand \union {"shuffle"} => IsInjective(d.tracks)
        /\ Held(d) \subseteq Held(c) /\ \A j \in Nat : CopyOf(d, j) \subseteq InQueue(j)
    BY <1>3, <1>6 DEF Held, CopyOf, InHand
  <2> QED BY <1>3, <1>6, <2>1, ApartQuiet DEF c
<1>7. CASE ShuffleCopies(t, g)
  <2>1. /\ IsInjective(d.tracks) /\ Held(d) \subseteq Held(c)
        /\ \A j \in Nat : CopyOf(d, j) \subseteq InQueue(j)
    BY <1>4, <1>7 DEF Apart, Held, CopyOf, InHand, InQueue
  <2> QED BY <1>4, <1>7, <2>1, ApartQuiet DEF c
<1> QED BY <1>5, <1>6, <1>7

\* What is accepted is new: it is in no queue yet, and in no other task's hands.
LEMMA ApartAccepts ==
    ASSUME TrackShape, Apart, NEW t \in Tasks, NEW g \in Guilds,
           Enqueue(t, g) \/ AppendQueue(t, g)
    PROVE  Apart'
<1>1. /\ calls[t].at = "none" /\ UNCHANGED <<queueOf, queues>>
      /\ \E n \in Nat : accepted' = accepted + n /\ OneCall(t, Accepting(g, n))
  BY Accepts
<1>2. PICK n \in Nat : accepted' = accepted + n /\ OneCall(t, Accepting(g, n))
  BY <1>1
<1>3. accepted \in Nat
  BY TracksAssumption DEF TrackShape
<1> DEFINE c == Accepting(g, n)
           m == accepted + n
           s == NewTracks(n)
<1>4. /\ IsInjective(s) /\ ToSet(s) = (1..m) \ (1..accepted)
      /\ n = 0 => c = NoCall
      /\ n # 0 => c.at = "ensure" /\ c.tracks = s
  BY <1>3, NewTracksAre, AcceptingShape
<1>5. m \in Nat /\ accepted <= m /\ (n = 0 => m = accepted)
  BY <1>3
<1>6. accepted' = m /\ OneCall(t, c)
  BY <1>2
<1> HIDE DEF c, m, s
<1>7. /\ c.at \in InHand \union {"shuffle"} => IsInjective(c.tracks)
      /\ Held(c) \subseteq (1..m) \ (1..accepted) /\ \A j : CopyOf(c, j) = {}
  <2>1. CASE n = 0
    BY <1>4, <2>1 DEF NoCall, Held, InHand, CopyOf
  <2>2. CASE n # 0
    BY <1>4, <2>2 DEF Held, InHand, CopyOf
  <2> QED BY <2>1, <2>2
<1>8. /\ \A j \in Nat : InQueue(j)' = InQueue(j) /\ InQueue(j) \subseteq Stock[j]
      /\ \A j \in DOMAIN queues' : IsInjective(queues'[j])
      /\ \A h, i \in DOMAIN queueOf' : queueOf'[h] = queueOf'[i] => h = i
  <2>1. \A j \in Nat : InQueue(j) \subseteq Stock[j]
    BY <1>6, StockStep
  <2> QED BY <1>1, <2>1 DEF InQueue, Apart
<1>9. Stock[0] \subseteq 1..accepted
  BY DEF Apart, Separate
<1>10. /\ 0 \in Nat
       /\ InQueue(0)' \union CopyOf(c, 0)
            \subseteq Stock[0] \union Held(calls[t]) \union ((1..m) \ (1..accepted))
       /\ Held(c) \subseteq Held(calls[t]) \union ((1..m) \ (1..accepted))
       /\ (InQueue(0)' \union CopyOf(c, 0)) \cap Held(c) = {}
       /\ \A j \in Nat \ {0} : InQueue(j)' \union CopyOf(c, j) \subseteq Stock[j]
  BY <1>7, <1>8, <1>9
<1> QED BY <1>5, <1>6, <1>7, <1>8, <1>10, ApartStep

\* A pushed track leaves the task's hands.
LEMMA ApartPushes ==
    ASSUME TrackShape, Apart, NEW t \in Tasks, PushBack(t)
    PROVE  Apart'
\* The number of the queue stays what it is in the step.
<1>k. PICK k \in Nat : k = calls[t].queue
  <2>1. calls[t].queue \in 1..Len(queues) /\ Len(queues) \in Nat
    BY Pushes DEF TrackShape
  <2> QED BY <2>1
<1> DEFINE c == calls[t]
           q == queues[k]
           e == Head(c.tracks)
           d == Pushed(c)
           s == Append(q, e)
           rest == Tail(c.tracks)
<1>1. /\ c.at = "push" /\ k \in 1..Len(queues)
      /\ c.tracks \in Seq(Nat) /\ c.tracks # <<>> /\ ToSet(c.tracks) \subseteq 1..accepted
      /\ q \in Seq(Nat) /\ OneCall(t, d) /\ queues' = [queues EXCEPT ![k] = s]
      /\ UNCHANGED <<queueOf, accepted>>
  BY <1>k, Pushes
<1>2. /\ CallShape(c, accepted, Len(queues)) /\ accepted \in Nat /\ Len(queues) \in Nat
      /\ IsInjective(c.tracks)
  <2>1. CallShape(c, accepted, Len(queues)) /\ accepted \in Nat /\ Len(queues) \in Nat
    BY TracksAssumption DEF TrackShape
  <2>2. c.at \in InHand
    BY <1>1 DEF InHand
  <2> QED BY <2>1, <2>2 DEF Apart
<1>3. /\ e \in ToSet(c.tracks) /\ ToSet(rest) = ToSet(c.tracks) \ {e} /\ IsInjective(rest)
      /\ Len(c.tracks) = 1 => ToSet(c.tracks) = {e}
  BY <1>1, <1>2, TailKeeps
<1>4. /\ Len(c.tracks) = 1 => d = NoCall
      /\ Len(c.tracks) # 1 => d.at = "ensure" /\ d.tracks = rest
  BY <1>1, <1>2, PushedShape
<1>5. Held(c) = ToSet(c.tracks) /\ InHands[t] = Held(c) /\ k \in Nat /\ k \in DOMAIN queues
  <2>1. InHands[t] = Held(c)
    BY DEF InHands
  <2>2. Held(c) = ToSet(c.tracks)
    BY <1>1 DEF Held, InHand
  <2>3. k \in Nat /\ k \in DOMAIN queues
    BY <1>1 DEF TrackShape
  <2> QED BY <2>1, <2>2, <2>3
<1>6. InQueue(k) = ToSet(q) /\ IsInjective(q)
  BY <1>5 DEF InQueue, Apart
<1>7. InQueue(k) \subseteq Stock[k] /\ Stock[k] \cap Held(c) = {}
  <2>1. InQueue(k) \subseteq Stock[k]
    BY <1>1, <1>5, StockStep
  <2> QED BY <1>5, <2>1 DEF Apart, Separate
<1> HIDE DEF c, q, e, d, rest
<1>8. e \in Nat /\ e \notin ToSet(q)
  <2>1. e \in 1..accepted
    BY <1>1, <1>3
  <2> QED BY <1>3, <1>5, <1>6, <1>7, <2>1
<1>9. IsInjective(s) /\ ToSet(s) = ToSet(q) \union {e}
  BY <1>1, <1>6, <1>8, AppendKeeps
<1> HIDE DEF s
<1>10. /\ d.at \in InHand \union {"shuffle"} => IsInjective(d.tracks)
       /\ Held(d) = Held(c) \ {e} /\ \A j : CopyOf(d, j) = {}
  <2>1. CASE Len(c.tracks) = 1
    BY <1>3, <1>4, <1>5, <2>1 DEF NoCall, Held, InHand, CopyOf
  <2>2. CASE Len(c.tracks) # 1
    BY <1>3, <1>4, <1>5, <2>2 DEF Held, InHand, CopyOf
  <2> QED BY <2>1, <2>2
<1>11. /\ InQueue(k)' = ToSet(s) /\ InQueue(k) = ToSet(queues[k])
       /\ \A j \in Nat \ {k} : InQueue(j)' = InQueue(j)
       /\ \A j \in DOMAIN queues' : IsInjective(queues'[j])
       /\ \A h, i \in DOMAIN queueOf' : queueOf'[h] = queueOf'[i] => h = i
  <2>1. /\ k \in 1..Len(queues) /\ IsInjective(s) /\ queues' = [queues EXCEPT ![k] = s]
        /\ queueOf' = queueOf
    BY <1>1, <1>9
  <2> QED BY <2>1, ApartQueues
<1> DEFINE m == accepted'
<1>12. m \in Nat /\ accepted' = m /\ accepted <= m /\ m = accepted
  BY <1>1, <1>2
<1> HIDE DEF m
<1>13. /\ InQueue(k)' \union CopyOf(d, k)
            \subseteq Stock[k] \union Held(calls[t]) \union ((1..m) \ (1..accepted))
       /\ Held(d) \subseteq Held(calls[t]) \union ((1..m) \ (1..accepted))
       /\ (InQueue(k)' \union CopyOf(d, k)) \cap Held(d) = {}
  BY <1>3, <1>5, <1>6, <1>7, <1>9, <1>10, <1>11 DEF c
<1>14. \A j \in Nat \ {k} : InQueue(j)' \union CopyOf(d, j) \subseteq Stock[j]
  BY <1>1, <1>10, <1>11, StockStep
<1>15. /\ k \in Nat /\ OneCall(t, d)
       /\ d.at \in InHand \union {"shuffle"} => IsInjective(d.tracks)
       /\ \A j \in DOMAIN queues' : IsInjective(queues'[j])
       /\ \A h, i \in DOMAIN queueOf' : queueOf'[h] = queueOf'[i] => h = i
  BY <1>1, <1>5, <1>10, <1>11
<1> QED BY <1>12, <1>13, <1>14, <1>15, ApartStep

\* A shuffle writes back, in another order, what it has copied from the same queue.
LEMMA ApartShuffles ==
    ASSUME TrackShape, Apart, NEW t \in Tasks, ShuffleWrites(t)
    PROVE  Apart'
\* The number of the queue stays what it is in the step.
<1>k. PICK k \in Nat : k = calls[t].queue
  <2>1. calls[t].queue \in 1..Len(queues) /\ Len(queues) \in Nat
    BY Shuffles DEF TrackShape
  <2> QED BY <2>1
<1> DEFINE c == calls[t]
           d == NoCall
<1>1. /\ c.at = "shuffle" /\ k \in 1..Len(queues) /\ OneCall(t, d)
      /\ UNCHANGED <<queueOf, accepted>> /\ Len(queues) \in Nat
  BY <1>k, Shuffles DEF TrackShape
<1>2. PICK s \in TrackSeqs(accepted) :
        /\ queues' = [queues EXCEPT ![k] = s]
        /\ ToSet(s) = ToSet(c.tracks)
        /\ IsInjective(c.tracks) => IsInjective(s)
  BY <1>k, Shuffles
<1>3. IsInjective(c.tracks) /\ k \in Nat
  BY <1>1 DEF Apart
<1>4. ToSet(c.tracks) \subseteq Stock[k]
  <2>1. CopyOf(c, k) = ToSet(c.tracks)
    BY <1>1, <1>k DEF CopyOf
  <2> QED BY <1>1, <1>3, <2>1, StockStep
<1>5. Held(d) = {} /\ d.at = "none" /\ \A j : CopyOf(d, j) = {}
  BY DEF Held, InHand, NoCall, CopyOf
<1> HIDE DEF c, d
<1>6. /\ InQueue(k)' = ToSet(s) /\ InQueue(k) = ToSet(queues[k])
      /\ \A j \in Nat \ {k} : InQueue(j)' = InQueue(j)
      /\ \A j \in DOMAIN queues' : IsInjective(queues'[j])
      /\ \A h, i \in DOMAIN queueOf' : queueOf'[h] = queueOf'[i] => h = i
  <2>1. /\ k \in 1..Len(queues) /\ IsInjective(s) /\ queues' = [queues EXCEPT ![k] = s]
        /\ queueOf' = queueOf
    BY <1>1, <1>2, <1>3
  <2> QED BY <2>1, ApartQueues
<1> DEFINE m == accepted'
<1>7. m \in Nat /\ accepted' = m /\ accepted <= m
  BY <1>1, TracksAssumption DEF TrackShape
<1> HIDE DEF m
<1>8. /\ InQueue(k)' \union CopyOf(d, k)
           \subseteq Stock[k] \union Held(calls[t]) \union ((1..m) \ (1..accepted))
      /\ Held(d) \subseteq Held(calls[t]) \union ((1..m) \ (1..accepted))
      /\ (InQueue(k)' \union CopyOf(d, k)) \cap Held(d) = {}
      /\ d.at \in InHand \union {"shuffle"} => IsInjective(d.tracks)
  BY <1>2, <1>4, <1>5, <1>6 DEF InHand
<1>9. \A j \in Nat \ {k} : InQueue(j)' \union CopyOf(d, j) \subseteq Stock[j]
  BY <1>1, <1>5, <1>6, StockStep
<1>10. /\ k \in Nat /\ OneCall(t, d)
       /\ \A j \in DOMAIN queues' : IsInjective(queues'[j])
       /\ \A h, i \in DOMAIN queueOf' : queueOf'[h] = queueOf'[i] => h = i
  BY <1>1, <1>3, <1>6
<1> QED BY <1>7, <1>8, <1>9, <1>10, ApartStep

\* The calls that take tracks out of a guild's queue or put a new one in.
LEMMA ApartEdits ==
    ASSUME TrackShape, Apart, NEW t \in Tasks, NEW g \in Guilds,
           Take(t, g) \/ ClearTracks(t, g) \/ InsertTrack(t, g) \/ AppendTracks(t, g)
    PROVE  Apart'
<1> DEFINE q == Tracks(g)
           c == calls[t]
           m == accepted'
<1>1. PICK s \in Seq(Nat), in \in SUBSET Nat, out \in SUBSET ToSet(q) :
             /\ Changes(t, g, s)
             /\ taken' = taken \union out
             /\ ToSet(s) \subseteq ToSet(q) \union in
             /\ accepted' \in accepted..MaxTracks
             /\ in = (1..accepted') \ (1..accepted)
             /\ IsInjective(q) => IsInjective(s) /\ ToSet(s) = (ToSet(q) \ out) \union in
  BY EditedTracks
<1>0. g \in DOMAIN queueOf
  BY <1>1 DEF Changes
<1>k. PICK k \in Nat : k = queueOf[g]
  <2>1. queueOf[g] \in 1..Len(queues) /\ Len(queues) \in Nat
    BY <1>0 DEF TrackShape
  <2> QED BY <2>1
<1>2. /\ c.at = "none" /\ queues' = [queues EXCEPT ![k] = s]
      /\ queueOf' = queueOf /\ calls' = calls
  BY <1>1, <1>k DEF Changes, CallAt
<1>3. /\ q = queues[k] /\ k \in 1..Len(queues) /\ k \in Nat /\ k \in DOMAIN queues
  <2>1. q = queues[k] /\ k \in 1..Len(queues)
    BY <1>0, <1>k, TracksShape
  <2> QED BY <2>1 DEF TrackShape
<1>4. OneCall(t, c) /\ Held(c) = {} /\ \A j : CopyOf(c, j) = {}
  BY <1>2 DEF OneCall, Held, InHand, CopyOf
<1>5. m \in Nat /\ accepted' = m /\ accepted <= m
  BY <1>1, TracksAssumption DEF TrackShape
<1>6. IsInjective(q)
  BY <1>3 DEF Apart
<1> HIDE DEF q, c, m
<1>7. /\ InQueue(k)' = ToSet(s) /\ InQueue(k) = ToSet(queues[k])
      /\ \A j \in Nat \ {k} : InQueue(j)' = InQueue(j)
      /\ \A j \in DOMAIN queues' : IsInjective(queues'[j])
      /\ \A h, i \in DOMAIN queueOf' : queueOf'[h] = queueOf'[i] => h = i
  <2>1. /\ k \in 1..Len(queues) /\ IsInjective(s) /\ queues' = [queues EXCEPT ![k] = s]
        /\ queueOf' = queueOf
    BY <1>1, <1>2, <1>3, <1>6
  <2> QED BY <2>1, ApartQueues
<1>8. \A j \in Nat : InQueue(j) \subseteq Stock[j]
  BY <1>4, StockStep
<1>9. in = (1..m) \ (1..accepted)
  BY <1>1, <1>5
<1>10. /\ InQueue(k)' \union CopyOf(c, k)
            \subseteq Stock[k] \union Held(calls[t]) \union ((1..m) \ (1..accepted))
       /\ Held(c) \subseteq Held(calls[t]) \union ((1..m) \ (1..accepted))
       /\ (InQueue(k)' \union CopyOf(c, k)) \cap Held(c) = {}
       /\ \A j \in Nat \ {k} : InQueue(j)' \union CopyOf(c, j) \subseteq Stock[j]
       /\ c.at \in InHand \union {"shuffle"} => IsInjective(c.tracks)
  BY <1>1, <1>2, <1>3, <1>4, <1>7, <1>8, <1>9 DEF InHand
<1>11. /\ k \in Nat /\ OneCall(t, c)
       /\ \A j \in DOMAIN queues' : IsInjective(queues'[j])
       /\ \A h, i \in DOMAIN queueOf' : queueOf'[h] = queueOf'[i] => h = i
  BY <1>3, <1>4, <1>7
<1> QED BY <1>5, <1>10, <1>11, ApartStep

\* A disturbance lasts.
LEMMA DisturbedStays == [TrackNext]_trackVars /\ ~disturbed' => ~disturbed
<1> SUFFICES ASSUME [TrackNext]_trackVars, ~disturbed' PROVE ~disturbed
  OBVIOUS
<1> QED
  BY ZenonT(40) DEF TrackNext, trackVars, EnsureQueue, MakeQueue, PushBack, ShuffleWrites,
         MakeEmptyQueue, Enqueue, AppendQueue, Take, ClearTracks, InsertTrack, AppendTracks,
         Changes, ShuffleCopies, BuildDisplay

\* Whatever calls overlap, no track is twice in the queues of the guilds, or in one of them
\* and still to be pushed; and as long as none comes between the halves of another, no
\* track is lost.  For any number of tasks, guilds and tracks.
THEOREM TracksStay == TrackSpec => []TracksKept
<1> DEFINE Inv == TrackShape /\ Apart /\ (~disturbed => Calm)
<1>1. TrackInit => Inv
  <2> SUFFICES ASSUME TrackInit PROVE Apart /\ Calm
    BY TrackShapeInit
  <2>1. \A t \in Tasks : calls[t] = NoCall
    BY DEF TrackInit
  <2>2. \A g \in Guilds : Tracks(g) = <<>>
    BY DEF TrackInit, Tracks
  <2>3. IsInjective(<<>>) /\ ToSet(<<>>) = {} /\ NoCall.at = "none"
    BY DEF IsInjective, ToSet, NoCall
  <2>4. CallsPlaced
    <3>1. DOMAIN queueOf = {}
      BY DEF TrackInit
    <3> QED BY <2>1, <2>2, <2>3, <3>1 DEF CallsPlaced, Placed, InHand
  <2>5. (\A g \in Guilds : QueuedTracks[g] = {}) /\ (\A t \in Tasks : InHands[t] = {})
    BY <2>1, <2>2, <2>3 DEF QueuedTracks, InHands, Held, InHand
  <2>6. taken = {} /\ 1..accepted = {}
    BY DEF TrackInit
  <2>7. Calm
    BY <2>4, <2>5, <2>6 DEF Calm, Ledger
  <2>8. DOMAIN queues = {} /\ DOMAIN queueOf = {}
    BY DEF TrackInit
  <2>9. \A k \in Nat : Stock[k] = {}
    BY <2>1, <2>3, <2>8 DEF Stock, InQueue, CopyOf
  <2>10. Separate(Stock, InHands, accepted)
    BY <2>5, <2>9 DEF Separate
  <2>11. Apart
    BY <2>1, <2>3, <2>8, <2>10 DEF Apart, InHand
  <2> QED BY <2>7, <2>11
<1>2. Inv /\ [TrackNext]_trackVars => Inv'
  <2> SUFFICES ASSUME Inv, [TrackNext]_trackVars PROVE Apart' /\ (~disturbed' => Calm')
    BY TrackShapeStep
  <2>1. TrackShape /\ Apart /\ (~disturbed' => Calm)
    BY DisturbedStays
  <2>2. CASE TrackNext
    <3>1. PICK t \in Tasks :
            \/ EnsureQueue(t) \/ MakeQueue(t) \/ PushBack(t) \/ ShuffleWrites(t)
            \/ MakeEmptyQueue(t)
            \/ \E g \in Guilds :
                 \/ Enqueue(t, g) \/ AppendQueue(t, g) \/ Take(t, g) \/ ClearTracks(t, g)
                 \/ InsertTrack(t, g) \/ AppendTracks(t, g) \/ ShuffleCopies(t, g)
                 \/ BuildDisplay(t, g)
      BY <2>2 DEF TrackNext
    <3>2. CASE EnsureQueue(t) \/ MakeQueue(t) \/ MakeEmptyQueue(t)
      <4>1. calls[t].guild \in Guilds
        BY <2>1, <3>2 DEF EnsureQueue, MakeQueue, MakeEmptyQueue, CallAt, TrackShape, CallShape
      <4> QED BY <2>1, <3>2, <4>1, CalmQuiet, ApartByCall
    <3>3. CASE PushBack(t)
      BY <2>1, <3>3, CalmPushes, ApartPushes
    <3>4. CASE ShuffleWrites(t)
      BY <2>1, <3>4, CalmShuffles, ApartShuffles
    <3>5. ASSUME NEW g \in Guilds, ShuffleCopies(t, g) \/ BuildDisplay(t, g)
          PROVE  Apart' /\ (~disturbed' => Calm')
      BY <2>1, <3>5, CalmQuiet, ApartByCall
    <3>6. ASSUME NEW g \in Guilds, Enqueue(t, g) \/ AppendQueue(t, g)
          PROVE  Apart' /\ (~disturbed' => Calm')
      BY <2>1, <3>6, CalmAccepts, ApartAccepts
    <3>7. ASSUME NEW g \in Guilds,
                 Take(t, g) \/ ClearTracks(t, g) \/ InsertTrack(t, g) \/ AppendTracks(t, g)
          PROVE  Apart' /\ (~disturbed' => Calm')
      BY <2>1, <3>7, CalmEdits, ApartEdits
    <3> QED BY <3>1, <3>2, <3>3, <3>4, <3>5, <3>6, <3>7
  <2>3. CASE UNCHANGED trackVars
    <3>1. ~disturbed' => Calm'
      BY <2>1, <2>3 DEF trackVars, Calm, CallsPlaced, Placed, QueuedTracks, InHands, Tracks, Held
    <3>2. Stock' = Stock /\ InHands' = InHands
      BY <2>3 DEF trackVars, Stock, InQueue, CopyOf, InHands, Held
    <3> QED BY <2>1, <2>3, <3>1, <3>2 DEF trackVars, Apart
  <2> QED BY <2>2, <2>3
<1> DEFINE Once ==
      /\ \A g, h \in Guilds : \A i \in DOMAIN Tracks(g), j \in DOMAIN Tracks(h) :
           Tracks(g)[i] = Tracks(h)[j] => g = h /\ i = j
      /\ \A g \in Guilds : ToSet(Tracks(g)) \cap Pending = {}
<1>3. TrackShape /\ Apart => Once
  <2> SUFFICES ASSUME TrackShape, Apart PROVE Once
    OBVIOUS
  <2>1. ASSUME NEW g \in Guilds, NEW i \in DOMAIN Tracks(g)
        PROVE  /\ g \in DOMAIN queueOf /\ queueOf[g] \in Nat
               /\ Tracks(g)[i] \in Stock[queueOf[g]] /\ IsInjective(Tracks(g))
    <3>1. g \in DOMAIN queueOf
      BY DEF Tracks
    <3>2. /\ Tracks(g) = queues[queueOf[g]] /\ queueOf[g] \in DOMAIN queues
          /\ queueOf[g] \in Nat
      BY <3>1, TracksShape DEF TrackShape
    <3>3. Tracks(g)[i] \in InQueue(queueOf[g])
      BY <3>2 DEF InQueue, ToSet
    <3> QED BY <3>1, <3>2, <3>3 DEF Stock, Apart
  <2>2. ASSUME NEW g \in Guilds, NEW h \in Guilds, NEW i \in DOMAIN Tracks(g),
               NEW j \in DOMAIN Tracks(h), Tracks(g)[i] = Tracks(h)[j]
        PROVE  g = h /\ i = j
    <3>1. queueOf[g] = queueOf[h]
      BY <2>1, <2>2 DEF Apart, Separate
    <3>2. g = h
      BY <2>1, <3>1 DEF Apart
    <3> QED BY <2>1, <2>2, <3>2 DEF IsInjective
  <2>3. Pending = UNION {InHands[t] : t \in Tasks}
    BY DEF Pending, InHands, Held, InHand
  <2>4. ASSUME NEW g \in Guilds, NEW e \in ToSet(Tracks(g)) PROVE e \notin Pending
    <3>1. PICK i \in DOMAIN Tracks(g) : e = Tracks(g)[i]
      BY DEF ToSet
    <3>2. e \in Stock[queueOf[g]] /\ queueOf[g] \in Nat
      BY <2>1, <3>1
    <3>3. \A t \in Tasks : e \notin InHands[t]
      BY <3>2 DEF Apart, Separate
    <3> QED BY <2>3, <3>3
  <2> QED BY <2>2, <2>4
<1>4. Calm => UNION {ToSet(Tracks(g)) : g \in Guilds} = ((1..accepted) \ taken) \ Pending
  <2> SUFFICES ASSUME Calm
               PROVE  UNION {ToSet(Tracks(g)) : g \in Guilds}
                        = ((1..accepted) \ taken) \ Pending
    OBVIOUS
  <2>1. Pending = UNION {InHands[t] : t \in Tasks}
    BY DEF Pending, InHands, Held, InHand
  <2>2. UNION {ToSet(Tracks(g)) : g \in Guilds} = UNION {QueuedTracks[g] : g \in Guilds}
    BY DEF QueuedTracks
  <2>3. UNION {QueuedTracks[g] : g \in Guilds} =
          ((1..accepted) \ taken) \ UNION {InHands[t] : t \in Tasks}
    BY DEF Calm, Ledger
  <2> QED BY <2>1, <2>2, <2>3
<1>5. Inv => TracksKept
  BY <1>3, <1>4 DEF TracksKept
<1> QED BY <1>1, <1>2, <1>5, PTL DEF TrackSpec

-----------------------------------------------------------------------------
(* The Brainfuck interpreter *)

LEMMA NestingIs ==
    ASSUME NEW c
    PROVE  /\ Nesting(c) = IF c = "[" THEN 1 ELSE IF c = "]" THEN -1 ELSE 0
           /\ Nesting(c) \in {-1, 0, 1}
BY DEF Nesting

\* Brackets of one kind in a part of the program.
Brackets(b, i, j) == {k \in i..j : code[k] = b}

LEMMA BracketsAre ==
    ASSUME NEW b, NEW i \in Int, NEW j \in Int
    PROVE  IsFiniteSet(Brackets(b, i, j)) /\ Cardinality(Brackets(b, i, j)) \in Nat
<1>1. IsFiniteSet(i..j)
  BY FS_Interval
<1>2. Brackets(b, i, j) \subseteq i..j
  BY DEF Brackets
<1>3. IsFiniteSet(Brackets(b, i, j))
  BY <1>1, <1>2, FS_Subset
<1> QED BY <1>3, FS_CardinalityType

LEMMA BracketsSplit ==
    ASSUME NEW b, NEW i \in Int, NEW j \in Int, NEW k \in i..j
    PROVE  Cardinality(Brackets(b, i, j)) =
             Cardinality(Brackets(b, i, k)) + Cardinality(Brackets(b, k + 1, j))
<1> DEFINE A == Brackets(b, i, k)
           B == Brackets(b, k + 1, j)
<1>1. /\ IsFiniteSet(A) /\ IsFiniteSet(B)
      /\ Cardinality(A) \in Nat /\ Cardinality(B) \in Nat
  BY BracketsAre
<1>2. A \cup B = Brackets(b, i, j) /\ A \cap B = {}
  BY DEF Brackets
<1> HIDE DEF A, B
<1>3. Cardinality(A \cup B) = Cardinality(A) + Cardinality(B) - Cardinality(A \cap B)
  BY <1>1, FS_Union
<1>4. Cardinality(A \cap B) = 0
  BY <1>2, FS_EmptySet
<1>5. Cardinality(A \cup B) = Cardinality(A) + Cardinality(B)
  BY <1>1, <1>3, <1>4
<1> QED BY <1>2, <1>5 DEF A, B

LEMMA BracketsOne ==
    ASSUME NEW b, NEW i \in Int
    PROVE  Cardinality(Brackets(b, i, i)) = IF code[i] = b THEN 1 ELSE 0
<1>1. CASE code[i] = b
  <2>1. Brackets(b, i, i) = {i}
    BY <1>1 DEF Brackets
  <2> QED BY <1>1, <2>1, FS_Singleton
<1>2. CASE code[i] # b
  <2>1. Brackets(b, i, i) = {}
    BY <1>2 DEF Brackets
  <2> QED BY <1>2, <2>1, FS_EmptySet
<1> QED BY <1>1, <1>2

LEMMA NetOpensIs ==
    ASSUME NEW i \in Int, NEW j \in Int
    PROVE  /\ NetOpens(i, j) \in Int
           /\ NetOpens(i, i) = Nesting(code[i])
           /\ \A k \in i..j : NetOpens(i, j) = NetOpens(i, k) + NetOpens(k + 1, j)
<1>1. \A k, l \in Int : NetOpens(k, l) = Cardinality(Brackets("[", k, l))
                                           - Cardinality(Brackets("]", k, l))
  BY DEF NetOpens, Brackets
<1>2. NetOpens(i, j) \in Int
  BY <1>1, BracketsAre
<1>3. NetOpens(i, i) = Nesting(code[i])
  <2> DEFINE a == Cardinality(Brackets("[", i, i))
             c == Cardinality(Brackets("]", i, i))
  <2>1. /\ a = IF code[i] = "[" THEN 1 ELSE 0
        /\ c = IF code[i] = "]" THEN 1 ELSE 0
    BY BracketsOne
  <2>2. NetOpens(i, i) = a - c
    BY <1>1
  <2> HIDE DEF a, c
  <2> QED BY <2>1, <2>2, NestingIs
<1>4. ASSUME NEW k \in i..j PROVE NetOpens(i, j) = NetOpens(i, k) + NetOpens(k + 1, j)
  <2> DEFINE a == Cardinality(Brackets("[", i, k))
             b == Cardinality(Brackets("[", k + 1, j))
             c == Cardinality(Brackets("]", i, k))
             d == Cardinality(Brackets("]", k + 1, j))
  <2>1. a \in Nat /\ b \in Nat /\ c \in Nat /\ d \in Nat
    BY BracketsAre
  <2>2. /\ Cardinality(Brackets("[", i, j)) = a + b
        /\ Cardinality(Brackets("]", i, j)) = c + d
    BY BracketsSplit
  <2>3. /\ NetOpens(i, j) = (a + b) - (c + d) /\ NetOpens(i, k) = a - c
        /\ NetOpens(k + 1, j) = b - d
    BY <1>1, <2>2
  <2> HIDE DEF a, b, c, d
  <2> QED BY <2>1, <2>3
<1> QED BY <1>2, <1>3, <1>4

LEMMA NetOpensOne ==
    ASSUME NEW i \in Int
    PROVE  /\ code[i] = "[" => NetOpens(i, i) = 1
           /\ code[i] = "]" => NetOpens(i, i) = -1
<1>1. NetOpens(i, i) = Nesting(code[i])
  <2> DEFINE j == i
  <2>1. j \in Int /\ j = i
    OBVIOUS
  <2> HIDE DEF j
  <2> QED BY <2>1, NetOpensIs
<1> QED BY <1>1, NestingIs

\* The depth that the scan counts is the number of loops left open.
LEMMA DepthForwardIs ==
    ASSUME NEW from \in 1..Len(code), code \in Seq(Instructions), code[from] = "["
    PROVE  \A q \in from..Len(code) : DepthForward(from)[q] = NetOpens(from, q)
<1> DEFINE n == Len(code)
           D == from..n
           F == [q \in D |-> NetOpens(from, q)]
           depth == DepthForward(from)
<1>0. n \in Nat /\ from \in Nat /\ from >= 1 /\ from <= n
  OBVIOUS
<1>1. NetOpens(from, from) = 1
  BY <1>0, NetOpensOne
<1>2. ASSUME NEW q \in D, q # from
      PROVE  q - 1 \in D /\ NetOpens(from, q) = NetOpens(from, q - 1) + Nesting(code[q])
  <2>1. q \in Int /\ from \in Int /\ q - 1 \in from..q /\ (q - 1) + 1 = q /\ q - 1 \in D
    BY <1>0, <1>2
  <2>2. NetOpens(from, q) = NetOpens(from, q - 1) + NetOpens((q - 1) + 1, q)
    BY <2>1, NetOpensIs
  <2>3. NetOpens(q, q) = Nesting(code[q])
    BY <2>1, NetOpensIs
  <2> QED BY <2>1, <2>2, <2>3
<1>3. F = [q \in D |-> IF q = from THEN 1 ELSE F[q - 1] + Nesting(code[q])]
  BY <1>1, <1>2
<1>4. depth = [q \in D |-> IF q = from THEN 1 ELSE depth[q - 1] + Nesting(code[q])]
  <2>1. depth = CHOOSE f : f = [q \in D |-> IF q = from THEN 1 ELSE f[q - 1] + Nesting(code[q])]
    BY DEF DepthForward
  <2> HIDE DEF F, depth, D
  <2> QED BY <1>3, <2>1
<1>5. /\ depth[from] = 1
      /\ \A q \in D \ {from} : depth[q] = depth[q - 1] + Nesting(code[q])
  <2>1. from \in D
    BY <1>0
  <2> HIDE DEF depth
  <2> QED BY <1>4, <2>1
<1> HIDE DEF F, depth
<1> DEFINE T == {q \in D : depth[q] # NetOpens(from, q)}
<1>6. ASSUME NEW k \in T PROVE FALSE
  <2>1. T \in SUBSET Nat
    BY <1>0
  <2>2. PICK m \in T : \A q \in T : m <= q
    BY <2>1, Least
  <2>3. m # from
    BY <1>1, <1>5
  <2>4. m - 1 \in D /\ m - 1 \notin T
    BY <1>0, <1>2, <2>2, <2>3
  <2>5. depth[m - 1] = NetOpens(from, m - 1)
    BY <2>4
  <2> QED BY <1>2, <1>5, <2>3, <2>5
<1> QED BY <1>6 DEF depth

LEMMA DepthBackwardIs ==
    ASSUME NEW from \in 1..Len(code), code \in Seq(Instructions), code[from] = "]"
    PROVE  \A q \in 1..from : DepthBackward(from)[q] = -NetOpens(q, from)
<1> DEFINE n == Len(code)
           D == 1..from
           F == [q \in D |-> -NetOpens(q, from)]
           depth == DepthBackward(from)
<1>0. n \in Nat /\ from \in Nat /\ from >= 1 /\ from <= n
  OBVIOUS
<1>1. NetOpens(from, from) = -1
  BY <1>0, NetOpensOne
<1>2. ASSUME NEW q \in D, q # from
      PROVE  /\ q + 1 \in D /\ NetOpens(q + 1, from) \in Int
             /\ NetOpens(q, from) = Nesting(code[q]) + NetOpens(q + 1, from)
  <2>1. q \in Int /\ from \in Int /\ q \in q..from /\ q + 1 \in D /\ q + 1 \in Int
    BY <1>0, <1>2
  <2>2. NetOpens(q, from) = NetOpens(q, q) + NetOpens(q + 1, from)
    BY <2>1, NetOpensIs
  <2>3. NetOpens(q, q) = Nesting(code[q]) /\ NetOpens(q + 1, from) \in Int
    BY <2>1, NetOpensIs
  <2> QED BY <2>1, <2>2, <2>3
<1>3. F = [q \in D |-> IF q = from THEN 1 ELSE F[q + 1] - Nesting(code[q])]
  <2>1. ASSUME NEW q \in D, q # from PROVE F[q] = F[q + 1] - Nesting(code[q])
    <3> DEFINE a == NetOpens(q + 1, from)
               b == Nesting(code[q])
    <3>1. F[q] = -(b + a) /\ F[q + 1] = -a /\ a \in Int /\ b \in Int
      BY <1>2, <2>1, NestingIs
    <3> HIDE DEF a, b, F
    <3> QED BY <3>1 DEF b
  <2>2. F[from] = 1
    <3>1. F[from] = -NetOpens(from, from)
      BY <1>0
    <3> DEFINE a == NetOpens(from, from)
    <3>2. a \in Int /\ a + 1 = 0
      BY <1>1
    <3> HIDE DEF a, F
    <3>3. -a = 1
      BY <3>2
    <3> QED BY <3>1, <3>3 DEF a
  <2> QED BY <2>1, <2>2
<1>4. depth = [q \in D |-> IF q = from THEN 1 ELSE depth[q + 1] - Nesting(code[q])]
  <2>1. depth = CHOOSE f : f = [q \in D |-> IF q = from THEN 1 ELSE f[q + 1] - Nesting(code[q])]
    BY DEF DepthBackward
  <2> HIDE DEF F, depth, D
  <2> QED BY <1>3, <2>1
<1>5. /\ depth[from] = 1
      /\ \A q \in D \ {from} : depth[q] = depth[q + 1] - Nesting(code[q])
  <2>1. from \in D
    BY <1>0
  <2> HIDE DEF depth
  <2> QED BY <1>4, <2>1
<1> HIDE DEF F, depth
<1> DEFINE T == {k \in 0..from - 1 : depth[from - k] # -NetOpens(from - k, from)}
<1>6. T = {}
  <2> SUFFICES ASSUME NEW l \in T PROVE FALSE
    OBVIOUS
  <2>1. T \in SUBSET Nat
    BY <1>0
  <2>2. PICK m \in T : \A k \in T : m <= k
    BY <2>1, Least
  <2> DEFINE q == from - m
  <2>3. q \in D /\ depth[q] # -NetOpens(q, from)
    BY <1>0, <2>2
  <2>4. q # from
    BY <1>1, <1>5, <2>3
  <2>5. m - 1 \in 0..from - 1 /\ m - 1 \notin T /\ from - (m - 1) = q + 1
    <3>1. m \in Nat /\ m \in 0..from - 1 /\ from - m # from
      BY <2>2, <2>4
    <3>2. m # 0 /\ m - 1 \in 0..from - 1 /\ from - (m - 1) = (from - m) + 1 /\ ~(m <= m - 1)
      BY <1>0, <3>1
    <3>3. m - 1 \notin T
      <4> HIDE DEF T
      <4> QED BY <2>2, <3>2
    <3> QED BY <3>2, <3>3
  <2>6. depth[q + 1] = -NetOpens(q + 1, from)
    BY <2>5
  <2> HIDE DEF q
  <2>7. depth[q] = -NetOpens(q + 1, from) - Nesting(code[q])
    BY <1>5, <2>3, <2>4, <2>6
  <2> DEFINE a == NetOpens(q + 1, from)
             b == Nesting(code[q])
  <2>8. NetOpens(q, from) = b + a /\ a \in Int /\ b \in Int
    BY SMTT(20), <1>2, <2>3, <2>4, NestingIs
  <2>9. depth[q] = -a - b /\ depth[q] # -(b + a)
    BY <2>3, <2>7, <2>8
  <2> HIDE DEF a, b
  <2> QED BY <2>8, <2>9
<1>7. ASSUME NEW q \in D PROVE depth[q] = -NetOpens(q, from)
  <2>1. from - q \in 0..from - 1 /\ from - (from - q) = q
    BY <1>0
  <2>2. from - q \notin T
    BY <1>6
  <2> QED BY <2>1, <2>2
<1> QED BY <1>7 DEF depth
\* The forward scan finds the partner of the bracket it starts from, if it has one.
LEMMA ForwardFinds ==
    ASSUME NEW from \in 1..Len(code), code \in Seq(Instructions), code[from] = "["
    PROVE  /\ MatchBracketForward(from) \in 0..Len(code)
           /\ MatchBracketForward(from) # OffCode => Partners(from, MatchBracketForward(from))
           /\ MatchBracketForward(from) = OffCode => \A q \in 1..Len(code) : ~Partners(from, q)
<1> DEFINE n == Len(code)
           depth == DepthForward(from)
           net(q) == NetOpens(from, q)
           ends == {q \in from + 1..n : depth[q] = 0}
<1>0. n \in Nat /\ from \in Nat /\ from >= 1 /\ from <= n
  OBVIOUS
<1>1. \A q \in from..n : depth[q] = net(q) /\ net(q) \in Int
  <2>1. \A q \in from..n : depth[q] = net(q)
    BY DepthForwardIs
  <2>2. \A q \in from..n : net(q) \in Int
    BY <1>0, NetOpensIs
  <2> QED BY <2>1, <2>2
<1>2. net(from) = 1
  BY <1>0, NetOpensOne
<1>3. ASSUME NEW q \in from + 1..n
      PROVE  q - 1 \in from..n /\ net(q) = net(q - 1) + Nesting(code[q])
  <2>1. q \in Int /\ from \in Int /\ q - 1 \in from..q /\ (q - 1) + 1 = q /\ q - 1 \in from..n
    BY <1>0
  <2>2. net(q) = net(q - 1) + NetOpens((q - 1) + 1, q)
    BY <2>1, NetOpensIs
  <2>3. NetOpens(q, q) = Nesting(code[q])
    BY <2>1, NetOpensIs
  <2> QED BY <2>1, <2>2, <2>3
<1>4. MatchBracketForward(from) = IF ends = {} THEN OffCode ELSE Min(ends)
  BY DEF MatchBracketForward
<1>5. ends \in SUBSET Nat
  BY <1>0
<1> HIDE DEF net, depth
<1>6. CASE ends = {}
  <2>1. ASSUME NEW q \in 1..n PROVE ~Partners(from, q)
    <3> SUFFICES ASSUME from < q, NetOpens(from, q) = 0 PROVE FALSE
      BY DEF Partners
    <3>1. q \in from + 1..n /\ q \in from..n
      BY <1>0
    <3>2. depth[q] = 0
      BY <1>1, <3>1 DEF net
    <3> QED BY <1>6, <3>1, <3>2
  <2> QED BY <1>0, <1>4, <1>6, <2>1 DEF OffCode
<1>7. CASE ends # {}
  <2> DEFINE end == Min(ends)
  <2>1. end \in ends /\ \A q \in ends : end <= q
    BY <1>5, <1>7, MinIsLeast
  <2> HIDE DEF end
  <2>2. end \in from + 1..n /\ net(end) = 0 /\ end \in from..n /\ end \in 1..n
    BY <1>0, <1>1, <2>1
  <2>3. ASSUME NEW k \in from..end - 1 PROVE net(k) > 0
    <3> DEFINE T == {q \in from..end - 1 : ~(net(q) > 0)}
    <3>1. ASSUME NEW l \in T PROVE FALSE
      <4>1. T \in SUBSET Nat
        BY <1>0, <2>2
      <4>2. PICK m \in T : \A q \in T : m <= q
        BY <4>1, Least
      <4>3. m \in from..end - 1 /\ ~(net(m) > 0) /\ m # from
        BY <1>2, <4>2
      <4>4. m \in from + 1..n /\ m \in from..n /\ m - 1 \in from..end - 1 /\ m < end /\ ~(m <= m - 1)
        BY <1>0, <2>2, <4>3
      <4>5. net(m - 1) > 0
        BY <4>2, <4>4
      <4>6. net(m) = net(m - 1) + Nesting(code[m]) /\ net(m - 1) \in Int /\ net(m) \in Int
        BY <1>1, <1>3, <4>4
      <4>7. net(m) = 0
        <5> DEFINE a == net(m - 1)
                   b == Nesting(code[m])
                   c == net(m)
        <5>1. a \in Int /\ a > 0 /\ b \in {-1, 0, 1} /\ c = a + b /\ ~(c > 0)
          BY <4>3, <4>5, <4>6, NestingIs
        <5> HIDE DEF a, b, c
        <5>2. c = 0
          BY <5>1
        <5> QED BY <5>2 DEF c
      <4>8. m \in ends
        BY <1>1, <4>4, <4>7
      <4>9. end <= m
        BY <2>1, <4>8
      <4> QED BY <2>2, <4>4, <4>9
    <3> QED BY <3>1
  <2>4. code[end] = "]"
    <3> DEFINE a == net(end - 1)
               b == Nesting(code[end])
    <3>1. end - 1 \in from..end - 1 /\ end - 1 \in from..n
      BY <1>0, <2>2
    <3>2. a > 0 /\ a \in Int /\ 0 = a + b /\ b \in {-1, 0, 1}
      BY <1>1, <1>3, <2>2, <2>3, <3>1, NestingIs
    <3> HIDE DEF a, b
    <3>3. b = -1
      BY <3>2
    <3> QED BY <3>3, NestingIs DEF b
  <2>5. Partners(from, end)
    BY <1>0, <2>2, <2>3, <2>4 DEF Partners, net
  <2>6. end # OffCode /\ end \in 0..n
    BY <2>2 DEF OffCode
  <2>7. MatchBracketForward(from) = end
    BY <1>4, <1>7 DEF end
  <2> QED BY <2>5, <2>6, <2>7
<1> QED BY <1>6, <1>7

\* The backward scan likewise.
LEMMA BackwardFinds ==
    ASSUME NEW from \in 1..Len(code), code \in Seq(Instructions), code[from] = "]"
    PROVE  /\ MatchBracketBackward(from) \in 0..Len(code)
           /\ MatchBracketBackward(from) # OffCode => Partners(MatchBracketBackward(from), from)
           /\ MatchBracketBackward(from) = OffCode => \A q \in 1..Len(code) : ~Partners(q, from)
<1> DEFINE n == Len(code)
           depth == DepthBackward(from)
           net(q) == NetOpens(q, from)
           ends == {q \in 1..from - 1 : depth[q] = 0}
<1>0. n \in Nat /\ from \in Nat /\ from >= 1 /\ from <= n
  OBVIOUS
<1>1. \A q \in 1..from : depth[q] = -net(q) /\ net(q) \in Int
  <2>1. \A q \in 1..from : depth[q] = -net(q)
    BY DepthBackwardIs
  <2>2. \A q \in 1..from : net(q) \in Int
    BY <1>0, NetOpensIs
  <2> QED BY <2>1, <2>2
<1>2. net(from) = -1
  BY <1>0, NetOpensOne
<1>3. ASSUME NEW q \in 1..from - 1
      PROVE  q + 1 \in 1..from /\ net(q) = Nesting(code[q]) + net(q + 1)
  <2>1. q \in Int /\ from \in Int /\ q \in q..from /\ q + 1 \in 1..from
    BY <1>0
  <2>2. net(q) = NetOpens(q, q) + net(q + 1)
    BY <2>1, NetOpensIs
  <2>3. NetOpens(q, q) = Nesting(code[q])
    BY <2>1, NetOpensIs
  <2> QED BY <2>1, <2>2, <2>3
<1>4. MatchBracketBackward(from) = IF ends = {} THEN OffCode ELSE Max(ends)
  BY DEF MatchBracketBackward
<1>5. ends \in SUBSET (0..n)
  BY <1>0
<1> HIDE DEF net, depth
<1>6. CASE ends = {}
  <2>1. ASSUME NEW q \in 1..n PROVE ~Partners(q, from)
    <3> SUFFICES ASSUME q < from, NetOpens(q, from) = 0 PROVE FALSE
      BY DEF Partners
    <3>1. q \in 1..from - 1 /\ q \in 1..from
      BY <1>0
    <3>2. depth[q] = 0
      BY <1>1, <3>1 DEF net
    <3> QED BY <1>6, <3>1, <3>2
  <2> QED BY <1>0, <1>4, <1>6, <2>1 DEF OffCode
<1>7. CASE ends # {}
  <2> DEFINE end == Max(ends)
  <2>1. end \in ends /\ \A q \in ends : q <= end
    BY <1>0, <1>5, <1>7, MaxIsGreatest
  <2> HIDE DEF end
  <2>2. end \in 1..from - 1 /\ net(end) = 0 /\ end \in 1..from /\ end \in 1..n /\ end < from
    <3>1. end \in 1..from - 1 /\ end \in 1..from /\ end \in 1..n /\ end < from
      BY <1>0, <2>1
    <3> DEFINE a == net(end)
    <3>2. a \in Int /\ -a = 0
      BY <1>1, <2>1, <3>1
    <3> HIDE DEF a
    <3>3. a = 0
      BY <3>2
    <3> QED BY <3>1, <3>3 DEF a
  <2>3. ASSUME NEW k \in end + 1..from PROVE net(k) < 0
    <3> DEFINE T == {i \in 0..from - (end + 1) : ~(net(from - i) < 0)}
    <3>1. ASSUME NEW l \in T PROVE FALSE
      <4>1. T \in SUBSET Nat
        BY <1>0, <2>2
      <4>2. PICK i \in T : \A j \in T : i <= j
        BY <4>1, Least
      <4> DEFINE m == from - i
      <4>3. i \in Nat /\ i \in 0..from - (end + 1) /\ ~(net(m) < 0) /\ m \in Int
        BY <1>0, <4>2
      <4>4. m # from
        BY <1>2, <4>3
      <4>5. i # 0 /\ i - 1 \in 0..from - (end + 1) /\ from - (i - 1) = m + 1 /\ ~(i <= i - 1)
        BY <1>0, <2>2, <4>3, <4>4
      <4>6. i - 1 \notin T
        <5> HIDE DEF T, m
        <5> QED BY <4>2, <4>5
      <4>7. net(m + 1) < 0
        BY <4>5, <4>6
      <4>8. m \in 1..from - 1 /\ m \in 1..from /\ m + 1 \in 1..from /\ m > end
        BY <1>0, <2>2, <4>3, <4>5
      <4> HIDE DEF m
      <4>9. net(m) = 0
        <5> DEFINE a == net(m + 1)
                   b == Nesting(code[m])
                   c == net(m)
        <5>1. a \in Int /\ a < 0 /\ b \in {-1, 0, 1} /\ c = b + a /\ ~(c < 0)
          BY <1>1, <1>3, <4>3, <4>7, <4>8, NestingIs
        <5> HIDE DEF a, b, c
        <5>2. c = 0
          BY <5>1
        <5> QED BY <5>2 DEF c
      <4>10. depth[m] = 0
        BY <1>1, <4>8, <4>9
      <4>11. m <= end
        BY <2>1, <4>8, <4>10
      <4> QED BY <2>2, <4>8, <4>11
    <3>2. from - k \in 0..from - (end + 1) /\ from - (from - k) = k
      BY <1>0, <2>2
    <3>3. from - k \notin T
      BY <3>1
    <3> QED BY <3>2, <3>3
  <2>4. code[end] = "["
    <3> DEFINE a == net(end + 1)
               b == Nesting(code[end])
    <3>1. end + 1 \in end + 1..from /\ end + 1 \in 1..from
      BY <1>0, <2>2
    <3>2. a < 0 /\ a \in Int /\ 0 = b + a /\ b \in {-1, 0, 1}
      BY <1>1, <1>3, <2>2, <2>3, <3>1, NestingIs
    <3> HIDE DEF a, b
    <3>3. b = 1
      BY <3>2
    <3> QED BY <3>3, NestingIs DEF b
  <2>5. ASSUME NEW k \in end..from - 1 PROVE NetOpens(end, k) > 0
    <3>1. k \in end..from /\ k \in Int /\ k + 1 \in end + 1..from /\ k + 1 \in 1..from
      BY <1>0, <2>2
    <3> DEFINE a == NetOpens(end, k)
               b == net(k + 1)
    <3>2. a \in Int /\ b \in Int /\ b < 0 /\ 0 = a + b
      <4>1. a \in Int /\ net(end) = a + b
        <5>1. end \in Int /\ from \in Int
          BY <1>0, <2>2
        <5>2. a \in Int
          BY <3>1, <5>1, NetOpensIs
        <5>3. NetOpens(end, from) = NetOpens(end, k) + NetOpens(k + 1, from)
          BY <3>1, <5>1, NetOpensIs
        <5> QED BY <5>2, <5>3 DEF net
      <4> QED BY <1>1, <2>2, <2>3, <3>1, <4>1
    <3> HIDE DEF a, b
    <3>3. a > 0
      BY <3>2
    <3> QED BY <3>3 DEF a
  <2>6. Partners(end, from)
    BY <1>0, <2>2, <2>4, <2>5 DEF Partners, net
  <2>7. end # OffCode /\ end \in 0..n
    BY <2>2 DEF OffCode
  <2>8. MatchBracketBackward(from) = end
    BY <1>4, <1>7 DEF end
  <2> QED BY <2>6, <2>7, <2>8
<1> QED BY <1>6, <1>7
\* The program stays, the tape holds bytes, and the program counter stays on the code or
\* one behind it: a jump goes to an instruction.
BfInv ==
    /\ BfTypeOK
    /\ input \in Seq({1})

\* Where the pointer can be: a step moves it by one at most, and a jump starts on the tape.
LEMMA PtrReach ==
    ASSUME NEW p \in Int, NEW c \in Nat, c > 0
    PROVE  /\ p \in 1 - c..CellCount + c - 2 =>
                /\ p \in 1 - (c + 1)..CellCount + (c + 1) - 2
                /\ p + 1 \in 1 - (c + 1)..CellCount + (c + 1) - 2
                /\ p - 1 \in 1 - (c + 1)..CellCount + (c + 1) - 2
           /\ p \in 0..CellCount - 1 => p \in 1 - c..CellCount + c - 2
BY TapeAssumption

\* A jump whose target is found goes right behind it.
LEMMA JumpInRange ==
    ASSUME BfInv, OnTape, NEW m \in 0..Len(code), ContinuesBehind(m)
    PROVE  BfInv'
<1>1. CASE m = OffCode
  <2>1. fate' = "panic" /\ UNCHANGED <<code, cells, ptr, pc, input, wrote>>
    BY <1>1 DEF ContinuesBehind, BfPanics
  <2> QED BY <2>1 DEF BfInv, BfTypeOK
<1>2. CASE m # OffCode
  <2>1. pc' = m + 1 /\ UNCHANGED <<code, cells, ptr, input, wrote, fate>>
    BY <1>2 DEF ContinuesBehind
  <2>2. Len(code) \in Nat /\ m + 1 \in 1..Len(code) + 1
    BY DEF BfInv, BfTypeOK
  <2>3. ptr \in 1 - pc'..CellCount + pc' - 2
    <3>1. ptr \in 0..CellCount - 1 /\ ptr \in Int
      BY TapeAssumption DEF BfInv, BfTypeOK, OnTape
    <3>2. pc' \in Nat /\ pc' > 0
      BY <2>1, <2>2
    <3> QED BY <3>1, <3>2, PtrReach
  <2> QED BY <2>1, <2>2, <2>3 DEF BfInv, BfTypeOK
<1> QED BY <1>1, <1>2

LEMMA ByteInput ==
    ASSUME NEW s \in Seq({1}), ByteValues \in Nat, ByteValues > 1
    PROVE  s \in Seq(0..ByteValues - 1)
<1>1. {1} \subseteq 0..ByteValues - 1
  OBVIOUS
<1> QED BY <1>1

LEMMA BfInvStep == BfInv /\ [BfNext]_bfVars => BfInv'
<1> SUFFICES ASSUME BfInv, [BfNext]_bfVars PROVE BfInv'
  OBVIOUS
<1>0. /\ Len(code) \in Nat /\ pc \in 1..Len(code) + 1 /\ code \in Seq(Instructions)
      /\ \A i \in DOMAIN cells : cells[i] \in 0..ByteValues - 1
      /\ ByteValues \in Nat /\ ByteValues > 1
  BY TapeAssumption DEF BfInv, BfTypeOK
<1>a. pc' = pc + 1 =>
        \A p \in {ptr, ptr + 1, ptr - 1} : p \in 1 - pc'..CellCount + pc' - 2
  <2>1. ptr \in Int /\ pc \in Nat /\ pc > 0 /\ ptr \in 1 - pc..CellCount + pc - 2
    BY TapeAssumption DEF BfInv, BfTypeOK
  <2> QED BY <2>1, PtrReach
<1>1. ASSUME BfPanics PROVE BfInv'
  BY <1>1 DEF BfPanics, BfInv, BfTypeOK
<1>2. ASSUME NEW c, Executes(c) PROVE pc \in 1..Len(code) /\ pc + 1 \in 1..Len(code) + 1 /\ code[pc] = c
  BY <1>0, <1>2 DEF Executes
<1>3. ASSUME NEW e \in 0..ByteValues - 1, pc' = pc + 1, pc + 1 \in 1..Len(code) + 1,
             UNCHANGED <<code, ptr, wrote, fate>>, cells' = [cells EXCEPT ![ptr] = e],
             input' \in Seq({1})
      PROVE  BfInv'
  <2>1. \A i \in DOMAIN cells' : cells'[i] \in 0..ByteValues - 1
    BY <1>0, <1>3
  <2>2. ptr' \in 1 - pc'..CellCount + pc' - 2
    BY <1>a, <1>3
  <2>3. DOMAIN cells' = DOMAIN cells
    BY <1>3
  <2>4. input' \in Seq(0..ByteValues - 1)
    BY <1>0, <1>3, ByteInput
  <2> QED BY <1>3, <2>1, <2>2, <2>3, <2>4 DEF BfInv, BfTypeOK
<1>4. CASE Change
  <2>1. PICK by \in {1, ByteValues - 1} :
          /\ Executes(IF by = 1 THEN "+" ELSE "-")
          /\ IF ~OnTape THEN BfPanics
             ELSE /\ cells' = [cells EXCEPT ![ptr] = (@ + by) % ByteValues] /\ pc' = pc + 1
                  /\ UNCHANGED <<code, ptr, input, wrote, fate>>
    BY <1>4 DEF Change
  <2>2. CASE OnTape
    <3> DEFINE e == (cells[ptr] + by) % ByteValues
    <3>1. cells[ptr] \in 0..ByteValues - 1
      BY <1>0, <2>2 DEF OnTape
    <3> DEFINE a == cells[ptr] + by
    <3>2. a \in Nat
      BY <1>0, <3>1
    <3> HIDE DEF a
    <3>3. a % ByteValues \in 0..ByteValues - 1
      BY <1>0, <3>2
    <3>4. e \in 0..ByteValues - 1 /\ cells' = [cells EXCEPT ![ptr] = e]
      BY <2>1, <2>2, <3>3 DEF a
    <3> HIDE DEF e
    <3> QED BY <1>2, <1>3, <2>1, <2>2, <3>4 DEF BfInv
  <2> QED BY <1>1, <2>1, <2>2
<1>5. CASE Move
  <2>1. PICK right \in BOOLEAN : Executes(IF right THEN ">" ELSE "<")
    BY <1>5 DEF Move
  <2>2. pc' = pc + 1 /\ UNCHANGED <<code, cells, input, wrote, fate>>
    BY <1>5 DEF Move
  <2>3. ptr' \in {ptr + 1, ptr - 1}
    BY <1>5 DEF Move
  <2>4. ptr' \in 1 - pc'..CellCount + pc' - 2
    BY <1>a, <2>2, <2>3
  <2>5. pc' \in 1..Len(code) + 1
    BY <1>2, <2>1, <2>2
  <2> QED BY <2>2, <2>4, <2>5 DEF BfInv, BfTypeOK
<1>6. CASE Open
  <2>1. pc \in 1..Len(code) /\ code[pc] = "["
    BY <1>2, <1>6 DEF Open
  <2>2. MatchBracketForward(pc) \in 0..Len(code) /\ pc \in 0..Len(code)
    BY <1>0, <2>1, ForwardFinds
  <2> DEFINE m == IF cells[ptr] = 0 THEN MatchBracketForward(pc) ELSE pc
  <2>3. m \in 0..Len(code) /\ (BfPanics \/ (OnTape /\ ContinuesBehind(m)))
    BY <1>6, <2>2 DEF Open
  <2> HIDE DEF m
  <2> QED BY <1>1, <2>3, JumpInRange
<1>7. CASE Close
  <2>1. pc \in 1..Len(code) /\ code[pc] = "]"
    BY <1>2, <1>7 DEF Close
  <2>2. MatchBracketBackward(pc) \in 0..Len(code) /\ pc \in 0..Len(code)
    BY <1>0, <2>1, BackwardFinds
  <2> DEFINE m == IF cells[ptr] # 0 THEN MatchBracketBackward(pc) ELSE pc
  <2>3. m \in 0..Len(code) /\ (BfPanics \/ (OnTape /\ ContinuesBehind(m)))
    BY <1>7, <2>2 DEF Close
  <2> HIDE DEF m
  <2> QED BY <1>1, <2>3, JumpInRange
<1>8. CASE Write
  <2>1. Executes(".")
    BY <1>8 DEF Write
  <2>2. \/ BfPanics
        \/ /\ pc' = pc + 1 /\ wrote < MaxOutput /\ wrote' = wrote + 1
           /\ UNCHANGED <<code, cells, ptr, input, fate>>
    BY <1>8 DEF Write
  <2>3. CASE pc' = pc + 1 /\ wrote < MaxOutput /\ wrote' = wrote + 1
             /\ UNCHANGED <<code, cells, ptr, input, fate>>
    <3>1. wrote' \in 0..MaxOutput
      BY <2>3, TapeAssumption DEF BfInv, BfTypeOK
    <3>2. ptr' \in 1 - pc'..CellCount + pc' - 2
      BY <1>a, <2>3
    <3>3. pc' \in 1..Len(code) + 1
      BY <1>2, <2>1, <2>3
    <3> QED BY <2>3, <3>1, <3>2, <3>3 DEF BfInv, BfTypeOK
  <2> QED BY <1>1, <2>2, <2>3
<1>9. CASE ReadByte
  <2>1. Executes(",")
    BY <1>9 DEF ReadByte
  <2> DEFINE e == IF input = <<>> THEN 0 ELSE Head(input)
             rest == IF input = <<>> THEN <<>> ELSE Tail(input)
  <2>2. e \in {0, 1} /\ rest \in Seq({1})
    BY DEF BfInv
  <2>3. \/ BfPanics
        \/ /\ cells' = [cells EXCEPT ![ptr] = e] /\ input' = rest
           /\ pc' = pc + 1 /\ UNCHANGED <<code, ptr, wrote, fate>>
    BY <1>9 DEF ReadByte
  <2> HIDE DEF e, rest
  <2>4. e \in 0..ByteValues - 1
    BY <1>0, <2>2
  <2> QED BY <1>1, <1>2, <1>3, <2>1, <2>2, <2>3, <2>4
<1>10. CASE Finish
  BY <1>10 DEF Finish, BfInv, BfTypeOK
<1>11. CASE UNCHANGED bfVars
  BY <1>11 DEF bfVars, BfInv, BfTypeOK
<1> QED BY <1>4, <1>5, <1>6, <1>7, <1>8, <1>9, <1>10, <1>11 DEF BfNext

LEMMA BfInvInit == BfInit => BfInv
<1> SUFFICES ASSUME BfInit PROVE BfInv
  OBVIOUS
<1>1. code \in Seq(Instructions)
  <2>1. PICK m \in 0..MaxCode : code \in [1..m -> Instructions]
    BY DEF BfInit, BoundedSeq, SeqOf
  <2>2. m \in Nat
    BY TapeAssumption
  <2> QED BY <2>1, <2>2
<1>2. 1 \in 1..Len(code) + 1
  BY <1>1
<1>3. \A i \in DOMAIN cells : cells[i] \in 0..ByteValues - 1
  BY TapeAssumption DEF BfInit
<1>4. input \in Seq({1})
  <2>1. <<>> \in Seq({1}) /\ <<1>> \in Seq({1})
    OBVIOUS
  <2> QED BY <2>1 DEF BfInit
<1>5. input \in Seq(0..ByteValues - 1)
  BY <1>4, TapeAssumption, ByteInput
<1>6. /\ DOMAIN cells = 0..CellCount - 1 /\ wrote \in 0..MaxOutput
      /\ ptr \in 1 - pc..CellCount + pc - 2
  BY TapeAssumption DEF BfInit
<1> QED BY <1>1, <1>2, <1>3, <1>4, <1>5, <1>6 DEF BfInit, BfInv, BfTypeOK

\* The interpreter never runs off its code without a panic, its tape holds bytes, and its
\* pointer is off the tape by fewer cells than instructions lie before the program counter:
\* for any program and tape (crack-bf, run_async).
THEOREM BfTyped == BfSpec => []BfTypeOK
<1>1. BfInv => BfTypeOK
  BY DEF BfInv
<1> QED BY <1>1, BfInvInit, BfInvStep, PTL DEF BfSpec

\* At a bracket nothing but its instruction can be executed.
LEMMA OneInstruction ==
    ASSUME BfInv, BfNext, pc \in 1..Len(code)
    PROVE  (code[pc] = "[" => Open) /\ (code[pc] = "]" => Close)
<1>1. \A c : Executes(c) => code[pc] = c
  BY DEF Executes
<1>2. Change => code[pc] \in {"+", "-"}
  BY <1>1 DEF Change
<1>3. Move => code[pc] \in {">", "<"}
  BY <1>1 DEF Move
<1>4. /\ Open => code[pc] = "["
      /\ Close => code[pc] = "]"
      /\ Write => code[pc] = "."
      /\ ReadByte => code[pc] = ","
  BY <1>1 DEF Open, Close, Write, ReadByte
<1>5. ~Finish
  <2>1. ~(pc > Len(code))
    BY DEF BfInv, BfTypeOK
  <2> QED BY <2>1 DEF Finish
<1> QED BY <1>2, <1>3, <1>4, <1>5 DEF BfNext

\* Jumps end at the partner of their bracket, and panic only without one, for every
\* program, however long and however its loops are nested.
THEOREM JumpsFindPartners == BfSpec => JumpsMatch
<1> DEFINE bracket == code[pc]
           jumps == (cells[ptr] = 0) = (bracket = "[")
           Jump == (fate = "running" /\ pc <= Len(code) /\ OnTape /\ bracket \in {"[", "]"})
                     => IF ~jumps THEN pc' = pc + 1
                        ELSE IF fate' = "panic"
                        THEN \A q \in 1..Len(code) : ~Partners(pc, q) /\ ~Partners(q, pc)
                        ELSE Partners(pc, pc' - 1) \/ Partners(pc' - 1, pc)
<1>1. BfInv /\ BfNext => Jump
  <2> SUFFICES ASSUME BfInv, BfNext, fate = "running", pc <= Len(code), OnTape,
                      bracket \in {"[", "]"}
               PROVE  IF ~jumps THEN pc' = pc + 1
                      ELSE IF fate' = "panic"
                      THEN \A q \in 1..Len(code) : ~Partners(pc, q) /\ ~Partners(q, pc)
                      ELSE Partners(pc, pc' - 1) \/ Partners(pc' - 1, pc)
    OBVIOUS
  <2>1. /\ code \in Seq(Instructions) /\ pc \in 1..Len(code) /\ pc # OffCode
    BY DEF BfInv, BfTypeOK, OffCode
  <2>2. CASE bracket = "["
    <3> DEFINE m == MatchBracketForward(pc)
    <3>1. ContinuesBehind(IF cells[ptr] = 0 THEN m ELSE pc)
      <4>1. Open
        BY <2>1, <2>2, OneInstruction
      <4> QED BY <4>1 DEF Open
    <3>2. /\ m \in 0..Len(code) /\ (m # OffCode => Partners(pc, m))
          /\ m = OffCode => \A q \in 1..Len(code) : ~Partners(pc, q)
      BY <2>1, <2>2, ForwardFinds
    <3>3. \A q \in 1..Len(code) : ~Partners(q, pc)
      BY <2>2 DEF Partners
    <3> HIDE DEF m
    <3>4. CASE cells[ptr] # 0
      BY <2>1, <2>2, <3>1, <3>4 DEF ContinuesBehind
    <3>5. CASE cells[ptr] = 0 /\ m = OffCode
      <4>1. fate' = "panic"
        BY <3>1, <3>5 DEF ContinuesBehind, BfPanics
      <4> QED BY <2>2, <3>2, <3>3, <3>5, <4>1
    <3>6. CASE cells[ptr] = 0 /\ m # OffCode
      <4>1. fate' = "running" /\ pc' = m + 1
        BY <3>1, <3>6 DEF ContinuesBehind
      <4>2. pc' - 1 = m
        BY <3>2, <4>1
      <4> QED BY <2>2, <3>2, <3>6, <4>1, <4>2
    <3> QED BY <3>4, <3>5, <3>6
  <2>3. CASE bracket = "]"
    <3> DEFINE m == MatchBracketBackward(pc)
    <3>1. ContinuesBehind(IF cells[ptr] # 0 THEN m ELSE pc)
      <4>1. Close
        BY <2>1, <2>3, OneInstruction
      <4> QED BY <4>1 DEF Close
    <3>2. /\ m \in 0..Len(code) /\ (m # OffCode => Partners(m, pc))
          /\ m = OffCode => \A q \in 1..Len(code) : ~Partners(q, pc)
      BY <2>1, <2>3, BackwardFinds
    <3>3. \A q \in 1..Len(code) : ~Partners(pc, q)
      BY <2>3 DEF Partners
    <3> HIDE DEF m
    <3>4. CASE cells[ptr] = 0
      BY <2>1, <2>3, <3>1, <3>4 DEF ContinuesBehind
    <3>5. CASE cells[ptr] # 0 /\ m = OffCode
      <4>1. fate' = "panic"
        BY <3>1, <3>5 DEF ContinuesBehind, BfPanics
      <4> QED BY <2>3, <3>2, <3>3, <3>5, <4>1
    <3>6. CASE cells[ptr] # 0 /\ m # OffCode
      <4>1. fate' = "running" /\ pc' = m + 1
        BY <3>1, <3>6 DEF ContinuesBehind
      <4>2. pc' - 1 = m
        BY <3>2, <4>1
      <4> QED BY <2>3, <3>2, <3>6, <4>1, <4>2
    <3> QED BY <3>4, <3>5, <3>6
  <2> QED BY <2>2, <2>3
<1>2. BfInv /\ [BfNext]_bfVars => [Jump]_bfVars
  BY <1>1
<1>3. []BfInv /\ [][BfNext]_bfVars => [][Jump]_bfVars
  BY <1>2, PTL
<1>4. BfSpec => [][Jump]_bfVars
  BY <1>3, BfInvInit, BfInvStep, PTL DEF BfSpec
<1> QED BY <1>4 DEF JumpsMatch
-----------------------------------------------------------------------------
(* All services *)

\* A step of one service is a step of it, and leaves the others alone.
LEMMA PartsStep ==
    [Next]_vars =>
      /\ [EventNext]_eventVars
      /\ [AccessNext]_accessVars
      /\ [VoteNext]_voteVars
      /\ [TrackNext]_trackVars
      /\ [ProfileNext]_profileVars
      /\ [PlayNext]_playVars
      /\ [MessageNext]_messageVars
      /\ [BfNext]_bfVars
      /\ [PlaylistNext]_playlistVars
<1> SUFFICES ASSUME [Next]_vars
             PROVE  /\ [EventNext]_eventVars
                    /\ [AccessNext]_accessVars
                    /\ [VoteNext]_voteVars
                    /\ [TrackNext]_trackVars
                    /\ [ProfileNext]_profileVars
                    /\ [PlayNext]_playVars
                    /\ [MessageNext]_messageVars
                    /\ [BfNext]_bfVars
                    /\ [PlaylistNext]_playlistVars
  OBVIOUS
<1>1. CASE EventStep
  BY <1>1 DEF EventStep
<1>2. CASE AccessStep
  BY <1>2 DEF AccessStep
<1>3. CASE VoteStep
  BY <1>3 DEF VoteStep
<1>4. CASE TrackStep
  BY <1>4 DEF TrackStep
<1>5. CASE ProfileStep
  BY <1>5 DEF ProfileStep
<1>6. CASE PlayStep
  BY <1>6 DEF PlayStep
<1>7. CASE MessageStep
  BY <1>7 DEF MessageStep
<1>8. CASE BfStep
  BY <1>8 DEF BfStep
<1>9. CASE PlaylistStep
  BY <1>9 DEF PlaylistStep
<1>10. CASE UNCHANGED vars
  BY <1>10 DEF vars
<1> QED BY <1>1, <1>2, <1>3, <1>4, <1>5, <1>6, <1>7, <1>8, <1>9, <1>10 DEF Next

\* All services together keep their variables well formed, whichever of them a behaviour runs.
THEOREM ServicesTyped == Spec => []ServicesTypeOK
<1>1. Init => /\ EventInit
              /\ AccessInit
              /\ VoteInit
              /\ TrackInit
              /\ ProfileInit
              /\ PlayInit
              /\ MessageInit
              /\ BfInit
              /\ PlaylistInit
  BY DEF Init
<1>2. Spec => []EventTypeOK
  BY <1>1, PartsStep, QuietInvInit, QuietInvNext, EventShapeInit, EventShapeNext, EventShapeTypes,
     PTL DEF Spec
<1>3. Spec => []AccessTypeOK
  BY <1>1, PartsStep, AccessTyped, PTL DEF Spec, AccessSpec
<1>4. Spec => []VoteTypeOK
  BY <1>1, PartsStep, VotesTyped, PTL DEF Spec, VoteSpec
<1>5. Spec => []TrackTypeOK
  BY <1>1, PartsStep, TracksTyped, PTL DEF Spec, TrackSpec
<1>6. Spec => []ProfileTypeOK
  BY <1>1, PartsStep, ProfileTyped, PTL DEF Spec, ProfileSpec
<1>7. Spec => []PlayTypeOK
  BY <1>1, PartsStep, PlaysTyped, PTL DEF Spec, PlaySpec
<1>8. Spec => []MessageTypeOK
  BY <1>1, PartsStep, MessagesTyped, PTL DEF Spec, MessageSpec
<1>9. Spec => []BfTypeOK
  BY <1>1, PartsStep, BfTyped, PTL DEF Spec, BfSpec
<1>10. Spec => []PlaylistTypeOK
  BY <1>1, PartsStep, PlaylistsTyped, PTL DEF Spec, PlaylistSpec
<1>11. EventTypeOK /\ AccessTypeOK /\ VoteTypeOK /\ TrackTypeOK /\ ProfileTypeOK
        /\ PlayTypeOK /\ MessageTypeOK /\ BfTypeOK /\ PlaylistTypeOK => ServicesTypeOK
  BY DEF ServicesTypeOK
<1> QED BY <1>2, <1>3, <1>4, <1>5, <1>6, <1>7, <1>8, <1>9, <1>10, <1>11, PTL
=============================================================================
