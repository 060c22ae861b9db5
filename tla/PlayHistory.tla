---------------------------- MODULE PlayHistory ----------------------------
(***************************************************************************)
(* The log of what was played: the bounded channel of messages, the worker *)
(* that writes each message to the database in four statements, and the    *)
(* downvote command, which counts dislikes of a play that is in the log.   *)
(* Every statement may fail by itself; the process may restart.            *)
(*                                                                         *)
(* The tables are kept as far as they refer to each other: the rows of     *)
(* metadata and of play_log are numbered in the order of their creation    *)
(* (gaps that failed statements leave in a SERIAL are left out).           *)
(***************************************************************************)
EXTENDS Naturals, Sequences, FiniteSets, Functions

CONSTANTS
    Guilds,     \* guild ids
    Urls,       \* source urls of tracks
    NoUrl,      \* a track without a source url: NULL
    Users,      \* users who ask for tracks
    Capacity,   \* CHANNEL_BUF_SIZE
    Tolerated,  \* max_dislikes of get_last_played, 1
    MaxSent,    \* bound: messages
    MaxVotes    \* bound: downvote commands

ASSUME HistoryAssumption ==
    /\ NoUrl \notin Urls
    /\ Capacity \in Nat \ {0}
    /\ IsFiniteSet(Guilds)

VARIABLES
    sent,       \* the messages of all commands, in order; the model's memory
    channel,    \* the mpsc channel: positions in sent
    worker,     \* run_db_worker: its place in write_metadata_pg, message and metadata id
    metadata,   \* the table metadata: source urls
    users,      \* the table user: ids
    known,      \* the table guild_settings: ids
    playLog,    \* the table play_log, with the position of the message for the model
    reaction,   \* the table track_reaction: play_log ids with a row, and its dislikes
    vote,       \* per guild, the downvote command that holds the call
    votes       \* downvotes so far: begun, and those of each guild that succeeded

vars == <<sent, channel, worker, metadata, users, known, playLog, reaction, vote, votes>>

Tracks == Urls \union {NoUrl}
Message == [guild : Guilds, url : Tracks, user : Users]
NoMetadata == 0
Waiting == [at |-> "idle", msg |-> 0, meta |-> NoMetadata]
NoVote == [at |-> "idle", id |-> 0]

Init ==
    /\ sent = <<>> /\ channel = <<>> /\ worker = Waiting
    /\ metadata = <<>> /\ users = {} /\ playLog = <<>>
    /\ known \in SUBSET Guilds
    /\ reaction = [id \in {} |-> 0]
    /\ vote = [g \in Guilds |-> NoVote]
    /\ votes = [begun |-> 0, counted |-> [g \in Guilds |-> 0]]

-----------------------------------------------------------------------------
(* send_track_metadata_write_msg *)

\* Mutant: the channel is unbounded.
SendUnbounded(m) ==
    /\ Len(sent) < MaxSent
    /\ sent' = Append(sent, m)
    /\ channel' = Append(channel, Len(sent'))
    /\ UNCHANGED <<worker, metadata, users, known, playLog, reaction, vote, votes>>

\* try_send: no command waits for the worker, a full channel loses the message.
Send(m) ==
    /\ Len(sent) < MaxSent
    /\ sent' = Append(sent, m)
    /\ channel' = IF Len(channel) < Capacity THEN Append(channel, Len(sent')) ELSE channel
    /\ UNCHANGED <<worker, metadata, users, known, playLog, reaction, vote, votes>>

-----------------------------------------------------------------------------
(* The worker *)

Current == sent[worker.msg]

Receive ==
    /\ worker = Waiting /\ channel # <<>>
    /\ worker' = [at |-> "select", msg |-> Head(channel), meta |-> NoMetadata]
    /\ channel' = Tail(channel)
    /\ UNCHANGED <<sent, metadata, users, known, playLog, reaction, vote, votes>>

\* Mutant: NULL equals NULL.
RowsOfAny(url) == {id \in DOMAIN metadata : metadata[id] \in {url, NoUrl}}

\* The rows that SELECT ... WHERE source_url = $1 finds; NULL equals nothing.
RowsOf(url) == {id \in DOMAIN metadata : metadata[id] = url /\ url # NoUrl}

\* Metadata::get_or_create, first statement.  An error is taken for an absent row.
Select ==
    /\ worker.at = "select"
    /\ \/ \E id \in RowsOf(Current.url) : worker' = [worker EXCEPT !.at = "user", !.meta = id]
       \/ worker' = [worker EXCEPT !.at = "insert"]
    /\ UNCHANGED <<sent, channel, metadata, users, known, playLog, reaction, vote, votes>>

\* Second statement.
Insert ==
    /\ worker.at = "insert"
    /\ metadata' = Append(metadata, Current.url)
    /\ worker' = [worker EXCEPT !.at = "user", !.meta = Len(metadata')]
    /\ UNCHANGED <<sent, channel, users, known, playLog, reaction, vote, votes>>

\* The message's own metadata is used, which has the id 0.
InsertFails ==
    /\ worker.at = "insert"
    /\ worker' = [worker EXCEPT !.at = "user", !.meta = NoMetadata]
    /\ UNCHANGED <<sent, channel, metadata, users, known, playLog, reaction, vote, votes>>

\* insert_or_update_user; a failure is logged, and the worker goes on.
UpsertUser ==
    /\ worker.at = "user"
    /\ users' \in {users, users \union {Current.user}}
    /\ worker' = [worker EXCEPT !.at = "log"]
    /\ UNCHANGED <<sent, channel, metadata, known, playLog, reaction, vote, votes>>

\* Mutant: the message goes back to the channel when it cannot be logged.
LogFailsRequeues ==
    /\ worker.at = "log"
    /\ worker' = Waiting
    /\ channel' = Append(channel, worker.msg)
    /\ UNCHANGED <<sent, metadata, users, known, playLog, reaction, vote, votes>>

\* PlayLog::create.  The foreign keys of the row must exist.
Log ==
    /\ worker.at = "log"
    /\ worker.meta \in DOMAIN metadata /\ Current.user \in users /\ Current.guild \in known
    /\ playLog' = Append(playLog, [guild |-> Current.guild, user |-> Current.user,
                                   meta |-> worker.meta, msg |-> worker.msg])
    /\ worker' = Waiting
    /\ UNCHANGED <<sent, channel, metadata, users, known, reaction, vote, votes>>

\* A key does not exist, or the database answers with an error: it is logged only.
LogFails ==
    /\ worker.at = "log"
    /\ worker' = Waiting
    /\ UNCHANGED <<sent, channel, metadata, users, known, playLog, reaction, vote, votes>>

-----------------------------------------------------------------------------
(* downvote: the command holds the call of its guild until it ends *)

PlaysOf(g) == {i \in DOMAIN playLog : playLog[i].guild = g}

\* get_last_played_by_guild_metadata with limit 1: the metadata id of the last row of
\* the guild.  Without one, unwrap panics.
ReadLast(g) ==
    /\ vote[g] = NoVote /\ votes.begun < MaxVotes
    /\ votes' = [votes EXCEPT !.begun = @ + 1]
    /\ \E i \in PlaysOf(g) :
         /\ \A j \in PlaysOf(g) : j <= i
         /\ vote' = [vote EXCEPT ![g] = [at |-> "insert", id |-> playLog[i].meta]]
    /\ UNCHANGED <<sent, channel, worker, metadata, users, known, playLog, reaction>>

\* Mutant: ON CONFLICT DO UPDATE, with the defaults.
ReactResets(g) ==
    /\ vote[g].at = "insert" /\ vote[g].id \in DOMAIN playLog
    /\ reaction' = [id \in DOMAIN reaction \union {vote[g].id} |->
                      IF id = vote[g].id THEN 0 ELSE reaction[id]]
    /\ vote' = [vote EXCEPT ![g].at = "add"]
    /\ UNCHANGED <<sent, channel, worker, metadata, users, known, playLog, votes>>

\* TrackReaction::insert takes that id for one of play_log.  ON CONFLICT DO NOTHING
\* returns no row, which fetch_one reports as an error.
React(g) ==
    /\ vote[g].at = "insert" /\ vote[g].id \in DOMAIN playLog \ DOMAIN reaction
    /\ reaction' = [id \in DOMAIN reaction \union {vote[g].id} |->
                      IF id = vote[g].id THEN 0 ELSE reaction[id]]
    /\ vote' = [vote EXCEPT ![g].at = "add"]
    /\ UNCHANGED <<sent, channel, worker, metadata, users, known, playLog, votes>>

\* TrackReaction::add_dislike.
Dislike(g) ==
    /\ vote[g].at = "add"
    /\ reaction' = [reaction EXCEPT ![vote[g].id] = @ + 1]
    /\ votes' = [votes EXCEPT !.counted[g] = @ + 1]
    /\ vote' = [vote EXCEPT ![g] = NoVote]
    /\ UNCHANGED <<sent, channel, worker, metadata, users, known, playLog>>

\* The error of any of the statements ends the command.
VoteFails(g) ==
    /\ vote[g] # NoVote
    /\ vote' = [vote EXCEPT ![g] = NoVote]
    /\ UNCHANGED <<sent, channel, worker, metadata, users, known, playLog, reaction, votes>>

-----------------------------------------------------------------------------
\* cache_ready creates the settings of a guild (see GuildSettings).
GuildIsKnown(g) ==
    /\ known' = known \union {g}
    /\ UNCHANGED <<sent, channel, worker, metadata, users, playLog, reaction, vote, votes>>

\* The process ends and starts again: the channel and what was under way are lost.
Restart ==
    /\ channel' = <<>> /\ worker' = Waiting
    /\ vote' = [g \in Guilds |-> NoVote]
    /\ UNCHANGED <<sent, metadata, users, known, playLog, reaction, votes>>

WorkerStep ==
    Receive \/ Select \/ Insert \/ InsertFails \/ UpsertUser \/ Log \/ LogFails

VoteStep(g) == React(g) \/ Dislike(g) \/ VoteFails(g)

Next ==
    \/ \E m \in Message : Send(m)
    \/ WorkerStep
    \/ \E g \in Guilds : ReadLast(g) \/ VoteStep(g) \/ GuildIsKnown(g)
    \/ Restart

Spec == Init /\ [][Next]_vars

\* The worker and a command are tasks that go on when they can: every statement is
\* answered, by a result or an error.
Fairness == WF_vars(WorkerStep) /\ \A g \in Guilds : WF_vars(VoteStep(g))

FairSpec == Spec /\ Fairness

-----------------------------------------------------------------------------
\* The state is well formed; in particular all foreign keys exist.
TypeOK ==
    /\ sent \in Seq(Message)
    /\ channel \in Seq(DOMAIN sent) /\ Len(channel) <= Capacity
    /\ worker.at \in {"idle", "select", "insert", "user", "log"}
    /\ worker # Waiting => worker.msg \in DOMAIN sent
    /\ worker.meta \in DOMAIN metadata \union {NoMetadata}
    /\ metadata \in Seq(Tracks)
    /\ users \subseteq Users /\ known \subseteq Guilds
    /\ playLog \in Seq([guild : known, user : users, meta : DOMAIN metadata, msg : DOMAIN sent])
    /\ DOMAIN reaction \subseteq DOMAIN playLog
    /\ \A id \in DOMAIN reaction : reaction[id] \in Nat
    /\ vote \in [Guilds -> [at : {"idle", "insert", "add"}, id : Nat]]

\* What the rows of the log say: the entry, by way of its metadata row.
Written(i) == [guild |-> playLog[i].guild, url |-> metadata[playLog[i].meta],
               user |-> playLog[i].user]

Journal == INSTANCE PlayJournal WITH
    Entries <- Message,
    MaxOffered <- MaxSent,
    offered <- sent,
    written <- [i \in DOMAIN playLog |-> Written(i)],
    upTo <- IF playLog = <<>> THEN 0 ELSE playLog[Len(playLog)].msg

\* Although each message takes four statements that fail one by one, two of them on the
\* way to the row that the log refers to, the log is a journal of the messages: every
\* row says which track a message named, for whom and where, in the order of sending.
LogIsJournal == Journal!JSpec

Total(f) == FoldFunction(LAMBDA a, b : a + b, 0, f)

\* Every dislike that a command has reported is in the table, and no other.
DislikesAreVotes ==
    Total(reaction) = Total(votes.counted)

\* The worker gets through its messages, whatever fails on the way.
WorkerDrains == worker # Waiting \/ channel # <<>> ~> worker = Waiting /\ channel = <<>>

\* What get_recommended_track_query reads for autoplay.
Recommended(g) ==
    {metadata[playLog[i].meta] : i \in
       {j \in PlaysOf(g) : j \in DOMAIN reaction => reaction[j] <= Tolerated}}

\* Where a guild's only play was downvoted, autoplay has nothing to go by: a downvoted
\* track is not used in recommendations.
DownvotedIsAvoided ==
    \A g \in Guilds :
      votes.counted[g] > 0 /\ Cardinality(PlaysOf(g)) = 1 => Recommended(g) = {}
=============================================================================
