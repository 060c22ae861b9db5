------------------------------ MODULE Playback ------------------------------
(***************************************************************************)
(* The music player of one guild: the songbird TrackQueue of its Call, the *)
(* commands that change the queue, the skip votes, and the event task that *)
(* advances the queue and then runs TrackEndHandler when tracks end.       *)
(*                                                                         *)
(* Three actors interleave.  A user's command runs in a tokio task of its  *)
(* own and may hold the Call's mutex (lock) across several steps.  The     *)
(* mixer ends tracks whenever it likes.  The event task delivers the End   *)
(* events later: songbird's QueueHandler, which does not take the Call's   *)
(* mutex, pops a finished head and plays the next track, and then          *)
(* TrackEndHandler::act and ModifyQueueHandler::act run, one await at a    *)
(* time.  A panic in a handler ends the event task.                        *)
(*                                                                         *)
(* A command that looks at the queue and then changes it takes the queue's *)
(* own lock twice, and a pop may come in between.  These commands are two  *)
(* steps here, except where the stale look cannot be told from no command  *)
(* (skip, clear, stop: drain panics and changes nothing, or has nothing to *)
(* do).  A panic gives the command's mutexes back.                         *)
(***************************************************************************)
EXTENDS Integers, Sequences, SequencesExt, FiniteSets

CONSTANTS
  Track,     \* the tracks that may ever be enqueued, each at most once
  User,      \* command slots: a user runs one command at a time
  NoUser,    \* what a free mutex is held by
  Commands,  \* names of what the users may do
  ListLen,   \* bound: length of a playlist or keyword list
  HasPool    \* whether the bot runs with a database

ASSUME ConstantsAssumption ==
  /\ NoUser \notin User
  /\ ListLen \in Nat \ {0}
  /\ HasPool \in BOOLEAN

VARIABLES
  queue,     \* TrackQueue: Head(queue) is current()
  mode,      \* songbird PlayMode of every track, "new" before its enqueue
  started,   \* history: the tracks that have been told to play
  ended,     \* finished tracks whose End event was not delivered yet
  lock,      \* holder of the Call's tokio mutex
  cacheLock, \* holder of guild_cache_map across an await
  task,      \* what the command of each user does next
  endh,      \* TrackEndHandler::act in the event task
  votes,     \* GuildCache::current_skip_votes
  votedOn,   \* history: the song a user's last vote was cast on, if any
  present,   \* users in the bot's voice channel
  autoplay,  \* GuildCache::autoplay, "unset" while the guild has no entry
  autopause, \* GuildSettings::autopause
  watched    \* whether a queue command has added a ModifyQueueHandler

queueVars == <<queue, mode, started, ended>>
cmdVars   == <<lock, cacheLock, task>>
voteVars  == <<votes, votedOn, present>>
vars == <<queueVars, cmdVars, endh, voteVars, autoplay, autopause, watched>>

Finished == {"stop", "end", "error"}
Mode == {"new", "pause", "play"} \cup Finished
CmdPc == {"idle", "back", "front", "frontLook", "frontMove", "size", "bulk", "list",
          "listMove", "move", "remove", "stop", "vote", "skipStop", "skipDequeue",
          "skipResume"}
EndPc == {"idle", "autoplay", "settings", "pause", "votes", "decide", "disable",
          "current", "recommend", "resolve", "refresh", "volume", "dead"}
Idle == [pc |-> "idle", at |-> 0, to |-> 0]

Queued == {queue[i] : i \in 1..Len(queue)}
Live(t) == mode[t] \in {"pause", "play"}
Fresh == {t \in Track : mode[t] = "new"}

-----------------------------------------------------------------------------
(* songbird: what its TrackQueue does to the state when the code calls it. *)

\* TrackHandle::stop on every track of S.
StopTracks(S) ==
  LET live == {t \in S : Live(t)}
  IN /\ mode' = [t \in Track |-> IF t \in live THEN "stop" ELSE mode[t]]
     /\ ended' = ended \cup live

\* TrackQueue::resume and the play() of QueueHandler: plays the head of q.
PlayHead(q) ==
  IF q # <<>> /\ Live(q[1])
  THEN /\ mode' = [mode EXCEPT ![q[1]] = "play"]
       /\ started' = started \cup {q[1]}
  ELSE UNCHANGED <<mode, started>>

\* TrackQueue::pause: pauses the head.
PauseTop ==
  mode' = IF queue # <<>> /\ Live(queue[1])
          THEN [mode EXCEPT ![queue[1]] = "pause"] ELSE mode

\* Call::enqueue: a track enters the mixer; it plays if nothing is queued.
EnterMixer(t) ==
  /\ mode' = [mode EXCEPT ![t] = IF queue = <<>> THEN "play" ELSE "pause"]
  /\ started' = IF queue = <<>> THEN started \cup {t} ELSE started

Enqueue(t) ==
  /\ EnterMixer(t)
  /\ queue' = Append(queue, t)
  /\ UNCHANGED ended

\* VecDeque::remove(i), then insert(j): an index i outside the queue panics
\* before anything changes, an index j that has become too large after.
Reinsert(q, i, j) ==
  IF i >= Len(q) THEN q
  ELSE LET rest == RemoveAt(q, i + 1)
       IN IF j > Len(rest) THEN rest ELSE InsertAt(rest, j + 1, q[i + 1])

\* VecDeque::pop_back, then insert(j).
MoveBack(q, j) == IF q = <<>> THEN q ELSE Reinsert(q, Len(q) - 1, j)

\* The mixer reaches the end of a playing track, or fails to decode it.
TrackEnds(t) ==
  /\ mode[t] = "play"
  /\ \E m \in {"end", "error"} : mode' = [mode EXCEPT ![t] = m]
  /\ ended' = ended \cup {t}
  /\ UNCHANGED <<queue, started, cmdVars, endh, voteVars, autoplay, autopause, watched>>

-----------------------------------------------------------------------------
(* Commands.                                                               *)

Unlocked == lock = NoUser
CacheUnlocked == cacheLock = NoUser
Issue(u, name) == task[u].pc = "idle" /\ name \in Commands
GotoRange(u, pc, at, to) == task' = [task EXCEPT ![u] = [pc |-> pc, at |-> at, to |-> to]]
Goto(u, pc, at) == GotoRange(u, pc, at, 0)
Return(u) == task' = [task EXCEPT ![u] = Idle]
Others == <<endh, voteVars, autoplay, autopause, watched>>

\* play in Mode::End: the n tracks are resolved and enqueued one by one.
Play(u, n) ==
  /\ Issue(u, "play")
  /\ Goto(u, "back", n)
  /\ UNCHANGED <<queueVars, lock, cacheLock, Others>>

\* queue_track_back, after the await on resolve_track.
QueueTrackBack(u) ==
  /\ task[u].pc = "back" /\ Unlocked
  /\ \E t \in Fresh : Enqueue(t)
  /\ IF task[u].at = 1 THEN Return(u) ELSE Goto(u, "back", task[u].at - 1)
  /\ UNCHANGED <<lock, cacheLock, Others>>

\* play in Mode::Next with a single track.
PlayNext(u) ==
  /\ Issue(u, "next")
  /\ Goto(u, "front", 0)
  /\ UNCHANGED <<queueVars, lock, cacheLock, Others>>

\* queue_track_ready_front enqueues at the back, looks at the queue, and
\* moves the back behind the head.
QueueTrackFront(u) ==
  /\ task[u].pc = "front" /\ Unlocked
  /\ \E t \in Fresh : Enqueue(t)
  /\ Goto(u, "frontLook", 0)
  /\ lock' = u
  /\ UNCHANGED <<cacheLock, Others>>

LookAtFront(u) ==
  /\ task[u].pc = "frontLook"
  /\ IF Len(queue) >= 3 THEN Goto(u, "frontMove", 0) /\ UNCHANGED lock
     ELSE Return(u) /\ lock' = NoUser
  /\ UNCHANGED <<queueVars, cacheLock, Others>>

\* Mutant: the back is moved to index 0.
MoveToFrontFirst(u) ==
  /\ task[u].pc = "frontMove"
  /\ queue' = MoveBack(queue, 0)
  /\ Return(u)
  /\ lock' = NoUser
  /\ UNCHANGED <<mode, started, ended, cacheLock, Others>>

MoveToFront(u) ==
  /\ task[u].pc = "frontMove"
  /\ queue' = MoveBack(queue, 1)
  /\ Return(u)
  /\ lock' = NoUser
  /\ UNCHANGED <<mode, started, ended, cacheLock, Others>>

\* play in Mode::Next with a list.
PlayNextList(u) ==
  /\ Issue(u, "list")
  /\ Goto(u, "size", 0)
  /\ UNCHANGED <<queueVars, lock, cacheLock, Others>>

\* play in Mode::End with a playlist: a chunk of queue_keyword_list_back.
PlayList(u) ==
  /\ Issue(u, "playlist")
  /\ Goto(u, "bulk", 0)
  /\ UNCHANGED <<queueVars, lock, cacheLock, Others>>

\* queue_query_list_offset reads the queue's size and unlocks.
ReadQueueSize(u) ==
  /\ task[u].pc = "size" /\ Unlocked
  /\ Goto(u, IF Len(queue) <= 1 THEN "bulk" ELSE "list", 0)
  /\ UNCHANGED <<queueVars, lock, cacheLock, Others>>

\* queue_ready_track_list: the whole list under one lock, at the back.
\* Bound: the model must have the ListLen tracks the command has resolved.
QueueReadyTrack(u) ==
  /\ task[u].pc = "bulk" /\ lock \in {NoUser, u}
  /\ lock = u \/ Cardinality(Fresh) >= ListLen
  /\ \E t \in Fresh : Enqueue(t)
  /\ IF task[u].at + 1 = ListLen
     THEN Return(u) /\ lock' = NoUser
     ELSE Goto(u, "bulk", task[u].at + 1) /\ lock' = u
  /\ UNCHANGED <<cacheLock, Others>>

\* queue_query_list_offset, offset 1: each track is enqueued, popped from
\* the back and inserted at its index.
EnqueueListed(u) ==
  /\ task[u].pc = "list" /\ Unlocked
  /\ \E t \in Fresh : Enqueue(t)
  /\ Goto(u, "listMove", task[u].at)
  /\ lock' = u
  /\ UNCHANGED <<cacheLock, Others>>

InsertPos(u) == task[u].at + 1
InsertQueued(u) ==
  /\ task[u].pc = "listMove"
  /\ InsertPos(u) < Len(queue)
  /\ queue' = MoveBack(queue, InsertPos(u))
  /\ IF task[u].at + 1 = ListLen THEN Return(u)
     ELSE Goto(u, "list", task[u].at + 1)
  /\ lock' = NoUser
  /\ UNCHANGED <<mode, started, ended, cacheLock, Others>>

\* The same step when the queue has shrunk: VecDeque::insert panics after
\* the pop, so the track is in the mixer and no longer in the queue.
InsertPanics(u) ==
  /\ task[u].pc = "listMove"
  /\ InsertPos(u) >= Len(queue)
  /\ queue' = MoveBack(queue, InsertPos(u))
  /\ Return(u)
  /\ lock' = NoUser
  /\ UNCHANGED <<mode, started, ended, cacheLock, Others>>

\* resolve_track or ready_query fails: the command returns its error.
ResolveFails(u) ==
  /\ task[u].pc \in {"back", "front", "list", "bulk"} /\ lock # u
  /\ Return(u)
  /\ UNCHANGED <<queueVars, lock, cacheLock, Others>>

\* skip n: drains the n - 1 tracks behind the head without stopping them.
Skip(u, n) ==
  /\ Issue(u, "skip") /\ Unlocked
  /\ queue # <<>>
  /\ n \in 1..Len(queue)
  /\ queue' = <<queue[1]>> \o SubSeq(queue, n + 1, Len(queue))
  /\ Goto(u, "skipStop", 0)
  /\ lock' = u
  /\ UNCHANGED <<mode, started, ended, cacheLock, Others>>

\* force_skip_top_track: current().unwrap().stop(), dequeue(0), resume().
\* QueueHandler may run between any two of them.
SkipStop(u) ==
  /\ task[u].pc = "skipStop"
  /\ queue # <<>>
  /\ StopTracks({queue[1]})
  /\ Goto(u, "skipDequeue", 0)
  /\ UNCHANGED <<queue, started, lock, cacheLock, Others>>

\* Mutant: the mutex stays locked after the panic.
SkipPanicsLocked(u) ==
  /\ task[u].pc = "skipStop"
  /\ queue = <<>>
  /\ Return(u)
  /\ UNCHANGED <<queueVars, lock, cacheLock, Others>>

\* current() is None: unwrap panics and the guards are dropped.
SkipPanics(u) ==
  /\ task[u].pc = "skipStop"
  /\ queue = <<>>
  /\ Return(u)
  /\ lock' = NoUser
  /\ cacheLock' = IF cacheLock = u THEN NoUser ELSE cacheLock
  /\ UNCHANGED <<queueVars, Others>>

SkipDequeue(u) ==
  /\ task[u].pc = "skipDequeue"
  /\ queue' = IF queue = <<>> THEN queue ELSE Tail(queue)
  /\ Goto(u, "skipResume", 0)
  /\ UNCHANGED <<mode, started, ended, lock, cacheLock, Others>>

\* Mutant: the next track is not resumed.
SkipResumeSilent(u) ==
  /\ task[u].pc = "skipResume"
  /\ Return(u)
  /\ lock' = NoUser
  /\ cacheLock' = IF cacheLock = u THEN NoUser ELSE cacheLock
  /\ UNCHANGED <<queueVars, Others>>

SkipResume(u) ==
  /\ task[u].pc = "skipResume"
  /\ PlayHead(queue)
  /\ Return(u)
  /\ lock' = NoUser
  /\ cacheLock' = IF cacheLock = u THEN NoUser ELSE cacheLock
  /\ UNCHANGED <<queue, ended, Others>>

\* voteskip takes the Call's mutex, then guild_cache_map, and keeps both.
VoteSkip(u) ==
  /\ Issue(u, "voteskip") /\ Unlocked
  /\ queue # <<>>
  /\ Goto(u, "vote", 0)
  /\ lock' = u
  /\ UNCHANGED <<queueVars, cacheLock, Others>>

\* The bot itself is counted among the users of its channel.
SkipThreshold == (Cardinality(present) + 1) \div 2
Touch(entry) == IF entry = "unset" THEN "on" ELSE entry   \* entry().or_default()

CastVote(u) ==
  /\ task[u].pc = "vote" /\ CacheUnlocked
  /\ votes' = votes \cup {u}
  /\ votedOn' = [votedOn EXCEPT ![u] = IF queue = <<>> THEN {} ELSE {queue[1]}]
  /\ autoplay' = Touch(autoplay)
  /\ IF Cardinality(votes') >= SkipThreshold
     THEN Goto(u, "skipStop", 0) /\ cacheLock' = u /\ UNCHANGED lock
     ELSE Return(u) /\ lock' = NoUser /\ UNCHANGED cacheLock
  /\ UNCHANGED <<queueVars, endh, present, autopause, watched>>

\* remove b e (0-based), b = 0 included: the range is checked first.
RemoveTracks(u, b, e) ==
  /\ Issue(u, "remove") /\ Unlocked
  /\ Len(queue) > 1
  /\ b <= e /\ e < Len(queue)
  /\ GotoRange(u, "remove", b, e)
  /\ lock' = u
  /\ UNCHANGED <<queueVars, cacheLock, Others>>

\* Then it is drained and stopped, or drain panics: the queue has shrunk.
DrainTracks(u) ==
  LET b == task[u].at  e == task[u].to
  IN /\ task[u].pc = "remove"
     /\ IF e < Len(queue)
        THEN /\ StopTracks({queue[i] : i \in (b + 1)..(e + 1)})
             /\ queue' = SubSeq(queue, 1, b) \o SubSeq(queue, e + 2, Len(queue))
        ELSE UNCHANGED <<queue, mode, ended>>
     /\ Return(u)
     /\ lock' = NoUser
     /\ UNCHANGED <<started, cacheLock, Others>>

\* Mutant: the drained tracks are dropped without being stopped.
ClearWithoutStop(u) ==
  /\ Issue(u, "clear") /\ Unlocked
  /\ Len(queue) > 1
  /\ queue' = <<queue[1]>>
  /\ UNCHANGED <<mode, ended, started, cmdVars, Others>>

Clear(u) ==
  /\ Issue(u, "clear") /\ Unlocked
  /\ Len(queue) > 1
  /\ StopTracks({queue[i] : i \in 2..Len(queue)})
  /\ queue' = <<queue[1]>>
  /\ UNCHANGED <<started, cmdVars, Others>>

\* set_autoplay: and_modify, so nothing happens without a cache entry.
SetAutoplay(v) == autoplay' = IF autoplay = "unset" THEN autoplay ELSE v

Stop(u) ==
  /\ Issue(u, "stop") /\ CacheUnlocked
  /\ SetAutoplay("off")
  /\ Goto(u, "stop", 0)
  /\ UNCHANGED <<queueVars, lock, cacheLock, endh, voteVars, autopause, watched>>

\* The second half of stop_internal; NothingPlaying when the queue is empty.
StopQueue(u) ==
  /\ task[u].pc = "stop" /\ Unlocked
  /\ StopTracks(Queued)
  /\ queue' = <<>>
  /\ Return(u)
  /\ UNCHANGED <<started, lock, cacheLock, Others>>

\* Mutant: the whole queue is shuffled, the current track included.
AllPermutations(n) ==
  {p \in [1..n -> 1..n] : \A i, j \in 1..n : p[i] = p[j] => i = j}

\* fisher_yates on queue[1..]; an empty queue panics and changes nothing.
TailPermutations(n) ==
  {p \in [1..n -> 1..n] : p[1] = 1 /\ \A i, j \in 1..n : p[i] = p[j] => i = j}

Shuffle(u) ==
  /\ Issue(u, "shuffle") /\ Unlocked
  /\ queue # <<>>
  /\ \E p \in TailPermutations(Len(queue)) :
       queue' = [i \in 1..Len(queue) |-> queue[p[i]]]
  /\ UNCHANGED <<mode, started, ended, cmdVars, Others>>

\* Mutant: `to` may be 0.
MoveSongToTop(u, at, to) ==
  /\ Issue(u, "movesong") /\ Unlocked
  /\ 0 < at /\ at < Len(queue) /\ to < Len(queue)
  /\ GotoRange(u, "move", at, to)
  /\ lock' = u
  /\ UNCHANGED <<queueVars, cacheLock, Others>>

\* movesong checks both indices, and then moves the song.
MoveSong(u, at, to) ==
  /\ Issue(u, "movesong") /\ Unlocked
  /\ 0 < at /\ at < Len(queue) /\ 0 < to /\ to < Len(queue)
  /\ GotoRange(u, "move", at, to)
  /\ lock' = u
  /\ UNCHANGED <<queueVars, cacheLock, Others>>

Reorder(u) ==
  /\ task[u].pc = "move"
  /\ queue' = Reinsert(queue, task[u].at, task[u].to)
  /\ Return(u)
  /\ lock' = NoUser
  /\ UNCHANGED <<mode, started, ended, cacheLock, Others>>

Pause(u) ==
  /\ Issue(u, "pause") /\ Unlocked
  /\ queue # <<>>
  /\ PauseTop
  /\ UNCHANGED <<queue, started, ended, cmdVars, Others>>

Resume(u) ==
  /\ Issue(u, "resume") /\ Unlocked
  /\ queue # <<>>
  /\ PlayHead(queue)
  /\ UNCHANGED <<queue, ended, cmdVars, Others>>

\* autoplay with or without its optional value.
ToggleAutoplay(u, v) ==
  /\ Issue(u, "autoplay") /\ CacheUnlocked
  /\ SetAutoplay(v)
  /\ UNCHANGED <<queueVars, cmdVars, endh, voteVars, autopause, watched>>

ToggleAutopause(u) ==
  /\ Issue(u, "autopause")
  /\ autopause' = ~autopause
  /\ UNCHANGED <<queueVars, cmdVars, endh, voteVars, autoplay, watched>>

\* queue: from now on the event task runs a ModifyQueueHandler as well.
WatchQueue(u) ==
  /\ Issue(u, "queue") /\ Unlocked
  /\ watched' = TRUE
  /\ UNCHANGED <<queueVars, cmdVars, endh, voteVars, autoplay, autopause>>

\* A user joins or leaves the voice channel; no handler touches the votes.
MoveInVoice(u) ==
  /\ "voice" \in Commands
  /\ present' = IF u \in present THEN present \ {u} ELSE present \cup {u}
  /\ UNCHANGED <<queueVars, cmdVars, endh, votes, votedOn, autoplay, autopause, watched>>

-----------------------------------------------------------------------------
(* The event task.                                                         *)

EndGoto(pc) == endh' = [endh EXCEPT !.pc = pc]
EndAt(pc, heads) == endh' = [pc |-> pc, batch |-> heads, autoplay |-> FALSE]
\* TrackEndHandler is done, and the next handler is called, if there is one.
EndReturn == EndAt(IF watched THEN "refresh" ELSE "idle", {})

\* One mixer tick: QueueHandler runs for each ended track of the tick, then
\* TrackEndHandler is called once with all of them.
Dispatch ==
  /\ endh.pc = "idle"
  /\ \E batch \in SUBSET ended \ {{}} :
       /\ ended' = ended \ batch
       /\ EndAt("autoplay", batch)
       /\ IF queue # <<>> /\ queue[1] \in batch
          THEN queue' = Tail(queue) /\ PlayHead(Tail(queue))
          ELSE UNCHANGED <<queue, mode, started>>
  /\ UNCHANGED <<cmdVars, voteVars, autoplay, autopause, watched>>

ReadAutoplay ==
  /\ endh.pc = "autoplay" /\ CacheUnlocked
  /\ endh' = [endh EXCEPT !.pc = "settings", !.autoplay = autoplay # "off"]
  /\ UNCHANGED <<queueVars, cmdVars, voteVars, autoplay, autopause, watched>>

ReadSettings ==
  /\ endh.pc = "settings"
  /\ EndGoto(IF autopause THEN "pause" ELSE "votes")
  /\ UNCHANGED <<queueVars, cmdVars, voteVars, autoplay, autopause, watched>>

PauseAfterTrack ==
  /\ endh.pc = "pause" /\ Unlocked
  /\ PauseTop
  /\ EndGoto("votes")
  /\ UNCHANGED <<queue, started, ended, cmdVars, voteVars, autoplay, autopause, watched>>

\* Mutant: the entry is created but an existing one keeps its votes.
ForgetNothing ==
  /\ endh.pc = "votes" /\ CacheUnlocked
  /\ autoplay' = Touch(autoplay)
  /\ EndGoto("decide")
  /\ UNCHANGED <<queueVars, cmdVars, voteVars, autopause, watched>>

\* Mutant: the guard that read autoplay is still held: the lock is the
\* handler's own, and never free.
ForgetDeadlocks ==
  /\ endh.pc = "votes" /\ ~CacheUnlocked
  /\ votes' = {}
  /\ EndGoto("decide")
  /\ UNCHANGED <<queueVars, cmdVars, votedOn, present, autoplay, autopause, watched>>

ForgetSkipVotes ==
  /\ endh.pc = "votes" /\ CacheUnlocked
  /\ votes' = {}
  /\ autoplay' = Touch(autoplay)
  /\ EndGoto("decide")
  /\ UNCHANGED <<queueVars, cmdVars, votedOn, present, autopause, watched>>

Decide ==
  /\ endh.pc = "decide"
  /\ \/ ~endh.autoplay /\ EndReturn
     \/ /\ endh.autoplay
        /\ \E t \in endh.batch : mode[t] = "error"
        /\ EndGoto("disable")
     \/ /\ endh.autoplay
        /\ \A t \in endh.batch : mode[t] # "error"
        /\ IF HasPool THEN EndGoto("current") ELSE EndReturn
  /\ UNCHANGED <<queueVars, cmdVars, voteVars, autoplay, autopause, watched>>

\* Every error path of the handler ends in set_autoplay(false).
DisableAutoplay ==
  /\ endh.pc = "disable" /\ CacheUnlocked
  /\ SetAutoplay("off")
  /\ EndReturn
  /\ UNCHANGED <<queueVars, cmdVars, voteVars, autopause, watched>>

ReadCurrent ==
  /\ endh.pc = "current" /\ Unlocked
  /\ IF queue # <<>> THEN EndReturn ELSE EndGoto("recommend")
  /\ UNCHANGED <<queueVars, cmdVars, voteVars, autoplay, autopause, watched>>

\* get_recommended_track_query and the resolution in queue_query.
GetRecommendation ==
  /\ endh.pc = "recommend"
  /\ \E next \in {"resolve", "disable"} : EndGoto(next)
  /\ UNCHANGED <<queueVars, cmdVars, voteVars, autoplay, autopause, watched>>

\* queue_query enqueues; add_metadata_to_track may fail afterwards.
QueueRecommended ==
  /\ endh.pc = "resolve" /\ Unlocked
  /\ \E t \in Fresh : Enqueue(t)
  /\ EndReturn \/ EndGoto("disable")
  /\ UNCHANGED <<cmdVars, voteVars, autoplay, autopause, watched>>

RecommendationFails ==
  /\ endh.pc = "resolve"
  /\ EndGoto("disable")
  /\ UNCHANGED <<queueVars, cmdVars, voteVars, autoplay, autopause, watched>>

\* ModifyQueueHandler reads the queue; the volume is for its head.  (Every
\* queue command adds such a handler; they run alike, one after the other.)
RefreshQueue ==
  /\ endh.pc = "refresh" /\ Unlocked
  /\ EndAt("volume", IF queue = <<>> THEN {} ELSE {queue[1]})
  /\ UNCHANGED <<queueVars, cmdVars, voteVars, autoplay, autopause, watched>>

\* The volume of a track that has ended is set as long as the mixer keeps
\* the track, or not at all in a guild without settings.
SetVolume ==
  /\ endh.pc = "volume"
  /\ EndAt("idle", {})
  /\ UNCHANGED <<queueVars, cmdVars, voteVars, autoplay, autopause, watched>>

\* current_channel().unwrap() of a Call that is in no channel.
CurrentPanics ==
  /\ endh.pc = "current" /\ Unlocked
  /\ EndAt("dead", {})
  /\ UNCHANGED <<queueVars, cmdVars, voteVars, autoplay, autopause, watched>>

\* set_volume(..).unwrap() of a track that is over, or update_queue_messages
\* on a track whose metadata is not set yet.
VolumePanics ==
  /\ endh.pc = "volume" /\ endh.batch # {}
  /\ EndAt("dead", {})
  /\ UNCHANGED <<queueVars, cmdVars, voteVars, autoplay, autopause, watched>>

-----------------------------------------------------------------------------
Init ==
  /\ queue = <<>>
  /\ mode = [t \in Track |-> "new"]
  /\ started = {} /\ ended = {}
  /\ lock = NoUser /\ cacheLock = NoUser
  /\ task = [u \in User |-> Idle]
  /\ endh = [pc |-> "idle", batch |-> {}, autoplay |-> FALSE]
  /\ votes = {} /\ votedOn = [u \in User |-> {}] /\ present = {}
  /\ autoplay = "unset" /\ autopause = FALSE /\ watched = FALSE

\* A user issues a command.
Request(u) ==
  \/ \E n \in 1..ListLen : Play(u, n)
  \/ PlayNext(u) \/ PlayNextList(u) \/ PlayList(u)
  \/ \E n \in 1..Len(queue) : Skip(u, n)
  \/ VoteSkip(u)
  \/ \E b, e \in 0..Len(queue) : RemoveTracks(u, b, e)
  \/ Clear(u) \/ Stop(u) \/ Shuffle(u)
  \/ \E at, to \in 0..Len(queue) : MoveSong(u, at, to)
  \/ Pause(u) \/ Resume(u)
  \/ \E v \in {"on", "off"} : ToggleAutoplay(u, v)
  \/ ToggleAutopause(u) \/ WatchQueue(u)

\* A command that has begun goes on.
Continue(u) ==
  \/ QueueTrackBack(u) \/ QueueTrackFront(u) \/ LookAtFront(u) \/ MoveToFront(u)
  \/ ReadQueueSize(u) \/ QueueReadyTrack(u)
  \/ EnqueueListed(u) \/ InsertQueued(u) \/ InsertPanics(u) \/ ResolveFails(u)
  \/ SkipStop(u) \/ SkipPanics(u) \/ SkipDequeue(u) \/ SkipResume(u)
  \/ CastVote(u) \/ StopQueue(u) \/ DrainTracks(u) \/ Reorder(u)

EventTask ==
  \/ Dispatch \/ ReadAutoplay \/ ReadSettings \/ PauseAfterTrack
  \/ ForgetSkipVotes \/ Decide \/ DisableAutoplay \/ ReadCurrent
  \/ GetRecommendation \/ QueueRecommended \/ RecommendationFails
  \/ RefreshQueue \/ SetVolume

\* Nothing of the event task is enabled after a panic.
EventTaskPanics == CurrentPanics \/ VolumePanics

Next ==
  \/ \E t \in Track : TrackEnds(t)
  \/ \E u \in User : Request(u) \/ Continue(u) \/ MoveInVoice(u)
  \/ EventTask \/ EventTaskPanics

Spec == Init /\ [][Next]_vars

\* tokio's mutexes are FIFO: a task that keeps asking for one gets it.
\* Nothing has to panic.
Fairness == SF_vars(EventTask) /\ \A u \in User : SF_vars(Continue(u))
FairSpec == Spec /\ Fairness
=============================================================================
