# A TLA+ model of cracktunes

cracktunes is a Discord music bot written in Rust: a workspace whose core crate
(`crack-core`) runs on serenity, poise and songbird, and keeps its state in maps
behind tokio locks and in a PostgreSQL database. This directory holds TLA+ modules
that model the parts of it in which several actors share state, the TLC
configurations that check them on small instances, and TLAPS proofs of what holds
on every instance. All definitions are translated from the code at this commit;
`PROJECT.json` maps each of them to its lines, lists the runs, the mutants, the
hazards and the theorems.

How to run, in this directory: `tlc -workers 2 -config PlaybackQueue.cfg MCPlayback`
for a run (the table below names module and configuration), `tlapm PlaybackProofs.tla`
for a proof.

Paths below are relative to `src/crack-core/src/` unless they start with a crate name.

## 1. The system

### Components, their state and operations

| component | state | operations | modelled by |
|---|---|---|---|
| Playback of a guild (`handlers/track_end.rs`, `music/queue.rs`, `music/query.rs`, `commands/music/{skip,voteskip,remove,clear,stop,shuffle,pause,resume,autoplay,autopause}.rs`, `guild/cache.rs`) | songbird's `TrackQueue`, the mode of each track, skip votes, autoplay and autopause flags | the commands; the mixer ending a track; songbird's event task: `QueueHandler`, then `TrackEndHandler::act` | `Playback` |
| Voice session (`commands/music_utils.rs`, `commands/music/{summon,leave}.rs`, `handlers/idle.rs`, `handlers/serenity.rs`) | songbird's registry of calls, each call's connection, its global handlers, the idle counter | join, leave, use a call, the gateway's answers and kicks, the idle tick | `VoiceSession` |
| Guild settings (`guild/{settings,operations}.rs`, `db/guild.rs`, `config.rs`, `handlers/serenity.rs`) | `guild_settings_map`, table `guild_settings` | toggles and setters, `get_or_create`, loading at `cache_ready`, saving at a signal, crash and restart | `GuildSettings` |
| Queue panels (`commands/music/queue.rs`, `handlers/track_end.rs`, `utils.rs`) | the messages of the queue command, the page each shows, `queue_messages` | open, click, time out, refresh after every change of the queue | `QueuePages` |
| Play history (`poise_ext.rs`, `db/{worker_pool,metadata,play_log,track_reaction}.rs`, `lib.rs`) | the bounded channel, tables `metadata`, `user`, `play_log`, `track_reaction` | send, the worker's four statements, downvote, the query of recommendations | `PlayHistory` |
| Message caches, clean (`poise_ext.rs`, `lib.rs`, `commands/utility/clean.rs`) | `id_cache_map`: sent messages by time, per guild or user | send and store, grow old, clean, a moderator's deletion | `MessageCache` |
| Play command (`commands/music/doplay.rs`, `music/{query,queue}.rs`, `utils.rs`) | its own progress, the queue | mode and query type, resolving, queueing in batches, the reply | `PlayCommand` |
| Permissions (`guild/permissions.rs`, `commands/permissions.rs`, `db/user.rs`, `commands/admin/{authorize,deauthorize}.rs`) | authorised users, allow and deny lists, their tables | the decisions, edits of the lists, saves, reload | `GuildAccess` |
| Event log (`handlers/event_log*.rs`, `http_utils.rs`, `lib.rs`) | log channels and ignored channels of a guild, tasks of events | routing of each gateway event to a channel, own messages coming back | `EventLog` |
| Guild profile (`guild/settings.rs`, `db/guild.rs`, `commands/settings/`, `handlers/serenity.rs`) | channels, roles, welcome and log settings of an entry; three tables | setters, their saves, load, welcome of a member | `GuildProfile` |
| Playlists (`db/playlist.rs`, `commands/playlist/`) | tables `playlist`, `playlist_track` | create, add, load, play, rename, delete | `Playlists` |
| `crack-testing` | `CrackTrackClient`'s map of `CrackTrackQueue`s | resolve, enqueue, take, shuffle, build display | `TrackQueue` |
| `crack-voting`, `commands/music/vote.rs` | tables `vote_webhook`, `user`, `user_votes` | receive a webhook, answer it, record a vote | `VoteService` |
| `crack-bf`, `commands/bf.rs` | tape and program of a Brainfuck interpreter | run | `Brainfuck` |
| Camera enforcement (`handlers/voice_chat_stats.rs`) | cameras seen at the last poll | poll, warn, disconnect or deafen | no: the loop never acts, section 7 |
| Voice receiver (`handlers/voice.rs`) | a buffer of packets | receive | no: never registered |
| `crack-gpt` | messages by user | ask | no: off by default, one writer |
| Other administration, utility and help commands | none of their own, or Discord's | one call of Discord each | no: no state of the bot; the administration commands are not registered |
| `messaging/`, `sources/`, `http_utils.rs`, `crack-osint`, `crack-types`, `metrics.rs`, `errors.rs`, `connection.rs` | none | formatting, I/O, parsing of foreign formats | no |
| `crack-cli`, `migrations/` | | start-up; schema | only the constraints that statements rely on |

### How they interact

* A command runs in a task of its own. It reaches its guild's `Call` through
  songbird's registry and locks the call's mutex, often across several awaits and
  through network and database requests.
* songbird's mixer ends tracks at any time. The event task of the call delivers the
  events later: its own `QueueHandler`, which does **not** take the call's mutex, pops
  a finished head and starts the next track; then the bot's global handlers run,
  `TrackEndHandler` (autopause, votes, autoplay) and the `ModifyQueueHandler`s.
* `guild_cache_map` (votes, autoplay, queue panels) is one tokio mutex for all guilds;
  `guild_settings_map` is a read-write lock.
* `update_queue_messages` is called by every command that changes the queue and by
  `ModifyQueueHandler`; it edits all the panels of the guild.
* A join installs the handlers and reads the settings (`get_or_create`); the idle
  handler and the bot's own voice state updates remove calls behind the commands' back.
* Commands hand what was played to the database worker over a bounded channel;
  `TrackEndHandler` reads the log when the queue has run empty. At this commit the
  call sites of `send_track_metadata_write_msg` in `music/queue.rs` are commented out
  with a FIXME, while the worker is started (`config.rs:227`) and tested: `PlayHistory`
  models it as it is wired and tested. Likewise `commands/settings` and
  `commands/playlist` are not declared in `commands/mod.rs`; `GuildProfile` and
  `Playlists` model them as they stand, over statements that are compiled.
* Every gateway event is also handled by `handle_event` in a task of its own, which
  announces it in a channel of the guild; the announcement comes back as an event.
* The web service `crack-voting` is a process of its own on the same database.

### What is hard

Decisions made on a queue that has changed by the time they are carried out;
`QueueHandler` running inside the critical section of a command; handlers of calls
that were left; reads and writes of one value under two locks; loads, saves and
crashes that overlap; statements that fail one by one. `PROJECT.json` lists these
hazards at their lines. What makes each component correct:

* **Playback**: a song is heard once and one at a time, the queue never hangs, tracks
  leave it only stopped, votes concern the song they were cast on, locks are given back.
* **Voice session**: one handler of a kind per call, no leaving before the quiet limit
  and no staying after it, handlers on every call that plays.
* **Guild settings**: rows that no command touched stay, a saved row is final, a
  shutdown ends.
* **Queue panels**: pages that exist, no panel left in the cache, refreshes that end.
* **Play history**: the log tells the truth about the messages, in their order, though
  not all of it; reported dislikes are there; the worker never gets stuck.
* **Event log**: ignored channels stay quiet, announcements do not breed announcements.
* **Permissions**: who was deauthorised stays so, restarts and reloads included.
* **Guild profile**: what was saved is what the next start finds.
* **Votes**: every stored row is explained by a vote or by an answer that was lost.
* **Track queue library**: no track is lost or doubled but by the races that its two-step
  calls allow.
* **Play command**: the reply names what the command queued, unless somebody interfered.
* **Message cache**: the number that clean reports is what it deleted.
* **Playlists**: deleted means gone, whatever else was under way.
* **Brainfuck**: jumps end at the bracket that matches.

## 2. The modules

| module | what it is |
|---|---|
| `Playback` | the component: one action per command, or per section of a command between two points where others can run |
| `PlaybackProperties` | its invariants, action and liveness properties, and the refinement mapping |
| `Jukebox` | abstract specification of a queue: a track is new, waiting, current or gone |
| `MCPlayback` | sets of commands and the symmetry for TLC |
| `QueueLemmas` | lemmas on sequences and on least numbers, for all proofs |
| `PlaybackProofs`, `PlaybackStepProofs` | proofs of the invariants of `Playback`; of what its steps may do, and of the refinement |
| `VoiceSession`, `MCVoiceSession`, `VoiceProofs` | component; history variable and constants for TLC; proofs, also about the history |
| `GuildSettings`, `MCGuildSettings`, `SettingsProofs` | likewise; the MC module remembers which entries commands have touched in this life, and the proofs speak of that, too |
| `QueuePages`, `MCQueuePages`, `PagesProofs` | component with its properties; proofs |
| `PlayHistory`, `PlayJournal`, `MCPlayHistory`, `HistoryProofs` | component with its properties; abstract specification of the log; proofs |
| `Discord` | what the services below share: guilds, channels, users, tasks, and partial functions |
| `EventLog`, `GuildAccess`, `VoteService`, `TrackQueue`, `GuildProfile`, `PlayCommand`, `MessageCache`, `Brainfuck`, `Playlists` | one service each, with its properties |
| `MCServices`, `ServiceProofs` | the services one at a time, for TLC; proofs about all of them |

### Playback

`queue` is songbird's queue, `mode` the `PlayMode` of each track, `ended` the finished
tracks whose End event has not been delivered. `started` and `votedOn` are history
variables. `lock` holds the user whose command has the call's mutex, `cacheLock` who
keeps `guild_cache_map` over an await. `task[u]` is where the command of a user slot
stands. The call's mutex keeps other commands out, but not `QueueHandler`, which takes the
queue's own lock only: so a command is one action where it touches the queue once
(`Clear`, `Shuffle`), and is split wherever it looks at the queue, or enqueues, and then
changes it by a second operation:

* `skip`: `Skip` (drain), `SkipStop`, `SkipDequeue`, `SkipResume`;
* `movesong`: `MoveSong` reads the length and checks the indices, `Reorder` removes and
  inserts; `remove`: `RemoveTracks` checks and stops, `DrainTracks` drains;
* `queue_track_front`: `QueueTrackFront` enqueues, `LookAtFront` reads the length,
  `MoveToFront` takes the song from the back to its place;
* `queue_query_list_offset`: `ReadQueueSize`, then for each track `EnqueueListed` and
  `InsertQueued`.

An index that is out of range by the time the song is inserted panics after the song was
taken out, so that the track stays in the mixer and in no queue (`MoveBack`, `Reinsert`). A
panic ends its command and drops its guards (`SkipPanics`, `InsertPanics`, `Reorder`).

`endh` is the place of the event task: `QueueHandler` (`Dispatch`), `TrackEndHandler::act`
await by await, then `ModifyQueueHandler` (`RefreshQueue`, `SetVolume`). A panic in a handler
(`CurrentPanics`, `track_end.rs:159`; `VolumePanics`, line 240) ends the task: `endh.pc` is
"dead" for the rest of the call. songbird notices the loss and starts a bare event task that
knows none of the handlers of the call; what is left of it does what a dead one does,
because `QueueHandler` is among the handlers that are gone. songbird's own operations
(`StopTracks`, `PlayHead`, `Enqueue`, `Dispatch`, ...) are marked external: they are
modelled from how the code uses them. Resolving a query is reduced to the tracks it
yields, or an error.

`Jukebox` says what is left if nobody knows of locks, modes or events: tracks enter
once, a current track exists while any waits, and it is replaced only when it leaves.

### VoiceSession

A `Call` outlives its registration, because its handlers hold an `Arc` of it; calls are
numbered, and `registered` is the guild's entry in the registry. songbird's `remove` has
two steps, leaving the call and dropping the entry, and every caller of it
(leave, the bot's voice state update, the idle handler) is split there. When leaving fails
(`LeaveFails`) the entry stays and the call is "cut", left without Discord knowing: leave
reports the error, the voice state update discards it, and the idle handler logs it and
cancels itself all the same (`IdleRemoveFails`). A failed join
leaves its call in the registry, and `do_join` then uses it as if it had been joined,
which is what `JoinFails` does. `idle[c]` is the sequence of idle handlers of a call with
the counter of each; `Counted` is the `fetch_add` of the code and has no bound but that of
the runs, since a handler whose limit is reached removes the call or itself. `MCVoiceSession`
adds two histories: `quiet`, an independent count, and `stuck`, the calls whose handler has
given up because the removal failed.

### GuildSettings

`live` is the map, `stored` the table. The entry is reduced to the two settings that
registered commands change (autopause; volume in hundredths, since what happens to the
fraction is a property) and `profile`, which stands for all the others: those of
`GuildSettings::new`, those of the column defaults, or a guild's own. `GetOrCreate` and
`Create` are the two halves of `get_or_create_guild_settings`; the loader and the signal
handler work row
by row, and each of their statements may fail. `Crash` and `Restart` lose memory and keep
the table.

### QueuePages

The queue is its length. Each queue command is a task (`panel`) that opens a panel,
stores it, adds a handler, turns pages and forgets the panel when its collector times
out. Each run of `update_queue_messages` (`refresh`) clones the cache, then reads, fits
and writes one page after the other and edits the message; a page is read under the
read lock and written under the write lock in separate steps. Requests to Discord may
fail at any point, and `unwrap`s panic as in the code, those of the event task's refreshes
(`EventEditPanics`) included.

### PlayHistory

`sent` remembers the messages in order, for the properties; `channel` holds positions in
it. The worker takes the four statements of `write_metadata_pg` one by one; foreign keys
are guards, as in the schema. Rows are numbered in the order of creation.
`PlayJournal` says what the log promises: some of the messages, each at most once, as
they were sent and in that order.

### The services

`MCServices` extends the nine modules, whose variables are disjoint, and lets a behaviour
pick one of them: they share no state, so that their product would show nothing that the
parts do not. In each of them a command or handler is a task that takes the steps of the
code between two awaits or two statements, and each request to Discord or to the database
may fail and then ends the task as `?` does.

* `EventLog`: the arm of `handle_event` for each kind of event is the sequence of its steps
  (write to the file, choose the channel, ask for names, send, reload the guild).
  `channels` is the part of the settings that routes; `ownPosts` are announcements that
  have not come back. `barred`, a history field, are the channels that have been ignored
  ever since the event arrived.
* `GuildAccess`: `access` is the guild's entry; `saving` and `storing` are the two saves that
  take several statements. `revoked` is a history variable.
* `VoteService`: `request` is a webhook under way, `posts` and `acknowledged` are what top.gg
  knows; the histories `answered` and `unanswered` count the stored requests that were
  answered with success, and those whose answer got lost.
* `TrackQueue`: `queueOf` maps guilds to queues in `queues`, because the code replaces a
  queue that another clone of the client still holds. `disturbed` marks the two known
  races. Resolving is operators on sequences of answers.
* `GuildProfile`: an entry and the rows of three tables, with the save as four statements on
  a copy; `durable` is the last complete save that nothing has touched since.
* `PlayCommand`: the words of a user become a mode and a kind (`GetMode`,
  `QueryTypeFromUrl`), these a plan of batches (`MatchMode`) or a download that may succeed,
  fail or panic (`Downloads`), and the reply is built from
  a later read of the queue (`BuildPlayEmbed`). `crossed` marks commands whose queue was
  changed by others in between. `Playback` has the queue in all detail.
* `MessageCache`: a message is its place and who deleted it; a cache is a sequence of
  messages, oldest first, of which the first `old` are past their time. clean works on a
  copy, which is a prefix of the cache, because entries are never taken out.
* `Brainfuck`: one instruction per step over a tape of numbers; bracket matching as the
  scans of the code.
* `Playlists`: a command is a query that takes one statement after the other; foreign keys
  are guards.

## 3. The runs

| run | configuration | instance | distinct states | shows |
|---|---|---|---|---|
| `playback_queue` | `PlaybackQueue.cfg` | 3 tracks, 2 users, lists of 2, commands that edit the queue | 368K (symmetric) | `TypeOK`, `TailNeverStarted`, `FinishedTrackHasEvent`, `OnlySkipsAndPanicsLeak`, `OnlyRemoveStalls`, and that `Playback` implements `Jukebox` |
| `playback_live` | `PlaybackLive.cfg` | 2 tracks, 1 user, every command of a player, a database | 504K | `VotesDieWithTheirSong`; `FinishedHeadLeaves`, `CallIsReleased`, under fairness |
| `voice_safety` | `VoiceSafety.cfg` | 3 commands, 2 calls, timeout 0 or 90 s | 1.67M (symmetric) | `TypeOK`, `OneHandlerEach`, `IdlePatience` |
| `voice_live` | `VoiceLive.cfg` | 2 commands, 2 calls, 90 s | 41K | `PlayedCallGetsHandlers`, `IdleCallLeaves`, under fairness |
| `settings` | `Settings.cfg` | 2 guilds, 1 loader, 2 commands, volume 50% | 371K | `TypeOK`, `SavedRowsStay`, `UntouchedRowsStay`, `ProfileLostOnlyIfMade`, `ShutdownEnds` |
| `queue_pages` | `QueuePages.cfg` | 1 panel, 1 command and the event task, 3 tracks, 2 changes, 2 clicks, 1 track a page | 85K | `TypeOK`, `PageWithinNav`, `RefreshShowsAPage`, `CachedPanelsAreOpen`, `PanelsClose`, `RefreshesEnd` |
| `play_history` | `PlayHistory.cfg` | 2 guilds, 1 URL and none, 1 user, 3 messages, channel of 1, 2 downvotes | 181K | `TypeOK`, `DislikesAreVotes`, `LogIsJournal`, `WorkerDrains` |
| `services` | `Services.cfg` | one service at a time, 2 tasks; see below | 546K | `ServicesTypeOK`, `IgnoredStaysQuiet`, `RevokedStaysRevoked`, `WebhookRowsExplained`, `TracksKept`, `SavedProfileLoads`, `ReplyNamesItsTrack`, `CleanReportsAreTrue`, `DeletedPlaylistsAreGone`, `JumpsMatch`; `EchoesDie` under fairness |
| `skip_race`, `get_or_create`, `settings_persist`, `downvote` | | as above | | the code does not do what its documents say, section 6 |

### The bounds, and why they are enough

* Three tracks are what it takes for a head, a next track and one to insert or to
  shuffle behind them, and for a list of two behind a head; every race of the queue
  is between two commands, or a command and the event task, so two users suffice. The
  tail of the queue is treated uniformly by all commands. `ListLen` only bounds how long
  a bulk insert takes.
* Liveness of playback is checked with one user and two tracks, because the cycle to
  fear is between one command, the cache mutex and the event task.
* Two calls are a call that was left and the one that replaced it; three commands are two
  that join and one that leaves in between. 90 s is no multiple of the 60 s period, which
  is what the comparison of the counter depends on; 0 disables the handler. The history of
  quiet periods stops counting at `MaxQuiet`, 4 periods, which is past every limit.
* Two guilds show what one guild's save or load does to the other; a loader is overlapped by
  the signal handler and by commands. 50% is the volume whose fraction is lost.
* One track a page and three tracks make up to two pages, since `calculate_num_pages`
  leaves out the first track; one panel is enough because a panel's
  page is touched by its own task and by refreshes only, and a refresh treats panels one by one.
  Two panels with one change and one click were explored as well (199K states), and
  the proofs of section 5 hold for any number.
* A channel of one message is full at once; three messages of two guilds can be received,
  waiting and lost; two downvotes are one more than the table accepts.

* `services`: every race of a service is between two tasks. Two events show an event and
  another that arrives, or the settings changing, while its handler runs. A vote posted
  three times is one that is repeated after a failure and after a lost answer. Three
  tracks of the library and of a list are one to move, one before and one behind it; lists
  of three and chunks of two make a first track, a full chunk and a rest. Three settings
  commands are a change, a save and a change in between. Three message commands are two
  replies and a clean, or two cleans that overlap. Programs of four instructions are the
  shortest with nested loops and loops at either end; a tape of two cells has both ends.
  Two playlists are one that is deleted and one of the same name that takes its place.

Deadlock is checked where commands can always be issued. It is switched off in the
voice, settings, pages, history and services runs, whose commands are bounded in number:
there the system stops when the commands are used up.

### Fairness

* `Playback`: strong fairness of each user's running command and of the event task.
  tokio's mutexes are FIFO, so a task that asks for one repeatedly is served although
  others take it in between; the runtime polls every ready task. Nothing makes a user
  issue a command or a track end.
* `VoiceSession`: commands that have begun go on, a join is answered or times out
  (songbird's own timeout), the periodic event of a call keeps firing (the driver's event
  task is its clock), a removal returns. Kicks and ends of songs are not assumed.
* `GuildSettings`: only the task of the signal handler is fair.
* `QueuePages`: every task goes on, requests to Discord are answered or fail, a
  collector's timer runs whatever is clicked.
* `PlayHistory`: every statement is answered by a result or an error.

* `services`: a handler of an event goes on, and Discord delivers what the bot has sent to
  it as an event (weak fairness of `Delivery`). New events of others are not assumed.

## 4. Properties worth a comment

* `OnlySkipsAndPanicsLeak` and `OnlyRemoveStalls` draw the line around three defects. A
  track leaves the queue without being stopped in three ways only: `skip n` drains what is
  behind the head, `dequeue(0)` takes the head after the one that was skipped, and a command
  that takes a song out to insert it elsewhere (movesong, playnext, a list that is played
  next) finds the queue too short, because `QueueHandler` has popped in between, and panics.
  A queue stalls only after `remove` with index 0. Every other command in every interleaving
  keeps clear of all of these.
* `JukeboxSpec` survives the inserts that panic (`music/queue.rs:390`,
  `commands/music/shuffle.rs:45`): the track that is lost goes from waiting or current to
  gone, takes no other one with it, and never comes back, although it is still in the mixer.
* `FinishedHeadLeaves` has one exception, which the code has: after a handler has panicked
  nothing pops the queue of that call any more.
* `IdlePatience` counts quiet periods independently of the code's counter. The
  handler leaves one period late (the 11th tick for 600 s), never early. `IdleCallLeaves`
  needs `stuck`: a removal that fails is not tried again, and the call stays.
* `UntouchedRowsStay` and `SavedRowsStay` hold although the loader overwrites the map and
  runs during the shutdown, because `get_or_create` never overwrites a row.
* `PageWithinNav` compares a page with the number of pages that was counted
  when the panel was opened, and holds however the queue changes. That number itself
  gets stale: see section 6.
* `LogIsJournal` is a refinement: although any error of a SELECT inserts a
  second metadata row, and a failed INSERT continues with id 0, no row of the log names a
  wrong track.

* `EchoesDie` is the reason why `handle_event` returns for messages of bots: the
  announcement of an announcement would never end. `IgnoredStaysQuiet` is about the log
  channel of an event, which is what the code compares with `ignored_channels`.
* `RevokedStaysRevoked` holds for a reason that looks like a defect: the rows of
  `authorized_users` are never deleted, and nothing reads them back.
* `WebhookRowsExplained` is an equation: the rows of a user are the deliveries that were
  answered with success, those whose answer was lost, and those that are due. It says both
  that an acknowledged vote is stored, and what the service does not promise: a vote is
  counted twice after a lost answer, and also when two deliveries of it overlap.
* `SavedProfileLoads` states what a save promises, with the two exceptions that the code
  makes: a password is never stored, and a part that an entry no longer has keeps its row.
* `TracksKept` says of every interleaving that no track is twice in the library's queues,
  or in one and still to be pushed: a shuffle that overlaps with other calls may bring
  back what was taken and lose what was pushed, but the copy it writes replaces the queue
  that it was read from, and `ensure_queue` never puts one queue under two guilds. That no
  track is lost holds without those two races only, and is stated so.
* `ReplyNamesItsTrack` excludes the interference that the code does not guard against, and
  nothing else: the sequential orders and every race outside that window are covered.
* `CleanReportsAreTrue` holds although clean counts before it deletes, because a
  deletion that fails ends the command without a report.
* `DeletedPlaylistsAreGone` holds without a transaction, because the foreign key refuses
  the second statement while there are tracks, and ids are not used twice.

Each property has a mutant in `PROJECT.json`, a plausible error in a mapped definition
that violates it.

## 5. What is proved

Every safety property of the passing runs - all invariants, all action properties and both
refinements - is a theorem, for every value of the constants that satisfies the named
assumptions. They say that sentinels differ from real values (`ConstantsAssumption`,
`VoiceAssumption`, `SettingsAssumption`, `HistoryAssumption`, `NoneAssumption`), that sizes
and bounds are numbers, and positive where the code divides by them or indexes with them
(`PagesAssumption`, `HistoryAssumption`, `ListsAssumption`, `TapeAssumption`,
`CommandsAssumption`, `TracksAssumption`, `PostsAssumption`, `PlaylistsAssumption`), that
tasks and guilds are finitely many (`TasksAssumption`, `HistoryAssumption`), and that the
history of quiet periods reaches every limit (`QuietAssumption`). TLC evaluates them in the
runs.

None of the properties is inductive as it stands. The invariants that are, and why they
are needed:

### Playback (`PlaybackProofs`, `PlaybackStepProofs`)

`TypeCorrect`, `TailIsNew`, `NoDeadTrack` rest on `IInv`: a tail could be started by an
insert of a track that was queued before, so `IInv` adds that a track is queued at most once
(`Distinct`) and that a new track is neither queued nor started (`NewUntouched`), and for
the locks that the holder is exactly the command in a critical section (`CmdInv`). The core
is `EditKeepsQInv`: any edit keeps the invariant if what ends up behind the new head
comes untouched from behind the old one. Each command is then one of a few shapes
(cut, insert, permute, pop), on lemmas of `QueueLemmas`.

`StepInv` adds what the modes say: a track whose End event is pending is finished, one that
plays has been started, and the skip that is about to resume finds a head that was heard
or is playable. From both follow `OnlySkipsAndPanics` and `OnlyRemoveLeavesSilence`, action
properties: for each command, and each of the steps it is split into, which tracks leave the
queue and in which mode, and what becomes the head; for a song that is moved, that it
is back in the queue unless the place it goes to is beyond the end. `VotesDie` follows a
vote from the song it was cast on through the End
event to the handler that forgets it. `QueueIsJukebox` is the refinement: new, waiting,
current and gone are functions of `queue` and `mode`, and every section of every
command is one step of `Jukebox` or none.

### VoiceSession (`VoiceProofs`)

`VInv` says that a call has no idle handler or one sound one, and that a request past
`manager.join` holds a call: `VoiceTypeCorrect`, `HandlersAreSingle`, for counters
of any size, and removals that may fail. `HandlersArePatient`
is about `MCVoiceSession`, whose history variable counts quiet periods independently:
`QuietInv` says that the counter of the code is never ahead of it.

### GuildSettings (`SettingsProofs`)

`SInv` says of the entries that a loader has read and of the snapshot what
`SettingsTypeCorrect` and `StrayIsFresh` say of the map. `SavedRowsAreFinal`, an action
property, follows: a save writes the row of its own guild or the stray one, a load writes
no row that exists. `UntouchedStay` and `ProfilesStay` are about `MCGuildSettings`:
`TrackedInv` says that memory, the snapshot and every load still agree with the row of a
guild that no command touched, so that whichever of them is written back changes nothing.

### QueuePages (`PagesProofs`)

`PagesTypeCorrect`, `PagesStayWithinNav`, `RefreshedPagesExist`: `PInv` adds that the page
a refresh carries exists in its queue and is allowed by its panel, and that the panels it
has still to edit are open, so that their number of pages is fixed. `CachedAreOpen` is
inductive with the types alone.

### PlayHistory (`HistoryProofs`)

`HInv` says that the messages that wait are in order and later than the one in hand and than
all that are logged, and that the metadata row in hand is that of the message. Every step
then maps to `Offer`, `Write` or a stutter of `PlayJournal` (`LogImplementsJournal`).
`KeysExist` is `TypeOK` of the component. `DislikesCount` is about two sums of columns,
which are folds. A sum is shown to be the number of dots in a histogram
(`TotalIsDots`): the fold is expanded to its recursion on finite sets, the number of dots
solves that recursion, and a set of least size where two solutions differ cannot exist.
`CountInv` adds that a vote about to count has a row to count in, so that both sums grow by
one in the same step.

### The services (`ServiceProofs`)

Each has its type theorem, which constrains every variable of its module, and
`ServicesTyped` puts the nine together over `MCServices`.

* `Playlists`: `ListInv` adds to `DeletionIsFinal` that every id given out is below the next
  one, also those in the hands of commands under way, and that saved tracks belong to
  playlists that exist; `ListShape` what each statement of a command may rely on.
* `GuildAccess`: `AccessInv` is `RevocationLasts` with the shape of the entry;
  `AccessShape` that the permissions a channel is about to be stored with exist.
* `VoteService`: `VoteInv` adds to `RowsExplained` that requests under way have a user who
  votes, and that nothing is stored of anyone else; each step then moves at most one task
  into or out of `Stored(u)`, whose cardinality is the last summand of the equation. `VoteShape` says
  who has a row when.
* `EventLog`: `QuietInv` says that what a task has barred since its event arrived is still
  in the settings, so that the choice of `get_channel_id` avoids it (`IgnoredQuiet`).
  `EventShape` says that in the rest of every task's arm a channel is chosen before anything
  is sent; that the arms of `handle_event` are such plans is `ArmsArePlanned`.
* `GuildProfile`: `SavedInv` says for a save between two statements which of its rows are
  already what it will report, provided that nothing came between (`SavedProfilesLoad`).
* `MessageCache`: `CleanInv` tells the messages that a running clean has deleted, by its
  number, from those of others: the count is their number, but one more while the next
  deletion is under way (`CleanTellsTheTruth`).
* `PlayCommand`: `ReplyInv` says for a command at each of its points what it has queued, and
  where in the queue that lies as long as nobody crossed it (`RepliesName`); `Sides` what a
  command has left to queue, which no step of another changes (`PlaysTyped`). The
  proof showed that two guards of a CASE overlapped; they are disjoint now, as in the code.
* `TrackQueue`: `TrackShape` holds always, and so does `Apart`: a queue together with the
  copies that shuffles have made of it (`Stock`) shares no track with another queue's, nor
  with what a task has still to push. `Calm` holds as long as no call came between the
  halves of another: a ledger in which every accepted track is in the queue of one
  guild, in the hands of one task, or taken. `TracksStay` rests on all three.
* `Brainfuck`: `BfInv` is about the tape and how far the pointer may be off it (`BfTyped`);
  the work is in `JumpsFindPartners`. The depth at
  which a scan stops is the number of opened minus the number of closed brackets, so that
  the first place where it is 0 is the partner, and panics mean that there is none.

Only model-checked: liveness, which is out of the prover's reach with fairness and ENABLED:
`FinishedHeadLeaves`, `CallIsReleased`, `PlayedCallGetsHandlers`, `IdleCallLeaves`,
`ShutdownEnds`, `WorkerDrains`, `PanelsClose`, `RefreshesEnd`, `EchoesDie`.

The induction theorems of the library take an operator as a parameter, which the installed
provers cannot instantiate. Where induction over numbers was needed, for scans and for sums,
`MinIsLeast` and `MaxIsGreatest` of `QueueLemmas` stand in for it: a counterexample would
have a least one. No proved module uses RECURSIVE.

## 6. Where the code differs from what it says

Runs that TLC refutes, each against a line of the repository:

* `skip_race`: `force_skip_top_track` may dequeue the next song (`commands/music/skip.rs:116-118`).
* `get_or_create`: every join resets the settings of its guild (`guild/operations.rs:65-73`).
* `settings_persist`: a volume of 50% is saved as 0 (`db/guild.rs:210`).
* `downvote`: a downvoted track is still used for recommendations
  (`commands/music/skip.rs:80`, `db/play_log.rs:189`).

Seen while modelling, and kept in the models as the code has them:

* The idle handler of a call that was left removes the guild's new call
  (`handlers/idle.rs:62`), with the message that the bot was idle.
* `queue_query_list_offset` inserts at an offset that may be stale
  (`music/queue.rs:350-390`); `remove` accepts index 0 (`commands/music/remove.rs:55-72`).
* `lib.rs:711` says votes are forgotten also when a user leaves; only
  `TrackEndHandler` forgets them.
* `num_pages` is fixed when a panel opens: after the queue has grown, "next" is offered and
  goes nowhere, and after it has shrunk, a page beyond its end can be shown. A
  panel may keep an old queue after two refreshes that overlap. `calculate_num_pages`
  leaves out the first track while `create_queue_page` shows it, so the last of 7 tracks
  is on no page.
* A downvote reads the id of a metadata row and uses it as the id of a row of the log
  (`lib.rs:593-597`). `get_last_played` with a user and a guild is always empty.
* `toggle_autopause` of a guild without settings does not toggle, and saves a row of guild 0.
* `commands/music_utils.rs:127` uses a call whose join failed.
* `guild/permissions.rs:187` documents that a non-empty allow list denies the rest "unless
  default_allow_all_commands is true"; the lists of roles and users deny it in that
  case, too, and the list of commands is commented out.
* Play: a prefix command's first word is taken for a mode whatever it meant; the link of an
  attachment without the attachment panics (`file.unwrap()`), so does a playlist entry
  without a track; banned domains are never checked ("FIXME: This is borked"), yet a guild
  without settings is an error after joining; a file that is queued behind others is
  announced as playing now; `calculate_time_until_play` panics when the position has
  passed the duration of the metadata; downloads cannot be attached.
* Messages: deleted ones stay in the cache, so that the next clean fails at them and leaves
  its status message; skip caches its reply twice, so that the clean which reaches the
  second copy fails; clean starts with the newest message and stops at the first young one.
* Settings: the role and password commands of a guild with an entry drop what they were
  given; passwords are not stored; welcome and log settings that were removed come back
  from their rows; `update_premium(..).unwrap()` panics without a row. The check of the music
  commands looks at the channel only, so that the deny list of users has no effect, and
  permissions with an id are never rewritten. The vote command ends in
  `panic!("Not implemented")`.
* `crack-testing`: `append_front` appends at the back; `build_display` works on a clone, so
  that the client's display stays empty; concurrent calls can lose tracks (`queue.rs:146`,
  `ensure_queue`).
* Brainfuck: `timeout(..).into_inner().await` takes the future out of its timeout, so that
  nothing ends `+[]`; unbalanced brackets and a pointer off the tape panic.
* Playlists: a deletion whose second statement fails has lost the tracks; adding takes a
  failed query for an absent playlist and makes a second one; deleting asks nobody whose
  playlist it is, and reports success for an id that does not exist.
* Camera enforcement: `new_cams` is declared twice, the second time empty
  (`handlers/voice_chat_stats.rs:289`), and the enforcement is called under `if false`
  (line 119), although the doc of `check_camera_status` says that rules are enforced.

## 7. Not modelled, and the plan

Not modelled for good: formatting and embeds, clients of remote services, command
registration, metrics, the administration commands that make one call of Discord each,
data files. The camera loop, because as written it only sleeps; the voice receiver, because
nothing registers it; the conversation cache of `crack-gpt`, one upsert before a request
that nothing else reads. Of modelled components: volume, seek and repeat of one track, the
menu of a search, roles in permissions, and the reconnects of the gateway.

Left of the plan:

1. Composition of `VoiceSession` and `Playback`: leaving while tracks end, and the panic of
   `TrackEndHandler` when there is no channel any more (`handlers/track_end.rs:159`).
2. `PlayCommand` as a refinement of what `Playback` lets a play do.
3. An abstract sequence that `TrackQueue` implements while it is not disturbed.

Proofs that are next: that `TrackQueue` implements the abstract sequence of point 3, and
`PlayCommand` the queue of `Playback`, once these are stated; both can rest on `Calm` and
`ReplyInv`. Every invariant, action property and refinement that a run checks today has
its theorem.
