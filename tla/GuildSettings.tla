--------------------------- MODULE GuildSettings ---------------------------
(***************************************************************************)
(* The settings of the guilds: the map guild_settings_map in memory, the   *)
(* rows of the table guild_settings, the commands that change the map, the *)
(* cache_ready handler that loads it, and the signal handler that saves it *)
(* at shutdown.  The process may also die without saving, and starts again *)
(* with an empty map.                                                      *)
(*                                                                         *)
(* A setting is kept only as far as the properties tell it apart: the two  *)
(* settings that commands change (autopause, and volume in hundredths) and *)
(* `profile', which stands for the settings that no registered command     *)
(* changes (timeout, premium, prefixes, domains, ...): those of            *)
(* GuildSettings::new, those of the column defaults, or others, that were  *)
(* put into the row.                                                       *)
(***************************************************************************)
EXTENDS Naturals, FiniteSets, Functions

CONSTANTS
    Guilds,    \* the guilds the bot is in
    Stray,     \* GuildId::default(), the id of no guild of the bot
    Levels,    \* arguments of the volume command, in percent
    Loaders    \* cache_ready events that are handled at the same time

ASSUME SettingsAssumption ==
    /\ Stray \notin Guilds
    /\ Levels \subseteq Nat

VARIABLES
    live,      \* guild_settings_map: the guilds that have an entry, and the entry
    stored,    \* the table guild_settings: the ids that have a row, and the row
    creating,  \* guilds for which get_or_create_guild_settings is running
    loader,    \* per cache_ready event: [todo, read], the guilds still to load and
               \* the entry (for one guild, or none) that is to be inserted
    process,   \* "up", "saving" (a signal arrived) or "down"
    snapshot,  \* the clone of the map that the signal handler saves
    todo       \* the guilds of the snapshot that it has still to save

vars == <<live, stored, creating, loader, process, snapshot, todo>>

Ids == Guilds \union {Stray}
Whole == 100
Volumes == Levels \union {Whole} \union {(v \div Whole) * Whole : v \in Levels}
Profiles == {"program", "column", "custom"}
Entry == [id : Ids, autopause : BOOLEAN, volume : Volumes, profile : Profiles]
Row == [autopause : BOOLEAN, volume : Volumes, profile : Profiles]

\* GuildSettings::new, the default of every command.
Fresh(id) == [id |-> id, autopause |-> FALSE, volume |-> Whole, profile |-> "program"]

\* The column defaults of the table.
EmptyRow == [autopause |-> FALSE, volume |-> Whole, profile |-> "column"]

\* Mutant: the stored volume is taken for a percentage.
LoadedInPercent(id, row) ==
    [id |-> id, autopause |-> row.autopause, volume |-> row.volume \div Whole,
     profile |-> row.profile]

\* From<GuildSettingsRead>, what get_or_create makes of a row.
Loaded(id, row) ==
    [id |-> id, autopause |-> row.autopause, volume |-> row.volume,
     profile |-> row.profile]

\* write_settings: the volume is cast to an integer.
Saved(entry) ==
    [autopause |-> entry.autopause, volume |-> (entry.volume \div Whole) * Whole,
     profile |-> entry.profile]

\* The map with an entry for g.
With(map, g, entry) == [h \in DOMAIN map \union {g} |-> IF h = g THEN entry ELSE map[h]]

EmptyMap == [g \in {} |-> EmptyRow]

\* Mutant: ON CONFLICT DO UPDATE sets every column.
UpsertOverwrites(id) == With(stored, id, EmptyRow)

\* GuildEntity::get_or_create: an existing row keeps its settings.
Upsert(id) == IF id \in DOMAIN stored THEN stored ELSE With(stored, id, EmptyRow)

Resting == [todo |-> {}, read |-> EmptyMap]

\* A database holds rows that an earlier life could have written.
Init ==
    /\ \E ids \in SUBSET Ids : stored \in [ids -> {row \in Row : row.volume % Whole = 0}]
    /\ live = EmptyMap
    /\ creating = {}
    /\ loader = [l \in Loaders |-> Resting]
    /\ process = "up"
    /\ snapshot = EmptyMap
    /\ todo = {}

Running == process # "down"

-----------------------------------------------------------------------------
(* Commands, each of which holds the map's write lock for its change *)

\* Mutant: the entry is inserted, not modified.
ToggleReplaces(g) ==
    /\ Running
    /\ live' = With(live, g, [Fresh(g) EXCEPT !.autopause =
                                 g \notin DOMAIN live \/ ~live[g].autopause])
    /\ UNCHANGED <<stored, creating, loader, process, snapshot, todo>>

\* autopause: toggle_autopause.  Without an entry the default one is inserted,
\* which is not toggled and carries the default guild id.
ToggleAutopause(g) ==
    /\ Running
    /\ live' = IF g \in DOMAIN live
               THEN [live EXCEPT ![g].autopause = ~@]
               ELSE With(live, g, Fresh(Stray))
    /\ UNCHANGED <<stored, creating, loader, process, snapshot, todo>>

\* Mutant: the argument is not divided by 100.
SetVolumeRaw(g, level) ==
    /\ Running
    /\ live' = IF g \in DOMAIN live
               THEN [live EXCEPT ![g].volume = level * Whole]
               ELSE With(live, g, [Fresh(g) EXCEPT !.volume = level * Whole])
    /\ UNCHANGED <<stored, creating, loader, process, snapshot, todo>>

\* volume with an argument.
SetVolume(g, level) ==
    /\ Running
    /\ live' = IF g \in DOMAIN live
               THEN [live EXCEPT ![g].volume = level]
               ELSE With(live, g, [Fresh(g) EXCEPT !.volume = level])
    /\ UNCHANGED <<stored, creating, loader, process, snapshot, todo>>

\* volume without an argument, and joining a channel (set_global_handlers): the
\* first half of get_or_create_guild_settings reads the map.
GetOrCreate(g) ==
    /\ Running /\ g \notin creating
    /\ creating' = creating \union {g}
    /\ UNCHANGED <<live, stored, loader, process, snapshot, todo>>

\* The second half: the argument of unwrap_or is evaluated in any case, and
\* inserts fresh settings whatever was read.
Create(g) ==
    /\ Running /\ g \in creating
    /\ creating' = creating \ {g}
    /\ live' = With(live, g, Fresh(g))
    /\ UNCHANGED <<stored, loader, process, snapshot, todo>>

-----------------------------------------------------------------------------
(* cache_ready: load_guilds_settings_cache_ready *)

CacheReady(l) ==
    /\ Running /\ loader[l] = Resting
    /\ \E guilds \in SUBSET Guilds \ {{}} : loader' = [loader EXCEPT ![l].todo = guilds]
    /\ UNCHANGED <<live, stored, creating, process, snapshot, todo>>

\* The row is created or read.
LoadRow(l, g) ==
    /\ Running /\ loader[l].read = EmptyMap /\ g \in loader[l].todo
    /\ stored' = Upsert(g)
    /\ loader' = [loader EXCEPT ![l] =
                    [todo |-> @.todo \ {g},
                     read |-> With(EmptyMap, g, Loaded(g, stored'[g]))]]
    /\ UNCHANGED <<live, creating, process, snapshot, todo>>

\* The database answers with an error: unwrap panics and the event is over.
LoadPanics(l) ==
    /\ Running /\ loader[l].read = EmptyMap /\ loader[l].todo # {}
    /\ loader' = [loader EXCEPT ![l] = Resting]
    /\ UNCHANGED <<live, stored, creating, process, snapshot, todo>>

\* What was read replaces the entry of the map.
LoadInserts(l) ==
    /\ Running
    /\ \E g \in DOMAIN loader[l].read : live' = With(live, g, loader[l].read[g])
    /\ loader' = [loader EXCEPT ![l].read = EmptyMap]
    /\ UNCHANGED <<stored, creating, process, snapshot, todo>>

-----------------------------------------------------------------------------
(* The signal handler of poise_framework's client, and the process *)

\* A signal: the map is cloned under its read lock.
Signal ==
    /\ process = "up"
    /\ process' = "saving"
    /\ snapshot' = live
    /\ todo' = DOMAIN live
    /\ UNCHANGED <<live, stored, creating, loader>>

\* GuildSettings::save: the row is created if the entry's id has none, then
\* written.  The entry says which row it is.
Save(g) ==
    /\ process = "saving" /\ g \in todo
    /\ stored' = With(Upsert(snapshot[g].id), snapshot[g].id, Saved(snapshot[g]))
    /\ todo' = todo \ {g}
    /\ UNCHANGED <<live, creating, loader, process, snapshot>>

\* Mutant: the error ends the handler's task, and the process goes on without it.
SaveFailsStops(g) ==
    /\ process = "saving" /\ g \in todo
    /\ process' = "up" /\ snapshot' = EmptyMap /\ todo' = {}
    /\ UNCHANGED <<live, stored, creating, loader>>

\* One of the statements of save fails: the error is logged, the next guild follows.
SaveFails(g) ==
    /\ process = "saving" /\ g \in todo
    /\ stored' \in {stored, Upsert(snapshot[g].id)}
    /\ todo' = todo \ {g}
    /\ UNCHANGED <<live, creating, loader, process, snapshot>>

\* exit(0), and the end of a process that saves nothing.  Memory is lost.
Dies ==
    /\ process' = "down"
    /\ live' = EmptyMap /\ creating' = {}
    /\ loader' = [l \in Loaders |-> Resting]
    /\ snapshot' = EmptyMap /\ todo' = {}
    /\ UNCHANGED stored

Exit == process = "saving" /\ todo = {} /\ Dies

Crash == Running /\ Dies

Restart ==
    /\ process = "down" /\ process' = "up"
    /\ UNCHANGED <<live, stored, creating, loader, snapshot, todo>>

-----------------------------------------------------------------------------
Command(g) ==
    \/ ToggleAutopause(g)
    \/ \E level \in Levels : SetVolume(g, level)
    \/ GetOrCreate(g)

Load(l) ==
    \/ \E g \in Guilds : LoadRow(l, g)
    \/ LoadPanics(l) \/ LoadInserts(l)

SaveEach == \E g \in Guilds : Save(g) \/ SaveFails(g)

Next ==
    \/ \E g \in Guilds : Command(g) \/ Create(g)
    \/ \E l \in Loaders : CacheReady(l) \/ Load(l)
    \/ Signal \/ SaveEach \/ Exit \/ Crash \/ Restart

Spec == Init /\ [][Next]_vars

\* The signal handler is a task of its own, and the runtime runs every task that
\* can go on; nothing makes a command, an event or a signal happen.
Fairness == WF_vars(SaveEach) /\ WF_vars(Exit)

FairSpec == Spec /\ Fairness

-----------------------------------------------------------------------------
\* The state is well formed: entries and rows hold legal values, and memory is
\* empty while there is no process.
TypeOK ==
    /\ DOMAIN live \subseteq Guilds
    /\ \A g \in DOMAIN live : live[g] \in Entry
    /\ DOMAIN stored \subseteq Ids
    /\ \A id \in DOMAIN stored : stored[id] \in Row
    /\ creating \subseteq Guilds
    /\ \A l \in Loaders :
         /\ loader[l].todo \subseteq Guilds
         /\ DOMAIN loader[l].read \subseteq Guilds
         /\ \A g \in DOMAIN loader[l].read : loader[l].read[g] \in Entry
    /\ process \in {"up", "saving", "down"}
    /\ DOMAIN snapshot \subseteq Guilds /\ todo \subseteq DOMAIN snapshot
    /\ \A g \in DOMAIN snapshot : snapshot[g] \in Entry
    /\ process = "down" => live = EmptyMap /\ creating = {} /\ todo = {}

\* An entry that names another guild's row is one that toggle_autopause made up:
\* the settings that were stored for a guild are never written to another row.
StrayEntriesAreFresh ==
    \A g \in DOMAIN live :
      live[g].id # g => live[g].id = Stray /\ live[g].profile = "program"

\* A row that the signal handler is done with stays as it is: cache_ready events
\* that still run upsert it, and no entry of another guild names it, so the next
\* life finds the row that was saved or, if that failed, the one before.
SavedRowsStay ==
    [][\A g \in DOMAIN stored \intersect (DOMAIN snapshot \ todo) :
         stored'[g] = stored[g]]_vars
=============================================================================
