-------------------------- MODULE MCGuildSettings --------------------------
(***************************************************************************)
(* Model checking of GuildSettings: what the commands of the present life  *)
(* did to a guild's entry, a bound on their number, and the properties     *)
(* that speak of them.                                                     *)
(***************************************************************************)
EXTENDS GuildSettings, TLC

CONSTANTS
    g1, g2, stray, l1,
    MaxCommands        \* bound: how many commands are run, in all lives

TwoGuilds == {g1, g2}
OneLoader == {l1}
HalfVolume == {50}
Symmetry == Permutations(TwoGuilds)

VARIABLES
    commands,  \* how many commands were run
    touched,   \* guilds whose entry a command of this life has changed
    made       \* guilds whose entry a command of this life has made or replaced

mcvars == <<vars, commands, touched, made>>

\* A first life finds no row, or one with settings of the guild's own.
MCInit ==
    /\ Init
    /\ DOMAIN stored \subseteq Guilds
    /\ \A g \in DOMAIN stored :
         stored[g] = [autopause |-> TRUE, volume |-> Whole, profile |-> "custom"]
    /\ commands = 0 /\ touched = {} /\ made = {}

\* A command changes the entry of g; it makes the entry if there was none.
Commanded(g) ==
    /\ commands' = commands + 1
    /\ touched' = touched \union {g}
    /\ made' = IF g \in DOMAIN live THEN made ELSE made \union {g}

MCNext ==
    \/ \E g \in Guilds :
         /\ commands < MaxCommands
         /\ \/ /\ ToggleAutopause(g) \/ \E level \in Levels : SetVolume(g, level)
               /\ Commanded(g)
            \/ GetOrCreate(g) /\ commands' = commands + 1 /\ UNCHANGED <<touched, made>>
    \/ \E g \in Guilds :
         /\ Create(g)
         /\ touched' = touched \union {g} /\ made' = made \union {g}
         /\ UNCHANGED commands
    \/ /\ \/ \E l \in Loaders : CacheReady(l) \/ Load(l)
          \/ Signal \/ SaveEach \/ Restart
       /\ UNCHANGED <<commands, touched, made>>
    \/ /\ Exit \/ Crash
       /\ touched' = {} /\ made' = {}
       /\ UNCHANGED commands

MCSpec == MCInit /\ [][MCNext]_mcvars
MCFairSpec == MCSpec /\ Fairness

-----------------------------------------------------------------------------
\* A guild that no command touched keeps the row it has, through loads, saves,
\* failed saves, crashes and restarts, also where they overlap.
UntouchedRowsStay ==
    [][\A g \in Guilds :
         g \in DOMAIN stored \ touched => stored'[g] = stored[g]]_mcvars

\* The settings that no command changes are lost only if, in this life, a
\* command made or replaced the guild's entry.
ProfileLostOnlyIfMade ==
    [][\A g \in DOMAIN stored \intersect Guilds :
         stored'[g].profile # stored[g].profile => g \in made]_mcvars

\* A shutdown ends, whatever guilds cannot be saved.
ShutdownEnds == process = "saving" ~> process = "down"

-----------------------------------------------------------------------------
(* What the documentation says, and the runs refute *)

\* get_or_create_guild_settings: "Get the guild settings for a guild, creating
\* them if they don't exist" - settings that exist stay as they are.
GetOrCreateKeeps ==
    [][\A g \in Guilds :
         g \in DOMAIN live /\ Create(g) => live'[g] = live[g]]_mcvars

\* load_guilds_settings_cache_ready: "allows the bot to persist settings across
\* restarts" - what is saved of an entry is what the next life loads.
SettingsPersist ==
    [][\A g \in Guilds :
         Save(g) => Loaded(snapshot[g].id, stored'[snapshot[g].id]) = snapshot[g]]_mcvars
=============================================================================
