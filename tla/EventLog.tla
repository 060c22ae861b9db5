------------------------------ MODULE EventLog ------------------------------
(***************************************************************************)
(* The event log: handle_event gets every event of the gateway in a task   *)
(* of its own, writes it to the log file and announces it in a channel of  *)
(* the guild that the settings choose by the kind of the event.  What the  *)
(* bot announces is a message, and comes back to it as an event.           *)
(*                                                                         *)
(* An event is the sequence of steps that its arm of handle_event takes,   *)
(* each of which may fail and then ends the arm; the texts are left out.   *)
(* Events of one kind differ in nothing else, so that a task keeps only    *)
(* its steps and the route of its kind.                                    *)
(***************************************************************************)
EXTENDS Discord

CONSTANT MaxEvents   \* bound: events that the bot did not cause itself

VARIABLES
    channels,   \* guild_settings_map: per guild the log channels and ignored_channels
    logRows,    \* the same in the database
    handling,   \* the tasks of handle_event
    ownPosts,   \* announcements that have not come back as events yet
    arrived     \* events so far

eventVars == <<channels, logRows, handling, ownPosts, arrived>>

\* DEFAULT_GLOBAL_LOG_CHANNEL, a channel of the bot's own guild.
Global == "global"

\* Tables for different kinds of events, in one.
Merged(tables) ==
    [k \in UNION {DOMAIN f : f \in tables} |-> (CHOOSE f \in tables : k \in DOMAIN f)[k]]

-----------------------------------------------------------------------------
(* The functions that announce, by the names of their events *)

\* log_event!: the event is written, then its channel is chosen.
Logged(steps) == <<"write", "route">> \o steps

\* get_guild_name, then send_log_embed_thumb.
Announce == <<"name", "send">>

\* log_unimplemented_event asks for the guild's name, and sends nothing.
Unimplemented == <<"name">>

ByAnnouncing(kinds) == [k \in kinds |-> Announce]

IntegrationLogs ==
    ByAnnouncing({"integration_update", "integration_delete", "integration_create"})

InviteLogs == ByAnnouncing({"interaction_create", "invite_delete", "invite_create"})

StickerAndEventLogs ==
    ByAnnouncing({"guild_stickers_update", "guild_scheduled_event_delete",
                  "guild_scheduled_event_user_add"})

ScheduledEventLogs ==
    ByAnnouncing({"guild_scheduled_event_user_remove", "guild_scheduled_event_update"})

GuildLogs == ByAnnouncing({"guild_create", "guild_delete"})

RoleAndRuleLogs ==
    ByAnnouncing({"guild_role_create", "guild_role_delete", "auto_mod_rule_update"})

AutoModLogs ==
    ByAnnouncing({"guild_scheduled_event_create", "auto_mod_rule_create",
                  "auto_mod_action_execution", "command_permissions_update"})

ChannelAndUserLogs == ByAnnouncing({"channel_delete", "message_delete", "user_update"})

ReactionLogs == ByAnnouncing({"reaction_remove", "reaction_add"})

\* A third look at the author, that of the update itself.
MessageUpdateLog == [message_update |-> <<"author">> \o Announce]

BanLogs == ByAnnouncing({"guild_ban_addition", "guild_ban_removal"})

RoleUpdateLog == ByAnnouncing({"guild_role_update"})

MemberLogs == ByAnnouncing({"guild_member_removal", "guild_member_addition"})

PresenceLog == ByAnnouncing({"presence_update"})

VoiceStatusLog == ByAnnouncing({"voice_channel_status_update"})

\* The user is asked for by name, and again for the differences of the states.
VoiceStateLog == [voice_state_update |-> <<"user", "user">> \o Announce]

TypingNoop == [typing_start |-> <<>>]

MessageLog == [message |-> Announce]

Logs ==
    Merged({IntegrationLogs, InviteLogs, StickerAndEventLogs, ScheduledEventLogs, GuildLogs,
            RoleAndRuleLogs, AutoModLogs, ChannelAndUserLogs, ReactionLogs, MessageUpdateLog,
            BanLogs, RoleUpdateLog, MemberLogs, VoiceStatusLog, VoiceStateLog, TypingNoop,
            MessageLog})

-----------------------------------------------------------------------------
(* The arms of handle_event *)

\* Arms that are the macro log_event! and nothing else.
ByLog(kinds) == [k \in kinds |-> Logged(Logs[k])]
NotImplemented(kinds) == [k \in kinds |-> Logged(Unimplemented)]
FileOnly(kinds) == [k \in kinds |-> <<"write">>]

\* The feature ignore-presence-log is on by default.
PresenceArm == [presence_update |-> <<>>]

MemberArms == ByLog({"guild_member_addition", "guild_member_removal", "voice_state_update"})

\* Mutant: messages of bots are announced as well.
MessageArmEchoes == [message |-> <<"user">> \o Logged(Logs["message"])]

\* Who am I?  An own message is cached; messages of bots go no further.
MessageArm == [message |-> <<"user", "author">> \o Logged(Logs["message"])]

TypingArms == ByLog({"typing_start", "command_permissions_update"})

AutoModArms == Merged({
    ByLog({"auto_mod_action_execution", "auto_mod_rule_create", "auto_mod_rule_update"}),
    NotImplemented({"auto_mod_rule_delete"})})

ChannelArms == Merged({
    ByLog({"channel_delete"}),
    NotImplemented({"category_create", "category_delete", "channel_pins_update",
                    "channel_update"})})

BanArms == ByLog({"guild_ban_addition", "guild_ban_removal"})

\* The settings are read from the database, or made there, and replace those in memory.
GuildCreateArm == [guild_create |-> <<"reload">> \o Logged(Logs["guild_create"])]

GuildDeleteArm == ByLog({"guild_delete"})

EmojiArms == NotImplemented({"guild_emojis_update", "guild_integrations_update"})

\* The announcement comes first, in a channel chosen without get_channel_id.
MemberUpdateArm == [guild_member_update |-> <<"tell", "write">>]

RoleArms == Merged({
    FileOnly({"guild_members_chunk"}),
    ByLog({"guild_role_create", "guild_role_delete", "guild_role_update"})})

ScheduledEventArms ==
    ByLog({"guild_scheduled_event_create", "guild_scheduled_event_update",
           "guild_scheduled_event_delete", "guild_scheduled_event_user_add",
           "guild_scheduled_event_user_remove", "guild_stickers_update"})

GuildArms ==
    Merged({FileOnly({"guild_audit_log_entry_create"}), NotImplemented({"guild_update"})})

IntegrationArms == Merged({
    ByLog({"integration_create", "integration_update", "integration_delete",
           "interaction_create", "invite_create", "invite_delete", "message_delete"}),
    FileOnly({"message_delete_bulk"})})

\* Messages of bots, old or new, go no further.
MessageUpdateArm ==
    [message_update |-> <<"author">> \o Logged(Logs["message_update"])]

ReactionArms ==
    Merged({ByLog({"reaction_add", "reaction_remove"}), FileOnly({"reaction_remove_all"})})

ThreadArms ==
    FileOnly({"ready", "resume", "stage_instance_create", "stage_instance_delete",
              "stage_instance_update", "thread_create", "thread_delete", "thread_list_sync",
              "thread_member_update", "thread_members_update", "thread_update"})

\* unwrap panics if the update names no member.
UserUpdateArm == [user_update |-> <<"user">> \o Logged(Logs["user_update"])]

LastArms == Merged({
    FileOnly({"voice_server_update", "webhook_update"}),
    ByLog({"voice_channel_status_update"}),
    [k \in {"cache_ready", "other"} |-> <<>>]})

Arms ==
    Merged({PresenceArm, MemberArms, MessageArm, TypingArms, AutoModArms, ChannelArms,
            BanArms, GuildCreateArm, GuildDeleteArm, EmojiArms, MemberUpdateArm, RoleArms,
            ScheduledEventArms, GuildArms, IntegrationArms, MessageUpdateArm, ReactionArms,
            ThreadArms, UserUpdateArm, LastArms})

\* Kinds of events that the settings' channel for the server is for.
ServerKinds ==
    DOMAIN Merged({BanArms, ScheduledEventArms, GuildCreateArm, GuildDeleteArm, EmojiArms,
                   MemberUpdateArm, RoleArms}) \union {"guild_update"}

\* get_log_channel_type_fe: which of the settings' channels is for events of a kind.
Route(kind) ==
    CASE kind \in {"presence_update", "guild_audit_log_entry_create",
                   "voice_channel_status_update", "other"} -> "nowhere"
      [] kind \in DOMAIN MemberLogs -> "joinLeave"
      [] kind \in ServerKinds -> "server"
      [] OTHER -> "all"

\* The channel of a route, or the one for all events, or none.
Target(setting, route) ==
    CASE route = "nowhere" -> None
      [] route # "nowhere" /\ setting[route] # None -> setting[route]
      [] OTHER -> setting.all

\* Mutant: ignored_channels is not looked at.
GetChannelIdUnfiltered(g, route) ==
    IF g \in DOMAIN channels THEN Target(channels[g], route) ELSE Global

\* get_channel_id: no channel, or an ignored one, is an error; a guild whose settings
\* are not loaded is announced in the bot's own channel.
GetChannelId(g, route) ==
    IF g \notin DOMAIN channels THEN Global
    ELSE LET target == Target(channels[g], route)
         IN  IF target \in channels[g].ignored THEN None ELSE target

-----------------------------------------------------------------------------
(* Settings and tasks *)

Channel == Channels \union {None}
Setting == [all : Channel, server : Channel, joinLeave : Channel, ignored : SUBSET Channels]

\* GuildSettings::new has no log channels, and ignores one of another guild.
FreshSetting == [all |-> None, server |-> None, joinLeave |-> None, ignored |-> {}]

AtRest == [guild |-> None, route |-> "nowhere", steps |-> <<>>, bot |-> FALSE,
           channel |-> None, barred |-> {}]

EventInit ==
    /\ channels = <<>>
    /\ logRows \in [Guilds -> Setting]
    /\ handling = [t \in Tasks |-> AtRest]
    /\ ownPosts = [g \in Guilds |-> 0]
    /\ arrived = 0

Ignored(map, g) == IF g \in DOMAIN map THEN map[g].ignored ELSE {}

\* A task that gets an event of some kind.
Handle(t, g, kind, bot) ==
    handling' = [handling EXCEPT ![t] =
      IF Arms[kind] = <<>> THEN AtRest
      ELSE [guild |-> g, route |-> Route(kind), steps |-> Arms[kind], bot |-> bot,
            channel |-> None, barred |-> Ignored(channels, g)]]

\* Something happens in a guild.
Arrive(t, g) ==
    /\ handling[t] = AtRest /\ arrived < MaxEvents
    /\ \E kind \in DOMAIN Arms, bot \in BOOLEAN : Handle(t, g, kind, bot)
    /\ arrived' = arrived + 1
    /\ UNCHANGED <<channels, logRows, ownPosts>>

\* Discord tells the bot of its own message.
Echo(t, g) ==
    /\ handling[t] = AtRest /\ ownPosts[g] > 0
    /\ ownPosts' = [ownPosts EXCEPT ![g] = @ - 1]
    /\ Handle(t, g, "message", TRUE)
    /\ UNCHANGED <<channels, logRows, arrived>>

\* A task goes on to its next step, or ends after its last one.
After(task) ==
    IF Len(task.steps) = 1 THEN AtRest ELSE [task EXCEPT !.steps = Tail(@)]

Steps(t) == handling[t].steps
At(t, step) == Steps(t) # <<>> /\ Head(Steps(t)) = step
Proceed(t) == handling' = [handling EXCEPT ![t] = After(@)]
End(t) == handling' = [handling EXCEPT ![t] = AtRest]

\* EventLogAsync: the line is written under the file's lock.
WriteLog(t) ==
    /\ At(t, "write") /\ Proceed(t)
    /\ UNCHANGED <<channels, logRows, ownPosts, arrived>>

ChooseChannel(t) ==
    /\ At(t, "route")
    /\ LET channel == GetChannelId(handling[t].guild, handling[t].route)
       IN  IF channel = None THEN End(t)
           ELSE handling' = [handling EXCEPT ![t] = After([@ EXCEPT !.channel = channel])]
    /\ UNCHANGED <<channels, logRows, ownPosts, arrived>>

\* Names of guilds and users come from the cache or from Discord.
LookUp(t) ==
    /\ At(t, "name") \/ At(t, "user")
    /\ Proceed(t)
    /\ UNCHANGED <<channels, logRows, ownPosts, arrived>>

\* The filter of messages by their author.
PassAuthor(t) ==
    /\ At(t, "author")
    /\ IF handling[t].bot THEN End(t) ELSE Proceed(t)
    /\ UNCHANGED <<channels, logRows, ownPosts, arrived>>

\* A message in the guild; the bot's own channel is in another one.
Post(t, g, channel) ==
    /\ ownPosts' = IF channel = Global THEN ownPosts ELSE [ownPosts EXCEPT ![g] = @ + 1]
    /\ Proceed(t)

SendLog(t) ==
    /\ At(t, "send") /\ Post(t, handling[t].guild, handling[t].channel)
    /\ UNCHANGED <<channels, logRows, arrived>>

\* guild_member_update: the channel for joins is read and used without another look.
Tell(t) ==
    /\ At(t, "tell")
    /\ LET g == handling[t].guild
           channel == IF g \in DOMAIN channels THEN channels[g].joinLeave ELSE None
       IN  IF channel = None THEN Proceed(t) /\ UNCHANGED ownPosts ELSE Post(t, g, channel)
    /\ UNCHANGED <<channels, logRows, arrived>>

\* The step fails: a write, a request, a query or an unwrap.
StepFails(t) ==
    /\ Steps(t) # <<>> /\ Head(Steps(t)) \notin {"route", "author"}
    /\ End(t)
    /\ UNCHANGED <<channels, logRows, ownPosts, arrived>>

\* What a guild's settings become while events are handled.
Settle(g, setting, tasks) ==
    /\ channels' = Put(channels, g, setting)
    /\ handling' = [t \in Tasks |->
         IF tasks[t].guild = g THEN [tasks[t] EXCEPT !.barred = @ \intersect setting.ignored]
                               ELSE tasks[t]]

ReloadGuild(t) ==
    /\ At(t, "reload")
    /\ Settle(handling[t].guild, logRows[handling[t].guild],
              [handling EXCEPT ![t] = After(@)])
    /\ UNCHANGED <<logRows, ownPosts, arrived>>

\* cache_ready loads the row; a command that joins a channel makes fresh settings.
SettingsChange(g) ==
    /\ \E setting \in {logRows[g], FreshSetting} :
         /\ Put(channels, g, setting) # channels
         /\ Settle(g, setting, handling)
    /\ UNCHANGED <<logRows, ownPosts, arrived>>

HandlerStep(t) ==
    WriteLog(t) \/ ChooseChannel(t) \/ LookUp(t) \/ PassAuthor(t) \/ SendLog(t) \/ Tell(t)
      \/ ReloadGuild(t) \/ StepFails(t)

EventNext ==
    \/ \E t \in Tasks :
         \/ \E g \in Guilds : Arrive(t, g) \/ Echo(t, g)
         \/ HandlerStep(t)
    \/ \E g \in Guilds : SettingsChange(g)

\* A handler's task runs on, and Discord delivers its events.
Delivery(t) == HandlerStep(t) \/ \E g \in Guilds : Echo(t, g)

EventSpec == EventInit /\ [][EventNext]_eventVars /\ \A t \in Tasks : WF_eventVars(Delivery(t))

-----------------------------------------------------------------------------
StepNames == {"write", "route", "name", "send", "author", "user", "reload", "tell"}
Routes == {"nowhere", "joinLeave", "server", "all"}

\* The tasks, the settings and the counters of the event log are well formed, and no task
\* sends an announcement before its channel was chosen.
EventTypeOK ==
    /\ DOMAIN channels \subseteq Guilds
    /\ \A g \in DOMAIN channels : channels[g] \in Setting
    /\ logRows \in [Guilds -> Setting]
    /\ \A t \in Tasks :
         /\ handling[t].guild \in Guilds \union {None}
         /\ handling[t].route \in Routes
         /\ handling[t].steps \in Seq(StepNames)
         /\ handling[t].bot \in BOOLEAN
         /\ handling[t].channel \in Channel \union {Global}
         /\ handling[t].barred \subseteq Channels
         /\ handling[t] # AtRest => Steps(t) # <<>>
         /\ At(t, "send") => handling[t].channel # None
    /\ ownPosts \in [Guilds -> Nat] /\ arrived \in Nat

\* Announcements do not breed announcements: once nothing happens in the guilds any
\* more, the bot has seen all its own messages and falls silent, whatever fails.
EchoesDie ==
    <>[](/\ \A g \in Guilds : ownPosts[g] = 0
         /\ \A t \in Tasks : handling[t] = AtRest)

\* A channel that has been in ignored_channels since an event arrived is not chosen for
\* its announcement, although settings are replaced while handlers run; the update of a
\* member, which does not call get_channel_id, is the exception.
IgnoredStaysQuiet == \A t \in Tasks : handling[t].channel \notin handling[t].barred
=============================================================================
