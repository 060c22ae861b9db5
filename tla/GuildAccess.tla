---------------------------- MODULE GuildAccess ----------------------------
(***************************************************************************)
(* Who may use the bot in a guild: the users an administrator authorises,  *)
(* and the permissions of the music commands (allowed and denied users and *)
(* channels), in memory and in the tables authorized_users,                *)
(* permission_settings and command_channel.                                *)
(*                                                                         *)
(* One guild and one command, "music", the only one with permissions.      *)
(* Roles are checked and edited as users are and nothing sets them, so     *)
(* that they are left out; so are permission levels, which are always 0.   *)
(***************************************************************************)
EXTENDS Discord

CONSTANTS
    Members,            \* users of the guild
    MaxPermissionRows   \* bound: rows of permission_settings

VARIABLES
    access,           \* GuildSettings of the guild, or none: authorized_users, and the
                      \* entry of "music" in command_settings, as a set of at most one
    authorizedRows,   \* table authorized_users
    permissionRows,   \* table permission_settings, by id
    commandRows,      \* table command_channel: the channel's permission_settings_id
    saving,           \* the save that a command ends with: users still to write
    storing,          \* the save of a CommandChannel, between its two statements
    revoked           \* history: users deauthorised since they were last authorised

accessVars ==
    <<access, authorizedRows, permissionRows, commandRows, saving, storing, revoked>>

-----------------------------------------------------------------------------
(* GenericPermissionSettings *)

\* The lists as they are in memory and, as arrays, in a row.
Permissions == [allowAll : BOOLEAN, allowed : SUBSET Members, denied : SUBSET Members,
                allowedIn : SUBSET Channels, deniedIn : SUBSET Channels]

\* GenericPermissionSettings::default.
NoRestriction ==
    [allowAll |-> TRUE, allowed |-> {}, denied |-> {}, allowedIn |-> {}, deniedIn |-> {}]

\* What the arrays of a row say is what the sets said that were written.
ReadBack(row) == row

\* is_role_allowed and is_user_allowed: an allow list shuts out all others, and being
\* denied counts more than being allowed.
IsUserAllowed(p, user) ==
    /\ user \notin p.denied
    /\ IF p.allowed = {} THEN p.allowAll ELSE user \in p.allowed

IsChannelAllowed(p, channel) ==
    /\ channel \notin p.deniedIn
    /\ p.allowedIn = {} \/ channel \in p.allowedIn

\* add_ and remove_ of each list, and clear.
Edited(p, list, members) == [p EXCEPT ![list] = members]

\* The music channel becomes the only one that is allowed.
WithMusicChannel(p, channel) ==
    Edited(Edited(p, "allowedIn", {channel}), "deniedIn", {})

\* add_denied_music_user; entries of the allow list stay.
WithDeniedUser(p, user) == Edited(p, "denied", p.denied \union {user})

\* get_music_permissions, or the default.
Music(a) == IF a.music = {} THEN NoRestriction ELSE CHOOSE p \in a.music : TRUE

\* get_music_channel: some allowed channel.
MusicChannels(a) == UNION {p.allowedIn : p \in a.music}

\* check_music_permissions, called by command_check_music: no settings, no restriction.
\* No command of the bot names command_check_music as its check.
CheckMusicPermissions(user) ==
    access = <<>> \/ \A p \in access[1].music : IsUserAllowed(p, user)

\* cmd_check_music, the check of every music command: it looks at the channel only.
\* is_authorized_music is called without a role and lets everybody pass.
CmdCheckMusic(channel, isHuman) ==
    /\ isHuman
    /\ access # <<>> =>
         LET allowed == MusicChannels(access[1])
         IN  allowed # {} => channel = CHOOSE c \in allowed : TRUE

-----------------------------------------------------------------------------
FreshAccess == [authorized |-> {}, music |-> {}]
Idle == {}

AccessInit ==
    /\ access = <<>>
    /\ authorizedRows = {}
    /\ permissionRows = <<>>
    /\ commandRows = <<>>
    /\ saving = Idle
    /\ storing = <<>>
    /\ revoked = {}

Present == IF access = <<>> THEN FreshAccess ELSE access[1]

\* authorize: the entry is changed or made under the map's lock, and a copy is saved.
Authorize(user) ==
    /\ saving = Idle
    /\ access' = <<[Present EXCEPT !.authorized = @ \union {user}]>>
    /\ saving' = Present.authorized \union {user}
    /\ revoked' = revoked \ {user}
    /\ UNCHANGED <<authorizedRows, permissionRows, commandRows, storing>>

\* write_settings: one upsert per user; nobody's row is deleted.
WriteAuthorized ==
    /\ \E user \in saving :
         /\ authorizedRows' = authorizedRows \union {user}
         /\ saving' = saving \ {user}
    /\ UNCHANGED <<access, permissionRows, commandRows, storing, revoked>>

\* A statement fails: the command ends with the error, and the entry keeps the user.
WriteAuthorizedFails ==
    /\ saving # Idle /\ saving' = Idle
    /\ UNCHANGED <<access, authorizedRows, permissionRows, commandRows, storing, revoked>>

\* deauthorize changes memory only.
Deauthorize(user) ==
    /\ access' = <<[Present EXCEPT !.authorized = @ \ {user}]>>
    /\ revoked' = revoked \union {user}
    /\ UNCHANGED <<authorizedRows, permissionRows, commandRows, saving, storing>>

\* music_denied_user; the permissions are not part of what is saved.
DenyMusicUser(user) ==
    /\ saving = Idle /\ saving' = Present.authorized
    /\ access' = <<[Present EXCEPT !.music = {WithDeniedUser(Music(Present), user)}]>>
    /\ UNCHANGED <<authorizedRows, permissionRows, commandRows, storing, revoked>>

\* music_channel: fresh settings are inserted without the channel.
SetMusicChannel(channel) ==
    /\ saving = Idle /\ saving' = Present.authorized
    /\ access' = IF access = <<>> THEN <<FreshAccess>>
                 ELSE <<[access[1] EXCEPT !.music = {WithMusicChannel(Music(access[1]), channel)}]>>
    /\ UNCHANGED <<authorizedRows, permissionRows, commandRows, storing, revoked>>

\* load_command_settings joins the two tables and keeps one row for each command.
CommandSettings ==
    LET joined == {ReadBack(permissionRows[commandRows[c]]) : c \in DOMAIN commandRows}
    IN  IF joined = {} THEN {{}} ELSE {{p} : p \in joined}

\* Mutant: the users are read back from their table.
ReloadAccessWithUsers ==
    /\ \E music \in CommandSettings :
         access' = <<[authorized |-> authorizedRows, music |-> music]>>
    /\ UNCHANGED <<authorizedRows, permissionRows, commandRows, saving, storing, revoked>>

\* GuildCreate and cache_ready: From<GuildSettingsRead> leaves authorized_users empty.
ReloadAccess ==
    /\ \E music \in CommandSettings : access' = <<[authorized |-> {}, music |-> music]>>
    /\ UNCHANGED <<authorizedRows, permissionRows, commandRows, saving, storing, revoked>>

-----------------------------------------------------------------------------
(* CommandChannel::save *)

\* Permissions without an id are inserted first.
InsertPermissions(channel) ==
    /\ storing = <<>> /\ Len(permissionRows) < MaxPermissionRows
    /\ permissionRows' = Append(permissionRows, Music(Present))
    /\ storing' = <<channel, Len(permissionRows) + 1>>
    /\ UNCHANGED <<access, authorizedRows, commandRows, saving, revoked>>

\* The permissions have an id: they are not written, whatever has changed in them.
KeepPermissions(channel, id) ==
    /\ storing = <<>> /\ id \in DOMAIN permissionRows
    /\ storing' = <<channel, id>>
    /\ UNCHANGED <<access, authorizedRows, permissionRows, commandRows, saving, revoked>>

\* The channel's row is inserted, or refers to the new permissions from now on.
InsertCommandChannel ==
    /\ storing # <<>> /\ storing' = <<>>
    /\ commandRows' = Put(commandRows, storing[1], storing[2])
    /\ UNCHANGED <<access, authorizedRows, permissionRows, saving, revoked>>

\* The error leaves permissions to which no channel refers.
InsertCommandChannelFails ==
    /\ storing # <<>> /\ storing' = <<>>
    /\ UNCHANGED <<access, authorizedRows, permissionRows, commandRows, saving, revoked>>

\* get_command_channels.
CommandChannels == {<<c, permissionRows[commandRows[c]]>> : c \in DOMAIN commandRows}

AccessNext ==
    \/ \E user \in Members : Authorize(user) \/ Deauthorize(user) \/ DenyMusicUser(user)
    \/ \E channel \in Channels :
         \/ SetMusicChannel(channel) \/ InsertPermissions(channel)
         \/ \E id \in DOMAIN permissionRows : KeepPermissions(channel, id)
    \/ WriteAuthorized \/ WriteAuthorizedFails \/ ReloadAccess
    \/ InsertCommandChannel \/ InsertCommandChannelFails

AccessSpec == AccessInit /\ [][AccessNext]_accessVars

-----------------------------------------------------------------------------
\* The settings of a guild: "music" has one entry or none.
AccessEntry ==
    {a \in [authorized : SUBSET Members, music : SUBSET Permissions] :
       \A p, q \in a.music : p = q}

\* Memory and tables are well formed, and every channel's permissions exist, although
\* they are written by two statements.
AccessTypeOK ==
    /\ Len(access) <= 1 /\ \A i \in DOMAIN access : access[i] \in AccessEntry
    /\ authorizedRows \subseteq Members /\ saving \subseteq Members /\ revoked \subseteq Members
    /\ permissionRows \in Seq(Permissions)
    /\ DOMAIN commandRows \subseteq Channels
    /\ \A c \in DOMAIN commandRows : commandRows[c] \in DOMAIN permissionRows
    /\ storing # <<>> => storing \in Channels \X DOMAIN permissionRows

\* A user who was deauthorised is not authorised again but by authorize, although the
\* row stays in the database and settings are reloaded from it: the load that leaves
\* authorized_users empty (a FIXME of the code) is what keeps this true.
RevokedStaysRevoked ==
    \A user \in revoked : \A i \in DOMAIN access : user \notin access[i].authorized
=============================================================================
