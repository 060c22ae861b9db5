---------------------------- MODULE GuildProfile ----------------------------
(***************************************************************************)
(* The settings of a guild beyond those that GuildSettings tells apart:    *)
(* welcome and log settings, which have tables of their own, and those     *)
(* that only some of the setters save.  One guild, the commands of         *)
(* commands/settings that change its settings, the members it welcomes,    *)
(* and the start that reads everything back.                               *)
(*                                                                         *)
(* A save takes a copy of the settings and writes it statement by          *)
(* statement; any of them may fail and ends the command with the error.    *)
(***************************************************************************)
EXTENDS Discord

CONSTANTS
    Roles,       \* roles of the guild
    MaxChanges   \* bound: commands that are issued

VARIABLES
    profile,      \* the guild's entry in guild_settings_map, or none
    settingsRow,  \* table guild_settings: the guild's row, or none
    welcomeRow,   \* table welcome_settings
    logRow,       \* table log_settings
    editing,      \* per task: a command, or a member who joins
    changes,      \* commands so far
    durable       \* history: what was saved last, if nothing has been written since

profileVars ==
    <<profile, settingsRow, welcomeRow, logRow, editing, changes, durable>>

-----------------------------------------------------------------------------
\* WelcomeSettings; a greeting is a channel and a message.
Welcome == [greeting : BOOLEAN, role : Roles \union {None}, password : BOOLEAN]
NoWelcome == [greeting |-> FALSE, role |-> None, password |-> FALSE]

\* LogSettings: two of its channels, the ones that commands set.
Logging == [all : BOOLEAN, joinLeave : BOOLEAN]
NoLogging == [all |-> FALSE, joinLeave |-> FALSE]

\* GuildSettings::new, and the defaults of its fields.
NewProfile == [deafen |-> TRUE, premium |-> FALSE, prefixes |-> FALSE,
               timeout |-> "program", welcome |-> {}, logs |-> {}]

\* The columns of guild_settings that the setters of this module change.
Columns == [deafen : BOOLEAN, premium : BOOLEAN, prefixes : BOOLEAN,
            timeout : {"program", "column", "set"}]
RowOf(p) == [deafen |-> p.deafen, premium |-> p.premium, prefixes |-> p.prefixes,
             timeout |-> p.timeout]
ColumnDefaults == [RowOf(NewProfile) EXCEPT !.timeout = "column"]

\* Mutant: there is one.
WithPassword(welcome) == welcome

\* From<WelcomeSettingsRead> and write_welcome_settings: there is no column for the
\* password.
WithoutPassword(welcome) == {[w EXCEPT !.password = FALSE] : w \in welcome}

\* The two tables, by the guild's id: no row, no settings.
GetWelcomeSettings(welcome) == WithoutPassword(welcome)
GetLogSettings(logs) == logs

\* Mutant: the log settings are left as From<GuildSettingsRead> makes them.
LoadProfileWithoutLogs(row, welcome, logs) ==
    [deafen |-> row.deafen, premium |-> row.premium, prefixes |-> row.prefixes,
     timeout |-> row.timeout, welcome |-> GetWelcomeSettings(welcome), logs |-> {}]

\* What get_or_create returns: the row, then the two tables.
LoadProfile(row, welcome, logs) ==
    [deafen |-> row.deafen, premium |-> row.premium, prefixes |-> row.prefixes,
     timeout |-> row.timeout, welcome |-> GetWelcomeSettings(welcome),
     logs |-> GetLogSettings(logs)]

-----------------------------------------------------------------------------
(* The operations of GuildSettings *)

ToggleSelfDeafen(p) == [p EXCEPT !.deafen = ~@]

\* set_auto_role keeps the rest of the welcome settings.
WithAutoRole(p, role) ==
    [p EXCEPT !.welcome = IF @ = {} THEN {[NoWelcome EXCEPT !.role = role]}
                          ELSE {[w EXCEPT !.role = role] : w \in @}]

\* set_welcome_settings3 keeps the role that there is, and no password.
WithGreeting(p) ==
    [p EXCEPT !.welcome = IF @ = {} THEN {[NoWelcome EXCEPT !.greeting = TRUE]}
                          ELSE {[w EXCEPT !.greeting = TRUE, !.password = FALSE] : w \in @}]

\* set_all_log_channel and set_join_leave_log_channel.
WithLogChannel(p, kind) ==
    [p EXCEPT !.logs = IF @ = {} THEN {[NoLogging EXCEPT ![kind] = TRUE]}
                       ELSE {[l EXCEPT ![kind] = TRUE] : l \in @}]

WithTimeout(p) == [p EXCEPT !.timeout = "set"]
WithPrefixes(p, some) == [p EXCEPT !.prefixes = some]
WithPremium(p, premium) == [p EXCEPT !.premium = premium]

-----------------------------------------------------------------------------
NotEditing == [at |-> "none", copy |-> <<>>, alone |-> TRUE]

ProfileInit ==
    /\ profile = <<>>
    /\ settingsRow = <<>>
    /\ welcomeRow = {}
    /\ logRow = {}
    /\ editing = [t \in Tasks |-> NotEditing]
    /\ changes = 0
    /\ durable = <<>>

EditAt(t, place) == editing[t].at = place
Edits(t, place, copy) == editing' = [editing EXCEPT ![t] = [at |-> place, copy |-> copy,
                                                           alone |-> TRUE]]
EditEnds(t) == editing' = [editing EXCEPT ![t] = NotEditing]
Entry == IF profile = <<>> THEN NewProfile ELSE profile[1]

\* A command starts.
Issue(t) ==
    /\ EditAt(t, "none") /\ changes < MaxChanges /\ changes' = changes + 1
    /\ UNCHANGED <<settingsRow, welcomeRow, logRow, durable>>

\* toggle selfdeafen and toggle autopause: the entry is changed or made, and the copy
\* that is saved is taken under the same lock.
ToggleDeafen(t) ==
    /\ Issue(t)
    /\ profile' = <<ToggleSelfDeafen(Entry)>>
    /\ Edits(t, "guild", profile')

\* auto_role and join_leave_log_channel change an entry that exists, and look at it
\* again for the copy; without one they end with an error, or unwrap panics.
ChangeExisting(t, changed) ==
    /\ Issue(t)
    /\ IF profile = <<>> THEN UNCHANGED <<profile, editing>>
       ELSE profile' = <<changed>> /\ Edits(t, "copy", <<>>)
AutoRole(t, role) == ChangeExisting(t, WithAutoRole(Entry, role))
JoinLeaveLogChannel(t) == ChangeExisting(t, WithLogChannel(Entry, "joinLeave"))

TakeCopy(t) ==
    /\ EditAt(t, "copy") /\ Edits(t, "guild", profile)
    /\ UNCHANGED <<profile, settingsRow, welcomeRow, logRow, changes, durable>>

\* all_log_channel, and get all, which makes an entry to show it: memory only.
AllLogChannel(t) ==
    Issue(t) /\ profile' = <<WithLogChannel(Entry, "all")>> /\ UNCHANGED editing
GetAll(t) == Issue(t) /\ profile' = <<Entry>> /\ UNCHANGED editing

\* idle_timeout: memory only.
IdleTimeout(t) == Issue(t) /\ profile' = <<WithTimeout(Entry)>> /\ UNCHANGED editing

\* add_prefix and clear_prefixes: memory only, and only if there is an entry.
ChangePrefixes(t) ==
    /\ Issue(t) /\ UNCHANGED editing
    /\ \E some \in BOOLEAN :
         profile' = IF profile = <<>> THEN <<>> ELSE <<WithPrefixes(Entry, some)>>

\* premium: memory, then one column of the row.
SetPremium(t, premium) ==
    /\ Issue(t)
    /\ profile' = IF profile = <<>> THEN <<>> ELSE <<WithPremium(Entry, premium)>>
    /\ Edits(t, "premium", <<WithPremium(Entry, premium)>>)

\* welcome_settings and password_verify: of a guild with welcome settings the command's
\* own role and password are dropped; one with an entry but none gets a greeting only.
WelcomeSettings(t) ==
    /\ Issue(t)
    /\ profile' = <<WithGreeting(Entry)>>
    /\ Edits(t, "own welcome", profile')

PasswordVerify(t, role) ==
    /\ Issue(t)
    /\ profile' = IF profile # <<>> THEN <<WithGreeting(Entry)>>
                  ELSE <<[NewProfile EXCEPT !.welcome =
                            {[greeting |-> TRUE, role |-> role, password |-> TRUE]}]>>
    /\ Edits(t, "own welcome", profile')

-----------------------------------------------------------------------------
(* GuildSettings::save, statement by statement *)

\* A statement of t: what others save is no longer what the tables hold.
Writes(t, next) ==
    /\ durable' = <<>>
    /\ editing' = [u \in Tasks |->
         IF u = t THEN [editing[t] EXCEPT !.at = next] ELSE [editing[u] EXCEPT !.alone = FALSE]]
    /\ UNCHANGED <<profile, changes>>

\* get_or_create: the row is inserted, or gets the guild's name.
WriteGuild(t) ==
    /\ EditAt(t, "guild") /\ Writes(t, "settings")
    /\ settingsRow' = IF settingsRow = <<>> THEN <<ColumnDefaults>> ELSE settingsRow
    /\ UNCHANGED <<welcomeRow, logRow>>

WriteSettings(t) ==
    /\ EditAt(t, "settings") /\ Writes(t, "welcome")
    /\ settingsRow' = <<RowOf(editing[t].copy[1])>>
    /\ UNCHANGED <<welcomeRow, logRow>>

\* Only if there are some: the row of welcome settings that are gone stays.
WriteWelcome(t) ==
    /\ EditAt(t, "welcome") /\ Writes(t, "logs")
    /\ welcomeRow' = IF editing[t].copy[1].welcome = {} THEN welcomeRow
                     ELSE WithoutPassword(editing[t].copy[1].welcome)
    /\ UNCHANGED <<settingsRow, logRow>>

\* The last statement.
WriteLogs(t) ==
    /\ EditAt(t, "logs")
    /\ logRow' = IF editing[t].copy[1].logs = {} THEN logRow ELSE editing[t].copy[1].logs
    /\ durable' = IF editing[t].alone THEN editing[t].copy ELSE <<>>
    /\ editing' = [u \in Tasks |->
         IF u = t THEN NotEditing ELSE [editing[u] EXCEPT !.alone = FALSE]]
    /\ UNCHANGED <<profile, settingsRow, welcomeRow, changes>>

\* WelcomeSettings::save by itself: the row refers to that of the guild.
WriteOwnWelcome(t) ==
    /\ EditAt(t, "own welcome") /\ settingsRow # <<>> /\ Writes(t, "none")
    /\ welcomeRow' = WithoutPassword(editing[t].copy[1].welcome)
    /\ UNCHANGED <<settingsRow, logRow>>

\* update_premium; unwrap panics if there is no row.
WritePremium(t) ==
    /\ EditAt(t, "premium") /\ settingsRow # <<>> /\ Writes(t, "none")
    /\ settingsRow' = <<[settingsRow[1] EXCEPT !.premium = editing[t].copy[1].premium]>>
    /\ UNCHANGED <<welcomeRow, logRow>>

EditFails(t) ==
    /\ ~EditAt(t, "none") /\ EditEnds(t)
    /\ UNCHANGED <<profile, settingsRow, welcomeRow, logRow, changes, durable>>

-----------------------------------------------------------------------------
\* guild_member_addition: the greeting is sent first, and its unwrap panics when it
\* cannot be: then the role is not given.  Nothing of it is stored.
GuildMemberAddition(t) ==
    /\ EditAt(t, "none") /\ profile # <<>> /\ profile[1].welcome # {}
    /\ Edits(t, IF \E w \in profile[1].welcome : w.greeting THEN "greet" ELSE "role", profile)
    /\ UNCHANGED <<profile, settingsRow, welcomeRow, logRow, changes, durable>>

Greet(t) ==
    /\ EditAt(t, "greet") /\ Edits(t, "role", editing[t].copy)
    /\ UNCHANGED <<profile, settingsRow, welcomeRow, logRow, changes, durable>>

AddRole(t) ==
    /\ EditAt(t, "role") /\ EditEnds(t)
    /\ UNCHANGED <<profile, settingsRow, welcomeRow, logRow, changes, durable>>

\* The process ends and starts again; cache_ready loads the guild.
RestartAndLoad ==
    /\ settingsRow # <<>>
    /\ profile' = <<LoadProfile(settingsRow[1], welcomeRow, logRow)>>
    /\ editing' = [t \in Tasks |-> NotEditing]
    /\ UNCHANGED <<settingsRow, welcomeRow, logRow, changes, durable>>

ProfileNext ==
    \/ \E t \in Tasks :
         \/ ToggleDeafen(t) \/ AllLogChannel(t) \/ JoinLeaveLogChannel(t) \/ GetAll(t)
         \/ IdleTimeout(t) \/ ChangePrefixes(t) \/ WelcomeSettings(t)
         \/ \E role \in Roles : AutoRole(t, role) \/ PasswordVerify(t, role)
         \/ \E premium \in BOOLEAN : SetPremium(t, premium)
         \/ TakeCopy(t) \/ WriteGuild(t) \/ WriteSettings(t) \/ WriteWelcome(t)
         \/ WriteLogs(t) \/ WriteOwnWelcome(t) \/ WritePremium(t) \/ EditFails(t)
         \/ GuildMemberAddition(t) \/ Greet(t) \/ AddRole(t)
    \/ RestartAndLoad

ProfileSpec == ProfileInit /\ [][ProfileNext]_profileVars

-----------------------------------------------------------------------------
Profile == [deafen : BOOLEAN, premium : BOOLEAN, prefixes : BOOLEAN,
            timeout : {"program", "column", "set"},
            welcome : SUBSET Welcome, logs : SUBSET Logging]
Places == {"none", "copy", "guild", "settings", "welcome", "logs", "own welcome", "premium",
           "greet", "role"}

\* Something of a kind, or nothing.
Perhaps(kind, some) == Len(some) <= 1 /\ \A i \in DOMAIN some : some[i] \in kind

\* The entry, the rows and the commands are well formed: a statement has a copy to write,
\* the two tables have rows of a guild that has one, and no password is stored.
ProfileTypeOK ==
    /\ Perhaps(Profile, profile) /\ Perhaps(Profile, durable)
    /\ Perhaps(Columns, settingsRow)
    /\ welcomeRow \subseteq {w \in Welcome : ~w.password} /\ logRow \subseteq Logging
    /\ welcomeRow # {} \/ logRow # {} => settingsRow # <<>>
    /\ \A t \in Tasks :
         /\ editing[t].at \in Places /\ editing[t].alone \in BOOLEAN
         /\ Perhaps(Profile, editing[t].copy)
         /\ editing[t].at \in {"guild", "settings", "welcome", "logs", "own welcome", "premium"}
              => editing[t].copy # <<>>
    /\ changes \in Nat

\* After a save that ended well and that no other statement touched, a start finds what
\* was saved, the password apart: settings that the program no longer has when it saves
\* are the exception, and come back from their old rows.
SavedProfileLoads ==
    \A i \in DOMAIN durable :
      LET loaded == LoadProfile(settingsRow[1], welcomeRow, logRow)
          saved == durable[i]
      IN  /\ RowOf(loaded) = RowOf(saved)
          /\ saved.welcome # {} => loaded.welcome = WithoutPassword(saved.welcome)
          /\ saved.logs # {} => loaded.logs = saved.logs
=============================================================================
