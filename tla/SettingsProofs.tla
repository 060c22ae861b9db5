--------------------------- MODULE SettingsProofs ---------------------------
(***************************************************************************)
(* For any number of guilds, cache_ready events and volumes: the settings  *)
(* stay well formed, an entry that names another guild's row carries no    *)
(* stored settings, and a row that the shutdown has saved stays as it is.  *)
(* A row of a guild that no command touched stays as it is, and settings   *)
(* that no command changes are lost only where a command made the entry.   *)
(***************************************************************************)
EXTENDS MCGuildSettings, TLAPS

\* What holds of every entry that is made for guild g, and of every loader: an
\* entry names its own guild, or it is the one that toggle_autopause makes up.
EntryOK(g, entry) ==
    /\ entry \in Entry
    /\ entry.id # g => entry.id = Stray /\ entry.profile = "program"

MapOK(map) == DOMAIN map \subseteq Guilds /\ \A g \in DOMAIN map : EntryOK(g, map[g])

TableOK(table) == DOMAIN table \subseteq Ids /\ \A id \in DOMAIN table : table[id] \in Row

LoaderOK(load) == load.todo \subseteq Guilds /\ MapOK(load.read)

\* The inductive invariant.  TypeOK and StrayEntriesAreFresh speak of the map in
\* memory; it must say the same of the entries a loader is about to insert, and
\* of the snapshot that decides which rows are written.
SInv ==
    /\ MapOK(live)
    /\ MapOK(snapshot)
    /\ TableOK(stored)
    /\ \A l \in Loaders : LoaderOK(loader[l])
    /\ creating \subseteq Guilds
    /\ process \in {"up", "saving", "down"}
    /\ todo \subseteq DOMAIN snapshot
    /\ process = "down" => live = EmptyMap /\ creating = {} /\ todo = {}
    /\ process # "saving" => snapshot = EmptyMap
    /\ loader = [l \in Loaders |-> loader[l]]

\* Rounding a volume down keeps it among the volumes.
LEMMA RoundedVolume ==
    ASSUME NEW v \in Volumes
    PROVE  (v \div Whole) * Whole \in Volumes
<1>1. CASE v \in Levels
  BY <1>1 DEF Volumes
<1>2. CASE v = Whole
  BY <1>2 DEF Volumes, Whole
<1>3. ASSUME NEW w \in Levels, v = (w \div Whole) * Whole
      PROVE  (v \div Whole) * Whole \in Volumes
  <2>1. w \div Whole \in Nat
    BY SettingsAssumption DEF Whole
  <2>2. v \div Whole = w \div Whole
    BY <1>3, <2>1 DEF Whole
  <2> QED BY <2>2 DEF Volumes
<1> QED BY <1>1, <1>2, <1>3 DEF Volumes

LEMMA FreshIsOK ==
    ASSUME NEW g \in Guilds
    PROVE  EntryOK(g, Fresh(g)) /\ EntryOK(g, Fresh(Stray))
BY DEF EntryOK, Fresh, Entry, Ids, Volumes, Profiles

LEMMA LoadedIsOK ==
    ASSUME NEW g \in Guilds, NEW row \in Row
    PROVE  EntryOK(g, Loaded(g, row))
BY DEF EntryOK, Loaded, Entry, Row, Ids

LEMMA SavedIsRow ==
    ASSUME NEW entry \in Entry
    PROVE  Saved(entry) \in Row
BY RoundedVolume DEF Saved, Entry, Row

\* With adds a good entry to a good map, and a good row to a good table.
LEMMA WithKeepsMap ==
    ASSUME NEW map, MapOK(map), NEW g \in Guilds, NEW entry, EntryOK(g, entry)
    PROVE  MapOK(With(map, g, entry))
BY DEF MapOK, With

LEMMA WithKeepsTable ==
    ASSUME NEW table, TableOK(table), NEW id \in Ids, NEW row \in Row
    PROVE  TableOK(With(table, id, row))
BY DEF TableOK, With

LEMMA EmptyMapIsOK == MapOK(EmptyMap) /\ LoaderOK(Resting)
BY DEF MapOK, EmptyMap, LoaderOK, Resting

LEMMA UpsertIsOK ==
    ASSUME TableOK(stored), NEW id \in Ids
    PROVE  TableOK(Upsert(id)) /\ id \in DOMAIN Upsert(id)
<1>1. EmptyRow \in Row
  BY DEF EmptyRow, Row, Volumes, Profiles
<1> QED BY <1>1, WithKeepsTable DEF Upsert, With

LEMMA SInvImplies == SInv => TypeOK /\ StrayEntriesAreFresh
BY DEF SInv, TypeOK, StrayEntriesAreFresh, MapOK, TableOK, LoaderOK, EntryOK

LEMMA InitSInv == Init => SInv
<1> SUFFICES ASSUME Init PROVE SInv
  OBVIOUS
<1>1. TableOK(stored)
  BY DEF Init, TableOK
<1> QED BY <1>1, EmptyMapIsOK DEF Init, SInv

\* Every action keeps the invariant.  Only the commands, the loaders and the save
\* make entries and rows; the process's end empties memory.
LEMMA NextSInv == SInv /\ [Next]_vars => SInv'
<1> SUFFICES ASSUME SInv, [Next]_vars PROVE SInv'
  OBVIOUS
<1> USE DEF SInv
<1>1. ASSUME NEW g \in Guilds, ToggleAutopause(g) PROVE SInv'
  <2>1. MapOK(live')
    <3>1. CASE g \in DOMAIN live
      <4>1. EntryOK(g, [live[g] EXCEPT !.autopause = ~@])
        <5>1. live[g] \in Entry /\ EntryOK(g, live[g])
          BY <3>1 DEF MapOK, EntryOK
        <5> QED BY <5>1 DEF EntryOK, Entry
      <4>2. live' = [live EXCEPT ![g] = [live[g] EXCEPT !.autopause = ~@]]
        BY <1>1, <3>1 DEF ToggleAutopause
      <4> QED BY <4>1, <4>2, <3>1 DEF MapOK
    <3>2. CASE g \notin DOMAIN live
      <4>1. live' = With(live, g, Fresh(Stray))
        BY <1>1, <3>2 DEF ToggleAutopause
      <4> QED BY <4>1, FreshIsOK, WithKeepsMap
    <3> QED BY <3>1, <3>2
  <2> QED BY <1>1, <2>1 DEF ToggleAutopause, Running
<1>2. ASSUME NEW g \in Guilds, NEW level \in Levels, SetVolume(g, level) PROVE SInv'
  <2>0. level \in Volumes
    BY DEF Volumes
  <2>1. MapOK(live')
    <3>1. CASE g \in DOMAIN live
      <4>1. EntryOK(g, [live[g] EXCEPT !.volume = level])
        <5>1. live[g] \in Entry /\ EntryOK(g, live[g])
          BY <3>1 DEF MapOK, EntryOK
        <5> QED BY <5>1, <2>0 DEF EntryOK, Entry
      <4>2. live' = [live EXCEPT ![g] = [live[g] EXCEPT !.volume = level]]
        BY <1>2, <3>1 DEF SetVolume
      <4> QED BY <4>1, <4>2, <3>1 DEF MapOK
    <3>2. CASE g \notin DOMAIN live
      <4>1. live' = With(live, g, [Fresh(g) EXCEPT !.volume = level])
        BY <1>2, <3>2 DEF SetVolume
      <4>2. EntryOK(g, [Fresh(g) EXCEPT !.volume = level])
        BY FreshIsOK, <2>0 DEF EntryOK, Entry, Fresh
      <4> QED BY <4>1, <4>2, WithKeepsMap
    <3> QED BY <3>1, <3>2
  <2> QED BY <1>2, <2>1 DEF SetVolume, Running
<1>3. ASSUME NEW g \in Guilds, GetOrCreate(g) PROVE SInv'
  BY <1>3 DEF GetOrCreate, Running
<1>4. ASSUME NEW g \in Guilds, Create(g) PROVE SInv'
  <2>1. MapOK(live')
    BY <1>4, FreshIsOK, WithKeepsMap DEF Create
  <2> QED BY <1>4, <2>1 DEF Create, Running
<1>5. ASSUME NEW l \in Loaders, CacheReady(l) PROVE SInv'
  <2>1. \A k \in Loaders : LoaderOK(loader'[k])
    BY <1>5, EmptyMapIsOK DEF CacheReady, LoaderOK
  <2> QED BY <1>5, <2>1 DEF CacheReady, Running
<1>6. ASSUME NEW l \in Loaders, NEW g \in Guilds, LoadRow(l, g) PROVE SInv'
  <2>1. TableOK(stored') /\ g \in DOMAIN stored'
    BY <1>6, UpsertIsOK DEF LoadRow, Ids
  <2>2. MapOK(With(EmptyMap, g, Loaded(g, stored'[g])))
    <3>1. stored'[g] \in Row
      BY <2>1 DEF TableOK
    <3> QED BY <3>1, LoadedIsOK, WithKeepsMap, EmptyMapIsOK
  <2>3. \A k \in Loaders : LoaderOK(loader'[k])
    BY <1>6, <2>2 DEF LoadRow, LoaderOK
  <2> QED BY <1>6, <2>1, <2>3 DEF LoadRow, Running
<1>7. ASSUME NEW l \in Loaders, LoadPanics(l) PROVE SInv'
  <2>1. \A k \in Loaders : LoaderOK(loader'[k])
    BY <1>7, EmptyMapIsOK DEF LoadPanics
  <2> QED BY <1>7, <2>1 DEF LoadPanics, Running
<1>8. ASSUME NEW l \in Loaders, LoadInserts(l) PROVE SInv'
  <2>1. PICK g \in DOMAIN loader[l].read : live' = With(live, g, loader[l].read[g])
    BY <1>8 DEF LoadInserts
  <2>2. g \in Guilds /\ EntryOK(g, loader[l].read[g])
    BY DEF LoaderOK, MapOK
  <2>3. MapOK(live')
    BY <2>1, <2>2, WithKeepsMap
  <2>4. \A k \in Loaders : LoaderOK(loader'[k])
    BY <1>8, EmptyMapIsOK DEF LoadInserts, LoaderOK
  <2> QED BY <1>8, <2>3, <2>4 DEF LoadInserts, Running
<1>9. CASE Signal
  BY <1>9 DEF Signal
<1>10. ASSUME NEW g \in Guilds, Save(g) PROVE SInv'
  <2>1. snapshot[g] \in Entry /\ snapshot[g].id \in Ids
    BY <1>10 DEF Save, MapOK, EntryOK, Entry
  <2>2. TableOK(stored')
    BY <1>10, <2>1, UpsertIsOK, SavedIsRow, WithKeepsTable DEF Save
  <2> QED BY <1>10, <2>2 DEF Save
<1>11. ASSUME NEW g \in Guilds, SaveFails(g) PROVE SInv'
  <2>1. snapshot[g].id \in Ids
    BY <1>11 DEF SaveFails, MapOK, EntryOK, Entry
  <2>2. TableOK(stored')
    BY <1>11, <2>1, UpsertIsOK DEF SaveFails
  <2> QED BY <1>11, <2>2 DEF SaveFails
<1>12. CASE Dies
  <2>1. \A k \in Loaders : LoaderOK(loader'[k])
    BY <1>12, EmptyMapIsOK DEF Dies
  <2>2. MapOK(live') /\ MapOK(snapshot') /\ todo' = {}
    BY <1>12, EmptyMapIsOK DEF Dies
  <2> QED BY <1>12, <2>1, <2>2 DEF Dies
<1>13. CASE Restart
  BY <1>13 DEF Restart
<1>14. CASE UNCHANGED vars
  BY <1>14 DEF vars
<1> QED
  BY <1>1, <1>2, <1>3, <1>4, <1>5, <1>6, <1>7, <1>8, <1>9, <1>10, <1>11, <1>12,
     <1>13, <1>14
  DEF Next, Command, Load, SaveEach, Exit, Crash

LEMMA SInvHolds == Spec => []SInv
BY InitSInv, NextSInv, PTL DEF Spec

\* The settings, the rows, the loads and the snapshot stay well formed, whatever
\* commands, cache_ready events, signals and crashes interleave.
THEOREM SettingsTypeCorrect == Spec => []TypeOK
<1>1. SInv => TypeOK
  BY SInvImplies
<1> QED BY <1>1, SInvHolds, PTL

\* An entry that names a row of another guild never carries stored settings:
\* toggle_autopause made it up from the defaults.
THEOREM StrayIsFresh == Spec => []StrayEntriesAreFresh
<1>1. SInv => StrayEntriesAreFresh
  BY SInvImplies
<1> QED BY <1>1, SInvHolds, PTL

\* A row that the shutdown is done with stays as it is: the loads that still run
\* only upsert it, and no other entry of the snapshot names it.
THEOREM SavedRowsAreFinal == Spec => SavedRowsStay
<1> DEFINE Final == \A g \in DOMAIN stored \intersect (DOMAIN snapshot \ todo) :
                      stored'[g] = stored[g]
<1>1. SInv /\ [Next]_vars => Final
  <2> SUFFICES ASSUME SInv, [Next]_vars,
                      NEW g \in DOMAIN stored, g \in DOMAIN snapshot, g \notin todo
               PROVE  stored'[g] = stored[g]
    OBVIOUS
  <2>1. g \in Guilds /\ g # Stray
    BY SettingsAssumption DEF SInv, MapOK
  <2>2. ASSUME NEW id \in Ids PROVE Upsert(id)[g] = stored[g] /\ g \in DOMAIN Upsert(id)
    BY DEF Upsert, With
  <2>3. ASSUME NEW h \in Guilds, Save(h) PROVE stored'[g] = stored[g]
    <3>1. h # g /\ snapshot[h].id \in Ids
      BY <2>3 DEF Save, SInv, MapOK, EntryOK, Entry
    <3>2. snapshot[h].id # g
      BY <2>3, <2>1, <3>1 DEF Save, SInv, MapOK, EntryOK
    <3> QED BY <2>3, <2>2, <3>1, <3>2 DEF Save, With
  <2>4. ASSUME NEW h \in Guilds, SaveFails(h) PROVE stored'[g] = stored[g]
    <3>1. snapshot[h].id \in Ids
      BY <2>4 DEF SaveFails, SInv, MapOK, EntryOK, Entry
    <3> QED BY <2>4, <2>2, <3>1 DEF SaveFails
  <2>5. ASSUME NEW l \in Loaders, NEW h \in Guilds, LoadRow(l, h)
        PROVE stored'[g] = stored[g]
    BY <2>5, <2>2 DEF LoadRow, Ids
  <2>6. CASE UNCHANGED stored
    BY <2>6
  <2> QED
    BY <2>3, <2>4, <2>5, <2>6
    DEF Next, Command, Load, SaveEach, Exit, Crash, Dies, ToggleAutopause, SetVolume,
        GetOrCreate, Create, CacheReady, LoadPanics, LoadInserts, Signal, Restart, vars
<1>2. []SInv /\ [][Next]_vars => [][Final]_vars
  BY <1>1, PTL
<1> QED BY <1>2, SInvHolds, PTL DEF Spec, SavedRowsStay
-----------------------------------------------------------------------------
(* What the commands of the present life did, and the rows *)

\* MCSpec from whatever rows an earlier life could have written.
TrackedSpec ==
    /\ Init /\ commands = 0 /\ touched = {} /\ made = {}
    /\ [][MCNext]_mcvars

\* An entry for g in the map is what was loaded from the row of g.
FromRow(map, table, g) ==
    g \in DOMAIN map => g \in DOMAIN table /\ map[g] = Loaded(g, table[g])

\* An entry for g in the map has the settings that no command changes from the row of g.
ProfileFromRow(map, table, g) ==
    g \in DOMAIN map =>
      g \in DOMAIN table /\ map[g].id = g /\ map[g].profile = table[g].profile

\* A row holds a volume that survives the cast of write_settings.
WholeRows(table) == \A id \in DOMAIN table : table[id].volume % Whole = 0

\* The inductive invariant of both properties: memory, the snapshot and the loads
\* tell of a guild that no command touched, or made, what its row tells.
TrackedInv ==
    /\ SInv
    /\ WholeRows(stored)
    /\ \A g \in Guilds \ touched :
         /\ FromRow(live, stored, g) /\ FromRow(snapshot, stored, g)
         /\ \A l \in Loaders : FromRow(loader[l].read, stored, g)
    /\ \A g \in Guilds \ made :
         /\ ProfileFromRow(live, stored, g) /\ ProfileFromRow(snapshot, stored, g)
         /\ \A l \in Loaders : ProfileFromRow(loader[l].read, stored, g)

\* A row keeps its place and the settings that no command changes.
Keeps(g) == stored'[g] = stored[g]
KeepsProfile(g) == stored'[g].profile = stored[g].profile

LEMMA MCNextIsNext == [MCNext]_mcvars => [Next]_vars
BY DEF MCNext, mcvars, Next, Command

LEMMA VolumesAreNat == Volumes \subseteq Nat
<1> SUFFICES ASSUME NEW v \in Volumes PROVE v \in Nat
  OBVIOUS
<1>1. CASE v \in Levels
  BY <1>1, SettingsAssumption
<1>2. CASE v = Whole
  BY <1>2 DEF Whole
<1>3. ASSUME NEW w \in Levels, v = (w \div Whole) * Whole PROVE v \in Nat
  <2>1. w \div Whole \in Nat
    BY SettingsAssumption DEF Whole
  <2> QED BY <1>3, <2>1 DEF Whole
<1> QED BY <1>1, <1>2, <1>3 DEF Volumes

\* What is saved of an entry that was loaded is the row it was loaded from.
LEMMA SavedLoaded ==
    ASSUME NEW g \in Ids, NEW row \in Row, row.volume % Whole = 0
    PROVE  Saved(Loaded(g, row)) = row
<1>1. row.volume \in Nat
  BY VolumesAreNat DEF Row
<1>2. (row.volume \div Whole) * Whole = row.volume
  BY <1>1 DEF Whole
<1> QED BY <1>2 DEF Saved, Loaded, Row

LEMMA SavedIsWhole ==
    ASSUME NEW entry \in Entry
    PROVE  Saved(entry).volume % Whole = 0
<1>1. entry.volume \in Nat
  BY VolumesAreNat DEF Entry
<1>2. entry.volume \div Whole \in Nat
  BY <1>1 DEF Whole
<1>3. ((entry.volume \div Whole) * Whole) % Whole = 0
  BY <1>2 DEF Whole
<1> QED BY <1>3 DEF Saved

LEMMA UpsertKeeps ==
    ASSUME NEW id \in Ids, WholeRows(stored)
    PROVE  /\ WholeRows(Upsert(id))
           /\ DOMAIN stored \subseteq DOMAIN Upsert(id)
           /\ \A g \in DOMAIN stored : Upsert(id)[g] = stored[g]
<1>1. EmptyRow.volume % Whole = 0
  BY DEF EmptyRow, Whole
<1> QED BY <1>1 DEF Upsert, With, WholeRows

\* A step keeps the row of a guild that no command touched, keeps the other settings
\* in the row of one whose entry no command made, and writes whole volumes.
LEMMA RowStep ==
    ASSUME TrackedInv, [Next]_vars
    PROVE  /\ WholeRows(stored')
           /\ DOMAIN stored \subseteq DOMAIN stored'
           /\ \A g \in Guilds \ touched : g \in DOMAIN stored => Keeps(g)
           /\ \A g \in Guilds \ made : g \in DOMAIN stored => KeepsProfile(g)
<1> USE DEF Keeps, KeepsProfile
<1>0. SInv /\ WholeRows(stored)
  BY DEF TrackedInv
<1>1. ASSUME NEW h \in Guilds, Save(h)
      PROVE  /\ WholeRows(stored')
             /\ DOMAIN stored \subseteq DOMAIN stored'
             /\ \A g \in Guilds \ touched : g \in DOMAIN stored => Keeps(g)
             /\ \A g \in Guilds \ made : g \in DOMAIN stored => KeepsProfile(g)
  <2> DEFINE id == snapshot[h].id
             row == Saved(snapshot[h])
             table == Upsert(id)
  <2>1. h \in DOMAIN snapshot /\ EntryOK(h, snapshot[h])
    BY <1>0, <1>1 DEF Save, SInv, MapOK
  <2>2. snapshot[h] \in Entry /\ id \in Ids /\ (id = h \/ id = Stray)
    BY <2>1 DEF EntryOK, Entry
  <2>3. /\ WholeRows(table) /\ DOMAIN stored \subseteq DOMAIN table
        /\ \A g \in DOMAIN stored : table[g] = stored[g]
    BY <1>0, <2>2, UpsertKeeps
  <2>4. row.volume % Whole = 0
    BY <2>2, SavedIsWhole
  <2>5. ASSUME h \notin touched, h \in DOMAIN stored, id = h PROVE row = stored[h]
    <3>1. snapshot[h] = Loaded(h, stored[h])
      BY <2>1, <2>5 DEF TrackedInv, FromRow
    <3>2. stored[h] \in Row /\ stored[h].volume % Whole = 0
      BY <1>0, <2>5 DEF SInv, TableOK, WholeRows
    <3> QED BY <3>1, <3>2, SavedLoaded DEF Ids
  <2>6. ASSUME h \notin made, h \in DOMAIN stored PROVE row.profile = stored[h].profile
    BY <2>1, <2>6 DEF TrackedInv, ProfileFromRow, Saved
  <2>7. stored' = With(table, id, row)
    BY <1>1 DEF Save
  <2> HIDE DEF id, row, table
  <2>8. WholeRows(stored') /\ DOMAIN stored \subseteq DOMAIN stored'
    BY <2>3, <2>4, <2>7 DEF With, WholeRows
  <2>9. ASSUME NEW g \in Guilds, g \in DOMAIN stored
        PROVE  stored'[g] = IF g = id THEN row ELSE stored[g]
    BY <2>3, <2>7, <2>9 DEF With
  <2> QED BY <2>2, <2>5, <2>6, <2>8, <2>9, SettingsAssumption
<1>2. ASSUME NEW h \in Guilds, SaveFails(h) PROVE \E id \in Ids : stored' \in {stored, Upsert(id)}
  BY <1>0, <1>2 DEF SaveFails, SInv, MapOK, EntryOK, Entry
<1>3. ASSUME NEW l \in Loaders, NEW h \in Guilds, LoadRow(l, h)
      PROVE  \E id \in Ids : stored' \in {stored, Upsert(id)}
  BY <1>3 DEF LoadRow, Ids
<1>4. ASSUME NEW id \in Ids, stored' \in {stored, Upsert(id)}
      PROVE  /\ WholeRows(stored')
             /\ DOMAIN stored \subseteq DOMAIN stored'
             /\ \A g \in Guilds \ touched : g \in DOMAIN stored => Keeps(g)
             /\ \A g \in Guilds \ made : g \in DOMAIN stored => KeepsProfile(g)
  BY <1>0, <1>4, UpsertKeeps
<1>5. CASE UNCHANGED stored
  BY <1>0, <1>5
<1> QED
  BY <1>1, <1>2, <1>3, <1>4, <1>5
  DEF Next, Command, Load, SaveEach, Exit, Crash, Dies, ToggleAutopause, SetVolume,
      GetOrCreate, Create, CacheReady, LoadPanics, LoadInserts, Signal, Restart, vars

\* Every step keeps the invariant.  A command takes the guild out of what the
\* invariant speaks of, or, if the entry was there, changes no setting but its own;
\* what a load has read, inserts, or what a signal clones agreed with the row before.
LEMMA NextTracked == TrackedInv /\ [MCNext]_mcvars => TrackedInv'
<1> SUFFICES ASSUME TrackedInv, [MCNext]_mcvars PROVE TrackedInv'
  OBVIOUS
<1>1. [Next]_vars
  BY MCNextIsNext
<1>2. SInv /\ SInv'
  BY <1>1, NextSInv DEF TrackedInv
<1>3. /\ WholeRows(stored') /\ DOMAIN stored \subseteq DOMAIN stored'
      /\ \A g \in Guilds \ touched : g \in DOMAIN stored => stored'[g] = stored[g]
      /\ \A g \in Guilds \ made :
           g \in DOMAIN stored => stored'[g].profile = stored[g].profile
  BY <1>1, RowStep DEF Keeps, KeepsProfile
<1>4. ASSUME NEW g \in Guilds \ touched, NEW map, FromRow(map, stored, g)
      PROVE  FromRow(map, stored', g)
  BY <1>3, <1>4 DEF FromRow
<1>5. ASSUME NEW g \in Guilds \ made, NEW map, ProfileFromRow(map, stored, g)
      PROVE  ProfileFromRow(map, stored', g)
  BY <1>3, <1>5 DEF ProfileFromRow
<1>6. ASSUME NEW g, NEW table
      PROVE  FromRow(EmptyMap, table, g) /\ ProfileFromRow(EmptyMap, table, g)
  BY DEF FromRow, ProfileFromRow, EmptyMap
\* What remains of the invariant, for one guild.
<1> DEFINE
      Row1(map) == \A g \in Guilds \ touched' : FromRow(map, stored', g)
      Row2(map) == \A g \in Guilds \ made' : ProfileFromRow(map, stored', g)
      Good(map) == Row1(map) /\ Row2(map)
<1>7. SUFFICES Good(live') /\ Good(snapshot') /\ \A l \in Loaders : Good(loader'[l].read)
  BY <1>2, <1>3 DEF TrackedInv
<1>8. ASSUME touched \subseteq touched', made \subseteq made'
      PROVE  Good(live) /\ Good(snapshot) /\ \A l \in Loaders : Good(loader[l].read)
  BY <1>4, <1>5, <1>8 DEF TrackedInv
<1>9. Good(EmptyMap)
  BY <1>6
\* An entry of g replaces or joins those of a good map.
<1>10. ASSUME NEW g \in Guilds, NEW map, NEW entry, Good(map),
              g \notin touched' => FromRow(With(EmptyMap, g, entry), stored', g),
              g \notin made' => ProfileFromRow(With(EmptyMap, g, entry), stored', g)
       PROVE  Good(With(map, g, entry))
  <2>1. With(EmptyMap, g, entry)[g] = entry /\ g \in DOMAIN With(EmptyMap, g, entry)
    BY DEF With
  <2>2. ASSUME NEW h \in Guilds \ touched' PROVE FromRow(With(map, g, entry), stored', h)
    BY <1>10, <2>1, <2>2 DEF With, FromRow
  <2>3. ASSUME NEW h \in Guilds \ made' PROVE ProfileFromRow(With(map, g, entry), stored', h)
    BY <1>10, <2>1, <2>3 DEF With, ProfileFromRow
  <2> QED BY <2>2, <2>3
<1> HIDE DEF Good
<1>11. ASSUME NEW g \in Guilds, ToggleAutopause(g), Commanded(g)
       PROVE  Good(live') /\ UNCHANGED <<snapshot, loader>>
              /\ touched \subseteq touched' /\ made \subseteq made'
  <2>1. touched' = touched \union {g} /\ touched \subseteq touched' /\ made \subseteq made'
    BY <1>11 DEF Commanded
  <2>2. Good(live)
    BY <1>8, <2>1
  <2>3. CASE g \in DOMAIN live
    <3> DEFINE entry == [live[g] EXCEPT !.autopause = ~@]
    <3>1. live' = With(live, g, entry)
      <4>1. live' = [live EXCEPT ![g] = entry]
        BY <1>11, <2>3 DEF ToggleAutopause
      <4> QED BY <4>1, <2>3 DEF With
    <3>2. live[g] \in Entry
      BY <1>2, <2>3 DEF SInv, MapOK, EntryOK
    <3>3. entry.id = live[g].id /\ entry.profile = live[g].profile
      BY <3>2 DEF Entry
    <3>4. g \notin made' => ProfileFromRow(live, stored', g)
      BY <2>2 DEF Good
    <3> HIDE DEF entry
    <3>5. g \notin made' => ProfileFromRow(With(EmptyMap, g, entry), stored', g)
      BY <3>3, <3>4, <2>3 DEF With, ProfileFromRow
    <3> QED BY <1>10, <1>11, <2>1, <2>2, <3>1, <3>5 DEF ToggleAutopause
  <2>4. CASE g \notin DOMAIN live
    <3>1. g \in made' /\ live' = With(live, g, Fresh(Stray))
      BY <1>11, <2>4 DEF Commanded, ToggleAutopause
    <3> QED BY <1>10, <1>11, <2>1, <2>2, <3>1 DEF ToggleAutopause
  <2> QED BY <2>3, <2>4
<1>12. ASSUME NEW g \in Guilds, NEW level \in Levels, SetVolume(g, level), Commanded(g)
       PROVE  Good(live') /\ UNCHANGED <<snapshot, loader>>
              /\ touched \subseteq touched' /\ made \subseteq made'
  <2>1. touched' = touched \union {g} /\ touched \subseteq touched' /\ made \subseteq made'
    BY <1>12 DEF Commanded
  <2>2. Good(live)
    BY <1>8, <2>1
  <2>3. CASE g \in DOMAIN live
    <3> DEFINE entry == [live[g] EXCEPT !.volume = level]
    <3>1. live' = With(live, g, entry)
      <4>1. live' = [live EXCEPT ![g] = entry]
        BY <1>12, <2>3 DEF SetVolume
      <4> QED BY <4>1, <2>3 DEF With
    <3>2. live[g] \in Entry
      BY <1>2, <2>3 DEF SInv, MapOK, EntryOK
    <3>3. entry.id = live[g].id /\ entry.profile = live[g].profile
      BY <3>2 DEF Entry
    <3>4. g \notin made' => ProfileFromRow(live, stored', g)
      BY <2>2 DEF Good
    <3> HIDE DEF entry
    <3>5. g \notin made' => ProfileFromRow(With(EmptyMap, g, entry), stored', g)
      BY <3>3, <3>4, <2>3 DEF With, ProfileFromRow
    <3> QED BY <1>10, <1>12, <2>1, <2>2, <3>1, <3>5 DEF SetVolume
  <2>4. CASE g \notin DOMAIN live
    <3>1. PICK entry : g \in made' /\ live' = With(live, g, entry)
      BY <1>12, <2>4 DEF Commanded, SetVolume
    <3> QED BY <1>10, <1>12, <2>1, <2>2, <3>1 DEF SetVolume
  <2> QED BY <2>3, <2>4
<1>13. ASSUME NEW g \in Guilds, Create(g), touched' = touched \union {g}, made' = made \union {g}
       PROVE  Good(live') /\ UNCHANGED <<snapshot, loader>>
              /\ touched \subseteq touched' /\ made \subseteq made'
  <2>1. Good(live)
    BY <1>8, <1>13
  <2>2. live' = With(live, g, Fresh(g)) /\ UNCHANGED <<snapshot, loader>>
    BY <1>13 DEF Create
  <2> QED BY <1>10, <1>13, <2>1, <2>2
<1> DEFINE Same == touched' = touched /\ made' = made
<1>14. ASSUME NEW l \in Loaders, CacheReady(l), Same
       PROVE  /\ UNCHANGED <<live, snapshot>>
              /\ \A k \in Loaders : loader'[k].read = loader[k].read
  BY <1>2, <1>14 DEF CacheReady, SInv
<1>15. ASSUME NEW l \in Loaders, NEW g \in Guilds, LoadRow(l, g), Same
       PROVE  /\ UNCHANGED <<live, snapshot>>
              /\ \A k \in Loaders : Good(loader'[k].read)
  <2> DEFINE entry == Loaded(g, stored'[g])
             read == With(EmptyMap, g, entry)
  <2>1. stored' = Upsert(g) /\ UNCHANGED <<live, snapshot>>
    BY <1>15 DEF LoadRow
  <2>2. g \in DOMAIN stored'
    BY <1>2, <2>1, UpsertIsOK DEF SInv, Ids
  <2>3. Good(read)
    <3>1. entry.id = g /\ entry.profile = stored'[g].profile
      BY DEF Loaded
    <3> HIDE DEF entry
    <3>2. ProfileFromRow(read, stored', g)
      BY <2>2, <3>1 DEF With, ProfileFromRow
    <3>3. FromRow(read, stored', g)
      BY <2>2 DEF With, FromRow, entry
    <3> QED BY <1>9, <1>10, <3>2, <3>3
  <2>4. loader' = [loader EXCEPT ![l] = [todo |-> @.todo \ {g}, read |-> read]]
    BY <1>15 DEF LoadRow
  <2>5. \A k \in Loaders : Good(loader[k].read)
    BY <1>8, <1>15
  <2> HIDE DEF read
  <2>6. \A k \in Loaders : loader'[k].read = IF k = l THEN read ELSE loader[k].read
    BY <1>2, <2>4 DEF SInv
  <2> QED BY <2>1, <2>3, <2>5, <2>6
<1>16. ASSUME NEW l \in Loaders, LoadPanics(l), Same
       PROVE  /\ UNCHANGED <<live, snapshot>>
              /\ \A k \in Loaders : Good(loader'[k].read)
  <2>1. \A k \in Loaders : loader'[k].read \in {loader[k].read, EmptyMap}
    BY <1>2, <1>16 DEF LoadPanics, SInv, Resting
  <2> QED BY <1>8, <1>9, <1>16, <2>1 DEF LoadPanics
<1>17. ASSUME NEW l \in Loaders, LoadInserts(l), Same
       PROVE  /\ Good(live') /\ UNCHANGED snapshot
              /\ \A k \in Loaders : Good(loader'[k].read)
  <2>1. PICK g \in DOMAIN loader[l].read : live' = With(live, g, loader[l].read[g])
    BY <1>17 DEF LoadInserts
  <2>2. g \in Guilds
    BY <1>2, <2>1 DEF SInv, LoaderOK, MapOK
  <2>3. Good(live) /\ Good(loader[l].read) /\ \A k \in Loaders : Good(loader[k].read)
    BY <1>8, <1>17
  <2> DEFINE entry == loader[l].read[g]
  <2>4. /\ g \notin touched' => FromRow(With(EmptyMap, g, entry), stored', g)
        /\ g \notin made' => ProfileFromRow(With(EmptyMap, g, entry), stored', g)
    BY <2>1, <2>2, <2>3 DEF Good, With, FromRow, ProfileFromRow
  <2>5. Good(live')
    BY <1>10, <2>1, <2>2, <2>3, <2>4
  <2>6. \A k \in Loaders : loader'[k].read \in {loader[k].read, EmptyMap}
    BY <1>2, <1>17 DEF LoadInserts, SInv
  <2> QED BY <1>9, <1>17, <2>3, <2>5, <2>6 DEF LoadInserts
<1>18. CASE Dies
  <2>1. live' = EmptyMap /\ snapshot' = EmptyMap /\ \A l \in Loaders : loader'[l].read = EmptyMap
    BY <1>18 DEF Dies, Resting
  <2> QED BY <1>9, <2>1
<1>19. CASE Signal /\ Same
  BY <1>8, <1>19 DEF Signal
<1>20. CASE UNCHANGED <<live, snapshot, loader>> /\ Same
  BY <1>8, <1>20
<1>21. ASSUME UNCHANGED <<snapshot, loader>>, Good(live'), touched \subseteq touched', made \subseteq made'
       PROVE  Good(live') /\ Good(snapshot') /\ \A l \in Loaders : Good(loader'[l].read)
  BY <1>8, <1>21
<1>22. ASSUME NEW l \in Loaders, CacheReady(l) \/ Load(l), Same
       PROVE  Good(live') /\ Good(snapshot') /\ \A k \in Loaders : Good(loader'[k].read)
  BY <1>8, <1>14, <1>15, <1>16, <1>17, <1>22 DEF Load
<1>23. ASSUME NEW g \in Guilds, ToggleAutopause(g) \/ \E level \in Levels : SetVolume(g, level),
              Commanded(g)
       PROVE  Good(live') /\ Good(snapshot') /\ \A l \in Loaders : Good(loader'[l].read)
  BY <1>11, <1>12, <1>21, <1>23
<1>24. ASSUME NEW g \in Guilds, Create(g), touched' = touched \union {g}, made' = made \union {g}
       PROVE  Good(live') /\ Good(snapshot') /\ \A l \in Loaders : Good(loader'[l].read)
  BY <1>13, <1>21, <1>24
<1>25. CASE SaveEach /\ Same
  BY <1>20, <1>25 DEF SaveEach, Save, SaveFails
<1> QED
  BY <1>18, <1>19, <1>20, <1>22, <1>23, <1>24, <1>25
  DEF MCNext, GetOrCreate, Restart, Exit, Crash, mcvars, vars

LEMMA InitTracked == Init => TrackedInv
<1> SUFFICES ASSUME Init PROVE TrackedInv
  OBVIOUS
<1>1. SInv
  BY InitSInv
<1>2. WholeRows(stored)
  BY DEF Init, WholeRows
<1>3. live = EmptyMap /\ snapshot = EmptyMap /\ \A l \in Loaders : loader[l].read = EmptyMap
  BY DEF Init, Resting
<1>4. ASSUME NEW g, NEW table
      PROVE  FromRow(EmptyMap, table, g) /\ ProfileFromRow(EmptyMap, table, g)
  BY DEF FromRow, ProfileFromRow, EmptyMap
<1> QED BY <1>1, <1>2, <1>3, <1>4 DEF TrackedInv

LEMMA TrackedHolds == TrackedSpec => []TrackedInv /\ [][MCNext]_mcvars
BY InitTracked, NextTracked, PTL DEF TrackedSpec

LEMMA MCSpecIsTracked == MCSpec => TrackedSpec
BY DEF MCSpec, MCInit, TrackedSpec

\* Loads, saves, failed saves, crashes and restarts leave the row of a guild alone
\* that no command of this life touched, whatever rows there were at first.
THEOREM UntouchedStay == (TrackedSpec \/ MCSpec) => UntouchedRowsStay
<1> DEFINE Stay == \A g \in Guilds : g \in DOMAIN stored \ touched => stored'[g] = stored[g]
<1>1. TrackedInv /\ [MCNext]_mcvars => Stay
  BY MCNextIsNext, RowStep DEF Keeps
<1>2. []TrackedInv /\ [][MCNext]_mcvars => [][Stay]_mcvars
  BY <1>1, PTL
<1> QED BY <1>2, TrackedHolds, MCSpecIsTracked, PTL DEF UntouchedRowsStay

\* The settings in a row that no command changes are lost only if a command of this
\* life made or replaced the guild's entry.
THEOREM ProfilesStay == (TrackedSpec \/ MCSpec) => ProfileLostOnlyIfMade
<1> DEFINE Lost == \A g \in DOMAIN stored \intersect Guilds :
                     stored'[g].profile # stored[g].profile => g \in made
<1>1. TrackedInv /\ [MCNext]_mcvars => Lost
  BY MCNextIsNext, RowStep DEF KeepsProfile
<1>2. []TrackedInv /\ [][MCNext]_mcvars => [][Lost]_mcvars
  BY <1>1, PTL
<1> QED BY <1>2, TrackedHolds, MCSpecIsTracked, PTL DEF ProfileLostOnlyIfMade
=============================================================================
