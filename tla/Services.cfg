\* Each of the small services by itself.
CONSTANTS
  Guilds = {g1}
  c1 = c1  c2 = c2
  Channels = {c1, c2}
  Users = {u1, u2}
  Tasks = {t1, t2}
  MaxEvents = 2
  Members = {u1}
  MaxPermissionRows = 1
  Voters = {u1}
  MaxPosts = 3
  MaxTracks = 3
  Roles = {r1}
  MaxChanges = 3
  MaxPlays = 2
  MaxList = 3
  ChunkSize = 2
  Writers = {u1}
  MaxCommands = 3
  CellCount = 2
  ByteValues = 2
  MaxCode = 4
  MaxOutput = 1
  Owners = {u1}
  PlaylistNames = {n1}
  Songs = {s1}
  MaxPlaylists = 2
  MaxSaved = 2
SPECIFICATION Spec
CHECK_DEADLOCK FALSE
INVARIANTS ServicesTypeOK IgnoredStaysQuiet RevokedStaysRevoked WebhookRowsExplained TracksKept
  SavedProfileLoads ReplyNamesItsTrack CleanReportsAreTrue
  DeletedPlaylistsAreGone
PROPERTIES EchoesDie JumpsMatch
