----------------------------- MODULE MCPlayback -----------------------------
(* Small instances of Playback for TLC. *)
EXTENDS PlaybackProperties, TLC

PlayerCommands == {"play", "list", "skip", "voteskip", "remove", "clear", "stop", "pause",
                   "resume", "autoplay", "autopause", "queue", "voice"}
QueueCommands == {"play", "next", "list", "playlist", "skip", "remove", "clear", "stop",
                  "shuffle", "movesong"}

\* Sound for safety: the specification treats tracks alike, and users alike.
Symmetry == Permutations(Track) \cup Permutations(User)
=============================================================================
