------------------------- MODULE PlaybackProperties -------------------------
(***************************************************************************)
(* What Playback must satisfy: its type invariant, safety invariants,      *)
(* action and liveness properties, the abstract queue it implements, and   *)
(* the statements of the code base that the code does not keep.            *)
(***************************************************************************)
EXTENDS Playback

\* Every variable has its type, and the mutexes are held by exactly the
\* commands that are inside a critical section.
CriticalPc == {"frontLook", "frontMove", "listMove", "move", "remove",
               "vote", "skipStop", "skipDequeue", "skipResume"}
Holds(u) == \/ task[u].pc \in CriticalPc
            \/ task[u].pc = "bulk" /\ task[u].at > 0
TypeOK ==
  /\ queue \in Seq(Track)
  /\ mode \in [Track -> Mode]
  /\ started \in SUBSET Track /\ ended \in SUBSET Track
  /\ lock \in User \cup {NoUser} /\ cacheLock \in User \cup {NoUser}
  /\ task \in [User -> [pc : CmdPc, at : Nat, to : Nat]]
  /\ endh \in [pc : EndPc, batch : SUBSET Track, autoplay : BOOLEAN]
  /\ votes \in SUBSET User /\ present \in SUBSET User
  /\ votedOn \in [User -> SUBSET Track]
  /\ autoplay \in {"unset", "on", "off"} /\ autopause \in BOOLEAN /\ watched \in BOOLEAN
  /\ \A u \in User : Holds(u) <=> lock = u
  /\ cacheLock # NoUser => cacheLock = lock

\* A command that edits the queue never puts a track that has been heard
\* behind the head: the tail only holds tracks nobody has started, so the
\* queue cannot play a song twice or leave two of its tracks playing.
TailNeverStarted ==
  \A i \in 2..Len(queue) : /\ queue[i] \notin started
                           /\ mode[queue[i]] = "pause"
                           /\ queue[i] # queue[1]

\* A finished track still in the queue is the head, and its End event is
\* still to be delivered: the queue cannot hang on a track that is over.
FinishedTrackHasEvent ==
  \A t \in Queued : mode[t] \in Finished => t = queue[1] /\ t \in ended

\* A skip vote is kept only as long as its song concerns the player: the
\* song is queued, or its End event is undelivered or being handled, or it
\* was leaked by a skip and is still in the mixer.
Handling == IF endh.pc \in {"autoplay", "settings", "pause", "votes"}
            THEN endh.batch ELSE {}
VotesDieWithTheirSong ==
  \A u \in votes : \A t \in votedOn[u] :
     t \in Queued \cup ended \cup Handling \/ Live(t)

\* The song that a command takes out and inserts again, and where to.
Reinserts(u) == Reorder(u) \/ MoveToFront(u) \/ InsertQueued(u) \/ InsertPanics(u)
Moved(u) == IF task[u].pc = "move" THEN queue[task[u].at + 1] ELSE queue[Len(queue)]
Target(u) == CASE task[u].pc = "move" -> task[u].to
               [] task[u].pc = "frontMove" -> 1
               [] OTHER -> InsertPos(u)

\* A live track leaves the queue without being stopped in three ways only:
\* skip n drains the tracks behind the head, dequeue(0) takes the head that
\* follows a skipped track the QueueHandler has already popped, and a
\* command that moves a song finds the queue too short to insert it again.
\* Remove, clear and stop always stop what they take out.
Leaks(t) == /\ t \in Queued /\ t \notin Queued'
            /\ mode'[t] \in {"pause", "play"}
OnlySkipsAndPanicsLeak ==
  [][\A t \in Track : Leaks(t) => \E u \in User :
       \/ t # queue[1] /\ \E n \in 1..Len(queue) : Skip(u, n)
       \/ t = queue[1] /\ SkipDequeue(u)
       \/ t = Moved(u) /\ Target(u) >= Len(queue) /\ Reinserts(u)]_vars

\* A head that was never told to play, outside of a skip in progress, is
\* the work of remove with index 0 alone; every other command, and every
\* order of events, leaves a head that has been started.
Stalled == /\ queue # <<>> /\ queue[1] \notin started
           /\ \A u \in User : task[u].pc \notin {"skipDequeue", "skipResume"}
OnlyRemoveStalls ==
  [][~Stalled /\ Stalled' =>
       \E u \in User : task[u].at = 0 /\ DrainTracks(u)]_vars

\* A finished head leaves the queue, whatever the commands do meanwhile,
\* unless a handler panics and takes the event task of the call with it.
FinishedHeadLeaves ==
  \A t \in Track :
     (t \in Queued /\ mode[t] \in Finished) ~> (t \notin Queued \/ endh.pc = "dead")

\* The Call's mutex is always given back: no command holds it for ever,
\* alone or in a cycle with guild_cache_map and the event task.
CallIsReleased == \A u \in User : (lock = u) ~> (lock # u)

\* The queue implements the jukebox.
LifeOf(t) == CASE mode[t] = "new" -> "new"
               [] mode[t] # "new" /\ t \notin Queued -> "gone"
               [] mode[t] # "new" /\ t \in Queued /\ t = queue[1] -> "current"
               [] OTHER -> "waiting"
Abstract == INSTANCE Jukebox WITH life <- [t \in Track |-> LifeOf(t)]
JukeboxSpec == Abstract!Spec

-----------------------------------------------------------------------------
(* Statements of the code base that do not hold of the code.               *)

\* skip.rs:113-116: the top song is stopped and then manually removed.
\* QueueHandler can pop it in between, and dequeue(0) takes the next one.
SkipRemovesStoppedTrack ==
  [][\A u \in User : SkipDequeue(u) /\ queue # <<>> => mode[queue[1]] \in Finished]_vars
=============================================================================
