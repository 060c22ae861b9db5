------------------------- MODULE PlaybackStepProofs -------------------------
(***************************************************************************)
(* Proofs about the steps of Playback: which tracks a step may take out of *)
(* the queue, how a head can be left silent, how long a skip vote may      *)
(* outlive its song, and that the queue implements the Jukebox.  They rest *)
(* on IInv of PlaybackProofs and on StepInv, which ties the tracks' modes  *)
(* to what has been started and to the End events that are pending.        *)
(***************************************************************************)
EXTENDS PlaybackProofs, FiniteSetTheorems

EndedAreFinished == \A t \in ended : mode[t] \in Finished
PlayingIsStarted == \A t \in Track : mode[t] = "play" => t \in started
\* Before force_skip_top_track resumes, the head is playable or was heard.
ResumeFindsHead ==
  \A u \in User : task[u].pc = "skipResume" /\ queue # <<>>
                    => queue[1] \in started \/ mode[queue[1]] = "pause"
StepInv == EndedAreFinished /\ PlayingIsStarted /\ ResumeFindsHead

-----------------------------------------------------------------------------
(* What a step may do to a track: it enters the mixer, is paused or        *)
(* played, or is finished, and then its End event is pending.              *)

Advances(t) ==
  /\ \/ mode'[t] = mode[t]
     \/ mode[t] = "new" /\ mode'[t] \in {"pause", "play"}
     \/ Live(t) /\ mode'[t] \in {"pause", "play"}
     \/ Live(t) /\ mode'[t] \in Finished /\ t \in ended'
  /\ mode'[t] = "play" => mode[t] = "play" \/ t \in started'
  /\ t \in started => t \in started'
  /\ t \in ended' => t \in ended \/ mode'[t] \in Finished
ModesAdvance == \A t \in Track : Advances(t)

LEMMA SameAdvances ==
  ASSUME UNCHANGED <<mode, started>>, ended' \subseteq ended
  PROVE  ModesAdvance
BY DEF ModesAdvance, Advances

LEMMA StopAdvances ==
  ASSUME mode \in [Track -> Mode], NEW S \in SUBSET Track, StopTracks(S), UNCHANGED started
  PROVE  ModesAdvance
BY DEF ModesAdvance, Advances, StopTracks, Live, Finished

LEMMA PlayAdvances ==
  ASSUME mode \in [Track -> Mode], NEW q \in Seq(Track), PlayHead(q), ended' \subseteq ended
  PROVE  ModesAdvance
<1>1. CASE q # <<>> /\ Live(q[1])
  <2>1. /\ q[1] \in Track /\ mode' = [mode EXCEPT ![q[1]] = "play"]
        /\ started' = started \cup {q[1]} /\ mode[q[1]] \in {"pause", "play"}
    BY <1>1 DEF PlayHead, Live
  <2> QED BY <2>1 DEF ModesAdvance, Advances, Live
<1>2. CASE ~(q # <<>> /\ Live(q[1]))
  BY <1>2, SameAdvances DEF PlayHead
<1> QED BY <1>1, <1>2

LEMMA PauseAdvances ==
  ASSUME QInv, PauseTop, UNCHANGED <<started, ended>>
  PROVE  ModesAdvance
<1>1. CASE queue # <<>> /\ Live(queue[1])
  <2>1. /\ queue[1] \in Track /\ mode' = [mode EXCEPT ![queue[1]] = "pause"]
        /\ mode[queue[1]] \in {"pause", "play"}
    BY <1>1 DEF PauseTop, Live, QInv
  <2> QED BY <2>1 DEF ModesAdvance, Advances, Live, QInv
<1>2. CASE ~(queue # <<>> /\ Live(queue[1]))
  BY <1>2, SameAdvances DEF PauseTop
<1> QED BY <1>1, <1>2

LEMMA EnterAdvances ==
  ASSUME mode \in [Track -> Mode], NEW t \in Fresh, EnterMixer(t), UNCHANGED ended
  PROVE  ModesAdvance
<1>1. t \in Track /\ mode[t] = "new"
  BY DEF Fresh
<1> QED BY <1>1 DEF ModesAdvance, Advances, EnterMixer

LEMMA TrackEndsAdvances ==
  ASSUME mode \in [Track -> Mode], NEW t \in Track, TrackEnds(t)
  PROVE  ModesAdvance
<1>1. PICK m \in {"end", "error"} : mode' = [mode EXCEPT ![t] = m]
  BY DEF TrackEnds
<1>2. mode[t] = "play" /\ ended' = ended \cup {t} /\ UNCHANGED started
  BY DEF TrackEnds
<1> QED BY <1>1, <1>2 DEF ModesAdvance, Advances, Live, Finished

LEMMA RequestAdvances ==
  ASSUME QInv, NEW u \in User, Request(u)
  PROVE  ModesAdvance
<1>0. mode \in [Track -> Mode] /\ queue \in Seq(Track)
  BY DEF QInv
<1>1. CASE UNCHANGED <<mode, started, ended>>
  BY <1>1, SameAdvances
<1>3. CASE Clear(u)
  <2>1. StopTracks({queue[i] : i \in 2..Len(queue)}) /\ UNCHANGED started
    BY <1>3 DEF Clear
  <2>2. {queue[i] : i \in 2..Len(queue)} \in SUBSET Track
    BY <1>0
  <2> QED BY <1>0, <2>1, <2>2, StopAdvances
<1>4. CASE Pause(u)
  BY <1>4, PauseAdvances DEF Pause
<1>5. CASE Resume(u)
  BY <1>0, <1>5, PlayAdvances DEF Resume
<1> QED
  BY <1>1, <1>3, <1>4, <1>5
     DEF Request, Play, PlayNext, PlayNextList, PlayList, Skip, VoteSkip, RemoveTracks, Stop,
         Shuffle, MoveSong, ToggleAutoplay, ToggleAutopause, WatchQueue, queueVars

LEMMA ContinueAdvances ==
  ASSUME QInv, CmdInv, NEW u \in User, Continue(u)
  PROVE  ModesAdvance
<1>0. mode \in [Track -> Mode] /\ queue \in Seq(Track)
  BY DEF QInv
<1>1. CASE UNCHANGED <<mode, started, ended>>
  BY <1>1, SameAdvances
<1>2. CASE QueueTrackBack(u) \/ QueueReadyTrack(u) \/ QueueTrackFront(u) \/ EnqueueListed(u)
  <2>1. \E t \in Fresh : EnterMixer(t)
    BY <1>2 DEF QueueTrackBack, QueueReadyTrack, QueueTrackFront, EnqueueListed, Enqueue
  <2>2. UNCHANGED ended
    BY <1>2 DEF QueueTrackBack, QueueReadyTrack, QueueTrackFront, EnqueueListed, Enqueue
  <2> QED BY <1>0, <2>1, <2>2, EnterAdvances
<1>3. CASE SkipStop(u)
  <2>1. StopTracks({queue[1]}) /\ UNCHANGED started /\ queue # <<>>
    BY <1>3 DEF SkipStop
  <2>2. {queue[1]} \in SUBSET Track
    BY <1>0, <2>1
  <2> QED BY <1>0, <2>1, <2>2, StopAdvances
<1>4. CASE SkipResume(u)
  BY <1>0, <1>4, PlayAdvances DEF SkipResume
<1>5. CASE StopQueue(u)
  <2>1. StopTracks(Queued) /\ UNCHANGED started
    BY <1>5 DEF StopQueue
  <2>2. Queued \in SUBSET Track
    BY <1>0 DEF Queued
  <2> QED BY <1>0, <2>1, <2>2, StopAdvances
<1>6. CASE DrainTracks(u)
  <2>1. CASE task[u].to < Len(queue)
    <3> DEFINE S == {queue[i] : i \in (task[u].at + 1)..(task[u].to + 1)}
    <3>1. StopTracks(S) /\ UNCHANGED started
      BY <1>6, <2>1 DEF DrainTracks
    <3>2. S \in SUBSET Track
      <4>1. task[u].at \in Nat /\ task[u].to \in Nat
        BY DEF CmdInv
      <4> QED BY <1>0, <2>1, <4>1
    <3> HIDE DEF S
    <3> QED BY <1>0, <3>1, <3>2, StopAdvances
  <2>2. CASE ~(task[u].to < Len(queue))
    BY <1>1, <1>6, <2>2 DEF DrainTracks
  <2> QED BY <2>1, <2>2
<1> QED
  BY <1>1, <1>2, <1>3, <1>4, <1>5, <1>6
     DEF Continue, LookAtFront, MoveToFront, ReadQueueSize, InsertQueued, InsertPanics,
         ResolveFails, SkipPanics, SkipDequeue, CastVote, Reorder, queueVars

LEMMA EventTaskAdvances ==
  ASSUME QInv, EventTask \/ EventTaskPanics
  PROVE  ModesAdvance
<1>0. mode \in [Track -> Mode] /\ queue \in Seq(Track)
  BY DEF QInv
<1>1. CASE UNCHANGED <<mode, started, ended>>
  BY <1>1, SameAdvances
<1>2. CASE Dispatch
  <2>1. ended' \subseteq ended
    BY <1>2 DEF Dispatch
  <2>2. \/ queue # <<>> /\ PlayHead(Tail(queue))
        \/ UNCHANGED <<mode, started>>
    BY <1>2 DEF Dispatch
  <2>3. queue # <<>> => Tail(queue) \in Seq(Track)
    BY <1>0
  <2> QED BY <1>0, <2>1, <2>2, <2>3, PlayAdvances, SameAdvances
<1>3. CASE PauseAfterTrack
  BY <1>3, PauseAdvances DEF PauseAfterTrack
<1>4. CASE QueueRecommended
  BY <1>0, <1>4, EnterAdvances DEF QueueRecommended, Enqueue
<1> QED
  BY <1>1, <1>2, <1>3, <1>4
     DEF EventTask, ReadAutoplay, ReadSettings, ForgetSkipVotes, Decide, DisableAutoplay,
         ReadCurrent, GetRecommendation, RecommendationFails, RefreshQueue, SetVolume,
         EventTaskPanics, CurrentPanics, VolumePanics, queueVars

LEMMA StepAdvances ==
  ASSUME QInv, CmdInv, [Next]_vars
  PROVE  ModesAdvance
<1>1. ASSUME NEW t \in Track, TrackEnds(t) PROVE ModesAdvance
  BY <1>1, TrackEndsAdvances DEF QInv
<1>2. ASSUME NEW u \in User, Request(u) \/ Continue(u) PROVE ModesAdvance
  BY <1>2, RequestAdvances, ContinueAdvances
<1>3. ASSUME NEW u \in User, MoveInVoice(u) PROVE ModesAdvance
  BY <1>3, SameAdvances DEF MoveInVoice, queueVars
<1>4. CASE UNCHANGED vars
  BY <1>4, SameAdvances DEF vars, queueVars
<1> QED BY <1>1, <1>2, <1>3, <1>4, EventTaskAdvances DEF Next

-----------------------------------------------------------------------------
(* What a step may do to the queue: a fresh track arrives behind the head  *)
(* or in an empty queue, or tracks leave and the head, if it stays, stays  *)
(* the head.                                                               *)

NewStay(S) == \A s \in Track : mode'[s] = "new" <=> mode[s] = "new" /\ s \notin S
Arrives(t) ==
  /\ t \in Fresh /\ NewStay({t})
  /\ Queued' = Queued \cup {t} /\ queue' # <<>>
  /\ queue = <<>> => queue'[1] = t /\ t \in started'
  /\ queue # <<>> => queue'[1] = queue[1]
Shrinks ==
  /\ NewStay({}) /\ Queued' \subseteq Queued
  /\ queue # <<>> /\ queue[1] \in Queued' => queue' # <<>> /\ queue'[1] = queue[1]
QueueStep == Shrinks \/ \E t \in Fresh : Arrives(t)

LEMMA SameQueueShrinks ==
  ASSUME NewStay({}), UNCHANGED queue
  PROVE  Shrinks
BY DEF Shrinks, Queued

LEMMA EnterNews ==
  ASSUME mode \in [Track -> Mode], NEW t \in Fresh, EnterMixer(t)
  PROVE  /\ NewStay({t}) /\ t \in Track /\ mode[t] = "new"
         /\ queue = <<>> => t \in started'
BY DEF NewStay, EnterMixer, Fresh

\* VecDeque::insert behind the head, or into an empty queue.
LEMMA InsertArrives ==
  ASSUME QInv, NEW t \in Fresh, NEW i \in 1..Len(queue) + 1,
         i = 1 => queue = <<>>,
         EnterMixer(t), queue' = InsertAt(queue, i, t)
  PROVE  Arrives(t)
<1>0. mode \in [Track -> Mode] /\ queue \in Seq(Track)
  BY DEF QInv
<1>1. NewStay({t}) /\ t \in Track /\ (queue = <<>> => t \in started')
  BY <1>0, EnterNews
<1>2. /\ Len(queue') = Len(queue) + 1
      /\ \A j \in 1..Len(queue) + 1 :
           queue'[j] = IF j < i THEN queue[j] ELSE IF j = i THEN t ELSE queue[j - 1]
  <2>1. ASSUME NEW q \in Seq(Track), NEW k \in 1..Len(q) + 1
        PROVE  /\ Len(InsertAt(q, k, t)) = Len(q) + 1
               /\ \A j \in 1..Len(q) + 1 : InsertAt(q, k, t)[j] =
                    IF j < k THEN q[j] ELSE IF j = k THEN t ELSE q[j - 1]
    BY <1>1, InsertAtProperties, SMT
  <2>2. /\ Len(InsertAt(queue, i, t)) = Len(queue) + 1
        /\ \A j \in 1..Len(queue) + 1 : InsertAt(queue, i, t)[j] =
             IF j < i THEN queue[j] ELSE IF j = i THEN t ELSE queue[j - 1]
    BY <1>0, <2>1, Zenon
  <2> QED BY <2>2
<1>3. queue' # <<>>
  BY <1>0, <1>2
<1>4. Queued' \subseteq Queued \cup {t}
  <2> SUFFICES ASSUME NEW j \in 1..Len(queue') PROVE queue'[j] \in Queued \cup {t}
    BY DEF Queued
  <2>1. CASE j < i
    BY <2>1, <1>0, <1>2 DEF Queued
  <2>2. CASE j = i
    BY <2>2, <1>0, <1>2
  <2>3. CASE j > i
    <3>1. j - 1 \in 1..Len(queue) /\ queue'[j] = queue[j - 1]
      BY <2>3, <1>0, <1>2
    <3> QED BY <3>1 DEF Queued
  <2> QED BY <1>0, <1>2, <2>1, <2>2, <2>3
<1>5. Queued \cup {t} \subseteq Queued'
  <2>1. queue'[i] = t /\ i \in 1..Len(queue')
    BY <1>0, <1>2
  <2>2. ASSUME NEW j \in 1..Len(queue) PROVE \E k \in 1..Len(queue') : queue'[k] = queue[j]
    <3>1. CASE j < i
      <4>1. j \in 1..Len(queue') /\ queue'[j] = queue[j]
        BY <3>1, <1>0, <1>2
      <4> QED BY <4>1
    <3>2. CASE ~(j < i)
      <4>1. j + 1 \in 1..Len(queue') /\ queue'[j + 1] = queue[j]
        BY <3>2, <1>0, <1>2
      <4> QED BY <4>1
    <3> QED BY <3>1, <3>2
  <2> QED BY <2>1, <2>2 DEF Queued
<1>6. queue = <<>> => queue'[1] = t
  BY <1>0, <1>2
<1>7. queue # <<>> => queue'[1] = queue[1]
  BY <1>0, <1>2
<1> QED BY <1>1, <1>3, <1>4, <1>5, <1>6, <1>7 DEF Arrives

LEMMA AppendIsInsert ==
  ASSUME NEW t \in Track, queue \in Seq(Track)
  PROVE  Append(queue, t) = InsertAt(queue, Len(queue) + 1, t)
<1>1. SubSeq(queue, Len(queue) + 1, Len(queue)) = <<>> /\ SubSeq(queue, 1, Len(queue)) = queue
  OBVIOUS
<1>2. queue \o <<t>> \o <<>> = Append(queue, t)
  OBVIOUS
<1> QED BY <1>1, <1>2 DEF InsertAt

LEMMA EnqueueArrives ==
  ASSUME QInv, NEW t \in Fresh, EnterMixer(t), queue' = Append(queue, t)
  PROVE  Arrives(t)
<1>1. Len(queue) + 1 \in 1..Len(queue) + 1 /\ queue \in Seq(Track) /\ t \in Track
  BY DEF QInv, Fresh
<1>2. Len(queue) + 1 = 1 => queue = <<>>
  BY <1>1
<1> QED BY <1>1, <1>2, AppendIsInsert, InsertArrives

\* The commands that enqueue.
LEMMA EnqueuersArrive ==
  ASSUME QInv, NEW u \in User,
         QueueTrackBack(u) \/ QueueReadyTrack(u) \/ QueueTrackFront(u) \/ EnqueueListed(u)
  PROVE  \E t \in Fresh : Arrives(t)
BY EnqueueArrives DEF QueueTrackBack, QueueReadyTrack, QueueTrackFront, EnqueueListed, Enqueue

\* The new queue selects tracks of the old one and keeps its head in front.
LEMMA SelectShrinks ==
  ASSUME QInv, NewStay({}), queue' \in Seq(Track),
         NEW f \in [1..Len(queue') -> 1..Len(queue)],
         \A j \in 1..Len(queue') : queue'[j] = queue[f[j]],
         \A j \in 2..Len(queue') : f[j] # 1
  PROVE  Shrinks
<1>0. queue \in Seq(Track)
  BY DEF QInv
<1>1. Queued' \subseteq Queued
  BY DEF Queued
<1>2. ASSUME queue # <<>>, queue[1] \in Queued' PROVE queue' # <<>> /\ queue'[1] = queue[1]
  <2>1. PICK j \in 1..Len(queue') : queue'[j] = queue[1]
    BY <1>2 DEF Queued
  <2>2. f[j] \in 1..Len(queue) /\ 1 \in 1..Len(queue) /\ queue[f[j]] = queue[1]
    BY <1>0, <1>2, <2>1
  <2>3. f[j] = 1
    BY <2>2 DEF QInv, Distinct
  <2>4. j = 1
    BY <2>3
  <2> QED BY <2>1, <2>4
<1> QED BY <1>1, <1>2 DEF Shrinks

LEMMA CutShrinks ==
  ASSUME QInv, NewStay({}), queue' \in Seq(Track),
         NEW b \in 0..Len(queue), NEW e \in b..Len(queue),
         Len(queue') = Len(queue) - (e - b),
         \A j \in 1..Len(queue') : queue'[j] = IF j <= b THEN queue[j] ELSE queue[j + (e - b)]
  PROVE  Shrinks
<1> DEFINE f == [j \in 1..Len(queue') |-> IF j <= b THEN j ELSE j + (e - b)]
<1>1. queue \in Seq(Track)
  BY DEF QInv
<1>2. /\ f \in [1..Len(queue') -> 1..Len(queue)]
      /\ \A j \in 1..Len(queue') : f[j] = IF j <= b THEN j ELSE j + (e - b)
  BY <1>1
<1>3. /\ \A j \in 1..Len(queue') : queue'[j] = queue[f[j]]
      /\ \A j \in 2..Len(queue') : f[j] # 1
  BY <1>2
<1> HIDE DEF f
<1> QED BY <1>2, <1>3, SelectShrinks

\* QueueHandler's pop and dequeue(0).
LEMMA PopShrinks ==
  ASSUME QInv, NewStay({}), queue # <<>>, queue' = Tail(queue)
  PROVE  Shrinks
<1> DEFINE f == [j \in 1..Len(queue') |-> j + 1]
<1>1. queue \in Seq(Track) /\ queue' \in Seq(Track)
  BY DEF QInv
<1>2. /\ f \in [1..Len(queue') -> 1..Len(queue)]
      /\ \A j \in 1..Len(queue') : queue'[j] = queue[f[j]]
      /\ \A j \in 2..Len(queue') : f[j] # 1
  BY <1>1
<1> HIDE DEF f
<1> QED BY <1>1, <1>2, SelectShrinks

LEMMA StopNews ==
  ASSUME mode \in [Track -> Mode], NEW S, StopTracks(S)
  PROVE  NewStay({})
BY DEF StopTracks, NewStay, Live, Finished

LEMMA PlayNews ==
  ASSUME mode \in [Track -> Mode], NEW q \in Seq(Track), PlayHead(q)
  PROVE  NewStay({})
<1>1. CASE q # <<>> /\ Live(q[1])
  <2>1. q[1] \in Track /\ mode' = [mode EXCEPT ![q[1]] = "play"] /\ mode[q[1]] # "new"
    BY <1>1 DEF PlayHead, Live
  <2> QED BY <2>1 DEF NewStay
<1>2. CASE ~(q # <<>> /\ Live(q[1]))
  BY <1>2 DEF PlayHead, NewStay
<1> QED BY <1>1, <1>2

LEMMA PauseNews ==
  ASSUME QInv, PauseTop
  PROVE  NewStay({})
<1>1. CASE queue # <<>> /\ Live(queue[1])
  <2>1. queue[1] \in Track /\ mode' = [mode EXCEPT ![queue[1]] = "pause"] /\ mode[queue[1]] # "new"
    BY <1>1 DEF PauseTop, Live, QInv
  <2> QED BY <2>1 DEF NewStay, QInv
<1>2. CASE ~(queue # <<>> /\ Live(queue[1]))
  BY <1>2 DEF PauseTop, NewStay
<1> QED BY <1>1, <1>2

LEMMA SameNews ==
  ASSUME UNCHANGED mode
  PROVE  NewStay({})
BY DEF NewStay

LEMMA ShuffleFacts ==
  ASSUME QInv, NEW u \in User, Shuffle(u)
  PROVE  Shrinks /\ Queued' = Queued
<1>1. PICK p \in TailPermutations(Len(queue)) : queue' = [i \in 1..Len(queue) |-> queue[p[i]]]
  BY DEF Shuffle
<1>2. queue \in Seq(Track) /\ Len(queue) \in Nat /\ queue # <<>> /\ UNCHANGED mode
  BY DEF Shuffle, QInv
<1>3. /\ p \in [1..Len(queue) -> 1..Len(queue)] /\ p[1] = 1
      /\ \A i, j \in 1..Len(queue) : p[i] = p[j] => i = j
  BY DEF TailPermutations
<1>4. /\ queue' \in Seq(Track) /\ Len(queue') = Len(queue)
      /\ \A j \in 1..Len(queue') : queue'[j] = queue[p[j]]
  BY <1>1, <1>2, <1>3
<1>5. \A j \in 2..Len(queue') : p[j] # 1
  BY <1>2, <1>3, <1>4
<1>6. p \in Injection(1..Len(queue), 1..Len(queue))
  BY <1>3 DEF Injection, IsInjective
<1>7. p \in Surjection(1..Len(queue), 1..Len(queue))
  BY <1>2, <1>6, FS_Interval, FS_Injection
<1>8. \A k \in 1..Len(queue) : \E j \in 1..Len(queue) : p[j] = k
  BY <1>7 DEF Surjection
<1>9. Queued \subseteq Queued'
  <2> SUFFICES ASSUME NEW k \in 1..Len(queue) PROVE \E j \in 1..Len(queue') : queue'[j] = queue[k]
    BY DEF Queued
  <2>1. PICK j \in 1..Len(queue) : p[j] = k
    BY <1>8
  <2> QED BY <2>1, <1>4
<1>10. Shrinks
  BY <1>2, <1>3, <1>4, <1>5, SameNews, SelectShrinks
<1> QED BY <1>9, <1>10 DEF Shrinks

\* movesong: where the element at index k of the old queue is now.
MovedTo(at, to, k) ==
  IF k = at + 1 THEN to + 1
  ELSE LET d == IF k < at + 1 THEN k ELSE k - 1 IN IF d < to + 1 THEN d ELSE d + 1

LEMMA MoveFacts ==
  ASSUME QInv, NEW at \in 1..Len(queue), NEW to \in 1..Len(queue),
         at < Len(queue), to < Len(queue), UNCHANGED mode,
         queue' = InsertAt(RemoveAt(queue, at + 1), to + 1, queue[at + 1])
  PROVE  Shrinks /\ Queued' = Queued
<1> DEFINE f == [j \in 1..Len(queue) |-> MovedFrom(at, to, j)]
<1>1. queue \in Seq(Track) /\ at < Len(queue) /\ to < Len(queue) /\ UNCHANGED mode
  BY DEF QInv
<1>2. /\ queue' \in Seq(Track) /\ Len(queue') = Len(queue)
      /\ \A j \in 1..Len(queue) : queue'[j] = queue[MovedFrom(at, to, j)]
  BY <1>1, MoveProperties
<1>3. /\ f \in [1..Len(queue) -> 1..Len(queue)]
      /\ \A j \in 1..Len(queue) : f[j] = MovedFrom(at, to, j)
      /\ \A j \in 2..Len(queue) : f[j] # 1
  BY <1>1 DEF MovedFrom
<1> HIDE DEF f
<1>4. Shrinks
  BY <1>1, <1>2, <1>3, SameNews, SelectShrinks
<1>5. ASSUME NEW k \in 1..Len(queue)
      PROVE  MovedTo(at, to, k) \in 1..Len(queue) /\ MovedFrom(at, to, MovedTo(at, to, k)) = k
  BY <1>1 DEF MovedTo, MovedFrom
<1>6. Queued \subseteq Queued'
  <2> SUFFICES ASSUME NEW k \in 1..Len(queue) PROVE \E j \in 1..Len(queue') : queue'[j] = queue[k]
    BY DEF Queued
  <2>1. MovedTo(at, to, k) \in 1..Len(queue') /\ queue'[MovedTo(at, to, k)] = queue[k]
    BY <1>2, <1>5
  <2> QED BY <2>1
<1> QED BY <1>4, <1>6 DEF Shrinks

\* remove and insert behind the head: the song that is moved is the only
\* one that may leave, and it does when it finds no place.
LEMMA LostFacts ==
  ASSUME QInv, NEW i \in Nat, i < Len(queue), UNCHANGED mode, queue' = Lost(queue, i)
  PROVE  /\ Shrinks
         /\ \A t \in Queued \ Queued' : t = queue[i + 1]
         /\ i = 0 /\ Len(queue) <= 1 => queue' = <<>>
<1> DEFINE e == i + 1
<1>1. queue \in Seq(Track) /\ i \in 0..Len(queue) /\ e \in i..Len(queue) /\ e + 1 = i + 2
  BY DEF QInv
<1>2. queue' = SubSeq(queue, 1, i) \o SubSeq(queue, e + 1, Len(queue))
  BY <1>1 DEF Lost
<1>3. e = i + 1
  OBVIOUS
<1> HIDE DEF e
<1>4. /\ queue' \in Seq(Track) /\ Len(queue') = Len(queue) - (e - i)
      /\ \A k \in 1..Len(queue') : queue'[k] = IF k <= i THEN queue[k] ELSE queue[k + (e - i)]
  BY <1>1, <1>2, CutOfQueue
<1>5. Shrinks
  BY <1>1, <1>4, SameNews, CutShrinks
<1>6. ASSUME NEW k \in 1..Len(queue), k # i + 1 PROVE queue[k] \in Queued'
  <2>1. CASE k <= i
    <3>1. k \in 1..Len(queue') /\ queue'[k] = queue[k]
      BY <1>1, <1>3, <1>4, <2>1
    <3> QED BY <3>1 DEF Queued
  <2>2. CASE k > i + 1
    <3>1. /\ k - 1 \in 1..Len(queue') /\ ~(k - 1 <= i) /\ (k - 1) + (e - i) = k
      BY <1>1, <1>3, <1>4, <2>2
    <3>2. queue'[k - 1] = queue[k]
      BY <1>4, <3>1
    <3> QED BY <3>1, <3>2 DEF Queued
  <2> QED BY <1>6, <2>1, <2>2
<1>7. \A t \in Queued \ Queued' : t = queue[i + 1]
  BY <1>6 DEF Queued
<1>8. i = 0 /\ Len(queue) <= 1 => queue' = <<>>
  BY <1>1, <1>3, <1>4
<1> QED BY <1>5, <1>7, <1>8

LEMMA ReinsertFacts ==
  ASSUME QInv, NEW i \in Nat, NEW j \in Nat, j >= 1, i >= 1 \/ Len(queue) <= 1,
         queue' = Reinsert(queue, i, j), UNCHANGED mode
  PROVE  /\ Shrinks
         /\ queue # <<>> => queue[1] \in Queued' \/ queue' = <<>>
         /\ \A t \in Queued \ Queued' :
              i < Len(queue) /\ j >= Len(queue) /\ t = queue[i + 1]
<1>1. queue \in Seq(Track) /\ (queue # <<>> => queue[1] \in Queued)
  BY DEF QInv, Queued
<1>2. CASE i >= Len(queue)
  <2>1. UNCHANGED queue
    BY <1>1, <1>2, ReinsertCases
  <2> QED BY <1>1, <2>1, SameNews, SameQueueShrinks DEF Queued
<1>3. CASE i < Len(queue) /\ j >= Len(queue)
  <2>1. queue' = Lost(queue, i)
    BY <1>1, <1>3, ReinsertCases
  <2>2. /\ Shrinks
        /\ \A t \in Queued \ Queued' : t = queue[i + 1]
        /\ i = 0 /\ Len(queue) <= 1 => queue' = <<>>
    BY <1>3, <2>1, LostFacts
  <2>3. i >= 1 => queue[1] # queue[i + 1]
    BY <1>1, <1>3 DEF QInv, Distinct
  <2> QED BY <1>1, <1>3, <2>2, <2>3
<1>4. CASE i < Len(queue) /\ j < Len(queue)
  <2>1. i \in 1..Len(queue) /\ j \in 1..Len(queue)
    BY <1>1, <1>4
  <2>2. Shrinks /\ Queued' = Queued
    BY <1>1, <1>4, <2>1, ReinsertCases, MoveFacts
  <2> QED BY <1>1, <2>2
<1> QED BY <1>1, <1>2, <1>3, <1>4

\* The steps that take a song out and insert it again.
LEMMA ReinsertersFacts ==
  ASSUME QInv, CmdInv, NEW u \in User, Reinserts(u)
  PROVE  /\ Shrinks
         /\ queue # <<>> => queue[1] \in Queued' \/ queue' = <<>>
         /\ \A t \in Queued \ Queued' : t = Moved(u) /\ Target(u) >= Len(queue)
<1>0. /\ task[u].at \in Nat /\ task[u].to \in Nat /\ queue \in Seq(Track) /\ UNCHANGED mode
      /\ CountersOK(task[u].pc, task[u].at, task[u].to)
  BY DEF QInv, CmdInv, CountersInv, Reinserts, Reorder, MoveToFront, InsertQueued, InsertPanics
<1>1. CASE Reorder(u)
  <2> DEFINE i == task[u].at
             j == task[u].to
  <2>1. i \in Nat /\ j \in Nat /\ i >= 1 /\ j >= 1 /\ queue' = Reinsert(queue, i, j)
    BY <1>0, <1>1 DEF Reorder, CountersOK
  <2>2. Moved(u) = queue[i + 1] /\ Target(u) = j
    BY <1>1 DEF Reorder, Moved, Target
  <2> HIDE DEF i, j
  <2> QED BY <1>0, <2>1, <2>2, ReinsertFacts
<1>2. CASE MoveToFront(u) \/ InsertQueued(u) \/ InsertPanics(u)
  <2> DEFINE i == Len(queue) - 1
             j == Target(u)
  <2>1. j \in Nat /\ j >= 1 /\ queue' = MoveBack(queue, j)
    BY <1>0, <1>2 DEF MoveToFront, InsertQueued, InsertPanics, Target, InsertPos
  <2>2. Moved(u) = queue[Len(queue)]
    BY <1>2 DEF MoveToFront, InsertQueued, InsertPanics, Moved
  <2>3. CASE queue = <<>>
    <3>1. UNCHANGED queue
      BY <2>1, <2>3 DEF MoveBack
    <3> QED BY <1>0, <2>3, <3>1, SameNews, SameQueueShrinks DEF Queued
  <2>4. CASE queue # <<>>
    <3>1. i \in Nat /\ (i >= 1 \/ Len(queue) <= 1) /\ i + 1 = Len(queue)
      BY <1>0, <2>4
    <3>2. queue' = Reinsert(queue, i, j)
      BY <2>1, <2>4 DEF MoveBack
    <3>3. j = Target(u)
      OBVIOUS
    <3> HIDE DEF i, j
    <3>4. /\ Shrinks
          /\ queue # <<>> => queue[1] \in Queued' \/ queue' = <<>>
          /\ \A t \in Queued \ Queued' :
               i < Len(queue) /\ j >= Len(queue) /\ t = queue[i + 1]
      BY <1>0, <2>1, <3>1, <3>2, ReinsertFacts
    <3> QED BY <2>2, <3>1, <3>3, <3>4
  <2> QED BY <2>3, <2>4
<1> QED BY <1>1, <1>2 DEF Reinserts

-----------------------------------------------------------------------------
(* Which tracks leave, and in which mode: one lemma per operation that     *)
(* takes tracks out of the queue.                                          *)

LeaversStop == \A t \in Queued \ Queued' : mode'[t] \notin {"pause", "play"}

\* What may be said for a track that a step of u takes out live.
Excuse(u, t) ==
  \/ t # queue[1] /\ \E n \in 1..Len(queue) : Skip(u, n)
  \/ t = queue[1] /\ SkipDequeue(u)
  \/ t = Moved(u) /\ Target(u) >= Len(queue) /\ Reinserts(u)
LeaksExcused == \A t \in Track : Leaks(t) => \E u \in User : Excuse(u, t)

LEMMA StopExcused ==
  ASSUME LeaversStop
  PROVE  LeaksExcused
BY DEF LeaversStop, LeaksExcused, Leaks

LEMMA NobodyLeaves ==
  ASSUME Queued \subseteq Queued'
  PROVE  LeaksExcused
BY DEF LeaksExcused, Leaks

LEMMA StopCutFacts ==
  ASSUME QInv, NEW b \in 0..Len(queue), NEW e \in b..Len(queue),
         StopTracks({queue[i] : i \in (b + 1)..e}),
         queue' \in Seq(Track), Len(queue') = Len(queue) - (e - b),
         \A j \in 1..Len(queue') : queue'[j] = IF j <= b THEN queue[j] ELSE queue[j + (e - b)]
  PROVE  Shrinks /\ LeaversStop
<1> DEFINE S == {queue[i] : i \in (b + 1)..e}
<1>0. queue \in Seq(Track) /\ mode \in [Track -> Mode]
  BY DEF QInv
<1>1. NewStay({})
  BY <1>0, StopNews
<1>2. Shrinks
  BY <1>1, CutShrinks
<1>3. ASSUME NEW k \in 1..Len(queue), queue[k] \notin Queued' PROVE queue[k] \in S
  <2>1. CASE k <= b
    <3>1. k \in 1..Len(queue') /\ queue'[k] = queue[k]
      BY <1>0, <2>1
    <3> QED BY <1>3, <3>1 DEF Queued
  <2>2. CASE k > e
    <3>1. /\ k - (e - b) \in 1..Len(queue') /\ k - (e - b) + (e - b) = k
          /\ k <= b \/ k - (e - b) > b
      BY <1>0, <2>2
    <3>2. CASE k - (e - b) > b
      <4>1. queue'[k - (e - b)] = queue[k]
        BY <1>0, <3>1, <3>2
      <4> QED BY <1>3, <3>1, <4>1 DEF Queued
    <3> QED BY <2>1, <3>1, <3>2
  <2>3. CASE k > b /\ k <= e
    <3>1. k \in (b + 1)..e
      BY <1>0, <2>3
    <3> QED BY <3>1
  <2> QED BY <2>1, <2>2, <2>3
<1>4. \A t \in S : t \in Track => mode'[t] \notin {"pause", "play"}
  <2>1. StopTracks(S)
    OBVIOUS
  <2> HIDE DEF S
  <2> QED BY <1>0, <2>1 DEF StopTracks, Live
<1> HIDE DEF S
<1>5. LeaversStop
  <2> SUFFICES ASSUME NEW k \in 1..Len(queue), queue[k] \notin Queued'
               PROVE  mode'[queue[k]] \notin {"pause", "play"}
    BY DEF LeaversStop, Queued
  <2>1. queue[k] \in S /\ queue[k] \in Track
    BY <1>0, <1>3
  <2> QED BY <1>4, <2>1
<1> QED BY <1>2, <1>5

LEMMA DrainTracksFacts ==
  ASSUME QInv, NEW u \in User, task[u].at \in Nat, task[u].to \in Nat,
         task[u].at <= task[u].to, DrainTracks(u)
  PROVE  /\ Shrinks /\ LeaversStop
         /\ task[u].at # 0 /\ queue # <<>> => queue[1] \in Queued'
<1> DEFINE b == task[u].at
           k == task[u].to + 1
<1>1. queue \in Seq(Track) /\ b \in Nat /\ k \in Nat /\ b < k /\ b = task[u].at
  BY DEF QInv
<1>2. CASE task[u].to < Len(queue)
  <2>1. b \in 0..Len(queue) /\ k \in b..Len(queue) /\ k + 1 = task[u].to + 2
    BY <1>1, <1>2
  <2>2. /\ queue' = SubSeq(queue, 1, b) \o SubSeq(queue, k + 1, Len(queue))
        /\ StopTracks({queue[i] : i \in (b + 1)..k})
    BY <1>2, <2>1 DEF DrainTracks
  <2> HIDE DEF b, k
  <2>3. /\ queue' \in Seq(Track) /\ Len(queue') = Len(queue) - (k - b)
        /\ \A j \in 1..Len(queue') : queue'[j] = IF j <= b THEN queue[j] ELSE queue[j + (k - b)]
    BY <2>1, <2>2, CutOfQueue
  <2>4. ASSUME b # 0 PROVE 1 \in 1..Len(queue') /\ queue'[1] = queue[1]
    <3>1. b \in Nat /\ b >= 1 /\ b <= k /\ k <= Len(queue) /\ Len(queue) \in Nat /\ k \in Nat
      BY <1>1, <2>1, <2>4
    <3>2. Len(queue') \in Nat /\ Len(queue') >= 1
      BY <2>3, <3>1
    <3>3. 1 \in 1..Len(queue')
      BY <3>2
    <3> QED BY <2>3, <3>1, <3>3
  <2> QED BY <1>1, <2>1, <2>2, <2>3, <2>4, StopCutFacts DEF Queued
<1>3. CASE ~(task[u].to < Len(queue))
  <2>1. UNCHANGED <<queue, mode>>
    BY <1>3 DEF DrainTracks
  <2>2. queue # <<>> => 1 \in 1..Len(queue)
    BY <1>1
  <2> QED BY <2>1, <2>2, SameNews, SameQueueShrinks DEF LeaversStop, Queued
<1> QED BY <1>2, <1>3

LEMMA ClearFacts ==
  ASSUME QInv, NEW u \in User, Clear(u)
  PROVE  Shrinks /\ LeaversStop
<1>1. 1 \in 0..Len(queue) /\ Len(queue) \in 1..Len(queue) /\ queue \in Seq(Track) /\ queue # <<>>
  BY DEF Clear, QInv
<1>2. <<queue[1]>> = SubSeq(queue, 1, 1) \o SubSeq(queue, Len(queue) + 1, Len(queue))
  BY <1>1
<1>3. /\ queue' = SubSeq(queue, 1, 1) \o SubSeq(queue, Len(queue) + 1, Len(queue))
      /\ StopTracks({queue[i] : i \in (1 + 1)..Len(queue)})
  BY <1>2 DEF Clear
<1> QED BY <1>1, <1>3, CutOfQueue, StopCutFacts

\* skip n keeps the head.
LEMMA SkipFacts ==
  ASSUME QInv, NEW u \in User, NEW n \in 1..Len(queue), Skip(u, n)
  PROVE  Shrinks /\ LeaksExcused /\ queue # <<>> /\ queue[1] \in Queued'
<1>1. 1 \in 0..Len(queue) /\ queue \in Seq(Track) /\ queue # <<>>
  BY DEF Skip, QInv
<1>2. <<queue[1]>> = SubSeq(queue, 1, 1)
  BY <1>1
<1>3. queue' = SubSeq(queue, 1, 1) \o SubSeq(queue, n + 1, Len(queue))
  BY <1>2 DEF Skip
<1>4. UNCHANGED mode
  BY DEF Skip
<1>5. /\ queue' \in Seq(Track) /\ Len(queue') = Len(queue) - (n - 1)
      /\ \A j \in 1..Len(queue') : queue'[j] = IF j <= 1 THEN queue[j] ELSE queue[j + (n - 1)]
  BY <1>1, <1>3, CutOfQueue
<1>6. Shrinks
  BY <1>1, <1>4, <1>5, SameNews, CutShrinks
<1>7. queue[1] \in Queued'
  <2>1. 1 \in 1..Len(queue') /\ queue'[1] = queue[1]
    BY <1>1, <1>5
  <2> QED BY <2>1 DEF Queued
<1>8. LeaksExcused
  BY <1>7 DEF LeaksExcused, Leaks, Excuse
<1> QED BY <1>1, <1>6, <1>7, <1>8

\* dequeue(0) takes the head alone.
LEMMA SkipDequeueFacts ==
  ASSUME QInv, NEW u \in User, SkipDequeue(u)
  PROVE  Shrinks /\ LeaksExcused
<1>1. UNCHANGED mode /\ queue' = IF queue = <<>> THEN queue ELSE Tail(queue)
  BY DEF SkipDequeue
<1>2. Shrinks
  BY <1>1, SameNews, SameQueueShrinks, PopShrinks
<1>3. queue \in Seq(Track)
  BY DEF QInv
<1>4. ASSUME NEW i \in 1..Len(queue), i # 1 PROVE queue[i] \in Queued'
  <2>1. i - 1 \in 1..Len(queue') /\ queue'[i - 1] = queue[i]
    BY <1>1, <1>3, <1>4
  <2> QED BY <2>1 DEF Queued
<1>5. \A t \in Queued \ Queued' : t = queue[1]
  BY <1>4 DEF Queued
<1>6. LeaksExcused
  BY <1>5 DEF LeaksExcused, Leaks, Excuse
<1> QED BY <1>2, <1>6

LEMMA ReinsertersExcused ==
  ASSUME QInv, CmdInv, NEW u \in User, Reinserts(u)
  PROVE  Shrinks /\ LeaksExcused
<1>1. \A t \in Track : Leaks(t) => t = Moved(u) /\ Target(u) >= Len(queue) /\ Reinserts(u)
  BY ReinsertersFacts, Zenon DEF Leaks
<1>2. LeaksExcused
  BY <1>1 DEF LeaksExcused, Excuse
<1> QED BY <1>2, ReinsertersFacts

LEMMA StopQueueFacts ==
  ASSUME QInv, NEW u \in User, StopQueue(u)
  PROVE  Shrinks /\ LeaversStop
<1>1. queue' = <<>> /\ StopTracks(Queued) /\ mode \in [Track -> Mode]
  BY DEF StopQueue, QInv
<1>2. Queued' = {} /\ Queued \subseteq Track
  BY <1>1 DEF Queued, QInv
<1>3. LeaversStop
  BY <1>1, <1>2 DEF LeaversStop, StopTracks, Live
<1> QED BY <1>1, <1>2, <1>3, StopNews DEF Shrinks

\* QueueHandler pops a head only when it has ended.
LEMMA DispatchFacts ==
  ASSUME QInv, EndedAreFinished, Dispatch
  PROVE  Shrinks /\ LeaversStop
<1>0. queue \in Seq(Track) /\ mode \in [Track -> Mode]
  BY DEF QInv
<1>1. PICK batch \in SUBSET ended \ {{}} :
        IF queue # <<>> /\ queue[1] \in batch
        THEN queue' = Tail(queue) /\ PlayHead(Tail(queue))
        ELSE UNCHANGED <<queue, mode, started>>
  BY DEF Dispatch
<1>2. CASE queue # <<>> /\ queue[1] \in batch
  <2>1. queue' = Tail(queue) /\ PlayHead(Tail(queue)) /\ Tail(queue) \in Seq(Track)
    BY <1>0, <1>1, <1>2
  <2>2. Shrinks
    BY <1>0, <1>2, <2>1, PlayNews, PopShrinks
  <2>3. mode'[queue[1]] \notin {"pause", "play"}
    <3>1. mode[queue[1]] \in Finished /\ queue[1] \in Track
      BY <1>0, <1>2 DEF EndedAreFinished
    <3>2. Tail(queue) # <<>> /\ Live(Tail(queue)[1])
            => mode' = [mode EXCEPT ![Tail(queue)[1]] = "play"] /\ Tail(queue)[1] # queue[1]
      BY <2>1, <3>1 DEF PlayHead, Live, Finished
    <3>3. ~(Tail(queue) # <<>> /\ Live(Tail(queue)[1])) => UNCHANGED mode
      BY <2>1 DEF PlayHead
    <3>4. mode'[queue[1]] = mode[queue[1]]
      BY <1>0, <2>1, <3>1, <3>2, <3>3
    <3> QED BY <3>1, <3>4 DEF Finished
  <2>4. \A i \in 1..Len(queue) : i = 1 \/ queue[i] \in Queued'
    <3> SUFFICES ASSUME NEW i \in 1..Len(queue), i # 1 PROVE queue[i] \in Queued'
      OBVIOUS
    <3>1. i - 1 \in 1..Len(queue') /\ queue'[i - 1] = queue[i]
      BY <1>0, <1>2, <2>1
    <3> QED BY <3>1 DEF Queued
  <2> QED BY <2>2, <2>3, <2>4 DEF LeaversStop, Queued
<1>3. CASE ~(queue # <<>> /\ queue[1] \in batch)
  BY <1>1, <1>3, SameNews, SameQueueShrinks DEF Shrinks, Queued, LeaversStop
<1> QED BY <1>2, <1>3

LEMMA RequestQueueStep ==
  ASSUME QInv, NEW u \in User, Request(u)
  PROVE  Shrinks /\ LeaksExcused
<1>0. mode \in [Track -> Mode] /\ queue \in Seq(Track)
  BY DEF QInv
<1>1. ASSUME UNCHANGED <<queue, mode>> PROVE Shrinks /\ LeaksExcused
  BY <1>1, SameNews, SameQueueShrinks, NobodyLeaves DEF Queued
<1>2. CASE UNCHANGED queueVars
  BY <1>1, <1>2 DEF queueVars
<1>3. CASE Pause(u)
  BY <1>3, PauseNews, SameQueueShrinks, NobodyLeaves DEF Pause, Queued
<1>4. CASE Resume(u)
  BY <1>0, <1>4, PlayNews, SameQueueShrinks, NobodyLeaves DEF Resume, Queued
<1>5. ASSUME NEW n \in 1..Len(queue), Skip(u, n) PROVE Shrinks /\ LeaksExcused
  BY <1>5, SkipFacts
<1>8. CASE Clear(u)
  BY <1>8, ClearFacts, StopExcused
<1>9. CASE Shuffle(u)
  BY <1>9, ShuffleFacts, NobodyLeaves
<1> QED
  BY <1>2, <1>3, <1>4, <1>5, <1>8, <1>9
     DEF Request, Play, PlayNext, PlayNextList, PlayList, VoteSkip, RemoveTracks, Stop,
         MoveSong, ToggleAutoplay, ToggleAutopause, WatchQueue

LEMMA ContinueQueueStep ==
  ASSUME QInv, CmdInv, NEW u \in User, Continue(u)
  PROVE  QueueStep /\ LeaksExcused
<1>0. /\ mode \in [Track -> Mode] /\ queue \in Seq(Track)
      /\ task[u].at \in Nat /\ task[u].to \in Nat
  BY DEF QInv, CmdInv
<1>1. CASE UNCHANGED queueVars
  BY <1>1, SameNews, SameQueueShrinks, NobodyLeaves DEF queueVars, QueueStep, Queued
<1>2. CASE QueueTrackBack(u) \/ QueueReadyTrack(u) \/ QueueTrackFront(u) \/ EnqueueListed(u)
  BY <1>2, EnqueuersArrive, NobodyLeaves DEF QueueStep, Arrives
<1>3. CASE MoveToFront(u) \/ InsertQueued(u) \/ InsertPanics(u) \/ Reorder(u)
  BY <1>3, ReinsertersExcused DEF QueueStep, Reinserts
<1>4. CASE SkipStop(u)
  BY <1>0, <1>4, StopNews, SameQueueShrinks, NobodyLeaves DEF SkipStop, QueueStep, Queued
<1>5. CASE SkipDequeue(u)
  BY <1>5, SkipDequeueFacts DEF QueueStep
<1>6. CASE SkipResume(u)
  BY <1>0, <1>6, PlayNews, SameQueueShrinks, NobodyLeaves DEF SkipResume, QueueStep, Queued
<1>7. CASE StopQueue(u)
  BY <1>7, StopQueueFacts, StopExcused DEF QueueStep
<1>8. CASE DrainTracks(u)
  <2>1. task[u].at <= task[u].to
    BY <1>8 DEF DrainTracks, CmdInv, CountersInv, CountersOK
  <2> QED BY <1>0, <1>8, <2>1, DrainTracksFacts, StopExcused DEF QueueStep
<1> QED
  BY <1>1, <1>2, <1>3, <1>4, <1>5, <1>6, <1>7, <1>8
     DEF Continue, LookAtFront, ReadQueueSize, ResolveFails, SkipPanics, CastVote

LEMMA EventTaskQueueStep ==
  ASSUME QInv, EndedAreFinished, EventTask \/ EventTaskPanics
  PROVE  QueueStep /\ LeaksExcused
<1>1. CASE UNCHANGED queueVars
  BY <1>1, SameNews, SameQueueShrinks, NobodyLeaves DEF queueVars, QueueStep, Queued
<1>2. CASE Dispatch
  BY <1>2, DispatchFacts, StopExcused DEF QueueStep
<1>3. CASE PauseAfterTrack
  BY <1>3, PauseNews, SameQueueShrinks, NobodyLeaves DEF PauseAfterTrack, QueueStep, Queued
<1>4. CASE QueueRecommended
  <2>1. \E t \in Fresh : Arrives(t)
    BY <1>4, EnqueueArrives DEF QueueRecommended, Enqueue
  <2> QED BY <2>1, NobodyLeaves DEF QueueStep, Arrives
<1> QED
  BY <1>1, <1>2, <1>3, <1>4
     DEF EventTask, ReadAutoplay, ReadSettings, ForgetSkipVotes, Decide, DisableAutoplay,
         ReadCurrent, GetRecommendation, RecommendationFails, RefreshQueue, SetVolume,
         EventTaskPanics, CurrentPanics, VolumePanics

LEMMA NextQueueStep ==
  ASSUME QInv, CmdInv, EndedAreFinished, [Next]_vars
  PROVE  QueueStep /\ LeaksExcused
<1>1. CASE UNCHANGED <<queue, mode>>
  BY <1>1, SameNews, SameQueueShrinks, NobodyLeaves DEF QueueStep, Queued
<1>2. ASSUME NEW t \in Track, TrackEnds(t) PROVE QueueStep /\ LeaksExcused
  <2>1. UNCHANGED queue /\ NewStay({})
    BY <1>2 DEF TrackEnds, NewStay, QInv
  <2> QED BY <2>1, SameQueueShrinks, NobodyLeaves DEF QueueStep, Queued
<1>3. ASSUME NEW u \in User, Request(u) PROVE QueueStep /\ LeaksExcused
  BY <1>3, RequestQueueStep DEF QueueStep
<1>4. ASSUME NEW u \in User, Continue(u) PROVE QueueStep /\ LeaksExcused
  BY <1>4, ContinueQueueStep
<1>5. ASSUME NEW u \in User, MoveInVoice(u) PROVE UNCHANGED <<queue, mode>>
  BY <1>5 DEF MoveInVoice, queueVars
<1>6. UNCHANGED vars => UNCHANGED <<queue, mode>>
  BY DEF vars, queueVars
<1> QED BY <1>1, <1>2, <1>3, <1>4, <1>5, <1>6, EventTaskQueueStep DEF Next

-----------------------------------------------------------------------------
(* The head: it stays, or its successor has been played, except after      *)
(* dequeue(0) of a skip and after a remove that drains from index 0.       *)

HeadHeard ==
  queue' # <<>> => \/ queue # <<>> /\ queue'[1] = queue[1]
                   \/ queue'[1] \in started'

LEMMA SameHead ==
  ASSUME Shrinks, queue' \in Seq(Track), queue # <<>> => queue[1] \in Queued'
  PROVE  HeadHeard
<1>1. CASE queue = <<>>
  <2>1. Queued = {}
    BY <1>1 DEF Queued
  <2>2. Queued' \subseteq Queued
    BY DEF Shrinks
  <2>3. ASSUME queue' # <<>> PROVE FALSE
    <3>1. 1 \in 1..Len(queue')
      BY <2>3
    <3>2. queue'[1] \in Queued'
      BY <3>1 DEF Queued
    <3> QED BY <2>1, <2>2, <3>2
  <2> QED BY <2>3 DEF HeadHeard
<1>2. CASE queue # <<>>
  BY <1>2 DEF HeadHeard, Shrinks
<1> QED BY <1>1, <1>2

LEMMA ArrivalHeard ==
  ASSUME NEW t, Arrives(t)
  PROVE  HeadHeard
BY DEF Arrives, HeadHeard

LEMMA UnchangedHeard ==
  ASSUME UNCHANGED queue
  PROVE  HeadHeard
BY DEF HeadHeard

LEMMA RequestHead ==
  ASSUME QInv, QInv', NEW u \in User, Request(u)
  PROVE  HeadHeard
<1>0. queue \in Seq(Track) /\ queue' \in Seq(Track)
  BY DEF QInv
<1>1. CASE UNCHANGED queue
  BY <1>1, UnchangedHeard
<1>2. CASE \E n \in 1..Len(queue) : Skip(u, n)
  BY <1>0, <1>2, SkipFacts, SameHead
<1>4. CASE Clear(u)
  BY <1>0, <1>4 DEF Clear, HeadHeard
<1>6. CASE Shuffle(u)
  <2>1. queue # <<>> => queue[1] \in Queued
    BY <1>0 DEF Queued
  <2> QED BY <1>0, <1>6, <2>1, ShuffleFacts, SameHead
<1> QED
  BY <1>1, <1>2, <1>4, <1>6
     DEF Request, Play, PlayNext, PlayNextList, PlayList, VoteSkip, RemoveTracks, Stop, MoveSong,
         Pause, Resume, ToggleAutoplay, ToggleAutopause, WatchQueue, queueVars

LEMMA ContinueHead ==
  ASSUME QInv, QInv', CmdInv, NEW u \in User, Continue(u)
  PROVE  HeadHeard \/ SkipDequeue(u) \/ (task[u].at = 0 /\ DrainTracks(u))
<1>0. queue' \in Seq(Track) /\ task[u].at \in Nat /\ task[u].to \in Nat
  BY DEF QInv, CmdInv
<1>1. CASE UNCHANGED queue
  BY <1>1, UnchangedHeard
<1>2. CASE QueueTrackBack(u) \/ QueueReadyTrack(u) \/ QueueTrackFront(u) \/ EnqueueListed(u)
  BY <1>2, EnqueuersArrive, ArrivalHeard
<1>3. CASE StopQueue(u)
  BY <1>3 DEF StopQueue, HeadHeard
<1>4. CASE Reinserts(u)
  <2>1. CASE queue' = <<>>
    BY <2>1 DEF HeadHeard
  <2>2. CASE queue' # <<>>
    BY <1>0, <1>4, <2>2, ReinsertersFacts, SameHead
  <2> QED BY <2>1, <2>2
<1>5. CASE DrainTracks(u)
  <2>1. task[u].at <= task[u].to
    BY <1>5 DEF DrainTracks, CmdInv, CountersInv, CountersOK
  <2>2. CASE task[u].at # 0
    BY <1>0, <1>5, <2>1, <2>2, DrainTracksFacts, SameHead
  <2> QED BY <1>5, <2>2
<1> QED
  BY <1>1, <1>2, <1>3, <1>4, <1>5
     DEF Continue, Reinserts, LookAtFront, ReadQueueSize, ResolveFails, SkipStop, SkipPanics,
         SkipResume, CastVote, queueVars

\* QueueHandler plays what it brings to the head.
LEMMA DispatchHead ==
  ASSUME QInv, Dispatch
  PROVE  HeadHeard
<1>0. queue \in Seq(Track)
  BY DEF QInv
<1>1. CASE UNCHANGED queue
  BY <1>1, UnchangedHeard
<1>2. CASE queue # <<>> /\ queue' = Tail(queue) /\ PlayHead(Tail(queue))
  <2> SUFFICES ASSUME queue' # <<>> PROVE queue'[1] \in started'
    BY DEF HeadHeard
  <2>1. Tail(queue) # <<>> /\ 2 \in 2..Len(queue) /\ Tail(queue)[1] = queue[2]
    BY <1>0, <1>2
  <2>2. Live(Tail(queue)[1])
    BY <2>1, TailFacts DEF Live
  <2> QED BY <1>2, <2>1, <2>2 DEF PlayHead
<1> QED BY <1>1, <1>2 DEF Dispatch

LEMMA NextHead ==
  ASSUME QInv, QInv', CmdInv, [Next]_vars
  PROVE  \/ HeadHeard
         \/ \E u \in User : SkipDequeue(u) \/ (task[u].at = 0 /\ DrainTracks(u))
<1>1. CASE UNCHANGED queue
  BY <1>1, UnchangedHeard
<1>2. ASSUME NEW u \in User, Request(u) \/ Continue(u)
      PROVE  HeadHeard \/ SkipDequeue(u) \/ (task[u].at = 0 /\ DrainTracks(u))
  BY <1>2, RequestHead, ContinueHead
<1>3. CASE Dispatch
  BY <1>3, DispatchHead
<1>4. CASE QueueRecommended
  BY <1>4, EnqueueArrives, ArrivalHeard DEF QueueRecommended, Enqueue
<1>5. CASE EventTask \/ EventTaskPanics
  BY <1>1, <1>3, <1>4, <1>5
     DEF EventTask, ReadAutoplay, ReadSettings, PauseAfterTrack, ForgetSkipVotes, Decide,
         DisableAutoplay, ReadCurrent, GetRecommendation, RecommendationFails, RefreshQueue,
         SetVolume, EventTaskPanics, CurrentPanics, VolumePanics, queueVars
<1>6. ASSUME NEW u \in User, MoveInVoice(u) PROVE UNCHANGED queue
  BY <1>6 DEF MoveInVoice, queueVars
<1>7. ASSUME NEW t \in Track, TrackEnds(t) PROVE UNCHANGED queue
  BY <1>7 DEF TrackEnds
<1>8. UNCHANGED vars => UNCHANGED queue
  BY DEF vars, queueVars
<1> QED BY <1>1, <1>2, <1>5, <1>6, <1>7, <1>8 DEF Next

-----------------------------------------------------------------------------
(* StepInv is inductive relative to IInv.                                  *)

LEMMA ModeStepInv ==
  ASSUME QInv, EndedAreFinished, PlayingIsStarted, ModesAdvance, ended' \in SUBSET Track
  PROVE  EndedAreFinished' /\ PlayingIsStarted'
<1>1. EndedAreFinished'
  <2> SUFFICES ASSUME NEW t \in Track, t \in ended' PROVE mode'[t] \in Finished
    BY DEF EndedAreFinished
  <2>1. Advances(t)
    BY DEF ModesAdvance
  <2>2. t \in ended => mode[t] \in Finished
    BY DEF EndedAreFinished
  <2> QED BY <2>1, <2>2 DEF Advances, Live, Finished
<1>2. PlayingIsStarted'
  BY DEF PlayingIsStarted, ModesAdvance, Advances
<1> QED BY <1>1, <1>2

\* While a skip holds the mutex, only the mixer and QueueHandler move on.
LEMMA SkipShutsOut ==
  ASSUME CmdInv, [Next]_vars, NEW u \in User,
         task[u].pc = "skipResume", task'[u].pc = "skipResume"
  PROVE  \/ UNCHANGED <<queue, mode, started>>
         \/ Dispatch
         \/ \E t \in Track : TrackEnds(t)
<1>1. lock = u /\ ~Unlocked
  BY ConstantsAssumption DEF CmdInv, Holds, CriticalPc, Unlocked
<1>2. \A v \in User : Holds(v) => v = u
  BY <1>1 DEF CmdInv
<1>3. ASSUME NEW v \in User, Request(v) PROVE UNCHANGED <<queue, mode, started>>
  BY <1>1, <1>3
     DEF Request, Play, PlayNext, PlayNextList, PlayList, Skip, VoteSkip, RemoveTracks, Clear,
         Stop, Shuffle, MoveSong, Pause, Resume, ToggleAutoplay, ToggleAutopause, WatchQueue,
         queueVars
<1>4. ASSUME NEW v \in User, Continue(v) PROVE UNCHANGED <<queue, mode, started>>
  <2>1. CASE v = u
    <3>1. SkipResume(u)
      BY <1>4, <2>1
         DEF Continue, QueueTrackBack, QueueTrackFront, LookAtFront, MoveToFront, ReadQueueSize,
             QueueReadyTrack, EnqueueListed, InsertQueued, InsertPanics, ResolveFails, SkipStop,
             SkipPanics, SkipDequeue, CastVote, StopQueue, DrainTracks, Reorder
    <3>2. task' = [task EXCEPT ![u] = Idle] /\ task \in [User -> [pc : CmdPc, at : Nat, to : Nat]]
      BY <3>1 DEF SkipResume, Return, CmdInv
    <3> QED BY <3>2 DEF Idle
  <2>2. CASE v # u
    <3>1. task[v].pc \notin CriticalPc /\ lock \notin {NoUser, v}
      BY <1>1, <1>2, <2>2, ConstantsAssumption DEF Holds
    <3>2. /\ task[v].pc \notin {"frontLook", "frontMove", "listMove", "move", "remove", "vote",
                                "skipStop", "skipDequeue", "skipResume"}
          /\ ~Unlocked /\ lock \notin {NoUser, v}
      BY <1>1, <3>1 DEF CriticalPc
    <3> QED
      BY <1>4, <3>2
         DEF Continue, QueueTrackBack, QueueTrackFront, LookAtFront, MoveToFront, ReadQueueSize,
             QueueReadyTrack, EnqueueListed, InsertQueued, InsertPanics, ResolveFails, SkipStop,
             SkipPanics, SkipDequeue, SkipResume, CastVote, StopQueue, DrainTracks, Reorder,
             queueVars
  <2> QED BY <2>1, <2>2
<1>5. ASSUME EventTask \/ EventTaskPanics
      PROVE  UNCHANGED <<queue, mode, started>> \/ Dispatch
  BY <1>1, <1>5
     DEF EventTask, ReadAutoplay, ReadSettings, PauseAfterTrack, ForgetSkipVotes, Decide,
         DisableAutoplay, ReadCurrent, GetRecommendation, QueueRecommended,
         RecommendationFails, RefreshQueue, SetVolume, EventTaskPanics, CurrentPanics,
         VolumePanics, queueVars
<1>6. ASSUME NEW v \in User, MoveInVoice(v) PROVE UNCHANGED <<queue, mode, started>>
  BY <1>6 DEF MoveInVoice, queueVars
<1>7. UNCHANGED vars => UNCHANGED <<queue, mode, started>>
  BY DEF vars, queueVars
<1> QED BY <1>3, <1>4, <1>5, <1>6, <1>7 DEF Next

LEMMA EventTaskKeepsTasks ==
  ASSUME EventTask \/ EventTaskPanics
  PROVE  UNCHANGED task
BY DEF EventTask, Dispatch, ReadAutoplay, ReadSettings, PauseAfterTrack, ForgetSkipVotes,
       Decide, DisableAutoplay, ReadCurrent, GetRecommendation, QueueRecommended,
       RecommendationFails, RefreshQueue, SetVolume, EventTaskPanics, CurrentPanics,
       VolumePanics, cmdVars

\* skipResume is entered by dequeue(0) alone.
LEMMA EntersSkipResume ==
  ASSUME CmdInv, [Next]_vars, NEW u \in User,
         task[u].pc # "skipResume", task'[u].pc = "skipResume"
  PROVE  SkipDequeue(u)
<1>0. task \in [User -> [pc : CmdPc, at : Nat, to : Nat]]
  BY DEF CmdInv
<1>1. ~ UNCHANGED task
  OBVIOUS
<1>2. ASSUME NEW v \in User, NEW pc, NEW at, NEW to, GotoRange(v, pc, at, to),
             pc # "skipResume"
      PROVE  FALSE
  BY <1>0, <1>2 DEF GotoRange
<1>10. ASSUME NEW v \in User, NEW pc, NEW at, Goto(v, pc, at), pc # "skipResume" PROVE FALSE
  BY <1>2, <1>10 DEF Goto
<1>3. ASSUME NEW v \in User, Return(v) PROVE FALSE
  BY <1>0, <1>3 DEF Return, Idle
<1>4. ASSUME NEW v \in User, Request(v) PROVE FALSE
  BY <1>1, <1>2, <1>10, <1>4
     DEF Request, Play, PlayNext, PlayNextList, PlayList, Skip, VoteSkip, RemoveTracks, Clear,
         Stop, Shuffle, MoveSong, Pause, Resume, ToggleAutoplay, ToggleAutopause,
         WatchQueue, cmdVars
<1>5. ASSUME NEW v \in User, Continue(v) PROVE SkipDequeue(u)
  <2>1. CASE SkipDequeue(v)
    <3>1. task' = [task EXCEPT ![v] = [pc |-> "skipResume", at |-> 0, to |-> 0]]
      BY <2>1 DEF SkipDequeue, Goto, GotoRange
    <3>2. v = u
      BY <1>0, <3>1
    <3> QED BY <2>1, <3>2
  <2>2. CASE ReadQueueSize(v)
    <3>1. Goto(v, "bulk", 0) \/ Goto(v, "list", 0)
      BY <2>2 DEF ReadQueueSize
    <3> QED BY <1>10, <3>1
  <2> QED
    BY <1>1, <1>10, <1>3, <1>5, <2>1, <2>2
       DEF Continue, QueueTrackBack, QueueTrackFront, LookAtFront, MoveToFront,
           QueueReadyTrack, EnqueueListed, InsertQueued, InsertPanics, ResolveFails, SkipStop,
           SkipPanics, SkipResume, CastVote, StopQueue, DrainTracks, Reorder
<1>6. ASSUME EventTask \/ EventTaskPanics PROVE FALSE
  BY <1>1, <1>6, EventTaskKeepsTasks
<1>7. \A v \in User : ~MoveInVoice(v)
  BY <1>1 DEF MoveInVoice, cmdVars
<1>8. \A t \in Track : ~TrackEnds(t)
  BY <1>1 DEF TrackEnds, cmdVars
<1>9. ~ UNCHANGED vars
  BY <1>1 DEF vars, cmdVars
<1> QED BY <1>4, <1>5, <1>6, <1>7, <1>8, <1>9 DEF Next
LEMMA ResumeStepInv ==
  ASSUME QInv, CmdInv, PlayingIsStarted, ResumeFindsHead, [Next]_vars
  PROVE  ResumeFindsHead'
<1> SUFFICES ASSUME NEW u \in User, task'[u].pc = "skipResume", queue' # <<>>
             PROVE  queue'[1] \in started' \/ mode'[queue'[1]] = "pause"
  BY DEF ResumeFindsHead
<1>0. queue \in Seq(Track) /\ mode \in [Track -> Mode]
  BY DEF QInv
<1>1. CASE task[u].pc = "skipResume"
  <2>1. queue # <<>> => queue[1] \in started \/ mode[queue[1]] = "pause"
    BY <1>1 DEF ResumeFindsHead
  <2>2. CASE UNCHANGED <<queue, mode, started>>
    BY <2>1, <2>2
  <2>3. CASE Dispatch
    <3>1. HeadHeard
      BY <2>3, DispatchHead
    <3>2. CASE UNCHANGED <<queue, mode, started>>
      BY <2>1, <3>2
    <3>3. CASE queue # <<>> /\ queue' = Tail(queue) /\ PlayHead(Tail(queue))
      <4>1. Tail(queue) # <<>> /\ 2 \in 2..Len(queue) /\ Tail(queue)[1] = queue[2]
        BY <1>0, <3>3
      <4>2. Live(Tail(queue)[1])
        BY <4>1, TailFacts DEF Live
      <4> QED BY <3>3, <4>1, <4>2 DEF PlayHead
    <3> QED BY <2>3, <3>2, <3>3 DEF Dispatch
  <2>4. ASSUME NEW t \in Track, TrackEnds(t)
        PROVE  queue'[1] \in started' \/ mode'[queue'[1]] = "pause"
    <3>1. mode[t] = "play" /\ UNCHANGED <<queue, started>> /\ t \in started
      BY <2>4 DEF TrackEnds, PlayingIsStarted
    <3>2. PICK m \in {"end", "error"} : mode' = [mode EXCEPT ![t] = m]
      BY <2>4 DEF TrackEnds
    <3>3. queue[1] \in Track
      BY <1>0, <3>1
    <3> QED BY <1>0, <2>1, <3>1, <3>2, <3>3
  <2> QED BY <1>1, <2>2, <2>3, <2>4, SkipShutsOut
<1>2. CASE task[u].pc # "skipResume"
  <2>1. SkipDequeue(u)
    BY <1>2, EntersSkipResume
  <2>2. UNCHANGED mode /\ queue' = IF queue = <<>> THEN queue ELSE Tail(queue)
    BY <2>1 DEF SkipDequeue
  <2>3. 2 \in 2..Len(queue) /\ queue'[1] = queue[2]
    BY <1>0, <2>2
  <2> QED BY <2>2, <2>3, TailFacts
<1> QED BY <1>1, <1>2

LEMMA StepInvStep ==
  ASSUME IInv, StepInv, [Next]_vars
  PROVE  StepInv'
<1>1. QInv /\ CmdInv /\ EndedAreFinished /\ PlayingIsStarted /\ ResumeFindsHead
  BY DEF IInv, StepInv
<1>2. QInv'
  BY <1>1, QInvStep
<1>3. ended' \in SUBSET Track
  BY <1>2 DEF QInv
<1>4. EndedAreFinished' /\ PlayingIsStarted'
  BY <1>1, <1>3, StepAdvances, ModeStepInv
<1>5. ResumeFindsHead'
  BY <1>1, ResumeStepInv
<1> QED BY <1>4, <1>5 DEF StepInv

LEMMA IInvStep ==
  ASSUME IInv, [Next]_vars
  PROVE  IInv'
BY QInvStep, CmdInvStep, RestInvStep DEF IInv

\* An ended track is finished, a playing one was told to play, and a skip
\* resumes a head that can play: the modes, the events and the history of
\* songbird's queue agree in every state.
THEOREM StepInvariant == Spec => []StepInv
<1>1. Init => StepInv
  BY DEF Init, StepInv, EndedAreFinished, PlayingIsStarted, ResumeFindsHead
<1>2. IInv /\ StepInv /\ [Next]_vars => StepInv'
  BY StepInvStep
<1> QED BY <1>1, <1>2, Inductive, PTL DEF Spec

\* A live track leaves the queue without being stopped in three ways only:
\* behind the head by skip n, at the head by the dequeue(0) of a skip, and
\* as the song that a command has taken out and finds no place for.  So
\* remove, clear, stop, shuffle and QueueHandler never leave a playing or
\* paused track in the mixer behind the queue's back, and no command ever
\* loses a track other than the one it names.
THEOREM OnlySkipsAndPanics == Spec => OnlySkipsAndPanicsLeak
<1> DEFINE Excused ==
      \A t \in Track : Leaks(t) => \E u \in User :
         \/ t # queue[1] /\ \E n \in 1..Len(queue) : Skip(u, n)
         \/ t = queue[1] /\ SkipDequeue(u)
         \/ t = Moved(u) /\ Target(u) >= Len(queue) /\ Reinserts(u)
<1>1. IInv /\ StepInv /\ [Next]_vars => LeaksExcused
  BY NextQueueStep DEF IInv, StepInv
<1>2. IInv /\ StepInv /\ [Next]_vars => [Excused]_vars
  BY <1>1 DEF LeaksExcused, Excuse
<1> QED BY <1>2, Inductive, StepInvariant, PTL DEF Spec, OnlySkipsAndPanicsLeak

-----------------------------------------------------------------------------
(* A silent head.                                                          *)

\* A skip that has stopped its track ends with resume, and in no other way.
LEMMA LeavesSkip ==
  ASSUME CmdInv, [Next]_vars, NEW u \in User,
         task[u].pc \in {"skipDequeue", "skipResume"},
         task'[u].pc \notin {"skipDequeue", "skipResume"}
  PROVE  SkipResume(u)
<1>0. task \in [User -> [pc : CmdPc, at : Nat, to : Nat]]
  BY DEF CmdInv
<1>1. ~ UNCHANGED task
  OBVIOUS
<1>2. ASSUME NEW v \in User, v # u, NEW pc, NEW at, NEW to, GotoRange(v, pc, at, to) PROVE FALSE
  BY <1>0, <1>2 DEF GotoRange
<1>10. ASSUME NEW v \in User, v # u, NEW pc, NEW at, Goto(v, pc, at) PROVE FALSE
  BY <1>2, <1>10 DEF Goto
<1>3. ASSUME NEW v \in User, v # u, Return(v) PROVE FALSE
  BY <1>0, <1>3 DEF Return
<1>4. ASSUME NEW v \in User, Request(v) PROVE FALSE
  <2>1. task[v].pc = "idle" => v # u
    OBVIOUS
  <2> QED
    BY <1>1, <1>2, <1>10, <1>4, <2>1
       DEF Request, Issue, Play, PlayNext, PlayNextList, PlayList, Skip, VoteSkip, RemoveTracks,
           Clear, Stop, Shuffle, MoveSong, Pause, Resume, ToggleAutoplay, ToggleAutopause,
           WatchQueue, cmdVars
<1>5. ASSUME NEW v \in User, Continue(v) PROVE SkipResume(u)
  <2>1. CASE v = u
    <3>1. SkipDequeue(u) \/ SkipResume(u)
      BY <1>5, <2>1
         DEF Continue, QueueTrackBack, QueueTrackFront, LookAtFront, MoveToFront, ReadQueueSize,
             QueueReadyTrack, EnqueueListed, InsertQueued, InsertPanics, ResolveFails, SkipStop,
             SkipPanics, CastVote, StopQueue, DrainTracks, Reorder
    <3>2. CASE SkipDequeue(u)
      <4>1. task' = [task EXCEPT ![u] = [pc |-> "skipResume", at |-> 0, to |-> 0]]
        BY <3>2 DEF SkipDequeue, Goto, GotoRange
      <4> QED BY <1>0, <4>1
    <3> QED BY <3>1, <3>2
  <2>2. CASE v # u
    <3>1. Return(v) \/ \E pc \in CmdPc, at \in Int : Goto(v, pc, at)
      <4>1. task[v].at \in Int
        BY <1>0, ConstantsAssumption
      <4>2. CASE ReadQueueSize(v)
        BY <4>2 DEF ReadQueueSize, CmdPc
      <4> QED
        BY <1>5, <4>1, <4>2
           DEF Continue, QueueTrackBack, QueueTrackFront, LookAtFront, MoveToFront,
               QueueReadyTrack, EnqueueListed, InsertQueued, InsertPanics, ResolveFails,
               SkipStop, SkipPanics, SkipDequeue, SkipResume, CastVote, StopQueue, DrainTracks,
               Reorder, CmdPc
    <3> QED BY <1>10, <1>3, <2>2, <3>1
  <2> QED BY <2>1, <2>2
<1>6. ASSUME EventTask \/ EventTaskPanics PROVE FALSE
  BY <1>1, <1>6, EventTaskKeepsTasks
<1>7. \A v \in User : ~MoveInVoice(v)
  BY <1>1 DEF MoveInVoice, cmdVars
<1>8. \A t \in Track : ~TrackEnds(t)
  BY <1>1 DEF TrackEnds, cmdVars
<1>9. ~ UNCHANGED vars
  BY <1>1 DEF vars, cmdVars
<1> QED BY <1>4, <1>5, <1>6, <1>7, <1>8, <1>9 DEF Next

LEMMA StallStep ==
  ASSUME IInv, StepInv, [Next]_vars, ~Stalled, Stalled'
  PROVE  \E u \in User : task[u].at = 0 /\ DrainTracks(u)
<1>1. QInv /\ CmdInv /\ QInv'
  BY QInvStep DEF IInv
<1>2. /\ queue' # <<>> /\ queue'[1] \notin started'
      /\ \A u \in User : task'[u].pc \notin {"skipDequeue", "skipResume"}
  BY DEF Stalled
<1>3. queue'[1] \in Track
  BY <1>1, <1>2 DEF QInv
<1>4. queue'[1] \notin started
  BY <1>1, <1>2, <1>3, StepAdvances DEF ModesAdvance, Advances
<1>5. \A u \in User : ~SkipDequeue(u)
  <2> SUFFICES ASSUME NEW u \in User, SkipDequeue(u) PROVE FALSE
    OBVIOUS
  <2>1. task' = [task EXCEPT ![u] = [pc |-> "skipResume", at |-> 0, to |-> 0]]
    BY DEF SkipDequeue, Goto, GotoRange
  <2>2. task \in [User -> [pc : CmdPc, at : Nat, to : Nat]]
    BY <1>1 DEF CmdInv
  <2> QED BY <1>2, <2>1, <2>2
<1>6. ~HeadHeard
  <2> SUFFICES ASSUME HeadHeard PROVE FALSE
    OBVIOUS
  <2>1. queue # <<>> /\ queue'[1] = queue[1]
    BY <1>2 DEF HeadHeard
  <2>2. PICK u \in User : task[u].pc \in {"skipDequeue", "skipResume"}
    BY <1>4, <2>1 DEF Stalled
  <2>3. SkipResume(u)
    BY <1>1, <1>2, <2>2, LeavesSkip
  <2>4. PlayHead(queue) /\ UNCHANGED queue /\ task[u].pc = "skipResume"
    BY <2>3 DEF SkipResume
  <2>5. mode[queue[1]] = "pause"
    BY <1>4, <2>1, <2>4 DEF StepInv, ResumeFindsHead
  <2>6. queue[1] \in started'
    BY <2>1, <2>4, <2>5 DEF PlayHead, Live
  <2> QED BY <1>2, <2>4, <2>6
<1> QED BY <1>1, <1>5, <1>6, NextHead

\* A head that was never told to play, outside of a skip in progress, is
\* the work of remove with index 0 alone, whatever else is interleaved, and
\* however short the queue has become since remove looked at it.
THEOREM OnlyRemoveLeavesSilence == Spec => OnlyRemoveStalls
<1> DEFINE Silence == ~Stalled /\ Stalled' =>
                        \E u \in User : task[u].at = 0 /\ DrainTracks(u)
<1>1. IInv /\ StepInv /\ [Next]_vars => [Silence]_vars
  BY StallStep
<1> QED BY <1>1, Inductive, StepInvariant, PTL DEF Spec, OnlyRemoveStalls

-----------------------------------------------------------------------------
(* Skip votes.                                                             *)

\* The player still has something to do with t.
Concerns(t) == t \in Queued \cup ended \cup Handling \/ Live(t)

LEMMA QueuedConcerns ==
  ASSUME QInv, NEW t \in Track, t \in Queued \/ Live(t)
  PROVE  t \in ended \/ Live(t)
<1>1. CASE t \in Queued
  <2>1. mode[t] # "new" /\ mode[t] \in Mode
    BY <1>1 DEF QInv, NewUntouched
  <2> QED BY <1>1, <2>1 DEF QInv, FinishedTrackHasEvent, Mode, Live
<1> QED BY <1>1

LEMMA LiveOrEnded ==
  ASSUME ModesAdvance, NEW t \in Track, Live(t)
  PROVE  t \in ended' \/ Live(t)'
BY DEF ModesAdvance, Advances, Live

LEMMA ConcernsStep ==
  ASSUME QInv, ModesAdvance, NEW t \in Track, Concerns(t),
         \/ Dispatch
         \/ ended \subseteq ended' /\ Handling \subseteq Handling'
  PROVE  Concerns(t)'
<1>1. CASE t \in Queued \/ Live(t) \/ t \in ended
  <2>1. CASE t \in ended
    <3>1. CASE Dispatch
      <4>1. PICK batch \in SUBSET ended \ {{}} :
              /\ ended' = ended \ batch
              /\ endh' = [pc |-> "autoplay", batch |-> batch, autoplay |-> FALSE]
        BY <3>1 DEF Dispatch, EndAt
      <4>2. t \in ended' \/ t \in batch
        BY <2>1, <4>1
      <4>3. Handling' = batch
        BY <4>1 DEF Handling
      <4> QED BY <4>2, <4>3 DEF Concerns
    <3> QED BY <2>1, <3>1 DEF Concerns
  <2>2. CASE Live(t)
    BY <2>2, LiveOrEnded DEF Concerns
  <2> QED BY <1>1, <2>1, <2>2, QueuedConcerns
<1>2. CASE t \in Handling
  <2>1. ~Dispatch
    BY <1>2 DEF Handling, Dispatch
  <2> QED BY <1>2, <2>1 DEF Concerns
<1> QED BY <1>1, <1>2 DEF Concerns

LEMMA HandlingFacts ==
  ASSUME RestInv, EventTask \/ EventTaskPanics, ~Dispatch
  PROVE  Handling \subseteq Handling' \/ votes' = {}
<1>0. endh \in [pc : EndPc, batch : SUBSET Track, autoplay : BOOLEAN]
  BY DEF RestInv
<1>1. CASE endh.pc \notin {"autoplay", "settings", "pause", "votes"}
  BY <1>1 DEF Handling
<1>2. CASE ReadAutoplay
  <2>1. endh' = [endh EXCEPT !.pc = "settings", !.autoplay = autoplay # "off"]
    BY <1>2 DEF ReadAutoplay
  <2>2. endh'.pc = "settings" /\ endh'.batch = endh.batch
    BY <1>0, <2>1
  <2> QED BY <2>2 DEF Handling
<1>3. ASSUME NEW pc \in {"pause", "votes"}, EndGoto(pc) PROVE Handling \subseteq Handling'
  <2>1. endh'.pc = pc /\ endh'.batch = endh.batch
    BY <1>0, <1>3 DEF EndGoto
  <2> QED BY <2>1 DEF Handling
<1>4. CASE ReadSettings
  BY <1>3, <1>4 DEF ReadSettings
<1>5. CASE PauseAfterTrack
  BY <1>3, <1>5 DEF PauseAfterTrack
<1>6. CASE ForgetSkipVotes
  BY <1>6 DEF ForgetSkipVotes
<1> QED
  BY <1>1, <1>2, <1>4, <1>5, <1>6
     DEF EventTask, Decide, DisableAutoplay, ReadCurrent, GetRecommendation, QueueRecommended,
         RecommendationFails, RefreshQueue, SetVolume, EventTaskPanics, CurrentPanics,
         VolumePanics

\* Outside of Dispatch no pending event is lost.
LEMMA EventsKept ==
  ASSUME RestInv, [Next]_vars, ~Dispatch
  PROVE  /\ ended \subseteq ended'
         /\ Handling \subseteq Handling' \/ votes' = {}
<1>1. UNCHANGED endh => Handling \subseteq Handling'
  BY DEF Handling
<1>2. UNCHANGED queueVars => ended \subseteq ended'
  BY DEF queueVars
<1>3. \A S : StopTracks(S) => ended \subseteq ended'
  BY DEF StopTracks
<1>4. ASSUME NEW u \in User, Request(u) PROVE ended \subseteq ended' /\ UNCHANGED endh
  BY <1>2, <1>3, <1>4
     DEF Request, Play, PlayNext, PlayNextList, PlayList, Skip, VoteSkip, RemoveTracks, Clear,
         Stop, Shuffle, MoveSong, Pause, Resume, ToggleAutoplay, ToggleAutopause,
         WatchQueue, Others
<1>5. ASSUME NEW u \in User, Continue(u) PROVE ended \subseteq ended' /\ UNCHANGED endh
  BY <1>2, <1>3, <1>5
     DEF Continue, QueueTrackBack, QueueTrackFront, LookAtFront, MoveToFront, ReadQueueSize,
         QueueReadyTrack, EnqueueListed, InsertQueued, InsertPanics, ResolveFails, SkipStop,
         SkipPanics, SkipDequeue, SkipResume, CastVote, StopQueue, DrainTracks, Reorder,
         Enqueue, Others
<1>6. ASSUME EventTask \/ EventTaskPanics PROVE ended \subseteq ended'
  BY <1>2, <1>6
     DEF EventTask, ReadAutoplay, ReadSettings, PauseAfterTrack, ForgetSkipVotes, Decide,
         DisableAutoplay, ReadCurrent, GetRecommendation, QueueRecommended, Enqueue,
         RecommendationFails, RefreshQueue, SetVolume, EventTaskPanics, CurrentPanics,
         VolumePanics
<1>7. ASSUME NEW u \in User, MoveInVoice(u) PROVE ended \subseteq ended' /\ UNCHANGED endh
  BY <1>2, <1>7 DEF MoveInVoice
<1>8. ASSUME NEW t \in Track, TrackEnds(t) PROVE ended \subseteq ended' /\ UNCHANGED endh
  BY <1>8 DEF TrackEnds
<1>9. UNCHANGED vars => ended \subseteq ended' /\ UNCHANGED endh
  BY DEF vars, queueVars
<1> QED BY <1>1, <1>4, <1>5, <1>6, <1>7, <1>8, <1>9, HandlingFacts DEF Next

\* Votes are cast by CastVote alone, and on the head of the queue.
LEMMA VotesStep ==
  ASSUME RestInv, [Next]_vars, ~\E u \in User : CastVote(u)
  PROVE  votes' \subseteq votes /\ UNCHANGED votedOn
<1>1. ASSUME NEW u \in User, Request(u) PROVE UNCHANGED <<votes, votedOn>>
  BY <1>1
     DEF Request, Play, PlayNext, PlayNextList, PlayList, Skip, VoteSkip, RemoveTracks, Clear,
         Stop, Shuffle, MoveSong, Pause, Resume, ToggleAutoplay, ToggleAutopause,
         WatchQueue, Others, voteVars
<1>2. ASSUME NEW u \in User, Continue(u) PROVE UNCHANGED <<votes, votedOn>>
  BY <1>2
     DEF Continue, QueueTrackBack, QueueTrackFront, LookAtFront, MoveToFront, ReadQueueSize,
         QueueReadyTrack, EnqueueListed, InsertQueued, InsertPanics, ResolveFails, SkipStop,
         SkipPanics, SkipDequeue, SkipResume, StopQueue, DrainTracks, Reorder, Others, voteVars
<1>3. ASSUME EventTask \/ EventTaskPanics PROVE votes' \subseteq votes /\ UNCHANGED votedOn
  BY <1>3
     DEF EventTask, Dispatch, ReadAutoplay, ReadSettings, PauseAfterTrack, ForgetSkipVotes,
         Decide, DisableAutoplay, ReadCurrent, GetRecommendation, QueueRecommended,
         RecommendationFails, RefreshQueue, SetVolume, EventTaskPanics, CurrentPanics,
         VolumePanics, voteVars
<1>4. ASSUME NEW u \in User, MoveInVoice(u) PROVE UNCHANGED <<votes, votedOn>>
  BY <1>4 DEF MoveInVoice
<1>5. ASSUME NEW t \in Track, TrackEnds(t) PROVE UNCHANGED <<votes, votedOn>>
  BY <1>5 DEF TrackEnds, voteVars
<1>6. UNCHANGED vars => UNCHANGED <<votes, votedOn>>
  BY DEF vars, voteVars
<1> QED BY <1>1, <1>2, <1>3, <1>4, <1>5, <1>6 DEF Next

LEMMA VotesDieStep ==
  ASSUME IInv, VotesDieWithTheirSong, [Next]_vars
  PROVE  VotesDieWithTheirSong'
<1>1. QInv /\ RestInv /\ ModesAdvance
  BY StepAdvances DEF IInv
<1>2. votedOn \in [User -> SUBSET Track] /\ votes \subseteq User
  BY <1>1 DEF RestInv
<1>3. ASSUME NEW t \in Track, Concerns(t), votes' # {} PROVE Concerns(t)'
  <2>1. Dispatch \/ (ended \subseteq ended' /\ Handling \subseteq Handling')
    BY <1>1, <1>3, EventsKept
  <2> QED BY <1>1, <1>3, <2>1, ConcernsStep
<1>4. \A v \in votes : \A t \in votedOn[v] : t \in Track /\ Concerns(t)
  BY <1>2 DEF VotesDieWithTheirSong, Concerns
<1> SUFFICES ASSUME NEW v \in votes', NEW t \in votedOn'[v] PROVE Concerns(t)'
  BY DEF VotesDieWithTheirSong, Concerns
<1>5. CASE \E u \in User : CastVote(u)
  <2>1. PICK u \in User : CastVote(u)
    BY <1>5
  <2>2. /\ votes' = votes \cup {u} /\ UNCHANGED queue
        /\ votedOn' = [votedOn EXCEPT ![u] = IF queue = <<>> THEN {} ELSE {queue[1]}]
    BY <2>1 DEF CastVote, queueVars
  <2>3. CASE v = u
    <3>1. queue # <<>> /\ t = queue[1]
      BY <1>2, <2>2, <2>3
    <3>2. t \in Queued'
      BY <1>1, <2>2, <3>1 DEF QInv, Queued
    <3> QED BY <3>2 DEF Concerns
  <2>4. CASE v # u
    <3>1. v \in votes /\ t \in votedOn[v]
      BY <1>2, <2>2, <2>4
    <3> QED BY <1>3, <1>4, <3>1
  <2> QED BY <2>3, <2>4
<1>6. CASE ~\E u \in User : CastVote(u)
  <2>1. v \in votes /\ t \in votedOn[v]
    BY <1>1, <1>6, VotesStep
  <2> QED BY <1>3, <1>4, <2>1
<1> QED BY <1>5, <1>6

\* A skip vote is never counted for a song the player is through with: when
\* a vote is in the set, its song is queued, still in the mixer, or its End
\* event has yet to reach the step that forgets the votes.
THEOREM VotesDie == Spec => []VotesDieWithTheirSong
<1>1. Init => VotesDieWithTheirSong
  BY DEF Init, VotesDieWithTheirSong
<1>2. IInv /\ VotesDieWithTheirSong /\ [Next]_vars => VotesDieWithTheirSong'
  BY VotesDieStep
<1> QED BY <1>1, <1>2, Inductive, PTL DEF Spec

-----------------------------------------------------------------------------
(* The refinement of Jukebox.                                              *)

Life == [t \in Track |-> LifeOf(t)]
\* Where a track is in its life, read off the queue and the modes.
LifeShape ==
  /\ Life \in [Track -> Abstract!Stage]
  /\ \A t \in Track : /\ Life[t] = "new" <=> mode[t] = "new"
                      /\ Life[t] = "current" <=> queue # <<>> /\ t = queue[1]
                      /\ Life[t] = "waiting" <=> t \in Queued /\ t # queue[1]
                      /\ Life[t] = "gone" <=> mode[t] # "new" /\ t \notin Queued
  /\ queue # <<>> => queue[1] \in Queued
  /\ queue = <<>> => Queued = {}
  /\ Queued \subseteq Track

LEMMA LifeShaped == QInv => LifeShape
<1> SUFFICES ASSUME QInv PROVE LifeShape
  OBVIOUS
<1>1. queue # <<>> => queue[1] \in Queued
  BY DEF QInv, Queued
<1>2. queue = <<>> => Queued = {}
  BY DEF Queued
<1>3. Queued \subseteq Track
  BY DEF QInv, Queued
<1>4. \A t \in Track : mode[t] = "new" => t \notin Queued
  BY DEF QInv, NewUntouched
<1>5. \A t \in Queued : queue # <<>>
  BY <1>2
<1>6. \A t \in Track : Life[t] = LifeOf(t)
  BY DEF Life
<1>7. ASSUME NEW t \in Track
      PROVE  /\ LifeOf(t) \in Abstract!Stage
             /\ LifeOf(t) = "new" <=> mode[t] = "new"
             /\ LifeOf(t) = "current" <=> queue # <<>> /\ t = queue[1]
             /\ LifeOf(t) = "waiting" <=> t \in Queued /\ t # queue[1]
             /\ LifeOf(t) = "gone" <=> mode[t] # "new" /\ t \notin Queued
  BY <1>1, <1>4, <1>5 DEF LifeOf, Abstract!Stage
<1>8. Life \in [Track -> Abstract!Stage]
  BY <1>7 DEF Life
<1> QED BY <1>1, <1>2, <1>3, <1>6, <1>7, <1>8 DEF LifeShape

LEMMA LifeShapedNext == QInv' => LifeShape'
BY LifeShaped, PTL

\* A fresh track that arrives is added to the jukebox.
LEMMA ArrivalAdds ==
  ASSUME LifeShape, LifeShape', NEW t \in Track, Arrives(t)
  PROVE  Abstract!Add(t)
<1>1. Life[t] = "new"
  BY DEF Arrives, Fresh, LifeShape
<1>2. Abstract!Active = Queued
  <2>1. \A s \in Track : Life[s] \in {"waiting", "current"} <=> s \in Queued
    BY DEF LifeShape
  <2>2. Abstract!Active = {s \in Track : Life[s] \in {"waiting", "current"}}
    BY DEF Abstract!Active, Abstract!In, Life
  <2> QED BY <2>1, <2>2 DEF LifeShape
<1>3. Life \in [Track -> Abstract!Stage] /\ Life' \in [Track -> Abstract!Stage]
  BY DEF LifeShape, Abstract!Stage
<1>4. Life'[t] = IF Queued = {} THEN "current" ELSE "waiting"
  <2>1. t \in Queued' /\ t \notin Queued /\ queue' # <<>>
    BY <1>1 DEF Arrives, LifeShape
  <2>2. queue = <<>> <=> Queued = {}
    BY DEF LifeShape
  <2>3. t = queue'[1] <=> queue = <<>>
    BY <2>1 DEF Arrives, LifeShape
  <2>4. /\ Life'[t] = "current" <=> queue' # <<>> /\ t = queue'[1]
        /\ Life'[t] = "waiting" <=> t \in Queued' /\ t # queue'[1]
    BY DEF LifeShape
  <2> QED BY <2>1, <2>2, <2>3, <2>4
<1>5. ASSUME NEW s \in Track, s # t PROVE Life'[s] = Life[s]
  <2>1. (mode'[s] = "new" <=> mode[s] = "new") /\ (s \in Queued' <=> s \in Queued)
    BY <1>5 DEF Arrives, NewStay
  <2>2. queue' # <<>> /\ (queue'[1] = s <=> queue # <<>> /\ queue[1] = s)
    BY <1>5 DEF Arrives
  <2>3. Life'[s] \in Abstract!Stage /\ Life[s] \in Abstract!Stage
    BY <1>3
  <2>4. /\ Life[s] = "new" <=> mode[s] = "new"
        /\ Life[s] = "current" <=> queue # <<>> /\ s = queue[1]
        /\ Life[s] = "waiting" <=> s \in Queued /\ s # queue[1]
    BY DEF LifeShape
  <2>5. /\ Life'[s] = "new" <=> mode'[s] = "new"
        /\ Life'[s] = "current" <=> queue' # <<>> /\ s = queue'[1]
        /\ Life'[s] = "waiting" <=> s \in Queued' /\ s # queue'[1]
    BY DEF LifeShape
  <2>6. s \in Queued => queue # <<>>
    BY DEF LifeShape
  <2> QED BY <2>1, <2>2, <2>3, <2>4, <2>5, <2>6 DEF Abstract!Stage
<1>6. Life' = [Life EXCEPT ![t] = IF Queued = {} THEN "current" ELSE "waiting"]
  BY <1>3, <1>4, <1>5
<1> QED BY <1>1, <1>2, <1>6 DEF Abstract!Add, Life

LEMMA DropAndNext ==
  ASSUME NEW S, S \subseteq Abstract!Active, Abstract!In("current") \subseteq S,
         NEW c \in Abstract!In("waiting") \ S,
         Life' = [t \in Track |-> CASE t \in S -> "gone" [] t = c -> "current" [] OTHER -> Life[t]]
  PROVE  Abstract!Drop(S)
BY DEF Abstract!Drop, Life

LEMMA DropOnly ==
  ASSUME NEW S, S \subseteq Abstract!Active,
         Abstract!In("current") \cap S = {} \/ Abstract!In("waiting") \ S = {},
         Life' = [t \in Track |-> IF t \in S THEN "gone" ELSE Life[t]]
  PROVE  Abstract!Drop(S)
BY DEF Abstract!Drop, Life

\* Whatever takes tracks out of the queue drops them from the jukebox, and
\* when the head is among them the first of the others becomes current.
LEMMA ShrinkDrops ==
  ASSUME LifeShape, LifeShape', Shrinks
  PROVE  Abstract!Drop(Queued \ Queued')
<1> DEFINE S == Queued \ Queued'
<1>1. Life \in [Track -> Abstract!Stage] /\ Life' \in [Track -> Abstract!Stage]
  BY DEF LifeShape, Abstract!Stage
<1>2. Abstract!In("current") = {s \in Track : Life[s] = "current"}
  BY DEF Abstract!In, Life
<1>3. Abstract!In("waiting") = {s \in Track : Life[s] = "waiting"}
  BY DEF Abstract!In, Life
<1>4. S \subseteq Abstract!Active
  BY <1>2, <1>3 DEF Abstract!Active, LifeShape
<1>5. \A s \in S : Life'[s] = "gone" /\ s \in Track
  <2>1. ASSUME NEW s \in S PROVE s \in Track /\ mode[s] # "new"
    BY DEF LifeShape
  <2>2. \A s \in S : mode'[s] # "new" /\ s \notin Queued' /\ s \in Track
    BY <2>1 DEF Shrinks, NewStay
  <2> QED BY <2>2 DEF LifeShape
<1>6. \A s \in Track : /\ mode'[s] = "new" <=> mode[s] = "new"
                       /\ s \in Queued' <=> s \in Queued /\ s \notin S
  BY DEF Shrinks, NewStay
<1>7. CASE queue # <<>> /\ queue[1] \notin Queued' /\ queue' # <<>>
  <2> DEFINE c == queue'[1]
  <2>1. c \in Queued' /\ c \in Track /\ c # queue[1] /\ c \notin S
    BY <1>7 DEF LifeShape, Shrinks
  <2>2. c \in Abstract!In("waiting") \ S
    BY <1>3, <2>1 DEF LifeShape, Shrinks
  <2>3. Abstract!In("current") \subseteq S
    BY <1>2, <1>7 DEF LifeShape
  <2>4. \A s \in Track : Life'[s] = IF s \in S THEN "gone" ELSE IF s = c THEN "current" ELSE Life[s]
    <3> SUFFICES ASSUME NEW s \in Track, s \notin S, s # c PROVE Life'[s] = Life[s]
      BY <1>5, <1>7, <2>1 DEF LifeShape
    <3>1. Life'[s] \in Abstract!Stage /\ Life[s] \in Abstract!Stage
      BY <1>1
    <3>2. /\ Life[s] = "new" <=> mode[s] = "new"
          /\ Life[s] = "waiting" <=> s \in Queued /\ s # queue[1]
          /\ Life[s] = "gone" <=> mode[s] # "new" /\ s \notin Queued
      BY DEF LifeShape
    <3>3. /\ Life'[s] = "new" <=> mode'[s] = "new"
          /\ Life'[s] = "waiting" <=> s \in Queued' /\ s # queue'[1]
          /\ Life'[s] = "gone" <=> mode'[s] # "new" /\ s \notin Queued'
      BY DEF LifeShape
    <3>4. s \in Queued <=> s \in Queued'
      BY <1>6
    <3>5. s \in Queued => s # queue[1]
      BY <1>7, <3>4
    <3> QED BY <1>6, <3>1, <3>2, <3>3, <3>4, <3>5 DEF Abstract!Stage
  <2>5. Life' = [s \in Track |-> CASE s \in S -> "gone" [] s = c -> "current" [] OTHER -> Life[s]]
    BY <1>1, <2>1, <2>4
  <2> HIDE DEF c
  <2> QED BY <1>4, <2>2, <2>3, <2>5, DropAndNext
<1>8. CASE ~(queue # <<>> /\ queue[1] \notin Queued' /\ queue' # <<>>)
  <2>1. \/ Abstract!In("current") \cap S = {}
        \/ Abstract!In("waiting") \ S = {}
    <3>1. CASE queue = <<>>
      BY <3>1 DEF LifeShape
    <3>2. CASE queue # <<>> /\ queue[1] \in Queued'
      BY <1>2, <3>2 DEF LifeShape
    <3>3. CASE queue' = <<>>
      BY <1>3, <3>3 DEF LifeShape
    <3> QED BY <1>8, <3>1, <3>2, <3>3
  <2>2. \A s \in Track : Life'[s] = IF s \in S THEN "gone" ELSE Life[s]
    <3> SUFFICES ASSUME NEW s \in Track, s \notin S PROVE Life'[s] = Life[s]
      BY <1>5
    <3>1. Life'[s] \in Abstract!Stage /\ Life[s] \in Abstract!Stage
      BY <1>1
    <3>2. /\ Life[s] = "new" <=> mode[s] = "new"
          /\ Life[s] = "waiting" <=> s \in Queued /\ s # queue[1]
          /\ Life[s] = "gone" <=> mode[s] # "new" /\ s \notin Queued
      BY DEF LifeShape
    <3>3. /\ Life'[s] = "new" <=> mode'[s] = "new"
          /\ Life'[s] = "waiting" <=> s \in Queued' /\ s # queue'[1]
          /\ Life'[s] = "gone" <=> mode'[s] # "new" /\ s \notin Queued'
      BY DEF LifeShape
    <3>4. s \in Queued <=> s \in Queued'
      BY <1>6
    <3>5. s \in Queued => queue'[1] = queue[1]
      BY <1>8, <3>4 DEF LifeShape, Shrinks
    <3> QED BY <1>6, <3>1, <3>2, <3>3, <3>4, <3>5 DEF Abstract!Stage
  <2>3. Life' = [s \in Track |-> IF s \in S THEN "gone" ELSE Life[s]]
    BY <1>1, <2>2
  <2> QED BY <1>4, <2>1, <2>3, DropOnly
<1> QED BY <1>7, <1>8

\* The queue of a guild implements the jukebox: whatever the commands, the
\* mixer and the event task do, in any order, a track is queued at most
\* once, one track is current as long as any waits, and none returns.
THEOREM QueueIsJukebox == Spec => JukeboxSpec
<1>1. Init => Abstract!Init
  <2> SUFFICES ASSUME Init PROVE Abstract!Init
    OBVIOUS
  <2>1. \A t \in Track : LifeOf(t) = "new"
    BY DEF Init, LifeOf
  <2> QED BY <2>1 DEF Abstract!Init
<1>2. IInv /\ StepInv /\ [Next]_vars => [Abstract!Next]_Life
  <2> SUFFICES ASSUME IInv, StepInv, [Next]_vars PROVE Abstract!Next
    OBVIOUS
  <2>1. QInv /\ CmdInv /\ EndedAreFinished /\ QInv'
    BY IInvStep DEF IInv, StepInv
  <2>2. LifeShape /\ LifeShape' /\ QueueStep
    BY <2>1, LifeShaped, LifeShapedNext, NextQueueStep
  <2>3. CASE Shrinks
    <3>1. Abstract!Drop(Queued \ Queued')
      BY <2>2, <2>3, ShrinkDrops
    <3>2. Queued \ Queued' \in SUBSET Track
      BY <2>2 DEF LifeShape
    <3> QED BY <3>1, <3>2 DEF Abstract!Next
  <2>4. ASSUME NEW t \in Fresh, Arrives(t) PROVE Abstract!Next
    <3>1. t \in Track
      BY DEF Fresh
    <3>2. Abstract!Add(t)
      BY <2>2, <2>4, <3>1, ArrivalAdds
    <3> QED BY <3>1, <3>2 DEF Abstract!Next
  <2> QED BY <2>2, <2>3, <2>4 DEF QueueStep
<1> QED BY <1>1, <1>2, Inductive, StepInvariant, PTL DEF Spec, JukeboxSpec, Abstract!Spec, Life
=============================================================================
