--------------------------- MODULE PlaybackProofs ---------------------------
(***************************************************************************)
(* Proofs about Playback, for any sets of tracks and users.  The inductive *)
(* invariant IInv adds to the checked invariants that a track is queued at *)
(* most once and that a new track was neither queued nor started.          *)
(***************************************************************************)
EXTENDS PlaybackProperties, QueueLemmas

Distinct == \A i, j \in 1..Len(queue) : queue[i] = queue[j] => i = j
NewUntouched == \A t \in Track : mode[t] = "new" => t \notin Queued \cup started
QInv == /\ queue \in Seq(Track) /\ mode \in [Track -> Mode]
        /\ started \in SUBSET Track /\ ended \in SUBSET Track
        /\ Distinct /\ NewUntouched
        /\ TailNeverStarted /\ FinishedTrackHasEvent
TailSet == {queue[i] : i \in 2..Len(queue)}

\* An edit of the queue keeps QInv if what follows the new head comes,
\* untouched, from behind the old head, and if the new head was queued.
LEMMA EditKeepsQInv ==
  ASSUME QInv,
         queue' \in Seq(Track), mode' \in [Track -> Mode],
         started' \in SUBSET Track, ended' \in SUBSET Track,
         Distinct',
         \A j \in 2..Len(queue') : /\ queue'[j] \in TailSet
                                   /\ mode'[queue'[j]] = mode[queue'[j]]
                                   /\ queue'[j] \in started' => queue'[j] \in started,
         queue' # <<>> => /\ queue'[1] \in Queued
                          /\ mode'[queue'[1]] \in Finished => queue'[1] \in ended',
         \A t \in Track : mode'[t] = "new" => /\ mode[t] = "new"
                                              /\ t \in started' => t \in started
  PROVE  QInv'
<1>1. \A j \in 2..Len(queue') : /\ queue'[j] \in TailSet
                                /\ queue'[j] \notin started'
                                /\ mode'[queue'[j]] = "pause"
  BY DEF QInv, TailSet, TailNeverStarted
<1>2. TailNeverStarted'
  <2> SUFFICES ASSUME NEW j \in 2..Len(queue')
               PROVE  /\ queue'[j] \notin started' /\ mode'[queue'[j]] = "pause"
                      /\ queue'[j] # queue'[1]
    BY DEF TailNeverStarted
  <2>1. j \in 1..Len(queue') /\ 1 \in 1..Len(queue') /\ j # 1
    OBVIOUS
  <2> QED BY <1>1, <2>1 DEF Distinct
<1>3. FinishedTrackHasEvent'
  <2> SUFFICES ASSUME NEW i \in 1..Len(queue'), mode'[queue'[i]] \in Finished
               PROVE  queue'[i] = queue'[1] /\ queue'[i] \in ended'
    BY DEF FinishedTrackHasEvent, Queued
  <2>1. i = 1
    BY <1>1 DEF Finished
  <2>2. queue' # <<>>
    OBVIOUS
  <2> QED BY <2>1, <2>2
<1>4. NewUntouched'
  <2> SUFFICES ASSUME NEW t \in Track, mode'[t] = "new"
               PROVE  t \notin Queued' \cup started'
    BY DEF NewUntouched
  <2>1. t \notin Queued /\ t \notin started'
    BY DEF QInv, NewUntouched
  <2>2. ASSUME NEW i \in 1..Len(queue'), queue'[i] = t PROVE FALSE
    <3>1. CASE i = 1
      <4>1. queue' # <<>>
        BY <2>2
      <4> QED BY <3>1, <4>1, <2>1, <2>2
    <3>2. CASE i # 1
      <4>1. i \in 2..Len(queue')
        BY <3>2
      <4>2. queue'[i] \in Queued
        BY <4>1 DEF TailSet, Queued, QInv
      <4> QED BY <4>2, <2>1, <2>2
    <3> QED BY <3>1, <3>2
  <2> QED BY <2>1, <2>2 DEF Queued
<1> QED BY <1>2, <1>3, <1>4 DEF QInv

\* A fresh track inserted behind the head, or into an empty queue.
LEMMA InsertKeepsQInv ==
  ASSUME QInv, NEW t \in Fresh, NEW i \in 1..Len(queue) + 1,
         i = 1 => queue = <<>>,
         EnterMixer(t), queue' = InsertAt(queue, i, t), UNCHANGED ended
  PROVE  QInv'
<1>1. t \in Track /\ mode[t] = "new" /\ t \notin Queued /\ t \notin started
  BY DEF Fresh, QInv, NewUntouched
<1>2. /\ queue' \in Seq(Track) /\ Len(queue') = Len(queue) + 1
      /\ \A j \in 1..Len(queue') :
           queue'[j] = IF j < i THEN queue[j] ELSE IF j = i THEN t ELSE queue[j - 1]
  <2>1. ASSUME NEW q \in Seq(Track), NEW k \in 1..Len(q) + 1
        PROVE  /\ InsertAt(q, k, t) \in Seq(Track) /\ Len(InsertAt(q, k, t)) = Len(q) + 1
               /\ \A j \in 1..Len(q) + 1 : InsertAt(q, k, t)[j] =
                    IF j < k THEN q[j] ELSE IF j = k THEN t ELSE q[j - 1]
    BY <1>1, InsertAtProperties, SMT
  <2>2. queue \in Seq(Track) /\ i \in 1..Len(queue) + 1
    BY DEF QInv
  <2>3. /\ InsertAt(queue, i, t) \in Seq(Track) /\ Len(InsertAt(queue, i, t)) = Len(queue) + 1
        /\ \A j \in 1..Len(queue) + 1 : InsertAt(queue, i, t)[j] =
             IF j < i THEN queue[j] ELSE IF j = i THEN t ELSE queue[j - 1]
    BY <2>1, <2>2, Zenon
  <2> QED BY <2>3
<1>3. /\ mode' \in [Track -> Mode] /\ started' \in SUBSET Track /\ ended' \in SUBSET Track
      /\ \A s \in Track : s # t => mode'[s] = mode[s] /\ (s \in started' <=> s \in started)
      /\ queue = <<>> => mode'[t] = "play"
      /\ queue # <<>> => mode'[t] = "pause" /\ t \notin started'
  BY <1>1 DEF QInv, EnterMixer, Mode
<1>4. \A j \in 1..Len(queue) : queue[j] # t /\ queue[j] \in Track
  BY <1>1 DEF Queued, QInv
<1>5. Distinct'
  <2> SUFFICES ASSUME NEW j \in 1..Len(queue'), NEW k \in 1..Len(queue'),
                      queue'[j] = queue'[k]
               PROVE  j = k
    BY DEF Distinct
  <2> DEFINE old(n) == IF n < i THEN n ELSE n - 1
  <2>1. \A n \in 1..Len(queue') : n # i => old(n) \in 1..Len(queue) /\ queue'[n] = queue[old(n)]
    BY <1>2
  <2>2. CASE j = i \/ k = i
    BY <2>2, <2>1, <1>2, <1>4
  <2>3. CASE j # i /\ k # i
    <3>1. old(j) = old(k)
      <4>1. /\ old(j) \in 1..Len(queue) /\ old(k) \in 1..Len(queue)
            /\ queue[old(j)] = queue[old(k)]
        BY <2>3, <2>1
      <4>2. Distinct
        BY DEF QInv
      <4> HIDE DEF old
      <4> QED BY <4>1, <4>2 DEF Distinct
    <3> QED BY <3>1, <2>3
  <2> QED BY <2>2, <2>3
<1>6. \A j \in 2..Len(queue') : queue'[j] \notin started' /\ mode'[queue'[j]] = "pause"
  <2> SUFFICES ASSUME NEW j \in 2..Len(queue')
               PROVE  queue'[j] \notin started' /\ mode'[queue'[j]] = "pause"
    OBVIOUS
  <2>0. queue # <<>>
    BY <1>2
  <2>1. CASE j = i
    BY <2>0, <2>1, <1>2, <1>3
  <2>2. CASE j < i
    <3>1. j \in 2..Len(queue) /\ queue'[j] = queue[j]
      BY <2>2, <1>2
    <3> QED BY <3>1, <1>3, <1>4 DEF QInv, TailNeverStarted
  <2>3. CASE j > i
    <3>1. i # 1
      BY <2>0
    <3>2. j - 1 \in 2..Len(queue) /\ queue'[j] = queue[j - 1]
      BY <2>3, <3>1, <1>2
    <3> QED BY <3>2, <1>3, <1>4 DEF QInv, TailNeverStarted
  <2> QED BY <2>1, <2>2, <2>3
<1>7. TailNeverStarted'
  <2> SUFFICES ASSUME NEW j \in 2..Len(queue') PROVE queue'[j] # queue'[1]
    BY <1>6 DEF TailNeverStarted
  <2>1. j \in 1..Len(queue') /\ 1 \in 1..Len(queue') /\ j # 1
    BY <1>2
  <2> QED BY <2>1, <1>5 DEF Distinct
<1>8. FinishedTrackHasEvent'
  <2> SUFFICES ASSUME NEW j \in 1..Len(queue'), mode'[queue'[j]] \in Finished
               PROVE  queue'[j] = queue'[1] /\ queue'[j] \in ended'
    BY DEF FinishedTrackHasEvent, Queued
  <2>1. j = 1
    BY <1>6 DEF Finished
  <2>2. CASE i = 1
    <3>1. queue'[1] = t /\ queue = <<>>
      BY <2>2, <1>2
    <3> QED BY <3>1, <2>1, <1>3 DEF Finished
  <2>3. CASE i # 1
    <3>1. 1 \in 1..Len(queue) /\ queue'[1] = queue[1]
      BY <2>3, <1>2
    <3> QED BY <3>1, <2>1, <1>3, <1>4 DEF QInv, FinishedTrackHasEvent, Queued
  <2> QED BY <2>2, <2>3
<1>9. NewUntouched'
  <2> SUFFICES ASSUME NEW s \in Track, mode'[s] = "new"
               PROVE  s \notin Queued' \cup started'
    BY DEF NewUntouched
  <2>1. s # t /\ s \notin Queued /\ s \notin started'
    BY <1>3 DEF QInv, NewUntouched
  <2>2. ASSUME NEW j \in 1..Len(queue') PROVE queue'[j] # s
    <3>1. \A n \in 1..Len(queue) : queue[n] # s
      BY <2>1 DEF Queued
    <3>2. CASE j = i
      BY <3>2, <2>1, <1>2
    <3>3. CASE j < i
      BY <3>1, <3>3, <1>2
    <3>4. CASE j > i
      <4>1. j - 1 \in 1..Len(queue) /\ queue'[j] = queue[j - 1]
        BY <3>4, <1>2
      <4> QED BY <4>1, <3>1
    <3> QED BY <3>2, <3>3, <3>4
  <2> QED BY <2>1, <2>2 DEF Queued
<1> QED BY <1>2, <1>3, <1>5, <1>7, <1>8, <1>9 DEF QInv

\* The general edit: the new queue selects elements of the old one, by an
\* injective f that keeps the old head, if at all, at the head.
LEMMA SelectKeepsQInv ==
  ASSUME QInv, queue' \in Seq(Track),
         NEW f \in [1..Len(queue') -> 1..Len(queue)],
         \A j \in 1..Len(queue') : queue'[j] = queue[f[j]],
         \A j, k \in 1..Len(queue') : f[j] = f[k] => j = k,
         \A j \in 2..Len(queue') : f[j] # 1,
         mode' \in [Track -> Mode], started' \in SUBSET Track, ended' \in SUBSET Track,
         \A j \in 2..Len(queue') : /\ mode'[queue'[j]] = mode[queue'[j]]
                                   /\ queue'[j] \in started' => queue'[j] \in started,
         queue' # <<>> => (mode'[queue'[1]] \in Finished => queue'[1] \in ended'),
         \A t \in Track : mode'[t] = "new" => /\ mode[t] = "new"
                                              /\ t \in started' => t \in started
  PROVE  QInv'
<1>1. Distinct'
  <2> SUFFICES ASSUME NEW j \in 1..Len(queue'), NEW k \in 1..Len(queue'),
                      queue'[j] = queue'[k]
               PROVE  j = k
    BY DEF Distinct
  <2>1. queue[f[j]] = queue[f[k]] /\ f[j] \in 1..Len(queue) /\ f[k] \in 1..Len(queue)
    OBVIOUS
  <2>2. f[j] = f[k]
    BY <2>1 DEF QInv, Distinct
  <2> QED BY <2>2
<1>2. \A j \in 2..Len(queue') : queue'[j] \in TailSet
  <2> SUFFICES ASSUME NEW j \in 2..Len(queue') PROVE queue'[j] \in TailSet
    OBVIOUS
  <2>1. f[j] \in 2..Len(queue) /\ queue'[j] = queue[f[j]]
    OBVIOUS
  <2> QED BY <2>1 DEF TailSet
<1>3. queue' # <<>> => queue'[1] \in Queued
  BY DEF Queued
<1> QED BY <1>1, <1>2, <1>3, EditKeepsQInv

\* A stop or a command that leaves the queue alone.
LEMMA SameQueueKeepsQInv ==
  ASSUME QInv, UNCHANGED queue,
         mode' \in [Track -> Mode], started' \in SUBSET Track, ended' \in SUBSET Track,
         \A j \in 2..Len(queue) : /\ mode'[queue[j]] = mode[queue[j]]
                                  /\ queue[j] \in started' => queue[j] \in started,
         queue # <<>> => (mode'[queue[1]] \in Finished => queue[1] \in ended'),
         \A t \in Track : mode'[t] = "new" => /\ mode[t] = "new"
                                              /\ t \in started' => t \in started
  PROVE  QInv'
<1> DEFINE f == [j \in 1..Len(queue) |-> j]
<1>1. /\ f \in [1..Len(queue') -> 1..Len(queue)]
      /\ \A j \in 1..Len(queue') : queue'[j] = queue[f[j]]
      /\ \A j, k \in 1..Len(queue') : f[j] = f[k] => j = k
      /\ \A j \in 2..Len(queue') : f[j] # 1
  BY DEF QInv
<1>2. queue' \in Seq(Track)
  BY DEF QInv
<1> HIDE DEF f
<1> QED BY <1>1, <1>2, SelectKeepsQInv

LEMMA SameQInv ==
  ASSUME QInv, UNCHANGED <<queue, mode, started, ended>>
  PROVE  QInv'
BY DEF QInv, Distinct, NewUntouched, TailNeverStarted, FinishedTrackHasEvent, Queued

\* Elements b + 1 .. e are cut out and, unless the head goes, it stays.
LEMMA CutKeepsQInv ==
  ASSUME QInv, queue' \in Seq(Track), NEW b \in 0..Len(queue), NEW e \in b..Len(queue),
         Len(queue') = Len(queue) - (e - b),
         \A j \in 1..Len(queue') : queue'[j] = IF j <= b THEN queue[j] ELSE queue[j + (e - b)],
         mode' \in [Track -> Mode], started' \in SUBSET Track, ended' \in SUBSET Track,
         \A j \in 2..Len(queue') : /\ mode'[queue'[j]] = mode[queue'[j]]
                                   /\ queue'[j] \in started' => queue'[j] \in started,
         queue' # <<>> => (mode'[queue'[1]] \in Finished => queue'[1] \in ended'),
         \A t \in Track : mode'[t] = "new" => /\ mode[t] = "new"
                                              /\ t \in started' => t \in started
  PROVE  QInv'
<1> DEFINE f == [j \in 1..Len(queue') |-> IF j <= b THEN j ELSE j + (e - b)]
<1>1. queue \in Seq(Track)
  BY DEF QInv
<1>2. /\ f \in [1..Len(queue') -> 1..Len(queue)]
      /\ \A j \in 1..Len(queue') : f[j] = IF j <= b THEN j ELSE j + (e - b)
  BY <1>1
<1>3. /\ \A j \in 1..Len(queue') : queue'[j] = queue[f[j]]
      /\ \A j, k \in 1..Len(queue') : f[j] = f[k] => j = k
      /\ \A j \in 2..Len(queue') : f[j] # 1
  BY <1>2
<1> HIDE DEF f
<1> QED BY <1>2, <1>3, SelectKeepsQInv

\* What songbird's operations do to the modes.
LEMMA StopFacts ==
  ASSUME QInv, NEW S \in SUBSET Track, StopTracks(S)
  PROVE  /\ mode' \in [Track -> Mode] /\ ended' \in SUBSET Track /\ ended \subseteq ended'
         /\ \A t \in Track : t \notin S => mode'[t] = mode[t]
         /\ \A t \in Track : mode'[t] = "new" <=> mode[t] = "new"
         /\ \A t \in Track : mode'[t] \in Finished => mode[t] \in Finished \/ t \in ended'
  BY DEF QInv, StopTracks, Live, Mode, Finished

LEMMA PlayFacts ==
  ASSUME QInv, NEW q \in Seq(Track), PlayHead(q)
  PROVE  /\ mode' \in [Track -> Mode] /\ started' \in SUBSET Track
         /\ q # <<>> => \A t \in Track : t # q[1] => /\ mode'[t] = mode[t]
                                                     /\ t \in started' => t \in started
         /\ \A t \in Track : mode'[t] = "new" <=> mode[t] = "new"
         /\ \A t \in Track : mode'[t] = "new" /\ t \in started' => t \in started
         /\ \A t \in Track : mode'[t] \in Finished => mode[t] \in Finished
<1>1. CASE q # <<>> /\ Live(q[1])
  <2>1. q[1] \in Track
    BY <1>1
  <2>2. /\ mode' = [mode EXCEPT ![q[1]] = "play"] /\ started' = started \cup {q[1]}
        /\ mode[q[1]] \in {"pause", "play"}
    BY <1>1 DEF PlayHead, Live
  <2> QED BY <1>1, <2>1, <2>2 DEF QInv, Mode, Finished
<1>2. CASE ~(q # <<>> /\ Live(q[1]))
  <2>1. UNCHANGED <<mode, started>>
    BY <1>2 DEF PlayHead
  <2> QED BY <2>1 DEF QInv
<1> QED BY <1>1, <1>2

LEMMA PauseFacts ==
  ASSUME QInv, PauseTop
  PROVE  /\ mode' \in [Track -> Mode]
         /\ queue # <<>> => \A t \in Track : t # queue[1] => mode'[t] = mode[t]
         /\ \A t \in Track : mode'[t] = "new" <=> mode[t] = "new"
         /\ \A t \in Track : mode'[t] \in Finished => mode[t] \in Finished
<1>1. CASE queue # <<>> /\ Live(queue[1])
  <2>1. queue[1] \in Track
    BY <1>1 DEF QInv
  <2>2. mode' = [mode EXCEPT ![queue[1]] = "pause"] /\ mode[queue[1]] \in {"pause", "play"}
    BY <1>1 DEF PauseTop, Live
  <2> QED BY <1>1, <2>1, <2>2 DEF QInv, Mode, Finished
<1>2. CASE ~(queue # <<>> /\ Live(queue[1]))
  BY <1>2 DEF PauseTop, QInv
<1> QED BY <1>1, <1>2

\* The tail is neither started nor finished.
LEMMA TailFacts ==
  ASSUME QInv
  PROVE  /\ \A i \in 1..Len(queue) : queue[i] \in Track /\ mode[queue[i]] # "new"
         /\ \A i \in 2..Len(queue) : /\ queue[i] \notin started /\ mode[queue[i]] = "pause"
                                     /\ queue[i] # queue[1]
         /\ queue # <<>> => (mode[queue[1]] \in Finished => queue[1] \in ended)
<1>1. \A i \in 1..Len(queue) : queue[i] \in Track /\ queue[i] \in Queued
  BY DEF QInv, Queued
<1> QED BY <1>1 DEF QInv, NewUntouched, TailNeverStarted, FinishedTrackHasEvent, Queued

\* QueueHandler's pop, and dequeue(0): the head leaves, the next may play.
LEMMA PopKeepsQInv ==
  ASSUME QInv, queue # <<>>, queue' = Tail(queue), ended' \in SUBSET Track,
         PlayHead(Tail(queue)) \/ UNCHANGED <<mode, started>>
  PROVE  QInv'
<1>1. /\ queue' \in Seq(Track) /\ Len(queue') = Len(queue) - 1 /\ Len(queue) >= 1
      /\ \A j \in 1..Len(queue') : queue'[j] = queue[j + 1]
  BY DEF QInv
<1>2. \A j \in 1..Len(queue') : j + 1 \in 2..Len(queue) /\ mode[queue'[j]] = "pause"
  BY <1>1, TailFacts
<1>3. /\ mode' \in [Track -> Mode] /\ started' \in SUBSET Track
      /\ queue' # <<>> => \A t \in Track : t # queue'[1] => /\ mode'[t] = mode[t]
                                                            /\ t \in started' => t \in started
      /\ \A t \in Track : mode'[t] = "new" => mode[t] = "new" /\ (t \in started' => t \in started)
      /\ \A t \in Track : mode'[t] \in Finished => mode[t] \in Finished
  <2>1. CASE PlayHead(Tail(queue))
    BY <1>1, <2>1, PlayFacts
  <2>2. CASE UNCHANGED <<mode, started>>
    BY <2>2 DEF QInv
  <2> QED BY <2>1, <2>2
<1>4. \A j \in 2..Len(queue') : /\ mode'[queue'[j]] = mode[queue'[j]]
                                /\ queue'[j] \in started' => queue'[j] \in started
  <2> SUFFICES ASSUME NEW j \in 2..Len(queue')
               PROVE  /\ mode'[queue'[j]] = mode[queue'[j]]
                      /\ queue'[j] \in started' => queue'[j] \in started
    OBVIOUS
  <2>1. queue'[j] # queue'[1] /\ queue'[j] \in Track /\ queue' # <<>>
    <3>1. j + 1 \in 1..Len(queue) /\ 2 \in 1..Len(queue) /\ j + 1 # 2
      BY <1>1
    <3>2. queue[j + 1] # queue[2]
      BY <3>1 DEF QInv, Distinct
    <3>3. queue'[j] = queue[j + 1] /\ queue'[1] = queue[2]
      BY <1>1
    <3>4. queue'[j] # queue'[1]
      BY <3>2, <3>3
    <3>5. queue'[j] \in Track /\ queue' # <<>>
      BY <1>1
    <3> QED BY <3>4, <3>5
  <2> QED BY <2>1, <1>3
<1>5. queue' # <<>> => mode'[queue'[1]] \notin Finished
  <2> SUFFICES ASSUME queue' # <<>> PROVE mode'[queue'[1]] \notin Finished
    OBVIOUS
  <2>1. 1 \in 1..Len(queue') /\ queue'[1] \in Track
    BY <1>1
  <2> QED BY <2>1, <1>2, <1>3 DEF Finished
<1>6. 0 \in 0..Len(queue) /\ 1 \in 0..Len(queue)
  BY <1>1
<1> QED BY <1>1, <1>3, <1>4, <1>5, <1>6, CutKeepsQInv

LEMMA CutOfQueue ==
  ASSUME QInv, NEW b \in 0..Len(queue), NEW e \in b..Len(queue),
         queue' = SubSeq(queue, 1, b) \o SubSeq(queue, e + 1, Len(queue))
  PROVE  /\ queue' \in Seq(Track) /\ Len(queue') = Len(queue) - (e - b)
         /\ \A j \in 1..Len(queue') : queue'[j] = IF j <= b THEN queue[j] ELSE queue[j + (e - b)]
BY ZenonT(40), CutProperties DEF QInv

\* A cut that stops what it takes out, or (skip n) does not.
LEMMA StopCutKeepsQInv ==
  ASSUME QInv, NEW b \in 0..Len(queue), NEW e \in b..Len(queue),
         StopTracks({queue[i] : i \in (b + 1)..e}) \/ UNCHANGED <<mode, ended>>,
         queue' \in Seq(Track), Len(queue') = Len(queue) - (e - b),
         \A j \in 1..Len(queue') : queue'[j] = IF j <= b THEN queue[j] ELSE queue[j + (e - b)],
         UNCHANGED started
  PROVE  QInv'
<1> DEFINE S == {queue[i] : i \in (b + 1)..e}
<1>1. queue \in Seq(Track) /\ b \in Nat /\ e \in Nat /\ b <= e /\ e <= Len(queue)
  BY DEF QInv
<1>2. S \in SUBSET Track
  BY DEF QInv
<1>3. ASSUME NEW j \in 1..Len(queue') PROVE queue'[j] \notin S /\ queue'[j] \in Track
  <2> DEFINE k == IF j <= b THEN j ELSE j + (e - b)
  <2>1. k \in 1..Len(queue) /\ k \notin (b + 1)..e /\ queue'[j] = queue[k]
    BY <1>1
  <2> HIDE DEF k
  <2>2. ASSUME NEW i \in (b + 1)..e PROVE queue[i] # queue[k]
    <3>1. i \in 1..Len(queue) /\ i # k
      BY <1>1, <2>1
    <3> QED BY <3>1, <2>1 DEF QInv, Distinct
  <2> QED BY <2>1, <2>2 DEF QInv
<1>4. /\ mode' \in [Track -> Mode] /\ ended' \in SUBSET Track /\ ended \subseteq ended'
      /\ \A t \in Track : t \notin S => mode'[t] = mode[t]
      /\ \A t \in Track : mode'[t] = "new" => mode[t] = "new"
  <2>1. CASE StopTracks(S)
    <3> HIDE DEF S
    <3> QED BY <1>2, <2>1, StopFacts
  <2>2. CASE UNCHANGED <<mode, ended>>
    BY <2>2 DEF QInv
  <2> QED BY <2>1, <2>2
<1> HIDE DEF S
<1>5. \A j \in 1..Len(queue') : mode'[queue'[j]] = mode[queue'[j]]
  BY <1>3, <1>4
<1>6. queue' # <<>> => (mode'[queue'[1]] \in Finished => queue'[1] \in ended')
  <2> SUFFICES ASSUME queue' # <<>>, mode'[queue'[1]] \in Finished PROVE queue'[1] \in ended'
    OBVIOUS
  <2>1. mode[queue'[1]] \in Finished /\ 1 \in 1..Len(queue')
    BY <1>1, <1>5
  <2>2. CASE b = 0
    <3>1. 1 + e \in 1..Len(queue) /\ queue'[1] = queue[1 + e]
      BY <1>1, <2>1, <2>2
    <3>2. 1 + e = 1
      BY <3>1, <2>1, TailFacts DEF Finished
    <3> QED BY <3>1, <3>2, <2>1, <1>4, TailFacts
  <2>3. CASE b > 0
    <3>1. queue'[1] = queue[1] /\ queue # <<>>
      BY <1>1, <2>1, <2>3
    <3> QED BY <3>1, <2>1, <1>4, TailFacts
  <2> QED BY <2>2, <2>3
<1>7. started' \in SUBSET Track
  BY DEF QInv
<1> QED BY <1>4, <1>5, <1>6, <1>7, CutKeepsQInv

-----------------------------------------------------------------------------
(* One lemma per operation that touches the queue or the modes.            *)

LEMMA EnqueueKeepsQInv ==
  ASSUME QInv, NEW t \in Fresh, Enqueue(t)
  PROVE  QInv'
<1>1. Len(queue) + 1 \in 1..Len(queue) + 1 /\ queue \in Seq(Track) /\ t \in Track
  BY DEF QInv, Fresh
<1>2. queue' = InsertAt(queue, Len(queue) + 1, t)
  <2>1. SubSeq(queue, Len(queue) + 1, Len(queue)) = <<>> /\ SubSeq(queue, 1, Len(queue)) = queue
    BY <1>1
  <2>2. queue \o <<t>> \o <<>> = Append(queue, t)
    BY <1>1
  <2> QED BY <2>1, <2>2 DEF Enqueue, InsertAt
<1>3. Len(queue) + 1 = 1 => queue = <<>>
  BY <1>1
<1> QED BY <1>1, <1>2, <1>3, InsertKeepsQInv DEF Enqueue

\* Operations on the head alone: PlayHead, PauseTop, StopTracks({head}).
LEMMA HeadKeepsQInv ==
  ASSUME QInv, UNCHANGED queue,
         mode' \in [Track -> Mode], started' \in SUBSET Track, ended' \in SUBSET Track,
         queue # <<>> => \A t \in Track : t # queue[1] => /\ mode'[t] = mode[t]
                                                          /\ t \in started' => t \in started,
         queue # <<>> => (mode'[queue[1]] \in Finished => queue[1] \in ended'),
         \A t \in Track : mode'[t] = "new" => /\ mode[t] = "new"
                                              /\ t \in started' => t \in started
  PROVE  QInv'
<1>1. \A j \in 2..Len(queue) : queue # <<>> /\ queue[j] \in Track /\ queue[j] # queue[1]
  BY TailFacts DEF QInv
<1>2. \A j \in 2..Len(queue) : /\ mode'[queue[j]] = mode[queue[j]]
                               /\ queue[j] \in started' => queue[j] \in started
  BY <1>1
<1> QED BY <1>2, SameQueueKeepsQInv

LEMMA TrackEndsKeepsQInv ==
  ASSUME QInv, NEW t \in Track, TrackEnds(t)
  PROVE  QInv'
<1>1. PICK m \in {"end", "error"} : mode' = [mode EXCEPT ![t] = m]
  BY DEF TrackEnds
<1>2. UNCHANGED <<queue, started>> /\ mode[t] = "play" /\ ended' = ended \cup {t}
  BY DEF TrackEnds
<1>3. /\ mode' \in [Track -> Mode] /\ started' \in SUBSET Track /\ ended' \in SUBSET Track
      /\ mode'[t] # "new" /\ \A s \in Track : s # t => mode'[s] = mode[s]
  BY <1>1, <1>2 DEF QInv, Mode, Finished
<1>4. \A j \in 2..Len(queue) : queue[j] # t /\ queue[j] \in Track
  BY <1>2, TailFacts DEF QInv
<1>5. queue # <<>> => (mode'[queue[1]] \in Finished => queue[1] \in ended')
  <2> SUFFICES ASSUME queue # <<>>, mode'[queue[1]] \in Finished PROVE queue[1] \in ended'
    OBVIOUS
  <2>1. queue[1] \in Track
    BY DEF QInv
  <2> QED BY <2>1, <1>2, <1>3, TailFacts
<1> QED BY <1>2, <1>3, <1>4, <1>5, SameQueueKeepsQInv

LEMMA PlayHeadKeepsQInv ==
  ASSUME QInv, PlayHead(queue), UNCHANGED <<queue, ended>>
  PROVE  QInv'
<1>1. queue \in Seq(Track) /\ ended' \in SUBSET Track
  BY DEF QInv
<1>2. queue # <<>> => (mode'[queue[1]] \in Finished => queue[1] \in ended')
  BY <1>1, PlayFacts, TailFacts
<1> QED BY <1>1, <1>2, PlayFacts, HeadKeepsQInv

LEMMA PauseTopKeepsQInv ==
  ASSUME QInv, PauseTop, UNCHANGED <<queue, started, ended>>
  PROVE  QInv'
<1>1. queue \in Seq(Track) /\ ended' \in SUBSET Track /\ started' \in SUBSET Track
  BY DEF QInv
<1>2. queue # <<>> => (mode'[queue[1]] \in Finished => queue[1] \in ended')
  BY <1>1, PauseFacts, TailFacts
<1> QED BY <1>1, <1>2, PauseFacts, HeadKeepsQInv

LEMMA SkipStopKeepsQInv ==
  ASSUME QInv, NEW u \in User, SkipStop(u)
  PROVE  QInv'
<1>1. queue # <<>> /\ queue[1] \in Track /\ UNCHANGED <<queue, started>>
  BY DEF SkipStop, QInv
<1>2. StopTracks({queue[1]})
  BY DEF SkipStop
<1>3. /\ mode' \in [Track -> Mode] /\ ended' \in SUBSET Track /\ ended \subseteq ended'
      /\ \A t \in Track : t # queue[1] => mode'[t] = mode[t]
      /\ \A t \in Track : mode'[t] = "new" <=> mode[t] = "new"
      /\ \A t \in Track : mode'[t] \in Finished => mode[t] \in Finished \/ t \in ended'
  BY <1>1, <1>2, StopFacts
<1>4. mode'[queue[1]] \in Finished => queue[1] \in ended'
  BY <1>1, <1>3, TailFacts
<1>5. started' \in SUBSET Track
  BY <1>1 DEF QInv
<1> QED BY <1>1, <1>3, <1>4, <1>5, HeadKeepsQInv

LEMMA DispatchKeepsQInv ==
  ASSUME QInv, Dispatch
  PROVE  QInv'
<1>1. PICK batch \in SUBSET ended \ {{}} :
        /\ ended' = ended \ batch
        /\ IF queue # <<>> /\ queue[1] \in batch
           THEN queue' = Tail(queue) /\ PlayHead(Tail(queue))
           ELSE UNCHANGED <<queue, mode, started>>
  BY DEF Dispatch
<1>2. ended' \in SUBSET Track
  BY <1>1 DEF QInv
<1>3. CASE queue # <<>> /\ queue[1] \in batch
  BY <1>1, <1>2, <1>3, PopKeepsQInv
<1>4. CASE ~(queue # <<>> /\ queue[1] \in batch)
  <2>1. UNCHANGED <<queue, mode, started>>
    BY <1>1, <1>4
  <2>2. queue # <<>> => (mode'[queue[1]] \in Finished => queue[1] \in ended')
    BY <1>1, <1>4, <2>1, TailFacts
  <2>3. mode' \in [Track -> Mode] /\ started' \in SUBSET Track
    BY <2>1 DEF QInv
  <2> QED BY <1>2, <2>1, <2>2, <2>3, HeadKeepsQInv
<1> QED BY <1>3, <1>4

LEMMA SkipKeepsQInv ==
  ASSUME QInv, NEW u \in User, NEW n \in 1..Len(queue), Skip(u, n)
  PROVE  QInv'
<1>1. 1 \in 0..Len(queue) /\ n \in 1..Len(queue) /\ queue \in Seq(Track) /\ queue # <<>>
  BY DEF Skip, QInv
<1>2. <<queue[1]>> = SubSeq(queue, 1, 1)
  BY <1>1
<1>3. queue' = SubSeq(queue, 1, 1) \o SubSeq(queue, n + 1, Len(queue))
  BY <1>2 DEF Skip
<1>4. UNCHANGED <<mode, ended, started>>
  BY DEF Skip
<1> QED BY <1>1, <1>3, <1>4, CutOfQueue, StopCutKeepsQInv

LEMMA ClearKeepsQInv ==
  ASSUME QInv, NEW u \in User, Clear(u)
  PROVE  QInv'
<1>1. 1 \in 0..Len(queue) /\ Len(queue) \in 1..Len(queue) /\ queue \in Seq(Track) /\ queue # <<>>
  BY DEF Clear, QInv
<1>2. <<queue[1]>> = SubSeq(queue, 1, 1) \o SubSeq(queue, Len(queue) + 1, Len(queue))
  BY <1>1
<1>3. /\ queue' = SubSeq(queue, 1, 1) \o SubSeq(queue, Len(queue) + 1, Len(queue))
      /\ StopTracks({queue[i] : i \in (1 + 1)..Len(queue)}) /\ UNCHANGED started
  BY <1>2 DEF Clear
<1> QED BY <1>1, <1>3, CutOfQueue, StopCutKeepsQInv

LEMMA DrainTracksKeepsQInv ==
  ASSUME QInv, NEW u \in User, task[u].at \in Nat, task[u].to \in Nat,
         task[u].at <= task[u].to, DrainTracks(u)
  PROVE  QInv'
<1> DEFINE b == task[u].at
           k == task[u].to + 1
<1>1. queue \in Seq(Track) /\ b \in Nat /\ k \in Nat /\ b < k /\ UNCHANGED started
  BY DEF DrainTracks, QInv
<1>2. CASE task[u].to < Len(queue)
  <2>1. b \in 0..Len(queue) /\ k \in b..Len(queue) /\ k + 1 = task[u].to + 2
    BY <1>1, <1>2
  <2>2. /\ queue' = SubSeq(queue, 1, b) \o SubSeq(queue, k + 1, Len(queue))
        /\ StopTracks({queue[i] : i \in (b + 1)..k})
    BY <1>2, <2>1 DEF DrainTracks
  <2> HIDE DEF b, k
  <2>3. /\ queue' \in Seq(Track) /\ Len(queue') = Len(queue) - (k - b)
        /\ \A j \in 1..Len(queue') : queue'[j] = IF j <= b THEN queue[j] ELSE queue[j + (k - b)]
    BY <2>1, <2>2, CutOfQueue
  <2> QED BY <1>1, <2>1, <2>2, <2>3, StopCutKeepsQInv
<1>3. CASE ~(task[u].to < Len(queue))
  <2>1. UNCHANGED <<queue, mode, started, ended>>
    BY <1>3 DEF DrainTracks
  <2> QED BY <2>1, SameQInv
<1> QED BY <1>2, <1>3

LEMMA StopQueueKeepsQInv ==
  ASSUME QInv, NEW u \in User, StopQueue(u)
  PROVE  QInv'
<1>1. queue' = <<>> /\ UNCHANGED started /\ StopTracks(Queued)
  BY DEF StopQueue
<1>2. Queued \in SUBSET Track
  BY DEF QInv, Queued
<1>3. /\ mode' \in [Track -> Mode] /\ ended' \in SUBSET Track
      /\ \A t \in Track : mode'[t] = "new" <=> mode[t] = "new"
  BY <1>1, <1>2, StopFacts
<1>4. \A i \in 1..Len(queue') : FALSE
  BY <1>1
<1>5. Distinct' /\ TailNeverStarted' /\ FinishedTrackHasEvent' /\ Queued' = {}
  BY <1>1, <1>4 DEF Distinct, TailNeverStarted, FinishedTrackHasEvent, Queued
<1>6. NewUntouched'
  BY <1>1, <1>3, <1>5 DEF QInv, NewUntouched
<1>7. queue' \in Seq(Track) /\ started' \in SUBSET Track
  BY <1>1 DEF QInv
<1> QED BY <1>3, <1>5, <1>6, <1>7, Zenon DEF QInv

LEMMA ShuffleKeepsQInv ==
  ASSUME QInv, NEW u \in User, Shuffle(u)
  PROVE  QInv'
<1>1. PICK p \in TailPermutations(Len(queue)) : queue' = [i \in 1..Len(queue) |-> queue[p[i]]]
  BY DEF Shuffle
<1>2. queue \in Seq(Track) /\ Len(queue) \in Nat /\ queue # <<>> /\ UNCHANGED <<mode, started, ended>>
  BY DEF Shuffle, QInv
<1>3. /\ p \in [1..Len(queue) -> 1..Len(queue)] /\ p[1] = 1
      /\ \A i, j \in 1..Len(queue) : p[i] = p[j] => i = j
  BY DEF TailPermutations
<1>4. /\ queue' \in Seq(Track) /\ Len(queue') = Len(queue)
      /\ \A j \in 1..Len(queue') : queue'[j] = queue[p[j]]
  BY <1>1, <1>2, <1>3
<1>5. \A j \in 2..Len(queue') : p[j] # 1
  BY <1>2, <1>3, <1>4
<1>6. queue' # <<>> => (mode'[queue'[1]] \in Finished => queue'[1] \in ended')
  <2>1. queue'[1] = queue[1]
    BY <1>2, <1>3, <1>4
  <2> QED BY <2>1, <1>2, TailFacts
<1>7. /\ mode' \in [Track -> Mode] /\ started' \in SUBSET Track /\ ended' \in SUBSET Track
      /\ p \in [1..Len(queue') -> 1..Len(queue)]
      /\ \A i, j \in 1..Len(queue') : p[i] = p[j] => i = j
  BY <1>2, <1>3, <1>4 DEF QInv
<1> QED BY <1>2, <1>4, <1>5, <1>6, <1>7, SelectKeepsQInv

\* movesong: where the element at index j of the moved queue was before.
MovedFrom(at, to, j) ==
  IF j = to + 1 THEN at + 1
  ELSE IF j < to + 1 THEN (IF j < at + 1 THEN j ELSE j + 1)
  ELSE (IF j - 1 < at + 1 THEN j - 1 ELSE j)

LEMMA MoveProperties ==
  ASSUME NEW q \in Seq(Track), NEW at \in 1..Len(q), NEW to \in 1..Len(q),
         at < Len(q), to < Len(q)
  PROVE  LET r == InsertAt(RemoveAt(q, at + 1), to + 1, q[at + 1])
         IN /\ r \in Seq(Track) /\ Len(r) = Len(q)
            /\ \A j \in 1..Len(q) : r[j] = q[MovedFrom(at, to, j)]
<1> DEFINE d == RemoveAt(q, at + 1)
           e == q[at + 1]
           i == to + 1
           r == InsertAt(d, i, e)
<1>1. at + 1 \in 1..Len(q) /\ to + 1 \in 1..Len(q) /\ e \in Track
  OBVIOUS
<1>2. /\ d \in Seq(Track) /\ Len(d) = Len(q) - 1
      /\ \A j \in 1..Len(q) - 1 : d[j] = IF j < at + 1 THEN q[j] ELSE q[j + 1]
  BY <1>1, RemoveAtProperties
<1> HIDE DEF d
<1>3. i \in 1..Len(d) + 1
  BY <1>1, <1>2
<1> HIDE DEF i, e
<1>4. /\ r \in Seq(Track) /\ Len(r) = Len(d) + 1
      /\ \A j \in 1..Len(d) + 1 :
           r[j] = IF j < i THEN d[j] ELSE IF j = i THEN e ELSE d[j - 1]
  <2>1. ASSUME NEW x \in Seq(Track), NEW y \in Track, NEW k \in 1..Len(x) + 1
        PROVE  /\ InsertAt(x, k, y) \in Seq(Track) /\ Len(InsertAt(x, k, y)) = Len(x) + 1
               /\ \A j \in 1..Len(x) + 1 : InsertAt(x, k, y)[j] =
                    IF j < k THEN x[j] ELSE IF j = k THEN y ELSE x[j - 1]
    BY InsertAtProperties, SMT
  <2>2. d \in Seq(Track) /\ e \in Track /\ i \in 1..Len(d) + 1
    BY <1>1, <1>2, <1>3 DEF e
  <2> HIDE DEF d
  <2>3. /\ InsertAt(d, i, e) \in Seq(Track) /\ Len(InsertAt(d, i, e)) = Len(d) + 1
        /\ \A j \in 1..Len(d) + 1 : InsertAt(d, i, e)[j] =
             IF j < i THEN d[j] ELSE IF j = i THEN e ELSE d[j - 1]
    BY <2>1, <2>2
  <2> QED BY <2>3
<1> HIDE DEF r
<1>5. ASSUME NEW j \in 1..Len(q) PROVE r[j] = q[MovedFrom(at, to, j)]
  <2>1. CASE j = to + 1
    BY <2>1, <1>1, <1>2, <1>4 DEF MovedFrom, e, i
  <2>2. CASE j < to + 1
    <3>1. j \in 1..Len(q) - 1 /\ r[j] = d[j]
      BY <2>2, <1>1, <1>2, <1>4 DEF i
    <3> QED BY <3>1, <2>2, <1>2 DEF MovedFrom
  <2>3. CASE j > to + 1
    <3>1. j - 1 \in 1..Len(q) - 1 /\ r[j] = d[j - 1] /\ (j - 1) + 1 = j
      BY <2>3, <1>1, <1>2, <1>4 DEF i
    <3>2. d[j - 1] = IF j - 1 < at + 1 THEN q[j - 1] ELSE q[j]
      BY <3>1, <1>2
    <3> QED BY <3>1, <3>2, <2>3 DEF MovedFrom
  <2> QED BY <2>1, <2>2, <2>3
<1>6. r \in Seq(Track) /\ Len(r) = Len(q)
  BY <1>2, <1>4
<1> QED BY <1>5, <1>6 DEF r, i, d, e

\* A song behind the head is moved behind the head.
LEMMA MoveKeepsQInv ==
  ASSUME QInv, NEW at \in 1..Len(queue), NEW to \in 1..Len(queue),
         at < Len(queue), to < Len(queue),
         queue' = InsertAt(RemoveAt(queue, at + 1), to + 1, queue[at + 1]),
         UNCHANGED <<mode, started, ended>>
  PROVE  QInv'
<1> DEFINE f == [j \in 1..Len(queue) |-> MovedFrom(at, to, j)]
<1>1. /\ queue \in Seq(Track) /\ at < Len(queue) /\ to < Len(queue)
      /\ UNCHANGED <<mode, started, ended>>
  BY DEF QInv
<1>2. /\ queue' \in Seq(Track) /\ Len(queue') = Len(queue)
      /\ \A j \in 1..Len(queue) : queue'[j] = queue[MovedFrom(at, to, j)]
  BY <1>1, MoveProperties
<1>3. /\ f \in [1..Len(queue) -> 1..Len(queue)]
      /\ \A j \in 1..Len(queue) : f[j] = MovedFrom(at, to, j)
      /\ \A j, k \in 1..Len(queue) : f[j] = f[k] => j = k
      /\ \A j \in 2..Len(queue) : f[j] # 1
      /\ f[1] = 1
  BY <1>1 DEF MovedFrom
<1> HIDE DEF f
<1>4. /\ f \in [1..Len(queue') -> 1..Len(queue)]
      /\ \A j \in 1..Len(queue') : queue'[j] = queue[f[j]]
      /\ \A j, k \in 1..Len(queue') : f[j] = f[k] => j = k
      /\ \A j \in 2..Len(queue') : f[j] # 1
  BY <1>2, <1>3
<1>5. queue' # <<>> => (mode'[queue'[1]] \in Finished => queue'[1] \in ended')
  <2>1. 1 \in 1..Len(queue') /\ queue # <<>>
    BY <1>1, <1>2
  <2>2. queue'[1] = queue[1]
    BY <2>1, <1>3, <1>4
  <2> QED BY <2>1, <2>2, <1>1, TailFacts
<1>6. mode' \in [Track -> Mode] /\ started' \in SUBSET Track /\ ended' \in SUBSET Track
  BY <1>1 DEF QInv
<1> QED BY ZenonT(40), <1>1, <1>2, <1>4, <1>5, <1>6, SelectKeepsQInv

\* What remove and insert do to the queue: nothing, if the first index is
\* too large; lose the song, if the second is; and else move it.
Lost(q, i) == SubSeq(q, 1, i) \o SubSeq(q, i + 2, Len(q))
LEMMA ReinsertCases ==
  ASSUME NEW S, NEW q \in Seq(S), NEW i \in Nat, NEW j \in Nat
  PROVE  /\ i >= Len(q) => Reinsert(q, i, j) = q
         /\ i < Len(q) /\ j >= Len(q) => Reinsert(q, i, j) = Lost(q, i)
         /\ i < Len(q) /\ j < Len(q) =>
              Reinsert(q, i, j) = InsertAt(RemoveAt(q, i + 1), j + 1, q[i + 1])
<1>1. CASE i >= Len(q)
  BY <1>1 DEF Reinsert
<1>2. CASE i < Len(q)
  <2>1. i + 1 \in 1..Len(q)
    BY <1>2
  <2>2. Len(RemoveAt(q, i + 1)) = Len(q) - 1
    BY <2>1, RemoveAtProperties
  <2>3. RemoveAt(q, i + 1) = Lost(q, i)
    <3>1. (i + 1) - 1 = i /\ (i + 1) + 1 = i + 2
      OBVIOUS
    <3> QED BY <3>1 DEF RemoveAt, Lost
  <2> DEFINE d == RemoveAt(q, i + 1)
  <2>4. Reinsert(q, i, j) = IF j > Len(d) THEN d ELSE InsertAt(d, j + 1, q[i + 1])
    BY <1>2 DEF Reinsert
  <2> QED BY <1>2, <2>2, <2>3, <2>4
<1> QED BY <1>1, <1>2

LEMMA ReinsertKeepsQInv ==
  ASSUME QInv, NEW i \in Nat, NEW j \in Nat, j >= 1, i >= 1 \/ j >= Len(queue),
         queue' = Reinsert(queue, i, j), UNCHANGED <<mode, started, ended>>
  PROVE  QInv'
<1>1. queue \in Seq(Track)
  BY DEF QInv
<1>2. CASE i >= Len(queue)
  BY <1>1, <1>2, ReinsertCases, SameQInv
<1>3. CASE i < Len(queue) /\ j >= Len(queue)
  <2> DEFINE e == i + 1
  <2>1. i \in 0..Len(queue) /\ e \in i..Len(queue) /\ e + 1 = i + 2
    BY <1>1, <1>3
  <2>2. queue' = SubSeq(queue, 1, i) \o SubSeq(queue, e + 1, Len(queue))
    BY <1>1, <1>3, <2>1, ReinsertCases DEF Lost
  <2> HIDE DEF e
  <2>3. /\ queue' \in Seq(Track) /\ Len(queue') = Len(queue) - (e - i)
        /\ \A k \in 1..Len(queue') : queue'[k] = IF k <= i THEN queue[k] ELSE queue[k + (e - i)]
    BY <2>1, <2>2, CutOfQueue
  <2> QED BY <2>1, <2>3, StopCutKeepsQInv
<1>4. CASE i < Len(queue) /\ j < Len(queue)
  <2>1. i \in 1..Len(queue) /\ j \in 1..Len(queue)
    BY <1>1, <1>4
  <2> QED BY <1>1, <1>4, <2>1, ReinsertCases, MoveKeepsQInv
<1> QED BY <1>1, <1>2, <1>3, <1>4

\* The back of the queue is moved to an index behind the head.
LEMMA MoveBackKeepsQInv ==
  ASSUME QInv, NEW j \in Nat, j >= 1, queue' = MoveBack(queue, j),
         UNCHANGED <<mode, started, ended>>
  PROVE  QInv'
<1>1. CASE queue = <<>>
  BY <1>1, SameQInv DEF MoveBack
<1>2. CASE queue # <<>>
  <2> DEFINE i == Len(queue) - 1
  <2>1. i \in Nat /\ (i >= 1 \/ j >= Len(queue))
    BY <1>2 DEF QInv
  <2>2. queue' = Reinsert(queue, i, j)
    BY <1>2 DEF MoveBack
  <2> HIDE DEF i
  <2> QED BY <2>1, <2>2, ReinsertKeepsQInv
<1> QED BY <1>1, <1>2

\* dequeue(0) of force_skip_top_track.
LEMMA SkipDequeueKeepsQInv ==
  ASSUME QInv, NEW u \in User, SkipDequeue(u)
  PROVE  QInv'
<1>1. UNCHANGED <<mode, started, ended>> /\ queue' = IF queue = <<>> THEN queue ELSE Tail(queue)
  BY DEF SkipDequeue
<1>2. ended' \in SUBSET Track
  BY <1>1 DEF QInv
<1>3. CASE queue = <<>>
  <2>1. UNCHANGED <<queue, mode, started, ended>>
    BY <1>1, <1>3
  <2> QED BY <2>1, SameQInv
<1>4. CASE queue # <<>>
  BY <1>1, <1>2, <1>4, PopKeepsQInv
<1> QED BY <1>3, <1>4

-----------------------------------------------------------------------------
(* The control state: mutexes and what each command does next.             *)

\* A loop counter stays inside its loop, a range and a move were checked
\* before, and guild_cache_map is held only by a vote that began to skip.
CountersOK(pc, at, to) ==
  /\ pc = "back" => at >= 1
  /\ pc \in {"bulk", "list", "listMove"} => at < ListLen
  /\ pc = "remove" => at <= to
  /\ pc = "move" => at >= 1 /\ to >= 1
SkipPc == {"skipStop", "skipDequeue", "skipResume"}
CountersInv ==
  \A u \in User : /\ CountersOK(task[u].pc, task[u].at, task[u].to)
                  /\ cacheLock = u => task[u].pc \in SkipPc
CmdInv ==
  /\ lock \in User \cup {NoUser} /\ cacheLock \in User \cup {NoUser}
  /\ task \in [User -> [pc : CmdPc, at : Nat, to : Nat]]
  /\ \A u \in User : Holds(u) <=> lock = u
  /\ cacheLock # NoUser => cacheLock = lock
  /\ CountersInv
RestInv ==
  /\ endh \in [pc : EndPc, batch : SUBSET Track, autoplay : BOOLEAN]
  /\ votes \in SUBSET User /\ present \in SUBSET User
  /\ votedOn \in [User -> SUBSET Track]
  /\ autoplay \in {"unset", "on", "off"} /\ autopause \in BOOLEAN
  /\ watched \in BOOLEAN
IInv == QInv /\ CmdInv /\ RestInv

\* A command that moves to pc and, as pc says, holds the mutex or does not.
LEMMA GotoRangeKeepsCmdInv ==
  ASSUME CmdInv, NEW u \in User, NEW pc \in CmdPc, NEW at \in Nat, NEW to \in Nat,
         GotoRange(u, pc, at, to),
         lock \in {NoUser, u},
         lock' = IF pc \in CriticalPc \/ (pc = "bulk" /\ at > 0) THEN u ELSE NoUser,
         cacheLock' \in {NoUser, u},
         cacheLock' = u => pc \in SkipPc,
         CountersOK(pc, at, to)
  PROVE  CmdInv'
<1>1. /\ task' \in [User -> [pc : CmdPc, at : Nat, to : Nat]]
      /\ task'[u].pc = pc /\ task'[u].at = at /\ task'[u].to = to
      /\ \A v \in User : v # u => task'[v] = task[v]
  BY DEF GotoRange, CmdInv
<1>2. /\ \A v \in User : v # u => lock # v /\ cacheLock # v
      /\ u # NoUser /\ NoUser \notin User
  BY ConstantsAssumption DEF CmdInv
<1>3. \A v \in User : v # u => ~Holds(v) /\ ~Holds(v)' /\ lock' # v /\ cacheLock' # v
  BY <1>1, <1>2 DEF CmdInv, Holds
<1>4. Holds(u)' <=> lock' = u
  BY <1>1, <1>2 DEF Holds
<1>5. CountersInv'
  BY <1>1, <1>3 DEF CmdInv, CountersInv, CountersOK
<1>6. /\ lock' \in User \cup {NoUser} /\ cacheLock' \in User \cup {NoUser}
      /\ cacheLock' # NoUser => cacheLock' = lock'
  BY DEF CriticalPc, SkipPc
<1>7. \A v \in User : Holds(v)' <=> lock' = v
  BY <1>3, <1>4
<1> QED BY <1>1, <1>5, <1>6, <1>7 DEF CmdInv

LEMMA HoldKeepsCmdInv ==
  ASSUME CmdInv, NEW u \in User, NEW pc \in CriticalPc, NEW at \in Nat, NEW to \in Nat,
         GotoRange(u, pc, at, to), CountersOK(pc, at, to),
         lock \in {NoUser, u}, lock' = u,
         cacheLock' = NoUser \/ (cacheLock' = u /\ pc \in SkipPc)
  PROVE  CmdInv'
<1>1. pc \in CmdPc /\ u # NoUser
  BY ConstantsAssumption DEF CriticalPc, CmdPc
<1> QED BY <1>1, GotoRangeKeepsCmdInv

\* The steps that lock the mutex, or keep it, and count nothing.
LEMMA StayKeepsCmdInv ==
  ASSUME CmdInv, NEW u \in User,
         NEW pc \in {"frontLook", "frontMove", "vote", "skipStop", "skipDequeue", "skipResume"},
         Goto(u, pc, 0),
         lock \in {NoUser, u}, lock' = u,
         cacheLock' = NoUser \/ (cacheLock' = u /\ pc \in SkipPc)
  PROVE  CmdInv'
<1>1. pc \in CriticalPc /\ 0 \in Nat /\ CountersOK(pc, 0, 0) /\ GotoRange(u, pc, 0, 0)
  BY DEF CriticalPc, CountersOK, Goto
<1> QED BY <1>1, HoldKeepsCmdInv

LEMMA ReleaseKeepsCmdInv ==
  ASSUME CmdInv, NEW u \in User, NEW pc \in {"idle", "list"}, NEW at \in Nat,
         Goto(u, pc, at), pc = "list" => at < ListLen,
         lock \in {NoUser, u}, lock' = NoUser, cacheLock' = NoUser
  PROVE  CmdInv'
<1>1. pc \in CmdPc /\ u # NoUser /\ pc \notin CriticalPc /\ pc # "bulk"
  BY ConstantsAssumption DEF CriticalPc, CmdPc
<1>2. CountersOK(pc, at, 0) /\ GotoRange(u, pc, at, 0) /\ 0 \in Nat
  BY DEF CountersOK, Goto
<1> QED BY <1>1, <1>2, GotoRangeKeepsCmdInv

\* A command that moves while others may hold the mutexes.
LEMMA OutsideKeepsCmdInv ==
  ASSUME CmdInv, NEW u \in User, NEW pc \in CmdPc, NEW at \in Nat,
         Goto(u, pc, at), lock # u, UNCHANGED <<lock, cacheLock>>,
         pc \notin CriticalPc,
         pc = "bulk" => at = 0,
         CountersOK(pc, at, 0)
  PROVE  CmdInv'
<1>1. /\ task' \in [User -> [pc : CmdPc, at : Nat, to : Nat]]
      /\ task'[u].pc = pc /\ task'[u].at = at /\ task'[u].to = 0
      /\ \A v \in User : v # u => task'[v] = task[v]
  BY DEF Goto, GotoRange, CmdInv
<1>2. cacheLock # u
  BY ConstantsAssumption DEF CmdInv
<1>3. \A v \in User : Holds(v)' <=> lock' = v
  BY <1>1 DEF CmdInv, Holds
<1>4. CountersInv'
  BY <1>1, <1>2 DEF CmdInv, CountersInv, CountersOK
<1> QED BY <1>1, <1>3, <1>4 DEF CmdInv

LEMMA SameCmdInv ==
  ASSUME CmdInv, UNCHANGED cmdVars
  PROVE  CmdInv'
BY DEF CmdInv, CountersInv, cmdVars, Holds

LEMMA RequestKeepsCmdInv ==
  ASSUME CmdInv, NEW u \in User, Request(u)
  PROVE  CmdInv'
<1>1. task[u].pc = "idle" => lock # u
  BY DEF CmdInv, Holds, CriticalPc
<1>2. ListLen \in Nat \ {0}
  BY ConstantsAssumption
<1>3. ASSUME NEW n \in 1..ListLen, Play(u, n) PROVE CmdInv'
  <2>1. Goto(u, "back", n) /\ UNCHANGED <<lock, cacheLock>> /\ lock # u
    BY <1>1, <1>3 DEF Play, Issue
  <2> QED BY <1>2, <2>1, OutsideKeepsCmdInv DEF CmdPc, CriticalPc, CountersOK
<1>4. CASE PlayNext(u)
  <2>1. Goto(u, "front", 0) /\ UNCHANGED <<lock, cacheLock>> /\ lock # u
    BY <1>1, <1>4 DEF PlayNext, Issue
  <2> QED BY <1>2, <2>1, OutsideKeepsCmdInv DEF CmdPc, CriticalPc, CountersOK
<1>5. CASE PlayNextList(u)
  <2>1. Goto(u, "size", 0) /\ UNCHANGED <<lock, cacheLock>> /\ lock # u
    BY <1>1, <1>5 DEF PlayNextList, Issue
  <2> QED BY <1>2, <2>1, OutsideKeepsCmdInv DEF CmdPc, CriticalPc, CountersOK
<1>10. CASE PlayList(u)
  <2>1. Goto(u, "bulk", 0) /\ UNCHANGED <<lock, cacheLock>> /\ lock # u
    BY <1>1, <1>10 DEF PlayList, Issue
  <2> QED BY <1>2, <2>1, OutsideKeepsCmdInv DEF CmdPc, CriticalPc, CountersOK
<1>6. CASE Stop(u)
  <2>1. Goto(u, "stop", 0) /\ UNCHANGED <<lock, cacheLock>> /\ lock # u
    BY <1>1, <1>6 DEF Stop, Issue
  <2> QED BY <1>2, <2>1, OutsideKeepsCmdInv DEF CmdPc, CriticalPc, CountersOK
<1>7. ASSUME NEW n \in 1..Len(queue), Skip(u, n) PROVE CmdInv'
  <2>1. Goto(u, "skipStop", 0) /\ lock = NoUser /\ lock' = u /\ UNCHANGED cacheLock
    BY <1>7 DEF Skip, Unlocked
  <2>2. cacheLock = NoUser /\ u # NoUser
    BY <2>1, ConstantsAssumption DEF CmdInv
  <2> QED BY <2>1, <2>2, StayKeepsCmdInv
<1>8. CASE VoteSkip(u)
  <2>1. Goto(u, "vote", 0) /\ lock = NoUser /\ lock' = u /\ UNCHANGED cacheLock
    BY <1>8 DEF VoteSkip, Unlocked
  <2>2. cacheLock = NoUser /\ u # NoUser
    BY <2>1, ConstantsAssumption DEF CmdInv
  <2> QED BY <2>1, <2>2, StayKeepsCmdInv
<1>11. ASSUME NEW b \in 0..Len(queue), NEW e \in 0..Len(queue), RemoveTracks(u, b, e)
       PROVE  CmdInv'
  <2>1. GotoRange(u, "remove", b, e) /\ lock = NoUser /\ lock' = u /\ UNCHANGED cacheLock /\ b <= e
    BY <1>11 DEF RemoveTracks, Unlocked
  <2>2. cacheLock = NoUser /\ u # NoUser /\ b \in Nat /\ e \in Nat
    BY <2>1, ConstantsAssumption DEF CmdInv
  <2>3. "remove" \in CriticalPc /\ CountersOK("remove", b, e)
    BY <2>1 DEF CriticalPc, CountersOK
  <2> QED BY <2>1, <2>2, <2>3, HoldKeepsCmdInv
<1>12. ASSUME NEW at \in 0..Len(queue), NEW to \in 0..Len(queue), MoveSong(u, at, to)
       PROVE  CmdInv'
  <2>1. /\ GotoRange(u, "move", at, to) /\ lock = NoUser /\ lock' = u /\ UNCHANGED cacheLock
        /\ at >= 1 /\ to >= 1
    BY <1>12 DEF MoveSong, Unlocked
  <2>2. cacheLock = NoUser /\ u # NoUser /\ at \in Nat /\ to \in Nat
    BY <2>1, ConstantsAssumption DEF CmdInv
  <2>3. "move" \in CriticalPc /\ CountersOK("move", at, to)
    BY <2>1 DEF CriticalPc, CountersOK
  <2> QED BY <2>1, <2>2, <2>3, HoldKeepsCmdInv
<1>9. CASE UNCHANGED cmdVars
  BY <1>9, SameCmdInv
<1> QED
  BY <1>3, <1>4, <1>5, <1>6, <1>7, <1>8, <1>9, <1>10, <1>11, <1>12
     DEF Request, Clear, Shuffle, Pause, Resume, ToggleAutoplay, ToggleAutopause, WatchQueue

LEMMA ContinueKeepsCmdInv ==
  ASSUME CmdInv, NEW u \in User, Continue(u)
  PROVE  CmdInv'
<1>1. /\ ListLen \in Nat \ {0} /\ u # NoUser
      /\ task[u].pc \in CmdPc /\ task[u].at \in Nat
      /\ Holds(u) <=> lock = u
      /\ lock \in User \cup {NoUser} /\ cacheLock \in User \cup {NoUser}
      /\ cacheLock # NoUser => cacheLock = lock
      /\ task[u].pc = "back" => task[u].at >= 1
      /\ task[u].pc \in {"bulk", "list", "listMove"} => task[u].at < ListLen
      /\ cacheLock = u => task[u].pc \in {"skipStop", "skipDequeue", "skipResume"}
  BY ConstantsAssumption DEF CmdInv, CountersInv, CountersOK, SkipPc
<1>2. Return(u) <=> Goto(u, "idle", 0)
  BY DEF Return, Goto, GotoRange, Idle
<1>3. ASSUME Return(u), lock # u, UNCHANGED <<lock, cacheLock>> PROVE CmdInv'
  BY <1>1, <1>2, <1>3, OutsideKeepsCmdInv DEF CmdPc, CriticalPc, CountersOK
<1>4. ASSUME Return(u), lock \in {NoUser, u}, lock' = NoUser, cacheLock' = NoUser PROVE CmdInv'
  BY <1>2, <1>4, ReleaseKeepsCmdInv
<1>5. CASE QueueTrackBack(u)
  <2>1. task[u].pc = "back" /\ lock # u /\ UNCHANGED <<lock, cacheLock>>
    BY <1>1, <1>5 DEF QueueTrackBack, Unlocked
  <2>2. CASE task[u].at = 1
    BY <1>3, <1>5, <2>1, <2>2 DEF QueueTrackBack
  <2>3. CASE task[u].at # 1
    <3>1. task[u].at - 1 \in Nat /\ task[u].at - 1 >= 1
      BY <1>1, <2>1, <2>3
    <3>2. Goto(u, "back", task[u].at - 1)
      BY <1>5, <2>3 DEF QueueTrackBack
    <3> QED BY <2>1, <3>1, <3>2, OutsideKeepsCmdInv DEF CmdPc, CriticalPc, CountersOK
  <2> QED BY <2>2, <2>3
<1>6. CASE ResolveFails(u) \/ StopQueue(u)
  BY <1>1, <1>3, <1>6 DEF ResolveFails, StopQueue, Unlocked
<1>14. CASE QueueTrackFront(u) \/ EnqueueListed(u)
  <2>1. /\ lock = NoUser /\ lock' = u /\ UNCHANGED cacheLock
        /\ \/ Goto(u, "frontLook", 0)
           \/ task[u].at < ListLen /\ Goto(u, "listMove", task[u].at)
    BY <1>1, <1>14 DEF QueueTrackFront, EnqueueListed, Unlocked
  <2>2. cacheLock' = NoUser
    BY <1>1, <2>1
  <2>3. CASE Goto(u, "frontLook", 0)
    BY <2>1, <2>2, <2>3, StayKeepsCmdInv
  <2>4. CASE task[u].at < ListLen /\ Goto(u, "listMove", task[u].at)
    <3> DEFINE n == task[u].at
    <3>1. n \in Nat /\ n < ListLen /\ Goto(u, "listMove", n)
      BY <1>1, <2>4
    <3> HIDE DEF n
    <3>2. "listMove" \in CriticalPc /\ CountersOK("listMove", n, 0) /\ GotoRange(u, "listMove", n, 0)
      BY <3>1 DEF CriticalPc, CountersOK, Goto
    <3> QED BY <2>1, <2>2, <3>1, <3>2, HoldKeepsCmdInv
  <2> QED BY <2>1, <2>3, <2>4
<1>15. CASE LookAtFront(u)
  <2>1. lock = u /\ cacheLock' = NoUser
    BY <1>1, <1>15 DEF LookAtFront, Holds, CriticalPc
  <2>2. CASE Len(queue) >= 3
    <3>1. Goto(u, "frontMove", 0) /\ lock' = u
      BY <1>15, <2>1, <2>2 DEF LookAtFront
    <3> QED BY <2>1, <3>1, StayKeepsCmdInv
  <2>3. CASE ~(Len(queue) >= 3)
    BY <1>4, <1>15, <2>1, <2>3 DEF LookAtFront
  <2> QED BY <2>2, <2>3
<1>16. CASE MoveToFront(u) \/ InsertPanics(u) \/ DrainTracks(u) \/ Reorder(u)
  <2>1. /\ lock = u /\ cacheLock = NoUser
        /\ Return(u) /\ lock' = NoUser /\ UNCHANGED cacheLock
    BY <1>1, <1>16 DEF MoveToFront, InsertPanics, DrainTracks, Reorder, Holds, CriticalPc
  <2> QED BY <1>4, <2>1
<1>7. CASE ReadQueueSize(u)
  <2>1. /\ lock # u /\ UNCHANGED <<lock, cacheLock>>
        /\ Goto(u, "bulk", 0) \/ Goto(u, "list", 0)
    BY <1>1, <1>7 DEF ReadQueueSize, Unlocked
  <2> QED BY <1>1, <2>1, OutsideKeepsCmdInv DEF CmdPc, CriticalPc, CountersOK
<1>8. CASE QueueReadyTrack(u)
  <2>1. task[u].pc = "bulk" /\ lock \in {NoUser, u} /\ UNCHANGED cacheLock
    BY <1>8 DEF QueueReadyTrack
  <2>2. cacheLock = NoUser
    BY <1>1, <2>1
  <2>3. CASE task[u].at + 1 = ListLen
    BY <1>4, <1>8, <2>1, <2>2, <2>3 DEF QueueReadyTrack
  <2>4. CASE task[u].at + 1 # ListLen
    <3>1. task[u].at + 1 \in Nat /\ task[u].at + 1 < ListLen /\ task[u].at + 1 > 0
      BY <1>1, <2>1, <2>4
    <3>2. Goto(u, "bulk", task[u].at + 1) /\ lock' = u
      BY <1>8, <2>4 DEF QueueReadyTrack
    <3>3. CountersOK("bulk", task[u].at + 1, 0) /\ "bulk" \in CmdPc
      BY <3>1 DEF CountersOK, CmdPc
    <3>4. GotoRange(u, "bulk", task[u].at + 1, 0) /\ 0 \in Nat
      BY <3>2 DEF Goto
    <3> DEFINE n == task[u].at + 1
    <3> HIDE DEF n
    <3>5. n \in Nat /\ n > 0 /\ CountersOK("bulk", n, 0) /\ GotoRange(u, "bulk", n, 0)
      BY <3>1, <3>3, <3>4 DEF n
    <3> QED BY <1>1, <2>1, <2>2, <3>2, <3>3, <3>4, <3>5, GotoRangeKeepsCmdInv
  <2> QED BY <2>3, <2>4
<1>9. CASE InsertQueued(u)
  <2>1. /\ task[u].pc = "listMove" /\ lock = u /\ lock' = NoUser
        /\ cacheLock = NoUser /\ UNCHANGED cacheLock
    BY <1>1, <1>9 DEF InsertQueued, Holds, CriticalPc
  <2>2. CASE task[u].at + 1 = ListLen
    BY <1>4, <1>9, <2>1, <2>2 DEF InsertQueued
  <2>3. CASE task[u].at + 1 # ListLen
    <3> DEFINE n == task[u].at + 1
    <3>1. n \in Nat /\ n < ListLen
      BY <1>1, <2>1, <2>3
    <3>2. Goto(u, "list", n)
      BY <1>9, <2>3 DEF InsertQueued
    <3> HIDE DEF n
    <3> QED BY <2>1, <3>1, <3>2, ReleaseKeepsCmdInv
  <2> QED BY <2>2, <2>3
<1>10. ASSUME lock = u, UNCHANGED <<lock, cacheLock>>,
              Goto(u, "skipDequeue", 0) \/ Goto(u, "skipResume", 0)
       PROVE  CmdInv'
  <2>1. cacheLock \in {NoUser, u}
    BY <1>1, <1>10
  <2>2. CASE Goto(u, "skipDequeue", 0)
    BY <1>10, <2>1, <2>2, StayKeepsCmdInv DEF SkipPc
  <2>3. CASE Goto(u, "skipResume", 0)
    BY <1>10, <2>1, <2>3, StayKeepsCmdInv DEF SkipPc
  <2> QED BY <1>10, <2>2, <2>3
<1>11. CASE SkipStop(u) \/ SkipDequeue(u)
  <2>1. lock = u
    BY <1>1, <1>11 DEF SkipStop, SkipDequeue, Holds, CriticalPc
  <2> QED BY <1>10, <1>11, <2>1 DEF SkipStop, SkipDequeue
<1>12. CASE SkipPanics(u) \/ SkipResume(u)
  <2>1. lock = u /\ lock' = NoUser /\ Return(u)
    BY <1>1, <1>12 DEF SkipPanics, SkipResume, Holds, CriticalPc
  <2>2. cacheLock' = NoUser
    BY <1>1, <1>12, <2>1 DEF SkipPanics, SkipResume
  <2> QED BY <1>4, <2>1, <2>2
<1>13. CASE CastVote(u)
  <2>1. lock = u /\ cacheLock = NoUser
    BY <1>1, <1>13 DEF CastVote, CacheUnlocked, Holds, CriticalPc
  <2>2. CASE Cardinality(votes') >= SkipThreshold
    <3>1. Goto(u, "skipStop", 0) /\ cacheLock' = u /\ lock' = u
      BY <1>13, <2>1, <2>2 DEF CastVote
    <3> QED BY <2>1, <3>1, StayKeepsCmdInv DEF SkipPc
  <2>3. CASE ~(Cardinality(votes') >= SkipThreshold)
    <3>1. Return(u) /\ lock' = NoUser /\ cacheLock' = NoUser
      BY <1>13, <2>1, <2>3 DEF CastVote
    <3> QED BY <1>4, <2>1, <3>1
  <2> QED BY <2>2, <2>3
<1> QED BY <1>5, <1>6, <1>7, <1>8, <1>9, <1>11, <1>12, <1>13,
       <1>14, <1>15, <1>16 DEF Continue

LEMMA CmdInvStep ==
  ASSUME CmdInv, [Next]_vars
  PROVE  CmdInv'
<1>1. CASE UNCHANGED cmdVars
  BY <1>1, SameCmdInv
<1>2. ASSUME NEW u \in User, Request(u) \/ Continue(u) PROVE CmdInv'
  BY <1>2, RequestKeepsCmdInv, ContinueKeepsCmdInv
<1>3. CASE EventTask \/ EventTaskPanics
  BY <1>1, <1>3
     DEF EventTask, EventTaskPanics, RefreshQueue, SetVolume, CurrentPanics, VolumePanics, Dispatch, ReadAutoplay, ReadSettings, PauseAfterTrack,
         ForgetSkipVotes, Decide, DisableAutoplay, ReadCurrent,
         GetRecommendation, QueueRecommended, RecommendationFails
<1>4. ASSUME NEW u \in User, MoveInVoice(u) PROVE CmdInv'
  BY <1>1, <1>4 DEF MoveInVoice
<1>5. ASSUME NEW t \in Track, TrackEnds(t) PROVE CmdInv'
  BY <1>1, <1>5 DEF TrackEnds
<1>6. CASE UNCHANGED vars
  BY <1>1, <1>6 DEF vars, cmdVars
<1> QED BY <1>2, <1>3, <1>4, <1>5, <1>6 DEF Next

-----------------------------------------------------------------------------
(* The queue under every step.                                             *)

LEMMA RequestKeepsQInv ==
  ASSUME QInv, NEW u \in User, Request(u)
  PROVE  QInv'
<1>1. CASE UNCHANGED queueVars
  BY <1>1, SameQInv DEF queueVars
<1>2. ASSUME NEW n \in 1..ListLen, Play(u, n) PROVE QInv'
  BY <1>1, <1>2 DEF Play
<1>3. CASE \/ PlayNext(u) \/ PlayNextList(u) \/ PlayList(u)
            \/ VoteSkip(u) \/ Stop(u) \/ ToggleAutopause(u) \/ WatchQueue(u)
  BY <1>1, <1>3 DEF PlayNext, PlayNextList, PlayList, VoteSkip, Stop, ToggleAutopause, WatchQueue
<1>4. ASSUME NEW v \in {"on", "off"}, ToggleAutoplay(u, v) PROVE QInv'
  BY <1>1, <1>4 DEF ToggleAutoplay
<1>5. ASSUME NEW n \in 1..Len(queue), Skip(u, n) PROVE QInv'
  BY <1>5, SkipKeepsQInv
<1>6. ASSUME NEW b \in 0..Len(queue), NEW e \in 0..Len(queue), RemoveTracks(u, b, e) PROVE QInv'
  BY <1>1, <1>6 DEF RemoveTracks
<1>7. ASSUME NEW at \in 0..Len(queue), NEW to \in 0..Len(queue), MoveSong(u, at, to) PROVE QInv'
  BY <1>1, <1>7 DEF MoveSong
<1>8. CASE Clear(u)
  BY <1>8, ClearKeepsQInv
<1>9. CASE Shuffle(u)
  BY <1>9, ShuffleKeepsQInv
<1>10. CASE Pause(u)
  BY <1>10, PauseTopKeepsQInv DEF Pause
<1>11. CASE Resume(u)
  BY <1>11, PlayHeadKeepsQInv DEF Resume
<1> QED
  BY <1>2, <1>3, <1>4, <1>5, <1>6, <1>7, <1>8, <1>9, <1>10, <1>11 DEF Request

LEMMA ContinueKeepsQInv ==
  ASSUME QInv, CmdInv, NEW u \in User, Continue(u)
  PROVE  QInv'
<1>1. CASE UNCHANGED queueVars
  BY <1>1, SameQInv DEF queueVars
<1>2. CASE QueueTrackBack(u) \/ QueueReadyTrack(u) \/ QueueTrackFront(u) \/ EnqueueListed(u)
  <2>1. \E t \in Fresh : Enqueue(t)
    BY <1>2 DEF QueueTrackBack, QueueReadyTrack, QueueTrackFront, EnqueueListed
  <2> QED BY <2>1, EnqueueKeepsQInv
<1>0. task[u].at \in Nat /\ task[u].to \in Nat /\ CountersOK(task[u].pc, task[u].at, task[u].to)
  BY DEF CmdInv, CountersInv
<1>3. CASE MoveToFront(u) \/ InsertQueued(u) \/ InsertPanics(u)
  <2>1. UNCHANGED <<mode, started, ended>>
    BY <1>3 DEF MoveToFront, InsertQueued, InsertPanics
  <2>2. queue' = MoveBack(queue, 1) \/ queue' = MoveBack(queue, InsertPos(u))
    BY <1>3 DEF MoveToFront, InsertQueued, InsertPanics
  <2>3. InsertPos(u) \in Nat /\ InsertPos(u) >= 1 /\ 1 \in Nat /\ 1 >= 1
    BY <1>0 DEF InsertPos
  <2> QED BY <2>1, <2>2, <2>3, MoveBackKeepsQInv
<1>4. CASE Reorder(u)
  <2> DEFINE at == task[u].at
             to == task[u].to
  <2>1. UNCHANGED <<mode, started, ended>> /\ queue' = Reinsert(queue, at, to)
    BY <1>4 DEF Reorder
  <2>2. at \in Nat /\ to \in Nat /\ at >= 1 /\ to >= 1
    BY <1>0, <1>4 DEF Reorder, CountersOK
  <2> HIDE DEF at, to
  <2> QED BY <2>1, <2>2, ReinsertKeepsQInv
<1>5. CASE DrainTracks(u)
  <2>1. task[u].at <= task[u].to
    BY <1>0, <1>5 DEF DrainTracks, CountersOK
  <2> QED BY <1>0, <1>5, <2>1, DrainTracksKeepsQInv
<1>6. CASE SkipStop(u)
  BY <1>6, SkipStopKeepsQInv
<1>7. CASE SkipDequeue(u)
  BY <1>7, SkipDequeueKeepsQInv
<1>8. CASE SkipResume(u)
  BY <1>8, PlayHeadKeepsQInv DEF SkipResume
<1>9. CASE StopQueue(u)
  BY <1>9, StopQueueKeepsQInv
<1>10. CASE ReadQueueSize(u) \/ ResolveFails(u) \/ SkipPanics(u) \/ CastVote(u) \/ LookAtFront(u)
  BY <1>1, <1>10 DEF LookAtFront, ReadQueueSize, ResolveFails, SkipPanics, CastVote
<1> QED
  BY <1>2, <1>3, <1>4, <1>5, <1>6, <1>7, <1>8, <1>9, <1>10 DEF Continue

LEMMA EventTaskKeepsQInv ==
  ASSUME QInv, EventTask \/ EventTaskPanics
  PROVE  QInv'
<1>1. CASE UNCHANGED queueVars
  BY <1>1, SameQInv DEF queueVars
<1>2. CASE Dispatch
  BY <1>2, DispatchKeepsQInv
<1>3. CASE PauseAfterTrack
  BY <1>3, PauseTopKeepsQInv DEF PauseAfterTrack
<1>4. CASE QueueRecommended
  BY <1>4, EnqueueKeepsQInv DEF QueueRecommended
<1> QED
  BY <1>1, <1>2, <1>3, <1>4
     DEF EventTask, ReadAutoplay, ReadSettings, ForgetSkipVotes, Decide,
         DisableAutoplay, ReadCurrent, GetRecommendation, RecommendationFails,
         EventTaskPanics, RefreshQueue, SetVolume, CurrentPanics, VolumePanics

LEMMA QInvStep ==
  ASSUME QInv, CmdInv, [Next]_vars
  PROVE  QInv'
<1>1. ASSUME NEW t \in Track, TrackEnds(t) PROVE QInv'
  BY <1>1, TrackEndsKeepsQInv
<1>2. ASSUME NEW u \in User, Request(u) \/ Continue(u) PROVE QInv'
  BY <1>2, RequestKeepsQInv, ContinueKeepsQInv
<1>3. ASSUME NEW u \in User, MoveInVoice(u) PROVE QInv'
  BY <1>3, SameQInv DEF MoveInVoice, queueVars
<1>4. CASE EventTask \/ EventTaskPanics
  BY <1>4, EventTaskKeepsQInv
<1>5. CASE UNCHANGED vars
  BY <1>5, SameQInv DEF vars, queueVars
<1> QED BY <1>1, <1>2, <1>3, <1>4, <1>5 DEF Next

-----------------------------------------------------------------------------
(* The rest of the state.                                                  *)

LEMMA SameRestInv ==
  ASSUME RestInv, UNCHANGED <<endh, voteVars, autoplay, autopause, watched>>
  PROVE  RestInv'
BY DEF RestInv, voteVars

LEMMA RestInvStep ==
  ASSUME QInv, RestInv, [Next]_vars
  PROVE  RestInv'
<1>1. CASE UNCHANGED Others
  BY <1>1, SameRestInv DEF Others
<1>2. ASSUME NEW t \in Track, TrackEnds(t) PROVE RestInv'
  BY <1>2, SameRestInv DEF TrackEnds
<1>3. ASSUME NEW u \in User, Request(u) PROVE RestInv'
  <2>1. ASSUME NEW v \in {"on", "off"}, SetAutoplay(v),
               UNCHANGED <<endh, voteVars, autopause, watched>>
        PROVE  RestInv'
    BY <2>1 DEF RestInv, SetAutoplay, voteVars
  <2>2. CASE Stop(u)
    BY <2>1, <2>2 DEF Stop
  <2>3. ASSUME NEW v \in {"on", "off"}, ToggleAutoplay(u, v) PROVE RestInv'
    BY <2>1, <2>3 DEF ToggleAutoplay
  <2>4. CASE ToggleAutopause(u) \/ WatchQueue(u)
    BY <2>4 DEF ToggleAutopause, WatchQueue, RestInv, voteVars
  <2> QED
    BY <1>1, <1>3, <2>2, <2>3, <2>4
       DEF Request, Play, PlayNext, PlayNextList, PlayList, Skip, VoteSkip, RemoveTracks,
           Clear, Shuffle, MoveSong, Pause, Resume
<1>4. ASSUME NEW u \in User, Continue(u) PROVE RestInv'
  <2>1. CASE CastVote(u)
    <3>1. votedOn' = [votedOn EXCEPT ![u] = IF queue = <<>> THEN {} ELSE {queue[1]}]
      BY <2>1 DEF CastVote
    <3>2. queue # <<>> => queue[1] \in Track
      BY DEF QInv
    <3>3. votedOn' \in [User -> SUBSET Track]
      BY <3>1, <3>2 DEF RestInv
    <3>4. /\ votes' = votes \cup {u} /\ autoplay' = Touch(autoplay)
          /\ UNCHANGED <<endh, present, autopause, watched>>
      BY <2>1 DEF CastVote
    <3> QED BY <3>3, <3>4 DEF RestInv, Touch
  <2> QED
    BY <1>1, <1>4, <2>1
       DEF Continue, QueueTrackBack, QueueTrackFront, LookAtFront, MoveToFront,
           ReadQueueSize, QueueReadyTrack, EnqueueListed, InsertQueued, DrainTracks, Reorder, InsertPanics, ResolveFails, SkipStop,
           SkipPanics, SkipDequeue, SkipResume, StopQueue
<1>5. ASSUME NEW u \in User, MoveInVoice(u) PROVE RestInv'
  BY <1>5 DEF MoveInVoice, RestInv
<1>6. CASE EventTask \/ EventTaskPanics
  <2>1. ASSUME NEW pc \in EndPc, NEW heads \in SUBSET Track, EndAt(pc, heads),
               UNCHANGED <<voteVars, autopause, watched>>,
               autoplay' \in {"unset", "on", "off"}
        PROVE  RestInv'
    BY <2>1 DEF EndAt, RestInv, voteVars
  <2>2. CASE ReadAutoplay
    BY <2>2 DEF ReadAutoplay, RestInv, voteVars, EndPc
  <2>3. ASSUME NEW pc \in EndPc, EndGoto(pc), UNCHANGED <<voteVars, autoplay, autopause, watched>>
        PROVE  RestInv'
    BY <2>3 DEF EndGoto, RestInv, voteVars
  <2>4. ASSUME EndReturn, UNCHANGED <<voteVars, autopause, watched>>,
               autoplay' \in {"unset", "on", "off"}
        PROVE  RestInv'
    BY <2>1, <2>4 DEF EndReturn, EndPc
  <2>5. CASE ReadSettings \/ PauseAfterTrack \/ RecommendationFails
    BY <2>3, <2>5 DEF ReadSettings, PauseAfterTrack, RecommendationFails, EndPc
  <2>6. CASE ForgetSkipVotes
    BY <2>6 DEF ForgetSkipVotes, RestInv, EndGoto, Touch, EndPc
  <2>7. CASE Decide \/ ReadCurrent \/ GetRecommendation \/ QueueRecommended
    <3>1. UNCHANGED <<voteVars, autoplay, autopause, watched>> /\ autoplay' \in {"unset", "on", "off"}
      BY <2>7 DEF Decide, ReadCurrent, GetRecommendation, QueueRecommended, RestInv
    <3>2. EndReturn \/ \E pc \in EndPc : EndGoto(pc)
      BY <2>7 DEF Decide, ReadCurrent, GetRecommendation, QueueRecommended, EndPc
    <3> QED BY <2>3, <2>4, <3>1, <3>2
  <2>8. CASE DisableAutoplay
    <3>1. autoplay' \in {"unset", "on", "off"}
      BY <2>8 DEF DisableAutoplay, SetAutoplay, RestInv
    <3> QED BY <2>4, <2>8, <3>1 DEF DisableAutoplay
  <2>9. CASE Dispatch \/ RefreshQueue \/ SetVolume \/ EventTaskPanics
    <3>1. UNCHANGED <<voteVars, autopause, watched>> /\ autoplay' \in {"unset", "on", "off"}
      BY <2>9 DEF Dispatch, RefreshQueue, SetVolume, EventTaskPanics, CurrentPanics,
                  VolumePanics, RestInv
    <3>2. queue # <<>> => queue[1] \in Track
      BY DEF QInv
    <3>3. \E pc \in EndPc, heads \in SUBSET Track : EndAt(pc, heads)
      <4>1. CASE Dispatch
        BY <4>1 DEF Dispatch, EndPc, QInv
      <4>2. CASE RefreshQueue
        BY <3>2, <4>2 DEF RefreshQueue, EndPc
      <4>3. CASE SetVolume \/ EventTaskPanics
        BY <4>3 DEF SetVolume, EventTaskPanics, CurrentPanics, VolumePanics, EndPc
      <4> QED BY <2>9, <4>1, <4>2, <4>3
    <3> QED BY <2>1, <3>1, <3>3
  <2> QED BY <1>6, <2>2, <2>5, <2>6, <2>7, <2>8, <2>9 DEF EventTask
<1>7. CASE UNCHANGED vars
  BY <1>7, SameRestInv DEF vars
<1> QED BY <1>2, <1>3, <1>4, <1>5, <1>6, <1>7 DEF Next

-----------------------------------------------------------------------------
\* IInv holds initially and under every step.
LEMMA InitIInv == Init => IInv
<1> SUFFICES ASSUME Init PROVE IInv
  OBVIOUS
<1>1. QInv
  BY DEF Init, QInv, Distinct, NewUntouched, TailNeverStarted,
         FinishedTrackHasEvent, Queued, Mode, Finished
<1>2. CmdInv
  BY ConstantsAssumption DEF Init, CmdInv, CountersInv, CountersOK, Holds, CriticalPc, Idle, CmdPc
<1>3. RestInv
  BY DEF Init, RestInv, EndPc
<1> QED BY <1>1, <1>2, <1>3 DEF IInv

THEOREM Inductive == Spec => []IInv
<1>1. IInv /\ [Next]_vars => IInv'
  BY QInvStep, CmdInvStep, RestInvStep DEF IInv
<1> QED BY <1>1, InitIInv, PTL DEF Spec

\* Every variable keeps its type, and the Call's mutex is held by exactly
\* the command that is inside a critical section: the lock discipline of
\* skip, voteskip and the playlist commands, for any number of users.
THEOREM TypeCorrect == Spec => []TypeOK
<1>1. IInv => TypeOK
  BY DEF IInv, QInv, CmdInv, RestInv, TypeOK
<1> QED BY <1>1, Inductive, PTL

\* No command, however interleaved, puts a track that has been heard behind
\* the head of the queue.
THEOREM TailIsNew == Spec => []TailNeverStarted
<1>1. IInv => TailNeverStarted
  BY DEF IInv, QInv
<1> QED BY <1>1, Inductive, PTL

\* A finished track in the queue is the head and its End event is pending.
THEOREM NoDeadTrack == Spec => []FinishedTrackHasEvent
<1>1. IInv => FinishedTrackHasEvent
  BY DEF IInv, QInv
<1> QED BY <1>1, Inductive, PTL
=============================================================================
