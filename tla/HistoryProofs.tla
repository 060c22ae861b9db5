---------------------------- MODULE HistoryProofs ----------------------------
(***************************************************************************)
(* The play log is a journal of the messages (PlayJournal), for any number *)
(* of messages, guilds, users and tracks, any size of the channel, and     *)
(* whatever statements fail and restarts come between; and the keys that   *)
(* a row names exist in the tables they refer to.                          *)
(***************************************************************************)
EXTENDS PlayHistory, QueueLemmas, FiniteSetTheorems, TLAPS

Busy == worker.at # "idle"

Play == [guild : Guilds, user : Users, meta : Nat, msg : Nat]

\* The messages that wait are later than the one in hand and than all that are in the
\* log, and they wait in the order of sending.
InOrder ==
    /\ \A i \in 1..Len(channel) : channel[i] \in 1..Len(sent)
    /\ \A i, j \in 1..Len(channel) : i < j => channel[i] < channel[j]
    /\ Busy => worker.msg \in 1..Len(sent)
    /\ Busy => \A i \in 1..Len(channel) : worker.msg < channel[i]

\* A row of the log tells of a message that was dealt with before.
Dealt(k) ==
    /\ playLog[k].msg \in 1..Len(sent)
    /\ \A i \in 1..Len(channel) : playLog[k].msg < channel[i]
    /\ Busy => playLog[k].msg < worker.msg

RowOK(k) ==
    /\ playLog[k].meta \in 1..Len(metadata)
    /\ Dealt(k)

\* The metadata row in the worker's hand is the one of its message, or none.
MetaOK ==
    worker.at \in {"user", "log"} =>
      \/ worker.meta = NoMetadata
      \/ worker.meta \in 1..Len(metadata) /\ metadata[worker.meta] = sent[worker.msg].url

\* The inductive invariant.
HInv ==
    /\ sent \in Seq(Message)
    /\ channel \in Seq(Nat)
    /\ metadata \in Seq(Tracks)
    /\ playLog \in Seq(Play)
    /\ worker \in [at : {"idle", "select", "insert", "user", "log"}, msg : Nat, meta : Nat]
    /\ ~Busy => worker = Waiting
    /\ InOrder
    /\ \A k \in 1..Len(playLog) : RowOK(k)
    /\ MetaOK

LEMMA InitHInv == Init => HInv
BY DEF Init, HInv, InOrder, RowOK, Dealt, MetaOK, Busy, Waiting, NoMetadata

LEMMA SendStep ==
    ASSUME HInv, NEW m \in Message, Send(m)
    PROVE  HInv'
<1> USE DEF HInv, Busy, Dealt, RowOK
<1>1. /\ sent' \in Seq(Message) /\ Len(sent') = Len(sent) + 1
      /\ \A i \in 1..Len(sent) : sent'[i] = sent[i]
  BY DEF Send
<1>2. CASE channel' = channel
  BY <1>1, <1>2 DEF Send, InOrder, MetaOK
<1>3. CASE channel' = Append(channel, Len(sent'))
  <2>1. channel' \in Seq(Nat) /\ Len(channel') = Len(channel) + 1
    BY <1>1, <1>3
  <2>2. \A i \in 1..Len(channel) : channel'[i] = channel[i]
    BY <1>3
  <2>3. channel'[Len(channel')] = Len(sent) + 1
    BY <1>1, <1>3, <2>1
  <2>4. InOrder'
    <3>1. \A i \in 1..Len(channel') : i \in 1..Len(channel) \/ i = Len(channel) + 1
      BY <2>1
    <3>2. \A i \in 1..Len(channel') : channel'[i] \in 1..Len(sent')
      <4>1. \A i \in 1..Len(channel) : channel'[i] \in 1..Len(sent')
        BY <1>1, <2>2 DEF InOrder
      <4>2. channel'[Len(channel) + 1] \in 1..Len(sent')
        BY <1>1, <2>1, <2>3
      <4> QED BY <3>1, <4>1, <4>2
    <3>3. \A i, j \in 1..Len(channel') : i < j => channel'[i] < channel'[j]
      <4> SUFFICES ASSUME NEW i \in 1..Len(channel'), NEW j \in 1..Len(channel'), i < j
                   PROVE  channel'[i] < channel'[j]
        OBVIOUS
      <4>1. i \in 1..Len(channel) /\ channel'[i] = channel[i] /\ channel[i] \in 1..Len(sent)
        BY SMTT(20), <2>1, <2>2 DEF InOrder
      <4>2. CASE j \in 1..Len(channel)
        BY <4>1, <4>2, <2>2 DEF InOrder
      <4>3. CASE j = Len(channel) + 1
        BY SMTT(20), <4>1, <4>3, <2>1, <2>3
      <4> QED BY <3>1, <4>2, <4>3
    <3>4. worker' = worker
      BY DEF Send
    <3>5. Busy => \A i \in 1..Len(channel') : worker.msg < channel'[i]
      <4>1. Busy => \A i \in 1..Len(channel) : worker.msg < channel'[i]
        BY <2>2 DEF InOrder
      <4>2. Busy => worker.msg < channel'[Len(channel) + 1]
        BY <2>1, <2>3 DEF InOrder
      <4> QED BY <3>1, <4>1, <4>2
    <3>6. Busy => worker.msg \in 1..Len(sent')
      BY <1>1 DEF InOrder
    <3> QED BY <3>2, <3>3, <3>4, <3>5, <3>6 DEF InOrder
  <2>5. \A k \in 1..Len(playLog) : RowOK(k)'
    <3> SUFFICES ASSUME NEW k \in 1..Len(playLog) PROVE RowOK(k)'
      BY DEF Send
    <3>1. \A i \in 1..Len(channel') : i \in 1..Len(channel) \/ i = Len(channel) + 1
      BY <2>1
    <3>2. playLog[k].msg \in 1..Len(sent) /\ playLog[k].msg \in 1..Len(sent')
      BY <1>1
    <3>3. \A i \in 1..Len(channel) : playLog[k].msg < channel'[i]
      BY <2>2
    <3>4. playLog[k].msg < channel'[Len(channel) + 1]
      BY <2>1, <2>3, <3>2
    <3>5. \A i \in 1..Len(channel') : playLog[k].msg < channel'[i]
      BY <3>1, <3>3, <3>4
    <3> QED BY <3>2, <3>5 DEF Send
  <2>6. MetaOK'
    BY <1>1 DEF Send, MetaOK, InOrder
  <2> QED BY <1>1, <2>1, <2>4, <2>5, <2>6 DEF Send
<1> QED BY <1>2, <1>3 DEF Send

LEMMA ReceiveStep ==
    ASSUME HInv, Receive
    PROVE  HInv'
<1> USE DEF HInv, Busy, Dealt, RowOK
<1>1. /\ channel' \in Seq(Nat) /\ Len(channel') = Len(channel) - 1 /\ Len(channel) > 0
      /\ \A i \in 1..Len(channel') : channel'[i] = channel[i + 1]
  BY DEF Receive
<1>2. worker' = [at |-> "select", msg |-> channel[1], meta |-> NoMetadata]
  BY DEF Receive
<1>3. InOrder'
  BY <1>1, <1>2 DEF Receive, InOrder
<1>4. \A k \in 1..Len(playLog) : RowOK(k)'
  BY <1>1, <1>2 DEF Receive
<1> QED BY <1>1, <1>2, <1>3, <1>4 DEF Receive, MetaOK, NoMetadata, InOrder

\* The other steps of the worker leave the messages alone.
LEMMA WorkStep ==
    ASSUME HInv, Select \/ Insert \/ InsertFails \/ UpsertUser \/ Log \/ LogFails
    PROVE  HInv'
<1> USE DEF HInv, Busy, Dealt, RowOK
<1>1. CASE Select
  <2>1. PICK to \in {"user", "insert"} : worker'.at = to
    BY <1>1 DEF Select
  <2>2. CASE \E id \in RowsOf(Current.url) :
               worker' = [worker EXCEPT !.at = "user", !.meta = id]
    <3>1. PICK id \in RowsOf(Current.url) :
            worker' = [worker EXCEPT !.at = "user", !.meta = id]
      BY <2>2
    <3>2. worker' = [at |-> "user", msg |-> worker.msg, meta |-> id]
      BY <3>1
    <3>3. id \in 1..Len(metadata) /\ metadata[id] = sent[worker.msg].url
      BY DEF RowsOf, Current
    <3>4. MetaOK'
      BY <1>1, <3>2, <3>3 DEF Select, MetaOK
    <3>5. InOrder'
      BY <1>1, <3>2 DEF Select, InOrder
    <3>6. id \in Nat
      BY <3>3
    <3>7. \A k \in 1..Len(playLog) : RowOK(k)'
      BY <1>1, <3>2 DEF Select
    <3> QED BY <1>1, <3>2, <3>4, <3>5, <3>6, <3>7 DEF Select
  <2>3. CASE worker' = [worker EXCEPT !.at = "insert"]
    BY <1>1, <2>3 DEF Select, InOrder, MetaOK
  <2> QED BY <1>1, <2>2, <2>3 DEF Select
<1>2. CASE Insert
  <2>1. sent[worker.msg].url \in Tracks
    <3>1. worker.msg \in 1..Len(sent)
      BY <1>2 DEF Insert, InOrder
    <3>2. sent[worker.msg] \in Message
      BY <3>1
    <3> QED BY <3>2 DEF Message
  <2>2. /\ metadata' \in Seq(Tracks) /\ Len(metadata') = Len(metadata) + 1
        /\ metadata'[Len(metadata')] = sent[worker.msg].url
    BY <1>2, <2>1 DEF Insert, Current
  <2>3. worker' = [at |-> "user", msg |-> worker.msg, meta |-> Len(metadata')]
    BY <1>2 DEF Insert
  <2> QED BY <1>2, <2>2, <2>3 DEF Insert, InOrder, MetaOK
<1>3. CASE InsertFails
  <2>1. worker' = [at |-> "user", msg |-> worker.msg, meta |-> NoMetadata]
    BY <1>3 DEF InsertFails
  <2> QED BY <1>3, <2>1 DEF InsertFails, InOrder, MetaOK, NoMetadata
<1>4. CASE UpsertUser
  BY <1>4 DEF UpsertUser, InOrder, MetaOK
<1>5. CASE Log
  <2> DEFINE row == [guild |-> Current.guild, user |-> Current.user,
                     meta |-> worker.meta, msg |-> worker.msg]
  <2>1. row \in Play
    <3>1. worker.msg \in 1..Len(sent)
      BY <1>5 DEF Log, InOrder
    <3>2. Current \in Message
      BY <3>1 DEF Current
    <3> QED BY <3>2 DEF Play, Message
  <2>2. playLog' = Append(playLog, row) /\ worker' = Waiting
    BY <1>5 DEF Log
  <2>3. row.meta \in 1..Len(metadata) /\ row.msg \in 1..Len(sent)
    BY <1>5 DEF Log, InOrder
  <2>4. \A i \in 1..Len(channel) : row.msg < channel[i]
    BY <1>5 DEF Log, InOrder
  <2> HIDE DEF row
  <2>5. playLog' \in Seq(Play) /\ Len(playLog') = Len(playLog) + 1
    BY <2>1, <2>2
  <2>6. /\ \A k \in 1..Len(playLog) : playLog'[k] = playLog[k]
        /\ playLog'[Len(playLog')] = row
    BY <2>1, <2>2
  <2>7. \A k \in 1..Len(playLog') : RowOK(k)'
    BY <1>5, <2>2, <2>3, <2>4, <2>5, <2>6 DEF Log, Waiting
  <2> QED BY <1>5, <2>2, <2>5, <2>7 DEF Log, InOrder, MetaOK, Waiting, NoMetadata
<1>6. CASE LogFails
  BY <1>6 DEF LogFails, InOrder, MetaOK, Waiting, NoMetadata
<1> QED BY <1>1, <1>2, <1>3, <1>4, <1>5, <1>6

\* No other step touches what the invariant speaks of, but a restart.
LEMMA OtherStep ==
    ASSUME HInv, UNCHANGED <<sent, channel, worker, metadata, playLog>> \/ Restart
    PROVE  HInv'
<1> USE DEF HInv, Busy, Dealt, RowOK, InOrder, MetaOK
<1>1. CASE UNCHANGED <<sent, channel, worker, metadata, playLog>>
  BY <1>1
<1>2. CASE Restart
  BY <1>2 DEF Restart, Waiting, NoMetadata
<1> QED BY <1>1, <1>2

LEMMA NextHInv == HInv /\ [Next]_vars => HInv'
<1>1. \A g \in Guilds : ReadLast(g) \/ VoteStep(g) \/ GuildIsKnown(g) =>
        UNCHANGED <<sent, channel, worker, metadata, playLog>>
  BY DEF ReadLast, VoteStep, React, Dislike, VoteFails, GuildIsKnown
<1>2. UNCHANGED vars => UNCHANGED <<sent, channel, worker, metadata, playLog>>
  BY DEF vars
<1> QED BY <1>1, <1>2, SendStep, ReceiveStep, WorkStep, OtherStep DEF Next, WorkerStep

LEMMA HInvHolds == Spec => []HInv
BY InitHInv, NextHInv, PTL DEF Spec

-----------------------------------------------------------------------------
Rows == [i \in DOMAIN playLog |-> Written(i)]
LastMsg == IF playLog = <<>> THEN 0 ELSE playLog[Len(playLog)].msg

\* What the log says does not change when rows of metadata are added.
LEMMA RowsStay ==
    ASSUME HInv, UNCHANGED playLog,
           UNCHANGED metadata \/ \E url \in Tracks : metadata' = Append(metadata, url)
    PROVE  Rows' = Rows /\ LastMsg' = LastMsg
<1>1. \A k \in 1..Len(playLog) : metadata'[playLog[k].meta] = metadata[playLog[k].meta]
  BY DEF HInv, RowOK
<1>2. DOMAIN playLog = 1..Len(playLog)
  BY DEF HInv
<1> QED BY <1>1, <1>2 DEF Rows, LastMsg, Written

\* The row that the worker adds is an offered entry, later than all that are written.
LEMMA LogWrites ==
    ASSUME HInv, Log
    PROVE  Journal!Write
<1>1. /\ worker.msg \in 1..Len(sent) /\ sent[worker.msg] \in Message
      /\ worker.meta \in 1..Len(metadata) /\ metadata[worker.meta] = sent[worker.msg].url
  BY DEF Log, HInv, InOrder, MetaOK, Busy, NoMetadata
<1> DEFINE row == [guild |-> Current.guild, user |-> Current.user,
                   meta |-> worker.meta, msg |-> worker.msg]
<1>2. playLog' = Append(playLog, row) /\ UNCHANGED <<sent, metadata>>
  BY DEF Log
<1>3. row.msg = worker.msg /\ row.meta = worker.meta
  OBVIOUS
<1>4. row.guild = sent[worker.msg].guild /\ row.user = sent[worker.msg].user
  BY DEF Current
<1>5. row \in Play
  BY <1>1, <1>3, <1>4 DEF Play, Message, Current, HInv
<1> HIDE DEF row
<1>6. playLog \in Seq(Play) /\ DOMAIN playLog = 1..Len(playLog)
  BY DEF HInv
<1>0. PICK n \in Nat : n = Len(playLog)
  <2>1. Len(playLog) \in Nat
    BY <1>6
  <2> QED BY <2>1, Zenon
<1>7. /\ playLog' \in Seq(Play) /\ DOMAIN playLog' = 1..(n + 1)
      /\ Len(playLog') = n + 1
      /\ \A k \in 1..n : playLog'[k] = playLog[k]
      /\ playLog'[n + 1] = row
  BY <1>0, <1>2, <1>5, <1>6
<1>8. Written(n + 1)' = sent[worker.msg]
  <2>1. Written(n + 1)' = [guild |-> row.guild, url |-> metadata[row.meta], user |-> row.user]
    BY <1>2, <1>7 DEF Written
  <2> QED BY <1>1, <1>3, <1>4, <2>1 DEF Message
<1>9. \A k \in 1..n : Written(k)' = Written(k)
  BY <1>2, <1>7 DEF Written
<1>10. LastMsg' = worker.msg
  BY <1>3, <1>7 DEF LastMsg
<1>11. LastMsg \in Nat /\ LastMsg < worker.msg
  BY SMTT(20), <1>1, <1>6 DEF LastMsg, HInv, RowOK, Dealt, Busy, Log, Play
<1>12. Rows' = Append(Rows, sent[worker.msg])
  <2>1. Rows' = [k \in 1..(n + 1) |-> Written(k)']
    BY <1>7 DEF Rows
  <2>2. Rows = [k \in 1..n |-> Written(k)] /\ Len(Rows) = n
    BY <1>0, <1>6 DEF Rows
  <2>3. Append(Rows, sent[worker.msg]) =
          [k \in 1..(n + 1) |-> IF k = n + 1 THEN sent[worker.msg] ELSE Written(k)]
    BY <2>2
  <2>4. \A k \in 1..(n + 1) :
          Written(k)' = IF k = n + 1 THEN sent[worker.msg] ELSE Written(k)
    <3>1. \A k \in 1..(n + 1) : k = n + 1 \/ k \in 1..n
      OBVIOUS
    <3> QED BY <3>1, <1>8, <1>9
  <2> QED BY <2>1, <2>3, <2>4
<1>13. LastMsg' \in (LastMsg + 1)..Len(sent)
  BY <1>1, <1>10, <1>11 DEF HInv
<1> QED BY <1>2, <1>10, <1>12, <1>13 DEF Journal!Write, Rows, LastMsg

\* Every step of the program is a step of the journal, or none.
LEMMA StepIsJournal ==
    ASSUME HInv, [Next]_vars
    PROVE  [Journal!JNext]_<<sent, Rows, LastMsg>>
<1>1. ASSUME NEW m \in Message, Send(m) PROVE Journal!Offer
  <2>1. Rows' = Rows /\ LastMsg' = LastMsg
    BY <1>1, RowsStay DEF Send
  <2> QED BY <1>1, <2>1 DEF Send, Journal!Offer, Rows, LastMsg
<1>2. ASSUME Insert PROVE UNCHANGED <<sent, Rows, LastMsg>>
  <2>1. Current.url \in Tracks
    <3>1. worker.msg \in 1..Len(sent)
      BY <1>2 DEF Insert, HInv, InOrder, Busy
    <3>2. sent[worker.msg] \in Message
      BY <3>1 DEF HInv
    <3> QED BY <3>2 DEF Message, Current
  <2> QED BY <1>2, <2>1, RowsStay DEF Insert
<1>3. ASSUME UNCHANGED <<sent, metadata, playLog>> PROVE UNCHANGED <<sent, Rows, LastMsg>>
  BY <1>3, RowsStay
<1>4. CASE Log
  BY <1>4, LogWrites DEF Journal!JNext
<1>5. CASE \E m \in Message : Send(m)
  BY <1>5, <1>1 DEF Journal!JNext
<1>6. CASE Insert
  BY <1>6, <1>2
<1>7. CASE UNCHANGED <<sent, metadata, playLog>>
  BY <1>7, <1>3
<1> QED
  BY <1>4, <1>5, <1>6, <1>7
  DEF Next, WorkerStep, VoteStep, Receive, Select, InsertFails, UpsertUser, LogFails,
      ReadLast, React, Dislike, VoteFails, GuildIsKnown, Restart, vars

\* The play log implements the journal: whatever fails and however sending, writing,
\* voting and restarts interleave, each row of the log is a message as it was sent, none
\* is there twice, and they are in the order of sending.
THEOREM LogImplementsJournal == Spec => LogIsJournal
<1>1. Init => Journal!JInit
  BY DEF Init, Journal!JInit
<1>2. HInv /\ [Next]_vars => [Journal!JNext]_<<sent, Rows, LastMsg>>
  BY StepIsJournal
<1> QED BY <1>1, <1>2, HInvHolds, PTL DEF Spec, LogIsJournal, Journal!JSpec, Rows, LastMsg

-----------------------------------------------------------------------------
(* Foreign keys *)

Row(knownIds, userIds, metas, msgs) ==
    [guild : knownIds, user : userIds, meta : metas, msg : msgs]

\* The keys of rows that are there stay, because no table loses a row.
LEMMA RowsKeepType ==
    ASSUME NEW k1, NEW u1, NEW d1, NEW s1, NEW k2, NEW u2, NEW d2, NEW s2,
           k1 \subseteq k2, u1 \subseteq u2, d1 \subseteq d2, s1 \subseteq s2,
           NEW log \in Seq(Row(k1, u1, d1, s1))
    PROVE  log \in Seq(Row(k2, u2, d2, s2))
<1>1. \A x \in Row(k1, u1, d1, s1) : x \in Row(k2, u2, d2, s2)
  BY DEF Row
<1> HIDE DEF Row
<1> QED BY <1>1

\* What the type invariant adds to HInv.
Tables ==
    /\ Len(channel) <= Capacity
    /\ worker.meta \in 1..Len(metadata) \union {NoMetadata}
    /\ users \subseteq Users /\ known \subseteq Guilds
    /\ playLog \in Seq(Row(known, users, 1..Len(metadata), 1..Len(sent)))
    /\ DOMAIN reaction \subseteq 1..Len(playLog)
    /\ \A id \in DOMAIN reaction : reaction[id] \in Nat
    /\ vote \in [Guilds -> [at : {"idle", "insert", "add"}, id : Nat]]

LEMMA TablesInit == Init => Tables
BY HistoryAssumption DEF Init, Tables, Waiting, NoMetadata, NoVote

\* Steps of the worker and of those who send.
LEMMA TablesFilled ==
    ASSUME HInv, Tables, (\E m \in Message : Send(m)) \/ WorkerStep
    PROVE  Tables'
<1>a. /\ Len(sent) \in Nat /\ Len(metadata) \in Nat /\ Len(channel) \in Nat /\ Len(playLog) \in Nat
      /\ Capacity \in Nat /\ Capacity > 0
  BY HistoryAssumption DEF HInv
<1>b. Busy => Current \in Message
  BY DEF HInv, InOrder, Current
<1>1. ASSUME NEW m \in Message, Send(m)
      PROVE  Tables'
  <2>1. Len(sent') = Len(sent) + 1 /\ Len(channel') <= Capacity
    BY <1>a, <1>1 DEF Send, HInv, Tables
  <2>2. 1..Len(sent) \subseteq 1..Len(sent')
    BY <1>a, <2>1
  <2>3. playLog' \in Seq(Row(known, users, 1..Len(metadata), 1..Len(sent')))
    BY <1>1, <2>2, RowsKeepType DEF Send, Tables
  <2> QED BY <1>1, <2>1, <2>3 DEF Send, Tables
<1>2. CASE Receive
  <2>1. Len(channel') <= Capacity
    BY <1>a, <1>2 DEF Receive, HInv, Tables
  <2>2. worker'.meta = NoMetadata
    BY <1>2 DEF Receive
  <2> QED BY <1>2, <2>1, <2>2 DEF Receive, Tables
<1>3. CASE Select
  <2>1. worker'.meta \in 1..Len(metadata) \union {NoMetadata}
    <3>1. DOMAIN metadata = 1..Len(metadata)
      BY DEF HInv
    <3>2. worker'.meta = worker.meta \/ worker'.meta \in RowsOf(Current.url)
      BY <1>3 DEF Select, HInv
    <3> QED BY <3>1, <3>2 DEF RowsOf, Tables
  <2> QED BY <1>3, <2>1 DEF Select, Tables
<1>4. CASE Insert
  <2>1. Len(metadata') = Len(metadata) + 1 /\ worker'.meta = Len(metadata')
    BY <1>a, <1>4 DEF Insert, HInv
  <2>2. 1..Len(metadata) \subseteq 1..Len(metadata')
    BY <1>a, <2>1
  <2>3. playLog' \in Seq(Row(known, users, 1..Len(metadata'), 1..Len(sent)))
    BY <1>4, <2>2, RowsKeepType DEF Insert, Tables
  <2>4. worker'.meta \in 1..Len(metadata')
    BY <1>a, <2>1
  <2> QED BY <1>4, <2>3, <2>4 DEF Insert, Tables
<1>5. CASE InsertFails
  <2>1. worker'.meta = NoMetadata
    BY <1>5 DEF InsertFails, HInv
  <2> QED BY <1>5, <2>1 DEF InsertFails, Tables
<1>6. CASE UpsertUser
  <2>1. worker'.meta = worker.meta
    BY <1>6 DEF UpsertUser, HInv
  <2>2. Current.user \in Users
    BY <1>b, <1>6 DEF UpsertUser, Busy, Message
  <2>3. users \subseteq users' /\ users' \subseteq Users
    BY <1>6, <2>2 DEF UpsertUser, Tables
  <2>4. playLog' \in Seq(Row(known, users', 1..Len(metadata), 1..Len(sent)))
    BY <1>6, <2>3, RowsKeepType DEF UpsertUser, Tables
  <2> QED BY <1>6, <2>1, <2>3, <2>4 DEF UpsertUser, Tables
<1>7. CASE Log
  <2> DEFINE row == [guild |-> Current.guild, user |-> Current.user,
                     meta |-> worker.meta, msg |-> worker.msg]
             R == Row(known, users, 1..Len(metadata), 1..Len(sent))
  <2>1. worker.msg \in 1..Len(sent)
    BY <1>7 DEF Log, HInv, InOrder, Busy
  <2>2. DOMAIN metadata = 1..Len(metadata)
    BY DEF HInv
  <2>3. row \in R
    BY <1>7, <2>1, <2>2 DEF Log, Row
  <2>4. playLog \in Seq(R) /\ playLog' = Append(playLog, row)
    BY <1>7 DEF Log, Tables
  <2> HIDE DEF row, R
  <2>5. playLog' \in Seq(R) /\ Len(playLog') = Len(playLog) + 1
    BY <2>3, <2>4
  <2>6. DOMAIN reaction \subseteq 1..Len(playLog')
    BY <1>a, <2>5 DEF Tables
  <2>7. worker'.meta = NoMetadata
    BY <1>7 DEF Log, Waiting
  <2> QED BY <1>7, <2>5, <2>6, <2>7 DEF Log, Tables, R
<1>8. CASE LogFails
  <2>1. worker'.meta = NoMetadata
    BY <1>8 DEF LogFails, Waiting
  <2> QED BY <1>8, <2>1 DEF LogFails, Tables
<1> QED BY <1>1, <1>2, <1>3, <1>4, <1>5, <1>6, <1>7, <1>8 DEF WorkerStep

\* Steps of those who vote, of a start and of a restart.
LEMMA TablesVoted ==
    ASSUME HInv, Tables,
           (\E g \in Guilds : ReadLast(g) \/ VoteStep(g) \/ GuildIsKnown(g)) \/ Restart
             \/ UNCHANGED vars
    PROVE  Tables'
<1> DEFINE Vote == [at : {"idle", "insert", "add"}, id : Nat]
<1>a. DOMAIN playLog = 1..Len(playLog)
  BY DEF HInv
<1>1. ASSUME NEW g \in Guilds, ReadLast(g)
      PROVE  Tables'
  <2>1. PICK i \in PlaysOf(g) : vote' = [vote EXCEPT ![g] = [at |-> "insert", id |-> playLog[i].meta]]
    BY <1>1 DEF ReadLast
  <2>2. playLog[i].meta \in Nat
    <3>1. i \in 1..Len(playLog) /\ playLog \in Seq(Play)
      BY <1>a DEF PlaysOf, HInv
    <3>2. playLog[i] \in Play
      BY <3>1
    <3> QED BY <3>2 DEF Play
  <2>3. vote' \in [Guilds -> Vote]
    BY <2>1, <2>2 DEF Tables
  <2> QED BY <1>1, <2>3 DEF ReadLast, Tables
<1>2. ASSUME NEW g \in Guilds, React(g)
      PROVE  Tables'
  <2>1. /\ DOMAIN reaction' = DOMAIN reaction \union {vote[g].id}
        /\ \A id \in DOMAIN reaction' :
             reaction'[id] = IF id = vote[g].id THEN 0 ELSE reaction[id]
        /\ vote[g].id \in 1..Len(playLog)
    BY <1>2, <1>a DEF React
  <2>2. vote' \in [Guilds -> Vote]
    BY <1>2 DEF React, Tables
  <2>3. \A id \in DOMAIN reaction' : reaction'[id] \in Nat
    BY <2>1 DEF Tables
  <2> QED BY <1>2, <2>1, <2>2, <2>3 DEF React, Tables
<1>3. ASSUME NEW g \in Guilds, Dislike(g)
      PROVE  Tables'
  <2>1. /\ DOMAIN reaction' = DOMAIN reaction
        /\ \A id \in DOMAIN reaction :
             reaction'[id] = IF id = vote[g].id THEN reaction[id] + 1 ELSE reaction[id]
    BY <1>3 DEF Dislike
  <2>2. vote' \in [Guilds -> Vote]
    BY <1>3 DEF Dislike, NoVote, Tables
  <2>3. \A id \in DOMAIN reaction' : reaction'[id] \in Nat
    BY <2>1 DEF Tables
  <2> QED BY <1>3, <2>1, <2>2, <2>3 DEF Dislike, Tables
<1>4. ASSUME NEW g \in Guilds, VoteFails(g)
      PROVE  Tables'
  <2>1. vote' \in [Guilds -> Vote]
    BY <1>4 DEF VoteFails, NoVote, Tables
  <2> QED BY <1>4, <2>1 DEF VoteFails, Tables
<1>5. ASSUME NEW g \in Guilds, GuildIsKnown(g)
      PROVE  Tables'
  <2>1. known \subseteq known' /\ known' \subseteq Guilds
    BY <1>5 DEF GuildIsKnown, Tables
  <2>2. playLog' \in Seq(Row(known', users, 1..Len(metadata), 1..Len(sent)))
    BY <1>5, <2>1, RowsKeepType DEF GuildIsKnown, Tables
  <2> QED BY <1>5, <2>1, <2>2 DEF GuildIsKnown, Tables
<1>6. CASE Restart
  <2>1. Len(channel') <= Capacity /\ worker'.meta = NoMetadata
    BY <1>6, HistoryAssumption DEF Restart, Waiting
  <2>2. vote' \in [Guilds -> Vote]
    BY <1>6 DEF Restart, NoVote
  <2> QED BY <1>6, <2>1, <2>2 DEF Restart, Tables
<1>7. CASE UNCHANGED vars
  BY <1>7 DEF vars, Tables
<1> QED BY <1>1, <1>2, <1>3, <1>4, <1>5, <1>6, <1>7 DEF VoteStep

\* All foreign keys exist, whatever statements fail: a row of the play log names a guild, a
\* user and a metadata row that are there, and a reaction names a row of the log.
THEOREM KeysExist == Spec => []TypeOK
<1>1. HInv /\ Tables => TypeOK
  <2> SUFFICES ASSUME HInv, Tables
               PROVE  TypeOK
    OBVIOUS
  <2>1. /\ DOMAIN sent = 1..Len(sent) /\ DOMAIN metadata = 1..Len(metadata)
        /\ DOMAIN playLog = 1..Len(playLog)
    BY DEF HInv
  <2>2. channel \in Seq(DOMAIN sent)
    <3>1. channel \in Seq(Nat) /\ \A i \in 1..Len(channel) : channel[i] \in DOMAIN sent
      BY <2>1 DEF HInv, InOrder
    <3> QED BY <3>1
  <2>3. worker # Waiting => worker.msg \in DOMAIN sent
    <3>1. worker # Waiting => Busy
      BY DEF HInv
    <3> QED BY <2>1, <3>1 DEF HInv, InOrder
  <2>4. worker.at \in {"idle", "select", "insert", "user", "log"}
    BY DEF HInv
  <2>5. sent \in Seq(Message) /\ metadata \in Seq(Tracks)
    BY DEF HInv
  <2> QED BY <2>1, <2>2, <2>3, <2>4, <2>5 DEF Tables, TypeOK, Row
<1>2. HInv /\ Tables /\ [Next]_vars => Tables'
  BY TablesFilled, TablesVoted DEF Next
<1> QED BY <1>1, <1>2, TablesInit, HInvHolds, PTL DEF Spec

-----------------------------------------------------------------------------
(* Sums.  A sum of numbers is the number of dots in their histogram. *)

Dots(f, s) == {p \in s \X Nat : p[2] < f[p[1]]}

\* The dots of one column.
LEMMA ColumnIs ==
    ASSUME NEW x, NEW n \in Nat
    PROVE  IsFiniteSet({x} \X (0..n - 1)) /\ Cardinality({x} \X (0..n - 1)) = n
<1>1. IsFiniteSet({x}) /\ Cardinality({x}) = 1
  BY FS_Singleton
<1>2. IsFiniteSet(0..n - 1) /\ Cardinality(0..n - 1) = n
  BY FS_Interval
<1>3. /\ IsFiniteSet({x} \X (0..n - 1))
      /\ Cardinality({x} \X (0..n - 1)) = Cardinality({x}) * Cardinality(0..n - 1)
  BY <1>1, <1>2, FS_Product
<1> QED BY <1>1, <1>2, <1>3

\* A set without one of its members has the dots of the other columns.
LEMMA DotsWithout ==
    ASSUME NEW f, NEW s, NEW x \in s, f[x] \in Nat
    PROVE  /\ Dots(f, s) = Dots(f, s \ {x}) \union ({x} \X (0..f[x] - 1))
           /\ Dots(f, s \ {x}) \cap ({x} \X (0..f[x] - 1)) = {}
<1>1. \A p : p \in Dots(f, s) <=> p \in s \X Nat /\ p[2] < f[p[1]]
  BY DEF Dots
<1>2. \A p : p \in Dots(f, s \ {x}) <=> p \in (s \ {x}) \X Nat /\ p[2] < f[p[1]]
  BY DEF Dots
<1>3. \A p : p \in {x} \X (0..f[x] - 1) <=> p \in {x} \X Nat /\ p[2] < f[x]
  OBVIOUS
<1>4. \A p : p \in s \X Nat <=> p \in (s \ {x}) \X Nat \/ p \in {x} \X Nat
  OBVIOUS
<1>5. \A p \in {x} \X Nat : p[1] = x
  OBVIOUS
<1>6. \A p \in (s \ {x}) \X Nat : p[1] # x
  OBVIOUS
<1>7. ASSUME NEW p
      PROVE  p \in Dots(f, s) <=> p \in Dots(f, s \ {x}) \/ p \in {x} \X (0..f[x] - 1)
  BY <1>1, <1>2, <1>3, <1>4, <1>5
<1> QED BY <1>2, <1>3, <1>5, <1>6, <1>7

Numbers(f, s) == IsFiniteSet(s) /\ \A x \in s : f[x] \in Nat

\* There are finitely many dots.
LEMMA DotsFinite ==
    ASSUME NEW f, NEW D, Numbers(f, D)
    PROVE  \A s \in SUBSET D : IsFiniteSet(Dots(f, s)) /\ Cardinality(Dots(f, s)) \in Nat
<1> DEFINE Bad == {n \in Nat : \E s \in SUBSET D :
                     Cardinality(s) = n /\ ~ IsFiniteSet(Dots(f, s))}
<1>1. \A s \in SUBSET D : IsFiniteSet(s) /\ Cardinality(s) \in Nat
  BY FS_Subset, FS_CardinalityType DEF Numbers
<1>2. ASSUME NEW n \in Bad
      PROVE  FALSE
  <2>1. PICK m \in Bad : \A k \in Bad : m <= k
    <3>1. Bad \in SUBSET Nat
      OBVIOUS
    <3> HIDE DEF Bad
    <3> QED BY <1>2, <3>1, Least
  <2>2. PICK s \in SUBSET D : Cardinality(s) = m /\ ~ IsFiniteSet(Dots(f, s))
    OBVIOUS
  <2>3. s # {}
    <3>1. Dots(f, {}) = {}
      BY DEF Dots
    <3> QED BY <2>2, <3>1, FS_EmptySet
  <2>4. PICK x \in s : TRUE
    BY <2>3
  <2>5. Cardinality(s \ {x}) = m - 1
    BY <1>1, <2>2, FS_RemoveElement
  <2>6. Cardinality(s \ {x}) \in Nat
    BY <1>1
  <2>7. IsFiniteSet(Dots(f, s \ {x}))
    <3>1. Cardinality(s \ {x}) \notin Bad
      <4>1. \A k \in Bad : m <= k /\ m \in Nat
        BY <2>1
      <4> HIDE DEF Bad
      <4> QED BY <4>1, <2>5, <2>1
    <3> QED BY <2>6, <3>1
  <2>8. f[x] \in Nat
    BY DEF Numbers
  <2>9. IsFiniteSet({x} \X (0..f[x] - 1))
    BY <2>8, ColumnIs
  <2>10. IsFiniteSet(Dots(f, s \ {x}) \union ({x} \X (0..f[x] - 1)))
    BY <2>7, <2>9, FS_Union
  <2> QED BY <2>2, <2>8, <2>10, DotsWithout
<1>3. \A s \in SUBSET D : IsFiniteSet(Dots(f, s))
  BY <1>1, <1>2
<1> QED BY <1>3, FS_CardinalityType

\* The column of a member adds its number.
LEMMA DotsOfColumn ==
    ASSUME NEW f, NEW D, Numbers(f, D), NEW s \in SUBSET D, NEW x \in s
    PROVE  Cardinality(Dots(f, s)) = f[x] + Cardinality(Dots(f, s \ {x}))
<1>0. f[x] \in Nat
  BY DEF Numbers
<1> DEFINE a == Dots(f, s \ {x})
           c == {x} \X (0..f[x] - 1)
<1>1. Dots(f, s) = a \union c /\ a \cap c = {}
  BY <1>0, DotsWithout
<1>2. IsFiniteSet(a) /\ Cardinality(a) \in Nat
  BY DotsFinite
<1>3. IsFiniteSet(c) /\ Cardinality(c) = f[x]
  BY <1>0, ColumnIs
<1> HIDE DEF a, c
<1>4. Cardinality(a \union c) = Cardinality(a) + Cardinality(c) - Cardinality(a \cap c)
  BY <1>2, <1>3, FS_Union
<1>5. Cardinality(a \cap c) = 0
  BY <1>1, FS_EmptySet
<1>6. Cardinality(Dots(f, s)) = f[x] + Cardinality(a)
  BY <1>0, <1>1, <1>2, <1>3, <1>4, <1>5
<1> QED BY <1>6 DEF a
Chosen(s) == CHOOSE x \in s : TRUE

\* What a fold computes of each part of D: its rest, and the chosen member.
Adds(f, D, g) ==
    g = [s \in SUBSET D |-> IF s = {} THEN 0 ELSE f[Chosen(s)] + g[s \ {Chosen(s)}]]

\* The numbers of dots are such a function.
LEMMA DotsAdd ==
    ASSUME NEW f, NEW D, Numbers(f, D)
    PROVE  Adds(f, D, [s \in SUBSET D |-> Cardinality(Dots(f, s))])
<1> DEFINE W == [s \in SUBSET D |-> Cardinality(Dots(f, s))]
<1>1. ASSUME NEW s \in SUBSET D
      PROVE  W[s] = IF s = {} THEN 0 ELSE f[Chosen(s)] + W[s \ {Chosen(s)}]
  <2>1. CASE s = {}
    <3>1. Dots(f, {}) = {}
      BY DEF Dots
    <3>2. W[s] = Cardinality(Dots(f, {}))
      BY <2>1
    <3> QED BY <2>1, <3>1, <3>2, FS_EmptySet
  <2>2. CASE s # {}
    <3>1. Chosen(s) \in s
      BY <2>2 DEF Chosen
    <3>2. Cardinality(Dots(f, s)) = f[Chosen(s)] + Cardinality(Dots(f, s \ {Chosen(s)}))
      BY <3>1, DotsOfColumn
    <3>3. s \ {Chosen(s)} \in SUBSET D
      OBVIOUS
    <3> QED BY <2>2, <3>2, <3>3
  <2> QED BY <2>1, <2>2
<1> DEFINE V == [s \in SUBSET D |-> IF s = {} THEN 0 ELSE f[Chosen(s)] + W[s \ {Chosen(s)}]]
<1>2. W = V
  BY <1>1
<1> QED BY <1>2 DEF Adds

\* And no other function is.
LEMMA AddsOnce ==
    ASSUME NEW f, NEW D, Numbers(f, D), NEW g, Adds(f, D, g)
    PROVE  \A s \in SUBSET D : g[s] = Cardinality(Dots(f, s))
<1> DEFINE W == [s \in SUBSET D |-> Cardinality(Dots(f, s))]
           Bad == {n \in Nat : \E s \in SUBSET D : Cardinality(s) = n /\ g[s] # W[s]}
<1>a. \A s \in SUBSET D :
        /\ g[s] = IF s = {} THEN 0 ELSE f[Chosen(s)] + g[s \ {Chosen(s)}]
        /\ W[s] = IF s = {} THEN 0 ELSE f[Chosen(s)] + W[s \ {Chosen(s)}]
  <2>1. Adds(f, D, W)
    BY DotsAdd
  <2> HIDE DEF W
  <2>2. /\ g = [s \in SUBSET D |-> IF s = {} THEN 0 ELSE f[Chosen(s)] + g[s \ {Chosen(s)}]]
        /\ W = [s \in SUBSET D |-> IF s = {} THEN 0 ELSE f[Chosen(s)] + W[s \ {Chosen(s)}]]
    BY <2>1 DEF Adds
  <2> QED BY <2>2, Zenon
<1>1. \A s \in SUBSET D : IsFiniteSet(s) /\ Cardinality(s) \in Nat
  BY FS_Subset, FS_CardinalityType DEF Numbers
<1> HIDE DEF W
<1>2. ASSUME NEW n \in Bad
      PROVE  FALSE
  <2>1. PICK m \in Bad : \A k \in Bad : m <= k
    <3>1. Bad \in SUBSET Nat
      OBVIOUS
    <3> HIDE DEF Bad
    <3> QED BY <1>2, <3>1, Least
  <2>2. PICK s \in SUBSET D : Cardinality(s) = m /\ g[s] # W[s]
    OBVIOUS
  <2>3. s # {}
    BY <1>a, <2>2
  <2>4. Chosen(s) \in s
    BY <2>3 DEF Chosen
  <2>5. Cardinality(s \ {Chosen(s)}) = m - 1
    BY <1>1, <2>2, <2>4, FS_RemoveElement
  <2>6. s \ {Chosen(s)} \in SUBSET D /\ Cardinality(s \ {Chosen(s)}) \in Nat
    BY <1>1
  <2>7. g[s \ {Chosen(s)}] = W[s \ {Chosen(s)}]
    <3>1. Cardinality(s \ {Chosen(s)}) \notin Bad
      <4>1. \A k \in Bad : m <= k /\ m \in Nat
        BY <2>1
      <4> HIDE DEF Bad
      <4> QED BY <4>1, <2>5, <2>1
    <3> QED BY <2>6, <3>1
  <2> QED BY <1>a, <2>2, <2>3, <2>7
<1>3. \A s \in SUBSET D : g[s] = W[s]
  BY <1>1, <1>2
<1> QED BY <1>3 DEF W

\* The sum of numbers is the number of dots.
LEMMA TotalIsDots ==
    ASSUME NEW f, Numbers(f, DOMAIN f)
    PROVE  Total(f) = Cardinality(Dots(f, DOMAIN f))
<1> DEFINE D == DOMAIN f
           iter == CHOOSE g : Adds(f, D, g)
<1>1. Total(f) = iter[D]
  BY DEF Total, FoldFunction, FoldFunctionOnSet, MapThenFoldSet, Adds, Chosen
<1>2. Adds(f, D, iter)
  BY DotsAdd
<1> HIDE DEF iter
<1> QED BY <1>1, <1>2, AddsOnce

\* One more of one number is one more of the sum.
LEMMA TotalGrows ==
    ASSUME NEW f, NEW D, f \in [D -> Nat], IsFiniteSet(D), NEW x \in D,
           NEW h, h = [f EXCEPT ![x] = @ + 1]
    PROVE  Total(h) = Total(f) + 1
<1>1. /\ D = DOMAIN f /\ D = DOMAIN h /\ f[x] \in Nat /\ h[x] = f[x] + 1
      /\ \A y \in D : h[y] \in Nat /\ f[y] \in Nat /\ (y # x => h[y] = f[y])
  OBVIOUS
<1>2. Numbers(f, D) /\ Numbers(h, D)
  BY <1>1 DEF Numbers
<1>3. Dots(h, D) = Dots(f, D) \union {<<x, f[x]>>}
  <2>1. ASSUME NEW y \in D, NEW n \in Nat
        PROVE  <<y, n>> \in Dots(h, D) <=> <<y, n>> \in Dots(f, D) \/ <<y, n>> = <<x, f[x]>>
    <3>1. <<y, n>> \in Dots(h, D) <=> n < h[y]
      BY DEF Dots
    <3>2. <<y, n>> \in Dots(f, D) <=> n < f[y]
      BY DEF Dots
    <3> QED BY <1>1, <3>1, <3>2
  <2>2. /\ \A p \in Dots(h, D) : \E y \in D, n \in Nat : p = <<y, n>>
        /\ \A p \in Dots(f, D) : \E y \in D, n \in Nat : p = <<y, n>>
    BY DEF Dots
  <2>3. ASSUME NEW p \in Dots(h, D)
        PROVE  p \in Dots(f, D) \union {<<x, f[x]>>}
    <3>1. PICK y \in D, n \in Nat : p = <<y, n>>
      BY <2>2
    <3> QED BY <2>1, <3>1, Zenon
  <2>4. ASSUME NEW p \in Dots(f, D)
        PROVE  p \in Dots(h, D)
    <3>1. PICK y \in D, n \in Nat : p = <<y, n>>
      BY <2>2
    <3> QED BY <2>1, <3>1, Zenon
  <2>5. <<x, f[x]>> \in Dots(h, D)
    BY <1>1, <2>1, Zenon
  <2> QED BY <2>3, <2>4, <2>5, Zenon
<1>4. <<x, f[x]>> \notin Dots(f, D)
  BY <1>1 DEF Dots
<1>5. IsFiniteSet(Dots(f, D)) /\ Cardinality(Dots(f, D)) \in Nat
  BY <1>2, DotsFinite
<1>6. Cardinality(Dots(h, D)) = Cardinality(Dots(f, D)) + 1
  BY <1>3, <1>4, <1>5, FS_AddElement
<1> QED BY <1>1, <1>2, <1>6, TotalIsDots

\* A number more, which is 0, changes nothing.
LEMMA TotalStays ==
    ASSUME NEW f, NEW D, f \in [D -> Nat], IsFiniteSet(D), NEW x, x \notin D,
           NEW h, h = [y \in D \union {x} |-> IF y = x THEN 0 ELSE f[y]]
    PROVE  Total(h) = Total(f)
<1> DEFINE E == D \union {x}
<1>1. /\ D = DOMAIN f /\ E = DOMAIN h /\ h[x] = 0
      /\ \A y \in D : h[y] = f[y] /\ f[y] \in Nat
      /\ \A y \in E : h[y] \in Nat
  OBVIOUS
<1>2. IsFiniteSet(E)
  BY FS_AddElement
<1>3. Numbers(f, D) /\ Numbers(h, E)
  BY <1>1, <1>2 DEF Numbers
<1>4. Dots(h, E) = Dots(f, D)
  BY <1>1 DEF Dots
<1> QED BY <1>1, <1>3, <1>4, TotalIsDots

\* A sum of zeros.
LEMMA TotalOfNone ==
    ASSUME NEW D, IsFiniteSet(D), NEW f, f = [x \in D |-> 0]
    PROVE  Total(f) = 0
<1>1. Numbers(f, D) /\ D = DOMAIN f
  BY DEF Numbers
<1>2. Dots(f, D) = {}
  BY DEF Dots
<1> QED BY <1>1, <1>2, TotalIsDots, FS_EmptySet

-----------------------------------------------------------------------------
(* Dislikes *)

\* A command that is about to add a dislike has made the row, and so far every dislike
\* that was added has been counted.
CountInv ==
    /\ reaction \in [DOMAIN reaction -> Nat]
    /\ votes \in [begun : Nat, counted : [Guilds -> Nat]]
    /\ \A g \in Guilds : vote[g].at = "add" => vote[g].id \in DOMAIN reaction
    /\ DislikesAreVotes

LEMMA CountInit == Init => CountInv
<1> SUFFICES ASSUME Init
             PROVE  CountInv
  OBVIOUS
<1> DEFINE none == [g \in Guilds |-> 0]
           empty == [id \in {} |-> 0]
<1>1. reaction = empty /\ votes = [begun |-> 0, counted |-> none] /\ vote = [g \in Guilds |-> NoVote]
  BY DEF Init
<1>2. Total(empty) = 0
  BY TotalOfNone, FS_EmptySet
<1>3. Total(none) = 0
  BY HistoryAssumption, TotalOfNone
<1>4. empty \in [DOMAIN empty -> Nat] /\ none \in [Guilds -> Nat]
  OBVIOUS
<1> HIDE DEF none, empty
<1>5. votes \in [begun : Nat, counted : [Guilds -> Nat]] /\ votes.counted = none
  BY <1>1, <1>4
<1>6. DislikesAreVotes
  BY <1>1, <1>2, <1>3, <1>5 DEF DislikesAreVotes
<1>7. \A g \in Guilds : vote[g].at # "add"
  BY <1>1 DEF NoVote
<1> QED BY <1>1, <1>4, <1>5, <1>6, <1>7 DEF CountInv

\* A row that is made counts for nothing.
LEMMA ReactCounts ==
    ASSUME HInv, Tables, CountInv, NEW g \in Guilds, React(g)
    PROVE  CountInv'
<1>1. IsFiniteSet(DOMAIN reaction)
  <2>1. IsFiniteSet(1..Len(playLog))
    BY FS_Interval DEF HInv
  <2> QED BY <2>1, FS_Subset DEF Tables
<1> DEFINE x == vote[g].id
           D == DOMAIN reaction
           h == [y \in D \union {x} |-> IF y = x THEN 0 ELSE reaction[y]]
<1>2. x \notin D /\ reaction' = h /\ UNCHANGED votes /\ vote' = [vote EXCEPT ![g].at = "add"]
  BY DEF React
<1>3. reaction \in [D -> Nat]
  BY DEF CountInv
<1>4. h \in [D \union {x} -> Nat]
  BY <1>3
<1>5. /\ \A k \in Guilds : vote'[k].id = vote[k].id
      /\ \A k \in Guilds \ {g} : vote'[k] = vote[k]
  BY <1>2 DEF Tables
<1> HIDE DEF x, D
<1>6. Total(h) = Total(reaction)
  BY <1>1, <1>2, <1>3, TotalStays DEF D
<1> HIDE DEF h
<1>7. DOMAIN reaction' = D \union {x} /\ reaction' \in [DOMAIN reaction' -> Nat]
  BY <1>2, <1>4
<1>8. ASSUME NEW k \in Guilds, vote'[k].at = "add"
      PROVE  vote'[k].id \in DOMAIN reaction'
  <2>1. CASE k = g
    BY <2>1, <1>5, <1>7 DEF x
  <2>2. CASE k # g
    BY <2>2, <1>5, <1>7, <1>8 DEF CountInv, D
  <2> QED BY <2>1, <2>2
<1>9. DislikesAreVotes'
  BY <1>2, <1>6 DEF CountInv, DislikesAreVotes
<1> QED BY <1>2, <1>7, <1>8, <1>9 DEF CountInv

\* A dislike and the report of it.
LEMMA DislikeCounts ==
    ASSUME HInv, Tables, CountInv, NEW g \in Guilds, Dislike(g)
    PROVE  CountInv'
<1>1. IsFiniteSet(DOMAIN reaction)
  <2>1. IsFiniteSet(1..Len(playLog))
    BY FS_Interval DEF HInv
  <2> QED BY <2>1, FS_Subset DEF Tables
<1> DEFINE x == vote[g].id
           D == DOMAIN reaction
           c == votes.counted
           h == [reaction EXCEPT ![x] = @ + 1]
           d == [c EXCEPT ![g] = @ + 1]
<1>2. /\ x \in D /\ reaction' = h /\ vote' = [vote EXCEPT ![g] = NoVote]
      /\ votes' = [votes EXCEPT !.counted = d]
  BY DEF Dislike, CountInv
<1>3. reaction \in [D -> Nat] /\ c \in [Guilds -> Nat]
  BY DEF CountInv
<1>4. h \in [D -> Nat] /\ d \in [Guilds -> Nat]
  <2>1. x \in D
    BY <1>2
  <2> HIDE DEF x, D, c
  <2> QED BY <1>3, <2>1
<1>5. vote'[g].at # "add" /\ \A k \in Guilds \ {g} : vote'[k] = vote[k]
  BY <1>2 DEF Tables, NoVote
<1> HIDE DEF x, D, c
<1>6. Total(h) = Total(reaction) + 1
  BY <1>1, <1>2, <1>3, TotalGrows DEF D
<1>7. Total(d) = Total(c) + 1
  BY <1>3, HistoryAssumption, TotalGrows
<1> HIDE DEF h, d
<1>8. votes' \in [begun : Nat, counted : [Guilds -> Nat]] /\ votes'.counted = d
  BY <1>2, <1>4 DEF CountInv
<1>9. DOMAIN reaction' = DOMAIN reaction /\ reaction' \in [DOMAIN reaction' -> Nat]
  BY <1>2, <1>4 DEF D
<1>10. \A k \in Guilds : vote'[k].at = "add" => vote'[k].id \in DOMAIN reaction'
  BY <1>5, <1>9 DEF CountInv
<1>11. DislikesAreVotes'
  BY <1>2, <1>6, <1>7, <1>8 DEF CountInv, DislikesAreVotes, c
<1> QED BY <1>8, <1>9, <1>10, <1>11 DEF CountInv

LEMMA CountStep == HInv /\ Tables /\ CountInv /\ [Next]_vars => CountInv'
<1> SUFFICES ASSUME HInv, Tables, CountInv, [Next]_vars
             PROVE  CountInv'
  OBVIOUS
<1>1. ASSUME UNCHANGED <<reaction, vote, votes>>
      PROVE  CountInv'
  BY <1>1 DEF CountInv, DislikesAreVotes
<1>2. ASSUME UNCHANGED reaction, UNCHANGED votes.counted, votes' \in [begun : Nat, counted : [Guilds -> Nat]],
             \A g \in Guilds : vote'[g] = vote[g] \/ vote'[g].at # "add"
      PROVE  CountInv'
  BY <1>2 DEF CountInv, DislikesAreVotes
<1>3. ASSUME NEW g \in Guilds, ReadLast(g)
      PROVE  CountInv'
  <2>1. UNCHANGED reaction /\ votes' = [votes EXCEPT !.begun = @ + 1]
    BY <1>3 DEF ReadLast
  <2>2. UNCHANGED votes.counted /\ votes' \in [begun : Nat, counted : [Guilds -> Nat]]
    BY <2>1 DEF CountInv
  <2>3. PICK i \in PlaysOf(g) : vote' = [vote EXCEPT ![g] = [at |-> "insert", id |-> playLog[i].meta]]
    BY <1>3 DEF ReadLast
  <2>4. \A k \in Guilds : vote'[k] = vote[k] \/ vote'[k].at # "add"
    BY <2>3 DEF Tables
  <2> QED BY <2>1, <2>2, <2>4, <1>2
<1>4. ASSUME NEW g \in Guilds, VoteFails(g)
      PROVE  CountInv'
  <2>1. UNCHANGED <<reaction, votes>> /\ vote' = [vote EXCEPT ![g] = NoVote]
    BY <1>4 DEF VoteFails
  <2>2. \A k \in Guilds : vote'[k] = vote[k] \/ vote'[k].at # "add"
    BY <2>1 DEF Tables, NoVote
  <2> QED BY <2>1, <2>2, <1>2 DEF CountInv
<1>5. CASE Restart
  <2>1. UNCHANGED <<reaction, votes>> /\ vote' = [g \in Guilds |-> NoVote]
    BY <1>5 DEF Restart
  <2>2. \A k \in Guilds : vote'[k].at # "add"
    BY <2>1 DEF NoVote
  <2> QED BY <2>1, <2>2, <1>2 DEF CountInv
<1>6. ASSUME NEW g \in Guilds, ReadLast(g) \/ VoteStep(g) \/ GuildIsKnown(g)
      PROVE  CountInv'
  <2>1. GuildIsKnown(g) => UNCHANGED <<reaction, vote, votes>>
    BY DEF GuildIsKnown
  <2> QED BY <1>1, <1>3, <1>4, <1>6, <2>1, ReactCounts, DislikeCounts DEF VoteStep
<1>7. (\E m \in Message : Send(m)) \/ WorkerStep \/ UNCHANGED vars =>
        UNCHANGED <<reaction, vote, votes>>
  BY DEF Send, WorkerStep, Receive, Select, Insert, InsertFails, UpsertUser, Log, LogFails, vars
<1> QED BY <1>1, <1>5, <1>6, <1>7 DEF Next

\* Every dislike that a command has reported is in the table and no other is, however the
\* commands of guilds, failures and restarts interleave: for any number of votes.
THEOREM DislikesCount == Spec => []DislikesAreVotes
<1>1. HInv /\ Tables /\ [Next]_vars => Tables'
  BY TablesFilled, TablesVoted DEF Next
<1>2. CountInv => DislikesAreVotes
  BY DEF CountInv
<1> QED BY <1>1, <1>2, TablesInit, HInvHolds, CountInit, CountStep, PTL DEF Spec
=============================================================================
