---------------------------- MODULE MessageCache ----------------------------
(***************************************************************************)
(* The messages the bot has sent, as far as it remembers them, and clean,  *)
(* which deletes the old ones.  The cache of a guild (of a user, for direct *)
(* messages) is ordered by the time at which a message was put there, and   *)
(* nothing is ever taken out of it: clean works on a copy.                  *)
(***************************************************************************)
EXTENDS Discord

CONSTANTS
    Writers,     \* users who write to the bot directly
    MaxCommands  \* bound: commands that are run

\* The bound is a number.
ASSUME CommandsAssumption == MaxCommands \in Nat

VARIABLES
    messages,  \* what the bot has sent: where, and which command deleted it
    cached,    \* id_cache_map: per guild or user the numbers of messages, oldest first
    old,       \* per guild or user: how many of them are older than CHAT_CLEANUP_SECONDS
    jobs,      \* per task: the command it runs, or the last one
    commands   \* commands so far

messageVars == <<messages, cached, old, jobs, commands>>

\* get_cache_id.
CacheIds == Guilds \union Writers

Here == 0                    \* a message that nobody has deleted
Others == MaxCommands + 1    \* deleted by a moderator, or not counted
NoJob == [at |-> "idle", no |-> Here, place |-> None, message |-> 0, copies |-> 0,
          left |-> 0, count |-> 0, reported |-> FALSE]

MessageInit ==
    /\ messages = <<>>
    /\ cached = [id \in CacheIds |-> <<>>]
    /\ old = [id \in CacheIds |-> 0]
    /\ jobs = [t \in Tasks |-> NoJob]
    /\ commands = 0

-----------------------------------------------------------------------------
JobAt(t, place) == jobs[t].at = place
Turn(t, changed) == jobs' = [jobs EXCEPT ![t] = changed]
Drops(t) == Turn(t, IF jobs[t].reported THEN [jobs[t] EXCEPT !.at = "idle"] ELSE NoJob)

Start == commands < MaxCommands /\ commands' = commands + 1
Send(place) == messages' = Append(messages, [place |-> place, gone |-> Here])
Delete(m, by) == messages' = [messages EXCEPT ![m].gone = by]

\* How often a message is put into the cache: what say sends is not, send_message does it,
\* and skip does it once more with the message that it gets back.
Copies(how) == CASE how = "say" -> 0 [] how = "reply" -> 1 [] how = "skip" -> 2

\* send_message and send_message_owned of a command.
SendMessage(t, place, how) ==
    /\ JobAt(t, "idle") /\ Start
    /\ place \in Guilds \/ how # "skip"
    /\ Send(place)
    /\ Turn(t, IF Copies(how) = 0 THEN NoJob
               ELSE [NoJob EXCEPT !.at = "cache", !.no = commands + 1, !.place = place,
                     !.message = Len(messages) + 1, !.copies = Copies(how)])
    /\ UNCHANGED <<cached, old>>

\* into_message, then add_msg_to_cache_ts with the time of now.
AddMsgToCache(t) ==
    /\ JobAt(t, "cache")
    /\ cached' = [cached EXCEPT ![jobs[t].place] = Append(@, jobs[t].message)]
    /\ IF jobs[t].copies = 1 THEN Drops(t) ELSE Turn(t, [jobs[t] EXCEPT !.copies = @ - 1])
    /\ UNCHANGED <<messages, old, commands>>

IntoMessageFails(t) ==
    /\ JobAt(t, "cache") /\ Drops(t)
    /\ UNCHANGED <<messages, cached, old, commands>>

-----------------------------------------------------------------------------
(* clean_internal *)

\* The cache of the guild is copied, and a status is shown; without a cache it is an error.
Clean(t, g) ==
    /\ JobAt(t, "idle") /\ Start
    /\ IF cached[g] = <<>> THEN UNCHANGED <<messages, jobs>>
       ELSE /\ Send(g)
            /\ Turn(t, [NoJob EXCEPT !.at = "sweep", !.no = commands + 1, !.place = g,
                        !.message = Len(messages) + 1, !.left = Len(cached[g])])
    /\ UNCHANGED <<cached, old>>

\* The newest of the copy: when it is still young the sweep is over.
IsOld(t) == jobs[t].left > 0 /\ jobs[t].left <= old[jobs[t].place]

SweepEnds(t) ==
    /\ JobAt(t, "sweep") /\ ~IsOld(t)
    /\ Turn(t, [jobs[t] EXCEPT !.at = "finish"])
    /\ UNCHANGED <<messages, cached, old, commands>>

\* It is counted and named in the status before it is deleted.
EditStatus(t) ==
    /\ JobAt(t, "sweep") /\ IsOld(t) /\ messages[jobs[t].message].gone = Here
    /\ Turn(t, [jobs[t] EXCEPT !.at = "delete", !.count = @ + 1])
    /\ UNCHANGED <<messages, cached, old, commands>>

\* Mutant: a message that is gone already does not stop the sweep.
DeleteOldRegardless(t) ==
    /\ JobAt(t, "delete")
    /\ LET m == cached[jobs[t].place][jobs[t].left]
       IN  IF messages[m].gone = Here THEN Delete(m, jobs[t].no) ELSE UNCHANGED messages
    /\ Turn(t, [jobs[t] EXCEPT !.at = "sweep", !.left = @ - 1])
    /\ UNCHANGED <<cached, old, commands>>

DeleteOld(t) ==
    /\ JobAt(t, "delete")
    /\ LET m == cached[jobs[t].place][jobs[t].left]
       IN  messages[m].gone = Here /\ Delete(m, jobs[t].no)
    /\ Turn(t, [jobs[t] EXCEPT !.at = "sweep", !.left = @ - 1])
    /\ UNCHANGED <<cached, old, commands>>

DeleteStatus(t) ==
    /\ JobAt(t, "finish") /\ messages[jobs[t].message].gone = Here
    /\ Delete(jobs[t].message, Others)
    /\ Turn(t, [jobs[t] EXCEPT !.at = "report"])
    /\ UNCHANGED <<cached, old, commands>>

\* The reply with the count is cached like any other.
Report(t) ==
    /\ JobAt(t, "report")
    /\ Send(jobs[t].place)
    /\ Turn(t, [jobs[t] EXCEPT !.at = "cache", !.copies = 1, !.message = Len(messages) + 1,
                !.reported = TRUE])
    /\ UNCHANGED <<cached, old, commands>>

\* Discord refuses a call, as it does for a message that is gone: the command ends.
Refused(t) ==
    /\ jobs[t].at \in {"sweep", "delete", "finish", "report"} /\ Drops(t)
    /\ UNCHANGED <<messages, cached, old, commands>>

-----------------------------------------------------------------------------
\* The TTL of the oldest young entry passes.
Ages(id) ==
    /\ old[id] < Len(cached[id]) /\ old' = [old EXCEPT ![id] = @ + 1]
    /\ UNCHANGED <<messages, cached, jobs, commands>>

Moderate(m) ==
    /\ messages[m].gone = Here /\ Delete(m, Others)
    /\ UNCHANGED <<cached, old, jobs, commands>>

MessageNext ==
    \/ \E t \in Tasks :
         \/ \E place \in CacheIds, how \in {"say", "reply", "skip"} : SendMessage(t, place, how)
         \/ \E g \in Guilds : Clean(t, g)
         \/ AddMsgToCache(t) \/ IntoMessageFails(t) \/ SweepEnds(t) \/ EditStatus(t)
         \/ DeleteOld(t) \/ DeleteStatus(t) \/ Report(t) \/ Refused(t)
    \/ \E id \in CacheIds : Ages(id)
    \/ \E m \in DOMAIN messages : Moderate(m)

MessageSpec == MessageInit /\ [][MessageNext]_messageVars

-----------------------------------------------------------------------------
\* A message and a command.
Message == [place : CacheIds, gone : 0..Others]
Job == [at : {"idle", "cache", "sweep", "delete", "finish", "report"}, no : 0..MaxCommands,
        place : CacheIds \union {None}, message : Nat, copies : Nat, left : Nat, count : Nat,
        reported : BOOLEAN]

\* What is cached was sent there, what is old is the front of the cache, and jobs are well
\* formed.
MessageTypeOK ==
    /\ messages \in Seq(Message) /\ cached \in [CacheIds -> Seq(Nat)]
    /\ DOMAIN old = CacheIds
    /\ \A id \in CacheIds :
         /\ old[id] \in 0..Len(cached[id])
         /\ \A i \in DOMAIN cached[id] :
              cached[id][i] \in DOMAIN messages /\ messages[cached[id][i]].place = id
    /\ DOMAIN jobs = Tasks /\ \A t \in Tasks : jobs[t] \in Job
    /\ commands \in 0..MaxCommands

\* The count that clean reports is the number of messages that it deleted itself, all of
\* them cached for the guild and past their time; what another clean, a moderator or an
\* earlier copy of the entry has already deleted is not among them.
CleanReportsAreTrue ==
    \A t \in Tasks :
      jobs[t].reported =>
        LET g == jobs[t].place
            deleted == {m \in DOMAIN messages : messages[m].gone = jobs[t].no}
        IN  /\ Cardinality(deleted) = jobs[t].count
            /\ deleted \subseteq {cached[g][i] : i \in 1..old[g]}
=============================================================================
