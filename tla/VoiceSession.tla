---------------------------- MODULE VoiceSession ----------------------------
(***************************************************************************)
(* The voice connection of one guild: songbird's registry of calls, the    *)
(* commands that join and leave (get_call_or_join_author, do_join,         *)
(* set_global_handlers, summon, leave), the handler of the bot's own voice *)
(* state updates, and the IdleHandler that disconnects an idle bot.        *)
(*                                                                         *)
(* A Call is an object that outlives its registration: TrackEndHandler     *)
(* holds an Arc of the call whose event task owns the handler, so a call   *)
(* that was given its handlers keeps its event task, and its IdleHandler,  *)
(* after manager.remove.  Calls are therefore numbered, and a handler acts *)
(* on whatever call the guild has when it runs.                            *)
(***************************************************************************)
EXTENDS Integers, Sequences, SequencesExt

CONSTANTS
    MaxCalls,    \* bound: how many Call objects are ever created
    Requests,    \* the command invocations, each run once
    Timeouts,    \* values GuildSettings.timeout may have at a join, in seconds
    Exempt       \* values GuildSettings.premium may have at a join

ASSUME VoiceAssumption ==
    /\ MaxCalls \in Nat \ {0}
    /\ Timeouts \subseteq Nat
    /\ Exempt \subseteq BOOLEAN

VARIABLES
    registered,  \* the guild's entry in songbird.calls: a call or NoCall
    made,        \* how many calls were created
    link,        \* per call: "none", "joining", "failed", "on" or "cut"; "failed"
                 \* is an attempt that timed out and that songbird leaves in
                 \* place, "cut" a call that was left without Discord knowing
    playing,     \* per call: some track of its event task is in PlayMode::Play
    endHandlers, \* per call: number of TrackEndHandlers among its global events
    idle,        \* per call: its IdleHandlers, in the order they were added
    removing,    \* calls whose IdleHandler is inside manager.remove
    req,         \* per request: [kind, pc, call]
    gone,        \* per call: undelivered voice state updates without a channel
    gonePc       \* "none", or "removing": such an update is inside remove

vars == <<registered, made, link, playing, endHandlers, idle, removing, req,
          gone, gonePc>>

NoCall == 0
Calls == 1..MaxCalls
Period == 60                        \* Event::Periodic(Duration::from_secs(60))
Kinds == {"play", "summon", "leave"}

Handler(limit, premium) == [limit |-> limit, noTimeout |-> premium, count |-> 0]

Init ==
    /\ registered = NoCall
    /\ made = 0
    /\ link = [c \in Calls |-> "none"]
    /\ playing = [c \in Calls |-> FALSE]
    /\ endHandlers = [c \in Calls |-> 0]
    /\ idle = [c \in Calls |-> <<>>]
    /\ removing = {}
    /\ req = [r \in Requests |-> [kind |-> "none", pc |-> "new", call |-> NoCall]]
    /\ gone = [c \in Calls |-> 0]
    /\ gonePc = "none"

At(r, pc) == req[r].pc = pc

Goto(r, pc, call) ==
    req' = [req EXCEPT ![r] = [kind |-> @.kind, pc |-> pc, call |-> call]]

-----------------------------------------------------------------------------
(* songbird's manager *)

\* The first half of manager.remove: leave the registered call.  The gateway
\* answers with a voice state update without a channel if the bot was in one.
LeaveCall ==
    /\ registered # NoCall
    /\ link' = [link EXCEPT ![registered] = "none"]
    /\ gone' = IF link[registered] \in {"on", "cut"}
               THEN [gone EXCEPT ![registered] = @ + 1] ELSE gone

\* manager.remove fails: the call is left on our side, the gateway cannot be
\* told, and the error keeps the guild's entry.
LeaveFails ==
    /\ registered # NoCall
    /\ link' = [link EXCEPT ![registered] =
                  IF @ \in {"on", "cut"} THEN "cut" ELSE "none"]

\* The second half: drop the guild's entry, whichever call it now holds.
DropEntry == registered' = NoCall

\* manager.join up to its first await: get_or_insert, then Call::join.
EnterJoin(r) ==
    /\ At(r, "join")
    /\ \/ registered # NoCall /\ UNCHANGED <<registered, made>>
       \/ /\ registered = NoCall /\ made < MaxCalls
          /\ made' = made + 1 /\ registered' = made + 1
    /\ link' = [link EXCEPT ![registered'] = IF @ = "on" THEN "on" ELSE "joining"]
    /\ Goto(r, "wait", registered')
    /\ UNCHANGED <<playing, endHandlers, idle, removing, gone, gonePc>>

\* The gateway and the voice server complete the connection of a call.
GatewayConnects(c) ==
    /\ link[c] = "joining"
    /\ link' = [link EXCEPT ![c] = "on"]
    /\ UNCHANGED <<registered, made, playing, endHandlers, idle, removing, req,
                   gone, gonePc>>

\* The attempt fails or times out; nobody retries it.
GatewayFails(c) ==
    /\ link[c] = "joining"
    /\ link' = [link EXCEPT ![c] = "failed"]
    /\ UNCHANGED <<registered, made, playing, endHandlers, idle, removing, req,
                   gone, gonePc>>

\* Somebody disconnects the bot from its channel.
Kicked(c) ==
    /\ link[c] \in {"on", "cut"}
    /\ link' = [link EXCEPT ![c] = "none"]
    /\ gone' = [gone EXCEPT ![c] = @ + 1]
    /\ UNCHANGED <<registered, made, playing, endHandlers, idle, removing, req,
                   gonePc>>

\* The last playing track of a connected call ends.
SongsEnd(c) ==
    /\ playing[c] /\ link[c] = "on"
    /\ playing' = [playing EXCEPT ![c] = FALSE]
    /\ UNCHANGED <<registered, made, link, endHandlers, idle, removing, req,
                   gone, gonePc>>

-----------------------------------------------------------------------------
(* Commands *)

\* play and the other music commands: get_call_or_join_author.
GetCallOrJoin(r) ==
    /\ At(r, "new")
    /\ req' = [req EXCEPT ![r] =
                 [kind |-> "play", call |-> registered,
                  pc |-> IF registered = NoCall THEN "join" ELSE "use"]]
    /\ UNCHANGED <<registered, made, link, playing, endHandlers, idle, removing,
                   gone, gonePc>>

\* summon: a connected call refuses, an unconnected one is returned as it is.
Summon(r) ==
    /\ At(r, "new")
    /\ req' = [req EXCEPT ![r] =
                 [kind |-> "summon", call |-> registered,
                  pc |-> IF registered = NoCall THEN "join"
                         ELSE IF link[registered] = "on" THEN "refused"
                         ELSE "done"]]
    /\ UNCHANGED <<registered, made, link, playing, endHandlers, idle, removing,
                   gone, gonePc>>

\* do_join, after manager.join succeeded.
JoinSucceeds(r) ==
    /\ At(r, "wait") /\ link[req[r].call] = "on"
    /\ Goto(r, "handlers", req[r].call)
    /\ UNCHANGED <<registered, made, link, playing, endHandlers, idle, removing,
                   gone, gonePc>>

\* Mutant: do_join propagates the error of manager.join.
JoinFailsHard(r) ==
    /\ At(r, "wait") /\ link[req[r].call] \in {"failed", "none", "cut"}
    /\ Goto(r, "failed", NoCall)
    /\ UNCHANGED <<registered, made, link, playing, endHandlers, idle, removing,
                   gone, gonePc>>

\* Mutant: the guild's call is not looked up again.
JoinFailsUnchecked(r) ==
    /\ At(r, "wait") /\ link[req[r].call] \in {"failed", "none", "cut"}
    /\ Goto(r, "handlers", registered)
    /\ UNCHANGED <<registered, made, link, playing, endHandlers, idle, removing,
                   gone, gonePc>>

\* do_join, after manager.join failed (timed out, or the call left meanwhile):
\* whatever call the guild has is used as if it had been joined.
JoinFails(r) ==
    /\ At(r, "wait") /\ link[req[r].call] \in {"failed", "none", "cut"}
    /\ IF registered # NoCall THEN Goto(r, "handlers", registered)
                              ELSE Goto(r, "failed", NoCall)
    /\ UNCHANGED <<registered, made, link, playing, endHandlers, idle, removing,
                   gone, gonePc>>

\* Mutant: remove_all_global_events is not called.
SetGlobalHandlersAdds(r) ==
    /\ At(r, "handlers")
    /\ LET c == req[r].call IN
       /\ \E timeout \in Timeouts, premium \in Exempt :
            idle' = [idle EXCEPT ![c] =
                       IF timeout > 0 THEN Append(@, Handler(timeout, premium)) ELSE @]
       /\ endHandlers' = [endHandlers EXCEPT ![c] = @ + 1]
       /\ Goto(r, IF req[r].kind = "play" THEN "use" ELSE "done", c)
    /\ UNCHANGED <<registered, made, link, playing, removing, gone, gonePc>>

\* set_global_handlers, under the call's lock.
SetGlobalHandlers(r) ==
    /\ At(r, "handlers")
    /\ LET c == req[r].call IN
       /\ \E timeout \in Timeouts, premium \in Exempt :
            idle' = [idle EXCEPT ![c] =
                       IF timeout > 0 THEN <<Handler(timeout, premium)>> ELSE <<>>]
       /\ endHandlers' = [endHandlers EXCEPT ![c] = 1]
       /\ Goto(r, IF req[r].kind = "play" THEN "use" ELSE "done", c)
    /\ UNCHANGED <<registered, made, link, playing, removing, gone, gonePc>>

\* The command enqueues on the call it was given; the track is in PlayMode::Play
\* even on a call that is not connected.
Use(r) ==
    /\ At(r, "use")
    /\ playing' = [playing EXCEPT ![req[r].call] = TRUE]
    /\ Goto(r, "done", req[r].call)
    /\ UNCHANGED <<registered, made, link, endHandlers, idle, removing, gone, gonePc>>

\* leave: manager.remove, whose error is returned, or "not connected" if the
\* guild has no call.
Leave(r) ==
    /\ At(r, "new")
    /\ \/ /\ LeaveCall
          /\ req' = [req EXCEPT ![r] =
                       [kind |-> "leave", pc |-> "removing", call |-> registered]]
       \/ /\ LeaveFails /\ UNCHANGED gone
          /\ req' = [req EXCEPT ![r] =
                       [kind |-> "leave", pc |-> "failed", call |-> registered]]
       \/ /\ registered = NoCall
          /\ req' = [req EXCEPT ![r] = [kind |-> "leave", pc |-> "done", call |-> NoCall]]
          /\ UNCHANGED <<link, gone>>
    /\ UNCHANGED <<registered, made, playing, endHandlers, idle, removing, gonePc>>

LeaveReturns(r) ==
    /\ At(r, "removing")
    /\ DropEntry
    /\ Goto(r, "done", req[r].call)
    /\ UNCHANGED <<made, link, playing, endHandlers, idle, removing, gone, gonePc>>

-----------------------------------------------------------------------------
(* voice_state_update of the bot itself, without a channel; an error of the *)
(* removal is dropped (.ok())                                               *)

VoiceStateUpdate(c) ==
    /\ gone[c] > 0 /\ gonePc = "none"
    /\ \/ /\ registered # NoCall
          /\ link' = [link EXCEPT ![registered] = "none"]
          /\ gone' = [[gone EXCEPT ![c] = @ - 1] EXCEPT ![registered] =
                        IF link[registered] \in {"on", "cut"} THEN @ + 1 ELSE @]
          /\ gonePc' = "removing"
       \/ /\ LeaveFails
          /\ gone' = [gone EXCEPT ![c] = @ - 1]
          /\ UNCHANGED gonePc
       \/ /\ registered = NoCall
          /\ gone' = [gone EXCEPT ![c] = @ - 1]
          /\ UNCHANGED <<link, gonePc>>
    /\ UNCHANGED <<registered, made, playing, endHandlers, idle, removing, req>>

VoiceStateUpdateReturns ==
    /\ gonePc = "removing"
    /\ DropEntry
    /\ gonePc' = "none"
    /\ UNCHANGED <<made, link, playing, endHandlers, idle, removing, req, gone>>

-----------------------------------------------------------------------------
(* IdleHandler, fired every Period seconds by the event task of its call *)

HasIdleHandler(c) == c \notin removing /\ idle[c] # <<>>

\* Mutant: a playing track stops the count but does not reset it.
IdleResetsNothing(c) ==
    /\ HasIdleHandler(c) /\ playing[c]
    /\ UNCHANGED vars

\* A track is playing on this call: reset the counter.
IdleResets(c) ==
    /\ HasIdleHandler(c) /\ playing[c]
    /\ idle' = [idle EXCEPT ![c] = << [Head(@) EXCEPT !.count = 0] >>]
    /\ UNCHANGED <<registered, made, link, playing, endHandlers, removing, req,
                   gone, gonePc>>

\* The clause of the `if`: fetch_add returns the count before the addition.
TimesOut(h) == ~h.noTimeout /\ h.limit > 0 /\ h.count >= h.limit

\* Mutant: the period is stored and not added.
CountedOnce(h) ==
    IF h.noTimeout \/ h.limit = 0 THEN h ELSE [h EXCEPT !.count = Period]

Counted(h) ==
    IF h.noTimeout \/ h.limit = 0 THEN h ELSE [h EXCEPT !.count = @ + Period]

IdleCounts(c) ==
    /\ HasIdleHandler(c) /\ ~playing[c] /\ ~TimesOut(Head(idle[c]))
    /\ idle' = [idle EXCEPT ![c] = << Counted(Head(@)) >>]
    /\ UNCHANGED <<registered, made, link, playing, endHandlers, removing, req,
                   gone, gonePc>>

\* Timed out: manager.remove(guild_id) removes the call the guild has now.
IdleRemoves(c) ==
    /\ HasIdleHandler(c) /\ ~playing[c] /\ TimesOut(Head(idle[c]))
    /\ LeaveCall
    /\ removing' = removing \union {c}
    /\ idle' = [idle EXCEPT ![c] = << Counted(Head(@)) >>]
    /\ UNCHANGED <<registered, made, playing, endHandlers, req, gonePc>>

\* JoinError::NoCall: the handler cancels itself.
IdleCancels(c) ==
    /\ HasIdleHandler(c) /\ ~playing[c] /\ TimesOut(Head(idle[c]))
    /\ registered = NoCall
    /\ idle' = [idle EXCEPT ![c] = <<>>]
    /\ UNCHANGED <<registered, made, link, playing, endHandlers, removing, req,
                   gone, gonePc>>

\* Any other error of the removal is logged, and the handler cancels itself: the
\* guild keeps its call.
IdleRemoveFails(c) ==
    /\ HasIdleHandler(c) /\ ~playing[c] /\ TimesOut(Head(idle[c]))
    /\ LeaveFails
    /\ idle' = [idle EXCEPT ![c] = <<>>]
    /\ UNCHANGED <<registered, made, playing, endHandlers, removing, req, gone, gonePc>>

\* The removal is done; the handler stays unless the alert cannot be sent.  One
\* that was installed meanwhile has counted nothing yet, and is not cancelled.
IdleRemoveReturns(c) ==
    /\ c \in removing
    /\ DropEntry
    /\ removing' = removing \ {c}
    /\ \/ UNCHANGED idle
       \/ idle' = [idle EXCEPT ![c] = IF @ # <<>> /\ Head(@).count = 0 THEN @ ELSE <<>>]
    /\ UNCHANGED <<made, link, playing, endHandlers, req, gone, gonePc>>

IdleTick(c) == \/ IdleResets(c) \/ IdleCounts(c) \/ IdleRemoves(c)
               \/ IdleCancels(c) \/ IdleRemoveFails(c)

-----------------------------------------------------------------------------
Command(r) ==
    \/ GetCallOrJoin(r) \/ Summon(r) \/ Leave(r)
    \/ EnterJoin(r) \/ JoinSucceeds(r) \/ JoinFails(r)
    \/ SetGlobalHandlers(r) \/ Use(r) \/ LeaveReturns(r)

GatewayAnswers(c) == GatewayConnects(c) \/ GatewayFails(c)

Environment(c) == GatewayAnswers(c) \/ Kicked(c) \/ SongsEnd(c)

Next ==
    \/ \E r \in Requests : Command(r)
    \/ \E c \in Calls : Environment(c) \/ VoiceStateUpdate(c)
                        \/ IdleTick(c) \/ IdleRemoveReturns(c)
    \/ VoiceStateUpdateReturns

Spec == Init /\ [][Next]_vars

\* A command that began runs on (tokio polls every ready task), a join is
\* answered or times out, the periodic event of a live call keeps firing, and a
\* removal that began returns.
Fairness ==
    /\ \A r \in Requests :
         WF_vars(EnterJoin(r) \/ JoinSucceeds(r) \/ JoinFails(r)
                 \/ SetGlobalHandlers(r) \/ Use(r) \/ LeaveReturns(r))
    /\ \A c \in Calls : /\ WF_vars(GatewayAnswers(c))
                         /\ WF_vars(IdleTick(c)) /\ WF_vars(IdleRemoveReturns(c))
    /\ WF_vars(VoiceStateUpdateReturns)

FairSpec == Spec /\ Fairness

-----------------------------------------------------------------------------
Pcs == {"new", "join", "wait", "handlers", "use", "removing", "done", "refused",
        "failed"}

\* The state is well formed: requests and the registry name calls that exist,
\* and a command past manager.join has a call to use, although the guild may
\* have lost it when a join fails.
TypeOK ==
    /\ made \in 0..MaxCalls
    /\ registered \in 0..made
    /\ link \in [Calls -> {"none", "joining", "failed", "on", "cut"}]
    /\ playing \in [Calls -> BOOLEAN]
    /\ endHandlers \in [Calls -> Nat]
    /\ idle \in [Calls -> Seq([limit : Timeouts, noTimeout : Exempt, count : Nat])]
    /\ removing \subseteq Calls
    /\ req \in [Requests -> [kind : Kinds \union {"none"}, pc : Pcs, call : 0..MaxCalls]]
    /\ \A r \in Requests : /\ req[r].call <= made
                           /\ req[r].pc \in {"wait", "handlers", "use"} => req[r].call # NoCall
    /\ gone \in [Calls -> Nat]
    /\ gonePc \in {"none", "removing"}

\* However many commands race to join, a call has one TrackEndHandler (two
\* would autoplay twice after each song) and one IdleHandler (two would count
\* the idle time twice): set_global_handlers clears before it adds, all under
\* the call's lock.
OneHandlerEach ==
    \A c \in Calls : endHandlers[c] <= 1 /\ Len(idle[c]) <= 1
=============================================================================
