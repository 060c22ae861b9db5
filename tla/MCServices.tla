----------------------------- MODULE MCServices -----------------------------
(***************************************************************************)
(* The services of the bot that share no state, checked one at a time: a   *)
(* behaviour picks one of them and then takes steps of that one only.      *)
(***************************************************************************)
EXTENDS EventLog, GuildAccess, VoteService, TrackQueue, GuildProfile, PlayCommand, MessageCache,
        Brainfuck, Playlists

CONSTANTS c1, c2

VARIABLE part   \* the service that runs

vars == <<part, eventVars, accessVars, voteVars, trackVars, profileVars, playVars, messageVars,
          bfVars, playlistVars>>

\* One guild announces joins in their own channel and ignores the channel for the rest;
\* the other one ignores nothing.
LogRows ==
    {[all |-> c1, server |-> None, joinLeave |-> c2, ignored |-> {c1}],
     [all |-> c1, server |-> c2, joinLeave |-> c2, ignored |-> {}]}

Init ==
    /\ part \in {"events", "access", "votes", "tracks", "profile", "play", "messages", "bf", "playlists"}
    /\ BfInit /\ (part # "bf" => code = <<>> /\ input = <<>>)
    /\ EventInit
    /\ logRows \in IF part = "events" THEN [Guilds -> LogRows] ELSE [Guilds -> {FreshSetting}]
    /\ AccessInit
    /\ VoteInit
    /\ TrackInit
    /\ ProfileInit
    /\ PlayInit
    /\ PlaylistInit /\ (part # "playlists" => known = {})
    /\ MessageInit

EventStep ==
    /\ part = "events" /\ EventNext
    /\ UNCHANGED <<part, accessVars, voteVars, trackVars, profileVars, playVars, messageVars, bfVars, playlistVars>>

AccessStep ==
    /\ part = "access" /\ AccessNext
    /\ UNCHANGED <<part, eventVars, voteVars, trackVars, profileVars, playVars, messageVars, bfVars, playlistVars>>

VoteStep ==
    /\ part = "votes" /\ VoteNext
    /\ UNCHANGED <<part, eventVars, accessVars, trackVars, profileVars, playVars, messageVars, bfVars, playlistVars>>

TrackStep ==
    /\ part = "tracks" /\ TrackNext
    /\ UNCHANGED <<part, eventVars, accessVars, voteVars, profileVars, playVars, messageVars, bfVars, playlistVars>>

ProfileStep ==
    /\ part = "profile" /\ ProfileNext
    /\ UNCHANGED <<part, eventVars, accessVars, voteVars, trackVars, playVars, messageVars, bfVars, playlistVars>>

PlayStep ==
    /\ part = "play" /\ PlayNext
    /\ UNCHANGED <<part, eventVars, accessVars, voteVars, trackVars, profileVars, messageVars, bfVars, playlistVars>>

MessageStep ==
    /\ part = "messages" /\ MessageNext
    /\ UNCHANGED <<part, eventVars, accessVars, voteVars, trackVars, profileVars, playVars, bfVars, playlistVars>>

BfStep ==
    /\ part = "bf" /\ BfNext
    /\ UNCHANGED <<part, eventVars, accessVars, voteVars, trackVars, profileVars, playVars, messageVars, playlistVars>>

PlaylistStep ==
    /\ part = "playlists" /\ PlaylistNext
    /\ UNCHANGED <<part, eventVars, accessVars, voteVars, trackVars, profileVars, playVars, messageVars, bfVars>>

Next == EventStep \/ AccessStep \/ VoteStep \/ TrackStep \/ ProfileStep \/ PlayStep \/ MessageStep
          \/ BfStep \/ PlaylistStep

Fairness == \A t \in Tasks : WF_eventVars(Delivery(t))

Spec == Init /\ [][Next]_vars /\ Fairness

\* Every service's variables are well formed.
ServicesTypeOK == EventTypeOK /\ AccessTypeOK /\ VoteTypeOK /\ TrackTypeOK /\ ProfileTypeOK
                  /\ PlayTypeOK /\ PlaylistTypeOK /\ BfTypeOK /\ MessageTypeOK
=============================================================================
