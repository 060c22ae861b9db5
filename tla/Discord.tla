------------------------------ MODULE Discord ------------------------------
(***************************************************************************)
(* What the services of the bot have in common: the guilds, channels and   *)
(* users that Discord knows, and the tasks in which handlers and commands  *)
(* run.  Discord itself is not modelled: a request to it may succeed or    *)
(* fail, and what it sends the bot is a nondeterministic choice.           *)
(***************************************************************************)
EXTENDS Naturals, FiniteSets, Sequences, TLC

CONSTANTS
    Guilds,    \* guilds the bot is in
    Channels,  \* channels of a guild
    Users,     \* users of Discord
    Tasks      \* handlers or commands that run at the same time

\* None stands for the absence of a channel or of a task.
None == "none"

ASSUME NoneAssumption == None \notin Channels \union Tasks

\* A partial function changed at one point.
Put(map, key, value) ==
    [k \in DOMAIN map \union {key} |-> IF k = key THEN value ELSE map[k]]

\* A partial function without some points.
Drop(map, keys) == [k \in DOMAIN map \ keys |-> map[k]]
=============================================================================
