--------------------------- MODULE MCVoiceSession ---------------------------
(***************************************************************************)
(* Model checking of VoiceSession: its properties, a history variable that *)
(* counts quiet periods, and constants small enough for TLC.               *)
(***************************************************************************)
EXTENDS VoiceSession, FiniteSets, TLC

CONSTANTS
    r1, r2, r3,
    MaxQuiet           \* bound: quiet periods are counted up to this many

TwoRequests == {r1, r2}
ThreeRequests == {r1, r2, r3}
Symmetry == Permutations(ThreeRequests)

\* 90 s is no multiple of the 60 s period; 0 disables the handler.
NinetySeconds == {90}
MaybeDisabled == {0, 90}
NotExempt == {FALSE}
MaybeExempt == BOOLEAN

\* The count of quiet periods reaches every limit.
ASSUME QuietAssumption ==
    /\ MaxQuiet \in Nat
    /\ \A timeout \in Timeouts : timeout <= MaxQuiet * Period

\* Periods in a row, up to the present, in which the handler of a call saw no
\* track playing; the handler is new when its command has just installed it.
VARIABLE quiet

\* Calls whose IdleHandler has cancelled itself because it could not remove the
\* guild's call, and that no command has given a new one since.
VARIABLE stuck

mcvars == <<vars, quiet, stuck>>

MCInit == Init /\ quiet = [c \in Calls |-> 0] /\ stuck = {}

Installs(c) == \E r \in Requests : SetGlobalHandlers(r) /\ req[r].call = c

MCNext ==
    /\ Next
    /\ quiet' = [c \in Calls |->
         IF IdleResets(c) \/ Installs(c) THEN 0
         ELSE IF IdleCounts(c) \/ IdleRemoves(c)
              THEN IF quiet[c] < MaxQuiet THEN quiet[c] + 1 ELSE MaxQuiet
         ELSE quiet[c]]
    /\ stuck' = {c \in Calls : IdleRemoveFails(c) \/ (c \in stuck /\ ~Installs(c))}

MCSpec == MCInit /\ [][MCNext]_mcvars
MCFairSpec == MCSpec /\ Fairness

-----------------------------------------------------------------------------
\* An IdleHandler gives up only after it has seen no track playing for longer
\* than its limit, without a break: a period with music starts it afresh.
IdlePatience ==
    [][\A c \in Calls : IdleRemoves(c) \/ IdleRemoveFails(c) =>
                         quiet[c] * Period >= Head(idle[c]).limit]_mcvars

\* A call on which some command has put music, and which stays registered, gets
\* its TrackEndHandler even if the command that created it fails to connect, so
\* autoplay, votes and autopause work on it.
PlayedCallGetsHandlers ==
    \A c \in Calls :
      (playing[c] /\ registered = c) ~> (endHandlers[c] = 1 \/ registered # c)

\* With a timeout set and no premium, the bot does not sit in a silent call for
\* ever: again and again the call is gone or a song is on, unless songbird has
\* refused its removal to the IdleHandler, which does not try again.
IdleCallLeaves == \A c \in Calls : []<>(registered # c \/ playing[c] \/ c \in stuck)
=============================================================================
