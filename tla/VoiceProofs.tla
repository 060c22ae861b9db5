---------------------------- MODULE VoiceProofs ----------------------------
(***************************************************************************)
(* For any number of calls, requests and settings: the state stays well    *)
(* formed, and a call never has more than one TrackEndHandler or more than *)
(* one IdleHandler, which gives up only after a quiet time as long as its  *)
(* limit.                                                                  *)
(***************************************************************************)
EXTENDS MCVoiceSession, TLAPS

Sound == [limit : Timeouts, noTimeout : Exempt, count : Nat]

AtMostOne == {<<>>} \union {<<h>> : h \in Sound}

\* The inductive invariant.  It says more than TypeOK of the handlers (a call has
\* none, or one that is sound) and of requests (past manager.join they hold a
\* call, so the handlers they install are those of some call).
IdleOK == idle \in [Calls -> AtMostOne]

EndOK == endHandlers \in [Calls -> 0..1]

RegistryOK ==
    /\ made \in 0..MaxCalls
    /\ registered \in 0..made
    /\ link \in [Calls -> {"none", "joining", "failed", "on", "cut"}]
    /\ gone \in [Calls -> Nat]
    /\ playing \in [Calls -> BOOLEAN]
    /\ removing \subseteq Calls
    /\ gonePc \in {"none", "removing"}

RequestsOK ==
    /\ req \in [Requests -> [kind : Kinds \union {"none"}, pc : Pcs, call : 0..MaxCalls]]
    /\ \A r \in Requests : req[r].call <= made
    /\ \A r \in Requests : req[r].pc \in {"wait", "handlers", "use"} => req[r].call # 0

VInv == IdleOK /\ EndOK /\ RegistryOK /\ RequestsOK

LEMMA SoundSequences ==
    /\ <<>> \in AtMostOne
    /\ \A h \in Sound : <<h>> \in AtMostOne
    /\ \A s \in AtMostOne : s # <<>> => Head(s) \in Sound
BY DEF AtMostOne

\* Resetting or advancing the counter of a sound handler keeps it sound.
LEMMA CountedIsSound ==
    ASSUME NEW h \in Sound
    PROVE  Counted(h) \in Sound /\ [h EXCEPT !.count = 0] \in Sound
<1> USE VoiceAssumption DEF Sound, Period
<1>1. h.count + Period \in Nat
  OBVIOUS
<1>2. [h EXCEPT !.count = @ + Period] \in Sound
  <2> DEFINE n == h.count + Period
  <2>1. n \in Nat
    BY <1>1
  <2> HIDE DEF n
  <2>2. [h EXCEPT !.count = n] \in Sound
    BY <2>1
  <2> QED BY <2>2 DEF n
<1>3. [h EXCEPT !.count = 0] \in Sound
  OBVIOUS
<1> QED BY <1>2, <1>3 DEF Counted

LEMMA FreshIsSound ==
    ASSUME NEW timeout \in Timeouts, NEW premium \in Exempt
    PROVE  Handler(timeout, premium) \in Sound
BY VoiceAssumption DEF Handler, Sound, Period

LEMMA SingleHandlers == IdleOK =>
    /\ idle \in [Calls -> Seq([limit : Timeouts, noTimeout : Exempt, count : Nat])]
    /\ \A c \in Calls : Len(idle[c]) <= 1
<1>1. ASSUME NEW s \in AtMostOne
      PROVE  s \in Seq(Sound) /\ Len(s) <= 1
  <2>1. ASSUME NEW h \in Sound
        PROVE  <<h>> \in Seq(Sound) /\ Len(<<h>>) <= 1
    OBVIOUS
  <2>2. <<>> \in Seq(Sound) /\ Len(<<>>) <= 1
    OBVIOUS
  <2> QED BY <2>1, <2>2 DEF AtMostOne
<1>2. IdleOK => idle \in [Calls -> Seq(Sound)] /\ \A c \in Calls : Len(idle[c]) <= 1
  BY <1>1 DEF IdleOK
<1> QED BY <1>2 DEF Sound

LEMMA VInvImplies == VInv => TypeOK /\ OneHandlerEach
<1> SUFFICES ASSUME VInv PROVE TypeOK /\ OneHandlerEach
  OBVIOUS
<1>1. endHandlers \in [Calls -> Nat] /\ \A c \in Calls : endHandlers[c] <= 1
  BY DEF VInv, EndOK
<1>2. TypeOK
  BY <1>1, SingleHandlers DEF VInv, RegistryOK, RequestsOK, TypeOK, NoCall
<1>3. OneHandlerEach
  BY <1>1, SingleHandlers DEF VInv, OneHandlerEach
<1> QED BY <1>2, <1>3

LEMMA InitVInv == Init => VInv
<1> SUFFICES ASSUME Init PROVE VInv
  OBVIOUS
<1>1. IdleOK
  BY SoundSequences DEF Init, IdleOK
<1>2. EndOK
  BY DEF Init, EndOK
<1>3. RegistryOK
  BY VoiceAssumption DEF Init, RegistryOK, NoCall
<1>4. RequestsOK
  BY VoiceAssumption DEF Init, RequestsOK, NoCall, Pcs
<1> QED BY <1>1, <1>2, <1>3, <1>4 DEF VInv

LEMMA UpdateInRange ==
    ASSUME NEW S, NEW T, NEW f \in [S -> T], NEW x, NEW v \in T
    PROVE  [f EXCEPT ![x] = v] \in [S -> T]
OBVIOUS

\* Every step leaves a call with no IdleHandler or a sound one.
LEMMA NextIdle == VInv /\ [Next]_vars => IdleOK'
<1> SUFFICES ASSUME VInv, [Next]_vars PROVE IdleOK'
  OBVIOUS
<1>1. ASSUME NEW r \in Requests, GetCallOrJoin(r) PROVE IdleOK'
  BY <1>1 DEF GetCallOrJoin, VInv, IdleOK
<1>2. ASSUME NEW r \in Requests, Summon(r) PROVE IdleOK'
  BY <1>2 DEF Summon, VInv, IdleOK
<1>3. ASSUME NEW r \in Requests, Leave(r) PROVE IdleOK'
  BY <1>3 DEF Leave, VInv, IdleOK
<1>4. ASSUME NEW r \in Requests, EnterJoin(r) PROVE IdleOK'
  BY <1>4 DEF EnterJoin, VInv, IdleOK
<1>5. ASSUME NEW r \in Requests, JoinSucceeds(r) PROVE IdleOK'
  BY <1>5 DEF JoinSucceeds, VInv, IdleOK
<1>6. ASSUME NEW r \in Requests, JoinFails(r) PROVE IdleOK'
  BY <1>6 DEF JoinFails, VInv, IdleOK
<1>7. ASSUME NEW r \in Requests, SetGlobalHandlers(r) PROVE IdleOK'
  <2>1. PICK timeout \in Timeouts, premium \in Exempt :
          idle' = [idle EXCEPT ![req[r].call] =
                     IF timeout > 0 THEN <<Handler(timeout, premium)>> ELSE <<>>]
    BY <1>7 DEF SetGlobalHandlers
  <2> QED BY <2>1, FreshIsSound, SoundSequences DEF VInv, IdleOK
<1>8. ASSUME NEW r \in Requests, Use(r) PROVE IdleOK'
  BY <1>8 DEF Use, VInv, IdleOK
<1>9. ASSUME NEW r \in Requests, LeaveReturns(r) PROVE IdleOK'
  BY <1>9 DEF LeaveReturns, VInv, IdleOK
<1>10. ASSUME NEW c \in Calls, GatewayConnects(c) PROVE IdleOK'
  BY <1>10 DEF GatewayConnects, VInv, IdleOK
<1>11. ASSUME NEW c \in Calls, GatewayFails(c) PROVE IdleOK'
  BY <1>11 DEF GatewayFails, VInv, IdleOK
<1>12. ASSUME NEW c \in Calls, Kicked(c) PROVE IdleOK'
  BY <1>12 DEF Kicked, VInv, IdleOK
<1>13. ASSUME NEW c \in Calls, SongsEnd(c) PROVE IdleOK'
  BY <1>13 DEF SongsEnd, VInv, IdleOK
<1>14. ASSUME NEW c \in Calls, VoiceStateUpdate(c) PROVE IdleOK'
  BY <1>14 DEF VoiceStateUpdate, VInv, IdleOK
<1>15. ASSUME NEW c \in Calls, IdleResets(c) PROVE IdleOK'
  <2>1. idle[c] # <<>> /\ idle' = [idle EXCEPT ![c] = << [Head(idle[c]) EXCEPT !.count = 0] >>]
    BY <1>15 DEF IdleResets, HasIdleHandler
  <2>2. [Head(idle[c]) EXCEPT !.count = 0] \in Sound
    BY <2>1, SoundSequences, CountedIsSound DEF VInv, IdleOK
  <2> QED BY <2>1, <2>2, SoundSequences DEF VInv, IdleOK
<1>16. ASSUME NEW c \in Calls, IdleCounts(c) PROVE IdleOK'
  <2>1. idle[c] # <<>> /\ idle' = [idle EXCEPT ![c] = << Counted(Head(idle[c])) >>]
    BY <1>16 DEF IdleCounts, HasIdleHandler
  <2>2. Counted(Head(idle[c])) \in Sound
    BY <2>1, SoundSequences, CountedIsSound DEF VInv, IdleOK
  <2> QED BY <2>1, <2>2, SoundSequences DEF VInv, IdleOK
<1>17. ASSUME NEW c \in Calls, IdleRemoves(c) PROVE IdleOK'
  <2>1. idle[c] # <<>> /\ idle' = [idle EXCEPT ![c] = << Counted(Head(idle[c])) >>]
    BY <1>17 DEF IdleRemoves, HasIdleHandler
  <2>2. Counted(Head(idle[c])) \in Sound
    BY <2>1, SoundSequences, CountedIsSound DEF VInv, IdleOK
  <2> QED BY <2>1, <2>2, SoundSequences DEF VInv, IdleOK
<1>18. ASSUME NEW c \in Calls, IdleCancels(c) PROVE IdleOK'
  BY <1>18, SoundSequences DEF IdleCancels, VInv, IdleOK
<1>21. ASSUME NEW c \in Calls, IdleRemoveFails(c) PROVE IdleOK'
  BY <1>21, SoundSequences DEF IdleRemoveFails, VInv, IdleOK
<1>19. ASSUME NEW c \in Calls, IdleRemoveReturns(c) PROVE IdleOK'
  BY <1>19, SoundSequences DEF IdleRemoveReturns, VInv, IdleOK
<1>20. ASSUME VoiceStateUpdateReturns PROVE IdleOK'
  BY <1>20 DEF VoiceStateUpdateReturns, VInv, IdleOK
<1>s. CASE UNCHANGED vars
  BY <1>s DEF vars, VInv, IdleOK
<1> QED
  BY <1>1, <1>2, <1>3, <1>4, <1>5, <1>6, <1>7, <1>8, <1>9, <1>10, <1>11, <1>12, <1>13, <1>14, <1>15, <1>16, <1>17, <1>18, <1>19, <1>20, <1>21, <1>s
  DEF Next, Command, Environment, GatewayAnswers, IdleTick

\* Every step leaves a call with at most one TrackEndHandler.
LEMMA NextEnd == VInv /\ [Next]_vars => EndOK'
<1> SUFFICES ASSUME VInv, [Next]_vars PROVE EndOK'
  OBVIOUS
<1>1. ASSUME NEW r \in Requests, GetCallOrJoin(r) PROVE EndOK'
  BY <1>1 DEF GetCallOrJoin, VInv, EndOK
<1>2. ASSUME NEW r \in Requests, Summon(r) PROVE EndOK'
  BY <1>2 DEF Summon, VInv, EndOK
<1>3. ASSUME NEW r \in Requests, Leave(r) PROVE EndOK'
  BY <1>3 DEF Leave, VInv, EndOK
<1>4. ASSUME NEW r \in Requests, EnterJoin(r) PROVE EndOK'
  BY <1>4 DEF EnterJoin, VInv, EndOK
<1>5. ASSUME NEW r \in Requests, JoinSucceeds(r) PROVE EndOK'
  BY <1>5 DEF JoinSucceeds, VInv, EndOK
<1>6. ASSUME NEW r \in Requests, JoinFails(r) PROVE EndOK'
  BY <1>6 DEF JoinFails, VInv, EndOK
<1>7. ASSUME NEW r \in Requests, SetGlobalHandlers(r) PROVE EndOK'
  <2>1. endHandlers' = [endHandlers EXCEPT ![req[r].call] = 1]
    BY <1>7 DEF SetGlobalHandlers
  <2>2. endHandlers \in [Calls -> 0..1] /\ 1 \in 0..1
    BY DEF VInv, EndOK
  <2> QED BY <2>1, <2>2, UpdateInRange DEF EndOK
<1>8. ASSUME NEW r \in Requests, Use(r) PROVE EndOK'
  BY <1>8 DEF Use, VInv, EndOK
<1>9. ASSUME NEW r \in Requests, LeaveReturns(r) PROVE EndOK'
  BY <1>9 DEF LeaveReturns, VInv, EndOK
<1>10. ASSUME NEW c \in Calls, GatewayConnects(c) PROVE EndOK'
  BY <1>10 DEF GatewayConnects, VInv, EndOK
<1>11. ASSUME NEW c \in Calls, GatewayFails(c) PROVE EndOK'
  BY <1>11 DEF GatewayFails, VInv, EndOK
<1>12. ASSUME NEW c \in Calls, Kicked(c) PROVE EndOK'
  BY <1>12 DEF Kicked, VInv, EndOK
<1>13. ASSUME NEW c \in Calls, SongsEnd(c) PROVE EndOK'
  BY <1>13 DEF SongsEnd, VInv, EndOK
<1>14. ASSUME NEW c \in Calls, VoiceStateUpdate(c) PROVE EndOK'
  BY <1>14 DEF VoiceStateUpdate, VInv, EndOK
<1>15. ASSUME NEW c \in Calls, IdleResets(c) PROVE EndOK'
  BY <1>15 DEF IdleResets, VInv, EndOK
<1>16. ASSUME NEW c \in Calls, IdleCounts(c) PROVE EndOK'
  BY <1>16 DEF IdleCounts, VInv, EndOK
<1>17. ASSUME NEW c \in Calls, IdleRemoves(c) PROVE EndOK'
  BY <1>17 DEF IdleRemoves, VInv, EndOK
<1>18. ASSUME NEW c \in Calls, IdleCancels(c) PROVE EndOK'
  BY <1>18 DEF IdleCancels, VInv, EndOK
<1>21. ASSUME NEW c \in Calls, IdleRemoveFails(c) PROVE EndOK'
  BY <1>21 DEF IdleRemoveFails, VInv, EndOK
<1>19. ASSUME NEW c \in Calls, IdleRemoveReturns(c) PROVE EndOK'
  BY <1>19 DEF IdleRemoveReturns, VInv, EndOK
<1>20. ASSUME VoiceStateUpdateReturns PROVE EndOK'
  BY <1>20 DEF VoiceStateUpdateReturns, VInv, EndOK
<1>s. CASE UNCHANGED vars
  BY <1>s DEF vars, VInv, EndOK
<1> QED
  BY <1>1, <1>2, <1>3, <1>4, <1>5, <1>6, <1>7, <1>8, <1>9, <1>10, <1>11, <1>12, <1>13, <1>14, <1>15, <1>16, <1>17, <1>18, <1>19, <1>20, <1>21, <1>s
  DEF Next, Command, Environment, GatewayAnswers, IdleTick

\* Leaving a call disturbs the connections, which stay well formed.
LEMMA LeaveCallOK ==
    ASSUME VInv, LeaveCall
    PROVE  link' \in [Calls -> {"none", "joining", "failed", "on", "cut"}] /\ gone' \in [Calls -> Nat]
<1>1. registered \in Calls
  BY VoiceAssumption DEF LeaveCall, NoCall, VInv, RegistryOK, Calls
<1>2. link \in [Calls -> {"none", "joining", "failed", "on", "cut"}] /\ gone \in [Calls -> Nat]
  BY DEF VInv, RegistryOK
<1>3. link' \in [Calls -> {"none", "joining", "failed", "on", "cut"}]
  BY <1>2, UpdateInRange DEF LeaveCall
<1>4. gone' \in [Calls -> Nat]
  <2>1. gone[registered] + 1 \in Nat
    BY <1>1, <1>2
  <2> QED BY <1>2, <2>1, UpdateInRange DEF LeaveCall
<1> QED BY <1>3, <1>4

\* So does a removal that fails.
LEMMA LeaveFailsOK ==
    ASSUME VInv, LeaveFails
    PROVE  link' \in [Calls -> {"none", "joining", "failed", "on", "cut"}]
BY UpdateInRange DEF LeaveFails, VInv, RegistryOK

\* Every step keeps the registry and the connections well formed.
LEMMA NextRegistry == VInv /\ [Next]_vars => RegistryOK'
<1> SUFFICES ASSUME VInv, [Next]_vars PROVE RegistryOK'
  OBVIOUS
<1>1. ASSUME NEW r \in Requests, GetCallOrJoin(r) PROVE RegistryOK'
  BY <1>1, VoiceAssumption DEF GetCallOrJoin, VInv, RegistryOK, RequestsOK, Calls, NoCall, At, Goto, LeaveCall, DropEntry
<1>2. ASSUME NEW r \in Requests, Summon(r) PROVE RegistryOK'
  BY <1>2, VoiceAssumption DEF Summon, VInv, RegistryOK, RequestsOK, Calls, NoCall, At, Goto, LeaveCall, DropEntry
<1>3. ASSUME NEW r \in Requests, Leave(r) PROVE RegistryOK'
  <2>1. link' \in [Calls -> {"none", "joining", "failed", "on", "cut"}] /\ gone' \in [Calls -> Nat]
    <3>1. CASE LeaveCall
      BY <3>1, LeaveCallOK
    <3>2. CASE UNCHANGED <<link, gone>>
      BY <3>2 DEF VInv, RegistryOK
    <3>3. CASE LeaveFails /\ UNCHANGED gone
      BY <3>3, LeaveFailsOK DEF VInv, RegistryOK
    <3> QED BY <1>3, <3>1, <3>2, <3>3 DEF Leave
  <2>2. UNCHANGED <<registered, made, playing, removing, gonePc>>
    BY <1>3 DEF Leave
  <2> QED BY <2>1, <2>2 DEF VInv, RegistryOK
<1>4. ASSUME NEW r \in Requests, EnterJoin(r) PROVE RegistryOK'
  BY <1>4, VoiceAssumption DEF EnterJoin, VInv, RegistryOK, RequestsOK, Calls, NoCall, At, Goto, LeaveCall, DropEntry
<1>5. ASSUME NEW r \in Requests, JoinSucceeds(r) PROVE RegistryOK'
  BY <1>5, VoiceAssumption DEF JoinSucceeds, VInv, RegistryOK, RequestsOK, Calls, NoCall, At, Goto, LeaveCall, DropEntry
<1>6. ASSUME NEW r \in Requests, JoinFails(r) PROVE RegistryOK'
  BY <1>6, VoiceAssumption DEF JoinFails, VInv, RegistryOK, RequestsOK, Calls, NoCall, At, Goto, LeaveCall, DropEntry
<1>7. ASSUME NEW r \in Requests, SetGlobalHandlers(r) PROVE RegistryOK'
  BY <1>7, VoiceAssumption DEF SetGlobalHandlers, VInv, RegistryOK, RequestsOK, Calls, NoCall, At, Goto, LeaveCall, DropEntry
<1>8. ASSUME NEW r \in Requests, Use(r) PROVE RegistryOK'
  BY <1>8, VoiceAssumption DEF Use, VInv, RegistryOK, RequestsOK, Calls, NoCall, At, Goto, LeaveCall, DropEntry
<1>9. ASSUME NEW r \in Requests, LeaveReturns(r) PROVE RegistryOK'
  BY <1>9, VoiceAssumption DEF LeaveReturns, VInv, RegistryOK, RequestsOK, Calls, NoCall, At, Goto, LeaveCall, DropEntry
<1>10. ASSUME NEW c \in Calls, GatewayConnects(c) PROVE RegistryOK'
  BY <1>10, VoiceAssumption DEF GatewayConnects, VInv, RegistryOK, RequestsOK, Calls, NoCall, At, Goto, LeaveCall, DropEntry
<1>11. ASSUME NEW c \in Calls, GatewayFails(c) PROVE RegistryOK'
  BY <1>11, VoiceAssumption DEF GatewayFails, VInv, RegistryOK, RequestsOK, Calls, NoCall, At, Goto, LeaveCall, DropEntry
<1>12. ASSUME NEW c \in Calls, Kicked(c) PROVE RegistryOK'
  BY <1>12, VoiceAssumption DEF Kicked, VInv, RegistryOK, RequestsOK, Calls, NoCall, At, Goto, LeaveCall, DropEntry
<1>13. ASSUME NEW c \in Calls, SongsEnd(c) PROVE RegistryOK'
  BY <1>13, VoiceAssumption DEF SongsEnd, VInv, RegistryOK, RequestsOK, Calls, NoCall, At, Goto, LeaveCall, DropEntry
<1>14. ASSUME NEW c \in Calls, VoiceStateUpdate(c) PROVE RegistryOK'
  <2>1. link' \in [Calls -> {"none", "joining", "failed", "on", "cut"}]
    <3>1. CASE LeaveFails
      BY <3>1, LeaveFailsOK
    <3>2. CASE ~LeaveFails
      BY <1>14, <3>2 DEF VoiceStateUpdate, VInv, RegistryOK
    <3> QED BY <3>1, <3>2
  <2>2. [gone EXCEPT ![c] = @ - 1] \in [Calls -> Nat]
    BY <1>14 DEF VoiceStateUpdate, VInv, RegistryOK
  <2>3. gone' \in [Calls -> Nat]
    <3> DEFINE g == [gone EXCEPT ![c] = @ - 1]
    <3>1. \/ gone' = g
          \/ gone' = [g EXCEPT ![registered] = IF link[registered] \in {"on", "cut"} THEN @ + 1 ELSE @]
      BY <1>14 DEF VoiceStateUpdate
    <3>2. g \in [Calls -> Nat]
      BY <2>2
    <3> HIDE DEF g
    <3> QED BY <3>1, <3>2
  <2>4. UNCHANGED <<registered, made, playing, removing>> /\ gonePc' \in {"none", "removing"}
    BY <1>14 DEF VoiceStateUpdate, VInv, RegistryOK
  <2> QED BY <2>1, <2>3, <2>4 DEF VInv, RegistryOK
<1>15. ASSUME NEW c \in Calls, IdleResets(c) PROVE RegistryOK'
  BY <1>15, VoiceAssumption DEF IdleResets, VInv, RegistryOK, RequestsOK, Calls, NoCall, At, Goto, LeaveCall, DropEntry
<1>16. ASSUME NEW c \in Calls, IdleCounts(c) PROVE RegistryOK'
  BY <1>16, VoiceAssumption DEF IdleCounts, VInv, RegistryOK, RequestsOK, Calls, NoCall, At, Goto, LeaveCall, DropEntry
<1>17. ASSUME NEW c \in Calls, IdleRemoves(c) PROVE RegistryOK'
  BY <1>17, VoiceAssumption DEF IdleRemoves, VInv, RegistryOK, RequestsOK, Calls, NoCall, At, Goto, LeaveCall, DropEntry
<1>18. ASSUME NEW c \in Calls, IdleCancels(c) PROVE RegistryOK'
  BY <1>18, VoiceAssumption DEF IdleCancels, VInv, RegistryOK, RequestsOK, Calls, NoCall, At, Goto, LeaveCall, DropEntry
<1>21. ASSUME NEW c \in Calls, IdleRemoveFails(c) PROVE RegistryOK'
  BY <1>21, LeaveFailsOK DEF IdleRemoveFails, VInv, RegistryOK
<1>19. ASSUME NEW c \in Calls, IdleRemoveReturns(c) PROVE RegistryOK'
  BY <1>19, VoiceAssumption DEF IdleRemoveReturns, VInv, RegistryOK, RequestsOK, Calls, NoCall, At, Goto, LeaveCall, DropEntry
<1>20. ASSUME VoiceStateUpdateReturns PROVE RegistryOK'
  BY <1>20, VoiceAssumption DEF VoiceStateUpdateReturns, VInv, RegistryOK, RequestsOK, Calls, NoCall, At, Goto, LeaveCall, DropEntry
<1>s. CASE UNCHANGED vars
  BY <1>s DEF vars, VInv, RegistryOK
<1> QED
  BY <1>1, <1>2, <1>3, <1>4, <1>5, <1>6, <1>7, <1>8, <1>9, <1>10, <1>11, <1>12, <1>13, <1>14, <1>15, <1>16, <1>17, <1>18, <1>19, <1>20, <1>21, <1>s
  DEF Next, Command, Environment, GatewayAnswers, IdleTick

\* One request moves to a well-formed position; the others stay where they are.
LEMMA OneRequestMoves ==
    ASSUME VInv, made' >= made, NEW r \in Requests,
           NEW kind \in Kinds \union {"none"}, NEW pc \in Pcs, NEW call \in 0..MaxCalls,
           call <= made',
           pc \in {"wait", "handlers", "use"} => call # 0,
           req' = [req EXCEPT ![r] = [kind |-> kind, pc |-> pc, call |-> call]]
    PROVE  made' \in Int => RequestsOK'
<1> SUFFICES ASSUME made' \in Int PROVE RequestsOK'
  OBVIOUS
<1> DEFINE new == [kind |-> kind, pc |-> pc, call |-> call]
           Shape == [kind : Kinds \union {"none"}, pc : Pcs, call : 0..MaxCalls]
<1>1. new \in Shape /\ new.pc = pc /\ new.call = call
  OBVIOUS
<1>2. req \in [Requests -> Shape] /\ req' = [req EXCEPT ![r] = new]
  BY DEF VInv, RequestsOK
<1> HIDE DEF new
<1>3. req' \in [Requests -> Shape]
  BY <1>1, <1>2
<1>4. \A q \in Requests : req'[q] = IF q = r THEN new ELSE req[q]
  BY <1>2
<1>5. made \in Int /\ \A q \in Requests : req[q].call \in Int
  BY <1>2, VoiceAssumption DEF VInv, RegistryOK
<1>6. \A q \in Requests : req'[q].call <= made'
  BY <1>1, <1>4, <1>5 DEF VInv, RequestsOK
<1>7. \A q \in Requests : req'[q].pc \in {"wait", "handlers", "use"} => req'[q].call # 0
  BY <1>1, <1>4 DEF VInv, RequestsOK
<1> QED BY <1>3, <1>6, <1>7 DEF RequestsOK

\* Goto keeps the kind of the request.
LEMMA GotoMoves ==
    ASSUME VInv, NEW r \in Requests, NEW pc, NEW call, Goto(r, pc, call)
    PROVE  req' = [req EXCEPT ![r] = [kind |-> req[r].kind, pc |-> pc, call |-> call]]
BY DEF Goto, VInv, RequestsOK

\* Every step keeps the requests well formed, and holding a call where they must.
LEMMA NextRequests == VInv /\ [Next]_vars => RequestsOK'
<1> SUFFICES ASSUME VInv, [Next]_vars PROVE RequestsOK'
  OBVIOUS
<1>1. ASSUME NEW r \in Requests, GetCallOrJoin(r) PROVE RequestsOK'
  BY <1>1, VoiceAssumption DEF GetCallOrJoin, VInv, RegistryOK, RequestsOK, Calls, NoCall, Pcs, Kinds, At, Goto
<1>2. ASSUME NEW r \in Requests, Summon(r) PROVE RequestsOK'
  BY <1>2, VoiceAssumption DEF Summon, VInv, RegistryOK, RequestsOK, Calls, NoCall, Pcs, Kinds, At, Goto
<1>3. ASSUME NEW r \in Requests, Leave(r) PROVE RequestsOK'
  <2>1. registered \in 0..MaxCalls /\ registered <= made /\ made' = made /\ made \in Int
    BY <1>3, VoiceAssumption DEF Leave, VInv, RegistryOK
  <2>2. PICK pc \in {"removing", "failed", "done"}, call \in {registered, NoCall} :
          req' = [req EXCEPT ![r] = [kind |-> "leave", pc |-> pc, call |-> call]]
    BY <1>3 DEF Leave
  <2>3. call \in 0..MaxCalls /\ call <= made'
    BY <2>1, VoiceAssumption DEF NoCall, VInv, RegistryOK
  <2>4. /\ made' >= made /\ made' \in Int /\ "leave" \in Kinds \union {"none"} /\ pc \in Pcs
        /\ pc \in {"wait", "handlers", "use"} => call # 0
    BY <2>1 DEF Kinds, Pcs
  <2> QED BY <2>2, <2>3, <2>4, OneRequestMoves
<1>4. ASSUME NEW r \in Requests, EnterJoin(r) PROVE RequestsOK'
  <2>1. /\ registered' \in 0..MaxCalls /\ registered' <= made' /\ registered' # 0
        /\ made' >= made /\ made' \in Int
    BY <1>4, VoiceAssumption DEF EnterJoin, VInv, RegistryOK, NoCall
  <2>2. req' = [req EXCEPT ![r] = [kind |-> req[r].kind, pc |-> "wait", call |-> registered']]
    BY <1>4, GotoMoves DEF EnterJoin
  <2>3. req[r].kind \in Kinds \union {"none"}
    BY DEF VInv, RequestsOK
  <2> QED BY <2>1, <2>2, <2>3, OneRequestMoves DEF Pcs
<1>5. ASSUME NEW r \in Requests, JoinSucceeds(r) PROVE RequestsOK'
  BY <1>5, VoiceAssumption DEF JoinSucceeds, VInv, RegistryOK, RequestsOK, Calls, NoCall, Pcs, Kinds, At, Goto
<1>6. ASSUME NEW r \in Requests, JoinFails(r) PROVE RequestsOK'
  <2>1. PICK pc \in {"handlers", "failed"}, call \in {registered, NoCall} :
          Goto(r, pc, call) /\ (pc = "handlers" => call # 0)
    BY <1>6 DEF JoinFails, NoCall
  <2>2. made' = made /\ made \in Int /\ call \in 0..MaxCalls /\ call <= made
    BY <1>6, VoiceAssumption DEF JoinFails, VInv, RegistryOK, NoCall
  <2>3. req[r].kind \in Kinds \union {"none"}
    BY DEF VInv, RequestsOK
  <2>4. req' = [req EXCEPT ![r] = [kind |-> req[r].kind, pc |-> pc, call |-> call]]
    BY <2>1, GotoMoves
  <2>5. /\ made' >= made /\ made' \in Int /\ pc \in Pcs /\ call <= made'
        /\ pc \in {"wait", "handlers", "use"} => call # 0
    BY <2>1, <2>2 DEF Pcs
  <2> QED BY <2>2, <2>3, <2>4, <2>5, OneRequestMoves
<1>7. ASSUME NEW r \in Requests, SetGlobalHandlers(r) PROVE RequestsOK'
  <2>1. PICK pc \in {"use", "done"} : Goto(r, pc, req[r].call)
    BY <1>7 DEF SetGlobalHandlers
  <2>2. made' = made /\ made \in Int /\ req[r].call # 0
    BY <1>7, VoiceAssumption DEF SetGlobalHandlers, At, VInv, RegistryOK, RequestsOK
  <2>3. req[r].kind \in Kinds \union {"none"} /\ req[r].call \in 0..MaxCalls /\ req[r].call <= made
    BY DEF VInv, RequestsOK
  <2>4. req' = [req EXCEPT ![r] = [kind |-> req[r].kind, pc |-> pc, call |-> req[r].call]]
    BY <2>1, GotoMoves
  <2>5. /\ made' >= made /\ made' \in Int /\ pc \in Pcs /\ req[r].call <= made'
        /\ pc \in {"wait", "handlers", "use"} => req[r].call # 0
    BY <2>2, <2>3 DEF Pcs
  <2> QED BY <2>3, <2>4, <2>5, OneRequestMoves
<1>8. ASSUME NEW r \in Requests, Use(r) PROVE RequestsOK'
  BY <1>8, VoiceAssumption DEF Use, VInv, RegistryOK, RequestsOK, Calls, NoCall, Pcs, Kinds, At, Goto
<1>9. ASSUME NEW r \in Requests, LeaveReturns(r) PROVE RequestsOK'
  BY <1>9, VoiceAssumption DEF LeaveReturns, VInv, RegistryOK, RequestsOK, Calls, NoCall, Pcs, Kinds, At, Goto
<1>10. ASSUME NEW c \in Calls, GatewayConnects(c) PROVE RequestsOK'
  BY <1>10, VoiceAssumption DEF GatewayConnects, VInv, RegistryOK, RequestsOK, Calls, NoCall, Pcs, Kinds, At, Goto
<1>11. ASSUME NEW c \in Calls, GatewayFails(c) PROVE RequestsOK'
  BY <1>11, VoiceAssumption DEF GatewayFails, VInv, RegistryOK, RequestsOK, Calls, NoCall, Pcs, Kinds, At, Goto
<1>12. ASSUME NEW c \in Calls, Kicked(c) PROVE RequestsOK'
  BY <1>12, VoiceAssumption DEF Kicked, VInv, RegistryOK, RequestsOK, Calls, NoCall, Pcs, Kinds, At, Goto
<1>13. ASSUME NEW c \in Calls, SongsEnd(c) PROVE RequestsOK'
  BY <1>13, VoiceAssumption DEF SongsEnd, VInv, RegistryOK, RequestsOK, Calls, NoCall, Pcs, Kinds, At, Goto
<1>14. ASSUME NEW c \in Calls, VoiceStateUpdate(c) PROVE RequestsOK'
  BY <1>14, VoiceAssumption DEF VoiceStateUpdate, VInv, RegistryOK, RequestsOK, Calls, NoCall, Pcs, Kinds, At, Goto
<1>15. ASSUME NEW c \in Calls, IdleResets(c) PROVE RequestsOK'
  BY <1>15, VoiceAssumption DEF IdleResets, VInv, RegistryOK, RequestsOK, Calls, NoCall, Pcs, Kinds, At, Goto
<1>16. ASSUME NEW c \in Calls, IdleCounts(c) PROVE RequestsOK'
  BY <1>16, VoiceAssumption DEF IdleCounts, VInv, RegistryOK, RequestsOK, Calls, NoCall, Pcs, Kinds, At, Goto
<1>17. ASSUME NEW c \in Calls, IdleRemoves(c) PROVE RequestsOK'
  BY <1>17, VoiceAssumption DEF IdleRemoves, VInv, RegistryOK, RequestsOK, Calls, NoCall, Pcs, Kinds, At, Goto
<1>18. ASSUME NEW c \in Calls, IdleCancels(c) PROVE RequestsOK'
  BY <1>18, VoiceAssumption DEF IdleCancels, VInv, RegistryOK, RequestsOK, Calls, NoCall, Pcs, Kinds, At, Goto
<1>21. ASSUME NEW c \in Calls, IdleRemoveFails(c) PROVE RequestsOK'
  BY <1>21 DEF IdleRemoveFails, VInv, RequestsOK
<1>19. ASSUME NEW c \in Calls, IdleRemoveReturns(c) PROVE RequestsOK'
  BY <1>19, VoiceAssumption DEF IdleRemoveReturns, VInv, RegistryOK, RequestsOK, Calls, NoCall, Pcs, Kinds, At, Goto
<1>20. ASSUME VoiceStateUpdateReturns PROVE RequestsOK'
  BY <1>20, VoiceAssumption DEF VoiceStateUpdateReturns, VInv, RegistryOK, RequestsOK, Calls, NoCall, Pcs, Kinds, At, Goto
<1>s. CASE UNCHANGED vars
  BY <1>s DEF vars, VInv, RequestsOK
<1> QED
  BY <1>1, <1>2, <1>3, <1>4, <1>5, <1>6, <1>7, <1>8, <1>9, <1>10, <1>11, <1>12, <1>13, <1>14, <1>15, <1>16, <1>17, <1>18, <1>19, <1>20, <1>21, <1>s
  DEF Next, Command, Environment, GatewayAnswers, IdleTick

LEMMA NextVInv == VInv /\ [Next]_vars => VInv'
BY NextIdle, NextEnd, NextRegistry, NextRequests DEF VInv

\* The state of a guild's voice session is well formed in every reachable state.
THEOREM VoiceTypeCorrect == Spec => []TypeOK
BY VInvImplies, InitVInv, NextVInv, PTL DEF Spec

\* set_global_handlers leaves a call with one handler of each kind, whichever
\* commands race to join.
THEOREM HandlersAreSingle == Spec => []OneHandlerEach
BY VInvImplies, InitVInv, NextVInv, PTL DEF Spec

-----------------------------------------------------------------------------
(* The patience of an IdleHandler *)

\* The handlers of the call have counted no more than the periods that were quiet.
Fits(handlers, n) ==
    handlers # <<>> => n = MaxQuiet \/ Head(handlers).count <= n * Period

\* The inductive invariant of IdlePatience: the code's counter and the history
\* variable, which is kept without it, agree on how long a call has been quiet.
QuietInv ==
    /\ VInv
    /\ quiet \in [Calls -> 0..MaxQuiet]
    /\ \A c \in Calls : Fits(idle[c], quiet[c])

\* One more period, counted by both.
LEMMA OneMorePeriod ==
    ASSUME NEW h \in Sound, NEW n \in 0..MaxQuiet, Fits(<<h>>, n)
    PROVE  LET more == IF n < MaxQuiet THEN n + 1 ELSE MaxQuiet
           IN  more \in 0..MaxQuiet /\ Fits(<<Counted(h)>>, more)
<1> USE VoiceAssumption, QuietAssumption
<1>1. h.count \in Nat /\ h.limit \in Nat
  BY DEF Sound
<1>2. n = MaxQuiet \/ h.count <= n * Period
  <2>1. <<h>> # <<>> /\ Head(<<h>>) = h
    OBVIOUS
  <2> QED BY <2>1 DEF Fits
<1>3. Counted(h).count <= h.count + Period
  <2>2. CASE h.noTimeout \/ h.limit = 0
    BY <1>1, <2>2 DEF Counted, Period
  <2>3. CASE ~(h.noTimeout \/ h.limit = 0)
    <3> DEFINE k == h.count + Period
    <3>1. Counted(h) = [h EXCEPT !.count = k]
      BY <2>3 DEF Counted
    <3> HIDE DEF k
    <3>2. Counted(h).count = k
      BY <3>1 DEF Sound
    <3> QED BY <1>1, <3>2 DEF k, Period
  <2> QED BY <2>2, <2>3
<1>4. Counted(h).count \in Nat
  BY CountedIsSound DEF Sound
<1>5. CASE n < MaxQuiet
  <2>1. h.count <= n * Period
    BY <1>2, <1>5
  <2>2. Counted(h).count <= (n + 1) * Period
    BY <1>1, <1>3, <1>4, <2>1 DEF Period
  <2>3. Head(<<Counted(h)>>) = Counted(h)
    OBVIOUS
  <2> QED BY <1>5, <2>2, <2>3 DEF Fits
<1>6. CASE ~(n < MaxQuiet)
  BY <1>6 DEF Fits
<1> QED BY <1>5, <1>6

\* Whatever else happens leaves the handlers of a call as they are, or takes them away.
LEMMA OtherStepsKeepIdle ==
    ASSUME VInv, Next, NEW c \in Calls,
           ~IdleResets(c), ~Installs(c), ~IdleCounts(c), ~IdleRemoves(c)
    PROVE  idle'[c] \in {idle[c], <<>>}
<1>0. idle = [d \in Calls |-> idle[d]]
  BY DEF VInv, IdleOK
<1>1. ASSUME NEW r \in Requests, SetGlobalHandlers(r) PROVE idle'[c] = idle[c]
  <2>1. req[r].call # c
    BY <1>1 DEF Installs
  <2>2. PICK handlers : idle' = [idle EXCEPT ![req[r].call] = handlers]
    BY <1>1 DEF SetGlobalHandlers
  <2> QED BY <2>1, <2>2, <1>0
<1>2. ASSUME NEW d \in Calls, d # c, IdleResets(d) \/ IdleCounts(d) \/ IdleRemoves(d)
      PROVE  idle'[c] = idle[c]
  <2>1. PICK handlers : idle' = [idle EXCEPT ![d] = handlers]
    BY <1>2 DEF IdleResets, IdleCounts, IdleRemoves
  <2> QED BY <1>0, <1>2, <2>1
<1>3. ASSUME NEW d \in Calls, IdleCancels(d) \/ IdleRemoveFails(d) \/ IdleRemoveReturns(d)
      PROVE  idle'[c] \in {idle[c], <<>>}
  BY <1>0, <1>3 DEF IdleCancels, IdleRemoveFails, IdleRemoveReturns
<1>4. CASE UNCHANGED idle
  BY <1>4
<1>5. ASSUME NEW r \in Requests, Command(r) PROVE SetGlobalHandlers(r) \/ UNCHANGED idle
  BY <1>5 DEF Command, GetCallOrJoin, Summon, Leave, EnterJoin, JoinSucceeds, JoinFails,
              Use, LeaveReturns
<1>6. ASSUME NEW d \in Calls, Environment(d) \/ VoiceStateUpdate(d) PROVE UNCHANGED idle
  BY <1>6 DEF Environment, GatewayAnswers, GatewayConnects, GatewayFails, Kicked, SongsEnd,
              VoiceStateUpdate
<1>7. ASSUME NEW d \in Calls, IdleTick(d) \/ IdleRemoveReturns(d)
      PROVE  idle'[c] \in {idle[c], <<>>}
  BY <1>2, <1>3, <1>7 DEF IdleTick
<1>8. CASE VoiceStateUpdateReturns
  BY <1>8 DEF VoiceStateUpdateReturns
<1> QED BY <1>1, <1>4, <1>5, <1>6, <1>7, <1>8 DEF Next

\* Every step of the system and of the history variable keeps the invariant: a handler
\* that is reset or new has counted nothing, one that counts does so in a quiet period.
LEMMA NextQuiet == QuietInv /\ [MCNext]_mcvars => QuietInv'
<1> SUFFICES ASSUME QuietInv, [MCNext]_mcvars PROVE QuietInv'
  OBVIOUS
<1> USE DEF QuietInv
<1>1. VInv'
  BY NextVInv DEF MCNext, mcvars
<1>2. CASE UNCHANGED mcvars
  BY <1>1, <1>2 DEF mcvars, vars
<1>3. CASE MCNext
  <2>1. SUFFICES ASSUME NEW c \in Calls
                 PROVE  quiet'[c] \in 0..MaxQuiet /\ Fits(idle'[c], quiet'[c])
    <3>1. quiet' = [c \in Calls |-> quiet'[c]]
      BY <1>3 DEF MCNext
    <3> QED BY <1>1, <2>1, <3>1
  <2>2. quiet[c] \in 0..MaxQuiet /\ Fits(idle[c], quiet[c]) /\ idle[c] \in AtMostOne
    BY DEF VInv, IdleOK
  <2>3. CASE IdleResets(c) \/ Installs(c)
    <3>1. quiet'[c] = 0
      BY <1>3, <2>3 DEF MCNext
    <3>2. idle'[c] # <<>> => Head(idle'[c]).count = 0
      <4>1. CASE IdleResets(c)
        <5> DEFINE h == [Head(idle[c]) EXCEPT !.count = 0]
        <5>1. idle[c] # <<>> /\ idle' = [idle EXCEPT ![c] = <<h>>]
          BY <4>1 DEF IdleResets, HasIdleHandler
        <5>2. h.count = 0
          BY <2>2, <5>1, SoundSequences DEF Sound
        <5> HIDE DEF h
        <5>3. idle'[c] = <<h>>
          BY <5>1 DEF VInv, IdleOK
        <5> QED BY <5>2, <5>3
      <4>2. CASE Installs(c)
        <5>1. PICK r \in Requests : SetGlobalHandlers(r) /\ req[r].call = c
          BY <4>2 DEF Installs
        <5>2. PICK timeout \in Timeouts, premium \in Exempt :
                idle' = [idle EXCEPT ![c] =
                           IF timeout > 0 THEN <<Handler(timeout, premium)>> ELSE <<>>]
          BY <5>1 DEF SetGlobalHandlers
        <5>3. idle'[c] \in {<<Handler(timeout, premium)>>, <<>>}
          BY <5>2 DEF VInv, IdleOK
        <5>4. Handler(timeout, premium).count = 0
          BY DEF Handler
        <5> QED BY <5>3, <5>4
      <4> QED BY <2>3, <4>1, <4>2
    <3> QED BY <3>1, <3>2, QuietAssumption DEF Fits, Period
  <2>4. CASE ~(IdleResets(c) \/ Installs(c)) /\ (IdleCounts(c) \/ IdleRemoves(c))
    <3> DEFINE h == Head(idle[c])
               more == IF quiet[c] < MaxQuiet THEN quiet[c] + 1 ELSE MaxQuiet
    <3>1. quiet'[c] = more
      BY <1>3, <2>4 DEF MCNext
    <3>2. idle[c] # <<>> /\ idle'[c] = <<Counted(h)>>
      BY <2>4 DEF IdleCounts, IdleRemoves, HasIdleHandler, VInv, IdleOK
    <3>3. h \in Sound /\ idle[c] = <<h>>
      BY <2>2, <3>2 DEF AtMostOne
    <3> HIDE DEF h
    <3>4. Fits(<<h>>, quiet[c])
      BY <2>2, <3>3
    <3>5. more \in 0..MaxQuiet /\ Fits(<<Counted(h)>>, more)
      BY <2>2, <3>3, <3>4, OneMorePeriod
    <3> QED BY <3>1, <3>2, <3>5
  <2>5. CASE ~(IdleResets(c) \/ Installs(c)) /\ ~(IdleCounts(c) \/ IdleRemoves(c))
    <3>1. quiet'[c] = quiet[c]
      BY <1>3, <2>5 DEF MCNext
    <3>2. idle'[c] \in {idle[c], <<>>}
      BY <1>3, <2>5, OtherStepsKeepIdle DEF MCNext
    <3> QED BY <2>2, <3>1, <3>2 DEF Fits
  <2> QED BY <2>3, <2>4, <2>5
<1> QED BY <1>2, <1>3

LEMMA InitQuiet == MCInit => QuietInv
<1> SUFFICES ASSUME MCInit PROVE QuietInv
  OBVIOUS
<1>1. VInv
  BY InitVInv DEF MCInit
<1>2. quiet \in [Calls -> 0..MaxQuiet]
  BY QuietAssumption DEF MCInit
<1>3. \A c \in Calls : Fits(idle[c], quiet[c])
  BY DEF MCInit, Init, Fits
<1> QED BY <1>1, <1>2, <1>3 DEF QuietInv

\* An IdleHandler gives up only after it has watched a call without a track playing for
\* as long as its limit, without a break.
THEOREM HandlersArePatient == MCSpec => IdlePatience
<1> DEFINE Patient == \A c \in Calls : IdleRemoves(c) \/ IdleRemoveFails(c) =>
                                         quiet[c] * Period >= Head(idle[c]).limit
<1>1. QuietInv => Patient
  <2> SUFFICES ASSUME QuietInv, NEW c \in Calls,
                      IdleRemoves(c) \/ IdleRemoveFails(c)
               PROVE  quiet[c] * Period >= Head(idle[c]).limit
    OBVIOUS
  <2> DEFINE h == Head(idle[c])
  <2>1. idle[c] # <<>> /\ h.count >= h.limit
    BY DEF IdleRemoves, IdleRemoveFails, HasIdleHandler, TimesOut
  <2>2. h \in Sound
    BY <2>1, SoundSequences DEF QuietInv, VInv, IdleOK
  <2>3. h.limit \in Nat /\ h.count \in Nat /\ h.limit <= MaxQuiet * Period
    BY <2>2, VoiceAssumption, QuietAssumption DEF Sound
  <2>4. quiet[c] \in Nat /\ (quiet[c] = MaxQuiet \/ h.count <= quiet[c] * Period)
    BY <2>1, QuietAssumption DEF QuietInv, Fits
  <2> HIDE DEF h
  <2>5. quiet[c] * Period >= h.limit
    BY <2>1, <2>3, <2>4 DEF Period
  <2> QED BY <2>5 DEF h
<1>2. MCSpec => []QuietInv
  BY InitQuiet, NextQuiet, PTL DEF MCSpec
<1>3. []QuietInv => [][Patient]_mcvars
  BY <1>1, PTL
<1> QED BY <1>2, <1>3 DEF IdlePatience
=============================================================================
