---------------------------- MODULE VoteService ----------------------------
(***************************************************************************)
(* Votes for the bot on top.gg: the web service crack-voting, which stores *)
(* the webhooks that top.gg posts, and the vote command, which asks top.gg *)
(* whether its user has voted and records it.  Both write the users of the *)
(* same database.                                                          *)
(*                                                                         *)
(* A user votes once.  top.gg posts the vote again as long as it gets no   *)
(* answer of success.                                                      *)
(***************************************************************************)
EXTENDS Discord

CONSTANTS
    Voters,     \* users who vote
    MaxPosts    \* bound: times that one vote is posted

ASSUME TasksAssumption == IsFiniteSet(Tasks)
ASSUME PostsAssumption == MaxPosts \in Nat

VARIABLES
    posts,        \* top.gg: how often each user's vote has been posted
    acknowledged, \* top.gg: users whose vote was answered with success
    answered,     \* history: requests of each user that were answered with success
    request,      \* per task of the service: the user voting, and what is done
    userRows,     \* table "user": the name that is stored for an id
    webhookRows,  \* table vote_webhook: the number of rows of each user
    unanswered,   \* history: requests of each user that were stored and never answered
    userVotes,    \* table user_votes: the number of rows of each user
    voteCommand   \* per task of the bot: the user of a vote command, and its place

voteVars == <<posts, acknowledged, answered, request, userRows, webhookRows, unanswered,
              userVotes, voteCommand>>

RequestPlaces == {"none", "posted", "accepted", "voter", "stored"}
CommandPlaces == {"none", "asked", "new", "known"}
NoRequest == [user |-> None, at |-> "none"]
Zero == [u \in Voters |-> 0]

VoteInit ==
    /\ posts = Zero
    /\ acknowledged = {}
    /\ answered = Zero
    /\ request = [t \in Tasks |-> NoRequest]
    /\ userRows = <<>>
    /\ webhookRows = Zero
    /\ unanswered = Zero
    /\ userVotes = Zero
    /\ voteCommand = [t \in Tasks |-> NoRequest]

RequestMoves(t, place) == request' = [request EXCEPT ![t].at = place]
RequestEnds(t) == request' = [request EXCEPT ![t] = NoRequest]
More(count, u) == [count EXCEPT ![u] = @ + 1]

\* The upsert keeps the name that a row has.
SeenUser(rows, u, name) == IF u \in DOMAIN rows THEN rows ELSE Put(rows, u, name)

-----------------------------------------------------------------------------
(* The web service *)

\* top.gg posts a vote, for the first time or because it was not acknowledged.
PostVote(t, u) ==
    /\ request[t] = NoRequest /\ u \notin acknowledged
    /\ posts[u] < MaxPosts /\ posts' = More(posts, u)
    /\ request' = [request EXCEPT ![t] = [user |-> u, at |-> "posted"]]
    /\ UNCHANGED <<acknowledged, answered, userRows, webhookRows, unanswered, userVotes,
                   voteCommand>>

\* The route, the secret and the body are checked before anything is written.
Accept(t) ==
    /\ request[t].at = "posted" /\ RequestMoves(t, "accepted")
    /\ UNCHANGED <<posts, acknowledged, answered, userRows, webhookRows, unanswered, userVotes,
                   voteCommand>>

\* custom_error: not the secret, or not a body, is answered with an error.
Refuse(t) ==
    /\ request[t].at = "posted" /\ RequestEnds(t)
    /\ UNCHANGED <<posts, acknowledged, answered, userRows, webhookRows, unanswered, userVotes,
                   voteCommand>>

\* The user's row is made first: vote_webhook refers to it.
WriteVoter(t) ==
    /\ request[t].at = "accepted" /\ RequestMoves(t, "voter")
    /\ userRows' = SeenUser(userRows, request[t].user, "NULL")
    /\ UNCHANGED <<posts, acknowledged, answered, webhookRows, unanswered, userVotes, voteCommand>>

\* Mutant: the error of the second statement is only printed.
WriteWebhookSwallows(t) ==
    /\ request[t].at \in {"accepted", "voter"} /\ RequestMoves(t, "stored")
    /\ UNCHANGED <<posts, acknowledged, answered, userRows, webhookRows, unanswered, userVotes,
                   voteCommand>>

\* Nothing tells that the vote has been stored before.
WriteWebhook(t) ==
    /\ request[t].at = "voter" /\ RequestMoves(t, "stored")
    /\ webhookRows' = More(webhookRows, request[t].user)
    /\ UNCHANGED <<posts, acknowledged, answered, userRows, unanswered, userVotes, voteCommand>>

\* Either statement fails: the rejection is answered with an error.
WriteFails(t) ==
    /\ request[t].at \in {"accepted", "voter"} /\ RequestEnds(t)
    /\ UNCHANGED <<posts, acknowledged, answered, userRows, webhookRows, unanswered, userVotes,
                   voteCommand>>

\* process_webhook answers with success.
Acknowledge(t) ==
    /\ request[t].at = "stored" /\ RequestEnds(t)
    /\ acknowledged' = acknowledged \union {request[t].user}
    /\ answered' = More(answered, request[t].user)
    /\ UNCHANGED <<posts, userRows, webhookRows, unanswered, userVotes, voteCommand>>

\* The answer is lost, or the service stops between the two.
AnswerLost(t) ==
    /\ request[t].at # "none" /\ RequestEnds(t)
    /\ unanswered' = IF request[t].at = "stored" THEN More(unanswered, request[t].user)
                                                 ELSE unanswered
    /\ UNCHANGED <<posts, acknowledged, answered, userRows, webhookRows, userVotes, voteCommand>>

-----------------------------------------------------------------------------
(* The vote command *)

CommandMoves(t, place) == voteCommand' = [voteCommand EXCEPT ![t].at = place]
CommandEnds(t) == voteCommand' = [voteCommand EXCEPT ![t] = NoRequest]

\* The vote command starts, or a caller of check_and_record_vote of vote.rs.
AskVoted(t, u) ==
    /\ voteCommand[t] = NoRequest
    /\ voteCommand' = [voteCommand EXCEPT ![t] = [user |-> u, at |-> "asked"]]
    /\ UNCHANGED <<posts, acknowledged, answered, request, userRows, webhookRows, unanswered,
                   userVotes>>

\* As the command is wired, ContextExt::check_and_record_vote ends in panic!("Not
\* implemented") before it asks anybody; vote.rs ends likewise when its query fails,
\* and without a record when there is nothing new.
EndsUnrecorded(t) ==
    /\ voteCommand[t].at = "asked" /\ CommandEnds(t)
    /\ UNCHANGED <<posts, acknowledged, answered, request, userRows, webhookRows, unanswered,
                   userVotes>>

\* check_and_record_vote of vote.rs: top.gg says yes, and no vote of the last 12 hours
\* is in the database.
FindsNewVote(t) ==
    /\ voteCommand[t].at = "asked" /\ CommandMoves(t, "new")
    /\ posts[voteCommand[t].user] > 0 /\ userVotes[voteCommand[t].user] = 0
    /\ UNCHANGED <<posts, acknowledged, answered, request, userRows, webhookRows, unanswered,
                   userVotes>>

\* insert_or_update_user stores the name.
RecordUser(t) ==
    /\ voteCommand[t].at = "new" /\ CommandMoves(t, "known")
    /\ userRows' = Put(userRows, voteCommand[t].user, "name")
    /\ UNCHANGED <<posts, acknowledged, answered, request, webhookRows, unanswered, userVotes>>

\* insert_user_vote.
RecordVote(t) ==
    /\ voteCommand[t].at = "known" /\ CommandEnds(t)
    /\ userVotes' = More(userVotes, voteCommand[t].user)
    /\ UNCHANGED <<posts, acknowledged, answered, request, userRows, webhookRows, unanswered>>

RecordFails(t) ==
    /\ voteCommand[t].at \in {"new", "known"} /\ CommandEnds(t)
    /\ UNCHANGED <<posts, acknowledged, answered, request, userRows, webhookRows, unanswered,
                   userVotes>>

-----------------------------------------------------------------------------
VoteNext ==
    \E t \in Tasks :
      \/ \E u \in Voters : PostVote(t, u) \/ AskVoted(t, u)
      \/ Accept(t) \/ Refuse(t) \/ WriteVoter(t) \/ WriteWebhook(t) \/ WriteFails(t)
      \/ Acknowledge(t) \/ AnswerLost(t)
      \/ EndsUnrecorded(t) \/ FindsNewVote(t) \/ RecordUser(t) \/ RecordVote(t)
      \/ RecordFails(t)

VoteSpec == VoteInit /\ [][VoteNext]_voteVars

\* Requests, commands, tables and counters are well formed; whoever is dealt with is a
\* voter; rows refer to users that exist.
VoteTypeOK ==
    /\ posts \in [Voters -> 0..MaxPosts]
    /\ acknowledged \subseteq Voters
    /\ request \in [Tasks -> [user : Voters \union {None}, at : RequestPlaces]]
    /\ voteCommand \in [Tasks -> [user : Voters \union {None}, at : CommandPlaces]]
    /\ \A t \in Tasks :
         /\ request[t].at # "none" => request[t].user \in Voters
         /\ voteCommand[t].at # "none" => voteCommand[t].user \in Voters
         /\ request[t].at \in {"voter", "stored"} => request[t].user \in DOMAIN userRows
    /\ DOMAIN userRows \subseteq Voters
    /\ \A u \in DOMAIN userRows : userRows[u] \in {"NULL", "name"}
    /\ {answered, unanswered, webhookRows, userVotes} \subseteq [Voters -> Nat]
    /\ \A u \in Voters : webhookRows[u] + userVotes[u] > 0 => u \in DOMAIN userRows

Stored(u) == {t \in Tasks : request[t].user = u /\ request[t].at = "stored"}

\* Whatever fails, gets lost or is posted again, the rows of a vote are the deliveries that
\* were stored: one for each that was answered with success, one for each whose answer was
\* lost, and one for each that is about to be answered.  So a vote that top.gg takes for
\* delivered is in the database; and since the service cannot tell a vote from its
\* repetition, it is there twice when an answer is lost, and when two deliveries overlap
\* and are both answered with success.
WebhookRowsExplained ==
    \A u \in Voters :
      /\ webhookRows[u] = answered[u] + unanswered[u] + Cardinality(Stored(u))
      /\ u \in acknowledged => answered[u] > 0
=============================================================================
