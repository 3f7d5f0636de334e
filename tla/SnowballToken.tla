---------------------------- MODULE SnowballToken ----------------------------
(***************************************************************************)
(* The token of the Snowball client (etl/fetchers/snowball_client.py).     *)
(* Threads share the library's token and three globals about it; the       *)
(* environment is read anew for each request, so that a token can be       *)
(* replaced while the program runs.  A token stands for the candidates     *)
(* that the environment's variables give: the first is always taken, since *)
(* setting it does not fail.                                               *)
(***************************************************************************)
EXTENDS Naturals

CONSTANTS
  Threads,
  Tokens,
  Nothing   \* no token

VARIABLES
  env,       \* the environment's token
  accepted,  \* the tokens the server accepts
  current,   \* the library's token
  ready,     \* _TOKEN_READY with its fingerprint
  blocked,   \* _TOKEN_BLOCKED with its value
  call,      \* what each thread is at: its step, attempt and the token it read
  rejected,  \* history: tokens that the server rejected
  unsure     \* history: tokens that came or went while a call was under way

vars == <<env, accepted, current, ready, blocked, call, rejected, unsure>>

Idle == [at |-> "idle", attempt |-> 0, seen |-> Nothing]

Init ==
  /\ env \in Tokens \cup {Nothing} /\ accepted \in SUBSET Tokens
  /\ current = Nothing /\ ready = Nothing /\ blocked = Nothing
  /\ call = [t \in Threads |-> Idle]
  /\ rejected = {} /\ unsure = {}

Goes(t, at) == call' = [call EXCEPT ![t].at = at]
Returns(t) == call' = [call EXCEPT ![t] = Idle]
History == UNCHANGED <<rejected, unsure>>

-----------------------------------------------------------------------------
(* _call_with_token_retry *)

\* _ensure_token, first of all or to refresh: the candidates are read, ...
ReadCandidates(t) ==
  /\ call[t].at \in {"idle", "refresh"}
  /\ IF env = Nothing
     THEN IF call[t].at = "idle" THEN UNCHANGED call ELSE Goes(t, "block")
     ELSE call' = [call EXCEPT ![t].at = "ensure", ![t].seen = env]
  /\ UNCHANGED <<env, accepted, current, ready, blocked>> /\ History

\* ... and taken, unless they are the blocked ones.  A refresh that fails goes
\* on to block.
Ensure(t) ==
  /\ call[t].at = "ensure"
  /\ IF blocked = call[t].seen
     THEN /\ IF call[t].attempt = 0 THEN Returns(t) ELSE Goes(t, "block")
          /\ UNCHANGED <<current, ready, blocked>>
     ELSE /\ blocked' = Nothing
          /\ current' = IF ready = call[t].seen THEN current ELSE call[t].seen
          /\ ready' = call[t].seen
          /\ Goes(t, "send")
  /\ UNCHANGED <<env, accepted>> /\ History

\* The request is answered, or fails for another reason than the token.
Answered(t) ==
  /\ call[t].at = "send"
  /\ Returns(t)
  /\ UNCHANGED <<env, accepted, current, ready, blocked>> /\ History

\* Mutant: whatever failed, the token is blocked.
RejectedOrNot(t) ==
  /\ call[t].at = "send"
  /\ rejected' = IF current \in accepted THEN rejected ELSE rejected \cup {current}
  /\ IF call[t].attempt = 0
     THEN ready' = Nothing /\ call' = [call EXCEPT ![t].at = "refresh", ![t].attempt = 1]
     ELSE Goes(t, "block") /\ UNCHANGED ready
  /\ UNCHANGED <<env, accepted, current, blocked, unsure>>

\* The server asks for a login: the token is refreshed once.
Rejected(t) ==
  /\ call[t].at = "send" /\ current \notin accepted
  /\ rejected' = rejected \cup {current}
  /\ IF call[t].attempt = 0
     THEN ready' = Nothing /\ call' = [call EXCEPT ![t].at = "refresh", ![t].attempt = 1]
     ELSE Goes(t, "block") /\ UNCHANGED ready
  /\ UNCHANGED <<env, accepted, current, blocked, unsure>>

\* _block_current_token blocks what the environment has by now.
Block(t) ==
  /\ call[t].at = "block"
  /\ ready' = Nothing
  /\ blocked' = IF env = Nothing THEN blocked ELSE env
  /\ Returns(t)
  /\ UNCHANGED <<env, accepted, current>> /\ History

-----------------------------------------------------------------------------
(* The outside *)

Replace(token) ==
  /\ token # env
  /\ env' = token
  /\ unsure' = IF \E t \in Threads : call[t].at # "idle" THEN unsure \cup {env, token}
                                                        ELSE unsure \ ({token} \ {blocked})
  /\ UNCHANGED <<accepted, current, ready, blocked, call, rejected>>

\* A token expires, or is accepted again.
ServerChanges(tokens) ==
  /\ accepted' = tokens
  /\ UNCHANGED <<env, current, ready, blocked, call>> /\ History

Next ==
  \/ \E t \in Threads :
       ReadCandidates(t) \/ Ensure(t) \/ Answered(t) \/ Rejected(t) \/ Block(t)
  \/ \E token \in Tokens \cup {Nothing} : Replace(token)
  \/ \E tokens \in SUBSET Tokens : ServerChanges(tokens)

Spec == Init /\ [][Next]_vars

-----------------------------------------------------------------------------
(* Properties *)

TypeOK ==
  /\ {env, current, ready, blocked} \subseteq Tokens \cup {Nothing}
  /\ {accepted, rejected} \subseteq SUBSET Tokens /\ unsure \subseteq Tokens \cup {Nothing}
  /\ call \in [Threads -> [at : {"idle", "refresh", "ensure", "send", "block"},
                           attempt : {0, 1}, seen : Tokens \cup {Nothing}]]

\* Only a token that the server rejected is blocked, whatever threads share
\* the library's token, unless the token was replaced under a call: a call
\* that was rejected with the old one then blocks the new one untried.
BlockedWasRejected == blocked \in rejected \cup unsure \cup {Nothing}
=============================================================================
