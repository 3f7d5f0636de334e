----------------------------- MODULE LiveAnswers ----------------------------
(***************************************************************************)
(* The answers about one stock in services/live_market/core.py: prices,    *)
(* financials, the fundamental score, indicators and research.  A request  *)
(* takes the first source whose answer is good: the cache, the database,   *)
(* the provider; else the best that is left.  Risk figures are computed    *)
(* from the prices and cached on their own.                                *)
(***************************************************************************)
EXTENDS Naturals, FiniteSetsExt

CONSTANTS Callers  \* request threads

\* nothing, rows without a signal or too few of them, and a good answer
None == 0
Poor == 1
Good == 2
Qualities == None..Good

VARIABLES
  kind,   \* what the behaviour is about
  local,  \* what the database has
  cache,  \* what the cache has
  risk,   \* the quality of the prices that the cached risk was made of
  call    \* what each thread is at, what it found, its answer and whether the
          \* answer is to be cached

vars == <<kind, local, cache, risk, call>>

Kinds == {"kline", "financials", "fundamental", "indicator", "research"}

\* Indicators and research are there or not.
Sources == IF kind \in {"indicator", "research"} THEN {None, Good} ELSE Qualities

Idle == [at |-> "idle", risk |-> FALSE, seen |-> None, here |-> None, answer |-> None,
         keep |-> FALSE]

Init ==
  /\ kind \in Kinds
  /\ local \in Sources /\ cache = None /\ risk = None
  /\ call = [c \in Callers |-> Idle]

Answers(c, quality, keep) ==
  call' = [call EXCEPT ![c].at = "answer", ![c].answer = quality, ![c].keep = keep]

-----------------------------------------------------------------------------
(* Requests *)

\* get_live_kline, ..., or get_live_risk_snapshot, which asks for prices when
\* no risk is cached.
Begin(c) ==
  /\ call[c].at = "idle"
  /\ \E r \in BOOLEAN :
       /\ r => kind = "kline" /\ risk = None
       /\ call' = [call EXCEPT ![c] = [Idle EXCEPT !.at = "cache", !.risk = r]]
  /\ UNCHANGED <<kind, local, cache, risk>>

LookInCache(c) ==
  /\ call[c].at = "cache"
  /\ call' = [call EXCEPT ![c].seen = cache,
                          ![c].at = IF cache = Good THEN "answer" ELSE "local",
                          ![c].answer = IF cache = Good THEN Good ELSE None]
  /\ UNCHANGED <<kind, local, cache, risk>>

\* A score made of good rows may still be unusable; then it is not cached.
LookInDatabase(c) ==
  /\ call[c].at = "local"
  /\ IF local = Good
       THEN \/ call' = [call EXCEPT ![c].at = "answer", ![c].here = Good,
                                    ![c].answer = Good, ![c].keep = TRUE]
            \/ kind = "fundamental"
               /\ call' = [call EXCEPT ![c].at = "answer", ![c].here = Good, ![c].answer = Poor]
       ELSE call' = [call EXCEPT ![c].at = "remote", ![c].here = local]
  /\ UNCHANGED <<kind, local, cache, risk>>

\* Mutant: without points from the provider the answer is the database's.
RemoteForgetsCache(c) ==
  /\ call[c].at = "remote" /\ kind = "kline"
  /\ \E remote \in Qualities, row \in {None, Poor} :
       LET points == IF remote # None THEN remote ELSE IF row # None THEN row ELSE call[c].here
       IN Answers(c, points, points # None)
  /\ UNCHANGED <<kind, local, cache, risk>>

\* Prices: the provider's, else today's row made of the quote, else what was
\* found before.
RemoteKline(c) ==
  /\ call[c].at = "remote" /\ kind = "kline"
  /\ \E remote \in Qualities, row \in {None, Poor} :
       LET found == IF call[c].here # None THEN call[c].here ELSE call[c].seen
           points == IF remote # None THEN remote ELSE IF row # None THEN row ELSE found
       IN Answers(c, points, points # None)
  /\ UNCHANGED <<kind, local, cache, risk>>

\* Financials and the score: rows without a signal are no answer.
RemoteFinancials(c) ==
  /\ call[c].at = "remote" /\ kind \in {"financials", "fundamental"}
  /\ \E remote \in Qualities :
       \/ Answers(c, IF remote = Good THEN Good ELSE None, remote = Good)
       \/ kind = "fundamental" /\ remote = Good /\ Answers(c, Poor, FALSE)
  /\ UNCHANGED <<kind, local, cache, risk>>

\* Indicators are computed from the provider's prices, or there are none.
RemoteIndicator(c) ==
  /\ call[c].at = "remote" /\ kind = "indicator"
  /\ \E remote \in {None, Good} : Answers(c, remote, remote # None)
  /\ UNCHANGED <<kind, local, cache, risk>>

\* Research: reports and forecasts, either of which may be missing.
RemoteResearch(c) ==
  /\ call[c].at = "remote" /\ kind = "research"
  /\ \E remote \in {None, Good} : Answers(c, remote, remote # None)
  /\ UNCHANGED <<kind, local, cache, risk>>

\* The database, or the provider's client, raises.
Fail(c) ==
  /\ call[c].at \in {"local", "remote"}
  /\ call' = [call EXCEPT ![c] = Idle]
  /\ UNCHANGED <<kind, local, cache, risk>>

\* set_json, and the risk made of the prices.
Finish(c) ==
  /\ call[c].at = "answer"
  /\ cache' = IF call[c].keep THEN call[c].answer ELSE cache
  /\ risk' = IF call[c].risk /\ call[c].answer # None THEN call[c].answer ELSE risk
  /\ call' = [call EXCEPT ![c] = Idle]
  /\ UNCHANGED <<kind, local>>

EtlStores ==
  /\ local' \in Sources
  /\ UNCHANGED <<kind, cache, risk, call>>

\* LIVE_CACHE_TTL of either is over.
Expire ==
  /\ \/ cache' = None /\ risk' = risk
     \/ risk' = None /\ cache' = cache
  /\ UNCHANGED <<kind, local, call>>

Next ==
  \/ \E c \in Callers :
       \/ Begin(c)
       \/ LookInCache(c)
       \/ LookInDatabase(c)
       \/ RemoteKline(c)
       \/ RemoteFinancials(c)
       \/ RemoteIndicator(c)
       \/ RemoteResearch(c)
       \/ Fail(c)
       \/ Finish(c)
  \/ EtlStores
  \/ Expire

Spec == Init /\ [][Next]_vars

-----------------------------------------------------------------------------
(* Properties *)

TypeOK ==
  /\ kind \in Kinds /\ {local, cache, risk} \subseteq Qualities
  /\ \A c \in Callers :
       /\ call[c].at \in {"idle", "cache", "local", "remote", "answer"}
       /\ {call[c].seen, call[c].here, call[c].answer} \subseteq Qualities

\* No request comes away with less than it had in hand: one that saw prices,
\* few as they may be, answers with prices when the provider fails; one that
\* saw good rows gives an answer.  What is cached is never empty, and rows of
\* financials without a signal are neither shown nor cached.
BestInHand ==
  /\ \A c \in Callers : call[c].at = "answer" =>
       /\ kind = "kline" /\ Max({call[c].seen, call[c].here}) # None => call[c].answer # None
       /\ Good \in {call[c].seen, call[c].here} => call[c].answer # None
       /\ kind = "financials" => call[c].answer # Poor
       /\ call[c].keep => call[c].answer # None
  /\ kind \notin {"kline"} => cache # Poor
=============================================================================
