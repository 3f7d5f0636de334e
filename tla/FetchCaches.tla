----------------------------- MODULE FetchCaches -----------------------------
(***************************************************************************)
(* Two caches of the Snowball client (etl/fetchers/snowball_client.py) for *)
(* answers that AkShare gives for a whole market: the quotes of Hong Kong, *)
(* and the list of stocks that may be bought on margin.  Threads look      *)
(* under a lock, fetch without it, and store under it.  A unit of time is  *)
(* the time that a cached answer lives; the data has the time of its       *)
(* fetch's begin.                                                          *)
(***************************************************************************)
EXTENDS Naturals

CONSTANTS
  Threads,
  LastDay,  \* bound: units of time
  Nothing   \* no data

Kinds == {"spot", "margin"}

VARIABLES
  day,     \* the time
  cache,   \* per kind, the data and when it was stored; Nothing before the first
  call,    \* what each thread is at
  failed,  \* history: when a fetch of each kind was last given up
  got      \* history: kinds of which a fetch succeeded

vars == <<day, cache, call, failed, got>>

Idle == [at |-> "idle", kind |-> "spot", of |-> Nothing, since |-> 0, refresh |-> TRUE]

Init ==
  /\ day = 1
  /\ cache = [k \in Kinds |-> [of |-> Nothing, at |-> 0]]
  /\ call = [t \in Threads |-> Idle]
  /\ failed = [k \in Kinds |-> 0] /\ got = {}

\* A margin list may be cached that is empty, since no fetch succeeded.
Fresh(k) == cache[k].at # 0 /\ day <= cache[k].at + 1 /\ (k = "spot" => cache[k].of # Nothing)

Answers(t, kind, data, refresh) ==
  call' = [call EXCEPT ![t] = [at |-> "answered", kind |-> kind, of |-> data,
                               since |-> day, refresh |-> refresh]]

\* A batch of quotes asks for no refresh, and goes without.
LookForQuotes(t) ==
  /\ call[t].at = "idle"
  /\ Answers(t, "spot", IF Fresh("spot") THEN cache["spot"].of ELSE Nothing, FALSE)
  /\ UNCHANGED <<day, cache, failed, got>>

Look(t, kind) ==
  /\ call[t].at = "idle"
  /\ IF Fresh(kind) THEN Answers(t, kind, cache[kind].of, TRUE)
     ELSE call' = [call EXCEPT ![t] = [Idle EXCEPT !.at = "fetch", !.kind = kind, !.since = day]]
  /\ UNCHANGED <<day, cache, failed, got>>

\* The source answers with the data of when it was asked, or fails; the margin
\* list's of the last days are tried.
Fetch(t, succeeds) ==
  /\ call[t].at = "fetch"
  /\ call' = [call EXCEPT ![t].at = "store", ![t].of = IF succeeds THEN call[t].since ELSE Nothing]
  /\ UNCHANGED <<day, cache, failed, got>>

\* What is known afterwards of fetches.
Notes(t) ==
  /\ got' = IF call[t].of = Nothing THEN got ELSE got \cup {call[t].kind}
  /\ failed' = IF call[t].of = Nothing THEN [failed EXCEPT ![call[t].kind] = day] ELSE failed

\* Mutant: a failure is stored over the quotes.
StoreSpotAnyway(t) ==
  /\ call[t].at = "store" /\ call[t].kind = "spot"
  /\ cache' = [cache EXCEPT !["spot"] = [of |-> call[t].of, at |-> day]]
  /\ Answers(t, "spot", call[t].of, TRUE)
  /\ Notes(t)
  /\ UNCHANGED day

\* Quotes replace the cached ones if there are any; then the cached ones are
\* returned, however old.
StoreSpot(t) ==
  /\ call[t].at = "store" /\ call[t].kind = "spot"
  /\ cache' = IF call[t].of = Nothing THEN cache
              ELSE [cache EXCEPT !["spot"] = [of |-> call[t].of, at |-> day]]
  /\ Answers(t, "spot", cache'["spot"].of, TRUE)
  /\ Notes(t)
  /\ UNCHANGED day

\* The list is replaced, by an empty one too.
StoreMargin(t) ==
  /\ call[t].at = "store" /\ call[t].kind = "margin"
  /\ cache' = [cache EXCEPT !["margin"] = [of |-> call[t].of, at |-> day]]
  /\ Answers(t, "margin", call[t].of, TRUE)
  /\ Notes(t)
  /\ UNCHANGED day

Return(t) ==
  /\ call[t].at = "answered"
  /\ call' = [call EXCEPT ![t] = Idle]
  /\ UNCHANGED <<day, cache, failed, got>>

Tick ==
  /\ day < LastDay
  /\ day' = day + 1
  /\ UNCHANGED <<cache, call, failed, got>>

Next ==
  \/ \E t \in Threads :
       \/ LookForQuotes(t)
       \/ \E kind \in Kinds : Look(t, kind)
       \/ \E succeeds \in BOOLEAN : Fetch(t, succeeds)
       \/ StoreSpot(t)
       \/ StoreMargin(t)
       \/ Return(t)
  \/ Tick

Spec == Init /\ [][Next]_vars

-----------------------------------------------------------------------------
(* Properties *)

TypeOK ==
  /\ day \in 1..LastDay /\ got \subseteq Kinds
  /\ \A k \in Kinds : cache[k].of \in 1..day \cup {Nothing} /\ cache[k].at \in 0..day
  /\ \A t \in Threads : call[t].at \in {"idle", "fetch", "store", "answered"} /\ call[t].kind \in Kinds

\* A failed fetch costs no quotes that were fetched before, whatever threads
\* store out of turn, and empties the margin list for no longer than an answer
\* lives.
FailuresPass ==
  /\ "spot" \in got => cache["spot"].of # Nothing
  /\ \A t \in Threads :
       call[t].at = "answered" /\ call[t].kind = "margin" /\ call[t].of = Nothing =>
         failed["margin"] # 0 /\ call[t].since <= failed["margin"] + 1
=============================================================================
