--------------------------- MODULE EtlJobsProofs ---------------------------
(***************************************************************************)
(* TLAPS proofs about the parts of the ETL in MCEtlJobs, for any threads,  *)
(* stocks, names and tables.  A part's invariant is shown for the part's   *)
(* own module; what the run checks follows because a behaviour stays with  *)
(* one part.                                                               *)
(***************************************************************************)
EXTENDS MCEtlJobs, FiniteSetTheorems, TLAPS

-----------------------------------------------------------------------------
(* The parts *)

\* A step of a behaviour is a step of its part.
LEMMA PartStep ==
  ASSUME [EtlNext]_allVars
  PROVE  /\ part' = part
         /\ part = "details" => [Details!Next]_(Details!vars)
         /\ part = "history" => [History!Next]_(History!vars)
         /\ part = "basics file" => [BasicsFile!Next]_(BasicsFile!vars)
         /\ part = "basics" => [Basics!Next]_(Basics!vars)
         /\ part = "token" => [Token!Next]_(Token!vars)
         /\ part = "relations" => [Relations!Next]_(Relations!vars)
         /\ part = "loader" => [Loader!Next]_(Loader!vars)
         /\ part = "market caches" => [MarketCaches!Next]_(MarketCaches!vars)
         /\ part = "requests" => [Requests!Next]_(Requests!vars)
BY DEF EtlNext, allVars, Details!vars, History!vars, BasicsFile!vars, Basics!vars, Token!vars,
       Relations!vars, Loader!vars, MarketCaches!vars, Requests!vars

-----------------------------------------------------------------------------
(* Batches of a list *)

\* How many of S come before s.
Before(S, s) == Cardinality({t \in S : t < s})

\* The members of S whose places, from 0, are size ones from n on.
Slice(S, n, size) == {s \in S : Before(S, s) \in n..(n + size - 1)}

LEMMA BeforeGrows ==
  ASSUME NEW S \in SUBSET Nat, IsFiniteSet(S)
  PROVE  /\ Cardinality(S) \in Nat
         /\ \A s \in S : Before(S, s) \in 0..(Cardinality(S) - 1)
         /\ \A s, t \in S : s < t => Before(S, s) < Before(S, t)
<1>1. ASSUME NEW s \in S PROVE Before(S, s) \in 0..(Cardinality(S) - 1)
  <2> DEFINE T == {t \in S : t < s}
  <2>1. T \in SUBSET S /\ s \notin T
    OBVIOUS
  <2>2. IsFiniteSet(T) /\ Cardinality(T) <= Cardinality(S) /\ Cardinality(T) # Cardinality(S)
    BY <2>1, FS_Subset
  <2>3. Cardinality(T) \in Nat /\ Cardinality(S) \in Nat
    BY <2>2, FS_CardinalityType
  <2> QED
    BY <2>2, <2>3 DEF Before
<1>2. ASSUME NEW s \in S, NEW t \in S, s < t PROVE Before(S, s) < Before(S, t)
  <2> DEFINE A == {u \in S : u < s}
             B == {u \in S : u < t}
  <2>1. IsFiniteSet(A) /\ IsFiniteSet(B)
    BY FS_Subset
  <2>2. A \in SUBSET B /\ s \in B /\ s \notin A
    <3>1. s \in Nat /\ t \in Nat /\ \A u \in S : u \in Nat
      OBVIOUS
    <3>2. \A u \in S : u < s => u < t
      BY <1>2, <3>1
    <3>3. ~(s < s)
      BY <3>1
    <3> QED
      BY <1>2, <3>2, <3>3
  <2>3. Cardinality(A) <= Cardinality(B) /\ Cardinality(A) # Cardinality(B)
    BY <2>1, <2>2, FS_Subset
  <2>4. Cardinality(A) \in Nat /\ Cardinality(B) \in Nat
    BY <2>1, FS_CardinalityType
  <2> QED
    BY <2>3, <2>4 DEF Before
<1> QED
  BY <1>1, <1>2, FS_CardinalityType

\* Every place of S is taken by one of its members.
LEMMA PlacesTaken ==
  ASSUME NEW S \in SUBSET Nat, IsFiniteSet(S)
  PROVE  /\ \A s, t \in S : Before(S, s) = Before(S, t) => s = t
         /\ \A i \in 0..(Cardinality(S) - 1) : \E s \in S : Before(S, s) = i
<1> DEFINE n == Cardinality(S)
           f == [s \in S |-> Before(S, s)]
<1>1. n \in Nat /\ IsFiniteSet(0..(n - 1)) /\ Cardinality(0..(n - 1)) = n
  <2>1. n \in Nat
    BY BeforeGrows
  <2> HIDE DEF n
  <2>2. 0 \in Int /\ n - 1 \in Int
    BY <2>1
  <2> QED
    BY <2>1, <2>2, FS_Interval
<1>2. ASSUME NEW s \in S, NEW t \in S, Before(S, s) = Before(S, t) PROVE s = t
  <2>1. s \in Nat /\ t \in Nat /\ Before(S, s) \in Nat /\ Before(S, t) \in Nat
    BY <1>1, BeforeGrows
  <2>2. ~(s < t) /\ ~(t < s)
    BY <1>2, <2>1, BeforeGrows
  <2> QED
    BY <2>1, <2>2
<1>3. f \in Injection(S, 0..(n - 1))
  BY <1>2, BeforeGrows DEF Injection, IsInjective
<1>4. f \in Surjection(S, 0..(n - 1))
  BY <1>1, <1>3, FS_Injection
<1> QED
  BY <1>2, <1>4 DEF Surjection

\* A batch goes no further than its list, is empty at the end only, and with
\* what came before it there is no gap.
LEMMA SliceSays ==
  ASSUME NEW S \in SUBSET Nat, IsFiniteSet(S), NEW n \in 0..Cardinality(S), NEW size \in Nat \ {0}
  PROVE  /\ IsFiniteSet(Slice(S, n, size)) /\ Cardinality(Slice(S, n, size)) \in Nat
         /\ n + Cardinality(Slice(S, n, size)) \in 0..Cardinality(S)
         /\ Slice(S, n, size) = {} <=> n = Cardinality(S)
         /\ n # Cardinality(S) => Cardinality(Slice(S, n, size)) # 0
         /\ \A s \in S : Before(S, s) < n + Cardinality(Slice(S, n, size)) =>
                           Before(S, s) < n \/ s \in Slice(S, n, size)
<1> DEFINE Q == Slice(S, n, size)
           last == IF n + size <= Cardinality(S) THEN n + size - 1 ELSE Cardinality(S) - 1
           f == [s \in Q |-> Before(S, s)]
<1>1. Cardinality(S) \in Nat /\ IsFiniteSet(Q)
  BY BeforeGrows, FS_Subset DEF Slice
<1>2. /\ last \in Int /\ n <= last + 1 /\ last + 1 <= Cardinality(S)
      /\ n - 1 = last <=> n = Cardinality(S)
      /\ \A i \in 0..(Cardinality(S) - 1) : i \in n..(n + size - 1) <=> i \in n..last
  BY <1>1
<1> HIDE DEF last
<1>3. Q = {s \in S : Before(S, s) \in n..last}
  BY <1>2, BeforeGrows DEF Slice
<1> HIDE DEF Q
<1>4. f \in Injection(Q, n..last)
  BY <1>3, PlacesTaken DEF Injection, IsInjective
<1>5. ASSUME NEW i \in n..last PROVE \E s \in Q : Before(S, s) = i
  <2>1. i \in 0..(Cardinality(S) - 1)
    BY <1>1, <1>2
  <2>2. PICK s \in S : Before(S, s) = i
    BY <2>1, PlacesTaken
  <2> QED
    BY <1>3, <2>2
<1>6. f \in Surjection(Q, n..last)
  BY <1>4, <1>5 DEF Surjection, Injection
<1>7. Cardinality(Q) = Cardinality(n..last) /\ Cardinality(n..last) = last - n + 1
  BY <1>1, <1>2, <1>4, <1>6, FS_Surjection, FS_Interval
<1>8. Q = {} <=> Cardinality(Q) = 0
  BY <1>1, FS_EmptySet
<1>9. ASSUME NEW s \in S, Before(S, s) < n + Cardinality(Q) PROVE Before(S, s) < n \/ s \in Q
  <2>1. Before(S, s) \in Nat
    BY <1>1, BeforeGrows
  <2> QED
    BY <1>2, <1>3, <1>7, <1>9, <2>1
<1> QED
  BY <1>1, <1>2, <1>7, <1>8, <1>9 DEF Q


-----------------------------------------------------------------------------
(* The token *)

TokenCalls == [at : {"idle", "refresh", "ensure", "send", "block"}, attempt : {0, 1}, seen : Tokens \cup {Nothing}]

TokenTypes ==
  /\ env \in Tokens \cup {Nothing} /\ current \in Tokens \cup {Nothing}
  /\ ready \in Tokens \cup {Nothing} /\ blocked \in Tokens \cup {Nothing}
  /\ accepted \in SUBSET Tokens /\ rejected \in SUBSET Tokens /\ unsure \in SUBSET (Tokens \cup {Nothing})
  /\ call \in [Threads -> TokenCalls]

\* What a thread is at goes with the environment's token of now.
TokenOfNow(c) ==
  /\ c.at = "ensure" => c.seen = env
  /\ c.at = "send" => current = env
  /\ c.at = "block" => env \in rejected \cup {Nothing}

\* A thread that has read a token has one, and a token that is ready is the
\* library's.  Unless the environment's token came under a call, all calls are
\* about it.
TokenInv ==
  /\ TokenTypes /\ Token!BlockedWasRejected
  /\ \A t \in Threads : /\ call[t].at = "ensure" => call[t].seen # Nothing
                        /\ call[t].at = "send" => current # Nothing
  /\ ready # Nothing => current = ready
  /\ env \in unsure \/ \A t \in Threads : TokenOfNow(call[t])

LEMMA TokenInit == ASSUME Token!Init PROVE TokenInv
BY DEF Token!Init, Token!Idle, TokenInv, TokenTypes, TokenCalls, TokenOfNow, Token!BlockedWasRejected

LEMMA TokenStep == ASSUME TokenInv, [Token!Next]_(Token!vars) PROVE TokenInv'
<1>0. Token!Idle \in TokenCalls /\ Token!Idle.at = "idle"
  BY DEF Token!Idle, TokenCalls
<1>1. CASE UNCHANGED Token!vars
  BY <1>1 DEF Token!vars, TokenInv, TokenTypes, TokenOfNow, Token!BlockedWasRejected
<1>2. ASSUME NEW t \in Threads, Token!ReadCandidates(t) PROVE TokenInv'
  BY <1>2 DEF Token!ReadCandidates, Token!Goes, Token!History, TokenInv, TokenTypes, TokenCalls, TokenOfNow,
              Token!BlockedWasRejected
<1>3. ASSUME NEW t \in Threads, Token!Ensure(t) PROVE TokenInv'
  <2>1. CASE blocked = call[t].seen
    BY <1>0, <1>3, <2>1 DEF Token!Ensure, Token!Goes, Token!Returns, Token!History, TokenInv, TokenTypes,
       TokenCalls,
                      TokenOfNow, Token!BlockedWasRejected
  <2>2. CASE blocked # call[t].seen
    <3>1. current' = call[t].seen /\ ready' = call[t].seen /\ blocked' = Nothing
      BY <1>3, <2>2 DEF Token!Ensure, TokenInv
    <3>2. call' = [call EXCEPT ![t].at = "send"] /\ UNCHANGED <<env, accepted, rejected, unsure>>
      BY <1>3, <2>2 DEF Token!Ensure, Token!Goes, Token!History
    <3> QED
      BY <1>3, <3>1, <3>2 DEF Token!Ensure, TokenInv, TokenTypes, TokenCalls, TokenOfNow, Token!BlockedWasRejected
  <2> QED
    BY <2>1, <2>2
<1>4. ASSUME NEW t \in Threads, Token!Answered(t) PROVE TokenInv'
  BY <1>0, <1>4 DEF Token!Answered, Token!Returns, Token!History, TokenInv, TokenTypes, TokenOfNow,
     Token!BlockedWasRejected
<1>5. ASSUME NEW t \in Threads, Token!Rejected(t) PROVE TokenInv'
  BY <1>5 DEF Token!Rejected, Token!Goes, TokenInv, TokenTypes, TokenCalls, TokenOfNow, Token!BlockedWasRejected
<1>6. ASSUME NEW t \in Threads, Token!Block(t) PROVE TokenInv'
  BY <1>0, <1>6 DEF Token!Block, Token!Returns, Token!History, TokenInv, TokenTypes, TokenOfNow,
     Token!BlockedWasRejected
<1>7. ASSUME NEW token \in Tokens \cup {Nothing}, Token!Replace(token) PROVE TokenInv'
  BY <1>7 DEF Token!Replace, TokenInv, TokenTypes, TokenOfNow, Token!BlockedWasRejected
<1>8. ASSUME NEW tokens \in SUBSET Tokens, Token!ServerChanges(tokens) PROVE TokenInv'
  BY <1>8 DEF Token!ServerChanges, Token!History, TokenInv, TokenTypes, TokenOfNow, Token!BlockedWasRejected
<1> QED
  BY <1>1, <1>2, <1>3, <1>4, <1>5, <1>6, <1>7, <1>8 DEF Token!Next

LEMMA TokenSays == ASSUME TokenInv PROVE Token!TypeOK
BY DEF TokenInv, TokenTypes, TokenCalls, Token!TypeOK


-----------------------------------------------------------------------------
(* The caches of market answers *)

CacheCalls ==
  [at : {"idle", "fetch", "store", "answered"}, kind : MarketCaches!Kinds, of : Nat \cup {Nothing},
   since : Nat, refresh : BOOLEAN]

\* Data is of a time that has passed.  The margin list is empty since its
\* fetch was given up last.
CacheInv ==
  /\ day \in 1..LastUnit /\ got \in SUBSET MarketCaches!Kinds
  /\ cache \in [MarketCaches!Kinds -> [of : Nat \cup {Nothing}, at : Nat]]
  /\ call \in [Threads -> CacheCalls]
  /\ failed \in [MarketCaches!Kinds -> Nat]
  /\ \A k \in MarketCaches!Kinds :
       /\ cache[k].of \in 1..day \cup {Nothing} /\ cache[k].at \in 0..day /\ failed[k] <= day
  /\ \A t \in Threads :
       /\ call[t].of \in 1..day \cup {Nothing}
       /\ call[t].at = "fetch" => call[t].since \in 1..day
  /\ cache["margin"].at # 0 /\ cache["margin"].of = Nothing => failed["margin"] = cache["margin"].at
  /\ MarketCaches!FailuresPass

LEMMA CacheInit == ASSUME MarketCaches!Init PROVE CacheInv
BY BoundsAssumption, NothingAssumption
   DEF MarketCaches!Init, MarketCaches!Idle, CacheInv, CacheCalls, MarketCaches!Kinds, MarketCaches!FailuresPass

\* A thread that goes on, without storing, is answered as it may be.
LEMMA CacheCallStep ==
  ASSUME CacheInv, NEW t \in Threads, NEW new \in CacheCalls, call' = [call EXCEPT ![t] = new],
         UNCHANGED <<day, cache, failed, got>>,
         new.of \in 1..day \cup {Nothing}, new.at = "fetch" => new.since \in 1..day,
         new.at = "answered" /\ new.kind = "margin" /\ new.of = Nothing =>
           failed["margin"] # 0 /\ new.since <= failed["margin"] + 1
  PROVE  CacheInv'
BY DEF CacheInv, MarketCaches!FailuresPass

\* A thread stores an answer, unless it has none, or an empty margin list.
LEMMA CacheStoreStep ==
  ASSUME CacheInv, NEW t \in Threads, NEW k \in MarketCaches!Kinds, NEW new \in CacheCalls,
         call[t].at = "store", call[t].kind = k, call' = [call EXCEPT ![t] = new],
         new.at = "answered", new.kind = k, new.since = day,
         cache' = [cache EXCEPT ![k] = [of |-> call[t].of, at |-> day]],
         k = "spot" => call[t].of # Nothing,
         new.of = call[t].of, MarketCaches!Notes(t), UNCHANGED day
  PROVE  CacheInv'
<1>1. CASE call[t].of = Nothing
  <2>1. k = "margin" /\ failed' = [failed EXCEPT !["margin"] = day] /\ got' = got
    BY <1>1 DEF MarketCaches!Notes, MarketCaches!Kinds
  <2>2. failed["margin"] \in Nat /\ failed["margin"] <= day /\ day \in 1..LastUnit /\ failed'["margin"] = day
    BY <2>1 DEF CacheInv, MarketCaches!Kinds
  <2>3. cache' \in [MarketCaches!Kinds -> [of : Nat \cup {Nothing}, at : Nat]] /\ cache'["spot"] = cache["spot"]
        /\ cache'["margin"].of = Nothing /\ cache'["margin"].at = day
    BY <1>1, <2>1, <2>2 DEF CacheInv, MarketCaches!Kinds
  <2>4. MarketCaches!FailuresPass'
    BY <2>1, <2>2, <2>3 DEF CacheInv, CacheCalls, MarketCaches!FailuresPass
  <2> QED
    BY <1>1, <2>1, <2>2, <2>3, <2>4 DEF CacheInv, MarketCaches!Kinds
<1>2. CASE call[t].of # Nothing
  BY <1>2 DEF CacheInv, MarketCaches!Notes, MarketCaches!FailuresPass, MarketCaches!Kinds
<1> QED
  BY <1>1, <1>2

LEMMA CacheStep == ASSUME CacheInv, [MarketCaches!Next]_(MarketCaches!vars) PROVE CacheInv'
<1>1. CASE UNCHANGED MarketCaches!vars
  BY <1>1 DEF MarketCaches!vars, CacheInv, MarketCaches!FailuresPass
\* What a fresh list answers.
<1>2. ASSUME MarketCaches!Fresh("margin"), cache["margin"].of = Nothing
      PROVE  failed["margin"] # 0 /\ day <= failed["margin"] + 1
  BY <1>2 DEF MarketCaches!Fresh, CacheInv, MarketCaches!Kinds
<1>3. ASSUME NEW t \in Threads, MarketCaches!LookForQuotes(t) PROVE CacheInv'
  <2> DEFINE data == IF MarketCaches!Fresh("spot") THEN cache["spot"].of ELSE Nothing
             new == [at |-> "answered", kind |-> "spot", of |-> data, since |-> day, refresh |-> FALSE]
  <2>1. data \in Nat \cup {Nothing} /\ data \in 1..day \cup {Nothing} /\ day \in Nat
        /\ "spot" \in MarketCaches!Kinds
    BY DEF CacheInv, MarketCaches!Kinds
  <2>2. call' = [call EXCEPT ![t] = new] /\ UNCHANGED <<day, cache, failed, got>>
    BY <1>3 DEF MarketCaches!LookForQuotes, MarketCaches!Answers
  <2> HIDE DEF data
  <2>3. new \in CacheCalls /\ new.of = data /\ new.at = "answered" /\ new.kind = "spot"
    BY <2>1 DEF CacheCalls
  <2> HIDE DEF new
  <2> QED
    BY <2>1, <2>2, <2>3, CacheCallStep
<1>4. ASSUME NEW t \in Threads, NEW k \in MarketCaches!Kinds, MarketCaches!Look(t, k) PROVE CacheInv'
  <2> DEFINE found == [at |-> "answered", kind |-> k, of |-> cache[k].of, since |-> day, refresh |-> TRUE]
             asks == [at |-> "fetch", kind |-> k, of |-> Nothing, since |-> day, refresh |-> TRUE]
  <2>1. cache[k].of \in Nat \cup {Nothing} /\ cache[k].of \in 1..day \cup {Nothing} /\ day \in Nat
        /\ day \in 1..day
    BY DEF CacheInv, MarketCaches!Kinds
  <2>2. UNCHANGED <<day, cache, failed, got>> /\ IF MarketCaches!Fresh(k) THEN call' = [call EXCEPT ![t] = found]
                                                                          ELSE call' = [call EXCEPT ![t] = asks]
    BY <1>4 DEF MarketCaches!Look, MarketCaches!Answers, MarketCaches!Idle
  <2>3. /\ found \in CacheCalls /\ asks \in CacheCalls
        /\ found.of = cache[k].of /\ found.at = "answered" /\ found.kind = k /\ found.since = day
        /\ asks.of = Nothing /\ asks.at = "fetch" /\ asks.since = day
    BY <2>1 DEF CacheCalls
  <2> HIDE DEF found, asks
  <2>4. CASE MarketCaches!Fresh(k)
    BY <1>2, <2>1, <2>2, <2>3, <2>4, CacheCallStep
  <2>5. CASE ~MarketCaches!Fresh(k)
    BY <2>1, <2>2, <2>3, <2>5, CacheCallStep
  <2> QED
    BY <2>4, <2>5
<1>5. ASSUME NEW t \in Threads, NEW succeeds \in BOOLEAN, MarketCaches!Fetch(t, succeeds) PROVE CacheInv'
  <2> DEFINE data == IF succeeds THEN call[t].since ELSE Nothing
             new == [call[t] EXCEPT !.at = "store", !.of = data]
  <2>1. data \in Nat \cup {Nothing} /\ data \in 1..day \cup {Nothing}
    BY <1>5 DEF CacheInv, CacheCalls, MarketCaches!Fetch
  <2>2. call' = [call EXCEPT ![t] = new] /\ UNCHANGED <<day, cache, failed, got>>
    BY <1>5 DEF MarketCaches!Fetch, CacheInv
  <2> HIDE DEF data
  <2>3. new \in CacheCalls /\ new.of = data /\ new.at = "store"
    BY <2>1 DEF CacheInv, CacheCalls
  <2> HIDE DEF new
  <2> QED
    BY <2>1, <2>2, <2>3, CacheCallStep
<1>6. ASSUME NEW t \in Threads, MarketCaches!StoreSpot(t) PROVE CacheInv'
  <2> DEFINE new == [at |-> "answered", kind |-> "spot", of |-> cache'["spot"].of, since |-> day, refresh |-> TRUE]
  <2>1. /\ call[t].at = "store" /\ call[t].kind = "spot" /\ "spot" \in MarketCaches!Kinds /\ day \in Nat
        /\ call[t].of \in Nat \cup {Nothing} /\ cache["spot"].of \in Nat \cup {Nothing}
        /\ cache["spot"].of \in 1..day \cup {Nothing}
    BY <1>6 DEF MarketCaches!StoreSpot, MarketCaches!Kinds, CacheInv, CacheCalls
  <2>2. call' = [call EXCEPT ![t] = new] /\ UNCHANGED day /\ MarketCaches!Notes(t)
    BY <1>6 DEF MarketCaches!StoreSpot, MarketCaches!Answers
  <2>3. CASE call[t].of = Nothing
    <3>1. cache' = cache /\ got' = got /\ failed' = [failed EXCEPT !["spot"] = day]
      BY <1>6, <2>1, <2>2, <2>3 DEF MarketCaches!StoreSpot, MarketCaches!Notes
    <3>2. new \in CacheCalls /\ new.of = cache["spot"].of /\ new.at = "answered" /\ new.kind = "spot"
      BY <2>1, <3>1 DEF CacheCalls
    <3> HIDE DEF new
    <3>3. failed' \in [MarketCaches!Kinds -> Nat] /\ failed'["margin"] = failed["margin"]
          /\ \A k \in MarketCaches!Kinds : failed'[k] <= day
      BY <2>1, <3>1 DEF CacheInv, MarketCaches!Kinds
    <3>4. call' \in [Threads -> CacheCalls] /\ \A q \in Threads : q # t => call'[q] = call[q]
      BY <2>2, <3>2 DEF CacheInv
    <3>5. call'[t] = new
      BY <2>2 DEF CacheInv
    <3>6. MarketCaches!FailuresPass'
      BY <3>1, <3>2, <3>3, <3>4, <3>5 DEF CacheInv, MarketCaches!FailuresPass
    <3> QED
      BY <2>1, <2>2, <3>1, <3>2, <3>3, <3>4, <3>5, <3>6 DEF CacheInv
  <2>4. CASE call[t].of # Nothing
    <3>1. cache' = [cache EXCEPT !["spot"] = [of |-> call[t].of, at |-> day]]
      BY <1>6, <2>4 DEF MarketCaches!StoreSpot
    <3>2. cache'["spot"].of = call[t].of
      BY <2>1, <3>1 DEF CacheInv
    <3>3. new \in CacheCalls /\ new.of = call[t].of /\ new.at = "answered" /\ new.kind = "spot" /\ new.since = day
      BY <2>1, <3>2 DEF CacheCalls
    <3> HIDE DEF new
    <3> QED
      BY <2>1, <2>2, <2>4, <3>1, <3>3, CacheStoreStep
  <2> QED
    BY <2>3, <2>4
<1>7. ASSUME NEW t \in Threads, MarketCaches!StoreMargin(t) PROVE CacheInv'
  <2> DEFINE new == [at |-> "answered", kind |-> "margin", of |-> call[t].of, since |-> day, refresh |-> TRUE]
  <2>1. /\ call[t].at = "store" /\ call[t].kind = "margin" /\ "margin" \in MarketCaches!Kinds /\ day \in Nat
        /\ call[t].of \in Nat \cup {Nothing}
    BY <1>7 DEF MarketCaches!StoreMargin, MarketCaches!Kinds, CacheInv, CacheCalls
  <2>2. /\ call' = [call EXCEPT ![t] = new] /\ UNCHANGED day /\ MarketCaches!Notes(t)
        /\ cache' = [cache EXCEPT !["margin"] = [of |-> call[t].of, at |-> day]]
    BY <1>7 DEF MarketCaches!StoreMargin, MarketCaches!Answers
  <2>3. new \in CacheCalls /\ new.of = call[t].of /\ new.at = "answered" /\ new.kind = "margin" /\ new.since = day
    BY <2>1 DEF CacheCalls
  <2> HIDE DEF new
  <2> QED
    BY <2>1, <2>2, <2>3, CacheStoreStep
<1>8. ASSUME NEW t \in Threads, MarketCaches!Return(t) PROVE CacheInv'
  <2>1. MarketCaches!Idle \in CacheCalls /\ MarketCaches!Idle.at = "idle" /\ MarketCaches!Idle.of = Nothing
    BY DEF MarketCaches!Idle, CacheCalls, MarketCaches!Kinds
  <2> QED
    BY <1>8, <2>1, CacheCallStep DEF MarketCaches!Return
<1>9. CASE MarketCaches!Tick
  BY <1>9, BoundsAssumption DEF MarketCaches!Tick, CacheInv, MarketCaches!FailuresPass
<1> QED
  BY <1>1, <1>3, <1>4, <1>5, <1>6, <1>7, <1>8, <1>9 DEF MarketCaches!Next

LEMMA CacheSays == ASSUME CacheInv PROVE MarketCaches!TypeOK /\ MarketCaches!FailuresPass
BY DEF CacheInv, CacheCalls, MarketCaches!TypeOK


-----------------------------------------------------------------------------
(* The relations of news items *)

RelationCalls ==
  [at : {"idle", "relabel", "update"}, item : News \cup {Nothing}, symbols : SUBSET Names,
   text : (SUBSET Names) \cup {Nothing}, rows : SUBSET Names]

RelationTypes ==
  /\ text \in [News -> (SUBSET Names) \cup {Nothing}] /\ wish \in [News -> (SUBSET Names) \cup {Nothing}]
  /\ rows \in [News -> SUBSET Names]
  /\ used \in SUBSET News /\ mixed \in SUBSET News
  /\ call \in [Threads -> RelationCalls]
  /\ \A w \in Threads : call[w].at # "idle" => call[w].item \in News
  /\ \A i \in News : /\ Relations!Exists(i) => i \in used
                     /\ ~Relations!Exists(i) => rows[i] = {}

\* An item in order has rows for all its symbols, or none, and its text.
InOrderItem(i) == text[i] = wish[i] /\ rows[i] \in {{}, wish[i]}

RelationInv ==
  /\ RelationTypes
  /\ \A i \in News \ mixed : Relations!Exists(i) => InOrderItem(i)

LEMMA RelationInit == ASSUME Relations!Init PROVE RelationInv
<1>1. text \in [News -> (SUBSET Names) \cup {Nothing}]
  BY DEF Relations!Init
<1> QED
  BY <1>1 DEF Relations!Init, Relations!Idle, Relations!Exists, RelationInv, RelationTypes, RelationCalls,
     InOrderItem


\* The item i is written, and is in order if what was met had been read.
LEMMA RelationWriteStep ==
  ASSUME RelationInv, NEW w \in Threads, NEW i \in News, NEW newText \in SUBSET Names,
         NEW newRows \in SUBSET Names,
         NEW symbols \in SUBSET Names, Relations!Exists(i),
         Relations!Writes(w, i, newText, newRows, symbols), Relations!Done(w), UNCHANGED used,
         rows[i] = call[w].rows /\ text[i] = call[w].text => newText = symbols /\ newRows = symbols
  PROVE  RelationInv'
<1>0. Relations!Idle \in RelationCalls /\ Relations!Idle.at = "idle" /\ newText # Nothing /\ symbols # Nothing
  BY NothingAssumption DEF Relations!Idle, RelationCalls
<1>1. /\ text' = [text EXCEPT ![i] = newText] /\ rows' = [rows EXCEPT ![i] = newRows]
      /\ wish' = [wish EXCEPT ![i] = symbols] /\ call' = [call EXCEPT ![w] = Relations!Idle] /\ used' = used
  BY DEF Relations!Writes, Relations!Done
<1>2. (mixed' = mixed \ {i} /\ newText = symbols /\ newRows = symbols) \/ mixed' = mixed \cup {i}
  BY DEF Relations!Writes
<1>3. RelationTypes'
  BY <1>0, <1>1, <1>2 DEF RelationInv, RelationTypes, Relations!Exists
<1>4. \A j \in News : j # i => text'[j] = text[j] /\ rows'[j] = rows[j] /\ wish'[j] = wish[j]
  BY <1>1 DEF RelationInv, RelationTypes
<1>5. text'[i] = newText /\ rows'[i] = newRows /\ wish'[i] = symbols
  BY <1>1 DEF RelationInv, RelationTypes
<1> QED
  BY <1>2, <1>3, <1>4, <1>5 DEF RelationInv, InOrderItem, Relations!Exists

LEMMA RelationStep == ASSUME RelationInv, [Relations!Next]_(Relations!vars) PROVE RelationInv'
<1>0. Relations!Idle \in RelationCalls /\ Relations!Idle.at = "idle"
  BY DEF Relations!Idle, RelationCalls
<1>1. CASE UNCHANGED Relations!vars
  BY <1>1 DEF Relations!vars, RelationInv, RelationTypes, Relations!Exists, InOrderItem
<1>2. ASSUME NEW i \in News, NEW symbols \in SUBSET Names, Relations!upsert_news(i, symbols) PROVE RelationInv'
  <2>1. symbols # Nothing
    BY NothingAssumption
  <2> QED
    BY <1>2, <2>1 DEF Relations!upsert_news, RelationInv, RelationTypes, Relations!Exists, InOrderItem
<1>3. ASSUME NEW i \in News, Relations!Delete(i) PROVE RelationInv'
  BY <1>3 DEF Relations!Delete, RelationInv, RelationTypes, Relations!Exists, InOrderItem
<1>4. CASE Relations!Migrate
  <2>1. rows' \in [News -> SUBSET Names]
    BY <1>4 DEF Relations!Migrate, RelationInv, RelationTypes, Relations!Exists
  <2> QED
    BY <1>4, <2>1 DEF Relations!Migrate, RelationInv, RelationTypes, Relations!Exists, InOrderItem
\* An item that is about to be written again has been read.
<1>5. ASSUME NEW w \in Threads, NEW i \in News, NEW at \in {"relabel", "update"}, NEW symbols \in SUBSET Names,
             NEW read \in (SUBSET Names) \cup {Nothing},
             call' = [call EXCEPT ![w] = [at |-> at, item |-> i, symbols |-> symbols, text |-> read,
                                          rows |-> rows[i]]],
             UNCHANGED <<text, rows, used, wish, mixed>>
      PROVE  RelationInv'
  <2>1. [at |-> at, item |-> i, symbols |-> symbols, text |-> read, rows |-> rows[i]] \in RelationCalls
    BY DEF RelationCalls, RelationInv, RelationTypes
  <2> QED
    BY <1>5, <2>1 DEF RelationInv, RelationTypes, Relations!Exists, InOrderItem
<1>6. ASSUME NEW w \in Threads, NEW i \in News, NEW symbols \in SUBSET Names,
             Relations!UpdateMetadata(w, i, symbols)
      PROVE  RelationInv'
  <2>1. text[i] \in (SUBSET Names) \cup {Nothing}
    BY DEF RelationInv, RelationTypes
  <2> QED
    BY <1>5, <1>6, <2>1 DEF Relations!UpdateMetadata
<1>7. ASSUME NEW w \in Threads, NEW i \in News, Relations!LoadItem(w, i) PROVE RelationInv'
  <2>1. text[i] \in SUBSET Names /\ {} \in SUBSET Names
    BY <1>7 DEF Relations!LoadItem, Relations!Exists, RelationInv, RelationTypes
  <2> QED
    BY <1>5, <1>7, <2>1 DEF Relations!LoadItem
<1>8. ASSUME NEW w \in Threads, Relations!SyncRelations(w) PROVE RelationInv'
  <2> DEFINE i == call[w].item
             c == call[w]
  <2>1. i \in News /\ c.symbols \in SUBSET Names /\ rows[i] \in SUBSET Names
    BY <1>8 DEF Relations!SyncRelations, RelationInv, RelationTypes, RelationCalls
  <2>2. (rows[i] \ c.rows) \cup c.symbols \in SUBSET Names
    BY <2>1
  <2> QED
    BY <1>8, <2>1, <2>2, RelationWriteStep DEF Relations!SyncRelations
<1>9. ASSUME NEW w \in Threads, NEW symbols \in SUBSET Names, Relations!Update(w, symbols) PROVE RelationInv'
  <2> DEFINE i == call[w].item
             c == call[w]
             newText == IF symbols = c.text THEN text[i] ELSE symbols
             newRows == (rows[i] \ (c.rows \ symbols)) \cup (symbols \ c.rows)
  <2>1. i \in News /\ rows[i] \in SUBSET Names /\ Relations!Exists(i)
    BY <1>9 DEF Relations!Update, RelationInv, RelationTypes, RelationCalls
  <2>2. text[i] \in SUBSET Names
    BY <2>1 DEF RelationInv, RelationTypes, Relations!Exists
  <2>3. newText \in SUBSET Names /\ newRows \in SUBSET Names
    BY <2>1, <2>2
  <2>4. rows[i] = c.rows /\ text[i] = c.text => newText = symbols /\ newRows = symbols
    BY <2>1
  <2>5. Relations!Writes(w, i, newText, newRows, symbols) /\ Relations!Done(w) /\ UNCHANGED used
    BY <1>9 DEF Relations!Update
  <2> HIDE DEF newText, newRows
  <2> QED
    BY <2>1, <2>3, <2>4, <2>5, RelationWriteStep
<1>10. ASSUME NEW w \in Threads, Relations!Fail(w) PROVE RelationInv'
  BY <1>0, <1>10 DEF Relations!Fail, Relations!Done, RelationInv, RelationTypes, Relations!Exists, InOrderItem
<1> QED
  BY <1>1, <1>2, <1>3, <1>4, <1>6, <1>7, <1>8, <1>9, <1>10 DEF Relations!Next, Relations!create_news

LEMMA RelationSays == ASSUME RelationInv PROVE Relations!TypeOK /\ Relations!RelationsMatch
BY DEF RelationInv, RelationTypes, Relations!TypeOK, Relations!RelationsMatch, Relations!Shown, Relations!Exists,
       InOrderItem


-----------------------------------------------------------------------------
(* The file of stock basics *)

FileSaves ==
  [at : {"idle", "open", "write", "rename"}, rows : BasicsFile!Rows,
   open : {Nothing, "temp", "cache", "gone"}, meant : BasicsFile!Rows]

FileTypes ==
  /\ cache \in BasicsFile!Rows \cup {Nothing, Torn} /\ temp \in BasicsFile!Rows \cup {Nothing, Torn}
  /\ wish \in BasicsFile!Rows /\ mixed \in BOOLEAN
  /\ save \in [Threads -> FileSaves]

\* Of saves that never overlapped at most one is under way: the temporary file
\* is its own, and the rows that it writes are those it is meant to leave.
FileInv ==
  /\ FileTypes /\ BasicsFile!FileKeepsRows
  /\ ~mixed => \A p \in Threads :
       /\ save[p].at # "idle" => /\ save[p].rows = save[p].meant
                                 /\ \A q \in Threads \ {p} : save[q].at = "idle"
       /\ save[p].at = "write" => save[p].open = "temp" /\ temp = Torn
       /\ save[p].at = "rename" => temp = save[p].rows

LEMMA NoRowsTyped == BasicsFile!NoRows \in BasicsFile!Rows
BY DEF BasicsFile!NoRows, BasicsFile!Rows

\* What a file holds that parses.
LEMMA LoadedTyped ==
  ASSUME NEW file \in BasicsFile!Rows \cup {Nothing, Torn}
  PROVE  /\ BasicsFile!Loaded(file) \in BasicsFile!Rows
         /\ file \in BasicsFile!Rows => BasicsFile!Loaded(file) = file
BY NoRowsTyped, NothingAssumption DEF BasicsFile!Loaded, BasicsFile!Rows

\* The rows of a payload are rows, whichever are the best.
LEMMA NormalizedTyped ==
  ASSUME NEW given \in SUBSET [symbol : Names, worth : {0, 1}]
  PROVE  BasicsFile!Normalized(given) \in BasicsFile!Rows
<1> DEFINE worths(s) == {r.worth : r \in {q \in given : q.symbol = s}}
<1>1. ASSUME NEW s \in Names, worths(s) # {} PROVE BasicsFile!Max(worths(s)) \in {0, 1}
  <2>1. worths(s) \subseteq {0, 1}
    OBVIOUS
  <2>2. \E x \in worths(s) : \A y \in worths(s) : x >= y
    <3>1. CASE 1 \in worths(s)
      BY <2>1, <3>1
    <3>2. CASE 1 \notin worths(s)
      BY <1>1, <2>1, <3>2
    <3> QED
      BY <3>1, <3>2
  <2> HIDE DEF worths
  <2>3. BasicsFile!Max(worths(s)) \in worths(s)
    BY <2>2 DEF BasicsFile!Max
  <2> QED
    BY <2>1, <2>3
<1> HIDE DEF worths
<1>2. BasicsFile!Normalized(given) = [s \in Names |-> IF worths(s) = {} THEN Nothing ELSE BasicsFile!Max(worths(s))]
  BY DEF BasicsFile!Normalized, worths
<1> QED
  BY <1>1, <1>2 DEF BasicsFile!Rows

LEMMA FileInit == ASSUME BasicsFile!Init PROVE FileInv
<1>1. BasicsFile!Loaded(cache) = BasicsFile!NoRows
  BY DEF BasicsFile!Init, BasicsFile!Loaded
<1> QED
  BY <1>1, NoRowsTyped
     DEF BasicsFile!Init, BasicsFile!Idle, FileInv, FileTypes, FileSaves, BasicsFile!FileKeepsRows

LEMMA FileStep == ASSUME FileInv, [BasicsFile!Next]_(BasicsFile!vars) PROVE FileInv'
<1>0. BasicsFile!Idle \in FileSaves /\ BasicsFile!Idle.at = "idle"
  BY NoRowsTyped DEF BasicsFile!Idle, FileSaves
<1>1. CASE UNCHANGED BasicsFile!vars
  BY <1>1 DEF BasicsFile!vars, FileInv, FileTypes, BasicsFile!FileKeepsRows
<1>2. ASSUME NEW p \in Threads, NEW given \in SUBSET [symbol : Names, worth : {0, 1}], NEW merge \in BOOLEAN,
             BasicsFile!Begin(p, given, merge)
      PROVE  FileInv'
  <2> DEFINE best == BasicsFile!Normalized(given)
             stored(old) == IF merge THEN BasicsFile!Over(best, old) ELSE best
             rs == stored(BasicsFile!Loaded(cache))
             meant == IF mixed' THEN BasicsFile!NoRows ELSE stored(wish)
             new == [at |-> "open", rows |-> rs, open |-> Nothing, meant |-> meant]
  <2>1. /\ save[p].at = "idle" /\ save' = [save EXCEPT ![p] = new] /\ UNCHANGED <<cache, temp, wish>>
        /\ mixed' = (mixed \/ \E q \in Threads \ {p} : save[q].at # "idle")
    BY <1>2 DEF BasicsFile!Begin, BasicsFile!Overlaps
  <2>2. ASSUME NEW old \in BasicsFile!Rows PROVE stored(old) \in BasicsFile!Rows
    BY NormalizedTyped DEF BasicsFile!Over, BasicsFile!Rows
  <2>3. ~mixed' => rs = meant
    BY <2>1 DEF FileInv, BasicsFile!FileKeepsRows
  <2>4. rs \in BasicsFile!Rows /\ meant \in BasicsFile!Rows /\ mixed' \in BOOLEAN
    BY <2>1, <2>2, NoRowsTyped, LoadedTyped DEF FileInv, FileTypes
  <2> HIDE DEF rs, meant
  <2>5. new \in FileSaves /\ new.at = "open" /\ new.rows = rs /\ new.meant = meant
    BY <2>4 DEF FileSaves
  <2> HIDE DEF new
  <2> QED
    BY <2>1, <2>3, <2>4, <2>5 DEF FileInv, FileTypes, BasicsFile!FileKeepsRows
<1>3. ASSUME NEW p \in Threads, BasicsFile!Open(p) PROVE FileInv'
  <2> DEFINE new == [save[p] EXCEPT !.at = "write", !.open = "temp"]
  <2>1. save[p].at = "open" /\ temp' = Torn /\ save' = [save EXCEPT ![p] = new] /\ UNCHANGED <<cache, wish, mixed>>
    BY <1>3 DEF BasicsFile!Open, FileInv, FileTypes
  <2>2. new \in FileSaves /\ new.at = "write" /\ new.open = "temp" /\ new.rows = save[p].rows
        /\ new.meant = save[p].meant
    BY ZenonT(60) DEF FileInv, FileTypes, FileSaves
  <2> HIDE DEF new
  <2> QED
    BY <2>1, <2>2 DEF FileInv, FileTypes, BasicsFile!FileKeepsRows
<1>4. ASSUME NEW p \in Threads, BasicsFile!Write(p) PROVE FileInv'
  <2> DEFINE new == [save[p] EXCEPT !.at = "rename"]
  <2>1. save[p].at = "write" /\ save' = [save EXCEPT ![p] = new] /\ UNCHANGED <<wish, mixed>>
    BY <1>4 DEF BasicsFile!Write, FileInv, FileTypes
  <2>2. new \in FileSaves /\ new.at = "rename" /\ new.rows = save[p].rows /\ new.meant = save[p].meant
        /\ save[p].rows \in BasicsFile!Rows
    BY DEF FileInv, FileTypes, FileSaves
  <2>3. cache' \in BasicsFile!Rows \cup {Nothing, Torn} /\ temp' \in BasicsFile!Rows \cup {Nothing, Torn}
    BY <1>4, <2>2 DEF BasicsFile!Write, FileInv, FileTypes
  <2>4. save[p].open = "temp" /\ temp = Torn => cache' = cache /\ temp' = save[p].rows
    BY <1>4 DEF BasicsFile!Write
  <2> HIDE DEF new
  <2> QED
    BY <2>1, <2>2, <2>3, <2>4 DEF FileInv, FileTypes, BasicsFile!FileKeepsRows
<1>5. ASSUME NEW p \in Threads, BasicsFile!Rename(p) PROVE FileInv'
  <2> DEFINE moved(o) == CASE o = "temp" -> "cache" [] o = "cache" -> "gone" [] OTHER -> o
  <2>1. /\ save[p].at = "rename" /\ temp # Nothing /\ cache' = temp /\ temp' = Nothing /\ UNCHANGED mixed
        /\ wish' = IF mixed THEN BasicsFile!NoRows ELSE save[p].meant
        /\ save' = [q \in Threads |-> IF q = p THEN BasicsFile!Idle
                                               ELSE [save[q] EXCEPT !.open = moved(save[q].open)]]
    BY <1>5 DEF BasicsFile!Rename
  <2>2. ASSUME NEW o \in {Nothing, "temp", "cache", "gone"} PROVE moved(o) \in {Nothing, "temp", "cache", "gone"}
    OBVIOUS
  <2> HIDE DEF moved
  <2>3. ASSUME NEW q \in Threads, q # p
        PROVE  save'[q] \in FileSaves /\ save'[q].at = save[q].at
    BY <2>1, <2>2, <2>3 DEF FileInv, FileTypes, FileSaves
  <2>4. save'[p] = BasicsFile!Idle
    BY <2>1
  <2>5. save' \in [Threads -> FileSaves]
    BY <1>0, <2>1, <2>3, <2>4
  <2>6. save[p].rows \in BasicsFile!Rows /\ save[p].meant \in BasicsFile!Rows
    BY DEF FileInv, FileTypes, FileSaves
  <2>7. wish' \in BasicsFile!Rows /\ cache' \in BasicsFile!Rows \cup {Nothing, Torn}
    BY <2>1, <2>6, NoRowsTyped DEF FileInv, FileTypes
  <2>8. ~mixed => BasicsFile!Loaded(temp) = save[p].meant
    BY <2>1, <2>6, LoadedTyped DEF FileInv
  <2>9. ~mixed => \A q \in Threads : save'[q].at = "idle"
    BY <1>0, <2>1, <2>3, <2>4 DEF FileInv
  <2> QED
    BY <2>1, <2>5, <2>7, <2>8, <2>9 DEF FileInv, FileTypes, BasicsFile!FileKeepsRows
<1>6. ASSUME NEW p \in Threads, BasicsFile!Cut(p) PROVE FileInv'
  BY <1>0, <1>6 DEF BasicsFile!Cut, FileInv, FileTypes, BasicsFile!FileKeepsRows
<1> QED
  BY <1>1, <1>2, <1>3, <1>4, <1>5, <1>6 DEF BasicsFile!Next

LEMMA FileSays == ASSUME FileInv PROVE BasicsFile!TypeOK /\ BasicsFile!FileKeepsRows
<1>1. ASSUME NEW p \in Threads PROVE save[p] \in FileSaves
  BY DEF FileInv, FileTypes
<1> QED
  BY <1>1 DEF FileInv, FileTypes, FileSaves, BasicsFile!TypeOK


-----------------------------------------------------------------------------
(* The list of stocks *)

LEMMA CardinalityOfBasics == \A S : Basics!Cardinality(S) = Cardinality(S)
BY DEF Basics!Cardinality, Cardinality

Loading == {"load", "batch", "batch stored", "batch saved"}

BasicsCalls ==
  [at : {"idle", "remote", "look", "cached", "reload", "stored", "fetched", "answered", "answered remotely"}
          \cup Loading,
   asked : {Stocks, Nothing}, rows : SUBSET Stocks, after : {"idle", "cached", "stored", "fetched"},
   load : SUBSET HongKong, next : Nat, had : BOOLEAN]

\* What a load has passed over is in the table, and so is the batch that it
\* has stored.
LoadInv(c, table) ==
  /\ c.next \in 0..Cardinality(c.load)
  /\ \A s \in c.load : Before(c.load, s) < c.next => s \in table
  /\ c.at \in {"batch stored", "batch saved"} => Slice(c.load, c.next, BatchSize) \subseteq table

\* Where a request is in get_stock_basic, a load in between left aside.
Where(c) == IF c.at \in Loading THEN c.after ELSE c.at

\* At each step of a request that could be answered, what it will look at next
\* still answers it.
ServeInv(c, file, table) ==
  /\ c.had => /\ Where(c) \in {"look", "cached", "reload", "stored", "answered"}
              /\ Where(c) = "look" => Basics!Covers(file, c.asked) \/ Basics!Covers(table, c.asked)
              /\ Where(c) = "cached" => Basics!Covers(c.rows, c.asked) \/ Basics!Covers(table, c.asked)
              /\ Where(c) = "reload" => Basics!Covers(file, c.asked)
              /\ Where(c) = "stored" => Basics!Covers(c.rows, c.asked)
  /\ c.at = "answered" => Basics!Covers(c.rows, c.asked)

BasicsTypes ==
  /\ cache \in SUBSET Stocks /\ db \in SUBSET Stocks
  /\ cooling \in SUBSET Threads /\ replaced \in SUBSET Threads
  /\ checkpoint \in [load : SUBSET HongKong, next : 0..Cardinality(HongKong)] \cup {Nothing}
  /\ call \in [Threads -> BasicsCalls]
  /\ \A c \in Threads : call[c].at \in Loading => call[c].asked = Nothing

BasicsInv ==
  /\ BasicsTypes
  /\ \A c \in Threads : LoadInv(call[c], db)
  /\ \A c \in Threads \ replaced : ServeInv(call[c], cache, db)
  /\ checkpoint # Nothing => /\ checkpoint.next \in 0..Cardinality(checkpoint.load)
                             /\ \A s \in checkpoint.load : Before(checkpoint.load, s) < checkpoint.next => s \in db

LEMMA HongKongFinite ==
  \A S \in SUBSET HongKong :
    /\ S \in SUBSET Nat /\ IsFiniteSet(S) /\ Cardinality(S) \in Nat
    /\ 0..Cardinality(S) \subseteq 0..Cardinality(HongKong)
<1>1. IsFiniteSet(HongKong) /\ HongKong \in SUBSET Nat
  BY StocksAssumption, FS_Subset
<1>2. ASSUME NEW S \in SUBSET HongKong
      PROVE  /\ IsFiniteSet(S) /\ Cardinality(S) \in Nat /\ Cardinality(HongKong) \in Nat
             /\ Cardinality(S) <= Cardinality(HongKong)
  BY <1>1, FS_Subset, FS_CardinalityType
<1> QED
  BY <1>1, <1>2

LEMMA BatchIsSlice ==
  ASSUME BasicsTypes, NEW c \in Threads
  PROVE  Basics!Batch(c) = Slice(call[c].load, call[c].next, BatchSize)
BY CardinalityOfBasics DEF Basics!Batch, Slice, Before

LEMMA CoversGrows ==
  ASSUME NEW S \in SUBSET Stocks, NEW T \in SUBSET Stocks, S \subseteq T, NEW asks, Basics!Covers(S, asks)
  PROVE  Basics!Covers(T, asks)
BY DEF Basics!Covers

LEMMA BasicsInit == ASSUME Basics!Init PROVE BasicsInv
<1>1. Basics!Idle \in BasicsCalls /\ Basics!Idle.at = "idle" /\ Basics!Idle.had = FALSE
      /\ Basics!Idle.load = {} /\ Basics!Idle.next = 0
  BY DEF Basics!Idle, BasicsCalls
<1>2. call = [c \in Threads |-> Basics!Idle] /\ checkpoint = Nothing
  BY DEF Basics!Init
<1>3. LoadInv(Basics!Idle, db)
  BY <1>1, FS_EmptySet DEF LoadInv
<1>4. ServeInv(Basics!Idle, cache, db)
  BY <1>1 DEF ServeInv, Where
<1>5. BasicsTypes
  BY <1>1, <1>2 DEF Basics!Init, BasicsTypes, Loading
<1> QED
  BY <1>2, <1>3, <1>4, <1>5 DEF BasicsInv

\* A request goes on: its own promises hold, and of others' only those that
\* its rows did not replace.
LEMMA BasicsCallStep ==
  ASSUME BasicsInv, NEW c \in Threads, NEW new \in BasicsCalls, call' = [call EXCEPT ![c] = new],
         cache' \in SUBSET Stocks, db' \in SUBSET Stocks, cooling' \in SUBSET Threads,
         replaced' \in SUBSET Threads, db \subseteq db',
         \A d \in Threads \ {c} : d \notin replaced' => d \notin replaced,
         \A d \in Threads \ {c} : d \notin replaced' => call[d].at = "idle" \/ cache \subseteq cache',
         new.at \in Loading => new.asked = Nothing,
         LoadInv(new, db'), c \in replaced' \/ ServeInv(new, cache', db'),
         \/ UNCHANGED checkpoint
         \/ checkpoint' = Nothing
         \/ /\ checkpoint' \in [load : SUBSET HongKong, next : 0..Cardinality(HongKong)]
            /\ checkpoint'.next \in 0..Cardinality(checkpoint'.load)
            /\ \A s \in checkpoint'.load : Before(checkpoint'.load, s) < checkpoint'.next => s \in db'
  PROVE  BasicsInv'
<1>1. call' \in [Threads -> BasicsCalls] /\ call'[c] = new /\ \A d \in Threads : d # c => call'[d] = call[d]
  BY DEF BasicsInv, BasicsTypes
<1>2. BasicsTypes'
  BY <1>1 DEF BasicsInv, BasicsTypes
<1>3. ASSUME NEW d \in Threads PROVE LoadInv(call'[d], db')
  <2>1. CASE d = c
    BY <1>1, <2>1
  <2>2. CASE d # c
    <3>1. LoadInv(call[d], db) /\ call'[d] = call[d]
      BY <1>1, <2>2 DEF BasicsInv
    <3>2. LoadInv(call[d], db')
      BY <3>1 DEF LoadInv
    <3> QED
      BY <3>1, <3>2
  <2> QED
    BY <2>1, <2>2
<1>4. ASSUME NEW d \in Threads, d \notin replaced' PROVE ServeInv(call'[d], cache', db')
  <2>1. CASE d = c
    BY <1>1, <1>4, <2>1
  <2>2. CASE d # c
    <3>1. ServeInv(call[d], cache, db) /\ call'[d] = call[d]
      BY <1>1, <1>4, <2>2 DEF BasicsInv
    <3>2. CASE call[d].at = "idle"
      <4>1. ServeInv(call[d], cache', db')
        BY <3>1, <3>2 DEF ServeInv, Where, Loading
      <4> QED
        BY <3>1, <4>1
    <3>3. CASE cache \subseteq cache'
      <4>1. ServeInv(call[d], cache', db')
        BY <3>1, <3>3, CoversGrows DEF ServeInv, BasicsInv, BasicsTypes
      <4> QED
        BY <3>1, <4>1
    <3> QED
      BY <1>4, <2>2, <3>2, <3>3
  <2> QED
    BY <2>1, <2>2
<1>5. checkpoint' # Nothing =>
        /\ checkpoint'.next \in 0..Cardinality(checkpoint'.load)
        /\ \A s \in checkpoint'.load : Before(checkpoint'.load, s) < checkpoint'.next => s \in db'
  BY DEF BasicsInv
<1> QED
  BY <1>2, <1>3, <1>4, <1>5 DEF BasicsInv

\* Others' requests are noted if a save replaces rows.
LEMMA SavesNote ==
  ASSUME BasicsInv, NEW c \in Threads, NEW kept \in SUBSET Stocks, NEW merge \in BOOLEAN,
         Basics!Saves(c, kept, merge)
  PROVE  /\ cache' \in SUBSET Stocks /\ replaced' \in SUBSET Threads
         /\ c \notin replaced' => c \notin replaced
         /\ \A d \in Threads \ {c} : d \notin replaced' => d \notin replaced
         /\ \A d \in Threads \ {c} : d \notin replaced' => call[d].at = "idle" \/ cache \subseteq cache'
         /\ merge => cache \subseteq cache'
         /\ ~merge /\ kept # {} => cache' = kept
BY DEF Basics!Saves, BasicsInv, BasicsTypes

LEMMA LoadStays ==
  ASSUME NEW table, NEW table2, table \subseteq table2, NEW c, LoadInv(c, table), NEW new,
         new.load = c.load, new.next = c.next, new.at \notin {"batch stored", "batch saved"}
  PROVE  LoadInv(new, table2)
BY DEF LoadInv

\* Before it goes on with its rows, a request for all stocks may load.
LEMMA SyncStep ==
  ASSUME BasicsInv, NEW c \in Threads, NEW rs \in SUBSET Stocks, NEW at \in {"cached", "stored", "fetched"},
         Basics!SyncThen(c, rs, at), UNCHANGED <<cache, db, checkpoint, cooling, replaced>>,
         call[c].at \notin Loading,
         at = "cached" /\ call[c].had /\ c \notin replaced =>
           Basics!Covers(rs, call[c].asked) \/ Basics!Covers(db, call[c].asked),
         at = "stored" /\ call[c].had /\ c \notin replaced => Basics!Covers(rs, call[c].asked),
         at = "fetched" /\ c \notin replaced => ~call[c].had
  PROVE  BasicsInv'
<1> DEFINE to == IF Basics!NeedsLoad(c, rs) THEN "load" ELSE at
           new == [call[c] EXCEPT !.rows = rs, !.after = at, !.at = to]
<1>1. call' = [call EXCEPT ![c] = new]
  BY DEF Basics!SyncThen, BasicsInv, BasicsTypes
<1>2. /\ to \in {"load", "cached", "stored", "fetched"} /\ (to = "load" => call[c].asked = Nothing)
      /\ to # "load" => to = at
  BY DEF Basics!NeedsLoad
<1> HIDE DEF to
<1>3. /\ new \in BasicsCalls /\ new.at = to /\ new.rows = rs /\ new.after = at /\ new.asked = call[c].asked
      /\ new.had = call[c].had /\ new.load = call[c].load /\ new.next = call[c].next
  BY <1>2 DEF BasicsInv, BasicsTypes, BasicsCalls, Loading
<1> HIDE DEF new
<1>4. LoadInv(new, db)
  BY <1>2, <1>3, LoadStays DEF BasicsInv
<1>5. Where(new) = at /\ new.at # "answered"
  BY <1>2, <1>3 DEF Where, Loading
<1>6. c \in replaced \/ ServeInv(new, cache, db)
  BY <1>3, <1>5 DEF ServeInv
<1>7. new.at \in Loading => new.asked = Nothing
  BY <1>2, <1>3 DEF Loading
<1> QED
  BY <1>1, <1>3, <1>4, <1>6, <1>7, BasicsCallStep DEF BasicsInv, BasicsTypes

\* A request that saves rows goes to where it may.
LEMMA SaveStep ==
  ASSUME BasicsInv, NEW c \in Threads, NEW kept \in SUBSET Stocks, NEW merge \in BOOLEAN,
         Basics!Saves(c, kept, merge),
         NEW rs \in SUBSET Stocks, NEW at \in {"answered", "answered remotely", "remote", "reload"},
         Basics!Goes(c, at, rs), UNCHANGED <<db, checkpoint, cooling>>,
         at = "answered" => Basics!Covers(rs, call[c].asked),
         at # "answered" /\ call[c].had /\ c \notin replaced => at = "reload"
         /\ Basics!Covers(cache', call[c].asked)
  PROVE  BasicsInv'
<1> DEFINE new == [call[c] EXCEPT !.at = at, !.rows = rs]
<1>1. call' = [call EXCEPT ![c] = new]
  BY DEF Basics!Goes, BasicsInv, BasicsTypes
<1>2. /\ new \in BasicsCalls /\ new.at = at /\ new.rows = rs /\ new.asked = call[c].asked
      /\ new.had = call[c].had /\ new.load = call[c].load /\ new.next = call[c].next
  BY DEF BasicsInv, BasicsTypes, BasicsCalls
<1> HIDE DEF new
<1>3. LoadInv(new, db)
  BY <1>2, LoadStays DEF BasicsInv
<1>4. Where(new) = at /\ new.at \notin Loading
  BY <1>2 DEF Where, Loading
<1>5. c \in replaced' \/ ServeInv(new, cache', db')
  BY <1>2, <1>4, SavesNote DEF ServeInv
<1>6. /\ cache' \in SUBSET Stocks /\ replaced' \in SUBSET Threads
      /\ \A d \in Threads \ {c} : d \notin replaced' => d \notin replaced
      /\ \A d \in Threads \ {c} : d \notin replaced' => call[d].at = "idle" \/ cache \subseteq cache'
  BY SavesNote
<1>7. db' \in SUBSET Stocks /\ db' = db /\ cooling' \in SUBSET Threads /\ checkpoint' = checkpoint
  BY DEF BasicsInv, BasicsTypes
<1>8. LoadInv(new, db') /\ new.at \notin Loading
  BY <1>2, <1>3, <1>4, <1>7
<1> QED
  BY <1>1, <1>2, <1>5, <1>6, <1>7, <1>8, BasicsCallStep

\* A load goes on, and what its request will do next stays.
LEMMA LoadStep ==
  ASSUME BasicsInv, NEW c \in Threads, NEW new \in BasicsCalls, call' = [call EXCEPT ![c] = new],
         call[c].at \in Loading, new.at \in Loading \/ new.at = call[c].after,
         cache' \in SUBSET Stocks, cache \subseteq cache', db' \in SUBSET Stocks, db \subseteq db',
         cooling' \in SUBSET Threads, replaced' = replaced,
         new.after = call[c].after, new.asked = call[c].asked, new.had = call[c].had,
         new.rows = call[c].rows \/ Basics!Covers(new.rows, Nothing), LoadInv(new, db'),
         \/ UNCHANGED checkpoint
         \/ checkpoint' = Nothing
         \/ /\ checkpoint' \in [load : SUBSET HongKong, next : 0..Cardinality(HongKong)]
            /\ checkpoint'.next \in 0..Cardinality(checkpoint'.load)
            /\ \A s \in checkpoint'.load : Before(checkpoint'.load, s) < checkpoint'.next => s \in db'
  PROVE  BasicsInv'
<1>1. call[c].asked = Nothing /\ call[c].at # "answered" /\ call[c] \in BasicsCalls
      /\ call[c].after \in {"idle", "cached", "stored", "fetched"} /\ call[c].rows \in SUBSET Stocks
  BY DEF BasicsInv, BasicsTypes, BasicsCalls, Loading
<1>2. Where(call[c]) = call[c].after /\ Where(new) = call[c].after /\ new.at # "answered"
  BY <1>1 DEF Where, Loading
<1>3. ASSUME c \notin replaced PROVE ServeInv(new, cache', db')
  <2>1. ServeInv(call[c], cache, db)
    BY <1>3 DEF BasicsInv
  <2>2. Basics!Covers(cache, Nothing) => Basics!Covers(cache', Nothing)
    BY CoversGrows DEF BasicsInv, BasicsTypes
  <2>3. Basics!Covers(db, Nothing) => Basics!Covers(db', Nothing)
    BY CoversGrows DEF BasicsInv, BasicsTypes
  <2>4. new.asked = Nothing
    BY <1>1
  <2> QED
    BY <1>1, <1>2, <2>1, <2>2, <2>3, <2>4 DEF ServeInv
<1>4. new.at \in Loading => new.asked = Nothing
  BY <1>1
<1> QED
  BY <1>3, <1>4, BasicsCallStep DEF BasicsInv, BasicsTypes

LEMMA BasicsStep == ASSUME BasicsInv, [Basics!Next]_(Basics!vars) PROVE BasicsInv'
<1>0. /\ Basics!Idle \in BasicsCalls /\ Basics!Idle.at = "idle" /\ Basics!Idle.had = FALSE
      /\ Basics!Idle.load = {} /\ Basics!Idle.next = 0
      /\ \A table : LoadInv(Basics!Idle, table)
      /\ \A file, table : ServeInv(Basics!Idle, file, table)
  <2>1. /\ Basics!Idle \in BasicsCalls /\ Basics!Idle.at = "idle" /\ Basics!Idle.had = FALSE
        /\ Basics!Idle.load = {} /\ Basics!Idle.next = 0
    BY DEF Basics!Idle, BasicsCalls
  <2> QED
    BY <2>1, FS_EmptySet DEF LoadInv, ServeInv, Where, Loading
\* A request ends.
<1>1. ASSUME NEW c \in Threads, call' = [call EXCEPT ![c] = Basics!Idle],
             UNCHANGED <<cache, db, checkpoint, cooling, replaced>>
      PROVE  BasicsInv'
  BY <1>0, <1>1, BasicsCallStep DEF BasicsInv, BasicsTypes, Loading
<1>2. CASE UNCHANGED Basics!vars
  BY <1>2 DEF Basics!vars, BasicsInv, BasicsTypes
<1>3. ASSUME NEW c \in Threads, NEW asks \in {Stocks, Nothing}, NEW force \in BOOLEAN, Basics!Begin(c, asks, force)
      PROVE  BasicsInv'
  <2> DEFINE at == IF force THEN "remote" ELSE "look"
             had == ~force /\ (Basics!Covers(cache, asks) \/ Basics!Covers(db, asks))
             new == [Basics!Idle EXCEPT !.at = at, !.asked = asks, !.had = had]
  <2>1. call' = [call EXCEPT ![c] = new] /\ replaced' = replaced \ {c}
        /\ UNCHANGED <<cache, db, checkpoint, cooling>>
    BY <1>3 DEF Basics!Begin
  <2>2. had \in BOOLEAN /\ (had => at = "look" /\ (Basics!Covers(cache, asks) \/ Basics!Covers(db, asks)))
        /\ at \in {"remote", "look"}
    BY DEF Basics!Covers
  <2> HIDE DEF had, at
  <2>3. /\ new \in BasicsCalls /\ new.at = at /\ new.asked = asks /\ new.had = had
        /\ new.load = Basics!Idle.load /\ new.next = Basics!Idle.next
    BY <2>2 DEF BasicsCalls, Basics!Idle
  <2> HIDE DEF new
  <2>4. LoadInv(new, db) /\ ServeInv(new, cache, db) /\ new.at \notin Loading
    BY <1>0, <2>2, <2>3, LoadStays DEF ServeInv, Where, Loading
  <2> QED
    BY <2>1, <2>3, <2>4, BasicsCallStep DEF BasicsInv, BasicsTypes
<1>4. ASSUME NEW c \in Threads, Basics!Look(c) PROVE BasicsInv'
  <2> DEFINE rs == Basics!Of(call[c].asked, cache)
  <2>1. rs \in SUBSET Stocks /\ (Basics!Covers(cache, call[c].asked) => Basics!Covers(rs, call[c].asked))
    BY DEF Basics!Of, Basics!Covers, BasicsInv, BasicsTypes
  <2>2. call[c].at = "look" /\ Basics!SyncThen(c, rs, "cached")
        /\ UNCHANGED <<cache, db, checkpoint, cooling, replaced>>
    BY <1>4 DEF Basics!Look
  <2>3. c \notin replaced => ServeInv(call[c], cache, db)
    BY DEF BasicsInv
  <2>4. call[c].at \notin Loading /\ Where(call[c]) = "look"
    BY <2>2 DEF Where, Loading
  <2> HIDE DEF rs
  <2> QED
    BY <2>1, <2>2, <2>3, <2>4, SyncStep DEF ServeInv
<1>5. ASSUME NEW c \in Threads, Basics!ServeCached(c) PROVE BasicsInv'
  <2>1. call[c].rows \in SUBSET Stocks /\ (call[c].asked # Nothing) \in BOOLEAN
    BY DEF BasicsInv, BasicsTypes, BasicsCalls
  <2> QED
    BY <1>5, <2>1, SaveStep DEF Basics!ServeCached
<1>6. ASSUME NEW c \in Threads, Basics!LookInDatabase(c) PROVE BasicsInv'
  <2>1. db \in SUBSET Stocks /\ {} \in SUBSET Stocks /\ call[c].at = "cached"
        /\ ~Basics!Covers(call[c].rows, call[c].asked)
        /\ call[c].rows \in SUBSET Stocks
    BY <1>6 DEF BasicsInv, BasicsTypes, BasicsCalls, Basics!LookInDatabase
  <2>2. Basics!Saves(c, db, FALSE)
    BY <1>6 DEF Basics!LookInDatabase
  <2>3. ASSUME call[c].had, c \notin replaced PROVE db # {} /\ Basics!Covers(cache', call[c].asked)
    <3>1. Where(call[c]) = "cached"
      BY <2>1 DEF Where, Loading
    <3>2. Basics!Covers(db, call[c].asked)
      BY <2>1, <2>3, <3>1 DEF BasicsInv, ServeInv
    <3>3. db # {}
      BY <2>1, <3>2 DEF Basics!Covers
    <3> QED
      BY <2>1, <2>2, <3>2, <3>3, SavesNote
  <2>4. CASE db = {}
    BY <1>6, <2>1, <2>2, <2>3, <2>4, SaveStep DEF Basics!LookInDatabase
  <2>5. CASE db # {}
    BY <1>6, <2>1, <2>2, <2>3, <2>5, SaveStep DEF Basics!LookInDatabase
  <2> QED
    BY <2>4, <2>5
<1>7. ASSUME NEW c \in Threads, Basics!Reload(c) PROVE BasicsInv'
  <2> DEFINE rs == Basics!Of(call[c].asked, cache)
  <2>1. rs \in SUBSET Stocks /\ (Basics!Covers(cache, call[c].asked) => Basics!Covers(rs, call[c].asked))
    BY DEF Basics!Of, Basics!Covers, BasicsInv, BasicsTypes
  <2>2. call[c].at = "reload" /\ Basics!SyncThen(c, rs, "stored")
        /\ UNCHANGED <<cache, db, checkpoint, cooling, replaced>>
    BY <1>7 DEF Basics!Reload
  <2>3. c \notin replaced => ServeInv(call[c], cache, db)
    BY DEF BasicsInv
  <2>4. call[c].at \notin Loading /\ Where(call[c]) = "reload"
    BY <2>2 DEF Where, Loading
  <2> HIDE DEF rs
  <2> QED
    BY <2>1, <2>2, <2>3, <2>4, SyncStep DEF ServeInv
<1>8. ASSUME NEW c \in Threads, Basics!ServeStored(c) PROVE BasicsInv'
  <2> DEFINE rs == IF call[c].asked = Nothing /\ call[c].rows = {} THEN db ELSE call[c].rows
             at == IF Basics!Covers(rs, call[c].asked) THEN "answered" ELSE "remote"
  <2>1. call[c].rows \in SUBSET Stocks /\ (call[c].asked # Nothing) \in BOOLEAN /\ rs \in SUBSET Stocks
    BY DEF BasicsInv, BasicsTypes, BasicsCalls
  <2>2. call[c].at = "stored" /\ Basics!Saves(c, call[c].rows, call[c].asked # Nothing) /\ Basics!Goes(c, at, rs)
        /\ UNCHANGED <<db, checkpoint, cooling>>
    BY <1>8 DEF Basics!ServeStored
  <2>3. ASSUME call[c].had, c \notin replaced PROVE Basics!Covers(rs, call[c].asked)
    <3>1. Where(call[c]) = "stored"
      BY <2>2 DEF Where, Loading
    <3>2. Basics!Covers(call[c].rows, call[c].asked)
      BY <2>3, <3>1 DEF BasicsInv, ServeInv
    <3> QED
      BY <3>2 DEF Basics!Covers
  <2>4. at \in {"answered", "remote"} /\ (at = "answered" <=> Basics!Covers(rs, call[c].asked))
    OBVIOUS
  <2> HIDE DEF rs, at
  <2> QED
    BY <2>1, <2>2, <2>3, <2>4, SaveStep
<1>9. ASSUME NEW c \in Threads, NEW fetched \in SUBSET Stocks, Basics!Fetch(c, fetched) PROVE BasicsInv'
  <2>1. call[c].at = "remote" /\ Where(call[c]) = "remote" /\ call[c].at \notin Loading
    BY <1>9 DEF Basics!Fetch, Where, Loading
  <2>2. c \notin replaced => ~call[c].had
    BY <2>1 DEF BasicsInv, ServeInv
  <2> QED
    BY <1>9, <2>1, <2>2, SyncStep DEF Basics!Fetch
<1>10. ASSUME NEW c \in Threads, Basics!ServeFetched(c) PROVE BasicsInv'
  <2>1. call[c].at = "fetched" /\ Where(call[c]) = "fetched"
    BY <1>10 DEF Basics!ServeFetched, Where, Loading
  <2>2. c \notin replaced => ~call[c].had
    BY <2>1 DEF BasicsInv, ServeInv
  <2>3. call[c].rows \in SUBSET Stocks /\ (call[c].asked # Nothing) \in BOOLEAN
    BY DEF BasicsInv, BasicsTypes, BasicsCalls
  <2> QED
    BY <1>10, <2>2, <2>3, SaveStep DEF Basics!ServeFetched
<1>11. ASSUME NEW c \in Threads, Basics!Resume(c) PROVE BasicsInv'
  <2> DEFINE new == [call[c] EXCEPT !.at = "batch", !.load = checkpoint.load, !.next = checkpoint.next]
  <2>1. call' = [call EXCEPT ![c] = new] /\ call[c].at = "load" /\ checkpoint # Nothing
        /\ UNCHANGED <<cache, db, checkpoint, cooling, replaced>>
    BY <1>11 DEF Basics!Resume, BasicsInv, BasicsTypes
  <2>2. checkpoint.load \in SUBSET HongKong /\ checkpoint.next \in 0..Cardinality(checkpoint.load)
        /\ (\A s \in checkpoint.load : Before(checkpoint.load, s) < checkpoint.next => s \in db)
        /\ checkpoint.next \in Nat
    BY <2>1, HongKongFinite DEF BasicsInv, BasicsTypes
  <2>3. /\ new \in BasicsCalls /\ new.at = "batch" /\ new.load = checkpoint.load /\ new.next = checkpoint.next
        /\ new.rows = call[c].rows /\ new.after = call[c].after /\ new.asked = call[c].asked
           /\ new.had = call[c].had
    BY <2>2 DEF BasicsInv, BasicsTypes, BasicsCalls, Loading
  <2> HIDE DEF new
  <2>4. LoadInv(new, db) /\ new.at \in Loading /\ call[c].at \in Loading
    BY <2>1, <2>2, <2>3 DEF LoadInv, Loading
  <2> QED
    BY <2>1, <2>3, <2>4, LoadStep DEF BasicsInv, BasicsTypes
<1>12. ASSUME NEW c \in Threads, NEW fetched \in SUBSET HongKong, Basics!LoadHongKong(c, fetched) PROVE BasicsInv'
  <2> DEFINE back == [call[c] EXCEPT !.at = call[c].after]
             new == [call[c] EXCEPT !.at = "batch", !.load = fetched, !.next = 0]
             file == [load |-> fetched, next |-> 0]
  <2>1. /\ call[c].at = "load" /\ cooling' = cooling \cup {c} /\ UNCHANGED <<cache, db, replaced>>
        /\ \/ call' = [call EXCEPT ![c] = back] /\ UNCHANGED checkpoint
           \/ call' = [call EXCEPT ![c] = new] /\ checkpoint' = file
    BY <1>12 DEF Basics!LoadHongKong, BasicsInv, BasicsTypes
  <2>2. call[c].at \in Loading /\ call[c].after \in {"idle", "cached", "stored", "fetched"}
    BY <2>1 DEF Loading, BasicsInv, BasicsTypes, BasicsCalls
  <2>3. /\ back \in BasicsCalls /\ back.at = call[c].after /\ back.load = call[c].load /\ back.next = call[c].next
        /\ back.rows = call[c].rows /\ back.after = call[c].after /\ back.asked = call[c].asked
        /\ back.had = call[c].had
    BY <2>2 DEF BasicsInv, BasicsTypes, BasicsCalls, Loading
  <2>4. /\ new \in BasicsCalls /\ new.at = "batch" /\ new.load = fetched /\ new.next = 0
        /\ new.rows = call[c].rows /\ new.after = call[c].after /\ new.asked = call[c].asked
           /\ new.had = call[c].had
    BY DEF BasicsInv, BasicsTypes, BasicsCalls, Loading
  <2>5. Cardinality(fetched) \in Nat /\ 0 \in 0..Cardinality(HongKong) /\ 0 \in 0..Cardinality(fetched)
    BY HongKongFinite
  <2>6. \A s \in fetched : Before(fetched, s) \in Nat
    BY <2>5, HongKongFinite, BeforeGrows
  <2>7. /\ file \in [load : SUBSET HongKong, next : 0..Cardinality(HongKong)]
           /\ file.next \in 0..Cardinality(file.load)
        /\ \A s \in file.load : Before(file.load, s) < file.next => s \in db
    BY <2>5, <2>6
  <2> HIDE DEF back, new, file
  <2>8. LoadInv(back, db) /\ LoadInv(new, db) /\ new.at \in Loading
    <3>1. LoadInv(back, db)
      BY <2>2, <2>3, LoadStays DEF BasicsInv
    <3>2. LoadInv(new, db)
      BY <2>4, <2>5, <2>6 DEF LoadInv
    <3> QED
      BY <2>4, <3>1, <3>2 DEF Loading
  <2>9. cooling' \in SUBSET Threads /\ cache' \in SUBSET Stocks /\ db' \in SUBSET Stocks /\ db' = db
        /\ cache' = cache
        /\ replaced' = replaced
    BY <2>1 DEF BasicsInv, BasicsTypes
  <2>10. CASE call' = [call EXCEPT ![c] = back] /\ UNCHANGED checkpoint
    BY <2>2, <2>3, <2>8, <2>9, <2>10, LoadStep
  <2>11. CASE call' = [call EXCEPT ![c] = new] /\ checkpoint' = file
    BY <2>2, <2>4, <2>7, <2>8, <2>9, <2>11, LoadStep
  <2> QED
    BY <2>1, <2>10, <2>11
<1>13. ASSUME NEW c \in Threads, Basics!Store(c) PROVE BasicsInv'
  <2> DEFINE new == [call[c] EXCEPT !.at = "batch stored", !.rows = call[c].rows]
             batch == Slice(call[c].load, call[c].next, BatchSize)
  <2>1. call' = [call EXCEPT ![c] = new] /\ call[c].at = "batch" /\ db' = db \cup batch
        /\ UNCHANGED <<cache, checkpoint, cooling, replaced>>
    BY <1>13, BatchIsSlice DEF Basics!Store, Basics!Goes, BasicsInv, BasicsTypes
  <2>2. /\ new \in BasicsCalls /\ new.at = "batch stored" /\ new.load = call[c].load /\ new.next = call[c].next
        /\ new.rows = call[c].rows /\ new.after = call[c].after /\ new.asked = call[c].asked
           /\ new.had = call[c].had
        /\ call[c].load \in SUBSET HongKong
    BY DEF BasicsInv, BasicsTypes, BasicsCalls, Loading
  <2> HIDE DEF new
  <2>3. batch \in SUBSET Stocks
    BY <2>2, StocksAssumption DEF Slice
  <2>4. LoadInv(new, db') /\ new.at \in Loading /\ call[c].at \in Loading
    BY <2>1, <2>2 DEF LoadInv, Loading, BasicsInv
  <2>5. db' \in SUBSET Stocks /\ db \subseteq db' /\ cache' \in SUBSET Stocks /\ cooling' \in SUBSET Threads
    BY <2>1, <2>3 DEF BasicsInv, BasicsTypes
  <2> QED
    BY <2>1, <2>2, <2>4, <2>5, LoadStep
<1>14. ASSUME NEW c \in Threads, Basics!SaveBatch(c) PROVE BasicsInv'
  <2> DEFINE new == [call[c] EXCEPT !.at = "batch saved", !.rows = call[c].rows]
             batch == Slice(call[c].load, call[c].next, BatchSize)
  <2>1. call' = [call EXCEPT ![c] = new] /\ call[c].at = "batch stored" /\ Basics!Saves(c, batch, TRUE)
        /\ UNCHANGED <<db, checkpoint, cooling>>
    BY <1>14, BatchIsSlice DEF Basics!SaveBatch, Basics!Goes, BasicsInv, BasicsTypes
  <2>2. /\ new \in BasicsCalls /\ new.at = "batch saved" /\ new.load = call[c].load /\ new.next = call[c].next
        /\ new.rows = call[c].rows /\ new.after = call[c].after /\ new.asked = call[c].asked
           /\ new.had = call[c].had
        /\ call[c].load \in SUBSET HongKong
    BY DEF BasicsInv, BasicsTypes, BasicsCalls, Loading
  <2> HIDE DEF new
  <2>3. batch \in SUBSET Stocks
    BY <2>2, StocksAssumption DEF Slice
  <2>4. LoadInv(new, db') /\ new.at \in Loading /\ call[c].at \in Loading
    BY <2>1, <2>2 DEF LoadInv, Loading, BasicsInv
  <2> HIDE DEF batch
  <2>5. cache' = cache \cup batch /\ replaced' = replaced
    BY <2>1 DEF Basics!Saves
  <2>6. db' \in SUBSET Stocks /\ db \subseteq db' /\ cache' \in SUBSET Stocks /\ cache \subseteq cache'
        /\ cooling' \in SUBSET Threads
    BY <2>1, <2>3, <2>5 DEF BasicsInv, BasicsTypes
  <2> QED
    BY <2>1, <2>2, <2>4, <2>5, <2>6, LoadStep
<1>15. ASSUME NEW c \in Threads, Basics!Checkpoint(c) PROVE BasicsInv'
  <2> DEFINE load == call[c].load
             batch == Slice(load, call[c].next, BatchSize)
             n == call[c].next + Cardinality(batch)
             new == [call[c] EXCEPT !.at = "batch", !.next = n]
             file == [load |-> load, next |-> n]
  <2>1. call' = [call EXCEPT ![c] = new] /\ call[c].at = "batch saved" /\ checkpoint' = file
        /\ UNCHANGED <<cache, db, cooling, replaced>>
    BY <1>15, BatchIsSlice, CardinalityOfBasics DEF Basics!Checkpoint, BasicsInv, BasicsTypes
  <2>2. /\ load \in SUBSET HongKong /\ load \in SUBSET Nat /\ IsFiniteSet(load)
           /\ call[c].next \in 0..Cardinality(load)
        /\ 0..Cardinality(load) \subseteq 0..Cardinality(HongKong) /\ Cardinality(load) \in Nat
    BY HongKongFinite DEF BasicsInv, BasicsTypes, BasicsCalls, LoadInv
  <2>3. n \in 0..Cardinality(load)
        /\ \A s \in load : Before(load, s) < n => Before(load, s) < call[c].next \/ s \in batch
    BY <2>2, SliceSays, StocksAssumption
  <2>4. \A s \in load : Before(load, s) < n => s \in db
    BY <2>1, <2>3 DEF BasicsInv, LoadInv
  <2>5. n \in Nat /\ n \in 0..Cardinality(HongKong)
    BY <2>2, <2>3
  <2> HIDE DEF n
  <2>6. /\ new \in BasicsCalls /\ new.at = "batch" /\ new.load = call[c].load /\ new.next = n
        /\ new.rows = call[c].rows /\ new.after = call[c].after /\ new.asked = call[c].asked
           /\ new.had = call[c].had
    BY <2>5 DEF BasicsInv, BasicsTypes, BasicsCalls, Loading
  <2>7. /\ file \in [load : SUBSET HongKong, next : 0..Cardinality(HongKong)] /\ file.next = n /\ file.load = load
    BY <2>2, <2>5
  <2> HIDE DEF new, file
  <2>8. LoadInv(new, db') /\ new.at \in Loading /\ call[c].at \in Loading
    BY <2>1, <2>3, <2>4, <2>6 DEF LoadInv, Loading
  <2>9. /\ checkpoint' \in [load : SUBSET HongKong, next : 0..Cardinality(HongKong)]
        /\ checkpoint'.next \in 0..Cardinality(checkpoint'.load)
        /\ \A s \in checkpoint'.load : Before(checkpoint'.load, s) < checkpoint'.next => s \in db'
    BY <2>1, <2>3, <2>4, <2>7
  <2> HIDE DEF load
  <2> QED
    BY <2>1, <2>6, <2>8, <2>9, LoadStep DEF BasicsInv, BasicsTypes
<1>16. ASSUME NEW c \in Threads, Basics!Loaded(c) PROVE BasicsInv'
  <2> DEFINE rs == Basics!Of(call[c].asked, cache)
             kept == IF rs = {} THEN call[c].rows ELSE rs
             new == [call[c] EXCEPT !.at = call[c].after, !.load = {}, !.next = 0, !.rows = kept]
  <2>1. call' = [call EXCEPT ![c] = new] /\ call[c].at = "batch" /\ checkpoint' = Nothing
        /\ UNCHANGED <<cache, db, cooling, replaced>>
    BY <1>16 DEF Basics!Loaded, BasicsInv, BasicsTypes
  <2>2. call[c].at \in Loading /\ call[c].asked = Nothing
        /\ call[c].after \in {"idle", "cached", "stored", "fetched"}
    BY <2>1 DEF Loading, BasicsInv, BasicsTypes, BasicsCalls
  <2>3. kept \in SUBSET Stocks /\ (kept = call[c].rows \/ Basics!Covers(kept, Nothing))
    BY DEF BasicsInv, BasicsTypes, BasicsCalls, Basics!Of, Basics!Covers
  <2> HIDE DEF kept
  <2>4. /\ new \in BasicsCalls /\ new.at = call[c].after /\ new.load = {} /\ new.next = 0
        /\ new.rows = kept /\ new.after = call[c].after /\ new.asked = call[c].asked /\ new.had = call[c].had
    BY <2>2, <2>3, ZenonT(60) DEF BasicsInv, BasicsTypes, BasicsCalls, Loading
  <2> HIDE DEF new
  <2>5. LoadInv(new, db)
    BY <1>0, <2>2, <2>4, LoadStays
  <2> QED
    BY <2>1, <2>2, <2>3, <2>4, <2>5, LoadStep DEF BasicsInv, BasicsTypes
<1>17. ASSUME NEW c \in Threads, Basics!Cool(c) PROVE BasicsInv'
  BY <1>17 DEF Basics!Cool, BasicsInv, BasicsTypes
<1>18. ASSUME NEW c \in Threads, Basics!Return(c) \/ Basics!Fail(c) PROVE BasicsInv'
  BY <1>1, <1>18 DEF Basics!Return, Basics!Fail
<1> QED
  BY <1>2, <1>3, <1>4, <1>5, <1>6, <1>7, <1>8, <1>9, <1>10, <1>11, <1>12, <1>13, <1>14, <1>15, <1>16, <1>17, <1>18
     DEF Basics!Next

LEMMA BasicsSay == ASSUME BasicsInv PROVE Basics!TypeOK /\ Basics!LoadedIsStored /\ Basics!AnsweredInFull
<1>1. \A S : Basics!Cardinality(S) = Cardinality(S)
  BY CardinalityOfBasics
<1>2. Basics!LoadedIsStored
  BY <1>1 DEF BasicsInv, Basics!LoadedIsStored, Before
<1>3. Basics!AnsweredInFull
  BY DEF BasicsInv, ServeInv, Where, Loading, Basics!AnsweredInFull
<1>4. Basics!TypeOK
  BY <1>1 DEF BasicsInv, BasicsTypes, BasicsCalls, Basics!TypeOK
<1> QED
  BY <1>2, <1>3, <1>4


-----------------------------------------------------------------------------
(* The history of stocks *)

LEMMA CardinalityOfHistory == \A S : History!Cardinality(S) = Cardinality(S)
BY DEF History!Cardinality, Cardinality

HistoryDocs ==
  [day : 1..LastDay, symbols : SUBSET Stocks, next : 0..Cardinality(Stocks), indexDone : BOOLEAN]

HistoryRuns ==
  [at : {"idle", "first", "indices", "indexSaved", "stock", "saved"}, day : 0..LastDay, symbols : SUBSET Stocks,
   next : Nat, indexDone : BOOLEAN, resume : BOOLEAN]

HistoryTypes ==
  /\ day \in 1..LastDay /\ loaded \in [1..LastDay -> SUBSET (Stocks \cup {0})]
  /\ checkpoint \in HistoryDocs \cup {Nothing, Torn}
  /\ run \in [Threads -> HistoryRuns]

\* All that a document, or a run, has passed over was loaded for its date.
DocBacked(doc, table) ==
  /\ doc.next \in 0..Cardinality(doc.symbols)
  /\ \A s \in doc.symbols : Before(doc.symbols, s) < doc.next => s \in table[doc.day]
  /\ doc.indexDone => 0 \in table[doc.day]

HistoryRunFits(r, table) ==
  r.at # "idle" => /\ r.day \in 1..LastDay /\ DocBacked(r, table)
                   /\ r.at \in {"indexSaved", "stock", "saved"} => r.indexDone

HistoryInv ==
  /\ HistoryTypes
  /\ History!Parses(checkpoint) => DocBacked(checkpoint, loaded)
  /\ \A r \in Threads : HistoryRunFits(run[r], loaded) /\ run[r].next <= Cardinality(run[r].symbols)

LEMMA StocksFinite ==
  \A S \in SUBSET Stocks :
    /\ S \in SUBSET Nat /\ IsFiniteSet(S) /\ Cardinality(S) \in Nat
    /\ 0..Cardinality(S) \subseteq 0..Cardinality(Stocks)
<1>1. ASSUME NEW S \in SUBSET Stocks
      PROVE  /\ IsFiniteSet(S) /\ Cardinality(S) \in Nat /\ Cardinality(Stocks) \in Nat
             /\ Cardinality(S) <= Cardinality(Stocks)
  BY StocksAssumption, FS_Subset, FS_CardinalityType
<1> QED
  BY <1>1, StocksAssumption

LEMMA HistoryInit == ASSUME History!Init PROVE HistoryInv
<1>1. History!Idle \in HistoryRuns /\ History!Idle.at = "idle" /\ History!Idle.next = 0
      /\ History!Idle.symbols = {}
  BY BoundsAssumption DEF History!Idle, HistoryRuns
<1>2. ~History!Parses(checkpoint) /\ HistoryTypes
  BY <1>1, BoundsAssumption DEF History!Init, History!Parses, HistoryTypes, History!Days
<1>3. run = [r \in Threads |-> History!Idle]
  BY DEF History!Init
<1> QED
  BY <1>1, <1>2, <1>3, FS_EmptySet DEF HistoryInv, HistoryRunFits

\* A run goes on, loads no less, and what it writes down was loaded.
LEMMA HistoryRunStep ==
  ASSUME HistoryInv, NEW r \in Threads, NEW new \in HistoryRuns, run' = [run EXCEPT ![r] = new], UNCHANGED day,
         loaded' \in [1..LastDay -> SUBSET (Stocks \cup {0})],
         \A d \in 1..LastDay : loaded[d] \subseteq loaded'[d],
         HistoryRunFits(new, loaded'), new.next <= Cardinality(new.symbols),
         \/ checkpoint' \in {checkpoint, Nothing, Torn}
         \/ checkpoint' \in HistoryDocs /\ DocBacked(checkpoint', loaded')
  PROVE  HistoryInv'
<1>1. run' \in [Threads -> HistoryRuns] /\ run'[r] = new /\ \A q \in Threads : q # r => run'[q] = run[q]
  BY DEF HistoryInv, HistoryTypes
<1>2. HistoryTypes'
  BY <1>1 DEF HistoryInv, HistoryTypes
<1>3. ASSUME NEW q \in Threads PROVE HistoryRunFits(run'[q], loaded')
             /\ run'[q].next <= Cardinality(run'[q].symbols)
  <2>1. CASE q = r
    BY <1>1, <2>1
  <2>2. CASE q # r
    <3>1. HistoryRunFits(run[q], loaded) /\ run[q].next <= Cardinality(run[q].symbols) /\ run'[q] = run[q]
      BY <1>1, <2>2 DEF HistoryInv
    <3>2. HistoryRunFits(run[q], loaded')
      BY <3>1 DEF HistoryRunFits, DocBacked
    <3> QED
      BY <3>1, <3>2
  <2> QED
    BY <2>1, <2>2
<1>4. ASSUME History!Parses(checkpoint') PROVE DocBacked(checkpoint', loaded')
  <2>1. CASE checkpoint' = checkpoint
    <3>1. DocBacked(checkpoint, loaded) /\ checkpoint.day \in 1..LastDay
      BY <1>4, <2>1 DEF HistoryInv, HistoryTypes, HistoryDocs, History!Parses
    <3>2. DocBacked(checkpoint, loaded')
      BY <3>1 DEF DocBacked
    <3> QED
      BY <2>1, <3>2
  <2>2. CASE checkpoint' \in {Nothing, Torn}
    BY <1>4, <2>2 DEF History!Parses
  <2> QED
    BY <2>1, <2>2
<1> QED
  BY <1>2, <1>3, <1>4 DEF HistoryInv, History!Parses

\* What a run writes down of itself is a document.
LEMMA HistoryDoc ==
  ASSUME HistoryInv, NEW r \in Threads, run[r].at # "idle", NEW n \in 0..Cardinality(run[r].symbols),
         NEW done \in BOOLEAN
  PROVE  /\ History!Doc(r, n, done) \in HistoryDocs
         /\ History!Doc(r, n, done).day = run[r].day /\ History!Doc(r, n, done).symbols = run[r].symbols
         /\ History!Doc(r, n, done).next = n /\ History!Doc(r, n, done).indexDone = done
<1>1. run[r].day \in 1..LastDay /\ run[r].symbols \in SUBSET Stocks
  BY DEF HistoryInv, HistoryTypes, HistoryRuns, HistoryRunFits
<1>2. n \in 0..Cardinality(Stocks)
  BY <1>1, StocksFinite
<1> QED
  BY <1>1, <1>2 DEF History!Doc, HistoryDocs

LEMMA HistoryStep == ASSUME HistoryInv, [History!Next]_(History!vars) PROVE HistoryInv'
<1>0. /\ History!Idle \in HistoryRuns /\ History!Idle.at = "idle" /\ History!Idle.next = 0
         /\ History!Idle.symbols = {}
      /\ History!Idle.next <= Cardinality(History!Idle.symbols) /\ \A table : HistoryRunFits(History!Idle, table)
  <2>1. History!Idle \in HistoryRuns /\ History!Idle.at = "idle" /\ History!Idle.next = 0
        /\ History!Idle.symbols = {}
    BY BoundsAssumption DEF History!Idle, HistoryRuns
  <2> QED
    BY <2>1, FS_EmptySet DEF HistoryRunFits
<1>1. CASE UNCHANGED History!vars
  BY <1>1 DEF History!vars, HistoryInv, HistoryTypes, History!Parses
<1>2. ASSUME NEW r \in Threads, NEW pool \in SUBSET Stocks, NEW resume \in BOOLEAN, NEW reset \in BOOLEAN,
             History!Start(r, pool, resume, reset)
      PROVE  HistoryInv'
  <2>1. checkpoint' \in {checkpoint, Nothing, Torn} /\ UNCHANGED <<day, loaded>> /\ day \in 1..LastDay
        /\ day \in 0..LastDay
    BY <1>2 DEF History!Start, HistoryInv, HistoryTypes
  <2>2. PICK doc \in (IF resume /\ ~reset THEN History!Documents(r) ELSE {Nothing}) :
          run' = [run EXCEPT ![r] =
            IF doc = Nothing
            THEN [History!Idle EXCEPT !.at = IF resume THEN "first" ELSE "indices", !.day = day,
                                      !.symbols = pool, !.resume = resume]
            ELSE [at |-> IF doc.indexDone THEN "stock" ELSE "indices", day |-> day,
                  symbols |-> doc.symbols, next |-> doc.next, indexDone |-> doc.indexDone,
                  resume |-> TRUE]]
    BY <1>2 DEF History!Start
  <2>3. CASE doc = Nothing
    <3> DEFINE at == IF resume THEN "first" ELSE "indices"
               new == [History!Idle EXCEPT !.at = at, !.day = day, !.symbols = pool, !.resume = resume]
    <3>1. run' = [run EXCEPT ![r] = new] /\ at \in {"first", "indices"}
      BY <2>2, <2>3
    <3> HIDE DEF at
    <3>2. /\ new \in HistoryRuns /\ new.at = at /\ new.day = day /\ new.symbols = pool /\ new.next = 0
          /\ new.indexDone = FALSE
      BY <2>1, <3>1 DEF HistoryRuns, History!Idle
    <3> HIDE DEF new
    <3>3. pool \in SUBSET Nat /\ IsFiniteSet(pool) /\ Cardinality(pool) \in Nat
      BY StocksFinite
    <3>4. \A s \in pool : Before(pool, s) \in Nat
      BY <3>3, BeforeGrows
    <3>5. DocBacked(new, loaded')
      <4>1. 0 \in 0..Cardinality(pool) /\ \A s \in pool : ~(Before(pool, s) < 0)
        BY <3>3, <3>4
      <4> QED
        BY <3>2, <4>1 DEF DocBacked
    <3>6. HistoryRunFits(new, loaded') /\ new.next <= Cardinality(new.symbols)
      BY <2>1, <3>1, <3>2, <3>3, <3>5 DEF HistoryRunFits
    <3> QED
      BY <2>1, <3>1, <3>2, <3>6, HistoryRunStep DEF HistoryInv, HistoryTypes
  <2>4. CASE doc # Nothing
    <3> DEFINE at == IF doc.indexDone THEN "stock" ELSE "indices"
               new == [at |-> at, day |-> day, symbols |-> doc.symbols, next |-> doc.next,
                       indexDone |-> doc.indexDone, resume |-> TRUE]
    <3>1. run' = [run EXCEPT ![r] = new]
      BY <2>2, <2>4
    <3>2. doc = checkpoint /\ History!Parses(checkpoint) /\ checkpoint.day = day
      BY <2>4 DEF History!Documents
    <3>3. doc \in HistoryDocs /\ DocBacked(doc, loaded) /\ doc.next \in Nat
      BY <3>2 DEF HistoryInv, HistoryTypes, History!Parses, HistoryDocs
    <3>4. at \in {"stock", "indices"} /\ (at = "stock" => doc.indexDone)
      OBVIOUS
    <3> HIDE DEF at
    <3>5. /\ new \in HistoryRuns /\ new.at = at /\ new.day = doc.day /\ new.symbols = doc.symbols
          /\ new.next = doc.next /\ new.indexDone = doc.indexDone
      BY <2>1, <3>2, <3>3, <3>4 DEF HistoryRuns, HistoryDocs
    <3> HIDE DEF new
    <3>6. DocBacked(new, loaded') /\ new.next <= Cardinality(new.symbols)
      BY <2>1, <3>3, <3>5 DEF DocBacked
    <3>7. HistoryRunFits(new, loaded')
      BY <2>1, <3>2, <3>4, <3>5, <3>6 DEF HistoryRunFits
    <3> QED
      BY <2>1, <3>1, <3>5, <3>6, <3>7, HistoryRunStep DEF HistoryInv, HistoryTypes
  <2> QED
    BY <2>3, <2>4
\* A run goes to another step, after it has loaded what is given.
<1>3. ASSUME NEW r \in Threads, run[r].at # "idle", UNCHANGED day,
             NEW at \in {"indices", "indexSaved", "stock", "saved"}, NEW n \in Nat, NEW done \in BOOLEAN,
             History!Goes(r, at, n, done), n \in 0..Cardinality(run[r].symbols),
             loaded' \in [1..LastDay -> SUBSET (Stocks \cup {0})],
             \A d \in 1..LastDay : loaded[d] \subseteq loaded'[d],
             \A s \in run[r].symbols : Before(run[r].symbols, s) < n => s \in loaded'[run[r].day],
             done => 0 \in loaded'[run[r].day], at \in {"indexSaved", "stock", "saved"} => done,
             \/ checkpoint' = checkpoint
             \/ History!Written(r, History!Doc(r, n, done))
      PROVE  HistoryInv'
  <2> DEFINE new == [run[r] EXCEPT !.at = at, !.next = n, !.indexDone = done]
  <2>1. run' = [run EXCEPT ![r] = new]
    BY <1>3 DEF History!Goes, HistoryInv, HistoryTypes
  <2>2. /\ new \in HistoryRuns /\ new.at = at /\ new.day = run[r].day /\ new.symbols = run[r].symbols
        /\ new.next = n /\ new.indexDone = done
    BY <1>3 DEF HistoryInv, HistoryTypes, HistoryRuns
  <2> HIDE DEF new
  <2>3. run[r].day \in 1..LastDay /\ run[r].symbols \in SUBSET Stocks
    BY <1>3 DEF HistoryInv, HistoryTypes, HistoryRuns, HistoryRunFits
  <2>4. DocBacked(new, loaded') /\ new.next <= Cardinality(new.symbols)
    BY <1>3, <2>2, <2>3, StocksFinite DEF DocBacked
  <2>5. HistoryRunFits(new, loaded')
    BY <1>3, <2>2, <2>3, <2>4 DEF HistoryRunFits
  <2>6. History!Doc(r, n, done) \in HistoryDocs /\ DocBacked(History!Doc(r, n, done), loaded')
    <3> DEFINE doc == History!Doc(r, n, done)
    <3>1. doc \in HistoryDocs /\ doc.day = run[r].day /\ doc.symbols = run[r].symbols /\ doc.next = n
          /\ doc.indexDone = done
      BY <1>3, HistoryDoc
    <3> HIDE DEF doc
    <3>2. DocBacked(doc, loaded')
      BY <1>3, <3>1 DEF DocBacked
    <3> QED
      BY <3>1, <3>2 DEF doc
  <2>7. \/ checkpoint' \in {checkpoint, Nothing, Torn}
        \/ checkpoint' \in HistoryDocs /\ DocBacked(checkpoint', loaded')
    BY <1>3, <2>6 DEF History!Written
  <2> QED
    BY <1>3, <2>1, <2>2, <2>4, <2>5, <2>7, HistoryRunStep
\* A run that is under way.
<1>4. ASSUME NEW r \in Threads, run[r].at # "idle"
      PROVE  /\ run[r].day \in 1..LastDay /\ run[r].symbols \in SUBSET Stocks /\ run[r].symbols \in SUBSET Nat
             /\ IsFiniteSet(run[r].symbols) /\ Cardinality(run[r].symbols) \in Nat
             /\ run[r].next \in 0..Cardinality(run[r].symbols) /\ run[r].next \in Nat
             /\ \A s \in run[r].symbols : Before(run[r].symbols, s) < run[r].next => s \in loaded[run[r].day]
             /\ \A s \in run[r].symbols : Before(run[r].symbols, s) \in 0..(Cardinality(run[r].symbols) - 1)
             /\ run[r].at \in {"indexSaved", "stock", "saved"} => 0 \in loaded[run[r].day]
  <2>1. run[r].day \in 1..LastDay /\ run[r].symbols \in SUBSET Stocks /\ DocBacked(run[r], loaded)
        /\ run[r].next \in Nat
        /\ (run[r].at \in {"indexSaved", "stock", "saved"} => run[r].indexDone)
    BY <1>4 DEF HistoryInv, HistoryTypes, HistoryRuns, HistoryRunFits
  <2>2. run[r].symbols \in SUBSET Nat /\ IsFiniteSet(run[r].symbols) /\ Cardinality(run[r].symbols) \in Nat
    BY <2>1, StocksFinite
  <2> QED
    BY <2>1, <2>2, BeforeGrows DEF DocBacked
\* What a load makes of the history.
<1>5. ASSUME NEW r \in Threads, run[r].at # "idle", NEW given \in SUBSET (Stocks \cup {0}), History!Loads(r, given)
      PROVE  /\ loaded' \in [1..LastDay -> SUBSET (Stocks \cup {0})]
             /\ \A d \in 1..LastDay : loaded[d] \subseteq loaded'[d]
             /\ loaded'[run[r].day] = loaded[run[r].day] \cup given
  <2>1. loaded' = [loaded EXCEPT ![run[r].day] = loaded[run[r].day] \cup given] /\ run[r].day \in 1..LastDay
        /\ loaded \in [1..LastDay -> SUBSET (Stocks \cup {0})]
    BY <1>4, <1>5 DEF History!Loads, HistoryInv, HistoryTypes
  <2> QED
    BY <2>1
<1>6. ASSUME NEW r \in Threads, History!FirstCheckpoint(r) PROVE HistoryInv'
  <2>1. /\ run[r].at = "first" /\ History!Written(r, History!Doc(r, 0, FALSE))
           /\ History!Goes(r, "indices", 0, FALSE)
        /\ UNCHANGED <<day, loaded>>
    BY <1>6 DEF History!FirstCheckpoint
  <2>2. 0 \in 0..Cardinality(run[r].symbols) /\ \A s \in run[r].symbols : ~(Before(run[r].symbols, s) < 0)
    BY <1>4, <2>1
  <2> QED
    BY <1>3, <2>1, <2>2 DEF HistoryInv, HistoryTypes
<1>7. ASSUME NEW r \in Threads, History!LoadIndices(r) PROVE HistoryInv'
  <2> DEFINE at == IF run[r].resume THEN "indexSaved" ELSE "stock"
  <2>1. /\ run[r].at = "indices" /\ History!Loads(r, {0}) /\ History!Goes(r, at, run[r].next, TRUE)
        /\ UNCHANGED <<day, checkpoint>> /\ at \in {"indexSaved", "stock"}
    BY <1>7 DEF History!LoadIndices, History!Indices
  <2>2. {0} \in SUBSET (Stocks \cup {0})
    OBVIOUS
  <2> HIDE DEF at
  <2>3. /\ loaded' \in [1..LastDay -> SUBSET (Stocks \cup {0})]
        /\ \A d \in 1..LastDay : loaded[d] \subseteq loaded'[d]
        /\ loaded'[run[r].day] = loaded[run[r].day] \cup {0}
    BY <1>5, <2>1, <2>2
  <2>4. /\ run[r].next \in 0..Cardinality(run[r].symbols) /\ run[r].next \in Nat
        /\ \A s \in run[r].symbols : Before(run[r].symbols, s) < run[r].next => s \in loaded'[run[r].day]
        /\ 0 \in loaded'[run[r].day] /\ run[r].at # "idle"
    BY <1>4, <2>1, <2>3
  <2>5. at \in {"indices", "indexSaved", "stock", "saved"} /\ checkpoint' = checkpoint /\ day' = day
    BY <2>1
  <2> QED
    BY <1>3, <2>1, <2>3, <2>4, <2>5
<1>8. ASSUME NEW r \in Threads, History!SaveIndices(r) \/ History!SaveStock(r) PROVE HistoryInv'
  <2>1. /\ run[r].at \in {"indexSaved", "saved"} /\ History!Written(r, History!Doc(r, run[r].next, TRUE))
        /\ History!Goes(r, "stock", run[r].next, TRUE) /\ UNCHANGED <<day, loaded>>
    BY <1>8 DEF History!SaveIndices, History!SaveStock
  <2> QED
    BY <1>3, <1>4, <2>1 DEF HistoryInv, HistoryTypes
<1>9. ASSUME NEW r \in Threads, History!LoadStock(r) PROVE HistoryInv'
  <2> DEFINE at == IF run[r].resume THEN "saved" ELSE "stock"
             given == {s \in run[r].symbols : Before(run[r].symbols, s) = run[r].next}
  <2>1. /\ run[r].at = "stock" /\ run[r].next < Cardinality(run[r].symbols) /\ History!Loads(r, given)
        /\ History!Goes(r, at, run[r].next + 1, TRUE) /\ UNCHANGED <<day, checkpoint>> /\ at \in {"saved", "stock"}
    BY <1>9, CardinalityOfHistory DEF History!LoadStock, History!NextStock, Before
  <2>2. given \in SUBSET (Stocks \cup {0})
    BY <1>4, <2>1
  <2>3. run[r].next + 1 \in 0..Cardinality(run[r].symbols) /\ run[r].next + 1 \in Nat
        /\ \A s \in run[r].symbols : Before(run[r].symbols, s) < run[r].next + 1 =>
                                       Before(run[r].symbols, s) < run[r].next \/ s \in given
    BY <1>4, <2>1
  <2> HIDE DEF at, given
  <2>4. /\ loaded' \in [1..LastDay -> SUBSET (Stocks \cup {0})]
        /\ \A d \in 1..LastDay : loaded[d] \subseteq loaded'[d]
        /\ loaded'[run[r].day] = loaded[run[r].day] \cup given
    BY <1>5, <2>1, <2>2
  <2>5. /\ \A s \in run[r].symbols : Before(run[r].symbols, s) < run[r].next + 1 => s \in loaded'[run[r].day]
        /\ 0 \in loaded'[run[r].day] /\ run[r].at # "idle"
    BY <1>4, <2>1, <2>3, <2>4
  <2>6. at \in {"indices", "indexSaved", "stock", "saved"} /\ checkpoint' = checkpoint /\ day' = day
    BY <2>1
  <2> QED
    BY <1>3, <2>1, <2>3, <2>4, <2>5, <2>6
<1>10. ASSUME NEW r \in Threads, History!Finish(r) \/ History!Crash(r) PROVE HistoryInv'
  <2>1. run' = [run EXCEPT ![r] = History!Idle] /\ UNCHANGED <<day, loaded>>
        /\ checkpoint' \in {checkpoint, Nothing, Torn}
    BY <1>10 DEF History!Finish, History!Crash
  <2> QED
    BY <1>0, <2>1, HistoryRunStep DEF HistoryInv, HistoryTypes
<1>11. CASE History!NextDay
  BY <1>11, BoundsAssumption DEF History!NextDay, HistoryInv, HistoryTypes, History!Parses
<1> QED
  BY <1>1, <1>2, <1>6, <1>7, <1>8, <1>9, <1>10, <1>11 DEF History!Next

LEMMA HistorySays == ASSUME HistoryInv PROVE History!TypeOK /\ History!NothingSkipped
<1>1. \A S : History!Cardinality(S) = Cardinality(S)
  BY CardinalityOfHistory
<1>2. History!TypeOK
  BY <1>1 DEF HistoryInv, HistoryTypes, HistoryDocs, History!TypeOK, History!Days, History!Indices
<1>3. ASSUME History!Parses(checkpoint)
      PROVE  /\ History!Passed(checkpoint) \subseteq loaded[checkpoint.day]
             /\ checkpoint.indexDone => 0 \in loaded[checkpoint.day]
  BY <1>1, <1>3 DEF HistoryInv, DocBacked, History!Passed, Before
<1>4. ASSUME NEW r \in Threads, run[r].at = "stock", run[r].next >= Cardinality(run[r].symbols)
      PROVE  run[r].symbols \cup {0} \subseteq loaded[run[r].day]
  <2>1. run[r].symbols \in SUBSET Stocks /\ run[r].next \in Nat /\ DocBacked(run[r], loaded) /\ run[r].indexDone
    BY <1>4 DEF HistoryInv, HistoryTypes, HistoryRuns, HistoryRunFits
  <2>2. \A s \in run[r].symbols : Before(run[r].symbols, s) < run[r].next
    <3>1. Cardinality(run[r].symbols) \in Nat
      BY <2>1, StocksFinite
    <3>2. \A s \in run[r].symbols : Before(run[r].symbols, s) \in 0..(Cardinality(run[r].symbols) - 1)
      BY <2>1, StocksFinite, BeforeGrows
    <3> QED
      BY <1>4, <2>1, <3>1, <3>2
  <2> QED
    BY <2>1, <2>2 DEF DocBacked
<1> QED
  BY <1>1, <1>2, <1>3, <1>4 DEF History!NothingSkipped, History!Indices


-----------------------------------------------------------------------------
(* The details of stocks *)

LEMMA CardinalityOfDetails == \A S : Details!Cardinality(S) = Cardinality(S)
BY DEF Details!Cardinality, Cardinality

DetailDocs == [symbols : SUBSET Stocks, next : 0..Cardinality(Stocks)]

\* Entries of the status file, and what a batch's symbols gave.
Entries == {Nothing} \cup SUBSET Details!Sections
Given == {NoPayload, Nothing, {}, {"intraday"}}

Gots == {<<>>} \cup UNION {[batch -> Given] : batch \in SUBSET Stocks}

DetailRuns ==
  [at : {"idle", "collect", "flush", "merge", "status", "save", "next"}, symbols : SUBSET Stocks, next : Nat,
   resume : BOOLEAN, got : Gots, old : {<<>>} \cup [Stocks -> Entries]]

DetailTypes ==
  /\ checkpoint \in DetailDocs \cup {Nothing, Torn}
  /\ status \in [Stocks -> Entries] /\ starts \in Nat
  /\ reached \in [SUBSET Stocks -> Nat] /\ loaded \in SUBSET Stocks
  /\ run \in [Threads -> DetailRuns]

\* A map of entries shows no intraday rows but those that are there.
MapBacked(map, table) == \A s \in Stocks : map[s] # Nothing /\ "intraday" \in map[s] => s \in table

OwnBatch(r) == Slice(r.symbols, r.next, BatchSize)

\* What comes before a run's batch was stored, and from its flush on the batch
\* too; what it will write to the status file was stored.
DetailRunFits(r, marks, table) ==
  /\ r.next \in 0..Cardinality(r.symbols) /\ r.next <= marks[r.symbols]
  /\ r.at \in {"flush", "merge", "status"} => r.got \in [OwnBatch(r) -> Given]
  /\ r.at \in {"merge", "status", "save", "next"} => r.next + Cardinality(OwnBatch(r)) <= marks[r.symbols]
  /\ r.at \in {"merge", "status"} => \A s \in OwnBatch(r) : r.got[s] = {"intraday"} => s \in table
  /\ r.at = "status" => r.old \in [Stocks -> Entries] /\ MapBacked(r.old, table)

DetailInv ==
  /\ DetailTypes
  /\ checkpoint \notin {Nothing, Torn} => checkpoint.next <= reached[checkpoint.symbols]
  /\ MapBacked(status, loaded)
  /\ \A r \in Threads : DetailRunFits(run[r], reached, loaded)

LEMMA DetailBatch ==
  ASSUME DetailTypes, NEW r \in Threads
  PROVE  /\ Details!Batch(r) = OwnBatch(run[r])
         /\ Details!BatchEnd(r) = run[r].next + Cardinality(OwnBatch(run[r]))
BY CardinalityOfDetails DEF Details!Batch, Details!BatchEnd, Details!Ahead, OwnBatch, Slice, Before

\* An idle run fits anything.
LEMMA DetailIdle ==
  /\ Details!Idle \in DetailRuns
  /\ \A marks \in [SUBSET Stocks -> Nat] : \A table : DetailRunFits(Details!Idle, marks, table)
<1>1. /\ Details!Idle \in DetailRuns /\ Details!Idle.at = "idle" /\ Details!Idle.next = 0
      /\ Details!Idle.symbols = {}
  BY DEF Details!Idle, DetailRuns, Gots
<1>2. 0 \in 0..Cardinality({})
  BY FS_EmptySet
<1>3. ASSUME NEW marks \in [SUBSET Stocks -> Nat] PROVE 0 <= marks[{}]
  <2>1. marks[{}] \in Nat
    OBVIOUS
  <2> QED
    BY <2>1
<1> QED
  BY <1>1, <1>2, <1>3 DEF DetailRunFits

LEMMA UnknownBacked ==
  /\ Details!Unknown \in [Stocks -> Entries]
  /\ \A table : MapBacked(Details!Unknown, table)
BY DEF Details!Unknown, Entries, MapBacked

LEMMA DetailInit == ASSUME Details!Init PROVE DetailInv
<1>1. Details!Sections \in SUBSET Details!Sections /\ status \in [Stocks -> Entries]
  BY DEF Details!Init, Entries
<1>2. loaded = {s \in Stocks : status[s] # Nothing} /\ reached = [list \in SUBSET Stocks |-> 0]
      /\ run = [r \in Threads |-> Details!Idle] /\ checkpoint = Nothing /\ starts = 0
  BY DEF Details!Init
<1>3. reached \in [SUBSET Stocks -> Nat]
  BY <1>2
<1>4. MapBacked(status, loaded)
  BY <1>2 DEF MapBacked
<1>5. DetailTypes
  BY <1>1, <1>2, <1>3, DetailIdle DEF DetailTypes
<1> QED
  BY <1>2, <1>3, <1>4, <1>5, DetailIdle DEF DetailInv

LEMMA FitsStays ==
  ASSUME DetailTypes, NEW r \in DetailRuns, NEW marks \in [SUBSET Stocks -> Nat], NEW table \in SUBSET Stocks,
         DetailRunFits(r, reached, loaded), \A list \in SUBSET Stocks : reached[list] <= marks[list],
         loaded \subseteq table
  PROVE  DetailRunFits(r, marks, table)
<1>1. r.symbols \in SUBSET Stocks /\ r.next \in Nat
  BY DEF DetailRuns
<1>2. reached[r.symbols] \in Nat /\ marks[r.symbols] \in Nat /\ reached[r.symbols] <= marks[r.symbols]
  BY <1>1 DEF DetailTypes
<1>3. r.next \in 0..Cardinality(r.symbols) => Cardinality(OwnBatch(r)) \in Nat
  <2>1. r.symbols \in SUBSET Nat /\ IsFiniteSet(r.symbols)
    BY <1>1, StocksFinite
  <2> QED
    BY <2>1, SliceSays, StocksAssumption DEF OwnBatch
<1> QED
  BY <1>1, <1>2, <1>3 DEF DetailRunFits, MapBacked

\* A run goes on, stores no less, and the files claim no more than is stored.
LEMMA DetailRunStep ==
  ASSUME DetailInv, NEW r \in Threads, NEW new \in DetailRuns, run' = [run EXCEPT ![r] = new],
         starts' \in Nat, reached' \in [SUBSET Stocks -> Nat], loaded' \in SUBSET Stocks, loaded \subseteq loaded',
         \A list \in SUBSET Stocks : reached[list] <= reached'[list],
         DetailRunFits(new, reached', loaded'),
         status' \in [Stocks -> Entries], MapBacked(status', loaded'),
         \/ checkpoint' \in {checkpoint, Nothing, Torn}
         \/ checkpoint' \in DetailDocs /\ checkpoint'.next <= reached'[checkpoint'.symbols]
  PROVE  DetailInv'
<1>1. run' \in [Threads -> DetailRuns] /\ run'[r] = new /\ \A q \in Threads : q # r => run'[q] = run[q]
  BY DEF DetailInv, DetailTypes
<1>2. DetailTypes'
  BY <1>1 DEF DetailInv, DetailTypes
<1>3. ASSUME NEW q \in Threads PROVE DetailRunFits(run'[q], reached', loaded')
  <2>1. CASE q = r
    BY <1>1, <2>1
  <2>2. CASE q # r
    <3>1. DetailRunFits(run[q], reached, loaded) /\ run'[q] = run[q] /\ run[q] \in DetailRuns
      BY <1>1, <2>2 DEF DetailInv, DetailTypes
    <3>2. DetailRunFits(run[q], reached', loaded')
      BY <3>1, FitsStays DEF DetailInv
    <3> QED
      BY <3>1, <3>2
  <2> QED
    BY <2>1, <2>2
<1>4. checkpoint' \notin {Nothing, Torn} => checkpoint'.next <= reached'[checkpoint'.symbols]
  <2>1. ASSUME checkpoint' = checkpoint, checkpoint \notin {Nothing, Torn}
        PROVE  checkpoint.next <= reached'[checkpoint.symbols]
    <3>1. checkpoint.symbols \in SUBSET Stocks /\ checkpoint.next \in Nat
          /\ checkpoint.next <= reached[checkpoint.symbols]
      BY <2>1, StocksFinite DEF DetailInv, DetailTypes, DetailDocs
    <3>2. reached[checkpoint.symbols] \in Nat /\ reached'[checkpoint.symbols] \in Nat
          /\ reached[checkpoint.symbols] <= reached'[checkpoint.symbols]
      BY <3>1 DEF DetailInv, DetailTypes
    <3> QED
      BY <3>1, <3>2
  <2> QED
    BY <2>1
<1> QED
  BY <1>2, <1>3, <1>4 DEF DetailInv

\* Of a run's next batch and its list.
LEMMA DetailRun ==
  ASSUME DetailInv, NEW r \in Threads
  PROVE  /\ run[r] \in DetailRuns /\ run[r].symbols \in SUBSET Stocks /\ run[r].next \in Nat
         /\ OwnBatch(run[r]) \in SUBSET Stocks /\ Cardinality(OwnBatch(run[r])) \in Nat
         /\ run[r].next + Cardinality(OwnBatch(run[r])) \in 0..Cardinality(run[r].symbols)
         /\ run[r].next + Cardinality(OwnBatch(run[r])) \in 0..Cardinality(Stocks)
         /\ run[r].next + Cardinality(OwnBatch(run[r])) \in Nat
         /\ DetailRunFits(run[r], reached, loaded) /\ reached[run[r].symbols] \in Nat
<1>1. run[r] \in DetailRuns /\ run[r].symbols \in SUBSET Stocks /\ run[r].next \in Nat
      /\ reached[run[r].symbols] \in Nat
      /\ DetailRunFits(run[r], reached, loaded)
  BY DEF DetailInv, DetailTypes, DetailRuns
<1>2. run[r].symbols \in SUBSET Nat /\ IsFiniteSet(run[r].symbols)
      /\ run[r].next \in 0..Cardinality(run[r].symbols)
      /\ 0..Cardinality(run[r].symbols) \subseteq 0..Cardinality(Stocks)
  BY <1>1, StocksFinite DEF DetailRunFits
<1>3. /\ Cardinality(OwnBatch(run[r])) \in Nat
      /\ run[r].next + Cardinality(OwnBatch(run[r])) \in 0..Cardinality(run[r].symbols)
  BY <1>1, <1>2, SliceSays, StocksAssumption DEF OwnBatch
<1> QED
  BY <1>1, <1>2, <1>3 DEF OwnBatch, Slice

LEMMA DetailStart ==
  ASSUME DetailInv, NEW r \in Threads, NEW wanted \in SUBSET Stocks, NEW fresh, NEW resume \in BOOLEAN,
         NEW reset \in BOOLEAN, NEW force \in BOOLEAN, Details!Start(r, wanted, fresh, resume, reset, force)
  PROVE  DetailInv'
<1> DEFINE list == IF force THEN wanted ELSE {s \in wanted : ~Details!Skipped(s, fresh)}
           file == IF reset THEN Nothing ELSE checkpoint
<1>1. PICK next \in (IF resume THEN Details!StartIndices(r, list, file) ELSE {0}) :
        IF next < Cardinality(list)
        THEN /\ run' = [run EXCEPT ![r] = [Details!Idle EXCEPT !.at = "collect", !.symbols = list,
                                                               !.next = next, !.resume = resume]]
             /\ checkpoint' = file
        ELSE checkpoint' = Details!Cleared(list, file) /\ UNCHANGED run
  BY CardinalityOfDetails DEF Details!Start
<1>2. list \in SUBSET Stocks /\ file \in {checkpoint, Nothing} /\ starts' = starts + 1
      /\ UNCHANGED <<status, reached, loaded>>
  BY DEF Details!Start
<1>3. next = 0 \/ (file = checkpoint /\ checkpoint \notin {Nothing, Torn} /\ checkpoint.symbols = list /\ next = checkpoint.next)
  BY <1>2 DEF Details!StartIndices
<1> HIDE DEF list, file
<1>4. next \in Nat /\ next <= reached[list] /\ reached[list] \in Nat /\ Cardinality(list) \in Nat
  <2>1. reached[list] \in Nat /\ Cardinality(list) \in Nat
    BY <1>2, StocksFinite DEF DetailInv, DetailTypes
  <2>2. CASE next = 0
    BY <2>1, <2>2
  <2>3. CASE next # 0
    BY <1>3, <2>1, <2>3 DEF DetailInv, DetailTypes, DetailDocs
  <2> QED
    BY <2>2, <2>3
<1>5. /\ starts' \in Nat /\ reached' \in [SUBSET Stocks -> Nat] /\ loaded' \in SUBSET Stocks /\ loaded' = loaded
      /\ \A q \in SUBSET Stocks : reached[q] <= reached'[q]
      /\ status' \in [Stocks -> Entries] /\ MapBacked(status', loaded') /\ reached' = reached
  <2>1. \A q \in SUBSET Stocks : reached[q] \in Nat
    BY DEF DetailInv, DetailTypes
  <2> QED
    BY <1>2, <2>1 DEF DetailInv, DetailTypes
<1>6. CASE next < Cardinality(list)
  <2> DEFINE new == [Details!Idle EXCEPT !.at = "collect", !.symbols = list, !.next = next, !.resume = resume]
  <2>1. run' = [run EXCEPT ![r] = new] /\ checkpoint' \in {checkpoint, Nothing, Torn}
    BY <1>1, <1>2, <1>6
  <2>2. new \in DetailRuns /\ new.at = "collect" /\ new.symbols = list /\ new.next = next
    BY <1>2, <1>4, DetailIdle DEF DetailRuns, Details!Idle
  <2> HIDE DEF new
  <2>3. DetailRunFits(new, reached', loaded')
    BY <1>4, <1>5, <1>6, <2>2 DEF DetailRunFits
  <2> QED
    BY <1>5, <2>1, <2>2, <2>3, DetailRunStep
<1>7. CASE ~(next < Cardinality(list))
  <2>1. run' = run /\ checkpoint' \in {checkpoint, Nothing}
    BY <1>1, <1>2, <1>7 DEF Details!Cleared
  <2> QED
    BY <1>2, <1>5, <2>1 DEF DetailInv, DetailTypes
<1> QED
  BY <1>6, <1>7

LEMMA DetailStep == ASSUME DetailInv, [Details!Next]_(Details!vars) PROVE DetailInv'
<1>0. /\ starts \in Nat /\ reached \in [SUBSET Stocks -> Nat] /\ loaded \in SUBSET Stocks
      /\ \A q \in SUBSET Stocks : reached[q] \in Nat /\ reached[q] <= reached[q]
      /\ status \in [Stocks -> Entries] /\ MapBacked(status, loaded) /\ DetailTypes
  BY DEF DetailInv, DetailTypes
\* A run goes on, and leaves the history as it is.
<1>1. ASSUME NEW r \in Threads, NEW new \in DetailRuns, run' = [run EXCEPT ![r] = new],
             UNCHANGED <<starts, reached, loaded>>, DetailRunFits(new, reached, loaded),
             status' \in [Stocks -> Entries], MapBacked(status', loaded),
             \/ checkpoint' \in {checkpoint, Nothing, Torn}
             \/ checkpoint' \in DetailDocs /\ checkpoint'.next <= reached[checkpoint'.symbols]
      PROVE  DetailInv'
  BY <1>0, <1>1, DetailRunStep
<1>2. CASE UNCHANGED Details!vars
  BY <1>2 DEF Details!vars, DetailInv, DetailTypes
<1>3. ASSUME NEW r \in Threads, NEW got1 \in [Details!Batch(r) -> {NoPayload, Nothing, {}, {"intraday"}}],
             Details!Collect(r, got1)
      PROVE  DetailInv'
  <2> DEFINE new == [run[r] EXCEPT !.at = "flush", !.got = got1]
  <2>1. got1 \in [OwnBatch(run[r]) -> Given] /\ OwnBatch(run[r]) \in SUBSET Stocks
    BY <1>0, DetailBatch, DetailRun DEF Given
  <2>6. got1 \in Gots
    BY <2>1 DEF Gots
  <2>2. run' = [run EXCEPT ![r] = new] /\ UNCHANGED <<checkpoint, status, starts, reached, loaded>>
    BY <1>0, <1>3 DEF Details!Collect, DetailTypes
  <2>3. /\ new \in DetailRuns /\ new.at = "flush" /\ new.got = got1 /\ new.symbols = run[r].symbols
        /\ new.next = run[r].next
    BY <2>6, DetailRun DEF DetailRuns
  <2> HIDE DEF new
  <2>4. OwnBatch(new) = OwnBatch(run[r])
    BY <2>3 DEF OwnBatch
  <2>5. DetailRunFits(new, reached, loaded)
    BY <2>1, <2>3, <2>4, DetailRun DEF DetailRunFits
  <2> QED
    BY <1>0, <1>1, <2>2, <2>3, <2>5
<1>4. ASSUME NEW r \in Threads, Details!Flush(r) PROVE DetailInv'
  <2> DEFINE end == run[r].next + Cardinality(OwnBatch(run[r]))
             list == run[r].symbols
             mark == IF reached[list] < run[r].next \/ end < reached[list] THEN reached[list] ELSE end
             filled == {s \in OwnBatch(run[r]) : run[r].got[s] = {"intraday"}}
             new == [run[r] EXCEPT !.at = "merge"]
  <2>1. /\ run[r].at = "flush" /\ reached' = [reached EXCEPT ![list] = mark] /\ loaded' = loaded \cup filled
        /\ run' = [run EXCEPT ![r] = new] /\ UNCHANGED <<checkpoint, status, starts>>
    BY <1>0, <1>4, DetailBatch DEF Details!Flush, Details!Filled, Details!Goes, DetailTypes
  <2>2. /\ end \in Nat /\ run[r].next \in Nat /\ reached[list] \in Nat /\ run[r].next <= reached[list]
        /\ list \in SUBSET Stocks /\ OwnBatch(run[r]) \in SUBSET Stocks
    BY DetailRun DEF DetailRunFits
  <2> HIDE DEF end
  <2>3. mark \in Nat /\ reached[list] <= mark /\ end <= mark
    BY <2>2
  <2> HIDE DEF mark
  <2>4. reached' \in [SUBSET Stocks -> Nat] /\ \A q \in SUBSET Stocks : reached[q] <= reached'[q]
    BY <1>0, <2>1, <2>2, <2>3
  <2>5. reached'[list] = mark
    BY <1>0, <2>1, <2>2
  <2>6. /\ new \in DetailRuns /\ new.at = "merge" /\ new.got = run[r].got /\ new.symbols = list
        /\ new.next = run[r].next
    BY DetailRun DEF DetailRuns
  <2> HIDE DEF new
  <2>7. OwnBatch(new) = OwnBatch(run[r])
    BY <2>6 DEF OwnBatch
  <2>8. DetailRunFits(new, reached', loaded')
    <3>1. DetailRunFits(run[r], reached, loaded) /\ run[r].next <= mark
      BY <2>2, <2>3, DetailRun
    <3>2. new.next + Cardinality(OwnBatch(new)) <= mark
      BY <2>3, <2>6, <2>7 DEF end
    <3>3. \A s \in OwnBatch(new) : new.got[s] = {"intraday"} => s \in loaded'
      BY <2>1, <2>6, <2>7
    <3> QED
      BY <2>1, <2>5, <2>6, <2>7, <3>1, <3>2, <3>3 DEF DetailRunFits
  <2>9. loaded' \in SUBSET Stocks /\ loaded \subseteq loaded' /\ MapBacked(status', loaded')
    BY <1>0, <2>1, <2>2 DEF MapBacked
  <2> QED
    BY <1>0, <2>1, <2>4, <2>6, <2>8, <2>9, DetailRunStep
<1>5. ASSUME NEW r \in Threads, Details!ReadStatus(r) PROVE DetailInv'
  <2>1. PICK old1 \in {status} \cup (IF Details!Writing(r, "status") THEN {Details!Unknown} ELSE {}) :
          run' = [run EXCEPT ![r].at = "status", ![r].old = old1]
    BY <1>5 DEF Details!ReadStatus
  <2> DEFINE new == [run[r] EXCEPT !.at = "status", !.old = old1]
  <2>2. /\ run[r].at = "merge" /\ run' = [run EXCEPT ![r] = new]
        /\ UNCHANGED <<checkpoint, status, starts, reached, loaded>>
    BY <1>0, <1>5, <2>1 DEF Details!ReadStatus, DetailTypes
  <2>3. old1 \in [Stocks -> Entries] /\ MapBacked(old1, loaded)
    BY <1>0, UnknownBacked
  <2>4. /\ new \in DetailRuns /\ new.at = "status" /\ new.got = run[r].got /\ new.symbols = run[r].symbols
        /\ new.next = run[r].next /\ new.old = old1
    BY <2>3, DetailRun DEF DetailRuns
  <2> HIDE DEF new
  <2>5. OwnBatch(new) = OwnBatch(run[r])
    BY <2>4 DEF OwnBatch
  <2>6. DetailRunFits(new, reached, loaded)
    BY <2>2, <2>3, <2>4, <2>5, DetailRun DEF DetailRunFits
  <2> QED
    BY <1>0, <1>1, <2>2, <2>4, <2>6
<1>6. ASSUME NEW r \in Threads, Details!WriteStatus(r) PROVE DetailInv'
  <2> DEFINE at == IF run[r].resume THEN "save" ELSE "next"
             merged == [s \in Stocks |-> IF s \in OwnBatch(run[r]) /\ run[r].got[s] # NoPayload
                                         THEN run[r].got[s] ELSE run[r].old[s]]
             new == [run[r] EXCEPT !.at = at, !.got = <<>>, !.old = <<>>]
  <2>1. /\ run[r].at = "status" /\ run' = [run EXCEPT ![r] = new]
           /\ UNCHANGED <<checkpoint, starts, reached, loaded>>
    BY <1>0, <1>6 DEF Details!WriteStatus, DetailTypes
  <2>2. status' \in {merged, Details!Unknown}
    BY <1>0, <1>6, DetailBatch DEF Details!WriteStatus
  <2>3. merged \in [Stocks -> Entries] /\ MapBacked(merged, loaded)
    <3>1. /\ run[r].got \in [OwnBatch(run[r]) -> Given] /\ run[r].old \in [Stocks -> Entries]
          /\ MapBacked(run[r].old, loaded)
             /\ \A s \in OwnBatch(run[r]) : run[r].got[s] = {"intraday"} => s \in loaded
      BY <2>1, DetailRun DEF DetailRunFits
    <3>2. ASSUME NEW s \in Stocks
          PROVE  merged[s] \in Entries /\ (merged[s] # Nothing /\ "intraday" \in merged[s] => s \in loaded)
      <4>1. CASE s \in OwnBatch(run[r]) /\ run[r].got[s] # NoPayload
        BY <3>1, <4>1 DEF Given, Entries, Details!Sections
      <4>2. CASE ~(s \in OwnBatch(run[r]) /\ run[r].got[s] # NoPayload)
        BY <3>1, <4>2 DEF MapBacked
      <4> QED
        BY <4>1, <4>2
    <3> QED
      BY <3>2 DEF MapBacked
  <2>4. at \in {"save", "next"}
    OBVIOUS
  <2> HIDE DEF merged, at
  <2>5. new \in DetailRuns /\ new.at = at /\ new.symbols = run[r].symbols /\ new.next = run[r].next
    BY <2>4, DetailRun DEF DetailRuns, Gots
  <2> HIDE DEF new
  <2>6. OwnBatch(new) = OwnBatch(run[r])
    BY <2>5 DEF OwnBatch
  <2>7. DetailRunFits(new, reached, loaded)
    BY <2>1, <2>4, <2>5, <2>6, DetailRun DEF DetailRunFits
  <2> QED
    BY <1>1, <2>1, <2>2, <2>3, <2>5, <2>7, UnknownBacked
<1>7. ASSUME NEW r \in Threads, Details!Save(r) PROVE DetailInv'
  <2> DEFINE new == [run[r] EXCEPT !.at = "next"]
             end == run[r].next + Cardinality(OwnBatch(run[r]))
             file == [symbols |-> run[r].symbols, next |-> end]
  <2>1. /\ run[r].at = "save" /\ run' = [run EXCEPT ![r] = new] /\ UNCHANGED <<status, starts, reached, loaded>>
        /\ checkpoint' \in {file, Torn}
    BY <1>0, <1>7, DetailBatch DEF Details!Save, Details!Goes, Details!Doc, DetailTypes
  <2>2. new \in DetailRuns /\ new.at = "next" /\ new.symbols = run[r].symbols /\ new.next = run[r].next
    BY DetailRun DEF DetailRuns
  <2>3. end <= reached[run[r].symbols] /\ end \in 0..Cardinality(Stocks)
    BY <2>1, DetailRun DEF DetailRunFits
  <2> HIDE DEF new, end
  <2>4. file \in DetailDocs /\ file.next = end /\ file.symbols = run[r].symbols
    BY <2>3, DetailRun DEF DetailDocs
  <2> HIDE DEF file
  <2>5. OwnBatch(new) = OwnBatch(run[r])
    BY <2>2 DEF OwnBatch
  <2>6. DetailRunFits(new, reached, loaded)
    BY <2>1, <2>2, <2>5, DetailRun DEF DetailRunFits
  <2> QED
    BY <1>0, <1>1, <2>1, <2>2, <2>3, <2>4, <2>6
<1>8. ASSUME NEW r \in Threads, Details!NextBatch(r) PROVE DetailInv'
  <2> DEFINE end == run[r].next + Cardinality(OwnBatch(run[r]))
             new == [run[r] EXCEPT !.at = "collect", !.next = end]
  <2>1. /\ run[r].at = "next" /\ UNCHANGED <<status, starts, reached, loaded>>
        /\ \/ run' = [run EXCEPT ![r] = new] /\ UNCHANGED checkpoint
           \/ run' = [run EXCEPT ![r] = Details!Idle] /\ checkpoint' \in {checkpoint, Nothing}
    BY <1>0, <1>8, DetailBatch DEF Details!NextBatch, Details!Cleared, DetailTypes
  <2>2. end <= reached[run[r].symbols] /\ end \in 0..Cardinality(run[r].symbols) /\ end \in Nat
    BY <2>1, DetailRun DEF DetailRunFits
  <2> HIDE DEF end
  <2>3. new \in DetailRuns /\ new.at = "collect" /\ new.symbols = run[r].symbols /\ new.next = end
    BY <2>2, DetailRun DEF DetailRuns
  <2> HIDE DEF new
  <2>4. DetailRunFits(new, reached, loaded)
    BY <2>2, <2>3 DEF DetailRunFits
  <2> QED
    BY <1>0, <1>1, <2>1, <2>3, <2>4, DetailIdle
<1>9. ASSUME NEW r \in Threads, Details!Crash(r) PROVE DetailInv'
  <2>1. /\ run' = [run EXCEPT ![r] = Details!Idle] /\ checkpoint' \in {checkpoint, Torn}
        /\ status' \in {status, Details!Unknown} /\ UNCHANGED <<starts, reached, loaded>>
    BY <1>9 DEF Details!Crash
  <2> QED
    BY <1>0, <1>1, <2>1, DetailIdle, UnknownBacked
<1>10. ASSUME NEW s \in Stocks, Details!Age(s) PROVE DetailInv'
  \* An entry that has got old shows no rows.
  <2>1. ASSUME NEW map \in [Stocks -> Entries], MapBacked(map, loaded)
        PROVE  Details!Older(map, s) \in [Stocks -> Entries] /\ MapBacked(Details!Older(map, s), loaded \ {s})
    BY <2>1 DEF Details!Older, Entries, MapBacked
  <2>2. /\ loaded' = loaded \ {s} /\ status' = Details!Older(status, s)
           /\ UNCHANGED <<checkpoint, starts, reached>>
        /\ run' = [r \in Threads |-> IF run[r].at = "status"
                                     THEN [run[r] EXCEPT !.old = Details!Older(run[r].old, s)] ELSE run[r]]
    BY <1>10 DEF Details!Age
  <2>3. \A r \in Threads : run[r].at \in {"merge", "status"} => s \notin {q \in OwnBatch(run[r]) : run[r].got[q] = {"intraday"}}
    BY <1>0, <1>10, DetailBatch DEF Details!Age, Details!Filled
  <2>4. ASSUME NEW r \in Threads PROVE run'[r] \in DetailRuns /\ DetailRunFits(run'[r], reached, loaded \ {s})
    <3>1. CASE run[r].at = "status"
      <4> DEFINE older == Details!Older(run[r].old, s)
                 new == [run[r] EXCEPT !.old = older]
      <4>1. older \in [Stocks -> Entries] /\ MapBacked(older, loaded \ {s})
        BY <2>1, <3>1, DetailRun DEF DetailRunFits
      <4> HIDE DEF older
      <4>2. /\ new \in DetailRuns /\ new.at = run[r].at /\ new.got = run[r].got /\ new.symbols = run[r].symbols
            /\ new.next = run[r].next /\ new.old = older
        BY <4>1, DetailRun DEF DetailRuns
      <4>3. run'[r] = new
        BY <2>2, <3>1 DEF older
      <4> HIDE DEF new
      <4>4. OwnBatch(new) = OwnBatch(run[r])
        BY <4>2 DEF OwnBatch
      <4> QED
        BY <2>3, <3>1, <4>1, <4>2, <4>3, <4>4, DetailRun DEF DetailRunFits
    <3>2. CASE run[r].at # "status"
      <4>1. run'[r] = run[r]
        BY <2>2, <3>2
      <4>2. run[r] \in DetailRuns /\ DetailRunFits(run[r], reached, loaded \ {s})
        BY <2>3, <3>2, DetailRun DEF DetailRunFits
      <4> QED
        BY <4>1, <4>2
    <3> QED
      BY <3>1, <3>2
  <2>5. run' \in [Threads -> DetailRuns]
    <3>1. run' = [r \in Threads |-> run'[r]]
      BY <2>2
    <3> QED
      BY <2>4, <3>1
  <2>6. status' \in [Stocks -> Entries] /\ MapBacked(status', loaded')
    BY <1>0, <2>1, <2>2
  <2>7. DetailTypes'
    BY <1>0, <2>2, <2>5, <2>6 DEF DetailTypes
  <2> QED
    BY <2>2, <2>4, <2>6, <2>7 DEF DetailInv
<1> QED
  BY <1>2, <1>3, <1>4, <1>5, <1>6, <1>7, <1>8, <1>9, <1>10, DetailStart DEF Details!Next

LEMMA DetailsSay == ASSUME DetailInv PROVE Details!TypeOK /\ Details!ProgressBacked
<1>1. \A S : Details!Cardinality(S) = Cardinality(S)
  BY CardinalityOfDetails
<1>2. ASSUME NEW r \in Threads PROVE run[r].next <= Cardinality(run[r].symbols)
  <2>1. run[r].next \in 0..Cardinality(run[r].symbols) /\ Cardinality(run[r].symbols) \in Nat
    BY StocksFinite DEF DetailInv, DetailTypes, DetailRuns, DetailRunFits
  <2> QED
    BY <2>1
<1>3. Details!TypeOK
  BY <1>1, <1>2 DEF DetailInv, DetailTypes, DetailDocs, Entries, Details!TypeOK
<1>4. Details!ProgressBacked
  BY DEF DetailInv, MapBacked, Details!ProgressBacked
<1> QED
  BY <1>3, <1>4


-----------------------------------------------------------------------------
(* The database loader *)

LoaderRows == [Stocks -> SUBSET Loader!Batches]

LoaderCalls ==
  [at : {"idle", "look", "create", "ensured", "write"}, left : SUBSET Stocks, new : LoaderRows,
   gone : LoaderRows, held : SUBSET Stocks, was : LoaderRows]

LoaderTypes ==
  /\ kind \in Tables /\ rows \in LoaderRows /\ made \in BOOLEAN /\ ready \subseteq Threads
  /\ batches \in Nat /\ whole \in LoaderRows /\ call \in [Threads -> LoaderCalls]

\* A writer that relies on the table finds it.
TableMade ==
  /\ kind \notin Loader!Ensured \/ ready # {} => made
  /\ \A w \in Threads : call[w].at \in {"ensured", "write"} => made

\* What writer w is at: it inserts what no batch has left so far, and deletes
\* what the batches did leave; nothing else but the rows of its keys.
CallSound(w, c) ==
  /\ c \in LoaderCalls
  /\ c.left \cap c.held = {} /\ (c.at # "write" => c.held = {})
  /\ \A k \in Stocks :
       /\ c.new[k] # {} \/ c.gone[k] # {} => k \in c.left \cup c.held
       /\ \A b \in c.new[k] : b[1] = w /\ b[2] <= batches /\ b \notin whole[k]
       /\ ~Loader!Replaces(kind, k) => c.gone[k] \subseteq whole[k]

\* A row in place of another is its one holder's; of rows beside one another,
\* those that are there are what the batches left, less what a holder deleted,
\* and what the holders inserted.
RowsAre(k) ==
  IF Loader!Replaces(kind, k)
  THEN /\ (\A w \in Threads : k \notin call[w].held) => rows[k] = whole[k]
       /\ \A w \in Threads : k \in call[w].held =>
            /\ call[w].was[k] = whole[k] /\ rows[k] = call[w].new[k]
            /\ \A v \in Threads \ {w} : k \notin call[v].held
  ELSE \A b \in Loader!Batches :
         b \in rows[k] <=>
           \/ b \in whole[k] /\ \A w \in Threads : k \in call[w].held => b \notin call[w].gone[k]
           \/ \E w \in Threads : k \in call[w].held /\ b \in call[w].new[k]

LoaderInv ==
  /\ LoaderTypes /\ TableMade
  /\ \A k \in Stocks : \A b \in whole[k] : b[2] < batches
  /\ \A w \in Threads : CallSound(w, call[w])
  /\ \A w, v \in Threads : w # v => \A k \in Stocks : call[w].gone[k] = {} \/ call[v].gone[k] = {}
  /\ \A k \in Stocks : RowsAre(k)

\* What is committed is what the committed batches left.
LEMMA CommittedIsWhole == ASSUME LoaderInv PROVE Loader!BatchesWhole
<1> SUFFICES ASSUME NEW k \in Stocks PROVE Loader!Committed(k) = whole[k]
  BY DEF Loader!BatchesWhole
<1> DEFINE holders == {w \in Threads : k \in call[w].held}
<1>1. CASE Loader!Replaces(kind, k)
  <2>1. CASE holders = {}
    BY <1>1, <2>1 DEF Loader!Committed, LoaderInv, RowsAre
  <2>2. CASE holders # {}
    <3> DEFINE h == CHOOSE w \in holders : TRUE
    <3>1. h \in holders
      BY <2>2
    <3>2. call[h].was[k] = whole[k]
      BY <1>1, <3>1 DEF LoaderInv, RowsAre
    <3> QED
      BY <1>1, <2>2, <3>2 DEF Loader!Committed
  <2> QED
    BY <2>1, <2>2
<1>2. CASE ~Loader!Replaces(kind, k)
  <2> DEFINE inserted == UNION {call[w].new[k] : w \in holders}
             deleted == UNION {call[w].gone[k] : w \in holders}
  <2>1. Loader!Committed(k) = (rows[k] \ inserted) \cup deleted
    BY <1>2 DEF Loader!Committed
  <2>2. \A b : b \in inserted <=> \E w \in Threads : k \in call[w].held /\ b \in call[w].new[k]
    OBVIOUS
  <2>3. \A b : b \in deleted <=> \E w \in Threads : k \in call[w].held /\ b \in call[w].gone[k]
    OBVIOUS
  <2> HIDE DEF inserted, deleted
  <2>4. rows[k] \subseteq Loader!Batches /\ whole[k] \subseteq Loader!Batches
    BY DEF LoaderInv, LoaderTypes, LoaderRows
  <2>5. \A w \in Threads : call[w].gone[k] \subseteq whole[k] /\ call[w].new[k] \cap whole[k] = {}
    BY <1>2 DEF LoaderInv, CallSound
  <2>6. RowsAre(k)
    BY DEF LoaderInv
  <2> QED
    BY <1>2, <2>1, <2>2, <2>3, <2>4, <2>5, <2>6 DEF RowsAre
<1> QED
  BY <1>1, <1>2

LEMMA IdleSound == ASSUME NEW w \in Threads PROVE CallSound(w, Loader!Idle)
BY DEF CallSound, Loader!Idle, Loader!NoRows, LoaderCalls, LoaderRows

LEMMA LoaderInit == ASSUME Loader!Init PROVE LoaderInv
<1>1. LoaderTypes
  BY DEF Loader!Init, LoaderTypes, Loader!Idle, Loader!NoRows, LoaderCalls, LoaderRows
<1>2. TableMade
  BY DEF Loader!Init, TableMade, Loader!Idle
<1>3. ASSUME NEW k \in Stocks PROVE RowsAre(k)
  BY DEF Loader!Init, RowsAre, Loader!Idle, Loader!NoRows
<1>4. \A w \in Threads : call[w] = Loader!Idle
  BY DEF Loader!Init
<1>5. \A k \in Stocks : whole[k] = {}
  BY DEF Loader!Init, Loader!NoRows
<1>6. \A w \in Threads : \A k \in Stocks : call[w].gone[k] = {}
  BY <1>4 DEF Loader!Idle, Loader!NoRows
<1> QED
  BY <1>1, <1>2, <1>3, <1>4, <1>5, <1>6, IdleSound DEF LoaderInv

\* A writer that holds no row, before and after, turns to something else.
LEMMA LoaderTurns ==
  ASSUME LoaderInv, NEW w \in Threads, NEW c,
         CallSound(w, c), call[w].held = {}, c.held = {},
         \A v \in Threads \ {w} : \A k \in Stocks : c.gone[k] = {} \/ call[v].gone[k] = {},
         call' = [call EXCEPT ![w] = c], UNCHANGED <<kind, rows, batches, whole>>,
         made' \in BOOLEAN, ready' \subseteq Threads, made => made',
         ready' # {} => made', c.at \in {"ensured", "write"} => made'
  PROVE  LoaderInv'
<1>1. /\ call'[w] = c /\ \A v \in Threads \ {w} : call'[v] = call[v]
      /\ call' \in [Threads -> LoaderCalls]
  BY DEF LoaderInv, LoaderTypes, CallSound
<1>2. LoaderTypes'
  BY <1>1 DEF LoaderInv, LoaderTypes
<1>3. TableMade'
  BY <1>1 DEF LoaderInv, TableMade
<1>4. ASSUME NEW v \in Threads PROVE CallSound(v, call[v])'
  BY <1>1 DEF LoaderInv, CallSound
<1>5. ASSUME NEW k \in Stocks PROVE RowsAre(k)'
  <2>1. RowsAre(k) /\ k \notin call[w].held /\ k \notin call'[w].held
        /\ Loader!Replaces(kind, k)' = Loader!Replaces(kind, k)
    BY <1>1 DEF LoaderInv, Loader!Replaces
  <2>2. \A v \in Threads : v = w \/ call'[v] = call[v]
    BY <1>1
  <2>3. UNCHANGED <<rows, whole>> /\ Loader!Batches' = Loader!Batches
    BY DEF Loader!Batches
  <2> QED
    BY <2>1, <2>2, <2>3 DEF RowsAre
<1>6. \A u, v \in Threads : u # v => \A k \in Stocks : call'[u].gone[k] = {} \/ call'[v].gone[k] = {}
  BY <1>1 DEF LoaderInv
<1> QED
  BY <1>2, <1>3, <1>4, <1>5, <1>6 DEF LoaderInv

\* A row that a statement writes.
LEMMA LoaderWrites ==
  ASSUME LoaderInv, NEW w \in Threads, NEW k \in Stocks, Loader!WriteRow(w, k)
  PROVE  LoaderInv'
<1> DEFINE c == [call[w] EXCEPT !.left = @ \ {k}, !.held = @ \cup {k}, !.was[k] = rows[k]]
<1>1. /\ call[w].at = "write" /\ k \in call[w].left /\ (Loader!Replaces(kind, k) => ~Loader!Locked(w, k))
      /\ rows' = [rows EXCEPT ![k] = Loader!Stored(call[w], k, rows[k])] /\ call' = [call EXCEPT ![w] = c]
      /\ UNCHANGED <<kind, made, ready, batches, whole>>
  BY DEF Loader!WriteRow, LoaderInv, LoaderTypes
<1>2. CallSound(w, call[w]) /\ LoaderTypes /\ RowsAre(k)
  BY DEF LoaderInv
<1>3. call[w] \in LoaderCalls
  BY <1>2 DEF CallSound
<1>4. /\ c \in LoaderCalls /\ c.at = "write" /\ c.left = call[w].left \ {k} /\ c.held = call[w].held \cup {k}
      /\ c.new = call[w].new /\ c.gone = call[w].gone /\ c.was = [call[w].was EXCEPT ![k] = rows[k]]
  BY <1>1, <1>2, <1>3 DEF LoaderTypes, LoaderCalls, LoaderRows
<1> HIDE DEF c
<1>5. /\ call'[w] = c /\ \A v \in Threads \ {w} : call'[v] = call[v]
      /\ call' \in [Threads -> LoaderCalls]
  BY <1>1, <1>2, <1>4 DEF LoaderTypes
<1>6. /\ c.new[k] \subseteq Loader!Batches /\ c.gone[k] \subseteq Loader!Batches
      /\ rows[k] \subseteq Loader!Batches /\ whole[k] \subseteq Loader!Batches
  BY <1>2, <1>4 DEF LoaderTypes, LoaderCalls, LoaderRows
<1>7. rows' \in LoaderRows
  BY <1>1, <1>2, <1>4, <1>6 DEF LoaderTypes, LoaderRows, Loader!Stored
<1>8. \A j \in Stocks : Loader!Replaces(kind, j)' = Loader!Replaces(kind, j)
  BY <1>1 DEF Loader!Replaces
<1>9. ASSUME NEW v \in Threads PROVE CallSound(v, call[v])'
  <2>1. CallSound(v, call[v]) /\ UNCHANGED <<kind, whole, batches>>
    BY <1>1 DEF LoaderInv
  <2>2. CASE v = w
    BY <1>1, <1>2, <1>4, <1>5, <1>8, <2>1, <2>2 DEF CallSound
  <2>3. CASE v # w
    BY <1>5, <1>8, <2>1, <2>3 DEF CallSound
  <2> QED
    BY <2>2, <2>3
<1>10. ASSUME NEW j \in Stocks PROVE RowsAre(j)'
  <2>1. UNCHANGED <<kind, whole>> /\ Loader!Batches' = Loader!Batches
        /\ Loader!Replaces(kind, j)' = Loader!Replaces(kind, j)
    BY <1>1 DEF Loader!Batches, Loader!Replaces
  <2>2. RowsAre(j)
    BY DEF LoaderInv
  <2>3. CASE j # k
    <3>1. \A v \in Threads :
            /\ j \in call'[v].held <=> j \in call[v].held
            /\ call'[v].was[j] = call[v].was[j]
            /\ call'[v].new = call[v].new /\ call'[v].gone = call[v].gone
      <4>1. c.was[j] = call[w].was[j]
        BY <1>3, <1>4, <2>3 DEF LoaderCalls, LoaderRows
      <4> QED
        BY <1>4, <1>5, <2>3, <4>1
    <3>2. rows'[j] = rows[j]
      BY <1>1, <1>2, <2>3 DEF LoaderTypes, LoaderRows
    <3>3. CASE Loader!Replaces(kind, j)
      BY <2>1, <2>2, <3>1, <3>2, <3>3 DEF RowsAre
    <3>4. CASE ~Loader!Replaces(kind, j)
      BY <2>1, <2>2, <3>1, <3>2, <3>4 DEF RowsAre
    <3> QED
      BY <3>3, <3>4
  <2>4. CASE j = k /\ Loader!Replaces(kind, k)
    <3>1. \A v \in Threads \ {w} : k \notin call'[v].held
      BY <1>1, <1>5, <2>4 DEF Loader!Locked
    <3>2. k \notin call[w].held
      BY <1>1, <1>2 DEF CallSound
    <3>3. rows[k] = whole[k]
      BY <1>5, <2>2, <2>4, <3>1, <3>2 DEF RowsAre
    <3>4. rows'[k] = c.new[k] /\ c.was[k] = rows[k]
      BY <1>1, <1>2, <1>3, <1>4, <2>4 DEF LoaderTypes, LoaderCalls, LoaderRows, Loader!Stored
    <3> QED
      BY <1>4, <1>5, <2>1, <2>4, <3>1, <3>3, <3>4 DEF RowsAre
  <2>5. CASE j = k /\ ~Loader!Replaces(kind, k)
    <3>1. rows'[k] = (rows[k] \ c.gone[k]) \cup c.new[k]
      BY <1>1, <1>2, <1>4, <2>5 DEF LoaderTypes, LoaderRows, Loader!Stored
    <3>2. k \notin call[w].held /\ c.gone[k] \subseteq whole[k]
      BY <1>1, <1>2, <1>4, <2>5 DEF CallSound
    <3>3. \A v \in Threads : call[v].new[k] \cap whole[k] = {}
      BY DEF LoaderInv, CallSound
    <3>4. \A v \in Threads \ {w} : c.gone[k] = {} \/ call[v].gone[k] = {}
      BY <1>4 DEF LoaderInv
    <3>5. \A b \in Loader!Batches : b \in c.new[k] => \A v \in Threads : b \notin call[v].gone[k]
      BY <1>4, <2>5, <3>3 DEF LoaderInv, CallSound
    <3>6. \A b \in Loader!Batches :
            b \in rows[k] <=>
              \/ b \in whole[k] /\ \A v \in Threads : k \in call[v].held => b \notin call[v].gone[k]
              \/ \E v \in Threads : k \in call[v].held /\ b \in call[v].new[k]
      BY <2>2, <2>5 DEF RowsAre
    <3>7. \A b \in Loader!Batches :
            b \in rows'[k] <=>
              \/ b \in whole[k] /\ \A v \in Threads : k \in call'[v].held => b \notin call'[v].gone[k]
              \/ \E v \in Threads : k \in call'[v].held /\ b \in call'[v].new[k]
      BY <1>4, <1>5, <3>1, <3>2, <3>3, <3>4, <3>5, <3>6
    <3> QED
      BY <2>1, <2>5, <3>7 DEF RowsAre
  <2> QED
    BY <2>3, <2>4, <2>5
<1>11. LoaderTypes' /\ TableMade'
  BY <1>1, <1>2, <1>4, <1>5, <1>7 DEF LoaderInv, LoaderTypes, TableMade
<1>12. \A u, v \in Threads : u # v => \A j \in Stocks : call'[u].gone[j] = {} \/ call'[v].gone[j] = {}
  BY <1>4, <1>5 DEF LoaderInv
<1> QED
  BY <1>1, <1>9, <1>10, <1>11, <1>12 DEF LoaderInv
\* A writer that lets go of its keys: it keeps what it wrote, and history moves
\* on, or leaves what was there.
LEMMA LoaderCommits == ASSUME LoaderInv, NEW w \in Threads, Loader!Commit(w) PROVE LoaderInv'
<1>1. /\ call[w].at = "write" /\ call[w].left = {} /\ batches' = batches + 1
      /\ whole' = [k \in Stocks |-> IF k \in call[w].held THEN Loader!Stored(call[w], k, whole[k]) ELSE whole[k]]
      /\ call' = [call EXCEPT ![w] = Loader!Idle] /\ UNCHANGED <<kind, rows, made, ready>>
  BY DEF Loader!Commit, Loader!Applied, Loader!Ends
<1>2. CallSound(w, call[w]) /\ LoaderTypes
  BY DEF LoaderInv
<1>3. /\ Loader!Idle \in LoaderCalls /\ Loader!Idle.at = "idle" /\ Loader!Idle.held = {} /\ Loader!Idle.left = {}
      /\ \A k \in Stocks : Loader!Idle.new[k] = {} /\ Loader!Idle.gone[k] = {}
  BY IdleSound DEF CallSound, Loader!Idle, Loader!NoRows
<1>4. call'[w] = Loader!Idle /\ (\A v \in Threads \ {w} : call'[v] = call[v]) /\ call' \in [Threads -> LoaderCalls]
  BY <1>1, <1>2, <1>3 DEF LoaderTypes
<1>5. \A k \in Stocks : Loader!Replaces(kind, k)' = Loader!Replaces(kind, k)
  BY <1>1 DEF Loader!Replaces
<1>6. ASSUME NEW k \in Stocks
      PROVE  /\ call[w].new[k] \subseteq Loader!Batches /\ call[w].gone[k] \subseteq Loader!Batches
             /\ rows[k] \subseteq Loader!Batches /\ whole[k] \subseteq Loader!Batches
  BY <1>2 DEF LoaderTypes, CallSound, LoaderCalls, LoaderRows
<1>7. ASSUME NEW k \in Stocks
      PROVE  whole'[k] = IF k \notin call[w].held THEN whole[k]
                         ELSE IF Loader!Replaces(kind, k) THEN call[w].new[k]
                         ELSE (whole[k] \ call[w].gone[k]) \cup call[w].new[k]
  BY <1>1 DEF Loader!Stored
<1>8. LoaderTypes' /\ TableMade'
  <2>1. whole' \in LoaderRows
    BY <1>1, <1>6, <1>7 DEF LoaderRows
  <2>2. TableMade'
    BY <1>1, <1>3, <1>4 DEF LoaderInv, TableMade
  <2> QED
    BY <1>1, <1>2, <1>4, <2>1, <2>2 DEF LoaderTypes
<1>9. ASSUME NEW k \in Stocks PROVE \A b \in whole'[k] : b[2] < batches'
  <2>1. \A b \in whole[k] : b[2] < batches
    BY DEF LoaderInv
  <2>2. \A b \in call[w].new[k] : b[2] <= batches
    BY <1>2 DEF CallSound
  <2>3. \A b \in Loader!Batches : b[2] \in Nat
    BY DEF Loader!Batches
  <2>4. \A b \in whole'[k] : b \in whole[k] \/ b \in call[w].new[k]
    BY <1>7
  <2>5. batches \in Nat
    BY <1>2 DEF LoaderTypes
  <2> QED
    BY <1>1, <1>6, <2>1, <2>2, <2>3, <2>4, <2>5
<1>10. ASSUME NEW v \in Threads PROVE CallSound(v, call[v])'
  <2>1. CASE v = w
    BY <1>3, <1>4, <2>1 DEF CallSound
  <2>2. CASE v # w
    <3>1. CallSound(v, call[v]) /\ call'[v] = call[v]
      BY <1>4, <2>2 DEF LoaderInv
    <3>2. ASSUME NEW k \in Stocks, NEW b \in call[v].new[k]
          PROVE  b[1] = v /\ b[2] <= batches' /\ b \notin whole'[k]
      <4>1. b[1] = v /\ b[2] <= batches /\ b \notin whole[k]
        BY <3>1 DEF CallSound
      <4>2. b \in Loader!Batches
        BY <3>1 DEF CallSound, LoaderCalls, LoaderRows
      <4>3. b[2] \in Nat /\ batches \in Nat
        BY <1>2, <4>2 DEF LoaderTypes, Loader!Batches
      <4>4. b \notin call[w].new[k]
        BY <1>2, <2>2, <4>1 DEF CallSound
      <4>5. b \notin whole'[k]
        BY <1>7, <4>1, <4>4
      <4>6. b[2] <= batches'
        BY <1>1, <4>1, <4>3
      <4> QED
        BY <4>1, <4>5, <4>6
    <3>3. ASSUME NEW k \in Stocks, ~Loader!Replaces(kind, k) PROVE call[v].gone[k] \subseteq whole'[k]
      <4>1. call[v].gone[k] \subseteq whole[k]
        BY <3>1, <3>3 DEF CallSound
      <4>2. call[w].gone[k] = {} \/ call[v].gone[k] = {}
        BY <2>2 DEF LoaderInv
      <4> QED
        BY <1>7, <3>3, <4>1, <4>2
    <3> QED
      BY <1>5, <3>1, <3>2, <3>3 DEF CallSound
  <2> QED
    BY <2>1, <2>2
<1>11. ASSUME NEW k \in Stocks PROVE RowsAre(k)'
  <2>1. UNCHANGED rows /\ Loader!Batches' = Loader!Batches
    BY <1>1 DEF Loader!Batches
  <2>2. RowsAre(k)
    BY DEF LoaderInv
  <2>3. k \notin call'[w].held
    BY <1>3, <1>4
  <2>4. CASE Loader!Replaces(kind, k)
    <3>1. CASE k \in call[w].held
      <4>1. rows[k] = call[w].new[k] /\ \A v \in Threads \ {w} : k \notin call[v].held
        BY <2>2, <2>4, <3>1 DEF RowsAre
      <4>2. rows'[k] = whole'[k] /\ \A v \in Threads : k \notin call'[v].held
        BY <1>4, <1>7, <2>1, <2>3, <2>4, <3>1, <4>1
      <4> QED
        BY <1>5, <2>4, <4>2 DEF RowsAre
    <3>2. CASE k \notin call[w].held
      BY <1>4, <1>5, <1>7, <2>1, <2>2, <2>3, <2>4, <3>2 DEF RowsAre
    <3> QED
      BY <3>1, <3>2
  <2>5. CASE ~Loader!Replaces(kind, k)
    <3>1. \A b \in Loader!Batches :
            b \in rows[k] <=>
              \/ b \in whole[k] /\ \A v \in Threads : k \in call[v].held => b \notin call[v].gone[k]
              \/ \E v \in Threads : k \in call[v].held /\ b \in call[v].new[k]
      BY <2>2, <2>5 DEF RowsAre
    <3>2. \A v \in Threads : /\ call[v].new[k] \cap whole[k] = {} /\ call[v].gone[k] \subseteq whole[k]
                             /\ call[v].new[k] # {} \/ call[v].gone[k] # {} => k \in call[v].left \cup call[v].held
      BY <2>5 DEF LoaderInv, CallSound
    <3>3. whole'[k] = (whole[k] \ call[w].gone[k]) \cup call[w].new[k]
      BY <1>1, <1>7, <2>5, <3>2
    <3>4. k \notin call[w].held => call[w].new[k] = {} /\ call[w].gone[k] = {}
      BY <1>1, <3>2
    <3>5. \A b \in Loader!Batches :
            b \in rows'[k] <=>
              \/ b \in whole'[k] /\ \A v \in Threads : k \in call'[v].held => b \notin call'[v].gone[k]
              \/ \E v \in Threads : k \in call'[v].held /\ b \in call'[v].new[k]
      BY <1>4, <2>1, <2>3, <3>1, <3>2, <3>3, <3>4
    <3> QED
      BY <1>5, <2>1, <2>5, <3>5 DEF RowsAre
  <2> QED
    BY <2>4, <2>5
<1>12. \A u, v \in Threads : u # v => \A k \in Stocks : call'[u].gone[k] = {} \/ call'[v].gone[k] = {}
  BY <1>3, <1>4 DEF LoaderInv
<1> QED
  BY <1>8, <1>9, <1>10, <1>11, <1>12 DEF LoaderInv

\* A batch that is rolled back leaves no trace.
LEMMA LoaderFails == ASSUME LoaderInv, NEW w \in Threads, Loader!Fail(w) PROVE LoaderInv'
<1>1. /\ rows' = [k \in Stocks |-> Loader!Undone(call[w], k, rows[k])]
      /\ call' = [call EXCEPT ![w] = Loader!Idle] /\ ready' \in {ready, ready \ {w}}
      /\ UNCHANGED <<kind, made, batches, whole>>
  BY DEF Loader!Fail, Loader!Ends
<1>2. CallSound(w, call[w]) /\ LoaderTypes
  BY DEF LoaderInv
<1>3. /\ Loader!Idle \in LoaderCalls /\ Loader!Idle.at = "idle" /\ Loader!Idle.held = {} /\ Loader!Idle.left = {}
      /\ \A k \in Stocks : Loader!Idle.new[k] = {} /\ Loader!Idle.gone[k] = {}
  BY IdleSound DEF CallSound, Loader!Idle, Loader!NoRows
<1>4. call'[w] = Loader!Idle /\ (\A v \in Threads \ {w} : call'[v] = call[v]) /\ call' \in [Threads -> LoaderCalls]
  BY <1>1, <1>2, <1>3 DEF LoaderTypes
<1>5. \A k \in Stocks : Loader!Replaces(kind, k)' = Loader!Replaces(kind, k)
  BY <1>1 DEF Loader!Replaces
<1>6. ASSUME NEW k \in Stocks
      PROVE  /\ call[w].new[k] \subseteq Loader!Batches /\ call[w].gone[k] \subseteq Loader!Batches
             /\ call[w].was[k] \subseteq Loader!Batches
             /\ rows[k] \subseteq Loader!Batches /\ whole[k] \subseteq Loader!Batches
  BY <1>2 DEF LoaderTypes, CallSound, LoaderCalls, LoaderRows
<1>7. ASSUME NEW k \in Stocks
      PROVE  rows'[k] = IF k \notin call[w].held THEN rows[k]
                        ELSE IF Loader!Replaces(kind, k) THEN call[w].was[k]
                        ELSE (rows[k] \ call[w].new[k]) \cup call[w].gone[k]
  BY <1>1 DEF Loader!Undone
<1>8. LoaderTypes' /\ TableMade'
  <2>1. rows' \in LoaderRows
    BY <1>1, <1>6, <1>7 DEF LoaderRows
  <2>2. TableMade' /\ ready' \subseteq Threads
    BY <1>1, <1>2, <1>3, <1>4 DEF LoaderInv, LoaderTypes, TableMade
  <2> QED
    BY <1>1, <1>2, <1>4, <2>1, <2>2 DEF LoaderTypes
<1>9. ASSUME NEW v \in Threads PROVE CallSound(v, call[v])'
  <2>1. CASE v = w
    BY <1>3, <1>4, <2>1 DEF CallSound
  <2>2. CASE v # w
    BY <1>1, <1>4, <1>5, <2>2 DEF LoaderInv, CallSound
  <2> QED
    BY <2>1, <2>2
<1>10. ASSUME NEW k \in Stocks PROVE RowsAre(k)'
  <2>1. UNCHANGED whole /\ Loader!Batches' = Loader!Batches
    BY <1>1 DEF Loader!Batches
  <2>2. RowsAre(k)
    BY DEF LoaderInv
  <2>3. k \notin call'[w].held
    BY <1>3, <1>4
  <2>4. CASE Loader!Replaces(kind, k)
    <3>1. CASE k \in call[w].held
      <4>1. call[w].was[k] = whole[k] /\ \A v \in Threads \ {w} : k \notin call[v].held
        BY <2>2, <2>4, <3>1 DEF RowsAre
      <4>2. rows'[k] = whole'[k] /\ \A v \in Threads : k \notin call'[v].held
        BY <1>4, <1>7, <2>1, <2>3, <2>4, <3>1, <4>1
      <4> QED
        BY <1>5, <2>4, <4>2 DEF RowsAre
    <3>2. CASE k \notin call[w].held
      BY <1>4, <1>5, <1>7, <2>1, <2>2, <2>3, <2>4, <3>2 DEF RowsAre
    <3> QED
      BY <3>1, <3>2
  <2>5. CASE ~Loader!Replaces(kind, k)
    <3>1. \A b \in Loader!Batches :
            b \in rows[k] <=>
              \/ b \in whole[k] /\ \A v \in Threads : k \in call[v].held => b \notin call[v].gone[k]
              \/ \E v \in Threads : k \in call[v].held /\ b \in call[v].new[k]
      BY <2>2, <2>5 DEF RowsAre
    <3>2. \A v \in Threads : call[v].new[k] \cap whole[k] = {} /\ call[v].gone[k] \subseteq whole[k]
      BY <2>5 DEF LoaderInv, CallSound
    <3>3. \A v \in Threads \ {w} : /\ call[w].gone[k] = {} \/ call[v].gone[k] = {}
                                   /\ call[w].new[k] \cap call[v].new[k] = {}
      BY DEF LoaderInv, CallSound
    <3>4. rows'[k] = IF k \in call[w].held THEN (rows[k] \ call[w].new[k]) \cup call[w].gone[k] ELSE rows[k]
      BY <1>7, <2>5
    <3>5. \A b \in Loader!Batches :
            b \in rows'[k] <=>
              \/ b \in whole[k] /\ \A v \in Threads : k \in call'[v].held => b \notin call'[v].gone[k]
              \/ \E v \in Threads : k \in call'[v].held /\ b \in call'[v].new[k]
      BY <1>4, <2>3, <3>1, <3>2, <3>3, <3>4
    <3> QED
      BY <1>5, <2>1, <2>5, <3>5 DEF RowsAre
  <2> QED
    BY <2>4, <2>5
<1>11. \A u, v \in Threads : u # v => \A k \in Stocks : call'[u].gone[k] = {} \/ call'[v].gone[k] = {}
  BY <1>3, <1>4 DEF LoaderInv
<1> QED
  BY <1>1, <1>8, <1>9, <1>10, <1>11 DEF LoaderInv

LEMMA LoaderStep == ASSUME LoaderInv, [Loader!Next]_(Loader!vars) PROVE LoaderInv'
<1>1. CASE UNCHANGED Loader!vars
  <2>1. UNCHANGED <<kind, rows, made, ready, call, batches, whole>>
    BY <1>1 DEF Loader!vars
  <2>2. \A k \in Stocks : RowsAre(k)'
    BY <2>1 DEF LoaderInv, RowsAre, Loader!Batches, Loader!Replaces
  <2>3. \A w \in Threads : CallSound(w, call[w])'
    BY <2>1 DEF LoaderInv, CallSound, Loader!Replaces
  <2> QED
    BY <2>1, <2>2, <2>3 DEF LoaderInv, LoaderTypes, TableMade
<1>2. ASSUME NEW w \in Threads, NEW given \in SUBSET (Stocks \cup {Nothing}), Loader!Upsert(w, given)
      PROVE  LoaderInv'
  <2> DEFINE payload == given \ {Nothing}
             at == IF kind \in Loader!Ensured /\ w \notin ready THEN "look" ELSE "write"
             news == [k \in Stocks |-> IF k \in payload THEN {<<w, batches>>} ELSE {}]
             c == [Loader!Idle EXCEPT !.at = at, !.left = payload, !.new = news]
  <2>1. /\ call[w].at = "idle" /\ batches < MaxBatches /\ call' = [call EXCEPT ![w] = c]
        /\ UNCHANGED <<kind, rows, made, ready, batches, whole>>
    BY <1>2 DEF Loader!Upsert, Loader!ExecuteMany
  <2>2. batches \in Nat /\ MaxBatches \in Nat
    BY BoundsAssumption DEF LoaderInv, LoaderTypes
  <2>3. <<w, batches>> \in Loader!Batches
    BY <2>1, <2>2 DEF Loader!Batches
  <2>4. /\ news \in LoaderRows /\ payload \subseteq Stocks
        /\ \A k \in Stocks : news[k] = IF k \in payload THEN {<<w, batches>>} ELSE {}
    BY <2>3 DEF LoaderRows
  <2>5. at \in {"look", "write"} /\ (at = "write" => made)
    BY DEF LoaderInv, TableMade
  <2> HIDE DEF payload, at, news
  <2>6. /\ c \in LoaderCalls /\ c.at = at /\ c.left = payload /\ c.new = news /\ c.held = {}
        /\ \A k \in Stocks : c.gone[k] = {}
    BY <2>4, <2>5, IdleSound DEF CallSound, LoaderCalls, Loader!Idle, Loader!NoRows
  <2> HIDE DEF c
  <2>7. \A k \in Stocks : <<w, batches>> \notin whole[k]
    BY <2>2 DEF LoaderInv
  <2>8. CallSound(w, c)
    BY <2>2, <2>4, <2>6, <2>7 DEF CallSound
  <2>9. call[w].held = {} /\ made \in BOOLEAN /\ ready \subseteq Threads /\ (ready # {} => made)
    BY <2>1 DEF LoaderInv, LoaderTypes, TableMade, CallSound
  <2> QED
    BY <2>1, <2>5, <2>6, <2>8, <2>9, LoaderTurns
<1>3. ASSUME NEW w \in Threads, Loader!LookForTable(w) \/ Loader!CreateTable(w) \/ Loader!Ensure(w)
      PROVE  LoaderInv'
  <2>1. ASSUME NEW at \in {"create", "ensured", "write"} PROVE
          LET c == [call[w] EXCEPT !.at = at] IN
            /\ c.at = at /\ c.held = call[w].held /\ c.gone = call[w].gone
            /\ call[w].held = {} => CallSound(w, c)
    BY DEF LoaderInv, CallSound, LoaderCalls
  <2>2. call[w].at # "write" /\ call[w].held = {}
    BY <1>3 DEF Loader!LookForTable, Loader!CreateTable, Loader!Ensure, LoaderInv, CallSound
  <2>3. CallSound(w, Loader!Idle) /\ Loader!Idle.held = {} /\ Loader!Idle.at = "idle"
        /\ \A k \in Stocks : Loader!Idle.gone[k] = {}
    BY IdleSound DEF Loader!Idle, Loader!NoRows
  <2>4. call \in [Threads -> LoaderCalls] /\ made \in BOOLEAN /\ ready \subseteq Threads /\ (ready # {} => made)
        /\ (call[w].at = "ensured" => made)
        /\ \A v \in Threads \ {w} : \A k \in Stocks : call[w].gone[k] = {} \/ call[v].gone[k] = {}
    BY DEF LoaderInv, LoaderTypes, TableMade
  <2>5. UNCHANGED <<kind, rows, batches, whole>>
    BY <1>3 DEF Loader!LookForTable, Loader!CreateTable, Loader!Ensure
  <2>6. CASE Loader!LookForTable(w)
    <3> DEFINE at == IF made THEN "ensured" ELSE "create"
               c == [call[w] EXCEPT !.at = at]
    <3>1. at \in {"create", "ensured"} /\ (at = "ensured" => made) /\ call' = [call EXCEPT ![w] = c]
          /\ UNCHANGED <<made, ready>>
      BY <2>6 DEF Loader!LookForTable
    <3> HIDE DEF at
    <3>2. c.at = at /\ c.held = {} /\ c.gone = call[w].gone /\ CallSound(w, c)
      BY <2>1, <2>2, <3>1
    <3> HIDE DEF c
    <3> QED
      BY <2>2, <2>4, <2>5, <3>1, <3>2, LoaderTurns
  <2>7. CASE Loader!CreateTable(w)
    <3> DEFINE c == IF made THEN Loader!Idle ELSE [call[w] EXCEPT !.at = "ensured"]
    <3>1. made' = TRUE /\ call' = [call EXCEPT ![w] = c] /\ UNCHANGED ready
      BY <2>7 DEF Loader!CreateTable, Loader!Ends
    <3>2. c.held = {} /\ CallSound(w, c)
          /\ \A v \in Threads \ {w} : \A k \in Stocks : c.gone[k] = {} \/ call[v].gone[k] = {}
      BY <2>1, <2>2, <2>3, <2>4
    <3> HIDE DEF c
    <3> QED
      BY <2>2, <2>4, <2>5, <3>1, <3>2, LoaderTurns
  <2>8. CASE Loader!Ensure(w)
    <3> DEFINE c == [call[w] EXCEPT !.at = "write"]
    <3>1. call[w].at = "ensured" /\ call' = [call EXCEPT ![w] = c] /\ ready' = ready \cup {w} /\ UNCHANGED made
      BY <2>8 DEF Loader!Ensure
    <3>2. c.at = "write" /\ c.held = {} /\ c.gone = call[w].gone /\ CallSound(w, c)
      BY <2>1, <2>2
    <3> HIDE DEF c
    <3> QED
      BY <2>2, <2>4, <2>5, <3>1, <3>2, LoaderTurns
  <2> QED
    BY <1>3, <2>6, <2>7, <2>8
<1>4. ASSUME NEW w \in Threads, NEW k \in Stocks, Loader!WriteRow(w, k) PROVE LoaderInv'
  BY <1>4, LoaderWrites
<1>5. ASSUME NEW w \in Threads, Loader!Commit(w) PROVE LoaderInv'
  BY <1>5, LoaderCommits
<1>6. ASSUME NEW w \in Threads, NEW cutoff \in Stocks, Loader!Delete(w, cutoff) PROVE LoaderInv'
  <2> DEFINE found == {k \in Stocks : k < cutoff /\ Loader!Committed(k) # {}}
             gone == [k \in Stocks |-> IF k \in found THEN Loader!Committed(k) ELSE {}]
             c == [Loader!Idle EXCEPT !.at = "write", !.left = found, !.gone = gone]
  <2>1. /\ call[w].at = "idle" /\ kind \in Loader!Retained /\ \A v \in Threads : call[v].gone = Loader!NoRows
        /\ call' = [call EXCEPT ![w] = c] /\ UNCHANGED <<kind, rows, made, ready, batches, whole>>
    BY <1>6 DEF Loader!Delete
  <2>2. found \subseteq Stocks
    OBVIOUS
  <2>3. \A k \in Stocks : Loader!Committed(k) = whole[k]
    BY CommittedIsWhole DEF Loader!BatchesWhole
  <2>4. gone = [k \in Stocks |-> IF k \in found THEN whole[k] ELSE {}]
    BY <2>3
  <2> HIDE DEF found, gone
  <2>5. gone \in LoaderRows /\ \A k \in Stocks : gone[k] \subseteq whole[k] /\ (gone[k] # {} => k \in found)
    BY <2>4 DEF LoaderInv, LoaderTypes, LoaderRows
  <2>6. /\ c \in LoaderCalls /\ c.at = "write" /\ c.left = found /\ c.gone = gone /\ c.held = {}
        /\ \A k \in Stocks : c.new[k] = {}
    BY <2>2, <2>5, IdleSound DEF CallSound, LoaderCalls, Loader!Idle, Loader!NoRows
  <2> HIDE DEF c
  <2>7. CallSound(w, c)
    BY <2>5, <2>6 DEF CallSound
  <2>8. kind \notin Loader!Ensured
    BY <2>1 DEF Loader!Retained, Loader!Ensured, Loader!OfSectors, Loader!OfDetails, Loader!OfFutures
  <2>9. call[w].held = {} /\ made = TRUE /\ ready \subseteq Threads
    BY <2>1, <2>8 DEF LoaderInv, LoaderTypes, TableMade, CallSound
  <2>10. \A v \in Threads : \A k \in Stocks : call[v].gone[k] = {}
    BY <2>1 DEF Loader!NoRows
  <2> QED
    BY <2>1, <2>6, <2>7, <2>9, <2>10, LoaderTurns
<1>7. ASSUME NEW w \in Threads, Loader!Fail(w) PROVE LoaderInv'
  BY <1>7, LoaderFails
<1> QED
  BY <1>1, <1>2, <1>3, <1>4, <1>5, <1>6, <1>7 DEF Loader!Next

LEMMA LoaderSays == ASSUME LoaderInv PROVE Loader!TypeOK /\ Loader!BatchesWhole
<1>1. \A w \in Threads : call[w] \in LoaderCalls
  BY DEF LoaderInv, LoaderTypes
<1>2. \A w \in Threads : call[w].left \subseteq Stocks /\ call[w].held \subseteq Stocks
  BY <1>1 DEF LoaderCalls
<1> QED
  BY <1>2, CommittedIsWhole DEF LoaderInv, LoaderTypes, LoaderRows, TableMade, Loader!TypeOK

-----------------------------------------------------------------------------
(* The requests of the Snowball client *)

LEMMA CardinalityOfRequests == \A S : Requests!Cardinality(S) = Cardinality(S)
BY DEF Requests!Cardinality, Cardinality

LEMMA LatestOf ==
  ASSUME NEW S \in SUBSET Nat, IsFiniteSet(S), S # {}
  PROVE  /\ Requests!Max(S) \in S /\ \A s \in S : s <= Requests!Max(S)
         /\ Requests!Min(S) \in S /\ \A s \in S : Requests!Min(S) <= s
<1>1. Cardinality(S) \in Nat /\ Cardinality(S) # 0
  BY FS_EmptySet, FS_CardinalityType
<1>2. \A s, t \in S : Before(S, s) <= Before(S, t) => s <= t
  <2> SUFFICES ASSUME NEW s \in S, NEW t \in S, Before(S, s) <= Before(S, t), t < s PROVE FALSE
    OBVIOUS
  <2>1. Before(S, t) < Before(S, s) /\ Before(S, t) \in Nat /\ Before(S, s) \in Nat
    BY <1>1, BeforeGrows
  <2> QED
    BY <2>1
<1>3. \E m \in S : \A s \in S : s <= m
  <2>1. Cardinality(S) - 1 \in 0..(Cardinality(S) - 1)
    BY <1>1
  <2>2. PICK m \in S : Before(S, m) = Cardinality(S) - 1
    BY <2>1, PlacesTaken
  <2>3. \A s \in S : Before(S, s) <= Before(S, m)
    BY <1>1, <2>2, BeforeGrows
  <2> QED
    BY <1>2, <2>3
<1>4. \E m \in S : \A s \in S : m <= s
  <2>1. 0 \in 0..(Cardinality(S) - 1)
    BY <1>1
  <2>2. PICK m \in S : Before(S, m) = 0
    BY <2>1, PlacesTaken
  <2>3. \A s \in S : Before(S, m) <= Before(S, s)
    BY <1>1, <2>2, BeforeGrows
  <2> QED
    BY <1>2, <2>3
<1>5. \E m \in S : \A s \in S : m >= s
  BY <1>3
<1>6. \A m \in S : (\A s \in S : m >= s) => \A s \in S : s <= m
  OBVIOUS
<1>7. Requests!Max(S) \in S /\ \A s \in S : Requests!Max(S) >= s
  BY <1>5 DEF Requests!Max
<1>8. Requests!Min(S) \in S /\ \A s \in S : Requests!Min(S) <= s
  BY <1>4 DEF Requests!Min
<1> QED
  BY <1>6, <1>7, <1>8

\* The first of a list, in their order.
LEMMA FirstsSay ==
  ASSUME NEW S \in SUBSET Nat, IsFiniteSet(S), NEW limit \in Nat \ {0}
  PROVE  /\ Requests!Firsts(S, limit) \in SUBSET S /\ IsFiniteSet(Requests!Firsts(S, limit))
         /\ Cardinality(S) \in Nat
         /\ Cardinality(Requests!Firsts(S, limit)) = IF limit <= Cardinality(S) THEN limit ELSE Cardinality(S)
         /\ S # {} => Requests!Firsts(S, limit) # {}
<1> DEFINE F == Requests!Firsts(S, limit)
<1>1. Cardinality(S) \in Nat /\ \A s \in S : Before(S, s) \in 0..(Cardinality(S) - 1)
  BY BeforeGrows
<1>2. F = {s \in S : Before(S, s) < limit}
  BY CardinalityOfRequests DEF Requests!Firsts, Before
<1>a. \A s \in S : Before(S, s) < limit <=> Before(S, s) \in 0..(0 + limit - 1)
  BY <1>1
<1>3. F = Slice(S, 0, limit)
  BY <1>2, <1>a DEF Slice
<1>4. 0 \in 0..Cardinality(S)
  BY <1>1
<1>5. /\ IsFiniteSet(F) /\ Cardinality(F) \in Nat /\ Cardinality(F) \in 0..Cardinality(S)
      /\ F = {} <=> 0 = Cardinality(S)
      /\ \A s \in S : Before(S, s) < Cardinality(F) => s \in F
  BY <1>1, <1>3, <1>4, SliceSays
<1>6. S # {} => Cardinality(S) # 0
  BY FS_EmptySet
<1> HIDE DEF F
<1>7. Cardinality(F) <= limit
  <2> DEFINE f == [s \in F |-> Before(S, s)]
  <2>a. \A s \in F : s \in S /\ Before(S, s) \in 0..(limit - 1)
    BY <1>1, <1>2
  <2>b. \A s, t \in F : Before(S, s) = Before(S, t) => s = t
    BY <2>a, PlacesTaken
  <2>1. f \in Injection(F, 0..(limit - 1))
    BY <2>a, <2>b DEF Injection, IsInjective
  <2>2. IsFiniteSet(0..(limit - 1)) /\ Cardinality(0..(limit - 1)) = limit
    <3>1. 0 \in Int /\ limit - 1 \in Int
      OBVIOUS
    <3> QED
      BY <3>1, FS_Interval
  <2> QED
    BY <2>1, <2>2, FS_Injection
<1>8. Cardinality(F) < limit => Cardinality(F) = Cardinality(S)
  <2> SUFFICES ASSUME Cardinality(F) < limit, Cardinality(F) # Cardinality(S) PROVE FALSE
    OBVIOUS
  <2>1. Cardinality(F) \in 0..(Cardinality(S) - 1)
    BY <1>1, <1>5
  <2> DEFINE G == {s \in S : Before(S, s) < Cardinality(F)}
  <2>2. PICK s \in S : Before(S, s) = Cardinality(F)
    BY <2>1, PlacesTaken
  <2>3. s \in F
    BY <1>2, <2>2
  <2>4. Cardinality(F \ {s}) = Cardinality(F) - 1 /\ IsFiniteSet(F \ {s})
    BY <1>5, <2>3, FS_RemoveElement
  <2> DEFINE f == [i \in 0..(Cardinality(F) - 1) |-> CHOOSE t \in S : Before(S, t) = i]
  <2>5. \A i \in 0..(Cardinality(F) - 1) : f[i] \in F \ {s} /\ Before(S, f[i]) = i
    <3> SUFFICES ASSUME NEW i \in 0..(Cardinality(F) - 1) PROVE f[i] \in F \ {s} /\ Before(S, f[i]) = i
      OBVIOUS
    <3>1. \E t \in S : Before(S, t) = i
      BY <1>1, <1>5, PlacesTaken
    <3>2. f[i] \in S /\ Before(S, f[i]) = i
      BY <3>1
    <3> HIDE DEF f
    <3> QED
      BY <1>2, <1>5, <2>2, <3>2
  <2>6. f \in Injection(0..(Cardinality(F) - 1), F \ {s})
    BY <2>5 DEF Injection, IsInjective
  <2>7. IsFiniteSet(0..(Cardinality(F) - 1)) /\ Cardinality(0..(Cardinality(F) - 1)) = Cardinality(F)
    <3> DEFINE m == Cardinality(F)
    <3>1. m \in Nat
      BY <1>5
    <3> HIDE DEF m
    <3>2. 0 \in Int /\ m - 1 \in Int
      BY <3>1
    <3>3. IsFiniteSet(0..(m - 1)) /\ Cardinality(0..(m - 1)) = m
      BY <3>1, <3>2, FS_Interval
    <3> QED
      BY <3>3 DEF m
  <2>8. Cardinality(0..(Cardinality(F) - 1)) <= Cardinality(F \ {s})
    BY <2>4, <2>6, FS_Injection
  <2> QED
    BY <1>5, <2>4, <2>7, <2>8
<1>9. F \in SUBSET S
  BY <1>2
<1> QED
  BY <1>1, <1>5, <1>6, <1>7, <1>8, <1>9 DEF F

LEMMA AskedSays ==
  ASSUME Requests!Asked
  PROVE  /\ asked.kind \in {"daily", "monthly"} => asked.asOf \in 1..LastDay
         /\ asked.kind = "history" =>
              /\ asked.asOf \in 1..LastDay /\ asked.payloads \in [{1, 2} -> Requests!Payloads]
              /\ asked.count \in {1, 2} /\ asked.hk \in BOOLEAN /\ asked.intraday \in BOOLEAN
                 /\ asked.blocked \in BOOLEAN
         /\ asked.kind = "indices" => asked.asOf \in 1..LastDay
         /\ asked.kind \in {"search", "pool"} =>
              asked.found \in (SUBSET Stocks) \cup {Nothing} /\ asked.limit \in {1, 2}
         /\ asked.kind = "financials" =>
              /\ asked.period \in {1, 2}
              /\ asked.payloads \in [{1, 2} -> [1..2 -> (SUBSET {2, 3, 4}) \cup {Nothing}]]
         /\ asked.kind = "recent" =>
              /\ asked.year \in {2, 3} /\ asked.month \in 1..12 /\ asked.day \in {1, 28, 30, 31}
              /\ asked.count \in 1..5
         /\ asked.kind = "reports" =>
              /\ asked.ak \in (SUBSET Stocks) \cup {Nothing} /\ asked.limit \in {1, 2}
              /\ asked.payloads \in [{1, 2} -> (SUBSET Stocks) \cup {Nothing}]
<1>1. \/ asked.kind \in {"daily", "monthly"} /\ asked.asOf \in 1..LastDay
      \/ /\ asked.kind = "history"
         /\ asked.asOf \in 1..LastDay /\ asked.payloads \in [{1, 2} -> Requests!Payloads]
         /\ asked.count \in {1, 2} /\ asked.hk \in BOOLEAN /\ asked.intraday \in BOOLEAN
            /\ asked.blocked \in BOOLEAN
      \/ asked.kind = "indices" /\ asked.asOf \in 1..LastDay
      \/ asked.kind \in {"basics", "quotes", "quote", "detail"}
      \/ /\ asked.kind \in {"search", "pool"}
         /\ asked.found \in Requests!Sets \cup {Nothing} /\ asked.limit \in {1, 2}
      \/ /\ asked.kind = "financials"
         /\ asked.period \in {1, 2}
         /\ asked.payloads \in [{1, 2} -> [1..2 -> Requests!Dated]]
      \/ /\ asked.kind = "recent"
         /\ asked.year \in {2, 3} /\ asked.month \in 1..12 /\ asked.day \in {1, 28, 30, 31}
         /\ asked.count \in 1..5
      \/ /\ asked.kind = "reports"
         /\ asked.ak \in Requests!Sets \cup {Nothing} /\ asked.limit \in {1, 2}
         /\ asked.payloads \in [{1, 2} -> Requests!Sets \cup {Nothing}]
  BY DEF Requests!Asked, Requests!Codes
<1> QED
  BY <1>1 DEF Requests!Sets, Requests!Dated

\* A step answers the request, and the answer stays.
LEMMA RequestSteps ==
  ASSUME [Requests!Next]_(Requests!vars)
  PROVE  /\ asked' = asked
         /\ answer' # answer =>
              \/ asked.kind = "daily" /\ answer'.value = Requests!DailyPrices(asked.payloads, asked.asOf)
              \/ asked.kind = "monthly" /\ answer'.value = Requests!DailyPrices(asked.payloads, asked.asOf)
              \/ asked.kind = "history" /\ answer'.value = Requests!History(asked)
              \/ asked.kind = "indices" /\ answer'.value = Requests!IndexDaily(asked.bars, asked.quote, asked.asOf)
              \/ asked.kind \in {"basics", "quote", "detail"}
              \/ asked.kind = "quotes" /\ answer'.value = Requests!Quotes(asked.symbols, asked)
              \/ asked.kind = "search" /\ answer'.value = Requests!Search(asked)
              \/ asked.kind = "pool" /\ answer'.value = Requests!Pool(asked)
              \/ asked.kind = "financials" /\ answer'.value = Requests!Financials(asked)
              \/ /\ asked.kind = "recent"
                 /\ answer'.value = Requests!RecentPeriods(asked.year, asked.month, asked.day, asked.count)
              \/ asked.kind = "reports" /\ answer'.value = Requests!Reports(asked)
BY DEF Requests!Next, Requests!vars, Requests!Asks, Requests!Returns, Requests!MonthlyPrices

LEMMA DaysSay ==
  /\ (1..LastDay) \in SUBSET Nat /\ IsFiniteSet(1..LastDay) /\ LastDay \in 1..LastDay
  /\ \A S \in SUBSET (1..LastDay) : S \in SUBSET Nat /\ IsFiniteSet(S)
<1>1. LastDay \in Nat \ {0}
  BY BoundsAssumption
<1>2. 1 \in Int /\ LastDay \in Int
  BY <1>1
<1>3. IsFiniteSet(1..LastDay)
  BY <1>2, FS_Interval
<1>4. \A S \in SUBSET (1..LastDay) : IsFiniteSet(S)
  BY <1>3, FS_Subset
<1>5. (1..LastDay) \in SUBSET Nat /\ LastDay \in 1..LastDay
  BY <1>1
<1> QED
  BY <1>3, <1>4, <1>5

LEMMA LatestSays ==
  ASSUME NEW bars, NEW asOf \in 1..LastDay
  PROVE  Requests!Latest(bars, asOf) \in 0..asOf
<1> DEFINE there == {d \in 1..LastDay : d <= asOf /\ bars[d] # "none"}
<1>1. Requests!Latest(bars, asOf) = IF there = {} THEN 0 ELSE Requests!Max(there)
  BY DEF Requests!Latest
<1>2. there \in SUBSET Nat /\ IsFiniteSet(there)
  BY DaysSay
<1>3. there # {} => Requests!Max(there) \in there
  <2> HIDE DEF there
  <2> QED
    BY <1>2, LatestOf
<1> QED
  BY <1>1, <1>3

LEMMA PricesSay ==
  ASSUME NEW payloadsOf, NEW asOf \in 1..LastDay
  PROVE  \A row \in Requests!DailyPrices(payloadsOf, asOf) : row.day <= asOf
<1>1. ASSUME NEW payloads PROVE Requests!DailyRow(payloads, asOf) \in 0..asOf
  <2>1. 0 \in 0..asOf
    OBVIOUS
  <2>2. \A bars : Requests!Latest(bars, asOf) \in 0..asOf
    BY LatestSays
  <2> QED
    BY <2>1, <2>2 DEF Requests!DailyRow
<1>2. \A row \in Requests!DailyPrices(payloadsOf, asOf) : row.day \in 0..asOf
  BY <1>1 DEF Requests!DailyPrices
<1> QED
  BY <1>2

LEMMA IndexSays ==
  ASSUME NEW bars, NEW quote, NEW asOf \in 1..LastDay
  PROVE  \A row \in Requests!IndexDaily(bars, quote, asOf) :
           row.day <= asOf /\ (row.of = row.day \/ (row.quoted /\ asOf < Requests!Today))
<1>1. Requests!Latest(bars, asOf) \in 0..asOf
  BY LatestSays
<1>2. Requests!Today \in 1..LastDay /\ asOf <= Requests!Today
  BY DaysSay, LatestOf DEF Requests!Today
<1>3. asOf < Requests!Today \/ asOf = Requests!Today
  BY <1>2
<1> QED
  BY <1>1, <1>2, <1>3 DEF Requests!IndexDaily

\* The first of the codes that fit is one that does.
LEMMA FirstFitting ==
  ASSUME NEW fit \in SUBSET {1, 2}, fit # {}
  PROVE  Requests!Min(fit) \in fit /\ Requests!Min(fit) # 0
<1>1. IsFiniteSet({1, 2}) /\ {1, 2} \in SUBSET Nat
  <2>1. 1 \in Int /\ 2 \in Int
    OBVIOUS
  <2>3. IsFiniteSet(1..2)
    BY <2>1, FS_Interval
  <2>2. {1, 2} = 1..2
    OBVIOUS
  <2> QED
    BY <2>2, <2>3
<1>2. IsFiniteSet(fit) /\ fit \in SUBSET Nat
  BY <1>1, FS_Subset
<1> QED
  BY <1>2, LatestOf

LEMMA NewestSays ==
  ASSUME NEW bars \in SUBSET (1..LastDay), NEW count \in {1, 2}
  PROVE  /\ Requests!Newest(bars, count) \in SUBSET bars
         /\ bars # {} => Requests!Newest(bars, count) # {}
<1>1. ASSUME bars # {} PROVE Requests!Newest(bars, count) # {}
  <2>1. bars \in SUBSET Nat /\ Requests!Max(bars) \in bars /\ \A d \in bars : d <= Requests!Max(bars)
    BY <1>1, DaysSay, LatestOf
  <2> DEFINE last == Requests!Max(bars)
  <2>2. last \in bars /\ last \in Nat /\ \A d \in bars : d \in Nat /\ d <= last
    <3>1. \A d \in bars : d \in Nat
      BY <2>1
    <3> QED
      BY <2>1, <3>1
  <2> HIDE DEF last
  <2>3. {d \in bars : d > last} = {}
    <3>1. ASSUME NEW d \in bars PROVE ~(d > last)
      <4>1. d \in Nat /\ last \in Nat /\ d <= last
        BY <2>2
      <4> QED
        BY <4>1
    <3> QED
      BY <3>1
  <2>4. Requests!Cardinality({d \in bars : d > last}) = 0
    BY <2>3, CardinalityOfRequests, FS_EmptySet
  <2>5. last \in Requests!Newest(bars, count)
    BY <2>2, <2>4 DEF Requests!Newest
  <2> QED
    BY <2>5
<1>2. Requests!Newest(bars, count) \in SUBSET bars
  BY DEF Requests!Newest
<1> QED
  BY <1>1, <1>2

\* A source in reach with rows is not passed over.
LEMMA PriceHistorySays ==
  ASSUME NEW q, q.asOf \in 1..LastDay, q.payloads \in [{1, 2} -> Requests!Payloads], q.count \in {1, 2}
  PROVE  /\ Requests!History(q) \in SUBSET (1..q.asOf)
         /\ Requests!History(q) = {} =>
              /\ \A i \in {1, 2} : q.payloads[i] = Nothing \/ Requests!Parsed(q.payloads[i], q.asOf) = {}
              /\ q.hk => q.ak = Nothing \/ Requests!Parsed(q.ak, q.asOf) = {}
<1> DEFINE snow == Requests!SnowballHistory(q.payloads, q.asOf)
           ak == Requests!AkHistory(q)
           fit == {i \in {1, 2} : q.payloads[i] # Nothing /\ Requests!Parsed(q.payloads[i], q.asOf) # {}}
<1>1. \A bars : Requests!Parsed(bars, q.asOf) \in SUBSET (1..LastDay)
                /\ Requests!Parsed(bars, q.asOf) \in SUBSET (1..q.asOf)
  BY BoundsAssumption DEF Requests!Parsed
<1>2. snow = IF fit = {} THEN {} ELSE Requests!Parsed(q.payloads[Requests!Min(fit)], q.asOf)
  <2>1. DOMAIN q.payloads = {1, 2}
    OBVIOUS
  <2>2. fit # {} => Requests!Min(fit) # 0
    BY FirstFitting
  <2> QED
    BY <2>1, <2>2 DEF Requests!SnowballHistory, Requests!FirstFit
<1>3. fit # {} => Requests!Min(fit) \in fit
  BY FirstFitting
<1>4. snow \in SUBSET (1..q.asOf) /\ (snow = {} <=> fit = {})
  BY <1>1, <1>2, <1>3
<1>5. ak \in SUBSET (1..q.asOf)
  <2>1. \A bars : Requests!Newest(Requests!Parsed(bars, q.asOf), q.count) \in SUBSET (1..q.asOf)
    BY <1>1, NewestSays
  <2> QED
    BY <2>1 DEF Requests!AkHistory, Requests!CurlHistory
<1>6. ak = {} => q.ak = Nothing \/ Requests!Parsed(q.ak, q.asOf) = {}
  <2>1. Requests!Parsed(q.ak, q.asOf) # {} => Requests!Newest(Requests!Parsed(q.ak, q.asOf), q.count) # {}
    BY <1>1, NewestSays
  <2> QED
    BY <2>1 DEF Requests!AkHistory
<1> HIDE DEF snow, ak
<1>7. /\ Requests!History(q) \in {snow, ak}
      /\ Requests!History(q) = {} => snow = {} /\ (q.hk => ak = {})
  BY DEF Requests!History, snow, ak
<1> QED
  BY <1>4, <1>5, <1>6, <1>7

LEMMA QuotesSay ==
  ASSUME NEW q, q.batch # Nothing
  PROVE  q.symbols \cap (q.batch \cup q.single) \subseteq Requests!Quotes(q.symbols, q)
BY DEF Requests!Quotes, Requests!Quotec, Requests!Single

LEMMA ReportsSay ==
  ASSUME NEW q, q.ak \in (SUBSET Stocks) \cup {Nothing}, q.limit \in {1, 2},
         q.payloads \in [{1, 2} -> (SUBSET Stocks) \cup {Nothing}], Requests!Reports(q) = {}
  PROVE  q.ak \in {Nothing, {}} /\ \A i \in {1, 2} : q.payloads[i] \in {Nothing, {}}
<1> DEFINE ak == IF q.ak = Nothing THEN {} ELSE Requests!Firsts(q.ak, q.limit)
           fit == {i \in {1, 2} : q.payloads[i] # Nothing /\ q.payloads[i] # {}}
<1>1. \A S \in SUBSET Stocks : S \in SUBSET Nat /\ IsFiniteSet(S)
  BY StocksAssumption, FS_Subset
<1>2. \A S \in SUBSET Stocks : S # {} => Requests!Firsts(S, q.limit) # {}
  <2>1. q.limit \in Nat \ {0}
    OBVIOUS
  <2> QED
    BY <1>1, <2>1, FirstsSay
<1>3. fit # {} => Requests!Min(fit) \in fit /\ Requests!Min(fit) # 0
  BY FirstFitting
<1>4. DOMAIN q.payloads = {1, 2}
  OBVIOUS
<1>5. ak = {} /\ (fit # {} => Requests!Firsts(q.payloads[Requests!Min(fit)], q.limit) = {})
  BY <1>3, <1>4 DEF Requests!Reports, Requests!FirstFit, Requests!Disclosures
<1>6. fit # {} => q.payloads[Requests!Min(fit)] \in SUBSET Stocks /\ q.payloads[Requests!Min(fit)] # {}
  BY <1>3
<1>7. fit = {}
  BY <1>2, <1>5, <1>6
<1>8. q.ak \in {Nothing, {}}
  BY <1>2, <1>5
<1> QED
  BY <1>7, <1>8

\* A row for each symbol.
LEMMA BasicsCount ==
  ASSUME NEW S \in SUBSET Nat, IsFiniteSet(S), NEW q
  PROVE  Cardinality(Requests!Basics(S, q)) = Cardinality(S)
<1> DEFINE row(s) == [symbol |-> s, named |-> s \in Requests!Quotec(S, q.batch, q.single)]
           T == {row(s) : s \in S}
           f == [s \in S |-> row(s)]
<1>1. \A s, t \in S : row(s) = row(t) => s = t
  <2>1. \A s : row(s).symbol = s
    OBVIOUS
  <2> HIDE DEF row
  <2> QED
    BY <2>1
<1> HIDE DEF row
<1>2. f \in Bijection(S, T)
  BY <1>1 DEF Bijection, Injection, Surjection, IsInjective
<1>3. Cardinality(T) = Cardinality(S)
  BY <1>2, FS_Bijection DEF ExistsBijection
<1> QED
  BY <1>3 DEF Requests!Basics, T, row

\* What the page of a list shows is as long as it may be.
LEMMA SearchSays ==
  ASSUME NEW q, q.found \in SUBSET Stocks, q.found # Nothing, q.limit \in {1, 2}, q.market = Nothing
  PROVE  /\ Cardinality(Requests!Search(q)) = Requests!Min({q.limit, Cardinality(q.found)})
         /\ Requests!Pool(q) = Requests!Search(q)
<1> DEFINE F == Requests!Firsts(q.found, q.limit)
<1>1. q.found \in SUBSET Nat /\ IsFiniteSet(q.found) /\ q.limit \in Nat \ {0}
  <2>1. q.limit \in Nat \ {0}
    OBVIOUS
  <2>2. Stocks \in SUBSET Nat /\ IsFiniteSet(Stocks)
    BY StocksAssumption
  <2> QED
    BY <2>1, <2>2, FS_Subset
<1>2. {s \in q.found : q.market \in {Nothing, Requests!Market(s)}} = q.found
  OBVIOUS
<1>3. Requests!Search(q) = Requests!Basics(F, q)
  BY <1>2 DEF Requests!Search
<1>4. /\ F \in SUBSET Nat /\ IsFiniteSet(F) /\ Cardinality(q.found) \in Nat
      /\ Cardinality(F) = IF q.limit <= Cardinality(q.found) THEN q.limit ELSE Cardinality(q.found)
  BY <1>1, FirstsSay
<1> HIDE DEF F
<1>5. Cardinality(F) = Requests!Min({q.limit, Cardinality(q.found)})
  <2> DEFINE least == {q.limit, Cardinality(q.found)}
  <2>1. least \in SUBSET Nat /\ least # {}
    BY <1>1, <1>4
  <2>2. IsFiniteSet(least)
    <3>1. IsFiniteSet({} \cup {q.limit})
      BY FS_EmptySet, FS_AddElement
    <3>2. IsFiniteSet(({} \cup {q.limit}) \cup {Cardinality(q.found)})
      BY <3>1, FS_AddElement
    <3>3. least = ({} \cup {q.limit}) \cup {Cardinality(q.found)}
      OBVIOUS
    <3> QED
      BY <3>2, <3>3
  <2>3. Requests!Min(least) \in least /\ \A s \in least : Requests!Min(least) <= s
    <3> HIDE DEF least
    <3> QED
      BY <2>1, <2>2, LatestOf
  <2> QED
    BY <1>1, <1>4, <2>3
<1>6. Requests!Firsts(F, q.limit) = F
  <2>1. ASSUME NEW s \in F PROVE Before(F, s) < q.limit
    <3>1. Before(F, s) \in 0..(Cardinality(F) - 1) /\ Cardinality(F) \in Nat
      BY <1>4, BeforeGrows
    <3> QED
      BY <1>1, <1>4, <3>1
  <2> QED
    BY <2>1, CardinalityOfRequests DEF Requests!Firsts, Before
<1>7. {r.symbol : r \in Requests!Search(q)} = F
  <2> DEFINE row(s) == [symbol |-> s, named |-> s \in Requests!Quotec(F, q.batch, q.single)]
  <2>1. Requests!Search(q) = {row(s) : s \in F}
    BY <1>3 DEF Requests!Basics
  <2>2. \A s : row(s).symbol = s
    OBVIOUS
  <2> HIDE DEF row
  <2> QED
    BY <2>1, <2>2
<1>8. \A r \in Requests!Search(q) : r.symbol \in F
  BY <1>7
<1>9. Requests!Pool(q) = Requests!Search(q)
  BY <1>6, <1>7, <1>8 DEF Requests!Pool
<1> QED
  BY <1>3, <1>4, <1>5, <1>9, BasicsCount

\* A report of a later quarter is taken when there is no other.
LEMMA SelectSays ==
  ASSUME NEW dates \in SUBSET {2, 3, 4}, dates # {}, NEW period \in {1, 2}
  PROVE  Requests!Select(dates, period) \div 2 <= period \/ \A d \in dates : d > 2 * period
<1> DEFINE due == {d \in dates : d <= 2 * period}
<1>1. \A S \in SUBSET {2, 3, 4} : IsFiniteSet(S) /\ S \in SUBSET Nat
  <2>1. 2 \in Int /\ 4 \in Int
    OBVIOUS
  <2>2. IsFiniteSet(2..4)
    BY <2>1, FS_Interval
  <2>3. {2, 3, 4} = 2..4 /\ (2..4) \in SUBSET Nat
    OBVIOUS
  <2> QED
    BY <2>2, <2>3, FS_Subset
<1>2. CASE due = {}
  BY <1>2
<1>3. CASE due # {}
  <2>1. Requests!Max(due) \in due
    <3>1. due \in SUBSET {2, 3, 4}
      OBVIOUS
    <3> HIDE DEF due
    <3> QED
      BY <1>1, <1>3, <3>1, LatestOf
  <2>2. Requests!Select(dates, period) = Requests!Max(due)
    BY <1>3 DEF Requests!Select
  <2>3. Requests!Max(due) \in {2, 3, 4} /\ Requests!Max(due) <= 2 * period
    BY <2>1
  <2> QED
    BY <2>2, <2>3
<1> QED
  BY <1>2, <1>3

LEMMA FinancialsSay ==
  ASSUME NEW q, q.period \in {1, 2},
         q.payloads \in [{1, 2} -> [1..2 -> (SUBSET {2, 3, 4}) \cup {Nothing}]],
         Requests!Financials(q) # Nothing
  PROVE  \/ Requests!Financials(q).period <= q.period
         \/ \E i \in {1, 2} : \E dates \in Requests!Range(q.payloads[i]) :
              dates \notin {Nothing, {}} /\ \A d \in dates : d > 2 * q.period
<1> DEFINE Some(statements) == \E k \in DOMAIN statements : statements[k] \notin {Nothing, {}}
           fit == {i \in {1, 2} : q.payloads[i] # Nothing /\ Some(q.payloads[i])}
           i == Requests!Min(fit)
           having == {k \in DOMAIN q.payloads[i] : q.payloads[i][k] \notin {Nothing, {}}}
           first == Requests!Min(having)
           dates == q.payloads[i][first]
<1>1. DOMAIN q.payloads = {1, 2} /\ \A j \in {1, 2} : DOMAIN q.payloads[j] = 1..2
  OBVIOUS
<1>2. fit # {} => i \in fit /\ i # 0
  <2>1. fit \in SUBSET {1, 2}
    OBVIOUS
  <2> HIDE DEF fit
  <2> QED
    BY <2>1, FirstFitting
<1>3. /\ fit # {}
      /\ Requests!Financials(q).period = Requests!Select(dates, q.period) \div 2
  BY <1>1, <1>2 DEF Requests!Financials, Requests!FirstFit
<1> HIDE DEF i
<1>4. i \in {1, 2} /\ Some(q.payloads[i])
  BY <1>2, <1>3
<1>a. having # {} /\ having \in SUBSET {1, 2}
  BY <1>1, <1>4
<1>5. first \in having
  <2> HIDE DEF having
  <2> QED
    BY <1>a, FirstFitting
<1> HIDE DEF first
<1>6. dates \notin {Nothing, {}} /\ dates \in SUBSET {2, 3, 4} /\ first \in 1..2
  <2>1. first \in 1..2 /\ dates \notin {Nothing, {}}
    BY <1>1, <1>4, <1>5
  <2>2. dates \in (SUBSET {2, 3, 4}) \cup {Nothing}
    BY <1>4, <2>1
  <2> QED
    BY <2>1, <2>2
<1>7. dates \in Requests!Range(q.payloads[i])
  BY <1>1, <1>4, <1>6 DEF Requests!Range
<1> HIDE DEF dates, i
<1>8. Requests!Select(dates, q.period) \div 2 <= q.period \/ \A d \in dates : d > 2 * q.period
  BY <1>6, SelectSays
<1> QED
  BY <1>3, <1>4, <1>6, <1>7, <1>8

\* The months since year 0 of a quarter.
Months(p) == 12 * p[1] + p[2]
QuarterEnds == Nat \X {3, 6, 9, 12}

\* Three months back is the quarter before.
LEMMA BackSays ==
  ASSUME NEW p \in QuarterEnds, Months(p) > 12
  PROVE  /\ Requests!Back(p[1], p[2]) \in QuarterEnds
         /\ Months(Requests!Back(p[1], p[2])) = Months(p) - 3
<1>1. PICK y \in Nat, m \in {3, 6, 9, 12} : p = <<y, m>>
  BY DEF QuarterEnds
<1>2. p[1] = y /\ p[2] = m /\ 12 * y + m > 12
  BY <1>1 DEF Months
<1>3. CASE m = 3
  <2>1. Requests!Back(y, m) = <<y - 1, 12>>
    BY <1>3 DEF Requests!Back
  <2>2. y - 1 \in Nat
    BY <1>2, <1>3
  <2> QED
    BY <1>2, <1>3, <2>1, <2>2 DEF QuarterEnds, Months
<1>4. CASE m # 3
  <2>1. Requests!Back(y, m) = <<y, m - 3>>
    BY <1>4 DEF Requests!Back
  <2>2. m - 3 \in {3, 6, 9}
    BY <1>4
  <2> QED
    BY <1>2, <1>4, <2>1, <2>2 DEF QuarterEnds, Months
<1> QED
  BY <1>3, <1>4

\* The periods follow one another back from the first.
LEMMA PeriodsSay ==
  ASSUME NEW first \in QuarterEnds, Months(first) >= 24, NEW count \in 1..5,
         NEW period,
         period = CHOOSE f : f = [n \in 1..count |->
                    IF n = 1 THEN first ELSE Requests!Back(f[n - 1][1], f[n - 1][2])]
  PROVE  \A n \in 1..count : 12 * period[n][1] + period[n][2] = Months(first) - 3 * (n - 1)
<1> DEFINE Prev(p) == Requests!Back(p[1], p[2])
           b2 == Prev(first)
           b3 == Prev(b2)
           b4 == Prev(b3)
           b5 == Prev(b4)
           At(n) == IF n = 1 THEN first ELSE IF n = 2 THEN b2 ELSE IF n = 3 THEN b3
                    ELSE IF n = 4 THEN b4 ELSE b5
           g == [n \in 1..count |-> At(n)]
           IsPeriod(f) == f = [n \in 1..count |-> IF n = 1 THEN first ELSE Prev(f[n - 1])]
<1>1. Months(first) \in Nat /\ Months(first) >= 24
  BY DEF Months, QuarterEnds
<1>2. b2 \in QuarterEnds /\ Months(b2) = Months(first) - 3
  BY <1>1, BackSays
<1> HIDE DEF b2
<1>3. b3 \in QuarterEnds /\ Months(b3) = Months(first) - 6
  BY <1>1, <1>2, BackSays
<1> HIDE DEF b3
<1>4. b4 \in QuarterEnds /\ Months(b4) = Months(first) - 9
  BY <1>1, <1>3, BackSays
<1> HIDE DEF b4
<1>5. b5 \in QuarterEnds /\ Months(b5) = Months(first) - 12
  BY <1>1, <1>4, BackSays
<1> HIDE DEF b5
<1>6. \A n \in 1..5 : n # 1 => At(n) = Prev(At(n - 1))
  <2>1. At(1) = first /\ At(2) = b2 /\ At(3) = b3 /\ At(4) = b4 /\ At(5) = b5
    OBVIOUS
  <2>2. b2 = Prev(first) /\ b3 = Prev(b2) /\ b4 = Prev(b3) /\ b5 = Prev(b4)
    BY DEF b2, b3, b4, b5
  <2> HIDE DEF At, Prev
  <2>3. ASSUME NEW n \in 1..5, n # 1 PROVE At(n) = Prev(At(n - 1))
    <3>1. n \in {2, 3, 4, 5}
      BY <2>3
    <3> QED
      BY <2>1, <2>2, <3>1
  <2> QED
    BY <2>3
<1> HIDE DEF At, Prev
<1>7. IsPeriod(g)
  <2>1. ASSUME NEW n \in 1..count PROVE At(n) = IF n = 1 THEN first ELSE Prev(g[n - 1])
    <3>1. CASE n = 1
      BY <3>1 DEF At
    <3>2. CASE n # 1
      <4>1. n - 1 \in 1..count /\ n \in 1..5
        BY <3>2
      <4> QED
        BY <1>6, <3>2, <4>1
    <3> QED
      BY <3>1, <3>2
  <2> QED
    BY <2>1
<1>8. IsPeriod(period)
  <2>1. period = CHOOSE f : IsPeriod(f)
    BY DEF Prev
  <2> HIDE DEF IsPeriod
  <2> QED
    BY <1>7, <2>1
<1> HIDE DEF IsPeriod
<1>9. period[1] = first /\ \A n \in 1..count : n # 1 => period[n] = Prev(period[n - 1])
  <2> DEFINE h == [n \in 1..count |-> IF n = 1 THEN first ELSE Prev(period[n - 1])]
  <2>1. \A n \in 1..count : h[n] = IF n = 1 THEN first ELSE Prev(period[n - 1])
    OBVIOUS
  <2>2. period = h
    BY <1>8 DEF IsPeriod
  <2> HIDE DEF h
  <2>3. \A n \in 1..count : period[n] = IF n = 1 THEN first ELSE Prev(period[n - 1])
    BY <2>1, <2>2
  <2>4. 1 \in 1..count
    OBVIOUS
  <2> QED
    BY <2>3, <2>4
<1>10. \A n \in 1..count : period[n] = At(n)
  <2>1. At(1) = first
    BY DEF At
  <2>2. 1 \in 1..count => period[1] = At(1)
    BY <1>9, <2>1
  <2>3. 2 \in 1..count => period[2] = At(2)
    BY <1>6, <1>9, <2>2
  <2>4. 3 \in 1..count => period[3] = At(3)
    BY <1>6, <1>9, <2>3
  <2>5. 4 \in 1..count => period[4] = At(4)
    BY <1>6, <1>9, <2>4
  <2>6. 5 \in 1..count => period[5] = At(5)
    BY <1>6, <1>9, <2>5
  <2>7. \A n \in 1..count : n \in {1, 2, 3, 4, 5}
    OBVIOUS
  <2> QED
    BY <2>2, <2>3, <2>4, <2>5, <2>6, <2>7
<1>11. \A n \in 1..5 : Months(At(n)) = Months(first) - 3 * (n - 1)
  <2>1. ASSUME NEW n \in 1..5 PROVE Months(At(n)) = Months(first) - 3 * (n - 1)
    <3>1. n \in {1, 2, 3, 4, 5}
      OBVIOUS
    <3> QED
      BY <1>1, <1>2, <1>3, <1>4, <1>5, <3>1 DEF At
  <2> QED
    BY <2>1
<1>12. \A n \in 1..count : n \in 1..5 /\ Months(period[n]) = Months(At(n))
  BY <1>10
<1> QED
  BY <1>11, <1>12 DEF Months

\* The last quarter that has ended.
LastQuarter(year, month, date) ==
  LET now == 12 * year + month
      Ended(m) == m < now \/ (m = now /\ date >= Requests!MonthEnd(month))
  IN Requests!Max({m \in 12..now : m % 3 = 0 /\ Ended(m)})

LEMMA QuartersSay ==
  ASSUME NEW year \in {2, 3}, NEW month \in 1..12, NEW date \in {1, 28, 30, 31}, NEW count \in 1..5
  PROVE  Requests!RecentPeriods(year, month, date, count) =
           [n \in 1..count |-> LastQuarter(year, month, date) - 3 * (n - 1)]
<1> DEFINE now == 12 * year + month
           Ended(m) == m < now \/ (m = now /\ date >= Requests!MonthEnd(month))
           all == {m \in 12..now : m % 3 = 0 /\ Ended(m)}
           own == ((month - 1) \div 3 + 1) * 3
           ended == month > own \/ (month = own /\ date >= Requests!MonthEnd(own))
           first == IF ended THEN <<year, own>> ELSE Requests!Back(year, own)
           period == CHOOSE f : f = [n \in 1..count |->
                       IF n = 1 THEN first ELSE Requests!Back(f[n - 1][1], f[n - 1][2])]
<1>1. own \in {3, 6, 9, 12} /\ month <= own /\ own < month + 3
  OBVIOUS
<1> HIDE DEF own
<1>2. ended <=> month = own /\ date >= Requests!MonthEnd(month)
  BY <1>1
<1> HIDE DEF ended
<1>3. <<year, own>> \in QuarterEnds /\ Months(<<year, own>>) = 12 * year + own
  BY <1>1 DEF QuarterEnds, Months
<1>4. /\ first \in QuarterEnds
      /\ Months(first) = IF ended THEN 12 * year + own ELSE 12 * year + own - 3
  <2>1. Months(<<year, own>>) > 12
    BY <1>1, <1>3
  <2>2. /\ Requests!Back(year, own) \in QuarterEnds
        /\ Months(Requests!Back(year, own)) = 12 * year + own - 3
    <3> DEFINE p == <<year, own>>
    <3>1. p[1] = year /\ p[2] = own
      OBVIOUS
    <3> HIDE DEF p
    <3>2. p \in QuarterEnds /\ Months(p) > 12 /\ Months(p) = 12 * year + own
      BY <1>3, <2>1 DEF p
    <3>3. /\ Requests!Back(p[1], p[2]) \in QuarterEnds
          /\ Months(Requests!Back(p[1], p[2])) = Months(p) - 3
      BY <3>2, BackSays
    <3>4. /\ Requests!Back(year, own) \in QuarterEnds
          /\ Months(Requests!Back(year, own)) = Months(p) - 3
      BY <3>1, <3>3
    <3> QED
      BY <1>1, <3>2, <3>4
  <2> QED
    BY <1>3, <2>2
<1> HIDE DEF first
<1>5. Months(first) >= 24
  BY <1>1, <1>4
<1>6. \A n \in 1..count : 12 * period[n][1] + period[n][2] = Months(first) - 3 * (n - 1)
  BY <1>4, <1>5, PeriodsSay
<1>7. Months(first) = Requests!Max(all)
  <2> DEFINE base == Months(first)
  <2>1. base = IF ended THEN 12 * year + own ELSE 12 * year + own - 3
    BY <1>4
  <2> HIDE DEF base
  <2>2. base \in all
    <3>1. base \in 12..now
      BY <1>1, <1>2, <2>1
    <3>2. base % 3 = 0
      BY <1>1, <2>1
    <3>3. Ended(base)
      BY <1>1, <1>2, <2>1
    <3> QED
      BY <3>1, <3>2, <3>3
  <2>3. ASSUME NEW m \in all PROVE m <= base
    <3>1. m \in 12..now /\ m % 3 = 0 /\ Ended(m)
      OBVIOUS
    <3> QED
      BY <1>1, <1>2, <2>1, <3>1
  <2>4. all \in SUBSET Nat /\ IsFiniteSet(all)
    <3>1. 12 \in Int /\ now \in Int
      OBVIOUS
    <3>2. IsFiniteSet(12..now)
      BY <3>1, FS_Interval
    <3>3. all \in SUBSET (12..now) /\ (12..now) \in SUBSET Nat
      OBVIOUS
    <3> QED
      BY <3>2, <3>3, FS_Subset
  <2> HIDE DEF all
  <2>5. Requests!Max(all) \in all /\ \A m \in all : m <= Requests!Max(all)
    BY <2>2, <2>4, LatestOf
  <2>6. base <= Requests!Max(all) /\ Requests!Max(all) <= base
    BY <2>2, <2>3, <2>5
  <2>7. base \in Nat /\ Requests!Max(all) \in Nat
    BY <2>2, <2>4, <2>5
  <2>8. base = Requests!Max(all)
    BY <2>6, <2>7
  <2> QED
    BY <2>8 DEF base
<1>8. Requests!RecentPeriods(year, month, date, count) = [n \in 1..count |-> 12 * period[n][1] + period[n][2]]
  BY DEF Requests!RecentPeriods, first, ended, own
<1>9. LastQuarter(year, month, date) = Requests!Max(all)
  BY DEF LastQuarter
<1> HIDE DEF period, all
<1> QED
  BY <1>6, <1>7, <1>8, <1>9

\* A request stays as it was asked, and its answer as it was given.
RequestsInv == Requests!Asked /\ Requests!FetchedAsAsked

LEMMA RequestsInit == ASSUME Requests!Init PROVE RequestsInv
BY DEF Requests!Init, RequestsInv, Requests!FetchedAsAsked

LEMMA RequestsStep == ASSUME RequestsInv, [Requests!Next]_(Requests!vars) PROVE RequestsInv'
<1>1. asked' = asked /\ Requests!Asked /\ Requests!Asked'
  BY RequestSteps DEF RequestsInv, Requests!Asked
<1>2. CASE answer' = answer
  <2>1. Requests!NothingLater' <=> Requests!NothingLater
    BY <1>1, <1>2 DEF Requests!NothingLater, Requests!Value
  <2>2. Requests!NothingMissed' <=> Requests!NothingMissed
    BY <1>1, <1>2 DEF Requests!NothingMissed, Requests!Value
  <2>3. Requests!QuartersInTurn' <=> Requests!QuartersInTurn
    BY <1>1, <1>2 DEF Requests!QuartersInTurn, Requests!Value
  <2> QED
    BY <1>1, <1>2, <2>1, <2>2, <2>3 DEF RequestsInv, Requests!FetchedAsAsked
<1>3. CASE answer' # answer
  <2> DEFINE v == answer'.value
  <2>1. Requests!NothingLater'
    <3>1. asked.kind \in {"daily", "monthly"} => \A row \in v : row.day <= asked.asOf
      <4>1. asked.kind \in {"daily", "monthly"} =>
              asked.asOf \in 1..LastDay /\ v = Requests!DailyPrices(asked.payloads, asked.asOf)
        BY <1>1, <1>3, AskedSays, RequestSteps
      <4> QED
        BY <4>1, PricesSay
    <3>2. asked.kind = "history" => v \subseteq 1..asked.asOf
      <4>1. asked.kind = "history" => v = Requests!History(asked)
        BY <1>3, RequestSteps
      <4> QED
        BY <1>1, <4>1, AskedSays, PriceHistorySays
    <3>3. asked.kind = "indices" => \A row \in v :
            row.day <= asked.asOf /\ (row.of = row.day \/ (row.quoted /\ asked.asOf < Requests!Today))
      <4>1. asked.kind = "indices" =>
              asked.asOf \in 1..LastDay /\ v = Requests!IndexDaily(asked.bars, asked.quote, asked.asOf)
        BY <1>1, <1>3, AskedSays, RequestSteps
      <4> QED
        BY <4>1, IndexSays
    <3>4. asked.kind = "financials" /\ v # Nothing =>
            \/ v.period <= asked.period
            \/ \E i \in {1, 2} : \E dates \in Requests!Range(asked.payloads[i]) :
                 dates \notin {Nothing, {}} /\ \A d \in dates : d > 2 * asked.period
      <4>1. asked.kind = "financials" => v = Requests!Financials(asked)
        BY <1>3, RequestSteps
      <4> QED
        BY <1>1, <4>1, AskedSays, FinancialsSay
    <3> QED
      BY <1>1, <3>1, <3>2, <3>3, <3>4 DEF Requests!NothingLater, Requests!Value, Requests!Codes
  <2>2. Requests!NothingMissed'
    <3>1. asked.kind = "history" /\ v = {} =>
            /\ \A i \in {1, 2} : asked.payloads[i] = Nothing \/ Requests!Parsed(asked.payloads[i], asked.asOf) = {}
            /\ asked.hk => asked.ak = Nothing \/ Requests!Parsed(asked.ak, asked.asOf) = {}
      <4>1. asked.kind = "history" => v = Requests!History(asked)
        BY <1>3, RequestSteps
      <4> QED
        BY <1>1, <4>1, AskedSays, PriceHistorySays
    <3>2. asked.kind = "quotes" /\ asked.batch # Nothing =>
            asked.symbols \cap (asked.batch \cup asked.single) \subseteq v
      BY <1>3, RequestSteps, QuotesSay
    <3>3. asked.kind = "reports" /\ v = {} =>
            asked.ak \in {Nothing, {}} /\ \A i \in {1, 2} : asked.payloads[i] \in {Nothing, {}}
      <4>1. asked.kind = "reports" => v = Requests!Reports(asked)
        BY <1>3, RequestSteps
      <4> QED
        BY <1>1, <4>1, AskedSays, ReportsSay
    <3>4. asked.kind \in {"search", "pool"} /\ asked.found \notin {Nothing, {}} /\ asked.market = Nothing =>
            Cardinality(v) = Requests!Min({asked.limit, Cardinality(asked.found)})
      <4>1. asked.kind \in {"search", "pool"} => v \in {Requests!Search(asked), Requests!Pool(asked)}
        BY <1>3, RequestSteps
      <4> QED
        BY <1>1, <4>1, AskedSays, SearchSays
    <3> QED
      BY <1>1, <3>1, <3>2, <3>3, <3>4, CardinalityOfRequests DEF Requests!NothingMissed, Requests!Value,
         Requests!Codes
  <2>3. Requests!QuartersInTurn'
    <3>1. asked.kind = "recent" =>
            /\ v = Requests!RecentPeriods(asked.year, asked.month, asked.day, asked.count)
            /\ asked.year \in {2, 3} /\ asked.month \in 1..12 /\ asked.day \in {1, 28, 30, 31}
            /\ asked.count \in 1..5
      BY <1>1, <1>3, AskedSays, RequestSteps
    <3>2. asked.kind = "recent" =>
            v = [n \in 1..asked.count |-> LastQuarter(asked.year, asked.month, asked.day) - 3 * (n - 1)]
      <4> SUFFICES ASSUME asked.kind = "recent"
                   PROVE v = [n \in 1..asked.count |->
                                LastQuarter(asked.year, asked.month, asked.day) - 3 * (n - 1)]
        OBVIOUS
      <4>1. Requests!RecentPeriods(asked.year, asked.month, asked.day, asked.count) =
              [n \in 1..asked.count |-> LastQuarter(asked.year, asked.month, asked.day) - 3 * (n - 1)]
        <5>1. /\ asked.year \in {2, 3} /\ asked.month \in 1..12 /\ asked.day \in {1, 28, 30, 31}
              /\ asked.count \in 1..5
          BY <3>1
        <5> DEFINE y == asked.year
                   m == asked.month
                   d == asked.day
                   c == asked.count
        <5>2. y \in {2, 3} /\ m \in 1..12 /\ d \in {1, 28, 30, 31} /\ c \in 1..5
          BY <5>1
        <5> HIDE DEF y, m, d, c
        <5>3. Requests!RecentPeriods(y, m, d, c) = [n \in 1..c |-> LastQuarter(y, m, d) - 3 * (n - 1)]
          BY <5>2, QuartersSay, ZenonT(60)
        <5> QED
          BY <5>3 DEF y, m, d, c
      <4> QED
        BY <3>1, <4>1
    <3> QED
      BY <1>1, <3>2 DEF Requests!QuartersInTurn, Requests!Value, LastQuarter
  <2> QED
    BY <1>1, <2>1, <2>2, <2>3 DEF RequestsInv, Requests!FetchedAsAsked
<1> QED
  BY <1>2, <1>3

-----------------------------------------------------------------------------
(* The behaviours of MCEtlJobs *)

EtlInv ==
  /\ part = "details" => DetailInv
  /\ part = "history" => HistoryInv
  /\ part = "basics file" => FileInv
  /\ part = "basics" => BasicsInv
  /\ part = "token" => TokenInv
  /\ part = "relations" => RelationInv
  /\ part = "loader" => LoaderInv
  /\ part = "market caches" => CacheInv
  /\ part = "requests" => RequestsInv

LEMMA EtlStarts == ASSUME EtlInit PROVE EtlInv
BY DetailInit, HistoryInit, FileInit, BasicsInit, TokenInit, RelationInit, LoaderInit, CacheInit,
   RequestsInit DEF EtlInit, EtlInv

LEMMA EtlStep == ASSUME EtlInv, [EtlNext]_allVars PROVE EtlInv'
<1>1. part' = part
  BY PartStep
<1>2. part = "details" => DetailInv'
  BY PartStep, DetailStep DEF EtlInv
<1>3. part = "history" => HistoryInv'
  BY PartStep, HistoryStep DEF EtlInv
<1>4. part = "basics file" => FileInv'
  BY PartStep, FileStep DEF EtlInv
<1>5. part = "basics" => BasicsInv'
  BY PartStep, BasicsStep DEF EtlInv
<1>6. part = "token" => TokenInv'
  BY PartStep, TokenStep DEF EtlInv
<1>7. part = "relations" => RelationInv'
  BY PartStep, RelationStep DEF EtlInv
<1>8. part = "loader" => LoaderInv'
  BY PartStep, LoaderStep DEF EtlInv
<1>9. part = "market caches" => CacheInv'
  BY PartStep, CacheStep DEF EtlInv
<1>10. part = "requests" => RequestsInv'
  BY PartStep, RequestsStep DEF EtlInv
<1> QED
  BY <1>1, <1>2, <1>3, <1>4, <1>5, <1>6, <1>7, <1>8, <1>9, <1>10 DEF EtlInv

LEMMA EtlAlways == EtlSpec => []EtlInv
<1>1. EtlInit => EtlInv
  BY EtlStarts
<1>2. EtlInv /\ [EtlNext]_allVars => EtlInv'
  BY EtlStep
<1> QED
  BY <1>1, <1>2, PTL DEF EtlSpec

\* The types of all parts that keep state: for any threads, symbols and batch
\* sizes no interleaving takes a variable out of its range; a place in a run
\* never passes the end of its list, and a batch is written to a table that exists.
THEOREM EtlTypesHold == EtlSpec => []EtlTypes
<1>1. EtlInv => EtlTypes
  BY DetailsSay, HistorySays, FileSays, BasicsSay, TokenSays, RelationSays, LoaderSays, CacheSays DEF EtlInv,
     EtlTypes
<1> QED
  BY <1>1, EtlAlways, PTL

\* The checkpoints of StockDetailJob, FullMarketBootstrapJob and _load_stocks:
\* with runs that overlap, and that are killed between any two writes, none
\* claims what was not stored or what was not tried, nor does the status file.
THEOREM ProgressIsBacked == EtlSpec => []ProgressBacked
<1>1. EtlInv => ProgressBacked
  BY DetailsSay, HistorySays, BasicsSay DEF EtlInv, ProgressBacked
<1> QED
  BY <1>1, EtlAlways, PTL

\* The file of stock basics and the market caches: while saves do not overlap,
\* readers of the file find what the last was meant to leave, wherever the next
\* is cut off; and a fetch that fails costs no quotes that were fetched before.
THEOREM FetchedStays == EtlSpec => []FetchedIsKept
<1>1. EtlInv => FetchedIsKept
  BY FileSays, CacheSays DEF EtlInv, FetchedIsKept
<1> QED
  BY <1>1, EtlAlways, PTL

\* A request for stock basics that the cache or the database could answer in
\* full when it began is answered in full, and not from remote, whatever others
\* load and save, unless one replaced the cache under it.
THEOREM RequestsAnsweredInFull == EtlSpec => []AnsweredInFull
<1>1. EtlInv => AnsweredInFull
  BY BasicsSay DEF EtlInv, AnsweredInFull
<1> QED
  BY <1>1, EtlAlways, PTL

\* The Snowball client: whatever threads share its token, only one that the
\* server rejected is blocked, unless it was replaced under a call.
THEOREM BlockedTokenWasRejected == EtlSpec => []BlockedWasRejected
<1>1. TokenInv => Token!BlockedWasRejected
  BY DEF TokenInv
<1>2. EtlInv => BlockedWasRejected
  BY <1>1 DEF EtlInv, BlockedWasRejected
<1> QED
  BY <1>2, EtlAlways, PTL

\* news_relations: an item shows the symbols that it was last given and is found
\* by no other, whoever wrote it, unless two wrote it at once.
THEOREM RelationsFollowTexts == EtlSpec => []RelationsMatch
<1>1. EtlInv => RelationsMatch
  BY RelationSays DEF EtlInv, RelationsMatch
<1> QED
  BY <1>1, EtlAlways, PTL

\* PgLoader: for any writers and keys, what a reader finds is what the batches
\* that committed leave, each as a whole and one after the other; so a batch
\* that fails leaves nothing, and no two are mixed in a row.
THEOREM BatchesAreWhole == EtlSpec => []BatchesWhole
<1>1. EtlInv => BatchesWhole
  BY LoaderSays DEF EtlInv, BatchesWhole
<1> QED
  BY <1>1, EtlAlways, PTL

\* The Snowball client, for any stocks, any number of days and whatever its
\* sources answer: no row is of a later day or quarter than was asked for, unless
\* there is no other; no source in reach that had rows is passed over; a search is
\* as long as it may be; and the quarters are the last that ended, over the turn
\* of a year too.
THEOREM RequestsAreAnswered == EtlSpec => []FetchedAsAsked
<1>1. RequestsInv => Requests!FetchedAsAsked
  BY DEF RequestsInv
<1>2. EtlInv => FetchedAsAsked
  BY <1>1 DEF EtlInv, FetchedAsAsked
<1> QED
  BY <1>2, EtlAlways, PTL

=============================================================================
