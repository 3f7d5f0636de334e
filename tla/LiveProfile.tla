---------------------------- MODULE LiveProfile -----------------------------
(***************************************************************************)
(* The profile of one stock in services/live_market/core.py: requests and  *)
(* the background refresh read it from the cache, fill it from the stock   *)
(* basics, the ETL's snapshot and the provider, and write it back.  Each   *)
(* call works on the profile it read when it began.  A part of a profile   *)
(* is the version of the market data that it shows.                        *)
(***************************************************************************)
EXTENDS Naturals

CONSTANTS
  Callers,     \* request threads
  Refresher,   \* the worker of the background pool that has the symbol
  Extras,      \* the parts beside the quote: quote_detail and pankou
  Nothing,     \* a missing part, row or profile
  MaxMarket    \* bound: changes of the market

Threads == Callers \cup {Refresher}

VARIABLES
  market,    \* the version that the provider answers with
  snapshot,  \* the ETL's row in the database, or Nothing
  cache,     \* the profile in the cache, or Nothing
  wanted,    \* whether the symbol's refresh is queued or runs
  call       \* what each thread is at

vars == <<market, snapshot, cache, wanted, call>>

Profile(quote, extra) == [quote |-> quote, extra |-> extra]
Blank == Profile(Nothing, [x \in Extras |-> Nothing])

Idle == [at |-> "idle", kind |-> "profile", live |-> FALSE, seen |-> Nothing,
         result |-> Blank]

Init ==
  /\ market = 0
  /\ snapshot = Nothing /\ cache = Nothing
  /\ wanted = FALSE
  /\ call = [c \in Threads |-> Idle]

\* _has_quote_signal.
Signal(p) == p.quote # Nothing \/ \E x \in Extras : p.extra[x] # Nothing

\* What a call is asked for beside the quote.
Asked(c) == IF call[c].kind = "overview" THEN {} ELSE Extras

Or(a, b) == IF a # Nothing THEN a ELSE b
Seen(c) == IF call[c].seen = Nothing THEN Blank ELSE call[c].seen

\* Mutant: extras come from the snapshot alone.
FilledForgetful(c, snap) ==
  Profile(Or(snap.quote, Seen(c).quote),
          [x \in Extras |-> IF x \in Asked(c) THEN snap.extra[x] ELSE Nothing])

\* The profile made of the cached one and the snapshot's parts.  Its name and
\* sector, which _merge_stock_profile takes from the basics or keeps, are left
\* out.
Filled(c, snap) ==
  Profile(Or(snap.quote, Seen(c).quote),
          [x \in Extras |-> IF x \in Asked(c) THEN Or(snap.extra[x], Seen(c).extra[x])
                                                ELSE Seen(c).extra[x]])

-----------------------------------------------------------------------------
(* Calls *)

Goes(c, result) == call' = [call EXCEPT ![c].at = "write", ![c].result = result]
Done(c) == call' = [call EXCEPT ![c] = Idle]

\* get_live_stock_profile, get_live_stock_overview_profile and
\* get_live_stock_profile_extras read the cache.
Begin(c) ==
  /\ c # Refresher /\ call[c].at = "idle"
  /\ \E kind \in {"profile", "overview", "extras"}, live \in BOOLEAN :
       call' = [call EXCEPT ![c] = [Idle EXCEPT !.at = "local", !.kind = kind, !.live = live,
                                                !.seen = cache]]
  /\ UNCHANGED <<market, snapshot, cache, wanted>>

\* _run_background_profile_refresh.
BeginRefresh ==
  /\ wanted /\ call[Refresher].at = "idle"
  /\ call' = [call EXCEPT ![Refresher] = [Idle EXCEPT !.at = "local", !.live = TRUE,
                                                      !.seen = cache]]
  /\ UNCHANGED <<market, snapshot, cache, wanted>>

\* A call that is not to be live serves what is here, and has it refreshed.
\* Only with a snapshot it writes what it serves.
ServeLocal(c) ==
  /\ call[c].at = "local" /\ ~call[c].live /\ call[c].kind # "extras"
  /\ cache' = IF snapshot # Nothing THEN Filled(c, snapshot) ELSE cache
  /\ wanted' = TRUE
  /\ Done(c)
  /\ UNCHANGED <<market, snapshot>>

\* A live call asks the provider (get_stock_quote, get_stock_quote_detail,
\* get_stock_pankou).  A quote that fails is made of the last daily price if
\* there is one, an extra is what the cache had.
FetchLive(c) ==
  /\ call[c].at = "local" /\ call[c].live /\ call[c].kind # "extras"
  /\ \E failed \in SUBSET (Asked(c) \cup {"quote"}), daily \in BOOLEAN :
       LET base == Filled(c, Blank)
       IN Goes(c, [base EXCEPT
                    !.quote = IF "quote" \notin failed THEN market ELSE IF daily THEN 0 ELSE @,
                    !.extra = [x \in Extras |->
                      IF x \in Asked(c) \ failed THEN market ELSE @[x]]])
  /\ UNCHANGED <<market, snapshot, cache, wanted>>

\* get_live_stock_profile_extras: what is here, from the snapshot first, or
\* live from the provider.
FetchExtras(c) ==
  /\ call[c].at = "local" /\ call[c].kind = "extras"
  /\ \E failed \in SUBSET Extras :
       LET snap == IF call[c].live \/ snapshot = Nothing THEN Blank ELSE snapshot
           here == [Filled(c, snap) EXCEPT !.quote = Seen(c).quote]
       IN IF call[c].live
            THEN Goes(c, [here EXCEPT !.extra = [x \in Extras |->
                            IF x \notin failed THEN market ELSE @[x]]])
            ELSE failed = Extras /\ Goes(c, here)
  /\ wanted' = (wanted \/ ~call[c].live)
  /\ UNCHANGED <<market, snapshot, cache>>

\* Extras are merged into a profile that was cached; what has no quote signal
\* is not written.  A refresh gives its claim back.
Write(c) ==
  /\ call[c].at = "write"
  /\ cache' = IF Signal(call[c].result) /\ (call[c].kind = "extras" => call[c].seen # Nothing
                    /\ \E x \in Extras : call[c].result.extra[x] # Nothing)
                THEN call[c].result ELSE cache
  /\ wanted' = (wanted /\ c # Refresher)
  /\ Done(c)
  /\ UNCHANGED <<market, snapshot>>

-----------------------------------------------------------------------------
(* The sources *)

MarketMoves ==
  /\ market < MaxMarket /\ market' = market + 1
  /\ UNCHANGED <<snapshot, cache, wanted, call>>

\* The ETL stores a row, whose detail columns may be null.  The row's time
\* alone makes a quote.
EtlSnapshot ==
  /\ \E extra \in [Extras -> {market, Nothing}] : snapshot' = Profile(market, extra)
  /\ UNCHANGED <<market, cache, wanted, call>>

\* LIVE_CACHE_TTL is over, or an administrator clears the cache.
Expire ==
  /\ cache' = Nothing
  /\ UNCHANGED <<market, snapshot, wanted, call>>

Next ==
  \/ \E c \in Threads :
       \/ Begin(c)
       \/ ServeLocal(c)
       \/ FetchLive(c)
       \/ FetchExtras(c)
       \/ Write(c)
  \/ BeginRefresh
  \/ MarketMoves
  \/ EtlSnapshot
  \/ Expire

Spec == Init /\ [][Next]_vars

-----------------------------------------------------------------------------
(* Properties *)

Version == 0..MaxMarket \cup {Nothing}
Profiles == [quote : Version, extra : [Extras -> Version]]

TypeOK ==
  /\ market \in 0..MaxMarket /\ wanted \in BOOLEAN
  /\ {cache, snapshot} \subseteq Profiles \cup {Nothing}
  /\ \A c \in Threads : call[c].result \in Profiles

Writes(c) == call[c].at # "idle" /\ call'[c].at = "idle" /\ cache' # cache

\* No call takes from the cached profile what it found there when it began,
\* whatever it was asked for and whatever the sources fail to give: details
\* outlive calls that do not ask for them.
PartsKeptStep ==
  \A c \in Threads : Writes(c) /\ call[c].seen # Nothing =>
       /\ call[c].seen.quote # Nothing => cache'.quote # Nothing
       /\ \A x \in Extras : call[c].seen.extra[x] # Nothing => cache'.extra[x] # Nothing
PartsKept == [][PartsKeptStep]_vars
=============================================================================
