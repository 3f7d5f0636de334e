----------------------------- MODULE WatchSync ------------------------------
(***************************************************************************)
(* The watch list of a user: the copy in the browser's localStorage        *)
(* (utils/watchTargets.ts), the list on the server                         *)
(* (services/user_targets_service.py), the query cache's copy of that, and *)
(* the stats page that merges them (hooks/useStatsTargets.ts) under the    *)
(* session of module Session.  Requests are answered in any order.         *)
(***************************************************************************)
EXTENDS Session

CONSTANTS
  Symbols,     \* stocks
  MaxTargets,  \* MAX_WATCH_TARGETS, 50 in the code
  MaxFetches,  \* bound: reads of the list in flight
  MaxWrites,   \* bound: writes of the list in flight
  Unrecorded   \* bound: symbols whose authors the history `meant' leaves out

VARIABLES
  open,     \* whether the stats page is mounted
  lists,    \* the watch lists in localStorage, under one key for each user
            \* and one for everyone
  legacy,   \* the list under the key of an earlier version, only ever read
  remote,   \* the list of each user on the server
  data,     \* the query cache's data under each token's key, or None
  seen,     \* the snapshot's data that the page's hook renders, or None
  fetches,  \* reads in flight: [token, answer], None before the server reads
  writes,   \* writes in flight: [op, token, symbols]
  cut,      \* history: the symbols that MaxTargets last kept out of the list
  wish,     \* history: what became of each user's last wish for a symbol
  meant     \* history: the symbols each user, or nobody signed in, ever added

pages == <<open, lists, legacy, remote, data, seen, fetches, writes>>
vars == <<session, pages, cut, wish, meant>>

\* getAuthUserId: parseJwtPayload takes what follows the first dot, and in the
\* tokens of this API that is the signature.
AuthUserId(t) == IF t # None /\ t[2] \in Users THEN t[2] ELSE None

\* resolveScopedKey.
ListKey(t) == IF AuthUserId(t) = None THEN "everyone" ELSE AuthUserId(t)

\* readWatchTargets.  An empty list under the key of everyone is read, and
\* stored, as the legacy one; that it is stored no later read can tell.  The
\* migration to the key of a user is left out: no token leads to one.
Recalled(list) == IF list = {} THEN legacy ELSE list
Local == Recalled(lists[ListKey(stored)])

\* Mutant: the limit is applied with the others first.
KeptLate(first, others) ==
  LET all == first \cup others
  IN IF Cardinality(all) <= MaxTargets THEN {all}
     ELSE {S \in SUBSET all : Cardinality(S) = MaxTargets /\ (S \subseteq others \/ others \subseteq S)}

\* The first MaxTargets of some symbols followed by others.  Lists are sets
\* here: which symbols come first among either is left open.
Kept(first, others) ==
  LET all == first \cup others
  IN IF Cardinality(all) <= MaxTargets THEN {all}
     ELSE {S \in SUBSET all : Cardinality(S) = MaxTargets /\ (S \subseteq first \/ first \subseteq S)}

\* Whatever a list under the legacy key holds, MaxTargets of it are read.
Listable == {S \in SUBSET Symbols : Cardinality(S) <= MaxTargets}

Init ==
  /\ SessionInit
  /\ open = FALSE
  /\ lists = [k \in Users \cup {"everyone"} |-> {}]
  /\ legacy \in Listable
  /\ remote = [u \in Users |-> {}]
  /\ data = [t \in Tokens |-> None]
  /\ seen = None
  /\ fetches = {} /\ writes = {}
  /\ cut = {}
  /\ wish = [u \in Users |-> [s \in Symbols |-> "none"]]
  /\ meant = [u \in Users |-> Unrecorded \cup legacy]

-----------------------------------------------------------------------------
(* The effects of the stats page.  p is what they work on: the list in     *)
(* localStorage, what the limit kept out of it, the query cache and the    *)
(* writes.                                                                 *)

Page == [local |-> lists[ListKey(stored)], cut |-> cut, data |-> data, writes |-> writes]
Write(op, t, symbols) == [op |-> op, token |-> t, symbols |-> symbols]

\* The page with the list that addWatchTarget or replaceWatchTargets stores, and
\* those of the symbols that it leaves out.
Listing(p, next, symbols) ==
  [p EXCEPT !.local = next, !.cut = (@ \cup symbols) \ next]

\* The effect on watchTargetsQuery.data, d: localStorage gets the union, the
\* server's symbols first.  The query is primed with what the list took, if that
\* differs from d; a batch sends all of the union, if the server lacks some.
Merge(p, t, d) ==
  IF d = None THEN {p}
  ELSE LET local == Recalled(p.local)
           Primed(next) == IF next = d THEN p.data ELSE [p.data EXCEPT ![t] = next]
           sent == IF local \subseteq d THEN p.writes
                   ELSE p.writes \cup {Write("batch", t, d \cup local)}
       IN {[Listing(p, next, d \cup local) EXCEPT !.data = Primed(next), !.writes = sent] :
             next \in Kept(d, local)}

Store(p) == lists' = [lists EXCEPT ![ListKey(stored')] = p.local] /\ cut' = p.cut
Finish(p) ==
  /\ Store(p)
  /\ data' = p.data
  /\ writes' = p.writes
  /\ Cardinality(p.writes) <= MaxWrites

\* The key of the page's query: the token, when authenticated.
Key(o, t, u) == IF o /\ t # None /\ u # None THEN t ELSE None
CurrentKey == Key(open, token, user)

\* runApiQuery on mount: a read, unless one is in flight or the data is fresh.
MayFetch(k) ==
  \/ /\ Cardinality(fetches) < MaxFetches
     /\ fetches' = fetches \cup {[token |-> k, answer |-> None]}
  \/ data[k] # None /\ UNCHANGED fetches
  \/ (\E f \in fetches : f.token = k) /\ UNCHANGED fetches

\* The page renders under the session's next state.  When the query's key
\* changes, the merge runs with the new token on the old key's snapshot before
\* it runs on the new key's.
Render(was, o) ==
  LET k == Key(o, token', user')
      p == [Page EXCEPT !.local = lists[ListKey(stored')]]
  IN IF k = was \/ k = None
       THEN /\ seen' = IF k = None THEN None ELSE seen
            /\ UNCHANGED <<lists, cut, data, writes, fetches>>
       ELSE /\ MayFetch(k)
            /\ \E late \in Merge(p, k, seen) : \E q \in Merge(late, k, late.data[k]) :
                 Finish(q) /\ seen' = q.data[k]

-----------------------------------------------------------------------------
(* Wishes: "in" and "out" while the last wish has to hold, "none" when     *)
(* something may have undone it.                                           *)

Busy(u, s) ==
  \/ \E f \in fetches : Owner(f.token) = u
  \/ \E w \in writes : Owner(w.token) = u /\ s \in w.symbols

\* The user wishes symbols in or out, on a page that knows whose list it is.
Wished(symbols, what) ==
  [u \in Users |-> [s \in Symbols |->
    IF s \notin symbols THEN wish[u][s]
    ELSE IF CurrentKey = TokenOf(u) /\ stored = token /\ ~Busy(u, s) THEN what ELSE "none"]]

\* A read that runs beside a write of the same list excuses that write's
\* symbols; so does a change of the user, for all of the others' wishes.
Excused(u, s) ==
  \/ \E f \in fetches' : Owner(f.token) = u
       /\ \E w \in writes' : Owner(w.token) = u /\ s \in w.symbols
  \/ stored' \notin {TokenOf(u), None}
  \/ token' \notin {TokenOf(u), None}
Keep ==
  /\ wish' = [u \in Users |-> [s \in Symbols |->
                IF Excused(u, s) THEN "none" ELSE wish[u][s]]]
  /\ UNCHANGED meant

\* An addition is meant for the user signed in here; without one, for whoever
\* signs in.
Means(t, symbols) ==
  meant' = [u \in Users |-> IF t \in {TokenOf(u), None} THEN meant[u] \cup symbols ELSE meant[u]]
Drop(u, symbols) ==
  wish' = [v \in Users |-> [s \in Symbols |->
             IF (v = u /\ s \in symbols) \/ Excused(v, s) THEN "none" ELSE wish[v][s]]]

-----------------------------------------------------------------------------
(* The session, with the page under it *)

SessionStep ==
  /\ \/ ~open /\ \E u \in Users : SignIn(u)
     \/ SignOut
     \/ \E t \in Tokens : CheckSucceeds(t) \/ CheckFails(t)
     \/ OtherTab
  /\ Render(CurrentKey, open)
  /\ UNCHANGED <<open, remote>>
  /\ Keep

OpenStats ==
  /\ ~open /\ open' = TRUE
  /\ UNCHANGED session
  /\ Render(None, TRUE)
  /\ UNCHANGED remote
  /\ Keep

CloseStats ==
  /\ open /\ open' = FALSE
  /\ seen' = None
  /\ UNCHANGED <<session, lists, cut, remote, data, fetches, writes>>
  /\ Keep

\* The module's state is lost, and so are the answers; the server may still
\* get the writes.
ReloadPage ==
  /\ Reload
  /\ open' = FALSE /\ seen' = None
  /\ data' = [t \in Tokens |-> None]
  /\ fetches' = {}
  /\ UNCHANGED <<lists, cut, remote, writes>>
  /\ Keep

-----------------------------------------------------------------------------
(* The user's handlers on the stats page *)

\* primeApiQuery of the page's key, if it has one, and the request, if there
\* is a token.  The merge runs on what was primed: it finds the list there, or
\* the legacy one, if the list is empty now.
Edit(p, op, symbols) ==
  /\ open /\ symbols # {}
  /\ LET new == IF token = None THEN {} ELSE {Write(op, token, {s}) : s \in symbols}
         sent == [p EXCEPT !.writes = @ \cup new]
     IN IF CurrentKey = None THEN Finish(sent) /\ UNCHANGED seen
        ELSE \E q \in Merge([sent EXCEPT !.data[CurrentKey] = p.local], CurrentKey, p.local) :
               Finish(q) /\ seen' = q.data[CurrentKey]
  /\ UNCHANGED <<session, open, remote, fetches>>

\* handleQuickAddWatchTarget: addWatchTarget puts the symbol first, which the
\* limit may not leave out.
Add(s) ==
  /\ UNCHANGED stored
  /\ \E next \in Kept({s}, Local) : Edit(Listing(Page, next, Local), "upsert", {s})
  /\ wish' = Wished({s}, "in") /\ Means(token, {s})

\* handleRemoveWatchTarget, handleBatchRemoveSelectedWatch.  Nobody's wish to
\* have a legacy symbol out outlasts the removal of the last symbol.
Remove(symbols) ==
  /\ UNCHANGED stored /\ symbols \subseteq Local
  /\ LET next == Local \ symbols
     IN /\ Edit([Page EXCEPT !.local = next], "delete", symbols)
        /\ wish' = [u \in Users |-> [s \in Symbols |->
             IF s \in legacy /\ next = {} /\ Wished(symbols, "out")[u][s] = "out" THEN "none"
             ELSE Wished(symbols, "out")[u][s]]]
  /\ UNCHANGED meant

\* handleAddPoolToWatch of the stock pool page: localStorage alone.
AddPool(symbols) ==
  /\ ~open /\ ~(symbols \subseteq Local)
  /\ UNCHANGED <<session, open, remote, data, seen, fetches, writes>>
  /\ \E next \in Kept(symbols \ Local, Local) : Store(Listing(Page, next, symbols \cup Local))
  /\ wish' = [u \in Users |-> [s \in Symbols |->
                IF s \in symbols /\ wish[u][s] = "out" THEN "none" ELSE wish[u][s]]]
  /\ Means(stored, symbols)

-----------------------------------------------------------------------------
(* The server *)

\* list_watch_targets.
Read(f) ==
  /\ f \in fetches /\ f.answer = None
  /\ fetches' = (fetches \ {f}) \cup {[f EXCEPT !.answer = remote[Owner(f.token)]]}
  /\ UNCHANGED <<session, open, lists, cut, remote, data, seen, writes>>
  /\ Keep

\* The answer reaches the query cache, and the page if that is its key.
Arrive(f) ==
  LET d == [data EXCEPT ![f.token] = f.answer]
  IN /\ f \in fetches /\ f.answer # None
     /\ fetches' = fetches \ {f}
     /\ UNCHANGED <<session, open, remote>>
     /\ IF CurrentKey = f.token
          THEN \E p \in Merge([Page EXCEPT !.data = d], f.token, f.answer) :
                 Finish(p) /\ seen' = p.data[f.token]
          ELSE data' = d /\ UNCHANGED <<lists, cut, writes, seen>>
     /\ Keep

FetchFails(f) ==
  /\ f \in fetches
  /\ fetches' = fetches \ {f}
  /\ UNCHANGED <<session, open, lists, cut, remote, data, seen, writes>>
  /\ Keep

\* Mutant: upsert_watch_target forgets db.commit().
ApplyUncommitted(w) ==
  /\ w \in writes
  /\ writes' = writes \ {w}
  /\ UNCHANGED remote
  /\ UNCHANGED <<session, open, lists, cut, data, seen, fetches>>
  /\ Keep

\* upsert_watch_target, batch_upsert_watch_targets, delete_watch_target.
Apply(w) ==
  /\ w \in writes
  /\ writes' = writes \ {w}
  /\ remote' = [remote EXCEPT ![Owner(w.token)] =
                  IF w.op = "delete" THEN @ \ w.symbols ELSE @ \cup w.symbols]
  /\ UNCHANGED <<session, open, lists, cut, data, seen, fetches>>
  /\ Keep

\* Writes are not retried.
WriteFails(w) ==
  /\ w \in writes
  /\ writes' = writes \ {w}
  /\ UNCHANGED <<session, open, lists, cut, remote, data, seen, fetches>>
  /\ Drop(Owner(w.token), w.symbols)
  /\ UNCHANGED meant

\* The user's other device adds or removes a symbol.
OtherDevice(u, s) ==
  /\ remote' = [remote EXCEPT ![u] = IF s \in @ THEN @ \ {s} ELSE @ \cup {s}]
  /\ UNCHANGED <<session, open, lists, cut, data, seen, fetches, writes>>
  /\ Drop(u, {s})
  /\ meant' = [meant EXCEPT ![u] = @ \cup {s}]

Next ==
  /\ \/ SessionStep
     \/ OpenStats
     \/ CloseStats
     \/ ReloadPage
     \/ \E s \in Symbols : Add(s)
     \/ \E symbols \in SUBSET Symbols : Remove(symbols) \/ AddPool(symbols)
     \/ \E f \in fetches : Read(f) \/ Arrive(f) \/ FetchFails(f)
     \/ \E w \in writes : Apply(w) \/ WriteFails(w)
     \/ \E u \in Users, s \in Symbols : OtherDevice(u, s)
  /\ UNCHANGED legacy

Spec == Init /\ [][Next]_vars

-----------------------------------------------------------------------------
(* Properties *)

TypeOK ==
  /\ stored \in Tokens \cup {None} /\ token \in Tokens \cup {None}
  /\ user \in Users \cup {None} /\ loading \in BOOLEAN /\ mixed \in BOOLEAN
  /\ checks \in [Tokens -> 0..MaxChecks]
  /\ open \in BOOLEAN
  /\ lists \in [Users \cup {"everyone"} -> Listable] /\ legacy \in Listable
  /\ remote \in [Users -> SUBSET Symbols]
  /\ data \in [Tokens -> (SUBSET Symbols) \cup {None}]
  /\ seen \in (SUBSET Symbols) \cup {None}
  /\ fetches \subseteq [token : Tokens, answer : (SUBSET Symbols) \cup {None}]
  /\ writes \subseteq [op : {"upsert", "batch", "delete"}, token : Tokens, symbols : SUBSET Symbols]
  /\ wish \in [Users -> [Symbols -> {"none", "in", "out"}]] /\ cut \subseteq Symbols
  /\ meant \in [Users -> SUBSET Symbols]

Underway(u, s, ops) ==
  \E w \in writes : w.op \in ops /\ Owner(w.token) = u /\ s \in w.symbols

\* What the user added or removed stays so, here and on the server, through
\* merges, reloads, page changes, sign-outs and answers in any order, unless a
\* read ran beside the write, the write failed, another device or user
\* interfered: then the merge may bring a removed symbol back.  The limit of the
\* list takes a symbol from here, never from the server; and the removal of the
\* last symbol brings the legacy list back, which ends the wishes against it.
WishesHold ==
  LET here == Recalled(lists["everyone"])
  IN \A u \in Users, s \in Symbols :
       /\ wish[u][s] = "in" =>
            s \in here \cup cut /\ (s \in remote[u] \/ Underway(u, s, {"upsert", "batch"}))
       /\ wish[u][s] = "out" =>
            s \notin here /\ (s \notin remote[u] \/ Underway(u, s, {"delete"}))

\* utils/watchTargets.ts keeps a list "by user" (WATCH_TARGETS_KEY_BY_USER_PREFIX):
\* the server's list of a user holds what that user put there, or what was
\* added when nobody was signed in, and never what another user added.
EachUserTheirOwn == \A u \in Users : remote[u] \subseteq meant[u]
=============================================================================
