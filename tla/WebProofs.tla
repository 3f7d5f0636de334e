----------------------------- MODULE WebProofs ------------------------------
(***************************************************************************)
(* TLAPS proofs about MCWeb: the session and the watch list, for any users *)
(* and symbols, and the query cache, for any components, entries, requests *)
(* and times, which implements QueryPromise.                               *)
(***************************************************************************)
EXTENDS MCWeb, FiniteSetTheorems, TLAPS

-----------------------------------------------------------------------------
(* The session *)

SessionTypes ==
  /\ stored \in Tokens \cup {None} /\ token \in Tokens \cup {None}
  /\ checks \in [Tokens -> Nat]

\* Unless mixed, the one answer awaited is about the token that is shown.
AsksForShown == ~mixed => \A t \in Tokens : checks[t] > 0 => t = token

SessionInv == SessionTypes /\ AsksForShown /\ AgreesUnlessMixed /\ LoadingIsAwaited

\* What syncAuth establishes: an answer is awaited for the token if there is
\* one, and for another one only in a mixed session.
LEMMA SyncAuthSets ==
  ASSUME NEW t \in Tokens \cup {None}, NEW c \in [Tokens -> Nat],
         SyncAuth(t, c), stored' = t
  PROVE  SessionInv'
<1>1. CASE t = None
  <2>1. token' = None /\ user' = None /\ loading' = FALSE /\ checks' = c /\ mixed' = Waiting(c)
    BY <1>1 DEF SyncAuth
  <2>2. SessionTypes' /\ LoadingIsAwaited'
    BY <1>1, <2>1 DEF SessionTypes, LoadingIsAwaited
  <2>3. AsksForShown' /\ AgreesUnlessMixed'
    BY <1>1, <2>1 DEF AsksForShown, AgreesUnlessMixed, Waiting
  <2> QED
    BY <2>2, <2>3 DEF SessionInv
<1>2. CASE t \in Tokens
  <2>1. token' = t /\ checks' = [c EXCEPT ![t] = @ + 1] /\ mixed' = Waiting(c)
    BY <1>2, NoneAssumption DEF SyncAuth
  <2>2. checks' \in [Tokens -> Nat] /\ checks'[t] > 0 /\ \A u \in Tokens : u # t => checks'[u] = c[u]
    BY <1>2, <2>1
  <2>3. Waiting(checks)'
    BY <1>2, <2>2 DEF Waiting
  <2>4. AsksForShown'
    BY <2>1, <2>2 DEF AsksForShown, Waiting
  <2> QED
    BY <1>2, <2>1, <2>2, <2>3, <2>4 DEF SessionInv, SessionTypes, AgreesUnlessMixed, LoadingIsAwaited
<1> QED
  BY <1>1, <1>2

LEMMA SessionStep ==
  ASSUME SessionInv, [SessionNext]_session PROVE SessionInv'
<1> USE DEF SessionInv
<1>1. CASE UNCHANGED session
  BY <1>1 DEF session, SessionTypes, AsksForShown, AgreesUnlessMixed, LoadingIsAwaited, Waiting
<1>2. CASE SignOut
  BY <1>2, SyncAuthSets DEF SignOut, SessionTypes
<1>3. CASE Reload
  <2>1. NoChecks \in [Tokens -> Nat]
    BY DEF NoChecks
  <2>2. SyncAuth(stored, NoChecks) /\ stored' = stored
    BY <1>3 DEF Reload
  <2> QED
    BY <2>1, <2>2, SyncAuthSets DEF SessionTypes
<1>4. CASE OtherTab
  BY <1>4 DEF OtherTab, SessionTypes, AsksForShown, AgreesUnlessMixed, LoadingIsAwaited, Waiting
<1>5. ASSUME NEW u \in Users, SignIn(u) PROVE SessionInv'
  <2>1. TokenOf(u) \in Tokens
    BY DEF Tokens
  <2> QED
    BY <1>5, <2>1, SyncAuthSets DEF SignIn, SessionTypes
<1>6. ASSUME NEW t \in Tokens, CheckSucceeds(t) PROVE SessionInv'
  <2>1. /\ token' = t /\ user' = Owner(t) /\ loading' = FALSE /\ stored' = stored /\ mixed' = mixed
        /\ checks' \in [Tokens -> Nat] /\ \A u \in Tokens : checks'[u] > 0 => checks[u] > 0
    BY <1>6 DEF CheckSucceeds, Answered, SessionTypes
  <2>2. ~mixed => t = stored
    BY <1>6 DEF CheckSucceeds, AsksForShown, AgreesUnlessMixed
  <2>3. AsksForShown'
    BY <1>6, <2>1, <2>2 DEF AsksForShown, AgreesUnlessMixed
  <2> QED
    BY <2>1, <2>2, <2>3, NoneAssumption DEF SessionTypes, AgreesUnlessMixed, LoadingIsAwaited
<1>7. ASSUME NEW t \in Tokens, CheckFails(t) PROVE SessionInv'
  <2>1. Answered(t) \in [Tokens -> Nat]
    BY <1>7 DEF CheckFails, Answered, SessionTypes
  <2> QED
    BY <1>7, <2>1, SyncAuthSets DEF CheckFails
<1> QED
  BY <1>1, <1>2, <1>3, <1>4, <1>5, <1>6, <1>7 DEF SessionNext

LEMMA SessionStarts == ASSUME SessionInit PROVE SessionInv /\ OwnerUnlessLoading
<1>1. checks \in [Tokens -> Nat] /\ \A t \in Tokens : checks[t] > 0 <=> t = stored
  BY DEF SessionInit
<1>2. Waiting(checks) <=> stored \in Tokens
  BY <1>1, NoneAssumption DEF SessionInit, Waiting
<1> QED
  BY <1>1, <1>2, NoneAssumption
     DEF SessionInit, SessionInv, SessionTypes, AsksForShown, AgreesUnlessMixed, LoadingIsAwaited,
         OwnerUnlessLoading

LEMMA OwnerStep == ASSUME OwnerUnlessLoading, [SessionNext]_session PROVE OwnerUnlessLoading'
BY DEF OwnerUnlessLoading, SessionNext, session, SignIn, SignOut, Reload, OtherTab, SyncAuth,
       CheckSucceeds, CheckFails

\* A step of the watch list is one of the session, or leaves that alone.
LEMMA WatchMovesSession == ASSUME Watch!Next PROVE [SessionNext]_session
BY DEF Watch!Next, Watch!SessionStep, Watch!OpenStats, Watch!CloseStats, Watch!ReloadPage, Watch!Add, Watch!Remove,
       Watch!AddPool, Watch!Edit, Watch!Read, Watch!Arrive, Watch!FetchFails, Watch!Apply, Watch!WriteFails,
       Watch!OtherDevice, Watch!session, session, SessionNext, Watch!SignIn, SignIn, Watch!SignOut, SignOut,
       Watch!Reload, Reload, Watch!OtherTab, OtherTab, Watch!CheckSucceeds, CheckSucceeds, Watch!CheckFails,
       CheckFails, Watch!SyncAuth, SyncAuth, Watch!Answered, Answered, Watch!Waiting, Waiting, Watch!NoChecks,
       NoChecks, Watch!TokenOf, TokenOf, Watch!Owner, Owner, Watch!Tokens, Tokens

-----------------------------------------------------------------------------
(* The watch list *)

Lists == SUBSET Symbols
Everyone == lists["everyone"]
Here == Watch!Recalled(Everyone)
WatchWrites == [op : {"upsert", "batch", "delete"}, token : Watch!Tokens, symbols : Lists]
WatchFetches == [token : Watch!Tokens, answer : Lists \cup {None}]

WatchTypes ==
  /\ stored \in Watch!Tokens \cup {None} /\ token \in Watch!Tokens \cup {None}
  /\ user \in Users \cup {None} /\ loading \in BOOLEAN /\ mixed \in BOOLEAN
  /\ checks \in [Watch!Tokens -> 0..MaxChecks]
  /\ open \in BOOLEAN
  /\ lists \in [Users \cup {"everyone"} -> Watch!Listable] /\ legacy \in Watch!Listable
  /\ cut \in Lists
  /\ remote \in [Users -> Lists]
  /\ data \in [Watch!Tokens -> Lists \cup {None}]
  /\ seen \in Lists \cup {None}
  /\ fetches \subseteq WatchFetches /\ writes \subseteq WatchWrites
  /\ wish \in [Users -> [Symbols -> {"none", "in", "out"}]] /\ meant \in [Users -> Lists]

\* Only u is signed in, if anybody is.
Alone(u) == {stored, token} \subseteq {Watch!TokenOf(u), None}

\* What u added stays, unless the limit cut it here: nothing is under way that
\* takes it from the server.
InSafe(u, s) ==
  /\ s \in Here \cup cut /\ ~Watch!Underway(u, s, {"delete"})
  /\ s \in remote[u] \/ Watch!Underway(u, s, {"upsert", "batch"})

\* What u removed stays away: nothing that a merge may use has it, or is under
\* way to the server with it; and a read that could bring it back was served
\* after the write.
OutSafe(u, s) ==
  /\ s \notin Here /\ ~Watch!Underway(u, s, {"upsert", "batch"})
  /\ s \notin remote[u] \/ Watch!Underway(u, s, {"delete"})
  /\ data[Watch!TokenOf(u)] = None \/ s \notin data[Watch!TokenOf(u)]
  /\ seen = None \/ s \notin seen
  /\ \A f \in fetches : Watch!Owner(f.token) = u =>
       /\ f.answer = None \/ s \notin f.answer
       /\ ~Watch!Underway(u, s, {"delete"})

WishSafe(u, s) ==
  /\ wish[u][s] = "in" => Alone(u) /\ InSafe(u, s)
  /\ wish[u][s] = "out" => Alone(u) /\ OutSafe(u, s)

WatchInv == WatchTypes /\ \A u \in Users, s \in Symbols : WishSafe(u, s)

LEMMA WatchTokens ==
  /\ None \notin Watch!Tokens
  /\ \A u \in Users : Watch!TokenOf(u) \in Watch!Tokens /\ Watch!Owner(Watch!TokenOf(u)) = u
  /\ \A t \in Watch!Tokens : Watch!Owner(t) \in Users /\ t = Watch!TokenOf(Watch!Owner(t))
<1>1. Watch!Tokens = Tokens
  BY DEF Watch!Tokens, Tokens, Watch!TokenOf, TokenOf
<1> QED
  BY <1>1, NoneAssumption DEF Watch!Tokens, Watch!TokenOf, Watch!Owner

\* getAuthUserId finds nobody in a token, so all lists are kept under one key.
LEMMA ListIsShared == \A t \in Watch!Tokens \cup {None} : Watch!ListKey(t) = "everyone"
<1>1. ASSUME NEW t \in Watch!Tokens PROVE t[2] = "signature"
  BY DEF Watch!Tokens, Watch!TokenOf
<1> QED
  BY <1>1, UsersAssumption DEF Watch!ListKey, Watch!AuthUserId

LEMMA SizesAgree == \A S : Watch!Cardinality(S) = Cardinality(S)
BY DEF Watch!Cardinality, Cardinality

LEMMA NoneAreListable == {} \in Watch!Listable
BY FS_EmptySet, TargetsAssumption, SizesAgree DEF Watch!Listable

LEMMA KeptGives ==
  ASSUME NEW first \in Lists, NEW others \in Lists, NEW S \in Watch!Kept(first, others)
  PROVE  /\ S \in Watch!Listable /\ S \subseteq first \cup others
         /\ S = {} => first \cup others = {}
         /\ S \subseteq first \/ first \subseteq S
<1> DEFINE all == first \cup others
<1>1. CASE Cardinality(all) <= MaxTargets
  BY <1>1, SizesAgree DEF Watch!Kept, Watch!Listable, Lists
<1>2. CASE ~(Cardinality(all) <= MaxTargets)
  <2>1. S \subseteq all /\ Cardinality(S) = MaxTargets /\ (S \subseteq first \/ first \subseteq S)
    BY <1>2, SizesAgree DEF Watch!Kept
  <2>2. S # {}
    BY <2>1, FS_EmptySet, TargetsAssumption
  <2> QED
    BY <2>1, <2>2, TargetsAssumption, SizesAgree DEF Watch!Listable, Lists
<1> QED
  BY <1>1, <1>2

LEMMA RecalledGives ==
  ASSUME legacy \in Watch!Listable, NEW list \in Lists
  PROVE  Watch!Recalled(list) \in Lists /\ list \subseteq Watch!Recalled(list)
BY DEF Watch!Recalled, Watch!Listable, Lists

\* What a merge makes of a page: the legacy list is read only if there is
\* nothing to store, and what the limit cuts off is counted as cut.
Merged(r, list, c, dt, ws, t, d) ==
  LET local == Watch!Recalled(list)
      all == IF d = None THEN local ELSE d \cup local
  IN /\ r = [local |-> r.local, cut |-> r.cut, data |-> r.data, writes |-> r.writes]
     /\ r.local \in Watch!Listable /\ Watch!Recalled(r.local) \subseteq all
     /\ r.cut \in Lists /\ local \cup c \subseteq Watch!Recalled(r.local) \cup r.cut
     /\ r.data \in [Watch!Tokens -> Lists \cup {None}]
     /\ r.data = dt \/ r.data = [dt EXCEPT ![t] = r.local]
     /\ r.writes = ws \/ r.writes = ws \cup {[op |-> "batch", token |-> t, symbols |-> all]}
     /\ r.writes \subseteq WatchWrites

LEMMA MergeGives ==
  ASSUME legacy \in Watch!Listable, NEW list \in Watch!Listable, NEW c \in Lists,
         NEW dt \in [Watch!Tokens -> Lists \cup {None}], NEW ws \in SUBSET WatchWrites,
         NEW t \in Watch!Tokens, NEW d \in Lists \cup {None},
         NEW r \in Watch!Merge([local |-> list, cut |-> c, data |-> dt, writes |-> ws], t, d)
  PROVE  Merged(r, list, c, dt, ws, t, d)
<1> DEFINE p == [local |-> list, cut |-> c, data |-> dt, writes |-> ws]
           local == Watch!Recalled(list)
           all == d \cup local
           batch == [op |-> "batch", token |-> t, symbols |-> all]
           sent == IF local \subseteq d THEN ws ELSE ws \cup {batch}
<1>1. list \in Lists /\ local \in Lists
  BY RecalledGives DEF Watch!Listable, Lists
<1>2. CASE d = None
  <2>1. r = p
    BY <1>2 DEF Watch!Merge
  <2> QED
    BY <1>1, <1>2, <2>1 DEF Merged
<1>3. CASE d # None
  <2>1. d \in Lists /\ all \in Lists
    BY <1>1, <1>3 DEF Lists
  <2>2. PICK next \in Watch!Kept(d, local) :
          r = [local |-> next, cut |-> (c \cup (d \cup local)) \ next,
               data |-> IF next = d THEN dt ELSE [dt EXCEPT ![t] = next], writes |-> sent]
    BY <1>3 DEF Watch!Merge, Watch!Listing, Watch!Write
  <2>3. /\ next \in Watch!Listable /\ next \subseteq all /\ (next = {} => all = {})
    BY <1>1, <2>1, KeptGives
  <2>4. next \in Lists
    BY <2>3 DEF Watch!Listable, Lists
  <2>5. Watch!Recalled(next) = next
    BY <2>3 DEF Watch!Recalled
  <2>6. batch \in WatchWrites
    BY <2>1 DEF WatchWrites
  <2> HIDE DEF all, local, batch
  <2>7. sent = ws \/ sent = ws \cup {batch}
    OBVIOUS
  <2>8. sent \subseteq WatchWrites
    BY <2>6, <2>7
  <2>9. r.data \in [Watch!Tokens -> Lists \cup {None}] /\ (r.data = dt \/ r.data = [dt EXCEPT ![t] = next])
    BY <2>2, <2>4
  <2> HIDE DEF sent
  <2>10. r.cut \in Lists /\ local \cup c \subseteq next \cup r.cut
    BY <1>1, <2>1, <2>2 DEF Lists
  <2>11. r.local = next /\ r.writes = sent /\ r = [local |-> r.local, cut |-> r.cut, data |-> r.data, writes |-> r.writes]
    BY <2>2
  <2> QED
    BY <1>3, <2>3, <2>5, <2>7, <2>8, <2>9, <2>10, <2>11 DEF Merged, all, local, batch
<1> QED
  BY <1>2, <1>3

LEMMA WatchStarts == ASSUME Watch!Init PROVE WatchInv
<1>1. checks \in [Watch!Tokens -> 0..MaxChecks]
  BY UsersAssumption DEF Watch!Init, Watch!SessionInit
<1>2. meant \in [Users -> Lists] /\ remote \in [Users -> Lists] /\ cut \in Lists
      /\ legacy \in Watch!Listable
  BY UsersAssumption DEF Watch!Init, Watch!Listable, Lists
<1>3. lists \in [Users \cup {"everyone"} -> Watch!Listable]
  BY NoneAreListable DEF Watch!Init
<1>4. WatchTypes
  BY <1>1, <1>2, <1>3 DEF Watch!Init, Watch!SessionInit, WatchTypes
<1> QED
  BY <1>4 DEF Watch!Init, WatchInv, WishSafe

\* The page's key changes: `next' is stored, out of what the page had here, in
\* its snapshot and in the new key's data.
Found(s) ==
  \/ s \in Here
  \/ seen # None /\ s \in seen
  \/ data[token'] # None /\ s \in data[token']
Goes(next) ==
  /\ lists' = [lists EXCEPT !["everyone"] = next]
  /\ Here \cup cut \subseteq Watch!Recalled(next) \cup cut' /\ cut' \in Lists
  /\ \A s \in Watch!Recalled(next) : Found(s)
  /\ data' \in [Watch!Tokens -> Lists \cup {None}]
  /\ \A t \in Watch!Tokens \ {token'} : data'[t] = data[t]
  /\ data'[token'] = data[token'] \/ (data'[token'] # None /\ \A s \in data'[token'] : Found(s))
  /\ writes \subseteq writes' /\ writes' \subseteq WatchWrites
  /\ \A w \in writes' \ writes : w.op = "batch" /\ w.token = token' /\ \A s \in w.symbols : Found(s)
  /\ fetches \subseteq fetches' /\ fetches' \subseteq WatchFetches
  /\ \A f \in fetches' \ fetches : f.token = token' /\ f.answer = None

\* What the page makes of a change of its key.
LEMMA RenderGives ==
  ASSUME WatchTypes, NEW was, NEW o \in BOOLEAN, Watch!Render(was, o),
         stored' \in Watch!Tokens \cup {None}, token' \in Watch!Tokens \cup {None}
  PROVE  \/ seen' \in {seen, None} /\ UNCHANGED <<lists, cut, data, writes, fetches>>
         \/ token' \in Watch!Tokens /\ seen' = data'[token'] /\ \E next \in Watch!Listable : Goes(next)
<1> DEFINE k == Watch!Key(o, token', user')
           p == [local |-> Everyone, cut |-> cut, data |-> data, writes |-> writes]
<1>1. Watch!ListKey(stored) = "everyone" /\ Watch!ListKey(stored') = "everyone"
  BY ListIsShared DEF WatchTypes
<1>2. [Watch!Page EXCEPT !.local = lists[Watch!ListKey(stored')]] = p
  BY <1>1 DEF Watch!Page, Everyone
<1>3. CASE k = was \/ k = None
  <2>1. seen' = (IF k = None THEN None ELSE seen) /\ UNCHANGED <<lists, cut, data, writes, fetches>>
    BY <1>3 DEF Watch!Render
  <2> QED
    BY <2>1
<1>4. CASE ~(k = was \/ k = None)
  <2>1. Watch!MayFetch(k) /\ \E late \in Watch!Merge(p, k, seen) :
          \E q \in Watch!Merge(late, k, late.data[k]) : Watch!Finish(q) /\ seen' = q.data[k]
    BY <1>2, <1>4 DEF Watch!Render
  <2>2. k = token' /\ k \in Watch!Tokens
    BY <1>4 DEF Watch!Key
  <2>3. PICK late \in Watch!Merge(p, k, seen) :
          \E q \in Watch!Merge(late, k, late.data[k]) : Watch!Finish(q) /\ seen' = q.data[k]
    BY <2>1
  <2>4. PICK q \in Watch!Merge(late, k, late.data[k]) : Watch!Finish(q) /\ seen' = q.data[k]
    BY <2>3
  <2>5. lists' = [lists EXCEPT !["everyone"] = q.local] /\ cut' = q.cut /\ data' = q.data /\ writes' = q.writes
    BY <1>1, <2>4 DEF Watch!Finish, Watch!Store
  <2>6. /\ Everyone \in Watch!Listable /\ cut \in Lists /\ data \in [Watch!Tokens -> Lists \cup {None}]
        /\ writes \in SUBSET WatchWrites /\ seen \in Lists \cup {None} /\ legacy \in Watch!Listable
    BY DEF WatchTypes, Everyone
  <2>7. /\ fetches \subseteq fetches' /\ fetches' \subseteq WatchFetches
        /\ \A f \in fetches' \ fetches : f.token = k /\ f.answer = None
    BY <2>1, <2>2 DEF Watch!MayFetch, WatchTypes, WatchFetches
  <2> HIDE DEF k
  <2>8. Merged(late, Everyone, cut, data, writes, k, seen)
    BY <2>2, <2>3, <2>6, MergeGives
  <2> DEFINE ll == late.local
             lc == late.cut
             ld == late.data
             lw == late.writes
             d == late.data[k]
  <2>9. Merged(q, ll, lc, ld, lw, k, d)
    <3>1. q \in Watch!Merge([local |-> ll, cut |-> lc, data |-> ld, writes |-> lw], k, d)
      BY <2>4, <2>8 DEF Merged
    <3>2. ll \in Watch!Listable /\ lc \in Lists /\ ld \in [Watch!Tokens -> Lists \cup {None}]
          /\ lw \in SUBSET WatchWrites /\ d \in Lists \cup {None}
      BY <2>2, <2>8 DEF Merged
    <3> HIDE DEF ll, lc, ld, lw, d
    <3> QED
      BY <2>2, <2>6, <3>1, <3>2, MergeGives
  <2>10. ll \in Watch!Listable /\ \A s \in Watch!Recalled(ll) : Found(s)
    BY <2>2, <2>8 DEF Merged, Found, Here
  <2>11. ll \subseteq Watch!Recalled(ll) /\ q.local \subseteq Watch!Recalled(q.local)
    BY DEF Watch!Recalled
  <2>12. d = data[k] \/ (d # None /\ \A s \in d : Found(s))
    <3>1. d = data[k] \/ d = ll
      BY <2>2, <2>6, <2>8 DEF Merged
    <3>2. ll # None
      BY <2>10, NoneAssumption DEF Watch!Listable
    <3> QED
      BY <2>10, <2>11, <3>1, <3>2
  <2>13. d # None => \A s \in d : Found(s)
    BY <2>2, <2>12 DEF Found
  <2>14. \A s \in Watch!Recalled(q.local) : Found(s)
    BY <2>9, <2>10, <2>13 DEF Merged
  <2>15. Here \cup cut \subseteq Watch!Recalled(q.local) \cup q.cut
    BY <2>8, <2>9 DEF Merged, Here
  <2>16. \A t \in Watch!Tokens \ {k} : q.data[t] = data[t]
    BY <2>2, <2>6, <2>8, <2>9 DEF Merged
  <2>17. q.data[k] = d \/ q.data[k] = q.local
    BY <2>2, <2>8, <2>9 DEF Merged
  <2>18. q.local \in Watch!Listable /\ q.local # None /\ q.cut \in Lists /\ q.writes \subseteq WatchWrites
         /\ q.data \in [Watch!Tokens -> Lists \cup {None}]
    BY <2>9, NoneAssumption DEF Merged, Watch!Listable
  <2>19. q.data[k] = data[k] \/ (q.data[k] # None /\ \A s \in q.data[k] : Found(s))
    BY <2>11, <2>12, <2>14, <2>17, <2>18
  <2>20. \A w \in lw \ writes : w.op = "batch" /\ w.token = k /\ \A s \in w.symbols : Found(s)
    BY <2>2, <2>8 DEF Merged, Found, Here
  <2>21. \A w \in q.writes \ lw : w.op = "batch" /\ w.token = k /\ \A s \in w.symbols : Found(s)
    BY <2>9, <2>10, <2>13 DEF Merged
  <2>22. writes \subseteq q.writes
    BY <2>8, <2>9 DEF Merged
  <2> HIDE DEF ll, lc, ld, d
  <2>23. Goes(q.local)
    BY <2>2, <2>5, <2>7, <2>14, <2>15, <2>16, <2>18, <2>19, <2>20, <2>21, <2>22 DEF Goes
  <2> QED
    BY <2>2, <2>4, <2>5, <2>18, <2>23
<1> QED
  BY <1>3, <1>4

SessionTyped ==
  /\ stored \in Watch!Tokens \cup {None} /\ token \in Watch!Tokens \cup {None}
  /\ user \in Users \cup {None} /\ loading \in BOOLEAN /\ mixed \in BOOLEAN
  /\ checks \in [Watch!Tokens -> 0..MaxChecks]

LEMMA SyncAuthTyped ==
  ASSUME SessionTyped, NEW t \in Watch!Tokens \cup {None}, NEW c \in [Watch!Tokens -> 0..MaxChecks],
         t # None => c[t] < MaxChecks, Watch!SyncAuth(t, c), stored' = t
  PROVE  SessionTyped'
<1>1. token' = t /\ loading' = (t # None) /\ mixed' = Watch!Waiting(c)
      /\ (t = None => user' = None /\ checks' = c)
      /\ (t # None => user' = user /\ checks' = [c EXCEPT ![t] = @ + 1])
  BY DEF Watch!SyncAuth
<1>2. t # None => c[t] + 1 \in 0..MaxChecks
  BY UsersAssumption
<1>3. checks' \in [Watch!Tokens -> 0..MaxChecks]
  BY <1>1, <1>2
<1> QED
  BY <1>1, <1>3 DEF SessionTyped, Watch!Waiting

LEMMA SessionStaysTyped ==
  ASSUME SessionTyped,
         \/ \E u \in Users : Watch!SignIn(u)
         \/ Watch!SignOut \/ Watch!OtherTab \/ Watch!Reload
         \/ \E t \in Watch!Tokens : Watch!CheckSucceeds(t) \/ Watch!CheckFails(t)
  PROVE  SessionTyped'
<1>1. ASSUME NEW u \in Users, Watch!SignIn(u) PROVE SessionTyped'
  BY <1>1, WatchTokens, SyncAuthTyped DEF Watch!SignIn, SessionTyped
<1>2. CASE Watch!SignOut
  BY <1>2, SyncAuthTyped DEF Watch!SignOut, SessionTyped
<1>3. CASE Watch!OtherTab
  BY <1>3 DEF Watch!OtherTab, SessionTyped
<1>4. CASE Watch!Reload
  <2>1. Watch!NoChecks \in [Watch!Tokens -> 0..MaxChecks] /\ \A t \in Watch!Tokens : Watch!NoChecks[t] < MaxChecks
    BY UsersAssumption DEF Watch!NoChecks
  <2>2. Watch!SyncAuth(stored, Watch!NoChecks) /\ stored' = stored /\ stored \in Watch!Tokens \cup {None}
    BY <1>4 DEF Watch!Reload, SessionTyped
  <2> QED
    BY <2>1, <2>2, SyncAuthTyped
<1>5. ASSUME NEW t \in Watch!Tokens, Watch!CheckSucceeds(t) \/ Watch!CheckFails(t) PROVE SessionTyped'
  <2>1. checks[t] > 0
    BY <1>5 DEF Watch!CheckSucceeds, Watch!CheckFails
  <2>2. checks[t] - 1 \in 0..MaxChecks
    BY <2>1, UsersAssumption DEF SessionTyped
  <2>3. Watch!Answered(t) \in [Watch!Tokens -> 0..MaxChecks]
    BY <2>2 DEF Watch!Answered, SessionTyped
  <2>4. CASE Watch!CheckSucceeds(t)
    BY <2>3, <2>4, WatchTokens DEF Watch!CheckSucceeds, SessionTyped
  <2>5. CASE Watch!CheckFails(t)
    BY <2>3, <2>5, SyncAuthTyped DEF Watch!CheckFails
  <2> QED
    BY <1>5, <2>4, <2>5
<1> QED
  BY <1>1, <1>2, <1>3, <1>4, <1>5

\* What a wish that a step does not undo may rely on afterwards.
LEMMA NotExcused ==
  ASSUME NEW u \in Users, NEW s \in Symbols, ~Watch!Excused(u, s)
  PROVE  /\ Alone(u)'
         /\ \A f \in fetches', w \in writes' :
              Watch!Owner(f.token) = u /\ Watch!Owner(w.token) = u => s \notin w.symbols
BY DEF Watch!Excused, Alone

\* The page's key changes, or the page opens.
LEMMA RenderSafe ==
  ASSUME WatchInv, NEW was, NEW o \in BOOLEAN, Watch!Render(was, o), Watch!Keep, UNCHANGED <<remote, legacy>>,
         open' \in BOOLEAN, SessionTyped'
  PROVE  WatchInv'
<1>1. WatchTypes /\ stored' \in Watch!Tokens \cup {None} /\ token' \in Watch!Tokens \cup {None}
  BY DEF WatchInv, SessionTyped
<1>2. \/ seen' \in {seen, None} /\ UNCHANGED <<lists, cut, data, writes, fetches>>
      \/ token' \in Watch!Tokens /\ seen' = data'[token'] /\ \E next \in Watch!Listable : Goes(next)
  BY <1>1, RenderGives
<1>3. /\ wish' = [u \in Users |-> [s \in Symbols |-> IF Watch!Excused(u, s) THEN "none" ELSE wish[u][s]]]
      /\ meant' = meant
  BY DEF Watch!Keep
<1>4. wish' \in [Users -> [Symbols -> {"none", "in", "out"}]]
  BY <1>1, <1>3 DEF WatchTypes
<1>5. CASE seen' \in {seen, None} /\ UNCHANGED <<lists, cut, data, writes, fetches>>
  <2>1. WatchTypes'
    BY <1>1, <1>3, <1>4, <1>5 DEF WatchTypes, SessionTyped
  <2>2. ASSUME NEW u \in Users, NEW s \in Symbols PROVE WishSafe(u, s)'
    <3>1. CASE Watch!Excused(u, s)
      BY <1>3, <3>1 DEF WishSafe
    <3>2. CASE ~Watch!Excused(u, s)
      <4>1. wish'[u][s] = wish[u][s] /\ Alone(u)' /\ WishSafe(u, s)
        BY <1>3, <3>2, NotExcused DEF WatchInv
      <4> QED
        BY <1>5, <4>1 DEF WishSafe, InSafe, OutSafe, Here, Watch!Recalled, Everyone, Watch!Underway
    <3> QED
      BY <3>1, <3>2
  <2> QED
    BY <2>1, <2>2 DEF WatchInv
<1>6. ASSUME token' \in Watch!Tokens, seen' = data'[token'], NEW next \in Watch!Listable, Goes(next) PROVE WatchInv'
  <2>0. Here' = Watch!Recalled(next) /\ lists' \in [Users \cup {"everyone"} -> Watch!Listable]
    BY <1>1, <1>6 DEF WatchTypes, Here, Everyone, Goes, Watch!Recalled
  <2>1. WatchTypes'
    BY <1>1, <1>3, <1>4, <1>6, <2>0 DEF WatchTypes, SessionTyped, Goes
  <2>2. ASSUME NEW u \in Users, NEW s \in Symbols PROVE WishSafe(u, s)'
    <3>1. CASE Watch!Excused(u, s)
      BY <1>3, <3>1 DEF WishSafe
    <3>2. CASE ~Watch!Excused(u, s)
      <4>1. /\ wish'[u][s] = wish[u][s] /\ Alone(u)' /\ WishSafe(u, s)
            /\ \A f \in fetches', w \in writes' :
                 Watch!Owner(f.token) = u /\ Watch!Owner(w.token) = u => s \notin w.symbols
        BY <1>3, <3>2, NotExcused DEF WatchInv
      <4>2. token' = Watch!TokenOf(u)
        BY <1>6, <4>1, WatchTokens DEF Alone
      <4>3. InSafe(u, s) => InSafe(u, s)'
        BY <1>6, <2>0 DEF InSafe, Watch!Underway, Goes
      <4>4. ASSUME OutSafe(u, s) PROVE OutSafe(u, s)'
        <5>1. ~Found(s)
          BY <4>2, <4>4 DEF OutSafe, Found
        <5>2. \A f \in fetches' : f \in fetches \/ f.answer = None
          BY <1>6 DEF Goes
        <5>3. data'[token'] = None \/ s \notin data'[token']
          BY <1>6, <4>2, <4>4, <5>1 DEF OutSafe, Goes
        <5>4. ~Watch!Underway(u, s, {"upsert", "batch"})'
          BY <1>6, <4>4, <5>1 DEF OutSafe, Watch!Underway, Goes
        <5>5. s \notin remote'[u] \/ Watch!Underway(u, s, {"delete"})'
          BY <1>6, <4>4 DEF OutSafe, Watch!Underway, Goes
        <5>6. \A f \in fetches' : Watch!Owner(f.token) = u =>
                /\ f.answer = None \/ s \notin f.answer
                /\ ~Watch!Underway(u, s, {"delete"})'
          BY <4>1, <4>4, <5>2 DEF OutSafe, Watch!Underway
        <5>7. s \notin Here'
          BY <1>6, <2>0, <5>1 DEF Goes
        <5> QED
          BY <1>6, <4>2, <5>3, <5>4, <5>5, <5>6, <5>7 DEF OutSafe
      <4> QED
        BY <4>1, <4>3, <4>4 DEF WishSafe
    <3> QED
      BY <3>1, <3>2
  <2> QED
    BY <2>1, <2>2 DEF WatchInv
<1> QED
  BY <1>2, <1>5, <1>6

\* After a step that keeps the wishes, or drops some: each is gone, or has
\* nothing that excuses it.
Stands(u, s) ==
  \/ wish'[u][s] = "none"
  \/ /\ wish'[u][s] = wish[u][s] /\ Alone(u)'
     /\ \A f \in fetches', w \in writes' :
          Watch!Owner(f.token) = u /\ Watch!Owner(w.token) = u => s \notin w.symbols

LEMMA KeepStands ==
  ASSUME WatchTypes, Watch!Keep
  PROVE  /\ wish' \in [Users -> [Symbols -> {"none", "in", "out"}]] /\ meant' = meant
         /\ \A u \in Users, s \in Symbols : Stands(u, s)
<1>1. /\ wish' = [u \in Users |-> [s \in Symbols |-> IF Watch!Excused(u, s) THEN "none" ELSE wish[u][s]]]
      /\ meant' = meant
  BY DEF Watch!Keep
<1>2. wish' \in [Users -> [Symbols -> {"none", "in", "out"}]]
  BY <1>1 DEF WatchTypes
<1>3. ASSUME NEW u \in Users, NEW s \in Symbols PROVE Stands(u, s)
  BY <1>1, NotExcused DEF Stands
<1> QED
  BY <1>1, <1>2, <1>3

LEMMA DropStands ==
  ASSUME WatchTypes, NEW v \in Users, NEW symbols, Watch!Drop(v, symbols)
  PROVE  /\ wish' \in [Users -> [Symbols -> {"none", "in", "out"}]]
         /\ \A u \in Users, s \in Symbols : Stands(u, s)
         /\ \A s \in Symbols : s \in symbols => wish'[v][s] = "none"
<1>1. wish' = [u \in Users |-> [s \in Symbols |->
                 IF (u = v /\ s \in symbols) \/ Watch!Excused(u, s) THEN "none" ELSE wish[u][s]]]
  BY DEF Watch!Drop
<1>2. wish' \in [Users -> [Symbols -> {"none", "in", "out"}]]
  BY <1>1 DEF WatchTypes
<1>3. ASSUME NEW u \in Users, NEW s \in Symbols PROVE Stands(u, s)
  BY <1>1, NotExcused DEF Stands
<1> QED
  BY <1>1, <1>2, <1>3

LEMMA SessionAsItWas == ASSUME WatchTypes, UNCHANGED Watch!session PROVE SessionTyped'
BY DEF WatchTypes, Watch!session, SessionTyped

LEMMA PagesSafe ==
  ASSUME WatchInv, Watch!SessionStep \/ Watch!OpenStats, UNCHANGED legacy PROVE WatchInv'
<1>1. CASE Watch!SessionStep
  <2>1. SessionTyped
    BY DEF WatchInv, WatchTypes, SessionTyped
  <2>2. SessionTyped'
    BY <1>1, <2>1, SessionStaysTyped DEF Watch!SessionStep
  <2>3. open \in BOOLEAN /\ open' = open /\ UNCHANGED remote
    BY <1>1 DEF WatchInv, WatchTypes, Watch!SessionStep
  <2> QED
    BY <1>1, <2>2, <2>3, RenderSafe DEF Watch!SessionStep
<1>2. CASE Watch!OpenStats
  <2>1. SessionTyped'
    BY <1>2, SessionAsItWas DEF Watch!OpenStats, WatchInv
  <2> QED
    BY <1>2, <2>1, RenderSafe DEF Watch!OpenStats
<1> QED
  BY <1>1, <1>2

LEMMA LeavesSafe ==
  ASSUME WatchInv, Watch!CloseStats \/ Watch!ReloadPage, UNCHANGED legacy PROVE WatchInv'
<1>1. SessionTyped /\ WatchTypes
  BY DEF WatchInv, WatchTypes, SessionTyped
<1>2. SessionTyped'
  BY <1>1, SessionAsItWas, SessionStaysTyped DEF Watch!CloseStats, Watch!ReloadPage
<1>3. /\ wish' \in [Users -> [Symbols -> {"none", "in", "out"}]] /\ meant' = meant
      /\ \A u \in Users, s \in Symbols : Stands(u, s)
  BY <1>1, KeepStands DEF Watch!CloseStats, Watch!ReloadPage
<1>4. /\ open' = FALSE /\ seen' = None /\ UNCHANGED <<lists, cut, remote, writes>>
      /\ fetches' \subseteq fetches
      /\ data' = data \/ data' = [t \in Watch!Tokens |-> None]
  BY DEF Watch!CloseStats, Watch!ReloadPage
<1>5. WatchTypes'
  BY <1>1, <1>2, <1>3, <1>4 DEF WatchTypes, SessionTyped
<1>6. ASSUME NEW u \in Users, NEW s \in Symbols PROVE WishSafe(u, s)'
  <2>1. WishSafe(u, s) /\ Stands(u, s) /\ Watch!TokenOf(u) \in Watch!Tokens
    BY <1>3, WatchTokens DEF WatchInv
  <2>2. InSafe(u, s) => InSafe(u, s)'
    BY <1>4 DEF InSafe, Here, Watch!Recalled, Everyone, Watch!Underway
  <2>3. OutSafe(u, s) => OutSafe(u, s)'
    BY <1>4, <2>1 DEF OutSafe, Here, Watch!Recalled, Everyone, Watch!Underway
  <2> QED
    BY <2>1, <2>2, <2>3 DEF WishSafe, Stands
<1> QED
  BY <1>5, <1>6 DEF WatchInv

-----------------------------------------------------------------------------
(* The user's handlers *)

\* What Edit makes of the page when the handler leaves the list `next', with c
\* counted as cut: if that is empty, the legacy list comes back.
EditGives(next, c, op, symbols) ==
  LET read == Watch!Recalled(next)
  IN /\ lists' \in [Users \cup {"everyone"} -> Watch!Listable] /\ cut' \in Lists
     /\ Here' \subseteq read /\ read \cup c \subseteq Here' \cup cut'
     /\ \A t \in Watch!Tokens :
          data'[t] = data[t] \/ (data'[t] # None /\ data'[t] \subseteq read /\ t = Watch!CurrentKey)
     /\ data' \in [Watch!Tokens -> Lists \cup {None}]
     /\ Watch!CurrentKey # None => /\ seen' \in Lists /\ seen' \subseteq read
                                   /\ data'[Watch!CurrentKey] = seen'
     /\ Watch!CurrentKey = None => seen' = seen
     /\ writes \subseteq writes' /\ writes' \subseteq WatchWrites
     /\ \A w \in writes' \ writes : w.token = token /\
          \/ w.op = op /\ \E s \in symbols : w.symbols = {s}
          \/ w.op = "batch" /\ w.symbols \subseteq read
     /\ token # None => \A s \in symbols : \E w \in writes' : w.op = op /\ w.token = token /\ w.symbols = {s}
     /\ UNCHANGED <<stored, token, user, loading, checks, mixed, open, remote, fetches>>

LEMMA WithWrites ==
  ASSUME NEW l, NEW c, NEW d, NEW w, NEW more
  PROVE  [[local |-> l, cut |-> c, data |-> d, writes |-> w] EXCEPT !.writes = @ \cup more] =
           [local |-> l, cut |-> c, data |-> d, writes |-> w \cup more]
OBVIOUS

LEMMA Edited ==
  ASSUME WatchTypes, UNCHANGED legacy, NEW next \in Watch!Listable, NEW c \in Lists,
         NEW op \in {"upsert", "delete"}, NEW symbols \in Lists,
         Watch!Edit([local |-> next, cut |-> c, data |-> data, writes |-> writes], op, symbols)
  PROVE  EditGives(next, c, op, symbols)
<1> DEFINE new == {Watch!Write(op, token, {s}) : s \in symbols}
           added == IF token = None THEN {} ELSE new
           key == Watch!CurrentKey
           ws == writes \cup added
           dt == [data EXCEPT ![key] = next]
           read == Watch!Recalled(next)
<1>1. UNCHANGED <<stored, token, user, loading, checks, mixed, open, remote, fetches>>
  BY DEF Watch!Edit, Watch!session
<1>2. Watch!ListKey(stored') = "everyone"
  BY <1>1, ListIsShared DEF WatchTypes
<1>3. \/ /\ key = None /\ lists' = [lists EXCEPT !["everyone"] = next] /\ cut' = c
         /\ data' = data /\ writes' = ws /\ seen' = seen
      \/ key # None /\ \E q \in Watch!Merge([local |-> next, cut |-> c, data |-> dt, writes |-> ws], key, next) :
           /\ lists' = [lists EXCEPT !["everyone"] = q.local] /\ cut' = q.cut
           /\ data' = q.data /\ writes' = q.writes /\ seen' = q.data[key]
  <2> DEFINE p == [local |-> next, cut |-> c, data |-> data, writes |-> writes]
             sent == [p EXCEPT !.writes = @ \cup added]
  <2>1. sent = [local |-> next, cut |-> c, data |-> data, writes |-> ws]
    <3> HIDE DEF added
    <3> QED
      BY WithWrites
  <2>2. [sent EXCEPT !.data[key] = next] = [local |-> next, cut |-> c, data |-> dt, writes |-> ws]
    <3> HIDE DEF sent, ws
    <3> QED
      BY <2>1
  <2>3. p.local = next
    OBVIOUS
  <2>4. IF key = None THEN Watch!Finish(sent) /\ UNCHANGED seen
        ELSE \E q \in Watch!Merge([sent EXCEPT !.data[key] = next], key, next) :
               Watch!Finish(q) /\ seen' = q.data[key]
    BY <2>3 DEF Watch!Edit
  <2> HIDE DEF sent, ws, dt, key
  <2> QED
    BY <1>2, <2>1, <2>2, <2>4 DEF Watch!Finish, Watch!Store
<1>4. key = None \/ (key = token /\ key \in Watch!Tokens)
  BY DEF Watch!CurrentKey, Watch!Key, WatchTypes
<1>5. token # None => new \subseteq WatchWrites
  <2> SUFFICES ASSUME token # None, NEW s \in symbols PROVE Watch!Write(op, token, {s}) \in WatchWrites
    OBVIOUS
  <2>1. {s} \in Lists /\ token \in Watch!Tokens
    BY DEF Lists, WatchTypes
  <2> QED
    BY <2>1 DEF Watch!Write, WatchWrites
<1>6. \A w \in new : w.op = op /\ w.token = token /\ \E s \in symbols : w.symbols = {s}
  BY DEF Watch!Write
<1>7. \A s \in symbols : \E w \in new : w.op = op /\ w.token = token /\ w.symbols = {s}
  <2> TAKE s \in symbols
  <2>1. Watch!Write(op, token, {s}) \in new
    OBVIOUS
  <2> WITNESS Watch!Write(op, token, {s}) \in new
  <2> QED
    BY DEF Watch!Write
<1> HIDE DEF new, key
<1>8. /\ writes \subseteq ws /\ ws \subseteq WatchWrites
      /\ \A w \in ws \ writes : w.op = op /\ w.token = token /\ \E s \in symbols : w.symbols = {s}
      /\ token # None => \A s \in symbols : \E w \in ws : w.op = op /\ w.token = token /\ w.symbols = {s}
  BY <1>5, <1>6, <1>7 DEF WatchTypes
<1> HIDE DEF ws
<1>9. next \in Lists /\ next # None /\ read \in Lists /\ next \subseteq read /\ legacy \in Watch!Listable
  BY RecalledGives, NoneAssumption DEF WatchTypes, Watch!Listable, Lists
<1>10. ASSUME NEW after \in Watch!Listable, lists' = [lists EXCEPT !["everyone"] = after]
       PROVE  Here' = Watch!Recalled(after) /\ lists' \in [Users \cup {"everyone"} -> Watch!Listable]
  BY <1>10 DEF WatchTypes, Here, Everyone, Watch!Recalled
<1>11. CASE key = None
  <2>1. /\ lists' = [lists EXCEPT !["everyone"] = next] /\ cut' = c
        /\ data' = data /\ writes' = ws /\ seen' = seen
    BY <1>3, <1>11
  <2>2. Here' = read /\ lists' \in [Users \cup {"everyone"} -> Watch!Listable]
    BY <1>10, <2>1
  <2>3. data' \in [Watch!Tokens -> Lists \cup {None}] /\ \A t \in Watch!Tokens : data'[t] = data[t]
    BY <2>1 DEF WatchTypes
  <2> HIDE DEF read
  <2> QED
    BY <1>1, <1>8, <1>11, <2>1, <2>2, <2>3 DEF EditGives, key, read
<1>12. CASE key # None
  <2>1. PICK q \in Watch!Merge([local |-> next, cut |-> c, data |-> dt, writes |-> ws], key, next) :
           /\ lists' = [lists EXCEPT !["everyone"] = q.local] /\ cut' = q.cut
           /\ data' = q.data /\ writes' = q.writes /\ seen' = q.data[key]
    BY <1>3, <1>12
  <2>2. key = token /\ key \in Watch!Tokens
    BY <1>4, <1>12
  <2>3. dt \in [Watch!Tokens -> Lists \cup {None}] /\ dt[key] = next
        /\ \A t \in Watch!Tokens \ {key} : dt[t] = data[t]
    BY <1>9, <2>2 DEF WatchTypes
  <2> HIDE DEF dt
  <2>4. Merged(q, next, c, dt, ws, key, next)
    BY <1>8, <1>9, <2>1, <2>2, <2>3, MergeGives
  <2>5. next \cup read = read
    BY <1>9
  <2>6. /\ q.local \in Watch!Listable /\ Watch!Recalled(q.local) \subseteq read
        /\ q.cut \in Lists /\ read \cup c \subseteq Watch!Recalled(q.local) \cup q.cut
        /\ q.data \in [Watch!Tokens -> Lists \cup {None}]
        /\ q.data = dt \/ q.data = [dt EXCEPT ![key] = q.local]
        /\ q.writes = ws \/ q.writes = ws \cup {[op |-> "batch", token |-> key, symbols |-> read]}
        /\ q.writes \subseteq WatchWrites
    BY <1>9, <2>4, <2>5 DEF Merged
  <2>7. q.local \in Lists /\ q.local # None /\ q.local \subseteq read
    BY <1>9, <2>6, RecalledGives, NoneAssumption DEF Watch!Listable, Lists
  <2>8. q.data[key] \in {next, q.local} /\ \A t \in Watch!Tokens \ {key} : q.data[t] = data[t]
    BY <2>2, <2>3, <2>6
  <2>9. seen' \in Lists /\ seen' # None /\ seen' \subseteq read /\ data'[key] = seen'
    BY <1>9, <2>1, <2>7, <2>8
  <2>10. Here' = Watch!Recalled(q.local) /\ lists' \in [Users \cup {"everyone"} -> Watch!Listable]
    BY <1>10, <2>1, <2>6
  <2> HIDE DEF read
  <2>11. \A w \in q.writes \ writes : w.token = token /\
           \/ w.op = op /\ \E s \in symbols : w.symbols = {s}
           \/ w.op = "batch" /\ w.symbols \subseteq read
    BY <1>8, <2>2, <2>6
  <2>12. writes \subseteq q.writes
         /\ (token # None => \A s \in symbols : \E w \in q.writes : w.op = op /\ w.token = token /\ w.symbols = {s})
    BY <1>8, <2>6
  <2> QED
    BY <1>1, <1>12, <2>1, <2>6, <2>8, <2>9, <2>10, <2>11, <2>12 DEF EditGives, key, read
<1> QED
  BY <1>11, <1>12

\* The symbol that a wish is about, on the page of a user.
LEMMA WishSets ==
  ASSUME WatchTypes, NEW symbols, NEW what \in {"in", "out"}
  PROVE  /\ Watch!Wished(symbols, what) \in [Users -> [Symbols -> {"none", "in", "out"}]]
         /\ \A u \in Users, s \in Symbols :
              LET wished == Watch!Wished(symbols, what)[u][s]
              IN /\ s \notin symbols => wished = wish[u][s]
                 /\ s \in symbols /\ wished # "none" =>
                      /\ wished = what /\ ~Watch!Busy(u, s)
                      /\ Watch!CurrentKey = Watch!TokenOf(u)
                      /\ token = Watch!TokenOf(u) /\ stored = token
<1>1. Watch!Wished(symbols, what) = [u \in Users |-> [s \in Symbols |->
                 IF s \notin symbols THEN wish[u][s]
                 ELSE IF Watch!CurrentKey = Watch!TokenOf(u) /\ stored = token /\ ~Watch!Busy(u, s)
                      THEN what ELSE "none"]]
  BY DEF Watch!Wished
<1>2. Watch!Wished(symbols, what) \in [Users -> [Symbols -> {"none", "in", "out"}]]
  BY <1>1 DEF WatchTypes
<1>3. \A u \in Users : Watch!CurrentKey = Watch!TokenOf(u) => token = Watch!TokenOf(u)
  BY WatchTokens DEF Watch!CurrentKey, Watch!Key
<1> QED
  BY <1>1, <1>2, <1>3

LEMMA MeantStays ==
  ASSUME WatchTypes, NEW t, NEW symbols \in Lists, Watch!Means(t, symbols)
  PROVE  meant' \in [Users -> Lists]
BY DEF WatchTypes, Watch!Means, Lists

LEMMA LocalIsHere == ASSUME WatchTypes PROVE Watch!Local = Here
BY ListIsShared DEF WatchTypes, Watch!Local, Here, Everyone

LEMMA PageIs ==
  ASSUME WatchTypes
  PROVE  Watch!Page = [local |-> Everyone, cut |-> cut, data |-> data, writes |-> writes]
BY ListIsShared DEF WatchTypes, Watch!Page, Everyone

\* What a handler stores of a list on which it puts some symbols first.
LEMMA ListingGives ==
  ASSUME WatchTypes, NEW first \in Lists, NEW next \in Watch!Kept(first, Here), NEW symbols \in Lists
  PROVE  LET c == (cut \cup symbols) \ next
         IN /\ Watch!Listing(Watch!Page, next, symbols) =
                 [local |-> next, cut |-> c, data |-> data, writes |-> writes]
            /\ next \in Watch!Listable /\ c \in Lists
            /\ next \subseteq first \cup Here /\ (first # {} => next # {} /\ Watch!Recalled(next) = next)
            /\ next \subseteq first \/ first \subseteq next
<1>1. Here \in Lists /\ cut \in Lists
  BY RecalledGives DEF WatchTypes, Here, Everyone, Watch!Listable, Lists
<1>2. /\ next \in Watch!Listable /\ next \subseteq first \cup Here /\ (next = {} => first \cup Here = {})
      /\ next \subseteq first \/ first \subseteq next
  BY <1>1, KeptGives
<1>3. Watch!Listing(Watch!Page, next, symbols) =
        [local |-> next, cut |-> (cut \cup symbols) \ next, data |-> data, writes |-> writes]
  <2> DEFINE p == Watch!Page
  <2>1. p = [local |-> Everyone, cut |-> cut, data |-> data, writes |-> writes]
    BY PageIs
  <2>2. Watch!Listing(p, next, symbols) = [p EXCEPT !.local = next, !.cut = (@ \cup symbols) \ next]
    BY DEF Watch!Listing
  <2> HIDE DEF p
  <2> QED
    BY <2>1, <2>2 DEF p
<1>4. first # {} => next # {} /\ Watch!Recalled(next) = next
  BY <1>2 DEF Watch!Recalled
<1>5. (cut \cup symbols) \ next \in Lists
  BY <1>1 DEF Lists
<1> QED
  BY <1>2, <1>3, <1>4, <1>5

LEMMA AddSafe ==
  ASSUME WatchInv, NEW x \in Symbols, Watch!Add(x), UNCHANGED legacy PROVE WatchInv'
<1>1. WatchTypes /\ Watch!Local = Here /\ {x} \in Lists
  BY LocalIsHere DEF WatchInv, Lists
<1>2. PICK next \in Watch!Kept({x}, Here) :
        Watch!Edit(Watch!Listing(Watch!Page, next, Here), "upsert", {x})
  BY <1>1 DEF Watch!Add
<1> DEFINE c == (cut \cup Here) \ next
<1>3. /\ next \in Watch!Listable /\ c \in Lists /\ next \subseteq {x} \cup Here
      /\ next # {} /\ Watch!Recalled(next) = next /\ (next \subseteq {x} \/ x \in next)
      /\ Watch!Listing(Watch!Page, next, Here) =
           [local |-> next, cut |-> c, data |-> data, writes |-> writes]
  <2>1. Here \in Lists
    BY <1>1, RecalledGives DEF WatchTypes, Here, Everyone, Watch!Listable, Lists
  <2> QED
    BY <1>1, <2>1, ListingGives
<1>4. x \in next
  BY <1>3
<1>5. EditGives(next, c, "upsert", {x})
  BY <1>1, <1>2, <1>3, Edited
<1>6. Here' \subseteq next /\ next \cup c \subseteq Here' \cup cut'
  BY <1>3, <1>5 DEF EditGives
<1>7. /\ wish' \in [Users -> [Symbols -> {"none", "in", "out"}]]
      /\ \A u \in Users, s \in Symbols :
           /\ s \notin {x} => wish'[u][s] = wish[u][s]
           /\ s \in {x} /\ wish'[u][s] # "none" =>
                /\ wish'[u][s] = "in" /\ ~Watch!Busy(u, s)
                /\ Watch!CurrentKey = Watch!TokenOf(u)
                /\ token = Watch!TokenOf(u) /\ stored = token
  BY <1>1, WishSets DEF Watch!Add
<1>8. meant' \in [Users -> Lists]
  BY <1>1, MeantStays DEF Watch!Add
<1>9. seen' \in Lists \cup {None}
  BY <1>1, <1>5 DEF EditGives, WatchTypes
<1>10. WatchTypes'
  BY <1>1, <1>5, <1>7, <1>8, <1>9 DEF EditGives, WatchTypes
<1>11. ASSUME NEW u \in Users, NEW s \in Symbols PROVE WishSafe(u, s)'
  <2>1. WishSafe(u, s) /\ Watch!TokenOf(u) \in Watch!Tokens /\ Watch!Owner(Watch!TokenOf(u)) = u
    BY WatchTokens DEF WatchInv
  <2>2. s \in Here \cup cut => s \in Here' \cup cut'
    BY <1>6
  <2> HIDE DEF c
  <2>3. CASE s # x
    <3>1. wish'[u][s] = wish[u][s] /\ (Alone(u) => Alone(u)')
      BY <1>5, <1>7, <2>3 DEF EditGives, Alone
    <3>2. InSafe(u, s) => InSafe(u, s)'
      BY <1>5, <2>2 DEF EditGives, InSafe, Watch!Underway
    <3>3. ASSUME OutSafe(u, s) PROVE OutSafe(u, s)'
      <4>1. s \notin Watch!Recalled(next) /\ s \notin Here'
        BY <1>3, <1>6, <2>3, <3>3 DEF OutSafe
      <4>2. ~Watch!Underway(u, s, {"upsert", "batch"})'
        BY <1>5, <2>3, <3>3, <4>1 DEF EditGives, OutSafe, Watch!Underway
      <4>3. Watch!Underway(u, s, {"delete"})' <=> Watch!Underway(u, s, {"delete"})
        BY <1>5 DEF EditGives, Watch!Underway
      <4>4. data'[Watch!TokenOf(u)] = None \/ s \notin data'[Watch!TokenOf(u)]
        BY <1>5, <2>1, <3>3, <4>1 DEF EditGives, OutSafe
      <4>5. seen' = None \/ s \notin seen'
        BY <1>5, <3>3, <4>1 DEF EditGives, OutSafe
      <4> QED
        BY <1>5, <3>3, <4>1, <4>2, <4>3, <4>4, <4>5 DEF EditGives, OutSafe
    <3> QED
      BY <2>1, <3>1, <3>2, <3>3 DEF WishSafe
  <2>4. CASE s = x /\ wish'[u][s] # "none"
    <3>1. /\ wish'[u][s] = "in" /\ ~Watch!Busy(u, s) /\ token = Watch!TokenOf(u) /\ stored = token
      BY <1>7, <2>4
    <3>2. Alone(u)' /\ token # None
      BY <1>5, <2>1, <3>1, WatchTokens DEF EditGives, Alone
    <3>3. \E w \in writes' : w.op = "upsert" /\ w.token = token /\ w.symbols = {x}
      BY <1>5, <3>2 DEF EditGives
    <3>4. Watch!Underway(u, s, {"upsert", "batch"})'
      BY <2>1, <2>4, <3>1, <3>3 DEF Watch!Underway
    <3>5. ~Watch!Underway(u, s, {"delete"})'
      BY <1>5, <3>1 DEF EditGives, Watch!Underway, Watch!Busy
    <3>6. s \in Here' \cup cut'
      BY <1>4, <1>6, <2>4
    <3> QED
      BY <3>1, <3>2, <3>4, <3>5, <3>6 DEF WishSafe, InSafe
  <2>5. CASE s = x /\ wish'[u][s] = "none"
    BY <2>5 DEF WishSafe
  <2> QED
    BY <2>3, <2>4, <2>5
<1> QED
  BY <1>10, <1>11 DEF WatchInv

LEMMA RemoveSafe ==
  ASSUME WatchInv, NEW symbols \in SUBSET Symbols, Watch!Remove(symbols), UNCHANGED legacy PROVE WatchInv'
<1>1. WatchTypes /\ Watch!Local = Here /\ symbols \in Lists /\ cut \in Lists
  BY LocalIsHere DEF WatchInv, WatchTypes, Lists
<1> DEFINE next == Here \ symbols
           read == Watch!Recalled(next)
<1>2. next \in Watch!Listable
  <2>1. Here \in Watch!Listable
    BY <1>1 DEF WatchTypes, Here, Everyone, Watch!Recalled
  <2>2. IsFiniteSet(Here) /\ Cardinality(Here) <= MaxTargets
    BY <2>1, FS_Subset, TargetsAssumption, SizesAgree DEF Watch!Listable
  <2>3. next \subseteq Here
    OBVIOUS
  <2>4. Cardinality(next) <= Cardinality(Here) /\ Cardinality(next) \in Nat /\ Cardinality(Here) \in Nat
    BY <2>2, <2>3, FS_Subset, FS_CardinalityType
  <2> HIDE DEF next
  <2> QED
    BY <2>1, <2>2, <2>3, <2>4, TargetsAssumption, SizesAgree DEF Watch!Listable
<1>3. EditGives(next, cut, "delete", symbols)
  <2>1. Watch!Edit([local |-> next, cut |-> cut, data |-> data, writes |-> writes], "delete", symbols)
    <3>1. [Watch!Page EXCEPT !.local = next] = [local |-> next, cut |-> cut, data |-> data, writes |-> writes]
      <4> HIDE DEF next
      <4> QED
        BY <1>1, PageIs
    <3> QED
      BY <1>1, <3>1 DEF Watch!Remove
  <2> HIDE DEF next
  <2> QED
    BY <1>1, <1>2, <2>1, Edited
<1>4. Here' \subseteq read /\ read \cup cut \subseteq Here' \cup cut' /\ next \subseteq read
  BY <1>3 DEF EditGives, Watch!Recalled
<1> DEFINE W == Watch!Wished(symbols, "out")
<1>5. /\ W \in [Users -> [Symbols -> {"none", "in", "out"}]]
      /\ \A u \in Users, s \in Symbols :
           /\ s \notin symbols => W[u][s] = wish[u][s]
           /\ s \in symbols /\ W[u][s] # "none" =>
                /\ W[u][s] = "out" /\ ~Watch!Busy(u, s)
                /\ Watch!CurrentKey = Watch!TokenOf(u)
                /\ token = Watch!TokenOf(u) /\ stored = token
  <2> HIDE DEF W
  <2>1. W = Watch!Wished(symbols, "out")
    BY DEF W
  <2> QED
    BY <1>1, <2>1, WishSets
<1>6. wish' = [u \in Users |-> [s \in Symbols |->
                 IF s \in legacy /\ next = {} /\ W[u][s] = "out" THEN "none" ELSE W[u][s]]]
  BY <1>1 DEF Watch!Remove
<1> HIDE DEF W
<1>7. wish' \in [Users -> [Symbols -> {"none", "in", "out"}]]
  BY <1>5, <1>6
<1>8. ASSUME NEW u \in Users, NEW s \in Symbols, wish'[u][s] # "none"
      PROVE  wish'[u][s] = W[u][s] /\ (wish'[u][s] = "out" /\ s \notin next => s \notin read)
  BY <1>6, <1>8 DEF Watch!Recalled
<1>9. meant' = meant
  BY DEF Watch!Remove
<1>10. seen' \in Lists \cup {None}
  BY <1>1, <1>3 DEF EditGives, WatchTypes
<1>11. WatchTypes'
  BY <1>1, <1>3, <1>7, <1>9, <1>10 DEF EditGives, WatchTypes
<1>12. ASSUME NEW u \in Users, NEW s \in Symbols, wish'[u][s] # "none" PROVE WishSafe(u, s)'
  <2>1. WishSafe(u, s) /\ Watch!TokenOf(u) \in Watch!Tokens /\ Watch!Owner(Watch!TokenOf(u)) = u
    BY WatchTokens DEF WatchInv
  <2>2. wish'[u][s] = "out" => (s \notin next => s \notin read)
    BY <1>8, <1>12
  <2>3. s \notin symbols => (s \in Here => s \in read)
    BY <1>4
  <2>4. s \in symbols \/ s \notin Here => s \notin next
    OBVIOUS
  <2>5. EditGives(next, cut, "delete", symbols) /\ read = Watch!Recalled(next)
    BY <1>3
  <2> HIDE DEF next, read
  <2>6. CASE s \notin symbols
    <3>1. wish'[u][s] = wish[u][s] /\ (Alone(u) => Alone(u)')
      BY <1>5, <1>8, <1>12, <2>5, <2>6 DEF EditGives, Alone
    <3>2. Watch!Underway(u, s, {"delete"})' <=> Watch!Underway(u, s, {"delete"})
      BY <2>5, <2>6 DEF EditGives, Watch!Underway
    <3>3. InSafe(u, s) => InSafe(u, s)'
      BY <1>4, <2>3, <2>5, <2>6, <3>2 DEF EditGives, InSafe, Watch!Underway
    <3>4. ASSUME OutSafe(u, s), wish'[u][s] = "out" PROVE OutSafe(u, s)'
      <4>1. s \notin read /\ s \notin Here'
        BY <1>4, <2>2, <2>4, <3>4 DEF OutSafe
      <4>2. ~Watch!Underway(u, s, {"upsert", "batch"})'
        BY <2>5, <3>4, <4>1 DEF EditGives, OutSafe, Watch!Underway
      <4>3. data'[Watch!TokenOf(u)] = None \/ s \notin data'[Watch!TokenOf(u)]
        BY <2>1, <2>5, <3>4, <4>1 DEF EditGives, OutSafe
      <4>4. seen' = None \/ s \notin seen'
        BY <2>5, <3>4, <4>1 DEF EditGives, OutSafe
      <4> QED
        BY <2>5, <3>2, <3>4, <4>1, <4>2, <4>3, <4>4 DEF EditGives, OutSafe
    <3> QED
      BY <2>1, <3>1, <3>3, <3>4 DEF WishSafe
  <2>7. CASE s \in symbols
    <3>1. /\ wish'[u][s] = "out" /\ ~Watch!Busy(u, s) /\ Watch!CurrentKey = Watch!TokenOf(u)
          /\ token = Watch!TokenOf(u) /\ stored = token
      BY <1>5, <1>8, <1>12, <2>7
    <3>2. Alone(u)' /\ token # None /\ Watch!CurrentKey # None
      BY <2>1, <2>5, <3>1, WatchTokens DEF EditGives, Alone
    <3>3. \E w \in writes' : w.op = "delete" /\ w.token = token /\ w.symbols = {s}
      BY <2>5, <2>7, <3>2 DEF EditGives
    <3>4. Watch!Underway(u, s, {"delete"})'
      BY <2>1, <3>1, <3>3 DEF Watch!Underway
    <3>5. s \notin read /\ s \notin Here'
      BY <1>4, <2>2, <2>4, <2>7, <3>1
    <3>6. ~Watch!Underway(u, s, {"upsert", "batch"})'
      BY <2>5, <3>1, <3>5 DEF EditGives, Watch!Underway, Watch!Busy
    <3>7. s \notin data'[Watch!TokenOf(u)] /\ s \notin seen'
      BY <2>5, <3>1, <3>2, <3>5 DEF EditGives
    <3>8. \A f \in fetches' : Watch!Owner(f.token) # u
      BY <2>5, <3>1 DEF EditGives, Watch!Busy
    <3> QED
      BY <3>1, <3>2, <3>4, <3>5, <3>6, <3>7, <3>8 DEF WishSafe, OutSafe
  <2> QED
    BY <2>6, <2>7
<1>13. ASSUME NEW u \in Users, NEW s \in Symbols PROVE WishSafe(u, s)'
  BY <1>12 DEF WishSafe
<1> QED
  BY <1>11, <1>13 DEF WatchInv

LEMMA AddPoolSafe ==
  ASSUME WatchInv, NEW symbols \in SUBSET Symbols, Watch!AddPool(symbols), UNCHANGED legacy PROVE WatchInv'
<1> DEFINE first == symbols \ Here
<1>1. WatchTypes /\ Watch!ListKey(stored) = "everyone" /\ Watch!Local = Here /\ symbols \in Lists
      /\ first \in Lists /\ first # {}
  BY ListIsShared, LocalIsHere DEF WatchInv, WatchTypes, Lists, Watch!AddPool
<1>2. PICK next \in Watch!Kept(first, Here) : Watch!Store(Watch!Listing(Watch!Page, next, symbols \cup Here))
  <2>1. \E next \in Watch!Kept(symbols \ Watch!Local, Watch!Local) :
          Watch!Store(Watch!Listing(Watch!Page, next, symbols \cup Watch!Local))
    BY DEF Watch!AddPool
  <2> QED
    BY <1>1, <2>1
<1>3. UNCHANGED <<stored, token, user, loading, checks, mixed, open, remote, data, seen, fetches, writes>>
  BY DEF Watch!AddPool, Watch!session
<1> HIDE DEF first
<1>4. /\ next \in Watch!Listable /\ Watch!Recalled(next) = next /\ next \subseteq first \cup Here
      /\ lists' = [lists EXCEPT !["everyone"] = next]
      /\ cut' = (cut \cup symbols \cup Here) \ next /\ cut' \in Lists
  <2> DEFINE all == symbols \cup Here
             c == (cut \cup all) \ next
  <2>1. all \in Lists
    BY <1>1, RecalledGives DEF WatchTypes, Here, Everyone, Watch!Listable, Lists
  <2>2. /\ Watch!Listing(Watch!Page, next, all) = [local |-> next, cut |-> c, data |-> data, writes |-> writes]
        /\ next \in Watch!Listable /\ c \in Lists
        /\ next \subseteq first \cup Here /\ Watch!Recalled(next) = next
    <3> HIDE DEF all
    <3> QED
      BY <1>1, <2>1, ListingGives
  <2>3. c = (cut \cup symbols \cup Here) \ next
    OBVIOUS
  <2>4. Watch!Store(Watch!Listing(Watch!Page, next, all))
    BY <1>2
  <2> HIDE DEF c, all
  <2>5. lists' = [lists EXCEPT !["everyone"] = next] /\ cut' = c
    BY <1>1, <1>3, <2>2, <2>4 DEF Watch!Store
  <2> QED
    BY <2>2, <2>3, <2>5
<1>5. wish' = [u \in Users |-> [s \in Symbols |->
                 IF s \in symbols /\ wish[u][s] = "out" THEN "none" ELSE wish[u][s]]]
  BY DEF Watch!AddPool
<1>6. wish' \in [Users -> [Symbols -> {"none", "in", "out"}]]
  BY <1>1, <1>5 DEF WatchTypes
<1>7. meant' \in [Users -> Lists]
  BY <1>1, MeantStays DEF Watch!AddPool
<1>8. Here' = next /\ lists' \in [Users \cup {"everyone"} -> Watch!Listable]
  BY <1>1, <1>4 DEF WatchTypes, Here, Everyone, Watch!Recalled
<1>9. WatchTypes'
  BY <1>1, <1>3, <1>4, <1>6, <1>7, <1>8 DEF WatchTypes
<1>10. ASSUME NEW u \in Users, NEW s \in Symbols PROVE WishSafe(u, s)'
  <2>1. WishSafe(u, s) /\ wish'[u][s] = IF s \in symbols /\ wish[u][s] = "out" THEN "none" ELSE wish[u][s]
    BY <1>5 DEF WatchInv
  <2>2. InSafe(u, s) => InSafe(u, s)'
    BY <1>3, <1>4, <1>8 DEF InSafe, Watch!Underway
  <2>3. s \notin symbols /\ OutSafe(u, s) => OutSafe(u, s)'
    BY <1>3, <1>4, <1>8 DEF OutSafe, Watch!Underway, first
  <2> QED
    BY <1>3, <2>1, <2>2, <2>3 DEF WishSafe, Alone
<1> QED
  BY <1>9, <1>10 DEF WatchInv

-----------------------------------------------------------------------------
(* The server *)

LEMMA ReadSafe ==
  ASSUME WatchInv, NEW f \in fetches, Watch!Read(f), UNCHANGED legacy PROVE WatchInv'
<1>1. WatchTypes /\ UNCHANGED Watch!session
  BY DEF WatchInv, Watch!Read
<1>2. SessionTyped'
  BY <1>1, SessionAsItWas
<1>3. /\ wish' \in [Users -> [Symbols -> {"none", "in", "out"}]] /\ meant' = meant
      /\ \A u \in Users, s \in Symbols : Stands(u, s)
  BY <1>1, KeepStands DEF Watch!Read
<1> DEFINE owner == Watch!Owner(f.token)
           answered == [f EXCEPT !.answer = remote[owner]]
<1>4. /\ fetches' = (fetches \ {f}) \cup {answered}
      /\ UNCHANGED <<open, lists, cut, remote, data, seen, writes>>
  BY DEF Watch!Read
<1>5. owner \in Users /\ f \in WatchFetches /\ remote[owner] \in Lists
  BY <1>1, WatchTokens DEF WatchTypes, WatchFetches
<1>6. answered \in WatchFetches /\ answered.token = f.token /\ answered.answer = remote[owner]
  BY <1>5 DEF WatchFetches
<1> HIDE DEF answered
<1>7. WatchTypes'
  BY <1>1, <1>2, <1>3, <1>4, <1>6 DEF WatchTypes, SessionTyped
<1>8. ASSUME NEW u \in Users, NEW s \in Symbols PROVE WishSafe(u, s)'
  <2>1. WishSafe(u, s) /\ Stands(u, s)
    BY <1>3 DEF WatchInv
  <2>2. InSafe(u, s) => InSafe(u, s)'
    BY <1>4 DEF InSafe, Here, Watch!Recalled, Everyone, Watch!Underway
  <2>3. ASSUME OutSafe(u, s), wish'[u][s] # "none" PROVE OutSafe(u, s)'
    <3>1. \A g \in fetches', w \in writes' :
            Watch!Owner(g.token) = u /\ Watch!Owner(w.token) = u => s \notin w.symbols
      BY <2>1, <2>3 DEF Stands
    <3>2. owner = u => ~Watch!Underway(u, s, {"delete"})
      BY <1>4, <1>6, <3>1 DEF Watch!Underway
    <3>3. owner = u => s \notin remote[owner]
      BY <2>3, <3>2 DEF OutSafe
    <3>4. \A g \in fetches' : Watch!Owner(g.token) = u =>
            /\ g.answer = None \/ s \notin g.answer
            /\ ~Watch!Underway(u, s, {"delete"})
      BY <1>4, <1>6, <2>3, <3>2, <3>3 DEF OutSafe
    <3> QED
      BY <1>4, <2>3, <3>4 DEF OutSafe, Here, Watch!Recalled, Everyone, Watch!Underway
  <2> QED
    BY <2>1, <2>2, <2>3 DEF WishSafe, Stands
<1> QED
  BY <1>7, <1>8 DEF WatchInv

\* A read, or a write, is lost.
LEMMA LossSafe ==
  ASSUME WatchInv,
         \/ \E f \in fetches : Watch!FetchFails(f)
         \/ \E w \in writes : Watch!WriteFails(w),
         UNCHANGED legacy
  PROVE  WatchInv'
<1>1. WatchTypes /\ UNCHANGED Watch!session
  BY DEF WatchInv, Watch!FetchFails, Watch!WriteFails
<1>2. SessionTyped'
  BY <1>1, SessionAsItWas
<1>3. CASE \E f \in fetches : Watch!FetchFails(f)
  <2>1. /\ wish' \in [Users -> [Symbols -> {"none", "in", "out"}]] /\ meant' = meant
        /\ \A u \in Users, s \in Symbols : Stands(u, s)
    BY <1>1, <1>3, KeepStands DEF Watch!FetchFails
  <2>2. fetches' \subseteq fetches /\ UNCHANGED <<open, lists, cut, remote, data, seen, writes>>
    BY <1>3 DEF Watch!FetchFails
  <2>3. WatchTypes'
    BY <1>1, <1>2, <2>1, <2>2 DEF WatchTypes, SessionTyped
  <2>4. ASSUME NEW u \in Users, NEW s \in Symbols PROVE WishSafe(u, s)'
    <3>1. WishSafe(u, s) /\ Stands(u, s)
      BY <2>1 DEF WatchInv
    <3> QED
      BY <2>2, <3>1 DEF WishSafe, Stands, InSafe, OutSafe, Here, Watch!Recalled, Everyone, Watch!Underway
  <2> QED
    BY <2>3, <2>4 DEF WatchInv
<1>4. ASSUME NEW w \in writes, Watch!WriteFails(w) PROVE WatchInv'
  <2>1. Watch!Owner(w.token) \in Users
    BY <1>1, WatchTokens DEF WatchTypes, WatchWrites
  <2>2. /\ wish' \in [Users -> [Symbols -> {"none", "in", "out"}]]
        /\ \A u \in Users, s \in Symbols : Stands(u, s)
        /\ \A s \in Symbols : s \in w.symbols => wish'[Watch!Owner(w.token)][s] = "none"
    BY <1>1, <1>4, <2>1, DropStands DEF Watch!WriteFails
  <2>3. writes' = writes \ {w} /\ UNCHANGED <<open, lists, cut, remote, data, seen, fetches, meant>>
    BY <1>4 DEF Watch!WriteFails
  <2>4. WatchTypes'
    BY <1>1, <1>2, <2>2, <2>3 DEF WatchTypes, SessionTyped
  <2>5. ASSUME NEW u \in Users, NEW s \in Symbols PROVE WishSafe(u, s)'
    <3>1. WishSafe(u, s) /\ Stands(u, s)
      BY <2>2 DEF WatchInv
    <3>2. CASE wish'[u][s] = "none"
      BY <3>2 DEF WishSafe
    <3>3. CASE wish'[u][s] # "none"
      <4>1. ~(Watch!Owner(w.token) = u /\ s \in w.symbols)
        BY <2>2, <3>3
      <4>2. \A ops : Watch!Underway(u, s, ops)' <=> Watch!Underway(u, s, ops)
        BY <2>3, <4>1 DEF Watch!Underway
      <4> QED
        BY <2>3, <3>1, <3>3, <4>2 DEF WishSafe, Stands, InSafe, OutSafe, Here, Watch!Recalled, Everyone
    <3> QED
      BY <3>2, <3>3
  <2> QED
    BY <2>4, <2>5 DEF WatchInv
<1> QED
  BY <1>3, <1>4

LEMMA ApplySafe ==
  ASSUME WatchInv, NEW w \in writes, Watch!Apply(w), UNCHANGED legacy PROVE WatchInv'
<1>1. WatchTypes /\ UNCHANGED Watch!session
  BY DEF WatchInv, Watch!Apply
<1>2. SessionTyped'
  BY <1>1, SessionAsItWas
<1>3. /\ wish' \in [Users -> [Symbols -> {"none", "in", "out"}]] /\ meant' = meant
      /\ \A u \in Users, s \in Symbols : Stands(u, s)
  BY <1>1, KeepStands DEF Watch!Apply
<1> DEFINE owner == Watch!Owner(w.token)
           after == IF w.op = "delete" THEN remote[owner] \ w.symbols ELSE remote[owner] \cup w.symbols
<1>4. /\ writes' = writes \ {w} /\ remote' = [remote EXCEPT ![owner] = after]
      /\ UNCHANGED <<open, lists, cut, data, seen, fetches>>
  BY DEF Watch!Apply
<1>5. owner \in Users /\ after \in Lists /\ w \in WatchWrites
  BY <1>1, WatchTokens DEF WatchTypes, WatchWrites, Lists
<1>6. WatchTypes'
  BY <1>1, <1>2, <1>3, <1>4, <1>5 DEF WatchTypes, SessionTyped
<1>7. ASSUME NEW u \in Users, NEW s \in Symbols PROVE WishSafe(u, s)'
  <2>1. WishSafe(u, s) /\ Stands(u, s)
    BY <1>3 DEF WatchInv
  <2>2. remote'[u] = IF u = owner THEN after ELSE remote[u]
    BY <1>1, <1>4 DEF WatchTypes
  <2>3. w.op \in {"upsert", "batch", "delete"}
    BY <1>5 DEF WatchWrites
  <2>4. \A ops : Watch!Underway(u, s, ops)' => Watch!Underway(u, s, ops)
    BY <1>4 DEF Watch!Underway
  <2>5. \A ops : Watch!Underway(u, s, ops) =>
          Watch!Underway(u, s, ops)' \/ (w.op \in ops /\ owner = u /\ s \in w.symbols)
    BY <1>4 DEF Watch!Underway
  <2>6. \A ops : w.op \in ops /\ owner = u /\ s \in w.symbols => Watch!Underway(u, s, ops)
    BY DEF Watch!Underway
  <2>7. InSafe(u, s) => InSafe(u, s)'
    BY <1>4, <2>2, <2>3, <2>4, <2>5, <2>6 DEF InSafe, Here, Watch!Recalled, Everyone
  <2>8. OutSafe(u, s) => OutSafe(u, s)'
    BY <1>4, <2>2, <2>3, <2>4, <2>5, <2>6 DEF OutSafe, Here, Watch!Recalled, Everyone
  <2> QED
    BY <2>1, <2>7, <2>8 DEF WishSafe, Stands
<1> QED
  BY <1>6, <1>7 DEF WatchInv

LEMMA DeviceSafe ==
  ASSUME WatchInv, NEW v \in Users, NEW x \in Symbols, Watch!OtherDevice(v, x), UNCHANGED legacy PROVE WatchInv'
<1>1. WatchTypes /\ UNCHANGED Watch!session
  BY DEF WatchInv, Watch!OtherDevice
<1>2. SessionTyped'
  BY <1>1, SessionAsItWas
<1>3. /\ wish' \in [Users -> [Symbols -> {"none", "in", "out"}]]
      /\ \A u \in Users, s \in Symbols : Stands(u, s)
      /\ \A s \in Symbols : s \in {x} => wish'[v][s] = "none"
  BY <1>1, DropStands DEF Watch!OtherDevice
<1>4. /\ remote' = [remote EXCEPT ![v] = IF x \in @ THEN @ \ {x} ELSE @ \cup {x}]
      /\ meant' = [meant EXCEPT ![v] = @ \cup {x}]
      /\ UNCHANGED <<open, lists, cut, data, seen, fetches, writes>>
  BY DEF Watch!OtherDevice
<1>5. remote' \in [Users -> Lists] /\ meant' \in [Users -> Lists]
  BY <1>1, <1>4 DEF WatchTypes, Lists
<1>6. WatchTypes'
  BY <1>1, <1>2, <1>3, <1>4, <1>5 DEF WatchTypes, SessionTyped
<1>7. ASSUME NEW u \in Users, NEW s \in Symbols PROVE WishSafe(u, s)'
  <2>1. WishSafe(u, s) /\ Stands(u, s)
    BY <1>3 DEF WatchInv
  <2>2. u = v /\ s = x => wish'[u][s] = "none"
    BY <1>3
  <2>3. u # v \/ s # x => (s \in remote'[u] <=> s \in remote[u])
    BY <1>1, <1>4 DEF WatchTypes
  <2> QED
    BY <1>4, <2>1, <2>2, <2>3 DEF WishSafe, Stands, InSafe, OutSafe, Here, Watch!Recalled, Everyone, Watch!Underway
<1> QED
  BY <1>6, <1>7 DEF WatchInv

LEMMA ArriveSafe ==
  ASSUME WatchInv, NEW f \in fetches, Watch!Arrive(f), UNCHANGED legacy PROVE WatchInv'
<1> DEFINE t == f.token
           a == f.answer
           d == [data EXCEPT ![t] = a]
           owner == Watch!Owner(t)
<1>1. WatchTypes /\ UNCHANGED Watch!session
  BY DEF WatchInv, Watch!Arrive
<1>2. SessionTyped'
  BY <1>1, SessionAsItWas
<1>3. /\ wish' \in [Users -> [Symbols -> {"none", "in", "out"}]] /\ meant' = meant
      /\ \A u \in Users, s \in Symbols : Stands(u, s)
  BY <1>1, KeepStands DEF Watch!Arrive
<1>4. t \in Watch!Tokens /\ a \in Lists /\ a # None /\ owner \in Users /\ t = Watch!TokenOf(owner)
  BY <1>1, WatchTokens DEF WatchTypes, WatchFetches, Watch!Arrive
<1>5. Watch!ListKey(stored) = "everyone" /\ Watch!ListKey(stored') = "everyone"
  BY <1>1, <1>2, ListIsShared DEF WatchTypes, SessionTyped
<1>6. [Watch!Page EXCEPT !.data = d] = [local |-> Everyone, cut |-> cut, data |-> d, writes |-> writes]
  BY <1>5 DEF Watch!Page, Everyone
<1>7. fetches' = fetches \ {f} /\ UNCHANGED <<open, remote>>
  BY DEF Watch!Arrive
<1>8. \/ /\ Watch!CurrentKey = t
         /\ \E p \in Watch!Merge([local |-> Everyone, cut |-> cut, data |-> d, writes |-> writes], t, a) :
              /\ lists' = [lists EXCEPT !["everyone"] = p.local] /\ cut' = p.cut
              /\ data' = p.data /\ writes' = p.writes /\ seen' = p.data[t]
      \/ Watch!CurrentKey # t /\ data' = d /\ UNCHANGED <<lists, cut, writes, seen>>
  BY <1>5, <1>6 DEF Watch!Arrive, Watch!Finish, Watch!Store
<1>9. /\ d \in [Watch!Tokens -> Lists \cup {None}] /\ Everyone \in Watch!Listable /\ cut \in Lists
      /\ writes \in SUBSET WatchWrites /\ legacy \in Watch!Listable
  BY <1>1, <1>4 DEF WatchTypes, Everyone
<1>10. ASSUME NEW u \in Users, NEW s \in Symbols, OutSafe(u, s), u = owner PROVE s \notin a /\ s \notin Here
  BY <1>4, <1>10 DEF OutSafe
<1>11. CASE Watch!CurrentKey = t
  <2>1. PICK p \in Watch!Merge([local |-> Everyone, cut |-> cut, data |-> d, writes |-> writes], t, a) :
              /\ lists' = [lists EXCEPT !["everyone"] = p.local] /\ cut' = p.cut
              /\ data' = p.data /\ writes' = p.writes /\ seen' = p.data[t]
    BY <1>8, <1>11
  <2> DEFINE all == a \cup Here
  <2>2. Merged(p, Everyone, cut, d, writes, t, a)
    <3> HIDE DEF t, a, d
    <3> QED
      BY <1>4, <1>9, <2>1, MergeGives
  <2>3. /\ p.local \in Watch!Listable /\ Watch!Recalled(p.local) \subseteq all
        /\ p.cut \in Lists /\ Here \cup cut \subseteq Watch!Recalled(p.local) \cup p.cut
        /\ p.data \in [Watch!Tokens -> Lists \cup {None}]
        /\ p.data = d \/ p.data = [d EXCEPT ![t] = p.local]
        /\ p.writes = writes \/ p.writes = writes \cup {[op |-> "batch", token |-> t, symbols |-> all]}
        /\ p.writes \subseteq WatchWrites
    BY <1>4, <2>2 DEF Merged, Here
  <2>4. p.local \subseteq all /\ a \subseteq all
    BY <2>3 DEF Watch!Recalled
  <2>5. Here' = Watch!Recalled(p.local) /\ lists' \in [Users \cup {"everyone"} -> Watch!Listable]
    BY <1>1, <2>1, <2>3 DEF WatchTypes, Here, Everyone, Watch!Recalled
  <2>6. p.data[t] \in Lists /\ p.data[t] \subseteq all
    <3>1. p.data[t] \in {a, p.local}
      BY <1>1, <1>4, <2>3 DEF WatchTypes
    <3> QED
      BY <1>4, <2>3, <2>4, <3>1 DEF Watch!Listable, Lists
  <2> HIDE DEF all
  <2>7. WatchTypes'
    BY <1>1, <1>2, <1>3, <1>7, <2>1, <2>3, <2>5, <2>6 DEF WatchTypes, SessionTyped
  <2>8. ASSUME NEW u \in Users, NEW s \in Symbols PROVE WishSafe(u, s)'
    <3>1. WishSafe(u, s) /\ Stands(u, s)
      BY <1>3 DEF WatchInv
    <3>2. CASE wish'[u][s] = "none"
      BY <3>2 DEF WishSafe
    <3>3. CASE wish'[u][s] # "none"
      <4>1. wish'[u][s] = wish[u][s] /\ Alone(u)'
        BY <3>1, <3>3 DEF Stands
      <4>2. token = t
        BY <1>4, <1>11, WatchTokens DEF Watch!CurrentKey, Watch!Key
      <4>3. u = owner
        BY <1>1, <1>4, <4>1, <4>2, WatchTokens DEF Alone, Watch!session
      <4>4. /\ writes \subseteq writes'
            /\ \A w \in writes' \ writes : w.op = "batch" /\ w.symbols = all
        BY <2>1, <2>3
      <4>5. InSafe(u, s) => InSafe(u, s)'
        BY <1>7, <2>1, <2>3, <2>5, <4>4 DEF InSafe, Watch!Underway
      <4>6. ASSUME OutSafe(u, s) PROVE OutSafe(u, s)'
        <5>1. s \notin all
          BY <1>10, <4>3, <4>6 DEF all
        <5>2. ~Watch!Underway(u, s, {"upsert", "batch"})'
          BY <4>4, <4>6, <5>1 DEF OutSafe, Watch!Underway
        <5>3. Watch!Underway(u, s, {"delete"})' <=> Watch!Underway(u, s, {"delete"})
          BY <4>4 DEF Watch!Underway
        <5>4. s \notin data'[Watch!TokenOf(u)] /\ s \notin seen'
          BY <1>4, <2>1, <2>6, <4>3, <5>1
        <5>5. s \notin Here'
          BY <2>3, <2>5, <5>1
        <5> QED
          BY <1>7, <4>6, <5>2, <5>3, <5>4, <5>5 DEF OutSafe
      <4> QED
        BY <3>1, <4>1, <4>5, <4>6 DEF WishSafe
    <3> QED
      BY <3>2, <3>3
  <2> QED
    BY <2>7, <2>8 DEF WatchInv
<1>12. CASE Watch!CurrentKey # t
  <2>1. data' = d /\ UNCHANGED <<lists, cut, writes, seen>>
    BY <1>8, <1>12
  <2>2. WatchTypes'
    BY <1>1, <1>2, <1>3, <1>7, <1>9, <2>1 DEF WatchTypes, SessionTyped
  <2>3. ASSUME NEW u \in Users, NEW s \in Symbols PROVE WishSafe(u, s)'
    <3>1. WishSafe(u, s) /\ Stands(u, s) /\ Watch!TokenOf(u) \in Watch!Tokens
      BY <1>3, WatchTokens DEF WatchInv
    <3>2. InSafe(u, s) => InSafe(u, s)'
      BY <1>7, <2>1 DEF InSafe, Here, Watch!Recalled, Everyone, Watch!Underway
    <3>3. ASSUME OutSafe(u, s) PROVE data'[Watch!TokenOf(u)] = None \/ s \notin data'[Watch!TokenOf(u)]
      <4>1. CASE Watch!TokenOf(u) = t
        BY <1>1, <1>4, <1>10, <2>1, <3>1, <3>3, <4>1, WatchTokens DEF WatchTypes
      <4>2. CASE Watch!TokenOf(u) # t
        BY <1>1, <2>1, <3>1, <3>3, <4>2 DEF WatchTypes, OutSafe
      <4> QED
        BY <4>1, <4>2
    <3>4. OutSafe(u, s) => OutSafe(u, s)'
      BY <1>7, <2>1, <3>3 DEF OutSafe, Here, Watch!Recalled, Everyone, Watch!Underway
    <3> QED
      BY <3>1, <3>2, <3>4 DEF WishSafe, Stands
  <2> QED
    BY <2>2, <2>3 DEF WatchInv
<1> QED
  BY <1>11, <1>12

LEMMA WatchStay == ASSUME WatchInv, [Watch!Next]_watchVars PROVE WatchInv'
<1>1. CASE UNCHANGED watchVars
  BY <1>1 DEF watchVars, WatchInv, WatchTypes, WishSafe, Alone, InSafe, OutSafe, Here, Watch!Recalled, Everyone, Watch!Underway
<1>2. ASSUME Watch!SessionStep \/ Watch!OpenStats, UNCHANGED legacy PROVE WatchInv'
  BY <1>2, PagesSafe
<1>3. ASSUME Watch!CloseStats \/ Watch!ReloadPage, UNCHANGED legacy PROVE WatchInv'
  BY <1>3, LeavesSafe
<1>4. ASSUME \E s \in Symbols : Watch!Add(s), UNCHANGED legacy PROVE WatchInv'
  BY <1>4, AddSafe
<1>5. ASSUME \E symbols \in SUBSET Symbols : Watch!Remove(symbols) \/ Watch!AddPool(symbols), UNCHANGED legacy PROVE WatchInv'
  BY <1>5, RemoveSafe, AddPoolSafe
<1>6. ASSUME \E f \in fetches : Watch!Read(f) \/ Watch!Arrive(f) \/ Watch!FetchFails(f), UNCHANGED legacy PROVE WatchInv'
  BY <1>6, ReadSafe, ArriveSafe, LossSafe
<1>7. ASSUME \E w \in writes : Watch!Apply(w) \/ Watch!WriteFails(w), UNCHANGED legacy PROVE WatchInv'
  BY <1>7, ApplySafe, LossSafe
<1>8. ASSUME \E u \in Users, s \in Symbols : Watch!OtherDevice(u, s), UNCHANGED legacy PROVE WatchInv'
  BY <1>8, DeviceSafe
<1> QED
  BY <1>1, <1>2, <1>3, <1>4, <1>5, <1>6, <1>7, <1>8 DEF Watch!Next

LEMMA WatchSays == ASSUME WatchInv PROVE Watch!TypeOK /\ WishesHold
<1>1. Watch!TypeOK
  BY DEF WatchInv, WatchTypes, Watch!TypeOK, Lists, WatchFetches, WatchWrites
<1>2. WishesHold
  BY DEF WatchInv, WishSafe, InSafe, OutSafe, Here, Everyone, WishesHold, Watch!WishesHold
<1> QED
  BY <1>1, <1>2

-----------------------------------------------------------------------------
(* The query cache: what the parts of a callback make of it *)

EntryRecs == [data : Value, error : BOOLEAN, updated : Nat \cup {Never}, stale : 0..StaleTime + RetryDelay,
              expires : 0..CacheTime, inflight : Requests \cup {Nothing}, fetching : BOOLEAN,
              listeners : SUBSET Components, timer : BOOLEAN]
SavedRecs == [age : 0..MaxAge, value : 0..MaxVersion, tracked : BOOLEAN]
RequestRecs == [phase : {"free", "sent", "answered", "asleep"}, entry : Entries \cup {Nothing},
                tries : 0..Retries, version : Value]
Views == [data : Value, error : BOOLEAN, loading : BOOLEAN]
AskedRecs == [of : Requests \cup {Nothing}, version : 0..MaxVersion]
Caches == [entry : [Entries -> EntryRecs], current : Entries \cup {Nothing}]

QueryTypes ==
  /\ server \in 0..MaxVersion /\ persists \in BOOLEAN
  /\ entry \in [Entries -> EntryRecs] /\ current \in Entries \cup {Nothing}
  /\ saved \in SavedRecs \cup {Nothing}
  /\ request \in [Requests -> RequestRecs]
  /\ shown \in [Components -> Views \cup {Nothing}]

LEMMA BlankTyped ==
  /\ Blank \in EntryRecs /\ Free \in RequestRecs
  /\ \A h \in EntryRecs : [Blank EXCEPT !.listeners = h.listeners] \in EntryRecs
<1>1. 0 \in 0..StaleTime + RetryDelay /\ 0 \in 0..CacheTime /\ 0 \in 0..Retries /\ Nothing \in Value
  BY QueryAssumption DEF Value
<1>2. Blank \in EntryRecs /\ Free \in RequestRecs
  BY <1>1 DEF Blank, Free, EntryRecs, RequestRecs
<1>3. \A h \in EntryRecs : h.listeners \in SUBSET Components
  BY DEF EntryRecs
<1>4. \A l \in SUBSET Components : [Blank EXCEPT !.listeners = l] \in EntryRecs
  BY <1>2 DEF EntryRecs
<1> QED
  BY <1>2, <1>3, <1>4

\* What h took from s, as the entry e was older.
TakenFrom(h, e, s) ==
  /\ persists /\ s # Nothing /\ (e.updated = Never \/ e.updated > s.age)
  /\ h.data = s.value /\ h.error = FALSE /\ h.updated = s.age /\ h.inflight = Nothing /\ h.fetching = FALSE

LEMMA HydrateGives ==
  ASSUME NEW e \in EntryRecs, NEW s \in SavedRecs \cup {Nothing}
  PROVE  /\ Hydrate(e, s) \in EntryRecs /\ Hydrate(e, s).listeners = e.listeners
         /\ Hydrate(e, s) = e \/ TakenFrom(Hydrate(e, s), e, s)
<1>1. CASE ~(persists /\ s # Nothing /\ s.age <= MaxAge /\ (e.updated = Never \/ e.updated > s.age))
  BY <1>1 DEF Hydrate
<1>2. CASE persists /\ s # Nothing /\ s.age <= MaxAge /\ (e.updated = Never \/ e.updated > s.age)
  <2> DEFINE h == [e EXCEPT !.data = s.value, !.error = FALSE, !.updated = s.age,
                            !.stale = Later(StaleTime - s.age, 0), !.expires = CacheTime,
                            !.inflight = Nothing, !.fetching = FALSE, !.timer = TRUE]
  <2>1. Hydrate(e, s) = h
    BY <1>2 DEF Hydrate
  <2>2. s \in SavedRecs
    BY <1>2
  <2>3. Later(StaleTime - s.age, 0) \in 0..StaleTime + RetryDelay
    BY <2>2, QueryAssumption DEF Later, SavedRecs
  <2>4. h \in EntryRecs
    <3>1. s.value \in Value /\ s.age \in Nat \cup {Never} /\ CacheTime \in 0..CacheTime
      BY <2>2, QueryAssumption DEF SavedRecs, Value
    <3> QED
      BY <2>3, <3>1 DEF EntryRecs
  <2>5. TakenFrom(h, e, s) /\ h.listeners = e.listeners
    BY <1>2 DEF TakenFrom, EntryRecs
  <2> QED
    BY <2>1, <2>4, <2>5
<1> QED
  BY <1>1, <1>2

LEMMA CreateGives ==
  ASSUME NEW q \in Caches, q.current # Nothing \/ \E e \in Entries : Unused(e)
  PROVE  /\ GetOrCreate(q) \in Caches /\ GetOrCreate(q).current \in Entries
         /\ GetOrCreate(q).entry = q.entry
         /\ q.current # Nothing => GetOrCreate(q) = q
         /\ q.current = Nothing => Unused(GetOrCreate(q).current)
<1>1. CASE q.current # Nothing
  BY <1>1 DEF GetOrCreate, Caches
<1>2. CASE q.current = Nothing
  <2> DEFINE n == CHOOSE e \in Entries : Unused(e)
  <2>1. n \in Entries /\ Unused(n)
    BY <1>2
  <2> HIDE DEF n
  <2>2. GetOrCreate(q) = [entry |-> q.entry, current |-> n]
    BY <1>2 DEF GetOrCreate, n
  <2> QED
    BY <1>2, <2>1, <2>2 DEF Caches
<1> QED
  BY <1>1, <1>2

LEMMA HydratedGives ==
  ASSUME NEW q \in Caches, q.current \in Entries, NEW s \in SavedRecs \cup {Nothing}
  PROVE  /\ Hydrated(q, s) \in Caches /\ Hydrated(q, s).current = q.current
         /\ Hydrated(q, s).entry[q.current] = Hydrate(q.entry[q.current], s)
         /\ \A e \in Entries : e # q.current => Hydrated(q, s).entry[e] = q.entry[e]
         /\ \A e \in Entries : Hydrated(q, s).entry[e].listeners = q.entry[e].listeners
<1> DEFINE h == Hydrate(q.entry[q.current], s)
<1>1. h \in EntryRecs /\ h.listeners = q.entry[q.current].listeners
  BY HydrateGives DEF Caches
<1>2. Hydrated(q, s) = [q EXCEPT !.entry = [q.entry EXCEPT ![q.current] = h]]
  BY DEF Hydrated
<1> HIDE DEF h
<1>3. [q.entry EXCEPT ![q.current] = h] \in [Entries -> EntryRecs]
  BY <1>1 DEF Caches
<1> QED
  BY <1>1, <1>2, <1>3 DEF h, Caches

\* What a callback may have made of the data of the current entry: what it
\* was, or an answer that is no older, unless a request runs unseen.
Learnt(d) ==
  \/ d = Data
  \/ d \in 0..server /\ (Data # Nothing /\ ~Untracked => d >= Data)

\* The current entry of a cache that a callback works on, beside what
\* localStorage has.
Cell(h, s) ==
  /\ h.data = Nothing <=> h.updated = Never
  /\ h.data # Nothing => h.data \in 0..server
  /\ Learnt(h.data)
  /\ s # Nothing /\ s.tracked /\ h.updated # Never /\ h.updated > s.age => s.value >= h.data

\* The cache in the midst of a callback.
Follows(q, s) ==
  /\ q \in Caches
  /\ current # Nothing => q.current = current
  /\ \A e \in Entries : Unused(e) /\ e # q.current => q.entry[e] = Blank
  /\ q.current # Nothing => Cell(q.entry[q.current], s)

\* It waits for what was waited for before, or for nothing.
Awaits(q) ==
  q.current # Nothing /\ q.entry[q.current].inflight # Nothing =>
    /\ q.current = current /\ q.entry[q.current].inflight = entry[current].inflight
    /\ q.entry[q.current].data = Data

\* What localStorage has when a callback looks there.
Usable(s) ==
  /\ s \in SavedRecs \cup {Nothing}
  /\ s # Nothing => s.value \in 0..server /\ (s.tracked \/ Untracked)

LEMMA CreateFollows ==
  ASSUME NEW q, NEW s, Follows(q, s), Room
  PROVE  /\ Follows(GetOrCreate(q), s) /\ GetOrCreate(q).current \in Entries
         /\ Awaits(q) => Awaits(GetOrCreate(q))
<1>1. q \in Caches /\ (q.current # Nothing \/ \E e \in Entries : Unused(e))
  BY DEF Follows, Room
<1>2. CASE q.current # Nothing
  BY <1>1, <1>2, CreateGives DEF Follows
<1>3. CASE q.current = Nothing
  <2> DEFINE r == GetOrCreate(q)
  <2>1. r \in Caches /\ r.current \in Entries /\ r.entry = q.entry /\ Unused(r.current)
    BY <1>1, <1>3, CreateGives
  <2> HIDE DEF r
  <2>2. r.entry[r.current] = Blank /\ current = Nothing
    BY <1>3, <2>1, QueryAssumption DEF Follows
  <2>3. Data = Nothing
    BY <2>2 DEF Data
  <2>4. Cell(Blank, s)
    BY <2>3 DEF Cell, Blank, Learnt
  <2>5. Follows(r, s)
    BY <1>3, <2>1, <2>2, <2>4, QueryAssumption DEF Follows
  <2>6. Awaits(r)
    BY <2>2 DEF Awaits, Blank
  <2> QED
    BY <2>1, <2>5, <2>6 DEF r
<1> QED
  BY <1>2, <1>3

LEMMA HydratedFollows ==
  ASSUME NEW q, NEW s, Follows(q, s), Usable(s), q.current \in Entries, server \in Nat,
         Data # Nothing => Data \in 0..server
  PROVE  Follows(Hydrated(q, s), s) /\ (Awaits(q) => Awaits(Hydrated(q, s)))
<1> DEFINE r == Hydrated(q, s)
           e == q.entry[q.current]
           h == Hydrate(e, s)
<1>1. q \in Caches /\ s \in SavedRecs \cup {Nothing} /\ e \in EntryRecs
  BY DEF Follows, Usable, Caches
<1>2. /\ r \in Caches /\ r.current = q.current /\ r.entry[q.current] = h
      /\ \A d \in Entries : d # q.current => r.entry[d] = q.entry[d]
  BY <1>1, HydratedGives
<1>3. h = e \/ TakenFrom(h, e, s)
  BY <1>1, HydrateGives
<1>4. Cell(e, s)
  BY QueryAssumption DEF Follows
<1> HIDE DEF r, h, e
<1>5. CASE h = e
  <2>1. Follows(r, s)
    BY <1>2, <1>5 DEF Follows, e
  <2> QED
    BY <1>2, <1>5, <2>1 DEF Awaits, e, r
<1>6. CASE TakenFrom(h, e, s)
  <2>1. s \in SavedRecs /\ s.value \in 0..server /\ (s.tracked \/ Untracked)
    BY <1>6 DEF TakenFrom, Usable
  <2>2. h.data = s.value /\ h.updated = s.age /\ s.age \in Nat /\ s.value # Nothing /\ s.age # Never
    BY <1>6, <2>1, QueryAssumption DEF TakenFrom, SavedRecs
  <2>3. Learnt(s.value)
    <3> SUFFICES ASSUME Data # Nothing, ~Untracked PROVE s.value >= Data
      BY <2>1 DEF Learnt
    <3>1. s # Nothing /\ s.tracked
      BY <1>6, <2>1 DEF TakenFrom
    <3>2. e.updated # Never
      BY <1>4, QueryAssumption DEF Cell, Learnt
    <3>3. s.value >= e.data /\ e.data # Nothing
      BY <1>4, <1>6, <3>1, <3>2 DEF Cell, TakenFrom
    <3>4. e.data \in 0..server /\ (e.data = Data \/ e.data >= Data) /\ (Data \in Nat \/ e.data >= Data)
      BY <1>4, <3>3 DEF Cell, Learnt
    <3>5. CASE e.data = Data
      BY <3>3, <3>5
    <3>6. CASE e.data # Data
      <4>1. Data \in Int
        OBVIOUS
      <4> QED
        BY <1>4, <2>1, <3>3, <3>4, <3>6, <4>1 DEF Cell, Learnt
    <3> QED
      BY <3>5, <3>6
  <2>4. Cell(h, s)
    BY <2>1, <2>2, <2>3 DEF Cell
  <2>5. Follows(r, s)
    BY <1>2, <2>4 DEF Follows
  <2>6. Awaits(r)
    BY <1>2, <1>6 DEF Awaits, TakenFrom
  <2> QED
    BY <2>5, <2>6 DEF r
<1> QED
  BY <1>3, <1>5, <1>6

-----------------------------------------------------------------------------
(* The data of the current entry, and what a callback leaves *)

ValuesServed ==
  /\ Data # Nothing => Data \in 0..server
  /\ saved # Nothing => saved.value <= server
  /\ \A f \in Requests : request[f].phase = "answered" => request[f].version \in 0..server

\* A current entry that has data knows since when.
Dated == current # Nothing => (entry[current].data = Nothing <=> entry[current].updated = Never)

\* What localStorage has of an answer that the cache waited for is no older
\* than data that it may replace.
SavedIsNewer ==
  current # Nothing /\ saved # Nothing =>
    (saved.tracked /\ entry[current].updated # Never /\ entry[current].updated > saved.age
       => saved.value >= entry[current].data)

\* The request that the current entry waits for runs for it, and is answered
\* with no older data.
InflightBacked ==
  \A f \in Requests : Tracked(f) =>
    /\ Running(f) /\ request[f].entry = current
    /\ (request[f].phase = "answered" /\ Data # Nothing) => request[f].version >= Data

DataInv == QueryTypes /\ ValuesServed /\ Dated /\ SavedIsNewer /\ InflightBacked

PromiseStep == [Promise!Next]_<<server, Data>>

LEMMA DataFollows ==
  ASSUME DataInv PROVE Follows(Cache, saved) /\ Awaits(Cache) /\ Usable(saved) /\ server \in Nat
<1>1. Cache \in Caches /\ Cache.current = current /\ Cache.entry = entry
  BY DEF DataInv, QueryTypes, Cache, Caches
<1>2. server \in Nat /\ server \in 0..MaxVersion
  BY QueryAssumption DEF DataInv, QueryTypes
<1>3. Usable(saved)
  BY <1>2, QueryAssumption DEF DataInv, QueryTypes, ValuesServed, Usable, Untracked, SavedRecs
<1>4. current # Nothing => Data = entry[current].data
  BY DEF Data
<1>5. current # Nothing => Cell(entry[current], saved)
  BY <1>4 DEF DataInv, ValuesServed, Dated, SavedIsNewer, Cell, Learnt
<1>6. \A e \in Entries : Unused(e) => entry[e] = Blank
  BY DEF Unused
<1> QED
  BY <1>1, <1>2, <1>3, <1>4, <1>5, <1>6 DEF Follows, Awaits

LEMMA CommitGives ==
  ASSUME NEW q \in Caches, Commit(q)
  PROVE  /\ current' = q.current /\ current' \in Entries \cup {Nothing}
         /\ entry' \in [Entries -> EntryRecs]
         /\ \A e \in Entries : entry'[e].listeners = q.entry[e].listeners
         /\ q.current # Nothing => entry'[current'] = q.entry[q.current] /\ Data' = q.entry[q.current].data
         /\ q.current = Nothing => Data' = Nothing
<1>1. current' = q.current /\ current' \in Entries \cup {Nothing}
  BY DEF Commit, Caches
<1>2. entry' = [e \in Entries |-> IF e = q.current THEN q.entry[e]
                                  ELSE [Blank EXCEPT !.listeners = q.entry[e].listeners]]
  BY DEF Commit
<1>3. \A e \in Entries : q.entry[e] \in EntryRecs
      /\ [Blank EXCEPT !.listeners = q.entry[e].listeners] \in EntryRecs
  BY BlankTyped DEF Caches
<1>4. \A e \in Entries : [Blank EXCEPT !.listeners = q.entry[e].listeners].listeners = q.entry[e].listeners
  BY DEF Blank
<1>5. entry' \in [Entries -> EntryRecs]
  BY <1>2, <1>3
<1>6. \A e \in Entries : entry'[e].listeners = q.entry[e].listeners
  BY <1>2, <1>4
<1>7. q.current # Nothing => entry'[current'] = q.entry[q.current]
  BY <1>1, <1>2
<1> QED
  BY <1>1, <1>5, <1>6, <1>7 DEF Data

\* A callback that has followed the rules to its end.
Backed(q) ==
  \A f \in Requests : (q.current # Nothing /\ q.entry[q.current].inflight = f) =>
    /\ request'[f].phase # "free" /\ request'[f].entry = q.current
    /\ (request'[f].phase = "answered" /\ q.entry[q.current].data # Nothing)
         => request'[f].version >= q.entry[q.current].data

AnswersStay ==
  \A f \in Requests : request'[f].phase = "answered" =>
    request[f].phase = "answered" /\ request'[f].version = request[f].version

LEMMA Settled ==
  ASSUME DataInv, NEW q, Follows(q, saved'), Usable(saved'), Backed(q), Commit(q), AnswersStay, UNCHANGED outside,
         request' \in [Requests -> RequestRecs], shown' \in [Components -> Views \cup {Nothing}]
  PROVE  DataInv' /\ PromiseStep
<1>1. q \in Caches
  BY DEF Follows
<1>2. /\ current' = q.current /\ current' \in Entries \cup {Nothing}
      /\ entry' \in [Entries -> EntryRecs]
      /\ q.current # Nothing => entry'[current'] = q.entry[q.current] /\ Data' = q.entry[q.current].data
      /\ q.current = Nothing => Data' = Nothing
  BY <1>1, CommitGives
<1>3. server' = server /\ persists' = persists /\ server \in 0..MaxVersion
  BY DEF outside, DataInv, QueryTypes
<1>4. QueryTypes'
  BY <1>2, <1>3 DEF DataInv, QueryTypes, Usable
<1>5. q.current # Nothing => Cell(q.entry[q.current], saved')
  BY DEF Follows
<1>6. ValuesServed'
  <2>1. Data' # Nothing => Data' \in 0..server'
    BY <1>2, <1>3, <1>5 DEF Cell
  <2>2. saved' # Nothing => saved'.value <= server'
    BY <1>3, QueryAssumption DEF Usable
  <2>3. \A f \in Requests : request'[f].phase = "answered" => request'[f].version \in 0..server'
    BY <1>3 DEF AnswersStay, DataInv, ValuesServed
  <2> QED
    BY <2>1, <2>2, <2>3 DEF ValuesServed
<1>7. Dated'
  BY <1>2, <1>5 DEF Dated, Cell
<1>8. SavedIsNewer'
  BY <1>2, <1>5 DEF SavedIsNewer, Cell
<1>9. InflightBacked'
  BY <1>2 DEF InflightBacked, Backed, Tracked, Running
<1>10. PromiseStep
  <2>1. CASE q.current = Nothing
    BY <1>2, <1>3, <2>1 DEF PromiseStep, Promise!Next, Promise!Forget, Untracked
  <2>2. CASE q.current # Nothing
    <3>1. Data' = Data \/ (Data' \in 0..server /\ (Data # Nothing /\ ~Untracked => Data' >= Data))
      BY <1>2, <1>5, <2>2 DEF Cell, Learnt
    <3>2. Untracked' \in BOOLEAN
      BY DEF Untracked
    <3> QED
      BY <1>3, <3>1, <3>2 DEF PromiseStep, Promise!Next, Promise!Learn
  <2> QED
    BY <2>1, <2>2
<1> QED
  BY <1>4, <1>6, <1>7, <1>8, <1>9, <1>10 DEF DataInv

\* The cache with an entry replaced.
Put(q, e, h) == [q EXCEPT !.entry = [@ EXCEPT ![e] = h]]

LEMMA PutGives ==
  ASSUME NEW q \in Caches, NEW e \in Entries, NEW h \in EntryRecs
  PROVE  /\ Put(q, e, h) \in Caches /\ Put(q, e, h).current = q.current
         /\ Put(q, e, h).entry[e] = h
         /\ \A d \in Entries : d # e => Put(q, e, h).entry[d] = q.entry[d]
<1>1. [q.entry EXCEPT ![e] = h] \in [Entries -> EntryRecs]
  BY DEF Caches
<1> QED
  BY <1>1 DEF Put, Caches

LEMMA PutFollows ==
  ASSUME NEW q, NEW s, Follows(q, s), NEW e \in Entries, NEW h \in EntryRecs,
         IF e = q.current THEN Cell(h, s) ELSE ~Unused(e)
  PROVE  Follows(Put(q, e, h), s)
<1>1. q \in Caches
  BY DEF Follows
<1> DEFINE r == Put(q, e, h)
<1>2. /\ r \in Caches /\ r.current = q.current /\ r.entry[e] = h
      /\ \A d \in Entries : d # e => r.entry[d] = q.entry[d]
  BY <1>1, PutGives
<1> HIDE DEF r
<1>3. r.current # Nothing => r.current \in Entries
  BY <1>2 DEF Caches
<1>4. Follows(r, s)
  BY <1>2, <1>3 DEF Follows
<1> QED
  BY <1>4 DEF r

-----------------------------------------------------------------------------
(* Components that listen, and what their refetches wait for *)

\* A component is mounted while it listens to an entry, and to one only.
Heard ==
  /\ \A d, e \in Entries : d # e => entry[d].listeners \cap entry[e].listeners = {}
  /\ \A c \in Components : Mounted(c) <=> \E e \in Entries : c \in entry[e].listeners

\* A refetch waits for a request that runs, for the entry that its component
\* listens to, and that the server answered after the call, if at all.
AskedSafe(c) ==
  /\ ~Mounted(c) => asked[c] = Nothing
  /\ asked[c] # Nothing => asked[c].version <= server
  /\ asked[c] # Nothing /\ asked[c].of # Nothing =>
       /\ Running(asked[c].of) /\ request[asked[c].of].entry \in Entries
       /\ request[asked[c].of].phase = "answered" => request[asked[c].of].version >= asked[c].version
       /\ ListensOn(c) => request[asked[c].of].entry = current

AskedTyped == asked \in [Components -> AskedRecs \cup {Nothing}]
AskedBacked == AskedTyped /\ \A c \in Components : AskedSafe(c)

SeesWrites(c) ==
  asked[c] # Nothing /\ asked[c].of = Nothing /\ ListensOn(c)
    => shown[c].data # Nothing /\ shown[c].data >= asked[c].version
LoadingBacked(c) ==
  ListensOn(c) /\ shown[c].loading => \E f \in Requests : Running(f) /\ request[f].entry = current

QueryInv ==
  /\ DataInv /\ Heard /\ AskedBacked
  /\ \A c \in Components : SeesWrites(c) /\ LoadingBacked(c)

LEMMA PendingGives ==
  ASSUME AskedTyped
  PROVE  /\ Pending \in [Components -> AskedRecs \cup {Nothing}]
         /\ \A c \in Components : Pending[c] # Nothing =>
              Pending[c] = asked[c] /\ asked[c] # Nothing /\ asked[c].of \in Requests
BY DEF AskedTyped, Pending, AskedRecs

\* A step that leaves a component's refetch waiting, or takes it away.
LEMMA AskedStays ==
  ASSUME QueryInv, NEW d \in Components, server' \in Nat, server <= server',
         asked'[d] \in {Pending[d], Nothing},
         ~Mounted(d)' => ~Mounted(d) \/ asked'[d] = Nothing,
         asked'[d] # Nothing /\ ListensOn(d)' => ListensOn(d) /\ current' = current,
         asked'[d] # Nothing =>
           \A f \in Requests : f = asked[d].of =>
             /\ Running(f)' /\ request'[f].entry = request[f].entry
             /\ request'[f].phase = "answered" =>
                  \/ request[f].phase = "answered" /\ request'[f].version = request[f].version
                  \/ request'[f].version = server
  PROVE  AskedSafe(d)' /\ SeesWrites(d)'
<1>1. QueryTypes /\ AskedTyped /\ AskedSafe(d)
  BY DEF QueryInv, DataInv, AskedBacked
<1>2. Pending[d] # Nothing => Pending[d] = asked[d] /\ asked[d] # Nothing /\ asked[d].of \in Requests
  BY <1>1, PendingGives
<1>3. CASE asked'[d] = Nothing
  BY <1>3 DEF AskedSafe, SeesWrites
<1>4. CASE asked'[d] # Nothing
  <2>1. asked'[d] = asked[d] /\ asked[d] # Nothing /\ asked[d].of \in Requests /\ asked[d].of # Nothing
    BY <1>2, <1>4, QueryAssumption
  <2>2. asked[d].version \in Nat /\ server \in Nat
    BY <1>1, <2>1, QueryAssumption DEF QueryTypes, AskedTyped, AskedRecs
  <2>3. asked[d].version <= server /\ Mounted(d)
    BY <1>1, <2>1 DEF AskedSafe
  <2>4. Mounted(d)'
    BY <1>4, <2>3
  <2> QED
    BY <1>1, <1>4, <2>1, <2>2, <2>3, <2>4 DEF AskedSafe, SeesWrites
<1> QED
  BY <1>3, <1>4

LEMMA LoadingStays ==
  ASSUME QueryInv, NEW d \in Components,
         ListensOn(d)' => ListensOn(d) /\ current' = current /\ shown'[d] = shown[d],
         \A f \in Requests : Running(f) /\ request[f].entry = current =>
           Running(f)' /\ request'[f].entry = request[f].entry
  PROVE  LoadingBacked(d)'
BY DEF QueryInv, LoadingBacked

-----------------------------------------------------------------------------
(* Requests that start *)

LEMMA SnapshotTyped ==
  ASSUME NEW q \in Caches PROVE Snapshot(q) \in Views /\ Snapshot(q) # Nothing
<1>1. Nothing \in Value
  BY DEF Value
<1>2. Snapshot(q) \in Views
  <2>1. CASE q.current = Nothing
    BY <1>1, <2>1 DEF Snapshot, Views
  <2>2. CASE q.current # Nothing
    <3>1. q.entry[q.current] \in EntryRecs
      BY <2>2 DEF Caches
    <3> DEFINE e == q.entry[q.current]
    <3>2. e.data \in Value /\ e.error \in BOOLEAN
      BY <3>1 DEF EntryRecs
    <3>3. Snapshot(q) = [data |-> e.data, error |-> e.error,
                         loading |-> e.data = Nothing /\ ~e.error /\ (e.fetching \/ e.updated = Never)]
      BY <2>2 DEF Snapshot, Entry
    <3> HIDE DEF e
    <3>4. (e.data = Nothing /\ ~e.error /\ (e.fetching \/ e.updated = Never)) \in BOOLEAN
      OBVIOUS
    <3> QED
      BY <3>2, <3>3, <3>4 DEF Views
  <2> QED
    BY <2>1, <2>2
<1> QED
  BY <1>2, NoneAssumption DEF Views, Value

\* The look at the query of those who listen: at the current entry, which they
\* may create.
LEMMA LookGives ==
  ASSUME DataInv, NEW q, NEW s, Follows(q, s), Usable(s), Room
  PROVE  /\ Follows(Look(q, s), s) /\ Look(q, s) \in Caches
         /\ Awaits(q) => Awaits(Look(q, s))
         /\ q.current # Nothing =>
              /\ Look(q, s).current = q.current
              /\ Look(q, s).entry[q.current] \in {q.entry[q.current], Hydrate(q.entry[q.current], s)}
         /\ q.current = Nothing => Look(q, s).current = Nothing \/ Unused(Look(q, s).current)
         /\ \A e \in Entries : Look(q, s).entry[e].listeners = q.entry[e].listeners
<1>1. q \in Caches /\ s \in SavedRecs \cup {Nothing} /\ server \in Nat
  BY DataFollows DEF Follows, Usable
<1>2. Data # Nothing => Data \in 0..server
  BY DEF DataInv, ValuesServed
<1>3. CASE persists
  <2> DEFINE g == GetOrCreate(q)
  <2>1. /\ g \in Caches /\ g.current \in Entries /\ g.entry = q.entry
        /\ q.current # Nothing => g = q
        /\ q.current = Nothing => Unused(g.current)
    BY <1>1, CreateGives DEF Follows, Room
  <2>2. Follows(g, s) /\ (Awaits(q) => Awaits(g))
    BY CreateFollows
  <2> HIDE DEF g
  <2>3. Follows(Hydrated(g, s), s) /\ (Awaits(g) => Awaits(Hydrated(g, s)))
    BY <1>1, <1>2, <2>1, <2>2, HydratedFollows
  <2>4. /\ Hydrated(g, s) \in Caches /\ Hydrated(g, s).current = g.current
        /\ Hydrated(g, s).entry[g.current] = Hydrate(g.entry[g.current], s)
        /\ \A e \in Entries : Hydrated(g, s).entry[e].listeners = g.entry[e].listeners
    BY <1>1, <2>1, HydratedGives
  <2>5. Look(q, s) = Hydrated(g, s)
    BY <1>3 DEF Look, g
  <2> QED
    BY <2>1, <2>2, <2>3, <2>4, <2>5
<1>4. CASE ~persists
  BY <1>1, <1>4 DEF Look
<1> QED
  BY <1>3, <1>4

LEMMA NotifyGives ==
  ASSUME DataInv, NEW q, NEW e, NEW s, Follows(q, s), Usable(s), Room
  PROVE  /\ Follows(Notify(q, e, s), s) /\ Notify(q, e, s) \in Caches
         /\ Awaits(q) => Awaits(Notify(q, e, s))
         /\ q.current # Nothing =>
              /\ Notify(q, e, s).current = q.current
              /\ Notify(q, e, s).entry[q.current] \in {q.entry[q.current], Hydrate(q.entry[q.current], s)}
         /\ q.current = Nothing => Notify(q, e, s).current = Nothing \/ Unused(Notify(q, e, s).current)
         /\ \A d \in Entries : Notify(q, e, s).entry[d].listeners = q.entry[d].listeners
<1>1. CASE q.entry[e].listeners = {}
  BY <1>1 DEF Notify, Follows
<1>2. CASE q.entry[e].listeners # {}
  BY <1>2, LookGives DEF Notify
<1> QED
  BY <1>1, <1>2

LEMMA StartGives ==
  ASSUME DataInv, Room, NEW q, Follows(q, saved), q.current \in Entries, NEW f \in Requests
  PROVE  /\ Follows(Start(q, f), saved) /\ Start(q, f) \in Caches /\ Start(q, f).current = q.current
         /\ Start(q, f).entry[q.current].inflight = f
         /\ \A e \in Entries : Start(q, f).entry[e].listeners = q.entry[e].listeners
<1> DEFINE c == q.current
           h == [q.entry[c] EXCEPT !.fetching = TRUE, !.error = FALSE]
           b == Put(q, c, h)
           told == Notify(b, c, saved)
           g == [told.entry[c] EXCEPT !.inflight = f]
<1>1. q \in Caches /\ q.entry[c] \in EntryRecs /\ Usable(saved) /\ c \in Entries /\ c # Nothing
  BY DataFollows, QueryAssumption DEF Follows, Caches
<1>2. h \in EntryRecs /\ h.data = q.entry[c].data /\ h.updated = q.entry[c].updated
      /\ h.listeners = q.entry[c].listeners
  BY <1>1 DEF EntryRecs
<1>3. [q EXCEPT !.entry[c].fetching = TRUE, !.entry[c].error = FALSE] = b
  BY <1>1 DEF Put, Caches
<1> HIDE DEF h
<1>4. Cell(q.entry[c], saved) /\ Cell(h, saved)
  BY <1>1, <1>2 DEF Follows, Cell
<1>5. /\ Follows(b, saved) /\ b.current = c /\ b.entry[c] = h /\ b \in Caches
      /\ \A d \in Entries : d # c => b.entry[d] = q.entry[d]
  BY <1>1, <1>2, <1>4, PutGives, PutFollows
<1> HIDE DEF b
<1>6. /\ Follows(told, saved) /\ told \in Caches /\ told.current = c
      /\ \A d \in Entries : told.entry[d].listeners = b.entry[d].listeners
  BY <1>1, <1>5, NotifyGives
<1>7. [told EXCEPT !.entry[c].inflight = f] = Put(told, c, g)
  BY <1>6 DEF Put, Caches
<1>8. Start(q, f) = Put(told, c, g)
  BY <1>3, <1>7 DEF Start
<1> HIDE DEF told
<1>9. told.entry[c] \in EntryRecs /\ Cell(told.entry[c], saved)
  BY <1>1, <1>6 DEF Follows, Caches
<1>10. g \in EntryRecs /\ g.data = told.entry[c].data /\ g.updated = told.entry[c].updated
       /\ g.listeners = told.entry[c].listeners /\ g.inflight = f
  BY <1>9 DEF EntryRecs
<1> HIDE DEF g, c
<1>11. Cell(g, saved)
  BY <1>9, <1>10 DEF Cell
<1>12. /\ Follows(Put(told, c, g), saved) /\ Put(told, c, g) \in Caches /\ Put(told, c, g).current = told.current
       /\ Put(told, c, g).entry[c] = g
       /\ \A d \in Entries : d # c => Put(told, c, g).entry[d] = told.entry[d]
  BY <1>1, <1>6, <1>10, <1>11, PutGives, PutFollows
<1>13. \A e \in Entries : Put(told, c, g).entry[e].listeners = q.entry[e].listeners
  BY <1>2, <1>5, <1>6, <1>10, <1>12
<1> QED
  BY <1>6, <1>8, <1>10, <1>12, <1>13 DEF c

Sent(e) == [Free EXCEPT !.phase = "sent", !.entry = e]

LEMMA IssueGives ==
  ASSUME QueryTypes, Idle # {}, NEW e \in Entries \cup {Nothing}, Issue(NewRequest, e)
  PROVE  /\ NewRequest \in Requests /\ ~Running(NewRequest)
         /\ request' \in [Requests -> RequestRecs]
         /\ request'[NewRequest].phase = "sent" /\ request'[NewRequest].entry = e
         /\ \A f \in Requests : f # NewRequest => request'[f] = request[f]
         /\ \A f \in Requests : Running(f) => request'[f] = request[f]
         /\ AnswersStay
<1>1. NewRequest \in Requests /\ ~Running(NewRequest)
  BY DEF NewRequest, Idle
<1>2. request' = [request EXCEPT ![NewRequest] = Sent(e)]
  BY DEF Issue, Sent
<1>3. Sent(e) \in RequestRecs /\ Sent(e).phase = "sent" /\ Sent(e).entry = e
  BY BlankTyped DEF Sent, Free, RequestRecs
<1> QED
  BY <1>1, <1>2, <1>3 DEF QueryTypes, AnswersStay

\* runApiQuery from the look at the entry on.
LEMMA RunGives ==
  ASSUME DataInv, Room, NEW q, NEW force, Follows(q, saved), Awaits(q), q.current \in Entries,
         StartOrServe(q, force), UNCHANGED <<outside, saved>>,
         ~Starts(q, force) => shown' \in [Components -> Views \cup {Nothing}]
  PROVE  /\ DataInv' /\ PromiseStep
         /\ current' = q.current
         /\ \A e \in Entries : entry'[e].listeners = q.entry[e].listeners
         /\ \A f \in Requests : Running(f) => request'[f] = request[f]
         /\ Starts(q, force) =>
              /\ NewRequest \in Requests
              /\ request'[NewRequest].phase = "sent" /\ request'[NewRequest].entry = current'
              /\ entry'[current'].inflight = NewRequest
              /\ \A c \in Components : IF c \in q.entry[q.current].listeners
                                       THEN shown'[c] # Nothing ELSE shown'[c] = shown[c]
         /\ ~Starts(q, force) => request' = request
<1>1. QueryTypes /\ Usable(saved) /\ Usable(saved')
  BY DataFollows DEF DataInv
<1>2. CASE Starts(q, force)
  <2> DEFINE f == NewRequest
             r == Start(q, f)
  <2>1. Idle # {} /\ Issue(f, q.current) /\ Commit(r) /\ Renders(r, q.current, saved)
    BY <1>2 DEF StartOrServe
  <2>2. /\ f \in Requests /\ ~Running(f) /\ request' \in [Requests -> RequestRecs]
        /\ request'[f].phase = "sent" /\ request'[f].entry = q.current
        /\ \A g \in Requests : g # f => request'[g] = request[g]
        /\ \A g \in Requests : Running(g) => request'[g] = request[g]
        /\ AnswersStay
    BY <1>1, <2>1, IssueGives
  <2>3. /\ Follows(r, saved) /\ r \in Caches /\ r.current = q.current
        /\ r.entry[q.current].inflight = f
        /\ \A e \in Entries : r.entry[e].listeners = q.entry[e].listeners
    BY <2>2, StartGives
  <2> HIDE DEF r, f
  <2>4. Snapshot(Look(r, saved)) \in Views /\ Snapshot(Look(r, saved)) # Nothing
    BY <1>1, <2>3, LookGives, SnapshotTyped
  <2>5. /\ shown' \in [Components -> Views \cup {Nothing}]
        /\ \A c \in Components : IF c \in q.entry[q.current].listeners
                                 THEN shown'[c] # Nothing ELSE shown'[c] = shown[c]
    BY <1>1, <2>1, <2>3, <2>4 DEF Renders, QueryTypes
  <2>6. Backed(r)
    BY <2>2, <2>3 DEF Backed
  <2>7. Follows(r, saved') /\ UNCHANGED outside
    BY <2>3
  <2>8. DataInv' /\ PromiseStep
    BY <1>1, <2>1, <2>2, <2>5, <2>6, <2>7, Settled
  <2>9. /\ current' = q.current /\ entry'[current'].inflight = f
        /\ \A e \in Entries : entry'[e].listeners = q.entry[e].listeners
    BY <2>1, <2>3, CommitGives, QueryAssumption
  <2> QED
    BY <1>2, <2>2, <2>5, <2>8, <2>9 DEF f
<1>3. CASE ~Starts(q, force)
  <2>1. request' = request /\ Commit(q) /\ q \in Caches
    BY <1>3 DEF StartOrServe, Follows
  <2>2. Backed(q)
    BY <2>1, QueryAssumption DEF Backed, Awaits, DataInv, InflightBacked, Tracked, Running
  <2>3. AnswersStay /\ Follows(q, saved') /\ UNCHANGED outside /\ request' \in [Requests -> RequestRecs]
    BY <1>1, <2>1 DEF AnswersStay, QueryTypes
  <2>4. DataInv' /\ PromiseStep
    BY <1>1, <1>3, <2>1, <2>2, <2>3, Settled
  <2>5. current' = q.current /\ \A e \in Entries : entry'[e].listeners = q.entry[e].listeners
    BY <2>1, CommitGives
  <2> QED
    BY <1>3, <2>1, <2>4, <2>5
<1> QED
  BY <1>2, <1>3

\* The entries' listeners are left alone, and the current entry too, or one
\* comes that nothing listens to.
EarsStay ==
  /\ \A e \in Entries : entry'[e].listeners = entry[e].listeners
  /\ current' \in {current, Nothing} \/ Unused(current')

LEMMA EarsGive ==
  ASSUME QueryTypes, QueryTypes', EarsStay
  PROVE  \A d \in Components :
           /\ ListensOn(d)' => ListensOn(d) /\ current' = current
           /\ ListensOn(d) /\ current' = current => ListensOn(d)'
<1>1. \A e \in Entries : Unused(e) => entry[e].listeners = {}
  BY DEF Unused, Blank
<1>2. Nothing \notin Entries
  BY QueryAssumption
<1> QED
  BY <1>1, <1>2 DEF EarsStay, ListensOn, QueryTypes

LEMMA HeardStays ==
  ASSUME Heard, EarsStay, \A d \in Components : Mounted(d)' <=> Mounted(d)
  PROVE  Heard'
BY DEF Heard, EarsStay

\* A step that leaves the requests that run alone.
LEMMA AskedUndisturbed ==
  ASSUME QueryInv, NEW d \in Components, server' = server,
         asked'[d] \in {Pending[d], Nothing},
         \A f \in Requests : Running(f) => request'[f] = request[f],
         ~Mounted(d)' => ~Mounted(d) \/ asked'[d] = Nothing,
         asked'[d] # Nothing /\ ListensOn(d)' => ListensOn(d) /\ current' = current
  PROVE  AskedSafe(d)' /\ SeesWrites(d)'
<1>1. AskedTyped /\ AskedSafe(d) /\ server \in Nat
  BY DataFollows DEF QueryInv, AskedBacked
<1>2. asked'[d] # Nothing => \A f \in Requests : f = asked[d].of => Running(f) /\ request'[f] = request[f]
  <2> SUFFICES ASSUME asked'[d] # Nothing, NEW f \in Requests, f = asked[d].of
               PROVE  Running(f) /\ request'[f] = request[f]
    OBVIOUS
  <2>1. asked[d] # Nothing /\ asked[d].of # Nothing
    BY <1>1, PendingGives, QueryAssumption
  <2> QED
    BY <1>1, <2>1 DEF AskedSafe
<1>3. asked'[d] # Nothing =>
        \A f \in Requests : f = asked[d].of =>
          /\ Running(f)' /\ request'[f].entry = request[f].entry
          /\ request'[f].phase = "answered" =>
               \/ request[f].phase = "answered" /\ request'[f].version = request[f].version
               \/ request'[f].version = server
  BY <1>2 DEF Running
<1> QED
  BY <1>1, <1>3, AskedStays

LEMMA RefetchSafe ==
  ASSUME QueryInv, NEW c \in Components, Refetch(c)
  PROVE  /\ QueryInv' /\ PromiseStep
         /\ \A d \in Components : ListensOn(d) => ListensOn(d)'
<1> DEFINE g == GetOrCreate(Cache)
           q == Hydrated(g, saved)
<1>1. DataInv /\ QueryTypes /\ Room /\ Mounted(c) /\ UNCHANGED <<outside, saved>>
  BY DEF QueryInv, DataInv, Refetch
<1>2. Follows(Cache, saved) /\ Awaits(Cache) /\ Usable(saved) /\ server \in Nat
  BY <1>1, DataFollows
<1>3. Cache \in Caches /\ Cache.current = current /\ Cache.entry = entry
  BY <1>2 DEF Follows, Cache
<1>4. /\ Follows(g, saved) /\ g.current \in Entries /\ Awaits(g) /\ g \in Caches /\ g.entry = entry
      /\ current # Nothing => g.current = current
      /\ current = Nothing => Unused(g.current)
  BY <1>1, <1>2, <1>3, CreateFollows, CreateGives DEF Room
<1> HIDE DEF g
<1>5. Follows(q, saved) /\ Awaits(q)
  BY <1>1, <1>2, <1>4, HydratedFollows DEF DataInv, ValuesServed
<1>6. q.current = g.current /\ \A e \in Entries : q.entry[e].listeners = entry[e].listeners
  BY <1>2, <1>4, HydratedGives DEF Usable
<1> HIDE DEF q
<1>7. /\ StartOrServe(q, TRUE) /\ (~Starts(q, TRUE) => UNCHANGED shown)
      /\ asked' = [Pending EXCEPT ![c] =
                     IF Starts(q, TRUE) THEN [of |-> entry'[current'].inflight, version |-> server] ELSE Nothing]
  BY DEF Refetch, q, g
<1>8. /\ DataInv' /\ PromiseStep /\ current' = q.current
      /\ \A e \in Entries : entry'[e].listeners = q.entry[e].listeners
      /\ \A f \in Requests : Running(f) => request'[f] = request[f]
      /\ Starts(q, TRUE) =>
           /\ NewRequest \in Requests
           /\ request'[NewRequest].phase = "sent" /\ request'[NewRequest].entry = current'
           /\ entry'[current'].inflight = NewRequest
           /\ \A d \in Components : IF d \in q.entry[q.current].listeners
                                    THEN shown'[d] # Nothing ELSE shown'[d] = shown[d]
      /\ ~Starts(q, TRUE) => request' = request
  BY <1>1, <1>4, <1>5, <1>6, <1>7, RunGives DEF QueryTypes
<1>9. EarsStay /\ current' \in Entries /\ (current # Nothing => current' = current)
  BY <1>4, <1>6, <1>8 DEF EarsStay
<1>10. \A d \in Components : /\ ListensOn(d)' => ListensOn(d) /\ current' = current
                             /\ ListensOn(d) => ListensOn(d)'
  BY <1>1, <1>8, <1>9, EarsGive DEF DataInv, ListensOn
<1>11. server' = server /\ server \in 0..MaxVersion /\ Heard /\ AskedBacked /\ AskedTyped
  BY <1>1 DEF QueryInv, QueryTypes, outside, AskedBacked
<1>12. \A d \in Components : Mounted(d)' <=> Mounted(d)
  <2>1. CASE Starts(q, TRUE)
    <3>1. \A d \in Components : d \in q.entry[q.current].listeners => Mounted(d)
      BY <1>4, <1>6, <1>11 DEF Heard
    <3> QED
      BY <1>8, <2>1, <3>1 DEF Mounted
  <2>2. CASE ~Starts(q, TRUE)
    BY <1>7, <2>2 DEF Mounted
  <2> QED
    BY <2>1, <2>2
<1>13. Heard'
  BY <1>9, <1>11, <1>12, HeardStays
<1>14. Pending \in [Components -> AskedRecs \cup {Nothing}]
  BY <1>11, PendingGives
<1>15. ASSUME NEW d \in Components, d # c \/ ~Starts(q, TRUE)
       PROVE  asked'[d] \in {Pending[d], Nothing}
  BY <1>7, <1>14, <1>15
<1>16. ASSUME NEW d \in Components, d # c \/ ~Starts(q, TRUE)
       PROVE  AskedSafe(d)' /\ SeesWrites(d)'
  <2>1. asked'[d] \in {Pending[d], Nothing}
    BY <1>15, <1>16
  <2> QED
    BY <1>8, <1>10, <1>11, <1>12, <2>1, AskedUndisturbed
<1>17. ASSUME Starts(q, TRUE) PROVE AskedSafe(c)' /\ SeesWrites(c)' /\ AskedTyped'
  <2>1. asked'[c] = [of |-> NewRequest, version |-> server] /\ NewRequest # Nothing
    BY <1>7, <1>8, <1>14, <1>17, QueryAssumption
  <2>2. asked'[c] \in AskedRecs
    BY <1>8, <1>11, <1>17, <2>1 DEF AskedRecs
  <2>3. AskedTyped'
    BY <1>7, <1>14, <2>1, <2>2 DEF AskedTyped
  <2>4. Mounted(c)' /\ server' <= server
    BY <1>1, <1>2, <1>11, <1>12
  <2>5. /\ asked'[c].of # Nothing /\ asked'[c].version <= server'
        /\ request'[asked'[c].of].phase = "sent" /\ request'[asked'[c].of].entry = current'
    BY <1>2, <1>8, <1>11, <1>17, <2>1
  <2>6. AskedSafe(c)'
    BY <1>9, <2>4, <2>5 DEF AskedSafe, Running
  <2> QED
    BY <2>3, <2>5, <2>6 DEF SeesWrites
<1>18. ~Starts(q, TRUE) => AskedTyped'
  BY <1>7, <1>14 DEF AskedTyped
<1>19. ASSUME NEW d \in Components PROVE LoadingBacked(d)'
  <2>1. CASE Starts(q, TRUE)
    <3>1. \E f \in Requests : request'[f].phase = "sent" /\ request'[f].entry = current'
      BY <1>8, <2>1
    <3> QED
      BY <3>1 DEF LoadingBacked, Running
  <2>2. CASE ~Starts(q, TRUE)
    <3>1. shown' = shown /\ request' = request
      BY <1>7, <1>8, <2>2
    <3>2. \A f \in Requests : Running(f) /\ request[f].entry = current =>
            Running(f)' /\ request'[f].entry = request[f].entry
      BY <3>1 DEF Running
    <3> QED
      BY <1>10, <3>1, <3>2, LoadingStays
  <2> QED
    BY <2>1, <2>2
<1> QED
  BY <1>8, <1>10, <1>13, <1>16, <1>17, <1>18, <1>19 DEF QueryInv, AskedBacked

\* What has been hydrated is not hydrated again from the same copy.
LEMMA HydrateTwice ==
  ASSUME NEW e \in EntryRecs, NEW s \in SavedRecs \cup {Nothing}, NEW x \in EntryRecs,
         x.updated = Hydrate(e, s).updated
  PROVE  Hydrate(x, s) = x
<1> SUFFICES ASSUME persists, s # Nothing, s.age <= MaxAge, x.updated = Never \/ x.updated > s.age PROVE FALSE
  BY DEF Hydrate
<1>1. s.age \in Nat /\ s.age # Never
  BY QueryAssumption DEF SavedRecs
<1>2. CASE e.updated = Never \/ e.updated > s.age
  <2>1. Hydrate(e, s).updated = s.age
    BY <1>2 DEF Hydrate, EntryRecs
  <2> QED
    BY <1>1, <2>1
<1>3. CASE ~(e.updated = Never \/ e.updated > s.age)
  <2>1. Hydrate(e, s) = e
    BY <1>3 DEF Hydrate
  <2> QED
    BY <1>3, <2>1
<1> QED
  BY <1>2, <1>3

LEMMA MountSafe ==
  ASSUME QueryInv, NEW c \in Components, Mount(c)
  PROVE  /\ QueryInv' /\ PromiseStep
         /\ \A d \in Components : ListensOn(d) => ListensOn(d)'
<1> DEFINE look == Look(Cache, saved)
           g == GetOrCreate(look)
           n == g.current
           h == [g.entry[n] EXCEPT !.listeners = @ \cup {c}]
           m == Put(g, n, h)
           q == Hydrated(m, saved)
<1>1. DataInv /\ QueryTypes /\ Room /\ ~Mounted(c) /\ UNCHANGED <<outside, saved>>
  BY DEF QueryInv, DataInv, Mount
<1>2. Follows(Cache, saved) /\ Awaits(Cache) /\ Usable(saved) /\ server \in Nat
  BY <1>1, DataFollows
<1>3. Cache \in Caches /\ Cache.current = current /\ Cache.entry = entry
  BY <1>2 DEF Follows, Cache
<1>4. /\ Follows(look, saved) /\ look \in Caches /\ Awaits(look)
      /\ current # Nothing => look.current = current
      /\ current = Nothing => look.current = Nothing \/ Unused(look.current)
      /\ \A e \in Entries : look.entry[e].listeners = entry[e].listeners
  BY <1>1, <1>2, <1>3, LookGives
<1>5. persists => \E y \in EntryRecs : look.current \in Entries /\ look.entry[look.current] = Hydrate(y, saved)
  <2> SUFFICES ASSUME persists PROVE \E y \in EntryRecs :
                      look.current \in Entries /\ look.entry[look.current] = Hydrate(y, saved)
    OBVIOUS
  <2> DEFINE k == GetOrCreate(Cache)
  <2>1. k \in Caches /\ k.current \in Entries /\ look = Hydrated(k, saved)
    BY <1>1, <1>3, CreateGives DEF Look, Room
  <2> HIDE DEF k, look
  <2>2. look.current = k.current /\ look.entry[k.current] = Hydrate(k.entry[k.current], saved)
    BY <1>2, <2>1, HydratedGives DEF Usable
  <2> QED
    BY <2>1, <2>2 DEF Caches
<1>6. ~persists => look = Cache
  BY DEF Look
<1> HIDE DEF look
<1>7. /\ Follows(g, saved) /\ g \in Caches /\ n \in Entries /\ Awaits(g) /\ g.entry = look.entry
      /\ look.current # Nothing => g = look
      /\ look.current = Nothing => Unused(n)
  BY <1>1, <1>4, CreateFollows, CreateGives DEF Room
<1> HIDE DEF g
<1>8. /\ current # Nothing => n = current
      /\ current = Nothing => Unused(n)
  BY <1>1, <1>4, <1>7, QueryAssumption DEF QueryTypes
<1>9. g.entry[n] \in EntryRecs /\ Cell(g.entry[n], saved)
  BY <1>7, QueryAssumption DEF Caches, Follows
<1>10. /\ h \in EntryRecs /\ h.data = g.entry[n].data /\ h.updated = g.entry[n].updated
       /\ h.inflight = g.entry[n].inflight /\ h.listeners = g.entry[n].listeners \cup {c}
  BY <1>9 DEF EntryRecs
<1> HIDE DEF h
<1>11. Cell(h, saved)
  BY <1>9, <1>10 DEF Cell
<1>12. /\ Follows(m, saved) /\ m \in Caches /\ m.current = n /\ m.entry[n] = h
       /\ \A d \in Entries : d # n => m.entry[d] = g.entry[d]
  BY <1>7, <1>10, <1>11, PutFollows, PutGives
<1>13. Awaits(m)
  BY <1>7, <1>10, <1>12 DEF Awaits
<1>14. [g EXCEPT !.entry[n].listeners = @ \cup {c}] = m
  BY <1>7 DEF Put, Caches, h
<1> HIDE DEF m, n
<1>15. Follows(q, saved) /\ Awaits(q)
  BY <1>1, <1>2, <1>7, <1>12, <1>13, HydratedFollows DEF DataInv, ValuesServed
<1>16. /\ q.current = n /\ q.entry[n] = Hydrate(h, saved)
       /\ \A e \in Entries : q.entry[e].listeners = m.entry[e].listeners
  BY <1>2, <1>7, <1>12, HydratedGives DEF Usable
<1>17. \A e \in Entries : q.entry[e].listeners = IF e = n THEN entry[e].listeners \cup {c} ELSE entry[e].listeners
  <2> SUFFICES ASSUME NEW e \in Entries
               PROVE  q.entry[e].listeners = IF e = n THEN entry[e].listeners \cup {c} ELSE entry[e].listeners
    OBVIOUS
  <2>1. q.entry[e].listeners = m.entry[e].listeners /\ g.entry[e].listeners = entry[e].listeners
    BY <1>4, <1>7, <1>16
  <2>2. m.entry[e].listeners = IF e = n THEN g.entry[e].listeners \cup {c} ELSE g.entry[e].listeners
    BY <1>10, <1>12
  <2> QED
    BY <2>1, <2>2
<1> HIDE DEF q
<1>18. /\ StartOrServe(q, FALSE) /\ (~Starts(q, FALSE) => shown' = [shown EXCEPT ![c] = Snapshot(look)])
       /\ asked' = Pending
  BY <1>14 DEF Mount, q, g, n, look
<1>19. Snapshot(look) \in Views /\ Snapshot(look) # Nothing
  BY <1>4, SnapshotTyped
<1>20. ~Starts(q, FALSE) => shown' \in [Components -> Views \cup {Nothing}]
  BY <1>1, <1>18, <1>19 DEF QueryTypes
<1>21. /\ DataInv' /\ PromiseStep /\ current' = q.current
       /\ \A e \in Entries : entry'[e].listeners = q.entry[e].listeners
       /\ \A f \in Requests : Running(f) => request'[f] = request[f]
       /\ Starts(q, FALSE) =>
            /\ NewRequest \in Requests
            /\ request'[NewRequest].phase = "sent" /\ request'[NewRequest].entry = current'
            /\ entry'[current'].inflight = NewRequest
            /\ \A d \in Components : IF d \in q.entry[q.current].listeners
                                     THEN shown'[d] # Nothing ELSE shown'[d] = shown[d]
       /\ ~Starts(q, FALSE) => request' = request
  BY <1>1, <1>7, <1>15, <1>16, <1>18, <1>20, RunGives
<1>22. server' = server /\ server \in 0..MaxVersion /\ Heard /\ AskedBacked /\ AskedTyped
  BY <1>1 DEF QueryInv, QueryTypes, outside, AskedBacked
<1>23. current' = n /\ n # Nothing /\ (Unused(n) => entry[n].listeners = {})
  BY <1>7, <1>16, <1>21, QueryAssumption DEF Unused, Blank
<1>24. ASSUME NEW d \in Components
       PROVE  /\ d # c /\ ListensOn(d)' => ListensOn(d) /\ current' = current
              /\ ListensOn(d) => ListensOn(d)'
  BY <1>7, <1>8, <1>17, <1>21, <1>23, ZenonT(60) DEF ListensOn
<1>25. \A d \in Components : Mounted(d)' <=> Mounted(d) \/ d = c
  <2>1. CASE Starts(q, FALSE)
    <3>1. \A d \in Components : d \in q.entry[n].listeners => Mounted(d) \/ d = c
      BY <1>7, <1>17, <1>22 DEF Heard
    <3> QED
      BY <1>7, <1>16, <1>17, <1>21, <2>1, <3>1 DEF Mounted
  <2>2. CASE ~Starts(q, FALSE)
    BY <1>1, <1>18, <1>19, <2>2 DEF Mounted, QueryTypes
  <2> QED
    BY <2>1, <2>2
<1>26. Heard'
  <2>1. \A e \in Entries : c \notin entry[e].listeners
    BY <1>1, <1>22 DEF Heard
  <2>2. \A e \in Entries : entry'[e].listeners = IF e = n THEN entry[e].listeners \cup {c} ELSE entry[e].listeners
    BY <1>17, <1>21
  <2>3. \A d, e \in Entries : d # e => entry'[d].listeners \cap entry'[e].listeners = {}
    <3> SUFFICES ASSUME NEW d \in Entries, NEW e \in Entries, d # e, NEW x,
                        x \in entry'[d].listeners, x \in entry'[e].listeners
                 PROVE  FALSE
      OBVIOUS
    <3>1. x \notin entry[d].listeners \/ x \notin entry[e].listeners
      BY <1>22 DEF Heard
    <3> QED
      BY <2>1, <2>2, <3>1
  <2>4. \A d \in Components : Mounted(d)' <=> \E e \in Entries : d \in entry'[e].listeners
    BY <1>7, <1>22, <1>25, <2>2, ZenonT(60) DEF Heard
  <2> QED
    BY <2>3, <2>4 DEF Heard
<1>27. AskedTyped' /\ \A d \in Components : asked'[d] = Pending[d] /\ (d = c => asked'[d] = Nothing)
  <2>1. asked[c] = Nothing
    BY <1>1, <1>22 DEF AskedBacked, AskedSafe
  <2> QED
    BY <1>18, <1>22, <2>1, PendingGives DEF AskedTyped
<1>28. ASSUME NEW d \in Components PROVE AskedSafe(d)' /\ SeesWrites(d)'
  <2>1. asked'[d] # Nothing /\ ListensOn(d)' => ListensOn(d) /\ current' = current
    BY <1>24, <1>27
  <2>2. ~Mounted(d)' => ~Mounted(d)
    BY <1>25
  <2> QED
    BY <1>21, <1>22, <1>27, <2>1, <2>2, AskedUndisturbed
<1>29. ASSUME NEW d \in Components PROVE LoadingBacked(d)'
  <2>1. CASE Starts(q, FALSE)
    <3>1. \E f \in Requests : request'[f].phase = "sent" /\ request'[f].entry = current'
      BY <1>21, <2>1
    <3> QED
      BY <3>1 DEF LoadingBacked, Running
  <2>2. CASE ~Starts(q, FALSE) /\ d # c
    <3>1. shown'[d] = shown[d] /\ request' = request
      BY <1>1, <1>18, <1>21, <2>2 DEF QueryTypes
    <3>2. \A f \in Requests : Running(f) /\ request[f].entry = current =>
            Running(f)' /\ request'[f].entry = request[f].entry
      BY <3>1 DEF Running
    <3>3. ListensOn(d)' => ListensOn(d) /\ current' = current
      BY <1>24, <2>2
    <3> QED
      BY <3>1, <3>2, <3>3, LoadingStays
  <2>3. CASE ~Starts(q, FALSE) /\ d = c /\ ~Snapshot(look).loading
    BY <1>1, <1>18, <2>3 DEF LoadingBacked, QueryTypes
  <2>4. CASE ~Starts(q, FALSE) /\ d = c /\ Snapshot(look).loading
    <3>1. g.entry[n].data = Nothing
      <4>1. CASE look.current = Nothing
        <5>1. g.entry[n] = Blank
          BY <1>1, <1>3, <1>5, <1>6, <1>7, <4>1, QueryAssumption DEF Unused
        <5> QED
          BY <5>1 DEF Blank
      <4>2. CASE look.current # Nothing
        BY <1>7, <2>4, <4>2 DEF Snapshot, Entry, n
      <4> QED
        BY <4>1, <4>2
    <3>2. Hydrate(h, saved) = h
      <4>1. CASE persists
        <5>1. look.current # Nothing /\ g = look
          BY <1>5, <1>7, <4>1, QueryAssumption
        <5>2. \E y \in EntryRecs : g.entry[n] = Hydrate(y, saved)
          BY <1>5, <4>1, <5>1 DEF n
        <5> QED
          BY <1>2, <1>10, <5>2, HydrateTwice DEF Usable
      <4>2. CASE ~persists
        BY <4>2 DEF Hydrate
      <4> QED
        BY <4>1, <4>2
    <3>3. q.entry[q.current].data = Nothing
      BY <1>10, <1>16, <3>1, <3>2
    <3>4. q.entry[q.current].inflight # Nothing
      BY <2>4, <3>3 DEF Starts, Entry
    <3>5. q.current # Nothing
      BY <1>16, <1>23
    <3>6. current # Nothing /\ q.current = current /\ entry[current].inflight # Nothing
      BY <1>15, <3>4, <3>5 DEF Awaits
    <3>7. entry[current].inflight \in Requests
      BY <1>1, <3>6 DEF QueryTypes, EntryRecs
    <3>8. Tracked(entry[current].inflight)
      BY <3>6 DEF Tracked
    <3>9. \E f \in Requests : Running(f) /\ request[f].entry = current
      BY <1>1, <3>7, <3>8 DEF DataInv, InflightBacked
    <3> QED
      BY <1>21, <2>4, <3>6, <3>9 DEF LoadingBacked, Running
  <2> QED
    BY <2>1, <2>2, <2>3, <2>4
<1> QED
  BY <1>21, <1>24, <1>26, <1>27, <1>28, <1>29 DEF QueryInv, AskedBacked

-----------------------------------------------------------------------------
(* Steps that render nothing for those who listen *)

\* What a request that an entry may wait for does in such a step.
RequestsGoOn ==
  \A f \in Requests : Running(f) /\ request[f].entry \in Entries =>
    /\ Running(f)' /\ request'[f].entry = request[f].entry
    /\ request'[f].phase = "answered" =>
         \/ request[f].phase = "answered" /\ request'[f].version = request[f].version
         \/ request'[f].version = server

LEMMA QuietStep ==
  ASSUME QueryInv, DataInv', EarsStay, RequestsGoOn, server' \in Nat, server <= server', asked' = Pending,
         \A d \in Components : Mounted(d)' <=> Mounted(d),
         \A d \in Components : ListensOn(d)' => shown'[d] = shown[d]
  PROVE  QueryInv'
<1>1. QueryTypes /\ QueryTypes' /\ Heard /\ AskedTyped /\ AskedBacked
  BY DEF QueryInv, DataInv, AskedBacked
<1>2. Heard'
  BY <1>1, HeardStays
<1>3. AskedTyped'
  BY <1>1, PendingGives DEF AskedTyped
<1>4. ASSUME NEW d \in Components PROVE ListensOn(d)' => ListensOn(d) /\ current' = current
  BY <1>1, EarsGive
<1>5. ASSUME NEW d \in Components PROVE AskedSafe(d)' /\ SeesWrites(d)'
  <2>1. asked'[d] = Pending[d] /\ (~Mounted(d)' => ~Mounted(d))
    OBVIOUS
  <2>2. asked'[d] # Nothing =>
          \A f \in Requests : f = asked[d].of => Running(f) /\ request[f].entry \in Entries
    <3> SUFFICES ASSUME asked'[d] # Nothing, NEW f \in Requests, f = asked[d].of
                 PROVE  Running(f) /\ request[f].entry \in Entries
      OBVIOUS
    <3>1. asked[d] # Nothing /\ asked[d].of # Nothing
      BY <1>1, <2>1, PendingGives, QueryAssumption
    <3> QED
      BY <1>1, <3>1 DEF AskedBacked, AskedSafe
  <2>3. asked'[d] # Nothing =>
          \A f \in Requests : f = asked[d].of =>
            /\ Running(f)' /\ request'[f].entry = request[f].entry
            /\ request'[f].phase = "answered" =>
                 \/ request[f].phase = "answered" /\ request'[f].version = request[f].version
                 \/ request'[f].version = server
    BY <2>2 DEF RequestsGoOn
  <2> QED
    BY <1>4, <2>1, <2>3, AskedStays
<1>6. ASSUME NEW d \in Components PROVE LoadingBacked(d)'
  <2>1. CASE ListensOn(d)' /\ shown'[d].loading
    <3>1. ListensOn(d) /\ shown[d].loading /\ current' = current /\ current \in Entries
      BY <1>1, <1>4, <2>1 DEF ListensOn, QueryTypes
    <3>2. \E f \in Requests : Running(f) /\ request[f].entry = current
      BY <3>1 DEF QueryInv, LoadingBacked
    <3>3. \E f \in Requests : Running(f)' /\ request'[f].entry = current
      BY <3>1, <3>2 DEF RequestsGoOn
    <3> QED
      BY <3>1, <3>3 DEF LoadingBacked
  <2>2. CASE ~(ListensOn(d)' /\ shown'[d].loading)
    BY <2>2 DEF LoadingBacked
  <2> QED
    BY <2>1, <2>2
<1> QED
  BY <1>2, <1>3, <1>5, <1>6 DEF QueryInv, AskedBacked

\* A step of the requests alone.
LEMMA RequestMoves ==
  ASSUME QueryInv, UNCHANGED <<outside, entry, current, saved, shown>>, asked' = Pending,
         request' \in [Requests -> RequestRecs], RequestsGoOn,
         \A f \in Requests : request'[f].phase = "answered" => request'[f].version \in 0..server
  PROVE  /\ QueryInv' /\ PromiseStep
         /\ \A d \in Components : ListensOn(d) => ListensOn(d)'
<1>1. DataInv /\ QueryTypes /\ server \in Nat /\ UNCHANGED <<server, persists>> /\ Data' = Data
  BY DataFollows DEF QueryInv, DataInv, outside, Data
<1>2. QueryTypes' /\ ValuesServed' /\ Dated' /\ SavedIsNewer'
  BY <1>1 DEF DataInv, QueryTypes, ValuesServed, Dated, SavedIsNewer
<1>3. InflightBacked'
  <2> SUFFICES ASSUME NEW f \in Requests, Tracked(f)'
               PROVE  /\ Running(f)' /\ request'[f].entry = current'
                      /\ (request'[f].phase = "answered" /\ Data' # Nothing) => request'[f].version >= Data'
    BY DEF InflightBacked
  <2>1. Tracked(f)
    BY DEF Tracked
  <2>2. /\ Running(f) /\ request[f].entry = current /\ current \in Entries
        /\ (request[f].phase = "answered" /\ Data # Nothing) => request[f].version >= Data
    BY <1>1, <2>1 DEF DataInv, InflightBacked, Tracked, QueryTypes
  <2>3. Data # Nothing => Data \in 0..server
    BY <1>1 DEF DataInv, ValuesServed
  <2> QED
    BY <1>1, <2>2, <2>3 DEF RequestsGoOn
<1>4. EarsStay
  BY DEF EarsStay
<1>5. QueryInv'
  BY <1>1, <1>2, <1>3, <1>4, QuietStep DEF DataInv, Mounted
<1>6. PromiseStep
  BY <1>1 DEF PromiseStep
<1> QED
  BY <1>5, <1>6 DEF ListensOn

LEMMA RequestsSafe ==
  ASSUME QueryInv,
         \/ LoadPage
         \/ \E f \in Requests : Serve(f) \/ FailAndRetry(f) \/ Retry(f) \/ PageFails(f)
  PROVE  /\ QueryInv' /\ PromiseStep
         /\ \A d \in Components : ListensOn(d) => ListensOn(d)'
<1>1. QueryTypes /\ server \in 0..MaxVersion /\ server \in Nat /\ ValuesServed
  BY DataFollows DEF QueryInv, DataInv, QueryTypes
<1>3. UNCHANGED <<outside, entry, current, saved, shown>> /\ asked' = Pending
  BY DEF LoadPage, Serve, FailAndRetry, Retry, PageFails
<1>4. CASE LoadPage
  <2>1. Idle # {} /\ Issue(NewRequest, Nothing)
    BY <1>4 DEF LoadPage
  <2>2. /\ NewRequest \in Requests /\ ~Running(NewRequest)
        /\ request' \in [Requests -> RequestRecs]
        /\ request'[NewRequest].phase = "sent" /\ request'[NewRequest].entry = Nothing
        /\ \A f \in Requests : Running(f) => request'[f] = request[f]
        /\ AnswersStay
    BY <1>1, <2>1, IssueGives
  <2>3. RequestsGoOn
    BY <2>2 DEF RequestsGoOn, Running
  <2>4. \A f \in Requests : request'[f].phase = "answered" => request'[f].version \in 0..server
    BY <1>1, <2>2 DEF AnswersStay, ValuesServed
  <2> QED
    BY <1>3, <2>2, <2>3, <2>4, RequestMoves
<1>5. ASSUME NEW f \in Requests, Serve(f) \/ FailAndRetry(f) \/ Retry(f) \/ PageFails(f)
      PROVE  /\ request' \in [Requests -> RequestRecs] /\ RequestsGoOn
             /\ \A g \in Requests : request'[g].phase = "answered" => request'[g].version \in 0..server
  <2>1. request[f] \in RequestRecs /\ server \in Value
    BY <1>1, QueryAssumption DEF QueryTypes, Value
  <2>2. \E h \in RequestRecs :
          /\ request' = [request EXCEPT ![f] = h]
          /\ request[f].entry \in Entries => h.phase # "free" /\ h.entry = request[f].entry
          /\ h.phase = "answered" => h.version = server
    <3>1. CASE Serve(f)
      <4> DEFINE h == [request[f] EXCEPT !.phase = "answered", !.version = server, !.tries = 0]
      <4>0. 0 \in 0..Retries
        BY QueryAssumption
      <4>1. h \in RequestRecs /\ h.phase = "answered" /\ h.entry = request[f].entry /\ h.version = server
        BY <2>1, <4>0 DEF RequestRecs
      <4>2. request' = [request EXCEPT ![f] = h]
        BY <1>1, <3>1 DEF Serve, QueryTypes
      <4> QED
        BY <4>1, <4>2
    <3>2. CASE FailAndRetry(f)
      <4> DEFINE h == [request[f] EXCEPT !.phase = "asleep", !.tries = @ + 1]
      <4>1. request[f].tries + 1 \in 0..Retries
        BY <2>1, <3>2, QueryAssumption DEF FailAndRetry, RequestRecs
      <4>2. h \in RequestRecs /\ h.phase = "asleep" /\ h.entry = request[f].entry
        BY <2>1, <4>1 DEF RequestRecs
      <4>3. request' = [request EXCEPT ![f] = h]
        BY <1>1, <3>2 DEF FailAndRetry, QueryTypes
      <4> QED
        BY <4>2, <4>3
    <3>3. CASE Retry(f)
      <4> DEFINE h == [request[f] EXCEPT !.phase = "sent"]
      <4>1. h \in RequestRecs /\ h.phase = "sent" /\ h.entry = request[f].entry
        BY <2>1 DEF RequestRecs
      <4>2. request' = [request EXCEPT ![f] = h]
        BY <1>1, <3>3 DEF Retry, QueryTypes
      <4> QED
        BY <4>1, <4>2
    <3>4. CASE PageFails(f)
      <4>1. request' = [request EXCEPT ![f] = Free] /\ request[f].entry \notin Entries
        BY <3>4, QueryAssumption DEF PageFails
      <4> QED
        BY <4>1, BlankTyped DEF Free
    <3> QED
      BY <1>5, <3>1, <3>2, <3>3, <3>4
  <2>3. PICK h \in RequestRecs :
          /\ request' = [request EXCEPT ![f] = h]
          /\ request[f].entry \in Entries => h.phase # "free" /\ h.entry = request[f].entry
          /\ h.phase = "answered" => h.version = server
    BY <2>2
  <2>4. request' \in [Requests -> RequestRecs] /\ request'[f] = h
        /\ \A g \in Requests : g # f => request'[g] = request[g]
    BY <1>1, <2>3 DEF QueryTypes
  <2>5. RequestsGoOn
    BY <2>3, <2>4 DEF RequestsGoOn, Running
  <2>6. \A g \in Requests : request'[g].phase = "answered" => request'[g].version \in 0..server
    BY <1>1, <2>3, <2>4 DEF ValuesServed
  <2> QED
    BY <2>4, <2>5, <2>6
<1>6. CASE \E f \in Requests : Serve(f) \/ FailAndRetry(f) \/ Retry(f) \/ PageFails(f)
  BY <1>3, <1>5, <1>6, RequestMoves
<1> QED
  BY <1>4, <1>6

LEMMA ServerMovesSafe ==
  ASSUME QueryInv, ServerMoves
  PROVE  /\ QueryInv' /\ PromiseStep
         /\ \A d \in Components : ListensOn(d) => ListensOn(d)'
<1>1. /\ server' = server + 1 /\ server' \in 0..MaxVersion
      /\ UNCHANGED <<persists, entry, current, saved, request, shown>> /\ asked' = Pending
      /\ DataInv /\ server \in Nat
  BY DataFollows, QueryAssumption DEF QueryInv, DataInv, QueryTypes, ServerMoves
<1>2. Data' = Data
  BY <1>1 DEF Data
<1>3. QueryTypes'
  BY <1>1 DEF DataInv, QueryTypes
<1>4. Dated' /\ SavedIsNewer' /\ InflightBacked'
  BY <1>1, <1>2 DEF DataInv, Dated, SavedIsNewer, InflightBacked, Tracked, Running
<1>5. ValuesServed'
  <2>1. saved # Nothing => saved.value \in Nat
    BY <1>1 DEF DataInv, QueryTypes, SavedRecs
  <2> QED
    BY <1>1, <1>2, <2>1 DEF DataInv, ValuesServed
<1>6. EarsStay /\ RequestsGoOn
  BY <1>1 DEF EarsStay, RequestsGoOn, Running
<1>7. QueryInv'
  BY <1>1, <1>3, <1>4, <1>5, <1>6, QuietStep DEF DataInv, Mounted
<1>8. PromiseStep
  BY <1>1, <1>2 DEF PromiseStep, Promise!Next, Promise!ServerMoves, Untracked
<1> QED
  BY <1>1, <1>7, <1>8 DEF ListensOn

LEMMA OtherTabSavesSafe ==
  ASSUME QueryInv, OtherTabSaves
  PROVE  /\ QueryInv' /\ PromiseStep
         /\ \A d \in Components : ListensOn(d) => ListensOn(d)'
<1>1. /\ saved' = [age |-> 0, value |-> server, tracked |-> TRUE]
      /\ UNCHANGED <<server, persists, entry, current, request, shown>> /\ asked' = Pending
      /\ DataInv /\ server \in Nat /\ server \in 0..MaxVersion
  BY DataFollows DEF QueryInv, DataInv, QueryTypes, OtherTabSaves, outside
<1>2. Data' = Data /\ (current # Nothing => Data = entry[current].data)
  BY <1>1 DEF Data
<1>3. saved' \in SavedRecs
  BY <1>1, QueryAssumption DEF SavedRecs
<1>4. QueryTypes'
  BY <1>1, <1>3 DEF DataInv, QueryTypes
<1>5. Dated' /\ InflightBacked'
  BY <1>1, <1>2 DEF DataInv, Dated, InflightBacked, Tracked, Running
<1>6. ValuesServed'
  BY <1>1, <1>2 DEF DataInv, ValuesServed
<1>7. SavedIsNewer'
  <2> SUFFICES ASSUME current # Nothing, entry[current].updated # Never PROVE server >= entry[current].data
    BY <1>1 DEF SavedIsNewer
  <2>1. entry[current].data # Nothing
    BY <1>1 DEF DataInv, Dated
  <2> QED
    BY <1>1, <1>2, <2>1 DEF DataInv, ValuesServed
<1>8. EarsStay /\ RequestsGoOn
  BY <1>1 DEF EarsStay, RequestsGoOn, Running
<1>9. QueryInv'
  BY <1>1, <1>4, <1>5, <1>6, <1>7, <1>8, QuietStep DEF DataInv, Mounted
<1>10. PromiseStep
  BY <1>1, <1>2 DEF PromiseStep
<1> QED
  BY <1>1, <1>9, <1>10 DEF ListensOn

LEMMA TickSafe ==
  ASSUME QueryInv, Tick
  PROVE  /\ QueryInv' /\ PromiseStep
         /\ \A d \in Components : ListensOn(d) => ListensOn(d)'
<1>1. /\ DataInv /\ QueryTypes /\ server \in Nat /\ asked' = Pending
      /\ UNCHANGED <<server, persists, current, request, shown>>
  BY DataFollows DEF QueryInv, DataInv, Tick, outside
<1> DEFINE h(e) == [entry[e] EXCEPT !.updated = Age(@), !.stale = Later(@ - 1, 0), !.expires = Later(@ - 1, 0)]
<1>2. entry' = [e \in Entries |-> h(e)]
  BY DEF Tick
<1>3. ASSUME NEW e \in Entries
      PROVE  /\ h(e) \in EntryRecs /\ h(e).updated = Age(entry[e].updated)
             /\ h(e).data = entry[e].data /\ h(e).inflight = entry[e].inflight
             /\ h(e).listeners = entry[e].listeners
  <2>1. entry[e] \in EntryRecs
    BY <1>1 DEF QueryTypes
  <2>2. Age(entry[e].updated) \in Nat \cup {Never}
    BY <2>1, QueryAssumption DEF Age, EntryRecs
  <2>3. entry[e].stale \in 0..StaleTime + RetryDelay /\ entry[e].expires \in 0..CacheTime
    BY <2>1 DEF EntryRecs
  <2>4. /\ Later(entry[e].stale - 1, 0) \in 0..StaleTime + RetryDelay
        /\ Later(entry[e].expires - 1, 0) \in 0..CacheTime
    BY <2>3, QueryAssumption DEF Later
  <2> QED
    BY <2>1, <2>2, <2>4 DEF EntryRecs
<1> HIDE DEF h
<1>4. /\ saved' \in SavedRecs \cup {Nothing}
      /\ saved' # Nothing => /\ saved # Nothing /\ saved.age < MaxAge /\ saved'.age = saved.age + 1
                             /\ saved'.value = saved.value /\ saved'.tracked = saved.tracked
  <2>1. CASE saved = Nothing \/ saved.age = MaxAge
    BY <2>1 DEF Tick
  <2>2. CASE ~(saved = Nothing \/ saved.age = MaxAge)
    <3>1. saved \in SavedRecs /\ saved' = [saved EXCEPT !.age = @ + 1]
      BY <1>1, <2>2 DEF Tick, QueryTypes
    <3>2. saved.age \in 0..MaxAge /\ saved.age < MaxAge /\ saved.age + 1 \in 0..MaxAge
      BY <2>2, <3>1, QueryAssumption DEF SavedRecs
    <3> QED
      BY <3>1, <3>2, <2>2 DEF SavedRecs
  <2> QED
    BY <2>1, <2>2
<1>5. QueryTypes'
  BY <1>1, <1>2, <1>3, <1>4 DEF QueryTypes
<1>6. current # Nothing =>
        /\ current \in Entries /\ entry[current] \in EntryRecs
        /\ entry'[current].data = entry[current].data /\ entry'[current].inflight = entry[current].inflight
        /\ entry'[current].updated = Age(entry[current].updated)
        /\ entry'[current].updated = Never <=> entry[current].updated = Never
  BY <1>1, <1>2, <1>3, QueryAssumption DEF QueryTypes, EntryRecs, Age
<1>7. Data' = Data
  BY <1>1, <1>6 DEF Data
<1>8. ValuesServed'
  BY <1>1, <1>4, <1>7 DEF DataInv, ValuesServed
<1>9. Dated'
  BY <1>1, <1>6 DEF DataInv, Dated
<1>10. SavedIsNewer'
  <2> SUFFICES ASSUME current # Nothing, saved' # Nothing, saved'.tracked, entry'[current].updated # Never,
                      entry'[current].updated > saved'.age
               PROVE  saved'.value >= entry'[current].data
    BY <1>1 DEF SavedIsNewer
  <2>0. saved # Nothing /\ saved.age < MaxAge /\ saved.tracked
    BY <1>4
  <2>1. saved \in SavedRecs /\ saved.tracked /\ saved.age \in Nat /\ saved.age < MaxAge
    BY <1>1, <2>0 DEF QueryTypes, SavedRecs
  <2>2. entry[current].updated \in Nat /\ entry[current].updated # Never
    BY <1>6 DEF EntryRecs
  <2>3. entry[current].updated > saved.age
    BY <1>4, <1>6, <2>1, <2>2, QueryAssumption DEF Age
  <2> QED
    BY <1>1, <1>4, <1>6, <2>1, <2>2, <2>3 DEF DataInv, SavedIsNewer
<1>11. InflightBacked'
  BY <1>1, <1>6, <1>7 DEF DataInv, InflightBacked, Tracked, Running
<1>12. EarsStay /\ RequestsGoOn
  BY <1>1, <1>2, <1>3 DEF EarsStay, RequestsGoOn, Running
<1>13. QueryInv'
  BY <1>1, <1>5, <1>8, <1>9, <1>10, <1>11, <1>12, QuietStep DEF DataInv, Mounted
<1>14. \A d \in Components : ListensOn(d) => ListensOn(d)'
  BY <1>1, <1>5, <1>12, EarsGive
<1> QED
  BY <1>1, <1>7, <1>13, <1>14 DEF PromiseStep

\* The cache forgets its entry; it may have a blank one then.
LEMMA Forgotten ==
  ASSUME DataInv, NEW q \in Caches, Commit(q), UNCHANGED outside, request' = request,
         saved' \in {saved, Nothing}, shown' \in [Components -> Views \cup {Nothing}],
         q.current # Nothing => q.entry[q.current] = Blank
  PROVE  DataInv' /\ PromiseStep
<1>1. /\ current' = q.current /\ current' \in Entries \cup {Nothing} /\ entry' \in [Entries -> EntryRecs]
      /\ q.current # Nothing => entry'[current'] = q.entry[q.current] /\ Data' = q.entry[q.current].data
      /\ q.current = Nothing => Data' = Nothing
  BY CommitGives
<1>2. Data' = Nothing /\ (current' # Nothing => entry'[current'] = Blank)
  BY <1>1 DEF Blank
<1>3. UNCHANGED <<server, persists>> /\ server \in Nat
  BY DataFollows DEF outside
<1>4. QueryTypes'
  BY <1>1, <1>3 DEF DataInv, QueryTypes
<1>5. ValuesServed'
  BY <1>2, <1>3 DEF DataInv, ValuesServed
<1>6. Dated' /\ SavedIsNewer'
  BY <1>2 DEF Dated, SavedIsNewer, Blank
<1>7. InflightBacked'
  BY <1>2, QueryAssumption DEF InflightBacked, Tracked, Blank
<1>8. PromiseStep
  BY <1>2, <1>3 DEF PromiseStep, Promise!Next, Promise!Forget, Untracked
<1> QED
  BY <1>4, <1>5, <1>6, <1>7, <1>8 DEF DataInv

LEMMA CollectSafe ==
  ASSUME QueryInv, CollectGarbage
  PROVE  /\ QueryInv' /\ PromiseStep
         /\ \A d \in Components : ListensOn(d) => ListensOn(d)'
<1> DEFINE q == [Cache EXCEPT !.current = Nothing]
<1>1. /\ DataInv /\ QueryTypes /\ server \in Nat /\ asked' = Pending /\ Commit(q)
      /\ UNCHANGED <<outside, saved, request, shown>> /\ entry[current].listeners = {}
  BY DataFollows DEF QueryInv, DataInv, CollectGarbage, InUse
<1>2. q \in Caches /\ q.current = Nothing /\ q.entry = entry
  BY <1>1 DEF QueryTypes, Cache, Caches
<1> HIDE DEF q
<1>3. DataInv' /\ PromiseStep
  BY <1>1, <1>2, Forgotten DEF QueryTypes
<1>4. current' = Nothing /\ \A e \in Entries : entry'[e].listeners = entry[e].listeners
  BY <1>1, <1>2, CommitGives
<1>5. EarsStay /\ RequestsGoOn /\ server' = server
  BY <1>1, <1>4 DEF EarsStay, RequestsGoOn, Running, outside
<1>6. QueryInv'
  BY <1>1, <1>3, <1>5, QuietStep DEF Mounted
<1>7. \A d \in Components : ~ListensOn(d)
  BY <1>1 DEF ListensOn
<1> QED
  BY <1>3, <1>6, <1>7

LEMMA InvalidateSafe ==
  ASSUME QueryInv, Invalidate PROVE QueryInv' /\ PromiseStep
<1> DEFINE h == [entry[current] EXCEPT !.inflight = Nothing, !.fetching = FALSE, !.timer = FALSE]
           gone == [entry |-> [entry EXCEPT ![current] = h], current |-> Nothing]
           q == Notify(gone, current, saved')
           l == Look(gone, saved')
<1>1. /\ DataInv /\ QueryTypes /\ server \in Nat /\ asked' = Pending /\ current # Nothing /\ current \in Entries
      /\ UNCHANGED <<server, persists, request>> /\ saved' = (IF persists THEN Nothing ELSE saved)
      /\ \E n \in Entries : Unused(n)
  BY DataFollows DEF QueryInv, DataInv, QueryTypes, Invalidate, outside
<1>2. [entry EXCEPT ![current].inflight = Nothing, ![current].fetching = FALSE, ![current].timer = FALSE]
        = [entry EXCEPT ![current] = h]
  BY <1>1 DEF QueryTypes
<1>3. Commit(q) /\ Renders(gone, current, saved')
  BY <1>2 DEF Invalidate
<1>4. h \in EntryRecs /\ h.listeners = entry[current].listeners
  BY <1>1 DEF QueryTypes, EntryRecs
<1> HIDE DEF h
<1>5. /\ gone \in Caches /\ gone.current = Nothing /\ gone.entry[current] = h
      /\ \A e \in Entries : e # current => gone.entry[e] = entry[e]
  BY <1>1, <1>4 DEF QueryTypes, Caches
<1>6. \A e \in Entries : gone.entry[e].listeners = entry[e].listeners
  BY <1>4, <1>5
<1> HIDE DEF gone
<1>7. /\ l \in Caches /\ \A e \in Entries : l.entry[e].listeners = gone.entry[e].listeners
      /\ l.current # Nothing => Unused(l.current) /\ l.entry[l.current] = Blank
  <2>1. CASE persists
    <3> DEFINE g == GetOrCreate(gone)
    <3>1. g \in Caches /\ g.current \in Entries /\ g.entry = gone.entry /\ Unused(g.current)
      BY <1>1, <1>5, CreateGives
    <3>2. g.entry[g.current] = Blank
      BY <1>5, <3>1 DEF Unused
    <3>3. l = Hydrated(g, Nothing)
      BY <1>1, <2>1 DEF Look
    <3> HIDE DEF g, l
    <3>4. /\ l \in Caches /\ l.current = g.current
          /\ l.entry[g.current] = Hydrate(g.entry[g.current], Nothing)
          /\ \A e \in Entries : l.entry[e].listeners = g.entry[e].listeners
      BY <3>1, <3>3, HydratedGives
    <3> QED
      BY <3>1, <3>2, <3>4 DEF Hydrate
  <2>2. CASE ~persists
    BY <1>5, <2>2 DEF Look
  <2> QED
    BY <2>1, <2>2
<1>8. q = gone \/ q = l
  BY DEF Notify
<1> HIDE DEF q, l
<1>9. /\ q \in Caches /\ \A e \in Entries : q.entry[e].listeners = entry[e].listeners
      /\ q.current # Nothing => Unused(q.current) /\ q.entry[q.current] = Blank
  BY <1>5, <1>6, <1>7, <1>8
<1>10. Snapshot(l) \in Views /\ Snapshot(l) # Nothing
  BY <1>7, SnapshotTyped
<1>11. shown' = [c \in Components |-> IF c \in entry[current].listeners THEN Snapshot(l) ELSE shown[c]]
  BY <1>3, <1>4, <1>5 DEF Renders, l
<1>12. shown' \in [Components -> Views \cup {Nothing}]
  BY <1>1, <1>10, <1>11 DEF QueryTypes
<1>13. DataInv' /\ PromiseStep
  BY <1>1, <1>3, <1>9, <1>12, Forgotten DEF outside
<1>14. current' = q.current /\ \A e \in Entries : entry'[e].listeners = entry[e].listeners
  BY <1>3, <1>9, CommitGives
<1>15. EarsStay /\ RequestsGoOn /\ current' # current
  BY <1>1, <1>9, <1>14 DEF EarsStay, RequestsGoOn, Running, Unused
<1>16. \A d \in Components : Mounted(d)' <=> Mounted(d)
  BY <1>1, <1>10, <1>11 DEF Mounted, QueryInv, Heard
<1>17. \A d \in Components : ~ListensOn(d)'
  BY <1>1, <1>13, <1>15, EarsGive DEF DataInv
<1>18. QueryInv'
  BY <1>1, <1>13, <1>15, <1>16, <1>17, QuietStep
<1> QED
  BY <1>13, <1>18

LEMMA UnmountSafe ==
  ASSUME QueryInv, NEW c \in Components, Unmount(c)
  PROVE  /\ QueryInv' /\ PromiseStep
         /\ \A d \in Components : ListensOn(d) /\ Mounted(d)' => ListensOn(d)'
<1> DEFINE e == CHOOSE e \in Entries : c \in entry[e].listeners
           left == entry[e].listeners \ {c}
           h == [entry[e] EXCEPT !.listeners = left, !.timer = @ \/ left = {}]
           q == Put(Cache, e, h)
<1>1. /\ DataInv /\ QueryTypes /\ server \in Nat /\ Heard /\ AskedTyped /\ AskedBacked /\ Mounted(c)
      /\ UNCHANGED <<outside, saved, request>>
      /\ shown' = [shown EXCEPT ![c] = Nothing] /\ asked' = [Pending EXCEPT ![c] = Nothing]
  BY DataFollows DEF QueryInv, DataInv, AskedBacked, Unmount
<1>2. e \in Entries /\ c \in entry[e].listeners
  BY <1>1 DEF Heard
<1>3. Follows(Cache, saved) /\ Awaits(Cache) /\ Usable(saved)
  BY <1>1, DataFollows
<1>4. Cache \in Caches /\ Cache.current = current /\ Cache.entry = entry
  BY <1>3 DEF Follows, Cache
<1>5. Commit([Cache EXCEPT !.entry[e].listeners = left, !.entry[e].timer = @ \/ left = {}])
  BY DEF Unmount
<1> HIDE DEF e
<1>6. [Cache EXCEPT !.entry[e].listeners = left, !.entry[e].timer = @ \/ left = {}] = q
  BY <1>2, <1>4 DEF Put, Caches
<1>7. /\ h \in EntryRecs /\ h.data = entry[e].data /\ h.updated = entry[e].updated
      /\ h.inflight = entry[e].inflight /\ h.listeners = left
  BY <1>1, <1>2 DEF QueryTypes, EntryRecs
<1> HIDE DEF h
<1>8. e = current => Cell(entry[e], saved)
  BY <1>2, <1>3, <1>4, QueryAssumption DEF Follows
<1>9. IF e = Cache.current THEN Cell(h, saved) ELSE ~Unused(e)
  BY <1>2, <1>4, <1>7, <1>8 DEF Cell, Unused, Blank
<1>10. /\ Follows(q, saved) /\ q \in Caches /\ q.current = current /\ q.entry[e] = h
       /\ \A d \in Entries : d # e => q.entry[d] = entry[d]
  BY <1>2, <1>3, <1>4, <1>7, <1>9, PutFollows, PutGives
<1> HIDE DEF q
<1>11. Commit(q)
  BY <1>5, <1>6
<1>12. q.current # Nothing => q.entry[q.current].inflight = entry[current].inflight
                              /\ q.entry[q.current].data = Data
  BY <1>1, <1>7, <1>10 DEF QueryTypes, Data
<1>13. Backed(q) /\ AnswersStay
  BY <1>1, <1>10, <1>12 DEF Backed, AnswersStay, DataInv, InflightBacked, Tracked, Running
<1>14. shown' \in [Components -> Views \cup {Nothing}] /\ request' \in [Requests -> RequestRecs]
  BY <1>1 DEF QueryTypes
<1>15. Follows(q, saved') /\ Usable(saved')
  BY <1>1, <1>3, <1>10
<1>16. DataInv' /\ PromiseStep
  BY <1>1, <1>11, <1>13, <1>14, <1>15, Settled
<1>17. current' = current /\ server' = server
       /\ \A d \in Entries : entry'[d].listeners = IF d = e THEN left ELSE entry[d].listeners
  BY <1>1, <1>7, <1>10, <1>11, CommitGives, ZenonT(60) DEF outside
<1>18. ASSUME NEW d \in Components
       PROVE  /\ Mounted(d)' <=> Mounted(d) /\ d # c
              /\ d # c => shown'[d] = shown[d]
  BY <1>1 DEF Mounted, QueryTypes
<1>19. \A d \in Entries : c \notin entry'[d].listeners
  BY <1>1, <1>2, <1>17 DEF Heard
<1>20. ASSUME NEW d \in Components
       PROVE  /\ ListensOn(d)' => ListensOn(d) /\ d # c
              /\ ListensOn(d) /\ d # c => ListensOn(d)'
  <2>1. current # Nothing => current \in Entries
    BY <1>1 DEF QueryTypes
  <2> QED
    BY <1>17, <1>19, <2>1 DEF ListensOn
<1>21. Heard'
  <2>1. \A d, f \in Entries : d # f => entry'[d].listeners \cap entry'[f].listeners = {}
    BY <1>1, <1>17 DEF Heard
  <2>2. ASSUME NEW d \in Components PROVE Mounted(d)' <=> \E f \in Entries : d \in entry'[f].listeners
    <3>1. CASE d = c
      BY <1>18, <1>19, <3>1
    <3>2. CASE d # c
      <4>1. \A f \in Entries : d \in entry'[f].listeners <=> d \in entry[f].listeners
        BY <1>17, <3>2
      <4> QED
        BY <1>1, <1>18, <3>2, <4>1 DEF Heard
    <3> QED
      BY <3>1, <3>2
  <2> QED
    BY <2>1, <2>2 DEF Heard
<1>22. AskedTyped' /\ \A d \in Components : asked'[d] \in {Pending[d], Nothing} /\ (d = c => asked'[d] = Nothing)
  BY <1>1, PendingGives DEF AskedTyped
<1>23. ASSUME NEW d \in Components PROVE AskedSafe(d)' /\ SeesWrites(d)'
  <2>1. ~Mounted(d)' => ~Mounted(d) \/ asked'[d] = Nothing
    BY <1>18, <1>22
  <2>2. asked'[d] # Nothing /\ ListensOn(d)' => ListensOn(d) /\ current' = current
    BY <1>17, <1>20
  <2>3. asked'[d] \in {Pending[d], Nothing} /\ \A f \in Requests : Running(f) => request'[f] = request[f]
    BY <1>1, <1>22
  <2> QED
    BY <1>17, <2>1, <2>2, <2>3, AskedUndisturbed
<1>24. ASSUME NEW d \in Components PROVE LoadingBacked(d)'
  <2>1. ListensOn(d)' => ListensOn(d) /\ current' = current /\ shown'[d] = shown[d]
    BY <1>17, <1>18, <1>20
  <2>2. \A f \in Requests : Running(f) /\ request[f].entry = current =>
          Running(f)' /\ request'[f].entry = request[f].entry
    BY <1>1 DEF Running
  <2> QED
    BY <2>1, <2>2, LoadingStays
<1> QED
  BY <1>16, <1>18, <1>20, <1>21, <1>22, <1>23, <1>24 DEF QueryInv, AskedBacked

-----------------------------------------------------------------------------
(* Requests that end *)

\* An entry's request is over: h is what the entry became, before those who
\* listen to it are told, and what they see.
LEMMA EndGives ==
  ASSUME QueryInv, Room, NEW f \in Requests, NEW q, Follows(q, saved), Awaits(q), Usable(saved'),
         q.current \in {current, Nothing} \/ Unused(q.current),
         \A d \in Entries : q.entry[d].listeners = entry[d].listeners,
         NEW e \in Entries, e # q.current => ~Unused(e) /\ request[f].entry = e,
         e # q.current /\ q.current # Nothing => Cell(q.entry[q.current], saved'),
         NEW h \in EntryRecs, e = q.current => Cell(h, saved'),
         h.inflight = Nothing, h.listeners = entry[e].listeners,
         Commit([Notify(Put(q, e, h), e, saved') EXCEPT !.entry[e].timer = TRUE]),
         Renders(Put(q, e, h), e, saved'),
         request' = [request EXCEPT ![f] = Free], UNCHANGED outside
  PROVE  /\ DataInv' /\ PromiseStep /\ EarsStay
         /\ \A d \in Components : Mounted(d)' <=> Mounted(d)
         /\ \A d \in Components : d \notin entry[e].listeners => shown'[d] = shown[d]
         /\ q.current # Nothing => current' = q.current
         /\ e = q.current => \E x \in {h, Hydrate(h, saved')} : \A d \in entry[e].listeners :
              /\ shown'[d].data = x.data
              /\ shown'[d].loading => x.data = Nothing /\ ~x.error
<1> DEFINE done == Put(q, e, h)
           told == Notify(done, e, saved')
           seenBy == Look(done, saved')
           last == [told.entry[e] EXCEPT !.timer = TRUE]
           r == Put(told, e, last)
<1>1. DataInv /\ QueryTypes /\ Heard /\ q \in Caches /\ server \in Nat
  BY DataFollows DEF QueryInv, DataInv, Follows
<1>2. /\ done \in Caches /\ done.current = q.current /\ done.entry[e] = h
      /\ \A d \in Entries : d # e => done.entry[d] = q.entry[d]
  BY <1>1, PutGives
<1>3. \A d \in Entries : done.entry[d].listeners = entry[d].listeners
  BY <1>2
<1>4. Awaits(done)
  BY <1>1, <1>2, QueryAssumption DEF Awaits, Caches
<1> HIDE DEF done
<1>4b. Follows(done, saved')
  <2>1. q.current # Nothing => q.current \in Entries
    BY <1>1 DEF Caches
  <2> QED
    BY <1>2, <2>1 DEF Follows
<1>5. /\ Follows(told, saved') /\ told \in Caches /\ Awaits(told)
      /\ q.current # Nothing => /\ told.current = q.current
                                /\ told.entry[q.current] \in {done.entry[q.current], Hydrate(done.entry[q.current], saved')}
      /\ q.current = Nothing => told.current = Nothing \/ Unused(told.current)
      /\ \A d \in Entries : told.entry[d].listeners = done.entry[d].listeners
  BY <1>1, <1>2, <1>4, <1>4b, NotifyGives
<1>6. /\ seenBy \in Caches
      /\ q.current # Nothing => /\ seenBy.current = q.current
                                /\ seenBy.entry[q.current] \in {done.entry[q.current], Hydrate(done.entry[q.current], saved')}
  BY <1>1, <1>2, <1>4b, LookGives
<1> HIDE DEF told
<1>7. [told EXCEPT !.entry[e].timer = TRUE] = r
  BY <1>5 DEF Put, Caches
<1>8. told.entry[e] \in EntryRecs
  BY <1>5 DEF Caches
<1>9. /\ last \in EntryRecs /\ last.data = told.entry[e].data /\ last.updated = told.entry[e].updated
      /\ last.inflight = told.entry[e].inflight /\ last.listeners = told.entry[e].listeners
  BY <1>8 DEF EntryRecs
<1> HIDE DEF last
<1>10. e = told.current => Cell(last, saved')
  BY <1>5, <1>9, QueryAssumption DEF Follows, Cell
<1>11. e # told.current => ~Unused(e)
  BY <1>5, QueryAssumption
<1>12. /\ Follows(r, saved') /\ r \in Caches /\ r.current = told.current /\ r.entry[e] = last
       /\ \A d \in Entries : d # e => r.entry[d] = told.entry[d]
  BY <1>5, <1>9, <1>10, <1>11, PutGives, PutFollows
<1> HIDE DEF r
<1>13. Awaits(r)
  BY <1>5, <1>9, <1>12, QueryAssumption DEF Awaits, Caches
<1>14. Commit(r) /\ Renders(done, e, saved')
  BY <1>7 DEF told, done
<1>15. request' \in [Requests -> RequestRecs] /\ request'[f] = Free
       /\ \A g \in Requests : g # f => request'[g] = request[g]
  BY <1>1, BlankTyped DEF QueryTypes
<1>16. AnswersStay
  BY <1>15 DEF AnswersStay, Free
<1>17. Backed(r)
  <2> SUFFICES ASSUME NEW g \in Requests, r.current # Nothing, r.entry[r.current].inflight = g
               PROVE  /\ request'[g].phase # "free" /\ request'[g].entry = r.current
                      /\ (request'[g].phase = "answered" /\ r.entry[r.current].data # Nothing)
                           => request'[g].version >= r.entry[r.current].data
    BY DEF Backed
  <2>1. r.current = current /\ entry[current].inflight = g /\ r.entry[r.current].data = Data
    BY <1>13, QueryAssumption DEF Awaits
  <2>2. Running(g) /\ request[g].entry = current
        /\ ((request[g].phase = "answered" /\ Data # Nothing) => request[g].version >= Data)
    BY <1>1, <2>1 DEF DataInv, InflightBacked, Tracked
  <2>3. e # r.current
    <3> SUFFICES ASSUME e = r.current PROVE FALSE
      OBVIOUS
    <3>1. e = current
      BY <2>1
    <3>2. q.current = e
      BY <1>5, <1>12, <3>1, QueryAssumption DEF Unused
    <3>3. told.entry[e] \in {h, Hydrate(h, saved')}
      BY <1>2, <1>5, <3>2, QueryAssumption
    <3>4. Hydrate(h, saved') = h \/ TakenFrom(Hydrate(h, saved'), h, saved')
      BY HydrateGives DEF Usable
    <3>5. told.entry[e].inflight = Nothing
      BY <3>3, <3>4 DEF TakenFrom
    <3> QED
      BY <1>9, <1>12, <3>5, QueryAssumption
  <2>4. g # f
    <3>1. e # q.current
      BY <1>5, <1>12, <2>3, QueryAssumption
    <3> QED
      BY <2>1, <2>2, <2>3, <3>1
  <2> QED
    BY <1>15, <2>1, <2>2, <2>4 DEF Running
<1>18. Snapshot(seenBy) \in Views /\ Snapshot(seenBy) # Nothing
  BY <1>6, SnapshotTyped
<1>19. shown' = [d \in Components |-> IF d \in entry[e].listeners THEN Snapshot(seenBy) ELSE shown[d]]
  BY <1>3, <1>14 DEF Renders
<1>20. shown' \in [Components -> Views \cup {Nothing}]
  BY <1>1, <1>18, <1>19 DEF QueryTypes
<1>21. DataInv' /\ PromiseStep
  BY <1>1, <1>12, <1>14, <1>15, <1>16, <1>17, <1>20, Settled
<1>22. current' = told.current /\ \A d \in Entries : entry'[d].listeners = entry[d].listeners
  BY <1>3, <1>5, <1>9, <1>12, <1>14, CommitGives
<1>23. EarsStay
  BY <1>5, <1>22 DEF EarsStay
<1>24. \A d \in Components : Mounted(d)' <=> Mounted(d)
  BY <1>1, <1>18, <1>19 DEF Mounted, Heard
<1>25. ASSUME e = q.current
       PROVE  /\ current' = e
              /\ \E x \in {h, Hydrate(h, saved')} : \A d \in entry[e].listeners :
                   /\ shown'[d].data = x.data
                   /\ shown'[d].loading => x.data = Nothing /\ ~x.error
  <2>1. seenBy.current = e /\ seenBy.entry[e] \in {h, Hydrate(h, saved')} /\ e # Nothing
    BY <1>2, <1>6, <1>25, QueryAssumption
  <2>2. \A d \in entry[e].listeners : d \in Components /\ shown'[d] = Snapshot(seenBy)
    BY <1>1, <1>19 DEF QueryTypes, EntryRecs
  <2>3. /\ Snapshot(seenBy).data = seenBy.entry[e].data
        /\ Snapshot(seenBy).loading => seenBy.entry[e].data = Nothing /\ ~seenBy.entry[e].error
    BY <2>1 DEF Snapshot, Entry
  <2> QED
    BY <1>5, <1>22, <1>25, <2>1, <2>2, <2>3
<1> QED
  BY <1>5, <1>19, <1>21, <1>22, <1>23, <1>24, <1>25

\* The refetches that wait for a request which is over, and the others.
LEMMA EndedStep ==
  ASSUME QueryInv, DataInv', EarsStay, NEW f \in Requests, UNCHANGED outside,
         \A g \in Requests : g # f => request'[g] = request[g],
         \A d \in Components : Mounted(d)' <=> Mounted(d),
         \A d \in Components : LoadingBacked(d)',
         asked' \in [Components -> AskedRecs \cup {Nothing}],
         \A d \in Components :
           \/ asked'[d] \in {Pending[d], Nothing} /\ (asked'[d] # Nothing => asked[d].of # f)
           \/ /\ asked[d] # Nothing /\ asked[d].of = f /\ asked'[d] = [asked[d] EXCEPT !.of = Nothing]
              /\ ListensOn(d)' => shown'[d].data # Nothing /\ shown'[d].data >= asked[d].version
  PROVE  QueryInv'
<1>1. /\ QueryTypes /\ QueryTypes' /\ Heard /\ AskedTyped /\ AskedBacked
      /\ server' = server /\ server \in Nat
  BY DataFollows DEF QueryInv, DataInv, AskedBacked, outside
<1>2. Heard'
  BY <1>1, HeardStays
<1>3. ASSUME NEW d \in Components PROVE ListensOn(d)' => ListensOn(d) /\ current' = current
  BY <1>1, EarsGive
<1>4. ASSUME NEW d \in Components PROVE AskedSafe(d)' /\ SeesWrites(d)'
  <2>1. CASE asked'[d] \in {Pending[d], Nothing} /\ (asked'[d] # Nothing => asked[d].of # f)
    <3>1. asked'[d] # Nothing => \A g \in Requests : g = asked[d].of => Running(g) /\ request'[g] = request[g]
      <4> SUFFICES ASSUME asked'[d] # Nothing, NEW g \in Requests, g = asked[d].of
                   PROVE  Running(g) /\ request'[g] = request[g]
        OBVIOUS
      <4>1. asked[d] # Nothing /\ asked[d].of # Nothing /\ g # f
        BY <1>1, <2>1, PendingGives, QueryAssumption
      <4> QED
        BY <1>1, <4>1 DEF AskedBacked, AskedSafe
    <3>2. asked'[d] # Nothing =>
            \A g \in Requests : g = asked[d].of =>
              /\ Running(g)' /\ request'[g].entry = request[g].entry
              /\ request'[g].phase = "answered" =>
                   \/ request[g].phase = "answered" /\ request'[g].version = request[g].version
                   \/ request'[g].version = server
      BY <3>1 DEF Running
    <3>3. asked'[d] \in {Pending[d], Nothing} /\ (~Mounted(d)' => ~Mounted(d))
      BY <2>1
    <3> QED
      BY <1>1, <1>3, <3>2, <3>3, AskedStays
  <2>2. CASE /\ asked[d] # Nothing /\ asked[d].of = f /\ asked'[d] = [asked[d] EXCEPT !.of = Nothing]
             /\ ListensOn(d)' => shown'[d].data # Nothing /\ shown'[d].data >= asked[d].version
    <3>1. asked'[d].of = Nothing /\ asked'[d].version = asked[d].version
      BY <1>1, <2>2 DEF AskedTyped, AskedRecs
    <3>2. asked[d].version <= server /\ Mounted(d)'
      BY <1>1, <2>2 DEF AskedBacked, AskedSafe
    <3> QED
      BY <1>1, <2>2, <3>1, <3>2 DEF AskedSafe, SeesWrites
  <2> QED
    BY <2>1, <2>2
<1> QED
  BY <1>2, <1>4 DEF QueryInv, AskedBacked, AskedTyped

\* Those who do not listen to the entry that a request was for still have what
\* they had.
LEMMA OthersLoad ==
  ASSUME QueryInv, DataInv', EarsStay, NEW f \in Requests, NEW d \in Components, request[f].entry # current,
         \A g \in Requests : g # f => request'[g] = request[g],
         shown'[d] = shown[d]
  PROVE  LoadingBacked(d)'
<1>1. QueryTypes /\ QueryTypes'
  BY DEF QueryInv, DataInv
<1>2. ListensOn(d)' => ListensOn(d) /\ current' = current /\ shown'[d] = shown[d]
  BY <1>1, EarsGive
<1>3. \A g \in Requests : Running(g) /\ request[g].entry = current =>
        Running(g)' /\ request'[g].entry = request[g].entry
  BY DEF Running
<1> QED
  BY <1>2, <1>3, LoadingStays

\* What updateQuerySuccess makes of an entry.
Fetched(h, v) ==
  [h EXCEPT !.data = v, !.error = FALSE, !.updated = 0, !.stale = StaleTime, !.expires = CacheTime,
            !.inflight = Nothing, !.fetching = FALSE]

LEMMA FetchedGives ==
  ASSUME NEW h \in EntryRecs, NEW v \in 0..MaxVersion
  PROVE  /\ Fetched(h, v) \in EntryRecs /\ Fetched(h, v).data = v /\ Fetched(h, v).updated = 0
         /\ Fetched(h, v).inflight = Nothing /\ Fetched(h, v).listeners = h.listeners
         /\ \A s \in SavedRecs \cup {Nothing} : Hydrate(Fetched(h, v), s) = Fetched(h, v)
<1>1. /\ v \in Value /\ 0 \in Nat \cup {Never} /\ StaleTime \in 0..StaleTime + RetryDelay
         /\ CacheTime \in 0..CacheTime
  BY QueryAssumption DEF Value
<1>2. /\ Fetched(h, v) \in EntryRecs /\ Fetched(h, v).data = v /\ Fetched(h, v).updated = 0
      /\ Fetched(h, v).inflight = Nothing /\ Fetched(h, v).listeners = h.listeners
  BY <1>1 DEF Fetched, EntryRecs
<1>3. ASSUME NEW s \in SavedRecs \cup {Nothing} PROVE Hydrate(Fetched(h, v), s) = Fetched(h, v)
  <2>1. s # Nothing => s.age \in Nat
    BY DEF SavedRecs
  <2> QED
    BY <1>2, <2>1, QueryAssumption DEF Hydrate
<1> QED
  BY <1>2, <1>3

\* updateQuerySuccess writes the fields one by one.
Filled(q, e, v) ==
  [q EXCEPT !.entry[e].data = v, !.entry[e].error = FALSE,
            !.entry[e].updated = 0, !.entry[e].stale = StaleTime,
            !.entry[e].expires = CacheTime,
            !.entry[e].inflight = Nothing, !.entry[e].fetching = FALSE]

LEMMA FetchedIsPut ==
  ASSUME NEW q \in Caches, NEW e \in Entries, NEW v \in 0..MaxVersion
  PROVE  Filled(q, e, v) = Put(q, e, Fetched(q.entry[e], v))
<1> DEFINE four == [q EXCEPT !.entry[e].data = v, !.entry[e].error = FALSE,
                             !.entry[e].updated = 0, !.entry[e].stale = StaleTime]
           h == [q.entry[e] EXCEPT !.data = v, !.error = FALSE, !.updated = 0, !.stale = StaleTime]
           g == [h EXCEPT !.expires = CacheTime, !.inflight = Nothing, !.fetching = FALSE]
<1>1. four = Put(q, e, h)
  BY DEF Put, Caches
<1>2. Filled(q, e, v)
        = [four EXCEPT !.entry[e].expires = CacheTime,
                       !.entry[e].inflight = Nothing, !.entry[e].fetching = FALSE]
  BY DEF Filled
<1>3. h \in EntryRecs
  <2>1. v \in Value /\ 0 \in Nat \cup {Never} /\ StaleTime \in 0..StaleTime + RetryDelay
    BY QueryAssumption DEF Value
  <2>2. q.entry[e] \in EntryRecs
    BY DEF Caches
  <2> QED
    BY <2>1, <2>2 DEF EntryRecs
<1>4. four \in Caches /\ four.entry[e] = h
  <2> HIDE DEF four, h
  <2> QED
    BY <1>1, <1>3, PutGives
<1>5. Fetched(q.entry[e], v) = g
  BY DEF Fetched
<1>6. Put(four, e, g) = Put(q, e, g)
  <2> HIDE DEF h, g, four
  <2> QED
    BY <1>1 DEF Put, Caches
<1> HIDE DEF four, h
<1>7. [four EXCEPT !.entry[e].expires = CacheTime,
                   !.entry[e].inflight = Nothing, !.entry[e].fetching = FALSE] = Put(four, e, g)
  BY <1>4 DEF Put, Caches
<1> QED
  BY <1>2, <1>5, <1>6, <1>7

LEMMA SucceedGives ==
  ASSUME QueryInv, Room, NEW f \in Requests, request[f].phase = "answered",
         NEW q, Follows(q, saved), Awaits(q), q.current \in {current, Nothing} \/ Unused(q.current),
         \A d \in Entries : q.entry[d].listeners = entry[d].listeners,
         NEW e \in Entries, e # q.current => ~Unused(e) /\ request[f].entry = e,
         NEW tracked \in BOOLEAN, ~tracked => Untracked, e # q.current => ~tracked,
         e = q.current /\ ~Untracked => Data = Nothing \/ request[f].version >= Data,
         Succeed(q, e, request[f].version, tracked), request' = [request EXCEPT ![f] = Free], UNCHANGED outside
  PROVE  /\ DataInv' /\ PromiseStep /\ EarsStay
         /\ \A d \in Components : Mounted(d)' <=> Mounted(d)
         /\ \A d \in Components : d \notin entry[e].listeners => shown'[d] = shown[d]
         /\ q.current # Nothing => current' = q.current
         /\ e = q.current =>
              \A d \in entry[e].listeners : shown'[d].data = request[f].version /\ ~shown'[d].loading
<1> DEFINE v == request[f].version
           h == Fetched(q.entry[e], v)
           done == [q EXCEPT !.entry[e].data = v, !.entry[e].error = FALSE,
                             !.entry[e].updated = 0, !.entry[e].stale = StaleTime,
                             !.entry[e].expires = CacheTime,
                             !.entry[e].inflight = Nothing, !.entry[e].fetching = FALSE]
<1>1. /\ DataInv /\ QueryTypes /\ q \in Caches /\ server \in Nat /\ server \in 0..MaxVersion
      /\ v \in 0..server /\ Usable(saved)
  BY DataFollows DEF QueryInv, DataInv, Follows, QueryTypes, ValuesServed
<1>2. q.entry[e] \in EntryRecs /\ v \in 0..MaxVersion
  BY <1>1, QueryAssumption DEF Caches
<1>3. /\ h \in EntryRecs /\ h.data = v /\ h.updated = 0 /\ h.inflight = Nothing
      /\ h.listeners = entry[e].listeners
      /\ \A s \in SavedRecs \cup {Nothing} : Hydrate(h, s) = h
  BY <1>2, FetchedGives
<1>4. done = Put(q, e, h)
  <2>1. done = Filled(q, e, v)
    BY DEF Filled
  <2>2. Filled(q, e, v) = Put(q, e, h)
    <3> HIDE DEF done, v
    <3> QED
      BY <1>1, <1>2, FetchedIsPut
  <2> QED
    BY <2>1, <2>2
<1> HIDE DEF h
<1>5. /\ saved' = [age |-> 0, value |-> v, tracked |-> tracked] \/ saved' = saved
      /\ Commit([Notify(Put(q, e, h), e, saved') EXCEPT !.entry[e].timer = TRUE])
      /\ Renders(Put(q, e, h), e, saved')
  BY <1>4 DEF Succeed
<1> HIDE DEF done
<1>6. saved' \in SavedRecs \cup {Nothing}
  <2>1. 0 \in 0..MaxAge
    BY QueryAssumption
  <2> QED
    BY <1>1, <1>2, <1>5, <2>1 DEF QueryTypes, SavedRecs
<1>7. Usable(saved')
  <2>1. CASE saved' = saved
    BY <1>1, <2>1
  <2>2. CASE saved' = [age |-> 0, value |-> v, tracked |-> tracked]
    BY <1>1, <1>6, <2>2 DEF Usable
  <2> QED
    BY <1>5, <2>1, <2>2
<1>8. \A s \in SavedRecs \cup {Nothing} : e = q.current => Cell(h, s)
  <2> SUFFICES ASSUME NEW s \in SavedRecs \cup {Nothing}, e = q.current PROVE Cell(h, s)
    OBVIOUS
  <2>1. Learnt(v)
    BY <1>1 DEF Learnt
  <2>2. v # Nothing /\ Never # 0 /\ (s # Nothing => ~(0 > s.age))
    BY <1>1, QueryAssumption DEF SavedRecs
  <2> QED
    BY <1>1, <1>3, <2>1, <2>2 DEF Cell
<1>9. e # q.current /\ q.current # Nothing => Cell(q.entry[q.current], saved')
  <2> SUFFICES ASSUME e # q.current, q.current # Nothing PROVE Cell(q.entry[q.current], saved')
    OBVIOUS
  <2>1. Cell(q.entry[q.current], saved)
    BY DEF Follows
  <2>2. saved' = saved \/ ~saved'.tracked
    BY <1>5
  <2> QED
    BY <2>1, <2>2 DEF Cell
<1>10. e = q.current => Cell(h, saved')
  BY <1>6, <1>8
<1>11. /\ DataInv' /\ PromiseStep /\ EarsStay
       /\ \A d \in Components : Mounted(d)' <=> Mounted(d)
       /\ \A d \in Components : d \notin entry[e].listeners => shown'[d] = shown[d]
       /\ q.current # Nothing => current' = q.current
       /\ e = q.current => \E x \in {h, Hydrate(h, saved')} : \A d \in entry[e].listeners :
            /\ shown'[d].data = x.data
            /\ shown'[d].loading => x.data = Nothing /\ ~x.error
  BY <1>3, <1>5, <1>7, <1>9, <1>10, EndGives
<1>12. v # Nothing
  BY <1>2, QueryAssumption
<1> QED
  BY <1>3, <1>6, <1>11, <1>12

\* A request that runs is for an entry that is in use.
LEMMA OfEntry ==
  ASSUME QueryInv, NEW f \in Requests, request[f].entry # Nothing
  PROVE  request[f].entry \in Entries /\ ~Unused(request[f].entry)
BY DEF QueryInv, DataInv, QueryTypes, RequestRecs, Unused

\* Those who listen to the current entry are no listeners of another one.
LEMMA Apart ==
  ASSUME QueryInv, NEW e \in Entries, NEW d \in Components, ListensOn(d)
  PROVE  d \in entry[e].listeners <=> e = current
BY DEF QueryInv, DataInv, QueryTypes, Heard, ListensOn

LEMMA AnswerSafe ==
  ASSUME QueryInv, NEW f \in Requests, Arrive(f)
  PROVE  /\ QueryInv' /\ PromiseStep
         /\ \A d \in Components : ListensOn(d) => ListensOn(d)'
<1> DEFINE e == request[f].entry
           v == request[f].version
<1>1. /\ DataInv /\ QueryTypes /\ Heard /\ AskedBacked /\ AskedTyped /\ Room /\ e # Nothing
      /\ request[f].phase = "answered" /\ UNCHANGED outside
  BY DEF QueryInv, DataInv, AskedBacked, Arrive
<1>2. e \in Entries /\ ~Unused(e)
  BY <1>1, OfEntry
<1>3. Follows(Cache, saved) /\ Awaits(Cache) /\ Cache.current = current /\ Cache.entry = entry
  BY <1>1, DataFollows DEF Cache
<1>4. /\ request' = [request EXCEPT ![f] = Free]
      /\ Succeed(Cache, e, v, Tracked(f)) /\ Awaited(f, TRUE)
  BY DEF Arrive
<1>5. Tracked(f) \in BOOLEAN /\ (~Tracked(f) => Untracked)
  BY <1>1 DEF Tracked, Untracked, Running
<1>6. e # current => ~Tracked(f)
  BY <1>1 DEF DataInv, InflightBacked
<1>7. e = current /\ ~Untracked => Data = Nothing \/ v >= Data
  BY <1>1, <1>5 DEF DataInv, InflightBacked
<1>8. /\ DataInv' /\ PromiseStep /\ EarsStay
      /\ \A d \in Components : Mounted(d)' <=> Mounted(d)
      /\ \A d \in Components : d \notin entry[e].listeners => shown'[d] = shown[d]
      /\ current # Nothing => current' = current
      /\ e = current => \A d \in entry[e].listeners : shown'[d].data = v /\ ~shown'[d].loading
  <2> DEFINE q == Cache
             tracked == Tracked(f)
  <2>1. /\ Follows(q, saved) /\ Awaits(q) /\ (q.current \in {current, Nothing} \/ Unused(q.current))
        /\ \A d \in Entries : q.entry[d].listeners = entry[d].listeners
        /\ e # q.current => ~Unused(e) /\ request[f].entry = e
        /\ tracked \in BOOLEAN /\ (~tracked => Untracked) /\ (e # q.current => ~tracked)
        /\ e = q.current /\ ~Untracked => Data = Nothing \/ request[f].version >= Data
        /\ Succeed(q, e, request[f].version, tracked)
        /\ q.current = current
    BY <1>2, <1>3, <1>4, <1>5, <1>6, <1>7
  <2> HIDE DEF q, tracked, e
  <2> QED
    BY <1>1, <1>2, <1>4, <2>1, SucceedGives, ZenonT(60)
<1>9. \A g \in Requests : g # f => request'[g] = request[g]
  BY <1>1, <1>4 DEF QueryTypes
<1>10. ASSUME NEW d \in Components PROVE ListensOn(d)' => ListensOn(d) /\ current' = current
  BY <1>1, <1>8, EarsGive DEF DataInv
<1>11. ASSUME NEW d \in Components PROVE LoadingBacked(d)'
  <2>1. CASE e = current
    <3>1. ListensOn(d)' => d \in entry[e].listeners
      BY <1>10, <2>1 DEF ListensOn
    <3> QED
      BY <1>8, <2>1, <3>1 DEF LoadingBacked
  <2>2. CASE e # current /\ ListensOn(d)
    <3>1. shown'[d] = shown[d]
      BY <1>2, <1>8, <2>2, Apart
    <3> QED
      BY <1>8, <1>9, <2>2, <3>1, OthersLoad
  <2>3. CASE ~ListensOn(d)
    BY <1>10, <2>3 DEF LoadingBacked
  <2> QED
    BY <2>1, <2>2, <2>3
<1>12. asked' = [c \in Components |->
         IF asked[c] # Nothing /\ asked[c].of = f THEN [asked[c] EXCEPT !.of = Nothing] ELSE Pending[c]]
  BY <1>4 DEF Awaited
<1>13. ASSUME NEW d \in Components
       PROVE  \/ asked'[d] \in {Pending[d], Nothing} /\ (asked'[d] # Nothing => asked[d].of # f)
              \/ /\ asked[d] # Nothing /\ asked[d].of = f /\ asked'[d] = [asked[d] EXCEPT !.of = Nothing]
                 /\ ListensOn(d)' => shown'[d].data # Nothing /\ shown'[d].data >= asked[d].version
  <2>1. CASE asked[d] # Nothing /\ asked[d].of = f
    <3>1. asked'[d] = [asked[d] EXCEPT !.of = Nothing]
      BY <1>12, <2>1
    <3>2. ASSUME ListensOn(d)' PROVE shown'[d].data # Nothing /\ shown'[d].data >= asked[d].version
      <4>1. ListensOn(d) /\ e = current
        BY <1>1, <1>10, <2>1, <3>2, QueryAssumption DEF AskedBacked, AskedSafe
      <4>2. shown'[d].data = v
        BY <1>8, <4>1 DEF ListensOn
      <4>3. v >= asked[d].version /\ v # Nothing
        BY <1>1, <2>1, QueryAssumption DEF AskedBacked, AskedSafe, DataInv, ValuesServed, QueryTypes
      <4> QED
        BY <4>2, <4>3
    <3> QED
      BY <2>1, <3>1, <3>2
  <2>2. CASE ~(asked[d] # Nothing /\ asked[d].of = f)
    <3>1. asked'[d] = Pending[d]
      BY <1>12, <2>2
    <3>2. Pending[d] # Nothing => asked[d] # Nothing
      BY <1>1, PendingGives
    <3> QED
      BY <2>2, <3>1, <3>2
  <2> QED
    BY <2>1, <2>2
<1>14. asked' \in [Components -> AskedRecs \cup {Nothing}]
  <2>1. \A c \in Components : asked[c] # Nothing => [asked[c] EXCEPT !.of = Nothing] \in AskedRecs
    BY <1>1 DEF AskedTyped, AskedRecs
  <2> QED
    BY <1>1, <1>12, <2>1, PendingGives
<1>15. QueryInv'
  BY <1>1, <1>8, <1>9, <1>11, <1>13, <1>14, EndedStep
<1>16. ASSUME NEW d \in Components, ListensOn(d) PROVE ListensOn(d)'
  <2>1. current' = current
    BY <1>8, <1>16 DEF ListensOn
  <2> QED
    BY <1>1, <1>8, <1>16, <2>1, EarsGive DEF DataInv
<1> QED
  BY <1>8, <1>15, <1>16

LEMMA PrimeSafe ==
  ASSUME QueryInv, NEW f \in Requests, Prime(f)
  PROVE  /\ QueryInv' /\ PromiseStep
         /\ \A d \in Components : ListensOn(d) => ListensOn(d)'
<1> DEFINE q == GetOrCreate(Cache)
           e == q.current
           v == request[f].version
<1>1. /\ DataInv /\ QueryTypes /\ Heard /\ AskedBacked /\ AskedTyped /\ Room /\ request[f].entry = Nothing
      /\ request[f].phase = "answered" /\ UNCHANGED outside /\ asked' = Pending
  BY DEF QueryInv, DataInv, AskedBacked, Prime
<1>2. Follows(Cache, saved) /\ Awaits(Cache) /\ Cache.current = current /\ Cache.entry = entry /\ Cache \in Caches
  BY <1>1, DataFollows DEF Cache, Follows
<1>3. /\ Follows(q, saved) /\ Awaits(q) /\ e \in Entries /\ q.entry = entry
      /\ current # Nothing => e = current
      /\ current = Nothing => Unused(e)
  BY <1>1, <1>2, CreateFollows, CreateGives DEF Room
<1>4. request' = [request EXCEPT ![f] = Free] /\ Succeed(q, e, v, FALSE)
  BY DEF Prime
<1> HIDE DEF q
<1>5. Untracked
  <2>1. ~Tracked(f)
    BY <1>1 DEF DataInv, InflightBacked, Tracked
  <2> QED
    BY <1>1, <2>1 DEF Untracked, Running
<1>6. /\ DataInv' /\ PromiseStep /\ EarsStay
      /\ \A d \in Components : Mounted(d)' <=> Mounted(d)
      /\ \A d \in Components : d \notin entry[e].listeners => shown'[d] = shown[d]
      /\ current' = e
      /\ \A d \in entry[e].listeners : shown'[d].data = v /\ ~shown'[d].loading
  <2> DEFINE tracked == FALSE
  <2>1. /\ e \in {current, Nothing} \/ Unused(e)
        /\ e # Nothing
        /\ tracked \in BOOLEAN /\ ~tracked /\ Succeed(q, e, request[f].version, tracked)
        /\ \A d \in Entries : q.entry[d].listeners = entry[d].listeners
    BY <1>3, <1>4, QueryAssumption
  <2> HIDE DEF tracked
  <2> QED
    BY <1>1, <1>3, <1>4, <1>5, <2>1, SucceedGives
<1>7. \A g \in Requests : g # f => request'[g] = request[g]
  BY <1>1, <1>4 DEF QueryTypes
<1>8. ASSUME NEW d \in Components
      PROVE  (ListensOn(d)' => ListensOn(d) /\ current' = current) /\ (ListensOn(d) => ListensOn(d)')
  <2>1. ListensOn(d) => current' = current
    BY <1>3, <1>6 DEF ListensOn
  <2> QED
    BY <1>1, <1>6, <2>1, EarsGive DEF DataInv
<1>9. ASSUME NEW d \in Components PROVE LoadingBacked(d)'
  <2>1. ListensOn(d)' => d \in entry[e].listeners
    BY <1>6, <1>8 DEF ListensOn
  <2> QED
    BY <1>6, <2>1 DEF LoadingBacked
<1>10. ASSUME NEW d \in Components
       PROVE  asked'[d] \in {Pending[d], Nothing} /\ (asked'[d] # Nothing => asked[d].of # f)
  <2>1. asked'[d] = Pending[d]
    BY <1>1
  <2>2. Pending[d] # Nothing => asked[d] # Nothing /\ asked[d].of # Nothing
    BY <1>1, PendingGives, QueryAssumption
  <2> QED
    BY <1>1, <2>1, <2>2, QueryAssumption DEF AskedBacked, AskedSafe
<1>11. asked' \in [Components -> AskedRecs \cup {Nothing}]
  BY <1>1, PendingGives
<1>12. QueryInv'
  BY <1>1, <1>6, <1>7, <1>9, <1>10, <1>11, EndedStep
<1> QED
  BY <1>6, <1>8, <1>12

LEMMA FailedGives ==
  ASSUME NEW h \in EntryRecs
  PROVE  /\ Failed(h) \in EntryRecs /\ Failed(h).listeners = h.listeners /\ Failed(h).inflight = Nothing
         /\ Failed(h).data = h.data /\ Failed(h).updated = h.updated
         /\ Failed(h).error <=> h.data = Nothing
<1>1. Later(h.stale, RetryDelay) \in 0..StaleTime + RetryDelay
  <2>1. h.stale \in 0..StaleTime + RetryDelay
    BY DEF EntryRecs
  <2> QED
    BY <2>1, QueryAssumption DEF Later
<1>2. Later(h.expires, CacheTime) \in 0..CacheTime
  <2>1. h.expires \in 0..CacheTime
    BY DEF EntryRecs
  <2> QED
    BY <2>1, QueryAssumption DEF Later
<1> QED
  BY <1>1, <1>2 DEF Failed, EntryRecs

LEMMA FailForGoodSafe ==
  ASSUME QueryInv, NEW f \in Requests, FailForGood(f)
  PROVE  /\ QueryInv' /\ PromiseStep
         /\ \A d \in Components : ListensOn(d) => ListensOn(d)'
<1> DEFINE e == request[f].entry
           h == Failed(entry[e])
           failed == Put(Cache, e, h)
<1>1. /\ DataInv /\ QueryTypes /\ Heard /\ AskedBacked /\ AskedTyped /\ Room /\ e # Nothing
      /\ UNCHANGED <<outside, saved>>
  BY DEF QueryInv, DataInv, AskedBacked, FailForGood
<1>2. e \in Entries /\ ~Unused(e)
  BY <1>1, OfEntry
<1>3. /\ Follows(Cache, saved) /\ Awaits(Cache) /\ Usable(saved) /\ Usable(saved')
      /\ Cache.current = current /\ Cache.entry = entry /\ Cache \in Caches
  BY <1>1, DataFollows DEF Cache, Follows
<1>4. entry[e] \in EntryRecs
  BY <1>1, <1>2 DEF QueryTypes
<1>5. /\ h \in EntryRecs /\ h.listeners = entry[e].listeners /\ h.inflight = Nothing
      /\ h.data = entry[e].data /\ h.updated = entry[e].updated /\ (h.error <=> entry[e].data = Nothing)
  BY <1>4, FailedGives
<1>6. [Cache EXCEPT !.entry[e] = Failed(@)] = failed
  BY <1>2, <1>3 DEF Put, Caches
<1>7. /\ request' = [request EXCEPT ![f] = Free] /\ Awaited(f, FALSE)
      /\ Commit([Notify(failed, e, saved') EXCEPT !.entry[e].timer = TRUE])
      /\ Renders(failed, e, saved')
  BY <1>1, <1>6 DEF FailForGood
<1> HIDE DEF h
<1>8. e = current => Cell(h, saved')
  <2> SUFFICES ASSUME e = current PROVE Cell(h, saved')
    OBVIOUS
  <2>1. Cell(entry[e], saved)
    BY <1>1, <1>3 DEF Follows
  <2> QED
    BY <1>1, <1>5, <2>1 DEF Cell
<1>9. e # current /\ current # Nothing => Cell(entry[current], saved')
  BY <1>1, <1>3 DEF Follows
<1>10. /\ DataInv' /\ PromiseStep /\ EarsStay
       /\ \A d \in Components : Mounted(d)' <=> Mounted(d)
       /\ \A d \in Components : d \notin entry[e].listeners => shown'[d] = shown[d]
       /\ current # Nothing => current' = current
       /\ e = current => \E x \in {h, Hydrate(h, saved')} : \A d \in entry[e].listeners :
            shown'[d].loading => x.data = Nothing /\ ~x.error
  <2> DEFINE q == Cache
  <2>1. /\ Follows(q, saved) /\ Awaits(q) /\ q.current = current
        /\ q.current \in {current, Nothing} \/ Unused(q.current)
        /\ \A d \in Entries : q.entry[d].listeners = entry[d].listeners
        /\ e # q.current => ~Unused(e) /\ request[f].entry = e
        /\ e # q.current /\ q.current # Nothing => Cell(q.entry[q.current], saved')
        /\ e = q.current => Cell(h, saved')
        /\ Commit([Notify(Put(q, e, h), e, saved') EXCEPT !.entry[e].timer = TRUE])
        /\ Renders(Put(q, e, h), e, saved')
    BY <1>2, <1>3, <1>7, <1>8, <1>9
  <2> HIDE DEF q, e
  <2>2. /\ DataInv' /\ PromiseStep /\ EarsStay
        /\ \A d \in Components : Mounted(d)' <=> Mounted(d)
        /\ \A d \in Components : d \notin entry[e].listeners => shown'[d] = shown[d]
        /\ q.current # Nothing => current' = q.current
        /\ e = q.current => \E x \in {h, Hydrate(h, saved')} : \A d \in entry[e].listeners :
             /\ shown'[d].data = x.data
             /\ shown'[d].loading => x.data = Nothing /\ ~x.error
    BY <1>1, <1>2, <1>3, <1>5, <1>7, <2>1, EndGives
  <2> QED
    BY <2>1, <2>2
<1>11. \A g \in Requests : g # f => request'[g] = request[g]
  BY <1>1, <1>7 DEF QueryTypes
<1>12. ASSUME NEW d \in Components
       PROVE  (ListensOn(d)' => ListensOn(d) /\ current' = current) /\ (ListensOn(d) => ListensOn(d)')
  <2>1. ListensOn(d) => current' = current
    BY <1>10 DEF ListensOn
  <2> QED
    BY <1>1, <1>10, <2>1, EarsGive DEF DataInv
<1>13. \A x \in {h, Hydrate(h, saved')} : ~(x.data = Nothing /\ ~x.error)
  <2>1. Hydrate(h, saved') = h \/ TakenFrom(Hydrate(h, saved'), h, saved')
    BY <1>3, <1>5, HydrateGives DEF Usable
  <2>2. TakenFrom(Hydrate(h, saved'), h, saved') => Hydrate(h, saved').data \in 0..server
    BY <1>3 DEF TakenFrom, Usable
  <2> QED
    BY <1>5, <2>1, <2>2, QueryAssumption
<1>14. ASSUME NEW d \in Components PROVE LoadingBacked(d)'
  <2>1. CASE e = current
    <3>1. ListensOn(d)' => d \in entry[e].listeners
      BY <1>12, <2>1 DEF ListensOn
    <3> QED
      BY <1>10, <1>13, <2>1, <3>1 DEF LoadingBacked
  <2>2. CASE e # current /\ ListensOn(d)
    <3>1. shown'[d] = shown[d]
      BY <1>2, <1>10, <2>2, Apart
    <3> QED
      BY <1>10, <1>11, <2>2, <3>1, OthersLoad
  <2>3. CASE ~ListensOn(d)
    BY <1>12, <2>3 DEF LoadingBacked
  <2> QED
    BY <2>1, <2>2, <2>3
<1>15. asked' = [c \in Components |-> IF asked[c] # Nothing /\ asked[c].of = f THEN Nothing ELSE Pending[c]]
  BY <1>7 DEF Awaited
<1>16. ASSUME NEW d \in Components
       PROVE  asked'[d] \in {Pending[d], Nothing} /\ (asked'[d] # Nothing => asked[d].of # f)
  <2>1. Pending[d] # Nothing => asked[d] # Nothing
    BY <1>1, PendingGives
  <2> QED
    BY <1>15, <2>1
<1>17. asked' \in [Components -> AskedRecs \cup {Nothing}]
  BY <1>1, <1>15, PendingGives
<1>18. QueryInv'
  BY <1>1, <1>10, <1>11, <1>14, <1>16, <1>17, EndedStep
<1> QED
  BY <1>10, <1>12, <1>18

-----------------------------------------------------------------------------
(* The query cache as a whole *)

\* What StaysSubscribed says of a step.
KeepsListening == \A c \in Components : ListensOn(c) /\ Mounted(c)' /\ ~Invalidate => ListensOn(c)'

LEMMA QueryStarts == ASSUME Init PROVE QueryInv /\ Promise!Init
<1>1. /\ server = 0 /\ persists \in BOOLEAN /\ current = Nothing /\ saved = Nothing
      /\ entry = [e \in Entries |-> Blank] /\ request = [f \in Requests |-> Free]
      /\ shown = [c \in Components |-> Nothing] /\ asked = [c \in Components |-> Nothing]
  BY DEF Init
<1>2. 0 \in 0..MaxVersion /\ 0 <= server
  BY <1>1, QueryAssumption
<1>3. QueryTypes /\ AskedTyped
  BY <1>1, <1>2, BlankTyped DEF QueryTypes, AskedTyped
<1>4. Data = Nothing /\ \A f \in Requests : ~Running(f)
  BY <1>1 DEF Data, Running, Free
<1>5. ValuesServed /\ Dated /\ SavedIsNewer /\ InflightBacked
  BY <1>1, <1>4 DEF ValuesServed, Dated, SavedIsNewer, InflightBacked, Tracked, Free
<1>6. Heard
  BY <1>1 DEF Heard, Mounted, Blank
<1>7. \A c \in Components : AskedSafe(c) /\ SeesWrites(c) /\ LoadingBacked(c)
  BY <1>1 DEF AskedSafe, SeesWrites, LoadingBacked, ListensOn
<1>8. Untracked \in BOOLEAN
  BY DEF Untracked
<1> QED
  BY <1>1, <1>3, <1>4, <1>5, <1>6, <1>7, <1>8 DEF QueryInv, DataInv, AskedBacked, Promise!Init

LEMMA QueryStay == ASSUME QueryInv, [Next]_vars PROVE QueryInv' /\ PromiseStep /\ [KeepsListening]_vars
<1>1. CASE UNCHANGED vars
  <2>1. UNCHANGED <<server, persists, entry, current, saved, request, shown, asked>>
    BY <1>1 DEF vars, outside
  <2>2. DataInv'
    BY <2>1 DEF QueryInv, DataInv, QueryTypes, ValuesServed, Dated, SavedIsNewer, InflightBacked, Tracked,
       Running, Data
  <2>3. Heard' /\ AskedBacked' /\ \A c \in Components : SeesWrites(c)' /\ LoadingBacked(c)'
    BY <2>1 DEF QueryInv, Heard, Mounted, AskedBacked, AskedTyped, AskedSafe, ListensOn, Running, SeesWrites,
                LoadingBacked
  <2>4. PromiseStep
    BY <2>1 DEF PromiseStep, Data
  <2> QED
    BY <1>1, <2>2, <2>3, <2>4 DEF QueryInv
<1>2. CASE Tick
  BY <1>2, TickSafe DEF KeepsListening
<1>3. CASE ServerMoves
  BY <1>3, ServerMovesSafe DEF KeepsListening
<1>4. CASE OtherTabSaves
  BY <1>4, OtherTabSavesSafe DEF KeepsListening
<1>5. CASE Invalidate
  BY <1>5, InvalidateSafe DEF KeepsListening
<1>6. CASE LoadPage \/ \E f \in Requests : Serve(f) \/ FailAndRetry(f) \/ Retry(f) \/ PageFails(f)
  BY <1>6, RequestsSafe DEF KeepsListening
<1>7. CASE CollectGarbage
  BY <1>7, CollectSafe DEF KeepsListening
<1>8. CASE \E c \in Components : Mount(c) \/ Unmount(c) \/ Refetch(c)
  BY <1>8, MountSafe, UnmountSafe, RefetchSafe DEF KeepsListening
<1>9. CASE \E f \in Requests : Arrive(f) \/ FailForGood(f) \/ Prime(f)
  BY <1>9, AnswerSafe, FailForGoodSafe, PrimeSafe DEF KeepsListening
<1> QED
  BY <1>1, <1>2, <1>3, <1>4, <1>5, <1>6, <1>7, <1>8, <1>9 DEF Next

LEMMA QuerySays == ASSUME QueryInv PROVE TypeOK /\ RefetchSeesWrites /\ LoadingIsBacked
<1>1. TypeOK
  <2>1. EntryRecs \subseteq [data : Value, error : BOOLEAN, updated : Int, stale : 0..StaleTime + RetryDelay,
                 expires : 0..CacheTime, inflight : Requests \cup {Nothing}, fetching : BOOLEAN,
                 listeners : SUBSET Components, timer : BOOLEAN]
    BY QueryAssumption DEF EntryRecs
  <2> QED
    BY <2>1 DEF QueryInv, DataInv, QueryTypes, TypeOK, SavedRecs, RequestRecs, Views
<1>2. RefetchSeesWrites
  BY DEF QueryInv, SeesWrites, RefetchSeesWrites
<1>3. LoadingIsBacked
  BY DEF QueryInv, LoadingBacked, LoadingIsBacked
<1> QED
  BY <1>1, <1>2, <1>3

-----------------------------------------------------------------------------
(* The web client *)

WebInv == QueryInv /\ WatchInv /\ SessionInv /\ OwnerUnlessLoading

LEMMA WebStarts == ASSUME WebInit PROVE WebInv /\ Promise!Init
<1>1. Init /\ Watch!Init
  BY DEF WebInit
<1>2. SessionInit
  BY <1>1 DEF Watch!Init, Watch!SessionInit, SessionInit, Watch!Tokens, Tokens, Watch!TokenOf, TokenOf
<1> QED
  BY <1>1, <1>2, QueryStarts, WatchStarts, SessionStarts DEF WebInv

LEMMA WebStep ==
  ASSUME WebInv, [QueryStep \/ WatchStep]_<<crowd, vars, watchVars>>
  PROVE  WebInv' /\ PromiseStep /\ [KeepsListening]_vars
<1>1. [Next]_vars /\ [Watch!Next]_watchVars
  BY DEF QueryStep, WatchStep
<1>2. [SessionNext]_session
  <2>1. UNCHANGED watchVars => UNCHANGED session
    BY DEF watchVars, session
  <2> QED
    BY <1>1, <2>1, WatchMovesSession
<1> QED
  BY <1>1, <1>2, QueryStay, WatchStay, SessionStep, OwnerStep DEF WebInv

LEMMA WebHolds == WebSpec => []WebInv
<1>1. WebInit => WebInv
  BY WebStarts
<1>2. WebInv /\ [QueryStep \/ WatchStep]_<<crowd, vars, watchVars>> => WebInv'
  BY WebStep
<1> QED
  BY <1>1, <1>2, PTL DEF WebSpec

\* For any components, requests, retries and times, and any users and symbols,
\* the two parts of the web client stay within their types.
THEOREM WebTypesHold == WebSpec => []WebTypes
<1>1. WebInv => WebTypes
  BY QuerySays, WatchSays DEF WebInv, WebTypes
<1> QED
  BY <1>1, WebHolds, PTL

\* However answers, retries, other tabs, garbage collection and remounts are
\* interleaved, the data of a query is something that the server answered and
\* newer data is never replaced by older, unless a request runs unseen: the
\* query cache of core.ts implements QueryPromise.
THEOREM PromiseIsKept == WebSpec => KeepsPromise
<1>1. WebInit => Promise!Init
  BY WebStarts
<1>2. WebInv /\ [QueryStep \/ WatchStep]_<<crowd, vars, watchVars>> => [Promise!Next]_<<server, Data>>
  BY WebStep DEF PromiseStep
<1> QED
  BY <1>1, <1>2, WebHolds, PTL DEF WebSpec, KeepsPromise, Promise!Spec

\* A mounted component of useApiQuery listens to the entry that later requests
\* fill, whenever entries are collected; only invalidation takes it away.
THEOREM SubscribersStay == WebSpec => StaysSubscribed
<1>1. WebInv /\ [QueryStep \/ WatchStep]_<<crowd, vars, watchVars>> => [KeepsListening]_vars
  BY WebStep
<1>2. WebSpec => [][KeepsListening]_vars
  BY <1>1, WebHolds, PTL DEF WebSpec
<1> QED
  BY <1>2 DEF KeepsListening, StaysSubscribed

\* When a refetch() that found no request in flight resolves, its component
\* shows what the server had when it was called, or something newer.
THEOREM RefetchesSeeWrites == WebSpec => []RefetchSeesWrites
<1>1. WebInv => RefetchSeesWrites
  BY QuerySays DEF WebInv
<1> QED
  BY <1>1, WebHolds, PTL

\* A component that shows "loading" waits for a request that runs, however the
\* entry was hydrated, primed, collected or failed meanwhile.
THEOREM LoadingEndsWithARequest == WebSpec => []LoadingIsBacked
<1>1. WebInv => LoadingIsBacked
  BY QuerySays DEF WebInv
<1> QED
  BY <1>1, WebHolds, PTL

\* For any limit and any users and symbols, whichever of them take part, what a
\* user added or removed stays so, here and on the server, in whatever order
\* reads and writes are answered, unless a read ran beside the write, the write
\* failed or another interfered.  Two steps of watchTargets.ts take it back: the
\* limit keeps a symbol out here, never on the server, and a legacy symbol comes
\* back when the last one is removed.
THEOREM WishesAreKept == WebSpec => []WishesHold
<1>1. WebInv => WishesHold
  BY WatchSays DEF WebInv
<1> QED
  BY <1>1, WebHolds, PTL

\* AuthProvider shows the token that localStorage holds unless that changed
\* while an answer of getCurrentUser was awaited, and isLoading means that one is.
\* In whatever order the answers come, a user is shown with the token of
\* another one at most while AuthProvider is loading.
THEOREM SessionAgrees == WebSpec => [](ShownIsOwned /\ LoadingIsAwaited)
<1>1. WebInv => ShownIsOwned /\ LoadingIsAwaited
  BY DEF WebInv, SessionInv, ShownIsOwned
<1> QED
  BY <1>1, WebHolds, PTL

=============================================================================
