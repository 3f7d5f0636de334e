------------------------------ MODULE Session -------------------------------
(***************************************************************************)
(* The session of the web client: the token in localStorage                *)
(* (utils/auth.ts), which other tabs change too, and what AuthProvider     *)
(* (providers/AuthProvider.tsx) shows of it to the pages.  Its syncAuth    *)
(* asks the server whose token it is; several calls may await an answer.   *)
(***************************************************************************)
EXTENDS Naturals, FiniteSets

CONSTANTS
  Users,      \* the users of this browser
  None,       \* no token, no user
  MaxChecks   \* bound: answers awaited at once for one token

VARIABLES
  stored,      \* the token in localStorage
  token, user, \* the states of AuthProvider
  loading,     \* its isLoading
  checks,      \* how many answers of getCurrentUser are awaited for each token
  mixed        \* history: since a call of syncAuth that found no other one
               \* waiting, the token changed during one, or in another tab

session == <<stored, token, user, loading, checks, mixed>>

\* A token is a payload, whose "sub" is the user, and a signature
\* (core/security.py).
TokenOf(u) == <<u, "signature">>
Owner(t) == t[1]
Tokens == {TokenOf(u) : u \in Users}

NoChecks == [t \in Tokens |-> 0]
Waiting(c) == \E t \in Tokens : c[t] > 0

\* Mutant: setIsLoading(true) is forgotten.
SyncAuthQuietly(t, c) ==
  /\ token' = t /\ loading' = (loading /\ t # None)
  /\ IF t = None THEN user' = None /\ checks' = c
     ELSE UNCHANGED user /\ checks' = [c EXCEPT ![t] = @ + 1]
  /\ mixed' = Waiting(c)

\* syncAuth up to its await, with t in localStorage and c still unanswered.
SyncAuth(t, c) ==
  /\ token' = t /\ loading' = (t # None)
  /\ IF t = None THEN user' = None /\ checks' = c
     ELSE UNCHANGED user /\ checks' = [c EXCEPT ![t] = @ + 1]
  /\ mixed' = Waiting(c)

SessionInit ==
  /\ stored \in Tokens \cup {None}
  /\ token = stored /\ user = None /\ loading = (stored # None)
  /\ checks = [t \in Tokens |-> IF t = stored THEN 1 ELSE 0]
  /\ mixed = FALSE

\* setAuthToken, after a login or a registration; the event runs syncAuth.
SignIn(u) ==
  /\ checks[TokenOf(u)] < MaxChecks
  /\ stored' = TokenOf(u)
  /\ SyncAuth(TokenOf(u), checks)

\* clearAuthToken, by the button.
SignOut ==
  /\ stored' = None
  /\ SyncAuth(None, checks)

Answered(t) == [checks EXCEPT ![t] = @ - 1]

\* getCurrentUser resolves: the call shows the token that it asked about.
CheckSucceeds(t) ==
  /\ checks[t] > 0
  /\ token' = t /\ user' = Owner(t) /\ loading' = FALSE
  /\ checks' = Answered(t)
  /\ UNCHANGED <<stored, mixed>>

\* Mutant: the token is cleared, and nobody is told.
CheckFailsQuietly(t) ==
  /\ checks[t] > 0
  /\ stored' = None
  /\ checks' = Answered(t)
  /\ UNCHANGED <<token, user, loading, mixed>>

\* getCurrentUser rejects (the token expired, the server is away): whatever is
\* in localStorage by now is cleared, and the event runs syncAuth.
CheckFails(t) ==
  /\ checks[t] > 0
  /\ stored' = None
  /\ SyncAuth(None, Answered(t))

\* A reload of the page: what it awaited is gone.
Reload ==
  /\ UNCHANGED stored
  /\ SyncAuth(stored, NoChecks)

\* Another tab signs in or out; the storage event is not listened to.
OtherTab ==
  /\ \E t \in Tokens \cup {None} : t # stored /\ stored' = t
  /\ mixed' = TRUE
  /\ UNCHANGED <<token, user, loading, checks>>

SessionNext ==
  \/ SignOut
  \/ Reload
  \/ OtherTab
  \/ \E u \in Users : SignIn(u)
  \/ \E t \in Tokens : CheckSucceeds(t) \/ CheckFails(t)

SessionSpec == SessionInit /\ [][SessionNext]_session

-----------------------------------------------------------------------------
(* Properties *)

\* What the pages are shown agrees with the token in localStorage, once the
\* server has answered, unless the token changed while an answer was awaited
\* or in another tab: an older answer then shows, or clears, the wrong one.
AgreesUnlessMixed ==
  ~mixed => /\ token = stored
            /\ ~Waiting(checks) =>
                 /\ ~loading
                 /\ user = IF token = None THEN None ELSE Owner(token)

\* isAuthenticated holds with another user's token at most while isLoading,
\* in whatever order the answers about several tokens come.
OwnerUnlessLoading ==
  token # None /\ user # None /\ user # Owner(token) => loading

\* The pages show what belongs to the token in localStorage unless mixed, and even
\* then another's user with it only while AuthProvider is loading.
ShownIsOwned == AgreesUnlessMixed /\ OwnerUnlessLoading

\* isLoading ends with some answer.
LoadingIsAwaited == loading => Waiting(checks)
=============================================================================
