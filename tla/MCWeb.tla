------------------------------- MODULE MCWeb --------------------------------
(***************************************************************************)
(* The web client: one query of the query cache, and the watch list under  *)
(* the session.  They share no state, so each behaviour is one of either.  *)
(***************************************************************************)
EXTENDS QueryCache, Session

CONSTANTS
  Crowds,  \* bound: the users and symbols that take part in a behaviour together,
           \* with "legacy" if there may be a legacy list; {} stands for a
           \* behaviour of the query cache
  Symbols, MaxTargets, MaxFetches, MaxWrites, Unrecorded

\* What stands for nothing is told from what may be there.
ASSUME NoneAssumption ==
  /\ None \notin Tokens \cup Users
  /\ \A S \in SUBSET Symbols : S # None
  /\ \A v \in [age : 0..MaxAge, value : 0..MaxVersion, tracked : BOOLEAN] : v # Nothing
  /\ \A v \in [data : 0..MaxVersion \cup {Nothing}, error : BOOLEAN, loading : BOOLEAN] : v # Nothing
  /\ \A v \in [of : Requests \cup {Nothing}, version : 0..MaxVersion] : v # Nothing

\* An identifier of a user is neither a signature nor the key of everyone's list.
ASSUME UsersAssumption ==
  {"everyone", "signature"} \cap Users = {} /\ MaxChecks \in Nat \ {0} /\ Unrecorded \subseteq Symbols

\* A list has room for a symbol.
ASSUME TargetsAssumption == IsFiniteSet(Symbols) /\ MaxTargets \in Nat \ {0}

VARIABLES
  crowd,  \* what this behaviour is about, one of Crowds
  open, lists, legacy, remote, data, seen, fetches, writes, cut, wish, meant

MCNever == -1

Watch == INSTANCE WatchSync

watchVars == <<stored, token, user, loading, checks, mixed,
               open, lists, legacy, remote, data, seen, fetches, writes, cut, wish, meant>>

\* No other user is seen here, and no other symbol on a list; nor is there a legacy
\* list, unless it takes part.
Within(among) ==
  /\ stored \in {TokenOf(u) : u \in among \cap Users} \cup {None}
  /\ legacy \subseteq IF "legacy" \in among THEN among ELSE {}
  /\ \A k \in DOMAIN lists : lists[k] \subseteq among
  /\ \A u \in Users : remote[u] \subseteq IF u \in among THEN among ELSE {}

WebInit ==
  /\ crowd \in Crowds
  /\ Init /\ Watch!Init /\ Within(crowd)
  /\ crowd # {} => persists = FALSE

QueryStep == crowd = {} /\ Next /\ UNCHANGED <<crowd, watchVars>>
WatchStep == crowd # {} /\ Watch!Next /\ UNCHANGED <<crowd, vars>> /\ Within(crowd)'

WebSpec == WebInit /\ [][QueryStep \/ WatchStep]_<<crowd, vars, watchVars>>

WebTypes == TypeOK /\ Watch!TypeOK
WishesHold == Watch!WishesHold
EachUserTheirOwn == Watch!EachUserTheirOwn
=============================================================================
