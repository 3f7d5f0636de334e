---------------------------- MODULE QueryPromise ----------------------------
(***************************************************************************)
(* What the query cache of the web client promises about one query: the    *)
(* data it holds is something the server answered, and newer data is never *)
(* replaced by older data, except while a request runs that the cache does *)
(* not know of.  The cache may forget what it holds at any time.           *)
(***************************************************************************)
EXTENDS Naturals

CONSTANT Nothing   \* no data

VARIABLES
  server,   \* the version of the data at the server
  value,    \* the version that the cache holds, or Nothing
  excused   \* a request runs, or its answer is kept, that the cache does not wait for

Init == server = 0 /\ value = Nothing /\ excused \in BOOLEAN

ServerMoves == server' = server + 1 /\ UNCHANGED value

Learn ==
  /\ value' \in 0..server
  /\ value # Nothing /\ ~excused => value' >= value
  /\ UNCHANGED server

Forget == value' = Nothing /\ UNCHANGED server

Next == (ServerMoves \/ Learn \/ Forget) /\ excused' \in BOOLEAN

Spec == Init /\ [][Next]_<<server, value>>
=============================================================================
