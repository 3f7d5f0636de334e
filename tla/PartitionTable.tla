--------------------------- MODULE PartitionTable ---------------------------
(***************************************************************************)
(* The tables of reference data that the API fills when they are read:     *)
(* bond and exchange quotes, institutes' holdings and recommendations, and *)
(* report disclosures.  A request that finds no rows of the partition it   *)
(* wants, or is to refresh it, fetches them and replaces the partition in  *)
(* one transaction (PostgreSQL, read committed).  The rows that one        *)
(* transaction inserted are a block, named for the request's turn.         *)
(***************************************************************************)
EXTENDS Naturals, FiniteSets, FiniteSetsExt

CONSTANTS
  Callers,     \* request threads
  Partitions,  \* quarters, periods, categories: numbers, the latest the highest
  MaxBlocks    \* bound: replacements

Blocks == 1..MaxBlocks

VARIABLES
  rows,      \* the blocks of each partition
  made,      \* how many blocks were made
  mixed,     \* history: partitions that two overlapping requests replaced
  call       \* what each request is at: its target, the candidates left to
             \* try, and what its deletion saw

vars == <<rows, made, mixed, call>>

Idle == [at |-> "idle", left |-> {}, saw |-> {}]

Init ==
  /\ rows = [p \in Partitions |-> {}] /\ made = 0 /\ mixed = {}
  /\ call = [c \in Callers |-> Idle]

Goes(c, at, left) == call' = [call EXCEPT ![c] = [at |-> at, left |-> left, saw |-> {}]]

\* The latest partition with rows is served when none is named.
Filled == {p \in Partitions : rows[p] # {}}

-----------------------------------------------------------------------------
(* Requests *)

\* One partition that is missing or is to be refreshed.  One that is there is
\* served at once.
Want(c, p) ==
  /\ call[c].at = "idle"
  /\ Goes(c, "fetch", {p})
  /\ UNCHANGED <<rows, made, mixed>>

\* No partition is named and none is there: each candidate, the latest first.
WantAny(c) ==
  /\ call[c].at = "idle" /\ Filled = {}
  /\ Goes(c, "fetch", Partitions)
  /\ UNCHANGED <<rows, made, mixed>>

\* _ensure_rows and its likes.
BondRows(c, p) == Want(c, p)
FxRows(c, p) == Want(c, p)
InstituteHolds(c, p) == Want(c, p) \/ WantAny(c)
InstituteHoldDetails(c, p) == Want(c, p) \/ WantAny(c)
Recommendations(c, p) == Want(c, p)
ReportDisclosures(c, p) == Want(c, p) \/ WantAny(c)

\* The provider has nothing: the next candidate, or none is left.
FetchNothing(c) ==
  /\ call[c].at = "fetch"
  /\ LET left == call[c].left \ {Max(call[c].left)}
     IN Goes(c, IF left = {} THEN "idle" ELSE "fetch", left)
  /\ UNCHANGED <<rows, made, mixed>>

\* The provider, the deletion or the commit raises; the transaction is rolled
\* back.
Fail(c) ==
  /\ call[c].at # "idle"
  /\ Goes(c, "idle", {})
  /\ UNCHANGED <<rows, made, mixed>>

Target(c) == Max(call[c].left)

\* Rows were fetched, and query.delete() runs: it sees what is committed.
Delete(c) ==
  /\ call[c].at = "fetch"
  /\ call' = [call EXCEPT ![c].at = "insert", ![c].saw = rows[Target(c)]]
  /\ UNCHANGED <<rows, made, mixed>>

\* Mutant: the former rows stay.
InsertOnly(c) ==
  /\ call[c].at = "insert" /\ made < MaxBlocks
  /\ made' = made + 1
  /\ rows' = [rows EXCEPT ![Target(c)] = @ \cup {made'}]
  /\ mixed' = IF rows[Target(c)] \subseteq call[c].saw THEN mixed ELSE mixed \cup {Target(c)}
  /\ Goes(c, "idle", {})

\* add_all and commit.
Insert(c) ==
  /\ call[c].at = "insert" /\ made < MaxBlocks
  /\ made' = made + 1
  /\ rows' = [rows EXCEPT ![Target(c)] = (@ \ call[c].saw) \cup {made'}]
  /\ mixed' = IF rows[Target(c)] \subseteq call[c].saw THEN mixed \ {Target(c)}
                                                       ELSE mixed \cup {Target(c)}
  /\ Goes(c, "idle", {})

Next ==
  \E c \in Callers :
    \/ \E p \in Partitions :
         \/ BondRows(c, p) \/ FxRows(c, p)
         \/ InstituteHolds(c, p) \/ InstituteHoldDetails(c, p)
         \/ Recommendations(c, p) \/ ReportDisclosures(c, p)
    \/ FetchNothing(c)
    \/ Fail(c)
    \/ Delete(c)
    \/ Insert(c)

Spec == Init /\ [][Next]_vars

-----------------------------------------------------------------------------
(* Properties *)

TypeOK ==
  /\ rows \in [Partitions -> SUBSET Blocks] /\ made \in 0..MaxBlocks /\ mixed \subseteq Partitions
  /\ \A c \in Callers :
       /\ call[c].at \in {"idle", "fetch", "insert"} /\ call[c].left \subseteq Partitions
       /\ call[c].at # "idle" => call[c].left # {}

\* A partition shows the rows of one fetch, never those of two, unless two
\* requests replaced it at once: the keys of these tables do not stop the
\* later from adding its rows to the earlier's.  The next replacement that
\* meets no other mends it.
ShownOnce == \A p \in Partitions \ mixed : Cardinality(rows[p]) <= 1
=============================================================================
