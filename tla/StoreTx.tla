------------------------------ MODULE StoreTx ------------------------------
(***************************************************************************)
(* The transactions of Index taken apart: store.tx runs them at Postgres's *)
(* default isolation, READ COMMITTED, and handlers, the firehose and the   *)
(* backfiller's workers overlap.  Every statement sees the rows committed  *)
(* when it starts plus its own transaction's writes; a row that another    *)
(* open transaction has written makes it wait.  Kept to the tables behind  *)
(* fork counts (sheets, profiles, sheet_stats): ratings and favorites are  *)
(* counted by the same recomputeAll around the same statements.            *)
(***************************************************************************)
EXTENDS Tally, SequencesExt

CONSTANTS
    Worker,     \* connections a transaction can run on
    Ops,        \* the operations called: Upsert, Delete and Hide records
    NoRow       \* a sheet row deleted by a transaction still open

Upsert(u, row) == [kind |-> "upsert", uri |-> u, row |-> row]
Delete(u) == [kind |-> "delete", uri |-> u]
Hide(d, hidden) == [kind |-> "hide", did |-> d, hidden |-> hidden]

VARIABLES
    sheets, profiles, stats,    \* what is committed; stats: URI -> fork_count
    pc,         \* the statement each worker runs next
    op,         \* the operation it runs
    todo,       \* the URIs it has yet to recount, in order
    counted,    \* fork_count as the SELECT of RecomputeStats found it
    wrote,      \* its uncommitted rows, per table
    alone       \* no other transaction was open since it began

db == <<sheets, profiles, stats>>
vars == <<sheets, profiles, stats, pc, op, todo, counted, wrote, alone>>

NoWrites == [sheets |-> Empty, profiles |-> Empty, stats |-> Empty]
NoOp == [kind |-> "none"]

Init ==
    /\ sheets = Empty /\ profiles = Empty /\ stats = Empty
    /\ pc = [w \in Worker |-> "idle"]
    /\ op = [w \in Worker |-> NoOp]
    /\ todo = [w \in Worker |-> <<>>]
    /\ counted = [w \in Worker |-> 0]
    /\ wrote = [w \in Worker |-> NoWrites]
    /\ alone = [w \in Worker |-> FALSE]

-----------------------------------------------------------------------------
(* Postgres: what a statement sees, and what it waits for. *)

Over(table, writes) ==
    [k \in DOMAIN table \cup DOMAIN writes |->
        IF k \in DOMAIN writes THEN writes[k] ELSE table[k]]

SheetsSeen(w) ==
    LET seen == Over(sheets, wrote[w].sheets)
    IN  Drop(seen, {u \in DOMAIN seen : seen[u] = NoRow})
ProfilesSeen(w) == Over(profiles, wrote[w].profiles)

\* The row the worker's next statement writes, if it writes one: a DELETE sees
\* no row that another transaction has only inserted.
Target(w) ==
    CASE pc[w] = "sheet" /\ (op[w].kind = "delete" => op[w].uri \in DOMAIN sheets) ->
            {<<"sheets", op[w].uri>>}
      [] pc[w] = "profile" /\ Owner(op[w].uri) \notin DOMAIN ProfilesSeen(w) ->
            {<<"profiles", Owner(op[w].uri)>>}
      [] pc[w] = "hide" /\ op[w].did \in DOMAIN ProfilesSeen(w)
                        /\ ProfilesSeen(w)[op[w].did] # op[w].hidden ->
            {<<"profiles", op[w].did>>}
      [] pc[w] = "store" -> {<<"stats", Head(todo[w])>>}
      [] OTHER -> {}

\* (Slip: the recount locks the forks it counts and their authors, FOR SHARE.)
LocksForShare(w) ==
    LET forks == {u \in DOMAIN sheets : pc[w] = "count" /\ todo[w] # <<>>
                                         /\ sheets[u].forkOf = Head(todo[w])}
    IN  Target(w) \cup {<<"sheets", u>> : u \in forks}
                  \cup {<<"profiles", Owner(u)>> : u \in forks}

\* The rows it locks are the row it writes: counting is a plain SELECT.
Locks(w) == Target(w)

Holds(w) == {<<t, k>> : t \in {"sheets"}, k \in DOMAIN wrote[w].sheets}
       \cup {<<t, k>> : t \in {"profiles"}, k \in DOMAIN wrote[w].profiles}
       \cup {<<t, k>> : t \in {"stats"}, k \in DOMAIN wrote[w].stats}

Blockers(w) == {v \in Worker \ {w} : Locks(w) \cap Holds(v) # {}}
Runs(w, statement) == pc[w] = statement /\ Blockers(w) = {}

\* Transactions each waiting for another of them.
Deadlocked(w) ==
    \E C \in SUBSET Worker :
        /\ w \in C
        /\ \A v \in C : /\ Blockers(v) \cap C # {}
                        /\ \E x \in C : v \in Blockers(x)

Goto(w, statement) == pc' = [pc EXCEPT ![w] = statement]

-----------------------------------------------------------------------------
(* The statements of UpsertSheet, DeleteSheet and SetHidden. *)

Begin(w, o) ==
    /\ pc[w] = "idle"
    /\ op' = [op EXCEPT ![w] = o]
    /\ Goto(w, CASE o.kind = "upsert" -> "old"
                 [] o.kind = "delete" -> "sheet"
                 [] OTHER               -> "hide")
    /\ LET open == {v \in Worker : pc[v] # "idle"}
       IN  alone' = [v \in Worker |-> IF v = w THEN open = {} ELSE FALSE]
    /\ UNCHANGED <<db, todo, counted, wrote>>

\* SheetForkOf.
ReadOldFork(w) ==
    /\ Runs(w, "old")
    /\ LET u == op[w].uri
       IN  todo' = [todo EXCEPT ![w] =
                      IF u \in DOMAIN sheets THEN <<sheets[u].forkOf>> ELSE <<>>]
    /\ Goto(w, "sheet")
    /\ UNCHANGED <<db, op, counted, wrote, alone>>

WriteSheet(w) ==
    /\ Runs(w, "sheet") /\ op[w].kind = "upsert"
    /\ wrote' = [wrote EXCEPT ![w].sheets = Put(@, op[w].uri, op[w].row)]
    /\ Goto(w, "profile")
    /\ UNCHANGED <<db, op, todo, counted, alone>>

\* EnsureProfile; then recomputeAll starts on the distinct, non-empty URIs.
EnsureProfile(w) ==
    /\ Runs(w, "profile")
    /\ wrote' = [wrote EXCEPT ![w].profiles =
                   IF Target(w) = {} THEN @ ELSE Put(@, Owner(op[w].uri), FALSE)]
    /\ LET new == op[w].row.forkOf
       IN  todo' = [todo EXCEPT ![w] =
                      SelectSeq(IF Contains(@, new) THEN @ ELSE Append(@, new),
                                LAMBDA s : s # NoFork)]
    /\ Goto(w, "count")
    /\ UNCHANGED <<db, op, counted, alone>>

\* DELETE ... RETURNING fork_of_uri; without a row there is nothing to count.
DeleteRow(w) ==
    /\ Runs(w, "sheet") /\ op[w].kind = "delete"
    /\ LET u == op[w].uri
       IN  IF u \in DOMAIN sheets
           THEN /\ wrote' = [wrote EXCEPT ![w].sheets = Put(@, u, NoRow)]
                /\ todo' = [todo EXCEPT ![w] =
                      SelectSeq(<<sheets[u].forkOf>>, LAMBDA s : s # NoFork)]
           ELSE UNCHANGED <<wrote, todo>>
    /\ Goto(w, "count")
    /\ UNCHANGED <<db, op, counted, alone>>

\* UPDATE profiles ... WHERE did = $1 AND hidden <> $2.
WriteHidden(w) ==
    /\ Runs(w, "hide")
    /\ wrote' = [wrote EXCEPT ![w].profiles =
                   IF Target(w) = {} THEN @ ELSE Put(@, op[w].did, op[w].hidden)]
    /\ Goto(w, "subjects")
    /\ UNCHANGED <<db, op, todo, counted, alone>>

\* AccountSubjects, in whatever order UNION returns them.
ReadSubjects(w) ==
    /\ Runs(w, "subjects")
    /\ \E order \in SetToSeqs({sheets[u].forkOf : u \in RowsOf(sheets, op[w].did)}
                              \ {NoFork}) :
          todo' = [todo EXCEPT ![w] = order]
    /\ Goto(w, "count")
    /\ UNCHANGED <<db, op, counted, wrote, alone>>

\* (Slip: counting outside the transaction, on s.q instead of q.)
CountCommitted(w) ==
    /\ Runs(w, "count") /\ todo[w] # <<>>
    /\ counted' = [counted EXCEPT ![w] =
          Cardinality(CountedForks(sheets, HiddenIn(profiles), Head(todo[w])))]
    /\ Goto(w, "store")
    /\ UNCHANGED <<db, op, todo, wrote, alone>>

(* RecomputeStats: one statement, whose SELECT reads its snapshot when it  *)
(* starts and whose INSERT ... ON CONFLICT DO UPDATE then waits for the    *)
(* stats row.                                                              *)
CountForks(w) ==
    /\ Runs(w, "count") /\ todo[w] # <<>>
    /\ counted' = [counted EXCEPT ![w] =
          Cardinality(CountedForks(SheetsSeen(w), HiddenIn(ProfilesSeen(w)),
                                   Head(todo[w])))]
    /\ Goto(w, "store")
    /\ UNCHANGED <<db, op, todo, wrote, alone>>

StoreCount(w) ==
    /\ Runs(w, "store")
    /\ wrote' = [wrote EXCEPT ![w].stats = Put(@, Head(todo[w]), counted[w])]
    /\ todo' = [todo EXCEPT ![w] = Tail(@)]
    /\ counted' = [counted EXCEPT ![w] = 0]
    /\ Goto(w, "count")
    /\ UNCHANGED <<db, op, alone>>

End(w) ==
    /\ Goto(w, "idle")
    /\ op' = [op EXCEPT ![w] = NoOp]
    /\ todo' = [todo EXCEPT ![w] = <<>>]
    /\ counted' = [counted EXCEPT ![w] = 0]
    /\ wrote' = [wrote EXCEPT ![w] = NoWrites]
    /\ alone' = [alone EXCEPT ![w] = FALSE]

Commit(w) ==
    /\ Runs(w, "count") /\ todo[w] = <<>>
    /\ sheets' = SheetsSeen(w)
    /\ profiles' = ProfilesSeen(w)
    /\ stats' = Over(stats, wrote[w].stats)
    /\ End(w)

\* Postgres breaks a deadlock by failing one of the statements; the
\* transaction is rolled back and the caller gets the error.
Abort(w) ==
    /\ Deadlocked(w)
    /\ End(w)
    /\ UNCHANGED db

-----------------------------------------------------------------------------

Step(w) ==
    \/ ReadOldFork(w) \/ WriteSheet(w) \/ EnsureProfile(w)
    \/ DeleteRow(w)
    \/ WriteHidden(w) \/ ReadSubjects(w)
    \/ CountForks(w) \/ StoreCount(w)
    \/ Commit(w)
    \/ Abort(w)

Next ==
    \/ \E w \in Worker, o \in Ops : Begin(w, o)
    \/ \E w \in Worker : Step(w)

Spec == Init /\ [][Next]_vars

-----------------------------------------------------------------------------

TypeOK ==
    /\ DOMAIN sheets \subseteq Sheet
    /\ \A u \in DOMAIN sheets : sheets[u] \in SheetRow
    /\ IsTable(profiles, Did, BOOLEAN)
    /\ IsTable(stats, Subject, Nat)
    /\ pc \in [Worker -> {"idle", "old", "sheet", "profile", "hide",
                          "subjects", "count", "store"}]
    /\ op \in [Worker -> Ops \cup {NoOp}]
    /\ \A w \in Worker : todo[w] \in Seq(Subject \cup {NoFork})
    /\ counted \in [Worker -> Nat]
    /\ alone \in [Worker -> BOOLEAN]

ForkCount(s) == IF s \in DOMAIN stats THEN stats[s] ELSE 0
FreshCount(s) ==
    ForkCount(s) = Cardinality(CountedForks(sheets, HiddenIn(profiles), s))

(* With no transaction open, a sheet's fork count is the number of forks   *)
(* the Forks query lists ("Counted as Forks lists them", queries.sql).     *)
FreshWhenQuiet ==
    (\A w \in Worker : pc[w] = "idle") => \A s \in Subject : FreshCount(s)

(* A count left stale by overlapping transactions heals: a transaction     *)
(* that recounts a URI and overlaps no other leaves it right.              *)
Heals ==
    [][\A w \in Worker : Commit(w) /\ alone[w] =>
          \A s \in DOMAIN wrote[w].stats :
              ForkCount(s)' = Cardinality(
                  CountedForks(sheets', HiddenIn(profiles'), s))]_vars

(* Only recounts wait in circles.  A transaction that Postgres can fail    *)
(* for a deadlock has stored one count and waits to store the next         *)
(* (recomputeAll takes the stats rows in the order of its arguments): the  *)
(* rows of sheets and profiles are taken in one order by every operation,  *)
(* so a record that counts toward a single sheet, new or deleted, is never *)
(* turned away by one.                                                     *)
OnlyRecountsDeadlock ==
    \A w \in Worker : Deadlocked(w) => pc[w] = "store" /\ DOMAIN wrote[w].stats # {}
=============================================================================
