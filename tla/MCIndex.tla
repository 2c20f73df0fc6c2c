------------------------------ MODULE MCIndex ------------------------------
(***************************************************************************)
(* Small indexes for TLC, one at a time.  "forks": two accounts' sheets    *)
(* forking each other and a sheet that is never indexed, with cards.       *)
(* "votes": an account with two ratings of one sheet, and with two         *)
(* favorites, beside another's.  "transactions": two operations on forks   *)
(* at a time, statement by statement (StoreTx, with tables of its own).    *)
(***************************************************************************)
EXTENDS Index

CONSTANTS alice, bob, gone, s1, s2, w1, w2, NoRow

VARIABLES
    kind,                                   \* which of the indexes it is
    txSheets, txProfiles, txStats,          \* StoreTx's tables
    pc, op, todo, counted, wrote, alone

txVars == <<txSheets, txProfiles, txStats, pc, op, todo, counted, wrote, alone>>
indexes == <<kind, vars, txVars>>

MCSheets == {<<alice, 1>>, <<bob, 1>>}
MCSubjects == MCSheets \cup {gone}
TwoFavorites == {<<bob, 1>>, <<bob, 2>>}
ThreeRatings == {<<alice, 1>>, <<alice, 2>>, <<bob, 1>>}

\* Forks moving between two sheets that are not indexed, which recounts the
\* two in opposite orders; one fork deleted, and an author hidden.
Calls ==
    [kind : {"upsert"}, uri : MCSheets, row : [forkOf : {s1, s2}, draft : {FALSE}]]
    \cup {[kind |-> "delete", uri |-> <<alice, 1>>],
          [kind |-> "hide", did |-> alice, hidden |-> TRUE]}

Tx == INSTANCE StoreTx WITH
    Subject <- MCSheets \cup {s1, s2}, Ops <- Calls, Worker <- {w1, w2},
    sheets <- txSheets, profiles <- txProfiles, stats <- txStats

\* The records that the index of forks, or of votes, has to do with.
Kept ==
    LET about(table, subjects) == \A u \in DOMAIN table : table[u].subject \in subjects
    IN IF kind = "forks"
       THEN /\ ratings = Empty /\ <<bob, 2>> \notin DOMAIN favorites
            /\ about(favorites, {<<alice, 1>>, gone})
       ELSE /\ sheets = Empty
            /\ about(ratings, {<<alice, 1>>, gone}) /\ about(favorites, {<<alice, 1>>})
            /\ about(Drop(ratings, RowsOf(ratings, alice)), {<<alice, 1>>})

IndexInit == Init /\ Tx!Init /\ kind \in {"forks", "votes", "transactions"}

WholeOps(A) == kind # "transactions" /\ A /\ UNCHANGED <<kind, txVars>>
\* alice's operations overlap each other's and bob's, which share a connection.
Bobs == op[w2].kind = "upsert" /\ Owner(op[w2].uri) = bob

Transactions(A) == kind = "transactions" /\ A /\ UNCHANGED <<kind, vars>>

IndexNext == (WholeOps(Next) /\ Kept') \/ (Transactions(Tx!Next) /\ ~Bobs')

\* With the fairness of Index.
IndexSpec ==
    /\ IndexInit /\ [][IndexNext]_indexes
    /\ WF_indexes(WholeOps(CleanOGCards))

\* StoreTx's properties, of its part.
Heals == Tx!Heals
OnlyRecountsDeadlock == Tx!OnlyRecountsDeadlock
=============================================================================
