----------------------------- MODULE MCStoreTx -----------------------------
(***************************************************************************)
(* alice and bob publish their first forks of one sheet, which is not      *)
(* indexed itself, at the same time.                                       *)
(***************************************************************************)
EXTENDS StoreTx

CONSTANTS alice, bob, original

TwoSheets == {<<alice, 1>>, <<bob, 1>>}
Subjects == TwoSheets \cup {original}

TwoForks == {Upsert(u, [forkOf |-> original, draft |-> FALSE]) : u \in TwoSheets}
=============================================================================
