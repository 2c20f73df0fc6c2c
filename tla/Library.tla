------------------------------ MODULE Library ------------------------------
(***************************************************************************)
(* What the index promises: records come and go one at a time, an account  *)
(* is hidden, shown or forgotten as a whole, and the counts are at every   *)
(* moment the tally of the records.  Index implements it (RefinesLibrary): *)
(* there the counts are stored, recomputed per transaction and cleaned up. *)
(***************************************************************************)
EXTENDS Tally

VARIABLES sheets, ratings, favorites, hidden, counts

vars == <<sheets, ratings, favorites, hidden, counts>>

Recount ==
    counts' = [s \in Subject |->
                 TallyOf(sheets', ratings', favorites', hidden', s)]

Init ==
    /\ sheets = Empty /\ ratings = Empty /\ favorites = Empty
    /\ hidden = {}
    /\ counts = [s \in Subject |-> NoStats]

\* One record of one collection is written or removed.
ChangeSheet ==
    /\ \E u \in Sheet : \/ sheets' = Drop(sheets, {u})
                        \/ \E row \in SheetRow : sheets' = Put(sheets, u, row)
    /\ UNCHANGED <<ratings, favorites, hidden>>
    /\ Recount

ChangeRating ==
    /\ \E u \in Rating : \/ ratings' = Drop(ratings, {u})
                         \/ \E row \in RatingRow : ratings' = Put(ratings, u, row)
    /\ UNCHANGED <<sheets, favorites, hidden>>
    /\ Recount

ChangeFavorite ==
    /\ \E u \in Favorite :
          \/ favorites' = Drop(favorites, {u})
          \/ \E row \in FavoriteRow : favorites' = Put(favorites, u, row)
    /\ UNCHANGED <<sheets, ratings, hidden>>
    /\ Recount

\* A deactivated account's records stay, unlisted and its forks uncounted.
HideOrShow(d) ==
    /\ hidden' \in {hidden \cup {d}, hidden \ {d}}
    /\ UNCHANGED <<sheets, ratings, favorites>>
    /\ Recount

\* A deleted account leaves nothing behind.
Forget(d) ==
    /\ sheets' = Drop(sheets, RowsOf(sheets, d))
    /\ ratings' = Drop(ratings, RowsOf(ratings, d))
    /\ favorites' = Drop(favorites, RowsOf(favorites, d))
    /\ hidden' = hidden \ {d}
    /\ Recount

Next ==
    \/ ChangeSheet
    \/ ChangeRating
    \/ ChangeFavorite
    \/ \E d \in Did : HideOrShow(d) \/ Forget(d)

Spec == Init /\ [][Next]_vars
=============================================================================
