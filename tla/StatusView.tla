----------------------------- MODULE StatusView -----------------------------
(* What a page that follows a status promises: it shows a status the thing  *)
(* has or had, and as long as its user is calm it never goes back from a    *)
(* newer one to an older.  Statuses are numbered in the order in which they *)
(* were reached.                                                            *)
EXTENDS Integers

VARIABLES
  now,    \* number of the status the thing has
  seen,   \* number of the status on display
  calm    \* whether the user has only acted when nothing was outstanding

vars == <<now, seen, calm>>

Init == now = 0 /\ seen = 0 /\ calm = TRUE

(* The thing moves on.                                                      *)
Advance == now' = now + 1 /\ UNCHANGED <<seen, calm>>

(* The page shows what it was told.                                         *)
Look ==
  /\ seen' \in 0..now
  /\ calm => seen' >= seen
  /\ UNCHANGED <<now, calm>>

(* The user acts on something that is still moving.                         *)
Rush == calm' = FALSE /\ UNCHANGED <<now, seen>>

Next == Advance \/ Look \/ Rush

Spec == Init /\ [][Next]_vars
=============================================================================
