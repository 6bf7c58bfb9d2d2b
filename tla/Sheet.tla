-------------------------------- MODULE Sheet -------------------------------
(***************************************************************************)
(* What TableGridModel and TableTreeModel promise of the table they show:  *)
(* cells that are each their own, in rows and columns that are put in      *)
(* blank and taken out without a change to the others.                     *)
(***************************************************************************)
EXTENDS Integers, SequencesExt

CONSTANTS
  Values, Nil,
  Reloads  \* whether a table of which nothing is shown is read again

VARIABLES
  grid,  \* the rows, each a sequence of width cells
  width

Blank == [c \in 1 .. width |-> Nil]

\* s with n elements x from place at on, or without n elements from there.
PutIn(s, at, n, x) == SubSeq(s, 1, at - 1) \o [i \in 1 .. n |-> x] \o SubSeq(s, at, Len(s))
TakenOut(s, at, n) == SubSeq(s, 1, at - 1) \o SubSeq(s, at + n, Len(s))

SetCell ==
  /\ UNCHANGED width /\ Len(grid') = Len(grid)
  /\ \E r \in DOMAIN grid, c \in 1 .. width :
       grid'[r][c] \in Values \cup {Nil} /\ grid' = [grid EXCEPT ![r][c] = grid'[r][c]]

\* The program gives a row other cells.
SetRow ==
  /\ UNCHANGED width /\ Len(grid') = Len(grid)
  /\ \E r \in DOMAIN grid : grid' = [grid EXCEPT ![r] = grid'[r]]

InsertRows ==
  /\ \E n \in 1 .. Len(grid') : \E at \in 1 .. Len(grid) + 1 : grid' = PutIn(grid, at, n, Blank)
  /\ UNCHANGED width

RemoveRows ==
  /\ \E n \in 1 .. Len(grid) : \E at \in 1 .. Len(grid) + 1 - n : grid' = TakenOut(grid, at, n)
  /\ UNCHANGED width

InsertColumns ==
  \E n \in 1 .. width' : \E at \in 1 .. width + 1 :
    /\ width' = width + n
    /\ grid' = [r \in DOMAIN grid |-> PutIn(grid[r], at, n, Nil)]

RemoveColumns ==
  \E n \in 1 .. width : \E at \in 1 .. width + 1 - n :
    /\ width' = width - n
    /\ grid' = [r \in DOMAIN grid |-> TakenOut(grid[r], at, n)]

\* Nothing is shown, and what there is now comes to be.
Reload == Reloads /\ grid = <<>> /\ UNCHANGED width

Init == width \in Nat /\ grid \in Seq([1 .. width -> Values \cup {Nil}])

Next == Reload \/ SetCell \/ SetRow \/ InsertRows \/ RemoveRows \/ InsertColumns \/ RemoveColumns

Spec == Init /\ [][Next]_<<grid, width>>
=============================================================================
