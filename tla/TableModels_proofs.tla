------------------------- MODULE TableModels_proofs -------------------------
(***************************************************************************)
(* For grids, trees and models of any size: a dialog that lets its user    *)
(* insert always has a button for it, each node of a tree but the root is  *)
(* the child of one row, of its parent, the rows of the root are a sheet   *)
(* of keys and values, and what Qt is told of a LuaModel is so.  The last  *)
(* needs that no item is ever in two places.                               *)
(***************************************************************************)
EXTENDS TableModels, FiniteSetTheorems, SequenceTheorems, TLAPS

-----------------------------------------------------------------------------
(* Sets and sequences.                                                     *)

LEMMA GridSets ==
  ASSUME NEW S
  PROVE  Grid!Cardinality(S) = Cardinality(S) /\ Grid!IsFiniteSet(S) = IsFiniteSet(S)
BY DEF Grid!Cardinality, Cardinality, Grid!IsFiniteSet, IsFiniteSet

(* The elements of a finite set, each once.                                *)
LEMMA Enumerated ==
  ASSUME NEW S, IsFiniteSet(S)
  PROVE  \E f \in [1 .. Cardinality(S) -> S] :
           \A a, b \in 1 .. Cardinality(S) : f[a] = f[b] => a = b
<1>1. PICK f \in Bijection(1 .. Cardinality(S), S) : TRUE
  BY FS_CardinalityType DEF ExistsBijection
<1>2. QED
  BY <1>1 DEF Bijection, Injection, IsInjective

IsSeq(s) == \E S : s \in Seq(S)

LEMMA PutInLength ==
  ASSUME NEW s, IsSeq(s), NEW new, IsSeq(new), NEW at \in 1 .. Len(s) + 1
  PROVE  LET t == SubSeq(s, 1, at - 1) \o new \o SubSeq(s, at, Len(s))
         IN  IsSeq(t) /\ Len(t) = Len(s) + Len(new)
<1>1. PICK S : s \in Seq(S)
  BY DEF IsSeq
<1>2. PICK T : new \in Seq(T)
  BY DEF IsSeq
<1> DEFINE U == S \cup T
           p == SubSeq(s, 1, at - 1)
           q == SubSeq(s, at, Len(s))
<1>3. s \in Seq(U) /\ new \in Seq(U) /\ Len(s) \in Nat
  BY <1>1, <1>2
<1> HIDE DEF U
<1>4. p \in Seq(U) /\ Len(p) = at - 1
  BY <1>3
<1>5. q \in Seq(U) /\ Len(q) = Len(s) - at + 1
  BY <1>3
<1> HIDE DEF p, q
<1>6. p \o new \in Seq(U) /\ Len(p \o new) = at - 1 + Len(new)
  BY <1>3, <1>4, ConcatProperties
<1>7. p \o new \o q \in Seq(U) /\ Len(p \o new \o q) = Len(s) + Len(new)
  <2> DEFINE r == p \o new
  <2>1. r \in Seq(U) /\ Len(r) = at - 1 + Len(new)
    BY <1>6
  <2> HIDE DEF r
  <2>2. r \o q \in Seq(U) /\ Len(r \o q) = Len(r) + Len(q)
    BY <1>5, <2>1, ConcatProperties
  <2>3. Len(new) \in Nat
    BY <1>3
  <2>4. QED
    BY <1>3, <1>5, <2>1, <2>2, <2>3 DEF r
<1>8. QED
  BY <1>7 DEF IsSeq, p, q

LEMMA TakenOutLength ==
  ASSUME NEW s, IsSeq(s), NEW at \in 1 .. Len(s), NEW count \in Nat, at + count <= Len(s) + 1
  PROVE  LET t == SubSeq(s, 1, at - 1) \o SubSeq(s, at + count, Len(s))
         IN  IsSeq(t) /\ Len(t) = Len(s) - count
<1>1. PICK S : s \in Seq(S)
  BY DEF IsSeq
<1> DEFINE p == SubSeq(s, 1, at - 1)
           q == SubSeq(s, at + count, Len(s))
<1>2. p \in Seq(S) /\ Len(p) = at - 1 /\ Len(s) \in Nat
  BY <1>1
<1>3. q \in Seq(S) /\ Len(q) = Len(s) - (at + count) + 1
  BY <1>1
<1> HIDE DEF p, q
<1>4. p \o q \in Seq(S) /\ Len(p \o q) = Len(s) - count
  BY <1>2, <1>3, ConcatProperties
<1>5. QED
  BY <1>4 DEF IsSeq, p, q

-----------------------------------------------------------------------------
(* The grid: its size.                                                     *)

GridTypeOK ==
  /\ attr \in [num_rows : BOOLEAN, num_cols : BOOLEAN, swap : BOOLEAN]
  /\ num_row_count \in Nat /\ num_col_count \in Nat
  /\ IsSeq(row_keys) /\ IsSeq(col_keys)
  /\ told \in [rows : Int, columns : Int]

LEMMA Sizes ==
  ASSUME GridTypeOK
  PROVE  /\ Len(row_keys) \in Nat /\ Len(col_keys) \in Nat
         /\ Grid!row_count \in Nat /\ Grid!column_count \in Nat
         /\ Grid!rowCount \in Nat /\ Grid!columnCount \in Nat
<1>1. Len(row_keys) \in Nat /\ Len(col_keys) \in Nat
  BY DEF GridTypeOK, IsSeq
<1>2. QED
  BY <1>1 DEF GridTypeOK, Grid!row_count, Grid!column_count, Grid!rowCount, Grid!columnCount

(* The rows and columns of the table grow by r and c at the rows, or       *)
(* columns, from at on, and the view is told.                              *)
Resized(of_rows, n) ==
  /\ attr' = attr
  /\ Grid!row_count' = Grid!row_count + (IF of_rows THEN n ELSE 0)
  /\ Grid!column_count' = Grid!column_count + (IF of_rows THEN 0 ELSE n)
  /\ told' = [told EXCEPT ![Grid!Told(of_rows)] = @ + n]

LEMMA WithNewLength ==
  ASSUME NEW keys, IsSeq(keys), NEW at \in 1 .. Len(keys) + 1, NEW count \in Nat
  PROVE  IsSeq(Grid!WithNew(keys, at, count)) /\ Len(Grid!WithNew(keys, at, count)) = Len(keys) + count
<1> DEFINE new == [i \in 1 .. count |-> Grid!NewKey(keys, at, i)]
           N == {Grid!NewKey(keys, at, i) : i \in 1 .. count}
<1>1. new \in Seq(N) /\ Len(new) = count
  <2>1. new \in [1 .. count -> N]
    OBVIOUS
  <2> HIDE DEF new, N
  <2>2. QED
    BY <2>1
<1>2. Grid!WithNew(keys, at, count) = SubSeq(keys, 1, at - 1) \o new \o SubSeq(keys, at, Len(keys))
  BY DEF Grid!WithNew
<1> HIDE DEF new, N
<1>3. IsSeq(new)
  BY <1>1 DEF IsSeq
<1>4. QED
  BY <1>1, <1>2, <1>3, PutInLength

LEMMA ToldTyped ==
  ASSUME GridTypeOK, NEW of_rows \in BOOLEAN, NEW n \in Int
  PROVE  [told EXCEPT ![Grid!Told(of_rows)] = @ + n] \in [rows : Int, columns : Int]
BY DEF GridTypeOK, Grid!Told

LEMMA RowsInserted ==
  ASSUME GridTypeOK, NEW at \in Nat, NEW count \in Nat, Grid!insert_rows(at, count)
  PROVE  GridTypeOK' /\ Resized(TRUE, count) /\ at \in 1 .. Grid!row_count + 1
<1>1. /\ at \in 1 .. Grid!row_count + 1
      /\ told' = [told EXCEPT ![Grid!Told(TRUE)] = @ + count]
      /\ attr' = attr /\ col_keys' = col_keys /\ num_col_count' = num_col_count
      /\ IF attr.num_rows
         THEN num_row_count' = num_row_count + count /\ row_keys' = row_keys
         ELSE row_keys' = Grid!WithNew(row_keys, at, count) /\ num_row_count' = num_row_count
  BY DEF Grid!insert_rows, Grid!Announce, Grid!columns
<1>2. told' \in [rows : Int, columns : Int]
  <2>1. TRUE \in BOOLEAN /\ count \in Int
    OBVIOUS
  <2>2. QED
    BY <1>1, <2>1, ToldTyped
<1>3. GridTypeOK' /\ Grid!row_count' = Grid!row_count + count
  <2>1. CASE attr.num_rows
    BY <1>1, <1>2, <2>1 DEF GridTypeOK, Grid!row_count
  <2>2. CASE ~ attr.num_rows
    <3>1. at \in 1 .. Len(row_keys) + 1
      BY <1>1, <2>2 DEF Grid!row_count
    <3>2. IsSeq(row_keys') /\ Len(row_keys') = Len(row_keys) + count
      BY <1>1, <2>2, <3>1, WithNewLength DEF GridTypeOK
    <3>3. QED
      BY <1>1, <1>2, <2>2, <3>2 DEF GridTypeOK, Grid!row_count
  <2>3. QED
    BY <2>1, <2>2
<1>4. Grid!column_count' = Grid!column_count /\ Grid!column_count \in Nat
  BY <1>1, Sizes DEF Grid!column_count
<1>5. QED
  BY <1>1, <1>3, <1>4 DEF Resized

LEMMA ColumnsInserted ==
  ASSUME GridTypeOK, NEW at \in Nat, NEW count \in Nat, Grid!insert_columns(at, count)
  PROVE  GridTypeOK' /\ Resized(FALSE, count) /\ at \in 1 .. Grid!column_count + 1
<1>1. /\ at \in 1 .. Grid!column_count + 1
      /\ told' = [told EXCEPT ![Grid!Told(FALSE)] = @ + count]
      /\ attr' = attr /\ row_keys' = row_keys /\ num_row_count' = num_row_count
      /\ IF attr.num_cols
         THEN num_col_count' = num_col_count + count /\ col_keys' = col_keys
         ELSE col_keys' = Grid!WithNew(col_keys, at, count) /\ num_col_count' = num_col_count
  BY DEF Grid!insert_columns, Grid!Announce, Grid!rows
<1>2. told' \in [rows : Int, columns : Int]
  <2>1. FALSE \in BOOLEAN /\ count \in Int
    OBVIOUS
  <2>2. QED
    BY <1>1, <2>1, ToldTyped
<1>3. GridTypeOK' /\ Grid!column_count' = Grid!column_count + count
  <2>1. CASE attr.num_cols
    BY <1>1, <1>2, <2>1 DEF GridTypeOK, Grid!column_count
  <2>2. CASE ~ attr.num_cols
    <3>1. at \in 1 .. Len(col_keys) + 1
      BY <1>1, <2>2 DEF Grid!column_count
    <3>2. IsSeq(col_keys') /\ Len(col_keys') = Len(col_keys) + count
      BY <1>1, <2>2, <3>1, WithNewLength DEF GridTypeOK
    <3>3. QED
      BY <1>1, <1>2, <2>2, <3>2 DEF GridTypeOK, Grid!column_count
  <2>3. QED
    BY <2>1, <2>2
<1>4. Grid!row_count' = Grid!row_count /\ Grid!row_count \in Nat
  BY <1>1, Sizes DEF Grid!row_count
<1>5. QED
  BY <1>1, <1>3, <1>4 DEF Resized

(* With keys one is removed at a time.                                     *)
LEMMA RowsRemoved ==
  ASSUME GridTypeOK, Careful = TRUE, NEW at \in Nat, NEW count \in Nat \ {0},
         Grid!remove_rows(at, count)
  PROVE  GridTypeOK' /\ Resized(TRUE, -count) /\ at \in 1 .. Grid!row_count + 1 - count
<1>1. /\ at \in 1 .. Grid!row_count + 1 - count
      /\ told' = [told EXCEPT ![Grid!Told(TRUE)] = @ + (-count)]
      /\ attr' = attr /\ col_keys' = col_keys /\ num_col_count' = num_col_count
      /\ IF attr.num_rows
         THEN num_row_count' = num_row_count - count /\ row_keys' = row_keys
         ELSE count = 1 /\ row_keys' = Grid!RemoveAt(row_keys, at) /\ num_row_count' = num_row_count
  BY DEF Grid!remove_rows, Grid!Announce, Grid!columns
<1>2. told' \in [rows : Int, columns : Int]
  <2>1. TRUE \in BOOLEAN /\ -count \in Int
    OBVIOUS
  <2>2. QED
    BY <1>1, <2>1, ToldTyped
<1>3. GridTypeOK' /\ Grid!row_count' = Grid!row_count - count
  <2>1. CASE attr.num_rows
    BY <1>1, <1>2, <2>1 DEF GridTypeOK, Grid!row_count
  <2>2. CASE ~ attr.num_rows
    <3>1. at \in 1 .. Len(row_keys) /\ at + 1 <= Len(row_keys) + 1
      BY <1>1, <2>2, Sizes DEF Grid!row_count
    <3>2. row_keys' = SubSeq(row_keys, 1, at - 1) \o SubSeq(row_keys, at + 1, Len(row_keys))
      BY <1>1, <2>2 DEF Grid!RemoveAt
    <3>3. IsSeq(row_keys') /\ Len(row_keys') = Len(row_keys) - 1
      BY <3>1, <3>2, TakenOutLength DEF GridTypeOK
    <3>4. QED
      BY <1>1, <1>2, <2>2, <3>3 DEF GridTypeOK, Grid!row_count
  <2>3. QED
    BY <2>1, <2>2
<1>4. Grid!column_count' = Grid!column_count /\ Grid!column_count \in Nat /\ Grid!row_count \in Nat
  BY <1>1, Sizes DEF Grid!column_count
<1>5. QED
  BY <1>1, <1>3, <1>4 DEF Resized

LEMMA ColumnsRemoved ==
  ASSUME GridTypeOK, Careful = TRUE, NEW at \in Nat, NEW count \in Nat \ {0},
         Grid!remove_columns(at, count)
  PROVE  GridTypeOK' /\ Resized(FALSE, -count) /\ at \in 1 .. Grid!column_count + 1 - count
<1>1. /\ at \in 1 .. Grid!column_count + 1 - count
      /\ told' = [told EXCEPT ![Grid!Told(FALSE)] = @ + (-count)]
      /\ attr' = attr /\ row_keys' = row_keys /\ num_row_count' = num_row_count
      /\ IF attr.num_cols
         THEN num_col_count' = num_col_count - count /\ col_keys' = col_keys
         ELSE count = 1 /\ col_keys' = Grid!RemoveAt(col_keys, at) /\ num_col_count' = num_col_count
  BY DEF Grid!remove_columns, Grid!Announce, Grid!rows
<1>2. told' \in [rows : Int, columns : Int]
  <2>1. FALSE \in BOOLEAN /\ -count \in Int
    OBVIOUS
  <2>2. QED
    BY <1>1, <2>1, ToldTyped
<1>3. GridTypeOK' /\ Grid!column_count' = Grid!column_count - count
  <2>1. CASE attr.num_cols
    BY <1>1, <1>2, <2>1 DEF GridTypeOK, Grid!column_count
  <2>2. CASE ~ attr.num_cols
    <3>1. at \in 1 .. Len(col_keys) /\ at + 1 <= Len(col_keys) + 1
      BY <1>1, <2>2, Sizes DEF Grid!column_count
    <3>2. col_keys' = SubSeq(col_keys, 1, at - 1) \o SubSeq(col_keys, at + 1, Len(col_keys))
      BY <1>1, <2>2 DEF Grid!RemoveAt
    <3>3. IsSeq(col_keys') /\ Len(col_keys') = Len(col_keys) - 1
      BY <3>1, <3>2, TakenOutLength DEF GridTypeOK
    <3>4. QED
      BY <1>1, <1>2, <2>2, <3>3 DEF GridTypeOK, Grid!column_count
  <2>3. QED
    BY <2>1, <2>2
<1>4. Grid!row_count' = Grid!row_count /\ Grid!row_count \in Nat /\ Grid!column_count \in Nat
  BY <1>1, Sizes DEF Grid!row_count
<1>5. QED
  BY <1>1, <1>3, <1>4 DEF Resized

(* What the view shows grows, or shrinks, by n rows or columns.            *)
ViewResized(of_rows, n) ==
  /\ attr' = attr
  /\ Grid!rowCount' = Grid!rowCount + (IF of_rows THEN n ELSE 0)
  /\ Grid!columnCount' = Grid!columnCount + (IF of_rows THEN 0 ELSE n)
  /\ told'.rows = told.rows + (IF of_rows THEN n ELSE 0)
  /\ told'.columns = told.columns + (IF of_rows THEN 0 ELSE n)

LEMMA ViewFollows ==
  ASSUME GridTypeOK, NEW of_rows \in BOOLEAN, NEW n \in Int, Resized(of_rows, n)
  PROVE  ViewResized(of_rows # attr.swap, n)
<1>1. attr.swap \in BOOLEAN /\ attr' = attr
  BY DEF GridTypeOK, Resized
<1>2. /\ Grid!row_count' = Grid!row_count + (IF of_rows THEN n ELSE 0)
      /\ Grid!column_count' = Grid!column_count + (IF of_rows THEN 0 ELSE n)
  BY DEF Resized
<1>3. /\ Grid!rowCount' = Grid!rowCount + (IF of_rows # attr.swap THEN n ELSE 0)
      /\ Grid!columnCount' = Grid!columnCount + (IF of_rows # attr.swap THEN 0 ELSE n)
  BY <1>1, <1>2 DEF Grid!rowCount, Grid!columnCount
<1>4. /\ told'.rows = told.rows + (IF of_rows # attr.swap THEN n ELSE 0)
      /\ told'.columns = told.columns + (IF of_rows # attr.swap THEN 0 ELSE n)
  BY <1>1 DEF Resized, GridTypeOK, Grid!Told
<1>5. QED
  BY <1>1, <1>3, <1>4 DEF ViewResized

LEMMA Inserting ==
  ASSUME GridTypeOK, NEW at \in Nat, NEW count \in Nat
  PROVE  /\ Grid!insertRows(at, count) =>
              GridTypeOK' /\ ViewResized(TRUE, count) /\ at \in 1 .. Grid!rowCount + 1
         /\ Grid!insertColumns(at, count) =>
              GridTypeOK' /\ ViewResized(FALSE, count) /\ at \in 1 .. Grid!columnCount + 1
<1>1. attr.swap \in BOOLEAN /\ TRUE \in BOOLEAN /\ FALSE \in BOOLEAN /\ count \in Int
  BY DEF GridTypeOK
<1>2. ASSUME Grid!insertRows(at, count)
      PROVE  GridTypeOK' /\ ViewResized(TRUE, count) /\ at \in 1 .. Grid!rowCount + 1
  <2>1. CASE attr.swap
    <3>1. GridTypeOK' /\ Resized(FALSE, count) /\ at \in 1 .. Grid!column_count + 1
      BY <1>2, <2>1, ColumnsInserted DEF Grid!insertRows
    <3>2. ViewResized(FALSE # attr.swap, count)
      BY <1>1, <3>1, ViewFollows
    <3>3. (FALSE # attr.swap) = TRUE /\ Grid!rowCount = Grid!column_count
      BY <1>1, <2>1 DEF Grid!rowCount
    <3>4. QED
      BY <3>1, <3>2, <3>3
  <2>2. CASE ~ attr.swap
    <3>1. GridTypeOK' /\ Resized(TRUE, count) /\ at \in 1 .. Grid!row_count + 1
      BY <1>2, <2>2, RowsInserted DEF Grid!insertRows
    <3>2. ViewResized(TRUE # attr.swap, count)
      BY <1>1, <3>1, ViewFollows
    <3>3. (TRUE # attr.swap) = TRUE /\ Grid!rowCount = Grid!row_count
      BY <1>1, <2>2 DEF Grid!rowCount
    <3>4. QED
      BY <3>1, <3>2, <3>3
  <2>3. QED
    BY <2>1, <2>2
<1>3. ASSUME Grid!insertColumns(at, count)
      PROVE  GridTypeOK' /\ ViewResized(FALSE, count) /\ at \in 1 .. Grid!columnCount + 1
  <2>1. CASE attr.swap
    <3>1. GridTypeOK' /\ Resized(TRUE, count) /\ at \in 1 .. Grid!row_count + 1
      BY <1>3, <2>1, RowsInserted DEF Grid!insertColumns
    <3>2. ViewResized(TRUE # attr.swap, count)
      BY <1>1, <3>1, ViewFollows
    <3>3. (TRUE # attr.swap) = FALSE /\ Grid!columnCount = Grid!row_count
      BY <1>1, <2>1 DEF Grid!columnCount
    <3>4. QED
      BY <3>1, <3>2, <3>3
  <2>2. CASE ~ attr.swap
    <3>1. GridTypeOK' /\ Resized(FALSE, count) /\ at \in 1 .. Grid!column_count + 1
      BY <1>3, <2>2, ColumnsInserted DEF Grid!insertColumns
    <3>2. ViewResized(FALSE # attr.swap, count)
      BY <1>1, <3>1, ViewFollows
    <3>3. (FALSE # attr.swap) = FALSE /\ Grid!columnCount = Grid!column_count
      BY <1>1, <2>2 DEF Grid!columnCount
    <3>4. QED
      BY <3>1, <3>2, <3>3
  <2>3. QED
    BY <2>1, <2>2
<1>4. QED
  BY <1>2, <1>3

LEMMA Removing ==
  ASSUME GridTypeOK, Careful = TRUE, NEW at \in Nat, NEW count \in Nat \ {0}
  PROVE  /\ Grid!removeRows(at, count) =>
              GridTypeOK' /\ ViewResized(TRUE, -count) /\ at \in 1 .. Grid!rowCount + 1 - count
         /\ Grid!removeColumns(at, count) =>
              GridTypeOK' /\ ViewResized(FALSE, -count) /\ at \in 1 .. Grid!columnCount + 1 - count
<1>1. attr.swap \in BOOLEAN /\ TRUE \in BOOLEAN /\ FALSE \in BOOLEAN /\ -count \in Int
  BY DEF GridTypeOK
<1>2. ASSUME Grid!removeRows(at, count)
      PROVE  GridTypeOK' /\ ViewResized(TRUE, -count) /\ at \in 1 .. Grid!rowCount + 1 - count
  <2>1. CASE attr.swap
    <3>1. GridTypeOK' /\ Resized(FALSE, -count) /\ at \in 1 .. Grid!column_count + 1 - count
      BY <1>2, <2>1, ColumnsRemoved DEF Grid!removeRows
    <3>2. ViewResized(FALSE # attr.swap, -count)
      BY <1>1, <3>1, ViewFollows
    <3>3. (FALSE # attr.swap) = TRUE /\ Grid!rowCount = Grid!column_count
      BY <1>1, <2>1 DEF Grid!rowCount
    <3>4. QED
      BY <3>1, <3>2, <3>3
  <2>2. CASE ~ attr.swap
    <3>1. GridTypeOK' /\ Resized(TRUE, -count) /\ at \in 1 .. Grid!row_count + 1 - count
      BY <1>2, <2>2, RowsRemoved DEF Grid!removeRows
    <3>2. ViewResized(TRUE # attr.swap, -count)
      BY <1>1, <3>1, ViewFollows
    <3>3. (TRUE # attr.swap) = TRUE /\ Grid!rowCount = Grid!row_count
      BY <1>1, <2>2 DEF Grid!rowCount
    <3>4. QED
      BY <3>1, <3>2, <3>3
  <2>3. QED
    BY <2>1, <2>2
<1>3. ASSUME Grid!removeColumns(at, count)
      PROVE  GridTypeOK' /\ ViewResized(FALSE, -count) /\ at \in 1 .. Grid!columnCount + 1 - count
  <2>1. CASE attr.swap
    <3>1. GridTypeOK' /\ Resized(TRUE, -count) /\ at \in 1 .. Grid!row_count + 1 - count
      BY <1>3, <2>1, RowsRemoved DEF Grid!removeColumns
    <3>2. ViewResized(TRUE # attr.swap, -count)
      BY <1>1, <3>1, ViewFollows
    <3>3. (TRUE # attr.swap) = FALSE /\ Grid!columnCount = Grid!row_count
      BY <1>1, <2>1 DEF Grid!columnCount
    <3>4. QED
      BY <3>1, <3>2, <3>3
  <2>2. CASE ~ attr.swap
    <3>1. GridTypeOK' /\ Resized(FALSE, -count) /\ at \in 1 .. Grid!column_count + 1 - count
      BY <1>3, <2>2, ColumnsRemoved DEF Grid!removeColumns
    <3>2. ViewResized(FALSE # attr.swap, -count)
      BY <1>1, <3>1, ViewFollows
    <3>3. (FALSE # attr.swap) = FALSE /\ Grid!columnCount = Grid!column_count
      BY <1>1, <2>2 DEF Grid!columnCount
    <3>4. QED
      BY <3>1, <3>2, <3>3
  <2>3. QED
    BY <2>1, <2>2
<1>4. QED
  BY <1>2, <1>3

-----------------------------------------------------------------------------
(* The dialog: what is current is there, and the buttons to add and to     *)
(* insert are enabled as long as nothing else leads on.                    *)

CellsThere == (1 .. Grid!rowCount) \X (1 .. Grid!columnCount)

GridInv ==
  /\ GridTypeOK
  /\ current = <<>> \/ current \in CellsThere
  /\ edit_actions \cap {"AddRow", "AddColumn"} \subseteq enabled
  /\ current = <<>> /\ "AddRow" \notin edit_actions => edit_actions \cap Grid!RowButtons \subseteq enabled
  /\ Grid!columnCount = 0 /\ "AddColumn" \notin edit_actions =>
       edit_actions \cap Grid!ColumnButtons \subseteq enabled

LEMMA ButtonsChanged ==
  ASSUME NEW cell, Grid!current_item_changed(cell)
  PROVE  /\ edit_actions \cap {"AddRow", "AddColumn"} \subseteq enabled'
         /\ cell # <<>> \/ "AddRow" \notin edit_actions => edit_actions \cap Grid!RowButtons \subseteq enabled'
         /\ cell # <<>> \/ ("AddColumn" \notin edit_actions /\ Grid!columnCount = 0) =>
              edit_actions \cap Grid!ColumnButtons \subseteq enabled'
<1> DEFINE On(b) ==
      CASE b \in {"EditData", "RemoveRow", "RemoveColumn", "AddChild"} -> cell # <<>>
        [] b \in {"InsertRow", "InsertRowAfter"} -> cell # <<>> \/ "AddRow" \notin edit_actions
        [] b \in {"InsertColumn", "InsertColumnAfter"} ->
             cell # <<>> \/ ("AddColumn" \notin edit_actions /\ Grid!columnCount = 0)
        [] OTHER -> TRUE
<1>1. enabled' = {b \in edit_actions : On(b)}
  BY DEF Grid!current_item_changed, Grid!None
<1>2. On("AddRow") /\ On("AddColumn")
  OBVIOUS
<1>3. cell # <<>> \/ "AddRow" \notin edit_actions => On("InsertRow") /\ On("InsertRowAfter")
  OBVIOUS
<1>4. cell # <<>> \/ ("AddColumn" \notin edit_actions /\ Grid!columnCount = 0) =>
        On("InsertColumn") /\ On("InsertColumnAfter")
  OBVIOUS
<1> HIDE DEF On
<1>5. QED
  BY <1>1, <1>2, <1>3, <1>4 DEF Grid!RowButtons, Grid!ColumnButtons

LEMMA Following ==
  ASSUME GridInv, NEW of_rows \in BOOLEAN, NEW at \in Nat \ {0}, NEW n \in Int, n # 0,
         ViewResized(of_rows, n), GridTypeOK', Grid!Follow(at, n),
         at <= (IF of_rows THEN Grid!rowCount ELSE Grid!columnCount) + 1 + (IF n < 0 THEN n ELSE 0),
         n < 0 /\ ~ of_rows => -n < Grid!columnCount \/ "AddColumn" \in edit_actions
  PROVE  GridInv'
<1> DEFINE d == IF of_rows THEN 1 ELSE 2
           size == IF of_rows THEN Grid!rowCount ELSE Grid!columnCount
           Went(k) == [current EXCEPT ![d] = k]
           removed == current # <<>> /\ n < 0 /\ current[d] \in at .. at - n - 1
<1>1. /\ Grid!rowCount \in Nat /\ Grid!columnCount \in Nat
      /\ Grid!rowCount' = Grid!rowCount + (IF of_rows THEN n ELSE 0)
      /\ Grid!columnCount' = Grid!columnCount + (IF of_rows THEN 0 ELSE n)
  BY Sizes DEF GridInv, ViewResized
<1>2. told'.rows # told.rows <=> of_rows
  BY DEF ViewResized, GridInv, GridTypeOK
<1>3. /\ edit_actions' = edit_actions
      /\ IF removed THEN Grid!current_item_changed(current') ELSE enabled' = enabled
      /\ current = <<>> => current' = <<>>
      /\ current # <<>> /\ ~ removed =>
           current' = Went(IF current[d] >= at THEN current[d] + n ELSE current[d])
      /\ removed => current' = IF at > 1 THEN Went(at - 1)
                               ELSE IF at - n <= size THEN Went(at) ELSE <<>>
  <2>1. (IF told'.rows # told.rows THEN 1 ELSE 2) = d
    BY <1>2
  <2> DEFINE D == IF told'.rows # told.rows THEN 1 ELSE 2
             S == IF D = 1 THEN Grid!rowCount ELSE Grid!columnCount
             W(k) == [current EXCEPT ![D] = k]
             R == current # <<>> /\ n < 0 /\ current[D] \in at .. at - n - 1
  <2>2. /\ edit_actions' = edit_actions
        /\ current' = IF current = <<>> THEN <<>>
                      ELSE IF ~ R THEN W(IF current[D] >= at THEN current[D] + n ELSE current[D])
                      ELSE IF at > 1 THEN W(at - 1)
                      ELSE IF at - n <= S THEN W(at)
                      ELSE <<>>
        /\ IF R THEN Grid!current_item_changed(current') ELSE enabled' = enabled
    BY DEF Grid!Follow, Grid!None
  <2>3. D = d /\ S = size
    BY <2>1
  <2>4. (R <=> removed) /\ \A k : W(k) = Went(k)
    BY <2>3
  <2>5. QED
    BY <2>2, <2>3, <2>4
<1>4. ASSUME current # <<>>, NEW k \in 1 .. size + n
      PROVE  Went(k) \in (1 .. Grid!rowCount') \X (1 .. Grid!columnCount')
  <2>1. current \in CellsThere
    BY <1>4 DEF GridInv
  <2>2. CASE of_rows
    <3>1. Went(k) = <<k, current[2]>>
      BY <2>1, <2>2 DEF CellsThere
    <3>2. QED
      BY <1>1, <2>1, <2>2, <3>1 DEF CellsThere
  <2>3. CASE ~ of_rows
    <3>1. Went(k) = <<current[1], k>>
      BY <2>1, <2>3 DEF CellsThere
    <3>2. QED
      BY <1>1, <2>1, <2>3, <3>1 DEF CellsThere
  <2>4. QED
    BY <2>2, <2>3
<1>5. current # <<>> => current[d] \in 1 .. size /\ Grid!columnCount > 0
  BY <1>1 DEF GridInv, CellsThere
<1>6. size \in Nat /\ at - 1 <= size /\ (n < 0 => at - 1 <= size + n)
  BY <1>1
<1>7. CellsThere' = (1 .. Grid!rowCount') \X (1 .. Grid!columnCount')
  BY DEF CellsThere
<1> HIDE DEF size, Went, d
<1>8. CASE current = <<>>
  <2>1. current' = <<>> /\ enabled' = enabled
    BY <1>3, <1>8
  <2>2. Grid!columnCount' = 0 /\ "AddColumn" \notin edit_actions => Grid!columnCount = 0
    BY <1>1
  <2>3. QED
    BY <1>3, <1>8, <2>1, <2>2 DEF GridInv, Grid!RowButtons, Grid!ColumnButtons
<1>9. ASSUME current' \in CellsThere', edit_actions \cap {"AddRow", "AddColumn"} \subseteq enabled'
      PROVE  GridInv'
  <2>1. current' # <<>> /\ Grid!columnCount' # 0
    BY <1>1, <1>7, <1>9
  <2>2. QED
    BY <1>3, <1>9, <2>1 DEF GridInv
<1>10. CASE current # <<>> /\ ~ removed
  <2> DEFINE k == IF current[d] >= at THEN current[d] + n ELSE current[d]
  <2>1. k \in 1 .. size + n
    BY <1>5, <1>6, <1>10
  <2>2. current' = Went(k) /\ enabled' = enabled
    BY <1>3, <1>10
  <2> HIDE DEF k
  <2>3. current' \in CellsThere'
    BY <1>4, <1>7, <1>10, <2>1, <2>2
  <2>4. edit_actions \cap {"AddRow", "AddColumn"} \subseteq enabled'
    BY <2>2 DEF GridInv
  <2>5. QED
    BY <1>9, <2>3, <2>4
<1>11. CASE removed
  <2>1. /\ edit_actions \cap {"AddRow", "AddColumn"} \subseteq enabled'
        /\ "AddRow" \notin edit_actions => edit_actions \cap Grid!RowButtons \subseteq enabled'
    <3>1. Grid!current_item_changed(current')
      BY <1>3, <1>11
    <3>2. QED
      BY <3>1, ButtonsChanged
  <2>2. CASE at > 1
    <3>1. at - 1 \in 1 .. size + n /\ current' = Went(at - 1)
      BY <1>3, <1>6, <1>11, <2>2
    <3>2. QED
      BY <1>4, <1>7, <1>9, <1>11, <2>1, <3>1
  <2>3. CASE ~ at > 1 /\ at - n <= size
    <3>1. at \in 1 .. size + n /\ current' = Went(at)
      BY <1>3, <1>6, <1>11, <2>3
    <3>2. QED
      BY <1>4, <1>7, <1>9, <1>11, <2>1, <3>1
  <2>4. CASE ~ at > 1 /\ ~ at - n <= size
    <3>1. current' = <<>>
      BY <1>3, <1>11, <2>4
    <3>2. ~ (Grid!columnCount' = 0 /\ "AddColumn" \notin edit_actions)
      BY <1>1, <1>5, <1>11
    <3>3. QED
      BY <1>3, <2>1, <3>1, <3>2 DEF GridInv, Grid!RowButtons
  <2>5. QED
    BY <2>2, <2>3, <2>4
<1>12. QED
  BY <1>8, <1>10, <1>11

LEMMA Assumptions ==
  /\ Grid!GridAssumption /\ Tree!TreeAssumption /\ Lua!LuaModelAssumption
  /\ MaxRows \in Nat /\ MaxColumns \in Nat /\ MaxCount \in Nat /\ IsFiniteSet(Names)
BY TablesAssumption, GridSets DEF Grid!GridAssumption

LEMMA GridListed ==
  ASSUME NEW S, IsFiniteSet(S)
  PROVE  IsSeq(Grid!SetToSeq(S))
<1>1. Grid!SetToSeq(S) = CHOOSE f \in [1 .. Cardinality(S) -> S] : Grid!IsInjective(f)
  BY DEF Grid!SetToSeq, Grid!Cardinality, Cardinality
<1>2. PICK f \in [1 .. Cardinality(S) -> S] : \A a, b \in 1 .. Cardinality(S) : f[a] = f[b] => a = b
  BY Enumerated
<1>3. Grid!IsInjective(f)
  BY <1>2 DEF Grid!IsInjective
<1>4. Grid!SetToSeq(S) \in [1 .. Cardinality(S) -> S]
  BY <1>1, <1>3
<1>5. Cardinality(S) \in Nat
  BY FS_CardinalityType
<1>6. Grid!SetToSeq(S) \in Seq(S)
  BY <1>4, <1>5
<1>7. QED
  BY <1>6 DEF IsSeq

LEMMA GridInitially ==
  ASSUME Init
  PROVE  GridInv
<1>1. Grid!DialogInit
  BY DEF Init
<1>2. /\ attr \in [num_rows : BOOLEAN, num_cols : BOOLEAN, swap : BOOLEAN]
      /\ Grid!set_row_count(Grid!Cardinality(Names)) \/ Grid!add_row_key(Grid!SetToSeq(Names))
      /\ Grid!set_col_count(Grid!Cardinality(Names)) \/ Grid!add_column_key(Grid!SetToSeq(Names))
      /\ told = [rows |-> Grid!rowCount, columns |-> Grid!columnCount]
      /\ enabled = edit_actions \ {"EditData", "RemoveRow"} /\ current = <<>>
  BY <1>1 DEF Grid!DialogInit, Grid!Init, Grid!None
<1>3. Grid!Cardinality(Names) \in Nat
  BY Assumptions, GridSets, FS_CardinalityType
<1>4. IsSeq(Grid!SetToSeq(Names)) /\ IsSeq(<<>>)
  <2>1. <<>> \in Seq({})
    OBVIOUS
  <2>2. QED
    BY <2>1, Assumptions, GridListed DEF IsSeq
<1>5. num_row_count \in Nat /\ IsSeq(row_keys)
  BY <1>2, <1>3, <1>4 DEF Grid!set_row_count, Grid!add_row_key
<1>6. num_col_count \in Nat /\ IsSeq(col_keys)
  BY <1>2, <1>3, <1>4 DEF Grid!set_col_count, Grid!add_column_key
<1>7. Grid!rowCount \in Nat /\ Grid!columnCount \in Nat
  <2>1. Len(row_keys) \in Nat /\ Len(col_keys) \in Nat
    BY <1>5, <1>6 DEF IsSeq
  <2>2. QED
    BY <1>2, <1>5, <1>6, <2>1 DEF Grid!row_count, Grid!column_count, Grid!rowCount, Grid!columnCount
<1>8. GridTypeOK
  BY <1>2, <1>5, <1>6, <1>7 DEF GridTypeOK
<1>9. QED
  BY <1>2, <1>8 DEF GridInv, Grid!RowButtons, Grid!ColumnButtons

LEMMA GridSame ==
  ASSUME GridInv, attr' = attr, row_keys' = row_keys, num_row_count' = num_row_count,
         col_keys' = col_keys, num_col_count' = num_col_count, told' = told
  PROVE  /\ GridTypeOK' /\ CellsThere' = CellsThere /\ Grid!columnCount' = Grid!columnCount
         /\ (edit_actions' = edit_actions /\ enabled' = enabled /\ current' = current => GridInv')
<1>1. GridTypeOK'
  BY DEF GridInv, GridTypeOK
<1>2. CellsThere' = CellsThere /\ Grid!columnCount' = Grid!columnCount
  BY DEF CellsThere, Grid!rowCount, Grid!columnCount, Grid!row_count, Grid!column_count
<1>3. QED
  BY <1>1, <1>2 DEF GridInv

LEMMA RowInserted ==
  ASSUME GridInv, NEW at \in Nat \ {0}, NEW count \in Nat \ {0}, Grid!Follow(at, count),
         Grid!insertRows(at, count) \/ Grid!insertColumns(at, count)
  PROVE  GridInv'
<1>1. GridTypeOK /\ Grid!rowCount \in Nat /\ Grid!columnCount \in Nat
  BY Sizes DEF GridInv
<1>2. CASE Grid!insertRows(at, count)
  <2>1. GridTypeOK' /\ ViewResized(TRUE, count) /\ at \in 1 .. Grid!rowCount + 1
    BY <1>1, <1>2, Inserting
  <2>2. TRUE \in BOOLEAN /\ count \in Int /\ count # 0 /\ ~ count < 0
    OBVIOUS
  <2>3. at <= (IF TRUE THEN Grid!rowCount ELSE Grid!columnCount) + 1 + (IF count < 0 THEN count ELSE 0)
    BY <1>1, <2>1, <2>2
  <2>4. QED
    BY <2>1, <2>2, <2>3, Following
<1>3. CASE Grid!insertColumns(at, count)
  <2>1. GridTypeOK' /\ ViewResized(FALSE, count) /\ at \in 1 .. Grid!columnCount + 1
    BY <1>1, <1>3, Inserting
  <2>2. FALSE \in BOOLEAN /\ count \in Int /\ count # 0 /\ ~ count < 0
    OBVIOUS
  <2>3. at <= (IF FALSE THEN Grid!rowCount ELSE Grid!columnCount) + 1 + (IF count < 0 THEN count ELSE 0)
    BY <1>1, <2>1, <2>2
  <2>4. QED
    BY <2>1, <2>2, <2>3, Following
<1>4. QED
  BY <1>2, <1>3

LEMMA RowRemoved ==
  ASSUME GridInv, Careful = TRUE, NEW at \in Nat \ {0}, NEW count \in Nat \ {0}, Grid!Follow(at, -count),
         \/ Grid!removeRows(at, count)
         \/ Grid!removeColumns(at, count) /\ (count < Grid!columnCount \/ "AddColumn" \in edit_actions)
  PROVE  GridInv'
<1>1. GridTypeOK /\ Grid!rowCount \in Nat /\ Grid!columnCount \in Nat
  BY Sizes DEF GridInv
<1>2. -count \in Int /\ -count # 0 /\ -count < 0 /\ -(-count) = count
  OBVIOUS
<1>3. CASE Grid!removeRows(at, count)
  <2>1. GridTypeOK' /\ ViewResized(TRUE, -count) /\ at \in 1 .. Grid!rowCount + 1 - count
    BY <1>1, <1>3, Removing
  <2>2. TRUE \in BOOLEAN
    OBVIOUS
  <2>3. at <= (IF TRUE THEN Grid!rowCount ELSE Grid!columnCount) + 1 + (IF -count < 0 THEN -count ELSE 0)
    BY <1>1, <1>2, <2>1
  <2>4. QED
    BY <1>2, <2>1, <2>2, <2>3, Following
<1>4. CASE Grid!removeColumns(at, count) /\ (count < Grid!columnCount \/ "AddColumn" \in edit_actions)
  <2>1. GridTypeOK' /\ ViewResized(FALSE, -count) /\ at \in 1 .. Grid!columnCount + 1 - count
    BY <1>1, <1>4, Removing
  <2>2. FALSE \in BOOLEAN /\ (-(-count) < Grid!columnCount \/ "AddColumn" \in edit_actions)
    BY <1>2, <1>4
  <2>3. at <= (IF FALSE THEN Grid!rowCount ELSE Grid!columnCount) + 1 + (IF -count < 0 THEN -count ELSE 0)
    BY <1>1, <1>2, <2>1
  <2>4. QED
    BY <1>2, <2>1, <2>2, <2>3, Following
<1>5. QED
  BY <1>3, <1>4

LEMMA GridKept ==
  ASSUME GridInv, Careful = TRUE, [GridStep \/ TreeStep \/ LuaStep]_vars
  PROVE  GridInv'
<1>1. GridTypeOK /\ Grid!rowCount \in Nat /\ Grid!columnCount \in Nat
  BY Sizes DEF GridInv
<1>2. /\ Grid!Row \in Nat \ {0} /\ Grid!Column \in Nat \ {0}
      /\ Grid!Row + 1 \in Nat \ {0} /\ Grid!Column + 1 \in Nat \ {0}
      /\ Grid!rowCount + 1 \in Nat \ {0} /\ Grid!columnCount + 1 \in Nat \ {0}
      /\ 1 \in Nat \ {0}
  BY <1>1 DEF GridInv, CellsThere, Grid!Row, Grid!Column, Grid!None
<1>3. CASE TreeStep \/ LuaStep \/ UNCHANGED vars
  <2>1. UNCHANGED grid
    BY <1>3 DEF TreeStep, LuaStep, vars
  <2>2. QED
    BY <2>1, GridSame DEF grid
<1>4. CASE GridStep
  <2>1. ASSUME NEW at \in Nat \ {0}, Grid!new_row(at)
        PROVE  GridInv'
    BY <1>2, <2>1, RowInserted DEF Grid!new_row
  <2>2. ASSUME NEW at \in Nat \ {0}, Grid!new_column(at)
        PROVE  GridInv'
    BY <1>2, <2>2, RowInserted DEF Grid!new_column
  <2>3. CASE Grid!insert_row \/ Grid!insert_row_after \/ Grid!add_row \/ Grid!add_child
    BY <1>2, <2>1, <2>3 DEF Grid!insert_row, Grid!insert_row_after, Grid!add_row, Grid!add_child
  <2>4. CASE Grid!insert_column \/ Grid!insert_column_after \/ Grid!add_column
    BY <1>2, <2>2, <2>4 DEF Grid!insert_column, Grid!insert_column_after, Grid!add_column
  <2>5. CASE Grid!remove_row
    BY <1>2, <2>5, RowRemoved DEF Grid!remove_row
  <2>6. CASE Grid!remove_column
    BY <1>2, <2>6, RowRemoved DEF Grid!remove_column
  <2>7. CASE Grid!edit
    <3>1. PICK v : Grid!setData(Grid!Row, Grid!Column, v) /\ UNCHANGED Grid!dialog
      BY <2>7 DEF Grid!edit
    <3>2. QED
      BY <3>1, GridSame DEF Grid!setData, Grid!rows, Grid!columns, Grid!dialog
  <2>8. ASSUME NEW cell \in Grid!Cells, Grid!Select(cell)
        PROVE  GridInv'
    <3>1. /\ current' = cell /\ Grid!current_item_changed(cell)
          /\ UNCHANGED Grid!vars /\ edit_actions' = edit_actions
      BY <2>8 DEF Grid!Select
    <3>2. cell \in CellsThere /\ cell # <<>> /\ Grid!columnCount # 0
      BY <1>1 DEF Grid!Cells, CellsThere
    <3>3. GridTypeOK' /\ CellsThere' = CellsThere /\ Grid!columnCount' = Grid!columnCount
      BY <3>1, GridSame DEF Grid!vars
    <3>4. edit_actions \cap {"AddRow", "AddColumn"} \subseteq enabled'
      BY <3>1, ButtonsChanged
    <3>5. QED
      BY <3>1, <3>2, <3>3, <3>4 DEF GridInv
  <2>9. ASSUME NEW e \in Grid!Given, Grid!set_edit_actions(e)
        PROVE  GridInv'
    <3>1. /\ current # <<>> \/ edit_actions \cap {"AddRow", "AddColumn"} \subseteq e
          /\ enabled' = (enabled \cap e) \cup (e \ (edit_actions \cup {"EditData", "RemoveRow"}))
          /\ edit_actions' = e /\ UNCHANGED Grid!vars /\ current' = current
      BY <2>9 DEF Grid!set_edit_actions, Grid!None
    <3>2. GridTypeOK' /\ CellsThere' = CellsThere /\ Grid!columnCount' = Grid!columnCount
      BY <3>1, GridSame DEF Grid!vars
    <3>3. Grid!columnCount = 0 => current = <<>>
      BY DEF GridInv, CellsThere
    <3>4. QED
      BY <3>1, <3>2, <3>3 DEF GridInv, Grid!RowButtons, Grid!ColumnButtons
  <2>10. ASSUME NEW at \in 1 .. MaxRows + MaxColumns, NEW count \in 1 .. MaxCount,
                Grid!Inserted(at, count) \/ Grid!Removed(at, count)
         PROVE  GridInv'
    <3>1. at \in Nat \ {0} /\ count \in Nat \ {0}
      BY Assumptions
    <3>2. CASE Grid!Inserted(at, count)
      BY <3>1, <3>2, RowInserted DEF Grid!Inserted
    <3>3. CASE Grid!Removed(at, count)
      BY <3>1, <3>3, RowRemoved DEF Grid!Removed
    <3>4. QED
      BY <2>10, <3>2, <3>3
  <2>11. ASSUME NEW r, NEW new,
                Grid!LuaRow(r, new) \/ \E vertical \in BOOLEAN : Grid!setHeaderData(vertical, r, new),
                UNCHANGED Grid!dialog
         PROVE  GridInv'
    <3>1. Grid!SetRow(r, new)
      BY <2>11 DEF Grid!LuaRow, Grid!setHeaderData
    <3>2. QED
      BY <2>11, <3>1, GridSame DEF Grid!SetRow, Grid!rows, Grid!columns, Grid!dialog
  <2>12. QED
    BY <1>4, <2>3, <2>4, <2>5, <2>6, <2>7, <2>8, <2>9, <2>10, <2>11 DEF GridStep, Grid!DialogNext
<1>5. QED
  BY <1>3, <1>4

(* Who may insert rows, or columns, has a button for it when there are     *)
(* none, whatever the edit actions and the size of the grid, without what  *)
(* Careful excludes: the last column removed where columns can only be     *)
(* inserted, and actions set late that leave the user without AddRow       *)
(* (ItemViewDialog::current_item_changed, set_edit_actions).               *)
THEOREM DialogsCanGoOn == Careful = TRUE => (Spec => []CanGoOn)
<1>1. SUFFICES ASSUME Careful = TRUE PROVE Spec => []CanGoOn
  OBVIOUS
<1>2. Init => GridInv
  BY GridInitially
<1>3. GridInv /\ [Next]_vars => GridInv'
  BY <1>1, GridKept DEF Next
<1>4. GridInv => CanGoOn
  <2>1. SUFFICES ASSUME GridInv PROVE CanGoOn
    OBVIOUS
  <2>2. Grid!rowCount = 0 \/ Grid!columnCount = 0 => current = <<>>
    BY <2>1 DEF GridInv, CellsThere
  <2>3. QED
    BY <2>1, <2>2 DEF GridInv, CanGoOn, Grid!CanGoOn, Grid!RowButtons, Grid!ColumnButtons
<1>5. QED
  BY <1>2, <1>3, <1>4, PTL DEF Spec

-----------------------------------------------------------------------------
(* Parts put in and taken out.                                             *)

LEMMA WiderSeq ==
  ASSUME NEW A, NEW B, A \subseteq B
  PROVE  Seq(A) \subseteq Seq(B)
<1>1. ASSUME NEW s \in Seq(A) PROVE s \in Seq(B)
  <2>1. s \in [1 .. Len(s) -> A] /\ Len(s) \in Nat
    OBVIOUS
  <2>2. s \in [1 .. Len(s) -> B]
    BY <2>1
  <2>3. QED
    BY <2>1, <2>2
<1>2. QED
  BY <1>1

LEMMA PutInIs ==
  ASSUME NEW U, NEW s \in Seq(U), NEW new \in Seq(U), NEW at \in 1 .. Len(s) + 1
  PROVE  LET t == SubSeq(s, 1, at - 1) \o new \o SubSeq(s, at, Len(s))
         IN  /\ t \in Seq(U) /\ Len(t) = Len(s) + Len(new)
             /\ \A i \in 1 .. at - 1 : t[i] = s[i]
             /\ \A i \in at .. at + Len(new) - 1 : t[i] = new[i - at + 1]
             /\ \A i \in at + Len(new) .. Len(t) : t[i] = s[i - Len(new)]
<1> DEFINE p == SubSeq(s, 1, at - 1)
           q == SubSeq(s, at, Len(s))
<1>1. Len(s) \in Nat /\ Len(new) \in Nat
  OBVIOUS
<1>2. p \in Seq(U) /\ Len(p) = at - 1 /\ \A i \in 1 .. at - 1 : p[i] = s[i]
  BY <1>1
<1>3. q \in Seq(U) /\ Len(q) = Len(s) - at + 1 /\ \A i \in 1 .. Len(s) - at + 1 : q[i] = s[at + i - 1]
  BY <1>1
<1> HIDE DEF p, q
<1> DEFINE r == p \o new
<1>4. r \in Seq(U) /\ Len(r) = at - 1 + Len(new)
  BY <1>1, <1>2, ConcatProperties
<1>5. \A i \in 1 .. Len(r) : r[i] = IF i <= at - 1 THEN p[i] ELSE new[i - (at - 1)]
  BY <1>1, <1>2, <1>4, ConcatProperties
<1> HIDE DEF r
<1> DEFINE t == r \o q
<1>6. t \in Seq(U) /\ Len(t) = Len(s) + Len(new)
  <2>1. t \in Seq(U) /\ Len(t) = Len(r) + Len(q)
    BY <1>3, <1>4, ConcatProperties
  <2>2. QED
    BY <1>1, <1>3, <1>4, <2>1
<1>7. \A i \in 1 .. Len(t) : t[i] = IF i <= Len(r) THEN r[i] ELSE q[i - Len(r)]
  BY <1>1, <1>3, <1>4, ConcatProperties
<1> HIDE DEF t
<1>8. ASSUME NEW i \in 1 .. at - 1 PROVE t[i] = s[i]
  <2>1. i \in 1 .. Len(r) /\ i \in 1 .. Len(t) /\ i <= at - 1 /\ i <= Len(r)
    BY <1>1, <1>4, <1>6
  <2>2. QED
    BY <1>2, <1>5, <1>7, <2>1
<1>9. ASSUME NEW i \in at .. at + Len(new) - 1 PROVE t[i] = new[i - at + 1]
  BY <1>1, <1>4, <1>5, <1>6, <1>7
<1>10. ASSUME NEW i \in at + Len(new) .. Len(t) PROVE t[i] = s[i - Len(new)]
  <2>1. i \in 1 .. Len(t) /\ ~ i <= Len(r) /\ i - Len(r) \in 1 .. Len(s) - at + 1
    BY <1>1, <1>4, <1>6
  <2>2. at + (i - Len(r)) - 1 = i - Len(new)
    BY <1>1, <1>4, <1>6
  <2>3. QED
    BY <1>3, <1>7, <2>1, <2>2
<1>11. t = SubSeq(s, 1, at - 1) \o new \o SubSeq(s, at, Len(s))
  BY DEF t, r, p, q
<1>12. QED
  BY <1>6, <1>8, <1>9, <1>10, <1>11

LEMMA TakenOutIs ==
  ASSUME NEW U, NEW s \in Seq(U), NEW at \in 1 .. Len(s), NEW count \in Nat, at + count <= Len(s) + 1
  PROVE  LET t == SubSeq(s, 1, at - 1) \o SubSeq(s, at + count, Len(s))
         IN  /\ t \in Seq(U) /\ Len(t) = Len(s) - count
             /\ \A i \in 1 .. at - 1 : t[i] = s[i]
             /\ \A i \in at .. Len(t) : t[i] = s[i + count]
<1> DEFINE p == SubSeq(s, 1, at - 1)
           q == SubSeq(s, at + count, Len(s))
           n == Len(s) - (at + count) + 1
<1>1. Len(s) \in Nat /\ n \in Nat
  OBVIOUS
<1>2. p \in Seq(U) /\ Len(p) = at - 1 /\ \A i \in 1 .. at - 1 : p[i] = s[i]
  BY <1>1
<1>3. q \in Seq(U) /\ Len(q) = n /\ \A i \in 1 .. n : q[i] = s[at + count + i - 1]
  BY <1>1
<1> HIDE DEF p, q
<1> DEFINE t == p \o q
<1>4. t \in Seq(U) /\ Len(t) = Len(s) - count
  BY <1>1, <1>2, <1>3, ConcatProperties
<1>5. \A i \in 1 .. Len(t) : t[i] = IF i <= at - 1 THEN p[i] ELSE q[i - (at - 1)]
  BY <1>1, <1>2, <1>3, ConcatProperties
<1> HIDE DEF t
<1>6. ASSUME NEW i \in 1 .. at - 1 PROVE t[i] = s[i]
  <2>1. i \in 1 .. Len(t) /\ i <= at - 1
    BY <1>1, <1>4
  <2>2. QED
    BY <1>2, <1>5, <2>1
<1>7. ASSUME NEW i \in at .. Len(t) PROVE t[i] = s[i + count]
  <2>1. i \in 1 .. Len(t) /\ ~ i <= at - 1 /\ i - (at - 1) \in 1 .. n
    BY <1>1, <1>4
  <2>2. at + count + (i - (at - 1)) - 1 = i + count
    BY <1>1
  <2>3. QED
    BY <1>3, <1>5, <2>1, <2>2
<1>8. t = SubSeq(s, 1, at - 1) \o SubSeq(s, at + count, Len(s))
  BY DEF t, p, q
<1>9. QED
  BY <1>4, <1>6, <1>7, <1>8

-----------------------------------------------------------------------------
(* The tree: each node but the root is where its row says, and the rows    *)
(* that were not looked into have none.                                    *)

EntryOf(U) == [key : U, table : Nat, chk : BOOLEAN]
NodeOf(U) == [value : U, parent : Nat, row : Nat, entries : Seq(EntryOf(U))]

Typed(ns) == 1 \in DOMAIN ns /\ DOMAIN ns \subseteq Tree!Ids /\ \E U : ns \in [DOMAIN ns -> NodeOf(U)]

RowWhole(ns, t, n) ==
  LET e == ns[t].entries[n]
  IN  /\ e.chk \/ e.table = 0
      /\ e.table # 0 => /\ e.table \in DOMAIN ns \ {1}
                        /\ ns[e.table].parent = t /\ ns[e.table].row = n

NodeWhole(ns, i) ==
  LET p == ns[i].parent
  IN  /\ p \in DOMAIN ns /\ ns[i].row \in 1 .. Len(ns[p].entries)
      /\ ns[p].entries[ns[i].row].table = i

Whole(ns) ==
  /\ Typed(ns)
  /\ \A t \in DOMAIN ns : \A n \in 1 .. Len(ns[t].entries) : RowWhole(ns, t, n)
  /\ \A i \in DOMAIN ns \ {1} : NodeWhole(ns, i)

LEMMA WiderNode ==
  ASSUME NEW A, NEW B, A \subseteq B
  PROVE  EntryOf(A) \subseteq EntryOf(B) /\ NodeOf(A) \subseteq NodeOf(B)
<1>1. EntryOf(A) \subseteq EntryOf(B)
  BY DEF EntryOf
<1>2. Seq(EntryOf(A)) \subseteq Seq(EntryOf(B))
  BY <1>1, WiderSeq
<1>3. QED
  BY <1>1, <1>2 DEF NodeOf

(* An entry changes, but not its table.                                    *)
LEMMA EntryChanged ==
  ASSUME NEW ns, Whole(ns), NEW t \in DOMAIN ns, NEW n \in 1 .. Len(ns[t].entries),
         NEW V, NEW e \in EntryOf(V), e.table = ns[t].entries[n].table, e.chk \/ e.table = 0
  PROVE  Whole([ns EXCEPT ![t].entries[n] = e])
<1> DEFINE ms == [ns EXCEPT ![t].entries[n] = e]
<1>1. PICK U : ns \in [DOMAIN ns -> NodeOf(U)]
  BY DEF Whole, Typed
<1> DEFINE W == U \cup V
<1>2. /\ ns \in [DOMAIN ns -> NodeOf(W)] /\ e \in EntryOf(W)
  <2>1. U \subseteq W /\ V \subseteq W
    OBVIOUS
  <2> HIDE DEF W
  <2>2. NodeOf(U) \subseteq NodeOf(W) /\ EntryOf(V) \subseteq EntryOf(W)
    BY <2>1, WiderNode
  <2>3. QED
    BY <1>1, <2>2
<1> HIDE DEF W
<1>3. ns[t] \in NodeOf(W) /\ ns[t].entries \in Seq(EntryOf(W))
  BY <1>2 DEF NodeOf
<1>4. [ns[t].entries EXCEPT ![n] = e] \in Seq(EntryOf(W))
  BY <1>2, <1>3
<1>5. /\ DOMAIN ms = DOMAIN ns
      /\ \A i \in DOMAIN ns : ms[i].parent = ns[i].parent /\ ms[i].row = ns[i].row
      /\ \A i \in DOMAIN ns \ {t} : ms[i] = ns[i]
      /\ ms[t].entries = [ns[t].entries EXCEPT ![n] = e]
      /\ ms[t].value = ns[t].value
  BY <1>2 DEF NodeOf
<1>6. ms \in [DOMAIN ms -> NodeOf(W)]
  BY <1>2, <1>4 DEF NodeOf
<1> HIDE DEF ms
<1>7. \A i \in DOMAIN ns :
        /\ Len(ms[i].entries) = Len(ns[i].entries)
        /\ \A m \in 1 .. Len(ns[i].entries) :
             /\ ms[i].entries[m].table = ns[i].entries[m].table
             /\ ms[i].entries[m].chk \/ ms[i].entries[m].table = 0
  <2>1. ASSUME NEW i \in DOMAIN ns
        PROVE  /\ Len(ms[i].entries) = Len(ns[i].entries)
               /\ \A m \in 1 .. Len(ns[i].entries) :
                    /\ ms[i].entries[m].table = ns[i].entries[m].table
                    /\ ms[i].entries[m].chk \/ ms[i].entries[m].table = 0
    <3>1. CASE i # t
      BY <1>5, <3>1 DEF Whole, RowWhole
    <3>2. CASE i = t
      BY <1>3, <1>5, <3>2 DEF Whole, RowWhole
    <3>3. QED
      BY <3>1, <3>2
  <2>2. QED
    BY <2>1
<1>8. Typed(ms)
  BY <1>5, <1>6 DEF Typed, Whole
<1>9. ASSUME NEW i \in DOMAIN ms, NEW m \in 1 .. Len(ms[i].entries) PROVE RowWhole(ms, i, m)
  <2>1. m \in 1 .. Len(ns[i].entries) /\ i \in DOMAIN ns /\ RowWhole(ns, i, m)
    BY <1>5, <1>7 DEF Whole
  <2>2. QED
    BY <1>5, <1>7, <2>1 DEF RowWhole
<1>10. ASSUME NEW i \in DOMAIN ms \ {1} PROVE NodeWhole(ms, i)
  <2>1. NodeWhole(ns, i) /\ i \in DOMAIN ns
    BY <1>5 DEF Whole
  <2>2. QED
    BY <1>5, <1>7, <2>1 DEF NodeWhole
<1>11. Whole(ms)
  BY <1>8, <1>9, <1>10 DEF Whole
<1>12. QED
  BY <1>11 DEF ms

(* Two fields of an entry that change, as one change of it.                *)
FieldByField(ns, t, n, new) ==
  LET checked == [ns EXCEPT ![t].entries[n].chk = TRUE]
  IN  [checked EXCEPT ![t].entries[n].table = new]

FieldsAtOnce(ns, t, n, new) ==
  [ns EXCEPT ![t].entries[n] = [[ns[t].entries[n] EXCEPT !.chk = TRUE] EXCEPT !.table = new]]

LEMMA EntryTwice ==
  ASSUME NEW U, NEW ns, ns \in [DOMAIN ns -> NodeOf(U)], NEW t \in DOMAIN ns,
         NEW n \in 1 .. Len(ns[t].entries), NEW new
  PROVE  FieldByField(ns, t, n, new) = FieldsAtOnce(ns, t, n, new)
<1> DEFINE en == ns[t].entries
           ec == [en[n] EXCEPT !.chk = TRUE]
           e == [ec EXCEPT !.table = new]
           s == [en EXCEPT ![n] = ec]
           g == [ns[t] EXCEPT !.entries = s]
           checked == [ns EXCEPT ![t].entries[n].chk = TRUE]
           fs == [checked EXCEPT ![t].entries[n].table = new]
<1>1. ns[t] \in NodeOf(U) /\ en \in Seq(EntryOf(U))
  BY DEF NodeOf
<1>2. checked = [ns EXCEPT ![t] = g]
  OBVIOUS
<1>3. checked[t] = g /\ DOMAIN checked = DOMAIN ns /\ \A i \in DOMAIN ns \ {t} : checked[i] = ns[i]
  BY <1>2
<1>4. g.entries = s /\ s[n] = ec
  <2>1. s[n] = ec
    BY <1>1
  <2> HIDE DEF s
  <2>2. QED
    BY <1>1, <2>1 DEF NodeOf
<1>5. fs = [checked EXCEPT ![t] = [g EXCEPT !.entries = [s EXCEPT ![n] = e]]]
  <2> HIDE DEF checked, g, s, ec
  <2>1. QED
    BY <1>3, <1>4
<1>6. [s EXCEPT ![n] = e] = [en EXCEPT ![n] = e]
  BY <1>1
<1> HIDE DEF s, ec, e
<1>7. [g EXCEPT !.entries = [en EXCEPT ![n] = e]] = [ns[t] EXCEPT !.entries = [en EXCEPT ![n] = e]]
  BY <1>1 DEF NodeOf
<1> HIDE DEF g, checked
<1>8. fs = [ns EXCEPT ![t] = [ns[t] EXCEPT !.entries = [en EXCEPT ![n] = e]]]
  BY <1>3, <1>5, <1>6, <1>7
<1>9. QED
  BY <1>8 DEF FieldByField, FieldsAtOnce, fs, checked, e, ec

(* A row gets a node.                                                      *)
WithNode(ns, t, n, v, new) ==
  LET checked == [ns EXCEPT ![t].entries[n].chk = TRUE]
  IN  [i \in DOMAIN ns \cup {new} |->
         IF i = new THEN [value |-> v, parent |-> t, row |-> n, entries |-> <<>>]
         ELSE [checked EXCEPT ![t].entries[n].table = new][i]]

LEMMA NodeAdded ==
  ASSUME NEW ns, Whole(ns), NEW t \in DOMAIN ns, NEW n \in 1 .. Len(ns[t].entries),
         ns[t].entries[n].table = 0, NEW v, NEW new \in Tree!Ids, new \notin DOMAIN ns
  PROVE  Whole(WithNode(ns, t, n, v, new))
<1> DEFINE checked == [ns EXCEPT ![t].entries[n].chk = TRUE]
           fs == [checked EXCEPT ![t].entries[n].table = new]
           node == [value |-> v, parent |-> t, row |-> n, entries |-> <<>>]
           ms == [i \in DOMAIN ns \cup {new} |-> IF i = new THEN node ELSE fs[i]]
<1>1. PICK U : ns \in [DOMAIN ns -> NodeOf(U)]
  BY DEF Whole, Typed
<1> DEFINE W == U \cup {v}
           e == [[ns[t].entries[n] EXCEPT !.chk = TRUE] EXCEPT !.table = new]
<1>2. ns \in [DOMAIN ns -> NodeOf(W)] /\ v \in W
  <2>1. U \subseteq W /\ v \in W
    OBVIOUS
  <2> HIDE DEF W
  <2>2. QED
    BY <1>1, <2>1, WiderNode
<1> HIDE DEF W
<1>3. ns[t] \in NodeOf(W) /\ ns[t].entries \in Seq(EntryOf(W)) /\ ns[t].entries[n] \in EntryOf(W)
  BY <1>2 DEF NodeOf
<1>4. new \in Nat /\ new # 1 /\ new # 0 /\ MaxNodes \in Nat /\ \A i \in DOMAIN ns : i \in Nat /\ i # 0
  BY Assumptions DEF Whole, Typed, Tree!Ids, Tree!TreeAssumption
<1>5. fs = [ns EXCEPT ![t].entries[n] = e]
  <2>1. FieldByField(ns, t, n, new) = FieldsAtOnce(ns, t, n, new)
    BY <1>1, EntryTwice
  <2>2. FieldByField(ns, t, n, new) = fs
    BY DEF FieldByField
  <2>3. FieldsAtOnce(ns, t, n, new) = [ns EXCEPT ![t].entries[n] = e]
    BY DEF FieldsAtOnce
  <2>4. QED
    BY <2>1, <2>2, <2>3
<1> HIDE DEF checked
<1>6. e \in EntryOf(W) /\ e.table = new /\ e.chk
  BY <1>3, <1>4 DEF EntryOf
<1>7. [ns[t].entries EXCEPT ![n] = e] \in Seq(EntryOf(W))
  BY <1>3, <1>6
<1>8. /\ DOMAIN fs = DOMAIN ns
      /\ \A i \in DOMAIN ns : fs[i].parent = ns[i].parent /\ fs[i].row = ns[i].row
      /\ \A i \in DOMAIN ns \ {t} : fs[i] = ns[i]
      /\ fs[t].entries = [ns[t].entries EXCEPT ![n] = e]
      /\ fs \in [DOMAIN ns -> NodeOf(W)]
  <2> HIDE DEF fs, e
  <2>1. QED
    BY <1>2, <1>5, <1>7 DEF NodeOf
<1> HIDE DEF fs, e
<1>9. node \in NodeOf(W)
  <2>1. <<>> \in Seq(EntryOf(W))
    OBVIOUS
  <2>2. t \in Nat /\ n \in Nat
    BY <1>3, <1>4
  <2>3. QED
    BY <1>2, <2>1, <2>2 DEF NodeOf
<1>10. /\ DOMAIN ms = DOMAIN ns \cup {new}
       /\ ms[new] = node /\ \A i \in DOMAIN ns : ms[i] = fs[i]
       /\ ms \in [DOMAIN ms -> NodeOf(W)]
  BY <1>8, <1>9
<1>11. node.parent = t /\ node.row = n /\ node.entries = <<>> /\ Len(node.entries) = 0
  OBVIOUS
<1> HIDE DEF ms, node
<1>12. Typed(ms)
  BY <1>4, <1>10 DEF Typed, Whole
<1>13. \A i \in DOMAIN ns :
         /\ Len(ms[i].entries) = Len(ns[i].entries)
         /\ \A m \in 1 .. Len(ns[i].entries) :
              ms[i].entries[m] = IF i = t /\ m = n THEN e ELSE ns[i].entries[m]
  <2>1. ASSUME NEW i \in DOMAIN ns
        PROVE  /\ Len(ms[i].entries) = Len(ns[i].entries)
               /\ \A m \in 1 .. Len(ns[i].entries) :
                    ms[i].entries[m] = IF i = t /\ m = n THEN e ELSE ns[i].entries[m]
    <3>1. CASE i # t
      BY <1>8, <1>10, <3>1
    <3>2. CASE i = t
      BY <1>3, <1>8, <1>10, <3>2
    <3>3. QED
      BY <3>1, <3>2
  <2>2. QED
    BY <2>1
<1>14. \A i \in DOMAIN ns : ms[i].parent = ns[i].parent /\ ms[i].row = ns[i].row
  BY <1>8, <1>10
<1>15. ASSUME NEW i \in DOMAIN ms, NEW m \in 1 .. Len(ms[i].entries) PROVE RowWhole(ms, i, m)
  <2>1. i \in DOMAIN ns /\ m \in 1 .. Len(ns[i].entries)
    BY <1>10, <1>11, <1>13
  <2>2. RowWhole(ns, i, m)
    BY <2>1 DEF Whole
  <2>3. CASE i = t /\ m = n
    BY <1>4, <1>6, <1>10, <1>11, <1>13, <2>1, <2>3 DEF RowWhole
  <2>4. CASE ~ (i = t /\ m = n)
    BY <1>10, <1>13, <1>14, <2>1, <2>2, <2>4 DEF RowWhole
  <2>5. QED
    BY <2>3, <2>4
<1>16. ASSUME NEW i \in DOMAIN ms \ {1} PROVE NodeWhole(ms, i)
  <2>1. CASE i = new
    BY <1>6, <1>10, <1>11, <1>13, <2>1 DEF NodeWhole
  <2>2. CASE i # new
    <3>1. NodeWhole(ns, i) /\ i \in DOMAIN ns
      BY <1>10, <2>2 DEF Whole
    <3>2. i # 0
      BY <1>4, <3>1
    <3>3. ~ (ns[i].parent = t /\ ns[i].row = n)
      BY <3>1, <3>2 DEF NodeWhole
    <3>4. QED
      BY <1>10, <1>13, <1>14, <3>1, <3>3 DEF NodeWhole
  <2>3. QED
    BY <2>1, <2>2
<1>17. Whole(ms)
  BY <1>12, <1>15, <1>16 DEF Whole
<1>18. QED
  BY <1>17 DEF WithNode, ms, node, fs, checked

(* The keys that are fetched have no nodes yet.                            *)
LEMMA FetchedIs ==
  ASSUME NEW f
  PROVE  \E V : /\ Tree!Fetched(f) \in Seq(EntryOf(V))
                /\ \A n \in 1 .. Len(Tree!Fetched(f)) : Tree!Fetched(f)[n].table = 0
<1> DEFINE keys == {k \in LuaKeys : f[k] # Nil}
           c == Tree!Cardinality(keys)
           ks(n) == Tree!Sorted(keys, n)
           V == {ks(n) : n \in 1 .. c}
<1>1. c \in Nat
  <2>1. IsFiniteSet(LuaKeys)
    BY Assumptions DEF Tree!TreeAssumption, Tree!IsFiniteSet, IsFiniteSet
  <2>2. IsFiniteSet(keys)
    BY <2>1, FS_Subset
  <2>3. c = Cardinality(keys)
    BY DEF Tree!Cardinality, Cardinality
  <2>4. QED
    BY <2>2, <2>3, FS_CardinalityType
<1>2. Tree!Fetched(f) = [n \in 1 .. c |-> [key |-> ks(n), table |-> 0, chk |-> FALSE]]
  BY DEF Tree!Fetched, Tree!Entry, Tree!NoNode
<1> HIDE DEF c, ks
<1>3. \A n \in 1 .. c : [key |-> ks(n), table |-> 0, chk |-> FALSE] \in EntryOf(V)
  BY DEF EntryOf
<1> HIDE DEF V
<1>4. Tree!Fetched(f) \in [1 .. c -> EntryOf(V)]
  BY <1>2, <1>3
<1>5. Tree!Fetched(f) \in Seq(EntryOf(V)) /\ Len(Tree!Fetched(f)) = c
  BY <1>1, <1>4
<1>6. \A n \in 1 .. Len(Tree!Fetched(f)) : Tree!Fetched(f)[n].table = 0
  <2> DEFINE F == Tree!Fetched(f)
  <2>1. ASSUME NEW n \in 1 .. Len(F) PROVE F[n].table = 0
    <3>1. F[n] = [key |-> ks(n), table |-> 0, chk |-> FALSE]
      BY <1>2, <1>5
    <3>2. QED
      BY <3>1
  <2>2. QED
    BY <2>1
<1>7. QED
  BY <1>5, <1>6

LEMMA UpdatedWhole ==
  ASSUME NEW ns, Whole(ns), NEW t \in DOMAIN ns
  PROVE  Whole(Tree!update(t, ns))
<1>1. CASE ns[t].entries # <<>>
  BY <1>1 DEF Tree!update
<1>2. CASE ns[t].entries = <<>>
  <2> DEFINE F == Tree!Fetched(content[ns[t].value])
             ms == [ns EXCEPT ![t].entries = F]
  <2>1. Tree!update(t, ns) = ms
    BY <1>2 DEF Tree!update
  <2>2. PICK V : F \in Seq(EntryOf(V)) /\ \A n \in 1 .. Len(F) : F[n].table = 0
    BY FetchedIs
  <2> HIDE DEF F
  <2>3. PICK U : ns \in [DOMAIN ns -> NodeOf(U)]
    BY DEF Whole, Typed
  <2> DEFINE W == U \cup V
  <2>4. ns \in [DOMAIN ns -> NodeOf(W)] /\ F \in Seq(EntryOf(W))
    <3>1. U \subseteq W /\ V \subseteq W
      OBVIOUS
    <3> HIDE DEF W
    <3>2. NodeOf(U) \subseteq NodeOf(W) /\ EntryOf(V) \subseteq EntryOf(W)
      BY <3>1, WiderNode
    <3>3. Seq(EntryOf(V)) \subseteq Seq(EntryOf(W))
      BY <3>2, WiderSeq
    <3>4. QED
      BY <2>2, <2>3, <3>2, <3>3
  <2> HIDE DEF W
  <2>5. /\ DOMAIN ms = DOMAIN ns
        /\ \A i \in DOMAIN ns : ms[i].parent = ns[i].parent /\ ms[i].row = ns[i].row
        /\ \A i \in DOMAIN ns \ {t} : ms[i] = ns[i]
        /\ ms[t].entries = F
        /\ ms \in [DOMAIN ns -> NodeOf(W)]
    BY <2>4 DEF NodeOf
  <2> HIDE DEF ms
  <2>6. Typed(ms)
    BY <2>5 DEF Typed, Whole
  <2>7. ASSUME NEW i \in DOMAIN ms, NEW m \in 1 .. Len(ms[i].entries) PROVE RowWhole(ms, i, m)
    <3>1. CASE i = t
      BY <2>2, <2>5, <3>1 DEF RowWhole
    <3>2. CASE i # t
      <4>1. RowWhole(ns, i, m)
        BY <2>5, <2>7, <3>2 DEF Whole
      <4>2. QED
        BY <2>5, <3>2, <4>1 DEF RowWhole
    <3>3. QED
      BY <3>1, <3>2
  <2>8. ASSUME NEW i \in DOMAIN ms \ {1} PROVE NodeWhole(ms, i)
    <3>1. NodeWhole(ns, i)
      BY <2>5 DEF Whole
    <3>2. ns[i].parent # t
      <4>1. Len(ns[t].entries) = 0
        BY <1>2
      <4>2. QED
        BY <3>1, <4>1 DEF NodeWhole
    <3>3. QED
      BY <2>5, <3>1, <3>2 DEF NodeWhole
  <2>9. QED
    BY <2>1, <2>6, <2>7, <2>8 DEF Whole
<1>3. QED
  BY <1>1, <1>2

TreeInv == Whole(nodes)

LEMMA TreeRows ==
  ASSUME TreeInv, NEW t \in DOMAIN nodes
  PROVE  Tree!Rows(t) = 1 .. Len(nodes[t].entries) /\ Len(nodes[t].entries) \in Nat
<1>1. PICK U : nodes \in [DOMAIN nodes -> NodeOf(U)]
  BY DEF TreeInv, Whole, Typed
<1>2. nodes[t].entries \in Seq(EntryOf(U))
  BY <1>1 DEF NodeOf
<1>3. QED
  BY <1>2 DEF Tree!Rows

(* Which nodes are those of the rows from at on.                           *)
LEMMA TailIs ==
  ASSUME TreeInv, NEW t \in DOMAIN nodes, NEW at \in Nat, NEW count \in Int
  PROVE  LET ms == Tree!Moved(nodes, t, at, count)
         IN  /\ DOMAIN ms = DOMAIN nodes
             /\ \A i \in DOMAIN nodes :
                  ms[i] = IF i # 1 /\ nodes[i].parent = t /\ nodes[i].row >= at
                          THEN [nodes[i] EXCEPT !.row = @ + count] ELSE nodes[i]
<1> DEFINE tail == {nodes[t].entries[n].table : n \in {m \in 1 .. Len(nodes[t].entries) : m >= at}}
<1>1. Tree!Moved(nodes, t, at, count) =
        [i \in DOMAIN nodes |-> IF i \in tail THEN [nodes[i] EXCEPT !.row = @ + count] ELSE nodes[i]]
  BY TreeRows DEF Tree!Moved, Tree!Child
<1>2. ASSUME NEW i \in DOMAIN nodes
      PROVE  i \in tail <=> i # 1 /\ nodes[i].parent = t /\ nodes[i].row >= at
  <2>1. i # 0
    BY Assumptions DEF TreeInv, Whole, Typed, Tree!Ids, Tree!TreeAssumption
  <2>2. ASSUME i \in tail PROVE i # 1 /\ nodes[i].parent = t /\ nodes[i].row >= at
    <3>1. PICK n \in 1 .. Len(nodes[t].entries) : n >= at /\ i = nodes[t].entries[n].table
      BY <2>2
    <3>2. RowWhole(nodes, t, n)
      BY DEF TreeInv, Whole
    <3>3. QED
      BY <2>1, <3>1, <3>2 DEF RowWhole
  <2>3. ASSUME i # 1 /\ nodes[i].parent = t /\ nodes[i].row >= at PROVE i \in tail
    <3>1. NodeWhole(nodes, i)
      BY <2>3 DEF TreeInv, Whole
    <3>2. QED
      BY <2>3, <3>1 DEF NodeWhole
  <2>4. QED
    BY <2>2, <2>3
<1> HIDE DEF tail
<1>3. QED
  BY <1>1, <1>2

(* Rows are put in, without nodes, and those after know.                   *)
LEMMA TreeInserted ==
  ASSUME TreeInv, NEW t \in DOMAIN nodes, NEW at \in Nat, NEW count \in Nat, Tree!insertRows(t, at, count)
  PROVE  TreeInv'
<1>1. PICK U : nodes \in [DOMAIN nodes -> NodeOf(U)]
  BY DEF TreeInv, Whole, Typed
<1> DEFINE W == U \cup {Nil}
           old == nodes[t].entries
           new == [i \in 1 .. count |-> Tree!Entry(Nil)]
           S == SubSeq(old, 1, at - 1) \o new \o SubSeq(old, at, Len(old))
           mv == Tree!Moved(nodes, t, at, count)
           ms == [mv EXCEPT ![t].entries = S]
<1>2. nodes \in [DOMAIN nodes -> NodeOf(W)] /\ Nil \in W
  <2>1. U \subseteq W /\ Nil \in W
    OBVIOUS
  <2> HIDE DEF W
  <2>2. QED
    BY <1>1, <2>1, WiderNode
<1> HIDE DEF W
<1>3. old \in Seq(EntryOf(W)) /\ Len(old) \in Nat
  BY <1>2 DEF NodeOf
<1>4. /\ DOMAIN mv = DOMAIN nodes
      /\ \A i \in DOMAIN nodes :
           mv[i] = IF i # 1 /\ nodes[i].parent = t /\ nodes[i].row >= at
                   THEN [nodes[i] EXCEPT !.row = @ + count] ELSE nodes[i]
  BY TailIs
<1> HIDE DEF mv
<1>5. \A i \in DOMAIN nodes :
        /\ mv[i] \in NodeOf(W)
        /\ mv[i].parent = nodes[i].parent /\ mv[i].entries = nodes[i].entries
        /\ mv[i].row = IF i # 1 /\ nodes[i].parent = t /\ nodes[i].row >= at
                       THEN nodes[i].row + count ELSE nodes[i].row
  <2>1. ASSUME NEW i \in DOMAIN nodes
        PROVE  /\ mv[i] \in NodeOf(W)
               /\ mv[i].parent = nodes[i].parent /\ mv[i].entries = nodes[i].entries
               /\ mv[i].row = IF i # 1 /\ nodes[i].parent = t /\ nodes[i].row >= at
                              THEN nodes[i].row + count ELSE nodes[i].row
    <3>1. nodes[i] \in NodeOf(W) /\ nodes[i].row + count \in Nat
      BY <1>2 DEF NodeOf
    <3>2. QED
      BY <1>4, <3>1 DEF NodeOf
  <2>2. QED
    BY <2>1
<1>6. at \in 1 .. Len(old) + 1 /\ nodes' = ms
  <2>1. mv[t].entries = old
    BY <1>5
  <2>2. nodes' = [mv EXCEPT ![t].entries =
                    SubSeq(@, 1, at - 1) \o [i \in 1 .. count |-> Tree!Entry(Nil)] \o SubSeq(@, at, Len(@))]
    BY DEF Tree!insertRows, mv
  <2>3. QED
    BY <2>1, <2>2 DEF Tree!insertRows
<1>7. new \in Seq(EntryOf(W)) /\ Len(new) = count /\ \A i \in 1 .. count : new[i].table = 0
  <2>1. Tree!Entry(Nil) \in EntryOf(W) /\ Tree!Entry(Nil).table = 0
    BY <1>2 DEF Tree!Entry, Tree!NoNode, EntryOf
  <2>2. new \in [1 .. count -> EntryOf(W)]
    BY <2>1
  <2>3. QED
    BY <2>1, <2>2
<1> HIDE DEF old, new
<1>8. /\ S \in Seq(EntryOf(W)) /\ Len(S) = Len(old) + count
      /\ \A i \in 1 .. at - 1 : S[i] = old[i]
      /\ \A i \in at .. at + count - 1 : S[i] = new[i - at + 1]
      /\ \A i \in at + count .. Len(S) : S[i] = old[i - count]
  <2> DEFINE E == EntryOf(W)
  <2>1. old \in Seq(E) /\ new \in Seq(E) /\ at \in 1 .. Len(old) + 1
    BY <1>3, <1>6, <1>7
  <2> HIDE DEF E
  <2>2. /\ S \in Seq(E) /\ Len(S) = Len(old) + Len(new)
        /\ \A i \in 1 .. at - 1 : S[i] = old[i]
        /\ \A i \in at .. at + Len(new) - 1 : S[i] = new[i - at + 1]
        /\ \A i \in at + Len(new) .. Len(S) : S[i] = old[i - Len(new)]
    BY <2>1, PutInIs
  <2>3. Len(new) = count
    BY <1>7
  <2> HIDE DEF S
  <2>4. QED
    BY <2>2, <2>3 DEF E
<1> HIDE DEF S
<1>9. /\ DOMAIN ms = DOMAIN nodes
      /\ \A i \in DOMAIN nodes : ms[i].parent = nodes[i].parent
      /\ \A i \in DOMAIN nodes :
           ms[i].row = IF i # 1 /\ nodes[i].parent = t /\ nodes[i].row >= at
                       THEN nodes[i].row + count ELSE nodes[i].row
      /\ \A i \in DOMAIN nodes \ {t} : ms[i].entries = nodes[i].entries
      /\ ms[t].entries = S
      /\ ms \in [DOMAIN nodes -> NodeOf(W)]
  <2>1. ms[t].entries = S /\ S \in Seq(EntryOf(W)) /\ DOMAIN ms = DOMAIN nodes
    BY <1>4, <1>5, <1>8 DEF NodeOf
  <2>2. \A i \in DOMAIN nodes \ {t} : ms[i].entries = nodes[i].entries
    BY <1>5
  <2>3. /\ \A i \in DOMAIN nodes : ms[i].parent = nodes[i].parent
        /\ \A i \in DOMAIN nodes :
             ms[i].row = IF i # 1 /\ nodes[i].parent = t /\ nodes[i].row >= at
                         THEN nodes[i].row + count ELSE nodes[i].row
    BY <1>5
  <2>4. ms \in [DOMAIN nodes -> NodeOf(W)]
    BY <1>4, <1>5, <1>8 DEF NodeOf
  <2>5. QED
    BY <2>1, <2>2, <2>3, <2>4
<1> HIDE DEF ms
<1>10. Typed(ms)
  BY <1>9 DEF TreeInv, Typed, Whole
<1>11. ASSUME NEW i \in DOMAIN ms, NEW m \in 1 .. Len(ms[i].entries) PROVE RowWhole(ms, i, m)
  <2>1. CASE i # t
    <3>1. RowWhole(nodes, i, m) /\ ms[i].entries[m] = nodes[i].entries[m]
      BY <1>9, <1>11, <2>1 DEF TreeInv, Whole
    <3>2. QED
      BY <1>9, <2>1, <3>1 DEF RowWhole
  <2>2. CASE i = t /\ m \in 1 .. at - 1
    <3>1. RowWhole(nodes, t, m) /\ ms[t].entries[m] = nodes[t].entries[m]
      BY <1>3, <1>6, <1>8, <1>9, <2>2 DEF TreeInv, Whole, old
    <3>2. QED
      BY <1>9, <2>2, <3>1 DEF RowWhole
  <2>3. CASE i = t /\ m \in at .. at + count - 1
    <3>1. ms[t].entries[m] = new[m - at + 1] /\ m - at + 1 \in 1 .. count
      BY <1>6, <1>8, <1>9, <2>3
    <3>2. QED
      BY <1>7, <2>3, <3>1 DEF RowWhole
  <2>4. CASE i = t /\ m \in at + count .. Len(S)
    <3>1. m - count \in 1 .. Len(old) /\ m - count >= at
      BY <1>3, <1>6, <1>8, <2>4
    <3>2. RowWhole(nodes, t, m - count) /\ ms[t].entries[m] = nodes[t].entries[m - count]
      BY <1>8, <1>9, <2>4, <3>1 DEF TreeInv, Whole, old
    <3>3. (m - count) + count = m
      BY <2>4
    <3> DEFINE o == m - count
               x == nodes[t].entries[o]
    <3>4. ms[t].entries[m] = x /\ (x.chk \/ x.table = 0)
      BY <3>2 DEF RowWhole
    <3>5. ASSUME x.table # 0
          PROVE  /\ x.table \in DOMAIN nodes \ {1} /\ nodes[x.table].parent = t /\ nodes[x.table].row = o
                 /\ o >= at /\ o + count = m
      BY <3>1, <3>2, <3>3, <3>5 DEF RowWhole
    <3> HIDE DEF o, x
    <3>6. x.table # 0 => ms[x.table].parent = t /\ ms[x.table].row = m
      BY <1>9, <3>5
    <3>7. QED
      BY <1>9, <2>4, <3>4, <3>5, <3>6 DEF RowWhole
  <2>5. QED
    BY <1>6, <1>8, <1>9, <1>11, <2>1, <2>2, <2>3, <2>4
<1>12. ASSUME NEW i \in DOMAIN ms \ {1} PROVE NodeWhole(ms, i)
  <2>1. NodeWhole(nodes, i) /\ i \in DOMAIN nodes
    BY <1>9 DEF TreeInv, Whole
  <2> DEFINE r == nodes[i].row
  <2>2. CASE nodes[i].parent # t
    BY <1>9, <2>1, <2>2 DEF NodeWhole
  <2>3. CASE nodes[i].parent = t /\ r < at
    <3>1. r \in 1 .. Len(old) /\ r \in 1 .. at - 1 /\ ~ r >= at
      BY <1>6, <2>1, <2>3 DEF NodeWhole, old
    <3>2. r \in 1 .. Len(S) /\ S[r] = nodes[t].entries[r]
      BY <1>3, <1>8, <3>1 DEF old
    <3>3. QED
      BY <1>9, <2>1, <2>3, <3>1, <3>2 DEF NodeWhole
  <2>4. CASE nodes[i].parent = t /\ r >= at
    <3>1. r \in 1 .. Len(old)
      BY <2>1, <2>4 DEF NodeWhole, old
    <3>2. r + count \in at + count .. Len(S) /\ (r + count) - count = r
      BY <1>3, <1>6, <1>8, <2>4, <3>1
    <3>3. S[r + count] = old[r]
      BY <1>8, <3>2
    <3>4. r + count \in 1 .. Len(S)
      BY <1>6, <3>2
    <3>5. QED
      BY <1>9, <2>1, <2>4, <3>3, <3>4 DEF NodeWhole, old
  <2>5. r < at \/ r >= at
    <3>1. r \in Int
      BY <1>2, <2>1 DEF NodeOf
    <3>2. QED
      BY <3>1
  <2>6. QED
    BY <2>2, <2>3, <2>4, <2>5
<1>13. QED
  BY <1>6, <1>10, <1>11, <1>12 DEF TreeInv, Whole

(* What is deleted with a row: with each node those of its rows, and no    *)
(* node of another row.                                                    *)
LEMMA BelowIs ==
  ASSUME TreeInv, NEW t \in DOMAIN nodes, NEW g \in 1 .. Len(nodes[t].entries)
  PROVE  LET c == nodes[t].entries[g].table
             D == Tree!Below(c)
         IN  /\ D \subseteq DOMAIN nodes \ {1}
             /\ c \in D \cup {0}
             /\ \A j \in D : \A m \in 1 .. Len(nodes[j].entries) : nodes[j].entries[m].table \in D \cup {0}
             /\ \A j \in DOMAIN nodes \ D : \A m \in 1 .. Len(nodes[j].entries) :
                  nodes[j].entries[m].table \in D => j = t /\ m = g
<1> DEFINE Closed(s) == \A j \in s : \A m \in 1 .. Len(nodes[j].entries) :
                          nodes[j].entries[m].table \in s \cup {0}
           c == nodes[t].entries[g].table
           whole == {s \in SUBSET DOMAIN nodes : c \in s /\ Closed(s)}
           D == Tree!Below(c)
<1>1. \A j \in DOMAIN nodes : \A m \in 1 .. Len(nodes[j].entries) :
        LET x == nodes[j].entries[m].table
        IN  x # 0 => x \in DOMAIN nodes \ {1} /\ nodes[x].parent = j /\ nodes[x].row = m
  BY DEF TreeInv, Whole, RowWhole
<1>2. 0 \notin DOMAIN nodes
  BY Assumptions DEF TreeInv, Whole, Typed, Tree!Ids, Tree!TreeAssumption
<1>3. CASE c = 0
  <2>1. D = {}
    BY <1>3 DEF Tree!Below, Tree!NoNode
  <2>2. QED
    BY <1>3, <2>1
<1>4. CASE c # 0
  <2>1. D = {i \in DOMAIN nodes : \A s \in whole : i \in s}
    <3>1. \A j \in DOMAIN nodes : Tree!Rows(j) = 1 .. Len(nodes[j].entries)
      BY TreeRows
    <3>2. \A s \in SUBSET DOMAIN nodes :
            (\A j \in s : \A m \in Tree!Rows(j) : Tree!Child(j, m) \in s \cup {0}) <=> Closed(s)
      BY <3>1 DEF Tree!Child
    <3>3. whole = {s \in SUBSET DOMAIN nodes :
                     c \in s /\ \A j \in s : \A m \in Tree!Rows(j) : Tree!Child(j, m) \in s \cup {0}}
      <4> HIDE DEF Closed
      <4>1. QED
        BY <3>2
    <3> HIDE DEF whole, c
    <3>4. QED
      BY <1>4, <3>3 DEF Tree!Below, Tree!NoNode
  <2>2. c \in DOMAIN nodes \ {1} /\ nodes[c].parent = t /\ nodes[c].row = g
    BY <1>1, <1>4
  <2>3. c \in D
    BY <2>1, <2>2
  <2>4. DOMAIN nodes \ {1} \in whole
    BY <1>1, <2>2
  <2>5. D \subseteq DOMAIN nodes \ {1}
    BY <2>1, <2>4
  <2>6. ASSUME NEW j \in D, NEW m \in 1 .. Len(nodes[j].entries)
        PROVE  nodes[j].entries[m].table \in D \cup {0}
    <3> DEFINE x == nodes[j].entries[m].table
    <3>1. SUFFICES ASSUME x # 0 PROVE x \in D
      OBVIOUS
    <3>2. x \in DOMAIN nodes
      BY <1>1, <2>5, <3>1
    <3>3. ASSUME NEW s \in whole PROVE x \in s
      BY <2>1, <3>1
    <3>4. QED
      BY <2>1, <3>2, <3>3
  <2>7. ASSUME NEW j \in DOMAIN nodes \ D, NEW m \in 1 .. Len(nodes[j].entries),
               nodes[j].entries[m].table \in D, ~ (j = t /\ m = g)
        PROVE  FALSE
    <3> DEFINE x == nodes[j].entries[m].table
               s == D \ {x}
    <3>1. x # 0 /\ nodes[x].parent = j /\ nodes[x].row = m
      BY <1>1, <1>2, <2>5, <2>7
    <3>2. c # x
      BY <2>2, <2>7, <3>1
    <3>3. ASSUME NEW k \in s, NEW n \in 1 .. Len(nodes[k].entries)
          PROVE  nodes[k].entries[n].table \in s \cup {0}
      <4>1. k \in D /\ k \in DOMAIN nodes /\ nodes[k].entries[n].table \in D \cup {0}
        BY <2>5, <2>6
      <4>2. nodes[k].entries[n].table # x
        BY <1>1, <2>7, <3>1, <4>1
      <4>3. QED
        BY <4>1, <4>2
    <3>4. s \in whole
      <4>1. s \in SUBSET DOMAIN nodes /\ c \in s
        BY <2>3, <2>5, <3>2
      <4> HIDE DEF s
      <4>2. Closed(s)
        BY <3>3
      <4>3. QED
        BY <4>1, <4>2
    <3>5. x \in s
      <4> HIDE DEF s, whole
      <4>1. QED
        BY <2>1, <2>7, <3>4
    <3>6. QED
      BY <3>5
  <2>8. QED
    BY <2>3, <2>5, <2>6, <2>7
<1>5. QED
  BY <1>3, <1>4

LEMMA DeletedIs ==
  ASSUME TreeInv, NEW t \in DOMAIN nodes, NEW gone \in SUBSET (1 .. Len(nodes[t].entries))
  PROVE  LET D == UNION {Tree!Below(Tree!Child(t, n)) : n \in gone}
         IN  /\ D \subseteq DOMAIN nodes \ {1}
             /\ \A g \in gone : nodes[t].entries[g].table \in D \cup {0}
             /\ \A j \in D : \A m \in 1 .. Len(nodes[j].entries) : nodes[j].entries[m].table \in D \cup {0}
             /\ \A j \in DOMAIN nodes \ D : \A m \in 1 .. Len(nodes[j].entries) :
                  nodes[j].entries[m].table \in D => j = t /\ m \in gone
<1> DEFINE B(g) == Tree!Below(nodes[t].entries[g].table)
           D == UNION {B(g) : g \in gone}
<1>1. ASSUME NEW g \in gone
      PROVE  /\ B(g) \subseteq DOMAIN nodes \ {1}
             /\ nodes[t].entries[g].table \in B(g) \cup {0}
             /\ \A j \in B(g) : \A m \in 1 .. Len(nodes[j].entries) :
                  nodes[j].entries[m].table \in B(g) \cup {0}
             /\ \A j \in DOMAIN nodes \ B(g) : \A m \in 1 .. Len(nodes[j].entries) :
                  nodes[j].entries[m].table \in B(g) => j = t /\ m = g
  BY BelowIs
<1>2. D = UNION {Tree!Below(Tree!Child(t, n)) : n \in gone}
  BY DEF Tree!Child
<1>3. \A x : x \in D <=> \E g \in gone : x \in B(g)
  OBVIOUS
<1> HIDE DEF B, D
<1>4. D \subseteq DOMAIN nodes \ {1}
  BY <1>1, <1>3
<1>5. \A g \in gone : nodes[t].entries[g].table \in D \cup {0}
  BY <1>1, <1>3
<1>6. ASSUME NEW j \in D, NEW m \in 1 .. Len(nodes[j].entries)
      PROVE  nodes[j].entries[m].table \in D \cup {0}
  <2>1. PICK g \in gone : j \in B(g)
    BY <1>3
  <2>2. QED
    BY <1>1, <1>3, <2>1
<1>7. ASSUME NEW j \in DOMAIN nodes \ D, NEW m \in 1 .. Len(nodes[j].entries),
             nodes[j].entries[m].table \in D
      PROVE  j = t /\ m \in gone
  <2>1. PICK g \in gone : nodes[j].entries[m].table \in B(g)
    BY <1>3, <1>7
  <2>2. j \in DOMAIN nodes \ B(g)
    BY <1>3
  <2>3. QED
    BY <1>1, <2>1, <2>2
<1>8. QED
  BY <1>2, <1>4, <1>5, <1>6, <1>7

(* Rows are taken out with the nodes below them, and those after know.     *)
LEMMA TreeRemoved ==
  ASSUME TreeInv, NEW t \in DOMAIN nodes, NEW at \in Nat \ {0}, NEW count \in Nat \ {0},
         Tree!removeRows(t, at, count)
  PROVE  TreeInv'
<1>1. PICK U : nodes \in [DOMAIN nodes -> NodeOf(U)]
  BY DEF TreeInv, Whole, Typed
<1> DEFINE old == nodes[t].entries
           gone == at .. at + count - 1
           D == UNION {Tree!Below(Tree!Child(t, n)) : n \in gone}
           mv == Tree!Moved(nodes, t, at + count, -count)
           left == [i \in DOMAIN nodes \ D |-> mv[i]]
           S == SubSeq(old, 1, at - 1) \o SubSeq(old, at + count, Len(old))
           ms == [left EXCEPT ![t].entries = S]
<1>2. old \in Seq(EntryOf(U)) /\ Len(old) \in Nat
  BY <1>1 DEF NodeOf
<1>3. at \in 1 .. Len(old) /\ at + count <= Len(old) + 1 /\ gone \in SUBSET (1 .. Len(old))
  <2>1. at + count - 1 \in 1 .. Len(old)
    BY TreeRows DEF Tree!removeRows
  <2>2. QED
    BY <1>2, <2>1
<1>4. /\ D \subseteq DOMAIN nodes \ {1}
      /\ \A g \in gone : nodes[t].entries[g].table \in D \cup {0}
      /\ \A j \in D : \A m \in 1 .. Len(nodes[j].entries) : nodes[j].entries[m].table \in D \cup {0}
      /\ \A j \in DOMAIN nodes \ D : \A m \in 1 .. Len(nodes[j].entries) :
           nodes[j].entries[m].table \in D => j = t /\ m \in gone
  <2>1. gone \in SUBSET (1 .. Len(nodes[t].entries))
    BY <1>3
  <2> HIDE DEF gone
  <2>2. QED
    BY <2>1, DeletedIs
<1>5. /\ DOMAIN mv = DOMAIN nodes
      /\ \A i \in DOMAIN nodes :
           mv[i] = IF i # 1 /\ nodes[i].parent = t /\ nodes[i].row >= at + count
                   THEN [nodes[i] EXCEPT !.row = @ + (-count)] ELSE nodes[i]
  <2>1. at + count \in Nat /\ -count \in Int
    OBVIOUS
  <2>2. QED
    BY <2>1, TailIs
<1> HIDE DEF mv, D
<1>6. \A i \in DOMAIN nodes :
        /\ mv[i] \in NodeOf(U)
        /\ mv[i].parent = nodes[i].parent /\ mv[i].entries = nodes[i].entries
        /\ mv[i].row = IF i # 1 /\ nodes[i].parent = t /\ nodes[i].row >= at + count
                       THEN nodes[i].row - count ELSE nodes[i].row
  <2>1. ASSUME NEW i \in DOMAIN nodes
        PROVE  /\ mv[i] \in NodeOf(U)
               /\ mv[i].parent = nodes[i].parent /\ mv[i].entries = nodes[i].entries
               /\ mv[i].row = IF i # 1 /\ nodes[i].parent = t /\ nodes[i].row >= at + count
                              THEN nodes[i].row - count ELSE nodes[i].row
    <3>1. nodes[i] \in NodeOf(U) /\ (nodes[i].row >= at + count => nodes[i].row - count \in Nat)
          /\ nodes[i].row + (-count) = nodes[i].row - count
      BY <1>1 DEF NodeOf
    <3>2. QED
      BY <1>5, <3>1 DEF NodeOf
  <2>2. QED
    BY <2>1
<1>7. nodes' = ms
  <2>1. nodes' = [left EXCEPT ![t].entries = SubSeq(@, 1, at - 1) \o SubSeq(@, at + count, Len(@))]
    BY DEF Tree!removeRows, mv, D
  <2>2. t \in DOMAIN left => left[t].entries = old
    BY <1>6
  <2> HIDE DEF left
  <2>3. QED
    BY <2>1, <2>2
<1> HIDE DEF old
<1>8. /\ S \in Seq(EntryOf(U)) /\ Len(S) = Len(old) - count
      /\ \A i \in 1 .. at - 1 : S[i] = old[i]
      /\ \A i \in at .. Len(S) : S[i] = old[i + count]
  <2> DEFINE E == EntryOf(U)
  <2>1. old \in Seq(E)
    BY <1>2
  <2> HIDE DEF E
  <2>2. QED
    BY <1>3, <2>1, TakenOutIs DEF E
<1> HIDE DEF S
<1>9. /\ DOMAIN ms = DOMAIN nodes \ D
      /\ \A i \in DOMAIN nodes \ D : ms[i].parent = nodes[i].parent
      /\ \A i \in DOMAIN nodes \ D :
           ms[i].row = IF i # 1 /\ nodes[i].parent = t /\ nodes[i].row >= at + count
                       THEN nodes[i].row - count ELSE nodes[i].row
      /\ \A i \in DOMAIN nodes \ D : ms[i].entries = IF i = t THEN S ELSE nodes[i].entries
      /\ ms \in [DOMAIN nodes \ D -> NodeOf(U)]
  <2>1. DOMAIN left = DOMAIN nodes \ D /\ \A i \in DOMAIN nodes \ D : left[i] = mv[i]
    OBVIOUS
  <2> HIDE DEF left
  <2>2. DOMAIN ms = DOMAIN nodes \ D
    BY <2>1
  <2>3. ASSUME NEW i \in DOMAIN nodes \ D
        PROVE  /\ ms[i] \in NodeOf(U) /\ ms[i].parent = mv[i].parent /\ ms[i].row = mv[i].row
               /\ ms[i].entries = IF i = t THEN S ELSE mv[i].entries
    <3>1. mv[i] \in NodeOf(U) /\ left[i] = mv[i]
      BY <1>6, <2>1
    <3>2. ms[i] = IF i = t THEN [mv[i] EXCEPT !.entries = S] ELSE mv[i]
      BY <2>1, <3>1
    <3> HIDE DEF ms
    <3>3. QED
      BY <1>8, <3>1, <3>2 DEF NodeOf
  <2>4. ms = [i \in DOMAIN nodes \ D |-> ms[i]]
    BY <2>1
  <2> HIDE DEF ms
  <2>5. ms \in [DOMAIN nodes \ D -> NodeOf(U)]
    BY <2>3, <2>4
  <2>6. QED
    BY <1>6, <2>2, <2>3, <2>5
<1> HIDE DEF ms
<1>10. Typed(ms)
  BY <1>4, <1>9 DEF TreeInv, Typed, Whole
<1>11. ASSUME NEW i \in DOMAIN ms, NEW m \in 1 .. Len(ms[i].entries) PROVE RowWhole(ms, i, m)
  <2>1. i \in DOMAIN nodes \ D
    BY <1>9
  <2>2. CASE i # t
    <3>1. RowWhole(nodes, i, m) /\ ms[i].entries[m] = nodes[i].entries[m]
      BY <1>9, <1>11, <2>1, <2>2 DEF TreeInv, Whole
    <3>2. nodes[i].entries[m].table \notin D
      BY <1>4, <1>9, <1>11, <2>1, <2>2
    <3>3. QED
      BY <1>9, <2>1, <2>2, <3>1, <3>2 DEF RowWhole
  <2>3. CASE i = t /\ m \in 1 .. at - 1
    <3>1. m \in 1 .. Len(nodes[t].entries) /\ m \notin gone /\ ~ m >= at + count
      BY <1>2, <1>3, <2>3 DEF old
    <3>2. RowWhole(nodes, t, m) /\ ms[t].entries[m] = nodes[t].entries[m]
      BY <1>8, <1>9, <2>1, <2>3, <3>1 DEF TreeInv, Whole, old
    <3>3. nodes[t].entries[m].table \notin D
      BY <1>4, <2>1, <2>3, <3>1
    <3>4. QED
      BY <1>9, <2>1, <2>3, <3>1, <3>2, <3>3 DEF RowWhole
  <2>4. CASE i = t /\ m \in at .. Len(S)
    <3>1. /\ m + count \in 1 .. Len(nodes[t].entries) /\ m + count \notin gone
          /\ m + count >= at + count /\ (m + count) - count = m
      BY <1>2, <1>3, <1>8, <2>4 DEF old
    <3>2. RowWhole(nodes, t, m + count) /\ ms[t].entries[m] = nodes[t].entries[m + count]
      BY <1>8, <1>9, <2>1, <2>4, <3>1 DEF TreeInv, Whole, old
    <3>3. nodes[t].entries[m + count].table \notin D
      BY <1>4, <2>1, <2>4, <3>1
    <3> DEFINE e == nodes[t].entries[m + count]
    <3>4. /\ e.chk \/ e.table = 0
          /\ e.table # 0 => /\ e.table \in DOMAIN nodes \ D /\ e.table # 1
                            /\ nodes[e.table].parent = t /\ nodes[e.table].row = m + count
      BY <3>2, <3>3 DEF RowWhole
    <3> HIDE DEF e
    <3>5. e.table # 0 => /\ e.table \in DOMAIN ms \ {1}
                         /\ ms[e.table].parent = t /\ ms[e.table].row = m
      BY <1>9, <3>1, <3>4
    <3>6. ms[t].entries[m] = e
      BY <3>2 DEF e
    <3>7. QED
      BY <2>4, <3>4, <3>5, <3>6 DEF RowWhole
  <2>5. i = t => m \in 1 .. at - 1 \/ m \in at .. Len(S)
    BY <1>3, <1>8, <1>9, <1>11, <2>1
  <2>6. QED
    BY <2>2, <2>3, <2>4, <2>5
<1>12. ASSUME NEW i \in DOMAIN ms \ {1} PROVE NodeWhole(ms, i)
  <2> DEFINE p == nodes[i].parent
             r == nodes[i].row
  <2>1. i \in DOMAIN nodes \ D /\ i # 1 /\ i # 0
    BY <1>9, Assumptions DEF TreeInv, Whole, Typed, Tree!Ids, Tree!TreeAssumption
  <2>2. p \in DOMAIN nodes /\ r \in 1 .. Len(nodes[p].entries) /\ nodes[p].entries[r].table = i
    BY <2>1 DEF TreeInv, Whole, NodeWhole
  <2>3. p \notin D
    BY <1>4, <2>1, <2>2
  <2> HIDE DEF p, r
  <2>4. /\ ms[i].parent = p
        /\ ms[i].row = IF p = t /\ r >= at + count THEN r - count ELSE r
        /\ p \in DOMAIN ms /\ ms[p].entries = IF p = t THEN S ELSE nodes[p].entries
    BY <1>9, <2>1, <2>2, <2>3 DEF p, r
  <2>5. CASE p # t
    BY <2>2, <2>4, <2>5 DEF NodeWhole
  <2>6. CASE p = t
    <3>1. r \in 1 .. Len(old) /\ r \notin gone /\ old[r].table = i
      BY <1>4, <2>1, <2>2, <2>6 DEF old
    <3>2. CASE r < at
      <4>1. r \in 1 .. at - 1 /\ r \in 1 .. Len(S) /\ ~ r >= at + count
        BY <1>2, <1>3, <1>8, <3>1, <3>2
      <4>2. QED
        BY <1>8, <2>4, <2>6, <3>1, <4>1 DEF NodeWhole
    <3>3. CASE r >= at + count
      <4>1. r - count \in at .. Len(S) /\ r - count \in 1 .. Len(S) /\ (r - count) + count = r
        BY <1>2, <1>3, <1>8, <3>1, <3>3
      <4>2. S[r - count] = old[r]
        BY <1>8, <4>1
      <4>3. QED
        BY <2>4, <2>6, <3>1, <3>3, <4>1, <4>2 DEF NodeWhole
    <3>4. QED
      BY <1>2, <3>1, <3>2, <3>3
  <2>7. QED
    BY <2>5, <2>6
<1>13. QED
  BY <1>7, <1>10, <1>11, <1>12 DEF TreeInv, Whole

LEMMA EntryTyped ==
  ASSUME NEW ns, Whole(ns), NEW t \in DOMAIN ns, NEW n \in 1 .. Len(ns[t].entries)
  PROVE  \E U : ns \in [DOMAIN ns -> NodeOf(U)] /\ ns[t].entries[n] \in EntryOf(U)
<1>1. PICK U : ns \in [DOMAIN ns -> NodeOf(U)]
  BY DEF Whole, Typed
<1>2. ns[t].entries \in Seq(EntryOf(U))
  BY <1>1 DEF NodeOf
<1>3. QED
  BY <1>1, <1>2

LEMMA Checked ==
  ASSUME NEW ns, Whole(ns), NEW t \in DOMAIN ns, NEW n \in 1 .. Len(ns[t].entries),
         NEW b \in BOOLEAN, b \/ ns[t].entries[n].table = 0
  PROVE  Whole([ns EXCEPT ![t].entries[n].chk = b])
<1>1. PICK U : ns[t].entries[n] \in EntryOf(U)
  BY EntryTyped
<1> DEFINE e == [ns[t].entries[n] EXCEPT !.chk = b]
<1>2. e \in EntryOf(U) /\ e.table = ns[t].entries[n].table /\ (e.chk \/ e.table = 0)
  BY <1>1 DEF EntryOf
<1> HIDE DEF e
<1>3. Whole([ns EXCEPT ![t].entries[n] = e])
  BY <1>2, EntryChanged
<1>4. QED
  BY <1>3 DEF e

LEMMA KeyChanged ==
  ASSUME NEW ns, Whole(ns), NEW t \in DOMAIN ns, NEW n \in 1 .. Len(ns[t].entries), NEW k
  PROVE  Whole([ns EXCEPT ![t].entries[n].key = k])
<1>1. PICK U : ns[t].entries[n] \in EntryOf(U)
  BY EntryTyped
<1> DEFINE e == [ns[t].entries[n] EXCEPT !.key = k]
           V == U \cup {k}
<1>2. RowWhole(ns, t, n)
  BY DEF Whole
<1>3. e \in EntryOf(V) /\ e.table = ns[t].entries[n].table /\ (e.chk \/ e.table = 0)
  BY <1>1, <1>2 DEF EntryOf, RowWhole
<1> HIDE DEF e, V
<1>4. Whole([ns EXCEPT ![t].entries[n] = e])
  BY <1>3, EntryChanged
<1>5. QED
  BY <1>4 DEF e

NewId == CHOOSE i \in Tree!Ids : i \notin DOMAIN nodes

LEMMA NewIdIs ==
  ASSUME TreeInv, Tree!Cardinality(DOMAIN nodes) < MaxNodes
  PROVE  NewId \in Tree!Ids /\ NewId \notin DOMAIN nodes
<1>1. Tree!Cardinality(DOMAIN nodes) = Cardinality(DOMAIN nodes)
  BY DEF Tree!Cardinality, Cardinality
<1>2. MaxNodes \in Nat /\ Cardinality(1 .. MaxNodes) = MaxNodes
  <2>1. MaxNodes \in Nat \ {0}
    BY Assumptions DEF Tree!TreeAssumption
  <2>2. QED
    BY <2>1, FS_Interval
<1>3. DOMAIN nodes # Tree!Ids
  BY <1>1, <1>2 DEF Tree!Ids
<1>4. \E i \in Tree!Ids : i \notin DOMAIN nodes
  BY <1>3 DEF TreeInv, Whole, Typed
<1>5. QED
  BY <1>4 DEF NewId

LEMMA TreeLooked ==
  ASSUME TreeInv, NEW t \in DOMAIN nodes, NEW n \in Tree!Rows(t), NEW fetch, Tree!Look(t, n, fetch)
  PROVE  TreeInv'
<1> DEFINE e == nodes[t].entries[n]
           v == Tree!ValueIn(content, t, n)
           new == CHOOSE i \in Tree!Ids : i \notin DOMAIN nodes
           checked == [nodes EXCEPT ![t].entries[n].chk = TRUE]
           added == WithNode(nodes, t, n, v, new)
           s == Tree!set_table(t, n, nodes)
<1>1. n \in 1 .. Len(nodes[t].entries) /\ Whole(nodes) /\ RowWhole(nodes, t, n)
  BY TreeRows DEF TreeInv, Whole
<1>2. new \in Tree!Ids /\ new \notin DOMAIN nodes
  BY NewIdIs DEF Tree!Look, NewId
<1>3. s = IF e.chk THEN [ns |-> nodes, res |-> e.table]
          ELSE IF v \notin Nested THEN [ns |-> checked, res |-> 0]
          ELSE [res |-> new, ns |-> added]
  BY DEF WithNode, Tree!set_table, Tree!NoNode
<1>4. Whole(s.ns) /\ (s.res # 0 => s.res \in DOMAIN s.ns)
  <2>1. CASE e.chk
    <3>1. s.ns = nodes /\ s.res = e.table
      BY <1>3, <2>1
    <3>2. QED
      BY <1>1, <3>1 DEF RowWhole
  <2>2. CASE ~ e.chk /\ v \notin Nested
    <3>1. s.ns = checked /\ s.res = 0
      BY <1>3, <2>2
    <3>2. Whole(checked)
      BY <1>1, Checked
    <3> HIDE DEF checked, s
    <3>3. QED
      BY <3>1, <3>2
  <2>3. CASE ~ e.chk /\ v \in Nested
    <3>1. e.table = 0
      BY <1>1, <2>3 DEF RowWhole
    <3>2. new \in DOMAIN added
      BY DEF WithNode
    <3>3. Whole(added)
      BY <1>1, <1>2, <3>1, NodeAdded
    <3> HIDE DEF v, new, checked, added, s
    <3>4. s.ns = added /\ s.res = new
      BY <1>3, <2>3
    <3>5. QED
      BY <3>2, <3>3, <3>4
  <2>4. QED
    BY <2>1, <2>2, <2>3
<1> HIDE DEF s
<1>5. nodes' = IF fetch /\ s.res # 0 THEN Tree!update(s.res, s.ns) ELSE s.ns
  BY DEF Tree!Look, Tree!NoNode, s
<1>6. CASE fetch /\ s.res # 0
  BY <1>4, <1>5, <1>6, UpdatedWhole DEF TreeInv
<1>7. CASE ~ (fetch /\ s.res # 0)
  BY <1>4, <1>5, <1>7 DEF TreeInv
<1>8. QED
  BY <1>6, <1>7

LEMMA TreeEdited ==
  ASSUME TreeInv, "explored" \in Avoided, NEW t \in DOMAIN nodes, NEW n \in Tree!Rows(t), NEW col,
         Tree!Edit(t, n, col)
  PROVE  TreeInv'
<1>1. n \in 1 .. Len(nodes[t].entries) /\ Whole(nodes)
  BY TreeRows DEF TreeInv
<1> DEFINE unchecked == [nodes EXCEPT ![t].entries[n].chk = FALSE]
<1>2. Tree!Unchecked(nodes, t, n) = unchecked
  BY DEF Tree!Unchecked
<1>3. ASSUME nodes[t].entries[n].table = 0 PROVE Whole(unchecked)
  BY <1>1, <1>3, Checked
<1>4. CASE /\ Tree!get_column_id(Tree!buddy(col)) = "value"
           /\ \E v \in Scalars \cup Nested \cup {Nil} : Tree!setData_value(t, n, v)
  <2>1. nodes[t].entries[n].table = 0
    BY <1>4 DEF Tree!Edit, Tree!Editable, Tree!Child, Tree!NoNode
  <2>2. nodes' = unchecked
    BY <1>2, <1>4 DEF Tree!setData_value
  <2>3. QED
    BY <1>3, <2>1, <2>2 DEF TreeInv
<1>5. ASSUME NEW k, Tree!setData_key(t, n, k)
      PROVE  TreeInv'
  <2>1. nodes[t].entries[n].table = 0
    BY <1>5 DEF Tree!setData_key, Tree!Child, Tree!NoNode
  <2>2. nodes' = [unchecked EXCEPT ![t].entries[n].key = k]
    BY <1>2, <1>5 DEF Tree!setData_key
  <2>3. t \in DOMAIN unchecked /\ n \in 1 .. Len(unchecked[t].entries)
    <3>1. PICK U : nodes \in [DOMAIN nodes -> NodeOf(U)]
      BY <1>1 DEF Whole, Typed
    <3>2. nodes[t].entries \in Seq(EntryOf(U))
      BY <3>1 DEF NodeOf
    <3>3. unchecked[t].entries = [nodes[t].entries EXCEPT ![n].chk = FALSE]
      BY <3>1 DEF NodeOf
    <3>4. Len([nodes[t].entries EXCEPT ![n].chk = FALSE]) = Len(nodes[t].entries)
      BY <3>2
    <3>5. QED
      BY <1>1, <3>1, <3>3, <3>4
  <2> HIDE DEF unchecked
  <2>4. QED
    BY <1>3, <2>1, <2>2, <2>3, KeyChanged DEF TreeInv
<1>6. QED
  BY <1>4, <1>5 DEF Tree!Edit, Tree!Values

LEMMA OneNode ==
  ASSUME NEW ns, DOMAIN ns = {1}, NEW v, NEW p \in Nat, NEW r \in Nat,
         ns[1] = [value |-> v, parent |-> p, row |-> r, entries |-> <<>>],
         ns = [i \in {1} |-> ns[i]]
  PROVE  Whole(ns)
<1>1. <<>> \in Seq(EntryOf({v})) /\ Len(<<>>) = 0
  OBVIOUS
<1>2. ns[1] \in NodeOf({v}) /\ ns[1].entries = <<>>
  BY <1>1 DEF NodeOf
<1>3. ns \in [DOMAIN ns -> NodeOf({v})]
  BY <1>2
<1>4. 1 \in Tree!Ids
  BY Assumptions DEF Tree!Ids, Tree!TreeAssumption
<1>5. Typed(ns)
  BY <1>3, <1>4 DEF Typed
<1>6. \A t \in DOMAIN ns : Len(ns[t].entries) = 0
  BY <1>1, <1>2
<1>7. QED
  BY <1>5, <1>6 DEF Whole

LEMMA TreeInitially ==
  ASSUME Init
  PROVE  TreeInv
<1>1. nodes = [i \in {1} |-> [value |-> Top, parent |-> 0, row |-> 0, entries |-> <<>>]]
  BY DEF Init, Tree!Init, Tree!Root, Tree!NoNode
<1>2. DOMAIN nodes = {1} /\ nodes[1] = [value |-> Top, parent |-> 0, row |-> 0, entries |-> <<>>]
      /\ nodes = [i \in {1} |-> nodes[i]]
  BY <1>1
<1>3. QED
  BY <1>2, OneNode DEF TreeInv

LEMMA TreeReset ==
  ASSUME TreeInv, Tree!Update
  PROVE  TreeInv'
<1>1. PICK U : nodes[1] \in NodeOf(U)
  BY DEF TreeInv, Whole, Typed
<1>2. nodes' = [i \in {1} |-> [nodes[1] EXCEPT !.entries = <<>>]]
  BY DEF Tree!Update, Tree!Root
<1>3. /\ nodes[1].parent \in Nat /\ nodes[1].row \in Nat
      /\ [nodes[1] EXCEPT !.entries = <<>>] =
           [value |-> nodes[1].value, parent |-> nodes[1].parent, row |-> nodes[1].row, entries |-> <<>>]
  BY <1>1 DEF NodeOf
<1>4. DOMAIN nodes' = {1} /\ nodes'[1] = [nodes[1] EXCEPT !.entries = <<>>]
      /\ nodes' = [i \in {1} |-> nodes'[i]]
  BY <1>2
<1>5. Whole(nodes')
  BY <1>3, <1>4, OneNode
<1>6. QED
  BY <1>5 DEF TreeInv

LEMMA TreeKept ==
  ASSUME TreeInv, "explored" \in Avoided, [GridStep \/ TreeStep \/ LuaStep]_vars
  PROVE  TreeInv'
<1>1. CASE GridStep \/ LuaStep \/ UNCHANGED vars
  <2>1. nodes' = nodes
    BY <1>1 DEF GridStep, LuaStep, vars, tree
  <2>2. QED
    BY <2>1 DEF TreeInv
<1>2. CASE TreeStep
  <2>1. CASE Tree!LookAtTop
    BY <2>1, UpdatedWhole DEF Tree!LookAtTop, Tree!Root, TreeInv, Whole, Typed
  <2>2. CASE Tree!Update
    BY <2>2, TreeReset
  <2>3. ASSUME NEW t \in DOMAIN nodes, NEW row \in 1 .. MaxEntries + 1, NEW count \in 1 .. 2,
               Tree!removeRows(t, row, count) \/ Tree!insertRows(t, row, count)
        PROVE  TreeInv'
    <3>1. row \in Nat \ {0} /\ count \in Nat \ {0}
      BY Assumptions DEF Tree!TreeAssumption
    <3>2. QED
      BY <2>3, <3>1, TreeRemoved, TreeInserted
  <2>4. ASSUME NEW t \in DOMAIN nodes, NEW n \in Tree!Rows(t),
               \/ \E fetch \in BOOLEAN : Tree!Look(t, n, fetch)
               \/ \E col \in 0 .. Tree!columnCount - 1 : Tree!Edit(t, n, col)
        PROVE  TreeInv'
    BY <2>4, TreeLooked, TreeEdited
  <2>5. ASSUME NEW f, NEW k, NEW v, Tree!LuaSet(f, k, v)
        PROVE  TreeInv'
    BY <2>5 DEF Tree!LuaSet, TreeInv
  <2>6. QED
    BY <1>2, <2>1, <2>2, <2>3, <2>4, <2>5 DEF TreeStep, Tree!Next
<1>3. QED
  BY <1>1, <1>2

(* However many nodes and rows, each node but the root is the child of one *)
(* row only, of its parent, and knows which, as long as keys of tables     *)
(* that were looked into stay (TableTreeKeys::set_table,                   *)
(* TableTreeModel::removeRows, insertRows).                                *)
THEOREM TreesStayWhole == "explored" \in Avoided => (Spec => []TreeWhole)
<1>1. SUFFICES ASSUME "explored" \in Avoided PROVE Spec => []TreeWhole
  OBVIOUS
<1>2. Init => TreeInv
  BY TreeInitially
<1>3. TreeInv /\ [Next]_vars => TreeInv'
  BY <1>1, TreeKept DEF Next
<1>4. TreeInv => TreeWhole
  <2>1. SUFFICES ASSUME TreeInv PROVE TreeWhole
    OBVIOUS
  <2>2. ASSUME NEW i \in DOMAIN nodes \ {1}
        PROVE  LET p == nodes[i].parent IN
               /\ p \in DOMAIN nodes /\ nodes[i].row \in Tree!Rows(p)
               /\ Tree!Child(p, nodes[i].row) = i
               /\ \A t \in DOMAIN nodes, n \in 1 .. MaxEntries :
                    n \in Tree!Rows(t) /\ Tree!Child(t, n) = i => <<t, n>> = <<p, nodes[i].row>>
    <3>1. NodeWhole(nodes, i) /\ i # 0
      BY <2>1, Assumptions DEF TreeInv, Whole, Typed, Tree!Ids, Tree!TreeAssumption
    <3>2. ASSUME NEW t \in DOMAIN nodes, NEW n \in Tree!Rows(t), Tree!Child(t, n) = i
          PROVE  nodes[i].parent = t /\ nodes[i].row = n
      <4>1. RowWhole(nodes, t, n)
        BY <2>1, TreeRows DEF TreeInv, Whole
      <4>2. QED
        BY <3>1, <3>2, <4>1 DEF RowWhole, Tree!Child
    <3>3. nodes[i].parent \in DOMAIN nodes /\ nodes[i].row \in Tree!Rows(nodes[i].parent)
      BY <2>1, <3>1, TreeRows DEF NodeWhole
    <3>4. Tree!Child(nodes[i].parent, nodes[i].row) = i
      BY <3>1 DEF NodeWhole, Tree!Child
    <3>5. QED
      BY <3>2, <3>3, <3>4
  <2>3. QED
    BY <2>2 DEF TreeWhole, Tree!TreeWhole, Tree!Root
<1>5. QED
  BY <1>2, <1>3, <1>4, PTL DEF Spec

-----------------------------------------------------------------------------
(* What the tree shows at the top: a row for each key.                     *)

RowOf(k, f) ==
  [c \in 1 .. Tree!columnCount |->
     CASE Tree!get_column_id(c - 1) = "key" -> k
       [] Tree!get_column_id(c - 1) = "value" -> IF k = Nil THEN Nil ELSE f[k]
       [] OTHER -> Nil]

SheetOf(es, f) == [n \in 1 .. Len(es) |-> RowOf(es[n].key, f)]

BlankRow == [c \in 1 .. Tree!columnCount |-> Nil]

RowSet(g, h) == Len(h) = Len(g) /\ \E r \in DOMAIN g : h = [g EXCEPT ![r] = h[r]]
RowsPut(g, h) ==
  \E n \in 1 .. Len(h) : \E at \in 1 .. Len(g) + 1 :
    h = SubSeq(g, 1, at - 1) \o [i \in 1 .. n |-> BlankRow] \o SubSeq(g, at, Len(g))
RowsOut(g, h) ==
  \E n \in 1 .. Len(g) : \E at \in 1 .. Len(g) + 1 - n :
    h = SubSeq(g, 1, at - 1) \o SubSeq(g, at + n, Len(g))

(* A step of a sheet whose columns stay.                                   *)
SheetStep(g, h) == g = h \/ g = <<>> \/ RowSet(g, h) \/ RowsPut(g, h) \/ RowsOut(g, h)

(* es is a list of keys of a table f.                                      *)
Listed(es) == \E U : es \in Seq(EntryOf(U))

LEMMA SheetIsSeq ==
  ASSUME NEW es, Listed(es), NEW f
  PROVE  /\ Len(es) \in Nat
         /\ SheetOf(es, f) \in Seq({RowOf(es[n].key, f) : n \in 1 .. Len(es)})
         /\ Len(SheetOf(es, f)) = Len(es)
         /\ DOMAIN SheetOf(es, f) = 1 .. Len(es)
         /\ \A n \in 1 .. Len(es) : SheetOf(es, f)[n] = RowOf(es[n].key, f)
<1>1. Len(es) \in Nat
  BY DEF Listed
<1> DEFINE S == {RowOf(es[n].key, f) : n \in 1 .. Len(es)}
           g == [n \in 1 .. Len(es) |-> RowOf(es[n].key, f)]
<1>2. g \in [1 .. Len(es) -> S]
  OBVIOUS
<1>3. DOMAIN g = 1 .. Len(es) /\ \A n \in 1 .. Len(es) : g[n] = RowOf(es[n].key, f)
  OBVIOUS
<1>4. SheetOf(es, f) = g
  BY DEF SheetOf
<1> HIDE DEF S, g
<1>5. g \in Seq(S) /\ Len(g) = Len(es)
  BY <1>1, <1>2
<1>6. QED
  BY <1>1, <1>3, <1>4, <1>5 DEF S

(* The tables agree on the key k.                                          *)
Agree(k, f, h) == k # Nil => f[k] = h[k]

LEMMA RowIs ==
  ASSUME NEW k, NEW f, NEW h, Agree(k, f, h)
  PROVE  RowOf(k, f) = RowOf(k, h)
BY DEF RowOf, Agree

LEMMA SameSheet ==
  ASSUME NEW es, Listed(es), NEW fs, Listed(fs), NEW f, NEW h, Len(fs) = Len(es),
         \A n \in 1 .. Len(es) : fs[n].key = es[n].key /\ Agree(es[n].key, f, h)
  PROVE  SheetOf(es, f) = SheetOf(fs, h)
<1>1. \A n \in 1 .. Len(es) : RowOf(es[n].key, f) = RowOf(fs[n].key, h)
  BY RowIs
<1>2. QED
  BY <1>1 DEF SheetOf

LEMMA SheetRowSet ==
  ASSUME NEW es, Listed(es), NEW fs, Listed(fs), NEW f, NEW h, Len(fs) = Len(es),
         NEW r \in 1 .. Len(es),
         \A n \in 1 .. Len(es) : n # r => fs[n].key = es[n].key /\ Agree(es[n].key, f, h)
  PROVE  RowSet(SheetOf(es, f), SheetOf(fs, h))
<1> DEFINE g == SheetOf(es, f)
           k == SheetOf(fs, h)
<1>1. \A n \in 1 .. Len(es) : n # r => RowOf(es[n].key, f) = RowOf(fs[n].key, h)
  BY RowIs
<1>2. g = [n \in 1 .. Len(es) |-> g[n]] /\ k = [n \in 1 .. Len(es) |-> k[n]]
  BY DEF SheetOf
<1>3. \A n \in 1 .. Len(es) : n # r => g[n] = k[n]
  <2>1. /\ \A n \in 1 .. Len(es) : g[n] = RowOf(es[n].key, f)
        /\ \A n \in 1 .. Len(fs) : k[n] = RowOf(fs[n].key, h)
    BY SheetIsSeq
  <2> HIDE DEF g, k
  <2>2. QED
    BY <1>1, <2>1
<1>4. Len(g) = Len(es) /\ Len(k) = Len(es) /\ DOMAIN g = 1 .. Len(es)
  BY SheetIsSeq
<1> HIDE DEF g, k
<1>5. k = [g EXCEPT ![r] = k[r]]
  BY <1>2, <1>3
<1>6. QED
  BY <1>4, <1>5 DEF RowSet, g, k

(* fs is es without count entries from place at on, or with blank ones.    *)
GoneAt(es, fs, at, count) ==
  /\ Len(fs) = Len(es) - count
  /\ \A i \in 1 .. at - 1 : fs[i] = es[i]
  /\ \A i \in at .. Len(fs) : fs[i] = es[i + count]

BlankAt(es, fs, at, count) ==
  /\ Len(fs) = Len(es) + count
  /\ \A i \in 1 .. at - 1 : fs[i] = es[i]
  /\ \A i \in at .. at + count - 1 : fs[i].key = Nil
  /\ \A i \in at + count .. Len(fs) : fs[i] = es[i - count]

LEMMA SheetRowsOut ==
  ASSUME NEW es, Listed(es), NEW f, NEW h, NEW at \in 1 .. Len(es), NEW count \in Nat \ {0},
         at + count <= Len(es) + 1,
         \A n \in 1 .. Len(es) : n \notin at .. at + count - 1 => Agree(es[n].key, f, h),
         NEW fs, fs = SubSeq(es, 1, at - 1) \o SubSeq(es, at + count, Len(es))
  PROVE  Listed(fs) /\ GoneAt(es, fs, at, count) /\ RowsOut(SheetOf(es, f), SheetOf(fs, h))
<1> DEFINE g == SheetOf(es, f)
           k == SheetOf(fs, h)
           t == SubSeq(g, 1, at - 1) \o SubSeq(g, at + count, Len(g))
<1>1. PICK U : es \in Seq(EntryOf(U))
  BY DEF Listed
<1>2. Len(es) \in Nat
  BY <1>1
<1>3. /\ fs \in Seq(EntryOf(U)) /\ Len(fs) = Len(es) - count
      /\ \A i \in 1 .. at - 1 : fs[i] = es[i]
      /\ \A i \in at .. Len(fs) : fs[i] = es[i + count]
  <2> DEFINE w == SubSeq(es, 1, at - 1) \o SubSeq(es, at + count, Len(es))
  <2>1. /\ w \in Seq(EntryOf(U)) /\ Len(w) = Len(es) - count
        /\ \A i \in 1 .. at - 1 : w[i] = es[i]
        /\ \A i \in at .. Len(w) : w[i] = es[i + count]
    BY <1>1, TakenOutIs
  <2>2. fs = w
    OBVIOUS
  <2> HIDE DEF w
  <2>3. QED
    BY <2>1, <2>2
<1>4. Listed(fs) /\ GoneAt(es, fs, at, count)
  BY <1>3 DEF Listed, GoneAt
<1>5. /\ g \in Seq({RowOf(es[n].key, f) : n \in 1 .. Len(es)}) /\ Len(g) = Len(es)
      /\ \A n \in 1 .. Len(es) : g[n] = RowOf(es[n].key, f)
  BY SheetIsSeq
<1>6. Len(k) = Len(fs) /\ DOMAIN k = 1 .. Len(fs) /\ \A n \in 1 .. Len(fs) : k[n] = RowOf(fs[n].key, h)
  BY <1>4, SheetIsSeq
<1>7. k = [n \in 1 .. Len(fs) |-> k[n]]
  BY DEF SheetOf
<1> HIDE DEF g, k
<1>8. PICK S : g \in Seq(S)
  BY <1>5
<1>9. /\ t \in Seq(S) /\ Len(t) = Len(g) - count
      /\ \A i \in 1 .. at - 1 : t[i] = g[i]
      /\ \A i \in at .. Len(t) : t[i] = g[i + count]
  <2>1. at \in 1 .. Len(g) /\ at + count <= Len(g) + 1
    BY <1>5
  <2>2. QED
    BY <1>8, <2>1, TakenOutIs
<1> HIDE DEF t
<1>10. t = [n \in 1 .. Len(t) |-> t[n]] /\ Len(t) = Len(fs)
  BY <1>3, <1>5, <1>9
<1>11. ASSUME NEW n \in 1 .. Len(fs) PROVE t[n] = k[n]
  <2>1. CASE n < at
    <3>1. n \in 1 .. at - 1 /\ n \in 1 .. Len(es) /\ n \notin at .. at + count - 1
      BY <1>2, <2>1
    <3>2. fs[n] = es[n] /\ t[n] = RowOf(es[n].key, f) /\ k[n] = RowOf(fs[n].key, h)
      BY <1>3, <1>5, <1>6, <1>9, <3>1
    <3>3. QED
      BY <3>1, <3>2, RowIs
  <2>2. CASE ~ n < at
    <3>1. /\ n \in at .. Len(fs) /\ n \in at .. Len(t)
          /\ n + count \in 1 .. Len(es) /\ n + count \notin at .. at + count - 1
      BY <1>2, <1>3, <1>10, <2>2
    <3>2. fs[n] = es[n + count] /\ t[n] = RowOf(es[n + count].key, f) /\ k[n] = RowOf(fs[n].key, h)
      BY <1>3, <1>5, <1>6, <1>9, <3>1
    <3>3. QED
      BY <3>1, <3>2, RowIs
  <2>3. QED
    BY <2>1, <2>2
<1>12. k = t
  BY <1>7, <1>10, <1>11
<1>13. count \in 1 .. Len(g) /\ at \in 1 .. Len(g) + 1 - count
  BY <1>2, <1>5
<1>14. RowsOut(g, k)
  BY <1>12, <1>13 DEF RowsOut, t
<1>15. QED
  BY <1>4, <1>14 DEF g, k

LEMMA SheetRowsPut ==
  ASSUME NEW es, Listed(es), NEW f, NEW at \in 1 .. Len(es) + 1, NEW count \in Nat \ {0},
         NEW fs, fs = SubSeq(es, 1, at - 1) \o [i \in 1 .. count |-> Tree!Entry(Nil)] \o SubSeq(es, at, Len(es))
  PROVE  Listed(fs) /\ BlankAt(es, fs, at, count) /\ RowsPut(SheetOf(es, f), SheetOf(fs, f))
<1> DEFINE e == Tree!Entry(Nil)
           new == [i \in 1 .. count |-> e]
           blank == [i \in 1 .. count |-> BlankRow]
           g == SheetOf(es, f)
           k == SheetOf(fs, f)
           t == SubSeq(g, 1, at - 1) \o blank \o SubSeq(g, at, Len(g))
<1>1. PICK V : es \in Seq(EntryOf(V))
  BY DEF Listed
<1> DEFINE U == V \cup {Nil}
<1>2. es \in Seq(EntryOf(U)) /\ e \in EntryOf(U) /\ e.key = Nil
  <2>1. EntryOf(V) \subseteq EntryOf(U)
    BY WiderNode
  <2>2. Seq(EntryOf(V)) \subseteq Seq(EntryOf(U))
    BY <2>1, WiderSeq
  <2>3. QED
    BY <1>1, <2>2 DEF EntryOf, Tree!Entry, Tree!NoNode
<1> HIDE DEF U, e
<1>3. Len(es) \in Nat
  BY <1>1
<1>4. new \in Seq(EntryOf(U)) /\ Len(new) = count /\ \A i \in 1 .. count : new[i] = e
  BY <1>2
<1> HIDE DEF new
<1>5. /\ fs \in Seq(EntryOf(U)) /\ Len(fs) = Len(es) + count
      /\ \A i \in 1 .. at - 1 : fs[i] = es[i]
      /\ \A i \in at .. at + count - 1 : fs[i] = new[i - at + 1]
      /\ \A i \in at + count .. Len(fs) : fs[i] = es[i - count]
  <2> DEFINE w == SubSeq(es, 1, at - 1) \o new \o SubSeq(es, at, Len(es))
  <2>1. /\ w \in Seq(EntryOf(U)) /\ Len(w) = Len(es) + Len(new)
        /\ \A i \in 1 .. at - 1 : w[i] = es[i]
        /\ \A i \in at .. at + Len(new) - 1 : w[i] = new[i - at + 1]
        /\ \A i \in at + Len(new) .. Len(w) : w[i] = es[i - Len(new)]
    <3>1. es \in Seq(EntryOf(U)) /\ new \in Seq(EntryOf(U))
      BY <1>2, <1>4
    <3>2. QED
      BY <3>1, PutInIs
  <2>2. fs = w
    BY DEF new, e
  <2> HIDE DEF w
  <2>3. QED
    BY <1>4, <2>1, <2>2
<1>6. Listed(fs)
  BY <1>5 DEF Listed
<1>7. /\ g \in Seq({RowOf(es[n].key, f) : n \in 1 .. Len(es)}) /\ Len(g) = Len(es)
      /\ \A n \in 1 .. Len(es) : g[n] = RowOf(es[n].key, f)
  BY SheetIsSeq
<1>8. Len(k) = Len(fs) /\ \A n \in 1 .. Len(fs) : k[n] = RowOf(fs[n].key, f)
  BY <1>6, SheetIsSeq
<1>9. k = [n \in 1 .. Len(fs) |-> k[n]]
  BY DEF SheetOf
<1> HIDE DEF g, k
<1> DEFINE S == {RowOf(es[n].key, f) : n \in 1 .. Len(es)} \cup {BlankRow}
<1>10. g \in Seq(S) /\ BlankRow \in S
  <2>1. {RowOf(es[n].key, f) : n \in 1 .. Len(es)} \subseteq S
    OBVIOUS
  <2>2. QED
    BY <1>7, <2>1, WiderSeq
<1> HIDE DEF S
<1>11. blank \in Seq(S) /\ Len(blank) = count /\ \A i \in 1 .. count : blank[i] = BlankRow
  BY <1>10
<1> HIDE DEF blank
<1>12. /\ t \in Seq(S) /\ Len(t) = Len(g) + count
       /\ \A i \in 1 .. at - 1 : t[i] = g[i]
       /\ \A i \in at .. at + count - 1 : t[i] = blank[i - at + 1]
       /\ \A i \in at + count .. Len(t) : t[i] = g[i - count]
  <2>1. at \in 1 .. Len(g) + 1
    BY <1>7
  <2>2. /\ t \in Seq(S) /\ Len(t) = Len(g) + Len(blank)
        /\ \A i \in 1 .. at - 1 : t[i] = g[i]
        /\ \A i \in at .. at + Len(blank) - 1 : t[i] = blank[i - at + 1]
        /\ \A i \in at + Len(blank) .. Len(t) : t[i] = g[i - Len(blank)]
    <3>1. g \in Seq(S) /\ blank \in Seq(S)
      BY <1>10, <1>11
    <3>2. QED
      BY <2>1, <3>1, PutInIs
  <2>3. QED
    BY <1>11, <2>2
<1> HIDE DEF t
<1>13. t = [n \in 1 .. Len(t) |-> t[n]] /\ Len(t) = Len(fs)
  BY <1>5, <1>7, <1>12
<1>14. ASSUME NEW n \in 1 .. Len(fs) PROVE t[n] = k[n]
  <2>1. CASE n \in 1 .. at - 1
    <3>1. n \in 1 .. Len(es)
      BY <1>3, <2>1
    <3>2. QED
      BY <1>5, <1>7, <1>8, <1>12, <2>1, <3>1
  <2>2. CASE n \in at .. at + count - 1
    <3>1. n - at + 1 \in 1 .. count
      BY <1>3, <2>2
    <3>2. fs[n] = e /\ t[n] = BlankRow
      BY <1>4, <1>5, <1>11, <1>12, <2>2, <3>1
    <3>3. RowOf(Nil, f) = BlankRow
      BY DEF RowOf, BlankRow
    <3>4. fs[n].key = Nil
      BY <1>2, <3>2
    <3>5. QED
      BY <1>8, <3>2, <3>3, <3>4
  <2>3. CASE n \in at + count .. Len(fs)
    <3>1. n \in at + count .. Len(t) /\ n - count \in 1 .. Len(es)
      BY <1>3, <1>5, <1>13, <2>3
    <3>2. fs[n] = es[n - count] /\ t[n] = g[n - count]
      BY <1>5, <1>12, <2>3, <3>1
    <3>3. QED
      BY <1>7, <1>8, <3>1, <3>2
  <2>4. QED
    BY <1>3, <1>5, <2>1, <2>2, <2>3
<1>15. k = t
  BY <1>9, <1>13, <1>14
<1>16. count \in 1 .. Len(k) /\ at \in 1 .. Len(g) + 1
  <2>1. Len(k) = Len(es) + count /\ Len(g) = Len(es)
    BY <1>5, <1>7, <1>8
  <2>2. QED
    BY <1>3, <2>1
<1>17. RowsPut(g, k)
  BY <1>15, <1>16 DEF RowsPut, t, blank
<1>18. ASSUME NEW i \in at .. at + count - 1 PROVE fs[i].key = Nil
  <2>1. i - at + 1 \in 1 .. count
    BY <1>3
  <2>2. fs[i] = e
    BY <1>4, <1>5, <2>1
  <2>3. QED
    BY <1>2, <2>2
<1>19. BlankAt(es, fs, at, count)
  BY <1>5, <1>18 DEF BlankAt
<1>20. QED
  BY <1>6, <1>17, <1>19 DEF g, k

-----------------------------------------------------------------------------
(* The keys that are fetched are each there once.                          *)

LEMMA SortedIs ==
  ASSUME NEW keys \in SUBSET LuaKeys, NEW n \in 1 .. Cardinality(keys)
  PROVE  /\ Tree!Sorted(keys, n) \in keys
         /\ Cardinality({j \in keys : j < Tree!Sorted(keys, n)}) = n - 1
<1> DEFINE before(k) == {j \in keys : j < k}
           c == Cardinality(keys)
           f == [k \in keys |-> Cardinality(before(k)) + 1]
<1>1. IsFiniteSet(keys) /\ \A k \in keys : k \in Nat
  <2>1. IsFiniteSet(LuaKeys) /\ LuaKeys \subseteq Nat
    BY Assumptions DEF Tree!TreeAssumption, Tree!IsFiniteSet, IsFiniteSet
  <2>2. QED
    BY <2>1, FS_Subset
<1>2. ASSUME NEW k \in keys
      PROVE  /\ IsFiniteSet(before(k)) /\ Cardinality(before(k)) \in Nat
             /\ Cardinality(before(k)) + 1 <= c
  <2>1. IsFiniteSet(before(k)) /\ Cardinality(before(k)) \in Nat
    <3>1. before(k) \in SUBSET keys
      OBVIOUS
    <3> HIDE DEF before
    <3>2. QED
      BY <1>1, <3>1, FS_Subset, FS_CardinalityType
  <2>2. before(k) \in SUBSET (keys \ {k})
    BY <1>1
  <2>3. IsFiniteSet(keys \ {k}) /\ Cardinality(keys \ {k}) = c - 1
    BY <1>1, FS_RemoveElement
  <2> HIDE DEF before
  <2>4. Cardinality(before(k)) <= c - 1
    BY <2>2, <2>3, FS_Subset
  <2>5. c \in Nat
    BY <1>1, FS_CardinalityType
  <2>6. QED
    BY <2>1, <2>4, <2>5
<1>3. ASSUME NEW k \in keys, NEW l \in keys, k < l
      PROVE  Cardinality(before(k)) < Cardinality(before(l))
  <2>1. before(k) \in SUBSET (before(l) \ {k}) /\ k \in before(l)
    BY <1>1, <1>3
  <2> HIDE DEF before
  <2>2. IsFiniteSet(before(l) \ {k}) /\ Cardinality(before(l) \ {k}) = Cardinality(before(l)) - 1
    BY <1>2, <2>1, FS_RemoveElement
  <2>3. Cardinality(before(k)) <= Cardinality(before(l)) - 1
    BY <2>1, <2>2, FS_Subset
  <2>4. QED
    BY <1>2, <2>3
<1>4. c \in Nat
  BY <1>1, FS_CardinalityType
<1> HIDE DEF before, c
<1>5. f \in [keys -> 1 .. c]
  BY <1>2, <1>4
<1>6. ASSUME NEW k \in keys, NEW l \in keys, f[k] = f[l] PROVE k = l
  <2>1. Cardinality(before(k)) = Cardinality(before(l))
    BY <1>2, <1>6
  <2>2. ~ k < l /\ ~ l < k
    BY <1>2, <1>3, <2>1
  <2>3. QED
    BY <1>1, <2>2
<1>7. f \in Injection(keys, 1 .. c)
  BY <1>5, <1>6 DEF Injection, IsInjective
<1>8. f \in Surjection(keys, 1 .. c)
  <2>1. IsFiniteSet(1 .. c) /\ Cardinality(1 .. c) = c
    BY <1>4, FS_Interval
  <2> HIDE DEF f
  <2>2. QED
    BY <1>7, <2>1, FS_Injection DEF c
<1>9. \E k \in keys : f[k] = n
  BY <1>8 DEF Surjection, c
<1>10. \E k \in keys : Cardinality(before(k)) = n - 1
  <2>1. PICK k \in keys : f[k] = n
    BY <1>9
  <2>2. QED
    BY <1>2, <2>1
<1>11. Tree!Sorted(keys, n) = CHOOSE k \in keys : Cardinality(before(k)) = n - 1
  BY DEF Tree!Sorted, before, Tree!Cardinality, Cardinality
<1>12. /\ Tree!Sorted(keys, n) \in keys
       /\ Cardinality(before(Tree!Sorted(keys, n))) = n - 1
  BY <1>10, <1>11
<1>13. QED
  BY <1>12 DEF before

LEMMA FetchedOnce ==
  ASSUME NEW f
  PROVE  LET es == Tree!Fetched(f)
         IN  /\ Listed(es)
             /\ \A n \in 1 .. Len(es) : es[n].key \in LuaKeys
             /\ \A n, m \in 1 .. Len(es) : es[n].key = es[m].key => n = m
<1> DEFINE keys == {k \in LuaKeys : f[k] # Nil}
           c == Cardinality(keys)
           es == Tree!Fetched(f)
<1>1. Listed(es)
  BY FetchedIs DEF Listed
<1>2. es = [n \in 1 .. c |-> [key |-> Tree!Sorted(keys, n), table |-> 0, chk |-> FALSE]]
  BY DEF Tree!Fetched, Tree!Entry, Tree!NoNode, Tree!Cardinality, Cardinality
<1>3. c \in Nat
  <2>1. IsFiniteSet(LuaKeys)
    BY Assumptions DEF Tree!TreeAssumption, Tree!IsFiniteSet, IsFiniteSet
  <2>2. IsFiniteSet(keys)
    BY <2>1, FS_Subset
  <2>3. QED
    BY <2>2, FS_CardinalityType
<1>4. ASSUME NEW n \in 1 .. c
      PROVE  /\ Tree!Sorted(keys, n) \in keys
             /\ Cardinality({j \in keys : j < Tree!Sorted(keys, n)}) = n - 1
  <2>1. keys \in SUBSET LuaKeys
    OBVIOUS
  <2>2. n \in 1 .. Cardinality(keys)
    OBVIOUS
  <2> HIDE DEF keys, c
  <2>3. QED
    BY <2>1, <2>2, SortedIs
<1>5. keys \subseteq LuaKeys
  OBVIOUS
<1> HIDE DEF keys, c, es
<1>6. Len(es) = c
  BY <1>2, <1>3
<1>7. ASSUME NEW n \in 1 .. c PROVE es[n].key = Tree!Sorted(keys, n)
  <2>1. es[n] = [key |-> Tree!Sorted(keys, n), table |-> 0, chk |-> FALSE]
    BY <1>2
  <2>2. QED
    BY <2>1
<1>8. \A n \in 1 .. Len(es) : es[n].key \in LuaKeys
  BY <1>4, <1>5, <1>6, <1>7
<1>9. ASSUME NEW n \in 1 .. Len(es), NEW m \in 1 .. Len(es), es[n].key = es[m].key PROVE n = m
  <2>1. Tree!Sorted(keys, n) = Tree!Sorted(keys, m)
    BY <1>6, <1>7, <1>9
  <2>2. n - 1 = m - 1
    BY <1>4, <1>6, <2>1
  <2>3. QED
    BY <1>3, <1>6, <2>2
<1>10. QED
  BY <1>1, <1>8, <1>9 DEF es

-----------------------------------------------------------------------------
(* The top of the tree.                                                    *)

(* The root shows the table at the top, with each key once, and no other   *)
(* node does.                                                              *)
Held(ns) ==
  /\ ns[1].value = Top
  /\ \A i \in DOMAIN ns \ {1} : ns[i].value \in Nested
  /\ \A n \in 1 .. Len(ns[1].entries) : ns[1].entries[n].key \in LuaKeys \cup {Nil}
  /\ \A n, m \in 1 .. Len(ns[1].entries) :
       ns[1].entries[n].key = ns[1].entries[m].key /\ ns[1].entries[n].key # Nil => n = m

(* ms shows the same keys at the top as ns.                                *)
Similar(ns, ms) ==
  /\ ms[1].value = ns[1].value
  /\ \A i \in DOMAIN ms \ {1} : ms[i].value \in Nested
  /\ Len(ms[1].entries) = Len(ns[1].entries)
  /\ \A n \in 1 .. Len(ns[1].entries) : ms[1].entries[n].key = ns[1].entries[n].key

LEMMA RootListed ==
  ASSUME NEW ns, Whole(ns), NEW i \in DOMAIN ns
  PROVE  /\ Listed(ns[i].entries) /\ Len(ns[i].entries) \in Nat
         /\ DOMAIN ns[i].entries = 1 .. Len(ns[i].entries)
<1>1. PICK U : ns \in [DOMAIN ns -> NodeOf(U)]
  BY DEF Whole, Typed
<1>2. ns[i].entries \in Seq(EntryOf(U))
  BY <1>1 DEF NodeOf
<1>3. QED
  BY <1>2 DEF Listed

LEMMA SimilarHeld ==
  ASSUME NEW ns, Held(ns), NEW ms, Similar(ns, ms)
  PROVE  Held(ms)
BY DEF Held, Similar

LEMMA SimilarTwice ==
  ASSUME NEW ns, NEW ms, NEW ls, Similar(ns, ms), Similar(ms, ls)
  PROVE  Similar(ns, ls)
BY DEF Similar

LEMMA SimilarSame ==
  ASSUME NEW ns, Held(ns)
  PROVE  Similar(ns, ns)
BY DEF Held, Similar

LEMMA EntryIs ==
  ASSUME NEW ns, Whole(ns), NEW t \in DOMAIN ns, NEW n \in 1 .. Len(ns[t].entries), NEW e
  PROVE  LET ms == [ns EXCEPT ![t].entries[n] = e]
         IN  /\ DOMAIN ms = DOMAIN ns
             /\ \A i \in DOMAIN ns : /\ ms[i].value = ns[i].value
                                     /\ Len(ms[i].entries) = Len(ns[i].entries)
             /\ \A i \in DOMAIN ns : \A m \in 1 .. Len(ns[i].entries) :
                  ms[i].entries[m] = IF i = t /\ m = n THEN e ELSE ns[i].entries[m]
<1> DEFINE ms == [ns EXCEPT ![t].entries[n] = e]
           s == [ns[t].entries EXCEPT ![n] = e]
<1>1. PICK U : ns \in [DOMAIN ns -> NodeOf(U)]
  BY DEF Whole, Typed
<1>2. ns[t].entries \in Seq(EntryOf(U))
  BY <1>1 DEF NodeOf
<1>3. /\ DOMAIN ms = DOMAIN ns
      /\ \A i \in DOMAIN ns : ms[i].value = ns[i].value
      /\ \A i \in DOMAIN ns \ {t} : ms[i] = ns[i]
      /\ ms[t].entries = s
  BY <1>1 DEF NodeOf
<1>4. /\ Len(s) = Len(ns[t].entries)
      /\ \A m \in 1 .. Len(ns[t].entries) : s[m] = IF m = n THEN e ELSE ns[t].entries[m]
  BY <1>2
<1> HIDE DEF ms, s
<1>5. \A i \in DOMAIN ns : Len(ms[i].entries) = Len(ns[i].entries)
  BY <1>3, <1>4
<1>6. ASSUME NEW i \in DOMAIN ns, NEW m \in 1 .. Len(ns[i].entries)
      PROVE  ms[i].entries[m] = IF i = t /\ m = n THEN e ELSE ns[i].entries[m]
  <2>1. CASE i = t
    BY <1>3, <1>4, <2>1
  <2>2. CASE i # t
    BY <1>3, <2>2
  <2>3. QED
    BY <2>1, <2>2
<1>7. QED
  BY <1>3, <1>5, <1>6 DEF ms

LEMMA EntrySimilar ==
  ASSUME NEW ns, Whole(ns), Held(ns), NEW t \in DOMAIN ns, NEW n \in 1 .. Len(ns[t].entries),
         NEW e, t = 1 => e.key = ns[t].entries[n].key
  PROVE  Similar(ns, [ns EXCEPT ![t].entries[n] = e])
<1>1. 1 \in DOMAIN ns
  BY DEF Whole, Typed
<1>2. QED
  BY <1>1, EntryIs DEF Similar, Held

LEMMA CheckedSimilar ==
  ASSUME NEW ns, Whole(ns), Held(ns), NEW t \in DOMAIN ns, NEW n \in 1 .. Len(ns[t].entries), NEW b
  PROVE  Similar(ns, [ns EXCEPT ![t].entries[n].chk = b])
<1>1. PICK U : ns[t].entries[n] \in EntryOf(U)
  BY EntryTyped
<1> DEFINE e == [ns[t].entries[n] EXCEPT !.chk = b]
<1>2. e.key = ns[t].entries[n].key
  BY <1>1 DEF EntryOf
<1> HIDE DEF e
<1>3. Similar(ns, [ns EXCEPT ![t].entries[n] = e])
  BY <1>2, EntrySimilar
<1>4. QED
  BY <1>3 DEF e

LEMMA UpdatedSimilar ==
  ASSUME NEW ns, Whole(ns), Held(ns), NEW t \in DOMAIN ns \ {1}
  PROVE  Similar(ns, Tree!update(t, ns))
<1>1. CASE ns[t].entries # <<>>
  BY <1>1, SimilarSame DEF Tree!update
<1>2. CASE ns[t].entries = <<>>
  <2> DEFINE F == Tree!Fetched(content[ns[t].value])
             ms == [ns EXCEPT ![t].entries = F]
  <2>1. Tree!update(t, ns) = ms
    BY <1>2 DEF Tree!update
  <2> HIDE DEF F
  <2>2. PICK U : ns \in [DOMAIN ns -> NodeOf(U)] /\ 1 \in DOMAIN ns
    BY DEF Whole, Typed
  <2>3. /\ DOMAIN ms = DOMAIN ns
        /\ \A i \in DOMAIN ns : ms[i].value = ns[i].value
        /\ ms[1] = ns[1]
    BY <2>2 DEF NodeOf
  <2> HIDE DEF ms
  <2>4. Similar(ns, ms)
    BY <2>3 DEF Similar, Held
  <2>5. QED
    BY <2>1, <2>4
<1>3. QED
  BY <1>1, <1>2

LEMMA AddedSimilar ==
  ASSUME NEW ns, Whole(ns), Held(ns), NEW t \in DOMAIN ns, NEW n \in 1 .. Len(ns[t].entries),
         NEW v \in Nested, NEW new, new \notin DOMAIN ns
  PROVE  Similar(ns, WithNode(ns, t, n, v, new))
<1> DEFINE checked == [ns EXCEPT ![t].entries[n].chk = TRUE]
           fs == [checked EXCEPT ![t].entries[n].table = new]
           node == [value |-> v, parent |-> t, row |-> n, entries |-> <<>>]
           ms == [i \in DOMAIN ns \cup {new} |-> IF i = new THEN node ELSE fs[i]]
           ec == [ns[t].entries[n] EXCEPT !.chk = TRUE]
           e == [ec EXCEPT !.table = new]
<1>1. PICK U : ns \in [DOMAIN ns -> NodeOf(U)] /\ 1 \in DOMAIN ns
  BY DEF Whole, Typed
<1>2. ns[t].entries \in Seq(EntryOf(U)) /\ ns[t].entries[n] \in EntryOf(U)
  BY <1>1 DEF NodeOf
<1>3. fs = [ns EXCEPT ![t].entries[n] = e]
  <2>1. FieldByField(ns, t, n, new) = FieldsAtOnce(ns, t, n, new)
    BY <1>1, EntryTwice
  <2>2. FieldByField(ns, t, n, new) = fs
    BY DEF FieldByField
  <2>3. FieldsAtOnce(ns, t, n, new) = [ns EXCEPT ![t].entries[n] = e]
    BY DEF FieldsAtOnce
  <2>4. QED
    BY <2>1, <2>2, <2>3
<1>4. e.key = ns[t].entries[n].key
  BY <1>2 DEF EntryOf
<1> HIDE DEF fs, e, ec, checked
<1>5. Similar(ns, fs) /\ DOMAIN fs = DOMAIN ns
  <2>1. Similar(ns, [ns EXCEPT ![t].entries[n] = e])
    BY <1>4, EntrySimilar
  <2>2. QED
    BY <1>1, <1>3, <2>1
<1>6. node.value = v
  OBVIOUS
<1> HIDE DEF node
<1>7. ms[1] = fs[1] /\ DOMAIN ms = DOMAIN ns \cup {new} /\ \A i \in DOMAIN ms : ms[i] = IF i = new THEN node ELSE fs[i]
  BY <1>1
<1> HIDE DEF ms
<1>8. Similar(ns, ms)
  BY <1>5, <1>6, <1>7 DEF Similar
<1>9. QED
  BY <1>8 DEF WithNode, ms, node, fs, checked

-----------------------------------------------------------------------------
(* The steps of the tree.                                                  *)

TableHeld(c) == Top \in DOMAIN c /\ DOMAIN c[Top] = LuaKeys

SheetInv == TreeInv /\ Held(nodes) /\ TableHeld(content)

SheetAt(ns, c) == SheetOf(ns[1].entries, c[Top])

\* The tree after a step still shows the table, and that was a step of a sheet.
GoesOn ==
  Held(nodes') /\ TableHeld(content') /\ SheetStep(SheetAt(nodes, content), SheetAt(nodes', content'))

LEMMA KeysKept ==
  ASSUME SheetInv, TreeInv', TableHeld(content'), Similar(nodes, nodes'),
         \A n \in 1 .. Len(nodes[1].entries) : Agree(nodes[1].entries[n].key, content[Top], content'[Top])
  PROVE  GoesOn
<1>1. Held(nodes')
  BY SimilarHeld DEF SheetInv
<1>2. Listed(nodes[1].entries) /\ Listed(nodes'[1].entries)
  BY RootListed DEF SheetInv, TreeInv, Whole, Typed
<1>3. SheetAt(nodes, content) = SheetAt(nodes', content')
  BY <1>2, SameSheet DEF SheetAt, Similar
<1>4. QED
  BY <1>1, <1>3 DEF GoesOn, SheetStep

LEMMA KeysAndTableKept ==
  ASSUME SheetInv, TreeInv', content' = content, Similar(nodes, nodes')
  PROVE  GoesOn
<1>1. TableHeld(content')
  BY DEF SheetInv
<1>2. \A n \in 1 .. Len(nodes[1].entries) : Agree(nodes[1].entries[n].key, content[Top], content'[Top])
  BY DEF Agree
<1>3. QED
  BY <1>1, <1>2, KeysKept

LEMMA TopLookedAt ==
  ASSUME SheetInv, TreeInv', Tree!LookAtTop
  PROVE  GoesOn
<1>1. nodes' = Tree!update(1, nodes) /\ content' = content /\ Whole(nodes) /\ 1 \in DOMAIN nodes
  BY DEF Tree!LookAtTop, Tree!Root, SheetInv, TreeInv, Whole, Typed
<1>2. CASE nodes[1].entries # <<>>
  <2>1. nodes' = nodes
    BY <1>1, <1>2 DEF Tree!update
  <2>2. QED
    BY <1>1, <2>1, SimilarSame, KeysAndTableKept DEF SheetInv
<1>3. CASE nodes[1].entries = <<>>
  <2> DEFINE F == Tree!Fetched(content[nodes[1].value])
  <2>1. nodes' = [nodes EXCEPT ![1].entries = F]
    BY <1>1, <1>3 DEF Tree!update
  <2>2. /\ Listed(F)
        /\ \A n \in 1 .. Len(F) : F[n].key \in LuaKeys
        /\ \A n, m \in 1 .. Len(F) : F[n].key = F[m].key => n = m
    BY FetchedOnce
  <2> HIDE DEF F
  <2>3. PICK U : nodes \in [DOMAIN nodes -> NodeOf(U)]
    BY <1>1 DEF Whole, Typed
  <2>4. /\ DOMAIN nodes' = DOMAIN nodes /\ nodes'[1].value = nodes[1].value /\ nodes'[1].entries = F
        /\ \A i \in DOMAIN nodes \ {1} : nodes'[i] = nodes[i]
    BY <1>1, <2>1, <2>3 DEF NodeOf
  <2>5. Held(nodes')
    BY <2>2, <2>4 DEF Held, SheetInv
  <2>6. SheetAt(nodes, content) = <<>>
    BY <1>3 DEF SheetAt, SheetOf
  <2>7. QED
    BY <1>1, <2>5, <2>6 DEF GoesOn, SheetStep, SheetInv
<1>4. QED
  BY <1>2, <1>3

LEMMA SheetReset ==
  ASSUME SheetInv, TreeInv', Tree!Update
  PROVE  GoesOn
<1> DEFINE es == nodes[1].entries
<1>1. Listed(es) /\ Len(es) \in Nat /\ 1 \in DOMAIN nodes
  BY RootListed DEF SheetInv, TreeInv, Whole, Typed
<1>2. PICK U : es \in Seq(EntryOf(U)) /\ nodes[1] \in NodeOf(U)
  BY DEF SheetInv, TreeInv, Whole, Typed, NodeOf
<1>3. nodes' = [i \in {1} |-> [nodes[1] EXCEPT !.entries = <<>>]] /\ content' = content
  BY DEF Tree!Update, Tree!Root
<1>4. DOMAIN nodes' = {1} /\ nodes'[1].value = nodes[1].value /\ nodes'[1].entries = <<>>
  BY <1>2, <1>3 DEF NodeOf
<1>5. Held(nodes') /\ TableHeld(content')
  BY <1>3, <1>4 DEF SheetInv, Held
<1>6. SheetAt(nodes, content) = SheetOf(es, content[Top])
  BY DEF SheetAt
<1>7. SheetAt(nodes', content') = SheetOf(<<>>, content[Top])
  BY <1>3, <1>4 DEF SheetAt
<1>8. CASE es = <<>>
  BY <1>5, <1>6, <1>7, <1>8 DEF GoesOn, SheetStep
<1>9. CASE es # <<>>
  <2> DEFINE count == Len(es)
             fs == SubSeq(es, 1, 1 - 1) \o SubSeq(es, 1 + count, Len(es))
  <2>1. 1 \in 1 .. Len(es) /\ count \in Nat \ {0} /\ 1 + count <= Len(es) + 1
    BY <1>2, <1>9
  <2>2. fs \in Seq(EntryOf(U)) /\ Len(fs) = Len(es) - count
    BY <1>2, <2>1, TakenOutIs
  <2>3. \A n \in 1 .. Len(es) : n \notin 1 .. 1 + count - 1 => Agree(es[n].key, content[Top], content[Top])
    BY DEF Agree
  <2>4. RowsOut(SheetOf(es, content[Top]), SheetOf(fs, content[Top]))
    <3>1. fs = SubSeq(es, 1, 1 - 1) \o SubSeq(es, 1 + count, Len(es))
      OBVIOUS
    <3> HIDE DEF count, fs
    <3>2. QED
      BY <1>1, <2>1, <2>3, <3>1, SheetRowsOut
  <2>5. fs = <<>>
    <3> HIDE DEF fs
    <3>1. QED
      BY <1>1, <2>2
  <2>6. QED
    BY <1>5, <1>6, <1>7, <2>4, <2>5 DEF GoesOn, SheetStep
<1>10. QED
  BY <1>8, <1>9

LEMMA SheetLooked ==
  ASSUME SheetInv, TreeInv', NEW t \in DOMAIN nodes, NEW n \in Tree!Rows(t), NEW fetch,
         Tree!Look(t, n, fetch)
  PROVE  GoesOn
<1> DEFINE e == nodes[t].entries[n]
           v == Tree!ValueIn(content, t, n)
           checked == [nodes EXCEPT ![t].entries[n].chk = TRUE]
           added == WithNode(nodes, t, n, v, NewId)
           s == Tree!set_table(t, n, nodes)
<1>1. /\ n \in 1 .. Len(nodes[t].entries) /\ Whole(nodes) /\ Held(nodes) /\ RowWhole(nodes, t, n)
      /\ 1 \in DOMAIN nodes
  BY TreeRows DEF SheetInv, TreeInv, Whole, Typed
<1>2. NewId \in Tree!Ids /\ NewId \notin DOMAIN nodes
  BY NewIdIs DEF Tree!Look, SheetInv
<1>3. s = IF e.chk THEN [ns |-> nodes, res |-> e.table]
          ELSE IF v \notin Nested THEN [ns |-> checked, res |-> 0]
          ELSE [res |-> NewId, ns |-> added]
  BY DEF WithNode, Tree!set_table, Tree!NoNode, NewId
<1>4. Whole(s.ns) /\ Similar(nodes, s.ns) /\ (s.res # 0 => s.res \in DOMAIN s.ns \ {1})
  <2>1. CASE e.chk
    <3>1. s.ns = nodes /\ s.res = e.table
      BY <1>3, <2>1
    <3>2. QED
      BY <1>1, <3>1, SimilarSame DEF RowWhole
  <2>2. CASE ~ e.chk /\ v \notin Nested
    <3>1. s.ns = checked /\ s.res = 0
      BY <1>3, <2>2
    <3>2. Whole(checked) /\ Similar(nodes, checked)
      BY <1>1, Checked, CheckedSimilar
    <3> HIDE DEF checked, s
    <3>3. QED
      BY <3>1, <3>2
  <2>3. CASE ~ e.chk /\ v \in Nested
    <3>1. e.table = 0
      BY <1>1, <2>3 DEF RowWhole
    <3>2. NewId \in DOMAIN added
      BY DEF WithNode
    <3>3. Whole(added)
      BY <1>1, <1>2, <3>1, NodeAdded
    <3>4. Similar(nodes, added)
      <4>1. v \in Nested
        BY <2>3
      <4> HIDE DEF v
      <4>2. QED
        BY <1>1, <1>2, <4>1, AddedSimilar
    <3> HIDE DEF v, checked, added, s
    <3>5. s.ns = added /\ s.res = NewId
      BY <1>3, <2>3
    <3>6. QED
      BY <1>1, <1>2, <3>2, <3>3, <3>4, <3>5
  <2>4. QED
    BY <2>1, <2>2, <2>3
<1> HIDE DEF s
<1>5. nodes' = (IF fetch /\ s.res # 0 THEN Tree!update(s.res, s.ns) ELSE s.ns) /\ content' = content
  BY DEF Tree!Look, Tree!NoNode, s
<1>6. Held(s.ns)
  BY <1>1, <1>4, SimilarHeld
<1>7. Similar(nodes, nodes')
  <2>1. CASE fetch /\ s.res # 0
    <3>1. Similar(s.ns, Tree!update(s.res, s.ns))
      BY <1>4, <1>6, <2>1, UpdatedSimilar
    <3>2. QED
      BY <1>4, <1>5, <2>1, <3>1, SimilarTwice
  <2>2. CASE ~ (fetch /\ s.res # 0)
    BY <1>4, <1>5, <2>2
  <2>3. QED
    BY <2>1, <2>2
<1>8. QED
  BY <1>5, <1>7, KeysAndTableKept

LEMMA MovedIs ==
  ASSUME TreeInv, NEW t \in DOMAIN nodes, NEW at \in Nat, NEW count \in Int
  PROVE  LET mv == Tree!Moved(nodes, t, at, count)
         IN  /\ DOMAIN mv = DOMAIN nodes
             /\ \A i \in DOMAIN nodes : /\ DOMAIN mv[i] = DOMAIN nodes[i]
                                        /\ mv[i].value = nodes[i].value /\ mv[i].entries = nodes[i].entries
             /\ \A i \in DOMAIN nodes : {"value", "entries"} \subseteq DOMAIN nodes[i]
<1>1. PICK U : nodes \in [DOMAIN nodes -> NodeOf(U)]
  BY DEF TreeInv, Whole, Typed
<1> DEFINE mv == Tree!Moved(nodes, t, at, count)
<1>2. /\ DOMAIN mv = DOMAIN nodes
      /\ \A i \in DOMAIN nodes :
           mv[i] = IF i # 1 /\ nodes[i].parent = t /\ nodes[i].row >= at
                   THEN [nodes[i] EXCEPT !.row = @ + count] ELSE nodes[i]
  BY TailIs
<1> HIDE DEF mv
<1>3. ASSUME NEW i \in DOMAIN nodes
      PROVE  /\ DOMAIN mv[i] = DOMAIN nodes[i]
             /\ mv[i].value = nodes[i].value /\ mv[i].entries = nodes[i].entries
             /\ {"value", "entries"} \subseteq DOMAIN nodes[i]
  <2>1. nodes[i] \in NodeOf(U)
    BY <1>1
  <2>2. QED
    BY <1>2, <2>1 DEF NodeOf
<1>4. QED
  BY <1>2, <1>3 DEF mv

LEMMA InsertedIs ==
  ASSUME TreeInv, NEW t \in DOMAIN nodes, NEW at \in Nat, NEW count \in Nat, Tree!insertRows(t, at, count)
  PROVE  /\ at \in 1 .. Len(nodes[t].entries) + 1
         /\ DOMAIN nodes' = DOMAIN nodes /\ content' = content
         /\ \A i \in DOMAIN nodes : nodes'[i].value = nodes[i].value
         /\ \A i \in DOMAIN nodes \ {t} : nodes'[i].entries = nodes[i].entries
         /\ nodes'[t].entries = SubSeq(nodes[t].entries, 1, at - 1) \o [i \in 1 .. count |-> Tree!Entry(Nil)]
                                  \o SubSeq(nodes[t].entries, at, Len(nodes[t].entries))
<1> DEFINE mv == Tree!Moved(nodes, t, at, count)
           S(s) == SubSeq(s, 1, at - 1) \o [i \in 1 .. count |-> Tree!Entry(Nil)] \o SubSeq(s, at, Len(s))
<1>1. /\ DOMAIN mv = DOMAIN nodes
      /\ \A i \in DOMAIN nodes : /\ DOMAIN mv[i] = DOMAIN nodes[i]
                                 /\ mv[i].value = nodes[i].value /\ mv[i].entries = nodes[i].entries
      /\ \A i \in DOMAIN nodes : {"value", "entries"} \subseteq DOMAIN nodes[i]
  <2>1. count \in Int
    OBVIOUS
  <2>2. QED
    BY <2>1, MovedIs
<1>2. /\ nodes' = [mv EXCEPT ![t].entries = S(@)]
      /\ at \in 1 .. Len(nodes[t].entries) + 1 /\ content' = content
  BY DEF Tree!insertRows
<1> HIDE DEF mv, S
<1>3. /\ DOMAIN nodes' = DOMAIN nodes
      /\ \A i \in DOMAIN nodes \ {t} : nodes'[i] = mv[i]
      /\ nodes'[t] = [mv[t] EXCEPT !.entries = S(mv[t].entries)]
  BY <1>1, <1>2
<1>4. /\ \A i \in DOMAIN nodes \ {t} : nodes'[i].entries = nodes[i].entries
      /\ \A i \in DOMAIN nodes \ {t} : nodes'[i].value = nodes[i].value
  BY <1>1, <1>3
<1>5. nodes'[t].value = nodes[t].value /\ nodes'[t].entries = S(nodes[t].entries)
  BY <1>1, <1>3
<1>6. \A i \in DOMAIN nodes : nodes'[i].value = nodes[i].value
  BY <1>4, <1>5
<1>7. QED
  BY <1>2, <1>3, <1>4, <1>5, <1>6 DEF S

LEMMA RemovedIs ==
  ASSUME TreeInv, NEW t \in DOMAIN nodes, NEW at \in Nat \ {0}, NEW count \in Nat \ {0},
         Tree!removeRows(t, at, count)
  PROVE  /\ at \in 1 .. Len(nodes[t].entries) /\ at + count <= Len(nodes[t].entries) + 1
         /\ DOMAIN nodes' \subseteq DOMAIN nodes
         /\ \A i \in DOMAIN nodes' : nodes'[i].value = nodes[i].value
         /\ \A i \in DOMAIN nodes' \ {t} : nodes'[i].entries = nodes[i].entries
         /\ t \in DOMAIN nodes' =>
              nodes'[t].entries = SubSeq(nodes[t].entries, 1, at - 1)
                                    \o SubSeq(nodes[t].entries, at + count, Len(nodes[t].entries))
<1> DEFINE mv == Tree!Moved(nodes, t, at + count, -count)
           D == UNION {Tree!Below(Tree!Child(t, n)) : n \in at .. at + count - 1}
           left == [i \in DOMAIN nodes \ D |-> mv[i]]
           S(s) == SubSeq(s, 1, at - 1) \o SubSeq(s, at + count, Len(s))
<1>1. /\ DOMAIN mv = DOMAIN nodes
      /\ \A i \in DOMAIN nodes : /\ DOMAIN mv[i] = DOMAIN nodes[i]
                                 /\ mv[i].value = nodes[i].value /\ mv[i].entries = nodes[i].entries
      /\ \A i \in DOMAIN nodes : {"value", "entries"} \subseteq DOMAIN nodes[i]
  <2>1. at + count \in Nat /\ -count \in Int
    OBVIOUS
  <2>2. QED
    BY <2>1, MovedIs
<1>2. nodes' = [left EXCEPT ![t].entries = S(@)]
  BY DEF Tree!removeRows
<1>3. at \in 1 .. Len(nodes[t].entries) /\ at + count <= Len(nodes[t].entries) + 1
  <2>1. at + count - 1 \in 1 .. Len(nodes[t].entries) /\ Len(nodes[t].entries) \in Nat
    BY TreeRows DEF Tree!removeRows
  <2>2. QED
    BY <2>1
<1> HIDE DEF mv, D, S
<1>4. DOMAIN left = DOMAIN nodes \ D /\ \A i \in DOMAIN nodes \ D : left[i] = mv[i]
  OBVIOUS
<1> HIDE DEF left
<1>5. /\ DOMAIN nodes' = DOMAIN nodes \ D
      /\ \A i \in DOMAIN nodes' \ {t} : nodes'[i] = mv[i]
      /\ t \in DOMAIN nodes' => nodes'[t] = [mv[t] EXCEPT !.entries = S(mv[t].entries)]
  BY <1>2, <1>4
<1>6. /\ \A i \in DOMAIN nodes' \ {t} : nodes'[i].entries = nodes[i].entries
      /\ \A i \in DOMAIN nodes' \ {t} : nodes'[i].value = nodes[i].value
  BY <1>1, <1>5
<1>7. t \in DOMAIN nodes' => nodes'[t].value = nodes[t].value /\ nodes'[t].entries = S(nodes[t].entries)
  BY <1>1, <1>5
<1>8. \A i \in DOMAIN nodes' : nodes'[i].value = nodes[i].value
  BY <1>6, <1>7
<1>9. DOMAIN nodes' \subseteq DOMAIN nodes
  BY <1>5
<1>10. QED
  BY <1>3, <1>6, <1>7, <1>8, <1>9 DEF S

LEMMA SheetInserted ==
  ASSUME SheetInv, TreeInv', NEW t \in DOMAIN nodes, NEW at \in Nat, NEW count \in Nat \ {0},
         Tree!insertRows(t, at, count)
  PROVE  GoesOn
<1> DEFINE es == nodes[1].entries
           fs == SubSeq(es, 1, at - 1) \o [i \in 1 .. count |-> Tree!Entry(Nil)] \o SubSeq(es, at, Len(es))
<1>1. Whole(nodes) /\ Held(nodes) /\ 1 \in DOMAIN nodes
  BY DEF SheetInv, TreeInv, Whole, Typed
<1>2. /\ at \in 1 .. Len(nodes[t].entries) + 1
      /\ DOMAIN nodes' = DOMAIN nodes /\ content' = content
      /\ \A i \in DOMAIN nodes : nodes'[i].value = nodes[i].value
      /\ \A i \in DOMAIN nodes \ {t} : nodes'[i].entries = nodes[i].entries
      /\ t = 1 => nodes'[1].entries = fs
  <2>1. count \in Nat /\ TreeInv
    BY DEF SheetInv
  <2>2. /\ at \in 1 .. Len(nodes[t].entries) + 1
        /\ DOMAIN nodes' = DOMAIN nodes /\ content' = content
        /\ \A i \in DOMAIN nodes : nodes'[i].value = nodes[i].value
        /\ \A i \in DOMAIN nodes \ {t} : nodes'[i].entries = nodes[i].entries
        /\ nodes'[t].entries = SubSeq(nodes[t].entries, 1, at - 1) \o [i \in 1 .. count |-> Tree!Entry(Nil)]
                                 \o SubSeq(nodes[t].entries, at, Len(nodes[t].entries))
    BY <2>1, InsertedIs
  <2>3. t = 1 => nodes'[1].entries = fs
    BY <2>2
  <2> HIDE DEF fs
  <2>4. QED
    BY <2>2, <2>3
<1>3. CASE t # 1
  <2>1. Similar(nodes, nodes')
    BY <1>1, <1>2, <1>3 DEF Similar, Held
  <2>2. QED
    BY <1>2, <2>1, KeysAndTableKept
<1>4. CASE t = 1
  <2>1. Listed(es) /\ Len(es) \in Nat /\ at \in 1 .. Len(es) + 1
    BY <1>1, <1>2, <1>4, RootListed
  <2>2. BlankAt(es, fs, at, count) /\ RowsPut(SheetOf(es, content[Top]), SheetOf(fs, content[Top]))
    <3>1. fs = SubSeq(es, 1, at - 1) \o [i \in 1 .. count |-> Tree!Entry(Nil)] \o SubSeq(es, at, Len(es))
      OBVIOUS
    <3> HIDE DEF es, fs
    <3>2. QED
      BY <2>1, <3>1, SheetRowsPut
  <2> HIDE DEF fs, es
  <2> DEFINE from(i) == IF i < at THEN i ELSE i - count
  <2>3. ASSUME NEW i \in 1 .. Len(fs), fs[i].key # Nil
        PROVE  from(i) \in 1 .. Len(es) /\ fs[i] = es[from(i)] /\ ~ (i \in at .. at + count - 1)
    BY <2>1, <2>2, <2>3 DEF BlankAt
  <2>4. /\ \A n \in 1 .. Len(es) : es[n].key \in LuaKeys \cup {Nil}
        /\ \A n, m \in 1 .. Len(es) : es[n].key = es[m].key /\ es[n].key # Nil => n = m
    BY <1>1 DEF Held, es
  <2>5. \A n \in 1 .. Len(fs) : fs[n].key \in LuaKeys \cup {Nil}
    BY <2>3, <2>4
  <2>6. ASSUME NEW n \in 1 .. Len(fs), NEW m \in 1 .. Len(fs), fs[n].key = fs[m].key, fs[n].key # Nil
         PROVE  n = m
    <3>1. from(n) = from(m)
      <4> HIDE DEF from
      <4>1. QED
        BY <2>3, <2>4, <2>6
    <3>2. ~ (n \in at .. at + count - 1) /\ ~ (m \in at .. at + count - 1)
      BY <2>3, <2>6
    <3>3. QED
      BY <2>1, <2>2, <3>1, <3>2 DEF BlankAt
  <2>7. nodes'[1].entries = fs
    BY <1>2, <1>4
  <2>8. Held(nodes')
    BY <1>1, <1>2, <2>5, <2>6, <2>7 DEF Held
  <2>9. QED
    BY <1>2, <2>2, <2>7, <2>8 DEF GoesOn, SheetStep, SheetAt, SheetInv, es
<1>5. QED
  BY <1>3, <1>4

LEMMA SheetRemoved ==
  ASSUME SheetInv, Top \notin Nested, TreeInv', NEW t \in DOMAIN nodes, NEW at \in Nat \ {0},
         NEW count \in Nat \ {0}, Tree!removeRows(t, at, count)
  PROVE  GoesOn
<1> DEFINE es == nodes[1].entries
           f == nodes[t].value
           gone == at .. at + count - 1
           fs == SubSeq(es, 1, at - 1) \o SubSeq(es, at + count, Len(es))
<1>1. /\ Whole(nodes) /\ Held(nodes) /\ 1 \in DOMAIN nodes /\ 1 \in DOMAIN nodes' /\ TreeInv
      /\ Listed(es) /\ Len(es) \in Nat
  BY RootListed DEF SheetInv, TreeInv, Whole, Typed
<1>2. /\ at \in 1 .. Len(nodes[t].entries) /\ at + count <= Len(nodes[t].entries) + 1
      /\ DOMAIN nodes' \subseteq DOMAIN nodes
      /\ \A i \in DOMAIN nodes' : nodes'[i].value = nodes[i].value
      /\ \A i \in DOMAIN nodes' \ {t} : nodes'[i].entries = nodes[i].entries
      /\ t \in DOMAIN nodes' =>
           nodes'[t].entries = SubSeq(nodes[t].entries, 1, at - 1)
                                 \o SubSeq(nodes[t].entries, at + count, Len(nodes[t].entries))
  BY <1>1, RemovedIs
<1>3. content' = [content EXCEPT ![f] =
                    [k \in LuaKeys |-> IF \E n \in gone : nodes[t].entries[n].key = k THEN Nil ELSE @[k]]]
  BY DEF Tree!removeRows, Tree!Key
<1> HIDE DEF gone
<1>4. TableHeld(content) /\ (f = Top <=> t = 1)
  BY <1>1 DEF SheetInv, Held
<1>5. TableHeld(content')
  BY <1>3, <1>4 DEF TableHeld
<1>6. CASE t # 1
  <2>1. Similar(nodes, nodes')
    BY <1>1, <1>2, <1>6 DEF Similar, Held
  <2>2. content'[Top] = content[Top]
    BY <1>3, <1>4, <1>6 DEF TableHeld
  <2>3. \A n \in 1 .. Len(nodes[1].entries) : Agree(nodes[1].entries[n].key, content[Top], content'[Top])
    BY <2>2 DEF Agree
  <2>4. QED
    BY <1>5, <2>1, <2>3, KeysKept
<1>7. CASE t = 1
  <2>1. /\ at \in 1 .. Len(es) /\ at + count <= Len(es) + 1
        /\ nodes'[1].entries = fs
    BY <1>1, <1>2, <1>7
  <2>2. /\ \A n \in 1 .. Len(es) : es[n].key \in LuaKeys \cup {Nil}
        /\ \A n, m \in 1 .. Len(es) : es[n].key = es[m].key /\ es[n].key # Nil => n = m
    BY <1>1 DEF Held
  <2>3. ASSUME NEW k \in LuaKeys PROVE content'[Top][k] = IF \E n \in gone : es[n].key = k THEN Nil ELSE content[Top][k]
    BY <1>3, <1>4, <1>7 DEF TableHeld
  <2> HIDE DEF es
  <2>4. ASSUME NEW n \in 1 .. Len(es), n \notin gone PROVE Agree(es[n].key, content[Top], content'[Top])
    <3>1. CASE es[n].key = Nil
      BY <3>1 DEF Agree
    <3>2. CASE es[n].key # Nil
      <4>1. \A m \in gone : es[m].key # es[n].key
        BY <1>1, <2>1, <2>2, <2>4, <3>2 DEF gone
      <4>2. es[n].key \in LuaKeys
        BY <2>2, <3>2
      <4>3. QED
        BY <2>3, <4>1, <4>2 DEF Agree
    <3>3. QED
      BY <3>1, <3>2
  <2>5. GoneAt(es, fs, at, count) /\ RowsOut(SheetOf(es, content[Top]), SheetOf(fs, content'[Top]))
    <3>1. \A n \in 1 .. Len(es) : n \notin at .. at + count - 1 => Agree(es[n].key, content[Top], content'[Top])
      BY <2>4 DEF gone
    <3>2. fs = SubSeq(es, 1, at - 1) \o SubSeq(es, at + count, Len(es))
      OBVIOUS
    <3> HIDE DEF fs
    <3>3. QED
      BY <1>1, <2>1, <3>1, <3>2, SheetRowsOut
  <2> HIDE DEF fs
  <2> DEFINE from(i) == IF i < at THEN i ELSE i + count
  <2>6. ASSUME NEW i \in 1 .. Len(fs)
        PROVE  from(i) \in 1 .. Len(es) /\ fs[i] = es[from(i)]
    <3>1. CASE i < at
      BY <1>1, <2>1, <2>5, <3>1 DEF GoneAt
    <3>2. CASE ~ i < at
      <4>1. i \in at .. Len(fs) /\ i + count \in 1 .. Len(es)
        BY <1>1, <2>1, <2>5, <3>2 DEF GoneAt
      <4>2. QED
        BY <2>5, <3>2, <4>1 DEF GoneAt
    <3>3. QED
      BY <3>1, <3>2
  <2>7. \A n \in 1 .. Len(fs) : fs[n].key \in LuaKeys \cup {Nil}
    BY <2>2, <2>6
  <2>8. ASSUME NEW n \in 1 .. Len(fs), NEW m \in 1 .. Len(fs), fs[n].key = fs[m].key, fs[n].key # Nil
         PROVE  n = m
    <3>1. from(n) = from(m)
      <4> HIDE DEF from
      <4>1. QED
        BY <2>2, <2>6, <2>8
    <3>2. QED
      BY <1>1, <2>1, <2>5, <3>1 DEF GoneAt
  <2>9. Held(nodes')
    BY <1>1, <1>2, <2>1, <2>7, <2>8 DEF Held
  <2>10. QED
    BY <1>5, <2>1, <2>5, <2>9 DEF GoesOn, SheetStep, SheetAt, es
<1>8. QED
  BY <1>6, <1>7

(* One row is set: its key, or what the table holds for it.                *)
LEMMA RowOnly ==
  ASSUME SheetInv, TreeInv', TableHeld(content'), Held(nodes'), NEW n \in 1 .. Len(nodes[1].entries),
         Len(nodes'[1].entries) = Len(nodes[1].entries),
         \A m \in 1 .. Len(nodes[1].entries) : m # n =>
           /\ nodes'[1].entries[m].key = nodes[1].entries[m].key
           /\ Agree(nodes[1].entries[m].key, content[Top], content'[Top])
  PROVE  GoesOn
<1>1. Listed(nodes[1].entries) /\ Listed(nodes'[1].entries)
  BY RootListed DEF SheetInv, TreeInv, Whole, Typed
<1>2. RowSet(SheetAt(nodes, content), SheetAt(nodes', content'))
  BY <1>1, SheetRowSet DEF SheetAt
<1>3. QED
  BY <1>2 DEF GoesOn, SheetStep

LEMMA StoredIs ==
  ASSUME SheetInv, Top \notin Nested, NEW t \in DOMAIN nodes, NEW n \in 1 .. Len(nodes[t].entries), NEW v
  PROVE  LET d == Tree!Stored(content, t, n, v)
         IN  /\ TableHeld(d) /\ DOMAIN d = DOMAIN content
             /\ \A k \in LuaKeys : t # 1 \/ k # nodes[1].entries[n].key => d[Top][k] = content[Top][k]
<1>1. TableHeld(content) /\ (nodes[t].value = Top <=> t = 1)
  BY DEF SheetInv, Held, TreeInv, Whole, Typed
<1>2. Tree!Stored(content, t, n, v) =
        IF nodes[t].entries[n].key = Nil THEN content
        ELSE [content EXCEPT ![nodes[t].value][nodes[t].entries[n].key] = v]
  BY DEF Tree!Stored, Tree!Key
<1>3. QED
  BY <1>1, <1>2 DEF TableHeld

LEMMA SheetEdited ==
  ASSUME SheetInv, Top \notin Nested, "explored" \in Avoided, "same" \in Avoided, TreeInv',
         NEW t \in DOMAIN nodes, NEW n \in Tree!Rows(t), NEW col, Tree!Edit(t, n, col)
  PROVE  GoesOn
<1> DEFINE es == nodes[1].entries
           unchecked == [nodes EXCEPT ![t].entries[n].chk = FALSE]
<1>1. /\ n \in 1 .. Len(nodes[t].entries) /\ Whole(nodes) /\ Held(nodes) /\ TreeInv
      /\ 1 \in DOMAIN nodes /\ 1 \in DOMAIN nodes'
  BY TreeRows DEF SheetInv, TreeInv, Whole, Typed
<1>2. Tree!Unchecked(nodes, t, n) = unchecked
  BY DEF Tree!Unchecked
<1>3. Similar(nodes, unchecked)
  BY <1>1, CheckedSimilar
<1>4. \A m \in 1 .. Len(es) : es[m].key # Nil => es[m].key \in LuaKeys
  BY <1>1 DEF Held
<1>5. \A m, l \in 1 .. Len(es) : es[m].key = es[l].key /\ es[m].key # Nil => m = l
  BY <1>1 DEF Held
<1>6. ASSUME NEW v, Tree!setData_value(t, n, v) PROVE GoesOn
  <2>1. nodes' = unchecked /\ content' = Tree!Stored(content, t, n, v)
    BY <1>2, <1>6 DEF Tree!setData_value
  <2>2. /\ TableHeld(content')
        /\ \A k \in LuaKeys : t # 1 \/ k # es[n].key => content'[Top][k] = content[Top][k]
    BY <1>1, <2>1, StoredIs
  <2> HIDE DEF unchecked
  <2>3. CASE t # 1
    <3>1. \A m \in 1 .. Len(es) : Agree(es[m].key, content[Top], content'[Top])
      BY <1>4, <2>2, <2>3 DEF Agree
    <3>2. QED
      BY <1>3, <2>1, <2>2, <3>1, KeysKept
  <2>4. CASE t = 1
    <3>1. \A m \in 1 .. Len(es) : m # n => Agree(es[m].key, content[Top], content'[Top])
      BY <1>1, <1>4, <1>5, <2>2, <2>4 DEF Agree
    <3>2. Held(nodes') /\ Len(nodes'[1].entries) = Len(es)
          /\ \A m \in 1 .. Len(es) : nodes'[1].entries[m].key = es[m].key
      BY <1>1, <1>3, <2>1, SimilarHeld DEF Similar
    <3>3. QED
      BY <1>1, <2>2, <2>4, <3>1, <3>2, RowOnly
  <2>5. QED
    BY <2>3, <2>4
<1>7. ASSUME NEW k \in LuaKeys, Tree!setData_key(t, n, k) PROVE GoesOn
  <2> DEFINE d == Tree!Stored(content, t, n, Nil)
             f == nodes[t].value
             e == [unchecked[t].entries[n] EXCEPT !.key = k]
             ms == [unchecked EXCEPT ![t].entries[n] = e]
  <2>1. /\ nodes[t].entries[n].table = 0
        /\ \A m \in 1 .. Len(nodes[t].entries) : nodes[t].entries[m].key # k
    BY <1>1, <1>7, TreeRows DEF Tree!setData_key, Tree!Child, Tree!NoNode, Tree!Key
  <2>2. nodes' = ms /\ content' = [d EXCEPT ![f][k] = Tree!ValueIn(content, t, n)]
    <3>1. nodes' = [unchecked EXCEPT ![t].entries[n].key = k]
      BY <1>2, <1>7 DEF Tree!setData_key
    <3>2. content' = [d EXCEPT ![f][k] = Tree!ValueIn(content, t, n)]
      BY <1>7 DEF Tree!setData_key
    <3>3. [unchecked EXCEPT ![t].entries[n].key = k] = ms
      OBVIOUS
    <3>4. QED
      BY <3>1, <3>2, <3>3
  <2>3. /\ TableHeld(d) /\ DOMAIN d = DOMAIN content
        /\ \A j \in LuaKeys : t # 1 \/ j # es[n].key => d[Top][j] = content[Top][j]
    BY <1>1, StoredIs
  <2>4. f = Top <=> t = 1
    BY <1>1 DEF Held
  <2> HIDE DEF d
  <2>5. /\ TableHeld(content')
        /\ \A j \in LuaKeys : t # 1 \/ (j # es[n].key /\ j # k) => content'[Top][j] = content[Top][j]
    BY <2>2, <2>3, <2>4 DEF TableHeld
  <2>6. Whole(unchecked)
    BY <1>1, <2>1, Checked
  <2>7. /\ DOMAIN unchecked = DOMAIN nodes
        /\ Len(unchecked[t].entries) = Len(nodes[t].entries)
        /\ \E U : unchecked[t].entries[n] \in EntryOf(U)
    <3> DEFINE c == [nodes[t].entries[n] EXCEPT !.chk = FALSE]
    <3>1. unchecked = [nodes EXCEPT ![t].entries[n] = c]
      OBVIOUS
    <3>2. DOMAIN unchecked = DOMAIN nodes /\ Len(unchecked[t].entries) = Len(nodes[t].entries)
      <4>1. LET m == [nodes EXCEPT ![t].entries[n] = c]
            IN  /\ DOMAIN m = DOMAIN nodes
                /\ \A i \in DOMAIN nodes : Len(m[i].entries) = Len(nodes[i].entries)
        <5> HIDE DEF c
        <5>1. QED
          BY <1>1, EntryIs
      <4> HIDE DEF c, unchecked
      <4>2. QED
        BY <1>1, <3>1, <4>1
    <3>3. t \in DOMAIN unchecked /\ n \in 1 .. Len(unchecked[t].entries)
      BY <1>1, <3>2
    <3> HIDE DEF unchecked
    <3>4. QED
      BY <2>6, <3>2, <3>3, EntryTyped
  <2> HIDE DEF unchecked
  <2>8. e.key = k
    <3>1. PICK U : unchecked[t].entries[n] \in EntryOf(U)
      BY <2>7
    <3>2. QED
      BY <3>1 DEF EntryOf
  <2> HIDE DEF e
  <2>9. Held(unchecked)
    BY <1>1, <1>3, SimilarHeld
  <2>10. /\ DOMAIN ms = DOMAIN unchecked
         /\ \A i \in DOMAIN unchecked : /\ ms[i].value = unchecked[i].value
                                        /\ Len(ms[i].entries) = Len(unchecked[i].entries)
         /\ \A i \in DOMAIN unchecked : \A m \in 1 .. Len(unchecked[i].entries) :
              ms[i].entries[m] = IF i = t /\ m = n THEN e ELSE unchecked[i].entries[m]
    BY <1>1, <2>6, <2>7, EntryIs
  <2> HIDE DEF ms
  <2>11. CASE t # 1
    <3>1. Similar(nodes, nodes')
      <4>1. \A m \in 1 .. Len(es) : nodes'[1].entries[m] = unchecked[1].entries[m]
        BY <1>1, <1>3, <2>2, <2>7, <2>10, <2>11 DEF Similar
      <4>2. QED
        BY <1>1, <1>3, <2>2, <2>7, <2>10, <4>1 DEF Similar
    <3>2. \A m \in 1 .. Len(es) : Agree(es[m].key, content[Top], content'[Top])
      BY <1>4, <2>5, <2>11 DEF Agree
    <3>3. QED
      BY <2>5, <3>1, <3>2, KeysKept
  <2>12. CASE t = 1
    <3>1. /\ Len(nodes'[1].entries) = Len(es)
          /\ \A m \in 1 .. Len(es) : nodes'[1].entries[m].key = IF m = n THEN k ELSE es[m].key
      BY <1>1, <1>3, <2>2, <2>7, <2>8, <2>10, <2>12 DEF Similar
    <3>2. \A m \in 1 .. Len(es) : es[m].key # k
      BY <2>1, <2>12
    <3>3. Held(nodes')
      <4>1. /\ nodes'[1].value = Top
            /\ \A i \in DOMAIN nodes' \ {1} : nodes'[i].value \in Nested
        BY <1>1, <2>2, <2>7, <2>9, <2>10 DEF Held
      <4>2. \A m \in 1 .. Len(es) : es[m].key \in LuaKeys \cup {Nil}
        BY <1>1 DEF Held
      <4>3. QED
        BY <1>5, <3>1, <3>2, <4>1, <4>2 DEF Held
    <3>4. \A m \in 1 .. Len(es) : m # n =>
            /\ nodes'[1].entries[m].key = es[m].key
            /\ Agree(es[m].key, content[Top], content'[Top])
      BY <1>1, <1>4, <1>5, <2>5, <2>12, <3>1, <3>2 DEF Agree
    <3>5. n \in 1 .. Len(nodes[1].entries)
      BY <1>1, <2>12
    <3>6. QED
      BY <2>5, <3>1, <3>3, <3>4, <3>5, RowOnly
  <2>13. QED
    BY <2>11, <2>12
<1>8. QED
  BY <1>6, <1>7 DEF Tree!Edit

LEMMA SheetLuaSet ==
  ASSUME SheetInv, TreeInv', NEW f, NEW k, NEW v, Tree!LuaSet(f, k, v)
  PROVE  GoesOn
<1> DEFINE es == nodes[1].entries
<1>1. nodes' = nodes /\ content' = [content EXCEPT ![f][k] = v]
  BY DEF Tree!LuaSet
<1>2. /\ TableHeld(content')
      /\ \A j \in LuaKeys : f # Top \/ j # k => content'[Top][j] = content[Top][j]
  BY <1>1 DEF SheetInv, TableHeld
<1>3. /\ Held(nodes) /\ Similar(nodes, nodes')
      /\ \A m \in 1 .. Len(es) : es[m].key # Nil => es[m].key \in LuaKeys
      /\ \A m, l \in 1 .. Len(es) : es[m].key = es[l].key /\ es[m].key # Nil => m = l
  BY <1>1, SimilarSame DEF SheetInv, Held
<1>4. CASE \E n \in 1 .. Len(es) : es[n].key = k /\ k # Nil
  <2>1. PICK n \in 1 .. Len(es) : es[n].key = k /\ k # Nil
    BY <1>4
  <2>2. \A m \in 1 .. Len(es) : m # n => Agree(es[m].key, content[Top], content'[Top])
    BY <1>2, <1>3, <2>1 DEF Agree
  <2>3. QED
    BY <1>1, <1>2, <1>3, <2>2, RowOnly
<1>5. CASE ~ \E n \in 1 .. Len(es) : es[n].key = k /\ k # Nil
  <2>1. \A m \in 1 .. Len(es) : Agree(es[m].key, content[Top], content'[Top])
    BY <1>2, <1>3, <1>5 DEF Agree
  <2>2. QED
    BY <1>2, <1>3, <2>1, KeysKept
<1>6. QED
  BY <1>4, <1>5

LEMMA SheetInitially ==
  ASSUME Init
  PROVE  SheetInv /\ SheetAt(nodes, content) = <<>>
<1>1. nodes = [i \in {1} |-> [value |-> Top, parent |-> 0, row |-> 0, entries |-> <<>>]]
  BY DEF Init, Tree!Init, Tree!Root, Tree!NoNode
<1>2. DOMAIN nodes = {1} /\ nodes[1].value = Top /\ nodes[1].entries = <<>>
  BY <1>1
<1>3. Held(nodes)
  BY <1>2 DEF Held
<1>4. TableHeld(content)
  BY DEF Init, Tree!Init, Tree!Tables, TableHeld
<1>5. SheetAt(nodes, content) = <<>>
  BY <1>2 DEF SheetAt, SheetOf
<1>6. QED
  BY <1>3, <1>4, <1>5, TreeInitially DEF SheetInv

LEMMA SheetGoesOn ==
  ASSUME SheetInv, Top \notin Nested, "explored" \in Avoided, "same" \in Avoided,
         [GridStep \/ TreeStep \/ LuaStep]_vars
  PROVE  TreeInv' /\ GoesOn
<1>1. TreeInv'
  BY TreeKept DEF SheetInv
<1>2. CASE GridStep \/ LuaStep \/ UNCHANGED vars
  <2>1. nodes' = nodes /\ content' = content
    BY <1>2 DEF GridStep, LuaStep, vars, tree
  <2>2. QED
    BY <1>1, <2>1, SimilarSame, KeysAndTableKept DEF SheetInv
<1>3. CASE TreeStep
  <2>1. CASE Tree!LookAtTop
    BY <1>1, <2>1, TopLookedAt
  <2>2. CASE Tree!Update
    BY <1>1, <2>2, SheetReset
  <2>3. ASSUME NEW t \in DOMAIN nodes, NEW row \in 1 .. MaxEntries + 1, NEW count \in 1 .. 2,
               Tree!removeRows(t, row, count) \/ Tree!insertRows(t, row, count)
        PROVE  GoesOn
    <3>1. row \in Nat \ {0} /\ row \in Nat /\ count \in Nat \ {0}
      BY Assumptions DEF Tree!TreeAssumption
    <3>2. QED
      BY <1>1, <2>3, <3>1, SheetRemoved, SheetInserted
  <2>4. ASSUME NEW t \in DOMAIN nodes, NEW n \in Tree!Rows(t),
               \/ \E fetch \in BOOLEAN : Tree!Look(t, n, fetch)
               \/ \E col \in 0 .. Tree!columnCount - 1 : Tree!Edit(t, n, col)
        PROVE  GoesOn
    BY <1>1, <2>4, SheetLooked, SheetEdited
  <2>5. ASSUME NEW f, NEW k, NEW v, Tree!LuaSet(f, k, v)
        PROVE  GoesOn
    BY <1>1, <2>5, SheetLuaSet
  <2>6. GoesOn
    BY <1>3, <2>1, <2>2, <2>3, <2>4, <2>5 DEF TreeStep, Tree!Next
  <2>7. QED
    BY <1>1, <2>6
<1>4. QED
  BY <1>1, <1>2, <1>3

(* What is shown, as the refinement has it.                                *)
ShownRows == [n \in Tree!Rows(Tree!Root) |->
                [c \in 1 .. Tree!columnCount |-> Tree!get_value(Tree!Root, n, c - 1)]]

LEMMA ShownIs ==
  ASSUME SheetInv
  PROVE  ShownRows = SheetAt(nodes, content)
<1>1. Tree!Rows(1) = 1 .. Len(nodes[1].entries) /\ nodes[1].value = Top
  BY TreeRows DEF SheetInv, TreeInv, Whole, Typed, Held
<1>2. ASSUME NEW n \in 1 .. Len(nodes[1].entries)
      PROVE  [c \in 1 .. Tree!columnCount |-> Tree!get_value(1, n, c - 1)]
               = RowOf(nodes[1].entries[n].key, content[Top])
  BY <1>1 DEF RowOf, Tree!get_value, Tree!Key, Tree!ValueIn
<1>3. QED
  BY <1>1, <1>2 DEF ShownRows, SheetAt, SheetOf, Tree!Root

LEMMA ColumnsCounted == Tree!columnCount \in Nat
<1> DEFINE Ids == {"key", "value", "type"}
           Unless(attribute, id) == IF attribute \in Attributes THEN <<>> ELSE <<id>>
           two == Unless("HideKey", "key") \o Unless("HideValue", "value")
<1>1. /\ Unless("HideKey", "key") \in Seq(Ids) /\ Unless("HideValue", "value") \in Seq(Ids)
      /\ Unless("HideType", "type") \in Seq(Ids)
  <2>1. <<>> \in Seq(Ids)
    OBVIOUS
  <2>2. <<"key">> \in Seq(Ids) /\ <<"value">> \in Seq(Ids) /\ <<"type">> \in Seq(Ids)
    <3>1. "key" \in Ids /\ "value" \in Ids /\ "type" \in Ids
      OBVIOUS
    <3> HIDE DEF Ids
    <3>2. QED
      BY <3>1
  <2> HIDE DEF Ids
  <2>3. QED
    BY <2>1, <2>2
<1>2. Tree!ColumnIds = two \o Unless("HideType", "type")
  BY DEF Tree!ColumnIds
<1> HIDE DEF Ids, Unless
<1>3. two \in Seq(Ids)
  BY <1>1, ConcatProperties
<1> HIDE DEF two
<1>4. Tree!ColumnIds \in Seq(Ids)
  BY <1>1, <1>2, <1>3, ConcatProperties
<1>5. QED
  BY <1>4 DEF Tree!columnCount

LEMMA StepOfSheet ==
  ASSUME SheetStep(ShownRows, ShownRows')
  PROVE  [Tree!Shown!Next]_<<ShownRows, Tree!columnCount>>
<1> DEFINE g == ShownRows
           h == ShownRows'
<1>1. CASE g = h
  BY <1>1
<1>2. CASE g = <<>>
  BY <1>2 DEF Tree!Shown!Next, Tree!Shown!Reload, ShownRows
<1>3. CASE RowSet(g, h)
  BY <1>3 DEF Tree!Shown!Next, Tree!Shown!SetRow, RowSet, ShownRows
<1>4. CASE RowsPut(g, h)
  BY <1>4 DEF Tree!Shown!Next, Tree!Shown!InsertRows, Tree!Shown!PutIn, Tree!Shown!Blank, RowsPut,
              BlankRow, ShownRows
<1>5. CASE RowsOut(g, h)
  BY <1>5 DEF Tree!Shown!Next, Tree!Shown!RemoveRows, Tree!Shown!TakenOut, RowsOut, ShownRows
<1>6. QED
  BY <1>1, <1>2, <1>3, <1>4, <1>5 DEF SheetStep

(* However many nodes and rows, and whatever columns are hidden, the tree  *)
(* is a list of keys and values that are each their own: an edit changes   *)
(* one row, rows that are put in are blank, and neither they, nor those    *)
(* that are taken out, nor Lua change or move the others (TableTreeModel,  *)
(* TableTreeKeys::update).  Users neither change the keys of tables that   *)
(* were looked into nor give two rows one key, and the table that the      *)
(* model shows is not a value in it or below.                              *)
THEOREM TreesAreSheets ==
  {"explored", "same"} \subseteq Avoided /\ Top \notin Nested => (Spec => TreeIsSheet)
<1>1. SUFFICES ASSUME "explored" \in Avoided, "same" \in Avoided, Top \notin Nested
               PROVE  Spec => TreeIsSheet
  OBVIOUS
<1>2. Init => SheetInv
  BY SheetInitially
<1>3. SheetInv /\ [Next]_vars => SheetInv'
  BY <1>1, SheetGoesOn DEF Next, SheetInv, GoesOn
<1>4. Init => Tree!Shown!Init
  <2>1. SUFFICES ASSUME Init PROVE Tree!Shown!Init
    OBVIOUS
  <2>2. ShownRows = <<>>
    BY <2>1, SheetInitially, ShownIs
  <2>3. QED
    BY <2>2, ColumnsCounted DEF Tree!Shown!Init, ShownRows
<1>5. SheetInv /\ SheetInv' /\ [Next]_vars => [Tree!Shown!Next]_<<ShownRows, Tree!columnCount>>
  <2>1. SUFFICES ASSUME SheetInv, SheetInv', [Next]_vars
                 PROVE  SheetStep(ShownRows, ShownRows')
    BY StepOfSheet
  <2>2. SheetStep(SheetAt(nodes, content), SheetAt(nodes', content'))
    BY <1>1, <2>1, SheetGoesOn DEF Next, GoesOn
  <2>3. ShownRows = SheetAt(nodes, content)
    BY <2>1, ShownIs
  <2>4. ShownRows' = SheetAt(nodes', content')
    <3>1. Tree!Rows(1)' = 1 .. Len(nodes'[1].entries) /\ nodes'[1].value = Top
      BY <2>1, RootListed DEF SheetInv, TreeInv, Whole, Typed, Held, Tree!Rows
    <3>2. ASSUME NEW n \in 1 .. Len(nodes'[1].entries)
          PROVE  [c \in 1 .. Tree!columnCount |-> Tree!get_value(1, n, c - 1)']
                   = RowOf(nodes'[1].entries[n].key, content'[Top])
      BY <3>1 DEF RowOf, Tree!get_value, Tree!Key, Tree!ValueIn
    <3>3. QED
      BY <3>1, <3>2 DEF ShownRows, SheetAt, SheetOf, Tree!Root
  <2>5. QED
    BY <2>2, <2>3, <2>4
<1>6. QED
  BY <1>2, <1>3, <1>4, <1>5, PTL DEF Spec, TreeIsSheet, Tree!ImplementsSheet, Tree!Shown!Spec, ShownRows

-----------------------------------------------------------------------------
(* The LuaModel: no item is in two places, so that a place is told from    *)
(* the item that is there.                                                 *)

Known0 == Items \cup {0}

RowsOf(f, n) ==
  /\ f \in Seq(Seq(Items)) /\ Len(f) <= MaxLines
  /\ \A r \in 1 .. Len(f) : Len(f[r]) = n

Apart(f, n) ==
  \A r, s \in 1 .. Len(f) : \A c, d \in 1 .. n : f[r][c] = f[s][d] => r = s /\ c = d

Layout(b, n) ==
  /\ b \in [Known0 -> Seq(Seq(Items))] /\ n \in [Known0 -> Nat]
  /\ \A p \in Known0 : RowsOf(b[p], n[p]) /\ (n[p] <= MaxLines \/ n[p] = 1)
  /\ \A p, q \in Known0 : \A r \in 1 .. Len(b[p]), s \in 1 .. Len(b[q]) :
       \A c \in 1 .. n[p], d \in 1 .. n[q] : b[p][r][c] = b[q][s][d] => p = q /\ r = s /\ c = d

LEMMA LuaSets ==
  /\ IsFiniteSet(Items) /\ Items \subseteq Nat /\ 0 \notin Items /\ MaxLines \in Nat
  /\ \A S : Lua!Cardinality(S) = Cardinality(S)
<1>1. IsFiniteSet(Items) = Lua!IsFiniteSet(Items)
  BY DEF IsFiniteSet, Lua!IsFiniteSet
<1>2. \A S : Lua!Cardinality(S) = Cardinality(S)
  BY DEF Cardinality, Lua!Cardinality
<1>3. QED
  BY <1>1, <1>2, Assumptions DEF Lua!LuaModelAssumption, Lua!RootItem

LEMMA PlacesAre ==
  ASSUME Layout(below, columns)
  PROVE  Lua!Places = {x \in Known0 \X (1 .. MaxLines) \X (1 .. MaxLines) :
                         x[2] \in 1 .. Len(below[x[1]]) /\ x[3] \in 1 .. columns[x[1]]}
<1>1. ASSUME NEW x \in Known0 \X (1 .. MaxLines) \X (1 .. MaxLines)
      PROVE  (x[2] \in DOMAIN below[x[1]] /\ x[3] \in DOMAIN below[x[1]][x[2]])
             = (x[2] \in 1 .. Len(below[x[1]]) /\ x[3] \in 1 .. columns[x[1]])
  <2>1. x[1] \in Known0
    OBVIOUS
  <2>2. below[x[1]] \in Seq(Seq(Items)) /\ DOMAIN below[x[1]] = 1 .. Len(below[x[1]])
    BY <2>1 DEF Layout
  <2>3. ASSUME NEW r \in 1 .. Len(below[x[1]]) PROVE DOMAIN below[x[1]][r] = 1 .. columns[x[1]]
    <3>1. below[x[1]][r] \in Seq(Items) /\ Len(below[x[1]][r]) = columns[x[1]]
      BY <2>1, <2>2 DEF Layout, RowsOf
    <3>2. QED
      BY <3>1
  <2>4. QED
    BY <2>2, <2>3
<1>2. QED
  BY <1>1 DEF Lua!Places, Lua!RootItem, Known0

(* What is in a row has its place.                                         *)
LEMMA PlaceIs ==
  ASSUME Layout(below, columns), NEW p \in Known0, NEW r \in 1 .. Len(below[p]), NEW c \in 1 .. columns[p]
  PROVE  /\ <<p, r, c>> \in Lua!Places /\ below[p][r][c] \in Lua!There
         /\ below[p][r][c] \in Items /\ Lua!PlaceOf(below[p][r][c]) = <<p, r, c>>
<1>1. /\ RowsOf(below[p], columns[p]) /\ (columns[p] <= MaxLines \/ columns[p] = 1)
      /\ columns[p] \in Nat /\ below[p] \in Seq(Seq(Items)) /\ MaxLines \in Nat
  BY LuaSets DEF Layout
<1>2. r \in 1 .. MaxLines /\ c \in 1 .. MaxLines
  BY <1>1 DEF RowsOf
<1>3. below[p][r] \in Seq(Items) /\ Len(below[p][r]) = columns[p]
  BY <1>1 DEF RowsOf
<1>4. below[p][r][c] \in Items
  BY <1>3
<1>5. <<p, r, c>> \in Lua!Places
  BY <1>2, PlacesAre
<1>6. Lua!ItemAt(<<p, r, c>>) = below[p][r][c]
  BY DEF Lua!ItemAt
<1>7. ASSUME NEW x \in Lua!Places, Lua!ItemAt(x) = below[p][r][c] PROVE x = <<p, r, c>>
  <2>1. /\ x \in Known0 \X (1 .. MaxLines) \X (1 .. MaxLines)
        /\ x[2] \in 1 .. Len(below[x[1]]) /\ x[3] \in 1 .. columns[x[1]]
    BY PlacesAre
  <2>2. x[1] \in Known0 /\ x = <<x[1], x[2], x[3]>>
    BY <2>1
  <2>3. below[x[1]][x[2]][x[3]] = below[p][r][c]
    BY <1>7 DEF Lua!ItemAt
  <2>4. x[1] = p /\ x[2] = r /\ x[3] = c
    <3> DEFINE q == x[1]
               s == x[2]
               d == x[3]
    <3>1. /\ q \in Known0 /\ s \in 1 .. Len(below[q]) /\ d \in 1 .. columns[q]
          /\ below[p][r][c] = below[q][s][d]
      BY <2>1, <2>2, <2>3
    <3> HIDE DEF q, s, d
    <3>2. p = q /\ r = s /\ c = d
      BY <3>1 DEF Layout
    <3>3. QED
      BY <3>2 DEF q, s, d
  <2>5. QED
    BY <2>2, <2>4
<1>8. Lua!PlaceOf(below[p][r][c]) = <<p, r, c>>
  BY <1>5, <1>6, <1>7 DEF Lua!PlaceOf
<1>9. QED
  BY <1>4, <1>5, <1>6, <1>8 DEF Lua!There

(* Items that are nowhere, each once.                                      *)
LEMMA NewIs ==
  /\ Lua!New \in Seq(Items)
  /\ \A i \in 1 .. Len(Lua!New) : Lua!New[i] \notin Lua!There
  /\ \A i, j \in 1 .. Len(Lua!New) : Lua!New[i] = Lua!New[j] => i = j
<1> DEFINE S == Items \ Lua!There
           n == Cardinality(S)
<1>1. IsFiniteSet(S) /\ n \in Nat
  BY LuaSets, FS_Subset, FS_CardinalityType
<1>2. Lua!New = CHOOSE f \in [1 .. n -> S] : Lua!IsInjective(f)
  BY LuaSets DEF Lua!New, Lua!SetToSeq
<1>3. \E f \in [1 .. n -> S] : Lua!IsInjective(f)
  <2>1. PICK f \in [1 .. n -> S] : \A a, b \in 1 .. n : f[a] = f[b] => a = b
    BY <1>1, Enumerated
  <2>2. QED
    BY <2>1 DEF Lua!IsInjective
<1> HIDE DEF n, S
<1>4. Lua!New \in [1 .. n -> S] /\ Lua!IsInjective(Lua!New)
  BY <1>2, <1>3
<1>5. Lua!New \in Seq(S) /\ Len(Lua!New) = n
  BY <1>1, <1>4
<1>6. S \subseteq Items /\ \A i \in S : i \notin Lua!There
  BY DEF S
<1>7. QED
  BY <1>4, <1>5, <1>6, WiderSeq DEF Lua!IsInjective

LEMMA PartIs ==
  ASSUME NEW s \in Seq(Items), NEW m \in Nat, NEW n \in Nat, m * n <= Len(s), NEW k \in 1 .. m
  PROVE  /\ Lua!PartOf(s, k, n) \in Seq(Items) /\ Len(Lua!PartOf(s, k, n)) = n
         /\ \A c \in 1 .. n : /\ (k - 1) * n + c \in 1 .. Len(s)
                              /\ Lua!PartOf(s, k, n)[c] = s[(k - 1) * n + c]
<1> DEFINE a == (k - 1) * n
           b == k * n
<1>1. a \in Nat /\ b \in Nat /\ b = a + n /\ b <= Len(s) /\ Len(s) \in Nat
  <2>1. k * n = (k - 1) * n + n /\ m * n = k * n + (m - k) * n
    OBVIOUS
  <2>2. (k - 1) * n \in Nat /\ (m - k) * n \in Nat /\ m * n \in Nat
    OBVIOUS
  <2>3. QED
    BY <2>1, <2>2
<1>2. Lua!PartOf(s, k, n) = SubSeq(s, a + 1, b)
  BY DEF Lua!PartOf
<1> HIDE DEF a, b
<1>3. /\ SubSeq(s, a + 1, b) \in Seq(Items) /\ Len(SubSeq(s, a + 1, b)) = n
      /\ \A c \in 1 .. n : a + c \in 1 .. Len(s) /\ SubSeq(s, a + 1, b)[c] = s[a + c]
  BY <1>1
<1>4. QED
  BY <1>2, <1>3 DEF a

LEMMA PartsApart ==
  ASSUME NEW n \in Nat, NEW k \in Nat \ {0}, NEW j \in Nat \ {0}, NEW c \in 1 .. n, NEW d \in 1 .. n,
         (k - 1) * n + c = (j - 1) * n + d
  PROVE  k = j /\ c = d
<1>1. ASSUME NEW x \in Nat \ {0}, NEW y \in Nat, y > x, NEW e \in 1 .. n, NEW f \in 1 .. n
      PROVE  (x - 1) * n + e < (y - 1) * n + f
  <2>1. (y - 1) * n = (x - 1) * n + n + (y - x - 1) * n
    OBVIOUS
  <2>2. (y - x - 1) * n \in Nat /\ (x - 1) * n \in Nat
    BY <1>1
  <2>3. QED
    BY <2>1, <2>2
<1>2. ~ k < j
  BY <1>1
<1>3. ~ j < k
  BY <1>1
<1>4. k = j
  BY <1>2, <1>3
<1>5. (k - 1) * n \in Nat
  OBVIOUS
<1>6. QED
  BY <1>4, <1>5

-----------------------------------------------------------------------------
(* Changes keep each item in one place.                                    *)

(* Rows of items that were in them, or nowhere.                            *)
LEMMA LayoutKept ==
  ASSUME Layout(below, columns), NEW p \in Known0, NEW f, NEW n \in Nat,
         RowsOf(f, n), n <= MaxLines \/ n = 1, Apart(f, n),
         \A r \in 1 .. Len(f), c \in 1 .. n :
           \/ f[r][c] \notin Lua!There
           \/ \E s \in 1 .. Len(below[p]), d \in 1 .. columns[p] : f[r][c] = below[p][s][d]
  PROVE  Layout([below EXCEPT ![p] = f], [columns EXCEPT ![p] = n])
<1> DEFINE b == [below EXCEPT ![p] = f]
           m == [columns EXCEPT ![p] = n]
<1>1. /\ b \in [Known0 -> Seq(Seq(Items))] /\ m \in [Known0 -> Nat]
      /\ b[p] = f /\ m[p] = n /\ \A q \in Known0 \ {p} : b[q] = below[q] /\ m[q] = columns[q]
  BY DEF Layout, RowsOf
<1> HIDE DEF b, m
<1>2. ASSUME NEW q \in Known0 PROVE RowsOf(b[q], m[q]) /\ (m[q] <= MaxLines \/ m[q] = 1)
  BY <1>1 DEF Layout
<1>3. ASSUME NEW q \in Known0 \ {p}, NEW r \in 1 .. Len(f), NEW s \in 1 .. Len(below[q]),
             NEW c \in 1 .. n, NEW d \in 1 .. columns[q]
      PROVE  f[r][c] # below[q][s][d]
  <2>1. CASE f[r][c] \notin Lua!There
    <3>1. below[q][s][d] \in Lua!There
      BY PlaceIs
    <3>2. QED
      BY ONLY <2>1, <3>1
  <2>2. CASE \E t \in 1 .. Len(below[p]), e \in 1 .. columns[p] : f[r][c] = below[p][t][e]
    <3>1. PICK t \in 1 .. Len(below[p]), e \in 1 .. columns[p] : f[r][c] = below[p][t][e]
      BY <2>2
    <3>2. below[p][t][e] # below[q][s][d]
      BY DEF Layout
    <3>3. QED
      BY <3>1, <3>2
  <2>3. QED
    BY <2>1, <2>2
<1>4. ASSUME NEW o \in Known0, NEW q \in Known0, NEW r \in 1 .. Len(b[o]), NEW s \in 1 .. Len(b[q]),
             NEW c \in 1 .. m[o], NEW d \in 1 .. m[q], b[o][r][c] = b[q][s][d]
      PROVE  o = q /\ r = s /\ c = d
  <2>1. CASE o = p /\ q = p
    BY <1>1, <1>4, <2>1 DEF Apart
  <2>2. CASE o = p /\ q # p
    <3>1. /\ q \in Known0 \ {p} /\ r \in 1 .. Len(f) /\ s \in 1 .. Len(below[q])
          /\ c \in 1 .. n /\ d \in 1 .. columns[q] /\ f[r][c] = below[q][s][d]
      BY <1>1, <1>4, <2>2
    <3>2. QED
      BY <1>3, <3>1
  <2>3. CASE o # p /\ q = p
    <3>1. /\ o \in Known0 \ {p} /\ s \in 1 .. Len(f) /\ r \in 1 .. Len(below[o])
          /\ d \in 1 .. n /\ c \in 1 .. columns[o] /\ f[s][d] = below[o][r][c]
      BY <1>1, <1>4, <2>3
    <3>2. f[s][d] # below[o][r][c]
      BY ONLY <1>3, <3>1
    <3>3. QED
      BY <3>1, <3>2
  <2>4. CASE o # p /\ q # p
    <3>1. /\ r \in 1 .. Len(below[o]) /\ s \in 1 .. Len(below[q])
          /\ c \in 1 .. columns[o] /\ d \in 1 .. columns[q] /\ below[o][r][c] = below[q][s][d]
      BY <1>1, <1>4, <2>4
    <3>2. QED
      BY <3>1 DEF Layout
  <2>5. QED
    BY <2>1, <2>2, <2>3, <2>4
<1>5. Layout(b, m)
  BY <1>1, <1>2, <1>4 DEF Layout
<1>6. QED
  BY <1>5 DEF b, m

(* The rows below an item.                                                 *)
LEMMA OldRows ==
  ASSUME Layout(below, columns), NEW p \in Known0
  PROVE  /\ below[p] \in Seq(Seq(Items)) /\ Len(below[p]) \in Nat /\ columns[p] \in Nat
         /\ RowsOf(below[p], columns[p]) /\ Apart(below[p], columns[p])
         /\ columns[p] <= MaxLines \/ columns[p] = 1
         /\ \A r \in 1 .. Len(below[p]) : below[p][r] \in Seq(Items)
BY DEF Layout, RowsOf, Apart

LEMMA LuaPutIn ==
  ASSUME NEW U, NEW s \in Seq(U), NEW t \in Seq(U), NEW at \in 1 .. Len(s) + 1
  PROVE  LET g == Lua!PutIn(s, at, t)
         IN  /\ g \in Seq(U) /\ Len(g) = Len(s) + Len(t)
             /\ \A i \in 1 .. at - 1 : g[i] = s[i]
             /\ \A i \in at .. at + Len(t) - 1 : g[i] = t[i - at + 1]
             /\ \A i \in at + Len(t) .. Len(g) : g[i] = s[i - Len(t)]
BY PutInIs DEF Lua!PutIn

LEMMA LuaTakenOut ==
  ASSUME NEW U, NEW s \in Seq(U), NEW at \in 1 .. Len(s), NEW count \in Nat, at + count <= Len(s) + 1
  PROVE  LET g == Lua!TakenOut(s, at, count)
         IN  /\ g \in Seq(U) /\ Len(g) = Len(s) - count
             /\ \A i \in 1 .. at - 1 : g[i] = s[i]
             /\ \A i \in at .. Len(g) : g[i] = s[i + count]
BY TakenOutIs DEF Lua!TakenOut

(* Rows put in between rows.                                               *)
LEMMA RowsWoven ==
  ASSUME NEW n \in Nat, NEW old \in Seq(Seq(Items)), NEW new \in Seq(Seq(Items)), NEW row \in 1 .. Len(old) + 1,
         \A i \in 1 .. Len(old) : Len(old[i]) = n, \A k \in 1 .. Len(new) : Len(new[k]) = n,
         Apart(old, n), Apart(new, n),
         \A i \in 1 .. Len(old), k \in 1 .. Len(new), c, d \in 1 .. n : old[i][c] # new[k][d]
  PROVE  LET f == Lua!PutIn(old, row, new)
         IN  /\ f \in Seq(Seq(Items)) /\ Len(f) = Len(old) + Len(new)
             /\ \A i \in 1 .. Len(f) : /\ Len(f[i]) = n
                                       /\ \/ \E s \in 1 .. Len(old) : f[i] = old[s]
                                          \/ \E k \in 1 .. Len(new) : f[i] = new[k]
             /\ Apart(f, n)
<1> DEFINE f == Lua!PutIn(old, row, new)
           m == Len(new)
<1>1. Len(old) \in Nat /\ m \in Nat /\ row \in Nat /\ row >= 1 /\ row <= Len(old) + 1
  OBVIOUS
<1>2. /\ f \in Seq(Seq(Items)) /\ Len(f) = Len(old) + m
      /\ \A i \in 1 .. row - 1 : f[i] = old[i]
      /\ \A i \in row .. row + m - 1 : f[i] = new[i - row + 1]
      /\ \A i \in row + m .. Len(f) : f[i] = old[i - m]
  BY LuaPutIn
<1> HIDE DEF f, m
<1> DEFINE R == 1 .. Len(old)
           N == 1 .. m
           C == 1 .. n
<1>3. ASSUME NEW i \in 1 .. Len(f)
      PROVE  \/ i < row /\ i \in R /\ f[i] = old[i]
             \/ i >= row /\ i < row + m /\ \E a \in N : i = a + row - 1 /\ f[i] = new[a]
             \/ i >= row + m /\ \E a \in R : i = a + m /\ f[i] = old[a]
  <2>1. CASE i < row
    <3>1. i \in 1 .. row - 1 /\ i \in R
      BY <1>1, <2>1
    <3>2. f[i] = old[i]
      BY ONLY <1>2, <3>1
    <3>3. QED
      BY <2>1, <3>1, <3>2
  <2>2. CASE i >= row /\ i < row + m
    <3> DEFINE a == i - row + 1
    <3>1. i \in row .. row + m - 1 /\ a \in N /\ i = a + row - 1
      BY <1>1, <2>2
    <3>2. f[i] = new[a]
      BY ONLY <1>2, <3>1
    <3> HIDE DEF a, N
    <3>3. QED
      BY <2>2, <3>1, <3>2
  <2>3. CASE i >= row + m
    <3> DEFINE a == i - m
    <3>1. i \in row + m .. Len(f)
      BY <2>3
    <3>2. f[i] = old[a]
      BY ONLY <1>2, <3>1
    <3>3. a \in R /\ i = a + m
      BY <1>1, <1>2, <2>3
    <3> HIDE DEF a, R
    <3>4. QED
      BY <2>3, <3>2, <3>3
  <2>4. QED
    BY <1>1, <2>1, <2>2, <2>3
<1>4. ASSUME NEW i \in 1 .. Len(f)
      PROVE  /\ Len(f[i]) = n
             /\ \/ \E s \in 1 .. Len(old) : f[i] = old[s]
                \/ \E k \in 1 .. Len(new) : f[i] = new[k]
  <2>1. \/ \E s \in R : f[i] = old[s]
        \/ \E k \in N : f[i] = new[k]
    <3> HIDE DEF R, N
    <3>1. QED
      BY <1>3
  <2>2. QED
    BY <2>1 DEF m
<1>5. /\ \A i, j \in R : \A c, d \in C : old[i][c] = old[j][d] => i = j /\ c = d
      /\ \A i, j \in N : \A c, d \in C : new[i][c] = new[j][d] => i = j /\ c = d
      /\ \A i \in R, k \in N : \A c, d \in C : old[i][c] # new[k][d]
  BY DEF Apart, m
<1>6. row \in Int /\ m \in Int /\ R \subseteq Int /\ N \subseteq Int
  BY <1>1
<1> HIDE DEF R, N, C
<1>7. ASSUME NEW i \in 1 .. Len(f), NEW j \in 1 .. Len(f), NEW c \in C, NEW d \in C,
             f[i][c] = f[j][d], i <= j
      PROVE  i = j /\ c = d
  <2>1. CASE i < row /\ i \in R /\ f[i] = old[i]
    <3>1. CASE j < row /\ j \in R /\ f[j] = old[j]
      BY ONLY <1>5, <1>7, <2>1, <3>1
    <3>2. CASE \E a \in N : f[j] = new[a]
      BY ONLY <1>5, <1>7, <2>1, <3>2
    <3>3. CASE j >= row + m /\ \E a \in R : j = a + m /\ f[j] = old[a]
      <4>1. PICK a \in R : j = a + m /\ f[j] = old[a]
        BY <3>3
      <4>2. i = a
        BY ONLY <1>5, <1>7, <2>1, <4>1
      <4>3. QED
        BY <1>6, <2>1, <3>3, <4>1, <4>2
    <3>4. QED
      BY <1>3, <3>1, <3>2, <3>3
  <2>2. CASE i >= row /\ \E a \in N : i = a + row - 1 /\ f[i] = new[a]
    <3>1. PICK a \in N : i = a + row - 1 /\ f[i] = new[a]
      BY <2>2
    <3>2. CASE \E b \in N : j = b + row - 1 /\ f[j] = new[b]
      <4>1. PICK b \in N : j = b + row - 1 /\ f[j] = new[b]
        BY <3>2
      <4>2. a = b /\ c = d
        BY ONLY <1>5, <1>7, <3>1, <4>1
      <4>3. QED
        BY ONLY <3>1, <4>1, <4>2
    <3>3. CASE \E b \in R : f[j] = old[b]
      BY ONLY <1>5, <1>7, <3>1, <3>3
    <3>4. QED
      BY <1>3, <3>2, <3>3
  <2>3. CASE i >= row + m /\ \E a \in R : i = a + m /\ f[i] = old[a]
    <3>1. PICK a \in R : i = a + m /\ f[i] = old[a]
      BY <2>3
    <3>2. j >= row + m
      BY <1>6, <1>7, <2>3
    <3>3. PICK b \in R : j = b + m /\ f[j] = old[b]
      BY <1>1, <1>3, <1>6, <3>2
    <3>4. a = b /\ c = d
      BY ONLY <1>5, <1>7, <3>1, <3>3
    <3>5. QED
      BY ONLY <3>1, <3>3, <3>4
  <2>4. QED
    BY <1>3, <2>1, <2>2, <2>3
<1>8. ASSUME NEW i \in 1 .. Len(f), NEW j \in 1 .. Len(f), NEW c \in C, NEW d \in C,
             f[i][c] = f[j][d]
      PROVE  i = j /\ c = d
  <2>1. CASE i <= j
    BY <1>7, <1>8, <2>1
  <2>2. CASE j <= i
    BY <1>7, <1>8, <2>2
  <2>3. QED
    BY <2>1, <2>2
<1>9. Apart(f, n)
  BY <1>8 DEF Apart, C
<1>10. QED
  BY <1>2, <1>4, <1>9 DEF f, m

(* The new rows.                                                           *)
LEMMA NewRows ==
  ASSUME NEW n \in Nat, NEW count \in Nat, count * n <= Len(Lua!New)
  PROVE  LET new == [k \in 1 .. count |-> Lua!PartOf(Lua!New, k, n)]
         IN  /\ new \in Seq(Seq(Items)) /\ Len(new) = count
             /\ \A k \in 1 .. count : Len(new[k]) = n
             /\ \A k \in 1 .. count, c \in 1 .. n : new[k][c] \notin Lua!There
             /\ Apart(new, n)
<1> DEFINE new == [k \in 1 .. count |-> Lua!PartOf(Lua!New, k, n)]
           at(k, c) == (k - 1) * n + c
<1>1. ASSUME NEW k \in 1 .. count
      PROVE  /\ new[k] \in Seq(Items) /\ Len(new[k]) = n
             /\ \A c \in 1 .. n : at(k, c) \in 1 .. Len(Lua!New) /\ new[k][c] = Lua!New[at(k, c)]
  <2>1. new[k] = Lua!PartOf(Lua!New, k, n)
    OBVIOUS
  <2> HIDE DEF new
  <2>2. Lua!New \in Seq(Items)
    BY NewIs
  <2> DEFINE s == Lua!New
             t == Lua!PartOf(s, k, n)
  <2>3. /\ t \in Seq(Items) /\ Len(t) = n
        /\ \A c \in 1 .. n : (k - 1) * n + c \in 1 .. Len(s) /\ t[c] = s[(k - 1) * n + c]
    BY <2>2, PartIs, Zenon
  <2> HIDE DEF t
  <2>4. QED
    BY <2>1, <2>3, Zenon DEF t
<1>2. new \in Seq(Seq(Items)) /\ Len(new) = count
  <2>1. new \in [1 .. count -> Seq(Items)]
    BY <1>1
  <2>2. QED
    BY <2>1
<1>3. ASSUME NEW j \in 1 .. count, NEW k \in 1 .. count, NEW c \in 1 .. n, NEW d \in 1 .. n,
             at(j, c) = at(k, d)
      PROVE  j = k /\ c = d
  <2>1. j \in Nat \ {0} /\ k \in Nat \ {0}
    OBVIOUS
  <2>2. QED
    BY <1>3, <2>1, PartsApart
<1> HIDE DEF new, at
<1>4. ASSUME NEW k \in 1 .. count, NEW c \in 1 .. n PROVE new[k][c] \notin Lua!There
  <2>1. at(k, c) \in 1 .. Len(Lua!New) /\ new[k][c] = Lua!New[at(k, c)]
    BY <1>1
  <2>2. QED
    BY <2>1, NewIs
<1>5. ASSUME NEW j \in 1 .. count, NEW k \in 1 .. count, NEW c \in 1 .. n, NEW d \in 1 .. n,
             new[j][c] = new[k][d]
      PROVE  j = k /\ c = d
  <2>1. /\ at(j, c) \in 1 .. Len(Lua!New) /\ new[j][c] = Lua!New[at(j, c)]
        /\ at(k, d) \in 1 .. Len(Lua!New) /\ new[k][d] = Lua!New[at(k, d)]
    BY <1>1
  <2>2. at(j, c) = at(k, d)
    BY <1>5, <2>1, NewIs
  <2>3. QED
    BY <1>3, <2>2
<1>6. Apart(new, n)
  BY <1>2, <1>5 DEF Apart
<1>7. QED
  BY <1>1, <1>2, <1>4, <1>6 DEF new

LEMMA RowsPutIn ==
  ASSUME Layout(below, columns), NEW p \in Known0, NEW row \in 1 .. Len(below[p]) + 1, NEW count \in Nat,
         Len(below[p]) + count <= MaxLines, count * columns[p] <= Len(Lua!New)
  PROVE  LET n == columns[p]
         IN  Layout([below EXCEPT ![p] = Lua!PutIn(below[p], row, [k \in 1 .. count |-> Lua!PartOf(Lua!New, k, n)])],
                    [columns EXCEPT ![p] = n])
<1> DEFINE old == below[p]
           n == columns[p]
           new == [k \in 1 .. count |-> Lua!PartOf(Lua!New, k, n)]
           f == Lua!PutIn(old, row, new)
<1>1. /\ old \in Seq(Seq(Items)) /\ Len(old) \in Nat /\ n \in Nat
      /\ \A i \in 1 .. Len(old) : Len(old[i]) = n
      /\ Apart(old, n) /\ (n <= MaxLines \/ n = 1)
  BY OldRows DEF RowsOf
<1>2. /\ row \in 1 .. Len(old) + 1 /\ Len(old) + count <= MaxLines /\ count * n <= Len(Lua!New)
      /\ \A i \in 1 .. Len(old), c \in 1 .. n : old[i][c] \in Lua!There
  BY PlaceIs
<1> HIDE DEF old, n
<1>3. /\ new \in Seq(Seq(Items)) /\ Len(new) = count
      /\ \A k \in 1 .. count : Len(new[k]) = n
      /\ \A k \in 1 .. count, c \in 1 .. n : new[k][c] \notin Lua!There
      /\ Apart(new, n)
  BY <1>1, <1>2, NewRows
<1> HIDE DEF new
<1>4. \A i \in 1 .. Len(old), k \in 1 .. Len(new), c, d \in 1 .. n : old[i][c] # new[k][d]
  BY <1>2, <1>3
<1>5. /\ f \in Seq(Seq(Items)) /\ Len(f) = Len(old) + Len(new)
      /\ \A i \in 1 .. Len(f) : /\ Len(f[i]) = n
                                /\ \/ \E s \in 1 .. Len(old) : f[i] = old[s]
                                   \/ \E k \in 1 .. Len(new) : f[i] = new[k]
      /\ Apart(f, n)
  BY <1>1, <1>2, <1>3, <1>4, RowsWoven
<1> HIDE DEF f
<1>6. RowsOf(f, n)
  BY <1>1, <1>2, <1>3, <1>5 DEF RowsOf
<1>7. ASSUME NEW r \in 1 .. Len(f), NEW c \in 1 .. n
      PROVE  f[r][c] \notin Lua!There \/ \E s \in 1 .. Len(old), d \in 1 .. n : f[r][c] = old[s][d]
  BY <1>3, <1>5
<1>8. Layout([below EXCEPT ![p] = f], [columns EXCEPT ![p] = n])
  <2>1. \A r \in 1 .. Len(f), c \in 1 .. n :
          \/ f[r][c] \notin Lua!There
          \/ \E s \in 1 .. Len(below[p]), d \in 1 .. columns[p] : f[r][c] = below[p][s][d]
    BY <1>7 DEF old, n
  <2>2. QED
    BY <1>1, <1>5, <1>6, <2>1, LayoutKept
<1>9. QED
  BY <1>8 DEF f, new, n, old

LEMMA RowsTakenOut ==
  ASSUME Layout(below, columns), NEW p \in Known0, NEW row \in 1 .. Len(below[p]), NEW count \in Nat,
         row + count <= Len(below[p]) + 1
  PROVE  Layout([below EXCEPT ![p] = Lua!TakenOut(below[p], row, count)], [columns EXCEPT ![p] = columns[p]])
<1> DEFINE old == below[p]
           n == columns[p]
           f == Lua!TakenOut(old, row, count)
<1>1. /\ old \in Seq(Seq(Items)) /\ Len(old) \in Nat /\ n \in Nat
      /\ Len(old) <= MaxLines /\ \A i \in 1 .. Len(old) : Len(old[i]) = n
      /\ Apart(old, n) /\ (n <= MaxLines \/ n = 1) /\ MaxLines \in Nat
  BY OldRows, LuaSets DEF RowsOf
<1>2. row \in 1 .. Len(old) /\ row + count <= Len(old) + 1
  OBVIOUS
<1> HIDE DEF old, n
<1>3. /\ f \in Seq(Seq(Items)) /\ Len(f) = Len(old) - count
      /\ \A i \in 1 .. row - 1 : f[i] = old[i]
      /\ \A i \in row .. Len(f) : f[i] = old[i + count]
  BY <1>1, <1>2, LuaTakenOut
<1> HIDE DEF f
<1> DEFINE from == [i \in 1 .. Len(f) |-> IF i < row THEN i ELSE i + count]
<1>4. /\ \A i \in 1 .. Len(f) : from[i] \in 1 .. Len(old) /\ f[i] = old[from[i]]
      /\ \A i, j \in 1 .. Len(f) : from[i] = from[j] => i = j
  <2>1. ASSUME NEW i \in 1 .. Len(f) PROVE from[i] \in 1 .. Len(old) /\ f[i] = old[from[i]]
    <3>1. CASE i < row
      <4>1. i \in 1 .. row - 1 /\ i \in 1 .. Len(old)
        BY <1>2, <3>1
      <4>2. f[i] = old[i]
        BY ONLY <1>3, <4>1
      <4>3. QED
        BY <3>1, <4>1, <4>2
    <3>2. CASE ~ i < row
      <4>1. i \in row .. Len(f) /\ i + count \in 1 .. Len(old)
        BY <1>1, <1>2, <1>3, <3>2
      <4>2. f[i] = old[i + count]
        BY ONLY <1>3, <4>1
      <4>3. QED
        BY <3>2, <4>1, <4>2
    <3>3. QED
      BY <3>1, <3>2
  <2>2. ASSUME NEW i \in 1 .. Len(f), NEW j \in 1 .. Len(f), from[i] = from[j] PROVE i = j
    BY <1>2, <2>2
  <2>3. QED
    BY <2>1, <2>2
<1> HIDE DEF from
<1>5. RowsOf(f, n)
  <2>1. Len(f) <= MaxLines
    BY <1>1, <1>3
  <2>2. ASSUME NEW i \in 1 .. Len(f) PROVE Len(f[i]) = n
    <3>1. PICK j \in 1 .. Len(old) : f[i] = old[j]
      BY <1>4
    <3>2. QED
      BY <1>1, <3>1
  <2>3. QED
    BY <1>3, <2>1, <2>2 DEF RowsOf
<1>6. Apart(f, n)
  <2>1. ASSUME NEW i \in 1 .. Len(f), NEW j \in 1 .. Len(f), NEW c \in 1 .. n, NEW d \in 1 .. n,
               f[i][c] = f[j][d]
        PROVE  i = j /\ c = d
    <3>1. from[i] \in 1 .. Len(old) /\ from[j] \in 1 .. Len(old) /\ old[from[i]][c] = old[from[j]][d]
      BY <1>4, <2>1
    <3>2. from[i] = from[j] /\ c = d
      <4> DEFINE a == from[i]
                 b == from[j]
      <4>1. \A x, y \in 1 .. Len(old) : \A z, w \in 1 .. n : old[x][z] = old[y][w] => x = y /\ z = w
        BY <1>1 DEF Apart
      <4>2. /\ a \in 1 .. Len(old) /\ b \in 1 .. Len(old) /\ c \in 1 .. n /\ d \in 1 .. n
            /\ old[a][c] = old[b][d]
        BY <3>1
      <4> HIDE DEF a, b
      <4>3. a = b /\ c = d
        BY ONLY <4>1, <4>2
      <4>4. QED
        BY <4>3 DEF a, b
    <3>3. QED
      BY <1>4, <3>2
  <2>2. QED
    BY <2>1 DEF Apart
<1>7. Layout([below EXCEPT ![p] = f], [columns EXCEPT ![p] = n])
  <2>1. \A r \in 1 .. Len(f), c \in 1 .. n :
          \E s \in 1 .. Len(below[p]), d \in 1 .. columns[p] : f[r][c] = below[p][s][d]
    BY <1>4 DEF old, n
  <2>2. n \in Nat /\ (n <= MaxLines \/ n = 1)
    BY <1>1
  <2>3. QED
    BY <1>5, <1>6, <2>1, <2>2, LayoutKept
<1>8. QED
  BY <1>7 DEF f, n, old

(* Columns put in between columns.                                         *)
Woven(old, new, col) == [r \in 1 .. Len(old) |-> Lua!PutIn(old[r], col, new[r])]

LEMMA ColumnsWoven ==
  ASSUME NEW n \in Nat, NEW k \in Nat, NEW old \in Seq(Seq(Items)), NEW new \in Seq(Seq(Items)),
         NEW col \in 1 .. n + 1, Len(new) = Len(old),
         \A r \in 1 .. Len(old) : Len(old[r]) = n /\ Len(new[r]) = k,
         Apart(old, n), Apart(new, k),
         \A r, s \in 1 .. Len(old), c \in 1 .. n, d \in 1 .. k : old[r][c] # new[s][d]
  PROVE  LET f == Woven(old, new, col)
         IN  /\ f \in Seq(Seq(Items)) /\ Len(f) = Len(old)
             /\ \A r \in 1 .. Len(f) : Len(f[r]) = n + k
             /\ \A r \in 1 .. Len(f), c \in 1 .. n + k : \/ \E d \in 1 .. n : f[r][c] = old[r][d]
                                                         \/ \E d \in 1 .. k : f[r][c] = new[r][d]
             /\ Apart(f, n + k)
<1> DEFINE f == Woven(old, new, col)
           m == Len(old)
<1>1. m \in Nat /\ \A r \in 1 .. m : old[r] \in Seq(Items) /\ new[r] \in Seq(Items)
  OBVIOUS
<1>2. ASSUME NEW r \in 1 .. m
      PROVE  /\ f[r] \in Seq(Items) /\ Len(f[r]) = n + k
             /\ \A c \in 1 .. col - 1 : f[r][c] = old[r][c]
             /\ \A c \in col .. col + k - 1 : f[r][c] = new[r][c - col + 1]
             /\ \A c \in col + k .. n + k : f[r][c] = old[r][c - k]
  <2> DEFINE s == old[r]
             t == new[r]
             g == Lua!PutIn(s, col, t)
  <2>1. s \in Seq(Items) /\ t \in Seq(Items) /\ Len(s) = n /\ Len(t) = k
    BY <1>1
  <2>2. f[r] = g
    BY DEF Woven
  <2> HIDE DEF f, s, t
  <2>3. /\ g \in Seq(Items) /\ Len(g) = Len(s) + Len(t)
        /\ \A i \in 1 .. col - 1 : g[i] = s[i]
        /\ \A i \in col .. col + Len(t) - 1 : g[i] = t[i - col + 1]
        /\ \A i \in col + Len(t) .. Len(g) : g[i] = s[i - Len(t)]
    <3>1. col \in 1 .. Len(s) + 1
      BY <2>1
    <3>2. QED
      BY ONLY <2>1, <3>1, LuaPutIn
  <2> HIDE DEF g
  <2>4. QED
    BY <2>1, <2>2, <2>3 DEF s, t
<1>3. f \in Seq(Seq(Items)) /\ Len(f) = m
  <2>1. DOMAIN f = 1 .. m /\ f = [r \in DOMAIN f |-> f[r]]
    BY DEF Woven
  <2> HIDE DEF f, m
  <2> DEFINE S == Seq(Items)
  <2>2. \A r \in 1 .. m : f[r] \in S
    BY <1>2
  <2>3. m \in Nat
    BY <1>1
  <2> HIDE DEF S
  <2>4. f \in [1 .. m -> S]
    BY <2>1, <2>2
  <2>5. QED
    BY <2>3, <2>4 DEF S
<1> HIDE DEF f
<1> DEFINE R == 1 .. m
           C == 1 .. n
           K == 1 .. k
           A == 1 .. n + k
<1>4. ASSUME NEW r \in R, NEW c \in A
      PROVE  \/ c < col /\ c \in C /\ f[r][c] = old[r][c]
             \/ c >= col /\ c < col + k /\ \E d \in K : c = d + col - 1 /\ f[r][c] = new[r][d]
             \/ c >= col + k /\ \E d \in C : c = d + k /\ f[r][c] = old[r][d]
  <2> HIDE DEF m
  <2>1. CASE c < col
    <3>1. c \in 1 .. col - 1 /\ c \in C
      BY <2>1
    <3>2. f[r][c] = old[r][c]
      BY <1>2, <3>1
    <3>3. QED
      BY <2>1, <3>1, <3>2
  <2>2. CASE c >= col /\ c < col + k
    <3> DEFINE d == c - col + 1
    <3>1. c \in col .. col + k - 1 /\ d \in K /\ c = d + col - 1
      BY <2>2
    <3>2. f[r][c] = new[r][d]
      BY <1>2, <3>1
    <3> HIDE DEF d, K
    <3>3. QED
      BY <2>2, <3>1, <3>2
  <2>3. CASE c >= col + k
    <3> DEFINE d == c - k
    <3>1. c \in col + k .. n + k /\ d \in C /\ c = d + k
      BY <2>3
    <3>2. f[r][c] = old[r][d]
      BY <1>2, <3>1
    <3> HIDE DEF d, C
    <3>3. QED
      BY <2>3, <3>1, <3>2
  <2>4. QED
    BY <2>1, <2>2, <2>3
<1>5. /\ \A r, s \in R : \A c, d \in C : old[r][c] = old[s][d] => r = s /\ c = d
      /\ \A r, s \in R : \A c, d \in K : new[r][c] = new[s][d] => r = s /\ c = d
      /\ \A r, s \in R : \A c \in C, d \in K : old[r][c] # new[s][d]
  BY DEF Apart
<1>6. C \subseteq Int /\ K \subseteq Int /\ A \subseteq Int /\ col \in Int /\ k \in Int
  OBVIOUS
<1> HIDE DEF R, C, K, A
<1>7. \A r \in R, c \in A : \/ \E d \in C : f[r][c] = old[r][d]
                            \/ \E d \in K : f[r][c] = new[r][d]
  BY <1>4
<1>8. ASSUME NEW r \in R, NEW s \in R, NEW c \in A, NEW d \in A, f[r][c] = f[s][d]
      PROVE  r = s /\ c = d
  <2>1. CASE c < col /\ c \in C /\ f[r][c] = old[r][c]
    <3>1. CASE d < col /\ d \in C /\ f[s][d] = old[s][d]
      <4>1. old[r][c] = old[s][d]
        BY ONLY <1>8, <2>1, <3>1
      <4>2. QED
        BY ONLY <1>5, <1>8, <2>1, <3>1, <4>1
    <3>2. CASE \E e \in K : f[s][d] = new[s][e]
      <4>1. PICK e \in K : f[s][d] = new[s][e]
        BY <3>2
      <4>2. old[r][c] = new[s][e]
        BY ONLY <1>8, <2>1, <4>1
      <4>3. QED
        BY ONLY <1>5, <1>8, <2>1, <4>1, <4>2
    <3>3. CASE d >= col + k /\ \E e \in C : d = e + k /\ f[s][d] = old[s][e]
      <4>1. PICK e \in C : d = e + k /\ f[s][d] = old[s][e]
        BY <3>3
      <4>2. old[r][c] = old[s][e]
        BY ONLY <1>8, <2>1, <4>1
      <4>3. c = e
        BY ONLY <1>5, <1>8, <2>1, <4>1, <4>2
      <4>4. QED
        BY <1>6, <2>1, <3>3, <4>1, <4>3
    <3>4. QED
      BY <1>4, <3>1, <3>2, <3>3
  <2>2. CASE \E e \in K : c = e + col - 1 /\ f[r][c] = new[r][e]
    <3>1. PICK e \in K : c = e + col - 1 /\ f[r][c] = new[r][e]
      BY <2>2
    <3>2. CASE \E g \in K : d = g + col - 1 /\ f[s][d] = new[s][g]
      <4>1. PICK g \in K : d = g + col - 1 /\ f[s][d] = new[s][g]
        BY <3>2
      <4>2. r = s /\ e = g
        BY ONLY <1>5, <1>8, <3>1, <4>1
      <4>3. QED
        BY <3>1, <4>1, <4>2
    <3>3. CASE \E g \in C : f[s][d] = old[s][g]
      BY ONLY <1>5, <1>8, <3>1, <3>3
    <3>4. QED
      BY <1>4, <3>2, <3>3
  <2>3. CASE c >= col + k /\ \E e \in C : c = e + k /\ f[r][c] = old[r][e]
    <3>1. PICK e \in C : c = e + k /\ f[r][c] = old[r][e]
      BY <2>3
    <3>2. CASE d < col /\ d \in C /\ f[s][d] = old[s][d]
      <4>1. e = d
        BY ONLY <1>5, <1>8, <3>1, <3>2
      <4>2. QED
        BY <1>6, <2>3, <3>1, <3>2, <4>1
    <3>3. CASE \E g \in K : f[s][d] = new[s][g]
      BY ONLY <1>5, <1>8, <3>1, <3>3
    <3>4. CASE \E g \in C : d = g + k /\ f[s][d] = old[s][g]
      <4>1. PICK g \in C : d = g + k /\ f[s][d] = old[s][g]
        BY <3>4
      <4>2. r = s /\ e = g
        BY ONLY <1>5, <1>8, <3>1, <4>1
      <4>3. QED
        BY <3>1, <4>1, <4>2
    <3>5. QED
      BY <1>4, <3>2, <3>3, <3>4
  <2>4. QED
    BY <1>4, <2>1, <2>2, <2>3
<1>9. Apart(f, n + k)
  <2>1. R = 1 .. Len(f) /\ A = 1 .. n + k
    BY <1>3 DEF R, A
  <2>2. \A r, s \in R : \A c, d \in A : f[r][c] = f[s][d] => r = s /\ c = d
    BY <1>8
  <2>3. QED
    BY ONLY <2>1, <2>2 DEF Apart
<1>10. \A r \in 1 .. m : f[r] \in Seq(Items) /\ Len(f[r]) = n + k
  BY <1>2
<1>11. QED
  BY <1>3, <1>7, <1>9, <1>10 DEF f, m, R, C, K, A

LEMMA ColumnsPutIn ==
  ASSUME Layout(below, columns), NEW p \in Known0, NEW col \in 1 .. columns[p] + 1, NEW count \in Nat,
         columns[p] + count <= MaxLines, count * Len(below[p]) <= Len(Lua!New)
  PROVE  Layout([below EXCEPT ![p] = [r \in DOMAIN below[p] |-> Lua!PutIn(below[p][r], col, Lua!PartOf(Lua!New, r, count))]],
                [columns EXCEPT ![p] = columns[p] + count])
<1> DEFINE old == below[p]
           n == columns[p]
           m == Len(old)
           new == [k \in 1 .. m |-> Lua!PartOf(Lua!New, k, count)]
           f == Woven(old, new, col)
<1>1. /\ old \in Seq(Seq(Items)) /\ m \in Nat /\ n \in Nat /\ m <= MaxLines /\ MaxLines \in Nat
      /\ \A i \in 1 .. m : Len(old[i]) = n
      /\ Apart(old, n)
  BY OldRows, LuaSets DEF RowsOf
<1>2. /\ col \in 1 .. n + 1 /\ n + count <= MaxLines /\ count * m <= Len(Lua!New)
      /\ \A i \in 1 .. m, c \in 1 .. n : old[i][c] \in Lua!There
  BY PlaceIs
<1>3. [r \in DOMAIN below[p] |-> Lua!PutIn(below[p][r], col, Lua!PartOf(Lua!New, r, count))] = f
  <2>1. DOMAIN below[p] = 1 .. m
    BY <1>1
  <2>2. QED
    BY <2>1 DEF Woven
<1> HIDE DEF n
<1>4. /\ new \in Seq(Seq(Items)) /\ Len(new) = m
      /\ \A k \in 1 .. m : Len(new[k]) = count
      /\ \A k \in 1 .. m, c \in 1 .. count : new[k][c] \notin Lua!There
      /\ Apart(new, count)
  <2> HIDE DEF m
  <2>1. m * count <= Len(Lua!New)
    BY <1>1, <1>2
  <2>2. QED
    BY <1>1, <2>1, NewRows
<1> HIDE DEF new
<1>5. \A r, s \in 1 .. Len(old), c \in 1 .. n, d \in 1 .. count : old[r][c] # new[s][d]
  BY <1>2, <1>4
<1>6. /\ f \in Seq(Seq(Items)) /\ Len(f) = Len(old)
      /\ \A r \in 1 .. Len(f) : Len(f[r]) = n + count
      /\ \A r \in 1 .. Len(f), c \in 1 .. n + count : \/ \E d \in 1 .. n : f[r][c] = old[r][d]
                                                      \/ \E d \in 1 .. count : f[r][c] = new[r][d]
      /\ Apart(f, n + count)
  <2> HIDE DEF old
  <2>1. QED
    BY <1>1, <1>2, <1>4, <1>5, ColumnsWoven
<1> HIDE DEF f, old
<1>7. RowsOf(f, n + count)
  BY <1>1, <1>6 DEF RowsOf
<1>8. ASSUME NEW r \in 1 .. Len(f), NEW c \in 1 .. n + count
      PROVE  f[r][c] \notin Lua!There \/ \E s \in 1 .. Len(old), d \in 1 .. n : f[r][c] = old[s][d]
  <2>1. r \in 1 .. Len(old) /\ r \in 1 .. m
    BY <1>6 DEF m
  <2>2. CASE \E d \in 1 .. n : f[r][c] = old[r][d]
    BY ONLY <2>1, <2>2
  <2>3. CASE \E d \in 1 .. count : f[r][c] = new[r][d]
    <3>1. PICK d \in 1 .. count : f[r][c] = new[r][d]
      BY <2>3
    <3>2. new[r][d] \notin Lua!There
      BY <1>4, <2>1
    <3>3. QED
      BY ONLY <3>1, <3>2
  <2>4. QED
    BY <1>6, <2>2, <2>3
<1>9. Layout([below EXCEPT ![p] = f], [columns EXCEPT ![p] = n + count])
  <2>1. \A r \in 1 .. Len(f), c \in 1 .. n + count :
          \/ f[r][c] \notin Lua!There
          \/ \E s \in 1 .. Len(below[p]), d \in 1 .. columns[p] : f[r][c] = below[p][s][d]
    BY <1>8 DEF old, n
  <2>2. n + count \in Nat
    BY <1>1
  <2>3. QED
    BY <1>2, <1>6, <1>7, <2>1, <2>2, LayoutKept
<1>10. QED
  BY <1>3, <1>9 DEF n

LEMMA ColumnsTakenOut ==
  ASSUME Layout(below, columns), NEW p \in Known0, NEW col \in 1 .. columns[p], NEW count \in Nat \ {0},
         col + count <= columns[p] + 1
  PROVE  Layout([below EXCEPT ![p] = [r \in DOMAIN below[p] |-> Lua!TakenOut(below[p][r], col, count)]],
                [columns EXCEPT ![p] = columns[p] - count])
<1> DEFINE old == below[p]
           n == columns[p]
           m == Len(old)
           f == [r \in 1 .. m |-> Lua!TakenOut(old[r], col, count)]
           from == [c \in 1 .. n - count |-> IF c < col THEN c ELSE c + count]
<1>1. /\ old \in Seq(Seq(Items)) /\ m \in Nat /\ n \in Nat /\ m <= MaxLines /\ MaxLines \in Nat
      /\ \A i \in 1 .. m : old[i] \in Seq(Items) /\ Len(old[i]) = n
      /\ Apart(old, n) /\ (n <= MaxLines \/ n = 1)
  BY OldRows, LuaSets DEF RowsOf
<1>2. [r \in DOMAIN below[p] |-> Lua!TakenOut(below[p][r], col, count)] = f
  <2>1. DOMAIN below[p] = 1 .. m
    BY <1>1
  <2>2. QED
    BY <2>1
<1>3. col \in 1 .. n /\ col + count <= n + 1
  OBVIOUS
<1> HIDE DEF n, old
<1>4. ASSUME NEW r \in 1 .. m
      PROVE  /\ f[r] \in Seq(Items) /\ Len(f[r]) = n - count
             /\ \A c \in 1 .. col - 1 : f[r][c] = old[r][c]
             /\ \A c \in col .. n - count : f[r][c] = old[r][c + count]
  <2> DEFINE s == old[r]
             g == Lua!TakenOut(s, col, count)
  <2>1. s \in Seq(Items) /\ Len(s) = n /\ f[r] = g
    BY <1>1
  <2> HIDE DEF f, s
  <2>2. /\ g \in Seq(Items) /\ Len(g) = Len(s) - count
        /\ \A i \in 1 .. col - 1 : g[i] = s[i]
        /\ \A i \in col .. Len(g) : g[i] = s[i + count]
    BY <1>3, <2>1, LuaTakenOut
  <2> HIDE DEF g
  <2>3. QED
    BY <2>1, <2>2 DEF s
<1>5. f \in Seq(Seq(Items)) /\ Len(f) = m
  <2>1. f \in [1 .. m -> Seq(Items)]
    BY <1>4
  <2> HIDE DEF f, m
  <2>2. QED
    BY <1>1, <2>1
<1> HIDE DEF f, m
<1>6. /\ \A c \in 1 .. n - count : from[c] \in 1 .. n
      /\ \A c, d \in 1 .. n - count : from[c] = from[d] => c = d
      /\ \A r \in 1 .. m, c \in 1 .. n - count : f[r][c] = old[r][from[c]]
  <2>1. ASSUME NEW c \in 1 .. n - count PROVE from[c] \in 1 .. n
    BY <1>1, <1>3
  <2>2. ASSUME NEW c \in 1 .. n - count, NEW d \in 1 .. n - count, from[c] = from[d] PROVE c = d
    BY <1>1, <1>3, <2>2
  <2>3. ASSUME NEW r \in 1 .. m, NEW c \in 1 .. n - count PROVE f[r][c] = old[r][from[c]]
    <3>1. CASE c < col
      <4>1. from[c] = c /\ c \in 1 .. col - 1
        BY <1>3, <3>1
      <4>2. QED
        BY <1>4, <4>1
    <3>2. CASE ~ c < col
      <4>1. from[c] = c + count /\ c \in col .. n - count
        BY <1>1, <1>3, <3>2
      <4>2. QED
        BY <1>4, <4>1
    <3>3. QED
      BY <3>1, <3>2
  <2>4. QED
    BY <2>1, <2>2, <2>3
<1> HIDE DEF from
<1>7. RowsOf(f, n - count)
  BY <1>1, <1>4, <1>5 DEF RowsOf
<1>8. Apart(f, n - count)
  <2>1. ASSUME NEW r \in 1 .. m, NEW s \in 1 .. m, NEW c \in 1 .. n - count, NEW d \in 1 .. n - count,
               f[r][c] = f[s][d]
        PROVE  r = s /\ c = d
    <3> DEFINE a == from[c]
               b == from[d]
    <3>1. \A x, y \in 1 .. m : \A z, w \in 1 .. n : old[x][z] = old[y][w] => x = y /\ z = w
      BY <1>1 DEF Apart, m
    <3>2. a \in 1 .. n /\ b \in 1 .. n /\ old[r][a] = old[s][b]
      BY <1>6, <2>1
    <3> HIDE DEF a, b
    <3>3. r = s /\ a = b
      BY ONLY <3>1, <3>2, r \in 1 .. m, s \in 1 .. m
    <3>4. QED
      BY <1>6, <3>3 DEF a, b
  <2>2. QED
    BY <1>5, <2>1 DEF Apart
<1>9. \A r \in 1 .. Len(f), c \in 1 .. n - count :
        \E s \in 1 .. Len(below[p]), d \in 1 .. columns[p] : f[r][c] = below[p][s][d]
  BY <1>5, <1>6 DEF m, old, n
<1>10. n - count \in Nat /\ n - count <= MaxLines
  BY <1>1, <1>3
<1>11. Layout([below EXCEPT ![p] = f], [columns EXCEPT ![p] = n - count])
  BY <1>7, <1>8, <1>9, <1>10, LayoutKept
<1>12. QED
  BY <1>2, <1>11 DEF n

-----------------------------------------------------------------------------
(* The answers.                                                            *)

(* What the program says is a function of the rows and columns.            *)
PlacesIn(b) == {x \in (Items \cup {0}) \X (1 .. MaxLines) \X (1 .. MaxLines) :
                  x[2] \in DOMAIN b[x[1]] /\ x[3] \in DOMAIN b[x[1]][x[2]]}
ItemIn(b, x) == b[x[1]][x[2]][x[3]]
KnownIn(b) == {ItemIn(b, x) : x \in PlacesIn(b)} \cup {0}
PlaceIn(b, i) == CHOOSE x \in PlacesIn(b) : ItemIn(b, x) = i
IndexIn(b, i) == IF i = 0 THEN [item |-> 0, row |-> -1, column |-> -1]
                 ELSE [item |-> i, row |-> PlaceIn(b, i)[2] - 1, column |-> PlaceIn(b, i)[3] - 1]
GetIn(b, n, i, r, c) ==
  LET above == IF i = 0 THEN 0 ELSE PlaceIn(b, i)[1] IN
  [rows |-> Len(b[i]), columns |-> n[i],
   child |-> IF <<i, r, c>> \in PlacesIn(b) THEN ItemIn(b, <<i, r, c>>) ELSE 0,
   parent |-> above,
   row |-> IF Documented /\ i # 0 THEN PlaceIn(b, i)[2] ELSE IndexIn(b, above).row,
   column |-> IF Documented /\ i # 0 THEN PlaceIn(b, i)[3] ELSE IndexIn(b, above).column]

LEMMA LuaSays ==
  /\ Lua!Places = PlacesIn(below) /\ Lua!Places' = PlacesIn(below')
  /\ Lua!Known = KnownIn(below) /\ Lua!Known' = KnownIn(below')
  /\ \A i : Lua!PlaceOf(i) = PlaceIn(below, i) /\ Lua!PlaceOf(i)' = PlaceIn(below', i)
  /\ \A i : Lua!IndexOf(i) = IndexIn(below, i) /\ Lua!IndexOf(i)' = IndexIn(below', i)
  /\ \A i, r, c : /\ Lua!Get(i, r, c) = GetIn(below, columns, i, r, c)
                  /\ Lua!Get(i, r, c)' = GetIn(below', columns', i, r, c)
<1>1. Lua!Places = PlacesIn(below) /\ Lua!Places' = PlacesIn(below')
  BY DEF Lua!Places, Lua!RootItem, PlacesIn
<1>2. \A x : Lua!ItemAt(x) = ItemIn(below, x) /\ Lua!ItemAt(x)' = ItemIn(below', x)
  BY DEF Lua!ItemAt, ItemIn
<1>3. Lua!Known = KnownIn(below) /\ Lua!Known' = KnownIn(below')
  BY <1>1, <1>2 DEF Lua!Known, Lua!There, Lua!RootItem, KnownIn
<1>4. \A i : Lua!PlaceOf(i) = PlaceIn(below, i) /\ Lua!PlaceOf(i)' = PlaceIn(below', i)
  BY <1>1, <1>2 DEF Lua!PlaceOf, PlaceIn
<1>5. \A i : Lua!IndexOf(i) = IndexIn(below, i) /\ Lua!IndexOf(i)' = IndexIn(below', i)
  BY <1>4 DEF Lua!IndexOf, Lua!RootItem, Lua!NoIndex, IndexIn
<1>6. \A i, r, c : /\ Lua!Get(i, r, c) = GetIn(below, columns, i, r, c)
                   /\ Lua!Get(i, r, c)' = GetIn(below', columns', i, r, c)
  BY <1>1, <1>2, <1>4, <1>5 DEF Lua!Get, Lua!RootItem, GetIn
<1>7. QED
  BY <1>1, <1>3, <1>4, <1>5, <1>6

LuaInv == Layout(below, columns) /\ Lua!CacheTrue /\ Lua!AnswersTrue

LEMMA LayoutSame ==
  ASSUME LuaInv, UNCHANGED <<below, columns>>
  PROVE  Layout(below, columns)'
<1>1. Layout(below, columns)' = Layout(below', columns')
  BY DEF Layout, RowsOf
<1>2. QED
  BY <1>1 DEF LuaInv

LEMMA LuaSame ==
  ASSUME LuaInv, UNCHANGED lua
  PROVE  LuaInv'
<1>1. Layout(below, columns)'
  BY LayoutSame DEF lua
<1>2. Lua!CacheTrue'
  BY LuaSays DEF LuaInv, lua, Lua!CacheTrue
<1>3. Lua!AnswersTrue'
  BY LuaSays DEF LuaInv, lua, Lua!AnswersTrue
<1>4. QED
  BY <1>1, <1>2, <1>3 DEF LuaInv

(* The cached answer is that to the question.                              *)
LEMMA HitIsTrue ==
  ASSUME LuaInv, NEW i \in Lua!Known, NEW r, NEW c,
         cache' = Lua!cached_get(i, r, c), UNCHANGED <<below, columns>>
  PROVE  cache'.res = Lua!Get(i, r, c) /\ Lua!CacheTrue'
<1>1. cache'.res = Lua!Get(i, r, c) /\ cache'.item = i /\ cache'.row = r /\ cache'.column = c
  <2>1. CASE cache # <<>> /\ <<cache.item, cache.row, cache.column>> = <<i, r, c>>
    BY <2>1 DEF Lua!cached_get, LuaInv, Lua!CacheTrue
  <2>2. CASE ~ (cache # <<>> /\ <<cache.item, cache.row, cache.column>> = <<i, r, c>>)
    BY <2>2 DEF Lua!cached_get
  <2>3. QED
    BY <2>1, <2>2
<1>2. Lua!Known' = Lua!Known /\ Lua!Get(i, r, c)' = Lua!Get(i, r, c)
  BY LuaSays
<1>3. QED
  BY <1>1, <1>2 DEF Lua!CacheTrue

LEMMA CountsTold ==
  ASSUME LuaInv, NEW p, Lua!rowCount(p) \/ Lua!columnCount(p) \/ Lua!flags(p)
  PROVE  LuaInv'
<1> DEFINE r == Lua!IndexOf(p).row + 1
           c == Lua!IndexOf(p).column + 1
<1>1. /\ p \in Lua!Known /\ cache' = Lua!cached_get(p, r, c) /\ UNCHANGED <<below, columns>>
      /\ \/ answer' = <<>>
         \/ answer' = [question |-> "rows", of |-> p, row |-> r, column |-> c, told |-> cache'.res.rows]
         \/ answer' = [question |-> "columns", of |-> p, row |-> r, column |-> c, told |-> cache'.res.columns]
  BY DEF Lua!rowCount, Lua!columnCount, Lua!flags, Lua!About, Lua!Asked
<1> HIDE DEF r, c
<1>2. cache'.res = Lua!Get(p, r, c) /\ Lua!CacheTrue'
  BY <1>1, HitIsTrue
<1>3. cache'.res.rows = Len(below[p]) /\ cache'.res.columns = columns[p]
  BY <1>2 DEF Lua!Get
<1>4. Lua!AnswersTrue'
  BY <1>1, <1>3 DEF Lua!AnswersTrue
<1>5. Layout(below, columns)'
  BY <1>1, LayoutSame
<1>6. QED
  BY <1>2, <1>4, <1>5 DEF LuaInv

LEMMA ParentTold ==
  ASSUME LuaInv, Documented = FALSE, NEW p, Lua!parent(p)
  PROVE  LuaInv'
<1> DEFINE r == Lua!IndexOf(p).row + 1
           c == Lua!IndexOf(p).column + 1
           said(a) == IF a.parent = 0 THEN Lua!NoIndex
                      ELSE [item |-> a.parent, row |-> a.row, column |-> a.column]
<1>1. /\ p \in Lua!Known /\ cache' = Lua!cached_get(p, r, c) /\ UNCHANGED <<below, columns>>
      /\ p # 0
      /\ answer' = [question |-> "parent", of |-> p, row |-> r, column |-> c, told |-> said(cache'.res)]
  BY DEF Lua!parent, Lua!About, Lua!Asked, Lua!RootItem
<1> HIDE DEF r, c
<1>2. cache'.res = Lua!Get(p, r, c) /\ Lua!CacheTrue'
  BY <1>1, HitIsTrue
<1> DEFINE above == Lua!PlaceOf(p)[1]
<1>3. /\ cache'.res.parent = above
      /\ cache'.res.row = Lua!IndexOf(above).row /\ cache'.res.column = Lua!IndexOf(above).column
  BY <1>1, <1>2 DEF Lua!Get, Lua!RootItem
<1>4. said(cache'.res) = Lua!IndexOf(above)
  BY <1>3 DEF Lua!IndexOf, Lua!RootItem, Lua!NoIndex
<1>5. Lua!IndexOf(above) = Lua!IndexOf(Lua!PlaceOf(p)[1])'
  BY <1>1, LuaSays
<1> HIDE DEF said, above
<1>6. Lua!AnswersTrue'
  BY <1>1, <1>4, <1>5 DEF Lua!AnswersTrue
<1>7. Layout(below, columns)'
  BY <1>1, LayoutSame
<1>8. QED
  BY <1>2, <1>6, <1>7 DEF LuaInv

(* index leads to the item there, whose index has the place.               *)
LEMMA IndexTold ==
  ASSUME LuaInv, NEW p \in Known0, NEW r \in 1 .. MaxLines, NEW c \in 1 .. MaxLines, Lua!index(r - 1, c - 1, p)
  PROVE  LuaInv'
<1>1. (r - 1) + 1 = r /\ (c - 1) + 1 = c
  BY LuaSets
<1> DEFINE said(a) == [item |-> a.child, row |-> r - 1, column |-> c - 1]
<1>2. /\ p \in Lua!Known /\ cache' = Lua!cached_get(p, r, c) /\ UNCHANGED <<below, columns>>
      /\ <<p, r, c>> \in Lua!Places
      /\ answer' = [question |-> "index", of |-> p, row |-> r, column |-> c, told |-> said(cache'.res)]
  BY <1>1 DEF Lua!index, Lua!Asked
<1>3. cache'.res = Lua!Get(p, r, c) /\ Lua!CacheTrue'
  BY <1>2, HitIsTrue
<1> DEFINE i == below[p][r][c]
<1>4. r \in 1 .. Len(below[p]) /\ c \in 1 .. columns[p]
  BY <1>2, PlacesAre DEF LuaInv
<1>5. Lua!PlaceOf(i) = <<p, r, c>> /\ i \in Items
  BY <1>4, PlaceIs DEF LuaInv
<1>6. cache'.res.child = i
  BY <1>2, <1>3 DEF Lua!Get, Lua!ItemAt
<1>7. i # 0
  BY <1>5, LuaSets
<1> HIDE DEF i
<1>8. Lua!IndexOf(i) = said(cache'.res)
  BY <1>5, <1>6, <1>7 DEF Lua!IndexOf, Lua!RootItem
<1>9. Lua!IndexOf(i)' = Lua!IndexOf(i)
  BY <1>2, LuaSays DEF i
<1> HIDE DEF said
<1>10. Lua!AnswersTrue'
  BY <1>2, <1>8, <1>9 DEF Lua!AnswersTrue, i
<1>11. Layout(below, columns)'
  BY <1>2, LayoutSame
<1>12. QED
  BY <1>3, <1>10, <1>11 DEF LuaInv

LEMMA ChangedTold ==
  ASSUME LuaInv, "stale" \in Avoided, NEW p, NEW f, NEW n, Lua!Changed(p, f, n),
         Layout([below EXCEPT ![p] = f], [columns EXCEPT ![p] = n])
  PROVE  LuaInv'
<1>1. Lua!AnswersTrue'
  BY DEF Lua!Changed, Lua!AnswersTrue
<1>2. CASE Lua!error
  <2>1. Layout(below, columns)'
    BY <1>2, LayoutSame DEF Lua!error
  <2>2. Lua!CacheTrue'
    BY <1>2 DEF Lua!error, Lua!CacheTrue
  <2>3. QED
    BY <1>1, <2>1, <2>2 DEF LuaInv
<1>3. CASE ~ Lua!error
  <2>1. below' = [below EXCEPT ![p] = f] /\ columns' = [columns EXCEPT ![p] = n] /\ Lua!CacheTrue'
    BY <1>3 DEF Lua!Changed
  <2>2. Layout(below, columns)'
    BY <2>1
  <2>3. QED
    BY <1>1, <2>1, <2>2 DEF LuaInv
<1>4. QED
  BY <1>2, <1>3

LEMMA ProgramChanged ==
  ASSUME LuaInv, "stale" \in Avoided, NEW p \in Known0, NEW at \in 1 .. MaxLines, NEW count \in 1 .. MaxLines,
         \/ Lua!insertRows(at, count, p) \/ Lua!removeRows(at, count, p)
         \/ Lua!insertColumns(at, count, p) \/ Lua!removeColumns(at, count, p)
  PROVE  LuaInv'
<1>1. Layout(below, columns) /\ at \in Nat \ {0} /\ count \in Nat \ {0}
  BY LuaSets DEF LuaInv
<1>2. below[p] \in Seq(Seq(Items)) /\ Len(below[p]) \in Nat /\ columns[p] \in Nat
  BY <1>1, OldRows
<1>3. CASE Lua!insertRows(at, count, p)
  BY <1>1, <1>3, RowsPutIn, ChangedTold DEF Lua!insertRows
<1>4. CASE Lua!removeRows(at, count, p)
  <2>1. at \in 1 .. Len(below[p]) /\ at + count <= Len(below[p]) + 1
    BY <1>1, <1>2, <1>4 DEF Lua!removeRows
  <2>2. QED
    BY <1>1, <1>4, <2>1, RowsTakenOut, ChangedTold DEF Lua!removeRows
<1>5. CASE Lua!insertColumns(at, count, p)
  <2>1. /\ at \in 1 .. columns[p] + 1 /\ columns[p] + count <= MaxLines /\ count * Len(below[p]) <= Len(Lua!New)
        /\ Lua!Changed(p, [r \in DOMAIN below[p] |-> Lua!PutIn(below[p][r], at, Lua!PartOf(Lua!New, r, count))],
                       columns[p] + count)
    BY <1>5 DEF Lua!insertColumns
  <2>2. QED
    BY <1>1, <2>1, ColumnsPutIn, ChangedTold
<1>6. CASE Lua!removeColumns(at, count, p)
  <2>1. /\ at \in 1 .. columns[p] /\ at + count <= columns[p] + 1
        /\ Lua!Changed(p, [r \in DOMAIN below[p] |-> Lua!TakenOut(below[p][r], at, count)], columns[p] - count)
    BY <1>1, <1>2, <1>6 DEF Lua!removeColumns
  <2>2. QED
    BY <1>1, <2>1, ColumnsTakenOut, ChangedTold
<1>7. QED
  BY <1>3, <1>4, <1>5, <1>6

LEMMA LuaInitially ==
  ASSUME Init, "garbage" \in Avoided
  PROVE  LuaInv
<1>1. cache = <<>> /\ answer = <<>>
  BY DEF Init, Lua!Init
<1>2. below = [i \in Known0 |-> <<>>] /\ columns = [i \in Known0 |-> 1]
  BY DEF Init, Lua!Init, Lua!RootItem, Known0
<1>3. Layout(below, columns)
  <2>1. <<>> \in Seq(Seq(Items)) /\ Len(<<>>) = 0 /\ MaxLines \in Nat
    BY LuaSets
  <2>2. /\ below \in [Known0 -> Seq(Seq(Items))] /\ columns \in [Known0 -> Nat]
        /\ \A p \in Known0 : below[p] = <<>> /\ Len(below[p]) = 0 /\ columns[p] = 1
    BY <1>2, <2>1
  <2>3. QED
    BY <2>1, <2>2 DEF Layout, RowsOf
<1>4. QED
  BY <1>1, <1>3 DEF LuaInv, Lua!CacheTrue, Lua!AnswersTrue

LEMMA LuaKept ==
  ASSUME LuaInv, [Next]_vars, "stale" \in Avoided, Documented = FALSE
  PROVE  LuaInv'
<1>1. CASE UNCHANGED vars \/ GridStep \/ TreeStep
  BY <1>1, LuaSame DEF vars, GridStep, TreeStep
<1>2. CASE LuaStep
  <2>1. PICK p \in Known0 :
          \/ Lua!rowCount(p) \/ Lua!columnCount(p) \/ Lua!parent(p) \/ Lua!flags(p) \/ Lua!data(p) \/ Lua!setData(p)
          \/ \E r, c \in 1 .. MaxLines : Lua!index(r - 1, c - 1, p)
          \/ \E at, count \in 1 .. MaxLines :
               \/ Lua!insertRows(at, count, p) \/ Lua!removeRows(at, count, p)
               \/ Lua!insertColumns(at, count, p) \/ Lua!removeColumns(at, count, p)
    BY <1>2 DEF LuaStep, Lua!Next, Lua!RootItem, Known0
  <2>2. CASE Lua!rowCount(p) \/ Lua!columnCount(p) \/ Lua!flags(p)
    BY <2>2, CountsTold
  <2>3. CASE Lua!parent(p)
    BY <2>3, ParentTold
  <2>4. CASE Lua!data(p) \/ Lua!setData(p)
    <3>1. answer' = <<>> /\ UNCHANGED <<below, columns, cache>>
      BY <2>4 DEF Lua!data, Lua!setData, Lua!ToProgram
    <3>2. Layout(below, columns)'
      BY <3>1, LayoutSame
    <3>3. Lua!CacheTrue'
      BY <3>1, LuaSays DEF LuaInv, Lua!CacheTrue
    <3>4. Lua!AnswersTrue'
      BY <3>1 DEF Lua!AnswersTrue
    <3>5. QED
      BY <3>2, <3>3, <3>4 DEF LuaInv
  <2>5. CASE \E r, c \in 1 .. MaxLines : Lua!index(r - 1, c - 1, p)
    BY <2>5, IndexTold
  <2>6. CASE \E at, count \in 1 .. MaxLines :
               \/ Lua!insertRows(at, count, p) \/ Lua!removeRows(at, count, p)
               \/ Lua!insertColumns(at, count, p) \/ Lua!removeColumns(at, count, p)
    BY <2>6, ProgramChanged
  <2>7. QED
    BY <2>1, <2>2, <2>3, <2>4, <2>5, <2>6
<1>3. QED
  BY <1>1, <1>2 DEF Next

(* However many items, rows and columns: what Qt is told of a LuaModel is  *)
(* so, though it may be the cached answer to another question, as long as  *)
(* programs give the positions that the code needs and do not make the     *)
(* cached answer stale (LuaModel::cached_get, index, parent, rowCount,     *)
(* columnCount).                                                           *)
THEOREM AnswersAreTrue ==
  Documented = FALSE /\ {"stale", "garbage"} \subseteq Avoided => (Spec => []AnswersTrue)
<1>1. SUFFICES ASSUME Documented = FALSE, "stale" \in Avoided, "garbage" \in Avoided
               PROVE  Spec => []AnswersTrue
  OBVIOUS
<1>2. Init => LuaInv
  BY <1>1, LuaInitially
<1>3. LuaInv /\ [Next]_vars => LuaInv'
  BY <1>1, LuaKept
<1>4. LuaInv => AnswersTrue
  BY DEF LuaInv, AnswersTrue
<1>5. QED
  BY <1>2, <1>3, <1>4, PTL DEF Spec
=============================================================================
