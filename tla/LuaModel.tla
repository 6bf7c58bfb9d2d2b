------------------------------ MODULE LuaModel ------------------------------
(***************************************************************************)
(* LuaModel: a model of Qt that a program in Lua provides as functions.    *)
(* The answer to the last question about an item is cached, and every      *)
(* function of the model that needs the layout asks through the cache.     *)
(***************************************************************************)
EXTENDS Integers, FiniteSets, SequencesExt

CONSTANTS
  Items,      \* the numbers that the program gives its items; the root is 0
  MaxLines,   \* bound: rows, and columns, below an item
  Documented, \* whether the program gives the positions that the documentation asks for
  Avoided     \* what programs and Qt keep clear of

RootItem == 0

LuaModelAssumption ==
  /\ Items \subseteq Nat \ {RootItem} /\ IsFiniteSet(Items) /\ MaxLines \in Nat /\ Documented \in BOOLEAN

VARIABLES
  below,    \* of the items and the root: their rows, each a sequence of items
  columns,  \* and how many columns these have
  enabled,  \* FALSE once an error has disabled the model
  cache,    \* the last question and its answer, <<>> when there is none
  answer    \* what Qt has just been told, <<>> if nothing
vars == <<below, columns, enabled, cache, answer>>

(***************************************************************************)
(* The program: its function get, asked for the layout.                    *)
(***************************************************************************)

\* The parent, the row and the column of each.
Places == {x \in (Items \cup {RootItem}) \X (1 .. MaxLines) \X (1 .. MaxLines) :
             x[2] \in DOMAIN below[x[1]] /\ x[3] \in DOMAIN below[x[1]][x[2]]}
ItemAt(x) == below[x[1]][x[2]][x[3]]
There == {ItemAt(x) : x \in Places}
Known == There \cup {RootItem}
PlaceOf(i) == CHOOSE x \in Places : ItemAt(x) = i

\* An index has the item in its pointer and the row and column, which count from 0; the index
\* of the root is not valid.
NoIndex == [item |-> RootItem, row |-> -1, column |-> -1]
IndexOf(i) == IF i = RootItem THEN NoIndex
              ELSE [item |-> i, row |-> PlaceOf(i)[2] - 1, column |-> PlaceOf(i)[3] - 1]

\* The last two values are to be the place of the item in its parent, from 1; what the model
\* needs is that of the parent in its own, from 0.
Get(i, r, c) ==
  LET above == IF i = RootItem THEN RootItem ELSE PlaceOf(i)[1] IN
  [rows |-> Len(below[i]), columns |-> columns[i],
   child |-> IF <<i, r, c>> \in Places THEN ItemAt(<<i, r, c>>) ELSE RootItem,
   parent |-> above,
   row |-> IF Documented /\ i # RootItem THEN PlaceOf(i)[2] ELSE IndexOf(above).row,
   column |-> IF Documented /\ i # RootItem THEN PlaceOf(i)[3] ELSE IndexOf(above).column]

(***************************************************************************)
(* The questions of Qt.                                                    *)
(***************************************************************************)

\* Mutant of cached_get: the column is not looked at.
cached_get_by_row(i, r, c) ==
  IF cache # <<>> /\ <<cache.item, cache.row>> = <<i, r>> THEN cache
  ELSE [item |-> i, row |-> r, column |-> c, res |-> Get(i, r, c)]

cached_get(i, r, c) ==
  IF cache # <<>> /\ <<cache.item, cache.row, cache.column>> = <<i, r, c>> THEN cache
  ELSE [item |-> i, row |-> r, column |-> c, res |-> Get(i, r, c)]

\* Question q about item p, with row r and column c, is answered with what is said of the answer
\* of the program.
Asked(q, p, r, c, said(_)) ==
  LET hit == cached_get(p, r, c) IN
  /\ cache' = hit
  /\ answer' = IF q = "flags" THEN <<>>
               ELSE [question |-> q, of |-> p, row |-> r, column |-> c, told |-> said(hit.res)]
  /\ UNCHANGED <<below, columns, enabled>>

\* About the item itself.
About(q, p, said(_)) ==
  /\ enabled /\ p \in Known
  /\ Asked(q, p, IndexOf(p).row + 1, IndexOf(p).column + 1, said)

rowCount(p) == About("rows", p, LAMBDA a : a.rows)
columnCount(p) == About("columns", p, LAMBDA a : a.columns)

\* What the flags are is left out.
flags(p) == About("flags", p, LAMBDA a : <<>>)

parent(p) ==
  /\ p # RootItem
  /\ About("parent", p, LAMBDA a : IF a.parent = RootItem THEN NoIndex
                                   ELSE [item |-> a.parent, row |-> a.row, column |-> a.column])

\* Of a place below p that is there.
index(row, column, p) ==
  /\ enabled /\ p \in Known /\ <<p, row + 1, column + 1>> \in Places
  /\ Asked("index", p, row + 1, column + 1,
           LAMBDA a : [item |-> a.child, row |-> row, column |-> column])

\* What an item shows is asked for, and set, past the cache; an error does not disable the model.
ToProgram(p) ==
  /\ enabled /\ p \in There
  /\ answer' = <<>>
  /\ UNCHANGED <<below, columns, enabled, cache>>
data(p) == ToProgram(p)
setData(p) == ToProgram(p)

(***************************************************************************)
(* The changes.  Each is two calls of the program: whether it agrees, and  *)
(* to do it, between begin... and end... of Qt.                            *)
(***************************************************************************)

\* The cached answer is what the program would say now.
CacheTrue ==
  cache # <<>> => /\ cache.item \in Known
                  /\ cache.res = Get(cache.item, cache.row, cache.column)

\* The model is disabled, asks nothing and reads the cache no more.
error == enabled' = FALSE /\ cache' = <<>> /\ UNCHANGED <<below, columns>>

\* The program does not agree, and nothing changes; or it makes f the rows below p, of n items
\* each, and items that go have none below them; or it fails in one of the calls.
Changed(p, f, n) ==
  /\ enabled /\ p \in Known
  /\ answer' = <<>>
  /\ \/ /\ below' = [below EXCEPT ![p] = f] /\ columns' = [columns EXCEPT ![p] = n]
        /\ \A i \in Items \ There' : below[i] = <<>>
        /\ UNCHANGED <<enabled, cache>>
        /\ "stale" \in Avoided => CacheTrue'
     \/ error

New == SetToSeq(Items \ There)
PutIn(s, at, t) == SubSeq(s, 1, at - 1) \o t \o SubSeq(s, at, Len(s))
TakenOut(s, at, count) == SubSeq(s, 1, at - 1) \o SubSeq(s, at + count, Len(s))
PartOf(s, k, n) == SubSeq(s, (k - 1) * n + 1, k * n)

insertRows(row, count, p) ==
  LET n == columns[p] IN
  /\ row \in 1 .. Len(below[p]) + 1 /\ Len(below[p]) + count <= MaxLines /\ count * n <= Len(New)
  /\ Changed(p, PutIn(below[p], row, [k \in 1 .. count |-> PartOf(New, k, n)]), n)

removeRows(row, count, p) ==
  /\ row + count - 1 \in DOMAIN below[p]
  /\ Changed(p, TakenOut(below[p], row, count), columns[p])

insertColumns(col, count, p) ==
  /\ col \in 1 .. columns[p] + 1 /\ columns[p] + count <= MaxLines
  /\ count * Len(below[p]) <= Len(New)
  /\ Changed(p, [r \in DOMAIN below[p] |-> PutIn(below[p][r], col, PartOf(New, r, count))], columns[p] + count)

removeColumns(col, count, p) ==
  /\ col + count - 1 \in 1 .. columns[p]
  /\ Changed(p, [r \in DOMAIN below[p] |-> TakenOut(below[p][r], col, count)], columns[p] - count)

\* The cache is not initialized.
Init ==
  /\ below = [i \in Items \cup {RootItem} |-> <<>>]
  /\ columns = [i \in Items \cup {RootItem} |-> 1]
  /\ enabled = TRUE
  /\ cache \in {<<>>} \cup (IF "garbage" \in Avoided THEN {} ELSE
                 {[item |-> 0, row |-> 0, column |-> 0,
                   res |-> [rows |-> n, columns |-> n, child |-> n, parent |-> n, row |-> n, column |-> n]] :
                     n \in 0 .. MaxLines})
  /\ answer = <<>>

Next ==
  \E p \in Items \cup {RootItem} :
    \/ rowCount(p) \/ columnCount(p) \/ parent(p) \/ flags(p) \/ data(p) \/ setData(p)
    \/ \E r, c \in 1 .. MaxLines : index(r - 1, c - 1, p)
    \/ \E at, count \in 1 .. MaxLines :
         \/ insertRows(at, count, p) \/ removeRows(at, count, p)
         \/ insertColumns(at, count, p) \/ removeColumns(at, count, p)

Spec == Init /\ [][Next]_vars

(***************************************************************************)
(* Properties.                                                             *)
(***************************************************************************)

\* What Qt is told is so, though it may be the cached answer to another question: index() leads
\* to the item there, parent() back to the index of the item above, and the counts are those of
\* the program (cached_get, index, parent, rowCount, columnCount).
AnswersTrue ==
  answer # <<>> =>
    LET p == answer.of
        q == answer.question
    IN answer.told =
         CASE q = "rows" -> Len(below[p])
           [] q = "columns" -> columns[p]
           [] q = "parent" -> IndexOf(PlaceOf(p)[1])
           [] q = "index" -> IndexOf(below[p][answer.row][answer.column])
=============================================================================
