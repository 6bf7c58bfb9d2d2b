--------------------------- MODULE ConsoleHistory ---------------------------
(***************************************************************************)
(* The command history of the Console widget: the lines validated, the     *)
(* line being edited, which is its last entry, and the entry shown in the  *)
(* input line, to which the keys up, down and search move.  Entries may be *)
(* edited in place.  Application code may replace or shorten the history   *)
(* at any time, and saves it and restores it in another session.           *)
(*                                                                         *)
(* Where the input line is in the text of the widget is the business of    *)
(* module ConsoleText.                                                     *)
(***************************************************************************)
EXTENDS Integers, Sequences, SequencesExt

CONSTANTS
  Line,        \* the texts of input lines
  Empty,       \* the empty one
  Trim,        \* Trim[l]: QString::trimmed
  Within,      \* the <<s, l>> where s occurs in the line l
  Given,       \* the histories application code sets or constructs with
  Limit,       \* _history_size of a new console (100 in the code)
  Sizes,       \* the values given to set_history_size
  MaxSaved     \* bound: the longest history that is saved

ASSUME HistoryAssumption ==
  /\ Empty \in Line
  /\ Trim \in [Line -> Line] /\ Trim[Empty] = Empty
  /\ Given \subseteq Seq(Line) /\ << >> \in Given
  /\ Limit \in Nat \ {0} /\ Sizes \subseteq Nat /\ MaxSaved \in Nat

VARIABLES
  history,  \* _history
  ndx,      \* _history_ndx, an index from 0
  limit,    \* _history_size
  input,    \* the text of the input line
  found,    \* the selected part of it, which a search has selected, or Empty
  saved,    \* the lines in the settings
  fault,    \* TRUE once an entry has been accessed that does not exist
  did       \* observer: what was done last

history_vars == <<history, ndx, limit, input, found, saved, fault, did>>

Exists(k) == k \in 0 .. Len(history) - 1

(* s holds the entries of h at the positions K, in their order.            *)
EntriesAt(s, h, K) ==
  \E at \in [1 .. Len(s) -> K] :
    /\ \A k \in K : \E i \in 1 .. Len(s) : at[i] = k
    /\ \A i, j \in 1 .. Len(s) : i < j => at[i] < at[j]
    /\ \A i \in 1 .. Len(s) : s[i] = h[at[i]]

(* The constructor with the history h.                                     *)
HistoryInit ==
  /\ \E h \in Given : history = Append(h, Empty) /\ ndx = Len(h)
  /\ limit = Limit
  /\ input = Empty /\ found = Empty
  /\ saved = << >>
  /\ fault = FALSE
  /\ did = "start"

(* Qt: the user edits the input line.                                      *)
HistoryType(l) ==
  /\ input' = l /\ found' = Empty /\ did' = "type"
  /\ UNCHANGED <<history, ndx, limit, saved, fault>>

Fault(what) ==
  /\ fault' = TRUE /\ did' = what
  /\ UNCHANGED <<history, ndx, limit, input, found, saved>>

(* Mutant of Move: the entry left is not updated.                          *)
MoveForgetting(k, what) ==
  IF Exists(ndx)
  THEN /\ ndx' = k
       /\ input' = history[k + 1]
       /\ found' = Empty /\ did' = what
       /\ UNCHANGED <<history, limit, saved, fault>>
  ELSE Fault(what)

(* What the keys up and down do: the entry shown takes the input line,     *)
(* which takes the entry k.                                                *)
Move(k, what) ==
  IF Exists(ndx)
  THEN /\ history' = ReplaceAt(history, ndx + 1, input)
       /\ ndx' = k
       /\ input' = history[k + 1]
       /\ found' = Empty /\ did' = what
       /\ UNCHANGED <<limit, saved, fault>>
  ELSE Fault(what)

HistoryUp == ndx # 0 /\ Move(ndx - 1, "up")

HistoryDown == ndx + 1 < Len(history) /\ Move(ndx + 1, "down")

(* Where a search in a direction finds str, as a position from 1, or 0.    *)
FoundAt(str, direction) ==
  LET Match(l) == <<str, l>> \in Within
  IN  IF ~ Exists(ndx + direction) THEN 0
      ELSE IF direction < 0
           THEN SelectLastInSubSeq(history, 1, ndx, Match)
           ELSE SelectInSubSeq(history, ndx + 2, Len(history), Match)

(* A search for what the last one selected, or for the whole input line.   *)
HistoryFind(direction) ==
  LET str == IF found = Empty THEN Trim[input] ELSE found
      k == FoundAt(str, direction)
  IN  /\ str # Empty /\ k # 0
      /\ ndx' = k - 1
      /\ input' = history[k]
      /\ found' = str /\ did' = "find"
      /\ UNCHANGED <<history, limit, saved, fault>>

-----------------------------------------------------------------------------
(* The newest entries, at most n.                                          *)
Strip(h, n) == SubSeq(h, (IF Len(h) > n THEN Len(h) - n ELSE 0) + 1, Len(h))

(* The last of the validated lines that equals l goes.                     *)
WithoutDuplicate(h, l) ==
  LET prev == SelectLastInSubSeq(h, 1, Len(h) - 1, LAMBDA e : e = l)
  IN  IF prev = 0 THEN h ELSE RemoveAt(h, prev)

(* Mutant of Entered: old entries are never stripped.                      *)
EnteredUnbounded(l) ==
  IF l = Empty THEN history
  ELSE LET h == WithoutDuplicate(history, l) IN Append(ReplaceAt(h, Len(h), l), Empty)

(* The history once the line l has been entered.                           *)
Entered(l) ==
  LET h == Strip(history, limit)
      u == WithoutDuplicate(h, l)
  IN  IF l = Empty THEN h ELSE Append(ReplaceAt(u, Len(u), l), Empty)

HistoryEnter ==
  LET l == Trim[input]
  IN  IF l # Empty /\ Strip(history, limit) = << >>
      THEN Fault("enter")
      ELSE /\ history' = Entered(l)
           /\ ndx' = Len(history') - 1
           /\ input' = Empty /\ found' = Empty /\ did' = "enter"
           /\ UNCHANGED <<limit, saved, fault>>

(* Ctrl-C: a new prompt; the history and its index stay.                   *)
HistoryInterrupt ==
  /\ input' = Empty /\ found' = Empty /\ did' = "interrupt"
  /\ UNCHANGED <<history, ndx, limit, saved, fault>>

-----------------------------------------------------------------------------
(* Application code.                                                       *)

SetHistory(h) ==
  /\ history' = Append(h, Empty)
  /\ ndx' = Len(h)
  /\ did' = "set"
  /\ UNCHANGED <<limit, input, found, saved, fault>>

SetHistorySize(n) ==
  /\ limit' = n
  /\ history' = Strip(history, n)
  /\ did' = "resize"
  /\ UNCHANGED <<ndx, input, found, saved, fault>>

(* Lines that are blank are not saved.                                     *)
SaveHistory ==
  /\ \E n \in 0 .. MaxSaved : \E s \in [1 .. n -> Line] :
       /\ EntriesAt(s, history, {k \in 1 .. Len(history) : Trim[history[k]] # Empty})
       /\ saved' = s
  /\ did' = "save"
  /\ UNCHANGED <<history, ndx, limit, input, found, fault>>

(* The settings hold a history, or none.                                   *)
LoadHistory ==
  /\ saved # << >>
  /\ history' = Append(saved, Empty)
  /\ ndx' = Len(saved)
  /\ did' = "load"
  /\ UNCHANGED <<limit, input, found, saved, fault>>

(* The program ends, or crashes, and runs again: a new console, before its *)
(* history is loaded.                                                      *)
Restart ==
  /\ history' = <<Empty>> /\ ndx' = 0 /\ limit' = Limit
  /\ input' = Empty /\ found' = Empty /\ fault' = FALSE
  /\ did' = "start"
  /\ UNCHANGED saved

HistoryNext ==
  \/ ~ fault /\ \E l \in Line : HistoryType(l)
  \/ ~ fault /\ HistoryEnter
  \/ ~ fault /\ HistoryInterrupt
  \/ ~ fault /\ HistoryUp
  \/ ~ fault /\ HistoryDown
  \/ ~ fault /\ \E d \in {-1, 1} : HistoryFind(d)
  \/ ~ fault /\ \E h \in Given : SetHistory(h)
  \/ ~ fault /\ \E n \in Sizes : SetHistorySize(n)
  \/ ~ fault /\ SaveHistory
  \/ ~ fault /\ LoadHistory
  \/ Restart

HistorySpec == HistoryInit /\ [][HistoryNext]_history_vars

-----------------------------------------------------------------------------
HistoryTypeOK ==
  /\ history \in Seq(Line)
  /\ ndx \in Nat \cup {-1}
  /\ limit \in Nat
  /\ input \in Line /\ found \in Line
  /\ saved \in Seq(Line)
  /\ fault \in BOOLEAN
  /\ did \in {"start", "type", "enter", "interrupt", "up", "down", "find",
              "set", "resize", "save", "load"}

(* The entry shown is one of the history: the keys up, down and enter      *)
(* access no entry beyond it, which QList does not survive.  Not invariant:*)
(* set_history_size leaves the index where it was.                         *)
IndexInHistory == ~ fault /\ Exists(ndx)

(* What the user would see going through the whole history: the entries,   *)
(* and the input line in place of the one that is shown.                   *)
Seen == ReplaceAt(history, ndx + 1, input)

(* Going up and down loses nothing that was typed, be it in the last line  *)
(* or over an old one, and no handler but set_history_size takes the index *)
(* out of the history.                                                     *)
NavigationKeepsLines ==
  [][/\ did' # "resize" /\ IndexInHistory => IndexInHistory'
     /\ did' \in {"up", "down"} /\ ~ fault' => Seen' = Seen]_history_vars

(* Entering a line puts it last and drops no other line, but the oldest    *)
(* ones of a history that is longer than the limit, and leaves at most     *)
(* _history_size validated ones.                                           *)
EnterKeepsOthers ==
  [][did' = "enter" /\ ~ fault' =>
       /\ Len(history') <= limit + 1
       /\ Trim[input] # Empty =>
            LET before == Front(history)
                after == Front(Front(history'))
            IN  /\ history' = Append(Append(after, Trim[input]), Empty)
                /\ \E K \in SUBSET (1 .. Len(before)) :
                     /\ EntriesAt(after, before, K)
                     /\ \A k \in 1 .. Len(before) :
                          \/ k \in K
                          \/ before[k] = Trim[input]
                          \/ Len(history) > limit /\ \A i \in K : k < i]_history_vars
=============================================================================
