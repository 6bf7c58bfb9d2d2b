---------------------------- MODULE ConsoleText ----------------------------
(***************************************************************************)
(* The text of the Console widget and the positions it keeps in it.        *)
(*                                                                         *)
(* One QTextDocument holds the printed text, below it the list of the      *)
(* completion candidates, the prompt, and the line the user edits, and the *)
(* widget keeps four positions in it as plain integers:                    *)
(*                                                                         *)
(*    printed text | candidates | prompt | input line                      *)
(*           completeStart  promptStart lineStart                          *)
(*                                                                         *)
(* and mark, somewhere in the input line.  Qt moves its own cursor when    *)
(* text is inserted or removed before it, and removes the first lines of   *)
(* a document that is limited to a number of lines; the four integers are  *)
(* adjusted by hand.  Printing happens in a timer event between any two    *)
(* key or mouse events.                                                    *)
(*                                                                         *)
(* The document is a sequence of cells, each a run of characters nothing   *)
(* tells apart; the cells in LineEnd end a line.                           *)
(***************************************************************************)
EXTENDS Integers, Sequences, SequencesExt, FiniteSets

CONSTANTS
  None,            \* the mouse button is up
  Outputs,         \* the texts printed at a time, sequences of OutputCell
  ScrollBacks,     \* the values given to set_scroll_back
  ScrollBack,      \* the ones a console starts with: the number of lines to keep
  Careful,         \* whether users keep clear of what the code gets wrong
  MaxInput,        \* bound: the length of the input line
  MaxText          \* bound: nothing is printed above this length of the text

(* A part of a line of output, an output line end, a candidate with its    *)
(* line end, the prompt, the text and the line ends of an input line, and  *)
(* the line end that closes it.                                            *)
OutputCell == {"part", "output"}
InputCell == {"typed", "pasted"}
LineEnd == {"output", "candidate", "pasted", "entered"}
Cell == OutputCell \cup InputCell \cup {"candidate", "prompt", "entered"}

ASSUME TextAssumption ==
  /\ Outputs \subseteq Seq(OutputCell)
  /\ ScrollBacks \subseteq Nat \ {0} /\ ScrollBack \subseteq Nat \ {0}
  /\ Careful \in BOOLEAN
  /\ MaxInput \in Nat /\ MaxText \in Nat /\ None \notin Nat

VARIABLES
  text,     \* the document
  at,       \* _complete_start, _prompt_start, _line_start and _mark
  cur,      \* the position of the visible cursor
  pressed,  \* _cursor_pos while the mouse button is down, or None
  buffer,   \* _print_buffer
  timer,    \* whether _print_timer runs
  scroll,   \* _scroll_back
  busy      \* whether line_validate is being emitted

vars == <<text, at, cur, pressed, buffer, timer, scroll, busy>>

Position == [complete : Int, prompt : Int, line : Int, mark : Int]

Lines(t) == 1 + Cardinality({k \in 1 .. Len(t) : t[k] \in LineEnd})

Insertion(t, p, s) == SubSeq(t, 1, p) \o s \o SubSeq(t, p + 1, Len(t))
Removal(t, from, to) == SubSeq(t, 1, from) \o SubSeq(t, to + 1, Len(t))

(* Qt: the cells setMaximumBlockCount(n) removes, whole lines at the top.  *)
Excess(t, n) ==
  CHOOSE k \in 0 .. Len(t) :
    /\ Lines(SubSeq(t, k + 1, Len(t))) <= n
    /\ \A j \in 0 .. k - 1 : Lines(SubSeq(t, j + 1, Len(t))) > n

(* Qt: a cursor at p follows when cells are removed.                       *)
Moved(p, from, to) == IF p <= from THEN p ELSE IF p <= to THEN from ELSE p - (to - from)

(* Qt: setPosition of a cursor at p ignores positions out of the text.     *)
SetPosition(t, p, q) == IF q \in 0 .. Len(t) THEN q ELSE p

(* The prompt is displayed at the end of the text t.                       *)
Prompted(t) ==
  /\ text' = Append(t, "prompt")
  /\ cur' = Len(t) + 1
  /\ at' = [complete |-> Len(t), prompt |-> Len(t), line |-> Len(t) + 1, mark |-> Len(t) + 1]

(* delete_completion_list: the text, the positions and a cursor at p once  *)
(* the list is gone.                                                       *)
Unlisted ==
  [text |-> Removal(text, at.complete, at.prompt),
   at   |-> LET n == at.complete - at.prompt
            IN  [complete |-> at.complete, prompt |-> at.complete,
                 line |-> at.line + n, mark |-> at.mark + n],
   cur  |-> Moved(cur, at.complete, at.prompt)]

Init ==
  /\ text = <<"prompt">>
  /\ at = [complete |-> 0, prompt |-> 0, line |-> 1, mark |-> 1]
  /\ cur = 1
  /\ pressed = None
  /\ buffer = << >> /\ timer = FALSE
  /\ scroll \in ScrollBack
  /\ busy = FALSE

-----------------------------------------------------------------------------
(* Printing.                                                               *)

PrintText(s) ==
  /\ Len(text) + Len(buffer) + Len(s) <= MaxText
  /\ buffer' = buffer \o s
  /\ timer' = TRUE
  /\ UNCHANGED <<text, at, cur, pressed, scroll, busy>>

SetScrollBack(n) ==
  /\ Careful => n >= scroll
  /\ scroll' = n
  /\ UNCHANGED <<text, at, cur, pressed, buffer, timer, busy>>

(* Mutant of Shifted: the prompt is forgotten.                             *)
ShiftedListOnly(n) == [at EXCEPT !.complete = @ + n, !.line = @ + n, !.mark = @ + n]

Shifted(n) == [complete |-> at.complete + n, prompt |-> at.prompt + n,
               line |-> at.line + n, mark |-> at.mark + n]

(* Mutant of Flushed: one chunk of output is printed, the rest is left.    *)
FlushedOnce(s) == <<Head(s)>>

(* The part of the buffer a timer event prints.                            *)
Flushed(s) == s

(* The timer event; it does nothing, and leaves the timer running, if      *)
(* there is nothing to print.  The lines in excess of scroll go first,     *)
(* then the buffer is inserted above the candidates, and again lines go at *)
(* the top.                                                                *)
PrintFlush ==
  /\ timer /\ buffer # << >>
  /\ Careful => pressed = None
  /\ \E first \in {Excess(text, scroll)} :
       LET output == Flushed(buffer)
           t1     == SubSeq(text, first + 1, Len(text))
           cur1   == Moved(cur, 0, first)
           p      == SetPosition(t1, cur1, at.complete)
           t2     == Insertion(t1, p, output)
       IN \E then \in {Excess(t2, scroll)} :
            LET end == Moved(p + Len(output), 0, then)
                n   == end - at.complete
            IN  /\ text' = SubSeq(t2, then + 1, Len(t2))
                /\ at' = Shifted(n)
                /\ cur' = SetPosition(text', end, cur1 + n)
                /\ buffer' = SubSeq(buffer, Len(output) + 1, Len(buffer))
  /\ timer' = FALSE
  /\ UNCHANGED <<pressed, scroll, busy>>

-----------------------------------------------------------------------------
(* Keys.                                                                   *)

(* Nobody types while the mouse button is down; the slots of line_validate *)
(* do not let the user type before they return.                            *)
Idle == ~ busy /\ pressed = None

(* Careful: the limit of lines is out of reach of any text within the      *)
(* bounds when keys add lines without a look at it.                        *)
Room == Careful => scroll > 2 * MaxText + MaxInput + 3

(* The input line becomes s, by keys or functions that leave the rest.     *)
Edit(from, to, s) ==
  /\ text' = Insertion(Removal(text, from, to), from, s)
  /\ Len(text') - at.line <= MaxInput
  /\ UNCHANGED <<at, pressed, buffer, timer, scroll, busy>>

(* Ordinary keys.                                                          *)
Type ==
  /\ Idle
  /\ Edit(cur, cur, <<"typed">>)
  /\ cur' = cur + 1

Paste ==
  /\ Idle /\ Room
  /\ Edit(cur, cur, <<"pasted">>)
  /\ cur' = cur + 1

MayGoBack == cur > at.line

Backspace ==
  /\ Idle /\ MayGoBack
  /\ Edit(cur - 1, cur, << >>)
  /\ cur' = cur - 1

Delete ==
  /\ Idle /\ cur < Len(text)
  /\ Edit(cur, cur + 1, << >>)
  /\ UNCHANGED cur

(* The keys that only move the cursor: left, right, home, end, Alt-B and   *)
(* Alt-F, which go to the word boundary k or to the start of the line.     *)
Go(p) == Idle /\ cur' = p /\ UNCHANGED <<text, at, pressed, buffer, timer, scroll, busy>>

FromLine(k) == IF k < at.line THEN at.line ELSE k

Left  == MayGoBack /\ Go(cur - 1)
Right == cur < Len(text) /\ Go(cur + 1)
Home  == Go(at.line)
End   == Go(Len(text))
NextWord(k) == k \in cur .. Len(text) /\ Go(k)
PreviousWord(k) == k \in 0 .. cur /\ Go(FromLine(k))

(* Ctrl-U, Ctrl-K and Ctrl-W cut from the cursor to the start of the line, *)
(* its end, and the mark.                                                  *)
Cut(p) ==
  LET from == IF p < cur THEN p ELSE cur
      to   == IF p < cur THEN cur ELSE p
  IN  /\ Idle
      /\ p \in 0 .. Len(text)
      /\ Edit(from, to, << >>)
      /\ cur' = from

CutLine == Cut(at.line)
CutEnd  == Cut(Len(text))
CutMark == Cut(at.mark)

(* Alt-D and Alt-Backspace remove to the word boundary k.                  *)
DeleteNextWord(k) ==
  /\ Idle /\ k \in cur .. Len(text)
  /\ Edit(cur, k, << >>)
  /\ UNCHANGED cur

DeletePreviousWord(k) ==
  LET p == FromLine(k)
  IN  /\ Idle /\ k \in 0 .. cur
      /\ IF p < cur THEN Edit(p, cur, << >>) /\ cur' = p
                    ELSE Edit(cur, p, << >>) /\ UNCHANGED cur

SetMark ==
  /\ Idle
  /\ at' = [at EXCEPT !.mark = cur]
  /\ UNCHANGED <<text, cur, pressed, buffer, timer, scroll, busy>>

(* The keys up and down replace the input line by n cells.                 *)
ShowHistory(n) ==
  /\ Idle
  /\ Edit(at.line, Len(text), [k \in 1 .. n |-> "typed"])
  /\ cur' = IF cur < at.line THEN cur ELSE Len(text')

(* A search selects the match that ends at p.                              *)
FindHistory(n, p) ==
  /\ Idle
  /\ Edit(at.line, Len(text), [k \in 1 .. n |-> "typed"])
  /\ p \in at.line .. Len(text')
  /\ cur' = p

(* Qt's undo stack is cleared whenever the widget changes the text itself: *)
(* it holds edits of the input line only.                                  *)
Undo(n) ==
  /\ Idle
  /\ Edit(at.line, Len(text), [k \in 1 .. n |-> "typed"])
  /\ cur' = Len(text')

(* Tab without a candidate.                                                *)
CompleteNone ==
  /\ Idle /\ Room
  /\ text' = Unlisted.text /\ at' = Unlisted.at /\ cur' = Unlisted.cur
  /\ UNCHANGED <<pressed, buffer, timer, scroll, busy>>

(* Tab with one candidate: it replaces the cells before the cursor from a  *)
(* position of the line on; the cursor may go back into it.                *)
CompleteOne(from, back) ==
  LET t == Insertion(Removal(text, from, cur), from, <<"typed">>)
  IN  /\ Idle /\ Room
      /\ from \in at.line .. cur - 1
      /\ back \in {0, 1}
      /\ text' = Removal(t, at.complete, at.prompt)
      /\ at' = Unlisted.at
      /\ cur' = Moved(from + 1 - back, at.complete, at.prompt)
      /\ UNCHANGED <<pressed, buffer, timer, scroll, busy>>

(* Tab with several: what they have in common replaces the cells before    *)
(* the cursor, if it is not empty, and n of them are listed in the place   *)
(* of the former list.                                                     *)
CompleteMany(from, common, n) ==
  LET t      == IF common THEN Insertion(Removal(text, from, cur), from, <<"typed">>) ELSE text
      c      == IF common THEN from + 1 ELSE cur
      offset == c - at.line
      t1     == Removal(t, at.complete, at.prompt)
      list   == [k \in 1 .. n |-> "candidate"]
      d      == at.complete + n - at.prompt
  IN  /\ Idle /\ Room
      /\ from \in at.line .. cur - 1
      /\ text' = Insertion(t1, at.complete, list)
      /\ at' = [at EXCEPT !.prompt = @ + d, !.line = @ + d, !.mark = @ + d]
      /\ cur' = SetPosition(text', at.complete + n, at'.line + offset)
      /\ UNCHANGED <<pressed, buffer, timer, scroll, busy>>

(* Ctrl-C: the line stays as it is, a new prompt follows.                  *)
Interrupt ==
  /\ Idle /\ Room
  /\ Len(text) + 2 <= MaxText
  /\ Prompted(Append(Unlisted.text, "entered"))
  /\ UNCHANGED <<pressed, buffer, timer, scroll, busy>>

(* Mutant of NewPrompt: a line of the limit is kept for the prompt.        *)
NewPromptReserving(t) == Prompted(SubSeq(t, Excess(t, scroll - 1) + 1, Len(t)))

(* The lines in excess go, and the prompt is displayed below the rest.     *)
NewPrompt(t) == Prompted(SubSeq(t, Excess(t, scroll) + 1, Len(t)))

(* Enter with a line that is blank, and with another one up to the signal  *)
(* line_validate, the slots of which may run an event loop: text printed   *)
(* meanwhile goes at the end.                                              *)
EnterBlank ==
  /\ Idle
  /\ Len(text) + 2 <= MaxText
  /\ NewPrompt(Append(Unlisted.text, "entered"))
  /\ UNCHANGED <<pressed, buffer, timer, scroll, busy>>

Enter ==
  /\ Idle /\ Len(text) > at.line
  /\ Len(text) + 2 <= MaxText
  /\ text' = Append(Unlisted.text, "entered")
  /\ cur' = Len(text')
  /\ at' = [Unlisted.at EXCEPT !.complete = Len(text')]
  /\ busy' = TRUE
  /\ UNCHANGED <<pressed, buffer, timer, scroll>>

EnterEnd ==
  /\ busy
  /\ NewPrompt(text)
  /\ busy' = FALSE
  /\ UNCHANGED <<pressed, buffer, timer, scroll>>

-----------------------------------------------------------------------------
(* The mouse moves the cursor anywhere while the left button is down.      *)

MousePress(p) ==
  /\ ~ busy /\ pressed = None
  /\ pressed' = cur
  /\ cur' = p
  /\ UNCHANGED <<text, at, buffer, timer, scroll, busy>>

MouseRelease ==
  /\ ~ busy /\ pressed # None
  /\ cur' = SetPosition(text, cur, pressed)
  /\ pressed' = None
  /\ UNCHANGED <<text, at, buffer, timer, scroll, busy>>

-----------------------------------------------------------------------------
Keys ==
  \/ Type \/ Paste \/ Backspace \/ Delete
  \/ Left \/ Right \/ Home \/ End
  \/ \E k \in 0 .. Len(text) : NextWord(k) \/ PreviousWord(k)
  \/ CutLine \/ CutEnd \/ CutMark \/ SetMark
  \/ \E k \in 0 .. Len(text) : DeleteNextWord(k) \/ DeletePreviousWord(k)
  \/ \E n \in 0 .. MaxInput : ShowHistory(n) \/ Undo(n)
  \/ \E n \in 0 .. MaxInput, p \in 0 .. Len(text) + MaxInput : FindHistory(n, p)
  \/ CompleteNone
  \/ \E from \in 0 .. Len(text), back \in {0, 1} : CompleteOne(from, back)
  \/ \E from \in 0 .. Len(text), common \in BOOLEAN : CompleteMany(from, common, 2)
  \/ Interrupt \/ EnterBlank \/ Enter \/ EnterEnd

Next ==
  \/ Keys
  \/ \E p \in 0 .. Len(text) : MousePress(p)
  \/ MouseRelease
  \/ \E s \in Outputs : PrintText(s)
  \/ \E n \in ScrollBacks : SetScrollBack(n)
  \/ PrintFlush

(* The event loop handles the timer in each of its rounds, whatever other  *)
(* events it has; the slots of line_validate return, and the user does not *)
(* hold the mouse button for ever.                                         *)
Fairness ==
  SF_vars(~ busy /\ PrintFlush) /\ WF_vars(EnterEnd) /\ WF_vars(MouseRelease)

Spec == Init /\ [][Next]_vars
FairSpec == Spec /\ Fairness

-----------------------------------------------------------------------------
TypeOK ==
  /\ text \in Seq(Cell)
  /\ at \in Position
  /\ cur \in 0 .. Len(text)
  /\ pressed \in Nat \cup {None}
  /\ buffer \in Seq(OutputCell)
  /\ timer \in BOOLEAN
  /\ scroll \in Nat \ {0}
  /\ busy \in BOOLEAN

(* Whatever is printed, listed, completed and edited, in any order, the    *)
(* positions separate printed text, candidates, prompt and input line: a   *)
(* line that is entered is what the user has typed, no output is below the *)
(* prompt, and no cut reaches above it; the user edits in the input line   *)
(* only, as outside of the mouse events the cursor is never above it.      *)
Layout ==
  ~ busy =>
    /\ 0 <= at.complete /\ at.complete <= at.prompt /\ at.prompt < at.line
    /\ at.line <= Len(text) /\ at.line <= at.mark
    /\ \A k \in at.complete + 1 .. at.prompt : text[k] = "candidate"
    /\ SubSeq(text, at.prompt + 1, at.line) = <<"prompt">>
    /\ \A k \in at.line + 1 .. Len(text) : text[k] \in InputCell
    /\ pressed = None => at.line <= cur

(* The text above the prompt is only added to, at its end, and whatever is *)
(* printed is added: it goes only at the top, whole lines and no more than *)
(* the scrollback limit asks for.                                          *)
TranscriptKept ==
  [][LET printed == IF buffer' = << >> THEN buffer ELSE << >>
         kept == SubSeq(text, 1, at.complete) \o printed
     IN  \E k \in 0 .. Len(kept) :
           /\ IsPrefix(SubSeq(kept, k + 1, Len(kept)), text')
           /\ k > 0 => Lines(text') = scroll' /\ kept[k] \in LineEnd]_vars

(* Printed text appears, also while a line is evaluated.                   *)
PrintedAppears == buffer # << >> ~> buffer = << >>
=============================================================================
