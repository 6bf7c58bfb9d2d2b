------------------------------ MODULE LuaState ------------------------------
(***************************************************************************)
(* QtLua::State as the switchboard between C++ and Lua: the calls nested   *)
(* in one another, each on a Lua thread, `_lst` that every C++ function    *)
(* uses as the thread to work on, `_yield_on_return` by which a C++ method *)
(* asks that the coroutine that called it be suspended, the libraries      *)
(* opened, and the globals that C++ sets and reads by dotted paths.        *)
(*                                                                         *)
(* A frame of `stack` is C++ code ("host", or a C function that Lua called *)
(* back) or Lua code under the call that protects it.  A Lua error cuts    *)
(* the stack down to the protecting call below it, and no code of a frame  *)
(* that is cut runs: only the catch clauses of the callbacks restore       *)
(* `_lst`.  The Lua modelled is 5.1.                                       *)
(***************************************************************************)
EXTENDS Integers, SequencesExt

CONSTANTS
  Main,        \* the main thread, _mst
  Coroutines,  \* the other Lua threads
  Paths,       \* the dotted paths of the globals, as sequences of names; each prefix of one is in
  MaxDepth,    \* bound: how deep calls nest
  Rejoin,      \* TRUE: a method may do more after it asked to yield, and any callback may ask
  Foreign      \* TRUE: help() is given userdata that is not QtLua's

ASSUME ThreadsAssumption == Main \notin Coroutines
ASSUME PathsAssumption ==
  \A p \in Paths : p \in Seq(STRING) /\ Len(p) > 0 /\ \A i \in 1 .. Len(p) : SubSeq(p, 1, i) \in Paths

VARIABLES
  stack,    \* the calls in progress, the host program at the bottom
  lst,      \* _lst
  yielding, \* _yield_on_return
  status,   \* of each coroutine: "ready" to resume, "active" or "dead"
  libs,     \* the libraries opened
  globals,  \* what is at each path: "nil", "value", "table", or "sealed", a table that refuses new keys
  height    \* values that C++ left on the Lua stack it works on

vars == <<stack, lst, yielding, status, libs, globals, height>>
threads == <<stack, lst, yielding, status>>

Threads == {Main} \cup Coroutines
Callbacks == {"call", "meta", "info", "gc"}
Protected == {"chunk", "resume", "pcall", "cresume"}   \* lua_pcall and lua_resume by C++, by Lua
Libraries == {"BaseLib", "QtLuaLib", "AllLibs"}
Contents == {"nil", "value", "table", "sealed"}

Frame(kind, th, prev, oy) == [kind |-> kind, th |-> th, prev |-> prev, oy |-> oy, asks |-> FALSE]
Top == Last(stack)
InCpp == Top.kind \notin Protected
InLua == Top.kind \in Protected
Room == Len(stack) < MaxDepth

\* Asking to yield is the last thing a method does; a destructor that the collector calls
\* before the method has returned does nothing then either.
Free == Rejoin \/ \A i \in DOMAIN stack : ~stack[i].asks

(***************************************************************************)
(* Leaving a frame.                                                        *)
(***************************************************************************)

\* What is left when the Lua code at the top of s stops, with c in _lst:
\* Value::call sets _lst back when lua_resume returns, coroutine.resume knows nothing of it.
Cut(s, c, end) ==
  LET f == Last(s) IN
  /\ stack' = Front(s)
  /\ lst' = IF f.kind = "resume" THEN f.prev ELSE c
  /\ status' = IF f.kind \in {"resume", "cresume"} THEN [status EXCEPT ![f.th] = end] ELSE status

\* lua_yield from the Lua code at the top of s: an error unless a resume alone is below it.
Suspend(s, c) == Cut(s, c, IF Last(s).kind \in {"resume", "cresume"} THEN "ready" ELSE "dead")

\* QTLUA_RESTORE_THREAD.
Restored == Top.prev

(***************************************************************************)
(* Calls into Lua.                                                         *)
(***************************************************************************)

\* A chunk is run, or a function called, by exec_statements, exec_chunk or Value::call.
Exec ==
  /\ InCpp /\ Free /\ Room
  /\ stack' = Append(stack, Frame("chunk", lst, lst, FALSE))
  /\ UNCHANGED <<lst, yielding, status, libs, globals, height>>

\* Value::call of a coroutine: _lst is switched around lua_resume, which refuses one that is active.
Resume(co) ==
  /\ InCpp /\ Free /\ Room
  /\ status[co] = "ready"
  /\ stack' = Append(stack, Frame("resume", co, lst, FALSE))
  /\ lst' = co
  /\ status' = [status EXCEPT ![co] = "active"]
  /\ UNCHANGED <<yielding, libs, globals, height>>

\* Lua protects a call of its own, or resumes a coroutine without C++.
LuaCall ==
  /\ InLua /\ Room
  /\ "BaseLib" \in libs
  /\ \/ /\ stack' = Append(stack, Frame("pcall", Top.th, lst, FALSE))
        /\ UNCHANGED status
     \/ /\ \E co \in Coroutines :
             /\ status[co] = "ready"
             /\ stack' = Append(stack, Frame("cresume", co, lst, FALSE))
             /\ status' = [status EXCEPT ![co] = "active"]
  /\ UNCHANGED <<lst, yielding, libs, globals, height>>

\* The Lua code at the top ends, raises an error, or yields.
LuaEnd ==
  /\ InLua
  /\ \/ Cut(stack, lst, "dead")
     \/ "BaseLib" \in libs /\ Top.kind \in {"resume", "cresume"} /\ Suspend(stack, lst)
  /\ UNCHANGED <<yielding, libs, globals, height>>

(***************************************************************************)
(* Calls back from Lua.                                                    *)
(***************************************************************************)

\* Lua calls a C function: QTLUA_SWITCH_THREAD.  The commands are those of QtLuaLib; the
\* collector runs whenever something is allocated, by C++ too, on the thread that allocates.
Callback(kind) ==
  /\ Room
  /\ IF kind = "gc" THEN Top.kind # "gc" ELSE InLua
  /\ kind = "info" => "QtLuaLib" \in libs
  /\ LET th == IF InLua THEN Top.th ELSE lst IN
     /\ stack' = Append(stack, Frame(kind, th, lst, yielding))
     /\ lst' = th
  /\ yielding' = IF kind = "call" THEN FALSE ELSE yielding
  /\ UNCHANGED <<status, libs, globals, height>>

\* UserData::yield called by the C++ code at the top.
Yield ==
  /\ Top.kind \in IF Rejoin THEN Callbacks ELSE {"call"}
  /\ lst # Main
  /\ yielding' = TRUE
  /\ stack' = [stack EXCEPT ![Len(stack)].asks = TRUE]
  /\ UNCHANGED <<lst, status, libs, globals, height>>

\* Mutant of Return: the flag left set when the method returns.
ReturnFlagged ==
  /\ Top.kind \in Callbacks
  /\ LET below == Front(stack) IN
     IF Top.kind = "call" /\ yielding
       THEN Suspend(below, Restored)
       ELSE stack' = below /\ lst' = Restored /\ UNCHANGED status
  /\ UNCHANGED <<yielding, libs, globals, height>>

\* The callback returns, and yields if it was asked to.
Return ==
  /\ Top.kind \in Callbacks
  /\ LET below == Front(stack) IN
     IF Top.kind = "call"
       THEN /\ yielding' = Top.oy
            /\ IF yielding THEN Suspend(below, Restored)
               ELSE stack' = below /\ lst' = Restored /\ UNCHANGED status
       ELSE stack' = below /\ lst' = Restored /\ UNCHANGED <<status, yielding>>
  /\ UNCHANGED <<libs, globals, height>>

\* Mutant of Throw: a catch clause that forgets QTLUA_RESTORE_THREAD.
ThrowUnrestored ==
  /\ Top.kind \in {"call", "meta"} /\ Free
  /\ Cut(Front(stack), lst, "dead")
  /\ UNCHANGED <<yielding, libs, globals, height>>

\* C++ throws: the catch clause restores _lst and raises a Lua error; what the flag was is lost.
\* lua_cmd_help has no catch clause: userdata that is not QtLua's makes it throw past it.
Throw ==
  /\ Top.kind \in {"call", "meta"} \cup (IF Foreign THEN {"info"} ELSE {})
  /\ Free
  /\ Cut(Front(stack), IF Top.kind = "info" THEN lst ELSE Restored, "dead")
  /\ UNCHANGED <<yielding, libs, globals, height>>

(***************************************************************************)
(* Globals.                                                                *)
(***************************************************************************)

\* A new key is refused by the __newindex of the table it would go in.
Refused(p) == Len(p) > 1 /\ globals[Front(p)] = "sealed" /\ globals[p] = "nil"

\* Mutant of set_global_r: an intermediate table is left on the stack when the call below throws.
set_global_r_leaving(path) ==
  LET Thrown(left, pushed, popped) == [ok |-> FALSE, left |-> left + pushed - popped]
      at[i \in 1 .. Len(path)] ==
        LET p == SubSeq(path, 1, i) IN
        IF i = Len(path) \/ globals[p] = "nil"
          THEN LET rest == IF i = Len(path) THEN [ok |-> TRUE, left |-> 0] ELSE at[i + 1] IN
               IF rest.ok /\ ~Refused(p) THEN rest ELSE Thrown(rest.left, 2, 2)
        ELSE IF globals[p] \in {"table", "sealed"}
          THEN IF at[i + 1].ok THEN at[i + 1] ELSE Thrown(at[i + 1].left, 1, 0)
        ELSE Thrown(0, 1, 1)
  IN at[1]

\* set_global_r at each depth of the path: whether it throws, and what its catch clauses leave
\* on the Lua stack of the values pushed.
set_global_r(path) ==
  LET Thrown(left, pushed, popped) == [ok |-> FALSE, left |-> left + pushed - popped]
      at[i \in 1 .. Len(path)] ==
        LET p == SubSeq(path, 1, i) IN
        IF i = Len(path) \/ globals[p] = "nil"
          THEN LET rest == IF i = Len(path) THEN [ok |-> TRUE, left |-> 0] ELSE at[i + 1] IN
               IF rest.ok /\ ~Refused(p) THEN rest ELSE Thrown(rest.left, 2, 2)
        ELSE IF globals[p] \in {"table", "sealed"}
          THEN IF at[i + 1].ok THEN at[i + 1] ELSE Thrown(at[i + 1].left, 1, 1)
        ELSE Thrown(0, 1, 1)
  IN at[1]

\* The globals with `what` at the path, the tables on the way to it made.
Put(path, what) ==
  [q \in Paths |-> CASE q = path -> what
                     [] IsStrictPrefix(path, q) -> "nil"
                     [] IsStrictPrefix(q, path) /\ globals[q] = "nil" -> "table"
                     [] OTHER -> globals[q]]

SetGlobal(path, what) ==
  LET r == set_global_r(path) IN
  /\ InCpp /\ Free
  /\ globals' = IF r.ok THEN Put(path, what) ELSE globals
  /\ height' = height + r.left
  /\ UNCHANGED <<threads, libs>>

get_global(path) ==
  IF \A q \in Paths : IsStrictPrefix(q, path) => globals[q] \in {"table", "sealed"}
    THEN globals[path] ELSE "error"

\* What each library adds; AllLibs goes on into the case of QtLuaLib.
openlib(lib) ==
  /\ Len(stack) = 1
  /\ libs = {}
  /\ libs' = IF lib = "AllLibs" THEN Libraries ELSE {lib}
  /\ UNCHANGED <<threads, globals, height>>

(***************************************************************************)
(* The specification.                                                      *)
(***************************************************************************)

Init ==
  /\ stack = <<Frame("host", Main, Main, FALSE)>>
  /\ lst = Main
  /\ yielding = FALSE
  /\ status = [co \in Coroutines |-> "ready"]
  /\ libs = {}
  /\ globals = [p \in Paths |-> "nil"]
  /\ height = 0

Next ==
  \/ Exec
  \/ \E co \in Coroutines : Resume(co)
  \/ LuaCall \/ LuaEnd
  \/ \E kind \in Callbacks : Callback(kind)
  \/ Yield \/ Return \/ Throw
  \/ \E path \in Paths, what \in Contents : SetGlobal(path, what)
  \/ \E lib \in Libraries : openlib(lib)

Spec == Init /\ [][Next]_vars

(***************************************************************************)
(* Properties.                                                             *)
(***************************************************************************)

TypeOK ==
  /\ \A i \in DOMAIN stack : /\ stack[i].kind \in {"host"} \cup Callbacks \cup Protected
                             /\ {stack[i].th, stack[i].prev} \subseteq Threads
                             /\ {stack[i].oy, stack[i].asks} \subseteq BOOLEAN
  /\ lst \in Threads
  /\ yielding \in BOOLEAN
  /\ status \in [Coroutines -> {"ready", "active", "dead"}]
  /\ libs \subseteq Libraries
  /\ globals \in [Paths -> Contents]
  /\ height \in Nat

\* Whatever calls nest and however they end, _lst is the thread of the innermost C++ code, or
\* of the coroutine that C++ resumed above it: what QTLUA_SWITCH_THREAD and
\* QTLUA_RESTORE_THREAD are for.  A coroutine is active exactly while one resume of it, and one
\* only, is on the stack, and every call back from it runs on it, as do the calls Lua protects.
CurrentThread ==
  /\ lst = stack[SelectLastInSeq(stack, LAMBDA f : f.kind \notin {"chunk", "pcall", "cresume"})].th
  /\ \A co \in Coroutines :
       Cardinality({i \in DOMAIN stack : stack[i].kind \in {"resume", "cresume"} /\ stack[i].th = co})
         = IF status[co] = "active" THEN 1 ELSE 0
  /\ \A i \in 2 .. Len(stack) :
       stack[i].kind \in Callbacks \cup {"pcall"} /\ stack[i - 1].kind \in Protected
         => stack[i].th = stack[i - 1].th

\* A method called from a coroutine suspends it, or tries to, when it returns exactly if it asked
\* to (UserData::yield): what other methods ask while it runs is not taken for its own wish.
YieldsAsAsked ==
  [][Return /\ Top.kind = "call" => (Top.asks <=> Len(stack') < Len(stack) - 1)]_vars

\* A global is set as a whole or not at all: it reads back, only tables that were missing are
\* made for it, what does not lie on its path is untouched, and a failure changes nothing; the
\* Lua stack is left as it was either way.
SetsWholeOrNot ==
  [][\A path \in Paths, what \in Contents :
       SetGlobal(path, what) =>
         /\ height' = height
         /\ \/ globals' = globals
            \/ /\ get_global(path)' = what
               /\ \A q \in Paths \ {path} :
                    \/ globals'[q] = globals[q]
                    \/ IsStrictPrefix(path, q) /\ globals'[q] = "nil"
                    \/ IsStrictPrefix(q, path) /\ globals[q] = "nil" /\ globals'[q] = "table"]_vars
=============================================================================
