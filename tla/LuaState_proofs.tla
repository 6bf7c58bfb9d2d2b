-------------------------- MODULE LuaState_proofs --------------------------
(***************************************************************************)
(* However deep C++ and Lua call one another, on any number of coroutines, *)
(* and however the calls end: _lst is the thread of the C++ code that      *)
(* runs, a method yields exactly when it asked to, and a global is set as  *)
(* a whole or not at all.                                                  *)
(***************************************************************************)
EXTENDS LuaState, FiniteSetTheorems, SequenceTheorems, WellFoundedInduction, TLAPS

Kinds == {"host"} \cup Callbacks \cup Protected
Frames == [kind : Kinds, th : Threads, prev : Threads, oy : BOOLEAN, asks : BOOLEAN]

Switching(f) == f.kind \notin {"chunk", "pcall", "cresume"}
Resuming(f) == f.kind \in {"resume", "cresume"}

(* What _lst is while the frame is at the top: its thread, if its call     *)
(* switched to it.                                                         *)
Current(f) == IF Switching(f) THEN f.th ELSE f.prev

(* A frame and the one below it: Lua calls the callbacks, and the calls    *)
(* that Lua makes are on its thread.                                       *)
Above(f, g) ==
  /\ f.kind # "host"
  /\ f.kind \in Callbacks \ {"gc"} => g.kind \in Protected
  /\ f.kind \in Callbacks \cup {"pcall"} /\ g.kind \in Protected => f.th = g.th

Nested(s) ==
  /\ s \in Seq(Frames) /\ Len(s) >= 1
  /\ s[1].kind = "host" /\ s[1].th = Main
  /\ \A i \in 2 .. Len(s) : Above(s[i], s[i - 1])

(* Each coroutine that is active is resumed by one frame.                  *)
Resumed(s, st) ==
  /\ st \in [Coroutines -> {"ready", "active", "dead"}]
  /\ \A i \in 1 .. Len(s) : Resuming(s[i]) => s[i].th \in Coroutines /\ st[s[i].th] = "active"
  /\ \A i, j \in 1 .. Len(s) : Resuming(s[i]) /\ Resuming(s[j]) /\ s[i].th = s[j].th => i = j
  /\ \A co \in Coroutines : st[co] = "active" =>
       \E i \in 1 .. Len(s) : Resuming(s[i]) /\ s[i].th = co

(* Each frame keeps what _lst was when it was pushed.                      *)
Linked(s) == \A i \in 2 .. Len(s) : s[i].prev = Current(s[i - 1])

(* Nothing but destructors runs above a method that asked to yield.        *)
Asked(s, y) ==
  /\ \A i \in 1 .. Len(s) : s[i].asks =>
       s[i].kind = "call" /\ \A j \in i + 1 .. Len(s) : s[j].kind = "gc"
  /\ y <=> \E i \in 1 .. Len(s) : s[i].asks
  /\ \A i \in 1 .. Len(s) : s[i].kind = "call" => ~ s[i].oy

(* The inductive invariants: of any program, of one that gives no foreign  *)
(* userdata to help, and of one whose methods ask to yield at their end.   *)
IInv ==
  /\ Nested(stack) /\ Resumed(stack, status)
  /\ lst \in Threads /\ yielding \in BOOLEAN /\ libs \subseteq Libraries
  /\ globals \in [Paths -> Contents] /\ height \in Nat

LstInv == Linked(stack) /\ lst = Current(stack[Len(stack)])

YieldInv == Asked(stack, yielding)

-----------------------------------------------------------------------------
(* Pushing and popping frames.                                             *)

LEMMA FrontFacts ==
  ASSUME NEW S, NEW s \in Seq(S), Len(s) >= 1
  PROVE  /\ Front(s) \in Seq(S) /\ Len(Front(s)) = Len(s) - 1
         /\ \A i \in 1 .. Len(s) - 1 : Front(s)[i] = s[i]
<1> DEFINE n == Len(s) - 1
           u == SubSeq(s, 1, n)
<1>1. n \in Nat /\ \A i \in 1 .. n : s[i] \in S
  OBVIOUS
<1>2. n - 1 + 1 = n /\ \A i \in 1 .. n : 1 + i - 1 = i
  BY <1>1
<1> HIDE DEF n
<1>3. /\ u \in Seq(S) /\ Len(u) = IF 1 <= n THEN n - 1 + 1 ELSE 0
      /\ \A i \in 1 .. n - 1 + 1 : u[i] = s[1 + i - 1]
  BY <1>1, SubSeqProperties
<1>4. Front(s) = u
  BY DEF Front, n
<1> HIDE DEF u
<1>5. u \in Seq(S) /\ Len(u) = n /\ \A i \in 1 .. n : u[i] = s[i]
  BY <1>1, <1>2, <1>3
<1>6. QED
  BY <1>4, <1>5 DEF n

LEMMA AppendFacts ==
  ASSUME NEW S, NEW s \in Seq(S), NEW f \in S
  PROVE  /\ Append(s, f) \in Seq(S) /\ Len(Append(s, f)) = Len(s) + 1
         /\ Append(s, f)[Len(s) + 1] = f
         /\ \A i \in 1 .. Len(s) : Append(s, f)[i] = s[i]
OBVIOUS

LEMMA LastFacts ==
  ASSUME NEW s, Nested(s)
  PROVE  /\ Last(s) = s[Len(s)] /\ Last(s) \in Frames
         /\ Last(s).kind # "host" => Len(s) >= 2
         /\ \A i \in 1 .. Len(s) : s[i] \in Frames
         /\ \A i \in 2 .. Len(s) : s[i - 1] \in Frames /\ Above(s[i], s[i - 1])
<1>1. \A i \in 1 .. Len(s) : s[i] \in Frames
  BY DEF Nested
<1>2. Len(s) \in Nat /\ Len(s) >= 1 /\ s[1].kind = "host"
  BY DEF Nested
<1>3. \A i \in 2 .. Len(s) : s[i - 1] \in Frames
  BY <1>1, <1>2
<1>4. QED
  BY <1>1, <1>2, <1>3 DEF Last, Nested

LEMMA PushNested ==
  ASSUME NEW s, Nested(s), NEW f \in Frames, Above(f, Last(s))
  PROVE  Nested(Append(s, f))
<1> DEFINE u == Append(s, f)
<1>1. /\ s \in Seq(Frames) /\ Len(s) \in Nat /\ Len(s) >= 1
      /\ s[1].kind = "host" /\ s[1].th = Main
      /\ \A i \in 2 .. Len(s) : Above(s[i], s[i - 1])
  BY DEF Nested
<1>2. /\ u \in Seq(Frames) /\ Len(u) = Len(s) + 1 /\ u[Len(s) + 1] = f
      /\ \A i \in 1 .. Len(s) : u[i] = s[i]
  BY <1>1, AppendFacts
<1> HIDE DEF u
<1>3. ASSUME NEW i \in 2 .. Len(u) PROVE Above(u[i], u[i - 1])
  <2>1. CASE i = Len(u)
    BY <2>1, <1>1, <1>2 DEF Last
  <2>2. CASE i # Len(u)
    <3>1. i \in 2 .. Len(s) /\ i - 1 \in 1 .. Len(s) /\ i \in 1 .. Len(s)
      BY <2>2, <1>1, <1>2
    <3>2. QED
      BY <3>1, <1>1, <1>2
  <2>3. QED
    BY <2>1, <2>2
<1>4. QED
  BY <1>1, <1>2, <1>3 DEF Nested, u

LEMMA PopNested ==
  ASSUME NEW s, Nested(s), Last(s).kind # "host"
  PROVE  /\ Nested(Front(s)) /\ Len(Front(s)) = Len(s) - 1 /\ Len(s) >= 2
         /\ Last(Front(s)) = s[Len(s) - 1]
         /\ \A i \in 1 .. Len(s) - 1 : Front(s)[i] = s[i]
<1>1. Len(s) \in Nat /\ Len(s) >= 2 /\ s \in Seq(Frames)
  BY LastFacts DEF Nested
<1>2. /\ Front(s) \in Seq(Frames) /\ Len(Front(s)) = Len(s) - 1
      /\ \A i \in 1 .. Len(s) - 1 : Front(s)[i] = s[i]
  BY <1>1, FrontFacts
<1>3. \A i \in 2 .. Len(s) - 1 : Front(s)[i] = s[i] /\ Front(s)[i - 1] = s[i - 1] /\ i \in 2 .. Len(s)
  BY <1>1, <1>2
<1>4. QED
  BY <1>1, <1>2, <1>3 DEF Nested, Last

(* A frame pushed that resumes no coroutine, one that resumes one, and any *)
(* popped.                                                                 *)
LEMMA PushResumed ==
  ASSUME NEW s, Nested(s), NEW st, Resumed(s, st), NEW f \in Frames, ~ Resuming(f)
  PROVE  Resumed(Append(s, f), st)
<1> DEFINE u == Append(s, f)
<1>1. s \in Seq(Frames) /\ Len(s) \in Nat
  BY DEF Nested
<1>2. /\ Len(u) = Len(s) + 1 /\ u[Len(s) + 1] = f
      /\ \A i \in 1 .. Len(s) : u[i] = s[i]
  BY <1>1, AppendFacts
<1> HIDE DEF u
<1>3. \A i \in 1 .. Len(u) : Resuming(u[i]) => i \in 1 .. Len(s) /\ u[i] = s[i]
  <2>1. \A i \in 1 .. Len(u) : i \in 1 .. Len(s) \/ i = Len(s) + 1
    BY <1>1, <1>2
  <2>2. QED
    BY <2>1, <1>2
<1>4. \A i \in 1 .. Len(s) : i \in 1 .. Len(u)
  BY <1>1, <1>2
<1>5. QED
  <2>1. \A i \in 1 .. Len(u) : Resuming(u[i]) => u[i].th \in Coroutines /\ st[u[i].th] = "active"
    BY <1>3 DEF Resumed
  <2>2. \A i, j \in 1 .. Len(u) : Resuming(u[i]) /\ Resuming(u[j]) /\ u[i].th = u[j].th => i = j
    BY <1>3 DEF Resumed
  <2>3. \A co \in Coroutines : st[co] = "active" => \E i \in 1 .. Len(u) : Resuming(u[i]) /\ u[i].th = co
    BY <1>2, <1>4 DEF Resumed
  <2>4. QED
    BY <2>1, <2>2, <2>3 DEF Resumed, u

LEMMA PushResuming ==
  ASSUME NEW s, Nested(s), NEW st, Resumed(s, st), NEW f \in Frames, Resuming(f),
         f.th \in Coroutines, st[f.th] = "ready"
  PROVE  Resumed(Append(s, f), [st EXCEPT ![f.th] = "active"])
<1> DEFINE u == Append(s, f)
           su == [st EXCEPT ![f.th] = "active"]
<1>1. s \in Seq(Frames) /\ Len(s) \in Nat
  BY DEF Nested
<1>2. /\ Len(u) = Len(s) + 1 /\ u[Len(s) + 1] = f
      /\ \A i \in 1 .. Len(s) : u[i] = s[i]
  BY <1>1, AppendFacts
<1>3. /\ su \in [Coroutines -> {"ready", "active", "dead"}] /\ su[f.th] = "active"
      /\ \A co \in Coroutines : su[co] = IF co = f.th THEN "active" ELSE st[co]
  BY DEF Resumed
<1>4. \A i \in 1 .. Len(s) : Resuming(s[i]) => s[i].th # f.th /\ s[i].th \in Coroutines
  BY DEF Resumed
<1> HIDE DEF u, su
<1>5. \A i \in 1 .. Len(u) : i \in 1 .. Len(s) \/ i = Len(s) + 1
  BY <1>1, <1>2
<1>6. \A i \in 1 .. Len(s) : i \in 1 .. Len(u)
  BY <1>1, <1>2
<1>7. Len(s) + 1 \in 1 .. Len(u)
  BY <1>1, <1>2
<1>8. QED
  <2>1. \A i \in 1 .. Len(u) : Resuming(u[i]) => u[i].th \in Coroutines /\ su[u[i].th] = "active"
    BY <1>2, <1>3, <1>5 DEF Resumed
  <2>2. \A i, j \in 1 .. Len(u) : Resuming(u[i]) /\ Resuming(u[j]) /\ u[i].th = u[j].th => i = j
    BY <1>2, <1>4, <1>5 DEF Resumed
  <2>3. \A co \in Coroutines : su[co] = "active" => \E i \in 1 .. Len(u) : Resuming(u[i]) /\ u[i].th = co
    BY <1>2, <1>3, <1>6, <1>7 DEF Resumed
  <2>4. QED
    BY <1>3, <2>1, <2>2, <2>3 DEF Resumed, u, su

LEMMA PopResumed ==
  ASSUME NEW s, Nested(s), Last(s).kind # "host", NEW st, Resumed(s, st), NEW end \in {"ready", "dead"}
  PROVE  Resumed(Front(s), IF Resuming(Last(s)) THEN [st EXCEPT ![Last(s).th] = end] ELSE st)
<1> DEFINE u == Front(s)
           n == Len(s)
           su == IF Resuming(Last(s)) THEN [st EXCEPT ![Last(s).th] = end] ELSE st
<1>1. /\ n \in Nat /\ n >= 2 /\ Len(u) = n - 1 /\ Last(s) = s[n]
      /\ \A i \in 1 .. Len(u) : i \in 1 .. n /\ i # n /\ u[i] = s[i]
      /\ \A i \in 1 .. n : i # n => i \in 1 .. Len(u)
      /\ n \in 1 .. n
  BY PopNested, LastFacts DEF Nested
<1>2. Resuming(s[n]) => s[n].th \in Coroutines
  BY <1>1 DEF Resumed
<1>3. /\ su \in [Coroutines -> {"ready", "active", "dead"}]
      /\ \A co \in Coroutines : su[co] = IF Resuming(s[n]) /\ co = s[n].th THEN end ELSE st[co]
  BY <1>1, <1>2 DEF Resumed
<1> HIDE DEF u, su, n
<1>4. \A i \in 1 .. Len(u) : Resuming(u[i]) =>
        /\ u[i].th \in Coroutines /\ st[u[i].th] = "active"
        /\ ~ (Resuming(s[n]) /\ u[i].th = s[n].th)
  BY <1>1 DEF Resumed, n
<1>5. \A i, j \in 1 .. Len(u) : Resuming(u[i]) /\ Resuming(u[j]) /\ u[i].th = u[j].th => i = j
  BY <1>1 DEF Resumed, n
<1>6. \A co \in Coroutines : su[co] = "active" => \E i \in 1 .. Len(u) : Resuming(u[i]) /\ u[i].th = co
  <2> SUFFICES ASSUME NEW co \in Coroutines, su[co] = "active"
               PROVE  \E i \in 1 .. Len(u) : Resuming(u[i]) /\ u[i].th = co
    OBVIOUS
  <2>1. st[co] = "active" /\ ~ (Resuming(s[n]) /\ co = s[n].th)
    BY <1>3
  <2>2. PICK i \in 1 .. n : Resuming(s[i]) /\ s[i].th = co
    BY <2>1 DEF Resumed, n
  <2>3. i # n
    BY <2>1, <2>2
  <2>4. QED
    BY <1>1, <2>2, <2>3
<1>7. QED
  <2>1. \A i \in 1 .. Len(u) : Resuming(u[i]) => u[i].th \in Coroutines /\ su[u[i].th] = "active"
    BY <1>3, <1>4
  <2>2. QED
    BY <1>3, <1>5, <1>6, <2>1 DEF Resumed, u, su

LEMMA PushLinked ==
  ASSUME NEW s, Nested(s), Linked(s), NEW f \in Frames, f.prev = Current(s[Len(s)])
  PROVE  Linked(Append(s, f)) /\ Append(s, f)[Len(Append(s, f))] = f
<1> DEFINE u == Append(s, f)
<1>1. s \in Seq(Frames) /\ Len(s) \in Nat /\ Len(s) >= 1
  BY DEF Nested
<1>2. /\ Len(u) = Len(s) + 1 /\ u[Len(s) + 1] = f
      /\ \A i \in 1 .. Len(s) : u[i] = s[i]
  BY <1>1, AppendFacts
<1> HIDE DEF u
<1>3. ASSUME NEW i \in 2 .. Len(u) PROVE u[i].prev = Current(u[i - 1])
  <2>1. CASE i = Len(u)
    BY <2>1, <1>1, <1>2
  <2>2. CASE i # Len(u)
    <3>1. i \in 2 .. Len(s) /\ i - 1 \in 1 .. Len(s) /\ i \in 1 .. Len(s)
      BY <2>2, <1>1, <1>2
    <3>2. QED
      BY <3>1, <1>1, <1>2 DEF Linked
  <2>3. QED
    BY <2>1, <2>2
<1>4. QED
  BY <1>2, <1>3 DEF Linked, u

LEMMA PopLinked ==
  ASSUME NEW s, Nested(s), Linked(s), Last(s).kind # "host"
  PROVE  Linked(Front(s)) /\ Last(s).prev = Current(Front(s)[Len(Front(s))])
<1>1. /\ Len(s) \in Nat /\ Len(s) >= 2 /\ Len(Front(s)) = Len(s) - 1
      /\ Last(s) = s[Len(s)]
      /\ \A i \in 1 .. Len(s) - 1 : Front(s)[i] = s[i]
  BY PopNested, LastFacts DEF Nested
<1>2. \A i \in 2 .. Len(s) - 1 : Front(s)[i] = s[i] /\ Front(s)[i - 1] = s[i - 1] /\ i \in 2 .. Len(s)
  BY <1>1
<1>3. QED
  BY <1>1, <1>2 DEF Linked

LEMMA PushAsked ==
  ASSUME NEW s, Nested(s), NEW y \in BOOLEAN, Asked(s, y), NEW f \in Frames,
         ~ f.asks, ~ y \/ f.kind = "gc", f.kind = "call" => ~ f.oy
  PROVE  Asked(Append(s, f), y)
<1> DEFINE u == Append(s, f)
<1>1. s \in Seq(Frames) /\ Len(s) \in Nat
  BY DEF Nested
<1>2. /\ Len(u) = Len(s) + 1 /\ u[Len(s) + 1] = f
      /\ \A i \in 1 .. Len(s) : u[i] = s[i]
  BY <1>1, AppendFacts
<1> HIDE DEF u
<1>3. /\ \A i \in 1 .. Len(u) : (i \in 1 .. Len(s) /\ u[i] = s[i]) \/ (i = Len(s) + 1 /\ u[i] = f)
      /\ \A i \in 1 .. Len(s) : i \in 1 .. Len(u)
      /\ \A i \in 1 .. Len(s) : \A j \in i + 1 .. Len(u) : j \in i + 1 .. Len(s) \/ j = Len(s) + 1
      /\ \A i \in 1 .. Len(s) : \A j \in i + 1 .. Len(s) : u[j] = s[j]
  BY <1>1, <1>2
<1>4. \A i \in 1 .. Len(u) : u[i].asks => u[i].kind = "call" /\ \A j \in i + 1 .. Len(u) : u[j].kind = "gc"
  <2> SUFFICES ASSUME NEW i \in 1 .. Len(u), u[i].asks
               PROVE  u[i].kind = "call" /\ \A j \in i + 1 .. Len(u) : u[j].kind = "gc"
    OBVIOUS
  <2>1. i \in 1 .. Len(s) /\ u[i] = s[i]
    BY <1>3
  <2>2. y
    BY <2>1 DEF Asked
  <2>3. s[i].kind = "call" /\ \A j \in i + 1 .. Len(s) : s[j].kind = "gc"
    BY <2>1 DEF Asked
  <2>4. QED
    BY <2>1, <2>2, <2>3, <1>2, <1>3
<1>5. y <=> \E i \in 1 .. Len(u) : u[i].asks
  BY <1>3 DEF Asked
<1>6. \A i \in 1 .. Len(u) : u[i].kind = "call" => ~ u[i].oy
  BY <1>3 DEF Asked
<1>7. QED
  BY <1>4, <1>5, <1>6 DEF Asked, u

LEMMA PopAsked ==
  ASSUME NEW s, Nested(s), Last(s).kind # "host", NEW y \in BOOLEAN, Asked(s, y)
  PROVE  /\ Asked(Front(s), y /\ ~ Last(s).asks)
         /\ Last(s).kind # "gc" => (y <=> Last(s).asks)
         /\ Last(s).kind = "call" => ~ Last(s).oy
         /\ Last(s).asks => Last(s).kind = "call"
<1> DEFINE u == Front(s)
           n == Len(s)
<1>1. /\ n \in Nat /\ n >= 2 /\ Len(u) = n - 1 /\ Last(s) = s[n]
      /\ \A i \in 1 .. Len(u) : i \in 1 .. n /\ i # n /\ u[i] = s[i] /\ n \in i + 1 .. n
      /\ \A i \in 1 .. Len(u) : \A j \in i + 1 .. Len(u) : j \in i + 1 .. n /\ u[j] = s[j]
      /\ \A i \in 1 .. n : i # n => i \in 1 .. Len(u)
      /\ n \in 1 .. n
      /\ s[n] \in Frames
  BY PopNested, LastFacts DEF Nested
<1> HIDE DEF u, n
<1>2. /\ \A i \in 1 .. n : s[i].asks =>
           s[i].kind = "call" /\ \A j \in i + 1 .. n : s[j].kind = "gc"
      /\ y <=> \E i \in 1 .. n : s[i].asks
      /\ \A i \in 1 .. n : s[i].kind = "call" => ~ s[i].oy
  BY DEF Asked, n
<1>3. \A i \in 1 .. Len(u) : u[i].asks => s[n].kind = "gc" /\ ~ s[n].asks
  BY <1>1, <1>2
<1>4. y /\ ~ s[n].asks <=> \E i \in 1 .. Len(u) : u[i].asks
  BY <1>1, <1>2, <1>3
<1>5. s[n].kind # "gc" => (y <=> s[n].asks)
  BY <1>1, <1>2, <1>3
<1>6. Asked(u, y /\ ~ s[n].asks)
  <2>1. \A i \in 1 .. Len(u) : u[i].asks => u[i].kind = "call" /\ \A j \in i + 1 .. Len(u) : u[j].kind = "gc"
    BY <1>1, <1>2
  <2>2. \A i \in 1 .. Len(u) : u[i].kind = "call" => ~ u[i].oy
    BY <1>1, <1>2
  <2>3. QED
    BY <1>4, <2>1, <2>2, Zenon DEF Asked
<1>7. QED
  BY <1>1, <1>2, <1>5, <1>6 DEF u

(* A frame whose method asks to yield, with nothing above it.              *)
LEMMA Marked ==
  ASSUME NEW s, Nested(s), NEW u, u = [s EXCEPT ![Len(s)].asks = TRUE]
  PROVE  /\ Nested(u) /\ Len(u) = Len(s)
         /\ \A st : Resumed(s, st) => Resumed(u, st)
         /\ Linked(s) => Linked(u) /\ Current(u[Len(u)]) = Current(s[Len(s)])
         /\ (Asked(s, TRUE) \/ Asked(s, FALSE)) /\ Last(s).kind = "call" => Asked(u, TRUE)
<1> DEFINE n == Len(s)
<1>1. s \in Seq(Frames) /\ n \in Nat /\ n >= 1 /\ n \in 1 .. n /\ \A i \in 1 .. n : s[i] \in Frames
  BY LastFacts DEF Nested
<1>2. [s[n] EXCEPT !.asks = TRUE] \in Frames
  BY <1>1 DEF Frames
<1>3. /\ u \in Seq(Frames) /\ Len(u) = n
      /\ \A i \in 1 .. n : u[i] = IF i = n THEN [s[n] EXCEPT !.asks = TRUE] ELSE s[i]
  BY <1>1, <1>2
<1>4. \A i \in 1 .. n : /\ u[i].kind = s[i].kind /\ u[i].th = s[i].th /\ u[i].prev = s[i].prev
                        /\ u[i].oy = s[i].oy
                        /\ u[i].asks = IF i = n THEN TRUE ELSE s[i].asks
  BY <1>1, <1>3 DEF Frames
<1>5. \A i \in 2 .. n : i \in 1 .. n /\ i - 1 \in 1 .. n
  BY <1>1
<1> HIDE DEF n
<1>6. /\ \A i \in 1 .. n : Resuming(u[i]) <=> Resuming(s[i])
      /\ \A i \in 1 .. n : Current(u[i]) = Current(s[i])
  BY <1>4 DEF Resuming, Current, Switching
<1>7. Nested(u)
  <2>1. \A i \in 2 .. n : Above(s[i], s[i - 1])
    BY DEF Nested, n
  <2>2. \A i \in 2 .. n : Above(u[i], u[i - 1])
    BY <1>4, <1>5, <2>1 DEF Above
  <2>3. u[1].kind = "host" /\ u[1].th = Main /\ Len(u) >= 1
    BY <1>1, <1>3, <1>4 DEF Nested
  <2>4. QED
    BY <1>3, <2>2, <2>3 DEF Nested
<1>8. ASSUME NEW st, Resumed(s, st) PROVE Resumed(u, st)
  <2>1. /\ st \in [Coroutines -> {"ready", "active", "dead"}]
        /\ \A i \in 1 .. n : Resuming(s[i]) => s[i].th \in Coroutines /\ st[s[i].th] = "active"
        /\ \A i, j \in 1 .. n : Resuming(s[i]) /\ Resuming(s[j]) /\ s[i].th = s[j].th => i = j
        /\ \A co \in Coroutines : st[co] = "active" => \E i \in 1 .. n : Resuming(s[i]) /\ s[i].th = co
    BY <1>8 DEF Resumed, n
  <2>2. /\ \A i \in 1 .. n : Resuming(u[i]) => u[i].th \in Coroutines /\ st[u[i].th] = "active"
        /\ \A i, j \in 1 .. n : Resuming(u[i]) /\ Resuming(u[j]) /\ u[i].th = u[j].th => i = j
    BY <1>4, <1>6, <2>1
  <2>3. \A co \in Coroutines : st[co] = "active" => \E i \in 1 .. n : Resuming(u[i]) /\ u[i].th = co
    <3> SUFFICES ASSUME NEW co \in Coroutines, st[co] = "active"
                 PROVE  \E i \in 1 .. n : Resuming(u[i]) /\ u[i].th = co
      OBVIOUS
    <3>1. PICK i \in 1 .. n : Resuming(s[i]) /\ s[i].th = co
      BY <2>1
    <3>2. Resuming(u[i]) /\ u[i].th = co
      BY <1>4, <1>6, <3>1
    <3>3. QED
      BY <3>2
  <2>4. QED
    BY <1>3, <2>1, <2>2, <2>3, Zenon DEF Resumed
<1>9. ASSUME Linked(s) PROVE Linked(u) /\ Current(u[Len(u)]) = Current(s[Len(s)])
  BY <1>1, <1>3, <1>4, <1>5, <1>6, <1>9 DEF Linked, n
<1>10. ASSUME Asked(s, TRUE) \/ Asked(s, FALSE), Last(s).kind = "call" PROVE Asked(u, TRUE)
  <2>1. s[n].kind = "call"
    BY <1>10 DEF Last, n
  <2>2. \A i \in 1 .. n : s[i].asks => s[i].kind = "call" /\ \A j \in i + 1 .. n : s[j].kind = "gc"
    BY <1>10 DEF Asked, n
  <2>3. ASSUME NEW i \in 1 .. n, u[i].asks
        PROVE  u[i].kind = "call" /\ \A j \in i + 1 .. n : u[j].kind = "gc"
    <3>1. CASE i = n
      BY <1>1, <1>4, <2>1, <3>1
    <3>2. CASE i # n
      <4>1. s[i].asks
        BY <1>4, <2>3, <3>2
      <4>2. n \in i + 1 .. n
        BY <1>1, <3>2
      <4>3. QED
        BY <2>1, <2>2, <4>1, <4>2
    <3>3. QED
      BY <3>1, <3>2
  <2>4. \E i \in 1 .. n : u[i].asks
    BY <1>1, <1>4
  <2>5. \A i \in 1 .. n : u[i].kind = "call" => ~ u[i].oy
    BY <1>4, <1>10, Zenon DEF Asked, n
  <2>6. QED
    BY <1>3, <2>3, <2>4, <2>5, Zenon DEF Asked
<1>11. QED
  BY <1>3, <1>7, <1>8, <1>9, <1>10 DEF n

(* Lua code that stops, at the top of the stack s and with c in _lst.      *)
LEMMA CutFacts ==
  ASSUME NEW s, Nested(s), Last(s).kind \in Protected, Resumed(s, status),
         NEW c \in Threads, NEW end \in {"ready", "dead"}, Cut(s, c, end)
  PROVE  /\ Nested(stack') /\ Resumed(stack', status') /\ lst' \in Threads
         /\ stack' = Front(s)
         /\ Linked(s) /\ c = Current(s[Len(s)]) => Linked(stack') /\ lst' = Current(stack'[Len(stack')])
<1> DEFINE f == Last(s)
<1>1. f \in Frames /\ f = s[Len(s)] /\ f.kind # "host"
  BY LastFacts DEF Protected
<1>2. /\ stack' = Front(s)
      /\ lst' = IF f.kind = "resume" THEN f.prev ELSE c
      /\ status' = IF Resuming(f) THEN [status EXCEPT ![f.th] = end] ELSE status
  BY Zenon DEF Cut, Resuming
<1>3. Nested(stack') /\ Resumed(stack', status')
  BY <1>1, <1>2, PopNested, PopResumed, Zenon
<1>4. lst' \in Threads
  BY <1>1, <1>2 DEF Frames
<1>5. ASSUME Linked(s), c = Current(s[Len(s)])
      PROVE  Linked(stack') /\ lst' = Current(stack'[Len(stack')])
  <2>1. Linked(stack') /\ f.prev = Current(stack'[Len(stack')])
    BY <1>1, <1>2, <1>5, PopLinked
  <2>2. f.kind # "resume" => c = f.prev
    BY <1>1, <1>5 DEF Current, Switching, Protected
  <2>3. QED
    BY <1>2, <2>1, <2>2
<1>6. QED
  BY <1>2, <1>3, <1>4, <1>5

-----------------------------------------------------------------------------
(* Setting a global.                                                       *)

Outcomes == [ok : BOOLEAN, left : {0}]

(* What set_global_r makes of one level, given what it made of the next.   *)
Level(path, i, below) ==
  LET Thrown(left, pushed, popped) == [ok |-> FALSE, left |-> left + pushed - popped]
      p == SubSeq(path, 1, i) IN
  IF i = Len(path) \/ globals[p] = "nil"
    THEN LET rest == IF i = Len(path) THEN [ok |-> TRUE, left |-> 0] ELSE below IN
         IF rest.ok /\ ~ Refused(p) THEN rest ELSE Thrown(rest.left, 2, 2)
  ELSE IF globals[p] \in {"table", "sealed"}
    THEN IF below.ok THEN below ELSE Thrown(below.left, 1, 1)
  ELSE Thrown(0, 1, 1)

LEMMA LevelFacts ==
  ASSUME NEW path, NEW i, NEW below, i = Len(path) \/ below \in Outcomes
  PROVE  /\ Level(path, i, below) \in Outcomes
         /\ Level(path, i, below).ok /\ i # Len(path) =>
              below.ok /\ globals[SubSeq(path, 1, i)] \in {"nil", "table", "sealed"}
         /\ i = Len(path) => \A other : Level(path, i, other) = Level(path, i, below)
<1> DEFINE p == SubSeq(path, 1, i)
           g == globals[p]
           no == Refused(p)
<1>1. Level(path, i, below) =
        IF i = Len(path) \/ g = "nil"
          THEN LET rest == IF i = Len(path) THEN [ok |-> TRUE, left |-> 0] ELSE below IN
               IF rest.ok /\ ~ no THEN rest ELSE [ok |-> FALSE, left |-> rest.left + 2 - 2]
        ELSE IF g \in {"table", "sealed"}
          THEN IF below.ok THEN below ELSE [ok |-> FALSE, left |-> below.left + 1 - 1]
        ELSE [ok |-> FALSE, left |-> 0 + 1 - 1]
  BY DEF Level
<1>2. no \in BOOLEAN
  BY DEF Refused
<1>3. i = Len(path) => \A other : Level(path, i, other) = Level(path, i, below)
  BY DEF Level
<1> HIDE DEF g, no
<1>4. CASE i = Len(path)
  BY <1>1, <1>2, <1>3, <1>4 DEF Outcomes
<1>5. CASE i # Len(path)
  <2>1. below \in Outcomes
    BY <1>5
  <2>2. CASE g = "nil"
    BY <1>1, <1>2, <1>5, <2>1, <2>2 DEF Outcomes, g
  <2>3. CASE g # "nil" /\ g \in {"table", "sealed"}
    BY <1>1, <1>5, <2>1, <2>3 DEF Outcomes, g
  <2>4. CASE g # "nil" /\ g \notin {"table", "sealed"}
    BY <1>1, <1>5, <2>4 DEF Outcomes, g
  <2>5. QED
    BY <2>2, <2>3, <2>4, <1>5
<1>6. QED
  BY <1>3, <1>4, <1>5

(* set_global_r is the function that its levels define: there is one.      *)
LEMMA AllLevels ==
  ASSUME NEW path, Len(path) \in Nat, Len(path) >= 1
  PROVE  \E at \in [1 .. Len(path) -> Outcomes] :
           \A i \in 1 .. Len(path) : at[i] = Level(path, i, at[i + 1])
<1> DEFINE n == Len(path)
           Reached(m) == \E at \in [m .. n -> Outcomes] : \A i \in m .. n : at[i] = Level(path, i, at[i + 1])
           T == {m \in Nat : m < n /\ ~ Reached(n - m)}
<1>1. n \in Nat /\ n >= 1
  OBVIOUS
<1>2. Reached(n)
  <2> DEFINE at == [i \in n .. n |-> Level(path, n, 0)]
  <2>1. at \in [n .. n -> Outcomes]
    BY LevelFacts
  <2>2. \A i \in n .. n : i = n /\ at[i] = Level(path, n, 0)
    BY <1>1
  <2>3. \A i \in n .. n : at[i] = Level(path, i, at[i + 1])
    BY <2>2, LevelFacts
  <2>4. QED
    BY <2>1, <2>3
<1>3. ASSUME NEW m \in Nat, m > 1, m <= n, Reached(m)
      PROVE  Reached(m - 1)
  <2>1. PICK at \in [m .. n -> Outcomes] : \A i \in m .. n : at[i] = Level(path, i, at[i + 1])
    BY <1>3
  <2> DEFINE first == Level(path, m - 1, at[m])
             up == [i \in m - 1 .. n |-> IF i = m - 1 THEN first ELSE at[i]]
  <2>2. m \in m .. n /\ m - 1 # n /\ \A i \in m - 1 .. n : i # m - 1 => i \in m .. n
    BY <1>1, <1>3
  <2>3. first \in Outcomes
    BY <2>2, LevelFacts
  <2>4. up \in [m - 1 .. n -> Outcomes]
    BY <2>2, <2>3
  <2>5. ASSUME NEW i \in m - 1 .. n PROVE up[i] = Level(path, i, up[i + 1])
    <3>1. CASE i = m - 1
      <4>1. i + 1 = m /\ m \in m - 1 .. n /\ m # m - 1
        BY <1>1, <1>3, <3>1
      <4>2. QED
        BY <3>1, <4>1
    <3>2. CASE i # m - 1 /\ i # n
      <4>1. i \in m .. n /\ i + 1 \in m - 1 .. n /\ i + 1 # m - 1
        BY <1>1, <1>3, <3>2
      <4>2. QED
        BY <2>1, <3>2, <4>1
    <3>3. CASE i # m - 1 /\ i = n
      <4>1. up[i] = at[i] /\ at[i] = Level(path, i, at[i + 1])
        BY <2>1, <2>2, <3>3
      <4>2. QED
        BY <4>1, <3>3, LevelFacts
    <3>4. QED
      BY <3>1, <3>2, <3>3
  <2>6. QED
    BY <2>4, <2>5
<1> HIDE DEF Reached
<1>4. T = {}
  <2> SUFFICES ASSUME T # {} PROVE FALSE
    OBVIOUS
  <2>1. PICK m \in T : \A k \in T : ~ (<<k, m>> \in OpToRel(<, Nat))
    BY NatLessThanWellFounded, WFMin
  <2>2. m \in Nat /\ m < n /\ ~ Reached(n - m)
    OBVIOUS
  <2>3. m # 0
    BY <1>1, <1>2, <2>2
  <2>4. m - 1 \in Nat /\ m - 1 < m /\ m - 1 < n
    BY <1>1, <2>2, <2>3
  <2>5. ~ (m - 1 \in T)
    BY <2>1, <2>4 DEF OpToRel
  <2>6. Reached(n - (m - 1))
    BY <2>4, <2>5
  <2>7. n - (m - 1) \in Nat /\ n - (m - 1) > 1 /\ n - (m - 1) <= n /\ n - (m - 1) - 1 = n - m
    BY <1>1, <2>2, <2>3
  <2>8. QED
    BY <1>3, <2>2, <2>6, <2>7
<1>5. Reached(1)
  <2>1. n - 1 \in Nat /\ n - 1 < n /\ n - (n - 1) = 1
    BY <1>1
  <2>2. QED
    BY <1>4, <2>1
<1>6. QED
  BY <1>5 DEF Reached

LEMMA SetGlobalFacts ==
  ASSUME NEW path, Len(path) \in Nat, Len(path) >= 1
  PROVE  /\ set_global_r(path) \in Outcomes
         /\ set_global_r(path).ok => \A i \in 1 .. Len(path) - 1 :
              globals[SubSeq(path, 1, i)] \in {"nil", "table", "sealed"}
<1> DEFINE n == Len(path)
           at[i \in 1 .. n] == Level(path, i, at[i + 1])
<1>1. set_global_r(path) = at[1]
  BY DEF set_global_r, Level
<1>2. PICK f \in [1 .. n -> Outcomes] : \A i \in 1 .. n : f[i] = Level(path, i, f[i + 1])
  BY AllLevels
<1>3. f = [i \in 1 .. n |-> Level(path, i, f[i + 1])]
  BY <1>2
<1>4. at = [i \in 1 .. n |-> Level(path, i, at[i + 1])]
  BY <1>3
<1> HIDE DEF at
<1>5. \A i \in 1 .. n : at[i] = Level(path, i, at[i + 1])
  BY <1>4
<1>6. \A i \in 1 .. n : at[i] \in Outcomes
  <2> DEFINE T == {m \in Nat : m < n /\ at[n - m] \notin Outcomes}
  <2>1. T = {}
    <3> SUFFICES ASSUME T # {} PROVE FALSE
      OBVIOUS
    <3>1. PICK m \in T : \A k \in T : ~ (<<k, m>> \in OpToRel(<, Nat))
      BY NatLessThanWellFounded, WFMin
    <3>2. m \in Nat /\ m < n /\ at[n - m] \notin Outcomes /\ n - m \in 1 .. n
      OBVIOUS
    <3>3. CASE m = 0
      BY <1>5, <3>2, <3>3, LevelFacts
    <3>4. CASE m # 0
      <4>1. m - 1 \in Nat /\ m - 1 < m /\ m - 1 < n /\ n - (m - 1) = (n - m) + 1
        BY <3>2, <3>4
      <4>2. m - 1 \notin T
        BY <3>1, <4>1 DEF OpToRel
      <4>3. at[(n - m) + 1] \in Outcomes
        BY <4>1, <4>2
      <4>4. at[n - m] = Level(path, n - m, at[(n - m) + 1])
        BY <1>5, <3>2
      <4>5. Level(path, n - m, at[(n - m) + 1]) \in Outcomes
        BY <4>3, LevelFacts
      <4>6. QED
        BY <3>2, <4>4, <4>5
    <3>5. QED
      BY <3>3, <3>4
  <2>2. \A i \in 1 .. n : n - i \in Nat /\ n - i < n /\ n - (n - i) = i
    OBVIOUS
  <2>3. QED
    BY <2>1, <2>2
<1>7. ASSUME NEW i \in 1 .. n, at[i].ok, i # n
      PROVE  at[i + 1].ok /\ globals[SubSeq(path, 1, i)] \in {"nil", "table", "sealed"}
  <2>1. i + 1 \in 1 .. n
    BY <1>7
  <2>2. QED
    BY <1>5, <1>6, <1>7, <2>1, LevelFacts
<1>8. ASSUME at[1].ok PROVE \A i \in 1 .. n : at[i].ok
  <2> DEFINE T == {i \in Nat : i \in 1 .. n /\ ~ at[i].ok}
  <2>1. T = {}
    <3> SUFFICES ASSUME T # {} PROVE FALSE
      OBVIOUS
    <3>1. PICK i \in T : \A k \in T : ~ (<<k, i>> \in OpToRel(<, Nat))
      BY NatLessThanWellFounded, WFMin
    <3>2. i \in 1 .. n /\ ~ at[i].ok /\ i # 1
      BY <1>8
    <3>3. i - 1 \in Nat /\ i - 1 \in 1 .. n /\ i - 1 < i /\ i - 1 # n /\ i - 1 + 1 = i
      BY <3>2
    <3>4. at[i - 1].ok
      BY <3>1, <3>3 DEF OpToRel
    <3>5. QED
      BY <1>7, <3>2, <3>3, <3>4
  <2>2. \A i \in 1 .. n : i \in Nat
    OBVIOUS
  <2>3. QED
    BY <2>1, <2>2
<1>9. 1 \in 1 .. n /\ \A i \in 1 .. n - 1 : i \in 1 .. n /\ i # n
  OBVIOUS
<1>10. QED
  BY <1>1, <1>6, <1>7, <1>8, <1>9

LEMMA PathFacts ==
  ASSUME NEW p \in Paths, NEW q \in Paths
  PROVE  /\ p \in Seq(STRING) /\ Len(p) \in Nat /\ Len(p) >= 1
         /\ IsStrictPrefix(q, p) => Len(q) \in 1 .. Len(p) - 1 /\ q = SubSeq(p, 1, Len(q))
                                  /\ ~ IsStrictPrefix(p, q)
<1>1. /\ p \in Seq(STRING) /\ Len(p) \in Nat /\ Len(p) >= 1
      /\ q \in Seq(STRING) /\ Len(q) \in Nat /\ Len(q) >= 1
  BY PathsAssumption
<1>2. SubSeq(p, 1, Len(p)) = p /\ SubSeq(q, 1, Len(q)) = q
  BY <1>1, SubSeqFull
<1>3. IsStrictPrefix(q, p) => q = SubSeq(p, 1, Len(q)) /\ Len(q) <= Len(p) /\ q # p
  BY <1>2, Zenon DEF IsStrictPrefix, IsPrefix
<1>4. IsStrictPrefix(q, p) => Len(q) # Len(p)
  BY <1>2, <1>3
<1>5. IsStrictPrefix(p, q) => Len(p) <= Len(q)
  BY Zenon DEF IsStrictPrefix, IsPrefix
<1>6. QED
  BY <1>1, <1>3, <1>4, <1>5

LEMMA SetWholeOrNot ==
  ASSUME IInv, NEW path \in Paths, NEW what \in Contents, SetGlobal(path, what)
  PROVE  /\ height' = height
         /\ globals' \in [Paths -> Contents]
         /\ \/ globals' = globals
            \/ /\ get_global(path)' = what
               /\ \A q \in Paths \ {path} :
                    \/ globals'[q] = globals[q]
                    \/ IsStrictPrefix(path, q) /\ globals'[q] = "nil"
                    \/ IsStrictPrefix(q, path) /\ globals[q] = "nil" /\ globals'[q] = "table"
<1> DEFINE r == set_global_r(path)
<1>1. Len(path) \in Nat /\ Len(path) >= 1
  BY PathFacts
<1>2. /\ r \in Outcomes
      /\ r.ok => \A i \in 1 .. Len(path) - 1 : globals[SubSeq(path, 1, i)] \in {"nil", "table", "sealed"}
  BY <1>1, SetGlobalFacts
<1>3. globals' = (IF r.ok THEN Put(path, what) ELSE globals) /\ height' = height + r.left
  BY DEF SetGlobal
<1> HIDE DEF r
<1>4. height' = height
  BY <1>2, <1>3 DEF Outcomes, IInv
<1>5. CASE ~ r.ok
  BY <1>3, <1>4, <1>5 DEF IInv
<1>6. CASE r.ok
  <2>1. globals' = [q \in Paths |-> CASE q = path -> what
                                      [] IsStrictPrefix(path, q) -> "nil"
                                      [] IsStrictPrefix(q, path) /\ globals[q] = "nil" -> "table"
                                      [] OTHER -> globals[q]]
    BY <1>3, <1>6 DEF Put
  <2>2. ~ IsStrictPrefix(path, path)
    BY DEF IsStrictPrefix
  <2>3. \A q \in Paths : IsStrictPrefix(q, path) =>
          ~ IsStrictPrefix(path, q) /\ q # path /\ globals[q] \in {"nil", "table", "sealed"}
    BY <1>2, <1>6, <2>2, PathFacts
  <2>4. globals'[path] = what
    BY <2>1, <2>2
  <2>5. ASSUME NEW q \in Paths, q # path
        PROVE  /\ globals'[q] \in Contents
               /\ \/ globals'[q] = globals[q]
                  \/ IsStrictPrefix(path, q) /\ globals'[q] = "nil"
                  \/ IsStrictPrefix(q, path) /\ globals[q] = "nil" /\ globals'[q] = "table"
               /\ IsStrictPrefix(q, path) => globals'[q] \in {"table", "sealed"}
    <3>1. globals[q] \in Contents
      BY DEF IInv
    <3>2. globals'[q] = CASE IsStrictPrefix(path, q) -> "nil"
                          [] IsStrictPrefix(q, path) /\ globals[q] = "nil" -> "table"
                          [] OTHER -> globals[q]
      BY <2>1, <2>5
    <3>3. CASE IsStrictPrefix(path, q)
      <4>1. ~ IsStrictPrefix(q, path)
        BY <2>3, <3>3
      <4>2. globals'[q] = "nil"
        BY <3>2, <3>3, <4>1
      <4>3. QED
        BY <3>3, <4>1, <4>2 DEF Contents
    <3>4. CASE ~ IsStrictPrefix(path, q) /\ IsStrictPrefix(q, path)
      BY <2>3, <3>1, <3>2, <3>4 DEF Contents
    <3>5. CASE ~ IsStrictPrefix(path, q) /\ ~ IsStrictPrefix(q, path)
      BY <3>1, <3>2, <3>5
    <3>6. QED
      BY <3>3, <3>4, <3>5
  <2>6. globals' \in [Paths -> Contents]
    <3>1. \A q \in Paths : globals'[q] \in Contents
      BY <2>4, <2>5
    <3>2. QED
      BY <2>1, <3>1
  <2>7. get_global(path)' = what
    <3>1. \A q \in Paths : IsStrictPrefix(q, path) => globals'[q] \in {"table", "sealed"}
      BY <2>3, <2>5
    <3>2. QED
      BY <2>4, <3>1 DEF get_global
  <2>8. QED
    BY <1>4, <2>5, <2>6, <2>7
<1>7. QED
  BY <1>5, <1>6

-----------------------------------------------------------------------------
(* Type correctness, with the nesting of the calls.                        *)

LEMMA FrameFacts ==
  ASSUME NEW kind \in Kinds, NEW th \in Threads, NEW prev \in Threads, NEW oy \in BOOLEAN
  PROVE  /\ Frame(kind, th, prev, oy) \in Frames
         /\ Frame(kind, th, prev, oy).kind = kind /\ Frame(kind, th, prev, oy).th = th
         /\ Frame(kind, th, prev, oy).prev = prev /\ Frame(kind, th, prev, oy).oy = oy
         /\ ~ Frame(kind, th, prev, oy).asks
BY DEF Frame, Frames

LEMMA KindFacts ==
  /\ {"host", "chunk", "resume", "pcall", "cresume"} \subseteq Kinds
  /\ Callbacks \subseteq Kinds
BY DEF Kinds, Protected

LEMMA TopFacts ==
  ASSUME IInv
  PROVE  /\ Top = stack[Len(stack)] /\ Top \in Frames /\ Top = Last(stack)
         /\ Top.kind \in Kinds /\ Top.th \in Threads /\ Top.prev \in Threads
         /\ Top.oy \in BOOLEAN /\ Top.asks \in BOOLEAN
BY LastFacts DEF IInv, Top, Frames

(* The code below a callback is Lua's, unless the collector called it.     *)
LEMMA BelowFacts ==
  ASSUME IInv, Top.kind \in Callbacks
  PROVE  /\ Nested(Front(stack)) /\ Resumed(Front(stack), status)
         /\ Top.kind # "gc" => Last(Front(stack)).kind \in Protected
         /\ Len(Front(stack)) = Len(stack) - 1
<1>1. Top = Last(stack) /\ Top.kind # "host" /\ ~ Resuming(Top) /\ Top = stack[Len(stack)]
  BY TopFacts DEF Callbacks, Resuming
<1>2. /\ Nested(Front(stack)) /\ Len(Front(stack)) = Len(stack) - 1
      /\ Last(Front(stack)) = stack[Len(stack) - 1] /\ Len(stack) \in Nat /\ Len(stack) >= 2
  <2>1. Nested(stack) /\ Last(stack).kind # "host" /\ Len(stack) \in Nat
    BY <1>1 DEF IInv, Nested
  <2>2. QED
    BY <2>1, PopNested
<1>3. Resumed(Front(stack), status)
  BY <1>1, PopResumed, Zenon DEF IInv
<1>4. Above(stack[Len(stack)], stack[Len(stack) - 1])
  <2>1. Nested(stack) /\ Len(stack) \in 2 .. Len(stack)
    BY <1>2 DEF IInv
  <2>2. QED
    BY <2>1, LastFacts
<1>5. QED
  BY <1>1, <1>2, <1>3, <1>4 DEF Above

LEMMA InitIInv == Init => IInv
<1> SUFFICES ASSUME Init PROVE IInv
  OBVIOUS
<1> DEFINE host == Frame("host", Main, Main, FALSE)
<1>1. host \in Frames /\ host.kind = "host" /\ host.th = Main
  <2>1. "host" \in Kinds /\ Main \in Threads
    BY KindFacts DEF Threads
  <2>2. QED
    BY <2>1 DEF Frame, Frames
<1>2. stack = <<host>> /\ status = [co \in Coroutines |-> "ready"]
  BY DEF Init
<1> HIDE DEF host
<1>3. Nested(stack)
  BY <1>1, <1>2 DEF Nested
<1>4. Resumed(stack, status)
  BY <1>1, <1>2 DEF Resumed, Resuming
<1>5. QED
  BY <1>3, <1>4 DEF Init, IInv, Threads, Contents

LEMMA StepIInv == IInv /\ [Next]_vars => IInv'
<1> SUFFICES ASSUME IInv, [Next]_vars PROVE IInv'
  OBVIOUS
<1> USE TopFacts
<1>1. /\ Nested(stack) /\ Resumed(stack, status)
      /\ lst \in Threads /\ yielding \in BOOLEAN /\ libs \subseteq Libraries
      /\ globals \in [Paths -> Contents] /\ height \in Nat
      /\ Len(stack) \in Nat
  BY DEF IInv, Nested
<1>2. Coroutines \subseteq Threads
  BY DEF Threads
<1>3. CASE Exec
  <2> DEFINE f == Frame("chunk", lst, lst, FALSE)
  <2>1. f \in Frames /\ f.kind = "chunk"
    <3>1. "chunk" \in Kinds
      BY KindFacts
    <3>2. QED
      BY <1>1, <3>1 DEF Frame, Frames
  <2>2. Above(f, Last(stack)) /\ ~ Resuming(f)
    BY <2>1 DEF Above, Callbacks, Resuming
  <2>3. stack' = Append(stack, f) /\ status' = status
    BY <1>3 DEF Exec
  <2>4. Nested(stack') /\ Resumed(stack', status')
    BY <1>1, <2>1, <2>2, <2>3, PushNested, PushResumed, Zenon
  <2>5. QED
    BY <1>1, <1>3, <2>4 DEF Exec, IInv
<1>4. ASSUME NEW co \in Coroutines, Resume(co) PROVE IInv'
  <2> DEFINE f == Frame("resume", co, lst, FALSE)
  <2>1. f \in Frames /\ f.kind = "resume" /\ f.th = co
    <3>1. "resume" \in Kinds /\ co \in Threads
      BY <1>2, KindFacts
    <3>2. QED
      BY <1>1, <3>1 DEF Frame, Frames
  <2>2. Above(f, Last(stack)) /\ Resuming(f)
    BY <2>1 DEF Above, Callbacks, Resuming
  <2>3. /\ stack' = Append(stack, f) /\ status' = [status EXCEPT ![f.th] = "active"]
        /\ status[f.th] = "ready" /\ f.th \in Coroutines
    BY <1>4, <2>1 DEF Resume
  <2>4. Nested(stack') /\ Resumed(stack', status')
    BY <1>1, <2>1, <2>2, <2>3, PushNested, PushResuming, Zenon
  <2>5. QED
    BY <1>1, <1>2, <1>4, <2>4 DEF Resume, IInv
<1>5. CASE LuaCall
  <2>1. UNCHANGED <<lst, yielding, libs, globals, height>> /\ Top.kind \in Protected
    BY <1>5 DEF LuaCall, InLua
  <2>2. CASE stack' = Append(stack, Frame("pcall", Top.th, lst, FALSE)) /\ status' = status
    <3> DEFINE f == Frame("pcall", Top.th, lst, FALSE)
    <3>1. f \in Frames /\ f.kind = "pcall" /\ f.th = Top.th
      <4>1. "pcall" \in Kinds
        BY KindFacts
      <4>2. QED
        BY <1>1, <4>1 DEF Frame, Frames
    <3>2. Above(f, Last(stack)) /\ ~ Resuming(f)
      BY <3>1 DEF Above, Callbacks, Resuming
    <3>3. Nested(stack') /\ Resumed(stack', status')
      BY <1>1, <2>2, <3>1, <3>2, PushNested, PushResumed, Zenon
    <3>4. QED
      BY <1>1, <2>1, <3>3 DEF IInv
  <2>3. ASSUME NEW co \in Coroutines, status[co] = "ready",
               stack' = Append(stack, Frame("cresume", co, lst, FALSE)),
               status' = [status EXCEPT ![co] = "active"]
        PROVE  IInv'
    <3> DEFINE f == Frame("cresume", co, lst, FALSE)
    <3>1. f \in Frames /\ f.kind = "cresume" /\ f.th = co
      <4>1. "cresume" \in Kinds /\ co \in Threads
        BY <1>2, KindFacts
      <4>2. QED
        BY <1>1, <4>1 DEF Frame, Frames
    <3>2. Above(f, Last(stack)) /\ Resuming(f)
      BY <3>1 DEF Above, Callbacks, Resuming
    <3>3. Nested(stack') /\ Resumed(stack', status')
      BY <1>1, <2>3, <3>1, <3>2, PushNested, PushResuming, Zenon
    <3>4. QED
      BY <1>1, <2>1, <3>3 DEF IInv
  <2>4. QED
    BY <1>5, <2>2, <2>3 DEF LuaCall
<1>6. CASE LuaEnd
  <2>1. UNCHANGED <<yielding, libs, globals, height>> /\ Last(stack).kind \in Protected
    BY <1>6 DEF LuaEnd, InLua
  <2>2. PICK end \in {"ready", "dead"} : Cut(stack, lst, end)
    BY <1>6 DEF LuaEnd, Suspend
  <2>3. Nested(stack') /\ Resumed(stack', status') /\ lst' \in Threads
    BY <1>1, <2>1, <2>2, CutFacts, Zenon
  <2>4. QED
    BY <1>1, <2>1, <2>3 DEF IInv
<1>7. ASSUME NEW kind \in Callbacks, Callback(kind) PROVE IInv'
  <2> DEFINE th == IF InLua THEN Top.th ELSE lst
             f == Frame(kind, th, lst, yielding)
  <2>1. f \in Frames /\ f.kind = kind /\ f.th = th /\ th \in Threads
    <3>1. th \in Threads /\ kind \in Kinds
      BY <1>1 DEF Kinds
    <3>2. QED
      BY <1>1, <3>1, FrameFacts
  <2>2. stack' = Append(stack, f) /\ lst' = th /\ status' = status
    BY <1>7 DEF Callback
  <2>3. Above(f, Last(stack)) /\ ~ Resuming(f)
    BY <1>7, <2>1 DEF Callback, InLua, Above, Callbacks, Resuming
  <2>4. Nested(stack') /\ Resumed(stack', status')
    BY <1>1, <2>1, <2>2, <2>3, PushNested, PushResumed, Zenon
  <2>5. UNCHANGED <<libs, globals, height>> /\ yielding' \in BOOLEAN
    BY <1>1, <1>7 DEF Callback
  <2>6. QED
    BY <1>1, <2>1, <2>2, <2>4, <2>5 DEF IInv
<1>8. CASE Yield
  <2>1. stack' = [stack EXCEPT ![Len(stack)].asks = TRUE] /\ status' = status
    BY <1>8 DEF Yield
  <2>2. Nested(stack') /\ Resumed(stack', status')
    BY <1>1, <2>1, Marked, Zenon
  <2>3. QED
    BY <1>1, <1>8, <2>2 DEF Yield, IInv
<1>9. CASE Return
  <2>1. Top.kind \in Callbacks /\ UNCHANGED <<libs, globals, height>>
    BY <1>9 DEF Return
  <2>2. yielding' \in BOOLEAN
    BY <1>1, <1>9 DEF Return
  <2>3. CASE stack' = Front(stack) /\ lst' = Restored /\ status' = status
    BY <1>1, <2>1, <2>2, <2>3, BelowFacts DEF IInv, Restored
  <2>4. CASE Top.kind = "call" /\ Suspend(Front(stack), Restored)
    <3>1. PICK end \in {"ready", "dead"} : Cut(Front(stack), Restored, end)
      BY <2>4 DEF Suspend
    <3>2. /\ Nested(Front(stack)) /\ Resumed(Front(stack), status)
          /\ Last(Front(stack)).kind \in Protected /\ Restored \in Threads
      BY <2>1, <2>4, BelowFacts DEF Restored
    <3>3. Nested(stack') /\ Resumed(stack', status') /\ lst' \in Threads
      BY <3>1, <3>2, CutFacts, Zenon
    <3>4. QED
      BY <1>1, <2>1, <2>2, <3>3 DEF IInv
  <2>5. QED
    BY <1>9, <2>3, <2>4 DEF Return
<1>10. CASE Throw
  <2>1. UNCHANGED <<yielding, libs, globals, height>> /\ Top.kind \in {"call", "meta", "info"}
    BY <1>10 DEF Throw
  <2>2. PICK c \in Threads : Cut(Front(stack), c, "dead")
    BY <1>1, <1>10 DEF Throw, Restored
  <2>3. /\ Nested(Front(stack)) /\ Resumed(Front(stack), status)
        /\ Last(Front(stack)).kind \in Protected
    BY <2>1, BelowFacts DEF Callbacks
  <2>4. Nested(stack') /\ Resumed(stack', status') /\ lst' \in Threads
    BY <2>2, <2>3, CutFacts, Zenon
  <2>5. QED
    BY <1>1, <2>1, <2>4 DEF IInv
<1>11. ASSUME NEW path \in Paths, NEW what \in Contents, SetGlobal(path, what) PROVE IInv'
  <2>1. UNCHANGED <<stack, lst, yielding, status, libs>>
    BY <1>11 DEF SetGlobal, threads
  <2>2. height' = height /\ globals' \in [Paths -> Contents]
    BY <1>11, SetWholeOrNot
  <2>3. QED
    BY <1>1, <2>1, <2>2 DEF IInv
<1>12. ASSUME NEW lib \in Libraries, openlib(lib) PROVE IInv'
  BY <1>1, <1>12 DEF openlib, threads, Libraries, IInv
<1>13. CASE UNCHANGED vars
  BY <1>1, <1>13 DEF vars, IInv
<1>14. QED
  BY <1>3, <1>4, <1>5, <1>6, <1>7, <1>8, <1>9, <1>10, <1>11, <1>12, <1>13 DEF Next

LEMMA Inductive == Spec => []IInv
BY InitIInv, StepIInv, PTL DEF Spec

(* Every variable keeps its type, however deep the calls nest.             *)
THEOREM TypeCorrect == Spec => []TypeOK
<1>1. IInv => TypeOK
  <2> SUFFICES ASSUME IInv PROVE TypeOK
    OBVIOUS
  <2>1. stack \in Seq(Frames) /\ status \in [Coroutines -> {"ready", "active", "dead"}]
    BY DEF IInv, Nested, Resumed
  <2>2. DOMAIN stack = 1 .. Len(stack) /\ \A i \in 1 .. Len(stack) : stack[i] \in Frames
    BY <2>1
  <2>3. \A f \in Frames : /\ f.kind \in {"host"} \cup Callbacks \cup Protected
                          /\ {f.th, f.prev} \subseteq Threads
                          /\ {f.oy, f.asks} \subseteq BOOLEAN
    BY DEF Frames, Kinds
  <2>4. QED
    BY <2>1, <2>2, <2>3 DEF IInv, TypeOK
<1>2. QED
  BY Inductive, <1>1, PTL

-----------------------------------------------------------------------------
(* _lst is the thread of the code that runs.                               *)

LEMMA LastSwitching ==
  ASSUME NEW s, Nested(s), Linked(s)
  PROVE  \E k \in 1 .. Len(s) :
           /\ Switching(s[k]) /\ Current(s[Len(s)]) = s[k].th
           /\ \A i \in k + 1 .. Len(s) : ~ Switching(s[i])
<1> DEFINE n == Len(s)
           T == {k \in Nat : /\ k \in 1 .. n /\ Current(s[n]) = Current(s[k])
                            /\ \A i \in k + 1 .. n : ~ Switching(s[i])}
<1>1. n \in Nat /\ n >= 1 /\ s[1].kind = "host"
  BY DEF Nested
<1>2. n \in T
  BY <1>1
<1>3. PICK k \in T : \A j \in T : ~ (<<j, k>> \in OpToRel(<, Nat))
  BY <1>2, NatLessThanWellFounded, WFMin
<1>4. Switching(s[k])
  <2> SUFFICES ASSUME ~ Switching(s[k]) PROVE FALSE
    OBVIOUS
  <2>1. k # 1
    BY <1>1 DEF Switching
  <2>2. k - 1 \in Nat /\ k - 1 < k /\ k - 1 \in 1 .. n /\ k \in 2 .. n
    BY <1>1, <2>1
  <2>3. Current(s[k]) = Current(s[k - 1])
    BY <2>2 DEF Linked, Current
  <2>4. \A i \in (k - 1) + 1 .. n : i = k \/ i \in k + 1 .. n
    BY <1>1, <2>2
  <2>5. k - 1 \in T
    BY <2>2, <2>3, <2>4
  <2>6. QED
    BY <1>3, <2>2, <2>5 DEF OpToRel
<1>5. QED
  BY <1>4 DEF Current

LEMMA StepLst ==
  ASSUME ~ Foreign, IInv, LstInv, [Next]_vars
  PROVE  LstInv'
<1> USE TopFacts
<1>1. /\ Nested(stack) /\ Resumed(stack, status) /\ lst \in Threads
      /\ Linked(stack) /\ lst = Current(stack[Len(stack)]) /\ yielding \in BOOLEAN
  BY DEF IInv, LstInv
<1>2. Coroutines \subseteq Threads
  BY DEF Threads
<1>3. ASSUME NEW f \in Frames, stack' = Append(stack, f), f.prev = lst, lst' = Current(f)
      PROVE  LstInv'
  BY <1>1, <1>3, PushLinked DEF LstInv
<1>4. ASSUME stack' = stack, lst' = lst
      PROVE  LstInv'
  BY <1>1, <1>4 DEF LstInv
<1>5. ASSUME Top.kind \in Callbacks
      PROVE  Linked(Front(stack)) /\ Restored = Current(Front(stack)[Len(Front(stack))])
  <2>1. Last(stack).kind # "host"
    BY <1>5 DEF Callbacks
  <2>2. QED
    BY <1>1, <2>1, PopLinked DEF Restored
<1>6. ASSUME NEW s, Nested(s), Resumed(s, status), Last(s).kind \in Protected, Linked(s),
             NEW c \in Threads, c = Current(s[Len(s)]), NEW end \in {"ready", "dead"}, Cut(s, c, end)
      PROVE  LstInv'
  BY <1>6, CutFacts, Zenon DEF LstInv
<1>7. CASE Exec
  <2> DEFINE f == Frame("chunk", lst, lst, FALSE)
  <2>1. f \in Frames /\ f.kind = "chunk" /\ f.prev = lst
    <3>1. "chunk" \in Kinds
      BY KindFacts
    <3>2. QED
      BY <1>1, <3>1 DEF Frame, Frames
  <2>2. Current(f) = lst
    BY <2>1 DEF Current, Switching
  <2>3. stack' = Append(stack, f) /\ lst' = lst
    BY <1>7 DEF Exec
  <2>4. QED
    BY <1>3, <2>1, <2>2, <2>3
<1>8. ASSUME NEW co \in Coroutines, Resume(co) PROVE LstInv'
  <2> DEFINE f == Frame("resume", co, lst, FALSE)
  <2>1. f \in Frames /\ f.kind = "resume" /\ f.prev = lst /\ f.th = co
    <3>1. "resume" \in Kinds /\ co \in Threads
      BY <1>2, KindFacts
    <3>2. QED
      BY <1>1, <3>1 DEF Frame, Frames
  <2>2. Current(f) = co
    BY <2>1 DEF Current, Switching
  <2>3. stack' = Append(stack, f) /\ lst' = co
    BY <1>8 DEF Resume
  <2>4. QED
    BY <1>3, <2>1, <2>2, <2>3
<1>9. CASE LuaCall
  <2>1. PICK kind \in {"pcall", "cresume"}, th \in Threads :
          stack' = Append(stack, Frame(kind, th, lst, FALSE)) /\ lst' = lst
    BY <1>2, <1>9 DEF LuaCall
  <2> DEFINE f == Frame(kind, th, lst, FALSE)
  <2>2. f \in Frames /\ f.kind = kind /\ f.prev = lst
    <3>1. kind \in Kinds
      BY KindFacts
    <3>2. QED
      BY <1>1, <3>1 DEF Frame, Frames
  <2>3. Current(f) = lst
    BY <2>2 DEF Current, Switching
  <2>4. QED
    BY <1>3, <2>1, <2>2, <2>3
<1>10. CASE LuaEnd
  <2>1. PICK end \in {"ready", "dead"} : Cut(stack, lst, end)
    BY <1>10 DEF LuaEnd, Suspend
  <2>2. Last(stack).kind \in Protected
    BY <1>10 DEF LuaEnd, InLua
  <2>3. QED
    BY <1>1, <1>6, <2>1, <2>2
<1>11. ASSUME NEW kind \in Callbacks, Callback(kind) PROVE LstInv'
  <2> DEFINE th == IF InLua THEN Top.th ELSE lst
             f == Frame(kind, th, lst, yielding)
  <2>1. f \in Frames /\ f.kind = kind /\ f.th = th /\ f.prev = lst
    <3>1. th \in Threads /\ kind \in Kinds
      BY <1>1, KindFacts
    <3>2. QED
      BY <1>1, <3>1, FrameFacts
  <2>2. Current(f) = th
    BY <2>1 DEF Current, Switching, Callbacks
  <2>3. stack' = Append(stack, f) /\ lst' = th
    BY <1>11 DEF Callback
  <2>4. QED
    BY <1>3, <2>1, <2>2, <2>3
<1>12. CASE Yield
  <2>1. stack' = [stack EXCEPT ![Len(stack)].asks = TRUE] /\ lst' = lst
    BY <1>12 DEF Yield
  <2>2. Linked(stack') /\ Current(stack'[Len(stack')]) = Current(stack[Len(stack)])
    BY <1>1, <2>1, Marked
  <2>3. QED
    BY <1>1, <2>1, <2>2 DEF LstInv
<1>13. CASE Return
  <2>1. Top.kind \in Callbacks
    BY <1>13 DEF Return
  <2>2. CASE stack' = Front(stack) /\ lst' = Restored
    BY <1>5, <2>1, <2>2 DEF LstInv
  <2>3. CASE Top.kind = "call" /\ Suspend(Front(stack), Restored)
    <3>1. PICK end \in {"ready", "dead"} : Cut(Front(stack), Restored, end)
      BY <2>3 DEF Suspend
    <3>2. /\ Nested(Front(stack)) /\ Resumed(Front(stack), status)
          /\ Last(Front(stack)).kind \in Protected /\ Restored \in Threads
      BY <2>1, <2>3, BelowFacts DEF Restored
    <3>3. QED
      BY <1>5, <1>6, <2>1, <3>1, <3>2
  <2>4. QED
    BY <1>13, <2>2, <2>3 DEF Return
<1>14. CASE Throw
  <2>1. Top.kind \in {"call", "meta"} /\ Top.kind \in Callbacks /\ Top.kind # "gc"
    BY <1>14 DEF Throw, Callbacks
  <2>2. Cut(Front(stack), Restored, "dead")
    BY <1>14, <2>1 DEF Throw
  <2>3. /\ Nested(Front(stack)) /\ Resumed(Front(stack), status)
        /\ Last(Front(stack)).kind \in Protected /\ Restored \in Threads
    BY <2>1, BelowFacts DEF Restored
  <2>4. QED
    BY <1>5, <1>6, <2>1, <2>2, <2>3
<1>15. ASSUME NEW path \in Paths, NEW what \in Contents, SetGlobal(path, what) PROVE LstInv'
  BY <1>4, <1>15 DEF SetGlobal, threads
<1>16. ASSUME NEW lib \in Libraries, openlib(lib) PROVE LstInv'
  BY <1>4, <1>16 DEF openlib, threads
<1>17. CASE UNCHANGED vars
  BY <1>4, <1>17 DEF vars
<1>18. QED
  BY <1>7, <1>8, <1>9, <1>10, <1>11, <1>12, <1>13, <1>14, <1>15, <1>16, <1>17 DEF Next

LEMMA LstIsCurrent ==
  ASSUME IInv, LstInv
  PROVE  CurrentThread
<1> DEFINE n == Len(stack)
           Test(f) == f.kind \notin {"chunk", "pcall", "cresume"}
           I == {i \in 1 .. n : Test(stack[i])}
<1>1. Nested(stack) /\ Resumed(stack, status) /\ n \in Nat /\ DOMAIN stack = 1 .. n
  BY DEF IInv, Nested
<1>2. lst = stack[SelectLastInSeq(stack, LAMBDA f : f.kind \notin {"chunk", "pcall", "cresume"})].th
  <2>1. PICK k \in 1 .. n :
          /\ Switching(stack[k]) /\ Current(stack[n]) = stack[k].th
          /\ \A i \in k + 1 .. n : ~ Switching(stack[i])
    BY <1>1, LastSwitching DEF LstInv
  <2>2. k \in I /\ \A i \in I : k >= i
    BY <2>1, <1>1 DEF Switching
  <2>3. Max(I) = k
    BY <2>2 DEF Max
  <2>4. SelectLastInSeq(stack, LAMBDA f : f.kind \notin {"chunk", "pcall", "cresume"}) = k
    BY <2>2, <2>3 DEF SelectLastInSeq
  <2>5. QED
    BY <2>1, <2>4 DEF LstInv
<1>3. ASSUME NEW co \in Coroutines
      PROVE  Cardinality({i \in DOMAIN stack : stack[i].kind \in {"resume", "cresume"} /\ stack[i].th = co})
               = IF status[co] = "active" THEN 1 ELSE 0
  <2> DEFINE R == {i \in DOMAIN stack : stack[i].kind \in {"resume", "cresume"} /\ stack[i].th = co}
  <2>1. R = {i \in 1 .. n : Resuming(stack[i]) /\ stack[i].th = co}
    BY <1>1 DEF Resuming
  <2>2. CASE status[co] = "active"
    <3>1. PICK i \in R : TRUE
      BY <1>1, <2>1, <2>2 DEF Resumed
    <3>2. R = {i}
      BY <1>1, <2>1 DEF Resumed
    <3>3. QED
      BY <2>2, <3>2, FS_Singleton
  <2>3. CASE status[co] # "active"
    <3>1. R = {}
      BY <1>1, <2>1, <2>3 DEF Resumed
    <3>2. QED
      BY <2>3, <3>1, FS_EmptySet
  <2>4. QED
    BY <2>2, <2>3
<1>4. \A i \in 2 .. n : stack[i].kind \in Callbacks \cup {"pcall"} /\ stack[i - 1].kind \in Protected
        => stack[i].th = stack[i - 1].th
  BY <1>1, LastFacts DEF Above
<1>5. QED
  BY <1>2, <1>3, <1>4 DEF CurrentThread

(* As long as no userdata that is not QtLua's is given to help, _lst is    *)
(* the thread of the innermost C++ code or of the coroutine that it        *)
(* resumed, and a coroutine is active exactly while it is resumed once.    *)
THEOREM LstStaysCurrent ==
  ASSUME ~ Foreign
  PROVE  Spec => []CurrentThread
<1>1. Init => LstInv
  <2> SUFFICES ASSUME Init PROVE LstInv
    OBVIOUS
  <2> DEFINE host == Frame("host", Main, Main, FALSE)
  <2>1. host.kind = "host" /\ host.th = Main
    BY DEF Frame
  <2>2. stack = <<host>> /\ lst = Main
    BY DEF Init
  <2> HIDE DEF host
  <2>3. QED
    BY <2>1, <2>2 DEF LstInv, Linked, Current, Switching
<1>2. IInv /\ LstInv /\ [Next]_vars => LstInv'
  BY StepLst
<1>3. IInv /\ LstInv => CurrentThread
  BY LstIsCurrent
<1>4. QED
  BY Inductive, <1>1, <1>2, <1>3, PTL DEF Spec

-----------------------------------------------------------------------------
(* A method yields as it asked to.                                         *)

(* Who asked is below nothing but destructors.                             *)
LEMMA NoneAsks ==
  ASSUME IInv, YieldInv, Free \/ Top.kind \notin {"call", "gc"}, ~ Rejoin
  PROVE  ~ yielding
<1>1. Nested(stack) /\ yielding \in BOOLEAN /\ DOMAIN stack = 1 .. Len(stack)
  BY DEF IInv, Nested
<1>2. CASE Free
  BY <1>1, <1>2 DEF Free, YieldInv, Asked
<1>3. CASE Top.kind \notin {"call", "gc"}
  <2>1. CASE Top.kind = "host"
    <3>1. Len(stack) = 1
      <4>1. Len(stack) \in Nat /\ Len(stack) >= 1 /\ Top = stack[Len(stack)]
        BY TopFacts DEF IInv, Nested
      <4>2. Len(stack) >= 2 => Above(stack[Len(stack)], stack[Len(stack) - 1])
        BY <1>1, <4>1, LastFacts
      <4>3. Len(stack) >= 2 => stack[Len(stack)].kind # "host"
        BY <4>2, Zenon DEF Above
      <4>4. ~ (Len(stack) >= 2)
        BY <2>1, <4>1, <4>3
      <4>5. QED
        BY <4>1, <4>4
    <3>2. ~ stack[1].asks
      BY <1>1, <3>1 DEF YieldInv, Asked, Nested
    <3>3. QED
      BY <1>1, <3>1, <3>2 DEF YieldInv, Asked
  <2>2. CASE Top.kind # "host"
    BY <1>1, <1>3, <2>2, TopFacts, PopAsked DEF YieldInv
  <2>3. QED
    BY <2>1, <2>2
<1>4. QED
  BY <1>2, <1>3

LEMMA StepAsked ==
  ASSUME ~ Rejoin, IInv, YieldInv, [Next]_vars
  PROVE  /\ YieldInv'
         /\ Return /\ Top.kind = "call" => (Top.asks <=> Len(stack') < Len(stack) - 1)
<1> USE TopFacts
<1>1. /\ Nested(stack) /\ yielding \in BOOLEAN /\ lst \in Threads
      /\ Asked(stack, yielding) /\ Coroutines \subseteq Threads
  BY DEF IInv, YieldInv, Threads
<1>2. ASSUME ~ Return, YieldInv'
      PROVE  /\ YieldInv'
             /\ Return /\ Top.kind = "call" => (Top.asks <=> Len(stack') < Len(stack) - 1)
  BY <1>2
<1>3. ASSUME NEW kind \in Protected, NEW th \in Threads, ~ yielding,
             stack' = Append(stack, Frame(kind, th, lst, FALSE)), yielding' = yielding
      PROVE  YieldInv'
  <2> DEFINE f == Frame(kind, th, lst, FALSE)
  <2>1. f \in Frames /\ ~ f.asks /\ ~ f.oy
    <3>1. kind \in Kinds
      BY DEF Kinds
    <3>2. QED
      BY <1>1, <3>1 DEF Frame, Frames
  <2>2. Asked(Append(stack, f), yielding)
    BY <1>1, <1>3, <2>1, PushAsked
  <2>3. QED
    BY <1>3, <2>2 DEF YieldInv
<1>4. ASSUME stack' = stack, yielding' = yielding
      PROVE  YieldInv'
  BY <1>1, <1>4 DEF YieldInv
<1>5. ASSUME NEW s, Nested(s), Asked(s, FALSE), Last(s).kind \in Protected, stack' = Front(s), ~ yielding'
      PROVE  YieldInv'
  <2>1. Asked(Front(s), FALSE /\ ~ Last(s).asks)
    BY <1>5, PopAsked DEF Protected
  <2>2. Asked(Front(s), FALSE)
    BY <2>1 DEF Asked
  <2>3. QED
    BY <1>5, <2>2 DEF YieldInv, Asked
<1>6. ASSUME Exec PROVE YieldInv'
  <2>1. ~ yielding
    BY <1>6, NoneAsks DEF Exec
  <2>2. "chunk" \in Protected /\ stack' = Append(stack, Frame("chunk", lst, lst, FALSE)) /\ yielding' = yielding
    BY <1>6 DEF Exec, Protected
  <2>3. QED
    BY <1>1, <1>3, <2>1, <2>2
<1>7. ASSUME NEW co \in Coroutines, Resume(co) PROVE YieldInv'
  <2>1. ~ yielding
    BY <1>7, NoneAsks DEF Resume
  <2>2. "resume" \in Protected /\ stack' = Append(stack, Frame("resume", co, lst, FALSE)) /\ yielding' = yielding
    BY <1>7 DEF Resume, Protected
  <2>3. QED
    BY <1>1, <1>3, <2>1, <2>2
<1>8. ASSUME LuaCall PROVE YieldInv'
  <2>1. ~ yielding
    BY <1>8, NoneAsks DEF LuaCall, InLua, Protected
  <2>2. PICK kind \in {"pcall", "cresume"}, th \in Threads :
          stack' = Append(stack, Frame(kind, th, lst, FALSE)) /\ yielding' = yielding
    BY <1>1, <1>8 DEF LuaCall
  <2>3. kind \in Protected
    BY DEF Protected
  <2>4. QED
    BY <1>3, <2>1, <2>2, <2>3
<1>9. ASSUME LuaEnd PROVE YieldInv'
  <2>1. ~ yielding
    BY <1>9, NoneAsks DEF LuaEnd, InLua, Protected
  <2>2. stack' = Front(stack) /\ yielding' = yielding /\ Last(stack).kind \in Protected
    BY <1>9 DEF LuaEnd, Suspend, Cut, InLua
  <2>3. Asked(stack, FALSE)
    BY <1>1, <2>1 DEF Asked
  <2>4. QED
    BY <1>1, <1>5, <2>1, <2>2, <2>3
<1>10. ASSUME NEW kind \in Callbacks, Callback(kind) PROVE YieldInv'
  <2> DEFINE th == IF InLua THEN Top.th ELSE lst
             f == Frame(kind, th, lst, yielding)
  <2>1. f \in Frames /\ f.kind = kind /\ f.oy = yielding /\ ~ f.asks
    <3>1. th \in Threads /\ kind \in Kinds
      BY <1>1, KindFacts
    <3>2. QED
      BY <1>1, <3>1, FrameFacts
  <2>2. stack' = Append(stack, f)
    BY <1>10 DEF Callback
  <2>3. kind # "gc" => ~ yielding
    BY <1>10, NoneAsks DEF Callback, InLua, Protected
  <2>4. Asked(stack', yielding)
    BY <1>1, <2>1, <2>2, <2>3, PushAsked
  <2>5. yielding' = yielding \/ (~ yielding /\ ~ yielding')
    BY <1>10, <2>3 DEF Callback
  <2>6. QED
    BY <2>4, <2>5 DEF YieldInv, Asked
<1>11. ASSUME Yield PROVE YieldInv'
  <2>1. stack' = [stack EXCEPT ![Len(stack)].asks = TRUE] /\ yielding' /\ Last(stack).kind = "call"
    BY <1>11 DEF Yield
  <2>2. Asked(stack', TRUE)
    <3>1. Asked(stack, TRUE) \/ Asked(stack, FALSE)
      BY <1>1 DEF Asked
    <3>2. QED
      BY <1>1, <2>1, <3>1, Marked
  <2>3. QED
    BY <2>1, <2>2 DEF YieldInv, Asked
<1>12. CASE Return
  <2>1. /\ Top.kind \in Callbacks /\ Last(stack).kind # "host"
        /\ Nested(Front(stack)) /\ Len(Front(stack)) = Len(stack) - 1 /\ Len(stack) \in Nat
        /\ Top.kind # "gc" => Last(Front(stack)).kind \in Protected
    BY <1>1, <1>12, BelowFacts DEF Return, Callbacks, Nested
  <2>2. /\ Asked(Front(stack), yielding /\ ~ Top.asks)
        /\ Top.kind # "gc" => (yielding <=> Top.asks)
        /\ Top.kind = "call" => ~ Top.oy
        /\ Top.asks => Top.kind = "call"
    BY <1>1, <2>1, PopAsked
  <2>3. CASE Top.kind = "call"
    <3>1. ~ yielding' /\ Asked(Front(stack), FALSE)
      BY <1>12, <2>2, <2>3 DEF Return, Asked
    <3>2. CASE yielding
      <4>1. stack' = Front(Front(stack))
        BY <1>12, <2>3, <3>2 DEF Return, Suspend, Cut
      <4>2. Len(stack') = Len(stack) - 2
        BY <2>1, <2>3, <4>1, PopNested DEF Protected
      <4>3. YieldInv'
        BY <1>5, <2>1, <2>3, <3>1, <4>1
      <4>4. QED
        BY <2>1, <2>2, <2>3, <3>2, <4>2, <4>3
    <3>3. CASE ~ yielding
      <4>1. stack' = Front(stack)
        BY <1>12, <2>3, <3>3 DEF Return
      <4>2. YieldInv'
        BY <3>1, <4>1 DEF YieldInv, Asked
      <4>3. QED
        BY <2>1, <2>2, <2>3, <3>3, <4>1, <4>2
    <3>4. QED
      BY <3>2, <3>3
  <2>4. CASE Top.kind # "call"
    <3>1. stack' = Front(stack) /\ yielding' = yielding
      BY <1>12, <2>4 DEF Return
    <3>2. Asked(Front(stack), yielding)
      BY <2>2, <2>4 DEF Asked
    <3>3. QED
      BY <2>4, <3>1, <3>2 DEF YieldInv
  <2>5. QED
    BY <2>3, <2>4
<1>13. ASSUME Throw PROVE YieldInv'
  <2>1. /\ Top.kind \in Callbacks /\ Top.kind # "gc" /\ Last(stack).kind # "host"
        /\ Free /\ yielding' = yielding /\ stack' = Front(Front(stack))
    BY <1>13 DEF Throw, Callbacks, Cut
  <2>2. ~ yielding
    BY <2>1, NoneAsks
  <2>3. Nested(Front(stack)) /\ Last(Front(stack)).kind \in Protected
    BY <2>1, BelowFacts
  <2>4. Asked(Front(stack), yielding /\ ~ Top.asks)
    BY <1>1, <2>1, PopAsked
  <2>5. Asked(Front(stack), FALSE)
    BY <2>2, <2>4 DEF Asked
  <2>6. QED
    BY <1>5, <2>1, <2>2, <2>3, <2>5
<1>14. ASSUME NEW path \in Paths, NEW what \in Contents, SetGlobal(path, what) PROVE YieldInv'
  BY <1>4, <1>14 DEF SetGlobal, threads
<1>15. ASSUME NEW lib \in Libraries, openlib(lib) PROVE YieldInv'
  BY <1>4, <1>15 DEF openlib, threads
<1>16. ASSUME UNCHANGED vars PROVE YieldInv'
  BY <1>4, <1>16 DEF vars
<1>17. QED
  <2>1. CASE Return
    BY <1>12, <2>1
  <2>2. CASE ~ Return
    BY <1>2, <1>6, <1>7, <1>8, <1>9, <1>10, <1>11, <1>13, <1>14, <1>15, <1>16, <2>2 DEF Next
  <2>3. QED
    BY <2>1, <2>2

(* As long as asking is the last thing a method does, one that was called  *)
(* by a coroutine suspends it when it returns exactly if it asked to.      *)
THEOREM MethodsYieldAsAsked ==
  ASSUME ~ Rejoin
  PROVE  Spec => YieldsAsAsked
<1>1. Init => YieldInv
  <2> SUFFICES ASSUME Init PROVE YieldInv
    OBVIOUS
  <2> DEFINE host == Frame("host", Main, Main, FALSE)
  <2>1. host.kind = "host" /\ ~ host.asks
    BY DEF Frame
  <2>2. stack = <<host>> /\ yielding = FALSE
    BY DEF Init
  <2> HIDE DEF host
  <2>3. QED
    BY <2>1, <2>2 DEF YieldInv, Asked
<1>2. IInv /\ YieldInv /\ [Next]_vars => YieldInv'
  BY StepAsked
<1>3. IInv /\ YieldInv /\ [Next]_vars
        => [Return /\ Top.kind = "call" => (Top.asks <=> Len(stack') < Len(stack) - 1)]_vars
  BY StepAsked
<1>4. QED
  BY Inductive, <1>1, <1>2, <1>3, PTL DEF Spec, YieldsAsAsked

(* Whatever path a global is set at, it is set as a whole or not at all,   *)
(* and the Lua stack is left as it was.                                    *)
THEOREM GlobalsAreSetWhole == Spec => SetsWholeOrNot
<1>1. IInv /\ [Next]_vars =>
        [\A path \in Paths, what \in Contents :
           SetGlobal(path, what) =>
             /\ height' = height
             /\ \/ globals' = globals
                \/ /\ get_global(path)' = what
                   /\ \A q \in Paths \ {path} :
                        \/ globals'[q] = globals[q]
                        \/ IsStrictPrefix(path, q) /\ globals'[q] = "nil"
                        \/ IsStrictPrefix(q, path) /\ globals[q] = "nil" /\ globals'[q] = "table"]_vars
  BY SetWholeOrNot
<1>2. QED
  BY Inductive, <1>1, PTL DEF Spec, SetsWholeOrNot
=============================================================================
