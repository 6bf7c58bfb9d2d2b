------------------------------- MODULE Proxies -------------------------------
(***************************************************************************)
(* C++ containers that Lua uses as tables: QListProxy, QVectorProxy,       *)
(* QHashProxy and ArrayProxyRo over a container that may be detached,      *)
(* UserObject over the properties of an object, and DispatchProxy, which   *)
(* merges some of these.  An operation on a DispatchProxy goes to the      *)
(* first target that has the key, or takes new ones; an iteration goes     *)
(* through the targets one after the other.                                *)
(***************************************************************************)
EXTENDS Integers, FiniteSets, SequencesExt

CONSTANTS
  Numbers,    \* keys that are numbers, from 0, or the strings of these
  Texts,      \* keys that are strings no number can be read from
  Values,     \* what the containers can hold
  Default,    \* the one that C++ makes of nothing
  Bad,        \* a Lua value that they cannot hold
  Nil,
  ReadOnly, WriteOnly,  \* properties of the object without a set, or get, function
  MinResize, MaxResize, \* the parameters of QVectorProxy
  MaxLen,     \* bound: how long the list gets
  MaxHash,    \* bound: how many entries the hash gets
  Programs,   \* bound: the sets of containers that programs use together
  MaxTargets, \* bound: how many targets there are
  Masks,      \* bound: the sets of operations that targets are enabled for
  Word,       \* bound: the number of unsigned int values
  Avoided     \* which of the things that the code gets wrong programs keep clear of

Keys == Numbers \cup Texts
Sequential == {"list", "vector", "array"}
Containers == Sequential \cup {"hash", "object"}
Operations == {"index", "newindex", "iterate"}

ASSUME ProxiesAssumption ==
  /\ Numbers \subseteq Nat /\ Default \in Values /\ Bad \notin Values /\ Nil \notin Values \cup {Bad}
  /\ ReadOnly \cup WriteOnly \subseteq Texts
  /\ MinResize < MaxResize /\ 2 * MaxResize < Word
  /\ Masks \subseteq SUBSET Operations /\ Programs \subseteq SUBSET Containers
  /\ Avoided \subseteq {"shadow", "extend", "change"}

VARIABLES
  program,  \* the containers the program uses
  content,  \* of each container: a sequence, or a function from keys with Nil for no entry
  attached, \* the containers that their proxies have
  targets,  \* the targets of the DispatchProxy, in order
  iter,     \* an iteration over the DispatchProxy
  seen,     \* the keys it has given
  touched   \* whether anything changed since it began

vars == <<program, content, attached, targets, iter, seen, touched>>
iteration == <<iter, seen, touched>>

(***************************************************************************)
(* The proxies.  A result has ok, FALSE for an exception, and a value, or  *)
(* the content it leaves.  The keys of the hash are strings: those of its  *)
(* numbers are the strings of the numbers.                                 *)
(***************************************************************************)

Error == "error"

\* (unsigned int)key.to_number() - 1, and as the int that some proxies look at.
Position(k) == (k - 1) % Word
Index(k) == IF 2 * Position(k) < Word THEN Position(k) ELSE Position(k) - Word

\* meta_contains and get_entry: at which keys the container has an entry.
ListContains(k) == k \in Numbers /\ Index(k) \in 0 .. Len(content["list"]) - 1
VectorContains(k) == k \in Numbers /\ Index(k) \in 0 .. Len(content["vector"]) - 1
ArrayContains(k) == k \in Numbers /\ Position(k) < Len(content["array"])
HashContains(k) == content["hash"][k] # Nil
get_entry(k) == content["object"][k] # Nil

Has(c, k) ==
  CASE c = "list" -> ListContains(k) [] c = "vector" -> VectorContains(k) [] c = "array" -> ArrayContains(k)
    [] c = "hash" -> HashContains(k) [] c = "object" -> get_entry(k)

\* QListProxy and the others look in the container whether there is one or not: see set_container.
meta_contains(c, k) == c \in attached /\ Has(c, k)

\* meta_index: what is read.
Numbered(c, k) == IF k \in Texts THEN Error ELSE IF Has(c, k) THEN content[c][k] ELSE Nil
ListIndex(k) == Numbered("list", k)
VectorIndex(k) == Numbered("vector", k)
ArrayIndex(k) == Numbered("array", k)
HashIndex(k) == content["hash"][k]
ObjectIndex(k) == IF ~get_entry(k) \/ k \in WriteOnly THEN Error ELSE content["object"][k]

meta_index(c, k) ==
  CASE c \notin attached -> Nil
    [] c = "list" -> ListIndex(k) [] c = "vector" -> VectorIndex(k) [] c = "array" -> ArrayIndex(k)
    [] c = "hash" -> HashIndex(k) [] c = "object" -> ObjectIndex(k)

Wrote(s) == [ok |-> TRUE, content |-> s]
Thrown(s) == [ok |-> FALSE, content |-> s]

\* Mutant of WriteList: an entry that is there is moved on, not replaced.
WriteListInserting(s, k, v) ==
  LET i == Position(k) IN
  IF k \in Texts \/ i > Len(s) \/ v = Bad THEN Thrown(s)
  ELSE IF v = Nil THEN Wrote(IF i < Len(s) THEN RemoveAt(s, i + 1) ELSE s)
  ELSE Wrote(InsertAt(s, i + 1, v))

\* QListProxy: the entry after the last is appended; nil removes.
WriteList(s, k, v) ==
  LET i == Position(k) IN
  IF k \in Texts \/ i > Len(s) \/ v = Bad THEN Thrown(s)
  ELSE IF v = Nil THEN Wrote(IF i < Len(s) THEN RemoveAt(s, i + 1) ELSE s)
  ELSE Wrote(IF i = Len(s) THEN Append(s, v) ELSE [s EXCEPT ![i + 1] = v])

\* QVectorProxy: nil truncates, an entry further on extends; the vector is extended before the
\* value is converted.
WriteVector(s, k, v) ==
  LET i == Position(k)
      grown == s \o [j \in 1 .. i + 1 - Len(s) |-> Default]
  IN IF k \in Texts \/ 2 * i >= Word \/ (IF v = Nil THEN i < MinResize ELSE i >= MaxResize) THEN Thrown(s)
     ELSE IF v = Nil THEN Wrote(SubSeq(s, 1, Min({i, Len(s)})))
     ELSE IF v = Bad THEN Thrown(grown) ELSE Wrote([grown EXCEPT ![i + 1] = v])

WriteHash(s, k, v) == IF v = Bad THEN Thrown(s) ELSE Wrote([s EXCEPT ![k] = v])

WriteObject(s, k, v) ==
  IF ~get_entry(k) \/ k \in ReadOnly \/ v \notin Values THEN Thrown(s) ELSE Wrote([s EXCEPT ![k] = v])

meta_newindex(c, k, v) ==
  LET s == content[c] IN
  CASE c \notin attached \/ c = "array" -> Thrown(s)
    [] c = "list" -> WriteList(s, k, v)
    [] c = "vector" -> WriteVector(s, k, v)
    [] c = "hash" -> WriteHash(s, k, v)
    [] c = "object" -> WriteObject(s, k, v)

support(c, op) == c = "array" => op # "newindex"

(***************************************************************************)
(* DispatchProxy.                                                          *)
(***************************************************************************)

Enabled(t, op) == op \in t.ops /\ support(t.c, op)

\* meta_index: the first enabled target that contains the key.
dispatch_index(k) ==
  LET ts == SelectSeq(targets, LAMBDA t : Enabled(t, "index"))
      i == SelectInSeq(ts, LAMBDA t : meta_contains(t.c, k))
  IN IF i # 0 THEN meta_index(ts[i].c, k) ELSE IF ts = <<>> THEN Error ELSE Nil

\* Whether one of the targets that are read or written has the key.
dispatch_contains(k) ==
  \E i \in DOMAIN targets :
    LET t == targets[i] IN
    /\ t.ops \cap {"index", "newindex"} # {} /\ (support(t.c, "index") \/ support(t.c, "newindex"))
    /\ meta_contains(t.c, k)

\* The target that takes a write: one that has the key, or takes new keys.
Taker(k) ==
  SelectInSeq(targets, LAMBDA t : Enabled(t, "newindex") /\ (t.new_keys \/ meta_contains(t.c, k)))

\* Mutant of Shadowed: entries that cannot be written are not looked for.
ShadowedNever(k, i) == FALSE

\* A target before it that is not to be written has an entry that hides what is written.
Shadowed(k, i) ==
  \E j \in 1 .. i - 1 :
    /\ ~Enabled(targets[j], "newindex") /\ Enabled(targets[j], "index")
    /\ meta_contains(targets[j].c, k)

Refused(k, i) == Shadowed(k, i) /\ ~meta_contains(targets[i].c, k)

(***************************************************************************)
(* Iteration.  at is the target iterated over now, 0 before the first and  *)
(* -1 when there is no iteration; pos the entry it is at.                  *)
(***************************************************************************)

NoIter == [at |-> -1, pos |-> 0]
Start == [at |-> 0, pos |-> 0]

\* The iterators of the proxies: the keys in the order they are given.
ListKeys == [i \in DOMAIN content["list"] |-> i]
VectorKeys == [i \in DOMAIN content["vector"] |-> i]
ArrayKeys == [i \in DOMAIN content["array"] |-> i]
HashKeys == SetToSeq({k \in Keys : HashContains(k)})
ObjectKeys == SetToSeq({k \in Keys : get_entry(k)})

KeysOf(c) ==
  CASE c \notin attached -> <<>>
    [] c = "list" -> ListKeys [] c = "vector" -> VectorKeys [] c = "array" -> ArrayKeys
    [] c = "hash" -> HashKeys [] c = "object" -> ObjectKeys

\* Mutant of Advanced: a target without entries ends the iteration.
AdvancedOnce(it) ==
  IF it.at > 0 /\ it.pos <= Len(KeysOf(targets[it.at].c)) THEN it
  ELSE IF it.at < Len(targets) /\ KeysOf(targets[it.at + 1].c) # <<>> THEN [at |-> it.at + 1, pos |-> 1]
  ELSE NoIter

\* _more: the iterator, or the first of the next targets that has an entry.  The operations that
\* a target is enabled for are not looked at.
Advanced(it) ==
  IF it.at > 0 /\ it.pos <= Len(KeysOf(targets[it.at].c)) THEN it
  ELSE LET later == {j \in it.at + 1 .. Len(targets) :
                       support(targets[j].c, "iterate") /\ KeysOf(targets[j].c) # <<>>}
       IN IF later = {} THEN NoIter ELSE [at |-> Min(later), pos |-> 1]

\* new_iterator of a proxy without a container, and get_value of a property without a get
\* function, raise an error; to is where the iteration goes.
Raises(it, to) ==
  LET last == IF to = NoIter THEN Len(targets) ELSE to.at IN
  \/ \E j \in it.at + 1 .. last : targets[j].c \notin attached
  \/ to # NoIter /\ KeysOf(targets[to.at].c)[to.pos] \in WriteOnly

(***************************************************************************)
(* Actions.                                                                *)
(***************************************************************************)

\* Iterators of QList and QHash, and the places of targets, do not survive changes.
Fragile(c) == "change" \in Avoided /\ iter.at > 0 /\ targets[iter.at].c = c /\ c \in {"list", "hash"}

IsTarget(c) == \E i \in DOMAIN targets : targets[i].c = c

Changed(c, s) ==
  /\ content' = [content EXCEPT ![c] = s]
  /\ touched' = (iter # NoIter /\ (touched \/ s # content[c]))
  /\ UNCHANGED <<program, attached, targets, iter, seen>>

\* Lua writes an entry.  Avoided: a value that cannot be converted where a vector grows.
Write(c, k, v) ==
  /\ c = "list" /\ v \in Values => Len(content[c]) < MaxLen \/ Has(c, k)
  /\ c = "hash" /\ v \in Values => content[c][k] # Nil \/ Cardinality({h \in Keys : content[c][h] # Nil}) < MaxHash
  /\ ~Fragile(c)
  /\ "extend" \in Avoided /\ c = "vector" /\ v = Bad => Has(c, k)
  /\ Changed(c, meta_newindex(c, k, v).content)

\* Lua writes an entry of the DispatchProxy.  Avoided: one that stays hidden.
DispatchWrite(k, v) ==
  LET i == Taker(k) IN
  /\ i # 0 /\ ~Refused(k, i)
  /\ "shadow" \in Avoided => ~Shadowed(k, i)
  /\ Write(targets[i].c, k, v)

\* Avoided: only ArrayProxy can do without a container in a DispatchProxy.
set_container(c) ==
  /\ c # "object"
  /\ "change" \in Avoided => c = "array" \/ ~IsTarget(c)
  /\ attached' = IF c \in attached THEN attached \ {c} ELSE attached \cup {c}
  /\ touched' = (iter # NoIter)
  /\ UNCHANGED <<program, content, targets, iter, seen>>

\* add_target and insert_target; a container is a target once here.
insert_target(c, pos, ops, new_keys) ==
  /\ "change" \in Avoided => iter = NoIter
  /\ Len(targets) < MaxTargets /\ ~IsTarget(c) /\ ("change" \in Avoided => c \in attached)
  /\ targets' = InsertAt(targets, pos, [c |-> c, ops |-> ops, new_keys |-> new_keys])
  /\ touched' = (iter # NoIter)
  /\ UNCHANGED <<program, content, attached, iter, seen>>

remove_target(c) ==
  /\ "change" \in Avoided => iter = NoIter
  /\ IsTarget(c)
  /\ targets' = SelectSeq(targets, LAMBDA t : t.c # c)
  /\ touched' = (iter # NoIter)
  /\ UNCHANGED <<program, content, attached, iter, seen>>

\* lua_cmd_each.
new_iterator ==
  /\ iter = NoIter /\ Len(targets) > 1
  /\ iter' = Start
  /\ UNCHANGED <<program, content, attached, targets, seen, touched>>

\* lua_cmd_iterator: the entry is given if there is one still, and the next is gone to.  An error
\* ends the loop.
Step ==
  /\ iter # NoIter
  /\ LET it == Advanced(iter) IN
     IF it = NoIter \/ Raises(iter, it) THEN iter' = NoIter /\ seen' = <<>> /\ touched' = FALSE
     ELSE /\ seen' = Append(seen, KeysOf(targets[it.at].c)[it.pos])
          /\ iter' = [it EXCEPT !.pos = @ + 1] /\ UNCHANGED touched
  /\ UNCHANGED <<program, content, attached, targets>>

Init ==
  /\ program \in Programs
  /\ content = [c \in Containers |->
                 CASE c = "array" -> <<Default>>
                   [] c = "object" -> [k \in Keys |-> IF k \in Texts THEN Default ELSE Nil]
                   [] c = "hash" -> [k \in Keys |-> Nil]
                   [] c = "vector" -> [i \in 1 .. MinResize |-> Default]
                   [] OTHER -> <<>>]
  /\ attached = program
  /\ targets = <<>>
  /\ iter = NoIter /\ seen = <<>> /\ touched = FALSE

Next ==
  \/ \E k \in Keys, v \in Values \cup {Bad, Nil} :
       DispatchWrite(k, v) \/ \E c \in program : Write(c, k, v)
  \/ \E c \in program :
       \/ set_container(c) \/ remove_target(c)
       \/ \E pos \in 1 .. Len(targets) + 1, ops \in Masks, new_keys \in BOOLEAN :
            insert_target(c, pos, ops, new_keys)
  \/ new_iterator \/ Step

Spec == Init /\ [][Next]_vars

(***************************************************************************)
(* Properties.                                                             *)
(***************************************************************************)

\* What Lua writes through a DispatchProxy it contains and gives back, unless nobody can read it; a
\* write that raises an error changes nothing, and none takes a vector out of the sizes that its
\* proxy was declared for (DispatchProxy::meta_newindex, and the meta_newindex of every proxy).
ReadsBack == [][content' # content => \A k \in Keys, v \in Values \cup {Bad} :
  DispatchWrite(k, v) =>
    /\ meta_newindex(targets[Taker(k)].c, k, v).ok
    /\ dispatch_contains(k)'
    /\ dispatch_index(k)' \in {v} \cup (IF k \in WriteOnly THEN {Error} ELSE {})
    /\ Len(content'["vector"]) \in MinResize .. MaxResize]_vars

\* A value written through a DispatchProxy changes what is read for no other key, unless it made
\* a vector longer by more than its own entry.
OthersRead == [][
  content' # content /\ Len(content'["vector"]) <= Len(content["vector"]) + 1 =>
    \A k \in Keys, v \in Values : DispatchWrite(k, v) =>
    \A other \in Keys \ {k} : dispatch_index(other)' = dispatch_index(other)]_vars

\* An iteration over a DispatchProxy that comes to its end, nothing changed meanwhile and no error
\* raised, has given every entry of every target, each once, in the order of the targets.
MergedWhole == [][
  Step /\ iter' = NoIter /\ ~touched /\ ~Raises(iter, Advanced(iter)) =>
    seen = FlattenSeq([i \in DOMAIN targets |-> KeysOf(targets[i].c)])]_vars
=============================================================================
