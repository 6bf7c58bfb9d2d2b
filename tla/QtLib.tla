------------------------------- MODULE QtLib --------------------------------
(***************************************************************************)
(* The Qt library of Lua, as far as it makes, arranges, connects and       *)
(* deletes QObjects: qt.new_qobject, qt.ui, qt.mvc, qt.connect.  What it   *)
(* makes is given to the program to delete and to reparent.                *)
(***************************************************************************)
EXTENDS ObjectWrapper

CONSTANT Layouts  \* the objects that are made as layouts; others are widgets, menus or models

ASSUME LayoutAssumption == Layouts \subseteq Objects

\* The object of an argument; a wrapper without one is an error, and nothing is done.
Argument(w) == lua[w] > 0 /\ heap.wrap[w].obj # None
Obj(w) == heap.wrap[w].obj
Arranges(h) ==
  /\ Open /\ "lib" \in uses.does
  /\ Becomes(h) /\ UNCHANGED <<uses, lua, cpp, iter, phase>>

(***************************************************************************)
(* What makes objects.                                                     *)
(***************************************************************************)

\* A new object o below p with name n, given to Lua.
Created(o, p, n) ==
  /\ Open /\ "lib" \in uses.does
  /\ o \in uses.objects \ heap.exist
  /\ Careful /\ p # None /\ n # None => get_child(heap, p, n) = None
  /\ LET h == SetParent([heap EXCEPT !.exist = @ \cup {o}, !.name[o] = n], o, p)
         g == get_wrapper(h, o)
         w == g.whash[o]
     IN /\ Wrappable(h, o)
        /\ lua' = [lua EXCEPT ![w] = @ + 1]
        /\ Becomes(Flagged(g, w, TRUE, TRUE))
  /\ UNCHANGED <<uses, cpp, iter, phase>>

new_qobject(o) == Created(o, None, None)

\* Without a parent: one that is passed is looked for in the place of the file name.
load_ui(o) == o \notin Layouts /\ Created(o, None, None)

new_widget(o, n) ==
  o \notin Layouts /\ (Created(o, None, n) \/ \E w \in Wrappers : Argument(w) /\ Created(o, Obj(w), n))

\* A menu or an action below a menu.
InMenu(w, o, n) == Argument(w) /\ {Obj(w), o} \cap Layouts = {} /\ Created(o, Obj(w), n)
add_menu(w, o, n) == InMenu(w, o, n)
add_separator(w, o, n) == InMenu(w, o, n)
add_action(w, o, n) == InMenu(w, o, n)

\* Models of tables.  When what is to show one is not a view the model is deleted, and the error
\* leaves nothing.
new_model(o) == o \notin Layouts /\ Created(o, None, None)

\* So is a model that the program has.
set_model(w) == Argument(w) /\ Obj(w) \notin Layouts /\ Arranges(Destroyed(heap, Subtree(heap, Obj(w))))

(***************************************************************************)
(* What arranges them.                                                     *)
(***************************************************************************)

\* The widget that a layout is in, the nearest one above it.
parentWidget(h, o) ==
  LET above == {p \in h.exist \ Layouts : o \in Subtree(h, p)}
      near == {p \in above : \A q \in above : q \in Subtree(h, p) => q = p}
  IN IF near = {} THEN None ELSE CHOOSE p \in near : TRUE

\* o put below p by Qt, which changes nothing of a layout that has a parent.
Put(h, o, p) ==
  IF p = None \/ (o \in Layouts /\ parent(h, o) # None) THEN h ELSE SetParent(h, o, p)

\* Nothing gets below itself.  Careful: children of a name stay distinct.
Fits(o, p) ==
  /\ p # None => p \notin Subtree(heap, o)
  /\ Careful /\ p # None /\ heap.name[o] # None => get_child(heap, p, heap.name[o]) \in {None, o}

\* A layout in a layout, which its wrapper does not delete any more; a widget in a layout; a
\* layout for a widget, whose old one is deleted.  Careful: the new one is not the old one or
\* in it.
layout_add(w, v) ==
  /\ Argument(w) /\ Argument(v)
  /\ LET o == Obj(w)
         item == Obj(v)
     IN
     \/ /\ o \in Layouts /\ item \in Layouts /\ Fits(item, o)
        /\ Arranges(Put([heap EXCEPT !.wrap[v].delete = FALSE], item, o))
     \/ /\ o \in Layouts /\ item \notin Layouts /\ Fits(item, parentWidget(heap, o))
        /\ Arranges(Put(heap, item, parentWidget(heap, o)))
     \/ /\ o \notin Layouts /\ item \in Layouts /\ Fits(item, o)
        /\ LET old == UNION {Subtree(heap, c) : c \in ToSet(heap.kids[o]) \cap Layouts}
               left == Destroyed(heap, old)
           IN /\ Careful => item \notin old
              /\ Arranges(IF item \in old THEN left ELSE Put(left, item, o))

\* A widget in a container of another kind.
ui_attach(w, v) ==
  /\ Argument(w) /\ Argument(v)
  /\ {Obj(w), Obj(v)} \cap Layouts = {} /\ Fits(Obj(v), Obj(w))
  /\ Arranges(Put(heap, Obj(v), Obj(w)))

(***************************************************************************)
(* Signals and Lua functions.                                              *)
(***************************************************************************)

connect(w, sig, fn) ==
  /\ Open /\ "signals" \in uses.does
  /\ Argument(w) /\ _lua_connect(w, sig, fn)
  /\ UNCHANGED <<uses, lua, cpp, iter, phase>>

\* From a function, or from all.
disconnect(w, sig) ==
  /\ Open /\ "signals" \in uses.does
  /\ Argument(w)
  /\ _lua_disconnect_all(w, sig) \/ \E fn \in Functions : _lua_disconnect(w, sig, fn)
  /\ UNCHANGED <<uses, lua, cpp, iter, phase>>

LibNext ==
  \/ Next
  \/ \E o \in Objects :
       \/ new_qobject(o) \/ load_ui(o) \/ new_model(o)
       \/ \E n \in Names \cup {None} :
            \/ new_widget(o, n)
            \/ \E w \in Wrappers : add_menu(w, o, n) \/ add_separator(w, o, n) \/ add_action(w, o, n)
  \/ \E w \in Wrappers :
       \/ set_model(w)
       \/ \E v \in Wrappers : layout_add(w, v) \/ ui_attach(w, v)
       \/ \E sig \in Signals : disconnect(w, sig) \/ \E fn \in Functions : connect(w, sig, fn)

LibSpec == Init /\ [][LibNext]_vars

(***************************************************************************)
(* Properties.                                                             *)
(***************************************************************************)

\* Only C++, or a program that puts a layout in the place of another or a model in what is no
\* view, deletes a QObject at will: otherwise it goes with its wrapper, or with a parent that
\* does, which is to be deleted, had no parent or lost it to the assignment, and is unknown.
NoSurprise ==
  [][\A o \in heap.exist \ heap'.exist :
       \/ \E r \in Objects : Delete(r)
       \/ \E w \in Wrappers : set_model(w) \/ \E v \in Wrappers : layout_add(w, v)
       \/ \E r \in heap.exist :
            /\ o \in Subtree(heap, r)
            /\ LET w == heap.whash[r] IN w # None /\ heap.wrap[w].delete /\ lua'[w] + cpp'[w] = 0
            /\ \/ parent(heap, r) = None
               \/ \E w \in Wrappers, n \in Names, v \in Wrappers \cup {None} : meta_newindex(w, n, v)]_vars
=============================================================================
