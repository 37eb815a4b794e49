------------------------------ MODULE LogHandler ------------------------------
(***************************************************************************)
(* The slog handler that bridges to OpenTelemetry (pkg/otelslog).  Loggers *)
(* are derived from each other (WithAttrs, WithGroup) and shared between   *)
(* goroutines; a handler keeps its attributes in buffers that are Go       *)
(* slices, so what matters is who shares which backing array.  cells is    *)
(* the heap of backing arrays: a slice is an array and a length, and an    *)
(* append writes in place while the array has room.  make gives the        *)
(* capacity asked for; an array that append, slices.Grow or slices.Clone   *)
(* allocates may have a cell to spare, as the allocator rounds up.         *)
(*                                                                         *)
(* Levels and the conversion of a value are left out: an attribute is a    *)
(* number, and so is a group; Top stands for no group.                     *)
(***************************************************************************)
EXTENDS Integers, Sequences, SequencesExt

CONSTANTS
    Procs,          \* goroutines that log
    MaxHandlers,    \* bound: handlers ever made
    MaxRecords      \* bound: records ever handled

VARIABLES
    handlers,       \* each handler: attrs (a slice or Nil) and group, the list
                    \* of groups from the leaf outwards, each a name and a slice
    cells,          \* the backing arrays
    recs,           \* the record of each goroutine that is not exported yet
    records,        \* how many were built
    given           \* history: what each handler was given, per group

vars == <<handlers, cells, recs, records, given>>

Top == 0
Spare == 0                          \* a cell nothing was put in
Inner(n) == -1 - n                  \* in record n: the map of the group inside
Nil == [arr |-> 0, len |-> 0]       \* a nil *kvBuffer
Nothing == [g \in 0..MaxHandlers |-> << >>]
NoRecord == [out |-> << >>, leaf |-> Top, own |-> << >>, given |-> Nothing, clash |-> FALSE]

Init ==
    /\ handlers = <<[attrs |-> Nil, group |-> << >>]>>
    /\ cells = << >>
    /\ recs = [p \in Procs |-> NoRecord] /\ records = 0
    /\ given = <<Nothing>>

------------------------------------------------------------------------------
(* kvBuffer.  Operators take a heap and return the heap and the buffer.    *)

Data(heap, b) == IF b = Nil THEN << >> ELSE SubSeq(heap[b.arr], 1, b.len)
Room(heap, b) == Len(heap[b.arr]) - b.len

\* A new array with contents s and room for cap.
Alloc(heap, s, cap) ==
    [heap |-> Append(heap, s \o [k \in 1..(cap - Len(s)) |-> Spare]),
     buf |-> [arr |-> Len(heap) + 1, len |-> Len(s)]]

\* b.data followed by kvs, in place.
Written(heap, b, kvs) ==
    [heap EXCEPT ![b.arr] = [k \in DOMAIN @ |-> IF k \in (b.len + 1)..(b.len + Len(kvs))
                                               THEN kvs[k - b.len] ELSE @[k]]]

\* append(b.data, kvs...)
Appended(heap, b, kvs, extra) ==
    IF Room(heap, b) < Len(kvs) THEN Alloc(heap, Data(heap, b) \o kvs, b.len + Len(kvs) + extra)
    ELSE [heap |-> Written(heap, b, kvs), buf |-> [b EXCEPT !.len = @ + Len(kvs)]]

\* Faulty: the buffer itself.
CloneShared(heap, b, extra) == [heap |-> heap, buf |-> b]
Clone(heap, b, extra) == Alloc(heap, Data(heap, b), b.len + extra)

\* slices.Grow by one cell per attribute.  An empty attribute is dropped and a
\* group without a key is inlined, so that kvs need not be n long.
AddAttrs(heap, b, n, kvs, extra) ==
    LET grown == IF Room(heap, b) >= n THEN [heap |-> heap, buf |-> b]
                 ELSE Alloc(heap, Data(heap, b), b.len + n + extra)
    IN Appended(grown.heap, grown.buf, kvs, extra)

------------------------------------------------------------------------------
(* Handler.                                                                *)

Innermost(h) == IF handlers[h].group = << >> THEN Top ELSE Head(handlers[h].group).name

\* Attributes belong to the leaf group, or to the handler if there is none.
Leaf(H) == IF H.group = << >> THEN H.attrs ELSE Head(H.group).attrs

\* A copy of the leaf group gets the new buffer; the groups around it are shared.
WithLeaf(H, buf) == IF H.group = << >> THEN [H EXCEPT !.attrs = buf] ELSE [H EXCEPT !.group[1].attrs = buf]

\* The attributes go to a copy of the leaf's buffer.
WithAttrs(h, n, kvs, extra) ==
    /\ Len(handlers) < MaxHandlers
    /\ LET H == handlers[h]
           old == Leaf(H)
           copy == IF old = Nil THEN Alloc(cells, << >>, n) ELSE Clone(cells, old, extra)
           new == AddAttrs(copy.heap, copy.buf, n, kvs, extra)
       IN /\ cells' = new.heap
          /\ handlers' = Append(handlers, WithLeaf(H, new.buf))
    /\ given' = Append(given, [given[h] EXCEPT ![Innermost(h)] = @ \o kvs])
    /\ UNCHANGED <<recs, records>>

WithGroup(h) ==
    /\ Len(handlers) < MaxHandlers
    /\ handlers' = Append(handlers, [handlers[h] EXCEPT !.group =
                             <<[name |-> Len(handlers), attrs |-> Nil]>> \o @])
    /\ given' = Append(given, given[h])
    /\ UNCHANGED <<cells, recs, records>>

\* Faulty: stops after the leaf.
NextNonEmptyLeaf(groups) == IF groups # << >> /\ Head(groups).attrs.len > 0 THEN groups ELSE << >>

\* The list from its first group with attributes on.
NextNonEmpty(groups) ==
    LET full == {k \in DOMAIN groups : groups[k].attrs.len > 0}
    IN IF full = {} THEN << >> ELSE SubSeq(groups, Min(full), Len(groups))

\* KeyValues: a map of a record, name and contents.  It refers to the handler's
\* array if kvs fit there (then buf is a slice of it), else to one of its own.
KeyValues(acc, g, kvs) ==
    IF kvs # << >> /\ g.attrs # Nil /\ Room(acc.heap, g.attrs) >= Len(kvs)
    THEN [heap |-> Written(acc.heap, g.attrs, kvs),
          out |-> Append(acc.out, [name |-> g.name, vals |-> << >>,
                                   buf |-> [g.attrs EXCEPT !.len = @ + Len(kvs)]])]
    ELSE [acc EXCEPT !.out = Append(@, [name |-> g.name, buf |-> Nil,
                                        vals |-> Data(acc.heap, g.attrs) \o kvs])]

\* KeyValue: the leaf with kvs, then every group around it that has attributes
\* of its own, with the map of the group inside.
KeyValue(groups, kvs) ==
    FoldLeft(LAMBDA acc, g : IF g.attrs.len = 0 THEN acc
                             ELSE KeyValues(acc, g, <<Inner(records)>>),
             KeyValues([heap |-> cells, out |-> << >>], Head(groups), kvs), Tail(groups))

Arrays(out) == {out[k].buf.arr : k \in DOMAIN out} \ {Nil.arr}

\* convertRecord, with attributes kvs of the record's own.  The ungrouped ones
\* are copied.  Records under way may refer to the arrays it writes to.
Handle(p, h, kvs) ==
    /\ recs[p] = NoRecord /\ records < MaxRecords
    /\ records' = records + 1
    /\ LET H == handlers[h]
           top == [name |-> Top, buf |-> Nil,
                   vals |-> Data(cells, H.attrs) \o IF H.group = << >> THEN kvs ELSE << >>]
           groups == IF kvs = << >> THEN NextNonEmpty(H.group) ELSE H.group
           g == IF groups = << >> THEN [heap |-> cells, out |-> << >>] ELSE KeyValue(groups, kvs)
       IN /\ cells' = g.heap
          /\ recs' = [q \in Procs |->
                IF q = p THEN [out |-> Append(g.out, top), leaf |-> Innermost(h), own |-> kvs,
                               given |-> given[h], clash |-> FALSE]
                ELSE [recs[q] EXCEPT !.clash = @ \/ Arrays(recs[q].out) \cap Arrays(g.out) # {}]]
    /\ UNCHANGED <<handlers, given>>

\* The record has been read: Emit and what the provider's processor does with it.
Export(p) ==
    /\ recs[p] # NoRecord
    /\ recs' = [recs EXCEPT ![p] = NoRecord]
    /\ UNCHANGED <<handlers, cells, records, given>>

\* Attributes of the next handler: one, one of two (an empty one is dropped), or
\* two inlined from a group without a key.  Goroutines are interchangeable: the
\* first that is free handles the next record.
Next ==
    \/ \E h \in DOMAIN handlers :
          LET a == 2 * Len(handlers) IN
          \/ \E extra \in 0..1 : WithAttrs(h, 1, <<a>>, extra) \/ WithAttrs(h, 2, <<a>>, extra)
                                 \/ WithAttrs(h, 1, <<a, a + 1>>, extra)
          \/ WithGroup(h)
          \/ \E p \in Procs, kvs \in {<< >>, <<50 + records>>} :
                (\A q \in Procs : q < p => recs[q] # NoRecord) /\ Handle(p, h, kvs)
    \/ \E p \in Procs : Export(p)

Spec == Init /\ [][Next]_vars

------------------------------------------------------------------------------

\* The attributes of a map: all it holds but the map of the group inside.
Content(e) ==
    LET s == IF e.buf = Nil THEN e.vals ELSE Data(cells, e.buf)
    IN IF s # << >> /\ Last(s) < 0 THEN Front(s) ELSE s

\* The attributes a record shows under group g, and its own among them.
Maps(r, g) == {k \in DOMAIN r.out : r.out[k].name = g}
Shown(r, g) == IF Maps(r, g) = {} THEN << >> ELSE Content(r.out[CHOOSE k \in Maps(r, g) : TRUE])
Own(r, g) == IF g = r.leaf THEN r.own ELSE << >>

(***************************************************************************)
(* handler.go:302-326: deriving loggers from loggers and logging through   *)
(* any of them, from several goroutines, never changes what a handler      *)
(* carries: a record shows, in order and each under the group that was     *)
(* innermost when it was given, in one map per group, exactly the          *)
(* attributes of its handler and its own.  Its own may only be disturbed  *)
(* by a record that is built while it is not exported yet and appends to   *)
(* the same buffer; the handler's not even then.  (What the record's own   *)
(* attributes are promised beyond that is RecordInItsGroups.)              *)
(***************************************************************************)
AttrsKept ==
    \A p \in Procs : recs[p] # NoRecord =>
       LET r == recs[p] IN
       \A g \in 0..MaxHandlers :
          /\ \A j, k \in Maps(r, g) : j = k
          /\ IsPrefix(r.given[g], Shown(r, g))
          /\ ~r.clash => Shown(r, g) = r.given[g] \o Own(r, g)

\* The groups around the leaf group of a record: those that were open when the
\* handler that opened it, the one after handler g, was derived.
Around(g) == IF g = Top THEN {} ELSE {handlers[g + 1].group[k].name : k \in DOMAIN handlers[g + 1].group}

(***************************************************************************)
(* handler.go:320-321 and the picture at :336-357: messages and attributes *)
(* are logged within the group, and groups lie within the groups around    *)
(* them.  So a record's own attributes are in the map of the leaf group,   *)
(* until it is exported, and that map is in one for every group around.    *)
(* (Violated: KeyValue leaves out the groups around that have no           *)
(* attributes of their own, and records may share the leaf's array.)       *)
(***************************************************************************)
RecordInItsGroups ==
    \A p \in Procs : LET r == recs[p] IN
       r.own # << >> =>
          /\ IsSuffix(r.own, Shown(r, r.leaf))
          /\ \A g \in Around(r.leaf) : Maps(r, g) # {}
===============================================================================
