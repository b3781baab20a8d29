-------------------------------- MODULE Lists --------------------------------
(****************************************************************************)
(* Lists and their iterators (listobject.c, listiterobject.c): the cells,   *)
(* the room to grow, and the reference counts.  There is one list at a time *)
(* and one loop over it.                                                    *)
(*   use = "none"     there is no list                                      *)
(*         "literal"  OP_BUILD_LIST has made it: a value of the program     *)
(*         "queue"    COList_New(0) has made it: the arguments of calls     *)
(*                    (vm.c), the objects of an arena, a stack of units     *)
(*         "overrun"  a cell past the last one has been written             *)
(*         "corrupt"  a cell before the first one has been written, or the  *)
(*                    list was freed in use: nothing is said of what        *)
(*                    follows                                               *)
(****************************************************************************)
EXTENDS Integers, Sequences, FiniteSets

CONSTANTS
    Item,           \* objects a list can hold
    SELF,           \* the list itself, as an element
    NULL,
    JUNK,           \* what realloc leaves in new cells
    MaxLiteral,     \* bounds of an instance: the length of a literal,
    MaxQueue        \* and of a queue

\* What an instance must satisfy.
ListsAssumption ==
    /\ MaxLiteral \in Nat /\ MaxQueue \in Nat
    /\ SELF \notin Item /\ NULL \notin Item /\ NULL # SELF

VARIABLES
    items,      \* co_item, as many cells as `allocated' says
    size,       \* co_size
    count,      \* co_refcnt of the list
    refs,       \* of each item: the references the list has counted
    held,       \* the program has a reference to the list
    index,      \* it_index of the iterator, -1: it_seq is NULL or there is none
    use,
    result      \* <<status, element>> of the last operation

vars == <<items, size, count, refs, held, index, use, result>>

Element  == Item \cup {SELF}
Literals == UNION {[1..n -> Item] : n \in 0..MaxLiteral}

\* The elements.
Elements == SubSeq(items, 1, size)

Times(x, s) == Cardinality({i \in DOMAIN s : s[i] = x})

Init ==
    /\ items = <<>> /\ size = 0
    /\ count = 0
    /\ refs = [x \in Item |-> 0]
    /\ held = FALSE
    /\ index = -1
    /\ use = "none"
    /\ result = <<"ok", NULL>>

Corrupt(how) == use' = how /\ UNCHANGED <<items, size, count, refs, held, index, result>>

Failed(status) ==
    result' = <<status, NULL>> /\ UNCHANGED <<items, size, count, refs, held, index, use>>

-----------------------------------------------------------------------------
(* Reference counts *)

\* CO_INCREF of one element, CO_XDECREF of another
Counted(new, old) ==
    LET d(x) == (IF x = new THEN 1 ELSE 0) - (IF x = old THEN 1 ELSE 0)
    IN  refs' = [x \in Item |-> refs[x] + d(x)] /\ count' = count + d(SELF)

\* A list without references: list_dealloc releases the elements.
Dealloc ==
    /\ refs' = [x \in Item |-> refs[x] - Times(x, Elements)]
    /\ items' = <<>> /\ size' = 0
    /\ use' = "none"

\* CO_DECREF of the list
Release ==
    /\ count' = count - 1
    /\ IF count = 1 THEN Dealloc ELSE UNCHANGED <<refs, items, size, use>>

-----------------------------------------------------------------------------
(* Creation and growth *)

\* COList_New(n), and COList_SetItem for each operand of OP_BUILD_LIST
BuildList(xs) ==
    /\ use = "none"
    /\ items' = xs /\ size' = Len(xs)
    /\ refs' = [x \in Item |-> Times(x, xs)]
    /\ count' = 1 /\ held' = TRUE
    /\ use' = "literal"
    /\ result' = <<"ok", NULL>>
    /\ UNCHANGED index

\* COList_New(0)
COList_New ==
    /\ use = "none"
    /\ count' = 1 /\ held' = TRUE
    /\ use' = "queue"
    /\ result' = <<"ok", NULL>>
    /\ UNCHANGED <<items, size, refs, index>>

\* Mutant: the cells that are there are enough for one element more.
list_resize_Late(newsize) ==
    IF Len(items) + 1 >= newsize /\ newsize >= Len(items) \div 2 /\ items # <<>> THEN items
    ELSE LET n == IF newsize = 0 THEN 0
                  ELSE newsize + (newsize \div 8) + (IF newsize < 9 THEN 3 ELSE 6)
         IN  [i \in 1..n |-> IF i <= Len(items) THEN items[i] ELSE JUNK]

\* The cells afterwards: room to grow, rubbish in what is new.
list_resize(newsize) ==
    IF Len(items) >= newsize /\ newsize >= Len(items) \div 2 THEN items
    ELSE LET n == IF newsize = 0 THEN 0
                  ELSE newsize + (newsize \div 8) + (IF newsize < 9 THEN 3 ELSE 6)
         IN  [i \in 1..n |-> IF i <= Len(items) THEN items[i] ELSE JUNK]

\* The shift starts with a cell too many: it moves items[n] to items[n + 1] and leaves
\* items[at] where it was, to be overwritten.  At the end, where COList_Append inserts
\* and no one else, nothing is shifted.
COList_Insert(i, x) ==
    LET cells == list_resize(size + 1)
        at    == IF i < -size THEN 0 ELSE IF i < 0 THEN i + size ELSE IF i > size THEN size ELSE i
        top   == IF at < size THEN size + 2 ELSE size + 1      \* cells written to
    IN  /\ use = "queue"
        /\ IF top > Len(cells)
           THEN Corrupt("overrun")
           ELSE /\ items' = [j \in DOMAIN cells |->
                                IF j = at + 1 THEN x
                                ELSE IF j \in at + 3 .. size + 2 THEN cells[j - 1]
                                ELSE cells[j]]
                /\ size' = size + 1
                /\ Counted(x, NULL)
                /\ result' = <<"ok", NULL>>
                /\ UNCHANGED <<held, index, use>>

COList_Append(x) == size < MaxQueue /\ COList_Insert(size, x)

-----------------------------------------------------------------------------
(* Elements *)

\* A borrowed reference; the callers pass 0.
COList_GetItem(i) ==
    /\ use = "queue"
    /\ IF i >= size THEN Failed("IndexError")
       ELSE /\ result' = <<"ok", items[i + 1]>>
            /\ UNCHANGED <<items, size, count, refs, held, index, use>>

\* Mutant: the shift stops before the last element.
COList_DelItem_Short(i) ==
    /\ use = "queue"
    /\ IF i < 0 \/ i >= size THEN Failed("fail")
       ELSE /\ Counted(NULL, items[i + 1])
            /\ items' = [j \in DOMAIN items |->
                            IF j \in i + 1 .. size - 2 THEN items[j + 1] ELSE items[j]]
            /\ size' = size - 1
            /\ result' = <<"ok", NULL>>
            /\ UNCHANGED <<held, index, use>>

\* No exception when it fails; the cells stay, the last one with a stale pointer.
COList_DelItem(i) ==
    /\ use = "queue"
    /\ IF i < 0 \/ i >= size THEN Failed("fail")
       ELSE /\ Counted(NULL, items[i + 1])
            /\ items' = [j \in DOMAIN items |->
                            IF j \in i + 1 .. size - 1 THEN items[j + 1] ELSE items[j]]
            /\ size' = size - 1
            /\ result' = <<"ok", NULL>>
            /\ UNCHANGED <<held, index, use>>

\* Mutant: the new element is not counted.
COList_SetItem_Borrowed(i, x) ==
    /\ use = "literal" /\ held
    /\ IF i >= size THEN Failed("IndexError")
       ELSE IF i < 0 THEN Corrupt("corrupt")
       ELSE /\ Counted(NULL, items[i + 1])
            /\ items' = [items EXCEPT ![i + 1] = x]
            /\ result' = <<"ok", NULL>>
            /\ UNCHANGED <<size, held, index, use>>

\* OP_STORE_SUBSCRIPT.  There is no test for i < 0: the cell before the first is written.
COList_SetItem(i, x) ==
    /\ use = "literal" /\ held
    /\ IF i >= size THEN Failed("IndexError")
       ELSE IF i < 0 THEN Corrupt("corrupt")
       ELSE /\ Counted(x, items[i + 1])
            /\ items' = [items EXCEPT ![i + 1] = x]
            /\ result' = <<"ok", NULL>>
            /\ UNCHANGED <<size, held, index, use>>

\* OP_BINARY_SUBSCRIPT, with list_item
list_subscript(i) ==
    LET at == IF i < 0 THEN i + size ELSE i
    IN  /\ use = "literal" /\ held
        /\ IF at < 0 \/ at >= size THEN Failed("IndexError")
           ELSE /\ result' = <<"ok", items[at + 1]>>
                /\ UNCHANGED <<items, size, count, refs, held, index, use>>

-----------------------------------------------------------------------------
(* Loops, and the end of a list *)

\* OP_GET_ITER
list_iter ==
    /\ use = "literal" /\ held /\ index = -1
    /\ index' = 0
    /\ count' = count + 1
    /\ UNCHANGED <<items, size, refs, held, use, result>>

\* OP_FOR_ITER: the next element, or the iterator lets go of the list and the loop ends.
listiter_next ==
    /\ use = "literal" /\ index # -1
    /\ IF index < size
       THEN /\ result' = <<"ok", items[index + 1]>>
            /\ index' = index + 1
            /\ UNCHANGED <<items, size, count, refs, use>>
       ELSE /\ Release
            /\ index' = -1
            /\ result' = <<"end", NULL>>
    /\ UNCHANGED held

\* break, return or an exception leaves the loop: listiter_dealloc hands the list itself,
\* not its reference, to free.
listiter_dealloc == use = "literal" /\ index # -1 /\ Corrupt("corrupt")

\* The program has no use for the list any more.
Drop ==
    /\ use \in {"literal", "queue"} /\ held
    /\ held' = FALSE
    /\ Release
    /\ UNCHANGED <<index, result>>

\* The collector clears a list that only it refers to, under a reference of its own.
list_clear ==
    /\ use = "literal" /\ ~held /\ index = -1
    /\ refs' = [x \in Item |-> refs[x] - Times(x, Elements)]
    /\ items' = <<>> /\ size' = 0
    /\ count' = count - Times(SELF, Elements)
    /\ use' = IF count' = 0 THEN "none" ELSE use
    /\ UNCHANGED <<held, index, result>>

Next ==
    \/ \E xs \in Literals : BuildList(xs)
    \/ COList_New
    \/ \E x \in Item : COList_Append(x)
    \/ COList_GetItem(0)
    \/ \E i \in {-1, 0, size} : COList_DelItem(i)
    \/ \E i \in -1 - MaxLiteral .. MaxLiteral :
            list_subscript(i) \/ \E x \in Element : COList_SetItem(i, x)
    \/ list_iter \/ listiter_next \/ listiter_dealloc
    \/ Drop \/ list_clear

Spec == Init /\ [][Next]_vars

-----------------------------------------------------------------------------
(* Properties *)

\* No append writes past the cells, and every cell below co_size holds an element, never what
\* realloc left there (list_resize, COList_Insert; listobject.h:9-12).
CellsValid ==
    /\ use # "overrun"
    /\ size <= Len(items)
    /\ \A i \in 1..size : items[i] \in Element

\* co_refcnt of the list is the number of its holders: the program, a loop and the list's
\* own cells; and the list has counted exactly the elements it holds, also after growth,
\* a deletion that leaves a stale pointer behind, and the death of a list that contains
\* itself.  (CO_INCREF and CO_DECREF in listobject.c, object.h:82)
RefsExact ==
    use \notin {"overrun", "corrupt"} =>
        /\ count = (IF held THEN 1 ELSE 0) + (IF index # -1 THEN 1 ELSE 0) + Times(SELF, Elements)
        /\ \A x \in Item : refs[x] = Times(x, Elements)
        /\ use = "none" <=> count = 0

\* A list that only its own cells refer to is of no use to anyone.
AbstractList == INSTANCE List WITH
    Literal <- Literals, pos <- index + 1,
    elems <- IF held \/ index # -1 THEN Elements ELSE <<>>

\* Through its own operations a list is the sequence of listobject.h, whatever cells are
\* spare, stale or rubbish, and it is there as long as the program or a loop holds it.
ImplementsList == AbstractList!Spec

=============================================================================
