------------------------------ MODULE IdealHeap ------------------------------
(****************************************************************************)
(* What memory management promises to a program: containers are made, read  *)
(* and written, and that is all.  There are no reference counts and no      *)
(* collector here; what the program can no longer reach does not exist, and *)
(* a new container never occupies a block that is still in use.             *)
(* GC!Spec implements this specification (GC!Ideal).                        *)
(****************************************************************************)
EXTENDS Heap

VARIABLE val    \* what each slot the program can see holds

IdealInit == val = [x \in Slot |-> NULL]

\* What the program has at hand in heap h, and where.
Full(h) == {s \in Field : h[<<STACK, s>>] # NULL}
Operands(h) == {NULL} \cup {h[<<STACK, s>>] : s \in Full(h)}

(* Each operation is the heap it makes of heap h. *)

\* A container built from operands is left in the free slot s of the stack.
New(h, o, s, operands) ==
    [x \in Slot |-> CASE x = <<STACK, s>> -> o
                      [] x[1] = o         -> operands[x[2]]
                      [] OTHER            -> h[x]]

\* container[f] = item
Assign(h, s, f, item) == Visible([h EXCEPT ![<<h[<<STACK, s>>], f>>] = item])

\* Push another reference to what slot s holds.
Copy(h, s, t) == [h EXCEPT ![<<STACK, t>>] = h[<<STACK, s>>]]

\* Replace the container in slot s by its element f.
Select(h, s, f) == Visible([h EXCEPT ![<<STACK, s>>] = h[<<h[<<STACK, s>>], f>>]])

\* Drop what slot s holds.
Forget(h, s) == Visible([h EXCEPT ![<<STACK, s>>] = NULL])

Step(h, g) ==
    \/ \E s \in Full(h) : g = Forget(h, s)
    \/ \E s \in Full(h), t \in Field \ Full(h) : g = Copy(h, s, t)
    \/ \E s \in Full(h), f \in Field : g = Select(h, s, f)
    \/ \E s \in Full(h), f \in Field, item \in Operands(h) : g = Assign(h, s, f, item)
    \/ \E o \in Obj \ Live(h), s \in Field \ Full(h), operands \in [Field -> Operands(h)] :
           g = New(h, o, s, operands)

\* The bound variables make TLC compute val and val' once when val is substituted.
IdealNext == \E h \in {val}, g \in {val'} : h # g /\ Step(h, g)

IdealSpec == IdealInit /\ [][IdealNext]_val

=============================================================================
