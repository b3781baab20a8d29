------------------------------- MODULE Values -------------------------------
(***************************************************************************)
(* The objects a program handles, as far as control flow depends on them:  *)
(* a tuple whose first component is the type. NULL is the null pointer     *)
(* that a failed C function returns and some instructions push all the     *)
(* same.                                                                   *)
(***************************************************************************)
CONSTANT FRAME_MAXBLOCKS    \* most nested blocks, in the compiler and in a frame

NULL == <<"NULL">>
None == <<"None">>
Str(s) == <<"str", s>>
Bool(b) == <<"bool", b>>
Tuple(s) == <<"tuple", s>>
List(s) == <<"list", s>>
Iter(s) == <<"listiter", s>>           \* what the iterator has yet to supply
Code(f) == <<"code", f>>               \* f: index of a function in the program
Func(f, up) == <<"function", f, up>>   \* up: where its upvalues are
Printer == <<"builtin", "print">>

Type(v) == v[1]

Builtins == [n \in {"print"} |-> Printer]
=============================================================================
