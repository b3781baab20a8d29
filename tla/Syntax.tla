------------------------------- MODULE Syntax -------------------------------
(***************************************************************************)
(* The abstract syntax tree of ast.h, one constructor per kind of node. A  *)
(* program is [funcs |-> sequence of functions], a function being          *)
(* [args |-> names, body |-> statements]; function 1 is the main program.  *)
(* A NODE_FUNC refers to its function by index, so that the compiled       *)
(* functions of a program are a sequence too.                              *)
(*                                                                         *)
(* A comparison has no operands here: its outcome is left open. Absent     *)
(* parts (else, finally, catches) are empty sequences, like null pointers  *)
(* in the tree; the main program and every function end with a return of   *)
(* None, which the grammar appends.                                        *)
(***************************************************************************)
EXTENDS Values, Sequences

\* Expressions
NConst(v) == [node |-> "CONST", v |-> v]
NName(n) == [node |-> "NAME", name |-> n]
NCmp == [node |-> "CMP"]
NList(es) == [node |-> "LIST", list |-> es]
NFunc(f) == [node |-> "FUNC", name |-> "", func |-> f]
NCall(f, params) == [node |-> "FUNC_CALL", func |-> f, params |-> params]

\* Statements
NCallStmt(f, params) == [node |-> "FUNC_CALL_STMT", func |-> f, params |-> params]
NAssign(n, e) == [node |-> "ASSIGN", name |-> n, right |-> e]
NAssignLocal(n, e) == [node |-> "ASSIGN_LOCAL", name |-> n, right |-> e]
NReturn(e) == [node |-> "RETURN", left |-> e]
NIf(cond, body, orelse) ==
  [node |-> "IF", cond |-> cond, body |-> body, orelse |-> orelse]
NWhile(cond, body) == [node |-> "WHILE", cond |-> cond, body |-> body]
NFor(item, list, body) == [node |-> "FOR", item |-> item, list |-> list, body |-> body]
NFuncStmt(n, f) == [node |-> "FUNC", name |-> n, func |-> f]
NTry(body, catches, orelse, finally) ==
  [node |-> "TRY", body |-> body, catches |-> catches, orelse |-> orelse,
   finally |-> finally]
NCatch(names, body) == [names |-> names, body |-> body]    \* no names: catches all
NThrow(e) == [node |-> "THROW", left |-> <<e>>]
NRethrow == [node |-> "THROW", left |-> <<>>]
NBreak == [node |-> "BREAK"]
NContinue == [node |-> "CONTINUE"]

ReturnNone == NReturn(NConst(None))

Function(args, body) == [args |-> args, body |-> Append(body, ReturnNone)]
=============================================================================
