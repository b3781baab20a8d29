------------------------------ MODULE Compiler ------------------------------
(***************************************************************************)
(* compile.c: from the syntax tree of a program to the code objects of its *)
(* functions.                                                              *)
(*                                                                         *)
(* A unit is what the compiler keeps while it compiles a function. Basic   *)
(* blocks are laid out in the order in which they are entered, which is    *)
(* the order of assemble(), so that code is one sequence and a jump target *)
(* an index into it (from 0): a jump is emitted first and gets its target  *)
(* when the block it leads to is entered. The tables of constants, names   *)
(* and local variables are left out: an instruction has the entry itself   *)
(* as its argument. Only the table of upvalues is kept, because the        *)
(* machine uses an index of one function with the upvalues of another.     *)
(***************************************************************************)
EXTENDS Syntax, Integers, SequencesExt

Unit(argnames) ==
  [code |-> <<>>,
   names |-> {},                      \* u_names
   localnames |-> ToSet(argnames),    \* u_localnames
   upvals |-> <<>>,                   \* u_upvals
   fblock |-> <<>>,                   \* u_fblock
   done |-> {}]                       \* functions compiled so far, with their index

Instr(op, arg) == [op |-> op, arg |-> arg]

Here(u) == Len(u.code)
Emit(u, op, arg) == [u EXCEPT !.code = Append(@, Instr(op, arg))]
Patch(u, i, target) == [u EXCEPT !.code[i + 1].arg = target]

PushFBlock(u, type, b) == [u EXCEPT !.fblock = Append(@, [type |-> type, block |-> b])]
PopFBlock(u) == [u EXCEPT !.fblock = Front(@)]
NestedTooDeep(u) == Len(u.fblock) >= FRAME_MAXBLOCKS

UsesName(u, n) == [u EXCEPT !.names = @ \cup {n}]
UsesUpval(u, n) ==
  IF n \in ToSet(u.upvals) THEN u ELSE [u EXCEPT !.upvals = Append(@, n)]
UpvalIndex(u, n) == CHOOSE i \in DOMAIN u.upvals : u.upvals[i] = n

IsLocal(u, n) == n \in u.localnames
IsUpval(u, stack, n) ==
  /\ n \notin u.names
  /\ \E i \in DOMAIN stack : n \in stack[i].localnames

Access(u, stack, n, what) ==
  IF IsLocal(u, n)
  THEN Emit(u, what \o "_LOCAL", n)
  ELSE IF IsUpval(u, stack, n)
  THEN LET v == UsesUpval(u, n) IN Emit(v, what \o "_UPVAL", UpvalIndex(v, n))
  ELSE Emit(UsesName(u, n), what \o "_NAME", n)

-----------------------------------------------------------------------------
(* stackdepth(): how many values a function may have on its stack          *)

Targets(code) ==
  {code[i].arg : i \in {j \in DOMAIN code :
     code[j].op \in {"JMPZ", "JMPX", "SETUP_LOOP", "SETUP_TRY", "SETUP_FINALLY",
                     "CONTINUE_LOOP", "FOR_ITER"}}}

StackEffect(i) ==
  CASE i.op \in {"CMP", "STORE_LOCAL", "STORE_UPVAL", "STORE_NAME", "JMPZ", "RETURN",
                 "POP_TOP", "END_TRY", "END_FINALLY"} -> -1
    [] i.op \in {"JMPX", "DECLARE_FUNCTION", "SETUP_LOOP", "SETUP_TRY", "SETUP_FINALLY",
                 "POP_BLOCK", "BREAK_LOOP", "CONTINUE_LOOP", "GET_ITER"} -> 0
    [] i.op \in {"LOAD_UPVAL", "LOAD_NAME", "LOAD_CONST", "LOAD_LOCAL", "DUP_TOP",
                 "FOR_ITER"} -> 1
    [] i.op \in {"CALL_FUNCTION", "THROW"} -> -i.arg
    [] i.op \in {"BUILD_TUPLE", "BUILD_LIST"} -> 1 - i.arg

\* stackdepth_walk() from instruction i on, with `depth` values on the stack. A
\* block is entered again only with more values than before, and not from within
\* itself (`seen`); st is the depth at which each was entered (`start`) and the
\* greatest depth so far.
RECURSIVE Walk(_, _, _, _, _)
Walk(code, i, depth, seen, st) ==
  LET target == i \in DOMAIN st.start
      here == IF target THEN [st EXCEPT !.start[i] = depth] ELSE st
      now == IF target THEN seen \cup {i} ELSE seen
      instr == code[i + 1]
      after == depth + StackEffect(instr)
      top == [here EXCEPT !.max = IF after > @ THEN after ELSE @]
      jumped == IF instr.op \in {"JMPZ", "JMPX", "SETUP_LOOP", "SETUP_TRY",
                                 "SETUP_FINALLY", "CONTINUE_LOOP", "FOR_ITER"}
                THEN Walk(code, instr.arg, after, now, top)
                ELSE top
  IN IF i = Len(code) \/ (target /\ (i \in seen \/ st.start[i] >= depth))
     THEN st
     ELSE Walk(code, i + 1, after, now, jumped)

StackDepth(code) ==
  Walk(code, 0, 0, {}, [start |-> [i \in Targets(code) |-> -1], max |-> 0]).max

\* assemble(). assembler_jump_offsets() gives SETUP_FINALLY no address.
Assemble(u, argnames) ==
  [args |-> argnames,
   localnames |-> u.localnames,
   upvals |-> u.upvals,
   stacksize |-> StackDepth(u.code),
   code |-> [i \in DOMAIN u.code |->
               IF u.code[i].op = "SETUP_FINALLY" THEN Instr("SETUP_FINALLY", 0)
                                                 ELSE u.code[i]]]

-----------------------------------------------------------------------------
(* compiler_visit_node(): unit u with the code of node n appended. `stack` *)
(* holds the units of the enclosing functions, P is the program.           *)

RECURSIVE Visit(_, _, _, _), VisitAll(_, _, _, _), VisitCatches(_, _, _, _)

VisitAll(P, stack, u, nodes) ==
  IF nodes = <<>> THEN u
  ELSE VisitAll(P, stack, Visit(P, stack, u, Head(nodes)), Tail(nodes))

VisitIf(P, stack, u, n) ==
  LET test == Emit(Visit(P, stack, u, n.cond), "JMPZ", 0)
      body == Emit(VisitAll(P, stack, test, n.body), "JMPX", 0)
      ifend == VisitAll(P, stack, body, n.orelse)
  IN Patch(Patch(ifend, Here(test) - 1, Here(body)), Here(body) - 1, Here(ifend))

VisitWhile(P, stack, u, n) ==
  LET start == PushFBlock(Emit(u, "SETUP_LOOP", 0), "FB_LOOP", Here(u) + 1)
      test == Emit(Visit(P, stack, start, n.cond), "JMPZ", 0)
      body == Emit(VisitAll(P, stack, test, n.body), "JMPX", Here(start))
      exit == PopFBlock(Emit(body, "POP_BLOCK", 0))
  IN IF NestedTooDeep(u) THEN Emit(u, "SETUP_LOOP", 0)
     ELSE Patch(Patch(exit, Here(test) - 1, Here(body)), Here(u), Here(exit))

VisitFor(P, stack, u, n) ==
  LET list == Emit(Visit(P, stack, Emit(u, "SETUP_LOOP", 0), n.list), "GET_ITER", 0)
      start == PushFBlock(list, "FB_LOOP", Here(list))
      item == Emit(UsesName(Emit(start, "FOR_ITER", 0), n.item), "STORE_NAME", n.item)
      body == Emit(VisitAll(P, stack, item, n.body), "JMPX", Here(start))
      cleanup == PopFBlock(Emit(body, "POP_BLOCK", 0))
  IN IF NestedTooDeep(u) THEN Emit(u, "SETUP_LOOP", 0)
     ELSE Patch(Patch(cleanup, Here(start), Here(body)), Here(u), Here(cleanup))

VisitFunc(P, stack, u, n) ==
  LET f == P.funcs[n.func]
      inner == VisitAll(P, Append(stack, u), [Unit(f.args) EXCEPT !.done = u.done], f.body)
      outer == [u EXCEPT !.done = inner.done \cup {<<n.func, Assemble(inner, f.args)>>}]
      declared == Emit(Emit(outer, "LOAD_CONST", Code(n.func)), "DECLARE_FUNCTION", 0)
  IN IF n.name = "" THEN declared
     ELSE Emit(UsesName(declared, n.name), "STORE_NAME", n.name)

\* A jump to the end of the try statement that is being compiled
END == -1
PatchEnds(u, from) ==
  [u EXCEPT !.code = [i \in DOMAIN @ |->
     IF i > from /\ @[i].op = "JMPX" /\ @[i].arg = END
     THEN Instr("JMPX", Here(u)) ELSE @[i]]]

VisitCatches(P, stack, u, catches) ==
  IF catches = <<>> THEN u
  ELSE LET c == Head(catches)
           names == VisitAll(P, stack, Emit(u, "DUP_TOP", 0), c.names)
           match == Emit(Emit(names, "BUILD_TUPLE", Len(c.names)), "CMP", "EXC_MATCH")
           test == Emit(match, "JMPZ", 0)
           body == Emit(VisitAll(P, stack, Emit(test, "POP_TOP", 0), c.body), "JMPX", END)
           default == VisitAll(P, stack, PushFBlock(u, "FB_FINALLY", Here(u)), c.body)
       IN VisitCatches(P, stack,
            IF c.names = <<>> THEN Emit(PopFBlock(default), "JMPX", END)
                              ELSE Patch(body, Here(test) - 1, Here(body)),
            Tail(catches))

VisitTry(P, stack, u, n) ==
  LET setup == IF n.finally = <<>> THEN u ELSE Emit(u, "SETUP_FINALLY", 0)
      try == Emit(setup, "SETUP_TRY", 0)
      tried == VisitAll(P, stack, PushFBlock(try, "FB_EXCEPT", Here(try)), n.body)
      body == Emit(PopFBlock(Emit(tried, "POP_BLOCK", 0)), "JMPX", 0)
      caught == Emit(VisitCatches(P, stack, body, n.catches), "END_TRY", 0)
      orelse == VisitAll(P, stack, caught, n.orelse)
      end == PatchEnds(Patch(Patch(orelse, Here(setup), Here(body)),
                             Here(body) - 1, Here(caught)), Here(u))
      finally == Emit(end, "LOAD_CONST", None)
  IN IF NestedTooDeep(u) THEN try
     ELSE IF n.finally = <<>> THEN end
     ELSE Patch(Emit(VisitAll(P, stack, finally, n.finally), "END_FINALLY", 0),
                Here(u), Here(finally))

\* Mutant: the jump goes to the block that is being compiled, not to that of the loop.
X_VisitContinue(u) ==
  IF u.fblock # <<>> /\ Last(u.fblock).type = "FB_LOOP"
  THEN Emit(u, "CONTINUE_LOOP", Here(u))
  ELSE u

\* Outside of a loop fblock[-1] is read, which holds no block type.
VisitContinue(u) ==
  IF u.fblock # <<>> /\ Last(u.fblock).type = "FB_LOOP"
  THEN Emit(u, "CONTINUE_LOOP", Last(u.fblock).block)
  ELSE u

VisitCall(P, stack, u, n) ==
  Emit(Visit(P, stack, VisitAll(P, stack, u, n.params), n.func),
       "CALL_FUNCTION", Len(n.params))

Visit(P, stack, u, n) ==
  CASE n.node = "CONST" -> Emit(u, "LOAD_CONST", n.v)
    [] n.node = "NAME" -> Access(u, stack, n.name, "LOAD")
    [] n.node = "CMP" ->
         Emit(Emit(Emit(u, "LOAD_CONST", None), "LOAD_CONST", None), "CMP", "OPEN")
    [] n.node = "LIST" -> Emit(VisitAll(P, stack, u, n.list), "BUILD_LIST", Len(n.list))
    [] n.node = "ASSIGN" -> Access(Visit(P, stack, u, n.right), stack, n.name, "STORE")
    [] n.node = "ASSIGN_LOCAL" ->
         Emit([Visit(P, stack, u, n.right) EXCEPT !.localnames = @ \cup {n.name}],
              "STORE_LOCAL", n.name)
    [] n.node = "RETURN" -> Emit(Visit(P, stack, u, n.left), "RETURN", 0)
    [] n.node = "IF" -> VisitIf(P, stack, u, n)
    [] n.node = "WHILE" -> VisitWhile(P, stack, u, n)
    [] n.node = "FOR" -> VisitFor(P, stack, u, n)
    [] n.node = "FUNC" -> VisitFunc(P, stack, u, n)
    [] n.node = "FUNC_CALL" -> VisitCall(P, stack, u, n)
    [] n.node = "FUNC_CALL_STMT" -> Emit(VisitCall(P, stack, u, n), "POP_TOP", 0)
    [] n.node = "TRY" -> VisitTry(P, stack, u, n)
    [] n.node = "THROW" ->
         Emit(VisitAll(P, stack, u, n.left), "THROW", Len(n.left))
    [] n.node = "BREAK" -> Emit(u, "BREAK_LOOP", 0)
    [] n.node = "CONTINUE" -> VisitContinue(u)

\* compile(): the code objects of program P, the main program first
Compile(P) ==
  LET main == VisitAll(P, <<>>, Unit(<<>>), P.funcs[1].body)
      all == main.done \cup {<<1, Assemble(main, <<>>)>>}
  IN [f \in 1..Len(P.funcs) |-> (CHOOSE c \in all : c[1] = f)[2]]
=============================================================================
