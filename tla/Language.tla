------------------------------ MODULE Language ------------------------------
(***************************************************************************)
(* What a program means: an evaluator of syntax trees that knows neither   *)
(* code, stacks nor blocks. It is the reference that compiler and machine  *)
(* are held against, so it says what the documentation promises where the  *)
(* code does something else: a finally clause runs however its try         *)
(* statement is left (doc/reference/errors.rst), an exception passes       *)
(* through calls until something catches it, a function shares the         *)
(* variables of the function around it (doc/reference/expressions.rst).    *)
(*                                                                         *)
(* s is a state of the evaluation:                                         *)
(*   out       what has been printed                                       *)
(*   open      the outcomes of the comparisons still to come               *)
(*   globals   variables of the program, a function from names             *)
(*   scopes    one record per function called: its variables, the scope    *)
(*             around it                                                   *)
(*   how       how the last statement was left: "normal", "break",         *)
(*             "continue", "return", "throw"; "undefined": the language    *)
(*             gives it no meaning; "starved": `open` was too short        *)
(*   val       value of the last expression, the exception thrown          *)
(***************************************************************************)
EXTENDS Syntax, Naturals, SequencesExt

NameError(n) == Str(n \o " is not defined")

Set(f, x, v) == [y \in DOMAIN f \cup {x} |-> IF y = x THEN v ELSE f[y]]

Normal(s) == s.how = "normal"
Gives(s, v) == [s EXCEPT !.val = v]
Throws(s, v) == [s EXCEPT !.how = "throw", !.val = v]
Undefined(s) == [s EXCEPT !.how = "undefined"]

\* The innermost scope around e that has n, or 0
RECURSIVE ScopeOf(_, _, _)
ScopeOf(s, e, n) ==
  IF e = 0 \/ n \in DOMAIN s.scopes[e].vars THEN e
  ELSE ScopeOf(s, s.scopes[e].outer, n)

Lookup(s, e, n) ==
  LET at == ScopeOf(s, e, n)
  IN CASE at # 0 -> Gives(s, s.scopes[at].vars[n])
       [] at = 0 /\ n \in DOMAIN s.globals -> Gives(s, s.globals[n])
       [] at = 0 /\ n \notin DOMAIN s.globals /\ n \in DOMAIN Builtins ->
            Gives(s, Builtins[n])
       [] OTHER -> Throws(s, NameError(n))

Declare(s, e, n) == [s EXCEPT !.scopes[e].vars = Set(@, n, s.val)]

SetGlobal(s, n, v) == [s EXCEPT !.globals = Set(@, n, v)]

Assign(s, e, n) ==
  LET at == ScopeOf(s, e, n)
  IN IF at # 0 THEN Declare(s, at, n) ELSE SetGlobal(s, n, s.val)

Compare(s) ==
  IF s.open = <<>> THEN [s EXCEPT !.how = "starved"]
  ELSE [s EXCEPT !.open = Tail(@), !.val = Bool(Head(s.open))]

RECURSIVE Eval(_, _, _, _), EvalAll(_, _, _, _, _), Apply(_, _, _, _)
RECURSIVE Exec(_, _, _, _), Run(_, _, _, _), While(_, _, _, _), For(_, _, _, _, _)

\* The values of expressions es, from left to right, appended to vs
EvalAll(P, s, e, es, vs) ==
  IF es = <<>> \/ ~Normal(s) THEN Gives(s, IF Normal(s) THEN Tuple(vs) ELSE s.val)
  ELSE LET t == Eval(P, s, e, Head(es))
       IN EvalAll(P, t, e, Tail(es), Append(vs, t.val))

Eval(P, s, e, x) ==
  CASE x.node = "CONST" -> Gives(s, x.v)
    [] x.node = "NAME" -> Lookup(s, e, x.name)
    [] x.node = "CMP" -> Compare(s)
    [] x.node = "LIST" ->
         LET t == EvalAll(P, s, e, x.list, <<>>)
         IN IF Normal(t) THEN Gives(t, List(t.val[2])) ELSE t
    [] x.node = "FUNC" ->
         LET f == Gives(s, Func(x.func, e))
         IN IF x.name = "" THEN f ELSE SetGlobal(f, x.name, f.val)
    [] x.node = "FUNC_CALL" ->
         LET args == EvalAll(P, s, e, x.params, <<>>)
             callee == Eval(P, args, e, x.func)
         IN IF ~Normal(args) THEN args
            ELSE IF ~Normal(callee) THEN callee
            ELSE Apply(P, callee, callee.val, args.val[2])

Apply(P, s, f, args) ==
  CASE f = Printer -> Gives([s EXCEPT !.out = @ \o args], None)
    [] Type(f) = "function" /\ Len(args) = Len(P.funcs[f[2]].args) ->
         LET names == P.funcs[f[2]].args
             scope == [vars |-> [n \in ToSet(names) |->
                                   args[CHOOSE i \in DOMAIN names : names[i] = n]],
                       outer |-> f[3]]
             t == Run(P, [s EXCEPT !.scopes = Append(@, scope)], Len(s.scopes) + 1,
                      P.funcs[f[2]].body)
         IN IF t.how = "return" THEN [t EXCEPT !.how = "normal"] ELSE t
    [] OTHER -> Undefined(s)

Run(P, s, e, stmts) ==
  IF stmts = <<>> \/ ~Normal(s) THEN s
  ELSE Run(P, Exec(P, s, e, Head(stmts)), e, Tail(stmts))

\* What follows a loop's body: TRUE to go on with the next round
GoesOn(s) == s.how \in {"normal", "continue"}
Again(s) == [s EXCEPT !.how = "normal"]
LoopEnds(s) == IF s.how = "break" THEN Again(s) ELSE s

While(P, s, e, n) ==
  LET test == Eval(P, s, e, n.cond)
      body == Run(P, test, e, n.body)
  IN IF ~Normal(test) \/ test.val = Bool(FALSE) THEN test
     ELSE IF GoesOn(body) THEN While(P, Again(body), e, n)
     ELSE LoopEnds(body)

For(P, s, e, n, items) ==
  LET body == Run(P, SetGlobal(s, n.item, Head(items)), e, n.body)
  IN IF items = <<>> THEN s
     ELSE IF GoesOn(body) THEN For(P, Again(body), e, n, Tail(items))
     ELSE LoopEnds(body)

\* A catch names what it catches; without names it catches everything.
Catches(c, v) == c.names = <<>> \/ \E i \in DOMAIN c.names : c.names[i].v = v

Try(P, s, e, n) ==
  LET body == Run(P, s, e, n.body)
      matching == {i \in DOMAIN n.catches : Catches(n.catches[i], body.val)}
      first == CHOOSE i \in matching : \A j \in matching : i <= j
      handled == IF body.how = "throw" /\ matching # {}
                 THEN Run(P, Again(body), e, n.catches[first].body)
                 ELSE IF Normal(body) THEN Run(P, body, e, n.orelse) ELSE body
      cleaned == Run(P, Again(handled), e, n.finally)
  IN IF handled.how \in {"undefined", "starved"} THEN handled
     ELSE IF ~Normal(cleaned) THEN cleaned
     ELSE [cleaned EXCEPT !.how = handled.how, !.val = handled.val]

Exec(P, s, e, n) ==
  CASE n.node \in {"FUNC", "FUNC_CALL"} -> Eval(P, s, e, n)
    [] n.node = "FUNC_CALL_STMT" -> Eval(P, s, e, NCall(n.func, n.params))
    [] n.node \in {"ASSIGN", "ASSIGN_LOCAL"} ->
         LET t == Eval(P, s, e, n.right)
         IN IF ~Normal(t) THEN t
            ELSE IF n.node = "ASSIGN" THEN Assign(t, e, n.name) ELSE Declare(t, e, n.name)
    [] n.node = "RETURN" ->
         LET t == Eval(P, s, e, n.left) IN IF Normal(t) THEN [t EXCEPT !.how = "return"] ELSE t
    [] n.node = "THROW" ->
         LET t == EvalAll(P, s, e, n.left, <<>>)
         IN IF Normal(t) THEN Throws(t, IF n.left = <<>> THEN None ELSE t.val[2][1]) ELSE t
    [] n.node = "IF" ->
         LET t == Eval(P, s, e, n.cond)
         IN Run(P, t, e, IF t.val = Bool(TRUE) THEN n.body ELSE n.orelse)
    [] n.node = "WHILE" -> While(P, s, e, n)
    [] n.node = "FOR" ->
         LET t == Eval(P, s, e, n.list)
         IN IF ~Normal(t) THEN t
            ELSE IF Type(t.val) = "list" THEN For(P, t, e, n, t.val[2])
            ELSE Undefined(t)
    [] n.node = "TRY" -> Try(P, s, e, n)
    [] n.node = "BREAK" -> [s EXCEPT !.how = "break"]
    [] n.node = "CONTINUE" -> [s EXCEPT !.how = "continue"]

\* What program P does if its comparisons have the outcomes `open`: the state in
\* which it ends. The main program has a scope for its own local variables.
Meaning(P, open) ==
  Run(P, [out |-> <<>>, open |-> open, globals |-> <<>>,
          scopes |-> <<[vars |-> <<>>, outer |-> 0]>>, how |-> "normal", val |-> None],
      1, P.funcs[1].body)
=============================================================================
