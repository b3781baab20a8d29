-------------------------------- MODULE MCVM --------------------------------
(***************************************************************************)
(* Programs for the interpreter to run: all that a few shapes of           *)
(* statements give when they are nested.                                   *)
(***************************************************************************)
EXTENDS Interpreter

NPrint(s) == NCallStmt(NName("print"), <<NConst(Str(s))>>)
ThrowStr(s) == NThrow(NConst(Str(s)))

\* F of every element of s, and of every element of s and one of t. TLC evaluates the
\* elements once, in SubSeq, not at every use.
Explicit(s) == SubSeq(s, 1, Len(s))
Map1(F(_), s) == Explicit([i \in DOMAIN s |-> F(s[i])])
Map2(F(_, _), s, t) ==
  Explicit([k \in 1..Len(s) * Len(t) |->
              F(s[(k - 1) \div Len(t) + 1], t[((k - 1) % Len(t)) + 1])])

Main(stmts) == [funcs |-> <<Function(<<>>, stmts)>>]

-----------------------------------------------------------------------------
(* Statements *)

Jumps == <<NBreak, NContinue, NReturn(NConst(None)), ThrowStr("a"), ThrowStr("b"),
           NIf(NCmp, <<NBreak>>, <<>>), NIf(NCmp, <<NContinue>>, <<ThrowStr("a")>>),
           NPrint("1")>>

CatchA(body) == NCatch(<<NConst(Str("a"))>>, body)
CatchAll(body) == NCatch(<<>>, body)

\* The k-th statement around a body
Shape(body, k) ==
  CASE k = 1 -> NWhile(NCmp, body)
    [] k = 2 -> NFor("i", NList(<<NConst(Str("p")), NConst(Str("q"))>>), body)
    [] k = 3 -> NIf(NCmp, body, <<NPrint("else")>>)
    [] k = 4 -> NTry(body, <<CatchA(<<NPrint("a")>>)>>, <<NPrint("no error")>>, <<>>)
    [] k = 5 -> NTry(body, <<CatchA(<<NPrint("a")>>), CatchAll(<<NPrint("all")>>)>>, <<>>, <<>>)
    [] k = 6 -> NTry(<<ThrowStr("a")>>, <<CatchA(body)>>, <<>>, <<>>)
    [] k = 7 -> NTry(<<ThrowStr("b")>>, <<CatchA(<<>>), CatchAll(body)>>, <<>>, <<>>)
    [] k = 8 -> NTry(<<>>, <<>>, body, <<>>)

\* Every statement in every shape. The print shows whether control gets behind it.
Around(stmts) ==
  Map2(LAMBDA s, k : Shape(<<s, NPrint("behind")>>, k), stmts, [k \in 1..8 |-> k])

Once == Around(Jumps)
Twice == Around(Once)

Thrice == Around(Twice)

-----------------------------------------------------------------------------
(* What the compiler and the machine do as the language says               *)

\* ctx: whether the statement is in a loop; whether the innermost block the compiler
\* knows of is a loop, so that it compiles a continue; whether there is an iterator on
\* top of the stack, which the value left by a default catch would hide.
RECURSIVE Supported(_, _)
Supported(stmts, ctx) ==
  \A k \in DOMAIN stmts :
    LET n == stmts[k]
    IN CASE n.node = "BREAK" -> ctx.loop
         [] n.node = "CONTINUE" -> ctx.continue
         [] n.node = "IF" -> Supported(n.body, ctx) /\ Supported(n.orelse, ctx)
         [] n.node = "WHILE" ->
              Supported(n.body, [loop |-> TRUE, continue |-> TRUE, for |-> FALSE])
         [] n.node = "FOR" ->
              Supported(n.body, [loop |-> TRUE, continue |-> TRUE, for |-> TRUE])
         [] n.node = "TRY" ->
              /\ Supported(n.body, [ctx EXCEPT !.continue = FALSE])
              /\ Supported(n.orelse, ctx)
              /\ \A i \in DOMAIN n.catches :
                   IF n.catches[i].names # <<>> THEN Supported(n.catches[i].body, ctx)
                   ELSE /\ ~ctx.for
                        /\ Supported(n.catches[i].body, [ctx EXCEPT !.continue = FALSE])
         [] OTHER -> TRUE

Plain(s) == Supported(<<s>>, [loop |-> FALSE, continue |-> FALSE, for |-> FALSE])

PlainOnce == SelectSeq(Once, Plain)
PlainThrice == SelectSeq(Thrice, Plain)

ControlPrograms(stmts) == Map1(LAMBDA s : Main(<<s, NPrint("end")>>), stmts)

-----------------------------------------------------------------------------
(* Functions *)

NStr(s) == NConst(Str(s))
Call(f, e) == NCall(NName(f), <<e>>)
NPrintOf(e) == NCallStmt(NName("print"), <<e>>)

\* Programs that declare f(x), with a statement that may jump in its body, and call it
CallPrograms(stmts) ==
  Map2(LAMBDA s, use :
         [funcs |-> <<Function(<<>>, <<NFuncStmt("f", 2), use, NPrint("end")>>),
                      Function(<<"x">>, <<s, NPrintOf(NName("x")), NReturn(NName("x"))>>)>>],
       stmts,
       <<NPrintOf(Call("f", Call("f", NStr("1")))),
         NFor("i", NList(<<NStr("2"), Call("f", NStr("3"))>>),
              <<NPrintOf(Call("f", NName("i")))>>),
         NWhile(NCmp, <<NIf(NCmp, <<NAssign("y", Call("f", NStr("4")))>>, <<NBreak>>),
                        NPrint("5")>>)>>)

\* f calls itself, also from within its loops, and names that are not defined
Recursion ==
  <<[funcs |-> <<Function(<<>>, <<NFuncStmt("f", 2), NPrintOf(Call("f", NStr("1")))>>),
                 Function(<<"x">>,
                   <<NWhile(NCmp, <<NIf(NCmp, <<NReturn(Call("f", NName("x")))>>, <<NBreak>>)>>),
                     NAssign("x", NStr("2")),
                     NReturn(NName("x"))>>)>>],
    Main(<<NPrintOf(NName("unknown")), NPrint("end")>>),
    Main(<<NTry(<<NPrintOf(NName("unknown"))>>, <<CatchAll(<<NRethrow>>)>>, <<>>, <<>>)>>)>>

\* make(n) returns a function that swaps its argument for the one of the call before.
Closures(uses) ==
  [funcs |->
     <<Function(<<>>,
         <<NAssign("make", NFunc(2)),
           NAssign("f", Call("make", NStr("0"))),
           NAssign("g", Call("make", NStr("1")))>> \o uses),
       Function(<<"n">>, <<NReturn(NFunc(3))>>),
       Function(<<"i">>, <<NAssignLocal("old", NName("n")),
                           NAssign("n", NName("i")),
                           NReturn(NName("old"))>>)>>]

ClosurePrograms ==
  <<Closures(<<NPrintOf(Call("f", NStr("2"))), NPrintOf(Call("f", NStr("3"))),
               NPrintOf(Call("g", NStr("4"))), NPrintOf(Call("f", NStr("5")))>>),
    Closures(<<NFor("i", NList(<<NStr("2"), NStr("3")>>),
                    <<NPrintOf(Call("f", NName("i"))),
                      NPrintOf(Call("g", Call("f", NName("i"))))>>)>>)>>

\* A function and one inside it use the same variable.
SharedPrograms ==
  <<[funcs |->
       <<Function(<<>>, <<NAssign("f", NFunc(2)), NCallStmt(NName("f"), <<NStr("1")>>)>>),
         Function(<<"x">>, <<NAssign("g", NFunc(3)), NCallStmt(NName("g"), <<NStr("2")>>),
                             NPrintOf(NName("x"))>>),
         Function(<<"y">>, <<NAssign("x", NName("y"))>>)>>]>>

\* Calls of a string, of a function without its argument, and a loop over a string
Misuse ==
  <<Main(<<NPrint("1"), NCallStmt(NStr("2"), <<NStr("3")>>)>>),
    [funcs |-> <<Function(<<>>, <<NFuncStmt("f", 2), NPrint("1"), NCallStmt(NName("f"), <<>>)>>),
                 Function(<<"x">>, <<NPrintOf(NName("x"))>>)>>],
    Main(<<NFor("i", NStr("1"), <<NPrintOf(NName("i"))>>)>>)>>

-----------------------------------------------------------------------------
(* Finally *)

NTryFinally(body, catches) ==
  NTry(body, catches, <<NPrint("no error")>>, <<NPrint("finally")>>)

\* The body ends, or throws something that is caught
FinallyPrograms ==
  Map2(LAMBDA body, handler :
         Main(<<NTryFinally(<<body>>, <<CatchA(<<handler>>)>>), NPrint("end")>>),
       <<NPrint("1"), ThrowStr("a"), NIf(NCmp, <<ThrowStr("a")>>, <<>>)>>,
       <<NPrint("3"), NTryFinally(<<NPrint("4")>>, <<>>)>>)

-----------------------------------------------------------------------------
CONSTANT Family     \* which programs

SamplePrograms ==
  CASE Family = "supported" ->
         ControlPrograms(PlainThrice) \o CallPrograms(PlainOnce)
           \o Recursion \o ClosurePrograms \o Misuse \o FinallyPrograms
    [] Family = "catches" -> ControlPrograms(SelectSeq(Twice, Plain))
    [] Family = "shared" -> SharedPrograms

SampleCodes ==
  Map1(LAMBDA P : Map1(LAMBDA c : [c EXCEPT !.code = Explicit(@)], Compile(P)),
       SamplePrograms)

\* Values of the constants Programs and Codes
MCPrograms == SamplePrograms
MCCodes == SampleCodes

\* Every program without a finally clause that is compiled here is structured code.
HasFinally(codes) ==
  \E f \in DOMAIN codes : \E i \in DOMAIN codes[f].code : codes[f].code[i].op = "SETUP_FINALLY"

ASSUME CompilesToStructure ==
  \A p \in DOMAIN Codes : HasFinally(Codes[p]) \/ (Structured(Codes[p]) /\ Roomy(Codes[p]))
=============================================================================
