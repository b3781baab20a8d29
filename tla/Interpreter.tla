----------------------------- MODULE Interpreter -----------------------------
(***************************************************************************)
(* The compiler and the machine together: programs are compiled by         *)
(* Compiler, run by VM, and held against what Language says they mean. The *)
(* constant Codes has to hold Compile(Programs[p]) for each program p.     *)
(***************************************************************************)
EXTENDS Structure, Compiler

CONSTANT Programs      \* a sequence of syntax trees

L == INSTANCE Language

-----------------------------------------------------------------------------
(* What a run comes to. An error that is left in TS(curexc_value) is       *)
(* printed by eval_wrapper() in the end, whatever left it there.           *)

\* The code of `try`, `break`, `continue`, `return`, calls and loops does what the
\* statements mean: when the machine stops, it has printed what Language says, ended
\* with the exception Language says (or none), and has asked for exactly as many
\* comparisons. It does not run out of blocks, and follows a bad pointer only in a
\* program that calls or iterates over what it should not.
Adequate ==
  LET m == L!Meaning(Programs[program.index], given)
  IN /\ pc # "fatal"
     /\ pc = "crash" => m.how = "undefined"
     /\ pc = "exit" => /\ m.how \in {"return", "throw"}
                       /\ m.out = out
                       /\ m.open = <<>>
                       /\ err = IF m.how = "throw" THEN m.val ELSE NULL

\* "Those variables are then shared between the surrounding function and the function
\* literal" (src/doc/reference/expressions.rst:30): a program prints what it prints if an
\* assignment in one of them is seen in the other, as it is in Language.
SharesVariables ==
  pc = "exit" => out = L!Meaning(Programs[program.index], given).out

\* Every program whose comparisons turn out False in the end comes to an end: no
\* jump goes back where it should go forward.
Ends == <>(pc # "run")

-----------------------------------------------------------------------------
(* What a comment of the compiler assumes *)

\* "We assume that cycles in the flow graph have no effect on the stack depth"
\* (src/compile.c:947): where a round of a loop begins, nothing is on the stack but what
\* was there before the loop, and the iterator of a for loop.
LoopsKeepStack ==
  pc = "run" /\ status = "NONE" =>
    LET code == CodeOf(frame.code).code
        i == frame.lasti
        begins == \E j \in DOMAIN code : j > i + 1 /\ code[j] = Instr("JMPX", i)
    IN begins => Len(frame.stack) = frame.blocks[Len(frame.blocks)].level
                                      + IF instr.op = "FOR_ITER" THEN 1 ELSE 0
=============================================================================
