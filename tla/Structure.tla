------------------------------ MODULE Structure ------------------------------
(***************************************************************************)
(* How the frames of the machine relate to the text of the code they run:  *)
(* which statements an instruction is in, how many values are on the stack *)
(* where it is executed.  Code is structured if this is the same on every  *)
(* way to an instruction, exceptions and jumps out of statements included; *)
(* it is what the compiler (compile.c) is expected to produce.             *)
(***************************************************************************)
EXTENDS VM, Integers, FiniteSets

-----------------------------------------------------------------------------
(* Blocks at run time against blocks in the text                           *)

\* The statements that instruction i is in, outermost first, as the positions of their
\* SETUP instructions. A loop's block is there up to its POP_BLOCK, just before the
\* handler; a try's POP_BLOCK is followed by the jump over its handlers.
Encloses(code, j, i) ==
  CASE code[j + 1].op = "SETUP_LOOP" -> j < i /\ i < code[j + 1].arg
    [] code[j + 1].op = "SETUP_TRY" -> j < i /\ i < code[j + 1].arg - 1
    [] OTHER -> FALSE

Enclosing(code, i) ==
  SelectSeq([j \in 1..Len(code) |-> j - 1], LAMBDA j : Encloses(code, j, i))

\* The blocks of a frame that have a POP_BLOCK of their own, as positions in f.blocks
Entered(f) == {k \in DOMAIN f.blocks : f.blocks[k].type # "SETUP_FINALLY"}

\* Where the frames are, the blocks they have entered are exactly those their next
\* instruction is in, with the same handlers and in the same order: however blocks are
\* left (end of the statement, break, continue, exception), none is forgotten on the
\* block stack and none is left too early. And no block's level is above the stack, nor
\* below that of the block around it. Frames that wait for a call are included.
BlocksMatch ==
  status = "NONE" =>
    \A i \in DOMAIN frames :
      LET f == frames[i]
          code == CodeOf(f.code).code
          at == Enclosing(code, f.lasti)
      IN /\ Cardinality(Entered(f)) = Len(at)
         /\ \A k \in Entered(f) :
              LET outer == {j \in Entered(f) : j <= k}
                  setup == code[at[Cardinality(outer)] + 1]
              IN /\ f.blocks[k].type = setup.op
                 /\ f.blocks[k].handler = setup.arg
                 /\ f.blocks[k].level <= Len(f.stack)
                 /\ \A j \in outer : f.blocks[j].level <= f.blocks[k].level

\* A frame has at most as many values on its stack as stackdepth() found: the stack
\* stays within the memory COFrame_New() allocates for it. This is for functions without
\* try statements, but with the iterators and arguments that are on the stack when
\* a loop is left or a function is called.
WithoutTry(c) == \A i \in 1..Len(c.code) : c.code[i].op # "SETUP_TRY"

PlainStackFits ==
  \A k \in DOMAIN frames :
    LET c == CodeOf(frames[k].code)
    IN WithoutTry(c) => Len(frames[k].stack) <= c.stacksize

-----------------------------------------------------------------------------
(* Structured code                                                         *)

Jumping == {"JMPZ", "JMPX", "FOR_ITER", "SETUP_LOOP", "SETUP_TRY", "CONTINUE_LOOP"}

\* How many values an instruction takes from the stack, and puts there if it goes on
Takes(x) ==
  CASE x.op \in {"STORE_NAME", "STORE_LOCAL", "STORE_UPVAL", "DUP_TOP", "POP_TOP", "JMPZ",
                 "GET_ITER", "FOR_ITER", "DECLARE_FUNCTION", "RETURN", "END_TRY"} -> 1
    [] x.op = "CMP" -> 2
    [] x.op \in {"BUILD_TUPLE", "BUILD_LIST", "THROW"} -> x.arg
    [] x.op = "CALL_FUNCTION" -> x.arg + 1
    [] OTHER -> 0

Puts(x) ==
  CASE x.op \in {"DUP_TOP", "FOR_ITER"} -> 2
    [] x.op \in {"LOAD_CONST", "LOAD_LOCAL", "LOAD_NAME", "LOAD_UPVAL", "BUILD_TUPLE",
                 "BUILD_LIST", "CMP", "GET_ITER", "DECLARE_FUNCTION", "CALL_FUNCTION"} -> 1
    [] OTHER -> 0

Goes(to, at, height) == [to |-> to, at |-> at, height |-> height]

\* Where the machine may go on after instruction i: the statements it is in there, and the
\* height of the stack there, if h[i + 1] is that at i and b that right after a block is set
\* up. A loop is left by a break too, and a try by an exception.
Successors(code, h, i, b) ==
  LET x == code[i + 1]
      at == Enclosing(code, i)
      n == h[i + 1] - Takes(x)
      next == i + 1
  IN CASE x.op \in {"JMPX", "CONTINUE_LOOP"} -> {Goes(x.arg, at, n)}
       [] x.op \in {"JMPZ", "FOR_ITER"} -> {Goes(next, at, n + Puts(x)), Goes(x.arg, at, n)}
       [] x.op = "SETUP_LOOP" -> {Goes(next, Append(at, i), b), Goes(x.arg, at, n)}
       [] x.op = "SETUP_TRY" -> {Goes(next, Append(at, i), b), Goes(x.arg, at, n + 1)}
       [] x.op = "POP_BLOCK" ->
            IF at = <<>> THEN {}
            ELSE LET setup == at[Len(at)]
                 IN {Goes(next, Enclosing(code, setup), h[setup + 1])}
       [] x.op \in {"RETURN", "THROW", "BREAK_LOOP", "END_TRY"} -> {}
       [] OTHER -> {Goes(next, at, n + Puts(x))}

\* A height for each instruction. Heights are counted from the level of the innermost block,
\* and the least one before it leaves is that of an instruction; or, if `all', from the
\* bottom of the stack, and it is the greatest. Where none leads to it, it is what the one
\* just before it would leave.
Table(code, all) ==
  LET first[n \in 0..Len(code)] ==
        IF n = 0 THEN <<>>
        ELSE IF n = 1 THEN <<0>>
        ELSE LET h == first[n - 1]
                 before == {j \in 0..n - 2 :
                              \/ j = n - 2
                              \/ code[j + 1].op \in Jumping /\ code[j + 1].arg = n - 1}
                 after == UNION {Successors(code, h, j, IF all THEN h[j + 1] ELSE 0) : j \in before}
                 here == {s.height : s \in {t \in after : t.to = n - 1}}
             IN Append(h, IF here = {} THEN h[n - 1] - Takes(code[n - 1]) + Puts(code[n - 1])
                          ELSE CHOOSE x \in here : \A y \in here : IF all THEN x >= y ELSE x <= y)
  IN first[Len(code)]

\* The height that is sure to be there at each instruction, above the innermost block
Heights(code) == Table(code, FALSE)

\* The most values that may be on the stack at each instruction
Depths(code) == Table(code, TRUE)

\* Instruction i of code object c has the values it takes, and all that may follow it is in
\* the right statements and asks for no more values than there are.
WellPlaced(c, h, i) ==
  LET x == c.code[i + 1]
      at == Enclosing(c.code, i)
  IN /\ h[i + 1] \in Nat
     /\ Takes(x) \in 0..h[i + 1]
     /\ at \in Seq(0..Len(c.code) - 1)
     /\ \A k \in DOMAIN at :
          /\ c.code[at[k] + 1].op \in {"SETUP_LOOP", "SETUP_TRY"}
          /\ Enclosing(c.code, at[k]) = SubSeq(at, 1, k - 1)
     /\ \A s \in Successors(c.code, h, i, 0) :
          /\ s.to \in 0..Len(c.code) - 1
          /\ s.at = Enclosing(c.code, s.to)
          /\ h[s.to + 1] <= s.height
     /\ x.op = "CONTINUE_LOOP" => at # <<>> /\ c.code[at[Len(at)] + 1].op = "SETUP_LOOP"

\* The entries of its tables an instruction refers to are there: n functions in the program.
WellFormed(c, n, x) ==
  /\ x.op \notin {"SETUP_FINALLY", "END_FINALLY"}
  /\ x.op = "LOAD_CONST" => /\ Type(x.arg) \in {"None", "str", "bool", "code"}
                            /\ Type(x.arg) = "code" => x.arg[2] \in 1..n
  /\ x.op = "LOAD_LOCAL" => x.arg \in c.localnames
  /\ x.op \in {"BUILD_TUPLE", "BUILD_LIST", "CALL_FUNCTION"} => x.arg \in Nat
  /\ x.op = "THROW" => x.arg \in {0, 1}

StructuredCode(c, n) ==
  LET h == Heights(c.code)
  IN /\ Len(c.code) \in Nat \ {0} /\ c.upvals \in Seq(STRING)
     /\ h[1] = 0 /\ Enclosing(c.code, 0) = <<>>
     /\ \A i \in 0..Len(c.code) - 1 : WellPlaced(c, h, i) /\ WellFormed(c, n, c.code[i + 1])

\* The stack of a code object has room for as many values as there may be.
DeepEnough(c) ==
  LET d == Depths(c.code)
  IN /\ c.stacksize \in Nat
     /\ \A i \in 0..Len(c.code) - 1 :
          /\ d[i + 1] \in 0..c.stacksize
          /\ \A s \in Successors(c.code, d, i, d[i + 1]) : s.height <= d[s.to + 1]

\* A program, as the sequence of its code objects
Structured(codes) ==
  /\ Len(codes) \in Nat \ {0}
  /\ \A f \in 1..Len(codes) : StructuredCode(codes[f], Len(codes))

Roomy(codes) == \A f \in 1..Len(codes) : WithoutTry(codes[f]) => DeepEnough(codes[f])
=============================================================================
