--------------------------------- MODULE VM ---------------------------------
(***************************************************************************)
(* vm_eval() of vm.c and the frames of objects/frameobject.c: the loop     *)
(* that runs byte code.                                                    *)
(*                                                                         *)
(* One action per instruction, and one (Unwind) per turn of the loop at    *)
(* `fast_end` that leaves blocks while status is not STATUS_NONE. An       *)
(* argument that is an index into a table of the code object is the entry  *)
(* itself, except that of upvalues; an address is the position of the      *)
(* instruction. What a comparison of two objects of the program yields is  *)
(* open. Arithmetic, subscripts, dicts and reference counts are left out:  *)
(* they do not change control, stack depth apart.                          *)
(***************************************************************************)
EXTENDS Values, Naturals, Sequences

CONSTANTS
  Codes,              \* for each program, the code objects of its functions
  MaxChoices          \* after so many comparisons of a run, all yield False

VARIABLES
  program,   \* the program that runs: its index in Codes and its code objects
  frames,    \* the chain of frames from the first to TS(frame)
  func,      \* the local variable of vm_eval()
  status,    \* enum status_code
  oparg,     \* the argument of the last CONTINUE_LOOP
  err,       \* TS(curexc_value)
  globals,   \* variables of the program, a function from names
  cells,     \* values of the cells created so far
  out,       \* what print was called with
  given,     \* outcomes of the comparisons so far
  pc         \* "run"; "exit": vm_exit was reached; "fatal": error() was called;
             \* "crash": a pointer was followed that leads nowhere

vars == <<program, frames, func, status, oparg, err, globals, cells, out, given, pc>>

Statuses == {"NONE", "EXCEPTION", "BREAK", "CONTINUE"}
BlockTypes == {"SETUP_LOOP", "SETUP_TRY", "SETUP_FINALLY"}

-----------------------------------------------------------------------------
(* Frames *)

CodeOf(f) == program.codes[f]

\* COFrame_New(). code: index of the function; args: values of its parameters
NewFrame(f, args) ==
  [code |-> f,
   lasti |-> 0,
   stack |-> <<>>,
   blocks |-> <<>>,
   locals |-> [n \in CodeOf(f).localnames |->
                 IF \E i \in DOMAIN args : CodeOf(f).args[i] = n
                 THEN args[CHOOSE i \in DOMAIN args : CodeOf(f).args[i] = n]
                 ELSE NULL]]

frame == frames[Len(frames)]
instr == CodeOf(frame.code).code[frame.lasti + 1]

\* The frame once NEXTOP() and NEXTARG() have moved on to the next instruction
fetched == [frame EXCEPT !.lasti = @ + 1]

TOP == frame.stack[Len(frame.stack)]
PEEK(n) == frame.stack[Len(frame.stack) - n + 1]

Pop(f, n) == [f EXCEPT !.stack = SubSeq(@, 1, Len(@) - n)]
Push(f, v) == [f EXCEPT !.stack = Append(@, v)]
JumpTo(f, i) == [f EXCEPT !.lasti = i]

SetFrame(f) == frames' = [frames EXCEPT ![Len(frames)] = f]

\* Mutant: no UNWIND_BLOCK
X_LeaveBlock(f) == [f EXCEPT !.blocks = SubSeq(@, 1, Len(@) - 1)]

\* COFrameBlock_Pop() and UNWIND_BLOCK
LeaveBlock(f) ==
  LET level == f.blocks[Len(f.blocks)].level
  IN [f EXCEPT !.blocks = SubSeq(@, 1, Len(@) - 1),
               !.stack = IF Len(@) > level THEN SubSeq(@, 1, level) ELSE @]

\* What an instruction takes from the stack and follows as a pointer
Operands ==
  CASE instr.op \in {"STORE_NAME", "JMPZ", "POP_TOP", "END_TRY", "END_FINALLY", "DUP_TOP",
                     "DECLARE_FUNCTION", "GET_ITER", "FOR_ITER", "STORE_UPVAL"} -> 1
    [] instr.op = "CMP" -> 2
    [] instr.op \in {"BUILD_TUPLE", "BUILD_LIST", "THROW"} -> instr.arg
    [] instr.op = "CALL_FUNCTION" -> instr.arg + 1
    [] instr.op = "RETURN" -> IF Len(frames) = 1 THEN 1 ELSE 0
    [] OTHER -> 0

Valid ==
  /\ \A n \in 1..Operands : PEEK(n) # NULL
  /\ instr.op = "LOAD_LOCAL" => frame.locals[instr.arg] # NULL
  /\ instr.op = "FOR_ITER" => Type(TOP) = "listiter"
  /\ instr.op = "DECLARE_FUNCTION" => Type(TOP) = "code"
  /\ instr.op \in {"LOAD_UPVAL", "STORE_UPVAL"} => instr.arg \in DOMAIN func[3]

Op(name) == pc = "run" /\ status = "NONE" /\ instr.op = name /\ Valid

\* What almost every instruction leaves alone
Keep == UNCHANGED <<program, func, oparg, cells, out, given, pc>>

\* An instruction that only changes the current frame to f
Becomes(f) == SetFrame(f) /\ Keep /\ UNCHANGED <<status, err, globals>>

\* An instruction that leaves frame f behind and fails with v
Raise(f, v) ==
  /\ SetFrame(f)
  /\ status' = "EXCEPTION"
  /\ err' = v
  /\ Keep /\ UNCHANGED globals

-----------------------------------------------------------------------------
(* Loading and storing *)

Store(f, n, v) == [m \in DOMAIN f \cup {n} |-> IF m = n THEN v ELSE f[m]]

\* COObject_get(): global variables, then builtins
Known(n) == n \in DOMAIN globals \cup DOMAIN Builtins
Get(n) == IF n \in DOMAIN globals THEN globals[n] ELSE Builtins[n]

NotDefined(n) == Str(n \o " is not defined")

LoadConst == Op("LOAD_CONST") /\ Becomes(Push(fetched, instr.arg))

LoadLocal == Op("LOAD_LOCAL") /\ Becomes(Push(fetched, frame.locals[instr.arg]))

LoadName ==
  /\ Op("LOAD_NAME")
  /\ IF Known(instr.arg) THEN Becomes(Push(fetched, Get(instr.arg)))
                         ELSE Raise(fetched, NotDefined(instr.arg))

\* `func` is the function called last, which need not be the one that runs.
LoadUpval == Op("LOAD_UPVAL") /\ Becomes(Push(fetched, cells[func[3][instr.arg]]))

StoreLocal ==
  /\ Op("STORE_LOCAL")
  /\ Becomes([Pop(fetched, 1) EXCEPT !.locals[instr.arg] = TOP])

StoreName ==
  /\ Op("STORE_NAME")
  /\ globals' = Store(globals, instr.arg, TOP)
  /\ SetFrame(Pop(fetched, 1))
  /\ Keep /\ UNCHANGED <<status, err>>

StoreUpval ==
  /\ Op("STORE_UPVAL")
  /\ cells' = [cells EXCEPT ![func[3][instr.arg]] = TOP]
  /\ SetFrame(Pop(fetched, 1))
  /\ UNCHANGED <<program, func, status, oparg, err, globals, out, given, pc>>

DupTop == Op("DUP_TOP") /\ Becomes(Push(fetched, TOP))
PopTop == Op("POP_TOP") /\ Becomes(Pop(fetched, 1))

Built(n) == SubSeq(frame.stack, Len(frame.stack) - n + 1, Len(frame.stack))
BuildTuple ==
  /\ Op("BUILD_TUPLE")
  /\ Becomes(Push(Pop(fetched, instr.arg), Tuple(Built(instr.arg))))
BuildList ==
  /\ Op("BUILD_LIST")
  /\ Becomes(Push(Pop(fetched, instr.arg), List(Built(instr.arg))))

-----------------------------------------------------------------------------
(* Comparing and jumping *)

\* What a comparison may yield: anything, and at last False
Outcomes == IF Len(given) < MaxChoices THEN BOOLEAN ELSE {FALSE}

Compare ==
  /\ Op("CMP") /\ instr.arg # "EXC_MATCH"
  /\ \E b \in Outcomes :
       /\ given' = Append(given, b)
       /\ SetFrame(Push(Pop(fetched, 2), Bool(b)))
  /\ UNCHANGED <<program, func, status, oparg, err, globals, cells, out, pc>>

\* COObject_CompareBool() for equality gives -1, which is not 0, and sets an error if
\* the types differ or cannot be compared.
Comparable(a, b) == a = b \/ (Type(a) = "str" /\ Type(b) = "str")

\* vm_cmp(Cmp_EXC_MATCH): the first name that does not compare as different decides.
ExcMatch ==
  /\ Op("CMP") /\ instr.arg = "EXC_MATCH"
  /\ LET names == TOP[2]
         v == PEEK(2)
         hits == {i \in DOMAIN names : names[i] = v \/ ~Comparable(names[i], v)}
         first == CHOOSE i \in hits : \A j \in hits : i <= j
     IN /\ SetFrame(Push(Pop(fetched, 2), Bool(hits # {})))
        /\ err' = IF hits # {} /\ ~Comparable(names[first], v)
                  THEN Str("undefined comparison") ELSE err
  /\ Keep /\ UNCHANGED <<status, globals>>

IsTrue(v) == v \notin {Bool(FALSE), None}

JmpZ ==
  /\ Op("JMPZ")
  /\ Becomes(IF IsTrue(TOP) THEN Pop(fetched, 1)
             ELSE JumpTo(Pop(fetched, 1), instr.arg))

JmpX == Op("JMPX") /\ Becomes(JumpTo(fetched, instr.arg))

GetIter ==
  /\ Op("GET_ITER")
  /\ IF Type(TOP) \in {"list", "listiter"}
     THEN Becomes(Push(Pop(fetched, 1), Iter(TOP[2])))
     ELSE /\ err' = Str("bad argument to internal function")
          /\ SetFrame(Push(Pop(fetched, 1), NULL))
          /\ Keep /\ UNCHANGED <<status, globals>>

ForIter ==
  /\ Op("FOR_ITER")
  /\ Becomes(IF TOP[2] = <<>>
             THEN JumpTo(Pop(fetched, 1), instr.arg)
             ELSE Push(Push(Pop(fetched, 1), Iter(Tail(TOP[2]))), Head(TOP[2])))

-----------------------------------------------------------------------------
(* Functions *)

\* A cell for each upvalue of the new function. A global of that name comes first,
\* then a local variable of the function that runs; else the cell is empty.
Captured(n) ==
  IF Known(n) THEN Get(n)
  ELSE IF n \in DOMAIN frame.locals THEN frame.locals[n] ELSE NULL

DeclareFunction ==
  /\ Op("DECLARE_FUNCTION")
  /\ LET names == CodeOf(TOP[2]).upvals
         f == Func(TOP[2], [i \in DOMAIN names |-> Len(cells) + i])
     IN /\ cells' = cells \o [i \in DOMAIN names |-> Captured(names[i])]
        /\ SetFrame(Push(Pop(fetched, 1), f))
  /\ UNCHANGED <<program, func, status, oparg, err, globals, out, given, pc>>

\* Arguments are below the function, the first one deepest.
Args == SubSeq(frame.stack, Len(frame.stack) - instr.arg, Len(frame.stack) - 1)
Called(name) == Op("CALL_FUNCTION") /\ Type(TOP) = name

CallPrint ==
  /\ Called("builtin")
  /\ out' = out \o Args
  /\ SetFrame(Push(Pop(fetched, instr.arg + 1), None))
  /\ UNCHANGED <<program, func, status, oparg, err, globals, cells, given, pc>>

\* The number of arguments is checked in the new frame, and only if there are any.
CallFunction ==
  /\ Called("function")
  /\ func' = TOP
  /\ LET n == Len(CodeOf(TOP[2]).args)
         wrong == instr.arg \notin {0, n}
         caller == Pop(fetched, instr.arg + 1)
     IN /\ frames' = Append([frames EXCEPT ![Len(frames)] = caller],
                            NewFrame(TOP[2], IF wrong THEN <<>> ELSE Args))
        /\ status' = IF wrong THEN "EXCEPTION" ELSE status
        /\ err' = IF wrong THEN Str("wrong number of arguments") ELSE err
  /\ UNCHANGED <<program, oparg, globals, cells, out, given, pc>>

\* COObject_Call() fails, but CALL_FUNCTION goes on with the null pointer it returns.
CallOther ==
  /\ Op("CALL_FUNCTION") /\ Type(TOP) \notin {"builtin", "function"}
  /\ err' = Str("object is not callable")
  /\ SetFrame(Push(Pop(fetched, instr.arg + 1), NULL))
  /\ Keep /\ UNCHANGED <<status, globals>>

Return ==
  /\ Op("RETURN")
  /\ LET back == SubSeq(frames, 1, Len(frames) - 1)
     IN IF back = <<>>
        THEN frames' = back /\ pc' = "exit"
        ELSE frames' = [back EXCEPT ![Len(back)] = Push(@, TOP)] /\ UNCHANGED pc
  /\ UNCHANGED <<program, func, status, oparg, err, globals, cells, out, given>>

-----------------------------------------------------------------------------
(* Blocks and exceptions *)

\* COFrameBlock_Setup()
SetupBlock ==
  \E type \in BlockTypes :
    /\ Op(type)
    /\ IF Len(frame.blocks) >= FRAME_MAXBLOCKS
       THEN pc' = "fatal" /\ UNCHANGED frames
       ELSE /\ SetFrame([fetched EXCEPT !.blocks = Append(@,
                 [type |-> type, handler |-> instr.arg, level |-> Len(frame.stack)])])
            /\ UNCHANGED pc
    /\ UNCHANGED <<program, func, status, oparg, err, globals, cells, out, given>>

\* Mutant: the block stays on the block stack.
X_PopBlock == Op("POP_BLOCK") /\ Becomes(fetched)

PopBlock ==
  /\ Op("POP_BLOCK")
  /\ IF frame.blocks = <<>>
     THEN pc' = "fatal" /\ UNCHANGED frames
     ELSE SetFrame(LeaveBlock(fetched)) /\ UNCHANGED pc
  /\ UNCHANGED <<program, func, status, oparg, err, globals, cells, out, given>>

BreakLoop ==
  /\ Op("BREAK_LOOP")
  /\ status' = "BREAK"
  /\ SetFrame(fetched)
  /\ Keep /\ UNCHANGED <<err, globals>>

ContinueLoop ==
  /\ Op("CONTINUE_LOOP")
  /\ status' = "CONTINUE" /\ oparg' = instr.arg
  /\ SetFrame(fetched)
  /\ UNCHANGED <<program, func, err, globals, cells, out, given, pc>>

Throw ==
  /\ Op("THROW")
  /\ IF instr.arg = 0 THEN Raise(fetched, None) ELSE Raise(Pop(fetched, 1), TOP)

\* COStr_AsString() reads whatever bytes an object that is no string has there.
Message(v) == IF Type(v) = "str" THEN v ELSE Str("garbage")

\* Mutant: an exception that no handler matched is forgotten.
X_EndTry == Op("END_TRY") /\ Becomes(Pop(fetched, 1))

EndTry == Op("END_TRY") /\ Raise(Pop(fetched, 1), Message(TOP))

EndFinally ==
  /\ Op("END_FINALLY")
  /\ IF TOP = None THEN Becomes(Pop(fetched, 1)) ELSE Raise(Pop(fetched, 1), Message(TOP))

\* One turn of the loop at fast_end. A loop that is continued keeps its block and its
\* stack; every other block is left, and a loop that is broken or a try that catches
\* ends the search. What is left without a block ends the program.
Unwind ==
  /\ pc = "run" /\ status # "NONE" /\ frame.blocks # <<>>
  /\ LET block == frame.blocks[Len(frame.blocks)]
         left == LeaveBlock(frame)
     IN CASE block.type = "SETUP_LOOP" /\ status = "CONTINUE" ->
               SetFrame(JumpTo(frame, oparg)) /\ status' = "NONE" /\ UNCHANGED err
          [] block.type = "SETUP_LOOP" /\ status = "BREAK" ->
               SetFrame(JumpTo(left, block.handler)) /\ status' = "NONE" /\ UNCHANGED err
          [] block.type = "SETUP_TRY" /\ status = "EXCEPTION" ->
               /\ SetFrame(JumpTo(Push(left, err), block.handler))
               /\ status' = "NONE" /\ err' = NULL
          [] OTHER -> SetFrame(left) /\ UNCHANGED <<status, err>>
  /\ Keep /\ UNCHANGED globals

Leave ==
  /\ pc = "run" /\ status # "NONE" /\ frame.blocks = <<>>
  /\ frames' = <<>> /\ pc' = "exit"
  /\ UNCHANGED <<program, func, status, oparg, err, globals, cells, out, given>>

Crash ==
  /\ pc = "run" /\ status = "NONE" /\ ~Valid
  /\ pc' = "crash"
  /\ UNCHANGED <<program, frames, func, status, oparg, err, globals, cells, out, given>>

-----------------------------------------------------------------------------
Init ==
  /\ \E p \in DOMAIN Codes : program = [index |-> p, codes |-> Codes[p]]
  /\ frames = <<NewFrame(1, <<>>)>>
  /\ func = Func(1, <<>>)
  /\ status = "NONE" /\ oparg = 0 /\ err = NULL
  /\ globals = <<>> /\ cells = <<>> /\ out = <<>> /\ given = <<>>
  /\ pc = "run"

Next ==
  \/ LoadConst \/ LoadLocal \/ LoadName \/ LoadUpval
  \/ StoreLocal \/ StoreName \/ StoreUpval
  \/ DupTop \/ PopTop \/ BuildTuple \/ BuildList
  \/ Compare \/ ExcMatch \/ JmpZ \/ JmpX \/ GetIter \/ ForIter
  \/ DeclareFunction \/ CallPrint \/ CallFunction \/ CallOther \/ Return
  \/ SetupBlock \/ PopBlock \/ BreakLoop \/ ContinueLoop
  \/ Throw \/ EndTry \/ EndFinally \/ Unwind \/ Leave \/ Crash

Spec == Init /\ [][Next]_vars
FairSpec == Spec /\ WF_vars(Next)
=============================================================================
