------------------------------ MODULE Assembler ------------------------------
(***************************************************************************)
(* The two arrays that grow while a function is compiled (compile.c): the  *)
(* instructions of a block, which the visitor appends, and the bytecode of *)
(* the function, which the assembler makes of them.  There is one block;   *)
(* module Compiler says which instructions there are, in which blocks.     *)
(*   pc = "visit"     instructions are appended                            *)
(*        "assemble"  they are turned into bytecode                        *)
(*        "done"                                                           *)
(*        "corrupt"   memory behind the array has been written             *)
(***************************************************************************)
EXTENDS Integers, Sequences, SequencesExt

CONSTANTS
    DEFAULT_INSTR_SIZE,
    DEFAULT_BYTECODE_SIZE,
    SIZEOF,         \* sizeof(struct instr)
    Args,           \* arguments of instructions
    NONE,           \* an instruction without argument
    MaxInstrs       \* bound of an instance

\* What an instance must satisfy.
AssemblerAssumption ==
    /\ DEFAULT_INSTR_SIZE \in Nat \ {0} /\ DEFAULT_BYTECODE_SIZE \in Nat \ 0..3
    /\ SIZEOF \in Nat \ {0, 1}
    /\ Args \subseteq Nat /\ MaxInstrs \in Nat

VARIABLES
    instrs,     \* b_instr[0 .. b_iused - 1]: arguments or NONE
    ialloc,     \* b_ialloc
    cleared,    \* the first and last byte, counted from b_instr, that the last memset cleared
    bytes,      \* a_bytecode
    offset,     \* a_offset
    next,       \* the next instruction to assemble
    pc

vars == <<instrs, ialloc, cleared, bytes, offset, next, pc>>

\* What malloc and realloc leave; no byte that is written is that.
JUNK == -1

Fresh(n) == [i \in 1..n |-> JUNK]

Init ==
    /\ instrs = <<>>
    /\ ialloc = 0
    /\ cleared = <<0, -1>>
    /\ bytes = Fresh(DEFAULT_BYTECODE_SIZE)
    /\ offset = 0
    /\ next = 1
    /\ pc = "visit"

\* compiler_next_instr.  oldsize counts bytes, and the pointer it is added to is one to
\* instructions: what is cleared begins SIZEOF times too far.
Grow ==
    IF ialloc = 0
    THEN ialloc' = DEFAULT_INSTR_SIZE /\ cleared' = <<0, DEFAULT_INSTR_SIZE * SIZEOF - 1>>
    ELSE IF Len(instrs) = ialloc
    THEN LET oldsize == ialloc * SIZEOF
         IN  /\ ialloc' = 2 * ialloc
             /\ cleared' = <<oldsize * SIZEOF, oldsize * SIZEOF + oldsize - 1>>
    ELSE UNCHANGED <<ialloc, cleared>>

\* compiler_addop, compiler_addop_i
Emit(arg) ==
    /\ pc = "visit" /\ Len(instrs) < MaxInstrs
    /\ Grow
    /\ instrs' = Append(instrs, arg)
    /\ pc' = IF cleared'[2] < ialloc' * SIZEOF THEN pc ELSE "corrupt"
    /\ UNCHANGED <<bytes, offset, next>>

assemble ==
    /\ pc = "visit"
    /\ pc' = "assemble"
    /\ UNCHANGED <<instrs, ialloc, cleared, bytes, offset, next>>

\* instrsize, and the bytes of an instruction.  All that is told apart of an opcode is whether
\* it has an argument.
Encoded(arg) == IF arg = NONE THEN <<0>> ELSE <<1, arg % 256, (arg \div 256) % 256>>

\* Mutant: the bytecode grows only when it is full.
Resized_Late(size) ==
    IF offset >= Len(bytes) THEN bytes \o Fresh(Len(bytes)) ELSE bytes

\* COBytes_Resize to twice the length
Resized(size) ==
    IF offset + size >= Len(bytes) THEN bytes \o Fresh(Len(bytes)) ELSE bytes

assembler_emit ==
    /\ pc = "assemble" /\ next <= Len(instrs)
    /\ LET code == Encoded(instrs[next])
       IN  /\ bytes' = [i \in DOMAIN Resized(Len(code)) |->
                            IF i \in offset + 1 .. offset + Len(code) THEN code[i - offset]
                            ELSE Resized(Len(code))[i]]
           /\ offset' = offset + Len(code)
    /\ next' = next + 1
    /\ UNCHANGED <<instrs, ialloc, cleared, pc>>

makecode ==
    /\ pc = "assemble" /\ next > Len(instrs)
    /\ bytes' = SubSeq(bytes, 1, offset)
    /\ pc' = "done"
    /\ UNCHANGED <<instrs, ialloc, cleared, offset, next>>

Next == (\E arg \in Args \cup {NONE} : Emit(arg)) \/ assemble \/ assembler_emit \/ makecode

Spec == Init /\ [][Next]_vars

-----------------------------------------------------------------------------
(* Properties *)

\* What the machine fetches (NEXTOP, NEXTARG).
Fetched ==
    LET from[at \in 1..Len(bytes) + 1] ==
            IF at = Len(bytes) + 1 THEN <<>>
            ELSE IF bytes[at] = 0 \/ at + 2 > Len(bytes) THEN <<NONE>> \o from[at + 1]
            ELSE <<bytes[at + 1] + 256 * bytes[at + 2]>> \o from[at + 3]
    IN  from[1]

\* The bytecode is written inside its bytes, and the machine fetches the instructions that
\* were compiled, each with its argument, however often the bytecode was moved;
\* an argument above 16 bits loses what is above.
\* (assembler_emit, COBytes_Resize)
CodeExact ==
    /\ offset <= Len(bytes)
    /\ pc = "done" => /\ \A i \in DOMAIN bytes : bytes[i] # JUNK
                      /\ Fetched = [i \in DOMAIN instrs |->
                            IF instrs[i] = NONE THEN NONE ELSE instrs[i] % 65536]

\* "Get next instruction. Resizes instruction array as necessary." (compile.c:240-241):
\* growing the array touches nothing but the array.
GrowsInPlace == pc # "corrupt"

=============================================================================
