----------------------------- MODULE Components -----------------------------
(***************************************************************************)
(* The parts that a program or the compiler uses on their own, side by     *)
(* side: modules Ints, Ranges, Marshal, Arena and Assembler.  Each has its *)
(* own state; a behaviour is one of one of them.                           *)
(***************************************************************************)
EXTENDS Ints

CONSTANTS
    BITS, Given,                                    \* of module Ranges
    Graphs, SLOTS, MORE, BIG,                       \* of module Marshal
    ALIGNMENT, DEFAULT_BLOCK_SIZE, Sizes, Constants, MaxPieces, MaxRefs,    \* of module Arena
    DEFAULT_INSTR_SIZE, DEFAULT_BYTECODE_SIZE, SIZEOF, Args, NONE, MaxInstrs    \* of Assembler

VARIABLES rArgs, rPc, rAlive, rRefs, rIt, rItems, rError

rVars == <<rArgs, rPc, rAlive, rRefs, rIt, rItems, rError>>

R == INSTANCE Ranges WITH
        args <- rArgs, pc <- rPc, alive <- rAlive, refs <- rRefs, it <- rIt,
        items <- rItems, error <- rError

RangeExact  == R!RangeExact
RefsCounted == R!RefsCounted

VARIABLES mGraph, mTodo, mOut, mOffset, mStr, mObjects, mAt, mHeap, mStack, mRs, mPc

mVars == <<mGraph, mTodo, mOut, mOffset, mStr, mObjects, mAt, mHeap, mStack, mRs, mPc>>

M == INSTANCE Marshal WITH
        MASK <- SLOTS - 1,
        graph <- mGraph, todo <- mTodo, out <- mOut, offset <- mOffset, str <- mStr,
        objects <- mObjects, at <- mAt, heap <- mHeap, stack <- mStack, rs <- mRs, pc <- mPc

RoundTrip == M!RoundTrip
Resolves  == M!Resolves
BytesFit  == M!BytesFit

VARIABLES aMemory, aHead, aCur, aPieces, aObjects, aKept, aRefs

aVars == <<aMemory, aHead, aCur, aPieces, aObjects, aKept, aRefs>>

A == INSTANCE Arena WITH
        Objects <- Constants, memory <- aMemory, head <- aHead, cur <- aCur,
        pieces <- aPieces, objects <- aObjects, kept <- aKept, refs <- aRefs

PiecesApart    == A!PiecesApart
AllFreed       == A!AllFreed
ObjectsCounted == A!ObjectsCounted

VARIABLES cInstrs, cAlloc, cCleared, cBytes, cOffset, cNext, cPc

cVars == <<cInstrs, cAlloc, cCleared, cBytes, cOffset, cNext, cPc>>

C == INSTANCE Assembler WITH
        instrs <- cInstrs, ialloc <- cAlloc, cleared <- cCleared, bytes <- cBytes,
        offset <- cOffset, next <- cNext, pc <- cPc

CodeExact    == C!CodeExact
GrowsInPlace == C!GrowsInPlace

-----------------------------------------------------------------------------

NoInts    == pc = "idle" /\ UNCHANGED vars
NoRange   == rPc = "new" /\ UNCHANGED rVars
NoMarshal == mPc = "idle" /\ UNCHANGED mVars
NoArena   == aHead = 0 /\ aKept = [o \in Constants |-> 0] /\ UNCHANGED aVars
NoCode    == cInstrs = <<>> /\ cPc = "visit" /\ UNCHANGED cVars

allVars == <<vars, rVars, mVars, aVars, cVars>>

Start == Init /\ R!Init /\ M!Init /\ A!Init /\ C!Init

IntsStep    == NoRange /\ NoMarshal /\ NoArena /\ NoCode /\ Next
RangeStep   == NoInts /\ NoMarshal /\ NoArena /\ NoCode /\ R!Next
MarshalStep == NoInts /\ NoRange /\ NoArena /\ NoCode /\ M!Next
ArenaStep   == NoInts /\ NoRange /\ NoMarshal /\ NoCode /\ A!Next
CodeStep    == NoInts /\ NoRange /\ NoMarshal /\ NoArena /\ C!Next

Objects ==
    Start /\ [][IntsStep \/ RangeStep \/ MarshalStep \/ ArenaStep \/ CodeStep]_allVars

\* A program that only makes ranges, a compiler that compiles one function.
RangesOnly == Start /\ [][RangeStep]_allVars
CodeOnly   == Start /\ [][CodeStep]_allVars

=============================================================================
