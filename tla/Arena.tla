-------------------------------- MODULE Arena --------------------------------
(***************************************************************************)
(* arena.c: memory for the syntax tree of a program, passed out in pieces  *)
(* and freed at once, and the objects that live as long.                   *)
(*                                                                         *)
(* The blocks form a list from a_head, in the order of their allocation.   *)
(* malloc returns memory aligned for every type and the header of a block  *)
(* is a multiple of ALIGNMENT, so b_offset of a new block is 0.            *)
(***************************************************************************)
EXTENDS Integers, Sequences, FiniteSets

CONSTANTS
    ALIGNMENT,
    DEFAULT_BLOCK_SIZE,
    Sizes,      \* what is asked for: sizes of nodes, in bytes
    Objects,    \* constants and names of a program, some of which (small integers) occur twice
    MaxPieces,  \* bounds of an instance: nodes,
    MaxRefs     \* and references to an object

\* What an instance must satisfy.
ArenaAssumption ==
    /\ ALIGNMENT \in Nat \ {0}
    /\ DEFAULT_BLOCK_SIZE \in Nat /\ DEFAULT_BLOCK_SIZE % ALIGNMENT = 0
    /\ Sizes \subseteq Nat \ {0}
    /\ MaxPieces \in Nat /\ MaxRefs \in Nat

VARIABLES
    memory,     \* the blocks malloc has given: Seq([size, offset, next])
    head,       \* a_head, a position in memory, 0: there is no arena
    cur,        \* a_cur
    pieces,     \* what has been passed out and is in use
    objects,    \* a_objects
    kept,       \* of each object: the references of code objects
    refs        \* co_refcnt of each object

vars == <<memory, head, cur, pieces, objects, kept, refs>>

Init ==
    /\ memory = <<>>
    /\ head = 0
    /\ cur = 0
    /\ pieces = {}
    /\ objects = <<>>
    /\ kept = [o \in Objects |-> 0]
    /\ refs = [o \in Objects |-> 0]

ROUNDUP(x) == ((x + ALIGNMENT - 1) \div ALIGNMENT) * ALIGNMENT

block_new(size) == [size |-> size, offset |-> 0, next |-> 0]

arena_new ==
    /\ head = 0
    /\ memory' = <<block_new(DEFAULT_BLOCK_SIZE)>>
    /\ head' = 1
    /\ cur' = 1
    /\ UNCHANGED <<pieces, objects, kept, refs>>

\* A block has room for size more bytes.
Fits(size) == memory[cur].offset + size <= memory[cur].size

Larger(a, b) == IF a < b THEN b ELSE a

Piece(b, from, size) == [block |-> b, from |-> from, to |-> from + size]

\* Mutant: a_cur stays at the block that was full.
arena_malloc_Stay(bytes) ==
    LET size == ROUNDUP(bytes)
        n    == Len(memory) + 1
    IN  /\ head # 0 /\ Cardinality(pieces) < MaxPieces
        /\ \/ /\ Fits(size)
              /\ memory' = [memory EXCEPT ![cur].offset = @ + size]
              /\ pieces' = pieces \cup {Piece(cur, memory[cur].offset, bytes)}
           \/ /\ ~Fits(size)
              /\ memory' = Append([memory EXCEPT ![cur].next = n],
                             [block_new(Larger(size, DEFAULT_BLOCK_SIZE)) EXCEPT !.offset = size])
              /\ pieces' = pieces \cup {Piece(n, 0, bytes)}
        /\ UNCHANGED <<head, cur, objects, kept, refs>>

\* Mutant: the size is rounded up after the test.
arena_malloc_Unrounded(bytes) ==
    LET size == ROUNDUP(bytes)
        n    == Len(memory) + 1
    IN  /\ head # 0 /\ Cardinality(pieces) < MaxPieces
        /\ \/ /\ Fits(bytes)
              /\ memory' = [memory EXCEPT ![cur].offset = @ + bytes]
              /\ pieces' = pieces \cup {Piece(cur, memory[cur].offset, bytes)}
              /\ UNCHANGED cur
           \/ /\ ~Fits(bytes)
              /\ memory' = Append([memory EXCEPT ![cur].next = n],
                             [block_new(Larger(size, DEFAULT_BLOCK_SIZE)) EXCEPT !.offset = size])
              /\ pieces' = pieces \cup {Piece(n, 0, bytes)}
              /\ cur' = n
        /\ UNCHANGED <<head, objects, kept, refs>>

\* With block_alloc: from the current block, or from a new one, of the default size or of
\* exactly the size that is asked for.  What is left in the old block is not used again.
arena_malloc(bytes) ==
    LET size == ROUNDUP(bytes)
        n    == Len(memory) + 1
    IN  /\ head # 0 /\ Cardinality(pieces) < MaxPieces
        /\ \/ /\ Fits(size)
              /\ memory' = [memory EXCEPT ![cur].offset = @ + size]
              /\ pieces' = pieces \cup {Piece(cur, memory[cur].offset, bytes)}
              /\ UNCHANGED cur
           \/ /\ ~Fits(size)
              /\ memory' = Append([memory EXCEPT ![cur].next = n],
                             [block_new(Larger(size, DEFAULT_BLOCK_SIZE)) EXCEPT !.offset = size])
              /\ pieces' = pieces \cup {Piece(n, 0, bytes)}
              /\ cur' = n
        /\ UNCHANGED <<head, objects, kept, refs>>

\* Mutant: the scanner's reference is not given up.
arena_addobject_Keep(o) ==
    /\ head # 0 /\ refs[o] < MaxRefs
    /\ objects' = Append(objects, o)
    /\ refs' = [refs EXCEPT ![o] = @ + 1 + 1]
    /\ UNCHANGED <<memory, head, cur, pieces, kept>>

\* The scanner makes an object, or takes a small integer once more, and hands its reference
\* over: COList_Append counts one of its own, and the first is given up.
arena_addobject(o) ==
    /\ head # 0 /\ refs[o] < MaxRefs
    /\ objects' = Append(objects, o)
    /\ refs' = [refs EXCEPT ![o] = @ + 1 + 1 - 1]
    /\ UNCHANGED <<memory, head, cur, pieces, kept>>

Times(o) == Cardinality({i \in DOMAIN objects : objects[i] = o})

\* The compiler makes it a constant or a name of a code object.
compiler_add(o) ==
    /\ head # 0 /\ Times(o) > 0 /\ refs[o] < MaxRefs
    /\ kept' = [kept EXCEPT ![o] = @ + 1]
    /\ refs' = [refs EXCEPT ![o] = @ + 1]
    /\ UNCHANGED <<memory, head, cur, pieces, objects>>

\* A code object goes, before the arena or after it.
Drop(o) ==
    /\ kept[o] > 0
    /\ kept' = [kept EXCEPT ![o] = @ - 1]
    /\ refs' = [refs EXCEPT ![o] = @ - 1]
    /\ UNCHANGED <<memory, head, cur, pieces, objects>>

\* The blocks that block_free visits: b and what follows it.
Linked(b) ==
    {n \in DOMAIN memory :
        \A S \in SUBSET DOMAIN memory :
            b \in S /\ (\A m \in S : memory[m].next \in S \cup {0}) => n \in S}

\* block_free, and the list of objects is released (Lists!Dealloc).
arena_free ==
    /\ head # 0
    /\ memory' = <<>>
    /\ head' = 0
    /\ cur' = 0
    /\ pieces' = {}
    /\ refs' = [o \in Objects |-> refs[o] - Times(o)]
    /\ objects' = <<>>
    /\ UNCHANGED kept

Next ==
    \/ arena_new \/ arena_free
    \/ \E size \in Sizes : arena_malloc(size)
    \/ \E o \in Objects : arena_addobject(o) \/ compiler_add(o) \/ Drop(o)

Spec == Init /\ [][Next]_vars

-----------------------------------------------------------------------------
(* Properties *)

\* Two nodes of a syntax tree never share a byte, each starts at a multiple of ALIGNMENT
\* and lies inside its block (block_alloc).
PiecesApart ==
    \A x \in pieces :
        /\ x.from % ALIGNMENT = 0 /\ x.to <= memory[x.block].size
        /\ \A y \in pieces : x.block = y.block /\ x # y => x.to <= y.from \/ y.to <= x.from

\* arena_free reaches every block, whatever sizes were asked for: the current block is the
\* last of the list, so that its b_next is never overwritten (arena_malloc, block_free).
AllFreed ==
    head # 0 => /\ Linked(head) = DOMAIN memory
                /\ memory[cur].next = 0

\* An object lives as long as the tree or a code object needs it and no longer, also one
\* that occurs twice (arena_addobject: "Don't increment ref count").
ObjectsCounted == \A o \in Objects : refs[o] = Times(o) + kept[o]

=============================================================================
