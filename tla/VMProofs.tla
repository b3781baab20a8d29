------------------------------ MODULE VMProofs ------------------------------
(******************************************************************************)
(* Proofs about the machine of module VM, whatever the program and the number *)
(* of frames: when it runs structured code, the blocks of every frame are     *)
(* those of the statements its next instruction is in, and the stack of a     *)
(* function without try statements stays within its memory.                   *)
(*                                                                            *)
(* Why: each frame is at an address whose statements are its blocks, with at  *)
(* least as many values above their levels as the code is sure to find there  *)
(* (Running), and at most as many as it has room for (Measured); one that     *)
(* waits for a call will be there when it has the result (Waiting); one that  *)
(* leaves blocks has those of some address (Unwinding).  That a call leads to *)
(* code at all follows from what the values of the program are made of        *)
(* (Universe).                                                                *)
(******************************************************************************)
EXTENDS Structure, SequenceTheorems, FiniteSetTheorems, TLAPS

(* Values *)

Atoms == {NULL, None, Printer, Bool(TRUE), Bool(FALSE)}

\* n: number of functions of the program, m: number of cells
MadeOf(v, T, n, m) ==
    /\ Type(v) = "function" => v[2] \in 1..n /\ v[3] \in Seq(1..m)
    /\ Type(v) = "code" => v[2] \in 1..n
    /\ Type(v) \in {"tuple", "list", "listiter"} => v[2] \in Seq(T)

Universe(T, n, m) == Atoms \subseteq T /\ \A v \in T : MadeOf(v, T, n, m)

(* Frames *)

Block == [type : BlockTypes, handler : Nat, level : Nat]

Rec(a, l, s, b, lo) == [code |-> a, lasti |-> l, stack |-> s, blocks |-> b, locals |-> lo]

Frame(codes, T) ==
    UNION {[code : {a}, lasti : Nat, stack : Seq(T), blocks : Seq(Block),
            locals : [codes[a].localnames -> T]] : a \in 1..Len(codes)}

(* A frame and the code c it runs *)

Addr(c) == 0..Len(c.code) - 1
H(c, i) == Heights(c.code)[i + 1]
D(c, i) == Depths(c.code)[i + 1]
E(c, i) == Enclosing(c.code, i)

\* What is known of the most values on its stack
Measured(c) == WithoutTry(c) /\ DeepEnough(c)

\* Where it may go on, in the same statements, with d values for those it took
Follows(c, i, j, d) ==
    LET t == Takes(c.code[i + 1])
    IN /\ Goes(j, E(c, i), H(c, i) - t + d) \in Successors(c.code, Heights(c.code), i, 0)
       /\ Measured(c) =>
            Goes(j, E(c, i), D(c, i) - t + d) \in Successors(c.code, Depths(c.code), i, D(c, i))

\* At height m there are n values above the level of each block.
Above(blocks, n, m) == n <= m /\ \A j \in 1..Len(blocks) : blocks[j].level + n <= m

\* The blocks are those of the statements `at'.
Inside(c, at, blocks) ==
    /\ Len(blocks) = Len(at)
    /\ \A k \in 1..Len(at) :
         /\ blocks[k].type = c.code[at[k] + 1].op
         /\ blocks[k].handler = c.code[at[k] + 1].arg
         /\ H(c, at[k]) <= blocks[k].level
         /\ \A j \in 1..k - 1 : blocks[j].level + H(c, at[k]) <= blocks[k].level
         /\ Measured(c) => blocks[k].level <= D(c, at[k])

Running(c, f) ==
    /\ f.lasti \in Addr(c)
    /\ Inside(c, E(c, f.lasti), f.blocks)
    /\ Above(f.blocks, H(c, f.lasti), Len(f.stack))
    /\ Measured(c) => Len(f.stack) <= D(c, f.lasti)

Waiting(c, f) ==
    /\ f.lasti \in Addr(c)
    /\ Inside(c, E(c, f.lasti), f.blocks)
    /\ Above(f.blocks, H(c, f.lasti), Len(f.stack) + 1)
    /\ Above(f.blocks, 0, Len(f.stack))
    /\ Measured(c) => Len(f.stack) + 1 <= D(c, f.lasti)

\* s, a: status and oparg
Unwinding(c, f, s, a) ==
    \E i \in Addr(c) :
        /\ Inside(c, E(c, i), f.blocks)
        /\ Above(f.blocks, 0, Len(f.stack))
        /\ Measured(c) => Len(f.stack) <= c.stacksize
        /\ s = "CONTINUE" =>
             /\ f.blocks # <<>> /\ f.blocks[Len(f.blocks)].type = "SETUP_LOOP"
             /\ a \in Addr(c) /\ E(c, a) = E(c, i)
             /\ Above(f.blocks, H(c, a), Len(f.stack))
             /\ Measured(c) => Len(f.stack) <= D(c, a)

(* The inductive invariant, for structured code *)

Surroundings(T) ==
    /\ Universe(T, Len(program.codes), Len(cells))
    /\ func \in T /\ Type(func) = "function"
    /\ err \in T
    /\ \A x \in DOMAIN globals : globals[x] \in T
    /\ cells \in Seq(T)

Placed(f) == IF status = "NONE" THEN Running(CodeOf(f.code), f)
                                ELSE Unwinding(CodeOf(f.code), f, status, oparg)

Inv(T) ==
    /\ Surroundings(T)
    /\ frames \in Seq(Frame(program.codes, T))
    /\ pc = "run" => frames # <<>>
    /\ \A k \in 1..Len(frames) - 1 : Waiting(CodeOf(frames[k].code), frames[k])
    /\ frames # <<>> => Placed(frame)

IInv == Structured(program.codes) => \E T : Inv(T)

-----------------------------------------------------------------------------
(* Values *)

LEMMA Grow ==
    ASSUME NEW T, NEW n, NEW m, NEW v, Universe(T, n, m), MadeOf(v, T, n, m)
    PROVE  Universe(T \cup {v}, n, m)
<1>1. ASSUME NEW s \in Seq(T)
      PROVE  s \in Seq(T \cup {v})
    BY SeqMonotonic
<1> QED
    BY <1>1 DEF Universe, MadeOf

LEMMA MoreCells ==
    ASSUME NEW T, NEW n, NEW m \in Nat, NEW k \in Nat, m <= k, Universe(T, n, m)
    PROVE  Universe(T, n, k)
<1>1. ASSUME NEW s \in Seq(1..m)
      PROVE  s \in Seq(1..k)
  <2>1. 1..m \subseteq 1..k
      OBVIOUS
  <2> QED
      BY <2>1, SeqMonotonic
<1> QED
    BY <1>1 DEF Universe, MadeOf

\* What has no parts can be added.
LEMMA Simple ==
    ASSUME NEW T, NEW n, NEW m, NEW v,
           Type(v) \notin {"function", "code", "tuple", "list", "listiter"}
    PROVE  MadeOf(v, T, n, m)
BY DEF MadeOf

LEMMA StrIs == \A x : Type(Str(x)) = "str"
BY DEF Str, Type

LEMMA AtomsAreValues ==
    ASSUME NEW T, NEW n, NEW m, Universe(T, n, m)
    PROVE  NULL \in T /\ None \in T /\ Printer \in T /\ \A b \in BOOLEAN : Bool(b) \in T
BY DEF Universe, Atoms

-----------------------------------------------------------------------------
(* Sequences *)

LEMMA Prefix ==
    ASSUME NEW S, NEW s \in Seq(S), NEW k \in 0..Len(s)
    PROVE  /\ SubSeq(s, 1, k) \in Seq(S)
           /\ Len(SubSeq(s, 1, k)) = k
           /\ \A j \in 1..k : SubSeq(s, 1, k)[j] = s[j]
<1>1. Len(s) \in Nat /\ k \in Int /\ \A j \in 1..k : s[j] \in S
    OBVIOUS
<1>2. /\ SubSeq(s, 1, k) \in Seq(S)
      /\ Len(SubSeq(s, 1, k)) = IF 1 <= k THEN k - 1 + 1 ELSE 0
      /\ \A j \in 1..k - 1 + 1 : SubSeq(s, 1, k)[j] = s[1 + j - 1]
    BY <1>1, SubSeqProperties
<1>3. ASSUME NEW j \in 1..k
      PROVE  SubSeq(s, 1, k)[j] = s[j]
  <2>1. j \in 1..k - 1 + 1 /\ 1 + j - 1 = j
      BY <1>1
  <2> QED
      BY <1>2, <2>1
<1> QED
    BY <1>1, <1>2, <1>3

LEMMA Added ==
    ASSUME NEW S, NEW s \in Seq(S), NEW x \in S
    PROVE  /\ Append(s, x) \in Seq(S)
           /\ Len(Append(s, x)) = Len(s) + 1
           /\ Append(s, x)[Len(s) + 1] = x
           /\ \A j \in 1..Len(s) : Append(s, x)[j] = s[j]
BY AppendProperties

-----------------------------------------------------------------------------
(* Frames *)

LEMMA FrameIs ==
    ASSUME NEW codes, NEW T, NEW f \in Frame(codes, T)
    PROVE  /\ f = Rec(f.code, f.lasti, f.stack, f.blocks, f.locals)
           /\ f.code \in 1..Len(codes)
           /\ f.lasti \in Nat
           /\ f.stack \in Seq(T)
           /\ f.blocks \in Seq(Block)
           /\ f.locals \in [codes[f.code].localnames -> T]
BY DEF Frame, Rec

LEMMA IsFrame ==
    ASSUME NEW codes, NEW T, NEW a \in 1..Len(codes), NEW l \in Nat, NEW s \in Seq(T),
           NEW b \in Seq(Block), NEW lo \in [codes[a].localnames -> T]
    PROVE  /\ Rec(a, l, s, b, lo) \in Frame(codes, T)
           /\ Rec(a, l, s, b, lo).code = a
           /\ Rec(a, l, s, b, lo).lasti = l
           /\ Rec(a, l, s, b, lo).stack = s
           /\ Rec(a, l, s, b, lo).blocks = b
           /\ Rec(a, l, s, b, lo).locals = lo
BY DEF Frame, Rec

LEMMA FramesGrow ==
    ASSUME NEW codes, NEW T, NEW T2, T \subseteq T2
    PROVE  /\ Frame(codes, T) \subseteq Frame(codes, T2)
           /\ Seq(Frame(codes, T)) \subseteq Seq(Frame(codes, T2))
           /\ Seq(T) \subseteq Seq(T2)
<1>1. \A s \in Seq(T) : s \in Seq(T2)
    BY SeqMonotonic
<1>2. ASSUME NEW f \in Frame(codes, T)
      PROVE  f \in Frame(codes, T2)
    BY <1>1, FrameIs, IsFrame
<1>3. \A s \in Seq(Frame(codes, T)) : s \in Seq(Frame(codes, T2))
    BY <1>2, SeqMonotonic
<1> QED
    BY <1>1, <1>2, <1>3

\* What the operations on frames do
LEMMA FrameOps ==
    ASSUME NEW a, NEW l, NEW s, NEW b, NEW lo
    PROVE  /\ \A n : Pop(Rec(a, l, s, b, lo), n) = Rec(a, l, SubSeq(s, 1, Len(s) - n), b, lo)
           /\ \A v : Push(Rec(a, l, s, b, lo), v) = Rec(a, l, Append(s, v), b, lo)
           /\ \A i : JumpTo(Rec(a, l, s, b, lo), i) = Rec(a, i, s, b, lo)
<1>1. ASSUME NEW n
      PROVE  Pop(Rec(a, l, s, b, lo), n) = Rec(a, l, SubSeq(s, 1, Len(s) - n), b, lo)
  <2>1. Rec(a, l, s, b, lo).stack = s
      BY DEF Rec
  <2>2. \A e : [Rec(a, l, s, b, lo) EXCEPT !.stack = e] = Rec(a, l, e, b, lo)
      BY DEF Rec
  <2> QED
      BY <2>1, <2>2 DEF Pop
<1>2. \A v : Push(Rec(a, l, s, b, lo), v) = Rec(a, l, Append(s, v), b, lo)
    BY DEF Push, Rec
<1>3. \A i : JumpTo(Rec(a, l, s, b, lo), i) = Rec(a, i, s, b, lo)
    BY DEF JumpTo, Rec
<1> QED
    BY <1>1, <1>2, <1>3

LEMMA SetLocal ==
    ASSUME NEW f, NEW a, NEW l, NEW s, NEW b, NEW lo, NEW x, NEW v, f = Rec(a, l, s, b, lo)
    PROVE  [f EXCEPT !.locals[x] = v] = Rec(a, l, s, b, [lo EXCEPT ![x] = v])
BY DEF Rec

LEMMA Fetched ==
    ASSUME NEW codes, NEW T, frame \in Frame(codes, T)
    PROVE  fetched = Rec(frame.code, frame.lasti + 1, frame.stack, frame.blocks, frame.locals)
BY FrameIs DEF fetched, Rec

-----------------------------------------------------------------------------
(* Structured code *)

\* Every address of structured code is what WellPlaced and WellFormed say.
LEMMA CodeFacts ==
    ASSUME NEW c, NEW n, StructuredCode(c, n)
    PROVE  /\ 0 \in Addr(c) /\ H(c, 0) = 0 /\ E(c, 0) = <<>>
           /\ \A i \in Addr(c) :
                /\ WellPlaced(c, Heights(c.code), i) /\ WellFormed(c, n, c.code[i + 1])
                /\ i \in Nat /\ H(c, i) \in Nat
                /\ Takes(c.code[i + 1]) \in 0..H(c, i)
                /\ E(c, i) \in Seq(Addr(c))
<1>1. 0 \in Addr(c) /\ H(c, 0) = 0 /\ E(c, 0) = <<>>
    BY DEF StructuredCode, Addr, H, E
<1>2. ASSUME NEW i \in Addr(c)
      PROVE  WellPlaced(c, Heights(c.code), i) /\ WellFormed(c, n, c.code[i + 1])
    BY DEF StructuredCode, Addr
<1>3. ASSUME NEW i \in Addr(c)
      PROVE  /\ i \in Nat /\ H(c, i) \in Nat
             /\ Takes(c.code[i + 1]) \in 0..H(c, i)
             /\ E(c, i) \in Seq(Addr(c))
    BY <1>2 DEF WellPlaced, Addr, H, E
<1> QED
    BY <1>1, <1>2, <1>3

\* Where the machine may go on, the code asks for what is there.
LEMMA Follow ==
    ASSUME NEW c, NEW n, StructuredCode(c, n), NEW i \in Addr(c), NEW j, NEW at, NEW h,
           Goes(j, at, h) \in Successors(c.code, Heights(c.code), i, 0)
    PROVE  j \in Addr(c) /\ E(c, j) = at /\ H(c, j) <= h
<1>1. WellPlaced(c, Heights(c.code), i)
    BY CodeFacts
<1>2. \A s \in Successors(c.code, Heights(c.code), i, 0) :
        s.to \in Addr(c) /\ s.at = E(c, s.to) /\ H(c, s.to) <= s.height
    BY <1>1 DEF WellPlaced, Addr, E, H
<1>3. Goes(j, at, h).to = j /\ Goes(j, at, h).at = at /\ Goes(j, at, h).height = h
    BY DEF Goes
<1> QED
    BY <1>2, <1>3

\* The depths of code whose stack has room
LEMMA DepthFacts ==
    ASSUME NEW c, Measured(c), NEW i \in Addr(c)
    PROVE  /\ c.stacksize \in Int /\ D(c, i) \in Nat /\ D(c, i) <= c.stacksize
           /\ \A j, at, h :
                Goes(j, at, h) \in Successors(c.code, Depths(c.code), i, D(c, i)) => h <= D(c, j)
<1>1. c.stacksize \in Nat /\ D(c, i) \in 0..c.stacksize
    BY DEF Measured, DeepEnough, Addr, D
<1>2. \A s \in Successors(c.code, Depths(c.code), i, D(c, i)) : s.height <= D(c, s.to)
    BY DEF Measured, DeepEnough, Addr, D
<1>3. ASSUME NEW j, NEW at, NEW h,
             Goes(j, at, h) \in Successors(c.code, Depths(c.code), i, D(c, i))
      PROVE  h <= D(c, j)
  <2>1. Goes(j, at, h).to = j /\ Goes(j, at, h).height = h
      BY DEF Goes
  <2> QED
      BY <1>2, <1>3, <2>1
<1>4. D(c, i) \in Nat /\ D(c, i) <= c.stacksize /\ c.stacksize \in Int
    BY <1>1
<1> QED
    BY <1>3, <1>4

\* The statement that is innermost at i, the k-th, is itself in the k - 1 others.
LEMMA Outside ==
    ASSUME NEW c, NEW n, StructuredCode(c, n), NEW i \in Addr(c), NEW k \in 1..Len(E(c, i))
    PROVE  LET j == E(c, i)[k]
           IN /\ j \in Addr(c)
              /\ c.code[j + 1].op \in {"SETUP_LOOP", "SETUP_TRY"}
              /\ E(c, j) = SubSeq(E(c, i), 1, k - 1)
<1>1. WellPlaced(c, Heights(c.code), i) /\ E(c, i) \in Seq(Addr(c))
    BY CodeFacts
<1>2. k \in DOMAIN E(c, i) /\ E(c, i)[k] \in Addr(c)
    BY <1>1
<1> QED
    BY <1>1, <1>2 DEF WellPlaced, E

-----------------------------------------------------------------------------
(* Blocks and heights *)

LEMMA Levels ==
    ASSUME NEW blocks \in Seq(Block)
    PROVE  /\ Len(blocks) \in Nat
           /\ \A k \in 1..Len(blocks) : blocks[k] \in Block /\ blocks[k].level \in Nat
<1>1. Len(blocks) \in Nat /\ \A k \in 1..Len(blocks) : blocks[k] \in Block
    OBVIOUS
<1> QED
    BY <1>1 DEF Block

LEMMA AboveShifts ==
    ASSUME NEW blocks \in Seq(Block), NEW n \in Int, NEW m \in Int, Above(blocks, n, m),
           NEW n2 \in Int, NEW m2 \in Int, n2 - n <= m2 - m
    PROVE  Above(blocks, n2, m2)
BY Levels DEF Above

\* A block is set up.
LEMMA Enters ==
    ASSUME NEW c, NEW n, StructuredCode(c, n), NEW i \in Addr(c),
           NEW blocks \in Seq(Block), NEW m \in Nat,
           Inside(c, E(c, i), blocks), Above(blocks, H(c, i), m), Measured(c) => m <= D(c, i),
           NEW b \in Block, b.type = c.code[i + 1].op, b.handler = c.code[i + 1].arg, b.level = m
    PROVE  /\ Inside(c, Append(E(c, i), i), Append(blocks, b))
           /\ Above(Append(blocks, b), 0, m)
<1> DEFINE at == E(c, i)
           bs == Append(blocks, b)
           as == Append(at, i)
<1>1. /\ at \in Seq(Addr(c)) /\ i \in Nat /\ H(c, i) \in Nat
      /\ \A j \in Addr(c) : H(c, j) \in Nat
    BY CodeFacts
<1>2. /\ Len(at) \in Nat /\ Len(as) = Len(at) + 1 /\ as[Len(as)] = i
      /\ \A k \in 1..Len(at) : as[k] = at[k] /\ at[k] \in Addr(c)
    BY <1>1
<1>3. /\ Len(blocks) \in Nat /\ Len(bs) = Len(blocks) + 1 /\ bs[Len(bs)] = b
      /\ \A k \in 1..Len(blocks) : bs[k] = blocks[k] /\ blocks[k].level \in Nat
    BY Levels
<1>4. Len(at) = Len(blocks)
    BY DEF Inside
<1> HIDE DEF bs, as, at
<1>5. \A k \in 1..Len(bs) : bs[k].level <= m
  <2>1. \A k \in 1..Len(blocks) : blocks[k].level + H(c, i) <= m
      BY DEF Above
  <2>2. \A k \in 1..Len(blocks) : bs[k].level <= m
      BY <1>1, <1>3, <2>1
  <2> QED
      BY <1>3, <2>2
<1>6. ASSUME NEW k \in 1..Len(as)
      PROVE  /\ bs[k].type = c.code[as[k] + 1].op
             /\ bs[k].handler = c.code[as[k] + 1].arg
             /\ H(c, as[k]) <= bs[k].level
             /\ \A j \in 1..k - 1 : bs[j].level + H(c, as[k]) <= bs[k].level
             /\ Measured(c) => bs[k].level <= D(c, as[k])
  <2>1. CASE k = Len(as)
    <3>1. as[k] = i /\ bs[k] = b /\ k - 1 = Len(blocks)
      <4>1. k = Len(bs) /\ k - 1 = Len(blocks)
          BY <1>2, <1>3, <1>4, <2>1
      <4> QED
          BY <1>2, <1>3, <2>1, <4>1
    <3>2. H(c, i) <= m /\ \A j \in 1..Len(blocks) : blocks[j].level + H(c, i) <= m
        BY DEF Above
    <3>3. \A j \in 1..k - 1 : bs[j].level + H(c, i) <= m
        BY <1>3, <3>1, <3>2
    <3> QED
        BY <3>1, <3>2, <3>3
  <2>2. CASE k \in 1..Len(at)
    <3>1. /\ blocks[k].type = c.code[at[k] + 1].op
          /\ blocks[k].handler = c.code[at[k] + 1].arg
          /\ H(c, at[k]) <= blocks[k].level
          /\ \A j \in 1..k - 1 : blocks[j].level + H(c, at[k]) <= blocks[k].level
          /\ Measured(c) => blocks[k].level <= D(c, at[k])
        BY <2>2 DEF Inside, at
    <3>2. \A j \in 1..k - 1 : bs[j] = blocks[j]
        BY <1>3, <1>4, <2>2
    <3> QED
        BY <1>2, <1>3, <1>4, <2>2, <3>1, <3>2
  <2>3. k = Len(as) \/ k \in 1..Len(at)
      BY <1>2
  <2> QED
      BY <2>1, <2>2, <2>3
<1>7. Inside(c, as, bs)
    BY <1>2, <1>3, <1>4, <1>6 DEF Inside
<1>8. Above(bs, 0, m)
    BY <1>3, <1>5 DEF Above
<1> QED
    BY <1>7, <1>8 DEF as, bs, at

\* A block is left.
LEMMA Leaves ==
    ASSUME NEW c, NEW n, StructuredCode(c, n), NEW i \in Addr(c),
           NEW blocks \in Seq(Block), Inside(c, E(c, i), blocks), blocks # <<>>
    PROVE  LET last == Len(blocks)
               j == E(c, i)[last]
               rest == SubSeq(blocks, 1, last - 1)
           IN /\ last \in 1..Len(E(c, i)) /\ last = Len(E(c, i))
              /\ j \in Addr(c)
              /\ blocks[last].type = c.code[j + 1].op
              /\ blocks[last].handler = c.code[j + 1].arg
              /\ c.code[j + 1].op \in {"SETUP_LOOP", "SETUP_TRY"}
              /\ rest \in Seq(Block)
              /\ Inside(c, E(c, j), rest)
              /\ Above(rest, H(c, j), blocks[last].level)
              /\ Measured(c) => blocks[last].level <= D(c, j)
<1> DEFINE last == Len(blocks)
           at == E(c, i)
           j == at[last]
           rest == SubSeq(blocks, 1, last - 1)
<1>1. last \in Nat /\ last # 0
    OBVIOUS
<1>2. last = Len(at) /\ last \in 1..Len(at)
    BY <1>1 DEF Inside
<1>3. /\ j \in Addr(c) /\ c.code[j + 1].op \in {"SETUP_LOOP", "SETUP_TRY"}
      /\ E(c, j) = SubSeq(at, 1, last - 1)
    BY <1>2, Outside
<1>4. /\ rest \in Seq(Block) /\ Len(rest) = last - 1
      /\ \A k \in 1..last - 1 : rest[k] = blocks[k]
  <2>1. last - 1 \in 0..Len(blocks)
      BY <1>1
  <2> QED
      BY <2>1, Prefix
<1>5. at \in Seq(Addr(c))
    BY CodeFacts
<1>6. /\ Len(E(c, j)) = last - 1
      /\ \A k \in 1..last - 1 : E(c, j)[k] = at[k]
    BY <1>2, <1>3, <1>5
<1>7. /\ blocks[last].type = c.code[j + 1].op
      /\ blocks[last].handler = c.code[j + 1].arg
      /\ H(c, j) <= blocks[last].level
      /\ \A k \in 1..last - 1 : blocks[k].level + H(c, j) <= blocks[last].level
      /\ Measured(c) => blocks[last].level <= D(c, j)
    BY <1>2 DEF Inside
<1> HIDE DEF rest, j
<1>8. Inside(c, E(c, j), rest)
  <2>1. ASSUME NEW k \in 1..last - 1
        PROVE  /\ rest[k].type = c.code[E(c, j)[k] + 1].op
               /\ rest[k].handler = c.code[E(c, j)[k] + 1].arg
               /\ H(c, E(c, j)[k]) <= rest[k].level
               /\ \A l \in 1..k - 1 : rest[l].level + H(c, E(c, j)[k]) <= rest[k].level
               /\ Measured(c) => rest[k].level <= D(c, E(c, j)[k])
    <3>1. k \in 1..Len(at) /\ \A l \in 1..k - 1 : l \in 1..last - 1
        BY <1>1, <1>2
    <3> QED
        BY <1>4, <1>6, <3>1 DEF Inside
  <2> QED
      BY <1>4, <1>6, <2>1 DEF Inside
<1>9. Above(rest, H(c, j), blocks[last].level)
    BY <1>4, <1>7 DEF Above
<1> QED
    BY <1>2, <1>3, <1>4, <1>7, <1>8, <1>9 DEF rest, j

-----------------------------------------------------------------------------
(* What an instruction does to its frame *)

\* The frame f of running code goes on at j, with d values instead of those it took.
LEMMA Moves ==
    ASSUME NEW c, NEW n, StructuredCode(c, n), NEW f, NEW g, NEW j, NEW d \in Nat,
           f.blocks \in Seq(Block), Len(f.stack) \in Nat, Running(c, f),
           Follows(c, f.lasti, j, d),
           g.lasti = j, g.blocks = f.blocks,
           Len(g.stack) = Len(f.stack) - Takes(c.code[f.lasti + 1]) + d
    PROVE  Running(c, g)
<1> DEFINE i == f.lasti
           t == Takes(c.code[i + 1])
<1>1. i \in Addr(c) /\ Inside(c, E(c, i), f.blocks) /\ Above(f.blocks, H(c, i), Len(f.stack))
    BY DEF Running
<1>2. H(c, i) \in Nat /\ t \in 0..H(c, i)
    BY <1>1, CodeFacts
<1>3. j \in Addr(c) /\ E(c, j) = E(c, i) /\ H(c, j) <= H(c, i) - t + d
    BY <1>1, Follow DEF Follows
<1>4. H(c, j) \in Nat
    BY <1>3, CodeFacts
<1> HIDE DEF t, i
<1>5. H(c, j) - H(c, i) <= (Len(f.stack) - t + d) - Len(f.stack)
    BY <1>2, <1>3, <1>4
<1>6. Len(f.stack) - t + d \in Int
    BY <1>2
<1>7. Above(f.blocks, H(c, j), Len(f.stack) - t + d)
    BY <1>1, <1>2, <1>4, <1>5, <1>6, AboveShifts
<1>8. Measured(c) => Len(f.stack) - t + d <= D(c, j)
  <2>1. SUFFICES ASSUME Measured(c)
                 PROVE  Len(f.stack) - t + d <= D(c, j)
      OBVIOUS
  <2>2. D(c, i) \in Nat /\ D(c, j) \in Nat /\ Len(f.stack) <= D(c, i)
      BY <1>1, <1>3, <2>1, DepthFacts DEF Running, i
  <2>3. D(c, i) - t + d <= D(c, j)
      BY <1>1, <2>1, DepthFacts DEF Follows, i, t
  <2> QED
      BY <1>2, <2>2, <2>3
<1> QED
    BY <1>1, <1>3, <1>7, <1>8 DEF Running, t, i

\* It fails, or leaves a loop.
LEMMA Stops ==
    ASSUME NEW c, NEW n, StructuredCode(c, n), NEW f, NEW g, NEW s, NEW a, s # "CONTINUE",
           f.blocks \in Seq(Block), Len(f.stack) \in Nat, Running(c, f),
           g.blocks = f.blocks,
           Len(g.stack) = Len(f.stack) - Takes(c.code[f.lasti + 1])
    PROVE  Unwinding(c, g, s, a)
<1> DEFINE i == f.lasti
           t == Takes(c.code[i + 1])
<1>1. i \in Addr(c) /\ Inside(c, E(c, i), f.blocks) /\ Above(f.blocks, H(c, i), Len(f.stack))
    BY DEF Running
<1>2. H(c, i) \in Nat /\ t \in 0..H(c, i)
    BY <1>1, CodeFacts
<1> HIDE DEF t, i
<1>3. 0 - H(c, i) <= (Len(f.stack) - t) - Len(f.stack) /\ Len(f.stack) - t \in Int
    BY <1>2
<1>4. Above(f.blocks, 0, Len(f.stack) - t)
    BY <1>1, <1>2, <1>3, AboveShifts
<1>5. Measured(c) => Len(f.stack) - t <= c.stacksize
  <2>1. SUFFICES ASSUME Measured(c)
                 PROVE  Len(f.stack) - t <= c.stacksize
      OBVIOUS
  <2>2. Len(f.stack) <= D(c, i) /\ D(c, i) \in Nat /\ D(c, i) <= c.stacksize /\ c.stacksize \in Int
      BY <1>1, <2>1, DepthFacts DEF Running, i
  <2> QED
      BY <1>2, <2>2
<1> QED
    BY <1>1, <1>4, <1>5 DEF Unwinding, t, i

\* COFrameBlock_Pop() and UNWIND_BLOCK leave the values below the level of the block.
LEMMA BlockLeft ==
    ASSUME NEW codes, NEW T, NEW f \in Frame(codes, T), f.blocks # <<>>,
           f.blocks[Len(f.blocks)].level <= Len(f.stack)
    PROVE  LET level == f.blocks[Len(f.blocks)].level
               rest == SubSeq(f.blocks, 1, Len(f.blocks) - 1)
               s == SubSeq(f.stack, 1, level)
           IN /\ LeaveBlock(f) = Rec(f.code, f.lasti, s, rest, f.locals)
              /\ s \in Seq(T) /\ Len(s) = level /\ rest \in Seq(Block)
<1> DEFINE level == f.blocks[Len(f.blocks)].level
           rest == SubSeq(f.blocks, 1, Len(f.blocks) - 1)
           s == SubSeq(f.stack, 1, level)
<1>1. f.stack \in Seq(T) /\ f.blocks \in Seq(Block) /\ Len(f.blocks) \in 1..Len(f.blocks)
  <2>1. f.stack \in Seq(T) /\ f.blocks \in Seq(Block)
      BY FrameIs
  <2> QED
      BY <2>1
<1>2. level \in 0..Len(f.stack) /\ Len(f.blocks) - 1 \in 0..Len(f.blocks)
  <2>1. level \in Nat
      BY <1>1, Levels
  <2> QED
      BY <1>1, <2>1
<1>3. s \in Seq(T) /\ Len(s) = level /\ rest \in Seq(Block)
    BY <1>1, <1>2, Prefix
<1>4. (IF Len(f.stack) > level THEN s ELSE f.stack) = s
  <2>1. CASE level = Len(f.stack)
      BY <1>1, <2>1, SubSeqFull
  <2>2. CASE level # Len(f.stack)
      BY <1>1, <1>2, <2>2
  <2> QED
      BY <2>1, <2>2
<1>5. LeaveBlock(f) = [f EXCEPT !.blocks = rest,
                                !.stack = IF Len(f.stack) > level THEN s ELSE f.stack]
    BY DEF LeaveBlock
<1> HIDE DEF s, rest, level
<1>6. LeaveBlock(f) = [f EXCEPT !.blocks = rest, !.stack = s]
    BY <1>4, <1>5
<1>7. f = Rec(f.code, f.lasti, f.stack, f.blocks, f.locals)
    BY FrameIs
<1>8. LeaveBlock(f) = Rec(f.code, f.lasti, s, rest, f.locals)
  <2>1. [f EXCEPT !.blocks = rest, !.stack = s] = [[f EXCEPT !.blocks = rest] EXCEPT !.stack = s]
      OBVIOUS
  <2>2. [f EXCEPT !.blocks = rest] = Rec(f.code, f.lasti, f.stack, rest, f.locals)
      BY <1>7 DEF Rec
  <2>3. [Rec(f.code, f.lasti, f.stack, rest, f.locals) EXCEPT !.stack = s]
          = Rec(f.code, f.lasti, s, rest, f.locals)
      BY DEF Rec
  <2>4. [[f EXCEPT !.blocks = rest] EXCEPT !.stack = s] = Rec(f.code, f.lasti, s, rest, f.locals)
      BY <2>2, <2>3, Zenon
  <2> QED
      BY <1>6, <2>1, <2>4
<1> QED
    BY <1>3, <1>8 DEF s, rest, level

-----------------------------------------------------------------------------
(* The invariant *)

LEMMA Here ==
    ASSUME Structured(program.codes), NEW T, Inv(T), pc = "run"
    PROVE  /\ Len(frames) \in Nat /\ Len(frames) \in 1..Len(frames)
           /\ Len(program.codes) \in Nat /\ Len(cells) \in Nat
           /\ frame \in Frame(program.codes, T)
           /\ StructuredCode(CodeOf(frame.code), Len(program.codes))
           /\ instr = CodeOf(frame.code).code[frame.lasti + 1]
           /\ fetched = Rec(frame.code, frame.lasti + 1, frame.stack, frame.blocks, frame.locals)
<1>1. frames \in Seq(Frame(program.codes, T)) /\ frames # <<>> /\ cells \in Seq(T)
    BY DEF Inv, Surroundings
<1>2. Len(frames) \in Nat /\ Len(frames) \in 1..Len(frames) /\ Len(cells) \in Nat
    BY <1>1
<1>3. frame \in Frame(program.codes, T)
    BY <1>1, <1>2 DEF frame
<1>4. frame.code \in 1..Len(program.codes)
    BY <1>3, FrameIs
<1>5. Len(program.codes) \in Nat /\ StructuredCode(CodeOf(frame.code), Len(program.codes))
    BY <1>4 DEF Structured, CodeOf
<1> QED
    BY <1>2, <1>3, <1>5, Fetched DEF instr

\* The frame that runs becomes g.
LEMMA Settles ==
    ASSUME Structured(program.codes), NEW T, Inv(T), pc = "run", NEW T2, T \subseteq T2,
           program' = program, Surroundings(T2)',
           NEW g \in Frame(program.codes, T2), SetFrame(g),
           IF status' = "NONE" THEN Running(CodeOf(g.code), g)
                               ELSE Unwinding(CodeOf(g.code), g, status', oparg')
    PROVE  IInv'
<1>1. Len(frames) \in Nat /\ Len(frames) \in 1..Len(frames)
    BY Here
<1>2. frames \in Seq(Frame(program.codes, T2))
    BY FramesGrow DEF Inv
<1>3. /\ frames' \in Seq(Frame(program.codes, T2))
      /\ Len(frames') = Len(frames)
      /\ \A k \in 1..Len(frames) : frames'[k] = IF k = Len(frames) THEN g ELSE frames[k]
    BY <1>1, <1>2, ExceptSeq DEF SetFrame
<1>4. frames' # <<>> /\ frame' = g
    BY <1>1, <1>3 DEF frame
<1>5. CodeOf(g.code)' = CodeOf(g.code)
    BY DEF CodeOf
<1>6. Placed(frame)'
    BY <1>4, <1>5 DEF Placed, CodeOf
<1>7. \A k \in 1..Len(frames) - 1 : Waiting(CodeOf(frames[k].code), frames[k])
    BY DEF Inv
<1>8. \A k \in 1..Len(frames') - 1 : Waiting(CodeOf(frames'[k].code), frames'[k])
    BY <1>1, <1>3, <1>7
<1>9. \A k \in 1..Len(frames') - 1 : Waiting(program'.codes[frames'[k].code], frames'[k])
    BY <1>8 DEF CodeOf
<1>10. Inv(T2)'
    BY <1>3, <1>4, <1>6, <1>9 DEF Inv, CodeOf
<1> QED
    BY <1>10 DEF IInv

\* What an instruction finds.
LEMMA Ready ==
    ASSUME Structured(program.codes), NEW T, Inv(T), pc = "run", status = "NONE"
    PROVE  LET c == CodeOf(frame.code)
           IN /\ StructuredCode(c, Len(program.codes))
              /\ Running(c, frame) /\ frame.lasti \in Addr(c) /\ frame.lasti \in Nat
              /\ instr = c.code[frame.lasti + 1]
              /\ WellFormed(c, Len(program.codes), instr)
              /\ frame.code \in 1..Len(program.codes)
              /\ frame.stack \in Seq(T) /\ Len(frame.stack) \in Nat
              /\ frame.blocks \in Seq(Block)
              /\ frame.locals \in [c.localnames -> T]
              /\ Takes(instr) \in 0..Len(frame.stack)
              /\ Takes(instr) > 0 => TOP \in T
<1> DEFINE c == CodeOf(frame.code)
<1>1. /\ frame \in Frame(program.codes, T)
      /\ StructuredCode(c, Len(program.codes))
      /\ instr = c.code[frame.lasti + 1]
      /\ Len(frames) \in Nat /\ Len(frames) \in 1..Len(frames)
    BY Here
<1>2. /\ frame.code \in 1..Len(program.codes)
      /\ frame.stack \in Seq(T) /\ frame.blocks \in Seq(Block)
      /\ frame.locals \in [c.localnames -> T]
    BY <1>1, FrameIs DEF CodeOf
<1>3. Running(c, frame)
    BY <1>1 DEF Inv, Placed
<1>4. frame.lasti \in Addr(c) /\ Above(frame.blocks, H(c, frame.lasti), Len(frame.stack))
    BY <1>3 DEF Running
<1>5. /\ frame.lasti \in Nat /\ H(c, frame.lasti) \in Nat
      /\ Takes(instr) \in 0..H(c, frame.lasti)
      /\ WellFormed(c, Len(program.codes), instr)
    BY <1>1, <1>4, CodeFacts
<1>6. H(c, frame.lasti) <= Len(frame.stack) /\ Len(frame.stack) \in Nat
    BY <1>2, <1>4 DEF Above
<1>7. Takes(instr) \in 0..Len(frame.stack)
    BY <1>5, <1>6
<1>8. Takes(instr) > 0 => TOP \in T
    BY <1>2, <1>6, <1>7 DEF TOP
<1> QED
    BY <1>1, <1>2, <1>3, <1>4, <1>5, <1>6, <1>7, <1>8

\* The instruction goes on at j: what it took is gone, d values are new.
LEMMA Advances ==
    ASSUME Structured(program.codes), NEW T, Inv(T), pc = "run", status = "NONE",
           NEW T2, T \subseteq T2, NEW d \in Nat, NEW j, NEW s \in Seq(T2),
           NEW lo \in [CodeOf(frame.code).localnames -> T2],
           Len(s) = Len(frame.stack) - Takes(instr) + d,
           Follows(CodeOf(frame.code), frame.lasti, j, d),
           program' = program, status' = status, Surroundings(T2)',
           SetFrame(Rec(frame.code, j, s, frame.blocks, lo))
    PROVE  IInv'
<1> DEFINE c == CodeOf(frame.code)
           g == Rec(frame.code, j, s, frame.blocks, lo)
<1>1. /\ StructuredCode(c, Len(program.codes))
      /\ Running(c, frame) /\ frame.lasti \in Addr(c)
      /\ instr = c.code[frame.lasti + 1]
      /\ frame.code \in 1..Len(program.codes)
      /\ frame.blocks \in Seq(Block) /\ Len(frame.stack) \in Nat
    BY Ready
<1>2. j \in Nat
  <2>1. j \in Addr(c)
      BY <1>1, Follow DEF Follows
  <2> QED
      BY <1>1, <2>1, CodeFacts
<1>3. lo \in [program.codes[frame.code].localnames -> T2]
    BY DEF CodeOf
<1>4. /\ g \in Frame(program.codes, T2)
      /\ g.code = frame.code /\ g.lasti = j /\ g.stack = s /\ g.blocks = frame.blocks
  <2>1. g \in Frame(program.codes, T2)
      BY <1>1, <1>2, <1>3, IsFrame
  <2>2. g.code = frame.code /\ g.lasti = j /\ g.stack = s /\ g.blocks = frame.blocks
      BY DEF Rec
  <2> QED
      BY <2>1, <2>2
<1> HIDE DEF g
<1>5. Running(c, g)
    BY <1>1, <1>4, Moves
<1> QED
    BY <1>4, <1>5, Settles DEF g

\* The instruction fails, or begins to leave blocks.
LEMMA Fails ==
    ASSUME Structured(program.codes), NEW T, Inv(T), pc = "run", status = "NONE",
           NEW T2, T \subseteq T2, NEW s \in Seq(T2),
           Len(s) = Len(frame.stack) - Takes(instr),
           program' = program, status' \in {"EXCEPTION", "BREAK"}, Surroundings(T2)',
           SetFrame(Rec(frame.code, frame.lasti + 1, s, frame.blocks, frame.locals))
    PROVE  IInv'
<1> DEFINE c == CodeOf(frame.code)
           g == Rec(frame.code, frame.lasti + 1, s, frame.blocks, frame.locals)
<1>1. /\ StructuredCode(c, Len(program.codes))
      /\ Running(c, frame) /\ frame.lasti \in Nat
      /\ instr = c.code[frame.lasti + 1]
      /\ frame.code \in 1..Len(program.codes)
      /\ frame.blocks \in Seq(Block) /\ Len(frame.stack) \in Nat
      /\ frame.locals \in [program.codes[frame.code].localnames -> T]
    BY Ready DEF CodeOf
<1>2. /\ frame.lasti + 1 \in Nat
      /\ frame.locals \in [program.codes[frame.code].localnames -> T2]
    BY <1>1
<1>3. /\ g \in Frame(program.codes, T2)
      /\ g.code = frame.code /\ g.stack = s /\ g.blocks = frame.blocks
  <2>1. g \in Frame(program.codes, T2)
    <3>1. PICK l, lo : l = frame.lasti + 1 /\ lo = frame.locals
        OBVIOUS
    <3>2. l \in Nat /\ lo \in [program.codes[frame.code].localnames -> T2]
        BY <1>2, <3>1
    <3>3. Rec(frame.code, l, s, frame.blocks, lo) \in Frame(program.codes, T2)
        BY <1>1, <3>2, IsFrame
    <3> QED
        BY <3>1, <3>3
  <2>2. g.code = frame.code /\ g.stack = s /\ g.blocks = frame.blocks
      BY DEF Rec
  <2> QED
      BY <2>1, <2>2
<1> HIDE DEF g
<1>4. Unwinding(c, g, status', oparg')
    BY <1>1, <1>3, Stops
<1> QED
    BY <1>3, <1>4, Settles DEF g

LEMMA SameSurroundings ==
    ASSUME NEW T, Surroundings(T), NEW T2, T \subseteq T2,
           Universe(T2, Len(program.codes), Len(cells)),
           program' = program, cells' = cells, func' = func,
           globals' = globals, err' \in T2
    PROVE  Surroundings(T2)'
<1>1. cells \in Seq(T2)
    BY FramesGrow DEF Surroundings
<1> QED
    BY <1>1 DEF Surroundings

\* An instruction that has one successor, the next
LEMMA NextOf ==
    ASSUME NEW c, NEW i,
           c.code[i + 1].op \notin {"JMPX", "CONTINUE_LOOP", "JMPZ", "FOR_ITER", "SETUP_LOOP",
              "SETUP_TRY", "POP_BLOCK", "RETURN", "THROW", "BREAK_LOOP", "END_TRY"}
    PROVE  Follows(c, i, i + 1, Puts(c.code[i + 1]))
BY DEF Follows, Successors, E, H, D

\* The next instruction, with v on top of what is left of the stack
LEMMA Pushes ==
    ASSUME Structured(program.codes), NEW T, Inv(T), pc = "run", status = "NONE",
           NEW T2, T \subseteq T2, NEW v \in T2,
           instr.op \notin {"JMPX", "CONTINUE_LOOP", "JMPZ", "FOR_ITER", "SETUP_LOOP",
              "SETUP_TRY", "POP_BLOCK", "RETURN", "THROW", "BREAK_LOOP", "END_TRY"},
           Puts(instr) = 1,
           program' = program, status' = status, Surroundings(T2)',
           SetFrame(Push(Pop(fetched, Takes(instr)), v))
    PROVE  IInv'
<1> DEFINE c == CodeOf(frame.code)
           low == SubSeq(frame.stack, 1, Len(frame.stack) - Takes(instr))
           s == Append(low, v)
<1>1. /\ frame.stack \in Seq(T) /\ Takes(instr) \in 0..Len(frame.stack) /\ Len(frame.stack) \in Nat
      /\ instr = c.code[frame.lasti + 1]
      /\ frame.locals \in [c.localnames -> T]
    BY Ready
<1>2. Len(frame.stack) - Takes(instr) \in 0..Len(frame.stack)
    BY <1>1
<1>3. low \in Seq(T) /\ Len(low) = Len(frame.stack) - Takes(instr)
    BY <1>1, <1>2, Prefix
<1>4. low \in Seq(T2)
    BY <1>3, FramesGrow
<1> HIDE DEF low
<1>5. s \in Seq(T2) /\ Len(s) = Len(frame.stack) - Takes(instr) + 1
    BY <1>3, <1>4, Added
<1>6. Push(Pop(fetched, Takes(instr)), v)
        = Rec(frame.code, frame.lasti + 1, s, frame.blocks, frame.locals)
    BY Here, FrameOps DEF low
<1>7. frame.locals \in [c.localnames -> T2]
    BY <1>1
<1>8. Follows(c, frame.lasti, frame.lasti + 1, 1)
    BY <1>1, NextOf
<1> HIDE DEF s
<1> QED
    BY <1>5, <1>6, <1>7, <1>8, Advances

\* The values below those the instruction takes
LEMMA Low ==
    ASSUME Structured(program.codes), NEW T, Inv(T), pc = "run", status = "NONE"
    PROVE  LET low == SubSeq(frame.stack, 1, Len(frame.stack) - Takes(instr))
           IN /\ low \in Seq(T) /\ Len(low) = Len(frame.stack) - Takes(instr)
              /\ Pop(fetched, Takes(instr))
                   = Rec(frame.code, frame.lasti + 1, low, frame.blocks, frame.locals)
              /\ Takes(instr) = 0 => low = frame.stack /\ Pop(fetched, Takes(instr)) = fetched
<1> DEFINE low == SubSeq(frame.stack, 1, Len(frame.stack) - Takes(instr))
<1>1. frame.stack \in Seq(T) /\ Takes(instr) \in 0..Len(frame.stack) /\ Len(frame.stack) \in Nat
    BY Ready
<1>2. Len(frame.stack) - Takes(instr) \in 0..Len(frame.stack)
    BY <1>1
<1>3. low \in Seq(T) /\ Len(low) = Len(frame.stack) - Takes(instr)
    BY <1>1, <1>2, Prefix
<1>4. Pop(fetched, Takes(instr))
        = Rec(frame.code, frame.lasti + 1, low, frame.blocks, frame.locals)
    BY Here, FrameOps
<1>5. Takes(instr) = 0 => low = frame.stack
    BY <1>1, SubSeqFull
<1>6. Takes(instr) = 0 => Pop(fetched, Takes(instr)) = fetched
    BY <1>4, <1>5, Here
<1> QED
    BY <1>3, <1>4, <1>5, <1>6

\* The next instruction, on what is left of the stack
LEMMA Drops ==
    ASSUME Structured(program.codes), NEW T, Inv(T), pc = "run", status = "NONE",
           NEW T2, T \subseteq T2, NEW lo \in [CodeOf(frame.code).localnames -> T2],
           instr.op \notin {"JMPX", "CONTINUE_LOOP", "JMPZ", "FOR_ITER", "SETUP_LOOP",
              "SETUP_TRY", "POP_BLOCK", "RETURN", "THROW", "BREAK_LOOP", "END_TRY"},
           Puts(instr) = 0,
           program' = program, status' = status, Surroundings(T2)',
           SetFrame(Rec(frame.code, frame.lasti + 1,
                        SubSeq(frame.stack, 1, Len(frame.stack) - Takes(instr)),
                        frame.blocks, lo))
    PROVE  IInv'
<1> DEFINE c == CodeOf(frame.code)
           low == SubSeq(frame.stack, 1, Len(frame.stack) - Takes(instr))
<1>1. low \in Seq(T2) /\ Len(low) = Len(frame.stack) - Takes(instr) + 0
  <2>1. low \in Seq(T) /\ Len(low) = Len(frame.stack) - Takes(instr)
      BY Low
  <2>2. Takes(instr) \in 0..Len(frame.stack) /\ Len(frame.stack) \in Nat
      BY Ready
  <2> QED
      BY <2>1, <2>2, FramesGrow
<1>2. Follows(c, frame.lasti, frame.lasti + 1, 0)
    BY Ready, NextOf
<1>3. SetFrame(Rec(frame.code, frame.lasti + 1, low, frame.blocks, lo))
    OBVIOUS
<1> HIDE DEF low
<1> QED
    BY <1>1, <1>2, <1>3, Advances

\* Values of the program and a new one
LEMMA Wider ==
    ASSUME NEW T, Surroundings(T), NEW v, MadeOf(v, T, Len(program.codes), Len(cells)),
           \/ err' = err
           \/ Type(err') \notin {"function", "code", "tuple", "list", "listiter"},
           program' = program, cells' = cells, func' = func, globals' = globals
    PROVE  \E T2 : /\ T \subseteq T2 /\ v \in T2
                   /\ Universe(T2, Len(program.codes), Len(cells))
                   /\ Surroundings(T2)'
<1>1. PICK e, T1, T2 : e = err' /\ T1 = T \cup {v} /\ T2 = T1 \cup {e}
    OBVIOUS
<1>2. Universe(T1, Len(program.codes), Len(cells))
    BY <1>1, Grow DEF Surroundings
<1>3. MadeOf(e, T1, Len(program.codes), Len(cells))
  <2>1. CASE err' = err
    <3>1. e \in T1
        BY <1>1, <2>1 DEF Surroundings
    <3> QED
        BY <1>2, <3>1 DEF Universe
  <2>2. CASE Type(err') \notin {"function", "code", "tuple", "list", "listiter"}
      BY <1>1, <2>2, Simple
  <2> QED
      BY <2>1, <2>2
<1>4. Universe(T2, Len(program.codes), Len(cells))
    BY <1>1, <1>2, <1>3, Grow
<1>5. T \subseteq T2 /\ v \in T2 /\ err' \in T2
    BY <1>1
<1>6. Surroundings(T2)'
    BY <1>4, <1>5, SameSurroundings
<1> QED
    BY <1>4, <1>5, <1>6

\* The next instruction, with a new value on top of what is left of the stack
LEMMA Yields ==
    ASSUME Structured(program.codes), NEW T, Inv(T), pc = "run", status = "NONE",
           NEW v, MadeOf(v, T, Len(program.codes), Len(cells)),
           \/ err' = err
           \/ Type(err') \notin {"function", "code", "tuple", "list", "listiter"},
           instr.op \notin {"JMPX", "CONTINUE_LOOP", "JMPZ", "FOR_ITER", "SETUP_LOOP",
              "SETUP_TRY", "POP_BLOCK", "RETURN", "THROW", "BREAK_LOOP", "END_TRY"},
           Puts(instr) = 1,
           program' = program, cells' = cells, func' = func, globals' = globals,
           status' = status,
           SetFrame(Push(Pop(fetched, Takes(instr)), v))
    PROVE  IInv'
<1>1. Surroundings(T)
    BY DEF Inv
<1>2. PICK T2 : /\ T \subseteq T2 /\ v \in T2
                /\ Universe(T2, Len(program.codes), Len(cells))
                /\ Surroundings(T2)'
    BY <1>1, Wider
<1> QED
    BY <1>2, Pushes

\* The instruction fails with what it took, or with a new value.
LEMMA Breaks ==
    ASSUME Structured(program.codes), NEW T, Inv(T), pc = "run", status = "NONE",
           \/ err' \in T
           \/ Type(err') \notin {"function", "code", "tuple", "list", "listiter"},
           program' = program, cells' = cells, func' = func, globals' = globals,
           status' \in {"EXCEPTION", "BREAK"},
           SetFrame(Pop(fetched, Takes(instr)))
    PROVE  IInv'
<1>1. Surroundings(T)
    BY DEF Inv
<1>2. PICK e, T2 : e = err' /\ T2 = T \cup {e}
    OBVIOUS
<1>3. MadeOf(e, T, Len(program.codes), Len(cells))
  <2>1. CASE err' \in T
      BY <1>1, <1>2, <2>1 DEF Surroundings, Universe
  <2>2. CASE Type(err') \notin {"function", "code", "tuple", "list", "listiter"}
      BY <1>2, <2>2, Simple
  <2> QED
      BY <2>1, <2>2
<1>4. Universe(T2, Len(program.codes), Len(cells)) /\ T \subseteq T2 /\ err' \in T2
    BY <1>1, <1>2, <1>3, Grow DEF Surroundings
<1>5. Surroundings(T2)'
    BY <1>1, <1>4, SameSurroundings
<1>6. PICK low : low = SubSeq(frame.stack, 1, Len(frame.stack) - Takes(instr))
    OBVIOUS
<1>7. /\ low \in Seq(T2) /\ Len(low) = Len(frame.stack) - Takes(instr)
      /\ SetFrame(Rec(frame.code, frame.lasti + 1, low, frame.blocks, frame.locals))
  <2>1. /\ low \in Seq(T) /\ Len(low) = Len(frame.stack) - Takes(instr)
        /\ Pop(fetched, Takes(instr))
             = Rec(frame.code, frame.lasti + 1, low, frame.blocks, frame.locals)
      BY <1>6, Low
  <2> QED
      BY <1>4, <2>1, FramesGrow
<1> QED
    BY <1>4, <1>5, <1>7, Fails

-----------------------------------------------------------------------------
(* Loading and storing *)

LEMMA LoadConstKeeps ==
    ASSUME Structured(program.codes), NEW T, Inv(T), LoadConst
    PROVE  IInv'
<1>1. pc = "run" /\ status = "NONE" /\ instr.op = "LOAD_CONST"
    BY DEF LoadConst, Op
<1>2. Takes(instr) = 0 /\ Puts(instr) = 1
    BY <1>1 DEF Takes, Puts
<1>3. PICK v : v = instr.arg
    OBVIOUS
<1>4. MadeOf(v, T, Len(program.codes), Len(cells))
    BY <1>1, <1>3, Ready DEF WellFormed, MadeOf
<1>5. /\ SetFrame(Push(fetched, v)) /\ program' = program /\ status' = status /\ cells' = cells
      /\ func' = func /\ globals' = globals /\ err' = err
    BY <1>3 DEF LoadConst, Becomes, Keep
<1>6. SetFrame(Push(Pop(fetched, Takes(instr)), v))
    BY <1>1, <1>2, <1>5, Low
<1> QED
    BY <1>1, <1>2, <1>4, <1>5, <1>6, Yields

LEMMA LoadLocalKeeps ==
    ASSUME Structured(program.codes), NEW T, Inv(T), LoadLocal
    PROVE  IInv'
<1>1. pc = "run" /\ status = "NONE" /\ instr.op = "LOAD_LOCAL"
    BY DEF LoadLocal, Op
<1>2. Takes(instr) = 0 /\ Puts(instr) = 1
    BY <1>1 DEF Takes, Puts
<1>3. PICK v : v = frame.locals[instr.arg]
    OBVIOUS
<1>4. MadeOf(v, T, Len(program.codes), Len(cells))
  <2>1. v \in T
    <3>1. instr.arg \in CodeOf(frame.code).localnames
        BY <1>1, Ready DEF WellFormed
    <3>2. frame.locals \in [CodeOf(frame.code).localnames -> T]
        BY <1>1, Ready
    <3> QED
        BY <1>3, <3>1, <3>2
  <2> QED
      BY <2>1 DEF Inv, Surroundings, Universe
<1>5. /\ SetFrame(Push(fetched, v)) /\ program' = program /\ status' = status /\ cells' = cells
      /\ func' = func /\ globals' = globals /\ err' = err
    BY <1>3 DEF LoadLocal, Becomes, Keep
<1>6. SetFrame(Push(Pop(fetched, Takes(instr)), v))
    BY <1>1, <1>2, <1>5, Low
<1> QED
    BY <1>1, <1>2, <1>4, <1>5, <1>6, Yields

\* What a name stands for is a value of the program.
LEMMA GetIn ==
    ASSUME NEW T, Inv(T), NEW x, Known(x)
    PROVE  Get(x) \in T
<1>1. Printer \in T /\ \A y \in DOMAIN globals : globals[y] \in T
    BY AtomsAreValues DEF Inv, Surroundings
<1> QED
    BY <1>1 DEF Known, Get, Builtins

LEMMA LoadNameKeeps ==
    ASSUME Structured(program.codes), NEW T, Inv(T), LoadName
    PROVE  IInv'
<1>1. pc = "run" /\ status = "NONE" /\ instr.op = "LOAD_NAME"
    BY DEF LoadName, Op
<1>2. Takes(instr) = 0 /\ Puts(instr) = 1
    BY <1>1 DEF Takes, Puts
<1>3. Pop(fetched, Takes(instr)) = fetched
    BY <1>1, <1>2, Low
<1>4. CASE Known(instr.arg)
  <2>1. PICK v : v = Get(instr.arg)
      OBVIOUS
  <2>2. MadeOf(v, T, Len(program.codes), Len(cells))
      BY <1>4, <2>1, GetIn DEF Inv, Surroundings, Universe
  <2>3. /\ SetFrame(Push(fetched, v)) /\ program' = program /\ status' = status /\ cells' = cells
        /\ func' = func /\ globals' = globals /\ err' = err
      BY <1>4, <2>1 DEF LoadName, Becomes, Keep
  <2> QED
      BY <1>1, <1>2, <1>3, <2>2, <2>3, Yields
<1>5. CASE ~Known(instr.arg)
  <2>1. /\ SetFrame(fetched) /\ program' = program /\ status' = "EXCEPTION" /\ cells' = cells
        /\ func' = func /\ globals' = globals /\ err' = NotDefined(instr.arg)
      BY <1>5 DEF LoadName, Raise, Keep
  <2>2. Type(err') = "str"
      BY <2>1 DEF NotDefined, Str, Type
  <2> QED
      BY <1>1, <1>3, <2>1, <2>2, Breaks
<1> QED
    BY <1>4, <1>5

LEMMA LoadUpvalKeeps ==
    ASSUME Structured(program.codes), NEW T, Inv(T), LoadUpval
    PROVE  IInv'
<1>1. pc = "run" /\ status = "NONE" /\ instr.op = "LOAD_UPVAL" /\ instr.arg \in DOMAIN func[3]
    BY DEF LoadUpval, Op, Valid
<1>2. Takes(instr) = 0 /\ Puts(instr) = 1
    BY <1>1 DEF Takes, Puts
<1>3. PICK v : v = cells[func[3][instr.arg]]
    OBVIOUS
<1>4. MadeOf(v, T, Len(program.codes), Len(cells))
  <2>1. func[3] \in Seq(1..Len(cells)) /\ cells \in Seq(T)
      BY DEF Inv, Surroundings, Universe, MadeOf
  <2>2. func[3][instr.arg] \in 1..Len(cells)
      BY <1>1, <2>1
  <2>3. v \in T
      BY <1>3, <2>1, <2>2
  <2> QED
      BY <2>3 DEF Inv, Surroundings, Universe
<1>5. /\ SetFrame(Push(fetched, v)) /\ program' = program /\ status' = status /\ cells' = cells
      /\ func' = func /\ globals' = globals /\ err' = err
    BY <1>3 DEF LoadUpval, Becomes, Keep
<1>6. SetFrame(Push(Pop(fetched, Takes(instr)), v))
    BY <1>1, <1>2, <1>5, Low
<1> QED
    BY <1>1, <1>2, <1>4, <1>5, <1>6, Yields

LEMMA StoreLocalKeeps ==
    ASSUME Structured(program.codes), NEW T, Inv(T), StoreLocal
    PROVE  IInv'
<1>1. pc = "run" /\ status = "NONE" /\ instr.op = "STORE_LOCAL"
    BY DEF StoreLocal, Op
<1>2. Takes(instr) = 1 /\ Puts(instr) = 0
    BY <1>1 DEF Takes, Puts
<1>3. TOP \in T /\ frame.locals \in [CodeOf(frame.code).localnames -> T]
    BY <1>1, <1>2, Ready
<1>4. PICK x, v, low, lo : /\ x = instr.arg /\ v = TOP /\ lo = [frame.locals EXCEPT ![x] = v]
                           /\ low = SubSeq(frame.stack, 1, Len(frame.stack) - Takes(instr))
    OBVIOUS
<1>5. lo \in [CodeOf(frame.code).localnames -> T]
    BY <1>3, <1>4
<1>6. /\ SetFrame([Pop(fetched, 1) EXCEPT !.locals[x] = v])
      /\ program' = program /\ status' = status
      /\ cells' = cells /\ func' = func /\ globals' = globals /\ err' = err
    BY <1>4 DEF StoreLocal, Becomes, Keep
<1>7. [Pop(fetched, 1) EXCEPT !.locals[x] = v]
        = Rec(frame.code, frame.lasti + 1, low, frame.blocks, lo)
  <2>1. PICK f, a, l, b, old : /\ f = Pop(fetched, 1) /\ a = frame.code /\ l = frame.lasti + 1
                               /\ b = frame.blocks /\ old = frame.locals
      OBVIOUS
  <2>2. f = Rec(a, l, low, b, old)
      BY <1>1, <1>2, <1>4, <2>1, Low
  <2>3. [f EXCEPT !.locals[x] = v] = Rec(a, l, low, b, [old EXCEPT ![x] = v])
      BY <2>2, SetLocal
  <2> QED
      BY <1>4, <2>1, <2>3
<1>8. Surroundings(T)'
    BY <1>6, SameSurroundings DEF Inv, Surroundings
<1> QED
    BY <1>1, <1>2, <1>4, <1>5, <1>6, <1>7, <1>8, Drops

\* What a store instruction that leaves the frame's variables alone does to the frame
LEMMA Stores ==
    ASSUME Structured(program.codes), NEW T, Inv(T), pc = "run", status = "NONE",
           instr.op \in {"STORE_NAME", "STORE_UPVAL", "POP_TOP"},
           program' = program, status' = status, Surroundings(T)',
           SetFrame(Pop(fetched, 1))
    PROVE  IInv'
<1>1. Takes(instr) = 1 /\ Puts(instr) = 0
    BY DEF Takes, Puts
<1>2. Pop(fetched, 1)
        = Rec(frame.code, frame.lasti + 1,
              SubSeq(frame.stack, 1, Len(frame.stack) - Takes(instr)),
              frame.blocks, frame.locals)
    BY <1>1, Low
<1>3. PICK lo : lo = frame.locals
    OBVIOUS
<1>4. lo \in [CodeOf(frame.code).localnames -> T]
    BY <1>3, Ready
<1> QED
    BY <1>1, <1>2, <1>3, <1>4, Drops

LEMMA StoreNameKeeps ==
    ASSUME Structured(program.codes), NEW T, Inv(T), StoreName
    PROVE  IInv'
<1>1. pc = "run" /\ status = "NONE" /\ instr.op = "STORE_NAME"
    BY DEF StoreName, Op
<1>2. TOP \in T
  <2>1. Takes(instr) = 1
      BY <1>1 DEF Takes
  <2> QED
      BY <1>1, <2>1, Ready
<1>3. /\ SetFrame(Pop(fetched, 1)) /\ program' = program /\ status' = status
      /\ cells' = cells /\ func' = func /\ err' = err
      /\ globals' = Store(globals, instr.arg, TOP)
    BY DEF StoreName, Keep
<1>4. \A x \in DOMAIN globals' : globals'[x] \in T
    BY <1>2, <1>3 DEF Store, Inv, Surroundings
<1>5. Surroundings(T)'
    BY <1>3, <1>4 DEF Inv, Surroundings
<1> QED
    BY <1>1, <1>3, <1>5, Stores

LEMMA StoreUpvalKeeps ==
    ASSUME Structured(program.codes), NEW T, Inv(T), StoreUpval
    PROVE  IInv'
<1>1. pc = "run" /\ status = "NONE" /\ instr.op = "STORE_UPVAL" /\ instr.arg \in DOMAIN func[3]
    BY DEF StoreUpval, Op, Valid
<1>2. TOP \in T
  <2>1. Takes(instr) = 1
      BY <1>1 DEF Takes
  <2> QED
      BY <1>1, <2>1, Ready
<1>3. /\ SetFrame(Pop(fetched, 1)) /\ program' = program /\ status' = status
      /\ cells' = [cells EXCEPT ![func[3][instr.arg]] = TOP]
      /\ func' = func /\ globals' = globals /\ err' = err
    BY DEF StoreUpval
<1>4. cells' \in Seq(T) /\ Len(cells') = Len(cells)
  <2>1. func[3] \in Seq(1..Len(cells)) /\ cells \in Seq(T)
      BY DEF Inv, Surroundings, Universe, MadeOf
  <2>2. func[3][instr.arg] \in 1..Len(cells)
      BY <1>1, <2>1
  <2> QED
      BY <1>2, <1>3, <2>1, <2>2, ExceptSeq
<1>5. Surroundings(T)'
    BY <1>3, <1>4 DEF Inv, Surroundings
<1> QED
    BY <1>1, <1>3, <1>5, Stores

LEMMA PopTopKeeps ==
    ASSUME Structured(program.codes), NEW T, Inv(T), PopTop
    PROVE  IInv'
<1>1. pc = "run" /\ status = "NONE" /\ instr.op = "POP_TOP"
    BY DEF PopTop, Op
<1>2. /\ SetFrame(Pop(fetched, 1)) /\ program' = program /\ status' = status
      /\ cells' = cells /\ func' = func /\ globals' = globals /\ err' = err
    BY DEF PopTop, Becomes, Keep
<1>3. Surroundings(T)'
    BY <1>2, SameSurroundings DEF Inv, Surroundings
<1> QED
    BY <1>1, <1>2, <1>3, Stores

LEMMA DupTopKeeps ==
    ASSUME Structured(program.codes), NEW T, Inv(T), DupTop
    PROVE  IInv'
<1> DEFINE c == CodeOf(frame.code)
<1>1. pc = "run" /\ status = "NONE" /\ instr.op = "DUP_TOP"
    BY DEF DupTop, Op
<1>2. Takes(instr) = 1 /\ Puts(instr) = 2
    BY <1>1 DEF Takes, Puts
<1>3. /\ TOP \in T /\ frame.locals \in [c.localnames -> T] /\ frame.stack \in Seq(T)
      /\ instr = c.code[frame.lasti + 1]
    BY <1>1, <1>2, Ready
<1>4. PICK s, lo : s = Append(frame.stack, TOP) /\ lo = frame.locals
    OBVIOUS
<1>5. s \in Seq(T) /\ Len(s) = Len(frame.stack) - Takes(instr) + 2
  <2>1. s \in Seq(T) /\ Len(s) = Len(frame.stack) + 1 /\ Len(frame.stack) \in Nat
      BY <1>3, <1>4, Added
  <2> QED
      BY <1>2, <2>1
<1>6. /\ SetFrame(Push(fetched, TOP)) /\ program' = program /\ status' = status
      /\ cells' = cells /\ func' = func /\ globals' = globals /\ err' = err
    BY DEF DupTop, Becomes, Keep
<1>7. SetFrame(Rec(frame.code, frame.lasti + 1, s, frame.blocks, lo))
    BY <1>1, <1>4, <1>6, Here, FrameOps
<1>8. Surroundings(T)'
    BY <1>6, SameSurroundings DEF Inv, Surroundings
<1>9. Follows(c, frame.lasti, frame.lasti + 1, 2)
    BY <1>1, <1>2, <1>3, NextOf
<1>10. lo \in [c.localnames -> T]
    BY <1>3, <1>4
<1> QED
    BY <1>1, <1>5, <1>6, <1>7, <1>8, <1>9, <1>10, Advances

LEMMA Piece ==
    ASSUME NEW S, NEW s \in Seq(S), NEW a \in 1..Len(s) + 1, NEW b \in 0..Len(s)
    PROVE  SubSeq(s, a, b) \in Seq(S)
<1>1. \A i \in a..b : i \in 1..Len(s)
    OBVIOUS
<1>2. \A i \in a..b : s[i] \in S
    BY <1>1
<1> QED
    BY <1>2, SubSeqProperties

LEMMA BuiltIn ==
    ASSUME Structured(program.codes), NEW T, Inv(T), pc = "run", status = "NONE",
           NEW n \in 0..Len(frame.stack)
    PROVE  Built(n) \in Seq(T)
<1>1. frame.stack \in Seq(T) /\ Len(frame.stack) \in Nat
    BY Ready
<1>2. Len(frame.stack) - n + 1 \in 1..Len(frame.stack) + 1 /\ Len(frame.stack) \in 0..Len(frame.stack)
    BY <1>1
<1> QED
    BY <1>1, <1>2, Piece DEF Built

LEMMA BuildTupleKeeps ==
    ASSUME Structured(program.codes), NEW T, Inv(T), BuildTuple
    PROVE  IInv'
<1>1. pc = "run" /\ status = "NONE" /\ instr.op = "BUILD_TUPLE"
    BY DEF BuildTuple, Op
<1>2. Takes(instr) = instr.arg /\ Puts(instr) = 1
    BY <1>1 DEF Takes, Puts
<1>3. PICK v : v = Tuple(Built(instr.arg))
    OBVIOUS
<1>4. MadeOf(v, T, Len(program.codes), Len(cells))
  <2>1. Built(instr.arg) \in Seq(T)
      BY <1>1, <1>2, Ready, BuiltIn
  <2> QED
      BY <1>3, <2>1 DEF Tuple, Type, MadeOf
<1>5. /\ SetFrame(Push(Pop(fetched, Takes(instr)), v))
      /\ program' = program /\ status' = status /\ cells' = cells
      /\ func' = func /\ globals' = globals /\ err' = err
    BY <1>2, <1>3 DEF BuildTuple, Becomes, Keep
<1> QED
    BY <1>1, <1>2, <1>4, <1>5, Yields

LEMMA BuildListKeeps ==
    ASSUME Structured(program.codes), NEW T, Inv(T), BuildList
    PROVE  IInv'
<1>1. pc = "run" /\ status = "NONE" /\ instr.op = "BUILD_LIST"
    BY DEF BuildList, Op
<1>2. Takes(instr) = instr.arg /\ Puts(instr) = 1
    BY <1>1 DEF Takes, Puts
<1>3. PICK v : v = List(Built(instr.arg))
    OBVIOUS
<1>4. MadeOf(v, T, Len(program.codes), Len(cells))
  <2>1. Built(instr.arg) \in Seq(T)
      BY <1>1, <1>2, Ready, BuiltIn
  <2> QED
      BY <1>3, <2>1 DEF List, Type, MadeOf
<1>5. /\ SetFrame(Push(Pop(fetched, Takes(instr)), v))
      /\ program' = program /\ status' = status /\ cells' = cells
      /\ func' = func /\ globals' = globals /\ err' = err
    BY <1>2, <1>3 DEF BuildList, Becomes, Keep
<1> QED
    BY <1>1, <1>2, <1>4, <1>5, Yields

-----------------------------------------------------------------------------
(* Comparing and jumping *)

LEMMA CompareKeeps ==
    ASSUME Structured(program.codes), NEW T, Inv(T), Compare
    PROVE  IInv'
<1>1. pc = "run" /\ status = "NONE" /\ instr.op = "CMP"
    BY DEF Compare, Op
<1>2. Takes(instr) = 2 /\ Puts(instr) = 1
    BY <1>1 DEF Takes, Puts
<1>3. PICK b \in Outcomes : SetFrame(Push(Pop(fetched, 2), Bool(b)))
    BY DEF Compare
<1>4. PICK v : v = Bool(b)
    OBVIOUS
<1>5. MadeOf(v, T, Len(program.codes), Len(cells))
    BY <1>4, Simple DEF Bool, Type
<1>6. /\ SetFrame(Push(Pop(fetched, Takes(instr)), v))
      /\ program' = program /\ status' = status /\ cells' = cells
      /\ func' = func /\ globals' = globals /\ err' = err
    BY <1>2, <1>3, <1>4 DEF Compare
<1> QED
    BY <1>1, <1>2, <1>5, <1>6, Yields

LEMMA ExcMatchKeeps ==
    ASSUME Structured(program.codes), NEW T, Inv(T), ExcMatch
    PROVE  IInv'
<1>1. pc = "run" /\ status = "NONE" /\ instr.op = "CMP"
    BY DEF ExcMatch, Op
<1>2. Takes(instr) = 2 /\ Puts(instr) = 1
    BY <1>1 DEF Takes, Puts
<1>3. \E b : SetFrame(Push(Pop(fetched, 2), Bool(b)))
    BY DEF ExcMatch
<1>4. PICK b : SetFrame(Push(Pop(fetched, 2), Bool(b)))
    BY <1>3
<1>5. PICK v : v = Bool(b)
    OBVIOUS
<1>6. MadeOf(v, T, Len(program.codes), Len(cells))
    BY <1>5, Simple DEF Bool, Type
<1>7. /\ SetFrame(Push(Pop(fetched, Takes(instr)), v))
      /\ program' = program /\ status' = status /\ cells' = cells
      /\ func' = func /\ globals' = globals
    BY <1>2, <1>4, <1>5 DEF ExcMatch, Keep
<1>8. err' = err \/ err' = Str("undefined comparison")
    BY DEF ExcMatch
<1>9. err' = err \/ Type(err') = "str"
    BY <1>8, StrIs
<1> QED
    BY <1>1, <1>2, <1>6, <1>7, <1>9, Yields

\* What a jump does to the frame
LEMMA Skips ==
    ASSUME Structured(program.codes), NEW T, Inv(T), pc = "run", status = "NONE",
           NEW j, Follows(CodeOf(frame.code), frame.lasti, j, 0),
           program' = program, status' = status, Surroundings(T)',
           SetFrame(JumpTo(Pop(fetched, Takes(instr)), j))
    PROVE  IInv'
<1> DEFINE c == CodeOf(frame.code)
<1>1. PICK low, lo : /\ low = SubSeq(frame.stack, 1, Len(frame.stack) - Takes(instr))
                     /\ lo = frame.locals
    OBVIOUS
<1>2. /\ low \in Seq(T) /\ Len(low) = Len(frame.stack) - Takes(instr)
      /\ Pop(fetched, Takes(instr))
           = Rec(frame.code, frame.lasti + 1, low, frame.blocks, frame.locals)
    BY <1>1, Low
<1>3. SetFrame(Rec(frame.code, j, low, frame.blocks, lo))
    BY <1>1, <1>2, FrameOps
<1>4. /\ lo \in [c.localnames -> T] /\ Len(frame.stack) \in Nat
      /\ Takes(instr) \in 0..Len(frame.stack)
    BY <1>1, Ready
<1>5. Len(frame.stack) - Takes(instr) = Len(frame.stack) - Takes(instr) + 0
    BY <1>4
<1> QED
    BY <1>2, <1>3, <1>4, <1>5, Advances

\* The jumps
LEMMA JumpOf ==
    ASSUME NEW c, NEW n, StructuredCode(c, n), NEW i \in Addr(c),
           c.code[i + 1].op \in {"JMPX", "JMPZ", "FOR_ITER"}
    PROVE  /\ Follows(c, i, c.code[i + 1].arg, 0)
           /\ c.code[i + 1].op # "JMPX" => Follows(c, i, i + 1, Puts(c.code[i + 1]))
<1> DEFINE x == c.code[i + 1]
           t == Takes(x)
<1>1. H(c, i) \in Nat /\ t \in Int
    BY CodeFacts
<1>2. Measured(c) => D(c, i) \in Nat
    BY DepthFacts
<1>3. /\ H(c, i) - t + 0 = H(c, i) - t
      /\ Measured(c) => D(c, i) - t + 0 = D(c, i) - t
    BY <1>1, <1>2
<1>4. /\ Goes(x.arg, E(c, i), H(c, i) - t) \in Successors(c.code, Heights(c.code), i, 0)
      /\ Goes(x.arg, E(c, i), D(c, i) - t) \in Successors(c.code, Depths(c.code), i, D(c, i))
    BY DEF Successors, E, H, D
<1>5. x.op # "JMPX" => Follows(c, i, i + 1, Puts(x))
    BY DEF Follows, Successors, E, H, D
<1>6. Follows(c, i, x.arg, 0)
    BY <1>3, <1>4 DEF Follows
<1> QED
    BY <1>5, <1>6

LEMMA JmpXKeeps ==
    ASSUME Structured(program.codes), NEW T, Inv(T), JmpX
    PROVE  IInv'
<1> DEFINE c == CodeOf(frame.code)
<1>1. /\ pc = "run" /\ status = "NONE" /\ instr.op = "JMPX" /\ instr = c.code[frame.lasti + 1]
      /\ frame.lasti \in Addr(c) /\ StructuredCode(c, Len(program.codes))
    BY Ready DEF JmpX, Op
<1>2. Takes(instr) = 0
    BY <1>1 DEF Takes
<1>3. /\ SetFrame(JumpTo(Pop(fetched, Takes(instr)), instr.arg))
      /\ program' = program /\ status' = status /\ cells' = cells
      /\ func' = func /\ globals' = globals /\ err' = err
    BY <1>1, <1>2, Low DEF JmpX, Becomes, Keep
<1>4. Surroundings(T)'
    BY <1>3, SameSurroundings DEF Inv, Surroundings
<1>5. PICK j : j = instr.arg
    OBVIOUS
<1>6. Follows(c, frame.lasti, j, 0)
    BY <1>1, <1>5, JumpOf
<1> QED
    BY <1>1, <1>3, <1>4, <1>5, <1>6, Skips

LEMMA JmpZKeeps ==
    ASSUME Structured(program.codes), NEW T, Inv(T), JmpZ
    PROVE  IInv'
<1> DEFINE c == CodeOf(frame.code)
<1>1. /\ pc = "run" /\ status = "NONE" /\ instr.op = "JMPZ" /\ instr = c.code[frame.lasti + 1]
      /\ frame.lasti \in Addr(c) /\ StructuredCode(c, Len(program.codes))
    BY Ready DEF JmpZ, Op
<1>2. Takes(instr) = 1 /\ Puts(instr) = 0
    BY <1>1 DEF Takes, Puts
<1>3. /\ SetFrame(IF IsTrue(TOP) THEN Pop(fetched, 1) ELSE JumpTo(Pop(fetched, 1), instr.arg))
      /\ program' = program /\ status' = status /\ cells' = cells
      /\ func' = func /\ globals' = globals /\ err' = err
    BY DEF JmpZ, Becomes, Keep
<1>4. Surroundings(T)'
    BY <1>3, SameSurroundings DEF Inv, Surroundings
<1>5. PICK j : j = IF IsTrue(TOP) THEN frame.lasti + 1 ELSE instr.arg
    OBVIOUS
<1>6. SetFrame(JumpTo(Pop(fetched, Takes(instr)), j))
  <2>1. CASE IsTrue(TOP)
    <3>1. Pop(fetched, 1) = JumpTo(Pop(fetched, 1), frame.lasti + 1)
        BY <1>1, <1>2, Low, FrameOps
    <3> QED
        BY <1>2, <1>3, <1>5, <2>1, <3>1
  <2>2. CASE ~IsTrue(TOP)
      BY <1>2, <1>3, <1>5, <2>2
  <2> QED
      BY <2>1, <2>2
<1>7. Follows(c, frame.lasti, j, 0)
    BY <1>1, <1>2, <1>5, JumpOf
<1> QED
    BY <1>1, <1>3, <1>4, <1>6, <1>7, Skips

LEMMA GetIterKeeps ==
    ASSUME Structured(program.codes), NEW T, Inv(T), GetIter
    PROVE  IInv'
<1>1. pc = "run" /\ status = "NONE" /\ instr.op = "GET_ITER"
    BY DEF GetIter, Op
<1>2. Takes(instr) = 1 /\ Puts(instr) = 1
    BY <1>1 DEF Takes, Puts
<1>3. /\ program' = program /\ status' = status /\ cells' = cells
      /\ func' = func /\ globals' = globals
    BY DEF GetIter, Becomes, Keep
<1>4. CASE Type(TOP) \in {"list", "listiter"}
  <2>1. PICK v : v = Iter(TOP[2])
      OBVIOUS
  <2>2. TOP \in T
      BY <1>1, <1>2, Ready
  <2>3. TOP[2] \in Seq(T)
      BY <1>4, <2>2 DEF Inv, Surroundings, Universe, MadeOf
  <2>4. MadeOf(v, T, Len(program.codes), Len(cells))
      BY <2>1, <2>3 DEF Iter, Type, MadeOf
  <2>5. SetFrame(Push(Pop(fetched, Takes(instr)), v)) /\ err' = err
      BY <1>2, <1>4, <2>1 DEF GetIter, Becomes
  <2> QED
      BY <1>1, <1>2, <1>3, <2>4, <2>5, Yields
<1>5. CASE Type(TOP) \notin {"list", "listiter"}
  <2>1. PICK v : v = NULL
      OBVIOUS
  <2>2. MadeOf(v, T, Len(program.codes), Len(cells))
      BY <2>1, Simple DEF NULL, Type
  <2>3. SetFrame(Push(Pop(fetched, Takes(instr)), v)) /\ Type(err') = "str"
      BY <1>2, <1>5, <2>1, StrIs DEF GetIter
  <2> QED
      BY <1>1, <1>2, <1>3, <2>2, <2>3, Yields
<1> QED
    BY <1>4, <1>5

LEMMA ForIterKeeps ==
    ASSUME Structured(program.codes), NEW T, Inv(T), ForIter
    PROVE  IInv'
<1> DEFINE c == CodeOf(frame.code)
<1>1. /\ pc = "run" /\ status = "NONE" /\ instr.op = "FOR_ITER" /\ Type(TOP) = "listiter"
      /\ instr = c.code[frame.lasti + 1]
    BY Ready DEF ForIter, Op, Valid
<1>2. Takes(instr) = 1 /\ Puts(instr) = 2
    BY <1>1 DEF Takes, Puts
<1>3. /\ program' = program /\ status' = status /\ cells' = cells
      /\ func' = func /\ globals' = globals /\ err' = err
    BY DEF ForIter, Becomes, Keep
<1>4. TOP[2] \in Seq(T)
  <2>1. TOP \in T
      BY <1>1, <1>2, Ready
  <2> QED
      BY <1>1, <2>1 DEF Inv, Surroundings, Universe, MadeOf
<1>5. /\ Follows(c, frame.lasti, instr.arg, 0)
      /\ Follows(c, frame.lasti, frame.lasti + 1, 2)
    BY <1>1, <1>2, Ready, JumpOf
<1>6. CASE TOP[2] = <<>>
  <2>1. PICK j : j = instr.arg
      OBVIOUS
  <2>2. SetFrame(JumpTo(Pop(fetched, Takes(instr)), j))
      BY <1>2, <1>6, <2>1 DEF ForIter, Becomes
  <2>3. Surroundings(T)'
      BY <1>3, SameSurroundings DEF Inv, Surroundings
  <2> QED
      BY <1>1, <1>3, <1>5, <2>1, <2>2, <2>3, Skips
<1>7. CASE TOP[2] # <<>>
  <2>1. PICK v, u : v = Iter(Tail(TOP[2])) /\ u = Head(TOP[2])
      OBVIOUS
  <2>2. Tail(TOP[2]) \in Seq(T) /\ u \in T
      BY <1>4, <1>7, <2>1
  <2>3. MadeOf(v, T, Len(program.codes), Len(cells))
      BY <2>1, <2>2 DEF Iter, Type, MadeOf
  <2>4. PICK T2 : /\ T \subseteq T2 /\ v \in T2
                  /\ Universe(T2, Len(program.codes), Len(cells))
                  /\ Surroundings(T2)'
      BY <1>3, <2>3, Wider DEF Inv
  <2>5. PICK low, lo, s : /\ low = SubSeq(frame.stack, 1, Len(frame.stack) - Takes(instr))
                          /\ lo = frame.locals
                          /\ s = Append(Append(low, v), u)
      OBVIOUS
  <2>6. /\ low \in Seq(T2) /\ Len(low) = Len(frame.stack) - Takes(instr)
        /\ Pop(fetched, Takes(instr))
             = Rec(frame.code, frame.lasti + 1, low, frame.blocks, frame.locals)
    <3>1. /\ low \in Seq(T) /\ Len(low) = Len(frame.stack) - Takes(instr)
          /\ Pop(fetched, Takes(instr))
               = Rec(frame.code, frame.lasti + 1, low, frame.blocks, frame.locals)
        BY <1>1, <2>5, Low
    <3> QED
        BY <2>4, <3>1, FramesGrow
  <2>7. s \in Seq(T2) /\ Len(s) = Len(frame.stack) - Takes(instr) + 2
    <3>1. Append(low, v) \in Seq(T2) /\ Len(Append(low, v)) = Len(low) + 1
        BY <2>4, <2>6, Added
    <3>2. s \in Seq(T2) /\ Len(s) = Len(low) + 1 + 1
        BY <2>2, <2>4, <2>5, <3>1, Added
    <3>3. Len(frame.stack) \in Nat
        BY <1>1, Ready
    <3> QED
        BY <1>2, <2>6, <3>2, <3>3
  <2>8. SetFrame(Rec(frame.code, frame.lasti + 1, s, frame.blocks, lo))
    <3>1. SetFrame(Push(Push(Pop(fetched, Takes(instr)), v), u))
        BY <1>2, <1>7, <2>1 DEF ForIter, Becomes
    <3> QED
        BY <2>5, <2>6, <3>1, FrameOps
  <2>9. lo \in [c.localnames -> T2]
    <3>1. lo \in [c.localnames -> T]
        BY <1>1, <2>5, Ready
    <3> QED
        BY <2>4, <3>1
  <2> QED
      BY <1>1, <1>3, <1>5, <2>4, <2>7, <2>8, <2>9, Advances
<1> QED
    BY <1>6, <1>7

-----------------------------------------------------------------------------
(* Functions *)

LEMMA CapturedIn ==
    ASSUME Structured(program.codes), NEW T, Inv(T), pc = "run", status = "NONE", NEW x
    PROVE  Captured(x) \in T
<1>1. frame.locals \in [CodeOf(frame.code).localnames -> T]
    BY Ready
<1>2. NULL \in T
    BY AtomsAreValues DEF Inv, Surroundings
<1> QED
    BY <1>1, <1>2, GetIn DEF Captured

LEMMA DeclareFunctionKeeps ==
    ASSUME Structured(program.codes), NEW T, Inv(T), DeclareFunction
    PROVE  IInv'
<1>1. pc = "run" /\ status = "NONE" /\ instr.op = "DECLARE_FUNCTION" /\ Type(TOP) = "code"
    BY DEF DeclareFunction, Op, Valid
<1>2. Takes(instr) = 1 /\ Puts(instr) = 1
    BY <1>1 DEF Takes, Puts
<1>3. TOP \in T /\ TOP[2] \in 1..Len(program.codes)
  <2>1. TOP \in T
      BY <1>1, <1>2, Ready
  <2> QED
      BY <1>1, <2>1 DEF Inv, Surroundings, Universe, MadeOf
<1>4. PICK names, more, where, v :
        /\ names = CodeOf(TOP[2]).upvals
        /\ more = [i \in DOMAIN names |-> Captured(names[i])]
        /\ where = [i \in DOMAIN names |-> Len(cells) + i]
        /\ v = Func(TOP[2], where)
    OBVIOUS
<1>5. /\ program' = program /\ status' = status /\ cells' = cells \o more
      /\ func' = func /\ globals' = globals /\ err' = err
      /\ SetFrame(Push(Pop(fetched, Takes(instr)), v))
    BY <1>2, <1>4 DEF DeclareFunction
<1>6. names \in Seq(STRING) /\ Len(names) \in Nat /\ DOMAIN names = 1..Len(names)
  <2>1. names \in Seq(STRING)
      BY <1>3, <1>4 DEF Structured, StructuredCode, CodeOf
  <2> QED
      BY <2>1
<1>7. more \in Seq(T) /\ Len(more) = Len(names)
    BY <1>1, <1>4, <1>6, CapturedIn
<1>8. cells \in Seq(T) /\ Len(cells) \in Nat
    BY DEF Inv, Surroundings
<1>9. PICK m : m = Len(cells) + Len(names)
    OBVIOUS
<1>10. cells' \in Seq(T) /\ Len(cells') = m /\ m \in Nat /\ Len(cells) <= m
    BY <1>5, <1>6, <1>7, <1>8, <1>9, ConcatProperties
<1>11. where \in Seq(1..m)
  <2>1. \A i \in 1..Len(names) : Len(cells) + i \in 1..m
      BY <1>6, <1>8, <1>9
  <2> QED
      BY <1>4, <1>6, <2>1
<1>12. MadeOf(v, T, Len(program.codes), m)
    BY <1>3, <1>4, <1>11 DEF Func, Type, MadeOf
<1>13. PICK T2 : T2 = T \cup {v}
    OBVIOUS
<1>14. /\ Universe(T, Len(program.codes), m)
       /\ Surroundings(T)
    BY <1>8, <1>10, MoreCells DEF Inv, Surroundings
<1>15. Universe(T2, Len(program.codes), m) /\ T \subseteq T2 /\ v \in T2
    BY <1>12, <1>13, <1>14, Grow
<1>16. cells' \in Seq(T2)
    BY <1>10, <1>15, FramesGrow
<1>17. Surroundings(T2)'
    BY <1>5, <1>10, <1>14, <1>15, <1>16 DEF Surroundings
<1> QED
    BY <1>1, <1>2, <1>5, <1>15, <1>17, Pushes

LEMMA CallPrintKeeps ==
    ASSUME Structured(program.codes), NEW T, Inv(T), CallPrint
    PROVE  IInv'
<1>1. pc = "run" /\ status = "NONE" /\ instr.op = "CALL_FUNCTION"
    BY DEF CallPrint, Called, Op
<1>2. Takes(instr) = instr.arg + 1 /\ Puts(instr) = 1
    BY <1>1 DEF Takes, Puts
<1>3. PICK v : v = None
    OBVIOUS
<1>4. MadeOf(v, T, Len(program.codes), Len(cells))
    BY <1>3, Simple DEF None, Type
<1>5. /\ SetFrame(Push(Pop(fetched, Takes(instr)), v))
      /\ program' = program /\ status' = status /\ cells' = cells
      /\ func' = func /\ globals' = globals /\ err' = err
    BY <1>2, <1>3 DEF CallPrint
<1> QED
    BY <1>1, <1>2, <1>4, <1>5, Yields

LEMMA CallOtherKeeps ==
    ASSUME Structured(program.codes), NEW T, Inv(T), CallOther
    PROVE  IInv'
<1>1. pc = "run" /\ status = "NONE" /\ instr.op = "CALL_FUNCTION"
    BY DEF CallOther, Op
<1>2. Takes(instr) = instr.arg + 1 /\ Puts(instr) = 1
    BY <1>1 DEF Takes, Puts
<1>3. PICK v : v = NULL
    OBVIOUS
<1>4. MadeOf(v, T, Len(program.codes), Len(cells))
    BY <1>3, Simple DEF NULL, Type
<1>5. /\ SetFrame(Push(Pop(fetched, Takes(instr)), v))
      /\ program' = program /\ status' = status /\ cells' = cells
      /\ func' = func /\ globals' = globals /\ err' = Str("object is not callable")
    BY <1>2, <1>3 DEF CallOther, Keep
<1>6. Type(err') = "str"
    BY <1>5, StrIs
<1> QED
    BY <1>1, <1>2, <1>4, <1>5, <1>6, Yields

\* A function that is called
LEMMA Starts ==
    ASSUME NEW c, NEW n, StructuredCode(c, n), NEW f,
           f.lasti = 0, f.stack = <<>>, f.blocks = <<>>
    PROVE  Running(c, f) /\ \A a : Unwinding(c, f, "EXCEPTION", a)
<1>1. 0 \in Addr(c) /\ H(c, 0) = 0 /\ E(c, 0) = <<>>
    BY CodeFacts
<1>2. Inside(c, E(c, 0), f.blocks) /\ Above(f.blocks, 0, Len(f.stack))
    BY <1>1 DEF Inside, Above
<1>3. Measured(c) => Len(f.stack) <= D(c, 0) /\ Len(f.stack) <= c.stacksize
    BY <1>1, DepthFacts
<1> QED
    BY <1>1, <1>2, <1>3 DEF Running, Unwinding

\* The frame that calls
LEMMA Suspends ==
    ASSUME NEW c, NEW n, StructuredCode(c, n), NEW f, NEW g,
           f.blocks \in Seq(Block), Len(f.stack) \in Nat, Running(c, f),
           c.code[f.lasti + 1].op = "CALL_FUNCTION",
           g.lasti = f.lasti + 1, g.blocks = f.blocks,
           Len(g.stack) = Len(f.stack) - Takes(c.code[f.lasti + 1])
    PROVE  Waiting(c, g)
<1> DEFINE i == f.lasti
           t == Takes(c.code[i + 1])
<1>1. i \in Addr(c) /\ Inside(c, E(c, i), f.blocks) /\ Above(f.blocks, H(c, i), Len(f.stack))
    BY DEF Running
<1>2. H(c, i) \in Nat /\ t \in 0..H(c, i)
    BY <1>1, CodeFacts
<1>3. Follows(c, i, i + 1, 1)
  <2>1. Puts(c.code[i + 1]) = 1
      BY DEF Puts
  <2> QED
      BY <2>1, NextOf
<1>4. i + 1 \in Addr(c) /\ E(c, i + 1) = E(c, i) /\ H(c, i + 1) <= H(c, i) - t + 1
    BY <1>1, <1>3, Follow DEF Follows
<1>5. H(c, i + 1) \in Nat
    BY <1>4, CodeFacts
<1> HIDE DEF t
<1>6. Above(f.blocks, H(c, i + 1), Len(f.stack) - t + 1)
  <2>1. /\ H(c, i + 1) - H(c, i) <= (Len(f.stack) - t + 1) - Len(f.stack)
        /\ Len(f.stack) - t + 1 \in Int
      BY <1>2, <1>4, <1>5
  <2> QED
      BY <1>1, <1>2, <1>5, <2>1, AboveShifts
<1>7. Above(f.blocks, 0, Len(f.stack) - t)
  <2>1. 0 - H(c, i) <= (Len(f.stack) - t) - Len(f.stack) /\ Len(f.stack) - t \in Int
      BY <1>2
  <2> QED
      BY <1>1, <1>2, <2>1, AboveShifts
<1>8. Measured(c) => Len(f.stack) - t + 1 <= D(c, i + 1)
  <2>1. SUFFICES ASSUME Measured(c)
                 PROVE  Len(f.stack) - t + 1 <= D(c, i + 1)
      OBVIOUS
  <2>2. D(c, i) \in Nat /\ D(c, i + 1) \in Nat /\ Len(f.stack) <= D(c, i)
      BY <1>1, <1>4, <2>1, DepthFacts DEF Running
  <2>3. D(c, i) - t + 1 <= D(c, i + 1)
      BY <1>1, <1>3, <2>1, DepthFacts DEF Follows, t
  <2> QED
      BY <1>2, <2>2, <2>3
<1> QED
    BY <1>1, <1>4, <1>6, <1>7, <1>8 DEF Waiting, t

\* It has the result.
LEMMA Resumes ==
    ASSUME NEW c, NEW f, NEW g, Waiting(c, f),
           g.lasti = f.lasti, g.blocks = f.blocks, Len(g.stack) = Len(f.stack) + 1
    PROVE  Running(c, g)
BY DEF Waiting, Running

LEMMA ArgsIn ==
    ASSUME Structured(program.codes), NEW T, Inv(T), pc = "run", status = "NONE",
           instr.op = "CALL_FUNCTION"
    PROVE  Args \in Seq(T)
<1>1. /\ frame.stack \in Seq(T) /\ Len(frame.stack) \in Nat
      /\ Takes(instr) \in 0..Len(frame.stack) /\ instr.arg \in Nat
    BY Ready DEF WellFormed
<1>2. Takes(instr) = instr.arg + 1
    BY DEF Takes
<1>3. /\ Len(frame.stack) - instr.arg \in 1..Len(frame.stack) + 1
      /\ Len(frame.stack) - 1 \in 0..Len(frame.stack)
    BY <1>1, <1>2
<1> QED
    BY <1>1, <1>3, Piece DEF Args

\* COFrame_New() makes a frame of the program.
LEMMA NewFrameIs ==
    ASSUME NEW T, NEW a \in 1..Len(program.codes), NEW args \in Seq(T), NULL \in T
    PROVE  /\ NewFrame(a, args) \in Frame(program.codes, T)
           /\ NewFrame(a, args).code = a /\ NewFrame(a, args).lasti = 0
           /\ NewFrame(a, args).stack = <<>> /\ NewFrame(a, args).blocks = <<>>
<1> DEFINE lo == [n \in CodeOf(a).localnames |->
                    IF \E i \in DOMAIN args : CodeOf(a).args[i] = n
                    THEN args[CHOOSE i \in DOMAIN args : CodeOf(a).args[i] = n]
                    ELSE NULL]
<1>1. lo \in [CodeOf(a).localnames -> T]
    OBVIOUS
<1>2. NewFrame(a, args) = Rec(a, 0, <<>>, <<>>, lo)
    BY DEF NewFrame, Rec
<1>3. PICK l, s, b, x : l = 0 /\ s = <<>> /\ b = <<>> /\ x = lo
    OBVIOUS
<1> HIDE DEF lo
<1>4. x \in [program.codes[a].localnames -> T]
    BY <1>1, <1>3 DEF CodeOf
<1>5. l \in Nat /\ s \in Seq(T) /\ b \in Seq(Block)
    BY <1>3
<1>6. /\ Rec(a, l, s, b, x) \in Frame(program.codes, T)
      /\ Rec(a, l, s, b, x).code = a /\ Rec(a, l, s, b, x).lasti = l
      /\ Rec(a, l, s, b, x).stack = s /\ Rec(a, l, s, b, x).blocks = b
  <2>1. Rec(a, l, s, b, x) \in Frame(program.codes, T)
      BY <1>4, <1>5, IsFrame
  <2> QED
      BY <2>1 DEF Rec
<1> QED
    BY <1>2, <1>3, <1>6

LEMMA CallFunctionKeeps ==
    ASSUME Structured(program.codes), NEW T, Inv(T), CallFunction
    PROVE  IInv'
<1>1. pc = "run" /\ status = "NONE" /\ instr.op = "CALL_FUNCTION" /\ Type(TOP) = "function"
    BY DEF CallFunction, Called, Op
<1>2. Takes(instr) = instr.arg + 1 /\ instr.arg \in Nat
    BY <1>1, Ready DEF Takes, WellFormed
<1>3. TOP \in T /\ TOP[2] \in 1..Len(program.codes) /\ Surroundings(T)
  <2>1. TOP \in T
      BY <1>1, <1>2, Ready
  <2> QED
      BY <1>1, <2>1 DEF Inv, Surroundings, Universe, MadeOf
<1>4. PICK wrong, args :
        /\ wrong = (instr.arg \notin {0, Len(CodeOf(TOP[2]).args)})
        /\ args = IF wrong THEN <<>> ELSE Args
    OBVIOUS
<1>5. PICK caller, callee, mid, e :
        /\ caller = Pop(fetched, Takes(instr)) /\ callee = NewFrame(TOP[2], args)
        /\ mid = [frames EXCEPT ![Len(frames)] = caller] /\ e = err'
    OBVIOUS
<1>6. /\ frames' = Append(mid, callee)
      /\ \/ status' = status /\ err' = err
         \/ status' = "EXCEPTION" /\ err' = Str("wrong number of arguments")
      /\ program' = program /\ cells' = cells /\ globals' = globals /\ func' = TOP
      /\ pc' = pc
  <2>1. frames' = Append(mid, callee)
      BY <1>2, <1>4, <1>5 DEF CallFunction
  <2>2. \/ status' = status /\ err' = err
        \/ status' = "EXCEPTION" /\ err' = Str("wrong number of arguments")
      BY DEF CallFunction
  <2> QED
      BY <2>1, <2>2 DEF CallFunction
<1>7. PICK T2 : T2 = T \cup {e}
    OBVIOUS
<1>8. Universe(T2, Len(program.codes), Len(cells)) /\ T \subseteq T2 /\ e \in T2
  <2>1. MadeOf(e, T, Len(program.codes), Len(cells))
    <3>1. CASE e = err
        BY <1>3, <3>1 DEF Surroundings, Universe
    <3>2. CASE Type(e) = "str"
        BY <3>2, Simple
    <3> QED
        BY <1>5, <1>6, <3>1, <3>2, StrIs
  <2> QED
      BY <1>3, <1>7, <2>1, Grow DEF Surroundings
<1>9. Surroundings(T2)'
  <2>1. cells \in Seq(T2)
      BY <1>3, <1>8, FramesGrow DEF Surroundings
  <2> QED
      BY <1>1, <1>3, <1>5, <1>6, <1>8, <2>1 DEF Surroundings
<1>10. /\ callee \in Frame(program.codes, T2)
       /\ callee.code = TOP[2] /\ callee.lasti = 0 /\ callee.stack = <<>> /\ callee.blocks = <<>>
  <2>1. args \in Seq(T)
      BY <1>1, <1>4, ArgsIn
  <2>2. args \in Seq(T2) /\ NULL \in T2
      BY <1>8, <2>1, FramesGrow, AtomsAreValues
  <2> QED
      BY <1>3, <1>5, <2>2, NewFrameIs
<1>11. /\ caller \in Frame(program.codes, T2) /\ caller.code = frame.code
       /\ Waiting(CodeOf(caller.code), caller)
  <2>1. PICK low, l, lo : /\ low = SubSeq(frame.stack, 1, Len(frame.stack) - Takes(instr))
                          /\ l = frame.lasti + 1 /\ lo = frame.locals
      OBVIOUS
  <2>2. /\ low \in Seq(T) /\ Len(low) = Len(frame.stack) - Takes(instr)
        /\ caller = Rec(frame.code, l, low, frame.blocks, lo)
      BY <1>1, <1>5, <2>1, Low
  <2>3. /\ StructuredCode(CodeOf(frame.code), Len(program.codes))
        /\ Running(CodeOf(frame.code), frame) /\ frame.lasti \in Nat
        /\ instr = CodeOf(frame.code).code[frame.lasti + 1]
        /\ frame.code \in 1..Len(program.codes)
        /\ frame.blocks \in Seq(Block) /\ Len(frame.stack) \in Nat
        /\ frame.locals \in [program.codes[frame.code].localnames -> T]
      BY <1>1, Ready DEF CodeOf
  <2>4. l \in Nat /\ low \in Seq(T2) /\ lo \in [program.codes[frame.code].localnames -> T2]
      BY <1>8, <2>1, <2>2, <2>3, FramesGrow
  <2>5. caller \in Frame(program.codes, T2)
      BY <2>2, <2>3, <2>4, IsFrame
  <2>6. /\ caller.code = frame.code /\ caller.lasti = frame.lasti + 1
        /\ caller.stack = low /\ caller.blocks = frame.blocks
      BY <2>1, <2>2 DEF Rec
  <2>7. Waiting(CodeOf(frame.code), caller)
      BY <1>1, <2>2, <2>3, <2>6, Suspends
  <2> QED
      BY <2>5, <2>6, <2>7
<1>12. Len(frames) \in Nat /\ Len(frames) \in 1..Len(frames)
    BY <1>1, Here
<1>13. /\ mid \in Seq(Frame(program.codes, T2)) /\ Len(mid) = Len(frames)
       /\ \A k \in 1..Len(frames) : mid[k] = IF k = Len(frames) THEN caller ELSE frames[k]
  <2>1. frames \in Seq(Frame(program.codes, T2))
      BY <1>8, FramesGrow DEF Inv
  <2> QED
      BY <1>5, <1>11, <1>12, <2>1, ExceptSeq
<1>14. /\ frames' \in Seq(Frame(program.codes, T2)) /\ Len(frames') = Len(frames) + 1
       /\ frames'[Len(frames) + 1] = callee
       /\ \A k \in 1..Len(frames) : frames'[k] = IF k = Len(frames) THEN caller ELSE frames[k]
  <2>1. /\ Append(mid, callee) \in Seq(Frame(program.codes, T2))
        /\ Len(Append(mid, callee)) = Len(mid) + 1
        /\ Append(mid, callee)[Len(mid) + 1] = callee
        /\ \A k \in 1..Len(mid) : Append(mid, callee)[k] = mid[k]
      BY <1>10, <1>13, Added
  <2> QED
      BY <1>6, <1>13, <2>1
<1>15. \A k \in 1..Len(frames) : Waiting(CodeOf(frames'[k].code), frames'[k])
  <2>1. \A k \in 1..Len(frames) - 1 : Waiting(CodeOf(frames[k].code), frames[k])
      BY DEF Inv
  <2> QED
      BY <1>11, <1>12, <1>14, <2>1
<1>16. Running(CodeOf(callee.code), callee) /\ \A a : Unwinding(CodeOf(callee.code), callee, "EXCEPTION", a)
  <2>1. StructuredCode(CodeOf(callee.code), Len(program.codes))
      BY <1>3, <1>10 DEF Structured, CodeOf
  <2> QED
      BY <1>10, <2>1, Starts
<1>17. frame' = callee /\ frames' # <<>> /\ Len(frames') - 1 = Len(frames)
    BY <1>12, <1>14 DEF frame
<1>18. Placed(frame)'
    BY <1>1, <1>6, <1>16, <1>17 DEF Placed, CodeOf
<1>19. \A k \in 1..Len(frames') - 1 : Waiting(program'.codes[frames'[k].code], frames'[k])
    BY <1>6, <1>15, <1>17 DEF CodeOf
<1>20. Inv(T2)'
    BY <1>6, <1>9, <1>14, <1>17, <1>18, <1>19 DEF Inv, CodeOf
<1> QED
    BY <1>20 DEF IInv

LEMMA ReturnKeeps ==
    ASSUME Structured(program.codes), NEW T, Inv(T), Return
    PROVE  IInv'
<1>1. pc = "run" /\ status = "NONE" /\ instr.op = "RETURN"
    BY DEF Return, Op
<1>2. TOP \in T /\ Surroundings(T)
  <2>1. Takes(instr) = 1
      BY <1>1 DEF Takes
  <2> QED
      BY <1>1, <2>1, Ready DEF Inv
<1>3. PICK back, v, n : back = SubSeq(frames, 1, Len(frames) - 1) /\ v = TOP /\ n = Len(frames) - 1
    OBVIOUS
<1>4. /\ program' = program /\ status' = status /\ cells' = cells
      /\ func' = func /\ globals' = globals /\ err' = err /\ oparg' = oparg
    BY DEF Return
<1>5. IF back = <<>> THEN frames' = <<>> /\ pc' = "exit"
      ELSE frames' = [back EXCEPT ![Len(back)] = Push(back[Len(back)], v)] /\ pc' = pc
    BY <1>3 DEF Return
<1>6. Surroundings(T)'
    BY <1>2, <1>4, SameSurroundings DEF Surroundings
<1>7. /\ n \in Nat /\ Len(frames) = n + 1
      /\ back \in Seq(Frame(program.codes, T)) /\ Len(back) = n
      /\ \A k \in 1..n : back[k] = frames[k]
  <2>1. Len(frames) \in Nat /\ Len(frames) \in 1..Len(frames)
      BY <1>1, Here
  <2>2. frames \in Seq(Frame(program.codes, T)) /\ n \in 0..Len(frames)
      BY <1>3, <2>1 DEF Inv
  <2>3. back = SubSeq(frames, 1, n) /\ n \in Nat /\ Len(frames) = n + 1
      BY <1>3, <2>1
  <2>4. /\ SubSeq(frames, 1, n) \in Seq(Frame(program.codes, T))
        /\ Len(SubSeq(frames, 1, n)) = n
        /\ \A k \in 1..n : SubSeq(frames, 1, n)[k] = frames[k]
      BY <2>2, Prefix
  <2> QED
      BY <2>3, <2>4
<1>8. \A k \in 1..n : Waiting(CodeOf(back[k].code), back[k])
    BY <1>7 DEF Inv
<1>9. CASE back = <<>>
  <2>1. frames' = <<>> /\ pc' = "exit"
      BY <1>5, <1>9
  <2>2. Inv(T)'
      BY <1>6, <2>1 DEF Inv
  <2> QED
      BY <2>2 DEF IInv
<1>10. CASE back # <<>>
  <2>1. PICK f, g : f = back[n] /\ g = Push(f, v)
      OBVIOUS
  <2>2. n \in 1..n
      BY <1>7, <1>10
  <2>3. f \in Frame(program.codes, T) /\ Waiting(CodeOf(f.code), f)
      BY <1>7, <1>8, <2>1, <2>2
  <2>4. PICK s : s = Append(f.stack, v)
      OBVIOUS
  <2>5. /\ s \in Seq(T) /\ Len(s) = Len(f.stack) + 1
        /\ g = Rec(f.code, f.lasti, s, f.blocks, f.locals)
    <3>1. f = Rec(f.code, f.lasti, f.stack, f.blocks, f.locals) /\ f.stack \in Seq(T)
        BY <2>3, FrameIs
    <3>2. g = Push(Rec(f.code, f.lasti, f.stack, f.blocks, f.locals), v)
        BY <2>1, <3>1
    <3> QED
        BY <1>2, <1>3, <2>4, <3>1, <3>2, Added, FrameOps
  <2>6. g \in Frame(program.codes, T)
    <3>1. /\ f.code \in 1..Len(program.codes) /\ f.lasti \in Nat /\ f.blocks \in Seq(Block)
          /\ f.locals \in [program.codes[f.code].localnames -> T]
        BY <2>3, FrameIs
    <3> QED
        BY <2>5, <3>1, IsFrame
  <2>7. g.code = f.code /\ g.lasti = f.lasti /\ g.stack = s /\ g.blocks = f.blocks
      BY <2>5 DEF Rec
  <2>8. Running(CodeOf(g.code), g)
      BY <2>3, <2>5, <2>7, Resumes
  <2>9. /\ frames' \in Seq(Frame(program.codes, T)) /\ Len(frames') = n
        /\ \A k \in 1..n : frames'[k] = IF k = n THEN g ELSE back[k]
        /\ pc' = pc
    <3>1. frames' = [back EXCEPT ![n] = g] /\ pc' = pc
        BY <1>5, <1>7, <1>10, <2>1
    <3> QED
        BY <1>7, <2>2, <2>6, <3>1, ExceptSeq
  <2>10. frame' = g /\ frames' # <<>>
      BY <2>2, <2>9 DEF frame
  <2>11. Placed(frame)'
      BY <1>1, <1>4, <2>8, <2>10 DEF Placed, CodeOf
  <2>12. \A k \in 1..Len(frames') - 1 : Waiting(program'.codes[frames'[k].code], frames'[k])
      BY <1>4, <1>7, <1>8, <2>9 DEF CodeOf
  <2>13. Inv(T)'
      BY <1>4, <1>6, <2>9, <2>10, <2>11, <2>12 DEF Inv, CodeOf
  <2> QED
      BY <2>13 DEF IInv
<1> QED
    BY <1>9, <1>10

-----------------------------------------------------------------------------
(* Blocks and exceptions *)

\* error() ends the program; nothing else changes.
LEMMA Dies ==
    ASSUME Structured(program.codes), NEW T, Inv(T), pc = "run", pc' # "run",
           UNCHANGED <<program, frames, func, status, oparg, err, globals, cells>>
    PROVE  IInv'
<1>1. Surroundings(T)'
    BY SameSurroundings DEF Inv, Surroundings
<1>2. frame' = frame
    BY DEF frame
<1>3. Placed(frame)'
    BY <1>2 DEF Inv, Placed, CodeOf
<1>4. \A k \in 1..Len(frames') - 1 : Waiting(program'.codes[frames'[k].code], frames'[k])
    BY DEF Inv, CodeOf
<1>5. Inv(T)'
    BY <1>1, <1>3, <1>4 DEF Inv, CodeOf
<1> QED
    BY <1>5 DEF IInv

LEMMA CrashKeeps ==
    ASSUME Structured(program.codes), NEW T, Inv(T), Crash
    PROVE  IInv'
BY Dies DEF Crash

LEMMA LeaveKeeps ==
    ASSUME Structured(program.codes), NEW T, Inv(T), Leave
    PROVE  IInv'
<1>1. /\ program' = program /\ cells' = cells /\ func' = func /\ globals' = globals /\ err' = err
      /\ frames' = <<>> /\ pc' = "exit"
    BY DEF Leave
<1>2. Surroundings(T)'
    BY <1>1, SameSurroundings DEF Inv, Surroundings
<1>3. Inv(T)'
    BY <1>1, <1>2 DEF Inv
<1> QED
    BY <1>3 DEF IInv

LEMMA SetupBlockKeeps ==
    ASSUME Structured(program.codes), NEW T, Inv(T), SetupBlock
    PROVE  IInv'
<1> DEFINE c == CodeOf(frame.code)
<1>1. PICK type \in BlockTypes :
        /\ Op(type)
        /\ IF Len(frame.blocks) >= FRAME_MAXBLOCKS
           THEN pc' = "fatal" /\ UNCHANGED frames
           ELSE /\ SetFrame([fetched EXCEPT !.blocks = Append(fetched.blocks,
                     [type |-> type, handler |-> instr.arg, level |-> Len(frame.stack)])])
                /\ UNCHANGED pc
        /\ UNCHANGED <<program, func, status, oparg, err, globals, cells, out, given>>
    BY DEF SetupBlock
<1>2. pc = "run" /\ status = "NONE" /\ instr.op = type
    BY <1>1 DEF Op
<1>3. /\ StructuredCode(c, Len(program.codes)) /\ WellFormed(c, Len(program.codes), instr)
      /\ Running(c, frame) /\ frame.lasti \in Addr(c) /\ frame.lasti \in Nat
      /\ instr = c.code[frame.lasti + 1]
      /\ frame.code \in 1..Len(program.codes)
      /\ frame.stack \in Seq(T) /\ Len(frame.stack) \in Nat /\ frame.blocks \in Seq(Block)
      /\ frame.locals \in [c.localnames -> T]
    BY <1>2, Ready
<1>4. instr.op \in {"SETUP_LOOP", "SETUP_TRY"}
    BY <1>2, <1>3 DEF WellFormed, BlockTypes
<1>5. CASE pc' = "fatal" /\ UNCHANGED frames
    BY <1>1, <1>2, <1>5, Dies
<1>6. CASE SetFrame([fetched EXCEPT !.blocks = Append(fetched.blocks,
                     [type |-> type, handler |-> instr.arg, level |-> Len(frame.stack)])])
  <2>1. PICK b, bs, l, s, lo :
          /\ b = [type |-> type, handler |-> instr.arg, level |-> Len(frame.stack)]
          /\ bs = Append(frame.blocks, b)
          /\ l = frame.lasti + 1 /\ s = frame.stack /\ lo = frame.locals
      OBVIOUS
  <2>2. l \in Addr(c) /\ E(c, l) = Append(E(c, frame.lasti), frame.lasti) /\ H(c, l) <= 0
    <3>1. Goes(l, Append(E(c, frame.lasti), frame.lasti), 0)
            \in Successors(c.code, Heights(c.code), frame.lasti, 0)
        BY <1>3, <1>4, <2>1 DEF Successors, E
    <3> QED
        BY <1>3, <3>1, Follow
  <2>3. instr.arg \in Nat
    <3>1. \E at, h : Goes(instr.arg, at, h) \in Successors(c.code, Heights(c.code), frame.lasti, 0)
        BY <1>3, <1>4 DEF Successors
    <3>2. instr.arg \in Addr(c)
        BY <1>3, <3>1, Follow
    <3> QED
        BY <1>3, <3>2, CodeFacts
  <2>4. /\ b \in Block /\ b.type = c.code[frame.lasti + 1].op
        /\ b.handler = c.code[frame.lasti + 1].arg /\ b.level = Len(frame.stack)
      BY <1>2, <1>3, <2>1, <2>3 DEF Block
  <2>5. Inside(c, E(c, l), bs) /\ Above(bs, 0, Len(frame.stack))
    <3>1. /\ Inside(c, E(c, frame.lasti), frame.blocks)
          /\ Above(frame.blocks, H(c, frame.lasti), Len(frame.stack))
          /\ Measured(c) => Len(frame.stack) <= D(c, frame.lasti)
        BY <1>3 DEF Running
    <3>2. PICK i, m, old : i = frame.lasti /\ m = Len(frame.stack) /\ old = frame.blocks
        OBVIOUS
    <3>3. Inside(c, Append(E(c, i), i), Append(old, b)) /\ Above(Append(old, b), 0, m)
        BY <1>3, <2>4, <3>1, <3>2, Enters
    <3> QED
        BY <2>1, <2>2, <3>2, <3>3
  <2>6. bs \in Seq(Block)
      BY <1>3, <2>1, <2>4, Added
  <2>7. PICK g : g = Rec(frame.code, l, s, bs, lo)
      OBVIOUS
  <2>8. SetFrame(g)
    <3>1. fetched = Rec(frame.code, l, s, frame.blocks, lo)
        BY <1>2, <2>1, Here
    <3>2. PICK f : f = fetched
        OBVIOUS
    <3>3. f.blocks = frame.blocks /\ [f EXCEPT !.blocks = bs] = g
        BY <2>7, <3>1, <3>2 DEF Rec
    <3>4. SetFrame([f EXCEPT !.blocks = Append(f.blocks, b)])
        BY <1>6, <2>1, <3>2
    <3>5. Append(f.blocks, b) = bs
        BY <2>1, <3>3
    <3> QED
        BY <3>3, <3>4, <3>5
  <2>9. g \in Frame(program.codes, T)
    <3>1. l \in Nat /\ s \in Seq(T) /\ lo \in [program.codes[frame.code].localnames -> T]
        BY <1>3, <2>1 DEF CodeOf
    <3> QED
        BY <1>3, <2>6, <2>7, <3>1, IsFrame
  <2>10. g.code = frame.code /\ g.lasti = l /\ g.stack = s /\ g.blocks = bs
      BY <2>7 DEF Rec
  <2>11. Running(c, g)
    <3>1. H(c, l) \in Nat
        BY <1>3, <2>2, CodeFacts
    <3>2. H(c, l) = 0
        BY <2>2, <3>1
    <3>3. Measured(c) => Len(frame.stack) <= D(c, l)
      <4>1. SUFFICES ASSUME Measured(c)
                     PROVE  Len(frame.stack) <= D(c, l)
          OBVIOUS
      <4>2. Len(frame.stack) <= D(c, frame.lasti) /\ D(c, frame.lasti) \in Nat /\ D(c, l) \in Nat
          BY <1>3, <2>2, <4>1, DepthFacts DEF Running
      <4>3. Goes(l, Append(E(c, frame.lasti), frame.lasti), D(c, frame.lasti))
              \in Successors(c.code, Depths(c.code), frame.lasti, D(c, frame.lasti))
          BY <1>3, <1>4, <2>1 DEF Successors, E
      <4>4. D(c, frame.lasti) <= D(c, l)
          BY <1>3, <4>1, <4>3, DepthFacts
      <4> QED
          BY <1>3, <4>2, <4>4
    <3> QED
        BY <2>1, <2>2, <2>5, <2>10, <3>2, <3>3 DEF Running
  <2>12. /\ program' = program /\ status' = status
         /\ cells' = cells /\ func' = func /\ globals' = globals /\ err' = err
      BY <1>1
  <2>13. Surroundings(T)'
      BY <2>12, SameSurroundings DEF Inv, Surroundings
  <2> QED
      BY <1>2, <2>8, <2>9, <2>10, <2>11, <2>12, <2>13, Settles
<1> QED
    BY <1>1, <1>5, <1>6

\* The frame jumps.
LEMMA Jumped ==
    ASSUME NEW codes, NEW T, NEW f \in Frame(codes, T), NEW i \in Nat
    PROVE  /\ JumpTo(f, i) \in Frame(codes, T)
           /\ JumpTo(f, i).code = f.code /\ JumpTo(f, i).lasti = i
           /\ JumpTo(f, i).stack = f.stack /\ JumpTo(f, i).blocks = f.blocks
<1>1. /\ f = Rec(f.code, f.lasti, f.stack, f.blocks, f.locals) /\ f.code \in 1..Len(codes)
      /\ f.stack \in Seq(T) /\ f.blocks \in Seq(Block) /\ f.locals \in [codes[f.code].localnames -> T]
    BY FrameIs
<1>2. JumpTo(f, i) = Rec(f.code, i, f.stack, f.blocks, f.locals)
    BY <1>1, FrameOps
<1>3. Rec(f.code, i, f.stack, f.blocks, f.locals) \in Frame(codes, T)
    BY <1>1, IsFrame
<1> QED
    BY <1>2, <1>3 DEF Rec

LEMMA Pushed ==
    ASSUME NEW codes, NEW T, NEW f \in Frame(codes, T), NEW v \in T
    PROVE  /\ Push(f, v) \in Frame(codes, T)
           /\ Push(f, v).code = f.code /\ Push(f, v).lasti = f.lasti
           /\ Len(Push(f, v).stack) = Len(f.stack) + 1 /\ Push(f, v).blocks = f.blocks
<1>1. /\ f = Rec(f.code, f.lasti, f.stack, f.blocks, f.locals) /\ f.code \in 1..Len(codes)
      /\ f.lasti \in Nat
      /\ f.stack \in Seq(T) /\ f.blocks \in Seq(Block) /\ f.locals \in [codes[f.code].localnames -> T]
    BY FrameIs
<1>2. PICK s : s = Append(f.stack, v)
    OBVIOUS
<1>3. s \in Seq(T) /\ Len(s) = Len(f.stack) + 1
    BY <1>1, <1>2, Added
<1>4. Push(f, v) = Rec(f.code, f.lasti, s, f.blocks, f.locals)
    BY <1>1, <1>2, FrameOps
<1>5. Rec(f.code, f.lasti, s, f.blocks, f.locals) \in Frame(codes, T)
    BY <1>1, <1>3, IsFrame
<1> QED
    BY <1>3, <1>4, <1>5 DEF Rec

\* The innermost block of a frame whose blocks are those of i is left.
LEMMA Left ==
    ASSUME NEW codes, NEW T, NEW f \in Frame(codes, T), NEW c, NEW n, StructuredCode(c, n),
           NEW i \in Addr(c), Inside(c, E(c, i), f.blocks), Above(f.blocks, 0, Len(f.stack)),
           f.blocks # <<>>
    PROVE  LET b == f.blocks[Len(f.blocks)]
               at == E(c, i)
               j == at[Len(at)]
               g == LeaveBlock(f)
           IN /\ at # <<>> /\ j \in Addr(c)
              /\ b.type = c.code[j + 1].op /\ b.handler = c.code[j + 1].arg
              /\ b.type \in {"SETUP_LOOP", "SETUP_TRY"}
              /\ g \in Frame(codes, T) /\ g.code = f.code /\ g.lasti = f.lasti
              /\ Inside(c, E(c, j), g.blocks)
              /\ Above(g.blocks, H(c, j), Len(g.stack))
              /\ H(c, j) \in Nat
              /\ Measured(c) => Len(g.stack) <= D(c, j)
<1>1. /\ f.code \in 1..Len(codes) /\ f.lasti \in Nat
      /\ f.stack \in Seq(T) /\ f.blocks \in Seq(Block) /\ f.locals \in [codes[f.code].localnames -> T]
    BY FrameIs
<1>2. PICK bs, last, level, rest, s, j :
        /\ bs = f.blocks /\ last = Len(bs) /\ level = bs[last].level
        /\ rest = SubSeq(bs, 1, last - 1) /\ s = SubSeq(f.stack, 1, level) /\ j = E(c, i)[last]
    OBVIOUS
<1>3. /\ last \in 1..Len(E(c, i)) /\ last = Len(E(c, i)) /\ j \in Addr(c)
      /\ bs[last].type = c.code[j + 1].op /\ bs[last].handler = c.code[j + 1].arg
      /\ c.code[j + 1].op \in {"SETUP_LOOP", "SETUP_TRY"}
      /\ rest \in Seq(Block) /\ Inside(c, E(c, j), rest) /\ Above(rest, H(c, j), level)
      /\ Measured(c) => level <= D(c, j)
    BY <1>1, <1>2, Leaves
<1>4. level <= Len(f.stack)
  <2>1. last \in 1..Len(bs) /\ level \in Nat
      BY <1>1, <1>2, <1>3, Levels
  <2>2. bs[last].level + 0 <= Len(f.stack)
      BY <1>2, <2>1 DEF Above
  <2> QED
      BY <1>2, <2>1, <2>2
<1>5. /\ LeaveBlock(f) = Rec(f.code, f.lasti, s, rest, f.locals)
      /\ s \in Seq(T) /\ Len(s) = level
    BY <1>2, <1>4, BlockLeft
<1>6. Rec(f.code, f.lasti, s, rest, f.locals) \in Frame(codes, T)
    BY <1>1, <1>3, <1>5, IsFrame
<1>7. PICK g : g = LeaveBlock(f)
    OBVIOUS
<1>8. /\ g \in Frame(codes, T) /\ g.code = f.code /\ g.lasti = f.lasti
      /\ g.blocks = rest /\ Len(g.stack) = level
    BY <1>5, <1>6, <1>7 DEF Rec
<1>9. H(c, j) \in Nat /\ E(c, i) # <<>>
    BY <1>3, CodeFacts
<1> QED
    BY <1>2, <1>3, <1>7, <1>8, <1>9

LEMMA PopBlockKeeps ==
    ASSUME Structured(program.codes), NEW T, Inv(T), PopBlock
    PROVE  IInv'
<1> DEFINE c == CodeOf(frame.code)
<1>1. /\ pc = "run" /\ status = "NONE" /\ instr.op = "POP_BLOCK"
      /\ program' = program /\ status' = status /\ oparg' = oparg
      /\ cells' = cells /\ func' = func /\ globals' = globals /\ err' = err
    BY DEF PopBlock, Op
<1>2. CASE frame.blocks = <<>>
  <2>1. pc' = "fatal" /\ frames' = frames
      BY <1>2 DEF PopBlock
  <2> QED
      BY <1>1, <2>1, Dies
<1>3. CASE frame.blocks # <<>>
  <2>1. SetFrame(LeaveBlock(fetched))
      BY <1>3 DEF PopBlock
  <2>2. PICK i, l, f, n : i = frame.lasti /\ l = i + 1 /\ f = fetched /\ n = Len(program.codes)
      OBVIOUS
  <2>3. /\ StructuredCode(c, n)
        /\ Running(c, frame) /\ i \in Addr(c) /\ i \in Nat
        /\ instr = c.code[i + 1]
        /\ frame.code \in 1..Len(program.codes)
        /\ frame.stack \in Seq(T) /\ Len(frame.stack) \in Nat /\ frame.blocks \in Seq(Block)
        /\ frame.locals \in [program.codes[frame.code].localnames -> T]
      BY <1>1, <2>2, Ready DEF CodeOf
  <2>4. /\ f \in Frame(program.codes, T) /\ f.code = frame.code /\ f.lasti = l
        /\ f.stack = frame.stack /\ f.blocks = frame.blocks
    <3>1. f = Rec(frame.code, l, frame.stack, frame.blocks, frame.locals)
        BY <1>1, <2>2, Here
    <3>2. l \in Nat
        BY <2>2, <2>3
    <3>3. Rec(frame.code, l, frame.stack, frame.blocks, frame.locals) \in Frame(program.codes, T)
        BY <2>3, <3>2, IsFrame
    <3> QED
        BY <3>1, <3>3 DEF Rec
  <2>5. Inside(c, E(c, i), f.blocks) /\ Above(f.blocks, 0, Len(f.stack))
    <3>1. Inside(c, E(c, i), f.blocks) /\ Above(f.blocks, H(c, i), Len(f.stack))
        BY <2>2, <2>3, <2>4 DEF Running
    <3>2. H(c, i) \in Nat
        BY <2>3, CodeFacts
    <3>3. 0 - H(c, i) <= Len(f.stack) - Len(f.stack)
        BY <2>3, <2>4, <3>2
    <3> QED
        BY <2>3, <2>4, <3>1, <3>2, <3>3, AboveShifts
  <2>6. PICK j, g : j = E(c, i)[Len(E(c, i))] /\ g = LeaveBlock(f)
      OBVIOUS
  <2>7. /\ E(c, i) # <<>> /\ j \in Addr(c) /\ H(c, j) \in Nat
        /\ g \in Frame(program.codes, T) /\ g.code = frame.code /\ g.lasti = l
        /\ Inside(c, E(c, j), g.blocks) /\ Above(g.blocks, H(c, j), Len(g.stack))
        /\ Measured(c) => Len(g.stack) <= D(c, j)
      BY <1>3, <2>3, <2>4, <2>5, <2>6, Left
  <2>8. l \in Addr(c) /\ E(c, l) = E(c, j) /\ H(c, l) <= H(c, j)
    <3>1. Goes(l, E(c, j), H(c, j)) \in Successors(c.code, Heights(c.code), i, 0)
        BY <1>1, <2>2, <2>3, <2>6, <2>7 DEF Successors, E, H
    <3> QED
        BY <2>3, <3>1, Follow
  <2>9. Running(c, g)
    <3>1. H(c, l) \in Nat
        BY <2>3, <2>8, CodeFacts
    <3>2. g.blocks \in Seq(Block) /\ Len(g.stack) \in Nat
      <4>1. g.blocks \in Seq(Block) /\ g.stack \in Seq(T)
          BY <2>7, FrameIs
      <4> QED
          BY <4>1
    <3>3. H(c, l) - H(c, j) <= Len(g.stack) - Len(g.stack)
        BY <2>7, <2>8, <3>1, <3>2
    <3>4. Above(g.blocks, H(c, l), Len(g.stack))
        BY <2>7, <3>1, <3>2, <3>3, AboveShifts
    <3>5. Measured(c) => Len(g.stack) <= D(c, l)
      <4>1. SUFFICES ASSUME Measured(c)
                     PROVE  Len(g.stack) <= D(c, l)
          OBVIOUS
      <4>2. D(c, j) \in Nat /\ D(c, l) \in Nat
          BY <2>7, <2>8, <4>1, DepthFacts
      <4>3. Goes(l, E(c, j), D(c, j)) \in Successors(c.code, Depths(c.code), i, D(c, i))
          BY <1>1, <2>2, <2>3, <2>6, <2>7 DEF Successors, E, D
      <4>4. D(c, j) <= D(c, l)
          BY <2>3, <4>1, <4>3, DepthFacts
      <4> QED
          BY <2>7, <3>2, <4>1, <4>2, <4>4
    <3> QED
        BY <2>7, <2>8, <3>4, <3>5 DEF Running
  <2>10. Surroundings(T)'
      BY <1>1, SameSurroundings DEF Inv, Surroundings
  <2>11. SetFrame(g)
      BY <2>1, <2>2, <2>6
  <2> QED
      BY <1>1, <2>7, <2>9, <2>10, <2>11, Settles
<1> QED
    BY <1>2, <1>3

LEMMA BreakLoopKeeps ==
    ASSUME Structured(program.codes), NEW T, Inv(T), BreakLoop
    PROVE  IInv'
<1>1. pc = "run" /\ status = "NONE" /\ instr.op = "BREAK_LOOP"
    BY DEF BreakLoop, Op
<1>2. Takes(instr) = 0
    BY <1>1 DEF Takes
<1>3. /\ program' = program /\ status' = "BREAK" /\ cells' = cells
      /\ func' = func /\ globals' = globals /\ err' = err
      /\ SetFrame(Pop(fetched, Takes(instr)))
    BY <1>1, <1>2, Low DEF BreakLoop, Keep
<1>4. err' \in T
    BY <1>3 DEF Inv, Surroundings
<1> QED
    BY <1>1, <1>3, <1>4, Breaks

LEMMA ThrowKeeps ==
    ASSUME Structured(program.codes), NEW T, Inv(T), Throw
    PROVE  IInv'
<1>1. pc = "run" /\ status = "NONE" /\ instr.op = "THROW" /\ instr.arg \in {0, 1}
    BY Ready DEF Throw, Op, WellFormed
<1>2. Takes(instr) = instr.arg
    BY <1>1 DEF Takes
<1>3. CASE instr.arg = 0
  <2>1. Takes(instr) = 0
      BY <1>2, <1>3
  <2>2. /\ program' = program /\ status' = "EXCEPTION" /\ cells' = cells
        /\ func' = func /\ globals' = globals /\ err' = None
        /\ SetFrame(fetched)
      BY <1>3 DEF Throw, Raise, Keep
  <2>3. err' \in T
      BY <2>2, AtomsAreValues DEF Inv, Surroundings
  <2> QED
      BY <1>1, <2>1, <2>2, <2>3, Low, Breaks
<1>4. CASE instr.arg = 1
  <2>1. Takes(instr) = 1
      BY <1>2, <1>4
  <2>2. /\ program' = program /\ status' = "EXCEPTION" /\ cells' = cells
        /\ func' = func /\ globals' = globals /\ err' = TOP
        /\ SetFrame(Pop(fetched, Takes(instr)))
      BY <1>4, <2>1 DEF Throw, Raise, Keep
  <2>3. err' \in T
      BY <1>1, <2>1, <2>2, Ready
  <2> QED
      BY <1>1, <2>2, <2>3, Breaks
<1> QED
    BY <1>1, <1>3, <1>4

LEMMA EndTryKeeps ==
    ASSUME Structured(program.codes), NEW T, Inv(T), EndTry
    PROVE  IInv'
<1>1. pc = "run" /\ status = "NONE" /\ instr.op = "END_TRY"
    BY DEF EndTry, Op
<1>2. Takes(instr) = 1
    BY <1>1 DEF Takes
<1>3. /\ program' = program /\ status' = "EXCEPTION" /\ cells' = cells
      /\ func' = func /\ globals' = globals /\ err' = Message(TOP)
      /\ SetFrame(Pop(fetched, Takes(instr)))
    BY <1>2 DEF EndTry, Raise, Keep
<1>4. Message(TOP) = TOP \/ Message(TOP) = Str("garbage")
    BY DEF Message
<1>5. TOP \in T
    BY <1>1, <1>2, Ready
<1>6. err' \in T \/ Type(err') = "str"
    BY <1>3, <1>4, <1>5, StrIs
<1> QED
    BY <1>1, <1>3, <1>6, Breaks

LEMMA ContinueLoopKeeps ==
    ASSUME Structured(program.codes), NEW T, Inv(T), ContinueLoop
    PROVE  IInv'
<1> DEFINE c == CodeOf(frame.code)
<1>1. /\ pc = "run" /\ status = "NONE" /\ instr.op = "CONTINUE_LOOP"
      /\ program' = program /\ status' = "CONTINUE" /\ oparg' = instr.arg
      /\ cells' = cells /\ func' = func /\ globals' = globals /\ err' = err
      /\ SetFrame(fetched)
    BY DEF ContinueLoop, Op
<1>2. PICK i, l, f, n, a : /\ i = frame.lasti /\ l = i + 1 /\ f = fetched
                           /\ n = Len(program.codes) /\ a = instr.arg
    OBVIOUS
<1>3. /\ StructuredCode(c, n)
      /\ Running(c, frame) /\ i \in Addr(c) /\ i \in Nat
      /\ instr = c.code[i + 1]
      /\ frame.code \in 1..Len(program.codes)
      /\ frame.stack \in Seq(T) /\ Len(frame.stack) \in Nat /\ frame.blocks \in Seq(Block)
      /\ frame.locals \in [program.codes[frame.code].localnames -> T]
    BY <1>1, <1>2, Ready DEF CodeOf
<1>4. /\ f \in Frame(program.codes, T) /\ f.code = frame.code
      /\ f.stack = frame.stack /\ f.blocks = frame.blocks
  <2>1. f = Rec(frame.code, l, frame.stack, frame.blocks, frame.locals)
      BY <1>1, <1>2, Here
  <2>2. l \in Nat
      BY <1>2, <1>3
  <2>3. Rec(frame.code, l, frame.stack, frame.blocks, frame.locals) \in Frame(program.codes, T)
      BY <1>3, <2>2, IsFrame
  <2> QED
      BY <2>1, <2>3 DEF Rec
<1>5. /\ Inside(c, E(c, i), f.blocks) /\ Above(f.blocks, H(c, i), Len(f.stack))
      /\ H(c, i) \in Nat
    BY <1>2, <1>3, <1>4, CodeFacts DEF Running
<1>6. Above(f.blocks, 0, Len(f.stack))
  <2>1. 0 - H(c, i) <= Len(f.stack) - Len(f.stack)
      BY <1>3, <1>4, <1>5
  <2> QED
      BY <1>3, <1>4, <1>5, <2>1, AboveShifts
<1>7. a \in Addr(c) /\ E(c, a) = E(c, i) /\ H(c, a) <= H(c, i)
  <2>1. Takes(c.code[i + 1]) = 0
      BY <1>1, <1>3 DEF Takes
  <2>2. Goes(a, E(c, i), H(c, i) - Takes(c.code[i + 1]))
          \in Successors(c.code, Heights(c.code), i, 0)
      BY <1>1, <1>2, <1>3 DEF Successors, E, H
  <2>3. a \in Addr(c) /\ E(c, a) = E(c, i) /\ H(c, a) <= H(c, i) - Takes(c.code[i + 1])
      BY <1>3, <2>2, Follow
  <2> QED
      BY <1>5, <2>1, <2>3
<1>8. Above(f.blocks, H(c, a), Len(f.stack))
  <2>1. H(c, a) \in Nat
      BY <1>3, <1>7, CodeFacts
  <2>2. H(c, a) - H(c, i) <= Len(f.stack) - Len(f.stack)
      BY <1>3, <1>4, <1>5, <1>7, <2>1
  <2> QED
      BY <1>3, <1>4, <1>5, <2>1, <2>2, AboveShifts
<1>9. f.blocks # <<>> /\ f.blocks[Len(f.blocks)].type = "SETUP_LOOP"
  <2>1. PICK at, m : at = E(c, i) /\ m = Len(at)
      OBVIOUS
  <2>2. at # <<>> /\ c.code[at[m] + 1].op = "SETUP_LOOP" /\ at \in Seq(Addr(c))
    <3>1. WellPlaced(c, Heights(c.code), i) /\ E(c, i) \in Seq(Addr(c))
        BY <1>3, CodeFacts
    <3>2. c.code[i + 1].op = "CONTINUE_LOOP"
        BY <1>1, <1>3
    <3>3. E(c, i) # <<>> /\ c.code[E(c, i)[Len(E(c, i))] + 1].op = "SETUP_LOOP"
        BY <3>1, <3>2 DEF WellPlaced, E
    <3> QED
        BY <2>1, <3>1, <3>3
  <2>3. m \in 1..m
      BY <2>1, <2>2
  <2>4. Len(f.blocks) = m /\ f.blocks[m].type = "SETUP_LOOP"
      BY <1>5, <2>1, <2>2, <2>3 DEF Inside
  <2> QED
      BY <2>3, <2>4
<1>10. Measured(c) => Len(f.stack) <= c.stacksize /\ Len(f.stack) <= D(c, a)
  <2>1. SUFFICES ASSUME Measured(c)
                 PROVE  Len(f.stack) <= c.stacksize /\ Len(f.stack) <= D(c, a)
      OBVIOUS
  <2>2. /\ Len(f.stack) <= D(c, i) /\ D(c, i) \in Nat /\ D(c, a) \in Nat
        /\ D(c, i) <= c.stacksize /\ c.stacksize \in Int
      BY <1>2, <1>3, <1>4, <1>7, <2>1, DepthFacts DEF Running
  <2>3. Takes(c.code[i + 1]) = 0
      BY <1>1, <1>3 DEF Takes
  <2>4. Goes(a, E(c, i), D(c, i) - Takes(c.code[i + 1]))
          \in Successors(c.code, Depths(c.code), i, D(c, i))
      BY <1>1, <1>2, <1>3 DEF Successors, E, D
  <2>5. D(c, i) - Takes(c.code[i + 1]) <= D(c, a)
      BY <1>3, <2>1, <2>4, DepthFacts
  <2> QED
      BY <1>3, <1>4, <2>2, <2>3, <2>5
<1>11. Unwinding(c, f, "CONTINUE", a)
    BY <1>3, <1>5, <1>6, <1>7, <1>8, <1>9, <1>10 DEF Unwinding
<1>12. Surroundings(T)'
    BY <1>1, SameSurroundings DEF Inv, Surroundings
<1>13. SetFrame(f) /\ oparg' = a
    BY <1>1, <1>2
<1> QED
    BY <1>1, <1>4, <1>11, <1>12, <1>13, Settles

\* A jump to the handler of the statement at j
LEMMA Handled ==
    ASSUME NEW c, NEW n, StructuredCode(c, n), NEW j \in Addr(c),
           c.code[j + 1].op \in {"SETUP_LOOP", "SETUP_TRY"},
           NEW d, d = IF c.code[j + 1].op = "SETUP_TRY" THEN 1 ELSE 0
    PROVE  LET a == c.code[j + 1].arg
           IN /\ a \in Addr(c) /\ E(c, a) = E(c, j) /\ H(c, a) <= H(c, j) + d
              /\ Measured(c) => c.code[j + 1].op = "SETUP_LOOP" /\ D(c, j) <= D(c, a)
<1> DEFINE a == c.code[j + 1].arg
<1>1. Takes(c.code[j + 1]) = 0 /\ H(c, j) \in Nat
    BY CodeFacts DEF Takes
<1>2. CASE c.code[j + 1].op = "SETUP_LOOP"
  <2>1. Goes(a, E(c, j), H(c, j) - Takes(c.code[j + 1]))
          \in Successors(c.code, Heights(c.code), j, 0)
      BY <1>2 DEF Successors, E, H
  <2>2. a \in Addr(c) /\ E(c, a) = E(c, j) /\ H(c, a) <= H(c, j) - Takes(c.code[j + 1])
      BY <2>1, Follow
  <2>3. ASSUME Measured(c)
        PROVE  D(c, j) <= D(c, a)
    <3>1. Goes(a, E(c, j), D(c, j) - Takes(c.code[j + 1]))
            \in Successors(c.code, Depths(c.code), j, D(c, j))
        BY <1>2 DEF Successors, E, D
    <3>2. D(c, j) - Takes(c.code[j + 1]) <= D(c, a) /\ D(c, j) \in Nat
        BY <2>3, <3>1, DepthFacts
    <3> QED
        BY <1>1, <3>2
  <2> QED
      BY <1>1, <1>2, <2>2, <2>3
<1>3. CASE c.code[j + 1].op = "SETUP_TRY"
  <2>1. Goes(a, E(c, j), H(c, j) - Takes(c.code[j + 1]) + 1)
          \in Successors(c.code, Heights(c.code), j, 0)
      BY <1>3 DEF Successors, E, H
  <2>2. a \in Addr(c) /\ E(c, a) = E(c, j) /\ H(c, a) <= H(c, j) - Takes(c.code[j + 1]) + 1
      BY <2>1, Follow
  <2>3. ~Measured(c)
    <3>1. j + 1 \in 1..Len(c.code)
      <4>1. j \in Nat /\ Len(c.code) \in Nat
          BY CodeFacts DEF StructuredCode
      <4> QED
          BY <4>1 DEF Addr
    <3> QED
        BY <1>3, <3>1 DEF Measured, WithoutTry
  <2> QED
      BY <1>1, <1>3, <2>2, <2>3
<1> QED
    BY <1>2, <1>3

LEMMA UnwindKeeps ==
    ASSUME Structured(program.codes), NEW T, Inv(T), Unwind
    PROVE  IInv'
<1> DEFINE c == CodeOf(frame.code)
<1>1. PICK n, block, left, v :
        /\ n = Len(program.codes) /\ block = frame.blocks[Len(frame.blocks)]
        /\ left = LeaveBlock(frame) /\ v = err
    OBVIOUS
<1>2. /\ pc = "run" /\ status # "NONE" /\ frame.blocks # <<>>
      /\ CASE block.type = "SETUP_LOOP" /\ status = "CONTINUE" ->
                SetFrame(JumpTo(frame, oparg)) /\ status' = "NONE" /\ err' = err
           [] block.type = "SETUP_LOOP" /\ status = "BREAK" ->
                SetFrame(JumpTo(left, block.handler)) /\ status' = "NONE" /\ err' = err
           [] block.type = "SETUP_TRY" /\ status = "EXCEPTION" ->
                /\ SetFrame(JumpTo(Push(left, v), block.handler))
                /\ status' = "NONE" /\ err' = NULL
           [] OTHER -> SetFrame(left) /\ status' = status /\ err' = err
      /\ program' = program /\ oparg' = oparg
      /\ cells' = cells /\ func' = func /\ globals' = globals
    BY <1>1 DEF Unwind, Keep
<1>3. /\ frame \in Frame(program.codes, T) /\ StructuredCode(c, n)
      /\ frame.stack \in Seq(T) /\ frame.blocks \in Seq(Block) /\ frame.lasti \in Nat
    BY <1>1, <1>2, Here, FrameIs
<1>4. v \in T /\ NULL \in T /\ Surroundings(T)
    BY <1>1, AtomsAreValues DEF Inv, Surroundings
<1>5. Unwinding(c, frame, status, oparg)
    BY <1>2 DEF Inv, Placed
<1>6. PICK i \in Addr(c) :
        /\ Inside(c, E(c, i), frame.blocks)
        /\ Above(frame.blocks, 0, Len(frame.stack))
        /\ status = "CONTINUE" =>
             /\ frame.blocks # <<>> /\ frame.blocks[Len(frame.blocks)].type = "SETUP_LOOP"
             /\ oparg \in Addr(c) /\ E(c, oparg) = E(c, i)
             /\ Above(frame.blocks, H(c, oparg), Len(frame.stack))
             /\ Measured(c) => Len(frame.stack) <= D(c, oparg)
    BY <1>5 DEF Unwinding
<1>7. PICK k : k = E(c, i)[Len(E(c, i))]
    OBVIOUS
<1>8. /\ k \in Addr(c)
      /\ block.type = c.code[k + 1].op /\ block.handler = c.code[k + 1].arg
      /\ block.type \in {"SETUP_LOOP", "SETUP_TRY"}
      /\ left \in Frame(program.codes, T) /\ left.code = frame.code
      /\ Inside(c, E(c, k), left.blocks)
      /\ Above(left.blocks, H(c, k), Len(left.stack))
      /\ H(c, k) \in Nat
      /\ Measured(c) => Len(left.stack) <= D(c, k)
    BY <1>1, <1>2, <1>3, <1>6, <1>7, Left
<1>9. left.blocks \in Seq(Block) /\ Len(left.stack) \in Nat
  <2>1. left.blocks \in Seq(Block) /\ left.stack \in Seq(T)
      BY <1>8, FrameIs
  <2> QED
      BY <2>1
<1>10. ASSUME err' \in T
       PROVE  Surroundings(T)'
    BY <1>2, <1>4, <1>10, SameSurroundings DEF Surroundings
<1>11. CASE block.type = "SETUP_LOOP" /\ status = "CONTINUE"
  <2>1. PICK a, g : a = oparg /\ g = JumpTo(frame, a)
      OBVIOUS
  <2>2. /\ a \in Addr(c) /\ E(c, a) = E(c, i) /\ a \in Nat
        /\ Above(frame.blocks, H(c, a), Len(frame.stack))
        /\ Measured(c) => Len(frame.stack) <= D(c, a)
      BY <1>3, <1>6, <1>11, <2>1, CodeFacts
  <2>3. /\ g \in Frame(program.codes, T) /\ g.code = frame.code /\ g.lasti = a
        /\ g.stack = frame.stack /\ g.blocks = frame.blocks
    <3>1. /\ JumpTo(frame, a) \in Frame(program.codes, T)
          /\ JumpTo(frame, a).code = frame.code /\ JumpTo(frame, a).lasti = a
          /\ JumpTo(frame, a).stack = frame.stack /\ JumpTo(frame, a).blocks = frame.blocks
        BY <1>3, <2>2, Jumped
    <3> QED
        BY <1>3, <2>1, <3>1
  <2>4. Running(c, g)
      BY <1>6, <2>2, <2>3 DEF Running
  <2>5. SetFrame(g) /\ status' = "NONE" /\ err' \in T
      BY <1>1, <1>2, <1>4, <1>11, <2>1
  <2> QED
      BY <1>2, <1>10, <2>3, <2>4, <2>5, Settles
<1>12. CASE block.type = "SETUP_LOOP" /\ status = "BREAK"
  <2>1. PICK a, g : a = block.handler /\ g = JumpTo(left, a)
      OBVIOUS
  <2>2. PICK d : d = 0
      OBVIOUS
  <2>3. /\ a \in Addr(c) /\ E(c, a) = E(c, k) /\ H(c, a) <= H(c, k) + d
        /\ Measured(c) => D(c, k) <= D(c, a)
      BY <1>3, <1>8, <1>12, <2>1, <2>2, Handled
  <2>4. H(c, a) \in Nat /\ a \in Nat
      BY <1>3, <2>3, CodeFacts
  <2>5. H(c, a) - H(c, k) <= Len(left.stack) - Len(left.stack)
      BY <1>8, <1>9, <2>2, <2>3, <2>4
  <2>6. Above(left.blocks, H(c, a), Len(left.stack))
      BY <1>8, <1>9, <2>4, <2>5, AboveShifts
  <2>7. /\ g \in Frame(program.codes, T) /\ g.code = frame.code /\ g.lasti = a
        /\ g.stack = left.stack /\ g.blocks = left.blocks
    <3>1. /\ JumpTo(left, a) \in Frame(program.codes, T)
          /\ JumpTo(left, a).code = left.code /\ JumpTo(left, a).lasti = a
          /\ JumpTo(left, a).stack = left.stack /\ JumpTo(left, a).blocks = left.blocks
        BY <1>8, <2>4, Jumped
    <3> QED
        BY <1>8, <2>1, <3>1
  <2>8. ASSUME Measured(c)
        PROVE  Len(left.stack) <= D(c, a)
    <3>1. /\ D(c, k) \in Nat /\ D(c, a) \in Nat
          /\ Len(left.stack) <= D(c, k) /\ D(c, k) <= D(c, a)
        BY <1>8, <2>3, <2>8, DepthFacts
    <3> QED
        BY <1>9, <3>1
  <2>9. Running(c, g)
      BY <1>8, <2>3, <2>6, <2>7, <2>8 DEF Running
  <2>10. SetFrame(g) /\ status' = "NONE" /\ err' \in T
      BY <1>1, <1>2, <1>4, <1>12, <2>1
  <2> QED
      BY <1>2, <1>10, <2>7, <2>9, <2>10, Settles
<1>13. CASE block.type = "SETUP_TRY" /\ status = "EXCEPTION"
  <2>1. PICK a, p, g : a = block.handler /\ p = Push(left, v) /\ g = JumpTo(p, a)
      OBVIOUS
  <2>2. PICK d : d = 1
      OBVIOUS
  <2>3. /\ a \in Addr(c) /\ E(c, a) = E(c, k) /\ H(c, a) <= H(c, k) + d
        /\ ~Measured(c)
    <3>1. c.code[k + 1].op = "SETUP_TRY" /\ a = c.code[k + 1].arg
        BY <1>8, <1>13, <2>1
    <3>2. d = IF c.code[k + 1].op = "SETUP_TRY" THEN 1 ELSE 0
        BY <2>2, <3>1
    <3>3. /\ a \in Addr(c) /\ E(c, a) = E(c, k) /\ H(c, a) <= H(c, k) + d
          /\ Measured(c) => c.code[k + 1].op = "SETUP_LOOP"
        BY <1>3, <1>8, <3>1, <3>2, Handled
    <3> QED
        BY <3>1, <3>3
  <2>4. H(c, a) \in Nat /\ a \in Nat
      BY <1>3, <2>3, CodeFacts
  <2>5. /\ H(c, a) - H(c, k) <= (Len(left.stack) + 1) - Len(left.stack)
        /\ Len(left.stack) + 1 \in Int
      BY <1>8, <1>9, <2>2, <2>3, <2>4
  <2>6. Above(left.blocks, H(c, a), Len(left.stack) + 1)
      BY <1>8, <1>9, <2>4, <2>5, AboveShifts
  <2>7. /\ p \in Frame(program.codes, T) /\ p.code = frame.code
        /\ Len(p.stack) = Len(left.stack) + 1 /\ p.blocks = left.blocks
      BY <1>4, <1>8, <2>1, Pushed
  <2>8. /\ g \in Frame(program.codes, T) /\ g.code = frame.code /\ g.lasti = a
        /\ Len(g.stack) = Len(left.stack) + 1 /\ g.blocks = left.blocks
      BY <2>1, <2>4, <2>7, Jumped
  <2>9. Running(c, g)
      BY <1>8, <2>3, <2>6, <2>8 DEF Running
  <2>10. SetFrame(g) /\ status' = "NONE" /\ err' \in T
      BY <1>1, <1>2, <1>4, <1>13, <2>1
  <2> QED
      BY <1>2, <1>10, <2>8, <2>9, <2>10, Settles
<1>14. CASE /\ ~(block.type = "SETUP_LOOP" /\ status = "CONTINUE")
            /\ ~(block.type = "SETUP_LOOP" /\ status = "BREAK")
            /\ ~(block.type = "SETUP_TRY" /\ status = "EXCEPTION")
  <2>1. SetFrame(left) /\ status' = status /\ err' \in T
      BY <1>1, <1>2, <1>4, <1>14
  <2>2. status # "CONTINUE"
      BY <1>1, <1>6, <1>14
  <2>3. 0 - H(c, k) <= Len(left.stack) - Len(left.stack)
      BY <1>8, <1>9
  <2>4. Above(left.blocks, 0, Len(left.stack))
      BY <1>8, <1>9, <2>3, AboveShifts
  <2>5. ASSUME Measured(c)
        PROVE  Len(left.stack) <= c.stacksize
    <3>1. /\ D(c, k) \in Nat /\ D(c, k) <= c.stacksize /\ c.stacksize \in Int
          /\ Len(left.stack) <= D(c, k)
        BY <1>8, <2>5, DepthFacts
    <3> QED
        BY <1>9, <3>1
  <2>6. Unwinding(c, left, status', oparg')
      BY <1>8, <2>1, <2>2, <2>4, <2>5 DEF Unwinding
  <2> QED
      BY <1>2, <1>8, <1>10, <2>1, <2>6, Settles
<1> QED
    BY <1>11, <1>12, <1>13, <1>14

-----------------------------------------------------------------------------
(* The program *)

LEMMA InitPlaces == Init => IInv
<1> SUFFICES ASSUME Init, Structured(program.codes)
             PROVE  \E T : Inv(T)
    BY DEF IInv
<1>1. /\ frames = <<NewFrame(1, <<>>)>> /\ func = Func(1, <<>>) /\ status = "NONE"
      /\ err = NULL /\ globals = <<>> /\ cells = <<>> /\ pc = "run"
    BY DEF Init
<1>2. Len(program.codes) \in Nat /\ 1 \in 1..Len(program.codes)
    BY DEF Structured
<1>3. PICK T, g : T = Atoms \cup {func} /\ g = NewFrame(1, <<>>)
    OBVIOUS
<1>4. Universe(Atoms, Len(program.codes), Len(cells))
  <2>1. \A v \in Atoms : Type(v) \notin {"function", "code", "tuple", "list", "listiter"}
    <3>1. /\ Type(NULL) = "NULL" /\ Type(None) = "None" /\ Type(Printer) = "builtin"
          /\ Type(Bool(TRUE)) = "bool" /\ Type(Bool(FALSE)) = "bool"
        BY DEF Type, NULL, None, Printer, Bool
    <3> QED
        BY <3>1 DEF Atoms
  <2> QED
      BY <2>1, Simple DEF Universe
<1>5. Type(func) = "function" /\ func[2] = 1 /\ func[3] = <<>>
    BY <1>1 DEF Func, Type
<1>6. Universe(T, Len(program.codes), Len(cells))
  <2>1. MadeOf(func, Atoms, Len(program.codes), Len(cells))
      BY <1>2, <1>5 DEF MadeOf
  <2> QED
      BY <1>3, <1>4, <2>1, Grow
<1>7. NULL \in T
    BY <1>6, AtomsAreValues
<1>8. Surroundings(T)
    BY <1>1, <1>3, <1>5, <1>6, <1>7 DEF Surroundings
<1>9. /\ g \in Frame(program.codes, T) /\ g.code = 1
      /\ g.lasti = 0 /\ g.stack = <<>> /\ g.blocks = <<>>
  <2>1. PICK args, a : args = <<>> /\ a = 1
      OBVIOUS
  <2>2. args \in Seq(T) /\ a \in 1..Len(program.codes)
      BY <1>2, <2>1
  <2> QED
      BY <1>3, <1>7, <2>1, <2>2, NewFrameIs
<1>10. Running(CodeOf(g.code), g)
  <2>1. StructuredCode(CodeOf(g.code), Len(program.codes))
      BY <1>2, <1>9 DEF Structured, CodeOf
  <2> QED
      BY <1>9, <2>1, Starts
<1>11. /\ frames \in Seq(Frame(program.codes, T)) /\ Len(frames) = 1 /\ frame = g
    BY <1>1, <1>3, <1>9 DEF frame
<1>12. Inv(T)
    BY <1>1, <1>8, <1>10, <1>11 DEF Inv, Placed
<1> QED
    BY <1>12

LEMMA EndFinallyNever ==
    ASSUME Structured(program.codes), NEW T, Inv(T)
    PROVE  ~EndFinally
BY Ready DEF EndFinally, Op, WellFormed

LEMMA ProgramStays == [Next]_vars => program' = program
BY DEF Next, vars, Becomes, Raise, Keep, LoadConst, LoadLocal, LoadName, LoadUpval, StoreLocal,
       StoreName, StoreUpval, DupTop, PopTop, BuildTuple, BuildList, Compare, ExcMatch, JmpZ, JmpX,
       GetIter, ForIter, DeclareFunction, CallPrint, CallFunction, CallOther, Return, SetupBlock,
       PopBlock, BreakLoop, ContinueLoop, Throw, EndTry, EndFinally, Unwind, Leave, Crash

LEMMA StutterKeeps ==
    ASSUME NEW T, Inv(T), UNCHANGED vars
    PROVE  IInv'
<1>1. Surroundings(T)'
    BY DEF Inv, Surroundings, vars
<1>2. frame' = frame
    BY DEF frame, vars
<1>3. frames # <<>> => Placed(frame)'
    BY <1>2 DEF Inv, Placed, CodeOf, vars
<1>4. Inv(T)'
    BY <1>1, <1>3 DEF Inv, CodeOf, vars
<1> QED
    BY <1>4 DEF IInv

LEMMA NextPlaces == IInv /\ [Next]_vars => IInv'
<1> SUFFICES ASSUME IInv, [Next]_vars, Structured(program'.codes)
             PROVE  IInv'
    BY DEF IInv
<1>1. Structured(program.codes)
    BY ProgramStays
<1>2. PICK T : Inv(T)
    BY <1>1 DEF IInv
<1>3. ~EndFinally
    BY <1>1, <1>2, EndFinallyNever
<1> QED
    BY <1>1, <1>2, <1>3, StutterKeeps,
       LoadConstKeeps, LoadLocalKeeps, LoadNameKeeps, LoadUpvalKeeps,
       StoreLocalKeeps, StoreNameKeeps, StoreUpvalKeeps, DupTopKeeps, PopTopKeeps,
       BuildTupleKeeps, BuildListKeeps, CompareKeeps, ExcMatchKeeps, JmpZKeeps, JmpXKeeps,
       GetIterKeeps, ForIterKeeps, DeclareFunctionKeeps, CallPrintKeeps, CallFunctionKeeps,
       CallOtherKeeps, ReturnKeeps, SetupBlockKeeps, PopBlockKeeps, BreakLoopKeeps,
       ContinueLoopKeeps, ThrowKeeps, EndTryKeeps, UnwindKeeps, LeaveKeeps, CrashKeeps
    DEF Next

-----------------------------------------------------------------------------
(* The blocks of a frame *)

Matched(c, f) ==
    /\ Cardinality(Entered(f)) = Len(E(c, f.lasti))
    /\ \A k \in Entered(f) :
         LET outer == {j \in Entered(f) : j <= k}
             setup == c.code[E(c, f.lasti)[Cardinality(outer)] + 1]
         IN /\ f.blocks[k].type = setup.op
            /\ f.blocks[k].handler = setup.arg
            /\ f.blocks[k].level <= Len(f.stack)
            /\ \A j \in outer : f.blocks[j].level <= f.blocks[k].level

LEMMA Matches ==
    ASSUME NEW c, NEW n, StructuredCode(c, n), NEW f, f.blocks \in Seq(Block),
           Len(f.stack) \in Nat, f.lasti \in Addr(c),
           Inside(c, E(c, f.lasti), f.blocks), Above(f.blocks, 0, Len(f.stack))
    PROVE  Matched(c, f)
<1> DEFINE at == E(c, f.lasti)
<1>1. /\ Len(f.blocks) \in Nat /\ Len(at) = Len(f.blocks) /\ DOMAIN f.blocks = 1..Len(f.blocks)
      /\ \A k \in 1..Len(f.blocks) : f.blocks[k].level \in Nat
    BY Levels DEF Inside
<1>2. \A k \in 1..Len(f.blocks) :
        /\ f.blocks[k].type = c.code[at[k] + 1].op
        /\ f.blocks[k].handler = c.code[at[k] + 1].arg
        /\ at[k] \in Addr(c)
        /\ \A j \in 1..k - 1 : f.blocks[j].level + H(c, at[k]) <= f.blocks[k].level
        /\ f.blocks[k].type # "SETUP_FINALLY"
  <2>1. ASSUME NEW k \in 1..Len(f.blocks)
        PROVE  at[k] \in Addr(c) /\ c.code[at[k] + 1].op \in {"SETUP_LOOP", "SETUP_TRY"}
      BY <1>1, Outside
  <2> QED
      BY <1>1, <2>1 DEF Inside
<1>3. Entered(f) = 1..Len(f.blocks)
    BY <1>1, <1>2 DEF Entered
<1>4. \A k \in 0..Len(f.blocks) : Cardinality(1..k) = k
    BY <1>1, FS_Interval
<1>5. ASSUME NEW k \in 1..Len(f.blocks)
      PROVE  {j \in Entered(f) : j <= k} = 1..k
    BY <1>1, <1>3
<1>6. ASSUME NEW k \in 1..Len(f.blocks), NEW j \in 1..k
      PROVE  f.blocks[j].level <= f.blocks[k].level
  <2>1. CASE j = k
      BY <1>1, <2>1
  <2>2. CASE j # k
    <3>1. H(c, at[k]) \in Nat /\ j \in 1..k - 1 /\ j \in 1..Len(f.blocks)
      <4>1. at[k] \in Addr(c)
          BY <1>2
      <4>2. H(c, at[k]) \in Nat
          BY <4>1, CodeFacts
      <4> QED
          BY <1>1, <2>2, <4>2
    <3>2. f.blocks[j].level + H(c, at[k]) <= f.blocks[k].level
        BY <1>2, <3>1
    <3> QED
        BY <1>1, <3>1, <3>2
  <2> QED
      BY <2>1, <2>2
<1>7. \A k \in 1..Len(f.blocks) : f.blocks[k].level <= Len(f.stack)
    BY <1>1 DEF Above
<1>8. Cardinality(Entered(f)) = Len(at)
    BY <1>1, <1>3, <1>4
<1>9. ASSUME NEW k \in 1..Len(f.blocks)
      PROVE  Cardinality({j \in Entered(f) : j <= k}) = k
  <2>1. k \in 0..Len(f.blocks)
      BY <1>1
  <2>2. Cardinality(1..k) = k
      BY <1>4, <2>1
  <2> QED
      BY <1>5, <2>2, Zenon
<1> QED
    BY <1>2, <1>3, <1>5, <1>6, <1>7, <1>8, <1>9 DEF Matched

LEMMA PlacesMatch == IInv => (Structured(program.codes) => BlocksMatch)
<1> SUFFICES ASSUME IInv, Structured(program.codes), status = "NONE", NEW i \in DOMAIN frames
             PROVE  Matched(CodeOf(frames[i].code), frames[i])
    BY DEF BlocksMatch, Matched, E
<1>1. PICK T : Inv(T)
    BY DEF IInv
<1>2. PICK f, c : f = frames[i] /\ c = CodeOf(f.code)
    OBVIOUS
<1>3. f \in Frame(program.codes, T) /\ i \in 1..Len(frames) /\ Len(frames) \in Nat
    BY <1>1, <1>2 DEF Inv
<1>4. /\ f.code \in 1..Len(program.codes) /\ f.stack \in Seq(T) /\ f.blocks \in Seq(Block)
    BY <1>3, FrameIs
<1>5. StructuredCode(c, Len(program.codes)) /\ Len(f.stack) \in Nat
    BY <1>2, <1>4 DEF Structured, CodeOf
<1>6. CASE i = Len(frames)
  <2>1. f = frame /\ frames # <<>>
      BY <1>2, <1>3, <1>6 DEF frame
  <2>2. Running(c, f)
      BY <1>1, <1>2, <2>1 DEF Inv, Placed
  <2>3. /\ f.lasti \in Addr(c) /\ Inside(c, E(c, f.lasti), f.blocks)
        /\ Above(f.blocks, H(c, f.lasti), Len(f.stack))
      BY <2>2 DEF Running
  <2>4. H(c, f.lasti) \in Nat
      BY <1>5, <2>3, CodeFacts
  <2>5. 0 - H(c, f.lasti) <= Len(f.stack) - Len(f.stack)
      BY <1>5, <2>4
  <2>6. Above(f.blocks, 0, Len(f.stack))
      BY <1>4, <1>5, <2>3, <2>4, <2>5, AboveShifts
  <2> QED
      BY <1>2, <1>4, <1>5, <2>3, <2>6, Matches
<1>7. CASE i \in 1..Len(frames) - 1
  <2>1. Waiting(c, f)
      BY <1>1, <1>2, <1>7 DEF Inv
  <2>2. /\ f.lasti \in Addr(c) /\ Inside(c, E(c, f.lasti), f.blocks)
        /\ Above(f.blocks, 0, Len(f.stack))
      BY <2>1 DEF Waiting
  <2> QED
      BY <1>2, <1>4, <1>5, <2>2, Matches
<1> QED
    BY <1>3, <1>6, <1>7

\* Whatever program the machine runs, if its code is structured as Structured says (what the
\* compiler produces for programs without finally clauses, which the runs check), the blocks
\* of every frame are always those of the statements its next instruction is in (BlocksMatch):
\* no break, continue, exception or end of a statement (vm.c, `fast_end` and POP_BLOCK)
\* leaves a block too many or too few on the block stack of COFrameObject.
THEOREM BlocksAlwaysMatch == Spec => [](Structured(program.codes) => BlocksMatch)
<1>1. Spec => []IInv
    BY InitPlaces, NextPlaces, PTL DEF Spec
<1> QED
    BY <1>1, PlacesMatch, PTL

-----------------------------------------------------------------------------
(* The stack of a frame *)

LEMMA PlacesFit == IInv => (Structured(program.codes) /\ Roomy(program.codes) => PlainStackFits)
<1> SUFFICES ASSUME IInv, Structured(program.codes), Roomy(program.codes), NEW i \in DOMAIN frames,
                    WithoutTry(CodeOf(frames[i].code))
             PROVE  Len(frames[i].stack) <= CodeOf(frames[i].code).stacksize
    BY DEF PlainStackFits
<1>1. PICK T : Inv(T)
    BY DEF IInv
<1>2. PICK f, c : f = frames[i] /\ c = CodeOf(f.code)
    OBVIOUS
<1>3. f \in Frame(program.codes, T) /\ i \in 1..Len(frames) /\ Len(frames) \in Nat
    BY <1>1, <1>2 DEF Inv
<1>4. f.code \in 1..Len(program.codes) /\ f.stack \in Seq(T)
    BY <1>3, FrameIs
<1>5. Measured(c) /\ Len(f.stack) \in Nat
    BY <1>2, <1>4 DEF Roomy, Measured, CodeOf
<1>6. Len(f.stack) <= c.stacksize
  <2>1. CASE i \in 1..Len(frames) - 1
    <3>1. f.lasti \in Addr(c) /\ Len(f.stack) + 1 <= D(c, f.lasti)
        BY <1>1, <1>2, <1>5, <2>1 DEF Inv, Waiting
    <3>2. D(c, f.lasti) \in Nat /\ D(c, f.lasti) <= c.stacksize /\ c.stacksize \in Int
        BY <1>5, <3>1, DepthFacts
    <3> QED
        BY <1>5, <3>1, <3>2
  <2>2. CASE i = Len(frames)
    <3>1. f = frame /\ frames # <<>>
        BY <1>2, <1>3, <2>2 DEF frame
    <3>2. CASE status = "NONE"
      <4>1. f.lasti \in Addr(c) /\ Len(f.stack) <= D(c, f.lasti)
          BY <1>1, <1>2, <1>5, <3>1, <3>2 DEF Inv, Placed, Running
      <4>2. D(c, f.lasti) \in Nat /\ D(c, f.lasti) <= c.stacksize /\ c.stacksize \in Int
          BY <1>5, <4>1, DepthFacts
      <4> QED
          BY <1>5, <4>1, <4>2
    <3>3. CASE status # "NONE"
        BY <1>1, <1>2, <1>5, <3>1, <3>3 DEF Inv, Placed, Unwinding
    <3> QED
        BY <3>2, <3>3
  <2> QED
      BY <1>3, <2>1, <2>2
<1> QED
    BY <1>2, <1>6

\* If moreover the stack size of each function without try statements is no less than what
\* its instructions may leave on the stack (Roomy; so is what stackdepth() of compile.c
\* computes, which the runs check), a frame of such a function never has more values than
\* that on its stack (PlainStackFits), in whatever program and at whatever depth of calls:
\* COFrame_New() has allocated enough.
THEOREM PlainStacksFit ==
    Spec => [](Structured(program.codes) /\ Roomy(program.codes) => PlainStackFits)
<1>1. Spec => []IInv
    BY InitPlaces, NextPlaces, PTL DEF Spec
<1> QED
    BY <1>1, PlacesFit, PTL

=============================================================================
