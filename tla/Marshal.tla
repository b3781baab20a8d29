------------------------------- MODULE Marshal -------------------------------
(****************************************************************************)
(* marshal.c: an object and what it contains is written to memory and read  *)
(* back.  Each side keeps a dict of the objects it has met.  The writer's   *)
(* maps their addresses to offsets, so that an object met again is written  *)
(* as a reference; the reader's maps offsets to objects.                    *)
(*                                                                          *)
(* One step is one call of w_object or r_object up to the first call it     *)
(* makes of itself, or what the caller does with the result.  The recursion *)
(* of the writer is the sequence of what is still to be written, that of    *)
(* the reader the stack of objects under construction.                      *)
(*   pc = "idle"    before the call of marshal                              *)
(*        "write", "read"                                                   *)
(*        "done"                                                            *)
(*        "assert"  a reference to an offset that the reader's dict does    *)
(*                  not find (TYPE_REFER in r_object)                       *)
(* Objects are positions in a sequence and 0 is NULL.                       *)
(****************************************************************************)
EXTENDS Integers, Sequences, SequencesExt

CONSTANTS
    Graphs,     \* what programs write: sequences of objects, the first contains the rest
    MASK,       \* CODict_MINSIZE - 1
    MORE,       \* by which w_more lets the bytes grow, besides doubling them
    BIG         \* an integer that is no long

\* An object as marshal finds it: what it contains comes later in the sequence, so nothing
\* contains itself, or is NULL; in a dict keys and values alternate, a code object has six
\* parts.
Types == {"none", "false", "true", "int", "float", "str", "bytes", "list", "tuple", "dict", "code"}

Whole(g, o) ==
    /\ g[o].kind \in Types
    /\ g[o].kids \in Seq({0} \cup o + 1..Len(g))
    /\ g[o].kind \notin {"list", "tuple", "dict", "code"} => g[o].kids = <<>>
    /\ g[o].kind = "dict" => Len(g[o].kids) % 2 = 0 /\ \A i \in DOMAIN g[o].kids : g[o].kids[i] # 0
    /\ g[o].kind = "code" => Len(g[o].kids) = 6
    /\ g[o].kind \in {"str", "bytes"} => Len(g[o].val) \in Nat
    /\ g[o].kind \notin {"int", "float", "str", "bytes"} => g[o].val = 0

Complete(g) == DOMAIN g = 1..Len(g) /\ Len(g) \in Nat \ {0} /\ \A o \in DOMAIN g : Whole(g, o)

\* What an instance must satisfy.
MarshalAssumption ==
    MASK \in Nat \ {0} /\ MORE \in Nat \ {0} /\ \A g \in Graphs : Complete(g)

VARIABLES
    graph,      \* the objects: Seq([kind, val, kids])
    todo,       \* still to be written: <<"object", co>> or <<"int64", x>>
    out,        \* what is written: numbers and strings, with their lengths in bytes
    offset,     \* of the writer or the reader
    str,        \* the bytes object: [size, alloc]
    objects,    \* the dict of the writer, then of the reader
    at,         \* the reader's place in out
    heap,       \* the objects read: Seq([kind, val, kids])
    stack,      \* the calls of r_object that wait for a result
    rs,         \* the result of the last one, -1: there is none
    pc

vars == <<graph, todo, out, offset, str, objects, at, heap, stack, rs, pc>>

-----------------------------------------------------------------------------
(* The dicts of marshal (module Dict, without cursor and deletion). *)

CODict_New == [buckets |-> <<>>, table |-> [x \in 0..MASK |-> 0], mask |-> MASK]

SlotOf(h, mask) == LET unit == mask \div MASK IN ((h \div unit) % (MASK + 1)) * unit

\* _dict_lookup: the bucket, or 0.  Another key with the same hash ends the search.
Lookup(d, k, h) ==
    LET from[i \in 0..Len(d.buckets)] ==
            IF i = 0 THEN 0
            ELSE IF d.buckets[i].h # h THEN from[d.buckets[i].next]
            ELSE IF d.buckets[i].key = k THEN i ELSE 0
    IN  from[d.table[SlotOf(h, d.mask)]]

\* _dict_insert and _dict_do_resize, which keeps the last bucket of each slot.
Inserted(d, k, h, item) ==
    LET slot  == SlotOf(h, d.mask)
        bs    == Append(d.buckets, [key |-> k, h |-> h, item |-> item, next |-> d.table[slot]])
        last(S) == CHOOSE i \in S \cup {0} : \A j \in S : j <= i
    IN  [buckets |-> bs,
         mask    |-> IF Len(bs) > d.mask + 1 THEN 2 * d.mask ELSE d.mask,
         table   |-> IF Len(bs) > d.mask + 1
                     THEN [x \in 0 .. 2 * d.mask |->
                            last({i \in DOMAIN bs : SlotOf(bs[i].h, 2 * d.mask) = x})]
                     ELSE [d.table EXCEPT ![slot] = Len(bs)]]

\* int_hash.  An address has more than one digit: its hash is 0, like that of NULL.
int_hash(digits, x) == IF digits > 1 THEN 0 ELSE x

-----------------------------------------------------------------------------
(* The bytes *)

\* Mutant: no room for the null byte when the bytes grow.
COBytes_Resize_NoNull(s, size) ==
    IF size = s.size THEN s
    ELSE IF size >= s.alloc \div 2 /\ size < s.alloc THEN [s EXCEPT !.size = size]
    ELSE [size |-> size, alloc |-> size]

\* bytes[size] = '\0' follows.
COBytes_Resize(s, size) ==
    IF size = s.size THEN s
    ELSE IF size >= s.alloc \div 2 /\ size < s.alloc THEN [s EXCEPT !.size = size]
    ELSE [size |-> size, alloc |-> size + 1]

\* w_byte for each of n bytes, with w_more where the bytes end
Room(n) ==
    LET room[k \in 0..n] ==
            IF k = 0 THEN str
            ELSE LET s == room[k - 1]
                 IN  IF offset + k <= s.size THEN s ELSE COBytes_Resize(s, s.size + s.size + MORE)
    IN  room[n]

Byte(t)  == [n |-> 1, x |-> t]
Int64(x) == [n |-> 8, x |-> x]

Bytes(tokens) ==
    LET sum[i \in 0..Len(tokens)] == IF i = 0 THEN 0 ELSE sum[i - 1] + tokens[i].n
    IN  sum[Len(tokens)]

Write(tokens) ==
    /\ out' = out \o tokens
    /\ str' = Room(Bytes(tokens))
    /\ offset' = offset + Bytes(tokens)

-----------------------------------------------------------------------------
(* The writer *)

Init ==
    /\ graph = <<>>
    /\ todo = <<>>
    /\ out = <<>>
    /\ offset = 0
    /\ str = [size |-> 0, alloc |-> 0]
    /\ objects = CODict_New
    /\ at = 1
    /\ heap = <<>>
    /\ stack = <<>>
    /\ rs = -1
    /\ pc = "idle"

\* The call of marshal
Begin ==
    /\ pc = "idle"
    /\ graph' \in Graphs
    /\ todo' = <<<<"object", 1>>>>
    /\ pc' = "write"
    /\ UNCHANGED <<out, offset, str, objects, at, heap, stack, rs>>

\* COInt_AsLong
AsLong(x) == IF x = BIG THEN -1 ELSE x

\* Strings and bytes stand for themselves; their length is what counts.
Header(co) ==
    IF co = 0 THEN <<Byte("null")>>
    ELSE LET o == graph[co]
         IN  CASE o.kind \in {"none", "false", "true"} -> <<Byte(o.kind)>>
               [] o.kind = "int"   -> <<Byte("int"), Int64(AsLong(o.val))>>
               [] o.kind = "float" -> <<>>
               [] o.kind \in {"list", "tuple"} -> <<Byte(o.kind), Int64(Len(o.kids))>>
               [] o.kind \in {"dict", "code"}  -> <<Byte(o.kind)>>
               [] o.kind \in {"str", "bytes"}  ->
                    <<Byte(o.kind), Int64(Len(o.val)), [n |-> Len(o.val), x |-> o.val]>>

\* Mutant: nothing marks the end of a dict.
Rest_Open(co) ==
    IF co = 0 THEN <<>>
    ELSE [i \in DOMAIN graph[co].kids |-> <<"object", graph[co].kids[i]>>]
            \o (IF graph[co].kind = "code" THEN <<<<"int64", 0>>, <<"int64", 1>>>> ELSE <<>>)

\* What follows the header: the objects inside, NULL at the end of a dict, and the two
\* numbers of a code object.
Rest(co) ==
    IF co = 0 THEN <<>>
    ELSE [i \in DOMAIN graph[co].kids |-> <<"object", graph[co].kids[i]>>]
            \o (CASE graph[co].kind = "dict" -> <<<<"object", 0>>>>
                  [] graph[co].kind = "code" -> <<<<"int64", 0>>, <<"int64", 1>>>>
                  [] OTHER -> <<>>)

Seen(co) == Lookup(objects, co, int_hash(IF co = 0 THEN 0 ELSE 2, co))

\* Mutant: an object is recorded under the offset behind its type.
Recorded_Late(co) == Inserted(objects, co, int_hash(IF co = 0 THEN 0 ELSE 2, co), offset + 1)

Recorded(co) == Inserted(objects, co, int_hash(IF co = 0 THEN 0 ELSE 2, co), offset)

w_object ==
    /\ pc = "write" /\ todo # <<>> /\ Head(todo)[1] = "object"
    /\ LET co == Head(todo)[2]
       IN  IF Seen(co) # 0
           THEN /\ Write(<<Byte("refer"), Int64(objects.buckets[Seen(co)].item)>>)
                /\ todo' = Tail(todo)
                /\ UNCHANGED objects
           ELSE /\ objects' = Recorded(co)
                /\ Write(Header(co))
                /\ todo' = Rest(co) \o Tail(todo)
    /\ UNCHANGED <<graph, at, heap, stack, rs, pc>>

w_int64 ==
    /\ pc = "write" /\ todo # <<>> /\ Head(todo)[1] = "int64"
    /\ Write(<<Int64(Head(todo)[2])>>)
    /\ todo' = Tail(todo)
    /\ UNCHANGED <<graph, objects, at, heap, stack, rs, pc>>

\* The end of marshal, and the beginning of unmarshal
Turn ==
    /\ pc = "write" /\ todo = <<>>
    /\ str' = COBytes_Resize(str, offset)
    /\ offset' = 0
    /\ objects' = CODict_New
    /\ pc' = "read"
    /\ UNCHANGED <<graph, todo, out, at, heap, stack, rs>>

-----------------------------------------------------------------------------
(* The reader *)

\* What r_object reads next; behind the last byte there is no more.
Token(i) == IF at + i \in DOMAIN out THEN out[at + i] ELSE [n |-> 0, x |-> "eof"]

Smaller(a, b) == IF a < b THEN a ELSE b

\* r_byte, r_int64 and r_string, k of them
Consume(k) ==
    /\ at' = at + k
    /\ offset' = offset + Bytes(SubSeq(out, at, Smaller(at + k - 1, Len(out))))

\* SET_OBJECT.  An offset has one digit.
SET_OBJECT(co) == objects' = Inserted(objects, offset, int_hash(1, offset), co)

New(kind, val, kids) == heap' = Append(heap, [kind |-> kind, val |-> val, kids |-> kids])

Reading(types) == pc = "read" /\ rs = -1 /\ Token(0).x \in types

\* The end of the bytes reads as NULL.
ReadNull ==
    /\ Reading({"null", "eof"})
    /\ SET_OBJECT(0)
    /\ Consume(1)
    /\ rs' = 0
    /\ UNCHANGED <<graph, todo, out, str, heap, stack, pc>>

ReadAtom ==
    /\ Reading({"none", "false", "true", "int", "str", "bytes"})
    /\ LET type == Token(0).x
           val  == CASE type = "int" -> Token(1).x
                     [] type \in {"str", "bytes"} -> Token(2).x
                     [] OTHER -> 0
       IN  /\ New(type, val, <<>>)
           /\ Consume(CASE type = "int" -> 2 [] type \in {"str", "bytes"} -> 3 [] OTHER -> 1)
    /\ rs' = Len(heap')
    /\ SET_OBJECT(Len(heap'))
    /\ UNCHANGED <<graph, todo, out, str, stack, pc>>

\* Lists and tuples are recorded empty, before what they contain is read.
ReadSequence ==
    /\ Reading({"list", "tuple"})
    /\ LET n == Token(1).x
       IN  /\ New(Token(0).x, 0, [i \in 1..n |-> 0])
           /\ IF n = 0 THEN rs' = Len(heap') /\ UNCHANGED stack
              ELSE stack' = Append(stack, [co |-> Len(heap'), i |-> 0, n |-> n, got |-> <<>>])
                   /\ UNCHANGED rs
    /\ SET_OBJECT(Len(heap'))
    /\ Consume(2)
    /\ UNCHANGED <<graph, todo, out, str, pc>>

ReadDict ==
    /\ Reading({"dict"})
    /\ New("dict", 0, <<>>)
    /\ stack' = Append(stack, [co |-> Len(heap'), i |-> 0, n |-> -1, got |-> <<>>])
    /\ SET_OBJECT(Len(heap'))
    /\ Consume(1)
    /\ UNCHANGED <<graph, todo, out, str, rs, pc>>

\* A code object is made and recorded when its parts have been read.
ReadCode ==
    /\ Reading({"code"})
    /\ stack' = Append(stack, [co |-> -offset - 1, i |-> 0, n |-> 6, got |-> <<>>])
    /\ Consume(1)
    /\ UNCHANGED <<graph, todo, out, str, objects, heap, rs, pc>>

ReadReference ==
    /\ Reading({"refer"})
    /\ LET p == Lookup(objects, Token(1).x, int_hash(1, Token(1).x))
       IN  IF p # 0
           THEN rs' = objects.buckets[p].item /\ UNCHANGED pc
           ELSE pc' = "assert" /\ UNCHANGED rs
    /\ Consume(2)
    /\ UNCHANGED <<graph, todo, out, str, objects, heap, stack>>

Caller == Last(stack)

\* The caller goes on to its next element, or returns v.
Continue(frame) ==
    /\ stack' = Append(Front(stack), frame)
    /\ rs' = -1

Return(v) == stack' = Front(stack) /\ rs' = v

Receiving == pc = "read" /\ rs # -1 /\ stack # <<>>

\* An element that reads as NULL is not stored.
ReceiveElement ==
    /\ Receiving /\ Caller.co > 0 /\ Caller.n >= 0
    /\ heap' = [heap EXCEPT ![Caller.co].kids[Caller.i + 1] = rs]
    /\ IF Caller.i + 1 < Caller.n THEN Continue([Caller EXCEPT !.i = @ + 1]) ELSE Return(Caller.co)
    /\ UNCHANGED <<graph, todo, out, offset, str, objects, at, pc>>

\* A key, or NULL at the end of the dict; then its value.
ReceiveEntry ==
    /\ Receiving /\ Caller.co > 0 /\ Caller.n = -1
    /\ \/ /\ Caller.got = <<>> /\ rs = 0
          /\ Return(Caller.co)
          /\ UNCHANGED heap
       \/ /\ Caller.got = <<>> /\ rs # 0
          /\ Continue([Caller EXCEPT !.got = <<rs>>])
          /\ UNCHANGED heap
       \/ /\ Caller.got # <<>>
          /\ heap' = [heap EXCEPT ![Caller.co].kids =
                        IF rs = 0 THEN @ ELSE @ \o <<Caller.got[1], rs>>]
          /\ Continue([Caller EXCEPT !.got = <<>>])
    /\ UNCHANGED <<graph, todo, out, offset, str, objects, at, pc>>

ReceivePart ==
    /\ Receiving /\ Caller.co < 0
    /\ IF Len(Caller.got) + 1 < Caller.n
       THEN /\ Continue([Caller EXCEPT !.got = Append(@, rs)])
            /\ UNCHANGED <<heap, objects, at, offset>>
       ELSE /\ New("code", 0, Append(Caller.got, rs))
            /\ objects' = Inserted(objects, -Caller.co - 1, int_hash(1, -Caller.co - 1), Len(heap'))
            /\ Consume(2)
            /\ Return(Len(heap'))
    /\ UNCHANGED <<graph, todo, out, str, pc>>

Finish ==
    /\ pc = "read" /\ rs # -1 /\ stack = <<>>
    /\ pc' = "done"
    /\ UNCHANGED <<graph, todo, out, offset, str, objects, at, heap, stack, rs>>

marshal   == Begin \/ w_object \/ w_int64 \/ Turn
unmarshal == ReadNull \/ ReadAtom \/ ReadSequence \/ ReadDict \/ ReadCode \/ ReadReference
                \/ ReceiveElement \/ ReceiveEntry \/ ReceivePart \/ Finish

Next == marshal \/ unmarshal

Spec == Init /\ [][Next]_vars

-----------------------------------------------------------------------------
(* Properties *)

\* An object with everything in it.
Trees(objs) ==
    LET tree[o \in 0..Len(objs)] ==
            IF o = 0 THEN <<>>
            ELSE <<objs[o].kind, objs[o].val, [i \in DOMAIN objs[o].kids |-> tree[objs[o].kids[i]]]>>
    IN  tree

Kinds == {graph[o].kind : o \in DOMAIN graph}

\* What can be written: floats are left out of the stream, longer integers become -1.
Storable == "float" \notin Kinds /\ \A o \in DOMAIN graph : graph[o].val # BIG

\* What is read back equals what was written, part by part, although the writer's dict finds
\* only the object it met last and the reader's forgets objects when it grows (w_object,
\* r_object).
RoundTrip == pc = "done" /\ Storable => Trees(heap)[rs] = Trees(graph)[1]

\* Both sides count offsets alike, so that a reference names an object the reader has
\* recorded and still finds: assert(0) is not reached.  A code object, recorded when its
\* parts have been read, may displace the last of them; a float is recorded by the writer
\* and leaves nothing to read.  (TYPE_REFER in r_object)
Resolves == pc = "assert" => Kinds \cap {"code", "float"} # {}

\* Every byte has its place, with a null byte behind it, and marshal returns just as many
\* bytes as were written (w_more, COBytes_Resize).
BytesFit ==
    /\ str.size < str.alloc \/ str.alloc = 0
    /\ pc = "write" => offset <= str.size
    /\ pc \notin {"idle", "write"} => str.size = Bytes(out)

=============================================================================
