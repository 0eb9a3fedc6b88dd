---- MODULE ParallelPrimitives ----
(***************************************************************************)
(* The scan, the pack and the radix sort of PBBS that the library calls    *)
(* (utils.h, blockRadixSort.h).  Arrays are functions on 0 .. n - 1.       *)
(*                                                                         *)
(* Each works on blocks in parallel: blocks write apart from one another,  *)
(* so that only the places they write to matter, not the order.            *)
(***************************************************************************)
EXTENDS Integers, FiniteSets, FiniteSetsExt

CONSTANTS SCAN_BSIZE,  \* elements of a block of scan, half those of pack
          MAX_RADIX,   \* bits that one step of the sort looks at
          BlockSize,   \* elements for which a step takes one block more
          SetSize      \* elements for which there is one bucket set more

Length(A) == Cardinality(DOMAIN A)

Array(n) == 0 .. n - 1

Smaller(a, b) == IF a < b THEN a ELSE b

log2_up(i) == CHOOSE a \in 0 .. i : (2^a >= i) /\ (a = 0 \/ 2^(a - 1) < i)

nblocks(n, size) == 1 + (n - 1) \div size

(* The elements of block i                                                 *)
Block(i, size, n) == i * size .. Smaller((i + 1) * size, n) - 1

SumOf(A, places) == MapThenSumSet(LAMBDA j : A[j], places)

firstF(e) == e[1]

(* The largest key, from a mapReduce with maxF and firstF                  *)
maxFirst(A) == Max({firstF(A[i]) : i \in DOMAIN A})

(* Exclusive sums from zero on                                             *)
scanSerial(A) == [i \in DOMAIN A |-> SumOf(A, 0 .. i - 1)]

(* Sums of the blocks are scanned first; each block goes on from its own.  *)
RECURSIVE scan(_)
scan(A) ==
  LET n == Length(A)
      l == nblocks(n, SCAN_BSIZE)
      before == scan([i \in Array(l) |-> SumOf(A, Block(i, SCAN_BSIZE, n))])
  IN IF l <= 2 THEN scanSerial(A)
     ELSE [i \in Array(n) |->
             LET b == i \div SCAN_BSIZE IN before[b] + SumOf(A, b * SCAN_BSIZE .. i - 1)]

(* The flagged elements in their order, which keeps its blocks apart by a  *)
(* scan of their counts                                                    *)
pack(In, Fl) ==
  LET n == Length(In)
      size == 2 * SCAN_BSIZE
      flagged(places) == Cardinality({j \in places : Fl[j]})
      Sums == scan([b \in Array(nblocks(n, size)) |-> flagged(Block(b, size, n))])
      place(i) == LET b == i \div size IN Sums[b] + flagged(b * size .. i - 1)
  IN IF n = 0 THEN In
     ELSE [p \in Array(flagged(Array(n))) |->
             In[CHOOSE i \in Array(n) : Fl[i] /\ place(i) = p]]

----
(* The sort of pairs by their first.  A step sorts by some bits of it,     *)
(* below m, and returns the sorted array and the offset of each bucket.    *)

eBits(bits, offset, e) == (firstF(e) \div 2^offset) % 2^bits
Extract(A, bits, offset) == [j \in DOMAIN A |-> eBits(bits, offset, A[j])]

(* Where radixBlock puts the element at place j: behind those of smaller   *)
(* buckets and those before it in its own                                  *)
Place(keys, block, j) ==
  Cardinality({k \in block : keys[k] < keys[j] \/ (keys[k] = keys[j] /\ k < j)})

radixBlock(A, keys, block, od) ==
  [p \in od .. od + Cardinality(block) - 1 |->
     A[CHOOSE j \in block : od + Place(keys, block, j) = p]]

radixStepSerial(A, keys, m) ==
  LET n == Length(A) IN
  [A |-> radixBlock(A, keys, Array(n), 0),
   offsets |-> [b \in Array(m) |-> Cardinality({j \in Array(n) : keys[j] < b})]]

trans(a, rows, cols) ==
  [c \in Array(rows * cols) |-> a[(c % rows) * cols + c \div rows]]

(* Moves the pieces of lengths L that begin at OA in From, row by row, to  *)
(* where OB says, column by column.                                        *)
blockTrans(From, OA, OB, L, rows, cols) ==
  LET piece(i, j) == OB[j * rows + i] .. OB[j * rows + i] + L[i * cols + j] - 1
      of(p) == CHOOSE c \in Array(rows) \X Array(cols) : p \in piece(c[1], c[2])
      place(c, p) == OA[c[1] * cols + c[2]] + p - OB[c[2] * rows + c[1]]
  IN [p \in DOMAIN From |-> From[place(of(p), p)]]

(* Every block sorts itself.  Its counts are transposed and scanned, which *)
(* gives the places that its buckets move to.                              *)
radixStepBlocks(A, keys, m, blocks) ==
  LET n == Length(A)
      nn == (n + blocks - 1) \div blocks
      below(c, b) == Cardinality({j \in Block(c \div m, nn, n) : keys[j] < b})
      cnts == [c \in Array(blocks * m) |-> below(c, (c % m) + 1) - below(c, c % m)]
      sorted == [i \in Array(blocks) |-> radixBlock(A, keys, Block(i, nn, n), i * nn)]
      oA == scan(trans(cnts, blocks, m))
      oB == [c \in Array(blocks * m) |-> (c \div m) * nn + below(c, c % m)]
      B == [p \in Array(n) |-> sorted[p \div nn][p]]
  IN [A |-> blockTrans(B, oB, oA, cnts, blocks, m),
      offsets |-> [b \in Array(m) |-> oA[b * blocks]]]

radixStep(A, keys, numBK, m) ==
  LET blocks == Smaller(numBK \div 3, 1 + Length(A) \div BlockSize)
  IN IF blocks < 2 THEN radixStepSerial(A, keys, m) ELSE radixStepBlocks(A, keys, m, blocks)

(* Low order bits first, from offset on, in rounds of at most rbits bits   *)
RECURSIVE BottomUpFrom(_, _, _, _, _)
BottomUpFrom(A, numBK, offset, rbits, bits) ==
  IF offset >= bits THEN A
  ELSE LET r == Smaller(rbits, bits - offset)
       IN BottomUpFrom(radixStep(A, Extract(A, r, offset), numBK, 2^r).A,
                       numBK, offset + r, rbits, bits)

radixLoopBottomUp(A, numBK, bits) ==
  LET rounds == 1 + (bits - 1) \div MAX_RADIX
  IN BottomUpFrom(A, numBK, 0, 1 + (bits - 1) \div rounds, bits)

(* High order bits first; each bucket is then sorted with its share of the *)
(* bucket sets.                                                            *)
RECURSIVE radixLoopTopDown(_, _, _)
radixLoopTopDown(A, numBK, bits) ==
  LET n == Length(A)
      BUCKETS == 2^MAX_RADIX
      step == radixStep(A, Extract(A, MAX_RADIX, bits - MAX_RADIX), numBK, BUCKETS)
      remain == numBK - BUCKETS - 1
      from(i) == IF i = BUCKETS THEN n ELSE step.offsets[i]
      share(i) == (from(i + 1) * remain) \div n - (from(i) * remain) \div n + 1
      sorted == [i \in Array(BUCKETS) |->
                   radixLoopTopDown([j \in Array(from(i + 1) - from(i)) |-> step.A[from(i) + j]],
                                    share(i), bits - MAX_RADIX)]
  IN IF n = 0 THEN A
     ELSE IF bits <= MAX_RADIX THEN radixStep(A, Extract(A, bits, 0), numBK, 2^bits).A
     ELSE IF numBK >= BUCKETS + 1
     THEN [p \in Array(n) |->
             LET i == CHOOSE i \in Array(BUCKETS) : from(i) <= p /\ p < from(i + 1)
             IN sorted[i][p - from(i)]]
     ELSE radixLoopBottomUp(A, numBK, bits)

(* Sorted by firsts below m.  The caller wants no bucket offsets.          *)
iSort(A, m) ==
  LET bits == log2_up(m)
      numBK == 1 + Length(A) \div SetSize
  IN IF bits <= MAX_RADIX THEN radixStep(A, Extract(A, bits, 0), numBK, 2^bits).A
     ELSE radixLoopTopDown(A, numBK, bits)
====
