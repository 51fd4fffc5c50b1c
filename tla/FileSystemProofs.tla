------------------------- MODULE FileSystemProofs -------------------------
(***************************************************************************)
(* Proofs about FileSystem, for every sound image, every size of blocks,   *)
(* names and requests, and every sequence of calls.                        *)
(***************************************************************************)
EXTENDS FileSystem, TLAPS, WellFoundedInduction, SequenceTheorems

-----------------------------------------------------------------------------
(* Numbers *)

\* A set of natural numbers has a smallest element, and Min is it.
LEMMA MinIsLeast ==
  ASSUME NEW S \in SUBSET Nat, S # {}
  PROVE  Min(S) \in S /\ \A n \in S : Min(S) <= n
<1>1. IsWellFoundedOn(OpToRel(<, Nat), Nat)
  BY NatLessThanWellFounded
<1>2. PICK x \in S : \A y \in S : <<y, x>> \notin OpToRel(<, Nat)
  BY <1>1, WFMin
<1>3. \A y \in S : x <= y
  <2> TAKE y \in S
  <2>1. <<y, x>> \in Nat \X Nat /\ ~(y < x)
    BY <1>2 DEF OpToRel
  <2> QED BY <2>1
<1> QED BY <1>3 DEF Min

\* A bounded set of natural numbers has a largest element, and Max is it.
LEMMA MaxIsLargest ==
  ASSUME NEW S \in SUBSET Nat, S # {}, NEW bound \in Nat, \A n \in S : n <= bound
  PROVE  Max(S) \in S /\ \A n \in S : n <= Max(S)
<1> DEFINE D == {bound - n : n \in S}
<1>1. D \in SUBSET Nat /\ D # {}
  <2>1. \A n \in S : bound - n \in Nat
    OBVIOUS
  <2> QED BY <2>1
<1>2. PICK x \in S : Min(D) = bound - x
  BY <1>1, MinIsLeast
<1>3. \A y \in S : bound - x <= bound - y
  BY <1>1, <1>2, MinIsLeast
<1>4. \A y \in S : y <= x
  BY <1>3
<1> QED BY <1>4 DEF Max

\* The smaller and the larger of two numbers.
LEMMA OfTwo ==
  ASSUME NEW a \in Nat, NEW b \in Nat
  PROVE  /\ Min({a, b}) = IF a <= b THEN a ELSE b
         /\ Max({a, b}) = IF a <= b THEN b ELSE a
<1>1. Min({a, b}) \in {a, b} /\ Min({a, b}) <= a /\ Min({a, b}) <= b
  BY MinIsLeast
<1>2. \A n \in {a, b} : n <= a + b
  OBVIOUS
<1>3. Max({a, b}) \in {a, b} /\ a <= Max({a, b}) /\ b <= Max({a, b})
  <2> DEFINE S == {a, b}
  <2>1. S \in SUBSET Nat /\ S # {} /\ a + b \in Nat
    OBVIOUS
  <2> HIDE DEF S
  <2>2. Max(S) \in S /\ \A n \in S : n <= Max(S)
    BY <1>2, <2>1, MaxIsLargest DEF S
  <2> QED BY <2>2 DEF S
<1> QED BY <1>1, <1>3

\* Division into blocks.
LEMMA Division ==
  ASSUME NEW a \in Nat, NEW b \in Nat \ {0}
  PROVE  /\ a \div b \in Nat
         /\ a % b \in 0 .. b - 1
         /\ a = (a \div b) * b + (a % b)
OBVIOUS

\* Quotient and remainder of a number given by them.
LEMMA DivisionUnique ==
  ASSUME NEW q \in Nat, NEW b \in Nat \ {0}, NEW r \in 0 .. b - 1
  PROVE  (q * b + r) \div b = q /\ (q * b + r) % b = r
OBVIOUS

\* A larger number has no smaller quotient.
LEMMA DivisionMonotonic ==
  ASSUME NEW a \in Nat, NEW c \in Nat, NEW b \in Nat \ {0}, a <= c
  PROVE  a \div b <= c \div b
OBVIOUS

\* Multiples of a block size keep their order and their distance.
LEMMA TimesMonotonic ==
  ASSUME NEW a \in Nat, NEW c \in Nat, NEW b \in Nat \ {0}
  PROVE  /\ a < c => a * b + b <= c * b
         /\ a <= c => a * b <= c * b
OBVIOUS

\* Unsigned arithmetic: what fits is itself, and what is below 0 wraps around.
LEMMA Unsigned ==
  ASSUME NEW W \in Nat \ {0}
  PROVE  /\ \A a \in 0 .. W - 1 : a % W = a
         /\ \A a \in 1 .. W - 1 : (0 - a) % W = W - a
OBVIOUS

-----------------------------------------------------------------------------
(* Sizes *)

\* The largest request.
LEMMA LargestChunk ==
  /\ Max(Chunks) \in Nat
  /\ Max(Chunks) \in Chunks
  /\ Max(Chunks) > 0
  /\ \A c \in Chunks : c <= Max(Chunks)
<1>1. Chunks \in SUBSET Nat /\ Chunks # {} /\ WORD \in Nat
      /\ \A c \in Chunks : c <= WORD
  BY ImageAssumption
<1>2. Max(Chunks) \in Chunks /\ \A c \in Chunks : c <= Max(Chunks)
  BY <1>1, MaxIsLargest
<1>3. PICK c \in Chunks : c > 0
  BY ImageAssumption
<1>4. Max(Chunks) \in Nat /\ c \in Nat /\ c <= Max(Chunks)
  BY <1>1, <1>2
<1> QED BY <1>2, <1>3, <1>4

\* A file is no longer than its blocks, and the space behind them, twice the
\* largest request and one block more, does not leave the address space.
LEMMA FileSizes ==
  ASSUME NEW n \in DOMAIN Inodes
  PROVE  /\ Inodes[n].length \in Nat
         /\ BytesOnDisk(Inodes[n]) \in Nat
         /\ Inodes[n].length <= BytesOnDisk(Inodes[n])
         /\ Inodes[n].length = 0 => BytesOnDisk(Inodes[n]) = 0
         /\ Inodes[n].length > 0 =>
              BytesOnDisk(Inodes[n])
                = ((Inodes[n].length - 1) \div BLOCKSIZE) * BLOCKSIZE + BLOCKSIZE
         /\ LastStart(Inodes[n]) \in Nat
         /\ BLOCKSIZE + LastStart(Inodes[n]) + 2 * Max(Chunks) < WORD
         /\ Inodes[n].length < WORD
<1> DEFINE len == Inodes[n].length
<1>1. len \in Nat /\ BLOCKSIZE \in Nat \ {0} /\ WORD \in Nat
  BY ImageAssumption
<1>2. BLOCKSIZE + BytesOnDisk(Inodes[n]) + 2 * Max(Chunks) < WORD
  BY SizeAssumption, LargestChunk
<1>3. CASE len = 0
  <2>1. (0 - 1) \div BLOCKSIZE = -1
    BY <1>1
  <2>2. BytesOnDisk(Inodes[n]) = 0 /\ LastStart(Inodes[n]) = 0
    BY <1>1, <1>3, <2>1 DEF BytesOnDisk, LastStart
  <2> QED BY <1>1, <1>2, <1>3, <2>2, LargestChunk
<1>4. CASE len > 0
  <2> DEFINE q == (len - 1) \div BLOCKSIZE
  <2>1. q \in Nat /\ (len - 1) % BLOCKSIZE \in 0 .. BLOCKSIZE - 1
        /\ len - 1 = q * BLOCKSIZE + ((len - 1) % BLOCKSIZE)
    <3>1. len - 1 \in Nat
      BY <1>1, <1>4
    <3> HIDE DEF len
    <3> QED BY <1>1, <3>1, Division
  <2>2. BytesOnDisk(Inodes[n]) = q * BLOCKSIZE + BLOCKSIZE
    BY <1>1, <2>1 DEF BytesOnDisk
  <2>3. LastStart(Inodes[n]) = BytesOnDisk(Inodes[n]) - 1
    BY <1>4 DEF LastStart
  <2>4. q * BLOCKSIZE \in Nat
    BY <1>1, <2>1
  <2>5. BytesOnDisk(Inodes[n]) \in Nat /\ len <= BytesOnDisk(Inodes[n])
        /\ BytesOnDisk(Inodes[n]) >= 1
    <3> HIDE DEF q, len
    <3> QED BY <1>1, <2>1, <2>2, <2>4
  <2>6. LastStart(Inodes[n]) \in Nat
        /\ BLOCKSIZE + LastStart(Inodes[n]) + 2 * Max(Chunks) < WORD
        /\ len < WORD
    <3> HIDE DEF len
    <3> QED BY <1>1, <1>2, <2>3, <2>5, LargestChunk
  <2> QED BY <1>1, <1>4, <2>2, <2>5, <2>6
<1> QED BY <1>1, <1>3, <1>4

-----------------------------------------------------------------------------
(* read_data *)

\* The last block that a request reaches: of the request or of the file; for
\* an empty file, or 0 bytes from position 0, the last one there could be.
LEMMA EndBlockFacts ==
  ASSUME NEW n \in DOMAIN Inodes, NEW offset \in Nat, NEW length \in Nat,
         offset + length < WORD
  PROVE  /\ EndBlock(Inodes[n], offset, length) \in 0 .. WORD \div BLOCKSIZE
         /\ Inodes[n].length > 0 /\ offset + length > 0 =>
              EndBlock(Inodes[n], offset, length) =
                IF Inodes[n].length < offset + length
                  THEN (Inodes[n].length - 1) \div BLOCKSIZE
                  ELSE (offset + length - 1) \div BLOCKSIZE
         /\ Inodes[n].length = 0 \/ offset + length = 0 =>
              EndBlock(Inodes[n], offset, length) = (WORD - 1) \div BLOCKSIZE
<1> DEFINE len == Inodes[n].length
           sum == offset + length
<1>1. /\ len \in Nat /\ BLOCKSIZE \in Nat \ {0} /\ WORD \in Nat \ {0}
      /\ sum \in Nat /\ sum < WORD /\ len < WORD
  BY ImageAssumption, FileSizes
<1>2. sum % WORD = sum
  <2> HIDE DEF sum
  <2>1. sum \in 0 .. WORD - 1
    BY <1>1
  <2> QED BY <1>1, <2>1, Unsigned
<1>3. EndBlock(Inodes[n], offset, length) =
        IF len < sum THEN ((len - 1) % WORD) \div BLOCKSIZE
        ELSE ((sum - 1) % WORD) \div BLOCKSIZE
  BY <1>2 DEF EndBlock
<1> HIDE DEF len, sum
<1>4. /\ len > 0 => (len - 1) % WORD = len - 1
      /\ sum > 0 => (sum - 1) % WORD = sum - 1
      /\ len = 0 => (len - 1) % WORD = WORD - 1
      /\ sum = 0 => (sum - 1) % WORD = WORD - 1
  <2>1. \A a \in 0 .. WORD - 1 : a > 0 => (a - 1) % WORD = a - 1
    BY <1>1
  <2>2. (0 - 1) % WORD = WORD - 1
    BY <1>1
  <2>3. len \in 0 .. WORD - 1 /\ sum \in 0 .. WORD - 1
    BY <1>1
  <2> QED BY <2>1, <2>2, <2>3
<1>5. \A a \in 0 .. WORD - 1 : a \div BLOCKSIZE \in 0 .. WORD \div BLOCKSIZE
  <2> TAKE a \in 0 .. WORD - 1
  <2>1. a \div BLOCKSIZE \in Nat /\ a \div BLOCKSIZE <= WORD \div BLOCKSIZE
    BY <1>1, Division, DivisionMonotonic
  <2>2. WORD \div BLOCKSIZE \in Nat
    BY <1>1, Division
  <2> QED BY <2>1, <2>2
<1>6. len > 0 /\ sum > 0 =>
        EndBlock(Inodes[n], offset, length) =
          IF len < sum THEN (len - 1) \div BLOCKSIZE ELSE (sum - 1) \div BLOCKSIZE
  BY <1>3, <1>4
<1>7. len = 0 \/ sum = 0 =>
        EndBlock(Inodes[n], offset, length) = (WORD - 1) \div BLOCKSIZE
  BY <1>1, <1>3, <1>4
<1>8. EndBlock(Inodes[n], offset, length) \in 0 .. WORD \div BLOCKSIZE
  <2>1. CASE len > 0 /\ sum > 0
    <3>1. len - 1 \in 0 .. WORD - 1 /\ sum - 1 \in 0 .. WORD - 1
      BY <1>1, <2>1
    <3> QED BY <1>5, <1>6, <2>1, <3>1
  <2>2. CASE len = 0 \/ sum = 0
    <3>1. WORD - 1 \in 0 .. WORD - 1
      BY <1>1
    <3> QED BY <1>5, <1>7, <2>2, <3>1
  <2> QED BY <1>1, <2>1, <2>2
<1> QED BY <1>6, <1>7, <1>8 DEF len, sum

\* What the loop has copied when it comes to a block: all up to its start.
LEMMA BeforeFacts ==
  ASSUME NEW offset \in Nat, NEW b \in Nat, b >= offset \div BLOCKSIZE
  PROVE  /\ Before(offset, b) \in Nat
         /\ b = offset \div BLOCKSIZE => Before(offset, b) = 0
         /\ b > offset \div BLOCKSIZE =>
              Before(offset, b) > 0 /\ Before(offset, b) = b * BLOCKSIZE - offset
<1> DEFINE start == offset \div BLOCKSIZE
           rest == offset % BLOCKSIZE
<1>1. BLOCKSIZE \in Nat \ {0}
  BY ImageAssumption
<1>2. start \in Nat /\ rest \in 0 .. BLOCKSIZE - 1 /\ offset = start * BLOCKSIZE + rest
  BY <1>1, Division
<1>3. Before(offset, b) = IF b = start THEN 0 ELSE (b - start) * BLOCKSIZE - rest
  BY DEF Before
<1> HIDE DEF start, rest
<1>4. b > start => /\ (b - start) * BLOCKSIZE = b * BLOCKSIZE - start * BLOCKSIZE
                   /\ start * BLOCKSIZE + BLOCKSIZE <= b * BLOCKSIZE
  BY <1>1, <1>2, TimesMonotonic
<1>5. start * BLOCKSIZE \in Nat /\ b * BLOCKSIZE \in Nat
  BY <1>1, <1>2
<1>6. b > start => Before(offset, b) = b * BLOCKSIZE - offset
  BY <1>1, <1>2, <1>3, <1>4, <1>5
<1>7. b > start => b * BLOCKSIZE - offset > 0
  BY <1>1, <1>2, <1>4, <1>5
<1> QED BY <1>1, <1>2, <1>3, <1>5, <1>6, <1>7 DEF start

\* A read comes back with nothing, or with the bytes up to the end of what was
\* asked for, or with those up to the first bad block.
LEMMA ReadShape ==
  ASSUME NEW n \in DOMAIN Inodes, NEW offset \in Nat, NEW length \in Nat,
         offset + length < WORD,
         NEW start, start = offset \div BLOCKSIZE,
         NEW end, end = EndBlock(Inodes[n], offset, length)
  PROVE  \/ /\ read_data(Inodes[n], offset, length) = <<>>
            /\ BadBlock(Inodes[n], start) \/ start > end
         \/ /\ ~BadBlock(Inodes[n], start) /\ start <= end
            /\ \E total \in Nat :
                 /\ read_data(Inodes[n], offset, length) =
                      [k \in 1 .. total |-> Source(Inodes[n], offset, end, k - 1)]
                 /\ \/ /\ \A b \in start + 1 .. end : ~BadBlock(Inodes[n], b)
                       /\ total = Before(offset, end) + Left(length, Before(offset, end))
                    \/ \E b \in start + 1 .. end :
                         BadBlock(Inodes[n], b) /\ total = Before(offset, b)
<1> DEFINE node == Inodes[n]
           last == Max({start, end})
           bad == {i \in start + 1 .. last : BadBlock(node, i)}
           full == Before(offset, last) + Left(length, Before(offset, last))
           total == IF bad # {} THEN Before(offset, Min(bad)) ELSE full
<1>1. BLOCKSIZE \in Nat \ {0} /\ WORD \in Nat \ {0} /\ start \in Nat /\ end \in Nat
  <2>1. BLOCKSIZE \in Nat \ {0} /\ WORD \in Nat \ {0}
    BY ImageAssumption
  <2>2. start \in Nat
    BY <2>1, Division
  <2>3. end \in 0 .. WORD \div BLOCKSIZE
    BY EndBlockFacts
  <2> QED BY <2>1, <2>2, <2>3
<1>2. read_data(node, offset, length) =
        IF BadBlock(node, start) \/ start > end THEN <<>>
        ELSE [k \in 1 .. total |-> Source(node, offset, last, k - 1)]
  BY DEF read_data, PastFile
<1>3. CASE BadBlock(node, start) \/ start > end
  BY <1>2, <1>3
<1>4. CASE ~BadBlock(node, start) /\ start <= end
  <2>1. last = end
    BY <1>1, <1>4, OfTwo
  <2>2. Before(offset, end) \in Nat
    BY <1>1, <1>4, BeforeFacts
  <2>3. full \in Nat
    <3>1. (length - Before(offset, end)) % WORD \in Nat
      BY <1>1, <2>2
    <3> QED BY <2>1, <2>2, <3>1 DEF Left
  <2>4. CASE bad = {}
    <3>1. \A b \in start + 1 .. end : ~BadBlock(node, b)
      BY <2>1, <2>4
    <3> HIDE DEF full
    <3> QED BY <1>2, <1>4, <2>1, <2>3, <2>4, <3>1 DEF full
  <2>5. CASE bad # {}
    <3>1. bad \in SUBSET Nat
      BY <1>1
    <3>2. Min(bad) \in bad
      BY <2>5, <3>1, MinIsLeast
    <3>3. Min(bad) \in start + 1 .. end /\ BadBlock(node, Min(bad))
      BY <2>1, <3>2
    <3>4. Before(offset, Min(bad)) \in Nat
      <4> DEFINE m == Min(bad)
      <4>1. m \in Nat /\ m >= offset \div BLOCKSIZE
        BY <1>1, <3>3
      <4> HIDE DEF m
      <4>2. Before(offset, m) \in Nat
        BY <4>1, BeforeFacts
      <4> QED BY <4>2 DEF m
    <3>5. total = Before(offset, Min(bad))
      BY <2>5
    <3> HIDE DEF bad, total
    <3> QED BY <1>2, <1>4, <2>1, <3>3, <3>4, <3>5
  <2> QED BY <2>4, <2>5
<1> QED BY <1>1, <1>3, <1>4

\* The block that byte k of a copy comes from, and its place there.
LEMMA SourceFacts ==
  ASSUME NEW n \in DOMAIN Inodes, NEW offset \in Nat, NEW k \in Nat,
         NEW end \in 0 .. WORD \div BLOCKSIZE
  PROVE  /\ Source(Inodes[n], offset, end, k) \in Int
         /\ (offset + k) \div BLOCKSIZE <= end =>
              Source(Inodes[n], offset, end, k) = FileByte(Inodes[n], offset + k)
<1> DEFINE node == Inodes[n]
           start == offset \div BLOCKSIZE
           rest == offset % BLOCKSIZE
           within == rest + k
           q == within \div BLOCKSIZE
           r == within % BLOCKSIZE
           i == Min({start + q, end})
<1>1. BLOCKSIZE \in Nat \ {0} /\ WORD \in Nat \ {0} /\ WORD \div BLOCKSIZE \in Nat
  BY ImageAssumption, Division
<1>2. start \in Nat /\ rest \in 0 .. BLOCKSIZE - 1 /\ offset = start * BLOCKSIZE + rest
  BY <1>1, Division
<1>3. within \in Nat
  BY <1>1, <1>2
<1>4. q \in Nat /\ r \in 0 .. BLOCKSIZE - 1 /\ within = q * BLOCKSIZE + r
  <2> HIDE DEF within
  <2> QED BY <1>1, <1>3, Division
<1>5. Source(node, offset, end, k) = node.dblock[i] * BLOCKSIZE + (within - (i - start) * BLOCKSIZE)
  BY DEF Source, get_dblock_mem
<1>6. end \in Nat /\ end <= WORD \div BLOCKSIZE
  BY <1>1
<1>7. i = IF start + q <= end THEN start + q ELSE end
  <2> HIDE DEF start, q
  <2>1. start + q \in Nat
    BY <1>2, <1>4
  <2> QED BY <1>6, <2>1, OfTwo
<1>8. i \in 0 .. WORD \div BLOCKSIZE
  <2> HIDE DEF start, q, i
  <2> QED BY <1>1, <1>2, <1>4, <1>6, <1>7
<1>9. node.dblock[i] \in Nat
  BY <1>8, ImageAssumption
<1>10. Source(node, offset, end, k) \in Int
  <2> HIDE DEF start, within, i
  <2>1. i \in Int /\ start \in Int /\ (i - start) * BLOCKSIZE \in Int
    BY <1>1, <1>2, <1>8
  <2>2. node.dblock[i] * BLOCKSIZE \in Int
    BY <1>1, <1>9
  <2> QED BY <1>3, <1>5, <2>1, <2>2
<1>11. (offset + k) \div BLOCKSIZE = start + q /\ (offset + k) % BLOCKSIZE = r
  <2>1. offset + k = (start + q) * BLOCKSIZE + r
    <3> HIDE DEF start, rest, q, r
    <3> QED BY <1>1, <1>2, <1>3, <1>4
  <2>2. start + q \in Nat
    BY <1>2, <1>4
  <2> DEFINE m == start + q
  <2>3. offset + k = m * BLOCKSIZE + r /\ m \in Nat
    BY <2>1, <2>2
  <2> HIDE DEF m, r
  <2>4. (m * BLOCKSIZE + r) \div BLOCKSIZE = m /\ (m * BLOCKSIZE + r) % BLOCKSIZE = r
    BY <1>1, <1>4, <2>3, DivisionUnique
  <2> QED BY <2>3, <2>4 DEF m
<1>12. CASE start + q <= end
  <2>1. i = start + q
    BY <1>7, <1>12
  <2>2. within - (i - start) * BLOCKSIZE = r
    <3> HIDE DEF start, within, q, r, i
    <3>1. i - start = q
      BY <1>2, <1>4, <2>1
    <3>2. q * BLOCKSIZE \in Nat
      BY <1>1, <1>4
    <3> QED BY <1>1, <1>4, <3>1, <3>2
  <2>3. FileByte(node, offset + k) = node.dblock[start + q] * BLOCKSIZE + r
    BY <1>11 DEF FileByte
  <2> HIDE DEF start, within, q, r, i
  <2> QED BY <1>5, <1>10, <2>1, <2>2, <2>3
<1> QED BY <1>10, <1>11, <1>12

\* What a read returns is a sequence of bytes.
LEMMA ReadType ==
  ASSUME NEW n \in DOMAIN Inodes, NEW offset \in Nat, NEW length \in Nat,
         offset + length < WORD
  PROVE  read_data(Inodes[n], offset, length) \in Seq(Int)
<1> DEFINE start == offset \div BLOCKSIZE
           end == EndBlock(Inodes[n], offset, length)
           buf == read_data(Inodes[n], offset, length)
<1>1. end \in 0 .. WORD \div BLOCKSIZE
  BY EndBlockFacts
<1>2. \/ buf = <<>>
      \/ \E total \in Nat : buf = [k \in 1 .. total |-> Source(Inodes[n], offset, end, k - 1)]
  BY ReadShape
<1>3. ASSUME NEW total \in Nat,
             buf = [k \in 1 .. total |-> Source(Inodes[n], offset, end, k - 1)]
      PROVE  buf \in Seq(Int)
  <2>1. \A k \in 1 .. total : Source(Inodes[n], offset, end, k - 1) \in Int
    <3> HIDE DEF end
    <3> TAKE k \in 1 .. total
    <3>1. k - 1 \in Nat
      OBVIOUS
    <3> QED BY <1>1, <3>1, SourceFacts
  <2> HIDE DEF buf, end
  <2> QED BY <1>3, <2>1
<1> HIDE DEF buf
<1>4. buf = <<>> => buf \in Seq(Int)
  OBVIOUS
<1>5. buf \in Seq(Int)
  BY <1>2, <1>3, <1>4
<1> QED BY <1>5 DEF buf

\* A read of some bytes of a file that has some: all of them, or nothing if it
\* starts in a block behind the last one that it asks for.
LEMMA ReadOfFile ==
  ASSUME NEW n \in DOMAIN Inodes, NEW offset \in Nat, NEW length \in Nat,
         offset + length < WORD, Inodes[n].length > 0, offset + length > 0,
         NEW start, start = offset \div BLOCKSIZE,
         NEW end, end = EndBlock(Inodes[n], offset, length)
  PROVE  \/ /\ read_data(Inodes[n], offset, length) = <<>>
            /\ start > end
         \/ /\ read_data(Inodes[n], offset, length) =
                 [k \in 1 .. length |-> Source(Inodes[n], offset, end, k - 1)]
            /\ start <= end
<1> DEFINE len == Inodes[n].length
           node == Inodes[n]
<1>1. /\ BLOCKSIZE \in Nat \ {0} /\ WORD \in Nat \ {0}
      /\ len \in Nat /\ len > 0 /\ fs_dblocks \in Nat
  BY ImageAssumption
<1>2. start \in Nat
  BY <1>1, Division
<1>3. end = IF len < offset + length THEN (len - 1) \div BLOCKSIZE
            ELSE (offset + length - 1) \div BLOCKSIZE
  BY EndBlockFacts
<1>4. /\ end \in Nat /\ end <= (len - 1) \div BLOCKSIZE
      /\ end <= (offset + length - 1) \div BLOCKSIZE
      /\ (len - 1) \div BLOCKSIZE \in Nat
  <2> DEFINE a == len - 1
             c == offset + length - 1
  <2>1. a \in Nat /\ c \in Nat
    BY <1>1
  <2>2. IF len < offset + length THEN a <= c ELSE c <= a
    BY <1>1
  <2> HIDE DEF a, c
  <2>3. a \div BLOCKSIZE \in Nat /\ c \div BLOCKSIZE \in Nat
    BY <1>1, <2>1, Division
  <2>4. /\ a <= c => a \div BLOCKSIZE <= c \div BLOCKSIZE
        /\ c <= a => c \div BLOCKSIZE <= a \div BLOCKSIZE
    BY <1>1, <2>1, DivisionMonotonic
  <2>5. end = IF len < offset + length THEN a \div BLOCKSIZE ELSE c \div BLOCKSIZE
    BY <1>3 DEF a, c
  <2>6. end \in Nat /\ end <= a \div BLOCKSIZE /\ end <= c \div BLOCKSIZE
    BY <2>2, <2>3, <2>4, <2>5
  <2> QED BY <2>3, <2>6 DEF a, c
<1>5. \A b \in 0 .. end : ~BadBlock(node, b)
  <2> TAKE b \in 0 .. end
  <2>1. b \in 0 .. (len - 1) \div BLOCKSIZE
    BY <1>4
  <2>2. node.dblock[b] < fs_dblocks
    BY <2>1, SoundAssumption
  <2>3. node.dblock[b] \in Nat
    <3>1. end \in 0 .. WORD \div BLOCKSIZE /\ WORD \div BLOCKSIZE \in Nat
      BY <1>1, EndBlockFacts, Division
    <3>2. b \in 0 .. WORD \div BLOCKSIZE
      BY <1>4, <3>1
    <3> QED BY <3>2, ImageAssumption
  <2> QED BY <1>1, <2>2, <2>3 DEF BadBlock
<1>6. CASE start > end
  BY <1>2, <1>4, <1>6, ReadShape
<1>7. CASE start <= end
  <2>1. ~BadBlock(node, start) /\ \A b \in start + 1 .. end : ~BadBlock(node, b)
    BY <1>2, <1>4, <1>5, <1>7
  <2>2. read_data(node, offset, length) =
             [k \in 1 .. Before(offset, end) + Left(length, Before(offset, end))
                |-> Source(node, offset, end, k - 1)]
    <3>1. ~(BadBlock(node, start) \/ start > end)
      BY <1>2, <1>4, <1>7, <2>1
    <3>2. PICK total \in Nat :
            /\ read_data(node, offset, length) =
                 [k \in 1 .. total |-> Source(node, offset, end, k - 1)]
            /\ \/ total = Before(offset, end) + Left(length, Before(offset, end))
               \/ \E b \in start + 1 .. end : BadBlock(node, b)
      BY <3>1, ReadShape
    <3> QED BY <2>1, <3>2
  <2> DEFINE B == Before(offset, end)
  <2>3. end * BLOCKSIZE <= offset + length - 1
    <3> DEFINE c == offset + length - 1
    <3>1. c \in Nat
      OBVIOUS
    <3> HIDE DEF c
    <3>2. c \div BLOCKSIZE \in Nat /\ (c \div BLOCKSIZE) * BLOCKSIZE <= c
      <4>1. /\ c \div BLOCKSIZE \in Nat /\ c % BLOCKSIZE \in 0 .. BLOCKSIZE - 1
            /\ c = (c \div BLOCKSIZE) * BLOCKSIZE + (c % BLOCKSIZE)
        BY <1>1, <3>1, Division
      <4>2. (c \div BLOCKSIZE) * BLOCKSIZE \in Nat
        BY <1>1, <4>1
      <4> QED BY <1>1, <3>1, <4>1, <4>2
    <3>3. end * BLOCKSIZE <= (c \div BLOCKSIZE) * BLOCKSIZE
      BY <1>1, <1>4, <3>2, TimesMonotonic DEF c
    <3>4. end * BLOCKSIZE \in Nat /\ (c \div BLOCKSIZE) * BLOCKSIZE \in Nat
      BY <1>1, <1>4, <3>2
    <3>5. end * BLOCKSIZE <= c
      BY <3>1, <3>2, <3>3, <3>4
    <3> QED BY <3>5 DEF c
  <2>4. B \in Nat /\ B <= length
    <3>1. B \in Nat /\ (end = start => B = 0) /\ (end > start => B = end * BLOCKSIZE - offset)
      BY <1>2, <1>4, <1>7, BeforeFacts
    <3>2. end * BLOCKSIZE \in Nat
      BY <1>1, <1>4
    <3> HIDE DEF B
    <3> QED BY <1>2, <1>4, <1>7, <2>3, <3>1, <3>2
  <2>5. Left(length, B) = length - B
    <3> HIDE DEF B
    <3>1. length - B \in 0 .. WORD - 1
      BY <1>1, <2>4
    <3> QED BY <1>1, <3>1, Unsigned DEF Left
  <2>6. B + Left(length, B) = length
    <3> HIDE DEF B
    <3> QED BY <2>4, <2>5
  <2> QED BY <1>7, <2>2, <2>6
<1> QED BY <1>2, <1>4, <1>6, <1>7

\* But for 0 bytes from position 0 no read of a file that is not empty copies
\* more than it was asked for.
LEMMA ReadFits ==
  ASSUME NEW n \in DOMAIN Inodes, NEW offset \in Nat, NEW length \in Nat,
         offset + length < WORD, Inodes[n].length > 0, offset + length > 0
  PROVE  Len(read_data(Inodes[n], offset, length)) <= length
<1> DEFINE end == EndBlock(Inodes[n], offset, length)
           buf == read_data(Inodes[n], offset, length)
<1>1. buf = <<>> \/ buf = [k \in 1 .. length |-> Source(Inodes[n], offset, end, k - 1)]
  BY ReadOfFile
<1> HIDE DEF buf, end
<1>2. Len(buf) <= length
  BY <1>1
<1> QED BY <1>2 DEF buf

\* What a read of a file with bytes in it returns: they come in order; nothing
\* comes only from its end on, and something only before the end of its last
\* block.
ReadAnswer(node, offset, length, buf) ==
  /\ \A k \in 1 .. Len(buf) :
       offset + k <= node.length => buf[k] = FileByte(node, offset + k - 1)
  /\ buf = <<>> /\ length > 0 => offset >= node.length
  /\ buf # <<>> => offset <= LastStart(node)

\* read_data answers that way.
LEMMA ReadFileFacts ==
  ASSUME NEW n \in DOMAIN Inodes, NEW offset \in Nat, NEW length \in Nat,
         offset + length < WORD, Inodes[n].length > 0,
         NEW buf, buf = read_data(Inodes[n], offset, length), Len(buf) <= length
  PROVE  ReadAnswer(Inodes[n], offset, length, buf)
<1> USE DEF ReadAnswer
<1> DEFINE len == Inodes[n].length
           node == Inodes[n]
           start == offset \div BLOCKSIZE
           end == EndBlock(node, offset, length)
<1>1. BLOCKSIZE \in Nat \ {0} /\ WORD \in Nat \ {0} /\ len \in Nat /\ len > 0
  BY ImageAssumption
<1>2. CASE offset + length = 0
  <2>1. buf \in Seq(Int) /\ length = 0 /\ Len(buf) = 0
    BY <1>2, ReadType
  <2>2. buf = <<>>
    BY <2>1
  <2> QED BY <2>1, <2>2
<1>3. CASE offset + length > 0
  <2>1. end = IF len < offset + length THEN (len - 1) \div BLOCKSIZE
              ELSE (offset + length - 1) \div BLOCKSIZE
    BY <1>3, EndBlockFacts
  <2>2. \/ buf = <<>> /\ start > end
        \/ /\ buf = [k \in 1 .. length |-> Source(node, offset, end, k - 1)]
           /\ start <= end
    BY <1>3, ReadOfFile
  <2>3. /\ start \in Nat /\ offset % BLOCKSIZE \in 0 .. BLOCKSIZE - 1
        /\ offset = start * BLOCKSIZE + (offset % BLOCKSIZE)
    BY <1>1, Division
  <2>4. end \in 0 .. WORD \div BLOCKSIZE /\ end \in Nat
    BY <1>1, EndBlockFacts, Division
  <2>5. ASSUME NEW a \in Nat, a < len, a < offset + length
        PROVE  a \div BLOCKSIZE <= end
    <3> DEFINE c == IF len < offset + length THEN len - 1 ELSE offset + length - 1
    <3>1. c \in Nat /\ a <= c
      BY <1>1, <1>3, <2>5
    <3>2. end = c \div BLOCKSIZE
      BY <2>1
    <3> HIDE DEF c, end
    <3> QED BY <1>1, <3>1, <3>2, DivisionMonotonic
  <2>6. CASE buf = <<>> /\ start > end
    <3>1. length > 0 => offset >= len
      <4> SUFFICES ASSUME length > 0, offset < len PROVE FALSE
        BY <1>1
      <4>1. start <= end
        BY <2>5
      <4> HIDE DEF start, end
      <4> QED BY <2>3, <2>4, <2>6, <4>1
    <3> QED BY <2>6, <3>1
  <2>7. CASE /\ buf = [k \in 1 .. length |-> Source(node, offset, end, k - 1)]
             /\ start <= end
    <3>1. Len(buf) = length
      <4> HIDE DEF end
      <4> QED BY <2>7
    <3>2. ASSUME NEW k \in 1 .. Len(buf), offset + k <= len
          PROVE  buf[k] = FileByte(node, offset + k - 1)
      <4> DEFINE j == k - 1
      <4>1. j \in Nat /\ offset + j \in Nat /\ offset + j < len /\ offset + j < offset + length
        BY <1>1, <3>1, <3>2
      <4>2. (offset + j) \div BLOCKSIZE <= end
        BY <2>5, <4>1
      <4>3. buf[k] = Source(node, offset, end, j)
        BY <2>7, <3>1, <3>2
      <4>4. offset + k - 1 = offset + j
        BY <3>2
      <4> HIDE DEF j, end
      <4>5. Source(node, offset, end, j) = FileByte(node, offset + j)
        BY <2>4, <4>1, <4>2, SourceFacts
      <4> QED BY <4>3, <4>4, <4>5
    <3>3. buf = <<>> => length = 0
      BY <3>1
    <3>4. buf # <<>> => offset <= LastStart(node)
      <4> DEFINE q == (len - 1) \div BLOCKSIZE
      <4>1. CASE length > 0
        <5>1. end <= q /\ q \in Nat
          <6> DEFINE a == len - 1
                     c == offset + length - 1
          <6>1. a \in Nat /\ c \in Nat /\ (~(len < offset + length) => c <= a)
            BY <1>1, <4>1
          <6>2. end = a \div BLOCKSIZE \/ (c <= a /\ end = c \div BLOCKSIZE)
            BY <2>1, <6>1
          <6>3. q = a \div BLOCKSIZE
            OBVIOUS
          <6> HIDE DEF a, c, end, q
          <6>4. q \in Nat
            BY <1>1, <6>1, <6>3, Division
          <6> QED BY <1>1, <2>4, <6>1, <6>2, <6>3, <6>4, DivisionMonotonic
        <5>2. start * BLOCKSIZE <= q * BLOCKSIZE
          <6> HIDE DEF start, end, q
          <6>1. start <= q
            BY <2>3, <2>4, <2>7, <5>1
          <6> QED BY <1>1, <2>3, <5>1, <6>1, TimesMonotonic
        <5>3. LastStart(node) = q * BLOCKSIZE + BLOCKSIZE - 1
          <6>1. LastStart(node) = BytesOnDisk(node) - 1
            BY <1>1 DEF LastStart
          <6>2. BytesOnDisk(node) = q * BLOCKSIZE + BLOCKSIZE
            BY <1>1, FileSizes
          <6> HIDE DEF q
          <6>3. q * BLOCKSIZE \in Nat
            BY <1>1, <5>1
          <6> QED BY <1>1, <6>1, <6>2, <6>3
        <5> HIDE DEF start, q
        <5>4. start * BLOCKSIZE \in Nat /\ q * BLOCKSIZE \in Nat
          BY <1>1, <2>3, <5>1
        <5> QED BY <1>1, <2>3, <5>2, <5>3, <5>4
      <4>2. CASE length = 0
        <5> HIDE DEF end
        <5>1. buf = <<>>
          BY <2>7, <4>2
        <5> QED BY <5>1
      <4> QED BY <4>1, <4>2
    <3> QED BY <3>2, <3>3, <3>4
  <2> QED BY <2>2, <2>6, <2>7
<1> QED BY <1>2, <1>3

\* An empty file: a read that stays within its buffer ends before a block that
\* does not exist, and one that starts there returns nothing.
LEMMA ReadEmptyFacts ==
  ASSUME NEW n \in DOMAIN Inodes, NEW offset \in Nat, NEW length \in Nat,
         offset + length < WORD, BLOCKSIZE + length < WORD, Inodes[n].length = 0,
         NEW buf, buf = read_data(Inodes[n], offset, length), Len(buf) <= length
  PROVE  /\ BadBlock(Inodes[n], offset \div BLOCKSIZE) => buf = <<>>
         /\ offset = 0 => buf = <<>> \/ BadBlock(Inodes[n], Len(buf) \div BLOCKSIZE)
<1> DEFINE node == Inodes[n]
           start == offset \div BLOCKSIZE
           end == EndBlock(node, offset, length)
<1>1. BLOCKSIZE \in Nat \ {0} /\ WORD \in Nat \ {0}
  BY ImageAssumption
<1>2. end = (WORD - 1) \div BLOCKSIZE
  BY EndBlockFacts
<1>3. \/ buf = <<>>
      \/ /\ ~BadBlock(node, start) /\ start <= end
         /\ \E total \in Nat :
              /\ buf = [k \in 1 .. total |-> Source(node, offset, end, k - 1)]
              /\ \/ total = Before(offset, end) + Left(length, Before(offset, end))
                 \/ \E b \in start + 1 .. end :
                      BadBlock(node, b) /\ total = Before(offset, b)
  <2> HIDE DEF start, end
  <2>1. start = offset \div BLOCKSIZE /\ end = EndBlock(node, offset, length)
    BY DEF start, end
  <2> QED BY <2>1, ReadShape
<1>4. ASSUME offset = 0, buf # <<>>
      PROVE  BadBlock(node, Len(buf) \div BLOCKSIZE)
  <2>1. start = 0 /\ start \in Nat
    BY <1>1, <1>4
  <2>2. /\ end \in Nat /\ end * BLOCKSIZE \in Nat /\ WORD - BLOCKSIZE <= end * BLOCKSIZE
        /\ end * BLOCKSIZE < WORD
    <3> DEFINE w == WORD - 1
    <3>1. w \in Nat
      BY <1>1
    <3> HIDE DEF w
    <3>2. /\ w \div BLOCKSIZE \in Nat /\ w % BLOCKSIZE \in 0 .. BLOCKSIZE - 1
          /\ w = (w \div BLOCKSIZE) * BLOCKSIZE + (w % BLOCKSIZE)
      BY <1>1, <3>1, Division
    <3>3. end = w \div BLOCKSIZE
      BY <1>2 DEF w
    <3>4. (w \div BLOCKSIZE) * BLOCKSIZE \in Nat
      <4> DEFINE q == w \div BLOCKSIZE
      <4>1. q \in Nat
        BY <3>2
      <4> HIDE DEF q
      <4>2. q * BLOCKSIZE \in Nat
        BY <1>1, <4>1
      <4> QED BY <4>2 DEF q
    <3> HIDE DEF end
    <3>5. w = WORD - 1
      BY DEF w
    <3> QED BY <1>1, <3>1, <3>2, <3>3, <3>4, <3>5
  <2>3. PICK total \in Nat :
          /\ buf = [k \in 1 .. total |-> Source(node, offset, end, k - 1)]
          /\ \/ total = Before(offset, end) + Left(length, Before(offset, end))
             \/ \E b \in start + 1 .. end : BadBlock(node, b) /\ total = Before(offset, b)
    BY <1>3, <1>4
  <2>4. Len(buf) = total
    <3> HIDE DEF end
    <3> QED BY <2>3
  <2>5. total # Before(offset, end) + Left(length, Before(offset, end))
    <3> DEFINE B == Before(offset, end)
    <3>1. B \in Nat /\ B = end * BLOCKSIZE
      <4>1. end >= start
        BY <2>1, <2>2
      <4>2. B \in Nat /\ (end > start => B = end * BLOCKSIZE - offset) /\ (end = start => B = 0)
        BY <2>2, <4>1, BeforeFacts
      <4> HIDE DEF B, start, end
      <4> QED BY <1>1, <1>4, <2>1, <2>2, <4>1, <4>2
    <3> HIDE DEF B
    <3>2. B > length /\ B < WORD
      <4> HIDE DEF end
      <4> QED BY <1>1, <2>2, <3>1
    <3>3. Left(length, B) = WORD - (B - length)
      <4> DEFINE d == B - length
      <4>1. d \in 1 .. WORD - 1
        BY <1>1, <3>1, <3>2
      <4>2. length - B = 0 - d
        BY <3>1
      <4> HIDE DEF d
      <4>3. (0 - d) % WORD = WORD - d
        BY <1>1, <4>1, Unsigned
      <4> QED BY <4>2, <4>3 DEF Left, d
    <3>4. B + Left(length, B) > length
      BY <1>1, <3>1, <3>2, <3>3
    <3> QED BY <2>4, <3>1, <3>4 DEF B
  <2>6. PICK b \in start + 1 .. end : BadBlock(node, b) /\ total = Before(offset, b)
    BY <2>3, <2>5
  <2>7. b \in Nat /\ b > start
    BY <2>1, <2>2
  <2>8. total = b * BLOCKSIZE
    <3>1. b * BLOCKSIZE \in Nat
      BY <1>1, <2>7
    <3>2. total = b * BLOCKSIZE - offset
      BY <2>1, <2>6, <2>7, BeforeFacts
    <3> QED BY <1>4, <3>1, <3>2
  <2>9. (b * BLOCKSIZE + 0) \div BLOCKSIZE = b
    <3>1. 0 \in 0 .. BLOCKSIZE - 1
      BY <1>1
    <3> QED BY <1>1, <2>7, <3>1, DivisionUnique
  <2>10. b * BLOCKSIZE + 0 = b * BLOCKSIZE
    BY <1>1, <2>7
  <2> QED BY <2>4, <2>6, <2>8, <2>9, <2>10
<1> QED BY <1>3, <1>4

-----------------------------------------------------------------------------
(* Names *)

\* strlen is the number of characters in front of the first 0, if there is one.
LEMMA StrlenFacts ==
  ASSUME NEW s \in Seq(Nat)
  PROVE  /\ strlen(s) \in 0 .. Len(s)
         /\ \A j \in 1 .. strlen(s) : s[j] # 0
         /\ strlen(s) < Len(s) => s[strlen(s) + 1] = 0
<1> DEFINE S == {j \in DOMAIN s : s[j] = 0} \cup {Len(s) + 1}
           m == Min(S)
<1>1. Len(s) \in Nat /\ DOMAIN s = 1 .. Len(s)
  OBVIOUS
<1>2. S \in SUBSET Nat /\ S # {} /\ \A j \in S : j >= 1 /\ j <= Len(s) + 1
  BY <1>1
<1>3. m \in S /\ \A j \in S : m <= j
  <2> HIDE DEF S
  <2> QED BY <1>2, MinIsLeast
<1>4. strlen(s) = m - 1
  BY DEF strlen
<1> HIDE DEF m
<1>5. m \in Nat /\ m >= 1 /\ m <= Len(s) + 1
  BY <1>2, <1>3
<1>6. \A j \in 1 .. m - 1 : s[j] # 0
  <2> TAKE j \in 1 .. m - 1
  <2>1. j \in DOMAIN s /\ ~(m <= j)
    BY <1>1, <1>5
  <2> QED BY <1>3, <2>1
<1>7. m - 1 < Len(s) => s[m] = 0
  BY <1>1, <1>3, <1>5
<1> QED BY <1>1, <1>4, <1>5, <1>6, <1>7

\* The length of a string is the only number with the facts above.
LEMMA StrlenUnique ==
  ASSUME NEW s \in Seq(Nat), NEW m \in 0 .. Len(s),
         \A j \in 1 .. m : s[j] # 0, m < Len(s) => s[m + 1] = 0
  PROVE  strlen(s) = m
<1> DEFINE l == strlen(s)
<1>1. l \in 0 .. Len(s) /\ (\A j \in 1 .. l : s[j] # 0) /\ (l < Len(s) => s[l + 1] = 0)
  BY StrlenFacts
<1>2. Len(s) \in Nat
  OBVIOUS
<1> HIDE DEF l
<1>3. ~(l < m)
  <2> SUFFICES ASSUME l < m PROVE FALSE
    OBVIOUS
  <2>1. l + 1 \in 1 .. m /\ l < Len(s)
    BY <1>1, <1>2
  <2> QED BY <1>1, <2>1
<1>4. ~(m < l)
  <2> SUFFICES ASSUME m < l PROVE FALSE
    OBVIOUS
  <2>1. m + 1 \in 1 .. l /\ m < Len(s)
    BY <1>1, <1>2
  <2> QED BY <1>1, <2>1
<1> QED BY <1>1, <1>2, <1>3, <1>4 DEF l

\* Two arrays hold the same string if they agree up to its end.
LEMMA CStringEqual ==
  ASSUME NEW s \in Seq(Nat), NEW t \in Seq(Nat)
  PROVE  CString(s) = CString(t) <=>
           strlen(s) = strlen(t) /\ \A j \in 1 .. strlen(s) : s[j] = t[j]
<1>1. strlen(s) \in 0 .. Len(s) /\ strlen(t) \in 0 .. Len(t)
  BY StrlenFacts
<1>2. Len(s) \in Nat /\ Len(t) \in Nat
  OBVIOUS
<1>3. CString(s) = [j \in 1 .. strlen(s) |-> s[j]]
  BY <1>1, <1>2 DEF CString
<1>4. CString(t) = [j \in 1 .. strlen(t) |-> t[j]]
  BY <1>1, <1>2 DEF CString
<1>5. strlen(s) \in Nat /\ strlen(t) \in Nat
  BY <1>1, <1>2
<1>6. ASSUME CString(s) = CString(t)
      PROVE  strlen(s) = strlen(t) /\ \A j \in 1 .. strlen(s) : s[j] = t[j]
  <2>1. Len(CString(s)) = strlen(s) /\ Len(CString(t)) = strlen(t)
    BY <1>3, <1>4, <1>5
  <2>2. strlen(s) = strlen(t)
    BY <1>6, <2>1
  <2>3. \A j \in 1 .. strlen(s) : CString(s)[j] = s[j]
    BY <1>3
  <2>4. \A j \in 1 .. strlen(s) : CString(t)[j] = t[j]
    BY <1>4, <2>2
  <2> QED BY <1>6, <2>2, <2>3, <2>4
<1>7. ASSUME strlen(s) = strlen(t), \A j \in 1 .. strlen(s) : s[j] = t[j]
      PROVE  CString(s) = CString(t)
  BY <1>3, <1>4, <1>7
<1> QED BY <1>6, <1>7

\* The comparison loop of read_dentry_by_name is equality of the two strings,
\* for a name with and without a 0 in its field.
LEMMA NameEqual ==
  ASSUME NEW fname, IsFname(fname), NEW name \in Seq(Nat), Len(name) = NAMELEN
  PROVE  NameMatches(fname, name) <=> CString(fname) = CString(name)
<1>1. fname \in Seq(Nat) /\ Len(fname) \in Nat /\ Len(fname) > NAMELEN /\ NAMELEN \in Nat \ {0}
  BY ImageAssumption DEF IsFname
<1> DEFINE m == strlen(name)
<1>2. m \in 0 .. NAMELEN /\ (\A j \in 1 .. m : name[j] # 0) /\ (m < NAMELEN => name[m + 1] = 0)
  BY StrlenFacts
<1>3. ASSUME NameMatches(fname, name)
      PROVE  CString(fname) = CString(name)
  <2> SUFFICES /\ \A j \in 1 .. m : fname[j] = name[j]
               /\ fname[m + 1] = 0
    <3>1. m \in 0 .. Len(fname) /\ \A j \in 1 .. m : fname[j] # 0
      BY <1>1, <1>2
    <3>2. strlen(fname) = m
      BY <1>1, <3>1, StrlenUnique
    <3> QED BY <1>1, <3>2, CStringEqual
  <2> HIDE DEF m
  <2>1. CASE /\ \A j \in 1 .. NAMELEN : fname[j] = name[j]
             /\ (\E j \in 1 .. NAMELEN : fname[j] = 0) \/ fname[NAMELEN + 1] = 0
    <3>1. CASE m < NAMELEN
      <4>1. m + 1 \in 1 .. NAMELEN
        BY <1>1, <1>2, <3>1
      <4> QED BY <1>1, <1>2, <2>1, <3>1, <4>1
    <3>2. CASE m = NAMELEN
      BY <1>1, <1>2, <2>1, <3>2
    <3> QED BY <1>1, <1>2, <3>1, <3>2
  <2>2. ASSUME NEW j \in 1 .. NAMELEN, fname[j] = 0, name[j] = 0,
               \A k \in 1 .. j - 1 : fname[k] = name[k]
        PROVE  /\ \A k \in 1 .. m : fname[k] = name[k]
               /\ fname[m + 1] = 0
    <3>1. j \in Nat /\ ~(j \in 1 .. m)
      BY <1>2, <2>2
    <3>2. m < j /\ m < NAMELEN
      BY <1>1, <1>2, <3>1
    <3>3. \A k \in 1 .. m : fname[k] = name[k]
      BY <1>2, <2>2, <3>1, <3>2
    <3>4. m + 1 = j \/ m + 1 \in 1 .. j - 1
      BY <1>2, <3>1, <3>2
    <3> QED BY <1>2, <2>2, <3>2, <3>3, <3>4
  <2> QED BY <1>3, <2>1, <2>2 DEF NameMatches
<1>4. ASSUME CString(fname) = CString(name)
      PROVE  NameMatches(fname, name)
  <2>1. strlen(fname) = m /\ \A j \in 1 .. m : fname[j] = name[j]
    BY <1>1, <1>4, CStringEqual
  <2>2. fname[m + 1] = 0
    <3>1. m < Len(fname)
      BY <1>1, <1>2
    <3> QED BY <1>1, <2>1, <3>1, StrlenFacts
  <2> HIDE DEF m
  <2>3. CASE m < NAMELEN
    <3>1. m + 1 \in 1 .. NAMELEN /\ (m + 1) - 1 = m
      BY <1>1, <1>2, <2>3
    <3>2. \A k \in 1 .. (m + 1) - 1 : fname[k] = name[k]
      BY <2>1, <3>1
    <3> QED BY <1>2, <2>2, <2>3, <3>1, <3>2 DEF NameMatches
  <2>4. CASE m = NAMELEN
    BY <2>1, <2>2, <2>4 DEF NameMatches
  <2> QED BY <1>1, <1>2, <2>3, <2>4
<1> QED BY <1>3, <1>4

\* The entries of the directory.
LEMMA EntryType ==
  /\ Len(Dentries) \in Nat /\ DOMAIN Dentries = 1 .. Len(Dentries)
  /\ \A i \in DOMAIN Dentries :
       /\ Dentries[i].name \in Seq(Nat) /\ Len(Dentries[i].name) = NAMELEN
       /\ Dentries[i].type \in Types /\ Dentries[i].inode \in Nat
       /\ Dentries[i].type = "file" => Dentries[i].inode \in DOMAIN Inodes
<1> DEFINE R == [name : Seq(Nat), type : Types, inode : Nat]
<1>1. Dentries \in Seq(R)
  BY ImageAssumption
<1>2. \A i \in DOMAIN Dentries : Dentries[i] \in R
  <2> HIDE DEF R
  <2> QED BY <1>1
<1>3. Len(Dentries) \in Nat /\ DOMAIN Dentries = 1 .. Len(Dentries)
  <2> HIDE DEF R
  <2> QED BY <1>1
<1>4. \A i \in DOMAIN Dentries :
        Dentries[i].name \in Seq(Nat) /\ Dentries[i].type \in Types /\ Dentries[i].inode \in Nat
  BY <1>2
<1> QED BY <1>3, <1>4, ImageAssumption

\* What is found has the name that was looked for.
LEMMA FoundIsNamed ==
  ASSUME NEW fname, IsFname(fname), NEW i \in DOMAIN Dentries, read_dentry_by_name(fname, i)
  PROVE  EntryName[i] = CString(fname)
<1>1. Dentries[i].name \in Seq(Nat) /\ Len(Dentries[i].name) = NAMELEN
  BY EntryType
<1>2. NameMatches(fname, Dentries[i].name)
  BY DEF read_dentry_by_name
<1> QED BY <1>1, <1>2, NameEqual DEF EntryName

\* The first entry of a name is found.
LEMMA NamedIsFound ==
  ASSUME NEW fname, IsFname(fname), NEW i \in DOMAIN Dentries,
         EntryName[i] = CString(fname)
  PROVE  \E j \in DOMAIN Dentries : read_dentry_by_name(fname, j)
<1> DEFINE S == {j \in DOMAIN Dentries : NameMatches(fname, Dentries[j].name)}
<1>2. DOMAIN Dentries = 1 .. Len(Dentries) /\ Len(Dentries) \in Nat
  BY EntryType
<1>3. i \in S
  <2>1. Dentries[i].name \in Seq(Nat) /\ Len(Dentries[i].name) = NAMELEN
    BY EntryType
  <2> QED BY <2>1, NameEqual DEF EntryName
<1>4. S \in SUBSET Nat
  BY <1>2
<1>5. Min(S) \in S /\ \A j \in S : Min(S) <= j
  <2> HIDE DEF S
  <2> QED BY <1>3, <1>4, MinIsLeast
<1> DEFINE m == Min(S)
<1>6. m \in DOMAIN Dentries /\ NameMatches(fname, Dentries[m].name)
  BY <1>5
<1>7. \A j \in 1 .. m - 1 : ~NameMatches(fname, Dentries[j].name)
  <2> HIDE DEF m
  <2> TAKE j \in 1 .. m - 1
  <2>1. j \in DOMAIN Dentries /\ ~(m <= j)
    BY <1>2, <1>6
  <2> QED BY <1>5, <2>1 DEF m
<1> HIDE DEF m
<1> QED BY <1>6, <1>7 DEF read_dentry_by_name

\* Lookup agrees with equality of strings.
LEMMA LookupSound == LookupAgrees
BY FoundIsNamed, NamedIsFound, ImageAssumption DEF LookupAgrees

-----------------------------------------------------------------------------
(* The inductive invariant *)

FdRecord ==
  [flags : {0, 1}, table_pointer : Types \cup {NoTable}, inode : Int, file_position : Nat]

FsTypes ==
  /\ fd_table \in [Fds -> FdRecord]
  /\ opened_as = [fd \in Fds |-> opened_as[fd]]
  /\ got \in [Fds -> Seq(Int)]
  /\ ended \in [Fds -> BOOLEAN]

\* A descriptor of a file: what ReadsAreTheFile, EndOnlyAfterAll and ReadsStop
\* say of it; and a read of an empty file that has returned something has
\* stopped in front of a block that does not exist, where the next one stops.
FileGood(fd) ==
  IsOpen(fd, "file") =>
    /\ fd_table[fd].inode \in DOMAIN Inodes
    /\ fd_table[fd].file_position = Len(got[fd])
    /\ \A k \in 1 .. Len(got[fd]) :
         k <= NodeOf(fd).length => got[fd][k] = FileByte(NodeOf(fd), k - 1)
    /\ ended[fd] => Len(got[fd]) >= NodeOf(fd).length
    /\ Len(got[fd]) <= LastStart(NodeOf(fd)) + Max(Chunks)
    /\ NodeOf(fd).length = 0 =>
         got[fd] = <<>> \/ BadBlock(NodeOf(fd), Len(got[fd]) \div BLOCKSIZE)

\* A descriptor of the directory has returned the entries up to its position.
DirectoryGood(fd) ==
  IsOpen(fd, "directory") =>
    /\ fd_table[fd].file_position <= Len(Dentries)
    /\ got[fd] = [k \in 1 .. fd_table[fd].file_position |-> k]
    /\ ended[fd] => fd_table[fd].file_position = Len(Dentries)

\* A descriptor stands for the entry it was opened with.
NamedGood(fd) ==
  fd_table[fd].flags = 1 =>
    \E i \in DOMAIN Dentries :
      /\ EntryName[i] = opened_as[fd]
      /\ IsOpen(fd, Dentries[i].type)
      /\ Dentries[i].type = "file" => fd_table[fd].inode = Dentries[i].inode

FdGood(fd) == FileGood(fd) /\ DirectoryGood(fd) /\ NamedGood(fd)

FsInv ==
  /\ FsTypes
  /\ \A fd \in Fds : FdGood(fd)
  /\ ReadFitsBuffer

\* A descriptor that a step leaves alone stays good.
LEMMA Frame ==
  ASSUME NEW fd, FdGood(fd), fd_table'[fd] = fd_table[fd], opened_as'[fd] = opened_as[fd],
         got'[fd] = got[fd], ended'[fd] = ended[fd]
  PROVE  FdGood(fd)'
BY DEF FdGood, FileGood, DirectoryGood, NamedGood, IsOpen, NodeOf

\* init_fd: nothing is open.
LEMMA FsInitInv == FsInit => FsInv
<1> SUFFICES ASSUME FsInit PROVE FsInv
  OBVIOUS
<1>1. FsTypes
  BY DEF FsInit, FsTypes, FdRecord, Closed, NoTable
<1>2. \A fd \in Fds : FdGood(fd)
  BY DEF FsInit, Closed, FdGood, FileGood, DirectoryGood, NamedGood, IsOpen
<1> QED BY <1>1, <1>2 DEF FsInit, FsInv, ReadFitsBuffer

\* open keeps the invariant, for any string a program may pass.
LEMMA OpenInv ==
  ASSUME FsInv, NEW fname, IsFname(fname), open(fname)
  PROVE  FsInv'
<1>1. PICK fd \in Fds, i \in DOMAIN Dentries :
        /\ read_dentry_by_name(fname, i)
        /\ fd_table' = [fd_table EXCEPT ![fd] = Opened(Dentries[i])]
        /\ opened_as' = [opened_as EXCEPT ![fd] = CString(fname)]
        /\ got' = [got EXCEPT ![fd] = <<>>]
        /\ ended' = [ended EXCEPT ![fd] = FALSE]
        /\ UNCHANGED overrun
  BY DEF open
<1>2. Opened(Dentries[i]) \in FdRecord
  BY EntryType DEF Opened, FdRecord
<1>3. FsTypes'
  <2>1. <<>> \in Seq(Int)
    OBVIOUS
  <2> QED BY <1>1, <1>2, <2>1 DEF FsInv, FsTypes
<1>4. /\ fd_table'[fd] = Opened(Dentries[i]) /\ opened_as'[fd] = CString(fname)
      /\ got'[fd] = <<>> /\ ended'[fd] = FALSE
  BY <1>1 DEF FsInv, FsTypes
<1>5. FileGood(fd)'
  <2> SUFFICES ASSUME Dentries[i].type = "file" PROVE FileGood(fd)'
    BY <1>4 DEF FileGood, IsOpen, Opened
  <2> DEFINE n == Dentries[i].inode
  <2>1. fd_table'[fd].inode = n /\ fd_table'[fd].file_position = 0 /\ n \in DOMAIN Inodes
    BY <1>4, EntryType DEF Opened
  <2>2. 0 <= LastStart(Inodes[n]) + Max(Chunks)
    BY <2>1, FileSizes, LargestChunk
  <2>3. NodeOf(fd)' = Inodes[n]
    BY <2>1 DEF NodeOf
  <2> QED BY <1>4, <2>1, <2>2, <2>3 DEF FileGood
<1>6. DirectoryGood(fd)'
  <2>1. fd_table'[fd].file_position = 0 /\ Len(Dentries) \in Nat
    BY <1>4, EntryType DEF Opened
  <2>2. <<>> = [k \in 1 .. 0 |-> k]
    OBVIOUS
  <2> QED BY <1>4, <2>1, <2>2 DEF DirectoryGood
<1>7. NamedGood(fd)'
  <2>1. EntryName[i] = CString(fname)
    BY <1>1, FoundIsNamed
  <2> QED BY <1>4, <2>1 DEF NamedGood, IsOpen, Opened
<1>8. \A g \in Fds : FdGood(g)'
  <2> TAKE g \in Fds
  <2>1. CASE g = fd
    BY <1>5, <1>6, <1>7, <2>1 DEF FdGood
  <2>2. CASE g # fd
    <3>1. /\ fd_table'[g] = fd_table[g] /\ opened_as'[g] = opened_as[g]
          /\ got'[g] = got[g] /\ ended'[g] = ended[g]
      BY <1>1, <2>2 DEF FsInv, FsTypes
    <3> QED BY <3>1, Frame DEF FsInv
  <2> QED BY <2>1, <2>2
<1> QED BY <1>1, <1>3, <1>8 DEF FsInv, ReadFitsBuffer

\* close keeps the invariant.
LEMMA CloseInv ==
  ASSUME FsInv, NEW fd \in Fds, close(fd)
  PROVE  FsInv'
<1>1. /\ fd_table' = [fd_table EXCEPT ![fd] = Closing(fd)]
      /\ opened_as' = [opened_as EXCEPT ![fd] = <<>>]
      /\ got' = [got EXCEPT ![fd] = <<>>]
      /\ ended' = [ended EXCEPT ![fd] = FALSE]
      /\ UNCHANGED overrun
  BY DEF close
<1>2. Closing(fd) \in FdRecord /\ Closing(fd).flags = 0
  BY DEF Closing, Closed, FdRecord, NoTable
<1>3. FsTypes'
  <2>1. <<>> \in Seq(Int)
    OBVIOUS
  <2> QED BY <1>1, <1>2, <2>1 DEF FsInv, FsTypes
<1>4. \A g \in Fds : FdGood(g)'
  <2> TAKE g \in Fds
  <2>1. CASE g = fd
    <3>1. fd_table'[fd].flags = 0
      BY <1>1, <1>2 DEF FsInv, FsTypes
    <3> QED BY <2>1, <3>1 DEF FdGood, FileGood, DirectoryGood, NamedGood, IsOpen
  <2>2. CASE g # fd
    <3>1. /\ fd_table'[g] = fd_table[g] /\ opened_as'[g] = opened_as[g]
          /\ got'[g] = got[g] /\ ended'[g] = ended[g]
      BY <1>1, <2>2 DEF FsInv, FsTypes
    <3> QED BY <3>1, Frame DEF FsInv
  <2> QED BY <2>1, <2>2
<1> QED BY <1>1, <1>3, <1>4 DEF FsInv, ReadFitsBuffer

\* A read that leaves its descriptor good keeps the invariant.
LEMMA ReadKeeps ==
  ASSUME FsInv, NEW fd \in Fds, NEW nbytes, NEW items \in Seq(Int), NEW position \in Nat,
         Read(fd, nbytes, items, position), FileGood(fd)', DirectoryGood(fd)'
  PROVE  FsInv'
<1>1. /\ fd_table' = [fd_table EXCEPT ![fd].file_position = position]
      /\ got' = [got EXCEPT ![fd] = got[fd] \o items]
      /\ ended' = [ended EXCEPT ![fd] = (items = <<>> /\ nbytes # 0)]
      /\ UNCHANGED <<opened_as, overrun>>
  BY DEF Read
<1>2. got[fd] \o items \in Seq(Int)
  <2>1. got[fd] \in Seq(Int)
    BY DEF FsInv, FsTypes
  <2> QED BY <2>1
<1>3. FsTypes'
  <2>1. fd_table' \in [Fds -> FdRecord]
    BY <1>1 DEF FsInv, FsTypes, FdRecord
  <2>2. got' \in [Fds -> Seq(Int)]
    <3> DEFINE S == Seq(Int)
    <3>1. got \in [Fds -> S] /\ got[fd] \o items \in S
      BY <1>2 DEF FsInv, FsTypes
    <3> HIDE DEF S
    <3>2. got' \in [Fds -> S]
      BY <1>1, <3>1
    <3> QED BY <3>2 DEF S
  <2>3. ended' \in [Fds -> BOOLEAN]
    <3>1. ended \in [Fds -> BOOLEAN]
      BY DEF FsInv, FsTypes
    <3>2. (items = <<>> /\ nbytes # 0) \in BOOLEAN
      OBVIOUS
    <3> QED BY <1>1, <3>1, <3>2, Zenon
  <2>4. opened_as' = [g \in Fds |-> opened_as'[g]]
    BY <1>1 DEF FsInv, FsTypes
  <2> QED BY <2>1, <2>2, <2>3, <2>4 DEF FsTypes
<1>4. NamedGood(fd)'
  <2>1. /\ fd_table'[fd].flags = fd_table[fd].flags
        /\ fd_table'[fd].table_pointer = fd_table[fd].table_pointer
        /\ fd_table'[fd].inode = fd_table[fd].inode
    BY <1>1 DEF FsInv, FsTypes, FdRecord
  <2>2. NamedGood(fd) /\ opened_as' = opened_as
    BY <1>1 DEF FsInv, FdGood
  <2> QED BY <2>1, <2>2 DEF NamedGood, IsOpen
<1>5. \A g \in Fds : FdGood(g)'
  <2> TAKE g \in Fds
  <2>1. CASE g = fd
    BY <1>4, <2>1 DEF FdGood
  <2>2. CASE g # fd
    <3>1. /\ fd_table'[g] = fd_table[g] /\ opened_as'[g] = opened_as[g]
          /\ got'[g] = got[g] /\ ended'[g] = ended[g]
      BY <1>1, <2>2 DEF FsInv, FsTypes
    <3> QED BY <3>1, Frame DEF FsInv
  <2> QED BY <2>1, <2>2
<1> QED BY <1>1, <1>3, <1>5 DEF FsInv, ReadFitsBuffer

\* Where a read of a file starts, a request never wraps around.
LEMMA PositionFits ==
  ASSUME FsInv, NEW fd \in Fds, IsOpen(fd, "file"), NEW nbytes \in 0 .. Max(Chunks)
  PROVE  /\ fd_table[fd].inode \in DOMAIN Inodes
         /\ fd_table[fd].file_position \in Nat
         /\ fd_table[fd].file_position = Len(got[fd])
         /\ fd_table[fd].file_position + nbytes < WORD
         /\ BLOCKSIZE + nbytes < WORD
<1> DEFINE n == fd_table[fd].inode
<1>1. FileGood(fd) /\ n \in DOMAIN Inodes
  BY DEF FsInv, FdGood, FileGood
<1>2. got[fd] \in Seq(Int) /\ Len(got[fd]) \in Nat
  BY DEF FsInv, FsTypes
<1>3. /\ fd_table[fd].file_position = Len(got[fd])
      /\ Len(got[fd]) <= LastStart(Inodes[n]) + Max(Chunks)
  BY <1>1 DEF FileGood, NodeOf
<1>4. /\ LastStart(Inodes[n]) \in Nat
      /\ BLOCKSIZE + LastStart(Inodes[n]) + 2 * Max(Chunks) < WORD
  BY <1>1, FileSizes
<1>5. BLOCKSIZE \in Nat /\ WORD \in Nat /\ Max(Chunks) \in Nat /\ nbytes \in Nat
      /\ nbytes <= Max(Chunks)
  BY ImageAssumption, LargestChunk
<1>6. Len(got[fd]) + nbytes < WORD /\ BLOCKSIZE + nbytes < WORD
  <2> DEFINE len == Len(got[fd])
             last == LastStart(Inodes[n])
             max == Max(Chunks)
  <2>1. /\ len \in Nat /\ last \in Nat /\ max \in Nat /\ len <= last + max
        /\ nbytes <= max /\ BLOCKSIZE + last + 2 * max < WORD
    BY <1>2, <1>3, <1>4, <1>5
  <2> HIDE DEF len, last, max
  <2>2. len + nbytes < WORD /\ BLOCKSIZE + nbytes < WORD
    BY <1>5, <2>1
  <2> QED BY <2>2 DEF len
<1> QED BY <1>1, <1>2, <1>3, <1>6

\* file_read keeps the invariant.
LEMMA FileReadInv ==
  ASSUME FsInv, NEW fd \in Fds, NEW nbytes \in 0 .. Max(Chunks), file_read(fd, nbytes)
  PROVE  FsInv'
<1> DEFINE n == fd_table[fd].inode
           offset == fd_table[fd].file_position
           buf == read_data(Inodes[n], offset, nbytes)
           node == Inodes[n]
<1>1. IsOpen(fd, "file")
  BY DEF file_read, IsOpen
<1>2. /\ n \in DOMAIN Inodes /\ offset \in Nat /\ offset = Len(got[fd])
      /\ offset + nbytes < WORD /\ BLOCKSIZE + nbytes < WORD
  BY <1>1, PositionFits
<1>3. nbytes \in Nat /\ nbytes <= Max(Chunks) /\ Max(Chunks) \in Nat
  BY LargestChunk
<1>4. buf \in Seq(Int)
  BY <1>2, <1>3, ReadType
<1>5. node.length \in Nat /\ LastStart(node) \in Nat
  BY <1>2, FileSizes
<1>6. CASE Len(buf) > nbytes
  <2>1. overrun' = <<n, offset, nbytes>> /\ UNCHANGED <<fd_table, historyVars>>
    BY <1>6 DEF file_read
  <2>2. ~(node.length > 0 /\ offset + nbytes > 0)
    <3> SUFFICES ASSUME node.length > 0, offset + nbytes > 0 PROVE FALSE
      OBVIOUS
    <3>1. Len(buf) <= nbytes
      BY <1>2, <1>3, ReadFits
    <3>2. Len(buf) \in Nat
      BY <1>4
    <3> HIDE DEF buf
    <3> QED BY <1>3, <1>6, <3>1, <3>2
  <2>3. ReadFitsBuffer'
    <3> HIDE DEF n, offset
    <3>1. node.length = 0 \/ (offset = 0 /\ nbytes = 0)
      BY <1>2, <1>3, <1>5, <2>2
    <3> QED BY <2>1, <3>1 DEF ReadFitsBuffer
  <2>4. FsTypes' /\ \A g \in Fds : FdGood(g)'
    BY <2>1 DEF FsInv, FsTypes, FdGood, FileGood, DirectoryGood, NamedGood, IsOpen, NodeOf,
                historyVars
  <2> QED BY <2>3, <2>4 DEF FsInv
<1>7. CASE ~(Len(buf) > nbytes)
  <2>1. Read(fd, nbytes, buf, offset + Len(buf))
    BY <1>7 DEF file_read, advance
  <2>2. Len(buf) \in Nat /\ Len(buf) <= nbytes
    <3>1. Len(buf) \in Nat
      BY <1>4
    <3> HIDE DEF buf
    <3> QED BY <1>3, <1>7, <3>1
  <2>3. /\ fd_table'[fd].file_position = offset + Len(buf)
        /\ fd_table'[fd].inode = n
        /\ fd_table'[fd].table_pointer = "file"
        /\ got'[fd] = got[fd] \o buf
        /\ ended'[fd] = (buf = <<>> /\ nbytes # 0)
    <3> HIDE DEF buf, offset
    <3>1. fd_table[fd].table_pointer = "file" /\ fd_table[fd] \in FdRecord
      BY <1>1 DEF IsOpen, FsInv, FsTypes
    <3> QED BY <2>1, <3>1 DEF Read, FsInv, FsTypes, FdRecord
  <2>4. NodeOf(fd)' = node /\ NodeOf(fd) = node
    BY <2>3 DEF NodeOf
  <2>5. got[fd] \in Seq(Int)
    BY DEF FsInv, FsTypes
  <2>6. /\ got[fd] \o buf \in Seq(Int)
        /\ Len(got[fd] \o buf) = offset + Len(buf)
        /\ \A k \in 1 .. offset : (got[fd] \o buf)[k] = got[fd][k]
        /\ \A k \in offset + 1 .. offset + Len(buf) : (got[fd] \o buf)[k] = buf[k - offset]
        /\ buf = <<>> => got[fd] \o buf = got[fd]
    <3>1. offset = Len(got[fd])
      BY <1>2
    <3> HIDE DEF buf, offset
    <3> DEFINE old == got[fd]
    <3>2. old \in Seq(Int) /\ offset = Len(old)
      BY <2>5, <3>1
    <3> HIDE DEF old
    <3>3. /\ old \o buf \in Seq(Int)
          /\ Len(old \o buf) = offset + Len(buf)
          /\ \A k \in 1 .. offset : (old \o buf)[k] = old[k]
          /\ buf = <<>> => old \o buf = old
      BY <1>4, <3>2
    <3>4. \A k \in offset + 1 .. offset + Len(buf) : (old \o buf)[k] = buf[k - offset]
      BY <1>4, <3>2
    <3> QED BY <3>3, <3>4 DEF old
  <2>7. FileGood(fd)
    BY DEF FsInv, FdGood
  <2>8. /\ \A k \in 1 .. offset : k <= node.length => got[fd][k] = FileByte(node, k - 1)
        /\ offset <= LastStart(node) + Max(Chunks)
        /\ node.length = 0 => got[fd] = <<>> \/ BadBlock(node, offset \div BLOCKSIZE)
    BY <1>1, <1>2, <2>4, <2>7 DEF FileGood
  <2>81. buf = read_data(Inodes[n], offset, nbytes) /\ node = Inodes[n] /\ n \in DOMAIN Inodes
         /\ fd_table'[fd].inode = n
    BY <1>2, <2>3
  <2> HIDE DEF node, buf, n, offset
  <2>9. ASSUME node.length > 0 PROVE FileGood(fd)'
    <3>1. /\ \A k \in 1 .. Len(buf) :
               offset + k <= node.length => buf[k] = FileByte(node, offset + k - 1)
          /\ buf = <<>> /\ nbytes > 0 => offset >= node.length
          /\ buf # <<>> => offset <= LastStart(node)
      <4>1. Inodes[n].length > 0
        BY <2>81, <2>9
      <4>2. ReadAnswer(Inodes[n], offset, nbytes, buf)
        BY <1>2, <1>3, <2>2, <2>81, <4>1, ReadFileFacts
      <4> QED BY <2>81, <4>2 DEF ReadAnswer
    <3>2. \A k \in 1 .. offset + Len(buf) :
            k <= node.length => (got[fd] \o buf)[k] = FileByte(node, k - 1)
      <4> SUFFICES ASSUME NEW k \in 1 .. offset + Len(buf), k <= node.length
                   PROVE  (got[fd] \o buf)[k] = FileByte(node, k - 1)
        OBVIOUS
      <4>1. CASE k <= offset
        <5>1. k \in 1 .. offset
          BY <1>2, <2>2, <4>1
        <5> QED BY <2>6, <2>8, <5>1
      <4>2. CASE k > offset
        <5> DEFINE j == k - offset
        <5>1. j \in 1 .. Len(buf) /\ offset + j = k /\ k \in offset + 1 .. offset + Len(buf)
          BY <1>2, <2>2, <4>2
        <5>2. (got[fd] \o buf)[k] = buf[j]
          BY <2>6, <5>1
        <5> HIDE DEF j
        <5>3. buf[j] = FileByte(node, offset + j - 1)
          <6>1. offset + j <= node.length
            BY <5>1
          <6> QED BY <3>1, <5>1, <6>1
        <5>4. offset + j - 1 = k - 1
          BY <1>2, <5>1
        <5> QED BY <5>2, <5>3, <5>4
      <4> QED BY <1>2, <4>1, <4>2
    <3>3. ended'[fd] => offset + Len(buf) >= node.length
      <4> SUFFICES ASSUME buf = <<>>, nbytes # 0 PROVE offset + Len(buf) >= node.length
        BY <2>3
      <4>1. offset >= node.length
        BY <1>3, <3>1
      <4> QED BY <1>2, <1>5, <2>2, <4>1
    <3>4. offset + Len(buf) <= LastStart(node) + Max(Chunks)
      <4>1. CASE buf = <<>>
        <5>1. Len(buf) = 0
          BY <4>1
        <5> QED BY <1>2, <2>8, <5>1
      <4>2. CASE buf # <<>>
        BY <1>2, <1>3, <1>5, <2>2, <3>1, <4>2
      <4> QED BY <4>1, <4>2
    <3>5. ~(node.length = 0)
      BY <2>9
    <3> QED BY <2>81, <2>3, <2>4, <2>6, <3>2, <3>3, <3>4, <3>5 DEF FileGood
  <2>10. ASSUME node.length = 0 PROVE FileGood(fd)'
    <3>1. /\ BadBlock(node, offset \div BLOCKSIZE) => buf = <<>>
          /\ offset = 0 => buf = <<>> \/ BadBlock(node, Len(buf) \div BLOCKSIZE)
      BY <1>2, <1>3, <2>2, <2>81, <2>10, ReadEmptyFacts
    <3>2. got[fd] \o buf = <<>> \/ BadBlock(node, (offset + Len(buf)) \div BLOCKSIZE)
      <4>1. CASE got[fd] = <<>>
        <5>1. offset = 0 /\ offset + Len(buf) = Len(buf)
          BY <1>2, <2>2, <4>1
        <5> QED BY <2>6, <3>1, <4>1, <5>1
      <4>2. CASE BadBlock(node, offset \div BLOCKSIZE)
        <5>1. buf = <<>>
          BY <3>1, <4>2
        <5>2. Len(buf) = 0 /\ offset + Len(buf) = offset
          BY <1>2, <5>1
        <5> QED BY <4>2, <5>2
      <4> QED BY <2>8, <2>10, <4>1, <4>2
    <3>3. \A k \in 1 .. offset + Len(buf) : ~(k <= node.length)
      BY <1>2, <2>2, <2>10
    <3>4. offset + Len(buf) >= node.length
      BY <1>2, <2>2, <2>10
    <3>5. offset + Len(buf) <= LastStart(node) + Max(Chunks)
      <4>1. CASE offset = 0
        BY <1>2, <1>3, <1>5, <2>2, <4>1
      <4>2. CASE offset # 0
        <5>1. got[fd] # <<>>
          BY <1>2, <4>2
        <5>2. buf = <<>>
          BY <2>8, <2>10, <3>1, <5>1
        <5>3. Len(buf) = 0
          BY <5>2
        <5> QED BY <1>2, <2>8, <5>3
      <4> QED BY <4>1, <4>2
    <3> QED BY <2>81, <2>3, <2>4, <2>6, <3>2, <3>3, <3>4, <3>5 DEF FileGood
  <2>11. FileGood(fd)'
    BY <1>5, <2>9, <2>10
  <2>12. DirectoryGood(fd)'
    BY <2>3 DEF DirectoryGood, IsOpen
  <2>13. offset + Len(buf) \in Nat
    BY <1>2, <2>2
  <2> QED BY <1>4, <2>1, <2>11, <2>12, <2>13, ReadKeeps
<1> QED BY <1>6, <1>7

\* What is put behind a sequence is its last element.
LEMMA LastOfConcat ==
  ASSUME NEW s \in Seq(Int), NEW x \in Int
  PROVE  (s \o <<x>>)[Len(s) + 1] = x
OBVIOUS

\* directory_read keeps the invariant.
LEMMA DirectoryReadInv ==
  ASSUME FsInv, NEW fd \in Fds, NEW nbytes, directory_read(fd, nbytes)
  PROVE  FsInv'
<1> DEFINE index == fd_table[fd].file_position
<1>1. /\ DirectoryGood(fd) /\ IsOpen(fd, "directory") /\ index \in Nat
      /\ fd_table[fd] \in FdRecord /\ got[fd] \in Seq(Int) /\ Len(Dentries) \in Nat
  BY EntryType DEF directory_read, IsOpen, FsInv, FdGood, FsTypes, FdRecord
<1>2. index <= Len(Dentries) /\ got[fd] = [k \in 1 .. index |-> k]
  BY <1>1 DEF DirectoryGood
<1>3. ASSUME NEW items, NEW position, Read(fd, nbytes, items, position)
      PROVE  /\ fd_table'[fd].file_position = position
             /\ fd_table'[fd].table_pointer = "directory"
             /\ got'[fd] = got[fd] \o items
             /\ ended'[fd] = (items = <<>> /\ nbytes # 0)
             /\ FileGood(fd)'
  <2>1. /\ fd_table'[fd].file_position = position
        /\ fd_table'[fd].table_pointer = "directory"
        /\ got'[fd] = got[fd] \o items
        /\ ended'[fd] = (items = <<>> /\ nbytes # 0)
    BY <1>1, <1>3 DEF Read, IsOpen, FsInv, FsTypes, FdRecord
  <2> QED BY <2>1 DEF FileGood, IsOpen
<1> HIDE DEF index
<1>4. CASE IndexPastEnd(index)
  <2>1. Read(fd, nbytes, <<>>, index)
    BY <1>4 DEF directory_read, index
  <2>2. index = Len(Dentries)
    BY <1>1, <1>2, <1>4 DEF IndexPastEnd
  <2>3. got[fd] \o <<>> = got[fd] /\ <<>> \in Seq(Int)
    BY <1>1
  <2>4. DirectoryGood(fd)' /\ FileGood(fd)'
    BY <1>1, <1>2, <1>3, <2>1, <2>2, <2>3 DEF DirectoryGood
  <2> QED BY <1>1, <2>1, <2>3, <2>4, ReadKeeps
<1>5. CASE ~IndexPastEnd(index)
  <2>1. Read(fd, nbytes, <<index + 1>>, index + 1)
    BY <1>5 DEF directory_read, index
  <2>2. index + 1 \in Nat /\ index + 1 <= Len(Dentries)
    BY <1>1, <1>2, <1>5 DEF IndexPastEnd
  <2>3. <<index + 1>> \in Seq(Int) /\ <<index + 1>> # <<>>
    BY <1>1
  <2>4. got[fd] \o <<index + 1>> = [k \in 1 .. index + 1 |-> k]
    <3> DEFINE s == [k \in 1 .. index |-> k]
               t == [k \in 1 .. index + 1 |-> k]
    <3>1. s \in Seq(Int) /\ t \in Seq(Int) /\ Len(s) = index /\ Len(t) = index + 1
      BY <1>1
    <3>2. s \o <<index + 1>> \in Seq(Int) /\ Len(s \o <<index + 1>>) = index + 1
      BY <1>1, <3>1
    <3>3. \A k \in 1 .. index + 1 : (s \o <<index + 1>>)[k] = t[k]
      <4> TAKE k \in 1 .. index + 1
      <4>1. CASE k <= index
        <5>1. k \in 1 .. index /\ s[k] = k
          BY <1>1, <4>1
        <5> HIDE DEF s
        <5>2. (s \o <<index + 1>>)[k] = s[k]
          BY <1>1, <3>1, <5>1
        <5> QED BY <5>1, <5>2
      <4>2. CASE k = index + 1
        <5> HIDE DEF s
        <5>1. Len(s) + 1 = index + 1 /\ index + 1 \in Int
          BY <1>1, <3>1
        <5>2. (s \o <<index + 1>>)[Len(s) + 1] = index + 1
          BY <3>1, <5>1, LastOfConcat
        <5> QED BY <4>2, <5>1, <5>2
      <4> QED BY <1>1, <4>1, <4>2
    <3> HIDE DEF s, t
    <3>4. s \o <<index + 1>> = t
      BY <3>1, <3>2, <3>3, SeqEqual
    <3> QED BY <1>2, <3>4 DEF s, t
  <2>5. DirectoryGood(fd)' /\ FileGood(fd)'
    BY <1>3, <2>1, <2>2, <2>3, <2>4 DEF DirectoryGood
  <2> QED BY <2>1, <2>2, <2>3, <2>5, ReadKeeps
<1> QED BY <1>4, <1>5

\* rtc_read keeps the invariant.
LEMMA RtcReadInv ==
  ASSUME FsInv, NEW fd \in Fds, NEW nbytes, rtc_read(fd, nbytes)
  PROVE  FsInv'
<1>1. Read(fd, nbytes, <<>>, fd_table[fd].file_position) /\ fd_table[fd].table_pointer = "rtc"
  BY DEF rtc_read
<1>2. fd_table[fd].file_position \in Nat /\ <<>> \in Seq(Int)
  BY DEF FsInv, FsTypes, FdRecord
<1>3. fd_table'[fd].table_pointer = "rtc"
  BY <1>1 DEF Read, FsInv, FsTypes, FdRecord
<1>4. FileGood(fd)' /\ DirectoryGood(fd)'
  BY <1>3 DEF FileGood, DirectoryGood, IsOpen
<1> QED BY <1>1, <1>2, <1>4, ReadKeeps

\* A read of at most the largest request keeps the invariant.
LEMMA ReadInv ==
  ASSUME FsInv, NEW fd \in Fds, NEW nbytes \in 0 .. Max(Chunks), read(fd, nbytes)
  PROVE  FsInv'
BY FileReadInv, DirectoryReadInv, RtcReadInv DEF read

\* A call that fails changes nothing.
LEMMA SameInv ==
  ASSUME FsInv, UNCHANGED fsVars
  PROVE  FsInv'
BY DEF FsInv, FsTypes, FdGood, FileGood, DirectoryGood, NamedGood, IsOpen, NodeOf,
       ReadFitsBuffer, fsVars, historyVars

\* Every call keeps the invariant.
LEMMA FsNextInv == FsInv /\ [FsNext]_fsVars => FsInv'
<1> SUFFICES ASSUME FsInv, [FsNext]_fsVars PROVE FsInv'
  OBVIOUS
<1>1. ASSUME NEW fname \in Fnames, open(fname) PROVE FsInv'
  BY <1>1, OpenInv, ImageAssumption
<1>2. ASSUME NEW fname \in Fnames, open_fails(fname) PROVE FsInv'
  BY <1>2, SameInv DEF open_fails
<1>3. ASSUME NEW fd \in Fds, NEW nbytes \in Chunks, read(fd, nbytes) PROVE FsInv'
  <2>1. nbytes \in 0 .. Max(Chunks)
    BY LargestChunk, ImageAssumption
  <2> QED BY <1>3, <2>1, ReadInv
<1>4. ASSUME NEW fd \in Fds, close(fd) PROVE FsInv'
  BY <1>4, CloseInv
<1>5. ASSUME NEW fd \in Fds, call_fails(fd) PROVE FsInv'
  BY <1>5, SameInv DEF call_fails
<1>6. CASE UNCHANGED fsVars
  BY <1>6, SameInv
<1> QED BY <1>1, <1>2, <1>3, <1>4, <1>5, <1>6 DEF FsNext

\* The invariant holds in every reachable state.
LEMMA FsInvariance == FsSpec => []FsInv
BY FsInitInv, FsNextInv, PTL DEF FsSpec

\* The invariant is stronger than the properties.
LEMMA FsInvImplies ==
  ASSUME FsInv
  PROVE  ReadsAreTheFile /\ EndOnlyAfterAll /\ ReadsStop /\ FindsByName /\ ReadFitsBuffer
<1>1. ReadsAreTheFile /\ ReadsStop /\ ReadFitsBuffer
  BY DEF FsInv, FdGood, FileGood, ReadsAreTheFile, ReadsStop
<1>2. EndOnlyAfterAll
  BY DEF FsInv, FdGood, FileGood, DirectoryGood, EndOnlyAfterAll
<1>3. FindsByName
  BY LookupSound DEF FsInv, FdGood, NamedGood, FindsByName
<1> QED BY <1>1, <1>2, <1>3

-----------------------------------------------------------------------------
(* The theorems *)

\* No read copies more than its caller asked for (filesys.c:140), but for a
\* read of 0 bytes from the start of a file and a read of an empty file, for
\* any directory and files, block size and word size.
THEOREM BufferFits == FsSpec => []ReadFitsBuffer
BY FsInvariance, FsInvImplies, PTL

\* The reads of a descriptor return the bytes of its file in order from the
\* first one on (filesys.c:239), however they are cut and whatever other
\* descriptors are opened, read and closed in between.
THEOREM ContentSafety == FsSpec => []ReadsAreTheFile
BY FsInvariance, FsInvImplies, PTL

\* A read returns 0 only behind the last byte of the file (filesys.c:167) or
\* the last entry of the directory (filesys.c:299).
THEOREM EndSafety == FsSpec => []EndOnlyAfterAll
BY FsInvariance, FsInvImplies, PTL

\* Although read_data does not stop at the last byte of the file, no read that
\* returns something starts behind the last block (filesys.c:167): what a
\* descriptor returns in all is bounded by the blocks of the file.
THEOREM StopSafety == FsSpec => []ReadsStop
BY FsInvariance, FsInvImplies, PTL

\* read_dentry_by_name (filesys.c:83) finds the entry of every name and of no
\* other string, and an open descriptor is of the entry its string names.
THEOREM LookupSafety == FsSpec => []FindsByName
BY FsInvariance, FsInvImplies, PTL
=============================================================================
