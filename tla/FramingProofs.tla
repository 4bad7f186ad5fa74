--------------------------- MODULE FramingProofs ---------------------------
(***************************************************************************)
(* What Framing computes, for every length of a command and every size of  *)
(* a chunk and of the chunk table.                                         *)
(***************************************************************************)
EXTENDS Framing, TLAPS

\* A command is padded to the next multiple of eight, by less than eight
\* bytes, and the low bits of its length tell by how many.
THEOREM PaddedToEight ==
  ASSUME NEW n \in Nat
  PROVE  /\ verimark_frame_padded_len(n) \in Nat
         /\ verimark_frame_padded_len(n) % 8 = 0
         /\ n <= verimark_frame_padded_len(n) /\ verimark_frame_padded_len(n) < n + 8
         /\ verimark_frame_padded_len(n) = n + IF n % 8 = 0 THEN 0 ELSE 8 - (n % 8)
<1>1. CASE n = 0
  BY <1>1 DEF verimark_frame_padded_len, Rem8
<1>2. CASE n > 0
  <2>1. ~(-n >= 0) /\ -(-n) = n
    BY <1>2
  <2>2. Rem8(-n) = -(n % 8)
    BY <2>1 DEF Rem8
  <2> QED
    BY <2>2, SMT DEF verimark_frame_padded_len
<1> QED
  BY <1>1, <1>2

\* Dividing by the size of a chunk, rounded up.
LEMMA RoundedUp ==
  ASSUME NEW total \in Nat, total > 0, NEW m \in Nat, m > 0
  PROVE  LET k == (total + m - 1) \div m
         IN  k \in Nat /\ k >= 1 /\ (k - 1) * m < total /\ total <= k * m
<1> DEFINE k == (total + m - 1) \div m
<1>1. k \in Int /\ k * m <= total + m - 1 /\ total + m - 1 < k * m + m
  OBVIOUS
<1>2. k >= 1
  BY <1>1
<1> QED
  BY <1>1, <1>2

\* Multiples of a chunk's size grow with the index.
LEMMA Monotone ==
  ASSUME NEW m \in Nat, NEW i \in Int, NEW j \in Int, i <= j
  PROVE  i * m \in Int /\ j * m \in Int /\ i * m <= j * m
<1>1. (j - i) * m >= 0
  OBVIOUS
<1> QED
  BY <1>1

\* Before a chunk of the table that is not the last one needed, a whole chunk
\* and more is left to send.
LEMMA CountOfChunks ==
  ASSUME NEW n \in Nat
  PROVE  LET total == verimark_frame_padded_len(n)
             count == ChunkCount(n)
         IN  /\ count \in 1..ChunksMax
             /\ \A i \in 1..count - 1 : i * MaxChunk < total
             /\ total <= ChunksMax * MaxChunk => total <= count * MaxChunk
             /\ total > ChunksMax * MaxChunk => count = ChunksMax
<1> DEFINE total == verimark_frame_padded_len(n)
           k == (total + MaxChunk - 1) \div MaxChunk
<1> USE ChunkSizes
<1>1. total \in Nat
  BY PaddedToEight
<1>2. CASE total = 0
  <2>1. ChunkCount(n) = 1
    BY <1>2 DEF ChunkCount
  <2>2. ChunksMax * MaxChunk >= 0
    OBVIOUS
  <2> QED
    BY <2>1, <2>2, <1>2
<1>3. CASE total > 0
  <2>1. ChunkCount(n) = Least(k, ChunksMax)
    BY <1>3 DEF ChunkCount
  <2>2. k \in Nat /\ k >= 1 /\ (k - 1) * MaxChunk < total /\ total <= k * MaxChunk
    BY <1>1, <1>3, RoundedUp
  <2> HIDE DEF k, total
  <2>3. ChunkCount(n) \in 1..ChunksMax /\ ChunkCount(n) <= k
    BY <2>1, <2>2 DEF Least
  <2>4. ASSUME NEW i \in 1..ChunkCount(n) - 1 PROVE i * MaxChunk < total
    <3>1. i <= k - 1 /\ i \in Int /\ k - 1 \in Int
      BY <2>2, <2>3
    <3>2. i * MaxChunk <= (k - 1) * MaxChunk /\ i * MaxChunk \in Int
      BY <3>1, Monotone
    <3> QED
      BY <3>2, <2>2, <1>1
  <2>5. ASSUME total <= ChunksMax * MaxChunk PROVE total <= ChunkCount(n) * MaxChunk
    BY <2>5, <2>1, <2>2 DEF Least
  <2>6. ASSUME total > ChunksMax * MaxChunk PROVE ChunkCount(n) = ChunksMax
    <3>1. SUFFICES ASSUME k <= ChunksMax PROVE FALSE
      BY <2>1, <2>2 DEF Least
    <3>2. k * MaxChunk <= ChunksMax * MaxChunk
      BY <3>1, <2>2, Monotone
    <3> QED
      BY <3>2, <2>6, <2>2, <1>1
  <2> QED
    BY <2>3, <2>4, <2>5, <2>6 DEF total
<1> QED
  BY <1>1, <1>2, <1>3

\* The fields of a chunk.
LEMMA ChunkFields ==
  ASSUME NEW n, NEW off
  PROVE  /\ Chunk(n, off).offset = off
         /\ Chunk(n, off).len = Least(verimark_frame_padded_len(n) - off, MaxChunk)
         /\ Chunk(n, off).wvalue.cont <=> off # 0
         /\ Chunk(n, off).wvalue.more <=> ~IsLast(n, off)
         /\ Chunk(n, off).wvalue.low = IF IsLast(n, off) THEN n % 8 ELSE 0
BY DEF Chunk, IsLast

\* The plan of a command the table has room for: the chunks follow each other
\* from the first byte to the last padded one, only the first starts a command
\* and only the last ends it, with the low bits of the length.
THEOREM PlanCovers ==
  ASSUME NEW n \in Nat,
         verimark_frame_padded_len(n) <= ChunksMax * MaxChunk
  PROVE  LET plan  == verimark_frame_write_chunks(n)
             count == ChunkCount(n)
         IN  /\ plan[1].offset = 0
             /\ \A i \in 1..count - 1 :
                  plan[i + 1].offset = plan[i].offset + plan[i].len
             /\ plan[count].offset + plan[count].len = verimark_frame_padded_len(n)
             /\ \A i \in 1..count : /\ plan[i].wvalue.cont <=> i # 1
                                    /\ plan[i].wvalue.more <=> i # count
             /\ plan[count].wvalue.low = n % 8
<1> DEFINE total == verimark_frame_padded_len(n)
           count == ChunkCount(n)
           plan == verimark_frame_write_chunks(n)
           off(i) == (i - 1) * MaxChunk
<1> USE ChunkSizes
<1>1. /\ total \in Nat /\ count \in 1..ChunksMax /\ total <= count * MaxChunk
      /\ \A i \in 1..count - 1 : i * MaxChunk < total
  BY PaddedToEight, CountOfChunks
<1>2. \A i \in 1..count : plan[i] = Chunk(n, off(i))
  BY <1>1 DEF verimark_frame_write_chunks
<1>3. \A i \in 1..count : off(i) \in Int /\ off(i) + MaxChunk = i * MaxChunk
  OBVIOUS
<1> HIDE DEF total, count, plan
<1>4. ASSUME NEW i \in 1..count - 1
      PROVE  /\ ~IsLast(n, off(i)) /\ plan[i].len = MaxChunk
             /\ plan[i + 1].offset = plan[i].offset + plan[i].len
  <2>1. i \in 1..count /\ i + 1 \in 1..count /\ i * MaxChunk < total /\ i * MaxChunk \in Int
    BY <1>1
  <2>2. ~IsLast(n, off(i))
    BY <2>1, <1>1, <1>3 DEF IsLast, total
  <2>3. Chunk(n, off(i)).len = MaxChunk
    BY <2>1, <1>1, <1>3, ChunkFields DEF Least, total
  <2>4. Chunk(n, off(i)).offset = off(i) /\ Chunk(n, off(i + 1)).offset = off(i + 1)
    BY ChunkFields
  <2>5. off(i + 1) = i * MaxChunk
    BY <2>1, <1>1
  <2> QED
    BY <2>1, <2>2, <2>3, <2>4, <2>5, <1>2, <1>3
<1>5. IsLast(n, off(count)) /\ plan[count].offset + plan[count].len = total
  <2>1. off(count) \in Int /\ off(count) + MaxChunk = count * MaxChunk
    BY <1>1, <1>3
  <2>2. off(count) <= total
    <3>1. CASE count = 1
      BY <3>1, <1>1
    <3>2. CASE count > 1
      BY <3>2, <1>1
    <3> QED
      BY <3>1, <3>2, <1>1
  <2>3. IsLast(n, off(count))
    BY <2>1, <1>1 DEF IsLast, total
  <2>4. Chunk(n, off(count)).len = total - off(count)
    BY <2>1, <2>2, <1>1, ChunkFields DEF Least, total
  <2>5. plan[count] = Chunk(n, off(count))
    BY <1>1, <1>2
  <2>6. Chunk(n, off(count)).offset = off(count)
    BY ChunkFields
  <2> QED
    BY <2>1, <2>3, <2>4, <2>5, <2>6, <1>1
<1>6. plan[1].offset = 0
  <2>1. plan[1] = Chunk(n, off(1))
    BY <1>1, <1>2
  <2>2. Chunk(n, off(1)).offset = off(1) /\ off(1) = 0
    BY ChunkFields
  <2> QED
    BY <2>1, <2>2
<1>7. ASSUME NEW i \in 1..count
      PROVE  (plan[i].wvalue.cont <=> i # 1) /\ (plan[i].wvalue.more <=> i # count)
  <2>1. off(i) # 0 <=> i # 1
    <3>1. CASE i > 1
      <4>1. 1 * MaxChunk <= (i - 1) * MaxChunk
        BY <3>1, Monotone
      <4> QED
        BY <4>1, <3>1
    <3> QED
      BY <3>1, <1>1
  <2>2. IsLast(n, off(i)) <=> i = count
    <3>1. CASE i = count
      BY <3>1, <1>5
    <3>2. CASE i # count
      <4>1. i \in 1..count - 1
        BY <3>2, <1>1
      <4> QED
        BY <4>1, <3>2, <1>4
    <3> QED
      BY <3>1, <3>2
  <2>3. plan[i] = Chunk(n, off(i))
    BY <1>2
  <2>4. (plan[i].wvalue.cont <=> off(i) # 0) /\ (plan[i].wvalue.more <=> ~IsLast(n, off(i)))
    BY <2>3, ChunkFields
  <2> QED
    BY <2>1, <2>2, <2>4
<1>8. plan[count].wvalue.low = n % 8
  <2>1. plan[count] = Chunk(n, off(count))
    BY <1>1, <1>2
  <2> QED
    BY <2>1, <1>5, ChunkFields
<1> QED
  BY <1>4, <1>5, <1>6, <1>7, <1>8 DEF total, count, plan

\* The plan of a longer command stops with the table, and none of its chunks
\* ends the command.
THEOREM CutPlanNeverEnds ==
  ASSUME NEW n \in Nat,
         verimark_frame_padded_len(n) > ChunksMax * MaxChunk
  PROVE  /\ ChunkCount(n) = ChunksMax
         /\ \A i \in 1..ChunksMax : verimark_frame_write_chunks(n)[i].wvalue.more
<1> USE ChunkSizes
<1>1. ChunkCount(n) = ChunksMax /\ verimark_frame_padded_len(n) \in Nat
  BY PaddedToEight, CountOfChunks
<1>2. ASSUME NEW i \in 1..ChunksMax PROVE ~IsLast(n, (i - 1) * MaxChunk)
  <2>1. (i - 1) * MaxChunk + MaxChunk = i * MaxChunk /\ i * MaxChunk <= ChunksMax * MaxChunk
    BY Monotone
  <2> QED
    BY <2>1, <1>1 DEF IsLast
<1> QED
  BY <1>1, <1>2, ChunkFields DEF verimark_frame_write_chunks
=============================================================================
