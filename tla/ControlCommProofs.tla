------------------------- MODULE ControlCommProofs -------------------------
(***************************************************************************)
(* The driver's plan of chunks, which Framing gives in closed form, is     *)
(* what the loop of the prototype transfers, for every length; and a loop  *)
(* of those rounds has no other outcome.                                   *)
(***************************************************************************)
EXTENDS MCTransport, TransportProofs, WellFoundedInduction

\* Both pad alike, although C's remainder is negative where Python's is not.
LEMMA SamePadding ==
  ASSUME NEW n \in Nat
  PROVE  PaddedTotal(n) = verimark_frame_padded_len(n)
<1>1. verimark_frame_padded_len(n) = n + IF n % 8 = 0 THEN 0 ELSE 8 - (n % 8)
  BY PaddedToEight
<1>2. (8 - (n % 8)) % 8 = IF n % 8 = 0 THEN 0 ELSE 8 - (n % 8)
  OBVIOUS
<1> QED
  BY <1>1, <1>2 DEF PaddedTotal

\* A round of the loop transfers the chunk at its offset.
LEMMA RoundIsChunk ==
  ASSUME NEW n \in Nat, NEW off \in Nat
  PROVE  Round(n, off) = Chunk(n, off)
<1> DEFINE total == verimark_frame_padded_len(n)
           size  == Least(MaxChunk, total - off)
<1> USE ChunkSizes
<1>1. total \in Nat /\ PaddedTotal(n) = total
  BY PaddedToEight, SamePadding
<1>2. size = Least(total - off, MaxChunk)
  BY <1>1 DEF Least
<1>3. (off + size >= total) <=> IsLast(n, off)
  BY <1>1 DEF Least, IsLast
<1>4. ~IsLast(n, off) => size = MaxChunk
  BY <1>1 DEF Least, IsLast
<1> HIDE DEF total, size
<1>5. Round(n, off) =
        [offset |-> off, len |-> size,
         wvalue |-> [cont |-> off # 0,
                     more |-> ~(off + size >= total) /\ size = MaxChunk,
                     low  |-> IF off + size >= total THEN n % 8 ELSE 0]]
  BY <1>1 DEF Round, total, size
<1>6. Chunk(n, off) =
        [offset |-> off, len |-> size,
         wvalue |-> [cont |-> off # 0,
                     more |-> ~IsLast(n, off),
                     low  |-> IF IsLast(n, off) THEN n % 8 ELSE 0]]
  BY <1>2 DEF Chunk, total
<1>7. (~(off + size >= total) /\ size = MaxChunk) = ~IsLast(n, off)
  BY <1>3, <1>4
<1>8. (IF off + size >= total THEN n % 8 ELSE 0) = (IF IsLast(n, off) THEN n % 8 ELSE 0)
  BY <1>3
<1> QED
  BY <1>5, <1>6, <1>7, <1>8

\* Where the chunks of a plan start and end.
LEMMA PlanOffsets ==
  ASSUME NEW n \in Nat
  PROVE  LET plan  == verimark_frame_write_chunks(n)
             count == ChunkCount(n)
             total == verimark_frame_padded_len(n)
         IN  /\ Len(plan) = count /\ count \in 1..ChunksMax
             /\ plan[1] = Chunk(n, 0)
             /\ \A i \in 1..count - 1 : /\ End(plan[i]) = i * MaxChunk /\ i * MaxChunk \in Nat
                                        /\ i * MaxChunk < total
                                        /\ plan[i + 1] = Chunk(n, i * MaxChunk)
<1> DEFINE plan  == verimark_frame_write_chunks(n)
           count == ChunkCount(n)
           total == verimark_frame_padded_len(n)
<1> USE ChunkSizes
<1>1. /\ total \in Nat /\ count \in 1..ChunksMax
      /\ \A i \in 1..count - 1 : i * MaxChunk < total
  BY PaddedToEight, CountOfChunks
<1>2. Len(plan) = count
  BY <1>1 DEF verimark_frame_write_chunks
<1>3. \A i \in 1..count : plan[i] = Chunk(n, (i - 1) * MaxChunk)
  BY <1>1 DEF verimark_frame_write_chunks
<1> HIDE DEF plan, count, total
<1>4. plan[1] = Chunk(n, 0)
  <2>1. plan[1] = Chunk(n, (1 - 1) * MaxChunk)
    BY <1>1, <1>3
  <2>2. (1 - 1) * MaxChunk = 0
    OBVIOUS
  <2> QED
    BY <2>1, <2>2
<1>5. ASSUME NEW i \in 1..count - 1
      PROVE  /\ End(plan[i]) = i * MaxChunk /\ i * MaxChunk \in Nat
             /\ plan[i + 1] = Chunk(n, i * MaxChunk)
  <2>1. /\ i \in 1..count /\ i + 1 \in 1..count /\ (i + 1) - 1 = i
        /\ i * MaxChunk \in Nat /\ i * MaxChunk < total
    BY <1>1
  <2>2. (i - 1) * MaxChunk \in Nat /\ (i - 1) * MaxChunk + MaxChunk = i * MaxChunk
    OBVIOUS
  <2>3. plan[i] = Chunk(n, (i - 1) * MaxChunk) /\ plan[i + 1] = Chunk(n, ((i + 1) - 1) * MaxChunk)
    BY <1>3, <2>1
  <2>4. plan[i].offset = (i - 1) * MaxChunk
    BY <2>3, ChunkFields
  <2>5. plan[i].len = Least(total - (i - 1) * MaxChunk, MaxChunk)
    BY <2>3, ChunkFields DEF total
  <2>6. plan[i].len = MaxChunk
    BY <2>1, <2>2, <2>5, <1>1 DEF Least
  <2> QED
    BY <2>1, <2>2, <2>3, <2>4, <2>6 DEF End
<1> QED
  BY <1>1, <1>2, <1>4, <1>5 DEF plan, count, total

\* For every length, the chunks the driver plans are the transfers of the
\* prototype's loop, as many as the chunk table holds.
THEOREM PlanIsCtrlWrites ==
  ASSUME NEW n \in Nat
  PROVE  CtrlWrite(n, ChunksMax, verimark_frame_write_chunks(n))
<1> DEFINE plan  == verimark_frame_write_chunks(n)
           count == ChunkCount(n)
           total == verimark_frame_padded_len(n)
<1> USE ChunkSizes
<1>1. /\ Len(plan) = count /\ count \in 1..ChunksMax
      /\ plan[1] = Chunk(n, 0)
      /\ \A i \in 1..count - 1 : /\ End(plan[i]) = i * MaxChunk /\ i * MaxChunk \in Nat
                                 /\ i * MaxChunk < total
                                 /\ plan[i + 1] = Chunk(n, i * MaxChunk)
  BY PlanOffsets
<1>2. PaddedTotal(n) = total /\ total \in Nat
  BY PaddedToEight, SamePadding
<1>3. plan[1] = Round(n, 0)
  BY <1>1, RoundIsChunk
<1>4. \A i \in 1..count - 1 : End(plan[i]) < total /\ plan[i + 1] = Round(n, End(plan[i]))
  BY <1>1, RoundIsChunk
<1>5. count = ChunksMax \/ ~(End(plan[count]) < total)
  <2>1. CASE total <= ChunksMax * MaxChunk
    <3>1. plan[count].offset + plan[count].len = total
      BY <2>1, PlanCovers
    <3> QED
      BY <3>1, <1>2 DEF End
  <2>2. CASE total > ChunksMax * MaxChunk
    BY <2>2, CountOfChunks
  <2> QED
    BY <2>1, <2>2, <1>2
<1> HIDE DEF plan, count, total
<1> QED
  BY <1>1, <1>2, <1>3, <1>4, <1>5 DEF CtrlWrite, plan

\* The plan of a command the table has room for is all the loop transfers.
THEOREM PlanIsWhole ==
  ASSUME NEW n \in Nat, verimark_frame_padded_len(n) <= ChunksMax * MaxChunk,
         NEW limit \in Nat, limit >= ChunksMax
  PROVE  CtrlWrite(n, limit, verimark_frame_write_chunks(n))
<1> DEFINE plan  == verimark_frame_write_chunks(n)
           count == ChunkCount(n)
           total == verimark_frame_padded_len(n)
<1> USE ChunkSizes
<1>1. Len(plan) = count /\ count \in 1..ChunksMax
  BY PlanOffsets
<1>2. PaddedTotal(n) = total /\ total \in Nat
  BY PaddedToEight, SamePadding
<1>3. plan[count].offset + plan[count].len = total
  BY PlanCovers
<1>4. ~(End(plan[count]) < total) /\ count \in 1..limit
  BY <1>1, <1>2, <1>3 DEF End
<1>5. CtrlWrite(n, ChunksMax, plan)
  BY PlanIsCtrlWrites
<1> HIDE DEF plan, count, total
<1> QED
  BY <1>1, <1>2, <1>4, <1>5 DEF CtrlWrite, plan

\* A set of natural numbers has a least element.
LEMMA LeastElement ==
  ASSUME NEW T, T \subseteq Nat, T # {}
  PROVE  \E i \in T : \A j \in T : i <= j
<1>1. PICK i \in T : \A j \in T : ~(<<j, i>> \in OpToRel(<, Nat))
  BY WFMin, NatLessThanWellFounded, Zenon
<1>2. ASSUME NEW j \in T PROVE ~(j < i)
  <2>1. j < i => <<j, i>> \in OpToRel(<, Nat)
    BY <1>1, Zenon DEF OpToRel
  <2> QED
    BY <1>1, <2>1, Zenon
<1> QED
  BY <1>2

\* The rounds determine the loop: for a length and a limit there is one
\* sequence of transfers, so the plan is the only one the loop can make.
THEOREM CtrlWriteDetermined ==
  ASSUME NEW n, NEW limit \in Nat, NEW S, NEW p \in Seq(S), NEW q \in Seq(S),
         CtrlWrite(n, limit, p), CtrlWrite(n, limit, q)
  PROVE  p = q
<1> DEFINE total == PaddedTotal(n)
           Both == {i \in Nat : i \in 1..Len(p) /\ i \in 1..Len(q)}
           Differ == {i \in Both : p[i] # q[i]}
<1>1. /\ Len(p) \in 1..limit /\ p[1] = Round(n, 0)
      /\ \A i \in 1..Len(p) - 1 : End(p[i]) < total /\ p[i + 1] = Round(n, End(p[i]))
      /\ Len(p) = limit \/ ~(End(p[Len(p)]) < total)
  BY DEF CtrlWrite
<1>2. /\ Len(q) \in 1..limit /\ q[1] = Round(n, 0)
      /\ \A i \in 1..Len(q) - 1 : End(q[i]) < total /\ q[i + 1] = Round(n, End(q[i]))
      /\ Len(q) = limit \/ ~(End(q[Len(q)]) < total)
  BY DEF CtrlWrite
<1> HIDE DEF total
<1>3. Differ = {}
  <2>1. SUFFICES ASSUME Differ # {} PROVE FALSE
    OBVIOUS
  <2>2. PICK i \in Differ : \A j \in Differ : i <= j
    <3>1. Differ \subseteq Nat
      OBVIOUS
    <3> HIDE DEF Differ
    <3> QED
      BY <2>1, <3>1, LeastElement
  <2>3. i \in Nat /\ i \in 1..Len(p) /\ i \in 1..Len(q) /\ p[i] # q[i]
    OBVIOUS
  <2>4. i # 1
    BY <2>3, <1>1, <1>2
  <2>5. i - 1 \in Nat /\ i - 1 < i /\ i - 1 \in 1..Len(p) - 1 /\ i - 1 \in 1..Len(q) - 1
    BY <2>3, <2>4
  <2>6. i - 1 \notin Differ
    BY <2>2, <2>3, <2>5
  <2>7. p[i - 1] = q[i - 1]
    BY <2>5, <2>6
  <2>8. (i - 1) + 1 = i
    BY <2>3
  <2>9. p[i] = Round(n, End(p[i - 1])) /\ q[i] = Round(n, End(q[i - 1]))
    BY <2>5, <2>8, <1>1, <1>2
  <2> QED
    BY <2>3, <2>7, <2>9
<1>4. \A i \in Nat : i \in 1..Len(p) /\ i \in 1..Len(q) => p[i] = q[i]
  BY <1>3
<1>5. Len(p) = Len(q)
  <2>1. ASSUME Len(p) < Len(q) PROVE FALSE
    <3>1. Len(p) \in 1..Len(q) - 1 /\ Len(p) # limit /\ Len(p) \in Nat
      BY <2>1, <1>1, <1>2
    <3>2. p[Len(p)] = q[Len(p)]
      BY <3>1, <1>1, <1>2, <1>4
    <3> QED
      BY <3>1, <3>2, <1>1, <1>2
  <2>2. ASSUME Len(q) < Len(p) PROVE FALSE
    <3>1. Len(q) \in 1..Len(p) - 1 /\ Len(q) # limit /\ Len(q) \in Nat
      BY <2>2, <1>1, <1>2
    <3>2. p[Len(q)] = q[Len(q)]
      BY <3>1, <1>1, <1>2, <1>4
    <3> QED
      BY <3>1, <3>2, <1>1, <1>2
  <2> QED
    BY <2>1, <2>2
<1> QED
  BY <1>4, <1>5

\* The invariant the run of Transport checks, for every length and size.
THEOREM PlanKept == Spec => []PlanIsPrototypes
<1>1. TypeOK => PlanIsPrototypes
  <2>1. SUFFICES ASSUME TypeOK, NEW n \in 0..cmd.len
                 PROVE  CtrlWrite(n, ChunksMax, verimark_frame_write_chunks(n))
    BY DEF PlanIsPrototypes
  <2>2. cmd.len \in Nat
    <3>1. cmd \in Cmd \/ cmd = NoCmd
      BY <2>1 DEF TypeOK
    <3>2. cmd \in Cmd => cmd.len \in Nat
      BY LensSane DEF Cmd
    <3>3. NoCmd.len \in Nat
      BY DEF NoCmd
    <3> QED
      BY <3>1, <3>2, <3>3
  <2> QED
    BY <2>2, PlanIsCtrlWrites
<1> QED
  BY <1>1, TypeCorrect, PTL
=============================================================================
