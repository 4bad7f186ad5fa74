------------------------------- MODULE Framing -------------------------------
(***************************************************************************)
(* The arithmetic of src/driver/verimark-transport-framing.c: how a        *)
(* command is padded and split into control-WRITEs and how much each       *)
(* control-READ asks for.  wValue is a record of its flag bits: cont is    *)
(* 0x4000, more is 0x8000, low the three low bits.  The loop that fills    *)
(* the chunk table is given in closed form: its n-th round starts at       *)
(* (n - 1) * MaxChunk, because only a last round handles less than         *)
(* MaxChunk bytes.                                                         *)
(***************************************************************************)
EXTENDS Integers, Sequences

CONSTANTS
  MaxChunk,   \* FRAME_MAXCHUNK: 4096 in the code
  ChunksMax   \* VERIMARK_WRITE_CHUNKS_MAX: 8 in the code

ASSUME ChunkSizes == /\ MaxChunk \in Nat \ {0} /\ MaxChunk % 8 = 0
                     /\ ChunksMax \in Nat \ {0}

Least(a, b) == IF a <= b THEN a ELSE b

\* C's remainder has the sign of the dividend.
Rem8(n) == IF n >= 0 THEN n % 8 ELSE -((-n) % 8)

verimark_frame_padded_len_Unsigned(n) == n + Rem8(-n)   \* mutant
verimark_frame_padded_len(n) ==
  LET pad == Rem8(-n)
  IN  n + IF pad < 0 THEN pad + 8 ELSE pad

\* The chunk at offset off; the first one is the one at 0.
IsLast_OfTable(n, off) ==   \* mutant
  off + MaxChunk >= Least(verimark_frame_padded_len(n), ChunksMax * MaxChunk)
IsLast(n, off) == off + MaxChunk >= verimark_frame_padded_len(n)
Chunk_AlwaysFirst(n, off) ==   \* mutant
  [offset |-> off,
   len    |-> Least(verimark_frame_padded_len(n) - off, MaxChunk),
   wvalue |-> [cont |-> FALSE,
               more |-> ~IsLast(n, off),
               low  |-> IF IsLast(n, off) THEN n % 8 ELSE 0]]
Chunk(n, off) ==
  [offset |-> off,
   len    |-> Least(verimark_frame_padded_len(n) - off, MaxChunk),
   wvalue |-> [cont |-> off # 0,
               more |-> ~IsLast(n, off),
               low  |-> IF IsLast(n, off) THEN n % 8 ELSE 0]]

\* An empty command is one chunk; a long one fills the table and no more.
ChunkCount(n) ==
  LET total == verimark_frame_padded_len(n)
  IN  IF total = 0 THEN 1 ELSE Least((total + MaxChunk - 1) \div MaxChunk, ChunksMax)

verimark_frame_write_chunks(n) ==
  [i \in 1..ChunkCount(n) |-> Chunk(n, (i - 1) * MaxChunk)]

verimark_frame_read_chunk_next(remaining, first) ==
  [want   |-> Least(remaining, MaxChunk),
   wvalue |-> [cont |-> ~first, more |-> remaining >= MaxChunk]]
=============================================================================
