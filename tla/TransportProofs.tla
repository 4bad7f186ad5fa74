-------------------------- MODULE TransportProofs --------------------------
(***************************************************************************)
(* Theorems about Transport, for all lengths, budgets, numbers of retries  *)
(* and sizes of chunk, table and queue: what the sensor is given to run,   *)
(* whose answer the driver returns, and that chunks and retries amount to  *)
(* the round trips of RoundTrip.                                           *)
(***************************************************************************)
EXTENDS Transport, FramingProofs

-----------------------------------------------------------------------------
(* The inductive invariant *)

WholeCommands == {Bytes(c, c.len) : c \in Cmd}
AnswerRests   == {a \in [of : Cmd, from : Nat, len : Nat] : a.from <= a.len}

\* What the sensor holds is made of whole commands and ends of answers.
Shapes ==
  /\ ssm \in {"none", "WRITE_CHUNK", "READ_CHUNK"}
  /\ ssm # "none" => cmd \in Cmd
  /\ wchunk_idx \in Nat /\ (ssm = "WRITE_CHUNK" => wchunk_idx < ChunkCount(cmd.len))
  /\ inq \in Seq(WholeCommands) /\ ans \in Seq(AnswerRests)
  /\ strict \in BOOLEAN

\* The read so far: its length, and where an answer's first byte can be.
Buffer ==
  /\ rmax \in Nat \ {0} /\ rbuf.len \in Nat /\ rfirst \in BOOLEAN
  /\ ssm # "none" => rbuf.len < rmax /\ (rfirst => rbuf.len = 0)

\* In the middle of a write the sensor has the chunks written so far.
PartSent ==
  ssm = "WRITE_CHUNK" /\ wchunk_idx > 0 => part = Bytes(cmd, wchunk_idx * MaxChunk)

\* A strict sensor has nothing but the command's since its first chunk.
Dropped ==
  strict =>
    /\ ssm = "WRITE_CHUNK" /\ wchunk_idx > 0 => inq = <<>> /\ ans = <<>>
    /\ ssm = "READ_CHUNK" => /\ \A i \in DOMAIN inq : inq[i].of = cmd
                             /\ \A i \in DOMAIN ans : ans[i].of = cmd

IInv == Shapes /\ Buffer /\ PartSent /\ Dropped /\ ReplyFresh

-----------------------------------------------------------------------------
(* Lemmas *)

\* A chunk of the plan continues the command or completes it; the last one
\* planned does not complete a command the table is too small for.
LEMMA PlannedChunk ==
  ASSUME NEW n \in Nat, NEW j \in Nat, j < ChunkCount(n)
  PROVE  LET k == verimark_frame_write_chunks(n)[j + 1]
         IN  /\ k.offset = j * MaxChunk /\ k.offset \in Nat /\ (k.wvalue.cont <=> j # 0)
             /\ k.len \in Int /\ Padding(k.wvalue.low) \in Int
             /\ k.wvalue.more => k.offset + k.len = (j + 1) * MaxChunk
             /\ ~k.wvalue.more =>
                  j + 1 = ChunkCount(n) /\ k.offset + k.len - Padding(k.wvalue.low) = n
<1> DEFINE k == verimark_frame_write_chunks(n)[j + 1]
           total == verimark_frame_padded_len(n)
<1> USE ChunkSizes
<1>1. ChunkCount(n) \in 1..ChunksMax /\ j + 1 \in 1..ChunkCount(n)
  BY CountOfChunks
<1>2. k = Chunk(n, j * MaxChunk)
  BY <1>1 DEF verimark_frame_write_chunks
<1>3. /\ k.offset = j * MaxChunk /\ k.len = Least(total - j * MaxChunk, MaxChunk)
      /\ k.wvalue.cont <=> j * MaxChunk # 0
      /\ k.wvalue.more <=> ~IsLast(n, j * MaxChunk)
      /\ k.wvalue.low = IF IsLast(n, j * MaxChunk) THEN n % 8 ELSE 0
  BY <1>2, ChunkFields
<1>4. total \in Nat /\ total = n + IF n % 8 = 0 THEN 0 ELSE 8 - (n % 8)
  BY PaddedToEight
<1>5. j * MaxChunk \in Nat /\ (j + 1) * MaxChunk = j * MaxChunk + MaxChunk /\ (j * MaxChunk # 0 <=> j # 0)
  OBVIOUS
<1> HIDE DEF k, total
<1>ints. k.len \in Int /\ Padding(k.wvalue.low) \in Int
  BY <1>3, <1>4, <1>5 DEF Least, Padding
<1>6. CASE ~IsLast(n, j * MaxChunk)
  <2>1. k.len = MaxChunk
    BY <1>3, <1>4, <1>5, <1>6 DEF IsLast, Least, total
  <2> QED
    BY <2>1, <1>3, <1>5, <1>ints, <1>6 DEF k
<1>7. CASE IsLast(n, j * MaxChunk)
  <2>1. k.len = total - j * MaxChunk
    BY <1>3, <1>4, <1>5, <1>7 DEF IsLast, Least, total
  <2>2. k.offset + k.len - Padding(k.wvalue.low) = n
    BY <2>1, <1>3, <1>4, <1>5, <1>7 DEF Padding
  <2>3. j + 1 = ChunkCount(n)
    <3>1. SUFFICES ASSUME j + 1 # ChunkCount(n) PROVE FALSE
      OBVIOUS
    <3>2. j + 1 \in 1..ChunkCount(n) - 1
      BY <3>1, <1>1
    <3>3. (j + 1) * MaxChunk < total
      BY <3>2, CountOfChunks DEF total
    <3> QED
      BY <3>3, <1>4, <1>5, <1>7 DEF IsLast, total
  <2> QED
    BY <2>2, <2>3, <1>3, <1>5, <1>ints, <1>7 DEF k
<1> QED
  BY <1>6, <1>7

\* The plan is as long as its count says.
LEMMA PlanLength ==
  ASSUME NEW n \in Nat
  PROVE  Len(verimark_frame_write_chunks(n)) = ChunkCount(n)
BY CountOfChunks, ChunkSizes DEF verimark_frame_write_chunks

\* What a chunk that arrives does to the sensor.
LEMMA ChunkArrives ==
  ASSUME Shapes, PartSent, ssm = "WRITE_CHUNK", Receive(wchunks[wchunk_idx + 1])
  PROVE  LET drops == strict /\ wchunk_idx = 0
             queue == IF drops THEN <<>> ELSE inq
         IN  /\ ans' = IF drops THEN <<>> ELSE ans
             /\ \/ inq' = queue /\ part' = Bytes(cmd, (wchunk_idx + 1) * MaxChunk)
                \/ /\ wchunk_idx + 1 = ChunkCount(cmd.len)
                   /\ inq' = Append(queue, Bytes(cmd, cmd.len)) /\ part' = NoBytes
<1> DEFINE k == wchunks[wchunk_idx + 1]
           before == IF k.wvalue.cont THEN part ELSE Bytes(cmd, 0)
<1>1. cmd \in Cmd /\ cmd.len \in Nat /\ wchunk_idx \in Nat /\ wchunk_idx < ChunkCount(cmd.len)
  BY LensSane DEF Shapes, Cmd
<1>2. /\ k.offset = wchunk_idx * MaxChunk /\ k.offset \in Nat /\ (k.wvalue.cont <=> wchunk_idx # 0)
      /\ k.len \in Int /\ Padding(k.wvalue.low) \in Int
      /\ k.wvalue.more => k.offset + k.len = (wchunk_idx + 1) * MaxChunk
      /\ ~k.wvalue.more =>
           wchunk_idx + 1 = ChunkCount(cmd.len) /\ k.offset + k.len - Padding(k.wvalue.low) = cmd.len
  BY <1>1, PlannedChunk DEF wchunks
<1> HIDE DEF k
<1>3. before = Bytes(cmd, k.offset)
  <2>1. CASE wchunk_idx = 0
    <3>1. k.offset = 0 /\ ~k.wvalue.cont
      BY <2>1, <1>2, ChunkSizes
    <3> QED
      BY <3>1
  <2>2. CASE wchunk_idx > 0
    BY <2>2, <1>2 DEF PartSent
  <2> QED
    BY <2>1, <2>2, <1>1
<1>4. LET now   == Bytes(cmd, k.offset + k.len)
          drops == strict /\ ~k.wvalue.cont
          queue == IF drops THEN <<>> ELSE inq
      IN  /\ ans' = IF drops THEN <<>> ELSE ans
          /\ IF k.wvalue.more
               THEN part' = now /\ inq' = queue
               ELSE /\ part' = NoBytes
                    /\ inq' = Append(queue, Bytes(cmd, k.offset + k.len - Padding(k.wvalue.low)))
  <2> DEFINE now == Bytes(IF before = Bytes(cmd, k.offset) THEN cmd ELSE NoCmd, before.len + k.len)
  <2>1. before.len = k.offset
    BY <1>3 DEF Bytes
  <2>2. now = Bytes(cmd, k.offset + k.len)
    BY <1>3, <2>1
  <2>3. now.of = cmd /\ now.len = k.offset + k.len
    BY <2>2 DEF Bytes
  <2>4. /\ ans' = IF strict /\ ~k.wvalue.cont THEN <<>> ELSE ans
        /\ k.wvalue.more =>
             part' = now /\ inq' = IF strict /\ ~k.wvalue.cont THEN <<>> ELSE inq
        /\ ~k.wvalue.more => part' = NoBytes
        /\ ~k.wvalue.more =>
             inq' = Append(IF strict /\ ~k.wvalue.cont THEN <<>> ELSE inq,
                           Bytes(now.of, now.len - Padding(k.wvalue.low)))
    BY DEF Receive, k
  <2>5. CASE k.wvalue.more
    <3> HIDE DEF now
    <3> QED
      BY <2>2, <2>4, <2>5
  <2>6. CASE ~k.wvalue.more
    <3> HIDE DEF now, before
    <3>0. Padding(k.wvalue.low) \in Int /\ k.offset \in Int /\ k.len \in Int
      BY <1>2
    <3>1. now.len - Padding(k.wvalue.low) = k.offset + k.len - Padding(k.wvalue.low)
      BY <2>3, <3>0
    <3>2. Bytes(now.of, now.len - Padding(k.wvalue.low))
            = Bytes(cmd, k.offset + k.len - Padding(k.wvalue.low))
      BY <2>3, <3>1
    <3> QED
      BY <3>2, <2>4, <2>6
  <2> QED
    BY <2>5, <2>6
<1> QED
  BY <1>1, <1>2, <1>4

\* The sensor keeps an answer nobody finished reading, or forgets it.
LEMMA GivenUp ==
  ASSUME ans \in Seq(AnswerRests), ans # <<>>, NEW want \in Nat, NEW more,
         ans' \in GiveUp(want, more)
  PROVE  /\ ans' \in Seq(AnswerRests) /\ Moved(want) \in Nat
         /\ \A c : (\A i \in DOMAIN ans : ans[i].of = c) => \A i \in DOMAIN ans' : ans'[i].of = c
<1> DEFINE a == Head(ans)
           rest == Answer(a.of, a.from + Moved(want), a.len)
<1>1. a \in AnswerRests /\ Tail(ans) \in Seq(AnswerRests) /\ a = ans[1] /\ 1 \in DOMAIN ans
  OBVIOUS
<1>2. Moved(want) \in Nat /\ Moved(want) <= a.len - a.from
  BY <1>1 DEF Moved, Least, AnswerRests
<1>3. rest \in AnswerRests /\ rest.of = a.of
  BY <1>1, <1>2 DEF AnswerRests, Answer
<1>4. ans' = <<rest>> \o Tail(ans) \/ ans' = Tail(ans)
  BY DEF GiveUp
<1> HIDE DEF rest, a
<1>5. CASE ans' = <<rest>> \o Tail(ans)
  <2>1. ans' \in Seq(AnswerRests) /\ DOMAIN ans' = DOMAIN ans
    BY <1>1, <1>3, <1>5
  <2>2. \A i \in DOMAIN ans' : ans'[i] = IF i = 1 THEN rest ELSE ans[i]
    BY <1>1, <1>5
  <2> QED
    BY <2>1, <2>2, <1>1, <1>2, <1>3
<1>6. CASE ans' = Tail(ans)
  <2>1. \A i \in DOMAIN ans' : i + 1 \in DOMAIN ans /\ ans'[i] = ans[i + 1]
    BY <1>6
  <2> QED
    BY <2>1, <1>1, <1>2, <1>6
<1> QED
  BY <1>4, <1>5, <1>6

-----------------------------------------------------------------------------
(* The invariant holds, one step per action *)

LEMMA Initially == Init => IInv
<1> SUFFICES ASSUME Init PROVE IInv
  OBVIOUS
<1>1. Shapes /\ Buffer /\ PartSent /\ Dropped
  BY DEF Init, Shapes, Buffer, PartSent, Dropped, NoBytes, Bytes
<1>2. ReplyFresh
  BY DEF Init, ReplyFresh, Failed, Answer
<1> QED
  BY <1>1, <1>2 DEF IInv

LEMMA StartsCommand == IInv /\ verimark_cmd => IInv'
<1> SUFFICES ASSUME IInv, verimark_cmd PROVE IInv'
  OBVIOUS
<1> USE DEF IInv
<1>1. PICK no \in Numbers, len \in CmdLens, resp_max_len \in Budgets :
        /\ cmd' = [no |-> no, len |-> len]
        /\ rmax' = IF resp_max_len = 0 THEN 1 ELSE resp_max_len
  BY DEF verimark_cmd
<1>2. /\ wchunk_idx' = 0 /\ rbuf' = NoBytes /\ rfirst' = TRUE /\ ssm' = "WRITE_CHUNK"
      /\ UNCHANGED <<inq, ans, strict>>
  BY DEF verimark_cmd, sensorVars
<1>3. cmd' \in Cmd /\ cmd.len' \in Nat
  BY <1>1, LensSane DEF Cmd
<1>4. Shapes'
  BY <1>2, <1>3, CountOfChunks DEF Shapes
<1>5. Buffer'
  BY <1>1, <1>2, LensSane DEF Buffer, NoBytes, Bytes
<1>6. PartSent' /\ Dropped' /\ ReplyFresh'
  BY <1>2 DEF PartSent, Dropped, ReplyFresh
<1> QED
  BY <1>4, <1>5, <1>6

LEMMA WritesChunk == IInv /\ on_write_chunk_done => IInv'
<1> SUFFICES ASSUME IInv, on_write_chunk_done PROVE IInv'
  OBVIOUS
<1> USE DEF IInv
<1>1. /\ ssm = "WRITE_CHUNK" /\ UNCHANGED <<cmd, rmax, rbuf, rfirst, strict>>
      /\ cmd \in Cmd /\ cmd.len \in Nat /\ Bytes(cmd, cmd.len) \in WholeCommands
      /\ wchunk_idx \in Nat /\ wchunk_idx < ChunkCount(cmd.len)
  BY LensSane DEF on_write_chunk_done, Shapes, Cmd, WholeCommands
<1>2. Buffer'
  BY <1>1 DEF Buffer
<1>3. CASE Receive(wchunks[wchunk_idx + 1])
  <2> DEFINE drops == strict /\ wchunk_idx = 0
             queue == IF drops THEN <<>> ELSE inq
  <2>1. /\ ans' = IF drops THEN <<>> ELSE ans
        /\ \/ inq' = queue /\ part' = Bytes(cmd, (wchunk_idx + 1) * MaxChunk)
           \/ /\ wchunk_idx + 1 = ChunkCount(cmd.len)
              /\ inq' = Append(queue, Bytes(cmd, cmd.len)) /\ part' = NoBytes
    BY <1>1, <1>3, ChunkArrives
  <2>2. inq' \in Seq(WholeCommands) /\ ans' \in Seq(AnswerRests)
    <3>1. queue \in Seq(WholeCommands)
      BY DEF Shapes
    <3>2. Append(queue, Bytes(cmd, cmd.len)) \in Seq(WholeCommands)
      BY <3>1, <1>1
    <3>3. (IF drops THEN <<>> ELSE ans) \in Seq(AnswerRests)
      BY DEF Shapes
    <3> HIDE DEF drops, queue
    <3> QED
      BY <2>1, <3>1, <3>2, <3>3
  <2>3. CASE ssm' = "none" /\ got' = Failed /\ UNCHANGED wchunk_idx
    BY <2>2, <2>3, <1>1, <1>2 DEF Shapes, PartSent, Dropped, ReplyFresh, Failed, Answer
  <2>4. CASE /\ wchunk_idx' = wchunk_idx + 1
             /\ ssm' = IF wchunk_idx' < Len(wchunks) THEN "WRITE_CHUNK" ELSE "READ_CHUNK"
    <3>1. Len(wchunks) = ChunkCount(cmd.len) /\ ChunkCount(cmd.len) \in Nat
      BY <1>1, PlanLength, CountOfChunks DEF wchunks
    <3>2. Shapes'
      BY <2>2, <2>4, <1>1, <3>1 DEF Shapes
    <3>3. PartSent'
      BY <2>1, <2>4, <1>1, <3>1 DEF PartSent
    <3>4. strict => ans' = <<>> /\ queue = <<>>
      BY <1>1, <2>1 DEF Dropped
    <3> HIDE DEF queue
    <3>5. Dropped'
      <4>1. CASE inq' = queue
        BY <4>1, <3>4, <1>1 DEF Dropped
      <4>2. CASE wchunk_idx + 1 = ChunkCount(cmd.len) /\ inq' = Append(queue, Bytes(cmd, cmd.len))
        <5>1. ssm' = "READ_CHUNK"
          BY <4>2, <2>4, <3>1
        <5>2. strict => inq' = <<Bytes(cmd, cmd.len)>>
          <6>1. Append(<<>>, Bytes(cmd, cmd.len)) = <<Bytes(cmd, cmd.len)>>
            OBVIOUS
          <6> QED
            BY <6>1, <4>2, <3>4
        <5> QED
          BY <5>1, <5>2, <3>4, <1>1 DEF Dropped, Bytes
      <4> QED
        BY <4>1, <4>2, <2>1
    <3>6. ReplyFresh'
      BY <2>4 DEF ReplyFresh
    <3> QED
      BY <1>2, <3>2, <3>3, <3>5, <3>6
  <2> QED
    BY <1>3, <2>3, <2>4 DEF on_write_chunk_done, WriteFailed, Complete
<1>4. CASE UNCHANGED sensorVars /\ ssm' = "none" /\ got' = Failed /\ UNCHANGED wchunk_idx
  BY <1>1, <1>2, <1>4 DEF sensorVars, Shapes, PartSent, Dropped, ReplyFresh, Failed, Answer
<1> QED
  BY <1>3, <1>4 DEF on_write_chunk_done, WriteFailed, Complete

\* How much a read asks for, gets and adds to the buffer.
LEMMA Collecting ==
  ASSUME Shapes, Buffer, ssm = "READ_CHUNK", ans # <<>>
  PROVE  LET moved == Moved(next_read.want)
         IN  /\ next_read.want \in Nat /\ moved \in Nat /\ Head(ans) \in AnswerRests
             /\ Collected.len = rbuf.len + moved
             /\ Collected.of \in {Head(ans).of, NoCmd}
<1>1. next_read.want = Least(rmax - rbuf.len, MaxChunk)
  BY DEF next_read, verimark_frame_read_chunk_next
<1>2. next_read.want \in Nat
  BY <1>1, ChunkSizes DEF Buffer, Least
<1>3. Head(ans) \in AnswerRests
  BY DEF Shapes
<1>4. Moved(next_read.want) \in Nat
  BY <1>2, <1>3 DEF Moved, Least, AnswerRests
<1>5. Collected.len = rbuf.len + Moved(next_read.want) /\ Collected.of \in {Head(ans).of, NoCmd}
  BY DEF Collected, Bytes
<1> QED
  BY <1>2, <1>3, <1>4, <1>5

LEMMA ReadsChunk == IInv /\ on_read_chunk_done => IInv'
<1> SUFFICES ASSUME IInv, on_read_chunk_done PROVE IInv'
  OBVIOUS
<1> USE DEF IInv
<1>1. /\ ssm = "READ_CHUNK" /\ UNCHANGED <<cmd, wchunk_idx, rmax, part, inq, strict>>
      /\ cmd \in Cmd
  BY DEF on_read_chunk_done, Shapes
<1>2. CASE ReadAnswered
  <2>1. ans # <<>> /\ ans' \in GiveUp(next_read.want, next_read.wvalue.more) /\ rbuf' = Collected
    BY <1>2 DEF ReadAnswered
  <2>2. /\ next_read.want \in Nat /\ Moved(next_read.want) \in Nat /\ Head(ans) \in AnswerRests
        /\ Collected.len = rbuf.len + Moved(next_read.want)
        /\ Collected.of \in {Head(ans).of, NoCmd}
    BY <1>1, <2>1, Collecting
  <2>3. /\ ans' \in Seq(AnswerRests)
        /\ \A c : (\A i \in DOMAIN ans : ans[i].of = c) => \A i \in DOMAIN ans' : ans'[i].of = c
    BY <2>1, <2>2, GivenUp DEF Shapes
  <2>4. CASE EndsRead(Moved(next_read.want)) /\ Complete(Reply(Collected)) /\ UNCHANGED rfirst
    <3>1. ssm' = "none" /\ got' = Reply(Collected)
      BY <2>4 DEF Complete
    <3>2. Shapes' /\ PartSent' /\ Dropped'
      BY <1>1, <2>3, <3>1 DEF Shapes, PartSent, Dropped
    <3>3. Buffer'
      BY <1>1, <2>1, <2>2, <2>4, <3>1 DEF Buffer
    <3>4. ReplyFresh'
      <4>1. got.of' \in {Head(ans).of, NoCmd}
        BY <3>1, <2>2 DEF Reply, Rest, Answer
      <4>2. strict => Head(ans).of = cmd
        BY <1>1, <2>1 DEF Dropped, Shapes
      <4> QED
        BY <4>1, <4>2, <1>1 DEF ReplyFresh
    <3> QED
      BY <3>2, <3>3, <3>4
  <2>5. CASE ~EndsRead(Moved(next_read.want)) /\ rfirst' = FALSE /\ UNCHANGED <<ssm, got>>
    <3>1. rbuf.len' = rbuf.len + Moved(next_read.want)
      BY <2>1, <2>2
    <3>2. ~(rbuf.len + Moved(next_read.want) >= rmax)
      BY <2>5 DEF EndsRead
    <3>3. Buffer'
      <4> DEFINE m == Moved(next_read.want)
      <4>1. m \in Nat /\ rbuf.len \in Nat /\ rmax \in Nat \ {0} /\ rmax' = rmax
        BY <1>1, <2>2 DEF Buffer
      <4>2. rfirst' = FALSE /\ rbuf.len' = rbuf.len + m /\ ~(rbuf.len + m >= rmax)
        BY <2>5, <3>1, <3>2
      <4> HIDE DEF m
      <4>3. rbuf.len' \in Nat /\ rbuf.len' < rmax'
        BY <4>1, <4>2
      <4> QED
        BY <4>1, <4>2, <4>3 DEF Buffer
    <3> QED
      BY <1>1, <2>3, <2>5, <3>3 DEF Shapes, PartSent, Dropped, ReplyFresh
  <2> QED
    BY <1>2, <2>4, <2>5 DEF ReadAnswered
<1>3. ASSUME Wasted
      PROVE  /\ ans' \in Seq(AnswerRests)
             /\ \A c : (\A i \in DOMAIN ans : ans[i].of = c) => \A i \in DOMAIN ans' : ans'[i].of = c
  <2>1. CASE UNCHANGED ans
    BY <2>1 DEF Shapes
  <2>2. CASE ans # <<>> /\ ans' \in GiveUp(next_read.want, next_read.wvalue.more)
    BY <1>1, <2>2, Collecting, GivenUp DEF Shapes
  <2> QED
    BY <1>3, <2>1, <2>2 DEF Wasted
<1>4. CASE ReadTimesOut
  <2>1. Wasted /\ UNCHANGED <<ssm, got, rbuf, rfirst>>
    BY <1>4 DEF ReadTimesOut
  <2> QED
    BY <1>1, <1>3, <2>1 DEF Shapes, Buffer, PartSent, Dropped, ReplyFresh
<1>5. CASE ReadFails
  <2>1. Wasted /\ ssm' = "none" /\ got' = Failed /\ UNCHANGED <<rbuf, rfirst>>
    BY <1>5 DEF ReadFails, Complete
  <2> QED
    BY <1>1, <1>3, <2>1 DEF Shapes, Buffer, PartSent, Dropped, ReplyFresh, Failed, Answer
<1> QED
  BY <1>2, <1>4, <1>5 DEF on_read_chunk_done

LEMMA SensorExecutes == IInv /\ Execute => IInv'
<1> SUFFICES ASSUME IInv, Execute PROVE IInv'
  OBVIOUS
<1> USE DEF IInv
<1>1. PICK len \in AnsLens : ans' = Append(ans, Answer(Head(inq).of, 0, len))
  BY DEF Execute
<1>2. /\ inq # <<>> /\ inq' = Tail(inq)
      /\ UNCHANGED <<ssm, cmd, wchunk_idx, rmax, rbuf, rfirst, got, part, strict>>
  BY DEF Execute, ctxVars
<1> DEFINE a == Answer(Head(inq).of, 0, len)
<1>3. a \in AnswerRests /\ a.of = Head(inq).of
  BY <1>2, LensSane DEF Shapes, WholeCommands, AnswerRests, Answer, Bytes
<1> HIDE DEF a
<1>4. inq' \in Seq(WholeCommands) /\ ans' \in Seq(AnswerRests)
  BY <1>1, <1>2, <1>3 DEF Shapes, a
<1>5. Dropped'
  <2>1. SUFFICES ASSUME strict, ssm = "READ_CHUNK"
                 PROVE  /\ \A i \in DOMAIN inq' : inq'[i].of = cmd
                        /\ \A i \in DOMAIN ans' : ans'[i].of = cmd
    BY <1>2 DEF Dropped
  <2>2. /\ \A i \in DOMAIN inq : inq[i].of = cmd
        /\ \A i \in DOMAIN ans : ans[i].of = cmd
    BY <2>1 DEF Dropped
  <2>3. \A i \in DOMAIN inq' : inq'[i] = inq[i + 1] /\ i + 1 \in DOMAIN inq
    BY <1>2 DEF Shapes
  <2>4. a.of = cmd
    BY <1>2, <1>3, <2>2 DEF Shapes
  <2>5. ans' = Append(ans, a)
    BY <1>1 DEF a
  <2>6. \A i \in DOMAIN ans' : ans'[i] = a \/ (i \in DOMAIN ans /\ ans'[i] = ans[i])
    BY <2>5 DEF Shapes
  <2> QED
    BY <2>2, <2>3, <2>4, <2>6
<1> QED
  BY <1>2, <1>4, <1>5 DEF Shapes, Buffer, PartSent, ReplyFresh

-----------------------------------------------------------------------------
(* Commands and answers *)

\* The inductive invariant holds in every reachable state.
THEOREM Invariance == Spec => []IInv
<1>1. Init => IInv
  BY Initially
<1>2. IInv /\ [Next]_vars => IInv'
  <2> SUFFICES ASSUME IInv, [Next]_vars PROVE IInv'
    OBVIOUS
  <2>1. CASE UNCHANGED vars
    BY <2>1 DEF vars, ctxVars, sensorVars, IInv, Shapes, Buffer, PartSent, Dropped, ReplyFresh
  <2> QED
    BY <2>1, StartsCommand, WritesChunk, ReadsChunk, SensorExecutes DEF Next, Transfers
<1> QED
  BY <1>1, <1>2, PTL DEF Spec

\* Whatever fails and whatever is left over, the sensor only ever has whole
\* commands to run (on_write_chunk_done, verimark_frame_write_chunks).
THEOREM CommandsAssembled == Spec => []Assembled
<1>1. IInv => Assembled
  <2> SUFFICES ASSUME IInv, NEW i \in DOMAIN inq PROVE inq[i].of # NoCmd /\ inq[i].len = inq[i].of.len
    BY DEF Assembled
  <2>1. inq[i] \in WholeCommands
    BY DEF IInv, Shapes
  <2> QED
    BY <2>1 DEF WholeCommands, Bytes, Cmd, NoCmd, Numbers
<1> QED
  BY <1>1, Invariance, PTL

\* A strict sensor's answer is never taken for the answer to another command
\* (on_read_chunk_done).
THEOREM RepliesFresh == Spec => []ReplyFresh
<1>1. IInv => ReplyFresh
  BY DEF IInv
<1> QED
  BY <1>1, Invariance, PTL

\* Only the budget cuts an answer that is read from its start on
\* (on_read_chunk_done).
THEOREM OnlyBudgetCuts == Spec => CutByBudget
<1> DEFINE Step == Reading /\ ssm' = "none" /\ got' = Rest /\ Collected.of # NoCmd
                     => Collected.len >= rmax
<1>1. IInv /\ [Next]_vars => [Step]_vars
  <2> SUFFICES ASSUME IInv, Next, Reading, ssm' = "none", got' = Rest, Collected.of # NoCmd
               PROVE  Collected.len >= rmax
    OBVIOUS
  <2> USE DEF IInv
  <2>1. ssm = "READ_CHUNK" /\ ReadAnswered
    BY DEF Next, Transfers, verimark_cmd, on_write_chunk_done, on_read_chunk_done, Execute,
           ReadTimesOut, ReadFails, Complete, Reading, Rest, Failed, Answer
  <2>2. /\ ans # <<>> /\ EndsRead(Moved(next_read.want)) /\ got' = Reply(Collected)
    BY <2>1 DEF ReadAnswered, Complete
  <2>3. /\ next_read.want \in Nat /\ Moved(next_read.want) \in Nat /\ Head(ans) \in AnswerRests
        /\ Collected.len = rbuf.len + Moved(next_read.want)
    BY <2>1, <2>2, Collecting
  <2>4. CASE Moved(next_read.want) < next_read.want
    <3>1. Moved(next_read.want) = Head(ans).len - Head(ans).from
      BY <2>3, <2>4 DEF Moved, Least, AnswerRests
    <3>2. rbuf.len = Head(ans).from
      BY <2>1 DEF Collected, Bytes, Buffer
    <3>3. Collected.len = Head(ans).len
      BY <2>3, <3>1, <3>2 DEF AnswerRests
    <3>4. Reply(Collected).of # NoCmd
      BY <3>3 DEF Reply, Answer
    <3> QED
      BY <2>2, <3>4 DEF Rest, Answer
  <2>5. CASE rbuf.len + Moved(next_read.want) >= rmax
    BY <2>3, <2>5
  <2> QED
    BY <2>2, <2>4, <2>5 DEF EndsRead
<1> QED
  BY <1>1, Invariance, PTL DEF Spec, CutByBudget

-----------------------------------------------------------------------------
(* What the driver holds of an answer and what the sensor has left of it *)

\* Bytes of some command, or of none in particular.
Held == [of : Cmd \cup {NoCmd}, len : Nat]

\* The bounds TypeOK states, and a read that starts with the first chunk.
Accounts ==
  /\ cmd \in Cmd \cup {NoCmd} /\ wchunk_idx <= ChunkCount(cmd.len)
  /\ rbuf \in Held /\ rbuf.len <= rmax /\ rretries \in 0..MaxRetries
  /\ part \in Held /\ got.of \in Cmd \cup {NoCmd}
  /\ Len(inq) + Len(ans) <= QueueSize
  /\ ssm = "WRITE_CHUNK" => rfirst = TRUE

\* No two commands or answers in the sensor are of the same command, and none
\* of the one being written.
Apart ==
  /\ \A i, j \in DOMAIN ans : ans[i].of = ans[j].of => i = j
  /\ \A i, j \in DOMAIN inq : inq[i].of = inq[j].of => i = j
  /\ \A i \in DOMAIN ans, j \in DOMAIN inq : ans[i].of # inq[j].of
  /\ ssm = "WRITE_CHUNK" => /\ \A i \in DOMAIN ans : ans[i].of # cmd
                            /\ \A j \in DOMAIN inq : inq[j].of # cmd

\* Only the first answer can be read in part.
OnlyHead == \A i \in DOMAIN ans : i > 1 => ans[i].from = 0

\* Of the answer it goes on reading, the driver holds no more than was moved,
\* and that answer is the first one.
Resuming ==
  ssm = "READ_CHUNK" /\ rfirst = FALSE =>
    /\ \A j \in DOMAIN inq : inq[j].of # rbuf.of
    /\ \A i \in DOMAIN ans : ans[i].of = rbuf.of => i = 1 /\ rbuf.len <= ans[i].from

LInv == Accounts /\ Apart /\ OnlyHead /\ Resuming

\* The two things a read can do to the unread answers.
DropsHead == /\ Len(ans') = Len(ans) - 1
             /\ \A i \in DOMAIN ans' : i + 1 \in DOMAIN ans /\ ans'[i] = ans[i + 1]
KeepsHead(m) == /\ m >= 1 /\ DOMAIN ans' = DOMAIN ans /\ Len(ans') = Len(ans)
                /\ ans'[1] = Answer(ans[1].of, ans[1].from + m, ans[1].len)
                /\ \A i \in DOMAIN ans : i > 1 => ans'[i] = ans[i]

\* A read that moves nothing ends the answer; one that leaves a rest has moved.
LEMMA HeadMoves ==
  ASSUME ans \in Seq(AnswerRests), ans # <<>>, NEW want \in Nat \ {0}, NEW more,
         ans' \in GiveUp(want, more)
  PROVE  /\ Moved(want) \in Nat /\ Moved(want) <= want
         /\ DropsHead \/ KeepsHead(Moved(want))
<1> DEFINE a == Head(ans)
           m == Moved(want)
           rest == Answer(a.of, a.from + m, a.len)
<1>1. a \in AnswerRests /\ a = ans[1] /\ Tail(ans) \in Seq(AnswerRests) /\ Len(ans) >= 1 /\ Len(ans) \in Nat
  OBVIOUS
<1>2. a.from \in Nat /\ a.len \in Nat /\ a.from <= a.len
  BY <1>1 DEF AnswerRests
<1>3. m = Least(want, a.len - a.from)
  BY DEF Moved
<1>4. rest.from = a.from + m /\ rest.len = a.len
  BY DEF Answer
<1>5. ans' = Tail(ans) \/ (ans' = <<rest>> \o Tail(ans) /\ (rest.from < rest.len \/ m = want))
  BY DEF GiveUp
<1> HIDE DEF a, m
<1>6. m \in Nat /\ m <= want /\ (a.from + m < a.len => m >= 1)
  BY <1>2, <1>3 DEF Least
<1>7. CASE ans' = Tail(ans)
  <2>1. DropsHead
    BY <1>1, <1>7 DEF DropsHead
  <2> QED BY <1>6, <2>1 DEF m
<1>8. CASE ans' = <<rest>> \o Tail(ans) /\ (rest.from < rest.len \/ m = want)
  <2>1. m >= 1
    BY <1>4, <1>6, <1>8
  <2> HIDE DEF rest
  <2>2. /\ Len(ans') = Len(ans) /\ DOMAIN ans' = DOMAIN ans /\ ans'[1] = rest
        /\ \A i \in DOMAIN ans : i > 1 => ans'[i] = ans[i]
    BY <1>1, <1>8
  <2>3. KeepsHead(m)
    BY <1>1, <2>1, <2>2 DEF KeepsHead, rest
  <2> QED BY <1>6, <2>3 DEF m
<1> QED BY <1>5, <1>7, <1>8

\* A driver that reads asks for some bytes, and for no more than it has room for.
LEMMA Asks ==
  ASSUME Buffer, ssm = "READ_CHUNK"
  PROVE  next_read.want \in Nat \ {0} /\ rbuf.len + next_read.want <= rmax
<1>1. rmax \in Nat /\ rbuf.len \in Nat /\ rbuf.len < rmax
  BY DEF Buffer
<1>2. next_read.want = Least(rmax - rbuf.len, MaxChunk)
  BY DEF next_read, verimark_frame_read_chunk_next
<1> QED BY <1>1, <1>2, ChunkSizes DEF Least

\* What a read does to the answers keeps them apart and whole behind the head.
LEMMA Reads ==
  ASSUME Shapes, Apart, OnlyHead, UNCHANGED <<cmd, inq>>, ssm' # "WRITE_CHUNK", NEW m \in Nat,
         ans' \in Seq(AnswerRests), DropsHead \/ KeepsHead(m) \/ UNCHANGED ans
  PROVE  Apart' /\ OnlyHead' /\ Len(ans') <= Len(ans)
<1>0. Len(ans) \in Nat /\ DOMAIN ans = 1..Len(ans)
  BY DEF Shapes
<1>1. CASE DropsHead
  <2>1. \A i \in DOMAIN ans' : i \in Int /\ i + 1 \in DOMAIN ans /\ ans'[i] = ans[i + 1]
    BY <1>0, <1>1 DEF DropsHead
  <2>2. OnlyHead'
    <3> SUFFICES ASSUME NEW i \in DOMAIN ans', i > 1 PROVE ans'[i].from = 0
      BY DEF OnlyHead
    <3> QED BY <2>1 DEF OnlyHead
  <2>3. Apart'
    BY <2>1 DEF Apart
  <2> QED BY <1>0, <1>1, <2>2, <2>3 DEF DropsHead
<1>2. CASE KeepsHead(m)
  <2>1. DOMAIN ans' = DOMAIN ans /\ \A i \in DOMAIN ans : ans'[i].of = ans[i].of /\ (i > 1 => ans'[i] = ans[i])
    BY <1>0, <1>2 DEF KeepsHead, Answer
  <2> QED BY <1>0, <1>2, <2>1 DEF Apart, OnlyHead, KeepsHead
<1>3. CASE UNCHANGED ans
  BY <1>0, <1>3 DEF Apart, OnlyHead
<1> QED BY <1>1, <1>2, <1>3

-----------------------------------------------------------------------------
(* The second invariant holds, one step per action *)

\* At the start the sensor is empty and the driver holds nothing.
LEMMA LineInitially == Init => LInv
<1> SUFFICES ASSUME Init PROVE LInv
  OBVIOUS
<1>1. ChunkCount(0) \in Nat
  BY CountOfChunks
<1>2. NoBytes \in Held /\ NoCmd.len = 0 /\ NoBytes.len = 0 /\ Failed.of = NoCmd
  BY DEF NoBytes, Held, Bytes, NoCmd, Failed, Answer
<1>3. Accounts
  BY <1>1, <1>2, LensSane DEF Init, Accounts
<1>4. Apart /\ OnlyHead /\ Resuming
  BY DEF Init, Apart, OnlyHead, Resuming
<1> QED BY <1>3, <1>4 DEF LInv

\* A new command has a number nothing in the sensor has (verimark_cmd).
LEMMA LineStarts == IInv /\ LInv /\ verimark_cmd => LInv'
<1> SUFFICES ASSUME IInv, LInv, verimark_cmd PROVE LInv'
  OBVIOUS
<1>1. PICK no \in Numbers, len \in CmdLens, resp_max_len \in Budgets :
        /\ IsNew(no) /\ cmd' = [no |-> no, len |-> len]
        /\ rmax' = IF resp_max_len = 0 THEN 1 ELSE resp_max_len
  BY DEF verimark_cmd
<1>2. /\ wchunk_idx' = 0 /\ rbuf' = NoBytes /\ rfirst' = TRUE /\ rretries' = 0 /\ ssm' = "WRITE_CHUNK"
      /\ UNCHANGED <<got, part, inq, ans, strict>>
  BY DEF verimark_cmd, sensorVars
<1>3. cmd' \in Cmd /\ cmd'.len \in Nat /\ rmax' \in Nat
  BY <1>1, LensSane DEF Cmd
<1>4. Accounts'
  <2>1. ChunkCount(cmd'.len) \in Nat /\ ChunkCount(cmd'.len) >= 0
    BY <1>3, CountOfChunks
  <2>2. NoBytes \in Held /\ NoBytes.len = 0
    BY DEF NoBytes, Held, Bytes, NoCmd
  <2> QED BY <1>2, <1>3, <2>1, <2>2, LensSane DEF LInv, Accounts
<1>5. Apart'
  <2>1. no \notin Around /\ cmd'.no = no
    BY <1>1 DEF IsNew
  <2>2. \A i \in DOMAIN ans : ans[i].of # cmd'
    BY <2>1 DEF Around
  <2>3. \A j \in DOMAIN inq : inq[j].of # cmd'
    BY <2>1 DEF Around
  <2> QED BY <1>2, <2>2, <2>3 DEF LInv, Apart
<1>6. OnlyHead' /\ Resuming'
  BY <1>2 DEF LInv, OnlyHead, Resuming
<1> QED BY <1>4, <1>5, <1>6 DEF LInv

\* What a chunk that arrives, or does not, leaves in the sensor.
LEMMA ChunkLeaves ==
  ASSUME IInv, LInv, ssm = "WRITE_CHUNK", UNCHANGED <<cmd, strict>>,
         Receive(wchunks[wchunk_idx + 1]) \/ UNCHANGED sensorVars,
         ssm' = "WRITE_CHUNK" => wchunk_idx + 1 < ChunkCount(cmd.len)
  PROVE  /\ Apart' /\ OnlyHead' /\ part' \in Held /\ Len(inq') + Len(ans') <= QueueSize
<1>0. /\ cmd \in Cmd /\ cmd.len \in Nat /\ wchunk_idx \in Nat /\ wchunk_idx < ChunkCount(cmd.len)
      /\ inq \in Seq(WholeCommands) /\ ans \in Seq(AnswerRests) /\ Bytes(cmd, cmd.len) \in WholeCommands
  BY LensSane DEF IInv, Shapes, Cmd, WholeCommands
<1>1. CASE UNCHANGED sensorVars
  BY <1>1 DEF sensorVars, LInv, Accounts, Apart, OnlyHead
<1>2. CASE Receive(wchunks[wchunk_idx + 1])
  <2> DEFINE drops == strict /\ wchunk_idx = 0
             queue == IF drops THEN <<>> ELSE inq
             c == Bytes(cmd, cmd.len)
  <2>1. /\ ans' = IF drops THEN <<>> ELSE ans
        /\ \/ inq' = queue /\ part' = Bytes(cmd, (wchunk_idx + 1) * MaxChunk)
           \/ /\ wchunk_idx + 1 = ChunkCount(cmd.len)
              /\ inq' = Append(queue, c) /\ part' = NoBytes
    BY <1>0, <1>2, ChunkArrives DEF IInv
  <2>2. part' \in Held
    <3>1. Bytes(cmd, (wchunk_idx + 1) * MaxChunk) \in Held
      <4>1. (wchunk_idx + 1) * MaxChunk \in Nat
        BY <1>0, ChunkSizes
      <4> HIDE DEF drops, queue, c
      <4> QED BY <1>0, <4>1 DEF Held, Bytes
    <3>2. NoBytes \in Held
      BY DEF NoBytes, Held, Bytes, NoCmd
    <3> QED BY <2>1, <3>1, <3>2
  <2>3. c.of = cmd /\ c \in WholeCommands
    BY <1>0 DEF Bytes
  <2>4. \/ queue = inq /\ ans' = ans
        \/ queue = <<>> /\ ans' = <<>>
    BY <2>1
  <2>5. /\ strict => queue = <<>> /\ ans' = <<>>
        /\ ~strict => queue = inq /\ ans' = ans /\ Len(inq) + Len(ans) < QueueSize
    <3>1. strict /\ wchunk_idx > 0 => inq = <<>> /\ ans = <<>>
      BY DEF IInv, Dropped
    <3>2. ~strict => Len(inq) + Len(ans) < QueueSize
      BY <1>2 DEF Receive
    <3> QED BY <1>0, <2>1, <3>1, <3>2
  <2> HIDE DEF queue, drops, c
  <2>6. queue \in Seq(WholeCommands) /\ ans' \in Seq(AnswerRests)
    <3>1. <<>> \in Seq(WholeCommands) /\ <<>> \in Seq(AnswerRests)
      OBVIOUS
    <3> QED BY <1>0, <2>4, <3>1
  <2>7. Len(inq') + Len(ans') <= QueueSize
    <3>1. QueueSize \in Nat \ {0} /\ Len(inq) + Len(ans) <= QueueSize
      BY LensSane DEF LInv, Accounts
    <3>2. Len(inq') <= Len(queue) + 1 /\ Len(inq') \in Nat /\ Len(queue) \in Nat
      BY <2>1, <2>3, <2>6
    <3>3. CASE strict
      BY <2>5, <3>1, <3>2, <3>3
    <3>4. CASE ~strict
      BY <1>0, <2>5, <3>1, <3>2, <3>4
    <3> QED BY <3>3, <3>4
  <2>8. OnlyHead'
    BY <2>4 DEF LInv, OnlyHead
  <2>9. /\ \A i, j \in DOMAIN ans' : ans'[i].of = ans'[j].of => i = j
        /\ \A i, j \in DOMAIN queue : queue[i].of = queue[j].of => i = j
        /\ \A i \in DOMAIN ans', j \in DOMAIN queue : ans'[i].of # queue[j].of
        /\ \A i \in DOMAIN ans' : ans'[i].of # cmd
        /\ \A j \in DOMAIN queue : queue[j].of # cmd
    BY <2>4 DEF LInv, Apart
  <2>10. Apart'
    <3>1. CASE inq' = queue
      BY <2>9, <3>1 DEF Apart
    <3>2. CASE wchunk_idx + 1 = ChunkCount(cmd.len) /\ inq' = Append(queue, c)
      <4>1. ssm' # "WRITE_CHUNK"
        BY <1>0, <3>2
      <4>2. \A j \in DOMAIN inq' : \/ j \in DOMAIN queue /\ inq'[j] = queue[j]
                                   \/ j = Len(queue) + 1 /\ inq'[j] = c
        BY <2>3, <2>6, <3>2
      <4> QED BY <2>3, <2>9, <4>1, <4>2 DEF Apart
    <3> QED BY <2>1, <3>1, <3>2
  <2> QED BY <2>2, <2>7, <2>8, <2>10
<1> QED BY <1>1, <1>2

\* A chunk written, or not, adds at most the command (on_write_chunk_done).
LEMMA LineWrites == IInv /\ LInv /\ on_write_chunk_done => LInv'
<1> SUFFICES ASSUME IInv, LInv, on_write_chunk_done PROVE LInv'
  OBVIOUS
<1>1. /\ ssm = "WRITE_CHUNK" /\ UNCHANGED <<cmd, rmax, rbuf, rfirst, rretries, strict>>
      /\ cmd \in Cmd /\ cmd.len \in Nat /\ wchunk_idx \in Nat /\ wchunk_idx < ChunkCount(cmd.len)
  BY LensSane DEF on_write_chunk_done, IInv, Shapes, Cmd
<1>2. Len(wchunks) = ChunkCount(cmd.len) /\ ChunkCount(cmd.len) \in Nat
  BY <1>1, PlanLength, CountOfChunks DEF wchunks
<1>3. rfirst = TRUE
  BY <1>1 DEF LInv, Accounts
<1>4. CASE /\ Receive(wchunks[wchunk_idx + 1]) /\ wchunk_idx' = wchunk_idx + 1
           /\ ssm' = IF wchunk_idx' < Len(wchunks) THEN "WRITE_CHUNK" ELSE "READ_CHUNK"
           /\ UNCHANGED got
  <2>1. ssm' = "WRITE_CHUNK" => wchunk_idx + 1 < ChunkCount(cmd.len)
    BY <1>2, <1>4
  <2>2. Apart' /\ OnlyHead' /\ part' \in Held /\ Len(inq') + Len(ans') <= QueueSize
    BY <1>1, <1>4, <2>1, ChunkLeaves
  <2>3. wchunk_idx' <= ChunkCount(cmd.len)
    BY <1>1, <1>2, <1>4
  <2>4. Accounts'
    BY <1>1, <1>3, <1>4, <2>2, <2>3 DEF LInv, Accounts
  <2>5. Resuming'
    BY <1>1, <1>3 DEF Resuming
  <2> QED BY <2>2, <2>4, <2>5 DEF LInv
<1>5. CASE /\ Receive(wchunks[wchunk_idx + 1]) \/ UNCHANGED sensorVars
           /\ ssm' = "none" /\ got' = Failed /\ UNCHANGED wchunk_idx
  <2>1. Apart' /\ OnlyHead' /\ part' \in Held /\ Len(inq') + Len(ans') <= QueueSize
    BY <1>1, <1>5, ChunkLeaves
  <2>2. Accounts'
    BY <1>1, <1>5, <2>1 DEF LInv, Accounts, Failed, Answer
  <2> QED BY <1>5, <2>1, <2>2 DEF LInv, Resuming
<1> QED BY <1>4, <1>5 DEF on_write_chunk_done, WriteFailed, Complete

\* What any attempt to read, successful or not, does to the answers.
LEMMA Attempts ==
  ASSUME IInv, LInv, on_read_chunk_done
  PROVE  /\ ssm = "READ_CHUNK" /\ next_read.want \in Nat \ {0} /\ rbuf.len + next_read.want <= rmax
         /\ \/ UNCHANGED ans /\ ~ReadAnswered
            \/ /\ ans # <<>> /\ Moved(next_read.want) \in Nat /\ Moved(next_read.want) <= next_read.want
               /\ DropsHead \/ KeepsHead(Moved(next_read.want))
<1>1. ssm = "READ_CHUNK" /\ ans \in Seq(AnswerRests)
  BY DEF on_read_chunk_done, IInv, Shapes
<1>2. next_read.want \in Nat \ {0} /\ rbuf.len + next_read.want <= rmax
  BY <1>1, Asks DEF IInv
<1>3. CASE ans # <<>> /\ ans' \in GiveUp(next_read.want, next_read.wvalue.more)
  BY <1>1, <1>2, <1>3, HeadMoves
<1>4. CASE ~ReadAnswered /\ UNCHANGED ans
  BY <1>1, <1>2, <1>4
<1> QED BY <1>3, <1>4 DEF on_read_chunk_done, ReadAnswered, ReadTimesOut, ReadFails, Wasted

\* A read, its retry and its failure touch the head only, and what the driver
\* holds of it is what was moved (on_read_chunk_done).
LEMMA LineReads == IInv /\ LInv /\ on_read_chunk_done => LInv'
<1> SUFFICES ASSUME IInv, LInv, on_read_chunk_done PROVE LInv'
  OBVIOUS
<1> DEFINE m == Moved(next_read.want)
<1>1. /\ ssm = "READ_CHUNK" /\ UNCHANGED <<cmd, wchunk_idx, rmax, part, inq, strict>>
      /\ ssm' # "WRITE_CHUNK" /\ cmd \in Cmd
  BY DEF on_read_chunk_done, ReadAnswered, ReadTimesOut, ReadFails, Complete, IInv, Shapes
<1>2. \/ UNCHANGED ans /\ ~ReadAnswered
      \/ ans # <<>> /\ m \in Nat /\ m <= next_read.want /\ (DropsHead \/ KeepsHead(m))
  BY Attempts
<1>3. next_read.want \in Nat \ {0} /\ rbuf.len + next_read.want <= rmax
  BY Attempts
<1>4. /\ Len(ans) \in Nat /\ Len(inq) \in Nat /\ DOMAIN ans = 1..Len(ans)
      /\ ans' \in Seq(AnswerRests) /\ Len(ans') \in Nat
      /\ \A i \in DOMAIN ans : ans[i].from \in Nat /\ ans[i].of \in Cmd
  <2>1. ans \in Seq(AnswerRests) /\ inq \in Seq(WholeCommands) /\ Len(ans) \in Nat /\ Len(inq) \in Nat
    BY DEF IInv, Shapes
  <2>2. ans' \in Seq(AnswerRests) /\ Len(ans') \in Nat
    BY ReadsChunk DEF IInv, Shapes
  <2> QED BY <2>1, <2>2 DEF AnswerRests
<1> HIDE DEF m
<1>5. Apart' /\ OnlyHead' /\ Len(ans') <= Len(ans)
  <2>1. CASE UNCHANGED ans
    BY <1>1, <1>4, <2>1 DEF LInv, Apart, OnlyHead
  <2>2. CASE m \in Nat /\ (DropsHead \/ KeepsHead(m))
    BY <1>1, <1>4, <2>2, Reads DEF LInv, IInv
  <2> QED BY <1>2, <2>1, <2>2
<1>6. Len(inq') + Len(ans') <= QueueSize
  <2>1. Len(inq) + Len(ans) <= QueueSize /\ QueueSize \in Nat
    BY LensSane DEF LInv, Accounts
  <2> QED BY <1>1, <1>4, <1>5, <2>1
<1>7. CASE ReadAnswered
  <2>1. /\ ans # <<>> /\ rbuf' = Collected /\ rretries' = 0 /\ 1 \in DOMAIN ans /\ Head(ans) = ans[1]
    BY <1>4, <1>7 DEF ReadAnswered, IInv, Shapes
  <2>2. /\ Collected.len = rbuf.len + m /\ Collected.of \in {ans[1].of, NoCmd}
        /\ Collected \in Held /\ Collected.len <= rmax /\ m \in Nat
        /\ Collected.of = ans[1].of => rbuf.len = ans[1].from
    <3> DEFINE starts == rfirst /\ Head(ans).from = 0
               goeson == rbuf.of = Head(ans).of /\ rbuf.len = Head(ans).from
               c == IF starts \/ (~rfirst /\ goeson) THEN Head(ans).of ELSE NoCmd
    <3>1. Collected = Bytes(c, rbuf.len + m)
      BY DEF Collected, m
    <3>2. m \in Nat /\ m <= next_read.want
      BY <1>2, <1>7
    <3>3. rbuf.len \in Nat /\ rmax \in Nat /\ (rfirst => rbuf.len = 0) /\ rfirst \in BOOLEAN
      BY <1>1 DEF IInv, Buffer
    <3>4. c \in {ans[1].of, NoCmd} /\ c \in Cmd \cup {NoCmd}
      BY <1>4, <2>1
    <3>5. ans[1].of # NoCmd
      BY <1>4, <2>1 DEF Cmd, Numbers, NoCmd
    <3>6. c = ans[1].of => rbuf.len = ans[1].from
      BY <2>1, <3>3, <3>5
    <3> HIDE DEF c
    <3>7. Collected.of = c /\ Collected.len = rbuf.len + m
      BY <3>1 DEF Bytes
    <3>8. rbuf.len + m \in Nat /\ rbuf.len + m <= rmax
      BY <1>3, <3>2, <3>3
    <3>9. Collected \in Held
      BY <3>1, <3>4, <3>8 DEF Bytes, Held
    <3> QED BY <3>2, <3>4, <3>6, <3>7, <3>8, <3>9
  <2>3. got'.of \in Cmd \cup {NoCmd}
    <3>1. got' = got \/ got' = Reply(Collected)
      BY <1>7 DEF ReadAnswered, Complete
    <3>2. Reply(Collected).of \in {Collected.of, NoCmd}
      BY DEF Reply, Answer, Rest
    <3> QED BY <3>1, <3>2, <2>2 DEF LInv, Accounts, Held
  <2>4. Accounts'
    BY <1>1, <1>6, <2>1, <2>2, <2>3, LensSane DEF LInv, Accounts
  <2>5. Resuming'
    <3> SUFFICES /\ \A j \in DOMAIN inq' : inq'[j].of # rbuf'.of
                 /\ \A i \in DOMAIN ans' : ans'[i].of = rbuf'.of => i = 1 /\ rbuf'.len <= ans'[i].from
      BY DEF Resuming
    <3>0. rbuf'.of \in {ans[1].of, NoCmd} /\ rbuf'.len = rbuf.len + m
          /\ (rbuf'.of = ans[1].of => rbuf.len = ans[1].from)
      BY <2>1, <2>2
    <3>1. \A j \in DOMAIN inq : inq[j].of \in Cmd /\ inq[j].of # NoCmd
      BY DEF IInv, Shapes, WholeCommands, Bytes, Cmd, NoCmd, Numbers
    <3>2. \A i \in DOMAIN ans : ans[i].of # NoCmd
      BY <1>4 DEF Cmd, NoCmd, Numbers
    <3>3. \A j \in DOMAIN inq' : inq'[j].of # rbuf'.of
      BY <1>1, <2>1, <3>0, <3>1 DEF LInv, Apart
    <3>4. ASSUME NEW i \in DOMAIN ans', ans'[i].of = rbuf'.of
          PROVE  i = 1 /\ rbuf'.len <= ans'[i].from
      <4>1. CASE DropsHead
        <5>1. i + 1 \in DOMAIN ans /\ ans'[i] = ans[i + 1] /\ i + 1 # 1
          BY <1>4, <4>1 DEF DropsHead
        <5> QED BY <2>1, <3>0, <3>2, <3>4, <5>1 DEF LInv, Apart
      <4>2. CASE KeepsHead(m)
        <5>1. /\ i \in DOMAIN ans /\ ans'[i].of = ans[i].of
              /\ ans'[1].of = ans[1].of /\ ans'[1].from = ans[1].from + m
          BY <1>4, <4>2 DEF KeepsHead, Answer
        <5>2. i = 1
          BY <2>1, <3>0, <3>2, <3>4, <5>1 DEF LInv, Apart
        <5> QED BY <2>1, <1>4, <2>2, <3>0, <3>4, <5>1, <5>2
      <4> QED BY <1>2, <1>7, <4>1, <4>2
    <3> QED BY <3>3, <3>4
  <2> QED BY <1>5, <2>4, <2>5 DEF LInv
<1>8. CASE ReadTimesOut \/ ReadFails
  <2>1. /\ UNCHANGED <<rbuf, rfirst>> /\ (got' = got \/ got' = Failed)
        /\ rretries' \in 0..MaxRetries
    <3>1. rretries \in 0..MaxRetries /\ MaxRetries \in Nat
      BY LensSane DEF LInv, Accounts
    <3>2. CASE ReadTimesOut
      BY <3>1, <3>2 DEF ReadTimesOut
    <3>3. CASE ReadFails
      BY <3>1, <3>3 DEF ReadFails, Complete
    <3> QED BY <1>8, <3>2, <3>3
  <2>2. Accounts'
    BY <1>1, <1>6, <2>1 DEF LInv, Accounts, Failed, Answer
  <2>3. Resuming'
    <3> SUFFICES ASSUME rfirst = FALSE
                 PROVE  /\ \A j \in DOMAIN inq' : inq'[j].of # rbuf'.of
                        /\ \A i \in DOMAIN ans' : ans'[i].of = rbuf'.of => i = 1 /\ rbuf'.len <= ans'[i].from
      BY <2>1 DEF Resuming
    <3>1. /\ \A j \in DOMAIN inq : inq[j].of # rbuf.of
          /\ \A i \in DOMAIN ans : ans[i].of = rbuf.of => i = 1 /\ rbuf.len <= ans[i].from
      BY <1>1 DEF LInv, Resuming
    <3>2. rbuf.len \in Nat
      BY DEF IInv, Buffer
    <3>3. ASSUME NEW i \in DOMAIN ans', ans'[i].of = rbuf.of
          PROVE  i = 1 /\ rbuf.len <= ans'[i].from
      <4>1. CASE DropsHead
        <5>1. i + 1 \in DOMAIN ans /\ ans'[i] = ans[i + 1] /\ i + 1 # 1
          BY <1>4, <4>1 DEF DropsHead
        <5> QED BY <3>1, <3>3, <5>1
      <4>2. CASE m \in Nat /\ KeepsHead(m)
        <5>1. /\ i \in DOMAIN ans /\ ans'[i].of = ans[i].of
              /\ ans'[1].from = ans[1].from + m /\ m >= 1
          BY <1>4, <4>2 DEF KeepsHead, Answer
        <5>2. i = 1 /\ rbuf.len <= ans[i].from
          BY <3>1, <3>3, <5>1
        <5>3. m \in Nat /\ ans[1].from \in Nat
          BY <1>4, <4>2, <5>1, <5>2
        <5>4. rbuf.len <= ans[1].from
          BY <5>2
        <5>5. rbuf.len <= ans[1].from + m
          BY <3>2, <5>3, <5>4
        <5> QED BY <5>1, <5>2, <5>5
      <4>3. CASE UNCHANGED ans
        BY <3>1, <3>3, <4>3
      <4> QED BY <1>2, <4>1, <4>2, <4>3
    <3> QED BY <1>1, <2>1, <3>1, <3>3
  <2> QED BY <1>5, <2>2, <2>3 DEF LInv
<1> QED BY <1>7, <1>8 DEF on_read_chunk_done

\* An answer takes the number of its command, which leaves the queue.
LEMMA SensorExecutesLine == IInv /\ LInv /\ Execute => LInv'
<1> SUFFICES ASSUME IInv, LInv, Execute PROVE LInv'
  OBVIOUS
<1>1. PICK len \in AnsLens : ans' = Append(ans, Answer(Head(inq).of, 0, len))
  BY DEF Execute
<1>2. /\ inq # <<>> /\ inq' = Tail(inq)
      /\ UNCHANGED <<ssm, cmd, wchunk_idx, rmax, rbuf, rfirst, rretries, got, part, strict>>
  BY DEF Execute, ctxVars
<1> DEFINE a == Answer(Head(inq).of, 0, len)
<1>3. ans' = Append(ans, a)
  BY <1>1
<1>4. a.of = Head(inq).of /\ a.from = 0
  BY DEF Answer
<1> HIDE DEF a
<1>5. inq \in Seq(WholeCommands) /\ ans \in Seq(AnswerRests)
  BY DEF IInv, Shapes
<1>6. /\ \A j \in DOMAIN inq' : j + 1 \in DOMAIN inq /\ inq'[j] = inq[j + 1] /\ j + 1 # 1 /\ j \in Int
      /\ 1 \in DOMAIN inq /\ Head(inq) = inq[1] /\ Len(inq') = Len(inq) - 1
  BY <1>2, <1>5
<1>7. /\ \A i \in DOMAIN ans' : \/ i \in DOMAIN ans /\ ans'[i] = ans[i]
                                \/ i = Len(ans) + 1 /\ ans'[i] = a
      /\ Len(ans') = Len(ans) + 1
  BY <1>3, <1>5
<1>8. Accounts'
  <2>1. Len(inq') + Len(ans') = Len(inq) + Len(ans)
    BY <1>5, <1>6, <1>7
  <2> QED BY <1>2, <2>1 DEF LInv, Accounts
<1>9. OnlyHead'
  BY <1>4, <1>7 DEF LInv, OnlyHead
<1>10. Apart'
  <2>1. \A i, j \in DOMAIN ans' : ans'[i].of = ans'[j].of => i = j
    BY <1>4, <1>6, <1>7 DEF LInv, Apart
  <2>2. \A i, j \in DOMAIN inq' : inq'[i].of = inq'[j].of => i = j
    <3> SUFFICES ASSUME NEW i \in DOMAIN inq', NEW j \in DOMAIN inq', inq'[i].of = inq'[j].of PROVE i = j
      OBVIOUS
    <3>1. i + 1 = j + 1 /\ i \in Int /\ j \in Int
      BY <1>6 DEF LInv, Apart
    <3> QED BY <3>1
  <2>3. \A i \in DOMAIN ans', j \in DOMAIN inq' : ans'[i].of # inq'[j].of
    BY <1>4, <1>6, <1>7 DEF LInv, Apart
  <2>4. ssm' = "WRITE_CHUNK" => /\ \A i \in DOMAIN ans' : ans'[i].of # cmd'
                                /\ \A j \in DOMAIN inq' : inq'[j].of # cmd'
    BY <1>2, <1>4, <1>6, <1>7 DEF LInv, Apart
  <2> QED BY <2>1, <2>2, <2>3, <2>4 DEF Apart
<1>11. Resuming'
  <2> SUFFICES ASSUME ssm = "READ_CHUNK", rfirst = FALSE
               PROVE  /\ \A j \in DOMAIN inq' : inq'[j].of # rbuf.of
                      /\ \A i \in DOMAIN ans' : ans'[i].of = rbuf.of => i = 1 /\ rbuf.len <= ans'[i].from
    BY <1>2 DEF Resuming
  <2>1. /\ \A j \in DOMAIN inq : inq[j].of # rbuf.of
        /\ \A i \in DOMAIN ans : ans[i].of = rbuf.of => i = 1 /\ rbuf.len <= ans[i].from
    BY DEF LInv, Resuming
  <2> QED BY <1>4, <1>6, <1>7, <2>1
<1> QED BY <1>8, <1>9, <1>10, <1>11 DEF LInv

-----------------------------------------------------------------------------
(* Round trips *)

\* Three sequences told by their elements.
LEMMA IsAppend ==
  ASSUME NEW S, NEW s \in Seq(S), NEW a \in S, NEW t \in Seq(S), Len(t) = Len(s) + 1,
         \A i \in 1..Len(s) : t[i] = s[i], t[Len(s) + 1] = a
  PROVE  t = Append(s, a)
OBVIOUS

LEMMA IsTail ==
  ASSUME NEW S, NEW s \in Seq(S), s # <<>>, NEW t \in Seq(S), Len(t) = Len(s) - 1,
         \A i \in 1..Len(t) : t[i] = s[i + 1]
  PROVE  t = Tail(s)
OBVIOUS

LEMMA IsSpoilt ==
  ASSUME NEW S, NEW s \in Seq(S), s # <<>>, NEW r \in S, NEW t \in Seq(S), Len(t) = Len(s), t[1] = r,
         \A i \in 1..Len(t) : i > 1 => t[i] = s[i]
  PROVE  t = <<r>> \o Tail(s)
OBVIOUS

\* The unread answers as the round trips see them.
Unread == [i \in DOMAIN ans |-> Seen(i)]
Views  == AnswerRests \cup {Rest}

\* What the round trips see is a sequence of whole answers and parts.
LEMMA UnreadTyped ==
  ASSUME ans \in Seq(AnswerRests)
  PROVE  /\ Unread \in Seq(Views) /\ Len(Unread) = Len(ans) /\ DOMAIN Unread = DOMAIN ans
         /\ DOMAIN ans = 1..Len(ans) /\ Len(ans) \in Nat
         /\ \A i \in DOMAIN ans : Unread[i] = Seen(i) /\ Seen(i) \in Views
<1>1. DOMAIN ans = 1..Len(ans) /\ Len(ans) \in Nat
  OBVIOUS
<1>2. \A i \in DOMAIN ans : Seen(i) \in Views
  <2> SUFFICES ASSUME NEW i \in DOMAIN ans PROVE Seen(i) \in Views
    OBVIOUS
  <2>1. ans[i] \in AnswerRests
    OBVIOUS
  <2>2. Answer(ans[i].of, 0, ans[i].len) \in AnswerRests
    BY <2>1 DEF AnswerRests, Answer
  <2> QED BY <2>2 DEF Seen, Views
<1>3. Unread \in Seq(Views)
  BY <1>1, <1>2 DEF Unread
<1> QED BY <1>1, <1>2, <1>3 DEF Unread

\* Whole answers are seen as they are; of a part it depends on what was read.
LEMMA SeenAs ==
  ASSUME NEW i \in DOMAIN ans
  PROVE  /\ ans[i].from = 0 => Seen(i) = Answer(ans[i].of, 0, ans[i].len)
         /\ Seen(i) \in {Answer(ans[i].of, 0, ans[i].len), Rest}
BY DEF Seen

\* And so it is after a step.
LEMMA UnreadAfter ==
  ASSUME ans' \in Seq(AnswerRests)
  PROVE  /\ Unread' \in Seq(Views) /\ Len(Unread') = Len(ans') /\ DOMAIN Unread' = DOMAIN ans'
         /\ DOMAIN ans' = 1..Len(ans') /\ Len(ans') \in Nat
         /\ \A i \in DOMAIN ans' : Unread'[i] = Seen(i)' /\ Seen(i)' \in Views
<1>1. DOMAIN ans' = 1..Len(ans') /\ Len(ans') \in Nat
  OBVIOUS
<1>2. \A i \in DOMAIN ans' : Seen(i)' \in Views
  <2> SUFFICES ASSUME NEW i \in DOMAIN ans' PROVE Seen(i)' \in Views
    OBVIOUS
  <2>1. ans'[i] \in AnswerRests
    OBVIOUS
  <2>2. Answer(ans'[i].of, 0, ans'[i].len) \in AnswerRests
    BY <2>1 DEF AnswerRests, Answer
  <2> QED BY <2>2 DEF Seen, Views
<1>3. Unread' \in Seq(Views)
  BY <1>1, <1>2 DEF Unread
<1> QED BY <1>1, <1>2, <1>3 DEF Unread

\* It changes with the answers and what the driver holds of them, and with nothing else.
LEMMA SameSeen ==
  ASSUME ans \in Seq(AnswerRests), ans' = ans, \A i \in DOMAIN ans : Seen(i)' = Seen(i)
  PROVE  Unread' = Unread
BY DEF Unread

\* An answer that is gone is gone for the round trips too.
LEMMA DroppedSeen ==
  ASSUME ans \in Seq(AnswerRests), ans' \in Seq(AnswerRests), ans # <<>>, OnlyHead, DropsHead
  PROVE  Unread # <<>> /\ Unread' = Tail(Unread)
<1>1. \A i \in 1..Len(ans') : /\ i \in DOMAIN ans' /\ i \in Int /\ i + 1 \in DOMAIN ans /\ ans'[i] = ans[i + 1]
                              /\ ans[i + 1].from = 0
  <2> SUFFICES ASSUME NEW i \in 1..Len(ans')
               PROVE  /\ i \in DOMAIN ans' /\ i \in Int /\ i + 1 \in DOMAIN ans /\ ans'[i] = ans[i + 1]
                      /\ ans[i + 1].from = 0
    OBVIOUS
  <2>1. i \in DOMAIN ans' /\ i \in Int /\ i + 1 > 1
    OBVIOUS
  <2>2. i + 1 \in DOMAIN ans /\ ans'[i] = ans[i + 1]
    BY <2>1 DEF DropsHead
  <2> QED BY <2>1, <2>2 DEF OnlyHead
<1>2. \A i \in 1..Len(ans') : Unread'[i] = Unread[i + 1]
  <2> SUFFICES ASSUME NEW i \in 1..Len(ans') PROVE Unread'[i] = Unread[i + 1]
    OBVIOUS
  <2>1. Unread'[i] = Seen(i)' /\ Unread[i + 1] = Seen(i + 1)
    BY <1>1, UnreadTyped, UnreadAfter
  <2>2. Seen(i)' = Answer(ans'[i].of, 0, ans'[i].len)
    BY <1>1 DEF Seen
  <2>3. Seen(i + 1) = Answer(ans[i + 1].of, 0, ans[i + 1].len)
    BY <1>1 DEF Seen
  <2> QED BY <1>1, <2>1, <2>2, <2>3
<1>3. /\ Unread \in Seq(Views) /\ Unread' \in Seq(Views) /\ Len(Unread) = Len(ans) /\ Len(Unread') = Len(ans')
      /\ Len(ans') = Len(ans) - 1
  BY UnreadTyped, UnreadAfter DEF DropsHead
<1>4. Unread # <<>>
  BY <1>3
<1> HIDE DEF Unread
<1> QED BY <1>2, <1>3, <1>4, IsTail

\* A part that stays is seen as a part, or as whole when the driver holds the rest.
LEMMA KeptSeen ==
  ASSUME ans \in Seq(AnswerRests), ans' \in Seq(AnswerRests), ans # <<>>, OnlyHead, NEW m \in Nat, KeepsHead(m)
  PROVE  /\ Unread # <<>> /\ Len(Unread') = Len(Unread) /\ 1 \in DOMAIN ans
         /\ ans[1].from + m # 0
         /\ \A i \in DOMAIN ans : i > 1 => Unread'[i] = Unread[i]
         /\ Seen(1)' = Rest => Unread' = <<Rest>> \o Tail(Unread)
         /\ Seen(1)' = Seen(1) => Unread' = Unread
<1>0. /\ Unread \in Seq(Views) /\ Unread' \in Seq(Views) /\ Len(Unread) = Len(ans) /\ Len(Unread') = Len(ans')
      /\ Len(ans') = Len(ans) /\ 1 \in DOMAIN ans /\ DOMAIN ans = 1..Len(ans) /\ DOMAIN ans' = DOMAIN ans
      /\ Unread[1] = Seen(1) /\ Unread'[1] = Seen(1)' /\ Len(ans) \in Nat
  BY UnreadTyped, UnreadAfter DEF KeepsHead
<1>1. ans[1].from + m # 0
  BY <1>0 DEF KeepsHead, AnswerRests
<1>2. \A i \in DOMAIN ans : i > 1 => Unread'[i] = Unread[i]
  <2> SUFFICES ASSUME NEW i \in DOMAIN ans, i > 1 PROVE Unread'[i] = Unread[i]
    OBVIOUS
  <2>1. Unread'[i] = Seen(i)' /\ Unread[i] = Seen(i)
    BY <1>0, UnreadTyped, UnreadAfter
  <2>2. ans'[i] = ans[i] /\ ans[i].from = 0
    BY DEF KeepsHead, OnlyHead
  <2> QED BY <2>1, <2>2 DEF Seen
<1> HIDE DEF Unread
<1>3. Unread # <<>>
  BY <1>0
<1>4. Rest \in Views
  BY DEF Views
<1>5. ASSUME Seen(1)' = Rest PROVE Unread' = <<Rest>> \o Tail(Unread)
  <2>1. Unread'[1] = Rest
    BY <1>0, <1>5
  <2>2. \A i \in 1..Len(Unread') : i > 1 => Unread'[i] = Unread[i]
    BY <1>0, <1>2
  <2>3. Unread \in Seq(Views) /\ Unread' \in Seq(Views) /\ Len(Unread') = Len(Unread)
    BY <1>0
  <2> QED BY <2>1, <2>2, <2>3, <1>3, <1>4, IsSpoilt
<1>6. ASSUME Seen(1)' = Seen(1) PROVE Unread' = Unread
  <2>1. \A i \in 1..Len(Unread) : Unread'[i] = Unread[i]
    BY <1>0, <1>2, <1>6
  <2> QED BY <1>0, <2>1
<1> QED BY <1>0, <1>1, <1>2, <1>3, <1>5, <1>6

\* A step the round trips do not see.
LEMMA TripStutters ==
  ASSUME UNCHANGED <<inq, got, strict>>, Unread' = Unread, (ssm' = "READ_CHUNK") <=> (ssm = "READ_CHUNK")
  PROVE  UNCHANGED Trip!tripVars
BY DEF Trip!tripVars, Unread, Reading

\* Transport starts as a round trip does.
LEMMA TripInitially == ASSUME Init PROVE Trip!Init
<1>1. ans = <<>> /\ ssm = "none" /\ inq = <<>> /\ got = Failed /\ strict \in BOOLEAN
  BY DEF Init
<1>2. Unread = <<>>
  <2>1. ans \in Seq(AnswerRests) /\ Len(ans) = 0
    BY <1>1
  <2>2. Unread \in Seq(Views) /\ Len(Unread) = 0
    BY <2>1, UnreadTyped
  <2> QED BY <2>2
<1> QED BY <1>1, <1>2 DEF Trip!Init, Unread, Reading

\* A new command does not show: its number is not in the sensor yet.
LEMMA TripStarts ==
  ASSUME IInv, verimark_cmd
  PROVE  UNCHANGED Trip!tripVars
<1>1. ssm = "none" /\ ssm' = "WRITE_CHUNK" /\ UNCHANGED <<inq, ans, got, strict>> /\ ans \in Seq(AnswerRests)
  BY DEF verimark_cmd, sensorVars, IInv, Shapes
<1>2. \A i \in DOMAIN ans : Seen(i)' = Seen(i)
  BY <1>1 DEF Seen, Reading
<1> QED BY <1>1, <1>2, SameSeen, TripStutters

\* What the arrival of a chunk is for the round trips: nothing, or a beginning
\* that drops what was there, or the whole command.
LEMMA ChunkTrip ==
  ASSUME IInv, LInv, ssm = "WRITE_CHUNK", Receive(wchunks[wchunk_idx + 1])
  PROVE  LET c == Bytes(cmd, cmd.len)
         IN  \/ ~strict /\ inq' = inq /\ ans' = ans
             \/ strict /\ inq' = <<>> /\ ans' = <<>>
             \/ /\ strict \/ Len(inq) + Len(ans) < QueueSize
                /\ wchunk_idx + 1 = ChunkCount(cmd.len)
                /\ inq' = IF strict THEN <<c>> ELSE Append(inq, c)
                /\ ans' = IF strict THEN <<>> ELSE ans
<1> DEFINE drops == strict /\ wchunk_idx = 0
           queue == IF drops THEN <<>> ELSE inq
           c == Bytes(cmd, cmd.len)
<1>1. /\ ans' = IF drops THEN <<>> ELSE ans
      /\ \/ inq' = queue
         \/ wchunk_idx + 1 = ChunkCount(cmd.len) /\ inq' = Append(queue, c)
  BY ChunkArrives DEF IInv
<1>2. strict => queue = <<>> /\ ans' = <<>>
  BY <1>1 DEF IInv, Dropped, Shapes
<1>3. ~strict => queue = inq /\ ans' = ans
  BY <1>1
<1>4. strict \/ Len(inq) + Len(ans) < QueueSize
  BY DEF Receive
<1> HIDE DEF queue, c, drops
<1>5. Append(<<>>, c) = <<c>>
  OBVIOUS
<1>6. CASE strict
  BY <1>1, <1>2, <1>5, <1>6 DEF c
<1>7. CASE ~strict
  BY <1>1, <1>3, <1>4, <1>7 DEF c
<1> QED BY <1>6, <1>7

\* A chunk begins or completes a write, or does not show (on_write_chunk_done).
LEMMA TripWrites ==
  ASSUME IInv, LInv, on_write_chunk_done
  PROVE  [Trip!Next]_(Trip!tripVars)
<1> DEFINE c == Bytes(cmd, cmd.len)
<1>1. /\ ssm = "WRITE_CHUNK" /\ UNCHANGED <<cmd, rfirst, strict>> /\ rfirst = TRUE
      /\ ans \in Seq(AnswerRests) /\ cmd \in Cmd /\ c \in {Bytes(d, d.len) : d \in Cmd}
  BY DEF on_write_chunk_done, IInv, Shapes, LInv, Accounts
<1>2. ans' = ans => Unread' = Unread
  <2> SUFFICES ASSUME ans' = ans PROVE Unread' = Unread
    OBVIOUS
  <2>1. \A i \in DOMAIN ans : Seen(i)' = Seen(i)
    BY <1>1 DEF Seen, Reading
  <2> QED BY <1>1, <2>1, SameSeen
<1>3. ans' = <<>> => Unread' = <<>>
  <2> SUFFICES ASSUME ans' = <<>> PROVE Unread' = <<>>
    OBVIOUS
  <2>1. ans' \in Seq(AnswerRests) /\ Len(ans') = 0
    OBVIOUS
  <2>2. Unread' \in Seq(Views) /\ Len(Unread') = 0
    BY <2>1, UnreadAfter
  <2> QED BY <2>2
<1>4. Len(Unread) = Len(ans)
  BY <1>1, UnreadTyped
<1> HIDE DEF c
<1>5. ASSUME Receive(wchunks[wchunk_idx + 1])
      PROVE  \/ ~strict /\ inq' = inq /\ Unread' = Unread
             \/ Trip!Begins
             \/ Trip!Arrives(c) /\ wchunk_idx + 1 = ChunkCount(cmd.len)
  <2>1. \/ ~strict /\ inq' = inq /\ ans' = ans
        \/ strict /\ inq' = <<>> /\ ans' = <<>>
        \/ /\ strict \/ Len(inq) + Len(ans) < QueueSize
           /\ wchunk_idx + 1 = ChunkCount(cmd.len)
           /\ inq' = IF strict THEN <<c>> ELSE Append(inq, c)
           /\ ans' = IF strict THEN <<>> ELSE ans
    BY <1>1, <1>5, ChunkTrip DEF c
  <2>2. CASE ~strict /\ inq' = inq /\ ans' = ans
    BY <1>2, <2>2
  <2>3. CASE strict /\ inq' = <<>> /\ ans' = <<>>
    BY <1>3, <2>3 DEF Trip!Begins, Unread
  <2>4. CASE /\ strict \/ Len(inq) + Len(ans) < QueueSize
             /\ wchunk_idx + 1 = ChunkCount(cmd.len)
             /\ inq' = IF strict THEN <<c>> ELSE Append(inq, c)
             /\ ans' = IF strict THEN <<>> ELSE ans
    <3>1. Unread' = IF strict THEN <<>> ELSE Unread
      BY <1>2, <1>3, <2>4
    <3>2. strict \/ Len(inq) + Len(Unread) < QueueSize
      BY <1>4, <2>4
    <3> QED BY <2>4, <3>1, <3>2 DEF Trip!Arrives, Trip!Room, Unread
  <2> QED BY <2>1, <2>2, <2>3, <2>4
<1>6. CASE /\ Receive(wchunks[wchunk_idx + 1]) /\ wchunk_idx' = wchunk_idx + 1
           /\ ssm' = IF wchunk_idx' < Len(wchunks) THEN "WRITE_CHUNK" ELSE "READ_CHUNK"
           /\ UNCHANGED got
  <2>1. Len(wchunks) = ChunkCount(cmd.len) /\ ChunkCount(cmd.len) \in Nat
    <3>1. cmd.len \in Nat
      BY <1>1, LensSane DEF Cmd
    <3> QED BY <3>1, PlanLength, CountOfChunks DEF wchunks
  <2>2. CASE ssm' = "WRITE_CHUNK"
    <3>1. ~(wchunk_idx + 1 = ChunkCount(cmd.len))
      BY <1>6, <2>1, <2>2
    <3>2. CASE ~strict /\ inq' = inq /\ Unread' = Unread
      BY <1>1, <1>6, <2>2, <3>2, TripStutters
    <3>3. CASE Trip!Begins
      <4>1. Trip!Begin
        BY <1>1, <1>6, <2>2, <3>3 DEF Trip!Begin, Reading
      <4> QED BY <4>1 DEF Trip!Next
    <3> QED BY <1>5, <1>6, <3>1, <3>2, <3>3
  <2>3. CASE ssm' = "READ_CHUNK"
    <3>1. Trip!Arrives(c) \/ Trip!Begins \/ (~strict /\ UNCHANGED inq /\ Unread' = Unread)
      BY <1>5, <1>6
    <3>2. Trip!Write(c)
      BY <1>1, <1>6, <2>3, <3>1 DEF Trip!Write, Reading, Unread
    <3> QED BY <1>1, <3>2 DEF Trip!Next
  <2> QED BY <1>6, <2>2, <2>3
<1>7. CASE /\ Receive(wchunks[wchunk_idx + 1]) \/ UNCHANGED sensorVars
           /\ ssm' = "none" /\ got' = Failed
  <2>1. Trip!Arrives(c) \/ Trip!Begins \/ (UNCHANGED inq /\ Unread' = Unread)
    BY <1>2, <1>5, <1>7 DEF sensorVars
  <2>2. Trip!Write(c)
    BY <1>1, <1>7, <2>1 DEF Trip!Write, Reading, Unread
  <2> QED BY <1>1, <2>2 DEF Trip!Next
<1> QED BY <1>6, <1>7 DEF on_write_chunk_done, WriteFailed, Complete

\* Reading is a round trip's read, its retry, or nothing it can see.
LEMMA TripReads ==
  ASSUME IInv, IInv', LInv, on_read_chunk_done
  PROVE  [Trip!Next]_(Trip!tripVars)
<1> DEFINE m == Moved(next_read.want)
<1>1. ssm = "READ_CHUNK" /\ UNCHANGED <<inq, strict>>
  BY DEF on_read_chunk_done
<1>2. \/ UNCHANGED ans /\ ~ReadAnswered
      \/ ans # <<>> /\ m \in Nat /\ (DropsHead \/ KeepsHead(m))
  BY Attempts
<1>3. ans \in Seq(AnswerRests) /\ ans' \in Seq(AnswerRests) /\ OnlyHead
  BY DEF IInv, Shapes, LInv
<1>4. rbuf \in Held /\ rbuf.len \in Nat /\ rfirst \in BOOLEAN /\ (rfirst => rbuf.len = 0)
  BY <1>1 DEF IInv, Buffer, LInv, Accounts
<1>5. DropsHead /\ ans # <<>> => Unread # <<>> /\ Unread' = Tail(Unread)
  BY <1>3, DroppedSeen
<1> HIDE DEF m
<1>6. ASSUME m \in Nat, KeepsHead(m), ans # <<>>
      PROVE  /\ Unread # <<>> /\ 1 \in DOMAIN ans /\ ans[1].from \in Nat
             /\ ans'[1].of = ans[1].of /\ ans'[1].from = ans[1].from + m /\ ans'[1].len = ans[1].len
             /\ ans'[1].from # 0 /\ m >= 1
             /\ Seen(1)' = Rest => Unread' = <<Rest>> \o Tail(Unread)
             /\ Seen(1)' = Seen(1) => Unread' = Unread
  <2>1. /\ Unread # <<>> /\ 1 \in DOMAIN ans /\ ans[1].from + m # 0
        /\ Seen(1)' = Rest => Unread' = <<Rest>> \o Tail(Unread)
        /\ Seen(1)' = Seen(1) => Unread' = Unread
    BY <1>3, <1>6, KeptSeen
  <2>2. /\ ans'[1].of = ans[1].of /\ ans'[1].from = ans[1].from + m /\ ans'[1].len = ans[1].len /\ m >= 1
    BY <1>6 DEF KeepsHead, Answer
  <2>3. ans[1].from \in Nat
    BY <1>3, <2>1 DEF AnswerRests
  <2> QED BY <2>1, <2>2, <2>3
<1>7. CASE ReadAnswered
  <2>1. /\ ans # <<>> /\ m \in Nat /\ (DropsHead \/ KeepsHead(m)) /\ Head(ans) = ans[1] /\ 1 \in DOMAIN ans
        /\ rbuf' = Collected
    BY <1>2, <1>3, <1>7 DEF ReadAnswered
  <2> DEFINE starts == rfirst /\ ans[1].from = 0
             goeson == rbuf.of = ans[1].of /\ rbuf.len = ans[1].from
             held   == starts \/ (~rfirst /\ goeson)
             whole  == Answer(ans[1].of, 0, ans[1].len)
  <2>2. Collected = Bytes(IF held THEN ans[1].of ELSE NoCmd, rbuf.len + m)
    BY <2>1 DEF Collected, m
  <2>3. ans[1].of # NoCmd /\ ans[1].of \in Cmd
    BY <1>3, <2>1 DEF AnswerRests, Cmd, Numbers, NoCmd
  <2>4. held => Seen(1) = whole /\ rbuf.len = ans[1].from
    <3>1. starts => Seen(1) = whole /\ rbuf.len = ans[1].from
      BY <1>4 DEF Seen
    <3>2. ASSUME ~rfirst, goeson PROVE Seen(1) = whole /\ rbuf.len = ans[1].from
      <4>1. rbuf = Bytes(ans[1].of, ans[1].from)
        BY <1>4, <3>2 DEF Held, Bytes
      <4> QED BY <1>1, <3>2, <4>1 DEF Seen, Reading
    <3> QED BY <3>1, <3>2
  <2> HIDE DEF held
  <2>5. Collected.of = (IF held THEN ans[1].of ELSE NoCmd) /\ Collected.len = rbuf.len + m
    BY <2>2 DEF Bytes
  <2>6. CASE Complete(Reply(Collected))
    <3>1. ssm' = "none" /\ got' = Reply(Collected)
      BY <2>6 DEF Complete
    <3>2. got' \in {Seen(1), Rest}
      <4>1. CASE held
        BY <2>1, <2>4, <2>5, <3>1, <4>1 DEF Reply
      <4>2. CASE ~held
        BY <2>5, <3>1, <4>2 DEF Reply
      <4> QED BY <4>1, <4>2
    <3>3. Head(Unread) = Seen(1)
      <4>1. Unread \in Seq(Views) /\ Len(Unread) = Len(ans) /\ Unread[1] = Seen(1) /\ Len(ans) >= 1
        BY <1>3, <2>1, UnreadTyped
      <4> HIDE DEF Unread
      <4> QED BY <4>1
    <3>4. Unread # <<>> /\ Unread' \in {Tail(Unread), <<Rest>> \o Tail(Unread)}
      <4>1. CASE KeepsHead(m)
        <5>1. Seen(1)' = Rest
          BY <1>6, <2>1, <3>1, <4>1 DEF Seen, Reading
        <5> QED BY <1>6, <2>1, <4>1, <5>1
      <4> QED BY <1>5, <2>1, <4>1
    <3>5. Trip!Spoilt
      BY <3>4 DEF Trip!Spoilt, Unread
    <3>6. Trip!Read
      BY <1>1, <3>1, <3>2, <3>3, <3>5 DEF Trip!Read, Reading, Unread
    <3> QED BY <3>6 DEF Trip!Next
  <2>7. CASE rfirst' = FALSE /\ UNCHANGED <<ssm, got>>
    <3>1. CASE DropsHead
      <4>1. Trip!Retry
        BY <1>1, <1>5, <2>1, <2>7, <3>1 DEF Trip!Retry, Trip!Spoilt, Reading, Unread
      <4> QED BY <4>1 DEF Trip!Next
    <3>2. CASE KeepsHead(m) /\ held
      <4>1. rbuf' = Bytes(ans'[1].of, ans'[1].from)
        BY <1>6, <2>1, <2>2, <2>4, <3>2
      <4>2. Seen(1)' = Answer(ans'[1].of, 0, ans'[1].len)
        BY <1>1, <2>7, <4>1 DEF Seen, Reading
      <4>3. Unread' = Unread
        BY <1>6, <2>1, <2>4, <3>2, <4>2
      <4> QED BY <1>1, <2>7, <4>3, TripStutters
    <3>3. CASE KeepsHead(m) /\ ~held
      <4>1. rbuf'.of # ans'[1].of
        BY <1>6, <2>1, <2>3, <2>5, <3>3
      <4>2. rbuf' # Bytes(ans'[1].of, ans'[1].from)
        BY <4>1 DEF Bytes
      <4>3. Seen(1)' = Rest
        BY <1>6, <2>1, <3>3, <4>2 DEF Seen
      <4>4. Unread # <<>> /\ Unread' = <<Rest>> \o Tail(Unread)
        BY <1>6, <2>1, <3>3, <4>3
      <4>5. Trip!Retry
        BY <1>1, <2>7, <4>4 DEF Trip!Retry, Trip!Spoilt, Reading, Unread
      <4> QED BY <4>5 DEF Trip!Next
    <3> QED BY <2>1, <3>1, <3>2, <3>3
  <2> QED BY <1>7, <2>6, <2>7 DEF ReadAnswered
<1>8. CASE ReadTimesOut
  <2>1. UNCHANGED <<ssm, got, rbuf, rfirst>>
    BY <1>8 DEF ReadTimesOut
  <2>2. CASE UNCHANGED ans
    <3>1. \A i \in DOMAIN ans : Seen(i)' = Seen(i)
      BY <2>1, <2>2 DEF Seen, Reading
    <3> QED BY <1>1, <1>3, <2>1, <2>2, <3>1, SameSeen, TripStutters
  <2>3. CASE ans # <<>> /\ DropsHead
    <3>1. Trip!Retry
      BY <1>1, <1>5, <2>1, <2>3 DEF Trip!Retry, Trip!Spoilt, Reading, Unread
    <3> QED BY <3>1 DEF Trip!Next
  <2>4. CASE ans # <<>> /\ m \in Nat /\ KeepsHead(m)
    <3>1. rfirst \/ rbuf # Bytes(ans'[1].of, ans'[1].from)
      <4> SUFFICES ASSUME ~rfirst, rbuf = Bytes(ans'[1].of, ans'[1].from) PROVE FALSE
        OBVIOUS
      <4>1. rbuf.of = ans[1].of /\ rbuf.len = ans[1].from + m
        BY <1>6, <2>4 DEF Bytes
      <4>2. rbuf.len <= ans[1].from
        BY <1>1, <1>4, <1>6, <2>4, <4>1 DEF LInv, Resuming
      <4> QED BY <1>6, <2>4, <4>1, <4>2
    <3>2. Seen(1)' = Rest
      BY <1>6, <2>1, <2>4, <3>1 DEF Seen
    <3>3. Unread # <<>> /\ Unread' = <<Rest>> \o Tail(Unread)
      BY <1>6, <2>4, <3>2
    <3>4. Trip!Retry
      BY <1>1, <2>1, <3>3 DEF Trip!Retry, Trip!Spoilt, Reading, Unread
    <3> QED BY <3>4 DEF Trip!Next
  <2> QED BY <1>2, <2>2, <2>3, <2>4
<1>9. CASE ReadFails
  <2>1. ssm' = "none" /\ got' = Failed
    BY <1>9 DEF ReadFails, Complete
  <2>2. Unread' = Unread \/ Trip!Spoilt
    <3>1. CASE UNCHANGED ans
      <4>1. CASE \A i \in DOMAIN ans : Seen(i)' = Seen(i)
        BY <1>3, <3>1, <4>1, SameSeen
      <4>2. CASE \E i \in DOMAIN ans : Seen(i)' # Seen(i)
        <5>1. PICK i \in DOMAIN ans : Seen(i)' # Seen(i)
          BY <4>2
        <5>2. i = 1 /\ Seen(1)' = Rest
          BY <2>1, <3>1, <5>1 DEF Seen, Reading
        <5>3. /\ Unread \in Seq(Views) /\ Unread' \in Seq(Views) /\ Len(Unread') = Len(Unread)
              /\ DOMAIN ans = 1..Len(Unread) /\ Unread'[1] = Rest /\ 1 \in DOMAIN ans /\ Rest \in Views
          BY <1>3, <3>1, <5>1, <5>2, UnreadTyped, UnreadAfter DEF Views
        <5>4. \A j \in 1..Len(Unread') : j > 1 => Unread'[j] = Unread[j]
          <6> SUFFICES ASSUME NEW j \in DOMAIN ans, j > 1 PROVE Unread'[j] = Unread[j]
            BY <5>3
          <6>1. Unread'[j] = Seen(j)' /\ Unread[j] = Seen(j)
            BY <1>3, <3>1, UnreadTyped, UnreadAfter
          <6> QED BY <3>1, <6>1 DEF Seen
        <5> HIDE DEF Unread
        <5>5. Unread # <<>>
          BY <5>3
        <5>6. Unread' = <<Rest>> \o Tail(Unread)
          BY <5>3, <5>4, <5>5, IsSpoilt
        <5> QED BY <5>5, <5>6 DEF Trip!Spoilt, Unread
      <4> QED BY <4>1, <4>2
    <3>2. CASE ans # <<>> /\ DropsHead
      BY <1>5, <3>2 DEF Trip!Spoilt, Unread
    <3>3. CASE ans # <<>> /\ m \in Nat /\ KeepsHead(m)
      <4>1. Seen(1)' = Rest
        BY <1>6, <2>1, <3>3 DEF Seen, Reading
      <4>2. Unread # <<>> /\ Unread' = <<Rest>> \o Tail(Unread)
        BY <1>6, <3>3, <4>1
      <4> QED BY <4>2 DEF Trip!Spoilt, Unread
    <3> QED BY <1>2, <3>1, <3>2, <3>3
  <2>3. Trip!Read
    BY <1>1, <2>1, <2>2 DEF Trip!Read, Reading, Unread
  <2> QED BY <2>3 DEF Trip!Next
<1> QED BY <1>7, <1>8, <1>9 DEF on_read_chunk_done

\* The sensor executes one command of the round trips.
LEMMA TripExecutes ==
  ASSUME IInv, IInv', Execute
  PROVE  [Trip!Next]_(Trip!tripVars)
<1>1. PICK len \in AnsLens : ans' = Append(ans, Answer(Head(inq).of, 0, len))
  BY DEF Execute
<1> DEFINE a == Answer(Head(inq).of, 0, len)
<1>2. inq # <<>> /\ inq' = Tail(inq) /\ UNCHANGED <<ssm, rbuf, rfirst, got, strict>>
  BY DEF Execute, ctxVars
<1>3. ans \in Seq(AnswerRests) /\ ans' \in Seq(AnswerRests) /\ inq \in Seq(WholeCommands)
  BY DEF IInv, Shapes
<1>4. Head(inq).of \in Cmd
  BY <1>2, <1>3 DEF WholeCommands, Bytes
<1>5. a \in {Answer(c, 0, n) : c \in Cmd, n \in AnsLens} /\ a \in Views /\ a.from = 0
      /\ a = Answer(a.of, 0, a.len)
  BY <1>4, LensSane DEF Answer, Views, AnswerRests
<1>6. ans' = Append(ans, a)
  BY <1>1
<1> HIDE DEF a
<1>7. /\ \A i \in DOMAIN ans : i \in DOMAIN ans' /\ ans'[i] = ans[i]
      /\ Len(ans) + 1 \in DOMAIN ans' /\ ans'[Len(ans) + 1] = a /\ Len(ans') = Len(ans) + 1
  BY <1>3, <1>5, <1>6
<1>8. \A i \in DOMAIN ans : Seen(i)' = Seen(i)
  BY <1>2, <1>7 DEF Seen, Reading
<1>9. PICK k : k = Len(ans) + 1
  OBVIOUS
<1>last. k \in DOMAIN ans' /\ Seen(k)' = a
  <2>1. ans'[k] = a /\ k \in DOMAIN ans'
    BY <1>7, <1>9
  <2> QED BY <1>5, <2>1 DEF Seen
<1>10. Unread' = Append(Unread, a)
  <2>1. /\ Unread \in Seq(Views) /\ Unread' \in Seq(Views) /\ Len(Unread') = Len(Unread) + 1
        /\ DOMAIN ans = 1..Len(Unread) /\ Len(Unread) = Len(ans)
    BY <1>3, <1>7, UnreadTyped, UnreadAfter
  <2>2. \A i \in 1..Len(Unread) : Unread'[i] = Unread[i]
    BY <1>3, <1>7, <1>8, <2>1, UnreadTyped, UnreadAfter
  <2>3. Unread'[Len(Unread) + 1] = a
    <3>1. Unread'[k] = a
      BY <1>3, <1>last, UnreadAfter
    <3> QED BY <1>9, <2>1, <3>1
  <2> HIDE DEF Unread
  <2> QED BY <1>5, <2>1, <2>2, <2>3, IsAppend
<1>11. Trip!Execute(a)
  BY <1>2, <1>10 DEF Trip!Execute, Reading, Unread
<1> QED BY <1>5, <1>11 DEF Trip!Next

-----------------------------------------------------------------------------
(* Types and round trips *)

\* Both invariants hold in every reachable state.
THEOREM LineInvariance == Spec => [](IInv /\ LInv)
<1>1. Init => IInv /\ LInv
  BY Initially, LineInitially
<1>2. IInv /\ LInv /\ IInv' /\ [Next]_vars => LInv'
  <2> SUFFICES ASSUME IInv, LInv, [Next]_vars PROVE LInv'
    OBVIOUS
  <2>1. CASE UNCHANGED vars
    BY <2>1 DEF vars, ctxVars, sensorVars, LInv, Accounts, Apart, OnlyHead, Resuming
  <2> QED
    BY <2>1, LineStarts, LineWrites, LineReads, SensorExecutesLine DEF Next, Transfers
<1> QED
  BY <1>1, <1>2, Invariance, PTL DEF Spec

\* No chunk past the plan is sent, no byte past the budget read, no read tried too
\* often, and the sensor holds no more than its queue (verimark_cmd and its two
\* callbacks).
THEOREM TypeCorrect == Spec => []TypeOK
<1>1. IInv /\ LInv => TypeOK
  <2> SUFFICES ASSUME IInv, LInv PROVE TypeOK
    OBVIOUS
  <2>1. cmd.len \in Nat /\ cmd \in Cmd \cup {NoCmd}
    <3>1. cmd \in Cmd \/ cmd = NoCmd
      BY DEF LInv, Accounts
    <3>2. cmd \in Cmd => cmd.len \in Nat
      BY LensSane DEF Cmd
    <3>3. NoCmd.len \in Nat
      BY DEF NoCmd
    <3> QED BY <3>1, <3>2, <3>3
  <2>2. Len(wchunks) = ChunkCount(cmd.len) /\ ChunkCount(cmd.len) \in Nat
    BY <2>1, PlanLength, CountOfChunks DEF wchunks
  <2>3. wchunk_idx \in 0..Len(wchunks) /\ (ssm = "WRITE_CHUNK" => wchunk_idx < Len(wchunks))
    BY <2>2 DEF IInv, Shapes, LInv, Accounts
  <2>4. rmax \in Nat \ {0} /\ rbuf.len \in 0..rmax /\ (Reading => rbuf.len < rmax)
    BY DEF IInv, Buffer, LInv, Accounts, Reading
  <2>5. ssm \in {"none", "WRITE_CHUNK", "READ_CHUNK"} /\ rfirst \in BOOLEAN /\ rretries \in 0..MaxRetries
    BY DEF IInv, Shapes, Buffer, LInv, Accounts
  <2>6. {part.of} \cup {rbuf.of, got.of} \subseteq Cmd \cup {NoCmd} /\ part.len \in Nat
    BY DEF LInv, Accounts, Held
  <2>7. \A i \in DOMAIN ans : ans[i].of \in Cmd \cup {NoCmd} /\ ans[i].from <= ans[i].len
    BY DEF IInv, Shapes, AnswerRests
  <2> QED BY <2>1, <2>3, <2>4, <2>5, <2>6, <2>7 DEF TypeOK, LInv, Accounts
<1> QED
  BY <1>1, LineInvariance, PTL

\* Chunks, retries, timeouts and failed transfers amount to the round trips that
\* RoundTrip allows, which is what Session assumes of the transport: a part of an
\* answer is never given for a whole one, nor two pieces of different answers.
THEOREM ContractKept == Spec => Contract
<1>1. Init => Trip!Init
  BY TripInitially
<1>2. IInv /\ LInv /\ IInv' /\ [Next]_vars => [Trip!Next]_(Trip!tripVars)
  <2> SUFFICES ASSUME IInv, LInv, IInv', [Next]_vars PROVE [Trip!Next]_(Trip!tripVars)
    OBVIOUS
  <2>1. CASE UNCHANGED vars
    <3>1. Unread' = Unread /\ UNCHANGED <<inq, got, strict, ssm>>
      BY <2>1 DEF vars, ctxVars, sensorVars, Unread, Seen, Reading
    <3> QED BY <3>1, TripStutters
  <2> QED
    BY <2>1, TripStarts, TripWrites, TripReads, TripExecutes DEF Next, Transfers
<1> QED
  BY <1>1, <1>2, LineInvariance, PTL DEF Spec, Contract, Trip!Spec

-----------------------------------------------------------------------------
(* A command runs out of transfers *)

\* A chunk less is a read less.
LEMMA ReadLess ==
  ASSUME NEW x \in Nat, NEW m \in Nat, m > 0, x > m
  PROVE  (x - m + m - 1) \div m <= (x + m - 1) \div m - 1
<1> DEFINE k == (x + m - 1) \div m
           l == ((x - m) + m - 1) \div m
<1>1. x - m \in Nat /\ x - m > 0
  OBVIOUS
<1>2. k \in Nat /\ k >= 1 /\ (k - 1) * m < x /\ x <= k * m
  BY RoundedUp
<1>3. l \in Nat /\ l >= 1 /\ (l - 1) * m < x - m /\ x - m <= l * m
  BY <1>1, RoundedUp
<1> HIDE DEF k, l
<1>4. (k - 1) * m = k * m - m
  BY <1>2
<1>5. l < k
  <2>1. SUFFICES ASSUME k <= l PROVE FALSE
    BY <1>2, <1>3
  <2>2. k - 1 <= l - 1 /\ k - 1 \in Int /\ l - 1 \in Int
    BY <2>1, <1>2, <1>3
  <2>3. (k - 1) * m <= (l - 1) * m /\ (k - 1) * m \in Int /\ (l - 1) * m \in Int
    BY <2>2, Monotone
  <2> QED
    BY <2>3, <1>2, <1>3, <1>4
<1> QED
  BY <1>2, <1>3, <1>5 DEF k, l

\* Reads and retries that are left when there is room for a read.
LEMMA ReadsAreLeft ==
  ASSUME Buffer, ssm # "none"
  PROVE  /\ ReadsLeft \in Nat /\ ReadsLeft >= 1
         /\ ReadsLeft * (MaxRetries + 1) \in Nat
         /\ ReadsLeft * (MaxRetries + 1) >= MaxRetries + 1
<1>1. rmax - rbuf.len \in Nat /\ rmax - rbuf.len > 0
  BY DEF Buffer
<1>2. ReadsLeft \in Nat /\ ReadsLeft >= 1
  BY <1>1, RoundedUp, ChunkSizes DEF ReadsLeft
<1>3. MaxRetries \in Nat
  BY LensSane
<1> HIDE DEF ReadsLeft
<1>4. 1 * (MaxRetries + 1) <= ReadsLeft * (MaxRetries + 1)
  BY <1>2, <1>3, Monotone
<1> QED
  BY <1>2, <1>3, <1>4

\* What a command may still make, in its two states (TransfersLeft).
WorkLeft ==
  ssm # "none" =>
    /\ TransfersLeft \in Nat /\ TransfersLeft >= 1
    /\ ReadsLeft \in Nat /\ ReadsLeft >= 1
    /\ ReadsLeft * (MaxRetries + 1) \in Nat
    /\ ssm = "WRITE_CHUNK" =>
         TransfersLeft = ChunkCount(cmd.len) - wchunk_idx + ReadsLeft * (MaxRetries + 1)
    /\ ssm = "READ_CHUNK" => TransfersLeft = ReadsLeft * (MaxRetries + 1) - rretries

LEMMA TransfersAreLeft == IInv /\ LInv => WorkLeft
<1> SUFFICES ASSUME IInv, LInv, ssm # "none"
             PROVE  WorkLeft
  BY DEF WorkLeft
<1>1. /\ ReadsLeft \in Nat /\ ReadsLeft >= 1
      /\ ReadsLeft * (MaxRetries + 1) \in Nat /\ ReadsLeft * (MaxRetries + 1) >= MaxRetries + 1
  BY ReadsAreLeft DEF IInv
<1>2. MaxRetries \in Nat /\ rretries \in 0..MaxRetries
  BY LensSane DEF LInv, Accounts
<1>3. cmd.len \in Nat
  BY LensSane DEF IInv, Shapes, Cmd
<1>4. Len(wchunks) = ChunkCount(cmd.len) /\ ChunkCount(cmd.len) \in Nat
  BY <1>3, PlanLength, CountOfChunks DEF wchunks
<1>5. CASE ssm = "WRITE_CHUNK"
  <2>1. TransfersLeft = ChunkCount(cmd.len) - wchunk_idx + ReadsLeft * (MaxRetries + 1)
    BY <1>4, <1>5 DEF TransfersLeft
  <2>2. wchunk_idx \in Nat /\ wchunk_idx < ChunkCount(cmd.len)
    BY <1>5 DEF IInv, Shapes
  <2> QED
    BY <1>1, <1>2, <1>4, <1>5, <2>1, <2>2 DEF WorkLeft
<1>6. CASE ssm = "READ_CHUNK"
  <2>1. TransfersLeft = ReadsLeft * (MaxRetries + 1) - rretries
    BY <1>6 DEF TransfersLeft
  <2> QED
    BY <1>1, <1>2, <1>6, <2>1 DEF WorkLeft
<1> QED
  BY <1>5, <1>6 DEF IInv, Shapes

\* A read less is its retries less.
LEMMA ReadsTimesRetries ==
  ASSUME NEW k \in Nat, NEW l \in Nat, l <= k - 1, NEW m \in Nat
  PROVE  l * m \in Nat /\ k * m \in Nat /\ l * m <= k * m - m
<1>1. l * m \in Int /\ l * m <= (k - 1) * m
  BY Monotone
<1> QED
  BY <1>1

\* A chunk that is written is one less to write (on_write_chunk_done).
LEMMA WriteRunsOut ==
  ASSUME IInv, LInv, WorkLeft, LInv', WorkLeft', on_write_chunk_done
  PROVE  TransfersLeft' \in 0..TransfersLeft - 1
<1>1. /\ ssm = "WRITE_CHUNK" /\ ssm # "none" /\ UNCHANGED <<cmd, rmax, rbuf, rretries>>
  BY DEF on_write_chunk_done
<1>2. /\ TransfersLeft \in Nat /\ TransfersLeft >= 1
      /\ TransfersLeft = ChunkCount(cmd.len) - wchunk_idx + ReadsLeft * (MaxRetries + 1)
  BY <1>1 DEF WorkLeft
<1>3. /\ wchunk_idx \in Nat /\ wchunk_idx < ChunkCount(cmd.len) /\ cmd.len \in Nat
  BY <1>1, LensSane DEF IInv, Shapes, Cmd
<1>4. /\ Len(wchunks) = ChunkCount(cmd.len) /\ ChunkCount(cmd.len) \in Nat
      /\ ChunkCount(cmd.len)' = ChunkCount(cmd.len)
  <2>1. cmd.len \in Nat
    BY <1>3
  <2>2. Len(wchunks) = ChunkCount(cmd.len)
    BY <2>1, PlanLength DEF wchunks
  <2>3. ChunkCount(cmd.len) \in 1..ChunksMax
    BY <2>1, CountOfChunks
  <2> QED
    BY <1>1, <2>2, <2>3
<1>5. (ReadsLeft * (MaxRetries + 1))' = ReadsLeft * (MaxRetries + 1)
  BY <1>1 DEF ReadsLeft
<1>6. CASE ssm' = "none"
  <2>1. TransfersLeft' = 0
    BY <1>6 DEF TransfersLeft
  <2> QED
    BY <1>2, <2>1
<1>7. CASE wchunk_idx' = wchunk_idx + 1
           /\ ssm' = IF wchunk_idx' < Len(wchunks) THEN "WRITE_CHUNK" ELSE "READ_CHUNK"
  <2> DEFINE r == ReadsLeft * (MaxRetries + 1)
             c == ChunkCount(cmd.len)
  <2>1. /\ r \in Nat /\ c \in Nat /\ MaxRetries \in Nat /\ r' = r /\ c' = c
        /\ TransfersLeft = c - wchunk_idx + r /\ wchunk_idx < c /\ Len(wchunks) = c
    BY <1>1, <1>2, <1>3, <1>4, <1>5, LensSane DEF WorkLeft
  <2>2. CASE ssm' = "WRITE_CHUNK"
    <3>1. /\ TransfersLeft' \in Nat
          /\ TransfersLeft' = c' - wchunk_idx' + r'
      BY <2>2 DEF WorkLeft
    <3> HIDE DEF r, c
    <3> QED
      BY <1>3, <1>7, <2>1, <3>1
  <2>3. CASE ssm' = "READ_CHUNK"
    <3>1. /\ TransfersLeft' \in Nat
          /\ TransfersLeft' = r - rretries'
      BY <1>5, <2>3 DEF WorkLeft
    <3>2. rretries' \in Nat /\ r \in Nat
      BY <2>1, LensSane DEF LInv, Accounts
    <3>3. \A x, q, y \in Nat : x - q \in Nat /\ y > x => x - q \in 0..y - 1
      OBVIOUS
    <3> HIDE DEF r, c
    <3>4. TransfersLeft \in Nat /\ TransfersLeft > r
      BY <1>3, <2>1
    <3> QED
      BY <3>1, <3>2, <3>3, <3>4
  <2> QED
    BY <1>7, <2>2, <2>3
<1> QED
  BY <1>6, <1>7 DEF on_write_chunk_done, WriteFailed, Complete

\* A read that is answered is a chunk less to read, and its retries make up for
\* no more than that chunk; a read that times out is a retry less
\* (on_read_chunk_done).
LEMMA ReadRunsOut ==
  ASSUME IInv, LInv, WorkLeft, LInv', WorkLeft', on_read_chunk_done
  PROVE  TransfersLeft' \in 0..TransfersLeft - 1
<1>1. ssm = "READ_CHUNK" /\ ssm # "none" /\ UNCHANGED <<cmd, rmax>>
  BY DEF on_read_chunk_done
<1>2. /\ TransfersLeft \in Nat /\ TransfersLeft >= 1
      /\ TransfersLeft = ReadsLeft * (MaxRetries + 1) - rretries
  BY <1>1 DEF WorkLeft
<1>3. /\ MaxRetries \in Nat /\ rretries \in 0..MaxRetries
      /\ ReadsLeft \in Nat /\ ReadsLeft >= 1
  BY <1>1, LensSane DEF WorkLeft, LInv, Accounts
<1>4. CASE ssm' = "none"
  <2>1. TransfersLeft' = 0
    BY <1>4 DEF TransfersLeft
  <2> QED
    BY <1>2, <2>1
<1>5. CASE ReadTimesOut
  <2>1. ssm' = "READ_CHUNK" /\ rbuf' = rbuf /\ rretries' = rretries + 1
    BY <1>1, <1>5 DEF ReadTimesOut
  <2>2. TransfersLeft' \in Nat /\ TransfersLeft' = (ReadsLeft * (MaxRetries + 1))' - rretries'
    BY <2>1 DEF WorkLeft
  <2>3. (ReadsLeft * (MaxRetries + 1))' = ReadsLeft * (MaxRetries + 1)
    BY <1>1, <2>1 DEF ReadsLeft
  <2>4. ReadsLeft * (MaxRetries + 1) \in Nat
    BY <1>3
  <2> QED
    BY <1>2, <1>3, <2>1, <2>2, <2>3, <2>4
<1>6. CASE ReadAnswered /\ ~EndsRead(Moved(next_read.want)) /\ UNCHANGED ssm
  <2> DEFINE want == next_read.want
             x == rmax - rbuf.len
  <2>1. ans # <<>> /\ rbuf' = Collected /\ rretries' = 0 /\ ssm' = "READ_CHUNK"
    BY <1>1, <1>6 DEF ReadAnswered
  <2>2. rbuf'.len = rbuf.len + Moved(want) /\ Moved(want) \in Nat
    BY <1>1, <2>1, Collecting DEF IInv
  <2>3. want = Least(x, MaxChunk) /\ x \in Nat /\ x > 0
    BY <1>1 DEF next_read, verimark_frame_read_chunk_next, IInv, Buffer
  <2>4. ~(Moved(want) < want) /\ ~(rbuf.len + Moved(want) >= rmax)
    BY <1>6 DEF EndsRead
  <2>5. Moved(want) <= want
    BY <1>1, <2>1, <2>3, ChunkSizes DEF Moved, Least, IInv, Shapes, AnswerRests
  <2>6. rmax \in Nat /\ rbuf.len \in Nat /\ MaxChunk \in Nat \ {0}
    BY ChunkSizes DEF IInv, Buffer
  <2> HIDE DEF want
  <2>7. Moved(want) = MaxChunk /\ x > MaxChunk
    BY <2>2, <2>3, <2>4, <2>5, <2>6 DEF Least
  <2>8. ReadsLeft = (x + MaxChunk - 1) \div MaxChunk
    BY DEF ReadsLeft
  <2>9. ReadsLeft' = (x - MaxChunk + MaxChunk - 1) \div MaxChunk
    <3>1. ReadsLeft' = (rmax' - rbuf'.len + MaxChunk - 1) \div MaxChunk
      BY DEF ReadsLeft
    <3>2. rmax' - rbuf'.len = x - MaxChunk
      BY <1>1, <2>2, <2>6, <2>7
    <3> QED
      BY <3>1, <3>2
  <2>10. ReadsLeft' <= ReadsLeft - 1
    <3> HIDE DEF x
    <3> QED
      BY <2>3, <2>6, <2>7, <2>8, <2>9, ReadLess
  <2>11. TransfersLeft' \in Nat /\ TransfersLeft' = (ReadsLeft * (MaxRetries + 1))' - rretries'
    BY <2>1 DEF WorkLeft
  <2>12. ReadsLeft' \in Nat
    BY <2>1 DEF WorkLeft
  <2> HIDE DEF x
  <2>13. /\ ReadsLeft' * (MaxRetries + 1) <= ReadsLeft * (MaxRetries + 1) - (MaxRetries + 1)
         /\ ReadsLeft * (MaxRetries + 1) \in Nat /\ ReadsLeft' * (MaxRetries + 1) \in Nat
    <3> DEFINE m == MaxRetries + 1
    <3>1. m \in Nat
      BY <1>3
    <3> HIDE DEF m
    <3>2. /\ ReadsLeft' * m \in Nat /\ ReadsLeft * m \in Nat
          /\ ReadsLeft' * m <= ReadsLeft * m - m
      BY <1>3, <2>10, <2>12, <3>1, ReadsTimesRetries
    <3> QED
      BY <3>2 DEF m
  <2>14. (ReadsLeft * (MaxRetries + 1))' = ReadsLeft' * (MaxRetries + 1)
    OBVIOUS
  <2> QED
    BY <1>2, <1>3, <2>1, <2>11, <2>13, <2>14
<1> QED
  BY <1>4, <1>5, <1>6 DEF on_read_chunk_done, ReadAnswered, ReadFails, Complete

\* A command makes at most a transfer for each planned chunk, and for each chunk
\* its budget has room for one read and MaxRetries retries, whatever the sensor
\* answers and whichever transfers fail.
THEOREM CommandsRunOut == Spec => TransfersRunOut
<1>1. IInv /\ LInv /\ WorkLeft /\ LInv' /\ WorkLeft' /\ [Next]_vars
        => [ssm # "none" => TransfersLeft' \in 0..TransfersLeft - 1]_<<ssm, ctxVars>>
  <2> SUFFICES ASSUME IInv, LInv, WorkLeft, LInv', WorkLeft', [Next]_vars, ssm # "none",
                      <<ssm, ctxVars>>' # <<ssm, ctxVars>>
               PROVE  TransfersLeft' \in 0..TransfersLeft - 1
    OBVIOUS
  <2>1. ~(UNCHANGED vars) /\ ~Execute /\ ~verimark_cmd
    BY DEF vars, Execute, verimark_cmd
  <2> QED
    BY <2>1, WriteRunsOut, ReadRunsOut DEF Next, Transfers
<1> QED
  BY <1>1, LineInvariance, TransfersAreLeft, PTL DEF Spec, TransfersRunOut
=============================================================================
