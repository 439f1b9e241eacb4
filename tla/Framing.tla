------------------------------- MODULE Framing -------------------------------
(* What becomes of the bytes of a pipe: the JSONL decoder of Pi's stdout      *)
(* (JsonlDecoder.ts), the assembly of chunked frames in front of the RPC      *)
(* connection (RpcChunkAssembler.ts), and the wire between the desktop shell  *)
(* and its backend (DesktopWire.ts).  The three share nothing; each is run on *)
(* its own.                                                                   *)
EXTENDS Naturals, Sequences, FiniteSets, SequencesExt

CONSTANTS
    MaxText,     \* bounds the bytes of a stream
    FrameLimit,  \* the physical limit of a frame, in bytes
    LogicalLimit \* the limit of an assembled frame, in bytes

ASSUME FramingAssumption == {MaxText, FrameLimit, LogicalLimit} \subseteq Nat \ {0}

VARIABLES textPipe, chunkPipe, desktopPipe
framingVars == <<textPipe, chunkPipe, desktopPipe>>

-----------------------------------------------------------------------------
(* JSONL.  A wide character takes two bytes, "head" and "tail".                *)
StreamBytes == {"x", "space", "cr", "lf", "head", "tail"}
Whitespace == {"space", "cr"}

\* The UTF-8 decoder keeps the first byte of a character until the second is there.
DecodeByte(acc, byte) ==
    LET settled == IF acc.held /\ byte # "tail" THEN Append(acc.text, "bad") ELSE acc.text IN
    [held |-> byte = "head",
     text |-> IF byte = "head" THEN settled
              ELSE Append(settled, IF byte # "tail" THEN byte ELSE IF acc.held THEN "wide" ELSE "bad")]

StripTrailingCr(line) == IF line # <<>> /\ Last(line) = "cr" THEN Front(line) ELSE line
RecordOf(line) == IF Range(StripTrailingCr(line)) \subseteq Whitespace THEN <<>> ELSE <<StripTrailingCr(line)>>

\* Every complete line of the buffer is a record; a flush takes the rest too.
TakeChar(acc, char) ==
    IF char = "lf" THEN [rest |-> <<>>, records |-> acc.records \o RecordOf(acc.rest)]
    ELSE [rest |-> Append(acc.rest, char), records |-> acc.records]
ConsumeText(buffer, flush) ==
    LET lines == FoldLeft(TakeChar, [rest |-> <<>>, records |-> <<>>], buffer)
    IN  IF flush THEN [rest |-> <<>>, records |-> lines.records \o RecordOf(lines.rest)] ELSE lines

\* push: data of any size, the first n bytes of what is on its way.
PushText(n) ==
    LET decoded == FoldLeft(DecodeByte, [held |-> textPipe.held, text |-> textPipe.buffer], SubSeq(textPipe.rest, 1, n))
        consumed == ConsumeText(decoded.text, FALSE)
    IN  /\ ~textPipe.ended
        /\ textPipe' = [textPipe EXCEPT !.rest = SubSeq(@, n + 1, Len(@)), !.held = decoded.held,
                                        !.buffer = consumed.rest, !.records = @ \o consumed.records]
        /\ UNCHANGED <<chunkPipe, desktopPipe>>

\* The end of stdout, and again the close of the process; the second does nothing.
EndText ==
    LET buffer == IF textPipe.held THEN Append(textPipe.buffer, "bad") ELSE textPipe.buffer IN
    /\ textPipe.rest = <<>> /\ ~textPipe.ended
    /\ textPipe' = [textPipe EXCEPT !.ended = TRUE, !.held = FALSE, !.buffer = <<>>,
                                    !.records = @ \o ConsumeText(buffer, TRUE).records]
    /\ UNCHANGED <<chunkPipe, desktopPipe>>

-----------------------------------------------------------------------------
(* Chunked frames.  A record is plain, the whole frame <<m>>, or one chunk of  *)
(* frame m; a payload is written as the sequence of its bytes <<m, i>>.        *)
NoChunks == [none |-> TRUE]
Payload(m, from, to) == [i \in 1..to - from + 1 |-> <<m, from + i - 1>>]

\* The metadata must be whole: a name, an index below the count, at least two
\* chunks and no more chunks than bytes.
ValidChunk(c) ==
    /\ c.id # 0
    /\ c.count >= 2 /\ c.index < c.count
    /\ c.length >= 1 /\ c.count <= c.length

WithinLimits(c) == c.size <= FrameLimit /\ c.length <= LogicalLimit
DecodesToBytes(c) == c.data # <<>> /\ c.base64

\* The bytes of every frame but one are those of a JSON object.
OddFrame == 3
IsObject(data) == \A i \in DOMAIN data : data[i][1] # OddFrame

Continues_AnyOrder(partial, c) == partial.id = c.id /\ partial.count = c.count /\ partial.length = c.length

\* What the chunk must continue: the sequence under way, or a new one.
Continues(partial, c) == partial.id = c.id /\ partial.count = c.count /\ partial.length = c.length /\ partial.next = c.index
Begun(partial, c) == IF partial = NoChunks THEN [id |-> c.id, count |-> c.count, length |-> c.length, next |-> 0, data |-> <<>>]
                     ELSE partial

\* push: the new state of the assembler, the frame it yields, and whether it
\* throws.  A chunk that is refused before it is added leaves the sequence as it is.
AssembleChunk(partial, c) ==
    LET begun == Begun(partial, c)
        grown == [begun EXCEPT !.data = @ \o c.data, !.next = @ + 1]
        fails(state) == [pending |-> state, yields |-> <<>>, throws |-> TRUE]
    IN  IF ~c.chunk THEN [pending |-> partial, yields |-> IF partial = NoChunks THEN <<c.data>> ELSE <<>>, throws |-> partial # NoChunks]
        ELSE IF ~ValidChunk(c) \/ ~WithinLimits(c) \/ ~DecodesToBytes(c) \/ (partial = NoChunks /\ c.index # 0) THEN fails(partial)
        ELSE IF ~Continues(begun, c) THEN fails(begun)
        ELSE IF Len(grown.data) > grown.length THEN fails(grown)
        ELSE IF grown.next < grown.count THEN [pending |-> grown, yields |-> <<>>, throws |-> FALSE]
        ELSE IF Len(grown.data) # grown.length THEN fails(grown)
        ELSE IF ~IsObject(grown.data) THEN fails(NoChunks)
        ELSE [pending |-> NoChunks, yields |-> <<grown.data>>, throws |-> FALSE]

\* handleRecord: an error is fatal for the connection, the records behind it
\* are still handled until the process has ended.
HandleFrame ==
    LET assembled == AssembleChunk(chunkPipe.pending, Head(chunkPipe.rest)) IN
    /\ chunkPipe.rest # <<>>
    /\ chunkPipe' = [chunkPipe EXCEPT !.rest = Tail(@), !.pending = assembled.pending,
                                      !.delivered = @ \o assembled.yields, !.fatal = @ \/ assembled.throws]
    /\ UNCHANGED <<textPipe, desktopPipe>>

-----------------------------------------------------------------------------
(* The desktop wire: frames of at most FrameLimit bytes, both ways.            *)
WireBytes == {"y", "bad", "lf"}
ParsesAsJson(line) == line # <<>> /\ "bad" \notin Range(line)

DisconnectWire(state) == IF state.closed THEN state ELSE [state EXCEPT !.closed = TRUE, !.disconnects = @ + 1]

\* The lines of the buffer are emitted until one is too long or does not parse.
TakeByte(acc, byte) ==
    IF acc.failed THEN acc
    ELSE IF byte # "lf" THEN [acc EXCEPT !.rest = Append(@, byte)]
    ELSE IF Len(acc.rest) > FrameLimit \/ ~ParsesAsJson(acc.rest) THEN [acc EXCEPT !.failed = TRUE]
    ELSE [acc EXCEPT !.rest = <<>>, !.packets = Append(@, acc.rest)]
ReadLines(buffer) ==
    LET read == FoldLeft(TakeByte, [rest |-> <<>>, packets |-> <<>>, failed |-> FALSE], buffer)
    IN  [read EXCEPT !.failed = @ \/ Len(read.rest) > FrameLimit]

ReceiveData(n) ==
    LET data == SubSeq(desktopPipe.rest, 1, n)
        read == ReadLines(desktopPipe.buffer \o data)
        taken == [desktopPipe EXCEPT !.rest = SubSeq(@, n + 1, Len(@))]
        emitted == [taken EXCEPT !.buffer = read.rest, !.packets = @ \o read.packets]
    IN  /\ desktopPipe.input = "open"
        /\ desktopPipe' = IF desktopPipe.closed THEN taken ELSE IF read.failed THEN DisconnectWire(emitted) ELSE emitted
        /\ UNCHANGED <<textPipe, chunkPipe>>

\* The end of the input announces a disconnection, also after a failure did.
EndInput ==
    /\ desktopPipe.input = "open" /\ desktopPipe.rest = <<>>
    /\ desktopPipe' = [desktopPipe EXCEPT !.input = "ended", !.closed = TRUE, !.disconnects = @ + 1]
    /\ UNCHANGED <<textPipe, chunkPipe>>

\* An error of the input, after which nothing comes, or of the output.
StreamFails(input) ==
    /\ desktopPipe.input = "open"
    /\ desktopPipe' = DisconnectWire([desktopPipe EXCEPT !.input = input])
    /\ UNCHANGED <<textPipe, chunkPipe>>

\* send: a message that is too large is refused; the queue holds two frames'
\* worth of bytes, and one more closes the wire.
SumOf(sizes) == FoldLeft(+, 0, sizes)
SendPacket(size) ==
    LET fits == size <= FrameLimit
        full == desktopPipe.queued + size + 1 > 2 * FrameLimit
    IN  /\ Len(desktopPipe.sent) < 3
        /\ desktopPipe' = IF desktopPipe.closed \/ ~fits THEN [desktopPipe EXCEPT !.sent = Append(@, "refused")]
                          ELSE IF full THEN DisconnectWire([desktopPipe EXCEPT !.sent = Append(@, "refused")])
                          ELSE [desktopPipe EXCEPT !.sent = Append(@, "queued"), !.queued = @ + size + 1,
                                                   !.writes = Append(@, size + 1)]
        /\ UNCHANGED <<textPipe, chunkPipe>>

\* The write of the oldest frame ends; after one that failed the others follow.
WriteEnds(ok) ==
    LET sentOut == [desktopPipe EXCEPT !.queued = @ - Head(desktopPipe.writes), !.writes = Tail(@),
                                       !.written = IF ok THEN @ + 1 ELSE @]
    IN  /\ desktopPipe.writes # <<>>
        /\ desktopPipe' = IF ok THEN sentOut ELSE DisconnectWire(sentOut)
        /\ UNCHANGED <<textPipe, chunkPipe>>

-----------------------------------------------------------------------------
(* What arrives: any text, and frames written by a peer that may err once.     *)
IdleText == [rest |-> <<>>, whole |-> <<>>, held |-> FALSE, buffer |-> <<>>, ended |-> FALSE, records |-> <<>>]
IdleChunks == [rest |-> <<>>, frames |-> <<>>, sound |-> TRUE, pending |-> NoChunks, delivered |-> <<>>, fatal |-> FALSE]
IdleWire == [rest |-> <<>>, whole |-> <<>>, buffer |-> <<>>, closed |-> FALSE, disconnects |-> 0, packets |-> <<>>,
             input |-> "open", sent |-> <<>>, queued |-> 0, writes |-> <<>>, written |-> 0]

\* Frame m of n bytes, written plainly or cut into chunks of the given sizes.
PlainFrame(m) == <<[chunk |-> FALSE, data |-> <<<<m, 1>>>>]>>
ChunkedFrame(m, sizes) ==
    [i \in 1..Len(sizes) |->
        LET from == 1 + SumOf(SubSeq(sizes, 1, i - 1)) IN
        [chunk |-> TRUE, id |-> m, index |-> i - 1, count |-> Len(sizes), length |-> SumOf(sizes), size |-> sizes[i],
         base64 |-> TRUE, data |-> Payload(m, from, from + sizes[i] - 1)]]
Cuts == UNION {[1..n -> 1..FrameLimit + 1] : n \in 1..3}
FirstWritings == {PlainFrame(1)} \union {ChunkedFrame(1, sizes) : sizes \in Cuts}
SecondWritings ==
    {PlainFrame(2), ChunkedFrame(2, <<1, 1>>), ChunkedFrame(2, <<FrameLimit, FrameLimit>>), ChunkedFrame(OddFrame, <<1, 1>>)}

\* One mistake of the peer: records that are missing or repeated, or a chunk
\* whose description or payload is wrong.
Mistaken(c) ==
    IF ~c.chunk THEN {}
    ELSE {[c EXCEPT !.id = 0], [c EXCEPT !.base64 = FALSE], [c EXCEPT !.data = <<>>]}
         \union {[c EXCEPT !.count = k] : k \in 1..4} \union {[c EXCEPT !.index = k] : k \in 0..3}
         \union {[c EXCEPT !.length = k] : k \in 0..LogicalLimit + 1}
Mistakes(records) ==
    LET n == Len(records) IN
    {SubSeq(records, 1, i - 1) \o SubSeq(records, j + 1, n) : i, j \in 1..n}
        \union {InsertAt(records, i, records[j]) : i \in 1..n, j \in 1..n}
        \union UNION {{[records EXCEPT ![i] = c] : c \in Mistaken(records[i])} : i \in 1..n}

FramingStarts ==
    \/ /\ \E text \in BoundedSeq(StreamBytes, MaxText) : textPipe = [IdleText EXCEPT !.rest = text, !.whole = text]
       /\ chunkPipe = IdleChunks /\ desktopPipe = IdleWire
    \/ /\ \E first \in FirstWritings, second \in SecondWritings :
              LET records == first \o second IN
              \E damage \in {records} \union Mistakes(records) :
                 chunkPipe = [IdleChunks EXCEPT !.rest = damage, !.frames = <<first, second>>, !.sound = damage = records]
       /\ textPipe = IdleText /\ desktopPipe = IdleWire
    \/ /\ \E text \in BoundedSeq(WireBytes, MaxText) : desktopPipe = [IdleWire EXCEPT !.rest = text, !.whole = text]
       /\ textPipe = IdleText /\ chunkPipe = IdleChunks

\* An idle pipe stays idle: nothing is on its way in it.
FramingSteps ==
    \/ \E n \in 1..Len(textPipe.rest) : PushText(n)
    \/ textPipe.whole # <<>> /\ EndText
    \/ HandleFrame
    \/ \E n \in 1..Len(desktopPipe.rest) : ReceiveData(n)
    \/ desktopPipe.whole # <<>> /\ EndInput
    \/ desktopPipe.whole # <<>> /\ \E input \in {"open", "failed"} : StreamFails(input)
    \/ desktopPipe.whole # <<>> /\ \E size \in 1..FrameLimit + 1 : SendPacket(size)
    \/ \E ok \in BOOLEAN : WriteEnds(ok)

-----------------------------------------------------------------------------
FramingTypes ==
    /\ textPipe.held \in BOOLEAN /\ textPipe.ended \in BOOLEAN /\ textPipe.rest \in Seq(StreamBytes)
    /\ textPipe.buffer \in Seq((StreamBytes \ {"lf", "head", "tail"}) \union {"wide", "bad"})
    /\ chunkPipe.fatal \in BOOLEAN /\ chunkPipe.sound \in BOOLEAN
    /\ chunkPipe.pending = NoChunks \/ chunkPipe.pending.next <= chunkPipe.pending.count
    /\ desktopPipe.closed \in BOOLEAN /\ desktopPipe.disconnects \in 0..2
    /\ desktopPipe.input \in {"open", "ended", "failed"} /\ desktopPipe.sent \in Seq({"refused", "queued"})

\* However the stream is cut into data events, the records are the lines of the
\* bytes received so far, decoded as a whole: no character is broken by a cut, no
\* line lost, and the end of the stream gives up its last line, once
\* (JsonlDecoder.ts:5-7 and the SPEC of pi-rpc).
LinesOf(bytes) ==
    LET ends == {i \in DOMAIN bytes : bytes[i] = "lf"}
        Start(i) == IF \E j \in ends : j < i THEN 1 + CHOOSE j \in ends : j < i /\ \A k \in ends : k < i => k <= j ELSE 1
    IN  [e \in ends |-> SubSeq(bytes, Start(e), e - 1)]
Decoded(bytes) ==
    LET pairs == {i \in DOMAIN bytes : bytes[i] = "head" /\ i < Len(bytes) /\ bytes[i + 1] = "tail"} IN
    FlattenSeq([i \in DOMAIN bytes |-> IF i \in pairs THEN <<"wide">>
                                       ELSE IF bytes[i] = "tail" /\ i - 1 \in pairs THEN <<>>
                                       ELSE <<IF bytes[i] \in {"head", "tail"} THEN "bad" ELSE bytes[i]>>])
RecordsWhole ==
    LET received == SubSeq(textPipe.whole, 1, Len(textPipe.whole) - Len(textPipe.rest))
        closed == IF textPipe.ended THEN Append(received, "lf") ELSE received
        lines == LinesOf(closed)
    IN  textPipe.records = FlattenSeq([i \in DOMAIN closed |-> IF i \in DOMAIN lines THEN RecordOf(Decoded(lines[i])) ELSE <<>>])

\* Whatever single mistake the peer makes, before and after the error is fatal,
\* what is delivered is a whole frame: each byte of it once and in its place, and
\* nothing of another frame.  Two frames within the limits, written correctly,
\* both arrive in their order and are no error, and a frame beyond the limits
\* never arrives (RpcChunkAssembler.ts:27, :58-62).
BytesOf(records) == FlattenSeq([i \in DOMAIN records |-> records[i].data])
Deliverable(records) ==
    \/ ~records[1].chunk
    \/ Len(records) > 1 /\ IsObject(BytesOf(records)) /\ \A i \in DOMAIN records : WithinLimits(records[i])
FramesWhole ==
    LET emitted == [i \in DOMAIN chunkPipe.frames |-> BytesOf(chunkPipe.frames[i])]
        due == FlattenSeq([i \in DOMAIN emitted |-> IF Deliverable(chunkPipe.frames[i]) THEN <<emitted[i]>> ELSE <<>>])
    IN  /\ \A i \in DOMAIN chunkPipe.delivered : \E j \in DOMAIN due : chunkPipe.delivered[i] = due[j]
        /\ chunkPipe.sound /\ Len(due) = 2 => ~chunkPipe.fatal /\ IsPrefix(chunkPipe.delivered, due)
        /\ chunkPipe.sound /\ Len(due) = 2 /\ chunkPipe.rest = <<>> => chunkPipe.delivered = due
        /\ ~chunkPipe.fatal /\ chunkPipe.pending # NoChunks => Len(chunkPipe.pending.data) <= LogicalLimit

\* The backend hears exactly the frames before the first one that is too long or
\* does not parse, a frame at the limit included; the bytes it holds back to
\* write never exceed two frames, and every frame it accepted to send is
\* written unless a write failed (DesktopWire.ts:7, :32).
WirePackets ==
    LET received == SubSeq(desktopPipe.whole, 1, Len(desktopPipe.whole) - Len(desktopPipe.rest))
        lines == LinesOf(received)
        Fine(line) == Len(line) <= FrameLimit /\ ParsesAsJson(line)
    IN  FlattenSeq([i \in DOMAIN received |->
            IF i \in DOMAIN lines /\ \A j \in DOMAIN lines : j <= i => Fine(lines[j]) THEN <<lines[i]>> ELSE <<>>])
WireHonest ==
    LET accepted == Cardinality({i \in DOMAIN desktopPipe.sent : desktopPipe.sent[i] = "queued"}) IN
    /\ IsPrefix(desktopPipe.packets, WirePackets)
    /\ ~desktopPipe.closed => desktopPipe.packets = WirePackets
    /\ desktopPipe.queued = SumOf(desktopPipe.writes) /\ desktopPipe.queued <= 2 * FrameLimit
    /\ ~desktopPipe.closed => desktopPipe.written + Len(desktopPipe.writes) = accepted

\* The three promises together.
FramingHonest == RecordsWhole /\ FramesWhole /\ WireHonest
=============================================================================
