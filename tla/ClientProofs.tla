---------------------------- MODULE ClientProofs ----------------------------
(***************************************************************************)
(* Proofs about the LLM clients: their streamed answers, for bodies of any *)
(* length, and the agent's exchange with them, for any number of questions *)
(* and any tools.                                                          *)
(***************************************************************************)
EXTENDS LLMStream, Providers, SequenceTheorems, WellFoundedInduction, TLAPS

\* The texts up to the next entry are those before it and its own.
LEMMA NextText ==
  ASSUME body \in Seq(Entry), NEW n \in 1..Len(body)
  PROVE  TextsUpTo(n) = TextsUpTo(n - 1) \cup ChunkOf(n).text
<1>1. ChunkOf(n).text = IF body[n].text THEN {n} ELSE {}
  BY DEF ChunkOf, Chunk
<1>2. Len(body) \in Nat /\ n \in Nat /\ n > 0
  OBVIOUS
<1>3. \A i : i \in 1..n <=> i \in 1..(n - 1) \/ i = n
  BY <1>2
<1>4. QED
  BY <1>1, <1>2, <1>3 DEF TextsUpTo

\* A chunk of the body is one the reader can receive, and not an error.
LEMMA ChunkOfFacts ==
  ASSUME body \in Seq(Entry), NEW n \in 1..Len(body)
  PROVE  /\ ChunkOf(n) \in Chunks /\ ~ChunkOf(n).err
         /\ ChunkOf(n).done = body[n].finish
         /\ ChunkOf(n).text \subseteq {n}
         /\ body[n].finish \in BOOLEAN /\ body[n].text \in BOOLEAN
<1>1. body[n] \in Entry
  OBVIOUS
<1>2. body[n].finish \in BOOLEAN /\ body[n].text \in BOOLEAN
  <2>1. CASE body[n] \in [kind : {"delta"}, text : BOOLEAN, finish : BOOLEAN]
    BY <2>1
  <2>2. CASE body[n] \in [kind : {"other", "bad"}, text : {FALSE}, finish : {FALSE}]
    <3>1. body[n].text \in {FALSE} /\ body[n].finish \in {FALSE}
      BY <2>2
    <3>2. {FALSE} \subseteq BOOLEAN
      OBVIOUS
    <3>3. QED
      BY <3>1, <3>2, Zenon
  <2>3. QED
    BY <1>1, <2>1, <2>2 DEF Entry
<1>3. ChunkOf(n) = [text |-> IF body[n].text THEN {n} ELSE {}, done |-> body[n].finish, err |-> FALSE]
  BY DEF ChunkOf, Chunk
<1>4. (IF body[n].text THEN {n} ELSE {}) \in SUBSET Nat
  OBVIOUS
<1>5. QED
  BY <1>2, <1>3, <1>4 DEF Chunks

\* The chunk that reports an error carries nothing else.
LEMMA ErrorChunkFacts ==
  ErrorChunk \in Chunks /\ ErrorChunk.err /\ ~ErrorChunk.done /\ ErrorChunk.text = {}
BY DEF ErrorChunk, Chunk, Chunks

\* As long as the reader gets nothing and the body is the same, what it has read is
\* judged as before.
LEMMA SameRead ==
  ASSUME DoneMeansAll, UNCHANGED <<got, body, client>>
  PROVE  DoneMeansAll'
BY DEF DoneMeansAll, Ends, Read, TextsUpTo

\* The goroutine starts with the first entry; gemini has its only chunk in hand.
LEMMA StreamOpenInv ==
  ASSUME StreamInv, StreamOpen \/ StreamAtOnce
  PROVE  StreamInv'
<1>1. got = <<>> /\ pos = 0 /\ late = 0 /\ streamAt = "idle" /\ hand = NoChunk
  <2>1. streamAt = "idle"
    BY DEF StreamOpen, StreamAtOnce
  <2>2. got = <<>> /\ pos = 0
    BY <2>1 DEF StreamInv, NothingSkipped
  <2>3. late \in 0..Len(<<>>)
    BY <2>2 DEF StreamInv, StreamTypeOK
  <2>4. QED
    BY <2>1, <2>2, <2>3 DEF StreamInv, StreamTypeOK
<1>2. UNCHANGED <<client, got, reading, ctxDone, late>> /\ body' \in Bodies
  BY DEF StreamOpen, StreamAtOnce
<1>3. body' \in Seq(Entry) /\ Len(body') \in Nat
  <2>1. PICK n \in 0..MaxEntries : body' \in [1..n -> Entry]
    BY <1>2 DEF Bodies
  <2>2. QED
    BY <2>1, StreamAssumption
<1>4. DoneMeansAll' /\ OneAfterCancel' /\ LookIsNext'
  <2>1. got' = <<>> /\ late' = 0 /\ DOMAIN <<>> = {}
    BY <1>1, <1>2
  <2>2. DoneMeansAll'
    BY <2>1 DEF DoneMeansAll
  <2>3. QED
    BY <2>1, <2>2 DEF OneAfterCancel, LookIsNext
<1>5. CASE StreamOpen
  <2>1. /\ pos' = 0 /\ hand' = NoChunk /\ client # "gemini"
        /\ streamAt' = IF client = "ollama" THEN "decode" ELSE "check"
    BY <1>1, <1>5 DEF StreamOpen, LoopTop
  <2>2. StreamTypeOK'
    BY <1>1, <1>2, <1>3, <2>1 DEF StreamInv, StreamTypeOK
  <2>3. Handed' = 0
    BY <1>2, <2>1 DEF Handed
  <2>4. NothingSkipped'
    <3>1. got' = <<>> /\ Len(got') = 0 /\ DOMAIN got' = {}
      BY <1>1, <1>2
    <3>2. Read(Len(got))' = {} /\ TextsUpTo(Handed)' = {}
      BY <2>3, <3>1 DEF Read, TextsUpTo
    <3>3. Handed' \in 0..Len(body')
      BY <1>3, <2>3
    <3>4. \A n \in 1..Handed' : FALSE
      BY <2>3
    <3>5. streamAt' \notin {"send", "last", "idle"} /\ client' # "gemini"
      BY <1>2, <2>1
    <3>6. QED
      BY <3>1, <3>2, <3>3, <3>4, <3>5 DEF NothingSkipped
  <2>5. QED
    BY <1>4, <2>2, <2>4 DEF StreamInv
<1>6. CASE StreamAtOnce
  <2>1. /\ client = "gemini" /\ pos' = Len(body') /\ streamAt' = "last"
        /\ hand' = Chunk(TextsUpTo(Len(body))', TRUE, FALSE)
    BY <1>6 DEF StreamAtOnce
  <2>2. TextsUpTo(Len(body))' \in SUBSET Nat
    BY DEF TextsUpTo
  <2>3. hand' \in Chunks /\ ~hand'.err
    BY <2>1, <2>2 DEF Chunk, Chunks
  <2>4. StreamTypeOK'
    <3>1. pos' \in 0..Len(body') /\ got' \in Seq(Chunks) /\ late' \in 0..Len(got')
      BY <1>2, <1>3, <2>1 DEF StreamInv, StreamTypeOK
    <3>2. QED
      BY <1>2, <1>3, <2>1, <2>3, <3>1 DEF StreamInv, StreamTypeOK
  <2>5. NothingSkipped'
    BY <1>1, <1>2, <2>1, <2>3 DEF NothingSkipped
  <2>6. QED
    BY <1>4, <2>4, <2>5 DEF StreamInv
<1>7. QED
  BY <1>5, <1>6

\* A look at the context ends the stream with an error or goes on to the next entry.
LEMMA CheckContextInv ==
  ASSUME StreamInv, CheckContext
  PROVE  StreamInv'
<1>1. /\ streamAt = "check" /\ client # "ollama"
      /\ UNCHANGED <<client, body, pos, got, reading, ctxDone, late>>
      /\ \/ ctxDone /\ streamAt' = "last" /\ hand' = ErrorChunk
         \/ ~ctxDone /\ streamAt' = "decode" /\ hand' = hand
  BY DEF CheckContext
<1>2. StreamTypeOK'
  BY <1>1, ErrorChunkFacts DEF StreamInv, StreamTypeOK
<1>3. DoneMeansAll' /\ OneAfterCancel'
  BY <1>1, SameRead DEF StreamInv, OneAfterCancel
<1>4. LookIsNext'
  BY <1>1, ErrorChunkFacts DEF StreamInv, StreamTypeOK, LookIsNext
<1>5. NothingSkipped'
  <2>1. client # "gemini"
    BY <1>1 DEF StreamInv, NothingSkipped
  <2>2. Running /\ (Running' => streamAt' = "decode" /\ Handed' = Handed)
    BY <1>1, ErrorChunkFacts DEF Running, Handed
  <2>3. Read(Len(got))' = Read(Len(got)) /\ (Handed' = Handed => TextsUpTo(Handed)' = TextsUpTo(Handed))
    BY <1>1 DEF Read, TextsUpTo
  <2>4. QED
    BY <1>1, <2>1, <2>2, <2>3 DEF StreamInv, NothingSkipped
<1>6. QED
  BY <1>2, <1>3, <1>4, <1>5 DEF StreamInv

\* The end of the body, a failed request, an error in the body, and what reader and
\* context do on their own.
LEMMA StreamStopsInv ==
  ASSUME StreamInv,
         \/ StreamRefused \/ DecodeEnd \/ DecodeError \/ ScanEnd
         \/ ReaderLeaves \/ CancelContext \/ UNCHANGED streamVars
  PROVE  StreamInv'
<1>1. /\ UNCHANGED <<client, body, pos, got, late>> /\ reading' \in BOOLEAN /\ ctxDone' \in BOOLEAN
      /\ ctxDone => ctxDone'
      /\ \/ streamAt = "idle" /\ streamAt' = "refused" /\ hand' = hand
         \/ streamAt = "decode" /\ streamAt' = "closed" /\ hand' = hand
         \/ streamAt = "decode" /\ streamAt' = "last" /\ hand' = ErrorChunk
         \/ streamAt' = streamAt /\ hand' = hand
  BY DEF StreamRefused, DecodeEnd, DecodeError, ScanEnd, ReaderLeaves, CancelContext, streamVars,
         StreamInv, StreamTypeOK
<1>2. StreamTypeOK'
  BY <1>1, ErrorChunkFacts DEF StreamInv, StreamTypeOK
<1>3. DoneMeansAll' /\ OneAfterCancel'
  BY <1>1, SameRead DEF StreamInv, OneAfterCancel
<1>4. LookIsNext'
  BY <1>1, ErrorChunkFacts DEF StreamInv, StreamTypeOK, LookIsNext
<1>5. NothingSkipped'
  <2>1. Running' => Running /\ Handed' = Handed /\ streamAt' = streamAt /\ hand' = hand
    BY <1>1, ErrorChunkFacts DEF Running, Handed
  <2>2. /\ Read(Len(got))' = Read(Len(got)) /\ TextsUpTo(Len(body))' = TextsUpTo(Len(body))
        /\ Handed' = Handed => TextsUpTo(Handed)' = TextsUpTo(Handed)
        /\ ChunkOf(pos)' = ChunkOf(pos)
    BY <1>1 DEF Read, TextsUpTo, ChunkOf
  <2>3. client = "gemini" => streamAt # "decode"
    BY DEF StreamInv, NothingSkipped
  <2>4. streamAt' = "last" /\ hand'.err => hand' = ErrorChunk
    BY <1>1 DEF StreamInv, NothingSkipped
  <2>5. client = "gemini" =>
          /\ streamAt' \in {"idle", "last", "closed", "refused"}
          /\ streamAt' # "closed" => got' = <<>>
          /\ streamAt' = "last" => hand' = Chunk(TextsUpTo(Len(body))', TRUE, FALSE)
    BY <1>1, <2>2, <2>3 DEF StreamInv, NothingSkipped
  <2>6. QED
    BY <1>1, <2>1, <2>2, <2>4, <2>5 DEF StreamInv, NothingSkipped
<1>6. QED
  BY <1>2, <1>3, <1>4, <1>5 DEF StreamInv

\* An entry is decoded: it is skipped because it carries nothing, or its chunk is in hand.
\* ollama reads the line first and looks at it after the context.
LEMMA DecodeInv ==
  ASSUME StreamInv, DecodeOpenAI \/ DecodeAnthropic \/ ScanLine
  PROVE  StreamInv'
<1>1. /\ streamAt = "decode" /\ pos < Len(body) /\ pos' = pos + 1
      /\ UNCHANGED <<client, body, got, reading, ctxDone, late>>
      /\ \/ /\ client # "ollama" /\ body[pos'].kind = "delta"
            /\ hand' = ChunkOf(pos') /\ streamAt' \in {"send", "last"}
         \/ /\ client # "ollama" /\ body[pos'].kind = "other"
            /\ hand' = hand /\ streamAt' = "check"
         \/ /\ client = "ollama"
            /\ hand' = hand /\ streamAt' = "check"
      /\ client # "gemini"
  <2>1. CASE DecodeOpenAI
    BY <2>1 DEF DecodeOpenAI, Reads
  <2>2. CASE DecodeAnthropic
    BY <2>2 DEF DecodeAnthropic, Reads
  <2>3. CASE ScanLine
    BY <2>3 DEF ScanLine, Reads
  <2>4. QED
    BY <2>1, <2>2, <2>3
<1>2. body \in Seq(Entry) /\ pos \in Nat /\ Len(body) \in Nat /\ pos' \in 1..Len(body)
  BY <1>1 DEF StreamInv, StreamTypeOK
<1>3. /\ ChunkOf(pos') \in Chunks /\ ~ChunkOf(pos').err
      /\ TextsUpTo(pos') = TextsUpTo(pos' - 1) \cup ChunkOf(pos').text
  BY <1>2, ChunkOfFacts, NextText
<1>4. StreamTypeOK'
  BY <1>1, <1>2, <1>3 DEF StreamInv, StreamTypeOK
<1>5. DoneMeansAll' /\ OneAfterCancel'
  BY <1>1, SameRead DEF StreamInv, OneAfterCancel
<1>6. LookIsNext'
  BY <1>1 DEF StreamInv, LookIsNext, StreamTypeOK
<1>7. NothingSkipped'
  <2>1. Running /\ Handed = pos
    BY <1>1 DEF Running, Handed
  <2>2. /\ \A i \in DOMAIN got : got[i].text \subseteq 1..pos
        /\ (\A i \in DOMAIN got : ~got[i].done) =>
             Read(Len(got)) = TextsUpTo(pos) /\ \A n \in 1..pos : ~body[n].finish
    BY <1>1, <2>1 DEF StreamInv, NothingSkipped
  <2>3. \A n : TextsUpTo(n)' = TextsUpTo(n) /\ Read(n)' = Read(n) /\ ChunkOf(n)' = ChunkOf(n)
    BY <1>1 DEF TextsUpTo, Read, ChunkOf
  <2>4. CASE client # "ollama" /\ body[pos'].kind = "other"
    <3>1. Handed' = pos' /\ streamAt' = "check"
      BY <1>1, <2>4 DEF Handed
    <3>2. ~body[pos'].text /\ ~body[pos'].finish
      <4>1. body[pos'] \in Entry /\ body[pos'].kind = "other"
        BY <1>2, <2>4
      <4>2. body[pos'] \in [kind : {"other", "bad"}, text : {FALSE}, finish : {FALSE}]
        BY <4>1 DEF Entry
      <4>3. QED
        BY <4>2
    <3>3. TextsUpTo(pos') = TextsUpTo(pos)
      <4>1. ChunkOf(pos').text = {} /\ pos' - 1 = pos
        BY <1>1, <1>2, <3>2 DEF ChunkOf, Chunk
      <4>2. QED
        BY <1>3, <4>1
    <3>4. \A n \in 1..pos' : n \in 1..pos \/ n = pos'
      BY <1>1, <1>2
    <3>5. 1..pos \subseteq 1..pos' /\ pos' \in 0..Len(body)
      BY <1>1, <1>2
    <3>6. QED
      BY <1>1, <2>2, <2>3, <3>1, <3>2, <3>3, <3>4, <3>5 DEF NothingSkipped
  <2>5. CASE client = "ollama" \/ body[pos'].kind = "delta"
    <3>1. Handed' = pos
      BY <1>1, <1>2, <2>5 DEF Handed
    <3>2. pos \in 0..Len(body)
      BY <1>1, <1>2
    <3>3. streamAt' \in {"send", "last"} => hand' = ChunkOf(pos)' /\ ~hand'.err
      BY <1>1, <1>3, <2>3, <2>5 DEF ChunkOf
    <3>4. client' # "gemini" /\ streamAt' # "idle"
      BY <1>1
    <3>5. /\ Read(Len(got))' = Read(Len(got))
          /\ TextsUpTo(Handed)' = TextsUpTo(pos)
      BY <1>1, <3>1 DEF TextsUpTo, Read
    <3>6. QED
      BY <1>1, <2>2, <3>1, <3>2, <3>3, <3>4, <3>5 DEF NothingSkipped
  <2>6. QED
    BY <1>1, <2>4, <2>5
<1>8. QED
  BY <1>4, <1>5, <1>6, <1>7 DEF StreamInv

\* ollama looks at the context and then at the line.
LEMMA LineInv ==
  ASSUME StreamInv, Line
  PROVE  StreamInv'
<1>1. /\ streamAt = "check" /\ client = "ollama"
      /\ UNCHANGED <<client, body, pos, got, reading, ctxDone, late>>
      /\ \/ ctxDone /\ hand' = ErrorChunk /\ streamAt' = "last"
         \/ ~ctxDone /\ body[pos].kind = "bad" /\ streamAt' = "decode" /\ hand' = hand
         \/ ~ctxDone /\ body[pos].kind # "bad" /\ hand' = ChunkOf(pos) /\ streamAt' = "send"
  BY DEF Line
<1>2. Running /\ Handed = pos - 1 /\ client # "gemini"
  BY <1>1 DEF Running, Handed
<1>3. /\ pos - 1 \in 0..Len(body)
      /\ \A i \in DOMAIN got : got[i].text \subseteq 1..(pos - 1)
      /\ (\A i \in DOMAIN got : ~got[i].done) =>
           Read(Len(got)) = TextsUpTo(pos - 1) /\ \A n \in 1..(pos - 1) : ~body[n].finish
  BY <1>2 DEF StreamInv, NothingSkipped
<1>4. body \in Seq(Entry) /\ pos \in Nat /\ Len(body) \in Nat /\ pos \in 1..Len(body)
  BY <1>3 DEF StreamInv, StreamTypeOK
<1>5. /\ ChunkOf(pos) \in Chunks /\ ~ChunkOf(pos).err
      /\ TextsUpTo(pos) = TextsUpTo(pos - 1) \cup ChunkOf(pos).text
  BY <1>4, ChunkOfFacts, NextText
<1>6. StreamTypeOK'
  BY <1>1, <1>5, ErrorChunkFacts DEF StreamInv, StreamTypeOK
<1>7. DoneMeansAll' /\ OneAfterCancel'
  BY <1>1, SameRead DEF StreamInv, OneAfterCancel
<1>8. LookIsNext'
  BY <1>1, ErrorChunkFacts DEF StreamInv, LookIsNext, StreamTypeOK
<1>9. NothingSkipped'
  <2>1. \A n : TextsUpTo(n)' = TextsUpTo(n) /\ Read(n)' = Read(n) /\ ChunkOf(n)' = ChunkOf(n)
    BY <1>1 DEF TextsUpTo, Read, ChunkOf
  <2>2. CASE streamAt' = "last" /\ hand' = ErrorChunk
    <3>1. ~Running'
      BY <2>2, ErrorChunkFacts DEF Running
    <3>2. QED
      BY <1>1, <2>2, <3>1 DEF NothingSkipped
  <2>3. CASE body[pos].kind = "bad" /\ streamAt' = "decode"
    <3>1. Handed' = pos
      BY <1>1, <2>3 DEF Handed
    <3>2. ~body[pos].text /\ ~body[pos].finish
      <4>1. body[pos] \in Entry /\ body[pos].kind = "bad"
        BY <1>4, <2>3
      <4>2. body[pos] \in [kind : {"other", "bad"}, text : {FALSE}, finish : {FALSE}]
        BY <4>1 DEF Entry
      <4>3. QED
        BY <4>2
    <3>3. TextsUpTo(pos) = TextsUpTo(pos - 1)
      <4>1. ChunkOf(pos).text = {}
        BY <3>2 DEF ChunkOf, Chunk
      <4>2. QED
        BY <1>5, <4>1
    <3>4. \A n \in 1..pos : n \in 1..(pos - 1) \/ n = pos
      BY <1>4
    <3>5. 1..(pos - 1) \subseteq 1..pos /\ pos \in 0..Len(body)
      BY <1>4
    <3>6. QED
      BY <1>1, <1>2, <1>3, <2>1, <2>3, <3>1, <3>2, <3>3, <3>4, <3>5 DEF NothingSkipped
  <2>4. CASE hand' = ChunkOf(pos) /\ streamAt' = "send"
    <3>1. Handed' = pos - 1
      BY <1>1, <2>4 DEF Handed
    <3>2. hand' = ChunkOf(pos)'
      BY <1>1, <2>4 DEF ChunkOf
    <3>3. Read(Len(got))' = Read(Len(got)) /\ TextsUpTo(Handed)' = TextsUpTo(pos - 1)
      BY <1>1, <3>1 DEF TextsUpTo, Read
    <3>4. QED
      BY <1>1, <1>2, <1>3, <2>4, <3>1, <3>2, <3>3 DEF NothingSkipped
  <2>5. QED
    BY <1>1, <2>2, <2>3, <2>4
<1>10. QED
  BY <1>6, <1>7, <1>8, <1>9 DEF StreamInv

\* The texts of the first i chunks of g.
ReadIn(g, i) == UNION {g[j].text : j \in 1..i}

\* What the reader has read grows by the text of the chunk it receives.
LEMMA ReadMore ==
  ASSUME NEW c \in Chunks, NEW g \in Seq(Chunks)
  PROVE  /\ ReadIn(Append(g, c), Len(g) + 1) = ReadIn(g, Len(g)) \cup c.text
         /\ \A i \in DOMAIN g : ReadIn(Append(g, c), i) = ReadIn(g, i)
<1> DEFINE h == Append(g, c)
<1>1. /\ Len(g) \in Nat /\ DOMAIN g = 1..Len(g)
      /\ h[Len(g) + 1] = c /\ \A j \in 1..Len(g) : h[j] = g[j]
  OBVIOUS
<1> HIDE DEF h
<1>2. \A j \in 1..(Len(g) + 1) : j \in 1..Len(g) \/ j = Len(g) + 1
  BY <1>1
<1>3. 1..Len(g) \subseteq 1..(Len(g) + 1) /\ Len(g) + 1 \in 1..(Len(g) + 1)
  BY <1>1
<1>4. ASSUME NEW x PROVE x \in ReadIn(h, Len(g) + 1) <=> x \in ReadIn(g, Len(g)) \/ x \in c.text
  <2>1. x \in ReadIn(h, Len(g) + 1) <=> \E j \in 1..(Len(g) + 1) : x \in h[j].text
    BY DEF ReadIn
  <2>2. x \in ReadIn(g, Len(g)) <=> \E j \in 1..Len(g) : x \in g[j].text
    BY DEF ReadIn
  <2>3. QED
    BY <1>1, <1>2, <1>3, <2>1, <2>2
<1>5. ASSUME NEW i \in DOMAIN g PROVE ReadIn(h, i) = ReadIn(g, i)
  <2>1. \A j \in 1..i : h[j] = g[j]
    BY <1>1
  <2>2. QED
    BY <2>1 DEF ReadIn
<1>6. ReadIn(h, Len(g) + 1) = ReadIn(g, Len(g)) \cup c.text
  BY <1>4
<1>7. QED
  BY <1>5, <1>6 DEF h

\* The reader takes a chunk: it is an error, the next part of the answer, or the whole of
\* gemini's.
LEMMA ReceiveInv ==
  ASSUME StreamInv, Receive
  PROVE  StreamInv'
<1> DEFINE m == Len(got)
<1>1. /\ streamAt \in {"send", "last"} /\ got' = Append(got, hand) /\ hand' = NoChunk
      /\ late' = IF ctxDone /\ ~hand.err THEN late + 1 ELSE late
      /\ streamAt' = IF streamAt = "last" THEN "closed" ELSE IF client = "ollama" THEN "decode" ELSE "check"
      /\ UNCHANGED <<client, body, pos, reading, ctxDone>>
  <2>1. /\ streamAt = "last" => streamAt' = "closed"
        /\ streamAt # "last" /\ client = "ollama" => streamAt' = "decode"
        /\ streamAt # "last" /\ client # "ollama" => streamAt' = "check"
    BY DEF Receive, LoopTop
  <2>2. QED
    BY <2>1 DEF Receive
<1>2. /\ hand \in Chunks /\ got \in Seq(Chunks) /\ body \in Seq(Entry) /\ m \in Nat
      /\ late \in 0..m /\ pos \in 0..Len(body) /\ Len(body) \in Nat
  BY <1>1 DEF StreamInv, StreamTypeOK
<1>3. /\ got' \in Seq(Chunks) /\ Len(got') = m + 1 /\ got'[m + 1] = hand
      /\ DOMAIN got' = 1..(m + 1) /\ DOMAIN got = 1..m
      /\ \A i \in 1..m : got'[i] = got[i]
  BY <1>1, <1>2
<1>4. /\ ReadIn(got', m + 1) = ReadIn(got, m) \cup hand.text
      /\ \A i \in 1..m : ReadIn(got', i) = ReadIn(got, i)
  <2>1. hand \in Chunks /\ got \in Seq(Chunks) /\ got' = Append(got, hand) /\ DOMAIN got = 1..m
    BY <1>1, <1>2, <1>3
  <2>2. QED
    BY <2>1, ReadMore, Zenon
<1>5. \A n : /\ TextsUpTo(n)' = TextsUpTo(n) /\ (Ends(n)' <=> Ends(n))
             /\ Read(n)' = ReadIn(got', n) /\ Read(n) = ReadIn(got, n)
  BY <1>1 DEF TextsUpTo, Ends, Read, ReadIn
<1>6. StreamTypeOK'
  <2>1. late' \in 0..Len(got')
    BY <1>1, <1>2, <1>3
  <2>2. streamAt' \in {"closed", "decode", "check"}
    BY <1>1
  <2>3. QED
    BY <1>1, <1>2, <1>3, <2>1, <2>2 DEF StreamInv, StreamTypeOK
<1>7. OneAfterCancel' /\ LookIsNext'
  <2>1. CASE ctxDone /\ ~hand.err
    <3>1. late = 0
      BY <1>1, <1>2, <2>1 DEF StreamInv, LookIsNext
    <3>2. late' = 1
      BY <1>1, <2>1, <3>1
    <3>3. QED
      BY <1>1, <2>1, <3>2 DEF OneAfterCancel, LookIsNext
  <2>2. CASE ~(ctxDone /\ ~hand.err)
    <3>1. late' = late
      BY <1>1, <2>2
    <3>2. late > 0 => streamAt = "last"
      BY <1>1 DEF StreamInv, LookIsNext
    <3>3. QED
      BY <1>1, <3>1, <3>2 DEF StreamInv, OneAfterCancel, LookIsNext
  <2>3. QED
    BY <2>1, <2>2
<1> DEFINE noneDone == \A i \in 1..m : ~got[i].done
\* What the three kinds of chunk have in common.
<1>8. ASSUME \A i \in 1..m : \A x \in got[i].text, y \in hand.text : x < y,
             hand.done /\ noneDone => \E n \in 0..Len(body) : Ends(n) /\ ReadIn(got, m) \cup hand.text = TextsUpTo(n)
      PROVE  DoneMeansAll'
  <2>1. ASSUME NEW i \in 1..(m + 1), got'[i].done, \A j \in 1..(i - 1) : ~got'[j].done
        PROVE  \E n \in 0..Len(body') : Ends(n)' /\ ReadIn(got', i) = TextsUpTo(n)'
    <3>1. CASE i = m + 1
      <4>1. noneDone /\ hand.done
        BY <1>2, <1>3, <2>1, <3>1
      <4>2. QED
        BY <1>1, <1>4, <1>5, <1>8, <3>1, <4>1
    <3>2. CASE i \in 1..m
      <4>1. got[i].done /\ \A j \in 1..(i - 1) : ~got[j].done
        <5>1. \A j \in 1..(i - 1) : j \in 1..m
          BY <1>2, <3>2
        <5>2. \A j \in 1..m : got'[j] = got[j]
          BY <1>2, <1>3
        <5>3. QED
          BY <2>1, <3>2, <5>1, <5>2
      <4>2. PICK n \in 0..Len(body) : Ends(n) /\ ReadIn(got, i) = TextsUpTo(n)
        BY <1>3, <1>5, <3>2, <4>1 DEF StreamInv, DoneMeansAll
      <4>3. QED
        BY <1>1, <1>4, <1>5, <3>2, <4>2
    <3>3. QED
      BY <1>2, <3>1, <3>2
  <2>2. ASSUME NEW i \in 1..(m + 1), NEW j \in 1..(m + 1), i < j,
               NEW x \in got'[i].text, NEW y \in got'[j].text
        PROVE  x < y
    <3>1. i \in 1..m /\ x \in got[i].text
      BY <1>2, <1>3, <2>2
    <3>2. CASE j = m + 1
      BY <1>3, <1>8, <2>2, <3>1, <3>2
    <3>3. CASE j \in 1..m
      BY <1>3, <2>2, <3>1, <3>3 DEF StreamInv, DoneMeansAll
    <3>4. QED
      BY <1>2, <3>2, <3>3
  <2>3. QED
    BY <1>3, <1>5, <2>1, <2>2 DEF DoneMeansAll
<1>9. CASE streamAt = "last" /\ hand.err
  <2>1. hand = ErrorChunk
    BY <1>9 DEF StreamInv, NothingSkipped
  <2>2. DoneMeansAll'
    BY <1>8, <2>1, ErrorChunkFacts
  <2>3. streamAt' = "closed"
    BY <1>1, <1>9
  <2>4. NothingSkipped'
    BY <2>3 DEF NothingSkipped, Running
  <2>5. QED
    BY <1>6, <1>7, <2>2, <2>4 DEF StreamInv
<1>10. CASE client = "gemini" /\ ~hand.err
  <2>1. streamAt = "last" /\ got = <<>> /\ hand = Chunk(TextsUpTo(Len(body)), TRUE, FALSE)
    BY <1>1, <1>10 DEF StreamInv, NothingSkipped
  <2>2. hand.text = TextsUpTo(Len(body)) /\ m = 0 /\ Ends(Len(body))
    BY <1>10, <2>1 DEF Chunk, Ends
  <2>3. ReadIn(got, m) = {}
    BY <2>2 DEF ReadIn
  <2>4. Len(body) \in 0..Len(body)
    BY <1>2
  <2>5. DoneMeansAll'
    BY <1>8, <2>2, <2>3, <2>4
  <2>6. streamAt' = "closed"
    BY <1>1, <2>1
  <2>7. NothingSkipped'
    BY <2>6 DEF NothingSkipped, Running
  <2>8. QED
    BY <1>6, <1>7, <2>5, <2>7 DEF StreamInv
<1>11. CASE client # "gemini" /\ ~(streamAt = "last" /\ hand.err)
  <2>1. Running /\ Handed = pos - 1
    BY <1>1, <1>11 DEF Running, Handed
  <2>2. /\ pos - 1 \in 0..Len(body) /\ hand = ChunkOf(pos)
        /\ \A i \in 1..m : got[i].text \subseteq 1..(pos - 1)
        /\ noneDone => ReadIn(got, m) = TextsUpTo(pos - 1) /\ \A n \in 1..(pos - 1) : ~body[n].finish
    BY <1>1, <1>3, <1>5, <1>11, <2>1 DEF StreamInv, NothingSkipped
  <2>3. pos \in 1..Len(body) /\ pos \in Nat
    BY <1>2, <2>2
  <2>4. /\ hand.text \subseteq {pos} /\ hand.done = body[pos].finish /\ ~hand.err
        /\ TextsUpTo(pos) = TextsUpTo(pos - 1) \cup hand.text
    BY <1>2, <2>2, <2>3, ChunkOfFacts, NextText
  <2>5. \A i \in 1..m : \A x \in got[i].text, y \in hand.text : x < y
    BY <2>2, <2>3, <2>4
  <2>6. hand.done /\ noneDone => Ends(pos) /\ ReadIn(got, m) \cup hand.text = TextsUpTo(pos)
    BY <1>2, <1>11, <2>2, <2>3, <2>4 DEF Ends
  <2>7. DoneMeansAll'
    <3>1. pos \in 0..Len(body)
      BY <2>3
    <3> HIDE DEF m, noneDone
    <3>2. QED
      BY <1>8, <2>5, <2>6, <3>1
  <2>8. NothingSkipped'
    <3>1. CASE streamAt = "last"
      <4>1. streamAt' = "closed"
        BY <1>1, <3>1
      <4>2. QED
        BY <1>1, <1>11, <4>1 DEF NothingSkipped, Running
    <3>2. CASE streamAt = "send"
      <4>1. streamAt' \in {"check", "decode"} /\ (client = "ollama" => streamAt' = "decode")
        BY <1>1, <3>2
      <4>2. Handed' = pos
        BY <1>1, <4>1 DEF Handed
      <4>3. pos \in 0..Len(body)
        BY <2>3
      <4>4. \A i \in 1..(m + 1) : got'[i].text \subseteq 1..pos
        <5>1. 1..(pos - 1) \subseteq 1..pos /\ {pos} \subseteq 1..pos
          BY <2>3
        <5>2. \A i \in 1..(m + 1) : i \in 1..m \/ i = m + 1
          BY <1>2
        <5>3. QED
          BY <1>3, <2>2, <2>4, <5>1, <5>2
      <4>5. ASSUME \A i \in 1..(m + 1) : ~got'[i].done
            PROVE  ReadIn(got', m + 1) = TextsUpTo(pos) /\ \A n \in 1..pos : ~body[n].finish
        <5>1. noneDone /\ ~hand.done
          BY <1>2, <1>3, <4>5
        <5>2. \A n \in 1..pos : n \in 1..(pos - 1) \/ n = pos
          BY <2>3
        <5>3. QED
          BY <1>4, <1>5, <2>2, <2>4, <5>1, <5>2
      <4>6. TextsUpTo(Handed)' = TextsUpTo(pos) /\ Read(Len(got))' = ReadIn(got', m + 1)
        BY <1>1, <1>3, <4>2 DEF TextsUpTo, Read, ReadIn
      <4>7. QED
        BY <1>1, <1>3, <1>11, <4>1, <4>2, <4>3, <4>4, <4>5, <4>6 DEF NothingSkipped
    <3>3. QED
      BY <1>1, <3>1, <3>2
  <2>9. QED
    BY <1>6, <1>7, <2>7, <2>8 DEF StreamInv
<1>12. QED
  <2>1. client = "gemini" /\ hand.err => streamAt = "last"
    BY <1>1 DEF StreamInv, NothingSkipped
  <2>2. QED
    BY <1>9, <1>10, <1>11, <2>1

\* For bodies of any length and any interleaving of reader, goroutine and cancellation:
\* the reader that has seen Done has the whole answer, in order, and at most one chunk
\* comes through after the context was cancelled (StreamComplete of the four clients).
THEOREM StreamCorrect == StreamSpec => []StreamInv
<1>1. StreamInit => StreamInv
  <2> SUFFICES ASSUME StreamInit PROVE StreamInv
    OBVIOUS
  <2>1. /\ got = <<>> /\ body = <<>> /\ pos = 0 /\ late = 0 /\ streamAt = "idle"
        /\ hand = NoChunk /\ Len(<<>>) = 0 /\ DOMAIN <<>> = {}
    BY DEF StreamInit
  <2>2. body \in Seq(Entry) /\ got \in Seq(Chunks) /\ pos \in 0..Len(body) /\ late \in 0..Len(got)
    BY <2>1
  <2>3. StreamTypeOK
    BY <2>1, <2>2 DEF StreamInit, StreamTypeOK
  <2>4. QED
    BY <2>1, <2>3 DEF StreamInv, DoneMeansAll, OneAfterCancel, NothingSkipped, LookIsNext, Running
<1>2. StreamInv /\ [StreamNext]_streamVars => StreamInv'
  BY StreamOpenInv, CheckContextInv, StreamStopsInv, DecodeInv, LineInv, ReceiveInv
     DEF StreamNext, StreamStep
<1>3. QED
  BY <1>1, <1>2, PTL DEF StreamSpec

-----------------------------------------------------------------------------
(* The exchange of the agent with a client.                                *)

\* A nonempty set of numbers has a least one.
LEMMA LeastNumber ==
  ASSUME NEW T \in SUBSET Nat, T # {}
  PROVE  \E n \in T : \A m \in T : n <= m
<1>1. PICK n \in T : \A m \in T : ~(<<m, n>> \in OpToRel(<, Nat))
  BY WFMin, NatLessThanWellFounded
<1>2. \A m \in T : ~(m < n)
  BY <1>1 DEF OpToRel
<1>3. QED
  BY <1>2

\* Induction: a set that has m and with each number the next has m..N.
LEMMA UpTo ==
  ASSUME NEW m \in Nat, NEW N \in Nat, NEW good, m \in good,
         \A n \in (m + 1)..N : n - 1 \in good => n \in good
  PROVE  \A n \in m..N : n \in good
<1> DEFINE bad == {n \in m..N : n \notin good}
<1>1. SUFFICES ASSUME bad # {} PROVE FALSE
  OBVIOUS
<1>2. PICK n \in bad : \A k \in bad : n <= k
  <2>1. bad \in SUBSET Nat
    OBVIOUS
  <2> HIDE DEF bad
  <2>2. QED
    BY <1>1, <2>1, LeastNumber
<1>3. n \in (m + 1)..N /\ n - 1 \in m..N /\ n - 1 \notin bad
  BY <1>2
<1>4. QED
  BY <1>2, <1>3

\* A function on 0..N may be defined by its first value and a step from each value
\* to the next.
StepOn(N, S, base, step) == N \in Nat /\ base \in S /\ \A n \in 1..N, s \in S : step[<<n, s>>] \in S
Defines(N, S, base, step) ==
  \E h \in [0..N -> S] : h[0] = base /\ \A n \in 1..N : h[n] = step[<<n, h[n - 1]>>]

LEMMA RecursionExists ==
  ASSUME NEW N, NEW S, NEW base, NEW step, StepOn(N, S, base, step)
  PROVE  Defines(N, S, base, step)
<1> USE DEF StepOn, Defines
<1> DEFINE upTo(k) == \E h \in [0..k -> S] : h[0] = base /\ \A n \in 1..k : h[n] = step[<<n, h[n - 1]>>]
           bad == {k \in 0..N : ~upTo(k)}
<1>1. upTo(0)
  <2> DEFINE g == [i \in 0..0 |-> base]
  <2>1. g \in [0..0 -> S] /\ g[0] = base
    OBVIOUS
  <2>2. \A n \in 1..0 : g[n] = step[<<n, g[n - 1]>>]
    OBVIOUS
  <2> HIDE DEF g
  <2>3. QED
    BY <2>1, <2>2
<1>2. ASSUME NEW k \in 1..N, upTo(k - 1) PROVE upTo(k)
  <2>1. PICK h \in [0..(k - 1) -> S] :
          h[0] = base /\ \A n \in 1..(k - 1) : h[n] = step[<<n, h[n - 1]>>]
    BY <1>2
  <2> DEFINE g == [i \in 0..k |-> IF i = k THEN step[<<k, h[k - 1]>>] ELSE h[i]]
  <2>2. step[<<k, h[k - 1]>>] \in S
    BY <2>1
  <2>3. g \in [0..k -> S] /\ g[0] = base
    BY <2>1, <2>2
  <2>4. \A n \in 1..k : g[n] = step[<<n, g[n - 1]>>]
    <3> SUFFICES ASSUME NEW n \in 1..k PROVE g[n] = step[<<n, g[n - 1]>>]
      OBVIOUS
    <3>1. n - 1 \in 0..k /\ n - 1 # k /\ n \in 0..k
      OBVIOUS
    <3>2. g[n - 1] = h[n - 1]
      BY <3>1
    <3>3. CASE n = k
      BY <3>1, <3>2, <3>3
    <3>4. CASE n # k
      <4>1. n \in 1..(k - 1) /\ g[n] = h[n]
        BY <3>1, <3>4
      <4>2. QED
        BY <2>1, <3>2, <4>1
    <3>5. QED
      BY <3>3, <3>4
  <2> HIDE DEF g
  <2>5. QED
    BY <2>3, <2>4
<1>3. ASSUME bad # {} PROVE FALSE
  <2>1. bad \in SUBSET Nat
    OBVIOUS
  <2> HIDE DEF upTo
  <2>2. PICK k \in bad : \A m \in bad : k <= m
    BY <1>3, <2>1, LeastNumber
  <2>3. k \in 1..N /\ k - 1 \in 0..N /\ k - 1 \notin bad
    BY <1>1, <2>2
  <2>4. QED
    BY <1>2, <2>2, <2>3
<1> HIDE DEF upTo
<1>4. upTo(N)
  BY <1>3
<1>5. QED
  BY <1>4 DEF upTo

\* The other texts ask nothing ...
LEMMA OthersAskNothing ==
  ASSUME NEW m, m.text \in OtherTexts
  PROVE  ~Asks(m)
<1> SUFFICES ASSUME NEW n \in 1..MaxQuestions, m.text = Question(n) PROVE FALSE
  BY DEF Asks
<1>1. Len(Question(n)) = 2
  BY DEF Question
<1>2. Len(<<>>) = 0 /\ Len(<<"prompt">>) = 1 /\ Len(<<"answer">>) = 1 /\ Len(<<"output">>) = 1
      /\ Len(<<"error">>) = 1
  OBVIOUS
<1>3. ASSUME NEW t, t \in OtherTexts PROVE Len(t) # 2
  <2>1. t = <<>> \/ t = <<"prompt">> \/ t = <<"answer">> \/ t = <<"output">> \/ t = <<"error">>
    BY <1>3 DEF OtherTexts, ResultTexts
  <2>2. QED
    BY <1>2, <2>1
<1>4. QED
  BY <1>1, <1>3

\* ... and a question its own number.
LEMMA QuestionAsks ==
  ASSUME NEW m, NEW n \in 1..MaxQuestions, m.text = Question(n)
  PROVE  Asks(m) /\ m.text[2] = n
BY DEF Asks, Question

\* What a message of the agent asks.
LEMMA AskedNumber ==
  ASSUME NEW m, Asks(m)
  PROVE  m.text[2] \in 1..MaxQuestions /\ m.text = Question(m.text[2])
BY DEF Asks, Question

\* No question belongs before itself, nor two before each other.
LEMMA BeforeStrict ==
  ASSUME ProviderTypeOK, NEW m \in 1..MaxQuestions, NEW n \in 1..MaxQuestions, Before(m, n)
  PROVE  m # n /\ ~Before(n, m)
<1>1. \A p \in overtaking : p[1] > p[2]
  BY DEF ProviderTypeOK
<1>2. <<m, n>> \in overtaking => m > n
  BY <1>1
<1>3. <<n, m>> \in overtaking => n > m
  BY <1>1
<1>4. m \in Int /\ n \in Int
  OBVIOUS
<1>5. QED
  BY <1>2, <1>3, <1>4 DEF Before

\* Two lists that ask in order, the second after the first.
LEMMA OrderedConcat ==
  ASSUME NEW a \in Seq(MessageType), NEW b \in Seq(MessageType), Ordered(a), Ordered(b),
         \A i \in DOMAIN a, j \in DOMAIN b : Asks(a[i]) /\ Asks(b[j]) => Before(a[i].text[2], b[j].text[2])
  PROVE  Ordered(a \o b)
<1> SUFFICES ASSUME NEW i \in DOMAIN (a \o b), NEW j \in DOMAIN (a \o b), i < j,
                    Asks((a \o b)[i]), Asks((a \o b)[j])
             PROVE  Before((a \o b)[i].text[2], (a \o b)[j].text[2])
  BY DEF Ordered
<1>1. /\ DOMAIN (a \o b) = 1..(Len(a) + Len(b)) /\ Len(a) \in Nat /\ Len(b) \in Nat
      /\ DOMAIN a = 1..Len(a) /\ DOMAIN b = 1..Len(b)
  OBVIOUS
<1>2. \A k \in DOMAIN (a \o b) : (a \o b)[k] = IF k <= Len(a) THEN a[k] ELSE b[k - Len(a)]
  OBVIOUS
<1>3. CASE j <= Len(a)
  <2>1. i \in DOMAIN a /\ j \in DOMAIN a /\ (a \o b)[i] = a[i] /\ (a \o b)[j] = a[j]
    BY <1>1, <1>2, <1>3
  <2>2. QED
    BY <2>1 DEF Ordered
<1>4. CASE i <= Len(a) /\ ~(j <= Len(a))
  <2>1. i \in DOMAIN a /\ j - Len(a) \in DOMAIN b /\ (a \o b)[i] = a[i] /\ (a \o b)[j] = b[j - Len(a)]
    BY <1>1, <1>2, <1>4
  <2>2. QED
    BY <2>1
<1>5. CASE ~(i <= Len(a)) /\ ~(j <= Len(a))
  <2>1. /\ i - Len(a) \in DOMAIN b /\ j - Len(a) \in DOMAIN b /\ i - Len(a) < j - Len(a)
        /\ (a \o b)[i] = b[i - Len(a)] /\ (a \o b)[j] = b[j - Len(a)]
    BY <1>1, <1>2, <1>5
  <2>2. QED
    BY <2>1 DEF Ordered
<1>6. QED
  BY <1>1, <1>3, <1>4, <1>5

\* The same with the hypotheses as one.
Joins(a, b) ==
  /\ a \in Seq(MessageType) /\ b \in Seq(MessageType) /\ Ordered(a) /\ Ordered(b)
  /\ \A i \in DOMAIN a, j \in DOMAIN b : Asks(a[i]) /\ Asks(b[j]) => Before(a[i].text[2], b[j].text[2])
LEMMA JoinOrdered ==
  ASSUME NEW a, NEW b, Joins(a, b)
  PROVE  Ordered(a \o b) /\ a \o b \in Seq(MessageType)
<1>1. /\ a \in Seq(MessageType) /\ b \in Seq(MessageType) /\ Ordered(a) /\ Ordered(b)
      /\ \A i \in DOMAIN a, j \in DOMAIN b : Asks(a[i]) /\ Asks(b[j]) => Before(a[i].text[2], b[j].text[2])
  BY DEF Joins
<1>2. Ordered(a \o b)
  BY <1>1, OrderedConcat
<1>3. QED
  BY <1>1, <1>2

\* A message of one of the kinds the agent makes.
LEMMA MessageOk ==
  ASSUME NEW r \in RoleType, NEW t \in TextType,
         NEW c \in Seq(CallType), NEW d \in Ids
  PROVE  /\ Message(r, t, c, d) \in MessageType /\ Message(r, t, c, d).text = t
         /\ Message(r, t, c, d).role = r /\ Message(r, t, c, d).calls = c /\ Message(r, t, c, d).id = d
BY DEF Message, MessageType

\* A message without calls.
LEMMA PlainOk ==
  ASSUME NEW r \in RoleType, NEW t \in TextType
  PROVE  Plain(r, t) \in MessageType /\ Plain(r, t).text = t /\ Plain(r, t).role = r
<1> DEFINE c == <<>>
           d == ""
<1>1. c \in Seq(CallType)
  OBVIOUS
<1>2. d \in Ids
  BY DEF Ids
<1>3. Plain(r, t) = Message(r, t, c, d)
  BY DEF Plain
<1> HIDE DEF c, d
<1>4. /\ Message(r, t, c, d) \in MessageType /\ Message(r, t, c, d).text = t
      /\ Message(r, t, c, d).role = r
  BY <1>1, <1>2, MessageOk
<1>5. QED
  BY <1>3, <1>4

\* The messages of a turn: its question and no other.
LEMMA TurnOk ==
  ASSUME NEW t \in TurnType
  PROVE  /\ TurnMessages(t) \in Seq(MessageType) /\ Ordered(TurnMessages(t))
         /\ \A i \in DOMAIN TurnMessages(t) :
              Asks(TurnMessages(t)[i]) => TurnMessages(t)[i].text[2] = t.question
<1> DEFINE u == Plain("user", Question(t.question))
           a == Plain("assistant", t.response)
<1>1. t.question \in 1..MaxQuestions /\ t.response \in OtherTexts
  BY DEF TurnType, OtherTexts
<1>2. /\ u \in MessageType /\ u.text = Question(t.question)
      /\ a \in MessageType /\ a.text = t.response
  <2>1. Question(t.question) \in TextType /\ t.response \in TextType
    BY <1>1 DEF TextType
  <2>2. "user" \in RoleType /\ "assistant" \in RoleType
    BY DEF RoleType
  <2>3. QED
    BY <2>1, <2>2, PlainOk
<1>3. ~Asks(a) /\ Asks(u) /\ u.text[2] = t.question
  BY <1>1, <1>2, OthersAskNothing, QuestionAsks
<1>4. TurnMessages(t) = <<u>> \/ TurnMessages(t) = <<u, a>>
  BY DEF TurnMessages
<1> HIDE DEF u, a
<1>5. CASE TurnMessages(t) = <<u>>
  BY <1>2, <1>3, <1>5 DEF Ordered
<1>6. CASE TurnMessages(t) = <<u, a>>
  <2>1. <<u, a>> \in Seq(MessageType) /\ DOMAIN <<u, a>> = {1, 2} /\ <<u, a>>[1] = u /\ <<u, a>>[2] = a
    BY <1>2
  <2>2. QED
    BY <1>3, <1>6, <2>1 DEF Ordered
<1>7. QED
  BY <1>4, <1>5, <1>6

\* The questions of the turns, in the order they were asked.
TurnsAscend ==
  \A i, j \in DOMAIN turns : i < j => Before(turns[i].question, turns[j].question)

HistoryOk(n) ==
  /\ History[n] \in Seq(MessageType) /\ Ordered(History[n])
  /\ \A i \in DOMAIN History[n] : Asks(History[n][i]) =>
       \E k \in 1..n : History[n][i].text[2] = turns[k].question

\* What buildLLMMessages makes of the turns asks their questions in order.
LEMMA HistoryInOrder ==
  ASSUME turns \in Seq(TurnType), TurnsAscend
  PROVE  \A n \in 0..Len(turns) : HistoryOk(n)
<1>1. \A n \in 0..Len(turns) :
        History[n] = IF n = 0 THEN <<>> ELSE History[n - 1] \o TurnMessages(turns[n])
  <2> DEFINE N == Len(turns)
             S == Seq(MessageType)
             step == [p \in (1..N) \X S |-> p[2] \o TurnMessages(turns[p[1]])]
  <2>1. N \in Nat /\ <<>> \in S /\ N = Len(turns)
    OBVIOUS
  <2>2. \A n \in 1..N, s \in S : step[<<n, s>>] \in S
    <3>1. ASSUME NEW n \in 1..N, NEW s \in S PROVE s \o TurnMessages(turns[n]) \in S
      <4>1. turns[n] \in TurnType
        OBVIOUS
      <4>2. TurnMessages(turns[n]) \in S
        BY <4>1, TurnOk
      <4>3. QED
        BY <4>2
    <3> HIDE DEF S
    <3>2. QED
      BY <3>1
  <2>3. \A n \in 1..N, s \in S : step[<<n, s>>] = s \o TurnMessages(turns[n])
    OBVIOUS
  <2> DEFINE none == <<>>
  <2> HIDE DEF S, step, N, none
  <2>4. PICK h \in [0..N -> S] : h[0] = <<>> /\ \A n \in 1..N : h[n] = step[<<n, h[n - 1]>>]
    <3>1. StepOn(N, S, none, step)
      BY <2>1, <2>2 DEF none, StepOn
    <3>2. Defines(N, S, none, step)
      BY <3>1, RecursionExists
    <3>3. QED
      BY <3>2 DEF none, Defines
  <2>5. \A n \in 0..N : h[n] = IF n = 0 THEN <<>> ELSE h[n - 1] \o TurnMessages(turns[n])
    <3> SUFFICES ASSUME NEW n \in 1..N PROVE h[n] = h[n - 1] \o TurnMessages(turns[n])
      BY <2>1, <2>4
    <3>1. h[n - 1] \in S
      BY <2>1, <2>4
    <3>2. QED
      BY <2>3, <2>4, <3>1
  <2>6. h = [n \in 0..Len(turns) |-> IF n = 0 THEN <<>> ELSE h[n - 1] \o TurnMessages(turns[n])]
    BY <2>1, <2>5
  <2>7. History = [n \in 0..Len(turns) |->
                     IF n = 0 THEN <<>> ELSE History[n - 1] \o TurnMessages(turns[n])]
    BY <2>6, Zenon DEF History
  <2>8. QED
    BY <2>7
<1>2. HistoryOk(0)
  <2>1. History[0] = <<>>
    <3>1. 0 \in 0..Len(turns)
      OBVIOUS
    <3>2. QED
      BY <1>1, <3>1
  <2>2. <<>> \in Seq(MessageType) /\ DOMAIN <<>> = {}
    OBVIOUS
  <2>3. QED
    BY <2>1, <2>2 DEF HistoryOk, Ordered
<1>3. ASSUME NEW n \in 1..Len(turns), HistoryOk(n - 1) PROVE HistoryOk(n)
  <2> DEFINE a == History[n - 1]
             b == TurnMessages(turns[n])
  <2>1. History[n] = a \o b /\ turns[n] \in TurnType
    <3>1. n \in 0..Len(turns) /\ n # 0 /\ n \in DOMAIN turns
      OBVIOUS
    <3>2. History[n] = a \o b
      BY <1>1, <3>1
    <3>3. turns[n] \in TurnType
      BY <3>1
    <3>4. QED
      BY <3>2, <3>3
  <2>2. /\ b \in Seq(MessageType) /\ Ordered(b)
        /\ \A i \in DOMAIN b : Asks(b[i]) => b[i].text[2] = turns[n].question
    BY <2>1, TurnOk
  <2>3. /\ a \in Seq(MessageType) /\ Ordered(a)
        /\ \A i \in DOMAIN a : Asks(a[i]) => \E k \in 1..(n - 1) : a[i].text[2] = turns[k].question
    BY <1>3 DEF HistoryOk
  <2> HIDE DEF a, b
  <2>4. \A k \in 1..(n - 1) : Before(turns[k].question, turns[n].question)
    BY DEF TurnsAscend
  <2>5. Ordered(a \o b)
    <3>1. Joins(a, b)
      BY <2>2, <2>3, <2>4 DEF Joins
    <3>2. QED
      BY <3>1, JoinOrdered
  <2>6. ASSUME NEW i \in DOMAIN (a \o b), Asks((a \o b)[i])
        PROVE  \E k \in 1..n : (a \o b)[i].text[2] = turns[k].question
    <3>1. CASE i <= Len(a)
      <4>1. i \in DOMAIN a /\ (a \o b)[i] = a[i]
        BY <2>2, <2>3, <3>1
      <4>2. QED
        BY <2>3, <2>6, <4>1
    <3>2. CASE ~(i <= Len(a))
      <4>1. i - Len(a) \in DOMAIN b /\ (a \o b)[i] = b[i - Len(a)]
        BY <2>2, <2>3, <3>2
      <4>2. QED
        BY <2>2, <2>6, <4>1
    <3>3. QED
      BY <3>1, <3>2
  <2> DEFINE c == a \o b
  <2>7. History[n] = c /\ c \in Seq(MessageType) /\ Ordered(c)
    BY <2>1, <2>2, <2>3, <2>5
  <2>8. \A i \in DOMAIN c : Asks(c[i]) => \E k \in 1..n : c[i].text[2] = turns[k].question
    BY <2>6
  <2> HIDE DEF c
  <2>9. QED
    BY <2>7, <2>8 DEF HistoryOk
<1> DEFINE good == {n \in 0..Len(turns) : HistoryOk(n)}
<1>4. 0 \in good /\ Len(turns) \in Nat
  BY <1>2
<1>5. \A n \in (0 + 1)..Len(turns) : n - 1 \in good => n \in good
  BY <1>3
<1> HIDE DEF good
<1>6. \A n \in 0..Len(turns) : n \in good
  BY <1>4, <1>5, UpTo
<1>7. QED
  BY <1>6 DEF good

\* What is left of the first n messages.
KeptOk(n) ==
  /\ Kept[n] \in Seq(MessageType) /\ Ordered(Kept[n])
  /\ \A i \in DOMAIN Kept[n] : \E j \in 1..n : Kept[n][i].text = sent[j].text
  /\ \A j \in 1..n : sent[j].role # "system" =>
       \E i \in DOMAIN Kept[n] : Kept[n][i].text = sent[j].text

\* The recursion of the conversion.
LEMMA KeptDef ==
  ASSUME sent \in Seq(MessageType)
  PROVE  \A n \in 0..Len(sent) :
           Kept[n] = IF n = 0 THEN <<>>
                     ELSE IF sent[n].role = "system" THEN Kept[n - 1]
                     ELSE Append(Kept[n - 1], Plain(sent[n].role, sent[n].text))
<1> DEFINE N == Len(sent)
           S == Seq(MessageType)
           none == <<>>
           step == [p \in (1..N) \X S |-> IF sent[p[1]].role = "system" THEN p[2]
                                         ELSE Append(p[2], Plain(sent[p[1]].role, sent[p[1]].text))]
<1>1. N \in Nat /\ none \in S /\ N = Len(sent) /\ DOMAIN sent = 1..N
  OBVIOUS
<1>2. ASSUME NEW n \in 1..N PROVE Plain(sent[n].role, sent[n].text) \in MessageType
  <2>1. sent[n] \in MessageType
    OBVIOUS
  <2>2. sent[n].role \in RoleType /\ sent[n].text \in TextType
    BY <2>1 DEF MessageType
  <2>3. QED
    BY <2>2, PlainOk
<1>3. \A n \in 1..N, s \in S : step[<<n, s>>] \in S
  <2>1. ASSUME NEW n \in 1..N, NEW s \in S
        PROVE  Append(s, Plain(sent[n].role, sent[n].text)) \in S
    BY <1>2
  <2> HIDE DEF S
  <2>2. QED
    BY <2>1
<1>4. \A n \in 1..N, s \in S : step[<<n, s>>] = IF sent[n].role = "system" THEN s
                                         ELSE Append(s, Plain(sent[n].role, sent[n].text))
  OBVIOUS
<1> HIDE DEF N, S, none, step
<1>5. PICK h \in [0..N -> S] : h[0] = none /\ \A n \in 1..N : h[n] = step[<<n, h[n - 1]>>]
  <2>1. StepOn(N, S, none, step)
    BY <1>1, <1>3 DEF StepOn
  <2>2. Defines(N, S, none, step)
    BY <2>1, RecursionExists
  <2>3. QED
    BY <2>2 DEF Defines
<1>6. \A n \in 0..N : h[n] = IF n = 0 THEN <<>>
                            ELSE IF sent[n].role = "system" THEN h[n - 1]
                            ELSE Append(h[n - 1], Plain(sent[n].role, sent[n].text))
  <2>1. ASSUME NEW n \in 1..N
        PROVE  h[n] = IF sent[n].role = "system" THEN h[n - 1]
                      ELSE Append(h[n - 1], Plain(sent[n].role, sent[n].text))
    <3>1. h[n - 1] \in S
      BY <1>1, <1>5
    <3>2. QED
      BY <1>4, <1>5, <3>1
  <2>2. h[0] = <<>>
    BY <1>5 DEF none
  <2>3. \A n \in 0..N : n = 0 \/ n \in 1..N
    BY <1>1
  <2>4. QED
    BY <2>1, <2>2, <2>3, Zenon
<1>7. h = [n \in 0..Len(sent) |-> IF n = 0 THEN <<>>
                                ELSE IF sent[n].role = "system" THEN h[n - 1]
                                ELSE Append(h[n - 1], Plain(sent[n].role, sent[n].text))]
  BY <1>1, <1>6
<1>8. Kept = [n \in 0..Len(sent) |-> IF n = 0 THEN <<>>
                                   ELSE IF sent[n].role = "system" THEN Kept[n - 1]
                                   ELSE Append(Kept[n - 1], Plain(sent[n].role, sent[n].text))]
  BY <1>7, Zenon DEF Kept
<1>9. QED
  BY <1>8

\* The next message is appended, with its role and its text, unless it is a system
\* message.
LEMMA KeptNext ==
  ASSUME sent \in Seq(MessageType), NEW n \in 1..Len(sent), Kept[n - 1] \in Seq(MessageType)
  PROVE  /\ sent[n] \in MessageType
         /\ sent[n].role = "system" => Kept[n] = Kept[n - 1]
         /\ sent[n].role # "system" =>
              \E x \in MessageType : /\ x.role = sent[n].role /\ x.text = sent[n].text
                                     /\ Kept[n] = Append(Kept[n - 1], x)
<1>1. sent[n] \in MessageType /\ n \in 0..Len(sent) /\ n # 0
  OBVIOUS
<1>2. sent[n].role \in RoleType /\ sent[n].text \in TextType
  BY <1>1 DEF MessageType
<1> DEFINE x == Plain(sent[n].role, sent[n].text)
<1>3. x \in MessageType /\ x.role = sent[n].role /\ x.text = sent[n].text
  BY <1>2, PlainOk
<1>4. Kept[n] = IF sent[n].role = "system" THEN Kept[n - 1] ELSE Append(Kept[n - 1], x)
  BY <1>1, KeptDef
<1> HIDE DEF x
<1>5. QED
  BY <1>1, <1>3, <1>4

\* The conversion keeps the order of the questions and drops none.
LEMMA KeptInOrder ==
  ASSUME sent \in Seq(MessageType), Ordered(sent)
  PROVE  \A n \in 0..Len(sent) : KeptOk(n)
<1>1. KeptOk(0)
  <2>1. Kept[0] = <<>>
    <3>1. 0 \in 0..Len(sent)
      OBVIOUS
    <3>2. QED
      BY <3>1, KeptDef
  <2>2. <<>> \in Seq(MessageType) /\ DOMAIN <<>> = {}
    OBVIOUS
  <2>3. QED
    BY <2>1, <2>2 DEF KeptOk, Ordered
<1>2. ASSUME NEW n \in 1..Len(sent), KeptOk(n - 1) PROVE KeptOk(n)
  <2> DEFINE a == Kept[n - 1]
  <2>1. /\ a \in Seq(MessageType) /\ Ordered(a)
        /\ \A i \in DOMAIN a : \E j \in 1..(n - 1) : a[i].text = sent[j].text
        /\ \A j \in 1..(n - 1) : sent[j].role # "system" => \E i \in DOMAIN a : a[i].text = sent[j].text
    BY <1>2 DEF KeptOk
  <2>2. /\ sent[n] \in MessageType
        /\ sent[n].role = "system" => Kept[n] = a
        /\ sent[n].role # "system" =>
             \E x \in MessageType : /\ x.role = sent[n].role /\ x.text = sent[n].text
                                    /\ Kept[n] = Append(a, x)
    BY <2>1, KeptNext
  <2> HIDE DEF a
  <2>3. CASE sent[n].role = "system"
    <3>1. Kept[n] = a
      BY <2>2, <2>3
    <3>2. \A j \in 1..n : sent[j].role # "system" => j \in 1..(n - 1)
      BY <2>3
    <3>3. QED
      BY <2>1, <3>1, <3>2 DEF KeptOk
  <2>4. CASE sent[n].role # "system"
    <3>1. PICK x \in MessageType : x.text = sent[n].text /\ Kept[n] = Append(a, x)
      BY <2>2, <2>4
    <3>2. /\ Append(a, x) = a \o <<x>> /\ <<x>> \in Seq(MessageType) /\ DOMAIN <<x>> = {1}
          /\ <<x>>[1] = x /\ Append(a, x) \in Seq(MessageType)
          /\ DOMAIN Append(a, x) = 1..(Len(a) + 1) /\ DOMAIN a = 1..Len(a) /\ Len(a) \in Nat
          /\ \A i \in DOMAIN a : Append(a, x)[i] = a[i]
          /\ Append(a, x)[Len(a) + 1] = x
      BY <2>1
    <3>3. ASSUME NEW i \in DOMAIN a, Asks(a[i]), Asks(x) PROVE Before(a[i].text[2], x.text[2])
      <4>1. PICK j \in 1..(n - 1) : a[i].text = sent[j].text
        BY <2>1
      <4>2. Asks(sent[j]) /\ Asks(sent[n])
        BY <3>1, <3>3, <4>1 DEF Asks
      <4>3. j \in DOMAIN sent /\ n \in DOMAIN sent /\ j < n
        OBVIOUS
      <4>4. QED
        BY <3>1, <4>1, <4>2, <4>3 DEF Ordered
    <3>4. Ordered(<<x>>)
      BY <3>2 DEF Ordered
    <3>5. Ordered(Append(a, x))
      <4>1. \A i \in DOMAIN a, j \in DOMAIN <<x>> :
              Asks(a[i]) /\ Asks(<<x>>[j]) => Before(a[i].text[2], <<x>>[j].text[2])
        BY <3>2, <3>3
      <4>2. Joins(a, <<x>>)
        BY <2>1, <3>2, <3>4, <4>1 DEF Joins
      <4>3. Ordered(a \o <<x>>)
        BY <4>2, JoinOrdered
      <4>4. QED
        BY <3>2, <4>3
    <3>6. \A i \in DOMAIN Append(a, x) : \E j \in 1..n : Append(a, x)[i].text = sent[j].text
      <4> SUFFICES ASSUME NEW i \in 1..(Len(a) + 1)
                   PROVE  \E j \in 1..n : Append(a, x)[i].text = sent[j].text
        BY <3>2
      <4>1. CASE i = Len(a) + 1
        BY <3>1, <3>2, <4>1
      <4>2. CASE i # Len(a) + 1
        <5>1. i \in DOMAIN a
          BY <3>2, <4>2
        <5>2. QED
          BY <2>1, <3>2, <5>1
      <4>3. QED
        BY <4>1, <4>2
    <3>7. ASSUME NEW j \in 1..n, sent[j].role # "system"
          PROVE  \E i \in DOMAIN Append(a, x) : Append(a, x)[i].text = sent[j].text
      <4>1. CASE j = n
        BY <3>1, <3>2, <4>1
      <4>2. CASE j # n
        <5>1. j \in 1..(n - 1)
          BY <4>2
        <5>2. PICK i \in DOMAIN a : a[i].text = sent[j].text
          BY <2>1, <3>7, <5>1
        <5>3. i \in DOMAIN Append(a, x)
          BY <3>2
        <5>4. QED
          BY <3>2, <5>2, <5>3
      <4>3. QED
        BY <4>1, <4>2
    <3> DEFINE b == Append(a, x)
    <3>8. Kept[n] = b
      BY <3>1
    <3>9. b \in Seq(MessageType) /\ Ordered(b)
      BY <3>2, <3>5
    <3>10. /\ \A i \in DOMAIN b : \E j \in 1..n : b[i].text = sent[j].text
           /\ \A j \in 1..n : sent[j].role # "system" => \E i \in DOMAIN b : b[i].text = sent[j].text
      BY <3>6, <3>7
    <3> HIDE DEF b
    <3>11. QED
      BY <3>8, <3>9, <3>10 DEF KeptOk
  <2>5. QED
    BY <2>3, <2>4
<1> DEFINE good == {n \in 0..Len(sent) : KeptOk(n)}
<1>3. 0 \in good /\ Len(sent) \in Nat
  BY <1>1
<1>4. \A n \in (0 + 1)..Len(sent) : n - 1 \in good => n \in good
  BY <1>2
<1> HIDE DEF good
<1>5. \A n \in 0..Len(sent) : n \in good
  BY <1>3, <1>4, UpTo
<1>6. QED
  BY <1>5 DEF good

\* Behind the last system message, m, nothing is dropped.
TailOk(m, n) ==
  /\ Kept[n] \in Seq(MessageType) /\ Len(Kept[n]) >= n - m
  /\ \A j \in 1..(n - m) :
       /\ Kept[n][Len(Kept[n]) - (n - m) + j].role = sent[m + j].role
       /\ Kept[n][Len(Kept[n]) - (n - m) + j].text = sent[m + j].text

LEMMA KeptTail ==
  ASSUME sent \in Seq(MessageType), Ordered(sent), NEW m \in 0..Len(sent),
         \A j \in (m + 1)..Len(sent) : sent[j].role # "system"
  PROVE  TailOk(m, Len(sent))
<1>1. TailOk(m, m)
  <2>1. Kept[m] \in Seq(MessageType)
    BY KeptInOrder DEF KeptOk
  <2>2. QED
    BY <2>1 DEF TailOk
<1>2. ASSUME NEW n \in (m + 1)..Len(sent), TailOk(m, n - 1) PROVE TailOk(m, n)
  <2> DEFINE a == Kept[n - 1]
             d == n - 1 - m
  <2>1. /\ a \in Seq(MessageType) /\ Len(a) >= d /\ d \in Nat /\ n \in 1..Len(sent) /\ n - m = d + 1
        /\ \A j \in 1..d : a[Len(a) - d + j].role = sent[m + j].role
                          /\ a[Len(a) - d + j].text = sent[m + j].text
    BY <1>2 DEF TailOk
  <2>2. PICK x \in MessageType : x.role = sent[n].role /\ x.text = sent[n].text /\ Kept[n] = Append(a, x)
    BY <2>1, KeptNext
  <2> HIDE DEF a, d
  <2>3. /\ Append(a, x) \in Seq(MessageType) /\ Len(Append(a, x)) = Len(a) + 1 /\ Len(a) \in Nat
        /\ \A i \in 1..Len(a) : Append(a, x)[i] = a[i]
        /\ Append(a, x)[Len(a) + 1] = x
    BY <2>1
  <2>4. ASSUME NEW j \in 1..(d + 1)
        PROVE  /\ Append(a, x)[Len(a) + 1 - (d + 1) + j].role = sent[m + j].role
               /\ Append(a, x)[Len(a) + 1 - (d + 1) + j].text = sent[m + j].text
    <3>1. CASE j = d + 1
      <4>1. Len(a) + 1 - (d + 1) + j = Len(a) + 1 /\ m + j = n
        BY <2>1, <2>3, <3>1
      <4>2. QED
        BY <2>2, <2>3, <4>1
    <3>2. CASE j # d + 1
      <4> DEFINE l == Len(a)
      <4>0. l \in Nat /\ d \in Nat /\ l >= d
        BY <2>1, <2>3
      <4> HIDE DEF l
      <4>3. l + 1 - (d + 1) + j = l - d + j /\ j \in 1..d /\ l - d + j \in 1..l
        BY <4>0, <3>2
      <4>1. /\ Len(a) + 1 - (d + 1) + j = Len(a) - d + j /\ j \in 1..d
            /\ Len(a) - d + j \in 1..Len(a)
        BY <4>3 DEF l
      <4>2. QED
        BY <2>1, <2>3, <4>1
    <3>3. QED
      BY <3>1, <3>2
  <2> DEFINE b == Append(a, x)
  <2>5. Kept[n] = b /\ b \in Seq(MessageType) /\ Len(b) = Len(a) + 1
    BY <2>2, <2>3
  <2>6. n - m = d + 1 /\ Len(b) >= n - m
    BY <2>1, <2>3, <2>5
  <2>7. \A j \in 1..(n - m) : /\ b[Len(b) - (n - m) + j].role = sent[m + j].role
                              /\ b[Len(b) - (n - m) + j].text = sent[m + j].text
    <3>1. Len(b) - (n - m) = Len(a) + 1 - (d + 1)
      BY <2>5, <2>6
    <3>2. QED
      BY <2>4, <2>6, <3>1
  <2> HIDE DEF b
  <2>8. QED
    BY <2>5, <2>6, <2>7 DEF TailOk
<1> DEFINE good == {n \in m..Len(sent) : TailOk(m, n)}
<1>3. m \in good /\ Len(sent) \in Nat /\ m \in Nat
  BY <1>1
<1>4. \A n \in (m + 1)..Len(sent) : n - 1 \in good => n \in good
  BY <1>2
<1> HIDE DEF good
<1>5. \A n \in m..Len(sent) : n \in good
  BY <1>3, <1>4, UpTo
<1>6. QED
  BY <1>5 DEF good

\* A list without questions asks in order.
LEMMA SilentOrdered ==
  ASSUME NEW ms, \A i \in DOMAIN ms : ~Asks(ms[i])
  PROVE  Ordered(ms)
BY DEF Ordered

\* What buildLLMMessages makes for question q, later than those of all turns.
LEMMA ListOk ==
  ASSUME turns \in Seq(TurnType), TurnsAscend, NEW q \in 1..MaxQuestions,
         \A i \in DOMAIN turns : Before(turns[i].question, q)
  PROVE  /\ buildLLMMessages(q) \in Seq(MessageType) /\ Ordered(buildLLMMessages(q))
         /\ buildLLMMessages(q) # <<>>
         /\ buildLLMMessages(q)[Len(buildLLMMessages(q))] = Plain("user", Question(q))
<1> DEFINE p == Plain("system", <<"prompt">>)
           u == Plain("user", Question(q))
           N == Len(turns)
           h == History[N]
<1>1. p \in MessageType /\ ~Asks(p) /\ u \in MessageType /\ u.text = Question(q)
  <2>1. <<"prompt">> \in OtherTexts /\ <<"prompt">> \in TextType /\ Question(q) \in TextType
    BY DEF OtherTexts, TextType
  <2>2. "system" \in RoleType /\ "user" \in RoleType
    BY DEF RoleType
  <2>3. p \in MessageType /\ p.text = <<"prompt">> /\ u \in MessageType /\ u.text = Question(q)
    BY <2>1, <2>2, PlainOk
  <2>4. QED
    BY <2>1, <2>3, OthersAskNothing
<1>2. Asks(u) /\ u.text[2] = q
  BY <1>1, QuestionAsks
<1>3. N \in 0..Len(turns) /\ DOMAIN turns = 1..N
  OBVIOUS
<1>4. /\ h \in Seq(MessageType) /\ Ordered(h)
      /\ \A i \in DOMAIN h : Asks(h[i]) => Before(h[i].text[2], q)
  <2>1. HistoryOk(N)
    BY <1>3, HistoryInOrder
  <2>2. \A k \in 1..N : Before(turns[k].question, q)
    BY <1>3
  <2> HIDE DEF N
  <2>3. QED
    BY <2>1, <2>2 DEF HistoryOk
<1>5. buildLLMMessages(q) = (<<p>> \o h) \o <<u>>
  BY DEF buildLLMMessages
<1> HIDE DEF p, u, h, N
<1>6. /\ <<p>> \in Seq(MessageType) /\ DOMAIN <<p>> = {1} /\ <<p>>[1] = p
      /\ <<u>> \in Seq(MessageType) /\ DOMAIN <<u>> = {1} /\ <<u>>[1] = u
  BY <1>1
<1>7. Ordered(<<p>>) /\ Ordered(<<u>>)
  BY <1>1, <1>6 DEF Ordered
<1> DEFINE a == <<p>> \o h
<1>8. a \in Seq(MessageType) /\ Ordered(a)
  <2>1. \A i \in DOMAIN <<p>>, j \in DOMAIN h :
          Asks(<<p>>[i]) /\ Asks(h[j]) => Before(<<p>>[i].text[2], h[j].text[2])
    BY <1>1, <1>6
  <2>2. Joins(<<p>>, h)
    BY <1>4, <1>6, <1>7, <2>1, Zenon DEF Joins
  <2>3. QED
    BY <2>2, JoinOrdered
<1>9. \A i \in DOMAIN a : Asks(a[i]) => Before(a[i].text[2], q)
  <2> SUFFICES ASSUME NEW i \in DOMAIN a, Asks(a[i]) PROVE Before(a[i].text[2], q)
    OBVIOUS
  <2>1. i = 1 \/ (i - 1 \in DOMAIN h /\ a[i] = h[i - 1])
    BY <1>4, <1>6
  <2>2. CASE i = 1
    <3>1. a[i] = p
      BY <1>4, <1>6, <2>2
    <3>2. QED
      BY <1>1, <3>1
  <2>3. QED
    BY <1>4, <2>1, <2>2
<1> HIDE DEF a
<1>10. Ordered(a \o <<u>>)
  <2>1. \A i \in DOMAIN a, j \in DOMAIN <<u>> :
          Asks(a[i]) /\ Asks(<<u>>[j]) => Before(a[i].text[2], <<u>>[j].text[2])
    BY <1>2, <1>6, <1>9
  <2>2. QED
    BY <1>6, <1>7, <1>8, <2>1, OrderedConcat
<1>11. a \o <<u>> \in Seq(MessageType) /\ Len(a \o <<u>>) = Len(a) + 1 /\ (a \o <<u>>)[Len(a) + 1] = u
  BY <1>1, <1>6, <1>8
<1>12. a \o <<u>> # <<>>
  BY <1>6, <1>8, <1>11
<1>13. buildLLMMessages(q) = a \o <<u>>
  BY <1>5 DEF a
<1>14. QED
  BY <1>10, <1>11, <1>12, <1>13 DEF u

\* A message that reports the calls, or the result of one, asks nothing.
CallsMessage == Message("assistant", content, calls, "")
LEMMA CallsOk ==
  ASSUME content \in {<<>>, <<"answer">>}, calls \in Seq(CallType)
  PROVE  /\ CallsMessage \in MessageType /\ ~Asks(CallsMessage)
         /\ CallsMessage.role = "assistant" /\ CallsMessage.calls = calls
<1> DEFINE d == ""
<1>1. d \in Ids /\ content \in OtherTexts
  BY DEF Ids, OtherTexts
<1>2. content \in TextType /\ "assistant" \in RoleType
  BY <1>1 DEF TextType, RoleType
<1> HIDE DEF d
<1>3. /\ Message("assistant", content, calls, d) \in MessageType
      /\ Message("assistant", content, calls, d).text = content
      /\ Message("assistant", content, calls, d).role = "assistant"
      /\ Message("assistant", content, calls, d).calls = calls
  BY <1>1, <1>2, MessageOk
<1>4. CallsMessage = Message("assistant", content, calls, d)
  BY DEF CallsMessage, d
<1>5. QED
  BY <1>1, <1>3, <1>4, OthersAskNothing

\* The results of tools.
Outcomes(rs) == \A j \in DOMAIN rs : rs[j].role = "tool" /\ rs[j].text \in ResultTexts

\* The list of the second request: the exchange's own, the calls and the results.
LEMMA SummaryOk ==
  ASSUME msgs \in Seq(MessageType), Ordered(msgs), content \in {<<>>, <<"answer">>},
         calls \in Seq(CallType), NEW rs \in Seq(MessageType), Outcomes(rs)
  PROVE  /\ Summary(rs) \in Seq(MessageType) /\ Ordered(Summary(rs))
         /\ Len(Summary(rs)) = Len(msgs) + 1 + Len(rs)
         /\ \A i \in DOMAIN msgs : i \in DOMAIN Summary(rs) /\ Summary(rs)[i] = msgs[i]
         /\ Summary(rs)[Len(msgs) + 1] = CallsMessage
         /\ \A j \in DOMAIN rs : Summary(rs)[Len(msgs) + 1 + j] = rs[j]
         /\ \A i \in DOMAIN Summary(rs) : i \notin DOMAIN msgs => ~Asks(Summary(rs)[i])
<1> DEFINE c == CallsMessage
           t == <<c>> \o rs
           s == msgs \o t
<1>1. c \in MessageType /\ ~Asks(c)
  BY CallsOk
<1>2. \A j \in DOMAIN rs : ~Asks(rs[j])
  <2> SUFFICES ASSUME NEW j \in DOMAIN rs PROVE ~Asks(rs[j])
    OBVIOUS
  <2>1. rs[j].text \in OtherTexts
    BY DEF Outcomes, OtherTexts
  <2>2. QED
    BY <2>1, OthersAskNothing
<1> HIDE DEF c
<1>3. /\ t \in Seq(MessageType) /\ Len(t) = 1 + Len(rs) /\ t[1] = c /\ DOMAIN t = 1..(1 + Len(rs))
      /\ \A j \in DOMAIN rs : t[1 + j] = rs[j]
      /\ Len(rs) \in Nat /\ DOMAIN rs = 1..Len(rs)
  <2>1. <<c>> \in Seq(MessageType) /\ Len(<<c>>) = 1 /\ <<c>>[1] = c
    BY <1>1
  <2>2. QED
    BY <2>1
<1>4. \A i \in DOMAIN t : ~Asks(t[i])
  <2> SUFFICES ASSUME NEW i \in DOMAIN t PROVE ~Asks(t[i])
    OBVIOUS
  <2> HIDE DEF t
  <2>1. i = 1 \/ (i - 1 \in DOMAIN rs /\ i = 1 + (i - 1))
    BY <1>3
  <2>2. i = 1 \/ (\E j \in DOMAIN rs : t[i] = rs[j])
    BY <1>3, <2>1
  <2>3. QED
    BY <1>1, <1>2, <1>3, <2>2
<1> HIDE DEF t
<1>5. Ordered(t)
  BY <1>4, SilentOrdered
<1>6. s \in Seq(MessageType) /\ Ordered(s)
  <2>1. Joins(msgs, t)
    BY <1>3, <1>4, <1>5 DEF Joins
  <2>2. QED
    BY <2>1, JoinOrdered
<1>7. /\ Len(s) = Len(msgs) + 1 + Len(rs) /\ DOMAIN s = 1..Len(s) /\ DOMAIN msgs = 1..Len(msgs)
      /\ Len(msgs) \in Nat
      /\ \A i \in DOMAIN msgs : i \in DOMAIN s /\ s[i] = msgs[i]
      /\ \A i \in DOMAIN t : s[Len(msgs) + i] = t[i]
  <2>1. Len(s) = Len(msgs) + Len(t) /\ Len(msgs) \in Nat /\ Len(t) \in Nat
    <3>1. t \in Seq(MessageType)
      BY <1>3
    <3>2. Len(msgs) \in Nat /\ Len(t) \in Nat
      BY <3>1, LenProperties
    <3>3. QED
      BY <3>1, <3>2, ConcatProperties
  <2>2. \A i \in 1..Len(msgs) : s[i] = msgs[i]
    BY <1>3
  <2>3. \A i \in 1..Len(t) : s[Len(msgs) + i] = t[i]
    BY <1>3
  <2>4. DOMAIN s = 1..Len(s) /\ DOMAIN msgs = 1..Len(msgs) /\ DOMAIN t = 1..Len(t)
    BY <1>3, <1>6
  <2> HIDE DEF s
  <2>5. \A i \in 1..Len(msgs) : i \in 1..Len(s)
    BY <2>1
  <2>6. Len(s) = Len(msgs) + 1 + Len(rs)
    BY <1>3, <2>1
  <2>7. QED
    BY <2>1, <2>2, <2>3, <2>4, <2>5, <2>6
<1>8. s[Len(msgs) + 1] = c /\ \A j \in DOMAIN rs : s[Len(msgs) + 1 + j] = rs[j]
  <2>1. 1 \in DOMAIN t
    BY <1>3
  <2>2. ASSUME NEW j \in DOMAIN rs PROVE s[Len(msgs) + 1 + j] = rs[j]
    <3> HIDE DEF s
    <3>1. 1 + j \in DOMAIN t /\ Len(msgs) + (1 + j) = Len(msgs) + 1 + j
      BY <1>3, <1>7
    <3>2. QED
      BY <1>3, <1>7, <2>2, <3>1
  <2> HIDE DEF s
  <2>3. QED
    BY <1>3, <1>7, <2>1, <2>2
<1>9. \A i \in DOMAIN s : i \notin DOMAIN msgs => ~Asks(s[i])
  <2> HIDE DEF s
  <2> SUFFICES ASSUME NEW i \in DOMAIN s, i \notin DOMAIN msgs PROVE ~Asks(s[i])
    OBVIOUS
  <2>1. i - Len(msgs) \in DOMAIN t /\ i = Len(msgs) + (i - Len(msgs))
    BY <1>3, <1>7
  <2>2. s[i] = t[i - Len(msgs)]
    BY <1>7, <2>1
  <2>3. QED
    BY <1>4, <2>1, <2>2
<1>10. Summary(rs) = s
  <2>1. Summary(rs) = msgs \o <<c>> \o rs
    BY DEF Summary, c, CallsMessage
  <2>2. (msgs \o <<c>>) \o rs = s
    <3>1. <<c>> \in Seq(MessageType)
      BY <1>1
    <3>2. QED
      BY <3>1, ConcatAssociative DEF t
  <2>3. QED
    BY <2>1, <2>2
<1> HIDE DEF s
<1>11. QED
  BY <1>6, <1>7, <1>8, <1>9, <1>10 DEF c

\* A numbering of a set of positions, in their order.
Numbers(s, S) ==
  /\ s \in UNION {[1..n -> S] : n \in 0..MaxBlocks}
  /\ \A i, j \in DOMAIN s : i < j => s[i] < s[j]
  /\ \A p \in S : \E i \in DOMAIN s : s[i] = p

\* The sets of positions up to k have one of at most k elements.
Numbered(s, T, k) ==
  /\ \E m \in 0..k : s \in [1..m -> T]
  /\ \A i, j \in DOMAIN s : i < j => s[i] < s[j]
  /\ \A p \in T : \E i \in DOMAIN s : s[i] = p
AllNumbered(k) == \A T \in SUBSET (1..k) : \E s : Numbered(s, T, k)

\* The next position comes last.
LEMMA NumberNext ==
  ASSUME NEW k \in Nat, k # 0, AllNumbered(k - 1)
  PROVE  AllNumbered(k)
<1> SUFFICES ASSUME NEW T \in SUBSET (1..k) PROVE \E s : Numbered(s, T, k)
  BY DEF AllNumbered
<1> DEFINE U == T \ {k}
<1>1. U \in SUBSET (1..(k - 1)) /\ \A p \in U : p \in T /\ p < k /\ p \in Nat
  OBVIOUS
<1>2. PICK s : Numbered(s, U, k - 1)
  BY <1>1 DEF AllNumbered
<1>3. PICK m \in 0..(k - 1) : s \in [1..m -> U]
  BY <1>2 DEF Numbered
<1>4. /\ DOMAIN s = 1..m /\ m \in Nat /\ m + 1 \in 0..k /\ m \in 0..k
      /\ \A i \in 1..m : s[i] \in U
  BY <1>3
<1>5. /\ \A i, j \in 1..m : i < j => s[i] < s[j]
      /\ \A p \in U : \E i \in 1..m : s[i] = p
  BY <1>2, <1>4 DEF Numbered
<1>6. CASE k \notin T
  <2>1. U = T
    BY <1>6
  <2>2. Numbered(s, T, k)
    BY <1>3, <1>4, <1>5, <2>1 DEF Numbered
  <2>3. QED
    BY <2>2
<1>7. CASE k \in T
  <2> DEFINE r == [i \in 1..(m + 1) |-> IF i <= m THEN s[i] ELSE k]
  <2>1. /\ DOMAIN r = 1..(m + 1) /\ r[m + 1] = k
        /\ \A i \in 1..m : i \in 1..(m + 1) /\ r[i] = s[i]
        /\ \A i \in 1..(m + 1) : i \in 1..m \/ i = m + 1
    BY <1>4
  <2>2. r \in [1..(m + 1) -> T]
    BY <1>1, <1>4, <1>7
  <2> HIDE DEF r, U
  <2>3. ASSUME NEW i \in 1..(m + 1), NEW j \in 1..(m + 1), i < j PROVE r[i] < r[j]
    <3>1. i \in 1..m /\ r[i] = s[i] /\ s[i] \in U
      BY <1>4, <2>1, <2>3
    <3>2. CASE j \in 1..m
      BY <1>5, <2>1, <2>3, <3>1, <3>2
    <3>3. CASE j = m + 1
      BY <1>1, <2>1, <3>1, <3>3
    <3>4. QED
      BY <2>1, <3>2, <3>3
  <2>4. ASSUME NEW p \in T PROVE \E i \in 1..(m + 1) : r[i] = p
    <3>1. CASE p = k
      <4>1. m + 1 \in 1..(m + 1)
        BY <1>4
      <4>2. QED
        BY <2>1, <3>1, <4>1
    <3>2. CASE p # k
      <4>1. p \in U
        BY <3>2 DEF U
      <4>2. PICK i \in 1..m : s[i] = p
        BY <1>5, <4>1
      <4>3. QED
        BY <2>1, <4>2
    <3>3. QED
      BY <3>1, <3>2
  <2>5. Numbered(r, T, k)
    BY <1>4, <2>1, <2>2, <2>3, <2>4 DEF Numbered
  <2>6. QED
    BY <2>5
<1>8. QED
  BY <1>6, <1>7

\* InOrder is a numbering: there is one.
LEMMA InOrderOk ==
  ASSUME NEW n \in 0..MaxBlocks, NEW S \in SUBSET (1..n)
  PROVE  Numbers(InOrder(S), S)
<1>1. MaxBlocks \in Nat /\ n \in Nat
  BY ProvidersAssumption
<1> DEFINE good == {k \in 0..n : AllNumbered(k)}
<1>2. 0 \in good
  <2> DEFINE s == [i \in 1..0 |-> 0]
  <2>1. ASSUME NEW T \in SUBSET (1..0) PROVE Numbered(s, T, 0)
    <3>1. T = {} /\ DOMAIN s = {} /\ s \in [1..0 -> T] /\ 0 \in 0..0
      OBVIOUS
    <3> HIDE DEF s
    <3>2. QED
      BY <3>1 DEF Numbered
  <2> HIDE DEF s
  <2>2. AllNumbered(0)
    BY <2>1 DEF AllNumbered
  <2>3. QED
    BY <1>1, <2>2
<1>3. ASSUME NEW k \in (0 + 1)..n, k - 1 \in good PROVE k \in good
  <2>1. k \in Nat /\ k # 0 /\ k \in 0..n /\ AllNumbered(k - 1)
    BY <1>1, <1>3
  <2>2. AllNumbered(k)
    BY <2>1, NumberNext
  <2>3. QED
    BY <2>1, <2>2
<1> HIDE DEF good
<1>4. \A k \in 0..n : k \in good
  <2>1. 0 \in Nat /\ \A k \in (0 + 1)..n : k - 1 \in good => k \in good
    BY <1>3
  <2>2. QED
    BY <1>1, <1>2, <2>1, UpTo
<1>5. AllNumbered(n)
  <2>1. n \in good
    BY <1>1, <1>4
  <2>2. QED
    BY <2>1 DEF good
<1>6. PICK s : Numbered(s, S, n)
  BY <1>5 DEF AllNumbered
<1>7. Numbers(s, S)
  <2>1. \A m \in 0..n : m \in 0..MaxBlocks
    BY <1>1
  <2>2. QED
    BY <1>6, <2>1 DEF Numbered, Numbers
<1>8. InOrder(S) = CHOOSE r : Numbers(r, S)
  BY Zenon DEF InOrder, Numbers
<1>9. QED
  BY <1>7, <1>8

\* A client gives each call of the answer a name and an id.
LEMMA ResponseOk ==
  ASSUME NEW n \in 0..MaxBlocks, NEW b \in [1..n -> Block], NEW ids, DOMAIN ids = 1..n,
         \A i \in 1..n : b[i].kind = "call" => ids[i] \in Ids
  PROVE  /\ Response(b, ids).content \in {<<>>, <<"answer">>}
         /\ Response(b, ids).calls \in Seq(CallType)
         /\ Len(Response(b, ids).calls) <= MaxBlocks
<1> DEFINE S == Positions(b, "call")
           at == InOrder(S)
           cs == [k \in DOMAIN at |-> [id |-> ids[at[k]], name |-> b[at[k]].name]]
<1>1. S \in SUBSET (1..n) /\ \A p \in S : b[p].kind = "call"
  BY DEF Positions
<1> HIDE DEF S
<1>2. Numbers(at, S)
  BY <1>1, InOrderOk
<1> HIDE DEF at
<1>3. PICK m \in 0..MaxBlocks : at \in [1..m -> S]
  BY <1>2 DEF Numbers
<1>4. \A k \in 1..m : [id |-> ids[at[k]], name |-> b[at[k]].name] \in CallType
  <2> SUFFICES ASSUME NEW k \in 1..m
               PROVE  [id |-> ids[at[k]], name |-> b[at[k]].name] \in CallType
    OBVIOUS
  <2>1. at[k] \in S /\ at[k] \in 1..n /\ b[at[k]].kind = "call"
    BY <1>1, <1>3
  <2>2. b[at[k]] \in Block
    BY <2>1
  <2>3. b[at[k]].name \in LLMTools
    BY <2>1, <2>2 DEF Block
  <2>4. ids[at[k]] \in Ids
    BY <2>1
  <2>5. QED
    BY <2>3, <2>4 DEF CallType
<1>5. cs \in [1..m -> CallType] /\ m \in Nat
  <2>1. DOMAIN at = 1..m /\ MaxBlocks \in Nat
    BY <1>3, ProvidersAssumption
  <2>2. QED
    BY <1>4, <2>1
<1>6. cs \in Seq(CallType) /\ Len(cs) = m
  <2> HIDE DEF cs
  <2>1. QED
    BY <1>5
<1>7. Response(b, ids).calls = cs
  BY DEF Response, at, S
<1>8. Response(b, ids).content \in {<<>>, <<"answer">>}
  BY DEF Response
<1> HIDE DEF cs
<1>9. m <= MaxBlocks
  BY ProvidersAssumption
<1>10. QED
  BY <1>6, <1>7, <1>8, <1>9

\* What a client returns for an answer of its service.
LEMMA AnswerOk ==
  ASSUME provider \in Providers, NEW b \in Answers
  PROVE  /\ parseResponse(b).content \in {<<>>, <<"answer">>}
         /\ parseResponse(b).calls \in Seq(CallType)
         /\ Len(parseResponse(b).calls) <= MaxBlocks
<1>1. PICK n \in 0..MaxBlocks : b \in [1..n -> Block]
  BY DEF Answers
<1>2. \A i \in 1..n : i \in 1..MaxBlocks
  BY ProvidersAssumption
<1>3. \A i \in 1..n : ServiceIds[i] \in Ids
  BY <1>2 DEF Ids
<1>4. \A i \in 1..n : b[i].kind = "call" => b[i].name \in Ids
  <2> SUFFICES ASSUME NEW i \in 1..n, b[i].kind = "call" PROVE b[i].name \in Ids
    OBVIOUS
  <2>1. b[i] \in Block
    BY <1>1
  <2>2. QED
    BY <2>1 DEF Block, Ids
<1> DEFINE ok(r) == /\ r.content \in {<<>>, <<"answer">>} /\ r.calls \in Seq(CallType)
                    /\ Len(r.calls) <= MaxBlocks
<1>5. ok(Response(b, OfService(b)))
  <2>1. DOMAIN OfService(b) = 1..n /\ \A i \in 1..n : OfService(b)[i] \in Ids
    BY <1>1, <1>3 DEF OfService
  <2>2. QED
    BY <1>1, <2>1, ResponseOk
<1>6. ok(Response(b, OfName(b)))
  <2>1. DOMAIN OfName(b) = 1..n /\ \A i \in 1..n : b[i].kind = "call" => OfName(b)[i] \in Ids
    BY <1>1, <1>4 DEF OfName
  <2>2. QED
    BY <1>1, <2>1, ResponseOk
<1>7. ok(Response(b, Dropped(b)))
  <2>1. DOMAIN Dropped(b) = 1..n /\ \A i \in 1..n : Dropped(b)[i] \in Ids
    BY <1>1 DEF Dropped, Ids
  <2>2. QED
    BY <1>1, <2>1, ResponseOk
<1>8. \/ parseResponse(b) = Response(b, OfService(b))
      \/ parseResponse(b) = Response(b, OfName(b))
      \/ parseResponse(b) = Response(b, Dropped(b))
  BY DEF parseResponse, Providers, openAIResponse, anthropicResponse, geminiResponse, ollamaResponse
<1>9. ok(parseResponse(b))
  BY <1>5, <1>6, <1>7, <1>8
<1>10. QED
  BY <1>9

\* What the wire keeps of the messages: their texts, the questions in their order,
\* and none but system messages may be dropped.
Carries(w) ==
  /\ Len(w) \in Nat /\ DOMAIN w = 1..Len(w) /\ Ordered(w)
  /\ \A i \in DOMAIN w : \E j \in DOMAIN sent : w[i].text = sent[j].text
  /\ \A j \in DOMAIN sent : sent[j].role # "system" => \E i \in DOMAIN w : w[i].text = sent[j].text

\* The messages behind the first m end the wire too, an assistant as itself.
EndsWith(w, m) ==
  /\ Len(w) >= Len(sent) - m
  /\ \A j \in 1..(Len(sent) - m) :
       /\ w[Len(w) - (Len(sent) - m) + j].text = sent[m + j].text
       /\ sent[m + j].role = "assistant" =>
            w[Len(w) - (Len(sent) - m) + j].role \in {"assistant", "model"}

\* A client that converts message by message.
LEMMA OneByOne ==
  ASSUME sent \in Seq(MessageType), Ordered(sent), NEW w, NEW R, w \in [DOMAIN sent -> R],
         \A i \in DOMAIN sent :
           /\ w[i].text = sent[i].text
           /\ sent[i].role = "assistant" => w[i].role \in {"assistant", "model"}
  PROVE  Carries(w) /\ \A m \in 0..Len(sent) : EndsWith(w, m)
<1>1. Len(sent) \in Nat /\ DOMAIN sent = 1..Len(sent) /\ DOMAIN w = DOMAIN sent
  OBVIOUS
<1>2. Len(w) = Len(sent)
  <2>1. w \in Seq(R)
    BY <1>1
  <2>2. QED
    BY <1>1, <2>1
<1>3. Ordered(w)
  <2> SUFFICES ASSUME NEW i \in DOMAIN w, NEW j \in DOMAIN w, i < j, Asks(w[i]), Asks(w[j])
               PROVE  Before(w[i].text[2], w[j].text[2])
    BY DEF Ordered
  <2>1. w[i].text = sent[i].text /\ w[j].text = sent[j].text
    BY <1>1
  <2>2. Asks(sent[i]) /\ Asks(sent[j])
    BY <2>1 DEF Asks
  <2>3. QED
    BY <1>1, <2>1, <2>2 DEF Ordered
<1>4. Carries(w)
  BY <1>1, <1>2, <1>3 DEF Carries
<1>5. ASSUME NEW m \in 0..Len(sent) PROVE EndsWith(w, m)
  <2>1. Len(w) >= Len(sent) - m
    BY <1>1, <1>2
  <2>2. ASSUME NEW j \in 1..(Len(sent) - m)
        PROVE  Len(w) - (Len(sent) - m) + j = m + j /\ m + j \in DOMAIN sent
    BY <1>1, <1>2
  <2>3. QED
    BY <2>1, <2>2 DEF EndsWith
<1>6. QED
  BY <1>4, <1>5

\* The fields of a message without calls.
LEMMA PlainFields ==
  ASSUME NEW r, NEW t
  PROVE  Plain(r, t).role = r /\ Plain(r, t).text = t
BY DEF Plain, Message

\* What each client puts on the wire.
LEMMA WireKeeps ==
  ASSUME provider \in Providers, sent \in Seq(MessageType), Ordered(sent)
  PROVE  /\ Carries(convertMessages)
         /\ \A m \in 0..Len(sent) :
              (\A j \in (m + 1)..Len(sent) : sent[j].role # "system") => EndsWith(convertMessages, m)
<1>1. CASE provider = "openai"
  <2>1. convertMessages = sent
    BY <1>1 DEF convertMessages, openAIMessages
  <2>2. sent \in [DOMAIN sent -> MessageType]
    OBVIOUS
  <2>3. QED
    BY <2>1, <2>2, OneByOne
<1>2. CASE provider = "gemini"
  <2> DEFINE e(i) == Plain(IF sent[i].role = "assistant" THEN "model" ELSE "user", sent[i].text)
             w == [i \in DOMAIN sent |-> e(i)]
             R == {e(i) : i \in DOMAIN sent}
  <2>1. convertMessages = w
    BY <1>2 DEF convertMessages, geminiMessages
  <2>2. \A i \in DOMAIN sent : /\ e(i).text = sent[i].text
                               /\ sent[i].role = "assistant" => e(i).role = "model"
    BY PlainFields
  <2> HIDE DEF e
  <2>3. w \in [DOMAIN sent -> R] /\ \A i \in DOMAIN sent : w[i] = e(i)
    OBVIOUS
  <2> HIDE DEF w, R
  <2>4. Carries(w) /\ \A m \in 0..Len(sent) : EndsWith(w, m)
    BY <2>2, <2>3, OneByOne
  <2>5. QED
    BY <2>1, <2>4
<1>3. CASE provider = "ollama"
  <2> DEFINE e(i) == Plain(sent[i].role, sent[i].text)
             w == [i \in DOMAIN sent |-> e(i)]
             R == {e(i) : i \in DOMAIN sent}
  <2>1. convertMessages = w
    BY <1>3 DEF convertMessages, ollamaMessages
  <2>2. \A i \in DOMAIN sent : e(i).text = sent[i].text /\ e(i).role = sent[i].role
    BY PlainFields
  <2> HIDE DEF e
  <2>3. w \in [DOMAIN sent -> R] /\ \A i \in DOMAIN sent : w[i] = e(i)
    OBVIOUS
  <2> HIDE DEF w, R
  <2>4. Carries(w) /\ \A m \in 0..Len(sent) : EndsWith(w, m)
    BY <2>2, <2>3, OneByOne
  <2>5. QED
    BY <2>1, <2>4
<1>4. CASE provider = "anthropic"
  <2> DEFINE N == Len(sent)
             w == Kept[N]
  <2>1. convertMessages = w
    BY <1>4 DEF convertMessages, anthropicMessages
  <2>2. N \in 0..Len(sent) /\ DOMAIN sent = 1..N
    OBVIOUS
  <2>3. KeptOk(N)
    BY <2>2, KeptInOrder
  <2>4. Carries(w)
    <3>1. w \in Seq(MessageType) /\ Ordered(w)
      BY <2>3 DEF KeptOk
    <3>2. /\ \A i \in DOMAIN w : \E j \in 1..N : w[i].text = sent[j].text
          /\ \A j \in 1..N : sent[j].role # "system" => \E i \in DOMAIN w : w[i].text = sent[j].text
      BY <2>3 DEF KeptOk
    <3> HIDE DEF w, N
    <3>3. Len(w) \in Nat /\ DOMAIN w = 1..Len(w)
      BY <3>1
    <3>4. QED
      BY <2>2, <3>1, <3>2, <3>3 DEF Carries
  <2>5. ASSUME NEW m \in 0..Len(sent), \A j \in (m + 1)..Len(sent) : sent[j].role # "system"
        PROVE  EndsWith(w, m)
    <3>1. TailOk(m, Len(sent))
      BY <2>5, KeptTail
    <3>2. /\ Len(w) >= Len(sent) - m
          /\ \A j \in 1..(Len(sent) - m) :
               /\ w[Len(w) - (Len(sent) - m) + j].role = sent[m + j].role
               /\ w[Len(w) - (Len(sent) - m) + j].text = sent[m + j].text
      BY <3>1 DEF TailOk
    <3> HIDE DEF w
    <3>3. QED
      BY <3>2 DEF EndsWith
  <2> HIDE DEF w
  <2>6. QED
    BY <2>1, <2>4, <2>5
<1>5. QED
  BY <1>1, <1>2, <1>3, <1>4 DEF Providers

\* A request whose messages ask in order, the exchange's question last.
Posed ==
  /\ sent \in Seq(MessageType) /\ Ordered(sent) /\ question \in 1..MaxQuestions
  /\ \E i \in DOMAIN sent : sent[i].text = Question(question) /\ sent[i].role # "system"
  /\ \A i \in DOMAIN sent : Asks(sent[i]) =>
       sent[i].text[2] = question \/ Before(sent[i].text[2], question)

LEMMA PosedOnWire ==
  ASSUME ProviderTypeOK, Posed
  PROVE  QuestionsOnWire
<1> DEFINE w == convertMessages
<1>1. Carries(w)
  BY WireKeeps DEF Posed, ProviderTypeOK
<1> HIDE DEF w
<1>2. PICK i \in DOMAIN w : w[i].text = Question(question)
  BY <1>1 DEF Posed, Carries
<1>3. ASSUME NEW j \in DOMAIN w, Asks(w[j]) PROVE j <= i
  <2>1. PICK k \in DOMAIN sent : w[j].text = sent[k].text
    BY <1>1 DEF Carries
  <2>2. Asks(sent[k])
    BY <1>3, <2>1 DEF Asks
  <2>3. w[j].text[2] = question \/ Before(w[j].text[2], question)
    BY <2>1, <2>2 DEF Posed
  <2>4. Asks(w[i]) /\ w[i].text[2] = question /\ question \in 1..MaxQuestions
    BY <1>2, QuestionAsks DEF Posed
  <2>5. w[j].text[2] \in 1..MaxQuestions
    BY <1>3, AskedNumber
  <2>6. i \in Nat /\ j \in Nat
    BY <1>1 DEF Carries
  <2>7. i < j => Before(question, w[j].text[2])
    BY <1>1, <1>3, <2>4 DEF Carries, Ordered
  <2>8. ~Before(question, w[j].text[2])
    BY <2>3, <2>4, <2>5, BeforeStrict
  <2>9. QED
    BY <2>6, <2>7, <2>8
<1>4. Ordered(w)
  BY <1>1 DEF Carries
<1>5. QED
  BY <1>2, <1>3, <1>4 DEF QuestionsOnWire, w

\* The types of the messages and the response.
LEMMA ListTypes ==
  ASSUME ProviderTypeOK
  PROVE  /\ msgs \in Seq(MessageType) /\ sent \in Seq(MessageType) /\ results \in Seq(MessageType)
         /\ content \in {<<>>, <<"answer">>} /\ calls \in Seq(CallType)
         /\ provider \in Providers /\ asked \in 0..MaxQuestions /\ turns \in Seq(TurnType)
BY DEF ProviderTypeOK

\* The question of an exchange is the last its list asks.
LEMMA AboutAsks ==
  ASSUME NEW ms \in Seq(MessageType), NEW q, About(ms, q), asked \in 0..MaxQuestions
  PROVE  /\ q \in 1..MaxQuestions /\ Ordered(ms)
         /\ Len(ms) \in DOMAIN ms /\ ms[Len(ms)].text = Question(q) /\ ms[Len(ms)].role = "user"
         /\ \A i \in DOMAIN ms : Asks(ms[i]) => ms[i].text[2] = q \/ Before(ms[i].text[2], q)
<1>1. /\ q \in 1..asked /\ ms # <<>> /\ Ordered(ms)
      /\ ms[Len(ms)] = Plain("user", Question(q))
  BY DEF About
<1>2. q \in 1..MaxQuestions /\ q \in Nat
  BY <1>1, ProvidersAssumption
<1>3. Len(ms) \in DOMAIN ms /\ Len(ms) \in Nat /\ DOMAIN ms = 1..Len(ms)
  BY <1>1
<1>4. ms[Len(ms)].text = Question(q) /\ ms[Len(ms)].role = "user"
  BY <1>1, PlainFields
<1>5. Asks(ms[Len(ms)]) /\ ms[Len(ms)].text[2] = q
  BY <1>2, <1>4, QuestionAsks
<1>6. ASSUME NEW i \in DOMAIN ms, Asks(ms[i])
      PROVE  ms[i].text[2] = q \/ Before(ms[i].text[2], q)
  <2>1. i < Len(ms) => Before(ms[i].text[2], q)
    BY <1>1, <1>3, <1>5, <1>6 DEF Ordered
  <2>2. i < Len(ms) \/ i = Len(ms)
    BY <1>3
  <2>3. QED
    BY <1>5, <2>1, <2>2
<1>7. QED
  BY <1>1, <1>2, <1>3, <1>4, <1>6

\* The second request of an exchange.
LEMMA SecondRequest ==
  ASSUME ProviderTypeOK, ExchangeKept, llmAt = "final"
  PROVE  /\ About(msgs, question) /\ sent = Summary(results) /\ Outcomes(results)
         /\ Len(results) \in 1..Len(calls)
         /\ \A j \in DOMAIN results : results[j].id = calls[Len(calls) - Len(results) + j].id
<1>1. /\ About(msgs, question) /\ sent = Summary(results) /\ ResultsSoFar
      /\ index = Len(calls) + 1 /\ results # <<>>
  BY DEF ExchangeKept
<1>2. results \in Seq(MessageType) /\ calls \in Seq(CallType)
  BY ListTypes
<1>3. Len(results) \in Nat /\ Len(calls) \in Nat /\ Len(results) # 0 /\ DOMAIN results = 1..Len(results)
  BY <1>1, <1>2
<1>4. Outcomes(results)
  BY <1>1 DEF ResultsSoFar, Outcomes
<1>5. Len(results) \in 1..Len(calls)
  BY <1>1, <1>3 DEF ResultsSoFar
<1>6. ASSUME NEW j \in DOMAIN results
      PROVE  results[j].id = calls[Len(calls) - Len(results) + j].id
  <2>1. index - 1 - Len(results) + j = Len(calls) - Len(results) + j
    BY <1>1, <1>3
  <2>2. QED
    BY <1>1, <2>1 DEF ResultsSoFar
<1>7. QED
  BY <1>1, <1>4, <1>5, <1>6

\* Each request of an exchange poses its question last.
LEMMA RequestPosed ==
  ASSUME ProviderTypeOK, ExchangeKept, llmAt \in {"first", "final"}
  PROVE  Posed
<1>1. /\ msgs \in Seq(MessageType) /\ results \in Seq(MessageType)
      /\ content \in {<<>>, <<"answer">>} /\ calls \in Seq(CallType) /\ asked \in 0..MaxQuestions
  BY ListTypes
<1>2. About(msgs, question)
  BY DEF ExchangeKept
<1>3. /\ question \in 1..MaxQuestions /\ Ordered(msgs)
      /\ Len(msgs) \in DOMAIN msgs /\ msgs[Len(msgs)].text = Question(question)
      /\ msgs[Len(msgs)].role = "user"
      /\ \A i \in DOMAIN msgs : Asks(msgs[i]) =>
           msgs[i].text[2] = question \/ Before(msgs[i].text[2], question)
  BY <1>1, <1>2, AboutAsks
<1>4. CASE llmAt = "first"
  <2>1. sent = msgs
    BY <1>4 DEF ExchangeKept
  <2>2. QED
    BY <1>1, <1>3, <2>1 DEF Posed
<1>5. CASE llmAt = "final"
  <2>1. sent = Summary(results) /\ Outcomes(results)
    BY <1>5, SecondRequest
  <2> DEFINE s == Summary(results)
  <2>2. /\ s \in Seq(MessageType) /\ Ordered(s)
        /\ \A i \in DOMAIN msgs : i \in DOMAIN s /\ s[i] = msgs[i]
        /\ \A i \in DOMAIN s : i \notin DOMAIN msgs => ~Asks(s[i])
    BY <1>1, <1>3, <2>1, SummaryOk
  <2>3. sent = s
    BY <2>1
  <2> HIDE DEF s
  <2>4. s[Len(msgs)].text = Question(question) /\ s[Len(msgs)].role # "system" /\ Len(msgs) \in DOMAIN s
    BY <1>3, <2>2
  <2>5. ASSUME NEW i \in DOMAIN s, Asks(s[i])
        PROVE  s[i].text[2] = question \/ Before(s[i].text[2], question)
    <3>1. i \in DOMAIN msgs /\ s[i] = msgs[i]
      BY <2>2, <2>5
    <3>2. QED
      BY <1>3, <2>5, <3>1
  <2>6. QED
    BY <1>3, <2>2, <2>3, <2>4, <2>5 DEF Posed
<1>6. QED
  BY <1>4, <1>5

\* The second request carries the results where the service looks for them.
LEMMA ResultsCarried ==
  ASSUME ProviderTypeOK, ExchangeKept
  PROVE  ResultsOnWire
<1> SUFFICES ASSUME llmAt = "final" PROVE ResultsOnWire
  BY DEF ResultsOnWire
<1> DEFINE w == convertMessages
           k == Len(results)
           n == Len(w)
           M == Len(msgs)
<1>1. /\ msgs \in Seq(MessageType) /\ results \in Seq(MessageType)
      /\ content \in {<<>>, <<"answer">>} /\ calls \in Seq(CallType)
      /\ provider \in Providers /\ asked \in 0..MaxQuestions
  BY ListTypes
<1>2. /\ sent = Summary(results) /\ Outcomes(results) /\ k \in 1..Len(calls)
      /\ \A j \in DOMAIN results : results[j].id = calls[Len(calls) - k + j].id
  BY SecondRequest
<1>3. Posed
  BY RequestPosed
<1>4. sent \in Seq(MessageType) /\ Ordered(sent)
  BY <1>3 DEF Posed
<1>5. Ordered(msgs)
  BY <1>1, SecondRequest, AboutAsks
<1>6. /\ Len(sent) = M + 1 + k /\ sent[M + 1] = CallsMessage
      /\ \A j \in DOMAIN results : sent[M + 1 + j] = results[j]
  BY <1>1, <1>2, <1>5, SummaryOk
<1>7. CallsMessage.role = "assistant" /\ CallsMessage.calls = calls
  BY <1>1, CallsOk
<1>8. M \in Nat /\ k \in Nat /\ Len(calls) \in Nat /\ DOMAIN results = 1..k
  BY <1>1
<1> HIDE DEF w, k, M
<1>9. \A j \in (M + 1)..Len(sent) : sent[j].role # "system"
  <2> SUFFICES ASSUME NEW j \in (M + 1)..Len(sent) PROVE sent[j].role # "system"
    OBVIOUS
  <2>1. j = M + 1 \/ (j - M - 1 \in 1..k /\ j = M + 1 + (j - M - 1))
    <3>1. j \in (M + 1)..(M + 1 + k) /\ M \in Nat /\ k \in Nat
      BY <1>6, <1>8
    <3>2. QED
      BY <3>1
  <2>2. CASE j = M + 1
    BY <1>6, <1>7, <2>2
  <2>3. CASE j - M - 1 \in 1..k /\ j = M + 1 + (j - M - 1)
    <3>1. sent[j] = results[j - M - 1] /\ j - M - 1 \in DOMAIN results
      BY <1>6, <1>8, <2>3
    <3>2. QED
      BY <1>2, <3>1 DEF Outcomes
  <2>4. QED
    BY <2>1, <2>2, <2>3
<1>10. Carries(w) /\ EndsWith(w, M)
  <2>1. M \in 0..Len(sent)
    BY <1>6, <1>8
  <2>2. QED
    BY <1>1, <1>4, <1>9, <2>1, WireKeeps DEF w
<1>11. n \in Nat
  BY <1>10 DEF Carries
<1> HIDE DEF n
<1>12. /\ Len(sent) - M = k + 1 /\ n >= k + 1
       /\ \A j \in 1..(k + 1) :
            /\ w[n - (k + 1) + j].text = sent[M + j].text
            /\ sent[M + j].role = "assistant" => w[n - (k + 1) + j].role \in {"assistant", "model"}
  <2>1. Len(sent) - M = k + 1
    BY <1>6, <1>8
  <2>2. QED
    BY <1>10, <2>1 DEF EndsWith, n
<1>13. n > k /\ w[n - k].role \in {"assistant", "model"}
  <2>1. n - (k + 1) + 1 = n - k /\ 1 \in 1..(k + 1) /\ n > k
    BY <1>8, <1>11, <1>12
  <2>2. sent[M + 1].role = "assistant"
    BY <1>6, <1>7
  <2>3. w[n - (k + 1) + 1].role \in {"assistant", "model"}
    BY <1>12, <2>1, <2>2
  <2>4. QED
    BY <2>1, <2>3
<1>14. ASSUME NEW j \in 1..k
       PROVE  w[n - k + j].text \in ResultTexts /\ sent[M + 1 + j] = results[j]
  <2>1. n - (k + 1) + (j + 1) = n - k + j /\ j + 1 \in 1..(k + 1) /\ M + (j + 1) = M + 1 + j
    BY <1>8, <1>11
  <2>2. sent[M + 1 + j] = results[j] /\ results[j].text \in ResultTexts
    BY <1>2, <1>6, <1>8 DEF Outcomes
  <2>3. w[n - (k + 1) + (j + 1)].text = sent[M + (j + 1)].text
    BY <1>12, <2>1
  <2>4. QED
    BY <2>1, <2>2, <2>3
<1>15. ASSUME provider = "openai", NEW j \in 1..k
       PROVE  w[n - k + j].id = w[n - k].calls[Len(w[n - k].calls) - k + j].id
  <2>1. w = sent
    BY <1>15 DEF w, convertMessages, openAIMessages
  <2>2. n - k = M + 1 /\ n - k + j = M + 1 + j
    BY <1>6, <1>8, <2>1 DEF n
  <2>3. w[n - k].calls = calls /\ w[n - k + j] = results[j]
    BY <1>6, <1>7, <1>14, <2>1, <2>2
  <2>4. results[j].id = calls[Len(calls) - k + j].id
    BY <1>2, <1>8
  <2>5. QED
    BY <2>3, <2>4
<1>16. QED
  BY <1>2, <1>13, <1>14, <1>15 DEF ResultsOnWire, w, k, n

\* What is sent follows from what the exchange keeps.
LEMMA WireRight ==
  ASSUME ProviderTypeOK, ExchangeKept
  PROVE  QuestionsOnWire /\ ResultsOnWire
<1>1. QuestionsOnWire
  <2>1. CASE llmAt \in {"first", "final"}
    BY <2>1, RequestPosed, PosedOnWire, ListTypes
  <2>2. CASE llmAt \notin {"first", "final"}
    BY <2>2 DEF QuestionsOnWire
  <2>3. QED
    BY <2>1, <2>2
<1>2. QED
  BY <1>1, ResultsCarried

\* What the exchange keeps, and what it is about, with the types.
Exchange == ProviderTypeOK /\ ExchangeKept

\* The order of two questions when the pairs ov overtook.
Precedes(ov, m, n) ==
  \/ m < n /\ <<n, m>> \notin ov
  \/ <<m, n>> \in ov

\* Turns ts of the first a questions, in their order.
TurnsKept(ts, a, ov) ==
  \A i \in DOMAIN ts :
    /\ ts[i].question <= a
    /\ \A j \in DOMAIN ts : i < j => Precedes(ov, ts[i].question, ts[j].question)

\* What an exchange keeps besides the turns.
KeptBesides ==
  /\ llmAt # "idle" => saved = <<>> /\ About(msgs, question)
  /\ saved # <<>> => About(saved.msgs, saved.question)
  /\ llmAt = "first" => sent = msgs
  /\ llmAt = "tools" => index \in DOMAIN calls /\ ResultsSoFar
  /\ llmAt = "final" =>
       index = Len(calls) + 1 /\ ResultsSoFar /\ results # <<>> /\ sent = Summary(results)

LEMMA KeptParts ==
  /\ ExchangeKept <=> TurnsKept(turns, asked, overtaking) /\ KeptBesides
  /\ ExchangeKept' <=> TurnsKept(turns', asked', overtaking') /\ KeptBesides'
BY DEF ExchangeKept, KeptBesides, TurnsKept, Precedes, Before

\* A step that leaves turns, questions and their order as they are.
LEMMA KeptTurns ==
  ASSUME ExchangeKept, UNCHANGED <<asked, overtaking>>
  PROVE  /\ TurnsKept(turns, asked', overtaking')
         /\ turns' = turns => TurnsKept(turns', asked', overtaking')
BY KeptParts

\* The program starts with no turn and no exchange.
LEMMA InitExchange ==
  ASSUME ProviderInit
  PROVE  Exchange
<1> USE DEF ProviderInit
<1>1. ProviderTypeOK
  <2>1. <<>> \in Seq(MessageType) /\ <<>> \in Seq(TurnType) /\ <<>> \in Seq(CallType) /\ Len(<<>>) = 0
    OBVIOUS
  <2>2. MaxQuestions \in Nat /\ MaxBlocks \in Nat /\ 0 \in 0..MaxQuestions /\ 1 \in 1..(MaxBlocks + 1)
    BY ProvidersAssumption
  <2>3. 0 <= MaxBlocks
    BY <2>2
  <2>4. QED
    BY <2>1, <2>2, <2>3 DEF ProviderTypeOK
<1>2. ExchangeKept
  <2>1. DOMAIN turns = {}
    OBVIOUS
  <2>2. QED
    BY <2>1 DEF ExchangeKept
<1>3. QED
  BY <1>1, <1>2 DEF Exchange

\* The user asks.
LEMMA RunLLMStep ==
  ASSUME Exchange, RunLLM
  PROVE  Exchange'
<1>1. /\ turns \in Seq(TurnType) /\ asked \in 0..MaxQuestions /\ MaxQuestions \in Nat
      /\ \A i \in DOMAIN turns : turns[i].question <= asked /\ turns[i].question \in 1..MaxQuestions
      /\ TurnsAscend
  <2>1. turns \in Seq(TurnType) /\ asked \in 0..MaxQuestions /\ MaxQuestions \in Nat
    BY ProvidersAssumption DEF Exchange, ProviderTypeOK
  <2>2. \A i \in DOMAIN turns : turns[i] \in TurnType
    BY <2>1
  <2>3. \A i \in DOMAIN turns : turns[i].question \in 1..MaxQuestions
    BY <2>2 DEF TurnType
  <2>4. QED
    BY <2>1, <2>3 DEF Exchange, ExchangeKept, TurnsAscend
<1> DEFINE q == asked + 1
<1>2. /\ q \in 1..MaxQuestions /\ asked < MaxQuestions /\ q \in Nat /\ asked \in Nat /\ asked < q
      /\ \A i \in DOMAIN turns : Before(turns[i].question, q)
  <2>1. asked < MaxQuestions
    BY DEF RunLLM
  <2>2. ASSUME NEW i \in DOMAIN turns PROVE Before(turns[i].question, q)
    <3>1. <<q, turns[i].question>> \notin overtaking
      BY <1>1 DEF Exchange, ProviderTypeOK
    <3>2. turns[i].question < q
      BY <1>1
    <3>3. QED
      BY <3>1, <3>2 DEF Before
  <2>3. QED
    BY <1>1, <2>1, <2>2
<1> DEFINE l == buildLLMMessages(q)
<1>3. l \in Seq(MessageType) /\ Ordered(l) /\ l # <<>> /\ l[Len(l)] = Plain("user", Question(q))
  BY <1>1, <1>2, ListOk
<1>4. /\ asked' = q /\ question' = q /\ msgs' = l /\ sent' = l /\ llmAt' = "first" /\ saved' = <<>>
      /\ UNCHANGED <<provider, turns, overtaking, content, calls, index, results>>
  BY DEF RunLLM, Complete, buildLLMMessages
<1> HIDE DEF q, l
<1>5. ProviderTypeOK'
  <2>1. q \in 0..MaxQuestions
    BY <1>2
  <2>2. {msgs, sent, results}' \subseteq Seq(MessageType)
    BY <1>3, <1>4 DEF Exchange, ProviderTypeOK
  <2>3. overtaking' \subseteq {p \in (1..q) \X (1..q) : p[1] > p[2]}
    <3>1. overtaking \subseteq {p \in (1..asked) \X (1..asked) : p[1] > p[2]}
      BY DEF Exchange, ProviderTypeOK
    <3>2. \A k \in 1..asked : k \in 1..q
      BY <1>2
    <3>3. QED
      BY <1>4, <3>1, <3>2
  <2>4. QED
    BY <1>4, <2>1, <2>2, <2>3 DEF Exchange, ProviderTypeOK
<1>6. About(msgs, question)'
  <2>1. q \in 1..q
    BY <1>2
  <2>2. QED
    BY <1>2, <1>3, <1>4, <2>1 DEF About, Ordered, Asks, Before
<1>7. ExchangeKept'
  <2>1. TurnsKept(turns', asked', overtaking')
    <3>1. ASSUME NEW i \in DOMAIN turns PROVE turns[i].question <= q
      <4>1. turns[i].question <= asked /\ turns[i].question \in Nat
        BY <1>1
      <4>2. QED
        BY <1>2, <4>1
    <3>2. \A i, j \in DOMAIN turns :
            i < j => Precedes(overtaking, turns[i].question, turns[j].question)
      BY <1>1 DEF TurnsAscend, Before, Precedes
    <3>3. QED
      BY <1>4, <3>1, <3>2 DEF TurnsKept
  <2>2. KeptBesides'
    BY <1>4, <1>6 DEF KeptBesides
  <2>3. QED
    BY <2>1, <2>2, KeptParts
<1>8. QED
  BY <1>5, <1>7 DEF Exchange

\* A turn added to the others keeps them in order.
LEMMA TurnAdded ==
  ASSUME turns \in Seq(TurnType), NEW q \in 1..MaxQuestions,
         NEW response \in {<<>>, <<"answer">>}, AddTurn(q, response),
         NEW a, NEW ov, q <= a, TurnsKept(turns, a, ov),
         \A i \in DOMAIN turns : Precedes(ov, turns[i].question, q)
  PROVE  turns' \in Seq(TurnType) /\ TurnsKept(turns', a, ov)
<1> DEFINE t == [question |-> q, response |-> response]
<1>1. t \in TurnType /\ t.question = q /\ turns' = Append(turns, t)
  BY DEF TurnType, AddTurn
<1> HIDE DEF t
<1>2. /\ Append(turns, t) \in Seq(TurnType) /\ Len(turns) \in Nat
      /\ DOMAIN Append(turns, t) = 1..(Len(turns) + 1) /\ DOMAIN turns = 1..Len(turns)
      /\ \A i \in 1..Len(turns) : Append(turns, t)[i] = turns[i]
      /\ Append(turns, t)[Len(turns) + 1] = t
  BY <1>1
<1>3. \A i \in DOMAIN turns' : i \in DOMAIN turns \/ i = Len(turns) + 1
  BY <1>1, <1>2
<1>4. ASSUME NEW i \in DOMAIN turns' PROVE turns'[i].question <= a
  <2>1. CASE i \in DOMAIN turns
    BY <1>1, <1>2, <2>1 DEF TurnsKept
  <2>2. CASE i = Len(turns) + 1
    BY <1>1, <1>2, <2>2
  <2>3. QED
    BY <1>3, <2>1, <2>2
<1>5. ASSUME NEW i \in DOMAIN turns', NEW j \in DOMAIN turns', i < j
      PROVE  Precedes(ov, turns'[i].question, turns'[j].question)
  <2>1. i \in DOMAIN turns
    <3>1. i \in 1..(Len(turns) + 1) /\ j \in 1..(Len(turns) + 1) /\ Len(turns) \in Nat
      BY <1>1, <1>2
    <3>2. i \in 1..Len(turns)
      BY <1>5, <3>1
    <3>3. QED
      BY <1>2, <3>2
  <2>2. CASE j \in DOMAIN turns
    BY <1>1, <1>2, <1>5, <2>1, <2>2 DEF TurnsKept
  <2>3. CASE j = Len(turns) + 1
    BY <1>1, <1>2, <2>1, <2>3
  <2>4. QED
    BY <1>3, <2>2, <2>3
<1>6. QED
  BY <1>1, <1>2, <1>4, <1>5 DEF TurnsKept

\* The answer of an exchange is a turn after all others.
LEMMA AnswerAdded ==
  ASSUME ProviderTypeOK, ExchangeKept, About(msgs, question), asked' = asked,
         overtaking' = overtaking, NEW response \in {<<>>, <<"answer">>},
         AddTurn(question, response)
  PROVE  turns' \in Seq(TurnType) /\ TurnsKept(turns', asked', overtaking')
<1>1. turns \in Seq(TurnType) /\ asked \in 0..MaxQuestions /\ MaxQuestions \in Nat
  BY ProvidersAssumption DEF ProviderTypeOK
<1>2. question \in 1..asked /\ \A i \in DOMAIN turns : Precedes(overtaking', turns[i].question, question)
  BY DEF About, Before, Precedes
<1>3. question \in 1..MaxQuestions /\ question <= asked'
  BY <1>1, <1>2
<1>4. TurnsKept(turns, asked', overtaking')
  BY KeptTurns, KeptParts
<1>5. QED
  BY <1>1, <1>2, <1>3, <1>4, TurnAdded

\* The user invokes a tool, perhaps while a question is paused.
LEMMA InvocationStep ==
  ASSUME Exchange, handleToolInvocation
  PROVE  Exchange'
<1> DEFINE q == asked + 1
           new == IF saved = <<>> THEN {} ELSE {<<q, saved.question>>}
<1>1. /\ turns \in Seq(TurnType) /\ asked \in 0..MaxQuestions /\ MaxQuestions \in Nat
      /\ \A i \in DOMAIN turns : turns[i].question \in 1..asked
      /\ overtaking \subseteq {p \in (1..asked) \X (1..asked) : p[1] > p[2]}
      /\ TurnsKept(turns, asked, overtaking)
  <2>1. /\ turns \in Seq(TurnType) /\ asked \in 0..MaxQuestions /\ MaxQuestions \in Nat
        /\ overtaking \subseteq {p \in (1..asked) \X (1..asked) : p[1] > p[2]}
    BY ProvidersAssumption DEF Exchange, ProviderTypeOK
  <2>2. \A i \in DOMAIN turns : turns[i] \in TurnType
    BY <2>1
  <2>3. \A i \in DOMAIN turns : turns[i].question \in 1..MaxQuestions
    BY <2>2 DEF TurnType
  <2>4. TurnsKept(turns, asked, overtaking)
    BY KeptParts DEF Exchange
  <2>5. QED
    BY <2>1, <2>3, <2>4 DEF TurnsKept
<1>2. /\ llmAt = "idle" /\ asked < MaxQuestions /\ asked' = q
      /\ overtaking' = overtaking \cup new
      /\ UNCHANGED <<provider, llmAt, question, msgs, content, calls, sent, index, results, saved>>
  BY DEF handleToolInvocation, exchangeVars
<1>3. PICK response \in {<<>>, <<"answer">>} : AddTurn(q, response)
  BY <1>2 DEF handleToolInvocation
<1>4. q \in 1..MaxQuestions /\ q \in Nat /\ asked \in Nat /\ asked < q
  BY <1>1, <1>2
<1>6. ASSUME saved # <<>>
      PROVE  /\ About(saved.msgs, saved.question) /\ saved.msgs \in Seq(MessageType)
             /\ saved.question \in 1..asked /\ saved.question \in 1..MaxQuestions
  BY <1>6 DEF Exchange, ExchangeKept, ProviderTypeOK, About
<1>7. \A p \in new : saved # <<>> /\ p = <<q, saved.question>>
  OBVIOUS
<1>8. ASSUME NEW m \in 1..asked, NEW n \in 1..asked, Precedes(overtaking, m, n)
      PROVE  Precedes(overtaking', m, n)
  <2>1. <<n, m>> \notin new
    BY <1>4, <1>7
  <2>2. QED
    BY <1>2, <1>8, <2>1 DEF Precedes
<1>9. ASSUME NEW m \in 1..asked, saved = <<>> \/ m # saved.question
      PROVE  Precedes(overtaking', m, q)
  <2>1. <<q, m>> \notin overtaking
    BY <1>1, <1>4
  <2>2. <<q, m>> \notin new
    BY <1>7, <1>9
  <2>3. m < q
    BY <1>4
  <2>4. QED
    BY <1>2, <2>1, <2>2, <2>3 DEF Precedes
<1>10. overtaking' \subseteq {p \in (1..q) \X (1..q) : p[1] > p[2]}
  <2>1. ASSUME NEW p \in overtaking PROVE p \in (1..q) \X (1..q) /\ p[1] > p[2]
    BY <1>1, <1>4
  <2>2. ASSUME NEW p \in new PROVE p \in (1..q) \X (1..q) /\ p[1] > p[2]
    <3>1. p = <<q, saved.question>> /\ saved.question \in 1..asked
      BY <1>6, <1>7
    <3>2. saved.question \in 1..q /\ q \in 1..q /\ q > saved.question
      BY <1>4, <3>1
    <3>3. QED
      BY <3>1, <3>2
  <2>3. QED
    BY <1>2, <2>1, <2>2
<1> HIDE DEF q, new
<1>11. TurnsKept(turns, q, overtaking')
  <2>1. \A i \in DOMAIN turns : turns[i].question <= q
    BY <1>1, <1>4
  <2>2. \A i, j \in DOMAIN turns :
          i < j => Precedes(overtaking', turns[i].question, turns[j].question)
    BY <1>1, <1>8 DEF TurnsKept
  <2>3. QED
    BY <2>1, <2>2 DEF TurnsKept
<1>12. ASSUME NEW i \in DOMAIN turns PROVE Precedes(overtaking', turns[i].question, q)
  <2>1. turns[i].question \in 1..asked /\ turns[i].question \in 1..MaxQuestions
    BY <1>1
  <2>2. saved # <<>> => turns[i].question # saved.question
    <3> SUFFICES ASSUME saved # <<>> PROVE turns[i].question # saved.question
      OBVIOUS
    <3>1. Before(turns[i].question, saved.question)
      BY <1>6 DEF About
    <3>2. QED
      BY <1>6, <2>1, <3>1, BeforeStrict DEF Exchange
  <2>3. QED
    BY <1>9, <2>1, <2>2
<1>13. turns' \in Seq(TurnType) /\ TurnsKept(turns', q, overtaking')
  <2>1. q <= q
    BY <1>4
  <2>2. QED
    BY <1>1, <1>3, <1>4, <1>11, <1>12, <2>1, TurnAdded
<1>14. ProviderTypeOK'
  <2>1. q \in 0..MaxQuestions
    BY <1>1, <1>4
  <2>2. QED
    BY <1>2, <1>10, <1>13, <2>1 DEF Exchange, ProviderTypeOK
<1>15. ASSUME saved # <<>> PROVE About(saved.msgs, saved.question)'
  <2> DEFINE ms == saved.msgs
             k == saved.question
  <2>1. /\ About(ms, k) /\ ms \in Seq(MessageType) /\ k \in 1..asked
        /\ ms # <<>> /\ ms[Len(ms)] = Plain("user", Question(k)) /\ Ordered(ms)
    BY <1>6, <1>15 DEF About
  <2>2. \A i \in DOMAIN ms : Asks(ms[i]) => ms[i].text[2] = k \/ Before(ms[i].text[2], k)
    BY <1>1, <2>1, AboutAsks
  <2>3. saved' = saved /\ k \in 1..asked'
    BY <1>2, <1>4, <2>1
  <2>4. ASSUME NEW i \in DOMAIN turns' PROVE Precedes(overtaking', turns'[i].question, k)
    <3>1. CASE i \in DOMAIN turns
      <4>1. turns'[i] = turns[i]
        BY <1>1, <1>3, <3>1 DEF AddTurn
      <4>2. Before(turns[i].question, k) /\ turns[i].question \in 1..asked
        BY <1>1, <2>1, <3>1 DEF About
      <4>3. Precedes(overtaking, turns[i].question, k)
        BY <4>2 DEF Before, Precedes
      <4>4. QED
        BY <1>8, <2>1, <4>1, <4>2, <4>3
    <3>2. CASE i \notin DOMAIN turns
      <4>1. turns'[i].question = q
        BY <1>1, <1>3, <3>2 DEF AddTurn
      <4>2. <<q, k>> \in overtaking'
        BY <1>2, <1>15 DEF new
      <4>3. QED
        BY <4>1, <4>2 DEF Precedes
    <3>3. QED
      BY <3>1, <3>2
  <2> HIDE DEF ms, k
  <2>5. ASSUME NEW i \in DOMAIN ms, Asks(ms[i]) PROVE ms[i].text[2] \in 1..asked
    <3>1. ms[i].text[2] \in 1..MaxQuestions
      BY <2>5, AskedNumber
    <3>2. CASE ms[i].text[2] = k
      BY <2>1, <3>2
    <3>3. CASE Before(ms[i].text[2], k)
      <4>1. CASE <<ms[i].text[2], k>> \in overtaking
        BY <1>1, <4>1
      <4>2. CASE ms[i].text[2] < k
        BY <1>4, <2>1, <3>1, <4>2
      <4>3. QED
        BY <3>3, <4>1, <4>2 DEF Before
    <3>4. QED
      BY <2>2, <2>5, <3>2, <3>3
  <2>6. ASSUME NEW i \in DOMAIN ms, NEW j \in DOMAIN ms, i < j, Asks(ms[i]), Asks(ms[j])
        PROVE  Precedes(overtaking', ms[i].text[2], ms[j].text[2])
    <3>1. Precedes(overtaking, ms[i].text[2], ms[j].text[2])
      BY <2>1, <2>6 DEF Ordered, Before, Precedes
    <3>2. QED
      BY <1>8, <2>5, <2>6, <3>1
  <2>7. Ordered(ms)'
    BY <2>3, <2>6 DEF Ordered, Before, Precedes, Asks, ms
  <2>8. QED
    BY <2>1, <2>3, <2>4, <2>7 DEF About, Before, Precedes, ms, k
<1>16. ExchangeKept'
  <2>1. KeptBesides'
    BY <1>2, <1>15 DEF KeptBesides
  <2>2. TurnsKept(turns', asked', overtaking')
    BY <1>2, <1>13
  <2>3. QED
    BY <2>1, <2>2, KeptParts
<1>17. QED
  BY <1>14, <1>16 DEF Exchange

\* The request fails.
LEMMA CompleteFailsStep ==
  ASSUME Exchange, CompleteFails
  PROVE  Exchange'
<1>1. /\ llmAt' = "idle"
      /\ UNCHANGED <<provider, turns, asked, overtaking, question, msgs, content, calls, sent, index, results, saved>>
  BY DEF CompleteFails, exchangeVars
<1>2. ProviderTypeOK'
  BY <1>1 DEF Exchange, ProviderTypeOK
<1>3. saved' = <<>>
  BY <1>1 DEF CompleteFails, Exchange, ExchangeKept
<1>4. ExchangeKept'
  <2>1. KeptBesides'
    BY <1>1, <1>3 DEF KeptBesides
  <2>2. QED
    BY <1>1, <2>1, KeptParts, KeptTurns DEF Exchange
<1>5. QED
  BY <1>2, <1>4 DEF Exchange

\* The first answer ends the exchange or starts its batch.
LEMMA FirstAnswerStep ==
  ASSUME Exchange, FirstAnswer
  PROVE  Exchange'
<1>1. /\ saved = <<>> /\ About(msgs, question) /\ ProviderTypeOK /\ ExchangeKept
  BY DEF FirstAnswer, Exchange, ExchangeKept
<1>2. PICK b \in Answers :
        /\ content' = parseResponse(b).content /\ calls' = parseResponse(b).calls
        /\ IF calls' # <<>> THEN llmAt' = "tools" /\ UNCHANGED turns
           ELSE llmAt' = "idle" /\ AddTurn(question, content')
  BY DEF FirstAnswer
<1>3. content' \in {<<>>, <<"answer">>} /\ calls' \in Seq(CallType) /\ Len(calls') <= MaxBlocks
  BY <1>1, <1>2, AnswerOk, ListTypes
<1>4. index' = 1 /\ results' = <<>> /\ UNCHANGED <<provider, asked, overtaking, question, msgs, sent, saved>>
  BY DEF FirstAnswer
<1>5. <<>> \in Seq(MessageType) /\ 1 \in 1..(MaxBlocks + 1)
  <2>1. <<>> \in Seq(MessageType)
    OBVIOUS
  <2>2. QED
    BY <2>1, ProvidersAssumption
<1>6. {msgs, sent, results}' \subseteq Seq(MessageType)
  BY <1>1, <1>4, <1>5 DEF ProviderTypeOK
<1>7. CASE calls' # <<>>
  <2>1. llmAt' = "tools" /\ turns' = turns
    BY <1>2, <1>7
  <2>2. ProviderTypeOK'
    BY <1>1, <1>3, <1>4, <1>5, <1>6, <2>1 DEF ProviderTypeOK
  <2>3. 1 \in DOMAIN calls'
    BY <1>3, <1>7
  <2>4. ResultsSoFar'
    BY <1>4 DEF ResultsSoFar
  <2>5. About(msgs, question)'
    BY <1>1, <1>4, <2>1 DEF About, Ordered, Asks, Before
  <2>6. ExchangeKept'
    <3>1. KeptBesides'
      BY <1>1, <1>4, <2>1, <2>3, <2>4, <2>5 DEF KeptBesides
    <3>2. QED
      BY <1>1, <1>4, <2>1, <3>1, KeptParts, KeptTurns
  <2>7. QED
    BY <2>2, <2>6 DEF Exchange
<1>8. CASE calls' = <<>>
  <2>1. llmAt' = "idle" /\ AddTurn(question, content')
    BY <1>2, <1>8
  <2>2. turns' \in Seq(TurnType) /\ TurnsKept(turns', asked', overtaking')
    BY <1>1, <1>3, <1>4, <2>1, AnswerAdded
  <2>3. ProviderTypeOK'
    BY <1>1, <1>3, <1>4, <1>5, <1>6, <2>1, <2>2 DEF ProviderTypeOK
  <2>4. ExchangeKept'
    <3>1. KeptBesides'
      BY <1>1, <1>4, <2>1 DEF KeptBesides
    <3>2. QED
      BY <2>2, <3>1, KeptParts
  <2>5. QED
    BY <2>3, <2>4 DEF Exchange
<1>9. QED
  BY <1>7, <1>8

\* The second answer ends the exchange.
LEMMA FinalAnswerStep ==
  ASSUME Exchange, FinalAnswer
  PROVE  Exchange'
<1>1. saved = <<>> /\ About(msgs, question) /\ ProviderTypeOK /\ ExchangeKept
  BY DEF FinalAnswer, Exchange, ExchangeKept
<1>2. PICK b \in Answers : AddTurn(question, parseResponse(b).content)
  BY DEF FinalAnswer
<1>3. parseResponse(b).content \in {<<>>, <<"answer">>}
  BY <1>1, AnswerOk, ListTypes
<1>4. /\ llmAt' = "idle"
      /\ UNCHANGED <<provider, asked, overtaking, question, msgs, content, calls, sent, index, results, saved>>
  BY DEF FinalAnswer, exchangeVars
<1>5. turns' \in Seq(TurnType) /\ TurnsKept(turns', asked', overtaking')
  BY <1>1, <1>2, <1>3, <1>4, AnswerAdded
<1>6. ProviderTypeOK'
  BY <1>1, <1>4, <1>5 DEF ProviderTypeOK
<1>7. ExchangeKept'
  <2>1. KeptBesides'
    BY <1>1, <1>4 DEF KeptBesides
  <2>2. QED
    BY <1>5, <2>1, KeptParts
<1>8. QED
  BY <1>6, <1>7 DEF Exchange

\* A call of the batch ends, and with the last the second request goes out.
LEMMA RunCallStep ==
  ASSUME Exchange, RunCall
  PROVE  Exchange'
<1>1. /\ saved = <<>> /\ About(msgs, question) /\ ProviderTypeOK /\ ExchangeKept
      /\ index \in DOMAIN calls /\ ResultsSoFar
  BY DEF RunCall, Exchange, ExchangeKept
<1>2. /\ results \in Seq(MessageType) /\ calls \in Seq(CallType) /\ msgs \in Seq(MessageType)
      /\ content \in {<<>>, <<"answer">>} /\ Len(calls) <= MaxBlocks /\ MaxBlocks \in Nat
      /\ asked \in 0..MaxQuestions
  BY <1>1, ProvidersAssumption DEF ProviderTypeOK
<1>3. PICK how \in {"output", "error"} : results' = Append(results, ToolResult(how))
  BY DEF RunCall
<1>4. /\ index' = index + 1
      /\ UNCHANGED <<provider, turns, asked, overtaking, question, msgs, content, calls, saved>>
      /\ IF index = Len(calls) THEN sent' = Summary(results') /\ llmAt' = "final"
         ELSE UNCHANGED <<llmAt, sent>>
  BY DEF RunCall, Complete, exchangeVars
<1> DEFINE r == ToolResult(how)
<1>5. r \in MessageType /\ r.role = "tool" /\ r.text \in ResultTexts /\ r.id = calls[index].id
  <2>1. calls[index] \in CallType
    BY <1>1, <1>2
  <2>2. calls[index].id \in Ids
    BY <2>1 DEF CallType
  <2> DEFINE none == <<>>
             text == <<how>>
  <2>3. none \in Seq(CallType) /\ text \in ResultTexts /\ "tool" \in RoleType
    BY DEF RoleType, ResultTexts
  <2>4. text \in TextType
    BY <2>3 DEF TextType, OtherTexts
  <2>5. r = Message("tool", text, none, calls[index].id)
    BY DEF ToolResult
  <2> HIDE DEF none, text, r
  <2>6. QED
    BY <2>2, <2>3, <2>4, <2>5, MessageOk
<1> HIDE DEF r
<1> DEFINE rs == Append(results, r)
<1>6. /\ rs \in Seq(MessageType) /\ Len(rs) = Len(results) + 1 /\ Len(results) \in Nat
      /\ DOMAIN rs = 1..(Len(results) + 1) /\ DOMAIN results = 1..Len(results)
      /\ \A j \in 1..Len(results) : rs[j] = results[j]
      /\ rs[Len(results) + 1] = r
  BY <1>2, <1>5
<1>7. results' = rs
  BY <1>3 DEF r
<1> HIDE DEF rs
<1>8. index \in 1..Len(calls) /\ Len(calls) \in Nat /\ Len(results) < index
  BY <1>1, <1>2 DEF ResultsSoFar
<1>9. /\ Len(rs) < index + 1
      /\ \A j \in DOMAIN rs : /\ rs[j].role = "tool" /\ rs[j].text \in ResultTexts
                              /\ rs[j].id = calls[index + 1 - 1 - Len(rs) + j].id
  <2>1. Len(rs) < index + 1
    BY <1>6, <1>8
  <2>2. ASSUME NEW j \in DOMAIN rs
        PROVE  /\ rs[j].role = "tool" /\ rs[j].text \in ResultTexts
               /\ rs[j].id = calls[index + 1 - 1 - Len(rs) + j].id
    <3>1. j \in 1..(Len(results) + 1) /\ Len(results) \in Nat
      BY <1>6
    <3>2. CASE j = Len(results) + 1
      <4>1. index + 1 - 1 - Len(rs) + j = index
        BY <1>6, <1>8, <3>2
      <4>2. rs[j] = r
        BY <1>6, <3>2
      <4>3. QED
        BY <1>5, <4>1, <4>2
    <3>3. CASE j \in 1..Len(results)
      <4>1. index + 1 - 1 - Len(rs) + j = index - 1 - Len(results) + j
        BY <1>6, <1>8, <3>3
      <4>2. rs[j] = results[j] /\ j \in DOMAIN results
        BY <1>6, <3>3
      <4>3. QED
        BY <1>1, <4>1, <4>2 DEF ResultsSoFar
    <3>4. QED
      BY <3>1, <3>2, <3>3
  <2>3. QED
    BY <2>1, <2>2
<1>10. ResultsSoFar'
  <2>1. index' = index + 1 /\ calls' = calls
    BY <1>4
  <2>2. Len(results') < index'
    BY <1>7, <1>9, <2>1
  <2>3. \A j \in DOMAIN results' :
          /\ results'[j].role = "tool" /\ results'[j].text \in ResultTexts
          /\ results'[j].id = calls'[index' - 1 - Len(results') + j].id
    <3>1. ASSUME NEW j \in DOMAIN rs
          PROVE  /\ results'[j].role = "tool" /\ results'[j].text \in ResultTexts
                 /\ results'[j].id = calls'[index' - 1 - Len(results') + j].id
      <4>1. /\ rs[j].role = "tool" /\ rs[j].text \in ResultTexts
            /\ rs[j].id = calls[index + 1 - 1 - Len(rs) + j].id
        BY <1>9, <3>1
      <4>2. index' - 1 - Len(results') + j = index + 1 - 1 - Len(rs) + j
        <5>1. Len(results') = Len(rs)
          BY <1>7
        <5>2. index' = index + 1
          BY <2>1
        <5>3. index \in Int /\ j \in Int /\ Len(rs) \in Int
          BY <1>6, <1>8
        <5>4. QED
          BY <5>1, <5>2, <5>3
      <4>3. QED
        BY <1>7, <2>1, <4>1, <4>2
    <3>2. QED
      BY <1>7, <3>1
  <2>4. ResultTexts' = ResultTexts
    BY DEF ResultTexts
  <2>5. QED
    BY <2>2, <2>3, <2>4 DEF ResultsSoFar
<1>11. About(msgs, question)'
  BY <1>1, <1>4 DEF About, Ordered, Asks, Before
<1>12. index' \in 1..(MaxBlocks + 1)
  BY <1>2, <1>4, <1>8
<1>13. TurnsKept(turns', asked', overtaking')
  BY <1>1, <1>4, KeptTurns
<1>14. CASE index = Len(calls)
  <2>1. sent' = Summary(rs) /\ llmAt' = "final"
    BY <1>4, <1>7, <1>14
  <2>2. Summary(rs) \in Seq(MessageType)
    <3>1. Outcomes(rs)
      BY <1>9 DEF Outcomes
    <3>2. Ordered(msgs)
      BY <1>1 DEF About
    <3>3. QED
      BY <1>2, <1>6, <3>1, <3>2, SummaryOk
  <2>3. ProviderTypeOK'
    <3>1. {msgs, sent, results}' \subseteq Seq(MessageType)
      BY <1>2, <1>4, <1>6, <1>7, <2>1, <2>2
    <3>2. QED
      BY <1>1, <1>4, <1>12, <2>1, <3>1 DEF ProviderTypeOK
  <2>4. sent' = Summary(results)'
    BY <1>4, <1>7, <2>1 DEF Summary
  <2>5. results' # <<>>
    BY <1>6, <1>7
  <2>6. index' = Len(calls') + 1
    BY <1>4, <1>14
  <2>7. ExchangeKept'
    <3>1. KeptBesides'
      BY <1>1, <1>4, <1>10, <1>11, <2>1, <2>4, <2>5, <2>6 DEF KeptBesides
    <3>2. QED
      BY <1>13, <3>1, KeptParts
  <2>8. QED
    BY <2>3, <2>7 DEF Exchange
<1>15. CASE index # Len(calls)
  <2>1. llmAt' = "tools" /\ sent' = sent
    BY <1>4, <1>15 DEF RunCall
  <2>2. ProviderTypeOK'
    <3>1. {msgs, sent, results}' \subseteq Seq(MessageType)
      BY <1>1, <1>4, <1>6, <1>7, <2>1 DEF ProviderTypeOK
    <3>2. QED
      BY <1>1, <1>4, <1>12, <2>1, <3>1 DEF ProviderTypeOK
  <2>3. index' \in DOMAIN calls'
    <3>1. index + 1 \in 1..Len(calls)
      BY <1>8, <1>15
    <3>2. QED
      BY <1>2, <1>4, <3>1
  <2>4. ExchangeKept'
    <3>1. KeptBesides'
      BY <1>1, <1>4, <1>10, <1>11, <2>1, <2>3 DEF KeptBesides
    <3>2. QED
      BY <1>13, <3>1, KeptParts
  <2>5. QED
    BY <2>2, <2>4 DEF Exchange
<1>16. QED
  BY <1>14, <1>15

\* The batch is paused with all it needs to go on.
LEMMA PauseStep ==
  ASSUME Exchange, Pause
  PROVE  Exchange'
<1>1. /\ About(msgs, question) /\ ProviderTypeOK /\ ExchangeKept /\ index \in DOMAIN calls
  BY DEF Pause, Exchange, ExchangeKept
<1>2. /\ llmAt' = "idle"
      /\ saved' = [question |-> question, msgs |-> msgs, calls |-> calls, index |-> index]
      /\ UNCHANGED <<provider, turns, asked, overtaking, question, msgs, content, calls, sent, index, results>>
  BY DEF Pause, exchangeVars
<1> DEFINE s == [question |-> question, msgs |-> msgs, calls |-> calls, index |-> index]
<1>3. s.question = question /\ s.msgs = msgs /\ s.calls = calls /\ s.index = index /\ saved' = s
  BY <1>2
<1> HIDE DEF s
<1>4. question \in 1..MaxQuestions
  <2>1. msgs \in Seq(MessageType) /\ asked \in 0..MaxQuestions
    BY <1>1, ListTypes
  <2>2. QED
    BY <1>1, <2>1, AboutAsks
<1>5. ProviderTypeOK'
  BY <1>1, <1>2, <1>3, <1>4 DEF ProviderTypeOK
<1>6. About(saved.msgs, saved.question)'
  BY <1>1, <1>2, <1>3 DEF About, Ordered, Asks, Before
<1>7. ExchangeKept'
  <2>1. KeptBesides'
    BY <1>1, <1>2, <1>6 DEF KeptBesides
  <2>2. QED
    BY <1>1, <1>2, <2>1, KeptParts, KeptTurns
<1>8. QED
  BY <1>5, <1>7 DEF Exchange

\* The batch goes on with the call it was paused at.
LEMMA ResumeStep ==
  ASSUME Exchange, ResumeExchange
  PROVE  Exchange'
<1>1. /\ saved # <<>> /\ About(saved.msgs, saved.question) /\ ProviderTypeOK /\ ExchangeKept
      /\ saved.question \in 1..MaxQuestions /\ saved.msgs \in Seq(MessageType)
      /\ saved.calls \in Seq(CallType) /\ Len(saved.calls) <= MaxBlocks
      /\ saved.index \in DOMAIN saved.calls
  BY DEF ResumeExchange, Exchange, ExchangeKept, ProviderTypeOK
<1>2. /\ question' = saved.question /\ msgs' = saved.msgs /\ content' = <<>> /\ calls' = saved.calls
      /\ index' = saved.index /\ results' = <<>> /\ llmAt' = "tools" /\ saved' = <<>>
      /\ UNCHANGED <<provider, turns, asked, overtaking, sent>>
  BY DEF ResumeExchange
<1>3. ProviderTypeOK'
  <2>1. <<>> \in Seq(MessageType)
    OBVIOUS
  <2>2. {msgs, sent, results}' \subseteq Seq(MessageType)
    BY <1>1, <1>2, <2>1 DEF ProviderTypeOK
  <2>3. saved.index \in 1..(MaxBlocks + 1)
    <3>1. Len(saved.calls) \in Nat /\ saved.index \in 1..Len(saved.calls)
      BY <1>1
    <3>2. QED
      BY <1>1, <3>1, ProvidersAssumption
  <2>4. saved.question \in 0..MaxQuestions
    BY <1>1, ProvidersAssumption
  <2>5. QED
    BY <1>1, <1>2, <2>2, <2>3, <2>4 DEF ProviderTypeOK
<1>4. About(msgs, question)'
  <2>1. About(saved.msgs, saved.question)
    BY <1>1
  <2>2. question' \in 1..asked' /\ msgs' # <<>> /\ msgs'[Len(msgs')] = Plain("user", Question(question'))
    BY <1>2, <2>1 DEF About
  <2>3. \A i \in DOMAIN turns' : Before(turns[i].question, question)'
    BY <1>2, <2>1 DEF About, Before
  <2>4. Ordered(msgs)'
    BY <1>2, <2>1 DEF About, Ordered, Before, Asks
  <2>5. QED
    BY <2>2, <2>3, <2>4 DEF About
<1>5. ResultsSoFar'
  <2>1. saved.index \in Nat /\ 0 < saved.index
    BY <1>1
  <2>2. Len(results') = 0 /\ DOMAIN results' = {}
    BY <1>2
  <2>3. QED
    BY <1>2, <2>1, <2>2 DEF ResultsSoFar
<1>6. ExchangeKept'
  <2>1. KeptBesides'
    BY <1>1, <1>2, <1>4, <1>5 DEF KeptBesides
  <2>2. QED
    BY <1>1, <1>2, <2>1, KeptParts, KeptTurns
<1>7. QED
  BY <1>3, <1>6 DEF Exchange

\* Every request of the agent carries the questions in their order, the one it is
\* about last, and the second request its results where the service looks for them,
\* whatever was paused, resumed or failed (agent.go, the clients of internal/llm).
THEOREM ProvidersCorrect == ProviderSpec => []ProviderInv
<1>1. ProviderInit => Exchange
  BY InitExchange
<1>2. Exchange /\ [ProviderNext]_providerVars => Exchange'
  <2> SUFFICES ASSUME Exchange, [ProviderNext]_providerVars PROVE Exchange'
    OBVIOUS
  <2>1. CASE ProviderNext
    BY <2>1, RunLLMStep, InvocationStep, CompleteFailsStep, FirstAnswerStep, FinalAnswerStep, RunCallStep,
       PauseStep, ResumeStep DEF ProviderNext
  <2>2. CASE UNCHANGED providerVars
    <3>1. UNCHANGED <<provider, turns, asked, overtaking, llmAt, question, msgs, content, calls, sent, index,
                      results, saved>>
      BY <2>2 DEF providerVars, exchangeVars
    <3>2. ProviderTypeOK'
      BY <3>1 DEF Exchange, ProviderTypeOK
    <3>3. /\ llmAt # "idle" => About(msgs, question)'
          /\ saved # <<>> => About(saved.msgs, saved.question)'
      BY <3>1 DEF Exchange, ExchangeKept, About, Ordered, Asks, Before
    <3>4. ResultsSoFar' <=> ResultsSoFar
      BY <3>1 DEF ResultsSoFar
    <3>5. Summary(results)' = Summary(results)
      BY <3>1 DEF Summary
    <3>6. ExchangeKept'
      <4>1. KeptBesides'
        BY <3>1, <3>3, <3>4, <3>5 DEF Exchange, ExchangeKept, KeptBesides
      <4>2. QED
        BY <3>1, <4>1, KeptParts, KeptTurns DEF Exchange
    <3>7. QED
      BY <3>2, <3>6 DEF Exchange
  <2>3. QED
    BY <2>1, <2>2
<1>3. Exchange => ProviderInv
  BY WireRight DEF Exchange, ProviderInv
<1>4. QED
  BY <1>1, <1>2, <1>3, PTL DEF ProviderSpec
=============================================================================
