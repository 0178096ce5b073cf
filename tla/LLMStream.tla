----------------------------- MODULE LLMStream ------------------------------
(***************************************************************************)
(* StreamComplete of the LLM clients (internal/llm/*.go): a goroutine      *)
(* decodes the body of the response and hands chunks over an unbuffered    *)
(* channel to its reader, who may go away, while the context may be        *)
(* cancelled.  gemini answers without a goroutine, from Complete.  The     *)
(* method is part of LlmProvider; the agent does not call it yet.          *)
(*                                                                         *)
(* The text of a chunk is given by the entries of the body whose texts it  *)
(* joins in their order.                                                   *)
(***************************************************************************)
EXTENDS Naturals, Sequences

CONSTANTS MaxEntries   \* bound: entries of a body

ASSUME StreamAssumption == MaxEntries \in Nat

\* An event of openai or anthropic, a line of ollama: a delta with or without
\* text, that may end the answer; one that means nothing to the client; or one
\* that cannot be decoded (the connection was cut within it, say).
Entry == [kind : {"delta"}, text : BOOLEAN, finish : BOOLEAN]
         \cup [kind : {"other", "bad"}, text : {FALSE}, finish : {FALSE}]

Chunk(text, done, err) == [text |-> text, done |-> done, err |-> err]
Chunks == [text : SUBSET Nat, done : BOOLEAN, err : BOOLEAN]
NoChunk == <<>>
ErrorChunk == Chunk({}, FALSE, TRUE)

VARIABLES client,     \* whose StreamComplete was called
          body,       \* the entries the service sends
          pos,        \* entries decoded
          streamAt,   \* where the goroutine is
          hand,       \* the chunk it sends, or NoChunk
          got,        \* chunks the reader has received
          reading,    \* the reader still receives
          ctxDone,    \* the context is cancelled
          late        \* history: chunks without error received since then

streamVars == <<client, body, pos, streamAt, hand, got, reading, ctxDone, late>>

StreamTypeOK ==
  /\ client \in {"openai", "anthropic", "ollama", "gemini"}
  /\ body \in Seq(Entry)
  /\ pos \in 0..Len(body)
  /\ streamAt \in {"idle", "check", "decode", "send", "last", "closed", "refused"}
  /\ IF streamAt \in {"send", "last"} THEN hand \in Chunks ELSE hand = NoChunk
  /\ got \in Seq(Chunks)
  /\ reading \in BOOLEAN /\ ctxDone \in BOOLEAN
  /\ late \in 0..Len(got)

StreamInit ==
  /\ client \in {"openai", "anthropic", "ollama", "gemini"}
  /\ body = <<>> /\ pos = 0 /\ streamAt = "idle" /\ hand = NoChunk
  /\ got = <<>> /\ reading = TRUE /\ ctxDone = FALSE /\ late = 0

-----------------------------------------------------------------------------
(* StreamComplete.                                                         *)

\* The bodies a service sends: the deltas of anthropic carry text, its last event
\* does not.
Bodies ==
  {b \in UNION {[1..n -> Entry] : n \in 0..MaxEntries} :
     client = "anthropic" => \A i \in DOMAIN b : b[i].kind = "delta" => b[i].text # b[i].finish}

\* The entries from 1 to n that carry a text.
TextsUpTo(n) == {i \in 1..n : body[i].text}

\* The request is refused or fails.
StreamRefused ==
  /\ streamAt = "idle"
  /\ streamAt' = "refused"
  /\ UNCHANGED <<client, body, pos, hand, got, reading, ctxDone, late>>

\* Where the loop of the goroutine begins.
LoopTop == IF client = "ollama" THEN "decode" ELSE "check"

\* The goroutine is started.
StreamOpen ==
  /\ streamAt = "idle"
  /\ client # "gemini"
  /\ body' \in Bodies
  /\ streamAt' = LoopTop
  /\ UNCHANGED <<client, pos, hand, got, reading, ctxDone, late>>

\* gemini: the response of Complete is put into the closed channel.
StreamAtOnce ==
  /\ streamAt = "idle"
  /\ client = "gemini"
  /\ body' \in {b \in Bodies : \A i \in DOMAIN b : b[i].kind = "delta"}
  /\ pos' = Len(body')
  /\ hand' = Chunk(TextsUpTo(Len(body))', TRUE, FALSE)
  /\ streamAt' = "last"
  /\ UNCHANGED <<client, got, reading, ctxDone, late>>

\* openai, anthropic: the select before an entry is decoded.
CheckContext ==
  /\ streamAt = "check"
  /\ client # "ollama"
  /\ IF ctxDone THEN streamAt' = "last" /\ hand' = ErrorChunk
     ELSE streamAt' = "decode" /\ UNCHANGED hand
  /\ UNCHANGED <<client, body, pos, got, reading, ctxDone, late>>

\* The body has ended.
DecodeEnd ==
  /\ streamAt = "decode"
  /\ client # "ollama"
  /\ pos = Len(body)
  /\ streamAt' = "closed"
  /\ UNCHANGED <<client, body, pos, hand, got, reading, ctxDone, late>>

\* Decode fails, by the entry or because the context ends the read.
DecodeError ==
  /\ streamAt = "decode"
  /\ client # "ollama"
  /\ ctxDone \/ (pos < Len(body) /\ body[pos + 1].kind = "bad")
  /\ hand' = ErrorChunk
  /\ streamAt' = "last"
  /\ UNCHANGED <<client, body, pos, got, reading, ctxDone, late>>

\* Fault: the chunk that ends the answer leaves its text behind.
ChunkOfFinishEmpty(i) ==
  Chunk(IF body[i].text /\ ~body[i].finish THEN {i} ELSE {}, body[i].finish, FALSE)

ChunkOf(i) == Chunk(IF body[i].text THEN {i} ELSE {}, body[i].finish, FALSE)

\* The next entry is read, of a kind in kinds.
Reads(c, kinds) ==
  /\ streamAt = "decode"
  /\ client = c
  /\ pos < Len(body)
  /\ body[pos + 1].kind \in kinds
  /\ pos' = pos + 1
  /\ UNCHANGED <<client, body, got, reading, ctxDone, late>>

\* openai: an event without choices is skipped, any other is a chunk.
DecodeOpenAI ==
  /\ Reads("openai", {"delta", "other"})
  /\ IF body[pos'].kind = "delta" THEN hand' = ChunkOf(pos') /\ streamAt' = "send"
     ELSE streamAt' = "check" /\ UNCHANGED hand

\* anthropic: a text is a chunk, message_stop the last one; other events are
\* skipped.
DecodeAnthropic ==
  /\ Reads("anthropic", {"delta", "other"})
  /\ IF body[pos'].kind = "delta"
     THEN hand' = ChunkOf(pos') /\ streamAt' = IF body[pos'].finish THEN "last" ELSE "send"
     ELSE streamAt' = "check" /\ UNCHANGED hand

\* ollama: Scan finds a line.
ScanLine ==
  /\ Reads("ollama", {"delta", "other", "bad"})
  /\ streamAt' = "check"
  /\ UNCHANGED hand

\* Scan finds no more, also when the read was cancelled: the channel is closed
\* without an error.
ScanEnd ==
  /\ streamAt = "decode"
  /\ client = "ollama"
  /\ pos = Len(body) \/ ctxDone
  /\ streamAt' = "closed"
  /\ UNCHANGED <<client, body, pos, hand, got, reading, ctxDone, late>>

\* The select after a line; then every line that can be read is a chunk, and the
\* others are skipped.
Line ==
  /\ streamAt = "check"
  /\ client = "ollama"
  /\ \/ ctxDone /\ hand' = ErrorChunk /\ streamAt' = "last"
     \/ ~ctxDone /\ body[pos].kind = "bad" /\ streamAt' = "decode" /\ UNCHANGED hand
     \/ ~ctxDone /\ body[pos].kind # "bad" /\ hand' = ChunkOf(pos) /\ streamAt' = "send"
  /\ UNCHANGED <<client, body, pos, got, reading, ctxDone, late>>

\* The reader takes the chunk; after the last one the channel is closed.
Receive ==
  /\ streamAt \in {"send", "last"}
  /\ reading
  /\ got' = Append(got, hand)
  /\ hand' = NoChunk
  /\ late' = IF ctxDone /\ ~hand.err THEN late + 1 ELSE late
  /\ streamAt' = IF streamAt = "last" THEN "closed" ELSE LoopTop
  /\ UNCHANGED <<client, body, pos, reading, ctxDone>>

ReaderLeaves ==
  /\ reading
  /\ streamAt # "idle"
  /\ reading' = FALSE
  /\ UNCHANGED <<client, body, pos, streamAt, hand, got, ctxDone, late>>

CancelContext ==
  /\ ~ctxDone
  /\ streamAt # "idle"
  /\ ctxDone' = TRUE
  /\ UNCHANGED <<client, body, pos, streamAt, hand, got, reading, late>>

StreamStep ==
  \/ CheckContext \/ DecodeEnd \/ DecodeError \/ DecodeOpenAI \/ DecodeAnthropic
  \/ ScanLine \/ ScanEnd \/ Line \/ Receive

StreamNext ==
  \/ StreamRefused \/ StreamOpen \/ StreamAtOnce
  \/ StreamStep \/ ReaderLeaves \/ CancelContext

\* The goroutine is scheduled, and a read of the body returns: the timeout of the
\* http client covers it.  A reader that stays receives.
StreamFairness == WF_streamVars(StreamStep)

StreamSpec == StreamInit /\ [][StreamNext]_streamVars /\ StreamFairness

-----------------------------------------------------------------------------
(* Properties.                                                             *)

\* The entry that ends the answer: gemini has all of them at once.
Ends(n) ==
  IF client = "gemini" THEN n = Len(body)
  ELSE n \in DOMAIN body /\ body[n].finish /\ \A m \in 1..(n - 1) : ~body[m].finish

\* The texts of the first i chunks.
Read(i) == UNION {got[j].text : j \in 1..i}

\* A reader that has seen Done has the whole answer in order: every text up to
\* the entry that ended it, in whichever way chunks came about (StreamComplete).
DoneMeansAll ==
  /\ \A i \in DOMAIN got : got[i].done /\ (\A j \in 1..(i - 1) : ~got[j].done) =>
       \E n \in 0..Len(body) : Ends(n) /\ Read(i) = TextsUpTo(n)
  /\ \A i, j \in DOMAIN got : i < j =>
       \A x \in got[i].text, y \in got[j].text : x < y

\* After the context was cancelled at most one more chunk comes through, the one
\* the goroutine was about when it looked at the context.
OneAfterCancel == late <= 1

\* As long as its reader stays, a stream comes to its end, whatever the body and
\* the context do: the goroutine and its connection do not outlive the answer.
StreamCloses ==
  streamAt \in {"check", "decode", "send", "last"} ~> streamAt = "closed" \/ ~reading

\* The goroutine holds a chunk of the body, or is about to look for the next one.
Running ==
  streamAt \in {"check", "decode", "send"} \/ (streamAt = "last" /\ ~hand.err)

\* The entries whose chunks the reader has, as far as they made one.
Handed ==
  IF streamAt \in {"send", "last"} \/ (client = "ollama" /\ streamAt = "check")
  THEN pos - 1 ELSE pos

\* While a stream runs the reader has the texts of the entries handed over, none of
\* which ended the answer unless it has seen Done, and the chunk in hand is that of
\* the entry decoded last.
NothingSkipped ==
  /\ client = "gemini" =>
       /\ streamAt \in {"idle", "last", "closed", "refused"}
       /\ streamAt # "closed" => got = <<>>
       /\ streamAt = "last" => hand = Chunk(TextsUpTo(Len(body)), TRUE, FALSE)
  /\ client # "gemini" /\ Running =>
       /\ Handed \in 0..Len(body)
       /\ \A i \in DOMAIN got : got[i].text \subseteq 1..Handed
       /\ (\A i \in DOMAIN got : ~got[i].done) =>
            /\ Read(Len(got)) = TextsUpTo(Handed)
            /\ \A n \in 1..Handed : ~body[n].finish
       /\ streamAt \in {"send", "last"} => hand = ChunkOf(pos)
  /\ streamAt = "last" /\ hand.err => hand = ErrorChunk
  /\ streamAt = "idle" => got = <<>> /\ pos = 0

\* Once a chunk came through after the cancellation the next look at the context
\* ends the stream.
LookIsNext ==
  /\ late > 0 => ctxDone
  /\ late > 0 => \/ streamAt \in {"check", "closed"}
                 \/ streamAt = "last" /\ hand.err
                 \/ streamAt = "decode" /\ client = "ollama"

\* The safety of a streamed answer: Done means all of it, and a cancelled one
\* stops (openai.go, anthropic.go, ollama.go, gemini.go: StreamComplete).  With the
\* progress of reader and goroutine the invariant is inductive.
StreamInv ==
  /\ StreamTypeOK
  /\ DoneMeansAll
  /\ OneAfterCancel
  /\ NothingSkipped
  /\ LookIsNext
=============================================================================
