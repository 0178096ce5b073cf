------------------------ MODULE ChannelManagerProofs ------------------------
(***************************************************************************)
(* Proofs about the channel manager, for any channels, names and           *)
(* capacities of the queues: the merge loses, duplicates and reorders      *)
(* nothing, and a name never has two forwarders.                           *)
(***************************************************************************)
EXTENDS ChannelManager, TLAPS

-----------------------------------------------------------------------------
(* Queues.                                                                 *)

\* An empty queue, and a queue of one message.
LEMMA SmallQueues ==
  ASSUME NEW m, NEW c
  PROVE  /\ Numbers(<<>>, c) = {}
         /\ Sorted(<<>>, c) /\ Sorted(<<m>>, c)
         /\ Numbers(<<m>>, c) = IF m.ch = c THEN {m.n} ELSE {}
BY DEF Numbers, Sorted

\* A goroutine that holds something holds one message.
LEMMA OneMessage ==
  ASSUME NEW q \in Seq(Message), q # <<>>, Len(q) <= 1
  PROVE  \E x \in Message : q = <<x>>
<1>1. Len(q) \in Nat /\ Len(q) >= 1 /\ Head(q) = q[1] /\ Head(q) \in Message
  OBVIOUS
<1>2. Len(q) = 1
  <2>1. \A k \in Nat : k >= 1 /\ k <= 1 => k = 1
    OBVIOUS
  <2>2. QED
    BY <1>1, <2>1
<1>3. q = <<Head(q)>>
  BY <1>1, <1>2
<1>4. QED
  BY <1>1, <1>3

\* Receiving from a queue takes its first message, which is ahead of the rest.
LEMMA TakeHead ==
  ASSUME NEW q \in Seq(Message), q # <<>>, NEW c
  PROVE  /\ Head(q) \in Message /\ Tail(q) \in Seq(Message)
         /\ Numbers(q, c) = Numbers(<<Head(q)>>, c) \cup Numbers(Tail(q), c)
         /\ Sorted(q, c) =>
              /\ Sorted(Tail(q), c)
              /\ \A m \in Numbers(<<Head(q)>>, c), n \in Numbers(Tail(q), c) : m < n
<1>1. /\ Head(q) = q[1] /\ Head(q) \in Message /\ Tail(q) \in Seq(Message)
      /\ Len(Tail(q)) = Len(q) - 1 /\ Len(q) \in Nat /\ Len(q) >= 1
      /\ \A i \in 1..Len(Tail(q)) : Tail(q)[i] = q[i + 1]
  OBVIOUS
<1>2. DOMAIN q = 1..Len(q) /\ DOMAIN Tail(q) = 1..Len(Tail(q))
  BY <1>1
<1>3. \A i \in DOMAIN q : i = 1 \/ (i - 1 \in DOMAIN Tail(q) /\ Tail(q)[i - 1] = q[i])
  BY <1>1, <1>2
<1>4. \A i \in DOMAIN Tail(q) : i + 1 \in DOMAIN q /\ Tail(q)[i] = q[i + 1] /\ i \in Nat
  BY <1>1, <1>2
<1>h. Numbers(<<Head(q)>>, c) = IF q[1].ch = c THEN {q[1].n} ELSE {}
  BY <1>1, SmallQueues
<1>5. Numbers(q, c) = Numbers(<<Head(q)>>, c) \cup Numbers(Tail(q), c)
  <2>1. ASSUME NEW x \in Numbers(q, c)
        PROVE x \in Numbers(<<Head(q)>>, c) \cup Numbers(Tail(q), c)
    <3>1. PICK i \in DOMAIN q : q[i].ch = c /\ x = q[i].n
      BY DEF Numbers
    <3>2. CASE i = 1
      BY <1>h, <3>1, <3>2
    <3>3. CASE i - 1 \in DOMAIN Tail(q) /\ Tail(q)[i - 1] = q[i]
      BY <3>1, <3>3 DEF Numbers
    <3>4. QED
      BY <1>3, <3>2, <3>3
  <2>2. ASSUME NEW x \in Numbers(<<Head(q)>>, c) PROVE x \in Numbers(q, c)
    BY <1>1, <1>2, <1>h DEF Numbers
  <2>3. ASSUME NEW x \in Numbers(Tail(q), c) PROVE x \in Numbers(q, c)
    BY <1>4 DEF Numbers
  <2>4. QED
    BY <2>1, <2>2, <2>3
<1>6. ASSUME Sorted(q, c)
      PROVE  /\ Sorted(Tail(q), c)
             /\ \A m \in Numbers(<<Head(q)>>, c), n \in Numbers(Tail(q), c) : m < n
  <2>1. Sorted(Tail(q), c)
    BY <1>4, <1>6 DEF Sorted
  <2>2. ASSUME NEW m \in Numbers(<<Head(q)>>, c), NEW n \in Numbers(Tail(q), c) PROVE m < n
    <3>1. q[1].ch = c /\ m = q[1].n
      BY <1>h
    <3>2. PICK i \in DOMAIN Tail(q) : Tail(q)[i].ch = c /\ n = Tail(q)[i].n
      BY DEF Numbers
    <3>3. 1 \in DOMAIN q /\ 1 < i + 1
      BY <1>1, <1>2, <1>4
    <3>4. QED
      BY <1>4, <1>6, <3>1, <3>2, <3>3 DEF Sorted
  <2>3. QED
    BY <2>1, <2>2
<1>7. QED
  BY <1>1, <1>5, <1>6

\* Sending into a queue puts a message behind all others.
LEMMA PutLast ==
  ASSUME NEW q \in Seq(Message), NEW x \in Message, NEW c
  PROVE  /\ q \o <<x>> = Append(q, x) /\ Append(q, x) \in Seq(Message)
         /\ Numbers(Append(q, x), c) = Numbers(q, c) \cup Numbers(<<x>>, c)
         /\ Sorted(q, c) /\ (\A m \in Numbers(q, c), n \in Numbers(<<x>>, c) : m < n)
              => Sorted(Append(q, x), c)
<1> DEFINE p == Append(q, x)
<1>1. /\ p \in Seq(Message) /\ Len(q) \in Nat
      /\ DOMAIN p = DOMAIN q \cup {Len(q) + 1} /\ p[Len(q) + 1] = x
      /\ \A i \in DOMAIN q : p[i] = q[i] /\ i \in Nat /\ i <= Len(q)
  OBVIOUS
<1>2. q \o <<x>> = p
  OBVIOUS
<1> HIDE DEF p
<1>3. Numbers(p, c) = Numbers(q, c) \cup Numbers(<<x>>, c)
  <2>1. ASSUME NEW y \in Numbers(p, c) PROVE y \in Numbers(q, c) \cup Numbers(<<x>>, c)
    <3>1. PICK i \in DOMAIN p : p[i].ch = c /\ y = p[i].n
      BY DEF Numbers
    <3>2. QED
      BY <1>1, <3>1, SmallQueues DEF Numbers
  <2>2. ASSUME NEW y \in Numbers(q, c) PROVE y \in Numbers(p, c)
    BY <1>1 DEF Numbers
  <2>3. ASSUME NEW y \in Numbers(<<x>>, c) PROVE y \in Numbers(p, c)
    BY <1>1, SmallQueues DEF Numbers
  <2>4. QED
    BY <2>1, <2>2, <2>3
<1>4. ASSUME Sorted(q, c), \A m \in Numbers(q, c), n \in Numbers(<<x>>, c) : m < n
      PROVE  Sorted(p, c)
  <2>1. SUFFICES ASSUME NEW i \in DOMAIN p, NEW j \in DOMAIN p, i < j, p[i].ch = c, p[j].ch = c
                 PROVE p[i].n < p[j].n
    BY DEF Sorted
  <2>2. i \in DOMAIN q
    BY <1>1, <2>1
  <2>3. CASE j \in DOMAIN q
    BY <1>1, <1>4, <2>1, <2>2, <2>3 DEF Sorted
  <2>4. CASE j = Len(q) + 1
    <3>1. q[i].n \in Numbers(q, c) /\ x.n \in Numbers(<<x>>, c)
      BY <1>1, <2>1, <2>2, <2>4, SmallQueues DEF Numbers
    <3>2. QED
      BY <1>1, <1>4, <2>2, <2>4, <3>1
  <2>5. QED
    BY <1>1, <2>1, <2>3, <2>4
<1>5. QED
  BY <1>1, <1>2, <1>3, <1>4 DEF p

-----------------------------------------------------------------------------
(* Stages.                                                                 *)

\* The messages numbered X go from the front of stage l of st to stage k.
Moved(st, tt, k, l, X) ==
  /\ st[l] = X \cup tt[l] /\ tt[k] = st[k] \cup X
  /\ \A j \in 1..6 : j # k /\ j # l => tt[j] = st[j]
  /\ \A m \in X, n \in tt[l] : m < n

\* A message moves one stage ahead: nothing is lost and the order is kept.
LEMMA MoveAhead ==
  ASSUME NEW st, NEW tt, NEW k \in 1..6, NEW l \in 1..6, l = k + 1, NEW X, InOrder(st),
         Moved(st, tt, k, l, X)
  PROVE  /\ InOrder(tt)
         /\ \A x : (\E j \in 1..6 : x \in tt[j]) <=> (\E j \in 1..6 : x \in st[j])
<1> USE DEF Moved
<1>1. InOrder(tt)
  <2>1. SUFFICES ASSUME NEW a \in 1..6, NEW b \in 1..6, a < b, NEW m \in tt[a], NEW n \in tt[b]
                 PROVE m < n
    BY DEF InOrder
  <2>2. /\ m \in st[a] \/ (a = k /\ m \in X)
        /\ n \in st[b] \/ (b = k /\ n \in X)
    BY <2>1
  <2>3. X \subseteq st[l] /\ tt[l] \subseteq st[l]
    OBVIOUS
  <2>4. CASE m \in st[a] /\ n \in st[b]
    BY <2>1, <2>4 DEF InOrder
  <2>5. CASE a = k /\ m \in X /\ n \in st[b]
    <3>1. CASE b = l
      BY <2>1, <2>5, <3>1
    <3>2. CASE b > l
      BY <2>1, <2>3, <2>5, <3>2 DEF InOrder
    <3>3. QED
      BY <2>1, <2>5, <3>1, <3>2
  <2>6. CASE m \in st[a] /\ b = k /\ n \in X
    BY <2>1, <2>3, <2>6 DEF InOrder
  <2>7. QED
    BY <2>1, <2>2, <2>4, <2>5, <2>6
<1>2. ASSUME NEW j \in 1..6, NEW m \in tt[j] PROVE \E i \in 1..6 : m \in st[i]
  BY <1>2
<1>3. ASSUME NEW j \in 1..6, NEW m \in st[j] PROVE \E i \in 1..6 : m \in tt[i]
  BY <1>3
<1>4. QED
  BY <1>1, <1>2, <1>3

\* Messages that are dropped leave the order of the others.
LEMMA DropSome ==
  ASSUME NEW st, NEW tt, InOrder(st), \A j \in 1..6 : tt[j] \subseteq st[j]
  PROVE  /\ InOrder(tt)
         /\ \A x : (\E j \in 1..6 : x \in tt[j]) => (\E j \in 1..6 : x \in st[j])
BY DEF InOrder

-----------------------------------------------------------------------------
(* Types, forwarders and registration.                                     *)

\* What the assumption gives about capacities and sources.
LEMMA ManagerFacts ==
  /\ Closing \subseteq Insts /\ Injector \notin Insts /\ None \notin Insts
  /\ Insts \subseteq Sources /\ Injector \in Sources
  /\ \A c \in Insts : Name[c] \in Names
BY ManagerAssumption DEF Sources, Names

\* A source that sends numbers its message.
LEMMA EmitFacts ==
  ASSUME ManagerTypeOK, NEW c \in Sources, Emit(c)
  PROVE  /\ [ch |-> c, n |-> sent[c] + 1] \in Message
         /\ src' = [src EXCEPT ![c] = Append(src[c], [ch |-> c, n |-> sent[c] + 1])]
         /\ src[c] \in Seq(Message)
         /\ sent' = [sent EXCEPT ![c] = sent[c] + 1]
         /\ sent[c] \in Nat
         /\ holding' \subseteq holding
         /\ UNCHANGED <<owner, addCh, loopVars, fwdVars, closed, merged, recvCh, crashed, got>>
<1>1. holding' \subseteq holding
  BY DEF Emit
<1>2. sent[c] \in Nat /\ src[c] \in Seq(Message)
  BY DEF ManagerTypeOK
<1>3. [ch |-> c, n |-> sent[c] + 1] \in Message
  BY <1>2 DEF Message
<1>4. QED
  BY <1>1, <1>2, <1>3 DEF Emit

\* Every goroutine keeps queues and tables within their types.
LEMMA ManagerTypeStep == ManagerTypeOK /\ [Next]_vars => ManagerTypeOK'
<1> SUFFICES ASSUME ManagerTypeOK, [Next]_vars PROVE ManagerTypeOK'
  OBVIOUS
<1> USE ManagerFacts
<1>e. ASSUME NEW c \in Sources, Emit(c) PROVE ManagerTypeOK'
  <2> DEFINE q == Append(src[c], [ch |-> c, n |-> sent[c] + 1])
  <2>1. q \in Seq(Message) /\ src' = [src EXCEPT ![c] = q]
    BY <1>e, EmitFacts, PutLast
  <2>2. sent' = [sent EXCEPT ![c] = sent[c] + 1] /\ sent[c] \in Nat
    BY <1>e, EmitFacts
  <2>3. /\ holding' \subseteq Insts
        /\ UNCHANGED <<owner, addCh, loopVars, fwdVars, closed, merged, recvCh, crashed, got>>
    BY <1>e, EmitFacts DEF ManagerTypeOK
  <2> HIDE DEF q
  <2>4. src' \in [Sources -> Seq(Message)]
    BY <2>1 DEF ManagerTypeOK
  <2>5. sent' \in [Sources -> Nat]
    BY <2>2 DEF ManagerTypeOK
  <2>6. QED
    BY <2>3, <2>4, <2>5 DEF ManagerTypeOK, owner, loopVars, fwdVars
<1>1. ASSUME NEW c \in Insts, Add(c) \/ Announce(c) PROVE ManagerTypeOK'
  <2>1. CASE Add(c)
    BY <2>1 DEF ManagerTypeOK, Add, loopVars, fwdVars, history
  <2>2. CASE Announce(c)
    <3>1. addCh' \in Seq(Insts)
      BY <2>2 DEF ManagerTypeOK, Announce
    <3>2. QED
      BY <2>2, <3>1 DEF ManagerTypeOK, Announce, loopVars, fwdVars, history
  <2>3. QED
    BY <1>1, <2>1, <2>2
<1>2. ASSUME NEW c \in Closing, EndOfInput(c) PROVE ManagerTypeOK'
  BY <1>2 DEF ManagerTypeOK, EndOfInput, owner, loopVars, fwdVars, history
<1>u. CASE UNCHANGED vars
  BY <1>u DEF ManagerTypeOK, vars, owner, loopVars, fwdVars, history
<1>3. CASE Inject
  BY <1>3, <1>e, <1>u DEF Inject, ManagerTypeOK, owner, loopVars, fwdVars
<1>h. ASSUME NEW c \in Insts, Request(c) \/ ClientStalls(c) PROVE ManagerTypeOK'
  BY <1>h DEF Request, ClientStalls, ManagerTypeOK, owner, loopVars, fwdVars, history
<1>4. CASE Start \/ Cancel \/ ShutdownAll \/ ShutdownExpires
  <2>1. CASE Start \/ Cancel
    BY <2>1 DEF Start, Cancel, ManagerTypeOK, loopVars, fwdVars, history
  <2>2. CASE ShutdownAll \/ ShutdownExpires
    <3>1. UNCHANGED <<adding, started, holding, addCh, loopVars, fwdVars, src, merged,
                      recvCh, history>>
      BY <2>2 DEF ShutdownAll, ShutdownExpires
    <3>2. /\ chans' \in [Names -> Insts \cup {None}] /\ shutting' \subseteq Insts
          /\ closed' \subseteq Sources
      <4>1. {chans[n] : n \in Names} \ {None} \subseteq Insts
        BY DEF ManagerTypeOK
      <4>2. QED
        BY <2>2, <4>1 DEF ShutdownAll, ShutdownExpires, ManagerTypeOK
    <3>3. stop' \in {"no", "cancelled", "closing", "detached", "waiting", "returned"}
      BY <2>2 DEF ShutdownAll, ShutdownExpires, ManagerTypeOK
    <3>4. QED
      BY <3>1, <3>2, <3>3 DEF ManagerTypeOK, loopVars, fwdVars, history
  <2>3. QED
    BY <1>4, <2>1, <2>2
<1>5. ASSUME NEW n \in Names, Remove(n) PROVE ManagerTypeOK'
  BY <1>5 DEF Remove, ManagerTypeOK, loopVars, fwdVars, history
<1>6. CASE MergeExisting
  BY <1>6 DEF MergeExisting, ManagerTypeOK, owner, history
<1>7. CASE LoopTake \/ LoopPut \/ LoopQuit
  <2>1. CASE LoopTake
    <3>1. <<Head(merged)>> \in Seq(Message) /\ Tail(merged) \in Seq(Message)
      BY <2>1, TakeHead DEF LoopTake, ManagerTypeOK
    <3>2. QED
      BY <2>1, <3>1 DEF LoopTake, ManagerTypeOK, owner, fwdVars, history
  <2>2. CASE LoopPut
    BY <2>2 DEF LoopPut, ManagerTypeOK, owner, fwdVars, history
  <2>3. CASE LoopQuit
    BY <2>3 DEF LoopQuit, ManagerTypeOK, owner, fwdVars, history
  <2>4. QED
    BY <1>7, <2>1, <2>2, <2>3
<1>8. CASE LoopAdd
  <2>1. Head(addCh) \in Insts /\ Tail(addCh) \in Seq(Insts)
    BY <1>8 DEF LoopAdd, ManagerTypeOK
  <2>2. active' \subseteq Names /\ fwd' \in [Sources -> {"off", "run", "end"}]
    <3>1. CASE HasForwarder(Head(addCh))
      BY <1>8, <3>1 DEF LoopAdd, ManagerTypeOK
    <3>2. CASE ~HasForwarder(Head(addCh))
      <4> DEFINE c == Head(addCh)
      <4>1. active' = active \cup {Name[c]} /\ fwd' = [fwd EXCEPT ![c] = "run"]
        BY <1>8, <3>2 DEF LoopAdd
      <4>2. c \in Insts /\ Name[c] \in Names
        BY <2>1
      <4> HIDE DEF c
      <4>3. QED
        BY <4>1, <4>2 DEF ManagerTypeOK
    <3>3. QED
      BY <3>1, <3>2
  <2>3. QED
    BY <1>8, <2>1, <2>2 DEF LoopAdd, ManagerTypeOK, owner, loopVars, history
<1>9. ASSUME NEW c \in Sources, FwdStep(c) PROVE ManagerTypeOK'
  <2>1. CASE FwdTake(c)
    <3>1. <<Head(src[c])>> \in Seq(Message) /\ Tail(src[c]) \in Seq(Message)
      BY <2>1, TakeHead DEF FwdTake, ManagerTypeOK
    <3>2. QED
      BY <2>1, <3>1 DEF FwdTake, ManagerTypeOK, owner, loopVars, history
  <2>2. CASE FwdPut(c)
    <3>1. merged' \in Seq(Message)
      BY <2>2 DEF FwdPut, ManagerTypeOK
    <3>2. hand' \in [Sources -> Seq(Message)]
      BY <2>2 DEF FwdPut, ManagerTypeOK
    <3>3. UNCHANGED <<owner, holding, addCh, loopVars, active, fwd, src, closed, recvCh,
                      history>>
      BY <2>2 DEF FwdPut
    <3>4. QED
      BY <3>1, <3>2, <3>3 DEF ManagerTypeOK, owner, loopVars, history
  <2>3. CASE FwdEnd(c) \/ FwdGone(c)
    <3>1. fwd' \in [Sources -> {"off", "run", "end"}] /\ active' \subseteq Names
      BY <2>3 DEF FwdEnd, FwdGone, ManagerTypeOK
    <3>2. hand' \in [Sources -> Seq(Message)]
      <4>1. hand' = hand \/ hand' = [hand EXCEPT ![c] = <<>>]
        BY <2>3 DEF FwdEnd, FwdGone
      <4>2. <<>> \in Seq(Message) /\ hand \in [Sources -> Seq(Message)]
        BY DEF ManagerTypeOK
      <4>3. QED
        BY <4>1, <4>2
    <3>3. UNCHANGED <<owner, holding, addCh, loopVars, src, closed, merged, recvCh, history>>
      BY <2>3 DEF FwdEnd, FwdGone
    <3>4. QED
      BY <3>1, <3>2, <3>3 DEF ManagerTypeOK, owner, loopVars, history
  <2>4. QED
    BY <1>9, <2>1, <2>2, <2>3 DEF FwdStep
<1>10. CASE Receive
  <2>1. CASE recvCh # <<>>
    <3>1. Head(recvCh) \in Message /\ Head(recvCh).ch \in Sources
      BY <2>1, TakeHead DEF ManagerTypeOK, Message
    <3>2. got' \in [Sources -> Seq(Message)]
      <4> DEFINE c == Head(recvCh).ch
      <4> DEFINE q == Append(got[c], Head(recvCh))
      <4>1. q \in Seq(Message) /\ got \in [Sources -> Seq(Message)]
        BY <3>1, PutLast DEF ManagerTypeOK
      <4>2. got' = [got EXCEPT ![c] = q]
        BY <1>10, <2>1 DEF Receive
      <4> HIDE DEF q
      <4>3. QED
        BY <4>1, <4>2
    <3>3. recvCh' \in Seq(Message)
      <4>1. recvCh' = Tail(recvCh) /\ recvCh \in Seq(Message)
        BY <1>10, <2>1 DEF Receive, ManagerTypeOK
      <4>2. QED
        BY <2>1, <4>1, TakeHead
    <3>4. QED
      BY <1>10, <2>1, <3>2, <3>3 DEF Receive, ManagerTypeOK, owner, loopVars, fwdVars
  <2>2. QED
    BY <1>10, <1>u, <2>1 DEF Receive
<1>11. QED
  BY <1>1, <1>2, <1>3, <1>4, <1>5, <1>6, <1>7, <1>8, <1>9, <1>10, <1>e, <1>h, <1>u DEF Next

\* Registration and forwarders: the merge loop starts a forwarder for a name that
\* has none, and a forwarder that ends gives its own name back.
LEMMA ForwarderStep ==
  ManagerInv /\ [Next]_vars => OneForwarder' /\ Registered'
<1> SUFFICES ASSUME ManagerInv, [Next]_vars PROVE OneForwarder' /\ Registered'
  OBVIOUS
<1> USE ManagerFacts DEF ManagerInv, ManagerTypeOK
<1>u. ASSUME UNCHANGED <<chans, started, loop, active, fwd>> PROVE OneForwarder' /\ Registered'
  BY <1>u DEF OneForwarder, Registered
<1>1. ASSUME NEW c \in Insts, Add(c) PROVE OneForwarder' /\ Registered'
  <2>1. UNCHANGED <<started, loop, active, fwd>>
    BY <1>1 DEF Add, loopVars, fwdVars
  <2>2. OneForwarder'
    BY <2>1 DEF OneForwarder
  <2>3. chans' = [chans EXCEPT ![Name[c]] = c]
    BY <1>1 DEF Add
  <2>4. \A n \in Names : chans'[n] # None => Name[chans'[n]] = n
    BY <2>3 DEF Registered
  <2>5. QED
    BY <2>1, <2>2, <2>4 DEF Registered
<1>2. CASE Start
  <2>1. UNCHANGED <<chans, active, fwd>> /\ started' /\ loop' = "starting" /\ ~started
    BY <1>2 DEF Start, fwdVars
  <2>2. OneForwarder'
    BY <2>1 DEF OneForwarder
  <2>3. QED
    BY <2>1, <2>2 DEF Registered
<1>3. CASE ShutdownAll
  <2>1. UNCHANGED <<started, loop, active, fwd>>
    BY <1>3 DEF ShutdownAll, loopVars, fwdVars
  <2>2. chans' = chans \/ chans' = [n \in Names |-> None]
    BY <1>3 DEF ShutdownAll
  <2>3. OneForwarder'
    BY <2>1 DEF OneForwarder
  <2>4. \A n \in Names : chans'[n] # None => Name[chans'[n]] = n
    BY <2>2 DEF Registered
  <2>5. QED
    BY <2>1, <2>3, <2>4 DEF Registered
<1>4. ASSUME NEW n \in Names, Remove(n) PROVE OneForwarder' /\ Registered'
  BY <1>4 DEF Remove, OneForwarder, Registered, loopVars, fwdVars
<1>5. CASE MergeExisting
  <2> DEFINE reg == {chans[n] : n \in Names} \ {None}
  <2>1. /\ loop = "starting" /\ loop' = "select" /\ active' = {Name[c] : c \in reg}
        /\ fwd' = [c \in Sources |-> IF c \in reg \cup {Injector} THEN "run" ELSE fwd[c]]
        /\ UNCHANGED owner
    BY <1>5 DEF MergeExisting
  <2>2. \A c \in Insts : fwd'[c] # "off" <=> c \in reg
    BY <2>1 DEF Registered
  <2>3. \A c \in reg : c \in Insts /\ Name[c] \in Names /\ c = chans[Name[c]]
    BY DEF Registered
  <2> HIDE DEF reg
  <2>4. OneForwarder'
    <3>1. active' = {Name[c] : c \in {d \in Insts : fwd'[d] # "off"}}
      <4>1. {d \in Insts : fwd'[d] # "off"} = reg
        BY <2>2, <2>3
      <4>2. QED
        BY <2>1, <4>1
    <3>2. \A c, d \in Insts : fwd'[c] # "off" /\ fwd'[d] # "off" /\ Name[c] = Name[d] => c = d
      BY <2>2, <2>3
    <3>3. QED
      BY <3>1, <3>2 DEF OneForwarder
  <2>5. Registered'
    BY <2>1 DEF Registered, owner
  <2>6. QED
    BY <2>4, <2>5
<1>6. CASE LoopAdd
  <2> DEFINE c == Head(addCh)
  <2>1. c \in Insts /\ loop = "select" /\ loop' = loop /\ UNCHANGED owner
    BY <1>6 DEF LoopAdd, loopVars
  <2>2. CASE HasForwarder(c)
    BY <1>6, <1>u, <2>1, <2>2 DEF LoopAdd, owner
  <2>3. CASE ~HasForwarder(c)
    <3>1. active' = active \cup {Name[c]} /\ fwd' = [fwd EXCEPT ![c] = "run"]
      BY <1>6, <2>3 DEF LoopAdd
    <3>2. \A d \in Insts : fwd[d] # "off" => Name[d] # Name[c]
      BY <2>3 DEF HasForwarder, OneForwarder
    <3> HIDE DEF c
    <3>3. OneForwarder'
      <4>1. {d \in Insts : fwd'[d] # "off"} = {d \in Insts : fwd[d] # "off"} \cup {c}
        BY <2>1, <3>1
      <4>2. active' = {Name[d] : d \in {e \in Insts : fwd'[e] # "off"}}
        BY <3>1, <4>1 DEF OneForwarder
      <4>3. QED
        BY <2>1, <3>1, <3>2, <4>2 DEF OneForwarder
    <3>4. Registered'
      BY <2>1 DEF Registered, owner
    <3>5. QED
      BY <3>3, <3>4
  <2>4. QED
    BY <2>2, <2>3
<1>7. CASE LoopQuit
  BY <1>7 DEF LoopQuit, OneForwarder, Registered, owner, fwdVars
<1>8. ASSUME NEW c \in Sources, FwdEnd(c) PROVE OneForwarder' /\ Registered'
  <2>1. \A d \in Insts : fwd'[d] # "off" <=> fwd[d] # "off"
    BY <1>8 DEF FwdEnd
  <2>2. UNCHANGED <<owner, loop, active>>
    BY <1>8 DEF FwdEnd, loopVars
  <2>3. OneForwarder'
    BY <2>1, <2>2 DEF OneForwarder
  <2>4. Registered'
    BY <2>1, <2>2 DEF Registered, owner
  <2>5. QED
    BY <2>3, <2>4
<1>9. ASSUME NEW c \in Sources, FwdGone(c) PROVE OneForwarder' /\ Registered'
  <2>1. /\ \A d \in Insts : d # c => fwd'[d] = fwd[d]
        /\ fwd'[c] = "off" /\ fwd[c] # "off"
        /\ UNCHANGED <<owner, loop>>
    BY <1>9 DEF FwdGone, loopVars
  <2>2. active' = {Name[d] : d \in {e \in Insts : fwd'[e] # "off"}}
    <3>1. CASE c = Injector
      BY <1>9, <2>1, <3>1 DEF FwdGone, OneForwarder
    <3>2. CASE c \in Insts
      <4>1. active' = active \ {Name[c]}
        BY <1>9, <3>2 DEF FwdGone
      <4>2. \A d \in Insts : d # c /\ fwd[d] # "off" => Name[d] # Name[c]
        BY <2>1, <3>2 DEF OneForwarder
      <4>3. {d \in Insts : fwd'[d] # "off"} = {d \in Insts : fwd[d] # "off"} \ {c}
        BY <2>1, <3>2
      <4>4. active = {Name[d] : d \in {e \in Insts : fwd[e] # "off"}}
        BY DEF OneForwarder
      <4>5. ASSUME NEW x
            PROVE x \in active' <=> \E d \in {e \in Insts : fwd[e] # "off"} \ {c} : x = Name[d]
        BY <3>2, <4>1, <4>2, <4>4
      <4>6. QED
        BY <4>3, <4>5
    <3>3. QED
      BY <3>1, <3>2 DEF Sources
  <2>3. OneForwarder'
    BY <2>1, <2>2 DEF OneForwarder
  <2>4. Registered'
    BY <2>1 DEF Registered, owner
  <2>5. QED
    BY <2>3, <2>4
<1>10. QED
  BY <1>1, <1>2, <1>3, <1>4, <1>5, <1>6, <1>7, <1>8, <1>9, <1>u
     DEF Next, Emit, Request, ClientStalls, Announce, EndOfInput, Inject, Cancel,
         ShutdownExpires, LoopTake, LoopPut, FwdStep,
         FwdTake, FwdPut, Receive, vars, owner, loopVars, fwdVars, history

\* Each goroutine passes on what it holds under the source it came from.
LEMMA OwnStep == ManagerInv /\ [Next]_vars => OwnMessages'
<1> SUFFICES ASSUME ManagerInv, [Next]_vars PROVE OwnMessages'
  OBVIOUS
<1> USE ManagerFacts
<1>a. /\ OwnMessages /\ ManagerTypeOK
      /\ got \in [Sources -> Seq(Message)] /\ hand \in [Sources -> Seq(Message)]
      /\ src \in [Sources -> Seq(Message)] /\ recvCh \in Seq(Message)
      /\ merged \in Seq(Message)
  BY DEF ManagerInv, ManagerTypeOK
<1> DEFINE Own(q, c) == \A i \in DOMAIN q : q[i].ch = c
<1>b. ASSUME Len(loopHand') <= 1,
             \A c \in Sources : Len(hand'[c]) <= 1 /\ Own(got'[c], c) /\ Own(hand'[c], c) /\ Own(src'[c], c)
      PROVE OwnMessages'
  BY <1>b DEF OwnMessages
<1>c. /\ Len(loopHand) <= 1
      /\ \A c \in Sources : Len(hand[c]) <= 1 /\ Own(got[c], c) /\ Own(hand[c], c) /\ Own(src[c], c)
  BY <1>a DEF OwnMessages
<1>d. ASSUME NEW q \in Seq(Message), NEW x \in Message, Own(q, x.ch) PROVE Own(Append(q, x), x.ch)
  BY <1>d
<1>t. ASSUME NEW q \in Seq(Message), q # <<>>, NEW c, Own(q, c)
      PROVE Own(Tail(q), c) /\ Own(<<Head(q)>>, c)
  BY <1>t
<1>z. \A c : Own(<<>>, c)
  OBVIOUS
<1> HIDE DEF Own
<1>u. ASSUME UNCHANGED <<loopHand, hand, got, src>> PROVE OwnMessages'
  BY <1>u, <1>b, <1>c
<1>e. ASSUME NEW c \in Sources, Emit(c) PROVE OwnMessages'
  <2> DEFINE x == [ch |-> c, n |-> sent[c] + 1]
  <2>1. x \in Message /\ x.ch = c /\ src' = [src EXCEPT ![c] = Append(src[c], x)]
    BY <1>a, <1>e, EmitFacts
  <2>2. UNCHANGED <<loopHand, hand, got>>
    BY <1>e DEF Emit, loopVars, fwdVars
  <2> HIDE DEF x
  <2>3. \A d \in Sources : Own(src'[d], d)
    <3>1. Own(Append(src[c], x), c)
      BY <1>a, <1>c, <1>d, <2>1
    <3>2. QED
      BY <1>a, <1>c, <2>1, <3>1
  <2>4. QED
    BY <1>b, <1>c, <2>2, <2>3
<1>1. CASE LoopTake \/ LoopPut \/ LoopQuit
  <2>1. /\ loopHand' = <<>> \/ loopHand' = <<Head(merged)>>
        /\ UNCHANGED <<hand, got, src>>
    BY <1>1 DEF LoopTake, LoopPut, LoopQuit, fwdVars, history
  <2>2. Len(loopHand') <= 1
    <3>1. CASE loopHand' = <<>>
      BY <3>1
    <3>2. CASE loopHand' = <<Head(merged)>>
      BY <3>2
    <3>3. QED
      BY <2>1, <3>1, <3>2
  <2>3. QED
    BY <1>b, <1>c, <2>1, <2>2
<1>2. ASSUME NEW c \in Sources, FwdTake(c) PROVE OwnMessages'
  <2>1. /\ hand' = [hand EXCEPT ![c] = <<Head(src[c])>>]
        /\ src' = [src EXCEPT ![c] = Tail(src[c])] /\ src[c] # <<>>
        /\ UNCHANGED <<loopHand, got>>
    BY <1>2 DEF FwdTake, loopVars, history
  <2>2. Own(Tail(src[c]), c) /\ Own(<<Head(src[c])>>, c) /\ Len(<<Head(src[c])>>) <= 1
    BY <1>a, <1>c, <1>t, <2>1
  <2>3. \A d \in Sources : Len(hand'[d]) <= 1 /\ Own(hand'[d], d) /\ Own(src'[d], d)
    BY <1>a, <1>c, <2>1, <2>2
  <2>4. QED
    BY <1>b, <1>c, <2>1, <2>3
<1>3. ASSUME NEW c \in Sources, FwdPut(c) \/ FwdEnd(c) PROVE OwnMessages'
  <2>1. hand' = [hand EXCEPT ![c] = <<>>] /\ UNCHANGED <<loopHand, got, src>>
    BY <1>3 DEF FwdPut, FwdEnd, loopVars, history
  <2>2. \A d \in Sources : Len(hand'[d]) <= 1 /\ Own(hand'[d], d)
    BY <1>a, <1>c, <1>z, <2>1
  <2>3. QED
    BY <1>b, <1>c, <2>1, <2>2
<1>4. CASE Receive
  <2> DEFINE x == Head(recvCh)
  <2>1. CASE recvCh # <<>>
    <3>1. x \in Message /\ x.ch \in Sources
      BY <1>a, <2>1, TakeHead DEF Message
    <3>2. got' = [got EXCEPT ![x.ch] = Append(got[x.ch], x)] /\ UNCHANGED <<loopHand, hand, src>>
      BY <1>4, <2>1 DEF Receive, loopVars, fwdVars
    <3> HIDE DEF x
    <3>3. \A d \in Sources : Own(got'[d], d)
      BY <1>a, <1>c, <1>d, <3>1, <3>2
    <3>4. QED
      BY <1>b, <1>c, <3>2, <3>3
  <2>2. QED
    BY <1>4, <1>u, <2>1 DEF Receive, vars, loopVars, fwdVars, history
<1>5. QED
  BY <1>1, <1>2, <1>3, <1>4, <1>e, <1>u
     DEF Next, Add, Request, ClientStalls, Announce, EndOfInput, Inject, Start, Cancel,
         ShutdownAll, ShutdownExpires, Remove, MergeExisting, LoopAdd, FwdStep, FwdGone, vars, loopVars, fwdVars, history

-----------------------------------------------------------------------------
(* Order and conservation.                                                 *)

\* The parts of Conserved for one source.
Held(c) == UNION {Stage(c)[k] : k \in 1..6}
AllSorted(c) ==
  /\ Sorted(got[c], c) /\ Sorted(recvCh, c) /\ Sorted(loopHand, c)
  /\ Sorted(merged, c) /\ Sorted(hand[c], c) /\ Sorted(src[c], c)
ConservedFor(c) ==
  /\ AllSorted(c)
  /\ InOrder(Stage(c))
  /\ Held(c) \subseteq 1..sent[c]
  /\ ~Quitting => Held(c) = 1..sent[c]

\* Conserved, source by source.
LEMMA ConservedParts == Conserved <=> \A c \in Sources : ConservedFor(c)
BY DEF Conserved, ConservedFor, AllSorted, Held

\* What stands at each stage, before and after a step.
LEMMA StageFacts ==
  ASSUME NEW c
  PROVE  /\ Stage(c)[1] = Numbers(got[c], c) /\ Stage(c)[2] = Numbers(recvCh, c)
         /\ Stage(c)[3] = Numbers(loopHand, c) /\ Stage(c)[4] = Numbers(merged, c)
         /\ Stage(c)[5] = Numbers(hand[c], c) /\ Stage(c)[6] = Numbers(src[c], c)
         /\ Stage(c)'[1] = Numbers(got'[c], c) /\ Stage(c)'[2] = Numbers(recvCh', c)
         /\ Stage(c)'[3] = Numbers(loopHand', c) /\ Stage(c)'[4] = Numbers(merged', c)
         /\ Stage(c)'[5] = Numbers(hand'[c], c) /\ Stage(c)'[6] = Numbers(src'[c], c)
BY DEF Stage

\* A message that goes from one stage to the next is neither lost nor overtaken.
LEMMA MoveConserves ==
  ASSUME NEW c, NEW k \in 1..6, NEW l \in 1..6, l = k + 1, NEW X, ConservedFor(c),
         AllSorted(c)', Moved(Stage(c), Stage(c)', k, l, X), UNCHANGED <<sent, stop>>
  PROVE  ConservedFor(c)'
<1> DEFINE st == Stage(c)
<1> DEFINE tt == Stage(c)'
<1>1. /\ InOrder(st)
      /\ \A x : x \in Held(c) <=> \E j \in 1..6 : x \in st[j]
      /\ \A x : x \in Held(c)' <=> \E j \in 1..6 : x \in tt[j]
  BY DEF ConservedFor, Held
<1>2. InOrder(tt) /\ \A x : (\E j \in 1..6 : x \in tt[j]) <=> (\E j \in 1..6 : x \in st[j])
  <2> HIDE DEF st, tt
  <2>1. Moved(st, tt, k, l, X)
    BY DEF st, tt
  <2>2. QED
    BY <1>1, <2>1, MoveAhead
<1>3. Held(c)' = Held(c) /\ (Quitting' <=> Quitting)
  <2> HIDE DEF st, tt
  <2>1. QED
    BY <1>1, <1>2 DEF Quitting
<1>4. QED
  BY <1>2, <1>3 DEF ConservedFor

\* Once the manager quits messages may be dropped, but not reordered.
LEMMA DropConserves ==
  ASSUME NEW c, ConservedFor(c), AllSorted(c)', sent' = sent,
         \A j \in 1..6 : Stage(c)'[j] \subseteq Stage(c)[j],
         Quitting' \/ (~Quitting /\ \A j \in 1..6 : Stage(c)'[j] = Stage(c)[j])
  PROVE  ConservedFor(c)'
<1> DEFINE st == Stage(c)
<1> DEFINE tt == Stage(c)'
<1>1. /\ InOrder(st)
      /\ \A x : x \in Held(c) <=> \E j \in 1..6 : x \in st[j]
      /\ \A x : x \in Held(c)' <=> \E j \in 1..6 : x \in tt[j]
  BY DEF ConservedFor, Held
<1>2. InOrder(tt) /\ \A x : (\E j \in 1..6 : x \in tt[j]) => (\E j \in 1..6 : x \in st[j])
  <2> HIDE DEF st, tt
  <2>1. \A j \in 1..6 : tt[j] \subseteq st[j]
    BY DEF st, tt
  <2>2. QED
    BY <1>1, <2>1, DropSome
<1>3. Quitting' \/ (~Quitting /\ Held(c)' = Held(c))
  BY DEF Held
<1>4. Held(c)' \subseteq Held(c)
  <2> HIDE DEF st, tt
  <2>1. QED
    BY <1>1, <1>2
<1>5. QED
  BY <1>2, <1>3, <1>4 DEF ConservedFor

\* A step that leaves the queues of a source alone.
LEMMA SameConserves ==
  ASSUME NEW c, ConservedFor(c), UNCHANGED <<recvCh, loopHand, merged>>,
         got'[c] = got[c], hand'[c] = hand[c], src'[c] = src[c], sent'[c] = sent[c],
         Quitting => Quitting'
  PROVE  ConservedFor(c)'
<1>1. Stage(c)' = Stage(c)
  BY DEF Stage
<1>2. AllSorted(c)'
  BY DEF AllSorted, ConservedFor, Sorted
<1>3. Held(c)' = Held(c)
  BY <1>1 DEF Held
<1>4. QED
  BY <1>1, <1>2, <1>3 DEF ConservedFor

\* A new message of a source gets the next number, behind all it has sent.
LEMMA EmitConserves ==
  ASSUME ManagerTypeOK, NEW c \in Sources, Emit(c), ConservedFor(c)
  PROVE  ConservedFor(c)'
<1> DEFINE x == [ch |-> c, n |-> sent[c] + 1]
<1>1. /\ x \in Message /\ x.ch = c /\ x.n = sent[c] + 1 /\ src[c] \in Seq(Message)
      /\ src' = [src EXCEPT ![c] = Append(src[c], x)]
      /\ sent[c] \in Nat /\ sent'[c] = sent[c] + 1
  BY EmitFacts DEF ManagerTypeOK
<1>2. UNCHANGED <<got, recvCh, loopHand, merged, hand, stop>>
  BY EmitFacts DEF owner, loopVars, fwdVars
<1> HIDE DEF x
<1>3. Numbers(<<x>>, c) = {sent[c] + 1}
  BY <1>1, SmallQueues
<1>4. src'[c] = Append(src[c], x)
  BY <1>1 DEF ManagerTypeOK
<1>5. /\ \A j \in 1..5 : Stage(c)'[j] = Stage(c)[j]
      /\ Stage(c)'[6] = Stage(c)[6] \cup {sent[c] + 1}
  <2>1. \A j \in 1..5 : j = 1 \/ j = 2 \/ j = 3 \/ j = 4 \/ j = 5
    OBVIOUS
  <2>2. Numbers(src'[c], c) = Numbers(src[c], c) \cup {sent[c] + 1}
    BY <1>1, <1>3, <1>4, PutLast
  <2>3. QED
    BY <1>2, <2>1, <2>2, StageFacts
<1>6. \A j \in 1..6 : \A m \in Stage(c)[j] : m \in 1..sent[c]
  BY DEF ConservedFor, Held
<1>7. AllSorted(c)'
  <2>1. Sorted(src'[c], c)
    <3>1. \A m \in Numbers(src[c], c), n \in Numbers(<<x>>, c) : m < n
      BY <1>1, <1>3, <1>6, StageFacts
    <3>2. QED
      BY <1>1, <1>4, <3>1, PutLast DEF ConservedFor, AllSorted
  <2>2. QED
    BY <1>2, <2>1 DEF ConservedFor, AllSorted
<1> DEFINE st == Stage(c)
<1> DEFINE tt == Stage(c)'
<1>8. InOrder(st)
  BY DEF ConservedFor
<1>9. InOrder(tt)
  <2> HIDE DEF st, tt
  <2>1. /\ \A j \in 1..5 : tt[j] = st[j]
        /\ tt[6] = st[6] \cup {sent[c] + 1}
        /\ \A j \in 1..6 : \A m \in st[j] : m \in 1..sent[c]
    BY <1>5, <1>6 DEF st, tt
  <2>2. SUFFICES ASSUME NEW k \in 1..6, NEW l \in 1..6, k < l, NEW m \in tt[k], NEW n \in tt[l]
                 PROVE m < n
    BY DEF InOrder
  <2>3. m \in st[k] /\ (n \in st[l] \/ n = sent[c] + 1)
    BY <2>1, <2>2
  <2>4. QED
    BY <1>1, <1>8, <2>1, <2>2, <2>3 DEF InOrder
<1>10. Held(c)' = Held(c) \cup {sent[c] + 1}
  <2>1. ASSUME NEW y \in Held(c)' PROVE y \in Held(c) \cup {sent[c] + 1}
    <3>1. PICK j \in 1..6 : y \in tt[j]
      BY DEF Held
    <3>2. j \in 1..5 \/ j = 6
      OBVIOUS
    <3>3. QED
      BY <1>5, <3>1, <3>2 DEF Held
  <2>2. ASSUME NEW y \in Held(c) PROVE y \in Held(c)'
    <3>1. PICK j \in 1..6 : y \in st[j]
      BY DEF Held
    <3>2. j \in 1..5 \/ j = 6
      OBVIOUS
    <3>3. QED
      BY <1>5, <3>1, <3>2 DEF Held
  <2>3. sent[c] + 1 \in Held(c)'
    BY <1>5 DEF Held
  <2>4. QED
    BY <2>1, <2>2, <2>3
<1>11. 1..sent'[c] = 1..sent[c] \cup {sent[c] + 1}
  BY <1>1
<1>12. QED
  BY <1>2, <1>7, <1>9, <1>10, <1>11 DEF ConservedFor, Quitting

\* A forwarder takes the first message of its source ...
LEMMA FwdTakeConserves ==
  ASSUME ManagerInv, NEW c \in Sources, FwdTake(c), ConservedFor(c)
  PROVE  ConservedFor(c)'
<1> DEFINE x == Head(src[c])
<1>1. /\ src[c] \in Seq(Message) /\ src[c] # <<>> /\ hand[c] = <<>>
      /\ hand'[c] = <<x>> /\ src'[c] = Tail(src[c])
      /\ UNCHANGED <<got, recvCh, loopHand, merged, sent, stop>>
  BY DEF FwdTake, ManagerInv, ManagerTypeOK, owner, loopVars, history
<1> HIDE DEF x
<1> DEFINE X == Numbers(<<x>>, c)
<1>2. /\ Numbers(src[c], c) = X \cup Numbers(Tail(src[c]), c)
      /\ Sorted(Tail(src[c]), c)
      /\ \A m \in X, n \in Numbers(Tail(src[c]), c) : m < n
  BY <1>1, TakeHead DEF ConservedFor, AllSorted, x
<1>3. Sorted(<<x>>, c) /\ Numbers(<<>>, c) = {}
  BY SmallQueues
<1> HIDE DEF X
<1>4. AllSorted(c)'
  BY <1>1, <1>2, <1>3 DEF ConservedFor, AllSorted
<1>5. Moved(Stage(c), Stage(c)', 5, 6, X)
  <2>1. \A j \in 1..6 : j # 5 /\ j # 6 => j = 1 \/ j = 2 \/ j = 3 \/ j = 4
    OBVIOUS
  <2>2. Stage(c)'[5] = X /\ Stage(c)[5] = {}
    BY <1>1, <1>3, StageFacts DEF X
  <2>3. Stage(c)[6] = X \cup Stage(c)'[6] /\ \A m \in X, n \in Stage(c)'[6] : m < n
    BY <1>1, <1>2, StageFacts
  <2>4. QED
    BY <1>1, <2>1, <2>2, <2>3, StageFacts DEF Moved
<1>6. QED
  BY <1>1, <1>4, <1>5, MoveConserves

\* ... and puts it behind the others on their way to the merge loop.
LEMMA FwdPutConserves ==
  ASSUME ManagerInv, NEW c \in Sources, FwdPut(c), NEW d \in Sources, ConservedFor(d)
  PROVE  ConservedFor(d)'
<1>1. /\ hand[c] \in Seq(Message) /\ hand[c] # <<>> /\ Len(hand[c]) <= 1
      /\ merged \in Seq(Message) /\ \A i \in DOMAIN hand[c] : hand[c][i].ch = c
  BY DEF FwdPut, ManagerInv, ManagerTypeOK, OwnMessages
<1>2. PICK x \in Message : hand[c] = <<x>> /\ x.ch = c
  <2>1. PICK x \in Message : hand[c] = <<x>>
    BY <1>1, OneMessage
  <2>2. 1 \in DOMAIN hand[c] /\ hand[c][1] = x
    BY <2>1
  <2>3. QED
    BY <1>1, <2>1, <2>2
<1> DEFINE X == Numbers(<<x>>, d)
<1>3. /\ merged' = Append(merged, x)
      /\ hand'[c] = <<>> /\ (d # c => hand'[d] = hand[d])
      /\ UNCHANGED <<got, recvCh, loopHand, src, sent, stop>>
  BY <1>1, <1>2, PutLast DEF FwdPut, ManagerInv, ManagerTypeOK, owner, loopVars, history
<1>4. X = (IF d = c THEN {x.n} ELSE {}) /\ Numbers(<<>>, d) = {} /\ Sorted(<<>>, d)
  BY <1>2, SmallQueues
<1>5. /\ Numbers(merged', d) = Numbers(merged, d) \cup X
      /\ Sorted(merged, d) /\ (\A m \in Numbers(merged, d), n \in X : m < n) => Sorted(merged', d)
  BY <1>1, <1>3, PutLast
<1> HIDE DEF X
<1>6. d = c => Numbers(hand[c], d) = X
  BY <1>2 DEF X
<1>7. AllSorted(d)'
  <2>1. \A m \in Numbers(merged, d), n \in X : m < n
    <3>1. \A m \in Stage(d)[4], n \in Stage(d)[5] : m < n
      <4>1. InOrder(Stage(d)) /\ 4 \in 1..6 /\ 5 \in 1..6 /\ 4 < 5
        BY DEF ConservedFor
      <4>2. QED
        BY <4>1 DEF InOrder
    <3>2. QED
      BY <1>4, <1>6, <3>1, StageFacts
  <2>2. Sorted(hand'[d], d)
    BY <1>3, <1>4 DEF ConservedFor, AllSorted
  <2>3. QED
    BY <1>3, <1>5, <2>1, <2>2 DEF ConservedFor, AllSorted
<1>8. Moved(Stage(d), Stage(d)', 4, 5, X)
  <2>1. \A j \in 1..6 : j # 4 /\ j # 5 => j = 1 \/ j = 2 \/ j = 3 \/ j = 6
    OBVIOUS
  <2>2. Stage(d)[5] = X \cup Stage(d)'[5] /\ \A m \in X, n \in Stage(d)'[5] : m < n
    BY <1>3, <1>4, <1>6, StageFacts
  <2>3. Stage(d)'[4] = Stage(d)[4] \cup X
    BY <1>5, StageFacts
  <2>4. QED
    BY <1>3, <2>1, <2>2, <2>3, StageFacts DEF Moved
<1>9. QED
  BY <1>3, <1>7, <1>8, MoveConserves

\* The merge loop takes the first of the merged messages ...
LEMMA LoopTakeConserves ==
  ASSUME ManagerInv, LoopTake, NEW d \in Sources, ConservedFor(d)
  PROVE  ConservedFor(d)'
<1> DEFINE x == Head(merged)
<1>1. /\ merged \in Seq(Message) /\ merged # <<>> /\ loopHand = <<>>
      /\ loopHand' = <<x>> /\ merged' = Tail(merged)
      /\ UNCHANGED <<got, recvCh, hand, src, sent, stop>>
  BY DEF LoopTake, ManagerInv, ManagerTypeOK, owner, fwdVars, history
<1> HIDE DEF x
<1> DEFINE X == Numbers(<<x>>, d)
<1>2. /\ Numbers(merged, d) = X \cup Numbers(Tail(merged), d)
      /\ Sorted(Tail(merged), d)
      /\ \A m \in X, n \in Numbers(Tail(merged), d) : m < n
  BY <1>1, TakeHead DEF ConservedFor, AllSorted, x
<1>3. Sorted(<<x>>, d) /\ Numbers(<<>>, d) = {}
  BY SmallQueues
<1> HIDE DEF X
<1>4. AllSorted(d)'
  BY <1>1, <1>2, <1>3 DEF ConservedFor, AllSorted
<1>5. Moved(Stage(d), Stage(d)', 3, 4, X)
  <2>1. \A j \in 1..6 : j # 3 /\ j # 4 => j = 1 \/ j = 2 \/ j = 5 \/ j = 6
    OBVIOUS
  <2>2. Stage(d)'[3] = X /\ Stage(d)[3] = {}
    BY <1>1, <1>3, StageFacts DEF X
  <2>3. Stage(d)[4] = X \cup Stage(d)'[4] /\ \A m \in X, n \in Stage(d)'[4] : m < n
    BY <1>1, <1>2, StageFacts
  <2>4. QED
    BY <1>1, <2>1, <2>2, <2>3, StageFacts DEF Moved
<1>6. QED
  BY <1>1, <1>4, <1>5, MoveConserves

\* ... and passes it to the agent's queue.
LEMMA LoopPutConserves ==
  ASSUME ManagerInv, LoopPut, NEW d \in Sources, ConservedFor(d)
  PROVE  ConservedFor(d)'
<1>1. /\ loopHand \in Seq(Message) /\ loopHand # <<>> /\ Len(loopHand) <= 1
      /\ recvCh \in Seq(Message)
  BY DEF LoopPut, ManagerInv, ManagerTypeOK, OwnMessages
<1>2. PICK x \in Message : loopHand = <<x>>
  BY <1>1, OneMessage
<1> DEFINE X == Numbers(<<x>>, d)
<1>3. /\ recvCh' = Append(recvCh, x) /\ loopHand' = <<>>
      /\ UNCHANGED <<got, merged, hand, src, sent, stop>>
  BY <1>1, <1>2, PutLast DEF LoopPut, owner, fwdVars, history
<1>4. Numbers(<<>>, d) = {} /\ Sorted(<<>>, d)
  BY SmallQueues
<1>5. /\ Numbers(recvCh', d) = Numbers(recvCh, d) \cup X
      /\ Sorted(recvCh, d) /\ (\A m \in Numbers(recvCh, d), n \in X : m < n) => Sorted(recvCh', d)
  BY <1>1, <1>3, PutLast
<1>6. Stage(d)[3] = X /\ Stage(d)'[3] = {}
  BY <1>2, <1>3, <1>4, StageFacts
<1> HIDE DEF X
<1>7. AllSorted(d)'
  <2>1. \A m \in Numbers(recvCh, d), n \in X : m < n
    <3>1. InOrder(Stage(d)) /\ 2 \in 1..6 /\ 3 \in 1..6 /\ 2 < 3
      BY DEF ConservedFor
    <3>2. \A m \in Stage(d)[2], n \in Stage(d)[3] : m < n
      BY <3>1 DEF InOrder
    <3>3. QED
      BY <1>6, <3>2, StageFacts
  <2>2. QED
    BY <1>3, <1>4, <1>5, <2>1 DEF ConservedFor, AllSorted
<1>8. Moved(Stage(d), Stage(d)', 2, 3, X)
  <2>1. \A j \in 1..6 : j # 2 /\ j # 3 => j = 1 \/ j = 4 \/ j = 5 \/ j = 6
    OBVIOUS
  <2>2. Stage(d)'[2] = Stage(d)[2] \cup X
    BY <1>5, StageFacts
  <2>3. QED
    BY <1>3, <1>6, <2>1, <2>2, StageFacts DEF Moved
<1>9. QED
  BY <1>3, <1>7, <1>8, MoveConserves

\* The agent receives a message of a source behind those it has received from it.
LEMMA ReceiveConserves ==
  ASSUME ManagerInv, Receive, recvCh # <<>>, NEW d \in Sources, ConservedFor(d)
  PROVE  ConservedFor(d)'
<1> DEFINE x == Head(recvCh)
<1>1. /\ recvCh \in Seq(Message) /\ recvCh' = Tail(recvCh)
      /\ got \in [Sources -> Seq(Message)]
      /\ got' = [got EXCEPT ![x.ch] = Append(got[x.ch], x)]
      /\ UNCHANGED <<loopHand, merged, hand, src, sent, stop>>
  BY DEF Receive, ManagerInv, ManagerTypeOK, owner, loopVars, fwdVars
<1>2. x \in Message /\ x.ch \in Sources
  BY <1>1, TakeHead DEF Message
<1> DEFINE X == Numbers(<<x>>, d)
<1>3. /\ Numbers(recvCh, d) = X \cup Numbers(Tail(recvCh), d)
      /\ Sorted(Tail(recvCh), d)
      /\ \A m \in X, n \in Numbers(Tail(recvCh), d) : m < n
  BY <1>1, TakeHead DEF ConservedFor, AllSorted
<1> HIDE DEF x
<1>4. X = IF x.ch = d THEN {x.n} ELSE {}
  BY SmallQueues
<1> HIDE DEF X
<1>5. Numbers(got'[d], d) = Numbers(got[d], d) \cup X /\ Sorted(got'[d], d)
  <2>1. CASE x.ch = d
    <3>1. got'[d] = Append(got[d], x) /\ got[d] \in Seq(Message)
      BY <1>1, <1>2, <2>1
    <3>2. \A m \in Numbers(got[d], d), n \in X : m < n
      <4>1. InOrder(Stage(d)) /\ 1 \in 1..6 /\ 2 \in 1..6 /\ 1 < 2
        BY DEF ConservedFor
      <4>2. \A m \in Stage(d)[1], n \in Stage(d)[2] : m < n
        BY <4>1 DEF InOrder
      <4>3. QED
        BY <1>3, <4>2, StageFacts
    <3>3. Sorted(got[d], d)
      BY DEF ConservedFor, AllSorted
    <3>4. QED
      BY <1>2, <3>1, <3>2, <3>3, PutLast DEF X
  <2>2. CASE x.ch # d
    BY <1>1, <1>2, <1>4, <2>2 DEF ConservedFor, AllSorted
  <2>3. QED
    BY <2>1, <2>2
<1>6. AllSorted(d)'
  BY <1>1, <1>3, <1>5 DEF ConservedFor, AllSorted
<1>7. Moved(Stage(d), Stage(d)', 1, 2, X)
  <2>1. \A j \in 1..6 : j # 1 /\ j # 2 => j = 3 \/ j = 4 \/ j = 5 \/ j = 6
    OBVIOUS
  <2>2. Stage(d)'[1] = Stage(d)[1] \cup X
    BY <1>5, StageFacts
  <2>3. Stage(d)[2] = X \cup Stage(d)'[2] /\ \A m \in X, n \in Stage(d)'[2] : m < n
    BY <1>1, <1>3, StageFacts
  <2>4. QED
    BY <1>1, <2>1, <2>2, <2>3, StageFacts DEF Moved
<1>8. QED
  BY <1>1, <1>6, <1>7, MoveConserves

\* Leaving, a goroutine drops what it holds; it leaves when the manager quits, or
\* when it holds nothing.
LEMMA LeaveConserves ==
  ASSUME ManagerInv, NEW c \in Sources, LoopQuit \/ FwdEnd(c), NEW d \in Sources,
         ConservedFor(d)
  PROVE  ConservedFor(d)'
<1>1. /\ UNCHANGED <<got, recvCh, merged, src, sent, stop>>
      /\ loopHand' = loopHand \/ (loopHand' = <<>> /\ Quitting)
      /\ hand'[d] = hand[d] \/ (hand'[d] = <<>> /\ Quitting)
  BY DEF LoopQuit, FwdEnd, Drained, ManagerInv, ManagerTypeOK, owner, loopVars, fwdVars, history
<1>2. Numbers(<<>>, d) = {} /\ Sorted(<<>>, d)
  BY SmallQueues
<1>3. AllSorted(d)'
  BY <1>1, <1>2 DEF ConservedFor, AllSorted
<1>4. CASE Quitting
  <2>1. \A j \in 1..6 : j = 1 \/ j = 2 \/ j = 3 \/ j = 4 \/ j = 5 \/ j = 6
    OBVIOUS
  <2>2. /\ Stage(d)'[3] \subseteq Stage(d)[3] /\ Stage(d)'[5] \subseteq Stage(d)[5]
    BY <1>1, <1>2, StageFacts
  <2>3. \A j \in 1..6 : Stage(d)'[j] \subseteq Stage(d)[j]
    BY <1>1, <2>1, <2>2, StageFacts
  <2>4. Quitting'
    BY <1>1, <1>4 DEF Quitting
  <2>5. QED
    BY <1>1, <1>3, <2>3, <2>4, DropConserves
<1>5. CASE ~Quitting
  BY <1>1, <1>5, SameConserves DEF Quitting
<1>6. QED
  BY <1>4, <1>5

\* No step of any goroutine loses, repeats or reorders a message before the manager quits.
LEMMA ConservedStep == ManagerInv /\ Conserved /\ [Next]_vars => Conserved'
<1> SUFFICES ASSUME ManagerInv, Conserved, [Next]_vars PROVE Conserved'
  OBVIOUS
<1>1. SUFFICES ASSUME NEW d \in Sources PROVE ConservedFor(d)'
  <2>1. \A c \in Sources : ConservedFor(c)'
    BY <1>1
  <2>2. Conserved' <=> \A c \in Sources : ConservedFor(c)'
    BY DEF Conserved, ConservedFor, AllSorted, Held
  <2>3. QED
    BY <2>1, <2>2
<1>2. ConservedFor(d) /\ ManagerTypeOK
  BY ConservedParts DEF ManagerInv
<1>u. ASSUME UNCHANGED <<recvCh, loopHand, merged, got, hand, src, sent>>, Quitting => Quitting'
      PROVE  ConservedFor(d)'
  BY <1>2, <1>u, SameConserves
<1>e. ASSUME NEW c \in Sources, Emit(c) PROVE ConservedFor(d)'
  <2>1. CASE c = d
    BY <1>2, <1>e, <2>1, EmitConserves
  <2>2. CASE c # d
    <3>1. src'[d] = src[d] /\ sent'[d] = sent[d]
      BY <1>2, <1>e, <2>2, EmitFacts DEF ManagerTypeOK
    <3>2. UNCHANGED <<recvCh, loopHand, merged, got, hand, stop>>
      BY <1>2, <1>e, EmitFacts DEF owner, loopVars, fwdVars
    <3>3. QED
      BY <1>2, <3>1, <3>2, SameConserves DEF Quitting
  <2>3. QED
    BY <2>1, <2>2
<1>3. ASSUME NEW c \in Sources, FwdTake(c) PROVE ConservedFor(d)'
  <2>1. CASE c = d
    BY <1>2, <1>3, <2>1, FwdTakeConserves
  <2>2. CASE c # d
    <3>1. /\ src'[d] = src[d] /\ hand'[d] = hand[d]
          /\ UNCHANGED <<recvCh, loopHand, merged, got, sent, stop>>
      BY <1>2, <1>3, <2>2 DEF FwdTake, ManagerTypeOK, owner, loopVars, history
    <3>2. QED
      BY <1>2, <3>1, SameConserves DEF Quitting
  <2>3. QED
    BY <2>1, <2>2
<1>4. CASE Receive
  <2>1. CASE recvCh # <<>>
    BY <1>2, <1>4, <2>1, ReceiveConserves
  <2>2. CASE recvCh = <<>>
    BY <1>4, <1>u, <2>2 DEF Receive, vars, owner, loopVars, fwdVars, history, Quitting
  <2>3. QED
    BY <2>1, <2>2
<1>5. CASE LoopTake \/ LoopPut \/ LoopQuit
  BY <1>2, <1>5, LoopTakeConserves, LoopPutConserves, LeaveConserves
<1>6. ASSUME NEW c \in Sources, FwdPut(c) \/ FwdEnd(c) PROVE ConservedFor(d)'
  BY <1>2, <1>6, FwdPutConserves, LeaveConserves
<1>7. CASE Start \/ Cancel \/ ShutdownAll \/ ShutdownExpires \/ MergeExisting \/ LoopAdd
  BY <1>7, <1>u DEF Start, Cancel, ShutdownAll, ShutdownExpires, MergeExisting, LoopAdd, Quitting,
                    owner, loopVars, fwdVars, history
<1>8. QED
  BY <1>3, <1>4, <1>5, <1>6, <1>7, <1>e, <1>u, ManagerFacts
     DEF Next, Add, Request, ClientStalls, Announce, EndOfInput, Inject, Remove, FwdStep,
         FwdGone, vars,
         owner, loopVars, fwdVars, history, Quitting

-----------------------------------------------------------------------------
(* The theorems.                                                           *)

\* A new manager: no channel, no forwarder, no message.
LEMMA ManagerInit == Init => ManagerInv /\ Conserved
<1> SUFFICES ASSUME Init PROVE ManagerInv /\ Conserved
  OBVIOUS
<1> USE ManagerFacts DEF Init
<1>1. ManagerTypeOK
  <2>1. <<>> \in Seq(Message) /\ <<>> \in Seq(Insts)
    OBVIOUS
  <2>2. [c \in Sources |-> <<>>] \in [Sources -> Seq(Message)]
    BY <2>1
  <2>3. got \in [Sources -> Seq(Message)] /\ hand \in [Sources -> Seq(Message)]
    BY <2>2
  <2>4. src \in [Sources -> Seq(Message)]
    BY <2>2
  <2>5. QED
    BY <2>1, <2>3, <2>4 DEF ManagerTypeOK
<1>2. OneForwarder /\ Registered
  BY DEF OneForwarder, Registered
<1>3. OwnMessages
  BY DEF OwnMessages
<1>4. ASSUME NEW c \in Sources PROVE ConservedFor(c)
  <2>1. got[c] = <<>> /\ hand[c] = <<>> /\ src[c] = <<>> /\ sent[c] = 0
    OBVIOUS
  <2>2. Numbers(<<>>, c) = {} /\ Sorted(<<>>, c)
    BY SmallQueues
  <2>3. \A j \in 1..6 : Stage(c)[j] = {}
    <3>1. \A j \in 1..6 : j = 1 \/ j = 2 \/ j = 3 \/ j = 4 \/ j = 5 \/ j = 6
      OBVIOUS
    <3>2. QED
      BY <2>1, <2>2, <3>1, StageFacts
  <2>4. Held(c) = {} /\ 1..sent[c] = {}
    BY <2>1, <2>3 DEF Held
  <2>5. InOrder(Stage(c))
    BY <2>3 DEF InOrder
  <2>6. AllSorted(c)
    BY <2>1, <2>2 DEF AllSorted
  <2>7. QED
    BY <2>4, <2>5, <2>6 DEF ConservedFor
<1>5. QED
  BY <1>1, <1>2, <1>3, <1>4, ConservedParts DEF ManagerInv

\* For any channels and names: a name has at most one forwarder, active holds exactly the
\* names that have one, and every message stays under its own source, however channels are
\* added, removed, closed or replaced by namesakes (manager.go: mergeLoop, forward).
THEOREM ManagerCorrect == Spec => []ManagerInv
<1>1. Init => ManagerInv
  BY ManagerInit
<1>2. ManagerInv /\ [Next]_vars => ManagerInv'
  BY ManagerTypeStep, ForwarderStep, OwnStep DEF ManagerInv
<1>3. QED
  BY <1>1, <1>2, PTL DEF Spec

\* For any capacities of the Go channels: until the manager quits, what a source has sent is,
\* in this order and exactly once, received by the agent, queued, or held by a goroutine.
THEOREM MergeConserves == Spec => []Conserved
<1>1. Init => Conserved
  BY ManagerInit
<1>2. ManagerInv /\ Conserved /\ [Next]_vars => Conserved'
  BY ConservedStep
<1>3. QED
  BY <1>1, <1>2, ManagerCorrect, PTL DEF Spec
=============================================================================
