--------------------------- MODULE ListCommandProofs ---------------------------
(***************************************************************************)
(* Proofs about ListCommand, for whatever a command yields, through        *)
(* channels of any capacity.                                               *)
(***************************************************************************)
EXTENDS ListCommand, SequenceTheorems, WellFoundedInduction, TLAPS

-------------------------------------------------------------------------------
(***************************************************************************)
(* Induction over the natural numbers, for sets of numbers.                *)
(***************************************************************************)
Below == {ss \in Nat \X Nat : ss[1] < ss[2]}

LEMMA BelowWellFounded == IsWellFoundedOn(Below, Nat)
  BY NatLessThanWellFounded DEF Below, OpToRel

LEMMA SmallestOf ==
  ASSUME NEW T \in SUBSET Nat, T # {}
  PROVE  \E x \in T : \A y \in T : ~(y < x)
  <1>1. \E x \in T : \A y \in T : <<y, x>> \notin Below
    BY BelowWellFounded, WFMin
  <1> QED
    BY <1>1 DEF Below

LEMMA Induction ==
  ASSUME NEW T \in SUBSET Nat, 0 \in T, \A n \in T : n + 1 \in T
  PROVE  T = Nat
  <1> SUFFICES ASSUME T # Nat PROVE FALSE
    OBVIOUS
  <1>1. PICK x \in Nat \ T : \A y \in Nat \ T : ~(y < x)
    BY SmallestOf
  <1>2. x - 1 \in T
    BY <1>1
  <1> QED
    BY <1>1, <1>2

-------------------------------------------------------------------------------
(***************************************************************************)
(* The objects among the items.                                            *)
(***************************************************************************)
Yielded == {Items[i] : i \in DOMAIN Items}

LEMMA ItemsType ==
  /\ Items \in Seq(Yielded) /\ Len(Items) \in Nat /\ DOMAIN Items = 1..Len(Items)
  /\ \A i \in 1..Len(Items) : Items[i] \in Yielded
  <1>1. Items \in Seq(Yielded)
    BY ItemsAssumption DEF Yielded
  <1> QED
    BY <1>1

\* What ObjectsIn says of n, with g in its place.
Extends(g, n) ==
  IF n = 0 THEN << >>
  ELSE IF Items[n] \in Texts THEN g[n - 1] ELSE Append(g[n - 1], Items[n])

\* There is such a function.
LEMMA ObjectsInExists ==
  \E g \in [0..Len(Items) -> Seq(Yielded)] : \A n \in 0..Len(Items) : g[n] = Extends(g, n)
  <1> DEFINE Upto(m) == \E g \in [0..m -> Seq(Yielded)] : \A n \in 0..m : g[n] = Extends(g, n)
             T == {m \in Nat : m <= Len(Items) => Upto(m)}
  <1>1. 0 \in T
    <2> DEFINE g == [n \in 0..0 |-> << >>]
    <2>1. g \in [0..0 -> Seq(Yielded)]
      OBVIOUS
    <2>2. \A n \in 0..0 : g[n] = Extends(g, n)
      BY DEF Extends
    <2>3. Upto(0)
      BY <2>1, <2>2
    <2> QED
      BY <2>3
  <1>2. ASSUME NEW m \in T
        PROVE  m + 1 \in T
    <2> SUFFICES ASSUME m + 1 <= Len(Items)
                 PROVE  Upto(m + 1)
      <3>1. m \in Nat
        OBVIOUS
      <3> HIDE DEF Upto
      <3> QED
        BY <3>1
    <2>1. m \in Nat /\ m <= Len(Items) /\ m + 1 \in 1..Len(Items)
      BY ItemsType
    <2>2. PICK g \in [0..m -> Seq(Yielded)] : \A n \in 0..m : g[n] = Extends(g, n)
      BY <2>1
    <2> DEFINE last == IF Items[m + 1] \in Texts THEN g[m] ELSE Append(g[m], Items[m + 1])
               h == [n \in 0..m + 1 |-> IF n = m + 1 THEN last ELSE g[n]]
    <2>3. last \in Seq(Yielded)
      <3>1. g[m] \in Seq(Yielded) /\ Items[m + 1] \in Yielded
        BY <2>1, <2>2, ItemsType
      <3> QED
        BY <3>1
    <2>4. h \in [0..m + 1 -> Seq(Yielded)]
      BY <2>1, <2>2, <2>3
    <2>5. \A n \in 0..m : h[n] = g[n]
      BY <2>1
    <2>6. h[m + 1] = Extends(h, m + 1)
      <3>1. h[m + 1] = last
        BY <2>1
      <3> HIDE DEF h
      <3>2. h[m] = g[m] /\ (m + 1) - 1 = m /\ m + 1 # 0
        <4>1. m \in 0..m /\ (m + 1) - 1 = m /\ m + 1 # 0
          BY <2>1
        <4> QED
          BY <2>5, <4>1
      <3> QED
        BY <3>1, <3>2 DEF Extends
    <2>7. \A n \in 0..m : h[n] = Extends(h, n)
      <3> SUFFICES ASSUME NEW n \in 0..m
                   PROVE  h[n] = Extends(h, n)
        OBVIOUS
      <3>1. n # 0 => n - 1 \in 0..m
        BY <2>1
      <3>2. h[n] = g[n] /\ (n # 0 => h[n - 1] = g[n - 1])
        BY <2>5, <3>1
      <3>3. g[n] = Extends(g, n)
        BY <2>2
      <3> HIDE DEF h
      <3> QED
        BY <3>2, <3>3 DEF Extends
    <2>8. \A n \in 0..m + 1 : h[n] = Extends(h, n)
      <3>1. \A n \in 0..m + 1 : n = m + 1 \/ n \in 0..m
        BY <2>1
      <3> HIDE DEF h
      <3> QED
        BY <2>6, <2>7, <3>1
    <2> HIDE DEF h
    <2> QED
      BY <2>4, <2>8
  <1>3. T = Nat
    <2> HIDE DEF T
    <2>1. T \in SUBSET Nat
      BY DEF T
    <2> QED
      BY <1>1, <1>2, <2>1, Induction
  <1>4. Upto(Len(Items))
    <2> HIDE DEF T, Upto
    <2>1. Len(Items) \in Nat
      BY ItemsType
    <2>2. Len(Items) \in T
      BY <1>3, <2>1
    <2>3. Len(Items) <= Len(Items)
      BY <2>1
    <2> QED
      BY <2>2, <2>3 DEF T
  <1> QED
    BY <1>4

\* ObjectsIn is what its definition says.
LEMMA ObjectsInIs ==
  ASSUME NEW n \in 0..Len(Items)
  PROVE  ObjectsIn[n] = Extends(ObjectsIn, n)
  <1>1. PICK g \in [0..Len(Items) -> Seq(Yielded)] :
          \A k \in 0..Len(Items) : g[k] = Extends(g, k)
    BY ObjectsInExists
  <1>2. g = [k \in 0..Len(Items) |-> Extends(g, k)]
    BY <1>1
  <1>3. ObjectsIn = [k \in 0..Len(Items) |-> Extends(ObjectsIn, k)]
    BY <1>2 DEF ObjectsIn, Extends
  <1> QED
    BY <1>3

LEMMA ObjectsStep ==
  ASSUME NEW n \in 1..Len(Items)
  PROVE  ObjectsIn[n] = IF Items[n] \in Texts THEN ObjectsIn[n - 1]
                        ELSE Append(ObjectsIn[n - 1], Items[n])
  <1>1. n \in 0..Len(Items) /\ n # 0
    BY ItemsType
  <1> QED
    BY <1>1, ObjectsInIs DEF Extends

LEMMA NoObjects == ObjectsIn[0] = << >>
  <1>1. 0 \in 0..Len(Items)
    BY ItemsType
  <1> QED
    BY <1>1, ObjectsInIs DEF Extends

-------------------------------------------------------------------------------
(***************************************************************************)
(* The inductive invariant.                                                *)
(***************************************************************************)

\* The items the reader has taken, and those it has dealt with.
Taken == sent - Len(channel)
Dealt == Taken - (IF pc = "got" THEN 1 ELSE 0)

\* The channel holds the items that were sent last and not yet taken; nobody
\* sends before the command's own code runs; a producer closes after the last.
ChannelInv ==
  /\ channel \in Seq(Yielded) /\ Len(channel) <= sent
  /\ \A i \in 1..Len(channel) : channel[i] = Items[Taken + i]
  /\ producer = "none" => sent = 0 /\ channel = << >>
  /\ producer = "closed" => sent = Len(Items)
  /\ pc \in {"start", "run"} => producer = "none"
  /\ pc \in {"read", "got"} => producer # "none"
  /\ pc = "got" => Taken > 0 /\ item = Items[Taken]

\* Up to the total, the output is what was dealt with.
ReaderInv ==
  /\ pc \in {"start", "run", "read", "got"} => errors = {} /\ output = ObjectsIn[Dealt]
  /\ pc \in {"start", "run", "read", "got"} /\ ~call.json => shown = SubSeq(Items, 1, Dealt)
  /\ pc \in {"start", "run", "read", "got", "total", "print"} => returned = "nil"
  /\ pc = "total" => errors \subseteq {"command"}

\* From there on it does not change.
OutputInv ==
  pc \in {"total", "print", "update", "logName", "exit"} /\ returned \notin {"invalid", "args"}
    /\ "command" \notin errors => output = Objects

\* Until something panics: the error is looked for when there will be no other
\* one.  A panic comes at its time, and then nothing else.
ErrorInv ==
  /\ pc \in {"update", "logName", "exit", "ended"} /\ panicked = "none" =>
       returned = FirstError \/ (returned \in {"invalid", "args"} /\ errors = {})
  /\ outcome = "ok" => returned = "nil" /\ panicked = "none"
  /\ panicked # "none" => pc = "ended"
  /\ panicked = "command" => (errors \subseteq {"command"} /\ (errors = {} \/ call.totals))
  /\ panicked = "update" => call.checkDue
  /\ panicked = "log" => Leveled /\ ~fileLog

IInv == TypeOK /\ ChannelInv /\ ReaderInv /\ OutputInv /\ ErrorInv

-------------------------------------------------------------------------------
(***************************************************************************)
(* It holds at the beginning, and every step keeps it.                     *)
(***************************************************************************)

\* What was shown of the items, and one more.
LEMMA ShowOneMore ==
  ASSUME NEW n \in 1..Len(Items)
  PROVE  SubSeq(Items, 1, n) = Append(SubSeq(Items, 1, n - 1), Items[n])
  <1>1. Items \in Seq(Yielded) /\ 1 \in 1..Len(Items) /\ n \in 1..Len(Items)
    BY ItemsType
  <1>2. SubSeq(Items, 1, n) = SubSeq(Items, 1, n - 1) \o <<Items[n]>>
    BY <1>1, SubSeqRecursiveSecond
  <1>3. SubSeq(Items, 1, n - 1) \in Seq(Yielded)
    <2>1. \A i \in 1..n - 1 : Items[i] \in Yielded
      BY ItemsType
    <2>2. 1 \in Int /\ n - 1 \in Int
      BY ItemsType
    <2> QED
      BY <2>1, <2>2, SubSeqProperties
  <1>4. Items[n] \in Yielded
    BY ItemsType
  <1> QED
    BY <1>2, <1>3, <1>4, AppendIsConcat

LEMMA ShowNothing == SubSeq(Items, 1, 0) = << >>
  <1>1. 1 \in Int /\ 0 \in Int /\ 0 < 1
    OBVIOUS
  <1> QED
    BY <1>1, SubSeqEmpty

LEMMA CallType ==
  ASSUME call \in Calls
  PROVE  /\ call.valid \in BOOLEAN /\ call.streams \in BOOLEAN /\ call.totals \in BOOLEAN
         /\ call.json \in BOOLEAN /\ call.exitOnError \in BOOLEAN /\ call.checkDue \in BOOLEAN
         /\ call.capacity \in Nat
  BY CapacitiesAssumption DEF Calls

LEMMA InitIInv == Init => IInv
  <1> SUFFICES ASSUME Init PROVE IInv
    OBVIOUS
  <1>1. call.capacity \in Nat /\ Len(Items) \in Nat
    BY CallType, ItemsType DEF Init
  <1>2. Len(<< >>) = 0 /\ << >> \in Seq(Yielded)
    OBVIOUS
  <1>3. TypeOK
    BY <1>1, <1>2 DEF Init, TypeOK
  <1>4. ChannelInv
    BY <1>2 DEF Init, ChannelInv
  <1>5. Dealt = 0
    <2>1. sent = 0 /\ Len(channel) = 0 /\ pc = "start"
      BY <1>2 DEF Init
    <2> QED
      BY <2>1 DEF Dealt, Taken
  <1>6. ReaderInv
    BY <1>5, NoObjects, ShowNothing DEF Init, ReaderInv
  <1> QED
    BY <1>3, <1>4, <1>6 DEF Init, IInv, OutputInv, ErrorInv

\* Types of the numbers.
LEMMA Numbers ==
  ASSUME TypeOK, ChannelInv
  PROVE  /\ sent \in Nat /\ sent <= Len(Items) /\ Len(Items) \in Nat /\ Len(channel) \in Nat
         /\ Len(channel) <= sent /\ Taken \in 0..Len(Items) /\ Dealt \in 0..Len(Items)
         /\ call.capacity \in Nat
  <1>1. sent \in 0..Len(Items) /\ Len(Items) \in Nat /\ Len(channel) \in Nat
        /\ Len(channel) <= sent
    <2>1. Len(Items) \in Nat
      BY ItemsType
    <2>2. channel \in Seq(Yielded) /\ Len(channel) <= sent
      BY DEF ChannelInv
    <2>3. Len(channel) \in Nat
      BY <2>2, LenProperties
    <2>4. sent \in 0..Len(Items)
      BY DEF TypeOK
    <2> QED
      BY <2>1, <2>2, <2>3, <2>4
  <1>2. Taken \in 0..Len(Items)
    BY <1>1 DEF Taken
  <1>3. Dealt \in 0..Len(Items)
    BY <1>1, <1>2 DEF Dealt, ChannelInv
  <1> QED
    BY <1>1, <1>2, <1>3, CallType DEF TypeOK

\* Steps of the producer.
LEMMA ProducerKeeps ==
  ASSUME IInv, Send \/ Close
  PROVE  IInv'
  <1> USE DEF streamVars, resultVars, endVars
  <1>1. TypeOK /\ ChannelInv /\ ReaderInv /\ OutputInv /\ ErrorInv
    BY DEF IInv
  <1>2. /\ call' = call /\ pc' = pc /\ item' = item /\ output' = output /\ shown' = shown
        /\ errors' = errors /\ returned' = returned /\ fileLog' = fileLog
        /\ panicked' = panicked /\ outcome' = outcome
    BY DEF Send, Close
  <1>3. /\ sent \in Nat /\ sent <= Len(Items) /\ Len(Items) \in Nat /\ Len(channel) \in Nat
        /\ Len(channel) <= sent /\ call.capacity \in Nat
    BY <1>1, Numbers
  <1>4. CASE Send
    <2>1. /\ sent < Len(Items) /\ Len(channel) < call.capacity /\ producer = "sending"
          /\ channel' = Append(channel, Items[sent + 1]) /\ sent' = sent + 1
          /\ producer' = producer
      BY <1>4 DEF Send
    <2>2. Items[sent + 1] \in Yielded /\ channel \in Seq(Yielded)
      BY <1>1, <1>3, <2>1, ItemsType DEF ChannelInv
    <2>3. /\ channel' \in Seq(Yielded) /\ Len(channel') = Len(channel) + 1
          /\ \A i \in 1..Len(channel) : channel'[i] = channel[i]
          /\ channel'[Len(channel) + 1] = Items[sent + 1]
      BY <2>1, <2>2, AppendProperties
    <2>4. Taken' = Taken
      BY <1>3, <2>1, <2>3 DEF Taken
    <2>5. Dealt' = Dealt
      BY <1>2, <2>4 DEF Dealt
    <2>6. TypeOK'
      BY <1>1, <1>2, <1>3, <2>1, <2>3 DEF TypeOK
    <2>7. \A i \in 1..Len(channel') : channel'[i] = Items[Taken' + i]
      <3> SUFFICES ASSUME NEW i \in 1..Len(channel')
                   PROVE  channel'[i] = Items[Taken + i]
        BY <2>4
      <3>1. CASE i \in 1..Len(channel)
        BY <1>1, <2>3, <3>1 DEF ChannelInv
      <3>2. CASE i = Len(channel) + 1
        <4>1. Taken + i = sent + 1
          BY <1>3, <3>2 DEF Taken
        <4> QED
          BY <2>3, <3>2, <4>1
      <3> QED
        BY <1>3, <2>3, <3>1, <3>2
    <2>8. ChannelInv'
      <3>1. Len(channel') <= sent'
        BY <1>3, <2>1, <2>3
      <3> QED
        BY <1>1, <1>2, <2>1, <2>3, <2>4, <2>7, <3>1 DEF ChannelInv
    <2> QED
      BY <1>1, <1>2, <2>5, <2>6, <2>8 DEF IInv, ReaderInv, OutputInv, ErrorInv, FirstError, Leveled
  <1>5. CASE Close
    <2>1. /\ sent = Len(Items) /\ producer = "sending" /\ producer' = "closed"
          /\ sent' = sent /\ channel' = channel
      BY <1>5 DEF Close
    <2>2. Taken' = Taken /\ Dealt' = Dealt
      BY <1>2, <2>1 DEF Taken, Dealt
    <2>3. TypeOK'
      BY <1>1, <1>2, <2>1 DEF TypeOK
    <2>4. ChannelInv'
      BY <1>1, <1>2, <2>1, <2>2 DEF ChannelInv
    <2> QED
      BY <1>1, <1>2, <2>2, <2>3, <2>4 DEF IInv, ReaderInv, OutputInv, ErrorInv, FirstError, Leveled
  <1> QED
    BY <1>4, <1>5

\* Steps before the first item, of a call that goes on.
LEMMA BeginKeeps ==
  ASSUME IInv, Begin \/ StreamO
  PROVE  IInv'
  <1>1. TypeOK /\ ChannelInv /\ ReaderInv /\ ErrorInv
    BY DEF IInv
  <1>2. /\ pc \in {"start", "run"} /\ pc' \in {"run", "read"}
        /\ (pc' = "run" => producer' = producer) /\ (pc' = "read" => producer' = "sending")
        /\ call' = call /\ sent' = sent /\ channel' = channel /\ item' = item
        /\ output' = output /\ shown' = shown /\ errors' = errors /\ returned' = returned
        /\ panicked' = panicked /\ outcome' = outcome
    BY DEF Begin, StreamO, GoTo, streamVars, resultVars, endVars
  <1>3. Taken' = Taken /\ Dealt' = Dealt
    BY <1>2 DEF Taken, Dealt
  <1>4. producer = "none"
    BY <1>1, <1>2 DEF ChannelInv
  <1>5. TypeOK'
    BY <1>1, <1>2, <1>4 DEF TypeOK
  <1>6. ChannelInv'
    BY <1>1, <1>2, <1>3, <1>4 DEF ChannelInv
  <1>7. ReaderInv'
    BY <1>1, <1>2, <1>3 DEF ReaderInv
  <1>8. OutputInv'
    BY <1>2 DEF OutputInv
  <1>9. panicked = "none" /\ outcome = "none"
    BY <1>1, <1>2 DEF ErrorInv, TypeOK
  <1>10. ErrorInv'
    BY <1>2, <1>9 DEF ErrorInv
  <1> QED
    BY <1>5, <1>6, <1>7, <1>8, <1>10 DEF IInv

\* Steps of the library that leave the producer, the channel and the item alone,
\* and are beyond the stream.
LEMMA BeyondTheStream ==
  ASSUME IInv, producer' = producer, sent' = sent, channel' = channel, item' = item,
         call' = call, pc' \notin {"start", "run", "read", "got"}
  PROVE  ChannelInv'
  <1>1. Taken' = Taken
    BY DEF Taken
  <1> QED
    BY <1>1 DEF IInv, ChannelInv

LEMMA ReceiveKeeps ==
  ASSUME IInv, Handoff \/ Receive
  PROVE  IInv'
  <1>1. TypeOK /\ ChannelInv /\ ReaderInv /\ OutputInv /\ ErrorInv
    BY DEF IInv
  <1>2. /\ pc = "read" /\ pc' = "got" /\ call' = call /\ producer' = producer
        /\ output' = output /\ shown' = shown /\ errors' = errors /\ returned' = returned
        /\ outcome' = outcome /\ panicked' = panicked
    BY DEF Handoff, Receive, GoTo, endVars
  <1>3. /\ sent \in Nat /\ sent <= Len(Items) /\ Len(Items) \in Nat /\ Len(channel) \in Nat
        /\ Len(channel) <= sent /\ call.capacity \in Nat
    BY <1>1, Numbers
  <1>4. /\ sent' \in 0..Len(Items) /\ channel' \in Seq(Yielded) /\ Len(channel') \in Nat
        /\ Taken' = Taken + 1 /\ item' = Items[Taken + 1] /\ Len(channel') <= Len(channel)
        /\ \A i \in 1..Len(channel') : channel'[i] = Items[Taken' + i]
        /\ Len(channel') <= sent' /\ (producer = "closed" => sent' = Len(Items))
    <2>1. CASE Handoff
      <3>1. /\ sent < Len(Items) /\ channel = << >> /\ channel' = << >> /\ sent' = sent + 1
            /\ item' = Items[sent + 1] /\ producer = "sending"
        BY <2>1 DEF Handoff
      <3>2. Len(channel) = 0 /\ Len(channel') = 0 /\ channel' \in Seq(Yielded)
        BY <3>1
      <3>3. Taken = sent /\ Taken' = sent + 1
        BY <1>3, <3>1, <3>2 DEF Taken
      <3> QED
        BY <1>3, <3>1, <3>2, <3>3
    <2>2. CASE Receive
      <3>1. /\ channel # << >> /\ item' = Head(channel) /\ channel' = Tail(channel)
            /\ sent' = sent
        BY <2>2 DEF Receive
      <3>2. channel \in Seq(Yielded)
        BY <1>1 DEF ChannelInv
      <3>3. /\ channel' \in Seq(Yielded) /\ Len(channel') = Len(channel) - 1
            /\ \A i \in 1..Len(channel') : channel'[i] = channel[i + 1]
            /\ Len(channel) > 0
        BY <3>1, <3>2, <1>3, HeadTailProperties, EmptySeq
      <3>4. Taken' = Taken + 1
        BY <1>3, <3>1, <3>3 DEF Taken
      <3>5. item' = Items[Taken + 1]
        <4>1. 1 \in 1..Len(channel) /\ Head(channel) = channel[1]
          BY <1>3, <3>2, <3>3
        <4> QED
          BY <1>1, <3>1, <4>1 DEF ChannelInv
      <3>6. \A i \in 1..Len(channel') : channel'[i] = Items[Taken' + i]
        <4> SUFFICES ASSUME NEW i \in 1..Len(channel')
                     PROVE  channel'[i] = Items[Taken' + i]
          OBVIOUS
        <4>1. i + 1 \in 1..Len(channel)
          BY <1>3, <3>3
        <4>2. channel'[i] = Items[Taken + (i + 1)]
          BY <1>1, <3>3, <4>1 DEF ChannelInv
        <4>3. Taken + (i + 1) = Taken' + i
          BY <1>3, <3>3, <3>4 DEF Taken
        <4> QED
          BY <4>2, <4>3
      <3>7. producer = "closed" => sent' = Len(Items)
        BY <1>1, <3>1 DEF ChannelInv
      <3> QED
        BY <1>3, <3>1, <3>3, <3>4, <3>5, <3>6, <3>7
    <2> QED
      BY <2>1, <2>2
  <1>5. Taken \in Nat /\ Dealt' = Dealt
    <2>1. Taken \in Nat
      BY <1>3 DEF Taken
    <2>2. Dealt = Taken - 0 /\ Dealt' = Taken' - 1
      BY <1>2 DEF Dealt
    <2> QED
      BY <1>4, <2>1, <2>2
  <1>6. TypeOK'
    <2>1. Len(channel') <= call.capacity
      BY <1>1, <1>3, <1>4 DEF TypeOK
    <2> QED
      BY <1>1, <1>2, <1>4, <2>1 DEF TypeOK
  <1>7. ChannelInv'
    <2>1. Taken' > 0 /\ item' = Items[Taken']
      BY <1>4, <1>5
    <2>2. producer # "none"
      BY <1>1, <1>2 DEF ChannelInv
    <2> QED
      BY <1>2, <1>4, <2>1, <2>2 DEF ChannelInv
  <1>8. ReaderInv'
    BY <1>1, <1>2, <1>5 DEF ReaderInv
  <1>9. OutputInv' /\ ErrorInv'
    BY <1>1, <1>2 DEF OutputInv, ErrorInv, TypeOK
  <1> QED
    BY <1>6, <1>7, <1>8, <1>9 DEF IInv

LEMMA ItemKeeps ==
  ASSUME IInv, Text \/ Object
  PROVE  IInv'
  <1>1. TypeOK /\ ChannelInv /\ ReaderInv /\ OutputInv /\ ErrorInv
    BY DEF IInv
  <1>2. /\ pc = "got" /\ pc' = "read" /\ call' = call /\ producer' = producer
        /\ sent' = sent /\ channel' = channel /\ item' = item /\ errors' = errors
        /\ returned' = returned /\ outcome' = outcome /\ panicked' = panicked
        /\ shown' = IF call.json THEN shown ELSE Append(shown, item)
        /\ output' = IF item \in Texts THEN output ELSE Append(output, item)
    BY DEF Text, Object, GoTo, streamVars, endVars
  <1>3. Taken' = Taken /\ Taken \in 1..Len(Items) /\ Taken - 1 = Dealt /\ Dealt' = Taken
    <2>1. Taken \in 0..Len(Items) /\ Len(Items) \in Nat
      BY <1>1, Numbers
    <2>2. Taken > 0 /\ Taken' = Taken
      BY <1>1, <1>2 DEF ChannelInv, Taken
    <2>3. Dealt = Taken - 1 /\ Dealt' = Taken' - 0
      BY <1>2 DEF Dealt
    <2> QED
      BY <2>1, <2>2, <2>3
  <1>4. item = Items[Taken]
    BY <1>1, <1>2 DEF ChannelInv
  <1>5. output' = ObjectsIn[Dealt']
    <2>1. output = ObjectsIn[Taken - 1]
      BY <1>1, <1>2, <1>3 DEF ReaderInv
    <2> QED
      BY <1>2, <1>3, <1>4, <2>1, ObjectsStep
  <1>6. ~call.json => shown' = SubSeq(Items, 1, Dealt')
    <2>1. ~call.json => shown = SubSeq(Items, 1, Taken - 1)
      BY <1>1, <1>2, <1>3 DEF ReaderInv
    <2> QED
      BY <1>2, <1>3, <1>4, <2>1, ShowOneMore
  <1>7. TypeOK'
    BY <1>1, <1>2 DEF TypeOK
  <1>8. ChannelInv'
    BY <1>1, <1>2, <1>3 DEF ChannelInv
  <1>9. ReaderInv'
    BY <1>1, <1>2, <1>5, <1>6 DEF ReaderInv
  <1>10. OutputInv' /\ ErrorInv'
    BY <1>1, <1>2 DEF OutputInv, ErrorInv, TypeOK
  <1> QED
    BY <1>7, <1>8, <1>9, <1>10 DEF IInv

\* How the list comes about, and what goes wrong on the way.
LEMMA ListKeeps ==
  ASSUME IInv, EndOfStream \/ ObjectFails \/ RunO \/ Total
  PROVE  IInv'
  <1> USE DEF GoTo, streamVars, resultVars, endVars
  <1>1. TypeOK /\ ChannelInv /\ ReaderInv /\ OutputInv /\ ErrorInv
    BY DEF IInv
  <1>2. /\ pc \in {"read", "got", "run", "total"} /\ pc' \in {"total", "print"}
        /\ call' = call /\ producer' = producer /\ sent' = sent /\ channel' = channel
        /\ item' = item /\ returned' = returned /\ outcome' = outcome
        /\ panicked' = panicked /\ errors \subseteq errors'
    BY DEF EndOfStream, ObjectFails, RunO, Total
  <1>3. errors' \subseteq {"command", "total", "summary", "result"}
    BY <1>1 DEF EndOfStream, ObjectFails, RunO, Total, TypeOK
  <1>4. returned' = "nil" /\ outcome' = "none" /\ panicked' = "none"
    BY <1>1, <1>2 DEF ReaderInv, ErrorInv, TypeOK
  <1>5. "command" \notin errors' => output' = Objects
    <2>1. CASE EndOfStream
      <3>1. /\ pc = "read" /\ channel = << >> /\ producer = "closed" /\ output' = output
        BY <2>1 DEF EndOfStream
      <3>2. sent = Len(Items) /\ Len(channel) = 0 /\ Len(Items) \in Nat
        BY <1>1, <3>1, ItemsType DEF ChannelInv
      <3>3. Dealt = Len(Items)
        BY <3>1, <3>2 DEF Dealt, Taken
      <3> QED
        BY <1>1, <3>1, <3>3 DEF ReaderInv, Objects
    <2>2. CASE ObjectFails \/ RunO
      BY <2>2 DEF ObjectFails, RunO
    <2>3. CASE Total
      <3>1. pc = "total" /\ output' = output /\ errors \subseteq errors'
        BY <1>2, <2>3 DEF Total
      <3>2. returned = "nil"
        BY <1>2, <1>4
      <3> QED
        BY <1>1, <3>1, <3>2 DEF OutputInv
    <2> QED
      BY <2>1, <2>2, <2>3
  <1>6. TypeOK'
    BY <1>1, <1>2, <1>3, <1>4 DEF TypeOK
  <1>7. ChannelInv'
    BY <1>2, BeyondTheStream
  <1>8. pc' = "total" => errors' \subseteq {"command"}
    BY <1>1, <1>2 DEF EndOfStream, ObjectFails, RunO, Total, ReaderInv
  <1>9. ReaderInv' /\ OutputInv' /\ ErrorInv'
    BY <1>2, <1>4, <1>5, <1>8 DEF ReaderInv, OutputInv, ErrorInv
  <1> QED
    BY <1>6, <1>7, <1>9 DEF IInv

\* What is returned is settled.
LEMMA ReturnKeeps ==
  ASSUME IInv, Invalid \/ BadArgs \/ PrintResult
  PROVE  IInv'
  <1> USE DEF GoTo, streamVars, resultVars, endVars
  <1>1. TypeOK /\ ChannelInv /\ ReaderInv /\ OutputInv /\ ErrorInv
    BY DEF IInv
  <1>2. /\ pc \in {"start", "print"} /\ pc' \in {"exit", "update"}
        /\ call' = call /\ producer' = producer /\ sent' = sent /\ channel' = channel
        /\ item' = item /\ output' = output /\ outcome' = outcome /\ panicked' = panicked
        /\ errors' \in {errors, errors \cup {"result"}} /\ (pc = "start" => errors' = errors)
    BY DEF Invalid, BadArgs, PrintResult
  <1>3. \/ pc = "start" /\ returned' \in {"invalid", "args"} /\ errors = {}
        \/ pc = "print" /\ returned' = FirstError
    BY <1>1 DEF Invalid, BadArgs, PrintResult, ReaderInv
  <1>4. FirstError \in errors \cup {"nil"} /\ FirstError' = FirstError
    BY <1>2 DEF FirstError
  <1>5. outcome' = "none" /\ panicked' = "none"
    BY <1>1, <1>2 DEF TypeOK, ErrorInv
  <1>6. TypeOK'
    BY <1>1, <1>2, <1>3, <1>4, <1>5 DEF TypeOK
  <1>7. ChannelInv'
    BY <1>2, BeyondTheStream
  <1>8. OutputInv'
    <2>1. CASE pc = "print"
      <3>1. returned = "nil"
        BY <1>1, <2>1 DEF ReaderInv
      <3> QED
        BY <1>1, <1>2, <2>1, <3>1 DEF OutputInv
    <2>2. CASE pc = "start"
      BY <1>3, <2>2 DEF OutputInv
    <2> QED
      BY <1>2, <2>1, <2>2
  <1>9. ReaderInv' /\ ErrorInv'
    BY <1>2, <1>3, <1>4, <1>5 DEF ReaderInv, ErrorInv
  <1> QED
    BY <1>6, <1>7, <1>8, <1>9 DEF IInv

\* The end.
LEMMA EndKeeps ==
  ASSUME IInv, UpdateCheck \/ LogName \/ Exit
  PROVE  IInv'
  <1> USE DEF GoTo, streamVars, resultVars, endVars
  <1>1. TypeOK /\ ChannelInv /\ ReaderInv /\ OutputInv /\ ErrorInv
    BY DEF IInv
  <1>2. /\ pc \in {"update", "logName", "exit"} /\ pc' \in {"logName", "exit", "ended"}
        /\ call' = call /\ producer' = producer /\ sent' = sent /\ channel' = channel
        /\ item' = item /\ errors' = errors /\ output' = output /\ returned' = returned
        /\ panicked' = panicked
    BY DEF UpdateCheck, LogName, Exit
  <1>3. /\ outcome = "none" /\ outcome' \in {"none", "ok", "failed", "returned"}
        /\ outcome' # "none" <=> pc' = "ended"
        /\ outcome' = "ok" => returned = "nil"
    <2>1. outcome = "none"
      BY <1>1, <1>2 DEF TypeOK
    <2>2. CASE UpdateCheck \/ LogName
      BY <2>1, <2>2 DEF UpdateCheck, LogName
    <2>3. CASE Exit
      BY <2>1, <2>3 DEF Exit
    <2> QED
      BY <2>1, <2>2, <2>3
  <1>4. panicked = "none"
    BY <1>1, <1>2 DEF ErrorInv
  <1>5. TypeOK'
    BY <1>1, <1>2, <1>3 DEF TypeOK
  <1>6. ChannelInv'
    BY <1>2, BeyondTheStream
  <1>7. ReaderInv' /\ OutputInv'
    BY <1>1, <1>2 DEF ReaderInv, OutputInv
  <1>8. ErrorInv'
    BY <1>1, <1>2, <1>3, <1>4 DEF ErrorInv, FirstError
  <1> QED
    BY <1>5, <1>6, <1>7, <1>8 DEF IInv

\* A panic, wherever it comes from.
LEMMA PanicKeeps ==
  ASSUME IInv, CommandPanics \/ UpdateCheckFails \/ NoLogName
  PROVE  IInv'
  <1> USE DEF GoTo, streamVars, resultVars, endVars
  <1>1. TypeOK /\ ChannelInv /\ ReaderInv /\ OutputInv /\ ErrorInv
    BY DEF IInv
  <1>2. /\ pc' = "ended" /\ returned' = "panic" /\ outcome' \in {"failed", "returned"}
        /\ call' = call /\ producer' = producer /\ sent' = sent /\ channel' = channel
        /\ item' = item /\ errors' = errors /\ output' = output /\ fileLog' = fileLog
        /\ panicked' \in {"command", "update", "log"}
    BY DEF CommandPanics, UpdateCheckFails, NoLogName, Panic
  <1>3. /\ panicked' = "command" => errors \subseteq {"command"} /\ (errors = {} \/ call.totals)
        /\ panicked' = "update" => call.checkDue
        /\ panicked' = "log" => Leveled /\ ~fileLog
    <2>1. CASE CommandPanics
      <3>1. pc = "run" => errors = {}
        BY <1>1 DEF ReaderInv
      <3>2. pc = "total" => errors \subseteq {"command"}
        BY <1>1 DEF ReaderInv
      <3> QED
        BY <2>1, <3>1, <3>2 DEF CommandPanics, Panic
    <2>2. CASE UpdateCheckFails
      BY <2>2 DEF UpdateCheckFails, Panic
    <2>3. CASE NoLogName
      BY <2>3 DEF NoLogName, Panic
    <2> QED
      BY <2>1, <2>2, <2>3
  <1>4. Leveled' = Leveled
    BY <1>2 DEF Leveled
  <1>5. TypeOK'
    BY <1>1, <1>2 DEF TypeOK
  <1>6. ChannelInv'
    BY <1>2, BeyondTheStream
  <1>7. ReaderInv' /\ OutputInv'
    BY <1>2 DEF ReaderInv, OutputInv
  <1>8. ErrorInv'
    BY <1>2, <1>3, <1>4 DEF ErrorInv
  <1> QED
    BY <1>5, <1>6, <1>7, <1>8 DEF IInv

LEMMA StepIInv == IInv /\ [Next]_vars => IInv'
  <1> SUFFICES ASSUME IInv, [Next]_vars PROVE IInv'
    OBVIOUS
  <1>1. CASE Producer
    BY <1>1, ProducerKeeps DEF Producer
  <1>2. CASE Library
    BY <1>2, BeginKeeps, ReceiveKeeps, ItemKeeps, ListKeeps, ReturnKeeps, EndKeeps,
       PanicKeeps DEF Library
  <1>3. CASE Ended \/ UNCHANGED vars
    <2>1. /\ call' = call /\ pc' = pc /\ producer' = producer /\ sent' = sent
          /\ channel' = channel /\ item' = item /\ output' = output /\ shown' = shown
          /\ errors' = errors /\ returned' = returned /\ fileLog' = fileLog
          /\ panicked' = panicked /\ outcome' = outcome
      BY <1>3 DEF Ended, vars, streamVars, resultVars, endVars
    <2>2. TypeOK'
      BY <2>1 DEF IInv, TypeOK
    <2>3. Taken' = Taken /\ Dealt' = Dealt
      BY <2>1 DEF Taken, Dealt
    <2>4. ChannelInv'
      BY <2>1, <2>3 DEF IInv, ChannelInv
    <2>5. ReaderInv' /\ OutputInv'
      BY <2>1, <2>3 DEF IInv, ReaderInv, OutputInv
    <2>6. ErrorInv'
      BY <2>1 DEF IInv, ErrorInv, FirstError, Leveled
    <2> QED
      BY <2>2, <2>4, <2>5, <2>6 DEF IInv
  <1> QED
    BY <1>1, <1>2, <1>3 DEF Next

-------------------------------------------------------------------------------
(***************************************************************************)
(* The theorems.                                                           *)
(***************************************************************************)

\* The inductive invariant holds of every behaviour.
THEOREM Inductive == Spec => []IInv
  BY InitIInv, StepIInv, PTL DEF Spec

\* The library is at one of its control points, and the channel holds what fits.
THEOREM TypeCorrect == Spec => []TypeOK
  <1>1. IInv => TypeOK
    BY DEF IInv
  <1> QED
    BY <1>1, Inductive, PTL

\* The list a command puts out is the objects it yielded, in their order, however
\* long and through whatever channel they came.
THEOREM OutputIsWhole == Spec => []OutputIsWhatWasYielded
  <1>1. IInv => OutputIsWhatWasYielded
    BY DEF IInv, OutputInv, ReaderInv, OutputIsWhatWasYielded, Dealt, Taken
  <1> QED
    BY <1>1, Inductive, PTL

\* The error a command ends with is the first that occurred, unless a panic came
\* after it; status 0 means that there was none but the result template's.
THEOREM FirstErrorReturned == Spec => []FirstErrorIsReported
  <1>1. IInv => FirstErrorIsReported
    <2> SUFFICES ASSUME IInv, pc = "ended"
                 PROVE  FirstErrorIsReported
      BY DEF FirstErrorIsReported
    <2>1. /\ panicked = "none" =>
               returned = FirstError \/ (returned \in {"invalid", "args"} /\ errors = {})
          /\ outcome = "ok" => returned = "nil" /\ panicked = "none"
          /\ panicked = "command" => (errors \subseteq {"command"} /\ (errors = {} \/ call.totals))
          /\ panicked = "update" => call.checkDue
          /\ panicked = "log" => Leveled /\ ~fileLog
          /\ errors \subseteq {"command", "total", "summary", "result"}
          /\ panicked \in {"none", "command", "update", "log"}
      BY DEF IInv, ErrorInv, TypeOK
    <2>2. CASE panicked = "none"
      BY <2>1, <2>2 DEF FirstError, FirstErrorIsReported
    <2>3. CASE panicked # "none"
      BY <2>1, <2>3 DEF FirstErrorIsReported
    <2> QED
      BY <2>2, <2>3
  <1> QED
    BY <1>1, Inductive, PTL

===============================================================================
