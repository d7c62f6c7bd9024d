---------------------------- MODULE TrendsProofs ----------------------------
(***************************************************************************)
(* Proofs about Trends for every set of flows, every traffic, and every    *)
(* length of a trend.                                                      *)
(***************************************************************************)
EXTENDS Trends, SequenceTheorems, FiniteSetTheorems, WellFoundedInduction, TLAPS

-----------------------------------------------------------------------------
(* Lists of at most TrendTicks samples. *)

PushedLen(s) == IF Len(s) = TrendTicks THEN TrendTicks ELSE Len(s) + 1

(* t is s after x was pushed. *)
Pushed(t, s, x) ==
    /\ Len(t) = PushedLen(s) /\ PushedLen(s) \in 1 .. TrendTicks
    /\ \A j \in 1 .. PushedLen(s) :
          t[j] = IF j = PushedLen(s) THEN x ELSE IF Len(s) = TrendTicks THEN s[j + 1] ELSE s[j]

LEMMA PushFacts ==
    ASSUME NEW S, NEW s \in Seq(S), Len(s) <= TrendTicks, NEW x \in S
    PROVE  PushCapped(s, x) \in Seq(S) /\ Pushed(PushCapped(s, x), s, x)
<1>0. TrendTicks \in Nat \ {0}
  BY TrendsAssumption
<1>1. CASE Len(s) = TrendTicks
  <2>1. Tail(s) \in Seq(S) /\ Len(Tail(s)) = TrendTicks - 1
        /\ \A j \in 1 .. TrendTicks - 1 : Tail(s)[j] = s[j + 1]
    BY <1>0, <1>1
  <2> QED BY <1>0, <1>1, <2>1 DEF PushCapped, PushedLen, Pushed
<1>2. CASE Len(s) # TrendTicks
  BY <1>0, <1>2 DEF PushCapped, PushedLen, Pushed
<1> QED BY <1>1, <1>2

(* Taking the last TrendTicks of one more drops what PushCapped drops. *)
LEMMA LastIsPushed ==
    ASSUME NEW S, NEW s \in Seq(S), Len(s) <= TrendTicks, NEW x \in S
    PROVE  LastOf(TrendTicks, Append(s, x)) = PushCapped(s, x)
<1>0. TrendTicks \in Nat \ {0} /\ Len(s) \in Nat
  BY TrendsAssumption
<1> DEFINE t == Append(s, x)
           from == IF Len(t) > TrendTicks THEN Len(t) - TrendTicks + 1 ELSE 1
           last == SubSeq(t, from, Len(t))
<1>1. t \in Seq(S) /\ Len(t) = Len(s) + 1
      /\ \A j \in 1 .. Len(s) + 1 : t[j] = IF j = Len(s) + 1 THEN x ELSE s[j]
  OBVIOUS
<1>2. from \in 1 .. Len(t) /\ from = IF Len(s) = TrendTicks THEN 2 ELSE 1
  BY <1>0, <1>1
<1> HIDE DEF t, from
<1>3. /\ last \in Seq(S) /\ Len(last) = PushedLen(s)
      /\ \A j \in 1 .. PushedLen(s) : last[j] = t[from + j - 1]
  <2>1. last \in Seq(S) /\ Len(last) = Len(t) - from + 1
        /\ \A j \in 1 .. Len(t) - from + 1 : last[j] = t[from + j - 1]
    BY <1>1, <1>2, SubSeqProperties
  <2>2. Len(t) - from + 1 = PushedLen(s)
    BY <1>0, <1>1, <1>2 DEF PushedLen
  <2> QED BY <2>1, <2>2
<1>4. \A j \in 1 .. PushedLen(s) : last[j] = PushCapped(s, x)[j]
  <2> SUFFICES ASSUME NEW j \in 1 .. PushedLen(s) PROVE t[from + j - 1] = PushCapped(s, x)[j]
    BY <1>3
  <2>1. PushCapped(s, x)[j] = IF j = PushedLen(s) THEN x
                              ELSE IF Len(s) = TrendTicks THEN s[j + 1] ELSE s[j]
    BY PushFacts DEF Pushed
  <2> QED BY <1>0, <1>1, <1>2, <2>1 DEF PushedLen
<1>5. PushCapped(s, x) \in Seq(S) /\ Len(PushCapped(s, x)) = PushedLen(s)
  BY PushFacts DEF Pushed
<1>6. last = PushCapped(s, x)
  BY <1>3, <1>4, <1>5, SeqEqual
<1> QED BY <1>6 DEF LastOf, t, from

-----------------------------------------------------------------------------
(* The inductive invariant. *)

Samplings == [bytes : {t.bytes : t \in Traffic}, ms : {t.ms : t \in Traffic}]

(* The samples of a flow are the bytes of as many of the latest chunks, it *)
(* moved nothing in those before, and the intervals are those of the       *)
(* chunks.                                                                 *)
Missing(k) == Len(latest) - Len(Samples(k))
FlowOK(k) ==
    /\ Len(Samples(k)) <= Len(latest)
    /\ \A j \in 1 .. Len(latest) :
          BytesOf(latest[j], k) = IF j <= Missing(k) THEN 0 ELSE Samples(k)[j - Missing(k)]
Aligned ==
    /\ Len(intervals) = Len(latest)
    /\ \A j \in 1 .. Len(latest) : intervals[j] = AtLeastOne(latest[j].ms)
    /\ \A k \in Key : FlowOK(k)

(* Identity i is known to the view, or will be when it has taken in the    *)
(* first n messages of the channel.                                        *)
KnownBy(n, i) ==
    \/ i \in identities
    \/ \E m \in 1 .. n : /\ m \in DOMAIN channel /\ channel[m].kind = "chunk"
                        /\ i \in channel[m].identities
Named ==
    /\ \A k \in DOMAIN flows : k.id \in identities
    /\ open /\ feed = "streaming" =>
          \A i \in described : KnownBy(Len(channel), i)
    /\ \A n \in DOMAIN channel : channel[n].kind = "chunk" =>
          \A k \in DOMAIN channel[n].bytes : KnownBy(n, k.id)

IInv == TypeOK /\ Aligned /\ Named

LEMMA TrafficFacts ==
    ASSUME NEW t \in Traffic
    PROVE  /\ t.ms \in Nat /\ DOMAIN t.bytes \subseteq Key
           /\ \A k \in Key : BytesOf(t, k) \in Nat
BY TrendsAssumption DEF BytesOf

LEMMA MessageFacts ==
    ASSUME NEW m \in Message
    PROVE  /\ m = Down \/ m.kind = "chunk"
           /\ m.kind = "chunk" =>
                 /\ m.identities \subseteq Ids(Key)
                 /\ \E t \in Traffic : m.bytes = t.bytes
                 /\ \E t \in Traffic : m.ms = t.ms
BY DEF Message, Down

LEMMA ChunkIsMessage ==
    ASSUME NEW t \in Traffic, NEW D
    PROVE  [kind |-> "chunk", bytes |-> t.bytes, ms |-> t.ms,
            identities |-> Ids(DOMAIN t.bytes) \ D] \in Message
<1>1. Ids(DOMAIN t.bytes) \ D \in SUBSET Ids(Key)
  BY TrafficFacts DEF Ids
<1>2. t.bytes \in {u.bytes : u \in Traffic} /\ t.ms \in {u.ms : u \in Traffic}
  OBVIOUS
<1> QED BY <1>1, <1>2 DEF Message

LEMMA InvInit == Init => IInv
<1> SUFFICES ASSUME Init PROVE IInv
  OBVIOUS
<1>1. /\ channel = <<>> /\ intervals = <<>> /\ latest = <<>>
      /\ flows = [k \in {} |-> <<>>] /\ DOMAIN flows = {}
  BY DEF Init
<1>2. TypeOK
  <2>1. channel \in Seq(Message)
    BY <1>1
  <2>2. latest \in Seq(Samplings) /\ intervals \in Seq(Nat \ {0}) /\ Len(intervals) <= TrendTicks
    BY <1>1, TrendsAssumption
  <2>3. described \subseteq Ids(Key) /\ identities \subseteq Ids(Key)
    BY DEF Init
  <2>4. DOMAIN flows \subseteq Key
        /\ \A k \in DOMAIN flows : flows[k] \in Seq(Nat) /\ Len(flows[k]) \in 1 .. TrendTicks
    BY <1>1
  <2>5. /\ daemon \in {"up", "down"} /\ feed = "connecting" /\ live = "connecting" /\ open = TRUE
    BY DEF Init
  <2> QED BY <2>1, <2>2, <2>3, <2>4, <2>5 DEF TypeOK, Samplings
<1>3. Aligned
  BY <1>1, TrendsAssumption DEF Aligned, FlowOK, Samples
<1>4. Named
  BY <1>1 DEF Init, Named
<1> QED BY <1>2, <1>3, <1>4 DEF IInv

-----------------------------------------------------------------------------
(* Taking in a chunk. *)

LEMMA HeadFacts ==
    ASSUME TypeOK, channel # <<>>
    PROVE  /\ Head(channel) \in Message /\ Head(channel) = channel[1] /\ 1 \in DOMAIN channel
           /\ Tail(channel) \in Seq(Message) /\ Len(Tail(channel)) = Len(channel) - 1
           /\ \A n \in DOMAIN Tail(channel) : Tail(channel)[n] = channel[n + 1]
                                             /\ n + 1 \in DOMAIN channel
BY DEF TypeOK

(* The sample a flow has of a chunk, and the lists of samples after it.    *)
LEMMA SamplesAfter ==
    ASSUME TypeOK, TakeChunk, NEW k \in Key
    PROVE  /\ BytesOf(Head(channel), k) \in Nat
           /\ Samples(k) \in Seq(Nat) /\ Len(Samples(k)) <= TrendTicks
           /\ DOMAIN flows' = DOMAIN flows \cup DOMAIN Head(channel).bytes
           /\ k \in DOMAIN flows' =>
                 /\ flows'[k] \in Seq(Nat) /\ Samples(k)' = flows'[k]
                 /\ Pushed(flows'[k], Samples(k), BytesOf(Head(channel), k))
           /\ k \notin DOMAIN flows' =>
                 /\ Samples(k)' = <<>> /\ Samples(k) = <<>>
                 /\ BytesOf(Head(channel), k) = 0
<1> DEFINE chunk == Head(channel)
<1>1. flows' = [j \in DOMAIN flows \cup DOMAIN chunk.bytes |->
                   PushCapped(Samples(j), BytesOf(chunk, j))]
  BY DEF TakeChunk
<1>2. PICK t \in Traffic : chunk.bytes = t.bytes
  BY HeadFacts, MessageFacts DEF TakeChunk
<1>3. BytesOf(chunk, k) = BytesOf(t, k) /\ BytesOf(t, k) \in Nat
  BY <1>2, TrafficFacts DEF BytesOf
<1>4. Samples(k) \in Seq(Nat) /\ Len(Samples(k)) <= TrendTicks
  <2>1. CASE k \in DOMAIN flows
    BY <2>1 DEF TypeOK, Samples
  <2>2. CASE k \notin DOMAIN flows
    BY <2>2, TrendsAssumption DEF Samples
  <2> QED BY <2>1, <2>2
<1>5. DOMAIN flows' = DOMAIN flows \cup DOMAIN chunk.bytes
  BY <1>1
<1>6. ASSUME k \in DOMAIN flows'
      PROVE  /\ flows'[k] \in Seq(Nat) /\ Samples(k)' = flows'[k]
             /\ Pushed(flows'[k], Samples(k), BytesOf(chunk, k))
  <2>1. flows'[k] = PushCapped(Samples(k), BytesOf(chunk, k)) /\ Samples(k)' = flows'[k]
    BY <1>1, <1>5, <1>6 DEF Samples
  <2>2. BytesOf(chunk, k) \in Nat
    BY <1>3
  <2>3. /\ PushCapped(Samples(k), BytesOf(chunk, k)) \in Seq(Nat)
        /\ Pushed(PushCapped(Samples(k), BytesOf(chunk, k)), Samples(k), BytesOf(chunk, k))
    BY <1>4, <2>2, PushFacts, Zenon
  <2> QED BY <2>1, <2>3
<1>7. ASSUME k \notin DOMAIN flows'
      PROVE  Samples(k)' = <<>> /\ Samples(k) = <<>> /\ BytesOf(chunk, k) = 0
  BY <1>5, <1>7 DEF Samples, BytesOf
<1> QED BY <1>3, <1>4, <1>5, <1>6, <1>7

LEMMA ListsAfter ==
    ASSUME TypeOK, Aligned, TakeChunk
    PROVE  LET new == [bytes |-> Head(channel).bytes, ms |-> Head(channel).ms]
           IN  /\ latest' \in Seq(Samplings) /\ Pushed(latest', latest, new)
               /\ intervals' \in Seq(Nat \ {0})
               /\ Pushed(intervals', intervals, AtLeastOne(new.ms))
<1> DEFINE new == [bytes |-> Head(channel).bytes, ms |-> Head(channel).ms]
           length == AtLeastOne(new.ms)
<1>1. Head(channel) \in Message /\ Head(channel).kind = "chunk"
  BY HeadFacts DEF TakeChunk
<1>2. new.bytes \in {t.bytes : t \in Traffic} /\ new.ms \in {t.ms : t \in Traffic}
  BY <1>1, MessageFacts
<1>3. new \in Samplings
  BY <1>2 DEF Samplings
<1>4. length \in Nat \ {0}
  BY <1>2, TrafficFacts DEF AtLeastOne
<1>5. intervals' = PushCapped(intervals, length) /\ latest' = LastOf(TrendTicks, Append(latest, new))
  BY DEF TakeChunk
<1>6. /\ latest \in Seq(Samplings) /\ Len(latest) <= TrendTicks
      /\ intervals \in Seq(Nat \ {0}) /\ Len(intervals) <= TrendTicks
  BY DEF TypeOK, Aligned, Samplings
<1> HIDE DEF new, length
<1>7. latest' = PushCapped(latest, new)
  BY <1>3, <1>5, <1>6, LastIsPushed
<1>8. PushCapped(latest, new) \in Seq(Samplings) /\ Pushed(PushCapped(latest, new), latest, new)
  BY <1>3, <1>6, PushFacts
<1>9. /\ PushCapped(intervals, length) \in Seq(Nat \ {0})
      /\ Pushed(PushCapped(intervals, length), intervals, length)
  BY <1>4, <1>6, PushFacts, Zenon
<1> QED BY <1>5, <1>7, <1>8, <1>9 DEF new, length

LEMMA TakeChunkType == TypeOK /\ Aligned /\ TakeChunk => TypeOK'
<1> SUFFICES ASSUME TypeOK, Aligned, TakeChunk PROVE TypeOK'
  OBVIOUS
<1>1. latest' \in Seq(Samplings)
  BY ListsAfter
<1>2. intervals' \in Seq(Nat \ {0}) /\ Len(intervals') <= TrendTicks
  BY ListsAfter, TrendsAssumption DEF Pushed
<1>3. DOMAIN flows' \subseteq Key
  <2>1. DOMAIN Head(channel).bytes \subseteq Key
    BY HeadFacts, MessageFacts, TrafficFacts DEF TakeChunk
  <2>2. DOMAIN flows' = DOMAIN flows \cup DOMAIN Head(channel).bytes
    BY DEF TakeChunk
  <2> QED BY <2>1, <2>2 DEF TypeOK
<1>4. ASSUME NEW k \in DOMAIN flows'
      PROVE  flows'[k] \in Seq(Nat) /\ Len(flows'[k]) \in 1 .. TrendTicks
  BY <1>3, SamplesAfter DEF Pushed
<1>5. identities' \subseteq Ids(Key)
  BY HeadFacts, MessageFacts DEF TypeOK, TakeChunk
<1>6. channel' \in Seq(Message)
  BY HeadFacts DEF TakeChunk
<1>7. /\ daemon' = daemon /\ feed' = feed /\ described' = described /\ open' = open
      /\ live' = "live"
  BY DEF TakeChunk
<1> QED BY <1>1, <1>2, <1>3, <1>4, <1>5, <1>6, <1>7 DEF TypeOK, Samplings

(* Shifting a column by "shift" when a list of "s" samples has become one  *)
(* of "t" and the latest chunks, n before, have become m.                  *)
LEMMA Shifted ==
    ASSUME NEW m \in Int, NEW t \in Int, NEW n \in Int, NEW s \in Int,
           NEW shift \in Int, NEW j \in Int, m - t = n - s - shift
    PROVE  /\ j <= m - t <=> j + shift <= n - s
           /\ j + shift - (n - s) = j - (m - t)
OBVIOUS

LEMMA TakeChunkAligned == TypeOK /\ Aligned /\ TakeChunk => Aligned'
<1> SUFFICES ASSUME TypeOK, Aligned, TakeChunk PROVE Aligned'
  OBVIOUS
<1> DEFINE new == [bytes |-> Head(channel).bytes, ms |-> Head(channel).ms]
           L == PushedLen(latest)
<1>0. /\ TrendTicks \in Nat \ {0} /\ L \in 1 .. TrendTicks
      /\ Len(latest) \in Nat /\ Len(latest) <= TrendTicks
  BY TrendsAssumption, ListsAfter DEF Pushed, TypeOK, Aligned
<1>1. /\ Len(latest') = L
      /\ \A j \in 1 .. L : latest'[j] = IF j = L THEN new
                            ELSE IF Len(latest) = TrendTicks THEN latest[j + 1] ELSE latest[j]
  BY ListsAfter, Zenon DEF Pushed
<1>2. Len(intervals) = Len(latest) /\ L = PushedLen(intervals)
  BY DEF Aligned, PushedLen
<1>3. /\ Len(intervals') = L
      /\ \A j \in 1 .. L : intervals'[j] =
            IF j = L THEN AtLeastOne(new.ms)
            ELSE IF Len(latest) = TrendTicks THEN intervals[j + 1] ELSE intervals[j]
  BY <1>2, ListsAfter, Zenon DEF Pushed
<1>4. ASSUME NEW j \in 1 .. L PROVE intervals'[j] = AtLeastOne(latest'[j].ms)
  <2>1. CASE j = L
    BY <1>1, <1>3, <2>1
  <2>2. CASE j # L /\ Len(latest) = TrendTicks
    <3>1. j + 1 \in 1 .. Len(latest)
      BY <1>0, <2>2
    <3> QED BY <1>1, <1>3, <2>2, <3>1 DEF Aligned
  <2>3. CASE j # L /\ Len(latest) # TrendTicks
    <3>1. j \in 1 .. Len(latest)
      BY <1>0, <2>3 DEF PushedLen
    <3> QED BY <1>1, <1>3, <2>3, <3>1 DEF Aligned
  <2> QED BY <2>1, <2>2, <2>3
<1>5. ASSUME NEW k \in Key PROVE FlowOK(k)'
  <2> DEFINE s == Samples(k)
             t == Samples(k)'
             x == BytesOf(Head(channel), k)
  <2>1. s \in Seq(Nat) /\ Len(s) \in Nat /\ Len(s) <= TrendTicks /\ x \in Nat
    BY SamplesAfter
  <2>2. /\ Len(s) <= Len(latest)
        /\ \A j \in 1 .. Len(latest) :
              BytesOf(latest[j], k) = IF j <= Len(latest) - Len(s) THEN 0
                                      ELSE s[j - (Len(latest) - Len(s))]
    BY DEF Aligned, FlowOK, Missing
  <2>3. \/ Len(t) = 0 /\ Len(s) = 0 /\ x = 0
        \/ /\ Len(t) = PushedLen(s) /\ PushedLen(s) \in 1 .. TrendTicks
           /\ \A j \in 1 .. PushedLen(s) : t[j] = IF j = PushedLen(s) THEN x
                                         ELSE IF Len(s) = TrendTicks THEN s[j + 1] ELSE s[j]
    <3>1. CASE k \in DOMAIN flows'
      BY <3>1, SamplesAfter, Zenon DEF Pushed
    <3>2. CASE k \notin DOMAIN flows'
      <4>1. t = <<>> /\ s = <<>> /\ x = 0
        BY <3>2, SamplesAfter
      <4> QED BY <4>1
    <3> QED BY <3>1, <3>2
  <2>4. BytesOf(new, k) = x
    BY DEF BytesOf
  <2> HIDE DEF s, t, x, new
  <2>5. Len(t) <= L
    BY <1>0, <2>1, <2>2, <2>3 DEF PushedLen
  <2>6. ASSUME NEW j \in 1 .. L
        PROVE  BytesOf(latest'[j], k) = IF j <= L - Len(t) THEN 0 ELSE t[j - (L - Len(t))]
    <3> DEFINE shift == IF Len(latest) = TrendTicks THEN 1 ELSE 0
    <3>1. CASE j = L
      <4>1. BytesOf(latest'[j], k) = x
        BY <1>1, <2>4, <3>1
      <4>2. CASE Len(t) = 0 /\ Len(s) = 0 /\ x = 0
        BY <1>0, <3>1, <4>1, <4>2
      <4>3. CASE Len(t) = PushedLen(s) /\ PushedLen(s) \in 1 .. TrendTicks /\ t[PushedLen(s)] = x
        BY <1>0, <3>1, <4>1, <4>3
      <4> QED BY <2>3, <4>2, <4>3
    <3>2. CASE j # L
      <4>1. /\ j + shift \in 1 .. Len(latest) /\ latest'[j] = latest[j + shift]
            /\ L = Len(latest) + 1 - shift
        <5>1. CASE Len(latest) = TrendTicks
          BY <1>0, <1>1, <3>2, <5>1 DEF PushedLen
        <5>2. CASE Len(latest) # TrendTicks
          BY <1>0, <1>1, <3>2, <5>2 DEF PushedLen
        <5> QED BY <5>1, <5>2
      <4>2. BytesOf(latest'[j], k) = IF j + shift <= Len(latest) - Len(s) THEN 0
                                     ELSE s[j + shift - (Len(latest) - Len(s))]
        <5> DEFINE i == j + shift
        <5>1. i \in 1 .. Len(latest) /\ latest'[j] = latest[i]
          BY <4>1
        <5> HIDE DEF i
        <5>2. BytesOf(latest[i], k) = IF i <= Len(latest) - Len(s) THEN 0
                                      ELSE s[i - (Len(latest) - Len(s))]
          BY <2>2, <5>1
        <5> QED BY <5>1, <5>2 DEF i
      <4> HIDE DEF L
      <4>3. CASE Len(t) = 0 /\ Len(s) = 0 /\ x = 0
        BY <1>0, <4>1, <4>2, <4>3
      <4>4. CASE Len(s) = TrendTicks
        <5>1. Len(latest) = TrendTicks /\ shift = 1 /\ L = TrendTicks
          BY <1>0, <2>2, <4>1, <4>4
        <5>2. Len(t) = TrendTicks /\ \A i \in 1 .. TrendTicks - 1 : t[i] = s[i + 1]
          BY <1>0, <2>3, <4>4 DEF PushedLen
        <5> QED BY <1>0, <3>2, <4>2, <4>4, <5>1, <5>2
      <4>5. CASE /\ Len(s) # TrendTicks /\ Len(t) = Len(s) + 1
                 /\ \A i \in 1 .. Len(s) : t[i] = s[i]
        <5>1. L - Len(t) = Len(latest) - Len(s) - shift
          BY <1>0, <2>1, <4>1, <4>5
        <5>2. /\ L \in Int /\ Len(t) \in Int /\ Len(latest) \in Int /\ Len(s) \in Int
              /\ shift \in Int /\ j \in Int
          BY <1>0, <2>1, <4>1, <4>5
        <5>3. /\ j <= L - Len(t) <=> j + shift <= Len(latest) - Len(s)
              /\ j + shift - (Len(latest) - Len(s)) = j - (L - Len(t))
          BY <5>1, <5>2, Shifted
        <5>4. ~(j <= L - Len(t)) => j - (L - Len(t)) \in 1 .. Len(s)
          BY <1>0, <2>1, <3>2, <4>1, <5>1
        <5> QED BY <4>2, <4>5, <5>3, <5>4
      <4>6. \/ Len(t) = 0 /\ Len(s) = 0 /\ x = 0
            \/ Len(s) = TrendTicks
            \/ /\ Len(s) # TrendTicks /\ Len(t) = Len(s) + 1
               /\ \A i \in 1 .. Len(s) : t[i] = s[i]
        BY <2>1, <2>3 DEF PushedLen
      <4> QED BY <4>3, <4>4, <4>5, <4>6
    <3> QED BY <3>1, <3>2
  <2>7. /\ Len(t) <= Len(latest')
        /\ \A j \in 1 .. Len(latest') :
              BytesOf(latest'[j], k) = IF j <= Len(latest') - Len(t) THEN 0
                                       ELSE t[j - (Len(latest') - Len(t))]
    BY <1>1, <2>5, <2>6
  <2> QED BY <2>7 DEF FlowOK, Missing, BytesOf, t
<1> QED BY <1>1, <1>3, <1>4, <1>5 DEF Aligned

(* KnownBy in the next state. *)
KnownAfter(n, i) ==
    \/ i \in identities'
    \/ \E m \in 1 .. n : /\ m \in DOMAIN channel' /\ channel'[m].kind = "chunk"
                        /\ i \in channel'[m].identities

LEMMA TakeNamed ==
    ASSUME TypeOK, Named, open, channel # <<>>, channel' = Tail(channel),
           open' = open, feed' = feed, described' = described,
           \/ TakeChunk
           \/ Head(channel) = Down /\ identities' = identities /\ flows' = flows
    PROVE  Named'
<1>1. /\ Head(channel) = channel[1] /\ 1 \in DOMAIN channel
      /\ Len(channel) \in Nat /\ DOMAIN channel = 1 .. Len(channel)
      /\ Len(channel') = Len(channel) - 1 /\ DOMAIN channel' = 1 .. Len(channel) - 1
      /\ \A n \in 1 .. Len(channel) - 1 : channel'[n] = channel[n + 1]
  BY HeadFacts DEF TypeOK
<1>2. /\ identities \subseteq identities'
      /\ Head(channel).kind = "chunk" => Head(channel).identities \subseteq identities'
  BY DEF TakeChunk, Down
<1>3. ASSUME NEW n \in 1 .. Len(channel), NEW i, KnownBy(n, i)
      PROVE  KnownAfter(n - 1, i)
  <2>1. CASE i \in identities
    BY <1>2, <2>1 DEF KnownBy, KnownAfter
  <2>2. CASE i \notin identities
    <3>1. PICK m \in 1 .. n : channel[m].kind = "chunk" /\ i \in channel[m].identities
      BY <1>3, <2>2 DEF KnownBy, KnownAfter
    <3>2. CASE m = 1
      BY <1>1, <1>2, <3>1, <3>2 DEF KnownBy, KnownAfter
    <3>3. CASE m # 1
      <4>1. m - 1 \in 1 .. n - 1 /\ m - 1 \in DOMAIN channel' /\ channel'[m - 1] = channel[m]
        BY <1>1, <3>3
      <4> QED BY <3>1, <4>1 DEF KnownBy, KnownAfter
    <3> QED BY <3>2, <3>3
  <2> QED BY <2>1, <2>2
<1>4. ASSUME NEW k \in DOMAIN flows' PROVE k.id \in identities'
  <2>1. CASE k \in DOMAIN flows
    BY <1>2, <2>1 DEF Named
  <2>2. CASE k \notin DOMAIN flows
    <3>1. Head(channel).kind = "chunk" /\ k \in DOMAIN Head(channel).bytes
      BY <2>2 DEF TakeChunk
    <3>2. KnownBy(1, k.id)
      BY <1>1, <3>1 DEF Named
    <3>3. k.id \in identities \/ k.id \in Head(channel).identities
      BY <1>1, <3>2 DEF KnownBy, KnownAfter
    <3> QED BY <1>2, <3>1, <3>3
  <2> QED BY <2>1, <2>2
<1>5. ASSUME feed = "streaming", NEW i \in described PROVE KnownAfter(Len(channel'), i)
  <2>1. KnownBy(Len(channel), i) /\ Len(channel) \in 1 .. Len(channel)
    BY <1>1, <1>5 DEF Named
  <2>2. KnownAfter(Len(channel) - 1, i)
    BY <1>3, <2>1
  <2> QED BY <1>1, <2>2 DEF KnownBy, KnownAfter
<1>6. ASSUME NEW n \in DOMAIN channel', channel'[n].kind = "chunk",
             NEW k \in DOMAIN channel'[n].bytes
      PROVE  KnownAfter(n, k.id)
  <2>1. n + 1 \in 1 .. Len(channel) /\ channel'[n] = channel[n + 1] /\ n + 1 - 1 = n
    BY <1>1
  <2>2. KnownBy(n + 1, k.id)
    BY <1>1, <1>6, <2>1 DEF Named
  <2>3. KnownAfter(n + 1 - 1, k.id)
    BY <1>3, <2>1, <2>2
  <2> QED BY <2>1, <2>3 DEF KnownBy, KnownAfter
<1> QED BY <1>4, <1>5, <1>6 DEF Named, KnownBy, KnownAfter

-----------------------------------------------------------------------------
(* Sending. *)

LEMMA SendNamed ==
    ASSUME TypeOK, Named, NEW message \in Message, NEW next, Send(message, next), open,
           identities' = identities, flows' = flows, open' = open,
           message.kind = "chunk" => \A k \in DOMAIN message.bytes :
               k.id \in message.identities \/ (feed = "streaming" /\ k.id \in described),
           next = "streaming" => feed = "streaming" /\ message.kind = "chunk"
               /\ \A i \in described' : i \in described \/ i \in message.identities
    PROVE  Named'
<1>1. /\ channel' = Append(channel, message) /\ feed' = next
      /\ Len(channel) \in Nat /\ DOMAIN channel = 1 .. Len(channel)
  BY DEF Send, TypeOK
<1>2. /\ Len(channel') = Len(channel) + 1 /\ DOMAIN channel' = 1 .. Len(channel) + 1
      /\ \A n \in 1 .. Len(channel) : channel'[n] = channel[n]
      /\ channel'[Len(channel) + 1] = message
  BY <1>1 DEF TypeOK
<1>3. ASSUME NEW n \in Nat, NEW m \in Nat, n <= m, NEW i, KnownBy(n, i)
      PROVE  KnownAfter(m, i)
  <2>1. CASE i \in identities
    BY <2>1 DEF KnownBy, KnownAfter
  <2>2. CASE i \notin identities
    <3>1. PICK j \in 1 .. n : /\ j \in DOMAIN channel /\ channel[j].kind = "chunk"
                             /\ i \in channel[j].identities
      BY <1>3, <2>2 DEF KnownBy, KnownAfter
    <3>2. j \in 1 .. m /\ j \in DOMAIN channel' /\ channel'[j] = channel[j]
      BY <1>1, <1>2, <1>3, <3>1
    <3> QED BY <3>1, <3>2 DEF KnownBy, KnownAfter
  <2> QED BY <2>1, <2>2
<1>4. ASSUME message.kind = "chunk", NEW i \in message.identities
      PROVE  KnownAfter(Len(channel) + 1, i)
  <2>1. Len(channel) + 1 \in 1 .. Len(channel) + 1 /\ Len(channel) + 1 \in DOMAIN channel'
    BY <1>1, <1>2
  <2> QED BY <1>2, <1>4, <2>1 DEF KnownBy, KnownAfter
<1>5. ASSUME feed = "streaming", NEW i \in described PROVE KnownAfter(Len(channel) + 1, i)
  <2>1. KnownBy(Len(channel), i)
    BY <1>5 DEF Named
  <2> QED BY <1>1, <1>3, <2>1
<1>6. \A k \in DOMAIN flows' : k.id \in identities'
  BY DEF Named
<1>7. ASSUME feed' = "streaming", NEW i \in described' PROVE KnownAfter(Len(channel'), i)
  <2>1. KnownAfter(Len(channel) + 1, i)
    BY <1>1, <1>4, <1>5, <1>7
  <2> QED BY <1>2, <2>1 DEF KnownBy, KnownAfter
<1>8. ASSUME NEW n \in DOMAIN channel', channel'[n].kind = "chunk",
             NEW k \in DOMAIN channel'[n].bytes
      PROVE  KnownAfter(n, k.id)
  <2>1. CASE n = Len(channel) + 1
    BY <1>2, <1>4, <1>5, <1>8, <2>1
  <2>2. CASE n # Len(channel) + 1
    <3>1. n \in DOMAIN channel /\ n \in Nat /\ channel'[n] = channel[n]
      BY <1>1, <1>2, <2>2
    <3>2. KnownBy(n, k.id)
      BY <1>8, <3>1 DEF Named
    <3> QED BY <1>3, <3>1, <3>2
  <2> QED BY <2>1, <2>2
<1> QED BY <1>6, <1>7, <1>8 DEF Named, KnownBy, KnownAfter

-----------------------------------------------------------------------------
(* Every step. *)

LEMMA SendType ==
    ASSUME TypeOK, NEW message \in Message, NEW next \in {"streaming", "sleeping", "done"},
           Send(message, next)
    PROVE  /\ channel' \in Seq(Message)
           /\ feed' \in {"connecting", "streaming", "sleeping", "done"}
<1>1. channel \in Seq(Message)
  BY DEF TypeOK
<1>2. feed' = next \/ feed' = "done"
  BY DEF Send
<1>3. channel' = Append(channel, message) \/ channel' = channel
  BY DEF Send
<1>4. channel' \in Seq(Message)
  BY <1>1, <1>3
<1> QED BY <1>2, <1>4

(* Nothing the view holds changes unless it takes in a chunk. *)
LEMMA AlignedKept ==
    Aligned /\ UNCHANGED <<flows, intervals, latest>> => Aligned'
BY DEF Aligned, FlowOK, Missing, Samples, BytesOf

LEMMA NamedKept ==
    ASSUME Named, UNCHANGED <<identities, flows, channel>>,
           open' => open, open' /\ feed' = "streaming" =>
                     (feed = "streaming" /\ described' = described) \/ described' = {}
    PROVE  Named'
BY DEF Named, KnownBy

LEMMA ReadsStep ==
    ASSUME IInv, NEW t \in Traffic, Reads(t)
    PROVE  TypeOK' /\ Named'
<1> DEFINE message == [kind |-> "chunk", bytes |-> t.bytes, ms |-> t.ms,
                       identities |-> Ids(DOMAIN t.bytes) \ described]
<1>1. /\ Send(message, "streaming") /\ feed = "streaming"
      /\ described' = described \cup Ids(DOMAIN t.bytes)
      /\ daemon' = daemon /\ open' = open
      /\ live' = live /\ identities' = identities /\ flows' = flows
      /\ intervals' = intervals /\ latest' = latest
  BY DEF Reads, app
<1>2. message \in Message
  BY ChunkIsMessage
<1>3. /\ message.kind = "chunk" /\ message.bytes = t.bytes
      /\ message.identities = Ids(DOMAIN t.bytes) \ described
  OBVIOUS
<1> HIDE DEF message
<1>4. TypeOK'
  <2>1. Ids(DOMAIN t.bytes) \subseteq Ids(Key)
    BY TrafficFacts DEF Ids
  <2>2. channel' \in Seq(Message) /\ feed' \in {"connecting", "streaming", "sleeping", "done"}
    BY <1>1, <1>2, SendType DEF IInv
  <2>3. described' \subseteq Ids(Key)
    BY <1>1, <2>1 DEF IInv, TypeOK
  <2> QED BY <1>1, <2>2, <2>3, Zenon DEF IInv, TypeOK
<1>5. Named'
  <2>1. CASE open
    <3>1. \A k \in DOMAIN t.bytes : k.id \in Ids(DOMAIN t.bytes)
      BY DEF Ids
    <3> QED BY <1>1, <1>2, <1>3, <2>1, <3>1, SendNamed DEF IInv
  <2>2. CASE ~open
    BY <1>1, <2>2, NamedKept DEF Send, IInv
  <2> QED BY <2>1, <2>2
<1> QED BY <1>4, <1>5

LEMMA FailsStep == IInv /\ Fails => TypeOK' /\ Named'
<1> SUFFICES ASSUME IInv, Fails PROVE TypeOK' /\ Named'
  OBVIOUS
<1>1. /\ Send(Down, "sleeping") /\ described' = described
      /\ daemon' = daemon /\ open' = open
      /\ live' = live /\ identities' = identities /\ flows' = flows
      /\ intervals' = intervals /\ latest' = latest
  BY DEF Fails, app
<1>2. Down \in Message /\ Down.kind # "chunk"
  BY DEF Message, Down
<1>3. TypeOK'
  <2>1. channel' \in Seq(Message) /\ feed' \in {"connecting", "streaming", "sleeping", "done"}
    BY <1>1, <1>2, SendType DEF IInv
  <2> QED BY <1>1, <2>1, Zenon DEF IInv, TypeOK
<1>4. Named'
  <2>1. CASE open
    BY <1>1, <1>2, <2>1, SendNamed DEF IInv
  <2>2. CASE ~open
    BY <1>1, <2>2, NamedKept DEF Send, IInv
  <2> QED BY <2>1, <2>2
<1> QED BY <1>3, <1>4

LEMMA InvStep == IInv /\ [Next]_vars => IInv'
<1> SUFFICES ASSUME IInv, [Next]_vars PROVE IInv'
  OBVIOUS
<1> USE DEF thread, app
<1>1. CASE TakeChunk
  <2>1. TypeOK' /\ Aligned'
    BY <1>1, TakeChunkType, TakeChunkAligned DEF IInv
  <2>2. Named'
    BY <1>1, TakeNamed DEF IInv, TakeChunk
  <2> QED BY <2>1, <2>2 DEF IInv
<1>2. CASE TakeDown
  <2>1. /\ live' = "down" /\ channel' = Tail(channel)
        /\ daemon' = daemon /\ feed' = feed /\ described' = described /\ open' = open
        /\ identities' = identities /\ flows' = flows
        /\ intervals' = intervals /\ latest' = latest
    BY <1>2 DEF TakeDown
  <2>2. channel' \in Seq(Message)
    BY <1>2, HeadFacts DEF TakeDown, IInv
  <2>3. TypeOK'
    BY <2>1, <2>2, Zenon DEF IInv, TypeOK
  <2>4. Named'
    BY <1>2, <2>1, TakeNamed DEF TakeDown, IInv
  <2> QED BY <2>1, <2>3, <2>4, AlignedKept DEF IInv
<1>3. ASSUME NEW t \in Traffic, Reads(t) PROVE IInv'
  BY <1>3, ReadsStep, AlignedKept DEF IInv, Reads
<1>4. CASE Fails
  BY <1>4, FailsStep, AlignedKept DEF IInv, Fails
<1>5. CASE Quit
  <2>1. /\ open' = FALSE /\ channel' = <<>>
        /\ daemon' = daemon /\ feed' = feed /\ described' = described
        /\ live' = live /\ identities' = identities /\ flows' = flows
        /\ intervals' = intervals /\ latest' = latest
    BY <1>5 DEF Quit
  <2>2. channel' \in Seq(Message)
    BY <2>1
  <2>3. TypeOK'
    BY <2>1, <2>2, Zenon DEF IInv, TypeOK
  <2>4. Named'
    BY <2>1 DEF Named, IInv
  <2> QED BY <2>1, <2>3, <2>4, AlignedKept DEF IInv
<1>6. CASE Stops \/ Starts \/ Connects \/ Wakes \/ UNCHANGED vars
  <2>1. /\ channel' = channel /\ open' = open
        /\ live' = live /\ identities' = identities /\ flows' = flows
        /\ intervals' = intervals /\ latest' = latest
    BY <1>6 DEF Stops, Starts, Connects, Wakes, vars
  <2>2. /\ daemon' \in {daemon, "up", "down"}
        /\ \/ feed' = feed /\ described' = described
           \/ feed' = "streaming" /\ described' = {}
           \/ feed' = "connecting" /\ described' = described
    BY <1>6 DEF Stops, Starts, Connects, Wakes, vars
  <2>3. /\ daemon' \in {"up", "down"} /\ described' \subseteq Ids(Key)
        /\ feed' \in {"connecting", "streaming", "sleeping", "done"}
    BY <2>2 DEF IInv, TypeOK
  <2>4. TypeOK'
    BY <2>1, <2>3, Zenon DEF IInv, TypeOK
  <2>5. Named'
    BY <2>1, <2>2, NamedKept DEF IInv
  <2> QED BY <2>1, <2>4, <2>5, AlignedKept DEF IInv
<1> QED BY <1>1, <1>2, <1>3, <1>4, <1>5, <1>6 DEF Next, Fetch, Take

LEMMA Invariant == Spec => []IInv
BY InvInit, InvStep, PTL DEF Spec

-----------------------------------------------------------------------------
(* The theorems. *)

(* The view's lists keep their types and never outgrow TREND_TICKS.        *)
THEOREM TypeCorrect == Spec => []TypeOK
<1>1. IInv => TypeOK
  BY DEF IInv
<1> QED BY <1>1, Invariant, PTL

(* Every flow the view counts has a name, whenever it was first seen and   *)
(* however often the stream was lost (tui.rs on_chunk, spawn_feed).        *)
THEOREM FlowsAreNamed == Spec => []EveryFlowNamed
<1>1. IInv => EveryFlowNamed
  BY DEF IInv, Named, EveryFlowNamed, Ids
<1> QED BY <1>1, Invariant, PTL

(* The trend of a flow is what the latest chunks say of it, column by      *)
(* column, and tui.rs:452 never subtracts more samples than there are      *)
(* intervals: the part of TrendsAligned that is about one flow.            *)
FlowsAligned ==
    \A k \in DOMAIN flows :
        /\ Len(flows[k]) <= Len(intervals)
        /\ FlowTrend(k) = [j \in DOMAIN latest |->
                              Rate(BytesOf(latest[j], k), AtLeastOne(latest[j].ms))]

LEMMA AlignedFlows == IInv => FlowsAligned
<1> SUFFICES ASSUME IInv, NEW k \in DOMAIN flows
             PROVE  /\ Len(flows[k]) <= Len(intervals)
                    /\ FlowTrend(k) = [j \in DOMAIN latest |->
                               Rate(BytesOf(latest[j], k), AtLeastOne(latest[j].ms))]
  BY DEF FlowsAligned
<1>1. k \in Key /\ Samples(k) = flows[k]
  BY DEF IInv, TypeOK, Samples
<1>2. /\ DOMAIN intervals = 1 .. Len(intervals) /\ DOMAIN latest = 1 .. Len(latest)
      /\ Len(intervals) = Len(latest) /\ FlowOK(k)
  BY <1>1 DEF IInv, TypeOK, Aligned
<1>3. ASSUME NEW j \in 1 .. Len(latest)
      PROVE  (IF j <= Len(intervals) - Len(flows[k]) THEN 0
              ELSE Rate(flows[k][j - (Len(intervals) - Len(flows[k]))], intervals[j]))
             = Rate(BytesOf(latest[j], k), AtLeastOne(latest[j].ms))
  <2>1. intervals[j] = AtLeastOne(latest[j].ms) /\ intervals[j] \in Nat \ {0}
    <3>1. intervals[j] \in Nat \ {0}
      BY <1>2 DEF IInv, TypeOK
    <3> QED BY <3>1 DEF IInv, Aligned
  <2>2. BytesOf(latest[j], k) =
           IF j <= Len(intervals) - Len(flows[k]) THEN 0
           ELSE flows[k][j - (Len(intervals) - Len(flows[k]))]
    BY <1>1, <1>2 DEF FlowOK, Missing
  <2>3. \A ms \in Nat \ {0} : Rate(0, ms) = 0
    BY DEF Rate
  <2> QED BY <2>1, <2>2, <2>3
<1>4. Len(flows[k]) <= Len(intervals)
  BY <1>1, <1>2 DEF FlowOK
<1>5. FlowTrend(k) = [j \in DOMAIN latest |->
                         Rate(BytesOf(latest[j], k), AtLeastOne(latest[j].ms))]
  BY <1>2, <1>3 DEF FlowTrend
<1> QED BY <1>4, <1>5

THEOREM FlowsAreAligned == Spec => []FlowsAligned
BY AlignedFlows, Invariant, PTL

-----------------------------------------------------------------------------
(* What SumFunction computes.  The function that it recurs on, the sums of *)
(* all parts of a set, exists because it does for parts of each size.      *)
Sums(f, h, S) ==
    h = [s \in SUBSET S |-> IF s = {} THEN 0
                            ELSE f[CHOOSE x \in s : TRUE] + h[s \ {CHOOSE x \in s : TRUE}]]

LEMMA SumUnfolds ==
    ASSUME NEW f, \E h : Sums(f, h, DOMAIN f)
    PROVE  \E h : Sums(f, h, DOMAIN f) /\ SumFunction(f) = h[DOMAIN f]
<1> DEFINE h == CHOOSE k : Sums(f, k, DOMAIN f)
<1>1. Sums(f, h, DOMAIN f)
  OBVIOUS
<1>2. SumFunction(f) = h[DOMAIN f]
  BY DEF SumFunction, SumFunctionOnSet, FoldFunctionOnSet, MapThenFoldSet, Sums
<1> QED BY <1>1, <1>2

(* Induction, from the least number that is not in A. *)
LEMMA NatIsInductive ==
    ASSUME NEW A, 0 \in A, \A n \in Nat : n \in A => n + 1 \in A
    PROVE  Nat \subseteq A
<1> SUFFICES ASSUME NEW m \in Nat, m \notin A PROVE FALSE
  OBVIOUS
<1> DEFINE I == 0 .. m
           Below(k) == {n \in I : n <= k}
           S == {k \in I : k \notin A}
           T == {Below(k) : k \in S}
           R == StrictSubsetOrdering(I)
<1>1. IsWellFoundedOn(R, SUBSET I)
  <2>1. IsFiniteSet(I)
    BY FS_Interval
  <2> QED BY <2>1, FS_StrictSubsetOrderingWellFounded, FS_FiniteSubsetsOfFinite
<1>2. T \subseteq SUBSET I /\ T # {}
  <2>1. m \in S
    OBVIOUS
  <2>2. \A k \in S : Below(k) \in SUBSET I
    OBVIOUS
  <2> HIDE DEF S, Below, I
  <2> QED BY <2>1, <2>2
<1>3. PICK X \in T : \A Y \in T : <<Y, X>> \notin R
  <2> HIDE DEF T, R
  <2> QED BY <1>1, <1>2, WFMin
<1>4. PICK k \in S : X = Below(k)
  OBVIOUS
<1>5. k \in Nat /\ k # 0 /\ k - 1 \in Nat /\ k - 1 \in I
  BY <1>4
<1>6. k - 1 \in S
  <2>1. k - 1 \in A => (k - 1) + 1 \in A
    BY <1>5
  <2>2. k \notin A /\ (k - 1) + 1 = k
    BY <1>4, <1>5
  <2> QED BY <1>5, <2>1, <2>2
<1>7. <<Below(k - 1), Below(k)>> \in R
  <2>1. Below(k - 1) \subseteq Below(k) /\ k \in Below(k) /\ k \notin Below(k - 1)
    BY <1>4, <1>5
  <2>2. Below(k - 1) \in SUBSET I /\ Below(k) \in SUBSET I
    OBVIOUS
  <2> HIDE DEF Below
  <2> QED BY <2>1, <2>2 DEF StrictSubsetOrdering
<1>8. Below(k - 1) \in T
  BY <1>6
<1> QED BY <1>3, <1>4, <1>7, <1>8

(* The sums of the parts of a finite set exist: those of n + 1 elements    *)
(* are made from those of n.                                               *)
LEMMA SumsExist ==
    ASSUME NEW f, NEW S, IsFiniteSet(S)
    PROVE  \E h : Sums(f, h, S)
<1> DEFINE c(s) == CHOOSE x \in s : TRUE
           Upto(n) == {s \in SUBSET S : Cardinality(s) <= n}
           Level(h, n) == h = [s \in Upto(n) |-> IF s = {} THEN 0 ELSE f[c(s)] + h[s \ {c(s)}]]
           A == {n \in Nat : \E h : Level(h, n)}
<1>1. \A s \in SUBSET S : IsFiniteSet(s) /\ Cardinality(s) \in Nat
  BY FS_Subset, FS_CardinalityType
<1>2. \A s \in SUBSET S : s # {} => c(s) \in s
  OBVIOUS
<1>3. \A s \in SUBSET S : s # {} => Cardinality(s \ {c(s)}) = Cardinality(s) - 1
  <2> HIDE DEF c
  <2> QED BY <1>1, <1>2, FS_RemoveElement
<1>4. 0 \in A
  <2> DEFINE h == [s \in Upto(0) |-> 0]
  <2>1. \A s \in Upto(0) : s = {}
    BY <1>1, FS_EmptySet
  <2>2. Level(h, 0)
    BY <2>1
  <2> QED BY <2>2
<1>5. ASSUME NEW n \in Nat, n \in A PROVE n + 1 \in A
  <2>1. PICK h : Level(h, n)
    BY <1>5
  <2> DEFINE g == [s \in Upto(n + 1) |-> IF s = {} THEN 0 ELSE f[c(s)] + h[s \ {c(s)}]]
  <2>2. \A s \in Upto(n) : s \in Upto(n + 1) /\ g[s] = h[s]
    <3>1. Upto(n) \subseteq Upto(n + 1)
      BY <1>1
    <3> HIDE DEF Upto, c
    <3> QED BY <2>1, <3>1
  <2>3. \A s \in Upto(n + 1) : s # {} => s \ {c(s)} \in Upto(n)
    BY <1>1, <1>3
  <2>4. g = [s \in Upto(n + 1) |-> IF s = {} THEN 0 ELSE f[c(s)] + g[s \ {c(s)}]]
    <3>1. \A s \in Upto(n + 1) : s # {} => g[s \ {c(s)}] = h[s \ {c(s)}]
      BY <2>2, <2>3
    <3> HIDE DEF Upto, c
    <3> QED BY <3>1
  <2>5. Level(g, n + 1)
    BY <2>4
  <2> HIDE DEF g, Level
  <2> QED BY <2>5
<1>6. PICK h : Level(h, Cardinality(S))
  <2>1. Nat \subseteq A
    <3> HIDE DEF A
    <3> QED BY <1>4, <1>5, NatIsInductive
  <2> QED BY <1>1, <2>1
<1>7. Upto(Cardinality(S)) = SUBSET S
  BY <1>1, FS_Subset
<1>8. Sums(f, h, S)
  BY <1>6, <1>7 DEF Sums
<1> QED BY <1>8

(* ... and any element may be taken first. *)
LEMMA SumsAdd ==
    ASSUME NEW f, NEW h, NEW S, IsFiniteSet(S), Sums(f, h, S), \A x \in S : f[x] \in Nat
    PROVE  \A s \in SUBSET S : h[s] \in Nat /\ \A x \in s : h[s] = f[x] + h[s \ {x}]
<1> DEFINE c(s) == CHOOSE x \in s : TRUE
           Good(s) == h[s] \in Nat /\ \A x \in s : h[s] = f[x] + h[s \ {x}]
           A == {n \in Nat : \A s \in SUBSET S : Cardinality(s) <= n => Good(s)}
<1>1. \A s \in SUBSET S : IsFiniteSet(s) /\ Cardinality(s) \in Nat
  BY FS_Subset, FS_CardinalityType
<1>2. \A s \in SUBSET S : s # {} => c(s) \in s
  OBVIOUS
<1>3. \A s \in SUBSET S : \A x \in s : Cardinality(s \ {x}) = Cardinality(s) - 1
  BY <1>1, FS_RemoveElement
<1>4. \A s \in SUBSET S : h[s] = IF s = {} THEN 0 ELSE f[c(s)] + h[s \ {c(s)}]
  BY DEF Sums
<1> HIDE DEF c
<1>5. 0 \in A
  <2>1. ASSUME NEW s \in SUBSET S, Cardinality(s) <= 0 PROVE Good(s)
    <3>1. s = {}
      BY <1>1, <2>1, FS_EmptySet
    <3>2. h[s] = 0
      BY <1>4, <3>1
    <3> QED BY <3>1, <3>2
  <2> HIDE DEF Good
  <2> QED BY <2>1
<1>6. ASSUME NEW n \in Nat, n \in A PROVE n + 1 \in A
  <2> SUFFICES ASSUME NEW s \in SUBSET S, Cardinality(s) <= n + 1 PROVE Good(s)
    OBVIOUS
  <2>1. \A x \in s : Cardinality(s \ {x}) <= n /\ s \ {x} \in SUBSET S
    BY <1>1, <1>3
  <2>2. \A x \in s : Good(s \ {x})
    BY <1>6, <2>1
  <2>3. CASE s = {}
    BY <1>4, <2>3
  <2>4. CASE s # {}
    <3> DEFINE a == c(s)
    <3>1. a \in s /\ a \in S /\ f[a] \in Nat /\ h[s \ {a}] \in Nat /\ h[s] = f[a] + h[s \ {a}]
      BY <1>2, <1>4, <2>2, <2>4
    <3> HIDE DEF a
    <3>2. ASSUME NEW x \in s PROVE h[s] = f[x] + h[s \ {x}]
      <4>1. CASE x = a
        BY <3>1, <4>1
      <4>2. CASE x # a
        <5>1. h[s \ {a}] = f[x] + h[(s \ {a}) \ {x}]
          BY <2>2, <3>1, <4>2
        <5>2. h[s \ {x}] = f[a] + h[(s \ {x}) \ {a}]
          BY <2>2, <3>1, <4>2
        <5>3. (s \ {a}) \ {x} = (s \ {x}) \ {a}
          OBVIOUS
        <5>4. h[s \ {x}] \in Nat /\ f[x] \in Nat
          BY <2>2
        <5>5. h[(s \ {x}) \ {a}] \in Nat
          <6>1. (s \ {x}) \ {a} \in SUBSET S /\ Cardinality((s \ {x}) \ {a}) <= n
            <7>1. s \ {x} \in SUBSET S /\ a \in s \ {x} /\ Cardinality(s \ {x}) <= n
              BY <2>1, <3>1, <4>2
            <7>2. Cardinality((s \ {x}) \ {a}) = Cardinality(s \ {x}) - 1
              BY <1>3, <7>1
            <7> QED BY <1>1, <7>1, <7>2
          <6> QED BY <1>6, <6>1
        <5> QED BY <3>1, <5>1, <5>2, <5>3, <5>4, <5>5
      <4> QED BY <4>1, <4>2
    <3>3. h[s] \in Nat
      BY <3>1
    <3> QED BY <3>2, <3>3
  <2> QED BY <2>3, <2>4
<1>7. Nat \subseteq A
  <2> HIDE DEF A
  <2> QED BY <1>5, <1>6, NatIsInductive
<1> QED BY <1>1, <1>7

(* The parts of a part have the same sums. *)
SumsAgree(f, h, S, g, k, T) ==
    /\ Sums(f, h, S) /\ Sums(g, k, T) /\ T \in SUBSET S /\ IsFiniteSet(T)
    /\ \A x \in T : g[x] = f[x]
LEMMA SumsAreSame ==
    \A f, h, S, g, k, T : SumsAgree(f, h, S, g, k, T) => k[T] = h[T]
<1> SUFFICES ASSUME NEW f, NEW h, NEW S, NEW g, NEW k, NEW T, SumsAgree(f, h, S, g, k, T)
             PROVE  k[T] = h[T]
  OBVIOUS
<1> DEFINE c(s) == CHOOSE x \in s : TRUE
           A == {n \in Nat : \A s \in SUBSET T : Cardinality(s) <= n => k[s] = h[s]}
<1>0. T \in SUBSET S /\ IsFiniteSet(T) /\ \A x \in T : g[x] = f[x]
  BY DEF SumsAgree
<1>1. \A s \in SUBSET T : IsFiniteSet(s) /\ Cardinality(s) \in Nat
  BY <1>0, FS_Subset, FS_CardinalityType
<1>2. \A s \in SUBSET T : s # {} => c(s) \in s
  OBVIOUS
<1>3. \A s \in SUBSET T : \A x \in s : Cardinality(s \ {x}) = Cardinality(s) - 1
  BY <1>1, FS_RemoveElement
<1>4. \A s \in SUBSET T : /\ h[s] = IF s = {} THEN 0 ELSE f[c(s)] + h[s \ {c(s)}]
                          /\ k[s] = IF s = {} THEN 0 ELSE g[c(s)] + k[s \ {c(s)}]
  BY <1>0 DEF Sums, SumsAgree
<1> HIDE DEF c
<1>5. 0 \in A
  <2>1. ASSUME NEW s \in SUBSET T, Cardinality(s) <= 0 PROVE k[s] = h[s]
    <3>1. s = {}
      BY <1>1, <2>1, FS_EmptySet
    <3> QED BY <1>4, <3>1
  <2> QED BY <2>1
<1>6. ASSUME NEW n \in Nat, n \in A PROVE n + 1 \in A
  <2> SUFFICES ASSUME NEW s \in SUBSET T, Cardinality(s) <= n + 1 PROVE k[s] = h[s]
    OBVIOUS
  <2>1. CASE s = {}
    BY <1>4, <2>1
  <2>2. CASE s # {}
    <3> DEFINE a == c(s)
    <3>1. a \in s /\ g[a] = f[a] /\ h[s] = f[a] + h[s \ {a}] /\ k[s] = g[a] + k[s \ {a}]
      BY <1>0, <1>2, <1>4, <2>2
    <3> HIDE DEF a
    <3>2. s \ {a} \in SUBSET T /\ Cardinality(s \ {a}) <= n
      BY <1>1, <1>3, <3>1
    <3>3. k[s \ {a}] = h[s \ {a}]
      BY <1>6, <3>2
    <3> QED BY <3>1, <3>3
  <2> QED BY <2>1, <2>2
<1>7. Nat \subseteq A
  <2> HIDE DEF A
  <2> QED BY <1>5, <1>6, NatIsInductive
<1> QED BY <1>0, <1>1, <1>7

(* The sum of a part of f, as SumFunction computes it. *)
LEMMA SumFacts ==
    ASSUME NEW f, IsFiniteSet(DOMAIN f), \A x \in DOMAIN f : f[x] \in Nat
    PROVE  /\ SumFunction(f) \in Nat
           /\ DOMAIN f = {} => SumFunction(f) = 0
           /\ \A x \in DOMAIN f :
                 SumFunction(f) = f[x] + SumFunction([y \in DOMAIN f \ {x} |-> f[y]])
<1> DEFINE D == DOMAIN f
<1>1. PICK h : Sums(f, h, D) /\ SumFunction(f) = h[D]
  BY SumsExist, SumUnfolds
<1>2. h[{}] = 0
  BY <1>1 DEF Sums
<1>3. \A s \in SUBSET D : h[s] \in Nat /\ \A x \in s : h[s] = f[x] + h[s \ {x}]
  BY <1>1, SumsAdd
<1>4. ASSUME NEW x \in D PROVE h[D \ {x}] = SumFunction([y \in D \ {x} |-> f[y]])
  <2> DEFINE E == D \ {x}
             g == [y \in E |-> f[y]]
  <2>1. IsFiniteSet(E) /\ DOMAIN g = E /\ E \in SUBSET D
    BY FS_RemoveElement
  <2>2. \A y \in E : g[y] = f[y] /\ g[y] \in Nat
    OBVIOUS
  <2> HIDE DEF E, g
  <2>3. PICK k : Sums(g, k, E) /\ SumFunction(g) = k[E]
    BY <2>1, SumsExist, SumUnfolds
  <2>4. k[E] = h[E]
    <3>1. SumsAgree(f, h, D, g, k, E)
      BY <1>1, <2>1, <2>2, <2>3 DEF SumsAgree
    <3> QED BY <2>1, <3>1, SumsAreSame
  <2> QED BY <2>3, <2>4 DEF E, g
<1>5. \A x \in D : SumFunction(f) = f[x] + SumFunction([y \in D \ {x} |-> f[y]])
  <2> HIDE DEF D
  <2>1. \A x \in D : h[D] = f[x] + h[D \ {x}]
    BY <1>3
  <2> QED BY <1>1, <1>4, <2>1
<1>6. SumFunction(f) \in Nat
  BY <1>1, <1>3
<1> QED BY <1>1, <1>2, <1>5, <1>6

(* Zeros add nothing. *)
ZeroElsewhere(f, D, E) ==
    /\ IsFiniteSet(D) /\ f \in [D -> Nat] /\ E \in SUBSET D /\ \A x \in D \ E : f[x] = 0
LEMMA ZerosAddNothing ==
    \A f, D, E : ZeroElsewhere(f, D, E) => SumFunction(f) = SumFunction([x \in E |-> f[x]])
<1> SUFFICES ASSUME NEW E, NEW g
             PROVE  \A f, D : ZeroElsewhere(f, D, E) /\ g = [x \in E |-> f[x]]
                                 => SumFunction(f) = SumFunction(g)
  OBVIOUS
<1> DEFINE Same(f, D) ==
              ZeroElsewhere(f, D, E) /\ g = [x \in E |-> f[x]] => SumFunction(f) = SumFunction(g)
           A == {n \in Nat : \A f, D : IsFiniteSet(D) /\ Cardinality(D) <= n => Same(f, D)}
<1>1. ASSUME NEW f, NEW D, D = E PROVE Same(f, D)
  <2>1. ZeroElsewhere(f, D, E) => f = [x \in E |-> f[x]]
    BY <1>1 DEF ZeroElsewhere
  <2> QED BY <2>1
<1>2. 0 \in A
  <2> SUFFICES ASSUME NEW f, NEW D, IsFiniteSet(D), Cardinality(D) <= 0, E \in SUBSET D
               PROVE  Same(f, D)
    BY DEF ZeroElsewhere
  <2>1. D = {}
    BY FS_EmptySet, FS_CardinalityType
  <2>2. D = E
    BY <2>1
  <2> HIDE DEF Same
  <2> QED BY <1>1, <2>2
<1>3. ASSUME NEW n \in Nat, n \in A PROVE n + 1 \in A
  <2> SUFFICES ASSUME NEW f, NEW D, IsFiniteSet(D), Cardinality(D) <= n + 1,
                      ZeroElsewhere(f, D, E), g = [x \in E |-> f[x]], D # E
               PROVE  SumFunction(f) = SumFunction(g)
    <3> HIDE DEF Same
    <3>1. \A f, D : IsFiniteSet(D) /\ Cardinality(D) <= n + 1 => Same(f, D)
      <4> SUFFICES ASSUME NEW f, NEW D, IsFiniteSet(D), Cardinality(D) <= n + 1, D # E
                   PROVE  Same(f, D)
        BY <1>1
      <4> QED BY DEF Same
    <3> QED BY <3>1
  <2>1. /\ f \in [D -> Nat] /\ DOMAIN f = D /\ E \in SUBSET D /\ \A x \in D \ E : f[x] = 0
        /\ \A x \in D : f[x] \in Nat
    BY DEF ZeroElsewhere
  <2>2. PICK x \in D : x \notin E
    BY <2>1
  <2> DEFINE C == D \ {x}
             k == [y \in C |-> f[y]]
  <2>3. SumFunction(f) = f[x] + SumFunction(k)
    BY <2>1, SumFacts
  <2>4. /\ IsFiniteSet(C) /\ Cardinality(C) <= n /\ E \in SUBSET C
    <3>1. IsFiniteSet(C) /\ Cardinality(C) = Cardinality(D) - 1 /\ Cardinality(D) \in Nat
      BY FS_RemoveElement, FS_CardinalityType
    <3> HIDE DEF C
    <3>2. E \in SUBSET C
      BY <2>1, <2>2 DEF C
    <3> QED BY <3>1, <3>2
  <2>5. k \in [C -> Nat] /\ \A y \in C : k[y] = f[y]
    BY <2>1
  <2>6. SumFunction(k) \in Nat
    <3>1. DOMAIN k = C /\ \A y \in C : k[y] \in Nat
      BY <2>1
    <3> HIDE DEF C, k
    <3> QED BY <2>4, <3>1, SumFacts
  <2>7. g = [y \in E |-> k[y]]
    BY <2>4
  <2>8. SumFunction(k) = SumFunction(g)
    <3> HIDE DEF k, C
    <3>1. ZeroElsewhere(k, C, E)
      <4>1. \A y \in C \ E : k[y] = 0
        BY <2>1, <2>5 DEF C
      <4> QED BY <2>4, <2>5, <4>1 DEF ZeroElsewhere
    <3>2. Same(k, C)
      BY <1>3, <2>4
    <3> QED BY <2>7, <3>1, <3>2
  <2> QED BY <2>1, <2>2, <2>3, <2>6, <2>8
<1>4. Nat \subseteq A
  <2> HIDE DEF A
  <2> QED BY <1>2, <1>3, NatIsInductive
<1>5. ASSUME NEW f, NEW D, ZeroElsewhere(f, D, E) PROVE Same(f, D)
  <2>1. IsFiniteSet(D) /\ Cardinality(D) \in Nat
    BY <1>5, FS_CardinalityType DEF ZeroElsewhere
  <2> HIDE DEF Same
  <2> QED BY <1>4, <2>1
<1> QED BY <1>5

(* A list of numbers has the sum of the list with zeros before it. *)
Padded(f, n, g, d) ==
    /\ f \in [1 .. n -> Nat] /\ g \in [1 .. d + n -> Nat]
    /\ \A j \in 1 .. d : g[j] = 0
    /\ \A j \in 1 .. n : f[j] = g[d + j]
LEMMA PaddingAddsNothing ==
    \A f, g : \A n, d \in Nat : Padded(f, n, g, d) => SumFunction(f) = SumFunction(g)
<1> SUFFICES ASSUME NEW d \in Nat
             PROVE  \A f, g : \A n \in Nat : Padded(f, n, g, d) => SumFunction(f) = SumFunction(g)
  OBVIOUS
<1> DEFINE Same(n) == \A f, g : Padded(f, n, g, d) => SumFunction(f) = SumFunction(g)
           A == {n \in Nat : Same(n)}
<1>1. 0 \in A
  <2> SUFFICES ASSUME NEW f, NEW g, Padded(f, 0, g, d) PROVE SumFunction(f) = SumFunction(g)
    OBVIOUS
  <2> DEFINE D == 1 .. d + 0
  <2>1. DOMAIN f = {} /\ g \in [D -> Nat] /\ \A j \in D : g[j] = 0
    BY DEF Padded
  <2>2. IsFiniteSet(D) /\ IsFiniteSet({})
    BY FS_Interval, FS_EmptySet
  <2> HIDE DEF D
  <2>3. ZeroElsewhere(g, D, {})
    BY <2>1, <2>2 DEF ZeroElsewhere
  <2>4. SumFunction(g) = SumFunction([x \in {} |-> g[x]])
    BY <2>3, ZerosAddNothing
  <2>5. f = [x \in {} |-> g[x]]
    BY <2>1 DEF Padded
  <2> QED BY <2>4, <2>5
<1>2. ASSUME NEW n \in Nat, n \in A PROVE n + 1 \in A
  <2> SUFFICES ASSUME NEW f, NEW g, Padded(f, n + 1, g, d) PROVE SumFunction(f) = SumFunction(g)
    OBVIOUS
  <2> DEFINE F == 1 .. n + 1
             G == 1 .. d + (n + 1)
             e == d + (n + 1)
             a == [j \in F \ {n + 1} |-> f[j]]
             b == [j \in G \ {e} |-> g[j]]
  <2>1. /\ f \in [F -> Nat] /\ g \in [G -> Nat] /\ n + 1 \in F /\ e \in G
        /\ f[n + 1] = g[e]
    BY DEF Padded
  <2>2. IsFiniteSet(F) /\ IsFiniteSet(G)
    BY FS_Interval
  <2>3. F \ {n + 1} = 1 .. n /\ G \ {e} = 1 .. d + n
    OBVIOUS
  <2>4. Padded(a, n, b, d)
    <3>1. a \in [1 .. n -> Nat] /\ b \in [1 .. d + n -> Nat]
      BY <2>1, <2>3
    <3>2. \A j \in 1 .. d : b[j] = 0
      BY <2>3 DEF Padded
    <3>3. \A j \in 1 .. n : a[j] = b[d + j]
      BY <2>3 DEF Padded
    <3> QED BY <3>1, <3>2, <3>3 DEF Padded
  <2> HIDE DEF F, G, e
  <2>5. SumFunction(f) = f[n + 1] + SumFunction(a)
    BY <2>1, <2>2, SumFacts
  <2>6. SumFunction(g) = g[e] + SumFunction(b)
    BY <2>1, <2>2, SumFacts
  <2> HIDE DEF a, b
  <2>7. SumFunction(a) = SumFunction(b)
    BY <1>2, <2>4
  <2> QED BY <2>1, <2>5, <2>6, <2>7
<1>3. Nat \subseteq A
  <2> HIDE DEF A
  <2> QED BY <1>1, <1>2, NatIsInductive
<1> QED BY <1>3

LEMMA SumOfTwo ==
    ASSUME NEW f, NEW a, NEW b, DOMAIN f = {a, b}, f[a] \in Nat, f[b] \in Nat
    PROVE  SumFunction(f) = IF a = b THEN f[a] ELSE f[a] + f[b]
<1> DEFINE g == [y \in {a, b} \ {a} |-> f[y]]
           e == [y \in {b} \ {b} |-> g[y]]
<1>1. IsFiniteSet({a, b}) /\ IsFiniteSet({b}) /\ IsFiniteSet({})
  <2>1. IsFiniteSet({}) /\ IsFiniteSet({b})
    BY FS_EmptySet, FS_Singleton
  <2>2. IsFiniteSet({b} \cup {a})
    BY <2>1, FS_AddElement
  <2>3. {b} \cup {a} = {a, b}
    OBVIOUS
  <2> QED BY <2>1, <2>2, <2>3
<1>2. SumFunction(f) = f[a] + SumFunction(g)
  BY <1>1, SumFacts
<1>3. CASE a = b
  <2>1. DOMAIN g = {}
    BY <1>3
  <2>2. IsFiniteSet(DOMAIN g) /\ \A x \in DOMAIN g : g[x] \in Nat
    BY <1>1, <2>1
  <2> HIDE DEF g
  <2>3. SumFunction(g) = 0
    BY <2>1, <2>2, SumFacts
  <2> QED BY <1>2, <1>3, <2>3
<1>4. CASE a # b
  <2>1. DOMAIN g = {b} /\ g[b] = f[b]
    BY <1>4
  <2>2. DOMAIN e = {}
    OBVIOUS
  <2>3. IsFiniteSet(DOMAIN g) /\ \A x \in DOMAIN g : g[x] \in Nat
    BY <1>1, <2>1
  <2>4. SumFunction(g) = g[b] + SumFunction(e)
    <3> HIDE DEF g
    <3> QED BY <2>1, <2>3, SumFacts
  <2>5. IsFiniteSet(DOMAIN e) /\ \A x \in DOMAIN e : e[x] \in Nat
    BY <1>1, <2>2
  <2> HIDE DEF e, g
  <2>6. SumFunction(e) = 0
    BY <2>2, <2>5, SumFacts
  <2> QED BY <1>2, <1>4, <2>1, <2>4, <2>6
<1> QED BY <1>3, <1>4

-----------------------------------------------------------------------------
(* A row of the view: the trends of an identity's flows added up.          *)

Joins(F, h, S) ==
    h = [s \in SUBSET S |-> IF s = {} THEN <<>>
                            ELSE Add(F[CHOOSE x \in s : TRUE], h[s \ {CHOOSE x \in s : TRUE}])]

LEMMA JoinUnfolds ==
    ASSUME NEW F, \E h : Joins(F, h, DOMAIN F)
    PROVE  \E h : Joins(F, h, DOMAIN F) /\ FoldFunction(Add, <<>>, F) = h[DOMAIN F]
<1> DEFINE h == CHOOSE k : Joins(F, k, DOMAIN F)
<1>1. Joins(F, h, DOMAIN F)
  OBVIOUS
<1>2. FoldFunction(Add, <<>>, F) = h[DOMAIN F]
  BY DEF FoldFunction, FoldFunctionOnSet, MapThenFoldSet, Joins
<1> QED BY <1>1, <1>2

(* A row has one flow or two. *)
LEMMA JoinOfTwo ==
    ASSUME NEW F, NEW a, NEW b, DOMAIN F = {a, b}
    PROVE  LET row == FoldFunction(Add, <<>>, F)
           IN  IF a = b THEN row = Add(F[a], <<>>)
               ELSE \/ row = Add(F[a], Add(F[b], <<>>))
                    \/ row = Add(F[b], Add(F[a], <<>>))
<1> DEFINE D == {a, b}
           c(s) == CHOOSE x \in s : TRUE
           one(s) == Add(F[c(s)], <<>>)
           rest(s) == s \ {c(s)}
           g == [s \in SUBSET D |-> IF s = {} THEN <<>>
                                    ELSE IF rest(s) = {} THEN one(s)
                                    ELSE Add(F[c(s)], one(rest(s)))]
<1>1. \A s \in SUBSET D : s # {} => c(s) \in s
  OBVIOUS
<1> HIDE DEF c
<1>2. \A s \in SUBSET D : s # {} /\ rest(s) # {} => rest(rest(s)) = {} /\ rest(s) \in SUBSET D
  BY <1>1
<1>3. {} \in SUBSET D
  OBVIOUS
<1>4. g = [s \in SUBSET D |-> IF s = {} THEN <<>> ELSE Add(F[c(s)], g[rest(s)])]
  <2>1. ASSUME NEW s \in SUBSET D, s # {}
        PROVE  g[s] = Add(F[c(s)], g[rest(s)])
    <3>1. CASE rest(s) = {}
      <4>1. g[rest(s)] = <<>> /\ g[s] = one(s)
        BY <1>3, <2>1, <3>1
      <4> QED BY <4>1
    <3>2. CASE rest(s) # {}
      <4>1. rest(rest(s)) = {} /\ rest(s) \in SUBSET D
        BY <1>2, <2>1, <3>2
      <4>2. g[rest(s)] = one(rest(s)) /\ g[s] = Add(F[c(s)], one(rest(s)))
        <5> HIDE DEF rest, one
        <5> QED BY <2>1, <3>2, <4>1
      <4> QED BY <4>2
    <3> QED BY <3>1, <3>2
  <2>2. g[{}] = <<>>
    BY <1>3
  <2>3. g = [s \in SUBSET D |-> g[s]]
    OBVIOUS
  <2> HIDE DEF g
  <2> QED BY <2>1, <2>2, <2>3
<1>5. Joins(F, g, D)
  <2> HIDE DEF g
  <2> QED BY <1>4 DEF Joins, c
<1>6. PICK h : Joins(F, h, D) /\ FoldFunction(Add, <<>>, F) = h[D]
  <2> HIDE DEF g
  <2> QED BY <1>5, JoinUnfolds
<1>7. \A s \in SUBSET D : h[s] = IF s = {} THEN <<>> ELSE Add(F[c(s)], h[s \ {c(s)}])
  BY <1>6 DEF Joins, c
<1>8. h[{}] = <<>>
  BY <1>3, <1>7
<1>9. ASSUME NEW x \in D PROVE h[{x}] = Add(F[x], <<>>)
  <2>1. c({x}) = x
    BY <1>1
  <2>2. {x} \ {x} = {}
    OBVIOUS
  <2> QED BY <1>7, <1>8, <2>1, <2>2
<1>10. CASE a = b
  <2>1. D = {a}
    BY <1>10
  <2> QED BY <1>6, <1>9, <1>10, <2>1
<1>11. CASE a # b
  <2>1. c(D) = a \/ c(D) = b
    BY <1>1
  <2>2. D \ {a} = {b} /\ D \ {b} = {a}
    BY <1>11
  <2>3. h[D] = Add(F[c(D)], h[D \ {c(D)}])
    BY <1>7
  <2> HIDE DEF D
  <2>4. h[D] = Add(F[a], h[{b}]) \/ h[D] = Add(F[b], h[{a}])
    BY <2>1, <2>2, <2>3
  <2>5. h[{a}] = Add(F[a], <<>>) /\ h[{b}] = Add(F[b], <<>>)
    BY <1>9 DEF D
  <2> QED BY <1>6, <1>11, <2>4, <2>5 DEF D
<1> QED BY <1>10, <1>11

LEMMA AddFacts ==
    ASSUME NEW L \in Nat, NEW p \in [1 .. L -> Nat], NEW q \in [1 .. L -> Nat]
    PROVE  /\ Add(p, <<>>) = p
           /\ Add(p, q) = [j \in 1 .. L |-> p[j] + q[j]]
<1>1. p \in Seq(Nat) /\ q \in Seq(Nat) /\ Len(p) = L /\ Len(q) = L /\ Len(<<>>) = 0
  OBVIOUS
<1>2. Add(p, <<>>) = p
  <2>1. Add(p, <<>>) = [j \in 1 .. L |-> p[j]]
    BY <1>1 DEF Add
  <2> QED BY <2>1
<1>3. Add(p, q) = [j \in 1 .. L |-> p[j] + q[j]]
  BY <1>1 DEF Add
<1> QED BY <1>2, <1>3

(* ... column by column. *)
Row(F) == FoldFunction(Add, <<>>, F)

LEMMA RowOfTwo ==
    ASSUME NEW L \in Nat, NEW F, NEW a, NEW b, DOMAIN F = {a, b},
           F[a] \in [1 .. L -> Nat], F[b] \in [1 .. L -> Nat]
    PROVE  Row(F)
             = [j \in 1 .. L |-> IF a = b THEN F[a][j] ELSE F[a][j] + F[b][j]]
<1> SUFFICES FoldFunction(Add, <<>>, F)
               = [j \in 1 .. L |-> IF a = b THEN F[a][j] ELSE F[a][j] + F[b][j]]
  BY DEF Row
<1> DEFINE p == F[a]
           q == F[b]
           row == FoldFunction(Add, <<>>, F)
<1>1. /\ Add(p, <<>>) = p /\ Add(q, <<>>) = q
      /\ Add(p, q) = [j \in 1 .. L |-> p[j] + q[j]]
      /\ Add(q, p) = [j \in 1 .. L |-> q[j] + p[j]]
  <2> HIDE DEF p, q
  <2>1. p \in [1 .. L -> Nat] /\ q \in [1 .. L -> Nat]
    BY DEF p, q
  <2> QED BY <2>1, AddFacts
<1>2. CASE a = b
  <2>1. row = Add(p, <<>>)
    BY <1>2, JoinOfTwo
  <2>2. p = [j \in 1 .. L |-> p[j]]
    OBVIOUS
  <2> HIDE DEF row, p
  <2>3. row = [j \in 1 .. L |-> p[j]]
    BY <1>1, <2>1, <2>2
  <2> QED BY <1>2, <2>3 DEF row, p
<1>3. CASE a # b
  <2>1. row = Add(p, Add(q, <<>>)) \/ row = Add(q, Add(p, <<>>))
    BY <1>3, JoinOfTwo
  <2>2. \A j \in 1 .. L : q[j] + p[j] = p[j] + q[j]
    OBVIOUS
  <2> HIDE DEF row
  <2>3. row = [j \in 1 .. L |-> p[j] + q[j]]
    <3> HIDE DEF p, q
    <3> QED BY <1>1, <2>1, <2>2
  <2> QED BY <1>3, <2>3 DEF row
<1> QED BY <1>2, <1>3

LEMMA LastOfFacts ==
    ASSUME NEW S, NEW s \in Seq(S), NEW n \in Nat \ {0}
    PROVE  LET r == IF Len(s) > n THEN n ELSE Len(s)
           IN  /\ LastOf(n, s) \in Seq(S) /\ Len(LastOf(n, s)) = r
               /\ DOMAIN LastOf(n, s) = 1 .. r
               /\ \A j \in 1 .. r : LastOf(n, s)[j] = s[(Len(s) - r) + j]
<1> DEFINE r == IF Len(s) > n THEN n ELSE Len(s)
           t == LastOf(n, s)
<1>1. Len(s) \in Nat /\ r \in Nat /\ r <= Len(s)
  OBVIOUS
<1>2. CASE Len(s) > n
  BY <1>1, <1>2 DEF LastOf
<1>3. CASE ~(Len(s) > n)
  BY <1>1, <1>3 DEF LastOf
<1> QED BY <1>2, <1>3

LEMMA RateFacts ==
    /\ \A b \in Nat : \A ms \in Nat \ {0} : Rate(b, ms) \in Nat
    /\ \A ms \in Nat \ {0} : Rate(0, ms) = 0
    /\ \A n \in Nat : AtLeastOne(n) \in Nat \ {0}
<1>1. \A x \in Nat : \A ms \in Nat \ {0} : x \div ms \in Nat
  OBVIOUS
<1>2. \A b \in Nat : b * 1000 \in Nat
  OBVIOUS
<1>3. \A b \in Nat : \A ms \in Nat \ {0} : Rate(b, ms) \in Nat
  BY <1>1, <1>2 DEF Rate
<1> QED BY <1>3 DEF Rate, AtLeastOne

(* The flows of an identity in a scope: one or two of them are shown, and  *)
(* those that are not have moved nothing.                                  *)
Mine(scope, i) == {m \in Key : m.id = i /\ ScopeMatches(scope, m)}

LEMMA MineFacts ==
    ASSUME TypeOK, NEW scope, NEW k \in DOMAIN flows, ScopeMatches(scope, k)
    PROVE  /\ IsFiniteSet(Mine(scope, k.id)) /\ Shown(scope, k.id) \in SUBSET Mine(scope, k.id)
           /\ Mine(scope, k.id) \subseteq Key
           /\ \A m \in Mine(scope, k.id) \ Shown(scope, k.id) : m \in Key /\ m \notin DOMAIN flows
           /\ \E a, b \in DOMAIN flows : Shown(scope, k.id) = {a, b}
<1> DEFINE i == k.id
           x == [id |-> i, scope |-> "external"]
           y == [id |-> i, scope |-> "loopback"]
           M == Mine(scope, i)
<1>0. DOMAIN flows \subseteq Key /\ k \in Key
  BY DEF TypeOK
<1>1. ASSUME NEW m \in Key, m.id = i PROVE m \in {x, y}
  <2>1. m \in [id : {n.id : n \in Key}, scope : {"external", "loopback"}]
    BY TrendsAssumption
  <2>2. m = [id |-> m.id, scope |-> m.scope] /\ m.scope \in {"external", "loopback"}
    BY <2>1
  <2> QED BY <1>1, <2>2
<1>2. M \subseteq {x, y} /\ M \subseteq Key
  BY <1>1 DEF Mine
<1>3. IsFiniteSet(M)
  <2> HIDE DEF x, y, M
  <2>1. IsFiniteSet({y} \cup {x})
    BY FS_EmptySet, FS_Singleton, FS_AddElement
  <2>2. M \in SUBSET ({y} \cup {x})
    BY <1>2
  <2> QED BY <2>1, <2>2, FS_Subset
<1>4. Shown(scope, i) = {m \in M : m \in DOMAIN flows} /\ k \in Shown(scope, i)
  BY <1>0 DEF Mine, Shown
<1>5. \E a, b \in DOMAIN flows : Shown(scope, i) = {a, b}
  <2> HIDE DEF x, y, M
  <2>1. CASE x \in Shown(scope, i) /\ y \in Shown(scope, i)
    <3>1. Shown(scope, i) = {x, y}
      BY <1>2, <1>4, <2>1
    <3> QED BY <1>4, <2>1, <3>1
  <2>2. CASE ~(x \in Shown(scope, i) /\ y \in Shown(scope, i))
    <3>1. Shown(scope, i) = {k, k}
      BY <1>2, <1>4, <2>2
    <3> QED BY <3>1
  <2> QED BY <2>1, <2>2
<1> HIDE DEF M
<1>6. \A m \in M \ Shown(scope, i) : m \in Key /\ m \notin DOMAIN flows
  BY <1>2, <1>4
<1>7. Shown(scope, i) \in SUBSET M
  BY <1>4
<1> QED BY <1>2, <1>3, <1>5, <1>6, <1>7 DEF M

(* What the latest chunks say, and that it is a number. *)
LEMMA LatestFacts ==
    ASSUME IInv
    PROVE  /\ Len(latest) \in Nat /\ DOMAIN latest = 1 .. Len(latest)
           /\ Len(intervals) = Len(latest) /\ intervals \in Seq(Nat)
           /\ latest \in Seq(Samplings)
           /\ \A j \in 1 .. Len(latest) :
                 /\ intervals[j] = AtLeastOne(latest[j].ms) /\ intervals[j] \in Nat \ {0}
                 /\ \A m \in Key : BytesOf(latest[j], m) \in Nat
           /\ \A m \in Key \ DOMAIN flows : \A j \in 1 .. Len(latest) : BytesOf(latest[j], m) = 0
           /\ \A m \in DOMAIN flows :
                 /\ m \in Key /\ flows[m] \in Seq(Nat) /\ Len(flows[m]) <= Len(latest)
                 /\ \A j \in 1 .. Len(latest) :
                       BytesOf(latest[j], m) =
                          IF j <= Len(latest) - Len(flows[m]) THEN 0
                          ELSE flows[m][j - (Len(latest) - Len(flows[m]))]
<1>1. /\ Len(latest) \in Nat /\ DOMAIN latest = 1 .. Len(latest)
      /\ Len(intervals) = Len(latest) /\ intervals \in Seq(Nat \ {0}) /\ intervals \in Seq(Nat)
      /\ latest \in Seq(Samplings)
  BY DEF IInv, TypeOK, Aligned, Samplings
<1>2. ASSUME NEW j \in 1 .. Len(latest)
      PROVE  /\ intervals[j] = AtLeastOne(latest[j].ms) /\ intervals[j] \in Nat \ {0}
             /\ \A m \in Key : BytesOf(latest[j], m) \in Nat
  <2>1. latest[j] \in Samplings
    BY <1>1
  <2>2. PICK t \in Traffic : latest[j].bytes = t.bytes
    BY <2>1 DEF Samplings
  <2>3. \A m \in DOMAIN t.bytes : t.bytes[m] \in Nat
    BY TrendsAssumption
  <2>4. \A m \in Key : BytesOf(latest[j], m) \in Nat
    BY <2>2, <2>3 DEF BytesOf
  <2>5. intervals[j] \in Nat \ {0}
    BY <1>1
  <2> QED BY <2>4, <2>5 DEF IInv, Aligned
<1>3. ASSUME NEW m \in Key \ DOMAIN flows, NEW j \in 1 .. Len(latest)
      PROVE  BytesOf(latest[j], m) = 0
  <2>1. Samples(m) = <<>> /\ FlowOK(m)
    BY DEF Samples, IInv, Aligned
  <2>2. Len(<<>>) = 0 /\ Missing(m) = Len(latest)
    BY <1>1, <2>1 DEF Missing
  <2> QED BY <2>1, <2>2 DEF FlowOK
<1>4. ASSUME NEW m \in DOMAIN flows
      PROVE  /\ m \in Key /\ flows[m] \in Seq(Nat) /\ Len(flows[m]) <= Len(latest)
             /\ \A j \in 1 .. Len(latest) :
                   BytesOf(latest[j], m) =
                      IF j <= Len(latest) - Len(flows[m]) THEN 0
                      ELSE flows[m][j - (Len(latest) - Len(flows[m]))]
  <2>1. m \in Key /\ Samples(m) = flows[m] /\ flows[m] \in Seq(Nat)
    BY DEF IInv, TypeOK, Samples
  <2> QED BY <2>1 DEF IInv, Aligned, FlowOK, Missing
<1> QED BY <1>1, <1>2, <1>3, <1>4

(* The trend of a row sums those of the identity's flows. *)
LEMMA TrendColumns ==
    ASSUME IInv, NEW scope, NEW k \in DOMAIN flows, ScopeMatches(scope, k)
    PROVE  Trend(scope, k.id) =
              [j \in DOMAIN latest |->
                  SumFunction([m \in Mine(scope, k.id) |->
                                  Rate(BytesOf(latest[j], m), AtLeastOne(latest[j].ms))])]
<1> DEFINE M == Mine(scope, k.id)
           W == Shown(scope, k.id)
           L == Len(latest)
           F == [m \in W |-> FlowTrend(m)]
           r(m, j) == Rate(BytesOf(latest[j], m), AtLeastOne(latest[j].ms))
<1>0. /\ IsFiniteSet(M) /\ W \in SUBSET M /\ M \subseteq Key
      /\ \A m \in M \ W : m \in Key /\ m \notin DOMAIN flows
  BY MineFacts DEF IInv
<1>1. PICK a, b \in DOMAIN flows : W = {a, b}
  BY MineFacts DEF IInv
<1>2. L \in Nat /\ DOMAIN latest = 1 .. L
  BY LatestFacts
<1>3. ASSUME NEW m \in M, NEW j \in 1 .. L PROVE r(m, j) \in Nat /\ (m \notin W => r(m, j) = 0)
  <2>1. AtLeastOne(latest[j].ms) \in Nat \ {0} /\ BytesOf(latest[j], m) \in Nat
    BY <1>0, LatestFacts
  <2>2. m \notin W => BytesOf(latest[j], m) = 0
    BY <1>0, LatestFacts
  <2> QED BY <2>1, <2>2, RateFacts
<1>4. \A m \in W : FlowTrend(m) = [j \in 1 .. L |-> r(m, j)]
  BY <1>1, <1>2, AlignedFlows DEF FlowsAligned
<1> HIDE DEF r
<1>5. /\ DOMAIN F = {a, b} /\ F[a] \in [1 .. L -> Nat] /\ F[b] \in [1 .. L -> Nat]
      /\ \A j \in 1 .. L : F[a][j] = r(a, j) /\ F[b][j] = r(b, j)
  <2> HIDE DEF W, M, L
  <2>1. a \in W /\ b \in W /\ a \in M /\ b \in M
    BY <1>0, <1>1
  <2> QED BY <1>1, <1>3, <1>4, <2>1
<1>6. Trend(scope, k.id) = [j \in 1 .. L |-> IF a = b THEN r(a, j) ELSE r(a, j) + r(b, j)]
  <2>1. Trend(scope, k.id) = Row(F)
    BY DEF Trend, Row
  <2> HIDE DEF F, L
  <2>2. Row(F)
          = [j \in 1 .. L |-> IF a = b THEN F[a][j] ELSE F[a][j] + F[b][j]]
    BY <1>2, <1>5, RowOfTwo
  <2> QED BY <1>5, <2>1, <2>2
<1>7. ASSUME NEW j \in 1 .. L
      PROVE  SumFunction([m \in M |-> r(m, j)]) = IF a = b THEN r(a, j) ELSE r(a, j) + r(b, j)
  <2> DEFINE f == [m \in M |-> r(m, j)]
             g == [m \in W |-> f[m]]
  <2> HIDE DEF M, W, L
  <2>1. ZeroElsewhere(f, M, W)
    BY <1>0, <1>3 DEF ZeroElsewhere
  <2>2. SumFunction(f) = SumFunction(g)
    <3> HIDE DEF f
    <3> QED BY <2>1, ZerosAddNothing
  <2>3. /\ DOMAIN g = {a, b} /\ g[a] = r(a, j) /\ g[b] = r(b, j)
        /\ g[a] \in Nat /\ g[b] \in Nat
    BY <1>0, <1>1, <1>3
  <2> HIDE DEF g
  <2>4. SumFunction(g) = IF a = b THEN g[a] ELSE g[a] + g[b]
    BY <2>3, SumOfTwo
  <2> QED BY <2>2, <2>3, <2>4
<1>8. Trend(scope, k.id) = [j \in DOMAIN latest |-> SumFunction([m \in M |-> r(m, j)])]
  <2> HIDE DEF M, L
  <2> QED BY <1>2, <1>6, <1>7
<1> QED BY <1>8 DEF r, M
(* The newest samples of a flow that is shown add up to what the newest    *)
(* chunks say of it: a flow with fewer samples than those was not in them. *)
LEMMA FlowMoved ==
    ASSUME IInv, NEW m \in DOMAIN flows
    PROVE  SumFunction(LastOf(RateTicks, flows[m]))
             = SumFunction([j \in DOMAIN LastOf(RateTicks, latest) |->
                               BytesOf(LastOf(RateTicks, latest)[j], m)])
<1> DEFINE N == Len(flows[m])
           L == Len(latest)
           n == IF N > RateTicks THEN RateTicks ELSE N
           R == IF L > RateTicks THEN RateTicks ELSE L
           d == R - n
           s == flows[m]
           recent == LastOf(RateTicks, latest)
           f == LastOf(RateTicks, s)
           g == [j \in DOMAIN recent |-> BytesOf(recent[j], m)]
<1>1. RateTicks \in Nat \ {0}
  BY TrendsAssumption
<1>2. s \in Seq(Nat) /\ N \in Nat /\ L \in Nat /\ N <= L /\ latest \in Seq(Samplings) /\ m \in Key
  BY LatestFacts
<1>3. /\ n \in Nat /\ R \in Nat /\ d \in Nat /\ d + n = R /\ n <= N /\ R <= L
      /\ d > 0 => n = N
  BY <1>1, <1>2
<1>4. /\ f \in Seq(Nat) /\ Len(f) = n /\ DOMAIN f = 1 .. n
      /\ \A j \in 1 .. n : f[j] = s[(N - n) + j]
  BY <1>1, <1>2, LastOfFacts
<1>5. DOMAIN recent = 1 .. R /\ \A j \in 1 .. R : recent[j] = latest[(L - R) + j]
  BY <1>1, <1>2, LastOfFacts
<1>6. \A j \in 1 .. L : /\ BytesOf(latest[j], m) \in Nat
                        /\ BytesOf(latest[j], m) = IF j <= L - N THEN 0 ELSE s[j - (L - N)]
  BY <1>2, LatestFacts
<1> HIDE DEF N, L, n, R, d, s, recent, f
<1>7. DOMAIN g = 1 .. d + n /\ \A j \in 1 .. d + n : g[j] = BytesOf(latest[(L - R) + j], m)
  BY <1>3, <1>5
<1>8. \A j \in 1 .. d + n : (L - R) + j \in 1 .. L
  BY <1>2, <1>3
<1>9. g \in [1 .. d + n -> Nat]
  <2>1. \A j \in 1 .. d + n : g[j] \in Nat
    BY <1>6, <1>7, <1>8
  <2>2. g = [j \in 1 .. d + n |-> g[j]]
    BY <1>7
  <2> HIDE DEF g
  <2> QED BY <2>1, <2>2
<1> HIDE DEF g
<1>10. ASSUME NEW j \in 1 .. d PROVE g[j] = 0
  <2>1. j \in 1 .. d + n /\ (L - R) + j \in 1 .. L /\ (L - R) + j <= L - N
    BY <1>2, <1>3, <1>8
  <2> QED BY <1>6, <1>7, <2>1
<1>11. ASSUME NEW j \in 1 .. n PROVE f[j] = g[d + j]
  <2>1. /\ d + j \in 1 .. d + n /\ (L - R) + (d + j) \in 1 .. L
        /\ ~((L - R) + (d + j) <= L - N)
        /\ ((L - R) + (d + j)) - (L - N) = (N - n) + j
    BY <1>2, <1>3, <1>8
  <2> QED BY <1>4, <1>6, <1>7, <2>1
<1>12. Padded(f, n, g, d)
  <2>1. f \in [1 .. n -> Nat]
    BY <1>3, <1>4
  <2> QED BY <1>9, <1>10, <1>11, <2>1 DEF Padded
<1>13. SumFunction(f) = SumFunction(g)
  BY <1>3, <1>12, PaddingAddsNothing
<1> QED BY <1>13 DEF f, g, s, recent

(* The newest intervals are those of the newest chunks. *)
LEMMA TimeSpanned ==
    ASSUME IInv
    PROVE  LastOf(RateTicks, intervals)
             = [j \in DOMAIN LastOf(RateTicks, latest) |->
                   AtLeastOne(LastOf(RateTicks, latest)[j].ms)]
<1> DEFINE L == Len(latest)
           R == IF L > RateTicks THEN RateTicks ELSE L
           recent == LastOf(RateTicks, latest)
           t == LastOf(RateTicks, intervals)
<1>1. RateTicks \in Nat \ {0}
  BY TrendsAssumption
<1>2. /\ L \in Nat /\ Len(intervals) = L /\ intervals \in Seq(Nat) /\ latest \in Seq(Samplings)
      /\ \A j \in 1 .. L : intervals[j] = AtLeastOne(latest[j].ms)
  BY LatestFacts
<1>3. /\ t \in Seq(Nat) /\ DOMAIN t = 1 .. R
      /\ \A j \in 1 .. R : t[j] = intervals[(L - R) + j]
  <2> DEFINE T == Len(intervals)
             r == IF T > RateTicks THEN RateTicks ELSE T
  <2>1. /\ t \in Seq(Nat) /\ DOMAIN t = 1 .. r
        /\ \A j \in 1 .. r : t[j] = intervals[(T - r) + j]
    BY <1>1, <1>2, LastOfFacts
  <2>2. T = L /\ r = R
    BY <1>2
  <2> HIDE DEF T, r, L, R, t
  <2> QED BY <2>1, <2>2
<1>4. DOMAIN recent = 1 .. R /\ \A j \in 1 .. R : recent[j] = latest[(L - R) + j]
  BY <1>1, <1>2, LastOfFacts
<1>5. R \in Nat /\ R <= L
  BY <1>1, <1>2
<1> HIDE DEF L, R, recent, t
<1>6. \A j \in 1 .. R : (L - R) + j \in 1 .. L
  BY <1>2, <1>5
<1>7. \A j \in 1 .. R : t[j] = AtLeastOne(recent[j].ms)
  BY <1>2, <1>3, <1>4, <1>6
<1>8. t = [j \in 1 .. R |-> t[j]]
  BY <1>3
<1>9. t = [j \in DOMAIN recent |-> AtLeastOne(recent[j].ms)]
  BY <1>4, <1>7, <1>8
<1> QED BY <1>9 DEF recent, t

(* What the newest chunks say moved on a flow, and over how long. *)
Moved(m) == SumFunction([j \in DOMAIN LastOf(RateTicks, latest) |->
                            BytesOf(LastOf(RateTicks, latest)[j], m)])
Spanned == AtLeastOne(SumFunction(LastOf(RateTicks, intervals)))

LEMMA MovedFacts ==
    ASSUME IInv
    PROVE  /\ \A m \in Key : Moved(m) \in Nat /\ (m \notin DOMAIN flows => Moved(m) = 0)
           /\ Spanned \in Nat \ {0}
<1> DEFINE L == Len(latest)
           R == IF L > RateTicks THEN RateTicks ELSE L
           recent == LastOf(RateTicks, latest)
           t == LastOf(RateTicks, intervals)
<1>1. RateTicks \in Nat \ {0}
  BY TrendsAssumption
<1>2. /\ L \in Nat /\ Len(intervals) = L /\ intervals \in Seq(Nat) /\ latest \in Seq(Samplings)
  BY LatestFacts
<1>3. t \in Seq(Nat) /\ DOMAIN t = 1 .. R /\ \A j \in DOMAIN t : t[j] \in Nat
  <2>1. t \in Seq(Nat) /\ DOMAIN t = 1 .. R
    BY <1>1, <1>2, LastOfFacts
  <2>2. \A u \in Seq(Nat) : \A j \in DOMAIN u : u[j] \in Nat
    OBVIOUS
  <2> HIDE DEF t, R
  <2> QED BY <2>1, <2>2
<1>4. DOMAIN recent = 1 .. R /\ \A j \in 1 .. R : recent[j] = latest[(L - R) + j]
  BY <1>1, <1>2, LastOfFacts
<1>5. R \in Nat /\ R <= L /\ IsFiniteSet(1 .. R)
  <2>1. R \in Nat /\ R <= L
    BY <1>1, <1>2
  <2> HIDE DEF R
  <2> QED BY <2>1, FS_Interval
<1> HIDE DEF R, L, recent, t
<1>6. \A j \in 1 .. R : (L - R) + j \in 1 .. L
  BY <1>2, <1>5
<1>7. Spanned \in Nat \ {0}
  <2>1. SumFunction(t) \in Nat
    BY <1>3, <1>5, SumFacts
  <2> QED BY <2>1, RateFacts DEF Spanned, t
<1>8. ASSUME NEW m \in Key
      PROVE  Moved(m) \in Nat /\ (m \notin DOMAIN flows => Moved(m) = 0)
  <2> DEFINE g == [j \in DOMAIN recent |-> BytesOf(recent[j], m)]
  <2>1. DOMAIN g = 1 .. R /\ \A j \in 1 .. R : g[j] = BytesOf(latest[(L - R) + j], m)
    BY <1>4
  <2>2. \A j \in 1 .. R : g[j] \in Nat /\ (m \notin DOMAIN flows => g[j] = 0)
    <3>1. \A j \in 1 .. L : /\ BytesOf(latest[j], m) \in Nat
                            /\ m \notin DOMAIN flows => BytesOf(latest[j], m) = 0
      BY LatestFacts DEF L
    <3> HIDE DEF g
    <3> QED BY <1>6, <2>1, <3>1
  <2>3. Moved(m) = SumFunction(g)
    BY DEF Moved, recent
  <2> HIDE DEF g
  <2>4. SumFunction(g) \in Nat
    BY <1>5, <2>1, <2>2, SumFacts
  <2>5. ASSUME m \notin DOMAIN flows PROVE SumFunction(g) = 0
    <3>1. g \in [1 .. R -> Nat]
      <4>1. g = [j \in DOMAIN g |-> g[j]]
        BY DEF g
      <4> QED BY <2>1, <2>2, <4>1
    <3>2. ZeroElsewhere(g, 1 .. R, {})
      BY <1>5, <2>2, <2>5, <3>1 DEF ZeroElsewhere
    <3> DEFINE e == [x \in {} |-> g[x]]
    <3>3. SumFunction(g) = SumFunction(e)
      BY <3>2, ZerosAddNothing
    <3>4. DOMAIN e = {} /\ IsFiniteSet({})
      BY FS_EmptySet
    <3> HIDE DEF e
    <3>5. SumFunction(e) = 0
      BY <3>4, SumFacts
    <3> QED BY <3>3, <3>5
  <2> QED BY <2>3, <2>4, <2>5
<1> QED BY <1>7, <1>8

(* The rate of a row sums those of the identity's flows. *)
LEMMA RowRate ==
    ASSUME IInv, NEW scope, NEW k \in DOMAIN flows, ScopeMatches(scope, k)
    PROVE  CurrentRate(scope, k.id)
             = SumFunction([m \in Mine(scope, k.id) |-> Rate(Moved(m), Spanned)])
<1> DEFINE M == Mine(scope, k.id)
           W == Shown(scope, k.id)
           f == [m \in M |-> Rate(Moved(m), Spanned)]
           g == [m \in W |-> f[m]]
<1>1. /\ IsFiniteSet(M) /\ W \in SUBSET M /\ M \subseteq Key
      /\ \A m \in M \ W : m \in Key /\ m \notin DOMAIN flows
  BY MineFacts DEF IInv
<1>2. \A m \in W : SumFunction(LastOf(RateTicks, flows[m])) = Moved(m)
  BY FlowMoved DEF Shown, Moved
<1>3. CurrentRate(scope, k.id)
        = SumFunction([m \in W |-> Rate(SumFunction(LastOf(RateTicks, flows[m])), Spanned)])
  BY DEF CurrentRate, Spanned
<1> HIDE DEF M, W
<1>4. [m \in W |-> Rate(SumFunction(LastOf(RateTicks, flows[m])), Spanned)] = g
  BY <1>1, <1>2
<1>5. \A m \in M : f[m] \in Nat /\ (m \notin W => f[m] = 0)
  <2>1. \A m \in M : Rate(Moved(m), Spanned) \in Nat
    BY <1>1, MovedFacts, RateFacts
  <2>2. \A m \in M \ W : Moved(m) = 0
    BY <1>1, MovedFacts
  <2>3. Rate(0, Spanned) = 0
    BY MovedFacts, RateFacts
  <2> QED BY <2>1, <2>2, <2>3
<1>6. f \in [M -> Nat]
  BY <1>5
<1> HIDE DEF f
<1>7. ZeroElsewhere(f, M, W)
  BY <1>1, <1>5, <1>6 DEF ZeroElsewhere
<1>8. SumFunction(f) = SumFunction(g)
  BY <1>7, ZerosAddNothing
<1>9. CurrentRate(scope, k.id) = SumFunction(f)
  BY <1>3, <1>4, <1>8
<1> QED BY <1>9 DEF f, M

LEMMA AlignedTrends ==
    ASSUME IInv
    PROVE  TrendsAligned
<1> DEFINE recent == LastOf(RateTicks, latest)
           time == SumFunction([j \in DOMAIN recent |-> AtLeastOne(recent[j].ms)])
<1>1. Spanned = AtLeastOne(time)
  BY TimeSpanned DEF Spanned
<1>2. ASSUME NEW k \in DOMAIN flows PROVE Len(flows[k]) <= Len(intervals)
  BY LatestFacts
<1>3. ASSUME NEW k \in DOMAIN flows, NEW scope, ScopeMatches(scope, k)
      PROVE  CurrentRate(scope, k.id)
               = SumFunction([m \in Mine(scope, k.id) |->
                    Rate(SumFunction([j \in DOMAIN recent |-> BytesOf(recent[j], m)]),
                         AtLeastOne(time))])
  <2> HIDE DEF time
  <2>1. CurrentRate(scope, k.id)
          = SumFunction([m \in Mine(scope, k.id) |-> Rate(Moved(m), AtLeastOne(time))])
    BY <1>1, <1>3, RowRate
  <2> QED BY <2>1 DEF Moved
<1> QED BY <1>2, <1>3, TrendColumns DEF TrendsAligned, Mine

(* Every row of the live view is what the latest chunks say: the trend     *)
(* column by column and the rate (tui.rs live_measures, Measure::add),     *)
(* whenever its flows were first seen and however often the stream was     *)
(* lost in between.                                                        *)
THEOREM TrendsAreAligned == Spec => []TrendsAligned
<1>1. Spec => []IInv
  BY Invariant
<1>2. IInv => TrendsAligned
  BY AlignedTrends
<1> QED BY <1>1, <1>2, PTL

=============================================================================
