-------------------------- MODULE SclStreamProofs ---------------------------
(***************************************************************************)
(* Theorems about SclStream, for every list of packets, every capacity of  *)
(* the pipe and every time-out: however the transfers are broken up, the   *)
(* words stay in order, and while no transfer is cut the stream implements *)
(* the channel of whole packets of PacketChan.                             *)
(***************************************************************************)
EXTENDS SclStream, WellFoundedInduction, TLAPS

-----------------------------------------------------------------------------
(* Running sums.                                                           *)

\* A set of natural numbers that is not empty has a least element.
LEMMA LeastOf ==
  ASSUME NEW S \in SUBSET Nat, S # {}
  PROVE  \E m \in S : \A k \in S : m <= k
  <1>1. \E m \in S : \A k \in S : <<k, m>> \notin OpToRel(<, Nat)
    BY NatLessThanWellFounded, WFMin
  <1>2. ASSUME NEW m \in S, NEW k \in S, <<k, m>> \notin OpToRel(<, Nat)
        PROVE  m <= k
    BY <1>2 DEF OpToRel
  <1> QED
    BY <1>1, <1>2

\* The numbers of which the k-th is the one before and the k-th addend.
SumsUpTo(n, first, add) ==
    {g \in [0 .. n -> Nat] : g[0] = first /\ \A k \in 1 .. n : g[k] = g[k - 1] + add[k]}

LEMMA RunningSum ==
  ASSUME NEW L \in Nat, NEW first \in Nat, NEW add \in [1 .. L -> Nat]
  PROVE  SumsUpTo(L, first, add) # {}
  <1> DEFINE Without == {n \in 0 .. L : SumsUpTo(n, first, add) = {}}
  <1> SUFFICES ASSUME Without # {} PROVE FALSE
    OBVIOUS
  <1>1. PICK n \in Without : \A m \in Without : n <= m
    <2>1. Without \in SUBSET Nat
      OBVIOUS
    <2> HIDE DEF Without
    <2> QED
      BY <2>1, LeastOf
  <1>2. n \in 0 .. L /\ SumsUpTo(n, first, add) = {}
    BY <1>1
  <1>3. CASE n = 0
    <2> DEFINE g == [k \in 0 .. 0 |-> first]
    <2>1. g \in SumsUpTo(0, first, add)
      BY DEF SumsUpTo
    <2> QED
      BY <1>2, <1>3, <2>1
  <1>4. CASE n # 0
    <2>1. n - 1 \in 0 .. L /\ n - 1 \notin Without
      BY <1>1, <1>2, <1>4
    <2>2. PICK g \in SumsUpTo(n - 1, first, add) : TRUE
      BY <2>1
    <2> DEFINE h == [k \in 0 .. n |-> IF k = n THEN g[n - 1] + add[n] ELSE g[k]]
    <2>3. g \in [0 .. n - 1 -> Nat] /\ g[0] = first /\ \A k \in 1 .. n - 1 : g[k] = g[k - 1] + add[k]
      BY <2>2 DEF SumsUpTo
    <2>4. h \in [0 .. n -> Nat]
      BY <1>2, <1>4, <2>3
    <2>5. h[0] = first
      BY <1>2, <1>4, <2>3
    <2>6. \A k \in 1 .. n : h[k] = h[k - 1] + add[k]
      BY <1>2, <1>4, <2>3
    <2>7. h \in SumsUpTo(n, first, add)
      BY <2>4, <2>5, <2>6 DEF SumsUpTo
    <2> QED
      BY <1>2, <2>7
  <1> QED
    BY <1>3, <1>4

\* They are natural numbers and never fall.
LEMMA Rises ==
  ASSUME NEW L \in Nat, NEW f, f[0] \in Nat,
         \A i \in 1 .. L : \E d \in Nat : f[i] = f[i - 1] + d
  PROVE  /\ \A i \in 0 .. L : f[i] \in Nat
         /\ \A i, j \in 0 .. L : i <= j => f[i] <= f[j]
  <1>1. \A i \in 0 .. L : f[i] \in Nat
    <2> DEFINE Bad == {i \in 0 .. L : f[i] \notin Nat}
    <2> SUFFICES ASSUME Bad # {} PROVE FALSE
      OBVIOUS
    <2>1. PICK i \in Bad : \A m \in Bad : i <= m
      <3>1. Bad \in SUBSET Nat
        OBVIOUS
      <3> HIDE DEF Bad
      <3> QED
        BY <3>1, LeastOf
    <2>2. i \in 1 .. L /\ i - 1 \notin Bad /\ i - 1 \in 0 .. L
      BY <2>1
    <2>3. PICK d \in Nat : f[i] = f[i - 1] + d
      BY <2>2
    <2> QED
      BY <2>1, <2>2, <2>3
  <1>2. ASSUME NEW i \in 0 .. L, NEW j \in 0 .. L, i <= j PROVE f[i] <= f[j]
    <2> DEFINE Bad == {k \in i .. L : ~(f[i] <= f[k])}
    <2> SUFFICES ASSUME Bad # {} PROVE FALSE
      BY <1>2
    <2>1. PICK k \in Bad : \A m \in Bad : k <= m
      <3>1. Bad \in SUBSET Nat
        OBVIOUS
      <3> HIDE DEF Bad
      <3> QED
        BY <3>1, LeastOf
    <2>2. k # i
      BY <1>1, <2>1
    <2>3. k \in 1 .. L /\ k - 1 \in i .. L /\ k - 1 \notin Bad
      BY <2>1, <2>2
    <2>4. PICK d \in Nat : f[k] = f[k - 1] + d
      BY <2>3
    <2> QED
      BY <1>1, <2>1, <2>3, <2>4
  <1> QED
    BY <1>1, <1>2

-----------------------------------------------------------------------------
(* Packets as words.                                                       *)

LEMMA PacketFacts ==
  ASSUME NEW n \in DOMAIN Packets
  PROVE  /\ Packets[n].op \in Nat /\ Packets[n].values \in Seq(Nat)
         /\ Len(Packets[n].values) \in Nat /\ Calls(n) \in Nat /\ Calls(n) >= 4
         /\ \A i \in 5 .. Calls(n) : Packets[n].values[i - 4] \in Nat
  <1>1. Packets[n] \in [op : Nat, values : Seq(Nat)]
    <2>1. \A S, s : s \in Seq(S) => \A i \in DOMAIN s : s[i] \in S
      OBVIOUS
    <2> QED
      BY <2>1, StreamAssumption, Zenon DEF StreamAssumption
  <1> QED
    BY <1>1 DEF Calls

\* Every call of scl_write ends its value behind the one before.
LEMMA CallEndsFacts ==
  ASSUME NEW n \in DOMAIN Packets
  PROVE  /\ \A i \in 0 .. 4 : CallEnds(n)[i] = i
         /\ \A i \in 5 .. Calls(n) : CallEnds(n)[i] = CallEnds(n)[i - 1] + Packets[n].values[i - 4]
         /\ \A i \in 0 .. Calls(n) : CallEnds(n)[i] \in Nat
         /\ \A i, j \in 0 .. Calls(n) : i <= j => CallEnds(n)[i] <= CallEnds(n)[j]
         /\ PacketLen(n) \in Nat /\ PacketLen(n) >= 4 /\ PayloadLen(n) \in Nat
  <1> DEFINE L == Calls(n)
             v == Packets[n].values
             add == [i \in 1 .. L |-> IF i <= 4 THEN 1 ELSE v[i - 4]]
             Is(f) == f = [i \in 0 .. L |-> IF i <= 4 THEN i ELSE f[i - 1] + v[i - 4]]
  <1>1. L \in Nat /\ L >= 4 /\ add \in [1 .. L -> Nat]
    BY PacketFacts
  <1>2. PICK g \in SumsUpTo(L, 0, add) : TRUE
    <2> HIDE DEF L, add
    <2> QED
      BY <1>1, RunningSum
  <1>3. g \in [0 .. L -> Nat] /\ g[0] = 0 /\ \A k \in 1 .. L : g[k] = g[k - 1] + add[k]
    BY <1>2 DEF SumsUpTo
  <1>4. g[1] = 1 /\ g[2] = 2 /\ g[3] = 3 /\ g[4] = 4
    <2>1. g[1] = g[0] + 1 /\ g[2] = g[1] + 1 /\ g[3] = g[2] + 1 /\ g[4] = g[3] + 1
      BY <1>1, <1>3
    <2> QED
      BY <1>3, <2>1
  <1>5. \A k \in 0 .. L : g[k] = IF k <= 4 THEN k ELSE g[k - 1] + v[k - 4]
    <2> TAKE k \in 0 .. L
    <2>1. CASE k <= 4
      <3>1. k = 0 \/ k = 1 \/ k = 2 \/ k = 3 \/ k = 4
        BY <1>1, <2>1
      <3> QED
        BY <1>3, <1>4, <3>1
    <2>2. CASE k > 4
      BY <1>1, <1>3, <2>2
    <2> QED
      BY <1>1, <2>1, <2>2
  <1>6. Is(g)
    BY <1>3, <1>5
  <1>7. CallEnds(n) = CHOOSE f : Is(f)
    BY DEF CallEnds
  <1>8. Is(CallEnds(n))
    <2> HIDE DEF Is
    <2> QED
      BY <1>6, <1>7
  <1> DEFINE f == CallEnds(n)
  <1>9. \A k \in 0 .. L : f[k] = IF k <= 4 THEN k ELSE f[k - 1] + v[k - 4]
    <2> HIDE DEF f
    <2> QED
      BY <1>8 DEF f
  <1>10. /\ \A i \in 0 .. 4 : f[i] = i
         /\ \A i \in 5 .. L : f[i] = f[i - 1] + v[i - 4]
    <2> HIDE DEF f
    <2> QED
      BY <1>1, <1>9
  <1>11. /\ f[0] \in Nat
         /\ \A i \in 1 .. L : \E d \in Nat : f[i] = f[i - 1] + d
    <2> HIDE DEF f
    <2>1. \A i \in 1 .. 4 : f[i] = f[i - 1] + 1
      BY <1>1, <1>10
    <2>2. \A i \in 5 .. L : v[i - 4] \in Nat
      BY PacketFacts
    <2>3. ASSUME NEW i \in 1 .. L PROVE \E d \in Nat : f[i] = f[i - 1] + d
      <3>1. CASE i <= 4
        BY <2>1, <3>1
      <3>2. CASE i > 4
        <4>1. i \in 5 .. L
          BY <1>1, <3>2
        <4>2. f[i] = f[i - 1] + v[i - 4] /\ v[i - 4] \in Nat
          BY <1>10, <2>2, <4>1
        <4> QED
          BY <4>2, Zenon
      <3> QED
        BY <1>1, <3>1, <3>2
    <2> QED
      BY <1>10, <2>3
  <1>12. /\ \A i \in 0 .. L : f[i] \in Nat
         /\ \A i, j \in 0 .. L : i <= j => f[i] <= f[j]
    <2> HIDE DEF f
    <2> QED
      BY <1>1, <1>11, Rises
  <1>13. f[L] \in Nat /\ f[L] >= 4
    <2> HIDE DEF f
    <2> QED
      BY <1>1, <1>10, <1>12
  <1> QED
    BY <1>10, <1>12, <1>13 DEF PacketLen, PayloadLen

\* How many words the first n packets have.
Upto ==
    LET upto[n \in 0 .. Len(Packets)] == IF n = 0 THEN 0 ELSE upto[n - 1] + PacketLen(n)
    IN  upto

\* The place of a word among all words of all packets.
Place(w) == Upto[w.pkt - 1] + w.pos

Genuine(w) ==
    /\ w.pkt \in DOMAIN Packets /\ w.pos \in 1 .. PacketLen(w.pkt)
    /\ w = Word(w.pkt, w.pos)

LEMMA Numbered == Len(Packets) \in Nat /\ DOMAIN Packets = 1 .. Len(Packets)
  <1>1. \A S, s : s \in Seq(S) => Len(s) \in Nat /\ DOMAIN s = 1 .. Len(s)
    OBVIOUS
  <1> QED
    BY <1>1, StreamAssumption, Zenon DEF StreamAssumption

LEMMA UptoFacts ==
  /\ Upto[0] = 0
  /\ \A n \in DOMAIN Packets : Upto[n] = Upto[n - 1] + PacketLen(n)
  /\ \A n \in 0 .. Len(Packets) : Upto[n] \in Nat
  /\ \A m, n \in 0 .. Len(Packets) : m <= n => Upto[m] <= Upto[n]
  <1> DEFINE L == Len(Packets)
             add == [n \in 1 .. L |-> PacketLen(n)]
             Is(f) == f = [n \in 0 .. L |-> IF n = 0 THEN 0 ELSE f[n - 1] + PacketLen(n)]
  <1>1. L \in Nat /\ DOMAIN Packets = 1 .. L
    BY Numbered
  <1>2. add \in [1 .. L -> Nat]
    <2>1. \A n \in 1 .. L : PacketLen(n) \in Nat
      BY <1>1, CallEndsFacts
    <2> QED
      BY <2>1
  <1>3. PICK g \in SumsUpTo(L, 0, add) : TRUE
    <2> HIDE DEF L, add
    <2> QED
      BY <1>1, <1>2, RunningSum
  <1>4. g \in [0 .. L -> Nat] /\ g[0] = 0 /\ \A k \in 1 .. L : g[k] = g[k - 1] + add[k]
    BY <1>3 DEF SumsUpTo
  <1>5. \A k \in 0 .. L : g[k] = IF k = 0 THEN 0 ELSE g[k - 1] + PacketLen(k)
    BY <1>1, <1>4
  <1>6. Is(g)
    BY <1>4, <1>5
  <1>7. Upto = CHOOSE f : Is(f)
    BY DEF Upto
  <1>8. Is(Upto)
    <2> HIDE DEF Is
    <2> QED
      BY <1>6, <1>7
  <1>9. \A k \in 0 .. L : Upto[k] = IF k = 0 THEN 0 ELSE Upto[k - 1] + PacketLen(k)
    <2>1. ASSUME NEW f, Is(f)
          PROVE  \A k \in 0 .. L : f[k] = IF k = 0 THEN 0 ELSE f[k - 1] + PacketLen(k)
      BY <2>1
    <2> HIDE DEF Is
    <2> QED
      BY <1>8, <2>1
  <1>10. Upto[0] = 0 /\ \A n \in 1 .. L : Upto[n] = Upto[n - 1] + PacketLen(n)
    BY <1>1, <1>9
  <1>11. \A n \in 1 .. L : \E d \in Nat : Upto[n] = Upto[n - 1] + d
    BY <1>1, <1>10, CallEndsFacts
  <1>12. /\ \A n \in 0 .. L : Upto[n] \in Nat
         /\ \A m, n \in 0 .. L : m <= n => Upto[m] <= Upto[n]
    <2> HIDE DEF L
    <2>1. Upto[0] \in Nat
      BY <1>10
    <2> QED
      BY <1>1, <1>11, <2>1, Rises
  <1> QED
    BY <1>1, <1>10, <1>12

LEMMA WordFacts ==
  ASSUME NEW n \in DOMAIN Packets, NEW i \in 1 .. PacketLen(n)
  PROVE  /\ Genuine(Word(n, i)) /\ Word(n, i).pkt = n /\ Word(n, i).pos = i
         /\ Word(n, i) \in Words /\ Place(Word(n, i)) = Upto[n - 1] + i
         /\ i = 1 => Word(n, i).v = Packets[n].op
         /\ i = 4 => Word(n, i).v = PayloadLen(n)
  <1>1. Word(n, i).pkt = n /\ Word(n, i).pos = i
    BY DEF Word
  <1>2. Packets[n].op \in Nat /\ PayloadLen(n) \in Nat /\ DataWord \in Nat /\ i \in Nat
    BY PacketFacts, CallEndsFacts, StreamAssumption DEF StreamAssumption
  <1>3. Word(n, i) \in Words
    BY <1>2 DEF Word, Words
  <1> QED
    BY <1>1, <1>3 DEF Genuine, Place, Word

\* A word lies between the end of the packet before and the end of its own.
LEMMA PlaceFacts ==
  ASSUME NEW w, Genuine(w)
  PROVE  /\ w \in Words /\ w.pkt \in 1 .. Len(Packets) /\ w.pos \in Nat
         /\ Place(w) \in Nat /\ Upto[w.pkt - 1] < Place(w) /\ Place(w) <= Upto[w.pkt]
  <1>1. w.pkt \in 1 .. Len(Packets) /\ w.pkt \in DOMAIN Packets /\ w.pos \in 1 .. PacketLen(w.pkt)
    BY Numbered DEF Genuine
  <1>2. w \in Words
    <2>1. Word(w.pkt, w.pos) \in Words
      BY <1>1, WordFacts
    <2> QED
      BY <2>1 DEF Genuine
  <1>3. /\ Upto[w.pkt] = Upto[w.pkt - 1] + PacketLen(w.pkt) /\ Upto[w.pkt - 1] \in Nat
        /\ PacketLen(w.pkt) \in Nat
    BY <1>1, UptoFacts, CallEndsFacts, Numbered
  <1> QED
    BY <1>1, <1>2, <1>3 DEF Place

LEMMA EarlierByPlace ==
  ASSUME NEW a, NEW b, Genuine(a), Genuine(b), Place(a) < Place(b)
  PROVE  Earlier(a, b)
  <1>1. /\ a.pkt \in 1 .. Len(Packets) /\ b.pkt \in 1 .. Len(Packets) /\ Len(Packets) \in Nat
        /\ a.pos \in Nat /\ b.pos \in Nat
        /\ Place(a) \in Nat /\ Upto[a.pkt - 1] < Place(a) /\ Place(a) <= Upto[a.pkt]
        /\ Place(b) \in Nat /\ Upto[b.pkt - 1] < Place(b) /\ Place(b) <= Upto[b.pkt]
    BY PlaceFacts, Numbered
  <1>2. CASE a.pkt > b.pkt
    <2>1. Upto[b.pkt] <= Upto[a.pkt - 1] /\ Upto[b.pkt] \in Nat /\ Upto[a.pkt - 1] \in Nat
      <3>1. b.pkt \in 0 .. Len(Packets) /\ a.pkt - 1 \in 0 .. Len(Packets) /\ b.pkt <= a.pkt - 1
        BY <1>1, <1>2
      <3> QED
        BY <3>1, UptoFacts
    <2> QED
      BY <1>1, <1>2, <2>1
  <1>3. CASE a.pkt = b.pkt
    <2>1. Upto[a.pkt - 1] \in Nat
      <3>1. a.pkt - 1 \in 0 .. Len(Packets)
        BY <1>1
      <3> QED
        BY <3>1, UptoFacts
    <2> QED
      BY <1>1, <1>3, <2>1 DEF Place, Earlier
  <1> QED
    BY <1>1, <1>2, <1>3 DEF Earlier

\* The place of a word says which word of which packet it is.
LEMMA WordAtPlace ==
  ASSUME NEW m \in 0 .. Len(Packets), NEW w, Genuine(w), NEW i \in Nat \ {0},
         Place(w) = Upto[m] + i, m < Len(Packets) => i <= PacketLen(m + 1)
  PROVE  m + 1 \in DOMAIN Packets /\ w = Word(m + 1, i)
  <1>1. /\ w.pkt \in 1 .. Len(Packets) /\ Len(Packets) \in Nat /\ w.pos \in Nat
        /\ Place(w) \in Nat /\ Upto[w.pkt - 1] < Place(w) /\ Place(w) <= Upto[w.pkt]
    BY PlaceFacts, Numbered
  <1>2. Upto[m] \in Nat
    BY UptoFacts
  <1>3. ~(w.pkt <= m)
    <2> SUFFICES ASSUME w.pkt <= m PROVE FALSE
      OBVIOUS
    <2>1. w.pkt \in 0 .. Len(Packets)
      BY <1>1
    <2>2. Upto[w.pkt] <= Upto[m] /\ Upto[w.pkt] \in Nat
      BY <2>1, UptoFacts
    <2> QED
      BY <1>1, <1>2, <2>2
  <1>4. m + 1 \in 1 .. Len(Packets) /\ m < Len(Packets)
    BY <1>1, <1>3
  <1>5. Upto[m + 1] = Upto[m] + PacketLen(m + 1) /\ PacketLen(m + 1) \in Nat /\ Upto[m + 1] \in Nat
    <2>1. m + 1 \in DOMAIN Packets /\ (m + 1) - 1 = m /\ m + 1 \in 0 .. Len(Packets)
      BY <1>4, Numbered
    <2>2. Upto[m + 1] = Upto[(m + 1) - 1] + PacketLen(m + 1)
      BY <2>1, UptoFacts
    <2> QED
      BY <2>1, <2>2, UptoFacts, CallEndsFacts
  <1>6. ~(w.pkt > m + 1)
    <2> SUFFICES ASSUME w.pkt > m + 1 PROVE FALSE
      OBVIOUS
    <2>1. w.pkt - 1 \in 0 .. Len(Packets) /\ m + 1 \in 0 .. Len(Packets) /\ m + 1 <= w.pkt - 1
      BY <1>1, <1>4
    <2>2. Upto[m + 1] <= Upto[w.pkt - 1] /\ Upto[w.pkt - 1] \in Nat
      BY <2>1, UptoFacts
    <2> QED
      BY <1>1, <1>2, <1>4, <1>5, <2>2
  <1>7. w.pkt = m + 1
    BY <1>1, <1>3, <1>6
  <1>8. w.pos = i
    <2>1. Place(w) = Upto[(m + 1) - 1] + w.pos /\ (m + 1) - 1 = m
      BY <1>7 DEF Place
    <2> QED
      BY <1>1, <1>2, <2>1
  <1> QED
    BY <1>4, <1>7, <1>8, Numbered DEF Genuine

-----------------------------------------------------------------------------
(* The inductive invariant.                                                *)

Received == [op : Nat, data : Seq(Words)]

Types ==
    /\ pipe \in Seq(Words) /\ Len(pipe) <= Capacity
    /\ widle \in 0 .. SclTimeout /\ ridle \in 0 .. SclTimeout
    /\ rpc \in {"idle", "header", "payload"}
    /\ rbuf \in Seq(Words) /\ rneed \in Nat
    /\ opcode \in Nat /\ result \in {"none", "zero", "error", "bytes"}
    /\ received \in Seq(Received)
    /\ blocking \subseteq Sides /\ alive \subseteq Sides /\ cut \in BOOLEAN

\* The writer is in the middle of a call, or done with the packet.
Writing ==
    /\ wpkt \in 0 .. Len(Packets)
    /\ \/ wpkt = 0 /\ wcall = 0 /\ wpos = 0
       \/ wpkt # 0 /\ wcall = 0 /\ wpos = PacketLen(wpkt)
       \/ /\ wpkt # 0 /\ wcall \in 1 .. Calls(wpkt)
          /\ wpos \in CallEnds(wpkt)[wcall - 1] .. CallEnd

\* The reader has as many words as it asked for or asks for the others; only
\* scl_read_packet that has returned has a result.
Reading ==
    /\ rpc = "idle" => rbuf = <<>>
    /\ rpc = "header" => Len(rbuf) + rneed = 4
    /\ rpc # "idle" => result = "none"

\* Words that are written or given up.
Written == IF wpkt = 0 THEN 0 ELSE Upto[wpkt - 1] + wpos

\* Words the reader has taken, and words it can take.
Line == rbuf \o pipe

\* The words are words of the packets, and come in the order of their places.
InOrder ==
    /\ \A i \in DOMAIN Line : Genuine(Line[i]) /\ Place(Line[i]) <= Written
    /\ \A i, j \in DOMAIN Line : i < j => Place(Line[i]) < Place(Line[j])
    /\ \A n \in DOMAIN received : \A i \in DOMAIN received[n].data :
          /\ Genuine(received[n].data[i]) /\ Place(received[n].data[i]) <= Written
          /\ \A j \in DOMAIN Line : Place(received[n].data[i]) < Place(Line[j])
    /\ \A m, n \in DOMAIN received : \A i \in DOMAIN received[m].data, j \in DOMAIN received[n].data :
          m < n => Place(received[m].data[i]) < Place(received[n].data[j])

\* Until a transfer is cut no place is missing, from where the reader began to
\* where the writer is, and the reader began where a packet, or its data, does.
Whole ==
    /\ \A i \in DOMAIN Line : Place(Line[i]) = Written - Len(Line) + i
    /\ Len(received) <= Len(Packets)
    /\ \A n \in DOMAIN received : received[n] = Message(n)
    /\ Written - Len(Line) = Upto[Len(received)] + IF rpc = "payload" THEN 4 ELSE 0
    /\ rpc = "payload" =>
          /\ Len(received) < Len(Packets)
          /\ opcode = Packets[Len(received) + 1].op
          /\ Len(rbuf) + rneed = PayloadLen(Len(received) + 1)

IInv == Types /\ Writing /\ Reading /\ ZeroIsTheEnd /\ InOrder /\ (~cut => Whole)

-----------------------------------------------------------------------------
(* Facts the steps share.                                                  *)

LEMMA Joined ==
  ASSUME NEW S, NEW s \in Seq(S), NEW t \in Seq(S)
  PROVE  /\ s \o t \in Seq(S) /\ Len(s) \in Nat /\ Len(t) \in Nat /\ Len(s \o t) = Len(s) + Len(t)
         /\ DOMAIN (s \o t) = 1 .. Len(s) + Len(t)
         /\ \A i \in 1 .. Len(s) : (s \o t)[i] = s[i]
         /\ \A i \in 1 .. Len(t) : (s \o t)[Len(s) + i] = t[i]
  OBVIOUS

LEMMA JoinedThree ==
  ASSUME NEW S, NEW r \in Seq(S), NEW s \in Seq(S), NEW t \in Seq(S)
  PROVE  r \o (s \o t) = (r \o s) \o t
  OBVIOUS

LEMMA LineFacts ==
  ASSUME Types
  PROVE  /\ rbuf \in Seq(Words) /\ pipe \in Seq(Words) /\ Line \in Seq(Words)
         /\ Len(rbuf) \in Nat /\ Len(pipe) \in Nat /\ Len(Line) = Len(rbuf) + Len(pipe)
         /\ DOMAIN Line = 1 .. Len(Line) /\ DOMAIN rbuf = 1 .. Len(rbuf) /\ DOMAIN pipe = 1 .. Len(pipe)
         /\ \A i \in 1 .. Len(rbuf) : Line[i] = rbuf[i]
         /\ \A i \in 1 .. Len(pipe) : Line[Len(rbuf) + i] = pipe[i]
  <1>1. rbuf \in Seq(Words) /\ pipe \in Seq(Words)
    BY DEF Types
  <1>2. \A S : \A s, t \in Seq(S) :
          /\ s \o t \in Seq(S) /\ Len(s) \in Nat /\ Len(t) \in Nat /\ Len(s \o t) = Len(s) + Len(t)
          /\ DOMAIN (s \o t) = 1 .. Len(s \o t) /\ DOMAIN s = 1 .. Len(s) /\ DOMAIN t = 1 .. Len(t)
          /\ \A i \in 1 .. Len(s) : (s \o t)[i] = s[i]
          /\ \A i \in 1 .. Len(t) : (s \o t)[Len(s) + i] = t[i]
    OBVIOUS
  <1> QED
    BY <1>1, <1>2 DEF Line

LEMMA WriterFacts ==
  ASSUME Writing
  PROVE  /\ wpkt \in 0 .. Len(Packets) /\ Len(Packets) \in Nat /\ wpos \in Nat /\ wcall \in Nat
         /\ Written \in Nat
         /\ wpkt # 0 => /\ wpkt \in DOMAIN Packets /\ Written = Upto[wpkt - 1] + wpos
                        /\ Upto[wpkt - 1] \in Nat /\ wpos <= PacketLen(wpkt) /\ PacketLen(wpkt) \in Nat
                        /\ Upto[wpkt] = Upto[wpkt - 1] + PacketLen(wpkt)
         /\ wcall # 0 => /\ wpkt # 0 /\ CallEnd \in Nat /\ wpos <= CallEnd /\ CallEnd <= PacketLen(wpkt)
         /\ wcall = 0 => Written = Upto[wpkt]
  <1>1. wpkt \in 0 .. Len(Packets) /\ Len(Packets) \in Nat
    BY Numbered DEF Writing
  <1>2. CASE wpkt = 0
    <2>1. wcall = 0 /\ wpos = 0
      BY <1>2 DEF Writing
    <2> QED
      BY <1>1, <1>2, <2>1, UptoFacts DEF Written
  <1>3. CASE wpkt # 0
    <2>1. wpkt \in DOMAIN Packets /\ wpkt - 1 \in 0 .. Len(Packets)
      BY <1>1, <1>3, Numbered
    <2>2. Upto[wpkt - 1] \in Nat /\ PacketLen(wpkt) \in Nat /\ Upto[wpkt] = Upto[wpkt - 1] + PacketLen(wpkt)
      BY <2>1, UptoFacts, CallEndsFacts
    <2>3. CASE wcall = 0
      <3>1. wpos = PacketLen(wpkt)
        BY <1>3, <2>3 DEF Writing
      <3> QED
        BY <1>1, <1>3, <2>1, <2>2, <2>3, <3>1 DEF Written
    <2>4. CASE wcall # 0
      <3>1. wcall \in 1 .. Calls(wpkt) /\ wpos \in CallEnds(wpkt)[wcall - 1] .. CallEnd
        BY <1>3, <2>4 DEF Writing
      <3>2. /\ Calls(wpkt) \in Nat /\ wcall - 1 \in 0 .. Calls(wpkt) /\ wcall \in 0 .. Calls(wpkt)
            /\ Calls(wpkt) \in 0 .. Calls(wpkt) /\ wcall <= Calls(wpkt)
        BY <2>1, <3>1, PacketFacts
      <3>3. CallEnds(wpkt)[wcall - 1] \in Nat /\ CallEnd \in Nat /\ CallEnd <= PacketLen(wpkt)
        BY <2>1, <3>2, CallEndsFacts DEF CallEnd, PacketLen
      <3>4. wpos \in Nat /\ wpos <= CallEnd
        BY <3>1, <3>3
      <3> QED
        BY <1>1, <1>3, <2>1, <2>2, <2>4, <3>2, <3>3, <3>4 DEF Written
    <2> QED
      BY <2>3, <2>4
  <1> QED
    BY <1>2, <1>3

\* A call of scl_write returns, and the next begins where it ended.
LEMMA CallEnding ==
  ASSUME Writing, wcall # 0, wpkt' = wpkt, wpos' = CallEnd, wcall' = Following
  PROVE  Writing'
  <1>1. /\ wpkt \in DOMAIN Packets /\ wpkt # 0 /\ wcall \in 1 .. Calls(wpkt)
        /\ CallEnd = CallEnds(wpkt)[wcall] /\ Calls(wpkt) \in Nat
    BY WriterFacts, PacketFacts DEF Writing, CallEnd
  <1>2. CASE wcall < Calls(wpkt)
    <2>1. wcall' = wcall + 1 /\ wcall + 1 \in 1 .. Calls(wpkt) /\ (wcall + 1) - 1 = wcall
          /\ wcall \in 0 .. Calls(wpkt) /\ wcall + 1 \in 0 .. Calls(wpkt) /\ wcall <= wcall + 1
      BY <1>1, <1>2 DEF Following
    <2>2. /\ CallEnds(wpkt)[wcall] \in Nat /\ CallEnds(wpkt)[wcall + 1] \in Nat
          /\ CallEnds(wpkt)[wcall] <= CallEnds(wpkt)[wcall + 1]
      BY <1>1, <2>1, CallEndsFacts
    <2>3. CallEnd' = CallEnds(wpkt)[wcall + 1] /\ CallEnds(wpkt')[wcall' - 1] = CallEnds(wpkt)[wcall]
      BY <2>1 DEF CallEnd
    <2>4. wpos' \in CallEnds(wpkt')[wcall' - 1] .. CallEnd'
      BY <1>1, <2>2, <2>3
    <2> QED
      BY <1>1, <2>1, <2>4 DEF Writing
  <1>3. CASE wcall = Calls(wpkt)
    <2>1. wcall' = 0 /\ wpos' = PacketLen(wpkt)
      BY <1>1, <1>3 DEF Following, PacketLen
    <2> QED
      BY <1>1, <2>1 DEF Writing
  <1> QED
    BY <1>1, <1>2, <1>3

\* What the reader drops from the front leaves the rest in order.
LEMMA DropKeepsOrder ==
  ASSUME Types, Types', InOrder, Writing, Written' \in Nat, Written <= Written', received' = received,
         NEW k \in 0 .. Len(Line), Len(Line') = Len(Line) - k,
         \A i \in DOMAIN Line' : Line'[i] = Line[k + i]
  PROVE  InOrder'
  <1>1. Len(Line) \in Nat /\ DOMAIN Line = 1 .. Len(Line) /\ Line' \in Seq(Words)
        /\ DOMAIN Line' = 1 .. Len(Line')
    <2>1. (Types => Line \in Seq(Words) /\ DOMAIN Line = 1 .. Len(Line))'
      <3>1. rbuf' \in Seq(Words) /\ pipe' \in Seq(Words)
        BY DEF Types
      <3> QED
        BY <3>1 DEF Line
    <2>2. Line \in Seq(Words)
      BY LineFacts
    <2> QED
      BY <2>1, <2>2
  <1>2. \A i \in DOMAIN Line' : k + i \in DOMAIN Line
    BY <1>1
  <1>3. Written \in Nat /\ Written' \in Nat
    BY WriterFacts
  <1>4. \A w : Genuine(w) => Place(w) \in Nat
    BY PlaceFacts
  <1>5. \A i \in DOMAIN Line' : Genuine(Line'[i]) /\ Place(Line'[i]) <= Written'
    BY <1>2, <1>3, <1>4 DEF InOrder
  <1>6. \A i, j \in DOMAIN Line' : i < j => Place(Line'[i]) < Place(Line'[j])
    BY <1>1, <1>2 DEF InOrder
  <1>7. \A n \in DOMAIN received : \A i \in DOMAIN received[n].data :
          /\ Genuine(received[n].data[i]) /\ Place(received[n].data[i]) <= Written'
          /\ \A j \in DOMAIN Line' : Place(received[n].data[i]) < Place(Line'[j])
    BY <1>2, <1>3, <1>4 DEF InOrder
  <1> QED
    BY <1>5, <1>6, <1>7 DEF InOrder

\* A step that takes no word from the line and adds none.
LEMMA SameLine ==
  ASSUME Types, Types', InOrder, Writing, Written' \in Nat, Written <= Written', received' = received,
         Line' = Line
  PROVE  InOrder'
  <1>1. 0 \in 0 .. Len(Line) /\ Len(Line') = Len(Line) - 0 /\ \A i \in DOMAIN Line' : Line'[i] = Line[0 + i]
    <2>1. Len(Line) \in Nat /\ DOMAIN Line = 1 .. Len(Line)
      BY LineFacts
    <2> QED
      BY <2>1
  <1> QED
    BY <1>1, DropKeepsOrder

\* What changes neither the line nor the places changes nothing about it.
LEMMA SameWhole ==
  ASSUME Whole, Line' = Line, Written' = Written, received' = received, opcode' = opcode,
         (rpc' = "payload") = (rpc = "payload"),
         rpc = "payload" => Len(rbuf') + rneed' = Len(rbuf) + rneed
  PROVE  Whole'
  BY DEF Whole

-----------------------------------------------------------------------------
(* The writer's steps.                                                     *)

LEMMA WriteOutStep ==
  ASSUME IInv, WriteOut
  PROVE  IInv' /\ Written' = Written
  <1>1. /\ wcall = 0 /\ wpkt < Len(Packets) /\ wpkt' = wpkt + 1 /\ wcall' = 1 /\ wpos' = 0 /\ widle' = 0
        /\ UNCHANGED <<pipe, rpc, rbuf, rneed, ridle, opcode, result, received, blocking, alive, cut>>
    BY DEF WriteOut, reader
  <1>2. Types /\ Writing /\ Reading /\ ZeroIsTheEnd /\ InOrder /\ (~cut => Whole)
    BY DEF IInv
  <1>3. Types'
    BY <1>1, <1>2, StreamAssumption DEF Types, StreamAssumption
  <1>4. wpkt' \in DOMAIN Packets /\ wpkt' # 0 /\ wpkt' - 1 = wpkt /\ wpkt \in 0 .. Len(Packets)
    BY <1>1, <1>2, WriterFacts, Numbered
  <1>5. Writing'
    <2>1. Calls(wpkt') \in Nat /\ Calls(wpkt') >= 4
      BY <1>4, PacketFacts
    <2>2. CallEnds(wpkt')[0] = 0 /\ CallEnds(wpkt')[1] = 1
      BY <1>4, CallEndsFacts
    <2>3. wcall' \in 1 .. Calls(wpkt') /\ wpos' \in CallEnds(wpkt')[wcall' - 1] .. CallEnd'
      BY <1>1, <2>1, <2>2 DEF CallEnd
    <2>4. wpkt' \in 0 .. Len(Packets)
      BY <1>4, Numbered
    <2> QED
      BY <1>4, <2>3, <2>4 DEF Writing
  <1>6. Written' = Written /\ Written \in Nat
    <2>1. Written = Upto[wpkt] /\ Written \in Nat
      BY <1>1, <1>2, WriterFacts
    <2> QED
      BY <1>1, <1>4, <2>1 DEF Written
  <1>7. Line' = Line
    BY <1>1 DEF Line
  <1>8. InOrder'
    BY <1>1, <1>2, <1>3, <1>6, <1>7, SameLine
  <1>9. Reading' /\ ZeroIsTheEnd'
    BY <1>1, <1>2 DEF Reading, ZeroIsTheEnd
  <1>10. ~cut' => Whole'
    BY <1>1, <1>2, <1>6, <1>7, SameWhole
  <1> QED
    BY <1>3, <1>5, <1>6, <1>8, <1>9, <1>10 DEF IInv

\* Words written are the next in their places.
LEMMA PutStep ==
  ASSUME IInv, NEW k \in 0 .. Capacity, Put(k)
  PROVE  IInv'
  <1> DEFINE new == WordsOf(wpkt, wpos, k)
  <1>1. /\ "writer" \in alive /\ wcall # 0 /\ wpos + k <= CallEnd /\ Len(pipe) + k <= Capacity
        /\ pipe' = pipe \o new /\ wpos' = wpos + k /\ widle' = 0
        /\ wcall' = IF wpos + k = CallEnd THEN Following ELSE wcall
        /\ UNCHANGED <<wpkt, rpc, rbuf, rneed, ridle, opcode, result, received, blocking, alive, cut>>
    BY DEF Put, reader
  <1>2. Types /\ Writing /\ Reading /\ ZeroIsTheEnd /\ InOrder /\ (~cut => Whole)
    BY DEF IInv
  <1>3. /\ wpkt \in DOMAIN Packets /\ wpkt # 0 /\ wpos \in Nat /\ CallEnd \in Nat
        /\ CallEnd <= PacketLen(wpkt) /\ PacketLen(wpkt) \in Nat /\ Written \in Nat
        /\ Written = Upto[wpkt - 1] + wpos /\ Upto[wpkt - 1] \in Nat /\ k \in Nat /\ Capacity \in Nat
    BY <1>1, <1>2, WriterFacts, StreamAssumption DEF StreamAssumption
  <1>4. new \in Seq(Words) /\ Len(new) = k
        /\ \A i \in 1 .. k : new[i] = Word(wpkt, wpos + i) /\ Genuine(new[i]) /\ Place(new[i]) = Written + i
    <2>1. \A i \in 1 .. k : wpos + i \in 1 .. PacketLen(wpkt)
      BY <1>1, <1>3
    <2>2. \A i \in 1 .. k : Word(wpkt, wpos + i) \in Words
      BY <1>3, <2>1, WordFacts
    <2>3. new = [i \in 1 .. k |-> Word(wpkt, wpos + i)]
      BY DEF WordsOf
    <2>4. new \in Seq(Words) /\ Len(new) = k
      BY <1>3, <2>2, <2>3
    <2>5. ASSUME NEW i \in 1 .. k
          PROVE  new[i] = Word(wpkt, wpos + i) /\ Genuine(new[i]) /\ Place(new[i]) = Written + i
      <3>1. new[i] = Word(wpkt, wpos + i)
        BY <2>3
      <3>2. Genuine(Word(wpkt, wpos + i)) /\ Place(Word(wpkt, wpos + i)) = Upto[wpkt - 1] + (wpos + i)
        BY <1>3, <2>1, WordFacts
      <3> QED
        BY <1>3, <3>1, <3>2
    <2> QED
      BY <2>4, <2>5
  <1> HIDE DEF new
  <1>5. /\ rbuf \in Seq(Words) /\ pipe \in Seq(Words) /\ Line \in Seq(Words) /\ Len(Line) \in Nat
        /\ Len(pipe) \in Nat
        /\ DOMAIN Line = 1 .. Len(Line)
    BY <1>2, LineFacts
  <1>6. /\ pipe' \in Seq(Words) /\ Len(pipe') = Len(pipe) + k /\ Line' = Line \o new
        /\ Len(Line') = Len(Line) + k /\ DOMAIN Line' = 1 .. Len(Line) + k
        /\ \A i \in 1 .. Len(Line) : Line'[i] = Line[i]
        /\ \A i \in 1 .. k : Line'[Len(Line) + i] = new[i]
    <2>1. pipe \o new \in Seq(Words) /\ Len(pipe \o new) = Len(pipe) + Len(new)
      <3>1. pipe \in Seq(Words) /\ new \in Seq(Words)
        BY <1>4, <1>5
      <3> QED
        BY <3>1, Joined, Zenon
    <2>2. rbuf \o (pipe \o new) = (rbuf \o pipe) \o new
      BY <1>4, <1>5, JoinedThree
    <2>3. Line' = Line \o new
      BY <1>1, <2>2 DEF Line
    <2>4. /\ Len(Line \o new) = Len(Line) + Len(new) /\ DOMAIN (Line \o new) = 1 .. Len(Line) + Len(new)
          /\ \A i \in 1 .. Len(Line) : (Line \o new)[i] = Line[i]
          /\ \A i \in 1 .. Len(new) : (Line \o new)[Len(Line) + i] = new[i]
      <3>1. Line \in Seq(Words) /\ new \in Seq(Words)
        BY <1>4, <1>5
      <3>2. \A s, t \in Seq(Words) :
              /\ Len(s \o t) = Len(s) + Len(t) /\ DOMAIN (s \o t) = 1 .. Len(s) + Len(t)
              /\ \A i \in 1 .. Len(s) : (s \o t)[i] = s[i]
              /\ \A i \in 1 .. Len(t) : (s \o t)[Len(s) + i] = t[i]
        BY Joined
      <3> QED
        BY <3>1, <3>2, Zenon
    <2> QED
      BY <1>1, <1>4, <2>1, <2>3, <2>4
  <1>7. Types'
    <2>1. pipe' \in Seq(Words) /\ Len(pipe') <= Capacity
      BY <1>1, <1>6
    <2>2. widle' \in 0 .. SclTimeout
      BY <1>1, StreamAssumption DEF StreamAssumption
    <2> QED
      BY <1>1, <1>2, <2>1, <2>2 DEF Types
  <1>8. Writing'
    <2>1. CASE wpos + k = CallEnd
      BY <1>1, <1>2, <2>1, CallEnding
    <2>2. CASE wpos + k # CallEnd
      <3>1. wcall' = wcall /\ CallEnd' = CallEnd /\ wcall \in 1 .. Calls(wpkt)
            /\ wpos \in CallEnds(wpkt)[wcall - 1] .. CallEnd
        BY <1>1, <1>2, <1>3, <2>2 DEF Writing, CallEnd
      <3>2. CallEnds(wpkt)[wcall - 1] \in Nat
        <4>1. wcall - 1 \in 0 .. Calls(wpkt)
          BY <1>3, <3>1, PacketFacts
        <4> QED
          BY <1>3, <4>1, CallEndsFacts
      <3>3. wpos + k \in CallEnds(wpkt)[wcall - 1] .. CallEnd
        BY <1>1, <1>3, <3>1, <3>2
      <3> QED
        BY <1>1, <1>2, <3>1, <3>3 DEF Writing
    <2> QED
      BY <2>1, <2>2
  <1>9. Written' = Written + k
    BY <1>1, <1>3 DEF Written
  <1>10. InOrder'
    <2>1. \A w : Genuine(w) => Place(w) \in Nat
      BY PlaceFacts
    <2>2. \A i \in DOMAIN Line' : i \in DOMAIN Line \/ (i - Len(Line) \in 1 .. k /\ i = Len(Line) + (i - Len(Line)))
      BY <1>3, <1>5, <1>6
    <2>3. \A i \in DOMAIN Line :
             Line'[i] = Line[i] /\ Genuine(Line[i]) /\ Place(Line[i]) <= Written /\ Place(Line[i]) \in Nat
      BY <1>2, <1>5, <1>6, <2>1 DEF InOrder
    <2>4. ASSUME NEW i \in DOMAIN Line', i \notin DOMAIN Line
          PROVE  /\ Genuine(Line'[i]) /\ Place(Line'[i]) = Written + (i - Len(Line))
                 /\ i \in Nat /\ i > Len(Line) /\ i <= Len(Line) + k
      <3>1. i - Len(Line) \in 1 .. k /\ i = Len(Line) + (i - Len(Line)) /\ i \in Nat
        BY <1>6, <2>2, <2>4
      <3>2. Line'[Len(Line) + (i - Len(Line))] = new[i - Len(Line)]
        BY <1>6, <3>1
      <3> QED
        BY <1>3, <1>4, <1>5, <3>1, <3>2
    <2>5. ASSUME NEW i \in DOMAIN Line' PROVE Genuine(Line'[i]) /\ Place(Line'[i]) <= Written'
      <3>1. CASE i \in DOMAIN Line
        BY <1>3, <1>9, <2>3, <3>1
      <3>2. CASE i \notin DOMAIN Line
        BY <1>3, <1>5, <1>9, <2>4, <3>2
      <3> QED
        BY <3>1, <3>2
    <2>6. ASSUME NEW i \in DOMAIN Line', NEW j \in DOMAIN Line', i < j
          PROVE  Place(Line'[i]) < Place(Line'[j])
      <3>1. CASE j \in DOMAIN Line
        <4>1. i \in DOMAIN Line
          BY <1>3, <1>5, <1>6, <2>6, <3>1
        <4> QED
          BY <1>2, <2>3, <2>6, <3>1, <4>1 DEF InOrder
      <3>2. CASE j \notin DOMAIN Line /\ i \in DOMAIN Line
        BY <1>3, <1>5, <2>3, <2>4, <3>2
      <3>3. CASE j \notin DOMAIN Line /\ i \notin DOMAIN Line
        BY <1>3, <1>5, <2>4, <2>6, <3>3
      <3> QED
        BY <3>1, <3>2, <3>3
    <2>7. \A n \in DOMAIN received : \A i \in DOMAIN received[n].data :
            /\ Genuine(received[n].data[i]) /\ Place(received[n].data[i]) <= Written'
            /\ \A j \in DOMAIN Line' : Place(received[n].data[i]) < Place(Line'[j])
      <3> TAKE n \in DOMAIN received
      <3> TAKE i \in DOMAIN received[n].data
      <3>1. Genuine(received[n].data[i]) /\ Place(received[n].data[i]) <= Written
            /\ Place(received[n].data[i]) \in Nat
            /\ \A j \in DOMAIN Line : Place(received[n].data[i]) < Place(Line[j])
        BY <1>2, <2>1 DEF InOrder
      <3>2. Place(received[n].data[i]) <= Written'
        BY <1>3, <1>9, <3>1
      <3>3. ASSUME NEW j \in DOMAIN Line' PROVE Place(received[n].data[i]) < Place(Line'[j])
        <4>1. CASE j \in DOMAIN Line
          BY <2>3, <3>1, <4>1
        <4>2. CASE j \notin DOMAIN Line
          BY <1>3, <1>5, <2>4, <3>1, <4>2
        <4> QED
          BY <4>1, <4>2
      <3> QED
        BY <3>1, <3>2, <3>3
    <2> QED
      BY <1>1, <1>2, <2>5, <2>6, <2>7 DEF InOrder
  <1>11. Reading'
    BY <1>1, <1>2 DEF Reading
  <1>12. ZeroIsTheEnd'
    BY <1>1, <1>2 DEF ZeroIsTheEnd
  <1>13. ASSUME ~cut' PROVE Whole'
    <2>1. Whole
      BY <1>1, <1>2, <1>13
    <2>2. Written' - Len(Line') = Written - Len(Line)
      <3>1. Len(Line') = Len(Line) + k /\ Written' = Written + k
        BY <1>6, <1>9
      <3>2. \A w, l \in Nat : (w + k) - (l + k) = w - l
        BY <1>3
      <3> QED
        BY <1>3, <1>5, <3>1, <3>2
    <2>3. ASSUME NEW i \in DOMAIN Line' PROVE Place(Line'[i]) = Written' - Len(Line') + i
      <3>1. CASE i \in DOMAIN Line
        <4>1. Place(Line[i]) = Written - Len(Line) + i /\ Line'[i] = Line[i]
          BY <1>5, <1>6, <2>1, <3>1 DEF Whole
        <4> QED
          BY <2>2, <4>1
      <3>2. CASE i \notin DOMAIN Line
        <4>1. i - Len(Line) \in 1 .. k /\ i = Len(Line) + (i - Len(Line)) /\ i \in Nat
          BY <1>3, <1>5, <1>6, <3>2
        <4>2. Line'[Len(Line) + (i - Len(Line))] = new[i - Len(Line)]
          BY <1>6, <4>1
        <4>3. Place(Line'[i]) = Written + (i - Len(Line))
          BY <1>4, <4>1, <4>2
        <4> QED
          BY <1>3, <1>5, <2>2, <4>1, <4>3
      <3> QED
        BY <3>1, <3>2
    <2> QED
      BY <1>1, <2>1, <2>2, <2>3 DEF Whole
  <1> QED
    BY <1>7, <1>8, <1>10, <1>11, <1>12, <1>13 DEF IInv

LEMMA WriteFailsStep ==
  ASSUME IInv, WriteFails \/ WriteError
  PROVE  IInv'
  <1>1. /\ wcall # 0 /\ wpos < CallEnd /\ wpos' = CallEnd /\ wcall' = Following /\ widle' = 0 /\ cut' = TRUE
        /\ UNCHANGED <<pipe, wpkt, rpc, rbuf, rneed, ridle, opcode, result, received, blocking, alive>>
    BY DEF WriteFails, WriteError, GiveUp, reader
  <1>2. Types /\ Writing /\ Reading /\ ZeroIsTheEnd /\ InOrder
    BY DEF IInv
  <1>3. Types'
    BY <1>1, <1>2, StreamAssumption DEF Types, StreamAssumption
  <1>4. Writing'
    BY <1>1, <1>2, CallEnding
  <1>5. Written \in Nat /\ Written' \in Nat /\ Written <= Written'
    <2>1. /\ wpkt # 0 /\ wpos \in Nat /\ CallEnd \in Nat /\ Written = Upto[wpkt - 1] + wpos
          /\ Upto[wpkt - 1] \in Nat
      BY <1>1, <1>2, WriterFacts
    <2>2. Written' = Upto[wpkt - 1] + CallEnd
      BY <1>1, <2>1 DEF Written
    <2> QED
      BY <1>1, <2>1, <2>2
  <1>6. Line' = Line
    BY <1>1 DEF Line
  <1>7. InOrder'
    BY <1>1, <1>2, <1>3, <1>5, <1>6, SameLine
  <1>8. Reading' /\ ZeroIsTheEnd'
    BY <1>1, <1>2 DEF Reading, ZeroIsTheEnd
  <1> QED
    BY <1>1, <1>3, <1>4, <1>7, <1>8 DEF IInv

-----------------------------------------------------------------------------
(* The reader's steps.                                                     *)

LEMMA ReadPacketStep ==
  ASSUME IInv, ReadPacket
  PROVE  IInv' /\ Line' = Line
  <1>1. /\ rpc = "idle" /\ rpc' = "header" /\ result' = "none"
        /\ rbuf' = <<>> /\ rneed' = 4 /\ ridle' = 0
        /\ UNCHANGED <<pipe, wpkt, wcall, wpos, widle, opcode, received, blocking, alive, cut>>
    BY DEF ReadPacket, scl_read, writer
  <1>2. Types /\ Writing /\ Reading /\ ZeroIsTheEnd /\ InOrder /\ (~cut => Whole)
    BY DEF IInv
  <1>3. rbuf = <<>> /\ rbuf' = <<>> /\ rbuf' \in Seq(Words)
    <2>1. rbuf = <<>>
      BY <1>1, <1>2 DEF Reading
    <2> QED
      BY <1>1, <1>2, <2>1 DEF Types
  <1>4. Types'
    BY <1>1, <1>2, <1>3, StreamAssumption DEF Types, StreamAssumption
  <1>5. Writing' /\ Written' = Written /\ Written \in Nat
    BY <1>1, <1>2, WriterFacts DEF Writing, CallEnd, Written
  <1>6. Line' = Line
    BY <1>1, <1>3 DEF Line
  <1>7. InOrder'
    BY <1>1, <1>2, <1>4, <1>5, <1>6, SameLine
  <1>8. Reading' /\ ZeroIsTheEnd'
    BY <1>1 DEF Reading, ZeroIsTheEnd
  <1>9. ~cut' => Whole'
    BY <1>1, <1>2, <1>5, <1>6, SameWhole
  <1> QED
    BY <1>4, <1>5, <1>6, <1>7, <1>8, <1>9 DEF IInv

\* Words moved from the front of one sequence to the end of another.
LEMMA Moved ==
  ASSUME NEW S, NEW s \in Seq(S), NEW t \in Seq(S), NEW k \in 1 .. Len(t)
  PROVE  /\ s \o SubSeq(t, 1, k) \in Seq(S) /\ SubSeq(t, k + 1, Len(t)) \in Seq(S)
         /\ Len(s \o SubSeq(t, 1, k)) = Len(s) + k
         /\ Len(SubSeq(t, k + 1, Len(t))) = Len(t) - k
         /\ (s \o SubSeq(t, 1, k)) \o SubSeq(t, k + 1, Len(t)) = s \o t
  <1> DEFINE a == SubSeq(t, 1, k)
             b == SubSeq(t, k + 1, Len(t))
  <1>1. a \in Seq(S) /\ b \in Seq(S) /\ Len(a) = k /\ Len(b) = Len(t) - k
    OBVIOUS
  <1>2. a \o b = t
    OBVIOUS
  <1> HIDE DEF a, b
  <1>3. s \o (a \o b) = (s \o a) \o b
    BY <1>1, JoinedThree
  <1>4. s \o a \in Seq(S) /\ Len(s \o a) = Len(s) + Len(a)
    BY <1>1, Joined
  <1> QED
    BY <1>1, <1>2, <1>3, <1>4 DEF a, b

LEMMA TakeStep ==
  ASSUME IInv, NEW k \in 1 .. Capacity, Take(k)
  PROVE  IInv' /\ Line' = Line
  <1>1. /\ rpc # "idle" /\ rneed > 0 /\ k \in 1 .. Least(Len(pipe), rneed)
        /\ rbuf' = rbuf \o SubSeq(pipe, 1, k) /\ pipe' = SubSeq(pipe, k + 1, Len(pipe))
        /\ rneed' = rneed - k /\ ridle' = 0
        /\ UNCHANGED <<wpkt, wcall, wpos, widle, rpc, opcode, result, received, blocking, alive, cut>>
    BY DEF Take, writer
  <1>2. Types /\ Writing /\ Reading /\ ZeroIsTheEnd /\ InOrder /\ (~cut => Whole)
    BY DEF IInv
  <1>3. rbuf \in Seq(Words) /\ pipe \in Seq(Words) /\ Len(pipe) \in Nat /\ Len(rbuf) \in Nat /\ rneed \in Nat
    BY <1>2, LineFacts DEF Types
  <1>4. k \in 1 .. Len(pipe) /\ k <= rneed /\ k \in Nat
    BY <1>1, <1>3 DEF Least
  <1>5. /\ rbuf' \in Seq(Words) /\ pipe' \in Seq(Words) /\ Len(rbuf') = Len(rbuf) + k
        /\ Len(pipe') = Len(pipe) - k /\ Line' = Line
    <2>1. /\ rbuf \o SubSeq(pipe, 1, k) \in Seq(Words) /\ SubSeq(pipe, k + 1, Len(pipe)) \in Seq(Words)
          /\ Len(rbuf \o SubSeq(pipe, 1, k)) = Len(rbuf) + k
          /\ Len(SubSeq(pipe, k + 1, Len(pipe))) = Len(pipe) - k
          /\ (rbuf \o SubSeq(pipe, 1, k)) \o SubSeq(pipe, k + 1, Len(pipe)) = rbuf \o pipe
      <3>1. \A s, t \in Seq(Words) : \A m \in 1 .. Len(t) :
              /\ s \o SubSeq(t, 1, m) \in Seq(Words) /\ SubSeq(t, m + 1, Len(t)) \in Seq(Words)
              /\ Len(s \o SubSeq(t, 1, m)) = Len(s) + m
              /\ Len(SubSeq(t, m + 1, Len(t))) = Len(t) - m
              /\ (s \o SubSeq(t, 1, m)) \o SubSeq(t, m + 1, Len(t)) = s \o t
        BY Moved
      <3>2. rbuf \in Seq(Words) /\ pipe \in Seq(Words) /\ k \in 1 .. Len(pipe)
        BY <1>3, <1>4
      <3> QED
        BY <3>1, <3>2, Zenon
    <2> QED
      BY <1>1, <2>1 DEF Line
  <1>6. Types'
    <2>1. Len(pipe') <= Capacity /\ rneed' \in Nat
      BY <1>1, <1>2, <1>3, <1>4, <1>5, StreamAssumption DEF Types, StreamAssumption
    <2> QED
      BY <1>1, <1>2, <1>5, <2>1, StreamAssumption DEF Types, StreamAssumption
  <1>7. Writing' /\ Written' = Written /\ Written \in Nat
    BY <1>1, <1>2, WriterFacts DEF Writing, CallEnd, Written
  <1>8. InOrder'
    BY <1>1, <1>2, <1>5, <1>6, <1>7, SameLine
  <1>9. Len(rbuf') + rneed' = Len(rbuf) + rneed
    BY <1>1, <1>3, <1>4, <1>5
  <1>10. Reading' /\ ZeroIsTheEnd'
    BY <1>1, <1>2, <1>9 DEF Reading, ZeroIsTheEnd
  <1>11. ~cut' => Whole'
    BY <1>1, <1>2, <1>5, <1>7, <1>9, SameWhole
  <1> QED
    BY <1>5, <1>6, <1>7, <1>8, <1>10, <1>11 DEF IInv

\* The words a read gave go to scl_read_packet and leave the line.
LEMMA LineDropped ==
  ASSUME Types, rbuf' = <<>>, pipe' = pipe
  PROVE  /\ Line' = pipe /\ Len(rbuf) \in 0 .. Len(Line) /\ Len(Line) \in Nat /\ Len(Line') = Len(Line) - Len(rbuf)
         /\ DOMAIN Line' = 1 .. Len(Line')
         /\ \A i \in DOMAIN Line' : Line'[i] = Line[Len(rbuf) + i] /\ Len(rbuf) + i \in DOMAIN Line
  <1>1. /\ pipe \in Seq(Words) /\ Len(rbuf) \in Nat /\ Len(pipe) \in Nat /\ Len(Line) = Len(rbuf) + Len(pipe)
        /\ DOMAIN pipe = 1 .. Len(pipe) /\ DOMAIN Line = 1 .. Len(Line)
        /\ \A i \in 1 .. Len(pipe) : Line[Len(rbuf) + i] = pipe[i]
    BY LineFacts
  <1>2. Line' = pipe
    <2>1. \A S : \A s \in Seq(S) : <<>> \o s = s
      OBVIOUS
    <2>2. <<>> \o pipe = pipe
      BY <1>1, <2>1
    <2> QED
      BY <2>2 DEF Line
  <1> QED
    BY <1>1, <1>2

\* The header is the first four words of the packet that comes next.
LEMMA HeaderReadStep ==
  ASSUME IInv, HeaderRead
  PROVE  IInv'
  <1>1. /\ rpc = "header" /\ rneed = 0 /\ opcode' = rbuf[1].v /\ rpc' = "payload"
        /\ rbuf' = <<>> /\ rneed' = rbuf[4].v /\ ridle' = 0
        /\ UNCHANGED <<pipe, wpkt, wcall, wpos, widle, result, received, blocking, alive, cut>>
    BY DEF HeaderRead, scl_read, writer
  <1>2. Types /\ Writing /\ Reading /\ ZeroIsTheEnd /\ InOrder /\ (~cut => Whole)
    BY DEF IInv
  <1>3. rbuf \in Seq(Words) /\ Len(rbuf) = 4 /\ DOMAIN rbuf = 1 .. Len(rbuf)
    BY <1>1, <1>2, LineFacts DEF Reading
  <1>4. rbuf[1] \in Words /\ rbuf[4] \in Words
    <2>1. \A S : \A s \in Seq(S) : \A i \in 1 .. Len(s) : s[i] \in S
      OBVIOUS
    <2>2. 1 \in 1 .. Len(rbuf) /\ 4 \in 1 .. Len(rbuf)
      BY <1>3
    <2> QED
      BY <1>3, <2>1, <2>2, Zenon
  <1>5. opcode' \in Nat /\ rneed' \in Nat
    BY <1>1, <1>4 DEF Words
  <1>6. Types'
    <2>1. rbuf' \in Seq(Words)
      BY <1>1
    <2> QED
      BY <1>1, <1>2, <1>5, <2>1, StreamAssumption DEF Types, StreamAssumption
  <1>7. Writing' /\ Written' = Written /\ Written \in Nat
    BY <1>1, <1>2, WriterFacts DEF Writing, CallEnd, Written
  <1>8. /\ Len(Line) \in Nat /\ DOMAIN Line = 1 .. Len(Line) /\ 4 <= Len(Line)
        /\ Len(Line') = Len(Line) - 4 /\ DOMAIN Line' = 1 .. Len(Line')
        /\ \A i \in DOMAIN Line' : Line'[i] = Line[4 + i] /\ 4 + i \in DOMAIN Line
        /\ Line[1] = rbuf[1] /\ Line[4] = rbuf[4]
    BY <1>1, <1>2, <1>3, LineFacts, LineDropped
  <1>9. InOrder'
    BY <1>1, <1>2, <1>6, <1>7, <1>8, DropKeepsOrder
  <1>10. Reading' /\ ZeroIsTheEnd'
    <2>1. result' = "none"
      BY <1>1, <1>2 DEF Reading
    <2> QED
      BY <1>1, <2>1 DEF Reading, ZeroIsTheEnd
  <1>11. ASSUME ~cut' PROVE Whole'
    <2> DEFINE r == Len(received)
    <2>1. Whole
      BY <1>1, <1>2, <1>11
    <2>2. r \in 0 .. Len(Packets) /\ Upto[r] \in Nat /\ Len(Packets) \in Nat
      <3>1. r \in Nat
        BY <1>2 DEF Types
      <3>2. r \in 0 .. Len(Packets)
        BY <2>1, <3>1, Numbered DEF Whole
      <3> QED
        BY <3>2, UptoFacts, Numbered
    <2>3. Written - Len(Line) = Upto[r]
      BY <1>1, <2>1, <2>2 DEF Whole
    <2>4. Place(Line[1]) = Upto[r] + 1 /\ Place(Line[4]) = Upto[r] + 4 /\ Genuine(Line[1]) /\ Genuine(Line[4])
      BY <1>2, <1>8, <2>1, <2>3 DEF Whole, InOrder
    <2>5. r < Len(Packets) => 4 <= PacketLen(r + 1) /\ 1 <= PacketLen(r + 1) /\ r + 1 \in DOMAIN Packets
      <3>1. r < Len(Packets) => r + 1 \in DOMAIN Packets
        BY <2>2, Numbered
      <3>2. \A n \in DOMAIN Packets : 4 <= PacketLen(n) /\ 1 <= PacketLen(n)
        <4>1. ASSUME NEW n \in DOMAIN Packets PROVE 4 <= PacketLen(n) /\ 1 <= PacketLen(n)
          <5>1. PacketLen(n) \in Nat /\ PacketLen(n) >= 4
            BY CallEndsFacts
          <5> QED
            BY <5>1
        <4> QED
          BY <4>1, Zenon
      <3> HIDE DEF r
      <3> QED
        BY <3>1, <3>2
    <2> HIDE DEF r
    <2>6. r + 1 \in DOMAIN Packets /\ Line[1] = Word(r + 1, 1)
      BY <2>2, <2>4, <2>5, WordAtPlace
    <2>7. Line[4] = Word(r + 1, 4)
      BY <2>2, <2>4, <2>5, WordAtPlace
    <2>8. PacketLen(r + 1) \in Nat /\ PacketLen(r + 1) >= 4 /\ r < Len(Packets)
      BY <2>2, <2>6, CallEndsFacts, Numbered
    <2>9. opcode' = Packets[r + 1].op /\ rneed' = PayloadLen(r + 1)
      BY <1>1, <1>8, <2>6, <2>7, <2>8, WordFacts
    <2>10. Written - Len(Line') = Upto[r] + 4
      BY <1>7, <1>8, <2>2, <2>3
    <2>11. \A i \in DOMAIN Line' : Place(Line'[i]) = Written - Len(Line') + i
      <3> TAKE i \in DOMAIN Line'
      <3>1. Line'[i] = Line[4 + i] /\ Place(Line[4 + i]) = Written - Len(Line) + (4 + i) /\ i \in Nat
        BY <1>8, <2>1 DEF Whole
      <3> QED
        BY <1>7, <1>8, <3>1
    <2>12. received' = received /\ Written' = Written
      BY <1>1, <1>7
    <2>13. Len(rbuf') + rneed' = PayloadLen(r + 1)
      BY <1>1, <1>5, <2>9
    <2> QED
      BY <1>1, <2>1, <2>8, <2>9, <2>10, <2>11, <2>12, <2>13 DEF Whole, r
  <1> QED
    BY <1>6, <1>7, <1>9, <1>10, <1>11 DEF IInv

LEMMA Appended ==
  ASSUME NEW S, NEW s \in Seq(S), NEW e \in S
  PROVE  /\ Append(s, e) \in Seq(S) /\ Len(s) \in Nat /\ Len(Append(s, e)) = Len(s) + 1
         /\ DOMAIN s = 1 .. Len(s) /\ DOMAIN Append(s, e) = 1 .. Len(s) + 1
         /\ \A n \in DOMAIN s : Append(s, e)[n] = s[n]
         /\ Append(s, e)[Len(s) + 1] = e
  OBVIOUS

\* The payload of a packet that was not cut is the one that was sent.
LEMMA PayloadWords ==
  ASSUME Types, Writing, InOrder, Whole, rpc = "payload", rneed = 0
  PROVE  /\ Len(received) + 1 \in DOMAIN Packets
         /\ [op |-> opcode, data |-> rbuf] = Message(Len(received) + 1)
         /\ Written - Len(Line) + Len(rbuf) = Upto[Len(received) + 1]
  <1> DEFINE r == Len(received)
  <1>1. /\ r \in Nat /\ r < Len(Packets) /\ Len(Packets) \in Nat
        /\ opcode = Packets[r + 1].op /\ Len(rbuf) + rneed = PayloadLen(r + 1)
        /\ Written - Len(Line) = Upto[r] + 4
        /\ \A i \in DOMAIN Line : Place(Line[i]) = Written - Len(Line) + i
    BY Numbered DEF Types, Whole
  <1>2. /\ rbuf \in Seq(Words) /\ Len(rbuf) \in Nat /\ Len(pipe) \in Nat /\ Len(Line) = Len(rbuf) + Len(pipe)
        /\ DOMAIN Line = 1 .. Len(Line) /\ DOMAIN rbuf = 1 .. Len(rbuf)
        /\ \A i \in 1 .. Len(rbuf) : Line[i] = rbuf[i]
    BY LineFacts
  <1>3. r + 1 \in DOMAIN Packets /\ r \in 0 .. Len(Packets) /\ r + 1 \in 0 .. Len(Packets) /\ (r + 1) - 1 = r
    <2> HIDE DEF r
    <2> QED
      BY <1>1, Numbered
  <1>4. /\ PacketLen(r + 1) \in Nat /\ PacketLen(r + 1) >= 4 /\ PayloadLen(r + 1) = PacketLen(r + 1) - 4
        /\ Upto[r] \in Nat /\ Upto[r + 1] = Upto[r] + PacketLen(r + 1)
    <2> HIDE DEF r
    <2>1. PacketLen(r + 1) \in Nat /\ PacketLen(r + 1) >= 4
      BY <1>3, CallEndsFacts
    <2>2. Upto[r + 1] = Upto[(r + 1) - 1] + PacketLen(r + 1) /\ Upto[r] \in Nat
      BY <1>3, UptoFacts
    <2> QED
      BY <1>3, <2>1, <2>2 DEF PayloadLen
  <1>5. Len(rbuf) = PayloadLen(r + 1)
    <2> HIDE DEF r
    <2> QED
      BY <1>1, <1>2
  <1>6. ASSUME NEW i \in 1 .. Len(rbuf) PROVE rbuf[i] = Word(r + 1, 4 + i)
    <2> HIDE DEF r
    <2>1. i \in DOMAIN Line /\ Line[i] = rbuf[i] /\ 4 + i \in Nat \ {0} /\ 4 + i <= PacketLen(r + 1)
      BY <1>2, <1>4, <1>5
    <2>2. Genuine(Line[i]) /\ Place(Line[i]) = Upto[r] + (4 + i)
      <3>1. Genuine(Line[i])
        BY <2>1, Zenon DEF InOrder
      <3>2. Place(Line[i]) = Written - Len(Line) + i
        BY <1>1, <2>1, Zenon
      <3>3. Place(Line[i]) = (Upto[r] + 4) + i
        BY <1>1, <3>2, Zenon
      <3>4. (Upto[r] + 4) + i = Upto[r] + (4 + i)
        <4>1. \A m, n \in Nat : (m + 4) + n = m + (4 + n)
          OBVIOUS
        <4>2. Upto[r] \in Nat /\ i \in Nat
          BY <1>2, <1>4
        <4> QED
          BY <4>1, <4>2, Zenon
      <3> QED
        BY <3>1, <3>3, <3>4, Zenon
    <2>3. Line[i] = Word(r + 1, 4 + i)
      BY <1>3, <2>1, <2>2, WordAtPlace
    <2> QED
      BY <2>1, <2>3
  <1>7. rbuf = Payload(r + 1)
    <2> HIDE DEF r
    <2>1. \A S : \A s \in Seq(S) : s = [i \in 1 .. Len(s) |-> s[i]]
      OBVIOUS
    <2>2. rbuf = [i \in 1 .. Len(rbuf) |-> rbuf[i]]
      BY <1>2, <2>1, Zenon
    <2>3. rbuf = [i \in 1 .. Len(rbuf) |-> Word(r + 1, 4 + i)]
      BY <1>6, <2>2, Zenon
    <2> QED
      BY <1>5, <2>3, Zenon DEF Payload, WordsOf
  <1>8. [op |-> opcode, data |-> rbuf] = Message(r + 1)
    BY <1>1, <1>7 DEF Message
  <1>9. Written - Len(Line) + Len(rbuf) = Upto[r + 1]
    <2> HIDE DEF r
    <2> QED
      BY <1>1, <1>2, <1>4, <1>5
  <1> QED
    BY <1>3, <1>8, <1>9

LEMMA PayloadReadStep ==
  ASSUME IInv, PayloadRead
  PROVE  IInv'
  <1> DEFINE p == [op |-> opcode, data |-> rbuf]
  <1>1. /\ rpc = "payload" /\ rneed = 0 /\ rpc' = "idle"
        /\ result' = IF rbuf = <<>> THEN "zero" ELSE "bytes"
        /\ received' = Append(received, p) /\ rbuf' = <<>>
        /\ UNCHANGED <<pipe, wpkt, wcall, wpos, widle, rneed, ridle, opcode, blocking, alive, cut>>
    BY DEF PayloadRead, writer
  <1>2. Types /\ Writing /\ Reading /\ ZeroIsTheEnd /\ InOrder /\ (~cut => Whole)
    BY DEF IInv
  <1>3. p \in Received /\ received \in Seq(Received) /\ p.data = rbuf
    BY <1>2 DEF Types, Received
  <1> HIDE DEF p
  <1>4. /\ received' \in Seq(Received) /\ Len(received) \in Nat /\ Len(received') = Len(received) + 1
        /\ DOMAIN received = 1 .. Len(received) /\ DOMAIN received' = 1 .. Len(received) + 1
        /\ \A n \in DOMAIN received : received'[n] = received[n]
        /\ received'[Len(received) + 1] = p
    <2>1. \A s \in Seq(Received), e \in Received :
            /\ Append(s, e) \in Seq(Received) /\ Len(s) \in Nat /\ Len(Append(s, e)) = Len(s) + 1
            /\ DOMAIN s = 1 .. Len(s) /\ DOMAIN Append(s, e) = 1 .. Len(s) + 1
            /\ \A n \in DOMAIN s : Append(s, e)[n] = s[n]
            /\ Append(s, e)[Len(s) + 1] = e
      BY Appended
    <2> QED
      BY <1>1, <1>3, <2>1, Zenon
  <1>5. Types'
    <2>1. rbuf' \in Seq(Words) /\ result' \in {"none", "zero", "error", "bytes"}
      BY <1>1
    <2> QED
      BY <1>1, <1>2, <1>4, <2>1 DEF Types
  <1>6. Writing' /\ Written' = Written /\ Written \in Nat
    BY <1>1, <1>2, WriterFacts DEF Writing, CallEnd, Written
  <1>7. /\ Len(Line) \in Nat /\ DOMAIN Line = 1 .. Len(Line) /\ Len(rbuf) \in 0 .. Len(Line)
        /\ Len(Line') = Len(Line) - Len(rbuf) /\ DOMAIN Line' = 1 .. Len(Line')
        /\ \A i \in DOMAIN Line' : Line'[i] = Line[Len(rbuf) + i] /\ Len(rbuf) + i \in DOMAIN Line
        /\ DOMAIN rbuf = 1 .. Len(rbuf)
        /\ \A i \in DOMAIN rbuf : Line[i] = rbuf[i] /\ i \in DOMAIN Line
    <2>1. /\ DOMAIN Line = 1 .. Len(Line) /\ DOMAIN rbuf = 1 .. Len(rbuf)
          /\ \A i \in 1 .. Len(rbuf) : Line[i] = rbuf[i]
      BY <1>2, LineFacts
    <2>2. /\ Len(Line) \in Nat /\ Len(rbuf) \in 0 .. Len(Line)
          /\ Len(Line') = Len(Line) - Len(rbuf) /\ DOMAIN Line' = 1 .. Len(Line')
          /\ \A i \in DOMAIN Line' : Line'[i] = Line[Len(rbuf) + i] /\ Len(rbuf) + i \in DOMAIN Line
      BY <1>1, <1>2, LineDropped
    <2> QED
      BY <2>1, <2>2
  <1>8. InOrder'
    <2>1. \A i \in DOMAIN Line' : Genuine(Line'[i]) /\ Place(Line'[i]) <= Written'
      BY <1>2, <1>6, <1>7 DEF InOrder
    <2>2. \A i, j \in DOMAIN Line' : i < j => Place(Line'[i]) < Place(Line'[j])
      BY <1>2, <1>7 DEF InOrder
    <2>3. \A i \in DOMAIN rbuf :
            /\ Genuine(rbuf[i]) /\ Place(rbuf[i]) <= Written'
            /\ \A j \in DOMAIN Line' : Place(rbuf[i]) < Place(Line'[j])
      <3> TAKE i \in DOMAIN rbuf
      <3>1. Line[i] = rbuf[i] /\ i \in DOMAIN Line /\ i \in Nat /\ i <= Len(rbuf)
        BY <1>7
      <3>2. Genuine(Line[i]) /\ Place(Line[i]) <= Written'
        BY <1>2, <1>6, <3>1 DEF InOrder
      <3>3. ASSUME NEW j \in DOMAIN Line' PROVE Place(Line[i]) < Place(Line'[j])
        <4>1. Line'[j] = Line[Len(rbuf) + j] /\ Len(rbuf) + j \in DOMAIN Line /\ i < Len(rbuf) + j
          BY <1>7, <3>1
        <4> QED
          BY <1>2, <3>1, <4>1 DEF InOrder
      <3> QED
        BY <3>1, <3>2, <3>3
    <2>4. \A n \in DOMAIN received' : (n \in DOMAIN received /\ received'[n] = received[n])
                                      \/ (n = Len(received) + 1 /\ received'[n].data = rbuf)
      BY <1>3, <1>4
    <2>5. \A n \in DOMAIN received' : \A i \in DOMAIN received'[n].data :
            /\ Genuine(received'[n].data[i]) /\ Place(received'[n].data[i]) <= Written'
            /\ \A j \in DOMAIN Line' : Place(received'[n].data[i]) < Place(Line'[j])
      <3> TAKE n \in DOMAIN received'
      <3>1. CASE n \in DOMAIN received /\ received'[n] = received[n]
        BY <1>2, <1>6, <1>7, <3>1 DEF InOrder
      <3>2. CASE n = Len(received) + 1 /\ received'[n].data = rbuf
        BY <2>3, <3>2
      <3> QED
        BY <2>4, <3>1, <3>2
    <2>6. \A m, n \in DOMAIN received' :
            \A i \in DOMAIN received'[m].data, j \in DOMAIN received'[n].data :
              m < n => Place(received'[m].data[i]) < Place(received'[n].data[j])
      <3> TAKE m, n \in DOMAIN received'
      <3> SUFFICES ASSUME m < n
                   PROVE  \A i \in DOMAIN received'[m].data, j \in DOMAIN received'[n].data :
                            Place(received'[m].data[i]) < Place(received'[n].data[j])
        OBVIOUS
      <3>1. m \in DOMAIN received /\ received'[m] = received[m]
        BY <1>4
      <3>2. CASE n \in DOMAIN received /\ received'[n] = received[n]
        BY <1>2, <3>1, <3>2 DEF InOrder
      <3>3. CASE n = Len(received) + 1 /\ received'[n].data = rbuf
        BY <1>2, <1>7, <3>1, <3>3 DEF InOrder
      <3> QED
        BY <2>4, <3>2, <3>3
    <2> QED
      BY <2>1, <2>2, <2>5, <2>6 DEF InOrder
  <1>9. Reading'
    BY <1>1 DEF Reading
  <1>10. ZeroIsTheEnd'
    <2>1. result' = "zero" => received'[Len(received')].data = <<>> /\ received' # <<>>
      BY <1>1, <1>3, <1>4
    <2> QED
      BY <2>1 DEF ZeroIsTheEnd
  <1>11. ASSUME ~cut' PROVE Whole'
    <2>1. Whole
      BY <1>1, <1>2, <1>11
    <2>2. /\ Len(received) + 1 \in DOMAIN Packets
          /\ p = Message(Len(received) + 1)
          /\ Written - Len(Line) + Len(rbuf) = Upto[Len(received) + 1]
      BY <1>1, <1>2, <2>1, PayloadWords DEF p
    <2>3. Len(received') <= Len(Packets)
      BY <1>4, <2>2, Numbered
    <2>4. \A n \in DOMAIN received' : received'[n] = Message(n)
      BY <1>4, <2>1, <2>2 DEF Whole
    <2>5. Written - Len(Line') = Upto[Len(received')] + 0
      <3>1. Written - Len(Line') = Written - Len(Line) + Len(rbuf)
        BY <1>6, <1>7
      <3>2. Upto[Len(received')] \in Nat
        BY <1>4, <2>2, <2>3, UptoFacts
      <3> QED
        BY <1>4, <2>2, <3>1, <3>2
    <2>6. \A i \in DOMAIN Line' : Place(Line'[i]) = Written - Len(Line') + i
      <3> TAKE i \in DOMAIN Line'
      <3>1. /\ Line'[i] = Line[Len(rbuf) + i] /\ i \in Nat
            /\ Place(Line[Len(rbuf) + i]) = Written - Len(Line) + (Len(rbuf) + i)
        BY <1>7, <2>1 DEF Whole
      <3> QED
        BY <1>6, <1>7, <3>1
    <2> QED
      BY <1>1, <1>6, <2>3, <2>4, <2>5, <2>6 DEF Whole
  <1> QED
    BY <1>5, <1>6, <1>8, <1>9, <1>10, <1>11 DEF IInv

\* A read that gives up loses the words it has; one that had none loses nothing.
LEMMA ReadFailsStep ==
  ASSUME IInv, NEW r \in {"zero", "error"}, ReadStops(r), cut' \in BOOLEAN,
         cut \/ rpc = "payload" \/ rbuf # <<>> => cut',
         r = "zero" => "writer" \notin alive /\ pipe = <<>>
  PROVE  IInv'
  <1>1. /\ rpc' = "idle" /\ result' = r /\ (cut \/ rpc = "payload" \/ rbuf # <<>> => cut')
        /\ rbuf' = <<>> /\ rneed' = 0 /\ ridle' = 0
        /\ UNCHANGED <<pipe, wpkt, wcall, wpos, widle, opcode, received, blocking, alive>>
    BY DEF ReadStops, writer
  <1>2. Types /\ Writing /\ Reading /\ ZeroIsTheEnd /\ InOrder /\ (~cut => Whole)
    BY DEF IInv
  <1>3. Types'
    <2>1. rbuf' \in Seq(Words) /\ cut' \in BOOLEAN /\ result' \in {"none", "zero", "error", "bytes"}
      BY <1>1
    <2> QED
      BY <1>1, <1>2, <2>1, StreamAssumption DEF Types, StreamAssumption
  <1>4. Writing' /\ Written' = Written /\ Written \in Nat
    BY <1>1, <1>2, WriterFacts DEF Writing, CallEnd, Written
  <1>5. /\ Len(rbuf) \in 0 .. Len(Line) /\ Len(Line') = Len(Line) - Len(rbuf)
        /\ \A i \in DOMAIN Line' : Line'[i] = Line[Len(rbuf) + i]
    BY <1>1, <1>2, LineDropped
  <1>6. InOrder'
    BY <1>1, <1>2, <1>3, <1>4, <1>5, DropKeepsOrder
  <1>7. Reading'
    BY <1>1 DEF Reading
  <1>8. ZeroIsTheEnd'
    BY <1>1 DEF ZeroIsTheEnd
  <1>9. ASSUME ~cut' PROVE Whole'
    <2>1. Whole /\ rpc # "payload" /\ rbuf' = rbuf
      BY <1>1, <1>2, <1>9
    <2>2. Line' = Line
      BY <1>1, <2>1 DEF Line
    <2> QED
      BY <1>1, <1>4, <2>1, <2>2, SameWhole
  <1> QED
    BY <1>3, <1>4, <1>6, <1>7, <1>8, <1>9 DEF IInv

-----------------------------------------------------------------------------
(* The clock, and the end of a process.                                    *)

LEMMA TickStep ==
  ASSUME IInv, Tick
  PROVE  IInv' /\ Line' = Line
  <1>1. /\ widle' = (IF WriterPolls THEN Later(widle) ELSE widle)
        /\ ridle' = (IF ReaderPolls THEN Later(ridle) ELSE ridle)
        /\ UNCHANGED <<pipe, wpkt, wcall, wpos, rpc, rbuf, rneed, opcode, result, received,
                       blocking, alive, cut>>
    BY DEF Tick
  <1>2. Types /\ Writing /\ Reading /\ ZeroIsTheEnd /\ InOrder /\ (~cut => Whole)
    BY DEF IInv
  <1>3. widle' \in 0 .. SclTimeout /\ ridle' \in 0 .. SclTimeout
    BY <1>1, <1>2, StreamAssumption DEF Types, StreamAssumption, Later, Least
  <1>4. Types'
    BY <1>1, <1>2, <1>3 DEF Types
  <1>5. Writing' /\ Written' = Written /\ Written \in Nat
    BY <1>1, <1>2, WriterFacts DEF Writing, CallEnd, Written
  <1>6. Line' = Line
    BY <1>1 DEF Line
  <1>7. InOrder'
    BY <1>1, <1>2, <1>4, <1>5, <1>6, SameLine
  <1>8. Reading' /\ ZeroIsTheEnd'
    BY <1>1, <1>2 DEF Reading, ZeroIsTheEnd
  <1>9. ~cut' => Whole'
    BY <1>1, <1>2, <1>5, <1>6, SameWhole
  <1> QED
    BY <1>4, <1>5, <1>6, <1>7, <1>8, <1>9 DEF IInv

LEMMA DieStep ==
  ASSUME IInv, NEW side \in Sides, Die(side)
  PROVE  IInv' /\ Line' = Line
  <1>1. /\ alive' = alive \ {side}
        /\ UNCHANGED <<pipe, wpkt, wcall, wpos, widle, rpc, rbuf, rneed, ridle, opcode, result, received,
                       blocking, cut>>
    BY DEF Die, writer, reader
  <1>2. Types /\ Writing /\ Reading /\ ZeroIsTheEnd /\ InOrder /\ (~cut => Whole)
    BY DEF IInv
  <1>3. Types'
    BY <1>1, <1>2 DEF Types
  <1>4. Writing' /\ Written' = Written /\ Written \in Nat
    BY <1>1, <1>2, WriterFacts DEF Writing, CallEnd, Written
  <1>5. Line' = Line
    BY <1>1 DEF Line
  <1>6. InOrder'
    BY <1>1, <1>2, <1>3, <1>4, <1>5, SameLine
  <1>7. Reading' /\ ZeroIsTheEnd'
    BY <1>1, <1>2 DEF Reading, ZeroIsTheEnd
  <1>8. ~cut' => Whole'
    BY <1>1, <1>2, <1>4, <1>5, SameWhole
  <1> QED
    BY <1>3, <1>4, <1>5, <1>6, <1>7, <1>8 DEF IInv

LEMMA StutterStep ==
  ASSUME IInv, UNCHANGED vars
  PROVE  IInv'
  <1>1. UNCHANGED <<pipe, wpkt, wcall, wpos, widle, rpc, rbuf, rneed, ridle, opcode, result, received,
                    blocking, alive, cut>>
    BY DEF vars, writer, reader
  <1>2. Types /\ Writing /\ Reading /\ ZeroIsTheEnd /\ InOrder /\ (~cut => Whole)
    BY DEF IInv
  <1>3. Types' /\ Reading' /\ ZeroIsTheEnd'
    BY <1>1, <1>2 DEF Types, Reading, ZeroIsTheEnd
  <1>4. Writing' /\ Written' = Written /\ Written \in Nat /\ Line' = Line
    BY <1>1, <1>2, WriterFacts DEF Writing, CallEnd, Written, Line
  <1>5. InOrder'
    BY <1>1, <1>2, <1>3, <1>4, SameLine
  <1>6. ~cut' => Whole'
    BY <1>1, <1>2, <1>4, SameWhole
  <1> QED
    BY <1>3, <1>4, <1>5, <1>6 DEF IInv

-----------------------------------------------------------------------------
LEMMA InitInv ==
  ASSUME Init
  PROVE  IInv
  <1>1. /\ pipe = <<>> /\ wpkt = 0 /\ wcall = 0 /\ wpos = 0 /\ widle = 0
        /\ rpc = "idle" /\ rbuf = <<>> /\ rneed = 0 /\ ridle = 0
        /\ opcode = 0 /\ result = "none" /\ received = <<>>
        /\ blocking \in Blockings /\ alive = Sides /\ cut = FALSE
    BY DEF Init
  <1>2. pipe \in Seq(Words) /\ rbuf \in Seq(Words) /\ received \in Seq(Received)
    BY <1>1
  <1>3. Types
    <2>1. Len(pipe) <= Capacity
      BY <1>1, StreamAssumption DEF StreamAssumption
    <2>2. widle \in 0 .. SclTimeout /\ ridle \in 0 .. SclTimeout
      BY <1>1, StreamAssumption DEF StreamAssumption
    <2>3. blocking \subseteq Sides /\ alive \subseteq Sides
      BY <1>1, StreamAssumption DEF StreamAssumption
    <2> QED
      BY <1>1, <1>2, <2>1, <2>2, <2>3 DEF Types
  <1>4. Writing /\ Written = 0 /\ Reading /\ ZeroIsTheEnd
    BY <1>1, Numbered DEF Writing, Written, Reading, ZeroIsTheEnd
  <1>5. Line = <<>> /\ Len(Line) = 0 /\ Len(received) = 0
    BY <1>1 DEF Line
  <1>6. InOrder
    BY <1>1, <1>5 DEF InOrder
  <1>7. Whole
    BY <1>1, <1>4, <1>5, UptoFacts, Numbered DEF Whole
  <1> QED
    BY <1>3, <1>4, <1>6, <1>7 DEF IInv

LEMMA NextInv ==
  ASSUME IInv, [Next]_vars
  PROVE  IInv'
  <1>1. CASE WriteOut
    BY <1>1, WriteOutStep
  <1>2. ASSUME NEW k \in 0 .. Capacity, Put(k) PROVE IInv'
    BY <1>2, PutStep
  <1>3. CASE WriteFails \/ WriteError
    BY <1>3, WriteFailsStep
  <1>4. CASE ReadPacket
    BY <1>4, ReadPacketStep
  <1>5. ASSUME NEW k \in 1 .. Capacity, Take(k) PROVE IInv'
    BY <1>5, TakeStep
  <1>6. CASE HeaderRead
    BY <1>6, HeaderReadStep
  <1>7. CASE PayloadRead
    BY <1>7, PayloadReadStep
  <1>8. CASE HangUp
    <2>1. ReadFails("zero") /\ "writer" \notin alive /\ pipe = <<>>
      BY <1>8 DEF HangUp
    <2>2. cut \in BOOLEAN
      BY DEF IInv, Types
    <2> QED
      BY <2>1, <2>2, ReadFailsStep DEF ReadFails
  <1>9. CASE ReadTimeOut
    <2>1. ReadFails("error")
      BY <1>9 DEF ReadTimeOut
    <2>2. cut \in BOOLEAN
      BY DEF IInv, Types
    <2> QED
      BY <2>1, <2>2, ReadFailsStep DEF ReadFails
  <1>10. CASE Tick
    BY <1>10, TickStep
  <1>11. ASSUME NEW side \in Sides, Die(side) PROVE IInv'
    BY <1>11, DieStep
  <1>12. CASE UNCHANGED vars
    BY <1>12, StutterStep
  <1>13. CASE ReadError
    BY <1>13, ReadFailsStep DEF ReadError
  <1> QED
    BY <1>1, <1>2, <1>3, <1>4, <1>5, <1>6, <1>7, <1>8, <1>9, <1>10, <1>11, <1>12, <1>13
       DEF Next, WriterStep, ReaderStep

LEMMA Invariant == Spec => []IInv
  <1>1. Init => IInv
    BY InitInv
  <1>2. IInv /\ [Next]_vars => IInv'
    BY NextInv
  <1> QED
    BY <1>1, <1>2, PTL DEF Spec

-----------------------------------------------------------------------------
(* What the theorems say.                                                  *)

\* The lengths scl_read and scl_write count down never go below zero, and the
\* pipe never holds more than it can.
THEOREM StreamTypeCorrect == Spec => []TypeOK
  <1>1. ASSUME IInv PROVE TypeOK
    <2>1. Types /\ Writing
      BY <1>1 DEF IInv
    <2>2. \A n \in DOMAIN received : received[n].op \in Nat /\ received[n].data \in Seq(Words)
      <3>1. received \in Seq(Received)
        BY <2>1 DEF Types
      <3>2. \A n \in DOMAIN received : received[n] \in Received
        BY <3>1
      <3> QED
        BY <3>2 DEF Received
    <2>3. /\ wpkt \in 0 .. Len(Packets)
          /\ wcall = 0 \/ (wpkt # 0 /\ wcall \in 1 .. Calls(wpkt)
                            /\ wpos \in CallEnds(wpkt)[wcall - 1] .. CallEnd)
      BY <2>1 DEF Writing
    <2> QED
      BY <2>1, <2>2, <2>3 DEF TypeOK, Types
  <1> QED
    BY <1>1, Invariant, PTL

\* The words of a packet that are still to come have the places behind the last.
LEMMA UnwrittenFacts ==
  ASSUME Writing
  PROVE  /\ Unwritten \in Seq(Words) /\ Len(Unwritten) \in Nat
         /\ DOMAIN Unwritten = 1 .. Len(Unwritten)
         /\ \A i \in DOMAIN Unwritten : Genuine(Unwritten[i]) /\ Place(Unwritten[i]) = Written + i
         /\ Written \in Nat /\ Upto[wpkt] \in Nat /\ Written + Len(Unwritten) = Upto[wpkt]
  <1>1. wpkt \in 0 .. Len(Packets) /\ Written \in Nat /\ Upto[wpkt] \in Nat
    BY WriterFacts, UptoFacts
  <1>2. CASE wcall = 0
    <2>1. Unwritten = <<>> /\ Written = Upto[wpkt]
      BY <1>2, WriterFacts DEF Unwritten
    <2>2. Unwritten \in Seq(Words) /\ Len(Unwritten) = 0 /\ DOMAIN Unwritten = 1 .. 0
      BY <2>1
    <2> QED
      BY <1>1, <2>1, <2>2
  <1>3. CASE wcall # 0
    <2>1. /\ wpkt # 0 /\ wpkt \in DOMAIN Packets /\ wpos \in Nat /\ PacketLen(wpkt) \in Nat
          /\ wpos <= PacketLen(wpkt) /\ Written = Upto[wpkt - 1] + wpos /\ Upto[wpkt - 1] \in Nat
          /\ Upto[wpkt] = Upto[wpkt - 1] + PacketLen(wpkt)
      BY <1>3, WriterFacts
    <2> DEFINE k == PacketLen(wpkt) - wpos
    <2>2. k \in Nat /\ Unwritten = [i \in 1 .. k |-> Word(wpkt, wpos + i)]
      BY <1>3, <2>1 DEF Unwritten, WordsOf
    <2>3. Written + k = Upto[wpkt]
      BY <2>1
    <2>4. \A i \in 1 .. k : wpos + i \in 1 .. PacketLen(wpkt)
      BY <2>1
    <2>5. ASSUME NEW i \in 1 .. k
          PROVE  /\ Word(wpkt, wpos + i) \in Words /\ Genuine(Word(wpkt, wpos + i))
                 /\ Place(Word(wpkt, wpos + i)) = Written + i
      <3>1. /\ Word(wpkt, wpos + i) \in Words /\ Genuine(Word(wpkt, wpos + i))
            /\ Place(Word(wpkt, wpos + i)) = Upto[wpkt - 1] + (wpos + i)
        BY <2>1, <2>4, WordFacts
      <3> QED
        BY <2>1, <3>1
    <2> HIDE DEF k
    <2>6. Unwritten \in Seq(Words) /\ Len(Unwritten) = k /\ DOMAIN Unwritten = 1 .. k
      BY <2>2, <2>5
    <2>7. \A i \in 1 .. k : Unwritten[i] = Word(wpkt, wpos + i)
      BY <2>2
    <2> QED
      BY <1>1, <2>2, <2>3, <2>5, <2>6, <2>7
  <1> QED
    BY <1>2, <1>3

\* However the transfers are broken up and whatever fails, no word is repeated
\* and no two are swapped; scl_read_packet says 0 only for a packet without
\* data, or when nobody can write any more.
THEOREM ReaderIsNotMisled == Spec => []ReaderSees
  <1>1. ASSUME IInv PROVE ReaderSees
    <2>1. Types /\ Writing /\ ZeroIsTheEnd /\ InOrder
      BY <1>1 DEF IInv
    <2>2. /\ Line \in Seq(Words) /\ Len(Line) \in Nat /\ DOMAIN Line = 1 .. Len(Line)
          /\ Unwritten \in Seq(Words) /\ Len(Unwritten) \in Nat
          /\ \A i \in 1 .. Len(Unwritten) : Genuine(Unwritten[i]) /\ Place(Unwritten[i]) = Written + i
          /\ Written \in Nat
      BY <2>1, LineFacts, UnwrittenFacts
    <2>3. /\ DOMAIN Unread = 1 .. Len(Line) + Len(Unwritten)
          /\ \A i \in 1 .. Len(Line) : Unread[i] = Line[i]
          /\ \A i \in 1 .. Len(Unwritten) : Unread[Len(Line) + i] = Unwritten[i]
      <3>1. Unread = Line \o Unwritten
        <4>1. rbuf \in Seq(Words) /\ pipe \in Seq(Words)
          BY <2>1, LineFacts
        <4>2. \A r, s, t \in Seq(Words) : r \o (s \o t) = (r \o s) \o t
          BY JoinedThree
        <4>3. rbuf \o (pipe \o Unwritten) = (rbuf \o pipe) \o Unwritten
          BY <2>2, <4>1, <4>2, Zenon
        <4> QED
          BY <4>3 DEF Unread, Line
      <3>2. \A s, t \in Seq(Words) :
              /\ DOMAIN (s \o t) = 1 .. Len(s) + Len(t)
              /\ \A i \in 1 .. Len(s) : (s \o t)[i] = s[i]
              /\ \A i \in 1 .. Len(t) : (s \o t)[Len(s) + i] = t[i]
        BY Joined
      <3> QED
        BY <2>2, <3>1, <3>2, Zenon
    <2>4. \A w : Genuine(w) => Place(w) \in Nat
      BY PlaceFacts
    <2>5. \A i \in 1 .. Len(Line) : Genuine(Unread[i]) /\ Place(Unread[i]) <= Written
      BY <2>1, <2>2, <2>3 DEF InOrder
    <2>6. ASSUME NEW i \in DOMAIN Unread, i \notin 1 .. Len(Line)
          PROVE  /\ i \in Nat /\ i > Len(Line) /\ Genuine(Unread[i])
                 /\ Place(Unread[i]) = Written + (i - Len(Line))
      <3>1. i - Len(Line) \in 1 .. Len(Unwritten) /\ i = Len(Line) + (i - Len(Line)) /\ i \in Nat
        BY <2>2, <2>3, <2>6
      <3>2. Unread[Len(Line) + (i - Len(Line))] = Unwritten[i - Len(Line)]
        BY <2>3, <3>1
      <3> QED
        BY <2>2, <3>1, <3>2
    <2>7. ASSUME NEW i \in DOMAIN Unread, NEW j \in DOMAIN Unread, i < j
          PROVE  Earlier(Unread[i], Unread[j])
      <3>1. Genuine(Unread[i]) /\ Genuine(Unread[j]) /\ i \in Nat /\ j \in Nat
        BY <2>2, <2>3, <2>5, <2>6
      <3>2. CASE j \in 1 .. Len(Line)
        <4>1. i \in DOMAIN Line /\ j \in DOMAIN Line /\ Unread[i] = Line[i] /\ Unread[j] = Line[j]
          BY <2>2, <2>3, <2>7, <3>2
        <4>2. Place(Line[i]) < Place(Line[j])
          BY <2>1, <2>7, <4>1 DEF InOrder
        <4> QED
          BY <3>1, <4>1, <4>2, EarlierByPlace
      <3>3. CASE j \notin 1 .. Len(Line) /\ i \in 1 .. Len(Line)
        <4>1. Place(Unread[i]) < Place(Unread[j])
          BY <2>2, <2>4, <2>5, <2>6, <3>1, <3>3
        <4> QED
          BY <3>1, <4>1, EarlierByPlace
      <3>4. CASE j \notin 1 .. Len(Line) /\ i \notin 1 .. Len(Line)
        <4>1. Place(Unread[i]) < Place(Unread[j])
          BY <2>2, <2>6, <2>7, <3>1, <3>4
        <4> QED
          BY <3>1, <4>1, EarlierByPlace
      <3> QED
        BY <3>2, <3>3, <3>4
    <2>8. ASSUME NEW m \in DOMAIN received, NEW n \in DOMAIN received,
                 NEW i \in DOMAIN received[m].data, NEW j \in DOMAIN received[n].data, m < n
          PROVE  Earlier(received[m].data[i], received[n].data[j])
      <3>1. /\ Genuine(received[m].data[i]) /\ Genuine(received[n].data[j])
            /\ Place(received[m].data[i]) < Place(received[n].data[j])
        BY <2>1, <2>8 DEF InOrder
      <3> QED
        BY <3>1, EarlierByPlace
    <2>9. WordsInOrder
      BY <2>7, <2>8 DEF WordsInOrder
    <2> QED
      BY <2>1, <2>9 DEF ReaderSees
  <1> QED
    BY <1>1, Invariant, PTL

-----------------------------------------------------------------------------
(* The channel of whole packets.                                           *)

\* Packets written to the end, or given up.
Sent == IF Unwritten = <<>> THEN wpkt ELSE wpkt - 1

LEMMA SentFacts ==
  ASSUME Writing
  PROVE  /\ (Unwritten = <<>>) = (Written = Upto[wpkt])
         /\ Sent = IF Written = Upto[wpkt] THEN wpkt ELSE wpkt - 1
         /\ Written <= Upto[wpkt] /\ Written \in Nat /\ Upto[wpkt] \in Nat
         /\ wpkt = 0 => Written = Upto[wpkt]
         /\ Sent \in Nat /\ Sent <= Len(Packets)
  <1>1. /\ Unwritten \in Seq(Words) /\ Len(Unwritten) \in Nat
        /\ Written \in Nat /\ Upto[wpkt] \in Nat /\ Written + Len(Unwritten) = Upto[wpkt]
    BY UnwrittenFacts
  <1>2. (Unwritten = <<>>) = (Len(Unwritten) = 0)
    <2>1. \A S : \A s \in Seq(S) : (s = <<>>) = (Len(s) = 0)
      OBVIOUS
    <2> QED
      BY <1>1, <2>1, Zenon
  <1>3. (Unwritten = <<>>) = (Written = Upto[wpkt])
    <2>1. \A l, m, n \in Nat : m + l = n => (l = 0) = (m = n)
      OBVIOUS
    <2> QED
      BY <1>1, <1>2, <2>1, Zenon
  <1>4. wpkt = 0 => Written = Upto[wpkt]
    BY UptoFacts DEF Written
  <1>5. wpkt \in 0 .. Len(Packets) /\ Len(Packets) \in Nat
    BY WriterFacts
  <1> QED
    BY <1>1, <1>3, <1>4, <1>5 DEF Sent

\* The steps of the writer that send the rest of a packet are the channel's.
LEMMA SentByPut ==
  ASSUME IInv, NEW k \in 0 .. Capacity, Put(k)
  PROVE  Sent' = Sent \/ (Sent < Len(Packets) /\ Sent' = Sent + 1)
  <1>1. Writing /\ Writing' /\ wpkt' = wpkt /\ Written <= Written'
    <2>1. Writing /\ Writing'
      BY PutStep DEF IInv
    <2>2. wpkt' = wpkt /\ wpos' = wpos + k /\ wcall # 0
      BY DEF Put
    <2>3. wpkt # 0 /\ wpos \in Nat /\ Upto[wpkt - 1] \in Nat /\ Written = Upto[wpkt - 1] + wpos
      BY <2>1, <2>2, WriterFacts
    <2>4. Written' = Upto[wpkt - 1] + (wpos + k)
      BY <2>2, <2>3 DEF Written
    <2>5. k \in Nat
      BY StreamAssumption DEF StreamAssumption
    <2> QED
      BY <2>1, <2>2, <2>3, <2>4, <2>5
  <1>2. /\ Sent = (IF Written = Upto[wpkt] THEN wpkt ELSE wpkt - 1)
        /\ Written <= Upto[wpkt] /\ Written \in Nat /\ Upto[wpkt] \in Nat
    BY <1>1, SentFacts
  <1>3. /\ Sent' = (IF Written' = Upto[wpkt] THEN wpkt ELSE wpkt - 1)
        /\ Written' <= Upto[wpkt] /\ Written' \in Nat
    <2>1. (Writing => /\ Sent = (IF Written = Upto[wpkt] THEN wpkt ELSE wpkt - 1)
                      /\ Written <= Upto[wpkt] /\ Written \in Nat)'
      BY SentFacts, PTL
    <2> QED
      BY <1>1, <2>1 DEF Upto
  <1>4. wpkt \in 0 .. Len(Packets) /\ Len(Packets) \in Nat
    BY <1>1, WriterFacts
  <1> QED
    BY <1>1, <1>2, <1>3, <1>4

\* What leaves the writer as it is sends nothing.
LEMMA SentUnchanged ==
  ASSUME UNCHANGED <<wpkt, wcall, wpos>>
  PROVE  Sent' = Sent
  BY DEF Sent, Unwritten

\* A packet the reader has all of was sent.
LEMMA SentBeforeReceived ==
  ASSUME Writing, NEW r \in Nat, r + 1 \in DOMAIN Packets, Upto[r + 1] <= Written
  PROVE  r < Sent
  <1>1. /\ Sent = (IF Written = Upto[wpkt] THEN wpkt ELSE wpkt - 1)
        /\ Written <= Upto[wpkt] /\ Written \in Nat /\ Upto[wpkt] \in Nat
        /\ wpkt \in 0 .. Len(Packets) /\ Len(Packets) \in Nat
    BY SentFacts, WriterFacts
  <1>2. r + 1 \in 0 .. Len(Packets) /\ r \in 0 .. Len(Packets) /\ (r + 1) - 1 = r
    BY Numbered
  <1>3. Upto[r + 1] = Upto[r] + PacketLen(r + 1) /\ Upto[r] \in Nat /\ PacketLen(r + 1) \in Nat /\ PacketLen(r + 1) >= 4
    <2>1. Upto[r + 1] = Upto[(r + 1) - 1] + PacketLen(r + 1)
      BY UptoFacts
    <2> QED
      BY <1>2, <2>1, UptoFacts, CallEndsFacts
  <1>4. CASE Written = Upto[wpkt]
    <2>1. ~(wpkt <= r)
      <3> SUFFICES ASSUME wpkt <= r PROVE FALSE
        OBVIOUS
      <3>1. Upto[wpkt] <= Upto[r]
        BY <1>1, <1>2, UptoFacts
      <3> QED
        BY <1>1, <1>3, <1>4, <3>1
    <2> QED
      BY <1>1, <1>4, <2>1
  <1>5. CASE Written # Upto[wpkt]
    <2>1. ~(wpkt <= r + 1)
      <3> SUFFICES ASSUME wpkt <= r + 1 PROVE FALSE
        OBVIOUS
      <3>1. Upto[wpkt] <= Upto[r + 1]
        BY <1>1, <1>2, UptoFacts
      <3> QED
        BY <1>1, <1>3, <1>5, <3>1
    <2> QED
      BY <1>1, <1>5, <2>1
  <1> QED
    BY <1>4, <1>5

LEMMA MessagesFacts ==
  /\ Len(Messages) = Len(Packets)
  /\ \A n \in DOMAIN Packets : Messages[n] = Message(n)
  <1>1. Messages = [n \in 1 .. Len(Packets) |-> Message(n)] /\ Len(Packets) \in Nat
    BY Numbered DEF Messages
  <1> QED
    BY <1>1, Numbered

\* A step of the stream is a step of the channel, or none it can see.
LEMMA StepImplements ==
  ASSUME IInv, [Next]_vars
  PROVE  [PC!Next]_(PC!chan)
  <1> DEFINE Send == Sent < Len(Messages) /\ Sent' = Sent + 1 /\ received' = received /\ (~cut)' = ~cut
             Receive == /\ ~cut /\ Len(received) < Sent
                        /\ received' = Append(received, Messages[Len(received) + 1])
                        /\ Sent' = Sent /\ (~cut)' = ~cut
             Cut == (~cut)' = FALSE /\ Sent' \in {Sent, Sent + 1} /\ received' = received
             Garbage == /\ ~~cut /\ Len(received') = Len(received) + 1
                        /\ SubSeq(received', 1, Len(received)) = received
                        /\ Sent' = Sent /\ (~cut)' = ~cut
             Stutter == Sent' = Sent /\ received' = received /\ cut' = cut
  <1>1. SUFFICES Send \/ Receive \/ Cut \/ Garbage \/ Stutter
    BY DEF PC!Next, PC!Send, PC!Receive, PC!Cut, PC!Garbage, PC!chan, Sent
  <1>2. Types /\ Writing /\ (~cut => Whole)
    BY DEF IInv
  <1>3. CASE WriteOut
    <2>1. wcall = 0 /\ wpkt' = wpkt + 1 /\ received' = received /\ cut' = cut
      BY <1>3 DEF WriteOut, reader
    <2>2. Sent = wpkt
      BY <2>1 DEF Sent, Unwritten
    <2>3. Writing' /\ Written' = Written
      BY <1>3, WriteOutStep DEF IInv
    <2>4. Written = Upto[wpkt] /\ wpkt' \in DOMAIN Packets /\ wpkt \in Nat
      BY <1>2, <1>3, <2>1, WriterFacts, Numbered DEF WriteOut
    <2>5. Upto[wpkt'] # Upto[wpkt]
      <3>1. wpkt' - 1 = wpkt /\ wpkt \in 0 .. Len(Packets)
        BY <2>1, <2>4, Numbered
      <3>2. Upto[wpkt'] = Upto[wpkt' - 1] + PacketLen(wpkt')
        BY <2>4, UptoFacts
      <3>3. PacketLen(wpkt') \in Nat /\ PacketLen(wpkt') >= 4 /\ Upto[wpkt] \in Nat
        BY <2>4, <3>1, CallEndsFacts, UptoFacts
      <3> QED
        BY <3>1, <3>2, <3>3
    <2>6. (Writing => Sent = IF Written = Upto[wpkt] THEN wpkt ELSE wpkt - 1)'
      BY SentFacts, PTL
    <2>7. Sent' = wpkt' - 1
      BY <2>3, <2>4, <2>5, <2>6 DEF Upto
    <2> QED
      BY <2>1, <2>2, <2>4, <2>7
  <1>4. ASSUME NEW k \in 0 .. Capacity, Put(k) PROVE Send \/ Stutter
    <2>1. Sent' = Sent \/ (Sent < Len(Packets) /\ Sent' = Sent + 1)
      BY <1>4, SentByPut
    <2>2. received' = received /\ cut' = cut
      BY <1>4 DEF Put, reader
    <2> QED
      BY <2>1, <2>2, MessagesFacts
  <1>5. CASE WriteFails \/ WriteError
    <2>1. wcall # 0 /\ cut' = TRUE /\ wpkt' = wpkt /\ received' = received
      BY <1>5 DEF WriteFails, WriteError, GiveUp, reader
    <2>2. wpkt \in Nat /\ wpkt # 0
      BY <1>2, <2>1, WriterFacts
    <2>3. Sent \in {wpkt, wpkt - 1} /\ Sent' \in {wpkt, wpkt - 1}
      BY <2>1 DEF Sent
    <2>4. CASE Unwritten = <<>>
      <3>1. FALSE
        <4>1. /\ wpos < CallEnd /\ CallEnd <= PacketLen(wpkt) /\ wpos \in Nat /\ CallEnd \in Nat
              /\ PacketLen(wpkt) \in Nat /\ Upto[wpkt - 1] \in Nat /\ Written = Upto[wpkt - 1] + wpos
              /\ Upto[wpkt] = Upto[wpkt - 1] + PacketLen(wpkt)
          BY <1>2, <1>5, <2>1, WriterFacts DEF WriteFails, WriteError
        <4>2. Written = Upto[wpkt]
          BY <1>2, <2>4, SentFacts
        <4> QED
          BY <4>1, <4>2
      <3> QED
        BY <3>1
    <2>5. CASE Unwritten # <<>>
      <3>1. Sent = wpkt - 1
        BY <2>5 DEF Sent
      <3>2. Sent' \in {Sent, Sent + 1}
        BY <2>2, <2>3, <3>1
      <3> QED
        BY <2>1, <3>2
    <2> QED
      BY <2>4, <2>5
  <1>6. CASE PayloadRead
    <2>1. /\ rpc = "payload" /\ rneed = 0 /\ rbuf' = <<>>
          /\ received' = Append(received, [op |-> opcode, data |-> rbuf])
          /\ UNCHANGED <<wpkt, wcall, wpos, cut>>
      BY <1>6 DEF PayloadRead, writer
    <2>2. Sent' = Sent
      BY <2>1, SentUnchanged
    <2>3. CASE cut
      <3>1. \A S : \A s \in Seq(S), e \in S :
              Len(Append(s, e)) = Len(s) + 1 /\ SubSeq(Append(s, e), 1, Len(s)) = s
        OBVIOUS
      <3>2. received \in Seq(Received) /\ [op |-> opcode, data |-> rbuf] \in Received
        BY <1>2 DEF Types, Received
      <3>3. Len(received') = Len(received) + 1 /\ SubSeq(received', 1, Len(received)) = received
        BY <2>1, <3>1, <3>2, Zenon
      <3> QED
        BY <2>1, <2>2, <2>3, <3>3, Zenon
    <2>4. CASE ~cut
      <3> DEFINE r == Len(received)
      <3>1. InOrder /\ Whole
        BY <1>2, <2>4 DEF IInv
      <3>2. /\ r + 1 \in DOMAIN Packets
            /\ [op |-> opcode, data |-> rbuf] = Message(r + 1)
            /\ Written - Len(Line) + Len(rbuf) = Upto[r + 1]
        BY <1>2, <2>1, <3>1, PayloadWords
      <3>3. r \in Nat
        BY <1>2 DEF Types
      <3> HIDE DEF r
      <3>4. Upto[r + 1] <= Written
        <4>1. Len(rbuf) \in Nat /\ Len(Line) = Len(rbuf) + Len(pipe) /\ Len(pipe) \in Nat /\ Written \in Nat
          BY <1>2, LineFacts, WriterFacts
        <4>2. \A w, l, p \in Nat : w - (l + p) + l <= w
          OBVIOUS
        <4> QED
          BY <3>2, <4>1, <4>2
      <3>5. r < Sent
        BY <1>2, <3>2, <3>3, <3>4, SentBeforeReceived
      <3>6. received' = Append(received, Messages[r + 1])
        BY <2>1, <3>2, MessagesFacts
      <3> QED
        BY <2>1, <2>2, <2>4, <3>5, <3>6 DEF r
    <2> QED
      BY <2>3, <2>4
  <1>7. ASSUME NEW e, ReadStops(e),
               cut' \in {TRUE, cut \/ rpc = "payload" \/ rbuf # <<>>}
        PROVE  Cut \/ Stutter
    <2>1. /\ received' = received
          /\ UNCHANGED <<wpkt, wcall, wpos>>
      BY <1>7 DEF ReadStops, writer
    <2>2. Sent' = Sent
      BY <2>1, SentUnchanged
    <2>3. cut \in BOOLEAN
      BY <1>2 DEF Types
    <2> QED
      BY <1>7, <2>1, <2>2, <2>3
  <1>8. CASE ReadPacket \/ (\E k \in 1 .. Capacity : Take(k)) \/ HeaderRead \/ Tick
             \/ (\E side \in Sides : Die(side)) \/ UNCHANGED vars
    <2>1. UNCHANGED <<wpkt, wcall, wpos, received, cut>>
      BY <1>8 DEF ReadPacket, Take, HeaderRead, Tick, Die, vars, writer, reader
    <2>2. Sent' = Sent
      BY <2>1, SentUnchanged
    <2> QED
      BY <2>1, <2>2
  <1>9. HangUp \/ ReadTimeOut \/ ReadError => Cut \/ Stutter
    BY <1>7 DEF HangUp, ReadTimeOut, ReadError, ReadFails
  <1> HIDE DEF Send, Receive, Cut, Garbage, Stutter
  <1> QED
    BY <1>3, <1>4, <1>5, <1>6, <1>8, <1>9 DEF Next, WriterStep, ReaderStep

\* Until a transfer is cut in the middle of a packet, scl_write_out and
\* scl_read_packet are a channel of whole packets: however the writes and
\* reads are broken up, the reader gets the packets in the order in which they
\* were written, each with the opcode and the data it was written with.
THEOREM FramingImplements == Spec => Refines
  <1>1. Init => PC!Init
    BY Numbered DEF Init, PC!Init, Unwritten
  <1>2. IInv /\ [Next]_vars => [PC!Next]_(PC!chan)
    BY StepImplements
  <1> QED
    BY <1>1, <1>2, Invariant, PTL DEF Spec, Refines, PC!Spec
=============================================================================
