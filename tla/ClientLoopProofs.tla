--------------------------- MODULE ClientLoopProofs ---------------------------
(***************************************************************************)
(* The main loop against a server, for every size of client->buf and every *)
(* way the bytes can be split between the network, the socket, the library *)
(* of the record layer and the buffer: read-ahead keeps the messages in    *)
(* step, and the exchange of requests and updates never runs dry.          *)
(***************************************************************************)
EXTENDS ClientLoop, SequenceTheorems, TLAPS

(***************************************************************************)
(* Sequences                                                               *)
(***************************************************************************)
\* What is taken from the front is taken from the front of the whole.
LEMMA HeadTailConcat ==
  ASSUME NEW S, NEW s \in Seq(S), NEW t \in Seq(S), s # <<>>
  PROVE  /\ s \o t # <<>> /\ s \o t \in Seq(S)
         /\ Head(s \o t) = Head(s)
         /\ Tail(s \o t) = Tail(s) \o t
<1>1. /\ s \o t \in Seq(S) /\ Len(s \o t) = Len(s) + Len(t)
      /\ \A i \in 1 .. Len(s) + Len(t) : (s \o t)[i] = IF i <= Len(s) THEN s[i] ELSE t[i - Len(s)]
  BY ConcatProperties
<1>2. Len(s) \in Nat \ {0} /\ Len(t) \in Nat
  BY EmptySeq, LenProperties
<1>3. s \o t # <<>>
  BY <1>1, <1>2, EmptySeq
<1>4. Head(s \o t) = Head(s)
  BY <1>1, <1>2
<1>5. /\ Tail(s) \in Seq(S) /\ Len(Tail(s)) = Len(s) - 1
      /\ \A i \in 1 .. Len(Tail(s)) : Tail(s)[i] = s[i + 1]
      /\ Tail(s \o t) \in Seq(S) /\ Len(Tail(s \o t)) = Len(s \o t) - 1
      /\ \A i \in 1 .. Len(Tail(s \o t)) : Tail(s \o t)[i] = (s \o t)[i + 1]
  BY <1>1, <1>3, HeadTailProperties
<1>6. /\ Tail(s) \o t \in Seq(S) /\ Len(Tail(s) \o t) = Len(Tail(s)) + Len(t)
      /\ \A i \in 1 .. Len(Tail(s)) + Len(t) :
           (Tail(s) \o t)[i] = IF i <= Len(Tail(s)) THEN Tail(s)[i] ELSE t[i - Len(Tail(s))]
  BY <1>5, ConcatProperties
<1>7. Len(Tail(s \o t)) = Len(Tail(s) \o t)
  BY <1>1, <1>2, <1>5, <1>6
<1>8. ASSUME NEW i \in 1 .. Len(Tail(s \o t)) PROVE Tail(s \o t)[i] = (Tail(s) \o t)[i]
  BY <1>1, <1>2, <1>5, <1>6
<1>9. Tail(s \o t) = Tail(s) \o t
  BY <1>5, <1>6, <1>7, <1>8, SeqEqual
<1> QED BY <1>1, <1>3, <1>4, <1>9

\* A part of a sequence.
LEMMA PartOfSeq ==
  ASSUME NEW S, NEW s \in Seq(S), NEW m \in Nat \ {0}, NEW n \in 0 .. Len(s)
  PROVE  SubSeq(s, m, n) \in Seq(S)
<1>1. Len(s) \in Nat /\ m \in Int /\ n \in Int
  BY LenProperties
<1>2. \A i \in m .. n : s[i] \in S
  <2> SUFFICES ASSUME NEW i \in m .. n PROVE s[i] \in S
    OBVIOUS
  <2>1. i \in 1 .. Len(s)
    BY <1>1
  <2> QED BY <2>1, ElementOfSeq
<1> QED BY <1>1, <1>2, SubSeqProperties

\* A sequence cut in two.
LEMMA CutInTwo ==
  ASSUME NEW S, NEW s \in Seq(S), NEW k \in 0 .. Len(s)
  PROVE  /\ SubSeq(s, 1, k) \in Seq(S) /\ SubSeq(s, k + 1, Len(s)) \in Seq(S)
         /\ SubSeq(s, 1, k) \o SubSeq(s, k + 1, Len(s)) = s
<1>1. Len(s) \in Nat /\ \A i \in 1 .. Len(s) : s[i] \in S
  BY LenProperties, ElementOfSeq
<1>2. SubSeq(s, 1, k) \in Seq(S) /\ SubSeq(s, k + 1, Len(s)) \in Seq(S)
  <2>1. k + 1 \in Nat \ {0} /\ Len(s) \in 0 .. Len(s) /\ 1 \in Nat \ {0}
    BY <1>1
  <2>2. SubSeq(s, 1, k) \in Seq(S)
    BY <2>1, PartOfSeq
  <2>3. SubSeq(s, k + 1, Len(s)) \in Seq(S)
    BY <2>1, PartOfSeq
  <2> QED BY <2>2, <2>3
<1>3. SubSeq(s, 1, k) \o SubSeq(s, k + 1, Len(s)) = SubSeq(s, 1, Len(s))
  <2>1. 1 \in 1 .. Len(s) + 1 /\ k \in 1 - 1 .. Len(s) /\ Len(s) \in k .. Len(s)
    BY <1>1
  <2> QED BY <2>1, ConcatAdjacentSubSeq
<1> QED BY <1>2, <1>3, SubSeqFull

\* A sequence without its head, cut in two behind at most n elements.
LEMMA CutTail ==
  ASSUME NEW S, NEW s \in Seq(S), s # <<>>, NEW n \in Nat \ {0}
  PROVE  LET front == SubSeq(s, 2, IF Len(s) <= n THEN Len(s) ELSE n)
             rest == SubSeq(s, n + 1, Len(s))
         IN  front \in Seq(S) /\ rest \in Seq(S) /\ front \o rest = Tail(s)
<1> DEFINE front == SubSeq(s, 2, IF Len(s) <= n THEN Len(s) ELSE n)
           rest == SubSeq(s, n + 1, Len(s))
<1>1. Len(s) \in Nat \ {0} /\ \A i \in 1 .. Len(s) : s[i] \in S
  BY EmptySeq, LenProperties, ElementOfSeq
<1>2. PICK m \in 1 .. Len(s) : m = IF Len(s) <= n THEN Len(s) ELSE n
  BY <1>1
<1>3. rest = SubSeq(s, m + 1, Len(s))
  <2>1. CASE Len(s) <= n
    <3>1. rest = <<>> /\ SubSeq(s, m + 1, Len(s)) = <<>>
      BY <1>1, <1>2, <2>1, SubSeqEmpty
    <3> QED BY <3>1
  <2>2. CASE ~(Len(s) <= n)
    BY <1>2, <2>2
  <2> QED BY <2>1, <2>2
<1>4. front = SubSeq(s, 2, m)
  BY <1>2
<1>5. front \in Seq(S) /\ rest \in Seq(S)
  <2>1. m + 1 \in Nat \ {0} /\ m \in 0 .. Len(s) /\ Len(s) \in 0 .. Len(s)
    BY <1>1
  <2>2. SubSeq(s, 2, m) \in Seq(S)
    BY <2>1, PartOfSeq
  <2>3. SubSeq(s, m + 1, Len(s)) \in Seq(S)
    BY <2>1, PartOfSeq
  <2> QED BY <1>3, <1>4, <2>2, <2>3
<1>6. SubSeq(s, 2, m) \o SubSeq(s, m + 1, Len(s)) = SubSeq(s, 2, Len(s))
  <2>1. 2 \in 1 .. Len(s) + 1 /\ m \in 2 - 1 .. Len(s) /\ Len(s) \in m .. Len(s)
    BY <1>1
  <2> QED BY <2>1, ConcatAdjacentSubSeq
<1> QED BY <1>3, <1>4, <1>5, <1>6, TailIsSubSeq

(***************************************************************************)
(* Messages in a stream                                                    *)
(***************************************************************************)
\* A head is followed by its body, and a body by nothing but the start of a message.
Paired(s) ==
  \A i \in 1 .. Len(s) :
    /\ s[i].kind = "head" => i < Len(s) /\ s[i + 1] = BodyOf(s[i].update)
    /\ s[i].kind # "head" /\ i < Len(s) => s[i + 1].kind # "body"

\* What the handler is waiting for comes first.
Begins(s, body) ==
  IF body THEN s # <<>> /\ s[1].kind = "body" ELSE s # <<>> => s[1].kind # "body"

\* Behind what was read first comes what belongs there.
LEMMA PairedTail ==
  ASSUME NEW s \in Seq(Fragment), s # <<>>, Paired(s)
  PROVE  Paired(Tail(s)) /\ Begins(Tail(s), Head(s).kind = "head")
<1>1. /\ Len(s) \in Nat \ {0} /\ Tail(s) \in Seq(Fragment) /\ Len(Tail(s)) = Len(s) - 1
      /\ \A i \in 1 .. Len(Tail(s)) : Tail(s)[i] = s[i + 1]
  BY HeadTailProperties, EmptySeq
<1>2. Paired(Tail(s))
  <2> SUFFICES ASSUME NEW i \in 1 .. Len(Tail(s))
               PROVE  /\ Tail(s)[i].kind = "head" =>
                           i < Len(Tail(s)) /\ Tail(s)[i + 1] = BodyOf(Tail(s)[i].update)
                      /\ Tail(s)[i].kind # "head" /\ i < Len(Tail(s)) => Tail(s)[i + 1].kind # "body"
    BY DEF Paired
  <2>1. i + 1 \in 1 .. Len(s) /\ Tail(s)[i] = s[i + 1]
    BY <1>1
  <2>2. i < Len(Tail(s)) => Tail(s)[i + 1] = s[(i + 1) + 1]
    BY <1>1
  <2>3. i < Len(Tail(s)) <=> i + 1 < Len(s)
    BY <1>1
  <2> QED BY <2>1, <2>2, <2>3 DEF Paired
<1>3. Head(s) = s[1]
  BY <1>1
<1>4. Tail(s) # <<>> => Len(s) > 1 /\ Tail(s)[1] = s[2]
  <2>1. Tail(s) # <<>> => Len(Tail(s)) \in Nat \ {0}
    BY <1>1, EmptySeq
  <2> QED BY <1>1, <2>1
<1>5. Len(s) > 1 => Tail(s) # <<>>
  <2> SUFFICES ASSUME Tail(s) = <<>> PROVE Len(s) <= 1
    BY <1>1
  <2>1. Len(Tail(s)) = 0
    BY EmptySeq
  <2>2. Len(s) - 1 = 0
    BY <1>1, <2>1, Zenon
  <2>3. ASSUME NEW n \in Nat \ {0}, n - 1 = 0 PROVE n <= 1
    BY <2>3
  <2> QED BY <1>1, <2>2, <2>3, Zenon
<1>6. /\ s[1].kind = "head" => Len(s) > 1 /\ s[2] = BodyOf(s[1].update)
      /\ s[1].kind # "head" /\ Len(s) > 1 => s[2].kind # "body"
  BY <1>1 DEF Paired
<1> QED BY <1>2, <1>3, <1>4, <1>5, <1>6 DEF Begins, BodyOf

\* A message is sent behind all others.
LEMMA PairedConcat ==
  ASSUME NEW s \in Seq(Fragment), NEW t \in Seq(Fragment), NEW b \in BOOLEAN,
         Paired(s), Paired(t), Begins(s, b), Begins(t, FALSE)
  PROVE  Paired(s \o t) /\ Begins(s \o t, b)
<1>1. /\ s \o t \in Seq(Fragment) /\ Len(s \o t) = Len(s) + Len(t)
      /\ \A i \in 1 .. Len(s) + Len(t) : (s \o t)[i] = IF i <= Len(s) THEN s[i] ELSE t[i - Len(s)]
  BY ConcatProperties
<1>2. Len(s) \in Nat /\ Len(t) \in Nat /\ (Len(t) > 0 => t # <<>>)
  BY LenProperties
<1>3. Paired(s \o t)
  <2> SUFFICES ASSUME NEW i \in 1 .. Len(s) + Len(t)
               PROVE  /\ (s \o t)[i].kind = "head" =>
                           i < Len(s) + Len(t) /\ (s \o t)[i + 1] = BodyOf((s \o t)[i].update)
                      /\ (s \o t)[i].kind # "head" /\ i < Len(s) + Len(t) => (s \o t)[i + 1].kind # "body"
    BY <1>1 DEF Paired
  <2>1. CASE i < Len(s)
    <3>1. (s \o t)[i] = s[i] /\ (s \o t)[i + 1] = s[i + 1] /\ i \in 1 .. Len(s)
      BY <1>1, <1>2, <2>1
    <3> QED BY <1>2, <2>1, <3>1 DEF Paired
  <2>2. CASE i = Len(s)
    <3>1. (s \o t)[i] = s[i] /\ i \in 1 .. Len(s) /\ s[i].kind # "head"
      BY <1>1, <1>2, <2>2 DEF Paired
    <3>2. i < Len(s) + Len(t) => (s \o t)[i + 1] = t[1] /\ t[1].kind # "body"
      <4> SUFFICES ASSUME i < Len(s) + Len(t) PROVE (s \o t)[i + 1] = t[1] /\ t[1].kind # "body"
        OBVIOUS
      <4>1. t # <<>> /\ i + 1 \in 1 .. Len(s) + Len(t) /\ ~(i + 1 <= Len(s)) /\ i + 1 - Len(s) = 1
        BY <1>2, <2>2
      <4> QED BY <1>1, <4>1 DEF Begins
    <3> QED BY <3>1, <3>2
  <2>3. CASE i > Len(s)
    <3>1. PICK n \in 1 .. Len(t) : n = i - Len(s)
      BY <1>2, <2>3
    <3>2. (s \o t)[i] = t[n] /\ (i < Len(s) + Len(t) <=> n < Len(t))
      BY <1>1, <1>2, <2>3, <3>1
    <3>3. n < Len(t) => (s \o t)[i + 1] = t[n + 1]
      <4> SUFFICES ASSUME n < Len(t) PROVE (s \o t)[i + 1] = t[n + 1]
        OBVIOUS
      <4>1. i + 1 \in 1 .. Len(s) + Len(t) /\ ~(i + 1 <= Len(s)) /\ i + 1 - Len(s) = n + 1
        BY <1>2, <2>3, <3>1
      <4> QED BY <1>1, <4>1
    <3> QED BY <3>2, <3>3 DEF Paired
  <2> QED BY <1>2, <2>1, <2>2, <2>3
<1>4. Begins(s \o t, b)
  <2>1. CASE s = <<>>
    <3>1. s \o t = t /\ ~b
      BY <2>1, ConcatEmptySeq DEF Begins
    <3> QED BY <3>1 DEF Begins
  <2>2. CASE s # <<>>
    <3>1. Len(s) >= 1 /\ s \o t # <<>>
      BY <1>2, <2>2, EmptySeq, HeadTailConcat
    <3>2. (s \o t)[1] = s[1]
      BY <1>1, <1>2, <3>1
    <3> QED BY <2>2, <3>1, <3>2 DEF Begins
  <2> QED BY <2>1, <2>2
<1> QED BY <1>3, <1>4

(***************************************************************************)
(* ReadFromRFBServer()                                                     *)
(***************************************************************************)
\* Whatever the layer, however much is read ahead: a read takes the first fragment of
\* what has been received, and the rest stays in order.
LEMMA ReadTakesFirst ==
  ASSUME TypeOK, NEW f \in Fragment, Read(f)
  PROVE  /\ buf' \in Seq(Fragment) /\ decoded' \in Seq(Fragment) /\ sock' \in Seq(Fragment)
         /\ layer = "plain" => decoded' = <<>>
         /\ Received \in Seq(Fragment) /\ Received # <<>>
         /\ f = Head(Received) /\ Received' = Tail(Received)
<1>1. /\ buf \in Seq(Fragment) /\ decoded \in Seq(Fragment) /\ sock \in Seq(Fragment)
      /\ layer \in {"plain", "records"} /\ (layer = "plain" => decoded = <<>>)
      /\ BufFragments \in Nat \ {0} /\ Len(sock) \in Nat
  BY LoopAssumption, LenProperties DEF TypeOK
<1>2. ASSUME buf # <<>>, f = Head(buf), buf' = Tail(buf), UNCHANGED <<sock, decoded>>
      PROVE  /\ Received \in Seq(Fragment) /\ Received # <<>> /\ buf' \in Seq(Fragment)
             /\ f = Head(Received) /\ Received' = Tail(Received)
  <2>1. PICK kept \in Seq(Fragment) :
          /\ kept = buf \o decoded /\ kept # <<>>
          /\ Head(kept) = Head(buf) /\ Tail(kept) = Tail(buf) \o decoded
    BY <1>1, <1>2, HeadTailConcat
  <2>2. /\ Received # <<>> /\ Received \in Seq(Fragment)
        /\ Head(Received) = Head(kept) /\ Tail(Received) = Tail(kept) \o sock
    <3>1. /\ kept \o sock # <<>> /\ kept \o sock \in Seq(Fragment)
          /\ Head(kept \o sock) = Head(kept) /\ Tail(kept \o sock) = Tail(kept) \o sock
      <4>1. kept # <<>> /\ sock \in Seq(Fragment)
        BY <1>1, <2>1
      <4> QED BY <4>1, HeadTailConcat
    <3>2. Received = kept \o sock
      BY <2>1 DEF Received
    <3> QED BY <3>1, <3>2
  <2>3. Tail(buf) \in Seq(Fragment)
    BY <1>1, <1>2, HeadTailProperties
  <2> QED BY <1>2, <2>1, <2>2, <2>3 DEF Received
<1>3. buf = <<>> => Received = decoded \o sock
  <2>1. buf = <<>> => buf \o decoded = decoded
    BY <1>1, ConcatEmptySeq
  <2> QED BY <2>1 DEF Received
<1>4. ASSUME buf = <<>>, layer = "plain", ReadSocket(f)
      PROVE  /\ buf' \in Seq(Fragment) /\ sock' \in Seq(Fragment) /\ decoded' = <<>>
             /\ Received \in Seq(Fragment) /\ Received # <<>>
             /\ f = Head(Received) /\ Received' = Tail(Received)
  <2>1. decoded = <<>> /\ decoded' = <<>> /\ Received = sock
    BY <1>1, <1>3, <1>4, ConcatEmptySeq DEF ReadSocket
  <2>2. PICK k \in 1 .. BufFragments :
          /\ k <= Len(sock)
          /\ Fill(f, SubSeq(sock, 1, k))
          /\ sock' = SubSeq(sock, k + 1, Len(sock))
    BY <1>4 DEF ReadSocket
  <2> DEFINE taken == SubSeq(sock, 1, k)
  <2>3. k \in 0 .. Len(sock) /\ k \in Nat \ {0}
    BY <1>1, <2>2
  <2>4. taken \in Seq(Fragment) /\ sock' \in Seq(Fragment) /\ taken \o sock' = sock
    BY <1>1, <2>2, <2>3, CutInTwo
  <2>5. Len(taken) = k
    BY <1>1, <2>3
  <2>6. /\ taken # <<>> /\ f = Head(taken)
        /\ buf' = SubSeq(taken, 2, IF Len(taken) <= BufFragments THEN Len(taken) ELSE BufFragments)
    BY <2>2 DEF Fill
  <2> HIDE DEF taken
  <2>7. SubSeq(taken, BufFragments + 1, Len(taken)) = <<>>
    BY <1>1, <2>2, <2>5, SubSeqEmpty
  <2>8. buf' \in Seq(Fragment) /\ buf' \o <<>> = Tail(taken)
    BY <1>1, <2>4, <2>6, <2>7, CutTail
  <2>9. /\ Head(taken \o sock') = Head(taken) /\ taken \o sock' # <<>>
        /\ Tail(taken \o sock') = Tail(taken) \o sock'
    BY <2>4, <2>6, HeadTailConcat
  <2>10. Received' = Tail(taken) \o sock'
    BY <2>1, <2>8 DEF Received
  <2> QED BY <1>1, <2>1, <2>4, <2>6, <2>8, <2>9, <2>10
<1>5. ASSUME buf = <<>>, ReadRecord(f)
      PROVE  /\ buf' \in Seq(Fragment) /\ sock' \in Seq(Fragment) /\ decoded' \in Seq(Fragment)
             /\ Received \in Seq(Fragment) /\ Received # <<>>
             /\ f = Head(Received) /\ Received' = Tail(Received)
  <2>1. PICK k \in 0 .. Len(sock) :
          /\ Fill(f, decoded \o SubSeq(sock, 1, k))
          /\ decoded' = SubSeq(decoded \o SubSeq(sock, 1, k), BufFragments + 1,
                               Len(decoded \o SubSeq(sock, 1, k)))
          /\ sock' = SubSeq(sock, k + 1, Len(sock))
    BY <1>5 DEF ReadRecord
  <2>2. PICK part \in Seq(Fragment) :
          part = SubSeq(sock, 1, k) /\ sock' \in Seq(Fragment) /\ part \o sock' = sock
    BY <1>1, <2>1, CutInTwo
  <2>3. PICK record \in Seq(Fragment) : record = decoded \o part
    BY <1>1, ConcatProperties
  <2>4. /\ record # <<>> /\ f = Head(record)
        /\ buf' = SubSeq(record, 2, IF Len(record) <= BufFragments THEN Len(record) ELSE BufFragments)
        /\ decoded' = SubSeq(record, BufFragments + 1, Len(record))
    BY <2>1, <2>2, <2>3 DEF Fill
  <2>5. buf' \in Seq(Fragment) /\ decoded' \in Seq(Fragment) /\ buf' \o decoded' = Tail(record)
    BY <1>1, <2>4, CutTail
  <2>6. /\ record \o sock' # <<>> /\ record \o sock' \in Seq(Fragment)
        /\ Head(record \o sock') = Head(record) /\ Tail(record \o sock') = Tail(record) \o sock'
    BY <2>2, <2>4, HeadTailConcat
  <2>7. record \o sock' = Received
    <3>1. (decoded \o part) \o sock' = decoded \o (part \o sock')
      <4>1. decoded \in Seq(Fragment) /\ sock' \in Seq(Fragment)
        BY <1>1, <2>2
      <4> QED BY <4>1, ConcatAssociative
    <3> QED BY <1>3, <1>5, <2>2, <2>3, <3>1
  <2>8. Received' = Tail(record) \o sock'
    BY <2>5 DEF Received
  <2> QED BY <2>2, <2>4, <2>5, <2>6, <2>7, <2>8
<1>6. CASE buf # <<>> /\ f = Head(buf) /\ buf' = Tail(buf) /\ UNCHANGED <<sock, decoded>>
  BY <1>1, <1>2, <1>6
<1>7. CASE buf = <<>> /\ ReadMore(f)
  BY <1>1, <1>4, <1>5, <1>7 DEF ReadMore
<1> QED BY <1>6, <1>7 DEF Read

(***************************************************************************)
(* The loop                                                                *)
(***************************************************************************)
LoopInv ==
  /\ TypeOK /\ queued <= raised
  /\ Paired(Stream) /\ Begins(Stream, pc = "body")
  /\ closed => wire = <<>>

\* The stream is made of fragments.
LEMMA StreamTypes ==
  ASSUME TypeOK
  PROVE  /\ buf \in Seq(Fragment) /\ decoded \in Seq(Fragment) /\ sock \in Seq(Fragment)
         /\ wire \in Seq(Fragment) /\ buf \o decoded \in Seq(Fragment)
         /\ Received \in Seq(Fragment) /\ Stream \in Seq(Fragment)
<1>1. /\ buf \in Seq(Fragment) /\ decoded \in Seq(Fragment) /\ sock \in Seq(Fragment)
      /\ wire \in Seq(Fragment)
  BY DEF TypeOK
<1>2. buf \o decoded \in Seq(Fragment)
  BY <1>1, ConcatProperties
<1>3. Received \in Seq(Fragment)
  BY <1>1, <1>2, ConcatProperties DEF Received
<1>4. Stream \in Seq(Fragment)
  BY <1>1, <1>3, ConcatProperties DEF Stream
<1> QED BY <1>1, <1>2, <1>3, <1>4

\* An element that moves from the front of what follows to the end of what is before.
LEMMA MoveFirst ==
  ASSUME NEW r \in Seq(Fragment), NEW s \in Seq(Fragment), NEW t \in Seq(Fragment), t # <<>>
  PROVE  (r \o Append(s, Head(t))) \o Tail(t) = (r \o s) \o t
<1>1. Head(t) \in Fragment /\ Tail(t) \in Seq(Fragment)
  BY HeadTailProperties
<1>2. PICK e \in Fragment, u \in Seq(Fragment) : e = Head(t) /\ u = Tail(t)
  BY <1>1
<1>3. t = <<e>> \o u
  <2>1. Len(t) \in Nat \ {0} /\ Len(u) = Len(t) - 1 /\ \A i \in 1 .. Len(u) : u[i] = t[i + 1]
    BY <1>2, HeadTailProperties, EmptySeq
  <2>2. e = t[1]
    BY <1>2, <2>1
  <2>3. <<e>> \in Seq(Fragment) /\ Len(<<e>>) = 1 /\ <<e>>[1] = e
    OBVIOUS
  <2>4. /\ <<e>> \o u \in Seq(Fragment) /\ Len(<<e>> \o u) = 1 + Len(u)
        /\ \A i \in 1 .. 1 + Len(u) : (<<e>> \o u)[i] = IF i <= 1 THEN <<e>>[i] ELSE u[i - 1]
    BY <2>3, ConcatProperties
  <2>5. Len(t) = Len(<<e>> \o u)
    BY <2>1, <2>4
  <2>6. ASSUME NEW i \in 1 .. Len(t) PROVE t[i] = (<<e>> \o u)[i]
    <3>1. CASE i = 1
      BY <3>1, <2>1, <2>2, <2>3, <2>4
    <3>2. CASE i > 1
      <4>1. i - 1 \in 1 .. Len(u) /\ (i - 1) + 1 = i /\ i \in 1 .. 1 + Len(u) /\ ~(i <= 1)
        BY <2>1, <3>2
      <4> QED BY <2>1, <2>4, <4>1
    <3> QED BY <2>1, <3>1, <3>2
  <2> QED BY <2>4, <2>5, <2>6, SeqEqual
<1>4. <<e>> \in Seq(Fragment) /\ Append(s, e) = s \o <<e>>
  BY AppendIsConcat
<1>5. s \o <<e>> \in Seq(Fragment) /\ r \o s \in Seq(Fragment)
  BY <1>4, ConcatProperties
<1>6. (r \o (s \o <<e>>)) = (r \o s) \o <<e>>
  BY <1>4, ConcatAssociative
<1>7. ((r \o s) \o <<e>>) \o u = (r \o s) \o (<<e>> \o u)
  BY <1>4, <1>5, ConcatAssociative
<1> QED BY <1>2, <1>3, <1>4, <1>6, <1>7

\* The network only moves fragments on.
LEMMA ArriveStream == ASSUME TypeOK, Arrive PROVE Stream' = Stream
<1>1. /\ buf' = buf /\ decoded' = decoded /\ sock' = Append(sock, Head(wire)) /\ wire' = Tail(wire)
      /\ wire # <<>>
  BY DEF Arrive
<1>2. /\ buf \o decoded \in Seq(Fragment) /\ sock \in Seq(Fragment)
      /\ wire \in Seq(Fragment) /\ wire # <<>>
  BY <1>1, StreamTypes
<1>3. PICK front \in Seq(Fragment) : front = buf \o decoded
  BY <1>2
<1>4. (front \o Append(sock, Head(wire))) \o Tail(wire) = (front \o sock) \o wire
  <2>1. sock \in Seq(Fragment) /\ wire \in Seq(Fragment) /\ wire # <<>>
    BY <1>2
  <2> QED BY <2>1, MoveFirst
<1>5. /\ Stream = ((buf \o decoded) \o sock) \o wire
      /\ Stream' = ((buf' \o decoded') \o sock') \o wire'
  BY <1>2, StreamTypes, ConcatAssociative DEF Stream, Received
<1> QED BY <1>1, <1>3, <1>4, <1>5

\* A message is put behind all that is on its way.
LEMMA SendStream ==
  ASSUME TypeOK, NEW t \in Seq(Fragment), wire' = wire \o t, UNCHANGED <<buf, decoded, sock>>
  PROVE  Stream' = Stream \o t
<1>1. Received' = Received
  BY DEF Received
<1>2. (Received \o wire) \o t = Received \o (wire \o t)
  <2>1. Received \in Seq(Fragment) /\ wire \in Seq(Fragment)
    BY StreamTypes
  <2> QED BY <2>1, ConcatAssociative
<1> QED BY <1>1, <1>2 DEF Stream

\* A read takes the first fragment of the stream.
LEMMA ReadStream ==
  ASSUME TypeOK, NEW f \in Fragment, Read(f), wire' = wire
  PROVE  Stream # <<>> /\ f = Head(Stream) /\ Stream' = Tail(Stream)
<1>1. Received # <<>> /\ f = Head(Received) /\ Received' = Tail(Received) /\ Received \in Seq(Fragment)
  BY ReadTakesFirst
<1>2. wire \in Seq(Fragment)
  BY StreamTypes
<1>3. /\ Received \o wire # <<>> /\ Head(Received \o wire) = Head(Received)
      /\ Tail(Received \o wire) = Tail(Received) \o wire
  BY <1>1, <1>2, HeadTailConcat
<1> QED BY <1>1, <1>3 DEF Stream

\* What the server can send about.
LEMMA UpdateTypes ==
  /\ Other \in Fragment
  /\ \A result \in {"size", "refusal"} : Answer(result) \in Update
  /\ TypeOK => [version |-> screen, last |-> encoder] \in Update
<1>1. ASSUME NEW result \in {"size", "refusal"} PROVE Answer(result) \in Update
  BY LoopAssumption DEF Answer, Update
<1>2. Other \in Fragment
  <2>1. Answer("refusal") \in Update
    BY <1>1
  <2> QED BY <2>1 DEF Other, Fragment
<1>3. TypeOK => [version |-> screen, last |-> encoder] \in Update
  BY LoopAssumption DEF TypeOK, Update
<1> QED BY <1>1, <1>2, <1>3

\* The messages the server sends.
LEMMA NewMessages ==
  /\ \A u \in Update :
       /\ <<HeadOf(u), BodyOf(u)>> \in Seq(Fragment)
       /\ Paired(<<HeadOf(u), BodyOf(u)>>) /\ Begins(<<HeadOf(u), BodyOf(u)>>, FALSE)
  /\ <<Other>> \in Seq(Fragment) /\ Paired(<<Other>>) /\ Begins(<<Other>>, FALSE)
<1>1. Other \in Fragment /\ Other.kind = "other"
  BY UpdateTypes DEF Other
<1>2. <<Other>> \in Seq(Fragment) /\ Paired(<<Other>>) /\ Begins(<<Other>>, FALSE)
  <2>1. <<Other>> \in Seq(Fragment) /\ Len(<<Other>>) = 1 /\ <<Other>>[1] = Other
    BY <1>1
  <2>2. Paired(<<Other>>)
    BY <1>1, <2>1 DEF Paired
  <2>3. Begins(<<Other>>, FALSE)
    BY <1>1, <2>1 DEF Begins
  <2> QED BY <2>1, <2>2, <2>3
<1>3. ASSUME NEW u \in Update
      PROVE  /\ <<HeadOf(u), BodyOf(u)>> \in Seq(Fragment)
             /\ Paired(<<HeadOf(u), BodyOf(u)>>) /\ Begins(<<HeadOf(u), BodyOf(u)>>, FALSE)
  <2>1. /\ HeadOf(u) \in Fragment /\ HeadOf(u).kind = "head" /\ HeadOf(u).update = u
        /\ BodyOf(u) \in Fragment /\ BodyOf(u).kind = "body"
    BY DEF HeadOf, BodyOf, Fragment
  <2> DEFINE m == <<HeadOf(u), BodyOf(u)>>
  <2>2. m \in Seq(Fragment) /\ Len(m) = 2 /\ m[1] = HeadOf(u) /\ m[2] = BodyOf(u)
    BY <2>1
  <2> HIDE DEF m
  <2>3. Paired(m)
    <3> SUFFICES ASSUME NEW i \in 1 .. 2
                 PROVE  /\ m[i].kind = "head" => i < 2 /\ m[i + 1] = BodyOf(m[i].update)
                        /\ m[i].kind # "head" /\ i < 2 => m[i + 1].kind # "body"
      BY <2>2 DEF Paired
    <3>1. CASE i = 1
      BY <3>1, <2>1, <2>2
    <3>2. CASE i = 2
      BY <3>2, <2>1, <2>2
    <3> QED BY <3>1, <3>2
  <2>4. Begins(m, FALSE)
    BY <2>1, <2>2 DEF Begins
  <2> QED BY <2>2, <2>3, <2>4 DEF m
<1> QED BY <1>2, <1>3

\* An update on its way is made of fragments.
LEMMA SendTypes ==
  ASSUME TypeOK, NEW u \in Update, Send(u)
  PROVE  /\ wire' \in Seq(Fragment)
         /\ \E m \in Seq(Fragment) : /\ m = <<HeadOf(u), BodyOf(u)>> /\ wire' = wire \o m
                                    /\ Paired(m) /\ Begins(m, FALSE)
<1>1. wire \in Seq(Fragment)
  BY StreamTypes
<1>2. PICK m \in Seq(Fragment) :
        m = <<HeadOf(u), BodyOf(u)>> /\ Paired(m) /\ Begins(m, FALSE)
  BY NewMessages
<1>3. wire' = wire \o m
  BY <1>2 DEF Send
<1>4. wire' \in Seq(Fragment)
  BY <1>1, <1>3, ConcatProperties
<1> QED BY <1>2, <1>3, <1>4

\* Types, one action at a time.
LEMMA TypeStep == ASSUME TypeOK, queued <= raised, [Next]_vars PROVE TypeOK' /\ queued' <= raised'
<1>1. CASE ScreenChanges
  BY <1>1, LoopAssumption DEF ScreenChanges, TypeOK, user, client
<1>2. CASE ServerReceives
  <2>1. /\ Head(requests) \in {"incremental", "full", "resize"}
        /\ Tail(requests) \in Seq({"incremental", "full", "resize"})
    BY <1>2, HeadTailProperties DEF ServerReceives, TypeOK
  <2>2. /\ requests' \in Seq({"incremental", "full", "resize"})
        /\ asked' \in {"none", "incremental", "full"} /\ owed' \in BOOLEAN
    BY <1>2, <2>1 DEF ServerReceives, TypeOK
  <2>3. UNCHANGED <<layer, encoder, chatter, screen, offered, others, wire, sock, decoded, closed,
                    buf, pc, user, client>>
    BY <1>2 DEF ServerReceives
  <2> QED BY <2>2, <2>3 DEF TypeOK, user, client
<1>13. CASE ServerAnswersResize
  <2>1. PICK u \in Update : Send(u)
    BY <1>13, UpdateTypes DEF ServerAnswersResize
  <2>2. wire' \in Seq(Fragment)
    BY <2>1, SendTypes
  <2>3. /\ owed' = FALSE
        /\ UNCHANGED <<layer, encoder, chatter, screen, offered, asked, others, requests, sock,
                       decoded, closed, buf, pc, user, client>>
    BY <1>13 DEF ServerAnswersResize
  <2> QED BY <2>2, <2>3 DEF TypeOK, user, client
<1>3. CASE ServerUpdates
  <2>1. wire' \in Seq(Fragment)
    BY <1>3, UpdateTypes, SendTypes DEF ServerUpdates
  <2>2. offered' \in 0 .. MaxScreen
    BY <1>3, LoopAssumption DEF ServerUpdates, TypeOK
  <2> QED BY <1>3, <2>1, <2>2 DEF ServerUpdates, TypeOK, user, client
<1>4. CASE ServerSendsOther
  <2>1. Other \in Fragment
    BY UpdateTypes
  <2>2. wire' \in Seq(Fragment)
    BY <1>4, <2>1, AppendProperties DEF ServerSendsOther, TypeOK
  <2>3. others' \in Nat
    BY <1>4 DEF ServerSendsOther, TypeOK
  <2> QED BY <1>4, <2>2, <2>3 DEF ServerSendsOther, TypeOK, user, client
<1>5. CASE ServerCloses
  BY <1>5 DEF ServerCloses, TypeOK, server, user, client
<1>6. CASE Arrive
  <2>1. Head(wire) \in Fragment /\ Tail(wire) \in Seq(Fragment)
    BY <1>6, HeadTailProperties DEF Arrive, TypeOK
  <2>2. sock' \in Seq(Fragment) /\ wire' \in Seq(Fragment)
    BY <1>6, <2>1, AppendProperties DEF Arrive, TypeOK
  <2> QED BY <1>6, <2>2 DEF Arrive, TypeOK, server, user, client
<1>7. CASE UserActs
  <2>1. queued' \in 0 .. MaxEvents /\ raised' \in 0 .. MaxEvents /\ queued' <= raised'
    BY <1>7, LoopAssumption DEF UserActs, TypeOK
  <2>2. UNCHANGED <<server, requests, wire, sock, decoded, closed, buf, pc, client>>
    BY <1>7 DEF UserActs
  <2> QED BY <2>1, <2>2 DEF TypeOK, server, client
<1>8. CASE HandleEvent
  <2>1. requests' \in Seq({"incremental", "full", "resize"}) /\ requestedResize' \in BOOLEAN
    <3>1. requests \in Seq({"incremental", "full", "resize"}) /\ requestedResize \in BOOLEAN
      BY DEF TypeOK
    <3>2. CASE WindowExposed
      BY <3>1, <3>2, AppendProperties DEF WindowExposed, WithRequest
    <3>3. CASE WindowResized
      BY <3>1, <3>3, ConcatProperties DEF WindowResized
    <3>4. CASE UNCHANGED <<requests, requestedResize>>
      BY <3>1, <3>4
    <3> QED BY <1>8, <3>2, <3>3, <3>4 DEF HandleEvent
  <2>2. queued' \in 0 .. MaxEvents /\ queued' <= raised /\ raised' = raised
    BY <1>8, LoopAssumption DEF HandleEvent, TypeOK
  <2>3. /\ UNCHANGED <<server, wire, sock, decoded, closed, buf, raised, shown>>
        /\ pc' \in {"poll", "stopped"}
    BY <1>8 DEF HandleEvent
  <2> QED BY <2>1, <2>2, <2>3 DEF TypeOK, server
<1>9. ASSUME NoEvent \/ MessageWaiting \/ NothingWaiting \/ WaitFails \/ EndOfStream PROVE TypeOK' /\ queued' <= raised'
  <2>1. /\ UNCHANGED <<server, requests, wire, sock, decoded, closed, buf, user, client>>
        /\ pc' \in {"poll", "wait", "handle", "body", "stopped"}
    BY <1>9 DEF NoEvent, MessageWaiting, NothingWaiting, WaitFails, EndOfStream
  <2> QED BY <2>1 DEF TypeOK, server, user, client
<1>10. CASE ReadMessage
  <2>1. /\ buf' \in Seq(Fragment) /\ decoded' \in Seq(Fragment) /\ sock' \in Seq(Fragment)
        /\ layer = "plain" => decoded' = <<>>
    BY <1>10, ReadTakesFirst DEF ReadMessage
  <2>2. /\ UNCHANGED <<server, requests, wire, closed, user, client>> /\ pc' \in {"body", "poll"}
    BY <1>10 DEF ReadMessage
  <2> QED BY <2>1, <2>2 DEF TypeOK, server, user, client
<1>11. CASE ReadUpdate
  <2>1. PICK f \in Fragment :
          /\ Read(f)
          /\ shown' = Drawn(f.update)
          /\ requestedResize' = (requestedResize /\ f.update.last \notin {"size", "refusal"})
          /\ requests' = IF f.update.last = "h264" THEN requests
                         ELSE WithRequest("incremental", requestedResize')
    BY <1>11 DEF ReadUpdate
  <2>2. /\ buf' \in Seq(Fragment) /\ decoded' \in Seq(Fragment) /\ sock' \in Seq(Fragment)
        /\ layer = "plain" => decoded' = <<>>
    BY <2>1, ReadTakesFirst
  <2>3. shown' \in 0 .. MaxScreen /\ requestedResize' \in BOOLEAN
    BY <2>1 DEF Drawn, Fragment, Update, TypeOK
  <2>4. requests' \in Seq({"incremental", "full", "resize"})
    BY <2>1, AppendProperties DEF WithRequest, TypeOK
  <2>5. UNCHANGED <<server, wire, closed, user>> /\ pc' = "poll"
    BY <1>11 DEF ReadUpdate
  <2> QED BY <2>2, <2>3, <2>4, <2>5 DEF TypeOK, server, user
<1>12. CASE UNCHANGED vars
  BY <1>12 DEF vars, TypeOK, server, user, client
<1> QED BY <1>1, <1>2, <1>3, <1>4, <1>5, <1>6, <1>7, <1>8, <1>9, <1>10, <1>11, <1>12, <1>13 DEF Next, Client

\* Every step keeps the messages in step.
LEMMA LoopStep == ASSUME LoopInv, [Next]_vars PROVE LoopInv'
<1>1. TypeOK /\ TypeOK' /\ queued' <= raised' /\ Stream \in Seq(Fragment)
  BY TypeStep, StreamTypes DEF LoopInv
<1>2. ASSUME Stream' = Stream, (pc' = "body") = (pc = "body"), closed' => wire' = <<>>
      PROVE  LoopInv'
  BY <1>1, <1>2 DEF LoopInv
<1>3. ASSUME \/ ScreenChanges \/ ServerReceives \/ ServerCloses \/ UserActs
             \/ HandleEvent \/ NoEvent \/ MessageWaiting \/ NothingWaiting \/ WaitFails
             \/ UNCHANGED vars
      PROVE  LoopInv'
  <2>1. UNCHANGED <<wire, sock, decoded, buf>>
    BY <1>3, Zenon DEF ScreenChanges, ServerReceives, ServerCloses, UserActs, HandleEvent, NoEvent,
                       MessageWaiting, NothingWaiting, WaitFails, vars
  <2>2. (pc' = "body") = (pc = "body")
    BY <1>3 DEF ScreenChanges, ServerReceives, ServerCloses, UserActs, HandleEvent, NoEvent,
                       MessageWaiting, NothingWaiting, WaitFails, vars
  <2>3. closed' => wire' = <<>>
    BY <1>3, <2>1 DEF ScreenChanges, ServerReceives, ServerCloses, UserActs, HandleEvent, NoEvent,
                       MessageWaiting, NothingWaiting, WaitFails, vars, LoopInv
  <2> QED BY <1>2, <2>1, <2>2, <2>3 DEF Stream, Received
<1>4. ASSUME NEW m \in Seq(Fragment), Paired(m), Begins(m, FALSE), wire' = wire \o m,
             UNCHANGED <<buf, decoded, sock, pc, closed>>, ~closed
      PROVE  LoopInv'
  <2>1. Stream' = Stream \o m
    BY <1>1, <1>4, SendStream
  <2>2. Paired(Stream \o m) /\ Begins(Stream \o m, pc = "body")
    BY <1>1, <1>4, PairedConcat DEF LoopInv
  <2> QED BY <1>1, <1>4, <2>1, <2>2 DEF LoopInv
<1>5. CASE ServerUpdates \/ ServerAnswersResize
  <2>1. PICK u \in Update : Send(u)
    BY <1>1, <1>5, UpdateTypes DEF ServerUpdates, ServerAnswersResize
  <2>2. PICK m \in Seq(Fragment) : wire' = wire \o m /\ Paired(m) /\ Begins(m, FALSE)
    BY <1>1, <2>1, SendTypes
  <2>3. UNCHANGED <<buf, decoded, sock, pc, closed>> /\ ~closed
    BY <1>5 DEF ServerUpdates, ServerAnswersResize, MaySend
  <2> QED BY <1>4, <2>2, <2>3
<1>6. CASE ServerSendsOther
  <2>1. PICK m : m = <<Other>>
    OBVIOUS
  <2>2. m \in Seq(Fragment) /\ Paired(m) /\ Begins(m, FALSE)
    BY <2>1, NewMessages
  <2>3. wire' = wire \o m
    <3>1. wire \in Seq(Fragment)
      BY <1>1, StreamTypes
    <3>2. Other \in Fragment
      BY UpdateTypes
    <3>3. Append(wire, Other) = wire \o <<Other>>
      BY <3>1, <3>2, AppendIsConcat
    <3> QED BY <1>6, <2>1, <3>3 DEF ServerSendsOther
  <2> QED BY <1>4, <1>6, <2>2, <2>3 DEF ServerSendsOther, MaySend
<1>7. CASE Arrive
  <2>1. Stream' = Stream
    BY <1>1, <1>7, ArriveStream
  <2>2. pc' = pc /\ ~closed'
    BY <1>7 DEF Arrive, LoopInv
  <2> QED BY <1>2, <2>1, <2>2
<1>8. ASSUME NEW f \in Fragment, Read(f), UNCHANGED <<wire, closed>>,
             (pc' = "body") = (f.kind = "head")
      PROVE  LoopInv'
  <2>1. Stream # <<>> /\ f = Head(Stream) /\ Stream' = Tail(Stream)
    BY <1>1, <1>8, ReadStream
  <2>2. Paired(Tail(Stream)) /\ Begins(Tail(Stream), Head(Stream).kind = "head")
    BY <1>1, <2>1, PairedTail DEF LoopInv
  <2> QED BY <1>1, <1>8, <2>1, <2>2 DEF LoopInv
<1>9. CASE ReadMessage
  <2>1. PICK f \in Fragment : Read(f) /\ pc' = IF f.kind = "head" THEN "body" ELSE "poll"
    BY <1>9 DEF ReadMessage
  <2>2. UNCHANGED <<wire, closed>>
    BY <1>9 DEF ReadMessage
  <2> QED BY <1>8, <2>1, <2>2
<1>10. CASE ReadUpdate
  <2>1. PICK f \in Fragment : Read(f)
    BY <1>10 DEF ReadUpdate
  <2>2. UNCHANGED <<wire, closed>> /\ pc = "body" /\ pc' = "poll"
    BY <1>10 DEF ReadUpdate
  <2>3. Stream # <<>> /\ f = Head(Stream)
    BY <1>1, <2>1, <2>2, ReadStream
  <2>4. f.kind = "body"
    <3>1. Head(Stream) = Stream[1]
      BY <1>1, <2>3
    <3> QED BY <2>2, <2>3, <3>1 DEF LoopInv, Begins
  <2> QED BY <1>8, <2>1, <2>2, <2>4
<1>11. CASE EndOfStream
  <2>1. /\ buf = <<>> /\ decoded = <<>> /\ sock = <<>> /\ wire = <<>> /\ pc' = "stopped"
        /\ UNCHANGED <<wire, sock, decoded, buf, closed>>
    BY <1>11 DEF EndOfStream, LoopInv
  <2>2. Stream = <<>>
    BY <2>1 DEF Stream, Received
  <2>3. pc # "body" /\ Stream' = Stream
    BY <2>1, <2>2 DEF LoopInv, Begins, Stream, Received
  <2> QED BY <1>2, <2>1, <2>3
<1> QED BY <1>3, <1>5, <1>6, <1>7, <1>9, <1>10, <1>11 DEF Next, Client

LEMMA LoopInit == Init => LoopInv
<1> SUFFICES ASSUME Init PROVE LoopInv
  OBVIOUS
<1>1. Stream = <<>>
  BY DEF Init, Stream, Received
<1>2. TypeOK
  <2>5. /\ chatter \in BOOLEAN /\ layer \in {"plain", "records"} /\ encoder \in {"h264", "other"}
        /\ others \in Nat
    <3>1. PICK c \in Connections :
            layer = c.layer /\ encoder = c.encoder /\ chatter = c.chatter /\ others = c.others
      BY DEF Init
    <3>2. c \in [layer : {"plain", "records"}, encoder : {"h264", "other"},
                 chatter : BOOLEAN, others : Nat]
      BY LoopAssumption
    <3>3. /\ c.layer \in {"plain", "records"} /\ c.encoder \in {"h264", "other"}
          /\ c.chatter \in BOOLEAN /\ c.others \in Nat
      BY <3>2
    <3> QED BY <3>1, <3>3
  <2>1. /\ screen \in 1 .. MaxScreen /\ offered \in 0 .. MaxScreen
        /\ shown \in 0 .. MaxScreen
        /\ queued \in 0 .. MaxEvents /\ raised \in 0 .. MaxEvents
    BY LoopAssumption DEF Init
  <2>4. requests \in Seq({"incremental", "full", "resize"})
    <3>1. <<"full">> \in Seq({"incremental", "full", "resize"})
      OBVIOUS
    <3> QED BY <3>1 DEF Init
  <2>2. /\ asked \in {"none", "incremental", "full"} /\ owed \in BOOLEAN
        /\ closed \in BOOLEAN /\ pc \in {"poll", "wait", "handle", "body", "stopped"}
        /\ requestedResize \in BOOLEAN
    BY DEF Init
  <2>3. /\ wire \in Seq(Fragment) /\ sock \in Seq(Fragment)
        /\ decoded \in Seq(Fragment) /\ decoded = <<>> /\ buf \in Seq(Fragment)
    BY EmptySeq DEF Init
  <2> QED BY <2>1, <2>2, <2>3, <2>4, <2>5 DEF TypeOK
<1>3. Paired(<<>>) /\ Begins(<<>>, FALSE)
  BY DEF Paired, Begins
<1>4. pc # "body" /\ queued <= raised /\ ~closed
  BY DEF Init
<1>5. Begins(Stream, pc = "body")
  BY <1>1, <1>4 DEF Begins
<1> QED BY <1>1, <1>2, <1>3, <1>4, <1>5 DEF LoopInv

\* The invariant holds of every behaviour.
LEMMA LoopInvHolds == Spec => []LoopInv
BY LoopInit, LoopStep, PTL DEF Spec

\* However much is read ahead, and with whatever layer, the handler reads the start of
\* a message where it expects one and the body of an update behind its own head.
THEOREM ReadAheadKeepsStep == Spec => []InStep
<1>1. LoopInv => InStep
  <2> SUFFICES ASSUME LoopInv PROVE InStep
    OBVIOUS
  <2>1. Len(Stream) \in Nat
    BY StreamTypes, LenProperties DEF LoopInv
  <2> QED BY <2>1 DEF LoopInv, InStep, Paired, Begins
<1> QED BY <1>1, LoopInvHolds, PTL

(***************************************************************************)
(* The exchange of requests and updates                                    *)
(***************************************************************************)
Has(s, Wanted) == \E i \in 1 .. Len(s) : s[i] \in Wanted

\* What the two parts of a sequence have.
LEMMA HasConcat ==
  ASSUME NEW S, NEW s \in Seq(S), NEW t \in Seq(S), NEW Wanted
  PROVE  Has(s \o t, Wanted) <=> Has(s, Wanted) \/ Has(t, Wanted)
<1>1. /\ Len(s \o t) = Len(s) + Len(t) /\ Len(s) \in Nat /\ Len(t) \in Nat
      /\ \A i \in 1 .. Len(s) + Len(t) : (s \o t)[i] = IF i <= Len(s) THEN s[i] ELSE t[i - Len(s)]
  BY ConcatProperties, LenProperties
<1>2. ASSUME Has(s, Wanted) PROVE Has(s \o t, Wanted)
  <2>1. PICK i \in 1 .. Len(s) : s[i] \in Wanted
    BY <1>2 DEF Has
  <2>2. i \in 1 .. Len(s \o t) /\ (s \o t)[i] = s[i]
    BY <1>1
  <2> QED BY <2>1, <2>2 DEF Has
<1>3. ASSUME Has(t, Wanted) PROVE Has(s \o t, Wanted)
  <2>1. PICK i \in 1 .. Len(t) : t[i] \in Wanted
    BY <1>3 DEF Has
  <2>2. PICK k \in 1 .. Len(s) + Len(t) : k = Len(s) + i
    BY <1>1
  <2>3. (s \o t)[k] = t[i]
    <3>1. ~(k <= Len(s)) /\ k - Len(s) = i
      BY <1>1, <2>2
    <3> QED BY <1>1, <3>1
  <2> QED BY <1>1, <2>1, <2>3 DEF Has
<1>4. ASSUME Has(s \o t, Wanted) PROVE Has(s, Wanted) \/ Has(t, Wanted)
  <2>1. PICK i \in 1 .. Len(s) + Len(t) : (s \o t)[i] \in Wanted
    BY <1>1, <1>4 DEF Has
  <2>2. CASE i <= Len(s)
    <3>1. i \in 1 .. Len(s) /\ (s \o t)[i] = s[i]
      BY <1>1, <2>2
    <3> QED BY <2>1, <3>1 DEF Has
  <2>3. CASE ~(i <= Len(s))
    <3>1. i - Len(s) \in 1 .. Len(t) /\ (s \o t)[i] = t[i - Len(s)]
      BY <1>1, <2>3
    <3> QED BY <2>1, <3>1 DEF Has
  <2> QED BY <2>2, <2>3
<1> QED BY <1>2, <1>3, <1>4

\* What the head and the rest of a sequence have.
LEMMA HasTail ==
  ASSUME NEW S, NEW s \in Seq(S), s # <<>>, NEW Wanted
  PROVE  Has(s, Wanted) <=> Head(s) \in Wanted \/ Has(Tail(s), Wanted)
<1>1. /\ Len(s) \in Nat \ {0} /\ Len(Tail(s)) = Len(s) - 1 /\ Head(s) = s[1]
      /\ \A i \in 1 .. Len(Tail(s)) : Tail(s)[i] = s[i + 1]
  BY HeadTailProperties, EmptySeq
<1>2. ASSUME Has(s, Wanted), Head(s) \notin Wanted PROVE Has(Tail(s), Wanted)
  <2>1. PICK i \in 1 .. Len(s) : s[i] \in Wanted
    BY <1>2 DEF Has
  <2>2. PICK k \in 1 .. Len(Tail(s)) : k + 1 = i
    BY <1>1, <1>2, <2>1
  <2> QED BY <1>1, <2>1, <2>2 DEF Has
<1>3. ASSUME Has(Tail(s), Wanted) PROVE Has(s, Wanted)
  <2>1. PICK k \in 1 .. Len(Tail(s)) : Tail(s)[k] \in Wanted
    BY <1>3 DEF Has
  <2>2. k + 1 \in 1 .. Len(s) /\ s[k + 1] = Tail(s)[k]
    BY <1>1
  <2> QED BY <2>1, <2>2 DEF Has
<1>4. Head(s) \in Wanted => Has(s, Wanted)
  <2>1. 1 \in 1 .. Len(s)
    BY <1>1
  <2> QED BY <1>1, <2>1 DEF Has
<1> QED BY <1>2, <1>3, <1>4

\* Requests, updates, answers to a SetDesktopSize, and what ends in an H264 rectangle.
Requests == {"incremental", "full"}
Answers == {"size", "refusal"}
Heads == {f \in Fragment : f.kind = "head"}
AnswerHeads == {f \in Fragment : f.kind = "head" /\ f.update.last \in Answers}
H264Ends == {f \in Fragment : f.update.last = "h264"}

\* A SetDesktopSize is never the last that is on its way.
RequestBehind == requests # <<>> => requests[Len(requests)] # "resize"

\* An answer will make an end of the resize in progress, and the server has a request
\* to answer with it.
AnswerComes ==
  \/ Has(requests, {"resize"})
  \/ owed /\ (requests # <<>> \/ asked # "none")
  \/ Has(Stream, AnswerHeads)
  \/ pc = "body" /\ Stream # <<>> /\ Stream[1].update.last \in Answers

\* What is still to happen in the exchange.
Chain == Has(requests, Requests) \/ asked # "none" \/ Has(Stream, Heads) \/ pc = "body"

ExchangeInv ==
  /\ LoopInv /\ RequestBehind
  /\ encoder # "h264" => ~Has(Stream, H264Ends)
  /\ pc # "stopped" /\ requestedResize => AnswerComes
  /\ pc # "stopped" /\ encoder # "h264" => Chain

LEMMA RequestChainIsChain ==
  TypeOK => (RequestChain <=> (pc # "stopped" /\ encoder # "h264" => Chain))
<1> SUFFICES ASSUME TypeOK
             PROVE  RequestChain <=> (pc # "stopped" /\ encoder # "h264" => Chain)
  OBVIOUS
<1>1. /\ \A i \in 1 .. Len(requests) : requests[i] \in {"incremental", "full", "resize"}
      /\ \A i \in 1 .. Len(Stream) : Stream[i] \in Fragment
  BY StreamTypes, ElementOfSeq DEF TypeOK
<1>2. (\E i \in 1 .. Len(requests) : requests[i] # "resize") <=> Has(requests, Requests)
  BY <1>1 DEF Has, Requests
<1>3. (\E i \in 1 .. Len(Stream) : Stream[i].kind = "head") <=> Has(Stream, Heads)
  BY <1>1 DEF Has, Heads
<1> QED BY <1>2, <1>3 DEF RequestChain, Chain

\* What the client sends.
LEMMA Sent ==
  ASSUME TypeOK, RequestBehind, NEW r \in Requests
  PROVE  /\ requests' = Append(requests, r) =>
              RequestBehind' /\ Has(requests', Requests) /\ requests' # <<>>
              /\ (Has(requests, {"resize"}) => Has(requests', {"resize"}))
         /\ requests' = requests \o <<"resize", "full">> =>
              RequestBehind' /\ Has(requests', Requests) /\ requests' # <<>>
              /\ Has(requests', {"resize"})
<1> DEFINE S == {"incremental", "full", "resize"}
<1>1. requests \in Seq(S) /\ r \in S /\ Len(requests) \in Nat
  BY LenProperties DEF TypeOK, Requests
<1>2. ASSUME requests' = Append(requests, r)
      PROVE  RequestBehind' /\ Has(requests', Requests) /\ requests' # <<>>
             /\ (Has(requests, {"resize"}) => Has(requests', {"resize"}))
  <2>1. /\ requests' \in Seq(S) /\ Len(requests') = Len(requests) + 1
        /\ requests'[Len(requests) + 1] = r
        /\ \A i \in 1 .. Len(requests) : requests'[i] = requests[i]
    BY <1>1, <1>2, AppendProperties
  <2>2. RequestBehind'
    BY <2>1 DEF RequestBehind, Requests
  <2>3. requests' # <<>>
    BY <1>1, <1>2, AppendProperties
  <2>4. Has(requests', Requests)
    <3>1. Len(requests) + 1 \in 1 .. Len(requests')
      BY <1>1, <2>1
    <3> QED BY <2>1, <3>1 DEF Has
  <2>5. Has(requests, {"resize"}) => Has(requests', {"resize"})
    BY <1>1, <2>1 DEF Has
  <2> QED BY <2>2, <2>3, <2>4, <2>5
<1>3. ASSUME requests' = requests \o <<"resize", "full">>
      PROVE  RequestBehind' /\ Has(requests', Requests) /\ requests' # <<>>
             /\ Has(requests', {"resize"})
  <2>7. <<"resize", "full">> \in Seq(S)
    OBVIOUS
  <2>1. PICK m \in Seq(S) : m = <<"resize", "full">> /\ Len(m) = 2 /\ m[1] = "resize" /\ m[2] = "full"
    BY <2>7
  <2>2. Has(m, {"resize"}) /\ Has(m, Requests)
    BY <2>1 DEF Has, Requests
  <2>3. Has(requests', {"resize"}) /\ Has(requests', Requests)
    BY <1>1, <1>3, <2>1, <2>2, HasConcat
  <2>4. /\ Len(requests') = Len(requests) + 2
        /\ \A i \in 1 .. Len(requests) + 2 :
             requests'[i] = IF i <= Len(requests) THEN requests[i] ELSE m[i - Len(requests)]
    BY <1>1, <1>3, <2>1, ConcatProperties
  <2>5. requests'[Len(requests')] = "full"
    BY <1>1, <2>1, <2>4
  <2>6. requests' # <<>>
    BY <1>1, <2>4, EmptySeq
  <2> QED BY <2>3, <2>5, <2>6 DEF RequestBehind
<1> QED BY <1>2, <1>3

\* What the server takes from the front.
LEMMA Received1 ==
  ASSUME TypeOK, RequestBehind, requests # <<>>, requests' = Tail(requests)
  PROVE  /\ RequestBehind' /\ (requests[1] = "resize" => requests' # <<>>)
         /\ Head(requests) = requests[1]
         /\ requests[1] # "resize" /\ Has(requests, {"resize"}) => Has(requests', {"resize"})
<1>1. requests \in Seq({"incremental", "full", "resize"})
  BY DEF TypeOK
<1>2. PICK n \in Nat \ {0} : n = Len(requests)
  BY <1>1, EmptySeq, LenProperties
<1>3. /\ Tail(requests) \in Seq({"incremental", "full", "resize"}) /\ Len(Tail(requests)) = n - 1
      /\ \A i \in 1 .. n - 1 : Tail(requests)[i] = requests[i + 1]
      /\ Head(requests) = requests[1]
  BY <1>1, <1>2, HeadTailProperties
<1>4. requests' # <<>> => n > 1
  <2>1. requests' # <<>> => Len(requests') # 0
    BY <1>3, EmptySeq
  <2> QED BY <1>2, <1>3, <2>1
<1>5. RequestBehind'
  <2> SUFFICES ASSUME requests' # <<>> PROVE requests'[Len(requests')] # "resize"
    BY DEF RequestBehind
  <2>1. n - 1 \in 1 .. n - 1 /\ (n - 1) + 1 = n
    BY <1>2, <1>4
  <2>2. requests'[n - 1] = requests[n]
    BY <1>3, <2>1
  <2> QED BY <1>2, <1>3, <2>2 DEF RequestBehind
<1>6. requests[1] = "resize" => requests' # <<>>
  <2> SUFFICES ASSUME requests[1] = "resize", requests' = <<>> PROVE FALSE
    OBVIOUS
  <2>1. Len(requests') = 0
    BY EmptySeq
  <2>2. n - 1 = 0
    BY <1>3, <2>1
  <2>3. n = 1
    BY <1>2, <2>2
  <2> QED BY <1>2, <2>3 DEF RequestBehind
<1>7. requests[1] # "resize" /\ Has(requests, {"resize"}) => Has(requests', {"resize"})
  BY <1>1, <1>3, HasTail
<1> QED BY <1>3, <1>5, <1>6, <1>7

\* No step breaks the exchange off.
LEMMA ExchangeStep == ASSUME ExchangeInv, [Next]_vars PROVE ExchangeInv'
<1>1. /\ TypeOK /\ Stream \in Seq(Fragment) /\ wire \in Seq(Fragment)
      /\ requests \in Seq({"incremental", "full", "resize"}) /\ requestedResize \in BOOLEAN
      /\ Paired(Stream) /\ Begins(Stream, pc = "body")
  BY StreamTypes DEF ExchangeInv, LoopInv, TypeOK
<1>2. LoopInv' /\ TypeOK'
  BY LoopStep DEF ExchangeInv, LoopInv
<1>3. encoder' = encoder
  BY Zenon DEF Next, Client, vars, server, ScreenChanges, ServerReceives, ServerAnswersResize,
               ServerUpdates, ServerSendsOther, ServerCloses, Arrive, UserActs, HandleEvent, NoEvent,
               MessageWaiting, NothingWaiting, WaitFails, ReadMessage, ReadUpdate, EndOfStream
\* Steps of the loop that leave requests and messages alone.
<1>4. ASSUME UNCHANGED <<requests, asked, owed, requestedResize>>, Stream' = Stream,
             pc # "stopped", pc' # "stopped", (pc' = "body") = (pc = "body")
      PROVE  ExchangeInv'
  <2>1. RequestBehind'
    BY <1>4 DEF ExchangeInv, RequestBehind
  <2>2. AnswerComes => AnswerComes'
    BY <1>4 DEF AnswerComes, Has
  <2>3. Chain => Chain'
    BY <1>4 DEF Chain, Has
  <2>4. ~Has(Stream, H264Ends) => ~Has(Stream', H264Ends)
    BY <1>4 DEF Has
  <2> QED BY <1>2, <1>3, <1>4, <2>1, <2>2, <2>3, <2>4 DEF ExchangeInv
\* Once the loop has stopped nothing more is claimed of it.
<1>5. ASSUME pc' = "stopped", requests' = requests, Stream' = Stream PROVE ExchangeInv'
  <2>1. RequestBehind'
    BY <1>5 DEF ExchangeInv, RequestBehind
  <2>2. encoder' # "h264" => ~Has(Stream', H264Ends)
    BY <1>3, <1>5 DEF ExchangeInv, Has
  <2> QED BY <1>2, <1>5, <2>1, <2>2 DEF ExchangeInv
<1>6. ASSUME \/ ScreenChanges \/ ServerCloses \/ UserActs \/ Arrive
             \/ NoEvent \/ MessageWaiting \/ NothingWaiting \/ WaitFails \/ EndOfStream
             \/ UNCHANGED vars
      PROVE  ExchangeInv'
  <2>1. UNCHANGED <<requests, asked, owed, requestedResize>>
    BY <1>6, Zenon DEF ScreenChanges, ServerCloses, UserActs, Arrive, NoEvent, MessageWaiting,
                       NothingWaiting, WaitFails, EndOfStream, vars, server, client
  <2>2. Stream' = Stream
    <3>1. CASE Arrive
      BY <1>1, <3>1, ArriveStream
    <3>2. CASE ~Arrive
      <4>1. UNCHANGED <<wire, sock, decoded, buf>>
        BY <1>6, <3>2, Zenon DEF ScreenChanges, ServerCloses, UserActs, NoEvent, MessageWaiting,
                       NothingWaiting, WaitFails, EndOfStream, vars
      <4> QED BY <4>1 DEF Stream, Received
    <3> QED BY <3>1, <3>2
  <2>3. pc' = "stopped" \/ (pc # "stopped" /\ pc' # "stopped" /\ (pc' = "body") = (pc = "body"))
    BY <1>6 DEF ScreenChanges, ServerCloses, UserActs, Arrive, NoEvent, MessageWaiting,
                NothingWaiting, WaitFails, EndOfStream, vars
  <2> QED BY <1>4, <1>5, <2>1, <2>2, <2>3
<1>7. ASSUME HandleEvent PROVE ExchangeInv'
  <2>1. /\ pc = "poll" /\ pc' \in {"poll", "stopped"} /\ UNCHANGED <<asked, owed>>
        /\ UNCHANGED <<wire, sock, decoded, buf>>
    BY <1>7 DEF HandleEvent, server
  <2>2. Stream' = Stream
    BY <2>1 DEF Stream, Received
  <2>3. CASE UNCHANGED <<requests, requestedResize>>
    BY <1>4, <1>5, <2>1, <2>2, <2>3
  <2>4. encoder' # "h264" => ~Has(Stream', H264Ends)
    BY <1>3, <2>2 DEF ExchangeInv, Has
  <2>5. CASE requests' = Append(requests, "full") /\ requestedResize' = requestedResize
    <3>1. /\ RequestBehind' /\ Has(requests', Requests) /\ requests' # <<>>
          /\ (Has(requests, {"resize"}) => Has(requests', {"resize"}))
      BY <1>1, <2>5, Sent DEF ExchangeInv, Requests
    <3>2. requestedResize' => AnswerComes'
      <4> SUFFICES ASSUME requestedResize PROVE AnswerComes'
        BY <2>5
      <4>1. AnswerComes
        BY <2>1 DEF ExchangeInv
      <4>2. Has(Stream, AnswerHeads) => Has(Stream', AnswerHeads)
        BY <2>2 DEF Has
      <4> QED BY <2>1, <3>1, <4>1, <4>2 DEF AnswerComes
    <3>3. Chain'
      BY <3>1 DEF Chain
    <3> QED BY <1>2, <2>4, <3>1, <3>2, <3>3 DEF ExchangeInv
  <2>6. CASE WindowResized
    <3>1. RequestBehind' /\ Has(requests', Requests) /\ Has(requests', {"resize"})
      BY <1>1, <2>6, Sent DEF ExchangeInv, Requests, WindowResized
    <3>2. AnswerComes' /\ Chain'
      BY <3>1 DEF AnswerComes, Chain
    <3> QED BY <1>2, <2>4, <3>1, <3>2 DEF ExchangeInv
  <2> QED BY <1>7, <2>3, <2>5, <2>6 DEF HandleEvent, WindowExposed, WithRequest
<1>8. ASSUME ServerReceives PROVE ExchangeInv'
  <2>1. /\ requests # <<>> /\ requests' = Tail(requests) /\ UNCHANGED <<pc, requestedResize>>
        /\ UNCHANGED <<wire, sock, decoded, buf>>
    BY <1>8 DEF ServerReceives, client
  <2>2. Stream' = Stream
    BY <2>1 DEF Stream, Received
  <2>3. encoder' # "h264" => ~Has(Stream', H264Ends)
    BY <1>3, <2>2 DEF ExchangeInv, Has
  <2>4. /\ RequestBehind' /\ (requests[1] = "resize" => requests' # <<>>)
        /\ Head(requests) = requests[1]
        /\ requests[1] # "resize" /\ Has(requests, {"resize"}) => Has(requests', {"resize"})
    BY <1>1, <2>1, Received1 DEF ExchangeInv
  <2>5. Has(Stream, AnswerHeads) => Has(Stream', AnswerHeads)
    BY <2>2 DEF Has
  <2>6. Has(requests', Requests) \/ requests' = <<>>
    <3>1. requests' \in Seq({"incremental", "full", "resize"})
      BY <1>2 DEF TypeOK
    <3> SUFFICES ASSUME requests' # <<>> PROVE Has(requests', Requests)
      OBVIOUS
    <3>2. Len(requests') \in Nat \ {0}
      BY <3>1, EmptySeq, LenProperties
    <3>3. Len(requests') \in 1 .. Len(requests')
      BY <3>2
    <3>4. requests'[Len(requests')] \in {"incremental", "full", "resize"}
      BY <3>1, <3>3, ElementOfSeq
    <3>5. requests'[Len(requests')] # "resize"
      BY <2>4 DEF RequestBehind
    <3>6. requests'[Len(requests')] \in Requests
      BY <3>4, <3>5 DEF Requests
    <3> QED BY <3>3, <3>6 DEF Has
  <2>7. CASE requests[1] = "resize"
    <3>1. owed' /\ requests' # <<>>
      BY <1>8, <2>4, <2>7 DEF ServerReceives
    <3>2. AnswerComes' /\ Chain'
      BY <2>6, <3>1 DEF AnswerComes, Chain
    <3> QED BY <1>2, <2>3, <2>4, <3>2 DEF ExchangeInv
  <2>8. CASE requests[1] # "resize"
    <3>1. Head(requests) \in {"incremental", "full", "resize"}
      BY <1>1, <2>1, HeadTailProperties
    <3>2. asked' # "none" /\ owed' = owed
      BY <1>8, <2>4, <2>8, <3>1 DEF ServerReceives
    <3>3. Chain'
      BY <3>2 DEF Chain
    <3>4. AnswerComes => AnswerComes'
      BY <2>1, <2>2, <2>4, <2>5, <2>8, <3>2 DEF AnswerComes
    <3> QED BY <1>2, <2>1, <2>3, <2>4, <3>3, <3>4 DEF ExchangeInv
  <2> QED BY <2>7, <2>8
\* A message of the server's goes behind all others.
<1>9. ASSUME NEW m \in Seq(Fragment), wire' = wire \o m, UNCHANGED <<buf, decoded, sock>>,
             pc' = pc, requests' = requests, requestedResize' = requestedResize,
             encoder # "h264" => ~Has(m, H264Ends),
             \/ Has(m, AnswerHeads)
             \/ ~owed /\ Has(m, Heads)
             \/ UNCHANGED <<owed, asked>>
      PROVE  ExchangeInv'
  <2>1. Stream' = Stream \o m
    BY <1>1, <1>9, SendStream
  <2>2. /\ Has(Stream', H264Ends) => Has(Stream, H264Ends) \/ Has(m, H264Ends)
        /\ Has(Stream, AnswerHeads) \/ Has(m, AnswerHeads) => Has(Stream', AnswerHeads)
        /\ Has(Stream, Heads) \/ Has(m, Heads) => Has(Stream', Heads)
    BY <1>1, <2>1, HasConcat
  <2>3. encoder' # "h264" => ~Has(Stream', H264Ends)
    BY <1>3, <1>9, <2>2 DEF ExchangeInv
  <2>4. RequestBehind'
    BY <1>9 DEF ExchangeInv, RequestBehind
  <2>5. Stream # <<>> => Stream' # <<>> /\ Stream'[1] = Stream[1]
    <3> SUFFICES ASSUME Stream # <<>> PROVE Stream' # <<>> /\ Stream'[1] = Stream[1]
      OBVIOUS
    <3>1. PICK t \in Seq(Fragment) : t = Stream
      BY <1>1
    <3>2. t \o m # <<>> /\ t \o m \in Seq(Fragment) /\ Head(t \o m) = Head(t)
      BY <3>1, HeadTailConcat
    <3>3. Head(t) = t[1] /\ Head(t \o m) = (t \o m)[1]
      BY <3>1, <3>2
    <3> QED BY <2>1, <3>1, <3>2, <3>3
  <2>6. Has(m, AnswerHeads) => Has(m, Heads)
    BY DEF Has, AnswerHeads, Heads
  <2>7. AnswerComes => AnswerComes'
    BY <1>9, <2>2, <2>5 DEF AnswerComes
  <2>8. Chain => Chain'
    BY <1>9, <2>2, <2>6 DEF Chain
  <2> QED BY <1>2, <1>3, <1>9, <2>3, <2>4, <2>7, <2>8 DEF ExchangeInv
<1>10. ASSUME ServerUpdates \/ ServerAnswersResize PROVE ExchangeInv'
  <2>1. PICK u \in Update : /\ Send(u)
                            /\ \/ owed' = owed /\ ~owed /\ u.last = encoder
                               \/ u.last \in Answers
    <3>1. CASE ServerUpdates
      <4>1. Send([version |-> screen, last |-> encoder]) /\ owed' = owed /\ ~owed
        BY <3>1 DEF ServerUpdates
      <4>2. [version |-> screen, last |-> encoder] \in Update
        BY <1>1, UpdateTypes
      <4> QED BY <4>1, <4>2
    <3>2. CASE ServerAnswersResize
      <4>1. PICK result \in Answers : Send(Answer(result))
        BY <3>2 DEF ServerAnswersResize, Answers
      <4>2. Answer(result) \in Update /\ Answer(result).last \in Answers
        BY UpdateTypes DEF Answers, Answer
      <4> QED BY <4>1, <4>2
    <3> QED BY <1>10, <3>1, <3>2
  <2>2. PICK m \in Seq(Fragment) : m = <<HeadOf(u), BodyOf(u)>> /\ wire' = wire \o m
    BY <1>1, <2>1, SendTypes
  <2>3. /\ HeadOf(u) \in Fragment /\ HeadOf(u).kind = "head" /\ HeadOf(u).update = u
        /\ BodyOf(u) \in Fragment /\ BodyOf(u).update = u
    BY DEF HeadOf, BodyOf, Fragment
  <2>4. Len(m) = 2 /\ m[1] = HeadOf(u) /\ m[2] = BodyOf(u)
    BY <2>2, <2>3
  <2>5. Has(m, Heads) /\ (u.last \in Answers => Has(m, AnswerHeads))
    BY <2>3, <2>4 DEF Has, Heads, AnswerHeads
  <2>6. u.last # "h264" => ~Has(m, H264Ends)
    <3> SUFFICES ASSUME u.last # "h264", NEW i \in 1 .. 2, m[i] \in H264Ends PROVE FALSE
      BY <2>4 DEF Has
    <3>1. i = 1 \/ i = 2
      OBVIOUS
    <3> QED BY <2>3, <2>4, <3>1 DEF H264Ends
  <2>7. UNCHANGED <<buf, decoded, sock, pc, requests, requestedResize>>
    BY <1>10 DEF ServerUpdates, ServerAnswersResize, client
  <2>8. encoder # "h264" => ~Has(m, H264Ends)
    BY <2>1, <2>6 DEF Answers
  <2> QED BY <1>9, <2>1, <2>2, <2>5, <2>7, <2>8
<1>11. ASSUME ServerSendsOther PROVE ExchangeInv'
  <2>1. PICK m : m = <<Other>>
    OBVIOUS
  <2>2. m \in Seq(Fragment) /\ Other \in Fragment
    BY <2>1, NewMessages, UpdateTypes
  <2>3. wire' = wire \o m
    BY <1>1, <1>11, <2>1, <2>2, AppendIsConcat DEF ServerSendsOther
  <2>4. UNCHANGED <<buf, decoded, sock, requests, asked, owed, pc, requestedResize>>
    BY <1>11 DEF ServerSendsOther, client
  <2>5. ~Has(m, H264Ends)
    <3>1. Len(m) = 1 /\ m[1] = Other /\ Other.update.last = "refusal"
      BY <2>1 DEF Other, Answer
    <3> QED BY <3>1 DEF Has, H264Ends
  <2> QED BY <1>9, <2>2, <2>3, <2>4, <2>5
\* A read takes the first fragment.
<1>12. ASSUME NEW f \in Fragment, Read(f), wire' = wire
       PROVE  /\ Stream # <<>> /\ f = Stream[1] /\ Stream' = Tail(Stream)
              /\ encoder' # "h264" => ~Has(Stream', H264Ends) /\ f.update.last # "h264"
              /\ Has(Stream, Heads) /\ f.kind # "head" => Has(Stream', Heads)
              /\ Has(Stream, AnswerHeads) /\ f \notin AnswerHeads => Has(Stream', AnswerHeads)
  <2>1. Stream # <<>> /\ f = Head(Stream) /\ Stream' = Tail(Stream)
    BY <1>1, <1>12, ReadStream
  <2>2. Head(Stream) = Stream[1]
    BY <1>1, <2>1
  <2>3. \A Wanted : Has(Stream, Wanted) <=> f \in Wanted \/ Has(Stream', Wanted)
    BY <1>1, <2>1, HasTail
  <2>4. f \in Heads <=> f.kind = "head"
    BY <1>12 DEF Heads
  <2>5. f \in H264Ends <=> f.update.last = "h264"
    BY <1>12 DEF H264Ends
  <2>6. encoder' # "h264" => ~Has(Stream', H264Ends) /\ f.update.last # "h264"
    BY <1>3, <2>3, <2>5 DEF ExchangeInv
  <2> QED BY <2>1, <2>2, <2>3, <2>4, <2>6
<1>13. ASSUME ReadMessage PROVE ExchangeInv'
  <2>1. PICK f \in Fragment : Read(f) /\ pc' = IF f.kind = "head" THEN "body" ELSE "poll"
    BY <1>13 DEF ReadMessage
  <2>2. UNCHANGED <<wire, requests, asked, owed, requestedResize>> /\ pc = "handle"
    BY <1>13 DEF ReadMessage, server, client
  <2>3. /\ Stream # <<>> /\ f = Stream[1] /\ Stream' = Tail(Stream)
        /\ encoder' # "h264" => ~Has(Stream', H264Ends)
        /\ Has(Stream, Heads) /\ f.kind # "head" => Has(Stream', Heads)
        /\ Has(Stream, AnswerHeads) /\ f \notin AnswerHeads => Has(Stream', AnswerHeads)
    BY <1>12, <2>1, <2>2
  <2>4. RequestBehind'
    BY <2>2 DEF ExchangeInv, RequestBehind
  <2>5. Chain => Chain'
    BY <2>1, <2>2, <2>3 DEF Chain
  <2>6. f \in AnswerHeads => Stream' # <<>> /\ Stream'[1].update.last \in Answers
    <3> SUFFICES ASSUME f \in AnswerHeads
                 PROVE  Stream' # <<>> /\ Stream'[1].update.last \in Answers
      OBVIOUS
    <3>1. Stream[1].kind = "head" /\ Stream[1].update.last \in Answers
      BY <2>3 DEF AnswerHeads
    <3>2. PICK n \in Nat \ {0} : n = Len(Stream)
      BY <1>1, <2>3, EmptySeq, LenProperties
    <3>3. 1 < n /\ Stream[2] = BodyOf(Stream[1].update)
      BY <1>1, <3>1, <3>2 DEF Paired
    <3>4. Len(Tail(Stream)) = n - 1 /\ \A i \in 1 .. n - 1 : Tail(Stream)[i] = Stream[i + 1]
      BY <1>1, <2>3, <3>2, HeadTailProperties
    <3>5. Tail(Stream)[1] = Stream[2]
      BY <3>2, <3>3, <3>4
    <3>6. Tail(Stream) # <<>>
      <4> SUFFICES ASSUME Tail(Stream) = <<>> PROVE FALSE
        OBVIOUS
      <4>1. n - 1 = 0
        BY <3>4, EmptySeq
      <4> QED BY <3>2, <3>3, <4>1
    <3>7. BodyOf(Stream[1].update).update = Stream[1].update
      BY DEF BodyOf
    <3> QED BY <2>3, <3>1, <3>3, <3>5, <3>6, <3>7
  <2>7. f \in AnswerHeads => pc' = "body"
    BY <2>1 DEF AnswerHeads
  <2>8. AnswerComes => AnswerComes'
    BY <2>2, <2>3, <2>6, <2>7 DEF AnswerComes
  <2>9. pc # "stopped"
    BY <2>2
  <2> QED BY <1>2, <1>3, <2>2, <2>3, <2>4, <2>5, <2>8, <2>9 DEF ExchangeInv
<1>14. ASSUME ReadUpdate PROVE ExchangeInv'
  <2>1. PICK f \in Fragment :
          /\ Read(f)
          /\ requestedResize' = (requestedResize /\ f.update.last \notin {"size", "refusal"})
          /\ requests' = IF f.update.last = "h264" THEN requests
                         ELSE WithRequest("incremental", requestedResize')
    BY <1>14 DEF ReadUpdate
  <2>2. UNCHANGED <<wire, asked, owed>> /\ pc = "body" /\ pc' = "poll"
    BY <1>14 DEF ReadUpdate, server
  <2>3. /\ Stream # <<>> /\ f = Stream[1] /\ Stream' = Tail(Stream)
        /\ encoder' # "h264" => ~Has(Stream', H264Ends) /\ f.update.last # "h264"
        /\ Has(Stream, Heads) /\ f.kind # "head" => Has(Stream', Heads)
        /\ Has(Stream, AnswerHeads) /\ f \notin AnswerHeads => Has(Stream', AnswerHeads)
    BY <1>12, <2>1, <2>2
  <2>4. f.kind # "head" /\ f \notin AnswerHeads
    BY <1>1, <2>2, <2>3 DEF Begins, AnswerHeads
  <2>5. CASE requestedResize'
    <3>1. requestedResize /\ f.update.last \notin Answers /\ requests' = requests
      BY <2>1, <2>5 DEF WithRequest, Answers
    <3>2. AnswerComes
      BY <2>2, <3>1 DEF ExchangeInv
    <3>3. RequestBehind'
      BY <3>1 DEF ExchangeInv, RequestBehind
    <3>4. AnswerComes'
      BY <2>2, <2>3, <2>4, <3>1, <3>2 DEF AnswerComes
    <3>5. requests # <<>> => Has(requests', Requests)
      <4> SUFFICES ASSUME requests # <<>> PROVE Has(requests, Requests)
        BY <3>1
      <4>1. Len(requests) \in Nat \ {0}
        BY <1>1, EmptySeq, LenProperties
      <4>2. Len(requests) \in 1 .. Len(requests)
        BY <4>1
      <4>3. requests[Len(requests)] \in {"incremental", "full", "resize"}
        BY <1>1, <4>2, ElementOfSeq
      <4>4. requests[Len(requests)] \in Requests
        BY <4>3 DEF ExchangeInv, RequestBehind, Requests
      <4> QED BY <4>2, <4>4 DEF Has
    <3>6. Has(requests, {"resize"}) => requests # <<>>
      BY EmptySeq DEF Has
    <3>7. Has(Stream', AnswerHeads) => Has(Stream', Heads)
      BY DEF Has, AnswerHeads, Heads
    <3>8. Chain'
      BY <2>2, <3>1, <3>4, <3>5, <3>6, <3>7 DEF AnswerComes, Chain
    <3> QED BY <1>2, <2>3, <3>3, <3>4, <3>8 DEF ExchangeInv
  <2>6. CASE ~requestedResize'
    <3>1. requests' = IF f.update.last = "h264" THEN requests ELSE Append(requests, "incremental")
      BY <2>1, <2>6 DEF WithRequest
    <3>2. CASE f.update.last = "h264"
      <4>1. RequestBehind'
        BY <3>1, <3>2 DEF ExchangeInv, RequestBehind
      <4> QED BY <1>2, <2>3, <2>6, <3>2, <4>1 DEF ExchangeInv
    <3>3. CASE f.update.last # "h264"
      <4>1. RequestBehind' /\ Has(requests', Requests)
        BY <1>1, <3>1, <3>3, Sent DEF ExchangeInv, Requests
      <4>2. Chain'
        BY <4>1 DEF Chain
      <4> QED BY <1>2, <2>3, <2>6, <4>1, <4>2 DEF ExchangeInv
    <3> QED BY <3>2, <3>3
  <2> QED BY <2>5, <2>6
<1> QED BY <1>6, <1>7, <1>8, <1>10, <1>11, <1>13, <1>14 DEF Next, Client

LEMMA ExchangeInit == Init => ExchangeInv
<1> SUFFICES ASSUME Init PROVE ExchangeInv
  OBVIOUS
<1>1. LoopInv
  BY LoopInit
<1>2. Stream = <<>> /\ requests = <<"full">> /\ requestedResize = FALSE
  BY DEF Init, Stream, Received
<1>3. ~Has(<<>>, H264Ends)
  BY DEF Has
<1>4. Len(requests) = 1 /\ requests[1] = "full"
  BY <1>2
<1>5. RequestBehind /\ Has(requests, Requests)
  BY <1>4 DEF RequestBehind, Has, Requests
<1>6. ~Has(Stream, H264Ends)
  BY <1>2, <1>3
<1> QED BY <1>1, <1>2, <1>5, <1>6 DEF ExchangeInv, Chain

\* Updates never dry up: while the viewer runs, and whatever the window is resized to,
\* there is a request on its way or with the server, or an update on its way back or in
\* the handler, unless the server is one that sends H264 unasked.
THEOREM UpdatesNeverDryUp == Spec => []RequestChain
<1>1. ExchangeInv => RequestChain
  BY RequestChainIsChain DEF ExchangeInv, LoopInv
<1>2. ExchangeInv /\ [Next]_vars => ExchangeInv'
  BY ExchangeStep
<1> QED BY <1>1, <1>2, ExchangeInit, PTL DEF Spec
=============================================================================
