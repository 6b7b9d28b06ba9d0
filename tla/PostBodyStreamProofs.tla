----------------------- MODULE PostBodyStreamProofs -----------------------
(***************************************************************************)
(* The properties of PostBodyStream, and that it implements ByteSource,    *)
(* for any parts, boundaries, buffers and number of bodies.                *)
(***************************************************************************)
EXTENDS PostBodyStream, SequenceTheorems, LeastNumber, TLAPS

\* How far the connection is in the body.
Reach == Start[boundary][current] + pos[current]

\* The request is of one of its boundaries, and announces its length.
Made ==
  /\ wire # "none" =>
       /\ bodies > 0
       /\ boundary \in Boundary /\ header.boundary \in Boundary
       /\ header.length = Length(header.boundary)
  /\ wire = "none" => bodies = 0 /\ boundary = NoBoundary

\* A stream is read up to its end, in its turn unless it was read before.
Positions ==
  /\ \A s \in wrapped : pos[s] <= Content[s \div 2]
  /\ wire # "none" => \A s \in Stream : pos[s] <= Size(boundary, s)
  /\ bodies = 0 => \A s \in Stream : pos[s] = 0
  /\ wire = "ready" => \A s \in Stream \ wrapped : pos[s] = 0
  /\ wire \in {"reading", "failed"} =>
       \A s \in Stream \ wrapped : s > current => pos[s] = 0

\* What is said of wrappers when none was used before.
FirstUse ==
  bodies <= 1 /\ wire \in {"none", "ready", "reading"} =>
    /\ shut = {}
    /\ \A s \in Stream : s > current => pos[s] = 0

\* What was received is no more than what there was, and all of it if as long.
Received ==
  /\ wire \notin {"reading", "ended", "failed"} => received = <<>>
  /\ wire = "reading" =>
       /\ Len(received) <= Reach
       /\ Len(received) = Reach => received = Bytes(0, Reach)
       /\ Intact => Len(received) = Reach
  /\ wire = "ended" =>
       /\ Len(received) <= Length(boundary)
       /\ Len(received) = Length(boundary) => received = Bytes(0, Length(boundary))
       /\ Intact => Len(received) = Length(boundary)

IInv == TypeOK /\ Made /\ Positions /\ FirstUse /\ Received

-----------------------------------------------------------------------------
(* The layout of a body.                                                   *)

LEMMA StreamFacts ==
  /\ Streams \in Nat /\ Streams >= 1
  /\ 1 \in Delimiters /\ Streams \in Delimiters
  /\ \A s \in Stream : s \notin Delimiters => s + 1 \in Delimiters
  /\ \A s \in Stream \ Delimiters : s \div 2 \in 1..Len(Content) /\ s # Streams
  /\ \A s \in Delimiters : s # Streams => (s + 1) \div 2 \in 1..Len(Content)
<1>1. Len(Content) \in Nat
  BY ConstantsAssumption
<1>2. QED
  BY <1>1 DEF Streams, Stream, Delimiters

LEMMA SizeFacts ==
  ASSUME NEW b \in Boundary, NEW s \in Stream
  PROVE  /\ Size(b, s) \in Nat
         /\ s \in Delimiters => Size(b, s) > 0
         /\ s \notin Delimiters => Size(b, s) = Content[s \div 2]
<1>1. Width[b] \in Nat /\ Final \in Nat \ {0}
  BY ConstantsAssumption
<1>2. CASE s = Streams
  BY <1>1, <1>2, StreamFacts DEF Size
<1>3. CASE s # Streams /\ s \in Delimiters
  <2>1. Header[(s + 1) \div 2] \in Nat \ {0}
    BY <1>3, StreamFacts, ConstantsAssumption
  <2>2. QED
    BY <1>1, <1>3, <2>1 DEF Size
<1>4. CASE s \notin Delimiters
  <2>1. Content[s \div 2] \in Nat
    BY <1>4, StreamFacts, ConstantsAssumption
  <2>2. QED
    BY <1>4, <2>1, StreamFacts DEF Size
<1>5. QED
  BY <1>2, <1>3, <1>4

LEMMA StartFacts ==
  ASSUME NEW b \in Boundary
  PROVE  /\ Start[b][1] = 0
         /\ \A s \in Stream : /\ Start[b][s] \in Nat
                              /\ Start[b][s + 1] = Start[b][s] + Size(b, s)
         /\ Length(b) \in Nat /\ Length(b) > 0
<1>1. \A s \in 1..(Streams + 1) : Start[b][s] \in Nat
  BY StartAssumption
<1>2. Start[b][1] = 0
  BY StartAssumption
<1>3. \A s \in Stream : Start[b][s + 1] = Start[b][s] + Size(b, s)
  BY StartAssumption
<1>4. Streams \in Stream /\ \A s \in Stream : s \in 1..(Streams + 1)
  BY StreamFacts DEF Stream
<1>5. Length(b) = Start[b][Streams] + Size(b, Streams)
  BY <1>3, <1>4 DEF Length
<1>6. Size(b, Streams) \in Nat /\ Size(b, Streams) > 0
  BY <1>4, SizeFacts, StreamFacts
<1>7. QED
  BY <1>1, <1>2, <1>3, <1>4, <1>5, <1>6

\* No stream ends after the body does.  Of the streams that do, the one next to
\* the body's end would have a successor that does not.
LEMMA StartsAreOrdered ==
  ASSUME NEW b \in Boundary, NEW s \in Stream
  PROVE  Start[b][s + 1] <= Length(b)
<1> DEFINE after == {k \in Nat : k <= Streams
                                 /\ Start[b][Streams + 1 - k] > Length(b)}
<1>1. Streams \in Nat /\ s \in Nat /\ s <= Streams /\ s >= 1
  BY StreamFacts DEF Stream
<1>2. /\ Length(b) \in Nat /\ Length(b) = Start[b][Streams + 1]
      /\ \A t \in 1..(Streams + 1) : Start[b][t] \in Nat
      /\ \A t \in Stream : /\ Size(b, t) \in Nat
                           /\ Start[b][t + 1] = Start[b][t] + Size(b, t)
  BY StartFacts, SizeFacts, StartAssumption DEF Length
<1>3. after = {}
  <2>1. SUFFICES ASSUME after # {} PROVE FALSE
    OBVIOUS
  <2>2. PICK m \in after : \A k \in after : m <= k
    BY <2>1, LeastNatural
  <2>3. m \in Nat /\ m # 0 /\ m <= Streams
    BY <1>1, <1>2, <2>2
  <2>4. m - 1 \in Nat /\ m - 1 \notin after
    BY <2>2, <2>3
  <2>5. Start[b][Streams + 1 - (m - 1)] <= Length(b)
    BY <1>1, <1>2, <2>3, <2>4
  <2>6. Streams + 1 - m \in Stream /\ Streams + 1 - (m - 1) = Streams + 1 - m + 1
    BY <1>1, <2>3 DEF Stream
  <2>7. Start[b][Streams + 1 - m] <= Start[b][Streams + 1 - (m - 1)]
    BY <1>1, <1>2, <2>6 DEF Stream
  <2>8. QED
    BY <1>1, <1>2, <2>2, <2>3, <2>5, <2>6, <2>7 DEF Stream
<1>4. /\ Streams - s \in Nat /\ Streams - s <= Streams
      /\ Streams + 1 - (Streams - s) = s + 1 /\ s + 1 \in 1..(Streams + 1)
  BY <1>1
<1>5. ~(Start[b][Streams + 1 - (Streams - s)] > Length(b))
  BY <1>3, <1>4
<1>6. QED
  BY <1>2, <1>4, <1>5

\* A piece that begins where the bytes end makes more of them.
LEMMA BytesAppend ==
  ASSUME NEW k \in Nat, NEW n \in Nat
  PROVE  /\ Bytes(0, k) \o Bytes(k, n) = Bytes(0, k + n)
         /\ Len(Bytes(k, n)) = n /\ Bytes(k, n) \in Seq(Nat)
         /\ Len(Bytes(0, k)) = k
<1>1. /\ Bytes(k, n) \in Seq(Nat) /\ Len(Bytes(k, n)) = n
      /\ Bytes(0, k) \in Seq(Nat) /\ Len(Bytes(0, k)) = k
      /\ Bytes(0, k + n) \in Seq(Nat) /\ Len(Bytes(0, k + n)) = k + n
  BY DEF Bytes
<1> DEFINE joined == Bytes(0, k) \o Bytes(k, n)
<1>2. /\ joined \in Seq(Nat) /\ Len(joined) = k + n
      /\ \A i \in 1..(k + n) :
           joined[i] = IF i <= k THEN Bytes(0, k)[i] ELSE Bytes(k, n)[i - k]
  <2> HIDE DEF joined
  <2>1. /\ Bytes(0, k) \o Bytes(k, n) \in Seq(Nat)
        /\ Len(Bytes(0, k) \o Bytes(k, n)) = Len(Bytes(0, k)) + Len(Bytes(k, n))
        /\ \A i \in 1..(Len(Bytes(0, k)) + Len(Bytes(k, n))) :
             (Bytes(0, k) \o Bytes(k, n))[i] =
               IF i <= Len(Bytes(0, k)) THEN Bytes(0, k)[i]
               ELSE Bytes(k, n)[i - Len(Bytes(0, k))]
    BY <1>1, ConcatProperties, Zenon
  <2>2. QED
    BY <1>1, <2>1 DEF joined
<1>3. ASSUME NEW i \in 1..(k + n) PROVE joined[i] = Bytes(0, k + n)[i]
  <2> HIDE DEF joined
  <2>1. CASE i <= k
    <3>1. joined[i] = Bytes(0, k)[i]
      BY <1>2, <2>1
    <3>2. i \in 1..k
      BY <2>1
    <3>3. QED
      BY <3>1, <3>2 DEF Bytes
  <2>2. CASE ~(i <= k)
    <3>1. joined[i] = Bytes(k, n)[i - k]
      BY <1>2, <2>2
    <3>2. i - k \in 1..n
      BY <2>2
    <3>3. QED
      BY <3>1, <3>2 DEF Bytes
  <2>3. QED
    BY <2>1, <2>2
<1>4. joined = Bytes(0, k + n)
  <2> HIDE DEF joined
  <2>1. Len(joined) = Len(Bytes(0, k + n)) /\ Bytes(0, k + n) \in Seq(Nat)
    BY <1>1, <1>2
  <2>2. \A i \in 1..Len(joined) : joined[i] = Bytes(0, k + n)[i]
    BY <1>2, <1>3
  <2>3. QED
    BY <1>2, <2>1, <2>2, SeqEqual
<1>5. QED
  BY <1>1, <1>4

LEMMA ReceivedAppend ==
  ASSUME NEW r \in Seq(Nat), NEW from \in Nat, NEW n \in Nat
  PROVE  /\ r \o Bytes(from, n) \in Seq(Nat)
         /\ Len(r \o Bytes(from, n)) = Len(r) + n
         /\ r = Bytes(0, from) => r \o Bytes(from, n) = Bytes(0, from + n)
<1>1. Bytes(from, n) \in Seq(Nat) /\ Len(Bytes(from, n)) = n
  BY BytesAppend
<1>2. r = Bytes(0, from) => r \o Bytes(from, n) = Bytes(0, from + n)
  BY BytesAppend
<1>3. /\ r \o Bytes(from, n) \in Seq(Nat)
      /\ Len(r \o Bytes(from, n)) = Len(r) + Len(Bytes(from, n))
  BY <1>1, ConcatProperties, Zenon
<1>4. QED
  BY <1>1, <1>2, <1>3

-----------------------------------------------------------------------------
(* A read.                                                                 *)

\* It skips nothing but wrappers' streams that were read before.
LEMMA ReadArrives ==
  ASSUME IInv, wire = "reading",
         NEW s \in Stream, FromCurrent(s), ~AtEnd(s)
  PROVE  /\ Reach \in Nat
         /\ Start[boundary][s] + pos[s] \in Nat
         /\ Start[boundary][s] + pos[s] >= Reach
         /\ Intact => Start[boundary][s] + pos[s] = Reach
<1>1. /\ boundary \in Boundary
      /\ current \in Stream
      /\ \A t \in Stream : pos[t] \in Nat /\ pos[t] <= Size(boundary, t)
      /\ \A t \in Stream \ wrapped : t > current => pos[t] = 0
      /\ \A t \in Delimiters : t \in Stream /\ t \notin wrapped /\ t \notin shut
  BY ConstantsAssumption DEF IInv, TypeOK, Made, Positions, Delimiters
<1>2. Intact => shut = {}
  BY DEF IInv, TypeOK, Intact, FirstUse, Made
<1>3. \A t \in Stream : Start[boundary][t] \in Nat /\ Size(boundary, t) \in Nat
                         /\ Start[boundary][t + 1]
                              = Start[boundary][t] + Size(boundary, t)
  BY <1>1, StartFacts, SizeFacts
<1>4. current <= s /\ \A t \in current..(s - 1) : AtEnd(t)
  BY <1>1 DEF FromCurrent, Stream
<1>5. CASE s = current
  BY <1>1, <1>3, <1>5 DEF Reach
<1>6. CASE s = current + 1
  <2>1. AtEnd(current)
    BY <1>1, <1>4, <1>6 DEF Stream
  <2>2. Intact => pos[current] = Size(boundary, current) /\ pos[s] = 0
    <3>1. Intact => pos[s] = 0
      BY <1>1, <1>6 DEF IInv, Intact, FirstUse, Made, TypeOK, Stream
    <3>2. QED
      BY <2>1, <1>2, <3>1 DEF AtEnd
  <2>3. QED
    BY <1>1, <1>3, <1>6, <2>2 DEF Reach
<1>7. CASE s > current + 1
  <2>1. \A t \in Stream : t > current /\ t < s => t \notin Delimiters
    <3>1. SUFFICES ASSUME NEW t \in Delimiters, t > current, t < s PROVE FALSE
      OBVIOUS
    <3>2. AtEnd(t) /\ pos[t] = 0
      BY <1>1, <1>4, <3>1 DEF Stream
    <3>3. Size(boundary, t) > 0
      BY <1>1, SizeFacts
    <3>4. QED
      BY <1>1, <3>2, <3>3 DEF AtEnd
  <2>2. current + 1 \in Stream /\ current + 1 \notin Delimiters
    <3>1. current + 1 \in Stream /\ current + 1 > current /\ current + 1 < s
      BY <1>1, <1>7, StreamFacts DEF Stream
    <3>2. QED
      BY <3>1, <2>1
  <2>3. current + 2 \in Delimiters
    BY <1>1, <2>2, StreamFacts DEF Stream
  <2>4. s = current + 2
    BY <1>1, <1>7, <2>1, <2>3 DEF Stream
  <2>5. AtEnd(current) /\ AtEnd(current + 1)
    BY <1>1, <1>4, <2>4 DEF Stream
  <2>6. Intact => pos[current] = Size(boundary, current)
                  /\ pos[current + 1] = Size(boundary, current + 1)
    BY <2>5, <1>2 DEF AtEnd
  <2>7. Start[boundary][s] = Start[boundary][current] + Size(boundary, current)
                               + Size(boundary, current + 1)
    <3>1. Start[boundary][current + 1]
            = Start[boundary][current] + Size(boundary, current)
      BY <1>1, <1>3
    <3>2. Start[boundary][current + 1 + 1]
            = Start[boundary][current + 1] + Size(boundary, current + 1)
      BY <1>3, <2>2
    <3>3. current + 1 + 1 = s
      BY <1>1, <2>4 DEF Stream
    <3>4. QED
      BY <3>1, <3>2, <3>3
  <2>8. pos[s] = 0
    BY <1>1, <2>3, <2>4, <1>7
  <2>9. /\ Start[boundary][current] \in Nat /\ Size(boundary, current) \in Nat
        /\ Size(boundary, current + 1) \in Nat /\ pos[current] \in Nat
        /\ pos[current] <= Size(boundary, current)
    BY <1>1, <1>3, <2>2
  <2>10. Start[boundary][s] + pos[s] = Start[boundary][current]
           + Size(boundary, current) + Size(boundary, current + 1)
    BY <2>7, <2>8, <2>9
  <2>11. Start[boundary][s] + pos[s] \in Nat /\ Reach \in Nat
    BY <2>9, <2>10 DEF Reach
  <2>12. Start[boundary][s] + pos[s] >= Reach
    BY <2>9, <2>10 DEF Reach
  <2>13. ASSUME Intact PROVE Start[boundary][s] + pos[s] = Reach
    <3>1. /\ pos[current] = Size(boundary, current)
          /\ pos[current + 1] = Size(boundary, current + 1)
      BY <2>6, <2>13
    <3>2. pos[current + 1] = 0
      BY <1>1, <2>2, <2>13 DEF IInv, Intact, FirstUse, Made, TypeOK, Stream
    <3>3. QED
      BY <3>1, <3>2, <2>9, <2>10 DEF Reach
  <2>14. QED
    BY <2>11, <2>12, <2>13
<1>8. s \in Nat /\ current \in Nat
  BY <1>1 DEF Stream
<1>9. QED
  BY <1>4, <1>5, <1>6, <1>7, <1>8

\* It reads nothing only at the end of the last delimiter.
LEMMA NothingAtTheEnd ==
  ASSUME IInv, ReadNothing
  PROVE  current = Streams /\ Reach = Length(boundary)
<1>1. /\ boundary \in Boundary /\ current \in Stream
      /\ Streams \in Stream /\ Streams \notin wrapped /\ Streams \notin shut
  BY ConstantsAssumption, StreamFacts
  DEF IInv, TypeOK, Made, ReadNothing, Stream
<1>2. pos[Streams] = Size(boundary, Streams) /\ Size(boundary, Streams) > 0
  BY <1>1, SizeFacts, StreamFacts DEF ReadNothing, AtEnd
<1>3. Streams > current => pos[Streams] = 0
  BY <1>1 DEF IInv, Positions, ReadNothing
<1>4. current = Streams
  BY <1>1, <1>2, <1>3, StreamFacts DEF Stream
<1>5. Length(boundary) = Start[boundary][Streams] + Size(boundary, Streams)
  BY <1>1, StartFacts DEF Length
<1>6. QED
  BY <1>2, <1>4, <1>5 DEF Reach

-----------------------------------------------------------------------------
(* The invariant is inductive.                                             *)

LEMMA InvInit == Init => IInv
<1> SUFFICES ASSUME Init PROVE IInv
  OBVIOUS
<1>1. MaxBodies \in Nat /\ wrapped \subseteq Stream \ Delimiters
  BY ConstantsAssumption DEF Init
<1>2. \A s \in wrapped : Content[s \div 2] \in Nat
  BY <1>1, StreamFacts, ConstantsAssumption
<1>3. TypeOK
  BY <1>1 DEF Init, TypeOK, Wire
<1>4. Made /\ FirstUse /\ Received
  BY <1>1 DEF Init, Made, FirstUse, Received
<1>5. Positions
  BY <1>1, <1>2 DEF Init, Positions
<1>6. QED
  BY <1>3, <1>4, <1>5 DEF IInv

\* A body that is made begins anew, except for what it shares.
LEMMA MakeBodyInv ==
  ASSUME IInv, NEW b \in Boundary, MakeBody(b), shut' = shut,
         \/ header' = [boundary |-> b, length |-> Length(b)]
         \/ header' = header /\ wire # "none",
         wrapped' = wrapped
  PROVE  IInv'
<1>1. /\ MaxBodies \in Nat /\ wrapped \subseteq Stream \ Delimiters
      /\ Length(b) \in Nat
  BY ConstantsAssumption, StartFacts DEF IInv, TypeOK
<1>2. bodies' = bodies + 1 /\ bodies \in Nat /\ bodies' \in 0..MaxBodies
  BY <1>1 DEF IInv, TypeOK, MakeBody
<1>3. TypeOK'
  BY <1>1, <1>2 DEF IInv, TypeOK, MakeBody, FreshPositions, Wire
<1>4. Made'
  <2>1. boundary' = b /\ wire' = "ready" /\ bodies' > 0
    BY <1>2 DEF MakeBody
  <2>2. CASE header' = [boundary |-> b, length |-> Length(b)]
    BY <2>1, <2>2 DEF Made, Length
  <2>3. CASE header' = header /\ wire # "none"
    BY <2>1, <2>3 DEF IInv, Made, Length
  <2>4. QED
    BY <2>2, <2>3
<1>5. Positions'
  <2>1. /\ boundary' = b /\ wire' = "ready"
        /\ pos' = [s \in Stream |-> IF s \in wrapped THEN pos[s] ELSE 0]
    BY DEF MakeBody, FreshPositions
  <2>2. \A s \in wrapped : pos'[s] <= Content[s \div 2]
    BY <1>1, <2>1 DEF IInv, Positions
  <2>3. ASSUME NEW s \in Stream PROVE pos'[s] <= Size(b, s)
    BY <1>1, <2>1, <2>2, SizeFacts
  <2>4. \A s \in Stream \ wrapped : pos'[s] = 0
    BY <2>1
  <2>5. QED
    BY <1>2, <2>1, <2>2, <2>3, <2>4 DEF Positions, Size
<1>6. FirstUse'
  <2>1. CASE bodies = 0
    BY <1>1, <1>2, <2>1 DEF IInv, TypeOK, Made, FirstUse, Positions, MakeBody,
                            FreshPositions
  <2>2. CASE bodies > 0
    BY <1>2, <2>2 DEF FirstUse
  <2>3. QED
    BY <1>2, <2>1, <2>2
<1>7. Received'
  BY DEF Received, MakeBody
<1>8. QED
  BY <1>3, <1>4, <1>5, <1>6, <1>7 DEF IInv

LEMMA ReadInv ==
  ASSUME IInv, NEW len \in BufferSize, Read(len)
  PROVE  IInv'
<1>1. PICK s \in Stream, n \in 1..len :
        /\ FromCurrent(s) /\ ~AtEnd(s)
        /\ current' = s
        /\ n <= LeftOf(s)
        /\ received' = received \o Bytes(Start[boundary][s] + pos[s], n)
        /\ pos' = [pos EXCEPT ![s] = @ + n]
  BY DEF Read
<1>2. /\ wire = "reading" /\ wire' = "reading" /\ header' = header
      /\ boundary' = boundary /\ shut' = shut /\ bodies' = bodies
      /\ wrapped' = wrapped
  BY DEF Read
<1>3. /\ boundary \in Boundary /\ pos \in [Stream -> Nat] /\ received \in Seq(Nat)
      /\ n \in Nat /\ current \in Stream /\ s >= current
      /\ current \in Nat /\ s \in Nat
  BY <1>1, <1>2, ConstantsAssumption
  DEF IInv, TypeOK, Made, FromCurrent, Stream
<1>4. /\ Reach \in Nat
      /\ Start[boundary][s] + pos[s] \in Nat
      /\ Start[boundary][s] + pos[s] >= Reach
      /\ Intact => Start[boundary][s] + pos[s] = Reach
  BY <1>1, <1>2, ReadArrives
<1>5. Reach' = Start[boundary][s] + pos[s] + n
  <2>1. Start[boundary][s] \in Nat
    BY <1>3, StartFacts
  <2>2. pos'[s] = pos[s] + n
    BY <1>1, <1>3
  <2>3. QED
    BY <1>1, <1>2, <1>3, <2>1, <2>2 DEF Reach
<1>6. /\ received' \in Seq(Nat) /\ Len(received') = Len(received) + n
      /\ received = Bytes(0, Start[boundary][s] + pos[s]) =>
           received' = Bytes(0, Start[boundary][s] + pos[s] + n)
  BY <1>1, <1>3, <1>4, ReceivedAppend
<1>7. TypeOK'
  <2>1. pos' \in [Stream -> Nat]
    <3>1. pos[s] + n \in Nat
      BY <1>3
    <3>2. QED
      BY <1>1, <1>3, <3>1
  <2>2. current' \in Stream
    BY <1>1
  <2>3. TypeOK
    BY DEF IInv
  <2>4. received' \in Seq(Nat)
    BY <1>6
  <2>5. QED
    BY <1>2, <2>1, <2>2, <2>3, <2>4 DEF TypeOK
<1>8. Made'
  BY <1>2 DEF IInv, Made, Length
<1>9. Positions'
  <2>1. pos'[s] <= Size(boundary, s)
    <3>1. Size(boundary, s) \in Nat
      BY <1>3, SizeFacts
    <3>2. QED
      BY <1>1, <1>3, <3>1 DEF LeftOf
  <2>2. \A t \in Stream : t # s => pos'[t] = pos[t]
    BY <1>1, <1>3
  <2>3. \A t \in Stream : pos'[t] <= Size(boundary, t)
    BY <1>2, <2>1, <2>2 DEF IInv, Positions
  <2>4. \A t \in wrapped : /\ t \in Stream \ Delimiters
                           /\ Size(boundary, t) = Content[t \div 2]
    BY <1>3, SizeFacts DEF IInv, TypeOK
  <2>5. \A t \in wrapped : pos'[t] <= Content[t \div 2]
    BY <2>3, <2>4
  <2>6. \A t \in Stream \ wrapped : t > s => pos'[t] = 0
    BY <1>2, <1>3, <2>2 DEF IInv, Positions, Stream
  <2>7. bodies # 0
    BY <1>2 DEF IInv, Made, TypeOK
  <2>8. QED
    BY <1>1, <1>2, <2>3, <2>5, <2>6, <2>7 DEF Positions, Size
<1>10. FirstUse'
  BY <1>1, <1>2, <1>3 DEF IInv, FirstUse, Stream
<1>11. Received'
  <2>1. Intact' = Intact
    BY <1>2 DEF Intact
  <2>2. /\ Len(received) \in Nat /\ Len(received) <= Reach
        /\ Len(received) = Reach => received = Bytes(0, Reach)
        /\ Intact => Len(received) = Reach
    BY <1>2, <1>3 DEF IInv, Received
  <2> DEFINE at == Start[boundary][s] + pos[s]
  <2>3. /\ at \in Nat /\ at >= Reach /\ Reach \in Nat /\ n \in Nat
        /\ Intact => at = Reach
        /\ Reach' = at + n /\ Len(received') = Len(received) + n
        /\ received = Bytes(0, at) => received' = Bytes(0, at + n)
    BY <1>3, <1>4, <1>5, <1>6
  <2> HIDE DEF at
  <2>4. Len(received') <= Reach' /\ (Intact => Len(received') = Reach')
    BY <2>2, <2>3
  <2>5. Len(received') = Reach' => received' = Bytes(0, Reach')
    <3>1. Len(received') = Reach' => Len(received) = Reach /\ Reach = at
      BY <2>2, <2>3
    <3>2. QED
      BY <2>2, <2>3, <3>1
  <2>6. QED
    BY <1>2, <2>1, <2>3, <2>4, <2>5 DEF Received
<1>12. QED
  BY <1>7, <1>8, <1>9, <1>10, <1>11 DEF IInv

LEMMA InvStep == IInv /\ [Next]_vars => IInv'
<1> SUFFICES ASSUME IInv, [Next]_vars PROVE IInv'
  OBVIOUS
<1>1. ASSUME NEW len \in BufferSize, Read(len) PROVE IInv'
  BY <1>1, ReadInv
<1>2. ASSUME NEW b \in Boundary, CreateConnection(b) PROVE IInv'
  BY <1>2, MakeBodyInv DEF CreateConnection
<1>3. ASSUME NEW b \in Boundary, NeedNewBodyStream(b) PROVE IInv'
  BY <1>3, MakeBodyInv DEF NeedNewBodyStream
<1>4. CASE Open
  <2>1. /\ boundary \in Boundary /\ 1 \in Stream
        /\ Start[boundary][1] = 0 /\ pos[1] = 0
    BY <1>4, StreamFacts, StartFacts
    DEF Open, IInv, TypeOK, Made, Positions, Delimiters
  <2>2. TypeOK'
    BY <1>4, <2>1 DEF IInv, TypeOK, Open, Wire
  <2>3. Made'
    BY <1>4 DEF IInv, Made, Open, Length
  <2>4. Positions' /\ FirstUse'
    BY <1>4, <2>1 DEF IInv, Positions, FirstUse, TypeOK, Open, Size, Stream
  <2>5. Reach' = 0 /\ received' = <<>>
    BY <1>4, <2>1 DEF IInv, Received, Reach, Open
  <2>6. Received'
    BY <1>4, <2>5 DEF Received, Open, Bytes
  <2>7. QED
    BY <2>2, <2>3, <2>4, <2>6 DEF IInv
<1>5. CASE OpenAgain \/ ReadNoStream
  BY <1>5 DEF OpenAgain, ReadNoStream, IInv, TypeOK, Wire, Made, Length,
              Positions, Size, FirstUse, Received
<1>6. CASE ReadNothing
  <2>1. Reach = Length(boundary)
    BY <1>6, NothingAtTheEnd
  <2>2. TypeOK'
    BY <1>6 DEF IInv, TypeOK, ReadNothing, Wire
  <2>3. Made' /\ Positions' /\ FirstUse'
    BY <1>6 DEF IInv, Made, Length, Positions, Size, FirstUse, ReadNothing
  <2>4. Received'
    BY <1>6, <2>1 DEF IInv, Received, ReadNothing, Intact, Length
  <2>5. QED
    BY <2>2, <2>3, <2>4 DEF IInv
<1>7. CASE ReadFails
  <2>1. PICK s \in Stream : s >= current /\ current' = s
    BY <1>7, ConstantsAssumption
    DEF ReadFails, FromCurrent, IInv, TypeOK, Stream
  <2>2. TypeOK'
    BY <1>7, <2>1 DEF IInv, TypeOK, ReadFails, Wire
  <2>3. Made' /\ FirstUse' /\ Received'
    BY <1>7 DEF IInv, Made, Length, FirstUse, Received, ReadFails
  <2>4. Positions'
    BY <1>7, <2>1 DEF IInv, TypeOK, Positions, Size, ReadFails, Stream
  <2>5. QED
    BY <2>2, <2>3, <2>4 DEF IInv
<1>8. CASE Close
  <2>1. TypeOK'
    BY <1>8 DEF IInv, TypeOK, Close, Wire
  <2>2. QED
    BY <1>8, <2>1 DEF IInv, Close, Made, Length, Positions, Size, FirstUse,
                      Received
<1>9. CASE CancelledConnectionCloses
  <2>1. ~(bodies <= 1)
    BY <1>9 DEF CancelledConnectionCloses, IInv, TypeOK
  <2>2. TypeOK' /\ Made' /\ Positions' /\ FirstUse'
    BY <1>9, <2>1 DEF CancelledConnectionCloses, IInv, TypeOK, Made, Length,
                      Positions, Size, FirstUse
  <2>3. Received'
    BY <1>9 DEF CancelledConnectionCloses, IInv, Received, Reach, Intact, Length
  <2>4. QED
    BY <2>2, <2>3 DEF IInv
<1>10. CASE UNCHANGED vars
  BY <1>10 DEF vars, IInv, TypeOK, Made, Length, Positions, Size, FirstUse,
               Received, Reach, Intact
<1>11. QED
  BY <1>1, <1>2, <1>3, <1>4, <1>5, <1>6, <1>7, <1>8, <1>9, <1>10
  DEF Next, Reading

-----------------------------------------------------------------------------
(* The theorems.                                                           *)

\* The type invariant, whatever the parts and the boundaries.
THEOREM TypeCorrect == Spec => []TypeOK
<1>1. IInv => TypeOK
  BY DEF IInv
<1>2. QED
  BY InvInit, InvStep, <1>1, PTL DEF Spec

\* A body that is damaged by a wrapper's stream that was used before is shorter
\* than the header says: the two can only agree about a whole body
\* (NXOAuth2PostBodyStream.m 148-165, NXOAuth2Connection.m 234-245, 563-566).
THEOREM DamageIsNoticed == Spec => []DamageShows
<1>1. IInv => DamageShows
  <2> SUFFICES ASSUME IInv, wire \in {"ended", "empty"},
                      boundary = header.boundary, Len(received) = header.length
               PROVE  received = Bytes(0, Length(boundary))
    BY DEF DamageShows
  <2>1. header.length = Length(boundary) /\ boundary \in Boundary
    BY DEF IInv, Made
  <2>2. CASE wire = "ended"
    BY <2>1, <2>2 DEF IInv, Received
  <2>3. CASE wire = "empty"
    <3>1. Len(received) = 0
      BY <2>3 DEF IInv, Received
    <3>2. QED
      BY <2>1, <3>1, StartFacts
  <2>4. QED
    BY <2>2, <2>3
<1>2. QED
  BY InvInit, InvStep, <1>1, PTL DEF Spec

LEMMA SourceInit == Init => Source!Init
  BY DEF Init, Source!Init, SourceState, Intact

\* What is read is the next piece of the source.
LEMMA SourceRead ==
  ASSUME Intact, IInv, NEW len \in BufferSize, Read(len)
  PROVE  Source!Read
<1>1. PICK s \in Stream, n \in 1..len :
        /\ FromCurrent(s) /\ ~AtEnd(s) /\ n <= LeftOf(s)
        /\ received' = received \o Bytes(Start[boundary][s] + pos[s], n)
  BY DEF Read
<1>2. /\ wire = "reading" /\ wire' = "reading" /\ boundary' = boundary
      /\ boundary \in Boundary /\ boundary # NoBoundary
      /\ s \in Stream /\ pos[s] \in Nat /\ n \in Nat /\ n >= 1
  BY <1>1, ConstantsAssumption DEF Read, IInv, Made, TypeOK
<1>3. /\ Len(received) = Start[boundary][s] + pos[s]
      /\ Len(received) \in Nat
  <2>1. Len(received) = Reach
    BY <1>2 DEF IInv, Received
  <2>2. QED
    BY <1>1, <1>2, <2>1, ReadArrives
<1>4. n \in 1..(Length(boundary) - Len(received))
  <2>1. /\ Start[boundary][s] \in Nat /\ Size(boundary, s) \in Nat
        /\ Start[boundary][s + 1] = Start[boundary][s] + Size(boundary, s)
        /\ Length(boundary) \in Nat
    BY <1>2, StartFacts, SizeFacts
  <2>2. Start[boundary][s + 1] <= Length(boundary)
    BY <1>2, StartsAreOrdered
  <2>3. n <= Size(boundary, s) - pos[s]
    BY <1>1 DEF LeftOf
  <2>4. QED
    BY <1>2, <1>3, <2>1, <2>2, <2>3
<1>5. received' = received \o Source!Piece(Len(received), n)
  BY <1>1, <1>3 DEF Bytes, Source!Piece
<1>6. QED
  <2>1. wrapped' = wrapped /\ bodies' = bodies
    BY DEF Read
  <2>2. Intact'
    BY <2>1 DEF Intact
  <2>3. SourceState = "reading" /\ SourceState' = "reading"
    BY <1>2, <2>2 DEF SourceState
  <2>4. Length(boundary)' = Length(boundary)
    BY <1>2 DEF Length
  <2>5. QED
    BY <1>4, <1>5, <2>3, <2>4 DEF Source!Read

LEMMA SourceStep ==
  ASSUME IInv, [Next]_vars
  PROVE  [Source!Next]_(Source!vars)
<1> USE DEF Source!vars, Source!Next, SourceState
<1>1. /\ bodies \in Nat /\ wire \in Wire
      /\ bodies' = bodies \/ bodies' = bodies + 1
      /\ wrapped' = wrapped
      /\ Intact' => Intact
  BY DEF IInv, TypeOK, Intact, Next, Reading, Open, OpenAgain, Read, ReadNothing,
         ReadFails, ReadNoStream, Close, CreateConnection, NeedNewBodyStream,
         MakeBody, CancelledConnectionCloses, vars
<1>2. CASE ~Intact
  BY <1>1, <1>2
<1>3. CASE Intact /\ ~Intact'
  <2>1. Source!Close
    BY <1>3 DEF Source!Close
  <2>2. QED
    BY <2>1
<1>4. CASE Intact /\ Intact'
  <2> USE <1>4
  <2>1. ASSUME NEW len \in BufferSize, Read(len) PROVE Source!Read
    BY <2>1, SourceRead
  <2>2. ASSUME NEW b \in Boundary, CreateConnection(b) \/ NeedNewBodyStream(b)
        PROVE  Source!Begin
    BY <2>2, StartFacts
    DEF CreateConnection, NeedNewBodyStream, MakeBody, Source!Begin, Length
  <2>3. CASE Open
    BY <2>3 DEF Open, Source!Open, Length
  <2>4. CASE OpenAgain \/ ReadNoStream
    BY <2>4 DEF OpenAgain, ReadNoStream
  <2>5. CASE ReadNothing
    <3>1. received = Bytes(0, Length(boundary))
      BY <2>5, NothingAtTheEnd DEF IInv, Received, ReadNothing
    <3>2. received = Source!Whole(Length(boundary))
      BY <3>1 DEF Bytes, Source!Whole, Source!Piece
    <3>3. Source!End
      BY <2>5, <3>2 DEF ReadNothing, Source!End, Length
    <3>4. QED
      BY <3>3
  <2>6. CASE ReadFails
    BY <2>6 DEF ReadFails, Source!Fail, Length
  <2>7. CASE Close
    BY <2>7 DEF Close, Source!Close
  <2>8. CASE CancelledConnectionCloses
    BY <2>8 DEF CancelledConnectionCloses, Length
  <2>9. CASE UNCHANGED vars
    BY <2>9 DEF vars, Length
  <2>10. QED
    BY <2>1, <2>2, <2>3, <2>4, <2>5, <2>6, <2>7, <2>8, <2>9 DEF Next, Reading
<1>5. QED
  BY <1>1, <1>2, <1>3, <1>4

\* The stream implements the source of bytes that the connection is promised:
\* the first body of a request, and every body without wrappers.
THEOREM ImplementsByteSource == Spec => IsByteSource
<1>1. Init => Source!Init
  BY SourceInit
<1>2. IInv /\ [Next]_vars => [Source!Next]_(Source!vars)
  BY SourceStep
<1>3. QED
  BY <1>1, <1>2, InvInit, InvStep, PTL DEF Spec, IsByteSource, Source!Spec

-----------------------------------------------------------------------------
(* The safety half of BodyEnds.                                            *)

\* The connection is never further than the end of the body.
LEMMA ReachIsBounded ==
  ASSUME IInv, wire = "reading"
  PROVE  Reach \in Nat /\ Length(boundary) \in Nat /\ Reach <= Length(boundary)
<1>1. /\ boundary \in Boundary /\ current \in Stream
      /\ pos[current] \in Nat /\ pos[current] <= Size(boundary, current)
  BY ConstantsAssumption DEF IInv, TypeOK, Made, Positions
<1>2. /\ Start[boundary][current] \in Nat /\ Size(boundary, current) \in Nat
      /\ Start[boundary][current + 1]
           = Start[boundary][current] + Size(boundary, current)
      /\ Length(boundary) \in Nat
  BY <1>1, StartFacts, SizeFacts
<1>3. Start[boundary][current + 1] <= Length(boundary)
  BY <1>1, StartsAreOrdered
<1>4. QED
  BY <1>1, <1>2, <1>3 DEF Reach

\* The first stream with bytes left is where a read arrives; if there is none, it
\* arrives at the last.
LEMMA ReadArrivesSomewhere ==
  ASSUME NEW c \in Stream, current = c
  PROVE  \/ \E s \in Stream : FromCurrent(s) /\ ~AtEnd(s)
         \/ FromCurrent(Streams) /\ AtEnd(Streams)
<1> DEFINE left == {s \in Stream : s >= c /\ ~AtEnd(s)}
<1>1. Streams \in Nat /\ Streams \in Stream /\ \A s \in Stream : s \in Nat /\ s <= Streams
  BY StreamFacts DEF Stream
<1>2. CASE left = {}
  <2>1. \A s \in c..Streams : s \in Stream /\ AtEnd(s)
    BY <1>1, <1>2 DEF Stream
  <2>2. Streams \in c..Streams
    BY <1>1
  <2>3. QED
    BY <1>1, <2>1, <2>2 DEF FromCurrent
<1>3. CASE left # {}
  <2>1. left \in SUBSET Nat
    BY <1>1
  <2>2. PICK s \in left : \A t \in left : s <= t
    BY <1>3, <2>1, LeastNatural
  <2>3. s \in c..Streams /\ s \in Stream /\ ~AtEnd(s)
    BY <1>1, <2>2
  <2>4. ASSUME NEW t \in c..(s - 1) PROVE AtEnd(t)
    <3>1. t \in Stream /\ t >= c /\ t < s
      BY <1>1, <2>3, <2>4 DEF Stream
    <3>2. t \notin left
      BY <1>1, <2>2, <2>3, <3>1
    <3>3. QED
      BY <3>1, <3>2
  <2>5. FromCurrent(s)
    BY <2>3, <2>4 DEF FromCurrent
  <2>6. QED
    BY <2>3, <2>5
<1>4. QED
  BY <1>2, <1>3

\* No stream keeps the connection reading nothing, and none gives bytes for ever:
\* with the fairness of FairSpec this is BodyEnds.
THEOREM ReadsReturn == Spec => []ReadReturns
<1>1. IInv => ReadReturns
  <2> SUFFICES ASSUME IInv, wire = "reading"
               PROVE  /\ Len(received) <= Length(boundary)
                      /\ \/ \E s \in Stream : FromCurrent(s) /\ ~AtEnd(s)
                         \/ FromCurrent(Streams) /\ AtEnd(Streams)
    BY DEF ReadReturns
  <2>1. current \in Stream /\ received \in Seq(Nat) /\ Len(received) <= Reach
    BY DEF IInv, TypeOK, Received
  <2>2. Len(received) \in Nat
    BY <2>1
  <2>3. Len(received) <= Length(boundary)
    BY <2>1, <2>2, ReachIsBounded
  <2>4. QED
    BY <2>1, <2>3, ReadArrivesSomewhere
<1>2. QED
  BY InvInit, InvStep, <1>1, PTL DEF Spec
=============================================================================
