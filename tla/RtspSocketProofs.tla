--------------------------- MODULE RtspSocketProofs ---------------------------
(***************************************************************************)
(* Which requests are served, and how many messages wait, for any number   *)
(* of messages, however the reads cut them.                                *)
(***************************************************************************)
EXTENDS RtspSocket, FiniteSetTheorems, TLAPS

(* The units from the head of the buffer to the last that is written.      *)
N == Len(buf) + Len(wire)

Unit(p) == IF p <= Len(buf) THEN buf[p] ELSE wire[p - Len(buf)]

Units == [of : Nat, at : Nat]

StreamType == sent \in Seq(Kinds) /\ buf \in Seq(Units) /\ wire \in Seq(Units)

(* The last unit of the message at a position.                             *)
EndOf(p) == p + LenOf(KindOf(Unit(p))) - Unit(p).at

(* A unit belongs to a message that was sent, which is there from the unit *)
(* on to its end, and is followed by the next one.                         *)
Whole(p) ==
  /\ Unit(p).of \in 1 .. Len(sent) /\ Unit(p).at \in 1 .. LenOf(KindOf(Unit(p)))
  /\ EndOf(p) <= N
  /\ \A j \in p .. EndOf(p) : Unit(j).of = Unit(p).of /\ Unit(j).at = Unit(p).at + (j - p)
  /\ EndOf(p) = N => Unit(p).of = Len(sent)
  /\ EndOf(p) < N => Unit(EndOf(p) + 1).of = Unit(p).of + 1 /\ Opens(Unit(EndOf(p) + 1))

(* What opens at a position is later than all before it.                   *)
Later(p) == \A q \in p + 1 .. N : Opens(Unit(q)) => Unit(p).of < Unit(q).of

StreamInv == StreamType /\ \A p \in 1 .. N : Whole(p) /\ Later(p)

(* A request that was served is before all that are still to come.         *)
HandledInv ==
  /\ handled \in Seq(Nat)
  /\ \A i, j \in DOMAIN handled : i < j => handled[i] < handled[j]
  /\ \A i \in DOMAIN handled : /\ handled[i] <= Len(sent)
                               /\ \A p \in 1 .. N : Opens(Unit(p)) => handled[i] < Unit(p).of

(* Cut at the ends of messages.                                            *)
CutInv ==
  ~stray =>
    /\ N > 0 => Opens(Unit(1))
    /\ Elements(handled) = {i \in 1 .. HeadOf - 1 : sent[i] \in Requests}

OrderInv == ~wrapped => StreamInv /\ HandledInv /\ CutInv

(* How many messages may wait, where the loop is.                          *)
Allowed == IF pc = "parse" THEN extra + 1 ELSE extra

WaitInv ==
  /\ extra \in Nat
  /\ ~stray /\ ~wrapped /\ ~Jammed /\ ~Borrowed /\ pc \notin {"ended", "dead"} =>
       Cardinality(Complete) <= Allowed

-----------------------------------------------------------------------------
LEMMA MinFacts ==
  ASSUME NEW S \in SUBSET Nat, S # {}
  PROVE  Min(S) \in S /\ \A q \in S : Min(S) <= q
<1>1. PICK p \in S : \A q \in S : ~(<<q, p>> \in OpToRel(<, Nat))
      BY NatLessThanWellFounded, WFMin, Zenon
<1>2. \A q \in S : ~(q < p)
      BY <1>1 DEF OpToRel
<1>3. \A q \in S : p <= q
      BY <1>2
<1>. QED
  BY <1>3 DEF Min

LEMMA KindFacts ==
  ASSUME NEW k \in Kinds
  PROVE  /\ LenOf(k) \in Nat /\ LenOf(k) >= 2 /\ BodyOf(k) \in Nat
         /\ k \in Text => LenOf(k) = 2 + BodyOf(k)
         /\ k \in Text <=> k \notin Binary
BY KindsAssumption, WidthAssumption DEF LenOf, BodyOf, Text, Binary

(* What is left of a list when its first units are taken.                  *)
LEMMA RestFacts ==
  ASSUME NEW s \in Seq(Units), NEW n \in 0 .. Len(s)
  PROVE  /\ SubSeq(s, n + 1, Len(s)) \in Seq(Units)
         /\ Len(SubSeq(s, n + 1, Len(s))) = Len(s) - n
         /\ \A p \in 1 .. Len(s) - n : SubSeq(s, n + 1, Len(s))[p] = s[p + n]
         /\ SubSeq(s, 1, n) \in Seq(Units)
         /\ Len(SubSeq(s, 1, n)) = n
         /\ \A p \in 1 .. n : SubSeq(s, 1, n)[p] = s[p]
OBVIOUS

LEMMA JoinFacts ==
  ASSUME NEW s \in Seq(Units), NEW t \in Seq(Units)
  PROVE  /\ s \o t \in Seq(Units) /\ Len(s \o t) = Len(s) + Len(t)
         /\ \A p \in 1 .. Len(s) : (s \o t)[p] = s[p]
         /\ \A p \in 1 .. Len(t) : (s \o t)[Len(s) + p] = t[p]
OBVIOUS

LEMMA UnitFacts ==
  ASSUME StreamType
  PROVE  /\ N \in Nat /\ Len(buf) \in Nat /\ Len(wire) \in Nat /\ Len(sent) \in Nat
         /\ \A p \in 1 .. N : Unit(p) \in Units /\ Unit(p).of \in Nat /\ Unit(p).at \in Nat
         /\ \A p \in 1 .. Len(buf) : Unit(p) = buf[p]
         /\ \A p \in 1 .. Len(wire) : Unit(Len(buf) + p) = wire[p]
<1>1. /\ N \in Nat /\ Len(buf) \in Nat /\ Len(wire) \in Nat /\ Len(sent) \in Nat
      BY DEF StreamType, N
<1>2. \A p \in 1 .. Len(buf) : Unit(p) = buf[p]
      BY <1>1 DEF Unit
<1>3. ASSUME NEW p \in 1 .. Len(wire) PROVE Unit(Len(buf) + p) = wire[p]
  <2>1. ~(Len(buf) + p <= Len(buf)) /\ Len(buf) + p - Len(buf) = p
        BY <1>1
  <2>. QED
    BY <2>1 DEF Unit
<1>4. ASSUME NEW p \in 1 .. N PROVE Unit(p) \in Units
  <2>1. CASE p <= Len(buf)
        BY <1>1, <1>2, <2>1 DEF StreamType, N
  <2>2. CASE ~(p <= Len(buf))
    <3>1. p - Len(buf) \in 1 .. Len(wire)
          BY <1>1, <2>2 DEF N
    <3>. QED
      BY <2>2, <3>1 DEF StreamType, Unit
  <2>. QED
    BY <2>1, <2>2
<1>5. \A p \in 1 .. N : Unit(p).of \in Nat /\ Unit(p).at \in Nat
      BY <1>4 DEF Units
<1>. QED
  BY <1>1, <1>2, <1>3, <1>4, <1>5

(* A unit of the stream, its kind and the end of its message.              *)
LEMMA WholeFacts ==
  ASSUME StreamInv, NEW p \in 1 .. N
  PROVE  /\ KindOf(Unit(p)) \in Kinds /\ LenOf(KindOf(Unit(p))) \in Nat
         /\ LenOf(KindOf(Unit(p))) >= 2
         /\ EndOf(p) \in p .. N /\ EndOf(p) - p = LenOf(KindOf(Unit(p))) - Unit(p).at
         /\ Unit(p).of \in Nat /\ Unit(p).at \in Nat
<1>1. Whole(p) /\ StreamType
      BY DEF StreamInv
<1>2. N \in Nat /\ Unit(p).of \in Nat /\ Unit(p).at \in Nat
      BY <1>1, UnitFacts
<1>3. KindOf(Unit(p)) \in Kinds
  <2>1. Unit(p).of \in 1 .. Len(sent) /\ sent \in Seq(Kinds)
        BY <1>1 DEF Whole, StreamType
  <2>. QED
    BY <2>1 DEF KindOf
<1>4. LenOf(KindOf(Unit(p))) \in Nat /\ LenOf(KindOf(Unit(p))) >= 2
      BY <1>3, KindFacts
<1>5. EndOf(p) = p + LenOf(KindOf(Unit(p))) - Unit(p).at
      BY DEF EndOf
<1>6. Unit(p).at <= LenOf(KindOf(Unit(p))) /\ EndOf(p) <= N
      BY <1>1, <1>2, <1>4 DEF Whole
<1>. QED
  BY <1>2, <1>3, <1>4, <1>5, <1>6

(* The invariant of the stream when its first units are taken.             *)
LEMMA ShiftKeeps ==
  ASSUME StreamInv, NEW k \in Nat, k <= N, UNCHANGED sent, StreamType', N' = N - k,
         \A p \in 1 .. N - k : Unit(p)' = Unit(p + k)
  PROVE  StreamInv'
<1>1. N \in Nat
      BY UnitFacts DEF StreamInv
<1>2. ASSUME NEW p \in 1 .. N - k
      PROVE  Whole(p)'
  <2>1. p + k \in 1 .. N
        BY <1>1
  <2>2. PICK m : m = p + k
        OBVIOUS
  <2>3. m \in 1 .. N /\ Whole(m) /\ Unit(p)' = Unit(m)
        BY <2>1, <2>2 DEF StreamInv
  <2>4. /\ EndOf(m) \in m .. N /\ LenOf(KindOf(Unit(m))) \in Nat /\ Unit(m).at \in Nat
        /\ EndOf(m) - m = LenOf(KindOf(Unit(m))) - Unit(m).at
        BY <2>3, WholeFacts
  <2>5. KindOf(Unit(p))' = KindOf(Unit(m))
        BY <2>3 DEF KindOf
  <2>6. EndOf(p)' = p + LenOf(KindOf(Unit(m))) - Unit(m).at
        BY <2>3, <2>5 DEF EndOf
  <2>7. EndOf(p)' = EndOf(m) - k /\ EndOf(p)' \in p .. N - k
        BY <1>1, <2>2, <2>3, <2>4, <2>6
  <2>8. PICK e : e = EndOf(p)'
        OBVIOUS
  <2>9. e \in p .. N - k /\ e = EndOf(m) - k
        BY <2>7, <2>8
  <2>10. ASSUME NEW j \in p .. e
         PROVE  Unit(j)'.of = Unit(p)'.of /\ Unit(j)'.at = Unit(p)'.at + (j - p)
    <3>1. j \in 1 .. N - k /\ j + k \in m .. EndOf(m) /\ j + k - m = j - p
          BY <1>1, <2>2, <2>3, <2>4, <2>9
    <3>2. Unit(j)' = Unit(j + k)
          BY <3>1
    <3>3. Unit(j + k).of = Unit(m).of /\ Unit(j + k).at = Unit(m).at + (j + k - m)
          BY <2>3, <3>1 DEF Whole
    <3>. QED
      BY <2>3, <3>1, <3>2, <3>3
  <2>11. e = N - k => Unit(p)'.of = Len(sent)
    <3>1. e = N - k => EndOf(m) = N
          BY <1>1, <2>4, <2>9
    <3>. QED
      BY <2>3, <3>1 DEF Whole
  <2>12. e < N - k => Unit(e + 1)'.of = Unit(p)'.of + 1 /\ Unit(e + 1)'.at = 1
    <3>. SUFFICES ASSUME e < N - k PROVE Unit(e + 1)'.of = Unit(p)'.of + 1 /\ Unit(e + 1)'.at = 1
         OBVIOUS
    <3>1. EndOf(m) < N /\ e + 1 \in 1 .. N - k /\ e + 1 + k = EndOf(m) + 1
          BY <1>1, <2>4, <2>9
    <3>2. Unit(e + 1)' = Unit(EndOf(m) + 1)
          BY <3>1
    <3>. QED
      BY <2>3, <3>1, <3>2 DEF Whole, Opens
  <2>13. Unit(p)'.of \in 1 .. Len(sent) /\ Unit(p)'.at \in 1 .. LenOf(KindOf(Unit(m)))
         BY <2>3 DEF Whole
  <2>. QED
    BY <1>1, <2>5, <2>8, <2>9, <2>10, <2>11, <2>12, <2>13 DEF Whole, Opens
<1>3. ASSUME NEW p \in 1 .. N - k
      PROVE  Later(p)'
  <2>1. p + k \in 1 .. N
        BY <1>1
  <2>2. ASSUME NEW q \in p + 1 .. N - k, Unit(q)'.at = 1
        PROVE  Unit(p)'.of < Unit(q)'.of
    <3>1. q \in 1 .. N - k /\ q + k \in p + k + 1 .. N
          BY <1>1
    <3>2. Unit(q)' = Unit(q + k) /\ Unit(p)' = Unit(p + k)
          BY <3>1
    <3>3. Later(p + k)
          BY <2>1 DEF StreamInv
    <3>. QED
      BY <2>2, <3>1, <3>2, <3>3 DEF Later, Opens
  <2>. QED
    BY <2>2 DEF Later, Opens
<1>. QED
  BY <1>2, <1>3 DEF StreamInv

(* A message is written behind all others.                                 *)
LEMMA SendFacts ==
  ASSUME StreamType, NEW k \in Kinds, Send(k), NEW n, n = N
  PROVE  /\ StreamType' /\ sent' = Append(sent, k) /\ Len(sent)' = Len(sent) + 1
         /\ \A i \in 1 .. Len(sent) : sent'[i] = sent[i]
         /\ sent'[Len(sent) + 1] = k
         /\ N' = N + LenOf(k)
         /\ \A p \in 1 .. n : Unit(p)' = Unit(p)
         /\ \A j \in 1 .. LenOf(k) : Unit(n + j)' = [of |-> Len(sent) + 1, at |-> j]
<1>1. LenOf(k) \in Nat
      BY KindFacts
<1>2. PICK t : t = [j \in 1 .. LenOf(k) |-> [of |-> Len(sent) + 1, at |-> j]]
      OBVIOUS
<1>3. /\ Len(sent) \in Nat /\ N \in Nat /\ Len(buf) \in Nat /\ Len(wire) \in Nat
      /\ N = Len(buf) + Len(wire)
      BY UnitFacts DEF N
<1>4. /\ t \in Seq(Units) /\ Len(t) = LenOf(k)
      /\ \A j \in 1 .. LenOf(k) : t[j] = [of |-> Len(sent) + 1, at |-> j]
  <2>1. \A j \in 1 .. LenOf(k) : [of |-> Len(sent) + 1, at |-> j] \in Units
        BY <1>1, <1>3 DEF Units
  <2>. QED
    BY <1>1, <1>2, <2>1
<1>5. sent' = Append(sent, k) /\ wire' = wire \o t /\ buf' = buf
      BY <1>2 DEF Send
<1>6. wire \in Seq(Units) /\ buf \in Seq(Units) /\ sent \in Seq(Kinds)
      BY DEF StreamType
<1>7. /\ wire' \in Seq(Units) /\ Len(wire') = Len(wire) + LenOf(k)
      /\ \A p \in 1 .. Len(wire) : wire'[p] = wire[p]
      /\ \A j \in 1 .. LenOf(k) : wire'[Len(wire) + j] = t[j]
  <2>1. /\ wire \o t \in Seq(Units) /\ Len(wire \o t) = Len(wire) + Len(t)
        /\ \A p \in 1 .. Len(wire) : (wire \o t)[p] = wire[p]
        /\ \A p \in 1 .. Len(t) : (wire \o t)[Len(wire) + p] = t[p]
        BY <1>4, <1>6, JoinFacts
  <2>. QED
    BY <1>4, <1>5, <2>1
<1>8. /\ sent' \in Seq(Kinds) /\ Len(sent') = Len(sent) + 1
      /\ \A i \in 1 .. Len(sent) : sent'[i] = sent[i]
      /\ sent'[Len(sent) + 1] = k
      BY <1>5, <1>6
<1>9. StreamType' /\ N' = N + LenOf(k)
      BY <1>1, <1>3, <1>5, <1>6, <1>7, <1>8 DEF StreamType, N
<1>10. ASSUME NEW p \in 1 .. n PROVE Unit(p)' = Unit(p)
  <2>1. ~(p <= Len(buf)) => p - Len(buf) \in 1 .. Len(wire)
        BY <1>3
  <2>. QED
    BY <1>5, <1>7, <2>1 DEF Unit
<1>11. ASSUME NEW j \in 1 .. LenOf(k) PROVE Unit(n + j)' = [of |-> Len(sent) + 1, at |-> j]
  <2>1. PICK m : m = n + j
        OBVIOUS
  <2>2. ~(m <= Len(buf)) /\ m - Len(buf) = Len(wire) + j
        BY <1>1, <1>3, <2>1
  <2>3. Unit(m)' = wire'[m - Len(buf)]
        BY <1>5, <2>2 DEF Unit
  <2>4. Unit(m)' = wire'[Len(wire) + j]
        BY <2>2, <2>3, Zenon
  <2>. QED
    BY <1>4, <1>7, <2>1, <2>4, Zenon
<1>. QED
  BY <1>5, <1>8, <1>9, <1>10, <1>11

LEMMA SendKeepsStream ==
  ASSUME StreamInv, NEW k \in Kinds, Send(k)
  PROVE  StreamInv'
<1>1. /\ N \in Nat /\ Len(sent) \in Nat /\ LenOf(k) \in Nat /\ LenOf(k) >= 2 /\ StreamType
      BY UnitFacts, KindFacts DEF StreamInv
<1>2. PICK n \in Nat, l \in Nat, c \in Nat : n = N /\ l = LenOf(k) /\ l >= 2 /\ c = Len(sent)
      BY <1>1
<1>3. /\ StreamType' /\ Len(sent)' = c + 1 /\ sent'[c + 1] = k
      /\ \A i \in 1 .. c : sent'[i] = sent[i]
      /\ N' = n + l /\ \A p \in 1 .. n : Unit(p)' = Unit(p)
      /\ \A j \in 1 .. l : Unit(n + j)' = [of |-> c + 1, at |-> j]
      BY <1>1, <1>2, SendFacts
<1>4. ASSUME NEW p \in 1 .. n
      PROVE  Whole(p)' /\ Later(p)'
  <2>1. Whole(p) /\ Later(p) /\ Unit(p)' = Unit(p)
        BY <1>2, <1>3 DEF StreamInv
  <2>2. Unit(p).of \in 1 .. c
        BY <1>2, <2>1 DEF Whole
  <2>3. KindOf(Unit(p))' = KindOf(Unit(p))
        BY <1>3, <2>1, <2>2 DEF KindOf
  <2>4. EndOf(p)' = EndOf(p)
        BY <2>1, <2>3 DEF EndOf
  <2>5. PICK e \in p .. n : e = EndOf(p)
        BY <1>2, WholeFacts
  <2>6. \A j \in p .. e : Unit(j)'.of = Unit(p)'.of /\ Unit(j)'.at = Unit(p)'.at + (j - p)
    <3>1. \A j \in p .. e : j \in 1 .. n
          BY <2>5
    <3>. QED
      BY <1>3, <2>1, <2>5, <3>1 DEF Whole
  <2>7. Unit(e + 1)'.of = Unit(p)'.of + 1 /\ Unit(e + 1)'.at = 1
    <3>1. CASE e < n
      <4>1. e + 1 \in 1 .. n
            BY <2>5, <3>1
      <4>. QED
        BY <1>2, <1>3, <2>1, <2>5, <3>1, <4>1 DEF Whole, Opens
    <3>2. CASE e = n
      <4>1. Unit(e + 1)' = [of |-> c + 1, at |-> 1]
        <5>1. 1 \in 1 .. l
              BY <1>2
        <5>. QED
          BY <1>3, <3>2, <5>1
      <4>2. Unit(p).of = c
            BY <1>2, <2>1, <2>5, <3>2 DEF Whole
      <4>. QED
        BY <2>1, <4>1, <4>2
    <3>. QED
      BY <2>5, <3>1, <3>2
  <2>8. Whole(p)'
    <3>1. Unit(p)'.of \in 1 .. c + 1 /\ Unit(p)'.at \in 1 .. LenOf(KindOf(Unit(p))')
          BY <2>1, <2>2, <2>3 DEF Whole
    <3>2. e < n + l /\ e <= n + l
          BY <1>2, <2>5
    <3>. QED
      BY <1>3, <2>4, <2>5, <2>6, <2>7, <3>1, <3>2 DEF Whole, Opens
  <2>9. ASSUME NEW q \in p + 1 .. n + l, Unit(q)'.at = 1
        PROVE  Unit(p)'.of < Unit(q)'.of
    <3>1. CASE q \in p + 1 .. n
      <4>1. Unit(q)' = Unit(q)
            BY <1>3, <3>1
      <4>. QED
        BY <1>2, <2>1, <2>9, <3>1, <4>1 DEF Later, Opens
    <3>2. CASE q > n
      <4>1. PICK j \in 1 .. l : q = n + j
        <5>1. q - n \in 1 .. l /\ q = n + (q - n)
              BY <3>2
        <5>. QED
          BY <5>1
      <4>2. Unit(q)' = [of |-> c + 1, at |-> j]
            BY <1>3, <4>1
      <4>3. Unit(q)'.of = c + 1
            BY <4>2
      <4>. QED
        BY <2>1, <2>2, <4>3
    <3>. QED
      BY <3>1, <3>2
  <2>. QED
    BY <1>3, <2>8, <2>9 DEF Later, Opens
<1>5. ASSUME NEW j \in 1 .. l
      PROVE  Whole(n + j)' /\ Later(n + j)'
  <2>1. Unit(n + j)' = [of |-> c + 1, at |-> j]
        BY <1>3
  <2>a. Unit(n + j)'.of = c + 1 /\ Unit(n + j)'.at = j
        BY <2>1
  <2>2. KindOf(Unit(n + j))' = k
        BY <1>3, <2>a DEF KindOf
  <2>3. EndOf(n + j)' = n + l
    <3>1. EndOf(n + j)' = n + j + LenOf(k) - j
          BY <2>a, <2>2 DEF EndOf
    <3>. QED
      BY <1>2, <3>1
  <2>4. ASSUME NEW m \in n + j .. n + l
        PROVE  Unit(m)'.of = c + 1 /\ Unit(m)'.at = m - n
    <3>1. PICK h \in 1 .. l : m = n + h
      <4>1. m - n \in 1 .. l /\ m = n + (m - n)
            OBVIOUS
      <4>. QED
        BY <4>1
    <3>2. Unit(m)' = [of |-> c + 1, at |-> h] /\ h = m - n
          BY <1>3, <3>1
    <3>. QED
      BY <3>2
  <2>5. Whole(n + j)'
    <3>1. c + 1 \in 1 .. c + 1 /\ j \in 1 .. LenOf(k)
          BY <1>2
    <3>2. \A m \in n + j .. n + l : Unit(m)'.of = c + 1 /\ Unit(m)'.at = j + (m - (n + j))
          BY <2>4
    <3>3. n + l <= n + l /\ ~(n + l < n + l)
          OBVIOUS
    <3>. QED
      BY <1>3, <2>a, <2>2, <2>3, <3>1, <3>2, <3>3 DEF Whole
  <2>6. \A q \in n + j + 1 .. n + l : Unit(q)'.at # 1
    <3>1. \A q \in n + j + 1 .. n + l : q \in n + j .. n + l /\ q - n # 1
          OBVIOUS
    <3>. QED
      BY <2>4, <3>1
  <2>. QED
    BY <1>3, <2>5, <2>6 DEF Later, Opens
<1>6. ASSUME NEW p \in 1 .. n + l
      PROVE  Whole(p)' /\ Later(p)'
  <2>1. CASE p > n
    <3>1. p - n \in 1 .. l /\ p = n + (p - n)
          BY <2>1
    <3>. QED
      BY <1>5, <3>1, Zenon
  <2>. QED
    BY <1>4, <2>1
<1>. QED
  BY <1>3, <1>6 DEF StreamInv

(* What listen has taken from the buffer.                                  *)
Taken(k) ==
  /\ buf' \in Seq(Units) /\ Len(buf') = Len(buf) - k
  /\ \A p \in 1 .. Len(buf) - k : buf'[p] = buf[p + k]

LEMMA TakenKeeps ==
  ASSUME StreamInv, NEW k \in 0 .. Len(buf), Taken(k), UNCHANGED <<sent, wire>>
  PROVE  /\ StreamInv' /\ N' = N - k /\ k \in Nat /\ k <= N
         /\ \A p \in 1 .. N - k : Unit(p)' = Unit(p + k)
<1>1. /\ N \in Nat /\ Len(buf) \in Nat /\ Len(wire) \in Nat /\ N = Len(buf) + Len(wire) /\ StreamType
      BY UnitFacts DEF N, StreamInv
<1>2. Len(buf') = Len(buf) - k /\ wire' = wire /\ buf' \in Seq(Units)
      BY DEF Taken
<1>3. N' = N - k /\ k \in Nat /\ k <= N
      BY <1>1, <1>2 DEF N
<1>4. StreamType'
      BY <1>1, <1>2 DEF StreamType
<1>5. ASSUME NEW p \in 1 .. N - k PROVE Unit(p)' = Unit(p + k)
  <2>1. CASE p <= Len(buf) - k
    <3>1. p \in 1 .. Len(buf) - k /\ p + k <= Len(buf) /\ p <= Len(buf')
          BY <1>1, <1>2, <2>1
    <3>2. buf'[p] = buf[p + k]
          BY <3>1 DEF Taken
    <3>. QED
      BY <3>1, <3>2 DEF Unit
  <2>2. CASE ~(p <= Len(buf) - k)
    <3>1. PICK m : m = p + k
          OBVIOUS
    <3>2. ~(m <= Len(buf)) /\ ~(p <= Len(buf')) /\ p - Len(buf') = m - Len(buf)
          BY <1>1, <1>2, <2>2, <3>1
    <3>3. Unit(p)' = wire[p - Len(buf')] /\ Unit(m) = wire[m - Len(buf)]
          BY <1>2, <3>2 DEF Unit
    <3>4. Unit(p)' = Unit(m)
          BY <3>2, <3>3, Zenon
    <3>. QED
      BY <3>1, <3>4, Zenon
  <2>. QED
    BY <2>1, <2>2
<1>6. StreamInv'
      BY <1>3, <1>4, <1>5, ShiftKeeps
<1>. QED
  BY <1>3, <1>5, <1>6

LEMMA DequeueTakes ==
  ASSUME StreamType, NEW n \in 0 .. Len(buf), dequeue(n), ~wrapped'
  PROVE  Taken(n) /\ ~wrapped
<1>1. Dequeued(n) = n /\ ~wrapped
      BY DEF dequeue
<1>2. buf' = SubSeq(buf, n + 1, Len(buf))
      BY <1>1 DEF dequeue
<1>. QED
  BY <1>1, <1>2, RestFacts DEF StreamType, Taken

(* Data for no channel is taken once or twice.                             *)
LEMMA NoSuchChannelTakes ==
  ASSUME StreamType, NEW n \in 1 .. Len(buf), NoSuchChannel(n), ~wrapped'
  PROVE  ~wrapped /\ \E k \in 0 .. Len(buf) : Taken(k)
<1> DEFINE once == SubSeq(buf, n + 1, Len(buf))
<1>1. Dequeued(n) = n /\ ~wrapped
      BY DEF NoSuchChannel
<1>2. buf' = IF n <= Len(once) THEN SubSeq(once, n + 1, Len(once)) ELSE once
      BY <1>1 DEF NoSuchChannel
<1>3. /\ once \in Seq(Units) /\ Len(once) = Len(buf) - n /\ Len(buf) \in Nat
      /\ \A p \in 1 .. Len(buf) - n : once[p] = buf[p + n]
      BY RestFacts DEF StreamType
<1>6. Len(once) \in Int /\ n \in Int /\ n >= 1
      BY <1>3
<1> HIDE DEF once
<1>4. CASE n <= Len(once)
  <2>1. buf' = SubSeq(once, n + 1, Len(once))
        BY <1>2, <1>4, Zenon
  <2>5. n \in 0 .. Len(once)
        BY <1>4, <1>6
  <2>2. /\ buf' \in Seq(Units) /\ Len(buf') = Len(once) - n
        /\ \A p \in 1 .. Len(once) - n : buf'[p] = once[p + n]
        BY <1>3, <2>1, <2>5, RestFacts
  <2>3. n + n \in 0 .. Len(buf) /\ Len(buf') = Len(buf) - (n + n)
        BY <1>3, <1>4, <2>2
  <2>4. ASSUME NEW p \in 1 .. Len(buf) - (n + n) PROVE buf'[p] = buf[p + (n + n)]
    <3>1. p \in 1 .. Len(once) - n /\ p + n \in 1 .. Len(buf) - n /\ p + n + n = p + (n + n)
          BY <1>3
    <3>2. buf'[p] = once[p + n] /\ once[p + n] = buf[p + n + n]
          BY <1>3, <2>2, <3>1
    <3>. QED
      BY <3>1, <3>2
  <2>. QED
    BY <1>1, <2>2, <2>3, <2>4 DEF Taken
<1>5. CASE ~(n <= Len(once))
      BY <1>1, <1>2, <1>3, <1>5 DEF Taken
<1>. QED
  BY <1>4, <1>5

(* A read moves units to the buffer, and leaves the stream as it is.       *)
LEMMA EnqueueFacts ==
  ASSUME StreamInv, NEW n \in 1 .. Len(wire), enqueue(n)
  PROVE  /\ StreamInv' /\ N' = N /\ \A p \in 1 .. N : Unit(p)' = Unit(p)
         /\ Len(buf') = Len(buf) + n
         /\ \A p \in 1 .. Len(buf) : buf'[p] = buf[p]
         /\ \A p \in Len(buf) + 1 .. Len(buf) + n : buf'[p] = wire[p - Len(buf)]
<1>1. /\ N \in Nat /\ Len(buf) \in Nat /\ Len(wire) \in Nat /\ N = Len(buf) + Len(wire) /\ StreamType
      BY UnitFacts DEF N, StreamInv
<1>2. PICK t : t = SubSeq(wire, 1, n)
      OBVIOUS
<1>3. /\ wire' = SubSeq(wire, n + 1, Len(wire)) /\ buf' = buf \o t /\ sent' = sent
      /\ wire \in Seq(Units) /\ buf \in Seq(Units) /\ n \in 0 .. Len(wire)
      BY <1>1, <1>2 DEF enqueue, StreamType
<1>4. /\ wire' \in Seq(Units) /\ Len(wire') = Len(wire) - n
      /\ \A p \in 1 .. Len(wire) - n : wire'[p] = wire[p + n]
      /\ t \in Seq(Units) /\ Len(t) = n /\ \A p \in 1 .. n : t[p] = wire[p]
      BY <1>2, <1>3, RestFacts
<1>5. /\ buf' \in Seq(Units) /\ Len(buf') = Len(buf) + n
      /\ \A p \in 1 .. Len(buf) : buf'[p] = buf[p]
      /\ \A p \in 1 .. n : buf'[Len(buf) + p] = t[p]
  <2>1. /\ buf \o t \in Seq(Units) /\ Len(buf \o t) = Len(buf) + Len(t)
        /\ \A p \in 1 .. Len(buf) : (buf \o t)[p] = buf[p]
        /\ \A p \in 1 .. Len(t) : (buf \o t)[Len(buf) + p] = t[p]
        BY <1>3, <1>4, JoinFacts
  <2>. QED
    BY <1>3, <1>4, <2>1
<1>6. ASSUME NEW p \in Len(buf) + 1 .. Len(buf) + n PROVE buf'[p] = wire[p - Len(buf)]
  <2>1. p - Len(buf) \in 1 .. n /\ Len(buf) + (p - Len(buf)) = p
        BY <1>1
  <2>2. buf'[Len(buf) + (p - Len(buf))] = t[p - Len(buf)]
        BY <1>5, <2>1
  <2>3. t[p - Len(buf)] = wire[p - Len(buf)]
        BY <1>4, <2>1
  <2>. QED
    BY <2>1, <2>2, <2>3
<1>7. StreamType' /\ N' = N
  <2>1. StreamType'
        BY <1>1, <1>3, <1>4, <1>5 DEF StreamType
  <2>2. N' = Len(buf) + n + (Len(wire) - n)
        BY <1>4, <1>5 DEF N
  <2>. QED
    BY <1>1, <2>1, <2>2
<1>8. ASSUME NEW p \in 1 .. N PROVE Unit(p)' = Unit(p)
  <2>1. CASE p <= Len(buf)
    <3>1. p <= Len(buf') /\ p \in 1 .. Len(buf)
          BY <1>1, <1>5, <2>1
    <3>. QED
      BY <1>5, <2>1, <3>1 DEF Unit
  <2>2. CASE ~(p <= Len(buf)) /\ p <= Len(buf) + n
    <3>1. p <= Len(buf') /\ p \in Len(buf) + 1 .. Len(buf) + n
          BY <1>1, <1>5, <2>2
    <3>. QED
      BY <1>6, <2>2, <3>1 DEF Unit
  <2>3. CASE ~(p <= Len(buf) + n)
    <3>1. ~(p <= Len(buf')) /\ ~(p <= Len(buf))
          BY <1>1, <1>5, <2>3
    <3>2. Unit(p)' = wire'[p - Len(buf')] /\ Unit(p) = wire[p - Len(buf)]
          BY <3>1 DEF Unit
    <3>3. PICK m : m = p - Len(buf')
          OBVIOUS
    <3>4. m \in 1 .. Len(wire) - n /\ m + n = p - Len(buf)
          BY <1>1, <1>5, <2>3, <3>3
    <3>5. wire'[m] = wire[m + n]
          BY <1>4, <3>4
    <3>. QED
      BY <3>2, <3>3, <3>4, <3>5, Zenon
  <2>. QED
    BY <2>1, <2>2, <2>3
<1>9. \A p \in 1 .. N - 0 : Unit(p)' = Unit(p + 0)
      BY <1>1, <1>8
<1>10. StreamInv'
       BY <1>1, <1>3, <1>7, <1>9, ShiftKeeps
<1>. QED
  BY <1>5, <1>6, <1>7, <1>8, <1>10

(* The length of the next packet is within the buffer.                     *)
LEMMA EmptyLineFacts ==
  ASSUME StreamInv
  PROVE  /\ EmptyLines \subseteq 1 .. Len(buf) /\ EmptyLines \in SUBSET Nat
         /\ \A e \in 1 .. Len(buf) : KindOf(buf[e]) \in Kinds
         /\ getContentLength \in Nat
<1>1. /\ Len(buf) \in Nat /\ DOMAIN buf = 1 .. Len(buf) /\ N \in Nat /\ Len(buf) <= N
      /\ \A p \in 1 .. Len(buf) : Unit(p) = buf[p]
      BY UnitFacts DEF StreamInv, StreamType, N
<1>2. EmptyLines \subseteq 1 .. Len(buf)
      BY <1>1 DEF EmptyLines
<1>2a. EmptyLines \in SUBSET Nat
  <2>1. \A e \in 1 .. Len(buf) : e \in Nat
        OBVIOUS
  <2>. QED
    BY <1>2, <2>1, Zenon
<1>3. \A e \in 1 .. Len(buf) : KindOf(buf[e]) \in Kinds
  <2>1. \A e \in 1 .. Len(buf) : e \in 1 .. N
        BY <1>1
  <2>. QED
    BY <1>1, <2>1, WholeFacts
<1>4. getContentLength \in Nat
  <2> DEFINE S == {d \in EmptyLines : BodyOf(KindOf(buf[d])) > 0}
  <2>1. getContentLength = IF Min0(S) = 0 THEN 0 ELSE BodyOf(KindOf(buf[Min0(S)]))
        BY DEF getContentLength
  <2>2. S # {} => Min0(S) \in S
    <3>1. S \in SUBSET Nat
          BY <1>2a
    <3> HIDE DEF S
    <3>. QED
      BY <3>1, MinFacts DEF Min0
  <2>3. S = {} => Min0(S) = 0
        BY DEF Min0
  <2>4. \A d \in S : BodyOf(KindOf(buf[d])) \in Nat
        BY <1>2, <1>3, KindFacts
  <2> HIDE DEF S
  <2>. QED
    BY <2>1, <2>2, <2>3, <2>4
<1>. QED
  BY <1>1, <1>2, <1>2a, <1>3, <1>4

LEMMA SizeFacts ==
  ASSUME StreamInv, NEW sz, sz = getNextPacketLength
  PROVE  sz \in 0 .. Len(buf)
<1> DEFINE n == IF Dollar THEN LenOf(KindOf(buf[1]))
                ELSE IF EmptyLines = {} THEN 0 ELSE Min(EmptyLines) + getContentLength
<1>1. Len(buf) \in Nat
      BY UnitFacts DEF StreamInv
<1>2. n \in Nat
  <2>1. CASE Dollar
    <3>1. 1 \in 1 .. Len(buf)
      <4>1. buf \in Seq(Units) /\ buf # <<>>
            BY <2>1 DEF Dollar, StreamInv, StreamType
      <4>2. Len(buf) # 0
            BY <4>1
      <4>. QED
        BY <1>1, <4>2
    <3>. QED
      BY <2>1, <3>1, EmptyLineFacts, KindFacts
  <2>2. CASE ~Dollar /\ EmptyLines = {}
        BY <2>2
  <2>3. CASE ~Dollar /\ EmptyLines # {}
    <3>1. Min(EmptyLines) \in Nat /\ getContentLength \in Nat
          BY <2>3, EmptyLineFacts, MinFacts
    <3>. QED
      BY <2>3, <3>1
  <2>. QED
    BY <2>1, <2>2, <2>3
<1>3. sz = IF n > Len(buf) THEN 0 ELSE n
      BY DEF getNextPacketLength
<1> HIDE DEF n
<1>. QED
  BY <1>1, <1>2, <1>3

-----------------------------------------------------------------------------
(* The head of the stream, before and after a step.                        *)
LEMMA HeadFacts ==
  /\ StreamType => HeadOf = IF N > 0 THEN Unit(1).of ELSE Len(sent) + 1
  /\ StreamType' => HeadOf' = IF N' > 0 THEN Unit(1)'.of ELSE Len(sent') + 1
<1>1. ASSUME StreamType
      PROVE  HeadOf = IF N > 0 THEN Unit(1).of ELSE Len(sent) + 1
  <2>1. /\ Len(buf) \in Nat /\ Len(wire) \in Nat /\ N = Len(buf) + Len(wire)
        /\ buf # <<>> <=> Len(buf) > 0
        /\ wire # <<>> <=> Len(wire) > 0
        BY <1>1 DEF StreamType, N
  <2>2. CASE Len(buf) > 0
    <3>1. N > 0 /\ 1 <= Len(buf)
          BY <2>1, <2>2
    <3>. QED
      BY <2>1, <2>2, <3>1 DEF HeadOf, Unit
  <2>3. CASE Len(buf) = 0
    <3>1. ~(1 <= Len(buf)) /\ 1 - Len(buf) = 1 /\ (N > 0 <=> Len(wire) > 0)
          BY <2>1, <2>3
    <3>2. Unit(1) = wire[1]
          BY <3>1 DEF Unit
    <3>. QED
      BY <2>1, <2>3, <3>1, <3>2 DEF HeadOf
  <2>. QED
    BY <2>1, <2>2, <2>3
<1>2. ASSUME StreamType'
      PROVE  HeadOf' = IF N' > 0 THEN Unit(1)'.of ELSE Len(sent') + 1
  <2>1. /\ Len(buf') \in Nat /\ Len(wire') \in Nat /\ N' = Len(buf') + Len(wire')
        /\ buf' # <<>> <=> Len(buf') > 0
        /\ wire' # <<>> <=> Len(wire') > 0
        BY <1>2 DEF StreamType, N
  <2>2. CASE Len(buf') > 0
    <3>1. N' > 0 /\ 1 <= Len(buf')
          BY <2>1, <2>2
    <3>. QED
      BY <2>1, <2>2, <3>1 DEF HeadOf, Unit
  <2>3. CASE Len(buf') = 0
    <3>1. ~(1 <= Len(buf')) /\ 1 - Len(buf') = 1 /\ (N' > 0 <=> Len(wire') > 0)
          BY <2>1, <2>3
    <3>2. Unit(1)' = wire'[1]
          BY <3>1 DEF Unit
    <3>. QED
      BY <2>1, <2>3, <3>1, <3>2 DEF HeadOf
  <2>. QED
    BY <2>1, <2>2, <2>3
<1>. QED
  BY <1>1, <1>2

LEMMA HandledKept ==
  ASSUME HandledInv, StreamType, NEW k \in Nat, k <= N, UNCHANGED <<sent, handled>>, N' = N - k,
         \A p \in 1 .. N - k : Unit(p)' = Unit(p + k)
  PROVE  HandledInv'
<1>1. N \in Nat
      BY UnitFacts
<1>2. ASSUME NEW i \in DOMAIN handled, NEW p \in 1 .. N - k, Opens(Unit(p))'
      PROVE  handled[i] < Unit(p)'.of
  <2>1. p + k \in 1 .. N
        BY <1>1
  <2>2. Opens(Unit(p + k)) /\ Unit(p)' = Unit(p + k)
        BY <1>2 DEF Opens
  <2>. QED
    BY <2>1, <2>2 DEF HandledInv
<1>. QED
  BY <1>2 DEF HandledInv

LEMMA HandledSent ==
  ASSUME HandledInv, StreamInv, NEW k \in Kinds, Send(k)
  PROVE  HandledInv'
<1>1. N \in Nat /\ Len(sent) \in Nat /\ LenOf(k) \in Nat /\ StreamType
      BY UnitFacts, KindFacts DEF StreamInv
<1>2. PICK n \in Nat : n = N
      BY <1>1
<1>3. /\ Len(sent)' = Len(sent) + 1 /\ N' = n + LenOf(k)
      /\ \A p \in 1 .. n : Unit(p)' = Unit(p)
      /\ \A j \in 1 .. LenOf(k) : Unit(n + j)' = [of |-> Len(sent) + 1, at |-> j]
      BY <1>1, <1>2, SendFacts
<1>4. handled' = handled
      BY DEF Send
<1>5. ASSUME NEW i \in DOMAIN handled, NEW p \in 1 .. n + LenOf(k), Opens(Unit(p))'
      PROVE  handled[i] < Unit(p)'.of
  <2>1. CASE p \in 1 .. n
    <3>1. Unit(p)' = Unit(p)
          BY <1>3, <2>1
    <3>. QED
      BY <1>2, <1>5, <2>1, <3>1 DEF HandledInv, Opens
  <2>2. CASE p > n
    <3>1. p - n \in 1 .. LenOf(k) /\ p = n + (p - n)
          BY <1>1, <2>2
    <3>2. Unit(p)' = [of |-> Len(sent) + 1, at |-> p - n]
          BY <1>3, <3>1, Zenon
    <3>3. handled[i] \in Nat /\ handled[i] <= Len(sent)
          BY DEF HandledInv
    <3>4. Unit(p)'.of = Len(sent) + 1
          BY <3>2
    <3>. QED
      BY <1>1, <3>3, <3>4
  <2>. QED
    BY <1>1, <2>1, <2>2
<1>6. \A i \in DOMAIN handled : handled[i] <= Len(sent)'
  <2>1. \A i \in DOMAIN handled : handled[i] \in Nat /\ handled[i] <= Len(sent)
        BY DEF HandledInv
  <2>. QED
    BY <1>1, <1>3, <2>1
<1>. QED
  BY <1>3, <1>4, <1>5, <1>6 DEF HandledInv

(* A request is one that opens in what is dequeued with it.                *)
LEMMA ParsedFacts ==
  ASSUME StreamInv, NEW n \in 1 .. Len(buf), NEW i \in Parsed(n), i # 0
  PROVE  /\ \E e \in 1 .. n : Opens(Unit(e)) /\ Unit(e).of = i
         /\ Opens(Unit(1)) => i = Unit(1).of
<1>1. Len(buf) \in Nat /\ \A p \in 1 .. Len(buf) : Unit(p) = buf[p]
      BY UnitFacts DEF StreamInv
<1>2. 1 \in 1 .. n /\ Unit(1) = buf[1]
      BY <1>1
<1>3. CASE Opens(buf[1])
      BY <1>2, <1>3 DEF Parsed
<1>4. CASE ~Opens(buf[1])
  <2>1. PICK e \in 2 .. n : Opens(buf[e]) /\ buf[e].of = i
        BY <1>4 DEF Parsed
  <2>2. e \in 1 .. n /\ Unit(e) = buf[e]
        BY <1>1, <2>1
  <2>. QED
    BY <1>2, <1>4, <2>1, <2>2
<1>. QED
  BY <1>3, <1>4

LEMMA ServedKeeps ==
  ASSUME HandledInv, StreamInv, NEW n \in 1 .. Len(buf), NEW i \in Parsed(n), i # 0,
         handled' = Append(handled, i), UNCHANGED sent, N' = N - n,
         \A p \in 1 .. N - n : Unit(p)' = Unit(p + n)
  PROVE  HandledInv' /\ Elements(handled') = Elements(handled) \cup {i}
<1>1. N \in Nat /\ Len(sent) \in Nat /\ Len(buf) <= N /\ Len(buf) \in Nat /\ n <= N
      BY UnitFacts DEF StreamInv, N
<1>2. PICK e \in 1 .. n : Opens(Unit(e)) /\ Unit(e).of = i
      BY ParsedFacts
<1>3. e \in 1 .. N /\ Whole(e) /\ Later(e)
      BY <1>1 DEF StreamInv
<1>4. i \in Nat /\ i <= Len(sent)
      BY <1>1, <1>2, <1>3 DEF Whole
<1>5. handled \in Seq(Nat) /\ Len(handled) \in Nat /\ DOMAIN handled = 1 .. Len(handled)
      BY DEF HandledInv
<1>6. /\ handled' \in Seq(Nat) /\ DOMAIN handled' = 1 .. Len(handled) + 1
      /\ handled'[Len(handled) + 1] = i
      /\ \A j \in 1 .. Len(handled) : handled'[j] = handled[j]
      BY <1>4, <1>5
<1>7. ASSUME NEW p \in 1 .. N - n, Opens(Unit(p))'
      PROVE  i < Unit(p)'.of
  <2>1. p + n \in e + 1 .. N
        BY <1>1
  <2>2. Unit(p)' = Unit(p + n)
        OBVIOUS
  <2>. QED
    BY <1>2, <1>3, <1>7, <2>1, <2>2 DEF Later, Opens
<1>8. \A j \in 1 .. Len(handled) : handled[j] \in Nat /\ handled[j] < i
  <2>1. \A j \in 1 .. Len(handled) : handled[j] \in Nat
        BY <1>5
  <2>2. \A j \in DOMAIN handled : handled[j] < Unit(e).of
        BY <1>2, <1>3 DEF HandledInv
  <2>. QED
    BY <1>2, <1>5, <2>1, <2>2
<1>9. \A j, m \in DOMAIN handled' : j < m => handled'[j] < handled'[m]
  <2>. SUFFICES ASSUME NEW j \in 1 .. Len(handled) + 1, NEW m \in 1 .. Len(handled) + 1, j < m
                PROVE  handled'[j] < handled'[m]
       BY <1>6
  <2>1. j \in 1 .. Len(handled)
        BY <1>5
  <2>2. CASE m = Len(handled) + 1
        BY <1>6, <1>8, <2>1, <2>2
  <2>3. CASE m \in 1 .. Len(handled)
    <3>1. handled[j] < handled[m]
          BY <1>5, <2>1, <2>3 DEF HandledInv
    <3>. QED
      BY <1>6, <2>1, <2>3, <3>1
  <2>. QED
    BY <1>5, <2>2, <2>3
<1>10. ASSUME NEW j \in DOMAIN handled'
       PROVE  /\ handled'[j] <= Len(sent)'
              /\ \A p \in 1 .. N' : Opens(Unit(p))' => handled'[j] < Unit(p)'.of
  <2>1. CASE j = Len(handled) + 1
        BY <1>4, <1>6, <1>7, <2>1
  <2>2. CASE j \in 1 .. Len(handled)
    <3>1. handled'[j] = handled[j] /\ handled[j] <= Len(sent)
          BY <1>5, <1>6, <2>2 DEF HandledInv
    <3>2. ASSUME NEW p \in 1 .. N - n, Opens(Unit(p))'
          PROVE  handled[j] < Unit(p)'.of
      <4>1. p + n \in 1 .. N /\ Unit(p)' = Unit(p + n)
            BY <1>1
      <4>. QED
        BY <1>5, <2>2, <3>2, <4>1 DEF HandledInv, Opens
    <3>. QED
      BY <3>1, <3>2
  <2>. QED
    BY <1>5, <1>6, <2>1, <2>2
<1>11. Elements(handled') = Elements(handled) \cup {i}
  <2>1. \A j \in 1 .. Len(handled) + 1 : j = Len(handled) + 1 \/ j \in 1 .. Len(handled)
        BY <1>5
  <2>2. Len(handled) + 1 \in 1 .. Len(handled) + 1 /\ \A j \in 1 .. Len(handled) : j \in 1 .. Len(handled) + 1
        BY <1>5
  <2>. QED
    BY <1>5, <1>6, <2>1, <2>2 DEF Elements
<1>. QED
  BY <1>6, <1>9, <1>10, <1>11 DEF HandledInv

(* A message that is dequeued as a whole makes room for the next.          *)
LEMMA CutKeeps ==
  ASSUME StreamInv, StreamType', CutInv, NEW n \in 1 .. Len(buf), ~stray,
         Opens(Unit(1)), n = LenOf(KindOf(Unit(1))), UNCHANGED sent, N' = N - n,
         \A p \in 1 .. N - n : Unit(p)' = Unit(p + n),
         Elements(handled') = Elements(handled) \cup
                                (IF sent[Unit(1).of] \in Requests THEN {Unit(1).of} ELSE {})
  PROVE  CutInv'
<1>1. N \in Nat /\ Len(buf) \in Nat /\ Len(buf) <= N /\ Len(sent) \in Nat /\ 1 \in 1 .. N
      BY UnitFacts DEF StreamInv, N
<1>2. Whole(1) /\ EndOf(1) = n
      BY <1>1 DEF StreamInv, EndOf, Opens
<1>3. PICK h \in 1 .. Len(sent) : h = Unit(1).of
      BY <1>2 DEF Whole
<1>4. HeadOf = h
      BY <1>1, <1>3, HeadFacts DEF StreamInv
<1>5. (N' > 0 => Opens(Unit(1))') /\ HeadOf' = h + 1
  <2>1. CASE n < N
    <3>1. 1 \in 1 .. N - n /\ N' > 0 /\ 1 + n = n + 1
          BY <1>1, <2>1
    <3>2. Unit(1)' = Unit(n + 1)
          BY <3>1, Zenon
    <3>3. Unit(n + 1).of = h + 1 /\ Opens(Unit(n + 1))
          BY <1>2, <1>3, <2>1 DEF Whole
    <3>. QED
      BY <3>1, <3>2, <3>3, HeadFacts DEF Opens
  <2>2. CASE n = N
    <3>1. ~(N' > 0) /\ h = Len(sent)
          BY <1>1, <1>2, <1>3, <2>2 DEF Whole
    <3>. QED
      BY <3>1, HeadFacts
  <2>. QED
    BY <1>1, <2>1, <2>2
<1>6. Elements(handled) = {i \in 1 .. h - 1 : sent[i] \in Requests}
      BY <1>4 DEF CutInv
<1>7. Elements(handled') = {i \in 1 .. h : sent[i] \in Requests}
  <2>1. \A i : i \in 1 .. h <=> i \in 1 .. h - 1 \/ i = h
        OBVIOUS
  <2>2. \A i : i \in Elements(handled') <=> i \in Elements(handled) \/ (i = h /\ sent[h] \in Requests)
        BY <1>3
  <2>3. \A i : i \in Elements(handled) <=> i \in 1 .. h - 1 /\ sent[i] \in Requests
        BY <1>6
  <2>4. \A i : i \in Elements(handled') <=> i \in 1 .. h /\ sent[i] \in Requests
        BY <2>1, <2>2, <2>3, Zenon
  <2>. QED
    BY <2>4
<1>8. HeadOf' - 1 = h
      BY <1>5
<1>. QED
  BY <1>5, <1>7, <1>8 DEF CutInv

(* Steps that leave the stream where it is.                                *)
LEMMA CutSame ==
  ASSUME StreamType, StreamType', CutInv, UNCHANGED <<sent, handled>>, stray' = stray,
         N' = N, N > 0 => Unit(1)' = Unit(1)
  PROVE  CutInv'
<1>1. HeadOf' = HeadOf
      BY HeadFacts
<1>. QED
  BY <1>1 DEF CutInv, Opens

LEMMA CutSent ==
  ASSUME StreamInv, StreamInv', CutInv, NEW k \in Kinds, Send(k)
  PROVE  CutInv'
<1>1. N \in Nat /\ Len(sent) \in Nat /\ LenOf(k) \in Nat /\ LenOf(k) >= 2 /\ StreamType /\ StreamType'
      BY UnitFacts, KindFacts DEF StreamInv
<1>2. PICK n \in Nat : n = N
      BY <1>1
<1>3. /\ Len(sent)' = Len(sent) + 1 /\ N' = n + LenOf(k)
      /\ \A i \in 1 .. Len(sent) : sent'[i] = sent[i]
      /\ \A p \in 1 .. n : Unit(p)' = Unit(p)
      /\ \A j \in 1 .. LenOf(k) : Unit(n + j)' = [of |-> Len(sent) + 1, at |-> j]
      BY <1>1, <1>2, SendFacts
<1>4. handled' = handled /\ stray' = stray
      BY DEF Send
<1>5. N' > 0 /\ HeadOf' = Unit(1)'.of
      BY <1>1, <1>2, <1>3, HeadFacts
<1>6. CASE n > 0
  <2>1. 1 \in 1 .. n /\ 1 \in 1 .. N /\ N > 0
        BY <1>2, <1>6
  <2>2. Unit(1)' = Unit(1) /\ Whole(1)
        BY <1>3, <2>1 DEF StreamInv
  <2>3. HeadOf = Unit(1).of /\ HeadOf' = HeadOf
        BY <1>1, <1>5, <2>1, <2>2, HeadFacts
  <2>4. HeadOf \in 1 .. Len(sent)
        BY <2>2, <2>3 DEF Whole
  <2>5. \A i \in 1 .. HeadOf - 1 : sent'[i] = sent[i]
        BY <1>1, <1>3, <2>4
  <2>. QED
    BY <1>4, <2>1, <2>2, <2>3, <2>5 DEF CutInv, Opens
<1>7. CASE n = 0
  <2>1. 1 \in 1 .. LenOf(k) /\ n + 1 = 1
        BY <1>1, <1>7
  <2>2. Unit(1)' = [of |-> Len(sent) + 1, at |-> 1]
        BY <1>3, <2>1, Zenon
  <2>3. Unit(1)'.of = Len(sent) + 1 /\ Unit(1)'.at = 1
        BY <2>2
  <2>4. HeadOf = Len(sent) + 1 /\ HeadOf' = HeadOf
        BY <1>1, <1>2, <1>5, <1>7, <2>3, HeadFacts
  <2>5. \A i \in 1 .. HeadOf - 1 : sent'[i] = sent[i]
        BY <1>1, <1>3, <2>4
  <2>. QED
    BY <1>4, <2>3, <2>4, <2>5 DEF CutInv, Opens
<1>. QED
  BY <1>6, <1>7

(* What dequeue does to the stream and to the requests that were served.   *)
LEMMA ListenKeeps ==
  ASSUME OrderInv, listen
  PROVE  OrderInv'
<1>1. PICK n : n = getNextPacketLength
      OBVIOUS
<1>2. \/ getNextRequest(n) \/ ReplyError(n) \/ getNextResponse(n) \/ Unrecognized(n)
      \/ getNextInterleave(n) \/ NoSuchChannel(n)
      BY <1>1 DEF listen
<1>. SUFFICES ASSUME ~wrapped' PROVE StreamInv' /\ HandledInv' /\ CutInv'
     BY DEF OrderInv
<1>3. ~wrapped
      BY <1>2 DEF getNextRequest, ReplyError, getNextResponse, Unrecognized, getNextInterleave,
                  NoSuchChannel, dequeue
<1>4. StreamInv /\ HandledInv /\ CutInv /\ StreamType
      BY <1>3 DEF OrderInv, StreamInv
<1>5. /\ UNCHANGED <<sent, wire>> /\ n > 0 /\ n \in 0 .. Len(buf) /\ Len(buf) \in Nat /\ N \in Nat
      /\ n \in 1 .. Len(buf)
  <2>1. n \in 0 .. Len(buf) /\ Len(buf) \in Nat /\ N \in Nat
        BY <1>1, <1>4, SizeFacts, UnitFacts
  <2>2. UNCHANGED <<sent, wire>> /\ n > 0
        BY <1>2 DEF getNextRequest, ReplyError, getNextResponse, Unrecognized, getNextInterleave,
                    NoSuchChannel, IsText
  <2>. QED
    BY <2>1, <2>2
<1>6. Unit(1) = buf[1] /\ 1 \in 1 .. N /\ Whole(1)
  <2>1. 1 \in 1 .. Len(buf) /\ 1 \in 1 .. N
        BY <1>4, <1>5, UnitFacts DEF N
  <2>. QED
    BY <1>4, <2>1, UnitFacts DEF StreamInv
<1>7. ASSUME dequeue(n), handled' = handled,
             ~stray' => sent[Unit(1).of] \notin Requests
      PROVE  StreamInv' /\ HandledInv' /\ CutInv'
  <2>1. Taken(n)
        BY <1>4, <1>5, <1>7, DequeueTakes
  <2>2. /\ StreamInv' /\ N' = N - n /\ n \in Nat /\ n <= N
        /\ \A p \in 1 .. N - n : Unit(p)' = Unit(p + n)
        BY <1>4, <1>5, <2>1, TakenKeeps
  <2>3. HandledInv'
        BY <1>4, <1>5, <1>7, <2>2, HandledKept
  <2>4. CASE stray'
        BY <2>2, <2>3, <2>4 DEF CutInv
  <2>5. CASE ~stray'
    <3>1. ~stray /\ Opens(Unit(1)) /\ n = LenOf(KindOf(Unit(1)))
          BY <1>6, <1>7, <2>5 DEF dequeue
    <3>2. Elements(handled') = Elements(handled) \cup
                                 (IF sent[Unit(1).of] \in Requests THEN {Unit(1).of} ELSE {})
          BY <1>7, <2>5
    <3>3. StreamType'
          BY <2>2 DEF StreamInv
    <3>. QED
      BY <1>4, <1>5, <2>2, <2>3, <3>1, <3>2, <3>3, CutKeeps
  <2>. QED
    BY <2>4, <2>5
<1>8. ASSUME UNCHANGED <<buf, handled, stray>>
      PROVE  StreamInv' /\ HandledInv' /\ CutInv'
      BY <1>4, <1>5, <1>8 DEF StreamInv, StreamType, Whole, Later, EndOf, KindOf, Unit, N, Opens,
                              HandledInv, CutInv, HeadOf
<1>9. CASE getNextRequest(n)
  <2>1. PICK i \in Parsed(n) \ {0} :
          sent[i] \in Requests /\ handled' = Append(handled, i) /\ dequeue(n)
        BY <1>9 DEF getNextRequest
  <2>2. Taken(n)
        BY <1>4, <1>5, <2>1, DequeueTakes
  <2>3. /\ StreamInv' /\ N' = N - n /\ n \in Nat /\ n <= N
        /\ \A p \in 1 .. N - n : Unit(p)' = Unit(p + n)
        BY <1>4, <1>5, <2>2, TakenKeeps
  <2>4. HandledInv' /\ Elements(handled') = Elements(handled) \cup {i}
        BY <1>4, <1>5, <2>1, <2>3, ServedKeeps
  <2>5. CASE stray'
        BY <2>3, <2>4, <2>5 DEF CutInv
  <2>6. CASE ~stray'
    <3>1. ~stray /\ Opens(Unit(1)) /\ n = LenOf(KindOf(Unit(1)))
          BY <1>6, <2>1, <2>6 DEF dequeue
    <3>2. i = Unit(1).of
          BY <1>4, <1>5, <2>1, <3>1, ParsedFacts
    <3>3. Elements(handled') = Elements(handled) \cup
                                 (IF sent[Unit(1).of] \in Requests THEN {Unit(1).of} ELSE {})
          BY <2>1, <2>4, <3>2
    <3>4. StreamType'
          BY <2>3 DEF StreamInv
    <3>. QED
      BY <1>4, <1>5, <2>3, <2>4, <3>1, <3>3, <3>4, CutKeeps
  <2>. QED
    BY <2>5, <2>6
<1>10. CASE ReplyError(n)
       BY <1>8, <1>10 DEF ReplyError
<1>11. CASE getNextResponse(n) \/ Unrecognized(n)
  <2>1. handled' = handled /\ (dequeue(n) \/ UNCHANGED <<buf, stray>>)
        BY <1>11 DEF getNextResponse, Unrecognized
  <2>2. dequeue(n) /\ ~stray' => sent[Unit(1).of] \notin Requests
    <3>. SUFFICES ASSUME dequeue(n), ~stray' PROVE sent[Unit(1).of] \notin Requests
         OBVIOUS
    <3>1. Opens(Unit(1)) /\ Unit(1).of \in 1 .. Len(sent)
          BY <1>6 DEF dequeue, Whole
    <3>2. Parsed(n) = {Unit(1).of} /\ Unit(1).of # 0
          BY <1>6, <3>1 DEF Parsed
    <3>3. sent[Unit(1).of] \in {"response", "junk"}
          BY <1>11, <3>2 DEF getNextResponse, Unrecognized
    <3>. QED
      BY <3>3 DEF Requests
  <2>. QED
    BY <1>7, <1>8, <2>1, <2>2
<1>12. CASE getNextInterleave(n)
  <2>1. handled' = handled /\ dequeue(n) /\ Dollar
        BY <1>12 DEF getNextInterleave
  <2>2. sent[Unit(1).of] \notin Requests
        BY <1>6, <2>1 DEF Dollar, KindOf, Binary, Requests
  <2>. QED
    BY <1>7, <2>1, <2>2
<1>13. CASE NoSuchChannel(n)
  <2>1. handled' = handled /\ stray' = TRUE
        BY <1>13 DEF NoSuchChannel
  <2>2. PICK k \in 0 .. Len(buf) : Taken(k)
        BY <1>4, <1>5, <1>13, NoSuchChannelTakes
  <2>3. /\ StreamInv' /\ N' = N - k /\ k \in Nat /\ k <= N
        /\ \A p \in 1 .. N - k : Unit(p)' = Unit(p + k)
        BY <1>4, <1>5, <2>2, TakenKeeps
  <2>4. HandledInv'
        BY <1>4, <1>5, <2>1, <2>3, HandledKept
  <2>. QED
    BY <2>1, <2>3, <2>4 DEF CutInv
<1>. QED
  BY <1>2, <1>9, <1>10, <1>11, <1>12, <1>13

streamVars == <<sent, wire, buf, handled, stray, wrapped>>

LEMMA OthersLeaveStream ==
  Next => \/ UNCHANGED streamVars \/ listen \/ (\E n \in 1 .. Len(wire) : enqueue(n))
          \/ \E k \in Kinds : Send(k)
BY DEF Next, streamVars, Connection, ReadMore, pushToRead, Serve, addInterleavePair, start,
       stopInterleaving, stop, release, Receiver, run, readSome, wait, wake, waitMore, pause, unpause, ReadFails

LEMMA NextKeepsOrder == OrderInv /\ [Next]_vars => OrderInv'
<1> SUFFICES ASSUME OrderInv, [Next]_vars PROVE OrderInv'
    OBVIOUS
<1>1. CASE UNCHANGED streamVars
  <2>. SUFFICES ASSUME ~wrapped' PROVE StreamInv' /\ HandledInv' /\ CutInv'
       BY DEF OrderInv
  <2>1. /\ StreamInv /\ HandledInv /\ CutInv /\ StreamType /\ StreamType'
        /\ UNCHANGED <<sent, handled, stray>>
        BY <1>1 DEF OrderInv, StreamInv, StreamType, streamVars
  <2>2. N' = N /\ \A p : Unit(p)' = Unit(p)
        BY <1>1 DEF N, Unit, streamVars
  <2>3. N \in Nat
        BY <2>1, UnitFacts
  <2>4. N' = N - 0 /\ 0 <= N /\ \A p \in 1 .. N - 0 : Unit(p)' = Unit(p + 0)
        BY <2>2, <2>3
  <2>5. StreamInv' /\ HandledInv'
        BY <2>1, <2>4, ShiftKeeps, HandledKept
  <2>. QED
    BY <2>1, <2>2, <2>5, CutSame
<1>2. ASSUME NEW n \in 1 .. Len(wire), enqueue(n) PROVE OrderInv'
  <2>. SUFFICES ASSUME ~wrapped' PROVE StreamInv' /\ HandledInv' /\ CutInv'
       BY DEF OrderInv
  <2>1. StreamInv /\ HandledInv /\ CutInv /\ StreamType /\ UNCHANGED <<sent, handled, stray>>
        BY <1>2 DEF OrderInv, StreamInv, enqueue
  <2>2. StreamInv' /\ N' = N /\ (\A p \in 1 .. N : Unit(p)' = Unit(p)) /\ StreamType'
        BY <1>2, <2>1, EnqueueFacts DEF StreamInv
  <2>3. N \in Nat
        BY <2>1, UnitFacts
  <2>4. \A p \in 1 .. N - 0 : Unit(p)' = Unit(p + 0)
        BY <2>2, <2>3
  <2>5. HandledInv'
        BY <2>1, <2>2, <2>3, <2>4, HandledKept
  <2>6. N > 0 => Unit(1)' = Unit(1)
        BY <2>2, <2>3
  <2>. QED
    BY <2>1, <2>2, <2>5, <2>6, CutSame
<1>3. ASSUME NEW k \in Kinds, Send(k) PROVE OrderInv'
  <2>1. wrapped' = wrapped
        BY <1>3 DEF Send
  <2>2. CASE wrapped
        BY <2>1, <2>2 DEF OrderInv
  <2>3. CASE ~wrapped
    <3>1. StreamInv /\ HandledInv /\ CutInv
          BY <2>3 DEF OrderInv
    <3>2. StreamInv' /\ HandledInv'
          BY <1>3, <3>1, SendKeepsStream, HandledSent
    <3>. QED
      BY <1>3, <3>1, <3>2, CutSent DEF OrderInv
  <2>. QED
    BY <2>2, <2>3
<1>4. UNCHANGED vars => UNCHANGED streamVars
      BY DEF vars, streamVars
<1>. QED
  BY <1>1, <1>2, <1>3, <1>4, ListenKeeps, OthersLeaveStream

LEMMA InitOrder == Init => OrderInv
<1> SUFFICES ASSUME Init PROVE OrderInv
    OBVIOUS
<1>1. sent = <<>> /\ buf = <<>> /\ wire = <<>> /\ handled = <<>> /\ N = 0 /\ HeadOf = 1
      BY DEF Init, N, HeadOf
<1>2. StreamInv
      BY <1>1 DEF StreamInv, StreamType
<1>3. HandledInv
      BY <1>1 DEF HandledInv
<1>4. CutInv
      BY <1>1 DEF CutInv, Elements
<1>. QED
  BY <1>2, <1>3, <1>4 DEF OrderInv

(* However many messages are sent and however the reads cut them, requests *)
(* are served in the order they were sent and never twice, and while the   *)
(* buffer is cut at the ends of messages none that has left it is missed   *)
(* (InputBuffer::getNextPacketLength, getNextRequest, Buffer::dequeue).    *)
THEOREM ServedInOrder == Spec => []InOrder
<1>1. OrderInv => InOrder
      BY DEF OrderInv, HandledInv, CutInv, InOrder
<1>. QED
  BY <1>1, InitOrder, NextKeepsOrder, PTL DEF Spec

-----------------------------------------------------------------------------
(* How many messages wait.                                                 *)

(* Positions that can be moved into a set are no more than it has.         *)
LEMMA MovedInto ==
  ASSUME NEW S \in SUBSET Int, NEW T, IsFiniteSet(T), NEW k \in Int, \A x \in S : x + k \in T
  PROVE  IsFiniteSet(S) /\ Cardinality(S) <= Cardinality(T)
<1> DEFINE f == [x \in S |-> x + k]
<1>1. f \in [S -> T] /\ \A a, b \in S : f[a] = f[b] => a = b
      OBVIOUS
<1>2. f \in Injection(S, T)
      BY <1>1 DEF Injection, IsInjective
<1> HIDE DEF f
<1>. QED
  BY <1>2, FS_Injection

(* The positions of the buffer, the messages there and their kinds.        *)
LEMMA BufferFacts ==
  ASSUME StreamInv
  PROVE  /\ Len(buf) \in Nat /\ Len(wire) \in Nat /\ N = Len(buf) + Len(wire) /\ N \in Nat
         /\ DOMAIN buf = 1 .. Len(buf) /\ (buf # <<>> <=> Len(buf) > 0)
         /\ \A p \in 1 .. Len(buf) :
              /\ p \in 1 .. N /\ Unit(p) = buf[p] /\ buf[p].of \in 1 .. Len(sent)
              /\ KindOf(buf[p]) \in Kinds /\ Whole(p)
         /\ Complete \subseteq 1 .. Len(buf) /\ IsFiniteSet(Complete) /\ Cardinality(Complete) \in Nat
<1>1. StreamType
      BY DEF StreamInv
<1>2. /\ Len(buf) \in Nat /\ Len(wire) \in Nat /\ N = Len(buf) + Len(wire) /\ N \in Nat
      /\ DOMAIN buf = 1 .. Len(buf) /\ (buf # <<>> <=> Len(buf) > 0)
      BY <1>1, UnitFacts DEF StreamType, N
<1>3. ASSUME NEW p \in 1 .. Len(buf)
      PROVE  /\ p \in 1 .. N /\ Unit(p) = buf[p] /\ buf[p].of \in 1 .. Len(sent)
             /\ KindOf(buf[p]) \in Kinds /\ Whole(p)
  <2>1. p \in 1 .. N /\ Unit(p) = buf[p]
        BY <1>1, <1>2, UnitFacts
  <2>2. Whole(p) /\ KindOf(Unit(p)) \in Kinds
        BY <2>1, WholeFacts DEF StreamInv
  <2>. QED
    BY <2>1, <2>2 DEF Whole
<1>4. Complete \subseteq 1 .. Len(buf)
      BY <1>2 DEF Complete
<1>5. IsFiniteSet(Complete) /\ Cardinality(Complete) \in Nat
  <2>1. IsFiniteSet(1 .. Len(buf))
        BY <1>2, FS_Interval
  <2>. QED
    BY <1>4, <2>1, FS_Subset, FS_CardinalityType
<1>. QED
  BY <1>2, <1>3, <1>4, <1>5

(* The set of empty lines behind which there is a body.                    *)
Bodies == {d \in EmptyLines : BodyOf(KindOf(buf[d])) > 0}

LEMMA LengthFacts ==
  /\ getContentLength = IF Min0(Bodies) = 0 THEN 0 ELSE BodyOf(KindOf(buf[Min0(Bodies)]))
  /\ getContentLength' =
       IF Min0(Bodies') = 0 THEN 0 ELSE BodyOf((KindOf(buf[Min0(Bodies)]))')
BY DEF getContentLength, Bodies

(* What is at the head stays there, and what is found there first, when    *)
(* more comes behind it.                                                   *)
LEMMA Grows ==
  ASSUME StreamInv, StreamInv', Len(buf') >= Len(buf),
         \A p \in 1 .. Len(buf) : buf'[p] = buf[p] /\ sent'[buf[p].of] = sent[buf[p].of]
  PROVE  (Jammed => Jammed') /\ (Borrowed => Borrowed')
<1>1. /\ Len(buf) \in Nat /\ (buf # <<>> <=> Len(buf) > 0) /\ DOMAIN buf = 1 .. Len(buf)
      /\ \A p \in 1 .. Len(buf) : KindOf(buf[p]) \in Kinds
      BY BufferFacts
<1>2. Len(buf') \in Nat /\ (buf' # <<>> <=> Len(buf') > 0) /\ DOMAIN buf' = 1 .. Len(buf')
      BY DEF StreamInv, StreamType
<1>3. \A p \in 1 .. Len(buf) : sent'[buf'[p].of] = KindOf(buf[p])
      BY DEF KindOf
<1>4. Len(buf) > 0 => 1 \in 1 .. Len(buf) /\ Len(buf') > 0
      BY <1>1, <1>2
<1>5. Jammed => Jammed'
  <2>. SUFFICES ASSUME Jammed PROVE Jammed'
       OBVIOUS
  <2>1. Len(buf) > 0 /\ KindOf(buf[1]) = "bad"
        BY <1>1 DEF Jammed
  <2>2. sent'[buf'[1].of] = "bad" /\ buf' # <<>>
        BY <1>2, <1>3, <1>4, <2>1
  <2>. QED
    BY <2>2 DEF Jammed, KindOf
<1>6. ASSUME Borrowed
      PROVE  Borrowed'
  <2>1. Len(buf) > 0 /\ getContentLength > BodyOf(KindOf(buf[1])) /\ BodyOf(KindOf(buf[1])) \in Nat
        BY <1>1, <1>4, <1>6, KindFacts DEF Borrowed
  <2>2. EmptyLines \in SUBSET Nat /\ EmptyLines \subseteq 1 .. Len(buf) /\ getContentLength \in Nat
        BY EmptyLineFacts
  <2>3. Bodies # {}
    <3>1. Bodies = {} => getContentLength = 0
          BY LengthFacts DEF Min0
    <3>. QED
      BY <2>1, <2>2, <3>1
  <2>4. Bodies \in SUBSET Nat
        BY <2>2 DEF Bodies
  <2>5. PICK m \in Bodies : m = Min0(Bodies) /\ \A q \in Bodies : m <= q
        BY <2>3, <2>4, MinFacts DEF Min0
  <2>6. m \in 1 .. Len(buf) /\ m # 0
    <3>1. m \in EmptyLines
          BY <2>5 DEF Bodies
    <3>2. m \in 1 .. Len(buf)
          BY <2>2, <3>1
    <3>. QED
      BY <3>2
  <2>7. \A q \in 1 .. Len(buf) : q \in Bodies' <=> q \in Bodies
    <3>1. \A q \in 1 .. Len(buf) : q \in DOMAIN buf' /\ \A d \in 1 .. q : d \in 1 .. Len(buf)
          BY <1>1, <1>2
    <3>2. \A d \in 1 .. Len(buf) : HasNul(buf[d])' <=> HasNul(buf[d])
          BY <1>3 DEF HasNul, Opens, KindOf
    <3>3. \A q \in 1 .. Len(buf) : q \in EmptyLines' <=> q \in EmptyLines
      <4>. SUFFICES ASSUME NEW q \in 1 .. Len(buf) PROVE q \in EmptyLines' <=> q \in EmptyLines
           OBVIOUS
      <4>1. (\A d \in 1 .. q : ~HasNul(buf[d])') <=> (\A d \in 1 .. q : ~HasNul(buf[d]))
            BY <3>1, <3>2
      <4>2. /\ q \in DOMAIN buf /\ q \in DOMAIN buf' /\ KindOf(buf[q])' = KindOf(buf[q])
            /\ buf'[q].at = buf[q].at
            BY <1>1, <1>3, <3>1 DEF KindOf
      <4>. QED
        BY <4>1, <4>2 DEF EmptyLines
    <3>. QED
      BY <1>3, <3>3 DEF Bodies, KindOf
  <2>8. m \in Bodies' /\ \A q \in Bodies' : m <= q
    <3>1. \A q \in Bodies' : q \in 1 .. Len(buf) \/ q > Len(buf)
      <4>1. \A q \in Bodies' : q \in 1 .. Len(buf')
            BY <1>2 DEF Bodies, EmptyLines
      <4>. QED
        BY <1>1, <1>2, <4>1
    <3>2. \A q \in Bodies' : q \in 1 .. Len(buf')
          BY <1>2 DEF Bodies, EmptyLines
    <3>3. ASSUME NEW q \in Bodies' PROVE m <= q
      <4>1. CASE q \in 1 .. Len(buf)
            BY <2>5, <2>7, <3>3, <4>1
      <4>2. CASE q > Len(buf)
            BY <1>1, <1>2, <2>6, <3>2, <3>3, <4>2
      <4>. QED
        BY <3>1, <3>3, <4>1, <4>2
    <3>. QED
      BY <2>5, <2>6, <2>7, <3>3
  <2>9. Min0(Bodies') = m
    <3>1. Bodies' \in SUBSET Nat /\ Bodies' # {}
      <4>1. \A q \in Bodies' : q \in 1 .. Len(buf')
            BY <1>2 DEF Bodies, EmptyLines
      <4>2. \A q \in 1 .. Len(buf') : q \in Nat
            OBVIOUS
      <4>3. \A q \in Bodies' : q \in Nat
            BY <4>1, <4>2
      <4>. QED
        BY <2>8, <4>3
    <3>2. PICK x : x = Min0(Bodies')
          OBVIOUS
    <3>3. x \in Bodies' /\ \A q \in Bodies' : x <= q
          BY <3>1, <3>2, MinFacts DEF Min0
    <3>4. x <= m /\ m <= x /\ x \in Nat /\ m \in Nat
          BY <2>6, <2>8, <3>1, <3>3
    <3>. QED
      BY <3>2, <3>4
  <2>10. getContentLength' = BodyOf(KindOf(buf[m])) /\ getContentLength = BodyOf(KindOf(buf[m]))
    <3>1. getContentLength' = BodyOf(sent'[buf'[m].of])
      <4>1. (KindOf(buf[Min0(Bodies)]))' = sent'[buf'[m].of]
            BY <2>9 DEF KindOf
      <4>. QED
        BY <2>6, <2>9, <4>1, LengthFacts
    <3>2. getContentLength = BodyOf(KindOf(buf[m]))
          BY <2>5, <2>6, LengthFacts
    <3>. QED
      BY <1>3, <2>6, <3>1, <3>2
  <2>11. KindOf(buf[1])' = KindOf(buf[1]) /\ buf' # <<>>
         BY <1>2, <1>3, <1>4, <2>1 DEF KindOf
  <2>. QED
    BY <2>1, <2>10, <2>11 DEF Borrowed
<1>. QED
  BY <1>5, <1>6

(* The message at the head, once it is known to begin there.               *)
LEMMA HeadMessage ==
  ASSUME StreamInv, Len(buf) > 0, Opens(buf[1])
  PROVE  /\ KindOf(buf[1]) \in Kinds /\ LenOf(KindOf(buf[1])) \in Nat /\ LenOf(KindOf(buf[1])) >= 2
         /\ \A j \in 1 .. Len(buf) : j <= LenOf(KindOf(buf[1])) =>
              buf[j].of = buf[1].of /\ buf[j].at = j /\ KindOf(buf[j]) = KindOf(buf[1])
<1>1. /\ Len(buf) \in Nat /\ 1 \in 1 .. Len(buf) /\ Whole(1) /\ KindOf(buf[1]) \in Kinds
      /\ \A p \in 1 .. Len(buf) : Unit(p) = buf[p]
      BY BufferFacts
<1>2. LenOf(KindOf(buf[1])) \in Nat /\ LenOf(KindOf(buf[1])) >= 2
      BY <1>1, KindFacts
<1>3. EndOf(1) = LenOf(KindOf(buf[1])) /\ Unit(1) = buf[1] /\ buf[1].at = 1
      BY <1>1, <1>2 DEF EndOf, Opens
<1>4. ASSUME NEW j \in 1 .. Len(buf), j <= LenOf(KindOf(buf[1]))
      PROVE  buf[j].of = buf[1].of /\ buf[j].at = j /\ KindOf(buf[j]) = KindOf(buf[1])
  <2>1. j \in 1 .. EndOf(1) /\ Unit(j) = buf[j]
        BY <1>1, <1>2, <1>3, <1>4
  <2>2. Unit(j).of = Unit(1).of /\ Unit(j).at = Unit(1).at + (j - 1)
        BY <1>1, <2>1 DEF Whole
  <2>3. buf[j].of = buf[1].of /\ buf[j].at = 1 + (j - 1)
        BY <1>3, <2>1, <2>2
  <2>. QED
    BY <2>3 DEF KindOf
<1>. QED
  BY <1>1, <1>2, <1>4

(* The data of a channel has a NUL in front of every empty line; a text    *)
(* has one of its own, at its second unit.                                 *)
LEMMA HeadLines ==
  ASSUME StreamInv, Len(buf) > 0, Opens(buf[1])
  PROVE  /\ KindOf(buf[1]) \in Binary => EmptyLines = {}
         /\ KindOf(buf[1]) \in Text /\ Len(buf) >= 2 => EmptyLines # {} /\ Min(EmptyLines) = 2
         /\ KindOf(buf[1]) \in Text /\ Len(buf) < 2 => EmptyLines = {}
<1>1. /\ Len(buf) \in Nat /\ 1 \in 1 .. Len(buf) /\ DOMAIN buf = 1 .. Len(buf)
      /\ KindOf(buf[1]) \in Kinds /\ LenOf(KindOf(buf[1])) \in Nat /\ LenOf(KindOf(buf[1])) >= 2
      /\ buf[1].at = 1
      BY BufferFacts, HeadMessage DEF Opens
<1>2. KindOf(buf[1]) \in Binary => HasNul(buf[1])
      BY DEF Binary, HasNul
<1>3. ASSUME KindOf(buf[1]) \in Binary PROVE EmptyLines = {}
  <2>1. \A e \in DOMAIN buf : 1 \in 1 .. e
        BY <1>1
  <2>. QED
    BY <1>2, <1>3, <2>1 DEF EmptyLines
<1>4. ASSUME KindOf(buf[1]) \in Text, Len(buf) >= 2
      PROVE  EmptyLines # {} /\ Min(EmptyLines) = 2
  <2>1. 2 \in 1 .. Len(buf) /\ 2 <= LenOf(KindOf(buf[1]))
        BY <1>1, <1>4
  <2>2. KindOf(buf[2]) = KindOf(buf[1]) /\ buf[2].at = 2
        BY <2>1, HeadMessage
  <2>3. ~HasNul(buf[1]) /\ ~HasNul(buf[2])
        BY <1>4, <2>2 DEF HasNul, Text
  <2>4. 2 \in EmptyLines
    <3>1. \A d \in 1 .. 2 : d = 1 \/ d = 2
          OBVIOUS
    <3>. QED
      BY <1>1, <1>4, <2>1, <2>2, <2>3, <3>1 DEF EmptyLines
  <2>5. 1 \notin EmptyLines
        BY <1>1 DEF EmptyLines
  <2>6. Min(EmptyLines) \in EmptyLines /\ Min(EmptyLines) <= 2 /\ EmptyLines \in SUBSET Nat
        /\ EmptyLines \subseteq 1 .. Len(buf)
        BY <2>4, EmptyLineFacts, MinFacts
  <2>7. PICK m : m = Min(EmptyLines)
        OBVIOUS
  <2>8. m \in 1 .. Len(buf) /\ m <= 2 /\ m # 1
        BY <2>5, <2>6, <2>7
  <2>9. m = 2
        BY <1>1, <2>8
  <2>. QED
    BY <2>4, <2>7, <2>9
<1>5. ASSUME KindOf(buf[1]) \in Text, Len(buf) < 2 PROVE EmptyLines = {}
  <2>1. \A e \in DOMAIN buf : e = 1
        BY <1>1, <1>5
  <2>. QED
    BY <1>1, <2>1 DEF EmptyLines
<1>. QED
  BY <1>3, <1>4, <1>5

(* With a message at the head whose Content-Length is its own, the length  *)
(* of the next packet is that of the message, or zero if its end is not    *)
(* there.                                                                  *)
LEMMA OwnLength ==
  ASSUME StreamInv, Len(buf) > 0, Opens(buf[1])
  PROVE  /\ ~Borrowed /\ getNextPacketLength = 0 => LenOf(KindOf(buf[1])) > Len(buf)
         /\ Borrowed /\ getNextPacketLength # 0 => getNextPacketLength # LenOf(KindOf(buf[1]))
<1>1. /\ Len(buf) \in Nat /\ buf # <<>> /\ KindOf(buf[1]) \in Kinds
      /\ LenOf(KindOf(buf[1])) \in Nat /\ LenOf(KindOf(buf[1])) >= 2
      BY BufferFacts, HeadMessage
<1>2. PICK k \in Kinds, l \in Nat, b \in Nat, c \in Nat :
        k = KindOf(buf[1]) /\ l = LenOf(k) /\ l >= 2 /\ b = BodyOf(k) /\ c = getContentLength
      BY <1>1, KindFacts, EmptyLineFacts
<1>3. Borrowed <=> c > b
      BY <1>1, <1>2 DEF Borrowed
<1>4. CASE k \in Binary
  <2>1. Dollar /\ EmptyLines = {}
        BY <1>1, <1>2, <1>4, HeadLines DEF Dollar
  <2>2. c = 0
    <3>1. Min0(Bodies) = 0
          BY <2>1 DEF Bodies, Min0
    <3>. QED
      BY <1>2, <3>1, LengthFacts
  <2>3. getNextPacketLength = IF l > Len(buf) THEN 0 ELSE l
        BY <1>2, <2>1 DEF getNextPacketLength
  <2>. QED
    BY <1>1, <1>2, <1>3, <2>2, <2>3
<1>5. CASE k \in Text
  <2>1. ~Dollar /\ l = 2 + b
        BY <1>2, <1>5, KindFacts DEF Dollar
  <2>2. CASE Len(buf) < 2
    <3>1. getNextPacketLength = 0
          BY <1>2, <1>5, <2>1, <2>2, HeadLines, <1>1 DEF getNextPacketLength
    <3>. QED
      BY <1>1, <1>2, <2>2, <3>1
  <2>3. CASE Len(buf) >= 2
    <3>1. EmptyLines # {} /\ Min(EmptyLines) = 2
          BY <1>2, <1>5, <2>3, HeadLines
    <3>2. getNextPacketLength = IF 2 + c > Len(buf) THEN 0 ELSE 2 + c
          BY <1>2, <2>1, <3>1 DEF getNextPacketLength
    <3>. QED
      BY <1>1, <1>2, <1>3, <2>1, <3>2
  <2>. QED
    BY <1>1, <2>2, <2>3
<1>. QED
  BY <1>2, <1>4, <1>5, KindFacts

(* Nothing is complete in the buffer when the next message is not.         *)
LEMMA NothingComplete ==
  ASSUME StreamInv, Len(buf) > 0 => Opens(buf[1]), ~Borrowed, getNextPacketLength = 0
  PROVE  Cardinality(Complete) = 0
<1>1. Len(buf) \in Nat /\ DOMAIN buf = 1 .. Len(buf)
      BY BufferFacts
<1>2. CASE Len(buf) = 0
  <2>1. Complete = {}
        BY <1>1, <1>2 DEF Complete
  <2>. QED
    BY <2>1, FS_EmptySet
<1>3. CASE Len(buf) > 0
  <2>1. LenOf(KindOf(buf[1])) > Len(buf) /\ LenOf(KindOf(buf[1])) \in Nat
        BY <1>3, OwnLength, HeadMessage
  <2>2. ASSUME NEW e \in 1 .. Len(buf) PROVE ~Last(buf[e])
    <3>1. e <= LenOf(KindOf(buf[1])) /\ e # LenOf(KindOf(buf[1]))
          BY <1>1, <2>1
    <3>2. buf[e].at = e /\ KindOf(buf[e]) = KindOf(buf[1])
          BY <1>3, <3>1, HeadMessage
    <3>. QED
      BY <3>1, <3>2 DEF Last
  <2>3. Complete = {}
        BY <1>1, <2>2 DEF Complete
  <2>. QED
    BY <2>3, FS_EmptySet
<1>. QED
  BY <1>1, <1>2, <1>3

(* A message that is dequeued as a whole waits no longer.                  *)
LEMMA OneLessWaits ==
  ASSUME StreamInv, StreamInv', Len(buf) > 0, Opens(buf[1]), UNCHANGED sent,
         NEW n \in 1 .. Len(buf), n = LenOf(KindOf(buf[1])), Taken(n)
  PROVE  /\ Cardinality(Complete') + 1 <= Cardinality(Complete)
         /\ Cardinality(Complete') \in Nat /\ Cardinality(Complete) \in Nat
<1>1. /\ Len(buf) \in Nat /\ DOMAIN buf = 1 .. Len(buf)
      /\ Complete \subseteq 1 .. Len(buf) /\ IsFiniteSet(Complete) /\ Cardinality(Complete) \in Nat
      BY BufferFacts
<1>2. DOMAIN buf' = 1 .. Len(buf) - n
      BY DEF StreamInv, StreamType, Taken
<1>3. n \in Complete
  <2>1. buf[n].at = n /\ KindOf(buf[n]) = KindOf(buf[1])
        BY HeadMessage
  <2>. QED
    BY <1>1, <2>1 DEF Complete, Last
<1>4. ASSUME NEW x \in Complete' PROVE x + n \in Complete \ {n}
  <2>1. x \in 1 .. Len(buf) - n /\ Last(buf[x])'
        BY <1>2 DEF Complete
  <2>2. buf'[x] = buf[x + n]
        BY <2>1 DEF Taken
  <2>3. Last(buf[x + n])
        BY <2>1, <2>2 DEF Last, KindOf
  <2>. QED
    BY <1>1, <2>1, <2>3 DEF Complete
<1>5. Complete' \in SUBSET Int
  <2>1. \A x \in Complete' : x \in 1 .. Len(buf) - n
        BY <1>2 DEF Complete
  <2>2. \A x \in 1 .. Len(buf) - n : x \in Int
        OBVIOUS
  <2>3. \A x \in Complete' : x \in Int
        BY <2>1, <2>2
  <2>. QED
    BY <2>3
<1>6. PICK S : S = Complete'
      OBVIOUS
<1>7. IsFiniteSet(Complete \ {n}) /\ Cardinality(Complete \ {n}) = Cardinality(Complete) - 1
      BY <1>1, <1>3, FS_RemoveElement
<1>8. IsFiniteSet(S) /\ Cardinality(S) <= Cardinality(Complete \ {n})
  <2>1. S \in SUBSET Int /\ n \in Int /\ \A x \in S : x + n \in Complete \ {n}
        BY <1>4, <1>5, <1>6
  <2>. QED
    BY <1>7, <2>1, MovedInto
<1>9. Cardinality(S) \in Nat
      BY <1>8, FS_CardinalityType
<1>. QED
  BY <1>1, <1>6, <1>7, <1>8, <1>9

(* The buffer begins with a message, and not in the middle of one.         *)
LEMMA BeginsWithMessage ==
  ASSUME OrderInv, ~stray, ~wrapped
  PROVE  StreamInv /\ (Len(buf) > 0 => Opens(buf[1]))
<1>1. StreamInv /\ CutInv
      BY DEF OrderInv
<1>2. /\ Len(buf) \in Nat /\ Len(wire) \in Nat /\ N = Len(buf) + Len(wire)
      /\ \A p \in 1 .. Len(buf) : Unit(p) = buf[p]
      BY <1>1, BufferFacts
<1>3. Len(buf) > 0 => N > 0 /\ Unit(1) = buf[1]
      BY <1>2
<1>. QED
  BY <1>1, <1>3 DEF CutInv

(* A message that listen takes is one less, and one that it leaves jams    *)
(* the buffer or ends the loop.                                            *)
LEMMA ListenWaits ==
  ASSUME OrderInv, OrderInv', WaitInv, listen
  PROVE  WaitInv'
<1>1. PICK n : n = getNextPacketLength
      OBVIOUS
<1>2. \/ getNextRequest(n) \/ ReplyError(n) \/ getNextResponse(n) \/ Unrecognized(n)
      \/ getNextInterleave(n) \/ NoSuchChannel(n)
      BY <1>1 DEF listen
<1>3. extra' = extra /\ pc = "parse" /\ n > 0 /\ UNCHANGED <<sent, wire>>
      BY <1>2 DEF getNextRequest, ReplyError, getNextResponse, Unrecognized, getNextInterleave,
                  NoSuchChannel, IsText
<1>. SUFFICES ASSUME ~stray', ~wrapped', ~Jammed', ~Borrowed', pc' \notin {"ended", "dead"}
              PROVE  Cardinality(Complete') <= Allowed'
     BY <1>3 DEF WaitInv
<1>4. ~stray /\ ~wrapped /\ ~NoSuchChannel(n)
  <2>1. ~NoSuchChannel(n)
        BY Zenon DEF NoSuchChannel
  <2>2. dequeue(n) \/ UNCHANGED <<buf, stray, wrapped>>
        BY <1>2, <2>1, Zenon DEF getNextRequest, ReplyError, getNextResponse, Unrecognized, getNextInterleave
  <2>3. CASE dequeue(n)
        BY <2>1, <2>3, Zenon DEF dequeue
  <2>4. CASE UNCHANGED <<buf, stray, wrapped>>
    <3>1. stray' = stray /\ wrapped' = wrapped
          BY <2>4
    <3>. QED
      BY <2>1, <3>1
  <2>. QED
    BY <2>2, <2>3, <2>4
<1>5. StreamInv /\ StreamInv' /\ (Len(buf) > 0 => Opens(buf[1]))
      BY <1>4, BeginsWithMessage DEF OrderInv
<1>6. n \in 0 .. Len(buf) /\ n \in 1 .. Len(buf) /\ Len(buf) > 0 /\ Len(buf) \in Nat
  <2>1. n \in 0 .. Len(buf) /\ Len(buf) \in Nat
        BY <1>1, <1>5, SizeFacts, BufferFacts
  <2>. QED
    BY <1>3, <2>1
<1>7. Opens(buf[1]) /\ Parsed(n) = {buf[1].of} /\ buf[1].of # 0
  <2>1. 1 \in 1 .. Len(buf)
        BY <1>6
  <2>2. buf[1].of \in 1 .. Len(sent)
        BY <1>5, <2>1, BufferFacts
  <2>. QED
    BY <1>5, <1>6, <2>2 DEF Parsed
<1>8. CASE dequeue(n)
  <2>1. n = LenOf(KindOf(buf[1]))
        BY <1>8 DEF dequeue
  <2>2. ~Borrowed
        BY <1>1, <1>3, <1>5, <1>6, <2>1, OwnLength
  <2>3. ~Jammed
    <3>1. CASE Dollar
          BY <3>1 DEF Dollar, Jammed, Binary
    <3>2. CASE ~Dollar
      <4>1. getNextRequest(n) \/ getNextResponse(n) \/ Unrecognized(n) \/ ReplyError(n)
            BY <1>2, <1>4, <3>2 DEF getNextInterleave
      <4>2. CASE ReplyError(n)
        <5>1. buf' = buf /\ stray' = stray
              BY <4>2 DEF ReplyError
        <5>2. SubSeq(buf, n + 1, Len(buf)) = buf
              BY <1>8, <5>1 DEF dequeue
        <5>3. Len(SubSeq(buf, n + 1, Len(buf))) = Len(buf) - n
              BY <1>5, <1>6, RestFacts DEF StreamInv, StreamType
        <5>. QED
          BY <1>6, <5>2, <5>3
      <4>3. CASE getNextRequest(n) \/ getNextResponse(n) \/ Unrecognized(n)
            BY <1>7, <4>3 DEF getNextRequest, getNextResponse, Unrecognized, Jammed, KindOf, Requests
      <4>. QED
        BY <4>1, <4>2, <4>3
    <3>. QED
      BY <3>1, <3>2
  <2>4. Taken(n)
        BY <1>5, <1>6, <1>8, DequeueTakes DEF StreamInv
  <2>5. /\ Cardinality(Complete') + 1 <= Cardinality(Complete)
        /\ Cardinality(Complete') \in Nat /\ Cardinality(Complete) \in Nat
        BY <1>3, <1>5, <1>6, <1>7, <2>1, <2>4, OneLessWaits
  <2>6. Cardinality(Complete) <= extra + 1 /\ extra \in Nat
        BY <1>3, <1>4, <2>2, <2>3 DEF WaitInv, Allowed
  <2>7. Cardinality(Complete') <= extra
        BY <2>5, <2>6
  <2>. QED
    BY <1>3, <2>5, <2>6, <2>7 DEF Allowed
<1>9. CASE ~dequeue(n)
  <2>1. ReplyError(n)
        BY <1>2, <1>4, <1>9 DEF getNextRequest, getNextResponse, Unrecognized, getNextInterleave
  <2>2. buf' = buf /\ sent[buf[1].of] = "bad" /\ buf # <<>>
        BY <1>5, <1>6, <1>7, <2>1, BufferFacts DEF ReplyError
  <2>3. Jammed'
        BY <1>3, <2>2 DEF Jammed, KindOf
  <2>. QED
    BY <2>3
<1>. QED
  BY <1>8, <1>9

(* A read lets one more message wait, and as many as come with it.         *)
LEMMA ReadWaits ==
  ASSUME OrderInv, OrderInv', WaitInv, NEW n \in 1 .. Len(wire), enqueue(n)
  PROVE  WaitInv'
<1> DEFINE E == {j \in 1 .. n : Last(wire[j])}
           D == {p \in Len(buf) + 1 .. Len(buf) + n : Last(wire[p - Len(buf)])}
           more == IF Cardinality(E) > 1 THEN Cardinality(E) - 1 ELSE 0
<1>1. /\ pc = "read" /\ pc' = "parse" /\ UNCHANGED <<sent, stray, wrapped>>
      /\ extra' = extra + more
      BY DEF enqueue
<1>2. IsFiniteSet(E) /\ Cardinality(E) \in Nat
  <2>1. n \in Int /\ IsFiniteSet(1 .. n)
        BY FS_Interval
  <2>. QED
    BY <2>1, FS_Subset, FS_CardinalityType
<1>3. more \in Nat /\ Cardinality(E) <= more + 1 /\ extra \in Nat /\ extra' \in Nat
  <2>1. more \in Nat /\ Cardinality(E) <= more + 1
        BY <1>2
  <2>2. extra \in Nat
        BY DEF WaitInv
  <2> HIDE DEF more
  <2>. QED
    BY <1>1, <2>1, <2>2
<1>. SUFFICES ASSUME ~stray', ~wrapped', ~Jammed', ~Borrowed', pc' \notin {"ended", "dead"}
              PROVE  Cardinality(Complete') <= Allowed'
     BY <1>3 DEF WaitInv
<1>4. StreamInv /\ StreamInv'
      BY <1>1 DEF OrderInv
<1>5. /\ Len(buf') = Len(buf) + n /\ Len(buf) \in Nat /\ n \in Nat /\ DOMAIN buf = 1 .. Len(buf)
      /\ \A p \in 1 .. Len(buf) : buf'[p] = buf[p]
      /\ \A p \in Len(buf) + 1 .. Len(buf) + n : buf'[p] = wire[p - Len(buf)]
      /\ DOMAIN buf' = 1 .. Len(buf) + n
  <2>1. buf' \in Seq(Units)
        BY <1>4 DEF StreamInv, StreamType
  <2>. QED
    BY <1>4, <2>1, EnqueueFacts, BufferFacts
<1>6. ~Jammed /\ ~Borrowed
  <2>1. Len(buf') >= Len(buf)
        BY <1>5
  <2>. QED
    BY <1>1, <1>4, <1>5, <2>1, Grows
<1>7. Cardinality(Complete) <= extra
      BY <1>1, <1>6 DEF WaitInv, Allowed
<1>8. Complete' \subseteq Complete \cup D
  <2>. SUFFICES ASSUME NEW p \in Complete' PROVE p \in Complete \cup D
       OBVIOUS
  <2>1. p \in 1 .. Len(buf) + n /\ Last(buf[p])'
        BY <1>5 DEF Complete
  <2>2. CASE p \in 1 .. Len(buf)
        BY <1>1, <1>5, <2>1, <2>2 DEF Complete, Last, KindOf
  <2>3. CASE p \in Len(buf) + 1 .. Len(buf) + n
        BY <1>1, <1>5, <2>1, <2>3 DEF Last, KindOf
  <2>. QED
    BY <1>5, <2>1, <2>2, <2>3
<1>9. IsFiniteSet(D) /\ Cardinality(D) <= Cardinality(E) /\ Cardinality(D) \in Nat
  <2>1. D \in SUBSET Int
    <3>1. \A p \in D : p \in Len(buf) + 1 .. Len(buf) + n
          OBVIOUS
    <3>2. \A p \in Len(buf) + 1 .. Len(buf) + n : p \in Int
          OBVIOUS
    <3>. QED
      BY <3>1, <3>2
  <2>2. 0 - Len(buf) \in Int
        BY <1>5
  <2>3. \A p \in D : p + (0 - Len(buf)) \in E
    <3>. SUFFICES ASSUME NEW p \in D PROVE p + (0 - Len(buf)) \in E
         OBVIOUS
    <3>1. p \in Len(buf) + 1 .. Len(buf) + n /\ Last(wire[p - Len(buf)])
          OBVIOUS
    <3>2. p - Len(buf) \in 1 .. n /\ p + (0 - Len(buf)) = p - Len(buf)
          BY <1>5, <3>1
    <3>3. p - Len(buf) \in E
          BY <3>1, <3>2
    <3>. QED
      BY <3>2, <3>3, Zenon
  <2> HIDE DEF D, E
  <2>4. IsFiniteSet(D) /\ Cardinality(D) <= Cardinality(E)
        BY <1>2, <2>1, <2>2, <2>3, MovedInto
  <2>. QED
    BY <2>4, FS_CardinalityType
<1> HIDE DEF D, E, more
<1>10. Cardinality(Complete') <= Cardinality(Complete) + Cardinality(D)
  <2>1. IsFiniteSet(Complete) /\ Cardinality(Complete) \in Nat
        BY <1>4, BufferFacts
  <2>2. /\ IsFiniteSet(Complete \cup D) /\ IsFiniteSet(Complete \cap D)
        /\ Cardinality(Complete \cup D) =
             Cardinality(Complete) + Cardinality(D) - Cardinality(Complete \cap D)
        BY <1>9, <2>1, FS_Union, FS_Intersection
  <2>3. Cardinality(Complete \cap D) \in Nat /\ Cardinality(Complete \cup D) \in Nat
        BY <2>2, FS_CardinalityType
  <2>4. PICK S : S = Complete'
        OBVIOUS
  <2>5. IsFiniteSet(S) /\ Cardinality(S) <= Cardinality(Complete \cup D)
        BY <1>8, <2>2, <2>4, FS_Subset
  <2>6. Cardinality(S) \in Nat
        BY <2>5, FS_CardinalityType
  <2>. QED
    BY <1>9, <2>1, <2>2, <2>3, <2>4, <2>5, <2>6
<1>11. Allowed' = extra + more + 1
       BY <1>1 DEF Allowed
<1>12. Cardinality(Complete') \in Nat /\ Cardinality(Complete) \in Nat
  <2>1. PICK S : S = Complete'
        OBVIOUS
  <2>2. IsFiniteSet(S)
    <3>1. IsFiniteSet(Complete) /\ Cardinality(Complete) \in Nat
          BY <1>4, BufferFacts
    <3>2. IsFiniteSet(Complete \cup D)
          BY <1>9, <3>1, FS_Union
    <3>. QED
      BY <1>8, <2>1, <3>2, FS_Subset
  <2>. QED
    BY <1>4, <2>1, <2>2, BufferFacts, FS_CardinalityType
<1>. QED
  BY <1>2, <1>3, <1>7, <1>9, <1>10, <1>11, <1>12

LEMMA NextWaits == OrderInv /\ OrderInv' /\ WaitInv /\ [Next]_vars => WaitInv'
<1> SUFFICES ASSUME OrderInv, OrderInv', WaitInv, [Next]_vars PROVE WaitInv'
    OBVIOUS
<1>1. ASSUME UNCHANGED <<sent, buf, stray, wrapped, extra>>,
             pc' \notin {"ended", "dead"} => pc \notin {"ended", "dead"} /\ Allowed <= Allowed'
      PROVE  WaitInv'
  <2>1. /\ Complete' = Complete /\ (Jammed' <=> Jammed)
        BY <1>1 DEF Complete, Last, KindOf, Jammed
  <2>2. Borrowed' <=> Borrowed
        BY <1>1 DEF Borrowed, getContentLength, EmptyLines, HasNul, KindOf, Opens
  <2>. SUFFICES ASSUME ~stray, ~wrapped, ~Jammed, ~Borrowed, pc' \notin {"ended", "dead"}
                PROVE  Cardinality(Complete) <= Allowed'
       BY <1>1, <2>1, <2>2 DEF WaitInv
  <2>3. Cardinality(Complete) <= Allowed /\ Allowed <= Allowed'
        BY <1>1 DEF WaitInv
  <2>4. extra \in Nat /\ Allowed \in Nat /\ Allowed' \in Nat
        BY <1>1 DEF WaitInv, Allowed
  <2>5. Cardinality(Complete) \in Nat
        BY BeginsWithMessage, BufferFacts
  <2>. QED
    BY <2>3, <2>4, <2>5
<1>2. CASE ReadMore
  <2>1. UNCHANGED <<sent, buf, stray, wrapped, extra>> /\ pc' = "read" /\ extra \in Nat
        BY <1>2 DEF ReadMore, WaitInv
  <2>2. Complete' = Complete /\ (Jammed' <=> Jammed) /\ (Borrowed' <=> Borrowed) /\ Allowed' = extra
        BY <2>1 DEF Complete, Last, KindOf, Jammed, Borrowed, getContentLength, EmptyLines, HasNul,
                    Opens, Allowed
  <2>3. ~stray /\ ~wrapped /\ ~Borrowed => Cardinality(Complete) = 0
        BY <1>2, BeginsWithMessage, NothingComplete DEF ReadMore
  <2>. QED
    BY <2>1, <2>2, <2>3 DEF WaitInv
<1>3. CASE \/ pushToRead \/ Serve \/ addInterleavePair \/ start \/ stopInterleaving \/ stop
           \/ release \/ Receiver \/ pause \/ unpause \/ ReadFails \/ UNCHANGED vars
  <2>1. /\ UNCHANGED <<sent, buf, stray, wrapped, extra>>
        /\ \/ pc' = pc
           \/ pc \in {"push", "serve", "closing"} /\ pc' \in {"read", "closing", "ended"}
           \/ pc' = "ended"
        BY <1>3 DEF pushToRead, Serve, addInterleavePair, start, stopInterleaving, stop, release,
                    Receiver, run, readSome, wait, wake, waitMore, pause, unpause, ReadFails, vars, receiver
  <2>2. extra \in Nat
        BY DEF WaitInv
  <2>. QED
    BY <1>1, <2>1, <2>2 DEF Allowed
<1>4. ASSUME NEW k \in Kinds, Send(k) PROVE WaitInv'
  <2>1. UNCHANGED <<buf, stray, wrapped, extra, pc>> /\ extra \in Nat
        BY <1>4 DEF Send, WaitInv
  <2>. SUFFICES ASSUME ~stray', ~wrapped', ~Jammed', ~Borrowed', pc' \notin {"ended", "dead"}
                PROVE  Cardinality(Complete') <= Allowed'
       BY <2>1 DEF WaitInv
  <2>2. StreamInv /\ StreamInv' /\ StreamType
        BY <2>1 DEF OrderInv, StreamInv
  <2>3. \A i \in 1 .. Len(sent) : sent'[i] = sent[i]
        BY <1>4, <2>2, SendFacts
  <2>4. /\ \A p \in 1 .. Len(buf) : buf'[p] = buf[p] /\ sent'[buf[p].of] = sent[buf[p].of]
        /\ Len(buf') >= Len(buf) /\ DOMAIN buf = 1 .. Len(buf)
        BY <2>1, <2>2, <2>3, BufferFacts
  <2>5. ~Jammed /\ ~Borrowed
        BY <2>2, <2>4, Grows
  <2>6. Complete' = Complete
        BY <2>1, <2>4 DEF Complete, Last, KindOf
  <2>. QED
    BY <2>1, <2>5, <2>6 DEF WaitInv, Allowed
<1>5. ASSUME NEW n \in 1 .. Len(wire), enqueue(n) PROVE WaitInv'
      BY <1>5, ReadWaits
<1>6. CASE listen
      BY <1>6, ListenWaits
<1>. QED
  BY <1>2, <1>3, <1>4, <1>5, <1>6 DEF Next, Connection

LEMMA InitWaits == Init => WaitInv
<1> SUFFICES ASSUME Init PROVE WaitInv
    OBVIOUS
<1>1. Complete = {} /\ extra = 0 /\ Allowed = 0
      BY DEF Init, Complete, Allowed
<1>. QED
  BY <1>1, FS_EmptySet DEF WaitInv

(* However many messages come and however they are cut, before a read no   *)
(* more of them wait in the buffer than have come beyond one in each read, *)
(* but behind a request that is answered with an error or a Content-Length *)
(* that is a later one's (Socket::listen, getNextPacketLength).            *)
THEOREM WaitBounded == Spec => []OnePerRead
<1>1. WaitInv => OnePerRead
      BY DEF WaitInv, OnePerRead, Allowed
<1>2. Init => OrderInv /\ WaitInv
      BY InitOrder, InitWaits
<1>3. OrderInv /\ WaitInv /\ [Next]_vars => (OrderInv /\ WaitInv)'
      BY NextKeepsOrder, NextWaits
<1>. QED
  BY <1>1, <1>2, <1>3, PTL DEF Spec

=============================================================================
