---------------------------- MODULE FramingProofs ----------------------------
(* Theorems about Framing: for any clients that send any messages in any      *)
(* pieces, and a buffer of any size.                                          *)
EXTENDS Framing, SequenceTheorems, WellFoundedInduction, TLAPS

-----------------------------------------------------------------------------
(* Units and their order                                                      *)

Numbers == [head1 |-> 1, head2 |-> 2, body |-> 3, oddity |-> 3, junk |-> 3, end |-> 4, newline |-> 5]

\* A unit's place in the stream of its client.
Place(u) == 5 * (u.message - 1) + Numbers[u.part]

\* What its client sends.
Sent(u) ==
  \E c \in DOMAIN clients : \E m \in DOMAIN clients[c] :
    \E p \in {"head1", "head2", Body(clients[c][m]), "end", "newline"} : u = Unit(c, m, p)

Less(u, v) == u.client < v.client \/ (u.client = v.client /\ Place(u) < Place(v))

\* Of two units received one after the other the second is the next of its
\* client, or the first of a later one.
Follows(u, v) ==
  \/ v.client = u.client /\ Place(v) = Place(u) + 1
  \/ v.client > u.client /\ Place(v) = 1

Ordered(s) ==
  /\ \A i \in 1..Len(s) : Sent(s[i])
  /\ \A i \in 1..Len(s) : i < Len(s) => Follows(s[i], s[i + 1])
  /\ \A i, j \in 1..Len(s) : i < j => Less(s[i], s[j])

ClientsType == clients \in Seq(Seq(Kinds))

\* What a unit can be.
LEMMA SentUnit ==
  ASSUME ClientsType, NEW u, Sent(u)
  PROVE  /\ u \in Units /\ u.client \in 1..Len(clients)
         /\ u.message \in 1..Len(clients[u.client])
         /\ u.message \in Nat /\ u.message >= 1 /\ u.client \in Nat
         /\ u.part \in {"head1", "head2", Body(clients[u.client][u.message]), "end", "newline"}
         /\ Numbers[u.part] \in 1..5
         /\ u.part = "head1" <=> Numbers[u.part] = 1
         /\ u.part = "head2" <=> Numbers[u.part] = 2
         /\ u.part \in {"body", "oddity", "junk"} <=> Numbers[u.part] = 3
         /\ u.part = "end" <=> Numbers[u.part] = 4
         /\ u.part = "newline" <=> Numbers[u.part] = 5
         /\ u.part = "body" <=> (Numbers[u.part] = 3 /\ Id(u) \in Good)
         /\ Place(u) \in Nat
         /\ u = Unit(u.client, u.message, u.part)
<1> PICK c \in DOMAIN clients : \E m \in DOMAIN clients[c] :
           \E p \in {"head1", "head2", Body(clients[c][m]), "end", "newline"} : u = Unit(c, m, p)
  BY DEF Sent
<1> PICK m \in DOMAIN clients[c] :
           \E p \in {"head1", "head2", Body(clients[c][m]), "end", "newline"} : u = Unit(c, m, p)
  OBVIOUS
<1>1. PICK p \in {"head1", "head2", Body(clients[c][m]), "end", "newline"} : u = Unit(c, m, p)
  OBVIOUS
<1>2. clients[c] \in Seq(Kinds) /\ c \in 1..Len(clients) /\ Len(clients) \in Nat
  BY DEF ClientsType
<1>3. clients[c][m] \in Kinds /\ m \in 1..Len(clients[c]) /\ Len(clients[c]) \in Nat
  BY <1>2
<1>4. u.client = c /\ u.message = m /\ u.part = p
  BY <1>1 DEF Unit
<1>5. /\ Body(clients[c][m]) \in {"body", "oddity", "junk"}
      /\ Body(clients[c][m]) = "body" <=> clients[c][m] = "good"
  BY <1>3 DEF Body, Kinds
<1>6. <<c, m>> \in Good <=> clients[c][m] = "good"
  <2>1. ASSUME clients[c][m] = "good" PROVE <<c, m>> \in Good
    BY <1>1, <2>1 DEF Good
  <2>2. ASSUME <<c, m>> \in Good PROVE clients[c][m] = "good"
    <3>1. PICK d \in DOMAIN clients : <<c, m>> \in {<<d, i>> : i \in {j \in DOMAIN clients[d] : clients[d][j] = "good"}}
      BY <2>2 DEF Good
    <3> QED BY <3>1
  <2> QED BY <2>1, <2>2
<1>7. u \in Units
  BY <1>1, <1>2, <1>3, <1>5 DEF Units, Unit
<1>8. /\ Numbers[p] \in 1..5
      /\ p = "head1" <=> Numbers[p] = 1
      /\ p = "head2" <=> Numbers[p] = 2
      /\ p \in {"body", "oddity", "junk"} <=> Numbers[p] = 3
      /\ p = "end" <=> Numbers[p] = 4
      /\ p = "newline" <=> Numbers[p] = 5
  BY <1>5 DEF Numbers
<1>9. p = "body" <=> Numbers[p] = 3 /\ Id(u) \in Good
  BY <1>4, <1>5, <1>6, <1>8 DEF Id
<1>10. Place(u) \in Nat
  BY <1>3, <1>4, <1>8 DEF Place
<1> QED BY <1>1, <1>2, <1>3, <1>4, <1>7, <1>8, <1>9, <1>10

\* The stream of a client is what it sends, in its order.
LEMMA StreamUnits ==
  ASSUME ClientsType, NEW c \in DOMAIN clients
  PROVE  /\ Stream(c) \in Seq(Units) /\ Len(Stream(c)) = 5 * Len(clients[c])
         /\ \A i \in 1..Len(Stream(c)) :
              Sent(Stream(c)[i]) /\ Stream(c)[i].client = c /\ Place(Stream(c)[i]) = i
<1> DEFINE n == Len(clients[c])
<1>1. clients[c] \in Seq(Kinds) /\ n \in Nat /\ DOMAIN clients[c] = 1..n
  BY DEF ClientsType
<1>2. DOMAIN Stream(c) = 1..(5 * n)
  BY DEF Stream
<1>3. ASSUME NEW i \in 1..(5 * n)
      PROVE  Sent(Stream(c)[i]) /\ Stream(c)[i].client = c /\ Place(Stream(c)[i]) = i
  <2> DEFINE m == ((i - 1) \div 5) + 1
             k == ((i - 1) % 5) + 1
             b == Body(clients[c][m])
  <2>1. m \in 1..n /\ k \in 1..5 /\ i = 5 * (m - 1) + k
    BY <1>1
  <2>2. Stream(c)[i] = MessageUnits(c, m, clients[c][m])[k]
    BY DEF Stream
  <2>3. b \in {"body", "oddity", "junk"}
    BY <1>1, <2>1 DEF Body, Kinds
  <2> HIDE DEF m, k
  <2>4. PICK p \in {"head1", "head2", b, "end", "newline"} : Stream(c)[i] = Unit(c, m, p) /\ Numbers[p] = k
    <3>1. CASE k = 1
      BY <2>2, <3>1 DEF MessageUnits, Numbers
    <3>2. CASE k = 2
      BY <2>2, <3>2 DEF MessageUnits, Numbers
    <3>3. CASE k = 3
      BY <2>2, <2>3, <3>3 DEF MessageUnits, Numbers
    <3>4. CASE k = 4
      BY <2>2, <3>4 DEF MessageUnits, Numbers
    <3>5. CASE k = 5
      BY <2>2, <3>5 DEF MessageUnits, Numbers
    <3> QED BY <2>1, <3>1, <3>2, <3>3, <3>4, <3>5
  <2>5. Sent(Stream(c)[i])
    BY <1>1, <2>1, <2>4 DEF Sent
  <2>6. Stream(c)[i].client = c /\ Place(Stream(c)[i]) = i
    BY <2>1, <2>4 DEF Unit, Place
  <2> QED BY <2>5, <2>6
<1>4. \A i \in 1..(5 * n) : Stream(c)[i] \in Units
  BY <1>3, SentUnit
<1>5. Stream(c) \in [1..(5 * n) -> Units]
  BY <1>2, <1>4 DEF Stream
<1>6. Stream(c) \in Seq(Units) /\ Len(Stream(c)) = 5 * n
  <2>1. 5 * n \in Nat
    BY <1>1
  <2> QED BY <1>5, <2>1
<1> QED BY <1>3, <1>6

\* What one client sends is in order, and without gaps.
LEMMA StreamOrdered ==
  ASSUME ClientsType, NEW c \in DOMAIN clients
  PROVE  Ordered(Stream(c))
<1>1. Len(Stream(c)) \in Nat
  BY StreamUnits
<1>2. \A i, j \in 1..Len(Stream(c)) : i < j => Less(Stream(c)[i], Stream(c)[j])
  BY StreamUnits DEF Less
<1>3. \A i \in 1..Len(Stream(c)) : i < Len(Stream(c)) => Follows(Stream(c)[i], Stream(c)[i + 1])
  <2>1. ASSUME NEW i \in 1..Len(Stream(c)), i < Len(Stream(c)) PROVE i + 1 \in 1..Len(Stream(c))
    BY <1>1, <2>1
  <2> QED BY <2>1, StreamUnits DEF Follows
<1> QED BY <1>2, <1>3, StreamUnits DEF Ordered

\* The parts of a message follow each other.
LEMMA PartFollows ==
  ASSUME ClientsType, NEW u, NEW v, Sent(u), Sent(v), Follows(u, v)
  PROVE  \/ /\ v.part # "head1" /\ Id(v) = Id(u)
            /\ Numbers[v.part] = Numbers[u.part] + 1
         \/ /\ v.part = "head1"
            /\ (v.client = u.client /\ u.part = "newline") \/ v.client > u.client
<1>1. /\ u.message \in Nat /\ v.message \in Nat /\ Numbers[u.part] \in 1..5 /\ Numbers[v.part] \in 1..5
      /\ v.message >= 1 /\ u.message >= 1
      /\ v.part = "head1" <=> Numbers[v.part] = 1
      /\ u.part = "newline" <=> Numbers[u.part] = 5
      /\ u.client \in Nat /\ v.client \in Nat
  BY SentUnit
<1>2. CASE v.client = u.client /\ Place(v) = Place(u) + 1
  <2>1. 5 * (v.message - 1) + Numbers[v.part] = 5 * (u.message - 1) + Numbers[u.part] + 1
    BY <1>2 DEF Place
  <2>2. \/ v.message = u.message /\ Numbers[v.part] = Numbers[u.part] + 1
        \/ v.message = u.message + 1 /\ Numbers[v.part] = 1 /\ Numbers[u.part] = 5
    BY <1>1, <2>1
  <2> QED BY <1>1, <1>2, <2>2 DEF Id
<1>3. CASE v.client > u.client /\ Place(v) = 1
  <2>1. Numbers[v.part] = 1
    BY <1>1, <1>3 DEF Place
  <2> QED BY <1>1, <1>3, <2>1
<1> QED BY <1>2, <1>3 DEF Follows

\* A piece of what is in order is in order.
LEMMA OrderedPiece ==
  ASSUME NEW s \in Seq(Units), NEW t \in Seq(Units), NEW a \in Nat, Ordered(s),
         Len(t) + a <= Len(s), \A i \in 1..Len(t) : t[i] = s[a + i]
  PROVE  Ordered(t)
<1>1. Len(s) \in Nat /\ Len(t) \in Nat
  OBVIOUS
<1>2. \A i \in 1..Len(t) : a + i \in 1..Len(s) /\ t[i] = s[a + i]
  BY <1>1
<1>3. \A i \in 1..Len(t) : Sent(t[i])
  BY <1>2 DEF Ordered
<1>4. ASSUME NEW i \in 1..Len(t), i < Len(t)
      PROVE  Follows(t[i], t[i + 1])
  <2>1. i + 1 \in 1..Len(t) /\ a + i < Len(s) /\ a + (i + 1) = (a + i) + 1
    BY <1>1, <1>4
  <2> QED BY <1>2, <2>1 DEF Ordered
<1>5. ASSUME NEW i \in 1..Len(t), NEW j \in 1..Len(t), i < j
      PROVE  Less(t[i], t[j])
  <2>1. a + i < a + j
    BY <1>5
  <2> QED BY <1>2, <2>1 DEF Ordered
<1> QED BY <1>3, <1>4, <1>5 DEF Ordered

\* What a later client sends goes behind what there is.
LEMMA OrderedBehind ==
  ASSUME ClientsType, NEW s \in Seq(Units), Ordered(s), NEW c \in DOMAIN clients,
         \A i \in 1..Len(s) : s[i].client < c
  PROVE  Ordered(s \o Stream(c))
<1> DEFINE t == Stream(c)
           n == Len(s)
           f == s \o t
<1>1. /\ t \in Seq(Units) /\ Ordered(t)
      /\ \A i \in 1..Len(t) : t[i].client = c /\ Place(t[i]) = i
  BY StreamUnits, StreamOrdered
<1> HIDE DEF t
<1>2. /\ f \in Seq(Units) /\ Len(f) = n + Len(t) /\ n \in Nat /\ Len(t) \in Nat
      /\ \A i \in 1..n : f[i] = s[i]
      /\ \A i \in 1..Len(f) : i > n => i - n \in 1..Len(t) /\ f[i] = t[i - n]
  BY <1>1
<1> HIDE DEF f, n
<1>3. ASSUME NEW i \in 1..Len(f)
      PROVE  \/ i \in 1..n /\ f[i] = s[i]
             \/ i > n /\ i - n \in 1..Len(t) /\ f[i] = t[i - n]
  BY <1>2
<1>4. \A i \in 1..Len(f) : Sent(f[i])
  BY <1>1, <1>3 DEF Ordered, n
<1>5. ASSUME NEW i \in 1..Len(f), i < Len(f)
      PROVE  Follows(f[i], f[i + 1])
  <2>1. i \in Nat /\ i + 1 \in 1..Len(f)
    BY <1>2, <1>5
  <2>2. CASE i < n
    BY <1>2, <2>1, <2>2 DEF Ordered, n
  <2>3. CASE i = n
    <3>1. f[i] = s[n] /\ n \in 1..Len(s) /\ f[i + 1] = t[1] /\ 1 \in 1..Len(t)
      BY <1>2, <2>1, <2>3 DEF n
    <3>2. s[n].client < c /\ t[1].client = c /\ Place(t[1]) = 1
      BY <1>1, <3>1
    <3> QED BY <3>1, <3>2 DEF Follows
  <2>4. CASE i > n
    <3>1. f[i] = t[i - n] /\ f[i + 1] = t[(i - n) + 1] /\ i - n \in 1..Len(t) /\ i - n < Len(t)
      BY <1>2, <1>5, <2>1, <2>4
    <3> QED BY <1>1, <3>1 DEF Ordered
  <2> QED BY <1>2, <2>1, <2>2, <2>3, <2>4
<1>6. ASSUME NEW i \in 1..Len(f), NEW j \in 1..Len(f), i < j
      PROVE  Less(f[i], f[j])
  <2>1. CASE j <= n
    <3>1. i \in 1..n /\ j \in 1..n
      BY <1>2, <1>6, <2>1
    <3> QED BY <1>2, <1>6, <3>1 DEF Ordered, n
  <2>2. CASE i > n
    <3>1. i - n \in 1..Len(t) /\ j - n \in 1..Len(t) /\ i - n < j - n /\ f[i] = t[i - n] /\ f[j] = t[j - n]
      BY <1>2, <1>6, <2>2
    <3> QED BY <1>1, <3>1 DEF Ordered
  <2>3. CASE i <= n /\ j > n
    <3>1. f[i] = s[i] /\ i \in 1..n /\ f[j] = t[j - n] /\ j - n \in 1..Len(t)
      BY <1>2, <2>3
    <3>2. f[i].client < c /\ f[j].client = c
      BY <1>1, <3>1 DEF n
    <3> QED BY <3>2 DEF Less
  <2> QED BY <1>2, <2>1, <2>2, <2>3
<1>7. Ordered(f)
  BY <1>4, <1>5, <1>6 DEF Ordered
<1> QED BY <1>7 DEF f, t

-----------------------------------------------------------------------------
(* What a pass makes of the buffer                                            *)

\* A set of numbers that is not empty has a least one.
LEMMA Least ==
  ASSUME NEW S, S \subseteq Nat, S # {}
  PROVE  Min(S) \in S /\ \A n \in S : Min(S) <= n
<1>1. PICK x \in S : \A y \in S : ~(<<y, x>> \in OpToRel(<, Nat))
  BY NatLessThanWellFounded, WFMin
<1>2. \A y \in S : ~(y < x)
  BY <1>1 DEF OpToRel
<1>3. \A y \in S : x <= y
  BY <1>2
<1> QED BY <1>3 DEF Min

\* The candidate goes from the first header to the next one, or to the end.
Candidate(units, first, end) == SubSeq(units, first, end)
Rest(units, end) == SubSeq(units, end + 1, Len(units))

FirstAndEnd(units, first, end) ==
  /\ first \in Headers(units) /\ end \in Nat /\ first <= end /\ end <= Len(units)
  /\ \A h \in Headers(units) : first <= h /\ (h > first => h > end)
  /\ end < Len(units) => end + 1 \in Headers(units)

\* What a pass makes of the buffer: of the first header up to the next one, or
\* of nothing.
LEMMA SplitParts ==
  ASSUME NEW units \in Seq(Units)
  PROVE  \/ Headers(units) = {} /\ Split(units) = Frame(Nothing, units)
         \/ \E first, end \in Nat :
              LET candidate == Candidate(units, first, end)
              IN /\ FirstAndEnd(units, first, end)
                 /\ Split(units) =
                      IF CheckXml(candidate)
                      THEN Frame(IF ParseXml(candidate) THEN candidate ELSE Nothing, Rest(units, end))
                      ELSE Frame(Nothing, IF end = Len(units) THEN units ELSE Rest(units, end))
<1> DEFINE first == Min(Headers(units))
           later == Headers(units) \ {first}
           end == IF later = {} THEN Len(units) ELSE Min(later) - 1
           candidate == SubSeq(units, first, end)
           rest == SubSeq(units, end + 1, Len(units))
           split ==
             CASE Headers(units) = {} -> Frame(Nothing, units)
               [] Headers(units) # {} /\ ~CheckXml(candidate) ->
                    Frame(Nothing, IF later = {} THEN units ELSE rest)
               [] OTHER ->
                    Frame(IF ParseXml(candidate) THEN candidate ELSE Nothing, rest)
<1>1. Split(units) = split
  BY DEF Split
<1>2. CASE Headers(units) = {}
  <2> HIDE DEF first, later, end, candidate, rest
  <2>1. split = Frame(Nothing, units)
    BY <1>2
  <2> QED BY <1>1, <1>2, <2>1
<1>3. CASE Headers(units) # {}
  <2>1. Len(units) \in Nat /\ Headers(units) \subseteq 1..Len(units)
    BY DEF Headers
  <2>2. \A h \in Headers(units) : h \in Nat /\ h >= 1 /\ h <= Len(units)
    BY <2>1
  <2>3. first \in Headers(units) /\ \A h \in Headers(units) : first <= h
    BY <1>3, <2>2, Least
  <2>4. later # {} => Min(later) \in later /\ \A h \in later : Min(later) <= h
    BY <2>2, Least
  <2> HIDE DEF first
  <2>5. first \in Nat /\ first >= 1
    BY <2>2, <2>3
  <2>6. \A h \in later : h \in Nat /\ h > first /\ h <= Len(units)
    BY <2>2, <2>3, <2>5
  <2>7. FirstAndEnd(units, first, end) /\ (later = {} <=> end = Len(units))
    <3>1. CASE later = {}
      <4>1. end = Len(units)
        BY <3>1
      <4>2. \A h \in Headers(units) : h = first
        BY <3>1
      <4> QED BY <2>1, <2>2, <2>3, <3>1, <4>1, <4>2 DEF FirstAndEnd
    <3>2. CASE later # {}
      <4>1. end = Min(later) - 1 /\ Min(later) \in Nat /\ Min(later) > first /\ Min(later) <= Len(units)
        BY <2>4, <2>6, <3>2
      <4>2. end \in Nat /\ first <= end /\ end < Len(units) /\ end + 1 = Min(later)
        BY <2>1, <2>5, <4>1
      <4>3. \A h \in Headers(units) : first <= h /\ (h > first => h \in later)
        BY <2>3, <2>5
      <4>4. end + 1 \in Headers(units)
        BY <2>4, <3>2, <4>2
      <4> HIDE DEF later, end
      <4>5. \A h \in later : h > end
        BY <2>4, <2>6, <3>2, <4>2
      <4> QED BY <2>1, <2>3, <3>2, <4>2, <4>3, <4>4, <4>5 DEF FirstAndEnd
    <3> QED BY <3>1, <3>2
  <2>8. end \in Nat
    BY <2>7 DEF FirstAndEnd
  <2>9. candidate = Candidate(units, first, end) /\ rest = Rest(units, end)
    BY DEF Candidate, Rest
  <2> HIDE DEF later, end, candidate, rest
  <2>10. split = IF CheckXml(candidate)
                 THEN Frame(IF ParseXml(candidate) THEN candidate ELSE Nothing, rest)
                 ELSE Frame(Nothing, IF end = Len(units) THEN units ELSE rest)
    BY <1>3, <2>7
  <2> HIDE DEF split
  <2> QED BY <1>1, <2>5, <2>7, <2>8, <2>9, <2>10
<1> QED BY <1>2, <1>3

\* What check_xml takes for one document.
LEMMA Checked ==
  ASSUME NEW s \in Seq(Units)
  PROVE  CheckXml(s) <=>
           /\ Len(s) \in {4, 5}
           /\ s[1].part = "head1" /\ s[2].part = "head2" /\ s[3].part \in {"body", "oddity"}
           /\ s[4].part = "end" /\ (Len(s) = 5 => s[5].part = "newline")
<1> DEFINE T == {"head1", "head2", "body", "oddity", "junk", "end", "newline"}
           p == Parts(s)
           whole(body) == <<"head1", "head2", body, "end", "newline">>
           Matches(body) ==
             /\ Len(s) \in {4, 5}
             /\ s[1].part = "head1" /\ s[2].part = "head2" /\ s[3].part = body
             /\ s[4].part = "end" /\ (Len(s) = 5 => s[5].part = "newline")
<1>1. Len(s) \in Nat /\ DOMAIN p = 1..Len(s) /\ \A i \in 1..Len(s) : p[i] = s[i].part /\ p[i] \in T
  <2>1. \A i \in 1..Len(s) : s[i] \in Units
    BY ElementOfSeq
  <2>2. \A u \in Units : u.part \in T
    BY DEF Units
  <2> HIDE DEF T
  <2> QED BY <2>1, <2>2 DEF Parts
<1>2. p \in [1..Len(s) -> T]
  BY <1>1 DEF Parts
<1>3. p \in Seq(T) /\ Len(p) = Len(s)
  BY <1>1, <1>2
<1>4. ASSUME NEW body \in {"body", "oddity"}
      PROVE  IsPrefix(p, whole(body)) /\ Len(s) >= 4 <=> Matches(body)
  <2> DEFINE w == whole(body)
  <2>1. /\ w \in Seq(T) /\ Len(w) = 5
        /\ w[1] = "head1" /\ w[2] = "head2" /\ w[3] = body /\ w[4] = "end" /\ w[5] = "newline"
    OBVIOUS
  <2> HIDE DEF w, p
  <2>2. Len(p) <= 5 => (SubSeq(p, 1, Len(p)) = SubSeq(w, 1, Len(p)) <=> \A i \in 1..Len(p) : p[i] = w[i])
    <3> SUFFICES ASSUME Len(p) <= 5
                 PROVE  SubSeq(p, 1, Len(p)) = SubSeq(w, 1, Len(p)) <=> \A i \in 1..Len(p) : p[i] = w[i]
      OBVIOUS
    <3> DEFINE a == SubSeq(p, 1, Len(p))
               b == SubSeq(w, 1, Len(p))
    <3>1. a \in Seq(T) /\ Len(a) = Len(p) /\ \A i \in 1..Len(p) : a[i] = p[i]
      BY <1>3
    <3>2. b \in Seq(T) /\ Len(b) = Len(p) /\ \A i \in 1..Len(p) : b[i] = w[i]
      BY <1>3, <2>1
    <3> HIDE DEF a, b
    <3>3. (\A i \in 1..Len(p) : p[i] = w[i]) => a = b
      BY <3>1, <3>2, SeqEqual
    <3> QED BY <3>1, <3>2, <3>3 DEF a, b
  <2>3. IsPrefix(p, w) <=> Len(p) <= 5 /\ \A i \in 1..Len(p) : p[i] = w[i]
    BY <2>1, <2>2 DEF IsPrefix
  <2>4. IsPrefix(p, w) /\ Len(s) >= 4 <=> Matches(body)
    <3>1. (Len(s) >= 4 /\ Len(s) <= 5) <=> Len(s) \in {4, 5}
      <4>1. \A n \in Nat : (n >= 4 /\ n <= 5) <=> n \in {4, 5}
        OBVIOUS
      <4>2. Len(s) \in Nat
        BY <1>1
      <4> QED BY <4>1, <4>2, Zenon
    <3>2. CASE Len(s) = 4
      BY <1>1, <1>3, <2>1, <2>3, <3>2
    <3>3. CASE Len(s) = 5
      BY <1>1, <1>3, <2>1, <2>3, <3>3
    <3>4. CASE Len(s) \notin {4, 5}
      BY <1>3, <2>3, <3>1, <3>4
    <3> QED BY <3>2, <3>3, <3>4
  <2> QED BY <2>4 DEF w
<1> HIDE DEF Matches
<1>5. CheckXml(s) <=> \E body \in {"body", "oddity"} : Matches(body)
  BY <1>4 DEF CheckXml
<1> QED BY <1>5 DEF Matches

-----------------------------------------------------------------------------
(* Messages in what is in order                                               *)

\* A unit that comes after a header's is of a later message or of this one.
LEMMA LessId ==
  ASSUME ClientsType, NEW u, NEW v, Sent(u), Sent(v), Less(u, v)
  PROVE  /\ ~Before(Id(v), Id(u))
         /\ Before(Id(u), Id(v)) \/ Id(v) = Id(u)
         /\ Id(v) = Id(u) => v.part # "head1"
<1>1. /\ u.message \in Nat /\ v.message \in Nat /\ Numbers[u.part] \in 1..5 /\ Numbers[v.part] \in 1..5
      /\ v.part = "head1" <=> Numbers[v.part] = 1
      /\ u.client \in Nat /\ v.client \in Nat
  BY SentUnit
<1>2. CASE u.client < v.client
  BY <1>1, <1>2 DEF Before, Id
<1>3. CASE u.client = v.client /\ Place(u) < Place(v)
  <2>1. 5 * (u.message - 1) + Numbers[u.part] < 5 * (v.message - 1) + Numbers[v.part]
    BY <1>3 DEF Place
  <2>2. \/ u.message < v.message
        \/ u.message = v.message /\ Numbers[v.part] # 1
    BY <1>1, <2>1
  <2> QED BY <1>1, <1>3, <2>2 DEF Before, Id
<1> QED BY <1>2, <1>3 DEF Less

\* The units of a piece.
LEMMA PieceIds ==
  ASSUME NEW s \in Seq(Units), NEW a \in 1..Len(s), NEW b \in 1..Len(s), a <= b
  PROVE  /\ SubSeq(s, a, b) \in Seq(Units) /\ Len(SubSeq(s, a, b)) = b - a + 1
         /\ \A i \in 1..(b - a + 1) : SubSeq(s, a, b)[i] = s[a + i - 1]
         /\ Ids(SubSeq(s, a, b)) = {Id(s[i]) : i \in a..b}
<1> DEFINE t == SubSeq(s, a, b)
<1>1. /\ t \in Seq(Units) /\ Len(t) = b - a + 1
      /\ \A i \in 1..(b - a + 1) : t[i] = s[a + i - 1]
  OBVIOUS
<1>2. DOMAIN t = 1..(b - a + 1)
  BY <1>1
<1> HIDE DEF t
<1>3. Ids(t) = {Id(t[i]) : i \in DOMAIN t}
  BY DEF Ids, Range
<1>4. ASSUME NEW i \in DOMAIN t PROVE Id(t[i]) \in {Id(s[k]) : k \in a..b}
  <2>1. a + i - 1 \in a..b /\ t[i] = s[a + i - 1]
    BY <1>1, <1>2
  <2> QED BY <2>1
<1>5. ASSUME NEW k \in a..b PROVE Id(s[k]) \in {Id(t[i]) : i \in DOMAIN t}
  <2>1. k - a + 1 \in DOMAIN t /\ t[k - a + 1] = s[k]
    BY <1>1, <1>2
  <2> QED BY <2>1
<1>6. Ids(t) = {Id(s[i]) : i \in a..b}
  BY <1>3, <1>4, <1>5
<1> QED BY <1>1, <1>6 DEF t

\* Where a message is whole, its first four parts are there one by one.
LEMMA WholeAt ==
  ASSUME ClientsType, NEW s \in Seq(Units), Ordered(s), NEW id \in Good, NEW i \in Headers(s),
         i + 3 \in DOMAIN s, Ids(SubSeq(s, i, i + 3)) = {id}
  PROVE  /\ i \in Nat /\ i >= 1 /\ i + 3 <= Len(s)
         /\ Id(s[i]) = id /\ Id(s[i + 1]) = id /\ Id(s[i + 2]) = id /\ Id(s[i + 3]) = id
         /\ s[i].part = "head1" /\ s[i + 1].part = "head2" /\ s[i + 2].part = "body" /\ s[i + 3].part = "end"
<1>1. i \in 1..Len(s) /\ i + 1 \in 1..Len(s) /\ i + 2 \in 1..Len(s) /\ i + 3 \in 1..Len(s) /\ Len(s) \in Nat
  BY DEF Headers
<1>2. Ids(SubSeq(s, i, i + 3)) = {Id(s[k]) : k \in i..(i + 3)}
  BY <1>1, PieceIds
<1>3. \A k \in i..(i + 3) : Id(s[k]) = id
  BY <1>2
<1>4. Id(s[i]) = id /\ Id(s[i + 1]) = id /\ Id(s[i + 2]) = id /\ Id(s[i + 3]) = id
  <2>1. {i, i + 1, i + 2, i + 3} \subseteq i..(i + 3)
    BY <1>1
  <2> QED BY <1>3, <2>1
<1>5. s[i].part = "head1" /\ s[i + 1].part = "head2"
  BY DEF Headers, IsHeader
<1>6. Sent(s[i + 1]) /\ Sent(s[i + 2]) /\ Sent(s[i + 3])
  BY <1>1 DEF Ordered
<1>7. Follows(s[i + 1], s[i + 2]) /\ Follows(s[i + 2], s[i + 3])
  <2>1. i + 1 < Len(s) /\ i + 2 < Len(s) /\ (i + 1) + 1 = i + 2 /\ (i + 2) + 1 = i + 3
    BY <1>1
  <2> QED BY <1>1, <2>1 DEF Ordered
<1>8. Less(s[i + 1], s[i + 2]) /\ Less(s[i + 2], s[i + 3])
  BY <1>1 DEF Ordered
<1>9. s[i + 2].part # "head1" /\ s[i + 3].part # "head1"
  BY <1>4, <1>6, <1>8, LessId
<1>10. Numbers[s[i + 1].part] = 2
  BY <1>5 DEF Numbers
<1>11. Numbers[s[i + 2].part] = 3
  BY <1>6, <1>7, <1>9, <1>10, PartFollows
<1>12. Numbers[s[i + 3].part] = 4
  BY <1>6, <1>7, <1>9, <1>11, PartFollows
<1>13. s[i + 2].part = "body" /\ s[i + 3].part = "end"
  BY <1>4, <1>6, <1>11, <1>12, SentUnit
<1> QED BY <1>1, <1>4, <1>5, <1>13

\* The other way round: a message's end is not received without what comes
\* before it.
LEMMA EndIsWhole ==
  ASSUME ClientsType, NEW s \in Seq(Units), Ordered(s), NEW k \in 1..Len(s),
         s[1].part \in {"head1", "newline"}, s[k].part = "end", Id(s[k]) \in Good
  PROVE  WholeIn(s, Id(s[k]))
<1>1. /\ Len(s) \in Nat /\ k \in Nat /\ k >= 1
      /\ \A i \in 1..Len(s) : Sent(s[i])
      /\ \A i \in 1..Len(s) : i < Len(s) => Follows(s[i], s[i + 1])
  BY DEF Ordered
<1>2. ASSUME NEW i \in 1..k, Numbers[s[i].part] \in {2, 3, 4}
      PROVE  /\ i - 1 \in 1..k /\ Id(s[i - 1]) = Id(s[i])
             /\ Numbers[s[i - 1].part] + 1 = Numbers[s[i].part]
  <2>1. i # 1
    BY <1>2 DEF Numbers
  <2>2. i - 1 \in 1..Len(s) /\ i - 1 < Len(s) /\ (i - 1) + 1 = i /\ i - 1 \in 1..k /\ i \in 1..Len(s)
    BY <1>1, <2>1
  <2>3. Follows(s[i - 1], s[i]) /\ Sent(s[i - 1]) /\ Sent(s[i])
    BY <1>1, <2>2
  <2>4. s[i].part # "head1"
    BY <1>2, <2>3, SentUnit
  <2>5. Numbers[s[i].part] = Numbers[s[i - 1].part] + 1 /\ Id(s[i]) = Id(s[i - 1])
    BY <2>3, <2>4, PartFollows
  <2> QED BY <2>2, <2>5
<1>3. Numbers[s[k].part] = 4
  BY DEF Numbers
<1>4. k - 1 \in 1..k /\ Id(s[k - 1]) = Id(s[k]) /\ Numbers[s[k - 1].part] = 3
  <2>1. Numbers[s[k - 1].part] + 1 = 4 /\ k - 1 \in 1..k /\ Id(s[k - 1]) = Id(s[k])
    BY <1>1, <1>2, <1>3
  <2>2. Numbers[s[k - 1].part] \in 1..5
    BY <1>1, <2>1, SentUnit
  <2> QED BY <2>1, <2>2
<1>5. k - 2 \in 1..k /\ Id(s[k - 2]) = Id(s[k]) /\ Numbers[s[k - 2].part] = 2
  <2>1. (k - 1) - 1 = k - 2
    BY <1>1
  <2>2. Numbers[s[k - 2].part] + 1 = 3 /\ k - 2 \in 1..k /\ Id(s[k - 2]) = Id(s[k])
    BY <1>1, <1>2, <1>4, <2>1
  <2>3. Numbers[s[k - 2].part] \in 1..5
    BY <1>1, <2>2, SentUnit
  <2> QED BY <2>2, <2>3
<1>6. k - 3 \in 1..k /\ Id(s[k - 3]) = Id(s[k]) /\ Numbers[s[k - 3].part] = 1
  <2>1. (k - 2) - 1 = k - 3
    BY <1>1
  <2>2. Numbers[s[k - 3].part] + 1 = 2 /\ k - 3 \in 1..k /\ Id(s[k - 3]) = Id(s[k])
    BY <1>1, <1>2, <1>5, <2>1
  <2>3. Numbers[s[k - 3].part] \in 1..5
    BY <1>1, <2>2, SentUnit
  <2> QED BY <2>2, <2>3
<1>7. s[k - 3].part = "head1" /\ s[k - 2].part = "head2"
  BY <1>1, <1>5, <1>6, SentUnit
<1>8. k - 3 \in Headers(s) /\ (k - 3) + 3 \in DOMAIN s
  <2>1. k - 3 \in 1..Len(s) /\ (k - 3) + 1 = k - 2 /\ k - 2 \in 1..Len(s) /\ (k - 3) + 3 = k
    BY <1>1, <1>5, <1>6
  <2> QED BY <1>7, <2>1 DEF Headers, IsHeader
<1>9. Ids(SubSeq(s, k - 3, (k - 3) + 3)) = {Id(s[k])}
  <2>1. Ids(SubSeq(s, k - 3, (k - 3) + 3)) = {Id(s[i]) : i \in (k - 3)..((k - 3) + 3)}
    BY <1>1, <1>6, PieceIds
  <2>2. \A i \in (k - 3)..((k - 3) + 3) : i \in {k - 3, k - 2, k - 1, k}
    BY <1>1
  <2>3. \A i \in (k - 3)..((k - 3) + 3) : Id(s[i]) = Id(s[k])
    BY <1>4, <1>5, <1>6, <2>2
  <2>4. k \in (k - 3)..((k - 3) + 3)
    BY <1>1
  <2> QED BY <2>1, <2>3, <2>4
<1> QED BY <1>8, <1>9 DEF WholeIn

\* A pass drops the units up to some point, and goes on with a header unless
\* it drops them all, which it does behind the end of a message.  What it
\* hands to the main loop is one good message as it was sent.
FirstOf(message, units, first) ==
  /\ message \in Seq(Units) /\ Len(message) >= 4
  /\ message[1] = units[first] /\ units[first].part = "head1"
  /\ Id(units[first]) \in Good /\ Ids(message) = {Id(units[first])}

\* A pass leaves the end of the buffer, cut before a message or after one, and a
\* message it hands over is one that was sent, and is cut off.
LEMMA PassResult ==
  ASSUME ClientsType, NEW units \in Seq(Units), Ordered(units)
  PROVE  \E a \in 0..Len(units) :
           /\ Split(units).rest = SubSeq(units, a + 1, Len(units))
           /\ a > 0 => \/ a = Len(units) /\ units[a].part \in {"end", "newline"}
                       \/ a < Len(units) /\ units[a + 1].part = "head1"
           /\ Split(units).message # Nothing =>
                \E first \in 1..a : FirstOf(Split(units).message, units, first)
<1> DEFINE Goal(a) ==
      /\ Split(units).rest = SubSeq(units, a + 1, Len(units))
      /\ a > 0 => \/ a = Len(units) /\ units[a].part \in {"end", "newline"}
                  \/ a < Len(units) /\ units[a + 1].part = "head1"
      /\ Split(units).message # Nothing =>
           \E first \in 1..a : FirstOf(Split(units).message, units, first)
<1> SUFFICES \E a \in 0..Len(units) : Goal(a)
  OBVIOUS
<1>0. Len(units) \in Nat /\ 0 \in 0..Len(units) /\ SubSeq(units, 0 + 1, Len(units)) = units
  OBVIOUS
<1>1. ASSUME Split(units) = Frame(Nothing, units)
      PROVE  Goal(0)
  BY <1>0, <1>1 DEF Frame
<1> HIDE DEF Goal
<1>2. CASE Headers(units) = {} /\ Split(units) = Frame(Nothing, units)
  BY <1>0, <1>1, <1>2
<1>3. ASSUME NEW first \in Nat, NEW end \in Nat, FirstAndEnd(units, first, end),
             Split(units) =
               IF CheckXml(Candidate(units, first, end))
               THEN Frame(IF ParseXml(Candidate(units, first, end)) THEN Candidate(units, first, end) ELSE Nothing,
                          Rest(units, end))
               ELSE Frame(Nothing, IF end = Len(units) THEN units ELSE Rest(units, end))
      PROVE  \E a \in 0..Len(units) : Goal(a)
  <2> DEFINE candidate == Candidate(units, first, end)
  <2>1. /\ first \in 1..Len(units) /\ end \in 1..Len(units) /\ first <= end
        /\ units[first].part = "head1"
    <3>1. first \in Headers(units) /\ end \in Nat /\ first <= end /\ end <= Len(units)
      BY <1>3 DEF FirstAndEnd
    <3>2. first \in 1..Len(units) /\ units[first].part = "head1"
      BY <3>1 DEF Headers, IsHeader
    <3> QED BY <1>0, <3>1, <3>2
  <2>2. /\ candidate \in Seq(Units) /\ Len(candidate) = end - first + 1
        /\ \A i \in 1..(end - first + 1) : candidate[i] = units[first + i - 1]
    BY <2>1, PieceIds DEF Candidate
  <2>3. end < Len(units) => units[end + 1].part = "head1"
    BY <1>3 DEF FirstAndEnd, Headers, IsHeader
  <2> HIDE DEF candidate
  <2>4. CASE ~CheckXml(candidate) /\ end = Len(units)
    <3>1. Split(units) = Frame(Nothing, units)
      BY <1>3, <2>4 DEF candidate
    <3> QED BY <1>0, <1>1, <3>1
  <2>5. CASE ~CheckXml(candidate) /\ end # Len(units)
    <3>1. Split(units) = Frame(Nothing, Rest(units, end))
      BY <1>3, <2>5 DEF candidate
    <3>2. Split(units).message = Nothing /\ Split(units).rest = SubSeq(units, end + 1, Len(units))
      BY <3>1 DEF Frame, Rest
    <3>3. end < Len(units) /\ end \in 0..Len(units)
      BY <1>0, <2>1, <2>5
    <3>4. Goal(end)
      BY <2>3, <3>2, <3>3 DEF Goal
    <3> QED BY <3>3, <3>4
  <2>6. CASE CheckXml(candidate)
    <3>1. /\ Split(units).rest = SubSeq(units, end + 1, Len(units))
          /\ Split(units).message = IF ParseXml(candidate) THEN candidate ELSE Nothing
      BY <1>3, <2>6 DEF Frame, Rest, candidate
    <3>2. /\ Len(candidate) \in {4, 5}
          /\ candidate[2].part = "head2" /\ candidate[3].part \in {"body", "oddity"}
          /\ candidate[4].part = "end" /\ (Len(candidate) = 5 => candidate[5].part = "newline")
      BY <2>2, <2>6, Checked
    <3>3. units[end].part \in {"end", "newline"}
      <4>1. candidate[Len(candidate)] = units[end]
        BY <2>1, <2>2
      <4> QED BY <3>2, <4>1
    <3>4. /\ end = first + 3 \/ end = first + 4
          /\ candidate[1] = units[first] /\ candidate[2] = units[first + 1]
          /\ candidate[3] = units[first + 2] /\ candidate[4] = units[first + 3]
          /\ end = first + 4 => candidate[5] = units[first + 4]
      BY <2>1, <2>2, <3>2
    <3>5. ASSUME ParseXml(candidate)
          PROVE  FirstOf(candidate, units, first)
      <4>1. ASSUME NEW k \in first..end, k < end, units[k + 1].part # "head1"
            PROVE  Id(units[k + 1]) = Id(units[k])
        <5>1. k \in 1..Len(units) /\ k + 1 \in 1..Len(units) /\ k < Len(units)
          BY <1>0, <2>1, <4>1
        <5>2. Sent(units[k]) /\ Sent(units[k + 1]) /\ Follows(units[k], units[k + 1])
          BY <5>1 DEF Ordered
        <5> QED BY <4>1, <5>2, PartFollows
      <4>2. Id(units[first + 1]) = Id(units[first])
        BY <2>1, <3>2, <3>4, <4>1
      <4>3. Id(units[first + 2]) = Id(units[first])
        <5>1. first + 1 \in first..end /\ first + 1 < end /\ (first + 1) + 1 = first + 2
          BY <2>1, <3>4
        <5> QED BY <3>2, <3>4, <4>1, <4>2, <5>1
      <4>4. Id(units[first + 3]) = Id(units[first])
        <5>1. first + 2 \in first..end /\ first + 2 < end /\ (first + 2) + 1 = first + 3
          BY <2>1, <3>4
        <5> QED BY <3>2, <3>4, <4>1, <4>3, <5>1
      <4>5. end = first + 4 => Id(units[first + 4]) = Id(units[first])
        <5>1. ASSUME end = first + 4
              PROVE  first + 3 \in first..end /\ first + 3 < end /\ (first + 3) + 1 = first + 4 /\ Len(candidate) = 5
          BY <2>1, <2>2, <5>1
        <5> QED BY <3>2, <3>4, <4>1, <4>4, <5>1
      <4>6. \A k \in first..end : Id(units[k]) = Id(units[first])
        <5>1. \A k \in first..end : k \in {first, first + 1, first + 2, first + 3} \/ (k = first + 4 /\ end = first + 4)
          BY <2>1, <3>4
        <5> QED BY <4>2, <4>3, <4>4, <4>5, <5>1
      <4>7. Ids(candidate) = {Id(units[first])}
        <5>1. Ids(candidate) = {Id(units[k]) : k \in first..end} /\ first \in first..end
          BY <2>1, PieceIds DEF candidate, Candidate
        <5> QED BY <4>6, <5>1
      <4>8. Id(units[first + 2]) \in Good
        <5>1. first + 2 \in 1..Len(units)
          BY <1>0, <2>1, <3>4
        <5>2. Sent(units[first + 2]) /\ units[first + 2].part = "body"
          BY <3>4, <3>5, <5>1 DEF Ordered, ParseXml
        <5> QED BY <5>2, SentUnit
      <4> QED BY <2>1, <2>2, <3>2, <3>4, <4>3, <4>7, <4>8 DEF FirstOf
    <3>6. Split(units).message # Nothing => \E f \in 1..end : FirstOf(Split(units).message, units, f)
      <4>1. first \in 1..end
        BY <2>1
      <4> QED BY <3>1, <3>5, <4>1
    <3>7. end \in 0..Len(units) /\ (end = Len(units) \/ end < Len(units))
      <4>1. Len(units) \in Nat
        BY <1>0
      <4>2. end \in 1..Len(units)
        BY <2>1
      <4> QED BY <4>1, <4>2
    <3>8. Goal(end)
      <4>1. \/ end = Len(units) /\ units[end].part \in {"end", "newline"}
            \/ end < Len(units) /\ units[end + 1].part = "head1"
        BY <2>3, <3>3, <3>7
      <4> QED BY <3>1, <3>6, <4>1, Zenon DEF Goal
    <3> QED BY <3>7, <3>8
  <2> QED BY <2>4, <2>5, <2>6
<1>4. CASE \E first, end \in Nat :
              LET candidate == Candidate(units, first, end)
              IN /\ FirstAndEnd(units, first, end)
                 /\ Split(units) =
                      IF CheckXml(candidate)
                      THEN Frame(IF ParseXml(candidate) THEN candidate ELSE Nothing, Rest(units, end))
                      ELSE Frame(Nothing, IF end = Len(units) THEN units ELSE Rest(units, end))
  BY <1>3, <1>4
<1> QED BY <1>2, <1>4, SplitParts

\* The one way in which a pass loses a message that is whole in the buffer:
\* what follows it is half a header, and then a later client.
CutAt(units, id, j) ==
  /\ units[j].part = "head1" /\ Before(id, Id(units[j]))
  /\ units[j + 1].client > units[j].client
  /\ \A k \in 1..Len(units) : ~(Before(id, Id(units[k])) /\ Before(Id(units[k]), Id(units[j])))

\* A whole message that a pass does not keep it hands over, unless a header that
\* was cut stands behind it.
LEMMA PassLoses ==
  ASSUME ClientsType, NEW units \in Seq(Units), Ordered(units), NEW id \in Good, WholeIn(units, id)
  PROVE  \/ WholeIn(Split(units).rest, id)
         \/ Split(units).message # Nothing /\ Ids(Split(units).message) = {id}
         \/ \E j \in 1..Len(units) : j < Len(units) /\ CutAt(units, id, j)
<1> DEFINE Goal ==
      \/ WholeIn(Split(units).rest, id)
      \/ Split(units).message # Nothing /\ Ids(Split(units).message) = {id}
      \/ \E j \in 1..Len(units) : j < Len(units) /\ CutAt(units, id, j)
<1> SUFFICES Goal
  OBVIOUS
<1>0. Len(units) \in Nat
  OBVIOUS
<1>1. PICK i \in Headers(units) : i + 3 \in DOMAIN units /\ Ids(SubSeq(units, i, i + 3)) = {id}
  BY DEF WholeIn
<1>2. /\ i \in Nat /\ i >= 1 /\ i + 3 <= Len(units)
      /\ Id(units[i]) = id /\ Id(units[i + 1]) = id /\ Id(units[i + 2]) = id /\ Id(units[i + 3]) = id
      /\ units[i].part = "head1" /\ units[i + 1].part = "head2"
      /\ units[i + 2].part = "body" /\ units[i + 3].part = "end"
  BY <1>1, WholeAt
<1>3. PICK first \in Nat : \E end \in Nat :
        LET candidate == Candidate(units, first, end)
        IN /\ FirstAndEnd(units, first, end)
           /\ Split(units) =
                IF CheckXml(candidate)
                THEN Frame(IF ParseXml(candidate) THEN candidate ELSE Nothing, Rest(units, end))
                ELSE Frame(Nothing, IF end = Len(units) THEN units ELSE Rest(units, end))
  BY <1>1, SplitParts
<1>4. PICK end \in Nat :
        /\ FirstAndEnd(units, first, end)
        /\ Split(units) =
             IF CheckXml(Candidate(units, first, end))
             THEN Frame(IF ParseXml(Candidate(units, first, end)) THEN Candidate(units, first, end) ELSE Nothing,
                        Rest(units, end))
             ELSE Frame(Nothing, IF end = Len(units) THEN units ELSE Rest(units, end))
  BY <1>3
<1> DEFINE candidate == Candidate(units, first, end)
<1>5. /\ first \in 1..Len(units) /\ end \in 1..Len(units) /\ first <= end /\ first <= i
      /\ i > first => i > end
  BY <1>0, <1>1, <1>4 DEF FirstAndEnd, Headers
<1>6. /\ candidate \in Seq(Units) /\ Len(candidate) = end - first + 1
      /\ \A k \in 1..(end - first + 1) : candidate[k] = units[first + k - 1]
  BY <1>5, PieceIds DEF Candidate
<1>7. Split(units).rest = units => WholeIn(Split(units).rest, id)
  OBVIOUS
<1>8. Split(units).rest = IF ~CheckXml(candidate) /\ end = Len(units) THEN units ELSE Rest(units, end)
  BY <1>4 DEF Frame
<1> HIDE DEF candidate
<1>9. CASE i > first
  <2>1. i > end
    BY <1>5, <1>9
  <2> DEFINE r == Rest(units, end)
             h == i - end
  <2>2. r \in Seq(Units) /\ Len(r) = Len(units) - end /\ \A k \in 1..Len(r) : r[k] = units[end + k]
    <3>1. end + 1 \in 1..Len(units) /\ Len(units) \in 1..Len(units) /\ end + 1 <= Len(units)
      BY <1>0, <1>2, <1>5, <2>1
    <3>2. /\ r \in Seq(Units) /\ Len(r) = Len(units) - (end + 1) + 1
          /\ \A k \in 1..(Len(units) - (end + 1) + 1) : r[k] = units[(end + 1) + k - 1]
      BY <3>1, PieceIds DEF Rest
    <3>3. Len(units) - (end + 1) + 1 = Len(units) - end /\ \A k \in Nat : (end + 1) + k - 1 = end + k
      BY <1>0, <1>5
    <3> HIDE DEF r
    <3>4. ASSUME NEW k \in 1..Len(r) PROVE r[k] = units[end + k]
      <4>1. k \in Nat /\ k \in 1..(Len(units) - (end + 1) + 1)
        BY <3>2
      <4> QED BY <3>2, <3>3, <4>1
    <3> QED BY <3>2, <3>3, <3>4
  <2> HIDE DEF r
  <2>3. /\ h \in 1..Len(r) /\ h + 1 \in 1..Len(r) /\ h + 2 \in 1..Len(r) /\ h + 3 \in 1..Len(r)
        /\ end + h = i /\ end + (h + 1) = i + 1 /\ end + (h + 2) = i + 2 /\ end + (h + 3) = i + 3
    BY <1>0, <1>2, <1>5, <2>1, <2>2
  <2> HIDE DEF h
  <2>4. r[h] = units[i] /\ r[h + 1] = units[i + 1] /\ r[h + 2] = units[i + 2] /\ r[h + 3] = units[i + 3]
    BY <2>2, <2>3
  <2>5. h \in Headers(r) /\ h + 3 \in DOMAIN r
    BY <1>2, <2>2, <2>3, <2>4, SMTT(30) DEF Headers, IsHeader
  <2>6. Ids(SubSeq(r, h, h + 3)) = {id}
    <3>1. h <= h + 3 /\ h \in Nat
      BY <2>3
    <3>2. Ids(SubSeq(r, h, h + 3)) = {Id(r[k]) : k \in h..(h + 3)}
      BY <2>2, <2>3, <3>1, PieceIds
    <3>3. \A k \in h..(h + 3) : k \in {h, h + 1, h + 2, h + 3}
      BY <3>1
    <3>4. \A k \in h..(h + 3) : Id(r[k]) = id
      BY <1>2, <2>4, <3>3
    <3>5. h \in h..(h + 3)
      BY <3>1
    <3> QED BY <3>2, <3>4, <3>5
  <2>7. WholeIn(r, id)
    BY <2>5, <2>6 DEF WholeIn
  <2> QED BY <1>7, <1>8, <2>7 DEF r
<1>10. CASE i = first
  <2>1. end >= i + 3
    <3>1. ASSUME end < i + 3 PROVE FALSE
      <4>1. end < Len(units) /\ end + 1 \in {i + 1, i + 2, i + 3}
        BY <1>0, <1>2, <1>5, <1>10, <3>1
      <4>2. units[end + 1].part = "head1"
        BY <1>4, <4>1 DEF FirstAndEnd, Headers, IsHeader
      <4> QED BY <1>2, <4>1, <4>2
    <3> QED BY <1>2, <1>5, <3>1
  <2>2. /\ candidate[1].part = "head1" /\ candidate[2].part = "head2"
        /\ candidate[3].part = "body" /\ candidate[4].part = "end"
    BY <1>2, <1>6, <1>10, <2>1
  <2>3. ASSUME CheckXml(candidate), Ids(candidate) = {id} PROVE Goal
    <3>1. Split(units).message = candidate
      BY <1>4, <2>2, <2>3 DEF candidate, Frame, ParseXml
    <3>2. candidate # Nothing
      BY <1>2, <1>6, <1>10, <2>1 DEF Nothing
    <3> QED BY <2>3, <3>1, <3>2
  <2>4. Ids(candidate) = {Id(units[k]) : k \in i..end}
    BY <1>5, <1>10, PieceIds DEF candidate, Candidate
  <2>5. \A k \in i..(i + 3) : Id(units[k]) = id
    <3>1. \A k \in i..(i + 3) : k \in {i, i + 1, i + 2, i + 3}
      BY <1>2
    <3> QED BY <1>2, <3>1
  <2>6. CASE end = i + 3
    <3>1. Len(candidate) = 4
      BY <1>2, <1>6, <1>10, <2>6
    <3>2. CheckXml(candidate)
      BY <1>6, <2>2, <3>1, Checked, SMTT(30)
    <3>3. Ids(candidate) = {id}
      <4>1. i \in i..end
        BY <1>2, <2>6
      <4> QED BY <2>4, <2>5, <2>6, <4>1
    <3> QED BY <2>3, <3>2, <3>3
  \* A header that does not follow the message as a whole loses it.
  <2>7. ASSUME NEW j \in 1..Len(units), j > i + 3, j <= end, units[j].part = "head1",
               \A k \in i..(j - 1) : Id(units[k]) = id, ~CheckXml(candidate)
        PROVE  Goal
    <3>1. CASE end = Len(units)
      BY <1>7, <1>8, <2>7, <3>1
    <3>2. CASE end # Len(units)
      <4>1. j < Len(units) /\ j + 1 \in 1..Len(units) /\ j \in Nat
        BY <1>0, <1>5, <2>7, <3>2
      <4>2. units[j + 1].part # "head2"
        <5>1. j \notin Headers(units)
          BY <1>2, <1>4, <1>5, <1>10, <2>7, <4>1 DEF FirstAndEnd
        <5> QED BY <2>7, <4>1, <5>1 DEF Headers, IsHeader
      <4>3. Sent(units[j]) /\ Sent(units[j + 1]) /\ Follows(units[j], units[j + 1])
        BY <4>1 DEF Ordered
      <4>4. units[j + 1].client > units[j].client
        <5>1. Numbers[units[j].part] = 1
          BY <2>7 DEF Numbers
        <5>2. ~(Numbers[units[j + 1].part] = 1 + 1)
          BY <4>2, <4>3, SentUnit
        <5>3. units[j].part # "newline"
          BY <2>7
        <5> QED BY <4>3, <5>1, <5>2, <5>3, PartFollows
      <4>5. Sent(units[i]) /\ Less(units[i], units[j])
        BY <1>2, <2>7, <4>1 DEF Ordered
      <4>6. Before(id, Id(units[j]))
        BY <1>2, <2>7, <4>3, <4>5, LessId
      <4>7. ASSUME NEW k \in 1..Len(units), Before(id, Id(units[k])), Before(Id(units[k]), Id(units[j]))
            PROVE  FALSE
        <5>1. Sent(units[k])
          BY DEF Ordered
        <5>2. ~Before(id, id)
          <6>1. units[i].message \in Nat /\ units[i].client \in Nat
            BY <4>5, SentUnit
          <6> QED BY <1>2, <6>1 DEF Before, Id
        <5>3. CASE k < i
          <6>1. Less(units[k], units[i])
            BY <1>0, <1>2, <5>3 DEF Ordered
          <6> QED BY <1>2, <4>5, <4>7, <5>1, <6>1, LessId
        <5>4. CASE k \in i..(j - 1)
          BY <2>7, <4>7, <5>2, <5>4
        <5>5. CASE k = j
          <6>1. units[j].message \in Nat /\ units[j].client \in Nat
            BY <4>3, SentUnit
          <6> QED BY <4>7, <5>5, <6>1 DEF Before, Id
        <5>6. CASE k > j
          <6>1. Less(units[j], units[k])
            BY <5>6 DEF Ordered
          <6> QED BY <4>3, <4>7, <5>1, <6>1, LessId
        <5> QED BY <1>0, <1>2, <4>1, <5>3, <5>4, <5>5, <5>6
      <4>8. CutAt(units, id, j)
        BY <2>7, <4>4, <4>6, <4>7 DEF CutAt
      <4> QED BY <4>1, <4>8
    <3> QED BY <3>1, <3>2
  <2>8. CASE end > i + 3
    <3>1. /\ i + 3 \in 1..Len(units) /\ i + 4 \in 1..Len(units) /\ i + 3 < Len(units) /\ (i + 3) + 1 = i + 4
          /\ i + 4 <= end
      BY <1>0, <1>2, <1>5, <2>8
    <3>2. Sent(units[i + 3]) /\ Sent(units[i + 4]) /\ Follows(units[i + 3], units[i + 4])
      BY <3>1 DEF Ordered
    <3>3. candidate[5] = units[i + 4]
      <4>1. 5 \in 1..(end - first + 1) /\ first + 5 - 1 = i + 4
        BY <1>2, <1>5, <1>10, <3>1
      <4> QED BY <1>6, <4>1
    <3>4. Numbers[units[i + 3].part] = 4
      BY <1>2 DEF Numbers
    <3>5. CASE units[i + 4].part = "head1"
      <4>1. ~CheckXml(candidate)
        <5>1. Len(candidate) # 4
          BY <1>2, <1>5, <1>6, <1>10, <3>1
        <5> QED BY <1>6, <3>3, <3>5, <5>1, Checked
      <4>2. \A k \in i..((i + 4) - 1) : Id(units[k]) = id
        <5>1. (i + 4) - 1 = i + 3
          BY <1>2
        <5> QED BY <2>5, <5>1
      <4>3. i + 4 > i + 3
        BY <1>2
      <4> QED BY <2>7, <3>1, <3>5, <4>1, <4>2, <4>3
    <3>6. CASE units[i + 4].part # "head1"
      <4>1. Id(units[i + 4]) = id /\ Numbers[units[i + 4].part] = 4 + 1
        BY <1>2, <3>2, <3>4, <3>6, PartFollows
      <4>2. units[i + 4].part = "newline"
        BY <3>2, <4>1, SentUnit
      <4>3. \A k \in i..(i + 4) : Id(units[k]) = id
        <5>1. \A k \in i..(i + 4) : k \in i..(i + 3) \/ k = i + 4
          BY <1>2
        <5> QED BY <2>5, <4>1, <5>1
      <4>4. CASE end = i + 4
        <5>1. Len(candidate) = 5
          BY <1>2, <1>6, <1>10, <4>4
        <5>2. CheckXml(candidate)
          BY <1>6, <2>2, <3>3, <4>2, <5>1, Checked
        <5>3. Ids(candidate) = {id}
          <6>1. i \in i..end
            BY <1>2, <4>4
          <6> QED BY <2>4, <4>3, <4>4, <6>1
        <5> QED BY <2>3, <5>2, <5>3
      <4>5. CASE end > i + 4
        <5>1. /\ i + 5 \in 1..Len(units) /\ i + 4 < Len(units) /\ (i + 4) + 1 = i + 5 /\ i + 5 <= end
              /\ i + 5 > i + 3 /\ (i + 5) - 1 = i + 4
          BY <1>0, <1>2, <1>5, <4>5
        <5>2. Sent(units[i + 5]) /\ Follows(units[i + 4], units[i + 5])
          BY <3>1, <5>1 DEF Ordered
        <5>3. units[i + 5].part = "head1"
          <6>1. Numbers[units[i + 5].part] \in 1..5
            BY <5>2, SentUnit
          <6> QED BY <3>2, <4>1, <5>2, <6>1, PartFollows
        <5>4. ~CheckXml(candidate)
          <6>1. Len(candidate) > 5
            BY <1>2, <1>5, <1>6, <1>10, <5>1
          <6>2. Len(candidate) \notin {4, 5}
            BY <1>5, <1>6, <6>1
          <6> QED BY <1>6, <6>2, Checked
        <5> QED BY <2>7, <4>3, <5>1, <5>3, <5>4
      <4> QED BY <1>2, <1>5, <3>1, <4>4, <4>5
    <3> QED BY <3>5, <3>6
  <2> QED BY <1>2, <1>5, <2>1, <2>6, <2>8
<1> QED BY <1>2, <1>5, <1>9, <1>10

-----------------------------------------------------------------------------
(* The invariant                                                              *)

(* held is what the buffer holds, flow that and what is to come behind it, rcv *)
(* what was received, told what was delivered, cl the client.                 *)

\* The flow is in order, and only what is held may be of an earlier client.
InOrder(held, flow, cl) ==
  /\ Ordered(flow)
  /\ \A i \in 1..Len(flow) : flow[i].client <= cl /\ (i > Len(held) => flow[i].client = cl)

\* The same as DeliveredAsSent, and what is still in the flow comes after the
\* message delivered last.
AsSent(told) ==
  \A k \in 1..Len(told) :
    \E id \in Good :
      /\ Ids(told[k]) = {id}
      /\ Len(told[k]) >= 4
      /\ k > 1 => Before(Id(told[k - 1][1]), id)
Ahead(told, flow, cl) ==
  Len(told) > 0 =>
    LET last == Id(told[Len(told)][1])
    IN /\ last[1] \in 0..cl
       /\ \A i \in 1..Len(flow) :
            Before(last, Id(flow[i])) \/ (Id(flow[i]) = last /\ flow[i].part # "head1")

\* As long as the buffer did not overflow, it holds the end of what was
\* received, from the beginning of a message; what was whole before that was
\* delivered, but for what an earlier client's half header came behind.
Told(told, id) == \E k \in 1..Len(told) : Ids(told[k]) = {id}
Cut(rcv, cl, id) ==
  \E u \in rcv :
    /\ u.part = "head1" /\ Before(id, Id(u)) /\ u.client < cl
    /\ Unit(u.client, u.message, "head2") \notin rcv
    /\ \A v \in rcv : ~(Before(id, Id(v)) /\ Before(Id(v), Id(u)))
AllThere(held, flow, rcv, told, cl) ==
  /\ Len(flow) > 0 => flow[1].part \in {"head1", "newline"}
  /\ \A u \in rcv :
       (\E i \in 1..Len(held) : held[i] = u) \/ \A i \in 1..Len(flow) : Less(u, flow[i])
  /\ \A id \in Good : Unit(id[1], id[2], "end") \in rcv =>
       WholeIn(held, id) \/ Told(told, id) \/ Cut(rcv, cl, id)

Consistent(held, flow, rcv, told, cl, lost) ==
  /\ InOrder(held, flow, cl)
  /\ AsSent(told)
  /\ Ahead(told, flow, cl)
  /\ \A u \in rcv : Sent(u) /\ u.client <= cl
  /\ \A i \in 1..Len(held) : held[i] \in rcv
  /\ lost \/ AllThere(held, flow, rcv, told, cl)

FramingInv ==
  /\ ClientsType
  /\ client \in 0..Len(clients)
  /\ buffer \in Seq(Units) /\ socket \in Seq(Units) /\ unsent \in Seq(Units)
  /\ size \in Sizes /\ Len(buffer) < size
  /\ open \in BOOLEAN /\ connected \in BOOLEAN /\ overflowed \in BOOLEAN
  /\ delivered \in Seq(Seq(Units))
  /\ Consistent(buffer, buffer \o (socket \o unsent), received, delivered, client, overflowed)

\* What is lost on the way leaves the rest as it was.
LEMMA Shorter ==
  ASSUME NEW held \in Seq(Units), NEW tail \in Seq(Units), NEW less \in Seq(Units),
         Len(less) <= Len(tail), \A i \in 1..Len(less) : less[i] = tail[i],
         NEW rcv, NEW told, NEW cl, NEW lost,
         Consistent(held, held \o tail, rcv, told, cl, lost)
  PROVE  Consistent(held, held \o less, rcv, told, cl, lost)
<1> DEFINE f == held \o tail
           g == held \o less
<1>1. /\ f \in Seq(Units) /\ g \in Seq(Units) /\ Len(g) <= Len(f) /\ Len(g) \in Nat /\ Len(f) \in Nat
      /\ \A i \in 1..Len(g) : i \in 1..Len(f) /\ g[i] = f[i]
  <2>1. /\ f \in Seq(Units) /\ g \in Seq(Units) /\ Len(f) = Len(held) + Len(tail) /\ Len(g) = Len(held) + Len(less)
        /\ Len(held) \in Nat /\ Len(tail) \in Nat /\ Len(less) \in Nat
    OBVIOUS
  <2>2. ASSUME NEW i \in 1..Len(g) PROVE i \in 1..Len(f) /\ g[i] = f[i]
    <3>1. CASE i <= Len(held)
      BY <2>1, <3>1
    <3>2. CASE i > Len(held)
      <4>1. i - Len(held) \in 1..Len(less)
        BY <2>1, <3>2
      <4>2. g[i] = less[i - Len(held)] /\ f[i] = tail[i - Len(held)]
        BY <2>1, <3>2, <4>1
      <4>3. i \in 1..Len(f)
        BY <2>1
      <4> QED BY <4>1, <4>2, <4>3
    <3> QED BY <2>1, <3>1, <3>2
  <2> HIDE DEF f, g
  <2> QED BY <2>1, <2>2
<1> HIDE DEF f, g
<1>2. Consistent(held, f, rcv, told, cl, lost)
  BY DEF f
<1>3. Ordered(g)
  <2>1. Ordered(f)
    BY <1>2 DEF Consistent, InOrder
  <2>2. \A i \in 1..Len(g) : g[i] = f[0 + i]
    <3>1. \A i \in 1..Len(g) : 0 + i = i
      BY <1>1
    <3> QED BY <1>1, <3>1
  <2>3. 0 \in Nat /\ Len(g) + 0 <= Len(f)
    BY <1>1
  <2> QED BY <1>1, <2>1, <2>2, <2>3, OrderedPiece
<1>4. InOrder(held, g, cl)
  BY <1>1, <1>2, <1>3 DEF Consistent, InOrder
<1>5. Ahead(told, g, cl)
  BY <1>1, <1>2 DEF Consistent, Ahead
<1>6. AllThere(held, f, rcv, told, cl) => AllThere(held, g, rcv, told, cl)
  <2>1. Len(g) > 0 => 1 \in 1..Len(g) /\ Len(f) > 0
    BY <1>1
  <2> QED BY <1>1, <2>1 DEF AllThere
<1> QED BY <1>2, <1>4, <1>5, <1>6 DEF Consistent, g

\* A later client's stream comes behind what is held.
LEMMA NextClient ==
  ASSUME ClientsType, NEW held \in Seq(Units), NEW rcv, NEW told, NEW cl \in Nat, NEW lost,
         cl + 1 \in DOMAIN clients,
         Consistent(held, held \o <<>>, rcv, told, cl, lost)
  PROVE  Consistent(held, held \o Stream(cl + 1), rcv, told, cl + 1, lost)
<1> DEFINE t == Stream(cl + 1)
           g == held \o t
<1>0. held \o <<>> = held
  OBVIOUS
<1>1. Consistent(held, held, rcv, told, cl, lost)
  BY <1>0
<1>2. /\ t \in Seq(Units) /\ Len(t) \in Nat
      /\ \A i \in 1..Len(t) : Sent(t[i]) /\ t[i].client = cl + 1 /\ Place(t[i]) = i
  BY StreamUnits
<1>3. /\ \A i \in 1..Len(held) : held[i].client <= cl /\ Sent(held[i])
      /\ \A u \in rcv : u.client <= cl /\ Sent(u)
      /\ Ordered(held)
  BY <1>1 DEF Consistent, InOrder, Ordered
<1>4. /\ \A i \in 1..Len(held) : held[i].client < cl + 1 /\ held[i].client \in Nat
      /\ \A u \in rcv : u.client < cl + 1 /\ u.client \in Nat
  <2>1. ASSUME NEW u, Sent(u), u.client <= cl PROVE u.client < cl + 1 /\ u.client \in Nat
    BY <2>1, SentUnit
  <2> QED BY <1>3, <2>1
<1>5. Ordered(g)
  BY <1>3, <1>4, OrderedBehind
<1> HIDE DEF t
<1>6. /\ g \in Seq(Units) /\ Len(g) = Len(held) + Len(t) /\ Len(held) \in Nat
      /\ \A i \in 1..Len(g) : \/ i \in 1..Len(held) /\ g[i] = held[i]
                              \/ i > Len(held) /\ i - Len(held) \in 1..Len(t) /\ g[i] = t[i - Len(held)]
  BY <1>2
<1> HIDE DEF g
<1>7. ASSUME NEW i \in 1..Len(g)
      PROVE  \/ i \in 1..Len(held) /\ g[i] = held[i]
             \/ i > Len(held) /\ g[i].client = cl + 1
  BY <1>2, <1>6
<1>8. InOrder(held, g, cl + 1)
  <2>1. ASSUME NEW i \in 1..Len(g)
        PROVE  g[i].client <= cl + 1 /\ (i > Len(held) => g[i].client = cl + 1)
    BY <1>4, <1>6, <1>7
  <2> QED BY <1>5, <2>1 DEF InOrder
<1>9. Ahead(told, g, cl + 1)
  <2> DEFINE last == Id(told[Len(told)][1])
  <2>1. ASSUME Len(told) > 0
        PROVE  last[1] \in 0..cl
               /\ \A i \in 1..Len(held) :
                    Before(last, Id(held[i])) \/ (Id(held[i]) = last /\ held[i].part # "head1")
    BY <1>1, <2>1 DEF Consistent, Ahead
  <2> HIDE DEF last
  <2>2. ASSUME Len(told) > 0, NEW i \in 1..Len(g)
        PROVE  Before(last, Id(g[i])) \/ (Id(g[i]) = last /\ g[i].part # "head1")
    <3>1. CASE i \in 1..Len(held) /\ g[i] = held[i]
      BY <2>1, <2>2, <3>1
    <3>2. CASE g[i].client = cl + 1
      <4>1. last[1] < cl + 1 /\ Id(g[i])[1] = cl + 1
        BY <2>1, <2>2, <3>2 DEF Id
      <4> QED BY <4>1 DEF Before
    <3> QED BY <1>7, <3>1, <3>2
  <2>3. Len(told) > 0 => last[1] \in 0..(cl + 1)
    BY <2>1
  <2> QED BY <2>2, <2>3 DEF Ahead, last
<1>10. AllThere(held, held, rcv, told, cl) => AllThere(held, g, rcv, told, cl + 1)
  <2> SUFFICES ASSUME AllThere(held, held, rcv, told, cl)
               PROVE  AllThere(held, g, rcv, told, cl + 1)
    OBVIOUS
  <2>1. Len(g) > 0 => g[1].part \in {"head1", "newline"}
    <3>1. CASE Len(held) > 0
      <4>1. 1 \in 1..Len(held) /\ 1 \in 1..Len(g)
        BY <1>2, <1>6, <3>1
      <4>2. g[1] = held[1]
        BY <1>6, <4>1
      <4> QED BY <3>1, <4>2 DEF AllThere
    <3>2. CASE Len(held) = 0 /\ Len(g) > 0
      <4>1. g[1] = t[1] /\ 1 \in 1..Len(t)
        <5>1. 1 \in 1..Len(g) /\ ~(1 \in 1..Len(held)) /\ 1 - Len(held) = 1
          BY <1>6, <3>2
        <5> QED BY <1>6, <5>1
      <4>2. Sent(t[1]) /\ Place(t[1]) = 1
        BY <1>2, <4>1
      <4>3. Numbers[t[1].part] = 1
        <5> DEFINE m == t[1].message
                   k == Numbers[t[1].part]
        <5>1. t[1].message \in Nat /\ t[1].message >= 1 /\ Numbers[t[1].part] \in 1..5
          BY <4>2, SentUnit
        <5>2. 5 * (m - 1) + k = 1
          BY <4>2 DEF Place
        <5> HIDE DEF m, k
        <5>3. m \in Nat /\ m >= 1 /\ k \in 1..5
          BY <5>1 DEF m, k
        <5>4. k = 1
          BY <5>2, <5>3
        <5> QED BY <5>4 DEF k
      <4> QED BY <4>1, <4>2, <4>3, SentUnit
    <3> QED BY <1>6, <3>1, <3>2
  <2>2. ASSUME NEW u \in rcv
        PROVE  (\E i \in 1..Len(held) : held[i] = u) \/ \A i \in 1..Len(g) : Less(u, g[i])
    <3>1. CASE \A i \in 1..Len(held) : Less(u, held[i])
      <4>1. ASSUME NEW i \in 1..Len(g) PROVE Less(u, g[i])
        <5>1. CASE g[i].client = cl + 1
          BY <1>4, <5>1 DEF Less
        <5> QED BY <1>7, <3>1, <5>1
      <4> QED BY <4>1
    <3> QED BY <3>1 DEF AllThere
  <2>3. ASSUME NEW id \in Good, Cut(rcv, cl, id) PROVE Cut(rcv, cl + 1, id)
    BY <1>4, <2>3 DEF Cut
  <2> QED BY <2>1, <2>2, <2>3 DEF AllThere
<1> QED BY <1>0, <1>1, <1>3, <1>4, <1>8, <1>9, <1>10 DEF Consistent, g, t

\* One piece behind another.
LEMMA Joined ==
  ASSUME NEW s \in Seq(Units), NEW t \in Seq(Units)
  PROVE  /\ s \o t \in Seq(Units) /\ Len(s \o t) = Len(s) + Len(t) /\ Len(s) \in Nat /\ Len(t) \in Nat
         /\ \A i \in 1..Len(s) : (s \o t)[i] = s[i]
         /\ \A i \in 1..Len(s) : i \in 1..Len(s \o t)
         /\ \A i \in 1..Len(t) : (s \o t)[Len(s) + i] = t[i]
         /\ \A i \in 1..Len(s \o t) : i > Len(s) => i - Len(s) \in 1..Len(t) /\ (s \o t)[i] = t[i - Len(s)]
<1> DEFINE f == s \o t
<1>1. /\ f \in Seq(Units) /\ Len(f) = Len(s) + Len(t) /\ Len(s) \in Nat /\ Len(t) \in Nat
      /\ \A i \in 1..Len(s) : f[i] = s[i]
      /\ \A i \in 1..Len(t) : f[Len(s) + i] = t[i]
  OBVIOUS
<1> HIDE DEF f
<1>2. \A i \in 1..Len(s) : i \in 1..Len(f)
  BY <1>1
<1>3. ASSUME NEW i \in 1..Len(f), i > Len(s)
      PROVE  i - Len(s) \in 1..Len(t) /\ f[i] = t[i - Len(s)]
  <2>1. i - Len(s) \in 1..Len(t) /\ Len(s) + (i - Len(s)) = i
    BY <1>1, <1>3
  <2> QED BY <1>1, <2>1
<1> QED BY <1>1, <1>2, <1>3 DEF f

\* What is received moves from the tail to what is held.
LEMMA Taking ==
  ASSUME ClientsType, NEW held \in Seq(Units), NEW t \in Seq(Units), NEW tail \in Seq(Units),
         NEW rcv, NEW told, NEW cl \in Nat, NEW lost,
         Consistent(held, held \o (t \o tail), rcv, told, cl, lost)
  PROVE  Consistent(held \o t, (held \o t) \o tail, rcv \cup Range(t), told, cl, lost)
<1> DEFINE more == held \o t
           new == rcv \cup Range(t)
           f == more \o tail
<1>1. f = held \o (t \o tail)
  OBVIOUS
<1>2. /\ more \in Seq(Units) /\ f \in Seq(Units)
      /\ Len(held) \in Nat /\ Len(t) \in Nat /\ Len(more) = Len(held) + Len(t)
      /\ Len(f) \in Nat /\ Len(more) <= Len(f)
      /\ \A i \in 1..Len(held) : more[i] = held[i] /\ i \in 1..Len(more)
      /\ \A i \in 1..Len(t) : more[Len(held) + i] = t[i] /\ Len(held) + i \in 1..Len(more)
      /\ \A i \in 1..Len(more) : i > Len(held) => i - Len(held) \in 1..Len(t) /\ more[i] = t[i - Len(held)]
      /\ \A i \in 1..Len(more) : f[i] = more[i] /\ i \in 1..Len(f)
  <2>1. /\ more \in Seq(Units) /\ Len(held) \in Nat /\ Len(t) \in Nat /\ Len(more) = Len(held) + Len(t)
        /\ \A i \in 1..Len(held) : more[i] = held[i] /\ i \in 1..Len(more)
        /\ \A i \in 1..Len(t) : more[Len(held) + i] = t[i]
        /\ \A i \in 1..Len(more) : i > Len(held) => i - Len(held) \in 1..Len(t) /\ more[i] = t[i - Len(held)]
    BY Joined
  <2> HIDE DEF more
  <2>2. /\ f \in Seq(Units) /\ Len(f) = Len(more) + Len(tail) /\ Len(tail) \in Nat
        /\ \A i \in 1..Len(more) : f[i] = more[i] /\ i \in 1..Len(f)
    <3>1. more \in Seq(Units)
      BY <2>1
    <3> QED BY <3>1, Joined
  <2> HIDE DEF f
  <2>3. /\ Len(f) \in Nat /\ Len(more) <= Len(f)
        /\ \A i \in 1..Len(t) : Len(held) + i \in 1..Len(more)
    BY <2>1, <2>2
  <2> QED BY <2>1, <2>2, <2>3
<1>3. \A u \in Range(t) : \E i \in 1..Len(t) : u = t[i]
  BY DEF Range
<1>4. \A i \in 1..Len(t) : t[i] \in Range(t)
  BY DEF Range
<1> HIDE DEF f, more
<1>5. Consistent(held, f, rcv, told, cl, lost)
  BY <1>1
<1>6. ASSUME NEW u \in Range(t)
      PROVE  \E i \in 1..Len(more) : i > Len(held) /\ more[i] = u /\ f[i] = u /\ i \in 1..Len(f)
  <2>1. PICK i \in 1..Len(t) : u = t[i]
    BY <1>3
  <2>2. Len(held) + i \in 1..Len(more) /\ more[Len(held) + i] = u /\ Len(held) + i > Len(held)
    BY <1>2, <2>1
  <2> QED BY <1>2, <2>2
<1>7. InOrder(more, f, cl)
  <2>1. \A i \in 1..Len(f) : i > Len(more) => i > Len(held)
    BY <1>2
  <2> QED BY <1>5, <2>1 DEF Consistent, InOrder
<1>8. \A u \in Range(t) : Sent(u) /\ u.client = cl
  BY <1>2, <1>5, <1>6, SMTT(30) DEF Consistent, InOrder, Ordered
<1>9. cl <= cl
  OBVIOUS
<1>10. \A u \in new : Sent(u) /\ u.client <= cl
  BY <1>5, <1>8, <1>9 DEF Consistent
<1>11. ASSUME NEW i \in 1..Len(more) PROVE more[i] \in new
  <2>1. CASE i <= Len(held)
    <3>1. i \in 1..Len(held)
      BY <1>2, <2>1
    <3> QED BY <1>2, <1>5, <3>1 DEF Consistent
  <2>2. CASE i > Len(held)
    <3>1. i - Len(held) \in 1..Len(t) /\ more[i] = t[i - Len(held)]
      BY <1>2, <2>2
    <3> QED BY <1>4, <3>1
  <2> QED BY <1>2, <2>1, <2>2
<1>12. AllThere(held, f, rcv, told, cl) => AllThere(more, f, new, told, cl)
  <2> SUFFICES ASSUME AllThere(held, f, rcv, told, cl)
               PROVE  AllThere(more, f, new, told, cl)
    OBVIOUS
  <2>1. Len(f) > 0 => f[1].part \in {"head1", "newline"}
    BY DEF AllThere
  <2>2. ASSUME NEW u \in new
        PROVE  (\E i \in 1..Len(more) : more[i] = u) \/ \A i \in 1..Len(f) : Less(u, f[i])
    <3>1. CASE u \in Range(t)
      BY <1>6, <3>1
    <3>2. CASE u \in rcv
      BY <1>2, <3>2 DEF AllThere
    <3> QED BY <3>1, <3>2
  <2>3. ASSUME NEW id \in Good, WholeIn(held, id) PROVE WholeIn(more, id)
    <3>1. PICK i \in Headers(held) : i + 3 \in DOMAIN held /\ Ids(SubSeq(held, i, i + 3)) = {id}
      BY <2>3 DEF WholeIn
    <3>2. i \in 1..Len(held) /\ i + 1 \in 1..Len(held) /\ i + 3 \in 1..Len(held) /\ i <= i + 3
          /\ held[i].part = "head1" /\ held[i + 1].part = "head2"
      BY <3>1 DEF Headers, IsHeader
    <3>3. i \in Headers(more) /\ i + 3 \in DOMAIN more
      BY <1>2, <3>2, SMTT(30) DEF Headers, IsHeader
    <3>4. Ids(SubSeq(held, i, i + 3)) = {Id(held[k]) : k \in i..(i + 3)}
      BY <3>2, PieceIds
    <3>5. Ids(SubSeq(more, i, i + 3)) = {Id(more[k]) : k \in i..(i + 3)}
      <4>1. more \in Seq(Units) /\ i \in 1..Len(more) /\ i + 3 \in 1..Len(more) /\ i <= i + 3
        BY <1>2, <3>2
      <4> QED BY <4>1, PieceIds
    <3>6. \A k \in i..(i + 3) : more[k] = held[k]
      <4> DEFINE n == Len(held)
      <4>0. n \in Nat /\ i \in 1..n /\ i + 3 \in 1..n
        BY <1>2, <3>2
      <4> HIDE DEF n
      <4>1. \A k \in i..(i + 3) : k \in 1..n
        BY <4>0
      <4> QED BY <1>2, <4>1 DEF n
    <3>7. Ids(SubSeq(more, i, i + 3)) = Ids(SubSeq(held, i, i + 3))
      BY <3>4, <3>5, <3>6
    <3> QED BY <3>1, <3>3, <3>7 DEF WholeIn
  <2>4. ASSUME NEW id \in Good, Cut(rcv, cl, id) PROVE Cut(new, cl, id)
    <3>1. PICK u \in rcv :
            /\ u.part = "head1" /\ Before(id, Id(u)) /\ u.client < cl
            /\ Unit(u.client, u.message, "head2") \notin rcv
            /\ \A v \in rcv : ~(Before(id, Id(v)) /\ Before(Id(v), Id(u)))
      BY <2>4 DEF Cut
    <3>2. u.client \in Nat
      BY <1>10, SentUnit
    <3>3. ASSUME NEW v \in Range(t) PROVE v.client # u.client /\ ~Before(Id(v), Id(u))
      BY <1>8, <3>1, <3>2 DEF Before, Id
    <3>4. Unit(u.client, u.message, "head2").client = u.client
      BY DEF Unit
    <3> QED BY <3>1, <3>3, <3>4 DEF Cut
  <2>5. ASSUME NEW id \in Good, Unit(id[1], id[2], "end") \in Range(t) PROVE WholeIn(more, id)
    <3>1. PICK i \in 1..Len(more) : more[i] = Unit(id[1], id[2], "end")
      BY <1>6, <2>5
    <3>2. Id(more[i]) = id /\ more[i].part = "end"
      <4>1. id = <<id[1], id[2]>>
        <5>1. PICK c \in DOMAIN clients : id \in {<<c, m>> : m \in {k \in DOMAIN clients[c] : clients[c][k] = "good"}}
          BY DEF Good
        <5> QED BY <5>1
      <4> QED BY <3>1, <4>1 DEF Id, Unit
    <3>3. Ordered(more)
      <4>1. /\ Ordered(f) /\ 0 \in Nat /\ Len(more) + 0 <= Len(f)
            /\ \A k \in 1..Len(more) : 0 + k = k
        BY <1>2, <1>7 DEF InOrder
      <4>2. \A k \in 1..Len(more) : more[k] = f[0 + k]
        BY <1>2, <4>1
      <4> QED BY <1>2, <4>1, <4>2, OrderedPiece
    <3>4. more[1].part \in {"head1", "newline"}
      <4>1. 1 \in 1..Len(more) /\ Len(f) > 0
        BY <1>2
      <4> QED BY <1>2, <2>1, <4>1
    <3> QED BY <1>2, <3>2, <3>3, <3>4, EndIsWhole
  <2>6. ASSUME NEW id \in Good, Unit(id[1], id[2], "end") \in new
        PROVE  WholeIn(more, id) \/ Told(told, id) \/ Cut(new, cl, id)
    BY <2>3, <2>4, <2>5, <2>6 DEF AllThere
  <2> QED BY <2>1, <2>2, <2>6 DEF AllThere
<1> QED BY <1>5, <1>7, <1>10, <1>11, <1>12 DEF Consistent, f, more

\* What is dropped from the front leaves the rest in order.
LEMMA Dropping ==
  ASSUME NEW held \in Seq(Units), NEW tail \in Seq(Units), NEW a \in 0..Len(held),
         NEW rcv, NEW told, NEW cl, NEW lost,
         Consistent(held, held \o tail, rcv, told, cl, lost)
  PROVE  LET r == SubSeq(held, a + 1, Len(held))
             f == held \o tail
             g == r \o tail
         IN /\ r \in Seq(Units) /\ Len(r) = Len(held) - a
            /\ \A i \in 1..Len(r) : r[i] = held[a + i] /\ a + i \in 1..Len(held)
            /\ g \in Seq(Units) /\ Len(g) = Len(f) - a
            /\ \A i \in 1..Len(g) : g[i] = f[a + i] /\ a + i \in 1..Len(f)
            /\ Consistent(r, g, rcv, told, cl, TRUE)
<1> DEFINE r == SubSeq(held, a + 1, Len(held))
           f == held \o tail
           g == r \o tail
<1>1. /\ r \in Seq(Units) /\ Len(r) = Len(held) - a /\ Len(held) \in Nat /\ a \in Nat
      /\ \A i \in 1..Len(r) : r[i] = held[a + i] /\ a + i \in 1..Len(held)
  <2>1. Len(held) \in Nat /\ a \in Nat /\ a <= Len(held)
    OBVIOUS
  <2>2. /\ r \in Seq(Units) /\ Len(r) = Len(held) - a
        /\ \A i \in 1..(Len(held) - a) : r[i] = held[a + 1 + i - 1]
    OBVIOUS
  <2> HIDE DEF r
  <2>3. ASSUME NEW i \in 1..Len(r) PROVE r[i] = held[a + i] /\ a + i \in 1..Len(held)
    <3>1. i \in 1..(Len(held) - a) /\ a + 1 + i - 1 = a + i /\ a + i \in 1..Len(held)
      BY <2>1, <2>2
    <3> QED BY <2>2, <3>1
  <2> QED BY <2>1, <2>2, <2>3
<1>2. /\ f \in Seq(Units) /\ Len(f) = Len(held) + Len(tail) /\ Len(tail) \in Nat
      /\ \A i \in 1..Len(held) : f[i] = held[i]
      /\ \A i \in 1..Len(tail) : f[Len(held) + i] = tail[i]
  BY Joined
<1> HIDE DEF r
<1>3. /\ g \in Seq(Units) /\ Len(g) = Len(r) + Len(tail)
      /\ \A i \in 1..Len(r) : g[i] = r[i]
      /\ \A i \in 1..Len(g) : i > Len(r) => i - Len(r) \in 1..Len(tail) /\ g[i] = tail[i - Len(r)]
  BY <1>1, Joined
<1> HIDE DEF f, g
<1>4. Len(g) = Len(f) - a /\ Len(g) \in Nat /\ Len(f) \in Nat
  BY <1>1, <1>2, <1>3
<1>5. ASSUME NEW i \in 1..Len(g) PROVE g[i] = f[a + i] /\ a + i \in 1..Len(f)
  <2>1. a + i \in 1..Len(f)
    BY <1>1, <1>4
  <2>2. CASE i <= Len(r)
    <3>1. i \in 1..Len(r)
      BY <1>1, <2>2
    <3>2. g[i] = r[i] /\ r[i] = held[a + i] /\ f[a + i] = held[a + i]
      BY <1>1, <1>2, <1>3, <3>1
    <3> QED BY <2>1, <3>2
  <2>3. CASE i > Len(r)
    <3>1. g[i] = tail[i - Len(r)] /\ i - Len(r) \in 1..Len(tail)
      BY <1>3, <2>3
    <3>2. Len(held) + (i - Len(r)) = a + i
      BY <1>1
    <3> QED BY <1>2, <2>1, <3>1, <3>2
  <2> QED BY <1>1, <2>2, <2>3
<1>6. Consistent(held, f, rcv, told, cl, lost)
  BY DEF f
<1>7. InOrder(r, g, cl)
  <2>1. Ordered(f)
    BY <1>6 DEF Consistent, InOrder
  <2>2. Len(g) + a <= Len(f) /\ \A i \in 1..Len(g) : g[i] = f[a + i]
    BY <1>1, <1>4, <1>5
  <2>3. Ordered(g)
    BY <1>1, <1>2, <1>3, <2>1, <2>2, OrderedPiece
  <2>4. \A i \in 1..Len(g) : i > Len(r) => a + i > Len(held)
    BY <1>1
  <2> QED BY <1>5, <1>6, <2>3, <2>4 DEF Consistent, InOrder
<1>8. Ahead(told, g, cl)
  BY <1>5, <1>6, SMTT(30) DEF Consistent, Ahead
<1>9. Consistent(r, g, rcv, told, cl, TRUE)
  BY <1>1, <1>6, <1>7, <1>8 DEF Consistent
<1> QED BY <1>1, <1>3, <1>4, <1>5, <1>9 DEF f, g, r

\* What was delivered after a pass.
TellMore(told, message) == IF message = Nothing THEN told ELSE Append(told, message)

\* A pass keeps what it looks at consistent.
LEMMA Passing ==
  ASSUME ClientsType, NEW held \in Seq(Units), NEW tail \in Seq(Units),
         NEW rcv, NEW told \in Seq(Seq(Units)), NEW cl \in Nat, NEW lost,
         Consistent(held, held \o tail, rcv, told, cl, lost)
  PROVE  LET rest == Split(held).rest
             more == TellMore(told, Split(held).message)
         IN /\ rest \in Seq(Units) /\ Len(rest) <= Len(held)
            /\ more \in Seq(Seq(Units))
            /\ Consistent(rest, rest \o tail, rcv, more, cl, lost)
<1> DEFINE rest == Split(held).rest
           message == Split(held).message
           more == TellMore(told, message)
           f == held \o tail
           g == rest \o tail
<1>1. Consistent(held, f, rcv, told, cl, lost) /\ f \in Seq(Units) /\ Len(held) \in Nat
      /\ Len(f) \in Nat /\ Len(held) <= Len(f) /\ \A i \in 1..Len(held) : f[i] = held[i] /\ i \in 1..Len(f)
  <2>1. /\ f \in Seq(Units) /\ Len(f) = Len(held) + Len(tail) /\ Len(held) \in Nat /\ Len(tail) \in Nat
        /\ \A i \in 1..Len(held) : f[i] = held[i]
        /\ \A i \in 1..Len(held) : i \in 1..Len(f)
    BY Joined
  <2> HIDE DEF f
  <2> QED BY <2>1 DEF f
<1>2. Ordered(f) /\ Ordered(held)
  <2>1. Ordered(f)
    BY <1>1 DEF Consistent, InOrder
  <2>2. 0 \in Nat /\ Len(held) + 0 <= Len(f) /\ \A i \in 1..Len(held) : 0 + i = i
    BY <1>1
  <2> HIDE DEF f
  <2>3. \A i \in 1..Len(held) : held[i] = f[0 + i]
    BY <1>1, <2>2
  <2> QED BY <1>1, <2>1, <2>2, <2>3, OrderedPiece
<1>3. PICK a \in 0..Len(held) :
        /\ rest = SubSeq(held, a + 1, Len(held))
        /\ a > 0 => \/ a = Len(held) /\ held[a].part \in {"end", "newline"}
                    \/ a < Len(held) /\ held[a + 1].part = "head1"
        /\ message # Nothing => \E first \in 1..a : FirstOf(message, held, first)
  BY <1>2, PassResult
<1>4. /\ rest \in Seq(Units) /\ Len(rest) = Len(held) - a
      /\ \A i \in 1..Len(rest) : rest[i] = held[a + i] /\ a + i \in 1..Len(held)
      /\ g \in Seq(Units) /\ Len(g) = Len(f) - a
      /\ \A i \in 1..Len(g) : g[i] = f[a + i] /\ a + i \in 1..Len(f)
      /\ Consistent(rest, g, rcv, told, cl, TRUE)
  <2> DEFINE r == SubSeq(held, a + 1, Len(held))
  <2>1. /\ r \in Seq(Units) /\ Len(r) = Len(held) - a
        /\ \A i \in 1..Len(r) : r[i] = held[a + i] /\ a + i \in 1..Len(held)
        /\ r \o tail \in Seq(Units) /\ Len(r \o tail) = Len(held \o tail) - a
        /\ \A i \in 1..Len(r \o tail) :
             (r \o tail)[i] = (held \o tail)[a + i] /\ a + i \in 1..Len(held \o tail)
        /\ Consistent(r, r \o tail, rcv, told, cl, TRUE)
    BY Dropping
  <2>2. rest = r
    BY <1>3
  <2> HIDE DEF rest, r
  <2> QED BY <2>1, <2>2
<1>5. \A id \in Good : WholeIn(held, id) =>
        \/ WholeIn(rest, id)
        \/ message # Nothing /\ Ids(message) = {id}
        \/ \E j \in 1..Len(held) : j < Len(held) /\ CutAt(held, id, j)
  BY <1>2, PassLoses
<1> HIDE DEF rest, message, f, g
<1>6. /\ \A i \in 1..Len(f) : Sent(f[i]) /\ f[i].client <= cl
      /\ \A i, j \in 1..Len(f) : i < j => Less(f[i], f[j])
      /\ \A i \in 1..Len(f) : i < Len(f) => Follows(f[i], f[i + 1])
      /\ \A i \in 1..Len(held) : held[i] \in rcv
      /\ \A u \in rcv : Sent(u)
  BY <1>1, <1>2 DEF Consistent, InOrder, Ordered
<1>7. /\ Len(rest) <= Len(held) /\ a \in Nat /\ a <= Len(held) /\ Len(rest) \in Nat /\ Len(g) \in Nat
      /\ a <= Len(f) /\ Len(held) \in Nat /\ Len(f) \in Nat
  <2>1. Len(held) \in Nat /\ Len(f) \in Nat /\ Len(held) <= Len(f)
    BY <1>1
  <2>2. Len(rest) = Len(held) - a /\ Len(g) = Len(f) - a
    BY <1>4
  <2> QED BY <2>1, <2>2
\* What is delivered.
<1>8. more \in Seq(Seq(Units)) /\ AsSent(more) /\ Ahead(more, g, cl)
  <2>1. CASE message = Nothing
    BY <1>4, <2>1 DEF TellMore, Consistent
  <2>2. CASE message # Nothing
    <3>1. PICK first \in 1..a : FirstOf(message, held, first)
      BY <1>3, <2>2
    <3>2. /\ message \in Seq(Units) /\ Len(message) >= 4
          /\ message[1] = f[first] /\ f[first].part = "head1" /\ first \in 1..Len(f)
          /\ Id(f[first]) \in Good /\ Ids(message) = {Id(f[first])} /\ first \in Nat /\ first <= a
      <4>1. first \in 1..Len(held) /\ first \in Nat /\ first <= a
        BY <1>7
      <4> QED BY <1>1, <3>1, <4>1 DEF FirstOf
    <3>3. /\ more = Append(told, message) /\ more \in Seq(Seq(Units)) /\ Len(more) = Len(told) + 1
          /\ Len(told) \in Nat /\ more[Len(told) + 1] = message
          /\ \A k \in 1..Len(told) : more[k] = told[k]
      BY <2>2, <3>2 DEF TellMore
    <3> HIDE DEF more
    <3>4. AsSent(told) /\ Ahead(told, f, cl)
      BY <1>1 DEF Consistent
    <3>5. AsSent(more)
      <4>1. ASSUME NEW k \in 1..Len(more)
            PROVE  \E id \in Good :
                     /\ Ids(more[k]) = {id}
                     /\ Len(more[k]) >= 4
                     /\ k > 1 => Before(Id(more[k - 1][1]), id)
        <5>1. CASE k \in 1..Len(told)
          <6>1. k > 1 => k - 1 \in 1..Len(told)
            BY <3>3, <5>1
          <6>2. more[k] = told[k] /\ (k > 1 => more[k - 1] = told[k - 1])
            BY <3>3, <5>1, <6>1
          <6> QED BY <3>4, <5>1, <6>2 DEF AsSent
        <5>2. CASE k = Len(told) + 1
          <6>1. more[k] = message
            BY <3>3, <5>2
          <6>2. ASSUME k > 1 PROVE Before(Id(more[k - 1][1]), Id(f[first]))
            <7>1. Len(told) > 0 /\ k - 1 = Len(told) /\ Len(told) \in 1..Len(told)
              BY <3>3, <5>2, <6>2
            <7>2. more[k - 1] = told[Len(told)]
              BY <3>3, <7>1
            <7> QED BY <3>2, <3>4, <7>1, <7>2 DEF Ahead
          <6> QED BY <3>2, <6>1, <6>2
        <5>3. k \in 1..(Len(told) + 1) /\ Len(told) \in Nat
          BY <3>3
        <5>4. k \in 1..Len(told) \/ k = Len(told) + 1
          BY <5>3
        <5> QED BY <5>1, <5>2, <5>4
      <4> QED BY <4>1 DEF AsSent
    <3>6. Ahead(more, g, cl)
      <4> DEFINE last == Id(more[Len(more)][1])
      <4>1. last = Id(f[first])
        BY <3>2, <3>3
      <4>2. last[1] \in 0..cl
        <5>1. Sent(f[first]) /\ f[first].client <= cl
          BY <1>6, <3>2
        <5>2. f[first].client \in Nat
          BY <5>1, SentUnit
        <5> QED BY <4>1, <5>1, <5>2 DEF Id
      <4>3. ASSUME NEW i \in 1..Len(g)
            PROVE  Before(last, Id(g[i])) \/ (Id(g[i]) = last /\ g[i].part # "head1")
        <5>1. first < a + i
          <6>1. first \in Nat /\ first <= a
            BY <3>2
          <6>2. a \in Nat /\ Len(g) \in Nat
            BY <1>7
          <6>3. i \in Nat /\ i >= 1
            BY <6>2
          <6> QED BY <6>1, <6>2, <6>3
        <5>2. g[i] = f[a + i] /\ a + i \in 1..Len(f)
          BY <1>4
        <5>3. Less(f[first], f[a + i]) /\ Sent(f[first]) /\ Sent(f[a + i])
          BY <1>6, <3>2, <5>1, <5>2
        <5> QED BY <4>1, <5>2, <5>3, LessId
      <4> HIDE DEF last
      <4> QED BY <4>2, <4>3 DEF Ahead, last
    <3> QED BY <3>3, <3>5, <3>6
  <2> QED BY <2>1, <2>2
\* What is not lost.
<1>9. AllThere(held, f, rcv, told, cl) => AllThere(rest, g, rcv, more, cl)
  <2> SUFFICES ASSUME AllThere(held, f, rcv, told, cl)
               PROVE  AllThere(rest, g, rcv, more, cl)
    OBVIOUS
  <2>1. ASSUME Len(g) > 0 PROVE g[1].part \in {"head1", "newline"}
    <3>1. a + 1 \in 1..Len(f) /\ g[1] = f[a + 1] /\ Len(f) > 0
      <4>1. 1 \in 1..Len(g)
        BY <1>7, <2>1
      <4>2. a + 1 \in 1..Len(f) /\ g[1] = f[a + 1]
        BY <1>4, <4>1
      <4>3. Len(f) > 0
        BY <1>7, <4>2
      <4> QED BY <4>2, <4>3
    <3>2. CASE a = 0
      BY <1>7, <3>1, <3>2 DEF AllThere
    <3>3. CASE a < Len(held) /\ held[a + 1].part = "head1"
      <4>1. a + 1 \in 1..Len(held)
        BY <1>1, <1>7, <3>3
      <4> QED BY <1>1, <3>1, <3>3, <4>1
    <3>4. CASE a > 0 /\ a = Len(held) /\ held[a].part \in {"end", "newline"}
      <4>1. a \in 1..Len(held) /\ f[a] = held[a] /\ a \in 1..Len(f) /\ a < Len(f)
        BY <1>1, <1>7, <3>1, <3>4
      <4>2. Sent(f[a]) /\ Sent(f[a + 1]) /\ Follows(f[a], f[a + 1])
        BY <1>6, <3>1, <4>1
      <4>3. Numbers[f[a].part] \in {4, 5} /\ Numbers[f[a + 1].part] \in 1..5
        <5>1. Numbers[f[a].part] \in {4, 5}
          BY <3>4, <4>1 DEF Numbers
        <5> QED BY <4>2, <5>1, SentUnit
      <4>4. f[a + 1].part = "head1" \/ Numbers[f[a + 1].part] = 5
        BY <4>2, <4>3, PartFollows
      <4> QED BY <3>1, <4>2, <4>4, SentUnit
    <3>5. a = 0 \/ a > 0
      BY <1>7
    <3> QED BY <1>3, <3>2, <3>3, <3>4, <3>5
  <2>2. ASSUME NEW u \in rcv
        PROVE  (\E i \in 1..Len(rest) : rest[i] = u) \/ \A i \in 1..Len(g) : Less(u, g[i])
    <3>1. CASE \A i \in 1..Len(f) : Less(u, f[i])
      BY <1>4, <3>1
    <3>2. CASE \E i \in 1..Len(held) : held[i] = u
      <4>1. PICK i \in 1..Len(held) : held[i] = u
        BY <3>2
      <4>2. CASE i > a
        <5>1. i - a \in 1..Len(rest) /\ a + (i - a) = i
          BY <1>1, <1>4, <1>7, <4>2
        <5> QED BY <1>4, <4>1, <5>1
      <4>3. CASE i <= a
        <5>1. ASSUME NEW k \in 1..Len(g) PROVE Less(u, g[k])
          <6>1. i < a + k
            BY <1>7, <4>3
          <6>2. g[k] = f[a + k] /\ a + k \in 1..Len(f)
            BY <1>4
          <6>3. i \in 1..Len(f) /\ f[i] = u
            BY <1>1, <4>1
          <6> QED BY <1>6, <6>1, <6>2, <6>3
        <5> QED BY <5>1
      <4> QED BY <1>7, <4>2, <4>3
    <3> QED BY <3>1, <3>2 DEF AllThere
  <2>3. ASSUME NEW id \in Good, WholeIn(held, id)
        PROVE  WholeIn(rest, id) \/ Told(more, id) \/ Cut(rcv, cl, id)
    <3>1. CASE message # Nothing /\ Ids(message) = {id}
      <4>1. /\ more = Append(told, message) /\ Len(told) + 1 \in 1..Len(more)
            /\ more[Len(told) + 1] = message
        <5>1. message \in Seq(Units)
          BY <1>3, <3>1 DEF FirstOf
        <5> QED BY <3>1, <5>1 DEF TellMore
      <4> QED BY <3>1, <4>1 DEF Told
    <3>2. CASE \E j \in 1..Len(held) : j < Len(held) /\ CutAt(held, id, j)
      <4>1. PICK j \in 1..Len(held) : j < Len(held) /\ CutAt(held, id, j)
        BY <3>2
      <4> DEFINE u == held[j]
      <4>2. /\ u.part = "head1" /\ Before(id, Id(u)) /\ held[j + 1].client > u.client
            /\ \A k \in 1..Len(held) : ~(Before(id, Id(held[k])) /\ Before(Id(held[k]), Id(u)))
        BY <4>1 DEF CutAt
      <4>3. /\ j + 1 \in 1..Len(held) /\ j \in 1..Len(f) /\ j + 1 \in 1..Len(f)
            /\ f[j] = u /\ f[j + 1] = held[j + 1] /\ u \in rcv /\ Sent(u) /\ Sent(held[j + 1]) /\ j \in Nat
        <5>1. j + 1 \in 1..Len(held) /\ j \in Nat
          BY <1>1, <4>1
        <5> QED BY <1>1, <1>6, <5>1
      <4> HIDE DEF u
      <4>4. u.client < cl /\ u.client \in Nat
        <5>1. held[j + 1].client <= cl /\ held[j + 1].client \in Nat /\ u.client \in Nat
          <6>1. f[j + 1].client <= cl
            BY <1>6, <4>3
          <6>2. held[j + 1].client \in Nat
            BY <4>3, SentUnit
          <6>3. u.client \in Nat
            BY <4>3, SentUnit
          <6> QED BY <4>3, <6>1, <6>2, <6>3
        <5>2. held[j + 1].client > u.client
          BY <4>2
        <5> DEFINE c == held[j + 1].client
                   d == u.client
        <5>3. c \in Nat /\ d \in Nat /\ c <= cl /\ c > d
          BY <5>1, <5>2
        <5> HIDE DEF c, d
        <5>4. d < cl /\ d \in Nat
          BY <5>3
        <5> QED BY <5>4 DEF d
      \* Nothing of a later message than this one is before what is held.
      <4>5. ASSUME NEW v \in rcv, ~\E k \in 1..Len(held) : held[k] = v
            PROVE  Less(v, u) /\ \A i \in 1..Len(held) : Less(v, held[i])
        <5>1. \A i \in 1..Len(f) : Less(v, f[i])
          BY <4>5 DEF AllThere
        <5> QED BY <1>1, <4>3, <5>1
      <4>6. Unit(u.client, u.message, "head2") \notin rcv
        <5> DEFINE w == Unit(u.client, u.message, "head2")
        <5> SUFFICES ASSUME w \in rcv PROVE FALSE
          OBVIOUS
        <5>1. w.client = u.client /\ Sent(w) /\ w.client \in Nat /\ Place(w) = Place(u) + 1
              /\ Place(u) \in Nat
          <6>1. w.client = u.client /\ w.message = u.message /\ w.part = "head2"
            BY DEF Unit
          <6>2. Sent(w)
            BY <1>6
          <6>3. Numbers[u.part] = 1 /\ Numbers[w.part] = 2
            BY <4>2, <6>1 DEF Numbers
          <6>4. u.message \in Nat /\ Place(u) \in Nat
            BY <4>3, SentUnit
          <6>5. Place(w) = Place(u) + 1
            <7> DEFINE m == u.message
            <7>1. Place(w) = 5 * (m - 1) + 2
              <8> HIDE DEF w
              <8> QED BY <6>1, <6>3 DEF Place
            <7>2. Place(u) = 5 * (m - 1) + 1
              BY <6>3 DEF Place
            <7>3. m \in Nat
              BY <6>4
            <7> HIDE DEF w, m
            <7>4. 5 * (m - 1) + 2 = (5 * (m - 1) + 1) + 1
              BY <7>3
            <7> QED BY <7>1, <7>2, <7>4
          <6>6. w.client \in Nat
            BY <4>4, <6>1
          <6> HIDE DEF w
          <6> QED BY <6>1, <6>2, <6>4, <6>5, <6>6
        <5> HIDE DEF w
        <5>2. ~Less(w, u)
          BY <5>1 DEF Less
        <5>3. PICK k \in 1..Len(held) : held[k] = w
          BY <4>5, <5>2
        <5>4. k \in 1..Len(f) /\ f[k] = w
          BY <1>1, <5>3
        <5>5. CASE k < j
          BY <1>6, <4>3, <5>2, <5>4, <5>5
        <5>6. CASE k = j
          BY <5>1, <5>3, <5>6 DEF u
        <5>7. CASE k = j + 1
          <6>1. held[j + 1].client = u.client /\ held[j + 1].client > u.client /\ u.client \in Nat
            BY <4>2, <4>4, <5>1, <5>3, <5>7
          <6> QED BY <6>1
        <5>8. CASE k > j + 1
          <6>1. Less(f[j + 1], w)
            BY <1>6, <4>3, <5>4, <5>8
          <6>2. held[j + 1].client \in Nat
            BY <4>3, SentUnit
          <6>3. held[j + 1].client > u.client /\ f[j + 1] = held[j + 1] /\ w.client = u.client /\ u.client \in Nat
            BY <4>2, <4>3, <4>4, <5>1
          <6> DEFINE c == held[j + 1].client
                     d == w.client
          <6>4. c \in Nat /\ d \in Nat /\ c > d
            BY <5>1, <6>2, <6>3
          <6>5. c < d \/ c = d
            BY <6>1, <6>3 DEF Less
          <6> HIDE DEF c, d
          <6> QED BY <6>4, <6>5
        <5>9. k \in Nat /\ j \in Nat
          BY <4>3
        <5>10. k < j \/ k = j \/ k = j + 1 \/ k > j + 1
          BY <5>9
        <5> QED BY <5>5, <5>6, <5>7, <5>8, <5>10
      <4>7. ASSUME NEW v \in rcv, Before(id, Id(v)), Before(Id(v), Id(u)) PROVE FALSE
        <5>1. CASE \E k \in 1..Len(held) : held[k] = v
          BY <4>2, <4>7, <5>1
        <5>2. CASE ~\E k \in 1..Len(held) : held[k] = v
          <6>1. PICK i \in Headers(held) : i + 3 \in DOMAIN held /\ Ids(SubSeq(held, i, i + 3)) = {id}
            BY <2>3 DEF WholeIn
          <6>2. Id(held[i]) = id /\ i \in 1..Len(held)
            BY <1>2, <6>1, WholeAt DEF Headers
          <6>3. Less(v, held[i]) /\ Sent(v) /\ Sent(held[i])
            BY <1>6, <4>5, <5>2, <6>2
          <6> QED BY <4>7, <6>2, <6>3, LessId
        <5> QED BY <5>1, <5>2
      <4> QED BY <4>2, <4>3, <4>4, <4>6, <4>7 DEF Cut
    <3> QED BY <1>5, <2>3, <3>1, <3>2
  <2>4. ASSUME NEW id \in Good, Told(told, id) PROVE Told(more, id)
    <3>1. CASE message = Nothing
      BY <2>4, <3>1 DEF TellMore
    <3>2. CASE message # Nothing
      <4>1. message \in Seq(Units)
        BY <1>3, <3>2 DEF FirstOf
      <4>2. /\ Len(more) = Len(told) + 1 /\ Len(told) \in Nat
            /\ \A k \in 1..Len(told) : more[k] = told[k]
        BY <3>2, <4>1 DEF TellMore
      <4> HIDE DEF more
      <4>3. \A k \in 1..Len(told) : k \in 1..Len(more)
        BY <4>2
      <4> QED BY <2>4, <4>2, <4>3 DEF Told
    <3> QED BY <3>1, <3>2
  <2>5. ASSUME NEW id \in Good, Unit(id[1], id[2], "end") \in rcv
        PROVE  WholeIn(rest, id) \/ Told(more, id) \/ Cut(rcv, cl, id)
    BY <2>3, <2>4, <2>5 DEF AllThere
  <2> HIDE DEF more
  <2> QED BY <2>1, <2>2, <2>5 DEF AllThere
<1> HIDE DEF more
<1>10. Consistent(rest, g, rcv, more, cl, lost)
  BY <1>1, <1>4, <1>8, <1>9 DEF Consistent
<1> QED BY <1>4, <1>7, <1>8, <1>10 DEF rest, message, more, g

-----------------------------------------------------------------------------
(* The sizes of the buffer                                                    *)

\* A size of the buffer is positive and grows to another one.
LEMMA SizesOfBuffer ==
  /\ MaxSize \in Nat /\ MaxSize >= 1
  /\ BufferSize \in Sizes /\ MaxSize \in Sizes
  /\ \A s \in Sizes : s \in Nat /\ s >= 1 /\ s <= MaxSize
<1>1. BufferSize \in Nat /\ BufferSize >= 1 /\ Growth \in Nat /\ Growth >= 1
  BY SizesArePositive
<1>2. MaxSize \in Nat /\ BufferSize <= MaxSize
  BY <1>1 DEF MaxSize
<1>3. \A s \in Sizes : s \in Nat /\ s >= 1 /\ s <= MaxSize
  BY <1>2 DEF Sizes
<1>4. MaxSize \in Sizes
  <2>1. PICK k \in 0..Growth : Growth = 2 ^ k
    BY SizesArePositive
  <2>2. MaxSize = BufferSize * 2 ^ k
    BY <2>1 DEF MaxSize
  <2>3. MaxSize \in {BufferSize * 2 ^ n : n \in 0..Growth}
    BY <2>2
  <2> QED BY <1>1, <1>2, <2>3 DEF Sizes
<1>5. BufferSize \in Sizes
  <2>1. 2 ^ 0 = 1
    OBVIOUS
  <2>2. BufferSize = BufferSize * 2 ^ 0 /\ 0 \in 0..Growth
    BY <1>1, <2>1
  <2>3. BufferSize \in {BufferSize * 2 ^ n : n \in 0..Growth}
    BY <2>2
  <2> QED BY <1>1, <1>2, <2>3 DEF Sizes
<1> QED BY <1>1, <1>2, <1>3, <1>4, <1>5

\* The buffer grows to a size that is larger than what it holds.
LEMMA Growing ==
  ASSUME NEW n \in Nat, NEW old \in Sizes
  PROVE  LET grown == Min({s \in Sizes : old <= s /\ n < s} \cup {MaxSize})
         IN grown \in Sizes /\ (n < MaxSize => n < grown)
<1> DEFINE S == {s \in Sizes : old <= s /\ n < s} \cup {MaxSize}
<1>1. S \subseteq Nat /\ S # {} /\ S \subseteq Sizes
  BY SizesOfBuffer
<1>2. Min(S) \in S
  BY <1>1, Least
<1> QED BY <1>1, <1>2

-----------------------------------------------------------------------------
(* The steps                                                                  *)

\* Nothing is received, held or delivered at first.
LEMMA FramingInit == Init => FramingInv
<1> SUFFICES ASSUME Init PROVE FramingInv
  OBVIOUS
<1>1. ClientsType
  BY ConnectionsAreMessages DEF Init, ClientsType
<1>2. /\ client = 0 /\ buffer = <<>> /\ socket = <<>> /\ unsent = <<>> /\ size = BufferSize
      /\ received = {} /\ delivered = <<>> /\ ~overflowed /\ overflowed \in BOOLEAN
      /\ open \in BOOLEAN /\ connected \in BOOLEAN
  BY DEF Init
<1>3. buffer \o (socket \o unsent) = <<>>
  BY <1>2
<1>4. Consistent(<<>>, <<>>, {}, <<>>, 0, FALSE)
  BY DEF Consistent, InOrder, Ordered, AsSent, Ahead, AllThere
<1>5. Consistent(buffer, buffer \o (socket \o unsent), received, delivered, client, overflowed)
  <2>1. overflowed = FALSE
    BY <1>2
  <2> QED BY <1>2, <1>3, <1>4, <2>1, Zenon
<1>6. client \in 0..Len(clients)
  <2>1. Len(clients) \in Nat
    BY <1>1 DEF ClientsType
  <2> QED BY <1>2, <2>1
<1>7. /\ buffer \in Seq(Units) /\ socket \in Seq(Units) /\ unsent \in Seq(Units)
      /\ delivered \in Seq(Seq(Units)) /\ Len(buffer) = 0
  BY <1>2
<1>8. size \in Sizes /\ Len(buffer) < size
  BY <1>2, <1>7, SizesOfBuffer
<1> QED BY <1>1, <1>2, <1>5, <1>6, <1>7, <1>8 DEF FramingInv

\* A piece cut in two is what the two are one behind the other.
LEMMA CutInTwo ==
  ASSUME NEW s \in Seq(Units), NEW n \in 0..Len(s)
  PROVE  /\ SubSeq(s, 1, n) \in Seq(Units) /\ Len(SubSeq(s, 1, n)) = n
         /\ SubSeq(s, n + 1, Len(s)) \in Seq(Units)
         /\ s = SubSeq(s, 1, n) \o SubSeq(s, n + 1, Len(s))
<1> DEFINE a == SubSeq(s, 1, n)
           b == SubSeq(s, n + 1, Len(s))
<1>1. Len(s) \in Nat /\ n \in Nat /\ n <= Len(s)
  OBVIOUS
<1>2. /\ a \in Seq(Units) /\ Len(a) = n /\ \A i \in 1..n : a[i] = s[i]
  <2>1. a \in Seq(Units) /\ Len(a) = n
    BY <1>1
  <2>2. \A i \in 1..n : a[i] = s[i]
    BY <1>1
  <2> QED BY <2>1, <2>2
<1>3. /\ b \in Seq(Units) /\ Len(b) = Len(s) - n /\ \A i \in 1..(Len(s) - n) : b[i] = s[n + i]
  <2>1. /\ b \in Seq(Units) /\ Len(b) = Len(s) - n
    BY <1>1
  <2>2. \A i \in 1..(Len(s) - n) : b[i] = s[n + 1 + i - 1]
    BY <1>1
  <2>3. \A i \in 1..(Len(s) - n) : n + 1 + i - 1 = n + i
    BY <1>1
  <2> QED BY <2>1, <2>2, <2>3
<1> HIDE DEF a, b
<1> DEFINE f == a \o b
<1>4. /\ f \in Seq(Units) /\ Len(f) = Len(a) + Len(b)
      /\ \A i \in 1..Len(a) : f[i] = a[i]
      /\ \A i \in 1..Len(f) : i > Len(a) => i - Len(a) \in 1..Len(b) /\ f[i] = b[i - Len(a)]
  BY <1>2, <1>3, Joined
<1> HIDE DEF f
<1>5. Len(f) = Len(s)
  BY <1>1, <1>2, <1>3, <1>4
<1>6. ASSUME NEW i \in 1..Len(s) PROVE f[i] = s[i]
  <2>1. CASE i <= n
    <3>1. i \in 1..n
      BY <1>1, <2>1
    <3> QED BY <1>2, <1>4, <3>1
  <2>2. CASE i > n
    <3>1. i - n \in 1..(Len(s) - n) /\ n + (i - n) = i
      BY <1>1, <2>2
    <3>2. f[i] = b[i - n]
      BY <1>2, <1>4, <1>5, <2>2
    <3> QED BY <1>3, <3>1, <3>2
  <2> QED BY <1>1, <2>1, <2>2
<1>7. f = s
  BY <1>4, <1>5, <1>6, SeqEqual
<1> QED BY <1>2, <1>3, <1>7 DEF a, b, f

\* Pieces one behind the other.
LEMMA Regroup == \A a, b, c \in Seq(Units) : (a \o b) \o c = a \o (b \o c)
<1> DEFINE T == Units
<1> HIDE DEF T
<1>1. \A a, b, c \in Seq(T) : (a \o b) \o c = a \o (b \o c)
  BY SMTT(30)
<1> QED BY <1>1 DEF T

\* A pass over what is consistent, in an action that leaves the clients.
LEMMA AfterPass ==
  ASSUME ClientsType, delivered \in Seq(Seq(Units)), NEW units \in Seq(Units), NEW tail \in Seq(Units),
         NEW rcv, NEW cl \in Nat, NEW lost,
         Consistent(units, units \o tail, rcv, delivered, cl, lost),
         Pass(units)
  PROVE  /\ buffer' \in Seq(Units) /\ Len(buffer') <= Len(units)
         /\ delivered' \in Seq(Seq(Units))
         /\ Consistent(buffer', buffer' \o tail, rcv, delivered', cl, lost)
<1>1. /\ buffer' = Split(units).rest
      /\ delivered' = TellMore(delivered, Split(units).message)
  BY DEF Pass, TellMore
<1>2. LET rest == Split(units).rest
          more == TellMore(delivered, Split(units).message)
      IN /\ rest \in Seq(Units) /\ Len(rest) <= Len(units)
         /\ more \in Seq(Seq(Units))
         /\ Consistent(rest, rest \o tail, rcv, more, cl, lost)
  BY Passing
<1> QED BY <1>1, <1>2

\* The invariant of the next state, when the clients stay what they are.
LEMMA InvNext ==
  ASSUME clients' = clients, ClientsType, client' \in 0..Len(clients),
         buffer' \in Seq(Units), socket' \in Seq(Units), unsent' \in Seq(Units),
         size' \in Sizes, Len(buffer') < size',
         open' \in BOOLEAN, connected' \in BOOLEAN, overflowed' \in BOOLEAN,
         delivered' \in Seq(Seq(Units)),
         Consistent(buffer', buffer' \o (socket' \o unsent'), received', delivered', client', overflowed')
  PROVE  FramingInv'
<1>1. Units' = Units /\ Good' = Good
  BY DEF Units, Good
<1>2. \A u : Sent(u)' <=> Sent(u)
  BY DEF Sent
<1>3. InOrder(buffer, buffer \o (socket \o unsent), client)'
  <2>1. InOrder(buffer', buffer' \o (socket' \o unsent'), client')
    BY DEF Consistent
  <2> QED BY <1>2, <2>1 DEF InOrder, Ordered
<1>4. AsSent(delivered)'
  <2>1. AsSent(delivered')
    BY DEF Consistent
  <2> QED BY <1>1, <2>1 DEF AsSent
<1>5. Ahead(delivered, buffer \o (socket \o unsent), client)'
  BY DEF Consistent, Ahead
<1>6. /\ (\A u \in received : Sent(u) /\ u.client <= client)'
      /\ (\A i \in 1..Len(buffer) : buffer[i] \in received)'
  BY <1>2 DEF Consistent
<1>7. (overflowed \/ AllThere(buffer, buffer \o (socket \o unsent), received, delivered, client))'
  <2>1. overflowed' \/ AllThere(buffer', buffer' \o (socket' \o unsent'), received', delivered', client')
    BY DEF Consistent
  <2> QED BY <1>1, <2>1 DEF AllThere
<1>8. Consistent(buffer, buffer \o (socket \o unsent), received, delivered, client, overflowed)'
  BY <1>3, <1>4, <1>5, <1>6, <1>7 DEF Consistent
<1> QED BY <1>1, <1>8 DEF FramingInv, ClientsType

-----------------------------------------------------------------------------
\* Units move from the client to the socket.
LEMMA FramingArrive == FramingInv /\ Arrive => FramingInv'
<1> SUFFICES ASSUME FramingInv, Arrive PROVE FramingInv'
  OBVIOUS
<1>1. PICK n \in 1..Len(unsent) :
        /\ socket' = socket \o SubSeq(unsent, 1, n)
        /\ unsent' = SubSeq(unsent, n + 1, Len(unsent))
  BY DEF Arrive
<1>2. unsent \in Seq(Units) /\ socket \in Seq(Units) /\ buffer \in Seq(Units)
  BY DEF FramingInv
<1>3. socket' \in Seq(Units) /\ unsent' \in Seq(Units) /\ socket' \o unsent' = socket \o unsent
  <2> DEFINE a == SubSeq(unsent, 1, n)
             b == SubSeq(unsent, n + 1, Len(unsent))
  <2>1. a \in Seq(Units) /\ b \in Seq(Units) /\ a \o b = unsent
    <3>1. n \in 0..Len(unsent)
      BY <1>2
    <3> QED BY <1>2, <3>1, CutInTwo
  <2> HIDE DEF a, b
  <2>2. (socket \o a) \o b = socket \o (a \o b) /\ socket \o a \in Seq(Units)
    <3>1. socket \in Seq(Units) /\ a \in Seq(Units) /\ b \in Seq(Units)
      BY <1>2, <2>1
    <3>2. (socket \o a) \o b = socket \o (a \o b)
      BY <3>1, Regroup, ZenonT(40)
    <3> QED BY <3>1, <3>2, Joined
  <2> QED BY <1>1, <2>1, <2>2 DEF a, b
<1>4. UNCHANGED <<clients, client, open, connected, buffer, size, received, delivered, overflowed>>
  BY DEF Arrive
<1> QED BY <1>2, <1>3, <1>4, InvNext DEF FramingInv

\* What may go from the socket and the client with a connection.
LEMMA Gone ==
  ASSUME FramingInv, socket' = socket \/ socket' = <<>>, unsent' = <<>>,
         clients' = clients, client' = client, buffer' = buffer, size' = size,
         received' = received, delivered' = delivered, overflowed' = overflowed,
         open' \in BOOLEAN, connected' \in BOOLEAN
  PROVE  FramingInv'
<1>1. unsent \in Seq(Units) /\ socket \in Seq(Units) /\ buffer \in Seq(Units)
  BY DEF FramingInv
<1>2. socket' \in Seq(Units) /\ unsent' \in Seq(Units)
  <2>1. CASE socket' = socket
    BY <1>1, <2>1
  <2>2. CASE socket' = <<>>
    BY <2>2
  <2> QED BY <2>1, <2>2
<1> DEFINE tail == socket \o unsent
           less == socket' \o unsent'
<1>3. /\ tail \in Seq(Units) /\ less \in Seq(Units) /\ Len(less) <= Len(tail)
      /\ \A i \in 1..Len(less) : less[i] = tail[i]
  <2>1. less = socket'
    BY <1>2
  <2>2. less = socket \/ less = <<>>
    BY <2>1
  <2>3. /\ tail \in Seq(Units) /\ Len(tail) = Len(socket) + Len(unsent)
        /\ Len(socket) \in Nat /\ Len(unsent) \in Nat
        /\ \A i \in 1..Len(socket) : tail[i] = socket[i]
    BY <1>1, Joined
  <2> HIDE DEF tail, less
  <2>4. CASE less = socket
    BY <1>1, <2>3, <2>4
  <2>5. CASE less = <<>>
    BY <2>3, <2>5
  <2> QED BY <2>2, <2>4, <2>5
<1> HIDE DEF tail, less
<1>4. Consistent(buffer, buffer \o tail, received, delivered, client, overflowed)
  BY DEF FramingInv, tail
<1>5. Consistent(buffer, buffer \o less, received, delivered, client, overflowed)
  BY <1>1, <1>3, <1>4, Shorter
<1>6. Consistent(buffer', buffer' \o (socket' \o unsent'), received', delivered', client', overflowed')
  BY <1>5 DEF less
<1> QED BY <1>1, <1>2, <1>6, InvNext DEF FramingInv

\* The client goes, ...
LEMMA FramingClose == FramingInv /\ Close => FramingInv'
<1> SUFFICES ASSUME FramingInv, Close PROVE FramingInv'
  OBVIOUS
<1>1. open' \in BOOLEAN /\ connected' \in BOOLEAN
  BY DEF FramingInv, Close
<1> QED BY <1>1, Gone DEF Close

\* ... and so does the connection, with what has not been received.
LEMMA FramingDisconnect == FramingInv /\ Disconnect => FramingInv'
<1> SUFFICES ASSUME FramingInv, Disconnect PROVE FramingInv'
  OBVIOUS
<1>1. open' \in BOOLEAN /\ connected' \in BOOLEAN
  BY DEF Disconnect
<1> QED BY <1>1, Gone DEF Disconnect

\* A pass over what an earlier one left.
LEMMA FramingLookAgain == FramingInv /\ LookAgain => FramingInv'
<1> SUFFICES ASSUME FramingInv, LookAgain PROVE FramingInv'
  OBVIOUS
<1>1. /\ Pass(buffer)
      /\ UNCHANGED <<clients, unsent, open, client, socket, connected, size, received, overflowed>>
  BY DEF LookAgain, peer
<1> DEFINE tail == socket \o unsent
<1>2. /\ ClientsType /\ delivered \in Seq(Seq(Units)) /\ buffer \in Seq(Units)
      /\ socket \in Seq(Units) /\ unsent \in Seq(Units) /\ tail \in Seq(Units)
      /\ client \in 0..Len(clients) /\ client \in Nat
      /\ Consistent(buffer, buffer \o tail, received, delivered, client, overflowed)
  BY DEF FramingInv
<1> HIDE DEF tail
<1>3. /\ buffer' \in Seq(Units) /\ Len(buffer') <= Len(buffer)
      /\ delivered' \in Seq(Seq(Units))
      /\ Consistent(buffer', buffer' \o tail, received, delivered', client, overflowed)
  BY <1>1, <1>2, AfterPass
<1>4. Len(buffer') < size' /\ size' \in Sizes
  <2>1. Len(buffer) < size /\ size \in Sizes /\ size \in Nat
    BY SizesOfBuffer DEF FramingInv
  <2>2. Len(buffer) \in Nat /\ Len(buffer') \in Nat
    BY <1>2, <1>3
  <2>3. Len(buffer') <= Len(buffer)
    BY <1>3
  <2>4. size' = size
    BY <1>1
  <2> QED BY <2>1, <2>2, <2>3, <2>4
<1>5. Consistent(buffer', buffer' \o (socket' \o unsent'), received', delivered', client', overflowed')
  BY <1>1, <1>3 DEF tail
<1> QED BY <1>1, <1>2, <1>3, <1>4, <1>5, InvNext DEF FramingInv

\* The next client's stream begins.
LEMMA FramingAccept == FramingInv /\ (Accept \/ AcceptToSend) => FramingInv'
<1> SUFFICES ASSUME FramingInv, Accept \/ AcceptToSend PROVE FramingInv'
  OBVIOUS
<1>1. /\ client < Len(clients) /\ client' = client + 1
      /\ unsent' = Stream(client + 1) /\ socket' = <<>> /\ open' = TRUE /\ connected' = TRUE
      /\ UNCHANGED <<clients, size, received, overflowed>>
  <2>1. NextConnects
    BY DEF Accept, AcceptToSend
  <2>2. unsent' = Stream(client') /\ client' = client + 1
    BY <2>1 DEF NextConnects
  <2> QED BY <2>1, <2>2 DEF NextConnects
<1>2. /\ ClientsType /\ delivered \in Seq(Seq(Units)) /\ buffer \in Seq(Units)
      /\ socket \in Seq(Units) /\ unsent \in Seq(Units)
      /\ client \in 0..Len(clients)
      /\ Consistent(buffer, buffer \o (socket \o unsent), received, delivered, client, overflowed)
  BY DEF FramingInv
<1>3. Len(clients) \in Nat /\ client \in Nat /\ client + 1 \in 1..Len(clients) /\ client + 1 \in DOMAIN clients
      /\ DOMAIN clients = 1..Len(clients)
  <2>1. clients \in Seq(Seq(Kinds))
    BY <1>2 DEF ClientsType
  <2> QED BY <1>1, <1>2, <2>1
<1> DEFINE t == Stream(client + 1)
<1>4. t \in Seq(Units)
  BY <1>2, <1>3, StreamUnits
<1>5. Consistent(buffer, buffer \o <<>>, received, delivered, client, overflowed)
  <2> DEFINE tail == socket \o unsent
  <2>1. tail \in Seq(Units) /\ Len(tail) \in Nat
    BY <1>2
  <2>2. <<>> \in Seq(Units) /\ Len(<<>>) <= Len(tail) /\ \A i \in 1..Len(<<>>) : <<>>[i] = tail[i]
    BY <2>1
  <2>3. Consistent(buffer, buffer \o tail, received, delivered, client, overflowed)
    BY <1>2
  <2> HIDE DEF tail
  <2> QED BY <1>2, <2>1, <2>2, <2>3, Shorter
<1>6. Consistent(buffer, buffer \o t, received, delivered, client + 1, overflowed)
  BY <1>2, <1>3, <1>5, NextClient
<1> HIDE DEF t
<1>7. client + 1 \in Nat
  BY <1>3
<1>8. /\ buffer' \in Seq(Units) /\ Len(buffer') <= Len(buffer)
      /\ delivered' \in Seq(Seq(Units))
      /\ Consistent(buffer', buffer' \o t, received, delivered', client + 1, overflowed)
  <2>1. CASE Pass(buffer)
    BY <2>1, <1>2, <1>4, <1>6, <1>7, AfterPass
  <2>2. CASE UNCHANGED <<buffer, delivered>>
    BY <2>2, <1>2, <1>6
  <2> QED BY <2>1, <2>2 DEF Accept, AcceptToSend
<1>9. Len(buffer') < size' /\ size' \in Sizes
  <2>1. Len(buffer) < size /\ size \in Sizes /\ size \in Nat
    BY SizesOfBuffer DEF FramingInv
  <2>2. Len(buffer) \in Nat /\ Len(buffer') \in Nat
    BY <1>2, <1>8
  <2>3. Len(buffer') <= Len(buffer)
    BY <1>8
  <2>4. size' = size
    BY <1>1
  <2> QED BY <2>1, <2>2, <2>3, <2>4
<1>10. socket' \o unsent' = t /\ socket' \in Seq(Units) /\ unsent' \in Seq(Units)
  BY <1>1, <1>4 DEF t
<1>11. Consistent(buffer', buffer' \o (socket' \o unsent'), received', delivered', client', overflowed')
  BY <1>1, <1>8, <1>10
<1>12. client' \in 0..Len(clients)
  BY <1>1, <1>3
<1>13. overflowed' \in BOOLEAN /\ open' \in BOOLEAN /\ connected' \in BOOLEAN
  BY <1>1 DEF FramingInv
<1> QED BY <1>1, <1>2, <1>8, <1>9, <1>10, <1>11, <1>12, <1>13, InvNext

\* The buffer takes what is there, grows when it is full, and is passed over.
LEMMA FramingReceive == FramingInv /\ Receive => FramingInv'
<1> SUFFICES ASSUME FramingInv, Receive PROVE FramingInv'
  OBVIOUS
<1> DEFINE t == SubSeq(socket, 1, Taken)
           s == SubSeq(socket, Taken + 1, Len(socket))
           lost == overflowed \/ Overflow
           units == IF Overflow THEN <<>> ELSE Filled
           new == received \cup Range(t)
<1>1. /\ socket' = s /\ received' = new /\ size' = Grown /\ overflowed' = lost
      /\ connected' = ~SeesClose /\ Pass(units)
      /\ UNCHANGED <<clients, unsent, open, client>>
  BY DEF Receive, peer
<1>2. /\ ClientsType /\ delivered \in Seq(Seq(Units)) /\ buffer \in Seq(Units)
      /\ socket \in Seq(Units) /\ unsent \in Seq(Units)
      /\ client \in 0..Len(clients) /\ client \in Nat
      /\ Consistent(buffer, buffer \o (socket \o unsent), received, delivered, client, overflowed)
      /\ overflowed \in BOOLEAN /\ open \in BOOLEAN
      /\ size \in Sizes /\ Len(buffer) < size
  BY DEF FramingInv
<1>3. Taken \in 0..Len(socket) /\ Taken <= MaxSize - Len(buffer) /\ Len(buffer) \in Nat /\ Len(socket) \in Nat
  <2>1. Len(buffer) \in Nat /\ Len(socket) \in Nat /\ size \in Nat /\ size <= MaxSize /\ MaxSize \in Nat
    BY <1>2, SizesOfBuffer
  <2>2. MaxSize - Len(buffer) \in Nat
    BY <1>2, <2>1
  <2> DEFINE S == {Len(socket), MaxSize - Len(buffer)}
  <2>3. Min(S) \in S /\ \A n \in S : Min(S) <= n
    <3>1. S \subseteq Nat /\ S # {}
      BY <2>1, <2>2
    <3> HIDE DEF S
    <3> QED BY <3>1, Least
  <2>4. Taken = Min(S)
    BY DEF Taken
  <2> HIDE DEF Taken
  <2>5. Taken \in {Len(socket), MaxSize - Len(buffer)} /\ Taken <= Len(socket) /\ Taken <= MaxSize - Len(buffer)
    BY <2>3, <2>4
  <2> QED BY <2>1, <2>2, <2>5
<1>4. t \in Seq(Units) /\ s \in Seq(Units) /\ Len(t) = Taken /\ socket = t \o s
  <2> HIDE DEF Taken
  <2> QED BY <1>2, <1>3, CutInTwo
<1> HIDE DEF t, s
<1> DEFINE tail == s \o unsent
<1>5. tail \in Seq(Units) /\ socket \o unsent = t \o tail
  <2>1. tail \in Seq(Units)
    BY <1>2, <1>4, Joined
  <2>2. (t \o s) \o unsent = t \o (s \o unsent)
    <3>1. t \in Seq(Units) /\ s \in Seq(Units) /\ unsent \in Seq(Units)
      BY <1>2, <1>4
    <3> QED BY <3>1, Regroup, Zenon
  <2> QED BY <1>4, <2>1, <2>2
<1> HIDE DEF tail
<1>6. Consistent(buffer, buffer \o (t \o tail), received, delivered, client, overflowed)
  BY <1>2, <1>5
<1>7. Filled = buffer \o t
  BY DEF Filled, t
<1>8. Consistent(Filled, Filled \o tail, new, delivered, client, overflowed)
  BY <1>2, <1>4, <1>5, <1>6, <1>7, Taking
<1>9. Filled \in Seq(Units) /\ Len(Filled) \in Nat /\ Len(Filled) <= MaxSize
  <2>1. Filled \in Seq(Units) /\ Len(Filled) = Len(buffer) + Len(t)
    BY <1>2, <1>4, <1>7, Joined
  <2> QED BY <1>3, <1>4, <2>1, SizesOfBuffer
<1>10. units \in Seq(Units) /\ Consistent(units, units \o tail, new, delivered, client, lost)
  <2>1. CASE Overflow
    <3>1. units = <<>> /\ lost
      BY <2>1
    <3> DEFINE r == SubSeq(Filled, Len(Filled) + 1, Len(Filled))
    <3>2. Consistent(r, r \o tail, new, delivered, client, TRUE)
      <4>1. Len(Filled) \in 0..Len(Filled)
        BY <1>9
      <4> QED BY <1>5, <1>8, <1>9, <4>1, Dropping
    <3>3. r = <<>>
      BY <1>9
    <3>4. Consistent(<<>>, <<>> \o tail, new, delivered, client, TRUE)
      BY <3>2, <3>3
    <3>5. lost = TRUE
      BY <3>1
    <3> HIDE DEF units, lost, new
    <3>6. <<>> \in Seq(Units)
      OBVIOUS
    <3> QED BY <3>1, <3>4, <3>5, <3>6
  <2>2. CASE ~Overflow
    <3>1. units = Filled /\ (lost <=> overflowed)
      BY <2>2
    <3> HIDE DEF units, lost, new
    <3> QED BY <1>8, <1>9, <3>1 DEF Consistent
  <2> QED BY <2>1, <2>2
<1> HIDE DEF units
<1>11. /\ buffer' \in Seq(Units) /\ Len(buffer') <= Len(units)
       /\ delivered' \in Seq(Seq(Units))
       /\ Consistent(buffer', buffer' \o tail, new, delivered', client, lost)
  BY <1>1, <1>2, <1>5, <1>10, AfterPass
<1>12. size' \in Sizes /\ Len(buffer') < size'
  <2>1. Grown \in Sizes /\ (Len(Filled) < MaxSize => Len(Filled) < Grown)
    BY <1>2, <1>9, Growing DEF Grown
  <2>2. Grown \in Nat /\ Grown >= 1 /\ MaxSize \in Nat
    BY <2>1, SizesOfBuffer
  <2>3. Len(units) < Grown
    <3>1. CASE Overflow
      <4>1. Len(units) = 0
        BY <3>1 DEF units
      <4> QED BY <2>2, <4>1
    <3>2. CASE ~Overflow
      <4>1. units = Filled /\ Len(Filled) # MaxSize
        BY <3>2 DEF units, Overflow
      <4> QED BY <1>9, <2>1, <2>2, <4>1
    <3> QED BY <3>1, <3>2
  <2>4. Len(buffer') \in Nat /\ Len(units) \in Nat /\ Len(buffer') <= Len(units)
    BY <1>10, <1>11
  <2>5. Len(buffer') < Grown
    BY <2>2, <2>3, <2>4
  <2> QED BY <1>1, <2>1, <2>5
<1>13. Consistent(buffer', buffer' \o (socket' \o unsent'), received', delivered', client', overflowed')
  <2>1. socket' \o unsent' = tail
    BY <1>1 DEF tail
  <2> HIDE DEF lost, new
  <2> QED BY <1>1, <1>11, <2>1
<1>14. connected' \in BOOLEAN /\ overflowed' \in BOOLEAN /\ open' \in BOOLEAN
  BY <1>1, <1>2
<1>15. socket' \in Seq(Units) /\ unsent' \in Seq(Units) /\ client' \in 0..Len(clients) /\ clients' = clients
  BY <1>1, <1>2, <1>4
<1> HIDE DEF lost, new
<1> QED BY <1>2, <1>11, <1>12, <1>13, <1>14, <1>15, InvNext

-----------------------------------------------------------------------------
(* The theorems                                                               *)

\* The invariant of the stream, the buffer and what was delivered.
THEOREM FramingInvariant == Spec => []FramingInv
<1>1. FramingInv /\ [Next]_vars => FramingInv'
  <2> SUFFICES ASSUME FramingInv, [Next]_vars PROVE FramingInv'
    OBVIOUS
  <2>1. CASE vars' = vars
    BY <2>1, InvNext DEF FramingInv, vars
  <2> QED BY <2>1, FramingArrive, FramingClose, FramingAccept, FramingReceive, FramingLookAgain,
             FramingDisconnect DEF Next
<1> QED BY <1>1, FramingInit, PTL DEF Spec

\* The types, and that the buffer always has room for one more unit.
THEOREM FramingTypes == Spec => []TypeOK
<1>1. FramingInv => TypeOK
  <2> SUFFICES ASSUME FramingInv PROVE TypeOK
    OBVIOUS
  <2>1. ClientsType /\ \A u \in received : Sent(u)
    BY DEF FramingInv, Consistent
  <2>2. received \subseteq Units
    BY <2>1, SentUnit
  <2> QED BY <2>2 DEF FramingInv, TypeOK
<1> QED BY <1>1, FramingInvariant, PTL

\* What the messenger hands over is always a good message as it was sent, each at
\* most once and in order, in whatever pieces it comes and whoever went before.
THEOREM DeliveredAlways == Spec => []DeliveredAsSent
<1>1. FramingInv => DeliveredAsSent
  BY DEF FramingInv, Consistent, AsSent, DeliveredAsSent
<1> QED BY <1>1, FramingInvariant, PTL

\* A good message that was received whole is delivered or still whole in the
\* buffer, but for a full buffer and a cut in the header behind it.
THEOREM NoneLostAlways == Spec => []NoneLost
<1>1. FramingInv => NoneLost
  <2> SUFFICES ASSUME FramingInv, ~overflowed, NEW id \in Good, Received(id, "end")
               PROVE  \/ WholeIn(buffer, id)
                      \/ \E k \in 1..Len(delivered) : Ids(delivered[k]) = {id}
                      \/ CutInNextHeader(id)
    BY DEF NoneLost
  <2>1. AllThere(buffer, buffer \o (socket \o unsent), received, delivered, client)
    BY DEF FramingInv, Consistent
  <2>2. WholeIn(buffer, id) \/ Told(delivered, id) \/ Cut(received, client, id)
    BY <2>1 DEF AllThere, Received
  <2>3. Cut(received, client, id) => CutInNextHeader(id)
    <3>1. \A u : Id(u)[1] = u.client /\ Id(u)[2] = u.message
      BY DEF Id
    <3> QED BY <3>1 DEF Cut, CutInNextHeader, Received
  <2> QED BY <2>2, <2>3 DEF Told
<1> QED BY <1>1, FramingInvariant, PTL
=============================================================================
